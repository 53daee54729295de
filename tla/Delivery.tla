------------------------------- MODULE Delivery -------------------------------
(***************************************************************************)
(* Delivery to one recipient: PeerDelivery.Notify over the WebSocket       *)
(* transport, the durable queue it falls back to, the replay of that queue *)
(* on a new socket, the drain by the Stop hook or the CLI, broadcasts, and *)
(* the asks the recipient sent to an ACP broker (AcpClient), whose answers *)
(* come back as notifications.  A crash of the daemon loses what is in     *)
(* memory (calls, sockets, prompts); queued_deliveries and operations      *)
(* survive.                                                                *)
(* Statements on queued_deliveries filter by peer id, so the recipients do *)
(* not meet in the queue and one of them is enough.                        *)
(***************************************************************************)
EXTENDS AcpClient, Naturals, FiniteSets, FiniteSetsExt

CONSTANTS
    Notifies,   \* notifications posted over HTTP
    Scheds,     \* schedules, each of whose fires is a notification
    Sockets,    \* successive sockets of the recipient
    NoSock,
    Loads,      \* the workloads: which of the above a behaviour uses
    Cap,        \* delivery_queue_max_per_peer; 0 disables the queue
    TTL,        \* delivery_queue_ttl_seconds, in clock ticks; 0 disables the queue
    DrainMax,   \* max_results of a drain
    FlushMax,   \* defaultQueueMax, the rows one replay lists at most
    MaxTime, MaxCrash

Msgs == Notifies \cup Asks \cup Scheds \cup Casts

ASSUME DeliveryAssumption ==
    /\ Cap \in Nat /\ TTL \in Nat /\ DrainMax \in Nat \ {0} /\ FlushMax \in Nat \ {0}
    /\ MaxTime \in Nat /\ MaxCrash \in Nat
    /\ NoSock \notin Sockets
    /\ Notifies \cap (Asks \cup Scheds \cup Casts) = {} /\ Scheds \cap (Asks \cup Casts) = {}
    /\ Loads \subseteq SUBSET (Msgs \cup Sockets)

VARIABLES
    load,     \* the workload, chosen once
    now,
    crashes,
    rows,     \* queued_deliveries of the recipient: numbered in order of created_at
    last,     \* stamps (created_at) handed out so far
    slip,     \* the stamp of each enqueue under way
    posted,   \* stamps whose row was inserted
    handed,   \* rows written to a socket or returned by a drain
    conn,     \* the transport's socket of the recipient
    sock,     \* state of each socket
    flush,    \* where each socket's connect handler is in flushQueuedDeliveries
    todo,     \* the rows that handler has listed and not replayed yet
    pc,       \* where the Notify call of each message is
    via,      \* the socket that call looked up
    op,       \* durable operation of each ACP ask
    task,     \* the goroutine that prompts the broker
    told,     \* asks whose asker has been told an outcome
    recon     \* operations ReconcileACPInflight still has to close, at start-up

dvars == <<load, now, crashes, rows, last, slip, posted, handed, conn, sock, flush, todo, pc, via,
           op, task, told, recon, broker>>
queue == <<rows, last, slip, posted, handed>>
socks == <<conn, sock, flush, todo>>
calls == <<pc, via>>
tasks == <<op, task, told, recon>>
acp == <<tasks, broker>>
world == <<load, now, crashes>>

\* No enqueue under way.
NoSlip == [id |-> 0, at |-> 0]

DeliveryInit ==
    /\ load \in Loads /\ now = 0 /\ crashes = 0
    /\ rows = {} /\ last = 0 /\ posted = {} /\ handed = {}
    /\ slip = [m \in Msgs |-> NoSlip]
    /\ conn = NoSock
    /\ sock = [s \in Sockets |-> "new"]
    /\ flush = [s \in Sockets |-> "no"]
    /\ todo = [s \in Sockets |-> {}]
    /\ pc = [m \in Msgs |-> "idle"]
    /\ via = [m \in Msgs |-> NoSock]
    /\ op = [a \in Asks |-> "none"]
    /\ task = [a \in Asks |-> "idle"]
    /\ told = {}
    /\ recon = [a \in Asks |-> "no"]
    /\ BrokerInit

\* The daemon serves requests once start-up recovery is over.
Serving == \A a \in Asks : recon[a] \in {"no", "skip"}

(***************************************************************************)
(* queued_deliveries                                                       *)
(***************************************************************************)

Ids(R) == {r.id : r \in R}

\* The rows as the mailbox sees them.
Owed == {[id |-> r.id, end |-> r.end] : r \in rows}

\* deleteExpiredTx: rows with expires_at <= cutoff go.
Expired(R, cutoff) == {r \in R : r.at + TTL <= cutoff}
Unexpired(R, cutoff) == R \ Expired(R, cutoff)

\* The n newest rows of R (enforceCapTx) and the n oldest (selectForPeerTx).
Newest(R, n) == {r \in R : Cardinality({q \in R : q.id > r.id}) < n}
OldestOf(R, n) == {r \in R : Cardinality({q \in R : q.id < r.id}) < n}

\* EnqueueDelivery reads the clock and mints created_at from it ...
Disabled == Cap = 0 \/ TTL = 0

Stamp(m) ==
    /\ ~Disabled /\ slip[m] = NoSlip
    /\ last' = last + 1
    /\ slip' = [slip EXCEPT ![m] = [id |-> last + 1, at |-> now]]
    /\ UNCHANGED <<rows, posted, handed>>

\* ... and inserts in a transaction, possibly after an enqueue that was stamped later:
\* evict what expired by the stamp, insert, enforce the cap.  "end" is the history of
\* the row: the stamps handed out when it was committed.
EnqueueDelivery(m) ==
    /\ slip[m] # NoSlip
    /\ LET row == [id |-> slip[m].id, at |-> slip[m].at, end |-> last] IN
       rows' = Newest(Unexpired(rows, slip[m].at) \cup {row}, Cap)
    /\ posted' = posted \cup {slip[m].id}
    /\ slip' = [slip EXCEPT ![m] = NoSlip]
    /\ UNCHANGED <<last, handed>>

\* The queue is disabled, or the store fails before or in the transaction.
EnqueueFails(m) ==
    /\ slip' = [slip EXCEPT ![m] = NoSlip]
    /\ UNCHANGED <<rows, last, posted, handed>>

\* DrainDeliveries, one transaction whose cutoff was read before it began: evict
\* expired rows, read the oldest, delete them.
DrainDeliveries ==
    \E cutoff \in 0..now :
      LET left == Unexpired(rows, cutoff)
          out == OldestOf(left, DrainMax) IN
      /\ rows' = left \ out
      /\ handed' = handed \cup Ids(out)
      /\ UNCHANGED <<last, slip, posted>>

\* GET /deliveries/pending: from then on the rows are only in the response.  The Stop
\* hook and the CLI ask for it when they run; nothing makes them.
Drain ==
    /\ Serving
    /\ DrainDeliveries
    /\ UNCHANGED <<world, socks, calls, acp>>

(***************************************************************************)
(* Sockets and the replay of the queue                                     *)
(***************************************************************************)

\* The connect handler of s registers its socket; the one it supersedes is closed
\* afterwards (Lose), so its handler and a call that looked it up may still use it.
Connect(s) ==
    /\ Serving /\ s \in load
    /\ sock[s] = "new"
    /\ sock' = [sock EXCEPT ![s] = "open"]
    /\ conn' = s
    /\ flush' = [flush EXCEPT ![s] = "list"]
    /\ UNCHANGED <<world, queue, todo, calls, acp>>

\* The client, the network or a superseding Connect closes s.
Lose(s) ==
    /\ sock[s] = "open"
    /\ sock' = [sock EXCEPT ![s] = "closed"]
    /\ UNCHANGED <<world, queue, conn, flush, todo, calls, acp>>

\* The handler of s returns: Disconnect removes the socket only if it is still the
\* registered one.
Teardown(s) ==
    /\ sock[s] = "closed" /\ flush[s] \in {"over", "skipped"}
    /\ flush' = [flush EXCEPT ![s] = "gone"]
    /\ conn' = IF conn = s THEN NoSock ELSE conn
    /\ UNCHANGED <<world, queue, sock, todo, calls, acp>>

\* ListDeliveries evicts what has expired and reads the oldest; its error skips the
\* replay.  A handler whose first write (the connected frame) fails returns without one.
FlushList(s) ==
    /\ flush[s] = "list"
    /\ \/ /\ sock[s] = "open"
          /\ \E cutoff \in 0..now :
               LET left == Unexpired(rows, cutoff) IN
               /\ rows' = left
               /\ todo' = [todo EXCEPT ![s] = Ids(OldestOf(left, FlushMax))]
          /\ flush' = [flush EXCEPT ![s] = "write"]
       \/ /\ sock[s] = "open"
          /\ flush' = [flush EXCEPT ![s] = "skipped"]
          /\ UNCHANGED <<rows, todo>>
       \/ /\ sock[s] # "open"
          /\ flush' = [flush EXCEPT ![s] = "over"]
          /\ UNCHANGED <<rows, todo>>
    /\ UNCHANGED <<world, last, slip, posted, handed, conn, sock, calls, acp>>

\* The replay goes on to the next row after a failed write (mutation).
FlushWriteOn(s) ==
    /\ flush[s] = "write" /\ todo[s] # {}
    /\ \/ handed' = handed \cup {Min(todo[s])} /\ UNCHANGED todo
          /\ flush' = [flush EXCEPT ![s] = "delete"]
       \/ todo' = [todo EXCEPT ![s] = @ \ {Min(@)}] /\ UNCHANGED <<handed, flush>>
    /\ UNCHANGED <<world, rows, last, slip, posted, conn, sock, calls, acp>>

\* One frame is written; a failed write ends the replay and keeps its row.
FlushWrite(s) ==
    /\ flush[s] = "write" /\ todo[s] # {}
    /\ IF sock[s] = "open"
       THEN /\ handed' = handed \cup {Min(todo[s])}
            /\ flush' = [flush EXCEPT ![s] = "delete"]
            /\ UNCHANGED todo
       ELSE /\ flush' = [flush EXCEPT ![s] = "over"]
            /\ todo' = [todo EXCEPT ![s] = {}]
            /\ UNCHANGED handed
    /\ UNCHANGED <<world, rows, last, slip, posted, conn, sock, calls, acp>>

\* The replay ends with a row that could not be deleted (mutation).
FlushDeleteStops(s) ==
    /\ flush[s] = "delete"
    /\ \/ /\ flush' = [flush EXCEPT ![s] = "write"]
          /\ todo' = [todo EXCEPT ![s] = @ \ {Min(@)}]
          /\ rows' = {r \in rows : r.id # Min(todo[s])}
       \/ /\ flush' = [flush EXCEPT ![s] = "over"]
          /\ todo' = [todo EXCEPT ![s] = {}]
          /\ UNCHANGED rows
    /\ UNCHANGED <<world, last, slip, posted, handed, conn, sock, calls, acp>>

\* The row of the frame just written is deleted; an error there is only logged.
FlushDelete(s) ==
    /\ flush[s] = "delete"
    /\ flush' = [flush EXCEPT ![s] = "write"]
    /\ todo' = [todo EXCEPT ![s] = @ \ {Min(@)}]
    /\ rows' \in {rows, {r \in rows : r.id # Min(todo[s])}}
    /\ UNCHANGED <<world, last, slip, posted, handed, conn, sock, calls, acp>>

\* The replay is over and the read loop runs until the socket is lost.
FlushDone(s) ==
    /\ flush[s] = "write" /\ todo[s] = {}
    /\ flush' = [flush EXCEPT ![s] = "over"]
    /\ UNCHANGED <<world, queue, conn, sock, todo, calls, acp>>

(***************************************************************************)
(* PeerDelivery.Notify                                                     *)
(***************************************************************************)

\* CheckAccess refuses, or hands out a copy of the recipient's record; the seed
\* gate only delays.  The turn state in that copy decides, however old it is by
\* then: busy goes to the queue without a try.
Route(m) == pc' \in {[pc EXCEPT ![m] = p] : p \in {"done", "queue", "send"}}

HandleNotify(m) ==
    /\ Serving /\ m \in load
    /\ pc[m] = "idle"
    /\ Route(m)
    /\ UNCHANGED <<world, queue, socks, via, acp>>

\* A failed write falls back to the queue, as a missing socket does; a broadcast is
\* only reported as failed.
Fallback(m) == IF m \in Casts THEN "done" ELSE "queue"

\* Send reads the socket under the lock and writes after it.
Lookup(m) ==
    /\ pc[m] = "send"
    /\ pc' = [pc EXCEPT ![m] = IF conn = NoSock THEN Fallback(m) ELSE "write"]
    /\ via' = [via EXCEPT ![m] = conn]
    /\ UNCHANGED <<world, queue, socks, acp>>

\* Only a notification waits for a receipt.  Marking the recipient offline after a
\* failure is PeerLiveness's business.
Write(m) ==
    /\ pc[m] = "write"
    /\ pc' = [pc EXCEPT ![m] = IF sock[via[m]] # "open" THEN Fallback(m)
                               ELSE IF m \in Casts THEN "done" ELSE "ack"]
    /\ via' = [via EXCEPT ![m] = NoSock]
    /\ UNCHANGED <<world, queue, socks, acp>>

\* SendAndWaitDeliveryAck returns with the receipt, whatever it says, at the
\* timeout, or because the caller has gone.
AckWait(m) ==
    /\ pc[m] = "ack"
    /\ pc' = [pc EXCEPT ![m] = "done"]
    /\ UNCHANGED <<world, queue, socks, via, acp>>

QueueStamp(m) ==
    /\ pc[m] = "queue"
    /\ Stamp(m)
    /\ UNCHANGED <<world, socks, calls, acp>>

\* A queue that is disabled or fails gives the caller the error of the transport.
QueueNotify(m) ==
    /\ pc[m] = "queue"
    /\ EnqueueDelivery(m) \/ EnqueueFails(m)
    /\ pc' = [pc EXCEPT ![m] = "done"]
    /\ UNCHANGED <<world, socks, via, acp>>

(***************************************************************************)
(* PeerDelivery.Broadcast                                                  *)
(***************************************************************************)

\* The fan-out goes to the sockets there are, less the excluded: the sender, other
\* circles, and the peers served in another way.
FanOut(b, excluded) == pc' = [pc EXCEPT ![b] = IF excluded \/ conn = NoSock THEN "done" ELSE "send"]

\* A recipient that is still seeding is left to a goroutine of its own.
DeferBroadcast(b) == pc' = [pc EXCEPT ![b] = "seed"]

\* Prompt the ACP peer unless it is excluded or offline, then the recipient.
Broadcast(b) ==
    /\ Prompt(b) \/ UNCHANGED broker
    /\ DeferBroadcast(b) \/ \E excluded \in BOOLEAN : FanOut(b, excluded)

HandleBroadcast(b) ==
    /\ Serving /\ b \in load
    /\ pc[b] = "idle"
    /\ Broadcast(b)
    /\ UNCHANGED <<world, queue, socks, via, tasks>>

\* awaitSeedSettled ends with the first turn, the peer or its patience.
SeedSettled(b) ==
    /\ pc[b] = "seed"
    /\ pc' = [pc EXCEPT ![b] = "send"]
    /\ UNCHANGED <<world, queue, socks, via, acp>>

(***************************************************************************)
(* Asks to an ACP peer and their operations                                *)
(***************************************************************************)

\* The operation store: a queued row, and whole-row updates by its only writer.
CreateOperation(a) == op[a] = "none" /\ op' = [op EXCEPT ![a] = "queued"]
UpdateOperation(a, state) == op' = [op EXCEPT ![a] = state]
StartAttempt(a) == UpdateOperation(a, "running")
CompleteOperation(a) == UpdateOperation(a, "completed")
FailOperation(a) == UpdateOperation(a, "failed")

\* recordACPAsk creates the operation ...
RecordACPAsk(a) ==
    /\ Serving /\ a \in load
    /\ task[a] = "idle"
    /\ CreateOperation(a)
    /\ task' = [task EXCEPT ![a] = "start"]
    /\ UNCHANGED <<world, queue, socks, calls, told, recon, broker>>

\* ... and starts its attempt, or fails it and returns the error to the asker.  That
\* the operation could not be failed either is discarded.
StartACPAsk(a) ==
    /\ task[a] = "start"
    /\ \/ StartAttempt(a) /\ task' = [task EXCEPT ![a] = "prompt"] /\ UNCHANGED told
       \/ /\ \/ FailOperation(a) /\ task' = [task EXCEPT ![a] = "end"]
             \/ UNCHANGED op /\ task' = [task EXCEPT ![a] = "lost"]
          /\ told' = told \cup {a}
    /\ UNCHANGED <<world, queue, socks, calls, recon, broker>>

\* DeliverAsk hands the prompt to the broker.
PromptACPAsk(a) ==
    /\ task[a] = "prompt"
    /\ Prompt(a)
    /\ task' = [task EXCEPT ![a] = "turn"]
    /\ UNCHANGED <<world, queue, socks, calls, op, told, recon>>

\* The prompt has ended, with text or an error; the callback finds the ask closed
\* already or notifies the asker.
PromptEnds(a) ==
    /\ task[a] = "turn" /\ Ended(a)
    /\ task' = [task EXCEPT ![a] = "callback"]
    /\ Route(a)
    /\ UNCHANGED <<world, queue, socks, via, op, told, recon, broker>>

\* completeACPAsk has run: it has notified, queued, stashed or closed, or only logged
\* that it could not.
CallbackEnds(a) ==
    /\ task[a] = "callback" /\ pc[a] = "done"
    /\ task' = [task EXCEPT ![a] = "settle"]
    /\ told' = told \cup {a}
    /\ UNCHANGED <<world, queue, socks, calls, op, recon, broker>>

\* settleACPAsk fails or completes the operation after the callback and discards the
\* error of a write that failed: nobody comes back to the operation before a restart.
SettleACPAsk(a) ==
    /\ task[a] = "settle"
    /\ \/ /\ IF at[a] = "answered" THEN CompleteOperation(a) ELSE FailOperation(a)
          /\ task' = [task EXCEPT ![a] = "end"]
       \/ UNCHANGED op /\ task' = [task EXCEPT ![a] = "lost"]
    /\ UNCHANGED <<world, queue, socks, calls, told, recon, broker>>

BrokerStep(p) == PromptStep(p) \/ DropClose(p)
BrokerMoves(p) == BrokerStep(p) /\ UNCHANGED <<world, queue, socks, calls, tasks>>

\* transport.Close of the ACP peer takes its client along.
CloseACPPeer == Drop /\ UNCHANGED <<world, queue, socks, calls, tasks>>

\* ReconcileACPInflight, before the daemon serves: queue a closure for the asker ...
ReconcileStamp(a) ==
    /\ recon[a] = "queue"
    /\ Stamp(a)
    /\ UNCHANGED <<world, socks, calls, tasks, broker>>

\* The operation is failed first and the closure queued next (mutation).
ReconcileQueueLate(a) ==
    /\ recon[a] \in {"queue", "fail"} /\ slip[a] # NoSlip
    /\ IF recon[a] = "queue"
       THEN /\ op' = [op EXCEPT ![a] = "failed"]
            /\ recon' = [recon EXCEPT ![a] = "fail"]
            /\ UNCHANGED <<queue, told>>
       ELSE /\ EnqueueDelivery(a)
            /\ told' = told \cup {a}
            /\ recon' = [recon EXCEPT ![a] = "no"]
            /\ UNCHANGED op
    /\ UNCHANGED <<world, socks, calls, task, broker>>
ReconcileQueue(a) ==
    /\ recon[a] = "queue"
    /\ EnqueueDelivery(a)
    /\ told' = told \cup {a}
    /\ recon' = [recon EXCEPT ![a] = "fail"]
    /\ UNCHANGED <<world, socks, calls, op, task, broker>>

\* ... then fail the operation.
ReconcileFail(a) ==
    /\ recon[a] = "fail"
    /\ FailOperation(a)
    /\ recon' = [recon EXCEPT ![a] = "no"]
    /\ UNCHANGED <<world, queue, socks, calls, task, told, broker>>

\* The operations cannot be listed, the queue is disabled, or a write fails: the loop
\* goes on to the next operation and this one stays as it is until the next start.
ReconcileSkip(a) ==
    /\ recon[a] \in {"queue", "fail"}
    /\ EnqueueFails(a)
    /\ recon' = [recon EXCEPT ![a] = "skip"]
    /\ UNCHANGED <<world, socks, calls, op, task, told, broker>>

\* Only attempts that were started are picked up (mutation).
InflightRunning == {a \in Asks : op[a] = "running"}
\* The operations start-up recovery picks up.
Inflight == {a \in Asks : op[a] \in {"queued", "running"}}

(***************************************************************************)
(* Time and crashes                                                        *)
(***************************************************************************)

\* The bound on the clock; a broadcast is not kept, so its workloads run without one.
Horizon == IF load \cap Casts = {} THEN MaxTime ELSE 0

DeliveryTick ==
    /\ now < Horizon
    /\ now' = now + 1
    /\ UNCHANGED <<load, crashes, queue, socks, calls, acp>>

\* The daemon stops and starts again: calls and tasks are gone, sockets closed.
DeliveryCrash ==
    /\ crashes < MaxCrash
    /\ crashes' = crashes + 1
    /\ conn' = NoSock
    /\ sock' = [s \in Sockets |-> IF sock[s] = "open" THEN "closed" ELSE sock[s]]
    /\ flush' = [s \in Sockets |-> IF flush[s] = "no" THEN "no" ELSE "gone"]
    /\ todo' = [s \in Sockets |-> {}]
    /\ pc' = [m \in Msgs |-> IF pc[m] = "idle" THEN "idle" ELSE "done"]
    /\ via' = [m \in Msgs |-> NoSock]
    /\ task' = [a \in Asks |-> IF task[a] = "idle" THEN "idle" ELSE "end"]
    /\ recon' = [a \in Asks |-> IF a \in Inflight THEN "queue" ELSE "no"]
    /\ slip' = [m \in Msgs |-> NoSlip]
    /\ BrokerCrash
    /\ UNCHANGED <<load, now, rows, last, posted, handed, op, told>>

CallStep(m) == Lookup(m) \/ Write(m) \/ AckWait(m) \/ QueueStamp(m) \/ QueueNotify(m) \/ SeedSettled(m)
FlushStep(s) ==
    FlushList(s) \/ FlushWrite(s) \/ FlushDelete(s) \/ FlushDone(s) \/ Teardown(s)
AcpStep(a) == StartACPAsk(a) \/ PromptACPAsk(a) \/ PromptEnds(a) \/ CallbackEnds(a) \/ SettleACPAsk(a)
ReconStep(a) ==
    ReconcileStamp(a) \/ ReconcileQueue(a) \/ ReconcileFail(a) \/ ReconcileSkip(a)

DeliveryStep ==
    \/ Drain
    \/ \E s \in Sockets : Connect(s) \/ Lose(s) \/ FlushStep(s)
    \/ \E m \in Notifies : HandleNotify(m)
    \/ \E m \in Msgs : CallStep(m)
    \/ \E a \in Asks : RecordACPAsk(a) \/ AcpStep(a) \/ ReconStep(a)
    \/ \E b \in Casts : HandleBroadcast(b)
    \/ \E p \in Prompts : BrokerMoves(p)
    \/ CloseACPPeer

(***************************************************************************)
(* Properties                                                              *)
(***************************************************************************)

DeliveryTypeOK ==
    /\ load \in Loads /\ now \in 0..MaxTime /\ crashes \in 0..MaxCrash
    /\ last \in Nat
    /\ rows \subseteq [id : posted, at : 0..now, end : 1..last]
    /\ slip \in [Msgs -> [id : 0..last, at : 0..now]]
    /\ posted \subseteq 1..last /\ handed \subseteq posted
    /\ conn \in Sockets \cup {NoSock}
    /\ sock \in [Sockets -> {"new", "open", "closed"}]
    /\ flush \in [Sockets -> {"no", "list", "write", "delete", "over", "skipped", "gone"}]
    /\ todo \in [Sockets -> SUBSET posted]
    /\ pc \in [Msgs -> {"idle", "seed", "send", "write", "ack", "queue", "done"}]
    /\ via \in [Msgs -> Sockets \cup {NoSock}]
    /\ op \in [Asks -> {"none", "queued", "running", "failed", "completed"}]
    /\ task \in [Asks -> {"idle", "start", "prompt", "turn", "callback", "settle", "end", "lost"}]
    /\ told \subseteq Asks
    /\ recon \in [Asks -> {"no", "queue", "fail", "skip"}]
    /\ BrokerTypeOK

\* The queue implements the mailbox: at least once, what was accepted before another
\* enqueue began handed over before it, dropped only from the old end, never above the
\* cap.
Box == INSTANCE Mailbox WITH begun <- last, accepted <- posted, owed <- Owed
BoxSpec == Box!Spec

\* An operation is closed only after its asker was told an outcome: by the callback
\* of the prompt, by the error of its request, or by the closure queued at start-up,
\* whatever the step a crash falls between.
AcpAskerTold == \A a \in Asks : op[a] \in {"failed", "completed"} => a \in told

\* A socket that connects gets the queue: whatever is queued when the replay begins is
\* handed over or dropped by the queue's limits, unless the socket is lost or the list
\* could not be read.  (A cap above the limit of a list leaves the rest to the next
\* replay; a delivery queued after the list waits for the next replay or drain, and
\* nothing in the daemon brings one about.)  It follows the first Cap deliveries: the
\* workloads with a socket make no more.
ReplayedOnConnect ==
    Cap <= FlushMax =>
      \A s \in Sockets, i \in 1..Cap :
        (flush[s] = "list" /\ sock[s] = "open" /\ i \in Ids(rows))
          ~> (i \in handed \/ i \notin Ids(rows) \/ sock[s] # "open" \/ flush[s] = "skipped")

\* Every recorded ACP ask is closed in the end, also when a crash took the task that
\* would have closed it, unless a write failed: of the task that settled it, or of the
\* recovery at the last start-up, which also skips what a disabled queue cannot close.
AcpResolved ==
    \A a \in Asks :
      (op[a] \in {"queued", "running"})
        ~> (op[a] \in {"failed", "completed"} \/ task[a] = "lost" \/ recon[a] = "skip")
==============================================================================
