---------------------------- MODULE AskLifecycle ----------------------------
(***************************************************************************)
(* The life of an ask: the ledger (AskTracker) composed with the goroutines*)
(* that share it: the ask, ack and answer handlers of                      *)
(* daemon-go/hub/routes_ask_lifecycle.go, the ACP completion callback of   *)
(* daemon-go/service/delivery.go, blocking waits, the redelivery workers of*)
(* daemon-go/peer/reconcile.go, and repair's removals.  Each step is one   *)
(* critical section of the tracker or the registry, or one send.           *)
(*                                                                         *)
(* Of the registry only the set of records matters here; the status a      *)
(* failed send gives its target is PeerLiveness's concern.  Replies carry a*)
(* text, not attachments alone.                                            *)
(***************************************************************************)
EXTENDS AskTracker, Naturals

CONSTANTS
  Handlers,   \* requests and ACP callbacks in progress at the same time
  Waits,      \* blocking waits in progress at the same time
  Workers,    \* redelivery workers in progress at the same time
  Twins,      \* the peers that carry the same identity tuple
  Askers,     \* the peers that send asks
  Movers,     \* the peers whose record comes and goes; the others keep theirs
  Switched,   \* the peers that may be restarted
  Watched     \* the asks that are waited on: a bound, all of them in the code

ASSUME PeerSets == \A s \in {Twins, Askers, Movers, Switched} : s \subseteq Peers
ASSUME NoPeerFresh == NoPeer \notin Peers
ASSUME WatchedAsks == Watched \subseteq Cids

VARIABLES
  reg,        \* the peers with a registry record
  acp,        \* the asks with an ACP prompt in flight
  op,         \* each handler: its step, its ask, the peer it sends to, the ask it replies to
  wait,       \* each wait: its step, its ask, the outcome it last returned
  worker,     \* each redelivery worker: its step and pass, its asker, the stashes
              \* still to send, the one being sent, the records it read
  reaped,     \* peers removed by repair whose asks it has yet to forget
  sends,      \* history: accepted redelivery sends of a stash to a peer
  lost        \* history: why an ack closed an ask after its reply failed to go out:
              \* the asker had no record (evicted) or another error; else no

procVars == <<reg, acp, op, wait, worker, reaped>>
vars == <<askVars, procVars, sends, lost>>

OpPc == {"idle", "deliver", "replyTo", "sendFailed", "answer", "notify", "capture",
         "closeMsg", "bareClose", "acpNotify", "acpError", "stash"}
WaitPc == {"idle", "answer", "expired", "resolution"}
WorkerPc == {"idle", "claim", "take", "send", "mark", "gate", "orphans"}

Reported == {"answered", "acknowledged"}   \* the outcomes a client answers with
NoCid == "no ask"
IdleOp == [pc |-> "idle", cid |-> NoCid, peer |-> NoPeer, prev |-> NoCid]
IdleWait == [pc |-> "idle", cid |-> NoCid, got |-> NoAnswer]
IdleWorker == [pc |-> "idle", pass |-> 1, asker |-> NoPeer, todo |-> {}, cur |-> NoCid, live |-> {}]

\* Every variable holds a value of its type.
TypeOK ==
  /\ AskTypeOK
  /\ reg \subseteq Peers /\ acp \subseteq Cids /\ reaped \subseteq Peers
  /\ op \in [Handlers -> [pc : OpPc, cid : Cids \cup {NoCid}, peer : Peers \cup {NoPeer},
                          prev : Cids \cup {NoCid}]]
  /\ wait \in [Waits -> [pc : WaitPc, cid : Cids \cup {NoCid}, got : Outcome \cup {NoAnswer}]]
  /\ worker \in [Workers -> [pc : WorkerPc, pass : 1 .. 2, asker : Peers \cup {NoPeer},
                             todo : SUBSET Cids, cur : Cids \cup {NoCid}, live : SUBSET Peers]]
  /\ sends \in [Cids -> [Peers -> Nat]]
  /\ lost \in [Cids -> {"no", "evicted", "error"}]

Init ==
  /\ AskInit
  /\ \E here \in SUBSET Movers : reg = (Peers \ Movers) \cup here
  /\ acp = {} /\ reaped = {}
  /\ lost = [c \in Cids |-> "no"]
  /\ op = [h \in Handlers |-> IdleOp]
  /\ wait = [w \in Waits |-> IdleWait]
  /\ worker = [k \in Workers |-> IdleWorker]
  /\ sends = [c \in Cids |-> [p \in Peers |-> 0]]

-----------------------------------------------------------------------------
(* Handlers *)

OpAt(h, pc) == op[h].pc = pc
OpGoes(h, pc, c, p) == op' = [op EXCEPT ![h] = [pc |-> pc, cid |-> c, peer |-> p, prev |-> NoCid]]
OpMoves(h, pc) ==
  op' = [op EXCEPT ![h] = [pc |-> pc, cid |-> op[h].cid, peer |-> op[h].peer, prev |-> op[h].prev]]
OpDone(h) == op' = [op EXCEPT ![h] = IdleOp]

\* What Notify to p comes to: accepted (sent or queued), ErrNotConnected with the
\* queue off, or another error: CheckAccess finds no record, the socket cannot be
\* written with the queue off, the queue cannot be written, a prompt is refused.
Notify(p) == IF p \in reg THEN {"accepted", "notConnected", "error"} ELSE {"error"}

\* An ask is registered; its handler delivers it next.  The target was looked up
\* before and may be gone, the sender need not be known.  An endpoint that is
\* stored as a name is left out, and so are questions of a peer to itself.
StartAsk(h, c, f, t, isQuestion, isPull, prev) ==
  /\ f # t
  /\ Register(c, f, t, isQuestion, isPull)
  /\ op' = [op EXCEPT ![h] = [pc |-> "deliver", cid |-> c, peer |-> t, prev |-> prev]]
  /\ UNCHANGED <<reg, acp, wait, worker, reaped, sends, lost>>

\* The ask may answer an earlier one (reply_to).
OpenAsk(h) ==
  /\ OpAt(h, "idle")
  /\ \E c \in Cids, f \in Askers, t \in Peers, prev \in Cids \cup {NoCid}, isQuestion \in BOOLEAN :
       /\ prev # NoCid => Present(prev)
       /\ StartAsk(h, c, f, t, isQuestion, FALSE, prev)

\* A turn of openAskMany's loop: a child that cannot be delivered is closed like
\* any other ask, and the loop goes on.
OpenAskMany(h) ==
  /\ OpAt(h, "idle")
  /\ \E c \in Cids, f \in Askers, t \in Peers : StartAsk(h, c, f, t, FALSE, FALSE, NoCid)

\* handleQuery asks a blocking question; its wait is one of Waits.
HandleQuery(h) ==
  /\ OpAt(h, "idle")
  /\ \E c \in Cids, f \in Askers, t \in Peers : StartAsk(h, c, f, t, TRUE, FALSE, NoCid)

\* Jobs ask with pull delivery, schedules with push.
OpenScheduledAsk(h) ==
  /\ OpAt(h, "idle")
  /\ \E c \in Cids, f \in Askers, t \in Peers, isPull \in BOOLEAN :
       StartAsk(h, c, f, t, FALSE, isPull, NoCid)

\* handleAskBlockingQuestion and the ACP permission handler: a question to the
\* human, delivered to nobody.
OpenQuestion ==
  /\ \E c \in Cids, f \in Askers, isPull \in BOOLEAN : Register(c, f, NoPeer, TRUE, isPull)
  /\ UNCHANGED <<procVars, sends, lost>>

\* What SendAsk comes to: acknowledged by the hook, or refused by it, not written
\* or not acknowledged in time.  A peer without a record has no socket.
SendAsk(p) == IF p \in reg THEN {"sent", "failed"} ELSE {"failed"}

\* DeliverAsk: prompted through the ACP broker, deferred while the target is busy,
\* or sent; it fails when CheckAccess finds no record or the prompt is refused.
DeliverAsk(h) ==
  /\ OpAt(h, "deliver")
  /\ \/ /\ "sent" \in SendAsk(op[h].peer)
        /\ acp' \in {acp, acp \cup {op[h].cid}}
        /\ IF op[h].prev = NoCid THEN OpDone(h) ELSE OpMoves(h, "replyTo")
     \/ "failed" \in SendAsk(op[h].peer) /\ OpMoves(h, "sendFailed") /\ UNCHANGED acp
  /\ UNCHANGED <<askVars, reg, wait, worker, reaped, sends, lost>>

CloseSendFailed(h) ==
  /\ OpAt(h, "sendFailed")
  /\ Close(op[h].cid, "send_failed")
  /\ OpDone(h)
  /\ UNCHANGED <<reg, acp, wait, worker, reaped, sends, lost>>

CloseReplyTo(h) ==
  /\ OpAt(h, "replyTo")
  /\ Close(op[h].prev, "reply_to")
  /\ OpDone(h)
  /\ UNCHANGED <<reg, acp, wait, worker, reaped, sends, lost>>

\* ackDirect reads the ask and decides: a question is answered, a pulled reply is
\* retained, another reply is sent to the asker, a bare ack just closes.
Ack(h) ==
  /\ OpAt(h, "idle")
  /\ \E c \in Cids, hasBody \in BOOLEAN :
       /\ Open(c)
       /\ OpGoes(h, IF c \in question THEN "answer"
                    ELSE IF ~hasBody THEN "bareClose"
                    ELSE IF c \in pull THEN "capture" ELSE "notify", c, from[c])
  /\ UNCHANGED <<askVars, reg, acp, wait, worker, reaped, sends, lost>>

\* answerDirect; the notify back to the asker changes nothing.
AnswerQuestion(h) ==
  /\ \/ OpAt(h, "answer") /\ \E outcome \in Reported :
          Answer(op[h].cid, outcome, outcome = "answered")
     \/ /\ OpAt(h, "idle")
        /\ \E c \in question, outcome \in Reported, hasText \in BOOLEAN : Answer(c, outcome, hasText)
  /\ OpDone(h)
  /\ UNCHANGED <<reg, acp, wait, worker, reaped, sends, lost>>

\* A refused reply counted as delivered.
AckNotifyCareless(h) ==
  /\ OpAt(h, "notify")
  /\ OpMoves(h, "closeMsg")
  /\ UNCHANGED <<askVars, reg, acp, wait, worker, reaped, sends, lost>>

\* The reply goes to the asker read before.  Accepted, it is captured; without a
\* connection the ask stays open for a retry; any other error closes it.
AckNotify(h) ==
  /\ OpAt(h, "notify")
  /\ \E outcome \in Notify(op[h].peer) :
       /\ \/ outcome = "accepted" /\ OpMoves(h, "capture")
          \/ outcome = "notConnected" /\ OpDone(h)
          \/ outcome = "error" /\ OpMoves(h, "closeMsg")
       /\ lost' = IF outcome = "error"
                    THEN [lost EXCEPT ![op[h].cid] = IF op[h].peer \in reg THEN "error" ELSE "evicted"]
                    ELSE lost
  /\ UNCHANGED <<askVars, reg, acp, wait, worker, reaped, sends>>

CaptureMessage(h) ==
  /\ OpAt(h, "capture")
  /\ CaptureReply(op[h].cid)
  /\ OpMoves(h, "closeMsg")
  /\ UNCHANGED <<reg, acp, wait, worker, reaped, sends, lost>>

CloseWithMessage(h) ==
  /\ OpAt(h, "closeMsg")
  /\ Close(op[h].cid, "ack_with_msg")
  /\ OpDone(h)
  /\ UNCHANGED <<reg, acp, wait, worker, reaped, sends, lost>>

CloseBare(h) ==
  /\ OpAt(h, "bareClose")
  /\ Close(op[h].cid, "ack")
  /\ OpDone(h)
  /\ UNCHANGED <<reg, acp, wait, worker, reaped, sends, lost>>

\* completeACPAsk runs when the prompt ends, with a reply or an error, and gives
\* up on an ask that was closed meanwhile.
AcpComplete(h) ==
  /\ OpAt(h, "idle")
  /\ \E c \in acp, pc \in {"acpNotify", "acpError"} :
       /\ acp' = acp \ {c}
       /\ IF Open(c) THEN OpGoes(h, pc, c, from[c]) ELSE UNCHANGED op
  /\ UNCHANGED <<askVars, reg, wait, worker, reaped, sends, lost>>

\* The reply is sent to the asker, or stashed; an error closes the ask whether or
\* not its notice could be sent.
AcpNotify(h) ==
  /\ \/ OpAt(h, "acpNotify") /\ op[h].peer \in reg /\ OpMoves(h, "capture")
     \/ OpAt(h, "acpNotify") /\ OpMoves(h, "stash")
     \/ OpAt(h, "acpError") /\ OpMoves(h, "sendFailed")
  /\ UNCHANGED <<askVars, reg, acp, wait, worker, reaped, sends, lost>>

\* The identity tuple is read from the asker's record, if it still has one.
AcpStash(h) ==
  /\ OpAt(h, "stash")
  /\ SetPendingReply(op[h].cid, op[h].peer \in reg)
  /\ OpDone(h)
  /\ UNCHANGED <<reg, acp, wait, worker, reaped, sends, lost>>

-----------------------------------------------------------------------------
(* Blocking waits *)

WaitAt(w, pc) == wait[w].pc = pc
WaitGoes(w, pc, c, got) == wait' = [wait EXCEPT ![w] = [pc |-> pc, cid |-> c, got |-> got]]
WaitReturns(w, got) == WaitGoes(w, "idle", wait[w].cid, got)

\* WaitForAnswer: what is already decided is returned at once.
WaitForAnswer(w) ==
  /\ WaitAt(w, "idle")
  /\ \E c \in question \cap Watched :
       IF Open(c)
         THEN WaiterFor(c, FALSE) /\ WaitGoes(w, "answer", c, NoAnswer)
         ELSE /\ UNCHANGED askVars
              /\ WaitGoes(w, "idle", c, IF answer[c] = NoAnswer THEN "cancelled" ELSE answer[c])
  /\ UNCHANGED <<reg, acp, op, worker, reaped, sends, lost>>

\* WaitForResolution switches an open ask to pull delivery.
WaitForResolution(w, c) ==
  /\ Open(c)
  /\ WaiterFor(c, TRUE)
  /\ WaitGoes(w, "resolution", c, NoAnswer)

\* waitOnAck, for the asker; an ask that is closed is returned at once.
WaitOnAck(w) ==
  /\ WaitAt(w, "idle")
  /\ \E c \in Watched : WaitForResolution(w, c)
  /\ UNCHANGED <<reg, acp, op, worker, reaped, sends, lost>>

WaitReceive(w) ==
  /\ ~WaitAt(w, "idle") /\ ~WaitAt(w, "expired")
  /\ Receive(wait[w].cid)
  /\ WaitReturns(w, IF WaitAt(w, "answer") THEN chan[wait[w].cid] ELSE NoAnswer)
  /\ UNCHANGED <<reg, acp, op, worker, reaped, sends, lost>>

\* The timer fires: WaitForAnswer records the default, or goes on to read why it
\* could not; WaitForResolution records nothing.
WaitTimeout(w) ==
  /\ \/ /\ WaitAt(w, "answer")
        /\ Answer(wait[w].cid, "timed_out", FALSE)
        /\ IF Answerable(wait[w].cid)
             THEN WaitReturns(w, "timed_out")
             ELSE WaitGoes(w, "expired", wait[w].cid, NoAnswer)
     \/ /\ WaitAt(w, "resolution")
        /\ UNCHANGED askVars
        /\ WaitReturns(w, NoAnswer)
  /\ UNCHANGED <<reg, acp, op, worker, reaped, sends, lost>>

\* The default returned without a look at what was recorded.
WaitDefault(w) ==
  /\ WaitAt(w, "expired")
  /\ WaitReturns(w, "timed_out")
  /\ UNCHANGED <<askVars, reg, acp, op, worker, reaped, sends, lost>>

\* The answer that won the race is returned, if the ask is still there to be read,
\* else the default.
WaitReread(w) ==
  /\ WaitAt(w, "expired")
  /\ LET c == wait[w].cid
     IN WaitReturns(w, IF Present(c) /\ answer[c] # NoAnswer THEN answer[c] ELSE "timed_out")
  /\ UNCHANGED <<askVars, reg, acp, op, worker, reaped, sends, lost>>

\* The client goes away.
WaitAborts(w) ==
  /\ ~WaitAt(w, "idle") /\ ~WaitAt(w, "expired")
  /\ WaitReturns(w, NoAnswer)
  /\ UNCHANGED <<askVars, reg, acp, op, worker, reaped, sends, lost>>

-----------------------------------------------------------------------------
(* Redelivery *)

WorkerAt(k, pc) == worker[k].pc = pc
WorkerGoes(k, pc, pass, todo, cur, live) ==
  worker' = [worker EXCEPT ![k] = [pc |-> pc, pass |-> pass, asker |-> worker[k].asker,
                                   todo |-> todo, cur |-> cur, live |-> live]]
WorkerDone(k) == worker' = [worker EXCEPT ![k] = IdleWorker]

\* AllocateAndRegister gives p a record, or finds it, and schedules a worker.
PeerRegisters(p, k) ==
  /\ WorkerAt(k, "idle")
  /\ reg' = reg \cup {p}
  /\ worker' = [worker EXCEPT ![k] = [pc |-> "claim", pass |-> 1, asker |-> p, todo |-> {},
                                      cur |-> NoCid, live |-> {}]]
  /\ UNCHANGED <<askVars, acp, op, wait, reaped, sends, lost>>

\* redeliverActive
Redelivering(p) == \E k \in Workers : worker[k].asker = p /\ ~WorkerAt(k, "claim")

\* Single-flight forgotten.
ClaimAlways(k) ==
  /\ WorkerAt(k, "claim")
  /\ WorkerGoes(k, "take", 1, {}, NoCid, {})
  /\ UNCHANGED <<askVars, reg, acp, op, wait, reaped, sends, lost>>

\* claimRedelivery: the loser returns.
Claim(k) ==
  /\ WorkerAt(k, "claim")
  /\ IF Redelivering(worker[k].asker)
       THEN WorkerDone(k)
       ELSE WorkerGoes(k, "take", 1, {}, NoCid, {})
  /\ UNCHANGED <<askVars, reg, acp, op, wait, reaped, sends, lost>>

\* Pass 1: the stashes of this very asker.
TakePending(k) ==
  /\ WorkerAt(k, "take")
  /\ WorkerGoes(k, "send", 1, TakePendingRepliesForAsker(worker[k].asker), NoCid, {})
  /\ UNCHANGED <<askVars, reg, acp, op, wait, reaped, sends, lost>>

\* deliverOneStashed: a refused stash is left for the next reconnect.
SendStashed(k) ==
  /\ WorkerAt(k, "send")
  /\ \E c \in worker[k].todo :
       LET p == worker[k].asker rest == worker[k].todo \ {c}
       IN \E outcome \in Notify(p) :
            IF outcome = "accepted"
              THEN /\ sends' = [sends EXCEPT ![c] = [sends[c] EXCEPT ![p] = sends[c][p] + 1]]
                   /\ WorkerGoes(k, "mark", worker[k].pass, rest, c, {})
              ELSE /\ UNCHANGED sends
                   /\ WorkerGoes(k, "send", worker[k].pass, rest, NoCid, {})
  /\ UNCHANGED <<askVars, reg, acp, op, wait, reaped, lost>>

MarkDelivered(k) ==
  /\ WorkerAt(k, "mark")
  /\ LET c == worker[k].cur
     IN MarkPendingReplyDelivered(c, IF worker[k].pass = 2 THEN worker[k].asker ELSE from[c])
  /\ WorkerGoes(k, "send", worker[k].pass, worker[k].todo, NoCid, {})
  /\ UNCHANGED <<reg, acp, op, wait, reaped, sends, lost>>

\* Pass 2 begins, if the asker is the only record with its identity.
RebindGate(k) ==
  /\ WorkerAt(k, "send") /\ worker[k].todo = {} /\ worker[k].pass = 1
  /\ IF worker[k].asker \in Twins /\ Twins \cap reg = {worker[k].asker}
       THEN WorkerGoes(k, "orphans", 2, {}, NoCid, reg)
       ELSE WorkerDone(k)
  /\ UNCHANGED <<askVars, reg, acp, op, wait, reaped, sends, lost>>

\* Orphans: stashes of an asker with this identity and no record.
TakeOrphans(k) ==
  /\ WorkerAt(k, "orphans")
  /\ WorkerGoes(k, "send", 2, {c \in TakeOrphanPendingReplies(worker[k].live) : from[c] \in Twins},
                NoCid, {})
  /\ UNCHANGED <<askVars, reg, acp, op, wait, reaped, sends, lost>>

WorkerEnds(k) ==
  /\ WorkerAt(k, "send") /\ worker[k].todo = {} /\ worker[k].pass = 2
  /\ WorkerDone(k)
  /\ UNCHANGED <<askVars, reg, acp, op, wait, reaped, sends, lost>>

-----------------------------------------------------------------------------
(* Removal *)

\* UnregisterPeer and the rename eviction keep the peer's asks.
PeerUnregisters(p) ==
  /\ p \in reg
  /\ reg' = reg \ {p}
  /\ UNCHANGED <<askVars, acp, op, wait, worker, reaped, sends, lost>>

\* reapDangling and evictStalePeers remove the record first ...
PeerReaped(p) ==
  /\ p \in reg
  /\ reg' = reg \ {p}
  /\ reaped' = reaped \cup {p}
  /\ UNCHANGED <<askVars, acp, op, wait, worker, sends, lost>>

\* ... and forget its asks once the registry's lock is released.
ForgetReaped(p) ==
  /\ p \in reaped
  /\ ForgetPeer(p)
  /\ reaped' = reaped \ {p}
  /\ UNCHANGED <<reg, acp, op, wait, worker, sends, lost>>

\* The stop hook's listing spares stashes; repair, which reports them lost, does
\* not.  Any ask may have grown older than the ttl.
Evict(includeStashed) ==
  /\ \E old \in SUBSET {c \in Cids : Present(c)} : old # {} /\ EvictExpired(old, includeStashed)
  /\ UNCHANGED <<procVars, sends, lost>>

\* A restart of the peer holds the barrier from BeginQuiesce to its deferred
\* EndQuiesce.
Switch(p) ==
  /\ BeginQuiesce(p) \/ (p \in quiescing /\ EndQuiesce(p))
  /\ UNCHANGED <<procVars, sends, lost>>

-----------------------------------------------------------------------------

OpStart(h) == OpenAsk(h) \/ OpenAskMany(h) \/ HandleQuery(h) \/ OpenScheduledAsk(h)

OpStep(h) ==
  \/ DeliverAsk(h) \/ CloseSendFailed(h) \/ CloseReplyTo(h) \/ AckNotify(h)
  \/ CaptureMessage(h) \/ CloseWithMessage(h) \/ CloseBare(h) \/ AcpNotify(h) \/ AcpStash(h)

WorkerStep(k) ==
  \/ Claim(k) \/ TakePending(k) \/ SendStashed(k) \/ MarkDelivered(k)
  \/ RebindGate(k) \/ TakeOrphans(k) \/ WorkerEnds(k)

Next ==
  \/ OpenQuestion
  \/ \E h \in Handlers : OpStart(h) \/ Ack(h) \/ AnswerQuestion(h) \/ AcpComplete(h) \/ OpStep(h)
  \/ \E w \in Waits : \/ WaitForAnswer(w) \/ WaitOnAck(w) \/ WaitReceive(w)
                      \/ WaitTimeout(w) \/ WaitReread(w) \/ WaitAborts(w)
  \/ \E k \in Workers : WorkerStep(k) \/ \E p \in Movers : PeerRegisters(p, k)
  \/ \E p \in Movers : PeerUnregisters(p) \/ PeerReaped(p) \/ ForgetReaped(p)
  \/ \E p \in Switched : Switch(p)
  \/ \E includeStashed \in BOOLEAN : Evict(includeStashed)

Spec == Init /\ [][Next]_vars

\* A wait whose channel has a value returns.  Nothing is assumed of the timers: a
\* wait without a timeout has none.
FairSpec == Spec /\ \A w \in Waits : WF_vars(WaitReceive(w))

-----------------------------------------------------------------------------
(* Properties *)

Waiting(w) == wait[w].pc \in {"answer", "resolution"}

\* The first terminal state of an ask stands: whatever acks, answers, timeouts,
\* callbacks and redeliveries race for it, its close reason and its answer never
\* change again until it is dropped (Close, Answer, MarkPendingReplyDelivered).
FirstTerminalWins ==
  [][\A c \in Cids : Closed(c) => ask'[c] \in {ask[c], "dropped"} /\ answer'[c] = answer[c]]_vars

\* While a peer is behind the switch barrier no open ask names it, in either
\* direction (BeginQuiesce, Register).
QuiesceBarrier == \A p \in quiescing, c \in Cids : Open(c) => ~Involves(c, p)

\* What WaitForAnswer returns is the answer the ledger recorded, also when it lands
\* while the wait times out; it returns that there is none only if none was recorded
\* or the ask has been dropped since (Answer, WaitForAnswer).
AnswerTruthful ==
  \A w \in Waits :
    LET c == wait[w].cid got == wait[w].got
    IN WaitAt(w, "idle") /\ got # NoAnswer
         => got = answer[c] \/ (got \notin Reported /\ (answer[c] = NoAnswer \/ ask[c] = "dropped"))

\* An ask closed with a message has its reply captured, or sent to its asker by a
\* redelivery worker, unless sending it failed with an error that is not a missing
\* connection (ackDirect, completeACPAsk, deliverOneStashed).
ReplyKept ==
  \A c \in Cids : ask[c] = "ack_with_msg"
    => c \in replied \/ lost[c] # "no" \/ \E p \in Peers : sends[c][p] > 0

\* No stash is accepted twice by the same asker, however many registrations
\* schedule a worker for it (claimRedelivery, MarkPendingReplyDelivered).
StashSentOnce == \A c \in Cids, p \in Peers : sends[c][p] <= 1

\* An ask as AskPromise sees it: how far it is, and whom it is between while open.
Phase(c) ==
  IF Closed(c) THEN "settled" ELSE IF ask[c] = "dropped" THEN "forgotten" ELSE ask[c]
Between(c) == IF Open(c) THEN {from[c], to[c]} ELSE {}

\* The ledger with everyone who shares it keeps what AskPromise states: an ask is
\* raised between peers outside the barrier, settled once and for all, waits are told
\* its verdict and a stash goes to a peer once, whatever the interleaving
\* (AskTracker's methods, WaitForAnswer, redeliverPendingReplies).
Promise == INSTANCE AskPromise WITH
  Parties <- Peers \cup {NoPeer},
  Answers <- Reported \cup {"timed_out"},
  Default <- "timed_out",
  Silence <- {"cancelled", "timed_out"},
  phase <- [c \in Cids |-> Phase(c)],
  parties <- [c \in Cids |-> Between(c)],
  verdict <- answer,
  told <- [w \in Waits |-> wait[w].got],
  about <- [w \in Waits |-> wait[w].cid],
  barred <- quiescing
PromiseKept == Promise!Spec

\* A wait whose ask is over finds the outcome in its channel, unless another wait on
\* the same ask took it (waiterFor, cancelWaiter, Answer).
WaiterWoken ==
  \A w \in Waits : Waiting(w) /\ ~Open(wait[w].cid) => chan[wait[w].cid] \in Outcome \cup {"drained"}

\* A wait on an ask that is closed or dropped returns, unless another wait on that ask
\* took the one outcome sent on the channel they share (cancelWaiter, Answer, waiterFor).
WaiterReturns ==
  \A w \in Waits : (Waiting(w) /\ ~Open(wait[w].cid))
                    ~> (~Waiting(w) \/ chan[wait[w].cid] = "drained")
=============================================================================
