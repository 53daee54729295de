------------------------ MODULE AskLifecycle_proofs ------------------------
(***************************************************************************)
(* Proofs about AskLifecycle, for any sets of correlation ids, peers,      *)
(* handlers, waits and workers.  The goroutines touch the ledger only      *)
(* through the methods of AskTracker, so the argument has two layers:      *)
(* every method respects the ledger's contract (LedgerContract, OverKept), *)
(* and every action is one method call or leaves the ledger alone.  What   *)
(* waits return, which replies are kept and how often a stash is sent then *)
(* follow from an invariant of the goroutines beside the ledger (Inv).     *)
(***************************************************************************)
EXTENDS AskLifecycle, TLAPS

\* What one critical section of the tracker may do.  A closed ask keeps its answer,
\* and its reason unless it is dropped; an ask that is open afterwards was open before
\* between the same peers, or was registered between unbarred ones; a peer goes
\* behind the barrier only while no open ask names it.
TerminalKept(c) ==
  Closed(c) => ask'[c] \in {ask[c], "dropped"} /\ answer'[c] = answer[c]
OpenedUnbarred(c) ==
  ask'[c] = "open" => \/ Open(c) /\ from'[c] = from[c] /\ to'[c] = to[c]
                      \/ ~Barred(from'[c], to'[c]) /\ quiescing' = quiescing
BarrierClear(c) == \A p \in quiescing' \ quiescing : ~(Open(c) /\ Involves(c, p))
LedgerContract == \A c \in Cids : TerminalKept(c) /\ OpenedUnbarred(c) /\ BarrierClear(c)


\* A step that leaves the ledger alone respects the contract.
LEMMA IdleContract == ASSUME UNCHANGED askVars PROVE LedgerContract
  BY DEF askVars, content, LedgerContract, TerminalKept, OpenedUnbarred, BarrierClear, Open, Closed

\* Register respects the contract: it refuses a barred endpoint.
LEMMA RegisterContract ==
  ASSUME AskTypeOK, NEW c \in Cids, NEW f, NEW t, NEW q, NEW l, Register(c, f, t, q, l)
  PROVE  LedgerContract
  BY DEF AskTypeOK, Register, LedgerContract, TerminalKept, OpenedUnbarred, BarrierClear,
         Open, Closed, CloseReason, Barred

\* Close respects the contract: it closes open asks only.
LEMMA CloseContract ==
  ASSUME AskTypeOK, NEW c, NEW reason \in CloseReason, Close(c, reason)
  PROVE  LedgerContract
  BY DEF AskTypeOK, Close, content, LedgerContract, TerminalKept, OpenedUnbarred, BarrierClear,
         Open, Closed, CloseReason

\* Answer respects the contract: it records nothing on a closed ask.
LEMMA AnswerContract ==
  ASSUME AskTypeOK, NEW c, NEW outcome, NEW hasText, Answer(c, outcome, hasText)
  PROVE  LedgerContract
  BY DEF AskTypeOK, Answer, Answerable, Record, LedgerContract, TerminalKept, OpenedUnbarred,
         BarrierClear, Open, Closed, CloseReason

\* The methods that leave the state, the endpoints, the answers and the barrier
\* alone respect the contract.
LEMMA QuietContract ==
  ASSUME UNCHANGED <<ask, from, to, answer, quiescing>>
  PROVE  LedgerContract
  BY DEF LedgerContract, TerminalKept, OpenedUnbarred, BarrierClear, Open, Closed

\* A delivered stash respects the contract: only an ask it closes changes hands.
LEMMA MarkContract ==
  ASSUME AskTypeOK, NEW c, NEW asker, MarkPendingReplyDelivered(c, asker)
  PROVE  LedgerContract
  BY DEF AskTypeOK, MarkPendingReplyDelivered, LedgerContract, TerminalKept, OpenedUnbarred,
         BarrierClear, Open, Closed, CloseReason

\* A removal respects the contract.
LEMMA DropContract ==
  ASSUME NEW cs, Drop(cs)
  PROVE  LedgerContract
  BY DEF Drop, LedgerContract, TerminalKept, OpenedUnbarred, BarrierClear, Open, Closed

\* BeginQuiesce respects the contract: it looks for open asks in the same critical
\* section.
LEMMA BeginQuiesceContract ==
  ASSUME NEW p, BeginQuiesce(p)
  PROVE  LedgerContract
  BY DEF BeginQuiesce, content, LedgerContract, TerminalKept, OpenedUnbarred, BarrierClear,
         Open, Closed

\* EndQuiesce respects the contract.
LEMMA EndQuiesceContract ==
  ASSUME NEW p, EndQuiesce(p)
  PROVE  LedgerContract
  BY DEF EndQuiesce, content, LedgerContract, TerminalKept, OpenedUnbarred, BarrierClear,
         Open, Closed

-----------------------------------------------------------------------------

\* A goroutine that is in the middle of something holds the ask it works on.
BusyHasAsk ==
  /\ \A h \in Handlers : op[h].pc # "idle" => op[h].cid \in Cids
  /\ \A w \in Waits : wait[w].pc # "idle" => wait[w].cid \in Cids

Typed == TypeOK /\ BusyHasAsk

\* Every action is a call of one method of the tracker, or leaves the ledger alone;
\* so every step respects the contract.
LEMMA StepContract ==
  ASSUME TypeOK, [Next]_vars
  PROVE  LedgerContract
<1> USE DEF TypeOK
<1>1. CASE OpenQuestion
  BY <1>1, RegisterContract DEF OpenQuestion
<1>2. ASSUME NEW h \in Handlers,
             OpStart(h) \/ Ack(h) \/ AnswerQuestion(h) \/ AcpComplete(h) \/ OpStep(h)
      PROVE  LedgerContract
  <2>1. CASE OpStart(h)
    BY <2>1, RegisterContract
    DEF OpStart, OpenAsk, OpenAskMany, HandleQuery, OpenScheduledAsk, StartAsk
  <2>2. CASE Ack(h)
    BY <2>2, IdleContract DEF Ack
  <2>3. CASE AnswerQuestion(h)
    BY <2>3, AnswerContract DEF AnswerQuestion
  <2>4. CASE AcpComplete(h)
    BY <2>4, IdleContract DEF AcpComplete
  <2>5. CASE DeliverAsk(h) \/ AckNotify(h) \/ AcpNotify(h)
    BY <2>5, IdleContract DEF DeliverAsk, AckNotify, AcpNotify
  <2>6. CASE CloseSendFailed(h)
    BY <2>6, CloseContract DEF CloseSendFailed, CloseReason
  <2>7. CASE CloseReplyTo(h)
    BY <2>7, CloseContract DEF CloseReplyTo, CloseReason
  <2>8. CASE CloseWithMessage(h)
    BY <2>8, CloseContract DEF CloseWithMessage, CloseReason
  <2>9. CASE CloseBare(h)
    BY <2>9, CloseContract DEF CloseBare, CloseReason
  <2>10. CASE CaptureMessage(h) \/ AcpStash(h)
    BY <2>10, QuietContract DEF CaptureMessage, CaptureReply, AcpStash, SetPendingReply
  <2> QED BY <1>2, <2>1, <2>2, <2>3, <2>4, <2>5, <2>6, <2>7, <2>8, <2>9, <2>10 DEF OpStep
<1>3. ASSUME NEW w \in Waits,
             \/ WaitForAnswer(w) \/ WaitOnAck(w) \/ WaitReceive(w)
             \/ WaitTimeout(w) \/ WaitReread(w) \/ WaitAborts(w)
      PROVE  LedgerContract
  <2>1. CASE WaitForAnswer(w)
    BY <2>1, QuietContract DEF WaitForAnswer, WaiterFor, askVars, content
  <2>2. CASE WaitOnAck(w) \/ WaitReceive(w)
    BY <2>2, QuietContract DEF WaitOnAck, WaitForResolution, WaiterFor, WaitReceive, Receive, content
  <2>3. CASE WaitTimeout(w)
    BY <2>3, AnswerContract, IdleContract DEF WaitTimeout
  <2>4. CASE WaitReread(w) \/ WaitAborts(w)
    BY <2>4, IdleContract DEF WaitReread, WaitAborts
  <2> QED BY <1>3, <2>1, <2>2, <2>3, <2>4
<1>4. ASSUME NEW k \in Workers, WorkerStep(k) \/ \E p \in Movers : PeerRegisters(p, k)
      PROVE  LedgerContract
  <2>1. CASE MarkDelivered(k)
    BY <2>1, MarkContract DEF MarkDelivered
  <2>2. CASE \/ Claim(k) \/ TakePending(k) \/ SendStashed(k) \/ RebindGate(k)
             \/ TakeOrphans(k) \/ WorkerEnds(k) \/ \E p \in Movers : PeerRegisters(p, k)
    BY <2>2, IdleContract
       DEF Claim, TakePending, SendStashed, RebindGate, TakeOrphans, WorkerEnds, PeerRegisters
  <2> QED BY <1>4, <2>1, <2>2 DEF WorkerStep
<1>5. ASSUME NEW p \in Movers, PeerUnregisters(p) \/ PeerReaped(p) \/ ForgetReaped(p)
      PROVE  LedgerContract
  BY <1>5, IdleContract, DropContract DEF PeerUnregisters, PeerReaped, ForgetReaped, ForgetPeer
<1>6. ASSUME NEW p \in Switched, Switch(p)
      PROVE  LedgerContract
  BY <1>6, BeginQuiesceContract, EndQuiesceContract DEF Switch
<1>7. ASSUME NEW s \in BOOLEAN, Evict(s)
      PROVE  LedgerContract
  BY <1>7, DropContract DEF Evict, EvictExpired
<1>8. CASE UNCHANGED vars
  BY <1>8, IdleContract DEF vars
<1> QED BY <1>1, <1>2, <1>3, <1>4, <1>5, <1>6, <1>7, <1>8 DEF Next

\* The contract keeps the barrier.
LEMMA BarrierStep ==
  ASSUME QuiesceBarrier, LedgerContract
  PROVE  QuiesceBarrier'
  BY DEF QuiesceBarrier, LedgerContract, OpenedUnbarred, BarrierClear, Open, Involves, Barred

-----------------------------------------------------------------------------
(* Types *)

(* Each method of the tracker keeps the ledger's type. *)

\* Register keeps the type: its endpoints are peers or the human.
LEMMA RegisterType ==
  ASSUME AskTypeOK, NEW c \in Cids, NEW f \in Peers \cup {NoPeer}, NEW t \in Peers \cup {NoPeer},
         NEW q, NEW l, Register(c, f, t, q, l)
  PROVE  AskTypeOK'
  BY DEF AskTypeOK, Register, With

\* Close keeps the type: its reason is a close reason.
LEMMA CloseType ==
  ASSUME AskTypeOK, NEW c, NEW reason \in CloseReason, Close(c, reason)
  PROVE  AskTypeOK'
  BY DEF AskTypeOK, Close, content, cancelWaiter, Send, Outcome

\* Answer keeps the type: an outcome is recorded and sent.
LEMMA AnswerType ==
  ASSUME AskTypeOK, NEW c \in Cids, NEW outcome \in Outcome, NEW hasText, Answer(c, outcome, hasText)
  PROVE  AskTypeOK'
  BY DEF AskTypeOK, Answer, Record, Send, With, CloseReason

\* A delivered stash keeps the type: the new asker is a peer.
LEMMA MarkType ==
  ASSUME AskTypeOK, NEW c, NEW asker \in Peers \cup {NoPeer}, MarkPendingReplyDelivered(c, asker)
  PROVE  AskTypeOK'
  BY DEF AskTypeOK, MarkPendingReplyDelivered, cancelWaiter, Send, Outcome, CloseReason

\* A removal keeps the type: the waiters get an outcome.
LEMMA DropType ==
  ASSUME AskTypeOK, NEW cs, Drop(cs)
  PROVE  AskTypeOK'
  BY DEF AskTypeOK, Drop, cancelWaiter, Send, Outcome

\* waiterFor keeps the type.
LEMMA WaiterForType ==
  ASSUME AskTypeOK, NEW c \in Cids, NEW l, WaiterFor(c, l)
  PROVE  AskTypeOK'
  BY DEF AskTypeOK, WaiterFor, With

\* Capturing, stashing and receiving keep the type.
LEMMA ReplyType ==
  ASSUME AskTypeOK, NEW c \in Cids, NEW i, CaptureReply(c) \/ SetPendingReply(c, i) \/ Receive(c)
  PROVE  AskTypeOK'
  BY DEF AskTypeOK, CaptureReply, SetPendingReply, Receive, content, With

\* So does leaving the ledger alone.
LEMMA IdleType == ASSUME AskTypeOK, UNCHANGED askVars PROVE AskTypeOK'
  BY DEF AskTypeOK, askVars, content

\* The barrier holds peers only.
LEMMA QuiesceType ==
  ASSUME AskTypeOK, NEW p \in Peers, BeginQuiesce(p) \/ EndQuiesce(p)
  PROVE  AskTypeOK'
  BY DEF AskTypeOK, BeginQuiesce, EndQuiesce, content

\* What the goroutines keep beside the ledger.
OpRec == [pc : OpPc, cid : Cids \cup {NoCid}, peer : Peers \cup {NoPeer}, prev : Cids \cup {NoCid}]
WaitRec == [pc : WaitPc, cid : Cids \cup {NoCid}, got : Outcome \cup {NoAnswer}]
WorkerRec == [pc : WorkerPc, pass : 1 .. 2, asker : Peers \cup {NoPeer}, todo : SUBSET Cids,
              cur : Cids \cup {NoCid}, live : SUBSET Peers]
ProcTypeOK ==
  /\ reg \subseteq Peers /\ acp \subseteq Cids /\ reaped \subseteq Peers
  /\ op \in [Handlers -> OpRec] /\ wait \in [Waits -> WaitRec] /\ worker \in [Workers -> WorkerRec]
  /\ sends \in [Cids -> [Peers -> Nat]] /\ lost \in [Cids -> {"no", "evicted", "error"}]

\* A handler's step keeps the handlers typed and busy with an ask.
LEMMA OpType ==
  ASSUME Typed, NEW h \in Handlers, NEW r \in OpRec, r.pc # "idle" => r.cid \in Cids,
         op' = [op EXCEPT ![h] = r]
  PROVE  /\ op' \in [Handlers -> OpRec]
         /\ \A g \in Handlers : op'[g].pc # "idle" => op'[g].cid \in Cids
  BY DEF Typed, TypeOK, BusyHasAsk, OpRec

\* A wait's step keeps the waits typed and busy with an ask.
LEMMA WaitType ==
  ASSUME Typed, NEW w \in Waits, NEW r \in WaitRec, r.pc # "idle" => r.cid \in Cids,
         wait' = [wait EXCEPT ![w] = r]
  PROVE  /\ wait' \in [Waits -> WaitRec]
         /\ \A g \in Waits : wait'[g].pc # "idle" => wait'[g].cid \in Cids
  BY DEF Typed, TypeOK, BusyHasAsk, WaitRec

\* A worker's step keeps the workers typed.
LEMMA WorkerType ==
  ASSUME Typed, NEW k \in Workers, NEW r \in WorkerRec, worker' = [worker EXCEPT ![k] = r]
  PROVE  worker' \in [Workers -> WorkerRec]
  BY DEF Typed, TypeOK, WorkerRec

\* A handler's moves as they are used by its actions.
LEMMA OpMoveType ==
  ASSUME Typed, NEW h \in Handlers,
         \/ OpDone(h)
         \/ op[h].pc # "idle" /\ \E pc \in OpPc : OpMoves(h, pc)
         \/ \E pc \in OpPc, c \in Cids : OpGoes(h, pc, c, from[c])
  PROVE  /\ op' \in [Handlers -> OpRec]
         /\ \A g \in Handlers : op'[g].pc # "idle" => op'[g].cid \in Cids
<1>1. CASE OpDone(h)
  BY <1>1, OpType DEF OpDone, IdleOp, OpRec, OpPc
<1>2. ASSUME op[h].pc # "idle", NEW pc \in OpPc, OpMoves(h, pc)
      PROVE  /\ op' \in [Handlers -> OpRec]
             /\ \A g \in Handlers : op'[g].pc # "idle" => op'[g].cid \in Cids
  <2> DEFINE r == [pc |-> pc, cid |-> op[h].cid, peer |-> op[h].peer, prev |-> op[h].prev]
  <2>1. r \in OpRec /\ r.cid \in Cids
    BY <1>2 DEF Typed, TypeOK, BusyHasAsk, OpRec
  <2>2. op' = [op EXCEPT ![h] = r]
    BY <1>2 DEF OpMoves
  <2> HIDE DEF r
  <2> QED BY <2>1, <2>2, OpType
<1>3. ASSUME NEW pc \in OpPc, NEW c \in Cids, OpGoes(h, pc, c, from[c])
      PROVE  /\ op' \in [Handlers -> OpRec]
             /\ \A g \in Handlers : op'[g].pc # "idle" => op'[g].cid \in Cids
  <2> DEFINE r == [pc |-> pc, cid |-> c, peer |-> from[c], prev |-> NoCid]
  <2>1. r \in OpRec /\ r.cid \in Cids
    BY <1>3 DEF Typed, TypeOK, AskTypeOK, OpRec
  <2>2. op' = [op EXCEPT ![h] = r]
    BY <1>3 DEF OpGoes
  <2> HIDE DEF r
  <2> QED BY <2>1, <2>2, OpType
<1> QED BY <1>1, <1>2, <1>3

\* A wait's moves as they are used by its actions.
LEMMA WaitMoveType ==
  ASSUME Typed, NEW w \in Waits, NEW pc \in WaitPc, NEW c \in Cids,
         NEW got \in Outcome \cup {NoAnswer}, WaitGoes(w, pc, c, got)
  PROVE  /\ wait' \in [Waits -> WaitRec]
         /\ \A g \in Waits : wait'[g].pc # "idle" => wait'[g].cid \in Cids
<1> DEFINE r == [pc |-> pc, cid |-> c, got |-> got]
<1>1. r \in WaitRec /\ r.cid \in Cids
  BY DEF WaitRec
<1>2. wait' = [wait EXCEPT ![w] = r]
  BY DEF WaitGoes
<1> HIDE DEF r
<1> QED BY <1>1, <1>2, WaitType

\* A worker's moves as they are used by its actions.
LEMMA WorkerMoveType ==
  ASSUME Typed, NEW k \in Workers,
         \/ WorkerDone(k)
         \/ \E pc \in WorkerPc, pass \in 1 .. 2, todo \in SUBSET Cids,
               cur \in Cids \cup {NoCid}, live \in SUBSET Peers :
              WorkerGoes(k, pc, pass, todo, cur, live)
  PROVE  worker' \in [Workers -> WorkerRec]
<1>1. CASE WorkerDone(k)
  <2>1. IdleWorker \in WorkerRec
    BY DEF IdleWorker, WorkerRec, WorkerPc
  <2> QED BY <1>1, <2>1, WorkerType DEF WorkerDone
<1>2. ASSUME NEW pc \in WorkerPc, NEW pass \in 1 .. 2, NEW todo \in SUBSET Cids,
             NEW cur \in Cids \cup {NoCid}, NEW live \in SUBSET Peers,
             WorkerGoes(k, pc, pass, todo, cur, live)
      PROVE  worker' \in [Workers -> WorkerRec]
  <2> DEFINE r == [pc |-> pc, pass |-> pass, asker |-> worker[k].asker, todo |-> todo,
                   cur |-> cur, live |-> live]
  <2>1. r \in WorkerRec
    BY <1>2 DEF Typed, TypeOK, WorkerRec
  <2>2. worker' = [worker EXCEPT ![k] = r]
    BY <1>2 DEF WorkerGoes
  <2> HIDE DEF r
  <2> QED BY <2>1, <2>2, WorkerType
<1> QED BY <1>1, <1>2

\* Initially everything is typed and nobody is busy.
LEMMA TypedInit == Init => Typed
<1> SUFFICES ASSUME Init PROVE Typed
  OBVIOUS
<1>1. AskTypeOK
  BY DEF Init, AskInit, AskTypeOK
<1>2. ProcTypeOK
  <2>1. reg \subseteq Peers /\ acp \subseteq Cids /\ reaped \subseteq Peers
    BY PeerSets DEF Init
  <2>2. IdleOp \in OpRec /\ IdleWait \in WaitRec
    BY DEF IdleOp, OpRec, OpPc, IdleWait, WaitRec, WaitPc
  <2>3. IdleWorker \in WorkerRec
    BY DEF IdleWorker, WorkerRec, WorkerPc
  <2>4. op \in [Handlers -> OpRec] /\ wait \in [Waits -> WaitRec] /\ worker \in [Workers -> WorkerRec]
    BY <2>2, <2>3 DEF Init
  <2>5. sends \in [Cids -> [Peers -> Nat]] /\ lost \in [Cids -> {"no", "evicted", "error"}]
    BY DEF Init
  <2> QED BY <2>1, <2>4, <2>5 DEF ProcTypeOK
<1>3. BusyHasAsk
  BY DEF Init, BusyHasAsk, IdleOp, IdleWait
<1> QED BY <1>1, <1>2, <1>3 DEF Typed, TypeOK, ProcTypeOK, OpRec, WaitRec, WorkerRec

\* The parts of Typed, as the steps below establish them.
LEMMA TypedParts ==
  Typed <=> AskTypeOK /\ ProcTypeOK /\ BusyHasAsk
  BY DEF Typed, TypeOK, ProcTypeOK, OpRec, WaitRec, WorkerRec

\* Steps that touch only the handlers, the prompts in flight and the reasons kept in
\* lost, beside the ledger.
LEMMA HandlerTyped ==
  ASSUME Typed, AskTypeOK', acp' \subseteq Cids, op' \in [Handlers -> OpRec],
         \A g \in Handlers : op'[g].pc # "idle" => op'[g].cid \in Cids,
         lost' \in [Cids -> {"no", "evicted", "error"}],
         UNCHANGED <<reg, wait, worker, reaped, sends>>
  PROVE  Typed'
<1>1. ProcTypeOK'
  BY TypedParts DEF ProcTypeOK
<1>2. BusyHasAsk'
  BY TypedParts DEF BusyHasAsk
<1>3. AskTypeOK' /\ ProcTypeOK' /\ BusyHasAsk' => Typed'
  BY DEF Typed, TypeOK, ProcTypeOK, OpRec, WaitRec, WorkerRec
<1> QED BY <1>1, <1>2, <1>3

\* Steps that touch only the waits beside the ledger.
LEMMA WaitTyped ==
  ASSUME Typed, AskTypeOK', wait' \in [Waits -> WaitRec],
         \A g \in Waits : wait'[g].pc # "idle" => wait'[g].cid \in Cids,
         UNCHANGED <<reg, acp, op, worker, reaped, sends, lost>>
  PROVE  Typed'
<1>1. ProcTypeOK'
  BY TypedParts DEF ProcTypeOK
<1>2. BusyHasAsk'
  BY TypedParts DEF BusyHasAsk
<1>3. AskTypeOK' /\ ProcTypeOK' /\ BusyHasAsk' => Typed'
  BY DEF Typed, TypeOK, ProcTypeOK, OpRec, WaitRec, WorkerRec
<1> QED BY <1>1, <1>2, <1>3

\* Steps that touch only the records, the workers and their sends beside the ledger.
LEMMA WorkerTyped ==
  ASSUME Typed, AskTypeOK', reg' \subseteq Peers, reaped' \subseteq Peers,
         worker' \in [Workers -> WorkerRec], sends' \in [Cids -> [Peers -> Nat]],
         UNCHANGED <<acp, op, wait, lost>>
  PROVE  Typed'
<1>1. ProcTypeOK'
  BY TypedParts DEF ProcTypeOK
<1>2. BusyHasAsk'
  BY TypedParts DEF BusyHasAsk
<1>3. AskTypeOK' /\ ProcTypeOK' /\ BusyHasAsk' => Typed'
  BY DEF Typed, TypeOK, ProcTypeOK, OpRec, WaitRec, WorkerRec
<1> QED BY <1>1, <1>2, <1>3

\* The handlers' actions.
LEMMA HandlerStep ==
  ASSUME Typed, NEW h \in Handlers,
         OpStart(h) \/ Ack(h) \/ AnswerQuestion(h) \/ AcpComplete(h) \/ OpStep(h)
  PROVE  Typed'
<1>0. AskTypeOK /\ ProcTypeOK /\ BusyHasAsk
  BY TypedParts
<1>1. CASE OpStart(h)
  <2>1. PICK c \in Cids, f \in Askers, t \in Peers, prev \in Cids \cup {NoCid},
             isQuestion, isPull \in BOOLEAN : StartAsk(h, c, f, t, isQuestion, isPull, prev)
    BY <1>1, Zenon DEF OpStart, OpenAsk, OpenAskMany, HandleQuery, OpenScheduledAsk
  <2> DEFINE r == [pc |-> "deliver", cid |-> c, peer |-> t, prev |-> prev]
  <2>2. AskTypeOK'
    BY <1>0, <2>1, RegisterType, PeerSets DEF StartAsk
  <2>3. r \in OpRec /\ r.cid \in Cids
    BY DEF OpRec, OpPc
  <2>4. op' = [op EXCEPT ![h] = r] /\ UNCHANGED <<reg, acp, wait, worker, reaped, sends, lost>>
    BY <2>1 DEF StartAsk
  <2> HIDE DEF r
  <2> QED BY <1>0, <2>2, <2>3, <2>4, OpType, HandlerTyped DEF ProcTypeOK
<1>2. CASE Ack(h)
  <2>1. PICK c \in Cids, pc \in OpPc : OpGoes(h, pc, c, from[c])
    BY <1>2 DEF Ack, OpPc
  <2> QED BY <1>0, <1>2, <2>1, IdleType, OpMoveType, HandlerTyped DEF Ack, ProcTypeOK
<1>3. CASE AnswerQuestion(h)
  <2>1. AskTypeOK'
    <3>1. CASE OpAt(h, "answer")
      BY <1>0, <1>3, <3>1, AnswerType DEF AnswerQuestion, OpAt, BusyHasAsk, Reported, Outcome
    <3>2. CASE ~OpAt(h, "answer")
      BY <1>0, <1>3, <3>2, AnswerType DEF AnswerQuestion, AskTypeOK, Reported, Outcome
    <3> QED BY <3>1, <3>2
  <2> QED BY <1>0, <1>3, <2>1, OpMoveType, HandlerTyped DEF AnswerQuestion, ProcTypeOK
<1>4. CASE AcpComplete(h)
  <2>1. PICK c \in acp, pc \in {"acpNotify", "acpError"} :
          /\ acp' = acp \ {c}
          /\ IF Open(c) THEN OpGoes(h, pc, c, from[c]) ELSE UNCHANGED op
    BY <1>4 DEF AcpComplete
  <2>2. c \in Cids /\ pc \in OpPc /\ acp' \subseteq Cids
    BY <1>0, <2>1 DEF ProcTypeOK, OpPc
  <2>3. CASE Open(c)
    BY <1>0, <1>4, <2>1, <2>2, <2>3, IdleType, OpMoveType, HandlerTyped DEF AcpComplete, ProcTypeOK
  <2>4. CASE ~Open(c)
    BY <1>0, <1>4, <2>1, <2>2, <2>4, IdleType, HandlerTyped DEF AcpComplete, ProcTypeOK, BusyHasAsk
  <2> QED BY <2>3, <2>4
<1>5. CASE DeliverAsk(h)
  <2>1. op[h].pc # "idle" /\ op[h].cid \in Cids
    BY <1>0, <1>5 DEF DeliverAsk, OpAt, BusyHasAsk
  <2>2. OpDone(h) \/ \E pc \in OpPc : OpMoves(h, pc)
    BY <1>5 DEF DeliverAsk, OpPc
  <2>3. acp' \subseteq Cids
    BY <1>0, <1>5, <2>1 DEF DeliverAsk, ProcTypeOK
  <2> QED BY <1>0, <1>5, <2>1, <2>2, <2>3, IdleType, OpMoveType, HandlerTyped DEF DeliverAsk, ProcTypeOK
<1>6. CASE CloseSendFailed(h) \/ CloseReplyTo(h) \/ CloseWithMessage(h) \/ CloseBare(h)
  <2>1. AskTypeOK' /\ OpDone(h)
    BY <1>0, <1>6, CloseType
       DEF CloseSendFailed, CloseReplyTo, CloseWithMessage, CloseBare, CloseReason
  <2> QED BY <1>0, <1>6, <2>1, OpMoveType, HandlerTyped
          DEF CloseSendFailed, CloseReplyTo, CloseWithMessage, CloseBare, ProcTypeOK
<1>7. CASE AckNotify(h)
  <2>1. op[h].pc # "idle" /\ op[h].cid \in Cids
    BY <1>0, <1>7 DEF AckNotify, OpAt, BusyHasAsk
  <2>2. OpDone(h) \/ \E pc \in OpPc : OpMoves(h, pc)
    BY <1>7 DEF AckNotify, OpPc
  <2>3. lost' \in [Cids -> {"no", "evicted", "error"}]
    BY <1>0, <1>7 DEF AckNotify, ProcTypeOK
  <2> QED BY <1>0, <1>7, <2>1, <2>2, <2>3, IdleType, OpMoveType, HandlerTyped DEF AckNotify, ProcTypeOK
<1>8. CASE AcpNotify(h)
  <2>1. op[h].pc # "idle" /\ \E pc \in OpPc : OpMoves(h, pc)
    BY <1>8 DEF AcpNotify, OpAt, OpPc
  <2> QED BY <1>0, <1>8, <2>1, IdleType, OpMoveType, HandlerTyped DEF AcpNotify, ProcTypeOK
<1>9. CASE CaptureMessage(h) \/ AcpStash(h)
  <2>1. op[h].pc # "idle" /\ op[h].cid \in Cids
    BY <1>0, <1>9 DEF CaptureMessage, AcpStash, OpAt, BusyHasAsk
  <2>2. OpDone(h) \/ \E pc \in OpPc : OpMoves(h, pc)
    BY <1>9 DEF CaptureMessage, AcpStash, OpPc
  <2>3. AskTypeOK'
    BY <1>0, <1>9, <2>1, ReplyType DEF CaptureMessage, AcpStash
  <2> QED BY <1>0, <1>9, <2>1, <2>2, <2>3, OpMoveType, HandlerTyped
          DEF CaptureMessage, AcpStash, ProcTypeOK
<1> QED BY <1>1, <1>2, <1>3, <1>4, <1>5, <1>6, <1>7, <1>8, <1>9 DEF OpStep

\* The waits' actions.
LEMMA WaitStep ==
  ASSUME Typed, NEW w \in Waits,
         \/ WaitForAnswer(w) \/ WaitOnAck(w) \/ WaitReceive(w)
         \/ WaitTimeout(w) \/ WaitReread(w) \/ WaitAborts(w)
  PROVE  Typed'
<1>0. AskTypeOK /\ ProcTypeOK /\ BusyHasAsk
  BY TypedParts
<1>p. {"idle", "answer", "expired", "resolution"} \subseteq WaitPc
      /\ {"cancelled", "timed_out"} \subseteq Outcome
  BY DEF WaitPc, Outcome
<1>1. CASE WaitForAnswer(w)
  <2>1. PICK c \in question :
          IF Open(c)
            THEN WaiterFor(c, FALSE) /\ WaitGoes(w, "answer", c, NoAnswer)
            ELSE /\ UNCHANGED askVars
                 /\ WaitGoes(w, "idle", c, IF answer[c] = NoAnswer THEN "cancelled" ELSE answer[c])
    BY <1>1 DEF WaitForAnswer
  <2>2. c \in Cids /\ answer[c] \in Outcome \cup {NoAnswer}
    BY <1>0 DEF AskTypeOK
  <2>3. AskTypeOK'
    BY <1>0, <2>1, <2>2, WaiterForType, IdleType
  <2>4. \E pc \in WaitPc, got \in Outcome \cup {NoAnswer} : WaitGoes(w, pc, c, got)
    BY <1>p, <2>1, <2>2
  <2> QED BY <1>1, <2>2, <2>3, <2>4, WaitMoveType, WaitTyped DEF WaitForAnswer
<1>2. CASE WaitOnAck(w)
  <2>1. PICK c \in Cids : WaiterFor(c, TRUE) /\ WaitGoes(w, "resolution", c, NoAnswer)
    BY <1>2, WatchedAsks DEF WaitOnAck, WaitForResolution
  <2> QED BY <1>0, <1>p, <1>2, <2>1, WaiterForType, WaitMoveType, WaitTyped DEF WaitOnAck
<1>3. CASE WaitReceive(w) \/ WaitTimeout(w) \/ WaitReread(w) \/ WaitAborts(w)
  <2>1. wait[w].cid \in Cids /\ answer[wait[w].cid] \in Outcome \cup {NoAnswer}
    BY <1>0, <1>3
       DEF WaitReceive, WaitTimeout, WaitReread, WaitAborts, WaitAt, BusyHasAsk, AskTypeOK
  <2>2. AskTypeOK'
    BY <1>0, <1>p, <1>3, <2>1, ReplyType, AnswerType, IdleType
       DEF WaitReceive, WaitTimeout, WaitReread, WaitAborts
  <2>3. \E pc \in WaitPc, got \in Outcome \cup {NoAnswer} : WaitGoes(w, pc, wait[w].cid, got)
    <3>1. CASE WaitReceive(w)
      BY <1>p, <3>1 DEF WaitReceive, WaitReturns, Receive
    <3>2. CASE WaitTimeout(w)
      BY <1>p, <3>2 DEF WaitTimeout, WaitReturns
    <3>3. CASE WaitReread(w) \/ WaitAborts(w)
      BY <1>p, <2>1, <3>3 DEF WaitReread, WaitAborts, WaitReturns
    <3> QED BY <1>3, <3>1, <3>2, <3>3
  <2> QED BY <1>3, <2>1, <2>2, <2>3, WaitMoveType, WaitTyped
          DEF WaitReceive, WaitTimeout, WaitReread, WaitAborts
<1> QED BY <1>1, <1>2, <1>3

\* The workers' actions.
LEMMA RedeliveryStep ==
  ASSUME Typed, NEW k \in Workers, WorkerStep(k) \/ \E p \in Movers : PeerRegisters(p, k)
  PROVE  Typed'
<1>0. AskTypeOK /\ ProcTypeOK /\ BusyHasAsk
  BY TypedParts
<1>k. /\ worker[k].pass \in 1 .. 2 /\ worker[k].asker \in Peers \cup {NoPeer}
      /\ worker[k].todo \subseteq Cids
  BY <1>0 DEF ProcTypeOK, WorkerRec
<1>p. WorkerPc = {"idle", "claim", "take", "send", "mark", "gate", "orphans"}
      /\ 1 \in 1 .. 2 /\ 2 \in 1 .. 2 /\ {} \subseteq Peers /\ {} \subseteq Cids
  BY DEF WorkerPc
<1>1. CASE Claim(k) \/ TakePending(k) \/ RebindGate(k) \/ TakeOrphans(k) \/ WorkerEnds(k)
  <2>1. worker' \in [Workers -> WorkerRec]
    <3>1. CASE Claim(k) \/ WorkerEnds(k)
      BY <1>p, <3>1, WorkerMoveType DEF Claim, WorkerEnds
    <3>2. CASE TakePending(k)
      <4>1. TakePendingRepliesForAsker(worker[k].asker) \subseteq Cids
        BY <1>0 DEF TakePendingRepliesForAsker, AskTypeOK
      <4> QED BY <1>p, <3>2, <4>1, WorkerMoveType DEF TakePending
    <3>3. CASE RebindGate(k)
      BY <1>0, <1>p, <3>3, WorkerMoveType DEF RebindGate, ProcTypeOK
    <3>4. CASE TakeOrphans(k)
      <4>1. {c \in TakeOrphanPendingReplies(worker[k].live) : from[c] \in Twins} \subseteq Cids
        BY <1>0 DEF TakeOrphanPendingReplies, AskTypeOK
      <4> QED BY <1>p, <3>4, <4>1, WorkerMoveType DEF TakeOrphans
    <3> QED BY <1>1, <3>1, <3>2, <3>3, <3>4
  <2> QED BY <1>0, <1>1, <2>1, IdleType, WorkerTyped
          DEF Claim, TakePending, RebindGate, TakeOrphans, WorkerEnds, ProcTypeOK
<1>2. CASE SendStashed(k)
  <2> DEFINE p == worker[k].asker
  <2>1. PICK c \in worker[k].todo, outcome \in Notify(p) :
          IF outcome = "accepted"
            THEN /\ sends' = [sends EXCEPT ![c] = [sends[c] EXCEPT ![p] = sends[c][p] + 1]]
                 /\ WorkerGoes(k, "mark", worker[k].pass, worker[k].todo \ {c}, c, {})
            ELSE /\ UNCHANGED sends
                 /\ WorkerGoes(k, "send", worker[k].pass, worker[k].todo \ {c}, NoCid, {})
    BY <1>2, Zenon DEF SendStashed
  <2>2. c \in Cids /\ worker[k].todo \ {c} \subseteq Cids
    BY <1>k
  <2>3. worker' \in [Workers -> WorkerRec]
    BY <1>k, <1>p, <2>1, <2>2, WorkerMoveType
  <2>4. sends' \in [Cids -> [Peers -> Nat]]
    <3>1. sends \in [Cids -> [Peers -> Nat]]
      BY <1>0 DEF ProcTypeOK
    <3>2. CASE outcome = "accepted"
      <4>1. p \in Peers
        BY <1>0, <3>2 DEF Notify, ProcTypeOK
      <4>2. [sends[c] EXCEPT ![p] = sends[c][p] + 1] \in [Peers -> Nat]
        BY <2>2, <3>1, <4>1
      <4> QED BY <2>1, <2>2, <3>1, <3>2, <4>2
    <3>3. CASE outcome # "accepted"
      BY <2>1, <3>1, <3>3
    <3> QED BY <3>2, <3>3
  <2> QED BY <1>0, <1>2, <2>3, <2>4, IdleType, WorkerTyped DEF SendStashed, ProcTypeOK
<1>3. CASE MarkDelivered(k)
  <2> DEFINE c == worker[k].cur
             asker == IF worker[k].pass = 2 THEN worker[k].asker ELSE from[c]
  <2>1. MarkPendingReplyDelivered(c, asker)
        /\ WorkerGoes(k, "send", worker[k].pass, worker[k].todo, NoCid, {})
    BY <1>3 DEF MarkDelivered
  <2>2. AskTypeOK'
    <3>1. CASE c \in stashed
      <4>1. asker \in Peers \cup {NoPeer}
        BY <1>0, <1>k, <3>1 DEF AskTypeOK
      <4> QED BY <1>0, <2>1, <4>1, MarkType
    <3>2. CASE c \notin stashed
      <4>1. UNCHANGED askVars
        BY <2>1, <3>2 DEF MarkPendingReplyDelivered, askVars, content
      <4> QED BY <1>0, <4>1, IdleType
    <3> QED BY <3>1, <3>2
  <2>3. worker' \in [Workers -> WorkerRec]
    BY <1>k, <1>p, <2>1, WorkerMoveType
  <2> QED BY <1>0, <1>3, <2>2, <2>3, WorkerTyped DEF MarkDelivered, ProcTypeOK
<1>4. ASSUME NEW p \in Movers, PeerRegisters(p, k)
      PROVE  Typed'
  <2> DEFINE r == [pc |-> "claim", pass |-> 1, asker |-> p, todo |-> {}, cur |-> NoCid, live |-> {}]
  <2>1. p \in Peers
    BY PeerSets
  <2>2. r \in WorkerRec
    BY <1>p, <2>1 DEF WorkerRec
  <2>3. worker' = [worker EXCEPT ![k] = r] /\ reg' = reg \cup {p}
    BY <1>4 DEF PeerRegisters
  <2> HIDE DEF r
  <2> QED BY <1>0, <1>4, <2>1, <2>2, <2>3, IdleType, WorkerType, WorkerTyped
          DEF PeerRegisters, ProcTypeOK
<1> QED BY <1>1, <1>2, <1>3, <1>4 DEF WorkerStep

\* Every step keeps the types, and nobody is busy without an ask.
LEMMA TypedStep == ASSUME Typed, [Next]_vars PROVE Typed'
<1>0. AskTypeOK /\ ProcTypeOK /\ BusyHasAsk
  BY TypedParts
<1>1. CASE OpenQuestion
  <2>1. AskTypeOK'
    BY <1>0, <1>1, RegisterType, PeerSets DEF OpenQuestion
  <2> QED BY <1>0, <1>1, <2>1, WorkerTyped DEF OpenQuestion, procVars, ProcTypeOK
<1>2. ASSUME NEW p \in Movers, PeerUnregisters(p) \/ PeerReaped(p) \/ ForgetReaped(p)
      PROVE  Typed'
  <2>1. p \in Peers
    BY PeerSets
  <2>2. AskTypeOK'
    BY <1>0, <1>2, IdleType, DropType DEF PeerUnregisters, PeerReaped, ForgetReaped, ForgetPeer
  <2> QED BY <1>0, <1>2, <2>1, <2>2, WorkerTyped
          DEF PeerUnregisters, PeerReaped, ForgetReaped, ProcTypeOK
<1>3. ASSUME NEW p \in Switched, Switch(p)
      PROVE  Typed'
  <2>1. AskTypeOK'
    BY <1>0, <1>3, QuiesceType, PeerSets DEF Switch
  <2> QED BY <1>0, <1>3, <2>1, WorkerTyped DEF Switch, procVars, ProcTypeOK
<1>4. ASSUME NEW s \in BOOLEAN, Evict(s)
      PROVE  Typed'
  <2>1. AskTypeOK'
    BY <1>0, <1>4, DropType DEF Evict, EvictExpired
  <2> QED BY <1>0, <1>4, <2>1, WorkerTyped DEF Evict, procVars, ProcTypeOK
<1>5. CASE UNCHANGED vars
  BY <1>0, <1>5, IdleType, WorkerTyped DEF vars, procVars, ProcTypeOK
<1> QED BY <1>1, <1>2, <1>3, <1>4, <1>5, HandlerStep, WaitStep, RedeliveryStep DEF Next

-----------------------------------------------------------------------------
(* What is over stays over *)

\* An ask that was closed, and perhaps dropped since.
Done(c) == Closed(c) \/ ask[c] = "dropped"

\* What one critical section may do to an ask that exists: it goes on existing; one
\* that is over stays over, one that was dropped dropped, keeps its answer,
\* and is stashed no more; a stash goes only from an ask that is over, and a reply
\* with its ask.
OverKept(c) ==
  /\ ask[c] # "unborn" => ask'[c] # "unborn"
  /\ ask[c] = "dropped" => ask'[c] = "dropped"
  /\ chan[c] # "absent" => chan'[c] # "absent"
  /\ Done(c) => /\ Done(c)'
                /\ answer'[c] = answer[c]
                /\ c \in stashed' => c \in stashed
  /\ c \in stashed => c \in stashed' \/ Done(c)'
  /\ c \in replied => c \in replied' \/ ask'[c] = "dropped"

-----------------------------------------------------------------------------
(* What waits return *)

\* What an ask may be answered with.
Recorded == Reported \cup {"timed_out"}

\* An ask has no answer before it is closed; a waiter is registered only while it is
\* open; and what its channel carries is its answer, or the news that there is none.
AskInv ==
  /\ \A c \in Cids : answer[c] \in Recorded \cup {NoAnswer}
  /\ \A c \in Cids : ask[c] \in {"unborn", "open"} => answer[c] = NoAnswer
  /\ \A c \in Cids : chan[c] = "waiting" => Open(c)
  /\ \A c \in Cids : c \in question \cup stashed \/ chan[c] # "absent" => ask[c] # "unborn"
  /\ \A c \in Cids : chan[c] \in Outcome
       => Done(c) /\ (answer[c] = chan[c] \/ (answer[c] = NoAnswer /\ chan[c] = "cancelled"))

\* What a wait may have been told of an ask that is over.
Told(c, got) ==
  got = answer[c] \/ (got \notin Reported /\ (answer[c] = NoAnswer \/ ask[c] = "dropped"))

\* A wait in progress has an ask, and a channel while it listens; one that gave up on recording the default, or has
\* returned an outcome, knows that the ask is over and what came of it.
WaitTold(w) ==
  /\ wait[w].pc # "idle" => ask[wait[w].cid] # "unborn"
  /\ Waiting(w) => chan[wait[w].cid] # "absent"
  /\ wait[w].pc = "expired" => Done(wait[w].cid)
  /\ wait[w].pc = "idle" /\ wait[w].got # NoAnswer
       => wait[w].cid \in Cids /\ Done(wait[w].cid) /\ Told(wait[w].cid, wait[w].got)
WaitInv == \A w \in Waits : WaitTold(w)

\* No ask is closed with a message in this step.
NoMessage == \A c \in Cids : ask'[c] = "ack_with_msg" => ask[c] = "ack_with_msg"

\* What every step keeps of the ledger.
Over == AskInv' /\ \A c \in Cids : OverKept(c)

\* Leaving the ledger alone changes nothing.
LEMMA IdleOver == ASSUME AskInv, UNCHANGED askVars PROVE Over /\ NoMessage
  BY DEF askVars, content, AskInv, Over, OverKept, NoMessage, Done, Closed, Open

\* A registered ask is new: it was neither closed nor dropped before.
LEMMA RegisterOver ==
  ASSUME AskTypeOK, AskInv, NEW c \in Cids, NEW f, NEW t, NEW q, NEW l, Register(c, f, t, q, l)
  PROVE  Over /\ NoMessage
  BY DEF AskTypeOK, Register, With, AskInv, Over, OverKept, NoMessage, Done, Closed, Open, CloseReason

\* Close ends an open ask, and tells its waiter that no answer will come.
LEMMA CloseOver ==
  ASSUME AskTypeOK, AskInv, NEW c, NEW reason \in CloseReason, Close(c, reason)
  PROVE  Over /\ (reason # "ack_with_msg" => NoMessage)
<1>1. CASE Open(c)
  <2>1. /\ ask' = [ask EXCEPT ![c] = reason]
        /\ chan' = [d \in Cids |-> IF d \in {c} /\ chan[d] = "waiting" THEN "cancelled" ELSE chan[d]]
        /\ UNCHANGED <<question, answer, replied, stashed>>
    BY <1>1 DEF Close, content, cancelWaiter, Send
  <2>2. \A d \in Cids : IF d = c THEN ask'[d] = reason /\ ask[d] = "open" ELSE ask'[d] = ask[d]
    BY <1>1, <2>1 DEF AskTypeOK, Open
  <2>3. \A d \in Cids : \/ chan'[d] = chan[d]
                        \/ d = c /\ chan'[d] = "cancelled" /\ chan[d] = "waiting"
    BY <2>1
  <2>4. \A d \in Cids : OverKept(d)
    BY <2>1, <2>2 DEF OverKept, Done, Closed, CloseReason
  <2>5. AskInv'
    BY <2>1, <2>2, <2>3 DEF AskInv, Done, Closed, Open, CloseReason, Outcome
  <2>6. reason # "ack_with_msg" => NoMessage
    BY <2>2 DEF NoMessage
  <2> QED BY <2>4, <2>5, <2>6 DEF Over
<1>2. CASE ~Open(c)
  BY <1>2, IdleOver DEF Close, askVars
<1> QED BY <1>1, <1>2

\* The recorded answer is the one sent to the waiter.
LEMMA AnswerOver ==
  ASSUME AskTypeOK, AskInv, NEW c \in Cids, NEW outcome \in Recorded, NEW hasText, Answer(c, outcome, hasText)
  PROVE  Over /\ NoMessage
<1>1. CASE Answerable(c)
  <2>1. /\ ask' = [ask EXCEPT ![c] = "answered"] /\ answer' = [answer EXCEPT ![c] = outcome]
        /\ chan' = [d \in Cids |-> IF d \in {c} /\ chan[d] = "waiting" THEN outcome ELSE chan[d]]
        /\ UNCHANGED <<question, stashed>> /\ replied \subseteq replied'
    BY <1>1 DEF Answer, Record, Send, With
  <2>2. \A d \in Cids : IF d = c THEN ask'[d] = "answered" /\ ask[d] = "open" /\ answer'[d] = outcome
                                 ELSE ask'[d] = ask[d] /\ answer'[d] = answer[d]
    BY <1>1, <2>1 DEF AskTypeOK, Answerable, Open
  <2>3. \A d \in Cids : \/ chan'[d] = chan[d]
                        \/ d = c /\ chan'[d] = outcome /\ chan[d] = "waiting"
    BY <2>1
  <2>4. \A d \in Cids : OverKept(d)
    BY <2>1, <2>2, <2>3 DEF OverKept, Done, Closed, CloseReason, Recorded, Reported
  <2>5. AskInv'
    BY <2>1, <2>2, <2>3 DEF AskInv, Done, Closed, Open, CloseReason, Recorded, Reported
  <2>6. NoMessage
    BY <2>2 DEF NoMessage
  <2> QED BY <2>4, <2>5, <2>6 DEF Over
<1>2. CASE ~Answerable(c)
  <2>1. UNCHANGED askVars
    BY <1>2 DEF Answer, askVars, content
  <2> QED BY <2>1, IdleOver
<1> QED BY <1>1, <1>2

\* A captured reply is added to those there are.
LEMMA CaptureOver ==
  ASSUME AskTypeOK, AskInv, NEW c \in Cids, CaptureReply(c)
  PROVE  Over /\ NoMessage
  BY DEF CaptureReply, With, AskInv, Over, OverKept, NoMessage, Done, Closed, Open

\* A channel is made for an open ask, so none that carries an outcome is made anew.
LEMMA WaiterForOver ==
  ASSUME AskTypeOK, AskInv, NEW c \in Cids, NEW l, Open(c), WaiterFor(c, l)
  PROVE  Over /\ NoMessage
  BY DEF AskTypeOK, WaiterFor, AskInv, Over, OverKept, NoMessage, Done, Closed, Open, Outcome

\* A received value leaves the channel drained.
LEMMA ReceiveOver ==
  ASSUME AskTypeOK, AskInv, NEW c \in Cids, Receive(c)
  PROVE  Over /\ NoMessage
  BY DEF AskTypeOK, Receive, content, AskInv, Over, OverKept, NoMessage, Done, Closed, Open, Outcome

\* A reply is stashed for an open ask only.
LEMMA StashOver ==
  ASSUME AskTypeOK, AskInv, NEW c \in Cids, NEW i, SetPendingReply(c, i)
  PROVE  Over /\ NoMessage
  BY DEF AskTypeOK, SetPendingReply, With, AskInv, Over, OverKept, NoMessage, Done, Closed, Open, CloseReason

\* A delivered stash is gone, and its ask is over.
LEMMA MarkOver ==
  ASSUME AskTypeOK, AskInv, NEW c, NEW asker, MarkPendingReplyDelivered(c, asker)
  PROVE  /\ Over
         /\ \A d \in Cids : ask'[d] = "ack_with_msg" /\ ask[d] # "ack_with_msg" => d = c
         /\ c \notin stashed'
<1>1. CASE c \in stashed /\ Open(c)
  <2>1. /\ ask' = [ask EXCEPT ![c] = "ack_with_msg"]
        /\ chan' = [d \in Cids |-> IF d \in {c} /\ chan[d] = "waiting" THEN "cancelled" ELSE chan[d]]
        /\ UNCHANGED <<question, answer, replied>> /\ stashed' = stashed \ {c}
    BY <1>1 DEF MarkPendingReplyDelivered, cancelWaiter, Send
  <2>2. \A d \in Cids : IF d = c THEN ask'[d] = "ack_with_msg" /\ ask[d] = "open" ELSE ask'[d] = ask[d]
    BY <1>1, <2>1 DEF AskTypeOK, Open
  <2>3. \A d \in Cids : \/ chan'[d] = chan[d]
                        \/ d = c /\ chan'[d] = "cancelled" /\ chan[d] = "waiting"
    BY <2>1
  <2>4. \A d \in Cids : OverKept(d)
    BY <2>1, <2>2 DEF OverKept, Done, Closed, CloseReason
  <2>5. AskInv'
    BY <2>1, <2>2, <2>3 DEF AskInv, Done, Closed, Open, CloseReason, Outcome
  <2> QED BY <2>1, <2>2, <2>4, <2>5 DEF Over
<1>2. CASE c \in stashed /\ ~Open(c)
  BY <1>2 DEF AskTypeOK, MarkPendingReplyDelivered, AskInv, Over, OverKept, Done, Closed, Open
<1>3. CASE c \notin stashed
  <2>1. UNCHANGED askVars
    BY <1>3 DEF MarkPendingReplyDelivered, askVars, content
  <2> QED BY <1>3, <2>1, IdleOver DEF NoMessage, askVars, content
<1> QED BY <1>1, <1>2, <1>3

\* A removal takes the stash and the reply along and cancels the waiter.
LEMMA DropOver ==
  ASSUME AskTypeOK, AskInv, NEW cs, Drop(cs)
  PROVE  Over /\ NoMessage
  BY DEF AskTypeOK, Drop, cancelWaiter, Send, AskInv, Over, OverKept, NoMessage, Done, Closed, Open, CloseReason, Outcome

\* The barrier touches no ask.
LEMMA QuiesceOver ==
  ASSUME AskInv, NEW p, BeginQuiesce(p) \/ EndQuiesce(p)
  PROVE  Over /\ NoMessage
  BY DEF BeginQuiesce, EndQuiesce, content, AskInv, Over, OverKept, NoMessage, Done, Closed, Open

\* Every step keeps what is over, and only an ack or a redelivery closes an ask
\* with a message.
LEMMA StepOver ==
  ASSUME Typed, AskInv, [Next]_vars
  PROVE  /\ Over
         /\ \/ NoMessage
            \/ \E h \in Handlers : CloseWithMessage(h)
            \/ \E k \in Workers : MarkDelivered(k)
<1>0. AskTypeOK /\ ProcTypeOK /\ BusyHasAsk
  BY TypedParts
<1>1. CASE OpenQuestion
  BY <1>0, <1>1, RegisterOver DEF OpenQuestion
<1>2. ASSUME NEW h \in Handlers,
             OpStart(h) \/ Ack(h) \/ AnswerQuestion(h) \/ AcpComplete(h) \/ OpStep(h)
      PROVE  Over /\ (NoMessage \/ CloseWithMessage(h))
  <2>1. CASE OpStart(h)
    BY <1>0, <2>1, RegisterOver, ZenonT(60)
    DEF OpStart, OpenAsk, OpenAskMany, HandleQuery, OpenScheduledAsk, StartAsk
  <2>2. CASE Ack(h) \/ AcpComplete(h) \/ DeliverAsk(h) \/ AckNotify(h) \/ AcpNotify(h)
    BY <2>2, IdleOver DEF Ack, AcpComplete, DeliverAsk, AckNotify, AcpNotify
  <2>3. CASE AnswerQuestion(h)
    <3>1. PICK c \in Cids, outcome \in Recorded, hasText \in BOOLEAN : Answer(c, outcome, hasText)
      BY <1>0, <2>3 DEF AnswerQuestion, OpAt, BusyHasAsk, AskTypeOK, Reported, Recorded
    <3> QED BY <1>0, <3>1, AnswerOver
  <2>4. CASE CloseSendFailed(h)
    BY <1>0, <2>4, CloseOver DEF CloseSendFailed, CloseReason
  <2>5. CASE CloseReplyTo(h)
    BY <1>0, <2>5, CloseOver DEF CloseReplyTo, CloseReason
  <2>6. CASE CloseWithMessage(h)
    BY <1>0, <2>6, CloseOver DEF CloseWithMessage, CloseReason
  <2>7. CASE CloseBare(h)
    BY <1>0, <2>7, CloseOver DEF CloseBare, CloseReason
  <2>8. CASE CaptureMessage(h)
    BY <1>0, <2>8, CaptureOver DEF CaptureMessage, OpAt, BusyHasAsk
  <2>9. CASE AcpStash(h)
    BY <1>0, <2>9, StashOver DEF AcpStash, OpAt, BusyHasAsk
  <2> QED BY <1>2, <2>1, <2>2, <2>3, <2>4, <2>5, <2>6, <2>7, <2>8, <2>9 DEF OpStep
<1>3. ASSUME NEW w \in Waits,
             \/ WaitForAnswer(w) \/ WaitOnAck(w) \/ WaitReceive(w)
             \/ WaitTimeout(w) \/ WaitReread(w) \/ WaitAborts(w)
      PROVE  Over /\ NoMessage
  <2>1. CASE WaitForAnswer(w)
    BY <1>0, <2>1, WaiterForOver, IdleOver DEF WaitForAnswer, AskTypeOK
  <2>2. CASE WaitOnAck(w)
    BY <1>0, <2>2, WaiterForOver, WatchedAsks DEF WaitOnAck, WaitForResolution
  <2>3. CASE WaitReceive(w)
    BY <1>0, <2>3, ReceiveOver DEF WaitReceive, WaitAt, BusyHasAsk
  <2>4. CASE WaitTimeout(w)
    <3>1. CASE UNCHANGED askVars
      BY <3>1, IdleOver
    <3>2. CASE WaitAt(w, "answer") /\ Answer(wait[w].cid, "timed_out", FALSE)
      <4>1. wait[w].cid \in Cids
        BY <1>0, <3>2 DEF WaitAt, BusyHasAsk
      <4> QED BY <1>0, <3>2, <4>1, AnswerOver DEF Recorded
    <3> QED BY <2>4, <3>1, <3>2 DEF WaitTimeout
  <2>5. CASE WaitReread(w) \/ WaitAborts(w)
    BY <2>5, IdleOver DEF WaitReread, WaitAborts
  <2> QED BY <1>3, <2>1, <2>2, <2>3, <2>4, <2>5
<1>4. ASSUME NEW k \in Workers, WorkerStep(k) \/ \E p \in Movers : PeerRegisters(p, k)
      PROVE  Over /\ (NoMessage \/ MarkDelivered(k))
  <2>1. CASE MarkDelivered(k)
    BY <1>0, <2>1, MarkOver DEF MarkDelivered
  <2>2. CASE \/ Claim(k) \/ TakePending(k) \/ SendStashed(k) \/ RebindGate(k)
             \/ TakeOrphans(k) \/ WorkerEnds(k) \/ \E p \in Movers : PeerRegisters(p, k)
    BY <2>2, IdleOver
       DEF Claim, TakePending, SendStashed, RebindGate, TakeOrphans, WorkerEnds, PeerRegisters
  <2> QED BY <1>4, <2>1, <2>2 DEF WorkerStep
<1>5. ASSUME NEW p \in Movers, PeerUnregisters(p) \/ PeerReaped(p) \/ ForgetReaped(p)
      PROVE  Over /\ NoMessage
  BY <1>0, <1>5, IdleOver, DropOver DEF PeerUnregisters, PeerReaped, ForgetReaped, ForgetPeer
<1>6. ASSUME NEW p \in Switched, Switch(p)
      PROVE  Over /\ NoMessage
  BY <1>6, QuiesceOver DEF Switch
<1>7. ASSUME NEW s \in BOOLEAN, Evict(s)
      PROVE  Over /\ NoMessage
  BY <1>0, <1>7, DropOver DEF Evict, EvictExpired
<1>8. CASE UNCHANGED vars
  BY <1>8, IdleOver DEF vars
<1> QED BY <1>1, <1>2, <1>3, <1>4, <1>5, <1>6, <1>7, <1>8 DEF Next

-----------------------------------------------------------------------------
(* What waits return, step by step *)

\* A wait that rests is told nothing new: what it was told stays true.
LEMMA WaitRests ==
  ASSUME Typed, WaitInv, \A c \in Cids : OverKept(c), NEW w \in Waits, wait'[w] = wait[w]
  PROVE  WaitTold(w)'
<1>1. \A c \in Cids : /\ Done(c) => Done(c)' /\ answer'[c] = answer[c]
                      /\ ask[c] # "unborn" => ask'[c] # "unborn"
                      /\ ask[c] = "dropped" => ask'[c] = "dropped"
                      /\ chan[c] # "absent" => chan'[c] # "absent"
  BY DEF OverKept
<1>2. WaitTold(w) /\ (wait[w].pc # "idle" => wait[w].cid \in Cids)
  BY DEF WaitInv, Typed, BusyHasAsk
<1>3. /\ wait[w].pc # "idle" => ask'[wait[w].cid] # "unborn"
      /\ Waiting(w) => chan'[wait[w].cid] # "absent"
      /\ wait[w].pc = "expired" => Done(wait[w].cid)'
  BY <1>1, <1>2 DEF WaitTold, Waiting, Done, Closed
<1>4. wait[w].pc = "idle" /\ wait[w].got # NoAnswer
        => wait'[w].cid \in Cids /\ Done(wait[w].cid)' /\ Told(wait[w].cid, wait[w].got)'
  BY <1>1, <1>2 DEF WaitTold, Told, Done, Closed
<1> QED BY <1>3, <1>4 DEF WaitTold, Waiting, Told, Done, Closed

\* A wait moves as one of its steps says; the others rest.
LEMMA WaitInvMove ==
  ASSUME Typed, WaitInv, \A c \in Cids : OverKept(c), NEW w \in Waits,
         NEW pc \in WaitPc, NEW c \in Cids, NEW got \in Outcome \cup {NoAnswer}, WaitGoes(w, pc, c, got),
         pc # "idle" => ask'[c] # "unborn",
         pc \in {"answer", "resolution"} => chan'[c] # "absent",
         pc = "expired" => Done(c)',
         pc = "idle" /\ got # NoAnswer => Done(c)' /\ Told(c, got)'
  PROVE  WaitInv'
<1>1. wait \in [Waits -> WaitRec]
  BY TypedParts DEF ProcTypeOK
<1>2. wait'[w].pc = pc /\ wait'[w].cid = c /\ wait'[w].got = got
  BY <1>1 DEF WaitGoes
<1>3. \A v \in Waits : v # w => wait'[v] = wait[v]
  BY <1>1 DEF WaitGoes
<1>4. WaitTold(w)'
  BY <1>2 DEF WaitTold, Waiting, Told, Done, Closed
<1> QED BY <1>3, <1>4, WaitRests DEF WaitInv

\* Every step keeps what waits were told.
LEMMA WaitInvStep ==
  ASSUME Typed, AskInv, WaitInv, Over, [Next]_vars
  PROVE  WaitInv'
<1>0. AskTypeOK /\ ProcTypeOK /\ BusyHasAsk
  BY TypedParts
<1>a. \A c \in Cids : OverKept(c)
  BY DEF Over
<1>d. \A c \in Cids : ask[c] # "unborn" /\ ~Open(c) => Done(c)
  BY <1>0 DEF AskTypeOK, Done, Closed, Open
<1>1. CASE UNCHANGED wait
  BY <1>1, <1>a, WaitRests DEF WaitInv
<1>2. ASSUME NEW w \in Waits,
             \/ WaitForAnswer(w) \/ WaitOnAck(w) \/ WaitReceive(w)
             \/ WaitTimeout(w) \/ WaitReread(w) \/ WaitAborts(w)
      PROVE  WaitInv'
  <2>c. PICK d : d = wait[w].cid
    OBVIOUS
  <2>0. /\ wait[w].pc # "idle" => d \in Cids /\ ask[d] # "unborn"
        /\ wait[w].pc = "expired" => Done(d)
    BY <1>0, <2>c DEF BusyHasAsk, WaitInv, WaitTold
  <2>p. /\ \A pc \in {"idle", "answer", "expired", "resolution"} : pc \in WaitPc
        /\ \A o \in {"answered", "acknowledged", "timed_out", "cancelled"} : o \in Outcome /\ o # NoAnswer
    BY DEF WaitPc, Outcome, NoAnswer
  <2>1. CASE WaitForAnswer(w)
    <3>1. PICK c \in question :
            IF Open(c)
              THEN WaiterFor(c, FALSE) /\ WaitGoes(w, "answer", c, NoAnswer)
              ELSE /\ UNCHANGED askVars
                   /\ WaitGoes(w, "idle", c, IF answer[c] = NoAnswer THEN "cancelled" ELSE answer[c])
      BY <2>1 DEF WaitForAnswer
    <3>2. c \in Cids /\ ask[c] # "unborn"
      BY <1>0 DEF AskTypeOK, AskInv
    <3>3. CASE Open(c)
      <4>1. ask'[c] # "unborn" /\ chan'[c] # "absent"
        BY <1>0, <1>a, <3>1, <3>2, <3>3 DEF OverKept, WaiterFor, AskTypeOK
      <4> QED BY <1>a, <2>p, <3>1, <3>2, <3>3, <4>1, WaitInvMove
    <3>4. CASE ~Open(c)
      <4>p. PICK got : got = IF answer[c] = NoAnswer THEN "cancelled" ELSE answer[c]
        OBVIOUS
      <4>1. got \in Outcome
        BY <1>0, <2>p, <3>2, <4>p DEF AskTypeOK
      <4>2. Done(c)' /\ answer'[c] = answer[c] /\ ask'[c] # "unborn" /\ Told(c, got)'
        BY <1>a, <1>d, <3>1, <3>2, <3>4, <4>p DEF OverKept, Told, Reported, askVars, content
      <4>3. WaitGoes(w, "idle", c, got)
        BY <3>1, <3>4, <4>p
      <4> QED BY <1>a, <2>p, <3>2, <4>1, <4>2, <4>3, WaitInvMove
    <3> QED BY <3>3, <3>4
  <2>2. CASE WaitOnAck(w)
    <3>1. PICK c \in Cids : Open(c) /\ WaiterFor(c, TRUE) /\ WaitGoes(w, "resolution", c, NoAnswer)
      BY <2>2, WatchedAsks DEF WaitOnAck, WaitForResolution
    <3>2. ask'[c] # "unborn" /\ chan'[c] # "absent"
      BY <1>0, <1>a, <3>1 DEF OverKept, WaiterFor, AskTypeOK, Open
    <3> QED BY <1>a, <2>p, <3>1, <3>2, WaitInvMove
  <2>3. CASE WaitReceive(w)
    <3>p. PICK got : got = IF WaitAt(w, "answer") THEN chan[d] ELSE NoAnswer
      OBVIOUS
    <3>1. d \in Cids /\ ask[d] # "unborn" /\ chan[d] \in Outcome /\ UNCHANGED <<ask, answer>>
      BY <2>0, <2>3, <2>c DEF WaitReceive, WaitAt, Receive, content
    <3>2. Done(d) /\ (answer[d] = chan[d] \/ (answer[d] = NoAnswer /\ chan[d] = "cancelled"))
      BY <3>1 DEF AskInv
    <3>3. Done(d)' /\ ask'[d] # "unborn" /\ (got # NoAnswer => Told(d, got)')
      BY <3>p, <3>1, <3>2 DEF Done, Closed, Told, Reported
    <3>4. WaitGoes(w, "idle", d, got)
      BY <2>3, <2>c, <3>p DEF WaitReceive, WaitReturns
    <3>5. got \in Outcome \cup {NoAnswer}
      BY <3>p, <3>1
    <3> QED BY <1>a, <2>p, <3>1, <3>3, <3>4, <3>5, WaitInvMove
  <2>4. CASE WaitTimeout(w)
    <3>0. wait[w].pc # "idle" /\ d \in Cids /\ ask[d] # "unborn"
      BY <2>0, <2>4 DEF WaitTimeout, WaitAt
    <3>1. ask'[d] # "unborn"
      BY <1>a, <3>0 DEF OverKept
    <3>2. CASE WaitAt(w, "answer") /\ Answer(d, "timed_out", FALSE) /\ Answerable(d)
               /\ WaitReturns(w, "timed_out")
      <4>1. ask'[d] = "answered" /\ answer'[d] = "timed_out"
        BY <1>0, <3>0, <3>2 DEF Answer, Record, AskTypeOK
      <4>2. Done(d)' /\ Told(d, "timed_out")'
        BY <4>1 DEF Done, Closed, CloseReason, Told
      <4>3. WaitGoes(w, "idle", d, "timed_out")
        BY <2>c, <3>2 DEF WaitReturns
      <4> QED BY <1>a, <2>p, <3>0, <3>1, <4>1, <4>2, <4>3, WaitInvMove
    <3>3. CASE ~Answerable(d) /\ WaitGoes(w, "expired", d, NoAnswer)
      <4>1. ~Open(d)
        BY <3>0, <3>3 DEF Answerable, Open, AskInv
      <4>2. Done(d)'
        BY <1>a, <1>d, <3>0, <4>1 DEF OverKept
      <4> QED BY <1>a, <2>p, <3>0, <3>1, <3>3, <4>2, WaitInvMove
    <3>4. CASE WaitReturns(w, NoAnswer)
      <4>1. WaitGoes(w, "idle", d, NoAnswer)
        BY <2>c, <3>4 DEF WaitReturns
      <4> QED BY <1>a, <2>p, <3>0, <3>1, <4>1, WaitInvMove
    <3> QED BY <2>4, <3>2, <3>3, <2>c, <3>4 DEF WaitTimeout
  <2>5. CASE WaitReread(w)
    <3>p. PICK got : got = IF Present(d) /\ answer[d] # NoAnswer THEN answer[d] ELSE "timed_out"
      OBVIOUS
    <3>1. d \in Cids /\ ask[d] # "unborn" /\ Done(d)
      BY <2>0, <2>5 DEF WaitReread, WaitAt
    <3>2. Done(d)' /\ answer'[d] = answer[d] /\ ask'[d] = ask[d]
      BY <1>a, <2>5, <3>1 DEF OverKept, WaitReread, askVars, content
    <3>3. got \in Outcome
      BY <1>0, <2>p, <3>p, <3>1 DEF AskTypeOK
    <3>4. Told(d, got)'
      BY <3>p, <3>1, <3>2 DEF Told, Done, Present, Reported
    <3>5. WaitGoes(w, "idle", d, got)
      BY <2>5, <2>c, <3>p DEF WaitReread, WaitReturns
    <3> QED BY <1>a, <2>p, <3>1, <3>2, <3>3, <3>4, <3>5, WaitInvMove
  <2>6. CASE WaitAborts(w)
    <3>1. d \in Cids /\ ask[d] # "unborn" /\ WaitGoes(w, "idle", d, NoAnswer)
      BY <2>0, <2>6, <2>c DEF WaitAborts, WaitAt, WaitReturns
    <3> QED BY <1>a, <2>p, <3>1, WaitInvMove
  <2> QED BY <1>2, <2>1, <2>2, <2>3, <2>4, <2>5, <2>6
<1>3. ASSUME NEW h \in Handlers,
             OpStart(h) \/ Ack(h) \/ AnswerQuestion(h) \/ AcpComplete(h) \/ OpStep(h)
      PROVE  UNCHANGED wait
  BY <1>3 DEF OpStart, OpenAsk, OpenAskMany, HandleQuery, OpenScheduledAsk, StartAsk, Ack,
       AnswerQuestion, AcpComplete, OpStep, DeliverAsk, CloseSendFailed, CloseReplyTo, AckNotify,
       CaptureMessage, CloseWithMessage, CloseBare, AcpNotify, AcpStash
<1>4. ASSUME NEW k \in Workers, WorkerStep(k) \/ \E p \in Movers : PeerRegisters(p, k)
      PROVE  UNCHANGED wait
  BY <1>4 DEF WorkerStep, Claim, TakePending, SendStashed, MarkDelivered, RebindGate, TakeOrphans,
       WorkerEnds, PeerRegisters
<1>5. ASSUME \/ OpenQuestion
             \/ \E p \in Movers : PeerUnregisters(p) \/ PeerReaped(p) \/ ForgetReaped(p)
             \/ \E p \in Switched : Switch(p)
             \/ \E s \in BOOLEAN : Evict(s)
             \/ UNCHANGED vars
      PROVE  UNCHANGED wait
  BY <1>5 DEF OpenQuestion, PeerUnregisters, PeerReaped, ForgetReaped, Switch, Evict, procVars, vars
<1> QED BY <1>1, <1>2, <1>3, <1>4, <1>5 DEF Next

-----------------------------------------------------------------------------
(* Replies *)

\* A handler in progress has an ask; one that is about to close it with a message
\* has its reply captured or lost, or the ask is gone.
OpTold(h) ==
  /\ op[h].pc # "idle" => ask[op[h].cid] # "unborn"
  /\ op[h].pc = "closeMsg"
       => op[h].cid \in replied \/ lost[op[h].cid] # "no" \/ ask[op[h].cid] = "dropped"

\* A worker that is about to mark a stash has sent it.
MarkSent(k) ==
  worker[k].pc = "mark"
    => worker[k].cur \in Cids /\ worker[k].asker \in Peers /\ sends[worker[k].cur][worker[k].asker] > 0

ReplyInv == ReplyKept /\ \A h \in Handlers : OpTold(h)

\* What is recorded of lost replies and accepted sends stays recorded.
HistoryKept ==
  /\ \A c \in Cids : lost[c] # "no" => lost'[c] # "no"
  /\ \A c \in Cids, p \in Peers : sends[c][p] > 0 => sends'[c][p] > 0

\* Only an ack whose reply fails writes lost, only an accepted send counts.
LEMMA StepHistory == ASSUME Typed, [Next]_vars PROVE HistoryKept
<1>0. ProcTypeOK /\ BusyHasAsk
  BY TypedParts
<1>1. CASE UNCHANGED <<sends, lost>>
  BY <1>1 DEF HistoryKept
<1>2. ASSUME NEW h \in Handlers, AckNotify(h)
      PROVE  HistoryKept
  <2>1. UNCHANGED sends /\ \/ UNCHANGED lost
                           \/ \E e \in {"error", "evicted"} : lost' = [lost EXCEPT ![op[h].cid] = e]
    BY <1>2 DEF AckNotify
  <2> QED BY <1>0, <2>1 DEF HistoryKept, ProcTypeOK
<1>3. ASSUME NEW k \in Workers, SendStashed(k)
      PROVE  HistoryKept
  <2>1. UNCHANGED lost
    BY <1>3 DEF SendStashed
  <2>2. CASE UNCHANGED sends
    BY <2>1, <2>2 DEF HistoryKept
  <2>3. CASE \E c \in worker[k].todo :
               sends' = [sends EXCEPT ![c] = [sends[c] EXCEPT ![worker[k].asker] = sends[c][worker[k].asker] + 1]]
    <3>1. PICK d : sends' = [sends EXCEPT ![d] = [sends[d] EXCEPT ![worker[k].asker] = sends[d][worker[k].asker] + 1]]
      BY <2>3
    <3>2. PICK q : q = worker[k].asker
      OBVIOUS
    <3>3. ASSUME NEW c \in Cids, NEW p \in Peers, sends[c][p] > 0
          PROVE  sends'[c][p] > 0
      <4>1. sends \in [Cids -> [Peers -> Nat]]
        BY <1>0 DEF ProcTypeOK
      <4>2. CASE c # d
        BY <3>1, <3>3, <4>1, <4>2
      <4>3. CASE c = d /\ p # q
        BY <3>1, <3>2, <3>3, <4>1, <4>3
      <4>4. CASE c = d /\ p = q
        BY <3>1, <3>2, <3>3, <4>1, <4>4
      <4> QED BY <4>2, <4>3, <4>4
    <3> QED BY <2>1, <3>3 DEF HistoryKept
  <2> QED BY <1>3, <2>2, <2>3 DEF SendStashed
<1>4. ASSUME NEW h \in Handlers,
             OpStart(h) \/ Ack(h) \/ AnswerQuestion(h) \/ AcpComplete(h) \/ OpStep(h)
      PROVE  AckNotify(h) \/ UNCHANGED <<sends, lost>>
  BY <1>4 DEF OpStart, OpenAsk, OpenAskMany, HandleQuery, OpenScheduledAsk, StartAsk, Ack,
       AnswerQuestion, AcpComplete, OpStep, DeliverAsk, CloseSendFailed, CloseReplyTo,
       CaptureMessage, CloseWithMessage, CloseBare, AcpNotify, AcpStash
<1>5. ASSUME NEW k \in Workers, WorkerStep(k) \/ \E p \in Movers : PeerRegisters(p, k)
      PROVE  SendStashed(k) \/ UNCHANGED <<sends, lost>>
  BY <1>5 DEF WorkerStep, Claim, TakePending, MarkDelivered, RebindGate, TakeOrphans,
       WorkerEnds, PeerRegisters
<1>6. ASSUME \/ OpenQuestion
             \/ \E p \in Movers : PeerUnregisters(p) \/ PeerReaped(p) \/ ForgetReaped(p)
             \/ \E p \in Switched : Switch(p)
             \/ \E s \in BOOLEAN : Evict(s)
             \/ UNCHANGED vars
      PROVE  UNCHANGED <<sends, lost>>
  BY <1>6 DEF OpenQuestion, PeerUnregisters, PeerReaped, ForgetReaped, Switch, Evict, vars
<1>7. ASSUME NEW w \in Waits,
             \/ WaitForAnswer(w) \/ WaitOnAck(w) \/ WaitReceive(w)
             \/ WaitTimeout(w) \/ WaitReread(w) \/ WaitAborts(w)
      PROVE  UNCHANGED <<sends, lost>>
  BY <1>7 DEF WaitForAnswer, WaitOnAck, WaitReceive, WaitTimeout, WaitReread, WaitAborts
<1> QED BY <1>1, <1>2, <1>3, <1>4, <1>5, <1>6, <1>7 DEF Next

\* What a handler that rests was told stays true.
LEMMA OpRests ==
  ASSUME Typed, \A g \in Handlers : OpTold(g), \A c \in Cids : OverKept(c), HistoryKept,
         NEW h \in Handlers, op'[h] = op[h]
  PROVE  OpTold(h)'
<1>1. OpTold(h) /\ (op[h].pc # "idle" => op[h].cid \in Cids)
  BY DEF Typed, BusyHasAsk
<1>2. \A c \in Cids : /\ ask[c] # "unborn" => ask'[c] # "unborn"
                      /\ ask[c] = "dropped" => ask'[c] = "dropped"
                      /\ c \in replied => c \in replied' \/ ask'[c] = "dropped"
                      /\ lost[c] # "no" => lost'[c] # "no"
  BY DEF OverKept, HistoryKept
<1>3. op[h].pc # "idle" => ask'[op[h].cid] # "unborn"
  BY <1>1, <1>2 DEF OpTold
<1>4. op[h].pc = "closeMsg"
        => op[h].cid \in replied' \/ lost'[op[h].cid] # "no" \/ ask'[op[h].cid] = "dropped"
  BY <1>1, <1>2 DEF OpTold
<1> QED BY <1>3, <1>4 DEF OpTold

\* A handler moves as one of its steps says; the others rest.
LEMMA OpToldMove ==
  ASSUME Typed, \A g \in Handlers : OpTold(g), \A c \in Cids : OverKept(c), HistoryKept,
         NEW h \in Handlers, NEW pc, NEW c, NEW p, NEW q,
         op' = [op EXCEPT ![h] = [pc |-> pc, cid |-> c, peer |-> p, prev |-> q]],
         pc # "idle" => ask'[c] # "unborn",
         pc = "closeMsg" => c \in replied' \/ lost'[c] # "no" \/ ask'[c] = "dropped"
  PROVE  \A g \in Handlers : OpTold(g)'
<1>1. op \in [Handlers -> OpRec]
  BY TypedParts DEF ProcTypeOK
<1>2. op'[h].pc = pc /\ op'[h].cid = c
  BY <1>1
<1>3. OpTold(h)'
  BY <1>2 DEF OpTold
<1>4. ASSUME NEW g \in Handlers, g # h
      PROVE  OpTold(g)'
  <2>1. op'[g] = op[g]
    BY <1>1, <1>4
  <2> QED BY <2>1, OpRests
<1> QED BY <1>3, <1>4

\* Every step keeps what handlers were told: an ack goes on to close with a message
\* once its reply is captured, or could not be sent.
LEMMA OpToldStep ==
  ASSUME Typed, AskInv, \A g \in Handlers : OpTold(g), Over, HistoryKept, [Next]_vars
  PROVE  \A g \in Handlers : OpTold(g)'
<1>0. AskTypeOK /\ ProcTypeOK /\ BusyHasAsk
  BY TypedParts
<1>a. \A c \in Cids : OverKept(c)
  BY DEF Over
<1>b. \A c \in Cids : ask[c] # "unborn" => ask'[c] # "unborn"
  BY <1>a DEF OverKept
<1>1. CASE UNCHANGED op
  BY <1>1, <1>a, OpRests
<1>2. ASSUME NEW h \in Handlers,
             OpStart(h) \/ Ack(h) \/ AnswerQuestion(h) \/ AcpComplete(h) \/ OpStep(h)
      PROVE  \A g \in Handlers : OpTold(g)'
  <2>c. PICK d, r, q : d = op[h].cid /\ r = op[h].peer /\ q = op[h].prev
    OBVIOUS
  <2>0. op[h].pc # "idle" => d \in Cids /\ ask[d] # "unborn" /\ ask'[d] # "unborn"
    BY <1>0, <1>b, <2>c DEF BusyHasAsk, OpTold
  <2>1. CASE OpDone(h)
    BY <1>a, <2>1, OpToldMove DEF OpDone, IdleOp
  <2>2. CASE op[h].pc # "idle" /\ \E pc \in OpPc \ {"closeMsg"} : OpMoves(h, pc)
    <3>1. PICK pc \in OpPc \ {"closeMsg"} : OpMoves(h, pc)
      BY <2>2
    <3> QED BY <1>a, <2>c, <2>0, <2>2, <3>1, OpToldMove DEF OpMoves
  <2>3. CASE \E c \in Cids : Open(c) /\ \E pc \in OpPc \ {"closeMsg"} : OpGoes(h, pc, c, from[c])
    <3>1. PICK c \in Cids, pc \in OpPc \ {"closeMsg"} :
            Open(c) /\ op' = [op EXCEPT ![h] = [pc |-> pc, cid |-> c, peer |-> from[c], prev |-> NoCid]]
      BY <2>3 DEF OpGoes
    <3>2. ask'[c] # "unborn"
      BY <1>b, <3>1 DEF Open
    <3> QED BY <1>a, <3>1, <3>2, OpToldMove
  <2>4. CASE OpStart(h)
    <3>1. PICK c, f, t, iq, ip, prev : c \in Cids /\ StartAsk(h, c, f, t, iq, ip, prev)
      BY <2>4 DEF OpStart, OpenAsk, OpenAskMany, HandleQuery, OpenScheduledAsk
    <3>2. ask'[c] # "unborn"
      BY <1>0, <3>1 DEF StartAsk, Register, AskTypeOK
    <3> QED BY <1>a, <3>1, <3>2, OpToldMove DEF StartAsk
  <2>5. CASE AckNotify(h) /\ OpMoves(h, "closeMsg") /\ lost'[d] # "no"
    <3>1. d \in Cids /\ ask'[d] # "unborn"
      BY <2>0, <2>5 DEF AckNotify, OpAt
    <3> QED BY <1>a, <2>c, <2>5, <3>1, OpToldMove DEF OpMoves
  <2>6. CASE CaptureMessage(h)
    <3>1. d \in Cids /\ ask[d] # "unborn" /\ ask'[d] # "unborn"
      BY <2>0, <2>6 DEF CaptureMessage, OpAt
    <3>2. d \in replied' \/ ask'[d] = "dropped"
      BY <1>0, <2>6, <2>c, <3>1 DEF CaptureMessage, CaptureReply, With, Present, Open, Closed, AskTypeOK
    <3> QED BY <1>a, <2>6, <2>c, <3>1, <3>2, OpToldMove DEF CaptureMessage, OpMoves
  <2>7. CASE Ack(h)
    BY <2>3, <2>7 DEF Ack, OpPc
  <2>8. CASE AcpComplete(h)
    <3>1. acp \subseteq Cids
      BY <1>0 DEF ProcTypeOK
    <3> QED BY <1>1, <2>3, <2>8, <3>1 DEF AcpComplete, OpPc
  <2>9. CASE DeliverAsk(h)
    BY <2>1, <2>2, <2>9 DEF DeliverAsk, OpAt, OpPc
  <2>10. CASE AckNotify(h)
    <3>1. d \in Cids
      BY <2>0, <2>10 DEF AckNotify, OpAt
    <3>2. \/ OpMoves(h, "capture") \/ OpDone(h)
          \/ /\ OpMoves(h, "closeMsg")
             /\ \E e \in {"error", "evicted"} : lost' = [lost EXCEPT ![d] = e]
      BY <2>10, <2>c DEF AckNotify
    <3>3. OpMoves(h, "closeMsg") => (OpMoves(h, "capture") \/ OpDone(h) \/ lost'[d] # "no")
      BY <1>0, <3>1, <3>2 DEF ProcTypeOK
    <3> QED BY <2>1, <2>2, <2>5, <2>10, <3>2, <3>3 DEF AckNotify, OpAt, OpPc
  <2>11. CASE AcpNotify(h)
    BY <2>2, <2>11 DEF AcpNotify, OpAt, OpPc
  <2>12. CASE \/ AnswerQuestion(h) \/ CloseSendFailed(h) \/ CloseReplyTo(h)
              \/ CloseWithMessage(h) \/ CloseBare(h) \/ AcpStash(h)
    BY <2>1, <2>12 DEF AnswerQuestion, CloseSendFailed, CloseReplyTo, CloseWithMessage, CloseBare, AcpStash
  <2> QED BY <1>2, <2>4, <2>6, <2>7, <2>8, <2>9, <2>10, <2>11, <2>12 DEF OpStep
<1>3. ASSUME NEW w \in Waits,
             \/ WaitForAnswer(w) \/ WaitOnAck(w) \/ WaitReceive(w)
             \/ WaitTimeout(w) \/ WaitReread(w) \/ WaitAborts(w)
      PROVE  UNCHANGED op
  BY <1>3 DEF WaitForAnswer, WaitOnAck, WaitReceive, WaitTimeout, WaitReread, WaitAborts
<1>4. ASSUME NEW k \in Workers, WorkerStep(k) \/ \E p \in Movers : PeerRegisters(p, k)
      PROVE  UNCHANGED op
  BY <1>4 DEF WorkerStep, Claim, TakePending, SendStashed, MarkDelivered, RebindGate, TakeOrphans,
       WorkerEnds, PeerRegisters
<1>5. ASSUME \/ OpenQuestion
             \/ \E p \in Movers : PeerUnregisters(p) \/ PeerReaped(p) \/ ForgetReaped(p)
             \/ \E p \in Switched : Switch(p)
             \/ \E s \in BOOLEAN : Evict(s)
             \/ UNCHANGED vars
      PROVE  UNCHANGED op
  BY <1>5 DEF OpenQuestion, PeerUnregisters, PeerReaped, ForgetReaped, Switch, Evict, procVars, vars
<1> QED BY <1>1, <1>2, <1>3, <1>4, <1>5 DEF Next

-----------------------------------------------------------------------------
(* Redelivery *)

\* A worker that won its claim.
Active(k) == worker[k].pc \notin {"idle", "claim"}

\* One worker at a time redelivers to a peer, and only such a worker has work.
OneWorker ==
  /\ \A k \in Workers : worker[k].pc # "idle" => worker[k].asker \in Peers
  /\ \A k \in Workers : ~Active(k) => worker[k].todo = {}
  /\ \A k, l \in Workers : Active(k) /\ Active(l) /\ worker[k].asker = worker[l].asker => k = l

\* The worker's ask c, sent to p, is about to be marked delivered.
Marking(k, c, p) == worker[k].pc = "mark" /\ worker[k].cur = c /\ worker[k].asker = p

\* A stash still to be sent has not been sent to this asker, and one that was sent
\* is being marked, or is stashed no more because its ask is over.
SendInv ==
  /\ \A k \in Workers : MarkSent(k)
  /\ \A k \in Workers, c \in Cids : c \in worker[k].todo => sends[c][worker[k].asker] = 0
  /\ \A k \in Workers, c \in Cids :
       c \in worker[k].todo \/ (worker[k].pc = "mark" /\ worker[k].cur = c) => c \in stashed \/ Done(c)
  /\ \A c \in Cids, p \in Peers : sends[c][p] > 0
       => (c \notin stashed /\ Done(c)) \/ \E k \in Workers : Marking(k, c, p)
  /\ StashSentOnce

\* Whatever a step does to the ledger, a stash goes only when its ask is over, and
\* what is over is not stashed again.
LEMMA StashKept ==
  ASSUME \A c \in Cids : OverKept(c), NEW c \in Cids
  PROVE  /\ c \in stashed \/ Done(c) => c \in stashed' \/ Done(c)'
         /\ c \notin stashed /\ Done(c) => c \notin stashed' /\ Done(c)'
  BY DEF OverKept

\* Steps that leave the workers and the sends alone.
LEMMA SendRests ==
  ASSUME SendInv, \A c \in Cids : OverKept(c), UNCHANGED <<worker, sends>>
  PROVE  SendInv'
<1>1. \A k \in Workers : MarkSent(k)'
  BY DEF SendInv, MarkSent
<1>2. \A k \in Workers, c \in Cids : c \in worker'[k].todo => sends'[c][worker'[k].asker] = 0
  BY DEF SendInv
<1>3. ASSUME NEW k \in Workers, NEW c \in Cids,
             c \in worker'[k].todo \/ (worker'[k].pc = "mark" /\ worker'[k].cur = c)
      PROVE  c \in stashed' \/ Done(c)'
  BY <1>3, StashKept DEF SendInv
<1>4. ASSUME NEW c \in Cids, NEW p \in Peers, sends'[c][p] > 0
      PROVE  (c \notin stashed' /\ Done(c)') \/ \E k \in Workers : Marking(k, c, p)'
  <2>1. (c \notin stashed /\ Done(c)) \/ \E k \in Workers : Marking(k, c, p)
    BY <1>4 DEF SendInv
  <2> QED BY <2>1, StashKept DEF Marking
<1>5. StashSentOnce'
  BY DEF SendInv, StashSentOnce
<1> QED BY <1>1, <1>2, <1>3, <1>4, <1>5 DEF SendInv

\* A worker k that moves without sending: its new work has not been sent, and what
\* it was marking is over and stashed no more.
LEMMA SendMove ==
  ASSUME Typed, SendInv, \A c \in Cids : OverKept(c), NEW k \in Workers, NEW r,
         worker' = [worker EXCEPT ![k] = r], UNCHANGED sends, r.pc # "mark",
         \A c \in Cids : c \in r.todo => sends[c][r.asker] = 0 /\ (c \in stashed' \/ Done(c)'),
         \A c \in Cids : worker[k].pc = "mark" /\ worker[k].cur = c => c \notin stashed' /\ Done(c)'
  PROVE  SendInv'
<1>0. worker \in [Workers -> WorkerRec]
  BY TypedParts DEF ProcTypeOK
<1>r. worker'[k] = r /\ \A l \in Workers : l # k => worker'[l] = worker[l]
  BY <1>0
<1>1. \A l \in Workers : MarkSent(l)'
  BY <1>r DEF SendInv, MarkSent
<1>2. \A l \in Workers, c \in Cids : c \in worker'[l].todo => sends'[c][worker'[l].asker] = 0
  BY <1>r DEF SendInv
<1>3. ASSUME NEW l \in Workers, NEW c \in Cids,
             c \in worker'[l].todo \/ (worker'[l].pc = "mark" /\ worker'[l].cur = c)
      PROVE  c \in stashed' \/ Done(c)'
  <2>1. CASE l = k
    BY <1>3, <1>r, <2>1
  <2>2. CASE l # k
    <3>1. c \in stashed \/ Done(c)
      BY <1>3, <1>r, <2>2 DEF SendInv
    <3> QED BY <3>1, StashKept
  <2> QED BY <2>1, <2>2
<1>4. ASSUME NEW c \in Cids, NEW p \in Peers, sends'[c][p] > 0
      PROVE  (c \notin stashed' /\ Done(c)') \/ \E l \in Workers : Marking(l, c, p)'
  <2>1. CASE c \notin stashed /\ Done(c)
    BY <2>1, StashKept
  <2>2. ASSUME NEW l \in Workers, Marking(l, c, p)
        PROVE  (c \notin stashed' /\ Done(c)') \/ \E m \in Workers : Marking(m, c, p)'
    <3>1. CASE l = k
      BY <2>2, <3>1 DEF Marking
    <3>2. CASE l # k
      BY <1>r, <2>2, <3>2 DEF Marking
    <3> QED BY <3>1, <3>2
  <2> QED BY <1>4, <2>1, <2>2 DEF SendInv
<1>5. StashSentOnce'
  BY DEF SendInv, StashSentOnce
<1> QED BY <1>1, <1>2, <1>3, <1>4, <1>5 DEF SendInv

\* A stash the asker accepted: it had not been sent to it, and no other worker that
\* redelivers to it has it to send.
LEMMA SendAccepted ==
  ASSUME Typed, OneWorker, SendInv, UNCHANGED askVars, NEW k \in Workers, NEW d \in Cids,
         NEW q \in Peers, NEW r,
         worker[k].pc = "send", worker[k].asker = q, d \in worker[k].todo,
         worker' = [worker EXCEPT ![k] = r],
         r.pc = "mark", r.asker = q, r.cur = d, r.todo = worker[k].todo \ {d},
         sends' = [sends EXCEPT ![d] = [sends[d] EXCEPT ![q] = sends[d][q] + 1]]
  PROVE  SendInv'
<1>0. worker \in [Workers -> WorkerRec] /\ sends \in [Cids -> [Peers -> Nat]]
  BY TypedParts DEF ProcTypeOK
<1>r. worker'[k] = r /\ \A l \in Workers : l # k => worker'[l] = worker[l]
  BY <1>0
<1>s. sends'[d][q] = 1
  <2>1. sends[d][q] = 0
    BY DEF SendInv
  <2> QED BY <1>0, <2>1
<1>t. \A c \in Cids, p \in Peers : c # d \/ p # q => sends'[c][p] = sends[c][p]
  BY <1>0
<1>u. \A c \in Cids : (c \in stashed' <=> c \in stashed) /\ (Done(c)' <=> Done(c))
  BY DEF askVars, content, Done, Closed
<1>1. ASSUME NEW l \in Workers
      PROVE  MarkSent(l)'
  <2>1. CASE l = k
    BY <1>r, <1>s, <2>1 DEF MarkSent
  <2>2. CASE l # k
    <3>1. worker[l].pc = "mark"
            => worker[l].cur \in Cids /\ worker[l].asker \in Peers /\ sends'[worker[l].cur][worker[l].asker] > 0
      BY <1>s, <1>t DEF SendInv, MarkSent
    <3> QED BY <1>r, <2>2, <3>1 DEF MarkSent
  <2> QED BY <2>1, <2>2
<1>2. ASSUME NEW l \in Workers, NEW c \in Cids, c \in worker'[l].todo
      PROVE  sends'[c][worker'[l].asker] = 0
  <2>1. CASE l = k
    BY <1>2, <1>r, <1>t, <2>1 DEF SendInv
  <2>2. CASE l # k
    <3>1. c \in worker[l].todo /\ worker'[l].asker = worker[l].asker /\ sends[c][worker[l].asker] = 0
      BY <1>2, <1>r, <2>2 DEF SendInv
    <3>2. Active(l) /\ worker[l].asker \in Peers
      BY <3>1 DEF OneWorker, Active
    <3>3. worker[l].asker # q
      BY <2>2, <3>2 DEF OneWorker, Active
    <3> QED BY <1>t, <3>1, <3>2, <3>3
  <2> QED BY <2>1, <2>2
<1>3. ASSUME NEW l \in Workers, NEW c \in Cids,
             c \in worker'[l].todo \/ (worker'[l].pc = "mark" /\ worker'[l].cur = c)
      PROVE  c \in stashed' \/ Done(c)'
  BY <1>3, <1>r, <1>u DEF SendInv
<1>4. ASSUME NEW c \in Cids, NEW p \in Peers, sends'[c][p] > 0
      PROVE  (c \notin stashed' /\ Done(c)') \/ \E l \in Workers : Marking(l, c, p)'
  <2>1. CASE c = d /\ p = q
    BY <1>r, <2>1 DEF Marking
  <2>2. CASE c # d \/ p # q
    <3>1. (c \notin stashed /\ Done(c)) \/ \E l \in Workers : Marking(l, c, p)
      BY <1>4, <1>t, <2>2 DEF SendInv
    <3> QED BY <1>r, <1>u, <3>1 DEF Marking
  <2> QED BY <2>1, <2>2
<1>5. StashSentOnce'
  <2>1. \A c \in Cids, p \in Peers : sends[c][p] <= 1
    BY DEF SendInv, StashSentOnce
  <2> QED BY <1>s, <1>t, <2>1 DEF StashSentOnce
<1> QED BY <1>1, <1>2, <1>3, <1>4, <1>5 DEF SendInv

\* A worker that moves keeps its place as the only one for its asker.
LEMMA OneWorkerMove ==
  ASSUME Typed, OneWorker, NEW k \in Workers, NEW r,
         worker' = [worker EXCEPT ![k] = r],
         r.pc # "idle" => r.asker \in Peers,
         r.pc \in {"idle", "claim"} => r.todo = {},
         r.pc \notin {"idle", "claim"}
           => \/ Active(k) /\ r.asker = worker[k].asker
              \/ \A l \in Workers : Active(l) => worker[l].asker # r.asker
  PROVE  OneWorker'
<1>0. worker \in [Workers -> WorkerRec]
  BY TypedParts DEF ProcTypeOK
<1>1. worker'[k] = r /\ \A l \in Workers : l # k => worker'[l] = worker[l]
  BY <1>0
<1>2. \A l \in Workers : worker'[l].pc # "idle" => worker'[l].asker \in Peers
  BY <1>1 DEF OneWorker
<1>3. \A l \in Workers : ~Active(l)' => worker'[l].todo = {}
  BY <1>1 DEF OneWorker, Active
<1>4. \A l, m \in Workers : Active(l)' /\ Active(m)' /\ worker'[l].asker = worker'[m].asker => l = m
  BY <1>1 DEF OneWorker, Active
<1> QED BY <1>2, <1>3, <1>4 DEF OneWorker

\* What a worker takes to send has not been sent to its asker: what was sent and is
\* still stashed is being marked by the only worker there is for this asker.
LEMMA TakenUnsent ==
  ASSUME Typed, OneWorker, SendInv, NEW k \in Workers, Active(k), worker[k].pc # "mark",
         NEW c \in stashed
  PROVE  c \in Cids /\ sends[c][worker[k].asker] = 0
<1>1. c \in Cids /\ worker[k].asker \in Peers
  BY TypedParts DEF AskTypeOK, OneWorker, Active
<1>2. sends[c][worker[k].asker] \in Nat
  BY <1>1, TypedParts DEF ProcTypeOK
<1>3. ASSUME sends[c][worker[k].asker] > 0
      PROVE  FALSE
  <2>1. PICK l \in Workers : Marking(l, c, worker[k].asker)
    BY <1>1, <1>3 DEF SendInv
  <2>2. l = k
    BY <2>1 DEF Marking, OneWorker, Active
  <2> QED BY <2>1, <2>2 DEF Marking
<1> QED BY <1>1, <1>2, <1>3

\* A worker's quiet step: the ledger and the sends stay, and what it takes has not
\* been sent.
LEMMA QuietMove ==
  ASSUME Typed, OneWorker, SendInv, UNCHANGED <<askVars, sends>>, NEW k \in Workers, NEW r,
         worker' = [worker EXCEPT ![k] = r], worker[k].pc # "mark", r.pc # "mark",
         r.pc # "idle" => r.asker \in Peers,
         r.pc \in {"idle", "claim"} => r.todo = {},
         r.pc \notin {"idle", "claim"}
           => \/ Active(k) /\ r.asker = worker[k].asker
              \/ \A l \in Workers : Active(l) => worker[l].asker # r.asker,
         \A c \in Cids : c \in r.todo => sends[c][r.asker] = 0 /\ (c \in stashed \/ Done(c))
  PROVE  OneWorker' /\ SendInv'
<1>1. OneWorker'
  BY OneWorkerMove
<1>2. \A c \in Cids : OverKept(c) /\ (c \in stashed \/ Done(c) => c \in stashed' \/ Done(c)')
  BY DEF askVars, content, OverKept, Done, Closed
<1>3. SendInv'
  BY <1>2, SendMove
<1> QED BY <1>1, <1>3

\* Every step of a worker keeps redelivery single-flight and its sends accounted for.
LEMMA WorkerSends ==
  ASSUME Typed, AskInv, Over, OneWorker, SendInv, NEW k \in Workers, WorkerStep(k)
  PROVE  OneWorker' /\ SendInv'
<1>0. AskTypeOK /\ ProcTypeOK
  BY TypedParts
<1>a. worker[k].pc # "idle" => worker[k].asker \in Peers
  BY DEF OneWorker
<1>b. \A c \in worker[k].todo : c \in Cids /\ sends[c][worker[k].asker] = 0 /\ (c \in stashed \/ Done(c))
  <2>1. worker[k].todo \subseteq Cids
    BY <1>0 DEF ProcTypeOK, WorkerRec
  <2> QED BY <2>1 DEF SendInv
<1>1. ASSUME WorkerDone(k), UNCHANGED <<askVars, sends>>, worker[k].pc # "mark"
      PROVE  OneWorker' /\ SendInv'
  <2>1. IdleWorker.pc = "idle" /\ IdleWorker.todo = {}
    BY DEF IdleWorker
  <2>2. PICK r : r = IdleWorker
    OBVIOUS
  <2> QED BY <1>1, <2>1, <2>2, QuietMove DEF WorkerDone
<1>2. ASSUME NEW pc \in {"take", "send", "orphans"}, NEW pass, NEW todo, NEW live,
             WorkerGoes(k, pc, pass, todo, NoCid, live), UNCHANGED <<askVars, sends>>,
             worker[k].pc \notin {"idle", "mark"},
             worker[k].pc = "claim" => \A l \in Workers : Active(l) => worker[l].asker # worker[k].asker,
             \A c \in Cids : c \in todo => sends[c][worker[k].asker] = 0 /\ (c \in stashed \/ Done(c))
      PROVE  OneWorker' /\ SendInv'
  <2>1. PICK r : r = [pc |-> pc, pass |-> pass, asker |-> worker[k].asker, todo |-> todo,
                      cur |-> NoCid, live |-> live]
    OBVIOUS
  <2>2. worker' = [worker EXCEPT ![k] = r]
    BY <1>2, <2>1 DEF WorkerGoes
  <2>3. r.pc = pc /\ r.asker = worker[k].asker /\ r.todo = todo
    BY <2>1
  <2>4. \/ Active(k) /\ r.asker = worker[k].asker
        \/ \A l \in Workers : Active(l) => worker[l].asker # r.asker
    BY <1>2, <2>3 DEF Active
  <2>5. r.asker \in Peers
    BY <1>2, <1>a, <2>3
  <2> QED BY <1>2, <2>2, <2>3, <2>4, <2>5, QuietMove
<1>3. CASE Claim(k)
  <2>1. CASE Redelivering(worker[k].asker)
    BY <1>1, <1>3, <2>1 DEF Claim, WorkerAt
  <2>2. CASE ~Redelivering(worker[k].asker)
    <3>1. \A l \in Workers : Active(l) => worker[l].asker # worker[k].asker
      BY <2>2 DEF Redelivering, WorkerAt, Active
    <3> QED BY <1>2, <1>3, <2>2, <3>1 DEF Claim, WorkerAt
  <2> QED BY <2>1, <2>2
<1>4. CASE TakePending(k)
  <2>1. worker[k].pc = "take" /\ Active(k)
    BY <1>4 DEF TakePending, WorkerAt, Active
  <2>2. \A c \in TakePendingRepliesForAsker(worker[k].asker) :
          sends[c][worker[k].asker] = 0 /\ c \in stashed
    BY <2>1, TakenUnsent DEF TakePendingRepliesForAsker
  <2> QED BY <1>2, <1>4, <2>1, <2>2 DEF TakePending
<1>5. CASE TakeOrphans(k)
  <2>1. worker[k].pc = "orphans" /\ Active(k)
    BY <1>5 DEF TakeOrphans, WorkerAt, Active
  <2> DEFINE todo == {c \in TakeOrphanPendingReplies(worker[k].live) : from[c] \in Twins}
  <2>2. \A c \in todo : sends[c][worker[k].asker] = 0 /\ c \in stashed
    BY <2>1, TakenUnsent DEF TakeOrphanPendingReplies
  <2>3. WorkerGoes(k, "send", 2, todo, NoCid, {}) /\ UNCHANGED <<askVars, sends>>
    BY <1>5 DEF TakeOrphans
  <2> HIDE DEF todo
  <2> QED BY <1>2, <2>1, <2>2, <2>3
<1>6. CASE RebindGate(k)
  BY <1>1, <1>2, <1>6 DEF RebindGate, WorkerAt
<1>7. CASE WorkerEnds(k)
  BY <1>1, <1>7 DEF WorkerEnds, WorkerAt
<1>8. CASE SendStashed(k)
  <2>p. PICK p : p = worker[k].asker
    OBVIOUS
  <2>0. worker[k].pc = "send" /\ p \in Peers /\ UNCHANGED askVars
    BY <1>8, <1>a, <2>p DEF SendStashed, WorkerAt
  <2>1. PICK d \in worker[k].todo, outcome \in Notify(p) :
          IF outcome = "accepted"
            THEN /\ sends' = [sends EXCEPT ![d] = [sends[d] EXCEPT ![p] = sends[d][p] + 1]]
                 /\ WorkerGoes(k, "mark", worker[k].pass, worker[k].todo \ {d}, d, {})
            ELSE /\ UNCHANGED sends
                 /\ WorkerGoes(k, "send", worker[k].pass, worker[k].todo \ {d}, NoCid, {})
    BY <1>8, <2>p, Zenon DEF SendStashed
  <2>2. CASE outcome = "accepted"
    <3>1. PICK r : r = [pc |-> "mark", pass |-> worker[k].pass, asker |-> worker[k].asker,
                        todo |-> worker[k].todo \ {d}, cur |-> d, live |-> {}]
      OBVIOUS
    <3>2. worker' = [worker EXCEPT ![k] = r]
      BY <2>1, <2>2, <3>1 DEF WorkerGoes
    <3>3. r.pc = "mark" /\ r.asker = p /\ r.todo = worker[k].todo \ {d} /\ r.cur = d
      BY <2>p, <3>1
    <3>4. SendInv'
      BY <1>b, <2>p, <2>0, <2>1, <2>2, <3>2, <3>3, SendAccepted
    <3>5. OneWorker'
      BY <2>p, <2>0, <3>2, <3>3, OneWorkerMove DEF Active
    <3> QED BY <3>4, <3>5
  <2>3. CASE outcome # "accepted"
    <3>1. WorkerGoes(k, "send", worker[k].pass, worker[k].todo \ {d}, NoCid, {}) /\ UNCHANGED sends
      BY <2>1, <2>3
    <3> QED BY <1>2, <1>b, <2>0, <3>1
  <2> QED BY <2>2, <2>3
<1>9. CASE MarkDelivered(k)
  <2>1. PICK d, asker : d = worker[k].cur /\ MarkPendingReplyDelivered(d, asker)
    BY <1>9 DEF MarkDelivered
  <2>2. worker[k].pc = "mark" /\ d \in Cids /\ (d \in stashed \/ Done(d))
    BY <1>9, <2>1 DEF MarkDelivered, WorkerAt, SendInv, MarkSent
  <2>3. d \notin stashed' /\ \A c \in Cids : OverKept(c)
    BY <1>0, <2>1, MarkOver DEF Over
  <2>4. Done(d)'
    BY <2>2, <2>3, StashKept
  <2>5. PICK r : r = [pc |-> "send", pass |-> worker[k].pass, asker |-> worker[k].asker,
                      todo |-> worker[k].todo, cur |-> NoCid, live |-> {}]
    OBVIOUS
  <2>6. worker' = [worker EXCEPT ![k] = r] /\ UNCHANGED sends
    BY <1>9, <2>5 DEF MarkDelivered, WorkerGoes
  <2>7. r.pc = "send" /\ r.asker = worker[k].asker /\ r.todo = worker[k].todo
    BY <2>5
  <2>8. OneWorker'
    BY <1>a, <2>2, <2>6, <2>7, OneWorkerMove DEF Active
  <2>9. \A c \in Cids : c \in r.todo => sends[c][r.asker] = 0 /\ (c \in stashed' \/ Done(c)')
    BY <1>b, <2>3, <2>7, StashKept
  <2>10. SendInv'
    BY <2>1, <2>3, <2>4, <2>6, <2>7, <2>9, SendMove
  <2> QED BY <2>8, <2>10
<1> QED BY <1>3, <1>4, <1>5, <1>6, <1>7, <1>8, <1>9 DEF WorkerStep

\* Every step keeps redelivery single-flight and its sends accounted for.
LEMMA SendStep ==
  ASSUME Typed, AskInv, Over, OneWorker, SendInv, [Next]_vars
  PROVE  OneWorker' /\ SendInv'
<1>a. \A c \in Cids : OverKept(c)
  BY DEF Over
<1>1. CASE UNCHANGED <<worker, sends>>
  <2>1. OneWorker'
    BY <1>1 DEF OneWorker, Active
  <2> QED BY <1>1, <1>a, <2>1, SendRests
<1>2. ASSUME NEW k \in Workers, NEW p \in Movers, PeerRegisters(p, k)
      PROVE  OneWorker' /\ SendInv'
  <2>1. PICK r : r = [pc |-> "claim", pass |-> 1, asker |-> p, todo |-> {}, cur |-> NoCid, live |-> {}]
    OBVIOUS
  <2>2. worker' = [worker EXCEPT ![k] = r] /\ UNCHANGED <<askVars, sends>> /\ worker[k].pc = "idle"
    BY <1>2, <2>1 DEF PeerRegisters, WorkerAt
  <2>3. r.pc = "claim" /\ r.asker \in Peers /\ r.todo = {}
    BY <2>1, PeerSets
  <2> QED BY <2>2, <2>3, QuietMove
<1>3. ASSUME NEW h \in Handlers,
             OpStart(h) \/ Ack(h) \/ AnswerQuestion(h) \/ AcpComplete(h) \/ OpStep(h)
      PROVE  UNCHANGED <<worker, sends>>
  BY <1>3 DEF OpStart, OpenAsk, OpenAskMany, HandleQuery, OpenScheduledAsk, StartAsk, Ack,
       AnswerQuestion, AcpComplete, OpStep, DeliverAsk, CloseSendFailed, CloseReplyTo, AckNotify,
       CaptureMessage, CloseWithMessage, CloseBare, AcpNotify, AcpStash
<1>4. ASSUME NEW w \in Waits,
             \/ WaitForAnswer(w) \/ WaitOnAck(w) \/ WaitReceive(w)
             \/ WaitTimeout(w) \/ WaitReread(w) \/ WaitAborts(w)
      PROVE  UNCHANGED <<worker, sends>>
  BY <1>4 DEF WaitForAnswer, WaitOnAck, WaitReceive, WaitTimeout, WaitReread, WaitAborts
<1>5. ASSUME \/ OpenQuestion
             \/ \E p \in Movers : PeerUnregisters(p) \/ PeerReaped(p) \/ ForgetReaped(p)
             \/ \E p \in Switched : Switch(p)
             \/ \E s \in BOOLEAN : Evict(s)
             \/ UNCHANGED vars
      PROVE  UNCHANGED <<worker, sends>>
  BY <1>5 DEF OpenQuestion, PeerUnregisters, PeerReaped, ForgetReaped, Switch, Evict, procVars, vars
<1> QED BY <1>1, <1>2, <1>3, <1>4, <1>5, WorkerSends DEF Next

\* An ask is closed with a message by an ack whose reply is captured or lost, or by
\* a worker that sent its stash; neither is forgotten while the ask is there.
LEMMA ReplyStep ==
  ASSUME Typed, AskInv, ReplyInv, SendInv, Over, HistoryKept, [Next]_vars
  PROVE  ReplyInv'
<1>0. AskTypeOK /\ BusyHasAsk
  BY TypedParts
<1>1. \A h \in Handlers : OpTold(h)'
  BY OpToldStep DEF ReplyInv
<1>2. ASSUME NEW c \in Cids, ask'[c] = "ack_with_msg"
      PROVE  c \in replied' \/ lost'[c] # "no" \/ \E p \in Peers : sends'[c][p] > 0
  <2>0. /\ c \in replied => c \in replied'
        /\ lost[c] # "no" => lost'[c] # "no"
        /\ (\E p \in Peers : sends[c][p] > 0) => \E p \in Peers : sends'[c][p] > 0
    BY <1>2 DEF Over, OverKept, HistoryKept
  <2>1. CASE ask[c] = "ack_with_msg"
    BY <2>0, <2>1 DEF ReplyInv, ReplyKept
  <2>2. ASSUME ask[c] # "ack_with_msg", NEW h \in Handlers, CloseWithMessage(h)
        PROVE  c \in replied' \/ lost'[c] # "no"
    <3>1. Open(op[h].cid) /\ c = op[h].cid
      BY <1>0, <1>2, <2>2 DEF CloseWithMessage, Close, AskTypeOK
    <3> QED BY <2>0, <2>2, <3>1 DEF CloseWithMessage, OpAt, ReplyInv, OpTold, Open
  <2>3. ASSUME ask[c] # "ack_with_msg", NEW k \in Workers, MarkDelivered(k)
        PROVE  \E p \in Peers : sends'[c][p] > 0
    <3>1. c = worker[k].cur /\ worker[k].pc = "mark"
      BY <1>0, <1>2, <2>3, MarkOver DEF MarkDelivered, WorkerAt
    <3> QED BY <2>0, <3>1 DEF SendInv, MarkSent
  <2> QED BY <1>2, <2>1, <2>2, <2>3, StepOver DEF NoMessage
<1> QED BY <1>1, <1>2 DEF ReplyInv, ReplyKept

\* The invariant of the ledger and its goroutines.
Inv == Typed /\ AskInv /\ WaitInv /\ ReplyInv /\ OneWorker /\ SendInv

\* Nothing is asked, waited for or redelivered at first.
LEMMA InvInit == Init => Inv
<1> SUFFICES ASSUME Init PROVE Inv
  OBVIOUS
<1>1. Typed
  BY TypedInit
<1>2. AskInv
  BY DEF Init, AskInit, AskInv, Outcome
<1>3. WaitInv
  BY DEF Init, WaitInv, WaitTold, Waiting, IdleWait
<1>4. ReplyInv
  BY DEF Init, AskInit, ReplyInv, ReplyKept, OpTold, IdleOp
<1>5. OneWorker
  BY DEF Init, OneWorker, Active, IdleWorker
<1>6. SendInv
  BY DEF Init, SendInv, MarkSent, IdleWorker, StashSentOnce
<1> QED BY <1>1, <1>2, <1>3, <1>4, <1>5, <1>6 DEF Inv

\* Every step keeps the invariant.
LEMMA InvStep == ASSUME Inv, [Next]_vars PROVE Inv'
<1>1. Typed' /\ Over /\ HistoryKept
  BY TypedStep, StepOver, StepHistory DEF Inv
<1> QED BY <1>1, WaitInvStep, ReplyStep, SendStep DEF Inv, Over

-----------------------------------------------------------------------------
(* The promise is kept: every step is one of AskPromise, or a stutter *)

\* What a step does to the ledger as AskPromise sees it: nothing; or it changes one
\* ask, from one phase to another; or it drops asks, or moves the barrier.
AskSame(c) == Phase(c)' = Phase(c) /\ Between(c)' = Between(c)
LedgerSame == (\A c \in Cids : AskSame(c)) /\ UNCHANGED <<answer, quiescing>>
OnlyAsk(c) == (\A d \in Cids \ {c} : AskSame(d)) /\ UNCHANGED quiescing

LedgerRaise ==
  \E c \in Cids :
    /\ OnlyAsk(c) /\ UNCHANGED answer /\ Phase(c) = "unborn" /\ Phase(c)' = "open"
    /\ \E f, t \in Peers \cup {NoPeer} : Between(c)' = {f, t} /\ {f, t} \cap quiescing = {}
LedgerSettle(c, v) ==
  /\ c \in Cids /\ OnlyAsk(c)
  /\ Phase(c) = "open" /\ Phase(c)' = "settled" /\ Between(c)' = {}
  /\ answer' = [answer EXCEPT ![c] = v]
LedgerForget ==
  \E cs \in SUBSET Cids :
    /\ \A c \in cs : Phase(c) \in {"open", "settled"} /\ Phase(c)' = "forgotten" /\ Between(c)' = {}
    /\ \A c \in Cids \ cs : AskSame(c)
    /\ UNCHANGED <<answer, quiescing>>
LedgerBar ==
  \E p \in Peers :
    /\ p \notin quiescing /\ quiescing' = quiescing \cup {p}
    /\ \A c \in Cids : AskSame(c) /\ p \notin Between(c)
    /\ UNCHANGED answer
LedgerLift ==
  \E p \in Peers :
    /\ p \in quiescing /\ quiescing' = quiescing \ {p}
    /\ (\A c \in Cids : AskSame(c)) /\ UNCHANGED answer
LedgerStep ==
  \/ LedgerSame \/ LedgerRaise \/ LedgerForget \/ LedgerBar \/ LedgerLift
  \/ \E c \in Cids, v \in Recorded \cup {NoAnswer} : LedgerSettle(c, v)

(* What each method of the tracker does to the ledger. *)

\* The methods that leave the states, the endpoints of open asks, the answers and the
\* barrier alone.
LEMMA SameStep ==
  ASSUME UNCHANGED <<ask, answer, quiescing>>, \A c \in Cids : Open(c) => from'[c] = from[c] /\ to'[c] = to[c]
  PROVE  LedgerSame
  BY DEF LedgerSame, AskSame, Phase, Between, Open, Closed

\* Register raises an ask, between endpoints the barrier does not hold.
LEMMA RegisterRaises ==
  ASSUME AskTypeOK, NEW c \in Cids, NEW f \in Peers \cup {NoPeer}, NEW t \in Peers \cup {NoPeer},
         NEW q, NEW l, Register(c, f, t, q, l)
  PROVE  LedgerRaise
<1>1. OnlyAsk(c)
  BY DEF AskTypeOK, Register, OnlyAsk, AskSame, Phase, Between, Open, Closed
<1>2. Phase(c) = "unborn" /\ Phase(c)' = "open" /\ Between(c)' = {f, t}
  BY DEF AskTypeOK, Register, Phase, Between, Open, Closed, CloseReason
<1>3. {f, t} \cap quiescing = {} /\ UNCHANGED answer
  BY DEF Register, Barred
<1> QED BY <1>1, <1>2, <1>3 DEF LedgerRaise

\* Closing an open ask settles it without an answer; it had none.
LEMMA ClosingSettles ==
  ASSUME AskTypeOK, AskInv, NEW c \in Cids, Open(c), NEW reason \in CloseReason,
         ask' = [ask EXCEPT ![c] = reason], UNCHANGED <<to, answer, quiescing>>,
         \A d \in Cids : d # c => from'[d] = from[d]
  PROVE  LedgerSettle(c, NoAnswer)
<1>1. OnlyAsk(c)
  BY DEF AskTypeOK, OnlyAsk, AskSame, Phase, Between, Open, Closed
<1>2. Phase(c) = "open" /\ Phase(c)' = "settled" /\ Between(c)' = {}
  BY DEF AskTypeOK, Phase, Between, Open, Closed, CloseReason
<1>3. answer' = [answer EXCEPT ![c] = NoAnswer]
  BY DEF AskTypeOK, AskInv, Open
<1> QED BY <1>1, <1>2, <1>3 DEF LedgerSettle

\* Close settles an open ask and leaves any other alone.
LEMMA CloseSettles ==
  ASSUME AskTypeOK, AskInv, NEW c \in Cids, NEW reason \in CloseReason, Close(c, reason)
  PROVE  LedgerStep
<1>1. CASE Open(c)
  BY <1>1, ClosingSettles DEF Close, content, LedgerStep
<1>2. CASE ~Open(c)
  BY <1>2, SameStep DEF Close, content, LedgerStep
<1> QED BY <1>1, <1>2

\* Recording an answer settles the ask with it.
LEMMA RecordSettles ==
  ASSUME AskTypeOK, AskInv, NEW c \in Cids, NEW outcome, NEW hasText,
         Answer(c, outcome, hasText), Answerable(c)
  PROVE  LedgerSettle(c, outcome)
<1>1. /\ ask' = [ask EXCEPT ![c] = "answered"] /\ answer' = [answer EXCEPT ![c] = outcome]
      /\ UNCHANGED <<from, to, quiescing>> /\ ask[c] = "open"
  BY DEF Answer, Record, Answerable, Open
<1>2. OnlyAsk(c)
  BY <1>1 DEF AskTypeOK, OnlyAsk, AskSame, Phase, Between, Open, Closed
<1>3. Phase(c) = "open" /\ Phase(c)' = "settled" /\ Between(c)' = {}
  BY <1>1 DEF AskTypeOK, Phase, Between, Open, Closed, CloseReason
<1> QED BY <1>1, <1>2, <1>3 DEF LedgerSettle

\* Answer settles an open ask and leaves any other alone.
LEMMA AnswerSettles ==
  ASSUME AskTypeOK, AskInv, NEW c \in Cids, NEW outcome \in Recorded, NEW hasText,
         Answer(c, outcome, hasText)
  PROVE  LedgerStep
<1>1. CASE Answerable(c)
  BY <1>1, RecordSettles DEF LedgerStep
<1>2. CASE ~Answerable(c)
  BY <1>2, SameStep DEF Answer, LedgerStep
<1> QED BY <1>1, <1>2

\* A delivered stash settles its ask if it is open; a closed one changes hands unseen.
LEMMA MarkSettles ==
  ASSUME AskTypeOK, AskInv, NEW c \in Cids, NEW asker, MarkPendingReplyDelivered(c, asker)
  PROVE  LedgerStep
<1>1. CASE c \in stashed /\ Open(c)
  <2>1. /\ ask' = [ask EXCEPT ![c] = "ack_with_msg"] /\ UNCHANGED <<to, answer, quiescing>>
        /\ \A d \in Cids : d # c => from'[d] = from[d]
    BY <1>1 DEF MarkPendingReplyDelivered, AskTypeOK
  <2> QED BY <1>1, <2>1, ClosingSettles DEF LedgerStep, CloseReason
<1>2. CASE ~(c \in stashed /\ Open(c))
  <2>1. UNCHANGED <<ask, to, answer, quiescing>> /\ \A d \in Cids : Open(d) => from'[d] = from[d]
    BY <1>2 DEF MarkPendingReplyDelivered, AskTypeOK
  <2> QED BY <2>1, SameStep DEF LedgerStep
<1> QED BY <1>1, <1>2

\* A removal forgets asks that are there.
LEMMA DropForgets ==
  ASSUME NEW cs \in SUBSET Cids, \A c \in cs : Present(c), Drop(cs)
  PROVE  LedgerForget
<1>1. ASSUME NEW c \in cs
      PROVE  Phase(c) \in {"open", "settled"} /\ Phase(c)' = "forgotten" /\ Between(c)' = {}
  BY <1>1 DEF Drop, Phase, Between, Present, Open, Closed, CloseReason
<1>2. ASSUME NEW c \in Cids \ cs
      PROVE  AskSame(c)
  BY <1>2 DEF Drop, AskSame, Phase, Between, Open, Closed
<1> QED BY <1>1, <1>2 DEF LedgerForget, Drop

\* BeginQuiesce bars a peer no open ask is between, EndQuiesce lets it in again.
LEMMA QuiesceMoves ==
  ASSUME NEW p \in Peers, BeginQuiesce(p) \/ (p \in quiescing /\ EndQuiesce(p))
  PROVE  LedgerBar \/ LedgerLift
<1>1. (\A c \in Cids : AskSame(c)) /\ UNCHANGED answer
  BY DEF BeginQuiesce, EndQuiesce, content, AskSame, Phase, Between, Open, Closed
<1>2. CASE BeginQuiesce(p)
  <2>1. \A c \in Cids : p \notin Between(c)
    BY <1>2 DEF BeginQuiesce, Between, Involves
  <2> QED BY <1>1, <1>2, <2>1 DEF BeginQuiesce, LedgerBar
<1>3. CASE p \in quiescing /\ EndQuiesce(p)
  BY <1>1, <1>3 DEF EndQuiesce, LedgerLift
<1> QED BY <1>2, <1>3

(* The steps of AskPromise, from what the ledger and the waits do. *)

\* A function with one value changed, point by point.
LEMMA PhaseSet ==
  ASSUME NEW c \in Cids, NEW v, Phase(c)' = v, \A d \in Cids \ {c} : Phase(d)' = Phase(d)
  PROVE  [d \in Cids |-> Phase(d)]' = [[d \in Cids |-> Phase(d)] EXCEPT ![c] = v]
  OBVIOUS

\* The same for the endpoints.
LEMMA BetweenSet ==
  ASSUME NEW c \in Cids, NEW v, Between(c)' = v, \A d \in Cids \ {c} : Between(d)' = Between(d)
  PROVE  [d \in Cids |-> Between(d)]' = [[d \in Cids |-> Between(d)] EXCEPT ![c] = v]
  OBVIOUS

\* A ledger that stays the same in every ask is the same to AskPromise.
LEMMA SameSeen ==
  ASSUME \A c \in Cids : AskSame(c)
  PROVE  /\ [c \in Cids |-> Phase(c)]' = [c \in Cids |-> Phase(c)]
         /\ [c \in Cids |-> Between(c)]' = [c \in Cids |-> Between(c)]
  BY DEF AskSame

\* Settling an ask, as AskPromise sees it.
LEMMA SettleSeen ==
  ASSUME NEW c \in Cids, NEW v, LedgerSettle(c, v)
  PROVE  Promise!Settled(c, v)
<1>1. [d \in Cids |-> Phase(d)]' = [[d \in Cids |-> Phase(d)] EXCEPT ![c] = "settled"]
  BY PhaseSet DEF LedgerSettle, OnlyAsk, AskSame
<1>2. [d \in Cids |-> Between(d)]' = [[d \in Cids |-> Between(d)] EXCEPT ![c] = {}]
  BY BetweenSet DEF LedgerSettle, OnlyAsk, AskSame
<1>3. [d \in Cids |-> Phase(d)][c] = "open"
  BY DEF LedgerSettle
<1> QED BY <1>1, <1>2, <1>3 DEF LedgerSettle, Promise!Settled

\* A step that leaves the waits and the sends alone is one of AskPromise, whatever it
\* does to the ledger.
LEMMA LedgerPromise ==
  ASSUME LedgerStep, UNCHANGED <<wait, sends>>
  PROVE  [Promise!Next]_(Promise!promiseVars)
<1>w. UNCHANGED <<[w \in Waits |-> wait[w].got], [w \in Waits |-> wait[w].cid], sends>>
  OBVIOUS
<1>1. CASE LedgerSame
  <2>1. UNCHANGED Promise!promiseVars
    BY <1>1, <1>w, SameSeen DEF LedgerSame, Promise!promiseVars
  <2> QED BY <2>1
<1>2. CASE LedgerRaise
  <2>1. PICK c \in Cids, f \in Peers \cup {NoPeer}, t \in Peers \cup {NoPeer} :
          /\ OnlyAsk(c) /\ UNCHANGED answer /\ Phase(c) = "unborn" /\ Phase(c)' = "open"
          /\ Between(c)' = {f, t} /\ {f, t} \cap quiescing = {}
    BY <1>2 DEF LedgerRaise
  <2>2. [d \in Cids |-> Phase(d)]' = [[d \in Cids |-> Phase(d)] EXCEPT ![c] = "open"]
    BY <2>1, PhaseSet DEF OnlyAsk, AskSame
  <2>3. [d \in Cids |-> Between(d)]' = [[d \in Cids |-> Between(d)] EXCEPT ![c] = {f, t}]
    BY <2>1, BetweenSet DEF OnlyAsk, AskSame
  <2>4. [d \in Cids |-> Phase(d)][c] = "unborn" /\ UNCHANGED quiescing
    BY <2>1 DEF OnlyAsk
  <2>5. Promise!Raise(c)
    BY <1>w, <2>1, <2>2, <2>3, <2>4 DEF Promise!Raise
  <2> QED BY <2>5 DEF Promise!Next
<1>3. ASSUME NEW c \in Cids, NEW v \in Recorded \cup {NoAnswer}, LedgerSettle(c, v)
      PROVE  [Promise!Next]_(Promise!promiseVars)
  <2>1. Promise!Settled(c, v) /\ UNCHANGED quiescing
    BY <1>3, SettleSeen DEF LedgerSettle, OnlyAsk
  <2>2. Promise!Settle(c)
    BY <1>w, <2>1 DEF Promise!Settle, Recorded
  <2> QED BY <2>2 DEF Promise!Next
<1>4. CASE LedgerForget
  <2>1. PICK cs \in SUBSET Cids :
          /\ \A c \in cs : Phase(c) \in {"open", "settled"} /\ Phase(c)' = "forgotten" /\ Between(c)' = {}
          /\ \A c \in Cids \ cs : AskSame(c)
          /\ UNCHANGED <<answer, quiescing>>
    BY <1>4 DEF LedgerForget
  <2>2. [c \in Cids |-> Phase(c)]'
          = [c \in Cids |-> IF c \in cs THEN "forgotten" ELSE [d \in Cids |-> Phase(d)][c]]
    BY <2>1 DEF AskSame
  <2>3. [c \in Cids |-> Between(c)]'
          = [c \in Cids |-> IF c \in cs THEN {} ELSE [d \in Cids |-> Between(d)][c]]
    BY <2>1 DEF AskSame
  <2>4. \A c \in cs : [d \in Cids |-> Phase(d)][c] \in {"open", "settled"}
    BY <2>1
  <2>5. Promise!Forget(cs)
    BY <1>w, <2>1, <2>2, <2>3, <2>4 DEF Promise!Forget
  <2> QED BY <2>5 DEF Promise!Next
<1>5. CASE LedgerBar
  <2>1. PICK p \in Peers :
          /\ p \notin quiescing /\ quiescing' = quiescing \cup {p}
          /\ \A c \in Cids : AskSame(c) /\ p \notin Between(c)
          /\ UNCHANGED answer
    BY <1>5 DEF LedgerBar
  <2>2. \A c \in Cids : p \notin [d \in Cids |-> Between(d)][c]
    BY <2>1
  <2>3. Promise!Bar(p)
    BY <1>w, <2>1, <2>2, SameSeen DEF Promise!Bar
  <2> QED BY <2>3 DEF Promise!Next
<1>6. CASE LedgerLift
  <2>1. PICK p \in Peers :
          /\ p \in quiescing /\ quiescing' = quiescing \ {p}
          /\ (\A c \in Cids : AskSame(c)) /\ UNCHANGED answer
    BY <1>6 DEF LedgerLift
  <2>2. Promise!Lift(p)
    BY <1>w, <2>1, SameSeen DEF Promise!Lift
  <2> QED BY <2>2 DEF Promise!Next
<1> QED BY <1>1, <1>2, <1>3, <1>4, <1>5, <1>6 DEF LedgerStep

\* A wait's move, as AskPromise sees it.
LEMMA WaitSet ==
  ASSUME wait \in [Waits -> WaitRec], NEW w \in Waits, NEW pc, NEW c, NEW got, WaitGoes(w, pc, c, got)
  PROVE  /\ [v \in Waits |-> wait[v].got]' = [[v \in Waits |-> wait[v].got] EXCEPT ![w] = got]
         /\ [v \in Waits |-> wait[v].cid]' = [[v \in Waits |-> wait[v].cid] EXCEPT ![w] = c]
  BY DEF WaitGoes

\* A wait that leaves the ledger alone begins, ends with nothing, or is told what the
\* invariant says it may be told.
LEMMA WaitSeen ==
  ASSUME Inv, Inv', LedgerSame, UNCHANGED <<ask, sends>>,
         NEW w \in Waits, NEW pc, NEW c \in Cids, NEW got \in Outcome \cup {NoAnswer},
         WaitGoes(w, pc, c, got), ask[c] # "unborn", got # NoAnswer => pc = "idle"
  PROVE  [Promise!Next]_(Promise!promiseVars)
<1>0. AskTypeOK /\ wait \in [Waits -> WaitRec]
  BY TypedParts DEF Inv, ProcTypeOK
<1>1. /\ [v \in Waits |-> wait[v].got]' = [[v \in Waits |-> wait[v].got] EXCEPT ![w] = got]
      /\ [v \in Waits |-> wait[v].cid]' = [[v \in Waits |-> wait[v].cid] EXCEPT ![w] = c]
  BY <1>0, WaitSet
<1>2. /\ [d \in Cids |-> Phase(d)]' = [d \in Cids |-> Phase(d)]
      /\ [d \in Cids |-> Between(d)]' = [d \in Cids |-> Between(d)]
      /\ UNCHANGED <<answer, quiescing>>
  BY SameSeen DEF LedgerSame
<1>3. CASE got = NoAnswer
  <2>1. Phase(c) # "unborn"
    BY DEF Phase
  <2>2. [d \in Cids |-> Phase(d)][c] # "unborn"
    BY <2>1
  <2>3. Promise!Turn(w)
    BY <1>1, <1>2, <1>3, <2>2 DEF Promise!Turn
  <2> QED BY <2>3 DEF Promise!Next
<1>4. CASE got # NoAnswer
  <2>1. wait'[w].pc = "idle" /\ wait'[w].cid = c /\ wait'[w].got = got
    BY <1>0, <1>4 DEF WaitGoes
  <2>2. Done(c)' /\ Told(c, got)'
    BY <1>4, <2>1 DEF Inv, WaitInv, WaitTold
  <2>3. Done(c) /\ Told(c, got)
    BY <1>2, <2>2 DEF Done, Closed, Told
  <2>4. \/ got \in Recorded /\ got = answer[c]
        \/ got \in {"cancelled", "timed_out"} /\ Phase(c) = "settled" /\ answer[c] = NoAnswer
        \/ got \in {"cancelled", "timed_out"} /\ Phase(c) = "forgotten"
    BY <1>4, <2>3 DEF Inv, AskInv, Done, Closed, CloseReason, Told, Phase, Outcome, Reported, Recorded
  <2>5. [d \in Cids |-> Phase(d)][c] = Phase(c)
    OBVIOUS
  <2>6. Promise!Truthful(c, got) /\ got \in (Reported \cup {"timed_out"}) \cup {"cancelled", "timed_out"}
    BY <2>4, <2>5 DEF Promise!Truthful, Recorded
  <2>7. Promise!Tell(w)
    BY <1>1, <1>2, <2>6 DEF Promise!Tell
  <2> QED BY <2>7 DEF Promise!Next
<1> QED BY <1>3, <1>4

\* A wait that times out and records its default settles the ask itself.
LEMMA ExpireSeen ==
  ASSUME Inv, NEW w \in Waits, NEW d \in Cids, d = wait[w].cid, Answerable(d),
         Answer(d, "timed_out", FALSE), WaitReturns(w, "timed_out"), UNCHANGED sends
  PROVE  [Promise!Next]_(Promise!promiseVars)
<1>0. AskTypeOK /\ wait \in [Waits -> WaitRec]
  BY TypedParts DEF Inv, ProcTypeOK
<1>1. WaitGoes(w, "idle", d, "timed_out")
  BY DEF WaitReturns
<1>2. [v \in Waits |-> wait[v].got]' = [[v \in Waits |-> wait[v].got] EXCEPT ![w] = "timed_out"]
  BY <1>0, <1>1 DEF WaitGoes
<1>3. [v \in Waits |-> wait[v].cid]' = [v \in Waits |-> wait[v].cid]
  BY <1>0, <1>1 DEF WaitGoes
<1>4. LedgerSettle(d, "timed_out")
  BY <1>0, RecordSettles DEF Inv
<1>5. Promise!Settled(d, "timed_out") /\ UNCHANGED quiescing
  BY <1>4, SettleSeen DEF LedgerSettle, OnlyAsk
<1>6. [v \in Waits |-> wait[v].cid][w] = d
  OBVIOUS
<1>7. Promise!Expire(w)
  BY <1>2, <1>3, <1>5, <1>6 DEF Promise!Expire
<1> QED BY <1>7 DEF Promise!Next

\* What the waits do is promised.
LEMMA WaitPromise ==
  ASSUME Inv, Inv', NEW w \in Waits,
         \/ WaitForAnswer(w) \/ WaitOnAck(w) \/ WaitReceive(w)
         \/ WaitTimeout(w) \/ WaitReread(w) \/ WaitAborts(w)
  PROVE  [Promise!Next]_(Promise!promiseVars)
<1>0. AskTypeOK /\ BusyHasAsk
  BY TypedParts DEF Inv
<1>c. PICK d : d = wait[w].cid
  OBVIOUS
<1>d. wait[w].pc # "idle" => d \in Cids /\ ask[d] # "unborn"
  BY <1>0, <1>c DEF BusyHasAsk, Inv, WaitInv, WaitTold
<1>o. {"answered", "acknowledged", "timed_out", "cancelled"} \subseteq Outcome
  BY DEF Outcome
<1>1. CASE WaitForAnswer(w)
  <2>1. PICK c \in question :
          IF Open(c)
            THEN WaiterFor(c, FALSE) /\ WaitGoes(w, "answer", c, NoAnswer)
            ELSE /\ UNCHANGED askVars
                 /\ WaitGoes(w, "idle", c, IF answer[c] = NoAnswer THEN "cancelled" ELSE answer[c])
    BY <1>1 DEF WaitForAnswer
  <2>2. c \in Cids /\ ask[c] # "unborn" /\ answer[c] \in Outcome \cup {NoAnswer}
    BY <1>0 DEF AskTypeOK, Inv, AskInv
  <2>3. LedgerSame /\ UNCHANGED <<ask, sends>>
    BY <1>1, <2>1, SameStep DEF WaitForAnswer, WaiterFor, askVars, content
  <2>4. PICK got : got = IF answer[c] = NoAnswer THEN "cancelled" ELSE answer[c]
    OBVIOUS
  <2>5. got \in Outcome
    BY <1>o, <2>2, <2>4
  <2>6. WaitGoes(w, "answer", c, NoAnswer) \/ WaitGoes(w, "idle", c, got)
    BY <2>1, <2>4
  <2> QED BY <2>2, <2>3, <2>5, <2>6, WaitSeen
<1>2. CASE WaitOnAck(w)
  <2>1. PICK c \in Cids : Open(c) /\ WaiterFor(c, TRUE) /\ WaitGoes(w, "resolution", c, NoAnswer)
    BY <1>2, WatchedAsks DEF WaitOnAck, WaitForResolution
  <2>2. LedgerSame /\ UNCHANGED <<ask, sends>> /\ ask[c] # "unborn"
    BY <1>2, <2>1, SameStep DEF WaitOnAck, WaiterFor, Open
  <2> QED BY <2>1, <2>2, WaitSeen
<1>3. CASE WaitReceive(w)
  <2>1. d \in Cids /\ ask[d] # "unborn" /\ chan[d] \in Outcome
    BY <1>3, <1>c, <1>d DEF WaitReceive, WaitAt, Receive
  <2>2. LedgerSame /\ UNCHANGED <<ask, sends>>
    BY <1>3, SameStep DEF WaitReceive, Receive, content
  <2>3. WaitGoes(w, "idle", d, chan[d]) \/ WaitGoes(w, "idle", d, NoAnswer)
    BY <1>3, <1>c DEF WaitReceive, WaitReturns
  <2>4. PICK got : got = chan[d]
    OBVIOUS
  <2> QED BY <2>1, <2>2, <2>3, <2>4, WaitSeen
<1>4. CASE WaitTimeout(w)
  <2>0. d \in Cids /\ ask[d] # "unborn" /\ UNCHANGED sends
    BY <1>4, <1>d DEF WaitTimeout, WaitAt
  <2>1. CASE Answer(d, "timed_out", FALSE) /\ Answerable(d) /\ WaitReturns(w, "timed_out")
    BY <1>c, <2>0, <2>1, ExpireSeen
  <2>2. CASE Answer(d, "timed_out", FALSE) /\ ~Answerable(d) /\ WaitGoes(w, "expired", d, NoAnswer)
    <3>1. LedgerSame /\ UNCHANGED ask
      BY <2>2, SameStep DEF Answer
    <3> QED BY <2>0, <2>2, <3>1, WaitSeen
  <2>3. CASE UNCHANGED askVars /\ WaitReturns(w, NoAnswer)
    <3>1. LedgerSame /\ UNCHANGED ask
      BY <2>3, SameStep DEF askVars, content
    <3> QED BY <1>c, <2>0, <2>3, <3>1, WaitSeen DEF WaitReturns
  <2> QED BY <1>4, <1>c, <2>1, <2>2, <2>3 DEF WaitTimeout
<1>5. CASE WaitReread(w)
  <2>1. d \in Cids /\ ask[d] # "unborn" /\ answer[d] \in Outcome \cup {NoAnswer}
    BY <1>0, <1>5, <1>d DEF WaitReread, WaitAt, AskTypeOK
  <2>2. LedgerSame /\ UNCHANGED <<ask, sends>>
    BY <1>5, SameStep DEF WaitReread, askVars, content
  <2>3. PICK got : got = IF Present(d) /\ answer[d] # NoAnswer THEN answer[d] ELSE "timed_out"
    OBVIOUS
  <2>4. got \in Outcome
    BY <1>o, <2>1, <2>3
  <2>5. WaitGoes(w, "idle", d, got)
    BY <1>5, <1>c, <2>3 DEF WaitReread, WaitReturns
  <2> QED BY <2>1, <2>2, <2>4, <2>5, WaitSeen
<1>6. CASE WaitAborts(w)
  <2>1. d \in Cids /\ ask[d] # "unborn" /\ WaitGoes(w, "idle", d, NoAnswer)
    BY <1>6, <1>c, <1>d DEF WaitAborts, WaitAt, WaitReturns
  <2>2. LedgerSame /\ UNCHANGED <<ask, sends>>
    BY <1>6, SameStep DEF WaitAborts, askVars, content
  <2> QED BY <2>1, <2>2, WaitSeen
<1> QED BY <1>1, <1>2, <1>3, <1>4, <1>5, <1>6

\* An accepted send is the first of its stash to that peer.
LEMMA SendPromise ==
  ASSUME Inv, NEW k \in Workers, SendStashed(k)
  PROVE  [Promise!Next]_(Promise!promiseVars)
<1>0. ProcTypeOK
  BY TypedParts DEF Inv
<1>1. LedgerSame /\ UNCHANGED wait
  BY SameStep DEF SendStashed, askVars, content
<1>2. CASE UNCHANGED sends
  BY <1>1, <1>2, LedgerPromise DEF LedgerStep
<1>3. CASE sends' # sends
  <2>1. PICK p : p = worker[k].asker
    OBVIOUS
  <2>2. PICK c \in worker[k].todo :
          sends' = [sends EXCEPT ![c] = [sends[c] EXCEPT ![p] = sends[c][p] + 1]]
    BY <1>3, <2>1 DEF SendStashed
  <2>3. c \in Cids /\ p \in Peers /\ sends[c][p] = 0
    <3>1. worker[k].pc = "send" /\ worker[k].todo \subseteq Cids
      BY <1>0 DEF SendStashed, WorkerAt, ProcTypeOK, WorkerRec
    <3> QED BY <2>1, <2>2, <3>1 DEF Inv, SendInv, OneWorker
  <2>4. sends' = [sends EXCEPT ![c] = [sends[c] EXCEPT ![p] = 1]]
    BY <2>2, <2>3
  <2>5. UNCHANGED <<[w \in Waits |-> wait[w].got], [w \in Waits |-> wait[w].cid]>>
    BY <1>1
  <2>6. Promise!Redeliver(c, p)
    BY <1>1, <2>3, <2>4, <2>5, SameSeen DEF LedgerSame, Promise!Redeliver
  <2> QED BY <2>3, <2>6 DEF Promise!Next
<1> QED BY <1>2, <1>3

\* At first nothing is asked, told or barred.
LEMMA PromiseInit == Init => Promise!Init
<1> SUFFICES ASSUME Init PROVE Promise!Init
  OBVIOUS
<1>1. \A c \in Cids : Phase(c) = "unborn" /\ Between(c) = {}
  BY DEF Init, AskInit, Phase, Between, Open, Closed, CloseReason
<1>2. /\ [c \in Cids |-> Phase(c)] = [c \in Cids |-> "unborn"]
      /\ [c \in Cids |-> Between(c)] = [c \in Cids |-> {}]
  BY <1>1
<1>3. /\ [w \in Waits |-> wait[w].got] = [w \in Waits |-> NoAnswer]
      /\ [w \in Waits |-> wait[w].cid] = [w \in Waits |-> NoCid]
  BY DEF Init, IdleWait
<1> QED BY <1>2, <1>3 DEF Init, AskInit, Promise!Init

\* Every step is promised.
LEMMA PromiseStep ==
  ASSUME Inv, Inv', [Next]_vars
  PROVE  [Promise!Next]_(Promise!promiseVars)
<1>0. AskTypeOK /\ AskInv /\ BusyHasAsk
  BY TypedParts DEF Inv
<1>s. UNCHANGED askVars => LedgerStep
  BY SameStep DEF LedgerStep, askVars, content
<1>1. CASE OpenQuestion
  <2>1. LedgerRaise
    BY <1>0, <1>1, RegisterRaises, PeerSets DEF OpenQuestion
  <2> QED BY <1>1, <2>1, LedgerPromise DEF LedgerStep, OpenQuestion, procVars
<1>2. ASSUME NEW h \in Handlers,
             OpStart(h) \/ Ack(h) \/ AnswerQuestion(h) \/ AcpComplete(h) \/ OpStep(h)
      PROVE  [Promise!Next]_(Promise!promiseVars)
  <2>u. UNCHANGED <<wait, sends>>
    BY <1>2 DEF OpStart, OpenAsk, OpenAskMany, HandleQuery, OpenScheduledAsk, StartAsk, Ack,
         AnswerQuestion, AcpComplete, OpStep, DeliverAsk, CloseSendFailed, CloseReplyTo, AckNotify,
         CaptureMessage, CloseWithMessage, CloseBare, AcpNotify, AcpStash
  <2>1. CASE OpStart(h)
    <3>1. PICK c \in Cids, f \in Askers, t \in Peers, prev \in Cids \cup {NoCid},
               isQuestion \in BOOLEAN, isPull \in BOOLEAN : StartAsk(h, c, f, t, isQuestion, isPull, prev)
      BY <2>1, Zenon DEF OpStart, OpenAsk, OpenAskMany, HandleQuery, OpenScheduledAsk
    <3>2. Register(c, f, t, isQuestion, isPull) /\ f \in Peers
      BY <3>1, PeerSets DEF StartAsk
    <3> QED BY <1>0, <2>u, <3>2, RegisterRaises, LedgerPromise DEF LedgerStep
  <2>2. CASE Ack(h) \/ AcpComplete(h) \/ DeliverAsk(h) \/ AckNotify(h) \/ AcpNotify(h)
    BY <1>s, <2>2, <2>u, LedgerPromise DEF Ack, AcpComplete, DeliverAsk, AckNotify, AcpNotify
  <2>3. CASE AnswerQuestion(h)
    <3>1. PICK c \in Cids, outcome \in Recorded, hasText \in BOOLEAN : Answer(c, outcome, hasText)
      BY <1>0, <2>3 DEF AnswerQuestion, OpAt, BusyHasAsk, AskTypeOK, Reported, Recorded
    <3> QED BY <1>0, <2>u, <3>1, AnswerSettles, LedgerPromise
  <2>4. CASE CloseSendFailed(h) \/ CloseReplyTo(h) \/ CloseWithMessage(h) \/ CloseBare(h)
    <3>1. PICK c, reason : reason \in CloseReason /\ Close(c, reason)
      BY <2>4 DEF CloseSendFailed, CloseReplyTo, CloseWithMessage, CloseBare, CloseReason
    <3>2. CASE c \in Cids
      BY <1>0, <2>u, <3>1, <3>2, CloseSettles, LedgerPromise
    <3>3. CASE c \notin Cids
      <4>1. UNCHANGED <<ask, content, quiescing>>
        BY <1>0, <3>1, <3>3 DEF Close, AskTypeOK
      <4>2. LedgerSame
        BY <4>1, SameStep DEF content
      <4> QED BY <2>u, <4>2, LedgerPromise DEF LedgerStep
    <3> QED BY <3>2, <3>3
  <2>5. CASE CaptureMessage(h) \/ AcpStash(h)
    <3>1. LedgerSame
      BY <2>5, SameStep DEF CaptureMessage, CaptureReply, AcpStash, SetPendingReply
    <3> QED BY <2>u, <3>1, LedgerPromise DEF LedgerStep
  <2> QED BY <1>2, <2>1, <2>2, <2>3, <2>4, <2>5 DEF OpStep
<1>3. ASSUME NEW w \in Waits,
             \/ WaitForAnswer(w) \/ WaitOnAck(w) \/ WaitReceive(w)
             \/ WaitTimeout(w) \/ WaitReread(w) \/ WaitAborts(w)
      PROVE  [Promise!Next]_(Promise!promiseVars)
  BY <1>3, WaitPromise
<1>4. ASSUME NEW k \in Workers, WorkerStep(k) \/ \E p \in Movers : PeerRegisters(p, k)
      PROVE  [Promise!Next]_(Promise!promiseVars)
  <2>1. CASE SendStashed(k)
    BY <2>1, SendPromise
  <2>2. CASE MarkDelivered(k)
    <3>1. PICK asker : MarkPendingReplyDelivered(worker[k].cur, asker)
      BY <2>2 DEF MarkDelivered
    <3>2. worker[k].cur \in Cids
      BY <2>2 DEF MarkDelivered, WorkerAt, Inv, SendInv, MarkSent
    <3> QED BY <1>0, <2>2, <3>1, <3>2, MarkSettles, LedgerPromise DEF MarkDelivered
  <2>3. CASE \/ Claim(k) \/ TakePending(k) \/ RebindGate(k) \/ TakeOrphans(k) \/ WorkerEnds(k)
             \/ \E p \in Movers : PeerRegisters(p, k)
    BY <1>s, <2>3, LedgerPromise
       DEF Claim, TakePending, RebindGate, TakeOrphans, WorkerEnds, PeerRegisters
  <2> QED BY <1>4, <2>1, <2>2, <2>3 DEF WorkerStep
<1>5. ASSUME NEW p \in Movers, PeerUnregisters(p) \/ PeerReaped(p) \/ ForgetReaped(p)
      PROVE  [Promise!Next]_(Promise!promiseVars)
  <2>1. CASE PeerUnregisters(p) \/ PeerReaped(p)
    BY <1>s, <2>1, LedgerPromise DEF PeerUnregisters, PeerReaped
  <2>2. CASE ForgetReaped(p)
    <3>1. PICK cs : cs = {c \in Cids : Present(c) /\ Involves(c, p)}
      OBVIOUS
    <3>2. Drop(cs) /\ cs \subseteq Cids /\ \A c \in cs : Present(c)
      BY <2>2, <3>1 DEF ForgetReaped, ForgetPeer
    <3> QED BY <2>2, <3>2, DropForgets, LedgerPromise DEF LedgerStep, ForgetReaped
  <2> QED BY <1>5, <2>1, <2>2
<1>6. ASSUME NEW p \in Switched, Switch(p)
      PROVE  [Promise!Next]_(Promise!promiseVars)
  <2>1. LedgerBar \/ LedgerLift
    BY <1>6, QuiesceMoves, PeerSets DEF Switch
  <2> QED BY <1>6, <2>1, LedgerPromise DEF Switch, LedgerStep, procVars
<1>7. ASSUME NEW s \in BOOLEAN, Evict(s)
      PROVE  [Promise!Next]_(Promise!promiseVars)
  <2>1. PICK cs : Drop(cs) /\ cs \subseteq Cids /\ \A c \in cs : Present(c)
    <3>1. PICK old \in SUBSET {c \in Cids : Present(c)} : EvictExpired(old, s)
      BY <1>7 DEF Evict
    <3> QED BY <3>1 DEF EvictExpired
  <2> QED BY <1>7, <2>1, DropForgets, LedgerPromise DEF LedgerStep, Evict, procVars
<1>8. CASE UNCHANGED vars
  BY <1>s, <1>8, LedgerPromise DEF vars, procVars
<1> QED BY <1>1, <1>2, <1>3, <1>4, <1>5, <1>6, <1>7, <1>8 DEF Next

-----------------------------------------------------------------------------
(* Theorems *)

\* Every reachable state of the ledger and its goroutines is well typed, and a
\* goroutine in the middle of something holds an ask.
THEOREM TypeCorrect == Spec => [](TypeOK /\ BusyHasAsk)
<1>1. Init => Typed
  BY TypedInit
<1>2. Typed /\ [Next]_vars => Typed'
  BY TypedStep
<1> QED BY <1>1, <1>2, PTL DEF Spec, Typed

\* The barrier holds: while a peer is being switched no open ask names it, however
\* registrations, closes, rebinds and removals interleave with the restart.
THEOREM BarrierHolds == Spec => []QuiesceBarrier
<1>1. Init => QuiesceBarrier
  BY DEF Init, AskInit, QuiesceBarrier
<1>2. TypeOK /\ QuiesceBarrier /\ [Next]_vars => QuiesceBarrier'
  BY StepContract, BarrierStep
<1> QED BY <1>1, <1>2, TypeCorrect, PTL DEF Spec

\* The first terminal state of an ask stands until it is dropped, whoever races for it.
THEOREM TerminalStands == Spec => FirstTerminalWins
<1>1. TypeOK /\ [Next]_vars
      => [\A c \in Cids : Closed(c) =>
            ask'[c] \in {ask[c], "dropped"} /\ answer'[c] = answer[c]]_vars
  BY StepContract DEF LedgerContract, TerminalKept
<1> QED BY <1>1, TypeCorrect, PTL DEF Spec, FirstTerminalWins


\* The ledger, its waits, handlers and redelivery workers keep the invariant the
\* next three results rest on.
THEOREM LedgerInvariant == Spec => []Inv
<1>1. Init => Inv
  BY InvInit
<1>2. Inv /\ [Next]_vars => Inv'
  BY InvStep
<1> QED BY <1>1, <1>2, PTL DEF Spec

\* A wait returns what the ledger holds: the answer that won, whoever raced it, and
\* the default only where no answer stands.
THEOREM AnswersTruthful == Spec => []AnswerTruthful
<1>1. Inv => AnswerTruthful
  BY DEF Inv, WaitInv, WaitTold, Told, AnswerTruthful, WaitAt
<1> QED BY <1>1, LedgerInvariant, PTL

\* No ask is closed with a message whose reply is neither captured, nor sent by a
\* worker, nor known to be lost.
THEOREM RepliesKept == Spec => []ReplyKept
<1>1. Inv => ReplyKept
  BY DEF Inv, ReplyInv
<1> QED BY <1>1, LedgerInvariant, PTL

\* An asker accepts a stashed reply at most once, however many registrations,
\* rebinds and removals interleave with its redelivery.
THEOREM StashesSentOnce == Spec => []StashSentOnce
<1>1. Inv => StashSentOnce
  BY DEF Inv, SendInv
<1> QED BY <1>1, LedgerInvariant, PTL

\* A wait whose ask is over is never left behind: the outcome lies in its channel, or
\* another wait on the same ask has taken it.
THEOREM NoLostWakeup == Spec => []WaiterWoken
<1>1. Inv => WaiterWoken
  BY DEF Inv, Typed, TypeOK, AskTypeOK, WaitInv, WaitTold, AskInv, BusyHasAsk, WaiterWoken, Waiting
<1> QED BY <1>1, LedgerInvariant, PTL

\* The daemon keeps its promise about asks: from the empty ledger on, every step of a
\* handler, callback, wait, worker or removal is one step of AskPromise or none.
THEOREM PromiseImplemented == Spec => PromiseKept
<1>1. Init => Promise!Init
  BY PromiseInit
<1>2. Inv /\ Inv' /\ [Next]_vars => [Promise!Next]_(Promise!promiseVars)
  BY PromiseStep
<1> QED BY <1>1, <1>2, LedgerInvariant, PTL DEF Spec, PromiseKept, Promise!Spec
=============================================================================
