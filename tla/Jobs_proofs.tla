---------------------------- MODULE Jobs_proofs ----------------------------
(***************************************************************************)
(* Proofs about Jobs.  One inductive invariant carries them: what the      *)
(* stack of every actor holds at every label (Fits), and what it still     *)
(* agrees with in the tables although they change between its steps        *)
(* (Agrees).  The second rests on what every write keeps of a row that     *)
(* exists: that it exists, its due time, and a cancel once requested.      *)
(***************************************************************************)
EXTENDS Jobs, WellFoundedInduction, TLAPS

USE DEF my, At, Goto, Push

-----------------------------------------------------------------------------
(* The inductive invariant *)

\* Where an actor can be, and where it works on a row or for an attempt.
DispatchLabels == {"first_check", "executor", "second_check", "delivery", "open_ask"}
WorkLabels == DispatchLabels \cup
  {"attempt_read", "attempt_write", "state_read", "state_write", "acquire_read", "acquire_write",
   "merge", "cancel_read", "cancel_write", "cancel_release", "cancel_state", "outcome", "close_ask"}
CompletionLabels == {"list_delivered", "list_running", "settle", "outcome", "close_ask"}
LoopLabels ==
  {"start", "drain", "recover", "recover_row", "calendar", "claim", "list", "run", "deadline", "select"}
Labels == WorkLabels \cup CompletionLabels \cup LoopLabels \cup {"idle", "wake", "finish"}

Updates == [st : WorkState \cup {""}, ph : Phase \cup {""}, peer : Peers \cup {NoPeer}, handle : BOOLEAN]

\* The loop keeps rows for later, the completion attempts.
Items(t) == IF t = Loop THEN Row ELSE Attempts

Frames(t) ==
  [w : Works \cup {NoWork}, a : Attempts \cup {NoAttempt}, r : Row, p : Row, u : Updates,
   peer : Peers \cup {NoPeer}, retry : BOOLEAN, force : BOOLEAN, http : BOOLEAN,
   inflight : BOOLEAN, late : BOOLEAN, result : {"", "completed", "failed"},
   after : Labels \cup {"", "done"}, orelse : Labels \cup {""},
   todo : SUBSET (Works \X Items(t)), who : SUBSET Peers,
   list : {"", "delivered", "running"}, time : Nat]

\* A call of UpdateAttempt: what is updated, and where the actor goes on.
AttemptCall(f) ==
  /\ f.after \in {"done", "second_check", "open_ask", "outcome"}
  /\ f.after \in {"second_check", "open_ask"} => f.a \in Attempts
  /\ f.after = "outcome" => f.result # ""
  /\ f.u.handle = TRUE => f.u.peer \in Peers

\* A call of UpdateWorkState.
StateCall(f) ==
  /\ f.after \in {"merge", "finish", "cancel_state", "close_ask"}
  /\ f.orelse \in {"finish", "cancel_state", "settle"}
  /\ (f.after = "close_ask" \/ f.orelse = "settle") => f.result # ""
  /\ f.u.st # "" /\ f.u.ph # ""

\* An actor that took its executor for cancelled work asks no more.
LateSteps(l, f) ==
  f.late = TRUE =>
    \/ l = "second_check"
    \/ (l \in {"attempt_read", "attempt_write"} /\ f.after \in {"second_check", "done"})

\* What the stack f of actor t holds at label l.
Fits(t, l, f) ==
  /\ l \in Labels /\ f \in Frames(t)
  /\ l \in WorkLabels => f.w \in Works
  /\ l \in DispatchLabels => f.a \in Attempts
  /\ l \in CompletionLabels => f.result # ""
  /\ l = "recover_row" => f.after \in {"drain", "calendar"}
  /\ l \in {"attempt_read", "attempt_write"} => AttemptCall(f)
  /\ l = "attempt_write" => f.r.state # "unborn"
  /\ l \in {"state_read", "state_write"} => StateCall(f)
  /\ LateSteps(l, f)

Born(r) == r.state # "unborn"

\* What it agrees with in the table at time now: the rows it works on and has
\* listed exist, a cancel it saw is still there, the due time it read has come.
Agrees(l, f, table, now) ==
  /\ l \in WorkLabels => Born(table[f.w])
  /\ \A x \in f.todo : Born(table[x[1]])
  /\ f.late = TRUE => table[f.w].cancel = TRUE
  /\ l = "claim" => f.time <= now

ActorsFit == \A t \in Actors : Fits(t, pc[t], frame[t])
ActorsAgree == \A t \in Actors : Agrees(pc[t], frame[t], row, clock)

TableTypes ==
  /\ row \in [Works -> Row]
  /\ cal \in [state : {"absent", "active", "cancelled"}, next : 0 .. MaxTime + 1,
              last : Works \cup {NoWork}]
  /\ clock \in Time
ExecTypes ==
  /\ up \subseteq Peers
  /\ asked \subseteq Works \X Attempts \X Peers
  /\ abandoned \subseteq Attempts
BoundTypes ==
  /\ crashes \in 0 .. MaxCrash /\ manual \in 0 .. MaxManual
  /\ wake \in BOOLEAN /\ reconcile \in BOOLEAN
ActorTypes == pc = [t \in Actors |-> pc[t]] /\ frame = [t \in Actors |-> frame[t]]

AskedBorn == \A x \in asked : Born(row[x[1]])
CalendarSound == (cal.state = "absent" => cal.last = NoWork) /\ OccurrenceOnce

Inv ==
  /\ TableTypes /\ ExecTypes /\ BoundTypes /\ ActorTypes
  /\ ActorsFit /\ ActorsAgree
  /\ AskedBorn /\ CalendarSound

-----------------------------------------------------------------------------
(* Rows *)

\* What every write keeps of a row that exists.
Kept(old, new) ==
  Born(old) => Born(new) /\ new.due = old.due /\ (old.cancel = TRUE => new.cancel = TRUE)
RowsKept == \A w \in Works : Kept(row[w], row'[w])

\* The fields of a row have their types.
LEMMA RowFields ==
  ASSUME NEW r \in Row
  PROVE  /\ r.state \in WorkState \cup {"unborn"} /\ r.phase \in Phase /\ r.cancel \in BOOLEAN
         /\ r.peer \in Peers \cup {NoPeer} /\ r.due \in Time
         /\ r.cur \in Attempts \cup {NoAttempt} /\ r.tried \in SUBSET Attempts
         /\ r.lease \in Time /\ r.handles \in SUBSET (Attempts \X Peers)
BY DEF Row

\* A new row of any due time is a row, and so is no row.
LEMMA NewRowTyped ==
  ASSUME NEW st \in WorkState \cup {"unborn"}, NEW due \in Time
  PROVE  NewRow(st, due) \in Row
BY TimeAssumption DEF NewRow, Row, Phase, Time

\* The row of work that was never created.
LEMMA NoRowTyped == NoRow \in Row /\ NoRow.state = "unborn"
<1>1. 0 \in Time
  BY TimeAssumption DEF Time
<1>2. NoRow \in Row
  BY <1>1, NewRowTyped DEF NoRow
<1> QED
  BY <1>2 DEF NoRow, NewRow

\* A lease keeps the row typed and what it may not change.
LEMMA AcquiredTyped ==
  ASSUME NEW db \in Row, NEW r \in Row, NEW a \in Attempts, NEW lease \in Time
  PROVE  Acquired(db, r, a, lease) \in Row /\ Kept(db, Acquired(db, r, a, lease))
BY RowFields DEF Acquired, Row, Kept, Born, WorkState, Terminal, Phase

\* UpdateAttempt writes back the state of the row it read.
LEMMA AttemptUpdatedTyped ==
  ASSUME NEW db \in Row, NEW r \in Row, NEW a \in Attempts \cup {NoAttempt}, NEW u \in Updates,
         Born(db), Born(r), u.handle = TRUE => u.peer \in Peers
  PROVE  AttemptUpdated(db, r, a, u) \in Row /\ Kept(db, AttemptUpdated(db, r, a, u))
<1> DEFINE hs == IF u.handle THEN r.handles \cup {<<a, u.peer>>} ELSE r.handles
<1>0. u.st \in WorkState \cup {""} /\ u.ph \in Phase \cup {""} /\ u.peer \in Peers \cup {NoPeer}
      /\ u.handle \in BOOLEAN
  BY DEF Updates
<1>1. CASE a \notin r.tried
  BY <1>1 DEF AttemptUpdated, Kept
<1>2. CASE a \in r.tried
  <2>1. hs \in SUBSET (Attempts \X Peers)
    <3>1. r.tried \in SUBSET Attempts /\ r.handles \in SUBSET (Attempts \X Peers)
      BY RowFields
    <3>2. CASE u.handle = TRUE
      <4>1. <<a, u.peer>> \in Attempts \X Peers
        BY <1>2, <3>1, <3>2
      <4> QED
        BY <3>1, <3>2, <4>1
    <3>3. CASE u.handle = FALSE
      BY <3>1, <3>3
    <3> QED
      BY <1>0, <3>2, <3>3
  <2> HIDE DEF hs
  <2>2. CASE a # r.cur
    <3>1. AttemptUpdated(db, r, a, u) =
            [state |-> db.state, phase |-> db.phase, cancel |-> db.cancel,
             peer |-> db.peer, due |-> db.due,
             cur |-> r.cur, tried |-> r.tried, lease |-> r.lease, handles |-> hs]
      BY <1>2, <2>2 DEF AttemptUpdated, hs
    <3> QED
      BY <3>1, <2>1, RowFields DEF Row, Kept, Born
  <2>3. CASE a = r.cur
    <3>1. /\ Keep(u.st, "", r.state) \in WorkState
          /\ Keep(u.ph, "", r.phase) \in Phase
          /\ Keep(u.peer, NoPeer, r.peer) \in Peers \cup {NoPeer}
      BY <1>0, RowFields DEF Keep, Born
    <3>2. AttemptUpdated(db, r, a, u) =
            [state |-> Keep(u.st, "", r.state), phase |-> Keep(u.ph, "", r.phase),
             cancel |-> db.cancel, peer |-> Keep(u.peer, NoPeer, r.peer), due |-> db.due,
             cur |-> r.cur, tried |-> r.tried, lease |-> r.lease, handles |-> hs]
      BY <1>2, <2>3 DEF AttemptUpdated, hs
    <3>3. "unborn" \notin WorkState
      BY DEF WorkState, Terminal
    <3>4. /\ db.cancel \in BOOLEAN /\ db.due \in Time /\ r.cur \in Attempts \cup {NoAttempt}
          /\ r.tried \in SUBSET Attempts /\ r.lease \in Time
      BY RowFields
    <3> DEFINE st == Keep(u.st, "", r.state)
               ph == Keep(u.ph, "", r.phase)
               peer == Keep(u.peer, NoPeer, r.peer)
               new == [state |-> st, phase |-> ph, cancel |-> db.cancel, peer |-> peer,
                       due |-> db.due, cur |-> r.cur, tried |-> r.tried, lease |-> r.lease,
                       handles |-> hs]
    <3>5. AttemptUpdated(db, r, a, u) = new
      BY <3>2
    <3>6. st \in WorkState /\ ph \in Phase /\ peer \in Peers \cup {NoPeer}
      BY <3>1
    <3> HIDE DEF st, ph, peer
    <3>7. new \in Row
      BY <3>4, <3>6, <2>1 DEF Row
    <3>8. new.state = st /\ new.due = db.due /\ new.cancel = db.cancel
      OBVIOUS
    <3> HIDE DEF new
    <3>9. Kept(db, new)
      BY <3>3, <3>6, <3>8 DEF Kept, Born
    <3> QED
      BY <3>5, <3>7, <3>9
  <2> QED
    BY <2>2, <2>3
<1> QED
  BY <1>1, <1>2

\* So does a change of the work's state.
LEMMA StateUpdatedTyped ==
  ASSUME NEW db \in Row, NEW p \in Row, NEW st \in WorkState, NEW ph \in Phase
  PROVE  StateUpdated(db, p, st, ph) \in Row /\ Kept(db, StateUpdated(db, p, st, ph))
BY RowFields DEF StateUpdated, Row, Kept, Born, WorkState, Terminal

\* So does a cancellation.
LEMMA CancelWrittenTyped ==
  ASSUME NEW db \in Row, NEW r \in Row
  PROVE  CancelWritten(db, r) \in Row /\ Kept(db, CancelWritten(db, r))
BY RowFields DEF CancelWritten, Row, Kept, Born, WorkState, Terminal

\* So does the recovery of an expired lease.
LEMMA RecoveredTyped ==
  ASSUME NEW db \in Row, NEW r \in Row
  PROVE  Recovered(db, r) \in Row /\ Kept(db, Recovered(db, r))
BY RowFields DEF Recovered, Row, Kept, Born, WorkState, Terminal, Phase

\* One row written, of the right type and keeping what it must.
LEMMA RowWritten ==
  ASSUME row \in [Works -> Row], NEW w \in Works, NEW x \in Row, Kept(row[w], x),
         row' = [row EXCEPT ![w] = x]
  PROVE  row' \in [Works -> Row] /\ RowsKept
<1>1. row' \in [Works -> Row]
  OBVIOUS
<1>2. ASSUME NEW v \in Works PROVE Kept(row[v], row'[v])
  <2>1. CASE v = w
    BY <2>1
  <2>2. CASE v # w
    BY <2>2 DEF Kept
  <2> QED
    BY <2>1, <2>2
<1> QED
  BY <1>1, <1>2 DEF RowsKept

\* Rows nobody writes are kept.
LEMMA RowsSame ==
  ASSUME UNCHANGED row
  PROVE  RowsKept
BY DEF RowsKept, Kept


-----------------------------------------------------------------------------
(* Steps of one actor *)

\* Actor t goes to label l with stack f.
Moves(t, l, f) ==
  /\ pc' = [pc EXCEPT ![t] = l] /\ frame' = [frame EXCEPT ![t] = f]
  /\ Fits(t, l, f) /\ Agrees(l, f, row', clock')

\* What an actor agrees with survives the writes of all others.
LEMMA AgreementStable ==
  ASSUME RowsKept, clock \in Nat, clock' \in Nat, clock <= clock',
         NEW t, NEW l, NEW f, Fits(t, l, f), Agrees(l, f, row, clock)
  PROVE  Agrees(l, f, row', clock')
<1>0. f.todo \in SUBSET (Works \X Items(t)) /\ f.time \in Nat
  BY DEF Fits, Frames
<1>1. l \in WorkLabels => Born(row'[f.w])
  BY DEF Fits, Agrees, RowsKept, Kept
<1>2. ASSUME NEW x \in f.todo PROVE Born(row'[x[1]])
  <2>1. x[1] \in Works /\ Born(row[x[1]])
    BY <1>0 DEF Agrees
  <2> QED
    BY <2>1 DEF RowsKept, Kept
<1>3. ASSUME f.late = TRUE PROVE row'[f.w].cancel = TRUE
  <2>1. l \in WorkLabels
    BY <1>3 DEF Fits, LateSteps, WorkLabels, DispatchLabels
  <2>2. f.w \in Works /\ Born(row[f.w]) /\ row[f.w].cancel = TRUE
    BY <1>3, <2>1 DEF Fits, Agrees
  <2> QED
    BY <2>2 DEF RowsKept, Kept
<1>4. l = "claim" => f.time <= clock'
  BY <1>0 DEF Agrees
<1> QED
  BY <1>1, <1>2, <1>3, <1>4 DEF Agrees

\* One actor moves and the others stay where they are.
LEMMA ActorMoved ==
  ASSUME ActorTypes, ActorsFit, ActorsAgree, clock \in Time, RowsKept, UNCHANGED clock,
         NEW t \in Actors, NEW l, NEW f, Moves(t, l, f)
  PROVE  ActorTypes' /\ ActorsFit' /\ ActorsAgree'
<1>0. clock \in Nat /\ clock' \in Nat /\ clock <= clock'
  BY TimeAssumption DEF Time
<1>1. ActorTypes'
  BY DEF ActorTypes, Moves
<1>2. ASSUME NEW s \in Actors PROVE Fits(s, pc'[s], frame'[s]) /\ Agrees(pc'[s], frame'[s], row', clock')
  <2>1. CASE s = t
    BY <2>1 DEF ActorTypes, Moves
  <2>2. CASE s # t
    <3>1. pc'[s] = pc[s] /\ frame'[s] = frame[s]
      BY <2>2 DEF ActorTypes, Moves
    <3>2. Fits(s, pc[s], frame[s]) /\ Agrees(pc[s], frame[s], row, clock)
      BY DEF ActorsFit, ActorsAgree
    <3>3. Agrees(pc[s], frame[s], row', clock')
      BY <3>2, <1>0, AgreementStable
    <3> QED
      BY <3>1, <3>2, <3>3
  <2> QED
    BY <2>1, <2>2
<1> QED
  BY <1>1, <1>2 DEF ActorsFit, ActorsAgree

\* An existing occurrence and an asked work still exist after the writes.
LEMMA TablesAgree ==
  ASSUME TableTypes, ExecTypes, AskedBorn, CalendarSound, RowsKept
  PROVE  /\ UNCHANGED asked => AskedBorn'
         /\ UNCHANGED cal => CalendarSound'
<1>1. UNCHANGED asked => AskedBorn'
  <2>1. \A x \in asked : x[1] \in Works
    BY DEF ExecTypes
  <2> QED
    BY <2>1 DEF AskedBorn, RowsKept, Kept
<1>2. ASSUME UNCHANGED cal PROVE CalendarSound'
  <2>1. cal.last \in Works \cup {NoWork}
    BY DEF TableTypes
  <2>2. CASE cal.last = NoWork
    BY <1>2, <2>2 DEF CalendarSound, OccurrenceOnce
  <2>3. CASE cal.last # NoWork
    <3>1. Born(row[cal.last]) /\ row[cal.last].due < cal.next /\ cal.last \in Works
      BY <2>1, <2>3 DEF CalendarSound, OccurrenceOnce, Born
    <3>2. Born(row'[cal.last]) /\ row'[cal.last].due = row[cal.last].due
      BY <3>1 DEF RowsKept, Kept
    <3> QED
      BY <1>2, <3>1, <3>2 DEF CalendarSound, OccurrenceOnce, Born
  <2> QED
    BY <2>2, <2>3
<1> QED
  BY <1>1, <1>2

\* A step of one actor that keeps the rows, the calendar and the asks.
LEMMA ActorStep ==
  ASSUME Inv, NEW t \in Actors, NEW l, NEW f, Moves(t, l, f),
         row' \in [Works -> Row], RowsKept, UNCHANGED <<cal, clock, asked>>,
         ExecTypes', BoundTypes'
  PROVE  Inv'
<1>1. TableTypes'
  BY DEF Inv, TableTypes
<1>2. ActorTypes' /\ ActorsFit' /\ ActorsAgree'
  BY ActorMoved DEF Inv, TableTypes
<1>3. AskedBorn' /\ CalendarSound'
  BY TablesAgree DEF Inv
<1> QED
  BY <1>1, <1>2, <1>3 DEF Inv

\* A step of one actor that writes no table and leaves the asks and bounds alone.
LEMMA QuietStep ==
  ASSUME Inv, NEW t \in Actors, NEW l, NEW f, Moves(t, l, f),
         UNCHANGED <<tables, asked, bounds, trail>>, up' \subseteq Peers, wake' \in BOOLEAN
  PROVE  Inv'
<1>1. row' \in [Works -> Row] /\ RowsKept
  BY RowsSame DEF tables, Inv, TableTypes
<1>2. ExecTypes' /\ BoundTypes'
  BY DEF Inv, ExecTypes, BoundTypes, bounds, trail
<1> QED
  BY <1>1, <1>2, ActorStep DEF tables, bounds

\* A step of one actor that writes the row of one work and nothing else.
LEMMA WriteStep ==
  ASSUME Inv, NEW t \in Actors, NEW l, NEW f, Moves(t, l, f),
         NEW w \in Works, NEW x \in Row, Kept(row[w], x), row' = [row EXCEPT ![w] = x],
         UNCHANGED <<cal, execs, bounds, trail>>, wake' \in BOOLEAN
  PROVE  Inv'
<1>1. row' \in [Works -> Row] /\ RowsKept
  BY RowWritten DEF Inv, TableTypes
<1>2. ExecTypes' /\ BoundTypes'
  BY DEF Inv, ExecTypes, BoundTypes, bounds, trail, execs
<1> QED
  BY <1>1, <1>2, ActorStep DEF execs, bounds

-----------------------------------------------------------------------------
(* Stacks *)

\* The fields of a stack have their types.
LEMMA FrameFields ==
  ASSUME NEW t, NEW f \in Frames(t)
  PROVE  /\ f.w \in Works \cup {NoWork} /\ f.a \in Attempts \cup {NoAttempt}
         /\ f.r \in Row /\ f.p \in Row /\ f.u \in Updates /\ f.peer \in Peers \cup {NoPeer}
         /\ f.retry \in BOOLEAN /\ f.force \in BOOLEAN /\ f.http \in BOOLEAN
         /\ f.inflight \in BOOLEAN /\ f.late \in BOOLEAN /\ f.result \in {"", "completed", "failed"}
         /\ f.after \in Labels \cup {"", "done"} /\ f.orelse \in Labels \cup {""}
         /\ f.todo \in SUBSET (Works \X Items(t)) /\ f.who \in SUBSET Peers
         /\ f.list \in {"", "delivered", "running"} /\ f.time \in Nat
BY DEF Frames

\* The empty update is an update.
LEMMA NoUpdateTyped == NoUpdate \in Updates /\ NoUpdate.handle = FALSE
BY DEF NoUpdate, Updates

\* An update names a state and a phase, and no peer.
LEMMA UpdateTyped ==
  ASSUME NEW st \in WorkState \cup {""}, NEW ph \in Phase \cup {""}
  PROVE  /\ Update(st, ph) \in Updates /\ Update(st, ph).handle = FALSE
         /\ Update(st, ph).st = st /\ Update(st, ph).ph = ph
BY DEF NoUpdate, Update, Updates

\* The empty frame is a frame of every actor.
LEMMA NoFrameTyped ==
  ASSUME NEW t
  PROVE  /\ NoFrame \in Frames(t) /\ NoFrame.late = FALSE /\ NoFrame.todo = {}
<1>1. NoRow \in Row /\ NoUpdate \in Updates
  BY NoRowTyped, NoUpdateTyped
<1> QED
  BY <1>1 DEF NoFrame, Frames

\* An idle actor, and a loop between two jobs, has an empty stack.
LEMMA NoFrameFits ==
  ASSUME NEW t, NEW l \in {"idle", "start", "drain", "recover", "calendar", "list", "run", "deadline"},
         NEW table, NEW now
  PROVE  Fits(t, l, NoFrame) /\ Agrees(l, NoFrame, table, now)
<1>1. /\ l \in Labels /\ l \notin WorkLabels /\ l \notin DispatchLabels /\ l \notin CompletionLabels
      /\ l \notin {"recover_row", "attempt_read", "attempt_write", "state_read", "state_write", "claim"}
  BY DEF Labels, WorkLabels, DispatchLabels, CompletionLabels, LoopLabels
<1> QED
  BY <1>1, NoFrameTyped DEF Fits, Agrees, LateSteps


\* What an actor's stack holds now.
LEMMA Here ==
  ASSUME Inv, NEW t \in Actors
  PROVE  /\ Fits(t, pc[t], my(t)) /\ Agrees(pc[t], my(t), row, clock)
         /\ my(t) \in Frames(t) /\ my(t).todo \in SUBSET (Works \X Items(t))
         /\ \A x \in my(t).todo : x[1] \in Works /\ Born(row[x[1]])
<1>1. Fits(t, pc[t], my(t)) /\ Agrees(pc[t], my(t), row, clock)
  BY DEF Inv, ActorsFit, ActorsAgree, my
<1>2. my(t) \in Frames(t)
  BY <1>1 DEF Fits
<1>3. my(t).todo \in SUBSET (Works \X Items(t))
  BY <1>2, FrameFields
<1> QED
  BY <1>1, <1>2, <1>3 DEF Agrees

\* An actor that works on a row works on one that exists.
LEMMA AtWork ==
  ASSUME Inv, NEW t \in Actors, NEW l \in WorkLabels, At(t, l)
  PROVE  my(t).w \in Works /\ row[my(t).w] \in Row /\ Born(row[my(t).w])
<1>1. Fits(t, l, my(t)) /\ Agrees(l, my(t), row, clock)
  BY Here DEF At
<1>2. my(t).w \in Works /\ Born(row[my(t).w])
  BY <1>1 DEF Fits, Agrees
<1> QED
  BY <1>2 DEF Inv, TableTypes

\* The stack under a call of UpdateAttempt.
LEMMA AttemptCallFits ==
  ASSUME NEW t, NEW f \in Frames(t), f.w \in Works, NEW table, NEW now,
         Born(table[f.w]), \A x \in f.todo : Born(table[x[1]]),
         f.late = TRUE => table[f.w].cancel = TRUE,
         AttemptCall(f), f.late = TRUE => f.after \in {"second_check", "done"}
  PROVE  Fits(t, "attempt_read", f) /\ Agrees("attempt_read", f, table, now)
BY DEF Fits, Agrees, LateSteps, Labels, WorkLabels, DispatchLabels, CompletionLabels

\* The stack under a call of UpdateWorkState.
LEMMA StateCallFits ==
  ASSUME NEW t, NEW f \in Frames(t), f.w \in Works, NEW table, NEW now,
         Born(table[f.w]), \A x \in f.todo : Born(table[x[1]]), f.late = FALSE, StateCall(f)
  PROVE  Fits(t, "state_read", f) /\ Agrees("state_read", f, table, now)
BY DEF Fits, Agrees, LateSteps, Labels, WorkLabels, DispatchLabels, CompletionLabels

\* A label without a duty of its own, beyond the work.
PlainLabels == {"acquire_read", "acquire_write", "merge", "cancel_read", "cancel_write",
                "cancel_release", "cancel_state"}
\* A frame at a label that carries only work fits and agrees.
LEMMA PlainFits ==
  ASSUME NEW t, NEW f \in Frames(t), f.w \in Works, NEW table, NEW now, NEW l \in PlainLabels,
         Born(table[f.w]), \A x \in f.todo : Born(table[x[1]]), f.late = FALSE
  PROVE  Fits(t, l, f) /\ Agrees(l, f, table, now)
BY DEF PlainLabels, Fits, Agrees, LateSteps, Labels, WorkLabels, DispatchLabels, CompletionLabels

\* A frame in the middle of a dispatch fits and agrees.
LEMMA DispatchFits ==
  ASSUME NEW t, NEW f \in Frames(t), f.w \in Works, NEW table, NEW now, NEW l \in DispatchLabels,
         Born(table[f.w]), \A x \in f.todo : Born(table[x[1]]), f.a \in Attempts,
         f.late = TRUE => l = "second_check" /\ table[f.w].cancel = TRUE
  PROVE  Fits(t, l, f) /\ Agrees(l, f, table, now)
BY DEF Fits, Agrees, LateSteps, Labels, WorkLabels, DispatchLabels, CompletionLabels

\* The end of RunJob: the rows listed are still to be run.
LEMMA DoneMoves ==
  ASSUME NEW t \in Actors, Done(t), my(t) \in Frames(t), \A x \in my(t).todo : Born(row'[x[1]])
  PROVE  \E l, f : Moves(t, l, f)
<1> DEFINE f == [NoFrame EXCEPT !.todo = my(t).todo]
           l == IF t = Loop THEN "run" ELSE "idle"
<1>1. f \in Frames(t) /\ f.late = FALSE /\ f.todo = my(t).todo
  BY NoFrameTyped, FrameFields, ZenonT(60) DEF Frames
<1>2. l \in {"run", "idle"}
  OBVIOUS
<1>3. pc' = [pc EXCEPT ![t] = l] /\ frame' = [frame EXCEPT ![t] = f]
  BY DEF Done, Goto, Push
<1> HIDE DEF f, l
<1>4. Fits(t, l, f) /\ Agrees(l, f, row', clock')
  BY <1>1, <1>2 DEF Fits, Agrees, LateSteps, Labels, WorkLabels, DispatchLabels, CompletionLabels, LoopLabels
<1> QED
  BY <1>3, <1>4 DEF Moves

\* CallAttempt from a label where the actor works.
LEMMA CallAttemptMoves ==
  ASSUME Inv, NEW t \in Actors, UNCHANGED <<row, clock>>, my(t).w \in Works, Born(row[my(t).w]),
         NEW u \in Updates, u.handle = FALSE, NEW l \in {"done", "open_ask"},
         l = "open_ask" => my(t).a \in Attempts,
         my(t).late = TRUE => l = "done" /\ row[my(t).w].cancel = TRUE,
         CallAttempt(t, u, l)
  PROVE  \E m, f : Moves(t, m, f)
<1> DEFINE f == [my(t) EXCEPT !.u = u, !.after = l]
<1>0. l \in Labels \cup {"", "done"}
  BY DEF Labels, WorkLabels, DispatchLabels
<1>1. /\ f \in Frames(t) /\ f.u = u /\ f.after = l
      /\ f.w = my(t).w /\ f.a = my(t).a /\ f.todo = my(t).todo /\ f.late = my(t).late
  <2>1. my(t) \in Frames(t)
    BY Here
  <2> QED
    BY <1>0, <2>1, ZenonT(60) DEF Frames
<1>2. pc' = [pc EXCEPT ![t] = "attempt_read"] /\ frame' = [frame EXCEPT ![t] = f]
  BY DEF CallAttempt, Goto, Push
<1> HIDE DEF f
<1>3. AttemptCall(f)
  BY <1>1 DEF AttemptCall
<1>4. \A x \in f.todo : Born(row[x[1]])
  BY <1>1, Here
<1>5. f.late = TRUE => f.after \in {"second_check", "done"} /\ row[f.w].cancel = TRUE
  BY <1>1
<1>6. Fits(t, "attempt_read", f) /\ Agrees("attempt_read", f, row, clock)
  BY <1>1, <1>3, <1>4, <1>5, AttemptCallFits
<1> QED
  BY <1>2, <1>6 DEF Moves


-----------------------------------------------------------------------------
(* Store calls and RunJob *)

\* Reading a row for an update keeps the invariant.
LEMMA AttemptReadStep ==
  ASSUME Inv, NEW t \in Actors, AttemptRead(t)
  PROVE  Inv'
<1> DEFINE f == [my(t) EXCEPT !.r = row[my(t).w]]
<1>1. my(t).w \in Works /\ row[my(t).w] \in Row /\ Born(row[my(t).w])
  BY AtWork DEF AttemptRead, WorkLabels
<1>2. /\ my(t) \in Frames(t) /\ Fits(t, "attempt_read", my(t))
      /\ Agrees("attempt_read", my(t), row, clock)
  BY Here DEF AttemptRead
<1>3. /\ f \in Frames(t) /\ f.r = row[my(t).w] /\ f.w = my(t).w /\ f.a = my(t).a /\ f.u = my(t).u
      /\ f.after = my(t).after /\ f.result = my(t).result /\ f.todo = my(t).todo /\ f.late = my(t).late
  BY <1>1, <1>2, ZenonT(60) DEF Frames
<1>4. pc' = [pc EXCEPT ![t] = "attempt_write"] /\ frame' = [frame EXCEPT ![t] = f]
  BY DEF AttemptRead
<1> HIDE DEF f
<1>5. AttemptCall(f)
  BY <1>2, <1>3 DEF Fits, AttemptCall
<1>6. f.late = TRUE => f.after \in {"second_check", "done"}
  BY <1>2, <1>3 DEF Fits, LateSteps
<1>7. f.r.state # "unborn"
  BY <1>1, <1>3 DEF Born
<1>8. Fits(t, "attempt_write", f)
  BY <1>1, <1>3, <1>5, <1>6, <1>7
    DEF Fits, LateSteps, Labels, WorkLabels, DispatchLabels, CompletionLabels
<1>9. Agrees("attempt_write", f, row, clock)
  BY <1>1, <1>2, <1>3 DEF Agrees, WorkLabels
<1>10. UNCHANGED <<tables, execs, bounds, trail, wake>>
  BY DEF AttemptRead
<1>11. Moves(t, "attempt_write", f)
  BY <1>4, <1>8, <1>9, <1>10 DEF Moves, tables, bounds
<1>12. up' \subseteq Peers /\ wake' \in BOOLEAN /\ UNCHANGED asked
  BY <1>10 DEF execs, Inv, ExecTypes, BoundTypes
<1> QED
  BY <1>10, <1>11, <1>12, QuietStep

\* Where the actor goes on after an update of its attempt.
LEMMA AttemptReturns ==
  ASSUME NEW t, NEW f \in Frames(t), NEW table, NEW now, f.w \in Works, AttemptCall(f),
         f.after # "done", Born(table[f.w]), \A x \in f.todo : Born(table[x[1]]),
         f.late = TRUE => f.after = "second_check" /\ table[f.w].cancel = TRUE
  PROVE  Fits(t, f.after, f) /\ Agrees(f.after, f, table, now)
<1>1. CASE f.after \in {"second_check", "open_ask"}
  <2>1. f.after \in DispatchLabels /\ f.a \in Attempts
    BY <1>1 DEF DispatchLabels, AttemptCall
  <2> QED
    BY <2>1, DispatchFits
<1>2. CASE f.after = "outcome"
  <2>1. f.late # TRUE /\ f.result # ""
    BY <1>2 DEF AttemptCall
  <2> QED
    BY <1>2, <2>1
      DEF Fits, Agrees, LateSteps, Labels, WorkLabels, DispatchLabels, CompletionLabels
<1> QED
  BY <1>1, <1>2 DEF AttemptCall

\* Writing the updated row keeps it.
LEMMA AttemptWriteStep ==
  ASSUME Inv, NEW t \in Actors, AttemptWrite(t)
  PROVE  Inv'
<1> DEFINE w == my(t).w
           x == AttemptUpdated(row[w], my(t).r, my(t).a, my(t).u)
           f == [my(t) EXCEPT !.r = NoRow, !.u = NoUpdate]
<1>1. w \in Works /\ row[w] \in Row /\ Born(row[w])
  BY AtWork DEF AttemptWrite, WorkLabels
<1>2. /\ my(t) \in Frames(t) /\ Fits(t, "attempt_write", my(t))
      /\ Agrees("attempt_write", my(t), row, clock)
  BY Here DEF AttemptWrite
<1>3. AttemptCall(my(t)) /\ Born(my(t).r)
  BY <1>2 DEF Fits, Born
<1>4. /\ my(t).r \in Row /\ my(t).a \in Attempts \cup {NoAttempt} /\ my(t).u \in Updates
      /\ my(t).after \in Labels \cup {"", "done"} /\ my(t).late \in BOOLEAN
  BY <1>2, FrameFields
<1>5. x \in Row /\ Kept(row[w], x)
  BY <1>1, <1>3, <1>4, AttemptUpdatedTyped DEF AttemptCall
<1>6. row' = [row EXCEPT ![w] = x] /\ UNCHANGED <<cal, execs, bounds, trail, wake>>
  BY DEF AttemptWrite
<1> HIDE DEF x
<1>7. row' \in [Works -> Row] /\ RowsKept
  BY <1>1, <1>5, <1>6, RowWritten DEF Inv, TableTypes
<1>8. \A y \in my(t).todo : Born(row'[y[1]])
  BY <1>7, Here DEF RowsKept, Kept
<1>9. Born(row'[w])
  BY <1>1, <1>7 DEF RowsKept, Kept
<1>10. my(t).late = TRUE => row'[w].cancel = TRUE
  BY <1>1, <1>2, <1>7 DEF RowsKept, Kept, Agrees
<1>11. \E l, g : Moves(t, l, g)
  <2>1. CASE my(t).after = "done"
    <3>1. Done(t)
      BY <2>1 DEF AttemptWrite
    <3> QED
      BY <3>1, <1>2, <1>8, DoneMoves
  <2>2. CASE my(t).after # "done"
    <3>1. pc' = [pc EXCEPT ![t] = my(t).after] /\ frame' = [frame EXCEPT ![t] = f]
      BY <2>2 DEF AttemptWrite
    <3>2. NoRow \in Row /\ NoUpdate \in Updates /\ NoUpdate.handle = FALSE
      BY NoRowTyped, NoUpdateTyped
    <3>3. /\ f \in Frames(t) /\ f.u = NoUpdate /\ f.w = my(t).w /\ f.a = my(t).a
          /\ f.after = my(t).after /\ f.result = my(t).result /\ f.todo = my(t).todo /\ f.late = my(t).late
      BY <1>2, <3>2, ZenonT(60) DEF Frames
    <3> HIDE DEF f
    <3>4. AttemptCall(f)
      BY <1>3, <3>2, <3>3 DEF AttemptCall
    <3>5. f.late = TRUE => f.after = "second_check" /\ row'[f.w].cancel = TRUE
      BY <1>2, <1>10, <2>2, <3>3 DEF Fits, LateSteps
    <3>6. Fits(t, f.after, f) /\ Agrees(f.after, f, row', clock')
      BY <1>1, <1>8, <1>9, <2>2, <3>3, <3>4, <3>5, AttemptReturns
    <3> QED
      BY <3>1, <3>3, <3>6 DEF Moves
  <2> QED
    BY <2>1, <2>2
<1>12. wake' \in BOOLEAN
  BY <1>6 DEF Inv, BoundTypes
<1> QED
  BY <1>1, <1>5, <1>6, <1>11, <1>12, WriteStep

\* Reading a row for its lease keeps it.
LEMMA AcquireReadStep ==
  ASSUME Inv, NEW t \in Actors, AcquireRead(t)
  PROVE  Inv'
<1> DEFINE f == [my(t) EXCEPT !.r = row[my(t).w]]
<1>1. my(t).w \in Works /\ row[my(t).w] \in Row /\ Born(row[my(t).w])
  BY AtWork DEF AcquireRead, WorkLabels
<1>2. my(t) \in Frames(t) /\ Fits(t, "acquire_read", my(t))
  BY Here DEF AcquireRead
<1>3. my(t).late = FALSE
  BY <1>2, FrameFields DEF Fits, LateSteps
<1>4. UNCHANGED <<tables, execs, bounds, trail, wake>>
  BY DEF AcquireRead
<1>5. \A x \in my(t).todo : Born(row[x[1]])
  BY Here
<1>6. \E l, g : Moves(t, l, g)
  <2>1. CASE Done(t)
    BY <1>2, <1>4, <1>5, <2>1, DoneMoves DEF tables
  <2>2. CASE Goto(t, "acquire_write") /\ Push(t, f)
    <3>1. /\ f \in Frames(t) /\ f.w = my(t).w /\ f.todo = my(t).todo /\ f.late = my(t).late
      BY <1>1, <1>2, ZenonT(60) DEF Frames
    <3> HIDE DEF f
    <3>2. Fits(t, "acquire_write", f) /\ Agrees("acquire_write", f, row, clock)
      BY <1>1, <1>3, <1>5, <3>1, PlainFits DEF PlainLabels
    <3> QED
      BY <1>4, <2>2, <3>2 DEF Moves, tables, bounds
  <2> QED
    BY <2>1, <2>2 DEF AcquireRead
<1>7. up' \subseteq Peers /\ wake' \in BOOLEAN /\ UNCHANGED asked
  BY <1>4 DEF execs, Inv, ExecTypes, BoundTypes
<1> QED
  BY <1>4, <1>6, <1>7, QuietStep

\* A lease ends at a time.
LEMMA LeaseTyped ==
  ASSUME clock \in Time
  PROVE  LeaseUntil \in Time
BY TimeAssumption, LeaseAssumption DEF LeaseUntil, Time

\* Writing the lease keeps it: the attempt is a fresh one.
LEMMA AcquireWriteStep ==
  ASSUME Inv, NEW t \in Actors, AcquireWrite(t)
  PROVE  Inv'
<1> DEFINE w == my(t).w
           a == CHOOSE b \in Fresh : TRUE
           x == Acquired(row[w], my(t).r, a, LeaseUntil)
           f == [my(t) EXCEPT !.a = a, !.r = NoRow]
<1>1. w \in Works /\ row[w] \in Row /\ Born(row[w])
  BY AtWork DEF AcquireWrite, WorkLabels
<1>2. my(t) \in Frames(t) /\ Fits(t, "acquire_write", my(t))
  BY Here DEF AcquireWrite
<1>3. my(t).late = FALSE /\ my(t).r \in Row
  BY <1>2, FrameFields DEF Fits, LateSteps
<1>4. a \in Attempts
  BY DEF AcquireWrite, Fresh
<1>5. /\ row' = [row EXCEPT ![w] = x] /\ UNCHANGED <<cal, execs, bounds, trail, wake>>
      /\ pc' = [pc EXCEPT ![t] = "first_check"] /\ frame' = [frame EXCEPT ![t] = f]
  BY DEF AcquireWrite
<1> HIDE DEF a
<1>6. x \in Row /\ Kept(row[w], x)
  BY <1>1, <1>3, <1>4, LeaseTyped, AcquiredTyped DEF Inv, TableTypes
<1> HIDE DEF x
<1>7. row' \in [Works -> Row] /\ RowsKept
  BY <1>1, <1>5, <1>6, RowWritten DEF Inv, TableTypes
<1>8. \A y \in my(t).todo : Born(row'[y[1]])
  BY <1>7, Here DEF RowsKept, Kept
<1>9. Born(row'[w])
  BY <1>1, <1>7 DEF RowsKept, Kept
<1>10. f \in Frames(t) /\ f.w = w /\ f.a = a /\ f.todo = my(t).todo /\ f.late = FALSE
  <2>1. NoRow \in Row
    BY NoRowTyped
  <2> QED
    BY <1>2, <1>3, <1>4, <2>1, ZenonT(60) DEF Frames
<1> HIDE DEF f
<1>11. "first_check" \in DispatchLabels
  BY DEF DispatchLabels
<1>12. Fits(t, "first_check", f) /\ Agrees("first_check", f, row', clock')
  BY <1>1, <1>4, <1>8, <1>9, <1>10, <1>11, DispatchFits
<1>13. Moves(t, "first_check", f)
  BY <1>5, <1>12 DEF Moves
<1>14. wake' \in BOOLEAN
  BY <1>5 DEF Inv, BoundTypes
<1> QED
  BY <1>1, <1>5, <1>6, <1>13, <1>14, WriteStep


\* What an actor has in hand while it dispatches.
LEMMA AtDispatch ==
  ASSUME Inv, NEW t \in Actors, NEW l \in DispatchLabels, At(t, l)
  PROVE  /\ my(t).w \in Works /\ row[my(t).w] \in Row /\ Born(row[my(t).w])
         /\ my(t).a \in Attempts /\ my(t) \in Frames(t)
         /\ my(t).late = TRUE => (l = "second_check" /\ row[my(t).w].cancel = TRUE)
         /\ my(t).late \in BOOLEAN /\ row[my(t).w].cancel \in BOOLEAN
         /\ my(t).peer \in Peers \cup {NoPeer}
         /\ \A x \in my(t).todo : Born(row[x[1]])
<1>0. l \in WorkLabels /\ l \notin {"attempt_read", "attempt_write"}
  BY DEF WorkLabels, DispatchLabels
<1>1. my(t).w \in Works /\ row[my(t).w] \in Row /\ Born(row[my(t).w])
  BY <1>0, AtWork
<1>2. /\ my(t) \in Frames(t) /\ Fits(t, l, my(t)) /\ Agrees(l, my(t), row, clock)
  BY Here
<1>3. my(t).late \in BOOLEAN /\ my(t).peer \in Peers \cup {NoPeer}
  BY <1>2, FrameFields
<1>4. row[my(t).w].cancel \in BOOLEAN
  BY <1>1, RowFields
<1> QED
  BY <1>0, <1>1, <1>2, <1>3, <1>4 DEF Fits, Agrees, LateSteps

\* Both looks at the cancellation keep it.
LEMMA CancelCheckStep ==
  ASSUME Inv, NEW t \in Actors, NEW here \in {"first_check", "second_check"},
         NEW onward \in {"executor", "delivery"}, CancelCheck(t, here, onward)
  PROVE  Inv'
<1> DEFINE r == row[my(t).w]
           f == [my(t) EXCEPT !.peer = IF @ = NoPeer THEN r.peer ELSE @]
           u == Update("cancelled", "none")
<1>0. here \in DispatchLabels /\ onward \in DispatchLabels /\ At(t, here)
  BY DEF DispatchLabels, CancelCheck
<1>1. /\ my(t).w \in Works /\ r \in Row /\ Born(r) /\ my(t).a \in Attempts /\ my(t) \in Frames(t)
      /\ my(t).late = TRUE => r.cancel = TRUE
      /\ my(t).late \in BOOLEAN /\ r.cancel \in BOOLEAN /\ my(t).peer \in Peers \cup {NoPeer}
      /\ \A x \in my(t).todo : Born(row[x[1]])
  BY <1>0, AtDispatch
<1>2. UNCHANGED <<tables, execs, bounds, trail, wake>>
  BY DEF CancelCheck
<1>3. UNCHANGED <<row, clock, asked>> /\ up' \subseteq Peers /\ wake' \in BOOLEAN
  BY <1>2 DEF tables, execs, bounds, Inv, ExecTypes, BoundTypes
<1>4. \E l, g : Moves(t, l, g)
  <2>1. CASE r.cancel = TRUE
    <3>1. CallAttempt(t, u, "done")
      BY <2>1 DEF CancelCheck, Cancelled
    <3>2. u \in Updates /\ u.handle = FALSE
      BY UpdateTyped, ZenonT(60) DEF WorkState, Terminal, Phase
    <3> QED
      BY <1>1, <1>3, <2>1, <3>1, <3>2, CallAttemptMoves
  <2>2. CASE r.cancel = FALSE
    <3>1. pc' = [pc EXCEPT ![t] = onward] /\ frame' = [frame EXCEPT ![t] = f]
      BY <2>2 DEF CancelCheck, Cancelled
    <3>2. r.peer \in Peers \cup {NoPeer}
      BY <1>1, RowFields
    <3>3. /\ f \in Frames(t) /\ f.w = my(t).w /\ f.a = my(t).a /\ f.todo = my(t).todo
          /\ f.late = my(t).late
      BY <1>1, <3>2, ZenonT(60) DEF Frames
    <3>4. f.late = FALSE
      BY <1>1, <2>2, <3>3
    <3> HIDE DEF f
    <3>5. Fits(t, onward, f) /\ Agrees(onward, f, row, clock)
      BY <1>0, <1>1, <3>3, <3>4, DispatchFits
    <3> QED
      BY <1>3, <3>1, <3>5 DEF Moves
  <2> QED
    BY <1>1, <2>1, <2>2
<1> QED
  BY <1>2, <1>3, <1>4, QuietStep

\* Taking an executor is a move of the actor.
LEMMA TakeExecutorMoves ==
  ASSUME Inv, NEW t \in Actors, At(t, "executor"), UNCHANGED <<row, clock>>,
         NEW p \in Peers, NEW handle \in BOOLEAN, TakeExecutor(t, p, handle)
  PROVE  \E l, f : Moves(t, l, f)
<1> DEFINE r == row[my(t).w]
           u == [NoUpdate EXCEPT !.peer = p, !.ph = "none", !.handle = handle]
           f == [my(t) EXCEPT !.peer = p, !.after = "second_check", !.late = Cancelled(r), !.u = u]
<1>0. "executor" \in DispatchLabels
  BY DEF DispatchLabels
<1>1. /\ my(t).w \in Works /\ r \in Row /\ Born(r) /\ my(t).a \in Attempts /\ my(t) \in Frames(t)
      /\ r.cancel \in BOOLEAN /\ \A x \in my(t).todo : Born(row[x[1]])
  BY <1>0, AtDispatch
<1>2. u \in Updates /\ u.peer = p
  BY DEF NoUpdate, Updates, Phase
<1>3. pc' = [pc EXCEPT ![t] = "attempt_read"] /\ frame' = [frame EXCEPT ![t] = f]
  BY DEF TakeExecutor
<1> HIDE DEF u
<1>4. "second_check" \in Labels
  BY DEF Labels, WorkLabels, DispatchLabels
<1>5. /\ f \in Frames(t) /\ f.w = my(t).w /\ f.a = my(t).a /\ f.todo = my(t).todo /\ f.u = u
      /\ f.after = "second_check" /\ f.late = r.cancel
  BY <1>1, <1>2, <1>4, ZenonT(60) DEF Frames, Cancelled
<1> HIDE DEF f
<1>6. AttemptCall(f)
  BY <1>1, <1>2, <1>5 DEF AttemptCall
<1>7. Fits(t, "attempt_read", f) /\ Agrees("attempt_read", f, row, clock)
  BY <1>1, <1>5, <1>6, AttemptCallFits
<1> QED
  BY <1>3, <1>7 DEF Moves

\* Choosing or starting an executor keeps the invariant.
LEMMA ExecutorStep ==
  ASSUME Inv, NEW t \in Actors, Executor(t)
  PROVE  Inv'
<1>0. "executor" \in DispatchLabels /\ At(t, "executor") /\ up \subseteq Peers
  BY DEF DispatchLabels, Executor, Inv, ExecTypes
<1>1. /\ my(t).w \in Works /\ Born(row[my(t).w]) /\ my(t).late = FALSE
      /\ my(t).peer \in Peers \cup {NoPeer}
  BY <1>0, AtDispatch
<1>2. UNCHANGED <<tables, asked, bounds, trail, wake>> /\ UNCHANGED <<row, clock>>
  BY DEF Executor, tables, bounds
<1>3. ASSUME CallAttempt(t, Update("unavailable", "none"), "done") PROVE \E l, f : Moves(t, l, f)
  <2> DEFINE u == Update("unavailable", "none")
  <2>1. u \in Updates /\ u.handle = FALSE
    BY UpdateTyped, ZenonT(60) DEF WorkState, Terminal, Phase
  <2> QED
    BY <1>1, <1>2, <1>3, <2>1, CallAttemptMoves
<1>4. up' \subseteq Peers /\ \E l, f : Moves(t, l, f)
  <2>1. CASE AssignedPeer(t)
    <3>1. my(t).peer \in Peers /\ TakeExecutor(t, my(t).peer, FALSE) /\ UNCHANGED up
      BY <1>0, <2>1 DEF AssignedPeer
    <3> QED
      BY <1>0, <1>2, <3>1, TakeExecutorMoves
  <2>2. CASE ExecutorUnavailable(t)
    BY <1>0, <1>3, <2>2 DEF ExecutorUnavailable
  <2>3. ASSUME NEW scope \in ProcessScope, ReusePeer(t, scope) PROVE up' \subseteq Peers /\ \E l, f : Moves(t, l, f)
    <3>1. PICK p \in up : TakeExecutor(t, p, FALSE)
      BY <2>3 DEF ReusePeer
    <3>2. UNCHANGED up /\ p \in Peers
      BY <1>0, <2>3 DEF ReusePeer
    <3> QED
      BY <1>0, <1>2, <3>1, <3>2, TakeExecutorMoves
  <2>4. ASSUME NEW scope \in ProcessScope, SpawnPeer(t, scope) PROVE up' \subseteq Peers /\ \E l, f : Moves(t, l, f)
    <3>1. PICK p \in Peers \ up, hasPane \in BOOLEAN :
            /\ up' = up \cup {p}
            /\ IF scope = "per_fire" /\ ~ReleaseHandle(scope, hasPane)
               THEN CallAttempt(t, Update("unavailable", "none"), "done")
               ELSE \E q \in AwaitSpawnedPeer(p, hasPane) :
                      TakeExecutor(t, q, ReleaseHandle(scope, hasPane))
      BY <2>4 DEF SpawnPeer
    <3>2. up' \subseteq Peers
      BY <1>0, <3>1
    <3>3. CASE CallAttempt(t, Update("unavailable", "none"), "done")
      BY <1>3, <3>2, <3>3
    <3>4. ASSUME NEW q \in AwaitSpawnedPeer(p, hasPane), TakeExecutor(t, q, ReleaseHandle(scope, hasPane))
          PROVE  \E l, f : Moves(t, l, f)
      <4>1. q \in Peers /\ ReleaseHandle(scope, hasPane) \in BOOLEAN
        BY <1>0 DEF AwaitSpawnedPeer, ReleaseHandle
      <4> QED
        BY <1>0, <1>2, <3>4, <4>1, TakeExecutorMoves
    <3> QED
      BY <3>1, <3>2, <3>3, <3>4
  <2> QED
    BY <2>1, <2>2, <2>3, <2>4 DEF Executor
<1>5. wake' \in BOOLEAN
  BY <1>2 DEF Inv, BoundTypes
<1> QED
  BY <1>2, <1>4, <1>5, QuietStep

\* Recording the delivery keeps it.
LEMMA DeliveryStep ==
  ASSUME Inv, NEW t \in Actors, Delivery(t)
  PROVE  Inv'
<1> DEFINE u == [NoUpdate EXCEPT !.peer = my(t).peer, !.ph = "none"]
<1>0. "delivery" \in DispatchLabels /\ At(t, "delivery")
  BY DEF DispatchLabels, Delivery
<1>1. /\ my(t).w \in Works /\ Born(row[my(t).w]) /\ my(t).late = FALSE /\ my(t).a \in Attempts
      /\ my(t).peer \in Peers \cup {NoPeer}
  BY <1>0, AtDispatch
<1>2. UNCHANGED <<tables, execs, bounds, trail, wake>>
  BY DEF Delivery
<1>3. UNCHANGED <<row, clock, asked>> /\ up' \subseteq Peers /\ wake' \in BOOLEAN
  BY <1>2 DEF tables, execs, bounds, Inv, ExecTypes, BoundTypes
<1>4. u \in Updates /\ u.handle = FALSE
  BY <1>1 DEF NoUpdate, Updates, Phase
<1>5. CallAttempt(t, u, "open_ask")
  BY DEF Delivery
<1> HIDE DEF u
<1>6. \E l, f : Moves(t, l, f)
  BY <1>1, <1>3, <1>4, <1>5, CallAttemptMoves
<1> QED
  BY <1>2, <1>3, <1>6, QuietStep

\* Opening the job's ask keeps it.
LEMMA OpenAskStep ==
  ASSUME Inv, NEW t \in Actors, OpenAsk(t)
  PROVE  Inv'
<1> DEFINE x == <<my(t).w, my(t).a, my(t).peer>>
<1>0. "open_ask" \in DispatchLabels /\ At(t, "open_ask")
  BY DEF DispatchLabels, OpenAsk
<1>1. my(t).w \in Works /\ Born(row[my(t).w]) /\ my(t).late = FALSE /\ my(t).a \in Attempts
  BY <1>0, AtDispatch
<1>2. UNCHANGED <<tables, up, bounds, trail, wake>>
  BY DEF OpenAsk
<1>3. UNCHANGED <<row, cal, clock>> /\ wake' \in BOOLEAN
  BY <1>2 DEF tables, bounds, Inv, BoundTypes
<1>4. /\ asked' = asked \/ (asked' = asked \cup {x} /\ my(t).peer \in up)
      /\ \E st \in {"delivered", "failed"} : CallAttempt(t, Update(st, "none"), "done")
  BY DEF OpenAsk
<1>5. PICK st \in {"delivered", "failed"} : CallAttempt(t, Update(st, "none"), "done")
  BY <1>4
<1>6. \E l, f : Moves(t, l, f)
  <2>1. Update(st, "none") \in Updates /\ Update(st, "none").handle = FALSE
    BY UpdateTyped, ZenonT(60) DEF WorkState, Terminal, Phase
  <2> QED
    BY <1>1, <1>3, <1>5, <2>1, CallAttemptMoves
<1>7. RowsKept /\ TableTypes'
  BY <1>3, RowsSame DEF Inv, TableTypes
<1>8. ActorTypes' /\ ActorsFit' /\ ActorsAgree'
  BY <1>3, <1>6, <1>7, ActorMoved DEF Inv, TableTypes
<1>9. CalendarSound'
  BY <1>3, <1>7, TablesAgree DEF Inv
<1>10. x \in Works \X Attempts \X Peers \/ my(t).peer \notin up
  BY <1>1 DEF Inv, ExecTypes
<1>11. ExecTypes' /\ BoundTypes'
  BY <1>2, <1>4, <1>10 DEF Inv, ExecTypes, BoundTypes, bounds, trail
<1>12. AskedBorn'
  <2>1. \A y \in asked : Born(row[y[1]])
    BY DEF Inv, AskedBorn
  <2>2. x[1] = my(t).w
    OBVIOUS
  <2> HIDE DEF x
  <2> QED
    BY <1>1, <1>3, <1>4, <2>1, <2>2 DEF AskedBorn
<1> QED
  BY <1>7, <1>8, <1>9, <1>11, <1>12 DEF Inv

\* A client that goes away keeps it.
LEMMA ClientGoneStep ==
  ASSUME Inv, NEW t \in Actors, ClientGone(t)
  PROVE  Inv'
<1>1. UNCHANGED <<tables, execs, bounds, load, wake>>
  BY DEF ClientGone
<1>2. UNCHANGED <<row, cal, clock, asked>> /\ my(t) \in Frames(t) /\ \A x \in my(t).todo : Born(row[x[1]])
  BY <1>1, Here DEF tables, execs, bounds
<1>3. \E l, f : Moves(t, l, f)
  BY <1>2, DoneMoves DEF ClientGone
<1>4. row' \in [Works -> Row] /\ RowsKept
  BY <1>2, RowsSame DEF Inv, TableTypes
<1>5. my(t).a \in Attempts \cup {NoAttempt}
  BY <1>2, FrameFields
<1>6. abandoned' \subseteq Attempts
  BY <1>5 DEF ClientGone, Inv, ExecTypes
<1>7. ExecTypes' /\ BoundTypes'
  BY <1>1, <1>6 DEF Inv, ExecTypes, BoundTypes, bounds, execs
<1> QED
  BY <1>2, <1>3, <1>4, <1>7, ActorStep

\* Every step of RunJob keeps the invariant.
LEMMA RunJobSteps ==
  ASSUME Inv, NEW t \in Actors, RunJobStep(t)
  PROVE  Inv'
<1>1. CASE FirstCheck(t)
  BY <1>1, CancelCheckStep DEF FirstCheck
<1>2. CASE SecondCheck(t)
  BY <1>2, CancelCheckStep DEF SecondCheck
<1> QED
  BY <1>1, <1>2, AttemptReadStep, AttemptWriteStep, AcquireReadStep, AcquireWriteStep,
     ExecutorStep, DeliveryStep, OpenAskStep DEF RunJobStep


-----------------------------------------------------------------------------
(* The loop *)

\* The worker loop is an actor that holds rows.
LEMMA LoopIsActor == Loop \in Actors /\ Items(Loop) = Row
BY DEF Actors, Items

\* The loop's stack where it works on no row: what it lists exists, and a due
\* time it read has come.
LEMMA LoopFits ==
  ASSUME NEW t, NEW f \in Frames(t), NEW l \in LoopLabels, NEW table, NEW now, f.late = FALSE,
         l = "recover_row" => f.after \in {"drain", "calendar"},
         l = "claim" => f.time <= now, \A x \in f.todo : Born(table[x[1]])
  PROVE  Fits(t, l, f) /\ Agrees(l, f, table, now)
<1>1. /\ l \in Labels /\ l \notin WorkLabels /\ l \notin DispatchLabels /\ l \notin CompletionLabels
      /\ l \notin {"attempt_read", "attempt_write", "state_read", "state_write"}
  BY DEF Labels, WorkLabels, DispatchLabels, CompletionLabels, LoopLabels
<1> QED
  BY <1>1 DEF Fits, Agrees, LateSteps

\* Between its jobs the loop holds no executor.
LEMMA LoopNotLate ==
  ASSUME Inv, NEW l \in LoopLabels, At(Loop, l)
  PROVE  my(Loop).late = FALSE
<1>1. Fits(Loop, l, my(Loop)) /\ my(Loop) \in Frames(Loop)
  BY Here, LoopIsActor
<1>2. my(Loop).late \in BOOLEAN
  BY <1>1, FrameFields
<1> QED
  BY <1>1, <1>2 DEF Fits, LateSteps, LoopLabels

\* A step that only moves the loop, or also changes the wake channel.
LEMMA LoopMoves ==
  ASSUME Inv, NEW l \in LoopLabels, NEW f \in Frames(Loop), f.late = FALSE,
         l = "recover_row" => f.after \in {"drain", "calendar"},
         l = "claim" => f.time <= clock, \A x \in f.todo : Born(row[x[1]]),
         pc' = [pc EXCEPT ![Loop] = l], frame' = [frame EXCEPT ![Loop] = f],
         UNCHANGED <<tables, execs, bounds, trail>>, wake' \in BOOLEAN
  PROVE  Inv'
<1>1. Fits(Loop, l, f) /\ Agrees(l, f, row, clock)
  BY LoopFits
<1>2. Moves(Loop, l, f)
  BY <1>1 DEF Moves, tables, bounds
<1>3. up' \subseteq Peers /\ UNCHANGED asked
  BY DEF execs, Inv, ExecTypes
<1> QED
  BY <1>2, <1>3, LoopIsActor, QuietStep

\* The wake channel holds a token or none.
LEMMA WakeTyped ==
  ASSUME Inv
  PROVE  wake \in BOOLEAN
BY DEF Inv, BoundTypes

\* Draining the wake channel keeps the invariant.
LEMMA DrainStep ==
  ASSUME Inv, Drain
  PROVE  Inv'
<1>1. my(Loop).late = FALSE
  BY LoopNotLate DEF Drain, LoopLabels
<1>2. my(Loop) \in Frames(Loop) /\ \A x \in my(Loop).todo : Born(row[x[1]])
  BY Here, LoopIsActor
<1>3. /\ pc' = [pc EXCEPT ![Loop] = "recover"] /\ UNCHANGED <<tables, execs, bounds, trail, frame>>
      /\ wake' \in BOOLEAN
  BY DEF Drain
<1>4. frame' = [frame EXCEPT ![Loop] = my(Loop)]
  BY <1>3 DEF Inv, ActorTypes
<1> QED
  BY <1>1, <1>2, <1>3, <1>4, LoopMoves DEF LoopLabels

\* Listing the expired leases keeps it.
LEMMA RecoverStep ==
  ASSUME Inv, Recover
  PROVE  Inv'
<1> DEFINE S == {<<w, row[w]>> : w \in {v \in Works : Stale(row[v], clock)}}
           l == IF At(Loop, "start") THEN "drain" ELSE "calendar"
           f == [NoFrame EXCEPT !.todo = S, !.after = l]
<1>1. S \in SUBSET (Works \X Row) /\ \A x \in S : Born(row[x[1]])
  BY DEF Stale, Born, Inv, TableTypes
<1>2. l \in {"drain", "calendar"} /\ l \in Labels
  BY DEF Labels, LoopLabels
<1>3. /\ pc' = [pc EXCEPT ![Loop] = "recover_row"] /\ frame' = [frame EXCEPT ![Loop] = f]
      /\ UNCHANGED <<tables, execs, bounds, trail, wake>>
  BY DEF Recover
<1> HIDE DEF S, l
<1>4. NoFrame \in Frames(Loop) /\ NoFrame.late = FALSE /\ Items(Loop) = Row
  BY NoFrameTyped, LoopIsActor
<1>5. f \in Frames(Loop) /\ f.todo = S /\ f.after = l /\ f.late = FALSE
  BY <1>1, <1>2, <1>4, ZenonT(60) DEF Frames
<1> HIDE DEF f
<1>6. \A x \in f.todo : Born(row[x[1]])
  BY <1>1, <1>5
<1>7. "recover_row" \in LoopLabels /\ f.after \in {"drain", "calendar"} /\ wake' \in BOOLEAN
  BY <1>2, <1>3, <1>5, WakeTyped DEF LoopLabels
<1> QED
  BY <1>3, <1>5, <1>6, <1>7, LoopMoves

\* Recovering one of them keeps it.
LEMMA RecoverRowStep ==
  ASSUME Inv, RecoverRow
  PROVE  Inv'
<1>1. /\ my(Loop).late = FALSE /\ my(Loop) \in Frames(Loop)
      /\ my(Loop).todo \in SUBSET (Works \X Row) /\ \A x \in my(Loop).todo : x[1] \in Works /\ Born(row[x[1]])
  BY LoopNotLate, Here, LoopIsActor DEF RecoverRow, LoopLabels
<1>2. my(Loop).after \in {"drain", "calendar"}
  <2>1. Fits(Loop, "recover_row", my(Loop))
    BY Here, LoopIsActor DEF RecoverRow
  <2> QED
    BY <2>1 DEF Fits
<1>3. UNCHANGED <<cal, execs, bounds, trail, wake>>
  BY DEF RecoverRow
<1>4. CASE /\ my(Loop).todo = {} /\ Goto(Loop, my(Loop).after) /\ Push(Loop, NoFrame)
           /\ UNCHANGED row
  <2>1. NoFrame \in Frames(Loop) /\ NoFrame.late = FALSE /\ NoFrame.todo = {}
    BY NoFrameTyped
  <2>2. my(Loop).after \in LoopLabels /\ my(Loop).after \notin {"claim", "recover_row"}
    BY <1>2 DEF LoopLabels
  <2>3. UNCHANGED <<tables, execs, bounds, trail>> /\ wake' \in BOOLEAN
    BY <1>3, <1>4, WakeTyped DEF tables
  <2>4. \A x \in NoFrame.todo : Born(row[x[1]])
    BY <2>1
  <2> QED
    BY <1>4, <2>1, <2>2, <2>3, <2>4, LoopMoves
<1>5. ASSUME NEW x \in my(Loop).todo,
             row' = [row EXCEPT ![x[1]] = Recovered(@, x[2])],
             Push(Loop, [my(Loop) EXCEPT !.todo = @ \ {x}]), UNCHANGED pc
      PROVE  Inv'
  <2> DEFINE w == x[1]
             y == Recovered(row[w], x[2])
             f == [my(Loop) EXCEPT !.todo = my(Loop).todo \ {x}]
  <2>1. w \in Works /\ x[2] \in Row /\ row[w] \in Row
    BY <1>1 DEF Inv, TableTypes
  <2>2. y \in Row /\ Kept(row[w], y)
    BY <2>1, RecoveredTyped
  <2>3. row' = [row EXCEPT ![w] = y]
    BY <1>5
  <2> HIDE DEF y, w
  <2>4. row' \in [Works -> Row] /\ RowsKept
    BY <2>1, <2>2, <2>3, RowWritten DEF Inv, TableTypes
  <2>5. f \in Frames(Loop) /\ f.late = FALSE /\ f.after = my(Loop).after /\ f.todo = my(Loop).todo \ {x}
    BY <1>1, LoopIsActor, ZenonT(60) DEF Frames
  <2>6. frame' = [frame EXCEPT ![Loop] = f] /\ pc' = [pc EXCEPT ![Loop] = "recover_row"]
    BY <1>5, LoopIsActor DEF Inv, ActorTypes, RecoverRow
  <2> HIDE DEF f
  <2>7. \A z \in f.todo : Born(row'[z[1]])
    BY <1>1, <2>4, <2>5 DEF RowsKept, Kept
  <2>8. Fits(Loop, "recover_row", f) /\ Agrees("recover_row", f, row', clock')
    BY <1>2, <2>5, <2>7, LoopFits DEF LoopLabels
  <2>9. Moves(Loop, "recover_row", f)
    BY <2>6, <2>8 DEF Moves
  <2> QED
    BY <1>3, <2>1, <2>2, <2>3, <2>9, WriteStep, LoopIsActor, WakeTyped
<1> QED
  BY <1>4, <1>5 DEF RecoverRow

\* Reading an occurrence of the calendar keeps it.
LEMMA CalendarReadStep ==
  ASSUME Inv, CalendarRead
  PROVE  Inv'
<1>1. /\ my(Loop).late = FALSE /\ my(Loop) \in Frames(Loop)
      /\ \A x \in my(Loop).todo : Born(row[x[1]])
  BY LoopNotLate, Here, LoopIsActor DEF CalendarRead, LoopLabels
<1>2. UNCHANGED <<tables, execs, bounds, trail>> /\ wake' \in BOOLEAN
  BY WakeTyped DEF CalendarRead
<1>3. CASE Goto(Loop, "list") /\ UNCHANGED frame
  <2>1. frame' = [frame EXCEPT ![Loop] = my(Loop)]
    BY <1>3 DEF Inv, ActorTypes
  <2> QED
    BY <1>1, <1>2, <1>3, <2>1, LoopMoves DEF LoopLabels
<1>4. CASE /\ cal.next <= clock /\ Goto(Loop, "claim")
           /\ Push(Loop, [NoFrame EXCEPT !.time = cal.next])
  <2> DEFINE f == [NoFrame EXCEPT !.time = cal.next]
  <2>1. cal.next \in Nat
    BY TimeAssumption DEF Inv, TableTypes
  <2>2. NoFrame \in Frames(Loop) /\ NoFrame.late = FALSE /\ NoFrame.todo = {}
    BY NoFrameTyped
  <2>3. f \in Frames(Loop) /\ f.time = cal.next /\ f.late = FALSE /\ f.todo = {}
    BY <2>1, <2>2, ZenonT(60) DEF Frames
  <2>4. pc' = [pc EXCEPT ![Loop] = "claim"] /\ frame' = [frame EXCEPT ![Loop] = f]
    BY <1>4
  <2> HIDE DEF f
  <2>5. "claim" \in LoopLabels /\ f.time <= clock /\ \A x \in f.todo : Born(row[x[1]])
    BY <1>4, <2>3 DEF LoopLabels
  <2> QED
    BY <1>2, <2>3, <2>4, <2>5, LoopMoves
<1> QED
  BY <1>3, <1>4 DEF CalendarRead

\* The occurrence inserted is due no later than the claim that moved the entry on.
LEMMA MaterializeStep ==
  ASSUME Inv, Materialize
  PROVE  Inv'
<1>1. NoFrame \in Frames(Loop) /\ NoFrame.late = FALSE /\ NoFrame.todo = {}
  BY NoFrameTyped
<1>2. /\ UNCHANGED <<execs, bounds, trail>> /\ UNCHANGED <<asked, clock>>
      /\ pc' = [pc EXCEPT ![Loop] = "list"] /\ frame' = [frame EXCEPT ![Loop] = NoFrame]
  BY DEF Materialize, execs, bounds
<1>3. CASE UNCHANGED <<tables, wake>>
  <2>1. "list" \in LoopLabels /\ wake' \in BOOLEAN /\ \A x \in NoFrame.todo : Born(row[x[1]])
    BY <1>1, <1>3, WakeTyped DEF LoopLabels
  <2>2. UNCHANGED <<tables, execs, bounds, trail>>
    BY <1>2, <1>3
  <2> QED
    BY <1>1, <1>2, <2>1, <2>2, LoopMoves
<1>4. ASSUME NEW w \in Unborn, wake' = TRUE,
             cal' = [cal EXCEPT !.next = NextFireAfter(clock), !.last = w],
             InsertOccurrence(w, my(Loop).time), Claims(my(Loop).time)
      PROVE  Inv'
  <2> DEFINE x == NewRow("queued", my(Loop).time)
  <2>1. my(Loop).time \in Nat /\ my(Loop).time <= clock
    <3>1. Fits(Loop, "claim", my(Loop)) /\ Agrees("claim", my(Loop), row, clock)
      BY Here, LoopIsActor DEF Materialize
    <3> QED
      BY <3>1, FrameFields DEF Fits, Agrees
  <2>2. clock \in Nat /\ clock <= MaxTime /\ my(Loop).time \in Time
    BY <2>1, TimeAssumption DEF Inv, TableTypes, Time
  <2>3. x \in Row
    BY <2>2, NewRowTyped DEF WorkState
  <2>4. x.state = "queued" /\ x.due = my(Loop).time
    BY DEF NewRow
  <2>5. w \in Works /\ row[w].state = "unborn" /\ row' = [row EXCEPT ![w] = x]
    BY <1>4 DEF Unborn, InsertOccurrence
  <2> HIDE DEF x
  <2>6. Kept(row[w], x)
    BY <2>5 DEF Kept, Born
  <2>7. row' \in [Works -> Row] /\ RowsKept
    BY <2>3, <2>5, <2>6, RowWritten DEF Inv, TableTypes
  <2>8. Fits(Loop, "list", NoFrame) /\ Agrees("list", NoFrame, row', clock')
    BY NoFrameFits
  <2>9. Moves(Loop, "list", NoFrame)
    BY <1>2, <2>8 DEF Moves
  <2>10. ActorTypes' /\ ActorsFit' /\ ActorsAgree'
    BY <1>2, <2>7, <2>9, LoopIsActor, ActorMoved DEF Inv, TableTypes
  <2>11. AskedBorn'
    BY <1>2, <2>7, TablesAgree DEF Inv
  <2>12. cal'.next = clock + 1 /\ cal'.last = w /\ cal'.state = cal.state
    BY <1>4 DEF NextFireAfter, Inv, TableTypes
  <2>13. CalendarSound'
    <3>1. row'[w] = x
      BY <2>5 DEF Inv, TableTypes
    <3>2. cal.state = "active"
      BY <1>4 DEF Claims
    <3>3. row'[w].state # "unborn" /\ row'[w].due < clock + 1
      BY <2>1, <2>2, <2>4, <3>1
    <3> QED
      BY <2>12, <3>2, <3>3 DEF CalendarSound, OccurrenceOnce
  <2>14. TableTypes'
    <3>1. clock + 1 \in 0 .. MaxTime + 1
      BY <2>2, TimeAssumption
    <3>2. cal' = [cal EXCEPT !.next = clock + 1, !.last = w]
      BY <1>4 DEF NextFireAfter
    <3> QED
      BY <1>2, <2>5, <2>7, <3>1, <3>2 DEF Inv, TableTypes
  <2>15. ExecTypes' /\ BoundTypes'
    BY <1>2, <1>4 DEF Inv, ExecTypes, BoundTypes, execs, bounds, trail
  <2> QED
    BY <2>10, <2>11, <2>13, <2>14, <2>15 DEF Inv
<1> QED
  BY <1>3, <1>4 DEF Materialize

\* Listing the due work keeps it.
LEMMA ListDueStep ==
  ASSUME Inv, ListDue
  PROVE  Inv'
<1> DEFINE S == {<<w, NoRow>> : w \in {v \in Works : row[v].state = "queued" /\ row[v].due <= clock}}
           f == [NoFrame EXCEPT !.todo = S]
<1>1. S \in SUBSET (Works \X Row) /\ \A x \in S : Born(row[x[1]])
  <2>1. NoRow \in Row
    BY NoRowTyped
  <2> QED
    BY <2>1 DEF Born
<1>2. /\ pc' = [pc EXCEPT ![Loop] = "run"] /\ frame' = [frame EXCEPT ![Loop] = f]
      /\ UNCHANGED <<tables, execs, bounds, trail, wake>>
  BY DEF ListDue
<1> HIDE DEF S
<1>3. NoFrame \in Frames(Loop) /\ NoFrame.late = FALSE /\ Items(Loop) = Row
  BY NoFrameTyped, LoopIsActor
<1>4. f \in Frames(Loop) /\ f.todo = S /\ f.late = FALSE
  BY <1>1, <1>3, ZenonT(60) DEF Frames
<1> HIDE DEF f
<1>5. "run" \in LoopLabels /\ wake' \in BOOLEAN /\ \A x \in f.todo : Born(row[x[1]])
  BY <1>1, <1>2, <1>4, WakeTyped DEF LoopLabels
<1> QED
  BY <1>2, <1>4, <1>5, LoopMoves

\* Starting the next due row keeps it.
LEMMA RunNextStep ==
  ASSUME Inv, RunNext
  PROVE  Inv'
<1>1. /\ my(Loop).late = FALSE /\ my(Loop) \in Frames(Loop)
      /\ my(Loop).todo \in SUBSET (Works \X Row) /\ \A x \in my(Loop).todo : x[1] \in Works /\ Born(row[x[1]])
  BY LoopNotLate, Here, LoopIsActor DEF RunNext, LoopLabels
<1>2. UNCHANGED <<tables, execs, bounds, trail, wake>> /\ wake' \in BOOLEAN
  BY WakeTyped DEF RunNext
<1>3. CASE Goto(Loop, "deadline") /\ UNCHANGED frame
  <2>1. frame' = [frame EXCEPT ![Loop] = my(Loop)]
    BY <1>3 DEF Inv, ActorTypes
  <2> QED
    BY <1>1, <1>2, <1>3, <2>1, LoopMoves DEF LoopLabels
<1>4. ASSUME NEW x \in my(Loop).todo, Goto(Loop, "acquire_read"),
             Push(Loop, [NoFrame EXCEPT !.w = x[1], !.todo = my(Loop).todo \ {x}])
      PROVE  Inv'
  <2> DEFINE f == [NoFrame EXCEPT !.w = x[1], !.todo = my(Loop).todo \ {x}]
  <2>1. NoFrame \in Frames(Loop) /\ NoFrame.late = FALSE /\ Items(Loop) = Row
    BY NoFrameTyped, LoopIsActor
  <2>2. x[1] \in Works /\ Born(row[x[1]])
    BY <1>1
  <2>3. f \in Frames(Loop) /\ f.w = x[1] /\ f.todo = my(Loop).todo \ {x} /\ f.late = FALSE
    BY <1>1, <2>1, <2>2, ZenonT(60) DEF Frames
  <2>4. pc' = [pc EXCEPT ![Loop] = "acquire_read"] /\ frame' = [frame EXCEPT ![Loop] = f]
    BY <1>4
  <2> HIDE DEF f
  <2>5. Fits(Loop, "acquire_read", f) /\ Agrees("acquire_read", f, row, clock)
    BY <1>1, <2>2, <2>3, PlainFits DEF PlainLabels
  <2>6. Moves(Loop, "acquire_read", f)
    BY <1>2, <2>4, <2>5 DEF Moves, tables, bounds
  <2>7. up' \subseteq Peers /\ UNCHANGED asked
    BY <1>2 DEF execs, Inv, ExecTypes
  <2> QED
    BY <1>2, <2>6, <2>7, LoopIsActor, QuietStep
<1> QED
  BY <1>3, <1>4 DEF RunNext

\* A set of instants has an earliest one.
LEMMA EarliestOf ==
  ASSUME NEW S \in SUBSET Nat, S # {}
  PROVE  Earliest(S) \in S
<1>1. IsWellFoundedOn(OpToRel(<, Nat), Nat)
  BY NatLessThanWellFounded
<1>2. PICK x \in S : \A y \in S : ~(<<y, x>> \in OpToRel(<, Nat))
  BY <1>1, WFMin
<1>3. \A y \in S : ~(y < x)
  BY <1>2 DEF OpToRel
<1>4. \E z \in S : \A y \in S : z <= y
  BY <1>3
<1> QED
  BY <1>4 DEF Earliest

\* Setting the timer keeps it.
LEMMA SetTimerStep ==
  ASSUME Inv, SetTimer
  PROVE  Inv'
<1> DEFINE S == QueuedDeadlines \cup LeaseDeadlines \cup CalendarDeadlines \cup {Never}
           e == Earliest(S)
           f == [NoFrame EXCEPT !.time = e]
<1>1. QueuedDeadlines \subseteq Nat /\ LeaseDeadlines \subseteq Nat
  <2>1. \A w \in Works : row[w].due \in Time /\ row[w].lease \in Time
    BY RowFields DEF Inv, TableTypes
  <2>2. Time \subseteq Nat
    BY TimeAssumption DEF Time
  <2> QED
    BY <2>1, <2>2 DEF QueuedDeadlines, LeaseDeadlines
<1>2. CalendarDeadlines \subseteq Nat /\ Never \in Nat
  BY TimeAssumption DEF CalendarDeadlines, Never, Inv, TableTypes
<1>3. S \in SUBSET Nat /\ S # {}
  BY <1>1, <1>2
<1>4. /\ pc' = [pc EXCEPT ![Loop] = "select"] /\ frame' = [frame EXCEPT ![Loop] = f]
      /\ UNCHANGED <<tables, execs, bounds, trail, wake>>
  BY DEF SetTimer
<1> HIDE DEF S
<1>5. e \in Nat
  BY <1>3, EarliestOf
<1> HIDE DEF e
<1>6. NoFrame \in Frames(Loop) /\ NoFrame.late = FALSE /\ NoFrame.todo = {}
  BY NoFrameTyped
<1>7. f \in Frames(Loop) /\ f.todo = {} /\ f.late = FALSE
  BY <1>5, <1>6, ZenonT(60) DEF Frames
<1> HIDE DEF f
<1>8. "select" \in LoopLabels /\ wake' \in BOOLEAN /\ \A x \in f.todo : Born(row[x[1]])
  BY <1>4, <1>7, WakeTyped DEF LoopLabels
<1> QED
  BY <1>4, <1>7, <1>8, LoopMoves

\* Waking up keeps it.
LEMMA SelectStep ==
  ASSUME Inv, Select
  PROVE  Inv'
<1>1. NoFrame \in Frames(Loop) /\ NoFrame.late = FALSE /\ NoFrame.todo = {}
  BY NoFrameTyped
<1>2. /\ pc' = [pc EXCEPT ![Loop] = "drain"] /\ frame' = [frame EXCEPT ![Loop] = NoFrame]
      /\ UNCHANGED <<tables, execs, bounds, trail>> /\ wake' \in BOOLEAN
  BY WakeTyped DEF Select
<1>3. "drain" \in LoopLabels /\ \A x \in NoFrame.todo : Born(row[x[1]])
  BY <1>1 DEF LoopLabels
<1> QED
  BY <1>1, <1>2, <1>3, LoopMoves

\* Every step of the worker loop keeps the invariant.
LEMMA LoopSteps ==
  ASSUME Inv, LoopStep
  PROVE  Inv'
<1>1. CASE RunJobStep(Loop)
  BY <1>1, RunJobSteps, LoopIsActor
<1> QED
  BY <1>1, DrainStep, RecoverStep, RecoverRowStep, CalendarReadStep, MaterializeStep,
     ListDueStep, RunNextStep, SetTimerStep, SelectStep DEF LoopStep


-----------------------------------------------------------------------------
(* Routes *)

\* A request handler is an actor that holds attempts.
LEMMA HandlerIsActor ==
  ASSUME NEW t \in Handlers
  PROVE  t \in Actors /\ Items(t) = Attempts
BY ActorAssumption DEF Actors, Items

\* Where a request has no duty left, or a wake to send.
RestLabels == {"idle", "wake", "finish"}
\* A frame at rest fits and agrees.
LEMMA RestFits ==
  ASSUME NEW t, NEW f \in Frames(t), NEW l \in RestLabels, NEW table, NEW now, f.late = FALSE,
         \A x \in f.todo : Born(table[x[1]])
  PROVE  Fits(t, l, f) /\ Agrees(l, f, table, now)
<1>1. /\ l \in Labels /\ l \notin WorkLabels /\ l \notin DispatchLabels /\ l \notin CompletionLabels
      /\ l \notin {"recover_row", "attempt_read", "attempt_write", "state_read", "state_write", "claim"}
  BY DEF RestLabels, Labels, WorkLabels, DispatchLabels, CompletionLabels
<1> QED
  BY <1>1 DEF Fits, Agrees, LateSteps

\* The completion has its outcome.
LEMMA CompletionFits ==
  ASSUME NEW t, NEW f \in Frames(t), NEW l \in CompletionLabels, NEW table, NEW now, f.late = FALSE,
         f.result # "", \A x \in f.todo : Born(table[x[1]]),
         l \in {"outcome", "close_ask"} => (f.w \in Works /\ Born(table[f.w]))
  PROVE  Fits(t, l, f) /\ Agrees(l, f, table, now)
<1>1. /\ l \in Labels /\ l \notin DispatchLabels
      /\ l \in WorkLabels => l \in {"outcome", "close_ask"}
      /\ l \notin {"recover_row", "attempt_read", "attempt_write", "state_read", "state_write", "claim"}
  BY DEF RestLabels, Labels, WorkLabels, DispatchLabels, CompletionLabels
<1> QED
  BY <1>1 DEF Fits, Agrees, LateSteps

\* Where the actor goes on after an update of the state, made or refused.
LEMMA StateReturns ==
  ASSUME NEW t, NEW f \in Frames(t), NEW table, NEW now, f.w \in Works, Born(table[f.w]),
         \A x \in f.todo : Born(table[x[1]]), f.late = FALSE,
         NEW l \in {"merge", "finish", "cancel_state", "close_ask", "idle", "settle"},
         l \in {"close_ask", "settle"} => f.result # ""
  PROVE  Fits(t, l, f) /\ Agrees(l, f, table, now)
<1>1. CASE l \in {"merge", "cancel_state"}
  BY <1>1, PlainFits DEF PlainLabels
<1>2. CASE l \in {"finish", "idle"}
  BY <1>2, RestFits DEF RestLabels
<1>3. CASE l \in {"close_ask", "settle"}
  BY <1>3, CompletionFits DEF CompletionLabels
<1> QED
  BY <1>1, <1>2, <1>3

\* At labels outside dispatch and the calls of UpdateAttempt no cancel is late.
LEMMA NotLate ==
  ASSUME Inv, NEW t \in Actors, pc[t] \notin {"second_check", "attempt_read", "attempt_write"}
  PROVE  my(t).late = FALSE
<1>1. Fits(t, pc[t], my(t)) /\ my(t) \in Frames(t)
  BY Here
<1>2. my(t).late \in BOOLEAN
  BY <1>1, FrameFields
<1> QED
  BY <1>1, <1>2 DEF Fits, LateSteps

\* Reading a row for a change of state keeps the invariant.
LEMMA StateReadStep ==
  ASSUME Inv, NEW t \in Actors, StateRead(t)
  PROVE  Inv'
<1> DEFINE r == row[my(t).w]
<1>1. my(t).w \in Works /\ r \in Row /\ Born(r)
  BY AtWork DEF StateRead, WorkLabels
<1>2. my(t) \in Frames(t) /\ Fits(t, "state_read", my(t)) /\ \A x \in my(t).todo : Born(row[x[1]])
  BY Here DEF StateRead
<1>3. StateCall(my(t)) /\ my(t).late = FALSE
  BY <1>2, NotLate DEF Fits, StateRead
<1>4. UNCHANGED <<tables, execs, bounds, trail, wake>>
  BY DEF StateRead
<1>5. UNCHANGED <<row, clock, asked>> /\ up' \subseteq Peers /\ wake' \in BOOLEAN
  BY <1>4 DEF tables, execs, bounds, Inv, ExecTypes, BoundTypes
<1>6. CASE Goto(t, my(t).orelse) /\ Push(t, [my(t) EXCEPT !.p = NoRow, !.u = NoUpdate])
  <2> DEFINE f == [my(t) EXCEPT !.p = NoRow, !.u = NoUpdate]
             l == my(t).orelse
  <2>1. NoRow \in Row /\ NoUpdate \in Updates
    BY NoRowTyped, NoUpdateTyped
  <2>2. /\ f \in Frames(t) /\ f.w = my(t).w /\ f.todo = my(t).todo /\ f.late = FALSE
        /\ f.result = my(t).result
    BY <1>2, <1>3, <2>1, ZenonT(60) DEF Frames
  <2>3. pc' = [pc EXCEPT ![t] = l] /\ frame' = [frame EXCEPT ![t] = f]
    BY <1>6
  <2>4. l \in {"merge", "finish", "cancel_state", "close_ask", "idle", "settle"}
        /\ (l \in {"close_ask", "settle"} => f.result # "")
    BY <1>3, <2>2 DEF StateCall
  <2> HIDE DEF f, l
  <2>5. Fits(t, l, f) /\ Agrees(l, f, row, clock)
    BY <1>1, <1>2, <2>2, <2>4, StateReturns
  <2>6. Moves(t, l, f)
    BY <1>5, <2>3, <2>5 DEF Moves
  <2> QED
    BY <1>4, <1>5, <2>6, QuietStep
<1>7. CASE Goto(t, "state_write") /\ Push(t, [my(t) EXCEPT !.p = IF @ = NoRow THEN r ELSE @])
  <2> DEFINE f == [my(t) EXCEPT !.p = IF my(t).p = NoRow THEN r ELSE my(t).p]
  <2>1. /\ f \in Frames(t) /\ f.w = my(t).w /\ f.todo = my(t).todo /\ f.late = FALSE
        /\ f.result = my(t).result /\ f.u = my(t).u /\ f.after = my(t).after /\ f.orelse = my(t).orelse
    BY <1>1, <1>2, <1>3, ZenonT(60) DEF Frames
  <2>2. pc' = [pc EXCEPT ![t] = "state_write"] /\ frame' = [frame EXCEPT ![t] = f]
    BY <1>7
  <2> HIDE DEF f
  <2>3. StateCall(f)
    BY <1>3, <2>1 DEF StateCall
  <2>4. Fits(t, "state_write", f) /\ Agrees("state_write", f, row, clock)
    BY <1>1, <1>2, <2>1, <2>3
      DEF Fits, Agrees, LateSteps, Labels, WorkLabels, DispatchLabels, CompletionLabels
  <2>5. Moves(t, "state_write", f)
    BY <1>5, <2>2, <2>4 DEF Moves
  <2> QED
    BY <1>4, <1>5, <2>5, QuietStep
<1> QED
  BY <1>6, <1>7 DEF StateRead

\* Writing the changed row keeps it.
LEMMA StateWriteStep ==
  ASSUME Inv, NEW t \in Actors, StateWrite(t)
  PROVE  Inv'
<1> DEFINE w == my(t).w
           x == StateUpdated(row[w], my(t).p, my(t).u.st, my(t).u.ph)
           f == [my(t) EXCEPT !.p = NoRow, !.u = NoUpdate]
           l == my(t).after
<1>1. w \in Works /\ row[w] \in Row /\ Born(row[w])
  BY AtWork DEF StateWrite, WorkLabels
<1>2. my(t) \in Frames(t) /\ Fits(t, "state_write", my(t))
  BY Here DEF StateWrite
<1>3. StateCall(my(t)) /\ my(t).late = FALSE
  BY <1>2, NotLate DEF Fits, StateWrite
<1>4. my(t).p \in Row /\ my(t).u \in Updates
  BY <1>2, FrameFields
<1>5. my(t).u.st \in WorkState /\ my(t).u.ph \in Phase
  BY <1>3, <1>4 DEF StateCall, Updates
<1>6. x \in Row /\ Kept(row[w], x)
  BY <1>1, <1>4, <1>5, StateUpdatedTyped
<1>7. /\ row' = [row EXCEPT ![w] = x] /\ UNCHANGED <<cal, execs, bounds, trail, wake>>
      /\ pc' = [pc EXCEPT ![t] = l] /\ frame' = [frame EXCEPT ![t] = f]
  BY DEF StateWrite
<1> HIDE DEF x
<1>8. row' \in [Works -> Row] /\ RowsKept
  BY <1>1, <1>6, <1>7, RowWritten DEF Inv, TableTypes
<1>9. Born(row'[w]) /\ \A y \in my(t).todo : Born(row'[y[1]])
  BY <1>1, <1>8, Here DEF RowsKept, Kept
<1>10. NoRow \in Row /\ NoUpdate \in Updates
  BY NoRowTyped, NoUpdateTyped
<1>11. /\ f \in Frames(t) /\ f.w = my(t).w /\ f.todo = my(t).todo /\ f.late = FALSE
       /\ f.result = my(t).result
  BY <1>2, <1>3, <1>10, ZenonT(60) DEF Frames
<1>12. l \in {"merge", "finish", "cancel_state", "close_ask", "idle", "settle"}
       /\ (l \in {"close_ask", "settle"} => f.result # "")
  BY <1>3, <1>11 DEF StateCall
<1> HIDE DEF f, l
<1>13. Fits(t, l, f) /\ Agrees(l, f, row', clock')
  BY <1>1, <1>9, <1>11, <1>12, StateReturns
<1>14. Moves(t, l, f)
  BY <1>7, <1>13 DEF Moves
<1> QED
  BY <1>1, <1>6, <1>7, <1>14, WriteStep, WakeTyped

\* A request goes to rest: what it does not touch is unchanged.
LEMMA RestStep ==
  ASSUME Inv, NEW t \in Actors, NEW l \in RestLabels, NEW f \in Frames(t), f.late = FALSE,
         \A x \in f.todo : Born(row[x[1]]),
         pc' = [pc EXCEPT ![t] = l], frame' = [frame EXCEPT ![t] = f],
         UNCHANGED <<tables, asked, bounds, trail>>, up' \subseteq Peers, wake' \in BOOLEAN
  PROVE  Inv'
<1>1. Fits(t, l, f) /\ Agrees(l, f, row, clock)
  BY RestFits
<1>2. Moves(t, l, f)
  BY <1>1 DEF Moves, tables, bounds
<1> QED
  BY <1>2, QuietStep

\* A request ends with an empty stack.
LEMMA EndStep ==
  ASSUME Inv, NEW t \in Actors, Goto(t, "idle"), Push(t, NoFrame),
         UNCHANGED <<tables, asked, bounds, trail, wake>>, up' \subseteq Peers
  PROVE  Inv'
<1>1. NoFrame \in Frames(t) /\ NoFrame.late = FALSE /\ NoFrame.todo = {}
  BY NoFrameTyped
<1>2. "idle" \in RestLabels /\ wake' \in BOOLEAN /\ \A x \in NoFrame.todo : Born(row[x[1]])
  BY <1>1, WakeTyped DEF RestLabels
<1> QED
  BY <1>1, <1>2, RestStep

\* A wake-up of the loop keeps it.
LEMMA WakeStep ==
  ASSUME Inv, NEW t \in Actors, Wake(t)
  PROVE  Inv'
<1>1. my(t) \in Frames(t) /\ \A x \in my(t).todo : Born(row[x[1]])
  BY Here
<1>2. my(t).late = FALSE
  BY NotLate DEF Wake
<1>3. /\ pc' = [pc EXCEPT ![t] = "idle"] /\ UNCHANGED frame /\ wake' \in BOOLEAN
      /\ UNCHANGED <<tables, execs, bounds, trail>>
  BY DEF Wake
<1>4. frame' = [frame EXCEPT ![t] = my(t)]
  BY <1>3 DEF Inv, ActorTypes
<1>5. up' \subseteq Peers /\ UNCHANGED asked /\ "idle" \in RestLabels
  BY <1>3 DEF execs, RestLabels, Inv, ExecTypes
<1> QED
  BY <1>1, <1>2, <1>3, <1>4, <1>5, RestStep

\* What a release leaves running are peers.
LEMMA ReleasedPeers ==
  ASSUME Inv, NEW r
  PROVE  Released(r) \subseteq Peers
BY DEF Inv, ExecTypes, Released

\* CallState from a label where the actor works.
LEMMA CallStateMoves ==
  ASSUME Inv, NEW t \in Actors, my(t).w \in Works, Born(row[my(t).w]), my(t).late = FALSE,
         UNCHANGED <<row, clock>>, NEW st \in WorkState, NEW ph \in Phase, NEW p \in Row,
         NEW l \in {"finish", "close_ask"}, NEW m \in {"finish", "settle"},
         (l = "close_ask" \/ m = "settle") => my(t).result # "",
         CallState(t, Update(st, ph), p, l, m)
  PROVE  \E k, f : Moves(t, k, f)
<1> DEFINE u == Update(st, ph)
           f == [my(t) EXCEPT !.u = u, !.p = p, !.after = l, !.orelse = m]
<1>1. my(t) \in Frames(t) /\ \A x \in my(t).todo : Born(row[x[1]])
  BY Here
<1>2. u \in Updates /\ u.st = st /\ u.ph = ph
  BY UpdateTyped, ZenonT(60)
<1>3. pc' = [pc EXCEPT ![t] = "state_read"] /\ frame' = [frame EXCEPT ![t] = f]
  BY DEF CallState
<1> HIDE DEF u
<1>4. l \in Labels /\ m \in Labels
  BY DEF Labels, CompletionLabels
<1>5. /\ f \in Frames(t) /\ f.w = my(t).w /\ f.todo = my(t).todo /\ f.late = FALSE
      /\ f.result = my(t).result /\ f.u = u /\ f.after = l /\ f.orelse = m
  BY <1>1, <1>2, <1>4, ZenonT(60) DEF Frames
<1> HIDE DEF f
<1>6. StateCall(f)
  <2>1. st # "" /\ ph # ""
    BY DEF WorkState, Terminal, Phase
  <2> QED
    BY <1>2, <1>5, <2>1 DEF StateCall
<1>7. Fits(t, "state_read", f) /\ Agrees("state_read", f, row, clock)
  BY <1>1, <1>5, <1>6, StateCallFits
<1> QED
  BY <1>3, <1>7 DEF Moves

\* What a request that works on a row has in hand.
LEMMA AtRoute ==
  ASSUME Inv, NEW t \in Actors,
         NEW l \in {"merge", "cancel_read", "cancel_write", "cancel_release", "cancel_state",
                    "outcome", "close_ask"}, At(t, l)
  PROVE  /\ my(t).w \in Works /\ row[my(t).w] \in Row /\ Born(row[my(t).w])
         /\ row[my(t).w].state \in WorkState /\ row[my(t).w].phase \in Phase
         /\ my(t) \in Frames(t) /\ my(t).late = FALSE /\ \A x \in my(t).todo : Born(row[x[1]])
<1>1. l \in WorkLabels /\ l \notin {"second_check", "attempt_read", "attempt_write"}
  BY DEF WorkLabels
<1>2. my(t).w \in Works /\ row[my(t).w] \in Row /\ Born(row[my(t).w])
  BY <1>1, AtWork
<1>3. row[my(t).w].state \in WorkState /\ row[my(t).w].phase \in Phase
  BY <1>2, RowFields DEF Born
<1> QED
  BY <1>1, <1>2, <1>3, NotLate, Here

\* Releasing the executor of ended work keeps the invariant.
LEMMA MergeReleaseStep ==
  ASSUME Inv, NEW t \in Actors, MergeRelease(t)
  PROVE  Inv'
<1> DEFINE r == row[my(t).w]
<1>1. /\ my(t).w \in Works /\ r \in Row /\ Born(r) /\ r.state \in WorkState /\ r.phase \in Phase
      /\ my(t).late = FALSE
  BY AtRoute DEF MergeRelease
<1>2. UNCHANGED <<tables, asked, bounds, trail, wake>> /\ UNCHANGED <<row, clock>>
  BY DEF MergeRelease, tables, bounds
<1>3. up' \subseteq Peers
  BY ReleasedPeers DEF MergeRelease, Inv, ExecTypes
<1>4. CASE CallState(t, Update(r.state, r.phase), r, "finish", "finish")
  <2>1. \E k, f : Moves(t, k, f)
    BY <1>1, <1>2, <1>4, CallStateMoves
  <2> QED
    BY <1>2, <1>3, <2>1, QuietStep, WakeTyped
<1>5. CASE Goto(t, "idle") /\ Push(t, NoFrame)
  BY <1>2, <1>3, <1>5, EndStep
<1> QED
  BY <1>4, <1>5 DEF MergeRelease

\* A call that returns keeps it.
LEMMA FinishStep ==
  ASSUME Inv, NEW t \in Actors, Finish(t)
  PROVE  Inv'
<1>1. UNCHANGED <<tables, asked, bounds, trail, wake>> /\ up' \subseteq Peers
  BY DEF Finish, execs, Inv, ExecTypes
<1> QED
  BY <1>1, EndStep DEF Finish

\* Reading a row for its cancellation keeps it.
LEMMA CancelReadStep ==
  ASSUME Inv, NEW t \in Actors, CancelRead(t)
  PROVE  Inv'
<1> DEFINE f == [my(t) EXCEPT !.r = row[my(t).w]]
<1>1. /\ my(t).w \in Works /\ row[my(t).w] \in Row /\ Born(row[my(t).w]) /\ my(t) \in Frames(t)
      /\ my(t).late = FALSE /\ \A x \in my(t).todo : Born(row[x[1]])
  BY AtRoute DEF CancelRead
<1>2. f \in Frames(t) /\ f.w = my(t).w /\ f.todo = my(t).todo /\ f.late = FALSE
  BY <1>1, ZenonT(60) DEF Frames
<1>3. /\ pc' = [pc EXCEPT ![t] = "cancel_write"] /\ frame' = [frame EXCEPT ![t] = f]
      /\ UNCHANGED <<tables, execs, bounds, trail, wake>>
  BY DEF CancelRead
<1> HIDE DEF f
<1>4. Fits(t, "cancel_write", f) /\ Agrees("cancel_write", f, row, clock)
  BY <1>1, <1>2, PlainFits DEF PlainLabels
<1>5. Moves(t, "cancel_write", f) /\ UNCHANGED asked /\ up' \subseteq Peers
  BY <1>3, <1>4 DEF Moves, tables, bounds, execs, Inv, ExecTypes
<1> QED
  BY <1>3, <1>5, QuietStep, WakeTyped

\* Writing the cancellation keeps it: it is never withdrawn.
LEMMA CancelWriteStep ==
  ASSUME Inv, NEW t \in Actors, CancelWrite(t)
  PROVE  Inv'
<1> DEFINE w == my(t).w
           x == CancelWritten(row[w], my(t).r)
<1>1. /\ w \in Works /\ row[w] \in Row /\ Born(row[w]) /\ my(t) \in Frames(t) /\ my(t).late = FALSE
  BY AtRoute DEF CancelWrite
<1>2. my(t).r \in Row
  BY <1>1, FrameFields
<1>3. x \in Row /\ Kept(row[w], x)
  BY <1>1, <1>2, CancelWrittenTyped
<1>4. row' = [row EXCEPT ![w] = x] /\ UNCHANGED <<cal, execs, bounds, trail, wake>>
  BY DEF CancelWrite
<1> HIDE DEF x
<1>5. row' \in [Works -> Row] /\ RowsKept
  BY <1>1, <1>3, <1>4, RowWritten DEF Inv, TableTypes
<1>6. Born(row'[w]) /\ \A y \in my(t).todo : Born(row'[y[1]])
  BY <1>1, <1>5, Here DEF RowsKept, Kept
<1>7. \E l, f : Moves(t, l, f)
  <2>1. CASE Goto(t, "cancel_release") /\ Push(t, [my(t) EXCEPT !.r = NoRow])
    <3> DEFINE f == [my(t) EXCEPT !.r = NoRow]
    <3>1. NoRow \in Row
      BY NoRowTyped
    <3>2. f \in Frames(t) /\ f.w = w /\ f.todo = my(t).todo /\ f.late = FALSE
      BY <1>1, <3>1, ZenonT(60) DEF Frames
    <3>3. pc' = [pc EXCEPT ![t] = "cancel_release"] /\ frame' = [frame EXCEPT ![t] = f]
      BY <2>1
    <3> HIDE DEF f
    <3>4. Fits(t, "cancel_release", f) /\ Agrees("cancel_release", f, row', clock')
      BY <1>1, <1>6, <3>2, PlainFits DEF PlainLabels
    <3> QED
      BY <3>3, <3>4 DEF Moves
  <2>2. CASE Goto(t, "idle") /\ Push(t, NoFrame)
    <3>1. Fits(t, "idle", NoFrame) /\ Agrees("idle", NoFrame, row', clock')
      BY NoFrameFits
    <3> QED
      BY <2>2, <3>1 DEF Moves
  <2> QED
    BY <2>1, <2>2 DEF CancelWrite
<1> QED
  BY <1>1, <1>3, <1>4, <1>7, WriteStep, WakeTyped

\* Releasing the executor of cancelled work keeps it.
LEMMA CancelReleaseStep ==
  ASSUME Inv, NEW t \in Actors, CancelRelease(t)
  PROVE  Inv'
<1> DEFINE r == row[my(t).w]
           u == Update("cancelled", "none")
           c == [my(t) EXCEPT !.a = r.cur, !.p = r, !.u = u, !.after = "finish", !.orelse = "finish"]
           v == Update(r.state, r.phase)
           d == [c EXCEPT !.u = v, !.after = "cancel_state", !.orelse = "cancel_state"]
<1>1. /\ my(t).w \in Works /\ r \in Row /\ Born(r) /\ r.state \in WorkState /\ r.phase \in Phase
      /\ my(t) \in Frames(t) /\ my(t).late = FALSE /\ \A x \in my(t).todo : Born(row[x[1]])
  BY AtRoute DEF CancelRelease
<1>2. /\ UNCHANGED <<tables, asked, bounds, trail, wake>> /\ UNCHANGED <<row, clock>>
      /\ up' \subseteq Peers
  BY ReleasedPeers DEF CancelRelease, tables, bounds
<1>3. /\ u \in Updates /\ u.st = "cancelled" /\ u.ph = "none"
      /\ v \in Updates /\ v.st = r.state /\ v.ph = r.phase
  <2>1. "cancelled" \in WorkState /\ "none" \in Phase
    BY DEF WorkState, Terminal, Phase
  <2>2. u \in Updates /\ u.st = "cancelled" /\ u.ph = "none"
    BY <2>1, UpdateTyped, ZenonT(60)
  <2>3. v \in Updates /\ v.st = r.state /\ v.ph = r.phase
    <3> DEFINE st == r.state
               ph == r.phase
    <3>1. st \in WorkState /\ ph \in Phase
      BY <1>1
    <3> HIDE DEF st, ph
    <3>2. Update(st, ph) \in Updates /\ Update(st, ph).st = st /\ Update(st, ph).ph = ph
      BY <3>1, UpdateTyped, ZenonT(60)
    <3> QED
      BY <3>2 DEF st, ph
  <2> QED
    BY <2>2, <2>3
<1>4. \/ Goto(t, "idle") /\ Push(t, NoFrame)
      \/ Goto(t, "state_read") /\ Push(t, d)
      \/ Goto(t, "state_read") /\ Push(t, c)
  BY DEF CancelRelease
<1> HIDE DEF u, v
<1>5. r.cur \in Attempts \cup {NoAttempt} /\ "finish" \in Labels /\ "cancel_state" \in Labels
  BY <1>1, RowFields DEF Labels, WorkLabels
<1>6. /\ c \in Frames(t) /\ c.w = my(t).w /\ c.todo = my(t).todo /\ c.late = FALSE
      /\ c.u = u /\ c.after = "finish" /\ c.orelse = "finish"
  BY <1>1, <1>3, <1>5, ZenonT(60) DEF Frames
<1> HIDE DEF c
<1>7. /\ d \in Frames(t) /\ d.w = my(t).w /\ d.todo = my(t).todo /\ d.late = FALSE
      /\ d.u = v /\ d.after = "cancel_state" /\ d.orelse = "cancel_state"
  BY <1>3, <1>5, <1>6, ZenonT(60) DEF Frames
<1> HIDE DEF d
<1>8. StateCall(c) /\ StateCall(d)
  <2>1. r.state # "" /\ r.phase # ""
    BY <1>1 DEF WorkState, Terminal, Phase
  <2> QED
    BY <1>3, <1>6, <1>7, <2>1 DEF StateCall
<1>9. CASE Goto(t, "idle") /\ Push(t, NoFrame)
  BY <1>2, <1>9, EndStep
<1>10. CASE Goto(t, "state_read") /\ Push(t, d)
  <2>1. Fits(t, "state_read", d) /\ Agrees("state_read", d, row, clock)
    BY <1>1, <1>7, <1>8, StateCallFits
  <2>2. Moves(t, "state_read", d)
    BY <1>2, <1>10, <2>1 DEF Moves
  <2> QED
    BY <1>2, <2>2, QuietStep, WakeTyped
<1>11. CASE Goto(t, "state_read") /\ Push(t, c)
  <2>1. Fits(t, "state_read", c) /\ Agrees("state_read", c, row, clock)
    BY <1>1, <1>6, <1>8, StateCallFits
  <2>2. Moves(t, "state_read", c)
    BY <1>2, <1>11, <2>1 DEF Moves
  <2> QED
    BY <1>2, <2>2, QuietStep, WakeTyped
<1> QED
  BY <1>4, <1>9, <1>10, <1>11

\* Going on to the cancelled work's state keeps it.
LEMMA CancelStateStep ==
  ASSUME Inv, NEW t \in Actors, CancelState(t)
  PROVE  Inv'
<1>1. my(t).w \in Works /\ row[my(t).w] \in Row /\ Born(row[my(t).w]) /\ my(t).late = FALSE
  BY AtRoute DEF CancelState
<1>2. /\ UNCHANGED <<tables, asked, bounds, trail, wake>> /\ UNCHANGED <<row, clock>>
      /\ up' \subseteq Peers
  BY DEF CancelState, tables, bounds, execs, Inv, ExecTypes
<1>3. \E k, f : Moves(t, k, f)
  <2>1. "cancelled" \in WorkState /\ "none" \in Phase
    BY DEF WorkState, Terminal, Phase
  <2> QED
    BY <1>1, <1>2, <2>1, CallStateMoves DEF CancelState
<1> QED
  BY <1>2, <1>3, QuietStep, WakeTyped

\* Every step of the state and cancel routes keeps the invariant.
LEMMA RouteSteps ==
  ASSUME Inv, NEW t \in Actors, RouteStep(t)
  PROVE  Inv'
<1>1. CASE RunJobStep(t)
  BY <1>1, RunJobSteps
<1> QED
  BY <1>1, StateReadStep, StateWriteStep, WakeStep, MergeReleaseStep, FinishStep, CancelReadStep,
     CancelWriteStep, CancelReleaseStep, CancelStateStep DEF RouteStep


-----------------------------------------------------------------------------
(* Requests and callbacks *)

\* A request that has read what it needs and calls UpdateWorkState.
LEMMA StateRequest ==
  ASSUME Inv, NEW t \in Actors, NEW w \in Works, Born(row[w]), NEW a \in Attempts,
         NEW st \in WorkState, NEW ph \in Phase,
         NEW l \in {"merge", "finish"}, NEW m \in {"finish"},
         Goto(t, "state_read"),
         Push(t, [NoFrame EXCEPT !.w = w, !.a = a, !.u = Update(st, ph), !.http = TRUE,
                                 !.after = l, !.orelse = m]),
         UNCHANGED <<tables, execs, bounds, trail, wake>>
  PROVE  Inv'
<1> DEFINE u == Update(st, ph)
           f == [NoFrame EXCEPT !.w = w, !.a = a, !.u = u, !.http = TRUE, !.after = l, !.orelse = m]
<1>1. u \in Updates /\ u.st = st /\ u.ph = ph
  BY UpdateTyped, ZenonT(60)
<1>2. pc' = [pc EXCEPT ![t] = "state_read"] /\ frame' = [frame EXCEPT ![t] = f]
  OBVIOUS
<1> HIDE DEF u
<1>3. NoFrame \in Frames(t) /\ NoFrame.late = FALSE /\ NoFrame.todo = {} /\ l \in Labels /\ m \in Labels
  BY NoFrameTyped DEF Labels, WorkLabels
<1>4. /\ f \in Frames(t) /\ f.w = w /\ f.todo = {} /\ f.late = FALSE /\ f.u = u
      /\ f.after = l /\ f.orelse = m
  BY <1>1, <1>3, ZenonT(60) DEF Frames
<1> HIDE DEF f
<1>5. StateCall(f)
  <2>1. st # "" /\ ph # ""
    BY DEF WorkState, Terminal, Phase
  <2> QED
    BY <1>1, <1>4, <2>1 DEF StateCall
<1>6. Fits(t, "state_read", f) /\ Agrees("state_read", f, row, clock)
  BY <1>4, <1>5, StateCallFits
<1>7. Moves(t, "state_read", f) /\ UNCHANGED asked /\ up' \subseteq Peers
  BY <1>2, <1>6 DEF Moves, tables, bounds, execs, Inv, ExecTypes
<1> QED
  BY <1>7, QuietStep, WakeTyped

\* An idle request keeps whatever the last one left on its stack.
LEMMA IdleStack ==
  ASSUME Inv, NEW t \in Actors, At(t, "idle")
  PROVE  my(t) \in Frames(t) /\ my(t).late = FALSE /\ \A x \in my(t).todo : x[1] \in Works /\ Born(row[x[1]])
BY Here, NotLate

\* Creating a job keeps the invariant.
LEMMA JobCreateStep ==
  ASSUME Inv, NEW t \in Actors, JobCreate(t)
  PROVE  Inv'
<1>1. PICK w \in Unborn, due \in Time, p \in Assignees :
        row' = [row EXCEPT ![w] = [NewRow("queued", due) EXCEPT !.peer = p]]
  BY DEF JobCreate
<1> DEFINE n == NewRow("queued", due)
           x == [n EXCEPT !.peer = p]
<1>2. n \in Row
  BY NewRowTyped DEF WorkState
<1>3. p \in Peers \cup {NoPeer}
  BY DEF Assignees
<1>4. row' = [row EXCEPT ![w] = x]
  BY <1>1
<1> HIDE DEF n
<1>5. x \in Row
  BY <1>2, <1>3 DEF Row
<1> HIDE DEF x
<1>6. w \in Works /\ Kept(row[w], x)
  BY DEF Unborn, Kept, Born
<1>7. row' \in [Works -> Row] /\ RowsKept
  BY <1>4, <1>5, <1>6, RowWritten DEF Inv, TableTypes
<1>8. my(t) \in Frames(t) /\ my(t).late = FALSE /\ \A y \in my(t).todo : Born(row'[y[1]])
  <2>1. my(t) \in Frames(t) /\ my(t).late = FALSE /\ \A y \in my(t).todo : y[1] \in Works /\ Born(row[y[1]])
    BY IdleStack DEF JobCreate
  <2> QED
    BY <2>1, <1>7 DEF RowsKept, Kept
<1>9. /\ pc' = [pc EXCEPT ![t] = "wake"] /\ UNCHANGED <<cal, execs, bounds, trail, wake>>
      /\ frame' = [frame EXCEPT ![t] = my(t)]
  BY DEF JobCreate, Inv, ActorTypes
<1>10. Fits(t, "wake", my(t)) /\ Agrees("wake", my(t), row', clock')
  BY <1>8, RestFits DEF RestLabels
<1>11. Moves(t, "wake", my(t))
  BY <1>9, <1>10 DEF Moves
<1> QED
  BY <1>4, <1>5, <1>6, <1>9, <1>11, WriteStep, WakeTyped

\* The entry is created or cancelled; its last occurrence is as it was.
LEMMA CalendarRequest ==
  ASSUME Inv, NEW t \in Actors, CalendarCreate(t) \/ CalendarCancel(t)
  PROVE  Inv'
<1>1. /\ pc' = [pc EXCEPT ![t] = "wake"] /\ frame' = [frame EXCEPT ![t] = my(t)]
      /\ UNCHANGED <<row, execs, bounds, trail, wake>> /\ UNCHANGED <<asked, clock>> /\ At(t, "idle")
  BY DEF CalendarCreate, CalendarCancel, Inv, ActorTypes, execs, bounds
<1>2. my(t) \in Frames(t) /\ my(t).late = FALSE /\ \A y \in my(t).todo : Born(row[y[1]])
  BY <1>1, IdleStack
<1>3. Moves(t, "wake", my(t))
  <2>1. Fits(t, "wake", my(t)) /\ Agrees("wake", my(t), row, clock)
    BY <1>2, RestFits DEF RestLabels
  <2> QED
    BY <1>1, <2>1 DEF Moves
<1>4. RowsKept
  BY <1>1, RowsSame
<1>5. ActorTypes' /\ ActorsFit' /\ ActorsAgree' /\ AskedBorn'
  BY <1>1, <1>3, <1>4, ActorMoved, TablesAgree DEF Inv, TableTypes
<1>6. clock + 1 \in 0 .. MaxTime + 1
  BY TimeAssumption DEF Inv, TableTypes, Time
<1>7. TableTypes' /\ CalendarSound'
  <2>1. CASE CalendarCreate(t)
    <3>1. cal.state = "absent" /\ cal' = [cal EXCEPT !.state = "active", !.next = clock + 1]
      BY <2>1 DEF CalendarCreate, NextFireAfter
    <3>2. cal.last = NoWork
      BY <3>1 DEF Inv, CalendarSound
    <3>3. cal'.last = NoWork
      BY <3>1, <3>2 DEF Inv, TableTypes
    <3>4. TableTypes'
      BY <1>1, <1>6, <3>1 DEF Inv, TableTypes
    <3> QED
      BY <3>3, <3>4 DEF CalendarSound, OccurrenceOnce
  <2>2. CASE CalendarCancel(t)
    <3>1. cal' = [cal EXCEPT !.state = "cancelled"]
      BY <2>2 DEF CalendarCancel
    <3>2. cal'.state = "cancelled" /\ cal'.last = cal.last /\ cal'.next = cal.next
      BY <3>1 DEF Inv, TableTypes
    <3>3. TableTypes'
      BY <1>1, <3>1 DEF Inv, TableTypes
    <3> QED
      BY <1>1, <3>2, <3>3 DEF Inv, CalendarSound, OccurrenceOnce
  <2> QED
    BY <2>1, <2>2
<1>8. ExecTypes' /\ BoundTypes'
  BY <1>1 DEF Inv, ExecTypes, BoundTypes, execs, bounds, trail
<1> QED
  BY <1>5, <1>7, <1>8 DEF Inv

\* Running a job by hand keeps it.
LEMMA JobRunStep ==
  ASSUME Inv, NEW t \in Actors, JobRun(t)
  PROVE  Inv'
<1>1. PICK w \in Works, retry \in BOOLEAN :
        /\ row[w].state \in {"failed", "unavailable"} \cup {IF retry THEN "delivered" ELSE "queued"}
        /\ Push(t, [NoFrame EXCEPT !.w = w, !.retry = retry, !.force = TRUE, !.http = TRUE])
  BY DEF JobRun
<1> DEFINE f == [NoFrame EXCEPT !.w = w, !.retry = retry, !.force = TRUE, !.http = TRUE]
<1>2. Born(row[w])
  BY <1>1 DEF Born
<1>3. NoFrame \in Frames(t) /\ NoFrame.late = FALSE /\ NoFrame.todo = {}
  BY NoFrameTyped
<1>4. f \in Frames(t) /\ f.w = w /\ f.late = FALSE /\ f.todo = {}
  BY <1>3, ZenonT(60) DEF Frames
<1>5. /\ pc' = [pc EXCEPT ![t] = "acquire_read"] /\ frame' = [frame EXCEPT ![t] = f]
      /\ UNCHANGED <<tables, execs, clock, reconcile, crashes, trail, wake>>
      /\ UNCHANGED <<row, cal, asked>>
  BY <1>1 DEF JobRun, tables, execs
<1> HIDE DEF f
<1>6. Fits(t, "acquire_read", f) /\ Agrees("acquire_read", f, row, clock)
  BY <1>2, <1>4, PlainFits DEF PlainLabels
<1>7. Moves(t, "acquire_read", f)
  BY <1>5, <1>6 DEF Moves
<1>8. row' \in [Works -> Row] /\ RowsKept
  BY <1>5, RowsSame DEF Inv, TableTypes
<1>9. manual' \in 0 .. MaxManual
  BY BoundAssumption DEF JobRun, Inv, BoundTypes
<1>10. ExecTypes' /\ BoundTypes'
  BY <1>5, <1>9 DEF Inv, ExecTypes, BoundTypes, execs, trail
<1> QED
  BY <1>5, <1>7, <1>8, <1>10, ActorStep

\* An ask is on record for created work and an attempt.
LEMMA AskedTyped ==
  ASSUME Inv, NEW x \in asked
  PROVE  x[1] \in Works /\ x[2] \in Attempts /\ Born(row[x[1]])
BY DEF Inv, ExecTypes, AskedBorn

\* Updating a job keeps the invariant.
LEMMA JobUpdateStep ==
  ASSUME Inv, NEW t \in Actors, JobUpdate(t)
  PROVE  Inv'
<1>1. PICK x \in asked, st \in {"running", "completed", "failed"} :
        Push(t, [NoFrame EXCEPT !.w = x[1], !.a = x[2], !.u = Update(st, "none"), !.http = TRUE,
                                !.after = "merge", !.orelse = "finish"])
  BY DEF JobUpdate, Reports
<1>2. x[1] \in Works /\ x[2] \in Attempts /\ Born(row[x[1]])
  BY AskedTyped
<1>3. st \in WorkState /\ "none" \in Phase
  BY DEF WorkState, Terminal, Phase
<1>4. Goto(t, "state_read") /\ UNCHANGED <<tables, execs, bounds, trail, wake>>
  BY DEF JobUpdate
<1> QED
  BY <1>1, <1>2, <1>3, <1>4, StateRequest

\* Cancelling a job keeps it.
LEMMA JobCancelStep ==
  ASSUME Inv, NEW t \in Actors, JobCancel(t)
  PROVE  Inv'
<1>1. PICK w \in Works \ Unborn :
        Push(t, [NoFrame EXCEPT !.w = w, !.http = TRUE,
                   !.inflight = row[w].state \notin Terminal \cup {"queued"}])
  BY DEF JobCancel
<1> DEFINE b == row[w].state \notin Terminal \cup {"queued"}
           f == [NoFrame EXCEPT !.w = w, !.http = TRUE, !.inflight = b]
<1>2. Born(row[w]) /\ w \in Works
  BY DEF Born, Unborn
<1>3. NoFrame \in Frames(t) /\ NoFrame.late = FALSE /\ NoFrame.todo = {}
  BY NoFrameTyped
<1>4. b \in BOOLEAN
  OBVIOUS
<1>5. /\ pc' = [pc EXCEPT ![t] = "cancel_read"] /\ frame' = [frame EXCEPT ![t] = f]
      /\ UNCHANGED <<tables, execs, bounds, trail, wake>>
  BY <1>1 DEF JobCancel
<1> HIDE DEF b
<1>6. f \in Frames(t) /\ f.w = w /\ f.late = FALSE /\ f.todo = {}
  BY <1>2, <1>3, <1>4, ZenonT(60) DEF Frames
<1> HIDE DEF f
<1>7. Fits(t, "cancel_read", f) /\ Agrees("cancel_read", f, row, clock)
  BY <1>2, <1>6, PlainFits DEF PlainLabels
<1>8. Moves(t, "cancel_read", f) /\ UNCHANGED asked /\ up' \subseteq Peers
  BY <1>5, <1>7 DEF Moves, tables, bounds, execs, Inv, ExecTypes
<1> QED
  BY <1>5, <1>8, QuietStep, WakeTyped

\* Arming delivered work, at the start of its turn, keeps it.
LEMMA ArmStep ==
  ASSUME Inv, NEW t \in Actors, Arm(t)
  PROVE  Inv'
<1>1. PICK x \in asked :
        /\ Goto(t, "state_read")
        /\ Push(t, [NoFrame EXCEPT !.w = x[1], !.a = x[2], !.u = Update("running", "turn_started"),
                      !.http = TRUE, !.after = "finish", !.orelse = "finish"])
  BY DEF Arm
<1>2. x[1] \in Works /\ x[2] \in Attempts /\ Born(row[x[1]])
  BY AskedTyped
<1>3. "running" \in WorkState /\ "turn_started" \in Phase
  BY DEF WorkState, Phase
<1>4. UNCHANGED <<tables, execs, bounds, trail, wake>>
  BY DEF Arm
<1> QED
  BY <1>1, <1>2, <1>3, <1>4, StateRequest


-----------------------------------------------------------------------------
(* JobCompletion *)

\* What is listed to be settled are works that exist, with their attempts.
LEMMA SettleListed ==
  ASSUME Inv, NEW V \in SUBSET Works, \A w \in V : Born(row[w]) /\ row[w].cur # NoAttempt
  PROVE  LET S == {<<w, row[w].cur>> : w \in V} IN
         S \in SUBSET (Works \X Attempts) /\ \A x \in S : Born(row[x[1]])
<1>1. \A w \in V : row[w].cur \in Attempts
  BY RowFields DEF Inv, TableTypes
<1> QED
  BY <1>1

\* The completion moves to a label where it has its outcome.
LEMMA CompletionMoves ==
  ASSUME Inv, NEW t \in Actors, NEW f \in Frames(t), NEW l \in CompletionLabels, f.late = FALSE,
         f.result # "", \A x \in f.todo : Born(row[x[1]]), l \notin {"outcome", "close_ask"},
         pc' = [pc EXCEPT ![t] = l], frame' = [frame EXCEPT ![t] = f],
         UNCHANGED <<tables, asked, bounds, trail>>, up' \subseteq Peers, wake' \in BOOLEAN
  PROVE  Inv'
<1>1. Fits(t, l, f) /\ Agrees(l, f, row, clock)
  BY CompletionFits
<1>2. Moves(t, l, f)
  BY <1>1 DEF Moves, tables, bounds
<1> QED
  BY <1>2, QuietStep

\* The executors stay peers when nothing happens to them.
LEMMA ExecsKept ==
  ASSUME Inv, UNCHANGED execs
  PROVE  up' \subseteq Peers /\ UNCHANGED asked
BY DEF Inv, ExecTypes, execs

\* A completed ask keeps the invariant.
LEMMA CompleteStep ==
  ASSUME Inv, NEW t \in Handlers, Complete(t)
  PROVE  Inv'
<1>0. t \in Actors /\ Items(t) = Attempts
  BY HandlerIsActor
<1>1. PICK p \in up :
        LET works == {w \in Works : row[w].state = "running" /\ row[w].peer = p
                                    /\ row[w].phase = "turn_started" /\ row[w].cur # NoAttempt}
        IN  Push(t, [NoFrame EXCEPT !.todo = {<<w, row[w].cur>> : w \in works},
                       !.http = TRUE, !.result = "completed"])
  BY DEF Complete
<1> DEFINE V == {w \in Works : row[w].state = "running" /\ row[w].peer = p
                               /\ row[w].phase = "turn_started" /\ row[w].cur # NoAttempt}
           S == {<<w, row[w].cur>> : w \in V}
           f == [NoFrame EXCEPT !.todo = S, !.http = TRUE, !.result = "completed"]
<1>2. V \in SUBSET Works /\ \A w \in V : Born(row[w]) /\ row[w].cur # NoAttempt
  BY DEF Born
<1>3. /\ pc' = [pc EXCEPT ![t] = "settle"] /\ frame' = [frame EXCEPT ![t] = f]
      /\ UNCHANGED <<tables, execs, bounds, trail, wake>>
  BY <1>1 DEF Complete
<1> HIDE DEF V
<1>4. S \in SUBSET (Works \X Attempts) /\ \A x \in S : Born(row[x[1]])
  BY <1>2, SettleListed
<1> HIDE DEF S
<1>5. NoFrame \in Frames(t) /\ NoFrame.late = FALSE
  BY NoFrameTyped
<1>6. f \in Frames(t) /\ f.late = FALSE /\ f.todo = S /\ f.result = "completed"
  BY <1>0, <1>4, <1>5, ZenonT(60) DEF Frames
<1> HIDE DEF f
<1>7. "settle" \in CompletionLabels /\ f.result # "" /\ \A x \in f.todo : Born(row[x[1]])
  BY <1>4, <1>6 DEF CompletionLabels
<1> QED
  BY <1>0, <1>3, <1>6, <1>7, CompletionMoves, ExecsKept, WakeTyped

\* A peer that goes away keeps it.
LEMMA OfflineStep ==
  ASSUME Inv, NEW t \in Actors, Offline(t)
  PROVE  Inv'
<1>1. PICK p \in up : up' = up \ {p} /\ Push(t, [NoFrame EXCEPT !.who = {p}, !.result = "failed"])
  BY DEF Offline
<1> DEFINE f == [NoFrame EXCEPT !.who = {p}, !.result = "failed"]
<1>2. {p} \in SUBSET Peers /\ up' \subseteq Peers
  BY <1>1 DEF Inv, ExecTypes
<1>3. /\ pc' = [pc EXCEPT ![t] = "list_delivered"] /\ frame' = [frame EXCEPT ![t] = f]
      /\ UNCHANGED <<tables, asked, bounds, trail, wake>>
  BY <1>1 DEF Offline
<1>4. NoFrame \in Frames(t) /\ NoFrame.late = FALSE /\ NoFrame.todo = {}
  BY NoFrameTyped
<1>5. f \in Frames(t) /\ f.late = FALSE /\ f.todo = {} /\ f.result = "failed"
  BY <1>2, <1>4, ZenonT(60) DEF Frames
<1> HIDE DEF f
<1>6. "list_delivered" \in CompletionLabels /\ f.result # "" /\ \A x \in f.todo : Born(row[x[1]])
  BY <1>5 DEF CompletionLabels
<1> QED
  BY <1>2, <1>3, <1>5, <1>6, CompletionMoves, WakeTyped

\* The start of a reconciliation keeps it.
LEMMA ReconcileStep ==
  ASSUME Inv, NEW t \in Actors, Reconcile(t)
  PROVE  Inv'
<1> DEFINE f == [NoFrame EXCEPT !.who = Peers \ up, !.result = "failed"]
<1>1. /\ pc' = [pc EXCEPT ![t] = "list_delivered"] /\ frame' = [frame EXCEPT ![t] = f]
      /\ UNCHANGED <<tables, execs, clock, crashes, manual, trail, wake>> /\ reconcile' = FALSE
      /\ UNCHANGED <<row, cal, asked>>
  BY DEF Reconcile, tables, execs
<1>2. NoFrame \in Frames(t) /\ NoFrame.late = FALSE /\ NoFrame.todo = {}
  BY NoFrameTyped
<1>3. f \in Frames(t) /\ f.late = FALSE /\ f.todo = {} /\ f.result = "failed"
  BY <1>2, ZenonT(60) DEF Frames
<1> HIDE DEF f
<1>4. "list_delivered" \in CompletionLabels /\ f.result # "" /\ \A x \in f.todo : Born(row[x[1]])
  BY <1>3 DEF CompletionLabels
<1>5. Fits(t, "list_delivered", f) /\ Agrees("list_delivered", f, row, clock)
  BY <1>3, <1>4, CompletionFits
<1>6. Moves(t, "list_delivered", f)
  BY <1>1, <1>5 DEF Moves
<1>7. row' \in [Works -> Row] /\ RowsKept
  BY <1>1, RowsSame DEF Inv, TableTypes
<1>8. ExecTypes' /\ BoundTypes'
  BY <1>1 DEF Inv, ExecTypes, BoundTypes, execs, trail
<1> QED
  BY <1>1, <1>6, <1>7, <1>8, ActorStep

\* What the completion has in hand.
LEMMA AtCompletion ==
  ASSUME Inv, NEW t \in Actors, NEW l \in CompletionLabels, At(t, l)
  PROVE  /\ my(t) \in Frames(t) /\ my(t).late = FALSE /\ my(t).result \in {"completed", "failed"}
         /\ \A x \in my(t).todo : Born(row[x[1]])
<1>1. l \notin {"second_check", "attempt_read", "attempt_write"}
  BY DEF CompletionLabels
<1>2. my(t) \in Frames(t) /\ Fits(t, l, my(t)) /\ \A x \in my(t).todo : Born(row[x[1]])
  BY Here
<1>3. my(t).result \in {"completed", "failed"}
  BY <1>2, FrameFields DEF Fits
<1> QED
  BY <1>1, <1>2, <1>3, NotLate

\* Listing the work in a state keeps it.
LEMMA ListStep ==
  ASSUME Inv, NEW t \in Handlers, NEW state \in {"delivered", "running"},
         NEW here \in CompletionLabels, List(t, state, here)
  PROVE  Inv'
<1>0. t \in Actors /\ Items(t) = Attempts
  BY HandlerIsActor
<1> DEFINE V == {v \in Works : row[v].state = state /\ row[v].peer \in my(t).who /\ row[v].cur # NoAttempt}
           S == {<<w, row[w].cur>> : w \in V}
           f == [my(t) EXCEPT !.list = state, !.todo = S]
<1>1. my(t) \in Frames(t) /\ my(t).late = FALSE /\ my(t).result \in {"completed", "failed"}
  BY <1>0, AtCompletion DEF List
<1>2. V \in SUBSET Works /\ \A w \in V : Born(row[w]) /\ row[w].cur # NoAttempt
  BY DEF Born
<1>3. /\ pc' = [pc EXCEPT ![t] = "settle"] /\ frame' = [frame EXCEPT ![t] = f]
      /\ UNCHANGED <<tables, execs, bounds, trail, wake>>
  BY DEF List
<1> HIDE DEF V
<1>4. S \in SUBSET (Works \X Attempts) /\ \A x \in S : Born(row[x[1]])
  BY <1>2, SettleListed
<1> HIDE DEF S
<1>5. f \in Frames(t) /\ f.late = FALSE /\ f.todo = S /\ f.result = my(t).result
  BY <1>0, <1>1, <1>4, ZenonT(60) DEF Frames
<1> HIDE DEF f
<1>6. "settle" \in CompletionLabels /\ f.result # "" /\ \A x \in f.todo : Born(row[x[1]])
  BY <1>1, <1>4, <1>5 DEF CompletionLabels
<1> QED
  BY <1>0, <1>3, <1>5, <1>6, CompletionMoves, ExecsKept, WakeTyped

\* Settling one listed attempt keeps it.
LEMMA SettleStep ==
  ASSUME Inv, NEW t \in Handlers, Settle(t)
  PROVE  Inv'
<1>0. t \in Actors /\ Items(t) = Attempts
  BY HandlerIsActor
<1>1. /\ my(t) \in Frames(t) /\ my(t).late = FALSE /\ my(t).result \in {"completed", "failed"}
      /\ \A x \in my(t).todo : Born(row[x[1]])
  BY <1>0, AtCompletion DEF Settle, CompletionLabels
<1>2. UNCHANGED <<tables, execs, bounds, trail, wake>>
  BY DEF Settle
<1>3. UNCHANGED <<row, clock, asked>> /\ up' \subseteq Peers /\ wake' \in BOOLEAN
  BY <1>2, ExecsKept, WakeTyped DEF tables, bounds
<1>4. ASSUME NEW x \in my(t).todo, Goto(t, "attempt_read"),
             Push(t, [my(t) EXCEPT !.w = x[1], !.a = x[2], !.todo = @ \ {x}, !.after = "outcome",
                        !.u = Update(IF my(t).result = "failed" THEN "failed" ELSE "", "none")])
      PROVE  Inv'
  <2> DEFINE st == IF my(t).result = "failed" THEN "failed" ELSE ""
             u == Update(st, "none")
             T == my(t).todo \ {x}
             f == [my(t) EXCEPT !.w = x[1], !.a = x[2], !.todo = T, !.after = "outcome", !.u = u]
  <2>1. x \in Works \X Attempts /\ T \in SUBSET (Works \X Attempts)
    BY <1>0, <1>1, FrameFields
  <2>2. x[1] \in Works /\ x[2] \in Attempts
    BY <2>1
  <2>3. st \in WorkState \cup {""} /\ "none" \in Phase
    BY DEF WorkState, Terminal, Phase
  <2>4. pc' = [pc EXCEPT ![t] = "attempt_read"] /\ frame' = [frame EXCEPT ![t] = f]
    BY <1>4
  <2> HIDE DEF st
  <2>5. u \in Updates /\ u.handle = FALSE
    BY <2>3, UpdateTyped, ZenonT(60)
  <2> HIDE DEF u, T
  <2>6. "outcome" \in Labels
    BY DEF Labels, CompletionLabels
  <2>7. /\ f \in Frames(t) /\ f.w = x[1] /\ f.todo = T /\ f.late = FALSE /\ f.after = "outcome"
        /\ f.u = u /\ f.result = my(t).result
    BY <1>0, <1>1, <2>1, <2>2, <2>5, <2>6, ZenonT(60) DEF Frames
  <2> HIDE DEF f
  <2>8. AttemptCall(f)
    BY <1>1, <2>5, <2>7 DEF AttemptCall
  <2>9. Born(row[f.w]) /\ \A y \in f.todo : Born(row[y[1]])
    BY <1>1, <2>7 DEF T
  <2>10. Fits(t, "attempt_read", f) /\ Agrees("attempt_read", f, row, clock)
    BY <2>2, <2>7, <2>8, <2>9, AttemptCallFits
  <2>11. Moves(t, "attempt_read", f)
    BY <1>3, <2>4, <2>10 DEF Moves
  <2> QED
    BY <1>0, <1>2, <1>3, <2>11, QuietStep
<1>5. CASE Goto(t, "list_running") /\ UNCHANGED frame
  <2>1. frame' = [frame EXCEPT ![t] = my(t)]
    BY <1>5 DEF Inv, ActorTypes
  <2>2. "list_running" \in CompletionLabels /\ my(t).result # ""
    BY <1>1 DEF CompletionLabels
  <2> QED
    BY <1>0, <1>1, <1>2, <1>3, <1>5, <2>1, <2>2, CompletionMoves
<1>6. CASE Goto(t, "idle") /\ Push(t, NoFrame)
  BY <1>0, <1>2, <1>3, <1>6, EndStep
<1> QED
  BY <1>4, <1>5, <1>6 DEF Settle

\* Recording an outcome keeps it.
LEMMA OutcomeStep ==
  ASSUME Inv, NEW t \in Actors, Outcome(t)
  PROVE  Inv'
<1>1. my(t).w \in Works /\ Born(row[my(t).w]) /\ my(t).late = FALSE
  BY AtRoute DEF Outcome
<1>2. my(t).result \in {"completed", "failed"}
  BY AtCompletion DEF Outcome, CompletionLabels
<1>3. UNCHANGED <<tables, execs, bounds, trail, wake>> /\ UNCHANGED <<row, clock>>
  BY DEF Outcome, tables, bounds
<1>4. \E k, f : Moves(t, k, f)
  <2>1. my(t).result \in WorkState /\ "none" \in Phase /\ NoRow \in Row
    BY <1>2, NoRowTyped DEF WorkState, Terminal, Phase
  <2> QED
    BY <1>1, <1>2, <1>3, <2>1, CallStateMoves DEF Outcome
<1> QED
  BY <1>3, <1>4, ExecsKept, WakeTyped, QuietStep

\* Releasing the executor of a settled attempt keeps it.
LEMMA CloseAskStep ==
  ASSUME Inv, NEW t \in Actors, CloseAsk(t)
  PROVE  Inv'
<1>1. /\ my(t) \in Frames(t) /\ my(t).late = FALSE /\ my(t).result \in {"completed", "failed"}
      /\ \A x \in my(t).todo : Born(row[x[1]])
  BY AtCompletion DEF CloseAsk, CompletionLabels
<1>2. /\ pc' = [pc EXCEPT ![t] = "settle"] /\ frame' = [frame EXCEPT ![t] = my(t)]
      /\ UNCHANGED <<tables, asked, bounds, trail, wake>> /\ up' \subseteq Peers
  BY ReleasedPeers DEF CloseAsk, Inv, ActorTypes
<1>3. "settle" \in CompletionLabels /\ my(t).result # ""
  BY <1>1 DEF CompletionLabels
<1> QED
  BY <1>1, <1>2, <1>3, CompletionMoves, WakeTyped

\* Every step of the completion side keeps the invariant.
LEMMA CompletionSteps ==
  ASSUME Inv, NEW t \in Handlers, CompletionStep(t)
  PROVE  Inv'
<1>0. t \in Actors
  BY HandlerIsActor
<1>1. CASE ListDelivered(t)
  BY <1>1, ListStep DEF ListDelivered, CompletionLabels
<1>2. CASE ListRunning(t)
  BY <1>2, ListStep DEF ListRunning, CompletionLabels
<1> QED
  BY <1>0, <1>1, <1>2, SettleStep, OutcomeStep, CloseAskStep DEF CompletionStep

\* Every request keeps the invariant.
LEMMA Requests ==
  ASSUME Inv, NEW t \in Handlers, Request(t)
  PROVE  Inv'
<1>0. t \in Actors
  BY HandlerIsActor
<1> QED
  BY <1>0, JobCreateStep, CalendarRequest, JobRunStep, JobUpdateStep, JobCancelStep, ArmStep,
     CompleteStep, OfflineStep, ReconcileStep DEF Request

-----------------------------------------------------------------------------
(* Time and crashes *)

\* Passing time keeps it.
LEMMA TickStep ==
  ASSUME Inv, Tick
  PROVE  Inv'
<1>1. /\ UNCHANGED <<tables, execs, reconcile, crashes, manual, trail, wake, pc, frame>>
      /\ UNCHANGED <<row, cal, asked>>
  BY DEF Tick, tables, execs
<1>2. clock \in Nat /\ clock' \in Nat /\ clock <= clock' /\ clock' \in Time
  BY TimeAssumption DEF Tick, Inv, TableTypes, Time
<1>3. RowsKept
  BY <1>1, RowsSame
<1>4. ActorTypes' /\ ActorsFit'
  BY <1>1 DEF Inv, ActorTypes, ActorsFit
<1>5. ASSUME NEW t \in Actors PROVE Agrees(pc'[t], frame'[t], row', clock')
  <2>1. Fits(t, pc[t], frame[t]) /\ Agrees(pc[t], frame[t], row, clock)
    BY DEF Inv, ActorsFit, ActorsAgree
  <2>2. Agrees(pc[t], frame[t], row', clock')
    BY <1>2, <1>3, <2>1, AgreementStable
  <2> QED
    BY <1>1, <2>2
<1>6. ActorsAgree'
  BY <1>5 DEF ActorsAgree
<1>7. AskedBorn' /\ CalendarSound'
  BY <1>1, <1>3, TablesAgree DEF Inv
<1>8. TableTypes' /\ ExecTypes' /\ BoundTypes'
  BY <1>1, <1>2 DEF Inv, TableTypes, ExecTypes, BoundTypes, execs, trail
<1> QED
  BY <1>4, <1>6, <1>7, <1>8 DEF Inv

\* The stacks of a daemon that was just started.
LEMMA Started ==
  ASSUME pc = [t \in Actors |-> IF t = Loop THEN "start" ELSE "idle"],
         frame = [t \in Actors |-> NoFrame]
  PROVE  ActorTypes /\ ActorsFit /\ ActorsAgree
<1>1. ASSUME NEW t \in Actors PROVE Fits(t, pc[t], frame[t]) /\ Agrees(pc[t], frame[t], row, clock)
  <2>1. pc[t] \in {"start", "idle"} /\ frame[t] = NoFrame
    OBVIOUS
  <2>2. \A l \in {"start", "idle"} : Fits(t, l, NoFrame) /\ Agrees(l, NoFrame, row, clock)
    BY NoFrameFits
  <2> QED
    BY <2>1, <2>2
<1>2. ActorsFit /\ ActorsAgree
  BY <1>1 DEF ActorsFit, ActorsAgree
<1> QED
  BY <1>2 DEF ActorTypes

\* A crash keeps it: the rows stay, the frames go.
LEMMA CrashStep ==
  ASSUME Inv, Crash
  PROVE  Inv'
<1>1. UNCHANGED <<tables, asked, clock, manual, trail>> /\ UNCHANGED <<row, cal>>
  BY DEF Crash, tables
<1>2. pc' = [t \in Actors |-> IF t = Loop THEN "start" ELSE "idle"] /\ frame' = [t \in Actors |-> NoFrame]
  BY DEF Crash
<1>3. (ActorTypes /\ ActorsFit /\ ActorsAgree)'
  <2>1. ASSUME NEW t \in Actors PROVE Fits(t, pc'[t], frame'[t]) /\ Agrees(pc'[t], frame'[t], row', clock')
    <3>1. pc'[t] \in {"start", "idle"} /\ frame'[t] = NoFrame
      BY <1>2
    <3>2. \A l \in {"start", "idle"} : Fits(t, l, NoFrame) /\ Agrees(l, NoFrame, row', clock')
      BY NoFrameFits
    <3> QED
      BY <3>1, <3>2
  <2>2. ActorsFit' /\ ActorsAgree'
    BY <2>1 DEF ActorsFit, ActorsAgree
  <2>3. ActorTypes'
    BY <1>2 DEF ActorTypes
  <2> QED
    BY <2>2, <2>3
<1>4. AskedBorn' /\ CalendarSound'
  BY <1>1, RowsSame, TablesAgree DEF Inv
<1>5. crashes' \in 0 .. MaxCrash
  BY BoundAssumption DEF Crash, Inv, BoundTypes
<1>6. TableTypes' /\ ExecTypes' /\ BoundTypes'
  BY <1>1, <1>5 DEF Crash, Inv, TableTypes, ExecTypes, BoundTypes, trail
<1> QED
  BY <1>3, <1>4, <1>6 DEF Inv

\* The invariant holds initially.
LEMMA InitInv ==
  ASSUME Init
  PROVE  Inv
<1>1. ActorTypes /\ ActorsFit /\ ActorsAgree
  BY Started DEF Init
<1>2. NoRow \in Row /\ 0 \in Time /\ 0 \in 0 .. MaxTime + 1 /\ 0 \in 0 .. MaxCrash /\ 0 \in 0 .. MaxManual
  BY NoRowTyped, TimeAssumption, BoundAssumption DEF Time
<1>3. TableTypes /\ ExecTypes /\ BoundTypes
  BY <1>2 DEF Init, TableTypes, ExecTypes, BoundTypes
<1>4. AskedBorn /\ CalendarSound
  BY DEF Init, AskedBorn, CalendarSound, OccurrenceOnce
<1> QED
  BY <1>1, <1>3, <1>4 DEF Inv

\* It holds while nothing happens.
LEMMA StutterInv ==
  ASSUME Inv, UNCHANGED vars
  PROVE  Inv'
BY DEF Inv, vars, tables, execs, bounds, trail, TableTypes, ExecTypes, BoundTypes, ActorTypes, ActorsFit,
       ActorsAgree, AskedBorn, CalendarSound, OccurrenceOnce

\* Every step keeps the invariant.
LEMMA NextInv ==
  ASSUME Inv, [Next]_vars
  PROVE  Inv'
<1>1. CASE LoopStep
  BY <1>1, LoopSteps
<1>2. CASE Tick
  BY <1>2, TickStep
<1>3. CASE Crash
  BY <1>3, CrashStep
<1>4. ASSUME NEW t \in Handlers, Request(t) \/ HandlerStep(t) \/ ClientGone(t) PROVE Inv'
  BY <1>4, HandlerIsActor, Requests, RouteSteps, CompletionSteps, ClientGoneStep DEF HandlerStep
<1>5. CASE UNCHANGED vars
  BY <1>5, StutterInv
<1> QED
  BY <1>1, <1>2, <1>3, <1>4, <1>5 DEF Next

-----------------------------------------------------------------------------
(* Theorems *)

\* What every actor holds at every label, and that the tables still bear it out,
\* holds whatever the loop, the requests, the callbacks and crashes interleave.
THEOREM StacksAgree == Spec => []Inv
<1>1. Init => Inv
  BY InitInv
<1>2. Inv /\ [Next]_vars => Inv'
  BY NextInv
<1> QED
  BY <1>1, <1>2, PTL DEF Spec

\* Rows, the calendar entry, the stacks of the goroutines and the bounds keep
\* their shapes: in particular no store operation writes an attempt, a state or
\* a release handle that is none, although it writes back what it read earlier.
THEOREM TypeCorrect == Spec => []TypeOK
<1>1. ASSUME Inv PROVE TypeOK
  <2>1. ASSUME NEW t \in Actors
        PROVE  /\ DOMAIN my(t) = DOMAIN NoFrame /\ my(t).w \in Works \cup {NoWork}
               /\ my(t).r \in Row /\ my(t).p \in Row
    <3>1. my(t) \in Frames(t)
      BY <1>1, Here
    <3>2. DOMAIN my(t) = DOMAIN NoFrame
      <4>1. NoFrame \in Frames(t)
        BY NoFrameTyped
      <4> QED
        BY <3>1, <4>1 DEF Frames
    <3> QED
      BY <3>1, <3>2, FrameFields
  <2> QED
    BY <1>1, <2>1 DEF TypeOK, Inv, TableTypes, ExecTypes, BoundTypes
<1> QED
  BY <1>1, StacksAgree, PTL

\* A cancel that was recorded when dispatch had its executor is seen by the
\* second look at the row: no write of any actor takes the flag back, so the ask
\* is not opened.
THEOREM CancelHeeded == Spec => []CancelStopsAsk
<1>1. ASSUME Inv PROVE CancelStopsAsk
  <2>1. ASSUME NEW t \in Actors, At(t, "open_ask") PROVE my(t).late = FALSE
    BY <1>1, <2>1, NotLate
  <2> QED
    BY <2>1 DEF CancelStopsAsk
<1> QED
  BY <1>1, StacksAgree, PTL

\* The occurrence a recurring job points to exists and was due before the time
\* at which the entry fires next, for any schedule of the loop, the requests and crashes.
THEOREM OccurrencesOnce == Spec => []OccurrenceOnce
<1>1. Inv => OccurrenceOnce
  BY DEF Inv, CalendarSound
<1> QED
  BY <1>1, StacksAgree, PTL

-----------------------------------------------------------------------------
(* The queue and the timer *)

\* Work in the queue was never attempted: what an attempt leaves on a row takes
\* it out of the queue for good.
Untried(r) == r.tried = {} /\ r.handles = {}
RowsUntried == \A w \in Works : row[w].state = "queued" => Untried(row[w])

\* What the stack f holds at label l so that its next write queues no work, and
\* so that a request about to wake the loop is not cut off by its client.
Settled(l, f, table) ==
  /\ l \in {"attempt_read", "attempt_write", "state_read", "state_write"} => f.u.st # "queued"
  /\ (l = "attempt_write" /\ f.r.tried # {}) => (f.r.state # "queued" /\ table[f.w].state # "queued")
  /\ l \in {"idle", "wake"} => f.http = FALSE
SettledLabels == {"attempt_read", "attempt_write", "state_read", "state_write", "idle", "wake"}

QueueInv == RowsUntried /\ \A t \in Actors : Settled(pc[t], frame[t], row)

\* A step after which work is queued only where it was, or where none was.
RowsSettle ==
  \A w \in Works : row'[w].state = "queued" =>
    Untried(row'[w]) /\ (Born(row[w]) => row[w].state = "queued")
\* A step after which work is queued only where it was, and due when it was.
RowsStay ==
  \A w \in Works : row'[w].state = "queued" =>
    Untried(row'[w]) /\ row[w].state = "queued" /\ row'[w].due = row[w].due

\* The turn of an actor that puts nothing into the queue or the calendar.
Steady(t) ==
  /\ RowsStay /\ UNCHANGED <<cal, wake>> /\ pc[t] # "wake"
  /\ \E l, f : /\ pc' = [pc EXCEPT ![t] = l] /\ frame' = [frame EXCEPT ![t] = f]
               /\ l # "select" /\ Settled(l, f, row')

\* Rows that stay as they are stay in the queue as they are.
LEMMA RowsStill ==
  ASSUME QueueInv, UNCHANGED row
  PROVE  RowsStay /\ RowsSettle
BY DEF QueueInv, RowsUntried, RowsStay, RowsSettle

\* The new state of the one row written is not queued.
LEMMA RowLeaves ==
  ASSUME Inv, QueueInv, NEW w \in Works, NEW x, row' = [row EXCEPT ![w] = x], x.state # "queued"
  PROVE  RowsStay /\ RowsSettle
<1>1. \A v \in Works : row'[v] = IF v = w THEN x ELSE row[v]
  BY DEF Inv, TableTypes
<1> QED
  BY <1>1 DEF QueueInv, RowsUntried, RowsStay, RowsSettle

\* At the other labels the stack has no duty.
LEMMA PlainSettled ==
  ASSUME NEW l, NEW f, NEW table, l \notin SettledLabels
  PROVE  Settled(l, f, table)
BY DEF Settled, SettledLabels

\* One actor moves: the others' duties survive it.
LEMMA QueueMoved ==
  ASSUME Inv, QueueInv, RowsSettle, NEW t \in Actors, NEW l, NEW f, Settled(l, f, row'),
         pc' = [pc EXCEPT ![t] = l], frame' = [frame EXCEPT ![t] = f]
  PROVE  QueueInv'
<1>1. ASSUME NEW s \in Actors PROVE Settled(pc'[s], frame'[s], row')
  <2>1. CASE s = t
    <3>1. pc'[s] = l /\ frame'[s] = f
      BY <2>1 DEF Inv, ActorTypes
    <3> QED
      BY <3>1
  <2>2. CASE s # t
    <3>1. pc'[s] = pc[s] /\ frame'[s] = frame[s]
      BY <2>2 DEF Inv, ActorTypes
    <3>2. Settled(pc[s], frame[s], row)
      BY DEF QueueInv
    <3>3. ASSUME pc[s] = "attempt_write", frame[s].r.tried # {} PROVE row'[frame[s].w].state # "queued"
      <4>1. frame[s].w \in Works /\ Born(row[frame[s].w])
        BY <3>3, AtWork DEF WorkLabels
      <4>2. row[frame[s].w].state # "queued"
        BY <3>2, <3>3 DEF Settled
      <4> QED
        BY <4>1, <4>2 DEF RowsSettle
    <3> QED
      BY <3>1, <3>2, <3>3 DEF Settled
  <2> QED
    BY <2>1, <2>2
<1>2. RowsUntried'
  BY DEF RowsSettle, RowsUntried
<1> QED
  BY <1>1, <1>2 DEF QueueInv

\* A steady turn keeps the duties.
LEMMA SteadyQueue ==
  ASSUME Inv, QueueInv, NEW t \in Actors, Steady(t)
  PROVE  QueueInv'
<1>1. RowsSettle
  BY DEF Steady, RowsStay, RowsSettle
<1> QED
  BY <1>1, QueueMoved DEF Steady

\* A turn that ends at a label without a duty.
LEMMA PlainTurn ==
  ASSUME RowsStay, UNCHANGED <<cal, wake>>, NEW t \in Actors, pc[t] # "wake", NEW l, NEW f,
         pc' = [pc EXCEPT ![t] = l], frame' = [frame EXCEPT ![t] = f],
         l \notin SettledLabels \cup {"select"}
  PROVE  Steady(t)
BY PlainSettled DEF Steady

\* A turn that ends the request.
LEMMA RestTurn ==
  ASSUME RowsStay, UNCHANGED <<cal, wake>>, NEW t \in Actors, pc[t] # "wake",
         Goto(t, "idle"), Push(t, NoFrame)
  PROVE  Steady(t)
<1>1. NoFrame.http = FALSE
  BY DEF NoFrame
<1>2. Settled("idle", NoFrame, row')
  BY <1>1 DEF Settled
<1> QED
  BY <1>2 DEF Steady

\* A turn that ends RunJob.
LEMMA DoneTurn ==
  ASSUME RowsStay, UNCHANGED <<cal, wake>>, NEW t \in Actors, pc[t] # "wake", Done(t)
  PROVE  Steady(t)
<1> DEFINE f == [NoFrame EXCEPT !.todo = my(t).todo]
           l == IF t = Loop THEN "run" ELSE "idle"
<1>1. f.http = FALSE
  BY DEF NoFrame
<1>2. pc' = [pc EXCEPT ![t] = l] /\ frame' = [frame EXCEPT ![t] = f] /\ l \in {"run", "idle"}
  BY DEF Done
<1> HIDE DEF f, l
<1>3. Settled(l, f, row') /\ l # "select"
  BY <1>1, <1>2 DEF Settled
<1> QED
  BY <1>2, <1>3 DEF Steady

\* A turn that calls UpdateAttempt with a state that is not queued.
LEMMA CallAttemptTurn ==
  ASSUME Inv, RowsStay, UNCHANGED <<cal, wake>>, NEW t \in Actors, pc[t] # "wake",
         NEW u, NEW l, u.st # "queued", CallAttempt(t, u, l)
  PROVE  Steady(t)
<1> DEFINE f == [my(t) EXCEPT !.u = u, !.after = l]
<1>1. my(t) \in Frames(t)
  BY Here
<1>2. f.u = u
  BY <1>1, ZenonT(60) DEF Frames
<1>3. pc' = [pc EXCEPT ![t] = "attempt_read"] /\ frame' = [frame EXCEPT ![t] = f]
  BY DEF CallAttempt
<1> HIDE DEF f
<1>4. Settled("attempt_read", f, row')
  BY <1>2 DEF Settled
<1> QED
  BY <1>3, <1>4 DEF Steady

\* A turn that calls UpdateWorkState with a state that is not queued.
LEMMA CallStateTurn ==
  ASSUME Inv, RowsStay, UNCHANGED <<cal, wake>>, NEW t \in Actors, pc[t] # "wake",
         NEW u, NEW p, NEW l, NEW m, u.st # "queued", CallState(t, u, p, l, m)
  PROVE  Steady(t)
<1> DEFINE f == [my(t) EXCEPT !.u = u, !.p = p, !.after = l, !.orelse = m]
<1>1. my(t) \in Frames(t)
  BY Here
<1>2. f.u = u
  BY <1>1, ZenonT(60) DEF Frames
<1>3. pc' = [pc EXCEPT ![t] = "state_read"] /\ frame' = [frame EXCEPT ![t] = f]
  BY DEF CallState
<1> HIDE DEF f
<1>4. Settled("state_read", f, row')
  BY <1>2 DEF Settled
<1> QED
  BY <1>3, <1>4 DEF Steady

\* A turn that pushes a stack with such an update.
LEMMA UpdateTurn ==
  ASSUME RowsStay, UNCHANGED <<cal, wake>>, NEW t \in Actors, pc[t] # "wake", NEW f,
         NEW l \in {"attempt_read", "state_read", "state_write"}, f.u.st # "queued", Goto(t, l), Push(t, f)
  PROVE  Steady(t)
<1>1. Settled(l, f, row')
  BY DEF Settled
<1> QED
  BY <1>1 DEF Steady

\* The state an update names.
LEMMA UpdateNames ==
  ASSUME NEW st, NEW ph
  PROVE  Update(st, ph).st = st
BY DEF Update, NoUpdate

\* An attempt is read and written back without queueing its work.
LEMMA AttemptSteady ==
  ASSUME Inv, QueueInv, NEW t \in Actors, AttemptRead(t) \/ AttemptWrite(t)
  PROVE  Steady(t)
<1>1. /\ my(t).w \in Works /\ row[my(t).w] \in Row /\ my(t) \in Frames(t)
      /\ Settled(pc[t], frame[t], row)
  BY AtWork, Here DEF AttemptRead, AttemptWrite, WorkLabels, QueueInv
<1>2. CASE AttemptRead(t)
  <2> DEFINE f == [my(t) EXCEPT !.r = row[my(t).w]]
  <2>1. f.r = row[my(t).w] /\ f.w = my(t).w /\ f.u = my(t).u
    BY <1>1, ZenonT(60) DEF Frames
  <2>2. /\ pc[t] = "attempt_read" /\ pc' = [pc EXCEPT ![t] = "attempt_write"]
        /\ frame' = [frame EXCEPT ![t] = f] /\ UNCHANGED <<row, cal, wake>>
    BY <1>2 DEF AttemptRead, tables
  <2> HIDE DEF f
  <2>3. row[my(t).w].tried # {} => row[my(t).w].state # "queued"
    BY <1>1 DEF QueueInv, RowsUntried, Untried
  <2>4. Settled("attempt_write", f, row')
    BY <1>1, <2>1, <2>2, <2>3 DEF Settled
  <2> QED
    BY <2>2, <2>4, RowsStill DEF Steady
<1>3. CASE AttemptWrite(t)
  <2> DEFINE w == my(t).w
             r == my(t).r
             u == my(t).u
             x == AttemptUpdated(row[w], r, my(t).a, u)
  <2>1. /\ pc[t] = "attempt_write" /\ UNCHANGED <<cal, wake>> /\ row' = [row EXCEPT ![w] = x]
    BY <1>3 DEF AttemptWrite
  <2>2. u.st # "queued" /\ (r.tried # {} => r.state # "queued" /\ row[w].state # "queued")
    BY <1>1, <2>1 DEF Settled
  <2>3. RowsStay
    <3>1. CASE my(t).a \notin r.tried
      <4>1. x = row[w]
        BY <3>1 DEF AttemptUpdated
      <4>2. row' = row
        BY <1>1, <2>1, <4>1 DEF Inv, TableTypes
      <4> QED
        BY <4>2, RowsStill
    <3>2. CASE my(t).a \in r.tried
      <4>1. r.state # "queued" /\ row[w].state # "queued"
        BY <2>2, <3>2
      <4>2. x.state \in {row[w].state, r.state, u.st}
        BY <3>2 DEF AttemptUpdated, Keep
      <4>3. x.state # "queued"
        BY <2>2, <4>1, <4>2
      <4> HIDE DEF x
      <4> QED
        BY <1>1, <2>1, <4>3, RowLeaves
    <3> QED
      BY <3>1, <3>2
  <2>4. CASE my(t).after = "done"
    BY <1>3, <2>1, <2>3, <2>4, DoneTurn DEF AttemptWrite
  <2>5. CASE my(t).after # "done"
    <3>1. my(t).after \in {"second_check", "open_ask", "outcome"}
      <4>1. Fits(t, "attempt_write", my(t))
        BY <2>1, Here
      <4>2. AttemptCall(my(t))
        BY <4>1 DEF Fits
      <4> QED
        BY <2>5, <4>2 DEF AttemptCall
    <3>2. my(t).after \notin SettledLabels \cup {"select"}
      BY <3>1 DEF SettledLabels
    <3>3. /\ pc' = [pc EXCEPT ![t] = my(t).after]
          /\ frame' = [frame EXCEPT ![t] = [my(t) EXCEPT !.r = NoRow, !.u = NoUpdate]]
      BY <1>3, <2>5 DEF AttemptWrite
    <3> QED
      BY <2>1, <2>3, <3>2, <3>3, PlainTurn
  <2> QED
    BY <2>4, <2>5
<1> QED
  BY <1>2, <1>3

\* A lease takes the work out of the queue.
LEMMA AcquireSteady ==
  ASSUME Inv, QueueInv, NEW t \in Actors, AcquireRead(t) \/ AcquireWrite(t)
  PROVE  Steady(t)
<1>1. CASE AcquireRead(t)
  <2>1. UNCHANGED <<row, cal, wake>> /\ pc[t] # "wake" /\ RowsStay
    BY <1>1, RowsStill DEF AcquireRead, tables
  <2>2. CASE Done(t)
    BY <2>1, <2>2, DoneTurn
  <2>3. CASE Goto(t, "acquire_write") /\ Push(t, [my(t) EXCEPT !.r = row[my(t).w]])
    BY <2>1, <2>3, PlainTurn DEF SettledLabels
  <2> QED
    BY <1>1, <2>2, <2>3 DEF AcquireRead
<1>2. CASE AcquireWrite(t)
  <2>1. my(t).w \in Works
    BY <1>2, AtWork DEF AcquireWrite, WorkLabels
  <2> DEFINE a == CHOOSE b \in Fresh : TRUE
  <2>2. /\ row' = [row EXCEPT ![my(t).w] = Acquired(row[my(t).w], my(t).r, a, LeaseUntil)]
        /\ frame' = [frame EXCEPT ![t] = [my(t) EXCEPT !.a = a, !.r = NoRow]]
    BY <1>2 DEF AcquireWrite
  <2> HIDE DEF a
  <2>3. Acquired(row[my(t).w], my(t).r, a, LeaseUntil).state = "dispatching"
    BY DEF Acquired
  <2>4. RowsStay
    BY <2>1, <2>2, <2>3, RowLeaves
  <2>5. pc' = [pc EXCEPT ![t] = "first_check"] /\ UNCHANGED <<cal, wake>> /\ pc[t] # "wake"
    BY <1>2 DEF AcquireWrite
  <2> QED
    BY <2>2, <2>4, <2>5, PlainTurn DEF SettledLabels
<1> QED
  BY <1>1, <1>2

\* Choosing an executor and asking it leaves the rows alone.
LEMMA DispatchSteady ==
  ASSUME Inv, QueueInv, NEW t \in Actors,
         FirstCheck(t) \/ SecondCheck(t) \/ Executor(t) \/ Delivery(t) \/ OpenAsk(t)
  PROVE  Steady(t)
<1>1. UNCHANGED <<row, cal, wake>> /\ pc[t] # "wake"
  BY DEF FirstCheck, SecondCheck, CancelCheck, Executor, Delivery, OpenAsk, tables
<1>2. RowsStay
  BY <1>1, RowsStill
<1>3. ASSUME NEW st \in {"cancelled", "unavailable", "delivered", "failed"},
             CallAttempt(t, Update(st, "none"), "done")
      PROVE  Steady(t)
  <2>1. Update(st, "none").st # "queued"
    BY UpdateNames
  <2> QED
    BY <1>1, <1>2, <1>3, <2>1, CallAttemptTurn
<1>4. ASSUME NEW here, NEW onward \in {"executor", "delivery"}, CancelCheck(t, here, onward)
      PROVE  Steady(t)
  <2>1. \/ CallAttempt(t, Update("cancelled", "none"), "done")
        \/ \E f : Goto(t, onward) /\ Push(t, f)
    BY <1>4 DEF CancelCheck
  <2>2. ASSUME NEW f, Goto(t, onward), Push(t, f) PROVE Steady(t)
    BY <1>1, <1>2, <2>2, PlainTurn DEF SettledLabels
  <2> QED
    BY <1>3, <2>1, <2>2
<1>5. ASSUME NEW p, NEW handle, TakeExecutor(t, p, handle) PROVE Steady(t)
  <2> DEFINE u == [NoUpdate EXCEPT !.peer = p, !.ph = "none", !.handle = handle]
             f == [my(t) EXCEPT !.peer = p, !.after = "second_check",
                     !.late = Cancelled(row[my(t).w]), !.u = u]
  <2>1. u.st # "queued"
    BY DEF NoUpdate
  <2>2. my(t) \in Frames(t)
    BY Here
  <2> HIDE DEF u
  <2>3. f.u = u
    BY <2>2, ZenonT(60) DEF Frames
  <2>4. Goto(t, "attempt_read") /\ Push(t, f)
    BY <1>5 DEF TakeExecutor, u
  <2> HIDE DEF f
  <2> QED
    BY <1>1, <1>2, <2>1, <2>3, <2>4, UpdateTurn
<1>6. CASE Executor(t)
  <2>1. CASE AssignedPeer(t)
    BY <1>5, <2>1 DEF AssignedPeer
  <2>2. CASE ExecutorUnavailable(t)
    BY <1>3, <2>2 DEF ExecutorUnavailable
  <2>3. ASSUME NEW scope \in ProcessScope, ReusePeer(t, scope) PROVE Steady(t)
    BY <1>5, <2>3 DEF ReusePeer
  <2>4. ASSUME NEW scope \in ProcessScope, SpawnPeer(t, scope) PROVE Steady(t)
    BY <1>3, <1>5, <2>4 DEF SpawnPeer
  <2> QED
    BY <1>6, <2>1, <2>2, <2>3, <2>4 DEF Executor
<1>7. CASE Delivery(t)
  <2> DEFINE u == [NoUpdate EXCEPT !.peer = my(t).peer, !.ph = "none"]
  <2>1. u.st # "queued"
    BY DEF NoUpdate
  <2>2. CallAttempt(t, u, "open_ask")
    BY <1>7 DEF Delivery
  <2> HIDE DEF u
  <2> QED
    BY <1>1, <1>2, <2>1, <2>2, CallAttemptTurn
<1>8. CASE OpenAsk(t)
  BY <1>3, <1>8 DEF OpenAsk
<1> QED
  BY <1>4, <1>6, <1>7, <1>8 DEF FirstCheck, SecondCheck

\* So RunJob queues nothing.
LEMMA RunJobSteady ==
  ASSUME Inv, QueueInv, NEW t \in Actors, RunJobStep(t)
  PROVE  Steady(t)
BY AttemptSteady, AcquireSteady, DispatchSteady DEF RunJobStep

\* A client that goes away was not about to wake the loop.
LEMMA ClientGoneSteady ==
  ASSUME Inv, QueueInv, NEW t \in Actors, ClientGone(t)
  PROVE  Steady(t)
<1>1. Settled(pc[t], frame[t], row) /\ my(t).http
  BY DEF QueueInv, ClientGone
<1>2. pc[t] # "wake"
  BY <1>1 DEF Settled
<1>3. UNCHANGED <<row, cal, wake>> /\ Done(t)
  BY DEF ClientGone, tables
<1> QED
  BY <1>2, <1>3, RowsStill, DoneTurn

\* A change of state queues nothing.
LEMMA StateSteady ==
  ASSUME Inv, QueueInv, NEW t \in Actors, StateRead(t) \/ StateWrite(t)
  PROVE  Steady(t)
<1>0. pc[t] \in {"state_read", "state_write"}
  BY DEF StateRead, StateWrite
<1>1. /\ my(t).w \in Works /\ my(t) \in Frames(t) /\ Settled(pc[t], frame[t], row)
      /\ StateCall(my(t))
  <2>1. my(t).w \in Works /\ my(t) \in Frames(t)
    BY <1>0, AtWork, Here DEF WorkLabels
  <2>2. Fits(t, pc[t], my(t))
    BY Here
  <2>3. StateCall(my(t))
    BY <1>0, <2>2 DEF Fits
  <2> QED
    BY <2>1, <2>3 DEF QueueInv
<1>2. my(t).u.st # "queued" /\ pc[t] # "wake" /\ UNCHANGED <<cal, wake>>
  <2>1. my(t).u.st # "queued"
    BY <1>0, <1>1 DEF Settled
  <2> QED
    BY <1>0, <2>1 DEF StateRead, StateWrite, tables
<1>3. my(t).after \notin SettledLabels \cup {"select"} /\ my(t).orelse \notin SettledLabels \cup {"select"}
  BY <1>1 DEF StateCall, SettledLabels
<1>4. CASE StateRead(t)
  <2>1. RowsStay
    BY <1>4, RowsStill DEF StateRead, tables
  <2>2. CASE Goto(t, my(t).orelse) /\ Push(t, [my(t) EXCEPT !.p = NoRow, !.u = NoUpdate])
    BY <1>2, <1>3, <2>1, <2>2, PlainTurn
  <2>3. CASE /\ Goto(t, "state_write")
             /\ Push(t, [my(t) EXCEPT !.p = IF @ = NoRow THEN row[my(t).w] ELSE @])
    <3> DEFINE q == IF my(t).p = NoRow THEN row[my(t).w] ELSE my(t).p
               f == [my(t) EXCEPT !.p = q]
    <3>1. Goto(t, "state_write") /\ Push(t, f)
      BY <2>3
    <3> HIDE DEF q
    <3>2. f.u = my(t).u
      BY <1>1, ZenonT(60) DEF Frames
    <3> HIDE DEF f
    <3> QED
      BY <1>2, <2>1, <3>1, <3>2, UpdateTurn
  <2> QED
    BY <1>4, <2>2, <2>3 DEF StateRead
<1>5. CASE StateWrite(t)
  <2> DEFINE x == StateUpdated(row[my(t).w], my(t).p, my(t).u.st, my(t).u.ph)
  <2>1. x.state = my(t).u.st
    BY DEF StateUpdated
  <2>2. row' = [row EXCEPT ![my(t).w] = x]
    BY <1>5 DEF StateWrite
  <2> HIDE DEF x
  <2>3. RowsStay
    BY <1>1, <1>2, <2>1, <2>2, RowLeaves
  <2>4. Goto(t, my(t).after) /\ Push(t, [my(t) EXCEPT !.p = NoRow, !.u = NoUpdate])
    BY <1>5 DEF StateWrite
  <2> QED
    BY <1>2, <1>3, <2>3, <2>4, PlainTurn
<1> QED
  BY <1>4, <1>5

\* A cancel takes the work out of the queue, and what follows queues nothing.
LEMMA CancelSteady ==
  ASSUME Inv, QueueInv, NEW t \in Actors, CancelRead(t) \/ CancelWrite(t) \/ CancelState(t)
  PROVE  Steady(t)
<1>1. CASE CancelRead(t)
  <2>1. /\ pc' = [pc EXCEPT ![t] = "cancel_write"] /\ UNCHANGED <<row, cal, wake>> /\ pc[t] # "wake"
        /\ frame' = [frame EXCEPT ![t] = [my(t) EXCEPT !.r = row[my(t).w]]]
    BY <1>1 DEF CancelRead, tables
  <2> QED
    BY <2>1, RowsStill, PlainTurn DEF SettledLabels
<1>2. CASE CancelWrite(t)
  <2> DEFINE w == my(t).w
             x == CancelWritten(row[w], my(t).r)
  <2>1. w \in Works /\ UNCHANGED <<cal, wake>> /\ pc[t] # "wake" /\ row' = [row EXCEPT ![w] = x]
    BY <1>2, AtWork DEF CancelWrite, WorkLabels
  <2>2. /\ x.state = "queued" => row[w].state = "queued"
        /\ x.tried = row[w].tried /\ x.handles = row[w].handles /\ x.due = row[w].due
    BY DEF CancelWritten
  <2>3. \A v \in Works : row'[v] = IF v = w THEN x ELSE row[v]
    BY <2>1 DEF Inv, TableTypes
  <2> HIDE DEF x
  <2>4. RowsStay
    BY <2>2, <2>3 DEF RowsStay, QueueInv, RowsUntried, Untried
  <2>5. CASE Goto(t, "cancel_release") /\ Push(t, [my(t) EXCEPT !.r = NoRow])
    BY <2>1, <2>4, <2>5, PlainTurn DEF SettledLabels
  <2>6. CASE Goto(t, "idle") /\ Push(t, NoFrame)
    BY <2>1, <2>4, <2>6, RestTurn
  <2> QED
    BY <1>2, <2>5, <2>6 DEF CancelWrite
<1>3. CASE CancelState(t)
  <2>1. UNCHANGED <<row, cal, wake>> /\ pc[t] # "wake"
    BY <1>3 DEF CancelState, tables
  <2>2. Update("cancelled", "none").st # "queued"
    BY UpdateNames
  <2>3. CallState(t, Update("cancelled", "none"), row[my(t).w], "finish", "finish")
    BY <1>3 DEF CancelState
  <2> QED
    BY <2>1, <2>2, <2>3, RowsStill, CallStateTurn
<1> QED
  BY <1>1, <1>2, <1>3

\* The state written back with a release is terminal, or that of work that was
\* attempted: it has a handle.
LEMMA ReleaseSteady ==
  ASSUME Inv, QueueInv, NEW t \in Actors, MergeRelease(t) \/ CancelRelease(t)
  PROVE  Steady(t)
<1> DEFINE r == row[my(t).w]
<1>1. UNCHANGED <<row, cal, wake>> /\ pc[t] # "wake" /\ my(t).w \in Works /\ my(t) \in Frames(t)
  BY AtRoute DEF MergeRelease, CancelRelease, tables
<1>2. RowsStay
  BY <1>1, RowsStill
<1>3. CASE Goto(t, "idle") /\ Push(t, NoFrame)
  BY <1>1, <1>2, <1>3, RestTurn
<1>4. CASE MergeRelease(t)
  <2>1. \/ Goto(t, "idle") /\ Push(t, NoFrame)
        \/ r.state \in Terminal /\ CallState(t, Update(r.state, r.phase), r, "finish", "finish")
    BY <1>4 DEF MergeRelease
  <2>2. CASE r.state \in Terminal /\ CallState(t, Update(r.state, r.phase), r, "finish", "finish")
    <3>1. Update(r.state, r.phase).st # "queued"
      BY <2>2, UpdateNames DEF Terminal
    <3> QED
      BY <1>1, <1>2, <2>2, <3>1, CallStateTurn
  <2> QED
    BY <1>3, <2>1, <2>2
<1>5. CASE CancelRelease(t)
  <2> DEFINE u == Update("cancelled", "none")
             v == Update(r.state, r.phase)
             c == [my(t) EXCEPT !.a = r.cur, !.p = r, !.u = u, !.after = "finish", !.orelse = "finish"]
             d == [c EXCEPT !.u = v, !.after = "cancel_state", !.orelse = "cancel_state"]
  <2>1. \/ Goto(t, "idle") /\ Push(t, NoFrame)
        \/ HasHandle(r) /\ Goto(t, "state_read") /\ Push(t, d)
        \/ Goto(t, "state_read") /\ Push(t, c)
    BY <1>5 DEF CancelRelease
  <2>2. u.st # "queued" /\ v.st = r.state
    BY UpdateNames
  <2>3. HasHandle(r) => r.state # "queued"
    BY <1>1 DEF HasHandle, Handles, QueueInv, RowsUntried, Untried
  <2> HIDE DEF u, v
  <2>4. c.u = u /\ d.u = v
    BY <1>1, ZenonT(60) DEF Frames
  <2> HIDE DEF c, d
  <2>5. CASE HasHandle(r) /\ Goto(t, "state_read") /\ Push(t, d)
    BY <1>1, <1>2, <2>2, <2>3, <2>4, <2>5, UpdateTurn
  <2>6. CASE Goto(t, "state_read") /\ Push(t, c)
    BY <1>1, <1>2, <2>2, <2>4, <2>6, UpdateTurn
  <2> QED
    BY <1>3, <2>1, <2>5, <2>6
<1> QED
  BY <1>4, <1>5

\* A structural completion queues nothing: it fails or completes its works.
LEMMA CompletionSteady ==
  ASSUME Inv, QueueInv, NEW t \in Actors, CompletionStep(t) \/ Finish(t)
  PROVE  Steady(t)
<1>1. UNCHANGED <<row, cal, wake>> /\ pc[t] # "wake" /\ my(t) \in Frames(t)
  BY Here, ZenonT(40) DEF CompletionStep, ListDelivered, ListRunning, List, Settle, Outcome, CloseAsk, Finish, tables
<1>2. RowsStay
  BY <1>1, RowsStill
<1>3. CASE ListDelivered(t) \/ ListRunning(t)
  <2>1. Goto(t, "settle") /\ \E f : Push(t, f)
    BY <1>3 DEF ListDelivered, ListRunning, List
  <2> QED
    BY <1>1, <1>2, <2>1, PlainTurn DEF SettledLabels
<1>4. CASE Settle(t)
  <2>1. CASE Goto(t, "list_running") /\ UNCHANGED frame
    <3>1. frame' = [frame EXCEPT ![t] = my(t)]
      BY <2>1 DEF Inv, ActorTypes
    <3> QED
      BY <1>1, <1>2, <2>1, <3>1, PlainTurn DEF SettledLabels
  <2>2. CASE Goto(t, "idle") /\ Push(t, NoFrame)
    BY <1>1, <1>2, <2>2, RestTurn
  <2>3. ASSUME NEW x \in my(t).todo, Goto(t, "attempt_read"),
               Push(t, [my(t) EXCEPT !.w = x[1], !.a = x[2], !.todo = @ \ {x}, !.after = "outcome",
                          !.u = Update(IF my(t).result = "failed" THEN "failed" ELSE "", "none")])
        PROVE  Steady(t)
    <3> DEFINE st == IF my(t).result = "failed" THEN "failed" ELSE ""
               u == Update(st, "none")
               f == [my(t) EXCEPT !.w = x[1], !.a = x[2], !.todo = @ \ {x}, !.after = "outcome", !.u = u]
    <3>1. u.st # "queued"
      <4>1. st # "queued"
        OBVIOUS
      <4> HIDE DEF st
      <4> QED
        BY <4>1, UpdateNames
    <3>2. Push(t, f)
      BY <2>3
    <3> HIDE DEF u
    <3>3. f.u = u
      BY <1>1, ZenonT(60) DEF Frames
    <3> HIDE DEF f
    <3> QED
      BY <1>1, <1>2, <2>3, <3>1, <3>2, <3>3, UpdateTurn
  <2> QED
    BY <1>4, <2>1, <2>2, <2>3 DEF Settle
<1>5. CASE Outcome(t)
  <2>1. my(t).result # "queued"
    BY <1>1, FrameFields
  <2>2. Update(my(t).result, "none").st # "queued"
    BY <2>1, UpdateNames
  <2>3. CallState(t, Update(my(t).result, "none"), NoRow, "close_ask", "settle")
    BY <1>5 DEF Outcome
  <2> QED
    BY <1>1, <1>2, <2>2, <2>3, CallStateTurn
<1>6. CASE CloseAsk(t)
  <2>1. Goto(t, "settle") /\ frame' = [frame EXCEPT ![t] = my(t)]
    BY <1>6 DEF CloseAsk, Inv, ActorTypes
  <2> QED
    BY <1>1, <1>2, <2>1, PlainTurn DEF SettledLabels
<1>7. CASE Finish(t)
  BY <1>1, <1>2, <1>7, RestTurn DEF Finish
<1> QED
  BY <1>3, <1>4, <1>5, <1>6, <1>7 DEF CompletionStep

\* The requests and callbacks other than a create queue nothing.
LEMMA RequestSteady ==
  ASSUME Inv, QueueInv, NEW t \in Actors,
         JobRun(t) \/ JobUpdate(t) \/ JobCancel(t) \/ Arm(t) \/ Complete(t) \/ Offline(t) \/ Reconcile(t)
  PROVE  Steady(t)
<1>1. UNCHANGED <<row, cal, wake>> /\ pc[t] # "wake"
  BY DEF JobRun, JobUpdate, JobCancel, Arm, Complete, Offline, Reconcile, tables
<1>2. RowsStay
  BY <1>1, RowsStill
<1>3. CASE JobRun(t) \/ JobCancel(t) \/ Complete(t) \/ Offline(t) \/ Reconcile(t)
  <2>1. \E l \in {"acquire_read", "cancel_read", "settle", "list_delivered"} : \E f : Goto(t, l) /\ Push(t, f)
    BY <1>3, Zenon DEF JobRun, JobCancel, Complete, Offline, Reconcile
  <2> QED
    BY <1>1, <1>2, <2>1, PlainTurn, Zenon DEF SettledLabels
<1>4. ASSUME NEW w, NEW a, NEW u, u.st # "queued", NEW l, NEW m, Goto(t, "state_read"),
             Push(t, [NoFrame EXCEPT !.w = w, !.a = a, !.u = u, !.http = TRUE, !.after = l, !.orelse = m])
      PROVE  Steady(t)
  <2> DEFINE f == [NoFrame EXCEPT !.w = w, !.a = a, !.u = u, !.http = TRUE, !.after = l, !.orelse = m]
  <2>1. f.u = u
    BY DEF NoFrame
  <2>2. Push(t, f)
    BY <1>4
  <2> HIDE DEF f
  <2> QED
    BY <1>1, <1>2, <1>4, <2>1, <2>2, UpdateTurn
<1>5. CASE JobUpdate(t)
  <2>1. PICK x \in asked, u \in Reports :
          Push(t, [NoFrame EXCEPT !.w = x[1], !.a = x[2], !.u = u, !.http = TRUE,
                                  !.after = "merge", !.orelse = "finish"])
    BY <1>5 DEF JobUpdate
  <2>2. u.st # "queued"
    BY UpdateNames DEF Reports
  <2> QED
    BY <1>4, <1>5, <2>1, <2>2 DEF JobUpdate
<1>6. CASE Arm(t)
  <2> DEFINE u == Update("running", "turn_started")
  <2>1. u.st # "queued"
    BY UpdateNames
  <2>2. PICK x \in asked :
          /\ Goto(t, "state_read")
          /\ Push(t, [NoFrame EXCEPT !.w = x[1], !.a = x[2], !.u = u, !.http = TRUE,
                                     !.after = "finish", !.orelse = "finish"])
    BY <1>6 DEF Arm
  <2> HIDE DEF u
  <2> QED
    BY <1>4, <2>1, <2>2
<1> QED
  BY <1>3, <1>5, <1>6

\* The occurrence of a recurring job is inserted untried, over no other row.
LEMMA OccurrenceSettles ==
  ASSUME Inv, QueueInv, NEW w \in Unborn, NEW x, x.state = "queued", Untried(x), row' = [row EXCEPT ![w] = x]
  PROVE  RowsSettle
<1>1. w \in Works /\ ~Born(row[w]) /\ \A v \in Works : row'[v] = IF v = w THEN x ELSE row[v]
  BY DEF Unborn, Born, Inv, TableTypes
<1> QED
  BY <1>1 DEF RowsSettle, QueueInv, RowsUntried

\* Every step of the loop but the computation of its timer keeps the duties and
\* does not end in the wait.
LEMMA LoopQueue ==
  ASSUME Inv, QueueInv,
         Drain \/ Recover \/ RecoverRow \/ CalendarRead \/ Materialize \/ ListDue \/ RunNext \/ Select
  PROVE  QueueInv' /\ pc'[Loop] # "select"
<1>1. Loop \in Actors /\ frame = [frame EXCEPT ![Loop] = my(Loop)] /\ pc = [pc EXCEPT ![Loop] = pc[Loop]]
  BY LoopIsActor DEF Inv, ActorTypes
<1>2. ASSUME RowsSettle, NEW l, l \notin SettledLabels \cup {"select"}, NEW f,
             pc' = [pc EXCEPT ![Loop] = l], frame' = [frame EXCEPT ![Loop] = f]
      PROVE  QueueInv' /\ pc'[Loop] # "select"
  <2>1. Settled(l, f, row')
    BY <1>2, PlainSettled
  <2>2. pc'[Loop] = l
    BY <1>1, <1>2 DEF Inv, ActorTypes
  <2> QED
    BY <1>1, <1>2, <2>1, <2>2, QueueMoved
<1>3. CASE Drain \/ Recover \/ CalendarRead \/ ListDue \/ RunNext \/ Select
  <2>1. RowsSettle
    BY <1>3, RowsStill DEF Drain, Recover, CalendarRead, ListDue, RunNext, Select, tables
  <2>2. \E l \in {"recover", "recover_row", "claim", "list", "run", "deadline", "acquire_read", "drain"} :
          /\ pc' = [pc EXCEPT ![Loop] = l]
          /\ (\E f : frame' = [frame EXCEPT ![Loop] = f]) \/ UNCHANGED frame
    BY <1>3 DEF Drain, Recover, CalendarRead, ListDue, RunNext, Select
  <2> QED
    BY <1>1, <1>2, <2>1, <2>2 DEF SettledLabels
<1>4. CASE RecoverRow
  <2>1. CASE UNCHANGED row /\ Goto(Loop, my(Loop).after) /\ Push(Loop, NoFrame)
    <3>1. my(Loop).after \in {"drain", "calendar"}
      BY <1>1, <1>4, Here DEF RecoverRow, Fits
    <3> QED
      BY <1>2, <2>1, <3>1, RowsStill DEF SettledLabels
  <2>2. ASSUME NEW x \in my(Loop).todo, row' = [row EXCEPT ![x[1]] = Recovered(@, x[2])], UNCHANGED pc,
               Push(Loop, [my(Loop) EXCEPT !.todo = @ \ {x}])
        PROVE  QueueInv' /\ pc'[Loop] # "select"
    <3>1. x[1] \in Works
      BY <1>1, Here
    <3>2. Recovered(row[x[1]], x[2]).state # "queued"
      BY DEF Recovered
    <3>3. RowsSettle
      BY <2>2, <3>1, <3>2, RowLeaves
    <3>4. pc' = [pc EXCEPT ![Loop] = "recover_row"]
      BY <1>1, <1>4, <2>2 DEF RecoverRow
    <3> QED
      BY <1>2, <2>2, <3>3, <3>4 DEF SettledLabels
  <2> QED
    BY <1>4, <2>1, <2>2 DEF RecoverRow
<1>5. CASE Materialize
  <2>1. pc' = [pc EXCEPT ![Loop] = "list"] /\ frame' = [frame EXCEPT ![Loop] = NoFrame]
    BY <1>5 DEF Materialize
  <2>2. RowsSettle
    <3>1. CASE UNCHANGED row
      BY <3>1, RowsStill
    <3>2. ASSUME NEW w \in Unborn, InsertOccurrence(w, my(Loop).time) PROVE RowsSettle
      <4> DEFINE x == NewRow("queued", my(Loop).time)
      <4>1. x.state = "queued" /\ Untried(x)
        BY DEF NewRow, Untried
      <4>2. row' = [row EXCEPT ![w] = x]
        BY <3>2 DEF InsertOccurrence
      <4> HIDE DEF x
      <4> QED
        BY <4>1, <4>2, OccurrenceSettles
    <3> QED
      BY <1>5, <3>1, <3>2 DEF Materialize, tables
  <2> QED
    BY <1>2, <2>1, <2>2 DEF SettledLabels
<1> QED
  BY <1>3, <1>4, <1>5

\* The earliest instant is no later than any other.
LEMMA EarliestLeast ==
  ASSUME NEW S \in SUBSET Nat, NEW x \in S
  PROVE  Earliest(S) <= x
<1>1. PICK y \in S : \A z \in S : ~(<<z, y>> \in OpToRel(<, Nat))
  BY NatLessThanWellFounded, WFMin
<1>2. \A z \in S : ~(z < y)
  BY <1>1 DEF OpToRel
<1>3. \E m \in S : \A z \in S : m <= z
  BY <1>2
<1> QED
  BY <1>3 DEF Earliest

\* The timer the loop computes covers everything in the queue and the calendar.
LEMMA TimerSet ==
  ASSUME Inv, QueueInv, SetTimer
  PROVE  QueueInv' /\ TimerCovers'
<1> DEFINE S == QueuedDeadlines \cup LeaseDeadlines \cup CalendarDeadlines \cup {Never}
           e == Earliest(S)
           f == [NoFrame EXCEPT !.time = e]
<1>1. Time \subseteq Nat /\ Never \in Nat /\ CalendarDeadlines \subseteq Nat
  BY TimeAssumption DEF Time, Never, CalendarDeadlines, Inv, TableTypes
<1>2. \A w \in Works : row[w].due \in Time /\ row[w].lease \in Time
  BY RowFields DEF Inv, TableTypes
<1>3. S \in SUBSET Nat
  BY <1>1, <1>2 DEF QueuedDeadlines, LeaseDeadlines
<1>4. \A x \in S : e <= x
  BY <1>3, EarliestLeast
<1>5. /\ \A w \in Works : row[w].state = "queued" => e <= row[w].due
      /\ cal.state = "active" => e <= cal.next
  BY <1>4 DEF QueuedDeadlines, CalendarDeadlines
<1>6. /\ pc' = [pc EXCEPT ![Loop] = "select"] /\ frame' = [frame EXCEPT ![Loop] = f]
      /\ UNCHANGED <<row, cal>>
  BY DEF SetTimer, tables
<1> HIDE DEF S, e
<1>7. f.time = e
  BY NoFrameTyped, ZenonT(60) DEF Frames
<1> HIDE DEF f
<1>8. frame'[Loop] = f
  BY <1>6, LoopIsActor DEF Inv, ActorTypes
<1>9. TimerCovers'
  BY <1>5, <1>6, <1>7, <1>8 DEF TimerCovers
<1>10. Settled("select", f, row')
  BY PlainSettled DEF SettledLabels
<1> QED
  BY <1>6, <1>9, <1>10, LoopIsActor, RowsStill, QueueMoved

\* A steady turn leaves the loop's timer right.
LEMMA SteadyCovers ==
  ASSUME Inv, TimerCovers, NEW t \in Actors, Steady(t)
  PROVE  TimerCovers'
<1>1. PICK l, f : pc' = [pc EXCEPT ![t] = l] /\ frame' = [frame EXCEPT ![t] = f] /\ l # "select"
  BY DEF Steady
<1>2. \A s \in Actors : pc'[s] = IF s = t THEN l ELSE pc[s]
  BY <1>1 DEF Inv, ActorTypes
<1>3. RowsStay /\ UNCHANGED <<cal, wake>> /\ pc[t] # "wake"
  BY DEF Steady
<1> SUFFICES ASSUME pc'[Loop] = "select" PROVE TimerCovers'
  BY DEF TimerCovers
<1>4. t # Loop /\ pc[Loop] = "select"
  BY <1>1, <1>2, LoopIsActor
<1>5. frame'[Loop] = frame[Loop]
  BY <1>1, <1>4, LoopIsActor DEF Inv, ActorTypes
<1>6. CASE wake
  BY <1>3, <1>6 DEF TimerCovers
<1>7. CASE \E s \in Handlers : At(s, "wake")
  <2>1. PICK s \in Handlers : pc[s] = "wake"
    BY <1>7
  <2>2. pc'[s] = "wake"
    BY <1>2, <1>3, <2>1, HandlerIsActor
  <2> QED
    BY <2>2 DEF TimerCovers
<1>8. CASE /\ \A w \in Works : row[w].state = "queued" => my(Loop).time <= row[w].due
           /\ cal.state = "active" => my(Loop).time <= cal.next
  BY <1>3, <1>5, <1>8 DEF RowsStay, TimerCovers
<1> QED
  BY <1>4, <1>6, <1>7, <1>8 DEF TimerCovers

\* What a request puts into the queue or the calendar it is about to wake for.
LEMMA CreateCovers ==
  ASSUME Inv, QueueInv, NEW t \in Handlers, JobCreate(t) \/ CalendarCreate(t) \/ CalendarCancel(t)
  PROVE  QueueInv' /\ TimerCovers'
<1>1. /\ t \in Actors /\ pc[t] = "idle" /\ pc' = [pc EXCEPT ![t] = "wake"]
      /\ frame' = [frame EXCEPT ![t] = my(t)]
  BY HandlerIsActor DEF JobCreate, CalendarCreate, CalendarCancel, Inv, ActorTypes
<1>2. pc'[t] = "wake"
  BY <1>1 DEF Inv, ActorTypes
<1>3. Settled("wake", my(t), row')
  BY <1>1 DEF QueueInv, Settled
<1>4. RowsSettle
  <2>1. CASE UNCHANGED row
    BY <2>1, RowsStill
  <2>2. CASE JobCreate(t)
    <3>1. PICK w \in Unborn, due \in Time, p \in Assignees :
            row' = [row EXCEPT ![w] = [NewRow("queued", due) EXCEPT !.peer = p]]
      BY <2>2 DEF JobCreate
    <3> DEFINE x == [NewRow("queued", due) EXCEPT !.peer = p]
    <3>2. x.state = "queued" /\ Untried(x)
      BY DEF NewRow, Untried
    <3>3. row' = [row EXCEPT ![w] = x]
      BY <3>1
    <3> HIDE DEF x
    <3> QED
      BY <3>2, <3>3, OccurrenceSettles
  <2> QED
    BY <2>1, <2>2 DEF CalendarCreate, CalendarCancel
<1> QED
  BY <1>1, <1>2, <1>3, <1>4, QueueMoved DEF TimerCovers

\* The token it leaves ends the wait.
LEMMA WakeCovers ==
  ASSUME Inv, QueueInv, NEW t \in Actors, Wake(t)
  PROVE  QueueInv' /\ TimerCovers'
<1>1. /\ pc[t] = "wake" /\ pc' = [pc EXCEPT ![t] = "idle"] /\ frame' = [frame EXCEPT ![t] = my(t)]
      /\ UNCHANGED row /\ wake' = TRUE
  BY DEF Wake, tables, Inv, ActorTypes
<1>2. Settled("idle", my(t), row')
  BY <1>1 DEF QueueInv, Settled
<1> QED
  BY <1>1, <1>2, RowsStill, QueueMoved DEF TimerCovers

\* Every step keeps the duties and the timer.
LEMMA QueueStep ==
  ASSUME Inv, QueueInv, TimerCovers, [Next]_vars
  PROVE  QueueInv' /\ TimerCovers'
<1>1. ASSUME NEW t \in Actors, Steady(t) PROVE QueueInv' /\ TimerCovers'
  BY <1>1, SteadyQueue, SteadyCovers
<1>2. CASE LoopStep
  <2>1. CASE RunJobStep(Loop)
    BY <1>1, <2>1, LoopIsActor, RunJobSteady
  <2>2. CASE SetTimer
    BY <2>2, TimerSet
  <2>3. CASE Drain \/ Recover \/ RecoverRow \/ CalendarRead \/ Materialize \/ ListDue \/ RunNext \/ Select
    BY <2>3, LoopQueue DEF TimerCovers
  <2> QED
    BY <1>2, <2>1, <2>2, <2>3 DEF LoopStep
<1>3. CASE Tick \/ UNCHANGED vars
  <2>1. UNCHANGED <<row, cal, wake, pc, frame>>
    BY <1>3 DEF Tick, vars, tables
  <2> QED
    BY <2>1 DEF QueueInv, RowsUntried, TimerCovers
<1>4. CASE Crash
  <2>1. /\ UNCHANGED row /\ \A t \in Actors : frame'[t] = NoFrame
        /\ \A t \in Actors : pc'[t] = IF t = Loop THEN "start" ELSE "idle"
    BY <1>4 DEF Crash, tables
  <2>2. NoFrame.http = FALSE
    BY DEF NoFrame
  <2>3. \A t \in Actors : Settled(pc'[t], frame'[t], row')
    BY <2>1, <2>2 DEF Settled
  <2>4. pc'[Loop] # "select"
    BY <2>1, LoopIsActor
  <2> QED
    BY <2>1, <2>3, <2>4 DEF QueueInv, RowsUntried, TimerCovers
<1>5. ASSUME NEW t \in Handlers, Request(t) \/ HandlerStep(t) \/ ClientGone(t)
      PROVE  QueueInv' /\ TimerCovers'
  <2>1. t \in Actors
    BY HandlerIsActor
  <2>2. CASE JobCreate(t) \/ CalendarCreate(t) \/ CalendarCancel(t)
    BY <2>2, CreateCovers
  <2>3. CASE Wake(t)
    BY <2>1, <2>3, WakeCovers
  <2>4. CASE JobRun(t) \/ JobUpdate(t) \/ JobCancel(t) \/ Arm(t) \/ Complete(t) \/ Offline(t) \/ Reconcile(t)
    BY <1>1, <2>1, <2>4, RequestSteady
  <2>5. CASE RunJobStep(t)
    BY <1>1, <2>1, <2>5, RunJobSteady
  <2>6. CASE StateRead(t) \/ StateWrite(t)
    BY <1>1, <2>1, <2>6, StateSteady
  <2>7. CASE MergeRelease(t) \/ CancelRelease(t)
    BY <1>1, <2>1, <2>7, ReleaseSteady
  <2>8. CASE CancelRead(t) \/ CancelWrite(t) \/ CancelState(t)
    BY <1>1, <2>1, <2>8, CancelSteady
  <2>9. CASE CompletionStep(t) \/ Finish(t)
    BY <1>1, <2>1, <2>9, CompletionSteady
  <2>10. CASE ClientGone(t)
    BY <1>1, <2>1, <2>10, ClientGoneSteady
  <2> QED
    BY <1>5, <2>2, <2>3, <2>4, <2>5, <2>6, <2>7, <2>8, <2>9, <2>10 DEF Request, HandlerStep, RouteStep
<1> QED
  BY <1>2, <1>3, <1>4, <1>5 DEF Next

\* While the loop waits, its timer ends no later than the next queued work and
\* the next occurrence are due, or a token or a request that is about to leave
\* one ends the wait: a create that races the computation of the timer is not
\* slept through, no write of a stale row puts work back into the queue behind
\* the timer, and a restart computes it anew.
THEOREM TimersCover == Spec => []TimerCovers
<1>1. Init => QueueInv /\ TimerCovers
  <2> SUFFICES ASSUME Init PROVE QueueInv /\ TimerCovers
    OBVIOUS
  <2>1. /\ \A w \in Works : row[w].state = "unborn"
        /\ \A t \in Actors : frame[t] = NoFrame
        /\ \A t \in Actors : pc[t] = IF t = Loop THEN "start" ELSE "idle"
    BY NoRowTyped DEF Init
  <2>2. NoFrame.http = FALSE
    BY DEF NoFrame
  <2>3. \A t \in Actors : Settled(pc[t], frame[t], row)
    BY <2>1, <2>2 DEF Settled
  <2>4. pc[Loop] # "select"
    BY <2>1, LoopIsActor
  <2> QED
    BY <2>1, <2>3, <2>4 DEF QueueInv, RowsUntried, TimerCovers
<1>2. Inv /\ QueueInv /\ TimerCovers /\ [Next]_vars => QueueInv' /\ TimerCovers'
  BY QueueStep
<1> QED
  BY <1>1, <1>2, StacksAgree, PTL DEF Spec

=============================================================================
