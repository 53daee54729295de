----------------------------- MODULE WorkStore -----------------------------
(***************************************************************************)
(* The rows of tracked_work (daemon-go/state/work.go and work_runner.go)   *)
(* as records, and each store operation as the row it leaves behind.       *)
(*                                                                         *)
(* No operation runs in a transaction: it reads a row r with GetWork and   *)
(* later writes a fixed list of columns over whatever the table holds by   *)
(* then, db.  So every operator here takes both.  The columns only a       *)
(* listing shows (title, progress, results, errors, times) are left out,   *)
(* and the correlation id, by which completion closes the ask.             *)
(***************************************************************************)
EXTENDS Naturals, FiniteSets

CONSTANTS
  Works,      \* work ids
  Attempts,   \* attempt ids
  Peers,      \* executors
  NoPeer, NoAttempt,
  MaxTime     \* the last instant of the clock; it stands for every later one

ASSUME NullAssumption == NoPeer \notin Peers /\ NoAttempt \notin Attempts
ASSUME TimeAssumption == MaxTime \in Nat

Time == 0 .. MaxTime

Terminal == {"completed", "failed", "cancelled", "unavailable"}
WorkState == Terminal \cup {"queued", "dispatching", "delivered", "running"}
Phase == {"none", "turn_started"}

\* cur, tried, lease and handles are provenance.runner: the current attempt,
\* the attempts recorded, the lease, and the release_handle of each attempt.
Row == [state : WorkState \cup {"unborn"}, phase : Phase, cancel : BOOLEAN,
        peer : Peers \cup {NoPeer}, due : Time,
        cur : Attempts \cup {NoAttempt}, tried : SUBSET Attempts,
        lease : Time, handles : SUBSET (Attempts \X Peers)]

NewRow(state, due) ==
  [state |-> state, phase |-> "none", cancel |-> FALSE, peer |-> NoPeer,
   due |-> due, cur |-> NoAttempt, tried |-> {},
   lease |-> 0, handles |-> {}]
NoRow == NewRow("unborn", 0)

(***************************************************************************)
(* AcquireForDispatch                                                      *)
(***************************************************************************)
\* The one test of a cancel request, made at acquisition and twice in dispatch.
Cancelled(r) == r.cancel

Acquirable(r, retry, ignoreDue, now) ==
  /\ r.state \in {"failed", "unavailable"} \cup
                 {IF retry THEN "delivered" ELSE "queued"}
  /\ ~Cancelled(r)
  /\ ignoreDue \/ r.due <= now

Acquired(db, r, a, lease) ==
  [state |-> "dispatching", phase |-> "none", cancel |-> db.cancel,
   peer |-> r.peer, due |-> db.due,
   cur |-> a, tried |-> r.tried \cup {a}, lease |-> lease, handles |-> r.handles]

(***************************************************************************)
(* UpdateAttempt: u names the cascaded state ("" keeps it), the phase, the *)
(* peer and whether a release handle is recorded.  An attempt the row has  *)
(* lost is not an error and changes nothing.                               *)
(***************************************************************************)
Keep(new, null, old) == IF new = null THEN old ELSE new

AttemptUpdated(db, r, a, u) ==
  LET handles == IF u.handle THEN r.handles \cup {<<a, u.peer>>} ELSE r.handles
  IN  IF a \notin r.tried THEN db
      ELSE IF a # r.cur
      THEN [state |-> db.state, phase |-> db.phase, cancel |-> db.cancel,
            peer |-> db.peer, due |-> db.due,
            cur |-> r.cur, tried |-> r.tried, lease |-> r.lease, handles |-> handles]
      ELSE [state |-> Keep(u.st, "", r.state), phase |-> Keep(u.ph, "", r.phase),
            cancel |-> db.cancel, peer |-> Keep(u.peer, NoPeer, r.peer),
            due |-> db.due,
            cur |-> r.cur, tried |-> r.tried, lease |-> r.lease, handles |-> handles]

(***************************************************************************)
(* UpdateWorkState: the attempt guard, the terminal rule, and the write.   *)
(* The provenance written is that of p, r itself unless the caller brings  *)
(* its own.                                                                *)
(***************************************************************************)
StateRefused(r, st, a) ==
  \/ r.cur # NoAttempt /\ st \in {"completed", "failed", "cancelled"} /\ a # r.cur
  \/ r.state \in Terminal /\ st # r.state

StateUpdated(db, p, st, ph) ==
  [state |-> st, phase |-> ph, cancel |-> db.cancel,
   peer |-> db.peer, due |-> db.due,
   cur |-> p.cur, tried |-> p.tried, lease |-> p.lease, handles |-> p.handles]

\* CancelWork: queued work is cancelled, any other is only flagged.
CancelWritten(db, r) ==
  [state |-> IF r.state = "queued" THEN "cancelled" ELSE db.state,
   phase |-> db.phase, cancel |-> TRUE,
   peer |-> db.peer, due |-> db.due,
   cur |-> db.cur, tried |-> db.tried, lease |-> db.lease, handles |-> db.handles]

\* RecoverStaleDispatching, for one row of its listing.
Stale(r, now) == r.state = "dispatching" /\ r.lease <= now

\* The reason is stored where the state belongs.
RecoveredReason(db, r) ==
  [state |-> "runner_interrupted", phase |-> "none", cancel |-> db.cancel,
   peer |-> r.peer, due |-> db.due,
   cur |-> r.cur, tried |-> r.tried, lease |-> r.lease, handles |-> r.handles]
Recovered(db, r) ==
  [state |-> "unavailable", phase |-> "none", cancel |-> db.cancel,
   peer |-> r.peer, due |-> db.due,
   cur |-> r.cur, tried |-> r.tried, lease |-> r.lease, handles |-> r.handles]
=============================================================================
