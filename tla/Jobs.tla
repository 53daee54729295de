------------------------------- MODULE Jobs -------------------------------
(***************************************************************************)
(* Durable jobs: the runner loop of service/job_runner.go, the routes of   *)
(* hub/routes_work.go, structural completion (service/job_completion.go)   *)
(* and the recurring templates of state/calendar.go, all working on the    *)
(* rows of WorkStore.                                                      *)
(*                                                                         *)
(* The loop and the requests are actors; every access to the database is a *)
(* step of its own, so a row may change between the read and the write of  *)
(* one store operation.  An actor keeps in frame what its goroutine has on *)
(* the stack.  SQL errors, and the executor's side of a turn, are left out.*)
(*                                                                         *)
(* Crash is a kill of the daemon: the table and the executors survive it.  *)
(***************************************************************************)
EXTENDS WorkStore

CONSTANTS
  Loop,       \* the runner's goroutine
  Handlers,   \* concurrent requests and callbacks
  LeaseLen,   \* jobLeaseSeconds
  MaxCrash,   \* how often the daemon may be killed
  MaxManual,  \* how often a job is run or retried by hand
  NoWork,
  Loads       \* the sets of requests and callbacks that occur together

ASSUME ActorAssumption == Loop \notin Handlers /\ NoWork \notin Works
ASSUME LeaseAssumption == LeaseLen \in Nat \ {0}
ASSUME BoundAssumption == MaxCrash \in Nat /\ MaxManual \in Nat
\* The loop acquires a work at most once, so it never lacks a fresh attempt.
ASSUME AttemptAssumption == Cardinality(Attempts) >= Cardinality(Works) + MaxManual

Actors == {Loop} \cup Handlers

VARIABLES
  row,       \* tracked_work
  cal,       \* one row of calendar_entries: state, next_due_at, last occurrence
  clock,
  up,        \* the executors registered and not offline
  asked,     \* the asks opened: work, attempt and executor
  wake,      \* the one-slot wake channel
  pc, frame,
  reconcile, \* ReconcileInflight is still to run
  crashes, manual,
  load,      \* the kinds of requests and callbacks of this behaviour
  abandoned  \* history: attempts whose request was cut off by its client

tables == <<row, cal>>
execs == <<up, asked>>
bounds == <<clock, reconcile, crashes, manual>>
trail == <<load, abandoned>>
vars == <<tables, execs, bounds, trail, wake, pc, frame>>

-----------------------------------------------------------------------------
(* An actor's stack: the work and attempt it is about, the row it last read, *)
(* the update it is making and where it goes on, the rows still to handle.   *)

NoUpdate == [st |-> "", ph |-> "", peer |-> NoPeer, handle |-> FALSE]
Update(st, ph) == [NoUpdate EXCEPT !.st = st, !.ph = ph]

NoFrame == [w |-> NoWork, a |-> NoAttempt, r |-> NoRow, p |-> NoRow, u |-> NoUpdate,
            peer |-> NoPeer, retry |-> FALSE, force |-> FALSE, http |-> FALSE,
            inflight |-> FALSE, late |-> FALSE, result |-> "", after |-> "", orelse |-> "", todo |-> {}, who |-> {}, list |-> "",
            time |-> 0]

my(t) == frame[t]
At(t, l) == pc[t] = l
Goto(t, l) == pc' = [pc EXCEPT ![t] = l]
Push(t, fr) == frame' = [frame EXCEPT ![t] = fr]

\* RunJob is over: the loop takes the next row of its listing, a request ends.
Done(t) ==
  /\ Goto(t, IF t = Loop THEN "run" ELSE "idle")
  /\ Push(t, [NoFrame EXCEPT !.todo = my(t).todo])

\* UpdateAttempt and UpdateWorkState as calls: u is applied, then the actor
\* goes on at l, or at m when the update is refused.  The provenance written
\* is that of p, or of the row read when p is no row.
CallAttempt(t, u, l) ==
  Goto(t, "attempt_read") /\ Push(t, [my(t) EXCEPT !.u = u, !.after = l])
CallState(t, u, p, l, m) ==
  /\ Goto(t, "state_read")
  /\ Push(t, [my(t) EXCEPT !.u = u, !.p = p, !.after = l, !.orelse = m])

-----------------------------------------------------------------------------
(* Store calls *)

AttemptRead(t) ==
  /\ At(t, "attempt_read")
  /\ Goto(t, "attempt_write")
  /\ Push(t, [my(t) EXCEPT !.r = row[my(t).w]])
  /\ UNCHANGED <<tables, execs, bounds, trail, wake>>

AttemptWrite(t) ==
  /\ At(t, "attempt_write")
  /\ row' = [row EXCEPT ![my(t).w] = AttemptUpdated(@, my(t).r, my(t).a, my(t).u)]
  /\ IF my(t).after = "done" THEN Done(t)
     ELSE Goto(t, my(t).after) /\ Push(t, [my(t) EXCEPT !.r = NoRow, !.u = NoUpdate])
  /\ UNCHANGED <<cal, execs, bounds, trail, wake>>

StateRead(t) ==
  /\ At(t, "state_read")
  /\ LET r == row[my(t).w] IN
     IF StateRefused(r, my(t).u.st, my(t).a)
     THEN Goto(t, my(t).orelse) /\ Push(t, [my(t) EXCEPT !.p = NoRow, !.u = NoUpdate])
     ELSE Goto(t, "state_write") /\ Push(t, [my(t) EXCEPT !.p = IF @ = NoRow THEN r ELSE @])
  /\ UNCHANGED <<tables, execs, bounds, trail, wake>>

StateWrite(t) ==
  /\ At(t, "state_write")
  /\ row' = [row EXCEPT ![my(t).w] = StateUpdated(@, my(t).p, my(t).u.st, my(t).u.ph)]
  /\ Goto(t, my(t).after)
  /\ Push(t, [my(t) EXCEPT !.p = NoRow, !.u = NoUpdate])
  /\ UNCHANGED <<cal, execs, bounds, trail, wake>>

-----------------------------------------------------------------------------
(* RunJob and dispatch *)

AcquireRead(t) ==
  /\ At(t, "acquire_read")
  /\ LET r == row[my(t).w] IN
     IF Acquirable(r, my(t).retry, my(t).force, clock)
     THEN Goto(t, "acquire_write") /\ Push(t, [my(t) EXCEPT !.r = r])
     ELSE Done(t)
  /\ UNCHANGED <<tables, execs, bounds, trail, wake>>

\* newID is fresh: no row, no goroutine and no prompt holds the attempt.
Used == UNION {row[w].tried : w \in Works} \cup {my(t).a : t \in Actors}
        \cup {x[2] : x \in asked} \cup abandoned

LeaseUntil == IF clock + LeaseLen < MaxTime THEN clock + LeaseLen ELSE MaxTime

Fresh == Attempts \ Used

AcquireWrite(t) ==
  /\ At(t, "acquire_write") /\ Fresh # {}
  /\ LET a == CHOOSE b \in Fresh : TRUE IN
     /\ row' = [row EXCEPT ![my(t).w] = Acquired(@, my(t).r, a, LeaseUntil)]
     /\ Push(t, [my(t) EXCEPT !.a = a, !.r = NoRow])
  /\ Goto(t, "first_check")
  /\ UNCHANGED <<cal, execs, bounds, trail, wake>>

\* dispatch reads the row again before it takes an executor and before it asks.
CancelCheck(t, here, onward) ==
  /\ At(t, here)
  /\ IF Cancelled(row[my(t).w])
     THEN CallAttempt(t, Update("cancelled", "none"), "done")
     ELSE Goto(t, onward) /\ Push(t, [my(t) EXCEPT !.peer = IF @ = NoPeer THEN row[my(t).w].peer ELSE @])
  /\ UNCHANGED <<tables, execs, bounds, trail, wake>>
\* The executor is there: the row is not looked at again.
SecondCheckSkipped(t) ==
  /\ At(t, "second_check") /\ Goto(t, "delivery")
  /\ UNCHANGED <<tables, execs, bounds, trail, wake, frame>>
FirstCheck(t) == CancelCheck(t, "first_check", "executor")
SecondCheck(t) == CancelCheck(t, "second_check", "delivery")

\* An executor was acquired: it and its handle are recorded on the attempt.
TakeExecutor(t, p, handle) ==
  /\ Goto(t, "attempt_read")
  /\ Push(t, [my(t) EXCEPT !.peer = p, !.after = "second_check",
                !.late = Cancelled(row[my(t).w]),
                !.u = [NoUpdate EXCEPT !.peer = p, !.ph = "none", !.handle = handle]])

\* The ladder of AcquireExecutorForWork: the peer the row names, or none.
AssignedPeer(t) ==
  /\ my(t).peer \in up
  /\ TakeExecutor(t, my(t).peer, FALSE)
  /\ UNCHANGED up

\* executionPolicy: a request may keep its process, or have one per fire.
ProcessScope == {"persistent", "per_fire"}

\* A live peer of the same path, backend and circle.
ReusePeer(t, scope) ==
  /\ my(t).peer = NoPeer /\ scope = "persistent"
  /\ \E p \in up : TakeExecutor(t, p, FALSE)
  /\ UNCHANGED up

\* The spawned process p is found by its pane, or else as a peer of its target,
\* which may be another one.
AwaitSpawnedPeer(p, hasPane) == IF hasPane THEN {p} ELSE up \cup {p}

\* releaseHandleForPeer: a process of one fire is ended through its pane.
ReleaseHandle(scope, hasPane) == scope = "per_fire" /\ hasPane

\* A new process, started or resumed, that registers within the timeout.  A
\* process of one fire that could not be released is not used.
SpawnPeer(t, scope) ==
  /\ my(t).peer = NoPeer
  /\ \E p \in Peers \ up, hasPane \in BOOLEAN :
       /\ up' = up \cup {p}
       /\ IF scope = "per_fire" /\ ~ReleaseHandle(scope, hasPane)
          THEN CallAttempt(t, Update("unavailable", "none"), "done")
          ELSE \E q \in AwaitSpawnedPeer(p, hasPane) :
                 TakeExecutor(t, q, ReleaseHandle(scope, hasPane))

\* The assigned peer is gone, or nothing was spawned or registered in time.
ExecutorUnavailable(t) ==
  /\ my(t).peer \notin up
  /\ CallAttempt(t, Update("unavailable", "none"), "done")
  /\ UNCHANGED up

Executor(t) ==
  /\ At(t, "executor")
  /\ \/ AssignedPeer(t) \/ ExecutorUnavailable(t)
     \/ \E scope \in ProcessScope : ReusePeer(t, scope) \/ SpawnPeer(t, scope)
  /\ UNCHANGED <<tables, asked, bounds, trail, wake>>

\* The assignment is recorded once more, with the delivery phase.
Delivery(t) ==
  /\ At(t, "delivery")
  /\ CallAttempt(t, [NoUpdate EXCEPT !.peer = my(t).peer, !.ph = "none"], "open_ask")
  /\ UNCHANGED <<tables, execs, bounds, trail, wake>>

\* OpenScheduledAsk to the executor.
OpenAsk(t) ==
  /\ At(t, "open_ask")
  /\ \/ /\ my(t).peer \in up
        /\ asked' = asked \cup {<<my(t).w, my(t).a, my(t).peer>>}
        /\ CallAttempt(t, Update("delivered", "none"), "done")
     \/ /\ CallAttempt(t, Update("failed", "none"), "done")
        /\ UNCHANGED asked
  /\ UNCHANGED <<tables, up, bounds, trail, wake>>

\* The context of every route is its request's: when the client goes away each
\* later call fails and nothing more is written.
ClientGone(t) ==
  /\ my(t).http
  /\ abandoned' = IF my(t).force THEN abandoned \cup ({my(t).a} \ {NoAttempt}) ELSE abandoned
  /\ Done(t)
  /\ UNCHANGED <<tables, execs, bounds, load, wake>>

RunJobStep(t) ==
  \/ AttemptRead(t) \/ AttemptWrite(t)
  \/ AcquireRead(t) \/ AcquireWrite(t) \/ FirstCheck(t) \/ SecondCheck(t)
  \/ Executor(t) \/ Delivery(t) \/ OpenAsk(t)

-----------------------------------------------------------------------------
(* The loop *)

Drain ==
  /\ At(Loop, "drain") /\ Goto(Loop, "recover")
  /\ wake' = FALSE
  /\ UNCHANGED <<tables, execs, bounds, trail, frame>>

\* RecoverStaleDispatching lists, then writes row by row what it listed.  Start
\* runs it once before the loop begins.
Recover ==
  /\ At(Loop, "start") \/ At(Loop, "recover")
  /\ Goto(Loop, "recover_row")
  /\ Push(Loop, [NoFrame EXCEPT
       !.todo = {<<w, row[w]>> : w \in {v \in Works : Stale(row[v], clock)}},
       !.after = IF At(Loop, "start") THEN "drain" ELSE "calendar"])
  /\ UNCHANGED <<tables, execs, bounds, trail, wake>>

RecoverRow ==
  /\ At(Loop, "recover_row")
  /\ \/ /\ my(Loop).todo = {}
        /\ Goto(Loop, my(Loop).after) /\ Push(Loop, NoFrame)
        /\ UNCHANGED row
     \/ \E x \in my(Loop).todo :
          /\ row' = [row EXCEPT ![x[1]] = Recovered(@, x[2])]
          /\ Push(Loop, [my(Loop) EXCEPT !.todo = @ \ {x}])
          /\ UNCHANGED pc
  /\ UNCHANGED <<cal, execs, bounds, trail, wake>>

\* MaterializeDue reads the entry, then claims its due time and inserts the
\* occurrence in one transaction.  The cron of the model fires at every instant.
CalendarRead ==
  /\ At(Loop, "calendar")
  /\ IF cal.state = "active" /\ cal.next <= clock
     THEN Goto(Loop, "claim") /\ Push(Loop, [NoFrame EXCEPT !.time = cal.next])
     ELSE Goto(Loop, "list") /\ UNCHANGED frame
  /\ UNCHANGED <<tables, execs, bounds, trail, wake>>

Unborn == {w \in Works : row[w].state = "unborn"}
NextFireAfter(now) == now + 1

\* The claim's UPDATE tests the due time it read and the state, so an entry
\* cancelled after the read fires no more.
Claims(due) == cal.next = due /\ cal.state = "active"

\* The insert is a statement of its own, after the claim has been committed.
InsertMayFail(w, due) == row' \in {row, [row EXCEPT ![w] = NewRow("queued", due)]}
InsertOccurrence(w, due) == row' = [row EXCEPT ![w] = NewRow("queued", due)]

\* A claim that matches nothing is rolled back.  The loop wakes itself for what
\* it has materialized.
Materialize ==
  /\ At(Loop, "claim") /\ Goto(Loop, "list") /\ Push(Loop, NoFrame)
  /\ \/ /\ Claims(my(Loop).time)
        /\ \E w \in Unborn :
             /\ cal' = [cal EXCEPT !.next = NextFireAfter(clock), !.last = w]
             /\ InsertOccurrence(w, my(Loop).time)
        /\ wake' = TRUE
     \/ /\ ~Claims(my(Loop).time) \/ Unborn = {}
        /\ UNCHANGED <<tables, wake>>
  /\ UNCHANGED <<execs, bounds, trail>>

\* runDueOnce
ListDue ==
  /\ At(Loop, "list") /\ Goto(Loop, "run")
  /\ Push(Loop, [NoFrame EXCEPT !.todo =
       {<<w, NoRow>> : w \in {v \in Works : row[v].state = "queued" /\ row[v].due <= clock}}])
  /\ UNCHANGED <<tables, execs, bounds, trail, wake>>

RunNext ==
  /\ At(Loop, "run")
  /\ \/ /\ my(Loop).todo = {} /\ Goto(Loop, "deadline") /\ UNCHANGED frame
     \/ \E x \in my(Loop).todo :
          /\ Goto(Loop, "acquire_read")
          /\ Push(Loop, [NoFrame EXCEPT !.w = x[1], !.todo = my(Loop).todo \ {x}])
  /\ UNCHANGED <<tables, execs, bounds, trail, wake>>

\* secondsUntilNextDeadline.  Never is a wait without a timer.
Never == MaxTime + 2
QueuedDeadlines == {row[w].due : w \in {v \in Works : row[v].state = "queued"}}
LeasesForgotten == {}
LeaseDeadlines == {row[w].lease : w \in {v \in Works : row[v].state = "dispatching"}}
CalendarDeadlines == IF cal.state = "active" THEN {cal.next} ELSE {}

Earliest(S) == CHOOSE x \in S : \A y \in S : x <= y

SetTimer ==
  /\ At(Loop, "deadline") /\ Goto(Loop, "select")
  /\ Push(Loop, [NoFrame EXCEPT !.time =
       Earliest(QueuedDeadlines \cup LeaseDeadlines \cup CalendarDeadlines \cup {Never})])
  /\ UNCHANGED <<tables, execs, bounds, trail, wake>>

Select ==
  /\ At(Loop, "select") /\ Goto(Loop, "drain") /\ Push(Loop, NoFrame)
  /\ \/ wake /\ wake' = FALSE
     \/ my(Loop).time <= clock /\ UNCHANGED wake
  /\ UNCHANGED <<tables, execs, bounds, trail>>

LoopStep ==
  \/ RunJobStep(Loop)
  \/ Drain \/ Recover \/ RecoverRow \/ CalendarRead \/ Materialize
  \/ ListDue \/ RunNext \/ SetTimer \/ Select

-----------------------------------------------------------------------------
(* Routes *)

\* A job may name its executor.
Assignees == {NoPeer} \cup (IF "assign" \in load THEN Peers ELSE {})

\* POST /jobs, one-shot or recurring: the row is inserted, then the loop woken.
JobCreate(t) ==
  /\ At(t, "idle") /\ Goto(t, "wake")
  /\ \E w \in Unborn, due \in Time, p \in Assignees :
       row' = [row EXCEPT ![w] = [NewRow("queued", due) EXCEPT !.peer = p]]
  /\ UNCHANGED <<cal, execs, bounds, trail, wake, frame>>

CalendarCreate(t) ==
  /\ At(t, "idle") /\ Goto(t, "wake")
  /\ cal.state = "absent"
  /\ cal' = [cal EXCEPT !.state = "active", !.next = NextFireAfter(clock)]
  /\ UNCHANGED <<row, execs, bounds, trail, wake, frame>>

\* DELETE /jobs/cal-*
CalendarCancel(t) ==
  /\ At(t, "idle") /\ Goto(t, "wake")
  /\ cal.state = "active"
  /\ cal' = [cal EXCEPT !.state = "cancelled"]
  /\ UNCHANGED <<row, execs, bounds, trail, wake, frame>>

\* A send to a full channel is dropped: the token in it is enough.
WakeLost(t) ==
  /\ At(t, "wake") /\ Goto(t, "idle")
  /\ UNCHANGED <<tables, execs, bounds, trail, wake, frame>>
Wake(t) ==
  /\ At(t, "wake") /\ Goto(t, "idle")
  /\ wake' = TRUE
  /\ UNCHANGED <<tables, execs, bounds, trail, frame>>

\* POST /jobs/{id}/run and /retry, after a look at the state.
JobRun(t) ==
  /\ At(t, "idle") /\ Goto(t, "acquire_read")
  /\ manual < MaxManual /\ manual' = manual + 1
  /\ \E w \in Works, retry \in BOOLEAN :
       /\ row[w].state \in {"failed", "unavailable"} \cup
                           {IF retry THEN "delivered" ELSE "queued"}
       /\ Push(t, [NoFrame EXCEPT !.w = w, !.retry = retry, !.force = TRUE, !.http = TRUE])
  /\ UNCHANGED <<tables, execs, clock, reconcile, crashes, trail, wake>>

\* PATCH /jobs/{id}: what executors report, with or without the attempt.
Reports == {Update("running", "none"), Update("completed", "none"), Update("failed", "none")}
JobUpdate(t) ==
  /\ At(t, "idle") /\ Goto(t, "state_read")
  /\ \E x \in asked, u \in Reports :
       Push(t, [NoFrame EXCEPT !.w = x[1], !.a = x[2], !.u = u, !.http = TRUE,
                               !.after = "merge", !.orelse = "finish"])
  /\ UNCHANGED <<tables, execs, bounds, trail, wake>>

\* ReleaseExecutorForWork unregisters the executor named by the handle of the
\* current attempt.
Handles(r) == {x \in r.handles : x[1] = r.cur}
HasHandle(r) == Handles(r) # {}
Released(r) == up \ {x[2] : x \in Handles(r)}

\* releaseIfTerminal, and mergeReleaseResult, which writes the state back.
MergeRelease(t) ==
  /\ At(t, "merge")
  /\ LET r == row[my(t).w] IN
     /\ up' = IF r.state \in Terminal THEN Released(r) ELSE up
     /\ IF r.state \in Terminal /\ HasHandle(r)
        THEN CallState(t, Update(r.state, r.phase), r, "finish", "finish")
        ELSE Goto(t, "idle") /\ Push(t, NoFrame)
  /\ UNCHANGED <<tables, asked, bounds, trail, wake>>

Finish(t) ==
  /\ At(t, "finish") /\ Goto(t, "idle") /\ Push(t, NoFrame)
  /\ UNCHANGED <<tables, execs, bounds, trail, wake>>

\* DELETE /jobs/{id}: the route's own look at the row, then CancelWork.
JobCancel(t) ==
  /\ At(t, "idle") /\ Goto(t, "cancel_read")
  /\ \E w \in Works \ Unborn :
       Push(t, [NoFrame EXCEPT !.w = w, !.http = TRUE,
                  !.inflight = row[w].state \notin Terminal \cup {"queued"}])
  /\ UNCHANGED <<tables, execs, bounds, trail, wake>>

CancelRead(t) ==
  /\ At(t, "cancel_read") /\ Goto(t, "cancel_write")
  /\ Push(t, [my(t) EXCEPT !.r = row[my(t).w]])
  /\ UNCHANGED <<tables, execs, bounds, trail, wake>>

CancelWrite(t) ==
  /\ At(t, "cancel_write")
  /\ row' = [row EXCEPT ![my(t).w] = CancelWritten(@, my(t).r)]
  /\ IF my(t).inflight THEN Goto(t, "cancel_release") /\ Push(t, [my(t) EXCEPT !.r = NoRow])
     ELSE Goto(t, "idle") /\ Push(t, NoFrame)
  /\ UNCHANGED <<cal, execs, bounds, trail, wake>>

\* Work that was in flight is released, the result merged into the row in the
\* state it had, and then the row set to cancelled.
CancelRelease(t) ==
  /\ At(t, "cancel_release")
  /\ LET r == row[my(t).w]
         cancelled == [my(t) EXCEPT !.a = r.cur, !.p = r,
                         !.u = Update("cancelled", "none"), !.after = "finish", !.orelse = "finish"]
     IN  /\ up' = Released(r)
         /\ \/ /\ r.cur = NoAttempt
               /\ Goto(t, "idle") /\ Push(t, NoFrame)
            \/ /\ HasHandle(r)
               /\ Goto(t, "state_read")
               /\ Push(t, [cancelled EXCEPT !.u = Update(r.state, r.phase),
                             !.after = "cancel_state", !.orelse = "cancel_state"])
            \/ /\ r.cur # NoAttempt /\ ~HasHandle(r)
               /\ Goto(t, "state_read") /\ Push(t, cancelled)
  /\ UNCHANGED <<tables, asked, bounds, trail, wake>>

CancelState(t) ==
  /\ At(t, "cancel_state")
  /\ CallState(t, Update("cancelled", "none"), row[my(t).w], "finish", "finish")
  /\ UNCHANGED <<tables, execs, bounds, trail, wake>>

RouteStep(t) ==
  \/ RunJobStep(t) \/ StateRead(t) \/ StateWrite(t) \/ Wake(t)
  \/ MergeRelease(t) \/ Finish(t)
  \/ CancelRead(t) \/ CancelWrite(t) \/ CancelRelease(t) \/ CancelState(t)

-----------------------------------------------------------------------------
(* JobCompletion *)

\* A user turn that carries the markers of an ask arms the work.
Arm(t) ==
  /\ At(t, "idle")
  /\ \E x \in asked :
       /\ x[3] \in up
       /\ LET r == row[x[1]] IN
          /\ r.state = "delivered" /\ r.cur = x[2] /\ r.peer \in {NoPeer, x[3]}
          /\ Goto(t, "state_read")
          /\ Push(t, [NoFrame EXCEPT !.w = x[1], !.a = x[2],
                        !.u = Update("running", "turn_started"), !.http = TRUE,
                        !.after = "finish", !.orelse = "finish"])
  /\ UNCHANGED <<tables, execs, bounds, trail, wake>>

\* An assistant turn completes the running work its peer was armed for.
Complete(t) ==
  /\ At(t, "idle")
  /\ \E p \in up :
       LET works == {w \in Works : row[w].state = "running" /\ row[w].peer = p
                                   /\ row[w].phase = "turn_started" /\ row[w].cur # NoAttempt}
       IN  /\ works # {}
           /\ Push(t, [NoFrame EXCEPT !.todo = {<<w, row[w].cur>> : w \in works},
                         !.http = TRUE, !.result = "completed"])
  /\ Goto(t, "settle")
  /\ UNCHANGED <<tables, execs, bounds, trail, wake>>

\* OnPeerTerminalOffline lists the delivered work of the peer, then the running.
Offline(t) ==
  /\ At(t, "idle") /\ Goto(t, "list_delivered")
  /\ \E p \in up :
       /\ up' = up \ {p}
       /\ Push(t, [NoFrame EXCEPT !.who = {p}, !.result = "failed"])
  /\ UNCHANGED <<tables, asked, bounds, trail, wake>>

\* ReconcileInflight does so once after start, for the executors that are gone.
Reconcile(t) ==
  /\ At(t, "idle") /\ Goto(t, "list_delivered")
  /\ reconcile /\ reconcile' = FALSE
  /\ Push(t, [NoFrame EXCEPT !.who = Peers \ up, !.result = "failed"])
  /\ UNCHANGED <<tables, execs, clock, crashes, manual, trail, wake>>

List(t, state, here) ==
  /\ At(t, here) /\ Goto(t, "settle")
  /\ Push(t, [my(t) EXCEPT !.list = state,
       !.todo = {<<w, row[w].cur>> : w \in {v \in Works :
         row[v].state = state /\ row[v].peer \in my(t).who /\ row[v].cur # NoAttempt}}])
  /\ UNCHANGED <<tables, execs, bounds, trail, wake>>
ListDelivered(t) == List(t, "delivered", "list_delivered")
ListRunning(t) == List(t, "running", "list_running")

Settle(t) ==
  /\ At(t, "settle")
  /\ \/ \E x \in my(t).todo :
          /\ Goto(t, "attempt_read")
          /\ Push(t, [my(t) EXCEPT !.w = x[1], !.a = x[2], !.todo = @ \ {x}, !.after = "outcome",
                        !.u = Update(IF my(t).result = "failed" THEN "failed" ELSE "", "none")])
     \/ /\ my(t).todo = {}
        /\ IF my(t).list = "delivered" THEN Goto(t, "list_running") /\ UNCHANGED frame
           ELSE Goto(t, "idle") /\ Push(t, NoFrame)
  /\ UNCHANGED <<tables, execs, bounds, trail, wake>>

Outcome(t) ==
  /\ At(t, "outcome")
  /\ CallState(t, Update(my(t).result, "none"), NoRow, "close_ask", "settle")
  /\ UNCHANGED <<tables, execs, bounds, trail, wake>>

\* The executor is released.  The ask is closed in the ledger of AskTracker; the
\* owner's notice is left out.
CloseAsk(t) ==
  /\ At(t, "close_ask") /\ Goto(t, "settle")
  /\ up' = Released(row[my(t).w])
  /\ UNCHANGED <<tables, asked, bounds, trail, wake, frame>>

CompletionStep(t) ==
  ListDelivered(t) \/ ListRunning(t) \/ Settle(t) \/ Outcome(t) \/ CloseAsk(t)

-----------------------------------------------------------------------------
Tick ==
  /\ clock < MaxTime /\ clock' = clock + 1
  /\ UNCHANGED <<tables, execs, reconcile, crashes, manual, trail, wake, pc, frame>>

\* Whoever was connected may be gone when the daemon is back.
Crash ==
  /\ crashes < MaxCrash /\ crashes' = crashes + 1
  /\ pc' = [t \in Actors |-> IF t = Loop THEN "start" ELSE "idle"]
  /\ frame' = [t \in Actors |-> NoFrame]
  /\ wake' = FALSE /\ reconcile' = TRUE
  /\ up' \in {up, {}}
  /\ UNCHANGED <<tables, asked, clock, manual, trail>>

Init ==
  /\ row = [w \in Works |-> NoRow]
  /\ cal = [state |-> "absent", next |-> 0, last |-> NoWork]
  /\ clock = 0 /\ crashes = 0 /\ manual = 0
  /\ up \in SUBSET Peers
  /\ asked = {}
  /\ wake = FALSE /\ reconcile = TRUE
  /\ pc = [t \in Actors |-> IF t = Loop THEN "start" ELSE "idle"]
  /\ frame = [t \in Actors |-> NoFrame]
  /\ abandoned = {}
  /\ load \in Loads

Request(t) ==
  \/ "create" \in load /\ JobCreate(t)
  \/ "calendar" \in load /\ (CalendarCreate(t) \/ CalendarCancel(t))
  \/ "run" \in load /\ JobRun(t)
  \/ "update" \in load /\ JobUpdate(t)
  \/ "cancel" \in load /\ JobCancel(t)
  \/ "turn" \in load /\ (Arm(t) \/ Complete(t))
  \/ "offline" \in load /\ (Offline(t) \/ Reconcile(t))

HandlerStep(t) == RouteStep(t) \/ CompletionStep(t)

Next ==
  \/ LoopStep \/ Tick \/ Crash
  \/ \E t \in Handlers : Request(t) \/ HandlerStep(t) \/ ClientGone(t)

Spec == Init /\ [][Next]_vars

\* The loop and the requests run until they block; time passes.
Fairness ==
  /\ WF_vars(LoopStep) /\ WF_vars(Tick)
  /\ \A t \in Handlers : WF_vars(HandlerStep(t))
FairSpec == Spec /\ Fairness

-----------------------------------------------------------------------------
(* Properties *)

\* Rows, entries, actors and bounds have the shapes the database and the
\* goroutines give them.
TypeOK ==
  /\ row \in [Works -> Row]
  /\ cal \in [state : {"absent", "active", "cancelled"}, next : 0 .. MaxTime + 1,
              last : Works \cup {NoWork}]
  /\ clock \in Time /\ crashes \in 0 .. MaxCrash /\ manual \in 0 .. MaxManual
  /\ up \subseteq Peers
  /\ asked \subseteq Works \X Attempts \X Peers
  /\ abandoned \subseteq Attempts
  /\ wake \in BOOLEAN /\ reconcile \in BOOLEAN
  /\ \A t \in Actors : DOMAIN my(t) = DOMAIN NoFrame /\ my(t).w \in Works \cup {NoWork}
                       /\ my(t).r \in Row /\ my(t).p \in Row

\* The occurrence an entry points to exists, and no due time is fired twice:
\* the claim and the insert of MaterializeDue are one transaction, whatever
\* crash comes between them.
OccurrenceOnce ==
  cal.last # NoWork =>
    /\ row[cal.last].state # "unborn"
    /\ row[cal.last].due < cal.next

\* A cancel recorded before the executor was there, which may take a spawn and
\* 45 s of waiting, stops the ask (the second look dispatch takes at the row).
CancelStopsAsk == \A t \in Actors : my(t).late => ~At(t, "open_ask")

\* The loop waits for no queued work and no entry longer than until they are due,
\* unless it has a token or a request is about to leave one: the safety half of
\* DueDispatched (Wake after the insert, the drain at the top of loop,
\* secondsUntilNextDeadline; no stale write puts work back into the queue).
TimerCovers ==
  At(Loop, "select") =>
    \/ wake \/ \E t \in Handlers : At(t, "wake")
    \/ /\ \A w \in Works : row[w].state = "queued" => my(Loop).time <= row[w].due
       /\ cal.state = "active" => my(Loop).time <= cal.next

\* Work that is due leaves the queue: a create that races the computation of
\* the timer is not slept through, before or after a restart (Wake, the drain
\* at the top of loop, secondsUntilNextDeadline).
DueDispatched ==
  \A w \in Works : (row[w].state = "queued" /\ row[w].due <= clock) ~> row[w].state # "queued"

\* Work is not left dispatching: its runner ends the attempt, or dies and the
\* lease runs out, unless the runner was a request its client cut off
\* (RecoverStaleDispatching, the leases in secondsUntilNextDeadline).  A cancel
\* may write the state it read back over the end of the attempt, so work that
\* is being cancelled is excluded.
InterruptedRecovered ==
  \A w \in Works :
    (row[w].state = "dispatching" /\ ~row[w].cancel /\ row[w].cur \notin abandoned)
      ~> (row[w].state # "dispatching" \/ row[w].cancel \/ row[w].cur \in abandoned)
=============================================================================
