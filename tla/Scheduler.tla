------------------------------ MODULE Scheduler ------------------------------
(***************************************************************************)
(* The scheduler's loop and the schedule routes, on top of Delivery: each  *)
(* fire of a notify schedule is a Notify call the loop waits for.          *)
(***************************************************************************)
EXTENDS Delivery

CONSTANTS
    AskScheds,  \* the schedules of kind "ask"; the others notify
    NoSched,
    SleepCap,   \* maxSchedulerSleep
    MaxFault    \* times the store fails the loop

ASSUME SchedulerAssumption ==
    /\ AskScheds \subseteq Scheds /\ NoSched \notin Scheds
    /\ SleepCap \in Nat \ {0} /\ MaxFault \in Nat

VARIABLES
    fireAt,   \* fire_at of each row of schedules; NoRow when there is none
    cron,     \* the recurring ones
    made,     \* schedules created so far
    waking,   \* routes that have changed the table and not yet signalled
    wake,     \* the buffered wake channel
    loop,     \* where the loop is
    cur,      \* the schedule it has picked
    until,    \* the end of its sleep
    fired,    \* fires of each schedule
    kept,     \* times a row could be neither advanced nor deleted after its fire
    faults

NoRow == MaxTime + 2
svars == <<fireAt, cron, made, waking, wake, loop, cur, until, fired, kept, faults>>
vars == <<dvars, svars>>
table == <<fireAt, cron, made>>
signal == <<waking, wake>>
counts == <<fired, kept, faults>>

Init ==
    /\ DeliveryInit
    /\ fireAt = [x \in Scheds |-> NoRow] /\ cron = {} /\ made = {}
    /\ waking = {} /\ wake = FALSE
    /\ loop = "drain" /\ cur = NoSched /\ until = 0
    /\ fired = [x \in Scheds |-> 0] /\ kept = [x \in Scheds |-> 0] /\ faults = 0

\* The schedules table: read, insert, advance, delete, and the row due next.
Rows == {x \in Scheds : fireAt[x] # NoRow}
InsertRow(x, t) == fireAt' = [fireAt EXCEPT ![x] = t]
RescheduleNext(x, t) == fireAt' = IF x \in Rows THEN [fireAt EXCEPT ![x] = t] ELSE fireAt
DeleteRow(x) == fireAt' = [fireAt EXCEPT ![x] = NoRow]
\* A tick is longer than a second: within one the order of the stored strings need not
\* be the order in time, and any of its rows may come first.
NextDue(x) == x \in Rows /\ \A y \in Rows : fireAt[x] <= fireAt[y]

\* NextFireAfter: some minute strictly after now.
NextFires == (now + 1)..(MaxTime + 1)

\* POST /schedules inserts a one-shot, past due or not, or a recurring row with its
\* next fire; MaxTime + 1 is a time past the horizon.
CreateSchedule(x) ==
    /\ Serving /\ x \in load \ made
    /\ made' = made \cup {x}
    /\ \/ (\E t \in 0..(MaxTime + 1) : InsertRow(x, t)) /\ UNCHANGED cron
       \/ (\E t \in NextFires : InsertRow(x, t)) /\ cron' = cron \cup {x}
    /\ waking' = waking \cup {x}
    /\ UNCHANGED <<wake, loop, cur, until, counts, dvars>>

\* DELETE /schedules/{id}.
DeleteSchedule(x) ==
    /\ Serving /\ x \in Rows
    /\ DeleteRow(x)
    /\ waking' = waking \cup {x}
    /\ UNCHANGED <<cron, made, wake, loop, cur, until, counts, dvars>>

\* The route forgets to signal the loop (mutation).
WakeLost(x) ==
    /\ x \in waking
    /\ waking' = waking \ {x}
    /\ UNCHANGED <<table, wake, loop, cur, until, counts, dvars>>

\* The route signals after its change: non-blocking, a pending signal is enough.
Wake(x) ==
    /\ x \in waking
    /\ waking' = waking \ {x}
    /\ wake' = TRUE
    /\ UNCHANGED <<table, loop, cur, until, counts, dvars>>

\* The loop takes a pending signal before it looks at the table, not after it.
LoopDrain ==
    /\ Serving /\ loop = "drain"
    /\ wake' = FALSE
    /\ loop' = "next"
    /\ UNCHANGED <<table, waking, cur, until, counts, dvars>>

\* The loop starts over and forgets the row and the deadline it had.
Restart == loop' = "drain" /\ cur' = NoSched /\ until' = 0

\* NextDueSchedule and what the loop makes of it: wait for a signal, sleep until the
\* row is due but never longer than the cap, or go on with a row that is due.
LoopNext ==
    /\ loop = "next"
    /\ IF Rows = {}
       THEN loop' = "wait" /\ UNCHANGED <<cur, until>>
       ELSE \E x \in Rows :
              /\ NextDue(x)
              /\ cur' = x
              /\ IF fireAt[x] > now
                 THEN /\ until' = Min({fireAt[x], now + SleepCap})
                      /\ loop' = "sleep"
                 ELSE loop' = "check" /\ UNCHANGED until
    /\ UNCHANGED <<table, signal, counts, dvars>>

\* A statement of the loop fails.  The bound: MaxFault times, and in workloads that are
\* one schedule.
Fault == faults < MaxFault /\ (\E x \in Scheds : load = {x}) /\ faults' = faults + 1

\* NextDueSchedule fails: back off for the cap, deaf to signals.  The bound: within
\* the horizon.
LoopFault ==
    /\ loop = "next" /\ Fault /\ now + SleepCap <= MaxTime
    /\ until' = now + SleepCap
    /\ loop' = "backoff"
    /\ UNCHANGED <<table, signal, cur, fired, kept, dvars>>

LoopWoken ==
    /\ loop \in {"wait", "sleep"} /\ wake
    /\ wake' = FALSE
    /\ Restart
    /\ UNCHANGED <<table, waking, counts, dvars>>

\* The timer: a capped sleep ends like a full one and the loop goes on to the fire.
LoopTimer ==
    /\ loop \in {"sleep", "backoff"} /\ now >= until
    /\ IF loop = "sleep"
       THEN loop' = "check" /\ until' = 0 /\ UNCHANGED cur
       ELSE Restart
    /\ UNCHANGED <<table, signal, counts, dvars>>

\* A delete may have raced the sleep; an error of the look starts the loop over too.
LoopCheck ==
    /\ loop = "check"
    /\ \/ /\ IF cur \in Rows THEN loop' = "fire" /\ UNCHANGED <<cur, until>> ELSE Restart
          /\ UNCHANGED faults
       \/ Fault /\ Restart
    /\ UNCHANGED <<table, signal, fired, kept, dvars>>

\* A notify schedule is a Notify call; an ask schedule opens an ask (AskLifecycle),
\* which touches nothing here.  Errors are logged.
LoopFire ==
    /\ loop = "fire"
    /\ fired' = [fired EXCEPT ![cur] = @ + 1]
    /\ IF cur \in AskScheds
       THEN loop' = "advance" /\ UNCHANGED pc
       ELSE loop' = "call" /\ Route(cur)
    /\ UNCHANGED <<table, signal, cur, until, kept, faults, world, queue, socks, via, acp>>

LoopReturned ==
    /\ loop = "call" /\ pc[cur] = "done"
    /\ pc' = [pc EXCEPT ![cur] = "idle"]
    /\ loop' = "advance"
    /\ UNCHANGED <<table, signal, cur, until, counts, world, queue, socks, via, acp>>

\* A one-shot whose row is kept for another try (mutation).
AdvanceKeeps ==
    /\ loop = "advance"
    /\ UNCHANGED fireAt \/ DeleteRow(cur)
    /\ Restart
    /\ UNCHANGED <<cron, made, signal, counts, dvars>>

\* Whatever became of the delivery, a recurring row moves on, or goes if it cannot, and
\* a one-shot goes.  That a row could not be deleted is only logged: it is still due.
LoopAdvance ==
    /\ loop = "advance"
    /\ Restart
    /\ \/ /\ \/ cur \in cron /\ (\E t \in NextFires : RescheduleNext(cur, t)) /\ UNCHANGED faults
             \/ cur \in cron /\ Fault /\ DeleteRow(cur)
             \/ cur \notin cron /\ DeleteRow(cur) /\ UNCHANGED faults
          /\ UNCHANGED kept
       \/ Fault /\ kept' = [kept EXCEPT ![cur] = @ + 1] /\ UNCHANGED fireAt
    /\ UNCHANGED <<cron, made, signal, fired, dvars>>

Tick == DeliveryTick /\ UNCHANGED svars

\* The new daemon starts its loop on the table the old one left.
Crash ==
    /\ DeliveryCrash
    /\ waking' = {} /\ wake' = FALSE
    /\ Restart
    /\ UNCHANGED <<table, counts>>

LoopStep ==
    \/ LoopDrain \/ LoopNext \/ LoopWoken \/ LoopTimer \/ LoopCheck
    \/ LoopFire \/ LoopReturned \/ LoopAdvance

Next ==
    \/ DeliveryStep /\ UNCHANGED svars
    \/ \E x \in Scheds : CreateSchedule(x) \/ DeleteSchedule(x) \/ Wake(x)
    \/ LoopStep \/ LoopFault
    \/ Tick \/ Crash

Spec == Init /\ [][Next]_vars

\* Some step of a call, connect handler, prompt or recovery that can go on.
Goroutines ==
    /\ \/ \E m \in Msgs : CallStep(m)
       \/ \E s \in Sockets : FlushStep(s)
       \/ \E a \in Asks : AcpStep(a) \/ ReconStep(a)
       \/ \E p \in Prompts : BrokerMoves(p)
    /\ UNCHANGED svars

\* Goroutines that can go on do (between them they have finitely many steps, so that
\* one of them moves is enough); the loop runs, and its store fails finitely often; the
\* clock runs.  Nothing makes a peer connect or drain, or a caller call.
Fairness ==
    /\ WF_vars(LoopStep)
    /\ WF_vars(Tick)
    /\ WF_vars(\E x \in Scheds : Wake(x))
    /\ WF_vars(Goroutines)

FairSpec == Spec /\ Fairness

(***************************************************************************)
(* Properties                                                              *)
(***************************************************************************)

\* Types of the delivery side and of the loop; the counters stay within their bounds.
TypeOK ==
    /\ DeliveryTypeOK
    /\ fireAt \in [Scheds -> 0..NoRow]
    /\ cron \subseteq made /\ made \subseteq Scheds /\ waking \subseteq Scheds
    /\ wake \in BOOLEAN
    /\ loop \in {"drain", "next", "wait", "sleep", "backoff", "check", "fire", "call", "advance"}
    /\ cur \in Scheds \cup {NoSched} /\ until \in 0..(MaxTime + SleepCap)
    /\ fired \in [Scheds -> 0..(MaxTime + MaxCrash + MaxFault + 1)]
    /\ kept \in [Scheds -> 0..faults] /\ faults \in 0..MaxFault

\* A one-shot fires once, and once more for each crash between its delivery and the
\* deletion of its row and for each deletion of its own row that failed: nothing else,
\* no signal, no failing read, no delete that races the sleep, fires it again.
OneShotOnce == \A x \in Scheds \ cron : fired[x] <= 1 + crashes + kept[x]

\* Whatever the loop sleeps on covers the table: a signal is pending, or every row that
\* falls due before the sleep ends has a route that has yet to signal.  The safety half of
\* DueFires; the back-off after a failing read is deaf, and ends within the cap.
NoneSleptThrough ==
    loop \in {"wait", "sleep"} =>
        wake \/ \A x \in Rows : x \in waking \/ (loop = "sleep" /\ until <= fireAt[x])

\* A row that is due is fired, advanced or deleted in the end: neither a signal that
\* races the loop's read nor a crash leaves it behind.
DueFires ==
    \A x \in Scheds : (x \in Rows /\ fireAt[x] <= now) ~> (x \notin Rows \/ fireAt[x] > now)
==============================================================================
