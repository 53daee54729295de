# A verification project for repowire's daemon

Repowire connects coding agents ("peers") on one machine: a Go daemon
(`src/daemon-go`) keeps a registry of peers, a WebSocket to each, a ledger of the
questions ("asks") they put to each other, a durable queue for what cannot be
delivered at once, schedules and jobs, and the tmux panes it has started agents in.
A relay makes it reachable from outside, and a bridge makes peers of Codex threads.
This directory holds TLA+ models of these parts, TLC configurations that check them
on small instances, and TLAPS proofs of their safety properties for instances of every
size.

`PROJECT.json` lists the components, the runs, the mutants that show each property
can fail, the source lines behind every definition, the findings and the hazards.

## 1. The system

| Component | State it keeps | Operations | What makes it correct |
|---|---|---|---|
| Lifecycle FSM (`peer/fsm.go`) | none | `Apply` | the only authority on status changes |
| Registry (`peer/registry.go`, `registry_lifecycle_byname.go`) | records, name mappings, tombstones, behind one mutex; mappings and tombstones also in SQLite | register, reconnect, offline, close, rename, unregister | no retired identity returns unproven; a pane belongs to one peer; a record can be restored |
| Lazy repair (`peer/reconcile.go`, `registry.go`) | ping strikes | demote ghosts, ping panes, reap, evict, prune | acts on probes made without the lock, yet never on a peer that came back |
| Transport (`service/transport.go`) | one socket per peer, pending acks and pongs, behind its own mutex | connect, disconnect, close, send, ping | a late teardown never takes out a newer socket |
| `/ws` handler (`hub/ws.go`) | one goroutine per socket | register, read loop, teardown, queue flush | socket and status agree |
| Ask tracker (`service/ask_tracker.go`) | asks, waiter channels, quiesced peers, behind one mutex | register, close, answer, stash, mark, forget, evict, quiesce | the first terminal state wins; a waiter returns |
| Ask routes, delivery, redelivery (`hub/routes_ask_lifecycle.go`, `service/delivery.go`, `peer/reconcile.go`) | requests and workers in progress | ask, ack, answer, wait, ACP completion, redelivery | no reply lost, none twice |
| Delivery and its queue (`service/delivery.go`, `state/queued_deliveries.go`, `hub/ws.go`) | calls in progress; SQLite rows per recipient | notify, broadcast, enqueue, drain, flush on connect | at least once, in the order of calls that do not overlap, bounded, across kills of the daemon |
| ACP broker (`service/acp*.go`) | one client with a mutex and a subprocess per peer; durable operations | prompt, complete, drop, close, reconcile at start-up | an asker learns how its ask ended, whatever dies |
| Scheduler (`service/scheduler.go`, `state/schedules.go`) | SQLite rows, a one-slot wake channel | create, delete, fire, advance | due schedules fire; a wake is not lost; a one-shot fires again only after a kill or a failed deletion |
| Work and jobs (`state/work*.go`, `state/calendar.go`, `service/job_*.go`, `hub/routes_work.go`) | SQLite rows with attempts and leases, calendar entries, a wake channel | create, run, cancel, report, dispatch, complete, recover | due work is dispatched, interrupted work recovered, a cancel seen, an occurrence made once |
| Spawn and session control (`hub/routes_spawn.go`, `routes_panes.go`, `routes_session_control.go`, `service/spawn_service.go`, `pane_ownership.go`) | ownership records, hook metadata, spawn hints, the quiesce set | spawn, kill, restart, resume, link | only proven panes are killed; a restart lets nobody in |
| Relay (`relayserver/`, `relay/client.go`) | one current session per daemon, pending requests with bounded channels, streams, share links | register, tunnel, stream, cancel, revoke, redial | reachable again after any loss; no silent gaps; no data through a dead link; no stream outlives its viewer and its session |
| Codex bridge (`codexbridge/bridge.go`, `state/runtime_certs.go`) | App Server connection and pending calls, a peer per thread, a certificate on disk | discover, register, deliver, steer, capture, retire | acks are truthful, identities last, threads are served again |
| Events (`peer/events.go`, `hub/routes_events.go`, `hub/events_stream.go`) | a ring of events, subscribers' wake channels | push, signal, follow | a follower in its loop catches up |
| Hooks, mobile gateways, MCP surface, history, attachments, CLI, store | see `PROJECT.json` | clients, views and I/O | |

**How they interact.**  Handlers call the registry, the transport and the tracker
one after the other; each has its own mutex and no two are held together for long.
Between two calls any other handler, the repair worker or a background goroutine may
run.  The transport owns sockets, the registry owns status, and nothing keeps the two
in step but the order of calls.  The tracker asks the registry nothing; delivery reads
the registry, sends, and then writes to the tracker.

The durable parts work on SQLite rows without transactions around most
read-modify-write pairs, and wake their loops through channels with one slot.  The relay
and the bridge are processes of their own: their partners disappear without a word.

**What is hard.**  Reconnects overtaking teardowns; repair deciding on stale probes;
identities that come back after a removal; several ways to close one ask at once;
timeouts racing answers; replies to askers that have gone away; duplicated redelivery
workers; restarts while asks are open; a kill of the daemon between a send and the
deletion of its row, or between a claim and its record; rows written back from a stale
read; wakes that race the computation of a timer; proofs of ownership gathered before
and used after another request changed them; sessions that are half-open; calls without
a deadline on a connection that is gone.  The list, line by line, is under "hazards".

## 2. The modules

| Module | Models | State | Composes |
|---|---|---|---|
| `PeerFsm` | `peer/fsm.go` | none | |
| `PeerRegistry` | the registry's critical sections | `state`, `pane`, `lastSeen`, `mapped`, `retired`, `minted` | `PeerFsm` |
| `Transport` | the socket map | `conns`, `open` | |
| `PeerLiveness` | `/ws` handlers, HTTP requests, the repair worker | `ws`, `req`, `repair`, `strikes`, `load`, history `back` | `PeerRegistry`, `Transport` |
| `AskTracker` | the tracker's critical sections | `ask`, `from`, `to`, `question`, `pull`, `answer`, `replied`, `stashed`, `known`, `chan`, `quiescing` | |
| `AskPromise` | abstract: what the daemon promises about an ask | `phase`, `parties`, `verdict`, `told`, `about`, `sends`, `barred` | |
| `AskLifecycle` | ask, query, ask_many, ack and answer handlers, scheduled asks, ACP callbacks, waits, redelivery workers, removals | `reg`, `acp`, `op`, `wait`, `worker`, `reaped`, history `sends`, `lost` | `AskTracker`; refines `AskPromise` |
| `WorkStore` | a row of `tracked_work` and what each store operation makes of it | none | |
| `Jobs` | the runner's loop, the job routes, completion, offline reconciliation, the calendar | `row`, `cal`, `clock`, `up`, `asked`, `wake`, `pc`, `frame`, `reconcile` and budgets | `WorkStore` |
| `Mailbox` | abstract: what the delivery queue promises | `begun`, `accepted`, `owed`, `handed` | |
| `AcpClient` | the broker's manager, clients and their mutexes | `current`, `client`, `mu`, `up`, `dropping`, `at` | |
| `Delivery` | notify, broadcast, the queue, the flush on connect, drains, ACP asks and their operations, kills | `rows`, `last`, `slip`, history `posted` and `handed`, `conn`, `sock`, `flush`, `todo`, `pc`, `via`, `op`, `task`, `told`, `recon` | `AcpClient`; refines `Mailbox` |
| `Scheduler` | the loop and the schedule routes | `fireAt`, `cron`, `made`, `waking`, `wake`, `loop`, `cur`, `until`, `faults`, history `fired` and `kept` | `Delivery` |
| `PaneOwnership` | the proofs behind a destructive action on a pane | `live`, `drift`, `spawned`, `record`, `meta` | `PeerRegistry` |
| `SpawnControl` | spawn, kill, restart, resume, rehook and link requests, runtimes that start and end, tmux notices | `phase`, `who`, `hints`, `notices`, `quiescing`, `req` | `PaneOwnership` |
| `Relay` | server and client of the relay | `sock`, `down`, `up`; server `srv`, `old`, `current`, `stage`, `via`, `pend`, `chan`, `seen`, `share`, history `unsent`; daemon `loop`, `sess`, `stopping`, `busy`, `streams`, `worker`, `of`, `cancelled`, `sent` | |
| `EventWindow` | the ring of events, its writers, one follower | `window`, `pushed`, `owed`, `stream`, `finalized`, `delta` | |
| `CodexBridge` | the bridge's goroutines, the App Server as it uses it, certificates | `srv`, `app`, `main`, `reader`, `out`, `wire`, `calls`, `p`, `cap`, `mesh`, `turn`, `sock`, `msg`, `disk`, `reg` | `EventWindow` |
| `MCPeerLiveness`, `MCAskLifecycle`, `MCJobs`, `MCScheduler`, `MCSpawnControl`, `MCRelay`, `MCCodexBridge` | instances for TLC | | |
| `PeerRegistry_proofs`, `PeerLiveness_proofs`, `AskLifecycle_proofs`, `Scheduler_proofs`, `SpawnControl_proofs`, `Jobs_proofs`, `Relay_proofs`, `CodexBridge_proofs` | theorems | | |

One action is one critical section of a mutex, or one send.  A handler is a process
with a program counter (`ws[c].pc`, `req[r].pc`, `op[h].pc`, `wait[w].pc`, `pc[t]`,
`mesh`, `stage[q]`, ...) that names the call it makes next, together with what it has
read so far; what it read may be stale when it is used, as in the code.  A statement on
the database is one step: `GetWork` and the `UPDATE` that follows it are two, and a row
may change in between, while a transaction is one.  A kill of the daemon (`Crash`) takes
everything in memory and leaves the tables, the files and the other processes.

**The mailbox.**  `Mailbox` is the promise of the delivery queue to one recipient.  A
delivery is begun, accepted later or never, and owed from then on until it has been handed
over at least once, or falls out as the oldest by age or by cap; no more than `Cap` are
owed.  What was accepted before a delivery was begun is handed over before it.  Two
enqueues that overlap may overtake each other: `EnqueueDelivery` takes `created_at`
(`state/queued_deliveries.go:77`) before its transaction begins (`:95`), so the row
with the earlier stamp may be committed last, after the other has been handed over, and the
cap may then evict it at once.  In `Delivery` the two are steps, `Stamp` and
`EnqueueDelivery`, with `slip` the stamp a call holds in between.  `Delivery!BoxSpec` is
`Mailbox!Spec` with `begun` mapped to the stamps handed out (`last`), `accepted` to those
inserted (`posted`), and `owed` to the rows, each with the stamps there were when it was
inserted.  A stamp maps to `Begin`, an insert to `Accept`, the replay on connect to
one `Hand` per write and `Settle` per deletion, a drain to `Take`, expiry to `Drop`, a kill
to a stutter.

**The promise of an ask.**  `AskPromise` says what the steps of the daemon amount to, seen
from outside: an ask is raised between two parties of which none is behind the restart
barrier, settled at most once with an answer or without, and forgotten at some time; a wait
is told the verdict, or that there is none, and the latter only if the ask was settled
without an answer or forgotten; a wait that times out settles its ask itself; a stash goes
to each peer once; and a peer goes behind the barrier only while no open ask names it.
`AskLifecycle!PromiseKept` is `AskPromise!Spec` with `phase` read off the tracker's state of
the ask, `parties` off its endpoints while it is open, `told` and `about` off the waits.
`verdict` is `answer`: the code deletes the answer with the ask, the model keeps it as
history when an ask is dropped, and `Present` guards the second look of a wait at it.

**Data abstractions.**  Names, circles, backends and paths decide only which known
identity a registration describes: a choice of `id` in `Candidates`.  Time stamps are
ages (`recent`, `quiet`, `old`).  Answers of the operating system and of peers (a pid is
alive, a pane has a process, a ping answers) are choices.  Texts are left out; of a reply
it matters whether it is captured or stashed.  A send is accepted, finds no connection,
or fails otherwise (`Notify`).  The default a wait gives up with, whatever outcome the
question names for it, is `timed_out`.  Roles are fixed (`Orchestrators`), so
`ClaimSpecialRole` is not modelled.  Replies carry a text; attachments alone are not
modelled.  Both endpoints of an ask are peer ids, or the human: the sender of a query and
the peers of a schedule may also be registered under a display name, and such endpoints
are left out.  So is an ask of a peer to itself.  A correlation id is not reused once
its ask is dropped.  `Ages` lets a record
grow old only between repair runs, because a run takes seconds and the shortest TTL
takes minutes.

Of a job, the columns only a listing shows are left out; whether an executor is found,
spawned or comes up is a choice, and so is what it does with its turn.  A cron expression
is its next instant.  Of an ACP prompt it matters how it ends.  All peers of
`PaneOwnership` share one project, since records of other projects never match; a pane's
user-made changes are `drift`.  Frames of the relay keep their kind, request and chunk
number, those of the bridge their kind, caller and turn; status frames of the bridge,
which the daemon takes at any time, are left out, and one thread stands for all: threads
share only the App Server's connection.  Of the daemon's registry `CodexBridge` keeps what one
thread meets: the fate of each id (`RegStates`), the claim by id and by name, the retirement
guard.  Of `ValidateBirthCertificate` it keeps the expiry: the bridge hands back the envelope
it was given, with its own backend and path, so the other comparisons agree.  `fire_at` is
written by one formatter and compared as text; instants stand for these texts, which differ
from their order in time only within a second.

**Socket close.**  `Transport` folds the close of a socket into the step that takes it
out of the map: nothing observes the interval but the handler's own failing read.

## 3. The runs

| Run | Instance | Shows |
|---|---|---|
| `repair` | 1 pane; 1 peer, 2 sockets, 1 request with repair on, or 2 peers (one an orchestrator) with 1 socket and 1 request | `TypeOK`, `SocketOwned`, `OpenSocketReachable`, `ReapSparesReturned`, `RecordsMapped`, `RevivalConsumesTombstone`, `StickyOrchestrator` |
| `drop` | 1 peer, 3 sockets, no requests or repair, fair handlers | `DropDetected` |
| `race` | 1 peer, 2 sockets | violates `SocketMeansLive` |
| `asks` | 2 asks, 2 peers, 1 handler, 2 waits on one of the asks, restarts of the asker, fair waits | `TypeOK`, `AnswerTruthful`, `PromiseKept`, `WaiterReturns` |
| `redelivery` | 1 ask, 2 peers of one identity and a third that is restarted, 2 workers, 1 handler | `QuiesceBarrier`, `ReplyKept`, `StashSentOnce` |
| `jobs` | 1 work item, 2 attempts, 1 executor, the loop and 1 request, 5 workloads, 1 kill, 1 run by hand | `TypeOK`, `CancelStopsAsk`, `OccurrenceOnce`, `DueDispatched`, `InterruptedRecovered` |
| `mailbox` | up to 3 notifications, 1 ACP ask, 1 broadcast, 2 schedules, 2 sockets in 8 workloads; cap 2, 1 kill, 1 failing statement of the loop, failing queue and settle writes | `TypeOK`, `AcpAskerTold`, `OneShotOnce`, `BoxSpec`, `ReplayedOnConnect`, `AcpResolved`, `DueFires` |
| `control` | 3 peers, 3 panes (2 of users), 3 requests, 1 mishap | `TypeOK`, `RestartBarrier`, `RecordBoundOnce` |
| `kill` | 2 peers, 2 panes, a spawn and a kill, 2 mishaps | violates `KillSparesOthers` |
| `relay` | 4 sessions, 1 tunnelled request, 1 stream of a share link with 2 chunks, channel of 2, 1 mishap | `TypeOK`, `GapAnnounced`, `RevokedQuiet`, `ReachableAgain`, `ViewerGoneStreamGone` |
| `bridge` | 1 thread, 3 turns, 4 peer ids, window of 2, 7 budgets | `TypeOK`, `AckTruthful`, `IdentityKept`, `ThreadServed`, `LoopEventsShown` |
| `follow` | 1 follower, 2 events | violates `StreamCatchesUp` |

**Bounds.**  In `PeerLiveness` and `AskLifecycle` all bounds are instance sizes, except
`StrikeLimit`, a constant of the code, set to 2 in place of 3.  The other modules name
theirs: `MaxTime` (the last instant of a clock, which stands for every later one),
`MaxCrash`, `MaxFaults`, `MaxFault` (how often the daemon is killed, the environment
misbehaves or the loop's store fails), `MaxManual`, `MaxSess`, `MaxChunks`, `MaxTurns`, `MaxIds`, `MaxHints`, and
the capacities of the code in small (`Cap`, `TTL`, `DrainMax`, `FlushMax`, `LeaseLen`, `SleepCap`,
`ChanCap`, `WindowCap`, `FinalCap`).

**Workloads.**  A job, a schedule or a thread is met by many kinds of requests, but a
hazard takes two or three of them.  `PeerLiveness`, `Jobs`, `Delivery` and `CodexBridge`
choose in the initial state which kinds a behaviour may use (`Loads`, `Workloads`), so that a run
checks the sum of a few small systems and not their product.  The choice restricts the
environment only; whatever the code itself does is possible in each.

**Why these sizes.**  A teardown races a reconnect with two sockets of one peer; a third
lets the reconnect itself be superseded.  A pane is contested by two peers.  Reaping
needs one peer and one repair run; the run includes a request and two sockets that can
bring the peer back at every step.  An ask is raced for by the handler, the wait and
eviction; two waits share its channel, of which one takes the outcome and the other is left
to its timeout; and a second ask gives `reply_to` and the barrier something to meet.  `Watched`
is the ask the waits are on, which saves TLC waits on an ask that nobody answers.  Duplicate
redelivery needs two workers, rebinding needs two peers with one identity.  The `drop`
run registers over `/ws` only: over HTTP a peer is online without ever having had a
socket, and is left to repair on purpose.

Rows of `tracked_work` do not refer to each other, so one row, the loop and one request
show a stale write; the second attempt is the one of a retry or of recovery.  Three
notifications overflow a cap of two and overlap in the store; two sockets let a flush be cut
off and repeated; the drain takes one row at a time, the flush two, as many as there can be.  One kill at every step is enough to lose each thing that
is in memory once.  Two restarts of one peer, or one against a kill, a link or a resume,
are what a barrier and a record can be contested by; the third request restarts hooks.
One mishap of the relay leaves a session half-open while the next registers, and the
redials it causes need up to four sessions; a channel of two overflows with two chunks
and the end of the stream.  The bridge's budgets pair a message with turns and with
faults, retirement with crashes, and a follower with a window it falls behind of.

**Deadlock** is checked in `repair`, `drop`, `asks` and `redelivery`.  The other
runs stop on purpose, once their clock, workload and budget are used up.

**Fairness.**

* `PeerLiveness`: a goroutine that can take its next step takes it (`/ws` handlers,
  requests in progress, a repair run in progress).  Nothing is assumed of clients,
  requests that have not arrived, the network or time.
* `AskLifecycle`: a wait whose channel holds a value receives it.  Timers get no
  fairness, since a wait with a timeout of zero has none (`ask_tracker.go:437`).
* `Jobs`: the loop and the requests in progress take their next step, and time passes.
* `Scheduler` and `Delivery`: the loop takes its next step and time passes; a route that
  changed the table signals; and some goroutine of delivery takes a step when one can, which
  is enough because each of them has finitely many.  Nothing makes a recipient connect or
  drain its queue: the Stop hook asks for it after a turn and not for a thread of the App
  Server (`hooks/handlers.go:304`), and `delivery.go:703` accepts that a queue may strand.
* `Relay`: every goroutine runs, timers fire, frames written to an open socket are read,
  and the loss of a cut session is noticed in the end (ping, keepalive).
* `CodexBridge`: the goroutines run, the App Server answers what it has received while it
  is up, and a subscriber whose channel holds a token runs.

Go's scheduler justifies the goroutines.  Faults, clients and requests get no fairness.

**Symmetry** is used by runs without liveness properties: sockets and requests in
`repair`; workers, and the two peers of one identity, in `redelivery`; in `control` the two
users' peers, which change places together with their panes.

### What the violations say

* `race`: `HandleWS`'s teardown takes its socket out of the transport, and marks the
  peer Offline in a second step (`hub/ws.go:65`).  A reconnect that registers and
  connects in between ends up Offline with a working socket.  Status frames do not
  repair it: `UpdateStatus` maps online to `Stop`, which the FSM refuses from Offline,
  so the peer is shown offline until it registers again.
* `kill`: the record a plain spawn writes carries no peer id.  A kill of a peer whose own
  pane has no valid record (`service/pane_ownership.go:316`) falls back to the only live
  record of the project that names no peer, and kills the pane of a sibling.  The header
  of `pane_ownership.go` says that the path is never sufficient for a destructive action.
* `follow`: `handleEventsStream` subscribes, writes its initial flush, empties its wake
  channel (`hub/events_stream.go:82`) and only then enters its loop.  An event added
  between the flush's read and that emptying loses its wake and is not shown until
  another event is added, though the comments say that it still wakes the loop
  (`hub/events_stream.go:40`, `:58`; `peer/events.go:69`).  `LoopEventsShown`, in `bridge`,
  is what does hold: once an event is added after the loop was entered, the stream catches
  up with it and with all before it.

### Known behaviour without a run

The code does these on its present paths; "hazards" gives most of the lines.

* *Registry.*  An id retired after its mapping was written can be handed out again by name.
  A holder of a pane that is already Offline or Retired keeps it beside the new holder
  (`peer/registry.go:757`).
* *Asks.*  Two waits on one ask share a channel with one slot, sent to once, so the second
  is not woken and returns at its timeout, though the comment at `ask_tracker.go:218` says a
  waiter is cancelled so that it does not hang.  `WaiterReturns` promises the outcome to one
  wait of each ask.  An ack whose send fails with anything but `ErrNotConnected` is taken for
  an evicted asker: the ask is closed and the reply not kept (`ReplyKept` excludes exactly this
  loss).  An ask stored under a display name is not seen by the barrier and by removals, which
  compare ids.
* *Jobs.*  A read-modify-write of `tracked_work` may put an earlier state back, and with it end
  a cancel or revive a finished attempt; `InterruptedRecovered` therefore excludes rows whose
  cancel is requested.  An attempt whose HTTP request is cut off by its client stays with its
  lease.
* *Queue.*  Overlapping enqueues are not ordered, and the cap may evict the row with the older
  stamp as it is inserted.  A delivery whose row is inserted after the replay has listed the
  queue stays until the next connect or drain, though its peer is connected
  (`ReplayedOnConnect` covers what is queued when the replay begins).  With a queue disabled by
  configuration (`docs/reference/configuration.md:125`), or a write that fails, the start-up
  recovery skips its operation, which stays open until the next start
  (`service/acp_reconcile.go:78`); so does an operation whose settle fails to write.
  `AcpResolved` excepts both, and `DeliveryAssumption` allows a capacity and a time to live of
  zero, so the theorems cover a disabled queue too.
* *Scheduler.*  A one-shot is deleted after its delivery, and a deletion that fails is only
  logged: the row is still due and fires again at once (`service/scheduler.go:198`), as it does
  after a kill.  `OneShotOnce` counts both.  The loop sleeps an hour at most and then fires the
  row it slept for, due or not (`service/scheduler.go:136`; its comment says "or sleep was
  capped: reloop"), so a schedule created more than an hour ahead fires early; the model's loop
  does the same.
* *Relay.*  The cancel for an abandoned stream is written with a deadline of one second that runs
  while the write mutex is waited for, and its error is discarded (`relayserver/server.go:559`).
  The daemon then streams on until the session ends; `ViewerGoneStreamGone` promises the end
  of every other stream, and of this one with its session.
* *Bridge.*  A hint or a certificate that names an id the daemon has retired is refused with 409
  on every try, and nothing drops the hint (`codexbridge/bridge.go:695`).  A reaping that hits
  between the registration and the connect makes the daemon mint another id, which the
  certificate does not name; a later soft retirement of it is then refused for ever.
  `ThreadServed` excludes these.  A capture that ends after the next turn began clears that
  turn's id.

## 4. The proofs

Every theorem holds for any sets of peers, panes, sockets, asks, requests and so on, and
for any bound and capacity; the assumptions are those the modules name.  Each proof module
finds an inductive invariant for its specification: one lemma per action shows that it is
kept, and the theorems read their properties off it.

**Peers.**  `PeerRegistry_proofs` proves what each critical section of the registry does to
its own variables: types (`RegTypeOK`), records that never appear without a mapping, the
states a step can produce.  `PeerLiveness_proofs` proves:

| Theorem | Statement |
|---|---|
| `TypeCorrect` | `Spec => []TypeOK` |
| `SocketsSound` | `Spec => [](SocketOwned /\ OpenSocketReachable)` |
| `OpenSocketsReachable` | `Spec => []OpenSocketReachable` |
| `RecordsStayMapped` | `Spec => []RecordsMapped` |
| `RevivalGuarded` | `Spec => RevivalConsumesTombstone` |
| `OrchestratorSticks` | `Spec => StickyOrchestrator` |
| `ReapSparesReturnedPeers` | `Spec => ReapSparesReturned` |

Assumptions: orchestrators are peers, the absent values (`NoPeer`, `NoPane`, `NoConn`)
are not members of the sets they stand beside, and the strike limit is a positive
natural number.

The arguments.  `TypeOK` is not inductive by itself: that a handler past registration,
or a request past its lookup, holds the id of a peer is what keeps `conns` and `strikes`
well typed when it is used later; `TInv` adds this (`KnowsPeer`).  `SocketsSound` rests
on `SocketInv`: a stored socket is served by a handler in its read loop under that id,
and a handler in its read loop with an open socket is the stored one.  `Connect` closes
the socket it replaces, and `Disconnect` compares sockets before it deletes; both halves
are needed, each to keep the other.  `ReapSparesReturned` rests on `BackSeen`: a peer in
`back`, the peers that registered since the snapshot, is not `old` as long as the
repair run lasts, so the second lock's recheck refuses it.  The other action properties
follow from the registry lemmas step by step.

**Asks.**  `AskLifecycle_proofs` proves:

| Theorem | Statement |
|---|---|
| `TypeCorrect` | `Spec => [](TypeOK /\ BusyHasAsk)` |
| `BarrierHolds` | `Spec => []QuiesceBarrier` |
| `TerminalStands` | `Spec => FirstTerminalWins` |
| `LedgerInvariant` | `Spec => []Inv`, for the ones below |
| `AnswersTruthful` | `Spec => []AnswerTruthful` |
| `RepliesKept` | `Spec => []ReplyKept` |
| `StashesSentOnce` | `Spec => []StashSentOnce` |
| `NoLostWakeup` | `Spec => []WaiterWoken`: the safety half of `WaiterReturns` |
| `PromiseImplemented` | `Spec => PromiseKept`: the refinement of `AskPromise` |

Assumption: the twins, the askers, the movers and the switched peers are peers.  `TypeOK`
needs `BusyHasAsk`: a handler or a wait in the middle of something holds a real ask, so
what it captures, answers or reads again later stays within the types.  The barrier and
the terminal state go through `LedgerContract`, what one critical section of the tracker
may do: a closed ask keeps its reason and answer or is dropped, an ask that is open
afterwards was open before between the same peers or was registered between unbarred ones,
and a peer goes behind the barrier only while no open ask names it.  Each method respects
the contract, and each action is one method call or leaves the ledger alone.  The runs check
`FirstTerminalWins` as part of `PromiseKept`.

The others have a second contract of the methods, `OverKept` (an ask that is over stays
over, keeps its answer and is not stashed again; a stash goes only from an ask that is
over), and an invariant of the goroutines.  *Waits*: what a channel carries is
the recorded answer, or the news that there is none (`AskInv`), and a wait that has given
up on recording the default knows that the ask is over (`WaitTold`); so what it reads
again is final, and what a wait was told is the verdict, or excused by there being none
(`Told`).  A channel is waited on only while its ask is open, so once the ask is closed or
dropped the outcome lies there, or another wait on the same ask has taken it (`NoLostWakeup`).  *Replies*:
a handler about to close with a message has captured the reply or seen it refused, or its
ask is gone (`OpTold`); a worker about to mark a stash has sent it (`MarkSent`).
*Redelivery*: `OneWorker` is `claimRedelivery`'s single flight.  `SendInv` says that a
stash that was sent to an asker is no longer stashed, or is being marked by a worker of
that asker; so what the only worker of an asker takes has not been sent to it. *The
promise*: under the invariant each action is one step of `AskPromise` or a stutter: a
registration is `Raise`, whatever closes an ask `Settle`, a wait that records its default
`Expire`, an outcome taken from the channel or read again `Tell`, a drop, an eviction or a
removal `Forget`, a worker's send `Redeliver`.

**Delivery and schedules.**  `Scheduler_proofs` proves, of the specification of the loop
composed with delivery:

| Theorem | Statement |
|---|---|
| `QueueImplementsMailbox` | `Spec => BoxSpec`: the refinement of `Mailbox` |
| `AskerToldFirst` | `Spec => []AcpAskerTold` |
| `OneShotsFireOnce` | `Spec => []OneShotOnce` |
| `NoneSlept` | `Spec => []NoneSleptThrough`: the safety half of `DueFires` |
| `TypeCorrect` | `Spec => []TypeOK` |

Assumptions: `Cap`, `TTL` and the bounds are natural numbers, the limits of a drain, a
flush and a sleep are positive, notifications and schedules are disjoint from the other kinds
of messages.  The refinement rests on `QueueInv`.  Rows and the stamps of enqueues under way agree in the order
of their ids and of their times (`Ordered`, `Slips`), so what expires by an insert's own stamp
is the oldest.  Of the rows that were queued before one a replay still has to write was
stamped, each was handed over or is to be written before it (`Replay`); a row that overlapped
with it may be missing from the replay's list.  So a stamp is `Begin`, an insert `Accept`, a
write `Hand`, a deletion `Settle`, a drain `Take`, and expiry and the cap `Drop` the oldest
(`OwedOf` carries sets of rows over to what they owe).  Steps that touch neither the queue nor
a socket stutter (`DeliverySides`).
`AcpAskerTold` needs the tasks and the reconciliation too (`Told`): whoever is about to
settle has told.  `OneShotOnce` is bounded by what fires cost (`FiresPaid`): a one-shot that
is still pending has fired no more often than the daemon was killed and its deletion failed
(`kept`).  `NoneSleptThrough` holds
because whoever inserts a row has yet to signal (`waking`), a signal stays in the channel
until the loop takes it, and what the loop computes from the table afterwards covers it.

**Spawning.**  `SpawnControl_proofs` proves:

| Theorem | Statement |
|---|---|
| `TypeCorrect` | `Spec => []TypeOK` |
| `BarrierExclusive` | `Spec => []RestartBarrier` |
| `RecordOwnerKept` | `Spec => RecordBoundOnce` |

Assumptions: the absent values are fresh, the bounds natural numbers, and the user's panes
are panes with different home peers.  A request's
record says what it knows at each step (`Knows`); for the barrier, `HeldOnce` equates a
raised barrier with exactly one holder, and `BarrierStep` lists what a step may do: nothing,
raise it, release it, or lose all of them with the daemon.  For the records, `Unrecorded`
says that a pane has none until the one request that launched it writes it, so a write
meets no owner, and the backfill compares before it writes.

**Jobs.**  `Jobs_proofs` proves:

| Theorem | Statement |
|---|---|
| `StacksAgree` | `Spec => []Inv`, for the others |
| `TypeCorrect` | `Spec => []TypeOK` |
| `CancelHeeded` | `Spec => []CancelStopsAsk` |
| `OccurrencesOnce` | `Spec => []OccurrenceOnce` |
| `TimersCover` | `Spec => []TimerCovers`: the safety half of `DueDispatched` |

Assumptions: the loop is not a handler, `NoWork` is not a work, the lease length is
positive, the bounds are natural numbers, and there are attempt ids enough for the
dispatches the bounds allow (`AttemptAssumption`).  Calls are frames that are pushed and return
to a label, so the invariant says for each label what the frame there holds (`Fits`) and
what of it still agrees with the table although other actors write between its steps
(`Agrees`): the row exists, a cancel that was seen is still there, the due time has come.
This survives every stale write because no write makes a row unborn, moves its due time or
withdraws a cancel (`Kept`).

`TimerCovers` says that while the loop waits, its timer covers the queue and the calendar, or
a token or a request about to leave one ends the wait.  It would fail if a stale write could
put work back into the queue behind the timer.  `QueueInv` shows that none can: queued work
was never attempted (`RowsUntried`), so whoever writes back a row with an attempt or a handle
read it when it was no longer queued (`Settled`), and every other write names a state that is
not queued.  A request about to wake the loop is past the point where its client can cut it
off.  `Steady` is the contract of all turns but those that create work, signal, or are the
loop's own.

**Relay.**  `Relay_proofs` proves:

| Theorem | Statement |
|---|---|
| `TypeCorrect` | `Spec => []TypeOK` |
| `RevokedIsQuiet` | `Spec => []RevokedQuiet` |
| `GapsAnnounced` | `Spec => []GapAnnounced` |

Assumptions: capacities are positive, plain requests are no streams, guests no
viewers, `NoRequest` is no request.
`RevokedQuiet` needs that nothing late is under way while the link is good (`QuietInv`).
`GapAnnounced` is an argument about numbered frames in flight, `Flow`: as long as there is
no overflow mark in a stream's channel, what was shown, what waits in the channel and what
is on its way are numbered without a gap.  That holds because all chunks of a stream travel
in one session (`OneSession`), which needs that a stream is asked for once (`AskedOnce`) and
that sessions are opened once and in order (`Dialled`).

**Bridge.**  `CodexBridge_proofs` proves:

| Theorem | Statement |
|---|---|
| `BridgeInvariant` | `Spec => []Inv`, for the others |
| `TypeCorrect` | `Spec => []TypeOK` |
| `AcksTruthful` | `Spec => []AckTruthful` |
| `IdentityStays` | `Spec => IdentityKept` |
| `FollowersCovered` | `Spec => []FollowerCovered`: the safety half of `LoopEventsShown` |

Assumptions: the window holds at least one event, there is at least one turn, the other
bounds are natural numbers.  `Inv` is the conjunction of eight parts.  An ack is true
because the mesh goroutine has one call at a time, its frame is on one of the two queues
only while it waits (`WireInv`), and no `ok` to it is under way before the thread was given
the message (`AckInv`).  An identity is kept because the certificate in memory is as good
as the one on disk and whoever registers without an id has none (`CertInv`); the daemon knows
one id of the thread at most, the one the thread names when it names any, and what a
certificate names was minted (`RegInv`); so the daemon mints an id in one step only
(`MintStep`).  `WinInv` numbers the window; so a follower that
writes what it finds past its cursor ends at the last event (`SinceIsLast`), and one that
waits without a token has done so since the last signal, or nothing was pushed since its loop
began.

**Only model-checked.**  All liveness, which is outside the prover's reach (`DropDetected`,
`WaiterReturns`, `DueDispatched`, `InterruptedRecovered`, `ReplayedOnConnect`, `AcpResolved`,
`DueFires`, `ReachableAgain`, `ViewerGoneStreamGone`, `ThreadServed`, `LoopEventsShown`).  Of
`WaiterReturns`, `DueFires`, `DueDispatched` and `LoopEventsShown` the safety half is a
theorem: whoever waits has its signal, or one is on its way; TLC checks the rest, that
fair goroutines act on it.  Every safety property of a passing run is also proved.

## 5. Plan

Done, in this order: registry, transport, handlers and repair; asks, waits and redelivery;
jobs; the delivery queue with its abstract specification, the ACP broker and the scheduler;
spawn and pane ownership; the relay; the Codex bridge and events; then the proofs of the
safety properties of each, the abstract specification of asks with its refinement, and the
safety halves of the wake-ups.

Left:

1. `PeerIdentity`: names, circles, durable mappings and tombstones, a restart of the
   daemon between a change and its flush.
2. Session bindings and forks, with their operations, and the switch of a session under
   the quiesce barrier.
3. Frames between daemons through the relay.

## 6. Not modelled

Texts, framing, traces and logs; HTTP decoding and authorization; SQLite itself, its
migrations and the import; history and the other read-only routes; the MCP surface, the
mobile gateways and the hooks other than the ws-hook, which are clients of what is
modelled; attachments, which are files; the command line and start-up.  The notices repair
emits are events without effect on state.  Roll-ups of ask_many are reads of the ledger,
recall edits texts.  SQL errors are modelled where the code goes on after one (the scheduler's
back-off, look and failed advance, the flush, the enqueue, the recovery and settle of ACP
operations) and left out where it only returns them.
