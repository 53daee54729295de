---------------------------- MODULE PeerRegistry ----------------------------
(***************************************************************************)
(* The in-memory peer registry of daemon-go/peer/registry.go: the maps     *)
(* guarded by Registry.mu, and each critical section of that lock as one   *)
(* action formula.  PeerLiveness composes these with the WebSocket         *)
(* transport and with the handlers that call them.                         *)
(*                                                                         *)
(* Data abstractions.  Peers is the set of peer ids the daemon may mint.   *)
(* Names, circles, backends and paths only decide which known identity a   *)
(* registration describes; here that is a choice.  A time stamp is kept as *)
(* its age: "recent" within the heartbeat tolerance, "old" past the TTLs   *)
(* of lazy repair, "quiet" between the two.  Answers of the operating      *)
(* system (a pid is alive, a process runs in a pane) are choices.          *)
(***************************************************************************)
EXTENDS PeerFsm

CONSTANTS
  Peers,          \* peer ids
  Panes,          \* tmux panes
  Orchestrators,  \* the ids whose role is orchestrator
  NoPeer, NoPane  \* absent values

ASSUME OrchestratorsAreP == Orchestrators \subseteq Peers
ASSUME NoneDistinct == NoPeer \notin Peers /\ NoPane \notin Panes

VARIABLES
  state,     \* r.peers: lifecycle state, "Unregistered" when there is no record
  pane,      \* r.peers: the record's PaneID
  lastSeen,  \* r.peers: the record's LastSeen
  mapped,    \* the keys of r.mappings
  retired,   \* r.retired: no tombstone, a soft one or a hard one
  minted     \* the ids handed out so far (uuids never repeat)

regVars == <<state, pane, lastSeen, mapped, retired, minted>>

Age == {"recent", "quiet", "old"}

RegTypeOK ==
  /\ state \in [Peers -> LifecycleState]
  /\ pane \in [Peers -> Panes \cup {NoPane}]
  /\ lastSeen \in [Peers -> Age]
  /\ mapped \in SUBSET Peers
  /\ retired \in [Peers -> {"no", "soft", "hard"}]
  /\ minted \in SUBSET Peers

RegInit ==
  /\ state = [p \in Peers |-> "Unregistered"]
  /\ pane = [p \in Peers |-> NoPane]
  /\ lastSeen = [p \in Peers |-> "recent"]
  /\ mapped = {}
  /\ retired = [p \in Peers |-> "no"]
  /\ minted = {}

Registered(p) == state[p] # "Unregistered"
Live(p) == ToStatus(state[p]) \in {"online", "busy"}

-----------------------------------------------------------------------------
(* AllocateAndRegister *)

\* (a) The retirement guard: only a claim that names a retired id is stopped,
\* unless the tombstone is soft and the claimant proves a live runtime.
Admitted(claim, proof) ==
  claim # NoPeer =>
    \/ retired[claim] = "no"
    \/ retired[claim] = "soft" /\ proof

\* unretireLocked: an admitted claim clears the tombstone before anything else
\* about the claim is looked at.
Unretired(claim) ==
  IF claim = NoPeer THEN retired ELSE [retired EXCEPT ![claim] = "no"]

\* (b)-(c) The ids a registration may get.  A claimed id is reused when it is
\* known and describes the same backend and path (matches); otherwise the id of
\* an Offline peer or of a mapping with the same name, or a fresh one.
Candidates(claim, matches) ==
  IF claim # NoPeer /\ matches /\ (Registered(claim) \/ claim \in mapped)
    THEN {claim}
    ELSE {p \in Peers : state[p] = "Offline"} \cup mapped \cup (Peers \ minted)

FreshOrchestrator(p) ==
  p \in Orchestrators /\ Live(p) /\ lastSeen[p] = "recent"

\* Displacement that does not spare a fresh orchestrator.
DisplacedAll(t, id) ==
  {q \in Peers \ {id} :
     t # NoPane /\ Registered(q) /\ pane[q] = t /\ Legal(state[q], "PaneDisplaced")}

\* releasePaneLocked: the other holders of t that lose it.
Displaced(t, id) ==
  {q \in Peers \ {id} :
     /\ t # NoPane
     /\ Registered(q) /\ pane[q] = t
     /\ ~FreshOrchestrator(q)
     /\ Legal(state[q], "PaneDisplaced")}

\* A reconnect that revives any record it finds.
ReconnectAlways(s, recovered) ==
  IF s = "Retired" THEN Apply(s, "ReclaimWithLiveAgent") ELSE "Online"

\* (d) The state an existing record takes.
ReconnectState(s, recovered) ==
  CASE s = "Offline" -> Apply(s, "Reconnect")
    [] s = "Busy"    -> Apply(s, "Stop")
    [] s = "Retired" /\ recovered -> Apply(s, "ReclaimWithLiveAgent")
    [] OTHER -> s

\* A record written for id on pane t (without one: on the pane to keep), with the
\* displacement of the other holders of t.
WriteRecord(id, newState, t, keep) ==
  LET lost == Displaced(t, id)
  IN /\ state' = [q \in Peers |->
                    IF q = id THEN newState
                    ELSE IF q \in lost THEN Apply(state[q], "PaneDisplaced")
                    ELSE state[q]]
     /\ pane' = [q \in Peers |->
                   IF q = id THEN IF t = NoPane THEN keep ELSE t
                   ELSE IF q \in lost THEN NoPane
                   ELSE pane[q]]
     /\ lastSeen' = [q \in Peers |->
                       IF q = id \/ q \in lost THEN "recent" ELSE lastSeen[q]]

\* (d) In-place reconnect of an id that has a record.  A frame without a pane_id
\* keeps the record's pane, one with an empty pane_id clears it.
ReconnectInPlace(id, t, recovered) ==
  /\ Registered(id)
  /\ \E keep \in {pane[id], NoPane} :
       WriteRecord(id, ReconnectState(state[id], recovered), t, keep)
  /\ UNCHANGED <<mapped, minted>>

\* (d.5) A live holder of the pane: its agent runs, and it is fresh or has a
\* socket (connected).
LivePaneHolder(q, t, connected) ==
  Live(q) /\ pane[q] = t /\ (lastSeen[q] = "recent" \/ q \in connected)

\* (d.5) The panes a fresh record may be given: a sticky orchestrator keeps the
\* pane, a live holder keeps it unless the claimant is proven to run there.
GrantedPanes(t, connected) ==
  CASE t = NoPane -> {NoPane}
    [] \E q \in Peers : FreshOrchestrator(q) /\ pane[q] = t -> {NoPane}
    [] \E q \in Peers : LivePaneHolder(q, t, connected) -> {t, NoPane}
    [] OTHER -> {t}

\* A fresh record without its mapping.
RegisterUnmapped(id, t) ==
  /\ ~Registered(id)
  /\ WriteRecord(id, Apply("Unregistered", "Connect"), t, NoPane)
  /\ minted' = minted \cup {id}
  /\ UNCHANGED mapped

\* (e) A fresh record, with its mapping.
RegisterFresh(id, t) ==
  /\ ~Registered(id)
  /\ WriteRecord(id, Apply("Unregistered", "Connect"), t, NoPane)
  /\ mapped' = mapped \cup {id}
  /\ minted' = minted \cup {id}

\* (d.5)(2) The claimant of a sticky orchestrator's pane is given the
\* orchestrator's own id when backend and circle agree.
JoinOrchestrator(t, h) ==
  /\ FreshOrchestrator(h) /\ t # NoPane /\ pane[h] = t
  /\ lastSeen' = [lastSeen EXCEPT ![h] = "recent"]
  /\ UNCHANGED <<state, pane, mapped, minted>>

\* One successful call: the caller is answered with the id `given'.
AllocateAndRegister(claim, t, proof, matches, connected, given) ==
  /\ Admitted(claim, proof)
  /\ retired' = Unretired(claim)
  /\ \E id \in Candidates(claim, matches) :
       \/ /\ given = id
          /\ ReconnectInPlace(id, t, claim # NoPeer /\ retired[claim] # "no")
       \/ /\ given = id
          /\ \E granted \in GrantedPanes(t, connected) : RegisterFresh(id, granted)
       \/ /\ ~Registered(id)
          /\ JoinOrchestrator(t, given)

\* (d.5)(1) A registration whose parent process is a holder's agent is
\* refused; the tombstone of its claim is gone by then.
RejectHijack(claim, t, proof, matches, connected) ==
  /\ Admitted(claim, proof)
  /\ \E id \in Candidates(claim, matches) : ~Registered(id)
  /\ t # NoPane
  /\ \E q \in Peers : /\ Registered(q) /\ pane[q] = t
                      /\ lastSeen[q] = "recent" \/ q \in connected
  /\ retired' = Unretired(claim)
  /\ UNCHANGED <<state, pane, lastSeen, mapped, minted>>

-----------------------------------------------------------------------------
(* Status changes and removals *)

\* An event on the record of p: refused moves change nothing.
Transition(p, event) ==
  /\ IF Registered(p) /\ Legal(state[p], event)
       THEN /\ state' = [state EXCEPT ![p] = Apply(state[p], event)]
            /\ lastSeen' = [lastSeen EXCEPT ![p] = "recent"]
       ELSE UNCHANGED <<state, lastSeen>>
  /\ UNCHANGED <<pane, mapped, minted>>

\* markOffline, terminal = false.
MarkOffline(p) == Transition(p, "TransportDisconnect") /\ UNCHANGED retired

\* markOffline, terminal = true: retires the id, also when it has no record, but
\* not when the record refuses the event.
Retires(p) == ~Registered(p) \/ Legal(state[p], "TerminalOffline")

MarkOfflineTerminal(p, tombstone) ==
  /\ Transition(p, "TerminalOffline")
  /\ retired' = IF Retires(p) THEN [retired EXCEPT ![p] = tombstone] ELSE retired

UpdateStatus(p, status) == Transition(p, statusToEvent(status)) /\ UNCHANGED retired

\* Records and mappings deleted together (UnregisterPeer, reap, evict).
DeletePeers(gone) ==
  /\ state' = [q \in Peers |-> IF q \in gone THEN "Unregistered" ELSE state[q]]
  /\ pane' = [q \in Peers |-> IF q \in gone THEN NoPane ELSE pane[q]]
  /\ lastSeen' = [q \in Peers |-> IF q \in gone THEN "recent" ELSE lastSeen[q]]
  /\ mapped' = mapped \ gone
  /\ UNCHANGED minted

UnregisterPeer(p) == DeletePeers({p}) /\ UNCHANGED retired

\* UpdateDisplayName: the Offline records that hold the new name are dropped
\* (which ones is a choice of names); their mappings stay.
UpdateDisplayName(p, ghosts) ==
  /\ Registered(p)
  /\ ghosts \subseteq {q \in Peers \ {p} : state[q] = "Offline"}
  /\ state' = [q \in Peers |-> IF q \in ghosts THEN "Unregistered" ELSE state[q]]
  /\ pane' = [q \in Peers |-> IF q \in ghosts THEN NoPane ELSE pane[q]]
  /\ lastSeen' = [q \in Peers |-> IF q \in ghosts THEN "recent" ELSE lastSeen[q]]
  /\ UNCHANGED <<mapped, retired, minted>>

\* TouchLastSeen, and the LastSeen write of UpdateTurnState.
TouchLastSeen(p) ==
  /\ Registered(p)
  /\ lastSeen' = [lastSeen EXCEPT ![p] = "recent"]
  /\ UNCHANGED <<state, pane, mapped, retired, minted>>

-----------------------------------------------------------------------------
(* The critical sections of lazy repair *)

\* demoteDisconnected, second lock: the candidates are demoted as they are.
DemoteGhosts(cand) ==
  LET hit == {p \in cand : Registered(p) /\ Legal(state[p], "GhostDemote")}
  IN /\ state' = [p \in Peers |->
                    IF p \in hit THEN Apply(state[p], "GhostDemote") ELSE state[p]]
     /\ lastSeen' = [p \in Peers |-> IF p \in hit THEN "recent" ELSE lastSeen[p]]
     /\ UNCHANGED <<pane, mapped, retired, minted>>

\* repairStaleBusyPeers; which old Busy peers were working is a choice.
RepairStaleBusy(hit) ==
  /\ hit \subseteq {p \in Peers : state[p] = "Busy" /\ lastSeen[p] = "old"}
  /\ state' = [p \in Peers |-> IF p \in hit THEN Apply("Busy", "Stop") ELSE state[p]]
  /\ lastSeen' = [p \in Peers |-> IF p \in hit THEN "recent" ELSE lastSeen[p]]
  /\ UNCHANGED <<pane, mapped, retired, minted>>

\* reapDangling and evictStalePeers, first lock: Offline past the TTL.
Dangling(p) == state[p] = "Offline" /\ lastSeen[p] = "old"

\* The second lock taken on trust in the first.
ProbedDangling(cand, marker) == {p \in cand : Registered(p)}

\* ... and second lock: the probed peers still dangling on the same runtime.
StillDangling(cand, marker) ==
  {p \in cand : Dangling(p) /\ pane[p] = marker[p]}

ReapDangling(cand, marker) ==
  LET gone == StillDangling(cand, marker)
  IN /\ DeletePeers(gone)
     /\ retired' = [p \in Peers |-> IF p \in gone THEN "soft" ELSE retired[p]]

EvictStale(cand, marker) ==
  DeletePeers(StillDangling(cand, marker)) /\ UNCHANGED retired

\* pruneRetired: tombstones past their TTL are dropped, whichever they are.
PruneRetired(expired) ==
  /\ expired \subseteq {p \in Peers : retired[p] # "no"}
  /\ retired' = [p \in Peers |-> IF p \in expired THEN "no" ELSE retired[p]]
  /\ UNCHANGED <<state, pane, lastSeen, mapped, minted>>
=============================================================================
