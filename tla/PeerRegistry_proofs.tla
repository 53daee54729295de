------------------------ MODULE PeerRegistry_proofs ------------------------
(***************************************************************************)
(* Lemmas about the registry's critical sections: each keeps the types of  *)
(* the registry's variables.  PeerLiveness_proofs cites them.              *)
(***************************************************************************)
EXTENDS PeerRegistry, TLAPS

USE DEF Age

\* Apply (fsm.go) answers with a lifecycle state or refuses the event.
LEMMA ApplyTyped ==
  ASSUME NEW s, NEW e, Legal(s, e)
  PROVE  Apply(s, e) \in LifecycleState
BY DEF Legal, Apply, LifecycleState, LiveState, IllegalTransition

\* The state a reconnect writes is a lifecycle state.
LEMMA ReconnectTyped ==
  ASSUME NEW s \in LifecycleState, NEW recovered
  PROVE  ReconnectState(s, recovered) \in LifecycleState
BY DEF ReconnectState, Apply, LifecycleState, LiveState

\* Writing a record (AllocateAndRegister's cases (d) and (e)) keeps the types.
LEMMA WriteRecordTyped ==
  ASSUME RegTypeOK, NEW id \in Peers, NEW s \in LifecycleState,
         NEW t \in Panes \cup {NoPane}, NEW keep \in Panes \cup {NoPane},
         WriteRecord(id, s, t, keep)
  PROVE  /\ state' \in [Peers -> LifecycleState]
         /\ pane' \in [Peers -> Panes \cup {NoPane}]
         /\ lastSeen' \in [Peers -> Age]
<1> DEFINE lost == Displaced(t, id)
<1>1. \A q \in lost : Apply(state[q], "PaneDisplaced") \in LifecycleState
  BY ApplyTyped DEF Displaced
<1> HIDE DEF lost
<1>2. state' = [q \in Peers |-> IF q = id THEN s
                                ELSE IF q \in lost THEN Apply(state[q], "PaneDisplaced")
                                ELSE state[q]]
  BY DEF WriteRecord, lost
<1>3. state' \in [Peers -> LifecycleState]
  BY <1>1, <1>2 DEF RegTypeOK
<1>4. pane' \in [Peers -> Panes \cup {NoPane}]
  BY DEF WriteRecord, RegTypeOK
<1>5. lastSeen' \in [Peers -> Age]
  BY DEF WriteRecord, RegTypeOK
<1> QED BY <1>3, <1>4, <1>5

\* A registration (AllocateAndRegister) keeps the types.
LEMMA AllocateTyped ==
  ASSUME RegTypeOK, NEW claim \in Peers \cup {NoPeer}, NEW t \in Panes \cup {NoPane},
         NEW proof, NEW matches, NEW connected, NEW given \in Peers,
         AllocateAndRegister(claim, t, proof, matches, connected, given)
  PROVE  RegTypeOK'
<1>1. retired' \in [Peers -> {"no", "soft", "hard"}]
  BY DEF AllocateAndRegister, Unretired, RegTypeOK
<1>2. PICK id \in Candidates(claim, matches) :
        \/ ReconnectInPlace(id, t, claim # NoPeer /\ retired[claim] # "no")
        \/ \E granted \in GrantedPanes(t, connected) : RegisterFresh(id, granted)
        \/ JoinOrchestrator(t, given)
  BY DEF AllocateAndRegister
<1>3. id \in Peers
  BY DEF Candidates, RegTypeOK
<1>4. CASE ReconnectInPlace(id, t, claim # NoPeer /\ retired[claim] # "no")
  <2> DEFINE rec == claim # NoPeer /\ retired[claim] # "no"
  <2>1. state[id] \in LifecycleState /\ pane[id] \in Panes \cup {NoPane}
    BY <1>3 DEF RegTypeOK
  <2>2. ReconnectState(state[id], rec) \in LifecycleState
    BY <2>1, ReconnectTyped
  <2>3. PICK keep \in {pane[id], NoPane} : WriteRecord(id, ReconnectState(state[id], rec), t, keep)
    BY <1>4 DEF ReconnectInPlace
  <2>4. UNCHANGED <<mapped, minted>>
    BY <1>4 DEF ReconnectInPlace
  <2> HIDE DEF rec
  <2> QED BY <1>1, <1>3, <2>1, <2>2, <2>3, <2>4, WriteRecordTyped DEF RegTypeOK
<1>5. CASE \E granted \in GrantedPanes(t, connected) : RegisterFresh(id, granted)
  <2>1. PICK granted \in GrantedPanes(t, connected) : RegisterFresh(id, granted)
    BY <1>5
  <2>2. granted \in Panes \cup {NoPane}
    BY DEF GrantedPanes
  <2>3. Apply("Unregistered", "Connect") \in LifecycleState
    BY DEF Apply, LifecycleState, LiveState
  <2>4. /\ WriteRecord(id, Apply("Unregistered", "Connect"), granted, NoPane)
        /\ mapped' = mapped \cup {id} /\ minted' = minted \cup {id}
    BY <2>1 DEF RegisterFresh
  <2> QED BY <1>1, <1>3, <2>2, <2>3, <2>4, WriteRecordTyped DEF RegTypeOK
<1>6. CASE JoinOrchestrator(t, given)
  BY <1>1, <1>6 DEF JoinOrchestrator, RegTypeOK
<1> QED BY <1>2, <1>4, <1>5, <1>6

\* A refused registration keeps the types.
LEMMA RejectTyped ==
  ASSUME RegTypeOK, NEW claim \in Peers \cup {NoPeer}, NEW t, NEW proof, NEW matches,
         NEW connected, RejectHijack(claim, t, proof, matches, connected)
  PROVE  RegTypeOK'
BY DEF RejectHijack, Unretired, RegTypeOK

\* An event on one record (markOffline, UpdateStatus) keeps the types.
LEMMA TransitionTyped ==
  ASSUME RegTypeOK, NEW p \in Peers, NEW e, Transition(p, e),
         retired' \in [Peers -> {"no", "soft", "hard"}]
  PROVE  RegTypeOK'
<1>1. CASE Registered(p) /\ Legal(state[p], e)
  <2>1. Apply(state[p], e) \in LifecycleState
    BY <1>1, ApplyTyped
  <2> QED BY <1>1, <2>1 DEF Transition, RegTypeOK
<1>2. CASE ~(Registered(p) /\ Legal(state[p], e))
  BY <1>2 DEF Transition, RegTypeOK
<1> QED BY <1>1, <1>2

\* markOffline without terminal keeps the types.
LEMMA MarkOfflineTyped ==
  ASSUME RegTypeOK, NEW p \in Peers, MarkOffline(p)
  PROVE  RegTypeOK'
BY TransitionTyped DEF MarkOffline, RegTypeOK

\* markOffline with terminal keeps the types.
LEMMA TerminalTyped ==
  ASSUME RegTypeOK, NEW p \in Peers, NEW k \in {"soft", "hard"}, MarkOfflineTerminal(p, k)
  PROVE  RegTypeOK'
<1>1. retired' \in [Peers -> {"no", "soft", "hard"}]
  BY DEF MarkOfflineTerminal, RegTypeOK
<1> QED BY <1>1, TransitionTyped DEF MarkOfflineTerminal

\* UpdateStatus keeps the types.
LEMMA UpdateStatusTyped ==
  ASSUME RegTypeOK, NEW p \in Peers, NEW s, UpdateStatus(p, s)
  PROVE  RegTypeOK'
BY TransitionTyped DEF UpdateStatus, RegTypeOK

\* Deleting records with their mappings keeps the types.
LEMMA DeleteTyped ==
  ASSUME RegTypeOK, NEW gone, DeletePeers(gone),
         retired' \in [Peers -> {"no", "soft", "hard"}]
  PROVE  RegTypeOK'
BY DEF DeletePeers, RegTypeOK, LifecycleState

\* A rename, which may drop Offline records, keeps the types.
LEMMA RenameTyped ==
  ASSUME RegTypeOK, NEW p \in Peers, NEW ghosts, UpdateDisplayName(p, ghosts)
  PROVE  RegTypeOK'
BY DEF UpdateDisplayName, RegTypeOK, LifecycleState

\* TouchLastSeen keeps the types.
LEMMA TouchTyped ==
  ASSUME RegTypeOK, NEW p \in Peers, TouchLastSeen(p)
  PROVE  RegTypeOK'
BY DEF TouchLastSeen, RegTypeOK

\* The demotion of ghosts keeps the types.
LEMMA DemoteTyped ==
  ASSUME RegTypeOK, NEW cand, DemoteGhosts(cand)
  PROVE  RegTypeOK'
<1> DEFINE hit == {p \in cand : Registered(p) /\ Legal(state[p], "GhostDemote")}
<1>1. \A p \in hit : Apply(state[p], "GhostDemote") \in LifecycleState
  BY ApplyTyped
<1>2. /\ state' = [p \in Peers |-> IF p \in hit THEN Apply(state[p], "GhostDemote") ELSE state[p]]
      /\ lastSeen' = [p \in Peers |-> IF p \in hit THEN "recent" ELSE lastSeen[p]]
      /\ UNCHANGED <<pane, mapped, retired, minted>>
  BY DEF DemoteGhosts
<1> HIDE DEF hit
<1> QED BY <1>1, <1>2 DEF RegTypeOK

\* The repair of stale Busy peers keeps the types.
LEMMA StaleBusyTyped ==
  ASSUME RegTypeOK, NEW hit, RepairStaleBusy(hit)
  PROVE  RegTypeOK'
BY DEF RepairStaleBusy, RegTypeOK, Apply, LiveState, LifecycleState

\* Reaping keeps the types.
LEMMA ReapTyped ==
  ASSUME RegTypeOK, NEW cand, NEW marker, ReapDangling(cand, marker)
  PROVE  RegTypeOK'
<1>1. retired' \in [Peers -> {"no", "soft", "hard"}]
  BY DEF ReapDangling, RegTypeOK
<1> QED BY <1>1, DeleteTyped DEF ReapDangling

\* Eviction keeps the types.
LEMMA EvictTyped ==
  ASSUME RegTypeOK, NEW cand, NEW marker, EvictStale(cand, marker)
  PROVE  RegTypeOK'
BY DeleteTyped DEF EvictStale, RegTypeOK

\* Expiring tombstones keeps the types.
LEMMA PruneTyped ==
  ASSUME RegTypeOK, NEW expired, PruneRetired(expired)
  PROVE  RegTypeOK'
BY DEF PruneRetired, RegTypeOK

-----------------------------------------------------------------------------
(* Every critical section that is not a successful registration is calm: it *)
(* creates no record, revives no retired one, gives nobody a pane, and      *)
(* removes a mapping only with its record.                                  *)

CalmFor(p) ==
  /\ state'[p] # "Unregistered" => state[p] # "Unregistered"
  /\ state[p] = "Retired" => state'[p] \in {"Retired", "Unregistered"}
  /\ pane'[p] \in {pane[p], NoPane}
  /\ lastSeen'[p] \in {lastSeen[p], "recent"}
  /\ p \in mapped => p \in mapped' \/ state'[p] = "Unregistered"

Calm == \A p \in Peers : CalmFor(p)

\* A retired record refuses every event but the reclaim.
LEMMA RetiredRefuses ==
  ASSUME NEW e \in {"TransportDisconnect", "TerminalOffline", "Stop", "UserPromptSubmit",
                    "GhostDemote"}
  PROVE  ~Legal("Retired", e)
BY DEF Legal, Apply, LiveState, IllegalTransition

\* No event but Connect leads out of Unregistered, and none leads into it.
LEMMA ApplyRegistered ==
  ASSUME NEW s, NEW e, Legal(s, e)
  PROVE  Apply(s, e) # "Unregistered"
BY DEF Legal, Apply, LiveState, IllegalTransition

\* An event on one record (markOffline, UpdateStatus) is calm.
LEMMA TransitionCalm ==
  ASSUME RegTypeOK, NEW p \in Peers,
         NEW e \in {"TransportDisconnect", "TerminalOffline", "Stop", "UserPromptSubmit",
                    "GhostDemote"},
         Transition(p, e)
  PROVE  Calm
<1>1. CASE Registered(p) /\ Legal(state[p], e)
  <2>1. state[p] # "Retired"
    BY <1>1, RetiredRefuses
  <2> QED BY <1>1, <2>1 DEF Transition, Registered, Calm, CalmFor, RegTypeOK
<1>2. CASE ~(Registered(p) /\ Legal(state[p], e))
  BY <1>2 DEF Transition, Calm, CalmFor, RegTypeOK
<1> QED BY <1>1, <1>2

\* UpdateStatus is calm.
LEMMA UpdateStatusCalm ==
  ASSUME RegTypeOK, NEW p \in Peers, NEW s \in PeerStatus, UpdateStatus(p, s)
  PROVE  Calm
<1>1. statusToEvent(s) \in {"TransportDisconnect", "Stop", "UserPromptSubmit"}
  BY DEF statusToEvent, PeerStatus
<1> QED BY <1>1, TransitionCalm DEF UpdateStatus

\* Deleting records with their mappings is calm.
LEMMA DeleteCalm ==
  ASSUME RegTypeOK, NEW gone, DeletePeers(gone)
  PROVE  Calm
BY DEF DeletePeers, Calm, CalmFor, RegTypeOK

\* A rename is calm.
LEMMA RenameCalm ==
  ASSUME RegTypeOK, NEW p \in Peers, NEW ghosts, UpdateDisplayName(p, ghosts)
  PROVE  Calm
BY DEF UpdateDisplayName, Calm, CalmFor, RegTypeOK

\* The demotion of ghosts is calm.
LEMMA DemoteCalm ==
  ASSUME RegTypeOK, NEW cand, DemoteGhosts(cand)
  PROVE  Calm
<1> DEFINE hit == {p \in cand : Registered(p) /\ Legal(state[p], "GhostDemote")}
<1>1. \A p \in hit : state[p] \notin {"Retired", "Unregistered"}
  BY RetiredRefuses DEF Registered
<1>2. /\ state' = [p \in Peers |-> IF p \in hit THEN Apply(state[p], "GhostDemote") ELSE state[p]]
      /\ lastSeen' = [p \in Peers |-> IF p \in hit THEN "recent" ELSE lastSeen[p]]
      /\ UNCHANGED <<pane, mapped, retired, minted>>
  BY DEF DemoteGhosts
<1> HIDE DEF hit
<1> QED BY <1>1, <1>2 DEF Calm, CalmFor, RegTypeOK

\* The repair of stale Busy peers is calm.
LEMMA StaleBusyCalm ==
  ASSUME RegTypeOK, NEW hit, RepairStaleBusy(hit)
  PROVE  Calm
BY DEF RepairStaleBusy, Calm, CalmFor, RegTypeOK

\* Steps that leave records and mappings alone are calm.
LEMMA StillCalm ==
  ASSUME state' = state, pane' = pane, lastSeen' = lastSeen, mapped' = mapped
  PROVE  Calm
BY DEF Calm, CalmFor

\* TouchLastSeen is calm.
LEMMA TouchCalm ==
  ASSUME RegTypeOK, NEW p \in Peers, TouchLastSeen(p)
  PROVE  Calm
BY DEF TouchLastSeen, Calm, CalmFor, RegTypeOK

-----------------------------------------------------------------------------
(* What a successful registration does. *)

\* It maps every record it creates, drops no mapping and ages nobody; the id it
\* answers with has just been seen.
LEMMA AllocateMaps ==
  ASSUME RegTypeOK, NEW claim \in Peers \cup {NoPeer}, NEW t \in Panes \cup {NoPane},
         NEW proof, NEW matches, NEW connected, NEW given \in Peers,
         AllocateAndRegister(claim, t, proof, matches, connected, given)
  PROVE  /\ \A p \in Peers : /\ p \in mapped => p \in mapped'
                             /\ state'[p] # "Unregistered" => Registered(p) \/ p \in mapped'
                             /\ lastSeen'[p] \in {lastSeen[p], "recent"}
         /\ lastSeen'[given] = "recent"
<1>1. PICK id \in Candidates(claim, matches) :
        \/ given = id /\ ReconnectInPlace(id, t, claim # NoPeer /\ retired[claim] # "no")
        \/ given = id /\ \E granted \in GrantedPanes(t, connected) : RegisterFresh(id, granted)
        \/ JoinOrchestrator(t, given)
  BY DEF AllocateAndRegister
<1>2. ASSUME NEW s, NEW u, NEW keep, WriteRecord(given, s, u, keep)
      PROVE  /\ \A p \in Peers : lastSeen'[p] \in {lastSeen[p], "recent"}
             /\ lastSeen'[given] = "recent"
             /\ \A p \in Peers : p # given /\ state'[p] # "Unregistered" => Registered(p)
  BY <1>2 DEF WriteRecord, Displaced, Registered, RegTypeOK
<1>3. CASE given = id /\ ReconnectInPlace(id, t, claim # NoPeer /\ retired[claim] # "no")
  BY <1>2, <1>3 DEF ReconnectInPlace
<1>4. CASE given = id /\ \E granted \in GrantedPanes(t, connected) : RegisterFresh(id, granted)
  BY <1>2, <1>4 DEF RegisterFresh
<1>5. CASE JoinOrchestrator(t, given)
  BY <1>5 DEF JoinOrchestrator, Registered, RegTypeOK
<1> QED BY <1>1, <1>3, <1>4, <1>5

\* A retired record is revived only by a registration whose claim carried a soft
\* tombstone, which the registration removes.
LEMMA AllocateRevives ==
  ASSUME RegTypeOK, NEW claim \in Peers \cup {NoPeer}, NEW t, NEW proof, NEW matches,
         NEW connected, NEW given \in Peers,
         AllocateAndRegister(claim, t, proof, matches, connected, given),
         NEW p \in Peers, state[p] = "Retired", state'[p] \in LiveState
  PROVE  \E q \in Peers : retired[q] = "soft" /\ retired'[q] = "no"
<1> DEFINE rec == claim # NoPeer /\ retired[claim] # "no"
<1>1. PICK id \in Candidates(claim, matches) :
        \/ ReconnectInPlace(id, t, rec)
        \/ \E granted \in GrantedPanes(t, connected) : RegisterFresh(id, granted)
        \/ JoinOrchestrator(t, given)
  BY DEF AllocateAndRegister
<1>2. ~Legal("Retired", "PaneDisplaced") /\ "Retired" \notin LiveState
  BY DEF Legal, Apply, LiveState, IllegalTransition
<1>3. CASE ReconnectInPlace(id, t, rec)
  <2>1. PICK keep \in {pane[id], NoPane} : WriteRecord(id, ReconnectState(state[id], rec), t, keep)
    BY <1>3 DEF ReconnectInPlace
  <2>2. p \notin Displaced(t, id)
    BY <1>2 DEF Displaced
  <2>3. p = id /\ state'[p] = ReconnectState("Retired", rec)
    BY <1>2, <2>1, <2>2 DEF WriteRecord
  <2>4. rec
    BY <1>2, <2>3 DEF ReconnectState
  <2>5. retired[claim] = "soft" /\ retired'[claim] = "no"
    BY <2>4 DEF AllocateAndRegister, Admitted, Unretired, RegTypeOK
  <2> QED BY <2>4, <2>5
<1>4. CASE \E granted \in GrantedPanes(t, connected) : RegisterFresh(id, granted)
  <2>1. PICK granted \in GrantedPanes(t, connected) : RegisterFresh(id, granted)
    BY <1>4
  <2>2. p # id /\ p \notin Displaced(granted, id)
    BY <1>2, <2>1 DEF RegisterFresh, Registered, Displaced
  <2> QED BY <1>2, <2>1, <2>2 DEF RegisterFresh, WriteRecord
<1>5. CASE JoinOrchestrator(t, given)
  BY <1>2, <1>5 DEF JoinOrchestrator
<1> QED BY <1>1, <1>3, <1>4, <1>5

\* A registration that gives a peer the pane of a fresh orchestrator leaves the
\* orchestrator where it is.
LEMMA AllocateSticks ==
  ASSUME RegTypeOK, NEW claim \in Peers \cup {NoPeer}, NEW t \in Panes \cup {NoPane},
         NEW proof, NEW matches, NEW connected, NEW given \in Peers,
         AllocateAndRegister(claim, t, proof, matches, connected, given),
         NEW o \in Peers, NEW q \in Peers,
         FreshOrchestrator(o), pane[o] # NoPane, pane[q] # pane[o], pane'[q] = pane[o]
  PROVE  pane'[o] = pane[o] /\ state'[o] \in LiveState
<1>1. PICK id \in Candidates(claim, matches) :
        \/ ReconnectInPlace(id, t, claim # NoPeer /\ retired[claim] # "no")
        \/ \E granted \in GrantedPanes(t, connected) : RegisterFresh(id, granted)
        \/ JoinOrchestrator(t, given)
  BY DEF AllocateAndRegister
<1>2. state[o] \in LiveState
  BY DEF FreshOrchestrator, Live, ToStatus, LiveState
<1>3. ASSUME NEW s, NEW u, NEW keep \in {pane[id], NoPane}, WriteRecord(id, s, u, keep)
      PROVE  pane'[o] = pane[o] /\ state'[o] \in LiveState
  <2>1. q = id
    BY <1>3 DEF WriteRecord, RegTypeOK
  <2>2. o # id /\ o \notin Displaced(u, id)
    BY <2>1 DEF Displaced
  <2> QED BY <1>2, <1>3, <2>2 DEF WriteRecord, RegTypeOK
<1>4. CASE ReconnectInPlace(id, t, claim # NoPeer /\ retired[claim] # "no")
  BY <1>3, <1>4 DEF ReconnectInPlace
<1>5. CASE \E granted \in GrantedPanes(t, connected) : RegisterFresh(id, granted)
  BY <1>3, <1>5 DEF RegisterFresh
<1>6. CASE JoinOrchestrator(t, given)
  BY <1>6 DEF JoinOrchestrator
<1> QED BY <1>1, <1>4, <1>5, <1>6
=============================================================================
