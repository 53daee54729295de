---------------------------- MODULE PeerLiveness ----------------------------
(***************************************************************************)
(* The peer registry composed with the WebSocket transport and with the    *)
(* goroutines that drive both: the /ws handlers (daemon-go/hub/ws.go), the *)
(* HTTP requests of the peer, pane and session routes, and the lazy-repair *)
(* worker.  Each step is one critical section of Registry.mu or of the     *)
(* transport's mutex; between two steps of a goroutine any other may run.  *)
(***************************************************************************)
EXTENDS PeerRegistry, Naturals, FiniteSets

CONSTANTS
  Conns, NoConn,  \* /ws handlers and their sockets
  Reqs,           \* HTTP requests in progress at the same time
  StrikeLimit,    \* proto.PaneUnsafeStrikeLimit
  Loads           \* the sets of peers, handlers, requests, reported statuses and
                  \* "repair" that take part in a behaviour

ASSUME StrikeLimitPositive == StrikeLimit \in Nat \ {0}
ASSUME NoConnFresh == NoConn \notin Conns

VARIABLES
  conns, open,  \* the transport (module Transport)
  ws,           \* each /ws handler: where it stands, for which peer, and the
                \* status frame it has read
  req,          \* each HTTP request: where it stands, for which peer
  repair,       \* the lazy-repair worker: pass, peers still to treat, the panes
                \* snapshotted with them, and the peer it is severing
  strikes,      \* rec.paneStrikes
  back,         \* history: peers registered since the repair's last snapshot
  load          \* which of the Loads this behaviour is

T == INSTANCE Transport

vars == <<regVars, conns, open, ws, req, repair, strikes, back, load>>

WsPc == {"idle", "registered", "reading", "dispatch", "removed", "demoting"}
ReqPc == {"idle", "initialOffline", "paneDied", "sever", "close", "closeSever",
          "unregister"}
RepairPc == {"idle", "demote", "targets", "ping", "pingSever", "busy",
             "reapSnapshot", "reap", "reapSever", "evictSnapshot", "evict",
             "prune"}

NoPanes == [p \in Peers |-> NoPane]
IdleWs == [pc |-> "idle", id |-> NoPeer, frame |-> "online"]
IdleReq == [pc |-> "idle", id |-> NoPeer]
IdleRepair == [pc |-> "idle", cand |-> {}, marker |-> NoPanes, cur |-> NoPeer]

\* Every variable holds a value of its type.
TypeOK ==
  /\ RegTypeOK
  /\ T!TransTypeOK
  /\ ws \in [Conns -> [pc : WsPc, id : Peers \cup {NoPeer}, frame : PeerStatus]]
  /\ req \in [Reqs -> [pc : ReqPc, id : Peers \cup {NoPeer}]]
  /\ repair \in [pc : RepairPc, cand : SUBSET Peers,
                 marker : [Peers -> Panes \cup {NoPane}], cur : Peers \cup {NoPeer}]
  /\ strikes \in [Peers -> 0 .. (StrikeLimit - 1)]
  /\ back \in SUBSET Peers
  /\ load \in Loads

Init ==
  /\ RegInit
  /\ T!TransInit
  /\ ws = [c \in Conns |-> IdleWs]
  /\ req = [r \in Reqs |-> IdleReq]
  /\ repair = IdleRepair
  /\ strikes = [p \in Peers |-> 0]
  /\ back = {}
  /\ load \in Loads

Claims == Peers \cup {NoPeer}

-----------------------------------------------------------------------------
(* The /ws handler *)

WsAt(c, pc) == ws[c].pc = pc
WsGoes(c, pc, p, s) == ws' = [ws EXCEPT ![c] = [pc |-> pc, id |-> p, frame |-> s]]
WsMoves(c, pc) == WsGoes(c, pc, ws[c].id, "online")
WsDone(c) == ws' = [ws EXCEPT ![c] = IdleWs]

\* The connect frame is accepted and AllocateAndRegister succeeds.  Frames the
\* handler's validation refuses change nothing.
WsRegister(c) ==
  /\ WsAt(c, "idle")
  /\ \E claim \in Claims, t \in Panes \cup {NoPane}, proof, matches \in BOOLEAN,
        given \in Peers \cap load :
       /\ AllocateAndRegister(claim, t, proof, matches, T!Connected, given)
       /\ WsGoes(c, "registered", given, "online")
       /\ back' = back \cup {given}
  /\ open' = open \cup {c}
  /\ UNCHANGED <<conns, req, repair, strikes>>

\* transport.Connect, then the connected frame and the replay of the queue.
WsConnect(c) ==
  /\ WsAt(c, "registered")
  /\ T!Connect(ws[c].id, c)
  /\ WsMoves(c, "reading")
  /\ UNCHANGED <<regVars, req, repair, strikes, back>>

\* The read loop takes a status frame off an open socket ...
WsRead(c) ==
  /\ WsAt(c, "reading")
  /\ c \in open
  /\ \E s \in PeerStatus \cap load : WsGoes(c, "dispatch", ws[c].id, s)
  /\ UNCHANGED <<regVars, conns, open, req, repair, strikes, back>>

\* ... and dispatches it, whatever has become of the socket meanwhile.
WsDispatch(c) ==
  /\ WsAt(c, "dispatch")
  /\ UpdateStatus(ws[c].id, ws[c].frame)
  /\ WsMoves(c, "reading")
  /\ UNCHANGED <<conns, open, req, repair, strikes, back>>

\* The update_display_name frame.
WsRename(c) ==
  /\ WsAt(c, "reading")
  /\ c \in open
  /\ \E ghosts \in SUBSET Peers : UpdateDisplayName(ws[c].id, ghosts)
  /\ UNCHANGED <<conns, open, ws, req, repair, strikes, back>>

\* The network or the client drops the socket.
SocketDrops(c) ==
  /\ c \in open
  /\ open' = open \ {c}
  /\ UNCHANGED <<regVars, conns, ws, req, repair, strikes, back>>

\* The read fails and the deferred teardown takes the handler's own socket out
\* of the transport; with nothing to take out it is done.
WsDisconnect(c) ==
  /\ WsAt(c, "reading")
  /\ c \notin open
  /\ T!Disconnect(ws[c].id, c)
  /\ IF T!Removes(ws[c].id, c) THEN WsMoves(c, "removed") ELSE WsDone(c)
  /\ UNCHANGED <<regVars, req, repair, strikes, back>>

\* A teardown that leaves pane-less peers to repair as well.
WsLeavesToRepair(c) ==
  /\ WsAt(c, "removed")
  /\ WsDone(c)
  /\ UNCHANGED <<regVars, conns, open, req, repair, strikes, back>>

\* transportOwnsLifecycle(GetPeer(id)): pane-backed peers are left to repair.
WsOwnsLifecycle(c) ==
  /\ WsAt(c, "removed")
  /\ IF ~Registered(ws[c].id) \/ pane[ws[c].id] = NoPane
       THEN WsMoves(c, "demoting")
       ELSE WsDone(c)
  /\ UNCHANGED <<regVars, conns, open, req, repair, strikes, back>>

WsMarkOffline(c) ==
  /\ WsAt(c, "demoting")
  /\ MarkOffline(ws[c].id)
  /\ WsDone(c)
  /\ UNCHANGED <<conns, open, req, repair, strikes, back>>

-----------------------------------------------------------------------------
(* HTTP requests *)

ReqAt(r, pc) == req[r].pc = pc
ReqGoes(r, pc, p) == req' = [req EXCEPT ![r] = [pc |-> pc, id |-> p]]
ReqDone(r) == req' = [req EXCEPT ![r] = IdleReq]

\* registerPeerImpl and handleValidateRuntimeIdentity.  A pane-backed
\* registration that reports a runtime session is driven Offline afterwards.
ReqRegister(r) ==
  /\ ReqAt(r, "idle")
  /\ \E claim \in Claims, t \in Panes \cup {NoPane}, proof, matches \in BOOLEAN,
        given \in Peers \cap load, session \in BOOLEAN :
       /\ AllocateAndRegister(claim, t, proof, matches, T!Connected, given)
       /\ IF t # NoPane /\ session
            THEN ReqGoes(r, "initialOffline", given)
            ELSE UNCHANGED req
       /\ back' = back \cup {given}
  /\ UNCHANGED <<conns, open, ws, repair, strikes>>

ReqHijackRejected(r) ==
  /\ ReqAt(r, "idle")
  /\ \E claim \in Claims, t \in Panes, proof, matches \in BOOLEAN :
       RejectHijack(claim, t, proof, matches, T!Connected)
  /\ UNCHANGED <<conns, open, ws, req, repair, strikes, back>>

ReqInitialOffline(r) ==
  /\ ReqAt(r, "initialOffline")
  /\ MarkOffline(req[r].id)
  /\ ReqDone(r)
  /\ UNCHANGED <<conns, open, ws, repair, strikes, back>>

\* POST /peers/{id}/offline, terminal = false, and the demotion of the target of a
\* failed send (markTransportUnreachable).
ReqMarkOffline(r) ==
  /\ ReqAt(r, "idle")
  /\ \E p \in Peers : Registered(p) /\ MarkOffline(p)
  /\ UNCHANGED <<conns, open, ws, req, repair, strikes, back>>

\* POST /peers/{id}/offline, terminal = true; a record that retires has its
\* socket severed after the lock is released.
ReqTerminalOffline(r) ==
  /\ ReqAt(r, "idle")
  /\ \E p \in minted :
       /\ MarkOfflineTerminal(p, "soft")
       /\ IF Registered(p) /\ Retires(p) THEN ReqGoes(r, "sever", p) ELSE UNCHANGED req
  /\ UNCHANGED <<conns, open, ws, repair, strikes, back>>

\* transport.Close, the last step of several requests.
ReqSever(r) ==
  /\ ReqAt(r, "sever")
  /\ T!Close(req[r].id)
  /\ ReqDone(r)
  /\ UNCHANGED <<regVars, ws, repair, strikes, back>>

\* HandlePaneDied and HandleSessionClosed: the peer is looked up, marked
\* Offline and severed in three separate steps.
ReqPaneDied(r) ==
  /\ ReqAt(r, "idle")
  /\ \E p \in Peers : Registered(p) /\ pane[p] # NoPane /\ ReqGoes(r, "paneDied", p)
  /\ UNCHANGED <<regVars, conns, open, ws, repair, strikes, back>>

ReqPaneDiedOffline(r) ==
  /\ ReqAt(r, "paneDied")
  /\ MarkOffline(req[r].id)
  /\ ReqGoes(r, "sever", req[r].id)
  /\ UNCHANGED <<conns, open, ws, repair, strikes, back>>

\* DELETE /peers/{name} resolves the peer, closes it (a hard tombstone), severs
\* it and unregisters it; POST /peer/unregister starts at the last of these.
ReqDelete(r) ==
  /\ ReqAt(r, "idle")
  /\ \E p \in Peers, pc \in {"close", "unregister"} : Registered(p) /\ ReqGoes(r, pc, p)
  /\ UNCHANGED <<regVars, conns, open, ws, repair, strikes, back>>

ReqClosePeer(r) ==
  /\ ReqAt(r, "close")
  /\ LET p == req[r].id
     IN /\ MarkOfflineTerminal(p, "hard")
        /\ ReqGoes(r, IF Registered(p) /\ Retires(p) THEN "closeSever" ELSE "unregister", p)
  /\ UNCHANGED <<conns, open, ws, repair, strikes, back>>

ReqCloseSever(r) ==
  /\ ReqAt(r, "closeSever")
  /\ T!Close(req[r].id)
  /\ ReqGoes(r, "unregister", req[r].id)
  /\ UNCHANGED <<regVars, ws, repair, strikes, back>>

ReqUnregister(r) ==
  /\ ReqAt(r, "unregister")
  /\ IF Registered(req[r].id)
       THEN UnregisterPeer(req[r].id) /\ ReqGoes(r, "sever", req[r].id)
       ELSE UNCHANGED regVars /\ ReqDone(r)
  /\ UNCHANGED <<conns, open, ws, repair, strikes, back>>

\* POST /session/update with a status.
ReqStatus(r) ==
  /\ ReqAt(r, "idle")
  /\ \E p \in Peers, s \in PeerStatus \cap load : Registered(p) /\ UpdateStatus(p, s)
  /\ UNCHANGED <<conns, open, ws, req, repair, strikes, back>>

ReqTouch(r) ==
  /\ ReqAt(r, "idle")
  /\ \E p \in Peers : TouchLastSeen(p)
  /\ UNCHANGED <<conns, open, ws, req, repair, strikes, back>>

-----------------------------------------------------------------------------
(* Lazy repair.  The TryLock lets one worker run at a time. *)

RepairAt(pc) == repair.pc = pc
RepairGoes(pc, cand) ==
  repair' = [pc |-> pc, cand |-> cand, marker |-> NoPanes, cur |-> NoPeer]

RepairSevers(cand, p) ==
  repair' = [pc |-> "pingSever", cand |-> cand, marker |-> NoPanes, cur |-> p]

\* demoteDisconnected, first lock and the off-lock probe: pane-less peers with
\* no socket, and those pane-backed ones whose probe finds no evidence.
RepairProbe ==
  /\ "repair" \in load
  /\ RepairAt("idle")
  /\ LET ghosts == {p \in Peers : state[p] \in LiveState /\ ~T!IsConnected(p)}
         backed == {p \in ghosts : pane[p] # NoPane}
     IN \E dead \in SUBSET backed : RepairGoes("demote", (ghosts \ backed) \cup dead)
  /\ UNCHANGED <<regVars, conns, open, ws, req, strikes, back>>

RepairDemote ==
  /\ RepairAt("demote")
  /\ DemoteGhosts(repair.cand)
  /\ RepairGoes("targets", {})
  /\ UNCHANGED <<conns, open, ws, req, strikes, back>>

\* demoteUnsafeConnectedPeers: snapshot of the peers to ping, and the strikes of
\* unknown peers dropped.
RepairTargets ==
  /\ RepairAt("targets")
  /\ RepairGoes("ping", {p \in Peers : /\ state[p] \in LiveState
                                       /\ pane[p] # NoPane
                                       /\ T!IsConnected(p)})
  /\ strikes' = [p \in Peers |-> IF Registered(p) THEN strikes[p] ELSE 0]
  /\ UNCHANGED <<regVars, conns, open, ws, req, back>>

\* Strikes counted without ever reaching the limit.
RepairPingUnlimited(p) ==
  /\ RepairAt("ping")
  /\ p \in repair.cand
  /\ T!IsConnected(p)
  /\ strikes' = [strikes EXCEPT ![p] = @ + 1]
  /\ RepairGoes("ping", repair.cand \ {p})
  /\ UNCHANGED <<regVars, conns, open, ws, req, back>>

\* A ping that fails, or answers without the field, says nothing; "alive"
\* forgives the strikes; the last of StrikeLimit strikes retires the peer.
RepairPing(p) ==
  /\ RepairAt("ping")
  /\ p \in repair.cand
  /\ \/ /\ UNCHANGED <<regVars, strikes>>
        /\ RepairGoes("ping", repair.cand \ {p})
     \/ /\ T!IsConnected(p)
        /\ strikes' = [strikes EXCEPT ![p] = 0]
        /\ UNCHANGED regVars
        /\ RepairGoes("ping", repair.cand \ {p})
     \/ /\ T!IsConnected(p)
        /\ strikes[p] + 1 < StrikeLimit
        /\ strikes' = [strikes EXCEPT ![p] = @ + 1]
        /\ UNCHANGED regVars
        /\ RepairGoes("ping", repair.cand \ {p})
     \/ /\ T!IsConnected(p)
        /\ strikes[p] + 1 >= StrikeLimit
        /\ strikes' = [strikes EXCEPT ![p] = 0]
        /\ MarkOfflineTerminal(p, "soft")
        /\ IF Registered(p) /\ Retires(p)
             THEN RepairSevers(repair.cand \ {p}, p)
             ELSE RepairGoes("ping", repair.cand \ {p})
  /\ UNCHANGED <<conns, open, ws, req, back>>

RepairPingSever ==
  /\ RepairAt("pingSever")
  /\ T!Close(repair.cur)
  /\ RepairGoes("ping", repair.cand)
  /\ UNCHANGED <<regVars, ws, req, strikes, back>>

RepairPingDone ==
  /\ RepairAt("ping")
  /\ repair.cand = {}
  /\ RepairGoes("busy", {})
  /\ UNCHANGED <<regVars, conns, open, ws, req, strikes, back>>

RepairBusy ==
  /\ RepairAt("busy")
  /\ \E hit \in SUBSET Peers : RepairStaleBusy(hit)
  /\ RepairGoes("reapSnapshot", {})
  /\ UNCHANGED <<conns, open, ws, req, strikes, back>>

\* reapDangling and evictStalePeers, first lock and the off-lock probe: which
\* dangling peers are past this pass's TTL and without evidence is a choice.
RepairSnapshot(from, to) ==
  /\ RepairAt(from)
  /\ \E stale \in SUBSET {p \in Peers : Dangling(p)} :
       repair' = [pc |-> to, cand |-> stale, marker |-> pane, cur |-> NoPeer]
  /\ back' = {}
  /\ UNCHANGED <<regVars, conns, open, ws, req, strikes>>

RepairReap ==
  /\ RepairAt("reap")
  /\ ReapDangling(repair.cand, repair.marker)
  /\ RepairGoes("reapSever", StillDangling(repair.cand, repair.marker))
  /\ UNCHANGED <<conns, open, ws, req, strikes, back>>

RepairReapSever(p) ==
  /\ RepairAt("reapSever")
  /\ p \in repair.cand
  /\ T!Close(p)
  /\ RepairGoes("reapSever", repair.cand \ {p})
  /\ UNCHANGED <<regVars, ws, req, strikes, back>>

RepairReapDone ==
  /\ RepairAt("reapSever")
  /\ repair.cand = {}
  /\ RepairGoes("evictSnapshot", {})
  /\ UNCHANGED <<regVars, conns, open, ws, req, strikes, back>>

RepairEvict ==
  /\ RepairAt("evict")
  /\ EvictStale(repair.cand, repair.marker)
  /\ RepairGoes("prune", {})
  /\ UNCHANGED <<conns, open, ws, req, strikes, back>>

RepairPrune ==
  /\ RepairAt("prune")
  /\ \E expired \in SUBSET Peers : PruneRetired(expired)
  /\ repair' = IdleRepair
  /\ UNCHANGED <<conns, open, ws, req, strikes, back>>

\* Time passes.  A repair run is far shorter than the TTLs it applies.
Ages(p) ==
  /\ Registered(p)
  /\ \/ lastSeen[p] = "recent" /\ lastSeen' = [lastSeen EXCEPT ![p] = "quiet"]
     \/ /\ lastSeen[p] = "quiet" /\ RepairAt("idle")
        /\ lastSeen' = [lastSeen EXCEPT ![p] = "old"]
  /\ UNCHANGED <<state, pane, mapped, retired, minted, conns, open, ws, req,
                 repair, strikes, back>>

-----------------------------------------------------------------------------

\* The steps a /ws handler takes without waiting for its client.
WsStep(c) ==
  \/ WsConnect(c) \/ WsDispatch(c) \/ WsDisconnect(c)
  \/ WsOwnsLifecycle(c) \/ WsMarkOffline(c)

\* The steps a request in progress takes.
ReqStep(r) ==
  \/ ReqInitialOffline(r) \/ ReqSever(r) \/ ReqPaneDiedOffline(r)
  \/ ReqClosePeer(r) \/ ReqCloseSever(r) \/ ReqUnregister(r)

ReqArrives(r) ==
  \/ ReqRegister(r) \/ ReqHijackRejected(r) \/ ReqMarkOffline(r)
  \/ ReqTerminalOffline(r) \/ ReqPaneDied(r) \/ ReqDelete(r)
  \/ ReqStatus(r) \/ ReqTouch(r)

\* The steps of a repair run that has begun.
RepairStep ==
  \/ RepairDemote \/ RepairTargets \/ RepairPingSever \/ RepairPingDone \/ RepairBusy
  \/ \E p \in Peers : RepairPing(p) \/ RepairReapSever(p)
  \/ RepairSnapshot("reapSnapshot", "reap") \/ RepairReap \/ RepairReapDone
  \/ RepairSnapshot("evictSnapshot", "evict") \/ RepairEvict \/ RepairPrune

Next ==
  /\ \/ \E c \in Conns \cap load :
          WsRegister(c) \/ WsRead(c) \/ WsRename(c) \/ SocketDrops(c) \/ WsStep(c)
     \/ \E r \in Reqs \cap load : ReqArrives(r) \/ ReqStep(r)
     \/ RepairProbe \/ RepairStep
     \/ \E p \in Peers : Ages(p)
  /\ UNCHANGED load

Spec == Init /\ [][Next]_vars

\* A goroutine that can take its next step does so; clients, requests, time and
\* the network owe nothing.
Fairness ==
  /\ \A c \in Conns : WF_vars(WsStep(c) /\ UNCHANGED load)
  /\ \A r \in Reqs : WF_vars(ReqStep(r) /\ UNCHANGED load)
  /\ WF_vars(RepairStep /\ UNCHANGED load)

FairSpec == Spec /\ Fairness

-----------------------------------------------------------------------------
(* Properties *)

InLoop(c) == ws[c].pc \in {"reading", "dispatch"}

\* The transport never stores a socket that nobody serves or that belongs to
\* another peer: the handler of a stored socket is in its read loop, registered
\* under exactly that id (HandleWS with Connect, Disconnect and Close).
SocketOwned ==
  \A p \in Peers : T!IsConnected(p) => InLoop(conns[p]) /\ ws[conns[p]].id = p

\* A handler reading from an open socket is the one the daemon would send to: a
\* superseded handler's late teardown never takes out the socket of the reconnect
\* (Disconnect's identity check), and no peer has two open sockets.
OpenSocketReachable ==
  \A c \in Conns : InLoop(c) /\ c \in open => conns[ws[c].id] = c

\* A retired record comes back to life only in a step in which the retirement
\* guard accepts a proof and consumes the soft tombstone of the claimed id (its own,
\* unless the claim describes another identity): no status frame, claim-less
\* registration, repair pass or claim on a hard tombstone revives it.
RevivalConsumesTombstone ==
  [][\A p \in Peers :
       state[p] = "Retired" /\ state'[p] \in LiveState
         => \E q \in Peers : retired[q] = "soft" /\ retired'[q] = "no"]_vars

\* Reaping and eviction act on a probe made earlier, yet never remove a peer that
\* registered again after the snapshot (the revalidation under the second lock of
\* reapDangling and evictStalePeers).
ReapSparesReturned ==
  [][RepairAt("reap") \/ RepairAt("evict")
       => repair' = repair \/ \A p \in back : Registered(p) => state'[p] # "Unregistered"]_vars

\* Every record has its mapping, so a restart can restore the identity.
RecordsMapped == \A p \in Peers : Registered(p) => p \in mapped

\* When another peer is given the pane of a fresh orchestrator, the orchestrator
\* keeps the pane and stays live: no reconnect, takeover or displacement detaches it
\* (isFreshOrchestratorPaneLocked and releasePaneLocked).
StickyOrchestrator ==
  [][\A o \in Orchestrators, q \in Peers :
       ( /\ FreshOrchestrator(o) /\ pane[o] # NoPane
         /\ pane[q] # pane[o] /\ pane'[q] = pane[o] )
         => pane'[o] = pane[o] /\ state'[o] \in LiveState]_vars

\* A pane-less peer whose socket is gone does not stay online: its handler's
\* teardown marks it Offline unless a reconnect is under way (HandleWS's deferred
\* teardown; no repair pass is needed).
DropDetected ==
  \A p \in Peers :
    (Live(p) /\ pane[p] = NoPane /\ ~T!IsConnected(p))
      ~> (~Live(p) \/ T!IsConnected(p) \/ pane[p] # NoPane)

\* No goroutine is between two of its steps.
Settled ==
  /\ \A c \in Conns : ws[c].pc \in {"idle", "reading"}
  /\ \A r \in Reqs : ReqAt(r, "idle")
  /\ RepairAt("idle")

\* A peer with an open socket is not shown Offline once every goroutine has
\* settled.
SocketMeansLive ==
  Settled => \A p \in Peers : conns[p] \in open => Live(p)
=============================================================================
