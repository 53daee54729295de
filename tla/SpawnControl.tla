--------------------------- MODULE SpawnControl ----------------------------
(***************************************************************************)
(* Spawning, killing, restarting, resuming and linking peers               *)
(* (daemon-go/hub/routes_spawn.go, routes_panes.go,                        *)
(* routes_session_control.go, service/spawn_service.go), composed with the *)
(* ownership proofs, the peer registry, the tmux lifecycle events and the  *)
(* SessionStart hook through which a spawned runtime registers.            *)
(*                                                                         *)
(* A request is an actor; every call it makes to tmux, to the ownership    *)
(* store, to the registry or to the ask tracker is a step.  Requests that  *)
(* are refused before they change anything are left out, and so is the     *)
(* window boundary: a spawn opens a window of the circle's tmux session.   *)
(***************************************************************************)
EXTENDS PaneOwnership, Naturals, Sequences

CONSTANTS
  Requests,  \* concurrent requests
  Ops,       \* the kinds of request each of them may be
  Home,      \* the panes users have started agents in, and their peers
  MaxHints,  \* bound on the queue of spawn hints
  MaxFaults  \* how many crashes, losses and other mishaps may happen

UserPanes == DOMAIN Home

ASSUME HomesArePanes == UserPanes \subseteq Panes /\ Home \in [UserPanes -> Peers]
ASSUME BoundsAreNaturals == MaxHints \in Nat /\ MaxFaults \in Nat
ASSUME HomesDiffer == \A t, u \in UserPanes : Home[t] = Home[u] => t = u

VARIABLES
  phase,      \* a pane's runtime
  who,        \* the peer id under which a pane's runtime, or the hook it left, goes
  hints,      \* spawn-hints/<path, backend>: the queued peer ids
  notices,    \* pane-died hooks of tmux on their way to the daemon, some forever
  quiescing,  \* AskTracker.quiescing
  req,
  faults      \* the mishaps so far

tmux == <<live, drift, phase, who, hints, notices>>
vars == <<regVars, tmux, proofs, quiescing, req, faults>>

Phase == {"unused", "starting", "registered", "up", "detached", "ended"}
Pc == {"idle", "done", "backfill", "prove", "quiesce", "kill", "forget", "offline",
       "unregister", "launch", "record", "await", "unlink"}
Op == {"spawn", "kill", "restart", "resume", "rehook", "link"}

\* What a request has on its stack: the peer resolved, the pane it acts on,
\* whether the peer was offline, the record to backfill, the barrier it holds.
Idle == [pc |-> "idle", op |-> "spawn", peer |-> NoPeer, at |-> NoPane,
         off |-> FALSE, fill |-> NoPane, held |-> FALSE]

TypeOK ==
  /\ RegTypeOK /\ OwnTypeOK
  /\ phase \in [Panes -> Phase]
  /\ who \in [Panes -> Peers \cup {NoPeer}]
  /\ hints \in Seq(Peers \cup {NoPeer})
  /\ notices \in SUBSET Panes
  /\ quiescing \in SUBSET Peers
  /\ req \in [Requests -> [pc : Pc, op : Op, peer : Peers \cup {NoPeer},
                           at : Panes \cup {NoPane}, off : BOOLEAN,
                           fill : Panes \cup {NoPane}, held : BOOLEAN]]
  /\ faults \in 0..MaxFaults

HomeOf(p) == {t \in UserPanes : Home[t] = p}

\* The users' peers are up; the other panes are left to launches.
Init ==
  /\ state = [p \in Peers |-> IF HomeOf(p) = {} THEN "Unregistered" ELSE "Online"]
  /\ pane = [p \in Peers |-> IF HomeOf(p) = {} THEN NoPane ELSE CHOOSE t \in HomeOf(p) : TRUE]
  /\ lastSeen = [p \in Peers |-> "recent"]
  /\ retired = [p \in Peers |-> "no"]
  /\ mapped = {Home[t] : t \in UserPanes} /\ minted = mapped
  /\ OwnInit
  /\ live = UserPanes
  /\ phase = [t \in Panes |-> IF t \in UserPanes THEN "up" ELSE "unused"]
  /\ who = [t \in Panes |-> IF t \in UserPanes THEN Home[t] ELSE NoPeer]
  /\ meta = who
  /\ hints = <<>> /\ notices = {} /\ quiescing = {}
  /\ req = [r \in Requests |-> Idle]
  /\ faults = 0

\* Each request is served once.
Done == [Idle EXCEPT !.pc = "done"]

\* Something goes wrong, as often as the bound allows.
Mishap == faults < MaxFaults /\ faults' = faults + 1

\* The peers with an open socket.
Connected == {p \in Peers : \E t \in live : phase[t] = "up" /\ who[t] = p}

\* A pane is gone; its ws-hook, a session of its own, outlives it.
Ends(t) ==
  /\ live' = live \ {t}
  /\ drift' = drift \ {t}
  /\ phase' = [phase EXCEPT ![t] = "ended"]
  /\ who' = [who EXCEPT ![t] = IF phase[t] = "up" THEN @ ELSE NoPeer]
  /\ notices' = notices \cup {t}

-----------------------------------------------------------------------------
(* tmux and the runtime *)

\* ConsumeSpawnHint: whichever runtime of the project starts first takes the
\* oldest hint.
Claim == IF hints = <<>> THEN NoPeer ELSE Head(hints)
HintConsumed == hints' = IF hints = <<>> THEN hints ELSE Tail(hints)

\* ValidateBootstrap: a recorded pane must still be where it was recorded.
Bootstraps(t) == record[t] = NoRecord \/ t \notin drift

\* SessionStart: the hook consumes a hint and registers over HTTP.  A runtime that
\* is not given its pane runs on without a ws-hook.
HookRegister(t) ==
  /\ phase[t] = "starting"
  /\ HintConsumed
  /\ IF Bootstraps(t)
       THEN \E given \in Peers :
              /\ AllocateAndRegister(Claim, t, TRUE, TRUE, Connected, given)
              /\ who' = [who EXCEPT ![t] = given]
              /\ phase' = [phase EXCEPT ![t] =
                             IF pane'[given] = t THEN "registered" ELSE "detached"]
       ELSE UNCHANGED <<regVars, who, phase>>
  /\ UNCHANGED <<live, drift, notices, proofs, quiescing, req, faults>>

\* The hook records the pane's owner and starts the ws-hook, which connects.
HookUp(t) ==
  /\ phase[t] = "registered"
  /\ \E given \in Peers :
       /\ AllocateAndRegister(who[t], t, TRUE, TRUE, Connected, given)
       /\ who' = [who EXCEPT ![t] = given]
       /\ WriteMetadata(t, given)
  /\ phase' = [phase EXCEPT ![t] = "up"]
  /\ UNCHANGED <<live, drift, hints, notices, spawned, record, quiescing, req, faults>>

\* The ws-hook dies and leaves its runtime behind.
HookDies(t) ==
  /\ Mishap
  /\ phase[t] = "up"
  /\ phase' = [phase EXCEPT ![t] = "detached"]
  /\ UNCHANGED <<regVars, live, drift, who, hints, notices, proofs, quiescing, req>>

\* startWSHook: a new ws-hook for the pane, which has yet to connect.
StartWSHook(t, p) ==
  /\ who' = [who EXCEPT ![t] = p]
  /\ phase' = [phase EXCEPT ![t] = "registered"]

\* maybeRespawn, from the runtime's Stop hook: a dead ws-hook is started again for
\* the peer in the pane's metadata.
MaybeRespawn(t) ==
  /\ t \in live /\ phase[t] = "detached" /\ meta[t] # NoPeer
  /\ StartWSHook(t, meta[t])
  /\ UNCHANGED <<regVars, live, drift, hints, notices, proofs, quiescing, req, faults>>

\* ReconcileWSHook: a ws-hook still there is killed, the metadata rewritten, and a
\* new one started.
ReconcileWSHook(t, p) == WriteMetadata(t, p) /\ StartWSHook(t, p)

\* A peer without a socket is taken offline (the ws handler, or lazy repair).
SocketGone(p) ==
  /\ Live(p) /\ p \notin Connected
  /\ MarkOffline(p)
  /\ UNCHANGED <<tmux, proofs, quiescing, req, faults>>

\* The runtime exits, and its pane with it; tmux runs the pane-died hook.
RuntimeExits(t) ==
  /\ Mishap
  /\ t \in live
  /\ Ends(t)
  /\ UNCHANGED <<regVars, hints, proofs, quiescing, req>>

\* The ws-hook finds its agent gone, reports a terminal offline of the peer it last
\* served, whoever runs under that id now, and retires.
HookReportsExit(t) ==
  LET p == who[t]
      severed == Registered(p) /\ Legal(state[p], "TerminalOffline")
  IN /\ phase[t] = "ended" /\ p # NoPeer
     /\ MarkOfflineTerminal(p, "soft")
     /\ phase' = [u \in Panes |-> IF severed /\ phase[u] = "up" /\ who[u] = p
                                  THEN "registered" ELSE phase[u]]
     /\ who' = [who EXCEPT ![t] = NoPeer]
     /\ ClearPaneRuntimeState(t)
     /\ UNCHANGED <<live, drift, hints, notices, spawned, record, quiescing, req, faults>>

\* HandlePaneDied: the proofs of the pane go, and the peer recorded there goes
\* offline.
HandlePaneDied(t) ==
  /\ t \in notices
  /\ notices' = notices \ {t}
  /\ Forget(t)
  /\ LET here == {p \in Peers : Registered(p) /\ pane[p] = t}
     IN IF here = {} THEN UNCHANGED regVars ELSE \E p \in here : MarkOffline(p)
  /\ UNCHANGED <<live, drift, phase, who, hints, quiescing, req, faults>>

\* A window is renamed, or its shell changes directory.
PaneMoves(t) ==
  /\ Mishap
  /\ t \in live \ drift
  /\ drift' = drift \cup {t}
  /\ UNCHANGED <<regVars, live, phase, who, hints, notices, proofs, quiescing, req>>

\* HandleWindowRenamed, for a pane that has a registered peer.
HandleWindowRenamed(t) ==
  /\ t \in drift
  /\ \E p \in Peers : Registered(p) /\ pane[p] = t
  /\ UpdatePlacement(t)
  /\ UNCHANGED <<regVars, phase, who, hints, notices, quiescing, req, faults>>

\* A hint past its TTL is dropped.
HintExpires ==
  /\ Mishap
  /\ hints # <<>>
  /\ hints' = Tail(hints)
  /\ UNCHANGED <<regVars, live, drift, phase, who, notices, proofs, quiescing, req>>

-----------------------------------------------------------------------------
(* Requests *)

ReqAt(r, pc) == req[r].pc = pc
Goes(r, pc) == req' = [req EXCEPT ![r].pc = pc]

\* The request returns; EndQuiesce is deferred to here.
Returns(r) ==
  /\ req' = [req EXCEPT ![r] = Done]
  /\ quiescing' = IF req[r].held THEN quiescing \ {req[r].peer} ELSE quiescing

\* resolveStrict: an identifier that names one registered peer.
ResolveStrict(p) == Registered(p)

\* POST /spawn.
BeginSpawn(r) ==
  /\ "spawn" \in Ops[r] /\ ReqAt(r, "idle")
  /\ req' = [req EXCEPT ![r] = [Idle EXCEPT !.pc = "launch"]]
  /\ UNCHANGED <<regVars, tmux, proofs, quiescing, faults>>

\* resumeSession: a session whose executor is not live; nothing keeps two resumes
\* of one session apart.
BeginResume(r, p) ==
  /\ "resume" \in Ops[r] /\ ReqAt(r, "idle")
  /\ p \in minted /\ ~Live(p)
  /\ req' = [req EXCEPT ![r] = [Idle EXCEPT !.pc = "launch", !.op = "resume", !.peer = p]]
  /\ UNCHANGED <<regVars, tmux, proofs, quiescing, faults>>

\* killPeer and handleRestartPeer: resolveStrict and peerWithAdoptedOwnership.
BeginControl(r, op, p) ==
  /\ op \in Ops[r] \cap {"kill", "restart"} /\ ReqAt(r, "idle")
  /\ ResolveStrict(p)
  /\ req' = [req EXCEPT ![r] =
               [Idle EXCEPT !.pc = "backfill", !.op = op, !.peer = p,
                            !.at = AdoptedPane(p, pane[p]), !.fill = Adopts(p, pane[p]),
                            !.off = ToStatus(state[p]) = "offline"]]
  /\ UNCHANGED <<regVars, tmux, proofs, quiescing, faults>>

Backfill(r) ==
  /\ ReqAt(r, "backfill")
  /\ BackfillPeerID(req[r].fill, req[r].peer)
  /\ Goes(r, "prove")
  /\ UNCHANGED <<regVars, tmux, spawned, meta, quiescing, faults>>

\* The proof is taken; a kill without one only unregisters, a restart without one
\* goes on only for an offline peer that has no pane left.
Prove(r) ==
  LET p == req[r].peer
      t == req[r].at
      proof == DestructivePaneProof(p, t)
      skip == req[r].off /\ proof.error \in {"missing_pane", "pane_not_live"}
      ok == IF req[r].op = "kill" THEN "kill" ELSE "quiesce"
      refused == IF req[r].op = "kill" THEN "unregister" ELSE "idle"
  IN /\ ReqAt(r, "prove")
     /\ BackfillPeerID(IF t \in spawned THEN NoPane ELSE Adopts(p, t), p)
     /\ req' = [req EXCEPT ![r] =
                  IF Valid(proof) THEN [@ EXCEPT !.pc = ok, !.at = proof.at]
                  ELSE IF req[r].op = "restart" /\ skip
                    THEN [@ EXCEPT !.pc = "quiesce", !.at = NoPane]
                  ELSE IF refused = "idle" THEN Done
                  ELSE [@ EXCEPT !.pc = refused]]
     /\ UNCHANGED <<regVars, tmux, spawned, meta, quiescing, faults>>

\* A barrier that does not look for another restart.
QuiesceShared(r) == TRUE
\* BeginQuiesce is exclusive.
QuiesceFree(r) == req[r].peer \notin quiescing

\* ... and it is refused, too, while the peer has open asks.
Quiesce(r) ==
  /\ ReqAt(r, "quiesce")
  /\ \/ /\ QuiesceFree(r)
        /\ quiescing' = quiescing \cup {req[r].peer}
        /\ req' = [req EXCEPT ![r].pc = IF req[r].at = NoPane THEN "launch" ELSE "kill",
                              ![r].held = TRUE]
     \/ Returns(r)
  /\ UNCHANGED <<regVars, tmux, proofs, faults>>

\* tmux kill-pane.  When it fails the peer stays registered.
KillPane(r) ==
  /\ ReqAt(r, "kill")
  /\ \/ /\ req[r].at \in live
        /\ Ends(req[r].at)
        /\ Goes(r, "forget")
        /\ UNCHANGED quiescing
     \/ /\ Returns(r)
        /\ UNCHANGED <<live, drift, phase, who, notices>>
  /\ UNCHANGED <<regVars, hints, proofs, faults>>

ForgetPane(r) ==
  /\ ReqAt(r, "forget")
  /\ Forget(req[r].at)
  /\ Goes(r, IF req[r].op = "kill" THEN "unregister" ELSE "offline")
  /\ UNCHANGED <<regVars, tmux, quiescing, faults>>

Unregister(r) ==
  /\ ReqAt(r, "unregister")
  /\ UnregisterPeer(req[r].peer)
  /\ Returns(r)
  /\ UNCHANGED <<tmux, proofs, faults>>

RestartOffline(r) ==
  /\ ReqAt(r, "offline")
  /\ MarkOffline(req[r].peer)
  /\ Goes(r, "launch")
  /\ UNCHANGED <<tmux, proofs, quiescing, faults>>

\* writeHint: appended to the queue of the path and backend.
WriteHint(p) == Append(hints, p)

\* TmuxController.Spawn: a pane, the hint, then the command.
Launch(r) ==
  /\ ReqAt(r, "launch")
  /\ Len(hints) < MaxHints
  /\ \E t \in Panes \ UserPanes :
       /\ phase[t] = "unused"
       /\ live' = live \cup {t}
       /\ phase' = [phase EXCEPT ![t] = "starting"]
       /\ req' = [req EXCEPT ![r].pc = "record", ![r].at = t]
  /\ hints' = WriteHint(req[r].peer)
  /\ UNCHANGED <<regVars, drift, who, notices, proofs, quiescing, faults>>

\* The launch fails before the pane exists, or after it and its hint do.
LaunchFails(r) ==
  /\ Mishap
  /\ ReqAt(r, "launch")
  /\ Returns(r)
  /\ hints' \in {hints} \cup (IF Len(hints) < MaxHints THEN {WriteHint(req[r].peer)} ELSE {})
  /\ UNCHANGED <<regVars, live, drift, phase, who, notices, proofs>>

\* MarkSpawned and Record, once tmux has answered.
RecordSpawn(r) ==
  /\ ReqAt(r, "record")
  /\ Record(req[r].at, req[r].peer)
  /\ Returns(r)
  /\ UNCHANGED <<regVars, tmux, faults>>

\* handleRehookPeer: a peer whose socket is gone gets a new ws-hook in its pane, or
\* the one it adopts; the path of a live pane is verification enough.
Rehook(r, p) ==
  LET t == AdoptedPane(p, pane[p])
  IN /\ "rehook" \in Ops[r] /\ ReqAt(r, "idle")
     /\ ResolveStrict(p) /\ p \notin Connected
     /\ t \in live
     /\ BackfillPeerID(Adopts(p, pane[p]), p)
     /\ ReconcileWSHook(t, p)
     /\ req' = [req EXCEPT ![r] = Done]
     /\ UNCHANGED <<regVars, live, drift, hints, notices, spawned, quiescing, faults>>

\* handleLinkPane: a pane nobody is registered in is registered and hooked up.
LinkPane(r, t) ==
  /\ "link" \in Ops[r] /\ ReqAt(r, "idle")
  /\ t \in live /\ \A p \in Peers : Registered(p) => pane[p] # t
  /\ \E given \in Peers :
       /\ AllocateAndRegister(NoPeer, t, TRUE, TRUE, Connected, given)
       /\ req' = [req EXCEPT ![r] =
                    [Idle EXCEPT !.pc = "await", !.op = "link", !.peer = given, !.at = t]]
       /\ ReconcileWSHook(t, given)
  /\ UNCHANGED <<live, drift, hints, notices, spawned, record, quiescing, faults>>

\* awaitTransport: the ws-hook has connected, or eight seconds have passed.
LinkAwait(r) ==
  /\ ReqAt(r, "await")
  /\ IF req[r].peer \in Connected THEN Returns(r) ELSE Goes(r, "unlink") /\ UNCHANGED quiescing
  /\ UNCHANGED <<regVars, tmux, proofs, faults>>

\* The rollback unregisters whoever the registration gave.
LinkRollback(r) ==
  /\ ReqAt(r, "unlink")
  /\ ClearPaneRuntimeState(req[r].at)
  /\ UnregisterPeer(req[r].peer)
  /\ Returns(r)
  /\ UNCHANGED <<tmux, spawned, record, faults>>

\* The daemon is restarted: requests, the barrier, the spawned set and the peer
\* records are gone, mappings and ownership records are not; ws-hooks reconnect.
DaemonRestarts ==
  /\ Mishap
  /\ state' = [p \in Peers |-> "Unregistered"]
  /\ pane' = [p \in Peers |-> NoPane]
  /\ spawned' = {} /\ quiescing' = {}
  /\ req' = [r \in Requests |-> IF req[r].pc = "idle" THEN Idle ELSE Done]
  /\ phase' = [t \in Panes |-> IF phase[t] = "up" THEN "registered" ELSE phase[t]]
  /\ UNCHANGED <<lastSeen, mapped, retired, minted, live, drift, who, hints, notices,
                 record, meta>>

-----------------------------------------------------------------------------

PaneStep(t) ==
  \/ HookRegister(t) \/ HookUp(t) \/ HookDies(t) \/ MaybeRespawn(t) \/ RuntimeExits(t)
  \/ HookReportsExit(t) \/ HandlePaneDied(t) \/ PaneMoves(t) \/ HandleWindowRenamed(t)

ReqStep(r) ==
  \/ Backfill(r) \/ Prove(r) \/ Quiesce(r) \/ KillPane(r) \/ ForgetPane(r)
  \/ Unregister(r) \/ RestartOffline(r) \/ Launch(r) \/ LaunchFails(r) \/ RecordSpawn(r)
  \/ LinkAwait(r) \/ LinkRollback(r)

ReqArrives(r) ==
  \/ BeginSpawn(r)
  \/ \E p \in Peers : BeginResume(r, p) \/ Rehook(r, p) \/ \E op \in {"kill", "restart"} : BeginControl(r, op, p)
  \/ \E t \in Panes : LinkPane(r, t)

Next ==
  \/ \E t \in Panes : PaneStep(t)
  \/ \E p \in Peers : SocketGone(p)
  \/ \E r \in Requests : ReqStep(r) \/ ReqArrives(r)
  \/ HintExpires
  \/ DaemonRestarts

Spec == Init /\ [][Next]_vars

-----------------------------------------------------------------------------
(* Properties *)

\* Request r is between BeginQuiesce and EndQuiesce of a restart of p.
Restarting(r, p) ==
  /\ req[r].op = "restart" /\ req[r].peer = p
  /\ req[r].pc \in {"kill", "forget", "offline", "launch", "record"}

\* The quiesce barrier of a peer is up exactly while one restart of it is killing,
\* forgetting or launching, and never for two of them: every way out of
\* handleRestartPeer lets asks through again, none lets a second restart in.
RestartBarrier ==
  \A p \in Peers :
    LET inside == {r \in Requests : Restarting(r, p)}
    IN IF p \in quiescing THEN Cardinality(inside) = 1 ELSE inside = {}

\* An ownership record that names a peer is never given to another one, however the
\* requests that correlate it interleave (BackfillPeerID).
RecordBoundOnce ==
  [][\A t \in Panes : record[t] \in Peers => record'[t] \in {record[t], NoRecord}]_vars

\* A request never kills the pane of a running peer it was not asked to kill:
\* "every proof keys on peer_id", "the path is deliberately NOT sufficient for a
\* destructive action" (pane_ownership.go).
KillSparesOthers ==
  [][\A r \in Requests :
       req[r].pc = "kill" /\ req'[r].pc = "forget" =>
         ~(/\ phase[req[r].at] = "up"
           /\ who[req[r].at] # req[r].peer)]_vars
=============================================================================
