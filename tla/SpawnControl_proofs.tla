------------------------ MODULE SpawnControl_proofs ------------------------
(***************************************************************************)
(* Theorems about SpawnControl, for any sets of peers, panes and requests, *)
(* any kinds of requests and any number of mishaps: types, the barrier of  *)
(* a restart, and the owner of an ownership record.                        *)
(***************************************************************************)
EXTENDS SpawnControl, PeerRegistry_proofs, FiniteSetTheorems

USE NoneDistinct, NoRecordDistinct

-----------------------------------------------------------------------------
(* What a request knows at each of its steps. *)

ReqRec == [pc : Pc, op : Op, peer : Peers \cup {NoPeer}, at : Panes \cup {NoPane},
           off : BOOLEAN, fill : Panes \cup {NoPane}, held : BOOLEAN]

\* The steps of a restart between BeginQuiesce and its deferred EndQuiesce.
Inside == {"kill", "forget", "offline", "launch", "record"}

\* The kinds of request that have a given step.
Serves(op, pc) ==
  /\ pc \in {"idle", "done"} => op = "spawn"
  /\ pc \in {"backfill", "prove", "kill", "forget"} => op \in {"kill", "restart"}
  /\ pc \in {"quiesce", "offline"} => op = "restart"
  /\ pc = "unregister" => op = "kill"
  /\ pc \in {"launch", "record"} => op \in {"spawn", "resume", "restart"}
  /\ pc \in {"await", "unlink"} => op = "link"

\* Only a spawn has no peer, a pane is there when it is acted on, and the barrier
\* is held during a restart, from the moment it is up.
Knows(q) ==
  /\ Serves(q.op, q.pc)
  /\ q.op # "spawn" => q.peer \in Peers
  /\ q.pc \in {"kill", "forget", "record", "await", "unlink"} => q.at \in Panes
  /\ q.held <=> q.op = "restart" /\ q.pc \in Inside

ReqTyped == req \in [Requests -> ReqRec] /\ \A r \in Requests : Knows(req[r])

EnvTyped ==
  /\ phase \in [Panes -> Phase]
  /\ who \in [Panes -> Peers \cup {NoPeer}]
  /\ hints \in Seq(Peers \cup {NoPeer})
  /\ notices \in SUBSET Panes
  /\ quiescing \in SUBSET Peers
  /\ faults \in 0..MaxFaults

Typed == RegTypeOK /\ OwnTypeOK /\ EnvTyped /\ ReqTyped

\* A request that moves to a state it may be in keeps the requests well typed.
LEMMA ReqMoves ==
  ASSUME ReqTyped, NEW r \in Requests, NEW q \in ReqRec, Knows(q),
         req' = [req EXCEPT ![r] = q]
  PROVE  ReqTyped'
BY DEF ReqTyped

\* So does one that goes to another step of its kind without leaving or entering the
\* barrier.
LEMMA ReqGoes ==
  ASSUME ReqTyped, NEW r \in Requests, NEW pc \in Pc, Goes(r, pc),
         Knows([req[r] EXCEPT !.pc = pc])
  PROVE  ReqTyped'
<1>1. [req[r] EXCEPT !.pc = pc] \in ReqRec
  BY DEF ReqTyped, ReqRec
<1>2. req' = [req EXCEPT ![r] = [req[r] EXCEPT !.pc = pc]]
  BY DEF Goes, ReqTyped
<1> QED BY <1>1, <1>2, ReqMoves

\* A request that returns is done, and lets go of the barrier it holds.
LEMMA DoneKnows == Done \in ReqRec /\ Knows(Done)
BY DEF Done, Idle, Knows, ReqRec, Serves, Inside, Pc, Op

\* A request that returns is idle again and releases the barrier it holds.
LEMMA ReqReturns ==
  ASSUME ReqTyped, quiescing \in SUBSET Peers, NEW r \in Requests, Returns(r)
  PROVE  ReqTyped' /\ quiescing' \in SUBSET Peers
<1>1. ReqTyped'
  BY DoneKnows, ReqMoves DEF Returns
<1>2. quiescing' \in SUBSET Peers
  BY DEF Returns
<1> QED BY <1>1, <1>2

\* Initially.
LEMMA TypedInit == Init => Typed
<1> SUFFICES ASSUME Init PROVE Typed
  OBVIOUS
<1> USE HomesArePanes DEF Init
<1>1. \A p \in Peers : HomeOf(p) # {} => (CHOOSE t \in HomeOf(p) : TRUE) \in Panes
  BY DEF HomeOf
<1>2. RegTypeOK
  BY <1>1 DEF RegTypeOK, LifecycleState, LiveState, Age
<1>3. OwnTypeOK
  BY DEF OwnTypeOK, OwnInit
<1>4. EnvTyped
  BY BoundsAreNaturals DEF EnvTyped, Phase
<1>5. ReqTyped
  BY DEF ReqTyped, Idle, Knows, ReqRec, Serves, Inside, Pc, Op
<1> QED BY <1>2, <1>3, <1>4, <1>5 DEF Typed

-----------------------------------------------------------------------------
(* The ownership proofs answer with panes. *)

\* findForPeer returns a pane, or none when it finds no proof.
LEMMA FindTyped ==
  ASSUME NEW p
  PROVE  /\ FindForPeer(p).at \in Panes \cup {NoPane}
         /\ Valid(FindForPeer(p)) => FindForPeer(p).at \in Panes
<1> DEFINE matches == {t \in Correlated(p) : Evidence(t) = "no"}
           errors == {Evidence(t) : t \in Correlated(p)}
           answer == IF matches # {} THEN "ambiguous_ownership"
                     ELSE IF "pane_not_live" \in errors THEN "pane_not_live"
                     ELSE IF errors # {} THEN "pane_identity_mismatch"
                     ELSE "missing_ownership"
<1>1. matches \subseteq Panes
  BY DEF Correlated
<1>2. FindForPeer(p) = IF Cardinality(matches) = 1 THEN Validation("no", CHOOSE t \in matches : TRUE)
                       ELSE Validation(answer, NoPane)
  BY DEF FindForPeer
<1> HIDE DEF errors
<1>3. answer # "no"
  OBVIOUS
<1>4. CASE Cardinality(matches) = 1
  <2>1. matches # {}
    BY <1>4, FS_EmptySet
  <2>2. (CHOOSE t \in matches : TRUE) \in Panes
    BY <1>1, <2>1
  <2> HIDE DEF matches, answer
  <2> QED BY <1>2, <1>4, <2>2 DEF Validation
<1>5. CASE Cardinality(matches) # 1
  <2> HIDE DEF matches, answer
  <2> QED BY <1>2, <1>3, <1>5 DEF Validation, Valid
<1> QED BY <1>4, <1>5

\* ValidateForPeer returns a pane with a valid proof.
LEMMA ValidateTyped ==
  ASSUME NEW p, NEW t \in Panes \cup {NoPane}
  PROVE  /\ ValidateForPeer(p, t).at \in Panes \cup {NoPane}
         /\ Valid(ValidateForPeer(p, t)) => ValidateForPeer(p, t).at \in Panes
<1>1. ValidateDirect(p, t).at = t
  BY DEF ValidateDirect, Validation
<1> QED BY <1>1, FindTyped DEF ValidateForPeer, Valid

\* What the callers make of it: the pane adopted, the record backfilled and the pane
\* a destructive action goes to.
LEMMA ProofTyped ==
  ASSUME OwnTypeOK, NEW p, NEW t \in Panes \cup {NoPane}
  PROVE  /\ AdoptedPane(p, t) \in Panes \cup {NoPane}
         /\ Adopts(p, t) \in Panes \cup {NoPane}
         /\ Valid(DestructivePaneProof(p, t)) => DestructivePaneProof(p, t).at \in Panes
<1>1. AdoptedPane(p, t) \in Panes \cup {NoPane} /\ Adopts(p, t) \in Panes \cup {NoPane}
  BY ValidateTyped DEF AdoptedPane, Adopts
<1>2. ASSUME Valid(DestructivePaneProof(p, t))
      PROVE  DestructivePaneProof(p, t).at \in Panes
  <2> DEFINE own == ValidateForPeer(p, t)
             seen == IF t = NoPane THEN "missing_pane"
                     ELSE IF t \notin live THEN "pane_not_live"
                     ELSE IF meta[t] = p THEN "no"
                     ELSE IF meta[t] = NoPeer THEN "missing_pane_metadata"
                     ELSE "pane_metadata_mismatch"
  <2>1. DestructivePaneProof(p, t) = IF t \in spawned THEN Validation("no", t)
                                     ELSE IF own.error # "missing_ownership" THEN own
                                     ELSE Validation(seen, t)
    BY DEF DestructivePaneProof
  <2>2. CASE t \in spawned
    BY <2>1, <2>2 DEF Validation, OwnTypeOK
  <2>3. CASE t \notin spawned /\ own.error # "missing_ownership"
    BY <1>2, <2>1, <2>3, ValidateTyped
  <2>4. CASE t \notin spawned /\ own.error = "missing_ownership"
    <3>1. DestructivePaneProof(p, t) = Validation(seen, t)
      BY <2>1, <2>4
    <3>2. seen = "no"
      BY <1>2, <3>1 DEF Validation, Valid
    <3>3. t \in Panes
      BY <3>2
    <3> HIDE DEF seen
    <3> QED BY <3>1, <3>3 DEF Validation
  <2> QED BY <2>2, <2>3, <2>4
<1> QED BY <1>1, <1>2

\* Backfilling a record keeps the types of the ownership store.
LEMMA BackfillTyped ==
  ASSUME OwnTypeOK, NEW t \in Panes \cup {NoPane}, NEW p \in Peers, BackfillPeerID(t, p)
  PROVE  record' \in [Panes -> Peers \cup {NoPeer, NoRecord}]
BY DEF OwnTypeOK, BackfillPeerID

-----------------------------------------------------------------------------
(* Every step keeps the types: first tmux and the runtimes. *)

\* Leaving the requests alone keeps their type.
LEMMA ReqStays == ASSUME ReqTyped, UNCHANGED req PROVE ReqTyped'
BY DEF ReqTyped

\* Leaving the registry alone keeps its type.
LEMMA RegStays == ASSUME RegTypeOK, UNCHANGED regVars PROVE RegTypeOK'
BY DEF RegTypeOK, regVars

\* Leaving the panes and their records alone keeps their type.
LEMMA OwnStays == ASSUME OwnTypeOK, UNCHANGED <<live, drift, proofs>> PROVE OwnTypeOK'
BY DEF OwnTypeOK, proofs

\* A pane that ends keeps them.
LEMMA EndsTyped ==
  ASSUME OwnTypeOK, EnvTyped, NEW t \in Panes, Ends(t),
         UNCHANGED <<hints, proofs>>, quiescing' \in SUBSET Peers, faults' \in 0..MaxFaults
  PROVE  OwnTypeOK' /\ EnvTyped'
BY DEF OwnTypeOK, EnvTyped, Ends, Phase, proofs

\* A mishap is one of the bounded number of faults.
LEMMA MishapTyped == ASSUME EnvTyped, Mishap PROVE faults' \in 0..MaxFaults
BY BoundsAreNaturals DEF EnvTyped, Mishap

\* The head and the tail of a typed queue.
LEMMA TailTyped ==
  ASSUME NEW S, NEW q \in Seq(S), q # <<>>
  PROVE  Head(q) \in S /\ Tail(q) \in Seq(S)
OBVIOUS

\* The steps of a pane's own process keep the types.
LEMMA PaneTyped ==
  ASSUME Typed, NEW t \in Panes, PaneStep(t)
  PROVE  Typed'
<1> USE DEF Typed
<1>1. CASE HookRegister(t)
  <2> USE <1>1
  <2>1. Claim \in Peers \cup {NoPeer} /\ hints' \in Seq(Peers \cup {NoPeer})
    BY TailTyped DEF HookRegister, Claim, HintConsumed, EnvTyped
  <2>2. UNCHANGED <<live, drift, notices, proofs, quiescing, req, faults>>
    BY DEF HookRegister
  <2>3. CASE Bootstraps(t)
    <3>1. PICK given \in Peers :
              /\ AllocateAndRegister(Claim, t, TRUE, TRUE, Connected, given)
              /\ who' = [who EXCEPT ![t] = given]
              /\ phase' = [phase EXCEPT ![t] =
                             IF pane'[given] = t THEN "registered" ELSE "detached"]
      BY <2>3 DEF HookRegister
    <3>2. RegTypeOK'
      BY <2>1, <3>1, AllocateTyped
    <3>3. EnvTyped'
      BY <2>1, <2>2, <3>1 DEF EnvTyped, Phase
    <3> QED BY <2>2, <3>2, <3>3, OwnStays, ReqStays
  <2>4. CASE ~Bootstraps(t)
    <3>1. UNCHANGED <<regVars, who, phase>>
      BY <2>4 DEF HookRegister
    <3>2. EnvTyped'
      BY <2>1, <2>2, <3>1 DEF EnvTyped
    <3> QED BY <2>2, <3>1, <3>2, RegStays, OwnStays, ReqStays
  <2> QED BY <2>3, <2>4
<1>2. CASE HookUp(t)
  <2>1. PICK given \in Peers :
          /\ AllocateAndRegister(who[t], t, TRUE, TRUE, Connected, given)
          /\ who' = [who EXCEPT ![t] = given]
          /\ WriteMetadata(t, given)
    BY <1>2 DEF HookUp
  <2>2. who[t] \in Peers \cup {NoPeer}
    BY DEF EnvTyped
  <2>3. RegTypeOK'
    BY <2>1, <2>2, AllocateTyped
  <2>4. OwnTypeOK' /\ EnvTyped'
    BY <1>2, <2>1 DEF HookUp, WriteMetadata, OwnTypeOK, EnvTyped, Phase
  <2> QED BY <1>2, <2>3, <2>4, ReqStays DEF HookUp
<1>3. CASE HookDies(t)
  <2>1. EnvTyped'
    BY <1>3, MishapTyped DEF HookDies, EnvTyped, Phase
  <2> QED BY <1>3, <2>1, RegStays, OwnStays, ReqStays DEF HookDies
<1>4. CASE MaybeRespawn(t)
  <2>1. EnvTyped'
    BY <1>4 DEF MaybeRespawn, StartWSHook, EnvTyped, OwnTypeOK, Phase
  <2> QED BY <1>4, <2>1, RegStays, OwnStays, ReqStays DEF MaybeRespawn
<1>5. CASE RuntimeExits(t)
  <2>1. OwnTypeOK' /\ EnvTyped'
    BY <1>5, EndsTyped, MishapTyped DEF RuntimeExits, EnvTyped
  <2> QED BY <1>5, <2>1, RegStays, ReqStays DEF RuntimeExits
<1>6. CASE HookReportsExit(t)
  <2> USE <1>6
  <2>1. who[t] \in Peers /\ MarkOfflineTerminal(who[t], "soft")
    BY DEF HookReportsExit, EnvTyped
  <2>2. RegTypeOK'
    BY <2>1, TerminalTyped
  <2>3. \A u \in Panes : phase'[u] \in {phase[u], "registered"}
    BY DEF HookReportsExit
  <2>4. /\ phase' \in [Panes -> Phase]
        /\ who' = [who EXCEPT ![t] = NoPeer]
        /\ UNCHANGED <<hints, notices, quiescing, faults>>
    BY <2>3 DEF HookReportsExit, EnvTyped, Phase
  <2>5. EnvTyped'
    BY <2>4 DEF EnvTyped
  <2>6. OwnTypeOK'
    BY DEF HookReportsExit, ClearPaneRuntimeState, OwnTypeOK
  <2> QED BY <2>2, <2>5, <2>6, ReqStays DEF HookReportsExit
<1>7. CASE HandlePaneDied(t)
  <2> USE <1>7
  <2>1. UNCHANGED regVars \/ \E p \in Peers : MarkOffline(p)
    BY DEF HandlePaneDied
  <2>2. RegTypeOK'
    BY <2>1, RegStays, MarkOfflineTyped
  <2>3. OwnTypeOK' /\ EnvTyped'
    BY DEF HandlePaneDied, Forget, ClearPaneRuntimeState, OwnTypeOK, EnvTyped
  <2> QED BY <2>2, <2>3, ReqStays DEF HandlePaneDied
<1>8. CASE PaneMoves(t)
  <2>1. OwnTypeOK' /\ EnvTyped'
    BY <1>8, MishapTyped DEF PaneMoves, OwnTypeOK, EnvTyped, proofs
  <2> QED BY <1>8, <2>1, RegStays, ReqStays DEF PaneMoves
<1>9. CASE HandleWindowRenamed(t)
  <2>1. OwnTypeOK' /\ EnvTyped'
    BY <1>9 DEF HandleWindowRenamed, UpdatePlacement, OwnTypeOK, EnvTyped, proofs
  <2> QED BY <1>9, <2>1, RegStays, ReqStays DEF HandleWindowRenamed
<1> QED BY <1>1, <1>2, <1>3, <1>4, <1>5, <1>6, <1>7, <1>8, <1>9 DEF PaneStep

-----------------------------------------------------------------------------
(* ... then the requests. *)

\* The surroundings stay typed when only the barrier moves.
LEMMA EnvStays ==
  ASSUME EnvTyped, UNCHANGED tmux, quiescing' \in SUBSET Peers, faults' = faults
  PROVE  EnvTyped'
BY DEF EnvTyped, tmux

\* An arriving request is typed.
LEMMA ArrivalTyped ==
  ASSUME Typed, NEW r \in Requests, ReqArrives(r)
  PROVE  Typed'
<1> USE DEF Typed
<1>1. CASE BeginSpawn(r)
  <2>1. [Idle EXCEPT !.pc = "launch"] \in ReqRec /\ Knows([Idle EXCEPT !.pc = "launch"])
    BY DEF Idle, ReqRec, Knows, Serves, Inside, Pc, Op
  <2>2. ReqTyped'
    BY <1>1, <2>1, ReqMoves DEF BeginSpawn
  <2> QED BY <1>1, <2>2, RegStays, OwnStays, EnvStays DEF BeginSpawn, EnvTyped, tmux
<1>2. ASSUME NEW p \in Peers, BeginResume(r, p) PROVE Typed'
  <2> DEFINE q == [Idle EXCEPT !.pc = "launch", !.op = "resume", !.peer = p]
  <2>1. q \in ReqRec /\ Knows(q)
    BY DEF Idle, ReqRec, Knows, Serves, Inside, Pc, Op
  <2> HIDE DEF q
  <2>2. ReqTyped'
    BY <1>2, <2>1, ReqMoves DEF BeginResume, q
  <2> QED BY <1>2, <2>2, RegStays, OwnStays, EnvStays DEF BeginResume, EnvTyped, tmux
<1>3. ASSUME NEW p \in Peers, Rehook(r, p) PROVE Typed'
  <2> USE <1>3
  <2> DEFINE t == AdoptedPane(p, pane[p])
  <2>1. pane[p] \in Panes \cup {NoPane}
    BY DEF RegTypeOK
  <2>2. Adopts(p, pane[p]) \in Panes \cup {NoPane} /\ t \in Panes
    BY <2>1, ProofTyped DEF Rehook, OwnTypeOK
  <2>3. record' \in [Panes -> Peers \cup {NoPeer, NoRecord}]
    BY <2>2, BackfillTyped DEF Rehook
  <2>4. meta' = [meta EXCEPT ![t] = p] /\ who' = [who EXCEPT ![t] = p]
        /\ phase' = [phase EXCEPT ![t] = "registered"]
    BY DEF Rehook, ReconcileWSHook, WriteMetadata, StartWSHook
  <2> HIDE DEF t
  <2>5. OwnTypeOK'
    BY <2>2, <2>3, <2>4 DEF Rehook, OwnTypeOK
  <2>6. EnvTyped'
    BY <2>2, <2>4 DEF Rehook, EnvTyped, Phase
  <2>7. ReqTyped'
    BY DoneKnows, ReqMoves DEF Rehook
  <2> QED BY <2>5, <2>6, <2>7, RegStays DEF Rehook
<1>4. ASSUME NEW p \in Peers, NEW op \in {"kill", "restart"}, BeginControl(r, op, p) PROVE Typed'
  <2> USE <1>4
  <2> DEFINE a == AdoptedPane(p, pane[p])
             f == Adopts(p, pane[p])
             o == ToStatus(state[p]) = "offline"
             q == [Idle EXCEPT !.pc = "backfill", !.op = op, !.peer = p,
                               !.at = a, !.fill = f, !.off = o]
  <2>1. pane[p] \in Panes \cup {NoPane}
    BY DEF RegTypeOK
  <2>2. a \in Panes \cup {NoPane} /\ f \in Panes \cup {NoPane} /\ o \in BOOLEAN
    BY <2>1, ProofTyped
  <2>3. req' = [req EXCEPT ![r] = q]
    BY DEF BeginControl
  <2> HIDE DEF a, f, o
  <2>4. q \in ReqRec /\ Knows(q)
    BY <2>2, ZenonT(60) DEF Idle, ReqRec, Knows, Serves, Inside, Pc, Op
  <2> HIDE DEF q
  <2>5. ReqTyped'
    BY <2>3, <2>4, ReqMoves
  <2> QED BY <2>5, RegStays, OwnStays, EnvStays DEF BeginControl, EnvTyped, tmux
<1>5. ASSUME NEW t \in Panes, LinkPane(r, t) PROVE Typed'
  <2> USE <1>5
  <2>1. PICK given \in Peers :
       /\ AllocateAndRegister(NoPeer, t, TRUE, TRUE, Connected, given)
       /\ req' = [req EXCEPT ![r] =
                    [Idle EXCEPT !.pc = "await", !.op = "link", !.peer = given, !.at = t]]
       /\ ReconcileWSHook(t, given)
    BY DEF LinkPane
  <2> DEFINE q == [Idle EXCEPT !.pc = "await", !.op = "link", !.peer = given, !.at = t]
  <2>2. q \in ReqRec /\ Knows(q)
    BY DEF Idle, ReqRec, Knows, Serves, Inside, Pc, Op
  <2>3. req' = [req EXCEPT ![r] = q]
    BY <2>1
  <2> HIDE DEF q
  <2>4. ReqTyped'
    BY <2>2, <2>3, ReqMoves
  <2>5. RegTypeOK'
    BY <2>1, AllocateTyped
  <2>6. OwnTypeOK' /\ EnvTyped'
    BY <2>1 DEF LinkPane, ReconcileWSHook, WriteMetadata, StartWSHook, OwnTypeOK, EnvTyped, Phase
  <2> QED BY <2>4, <2>5, <2>6
<1> QED BY <1>1, <1>2, <1>3, <1>4, <1>5 DEF ReqArrives

\* Every step of a request keeps the types.
LEMMA ReqStepTyped ==
  ASSUME Typed, NEW r \in Requests, ReqStep(r)
  PROVE  Typed'
<1> USE DEF Typed
<1>q. req[r] \in ReqRec /\ Knows(req[r]) /\ quiescing \in SUBSET Peers
  BY DEF ReqTyped, EnvTyped
<1>1. CASE Backfill(r)
  <2> USE <1>1
  <2>1. Knows([req[r] EXCEPT !.pc = "prove"])
    BY <1>q DEF Backfill, ReqAt, ReqRec, Knows, Serves, Inside
  <2>2. ReqTyped'
    BY <2>1, ReqGoes DEF Backfill, Pc
  <2>3. req[r].peer \in Peers /\ req[r].fill \in Panes \cup {NoPane}
    BY <1>q DEF Backfill, ReqAt, ReqRec, Knows, Serves
  <2>4. OwnTypeOK'
    BY <2>3, BackfillTyped DEF Backfill, OwnTypeOK, tmux
  <2> QED BY <1>q, <2>2, <2>4, RegStays, EnvStays DEF Backfill
<1>2. CASE Prove(r)
  <2> USE <1>2
  <2> DEFINE p == req[r].peer
             t == req[r].at
             proof == DestructivePaneProof(p, t)
             ok == IF req[r].op = "kill" THEN "kill" ELSE "quiesce"
             fill == IF t \in spawned THEN NoPane ELSE Adopts(p, t)
  <2>1. /\ p \in Peers /\ t \in Panes \cup {NoPane}
        /\ req[r].op \in {"kill", "restart"} /\ ~req[r].held
    BY <1>q DEF Prove, ReqAt, ReqRec, Knows, Serves, Inside
  <2>2. fill \in Panes \cup {NoPane} /\ (Valid(proof) => proof.at \in Panes)
    BY <2>1, ProofTyped
  <2>3. /\ BackfillPeerID(fill, p)
        /\ \/ Valid(proof) /\ req' = [req EXCEPT ![r] = [req[r] EXCEPT !.pc = ok, !.at = proof.at]]
           \/ req[r].op = "restart" /\ req' = [req EXCEPT ![r] = [req[r] EXCEPT !.pc = "quiesce", !.at = NoPane]]
           \/ req' = [req EXCEPT ![r] = Done]
           \/ req[r].op = "kill" /\ req' = [req EXCEPT ![r] = [req[r] EXCEPT !.pc = "unregister"]]
    BY <1>q, <2>1 DEF Prove, ReqTyped
  <2> HIDE DEF fill, proof
  <2>4. ASSUME Valid(proof) /\ req' = [req EXCEPT ![r] = [req[r] EXCEPT !.pc = ok, !.at = proof.at]]
        PROVE  ReqTyped'
    <3> DEFINE q == [req[r] EXCEPT !.pc = ok, !.at = proof.at]
    <3>1. q \in ReqRec /\ Knows(q)
      BY <1>q, <2>1, <2>2, <2>4 DEF ReqRec, Knows, Serves, Inside, Pc
    <3>2. req' = [req EXCEPT ![r] = q]
      BY <2>4
    <3> HIDE DEF q
    <3> QED BY <3>1, <3>2, ReqMoves
  <2>5. ASSUME req[r].op = "restart" /\ req' = [req EXCEPT ![r] = [req[r] EXCEPT !.pc = "quiesce", !.at = NoPane]]
        PROVE  ReqTyped'
    <3> DEFINE q == [req[r] EXCEPT !.pc = "quiesce", !.at = NoPane]
    <3>1. q \in ReqRec /\ Knows(q)
      BY <1>q, <2>1, <2>5 DEF ReqRec, Knows, Serves, Inside, Pc
    <3>2. req' = [req EXCEPT ![r] = q]
      BY <2>5
    <3> HIDE DEF q
    <3> QED BY <3>1, <3>2, ReqMoves
  <2>6. ASSUME req[r].op = "kill" /\ req' = [req EXCEPT ![r] = [req[r] EXCEPT !.pc = "unregister"]]
        PROVE  ReqTyped'
    <3> DEFINE q == [req[r] EXCEPT !.pc = "unregister"]
    <3>1. q \in ReqRec /\ Knows(q)
      BY <1>q, <2>1, <2>6 DEF ReqRec, Knows, Serves, Inside, Pc
    <3>2. req' = [req EXCEPT ![r] = q]
      BY <2>6
    <3> HIDE DEF q
    <3> QED BY <3>1, <3>2, ReqMoves
  <2>7. ReqTyped'
    BY <2>3, <2>4, <2>5, <2>6, DoneKnows, ReqMoves
  <2>8. OwnTypeOK'
    BY <2>1, <2>2, <2>3, BackfillTyped DEF Prove, OwnTypeOK, tmux
  <2> QED BY <1>q, <2>7, <2>8, RegStays, EnvStays DEF Prove
<1>3. CASE Quiesce(r)
  <2> USE <1>3
  <2>1. req[r].op = "restart" /\ req[r].peer \in Peers
    BY <1>q DEF Quiesce, ReqAt, Knows, Serves
  <2>2. CASE QuiesceFree(r) /\ quiescing' = quiescing \cup {req[r].peer}
             /\ req' = [req EXCEPT ![r].pc = IF req[r].at = NoPane THEN "launch" ELSE "kill",
                                   ![r].held = TRUE]
    <3> DEFINE pc == IF req[r].at = NoPane THEN "launch" ELSE "kill"
               q == [req[r] EXCEPT !.pc = pc, !.held = TRUE]
    <3>1. q \in ReqRec /\ Knows(q)
      BY <1>q, <2>1, ZenonT(60) DEF ReqRec, Knows, Serves, Inside, Pc
    <3>2. req' = [req EXCEPT ![r] = q]
      BY <1>q, <2>2 DEF ReqTyped
    <3>3. ReqTyped' /\ quiescing' \in SUBSET Peers
      BY <1>q, <2>1, <2>2, <3>1, <3>2, ReqMoves
    <3> QED BY <3>3, RegStays, OwnStays, EnvStays DEF Quiesce, tmux
  <2>3. CASE Returns(r)
    BY <1>q, <2>3, ReqReturns, RegStays, OwnStays, EnvStays DEF Quiesce, tmux
  <2> QED BY <2>2, <2>3 DEF Quiesce
<1>4. CASE KillPane(r)
  <2> USE <1>4
  <2>1. req[r].at \in Panes
    BY <1>q DEF KillPane, ReqAt, Knows
  <2>2. CASE Ends(req[r].at) /\ Goes(r, "forget") /\ UNCHANGED quiescing
    <3>1. Knows([req[r] EXCEPT !.pc = "forget"])
      BY <1>q DEF KillPane, ReqAt, ReqRec, Knows, Serves, Inside
    <3>2. ReqTyped'
      BY <2>2, <3>1, ReqGoes DEF Pc
    <3>3. OwnTypeOK' /\ EnvTyped'
      BY <1>q, <2>1, <2>2, EndsTyped DEF KillPane, EnvTyped
    <3> QED BY <3>2, <3>3, RegStays DEF KillPane
  <2>3. CASE Returns(r) /\ UNCHANGED <<live, drift, phase, who, notices>>
    <3>1. ReqTyped' /\ quiescing' \in SUBSET Peers
      BY <1>q, <2>3, ReqReturns
    <3> QED BY <2>3, <3>1, RegStays, OwnStays, EnvStays DEF KillPane, tmux
  <2> QED BY <2>2, <2>3 DEF KillPane
<1>5. CASE ForgetPane(r)
  <2> USE <1>5
  <2> DEFINE pc == IF req[r].op = "kill" THEN "unregister" ELSE "offline"
  <2>1. Knows([req[r] EXCEPT !.pc = pc]) /\ pc \in Pc
    BY <1>q DEF ForgetPane, ReqAt, ReqRec, Knows, Serves, Inside, Pc
  <2>2. Goes(r, pc)
    BY DEF ForgetPane
  <2> HIDE DEF pc
  <2>3. ReqTyped'
    BY <2>1, <2>2, ReqGoes
  <2>4. OwnTypeOK'
    BY DEF ForgetPane, Forget, ClearPaneRuntimeState, OwnTypeOK, tmux
  <2> QED BY <1>q, <2>3, <2>4, RegStays, EnvStays DEF ForgetPane
<1>6. CASE Unregister(r)
  <2>1. ReqTyped' /\ quiescing' \in SUBSET Peers
    BY <1>6, <1>q, ReqReturns DEF Unregister
  <2>2. RegTypeOK'
    BY <1>6, DeleteTyped DEF Unregister, UnregisterPeer, RegTypeOK
  <2> QED BY <1>6, <2>1, <2>2, OwnStays, EnvStays DEF Unregister, tmux
<1>7. CASE RestartOffline(r)
  <2>1. Knows([req[r] EXCEPT !.pc = "launch"]) /\ req[r].peer \in Peers
    BY <1>q, <1>7 DEF RestartOffline, ReqAt, ReqRec, Knows, Serves, Inside
  <2>2. ReqTyped'
    BY <1>7, <2>1, ReqGoes DEF RestartOffline, Pc
  <2>3. RegTypeOK'
    BY <1>7, <2>1, MarkOfflineTyped DEF RestartOffline
  <2> QED BY <1>7, <1>q, <2>2, <2>3, OwnStays, EnvStays DEF RestartOffline, tmux
<1>8. CASE Launch(r)
  <2> USE <1>8
  <2>1. PICK t \in Panes \ UserPanes :
          /\ live' = live \cup {t}
          /\ phase' = [phase EXCEPT ![t] = "starting"]
          /\ req' = [req EXCEPT ![r].pc = "record", ![r].at = t]
    BY DEF Launch
  <2> DEFINE q == [req[r] EXCEPT !.pc = "record", !.at = t]
  <2>2. q \in ReqRec /\ Knows(q)
    BY <1>q, <2>1 DEF Launch, ReqAt, ReqRec, Knows, Serves, Inside, Pc
  <2>3. req' = [req EXCEPT ![r] = q]
    BY <2>1 DEF ReqTyped
  <2> HIDE DEF q
  <2>4. ReqTyped'
    BY <2>2, <2>3, ReqMoves
  <2>5. hints' \in Seq(Peers \cup {NoPeer})
    BY <1>q DEF Launch, WriteHint, EnvTyped, ReqRec
  <2>6. OwnTypeOK' /\ EnvTyped'
    BY <2>1, <2>5 DEF Launch, OwnTypeOK, EnvTyped, Phase, proofs
  <2> QED BY <2>4, <2>6, RegStays DEF Launch
<1>9. CASE LaunchFails(r)
  <2>1. ReqTyped' /\ quiescing' \in SUBSET Peers /\ faults' \in 0..MaxFaults
    BY <1>9, <1>q, ReqReturns, MishapTyped DEF LaunchFails
  <2>2. hints' \in Seq(Peers \cup {NoPeer})
    BY <1>9, <1>q DEF LaunchFails, WriteHint, EnvTyped, ReqRec
  <2>3. EnvTyped'
    BY <1>9, <2>1, <2>2 DEF LaunchFails, EnvTyped
  <2> QED BY <1>9, <2>1, <2>3, RegStays, OwnStays DEF LaunchFails
<1>10. CASE RecordSpawn(r)
  <2>1. ReqTyped' /\ quiescing' \in SUBSET Peers
    BY <1>10, <1>q, ReqReturns DEF RecordSpawn
  <2>2. OwnTypeOK'
    BY <1>10, <1>q DEF RecordSpawn, ReqAt, Record, OwnTypeOK, tmux, Knows, ReqRec
  <2> QED BY <1>10, <2>1, <2>2, RegStays, EnvStays DEF RecordSpawn
<1>11. CASE LinkAwait(r)
  <2> USE <1>11
  <2>1. CASE Returns(r)
    BY <1>q, <2>1, ReqReturns, RegStays, OwnStays, EnvStays DEF LinkAwait, tmux
  <2>2. CASE Goes(r, "unlink") /\ UNCHANGED quiescing
    <3>1. Knows([req[r] EXCEPT !.pc = "unlink"])
      BY <1>q DEF LinkAwait, ReqAt, ReqRec, Knows, Serves, Inside
    <3>2. ReqTyped'
      BY <2>2, <3>1, ReqGoes DEF Pc
    <3> QED BY <1>q, <2>2, <3>2, RegStays, OwnStays, EnvStays DEF LinkAwait, tmux
  <2> QED BY <2>1, <2>2 DEF LinkAwait
<1>12. CASE LinkRollback(r)
  <2>1. ReqTyped' /\ quiescing' \in SUBSET Peers
    BY <1>12, <1>q, ReqReturns DEF LinkRollback
  <2>2. RegTypeOK'
    BY <1>12, DeleteTyped DEF LinkRollback, UnregisterPeer, RegTypeOK
  <2>3. OwnTypeOK'
    BY <1>12 DEF LinkRollback, ClearPaneRuntimeState, OwnTypeOK, tmux
  <2> QED BY <1>12, <2>1, <2>2, <2>3, EnvStays DEF LinkRollback
<1> QED BY <1>1, <1>2, <1>3, <1>4, <1>5, <1>6, <1>7, <1>8, <1>9, <1>10, <1>11, <1>12 DEF ReqStep

\* Every step keeps the types.
LEMMA TypedStep == ASSUME Typed, [Next]_vars PROVE Typed'
<1> USE DEF Typed
<1>1. CASE \E p \in Peers : SocketGone(p)
  <2>1. PICK p \in Peers : SocketGone(p)
    BY <1>1
  <2>2. RegTypeOK'
    BY <2>1, MarkOfflineTyped DEF SocketGone
  <2> QED BY <2>1, <2>2, OwnStays, EnvStays, ReqStays DEF SocketGone, EnvTyped, tmux
<1>2. CASE HintExpires
  <2>1. EnvTyped'
    BY <1>2, TailTyped, MishapTyped DEF HintExpires, EnvTyped
  <2> QED BY <1>2, <2>1, RegStays, OwnStays, ReqStays DEF HintExpires
<1>3. CASE DaemonRestarts
  <2> USE <1>3 DEF DaemonRestarts
  <2>1. RegTypeOK' /\ OwnTypeOK'
    BY DEF RegTypeOK, OwnTypeOK, LifecycleState, LiveState
  <2>2. EnvTyped'
    BY MishapTyped DEF EnvTyped, Phase
  <2>3. Idle \in ReqRec /\ Knows(Idle)
    BY DEF Idle, ReqRec, Knows, Serves, Inside, Pc, Op
  <2>4. ReqTyped'
    BY <2>3, DoneKnows DEF ReqTyped
  <2> QED BY <2>1, <2>2, <2>4
<1>4. CASE UNCHANGED vars
  BY <1>4, RegStays, OwnStays, EnvStays, ReqStays DEF vars, EnvTyped, tmux
<1> QED BY <1>1, <1>2, <1>3, <1>4, PaneTyped, ReqStepTyped, ArrivalTyped DEF Next

\* The types hold in every reachable state.
LEMMA TypedHolds == Spec => []Typed
BY TypedInit, TypedStep, PTL DEF Spec

\* Every reachable state is well typed, whichever requests run beside each other and
\* whatever tmux, the hooks and the daemon's restarts do in between.
THEOREM TypeCorrect == Spec => []TypeOK
<1>1. Typed => TypeOK
  BY DEF Typed, EnvTyped, ReqTyped, ReqRec, TypeOK
<1> QED BY <1>1, TypedHolds, PTL

-----------------------------------------------------------------------------
(* The barrier of a restart. *)

Holds(r, p) == req[r].held /\ req[r].peer = p

\* The barrier of a peer is up exactly while a request holds it, and one holds it.
HeldOnce ==
  \A p \in Peers :
    /\ p \in quiescing <=> \E r \in Requests : Holds(r, p)
    /\ \A r, s \in Requests : Holds(r, p) /\ Holds(s, p) => r = s

\* What a step may do to the barriers: nothing, ...
BarrierStays ==
  /\ UNCHANGED quiescing
  /\ \A r \in Requests, p \in Peers : Holds(r, p)' <=> Holds(r, p)

\* ... put one up that was down, ...
BarrierUp(r) ==
  /\ req[r].peer \notin quiescing /\ ~req[r].held
  /\ quiescing' = quiescing \cup {req[r].peer}
  /\ \A p \in Peers : Holds(r, p)' <=> p = req[r].peer
  /\ \A s \in Requests \ {r}, p \in Peers : Holds(s, p)' <=> Holds(s, p)

\* ... take down the one a request that returns holds, or all of them.
BarrierDown(r) ==
  /\ quiescing' = IF req[r].held THEN quiescing \ {req[r].peer} ELSE quiescing
  /\ \A p \in Peers : ~Holds(r, p)'
  /\ \A s \in Requests \ {r}, p \in Peers : Holds(s, p)' <=> Holds(s, p)

BarriersGone == quiescing' = {} /\ \A r \in Requests, p \in Peers : ~Holds(r, p)'

BarrierStep ==
  \/ BarrierStays
  \/ \E r \in Requests : BarrierUp(r) \/ BarrierDown(r)
  \/ BarriersGone

\* A request that moves without entering or leaving the barrier.
LEMMA BarrierKept ==
  ASSUME Typed, UNCHANGED quiescing, NEW r \in Requests, NEW q, req' = [req EXCEPT ![r] = q],
         q.held = req[r].held, q.held => q.peer = req[r].peer
  PROVE  BarrierStep
BY DEF Typed, ReqTyped, BarrierStep, BarrierStays, Holds

\* A request that only moves on neither takes nor releases the barrier.
LEMMA BarrierGoes ==
  ASSUME Typed, NEW r \in Requests, NEW pc, Goes(r, pc), UNCHANGED quiescing
  PROVE  BarrierStep
<1> DEFINE q == [req[r] EXCEPT !.pc = pc]
<1>1. req' = [req EXCEPT ![r] = q]
  BY DEF Goes, Typed, ReqTyped
<1>2. q.held = req[r].held /\ q.peer = req[r].peer
  BY DEF Typed, ReqTyped, ReqRec
<1> HIDE DEF q
<1> QED BY <1>1, <1>2, BarrierKept

\* A request that returns releases what it holds and nothing else.
LEMMA BarrierReturns ==
  ASSUME Typed, NEW r \in Requests, Returns(r)
  PROVE  BarrierStep
BY ZenonT(60) DEF Typed, ReqTyped, Returns, Done, Idle, BarrierStep, BarrierDown, Holds

\* A request that arrives was idle, and holds no barrier yet.
LEMMA BarrierArrives ==
  ASSUME Typed, NEW r \in Requests, ReqArrives(r)
  PROVE  BarrierStep
<1>1. ~req[r].held
  BY ZenonT(60) DEF ReqArrives, BeginSpawn, BeginResume, Rehook, BeginControl, LinkPane, ReqAt,
         Typed, ReqTyped, Knows, Inside
<1>2. UNCHANGED quiescing
  BY ZenonT(60) DEF ReqArrives, BeginSpawn, BeginResume, Rehook, BeginControl, LinkPane
<1>n. ASSUME NEW q, req' = [req EXCEPT ![r] = q], ~q.held PROVE BarrierStep
  BY <1>1, <1>2, <1>n DEF Typed, ReqTyped, BarrierStep, BarrierStays, Holds
<1>3. CASE BeginSpawn(r)
  <2> DEFINE q == [Idle EXCEPT !.pc = "launch"]
  <2>1. req' = [req EXCEPT ![r] = q] /\ ~q.held
    BY <1>3 DEF BeginSpawn, Idle
  <2> HIDE DEF q
  <2> QED BY <1>n, <2>1
<1>4. ASSUME NEW p \in Peers, BeginResume(r, p) PROVE BarrierStep
  <2> DEFINE q == [Idle EXCEPT !.pc = "launch", !.op = "resume", !.peer = p]
  <2>1. req' = [req EXCEPT ![r] = q] /\ ~q.held
    BY <1>4 DEF BeginResume, Idle
  <2> HIDE DEF q
  <2> QED BY <1>n, <2>1
<1>5. ASSUME NEW p \in Peers, Rehook(r, p) PROVE BarrierStep
  <2>1. req' = [req EXCEPT ![r] = Done] /\ ~Done.held
    BY <1>5 DEF Rehook, Done, Idle
  <2> QED BY <1>n, <2>1
<1>6. ASSUME NEW p \in Peers, NEW op \in {"kill", "restart"}, BeginControl(r, op, p)
      PROVE  BarrierStep
  <2> DEFINE a == AdoptedPane(p, pane[p])
             f == Adopts(p, pane[p])
             o == ToStatus(state[p]) = "offline"
             q == [Idle EXCEPT !.pc = "backfill", !.op = op, !.peer = p,
                               !.at = a, !.fill = f, !.off = o]
  <2>1. req' = [req EXCEPT ![r] = q]
    BY <1>6 DEF BeginControl
  <2> HIDE DEF a, f, o
  <2>2. ~q.held
    BY DEF Idle
  <2> HIDE DEF q
  <2> QED BY <1>n, <2>1, <2>2
<1>7. ASSUME NEW t \in Panes, LinkPane(r, t) PROVE BarrierStep
  <2>1. PICK given \in Peers :
         req' = [req EXCEPT ![r] =
                    [Idle EXCEPT !.pc = "await", !.op = "link", !.peer = given, !.at = t]]
    BY <1>7 DEF LinkPane
  <2> DEFINE q == [Idle EXCEPT !.pc = "await", !.op = "link", !.peer = given, !.at = t]
  <2>2. req' = [req EXCEPT ![r] = q] /\ ~q.held
    BY <2>1 DEF Idle
  <2> HIDE DEF q
  <2> QED BY <1>n, <2>2
<1> QED BY <1>3, <1>4, <1>5, <1>6, <1>7 DEF ReqArrives

\* Every step of a request moves the barrier as BarrierStep says.
LEMMA BarrierReqStep ==
  ASSUME Typed, NEW r \in Requests, ReqStep(r)
  PROVE  BarrierStep
<1>q. req[r] \in ReqRec /\ Knows(req[r]) /\ req \in [Requests -> ReqRec]
  BY DEF Typed, ReqTyped
<1>1. CASE Returns(r)
  BY <1>1, BarrierReturns
<1>2. CASE \E pc \in Pc : Goes(r, pc) /\ UNCHANGED quiescing
  BY <1>2, BarrierGoes
<1>3. CASE Prove(r)
  <2> DEFINE p == req[r].peer
             proof == DestructivePaneProof(p, req[r].at)
  <2>1. ~req[r].held /\ UNCHANGED quiescing
    BY <1>3, <1>q DEF Prove, ReqAt, Knows, Inside
  <2>2. \/ \E pc, t : req' = [req EXCEPT ![r] = [req[r] EXCEPT !.pc = pc, !.at = t]]
        \/ req' = [req EXCEPT ![r] = Done]
        \/ \E pc : req' = [req EXCEPT ![r] = [req[r] EXCEPT !.pc = pc]]
    BY <1>3, <1>q DEF Prove
  <2>3. ASSUME NEW pc, NEW t, req' = [req EXCEPT ![r] = [req[r] EXCEPT !.pc = pc, !.at = t]]
        PROVE  BarrierStep
    <3> DEFINE q == [req[r] EXCEPT !.pc = pc, !.at = t]
    <3>1. q.held = req[r].held /\ q.peer = req[r].peer
      BY <1>q DEF ReqRec
    <3> HIDE DEF q
    <3> QED BY <2>1, <2>3, <3>1, BarrierKept DEF q
  <2>4. CASE req' = [req EXCEPT ![r] = Done]
    BY <1>q, <2>1, <2>4 DEF Done, Idle, BarrierStep, BarrierStays, Holds
  <2>5. ASSUME NEW pc, req' = [req EXCEPT ![r] = [req[r] EXCEPT !.pc = pc]]
        PROVE  BarrierStep
    <3> DEFINE q == [req[r] EXCEPT !.pc = pc]
    <3>1. q.held = req[r].held /\ q.peer = req[r].peer
      BY <1>q DEF ReqRec
    <3> HIDE DEF q
    <3> QED BY <2>1, <2>5, <3>1, BarrierKept DEF q
  <2> QED BY <2>2, <2>3, <2>4, <2>5
<1>4. CASE Quiesce(r)
  <2>1. ~req[r].held
    BY <1>4, <1>q DEF Quiesce, ReqAt, Knows, Inside
  <2>2. CASE QuiesceFree(r) /\ quiescing' = quiescing \cup {req[r].peer}
             /\ req' = [req EXCEPT ![r].pc = IF req[r].at = NoPane THEN "launch" ELSE "kill",
                                   ![r].held = TRUE]
    BY <1>q, <2>1, <2>2 DEF QuiesceFree, BarrierStep, BarrierUp, Holds, ReqRec
  <2> QED BY <1>1, <1>4, <2>2 DEF Quiesce
<1>5. CASE Launch(r)
  <2>1. PICK t : req' = [req EXCEPT ![r].pc = "record", ![r].at = t]
    BY <1>5 DEF Launch
  <2> DEFINE q == [req[r] EXCEPT !.pc = "record", !.at = t]
  <2>2. req' = [req EXCEPT ![r] = q] /\ q.held = req[r].held /\ q.peer = req[r].peer
    BY <1>q, <2>1 DEF ReqRec
  <2> HIDE DEF q
  <2> QED BY <1>5, <2>2, BarrierKept DEF Launch
<1>6. CASE \/ Backfill(r) \/ KillPane(r) \/ ForgetPane(r) \/ Unregister(r) \/ RestartOffline(r)
           \/ LaunchFails(r) \/ RecordSpawn(r) \/ LinkAwait(r) \/ LinkRollback(r)
  <2>1. Returns(r) \/ \E pc \in Pc : Goes(r, pc) /\ UNCHANGED quiescing
    BY <1>6 DEF Backfill, KillPane, ForgetPane, Unregister, RestartOffline, LaunchFails,
                RecordSpawn, LinkAwait, LinkRollback, Pc
  <2> QED BY <1>1, <1>2, <2>1
<1> QED BY <1>3, <1>4, <1>5, <1>6 DEF ReqStep

\* So does every step of the system.
LEMMA BarrierMoves == ASSUME Typed, [Next]_vars PROVE BarrierStep
<1>1. CASE UNCHANGED <<req, quiescing>>
  BY <1>1 DEF BarrierStep, BarrierStays, Holds
<1>2. ASSUME NEW t \in Panes, PaneStep(t) PROVE UNCHANGED <<req, quiescing>>
  BY <1>2 DEF PaneStep, HookRegister, HookUp, HookDies, MaybeRespawn, RuntimeExits,
              HookReportsExit, HandlePaneDied, PaneMoves, HandleWindowRenamed
<1>3. (\E p \in Peers : SocketGone(p)) \/ HintExpires \/ UNCHANGED vars => UNCHANGED <<req, quiescing>>
  BY DEF SocketGone, HintExpires, vars
<1>4. CASE DaemonRestarts
  BY <1>4 DEF DaemonRestarts, BarrierStep, BarriersGone, Holds, Done, Idle
<1> QED BY <1>1, <1>2, <1>3, <1>4, BarrierReqStep, BarrierArrives DEF Next

\* No step makes a second holder of a peer's barrier.
LEMMA HeldOnceStep == ASSUME Typed, HeldOnce, [Next]_vars PROVE HeldOnce'
<1>1. CASE BarrierStays
  BY <1>1 DEF BarrierStays, HeldOnce
<1>2. ASSUME NEW r \in Requests, BarrierUp(r) PROVE HeldOnce'
  BY <1>2 DEF BarrierUp, HeldOnce, Holds
<1>3. ASSUME NEW r \in Requests, BarrierDown(r) PROVE HeldOnce'
  BY <1>3 DEF BarrierDown, HeldOnce, Holds
<1>4. CASE BarriersGone
  BY <1>4 DEF BarriersGone, HeldOnce
<1> QED BY <1>1, <1>2, <1>3, <1>4, BarrierMoves DEF BarrierStep

\* The barrier of a peer is up exactly while one restart of it is between
\* BeginQuiesce and its deferred EndQuiesce, whatever else is going on and however
\* that restart ends; the daemon's own restart takes both away together.
THEOREM BarrierExclusive == Spec => []RestartBarrier
<1>1. Init => HeldOnce
  BY DEF Init, HeldOnce, Holds, Idle
<1>2. Typed /\ HeldOnce => RestartBarrier
  <2> SUFFICES ASSUME Typed, HeldOnce, NEW p \in Peers
               PROVE  LET inside == {r \in Requests : Restarting(r, p)}
                      IN IF p \in quiescing THEN Cardinality(inside) = 1 ELSE inside = {}
    BY DEF RestartBarrier
  <2> DEFINE inside == {r \in Requests : Restarting(r, p)}
  <2>1. \A r \in Requests : Holds(r, p) <=> Restarting(r, p)
    BY DEF Typed, ReqTyped, Knows, Holds, Restarting, Inside
  <2>2. CASE p \in quiescing
    <3>1. PICK r \in Requests : Holds(r, p)
      BY <2>2 DEF HeldOnce
    <3>2. inside = {r}
      BY <2>1, <3>1 DEF HeldOnce
    <3> QED BY <2>2, <3>2, FS_Singleton
  <2>3. CASE p \notin quiescing
    BY <2>1, <2>3 DEF HeldOnce
  <2> QED BY <2>2, <2>3
<1> QED BY <1>1, <1>2, TypedInit, TypedStep, HeldOnceStep, PTL DEF Spec

-----------------------------------------------------------------------------
(* The owner of an ownership record. *)

Recording(r) == req[r].pc = "record"

\* A pane has no record before it is launched and until the one request that
\* launched it writes it: a record is written over none, and backfilled only over
\* one that names nobody.
Unrecorded ==
  /\ \A t \in Panes : phase[t] = "unused" => record[t] = NoRecord
  /\ \A r \in Requests : Recording(r) =>
       phase[req[r].at] # "unused" /\ record[req[r].at] = NoRecord
  /\ \A r, s \in Requests : Recording(r) /\ Recording(s) /\ req[r].at = req[s].at => r = s

\* A pane that was launched stays so, ...
LaunchedStays == \A t \in Panes : phase[t] # "unused" => phase'[t] # "unused"

\* ... a record appears only through RecordSpawn, ...
NoneWritten ==
  \A t \in Panes :
    /\ record[t] = NoRecord => record'[t] = NoRecord
    /\ record[t] \in Peers => record'[t] \in {record[t], NoRecord}

\* ... and no request comes to the step before it but by launching a pane.
NoneRecording ==
  \A r \in Requests : Recording(r)' => Recording(r) /\ req'[r].at = req[r].at

\* Backfilling touches neither a pane without a record nor one that names a peer.
LEMMA BackfillWrites ==
  ASSUME OwnTypeOK, NEW t \in Panes \cup {NoPane}, NEW p, BackfillPeerID(t, p)
  PROVE  NoneWritten
BY DEF OwnTypeOK, BackfillPeerID, NoneWritten

\* Forgetting a pane binds no record.
LEMMA ForgetWrites == ASSUME OwnTypeOK, NEW t, Forget(t) PROVE NoneWritten
BY DEF OwnTypeOK, Forget, NoneWritten

\* Nor does leaving the records alone.
LEMMA NothingWritten == ASSUME UNCHANGED record PROVE NoneWritten
BY DEF NoneWritten

\* Such a step keeps the invariant.
LEMMA UnrecordedKept ==
  ASSUME Typed, Unrecorded, LaunchedStays, NoneWritten, NoneRecording
  PROVE  Unrecorded'
<1>1. \A r \in Requests : Recording(r) => req[r].at \in Panes
  BY DEF Typed, ReqTyped, Knows, Recording
<1> QED BY <1>1 DEF Unrecorded, LaunchedStays, NoneWritten, NoneRecording

\* Every pane's own step is one, ...
LEMMA PaneRecords ==
  ASSUME Typed, NEW t \in Panes, PaneStep(t)
  PROVE  LaunchedStays /\ NoneWritten /\ UNCHANGED req
<1> USE DEF PaneStep
<1>1. UNCHANGED req
  BY DEF HookRegister, HookUp, HookDies, MaybeRespawn, RuntimeExits, HookReportsExit,
         HandlePaneDied, PaneMoves, HandleWindowRenamed
<1>2. NoneWritten
  <2>1. CASE HandlePaneDied(t)
    BY <2>1, ForgetWrites DEF HandlePaneDied, Typed
  <2>2. CASE ~HandlePaneDied(t)
    <3>1. UNCHANGED record
      BY <2>2 DEF HookRegister, HookUp, HookDies, MaybeRespawn, RuntimeExits,
            HookReportsExit, PaneMoves, HandleWindowRenamed, UpdatePlacement, proofs
    <3> QED BY <3>1, NothingWritten
  <2> QED BY <2>1, <2>2
<1>3. LaunchedStays
  <2>1. CASE HookRegister(t)
    BY <2>1 DEF HookRegister, LaunchedStays, Typed, EnvTyped
  <2>2. CASE HookReportsExit(t)
    <3>1. \A u \in Panes : phase'[u] \in {phase[u], "registered"}
      BY <2>2 DEF HookReportsExit
    <3> QED BY <3>1 DEF LaunchedStays
  <2>3. CASE ~HookRegister(t) /\ ~HookReportsExit(t)
    BY <2>3 DEF HookUp, HookDies, MaybeRespawn, StartWSHook, RuntimeExits, Ends,
                HandlePaneDied, PaneMoves, HandleWindowRenamed, LaunchedStays, Typed, EnvTyped
  <2> QED BY <2>1, <2>2, <2>3
<1> QED BY <1>1, <1>2, <1>3

\* ... every request that arrives, ...
LEMMA ArrivalRecords ==
  ASSUME Typed, NEW r \in Requests, ReqArrives(r)
  PROVE  LaunchedStays /\ NoneWritten /\ NoneRecording
<1>n. ASSUME NEW q, req' = [req EXCEPT ![r] = q], q.pc # "record" PROVE NoneRecording
  BY <1>n DEF Typed, ReqTyped, NoneRecording, Recording
<1>1. CASE BeginSpawn(r)
  <2> DEFINE q == [Idle EXCEPT !.pc = "launch"]
  <2>1. req' = [req EXCEPT ![r] = q] /\ q.pc # "record"
    BY <1>1 DEF BeginSpawn, Idle
  <2> HIDE DEF q
  <2>2. NoneRecording
    BY <1>n, <2>1
  <2> QED BY <1>1, <2>2, NothingWritten DEF BeginSpawn, LaunchedStays, tmux, proofs
<1>2. ASSUME NEW p \in Peers, BeginResume(r, p)
      PROVE  LaunchedStays /\ NoneWritten /\ NoneRecording
  <2> DEFINE q == [Idle EXCEPT !.pc = "launch", !.op = "resume", !.peer = p]
  <2>1. req' = [req EXCEPT ![r] = q] /\ q.pc # "record"
    BY <1>2 DEF BeginResume, Idle
  <2> HIDE DEF q
  <2>2. NoneRecording
    BY <1>n, <2>1
  <2> QED BY <1>2, <2>2, NothingWritten DEF BeginResume, LaunchedStays, tmux, proofs
<1>3. ASSUME NEW p \in Peers, Rehook(r, p)
      PROVE  LaunchedStays /\ NoneWritten /\ NoneRecording
  <2>1. req' = [req EXCEPT ![r] = Done] /\ Done.pc # "record"
    BY <1>3 DEF Rehook, Done, Idle
  <2>2. Adopts(p, pane[p]) \in Panes \cup {NoPane} /\ AdoptedPane(p, pane[p]) \in Panes
    BY <1>3, ProofTyped DEF Rehook, Typed, RegTypeOK, OwnTypeOK
  <2>3. NoneWritten
    BY <1>3, <2>2, BackfillWrites DEF Rehook, Typed
  <2>4. LaunchedStays
    BY <1>3 DEF Rehook, ReconcileWSHook, StartWSHook, LaunchedStays, Typed, EnvTyped
  <2> QED BY <1>n, <2>1, <2>3, <2>4
<1>4. ASSUME NEW p \in Peers, NEW op \in {"kill", "restart"}, BeginControl(r, op, p)
      PROVE  LaunchedStays /\ NoneWritten /\ NoneRecording
  <2> DEFINE a == AdoptedPane(p, pane[p])
             f == Adopts(p, pane[p])
             o == ToStatus(state[p]) = "offline"
             q == [Idle EXCEPT !.pc = "backfill", !.op = op, !.peer = p,
                               !.at = a, !.fill = f, !.off = o]
  <2>1. req' = [req EXCEPT ![r] = q]
    BY <1>4 DEF BeginControl
  <2> HIDE DEF a, f, o
  <2>2. q.pc # "record"
    BY DEF Idle
  <2> HIDE DEF q
  <2>3. NoneRecording
    BY <1>n, <2>1, <2>2
  <2> QED BY <1>4, <2>3, NothingWritten DEF BeginControl, LaunchedStays, tmux, proofs
<1>5. ASSUME NEW t \in Panes, LinkPane(r, t)
      PROVE  LaunchedStays /\ NoneWritten /\ NoneRecording
  <2>1. PICK given \in Peers :
         /\ req' = [req EXCEPT ![r] =
                    [Idle EXCEPT !.pc = "await", !.op = "link", !.peer = given, !.at = t]]
         /\ ReconcileWSHook(t, given)
    BY <1>5 DEF LinkPane
  <2> DEFINE q == [Idle EXCEPT !.pc = "await", !.op = "link", !.peer = given, !.at = t]
  <2>2. req' = [req EXCEPT ![r] = q] /\ q.pc # "record"
    BY <2>1 DEF Idle
  <2> HIDE DEF q
  <2>3. NoneRecording
    BY <1>n, <2>2
  <2>4. LaunchedStays
    BY <2>1 DEF ReconcileWSHook, StartWSHook, LaunchedStays, Typed, EnvTyped
  <2> QED BY <1>5, <2>3, <2>4, NothingWritten DEF LinkPane
<1> QED BY <1>1, <1>2, <1>3, <1>4, <1>5 DEF ReqArrives

\* ... and every step of a request but its launch and the record it writes.
LEMMA ReqRecords ==
  ASSUME Typed, NEW r \in Requests, ReqStep(r), ~Launch(r), ~RecordSpawn(r)
  PROVE  LaunchedStays /\ NoneWritten /\ NoneRecording
<1>q. req[r] \in ReqRec /\ Knows(req[r]) /\ req \in [Requests -> ReqRec]
  BY DEF Typed, ReqTyped
<1>1. NoneRecording
  <2>n. ASSUME NEW q, req' = [req EXCEPT ![r] = q], q.pc # "record" PROVE NoneRecording
    BY <1>q, <2>n DEF NoneRecording, Recording
  <2>1. CASE Returns(r)
    <3>1. req' = [req EXCEPT ![r] = Done] /\ Done.pc # "record"
      BY <2>1 DEF Returns, Done, Idle
    <3> QED BY <2>n, <3>1
  <2>2. ASSUME NEW pc \in Pc \ {"record"}, Goes(r, pc) PROVE NoneRecording
    BY <1>q, <2>2 DEF Goes, NoneRecording, Recording, ReqRec
  <2>3. CASE Prove(r)
    <3>1. req'[r].pc # "record" /\ \A s \in Requests \ {r} : req'[s] = req[s]
      <4> DEFINE proof == DestructivePaneProof(req[r].peer, req[r].at)
                 skip == req[r].off /\ proof.error \in {"missing_pane", "pane_not_live"}
                 ok == IF req[r].op = "kill" THEN "kill" ELSE "quiesce"
                 refused == IF req[r].op = "kill" THEN "unregister" ELSE "idle"
      <4>1. req' = [req EXCEPT ![r] =
                  IF Valid(proof) THEN [@ EXCEPT !.pc = ok, !.at = proof.at]
                  ELSE IF req[r].op = "restart" /\ skip
                    THEN [@ EXCEPT !.pc = "quiesce", !.at = NoPane]
                  ELSE IF refused = "idle" THEN Done
                  ELSE [@ EXCEPT !.pc = refused]]
        BY <2>3 DEF Prove
      <4> HIDE DEF proof, skip
      <4> QED BY <1>q, <4>1 DEF ReqRec, Done, Idle
    <3> QED BY <3>1 DEF NoneRecording, Recording
  <2>4. CASE Quiesce(r)
    <3>1. CASE req' = [req EXCEPT ![r].pc = IF req[r].at = NoPane THEN "launch" ELSE "kill",
                                  ![r].held = TRUE]
      BY <1>q, <3>1 DEF ReqRec, NoneRecording, Recording
    <3> QED BY <2>1, <2>4, <3>1 DEF Quiesce
  <2>5. CASE ~Prove(r) /\ ~Quiesce(r)
    <3>1. Returns(r) \/ \E pc \in Pc \ {"record"} : Goes(r, pc)
      BY <2>5 DEF ReqStep, Backfill, KillPane, ForgetPane, Unregister, RestartOffline,
                  LaunchFails, LinkAwait, LinkRollback, Pc
    <3> QED BY <2>1, <2>2, <3>1
  <2> QED BY <2>3, <2>4, <2>5
<1>2. NoneWritten
  <2>1. CASE Backfill(r)
    BY <1>q, <2>1, BackfillWrites DEF Backfill, ReqRec, Typed
  <2>2. CASE Prove(r)
    <3> DEFINE fill == IF req[r].at \in spawned THEN NoPane ELSE Adopts(req[r].peer, req[r].at)
    <3>1. fill \in Panes \cup {NoPane} /\ BackfillPeerID(fill, req[r].peer)
      BY <1>q, <2>2, ProofTyped DEF Prove, Typed, ReqRec
    <3> HIDE DEF fill
    <3> QED BY <3>1, BackfillWrites DEF Typed
  <2>3. CASE ForgetPane(r)
    BY <2>3, ForgetWrites DEF ForgetPane, Typed
  <2>4. CASE ~Backfill(r) /\ ~Prove(r) /\ ~ForgetPane(r)
    <3>1. UNCHANGED record
      BY <2>4 DEF ReqStep, Quiesce, KillPane, Unregister, RestartOffline, LaunchFails,
                  LinkAwait, LinkRollback, proofs
    <3> QED BY <3>1, NothingWritten
  <2> QED BY <2>1, <2>2, <2>3, <2>4
<1>3. LaunchedStays
  <2>1. CASE KillPane(r)
    BY <2>1 DEF KillPane, Ends, LaunchedStays, Typed, EnvTyped
  <2>2. CASE ~KillPane(r)
    BY <2>2 DEF ReqStep, Backfill, Prove, Quiesce, ForgetPane, Unregister, RestartOffline,
                LaunchFails, LinkAwait, LinkRollback, LaunchedStays, tmux
  <2> QED BY <2>1, <2>2
<1> QED BY <1>1, <1>2, <1>3

\* A launch takes a pane nobody had, which has no record.
LEMMA LaunchRecords ==
  ASSUME Typed, Unrecorded, NEW r \in Requests, Launch(r)
  PROVE  Unrecorded'
<1>1. PICK t \in Panes :
        /\ phase[t] = "unused"
        /\ phase' = [phase EXCEPT ![t] = "starting"]
        /\ req' = [req EXCEPT ![r].pc = "record", ![r].at = t]
  BY DEF Launch
<1>2. record' = record /\ req'[r].at = t /\ \A s \in Requests \ {r} : req'[s] = req[s]
  BY <1>1 DEF Launch, proofs, Typed, ReqTyped, ReqRec
<1>3. \A s \in Requests : Recording(s) => req[s].at \in Panes /\ req[s].at # t
  BY <1>1 DEF Unrecorded, Typed, ReqTyped, Knows, Recording
<1>4. \A u \in Panes : phase'[u] = IF u = t THEN "starting" ELSE phase[u]
  BY <1>1 DEF Typed, EnvTyped
<1>5. \A s \in Requests \ {r} : Recording(s)' <=> Recording(s)
  BY <1>2 DEF Recording
<1>6. \A u \in Panes : phase'[u] = "unused" => record'[u] = NoRecord
  BY <1>2, <1>4 DEF Unrecorded
<1>7. \A s \in Requests : Recording(s)' =>
        phase'[req'[s].at] # "unused" /\ record'[req'[s].at] = NoRecord
  <2>1. ASSUME NEW s \in Requests \ {r}, Recording(s)'
        PROVE  phase'[req'[s].at] # "unused" /\ record'[req'[s].at] = NoRecord
    <3>1. req'[s].at = req[s].at /\ Recording(s)
      BY <1>2, <1>5, <2>1
    <3> QED BY <1>2, <1>3, <1>4, <3>1 DEF Unrecorded
  <2>2. phase'[req'[r].at] # "unused" /\ record'[req'[r].at] = NoRecord
    BY <1>1, <1>2, <1>4 DEF Unrecorded
  <2> QED BY <2>1, <2>2
<1>8. \A s, u \in Requests : Recording(s)' /\ Recording(u)' /\ req'[s].at = req'[u].at => s = u
  BY <1>2, <1>3, <1>5 DEF Unrecorded
<1> QED BY <1>6, <1>7, <1>8 DEF Unrecorded

\* The request that launched a pane writes its record, over none.
LEMMA SpawnRecords ==
  ASSUME Typed, Unrecorded, NEW r \in Requests, RecordSpawn(r)
  PROVE  /\ Unrecorded'
         /\ \A t \in Panes : record[t] \in Peers => record'[t] = record[t]
<1> DEFINE t == req[r].at
<1>1. t \in Panes /\ phase[t] # "unused" /\ record[t] = NoRecord /\ Recording(r)
  BY DEF RecordSpawn, ReqAt, Unrecorded, Recording, Typed, ReqTyped, Knows
<1>2. /\ \A u \in Panes \ {t} : record'[u] = record[u]
      /\ phase' = phase
  BY DEF RecordSpawn, Record, tmux, Typed, OwnTypeOK
<1>3. /\ ~Recording(r)'
      /\ \A s \in Requests \ {r} : req'[s] = req[s]
  BY DEF RecordSpawn, Returns, Done, Idle, Recording, Typed, ReqTyped
<1>4. \A s \in Requests \ {r} : Recording(s) => req[s].at \in Panes \ {t}
  BY <1>1 DEF Unrecorded, Typed, ReqTyped, Knows, Recording
<1> HIDE DEF t
<1>5. Unrecorded'
  BY <1>1, <1>2, <1>3, <1>4 DEF Unrecorded, Recording
<1>6. \A u \in Panes : record[u] \in Peers => record'[u] = record[u]
  BY <1>1, <1>2
<1> QED BY <1>5, <1>6

BoundStep == \A t \in Panes : record[t] \in Peers => record'[t] \in {record[t], NoRecord}

\* Every step binds a record at most once, and only an unbound one.
LEMMA UnrecordedStep ==
  ASSUME Typed, Unrecorded, [Next]_vars
  PROVE  Unrecorded' /\ BoundStep
<1>1. ASSUME LaunchedStays, NoneWritten, NoneRecording PROVE Unrecorded' /\ BoundStep
  BY <1>1, UnrecordedKept DEF NoneWritten, BoundStep
<1>2. ASSUME UNCHANGED <<req, phase, record>> PROVE Unrecorded' /\ BoundStep
  BY <1>2 DEF Unrecorded, BoundStep, Recording
<1>3. ASSUME NEW t \in Panes, PaneStep(t) PROVE Unrecorded' /\ BoundStep
  BY <1>1, <1>3, PaneRecords DEF NoneRecording, Recording
<1>4. ASSUME NEW r \in Requests, ReqStep(r) PROVE Unrecorded' /\ BoundStep
  <2>1. CASE Launch(r)
    BY <2>1, LaunchRecords DEF Launch, proofs, BoundStep
  <2>2. CASE RecordSpawn(r)
    BY <2>2, SpawnRecords DEF BoundStep
  <2> QED BY <1>1, <1>4, <2>1, <2>2, ReqRecords
<1>5. ASSUME NEW r \in Requests, ReqArrives(r) PROVE Unrecorded' /\ BoundStep
  BY <1>1, <1>5, ArrivalRecords
<1>6. CASE DaemonRestarts
  BY <1>1, <1>6, NothingWritten
     DEF DaemonRestarts, LaunchedStays, NoneRecording, Recording, Done, Idle
<1>7. CASE UNCHANGED vars \/ HintExpires \/ \E p \in Peers : SocketGone(p)
  BY <1>2, <1>7 DEF vars, HintExpires, SocketGone, tmux, proofs
<1> QED BY <1>3, <1>4, <1>5, <1>6, <1>7 DEF Next

\* An ownership record that names a peer is given to no other: neither the backfill
\* of a correlated record, taken before the request's next step, nor the record of a
\* launch ever replaces an owner.
THEOREM RecordOwnerKept == Spec => RecordBoundOnce
<1>1. Init => Unrecorded
  BY DEF Init, OwnInit, Unrecorded, Idle, Recording
<1>2. Spec => [](Typed /\ Unrecorded)
  BY <1>1, TypedInit, TypedStep, UnrecordedStep, PTL DEF Spec
<1>3. Typed /\ Unrecorded /\ [Next]_vars => [BoundStep]_vars
  BY UnrecordedStep
<1> QED BY <1>2, <1>3, PTL DEF Spec, RecordBoundOnce, BoundStep
=============================================================================
