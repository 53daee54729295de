------------------------ MODULE PeerLiveness_proofs ------------------------
(***************************************************************************)
(* Theorems about PeerLiveness, for every number of peers, panes, sockets  *)
(* and requests.                                                           *)
(***************************************************************************)
EXTENDS PeerLiveness, PeerRegistry_proofs

USE DEF Claims, Age

-----------------------------------------------------------------------------
(* Types.  The only bound that takes an argument is that of the strikes: the *)
(* last strike resets the count in the step that reaches the limit.          *)

\* The variables of the goroutines, apart from the registry's.
ProcTypeOK ==
  /\ ws \in [Conns -> [pc : WsPc, id : Peers \cup {NoPeer}, frame : PeerStatus]]
  /\ req \in [Reqs -> [pc : ReqPc, id : Peers \cup {NoPeer}]]
  /\ repair \in [pc : RepairPc, cand : SUBSET Peers,
                 marker : [Peers -> Panes \cup {NoPane}], cur : Peers \cup {NoPeer}]
  /\ strikes \in [Peers -> 0 .. (StrikeLimit - 1)]
  /\ back \in SUBSET Peers

\* A handler or a request that is not idle knows its peer; so does the repair
\* worker while it severs one.
KnowsPeer ==
  /\ \A c \in Conns : ws[c].pc # "idle" => ws[c].id \in Peers
  /\ \A r \in Reqs : req[r].pc # "idle" => req[r].id \in Peers
  /\ repair.pc = "pingSever" => repair.cur \in Peers

\* What the type proof carries from step to step.
TInv == RegTypeOK /\ T!TransTypeOK /\ ProcTypeOK /\ KnowsPeer

\* Storing, removing and closing a socket keep the transport's types.
LEMMA TransportTyped ==
  ASSUME T!TransTypeOK, NEW p \in Peers, NEW c \in Conns,
         T!Connect(p, c) \/ T!Disconnect(p, c) \/ T!Close(p)
  PROVE  T!TransTypeOK'
BY DEF T!TransTypeOK, T!Connect, T!Disconnect, T!Close

\* Severing alone: no socket need be named.
LEMMA CloseTyped ==
  ASSUME T!TransTypeOK, NEW p \in Peers, T!Close(p)
  PROVE  T!TransTypeOK'
BY DEF T!TransTypeOK, T!Close

\* Moving a handler keeps its type and its peer.
LEMMA WsGoesTyped ==
  ASSUME ProcTypeOK, KnowsPeer, NEW c \in Conns, NEW pc \in WsPc, NEW p \in Peers,
         NEW s \in PeerStatus, WsGoes(c, pc, p, s),
         UNCHANGED <<req, repair, strikes>>, back' \in SUBSET Peers
  PROVE  (ProcTypeOK /\ KnowsPeer)'
BY DEF WsGoes, ProcTypeOK, KnowsPeer

\* So does a step on behalf of the peer it already serves.
LEMMA WsMovesTyped ==
  ASSUME ProcTypeOK, KnowsPeer, NEW c \in Conns, NEW pc \in WsPc, ws[c].pc # "idle",
         WsMoves(c, pc), UNCHANGED <<req, repair, strikes, back>>
  PROVE  (ProcTypeOK /\ KnowsPeer)'
<1>1. ws[c].id \in Peers /\ "online" \in PeerStatus /\ back' \in SUBSET Peers
  BY DEF KnowsPeer, PeerStatus, ProcTypeOK
<1> QED BY <1>1, WsGoesTyped DEF WsMoves

\* So does the end of the handler.
LEMMA WsDoneTyped ==
  ASSUME ProcTypeOK, KnowsPeer, NEW c \in Conns,
         WsDone(c), UNCHANGED <<req, repair, strikes, back>>
  PROVE  (ProcTypeOK /\ KnowsPeer)'
BY DEF WsDone, IdleWs, WsPc, PeerStatus, ProcTypeOK, KnowsPeer

\* Moving a request keeps its type and its peer.
LEMMA ReqGoesTyped ==
  ASSUME ProcTypeOK, KnowsPeer, NEW r \in Reqs, NEW pc \in ReqPc, NEW p \in Peers,
         ReqGoes(r, pc, p), UNCHANGED <<ws, repair, strikes>>, back' \in SUBSET Peers
  PROVE  (ProcTypeOK /\ KnowsPeer)'
BY DEF ReqGoes, ProcTypeOK, KnowsPeer

\* Ending a request does too.
LEMMA ReqDoneTyped ==
  ASSUME ProcTypeOK, KnowsPeer, NEW r \in Reqs,
         ReqDone(r), UNCHANGED <<ws, repair, strikes>>, back' \in SUBSET Peers
  PROVE  (ProcTypeOK /\ KnowsPeer)'
BY DEF ReqDone, IdleReq, ReqPc, ProcTypeOK, KnowsPeer

\* Moving the repair worker keeps its type.
LEMMA RepairGoesTyped ==
  ASSUME ProcTypeOK, KnowsPeer, NEW pc \in RepairPc \ {"pingSever"}, NEW cand \in SUBSET Peers,
         RepairGoes(pc, cand), UNCHANGED <<ws, req>>, back' \in SUBSET Peers,
         strikes' \in [Peers -> 0 .. (StrikeLimit - 1)]
  PROVE  (ProcTypeOK /\ KnowsPeer)'
BY DEF RepairGoes, IdleRepair, NoPanes, ProcTypeOK, KnowsPeer

\* Steps of a /ws handler.
LEMMA WsTyped ==
  ASSUME TInv, NEW c \in Conns,
         WsRegister(c) \/ WsRead(c) \/ WsRename(c) \/ SocketDrops(c) \/ WsStep(c)
  PROVE  TInv'
<1> USE DEF TInv
<1>a. back \in SUBSET Peers
  BY DEF ProcTypeOK
<1>b. ws[c].pc # "idle" => ws[c].id \in Peers
  BY DEF KnowsPeer
<1>1. CASE WsRegister(c)
  <2>1. PICK claim \in Claims, t \in Panes \cup {NoPane}, proof \in BOOLEAN,
            matches \in BOOLEAN, given \in Peers :
          /\ AllocateAndRegister(claim, t, proof, matches, T!Connected, given)
          /\ WsGoes(c, "registered", given, "online")
          /\ back' = back \cup {given}
    BY <1>1 DEF WsRegister
  <2>2. RegTypeOK'
    BY <2>1, AllocateTyped
  <2>3. T!TransTypeOK'
    BY <1>1 DEF WsRegister, T!TransTypeOK
  <2>4. "registered" \in WsPc /\ "online" \in PeerStatus
    BY DEF WsPc, PeerStatus
  <2>5. (ProcTypeOK /\ KnowsPeer)'
    BY <1>1, <1>a, <2>1, <2>4, WsGoesTyped DEF WsRegister
  <2> QED BY <2>2, <2>3, <2>5
<1>2. CASE WsConnect(c)
  <2>1. T!TransTypeOK'
    BY <1>2, <1>b, TransportTyped DEF WsConnect, WsAt
  <2>2. (ProcTypeOK /\ KnowsPeer)'
    BY <1>2, WsMovesTyped DEF WsConnect, WsAt, WsPc
  <2> QED BY <1>2, <2>1, <2>2 DEF WsConnect, regVars, RegTypeOK
<1>3. CASE WsRead(c)
  <2>1. PICK s \in PeerStatus \cap load : WsGoes(c, "dispatch", ws[c].id, s)
    BY <1>3 DEF WsRead
  <2>2. s \in PeerStatus /\ "dispatch" \in WsPc
    BY DEF WsPc
  <2>3. (ProcTypeOK /\ KnowsPeer)'
    BY <1>3, <1>a, <1>b, <2>1, <2>2, WsGoesTyped DEF WsRead, WsAt
  <2> QED BY <1>3, <2>3 DEF WsRead, regVars, RegTypeOK, T!TransTypeOK
<1>4. CASE WsRename(c)
  <2>1. RegTypeOK'
    BY <1>4, <1>b, RenameTyped DEF WsRename, WsAt
  <2> QED BY <1>4, <2>1 DEF WsRename, ProcTypeOK, KnowsPeer, T!TransTypeOK
<1>5. CASE SocketDrops(c)
  BY <1>5 DEF SocketDrops, ProcTypeOK, KnowsPeer, T!TransTypeOK, regVars, RegTypeOK
<1>6. CASE WsDispatch(c)
  <2>1. RegTypeOK'
    BY <1>6, <1>b, UpdateStatusTyped DEF WsDispatch, WsAt
  <2>2. (ProcTypeOK /\ KnowsPeer)'
    BY <1>6, WsMovesTyped DEF WsDispatch, WsAt, WsPc
  <2> QED BY <1>6, <2>1, <2>2 DEF WsDispatch, T!TransTypeOK
<1>7. CASE WsDisconnect(c)
  <2>1. T!TransTypeOK'
    BY <1>7, <1>b, TransportTyped DEF WsDisconnect, WsAt
  <2>2. (ProcTypeOK /\ KnowsPeer)'
    BY <1>7, WsMovesTyped, WsDoneTyped DEF WsDisconnect, WsAt, WsPc
  <2> QED BY <1>7, <2>1, <2>2 DEF WsDisconnect, regVars, RegTypeOK
<1>8. CASE WsOwnsLifecycle(c)
  <2>1. (ProcTypeOK /\ KnowsPeer)'
    BY <1>8, WsMovesTyped, WsDoneTyped DEF WsOwnsLifecycle, WsAt, WsPc
  <2> QED BY <1>8, <2>1 DEF WsOwnsLifecycle, regVars, RegTypeOK, T!TransTypeOK
<1>9. CASE WsMarkOffline(c)
  <2>1. RegTypeOK'
    BY <1>9, <1>b, MarkOfflineTyped DEF WsMarkOffline, WsAt
  <2>2. (ProcTypeOK /\ KnowsPeer)'
    BY <1>9, WsDoneTyped DEF WsMarkOffline
  <2> QED BY <1>9, <2>1, <2>2 DEF WsMarkOffline, T!TransTypeOK
<1> QED BY <1>1, <1>2, <1>3, <1>4, <1>5, <1>6, <1>7, <1>8, <1>9 DEF WsStep

\* Steps of a request.
LEMMA ReqTyped ==
  ASSUME TInv, NEW r \in Reqs, ReqArrives(r) \/ ReqStep(r)
  PROVE  TInv'
<1> USE DEF TInv
<1>a. back \in SUBSET Peers
  BY DEF ProcTypeOK
<1>b. req[r].pc # "idle" => req[r].id \in Peers
  BY DEF KnowsPeer
<1>1. CASE ReqRegister(r)
  <2>1. PICK claim \in Claims, t \in Panes \cup {NoPane}, proof \in BOOLEAN,
            matches \in BOOLEAN, given \in Peers, session \in BOOLEAN :
          /\ AllocateAndRegister(claim, t, proof, matches, T!Connected, given)
          /\ IF t # NoPane /\ session THEN ReqGoes(r, "initialOffline", given)
                                      ELSE UNCHANGED req
          /\ back' = back \cup {given}
    BY <1>1 DEF ReqRegister
  <2>2. RegTypeOK'
    BY <2>1, AllocateTyped
  <2>3. (ProcTypeOK /\ KnowsPeer)'
    BY <1>1, <1>a, <2>1, ReqGoesTyped DEF ReqRegister, ReqPc, ProcTypeOK, KnowsPeer
  <2> QED BY <1>1, <2>2, <2>3 DEF ReqRegister, T!TransTypeOK
<1>2. CASE ReqHijackRejected(r)
  <2>1. RegTypeOK'
    BY <1>2, RejectTyped DEF ReqHijackRejected
  <2> QED BY <1>2, <2>1 DEF ReqHijackRejected, ProcTypeOK, KnowsPeer, T!TransTypeOK
<1>3. CASE ReqMarkOffline(r)
  <2>1. RegTypeOK'
    BY <1>3, MarkOfflineTyped DEF ReqMarkOffline
  <2> QED BY <1>3, <2>1 DEF ReqMarkOffline, ProcTypeOK, KnowsPeer, T!TransTypeOK
<1>4. CASE ReqTerminalOffline(r)
  <2>1. PICK p \in minted :
          /\ MarkOfflineTerminal(p, "soft")
          /\ IF Registered(p) /\ Retires(p) THEN ReqGoes(r, "sever", p) ELSE UNCHANGED req
    BY <1>4 DEF ReqTerminalOffline
  <2>2. p \in Peers
    BY DEF RegTypeOK
  <2>3. RegTypeOK'
    BY <2>1, <2>2, TerminalTyped
  <2>4. (ProcTypeOK /\ KnowsPeer)'
    BY <1>4, <1>a, <2>1, <2>2, ReqGoesTyped DEF ReqTerminalOffline, ReqPc, ProcTypeOK, KnowsPeer
  <2> QED BY <1>4, <2>3, <2>4 DEF ReqTerminalOffline, T!TransTypeOK
<1>5. CASE ReqPaneDied(r)
  <2>1. (ProcTypeOK /\ KnowsPeer)'
    BY <1>5, <1>a, ReqGoesTyped DEF ReqPaneDied, ReqPc
  <2> QED BY <1>5, <2>1 DEF ReqPaneDied, regVars, RegTypeOK, T!TransTypeOK
<1>6. CASE ReqDelete(r)
  <2>1. PICK p \in Peers, pc \in {"close", "unregister"} : ReqGoes(r, pc, p)
    BY <1>6 DEF ReqDelete
  <2>2. (ProcTypeOK /\ KnowsPeer)'
    BY <1>6, <1>a, <2>1, ReqGoesTyped DEF ReqDelete, ReqPc
  <2> QED BY <1>6, <2>2 DEF ReqDelete, regVars, RegTypeOK, T!TransTypeOK
<1>7. CASE ReqStatus(r)
  <2>1. RegTypeOK'
    BY <1>7, UpdateStatusTyped DEF ReqStatus
  <2> QED BY <1>7, <2>1 DEF ReqStatus, ProcTypeOK, KnowsPeer, T!TransTypeOK
<1>8. CASE ReqTouch(r)
  <2>1. RegTypeOK'
    BY <1>8, TouchTyped DEF ReqTouch
  <2> QED BY <1>8, <2>1 DEF ReqTouch, ProcTypeOK, KnowsPeer, T!TransTypeOK
<1>9. CASE ReqInitialOffline(r)
  <2>1. RegTypeOK'
    BY <1>9, <1>b, MarkOfflineTyped DEF ReqInitialOffline, ReqAt
  <2>2. (ProcTypeOK /\ KnowsPeer)'
    BY <1>9, <1>a, ReqDoneTyped DEF ReqInitialOffline
  <2> QED BY <1>9, <2>1, <2>2 DEF ReqInitialOffline, T!TransTypeOK
<1>10. CASE ReqSever(r)
  <2>1. T!TransTypeOK'
    BY <1>10, <1>b, CloseTyped DEF ReqSever, ReqAt
  <2>2. (ProcTypeOK /\ KnowsPeer)'
    BY <1>10, <1>a, ReqDoneTyped DEF ReqSever
  <2> QED BY <1>10, <2>1, <2>2 DEF ReqSever, regVars, RegTypeOK
<1>11. CASE ReqPaneDiedOffline(r)
  <2>1. req[r].id \in Peers
    BY <1>11, <1>b DEF ReqPaneDiedOffline, ReqAt
  <2>2. RegTypeOK'
    BY <1>11, <2>1, MarkOfflineTyped DEF ReqPaneDiedOffline
  <2>3. (ProcTypeOK /\ KnowsPeer)'
    BY <1>11, <1>a, <2>1, ReqGoesTyped DEF ReqPaneDiedOffline, ReqPc
  <2> QED BY <1>11, <2>2, <2>3 DEF ReqPaneDiedOffline, T!TransTypeOK
<1>12. CASE ReqClosePeer(r)
  <2>1. req[r].id \in Peers
    BY <1>12, <1>b DEF ReqClosePeer, ReqAt
  <2>2. RegTypeOK'
    BY <1>12, <2>1, TerminalTyped DEF ReqClosePeer
  <2>3. \E pc \in ReqPc : ReqGoes(r, pc, req[r].id)
    BY <1>12 DEF ReqClosePeer, ReqPc
  <2>4. (ProcTypeOK /\ KnowsPeer)'
    BY <1>12, <1>a, <2>1, <2>3, ReqGoesTyped DEF ReqClosePeer
  <2> QED BY <1>12, <2>2, <2>4 DEF ReqClosePeer, T!TransTypeOK
<1>13. CASE ReqCloseSever(r)
  <2>1. req[r].id \in Peers
    BY <1>13, <1>b DEF ReqCloseSever, ReqAt
  <2>2. T!TransTypeOK'
    BY <1>13, <2>1, CloseTyped DEF ReqCloseSever
  <2>3. (ProcTypeOK /\ KnowsPeer)'
    BY <1>13, <1>a, <2>1, ReqGoesTyped DEF ReqCloseSever, ReqPc
  <2> QED BY <1>13, <2>2, <2>3 DEF ReqCloseSever, regVars, RegTypeOK
<1>14. CASE ReqUnregister(r)
  <2>1. req[r].id \in Peers
    BY <1>14, <1>b DEF ReqUnregister, ReqAt
  <2>2. CASE Registered(req[r].id)
    <3>1. RegTypeOK'
      BY <1>14, <2>2, DeleteTyped DEF ReqUnregister, UnregisterPeer, RegTypeOK
    <3>2. (ProcTypeOK /\ KnowsPeer)'
      BY <1>14, <1>a, <2>1, <2>2, ReqGoesTyped DEF ReqUnregister, ReqPc
    <3> QED BY <1>14, <3>1, <3>2 DEF ReqUnregister, T!TransTypeOK
  <2>3. CASE ~Registered(req[r].id)
    <3>1. (ProcTypeOK /\ KnowsPeer)'
      BY <1>14, <1>a, <2>3, ReqDoneTyped DEF ReqUnregister
    <3> QED BY <1>14, <2>3, <3>1 DEF ReqUnregister, T!TransTypeOK, regVars, RegTypeOK
  <2> QED BY <2>2, <2>3
<1> QED BY <1>1, <1>2, <1>3, <1>4, <1>5, <1>6, <1>7, <1>8, <1>9, <1>10, <1>11, <1>12,
           <1>13, <1>14 DEF ReqArrives, ReqStep

\* Moving the worker on to sever a peer keeps its type.
LEMMA RepairSeversTyped ==
  ASSUME ProcTypeOK, KnowsPeer, NEW cand \in SUBSET Peers, NEW p \in Peers,
         RepairSevers(cand, p), UNCHANGED <<ws, req, back>>,
         strikes' \in [Peers -> 0 .. (StrikeLimit - 1)]
  PROVE  (ProcTypeOK /\ KnowsPeer)'
BY DEF RepairSevers, NoPanes, RepairPc, ProcTypeOK, KnowsPeer

\* Steps of the repair worker.
LEMMA RepairTyped ==
  ASSUME TInv, RepairProbe \/ RepairStep
  PROVE  TInv'
<1> USE DEF TInv
<1>a. /\ back \in SUBSET Peers /\ strikes \in [Peers -> 0 .. (StrikeLimit - 1)]
      /\ repair.cand \in SUBSET Peers
  BY DEF ProcTypeOK
<1>b. {"demote", "targets", "ping", "busy", "reapSnapshot", "reap", "reapSever",
       "evictSnapshot", "evict", "prune"} \subseteq RepairPc \ {"pingSever"}
  BY DEF RepairPc
<1>1. CASE RepairProbe
  <2>1. PICK cand \in SUBSET Peers : RepairGoes("demote", cand)
    BY <1>1 DEF RepairProbe
  <2>2. (ProcTypeOK /\ KnowsPeer)'
    BY <1>1, <1>a, <1>b, <2>1, RepairGoesTyped DEF RepairProbe
  <2> QED BY <1>1, <2>2 DEF RepairProbe, regVars, RegTypeOK, T!TransTypeOK
<1>2. CASE RepairDemote
  <2>1. (ProcTypeOK /\ KnowsPeer)'
    BY <1>2, <1>a, <1>b, RepairGoesTyped DEF RepairDemote
  <2>2. RegTypeOK'
    BY <1>2, DemoteTyped DEF RepairDemote
  <2> QED BY <1>2, <2>1, <2>2 DEF RepairDemote, T!TransTypeOK
<1>3. CASE RepairTargets
  <2>1. strikes' \in [Peers -> 0 .. (StrikeLimit - 1)]
    BY <1>3, <1>a, StrikeLimitPositive DEF RepairTargets
  <2>2. PICK cand \in SUBSET Peers : RepairGoes("ping", cand)
    BY <1>3 DEF RepairTargets
  <2>3. (ProcTypeOK /\ KnowsPeer)'
    BY <1>3, <1>a, <1>b, <2>1, <2>2, RepairGoesTyped DEF RepairTargets
  <2> QED BY <1>3, <2>3 DEF RepairTargets, regVars, RegTypeOK, T!TransTypeOK
<1>4. ASSUME NEW p \in Peers, RepairPing(p) PROVE TInv'
  <2>1. strikes' \in [Peers -> 0 .. (StrikeLimit - 1)]
    BY <1>4, <1>a, StrikeLimitPositive DEF RepairPing
  <2>2. RegTypeOK'
    <3>1. CASE MarkOfflineTerminal(p, "soft")
      BY <3>1, TerminalTyped
    <3>2. CASE UNCHANGED regVars
      BY <3>2 DEF regVars, RegTypeOK
    <3> QED BY <1>4, <3>1, <3>2 DEF RepairPing
  <2>3. (ProcTypeOK /\ KnowsPeer)'
    <3>1. CASE RepairGoes("ping", repair.cand \ {p})
      BY <1>4, <1>a, <1>b, <2>1, <3>1, RepairGoesTyped DEF RepairPing
    <3>2. CASE RepairSevers(repair.cand \ {p}, p)
      BY <1>4, <1>a, <2>1, <3>2, RepairSeversTyped DEF RepairPing
    <3> QED BY <1>4, <3>1, <3>2 DEF RepairPing
  <2> QED BY <1>4, <2>2, <2>3 DEF RepairPing, T!TransTypeOK
<1>5. CASE RepairPingSever
  <2>1. T!TransTypeOK'
    BY <1>5, CloseTyped DEF RepairPingSever, RepairAt, KnowsPeer
  <2>2. (ProcTypeOK /\ KnowsPeer)'
    BY <1>5, <1>a, <1>b, RepairGoesTyped DEF RepairPingSever
  <2> QED BY <1>5, <2>1, <2>2 DEF RepairPingSever, regVars, RegTypeOK
<1>6. CASE RepairPingDone
  <2>1. (ProcTypeOK /\ KnowsPeer)'
    BY <1>6, <1>a, <1>b, RepairGoesTyped DEF RepairPingDone
  <2> QED BY <1>6, <2>1 DEF RepairPingDone, regVars, RegTypeOK, T!TransTypeOK
<1>7. CASE RepairBusy
  <2>1. RegTypeOK'
    BY <1>7, StaleBusyTyped DEF RepairBusy
  <2>2. (ProcTypeOK /\ KnowsPeer)'
    BY <1>7, <1>a, <1>b, RepairGoesTyped DEF RepairBusy
  <2> QED BY <1>7, <2>1, <2>2 DEF RepairBusy, T!TransTypeOK
<1>8. ASSUME NEW from, NEW to \in {"reap", "evict"}, RepairSnapshot(from, to) PROVE TInv'
  <2>1. (ProcTypeOK /\ KnowsPeer)'
    BY <1>8, <1>b DEF RepairSnapshot, ProcTypeOK, KnowsPeer, RegTypeOK
  <2> QED BY <1>8, <2>1 DEF RepairSnapshot, regVars, RegTypeOK, T!TransTypeOK
<1>9. CASE RepairReap
  <2>1. RegTypeOK'
    BY <1>9, ReapTyped DEF RepairReap
  <2>2. StillDangling(repair.cand, repair.marker) \in SUBSET Peers
    BY <1>a DEF StillDangling
  <2>3. (ProcTypeOK /\ KnowsPeer)'
    BY <1>9, <1>a, <1>b, <2>2, RepairGoesTyped DEF RepairReap
  <2> QED BY <1>9, <2>1, <2>3 DEF RepairReap, T!TransTypeOK
<1>10. ASSUME NEW p \in Peers, RepairReapSever(p) PROVE TInv'
  <2>1. T!TransTypeOK'
    BY <1>10, CloseTyped DEF RepairReapSever
  <2>2. (ProcTypeOK /\ KnowsPeer)'
    BY <1>10, <1>a, <1>b, RepairGoesTyped DEF RepairReapSever
  <2> QED BY <1>10, <2>1, <2>2 DEF RepairReapSever, regVars, RegTypeOK
<1>11. CASE RepairReapDone
  <2>1. (ProcTypeOK /\ KnowsPeer)'
    BY <1>11, <1>a, <1>b, RepairGoesTyped DEF RepairReapDone
  <2> QED BY <1>11, <2>1 DEF RepairReapDone, regVars, RegTypeOK, T!TransTypeOK
<1>12. CASE RepairEvict
  <2>1. RegTypeOK'
    BY <1>12, EvictTyped DEF RepairEvict
  <2>2. (ProcTypeOK /\ KnowsPeer)'
    BY <1>12, <1>a, <1>b, RepairGoesTyped DEF RepairEvict
  <2> QED BY <1>12, <2>1, <2>2 DEF RepairEvict, T!TransTypeOK
<1>13. CASE RepairPrune
  <2>1. RegTypeOK'
    BY <1>13, PruneTyped DEF RepairPrune
  <2>2. (ProcTypeOK /\ KnowsPeer)'
    BY <1>13 DEF RepairPrune, IdleRepair, NoPanes, RepairPc, ProcTypeOK, KnowsPeer
  <2> QED BY <1>13, <2>1, <2>2 DEF RepairPrune, T!TransTypeOK
<1> QED BY <1>1, <1>2, <1>3, <1>4, <1>5, <1>6, <1>7, <1>8, <1>9, <1>10, <1>11, <1>12,
           <1>13 DEF RepairStep

\* The types and the peers in hand are an invariant.
LEMMA TInvHolds == Spec => []TInv
<1>1. Init => TInv
  BY StrikeLimitPositive
     DEF Init, TInv, RegInit, RegTypeOK, T!TransInit, T!TransTypeOK, ProcTypeOK, KnowsPeer,
         IdleWs, IdleReq, IdleRepair, NoPanes, WsPc, ReqPc, RepairPc, PeerStatus, LifecycleState
<1>2. TInv /\ [Next]_vars => TInv'
  <2> SUFFICES ASSUME TInv, [Next]_vars PROVE TInv'
    OBVIOUS
  <2>1. ASSUME NEW p \in Peers, Ages(p) PROVE TInv'
    BY <2>1 DEF Ages, TInv, RegTypeOK, T!TransTypeOK, ProcTypeOK, KnowsPeer
  <2>2. CASE UNCHANGED vars
    BY <2>2 DEF vars, regVars, TInv, RegTypeOK, T!TransTypeOK, ProcTypeOK, KnowsPeer
  <2> QED BY <2>1, <2>2, WsTyped, ReqTyped, RepairTyped DEF Next
<1> QED BY <1>1, <1>2, PTL DEF Spec

\* Every variable keeps its type in every step of handlers, requests and repair;
\* in particular a peer's strikes stay below PaneUnsafeStrikeLimit.
THEOREM TypeCorrect == Spec => []TypeOK
<1> DEFINE Chosen == load \in Loads
<1>1. TInv /\ Chosen => TypeOK
  BY DEF TInv, TypeOK, ProcTypeOK
<1>2. Init => Chosen
  BY DEF Init
<1>3. Chosen /\ [Next]_vars => Chosen'
  BY DEF Next, vars
<1> HIDE DEF Chosen
<1> QED BY <1>1, <1>2, <1>3, TInvHolds, PTL DEF Spec

-----------------------------------------------------------------------------
(* Sockets.  SocketOwned and OpenSocketReachable are inductive only together: *)
(* Connect needs the second to know that the socket it closes is the only     *)
(* other one its peer reads from, the teardown needs the first to know that a *)
(* socket is stored for one peer at most.                                     *)

SocketInv == SocketOwned /\ OpenSocketReachable

\* What leaves sockets and handlers alone keeps the invariant.
LEMMA SocketFrame ==
  ASSUME SocketInv, UNCHANGED <<conns, open, ws>>
  PROVE  SocketInv'
BY DEF SocketInv, SocketOwned, OpenSocketReachable, InLoop, T!IsConnected

\* So does the daemon's severing of a peer.
LEMMA SocketClose ==
  ASSUME TInv, SocketInv, NEW p \in Peers, T!Close(p), UNCHANGED ws
  PROVE  SocketInv'
<1>1. SocketOwned'
  BY DEF TInv, SocketInv, SocketOwned, InLoop, T!IsConnected, T!Close, T!TransTypeOK
<1>2. OpenSocketReachable'
  BY NoConnFresh
     DEF TInv, SocketInv, OpenSocketReachable, InLoop, T!Close, T!TransTypeOK, ProcTypeOK,
         KnowsPeer
<1> QED BY <1>1, <1>2 DEF SocketInv

\* Steps of a /ws handler.
LEMMA SocketWs ==
  ASSUME TInv, SocketInv, NEW c \in Conns,
         WsRegister(c) \/ WsRead(c) \/ WsRename(c) \/ SocketDrops(c) \/ WsStep(c)
  PROVE  SocketInv'
<1>a. /\ c \in Conns /\ ws \in [Conns -> [pc : WsPc, id : Peers \cup {NoPeer}, frame : PeerStatus]]
      /\ conns \in [Peers -> Conns \cup {NoConn}] /\ open \in SUBSET Conns
  BY DEF TInv, ProcTypeOK, T!TransTypeOK
<1>b. ws[c].pc # "idle" => ws[c].id \in Peers
  BY DEF TInv, KnowsPeer
<1> USE DEF SocketInv, SocketOwned, OpenSocketReachable, InLoop, T!IsConnected
<1>1. CASE WsRegister(c)
  <2>1. PICK given \in Peers : WsGoes(c, "registered", given, "online")
    BY <1>1 DEF WsRegister
  <2> QED BY <1>1, <1>a, <2>1, NoConnFresh DEF WsRegister, WsAt, WsGoes
<1>2. CASE WsConnect(c)
  <2> DEFINE p == ws[c].id
  <2>1. /\ p \in Peers /\ ws[c].pc = "registered"
        /\ ws' = [ws EXCEPT ![c] = [pc |-> "reading", id |-> p, frame |-> "online"]]
        /\ conns' = [conns EXCEPT ![p] = c]
        /\ open' = open \ ({conns[p]} \ {c})
    BY <1>2, <1>b DEF WsConnect, WsAt, WsMoves, WsGoes, T!Connect
  <2> HIDE DEF p
  <2>2. SocketOwned'
    BY <1>a, <2>1, NoConnFresh
  <2>3. OpenSocketReachable'
    BY <1>a, <2>1, NoConnFresh
  <2> QED BY <2>2, <2>3
<1>3. CASE WsRead(c)
  <2>1. PICK s \in PeerStatus \cap load : WsGoes(c, "dispatch", ws[c].id, s)
    BY <1>3 DEF WsRead
  <2> QED BY <1>3, <1>a, <2>1, NoConnFresh DEF WsRead, WsAt, WsGoes
<1>4. CASE WsRename(c)
  BY <1>4, SocketFrame DEF WsRename
<1>5. CASE SocketDrops(c)
  BY <1>5, <1>a DEF SocketDrops
<1>6. CASE WsDispatch(c)
  BY <1>6, <1>a, NoConnFresh DEF WsDispatch, WsAt, WsMoves, WsGoes
<1>7. CASE WsDisconnect(c)
  <2> DEFINE p == ws[c].id
  <2>1. /\ p \in Peers /\ c \notin open /\ UNCHANGED open
        /\ conns' = IF conns[p] = c THEN [conns EXCEPT ![p] = NoConn] ELSE conns
    BY <1>7, <1>b DEF WsDisconnect, WsAt, T!Disconnect, T!Removes
  <2>2. \E pc \in {"removed", "idle"}, q \in Peers \cup {NoPeer} :
          ws' = [ws EXCEPT ![c] = [pc |-> pc, id |-> q, frame |-> "online"]]
    BY <1>7, <1>b DEF WsDisconnect, WsAt, WsMoves, WsGoes, WsDone, IdleWs
  <2>3. \A q \in Peers : conns[q] = c => q = p
    BY NoConnFresh
  <2> HIDE DEF p
  <2>4. SocketOwned'
    BY <1>a, <2>1, <2>2, <2>3, NoConnFresh
  <2>5. OpenSocketReachable'
    BY <1>a, <2>1, <2>2, NoConnFresh
  <2> QED BY <2>4, <2>5
<1>8. CASE WsOwnsLifecycle(c) \/ WsMarkOffline(c)
  <2>1. ws[c].pc \in {"removed", "demoting"} /\ UNCHANGED <<conns, open>>
    BY <1>8 DEF WsOwnsLifecycle, WsMarkOffline, WsAt
  <2>2. \E pc \in {"demoting", "idle"}, q \in Peers \cup {NoPeer} :
          ws' = [ws EXCEPT ![c] = [pc |-> pc, id |-> q, frame |-> "online"]]
    BY <1>8, <1>b DEF WsOwnsLifecycle, WsMarkOffline, WsAt, WsMoves, WsGoes, WsDone, IdleWs
  <2> QED BY <1>a, <2>1, <2>2, NoConnFresh
<1> QED BY <1>1, <1>2, <1>3, <1>4, <1>5, <1>6, <1>7, <1>8 DEF WsStep

\* Steps of a request.
LEMMA SocketReq ==
  ASSUME TInv, SocketInv, NEW r \in Reqs, ReqArrives(r) \/ ReqStep(r)
  PROVE  SocketInv'
<1>1. CASE ReqSever(r) \/ ReqCloseSever(r)
  BY <1>1, SocketClose DEF ReqSever, ReqCloseSever, ReqAt, TInv, KnowsPeer
<1>2. CASE ReqArrives(r)
  BY <1>2, SocketFrame
     DEF ReqArrives, ReqRegister, ReqHijackRejected, ReqMarkOffline, ReqTerminalOffline,
         ReqPaneDied, ReqDelete, ReqStatus, ReqTouch
<1>3. CASE ReqInitialOffline(r) \/ ReqPaneDiedOffline(r) \/ ReqClosePeer(r) \/ ReqUnregister(r)
  BY <1>3, SocketFrame DEF ReqInitialOffline, ReqPaneDiedOffline, ReqClosePeer, ReqUnregister
<1> QED BY <1>1, <1>2, <1>3 DEF ReqStep

\* Steps of the repair worker.
LEMMA SocketRepair ==
  ASSUME TInv, SocketInv, RepairProbe \/ RepairStep
  PROVE  SocketInv'
<1>1. CASE RepairPingSever
  BY <1>1, SocketClose DEF RepairPingSever, RepairAt, TInv, KnowsPeer
<1>2. ASSUME NEW p \in Peers, RepairReapSever(p) PROVE SocketInv'
  BY <1>2, SocketClose DEF RepairReapSever
<1>3. ASSUME NEW p \in Peers, RepairPing(p) PROVE SocketInv'
  BY <1>3, SocketFrame DEF RepairPing
<1>4. CASE RepairProbe \/ RepairDemote \/ RepairTargets \/ RepairPingDone \/ RepairBusy
  BY <1>4, SocketFrame DEF RepairProbe, RepairDemote, RepairTargets, RepairPingDone, RepairBusy
<1>5. CASE RepairReap \/ RepairReapDone \/ RepairEvict \/ RepairPrune
  BY <1>5, SocketFrame DEF RepairReap, RepairReapDone, RepairEvict, RepairPrune
<1>6. CASE RepairSnapshot("reapSnapshot", "reap") \/ RepairSnapshot("evictSnapshot", "evict")
  BY <1>6, SocketFrame DEF RepairSnapshot
<1> QED BY <1>1, <1>2, <1>3, <1>4, <1>5, <1>6 DEF RepairStep

\* For any number of peers, sockets and requests: the transport stores only
\* sockets whose own handler serves that very peer, and every handler that reads
\* from an open socket is the one its peer is reached through.
THEOREM SocketsSound == Spec => [](SocketOwned /\ OpenSocketReachable)
<1>1. Init => SocketInv
  BY DEF Init, T!TransInit, SocketInv, SocketOwned, OpenSocketReachable, InLoop, IdleWs,
         T!IsConnected
<1>2. TInv /\ SocketInv /\ [Next]_vars => SocketInv'
  <2> SUFFICES ASSUME TInv, SocketInv, [Next]_vars PROVE SocketInv'
    OBVIOUS
  <2>1. ASSUME NEW p \in Peers, Ages(p) PROVE SocketInv'
    BY <2>1, SocketFrame DEF Ages
  <2>2. CASE UNCHANGED vars
    BY <2>2, SocketFrame DEF vars
  <2> QED BY <2>1, <2>2, SocketWs, SocketReq, SocketRepair DEF Next
<1> QED BY <1>1, <1>2, TInvHolds, PTL DEF Spec, SocketInv

\* For any number of peers, sockets and requests: a handler that reads from an
\* open socket is the one its peer is reached through, so no live connection is
\* ever left unused beside the stored one.
THEOREM OpenSocketsReachable == Spec => []OpenSocketReachable
BY SocketsSound, PTL

-----------------------------------------------------------------------------
(* Identity.  A step of the daemon registers one peer or is calm. *)

Registers(given) ==
  \E claim \in Peers \cup {NoPeer}, t \in Panes \cup {NoPane}, proof, matches \in BOOLEAN :
    AllocateAndRegister(claim, t, proof, matches, T!Connected, given)

\* Steps that do not touch the registry are calm.
LEMMA FrameCalm == ASSUME UNCHANGED regVars PROVE Calm
BY StillCalm DEF regVars

\* Steps of a /ws handler.
LEMMA WsKinds ==
  ASSUME TInv, NEW c \in Conns,
         WsRegister(c) \/ WsRead(c) \/ WsRename(c) \/ SocketDrops(c) \/ WsStep(c)
  PROVE  /\ UNCHANGED repair
         /\ \/ Calm /\ UNCHANGED back
            \/ \E given \in Peers : Registers(given) /\ back' = back \cup {given}
<1>a. RegTypeOK /\ (ws[c].pc # "idle" => ws[c].id \in Peers) /\ ws[c].frame \in PeerStatus
  BY DEF TInv, KnowsPeer, ProcTypeOK
<1>1. CASE WsRegister(c)
  BY <1>1 DEF WsRegister, Registers
<1>2. CASE WsRename(c)
  BY <1>2, <1>a, RenameCalm DEF WsRename, WsAt
<1>3. CASE WsDispatch(c)
  BY <1>3, <1>a, UpdateStatusCalm DEF WsDispatch, WsAt
<1>4. CASE WsMarkOffline(c)
  BY <1>4, <1>a, TransitionCalm DEF WsMarkOffline, WsAt, MarkOffline
<1>5. CASE WsRead(c) \/ SocketDrops(c) \/ WsConnect(c) \/ WsDisconnect(c) \/ WsOwnsLifecycle(c)
  BY <1>5, FrameCalm DEF WsRead, SocketDrops, WsConnect, WsDisconnect, WsOwnsLifecycle
<1> QED BY <1>1, <1>2, <1>3, <1>4, <1>5 DEF WsStep

\* Steps of a request.
LEMMA ReqKinds ==
  ASSUME TInv, NEW r \in Reqs, ReqArrives(r) \/ ReqStep(r)
  PROVE  /\ UNCHANGED repair
         /\ \/ Calm /\ UNCHANGED back
            \/ \E given \in Peers : Registers(given) /\ back' = back \cup {given}
<1>a. RegTypeOK /\ (req[r].pc # "idle" => req[r].id \in Peers) /\ minted \subseteq Peers
  BY DEF TInv, KnowsPeer, RegTypeOK
<1>1. CASE ReqRegister(r)
  BY <1>1 DEF ReqRegister, Registers
<1>2. CASE ReqHijackRejected(r)
  BY <1>2, StillCalm DEF ReqHijackRejected, RejectHijack
<1>3. CASE ReqMarkOffline(r) \/ ReqTerminalOffline(r)
  BY <1>3, <1>a, TransitionCalm
     DEF ReqMarkOffline, ReqTerminalOffline, MarkOffline, MarkOfflineTerminal
<1>4. CASE ReqInitialOffline(r) \/ ReqPaneDiedOffline(r) \/ ReqClosePeer(r)
  BY <1>4, <1>a, TransitionCalm
     DEF ReqInitialOffline, ReqPaneDiedOffline, ReqClosePeer, ReqAt, MarkOffline,
         MarkOfflineTerminal
<1>5. CASE ReqStatus(r)
  BY <1>5, <1>a, UpdateStatusCalm DEF ReqStatus
<1>6. CASE ReqTouch(r)
  BY <1>6, <1>a, TouchCalm DEF ReqTouch
<1>7. CASE ReqUnregister(r)
  BY <1>7, <1>a, DeleteCalm, FrameCalm DEF ReqUnregister, UnregisterPeer
<1>8. CASE ReqPaneDied(r) \/ ReqDelete(r) \/ ReqSever(r) \/ ReqCloseSever(r)
  BY <1>8, FrameCalm DEF ReqPaneDied, ReqDelete, ReqSever, ReqCloseSever
<1> QED BY <1>1, <1>2, <1>3, <1>4, <1>5, <1>6, <1>7, <1>8 DEF ReqArrives, ReqStep

\* Steps of the repair worker.
LEMMA RepairKinds ==
  ASSUME TInv, RepairProbe \/ RepairStep
  PROVE  Calm
<1>a. RegTypeOK
  BY DEF TInv
<1>1. CASE RepairDemote
  BY <1>1, <1>a, DemoteCalm DEF RepairDemote
<1>2. CASE RepairBusy
  BY <1>2, <1>a, StaleBusyCalm DEF RepairBusy
<1>3. CASE RepairReap \/ RepairEvict
  BY <1>3, <1>a, DeleteCalm DEF RepairReap, RepairEvict, ReapDangling, EvictStale
<1>4. CASE RepairPrune
  BY <1>4, StillCalm DEF RepairPrune, PruneRetired
<1>5. ASSUME NEW p \in Peers, RepairPing(p) PROVE Calm
  BY <1>5, <1>a, FrameCalm, TransitionCalm DEF RepairPing, MarkOfflineTerminal
<1>6. ASSUME NEW p \in Peers, RepairReapSever(p) PROVE Calm
  BY <1>6, FrameCalm DEF RepairReapSever
<1>7. CASE RepairProbe \/ RepairTargets \/ RepairPingSever \/ RepairPingDone \/ RepairReapDone
  BY <1>7, FrameCalm DEF RepairProbe, RepairTargets, RepairPingSever, RepairPingDone,
                         RepairReapDone
<1>8. CASE RepairSnapshot("reapSnapshot", "reap") \/ RepairSnapshot("evictSnapshot", "evict")
  BY <1>8, FrameCalm DEF RepairSnapshot
<1> QED BY <1>1, <1>2, <1>3, <1>4, <1>5, <1>6, <1>7, <1>8 DEF RepairStep

\* Every step registers one peer, is calm, or lets a record age.
LEMMA StepKinds ==
  ASSUME TInv, [Next]_vars
  PROVE  \/ Calm
         \/ \E given \in Peers : Registers(given)
         \/ \E p \in Peers : Ages(p)
<1>1. CASE UNCHANGED vars
  BY <1>1, FrameCalm DEF vars
<1> QED BY <1>1, WsKinds, ReqKinds, RepairKinds DEF Next

\* Every record of the registry has the mapping that a restart restores it from,
\* through registrations, renames, deletions and repair alike.
THEOREM RecordsStayMapped == Spec => []RecordsMapped
<1>1. Init => RecordsMapped
  BY DEF Init, RegInit, RecordsMapped, Registered
<1>2. TInv /\ RecordsMapped /\ [Next]_vars => RecordsMapped'
  <2> SUFFICES ASSUME TInv, RecordsMapped, [Next]_vars PROVE RecordsMapped'
    OBVIOUS
  <2>1. CASE Calm
    BY <2>1 DEF Calm, CalmFor, RecordsMapped, Registered
  <2>2. ASSUME NEW given \in Peers, Registers(given) PROVE RecordsMapped'
    BY <2>2, AllocateMaps DEF Registers, RecordsMapped, Registered, TInv
  <2>3. ASSUME NEW p \in Peers, Ages(p) PROVE RecordsMapped'
    BY <2>3 DEF Ages, RecordsMapped, Registered
  <2> QED BY <2>1, <2>2, <2>3, StepKinds
<1> QED BY <1>1, <1>2, TInvHolds, PTL DEF Spec

\* A retired record comes back to life only in a step that consumes a soft
\* tombstone: nothing but the retirement guard of AllocateAndRegister revives it.
THEOREM RevivalGuarded == Spec => RevivalConsumesTombstone
<1> DEFINE Revival ==
      \A p \in Peers : state[p] = "Retired" /\ state'[p] \in LiveState
                         => \E q \in Peers : retired[q] = "soft" /\ retired'[q] = "no"
<1>1. TInv /\ [Next]_vars => [Revival]_vars
  <2> SUFFICES ASSUME TInv, [Next]_vars PROVE Revival
    OBVIOUS
  <2>1. CASE Calm
    BY <2>1 DEF Calm, CalmFor, LiveState
  <2>2. ASSUME NEW given \in Peers, Registers(given) PROVE Revival
    BY <2>2, AllocateRevives DEF Registers, TInv
  <2>3. ASSUME NEW p \in Peers, Ages(p) PROVE Revival
    BY <2>3 DEF Ages, LiveState
  <2> QED BY <2>1, <2>2, <2>3, StepKinds
<1> QED BY <1>1, TInvHolds, PTL DEF Spec, RevivalConsumesTombstone

\* Whoever is given the pane of a fresh orchestrator, the orchestrator keeps the
\* pane and stays live.
THEOREM OrchestratorSticks == Spec => StickyOrchestrator
<1> DEFINE Sticks ==
      \A o \in Orchestrators, q \in Peers :
        ( /\ FreshOrchestrator(o) /\ pane[o] # NoPane
          /\ pane[q] # pane[o] /\ pane'[q] = pane[o] )
          => pane'[o] = pane[o] /\ state'[o] \in LiveState
<1>1. TInv /\ [Next]_vars => [Sticks]_vars
  <2> SUFFICES ASSUME TInv, [Next]_vars PROVE Sticks
    OBVIOUS
  <2>1. CASE Calm
    BY <2>1 DEF Calm, CalmFor
  <2>2. ASSUME NEW given \in Peers, Registers(given) PROVE Sticks
    BY <2>2, AllocateSticks, OrchestratorsAreP DEF Registers, TInv
  <2>3. ASSUME NEW p \in Peers, Ages(p) PROVE Sticks
    BY <2>3 DEF Ages
  <2> QED BY <2>1, <2>2, <2>3, StepKinds
<1> QED BY <1>1, TInvHolds, PTL DEF Spec, StickyOrchestrator

-----------------------------------------------------------------------------
(* Reaping.  Whoever registered since the snapshot has been seen since, and a *)
(* repair run is too short for that to grow old: the revalidation under the  *)
(* second lock finds it out.                                                  *)

BackSeen ==
  repair.pc \in {"reap", "evict"} => \A p \in back : lastSeen[p] # "old"

\* Only a snapshot starts a reaping or eviction pass; it starts with nobody back.
LEMMA RepairKeepsBack ==
  ASSUME RepairProbe \/ RepairStep, repair'.pc \in {"reap", "evict"}
  PROVE  back' = {}
<1> USE DEF RepairAt, RepairGoes, RepairSevers, IdleRepair
<1>1. ASSUME NEW p \in Peers, RepairPing(p) \/ RepairReapSever(p) PROVE back' = {}
  BY <1>1 DEF RepairPing, RepairReapSever
<1>2. CASE RepairSnapshot("reapSnapshot", "reap") \/ RepairSnapshot("evictSnapshot", "evict")
  BY <1>2 DEF RepairSnapshot
<1> QED BY <1>1, <1>2
     DEF RepairStep, RepairProbe, RepairDemote, RepairTargets, RepairPingSever, RepairPingDone,
         RepairBusy, RepairReap, RepairReapDone, RepairEvict, RepairPrune

\* A reaping or eviction pass that runs is undone by nobody but itself.
LEMMA ReapOrEvict ==
  ASSUME RepairProbe \/ RepairStep, repair.pc \in {"reap", "evict"}
  PROVE  DeletePeers(StillDangling(repair.cand, repair.marker))
BY DEF RepairStep, RepairProbe, RepairDemote, RepairTargets, RepairPing, RepairPingSever,
       RepairPingDone, RepairBusy, RepairSnapshot, RepairReap, RepairReapSever, RepairReapDone,
       RepairEvict, RepairPrune, RepairAt, ReapDangling, EvictStale

\* BackSeen is an invariant.
LEMMA BackSeenHolds == Spec => []BackSeen
<1>1. Init => BackSeen
  BY DEF Init, IdleRepair, BackSeen
<1>2. TInv /\ BackSeen /\ [Next]_vars => BackSeen'
  <2> SUFFICES ASSUME TInv, BackSeen, [Next]_vars PROVE BackSeen'
    OBVIOUS
  <2>a. back \subseteq Peers
    BY DEF TInv, ProcTypeOK
  <2>1. ASSUME UNCHANGED <<repair, back>>, Calm PROVE BackSeen'
    BY <2>1, <2>a DEF BackSeen, Calm, CalmFor
  <2>2. ASSUME NEW given \in Peers, Registers(given), UNCHANGED repair,
               back' = back \cup {given}
        PROVE  BackSeen'
    <3>1. /\ \A p \in Peers : lastSeen'[p] \in {lastSeen[p], "recent"}
          /\ lastSeen'[given] = "recent"
      BY <2>2, AllocateMaps DEF Registers, TInv
    <3> QED BY <2>2, <2>a, <3>1 DEF BackSeen
  <2>3. CASE RepairProbe \/ RepairStep
    BY <2>3, RepairKeepsBack DEF BackSeen
  <2>4. ASSUME NEW p \in Peers, Ages(p) PROVE BackSeen'
    BY <2>4, <2>a DEF Ages, RepairAt, BackSeen, TInv, RegTypeOK
  <2>5. CASE UNCHANGED vars
    BY <2>5 DEF vars, regVars, BackSeen
  <2> QED BY <2>1, <2>2, <2>3, <2>4, <2>5, WsKinds, ReqKinds DEF Next
<1> QED BY <1>1, <1>2, TInvHolds, PTL DEF Spec

\* Reaping and eviction never remove a peer that registered again after the
\* snapshot they work from.
THEOREM ReapSparesReturnedPeers == Spec => ReapSparesReturned
<1> DEFINE Spares ==
      RepairAt("reap") \/ RepairAt("evict")
        => repair' = repair \/ \A p \in back : Registered(p) => state'[p] # "Unregistered"
<1>1. TInv /\ BackSeen /\ [Next]_vars => [Spares]_vars
  <2> SUFFICES ASSUME TInv, BackSeen, [Next]_vars, RepairAt("reap") \/ RepairAt("evict"),
                      repair' # repair, NEW p \in back, Registered(p)
               PROVE  state'[p] # "Unregistered"
    OBVIOUS
  <2>1. RepairProbe \/ RepairStep
    BY WsKinds, ReqKinds DEF Next, Ages, vars
  <2>2. DeletePeers(StillDangling(repair.cand, repair.marker))
    BY <2>1, ReapOrEvict DEF RepairAt
  <2>3. p \in Peers /\ p \notin StillDangling(repair.cand, repair.marker)
    BY DEF TInv, ProcTypeOK, BackSeen, RepairAt, StillDangling, Dangling
  <2> QED BY <2>2, <2>3 DEF DeletePeers, Registered
<1> QED BY <1>1, TInvHolds, BackSeenHolds, PTL DEF Spec, ReapSparesReturned
=============================================================================
