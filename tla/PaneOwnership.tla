--------------------------- MODULE PaneOwnership ---------------------------
(***************************************************************************)
(* The proofs behind a destructive action on a tmux pane                   *)
(* (daemon-go/service/pane_ownership.go and destructivePaneProof of        *)
(* hub/routes_spawn.go): the in-process set of spawned panes, the durable  *)
(* ownership records of spawn_ownership.json, and the pane metadata written *)
(* by the runtime's own hooks.                                             *)
(*                                                                         *)
(* All peers work on one project: same path, backend, circle, role and     *)
(* host, so recordMatchesIdentity holds of every record and every peer, and *)
(* the peer id is all that tells two of them apart.  tmux never reuses a   *)
(* pane id while its server runs, which is for as long as the model runs.  *)
(***************************************************************************)
EXTENDS PeerRegistry, FiniteSets

CONSTANT NoRecord   \* no ownership record

ASSUME NoRecordDistinct == NoRecord \notin Peers \cup {NoPeer}

VARIABLES
  live,     \* tmux: the panes that exist
  drift,    \* tmux: panes whose window or path is no longer the recorded one
  spawned,  \* fileOwnership.spawned
  record,   \* spawn_ownership.json: the record's peer_id, NoPeer when it has none
  meta      \* ws-hook-<pane>.meta.json: its peer_id

proofs == <<spawned, record, meta>>

OwnTypeOK ==
  /\ live \in SUBSET Panes /\ drift \in SUBSET Panes
  /\ spawned \in SUBSET Panes
  /\ record \in [Panes -> Peers \cup {NoPeer, NoRecord}]
  /\ meta \in [Panes -> Peers \cup {NoPeer}]

OwnInit ==
  /\ drift = {} /\ spawned = {}
  /\ record = [t \in Panes |-> NoRecord]

-----------------------------------------------------------------------------
(* Writing proof *)

\* MarkSpawned and Record, one after the other in SpawnService.Spawn.
Record(t, p) ==
  /\ spawned' = spawned \cup {t}
  /\ record' = [record EXCEPT ![t] = p]
  /\ UNCHANGED meta

\* The hook's metadata file of a pane, written and removed.
WriteMetadata(t, p) == meta' = [meta EXCEPT ![t] = p]
ClearPaneRuntimeState(t) == meta' = [meta EXCEPT ![t] = NoPeer]

\* Forget, then ClearPaneRuntimeState.
Forget(t) ==
  /\ spawned' = spawned \ {t}
  /\ record' = [record EXCEPT ![t] = NoRecord]
  /\ ClearPaneRuntimeState(t)

\* UpdatePlacement: the record is brought up to a rename.
UpdatePlacement(t) ==
  /\ drift' = drift \ {t}
  /\ UNCHANGED <<live, proofs>>

\* A backfill that trusts the record read before the lock was released.
BackfillStale(t, p) ==
  record' = IF t = NoPane THEN record ELSE [record EXCEPT ![t] = p]

\* BackfillPeerID: reads the record again under the lock, and leaves one that is
\* gone or names a peer alone.
BackfillPeerID(t, p) ==
  record' = IF t # NoPane /\ record[t] = NoPeer THEN [record EXCEPT ![t] = p] ELSE record

-----------------------------------------------------------------------------
(* Reading proof *)

Validation(error, t) == [error |-> error, at |-> t]
Valid(v) == v.error = "no"

\* What live tmux says of a recorded pane.
Evidence(t) ==
  IF t \notin live THEN "pane_not_live"
  ELSE IF t \in drift THEN "pane_identity_mismatch" ELSE "no"

\* validateDirect, for a peer p recorded at pane t.
ValidateDirect(p, t) ==
  Validation(IF record[t] = NoRecord THEN "missing_ownership"
             ELSE IF record[t] \notin {NoPeer, p} THEN "ownership_peer_mismatch"
             ELSE Evidence(t), t)

\* findForPeer: the records that do not name somebody else.
Correlated(p) == {t \in Panes : record[t] \in {NoPeer, p}}

FindForPeer(p) ==
  LET errors == {Evidence(t) : t \in Correlated(p)}
      matches == {t \in Correlated(p) : Evidence(t) = "no"}
  IN IF Cardinality(matches) = 1 THEN Validation("no", CHOOSE t \in matches : TRUE)
     ELSE Validation(IF matches # {} THEN "ambiguous_ownership"
                     ELSE IF "pane_not_live" \in errors THEN "pane_not_live"
                     ELSE IF errors # {} THEN "pane_identity_mismatch"
                     ELSE "missing_ownership", NoPane)

\* ValidateForPeer: a valid direct proof, else the correlated record; the error
\* reported is the direct one unless several records correlate.
ValidateForPeer(p, t) ==
  LET direct == ValidateDirect(p, t)
      found == FindForPeer(p)
  IN IF t = NoPane THEN found
     ELSE IF Valid(direct) THEN direct
     ELSE IF Valid(found) \/ found.error = "ambiguous_ownership" THEN found
     ELSE direct

\* The record ValidateForPeer goes on to backfill: the correlated one it adopted.
Adopts(p, t) ==
  LET v == ValidateForPeer(p, t)
  IN IF Valid(v) /\ (t = NoPane \/ ~Valid(ValidateDirect(p, t))) THEN v.at ELSE NoPane

\* An adoption that takes the record's peer_id for its pane_id.
AdoptedField(p, t) ==
  LET v == ValidateForPeer(p, t) IN IF Valid(v) THEN record[v.at] ELSE t

\* peerWithAdoptedOwnership: the pane a request takes for the peer's.
AdoptedPane(p, t) ==
  LET v == ValidateForPeer(p, t) IN IF Valid(v) THEN v.at ELSE t

\* destructivePaneProof for p at pane t: the spawned set, a durable record, or
\* metadata in a live pane that names p.
DestructivePaneProof(p, t) ==
  LET own == ValidateForPeer(p, t)
  IN IF t \in spawned THEN Validation("no", t)
     ELSE IF own.error # "missing_ownership" THEN own
     ELSE Validation(IF t = NoPane THEN "missing_pane"
                     ELSE IF t \notin live THEN "pane_not_live"
                     ELSE IF meta[t] = p THEN "no"
                     ELSE IF meta[t] = NoPeer THEN "missing_pane_metadata"
                     ELSE "pane_metadata_mismatch", t)
=============================================================================
