--------------------------- MODULE MCPeerLiveness ---------------------------
(* Instances of PeerLiveness for TLC. *)
EXTENDS PeerLiveness, TLC

CONSTANTS p1, p2, c1, c2, r1

\* One peer under a full repair run; two identities, one of them an orchestrator,
\* competing for one pane.
RegistryLoads == {{p1, c1, c2, r1, "online", "busy", "repair"},
                  {p1, p2, c1, r1, "online"}, {p1, p2, c2, r1, "online"}}

\* Everything an instance declares but repair.
FullLoad == {Peers \cup Conns \cup Reqs \cup {"online", "busy"}}

\* Handlers are interchangeable, and so are requests.
Symmetry == Permutations(Conns) \cup Permutations(Reqs)
=============================================================================
