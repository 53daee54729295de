--------------------------- MODULE MCSpawnControl ---------------------------
EXTENDS SpawnControl, TLC

CONSTANTS r1, r2, r3, p1, p2, t1, t2, t3

\* Who may do what: two restarts of one peer, and one against each other operation.
ControlOps == r1 :> {"spawn", "restart"} @@ r2 :> {"restart", "kill", "link", "resume"}
              @@ r3 :> {"rehook"}
KillOps == r1 :> {"spawn"} @@ r2 :> {"kill"}

TwoHomes == t2 :> p1 @@ t3 :> p2
OneHome == t2 :> p1

\* The two users' peers may change places.
Symmetry == {p1 :> p2 @@ p2 :> p1 @@ t2 :> t3 @@ t3 :> t2}
==============================================================================
