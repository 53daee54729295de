----------------------------- MODULE Transport -----------------------------
(***************************************************************************)
(* The socket map of daemon-go/service/transport.go (WebSocketTransport).  *)
(* A socket is identified with the /ws handler that serves it.  The map is *)
(* guarded by its own mutex; closing a socket that was taken out of the    *)
(* map follows at once and is folded into the same step.                   *)
(***************************************************************************)
CONSTANTS
  Peers,   \* peer ids
  Conns,   \* sockets, one for each /ws handler
  NoConn   \* no socket

VARIABLES
  conns,   \* t.conns: the socket stored for each peer
  open     \* the sockets whose TCP connection is up

transVars == <<conns, open>>

TransTypeOK ==
  /\ conns \in [Peers -> Conns \cup {NoConn}]
  /\ open \in SUBSET Conns

TransInit ==
  /\ conns = [p \in Peers |-> NoConn]
  /\ open = {}

IsConnected(p) == conns[p] # NoConn
Connected == {p \in Peers : IsConnected(p)}

\* The stored socket is replaced and the superseded one closed.
Connect(p, c) ==
  /\ conns' = [conns EXCEPT ![p] = c]
  /\ open' = open \ ({conns[p]} \ {c})

\* Without the identity check, whatever socket is stored is removed.
RemovesAny(p, c) == conns[p] # NoConn

\* Disconnect removes the stored socket only when it is the caller's own.
Removes(p, c) == conns[p] = c

\* A teardown that forgets the map.
DisconnectLeaks(p, c) == UNCHANGED <<conns, open>>

Disconnect(p, c) ==
  /\ conns' = IF Removes(p, c) THEN [conns EXCEPT ![p] = NoConn] ELSE conns
  /\ UNCHANGED open

\* The daemon severs a peer: record removed, socket closed.
Close(p) ==
  /\ conns' = [conns EXCEPT ![p] = NoConn]
  /\ open' = open \ {conns[p]}
=============================================================================
