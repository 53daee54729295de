------------------------------- MODULE Relay --------------------------------
(***************************************************************************)
(* The relay: the hosted server (daemon-go/relayserver/server.go,          *)
(* tokens.go) that browsers talk to, and the client (daemon-go/relay/      *)
(* client.go) through which one daemon dials it and serves the tunnelled   *)
(* requests.                                                               *)
(*                                                                         *)
(* A session is one WebSocket of the daemon, numbered in the order of the  *)
(* dials.  The network may cut one without either end noticing: what is    *)
(* written then is lost, until the client's ping or the server's TCP       *)
(* keepalive fails.  A write whose context is already cancelled fails, and *)
(* may take the whole socket with it (coder/websocket).                    *)
(***************************************************************************)
EXTENDS Naturals, Sequences, FiniteSets, SequencesExt

CONSTANTS
  NoRequest,
  Plain,      \* tunnelled HTTP requests
  Viewers,    \* dashboard event streams
  Guests,     \* event streams of a share link
  ChanCap,    \* capacity of a pending request's channel (16 in the code)
  MaxSess,    \* bound on the daemon's dials
  MaxChunks,  \* bound on the chunks of a stream
  MaxFaults   \* how many mishaps may happen

ASSUME BoundsArePositive == {ChanCap, MaxSess, MaxChunks} \subseteq Nat \ {0} /\ MaxFaults \in Nat

Streams == Viewers \cup Guests
Requests == Plain \cup Streams
Sessions == 1..MaxSess

ASSUME NoRequestIsNone == NoRequest \notin Requests
ASSUME KindsDiffer == Plain \cap Streams = {} /\ Viewers \cap Guests = {}

VARIABLES
  sock,     \* a session's WebSocket: none, open, cut or closed
  down, up, \* its frames in flight, to the daemon and to the server
  \* the server
  srv,      \* a session's relayWebSocket handler
  old,      \* the session it replaced and has yet to close, or 0
  current,  \* connections[user/daemon], or 0
  stage,    \* a request's handler
  via,      \* the session it picked, or 0
  pend,     \* the conn of its entry in pending, or 0
  chan,     \* that entry's channel
  seen,     \* what a stream has shown: last chunk, a gap, one sent after the share went
  share,    \* the share link is in tokenStore.shares, and not expired
  unsent,   \* history: the streams whose cancel could not be written
  \* the daemon
  loop,     \* Client.runLoop
  sess,     \* the session it serves, or 0
  stopping, \* Client.stopping, and the loop's context cancelled
  busy,     \* the request the read loop is tunnelling to the local daemon
  streams,  \* relaySession.streams of the session
  worker,   \* a stream's goroutine
  of,       \* the session a stream's goroutine writes to
  cancelled,\* its context is cancelled
  sent,     \* chunks it has sent
  faults

net == <<sock, down, up>>
handler == <<stage, via, pend, chan, seen>>
server == <<srv, old, current, handler, share, unsent>>
daemon == <<loop, sess, stopping, busy, streams, worker, of, cancelled, sent>>
vars == <<net, server, daemon, faults>>

Frame == [t : {"http", "stream", "cancel", "response", "start", "chunk", "end",
               "disconnected", "overflow"},
          q : Requests, n : 0..MaxChunks, late : BOOLEAN]
Msg(t, q) == [t |-> t, q |-> q, n |-> 0, late |-> FALSE]

Nothing == [last |-> 0, gap |-> FALSE, late |-> FALSE]

TypeOK ==
  /\ sock \in [Sessions -> {"none", "open", "cut", "closed"}]
  /\ down \in [Sessions -> Seq(Frame)] /\ up \in [Sessions -> Seq(Frame)]
  /\ srv \in [Sessions -> {"none", "accepted", "replacing", "reading", "gone"}]
  /\ old \in [Sessions -> 0..MaxSess] /\ current \in 0..MaxSess
  /\ stage \in [Requests -> {"idle", "picked", "added", "waiting", "streaming", "done"}]
  /\ via \in [Requests -> 0..MaxSess] /\ pend \in [Requests -> 0..MaxSess]
  /\ chan \in [Requests -> Seq(Frame)] /\ \A q \in Requests : Len(chan[q]) <= ChanCap
  /\ share \in BOOLEAN /\ unsent \in SUBSET Streams
  /\ seen \in [Requests -> [last : 0..MaxChunks, gap : BOOLEAN, late : BOOLEAN]]
  /\ loop \in {"off", "dialing", "serving", "backoff"}
  /\ sess \in 0..MaxSess /\ stopping \in BOOLEAN
  /\ busy \in Requests \cup {NoRequest}
  /\ streams \in SUBSET Streams
  /\ worker \in [Streams -> {"none", "asking", "sending", "done"}]
  /\ of \in [Streams -> 0..MaxSess]
  /\ cancelled \in SUBSET Streams
  /\ sent \in [Streams -> 0..MaxChunks]
  /\ faults \in 0..MaxFaults

Init ==
  /\ sock = [k \in Sessions |-> "none"]
  /\ down = [k \in Sessions |-> <<>>] /\ up = [k \in Sessions |-> <<>>]
  /\ srv = [k \in Sessions |-> "none"] /\ old = [k \in Sessions |-> 0] /\ current = 0
  /\ stage = [q \in Requests |-> "idle"]
  /\ via = [q \in Requests |-> 0] /\ pend = [q \in Requests |-> 0]
  /\ chan = [q \in Requests |-> <<>>]
  /\ seen = [q \in Requests |-> Nothing]
  /\ share = TRUE /\ unsent = {}
  /\ loop = "off" /\ sess = 0 /\ stopping = FALSE /\ busy = NoRequest /\ streams = {}
  /\ worker = [q \in Streams |-> "none"] /\ of = [q \in Streams |-> 0]
  /\ cancelled = {} /\ sent = [q \in Streams |-> 0]
  /\ faults = 0

Mishap == faults < MaxFaults /\ faults' = faults + 1

-----------------------------------------------------------------------------
(* The network *)

\* A frame written to a session: on its way, or lost if the network is cut.
Put(queue, k, m) == IF sock[k] = "open" THEN [queue EXCEPT ![k] = Append(@, m)] ELSE queue

Closed(ks) == [k \in Sessions |-> IF k \in ks \ {0} THEN "closed" ELSE sock[k]]

\* What is left of a write whose context is cancelled: an error, and perhaps the
\* socket closed under everybody else.
AbortedWrite(k) ==
  \/ UNCHANGED <<sock, faults>>
  \/ sock[k] # "closed" /\ Mishap /\ sock' = Closed({k})

Cut(k) ==
  /\ Mishap
  /\ sock[k] = "open"
  /\ sock' = [sock EXCEPT ![k] = "cut"]
  /\ down' = [down EXCEPT ![k] = <<>>] /\ up' = [up EXCEPT ![k] = <<>>]
  /\ UNCHANGED <<server, daemon>>

-----------------------------------------------------------------------------
(* The server: the daemon's connections *)

\* relayWebSocket registers the connection it accepted.
RegisterConn(k) ==
  /\ srv[k] = "accepted"
  /\ old' = [old EXCEPT ![k] = current]
  /\ current' = k
  /\ srv' = [srv EXCEPT ![k] = "replacing"]
  /\ UNCHANGED <<net, handler, share, unsent, daemon, faults>>

\* The connection it replaced, if any, is closed; then it reads.
CloseOld(k) ==
  /\ srv[k] = "replacing"
  /\ sock' = Closed({old[k]})
  /\ old' = [old EXCEPT ![k] = 0]
  /\ srv' = [srv EXCEPT ![k] = "reading"]
  /\ UNCHANGED <<down, up, current, handler, share, unsent, daemon, faults>>

UnregisterAny(k) ==
  /\ current' = 0
  /\ UNCHANGED <<pend, chan>>

\* unregisterConn: unless it was replaced, the connection goes, and every request
\* pending on it is told, if its channel has room.
UnregisterConn(k) ==
  IF current = k
    THEN LET told == {q \in Requests : pend[q] = k}
         IN /\ current' = 0
            /\ pend' = [q \in Requests |-> IF q \in told THEN 0 ELSE pend[q]]
            /\ chan' = [q \in Requests |->
                          IF q \in told /\ Len(chan[q]) < ChanCap
                            THEN Append(chan[q], Msg("disconnected", q)) ELSE chan[q]]
    ELSE UNCHANGED <<current, pend, chan>>

\* The handler's read fails: the socket is closed, or the TCP keepalive gave up.
ServerLost(k) ==
  /\ srv[k] = "reading" /\ sock[k] # "open"
  /\ UnregisterConn(k)
  /\ sock' = Closed({k}) /\ up' = [up EXCEPT ![k] = <<>>]
  /\ srv' = [srv EXCEPT ![k] = "gone"]
  /\ UNCHANGED <<down, old, stage, via, seen, share, unsent, daemon, faults>>

DropsChunk(ch, m) == IF Len(ch) < ChanCap THEN Append(ch, m) ELSE Append(Tail(ch), m)

DeliverOver(ch, m) ==
  IF Len(ch) < ChanCap THEN Append(ch, m) ELSE Append(ch, Msg("overflow", m.q))

\* deliverPending: a full channel gives up its oldest message for an overflow mark.
DeliverPending(ch, m) ==
  IF Len(ch) < ChanCap THEN Append(ch, m) ELSE Append(Tail(ch), Msg("overflow", m.q))

\* The handler reads a frame: it goes to the pending request, if that is still there.
ServerRead(k) ==
  /\ srv[k] = "reading" /\ sock[k] # "cut" /\ up[k] # <<>>
  /\ up' = [up EXCEPT ![k] = Tail(@)]
  /\ LET m == Head(up[k])
     IN chan' = IF pend[m.q] = 0 THEN chan ELSE [chan EXCEPT ![m.q] = DeliverPending(@, m)]
  /\ UNCHANGED <<sock, down, srv, old, current, stage, via, pend, seen, share, unsent, daemon,
                 faults>>

-----------------------------------------------------------------------------
(* The server: browsers *)

\* A handler starts: its key or share link is good, and anyDaemon finds a session.
Pick(q) ==
  /\ stage[q] = "idle"
  /\ q \in Guests => share
  /\ current # 0
  /\ via' = [via EXCEPT ![q] = current]
  /\ stage' = [stage EXCEPT ![q] = "picked"]
  /\ UNCHANGED <<net, srv, old, current, pend, chan, seen, share, unsent, daemon, faults>>

AddPending(q) ==
  /\ stage[q] = "picked"
  /\ pend' = [pend EXCEPT ![q] = via[q]]
  /\ stage' = [stage EXCEPT ![q] = "added"]
  /\ UNCHANGED <<net, srv, old, current, via, chan, seen, share, unsent, daemon, faults>>

Opens(q) == Msg(IF q \in Plain THEN "http" ELSE "stream", q)

\* A handler is over: its pending entry and its locals go.
Over(q) ==
  /\ stage' = [stage EXCEPT ![q] = "done"]
  /\ pend' = [pend EXCEPT ![q] = 0]
  /\ chan' = [chan EXCEPT ![q] = <<>>]
  /\ via' = [via EXCEPT ![q] = 0]
  /\ seen' = [seen EXCEPT ![q] = Nothing]

\* The request is written to the session picked, on the browser's context, which is
\* cancelled if the browser has gone.
WriteRequest(q) ==
  /\ stage[q] = "added"
  /\ \/ /\ sock[via[q]] # "closed"
        /\ down' = Put(down, via[q], Opens(q))
        /\ stage' = [stage EXCEPT ![q] = "waiting"]
        /\ UNCHANGED <<sock, via, pend, chan, seen, faults>>
     \/ /\ sock[via[q]] = "closed"
        /\ Over(q)
        /\ UNCHANGED <<sock, down, faults>>
     \/ /\ AbortedWrite(via[q])
        /\ Over(q)
        /\ UNCHANGED down
  /\ UNCHANGED <<up, srv, old, current, share, unsent, daemon>>

CancelForgotten(q) == UNCHANGED <<sock, down, unsent, faults>>

\* A stream's handler returns: it tells the daemon to cancel (deferred).  It allows the
\* write a second, the wait for writeMu included: behind a slow write it fails like an
\* aborted one, and nobody looks at the error.
CancelSent(q) ==
  \/ /\ down' = IF q \in Streams THEN Put(down, via[q], Msg("cancel", q)) ELSE down
     /\ UNCHANGED <<sock, unsent, faults>>
  \/ /\ q \in Streams
     /\ Mishap
     /\ sock' \in {sock, Closed({via[q]})}
     /\ unsent' = unsent \cup {q}
     /\ UNCHANGED down

Returns(q) ==
  /\ CancelSent(q)
  /\ Over(q)
  /\ UNCHANGED <<up, srv, old, current, share, daemon>>

\* The browser leaves, and the handler waiting for the daemon returns.
Abandon(q) ==
  /\ stage[q] \in {"waiting", "streaming"}
  /\ Returns(q)

\* 30 s for a response, 10 s for a stream to start.
Timeout(q) ==
  /\ stage[q] = "waiting"
  /\ Returns(q)

\* A tunnelled request is answered, with what the daemon said or with 502.
Answer(q) ==
  /\ q \in Plain /\ stage[q] = "waiting" /\ chan[q] # <<>>
  /\ Returns(q)

\* A stream starts, unless what comes first is something else.
StreamStart(q) ==
  /\ q \in Streams /\ stage[q] = "waiting" /\ chan[q] # <<>>
  /\ IF Head(chan[q]).t = "start"
       THEN /\ stage' = [stage EXCEPT ![q] = "streaming"]
            /\ chan' = [chan EXCEPT ![q] = Tail(@)]
            /\ UNCHANGED <<net, srv, old, current, via, pend, seen, share, unsent, daemon, faults>>
       ELSE Returns(q)

ShareUnchecked(q) == TRUE

\* A share link's stream asks again, before every chunk it shows.
ShareValid(q) == q \in Guests => share

Shown(q, m) ==
  [last |-> m.n, gap |-> seen[q].gap \/ m.n # seen[q].last + 1, late |-> seen[q].late \/ m.late]

\* The stream shows a chunk; an end, a lost daemon or an overflow ends it.
StreamNext(q) ==
  /\ stage[q] = "streaming" /\ chan[q] # <<>>
  /\ LET m == Head(chan[q]) IN
       IF m.t = "chunk" /\ ShareValid(q)
         THEN /\ seen' = [seen EXCEPT ![q] = Shown(q, m)]
              /\ chan' = [chan EXCEPT ![q] = Tail(@)]
              /\ UNCHANGED <<net, srv, old, current, stage, via, pend, share, unsent, daemon,
                             faults>>
         ELSE Returns(q)

\* revokeShare, or its expiry.
RevokeShare ==
  /\ share
  /\ share' = FALSE
  /\ UNCHANGED <<net, srv, old, current, handler, unsent, daemon, faults>>

-----------------------------------------------------------------------------
(* The daemon *)

\* Start, or EnsureRunning from /health.
Start ==
  /\ loop = "off" /\ ~stopping
  /\ loop' = "dialing"
  /\ UNCHANGED <<net, server, sess, stopping, busy, streams, worker, of, cancelled, sent, faults>>

NextSession == Cardinality({k \in Sessions : sock[k] # "none"}) + 1

Dial(k) ==
  /\ loop = "dialing" /\ ~stopping /\ k = NextSession
  /\ loop' = "serving" /\ sess' = k
  /\ sock' = [sock EXCEPT ![k] = "open"]
  /\ srv' = [srv EXCEPT ![k] = "accepted"]
  /\ UNCHANGED <<down, up, old, current, handler, share, unsent, stopping, busy, streams, worker,
                 of, cancelled, sent, faults>>

DialFails ==
  /\ Mishap
  /\ loop = "dialing"
  /\ loop' = "backoff"
  /\ UNCHANGED <<net, server, sess, stopping, busy, streams, worker, of, cancelled, sent>>

Backoff ==
  /\ loop = "backoff" /\ ~stopping
  /\ loop' = "dialing"
  /\ UNCHANGED <<net, server, sess, stopping, busy, streams, worker, of, cancelled, sent, faults>>

CancelNone == UNCHANGED cancelled /\ streams' = {}

CancelAll == cancelled' = cancelled \cup streams /\ streams' = {}

\* connectAndServe returns: the read failed (the ping closes a cut socket).
SessionEnds ==
  /\ loop = "serving" /\ busy = NoRequest /\ sock[sess] # "open"
  /\ CancelAll
  /\ sock' = Closed({sess}) /\ down' = [down EXCEPT ![sess] = <<>>]
  /\ loop' = "backoff" /\ sess' = 0
  /\ UNCHANGED <<up, server, stopping, busy, worker, of, sent, faults>>

\* Stop cancels the context of the loop, of its request and of its streams.
Stop ==
  /\ Mishap
  /\ ~stopping /\ loop # "off"
  /\ stopping' = TRUE
  /\ cancelled' = cancelled \cup {q \in Streams : worker[q] \in {"asking", "sending"}}
  /\ UNCHANGED <<net, server, loop, sess, busy, streams, worker, of, sent>>

LoopExits ==
  /\ stopping /\ loop # "off"
  /\ CancelAll
  /\ sock' = Closed({sess})
  /\ down' = [k \in Sessions |-> IF k = sess THEN <<>> ELSE down[k]]
  /\ loop' = "off" /\ sess' = 0 /\ busy' = NoRequest
  /\ UNCHANGED <<up, server, stopping, worker, of, sent, faults>>

\* startHTTPStream registers the stream, then starts its goroutine.
StartHTTPStream(q) ==
  /\ streams' = streams \cup {q}
  /\ worker' = [worker EXCEPT ![q] = "asking"]
  /\ of' = [of EXCEPT ![q] = sess]

\* handleMessage: requests are served one at a time, by the read loop itself.
HandleMessage ==
  /\ loop = "serving" /\ busy = NoRequest /\ ~stopping
  /\ sock[sess] # "cut" /\ down[sess] # <<>>
  /\ down' = [down EXCEPT ![sess] = Tail(@)]
  /\ LET m == Head(down[sess]) IN
       \/ /\ m.t = "http"
          /\ busy' = m.q
          /\ UNCHANGED <<streams, worker, of, cancelled>>
       \/ /\ m.t = "stream"
          /\ StartHTTPStream(m.q)
          /\ UNCHANGED <<busy, cancelled>>
       \/ /\ m.t = "cancel"
          /\ cancelled' = cancelled \cup ({m.q} \cap streams)
          /\ UNCHANGED <<busy, streams, worker, of>>
  /\ UNCHANGED <<sock, up, server, loop, sess, stopping, sent, faults>>

\* The local daemon answered, or did not within 30 s: a response either way.
SendHTTPResponse ==
  /\ busy # NoRequest
  /\ up' = Put(up, sess, Msg("response", busy))
  /\ busy' = NoRequest
  /\ UNCHANGED <<sock, down, server, loop, sess, stopping, streams, worker, of, cancelled, sent, faults>>

\* A stream's goroutine ends, and leaves its session's table if that is still there.
WorkerDone(q) ==
  /\ worker' = [worker EXCEPT ![q] = "done"]
  /\ of' = [of EXCEPT ![q] = 0] /\ sent' = [sent EXCEPT ![q] = 0]
  /\ streams' = IF of[q] = sess THEN streams \ {q} ELSE streams
  /\ cancelled' = cancelled \ {q}
  /\ UNCHANGED <<loop, sess, stopping, busy>>

\* The local stream opens and its start goes out.
WorkerStarts(q) ==
  /\ worker[q] = "asking" /\ q \notin cancelled
  /\ \/ /\ sock[of[q]] # "closed"
        /\ up' = Put(up, of[q], Msg("start", q))
        /\ worker' = [worker EXCEPT ![q] = "sending"]
        /\ UNCHANGED <<loop, sess, stopping, busy, streams, of, cancelled, sent>>
     \/ /\ sock[of[q]] = "closed"
        /\ WorkerDone(q)
        /\ UNCHANGED up
  /\ UNCHANGED <<sock, down, server, faults>>

WorkerSends(q) ==
  /\ worker[q] = "sending" /\ q \notin cancelled /\ sent[q] < MaxChunks
  /\ \/ /\ sock[of[q]] # "closed"
        /\ up' = Put(up, of[q], [Msg("chunk", q) EXCEPT !.n = sent[q] + 1, !.late = ~share])
        /\ sent' = [sent EXCEPT ![q] = @ + 1]
        /\ UNCHANGED <<loop, sess, stopping, busy, streams, worker, of, cancelled>>
     \/ /\ sock[of[q]] = "closed"
        /\ WorkerDone(q)
        /\ UNCHANGED up
  /\ UNCHANGED <<sock, down, server, faults>>

\* The local daemon ended the stream.
WorkerEnds(q) ==
  /\ worker[q] = "sending" /\ q \notin cancelled
  /\ up' = Put(up, of[q], Msg("end", q))
  /\ WorkerDone(q)
  /\ UNCHANGED <<sock, down, server, faults>>

\* A cancelled goroutine returns: at once if it was still asking, else after one more
\* write on its cancelled context.
WorkerCancelled(q) ==
  /\ worker[q] \in {"asking", "sending"} /\ q \in cancelled
  /\ IF worker[q] = "sending" THEN AbortedWrite(of[q]) ELSE UNCHANGED <<sock, faults>>
  /\ WorkerDone(q)
  /\ UNCHANGED <<down, up, server>>

-----------------------------------------------------------------------------
ServerStep ==
  \/ \E k \in Sessions : RegisterConn(k) \/ CloseOld(k) \/ ServerLost(k) \/ ServerRead(k)
  \/ \E q \in Requests : \/ AddPending(q) \/ WriteRequest(q) \/ Timeout(q)
                         \/ Answer(q) \/ StreamStart(q) \/ StreamNext(q)

DaemonStep ==
  \/ Start \/ Backoff \/ SessionEnds \/ LoopExits \/ HandleMessage \/ SendHTTPResponse
  \/ \E k \in Sessions : Dial(k)

Next ==
  \/ ServerStep \/ DaemonStep
  \/ \E q \in Requests : Pick(q) \/ Abandon(q)
  \/ \E k \in Sessions : Cut(k)
  \/ RevokeShare \/ DialFails \/ Stop
  \/ \E q \in Streams : WorkerStarts(q) \/ WorkerSends(q) \/ WorkerEnds(q) \/ WorkerCancelled(q)

Spec == Init /\ [][Next]_vars

\* Every goroutine runs, every timer fires and a lost peer is noticed; what browsers,
\* users and the local daemon do is up to them.
Fairness ==
  /\ \A k \in Sessions : /\ WF_vars(RegisterConn(k)) /\ WF_vars(CloseOld(k))
                         /\ WF_vars(ServerLost(k)) /\ WF_vars(ServerRead(k))
                         /\ WF_vars(Dial(k))
  /\ \A q \in Requests : /\ WF_vars(AddPending(q)) /\ WF_vars(WriteRequest(q))
                         /\ WF_vars(Timeout(q))
                         /\ WF_vars(Answer(q) \/ StreamStart(q) \/ StreamNext(q))
  /\ \A q \in Streams : WF_vars(WorkerCancelled(q))
  /\ WF_vars(Start) /\ WF_vars(Backoff) /\ WF_vars(SessionEnds) /\ WF_vars(LoopExits)
  /\ WF_vars(HandleMessage) /\ WF_vars(SendHTTPResponse)

FairSpec == Spec /\ Fairness

-----------------------------------------------------------------------------
(* Properties *)

\* A stream that lost a chunk never goes on as if it had not: while a viewer is shown
\* chunks after a gap, the overflow that will cut it off is in its channel
\* (deliverPending keeps the mark, drops the data).
GapAnnounced ==
  \A q \in Streams : stage[q] = "streaming" /\ seen[q].gap =>
    \E i \in DOMAIN chan[q] : chan[q][i].t = "overflow"

\* Nothing the daemon sends after a share link was revoked or expired is ever shown
\* through it (streamTunnel asks again for every chunk).
RevokedQuiet == \A q \in Guests : ~seen[q].late

\* The daemon is reachable again and again, unless it is being stopped: whatever is cut,
\* closed or aborted, replaced or registered late, it ends up serving the session the
\* server sends requests to (docs/operate/relay.md:38).
Reachable == loop = "serving" /\ current = sess /\ srv[current] = "reading" /\ sock[sess] = "open"
ReachableAgain == []<>(stopping \/ Reachable)

\* A viewer that is gone leaves nothing running on the daemon: its stream's goroutine
\* ends, by the cancel frame, by the end of its session or by Stop.  Only a stream whose
\* cancel could not be written may go on, and no longer than its session.
ViewerGoneStreamGone ==
  \A q \in Streams :
    /\ stage[q] = "done" ~> worker[q] \in {"none", "done"} \/ q \in unsent
    /\ stage[q] = "done" /\ of[q] # sess ~> worker[q] \in {"none", "done"}
=============================================================================
