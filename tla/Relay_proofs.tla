---------------------------- MODULE Relay_proofs ----------------------------
(***************************************************************************)
(* Proofs about the relay, for any number of requests, viewers, guests,    *)
(* sessions, chunks and mishaps and any capacity of the channels:          *)
(*                                                                         *)
(*   TypeCorrect     the server and the daemon keep the shape of TypeOK;   *)
(*   RevokedIsQuiet  nothing sent after a share link went is shown by it;  *)
(*   GapsAnnounced   a stream that lost a chunk is cut off by an overflow. *)
(***************************************************************************)
EXTENDS Relay, FiniteSetTheorems, TLAPS

-----------------------------------------------------------------------------
(* Type correctness *)

\* What TypeOK leaves open: a frame to the daemon opens or cancels, and only
\* streams are streamed; whoever uses a session has one.
DownKinds ==
  \A k \in Sessions : \A i \in 1..Len(down[k]) :
    /\ down[k][i].t \in {"http", "stream", "cancel"}
    /\ down[k][i].t # "http" => down[k][i].q \in Streams

InSession ==
  /\ loop = "serving" => sess # 0
  /\ busy # NoRequest => sess # 0
  /\ \A q \in Requests : stage[q] \in {"picked", "added", "waiting", "streaming"} => via[q] # 0
  /\ \A q \in Streams : worker[q] \in {"asking", "sending"} => of[q] # 0

Shape == TypeOK /\ DownKinds /\ InSession

\* A frame without a number carries what it was made from.
LEMMA MsgFrame ==
  ASSUME NEW q \in Requests,
         NEW t \in {"http", "stream", "cancel", "response", "start", "chunk", "end",
                    "disconnected", "overflow"}
  PROVE  /\ Msg(t, q) \in Frame
         /\ Msg(t, q).t = t /\ Msg(t, q).q = q /\ Msg(t, q).late = FALSE /\ Msg(t, q).n = 0
<1>1. 0 \in 0..MaxChunks
  BY BoundsArePositive
<1> QED BY <1>1 DEF Msg, Frame

\* Zero stands for no session.
LEMMA SessionNumbers == Sessions \subseteq 0..MaxSess /\ 0 \in 0..MaxSess /\ 0 \notin Sessions
                        /\ \A k \in 0..MaxSess : k # 0 => k \in Sessions
BY BoundsArePositive DEF Sessions

\* Streams, guests and plain requests are requests.
LEMMA StreamsAsk == Streams \subseteq Requests /\ Guests \subseteq Requests /\ Plain \subseteq Requests
                    /\ NoRequest \notin Requests
BY NoRequestIsNone DEF Streams, Requests

\* A frame written to one session of a network of frames.
LEMMA PutFrames ==
  ASSUME NEW queue \in [Sessions -> Seq(Frame)], NEW k \in Sessions, NEW m \in Frame
  PROVE  /\ Put(queue, k, m) \in [Sessions -> Seq(Frame)]
         /\ \A j \in Sessions : \A i \in 1..Len(Put(queue, k, m)[j]) :
              \/ i \in 1..Len(queue[j]) /\ Put(queue, k, m)[j][i] = queue[j][i]
              \/ j = k /\ i = Len(queue[j]) + 1 /\ sock[k] = "open" /\ Put(queue, k, m)[j][i] = m
BY DEF Put

\* A channel never grows past its capacity.
LEMMA DeliverFits ==
  ASSUME NEW ch \in Seq(Frame), Len(ch) <= ChanCap, NEW m \in Frame
  PROVE  DeliverPending(ch, m) \in Seq(Frame) /\ Len(DeliverPending(ch, m)) <= ChanCap
<1>1. m.q \in Requests
  BY DEF Frame
<1>2. Msg("overflow", m.q) \in Frame
  BY <1>1, MsgFrame
<1>3. ChanCap \in Nat \ {0}
  BY BoundsArePositive
<1>4. CASE Len(ch) < ChanCap
  BY <1>4, <1>3 DEF DeliverPending
<1>5. CASE Len(ch) = ChanCap
  <2>1. ch # <<>>
    BY <1>5, <1>3
  <2>2. Tail(ch) \in Seq(Frame) /\ Len(Tail(ch)) = Len(ch) - 1
    BY <2>1
  <2> QED BY <1>5, <1>2, <1>3, <2>2 DEF DeliverPending
<1> QED BY <1>3, <1>4, <1>5

\* Closing sockets leaves every socket as it was, or closed.
LEMMA ClosedSocks ==
  ASSUME NEW ks, sock \in [Sessions -> {"none", "open", "cut", "closed"}]
  PROVE  /\ Closed(ks) \in [Sessions -> {"none", "open", "cut", "closed"}]
         /\ \A k \in Sessions : Closed(ks)[k] \in {sock[k], "closed"}
BY DEF Closed

\* A browser has seen nothing at first.
LEMMA NothingSeen == Nothing \in [last : 0..MaxChunks, gap : BOOLEAN, late : BOOLEAN]
                     /\ Nothing.last = 0 /\ ~Nothing.gap /\ ~Nothing.late
<1>1. 0 \in 0..MaxChunks
  BY BoundsArePositive
<1> QED BY <1>1 DEF Nothing

\* Initially everything has its shape.
LEMMA ShapeInit == Init => Shape
<1>1. <<>> \in Seq(Frame) /\ Len(<<>>) = 0 /\ 0 <= ChanCap /\ 0 \in 0..MaxFaults /\ 0 \in 0..MaxChunks
  BY BoundsArePositive
<1> SUFFICES ASSUME Init PROVE Shape
  OBVIOUS
<1>2. TypeOK
  BY <1>1, SessionNumbers, NothingSeen DEF Init, TypeOK
<1>3. DownKinds
  BY <1>1 DEF Init, DownKinds
<1>4. InSession
  BY StreamsAsk DEF Init, InSession
<1> QED BY <1>2, <1>3, <1>4 DEF Shape

\* The steps of the server's connections keep the shape.
LEMMA ShapeConns ==
  ASSUME Shape, NEW k \in Sessions, RegisterConn(k) \/ CloseOld(k) \/ ServerLost(k) \/ ServerRead(k)
  PROVE  Shape'
<1>1. CASE RegisterConn(k)
  BY <1>1, SessionNumbers
     DEF RegisterConn, Shape, TypeOK, DownKinds, InSession, net, handler, daemon
<1>2. CASE CloseOld(k)
  BY <1>2, SessionNumbers, ClosedSocks
     DEF CloseOld, Shape, TypeOK, DownKinds, InSession, handler, daemon
<1>3. CASE ServerLost(k)
  <2>1. /\ current' \in 0..MaxSess /\ pend' \in [Requests -> 0..MaxSess]
        /\ chan' \in [Requests -> Seq(Frame)] /\ \A q \in Requests : Len(chan'[q]) <= ChanCap
    <3>1. \A q \in Requests : Msg("disconnected", q) \in Frame
      BY MsgFrame
    <3>2. CASE current = k
      <4>1. \A q \in Requests : /\ chan'[q] \in Seq(Frame) /\ Len(chan'[q]) <= ChanCap
        <5> TAKE q \in Requests
        <5>1. chan[q] \in Seq(Frame) /\ Len(chan[q]) <= ChanCap /\ ChanCap \in Nat
          BY BoundsArePositive DEF Shape, TypeOK
        <5>2. \/ chan'[q] = chan[q]
              \/ Len(chan[q]) < ChanCap /\ chan'[q] = Append(chan[q], Msg("disconnected", q))
          BY <1>3, <3>2 DEF ServerLost, UnregisterConn
        <5>3. Msg("disconnected", q) \in Frame
          BY <3>1
        <5> DEFINE m == Msg("disconnected", q)
        <5>4. m \in Frame /\ (chan'[q] = chan[q] \/ (Len(chan[q]) < ChanCap /\ chan'[q] = Append(chan[q], m)))
          BY <5>2, <5>3
        <5> HIDE DEF m
        <5>5. CASE chan'[q] = chan[q]
          BY <5>1, <5>5
        <5>6. CASE Len(chan[q]) < ChanCap /\ chan'[q] = Append(chan[q], m)
          <6>1. Append(chan[q], m) \in Seq(Frame) /\ Len(Append(chan[q], m)) = Len(chan[q]) + 1
                /\ Len(chan[q]) \in Nat
            BY <5>1, <5>4
          <6> QED BY <5>1, <5>6, <6>1
        <5> QED BY <5>4, <5>5, <5>6
      <4>2. /\ current' = 0 /\ \A q \in Requests : pend'[q] \in 0..MaxSess
            /\ DOMAIN pend' = Requests /\ DOMAIN chan' = Requests
            /\ pend' = [q \in Requests |-> pend'[q]] /\ chan' = [q \in Requests |-> chan'[q]]
        BY <1>3, <3>2, SessionNumbers, ZenonT(60) DEF ServerLost, UnregisterConn, Shape, TypeOK
      <4> QED BY <4>1, <4>2, SessionNumbers
    <3>3. CASE current # k
      BY <1>3, <3>3 DEF ServerLost, UnregisterConn, Shape, TypeOK
    <3> QED BY <3>2, <3>3
  <2>2. TypeOK'
    <3>1. <<>> \in Seq(Frame)
      OBVIOUS
    <3> QED BY <1>3, <2>1, <3>1, ClosedSocks DEF ServerLost, Shape, TypeOK, daemon
  <2> QED BY <1>3, <2>2 DEF ServerLost, Shape, DownKinds, InSession, daemon
<1>4. CASE ServerRead(k)
  <2>1. Head(up[k]) \in Frame /\ Tail(up[k]) \in Seq(Frame) /\ Head(up[k]).q \in Requests
    <3>1. up[k] \in Seq(Frame) /\ up[k] # <<>>
      BY <1>4 DEF ServerRead, Shape, TypeOK
    <3>2. Head(up[k]) \in Frame /\ Tail(up[k]) \in Seq(Frame)
      BY <3>1
    <3> QED BY <3>2 DEF Frame
  <2>2. chan' \in [Requests -> Seq(Frame)] /\ \A q \in Requests : Len(chan'[q]) <= ChanCap
    BY <1>4, <2>1, DeliverFits DEF ServerRead, Shape, TypeOK
  <2>3. TypeOK'
    BY <1>4, <2>1, <2>2 DEF ServerRead, Shape, TypeOK, daemon
  <2> QED BY <1>4, <2>3 DEF ServerRead, Shape, DownKinds, InSession, daemon
<1> QED BY <1>1, <1>2, <1>3, <1>4

\* A handler that returns leaves the frames and everybody else in shape.
LEMMA ShapeOver ==
  ASSUME Shape, NEW q \in Requests, Over(q),
         sock' \in [Sessions -> {"none", "open", "cut", "closed"}],
         down' \in [Sessions -> Seq(Frame)], DownKinds', faults' \in 0..MaxFaults,
         unsent' \in SUBSET Streams, UNCHANGED <<up, srv, old, current, share, daemon>>
  PROVE  Shape'
<1>1. <<>> \in Seq(Frame) /\ Len(<<>>) = 0 /\ 0 <= ChanCap
  BY BoundsArePositive
<1>2. TypeOK'
  BY <1>1, SessionNumbers, NothingSeen, ZenonT(60) DEF Shape, TypeOK, Over, daemon
<1>3. InSession'
  BY SMTT(40) DEF Shape, TypeOK, InSession, Over, daemon
<1> QED BY <1>2, <1>3 DEF Shape

\* An aborted write closes a socket, or is one of the bounded faults.
LEMMA AbortedShape ==
  ASSUME Shape, NEW k \in Sessions, AbortedWrite(k)
  PROVE  sock' \in [Sessions -> {"none", "open", "cut", "closed"}] /\ faults' \in 0..MaxFaults
<1>1. CASE UNCHANGED <<sock, faults>>
  BY <1>1 DEF Shape, TypeOK
<1>2. CASE Mishap /\ sock' = Closed({k})
  <2>1. faults' \in 0..MaxFaults
    BY <1>2, BoundsArePositive DEF Mishap, Shape, TypeOK
  <2> QED BY <1>2, <2>1, ClosedSocks DEF Shape, TypeOK
<1> QED BY <1>1, <1>2 DEF AbortedWrite

\* The frame that opens a request names it and its kind.
LEMMA OpensKind ==
  ASSUME NEW q \in Requests
  PROVE  /\ Opens(q) \in Frame /\ Opens(q).q = q /\ Opens(q).late = FALSE
         /\ Opens(q).t = IF q \in Plain THEN "http" ELSE "stream"
         /\ q \notin Plain => q \in Streams
<1>1. q \notin Plain => q \in Streams
  BY DEF Requests
<1>2. CASE q \in Plain
  <2>1. Opens(q) = Msg("http", q)
    BY <1>2 DEF Opens
  <2>2. /\ Msg("http", q) \in Frame /\ Msg("http", q).t = "http" /\ Msg("http", q).q = q
        /\ Msg("http", q).late = FALSE
    BY MsgFrame, ZenonT(60)
  <2> QED BY <1>1, <1>2, <2>1, <2>2
<1>3. CASE q \notin Plain
  <2>1. Opens(q) = Msg("stream", q)
    BY <1>3 DEF Opens
  <2>2. /\ Msg("stream", q) \in Frame /\ Msg("stream", q).t = "stream" /\ Msg("stream", q).q = q
        /\ Msg("stream", q).late = FALSE
    BY MsgFrame, ZenonT(60)
  <2> QED BY <1>1, <1>3, <2>1, <2>2
<1> QED BY <1>2, <1>3

\* A frame from the daemon joins the end of one session's queue.
LEMMA UpPut ==
  ASSUME Shape, NEW k \in Sessions, NEW m \in Frame, up' = Put(up, k, m)
  PROVE  /\ up' \in [Sessions -> Seq(Frame)]
         /\ \A j \in Sessions : \A i \in 1..Len(up'[j]) :
              \/ i \in 1..Len(up[j]) /\ up'[j][i] = up[j][i]
              \/ j = k /\ i = Len(up[j]) + 1 /\ sock[k] = "open" /\ up'[j][i] = m
<1>1. up \in [Sessions -> Seq(Frame)]
  BY DEF Shape, TypeOK
<1>2. CASE sock[k] = "open"
  <2>1. up' = [up EXCEPT ![k] = Append(@, m)]
    BY <1>2 DEF Put
  <2> QED BY <1>1, <1>2, <2>1
<1>3. CASE sock[k] # "open"
  BY <1>1, <1>3 DEF Put
<1> QED BY <1>2, <1>3

\* A frame to the daemon that opens or cancels keeps the kinds.
LEMMA DownPut ==
  ASSUME Shape, NEW k \in Sessions, NEW m \in Frame, down' = Put(down, k, m),
         m.t \in {"http", "stream", "cancel"}, m.t # "http" => m.q \in Streams
  PROVE  down' \in [Sessions -> Seq(Frame)] /\ DownKinds'
<1>1. down \in [Sessions -> Seq(Frame)]
  BY DEF Shape, TypeOK
<1>2. k \in Sessions /\ m \in Frame
  OBVIOUS
<1>3. \A j \in Sessions : \A i \in 1..Len(Put(down, k, m)[j]) :
        \/ i \in 1..Len(down[j]) /\ Put(down, k, m)[j][i] = down[j][i]
        \/ j = k /\ i = Len(down[j]) + 1 /\ sock[k] = "open" /\ Put(down, k, m)[j][i] = m
  BY ONLY <1>1, <1>2, PutFrames
<1>4. Put(down, k, m) \in [Sessions -> Seq(Frame)]
  BY ONLY <1>1, <1>2, PutFrames
<1>5. /\ down' \in [Sessions -> Seq(Frame)]
      /\ \A j \in Sessions : \A i \in 1..Len(down'[j]) :
           \/ i \in 1..Len(down[j]) /\ down'[j][i] = down[j][i]
           \/ down'[j][i] = m
  <2>1. down' = Put(down, k, m)
    OBVIOUS
  <2> QED BY ONLY <1>3, <1>4, <2>1, ZenonT(60)
<1>6. DownKinds
  BY DEF Shape
<1> QED BY <1>5, <1>6 DEF DownKinds

\* A request that returns keeps the shape.
LEMMA ShapeReturns ==
  ASSUME Shape, NEW q \in Requests, Returns(q), via[q] # 0
  PROVE  Shape'
<1> DEFINE m == Msg("cancel", q)
<1>1. via[q] \in Sessions
  BY SessionNumbers DEF Shape, TypeOK
<1>3. m \in Frame /\ m.t = "cancel" /\ m.q = q
  BY MsgFrame, ZenonT(60)
<1>2. down' \in [Sessions -> Seq(Frame)] /\ DownKinds'
  <2> HIDE DEF m
  <2>1. CASE q \in Streams /\ down' = Put(down, via[q], Msg("cancel", q))
    <3>1. down' = Put(down, via[q], m)
      BY <2>1 DEF m
    <3> QED BY <2>1, <3>1, <1>1, <1>3, DownPut
  <2>2. CASE UNCHANGED down
    BY <2>2 DEF Shape, TypeOK, DownKinds
  <2> QED BY <2>1, <2>2 DEF Returns, CancelSent
<1>4. /\ sock' \in [Sessions -> {"none", "open", "cut", "closed"}]
      /\ unsent' \in SUBSET Streams /\ faults' \in 0..MaxFaults
  <2>1. CASE UNCHANGED <<sock, unsent, faults>>
    BY <2>1 DEF Shape, TypeOK
  <2>2. CASE q \in Streams /\ Mishap /\ sock' \in {sock, Closed({via[q]})} /\ unsent' = unsent \cup {q}
    <3>1. faults' \in 0..MaxFaults
      BY <2>2, BoundsArePositive DEF Mishap, Shape, TypeOK
    <3>2. sock' \in [Sessions -> {"none", "open", "cut", "closed"}]
      BY <2>2, ClosedSocks DEF Shape, TypeOK
    <3> QED BY <2>2, <3>1, <3>2 DEF Shape, TypeOK
  <2> QED BY <2>1, <2>2 DEF Returns, CancelSent
<1> QED BY <1>2, <1>4, ShapeOver DEF Returns

\* The steps of the browsers' requests keep the shape.
LEMMA ShapeBrowsers ==
  ASSUME Shape, NEW q \in Requests,
         \/ Pick(q) \/ AddPending(q) \/ WriteRequest(q) \/ Abandon(q) \/ Timeout(q)
         \/ Answer(q) \/ StreamStart(q) \/ StreamNext(q)
  PROVE  Shape'
<1>1. CASE Pick(q)
  <2>1. TypeOK'
    BY <1>1 DEF Pick, Shape, TypeOK, net, daemon
  <2>2. DownKinds'
    BY <1>1 DEF Pick, Shape, DownKinds, net
  <2>3. InSession'
    BY <1>1 DEF Pick, Shape, TypeOK, InSession, daemon
  <2> QED BY <2>1, <2>2, <2>3 DEF Shape
<1>2. CASE AddPending(q)
  <2>1. TypeOK'
    BY <1>2 DEF AddPending, Shape, TypeOK, net, daemon
  <2>2. DownKinds'
    BY <1>2 DEF AddPending, Shape, DownKinds, net
  <2>3. InSession'
    BY <1>2 DEF AddPending, Shape, TypeOK, InSession, daemon
  <2> QED BY <2>1, <2>2, <2>3 DEF Shape
<1>3. CASE WriteRequest(q)
  <2>1. via[q] \in Sessions
    BY <1>3, SessionNumbers DEF WriteRequest, Shape, TypeOK, InSession
  <2>2. CASE /\ down' = Put(down, via[q], Opens(q))
             /\ stage' = [stage EXCEPT ![q] = "waiting"]
             /\ UNCHANGED <<sock, via, pend, chan, seen, faults>>
    <3>1. down' \in [Sessions -> Seq(Frame)] /\ DownKinds'
      <4> DEFINE m == Opens(q)
      <4>1. m \in Frame /\ m.t \in {"http", "stream"} /\ (m.t # "http" => m.q \in Streams)
        BY OpensKind
      <4>2. down' = Put(down, via[q], m)
        BY <2>2
      <4> HIDE DEF m
      <4> QED BY <2>1, <4>1, <4>2, DownPut
    <3>2. TypeOK'
      BY <1>3, <2>2, <3>1 DEF WriteRequest, Shape, TypeOK, daemon
    <3>3. InSession'
      BY <1>3, <2>1, <2>2 DEF WriteRequest, Shape, TypeOK, InSession, daemon
    <3> QED BY <3>1, <3>2, <3>3 DEF Shape
  <2>3. CASE Over(q) /\ UNCHANGED <<sock, down, faults>>
    BY <1>3, <2>3, ShapeOver DEF WriteRequest, Shape, TypeOK, DownKinds
  <2>4. CASE AbortedWrite(via[q]) /\ Over(q) /\ UNCHANGED down
    BY <1>3, <2>1, <2>4, AbortedShape, ShapeOver DEF WriteRequest, Shape, TypeOK, DownKinds
  <2> QED BY <1>3, <2>2, <2>3, <2>4 DEF WriteRequest
<1>4. CASE Returns(q) /\ stage[q] \in {"waiting", "streaming"}
  BY <1>4, ShapeReturns DEF Shape, InSession
<1>5. CASE StreamStart(q) /\ ~Returns(q)
  <2>1. Tail(chan[q]) \in Seq(Frame) /\ Len(Tail(chan[q])) <= ChanCap
    BY <1>5, BoundsArePositive DEF StreamStart, Shape, TypeOK
  <2>2. TypeOK'
    BY <1>5, <2>1, ZenonT(60) DEF StreamStart, Shape, TypeOK, net, daemon
  <2>3. InSession'
    BY <1>5, ZenonT(60) DEF StreamStart, Shape, TypeOK, InSession, net, daemon
  <2> QED BY <1>5, <2>2, <2>3 DEF StreamStart, Shape, DownKinds, net
<1>6. CASE StreamNext(q) /\ ~Returns(q)
  <2>1. Tail(chan[q]) \in Seq(Frame) /\ Len(Tail(chan[q])) <= ChanCap /\ Head(chan[q]) \in Frame
    BY <1>6, BoundsArePositive DEF StreamNext, Shape, TypeOK
  <2>2. Shown(q, Head(chan[q])) \in [last : 0..MaxChunks, gap : BOOLEAN, late : BOOLEAN]
    BY <2>1 DEF Shown, Shape, TypeOK, Frame
  <2>3. TypeOK'
    BY <1>6, <2>1, <2>2, ZenonT(60) DEF StreamNext, Shape, TypeOK, net, daemon
  <2> QED BY <1>6, <2>3 DEF StreamNext, Shape, DownKinds, InSession, net, daemon
<1> QED BY <1>1, <1>2, <1>3, <1>4, <1>5, <1>6
        DEF Abandon, Timeout, Answer, StreamStart, StreamNext

\* A frame taken or thrown away by the daemon keeps the kinds of the others.
LEMMA DownTaken ==
  ASSUME Shape, down' \in [Sessions -> Seq(Frame)],
         \A k \in Sessions : \/ down'[k] = down[k] \/ down'[k] = <<>>
                             \/ down[k] # <<>> /\ down'[k] = Tail(down[k])
  PROVE  DownKinds'
<1> SUFFICES ASSUME NEW k \in Sessions, NEW i \in 1..Len(down'[k])
             PROVE  /\ down'[k][i].t \in {"http", "stream", "cancel"}
                    /\ down'[k][i].t # "http" => down'[k][i].q \in Streams
  BY DEF DownKinds
<1>1. down[k] \in Seq(Frame)
  BY DEF Shape, TypeOK
<1>2. CASE down'[k] = down[k]
  BY <1>2 DEF Shape, DownKinds
<1>3. CASE down'[k] = <<>>
  BY <1>3
<1>4. CASE down[k] # <<>> /\ down'[k] = Tail(down[k])
  <2>1. i + 1 \in 1..Len(down[k]) /\ down'[k][i] = down[k][i + 1]
    BY <1>1, <1>4
  <2> QED BY <2>1 DEF Shape, DownKinds
<1> QED BY <1>2, <1>3, <1>4

\* The head of a session's queue.
LEMMA HeadFrame ==
  ASSUME NEW s \in Seq(Frame), s # <<>>
  PROVE  /\ Head(s) \in Frame /\ Head(s) = s[1] /\ 1 \in 1..Len(s) /\ Tail(s) \in Seq(Frame)
         /\ Head(s).q \in Requests
<1>1. Head(s) \in Frame /\ Head(s) = s[1] /\ 1 \in 1..Len(s) /\ Tail(s) \in Seq(Frame)
  OBVIOUS
<1> QED BY <1>1 DEF Frame

\* The steps of the daemon's sessions keep the shape.
LEMMA ShapeDaemon ==
  ASSUME Shape, \/ Start \/ Backoff \/ SessionEnds \/ LoopExits \/ HandleMessage \/ SendHTTPResponse
                \/ (\E k \in Sessions : Dial(k)) \/ DialFails \/ Stop
  PROVE  Shape'
<1>0. <<>> \in Seq(Frame)
  OBVIOUS
<1>1. CASE Start \/ Backoff
  <2>1. TypeOK'
    BY <1>1 DEF Start, Backoff, Shape, TypeOK, net, server, handler
  <2>2. DownKinds'
    BY <1>1 DEF Start, Backoff, Shape, DownKinds, net
  <2>3. InSession'
    BY <1>1 DEF Start, Backoff, Shape, InSession, server, handler
  <2> QED BY <2>1, <2>2, <2>3 DEF Shape
<1>2. CASE SessionEnds
  <2>1. sess \in Sessions
    BY <1>2, SessionNumbers DEF SessionEnds, Shape, TypeOK, InSession
  <2>2. down' \in [Sessions -> Seq(Frame)] /\ DownKinds'
    <3>1. down' \in [Sessions -> Seq(Frame)]
      BY <1>0, <1>2, <2>1 DEF SessionEnds, Shape, TypeOK
    <3>2. \A k \in Sessions : down'[k] = down[k] \/ down'[k] = <<>>
      BY <1>2, <2>1 DEF SessionEnds, Shape, TypeOK
    <3> QED BY <3>1, <3>2, DownTaken
  <2>3. TypeOK'
    BY <1>2, <2>2, SessionNumbers, ClosedSocks
       DEF SessionEnds, CancelAll, Shape, TypeOK, server, handler
  <2>4. InSession'
    BY <1>2 DEF SessionEnds, Shape, InSession, server, handler
  <2> QED BY <2>2, <2>3, <2>4 DEF Shape
<1>3. CASE LoopExits
  <2>2. down' \in [Sessions -> Seq(Frame)] /\ DownKinds'
    <3>1. down' \in [Sessions -> Seq(Frame)]
      BY <1>0, <1>3 DEF LoopExits, Shape, TypeOK
    <3>2. \A k \in Sessions : down'[k] = down[k] \/ down'[k] = <<>>
      BY <1>3 DEF LoopExits, Shape, TypeOK
    <3> QED BY <3>1, <3>2, DownTaken
  <2>3. TypeOK'
    BY <1>3, <2>2, SessionNumbers, ClosedSocks
       DEF LoopExits, CancelAll, Shape, TypeOK, server, handler
  <2>4. InSession'
    BY <1>3 DEF LoopExits, Shape, InSession, server, handler
  <2> QED BY <2>2, <2>3, <2>4 DEF Shape
<1>4. CASE HandleMessage
  <2> DEFINE m == Head(down[sess])
  <2>1. sess \in Sessions
    BY <1>4, SessionNumbers DEF HandleMessage, Shape, TypeOK, InSession
  <2>2. down[sess] \in Seq(Frame) /\ down[sess] # <<>>
    BY <1>4, <2>1 DEF HandleMessage, Shape, TypeOK
  <2>3. m \in Frame /\ m.q \in Requests /\ Tail(down[sess]) \in Seq(Frame)
        /\ (m.t # "http" => m.q \in Streams)
    BY <2>1, <2>2, HeadFrame DEF Shape, DownKinds
  <2>4. down' \in [Sessions -> Seq(Frame)] /\ DownKinds'
    <3>1. down' = [down EXCEPT ![sess] = Tail(@)]
      BY <1>4 DEF HandleMessage
    <3>2. down' \in [Sessions -> Seq(Frame)]
      BY <3>1, <2>1, <2>3 DEF Shape, TypeOK
    <3>3. \A k \in Sessions : \/ down'[k] = down[k]
                              \/ down[k] # <<>> /\ down'[k] = Tail(down[k])
      BY <3>1, <2>1, <2>2 DEF Shape, TypeOK
    <3> QED BY <3>2, <3>3, DownTaken
  <2>5. TypeOK'
    BY <1>4, <2>1, <2>3, <2>4, ZenonT(60) DEF HandleMessage, StartHTTPStream, Shape, TypeOK, server, handler
  <2>6. InSession'
    BY <1>4, <2>1, <2>3, SessionNumbers, ZenonT(60)
       DEF HandleMessage, StartHTTPStream, Shape, TypeOK, InSession, server, handler
  <2> QED BY <2>4, <2>5, <2>6 DEF Shape
<1>5. CASE SendHTTPResponse
  <2> DEFINE m == Msg("response", busy)
  <2>1. sess \in Sessions /\ busy \in Requests
    BY <1>5, SessionNumbers DEF SendHTTPResponse, Shape, TypeOK, InSession
  <2>2. m \in Frame
    BY <2>1, MsgFrame
  <2>3. up' \in [Sessions -> Seq(Frame)]
    <3>1. up' = Put(up, sess, m)
      BY <1>5 DEF SendHTTPResponse
    <3> HIDE DEF m
    <3> QED BY <2>1, <2>2, <3>1, UpPut
  <2>4. TypeOK'
    BY <1>5, <2>3 DEF SendHTTPResponse, Shape, TypeOK, server, handler
  <2> QED BY <1>5, <2>4 DEF SendHTTPResponse, Shape, DownKinds, InSession, server, handler
<1>6. ASSUME NEW k \in Sessions, Dial(k) PROVE Shape'
  <2>1. TypeOK'
    BY <1>6, SessionNumbers DEF Dial, Shape, TypeOK, handler
  <2> QED BY <1>6, <2>1, SessionNumbers DEF Dial, Shape, DownKinds, InSession, handler
<1>7. CASE DialFails \/ Stop
  <2>1. faults' \in 0..MaxFaults
    BY <1>7, BoundsArePositive DEF DialFails, Stop, Mishap, Shape, TypeOK
  <2>2. TypeOK'
    BY <1>7, <2>1, ZenonT(60) DEF DialFails, Stop, Shape, TypeOK, net, server, handler
  <2> QED BY <1>7, <2>2 DEF DialFails, Stop, Shape, DownKinds, InSession, net, server, handler
<1> QED BY <1>1, <1>2, <1>3, <1>4, <1>5, <1>6, <1>7

\* A stream's goroutine that ends, or writes one frame.
LEMMA ShapeWorkerDone ==
  ASSUME Shape, NEW q \in Streams, WorkerDone(q), up' \in [Sessions -> Seq(Frame)],
         sock' \in [Sessions -> {"none", "open", "cut", "closed"}], faults' \in 0..MaxFaults,
         UNCHANGED <<down, server>>
  PROVE  Shape'
<1>1. 0 \in 0..MaxChunks
  BY BoundsArePositive
<1>2. TypeOK'
  BY <1>1, SessionNumbers DEF WorkerDone, Shape, TypeOK, server, handler
<1>3. InSession'
  BY DEF WorkerDone, Shape, TypeOK, InSession, server, handler
<1> QED BY <1>2, <1>3 DEF Shape, DownKinds

\* The steps of the stream workers keep the shape.
LEMMA ShapeWorkers ==
  ASSUME Shape, NEW q \in Streams,
         WorkerStarts(q) \/ WorkerSends(q) \/ WorkerEnds(q) \/ WorkerCancelled(q)
  PROVE  Shape'
<1>0. of[q] \in Sessions /\ q \in Requests
  BY SessionNumbers, StreamsAsk
     DEF WorkerStarts, WorkerSends, WorkerEnds, WorkerCancelled, Shape, TypeOK, InSession
<1>1. CASE WorkerStarts(q)
  <2>1. CASE WorkerDone(q) /\ UNCHANGED up
    BY <1>1, <2>1, ShapeWorkerDone DEF WorkerStarts, Shape, TypeOK
  <2>2. CASE /\ up' = Put(up, of[q], Msg("start", q))
             /\ worker' = [worker EXCEPT ![q] = "sending"]
             /\ UNCHANGED <<loop, sess, stopping, busy, streams, of, cancelled, sent>>
    <3> DEFINE m == Msg("start", q)
    <3>1. m \in Frame /\ up' = Put(up, of[q], m)
      BY <1>0, <2>2, MsgFrame
    <3> HIDE DEF m
    <3>2. up' \in [Sessions -> Seq(Frame)]
      BY <1>0, <3>1, UpPut
    <3>3. TypeOK'
      BY <1>1, <2>2, <3>2 DEF WorkerStarts, Shape, TypeOK, server, handler
    <3>4. InSession'
      BY <1>1, <2>2 DEF WorkerStarts, Shape, TypeOK, InSession, server, handler
    <3> QED BY <1>1, <3>3, <3>4 DEF WorkerStarts, Shape, DownKinds
  <2> QED BY <1>1, <2>1, <2>2 DEF WorkerStarts
<1>2. CASE WorkerSends(q)
  <2>1. CASE WorkerDone(q) /\ UNCHANGED up
    BY <1>2, <2>1, ShapeWorkerDone DEF WorkerSends, Shape, TypeOK
  <2> DEFINE m == [Msg("chunk", q) EXCEPT !.n = sent[q] + 1, !.late = ~share]
  <2>2. CASE /\ up' = Put(up, of[q], m)
             /\ sent' = [sent EXCEPT ![q] = @ + 1]
             /\ UNCHANGED <<loop, sess, stopping, busy, streams, worker, of, cancelled>>
    <3>1. m \in Frame
      <4>1. sent[q] + 1 \in 0..MaxChunks
        <5>1. sent[q] \in 0..MaxChunks /\ sent[q] < MaxChunks
          BY <1>2 DEF WorkerSends, Shape, TypeOK
        <5> QED BY <5>1, BoundsArePositive
      <4> QED BY <1>0, <4>1 DEF Msg, Frame, Shape, TypeOK
    <3> HIDE DEF m
    <3>2. up' \in [Sessions -> Seq(Frame)]
      BY <1>0, <2>2, <3>1, UpPut
    <3>3. sent' \in [Streams -> 0..MaxChunks]
      <4>1. /\ sent \in [Streams -> 0..MaxChunks] /\ sent[q] \in 0..MaxChunks /\ sent[q] < MaxChunks
            /\ sent' = [sent EXCEPT ![q] = sent[q] + 1]
        BY <1>2, <2>2 DEF WorkerSends, Shape, TypeOK
      <4>2. sent[q] + 1 \in 0..MaxChunks
        BY <4>1, BoundsArePositive
      <4> QED BY <4>1, <4>2
    <3>4. TypeOK'
      BY <1>2, <2>2, <3>2, <3>3 DEF WorkerSends, Shape, TypeOK, server, handler
    <3> QED BY <1>2, <2>2, <3>4
            DEF WorkerSends, Shape, DownKinds, InSession, server, handler
  <2> QED BY <1>2, <2>1, <2>2 DEF WorkerSends
<1>3. CASE WorkerEnds(q)
  <2> DEFINE m == Msg("end", q)
  <2>1. m \in Frame /\ up' = Put(up, of[q], m)
    BY <1>0, <1>3, MsgFrame DEF WorkerEnds
  <2> HIDE DEF m
  <2>2. up' \in [Sessions -> Seq(Frame)]
    BY <1>0, <2>1, UpPut
  <2> QED BY <1>3, <2>2, ShapeWorkerDone DEF WorkerEnds, Shape, TypeOK
<1>4. CASE WorkerCancelled(q)
  <2>1. sock' \in [Sessions -> {"none", "open", "cut", "closed"}] /\ faults' \in 0..MaxFaults
    BY <1>0, <1>4, AbortedShape DEF WorkerCancelled, Shape, TypeOK
  <2> QED BY <1>4, <2>1, ShapeWorkerDone DEF WorkerCancelled, Shape, TypeOK
<1> QED BY <1>1, <1>2, <1>3, <1>4

\* A cut connection keeps the shape.
LEMMA ShapeCut ==
  ASSUME Shape, NEW k \in Sessions, Cut(k)
  PROVE  Shape'
<1>0. <<>> \in Seq(Frame)
  OBVIOUS
<1>1. faults' \in 0..MaxFaults
  BY BoundsArePositive DEF Cut, Mishap, Shape, TypeOK
<1>2. /\ down' \in [Sessions -> Seq(Frame)] /\ up' \in [Sessions -> Seq(Frame)]
      /\ \A j \in Sessions : down'[j] = down[j] \/ down'[j] = <<>>
  BY <1>0 DEF Cut, Shape, TypeOK
<1>3. DownKinds'
  BY <1>2, DownTaken
<1>4. TypeOK'
  BY <1>1, <1>2 DEF Cut, Shape, TypeOK, server, handler, daemon
<1> QED BY <1>3, <1>4 DEF Cut, Shape, InSession, server, handler, daemon

\* Every step keeps the shape.
LEMMA ShapeNext == Shape /\ [Next]_vars => Shape'
<1> SUFFICES ASSUME Shape, [Next]_vars PROVE Shape'
  OBVIOUS
<1>1. CASE RevokeShare \/ UNCHANGED vars
  BY <1>1, ZenonT(60) DEF RevokeShare, Shape, TypeOK, DownKinds, InSession, vars, net, server, handler, daemon
<1> QED BY <1>1, ShapeConns, ShapeBrowsers, ShapeDaemon, ShapeWorkers, ShapeCut
        DEF Next, ServerStep, DaemonStep

\* The shape holds in every reachable state.
LEMMA ShapeHolds == Spec => []Shape
BY ShapeInit, ShapeNext, PTL DEF Spec

\* Whatever is cut, closed or aborted: sockets, queues, handlers, pending
\* requests and goroutines keep their shapes, no channel holds more than its
\* capacity, and no chunk number exceeds the bound.
THEOREM TypeCorrect == Spec => []TypeOK
<1>1. Shape => TypeOK
  BY DEF Shape
<1> QED BY <1>1, ShapeHolds, PTL

-----------------------------------------------------------------------------
(* A revoked share link *)

\* While the link is good nothing late exists anywhere; a guest is shown a
\* chunk only while it is good.
QuietInv ==
  /\ share => /\ \A k \in Sessions : \A i \in 1..Len(up[k]) : up[k][i].late = FALSE
              /\ \A q \in Requests : \A i \in 1..Len(chan[q]) : chan[q][i].late = FALSE
  /\ RevokedQuiet

\* A step whose frames are old ones, or ones written on time, shows a guest
\* nothing late unless it shows it a late frame.
LEMMA QuietFrame ==
  ASSUME Shape, QuietInv, share' => share,
         share' => \A k \in Sessions : \A i \in 1..Len(up'[k]) :
           up'[k][i].late = FALSE \/ (\E j \in 1..Len(up[k]) : up'[k][i] = up[k][j]),
         share' => \A q \in Requests : \A i \in 1..Len(chan'[q]) :
           chan'[q][i].late = FALSE \/ (\E j \in 1..Len(chan[q]) : chan'[q][i] = chan[q][j]),
         \A q \in Guests : seen'[q] \in {seen[q], Nothing}
  PROVE  QuietInv'
<1>1. RevokedQuiet'
  BY NothingSeen DEF QuietInv, RevokedQuiet
<1>2. ASSUME share' PROVE \A k \in Sessions : \A i \in 1..Len(up'[k]) : up'[k][i].late = FALSE
  BY <1>2 DEF QuietInv
<1>3. ASSUME share' PROVE \A q \in Requests : \A i \in 1..Len(chan'[q]) : chan'[q][i].late = FALSE
  BY <1>3 DEF QuietInv
<1> QED BY <1>1, <1>2, <1>3 DEF QuietInv

\* A frame put in a queue or a channel: the others are where they were.
LEMMA AppendFrames ==
  ASSUME NEW s \in Seq(Frame), NEW m \in Frame
  PROVE  \A i \in 1..Len(Append(s, m)) :
           Append(s, m)[i] = m \/ (\E j \in 1..Len(s) : Append(s, m)[i] = s[j])
OBVIOUS

\* The frames left after the first are the others, in order.
LEMMA TailFrames ==
  ASSUME NEW s \in Seq(Frame), s # <<>>
  PROVE  /\ \A i \in 1..Len(Tail(s)) : \E j \in 1..Len(s) : Tail(s)[i] = s[j]
         /\ \A i \in 1..Len(Tail(s)) : i + 1 \in 1..Len(s) /\ Tail(s)[i] = s[i + 1]
<1>1. \A i \in 1..Len(Tail(s)) : i + 1 \in 1..Len(s) /\ Tail(s)[i] = s[i + 1]
  OBVIOUS
<1> QED BY <1>1

\* What deliverPending leaves in a channel: what was there, the frame it
\* delivers, or an overflow mark for it.
LEMMA DeliverFrames ==
  ASSUME NEW ch \in Seq(Frame), Len(ch) <= ChanCap, NEW m \in Frame
  PROVE  \A i \in 1..Len(DeliverPending(ch, m)) :
           \/ DeliverPending(ch, m)[i] \in {m, Msg("overflow", m.q)}
           \/ \E j \in 1..Len(ch) : DeliverPending(ch, m)[i] = ch[j]
<1>1. m.q \in Requests
  BY DEF Frame
<1>2. Msg("overflow", m.q) \in Frame
  BY <1>1, MsgFrame
<1>3. ChanCap \in Nat \ {0}
  BY BoundsArePositive
<1>4. CASE Len(ch) < ChanCap
  BY <1>4, AppendFrames DEF DeliverPending
<1>5. CASE ~(Len(ch) < ChanCap)
  <2> DEFINE o == Msg("overflow", m.q)
  <2>1. ch # <<>> /\ DeliverPending(ch, m) = Append(Tail(ch), o) /\ o \in Frame
    BY <1>2, <1>3, <1>5 DEF DeliverPending
  <2> HIDE DEF o
  <2>2. Tail(ch) \in Seq(Frame)
    BY <2>1
  <2>3. \A i \in 1..Len(Append(Tail(ch), o)) :
           Append(Tail(ch), o)[i] = o \/ (\E j \in 1..Len(Tail(ch)) : Append(Tail(ch), o)[i] = Tail(ch)[j])
    BY <2>1, <2>2, AppendFrames
  <2> QED BY <2>1, <2>3, TailFrames DEF o
<1> QED BY <1>4, <1>5

\* The steps of the server's connections show a guest nothing late.
LEMMA QuietConns ==
  ASSUME Shape, QuietInv, NEW k \in Sessions,
         RegisterConn(k) \/ CloseOld(k) \/ ServerLost(k) \/ ServerRead(k)
  PROVE  QuietInv'
<1>1. CASE RegisterConn(k) \/ CloseOld(k)
  BY <1>1 DEF RegisterConn, CloseOld, QuietInv, RevokedQuiet, net, handler
<1>2. CASE ServerLost(k)
  <2>1. share' = share /\ seen' = seen
    BY <1>2 DEF ServerLost
  <2>2. \A j \in Sessions : \A i \in 1..Len(up'[j]) : \E l \in 1..Len(up[j]) : up'[j][i] = up[j][l]
    BY <1>2 DEF ServerLost, Shape, TypeOK
  <2>3. ASSUME NEW q \in Requests, NEW i \in 1..Len(chan'[q])
        PROVE  chan'[q][i].late = FALSE \/ (\E j \in 1..Len(chan[q]) : chan'[q][i] = chan[q][j])
    <3> DEFINE m == Msg("disconnected", q)
    <3>1. chan[q] \in Seq(Frame) /\ m \in Frame /\ m.late = FALSE
      BY MsgFrame, ZenonT(60) DEF Shape, TypeOK
    <3>2. chan'[q] \in {chan[q], Append(chan[q], m)}
      BY <1>2 DEF ServerLost, UnregisterConn, Shape, TypeOK
    <3> HIDE DEF m
    <3> QED BY <2>3, <3>1, <3>2, AppendFrames
  <2> QED BY <2>1, <2>2, <2>3, QuietFrame
<1>3. CASE ServerRead(k)
  <2> DEFINE m == Head(up[k])
  <2>1. up[k] \in Seq(Frame) /\ up[k] # <<>>
    BY <1>3 DEF ServerRead, Shape, TypeOK
  <2>2. m \in Frame /\ m = up[k][1] /\ 1 \in 1..Len(up[k]) /\ m.q \in Requests
    BY <2>1, HeadFrame
  <2>3. share' = share /\ seen' = seen
    BY <1>3 DEF ServerRead
  <2>4. ASSUME NEW j \in Sessions, NEW i \in 1..Len(up'[j])
        PROVE  \E l \in 1..Len(up[j]) : up'[j][i] = up[j][l]
    <3>1. (j = k /\ up'[j] = Tail(up[j])) \/ up'[j] = up[j]
      BY <1>3 DEF ServerRead, Shape, TypeOK
    <3>2. CASE j = k /\ up'[j] = Tail(up[j])
      BY <2>1, <2>4, <3>2, TailFrames
    <3>3. CASE up'[j] = up[j]
      BY <2>4, <3>3
    <3> QED BY <3>1, <3>2, <3>3
  <2>5. ASSUME share, NEW q \in Requests, NEW i \in 1..Len(chan'[q])
        PROVE  chan'[q][i].late = FALSE \/ (\E j \in 1..Len(chan[q]) : chan'[q][i] = chan[q][j])
    <3>1. chan[q] \in Seq(Frame) /\ Len(chan[q]) <= ChanCap
      BY DEF Shape, TypeOK
    <3>2. chan'[q] = chan[q] \/ (q = m.q /\ chan'[q] = DeliverPending(chan[q], m))
      BY <1>3, <2>2 DEF ServerRead, Shape, TypeOK
    <3>3. m.late = FALSE
      BY <2>2, <2>5 DEF QuietInv
    <3>4. Msg("overflow", m.q).late = FALSE
      BY <2>2, MsgFrame
    <3> HIDE DEF m
    <3>5. CASE chan'[q] = chan[q]
      BY <2>5, <3>5
    <3>6. CASE q = m.q /\ chan'[q] = DeliverPending(chan[q], m)
      <4> DEFINE o == Msg("overflow", m.q)
      <4>1. o.late = FALSE
        BY <3>4
      <4>2. \/ chan'[q][i] \in {m, o}
            \/ \E j \in 1..Len(chan[q]) : chan'[q][i] = chan[q][j]
        <5>1. \A l \in 1..Len(DeliverPending(chan[q], m)) :
                \/ DeliverPending(chan[q], m)[l] \in {m, Msg("overflow", m.q)}
                \/ \E j \in 1..Len(chan[q]) : DeliverPending(chan[q], m)[l] = chan[q][j]
          BY <2>2, <3>1, DeliverFrames
        <5> QED BY <3>6, <5>1
      <4> HIDE DEF o
      <4> QED BY <3>3, <4>1, <4>2
    <3> QED BY <3>2, <3>5, <3>6
  <2> QED BY <2>3, <2>4, <2>5, QuietFrame
<1> QED BY <1>1, <1>2, <1>3

\* Nor do those of the browsers' requests.
LEMMA QuietBrowsers ==
  ASSUME Shape, QuietInv, NEW q \in Requests,
         \/ Pick(q) \/ AddPending(q) \/ WriteRequest(q) \/ Abandon(q) \/ Timeout(q)
         \/ Answer(q) \/ StreamStart(q) \/ StreamNext(q)
  PROVE  QuietInv'
<1>1. CASE Pick(q) \/ AddPending(q)
  BY <1>1 DEF Pick, AddPending, QuietInv, RevokedQuiet, net
<1>2. CASE Over(q) /\ UNCHANGED <<up, share>>
  <2>1. \A p \in Requests : chan'[p] = chan[p] \/ chan'[p] = <<>>
    BY <1>2 DEF Over, Shape, TypeOK
  <2>2. \A p \in Requests : seen'[p] \in {seen[p], Nothing}
    BY <1>2 DEF Over, Shape, TypeOK
  <2>3. ASSUME NEW p \in Requests, NEW i \in 1..Len(chan'[p])
        PROVE  \E j \in 1..Len(chan[p]) : chan'[p][i] = chan[p][j]
    <3>1. CASE chan'[p] = chan[p]
      BY <2>3, <3>1
    <3>2. CASE chan'[p] = <<>>
      BY <2>3, <3>2
    <3> QED BY <2>1, <3>1, <3>2
  <2>4. Guests \subseteq Requests
    BY StreamsAsk
  <2>5. up' = up /\ share' = share
    BY <1>2
  <2> QED BY <2>2, <2>3, <2>4, <2>5, QuietFrame
<1>3. CASE UNCHANGED <<up, share, chan, seen>>
  BY <1>3 DEF QuietInv, RevokedQuiet
<1>4. ASSUME chan[q] # <<>>, chan' = [chan EXCEPT ![q] = Tail(@)], UNCHANGED <<up, share>>
      PROVE  share' => /\ \A k \in Sessions : \A i \in 1..Len(up'[k]) : up'[k][i].late = FALSE
                       /\ \A p \in Requests : \A i \in 1..Len(chan'[p]) : chan'[p][i].late = FALSE
  <2>1. ASSUME NEW p \in Requests, NEW i \in 1..Len(chan'[p])
        PROVE  \E j \in 1..Len(chan[p]) : chan'[p][i] = chan[p][j]
    <3>1. /\ chan[p] \in Seq(Frame)
          /\ (p = q /\ chan'[p] = Tail(chan[p])) \/ chan'[p] = chan[p]
      BY <1>4 DEF Shape, TypeOK
    <3>2. CASE p = q /\ chan'[p] = Tail(chan[p])
      BY <1>4, <2>1, <3>1, <3>2, TailFrames
    <3>3. CASE chan'[p] = chan[p]
      BY <2>1, <3>3
    <3> QED BY <3>1, <3>2, <3>3
  <2> QED BY <1>4, <2>1 DEF QuietInv
<1>5. CASE StreamStart(q) /\ ~Returns(q)
  BY <1>4, <1>5 DEF StreamStart, net, QuietInv, RevokedQuiet
<1>6. CASE StreamNext(q) /\ ~Returns(q)
  <2> DEFINE m == Head(chan[q])
  <2>1. chan[q] \in Seq(Frame) /\ chan[q] # <<>>
    BY <1>6 DEF StreamNext, Shape, TypeOK
  <2>2. m = chan[q][1] /\ 1 \in 1..Len(chan[q])
    BY <2>1
  <2>3. ShareValid(q) /\ seen' = [seen EXCEPT ![q] = Shown(q, m)]
        /\ chan' = [chan EXCEPT ![q] = Tail(@)] /\ UNCHANGED <<up, share>>
    BY <1>6 DEF StreamNext, net
  <2>4. \A p \in Guests : seen'[p].late = FALSE
    <3> TAKE p \in Guests
    <3>1. p \in Requests /\ seen[p].late = FALSE
      BY StreamsAsk DEF QuietInv, RevokedQuiet, Shape, TypeOK
    <3>2. CASE p = q
      <4>1. share
        BY <2>3, <3>2 DEF ShareValid
      <4>2. m.late = FALSE
        BY <2>2, <4>1 DEF QuietInv
      <4>3. Shown(q, m).late = (seen[q].late \/ m.late)
        BY DEF Shown
      <4>4. seen'[q] = Shown(q, m)
        BY <2>3 DEF Shape, TypeOK
      <4>5. (seen[q].late \/ m.late) = FALSE
        BY <3>1, <3>2, <4>2
      <4> HIDE DEF m
      <4> QED BY <3>2, <4>3, <4>4, <4>5
    <3>3. CASE p # q
      BY <2>3, <3>1, <3>3 DEF Shape, TypeOK
    <3> QED BY <3>2, <3>3
  <2> QED BY <1>4, <2>1, <2>3, <2>4 DEF QuietInv, RevokedQuiet
<1> QED BY <1>1, <1>2, <1>3, <1>5, <1>6
        DEF WriteRequest, Returns, Abandon, Timeout, Answer, StreamStart, StreamNext

\* The daemon's goroutines write what is on time while the link is good.
LEMMA QuietPut ==
  ASSUME Shape, QuietInv, NEW k \in Sessions, NEW m \in Frame, up' = Put(up, k, m),
         share => m.late = FALSE, UNCHANGED <<share, chan, seen>>
  PROVE  QuietInv'
<1>1. \A j \in Sessions : \A i \in 1..Len(up'[j]) :
        up'[j][i] = m \/ (\E l \in 1..Len(up[j]) : up'[j][i] = up[j][l])
  BY UpPut
<1> QED BY <1>1, QuietFrame

\* Nor do those of the stream workers.
LEMMA QuietWorkers ==
  ASSUME Shape, QuietInv, NEW q \in Streams,
         WorkerStarts(q) \/ WorkerSends(q) \/ WorkerEnds(q) \/ WorkerCancelled(q)
  PROVE  QuietInv'
<1>0. of[q] \in Sessions /\ q \in Requests
  BY SessionNumbers, StreamsAsk
     DEF WorkerStarts, WorkerSends, WorkerEnds, WorkerCancelled, Shape, TypeOK, InSession
<1>1. UNCHANGED <<share, chan, seen>>
  BY DEF WorkerStarts, WorkerSends, WorkerEnds, WorkerCancelled, server, handler
<1>2. CASE up' = up
  BY <1>1, <1>2 DEF QuietInv, RevokedQuiet
<1>3. ASSUME NEW t \in {"start", "end"}, up' = Put(up, of[q], Msg(t, q)) PROVE QuietInv'
  <2> DEFINE m == Msg(t, q)
  <2>1. m \in Frame /\ m.late = FALSE /\ up' = Put(up, of[q], m)
    <3>1. t \in {"http", "stream", "cancel", "response", "start", "chunk", "end",
                 "disconnected", "overflow"}
      OBVIOUS
    <3> QED BY <1>0, <1>3, <3>1, MsgFrame, ZenonT(60)
  <2> HIDE DEF m
  <2> QED BY <1>0, <1>1, <2>1, QuietPut
<1>4. ASSUME WorkerSends(q),
             up' = Put(up, of[q], [Msg("chunk", q) EXCEPT !.n = sent[q] + 1, !.late = ~share])
      PROVE  QuietInv'
  <2> DEFINE m == [Msg("chunk", q) EXCEPT !.n = sent[q] + 1, !.late = ~share]
  <2>1. sent[q] + 1 \in 0..MaxChunks
    <3>1. sent[q] \in 0..MaxChunks /\ sent[q] < MaxChunks
      BY <1>4 DEF WorkerSends, Shape, TypeOK
    <3> QED BY <3>1, BoundsArePositive
  <2>2. m \in Frame /\ m.late = ~share /\ up' = Put(up, of[q], m)
    BY <1>0, <1>4, <2>1 DEF Msg, Frame, Shape, TypeOK
  <2> HIDE DEF m
  <2>3. share => m.late = FALSE
    BY <2>2
  <2> QED BY <1>0, <1>1, <2>2, <2>3, QuietPut
<1> QED BY <1>2, <1>3, <1>4 DEF WorkerStarts, WorkerSends, WorkerEnds, WorkerCancelled

\* Nor do those of the daemon's sessions.
LEMMA QuietDaemon ==
  ASSUME Shape, QuietInv, \/ Start \/ Backoff \/ SessionEnds \/ LoopExits \/ HandleMessage
                \/ SendHTTPResponse \/ (\E k \in Sessions : Dial(k)) \/ DialFails \/ Stop
  PROVE  QuietInv'
<1>1. CASE SendHTTPResponse
  <2> DEFINE m == Msg("response", busy)
  <2>1. sess \in Sessions /\ busy \in Requests
    BY <1>1, SessionNumbers DEF SendHTTPResponse, Shape, TypeOK, InSession
  <2>2. m \in Frame /\ m.late = FALSE
    BY <2>1, MsgFrame, ZenonT(60)
  <2>3. up' = Put(up, sess, m) /\ UNCHANGED <<share, chan, seen>>
    BY <1>1 DEF SendHTTPResponse, server, handler
  <2> HIDE DEF m
  <2> QED BY <2>1, <2>2, <2>3, QuietPut
<1>2. CASE ~SendHTTPResponse
  <2>1. UNCHANGED <<up, share, chan, seen>>
    BY <1>2 DEF Start, Backoff, SessionEnds, LoopExits, HandleMessage, Dial, DialFails, Stop,
                net, server, handler
  <2> QED BY <2>1 DEF QuietInv, RevokedQuiet
<1> QED BY <1>1, <1>2

\* No step shows a guest anything late.
LEMMA QuietNext == Shape /\ QuietInv /\ [Next]_vars => QuietInv'
<1> SUFFICES ASSUME Shape, QuietInv, [Next]_vars PROVE QuietInv'
  OBVIOUS
<1>1. CASE RevokeShare \/ UNCHANGED vars
  BY <1>1 DEF RevokeShare, QuietInv, RevokedQuiet, vars, net, server, handler
<1>2. ASSUME NEW k \in Sessions, Cut(k) PROVE QuietInv'
  <2>1. UNCHANGED <<share, chan, seen>> /\ \A j \in Sessions : up'[j] = up[j] \/ up'[j] = <<>>
    BY <1>2 DEF Cut, server, handler, Shape, TypeOK
  <2>2. \A j \in Sessions : \A i \in 1..Len(up'[j]) : \E l \in 1..Len(up[j]) : up'[j][i] = up[j][l]
    <3> TAKE j \in Sessions
    <3>1. CASE up'[j] = up[j]
      BY <3>1
    <3>2. CASE up'[j] = <<>>
      BY <3>2
    <3> QED BY <2>1, <3>1, <3>2
  <2> QED BY <2>1, <2>2, QuietFrame
<1> QED BY <1>1, <1>2, QuietConns, QuietBrowsers, QuietDaemon, QuietWorkers
        DEF Next, ServerStep, DaemonStep

\* For any number of guests, sessions and frames in flight: a chunk the daemon
\* sent after the share link was revoked or expired is never shown through it.
THEOREM RevokedIsQuiet == Spec => []RevokedQuiet
<1>1. Init => QuietInv
  BY NothingSeen, StreamsAsk DEF Init, QuietInv, RevokedQuiet
<1>2. QuietInv => RevokedQuiet
  BY DEF QuietInv
<1> QED BY <1>1, <1>2, ShapeHolds, QuietNext, PTL DEF Spec

-----------------------------------------------------------------------------
(* A stream that lost a chunk *)

\* The chunks of stream q among the frames of s: their numbers, and that they
\* come in order.
Chunk(m, q) == m.t = "chunk" /\ m.q = q
Nums(s, q) == {s[i].n : i \in {j \in 1..Len(s) : Chunk(s[j], q)}}
Rising(s, q) ==
  \A i, j \in 1..Len(s) : i < j /\ Chunk(s[i], q) /\ Chunk(s[j], q) => s[i].n < s[j].n

\* Sessions are opened in order and once, so a socket that is lost stays lost;
\* whoever refers to a session refers to one that was opened.
Dialled ==
  /\ \A j, k \in Sessions : j < k /\ sock[k] # "none" => sock[j] # "none"
  /\ sess # 0 => sock[sess] # "none"
  /\ current # 0 => sock[current] # "none"
  /\ \A k \in Sessions : /\ srv[k] # "none" => sock[k] # "none"
                         /\ old[k] # 0 => sock[old[k]] # "none"
  /\ \A q \in Requests : via[q] # 0 => sock[via[q]] # "none"
  /\ \A q \in Streams : of[q] # 0 => sock[of[q]] # "none"

\* A channel holds the frames of its own request.
Addressed == \A q \in Requests : \A i \in 1..Len(chan[q]) : chan[q][i].q = q

\* A stream is asked for once: by one frame to the daemon, before its goroutine.
AskedOnce ==
  /\ \A k \in Sessions : \A i \in 1..Len(down[k]) : down[k][i].t = "stream" =>
       /\ worker[down[k][i].q] = "none"
       /\ stage[down[k][i].q] \notin {"idle", "picked", "added"}
       /\ \A l \in Sessions : \A j \in 1..Len(down[l]) :
            down[l][j].t = "stream" /\ down[l][j].q = down[k][i].q => l = k /\ j = i
  /\ \A q \in Streams : stage[q] \in {"idle", "picked", "added"} => worker[q] = "none"

\* The chunks of a stream travel in one session, and none before it sends.
One(q) ==
  /\ worker[q] \in {"none", "asking"} =>
       /\ sent[q] = 0 /\ seen[q].last = 0 /\ Nums(chan[q], q) = {}
       /\ \A k \in Sessions : Nums(up[k], q) = {}
  /\ worker[q] = "sending" => \A k \in Sessions : k # of[q] => Nums(up[k], q) = {}
  /\ \A k, l \in Sessions : k # l => Nums(up[k], q) = {} \/ Nums(up[l], q) = {}
OneSession == \A q \in Streams : One(q)

\* Without an overflow mark in its channel a stream has missed nothing: what
\* was shown, what waits in the channel, what is on its way and what was sent
\* are numbered without a gap.
NoMark(q) == \A i \in 1..Len(chan[q]) : chan[q][i].t # "overflow"

ChanRuns(q) ==
  /\ Rising(chan[q], q)
  /\ \A n \in Nums(chan[q], q) :
       n > seen[q].last /\ (n = seen[q].last + 1 \/ n - 1 \in Nums(chan[q], q))

UpRuns(q, k) ==
  /\ Rising(up[k], q)
  /\ \A n \in Nums(up[k], q) :
       /\ n > seen[q].last /\ \A c \in Nums(chan[q], q) : c < n
       /\ n = seen[q].last + 1 \/ n - 1 \in Nums(chan[q], q) \cup Nums(up[k], q)

SentRuns(q) ==
  /\ sent[q] = seen[q].last \/ sent[q] \in Nums(chan[q], q) \cup Nums(up[of[q]], q)
  /\ seen[q].last <= sent[q]
  /\ \A c \in Nums(chan[q], q) : c <= sent[q]
  /\ \A c \in Nums(up[of[q]], q) : c <= sent[q]

Whole(q) ==
  /\ seen[q].gap = FALSE
  /\ ChanRuns(q)
  /\ pend[q] # 0 =>
       /\ \A k \in Sessions : UpRuns(q, k)
       /\ worker[q] = "sending" /\ sock[of[q]] = "open" => SentRuns(q)

Origin == Dialled /\ Addressed /\ AskedOnce /\ OneSession
Flow == \A q \in Streams : NoMark(q) => Whole(q)

\* The number of a frame is a natural number.
LEMMA FrameNumber == \A m \in Frame : m.n \in 0..MaxChunks /\ m.n \in Nat
<1>1. 0..MaxChunks \subseteq Nat
  BY BoundsArePositive
<1> QED BY <1>1 DEF Frame

\* So are the numbers of the chunks of a queue.
LEMMA NumsType ==
  ASSUME NEW s \in Seq(Frame), NEW q
  PROVE  Nums(s, q) \subseteq Nat
<1>1. \A i \in 1..Len(s) : s[i] \in Frame
  OBVIOUS
<1>2. \A i \in 1..Len(s) : s[i].n \in Nat
  BY <1>1, FrameNumber
<1> QED BY <1>2 DEF Nums

\* An empty queue has no chunks.
LEMMA NumsEmpty == \A q : Nums(<<>>, q) = {} /\ Rising(<<>>, q)
BY DEF Nums, Rising

\* The numbers of a queue's chunks are those of its frames.
LEMMA NumsAt ==
  ASSUME NEW s \in Seq(Frame), NEW q
  PROVE  /\ \A i \in 1..Len(s) : Chunk(s[i], q) => s[i].n \in Nums(s, q)
         /\ \A n \in Nums(s, q) : \E i \in 1..Len(s) : Chunk(s[i], q) /\ s[i].n = n
BY DEF Nums

\* One more frame at the end.
LEMMA NumsAppend ==
  ASSUME NEW s \in Seq(Frame), NEW m \in Frame, NEW q
  PROVE  /\ Chunk(m, q) => Nums(Append(s, m), q) = Nums(s, q) \cup {m.n}
         /\ ~Chunk(m, q) => Nums(Append(s, m), q) = Nums(s, q)
         /\ Rising(s, q) /\ (Chunk(m, q) => \A n \in Nums(s, q) : n < m.n) => Rising(Append(s, m), q)
<1> DEFINE t == Append(s, m)
<1>1. /\ Len(t) = Len(s) + 1 /\ Len(s) \in Nat /\ t[Len(s) + 1] = m
      /\ \A i \in 1..Len(s) : t[i] = s[i]
  OBVIOUS
<1>2. \A i \in 1..Len(t) : i \in 1..Len(s) \/ i = Len(s) + 1
  BY <1>1
<1>3. \A i \in 1..Len(s) : i \in 1..Len(t)
  BY <1>1
<1>4. Len(s) + 1 \in 1..Len(t)
  BY <1>1
<1> HIDE DEF t
<1>5. Nums(s, q) \subseteq Nums(t, q)
  BY <1>1, <1>3 DEF Nums
<1>6. \A n \in Nums(t, q) : n \in Nums(s, q) \/ (Chunk(m, q) /\ n = m.n)
  BY <1>1, <1>2 DEF Nums
<1>7. Chunk(m, q) => m.n \in Nums(t, q)
  BY <1>1, <1>4 DEF Nums
<1>8. ASSUME Rising(s, q), Chunk(m, q) => \A n \in Nums(s, q) : n < m.n PROVE Rising(t, q)
  <2> SUFFICES ASSUME NEW i \in 1..Len(t), NEW j \in 1..Len(t), i < j, Chunk(t[i], q), Chunk(t[j], q)
               PROVE  t[i].n < t[j].n
    BY DEF Rising
  <2>1. i \in 1..Len(s)
    BY <1>1, <1>2
  <2>2. CASE j \in 1..Len(s)
    BY <1>1, <1>8, <2>1, <2>2 DEF Rising
  <2>3. CASE j = Len(s) + 1
    <3>1. s[i].n \in Nums(s, q)
      BY <1>1, <2>1 DEF Nums
    <3> QED BY <1>1, <1>8, <2>1, <2>3, <3>1
  <2> QED BY <1>2, <2>2, <2>3
<1> QED BY <1>5, <1>6, <1>7, <1>8 DEF t

\* The first frame taken away.
LEMMA NumsTail ==
  ASSUME NEW s \in Seq(Frame), s # <<>>, NEW q
  PROVE  /\ Rising(s, q) => Rising(Tail(s), q)
         /\ Nums(Tail(s), q) \subseteq Nums(s, q)
         /\ ~Chunk(Head(s), q) => Nums(Tail(s), q) = Nums(s, q)
         /\ Chunk(Head(s), q) =>
              /\ Head(s).n \in Nums(s, q)
              /\ Nums(s, q) = Nums(Tail(s), q) \cup {Head(s).n}
              /\ Rising(s, q) => \A n \in Nums(Tail(s), q) : n > Head(s).n
<1> DEFINE t == Tail(s)
<1>1. /\ Len(t) = Len(s) - 1 /\ Len(s) \in Nat \ {0} /\ Head(s) = s[1]
      /\ \A i \in 1..Len(t) : i + 1 \in 1..Len(s) /\ t[i] = s[i + 1]
  OBVIOUS
<1>2. \A i \in 1..Len(s) : i = 1 \/ (i - 1 \in 1..Len(t) /\ t[i - 1] = s[i])
  BY <1>1
<1>0. \A i \in 1..Len(s) : s[i] \in Frame
  OBVIOUS
<1>3. 1 \in 1..Len(s) /\ \A i \in 1..Len(s) : s[i].n \in Nat
  BY <1>0, <1>1, FrameNumber
<1> HIDE DEF t
<1>4. Nums(t, q) \subseteq Nums(s, q)
  BY <1>1, SMTT(40) DEF Nums
<1>5. \A n \in Nums(s, q) : n \in Nums(t, q) \/ (Chunk(Head(s), q) /\ n = Head(s).n)
  BY <1>1, <1>2 DEF Nums
<1>6. Chunk(Head(s), q) => Head(s).n \in Nums(s, q)
  BY <1>1, <1>3 DEF Nums
<1>7. ASSUME Rising(s, q) PROVE Rising(t, q)
  <2>1. ASSUME NEW i \in 1..Len(t), NEW j \in 1..Len(t), i < j, Chunk(t[i], q), Chunk(t[j], q)
        PROVE  t[i].n < t[j].n
    <3>1. i + 1 \in 1..Len(s) /\ j + 1 \in 1..Len(s) /\ t[i] = s[i + 1] /\ t[j] = s[j + 1]
      BY <1>1, <2>1
    <3>2. i + 1 < j + 1
      BY <2>1
    <3> QED BY <1>7, <2>1, <3>1, <3>2 DEF Rising
  <2> QED BY <2>1 DEF Rising
<1>8. ASSUME Rising(s, q), Chunk(Head(s), q), NEW n \in Nums(t, q) PROVE n > Head(s).n
  <2>1. PICK i \in 1..Len(t) : Chunk(t[i], q) /\ n = t[i].n
    BY DEF Nums
  <2>2. i + 1 \in 1..Len(s) /\ 1 < i + 1 /\ Chunk(s[i + 1], q) /\ n = s[i + 1].n
    BY <1>1, <2>1
  <2>3. s[1].n < s[i + 1].n
    BY <1>1, <1>3, <1>8, <2>2 DEF Rising
  <2> QED BY <1>1, <1>3, <2>2, <2>3
<1> QED BY <1>4, <1>5, <1>6, <1>7, <1>8 DEF t

\* The next session to dial is the first that was not.
LEMMA NextIsFresh ==
  ASSUME Shape, Dialled, NEW k \in Sessions, k = NextSession
  PROVE  sock[k] = "none" /\ \A j \in Sessions : j < k => sock[j] # "none"
<1> DEFINE D == {j \in Sessions : sock[j] # "none"}
<1>1. k \in Nat \ {0} /\ MaxSess \in Nat /\ \A j \in Sessions : j \in Nat \ {0}
  BY BoundsArePositive DEF Sessions
<1>2. IsFiniteSet(D) /\ Cardinality(D) \in Nat /\ k = Cardinality(D) + 1
  <2>1. IsFiniteSet(Sessions)
    BY <1>1, FS_Interval DEF Sessions
  <2>2. IsFiniteSet(D)
    BY <2>1, FS_Subset
  <2> QED BY <2>2, FS_CardinalityType DEF NextSession
<1>3. sock[k] = "none"
  <2> SUFFICES ASSUME sock[k] # "none" PROVE FALSE
    OBVIOUS
  <2>1. 1..k \subseteq D
    BY <1>1 DEF Dialled, Sessions
  <2>2. Cardinality(1..k) = k
    BY <1>1, FS_Interval
  <2>3. Cardinality(1..k) <= Cardinality(D)
    BY <1>2, <2>1, FS_Subset
  <2> QED BY <1>1, <1>2, <2>2, <2>3
<1>4. ASSUME NEW j \in Sessions, j < k, sock[j] = "none" PROVE FALSE
  <2>0. j \in Nat \ {0} /\ j - 1 \in Nat
    BY <1>1
  <2>1. D \subseteq 1..(j - 1)
    <3> SUFFICES ASSUME NEW i \in D PROVE i \in 1..(j - 1)
      OBVIOUS
    <3>1. i \in Sessions /\ sock[i] # "none" /\ i # j
      BY <1>4
    <3>2. ~(j < i)
      BY <1>4, <3>1 DEF Dialled
    <3> QED BY <2>0, <3>1, <3>2 DEF Sessions
  <2>2. IsFiniteSet(1..(j - 1)) /\ Cardinality(1..(j - 1)) = j - 1
    <3>1. 1 \in Int /\ j - 1 \in Int
      BY <2>0
    <3>2. IsFiniteSet(1..(j - 1))
          /\ Cardinality(1..(j - 1)) = IF 1 > j - 1 THEN 0 ELSE (j - 1) - 1 + 1
      BY <3>1, FS_Interval
    <3> QED BY <2>0, <3>2
  <2>3. Cardinality(D) <= Cardinality(1..(j - 1))
    BY <2>1, <2>2, FS_Subset
  <2> QED BY <1>1, <1>2, <1>4, <2>0, <2>2, <2>3
<1> QED BY <1>3, <1>4

\* What the session numbers range over.
LEMMA SessionTypes ==
  ASSUME Shape
  PROVE  /\ sess \in 0..MaxSess /\ current \in 0..MaxSess
         /\ sock \in [Sessions -> {"none", "open", "cut", "closed"}]
         /\ srv \in [Sessions -> {"none", "accepted", "replacing", "reading", "gone"}]
         /\ old \in [Sessions -> 0..MaxSess]
         /\ via \in [Requests -> 0..MaxSess] /\ of \in [Streams -> 0..MaxSess]
BY DEF Shape, TypeOK

\* Sockets other than a fresh one only close, and references come from
\* references.
LEMMA DialledFrame ==
  ASSUME Shape, Dialled, \A k \in Sessions : sock'[k] = "none" <=> sock[k] = "none",
         sess' \in {0, sess}, current' \in {0, current},
         \A k \in Sessions : old'[k] \in {0, old[k]} /\ (srv[k] = "none" => srv'[k] = "none"),
         \A q \in Requests : via'[q] \in {0, via[q]},
         \A q \in Streams : of'[q] \in {0, of[q]}
  PROVE  Dialled'
<1> USE SessionTypes, SessionNumbers
<1>1. \A j, k \in Sessions : j < k /\ sock'[k] # "none" => sock'[j] # "none"
  BY DEF Dialled
<1>2. (sess' # 0 => sock'[sess'] # "none") /\ (current' # 0 => sock'[current'] # "none")
  BY DEF Dialled
<1>3. \A k \in Sessions : /\ srv'[k] # "none" => sock'[k] # "none"
                          /\ old'[k] # 0 => sock'[old'[k]] # "none"
  BY DEF Dialled
<1>4. \A q \in Requests : via'[q] # 0 => sock'[via'[q]] # "none"
  BY DEF Dialled
<1>5. \A q \in Streams : of'[q] # 0 => sock'[of'[q]] # "none"
  BY DEF Dialled
<1> QED BY <1>1, <1>2, <1>3, <1>4, <1>5 DEF Dialled

\* Closing a socket dials none.
LEMMA ClosedNone ==
  ASSUME Shape, NEW j \in 0..MaxSess, j # 0 => sock[j] # "none", sock' = Closed({j})
  PROVE  \A k \in Sessions : sock'[k] = "none" <=> sock[k] = "none"
BY SessionNumbers DEF Closed, Shape, TypeOK

\* Nor does an aborted write.
LEMMA AbortedNone ==
  ASSUME Shape, NEW j \in Sessions, sock[j] # "none", AbortedWrite(j)
  PROVE  \A k \in Sessions : sock'[k] = "none" <=> sock[k] = "none"
<1>1. CASE sock' = Closed({j})
  BY <1>1, ClosedNone, SessionNumbers
<1> QED BY <1>1 DEF AbortedWrite

\* The server's connections keep to sessions that were dialled.
LEMMA DialledConns ==
  ASSUME Shape, Dialled, NEW k \in Sessions,
         RegisterConn(k) \/ CloseOld(k) \/ ServerLost(k) \/ ServerRead(k) \/ Cut(k)
  PROVE  Dialled'
<1>1. CASE RegisterConn(k)
  <2>1. /\ srv[k] = "accepted" /\ current' = k /\ sock' = sock /\ sess' = sess
        /\ old' = [old EXCEPT ![k] = current] /\ srv' = [srv EXCEPT ![k] = "replacing"]
        /\ via' = via /\ of' = of
    BY <1>1 DEF RegisterConn, net, handler, daemon
  <2>2. \A j \in Sessions : old'[j] \in {current, old[j]} /\ (srv'[j] = srv[j] \/ j = k)
    BY <2>1, SessionTypes
  <2>3. sock[k] # "none"
    BY <2>1 DEF Dialled
  <2> QED BY <2>1, <2>2, <2>3 DEF Dialled
<1>2. CASE CloseOld(k)
  <2>1. old[k] \in 0..MaxSess /\ (old[k] # 0 => sock[old[k]] # "none") /\ sock' = Closed({old[k]})
    BY <1>2, SessionTypes DEF CloseOld, Dialled
  <2>2. \A j \in Sessions : sock'[j] = "none" <=> sock[j] = "none"
    BY <2>1, ClosedNone
  <2>3. /\ sess' = sess /\ current' = current /\ via' = via /\ of' = of /\ srv[k] # "none"
        /\ old' = [old EXCEPT ![k] = 0] /\ srv' = [srv EXCEPT ![k] = "reading"]
    BY <1>2 DEF CloseOld, handler, daemon
  <2>4. \A j \in Sessions : old'[j] \in {0, old[j]} /\ (srv[j] = "none" => srv'[j] = "none")
    BY <2>3, SessionTypes
  <2> QED BY <2>2, <2>3, <2>4, DialledFrame
<1>3. CASE ServerLost(k)
  <2>1. \A j \in Sessions : sock'[j] = "none" <=> sock[j] = "none"
    <3>1. sock' = Closed({k}) /\ sock[k] # "none" /\ k \in 0..MaxSess
      BY <1>3, SessionNumbers DEF ServerLost, Dialled
    <3> QED BY <3>1, ClosedNone
  <2>2. current' \in {0, current}
    BY <1>3 DEF ServerLost, UnregisterConn
  <2>3. \A j \in Sessions : old'[j] = old[j] /\ (srv[j] = "none" => srv'[j] = "none")
    BY <1>3, SessionTypes DEF ServerLost
  <2> QED BY <1>3, <2>1, <2>2, <2>3, DialledFrame DEF ServerLost, daemon
<1>4. CASE ServerRead(k)
  BY <1>4, DialledFrame DEF ServerRead, daemon
<1>5. CASE Cut(k)
  <2>1. \A j \in Sessions : sock'[j] = "none" <=> sock[j] = "none"
    BY <1>5 DEF Cut, Shape, TypeOK
  <2> QED BY <1>5, <2>1, DialledFrame DEF Cut, server, handler, daemon
<1> QED BY <1>1, <1>2, <1>3, <1>4, <1>5

\* So do the browsers' requests.
LEMMA DialledBrowsers ==
  ASSUME Shape, Dialled, NEW q \in Requests,
         \/ Pick(q) \/ AddPending(q) \/ WriteRequest(q) \/ Abandon(q) \/ Timeout(q)
         \/ Answer(q) \/ StreamStart(q) \/ StreamNext(q)
  PROVE  Dialled'
<1>1. CASE Pick(q)
  BY <1>1 DEF Pick, Dialled, Shape, TypeOK, net, daemon
<1>2. CASE AddPending(q)
  BY <1>2, DialledFrame DEF AddPending, net, daemon
<1>3. ASSUME \A j \in Sessions : sock'[j] = "none" <=> sock[j] = "none",
             UNCHANGED <<srv, old, current, daemon>>, via' = via \/ Over(q)
      PROVE  Dialled'
  <2>1. \A p \in Requests : via'[p] \in {0, via[p]}
    BY <1>3, SessionTypes DEF Over
  <2> QED BY <1>3, <2>1, DialledFrame DEF daemon
<1>4. CASE WriteRequest(q)
  <2>1. via[q] \in Sessions /\ sock[via[q]] # "none"
    BY <1>4, SessionNumbers DEF WriteRequest, Dialled, Shape, TypeOK, InSession
  <2>2. \A j \in Sessions : sock'[j] = "none" <=> sock[j] = "none"
    BY <1>4, <2>1, AbortedNone DEF WriteRequest
  <2> QED BY <1>3, <1>4, <2>2 DEF WriteRequest
<1>5. CASE Returns(q) /\ stage[q] \in {"waiting", "streaming"}
  <2>1. via[q] \in Sessions /\ sock[via[q]] # "none"
    BY <1>5, SessionNumbers DEF Dialled, Shape, TypeOK, InSession
  <2>2. sock' = sock \/ sock' = Closed({via[q]})
    BY <1>5 DEF Returns, CancelSent
  <2>3. \A j \in Sessions : sock'[j] = "none" <=> sock[j] = "none"
    BY <2>1, <2>2, ClosedNone, SessionNumbers
  <2> QED BY <1>3, <1>5, <2>3 DEF Returns
<1>6. CASE StreamStart(q) \/ StreamNext(q)
  BY <1>5, <1>6, DialledFrame DEF StreamStart, StreamNext, net, daemon
<1> QED BY <1>1, <1>2, <1>4, <1>5, <1>6 DEF Abandon, Timeout, Answer

\* So do the daemon's sessions, which dial them.
LEMMA DialledDaemon ==
  ASSUME Shape, Dialled, \/ Start \/ Backoff \/ SessionEnds \/ LoopExits \/ HandleMessage
                \/ SendHTTPResponse \/ (\E k \in Sessions : Dial(k)) \/ DialFails \/ Stop
  PROVE  Dialled'
<1>1. CASE Start \/ Backoff \/ DialFails \/ Stop \/ SendHTTPResponse
  BY <1>1, DialledFrame
     DEF Start, Backoff, DialFails, Stop, SendHTTPResponse, net, server, handler
<1>2. CASE SessionEnds \/ LoopExits
  <2>1. sock' = Closed({sess}) /\ sess' = 0 /\ UNCHANGED <<server, of>>
    BY <1>2 DEF SessionEnds, LoopExits
  <2>2. \A j \in Sessions : sock'[j] = "none" <=> sock[j] = "none"
    BY <2>1, ClosedNone DEF Dialled, Shape, TypeOK
  <2> QED BY <2>1, <2>2, DialledFrame DEF server, handler
<1>3. CASE HandleMessage
  <2>1. sess \in Sessions /\ sock[sess] # "none"
    BY <1>3, SessionNumbers DEF HandleMessage, Dialled, Shape, TypeOK, InSession
  <2>2. \A q \in Streams : of'[q] \in {of[q], sess}
    BY <1>3 DEF HandleMessage, StartHTTPStream, Shape, TypeOK
  <2>3. UNCHANGED <<sock, server, sess>>
    BY <1>3 DEF HandleMessage
  <2> QED BY <2>1, <2>2, <2>3 DEF Dialled, server, handler
<1>4. ASSUME NEW k \in Sessions, Dial(k) PROVE Dialled'
  <2>1. sock[k] = "none" /\ \A j \in Sessions : j < k => sock[j] # "none"
    BY <1>4, NextIsFresh DEF Dial
  <2>2. sock' = [sock EXCEPT ![k] = "open"] /\ srv' = [srv EXCEPT ![k] = "accepted"] /\ sess' = k
        /\ UNCHANGED <<old, current, via, of>>
    BY <1>4 DEF Dial, handler
  <2>3. \A j \in Sessions : sock'[j] # "none" <=> (j = k \/ sock[j] # "none")
    BY <2>2 DEF Shape, TypeOK
  <2>4. \A i, j \in Sessions : i < j /\ sock'[j] # "none" => sock'[i] # "none"
    BY <2>1, <2>3 DEF Dialled
  <2>5. \A j \in Sessions : srv'[j] = srv[j] \/ j = k
    BY <2>2, SessionTypes
  <2>6. \A j \in 0..MaxSess : j # 0 /\ sock[j] # "none" => sock'[j] # "none"
    BY <2>3, SessionNumbers
  <2>7. sock'[k] # "none"
    BY <2>3
  <2>8. \A j \in Sessions : /\ srv'[j] # "none" => sock'[j] # "none"
                            /\ old'[j] # 0 => sock'[old'[j]] # "none"
    BY <2>2, <2>3, <2>5, <2>6, SessionTypes DEF Dialled
  <2>9. /\ \A q \in Requests : via'[q] # 0 => sock'[via'[q]] # "none"
        /\ \A q \in Streams : of'[q] # 0 => sock'[of'[q]] # "none"
        /\ current' # 0 => sock'[current'] # "none"
    BY <2>2, <2>6, SessionTypes DEF Dialled
  <2> QED BY <2>2, <2>4, <2>7, <2>8, <2>9 DEF Dialled
<1> QED BY <1>1, <1>2, <1>3, <1>4

\* So do the stream workers.
LEMMA DialledWorkers ==
  ASSUME Shape, Dialled, NEW q \in Streams,
         WorkerStarts(q) \/ WorkerSends(q) \/ WorkerEnds(q) \/ WorkerCancelled(q)
  PROVE  Dialled'
<1>1. of[q] \in Sessions /\ sock[of[q]] # "none"
  BY SessionNumbers
     DEF WorkerStarts, WorkerSends, WorkerEnds, WorkerCancelled, Shape, TypeOK, InSession, Dialled
<1>2. \A j \in Sessions : sock'[j] = "none" <=> sock[j] = "none"
  BY <1>1, AbortedNone DEF WorkerStarts, WorkerSends, WorkerEnds, WorkerCancelled
<1>3. /\ UNCHANGED <<server, sess>>
      /\ \A p \in Streams : of'[p] \in {0, of[p]}
  BY DEF WorkerStarts, WorkerSends, WorkerEnds, WorkerCancelled, WorkerDone, Shape, TypeOK
<1> QED BY <1>2, <1>3, DialledFrame DEF server, handler

\* Every step keeps to sessions that were dialled.
LEMMA DialledNext == Shape /\ Dialled /\ [Next]_vars => Dialled'
<1> SUFFICES ASSUME Shape, Dialled, [Next]_vars PROVE Dialled'
  OBVIOUS
<1>1. CASE RevokeShare \/ UNCHANGED vars
  BY <1>1, DialledFrame DEF RevokeShare, vars, net, server, handler, daemon
<1> QED BY <1>1, DialledConns, DialledBrowsers, DialledDaemon, DialledWorkers
        DEF Next, ServerStep, DaemonStep

\* Every step keeps a channel to its own request's frames.
LEMMA AddressedNext == Shape /\ Addressed /\ [Next]_vars => Addressed'
<1> SUFFICES ASSUME Shape, Addressed, [Next]_vars, NEW q \in Requests, NEW i \in 1..Len(chan'[q])
             PROVE  chan'[q][i].q = q
  BY DEF Addressed
<1>1. chan[q] \in Seq(Frame) /\ Len(chan[q]) <= ChanCap /\ chan \in [Requests -> Seq(Frame)]
  BY DEF Shape, TypeOK
<1>2. CASE chan'[q] = chan[q]
  BY <1>2 DEF Addressed
<1>3. CASE chan'[q] = <<>>
  BY <1>3
<1>4. CASE chan[q] # <<>> /\ chan'[q] = Tail(chan[q])
  BY <1>1, <1>4, TailFrames DEF Addressed
<1>5. CASE chan'[q] = Append(chan[q], Msg("disconnected", q))
  <2> DEFINE m == Msg("disconnected", q)
  <2>1. m \in Frame /\ m.q = q /\ chan'[q] = Append(chan[q], m)
    BY <1>5, MsgFrame
  <2> HIDE DEF m
  <2> QED BY <1>1, <2>1, AppendFrames DEF Addressed
<1>6. ASSUME NEW m \in Frame, m.q = q, chan'[q] = DeliverPending(chan[q], m) PROVE chan'[q][i].q = q
  <2> DEFINE o == Msg("overflow", m.q)
  <2>1. o.q = q
    BY <1>6, MsgFrame
  <2>2. \A l \in 1..Len(DeliverPending(chan[q], m)) :
          \/ DeliverPending(chan[q], m)[l] \in {m, Msg("overflow", m.q)}
          \/ \E j \in 1..Len(chan[q]) : DeliverPending(chan[q], m)[l] = chan[q][j]
    BY <1>1, DeliverFrames
  <2>3. chan'[q][i] \in {m, o} \/ \E j \in 1..Len(chan[q]) : chan'[q][i] = chan[q][j]
    BY <1>6, <2>2
  <2> HIDE DEF o
  <2> QED BY <1>6, <2>1, <2>3 DEF Addressed
<1>7. ASSUME NEW k \in Sessions, ServerRead(k) PROVE chan'[q][i].q = q
  <2>1. Head(up[k]) \in Frame
    BY <1>7, HeadFrame DEF ServerRead, Shape, TypeOK
  <2>2. chan'[q] = chan[q] \/ (Head(up[k]).q = q /\ chan'[q] = DeliverPending(chan[q], Head(up[k])))
    BY <1>1, <1>7 DEF ServerRead
  <2> QED BY <1>2, <1>6, <2>1, <2>2
<1>8. ASSUME NEW k \in Sessions, ServerLost(k) PROVE chan'[q][i].q = q
  BY <1>1, <1>2, <1>5, <1>8 DEF ServerLost, UnregisterConn
<1>9. ASSUME NEW p \in Requests, Over(p) PROVE chan'[q][i].q = q
  BY <1>1, <1>2, <1>3, <1>9 DEF Over
<1>10. ASSUME NEW p \in Requests, chan[p] # <<>>, chan' = [chan EXCEPT ![p] = Tail(@)]
       PROVE  chan'[q][i].q = q
  BY <1>1, <1>2, <1>4, <1>10
<1>11. CASE UNCHANGED chan
  BY <1>2, <1>11
<1>12. CASE DaemonStep \/ DialFails \/ Stop \/ RevokeShare \/ UNCHANGED vars
  BY <1>11, <1>12 DEF DaemonStep, Start, Backoff, SessionEnds, LoopExits, HandleMessage,
     SendHTTPResponse, Dial, DialFails, Stop, RevokeShare, vars, server, handler
<1>13. ASSUME NEW p \in Streams,
              WorkerStarts(p) \/ WorkerSends(p) \/ WorkerEnds(p) \/ WorkerCancelled(p)
       PROVE  chan'[q][i].q = q
  BY <1>11, <1>13 DEF WorkerStarts, WorkerSends, WorkerEnds, WorkerCancelled, server, handler
<1>14. ASSUME NEW k \in Sessions, Cut(k) \/ RegisterConn(k) \/ CloseOld(k) PROVE chan'[q][i].q = q
  BY <1>11, <1>14 DEF Cut, RegisterConn, CloseOld, server, handler
<1>15. ASSUME NEW p \in Requests,
              \/ Pick(p) \/ AddPending(p) \/ WriteRequest(p) \/ Abandon(p) \/ Timeout(p)
              \/ Answer(p) \/ StreamStart(p) \/ StreamNext(p)
       PROVE  chan'[q][i].q = q
  BY <1>9, <1>10, <1>11, <1>15
     DEF Pick, AddPending, WriteRequest, Abandon, Timeout, Answer, StreamStart, StreamNext, Returns
<1> QED BY <1>7, <1>8, <1>12, <1>13, <1>14, <1>15 DEF Next, ServerStep

\* A queue that only loses frames from its front.
LEMMA AskedFrame ==
  ASSUME Shape, AskedOnce,
         \A k \in Sessions : \E d \in {0, 1} : \A i \in 1..Len(down'[k]) :
           i + d \in 1..Len(down[k]) /\ down'[k][i] = down[k][i + d],
         \A k \in Sessions : \A i \in 1..Len(down'[k]) : down'[k][i].t = "stream" =>
           (worker[down'[k][i].q] = "none" => worker'[down'[k][i].q] = "none"),
         \A q \in Streams : stage[q] \in {"idle", "picked", "added"} =>
           (worker[q] = "none" => worker'[q] = "none"),
         \A q \in Requests : stage'[q] \in {"idle", "picked", "added"} =>
           stage[q] \in {"idle", "picked", "added"}
  PROVE  AskedOnce'
<1>0. \A k \in Sessions : \A i \in 1..Len(down'[k]) : down'[k][i].q \in Requests
  <2> TAKE k \in Sessions
  <2>1. PICK d \in {0, 1} : \A i \in 1..Len(down'[k]) :
          i + d \in 1..Len(down[k]) /\ down'[k][i] = down[k][i + d]
    OBVIOUS
  <2>2. down[k] \in Seq(Frame)
    BY DEF Shape, TypeOK
  <2>3. \A i \in 1..Len(down[k]) : down[k][i].q \in Requests
    <3>1. \A i \in 1..Len(down[k]) : down[k][i] \in Frame
      BY <2>2
    <3> QED BY <3>1 DEF Frame
  <2> QED BY <2>1, <2>3
<1>1. \A q \in Streams : stage'[q] \in {"idle", "picked", "added"} => worker'[q] = "none"
  BY StreamsAsk DEF AskedOnce
<1>2. ASSUME NEW k \in Sessions, NEW i \in 1..Len(down'[k]), down'[k][i].t = "stream"
      PROVE  /\ worker'[down'[k][i].q] = "none"
             /\ stage'[down'[k][i].q] \notin {"idle", "picked", "added"}
             /\ \A l \in Sessions : \A j \in 1..Len(down'[l]) :
                  down'[l][j].t = "stream" /\ down'[l][j].q = down'[k][i].q => l = k /\ j = i
  <2>1. PICK d \in {0, 1} : \A n \in 1..Len(down'[k]) :
          n + d \in 1..Len(down[k]) /\ down'[k][n] = down[k][n + d]
    OBVIOUS
  <2>2. i + d \in 1..Len(down[k]) /\ down'[k][i] = down[k][i + d]
    BY <2>1
  <2>3. worker[down'[k][i].q] = "none" /\ stage[down'[k][i].q] \notin {"idle", "picked", "added"}
    BY <1>2, <2>2 DEF AskedOnce
  <2>4. ASSUME NEW l \in Sessions, NEW j \in 1..Len(down'[l]),
               down'[l][j].t = "stream", down'[l][j].q = down'[k][i].q
        PROVE  l = k /\ j = i
    <3>1. PICK e \in {0, 1} : \A n \in 1..Len(down'[l]) :
            n + e \in 1..Len(down[l]) /\ down'[l][n] = down[l][n + e]
      OBVIOUS
    <3>2. j + e \in 1..Len(down[l]) /\ down'[l][j] = down[l][j + e]
      BY <3>1
    <3>3. l = k /\ j + e = i + d
      BY <1>2, <2>2, <2>4, <3>2 DEF AskedOnce
    <3>4. j + d \in 1..Len(down[k]) /\ down'[l][j] = down[k][j + d]
      BY <2>1, <2>4, <3>3
    <3>5. j + d = i + d
      BY <1>2, <2>2, <2>4, <3>3, <3>4 DEF AskedOnce
    <3> QED BY <2>4, <3>3, <3>5
  <2> QED BY <1>0, <1>2, <2>3, <2>4
<1> QED BY <1>1, <1>2 DEF AskedOnce

\* A frame to the daemon that opens a stream no frame opens yet, or opens none.
LEMMA AskedPut ==
  ASSUME Shape, AskedOnce, NEW k \in Sessions, NEW m \in Frame, down' = Put(down, k, m),
         worker' = worker,
         m.t = "stream" => /\ stage[m.q] = "added" /\ m.q \in Streams
                           /\ stage'[m.q] \notin {"idle", "picked", "added"},
         \A q \in Requests : stage'[q] \in {"idle", "picked", "added"} =>
           stage[q] \in {"idle", "picked", "added"}
  PROVE  AskedOnce'
<1>0. down \in [Sessions -> Seq(Frame)]
  BY DEF Shape, TypeOK
<1>1. \A j \in Sessions : \A i \in 1..Len(down'[j]) :
        \/ i \in 1..Len(down[j]) /\ down'[j][i] = down[j][i]
        \/ j = k /\ i = Len(down[j]) + 1 /\ sock[k] = "open" /\ down'[j][i] = m
  <2>1. \A j \in Sessions : \A i \in 1..Len(Put(down, k, m)[j]) :
          \/ i \in 1..Len(down[j]) /\ Put(down, k, m)[j][i] = down[j][i]
          \/ j = k /\ i = Len(down[j]) + 1 /\ sock[k] = "open" /\ Put(down, k, m)[j][i] = m
    BY <1>0, PutFrames
  <2>2. down' = Put(down, k, m)
    OBVIOUS
  <2> QED BY ONLY <2>1, <2>2, ZenonT(60)
<1>2. \A j \in Sessions : \A i \in 1..Len(down[j]) : down[j][i].t = "stream" =>
        down[j][i].q \in Requests /\ ~(m.t = "stream" /\ down[j][i].q = m.q)
  <2> TAKE j \in Sessions
  <2> TAKE i \in 1..Len(down[j])
  <2>1. down[j][i] \in Frame
    BY <1>0
  <2>2. down[j][i].q \in Requests
    BY <2>1 DEF Frame
  <2> QED BY <2>2 DEF AskedOnce
<1>3. \A q \in Streams : stage'[q] \in {"idle", "picked", "added"} => worker'[q] = "none"
  BY StreamsAsk DEF AskedOnce
<1>4. ASSUME NEW j \in Sessions, NEW i \in 1..Len(down'[j]), down'[j][i].t = "stream"
      PROVE  /\ worker'[down'[j][i].q] = "none"
             /\ stage'[down'[j][i].q] \notin {"idle", "picked", "added"}
  <2>1. CASE i \in 1..Len(down[j]) /\ down'[j][i] = down[j][i]
    BY <1>2, <1>4, <2>1 DEF AskedOnce
  <2>2. CASE down'[j][i] = m
    BY <1>4, <2>2 DEF AskedOnce
  <2> QED BY <1>1, <2>1, <2>2
<1>5. ASSUME NEW j \in Sessions, NEW i \in 1..Len(down'[j]), down'[j][i].t = "stream",
             NEW l \in Sessions, NEW n \in 1..Len(down'[l]),
             down'[l][n].t = "stream", down'[l][n].q = down'[j][i].q
      PROVE  l = j /\ n = i
  <2>1. CASE /\ i \in 1..Len(down[j]) /\ down'[j][i] = down[j][i]
             /\ n \in 1..Len(down[l]) /\ down'[l][n] = down[l][n]
    BY <1>5, <2>1 DEF AskedOnce
  <2>2. CASE down'[j][i] = m /\ n \in 1..Len(down[l]) /\ down'[l][n] = down[l][n]
    BY <1>2, <1>5, <2>2
  <2>3. CASE down'[l][n] = m /\ i \in 1..Len(down[j]) /\ down'[j][i] = down[j][i]
    BY <1>2, <1>5, <2>3
  <2> QED BY <1>1, <2>1, <2>2, <2>3
<1> QED BY <1>3, <1>4, <1>5 DEF AskedOnce

\* No step asks for a request twice.
LEMMA AskedNext == Shape /\ AskedOnce /\ [Next]_vars => AskedOnce'
<1> SUFFICES ASSUME Shape, AskedOnce, [Next]_vars PROVE AskedOnce'
  OBVIOUS
<1>0. /\ down \in [Sessions -> Seq(Frame)] /\ worker \in [Streams -> {"none", "asking", "sending", "done"}]
      /\ stage \in [Requests -> {"idle", "picked", "added", "waiting", "streaming", "done"}]
  BY DEF Shape, TypeOK
<1>1. ASSUME \A k \in Sessions : down'[k] = down[k] \/ down'[k] = <<>>
                                 \/ (down[k] # <<>> /\ down'[k] = Tail(down[k]))
      PROVE  \A k \in Sessions : \E d \in {0, 1} : \A i \in 1..Len(down'[k]) :
               i + d \in 1..Len(down[k]) /\ down'[k][i] = down[k][i + d]
  <2> TAKE k \in Sessions
  <2>0. down[k] \in Seq(Frame)
    BY <1>0
  <2>1. CASE down'[k] = down[k]
    <3>1. \A i \in 1..Len(down'[k]) : i + 0 \in 1..Len(down[k]) /\ down'[k][i] = down[k][i + 0]
      BY <2>0, <2>1
    <3> QED BY <3>1
  <2>2. CASE down'[k] = <<>>
    BY <2>2
  <2>3. CASE down[k] # <<>> /\ down'[k] = Tail(down[k])
    <3>1. \A i \in 1..Len(down'[k]) : i + 1 \in 1..Len(down[k]) /\ down'[k][i] = down[k][i + 1]
      BY <2>0, <2>3
    <3> QED BY <3>1
  <2> QED BY <1>1, <2>1, <2>2, <2>3
<1>2. ASSUME \A k \in Sessions : down'[k] = down[k] \/ down'[k] = <<>>,
             \A q \in Streams : worker[q] = "none" => worker'[q] = "none",
             \A q \in Requests : stage'[q] \in {"idle", "picked", "added"} =>
                                 stage[q] \in {"idle", "picked", "added"}
      PROVE  AskedOnce'
  <2>1. \A k \in Sessions : \E d \in {0, 1} : \A i \in 1..Len(down'[k]) :
           i + d \in 1..Len(down[k]) /\ down'[k][i] = down[k][i + d]
    BY <1>1, <1>2
  <2>2. \A k \in Sessions : \A i \in 1..Len(down'[k]) : down'[k][i].t = "stream" => down'[k][i].q \in Streams
    BY <2>1 DEF Shape, DownKinds
  <2> QED BY <1>2, <2>1, <2>2, AskedFrame
<1>3. ASSUME NEW p \in Requests, Returns(p), stage[p] \in {"waiting", "streaming"} PROVE AskedOnce'
  <2>1. \A q \in Requests : stage'[q] \in {"idle", "picked", "added"} =>
                            stage[q] \in {"idle", "picked", "added"}
    BY <1>0, <1>3 DEF Returns, Over
  <2>2. worker' = worker
    BY <1>3 DEF Returns, daemon
  <2>3. CASE UNCHANGED down
    BY <1>2, <2>1, <2>2, <2>3
  <2>4. CASE p \in Streams /\ down' = Put(down, via[p], Msg("cancel", p))
    <3> DEFINE m == Msg("cancel", p)
    <3>0. via[p] \in Sessions
      BY <1>3, SessionTypes, SessionNumbers DEF Shape, InSession
    <3>3. m \in Frame /\ m.t = "cancel"
      BY MsgFrame, ZenonT(60)
    <3>1. m \in Frame /\ m.t # "stream" /\ via[p] \in Sessions
      BY <3>0, <3>3
    <3>2. down' = Put(down, via[p], m)
      BY <2>4
    <3> HIDE DEF m
    <3> QED BY <2>1, <2>2, <3>1, <3>2, AskedPut
  <2> QED BY <1>3, <2>3, <2>4 DEF Returns, CancelSent
<1>4. ASSUME NEW p \in Requests, WriteRequest(p) PROVE AskedOnce'
  <2>1. \A q \in Requests : stage'[q] \in {"idle", "picked", "added"} =>
                            stage[q] \in {"idle", "picked", "added"}
    BY <1>0, <1>4 DEF WriteRequest, Over
  <2>2. worker' = worker
    BY <1>4 DEF WriteRequest, daemon
  <2>3. CASE UNCHANGED down
    BY <1>2, <2>1, <2>2, <2>3
  <2>4. CASE down' = Put(down, via[p], Opens(p)) /\ stage' = [stage EXCEPT ![p] = "waiting"]
    <3> DEFINE m == Opens(p)
    <3>1. m \in Frame /\ m.q = p /\ (m.t = "stream" => p \in Streams)
      BY OpensKind
    <3>2. via[p] \in Sessions /\ stage[p] = "added"
      BY <1>4, SessionTypes, SessionNumbers DEF WriteRequest, Shape, InSession
    <3>3. stage'[p] = "waiting"
      BY <1>0, <2>4
    <3>4. down' = Put(down, via[p], m)
      BY <2>4
    <3> HIDE DEF m
    <3> QED BY <2>1, <2>2, <3>1, <3>2, <3>3, <3>4, AskedPut
  <2> QED BY <1>4, <2>3, <2>4 DEF WriteRequest
<1>5. CASE HandleMessage
  <2> DEFINE m == Head(down[sess])
  <2>1. sess \in Sessions /\ down[sess] # <<>> /\ down[sess] \in Seq(Frame)
    BY <1>0, <1>5, SessionTypes, SessionNumbers DEF HandleMessage, Shape, InSession
  <2>2. m = down[sess][1] /\ 1 \in 1..Len(down[sess]) /\ (m.t = "stream" => m.q \in Streams)
    BY <2>1, HeadFrame DEF Shape, DownKinds
  <2>3. down' = [down EXCEPT ![sess] = Tail(@)] /\ stage' = stage
    BY <1>5 DEF HandleMessage, server, handler
  <2>4. worker' = worker \/ (m.t = "stream" /\ worker' = [worker EXCEPT ![m.q] = "asking"])
    BY <1>5 DEF HandleMessage, StartHTTPStream
  <2>5. \A k \in Sessions : \E d \in {0, 1} : \A i \in 1..Len(down'[k]) :
          i + d \in 1..Len(down[k]) /\ down'[k][i] = down[k][i + d]
    BY <1>0, <1>1, <2>1, <2>3
  <2>6. \A k \in Sessions : \A i \in 1..Len(down'[k]) :
          /\ down'[k][i].t = "stream" => down'[k][i].q \in Streams
          /\ ~(m.t = "stream" /\ down'[k][i].t = "stream" /\ down'[k][i].q = m.q)
    <3> TAKE k \in Sessions
    <3> TAKE i \in 1..Len(down'[k])
    <3>1. CASE k = sess
      <4>1. down'[k] = Tail(down[sess])
        BY <1>0, <2>1, <2>3, <3>1
      <4>2. i + 1 \in 1..Len(down[sess]) /\ down'[k][i] = down[sess][i + 1] /\ i + 1 # 1
        BY <2>1, <4>1, TailFrames
      <4> QED BY <2>1, <2>2, <4>2 DEF AskedOnce, Shape, DownKinds
    <3>2. CASE k # sess
      <4>1. down'[k] = down[k]
        BY <1>0, <2>3, <3>2
      <4> QED BY <2>1, <2>2, <3>2, <4>1 DEF AskedOnce, Shape, DownKinds
    <3> QED BY <3>1, <3>2
  <2>7. m.t = "stream" => stage[m.q] \notin {"idle", "picked", "added"}
    BY <2>1, <2>2 DEF AskedOnce
  <2> HIDE DEF m
  <2>8. \A k \in Sessions : \A i \in 1..Len(down'[k]) : down'[k][i].t = "stream" =>
          (worker[down'[k][i].q] = "none" => worker'[down'[k][i].q] = "none")
    BY <1>0, <2>2, <2>4, <2>6, ZenonT(60)
  <2>9. \A q \in Streams : stage[q] \in {"idle", "picked", "added"} =>
          (worker[q] = "none" => worker'[q] = "none")
    BY <1>0, <2>2, <2>4, <2>7
  <2> QED BY <2>3, <2>5, <2>8, <2>9, AskedFrame
<1>6. ASSUME NEW p \in Requests, Pick(p) \/ AddPending(p) PROVE AskedOnce'
  <2>1. \A q \in Requests : stage'[q] \in {"idle", "picked", "added"} =>
                            stage[q] \in {"idle", "picked", "added"}
    BY <1>0, <1>6 DEF Pick, AddPending
  <2> QED BY <1>2, <1>6, <2>1 DEF Pick, AddPending, net, daemon
<1>7. ASSUME NEW p \in Requests, StreamStart(p) \/ StreamNext(p), ~Returns(p) PROVE AskedOnce'
  <2>1. \A q \in Requests : stage'[q] \in {"idle", "picked", "added"} =>
                            stage[q] \in {"idle", "picked", "added"}
    BY <1>0, <1>7 DEF StreamStart, StreamNext
  <2> QED BY <1>2, <1>7, <2>1 DEF StreamStart, StreamNext, net, daemon
<1>8. ASSUME NEW p \in Streams,
             WorkerStarts(p) \/ WorkerSends(p) \/ WorkerEnds(p) \/ WorkerCancelled(p)
      PROVE  AskedOnce'
  <2>1. \A q \in Streams : worker[q] = "none" => worker'[q] = "none"
    BY <1>0, <1>8 DEF WorkerStarts, WorkerSends, WorkerEnds, WorkerCancelled, WorkerDone
  <2> QED BY <1>2, <1>8, <2>1
          DEF WorkerStarts, WorkerSends, WorkerEnds, WorkerCancelled, server, handler
<1>9. ASSUME NEW k \in Sessions,
             Cut(k) \/ RegisterConn(k) \/ CloseOld(k) \/ ServerLost(k) \/ ServerRead(k) \/ Dial(k)
      PROVE  AskedOnce'
  <2>1. worker' = worker /\ stage' = stage
    BY <1>9 DEF Cut, RegisterConn, CloseOld, ServerLost, ServerRead, Dial, server, handler, daemon
  <2>2. \A j \in Sessions : down'[j] = down[j] \/ down'[j] = <<>>
    BY <1>0, <1>9 DEF Cut, RegisterConn, CloseOld, ServerLost, ServerRead, Dial, net
  <2> QED BY <1>2, <2>1, <2>2
<1>10. CASE \/ Start \/ Backoff \/ SessionEnds \/ LoopExits \/ SendHTTPResponse \/ DialFails \/ Stop
            \/ RevokeShare \/ UNCHANGED vars
  <2>1. worker' = worker /\ stage' = stage
    BY <1>10 DEF Start, Backoff, SessionEnds, LoopExits, SendHTTPResponse, DialFails, Stop,
                 RevokeShare, vars, server, handler, daemon
  <2>2. \A j \in Sessions : down'[j] = down[j] \/ down'[j] = <<>>
    BY <1>0, <1>10 DEF Start, Backoff, SessionEnds, LoopExits, SendHTTPResponse, DialFails, Stop,
                 RevokeShare, vars, net
  <2> QED BY <1>2, <2>1, <2>2
<1> QED BY <1>3, <1>4, <1>5, <1>6, <1>7, <1>8, <1>9, <1>10
        DEF Next, ServerStep, DaemonStep, Abandon, Timeout, Answer, StreamStart, StreamNext

\* What a browser has seen is a number and a flag.
LEMMA SeenNumber ==
  ASSUME Shape, NEW q \in Requests
  PROVE  seen[q].last \in Nat /\ seen[q].gap \in BOOLEAN
<1>1. seen[q] \in [last : 0..MaxChunks, gap : BOOLEAN, late : BOOLEAN]
  BY DEF Shape, TypeOK
<1>2. 0..MaxChunks \subseteq Nat
  BY BoundsArePositive
<1> QED BY <1>1, <1>2

\* A queue without chunks is in order.
LEMMA EmptyRises ==
  ASSUME NEW s \in Seq(Frame), NEW q, Nums(s, q) = {}
  PROVE  Rising(s, q)
BY DEF Nums, Rising

\* A step that moves no chunk of the stream forward: queues and channels may
\* gain other frames, be emptied when their socket goes, and goroutines start
\* and end.
LEMMA OneFrame ==
  ASSUME Shape, NEW q \in Streams, One(q),
         \A k \in Sessions : Nums(up'[k], q) \subseteq Nums(up[k], q),
         worker'[q] \in {"none", "asking"} => worker[q] \in {"none", "asking"} /\ sent'[q] = sent[q],
         worker[q] \in {"none", "asking"} =>
           seen'[q].last \in {0, seen[q].last} /\ Nums(chan'[q], q) \subseteq Nums(chan[q], q),
         worker'[q] = "sending" => worker[q] \in {"asking", "sending"} /\ of'[q] = of[q]
  PROVE  One(q)'
<1>1. ASSUME worker'[q] \in {"none", "asking"}
      PROVE  /\ sent'[q] = 0 /\ seen'[q].last = 0 /\ Nums(chan'[q], q) = {}
             /\ \A k \in Sessions : Nums(up'[k], q) = {}
  BY <1>1 DEF One
<1>2. ASSUME worker'[q] = "sending" PROVE \A k \in Sessions : k # of'[q] => Nums(up'[k], q) = {}
  BY <1>2 DEF One
<1>3. \A k, l \in Sessions : k # l => Nums(up'[k], q) = {} \/ Nums(up'[l], q) = {}
  BY DEF One
<1> QED BY <1>1, <1>2, <1>3 DEF One

\* Steps that lose chunks only with their connection keep the flow.
LEMMA FlowFrame ==
  ASSUME Shape, NEW q \in Streams, One(q), NoMark(q) => Whole(q),
         up' \in [Sessions -> Seq(Frame)],
         \A k \in Sessions : Nums(up'[k], q) \subseteq Nums(up[k], q),
         pend'[q] # 0 => \A k \in Sessions :
           /\ Rising(up[k], q) => Rising(up'[k], q)
           /\ Nums(up'[k], q) = Nums(up[k], q) \/ (Nums(up'[k], q) = {} /\ sock'[k] # "open"),
         NoMark(q)' => NoMark(q),
         Rising(chan[q], q) => Rising(chan'[q], q), Nums(chan'[q], q) = Nums(chan[q], q),
         seen'[q] = seen[q],
         pend'[q] \in {0, pend[q]} \/ worker[q] = "none",
         \/ /\ worker'[q] = worker[q] /\ of'[q] = of[q] /\ sent'[q] = sent[q]
            /\ worker[q] = "sending" => (sock'[of[q]] = "open" => sock[of[q]] = "open")
         \/ worker'[q] = "done"
         \/ worker[q] = "none" /\ worker'[q] = "asking" /\ sent'[q] = sent[q]
         \/ worker[q] = "asking" /\ worker'[q] = "sending" /\ of'[q] = of[q] /\ sent'[q] = sent[q]
  PROVE  One(q)' /\ (NoMark(q) => Whole(q))'
<1>1. One(q)'
  BY OneFrame
<1> SUFFICES ASSUME NoMark(q)' PROVE Whole(q)'
  BY <1>1
<1>2. Whole(q)
  OBVIOUS
<1>3. seen'[q].gap = FALSE /\ ChanRuns(q)'
  BY <1>2 DEF Whole, ChanRuns
<1>4. ASSUME pend'[q] # 0, NEW k \in Sessions PROVE UpRuns(q, k)'
  <2>1. CASE worker[q] = "none"
    <3>1. Nums(up'[k], q) = {} /\ up'[k] \in Seq(Frame)
      BY <2>1 DEF One
    <3> QED BY <3>1, EmptyRises DEF UpRuns
  <2>2. CASE worker[q] # "none"
    <3>1. UpRuns(q, k)
      BY <1>2, <1>4, <2>2 DEF Whole
    <3> QED BY <1>4, <3>1 DEF UpRuns
  <2> QED BY <2>1, <2>2
<1>5. ASSUME pend'[q] # 0, worker'[q] = "sending", sock'[of'[q]] = "open" PROVE SentRuns(q)'
  <2>1. of'[q] = of[q] /\ sent'[q] = sent[q] /\ of[q] # 0
    BY <1>5 DEF Shape, InSession
  <2>2. of[q] \in Sessions
    BY <2>1, SessionTypes, SessionNumbers
  <2>3. Nums(up'[of[q]], q) = Nums(up[of[q]], q)
    BY <1>5, <2>1, <2>2
  <2>4. CASE worker[q] = "asking"
    <3>1. sent[q] = 0 /\ seen[q].last = 0 /\ Nums(chan[q], q) = {} /\ Nums(up[of[q]], q) = {}
      BY <2>2, <2>4 DEF One
    <3> QED BY <2>1, <2>3, <3>1 DEF SentRuns
  <2>5. CASE worker[q] = "sending"
    <3>1. SentRuns(q)
      BY <1>2, <1>5, <2>1, <2>5 DEF Whole
    <3> QED BY <2>1, <2>3, <3>1 DEF SentRuns
  <2> QED BY <1>5, <2>4, <2>5
<1> QED BY <1>3, <1>4, <1>5 DEF Whole

\* Frames that are no chunks of the stream, on their way and in its channel.
LEMMA UpKept ==
  ASSUME Shape, NEW q \in Streams, NEW k \in Sessions,
         \/ up'[k] = up[k]
         \/ up'[k] = <<>> /\ sock'[k] # "open"
         \/ \E m \in Frame : ~Chunk(m, q) /\ up'[k] = Append(up[k], m)
         \/ up[k] # <<>> /\ ~Chunk(Head(up[k]), q) /\ up'[k] = Tail(up[k])
  PROVE  /\ Nums(up'[k], q) \subseteq Nums(up[k], q)
         /\ Rising(up[k], q) => Rising(up'[k], q)
         /\ Nums(up'[k], q) = Nums(up[k], q) \/ (Nums(up'[k], q) = {} /\ sock'[k] # "open")
<1>1. up[k] \in Seq(Frame)
  BY DEF Shape, TypeOK
<1>2. CASE up'[k] = up[k]
  BY <1>2
<1>3. CASE up'[k] = <<>> /\ sock'[k] # "open"
  BY <1>3, NumsEmpty
<1>4. ASSUME NEW m \in Frame, ~Chunk(m, q), up'[k] = Append(up[k], m)
      PROVE  Nums(up'[k], q) = Nums(up[k], q) /\ (Rising(up[k], q) => Rising(up'[k], q))
  BY <1>1, <1>4, NumsAppend
<1>5. CASE up[k] # <<>> /\ ~Chunk(Head(up[k]), q) /\ up'[k] = Tail(up[k])
  BY <1>1, <1>5, NumsTail
<1> QED BY <1>2, <1>3, <1>4, <1>5

\* A channel that gains or loses no chunk and no mark keeps its chunks.
LEMMA ChanKept ==
  ASSUME Shape, NEW q \in Streams,
         \/ chan'[q] = chan[q]
         \/ \E m \in Frame : ~Chunk(m, q) /\ chan'[q] = Append(chan[q], m)
         \/ chan[q] # <<>> /\ Head(chan[q]).t \notin {"chunk", "overflow"} /\ chan'[q] = Tail(chan[q])
  PROVE  /\ NoMark(q)' => NoMark(q)
         /\ Rising(chan[q], q) => Rising(chan'[q], q)
         /\ Nums(chan'[q], q) = Nums(chan[q], q)
<1>0. q \in Requests
  BY StreamsAsk
<1>1. chan[q] \in Seq(Frame)
  BY <1>0 DEF Shape, TypeOK
<1>2. CASE chan'[q] = chan[q]
  BY <1>2 DEF NoMark
<1>3. ASSUME NEW m \in Frame, ~Chunk(m, q), chan'[q] = Append(chan[q], m)
      PROVE  /\ NoMark(q)' => NoMark(q)
             /\ Rising(chan[q], q) => Rising(chan'[q], q)
             /\ Nums(chan'[q], q) = Nums(chan[q], q)
  <2>1. \A i \in 1..Len(chan[q]) : i \in 1..Len(chan'[q]) /\ chan'[q][i] = chan[q][i]
    BY <1>1, <1>3
  <2>2. NoMark(q)' => NoMark(q)
    BY <2>1 DEF NoMark
  <2> QED BY <1>1, <1>3, <2>2, NumsAppend
<1>4. CASE chan[q] # <<>> /\ Head(chan[q]).t \notin {"chunk", "overflow"} /\ chan'[q] = Tail(chan[q])
  <2>1. \A i \in 1..Len(chan[q]) :
          \/ chan[q][i] = Head(chan[q])
          \/ i - 1 \in 1..Len(chan'[q]) /\ chan'[q][i - 1] = chan[q][i]
    <3> DEFINE s == chan[q]
    <3>1. s \in Seq(Frame) /\ s # <<>>
      BY <1>1, <1>4
    <3> HIDE DEF s
    <3>2. /\ Len(s) \in Nat /\ Head(s) = s[1] /\ Len(Tail(s)) = Len(s) - 1
          /\ \A i \in 1..Len(Tail(s)) : Tail(s)[i] = s[i + 1]
      BY <3>1
    <3>3. ASSUME NEW i \in 1..Len(s), i # 1
          PROVE  i - 1 \in 1..Len(Tail(s)) /\ Tail(s)[i - 1] = s[i]
      BY <3>2, <3>3
    <3>4. \A i \in 1..Len(s) : s[i] = Head(s) \/ (i - 1 \in 1..Len(Tail(s)) /\ Tail(s)[i - 1] = s[i])
      BY <3>2, <3>3
    <3> QED BY <1>4, <3>4 DEF s
  <2>2. NoMark(q)' => NoMark(q)
    BY <1>4, <2>1 DEF NoMark
  <2>3. ~Chunk(Head(chan[q]), q)
    BY <1>4 DEF Chunk
  <2> QED BY <1>1, <1>4, <2>2, <2>3, NumsTail
<1> QED BY <1>2, <1>3, <1>4

\* Steps that move no chunk of the stream keep its flow.
LEMMA FlowQuiet ==
  ASSUME Shape, Shape', NEW q \in Streams, One(q), NoMark(q) => Whole(q),
         \A k \in Sessions : \/ up'[k] = up[k]
                             \/ up'[k] = <<>> /\ sock'[k] # "open"
                             \/ \E m \in Frame : ~Chunk(m, q) /\ up'[k] = Append(up[k], m)
                             \/ up[k] # <<>> /\ ~Chunk(Head(up[k]), q) /\ up'[k] = Tail(up[k]),
         \/ chan'[q] = chan[q]
         \/ \E m \in Frame : ~Chunk(m, q) /\ chan'[q] = Append(chan[q], m)
         \/ chan[q] # <<>> /\ Head(chan[q]).t \notin {"chunk", "overflow"} /\ chan'[q] = Tail(chan[q]),
         seen'[q] = seen[q],
         pend'[q] \in {0, pend[q]} \/ worker[q] = "none",
         \/ /\ worker'[q] = worker[q] /\ of'[q] = of[q] /\ sent'[q] = sent[q]
            /\ worker[q] = "sending" => (sock'[of[q]] = "open" => sock[of[q]] = "open")
         \/ worker'[q] = "done"
         \/ worker[q] = "none" /\ worker'[q] = "asking" /\ sent'[q] = sent[q]
         \/ worker[q] = "asking" /\ worker'[q] = "sending" /\ of'[q] = of[q] /\ sent'[q] = sent[q]
  PROVE  One(q)' /\ (NoMark(q) => Whole(q))'
<1>1. up' \in [Sessions -> Seq(Frame)]
  BY DEF Shape, TypeOK
<1>2. \A k \in Sessions :
        /\ Nums(up'[k], q) \subseteq Nums(up[k], q)
        /\ Rising(up[k], q) => Rising(up'[k], q)
        /\ Nums(up'[k], q) = Nums(up[k], q) \/ (Nums(up'[k], q) = {} /\ sock'[k] # "open")
  BY UpKept
<1>3. /\ NoMark(q)' => NoMark(q)
      /\ Rising(chan[q], q) => Rising(chan'[q], q)
      /\ Nums(chan'[q], q) = Nums(chan[q], q)
  BY ChanKept
<1> QED BY <1>1, <1>2, <1>3, FlowFrame

\* The handler of the stream returns: its channel and what it showed are gone.
LEMMA FlowOver ==
  ASSUME Shape, NEW q \in Streams, One(q), chan'[q] = <<>>, seen'[q] = Nothing, pend'[q] = 0,
         UNCHANGED <<up, worker, of, sent>>
  PROVE  One(q)' /\ (NoMark(q) => Whole(q))'
<1>1. Nums(chan'[q], q) = {} /\ Rising(chan'[q], q)
  BY NumsEmpty
<1>2. seen'[q].last = 0 /\ seen'[q].gap = FALSE
  BY NothingSeen DEF Nothing
<1>3. One(q)'
  BY <1>1, <1>2, OneFrame
<1>4. ChanRuns(q)'
  BY <1>1 DEF ChanRuns
<1> QED BY <1>2, <1>3, <1>4 DEF Whole

\* The server reads a chunk of the stream: the channel takes it, or loses its
\* oldest frame to an overflow mark.
LEMMA FlowRead ==
  ASSUME Shape, Shape', NEW q \in Streams, One(q), NoMark(q) => Whole(q), NEW k \in Sessions,
         ServerRead(k), Head(up[k]).q = q
  PROVE  One(q)' /\ (NoMark(q) => Whole(q))'
<1> DEFINE m == Head(up[k])
<1>0. q \in Requests
  BY StreamsAsk
<1>1. up[k] \in Seq(Frame) /\ up[k] # <<>> /\ chan[q] \in Seq(Frame) /\ Len(chan[q]) <= ChanCap
  BY <1>0 DEF ServerRead, Shape, TypeOK
<1>2. m \in Frame /\ m.n \in Nat
  BY <1>1, HeadFrame, FrameNumber
<1>3. up'[k] = Tail(up[k]) /\ \A j \in Sessions : j # k => up'[j] = up[j]
  BY DEF ServerRead, Shape, TypeOK
<1>4. chan'[q] = IF pend[q] = 0 THEN chan[q] ELSE DeliverPending(chan[q], m)
  BY <1>0 DEF ServerRead, Shape, TypeOK
<1>5. seen' = seen /\ pend' = pend /\ sock' = sock /\ worker' = worker /\ of' = of /\ sent' = sent
  BY DEF ServerRead, daemon
<1>6. up' \in [Sessions -> Seq(Frame)]
  BY DEF Shape, TypeOK
<1>7. /\ Rising(up[k], q) => Rising(up'[k], q)
      /\ Nums(up'[k], q) \subseteq Nums(up[k], q)
      /\ ~Chunk(m, q) => Nums(up'[k], q) = Nums(up[k], q)
      /\ Chunk(m, q) =>
           /\ m.n \in Nums(up[k], q)
           /\ Nums(up[k], q) = Nums(up'[k], q) \cup {m.n}
           /\ Rising(up[k], q) => \A n \in Nums(up'[k], q) : n > m.n
  BY <1>1, <1>3, NumsTail
<1>8. \A j \in Sessions : Nums(up'[j], q) \subseteq Nums(up[j], q)
  BY <1>3, <1>7
<1>9. CASE pend[q] = 0
  <2>1. chan'[q] = chan[q] /\ (NoMark(q)' => NoMark(q))
    BY <1>4, <1>9 DEF NoMark
  <2> QED BY <1>5, <1>6, <1>8, <1>9, <2>1, FlowFrame
<1>10. CASE pend[q] # 0 /\ ~(Len(chan[q]) < ChanCap)
  <2> DEFINE o == Msg("overflow", m.q)
  <2>1. o \in Frame /\ o.t = "overflow"
    BY <1>0, MsgFrame
  <2>2. chan[q] # <<>>
    BY <1>1, <1>10, BoundsArePositive
  <2>3. chan'[q] = Append(Tail(chan[q]), o)
    BY <1>4, <1>10 DEF DeliverPending
  <2> HIDE DEF o
  <2>4. Tail(chan[q]) \in Seq(Frame) /\ ~Chunk(o, q)
    BY <1>1, <2>1, <2>2 DEF Chunk
  <2>5. Nums(chan'[q], q) \subseteq Nums(chan[q], q)
    <3> DEFINE s == Tail(chan[q])
    <3>0. s \in Seq(Frame) /\ chan'[q] = Append(s, o)
      BY <2>3, <2>4
    <3> HIDE DEF s
    <3>3. Nums(Append(s, o), q) = Nums(s, q)
      BY <2>1, <2>4, <3>0, NumsAppend
    <3>1. Nums(chan'[q], q) = Nums(Tail(chan[q]), q)
      BY <3>0, <3>3 DEF s
    <3>2. Nums(Tail(chan[q]), q) \subseteq Nums(chan[q], q)
      BY <1>1, <2>2, NumsTail
    <3> QED BY <3>1, <3>2
  <2>6. ~NoMark(q)'
    <3>1. Len(chan'[q]) \in 1..Len(chan'[q]) /\ chan'[q][Len(chan'[q])] = o
      BY <2>1, <2>3, <2>4
    <3> QED BY <2>1, <3>1 DEF NoMark
  <2>7. One(q)'
    BY <1>5, <1>8, <2>5, OneFrame
  <2> QED BY <2>6, <2>7
<1>11. CASE pend[q] # 0 /\ Len(chan[q]) < ChanCap /\ ~Chunk(m, q)
  <2>1. chan'[q] = Append(chan[q], m)
    BY <1>4, <1>11 DEF DeliverPending
  <2>2. \A j \in Sessions : \/ up'[j] = up[j]
                            \/ up[j] # <<>> /\ ~Chunk(Head(up[j]), q) /\ up'[j] = Tail(up[j])
    BY <1>1, <1>3, <1>11
  <2>3. \E f \in Frame : ~Chunk(f, q) /\ chan'[q] = Append(chan[q], f)
    BY <1>2, <1>11, <2>1
  <2> QED BY <1>5, <2>2, <2>3, FlowQuiet
<1>12. CASE pend[q] # 0 /\ Len(chan[q]) < ChanCap /\ Chunk(m, q)
  <2>1. chan'[q] = Append(chan[q], m)
    BY <1>4, <1>12 DEF DeliverPending
  <2>2. worker[q] \notin {"none", "asking"} /\ \A j \in Sessions : j # k => Nums(up'[j], q) = {}
    BY <1>3, <1>7, <1>12, ZenonT(60) DEF One
  <2>3. One(q)'
    BY <1>5, <1>8, <2>2, OneFrame
  <2>4. ASSUME NoMark(q)' PROVE Whole(q)'
    <3>1. NoMark(q)
      <4>1. \A i \in 1..Len(chan[q]) : i \in 1..Len(chan'[q]) /\ chan'[q][i] = chan[q][i]
        BY <1>1, <1>2, <2>1
      <4> QED BY <2>4, <4>1 DEF NoMark
    <3>2. Whole(q) /\ UpRuns(q, k) /\ ChanRuns(q)
      BY <1>12, <3>1 DEF Whole
    <3> DEFINE C == Nums(chan[q], q)
               U == Nums(up[k], q)
               V == Nums(up'[k], q)
               last == seen[q].last
    <3>3. last \in Nat /\ C \subseteq Nat /\ U \subseteq Nat
      BY <1>0, <1>1, NumsType, SeenNumber
    <3>4. /\ m.n \in U /\ U = V \cup {m.n} /\ (\A n \in V : n > m.n) /\ V \subseteq Nat
      BY <1>7, <1>12, <3>2, <3>3 DEF UpRuns
    <3>5. /\ m.n > last /\ \A c \in C : c < m.n
          /\ m.n = last + 1 \/ m.n - 1 \in C \cup U
      BY <3>2, <3>4 DEF UpRuns
    <3>6. m.n = last + 1 \/ m.n - 1 \in C
      <4>1. m.n - 1 # m.n /\ \A n \in V : m.n - 1 # n
        BY <1>2, <3>4
      <4> QED BY <3>4, <3>5, <4>1
    <3>7. Nums(chan'[q], q) = C \cup {m.n} /\ Rising(chan'[q], q)
      BY <1>1, <1>2, <1>12, <2>1, <3>2, <3>5, NumsAppend DEF ChanRuns
    <3>8. seen'[q].gap = FALSE /\ ChanRuns(q)'
      BY <1>5, <3>2, <3>3, <3>5, <3>6, <3>7 DEF Whole, ChanRuns
    <3>9. UpRuns(q, k)'
      <4>1. Rising(up'[k], q)
        BY <1>7, <3>2 DEF UpRuns
      <4>2. ASSUME NEW n \in V
            PROVE  /\ n > last /\ \A c \in C \cup {m.n} : c < n
                   /\ n = last + 1 \/ n - 1 \in (C \cup {m.n}) \cup V
        BY <3>2, <3>4, <3>5 DEF UpRuns
      <4> QED BY <1>5, <3>7, <4>1, <4>2 DEF UpRuns
    <3>10. ASSUME NEW j \in Sessions PROVE UpRuns(q, j)'
      <4>1. CASE j # k
        BY <1>6, <2>2, <4>1, EmptyRises DEF UpRuns
      <4> QED BY <3>9, <4>1
    <3>11. ASSUME worker'[q] = "sending", sock'[of'[q]] = "open" PROVE SentRuns(q)'
      <4>1. SentRuns(q) /\ of[q] = k
        BY <1>5, <1>7, <1>12, <3>2, <3>11 DEF Whole, One
      <4> QED BY <1>5, <3>3, <3>4, <3>7, <4>1 DEF SentRuns
    <3> QED BY <3>8, <3>10, <3>11 DEF Whole
  <2> QED BY <2>3, <2>4
<1> QED BY <1>9, <1>10, <1>11, <1>12

\* The stream shows the chunk at the head of its channel.
LEMMA FlowShown ==
  ASSUME Shape, Addressed, NEW q \in Streams, One(q), NoMark(q) => Whole(q),
         chan[q] # <<>>, Head(chan[q]).t = "chunk",
         seen'[q] = Shown(q, Head(chan[q])), chan'[q] = Tail(chan[q]),
         UNCHANGED <<up, sock, pend, worker, of, sent>>
  PROVE  One(q)' /\ (NoMark(q) => Whole(q))'
<1> DEFINE m == Head(chan[q])
           C == Nums(chan[q], q)
           D == Nums(chan'[q], q)
           last == seen[q].last
<1>0. q \in Requests
  BY StreamsAsk
<1>1. chan[q] \in Seq(Frame)
  BY <1>0 DEF Shape, TypeOK
<1>2. m \in Frame /\ m.n \in Nat /\ m = chan[q][1] /\ 1 \in 1..Len(chan[q])
  BY <1>1, HeadFrame, FrameNumber
<1>3. Chunk(m, q)
  BY <1>0, <1>2 DEF Chunk, Addressed
<1>4. last \in Nat /\ C \subseteq Nat
  BY <1>0, <1>1, NumsType, SeenNumber
<1>5. /\ Rising(chan[q], q) => Rising(chan'[q], q) /\ \A n \in D : n > m.n
      /\ m.n \in C /\ C = D \cup {m.n}
  BY <1>1, <1>3, NumsTail
<1>6. worker[q] \notin {"none", "asking"}
  BY <1>5 DEF One
<1>7. One(q)'
  BY <1>6, OneFrame
<1>8. ASSUME NoMark(q)' PROVE Whole(q)'
  <2>1. NoMark(q)
    <3>1. \A i \in 1..Len(chan[q]) :
            \/ chan[q][i] = m
            \/ i - 1 \in 1..Len(chan'[q]) /\ chan'[q][i - 1] = chan[q][i]
      BY <1>1
    <3> QED BY <1>8, <3>1 DEF NoMark
  <2>2. Whole(q) /\ ChanRuns(q) /\ seen[q].gap = FALSE
    BY <2>1 DEF Whole
  <2>3. D \subseteq Nat /\ \A n \in D : n > m.n
    BY <1>4, <1>5, <2>2 DEF ChanRuns
  <2>4. m.n = last + 1
    <3>1. m.n > last /\ (m.n = last + 1 \/ m.n - 1 \in C)
      BY <1>5, <2>2 DEF ChanRuns
    <3>2. m.n - 1 \notin C
      BY <1>2, <1>5, <2>3
    <3> QED BY <3>1, <3>2
  <2>5. seen'[q].last = m.n /\ seen'[q].gap = FALSE
    <3>1. seen'[q].last = m.n /\ seen'[q].gap = (seen[q].gap \/ m.n # seen[q].last + 1)
      BY DEF Shown
    <3>2. (seen[q].gap \/ m.n # seen[q].last + 1) = FALSE
      BY <2>2, <2>4
    <3> QED BY <3>1, <3>2
  <2>6. ChanRuns(q)'
    <3>1. Rising(chan'[q], q)
      BY <1>5, <2>2 DEF ChanRuns
    <3>2. ASSUME NEW n \in D PROVE n > m.n /\ (n = m.n + 1 \/ n - 1 \in D)
      <4>1. n \in Nat /\ n > m.n /\ n > last /\ (n = last + 1 \/ n - 1 \in C)
        BY <1>5, <2>2, <2>3 DEF ChanRuns
      <4> QED BY <1>2, <1>5, <2>4, <4>1
    <3> QED BY <2>5, <3>1, <3>2 DEF ChanRuns
  <2>7. ASSUME pend'[q] # 0, NEW k \in Sessions PROVE UpRuns(q, k)'
    <3>1. UpRuns(q, k)
      BY <2>2, <2>7 DEF Whole
    <3>2. Nums(up[k], q) \subseteq Nat
      BY NumsType DEF Shape, TypeOK
    <3>3. ASSUME NEW n \in Nums(up[k], q)
          PROVE  /\ n > m.n /\ \A c \in D : c < n
                 /\ n = m.n + 1 \/ n - 1 \in D \cup Nums(up[k], q)
      <4>1. /\ n \in Nat /\ \A c \in C : c < n
            /\ n = last + 1 \/ n - 1 \in C \cup Nums(up[k], q)
        BY <3>1, <3>2, <3>3 DEF UpRuns
      <4>2. m.n < n
        BY <1>5, <4>1
      <4> QED BY <1>2, <1>5, <2>4, <4>1, <4>2
    <3> QED BY <2>5, <3>1, <3>3 DEF UpRuns
  <2>8. ASSUME pend'[q] # 0, worker'[q] = "sending", sock'[of'[q]] = "open" PROVE SentRuns(q)'
    <3>1. SentRuns(q)
      BY <2>2, <2>8 DEF Whole
    <3>2. m.n <= sent[q]
      BY <1>5, <3>1 DEF SentRuns
    <3>3. sent[q] # last
      BY <1>2, <1>4, <2>4, <3>2
    <3>4. sent[q] \in C \cup Nums(up[of[q]], q)
      BY <3>1, <3>3 DEF SentRuns
    <3> QED BY <1>5, <2>5, <3>1, <3>2, <3>4 DEF SentRuns
  <2> QED BY <2>5, <2>6, <2>7, <2>8 DEF Whole
<1> QED BY <1>7, <1>8

\* The stream's goroutine sends the next chunk.
LEMMA FlowSends ==
  ASSUME Shape, NEW q \in Streams, One(q), NoMark(q) => Whole(q), NEW m \in Frame,
         Chunk(m, q), m.n = sent[q] + 1, worker[q] = "sending", up' = Put(up, of[q], m),
         sent' = [sent EXCEPT ![q] = @ + 1],
         UNCHANGED <<sock, pend, chan, seen, worker, of>>
  PROVE  One(q)' /\ (NoMark(q) => Whole(q))'
<1> DEFINE k == of[q]
<1>0. k \in Sessions /\ q \in Requests
  BY SessionTypes, SessionNumbers, StreamsAsk DEF Shape, InSession
<1>1. up \in [Sessions -> Seq(Frame)] /\ up[k] \in Seq(Frame) /\ m.n \in Nat
      /\ sent[q] \in Nat /\ sent'[q] = m.n
  <2>1. sent[q] \in 0..MaxChunks /\ sent'[q] = sent[q] + 1
    BY DEF Shape, TypeOK
  <2>2. up \in [Sessions -> Seq(Frame)] /\ m.n \in Nat
    BY FrameNumber DEF Shape, TypeOK
  <2>3. sent[q] \in Nat
    BY <2>1, BoundsArePositive
  <2> QED BY <1>0, <2>1, <2>2, <2>3
<1>2. \A j \in Sessions : j # k => up'[j] = up[j]
  BY <1>0, <1>1 DEF Put
<1>3. \A j \in Sessions : j # k => Nums(up[j], q) = {}
  BY DEF One
<1>4. One(q)'
  BY <1>2, <1>3 DEF One
<1>5. CASE sock[k] # "open"
  <2>1. up' = up
    BY <1>5 DEF Put
  <2>2. (NoMark(q) => Whole(q))'
    BY <1>5, <2>1 DEF NoMark, Whole, ChanRuns, UpRuns
  <2> QED BY <1>4, <2>2
<1>6. CASE sock[k] = "open"
  <2> DEFINE C == Nums(chan[q], q)
             U == Nums(up[k], q)
             last == seen[q].last
  <2>1. up'[k] = Append(up[k], m)
    BY <1>0, <1>1, <1>6 DEF Put
  <2>2. C \subseteq Nat /\ U \subseteq Nat /\ last \in Nat
    BY <1>0, <1>1, NumsType, SeenNumber DEF Shape, TypeOK
  <2>3. ASSUME NoMark(q)' PROVE Whole(q)'
    <3>1. Whole(q)
      BY <2>3 DEF NoMark
    <3>2. seen'[q].gap = FALSE /\ ChanRuns(q)'
      BY <3>1 DEF Whole, ChanRuns
    <3>3. ASSUME pend[q] # 0
          PROVE  (\A j \in Sessions : UpRuns(q, j)') /\ SentRuns(q)'
      <4>1. SentRuns(q) /\ UpRuns(q, k)
        BY <1>0, <1>6, <3>1, <3>3 DEF Whole
      <4>2. /\ \A n \in U : n <= sent[q]
            /\ \A c \in C : c <= sent[q]
            /\ last <= sent[q]
            /\ sent[q] = last \/ sent[q] \in C \cup U
        BY <4>1 DEF SentRuns
      <4>3. Nums(up'[k], q) = U \cup {m.n} /\ Rising(up'[k], q)
        <5>1. Rising(up[k], q) /\ \A n \in U : n < m.n
          BY <1>1, <2>2, <4>1, <4>2 DEF UpRuns
        <5> QED BY <1>1, <2>1, <5>1, NumsAppend
      <4>4. UpRuns(q, k)'
        <5>1. ASSUME NEW n \in U \cup {m.n}
              PROVE  /\ n > last /\ \A c \in C : c < n
                     /\ n = last + 1 \/ n - 1 \in C \cup (U \cup {m.n})
          <6>1. CASE n \in U
            BY <4>1, <6>1 DEF UpRuns
          <6>2. CASE n = m.n
            <7>1. n \in Nat /\ n - 1 = sent[q] /\ sent[q] \in Nat /\ sent[q] < n
              BY <1>1, <6>2
            <7>2. n > last /\ \A c \in C : c < n
              BY <2>2, <4>2, <7>1
            <7>3. n = last + 1 \/ n - 1 \in C \cup U
              BY <2>2, <4>2, <7>1
            <7> QED BY <7>2, <7>3
          <6> QED BY <5>1, <6>1, <6>2
        <5> QED BY <4>3, <5>1 DEF UpRuns
      <4>5. ASSUME NEW j \in Sessions PROVE UpRuns(q, j)'
        <5>1. CASE j # k
          BY <1>2, <3>1, <3>3, <5>1 DEF Whole, UpRuns
        <5> QED BY <4>4, <5>1
      <4>6. SentRuns(q)'
        <5>1. ASSUME NEW n \in U \cup {m.n} PROVE n <= m.n
          <6>1. CASE n \in U
            <7>1. n <= sent[q] /\ n \in Nat
              BY <2>2, <4>2, <6>1
            <7> QED BY <1>1, <7>1
          <6>2. CASE n = m.n
            BY <1>1, <6>2
          <6> QED BY <5>1, <6>1, <6>2
        <5>2. last <= m.n /\ \A c \in C : c <= m.n
          BY <1>1, <2>2, <4>2
        <5>3. Nums(up'[of'[q]], q) = U \cup {m.n} /\ Nums(chan'[q], q) = C /\ seen'[q].last = last
          BY <4>3
        <5>4. sent'[q] = m.n
          BY <1>1
        <5> HIDE DEF U, C, last
        <5>5. /\ sent'[q] = seen'[q].last \/ sent'[q] \in Nums(chan'[q], q) \cup Nums(up'[of'[q]], q)
              /\ seen'[q].last <= sent'[q]
              /\ \A c \in Nums(chan'[q], q) : c <= sent'[q]
              /\ \A c \in Nums(up'[of'[q]], q) : c <= sent'[q]
          BY <5>1, <5>2, <5>3, <5>4
        <5> QED BY <5>5 DEF SentRuns
      <4> QED BY <4>5, <4>6
    <3> QED BY <3>2, <3>3 DEF Whole
  <2> QED BY <1>4, <2>3
<1> QED BY <1>5, <1>6

\* A socket that is not dialled now is open only if it was.
LEMMA StaysShut ==
  ASSUME Shape, Dialled, [Next]_vars, NEW j \in Sessions, sock[j] # "none", sock'[j] = "open"
  PROVE  sock[j] = "open"
<1>0. sock \in [Sessions -> {"none", "open", "cut", "closed"}]
  BY SessionTypes
<1>1. CASE UNCHANGED sock
  BY <1>1
<1>2. ASSUME NEW ks, sock' = Closed(ks) PROVE sock[j] = "open"
  BY <1>0, <1>2, ClosedSocks
<1>3. ASSUME NEW k, AbortedWrite(k) PROVE sock[j] = "open"
  BY <1>1, <1>2, <1>3 DEF AbortedWrite
<1>4. ASSUME NEW k \in Sessions,
             \/ RegisterConn(k) \/ CloseOld(k) \/ ServerLost(k) \/ ServerRead(k) \/ Cut(k) \/ Dial(k)
      PROVE  sock[j] = "open"
  <2>1. CASE Dial(k)
    BY <1>0, <2>1, NextIsFresh DEF Dial
  <2>2. CASE Cut(k)
    BY <1>0, <2>2 DEF Cut
  <2> QED BY <1>1, <1>2, <1>4, <2>1, <2>2 DEF RegisterConn, CloseOld, ServerLost, ServerRead, net
<1>5. ASSUME NEW p \in Requests,
             \/ Pick(p) \/ AddPending(p) \/ WriteRequest(p) \/ Abandon(p) \/ Timeout(p)
             \/ Answer(p) \/ StreamStart(p) \/ StreamNext(p)
      PROVE  sock[j] = "open"
  <2>1. CASE Returns(p)
    <3>1. sock' = sock \/ sock' = Closed({via[p]})
      BY <2>1 DEF Returns, CancelSent
    <3> QED BY <1>1, <1>2, <3>1
  <2> QED BY <1>1, <1>3, <1>5, <2>1
      DEF Pick, AddPending, WriteRequest, Abandon, Timeout, Answer, StreamStart, StreamNext, net
<1>6. ASSUME NEW p \in Streams,
             WorkerStarts(p) \/ WorkerSends(p) \/ WorkerEnds(p) \/ WorkerCancelled(p)
      PROVE  sock[j] = "open"
  BY <1>1, <1>3, <1>6 DEF WorkerStarts, WorkerSends, WorkerEnds, WorkerCancelled
<1>7. CASE \/ Start \/ Backoff \/ SessionEnds \/ LoopExits \/ HandleMessage \/ SendHTTPResponse
           \/ DialFails \/ Stop \/ RevokeShare \/ UNCHANGED vars
  BY <1>1, <1>2, <1>7 DEF Start, Backoff, SessionEnds, LoopExits, HandleMessage, SendHTTPResponse,
     DialFails, Stop, RevokeShare, vars, net
<1> QED BY <1>4, <1>5, <1>6, <1>7 DEF Next, ServerStep, DaemonStep

\* Every step keeps the flow of every stream.
LEMMA FlowNext ==
  ASSUME Shape, Shape', Origin, [Next]_vars, NEW q \in Streams, NoMark(q) => Whole(q)
  PROVE  One(q)' /\ (NoMark(q) => Whole(q))'
<1> DEFINE Goal == One(q)' /\ (NoMark(q) => Whole(q))'
<1>0. q \in Requests /\ One(q) /\ Dialled /\ Addressed /\ AskedOnce
  BY StreamsAsk DEF Origin, OneSession
<1>1. /\ chan \in [Requests -> Seq(Frame)] /\ pend \in [Requests -> 0..MaxSess]
      /\ up \in [Sessions -> Seq(Frame)]
      /\ seen \in [Requests -> [last : 0..MaxChunks, gap : BOOLEAN, late : BOOLEAN]]
      /\ worker \in [Streams -> {"none", "asking", "sending", "done"}]
      /\ of \in [Streams -> 0..MaxSess] /\ sent \in [Streams -> 0..MaxChunks]
  BY DEF Shape, TypeOK
<1>2. worker[q] = "sending" => (sock'[of[q]] = "open" => sock[of[q]] = "open")
  <2>1. ASSUME worker[q] = "sending" PROVE of[q] \in Sessions /\ sock[of[q]] # "none"
    BY <1>0, <2>1, SessionTypes, SessionNumbers DEF Shape, InSession, Dialled
  <2> QED BY <1>0, <2>1, StaysShut
<1>3. ASSUME UNCHANGED <<worker, of, sent>>, seen'[q] = seen[q], chan'[q] = chan[q],
             pend'[q] \in {0, pend[q]} \/ worker[q] = "none",
             \A k \in Sessions : up'[k] = up[k] \/ (up'[k] = <<>> /\ sock'[k] # "open")
      PROVE  Goal
  BY <1>0, <1>2, <1>3, FlowQuiet
<1>4. ASSUME NEW k \in Sessions, Cut(k) \/ RegisterConn(k) \/ CloseOld(k) \/ Dial(k) PROVE Goal
  <2>1. UNCHANGED <<handler, worker, of, sent>>
    BY <1>4 DEF Cut, RegisterConn, CloseOld, Dial, server, daemon
  <2>2. \A j \in Sessions : up'[j] = up[j] \/ (up'[j] = <<>> /\ sock'[j] # "open")
    BY <1>1, <1>4, SessionTypes DEF Cut, RegisterConn, CloseOld, Dial, net
  <2> QED BY <1>3, <2>1, <2>2 DEF handler
<1>5. ASSUME NEW k \in Sessions, ServerLost(k) PROVE Goal
  <2>1. UNCHANGED <<seen, worker, of, sent>>
    BY <1>5 DEF ServerLost, daemon
  <2>2. \A j \in Sessions : up'[j] = up[j] \/ (up'[j] = <<>> /\ sock'[j] # "open")
    BY <1>1, <1>5, SessionNumbers DEF ServerLost, Closed
  <2>3. pend'[q] \in {0, pend[q]}
    BY <1>0, <1>1, <1>5 DEF ServerLost, UnregisterConn
  <2>4. chan'[q] = chan[q] \/ \E m \in Frame : ~Chunk(m, q) /\ chan'[q] = Append(chan[q], m)
    <3> DEFINE m == Msg("disconnected", q)
    <3>1. m \in Frame /\ m.t = "disconnected"
      BY <1>0, MsgFrame, ZenonT(60)
    <3>2. chan'[q] = chan[q] \/ chan'[q] = Append(chan[q], m)
      BY <1>0, <1>1, <1>5 DEF ServerLost, UnregisterConn
    <3> HIDE DEF m
    <3> QED BY <3>1, <3>2 DEF Chunk
  <2> QED BY <1>0, <1>2, <2>1, <2>2, <2>3, <2>4, FlowQuiet
<1>6. ASSUME NEW k \in Sessions, ServerRead(k) PROVE Goal
  <2>1. CASE Head(up[k]).q = q
    BY <1>0, <1>6, <2>1, FlowRead
  <2>2. CASE Head(up[k]).q # q
    <3>1. ~Chunk(Head(up[k]), q)
      BY <2>2 DEF Chunk
    <3>2. UNCHANGED <<seen, pend, worker, of, sent>> /\ chan'[q] = chan[q]
      BY <1>0, <1>1, <1>6, <2>2 DEF ServerRead, daemon
    <3>3. \A j \in Sessions : \/ up'[j] = up[j]
                              \/ up[j] # <<>> /\ ~Chunk(Head(up[j]), q) /\ up'[j] = Tail(up[j])
      BY <1>1, <1>6, <3>1 DEF ServerRead
    <3> QED BY <1>0, <1>2, <3>2, <3>3, FlowQuiet
  <2> QED BY <2>1, <2>2
<1>7. ASSUME NEW p \in Requests, Over(p), UNCHANGED <<up, daemon>> PROVE Goal
  <2>1. CASE p = q
    <3>1. chan'[q] = <<>> /\ seen'[q] = Nothing /\ pend'[q] = 0
      BY <1>0, <1>1, <1>7, <2>1 DEF Over
    <3> QED BY <1>0, <1>7, <3>1, FlowOver DEF daemon
  <2>2. CASE p # q
    <3>1. chan'[q] = chan[q] /\ seen'[q] = seen[q] /\ pend'[q] = pend[q]
      BY <1>0, <1>1, <1>7, <2>2 DEF Over
    <3> QED BY <1>3, <1>7, <3>1 DEF daemon
  <2> QED BY <2>1, <2>2
<1>8. ASSUME NEW p \in Requests, Pick(p) PROVE Goal
  BY <1>3, <1>8 DEF Pick, net, daemon
<1>9. ASSUME NEW p \in Requests, AddPending(p) PROVE Goal
  <2>1. pend'[q] = pend[q] \/ worker[q] = "none"
    BY <1>0, <1>1, <1>9 DEF AddPending, AskedOnce
  <2> QED BY <1>3, <1>9, <2>1 DEF AddPending, net, daemon
<1>10. ASSUME NEW p \in Requests, WriteRequest(p) PROVE Goal
  BY <1>3, <1>7, <1>10 DEF WriteRequest, daemon
<1>11. ASSUME NEW p \in Requests, Returns(p) PROVE Goal
  BY <1>7, <1>11 DEF Returns
<1>12. ASSUME NEW p \in Requests, StreamStart(p) PROVE Goal
  <2>1. CASE Head(chan[p]).t = "start"
    <3>1. UNCHANGED <<up, seen, pend, worker, of, sent>>
      BY <1>12, <2>1 DEF StreamStart, net, daemon
    <3>2. \/ chan'[q] = chan[q]
          \/ chan[q] # <<>> /\ Head(chan[q]).t \notin {"chunk", "overflow"} /\ chan'[q] = Tail(chan[q])
      BY <1>0, <1>1, <1>12, <2>1 DEF StreamStart
    <3> QED BY <1>0, <1>2, <3>1, <3>2, FlowQuiet
  <2> QED BY <1>11, <1>12, <2>1 DEF StreamStart
<1>13. ASSUME NEW p \in Requests, StreamNext(p) PROVE Goal
  <2>1. CASE /\ Head(chan[p]).t = "chunk" /\ seen' = [seen EXCEPT ![p] = Shown(p, Head(chan[p]))]
             /\ chan' = [chan EXCEPT ![p] = Tail(@)]
             /\ UNCHANGED <<net, pend, daemon>>
    <3>1. CASE p = q
      BY <1>0, <1>1, <1>13, <2>1, <3>1, FlowShown DEF StreamNext, net, daemon
    <3>2. CASE p # q
      <4>1. seen'[q] = seen[q] /\ chan'[q] = chan[q]
        BY <1>0, <1>1, <2>1, <3>2
      <4> QED BY <1>3, <2>1, <4>1 DEF net, daemon
    <3> QED BY <3>1, <3>2
  <2> QED BY <1>11, <1>13, <2>1 DEF StreamNext
<1>14. CASE HandleMessage
  <2>1. UNCHANGED <<up, handler, sent>>
    BY <1>14 DEF HandleMessage, server
  <2>2. \/ UNCHANGED <<worker, of>>
        \/ StartHTTPStream(Head(down[sess]).q) /\ Head(down[sess]).t = "stream"
    BY <1>14 DEF HandleMessage
  <2>3. CASE UNCHANGED <<worker, of>>
    BY <1>3, <2>1, <2>3 DEF handler
  <2>4. CASE StartHTTPStream(Head(down[sess]).q) /\ Head(down[sess]).t = "stream"
    <3>1. sess \in Sessions /\ down[sess] \in Seq(Frame) /\ down[sess] # <<>>
      BY <1>14, SessionTypes, SessionNumbers DEF HandleMessage, Shape, InSession, TypeOK
    <3>2. Head(down[sess]) = down[sess][1] /\ 1 \in 1..Len(down[sess])
      BY <3>1, HeadFrame
    <3>3. worker[Head(down[sess]).q] = "none"
      BY <1>0, <2>4, <3>1, <3>2 DEF AskedOnce
    <3>4. \/ worker'[q] = worker[q] /\ of'[q] = of[q] /\ sent'[q] = sent[q]
          \/ worker[q] = "none" /\ worker'[q] = "asking" /\ sent'[q] = sent[q]
      BY <1>1, <2>1, <2>4, <3>3 DEF StartHTTPStream
    <3>5. chan'[q] = chan[q] /\ seen'[q] = seen[q] /\ pend'[q] = pend[q] /\ up' = up
      BY <2>1 DEF handler
    <3> QED BY <1>0, <1>2, <3>4, <3>5, FlowQuiet
  <2> QED BY <2>2, <2>3, <2>4
<1>15. ASSUME NEW k \in Sessions, NEW m \in Frame, ~Chunk(m, q), up' = Put(up, k, m),
              UNCHANGED handler,
              \/ worker'[q] = worker[q] /\ of'[q] = of[q] /\ sent'[q] = sent[q]
              \/ worker'[q] = "done"
              \/ worker[q] = "asking" /\ worker'[q] = "sending" /\ of'[q] = of[q] /\ sent'[q] = sent[q]
       PROVE  Goal
  <2>1. \A j \in Sessions : up'[j] = up[j] \/ (~Chunk(m, q) /\ up'[j] = Append(up[j], m))
    BY <1>1, <1>15 DEF Put
  <2>2. chan'[q] = chan[q] /\ seen'[q] = seen[q] /\ pend'[q] = pend[q]
    BY <1>15 DEF handler
  <2> QED BY <1>0, <1>2, <1>15, <2>1, <2>2, FlowQuiet
<1>16. CASE SendHTTPResponse
  <2> DEFINE m == Msg("response", busy)
  <2>1. sess \in Sessions /\ busy \in Requests
    BY <1>16, SessionNumbers DEF SendHTTPResponse, Shape, TypeOK, InSession
  <2>2. m \in Frame /\ m.t = "response" /\ up' = Put(up, sess, m)
    BY <1>16, <2>1, MsgFrame, ZenonT(60) DEF SendHTTPResponse
  <2>3. UNCHANGED <<handler, worker, of, sent>>
    BY <1>16 DEF SendHTTPResponse, server
  <2> HIDE DEF m
  <2> QED BY <1>15, <2>1, <2>2, <2>3 DEF Chunk
<1>17. ASSUME NEW p \in Streams, worker[p] \in {"asking", "sending"} PROVE of[p] \in Sessions /\ p \in Requests
  BY <1>17, SessionTypes, SessionNumbers, StreamsAsk DEF Shape, InSession
<1>18. ASSUME NEW p \in Streams, WorkerDone(p)
       PROVE  \/ worker'[q] = worker[q] /\ of'[q] = of[q] /\ sent'[q] = sent[q]
              \/ worker'[q] = "done"
  BY <1>1, <1>18 DEF WorkerDone
<1>19. ASSUME NEW p \in Streams, WorkerDone(p), UNCHANGED <<up, handler>> PROVE Goal
  <2>1. chan'[q] = chan[q] /\ seen'[q] = seen[q] /\ pend'[q] = pend[q] /\ up' = up
    BY <1>19 DEF handler
  <2> QED BY <1>0, <1>2, <1>18, <1>19, <2>1, FlowQuiet
<1>20. ASSUME NEW p \in Streams, WorkerCancelled(p) PROVE Goal
  BY <1>19, <1>20 DEF WorkerCancelled, server
<1>21. ASSUME NEW p \in Streams, WorkerEnds(p) PROVE Goal
  <2> DEFINE m == Msg("end", p)
  <2>1. m \in Frame /\ m.t = "end" /\ up' = Put(up, of[p], m) /\ of[p] \in Sessions
    <3>1. of[p] \in Sessions /\ p \in Requests
      BY <1>17, <1>21 DEF WorkerEnds
    <3> QED BY <1>21, <3>1, MsgFrame, ZenonT(60) DEF WorkerEnds
  <2>2. UNCHANGED handler /\ WorkerDone(p)
    BY <1>21 DEF WorkerEnds, server
  <2> HIDE DEF m
  <2> QED BY <1>15, <1>18, <2>1, <2>2 DEF Chunk
<1>22. ASSUME NEW p \in Streams, WorkerStarts(p) PROVE Goal
  <2>0. of[p] \in Sessions /\ p \in Requests /\ worker[p] = "asking" /\ UNCHANGED handler
    BY <1>17, <1>22 DEF WorkerStarts, server
  <2>1. CASE WorkerDone(p) /\ UNCHANGED up
    BY <1>19, <2>0, <2>1
  <2>2. CASE up' = Put(up, of[p], Msg("start", p)) /\ worker' = [worker EXCEPT ![p] = "sending"]
             /\ UNCHANGED <<of, sent>>
    <3> DEFINE m == Msg("start", p)
    <3>1. m \in Frame /\ m.t = "start" /\ up' = Put(up, of[p], m)
      BY <2>0, <2>2, MsgFrame, ZenonT(60)
    <3>2. \/ worker'[q] = worker[q] /\ of'[q] = of[q] /\ sent'[q] = sent[q]
          \/ worker[q] = "asking" /\ worker'[q] = "sending" /\ of'[q] = of[q] /\ sent'[q] = sent[q]
      BY <1>1, <2>0, <2>2
    <3> HIDE DEF m
    <3> QED BY <1>15, <2>0, <3>1, <3>2 DEF Chunk
  <2> QED BY <1>22, <2>1, <2>2 DEF WorkerStarts
<1>23. ASSUME NEW p \in Streams, WorkerSends(p) PROVE Goal
  <2>0. of[p] \in Sessions /\ p \in Requests /\ worker[p] = "sending" /\ UNCHANGED <<handler, sock>>
    BY <1>17, <1>23 DEF WorkerSends, server
  <2>1. CASE WorkerDone(p) /\ UNCHANGED up
    BY <1>19, <2>0, <2>1
  <2> DEFINE m == [Msg("chunk", p) EXCEPT !.n = sent[p] + 1, !.late = ~share]
  <2>2. CASE up' = Put(up, of[p], m) /\ sent' = [sent EXCEPT ![p] = @ + 1] /\ UNCHANGED <<worker, of>>
    <3>1. sent[p] + 1 \in 0..MaxChunks
      BY <1>1, <1>23, BoundsArePositive DEF WorkerSends
    <3>2. m \in Frame /\ m.t = "chunk" /\ m.q = p /\ m.n = sent[p] + 1
      BY <2>0, <3>1, ZenonT(60) DEF Msg, Frame, Shape, TypeOK
    <3> HIDE DEF m
    <3>3. CASE p = q
      <4>1. Chunk(m, q) /\ UNCHANGED <<sock, pend, chan, seen>>
        BY <2>0, <3>2, <3>3 DEF Chunk, handler
      <4> QED BY <1>0, <2>0, <2>2, <3>2, <3>3, <4>1, FlowSends
    <3>4. CASE p # q
      <4>1. ~Chunk(m, q) /\ sent'[q] = sent[q]
        BY <1>1, <2>2, <3>2, <3>4 DEF Chunk
      <4> QED BY <1>15, <2>0, <2>2, <3>2, <4>1
    <3> QED BY <3>3, <3>4
  <2> QED BY <1>23, <2>1, <2>2 DEF WorkerSends
<1>24. CASE Start \/ Backoff \/ SessionEnds \/ LoopExits \/ DialFails \/ Stop \/ RevokeShare \/ UNCHANGED vars
  <2>1. UNCHANGED <<up, handler, worker, of, sent>>
    BY <1>24 DEF Start, Backoff, SessionEnds, LoopExits, DialFails, Stop, RevokeShare, vars, net,
                 server, daemon
  <2> QED BY <1>3, <2>1 DEF handler
<1> QED
  <2>1. CASE ServerStep
    BY <1>4, <1>5, <1>6, <1>9, <1>10, <1>11, <1>12, <1>13, <2>1 DEF ServerStep, Timeout, Answer
  <2>2. CASE DaemonStep
    BY <1>4, <1>14, <1>16, <1>24, <2>2 DEF DaemonStep
  <2>3. CASE \E p \in Requests : Pick(p) \/ Abandon(p)
    BY <1>8, <1>11, <2>3 DEF Abandon
  <2>4. CASE \E p \in Streams : WorkerStarts(p) \/ WorkerSends(p) \/ WorkerEnds(p) \/ WorkerCancelled(p)
    BY <1>20, <1>21, <1>22, <1>23, <2>4
  <2>5. CASE \E k \in Sessions : Cut(k)
    BY <1>4, <2>5
  <2>6. CASE RevokeShare \/ DialFails \/ Stop \/ UNCHANGED vars
    BY <1>24, <2>6
  <2> QED BY <2>1, <2>2, <2>3, <2>4, <2>5, <2>6 DEF Next

\* For any number of streams and sessions and any capacity of the channels: a
\* viewer that is shown chunks after a gap has the overflow that will cut it
\* off in its channel.  The chunks of a stream travel in one session, which is
\* never reopened once it is lost, so without an overflow mark nothing between
\* the sender and the viewer is missing.
THEOREM GapsAnnounced == Spec => []GapAnnounced
<1>1. Init => Origin /\ Flow
  <2> SUFFICES ASSUME Init PROVE Origin /\ Flow
    OBVIOUS
  <2>1. Streams \subseteq Requests /\ Len(<<>>) = 0
    <3>1. Len(<<>>) = 0
      OBVIOUS
    <3> QED BY <3>1, StreamsAsk
  <2>2. Dialled /\ Addressed /\ AskedOnce
    <3>1. Dialled
      BY DEF Init, Dialled
    <3>2. Addressed
      BY <2>1 DEF Init, Addressed
    <3>3. AskedOnce
      BY <2>1 DEF Init, AskedOnce
    <3> QED BY <3>1, <3>2, <3>3
  <2>3. ASSUME NEW q \in Streams
        PROVE  /\ seen[q].last = 0 /\ seen[q].gap = FALSE
               /\ Nums(chan[q], q) = {} /\ Rising(chan[q], q) /\ sent[q] = 0 /\ pend[q] = 0
               /\ worker[q] = "none"
    BY <2>1, NumsEmpty DEF Init, Nothing
  <2>4. \A q \in Streams : \A k \in Sessions : Nums(up[k], q) = {}
    BY NumsEmpty DEF Init
  <2>5. OneSession
    BY <2>3, <2>4 DEF OneSession, One
  <2>6. Flow
    BY <2>3 DEF Flow, Whole, ChanRuns
  <2> QED BY <2>2, <2>5, <2>6 DEF Origin
<1>2. Shape /\ Shape' /\ Origin /\ Flow /\ [Next]_vars => (Origin /\ Flow)'
  <2> SUFFICES ASSUME Shape, Shape', Origin, Flow, [Next]_vars PROVE (Origin /\ Flow)'
    OBVIOUS
  <2>1. \A q \in Streams : One(q)' /\ (NoMark(q) => Whole(q))'
    BY FlowNext DEF Flow
  <2>2. OneSession' /\ Flow'
    BY <2>1 DEF OneSession, Flow
  <2> QED BY <2>2, DialledNext, AddressedNext, AskedNext DEF Origin
<1>3. Shape /\ Flow => GapAnnounced
  <2> SUFFICES ASSUME Shape, Flow, NEW q \in Streams, seen[q].gap
               PROVE  \E i \in DOMAIN chan[q] : chan[q][i].t = "overflow"
    BY DEF GapAnnounced
  <2>1. chan[q] \in Seq(Frame)
    BY StreamsAsk DEF Shape, TypeOK
  <2>2. ~NoMark(q)
    BY DEF Flow, Whole
  <2> QED BY <2>1, <2>2 DEF NoMark
<1> QED BY <1>1, <1>2, <1>3, ShapeHolds, PTL DEF Spec
=============================================================================
