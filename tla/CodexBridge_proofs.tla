------------------------- MODULE CodexBridge_proofs -------------------------
(***************************************************************************)
(* Proofs about the Codex bridge and the event window: type correctness,   *)
(* that an ack of a delivery is true, and that a thread keeps its peer id  *)
(* while its certificate is good.  All of it rests on one inductive        *)
(* invariant, Inv: what is under way on the connection, what the place of  *)
(* the mesh goroutine says of its identity, its certificate and its one    *)
(* call, and how the window is numbered.                                   *)
(***************************************************************************)
EXTENDS CodexBridge, SequenceTheorems, WellFoundedInduction, TLAPS

\* The least of a set of numbers.
LEMMA MinOf ==
  ASSUME NEW S \in SUBSET Nat, S # {}
  PROVE  Min(S) \in S
<1>1. IsWellFoundedOn(OpToRel(<, Nat), Nat)
  BY NatLessThanWellFounded
<1>2. PICK x \in S : \A y \in S : ~(<<y, x>> \in OpToRel(<, Nat))
  BY <1>1, WFMin
<1>3. \A y \in S : ~(y < x)
  BY <1>2 DEF OpToRel
<1>4. \E z \in S : \A y \in S : z <= y
  BY <1>3
<1> QED
  BY <1>4 DEF Min

\* A sequence with its first match removed.
LEMMA RemoveFirstTyped ==
  ASSUME NEW s \in Seq(Nat), NEW e
  PROVE  RemoveFirst(s, e) \in Seq(Nat)
<1> DEFINE I == {i \in 1 .. Len(s) : s[i] = e}
           k == Min(I)
<1>1. CASE \E i \in 1 .. Len(s) : s[i] = e
  <2>1. I \in SUBSET Nat /\ I # {}
    BY <1>1
  <2>2. k \in 1 .. Len(s)
    BY <2>1, MinOf
  <2>3. SelectInSeq(s, LAMBDA v : v = e) = k
    BY <2>1 DEF SelectInSeq
  <2>4. RemoveFirst(s, e) = RemoveAt(s, k)
    BY <1>1, <2>3 DEF RemoveFirst
  <2> HIDE DEF k
  <2>5. SubSeq(s, 1, k - 1) \in Seq(Nat) /\ SubSeq(s, k + 1, Len(s)) \in Seq(Nat)
    BY <2>2, SubSeqProperties
  <2> QED
    BY <2>4, <2>5, SMTT(40) DEF RemoveAt
<1>2. CASE ~(\E i \in 1 .. Len(s) : s[i] = e)
  BY <1>2 DEF RemoveFirst
<1> QED
  BY <1>1, <1>2

-----------------------------------------------------------------------------
(* The inductive invariant *)

Turns == 0 .. MaxTurns
Tags == {"initialize", "list", "read", "turns", "inject_items", "steer", "start", "ok", "err",
         "started", "active", "idle", "turn", "item", "completed", "closed"}
Frames == [t : Tags, by : Actors \cup {"nobody"}, n : Turns, d : Turns]
Results == [st : {"none", "wait", "ok", "err"}, n : Turns, d : Turns]

\* The window: what is pushed is numbered without gaps.
WinInv ==
  /\ window \in Seq(Nat) /\ pushed \in Nat /\ finalized \in Seq(Nat)
  /\ Len(window) <= pushed /\ (window = <<>> => pushed = 0)
  /\ DOMAIN stream = {"at", "cursor", "token", "base"} /\ stream.cursor \in Nat
  /\ WindowTypeOK

\* The App Server and its connection.
LinkTypes ==
  /\ srv \in [init : BOOLEAN, open : BOOLEAN, turn : Turns, done : Turns]
  /\ app \in {"nil", "up", "dead"}
  /\ main \in {"connect", "hello", "init", "load", "list", "read", "serve", "close"}
  /\ reader \in {"off", "run", "finish", "failed"} /\ rturn \in Turns
  /\ out \in Seq(Frames) /\ wire \in Seq(Frames)
  /\ calls \in [Actors -> Results]

\* A frame is only under way on a connection that is up, and the handshake and
\* a failed reader belong to the connection they happened on.
LinkInv ==
  /\ app # "up" => out = <<>> /\ wire = <<>>
  /\ srv.init = TRUE => app = "up"
  /\ reader = "failed" => app = "dead"
  /\ reader = "off" <=> app = "nil"
  /\ calls["main"].st # "none" => main \in {"init", "list", "read"}

Calling == {"inject", "steer", "start"}
Peers == [on : BOOLEAN, gen : Nat, active : Turns, done : Turns, seen : SUBSET Turns,
          id : 0 .. MaxIds, hint : 0 .. MaxIds, cert : 0 .. MaxIds, stale : BOOLEAN]
Caps == [turn : Turns, gen : Nat]
RegStates == {"none", "online", "offline", "soft", "hard", "gone", "closed", "shadow", "lost"}

\* The thread's peer.
PeerTypes ==
  /\ p \in Peers
  /\ cap \in Caps
  /\ mesh \in {"off", "restore", "post", "persist", "context", "inject", "dial", "read", "steer", "start"}
  /\ sock \in {"none", "open"}
  /\ got \in BOOLEAN
  /\ disk \in [cert : 0 .. MaxIds, stale : BOOLEAN, ctx : BOOLEAN]
  /\ reg \in [Ids -> RegStates]

\* Where the thread is in runMesh says what it has.
MeshInv ==
  /\ mesh = "off" <=> p.on = FALSE
  /\ mesh = "off" => p.id = 0
  /\ calls["mesh"].st # "none" => mesh \in Calling
  /\ mesh \in {"persist", "context", "inject", "dial", "read", "steer", "start"} => p.id # 0
  /\ sock = "open" => mesh \in {"read", "steer", "start"} /\ p.id # 0 /\ reg[p.id] = "online"
  /\ p.id # 0 => reg[p.id] # "none"

\* The certificate in memory is as good as the one on disk, and whoever registers
\* without an id has none.
CertInv ==
  /\ p.on = TRUE /\ p.cert = 0 => disk.cert = 0 \/ disk.stale = TRUE
  /\ mesh = "post" /\ p.id = 0 => p.cert = 0
  /\ mesh = "persist" => p.cert # 0

\* The daemon has one record of the thread at most, and it is the one the thread names
\* when it names any; what a certificate names was minted.
RegInv ==
  /\ \A i, j \in Ids : Known(reg[i]) /\ Known(reg[j]) => i = j
  /\ p.id # 0 => \A j \in Ids : Known(reg[j]) => j = p.id
  /\ p.cert # 0 => reg[p.cert] # "none"
  /\ disk.cert # 0 => reg[disk.cert] # "none"

\* The mesh goroutine has one call at a time, and its request or reply is under
\* way only while it waits.
None(s) == \A i \in DOMAIN s : s[i].by # "mesh"
AtMostOne(s) == \A i, j \in DOMAIN s : s[i].by = "mesh" /\ s[j].by = "mesh" => i = j
Prompts(s) == \A i \in DOMAIN s : s[i].by = "mesh" => s[i].t \in {"steer", "start"}
NoOk(s) == \A i \in DOMAIN s : s[i].by = "mesh" => s[i].t # "ok"

WireInv ==
  /\ calls["mesh"].st # "wait" => None(out) /\ None(wire)
  /\ AtMostOne(out) /\ AtMostOne(wire) /\ (None(out) \/ None(wire))
  /\ mesh \in {"steer", "start"} => Prompts(out)

\* An ok to a prompt means that the thread was given the message.
AckInv ==
  /\ mesh \in {"steer", "start"} /\ got = FALSE => NoOk(wire) /\ calls["mesh"].st # "ok"
  /\ AckTruthful


-----------------------------------------------------------------------------
(* What the queues keep *)

\* A queue that loses its first frame keeps what it promises of the others.
LEMMA TailFrames ==
  ASSUME NEW s \in Seq(Frames), s # <<>>
  PROVE  /\ Tail(s) \in Seq(Frames) /\ Head(s) \in Frames
         /\ None(s) => None(Tail(s)) /\ Head(s).by # "mesh"
         /\ AtMostOne(s) => AtMostOne(Tail(s))
         /\ AtMostOne(s) /\ Head(s).by = "mesh" => None(Tail(s))
         /\ Prompts(s) => Prompts(Tail(s))
         /\ NoOk(s) => NoOk(Tail(s))
<1>1. /\ Tail(s) \in Seq(Frames) /\ Head(s) = s[1] /\ 1 \in DOMAIN s
      /\ \A i \in DOMAIN Tail(s) : i \in Nat /\ i >= 1 /\ i + 1 \in DOMAIN s /\ Tail(s)[i] = s[i + 1]
  OBVIOUS
<1>2. Head(s) \in Frames
  BY <1>1
<1>3. AtMostOne(s) /\ Head(s).by = "mesh" => None(Tail(s))
  BY <1>1 DEF AtMostOne, None
<1>4. AtMostOne(s) => AtMostOne(Tail(s))
  BY <1>1 DEF AtMostOne
<1>5. None(s) => None(Tail(s)) /\ Head(s).by # "mesh"
  BY <1>1 DEF None
<1>6. Prompts(s) => Prompts(Tail(s))
  BY <1>1 DEF Prompts
<1>7. NoOk(s) => NoOk(Tail(s))
  BY <1>1 DEF NoOk
<1> QED
  BY <1>1, <1>2, <1>3, <1>4, <1>5, <1>6, <1>7

\* A queue that gains a frame keeps what the frame respects.
LEMMA AppendFrames ==
  ASSUME NEW s \in Seq(Frames), NEW f \in Frames
  PROVE  /\ Append(s, f) \in Seq(Frames)
         /\ None(s) /\ f.by # "mesh" => None(Append(s, f))
         /\ None(s) => AtMostOne(Append(s, f))
         /\ AtMostOne(s) /\ f.by # "mesh" => AtMostOne(Append(s, f))
         /\ Prompts(s) /\ (f.by = "mesh" => f.t \in {"steer", "start"}) => Prompts(Append(s, f))
         /\ NoOk(s) /\ (f.by = "mesh" => f.t # "ok") => NoOk(Append(s, f))
<1> DEFINE a == Append(s, f)
<1>1. /\ a \in Seq(Frames)
      /\ \A i \in DOMAIN a : (i \in DOMAIN s /\ a[i] = s[i]) \/ (i = Len(s) + 1 /\ a[i] = f)
  OBVIOUS
<1> HIDE DEF a
<1>2. None(s) /\ f.by # "mesh" => None(a)
  BY <1>1 DEF None
<1>3. None(s) => AtMostOne(a)
  BY <1>1 DEF None, AtMostOne
<1>4. AtMostOne(s) /\ f.by # "mesh" => AtMostOne(a)
  BY <1>1 DEF AtMostOne
<1>5. Prompts(s) /\ (f.by = "mesh" => f.t \in {"steer", "start"}) => Prompts(a)
  BY <1>1 DEF Prompts
<1>6. NoOk(s) /\ (f.by = "mesh" => f.t # "ok") => NoOk(a)
  BY <1>1 DEF NoOk
<1> QED
  BY <1>1, <1>2, <1>3, <1>4, <1>5, <1>6 DEF a

\* Notifications have no caller.
LEMMA ConcatFrames ==
  ASSUME NEW s \in Seq(Frames), NEW u \in Seq(Frames), \A i \in DOMAIN u : u[i].by = "nobody"
  PROVE  /\ s \o u \in Seq(Frames)
         /\ None(s) => None(s \o u)
         /\ AtMostOne(s) => AtMostOne(s \o u)
         /\ NoOk(s) => NoOk(s \o u)
<1> DEFINE a == s \o u
<1>1. /\ a \in Seq(Frames)
      /\ Len(a) = Len(s) + Len(u)
      /\ \A i \in 1 .. Len(s) + Len(u) : a[i] = IF i <= Len(s) THEN s[i] ELSE u[i - Len(s)]
  BY ConcatProperties
<1>2. \A i \in DOMAIN a : (i \in DOMAIN s /\ a[i] = s[i]) \/ a[i].by = "nobody"
  BY <1>1
<1> HIDE DEF a
<1>3. None(s) => None(a)
  BY <1>2 DEF None
<1>4. AtMostOne(s) => AtMostOne(a)
  BY <1>2 DEF AtMostOne
<1>5. NoOk(s) => NoOk(a)
  BY <1>2 DEF NoOk
<1> QED
  BY <1>1, <1>3, <1>4, <1>5 DEF a

\* A disowned request or reply keeps its place and loses its caller.
LEMMA DisownedFrames ==
  ASSUME NEW s \in Seq(Frames), NEW a \in Actors
  PROVE  /\ Disowned(a, s) \in Seq(Frames)
         /\ None(s) => None(Disowned(a, s))
         /\ None(Disowned("mesh", s))
         /\ AtMostOne(s) => AtMostOne(Disowned(a, s))
         /\ Prompts(s) => Prompts(Disowned(a, s))
         /\ NoOk(s) => NoOk(Disowned(a, s))
         /\ s = <<>> => Disowned(a, s) = <<>>
<1> DEFINE d == Disowned(a, s)
<1>0. \A f \in Frames : [f EXCEPT !.by = "nobody"] \in Frames
  BY DEF Frames
<1>1. \A i \in DOMAIN s : [s[i] EXCEPT !.by = "nobody"] \in Frames /\ s[i] \in Frames
  <2> SUFFICES ASSUME NEW i \in DOMAIN s
               PROVE  [s[i] EXCEPT !.by = "nobody"] \in Frames /\ s[i] \in Frames
    OBVIOUS
  <2>1. s[i] \in Frames
    OBVIOUS
  <2> QED
    BY <1>0, <2>1
<1>2. DOMAIN s = 1 .. Len(s) /\ Len(s) \in Nat
  OBVIOUS
<1>3. d = [i \in 1 .. Len(s) |-> IF s[i].by = a THEN [s[i] EXCEPT !.by = "nobody"] ELSE s[i]]
  BY <1>2 DEF Disowned
<1>4. d \in Seq(Frames) /\ DOMAIN d = DOMAIN s /\ Len(d) = Len(s)
  BY <1>1, <1>2, <1>3
<1>5. \A i \in DOMAIN d : d[i].by = "nobody" \/ d[i] = s[i]
  BY <1>1, <1>2, <1>3 DEF Frames
<1>6. s = <<>> => d = <<>>
  BY <1>4
<1>7. None(Disowned("mesh", s))
  BY <1>1 DEF None, Disowned, Frames
<1> HIDE DEF d
<1>8. None(s) => None(d)
  BY <1>4, <1>5 DEF None
<1>9. AtMostOne(s) => AtMostOne(d)
  BY <1>4, <1>5 DEF AtMostOne
<1>10. Prompts(s) => Prompts(d)
  BY <1>4, <1>5 DEF Prompts
<1>11. NoOk(s) => NoOk(d)
  BY <1>4, <1>5 DEF NoOk
<1> QED
  BY <1>4, <1>6, <1>7, <1>8, <1>9, <1>10, <1>11 DEF d

\* An empty queue promises everything.
LEMMA EmptyFrames ==
  /\ <<>> \in Seq(Frames)
  /\ None(<<>>) /\ AtMostOne(<<>>) /\ Prompts(<<>>) /\ NoOk(<<>>)
BY DEF None, AtMostOne, Prompts, NoOk

\* So does one without a frame of the mesh.
LEMMA NoneFrames ==
  ASSUME NEW s, None(s)
  PROVE  AtMostOne(s) /\ Prompts(s) /\ NoOk(s)
BY DEF None, AtMostOne, Prompts, NoOk


-----------------------------------------------------------------------------
(* The event window *)

\* What Newest keeps are the last elements, at most n of them and not none.
LEMMA NewestIsLast ==
  ASSUME NEW s \in Seq(Nat), NEW n \in Nat
  PROVE  /\ Newest(s, n) \in Seq(Nat)
         /\ Len(Newest(s, n)) <= n /\ Len(Newest(s, n)) <= Len(s)
         /\ Len(s) > 0 /\ n > 0 => Len(Newest(s, n)) > 0
         /\ \A i \in 1 .. Len(Newest(s, n)) : Newest(s, n)[i] = s[Len(s) - Len(Newest(s, n)) + i]
<1>1. CASE Len(s) > n
  <2> DEFINE k == Len(s)
             m == k - n + 1
             w == SubSeq(s, m, k)
  <2>1. k \in Nat /\ n < k /\ \A i \in 1 .. k : s[i] \in Nat
    BY <1>1
  <2>2. Newest(s, n) = w
    BY <1>1 DEF Newest
  <2> HIDE DEF k
  <2>3. /\ m \in Int /\ k \in Nat /\ 1 <= m /\ k - m + 1 = n /\ (m <= k \/ n = 0)
        /\ \A i \in 1 .. n : m + i - 1 = k - n + i
    BY <2>1
  <2> HIDE DEF m
  <2>4. \A i \in m .. k : s[i] \in Nat
    BY <2>1, <2>3
  <2>5. /\ w \in Seq(Nat)
        /\ Len(w) = IF m <= k THEN k - m + 1 ELSE 0
        /\ \A i \in 1 .. k - m + 1 : w[i] = s[m + i - 1]
    BY <2>3, <2>4, SubSeqProperties
  <2> HIDE DEF w
  <2>6. w \in Seq(Nat) /\ Len(w) = n /\ \A i \in 1 .. n : w[i] = s[k - n + i]
    BY <2>3, <2>5
  <2> QED
    BY <2>1, <2>2, <2>6 DEF k
<1>2. CASE ~(Len(s) > n)
  BY <1>2 DEF Newest
<1> QED
  BY <1>1, <1>2

\* A pushed event keeps the window full of the latest events, in order.
LEMMA PushKeepsWindow ==
  ASSUME WinInv, Push
  PROVE  /\ window' \in Seq(Nat) /\ pushed' \in Nat /\ Len(window') <= pushed'
         /\ Len(window') <= WindowCap /\ window' # <<>>
         /\ \A i \in DOMAIN window' : window'[i] = pushed' - Len(window') + i
         /\ stream' = stream /\ stream.cursor <= pushed'
<1> DEFINE s == Append(window, pushed + 1)
           w == Newest(s, WindowCap)
<1>1. window \in Seq(Nat) /\ pushed \in Nat /\ Len(window) <= pushed /\ stream.cursor \in Nat /\ stream.cursor <= pushed
  BY DEF WinInv, WindowTypeOK
<1>2. \A i \in 1 .. Len(window) : window[i] = pushed - Len(window) + i
  BY <1>1 DEF WinInv, WindowTypeOK
<1>3. s \in Seq(Nat) /\ Len(s) = Len(window) + 1 /\ \A i \in 1 .. Len(s) : s[i] = (pushed + 1) - Len(s) + i
  BY <1>1, <1>2
<1>4. WindowCap \in Nat /\ WindowCap > 0 /\ Len(s) > 0
  BY <1>1, <1>3, WindowAssumption
<1> HIDE DEF s
<1>5. /\ w \in Seq(Nat) /\ Len(w) <= WindowCap /\ Len(w) <= Len(s) /\ Len(w) > 0
      /\ \A i \in 1 .. Len(w) : w[i] = s[Len(s) - Len(w) + i]
  BY <1>3, <1>4, NewestIsLast
<1>6. window' = w /\ pushed' = pushed + 1 /\ stream' = stream
  BY DEF Push, s
<1> HIDE DEF w
<1>7. \A i \in 1 .. Len(w) : Len(s) - Len(w) + i \in 1 .. Len(s)
  BY <1>3, <1>5
<1>8. \A i \in 1 .. Len(w) : w[i] = (pushed + 1) - Len(w) + i
  <2> SUFFICES ASSUME NEW i \in 1 .. Len(w)
               PROVE  w[i] = (pushed + 1) - Len(w) + i
    OBVIOUS
  <2> DEFINE j == Len(s) - Len(w) + i
  <2>1. j \in 1 .. Len(s) /\ w[i] = s[j]
    BY <1>5, <1>7
  <2>2. s[j] = (pushed + 1) - Len(s) + j
    BY <1>3, <2>1
  <2> QED
    BY <1>1, <1>3, <1>5, <2>1, <2>2
<1>9. DOMAIN w = 1 .. Len(w) /\ Len(w) \in Nat /\ Len(window) \in Nat
  BY <1>1, <1>5
<1>10. w # <<>> /\ Len(w) <= pushed + 1 /\ pushed + 1 \in Nat /\ stream.cursor <= pushed + 1
  BY <1>1, <1>3, <1>5, <1>9
<1>11. \A i \in DOMAIN window' : window'[i] = pushed' - Len(window') + i
  BY <1>6, <1>8, <1>9
<1> QED
  BY <1>5, <1>6, <1>10, <1>11

\* The list of finalized turns stays bounded.
LEMMA MarkKeepsFinalized ==
  ASSUME WinInv, NEW t \in Nat, MarkTurnFinalized(t)
  PROVE  finalized' \in Seq(Nat) /\ Len(finalized') <= FinalCap
<1>1. finalized \in Seq(Nat) /\ FinalCap \in Nat
  BY WindowAssumption DEF WinInv
<1>2. RemoveFirst(finalized, t) \in Seq(Nat)
  BY <1>1, RemoveFirstTyped
<1> DEFINE s == Append(RemoveFirst(finalized, t), t)
<1>3. s \in Seq(Nat)
  BY <1>2
<1>4. finalized' = Newest(s, FinalCap)
  BY DEF MarkTurnFinalized
<1> HIDE DEF s
<1> QED
  BY <1>1, <1>3, <1>4, NewestIsLast

\* Ingesting a chat turn keeps the window.
LEMMA IngestKeepsWindow ==
  ASSUME WinInv, NEW t \in Nat, IngestChatTurn(t)
  PROVE  WinInv'
<1>1. /\ window' \in Seq(Nat) /\ pushed' \in Nat /\ Len(window') <= pushed'
      /\ Len(window') <= WindowCap /\ window' # <<>>
      /\ \A i \in DOMAIN window' : window'[i] = pushed' - Len(window') + i
      /\ stream' = stream /\ stream.cursor <= pushed'
  BY PushKeepsWindow DEF IngestChatTurn, AddEvent
<1>2. finalized' \in Seq(Nat) /\ Len(finalized') <= FinalCap
  BY MarkKeepsFinalized DEF IngestChatTurn
<1> QED
  BY <1>1, <1>2 DEF WinInv, WindowTypeOK

\* So does leaving it alone.
LEMMA UnchangedWindow ==
  ASSUME WinInv, UNCHANGED winVars
  PROVE  WinInv'
BY DEF WinInv, WindowTypeOK, winVars

\* What follows an event ends with the last event there is, or is nothing because
\* that event is the last.
LEMMA SinceIsLast ==
  ASSUME WinInv, NEW c \in Nat
  PROVE  /\ EventsSince(c) # <<>> => Last(EventsSince(c)) = pushed
         /\ EventsSince(c) = <<>> => c = pushed \/ pushed = 0
<1> DEFINE new == EventsSince(c)
           i == CHOOSE j \in 1 .. Len(window) : window[j] = c
<1>w. /\ window \in Seq(Nat) /\ pushed \in Nat /\ (window = <<>> => pushed = 0)
      /\ \A k \in 1 .. Len(window) : window[k] = pushed - Len(window) + k
  BY DEF WinInv, WindowTypeOK
<1>l. window # <<>> => Last(window) = pushed
  BY <1>w DEF Last
<1>1. CASE Contains(window, c)
  <2>1. \E j \in 1 .. Len(window) : window[j] = c
    BY <1>1, <1>w DEF Contains
  <2>2. i \in 1 .. Len(window) /\ window[i] = c
    BY <2>1
  <2>3. new = SubSeq(window, i + 1, Len(window))
    BY <1>1 DEF EventsSince
  <2> HIDE DEF i
  <2>4. CASE i = Len(window)
    BY <1>w, <2>1, <2>2, <2>3, <2>4
  <2>5. CASE i # Len(window)
    <3>1. i + 1 \in 1 .. Len(window) + 1 /\ Len(window) \in Nat
      BY <2>2, <2>5, <1>w
    <3>2. /\ new \in Seq(Nat) /\ Len(new) = Len(window) - i
          /\ new[Len(window) - i] = window[Len(window)]
      <4> DEFINE m == i + 1
                 n == Len(window)
      <4>1. m \in 1 .. n + 1 /\ n \in m - 1 .. n /\ m - 1 = i
        BY <3>1, <2>2
      <4> HIDE DEF m
      <4>2. /\ SubSeq(window, m, n) \in Seq(Nat)
            /\ Len(SubSeq(window, m, n)) = IF m <= n THEN n - m + 1 ELSE 0
            /\ \A k \in 1 .. n - m + 1 : SubSeq(window, m, n)[k] = window[m + k - 1]
        BY <1>w, <4>1, SubSeqProperties, SMTT(40)
      <4>3. n - m + 1 \in 1 .. n - m + 1 /\ m + (n - m + 1) - 1 = n /\ n - m + 1 = n - i /\ m <= n
        BY <4>1, <2>5, <2>2, <1>w
      <4>4. SubSeq(window, m, n)[n - i] = window[n]
        BY <4>2, <4>3
      <4> QED
        BY <4>2, <4>3, <4>4, <2>3 DEF m
    <3>3. window # <<>> /\ Len(window) - i > 0
      BY <2>2, <2>5, <1>w
    <3>4. new # <<>> /\ Last(new) = window[Len(window)]
      BY <3>2, <3>3 DEF Last
    <3>5. window[Len(window)] = pushed
      BY <1>l, <3>3 DEF Last
    <3> QED
      BY <3>4, <3>5
  <2> QED
    BY <2>4, <2>5
<1>2. CASE ~Contains(window, c)
  BY <1>2, <1>w, <1>l DEF EventsSince
<1> QED
  BY <1>1, <1>2

\* The cursor of a stream is 0 or the last event there was when it read.
LEMMA StreamKeepsWindow ==
  ASSUME WinInv, StreamStep \/ Signal \/ Subscribe \/ StreamGone
  PROVE  WinInv'
<1>1. /\ window \in Seq(Nat) /\ pushed \in Nat /\ Len(window) <= pushed
      /\ \A i \in 1 .. Len(window) : window[i] = pushed - Len(window) + i
  BY DEF WinInv, WindowTypeOK
<1>2. window # <<>> => Last(window) = pushed
  BY <1>1 DEF Last
<1>3. SUFFICES /\ DOMAIN stream' = {"at", "cursor", "token", "base"}
               /\ stream'.cursor \in {0, stream.cursor, pushed}
               /\ UNCHANGED <<window, pushed, finalized>>
  BY <1>1 DEF WinInv, WindowTypeOK
<1>4. DOMAIN stream = {"at", "cursor", "token", "base"}
  BY DEF WinInv
<1>5. CASE InitialFlush
  <2>1. stream'.cursor = IF window = <<>> THEN 0 ELSE Last(window)
    BY <1>4, <1>5 DEF InitialFlush
  <2>2. DOMAIN stream' = {"at", "cursor", "token", "base"}
    BY <1>4, <1>5 DEF InitialFlush
  <2> QED
    BY <1>2, <1>5, <2>1, <2>2 DEF InitialFlush
<1>6. CASE WriteNew
  <2> DEFINE c == stream.cursor
             new == EventsSince(c)
  <2>1. new # <<>> => Last(new) = pushed
    BY SinceIsLast DEF WinInv
  <2>2. stream' = [stream EXCEPT !.at = "loop", !.cursor = IF new = <<>> THEN c ELSE Last(new)]
    BY <1>4, <1>6 DEF WriteNew
  <2> HIDE DEF new
  <2>3. stream'.cursor = IF new = <<>> THEN c ELSE Last(new)
    BY <1>4, <2>2
  <2>4. DOMAIN stream' = {"at", "cursor", "token", "base"}
    BY <1>4, <2>2
  <2> QED
    BY <1>6, <2>1, <2>3, <2>4 DEF WriteNew
<1>7. CASE DrainWake \/ TakeWake \/ Signal \/ Subscribe
  BY <1>4, <1>7 DEF DrainWake, TakeWake, Signal, Subscribe
<1>8. CASE StreamGone
  BY <1>8 DEF StreamGone, NoStream
<1> QED
  BY <1>5, <1>6, <1>7, <1>8 DEF StreamStep


\* The inductive invariant.
Inv == /\ WinInv /\ LinkTypes /\ LinkInv /\ PeerTypes /\ MeshInv /\ CertInv /\ RegInv
       /\ WireInv /\ AckInv

-----------------------------------------------------------------------------
(* Calls *)

\* What a call leaves behind: the caller waits, with its request under way or
\* with none on a dead connection, or has an error at once.
LEMMA CallEffect ==
  ASSUME LinkTypes, LinkInv, NEW a \in Actors, NEW kind \in Tags, NEW n \in Turns,
         Call(a, kind, n)
  PROVE  /\ calls' \in [Actors -> Results]
         /\ calls'[a].st \in {"wait", "err"}
         /\ \A b \in Actors : b # a => calls'[b] = calls[b]
         /\ out' \in Seq(Frames) /\ (app # "up" => out' = <<>>)
         /\ \/ out' = Append(out, Frame(kind, a, n, 0)) /\ app = "up" /\ calls'[a].st = "wait"
            \/ out' = out /\ app # "up"
         /\ Frame(kind, a, n, 0) \in Frames
<1>1. Result("wait", 0, 0) \in Results /\ Result("err", 0, 0) \in Results
  BY BridgeAssumption DEF Result, Results, Turns
<1>2. Frame(kind, a, n, 0) \in Frames
  BY BridgeAssumption DEF Frame, Frames, Turns
<1>3. Append(out, Frame(kind, a, n, 0)) \in Seq(Frames)
  BY <1>2 DEF LinkTypes
<1>4. \/ calls' = [calls EXCEPT ![a] = Result("wait", 0, 0)]
      \/ calls' = [calls EXCEPT ![a] = Result("err", 0, 0)]
  BY DEF Call, Written, Refused
<1>5. /\ calls' \in [Actors -> Results]
      /\ \A b \in Actors : b # a => calls'[b] = calls[b]
  BY <1>1, <1>4 DEF LinkTypes
<1>6. calls'[a].st \in {"wait", "err"}
  BY <1>4 DEF LinkTypes, Result
<1>7. Written(a, kind, n) => calls'[a].st = "wait"
  BY DEF Written, LinkTypes, Result
<1>8. \/ out' = Append(out, Frame(kind, a, n, 0)) /\ app = "up" /\ calls'[a].st = "wait"
      \/ out' = out /\ app # "up"
  BY <1>7 DEF Call, Written, Refused
<1> QED
  BY <1>2, <1>3, <1>5, <1>6, <1>8 DEF LinkTypes, LinkInv

\* A call that returned is no longer in progress; the others stay.
LEMMA ReturnEffect ==
  ASSUME LinkTypes, NEW a \in Actors, Returned(a)
  PROVE  /\ calls' \in [Actors -> Results]
         /\ calls'[a].st = "none"
         /\ \A b \in Actors : b # a => calls'[b] = calls[b]
<1>1. Result("none", 0, 0) \in Results
  BY BridgeAssumption DEF Result, Results, Turns
<1> QED
  BY <1>1 DEF LinkTypes, Returned, Result

\* The bridge's goroutines make calls.
LEMMA Callers == "main" \in Actors /\ "mesh" \in Actors /\ "cap" \in Actors /\ "disc" \in Actors
BY DEF Actors

\* Turns are numbers from zero on.
LEMMA TurnZero == 0 \in Turns /\ 1 \in Turns /\ Turns \subseteq Nat
BY BridgeAssumption DEF Turns

-----------------------------------------------------------------------------
(* The window is kept by every step *)

\* What a step may do to the window: ingest a turn, check or add a delta, signal or
\* move its follower.
WindowMove ==
  \/ \E t \in Nat : IngestChatTurn(t) \/ DeltaChecked(t)
  \/ DeltaAdded
  \/ StreamStep \/ Signal \/ Subscribe \/ StreamGone

\* Every step does one of these, or leaves the window alone.
LEMMA WindowMoves ==
  ASSUME Inv, Next
  PROVE  WindowMove \/ UNCHANGED winVars
<1> USE DEF Inv
<1>1. SUFFICES ASSUME ~UNCHANGED winVars
               PROVE  WindowMove
  OBVIOUS
<1>2. CASE Main
  BY <1>1, <1>2 DEF Main, MainConnects, MainHello, MainInit, MainList, MainListed, MainRead,
                    MainServe, MainCloses, MainClears
<1>3. CASE Mesh
  BY <1>1, <1>3 DEF Mesh, MeshRestore, MeshRegister, MeshPersist, MeshContext, MeshInjected,
                    MeshDial, MeshTakes, MeshSteered, MeshStarted, MeshReconnects
<1>4. CASE Discover \/ SrvServe \/ ReaderFinishes \/ ReaderFails \/ CaptureFinishes
  BY <1>1, <1>4 DEF Discover, DiscoverReturns, SrvServe, ReaderFinishes, ReaderFails, CaptureFinishes
<1>5. CASE CaptureReads
  <2> DEFINE t == calls["cap"].d
  <2>1. IngestChatTurn(t)
    BY <1>1, <1>5 DEF CaptureReads, FinishBegins
  <2>2. t \in Turns
    BY Callers DEF LinkTypes, Results
  <2> HIDE DEF t
  <2> QED
    BY <2>1, <2>2, TurnZero DEF WindowMove
<1>6. CASE ReaderTakes
  <2> DEFINE t == Head(wire).n
  <2>1. IngestChatTurn(t)
    BY <1>1, <1>6 DEF ReaderTakes, ReaderReply, ReaderStarted, ReaderStatus, ReaderTurn, ReaderItem,
       ReaderCompleted, ReaderClosed, PostChatItem, FinishBegins
  <2>2. Head(wire) \in Frames
    BY <1>6, TailFrames DEF ReaderTakes, LinkTypes
  <2>3. t \in Turns
    BY <2>2 DEF Frames
  <2> HIDE DEF t
  <2> QED
    BY <2>1, <2>3, TurnZero DEF WindowMove
<1>7. CASE Follow \/ Watch \/ Leave \/ HookAdds
  BY <1>7 DEF Follow, Watch, Leave, HookAdds, WindowMove
<1>8. CASE HookPosts
  <2>1. MaxTurns + 1 \in Nat
    BY BridgeAssumption
  <2>2. IngestChatTurn(MaxTurns + 1) \/ DeltaChecked(MaxTurns + 1)
    BY <1>8 DEF HookPosts
  <2> QED
    BY <2>1, <2>2 DEF WindowMove
<1>9. CASE Environment /\ ~HookPosts /\ ~HookAdds /\ ~Watch /\ ~Leave
  BY <1>1, <1>9 DEF Environment, SrvOpen, SrvClose, SrvTurn, SrvComplete, AppLost, CallTimeout,
     Deliver, MeshLost, Crash, Expire, Fate, Unregister, Demote
<1> QED
  BY <1>2, <1>3, <1>4, <1>5, <1>6, <1>7, <1>8, <1>9 DEF Next, Reader, Capture

\* Every step keeps the window.
LEMMA WindowStep ==
  ASSUME Inv, Next
  PROVE  WinInv'
<1>1. WinInv
  BY DEF Inv
<1>2. ASSUME NEW t \in Nat, IngestChatTurn(t)
      PROVE  WinInv'
  BY <1>1, <1>2, IngestKeepsWindow
<1>3. ASSUME NEW t \in Nat, DeltaChecked(t)
      PROVE  WinInv'
  BY <1>1, <1>3 DEF DeltaChecked, WinInv, WindowTypeOK
<1>4. CASE DeltaAdded
  <2>1. Push /\ finalized' = finalized
    BY <1>4 DEF DeltaAdded, AddEvent
  <2> QED
    BY <1>1, <2>1, PushKeepsWindow DEF WinInv, WindowTypeOK
<1>5. CASE StreamStep \/ Signal \/ Subscribe \/ StreamGone
  BY <1>1, <1>5, StreamKeepsWindow
<1> QED
  BY <1>1, <1>2, <1>3, <1>4, <1>5, WindowMoves, UnchangedWindow DEF WindowMove


-----------------------------------------------------------------------------
(* The connection is kept by every step *)

\* A request is answered to its caller, after at most one notification.
LEMMA ServeEffect ==
  ASSUME Inv, SrvServe
  PROVE  \E w \in {wire} \cup {Append(wire, Frame("turn", "nobody", srv.done + 1, 0))}, g \in Frames :
           /\ w \in Seq(Frames)
           /\ w # wire => Frame("turn", "nobody", srv.done + 1, 0) \in Frames
           /\ wire' = Append(w, g)
           /\ g.by = Head(out).by /\ g.t \in {"ok", "err"}
           /\ g.t = "ok" /\ Head(out).t \in {"steer", "start"} => got' = TRUE
           /\ srv' \in [init : BOOLEAN, open : BOOLEAN, turn : Turns, done : Turns]
<1> DEFINE r      == Head(out)
           ok     == \/ r.t = "initialize"
                     \/ /\ srv.init
                        /\ r.t = "list" \/ srv.open
                        /\ r.t = "steer" => srv.turn # 0 /\ srv.turn = r.n
           begins == ok /\ r.t = "start" /\ srv.turn = 0 /\ srv.done < MaxTurns
           g0     == Frame(IF ok THEN "ok" ELSE "err", r.by, srv.turn, srv.done)
           g      == [g0 EXCEPT !.n = IF r.t = "list" THEN (IF srv.open THEN 1 ELSE 0) ELSE @]
           f      == Frame("turn", "nobody", srv.done + 1, 0)
           u      == IF begins THEN <<f>> ELSE <<>>
           w      == IF begins THEN Append(wire, f) ELSE wire
<1>1. /\ srv \in [init : BOOLEAN, open : BOOLEAN, turn : Turns, done : Turns]
      /\ wire \in Seq(Frames) /\ r \in Frames
  <2>1. LinkTypes
    BY DEF Inv
  <2>2. out # <<>>
    BY DEF SrvServe
  <2>3. srv \in [init : BOOLEAN, open : BOOLEAN, turn : Turns, done : Turns]
        /\ wire \in Seq(Frames) /\ out \in Seq(Frames)
    BY <2>1 DEF LinkTypes
  <2> QED
    BY <2>2, <2>3, TailFrames
<1>2. /\ srv' = [srv EXCEPT !.init = @ \/ r.t = "initialize",
                            !.turn = IF begins THEN srv.done + 1 ELSE @]
      /\ wire' = (wire \o u) \o <<g>>
      /\ got' = (got \/ (ok /\ r.t \in {"steer", "start"}))
  BY DEF SrvServe
<1>3. begins => srv.done + 1 \in Turns
  BY <1>1, BridgeAssumption DEF Turns
<1>4. srv' \in [init : BOOLEAN, open : BOOLEAN, turn : Turns, done : Turns]
  <2> HIDE DEF begins, r
  <2>1. CASE begins
    BY <1>1, <1>2, <1>3, <2>1
  <2>2. CASE ~begins
    BY <1>1, <1>2, <2>2
  <2> QED
    BY <2>1, <2>2
<1>5. begins => f \in Frames
  <2>1. \A k \in Turns : [t |-> "turn", by |-> "nobody", n |-> k, d |-> 0] \in Frames
    BY TurnZero DEF Frames, Tags
  <2>2. f = [t |-> "turn", by |-> "nobody", n |-> srv.done + 1, d |-> 0]
    BY DEF Frame
  <2> HIDE DEF begins, f
  <2> QED
    BY <1>3, <2>1, <2>2
<1>6. g0 = [t |-> IF ok THEN "ok" ELSE "err", by |-> r.by, n |-> srv.turn, d |-> srv.done]
  BY DEF Frame
<1>7. g0 \in Frames /\ g0.by = r.by /\ g0.t = (IF ok THEN "ok" ELSE "err")
  <2> HIDE DEF ok, g0
  <2>1. r.by \in Actors \cup {"nobody"} /\ srv.turn \in Turns /\ srv.done \in Turns
    BY <1>1 DEF Frames
  <2> DEFINE x == IF ok THEN "ok" ELSE "err"
             c == r.by
             k == srv.turn
             m == srv.done
  <2>2. x \in Tags
    BY DEF Tags
  <2>3. g0 = [t |-> x, by |-> c, n |-> k, d |-> m]
    BY <1>6
  <2> HIDE DEF r, x, c, k, m
  <2>4. g0 \in Frames /\ g0.by = c /\ g0.t = x
    BY <2>1, <2>2, <2>3 DEF Frames, c, k, m
  <2> QED
    BY <2>4 DEF x, c
<1>8. g \in Frames /\ g.by = r.by /\ g.t = (IF ok THEN "ok" ELSE "err")
  <2> HIDE DEF ok, g0, r
  <2> QED
    BY <1>1, <1>7, TurnZero DEF Frames
<1>9. ok /\ r.t \in {"steer", "start"} => got' = TRUE
  BY <1>2
<1> HIDE DEF g, begins, ok, g0, f
<1>10. w \in Seq(Frames) /\ wire \o u = w
  <2>1. CASE begins
    BY <1>1, <1>5, <2>1
  <2>2. CASE ~begins
    BY <1>1, <2>2
  <2> QED
    BY <2>1, <2>2
<1>11. w \in {wire} \cup {Append(wire, f)} /\ (w # wire => f \in Frames)
  BY <1>5
<1> HIDE DEF w, u
<1>12. w \o <<g>> = Append(w, g)
  BY <1>8, <1>10
<1>13. wire' = Append(w, g)
  BY <1>2, <1>10, <1>12
<1> QED
  <2>1. g.t = "ok" /\ Head(out).t \in {"steer", "start"} => got' = TRUE
    BY <1>8, <1>9
  <2>2. g.by = Head(out).by /\ g.t \in {"ok", "err"}
    BY <1>8
  <2> QED
    BY <1>4, <1>8, <1>10, <1>11, <1>13, <2>1, <2>2 DEF f

\* Notifications reach a reader that has shaken hands, and have no caller.
LEMMA NotifyEffect ==
  ASSUME Inv, NEW u \in Seq(Frames), \A i \in DOMAIN u : u[i].by = "nobody", Notified(u)
  PROVE  /\ wire' \in Seq(Frames) /\ (app # "up" => wire' = <<>>)
         /\ (None(wire) => None(wire'))
         /\ (AtMostOne(wire) => AtMostOne(wire'))
         /\ (NoOk(wire) => NoOk(wire'))
<1>1. wire \in Seq(Frames) /\ srv \in [init : BOOLEAN, open : BOOLEAN, turn : Turns, done : Turns]
  BY DEF Inv, LinkTypes
<1>2. CASE srv.init
  BY <1>1, <1>2, ConcatFrames DEF Notified, Inv, LinkInv
<1>3. CASE ~srv.init
  BY <1>1, <1>3 DEF Notified, Inv, LinkInv
<1> QED
  BY <1>2, <1>3

\* The frames a notification is made of.
LEMMA NobodyFrames ==
  ASSUME NEW t \in Tags, NEW n \in Turns
  PROVE  /\ Frame(t, "nobody", n, 0) \in Frames
         /\ <<Frame(t, "nobody", n, 0)>> \in Seq(Frames)
         /\ \A i \in DOMAIN <<Frame(t, "nobody", n, 0)>> : <<Frame(t, "nobody", n, 0)>>[i].by = "nobody"
<1>1. Frame(t, "nobody", n, 0) \in Frames /\ Frame(t, "nobody", n, 0).by = "nobody"
  BY TurnZero DEF Frame, Frames
<1> QED
  BY <1>1


\* Leaving the app server's link alone keeps it sound.
LEMMA UnchangedLink ==
  ASSUME Inv, UNCHANGED appVars
  PROVE  LinkTypes' /\ LinkInv'
BY DEF Inv, LinkTypes, LinkInv, appVars

\* The answer to a caller says how many turns there are.
LEMMA ResultTyped ==
  ASSUME NEW f \in Frames, f.t \in {"ok", "err"}
  PROVE  Result(f.t, f.n, f.d) \in Results /\ Result(f.t, f.n, f.d).st = f.t
BY DEF Result, Results, Frames

\* What happens to the thread is announced to a reader that has shaken hands.
LEMMA ServerNotifies ==
  ASSUME Inv, SrvOpen \/ SrvClose \/ SrvTurn \/ SrvComplete
  PROVE  /\ wire' \in Seq(Frames) /\ (app # "up" => wire' = <<>>)
         /\ (None(wire) => None(wire'))
         /\ (AtMostOne(wire) => AtMostOne(wire'))
         /\ (NoOk(wire) => NoOk(wire'))
         /\ srv' \in [init : BOOLEAN, open : BOOLEAN, turn : Turns, done : Turns]
         /\ srv'.init = srv.init
         /\ UNCHANGED <<app, main, reader, rturn, out, calls, missed, peerVars, winVars>>
<1> DEFINE S == [init : BOOLEAN, open : BOOLEAN, turn : Turns, done : Turns]
           Notifies == /\ wire' \in Seq(Frames) /\ (app # "up" => wire' = <<>>)
                       /\ (None(wire) => None(wire'))
                       /\ (AtMostOne(wire) => AtMostOne(wire'))
                       /\ (NoOk(wire) => NoOk(wire'))
<1>1. srv \in S /\ wire \in Seq(Frames)
  BY DEF Inv, LinkTypes
<1>3. CASE SrvOpen
  <2>1. PICK t \in {"started", "idle"} : Notified(<<Frame(t, "nobody", 0, 0)>>)
    BY <1>3 DEF SrvOpen
  <2>2. t \in Tags
    BY DEF Tags
  <2>3. Notifies
    BY <2>1, <2>2, TurnZero, NobodyFrames, NotifyEffect
  <2>4. srv' \in S /\ srv'.init = srv.init
    BY <1>1, <1>3 DEF SrvOpen
  <2> QED
    BY <1>3, <2>3, <2>4 DEF SrvOpen
<1>4. CASE SrvClose
  <2>2. "closed" \in Tags
    BY DEF Tags
  <2>3. Notifies
    BY <1>4, <2>2, TurnZero, NobodyFrames, NotifyEffect DEF SrvClose
  <2>4. srv' \in S /\ srv'.init = srv.init
    BY <1>1, <1>4, TurnZero DEF SrvClose
  <2> QED
    BY <1>4, <2>3, <2>4 DEF SrvClose
<1>5. CASE SrvTurn
  <2> DEFINE f == Frame("active", "nobody", 0, 0)
             g == Frame("turn", "nobody", srv.done + 1, 0)
  <2>1. srv.done + 1 \in Turns
    BY <1>1, <1>5, BridgeAssumption DEF SrvTurn, Turns
  <2>2. f \in Frames /\ g \in Frames
    BY <2>1, TurnZero, NobodyFrames DEF Tags
  <2>3. f.by = "nobody" /\ g.by = "nobody"
    BY DEF Frame
  <2> DEFINE u == <<f, g>>
  <2>4. Notified(u)
    BY <1>5 DEF SrvTurn
  <2> HIDE DEF f, g
  <2>7. u \in Seq(Frames) /\ \A i \in DOMAIN u : u[i].by = "nobody"
    BY <2>2, <2>3
  <2> HIDE DEF u
  <2>5. Notifies
    BY <2>4, <2>7, NotifyEffect
  <2>6. srv' \in S /\ srv'.init = srv.init
    BY <1>1, <1>5, <2>1 DEF SrvTurn
  <2> QED
    BY <1>5, <2>5, <2>6 DEF SrvTurn
<1>6. CASE SrvComplete
  <2> DEFINE f == Frame("item", "nobody", srv.turn, 0)
             g == Frame("completed", "nobody", srv.turn, 0)
             h == Frame("idle", "nobody", 0, 0)
  <2>1. srv.turn \in Turns
    BY <1>1
  <2>2. f \in Frames /\ g \in Frames /\ h \in Frames
    BY <2>1, TurnZero, NobodyFrames DEF Tags
  <2>3. f.by = "nobody" /\ g.by = "nobody" /\ h.by = "nobody"
    BY DEF Frame
  <2> DEFINE u == <<f, g, h>>
  <2>4. Notified(u)
    BY <1>6 DEF SrvComplete
  <2> HIDE DEF f, g, h
  <2>7. u \in Seq(Frames) /\ \A i \in DOMAIN u : u[i].by = "nobody"
    BY <2>2, <2>3
  <2> HIDE DEF u
  <2>5. Notifies
    BY <2>4, <2>7, NotifyEffect
  <2>6. srv' \in S /\ srv'.init = srv.init
    BY <1>1, <1>6, TurnZero DEF SrvComplete
  <2> QED
    BY <1>6, <2>5, <2>6 DEF SrvComplete
<1> QED
  BY <1>3, <1>4, <1>5, <1>6

\* The app server's steps keep the link sound.
LEMMA ServerLinkStep ==
  ASSUME Inv, SrvServe \/ SrvOpen \/ SrvClose \/ SrvTurn \/ SrvComplete
  PROVE  LinkTypes' /\ LinkInv'
<1> DEFINE S == [init : BOOLEAN, open : BOOLEAN, turn : Turns, done : Turns]
<1>1. srv \in S /\ out \in Seq(Frames) /\ wire \in Seq(Frames)
  BY DEF Inv, LinkTypes
<1>2. CASE SrvServe
  <2>1. out # <<>> /\ out' = Tail(out) /\ UNCHANGED <<app, main, reader, rturn, calls>>
    BY <1>2 DEF SrvServe
  <2>2. app = "up"
    BY <2>1 DEF Inv, LinkInv
  <2>3. out' \in Seq(Frames)
    BY <1>1, <2>1, TailFrames
  <2>4. wire' \in Seq(Frames) /\ srv' \in S
    BY <1>2, ServeEffect, AppendFrames
  <2> QED
    BY <2>1, <2>2, <2>3, <2>4 DEF Inv, LinkTypes, LinkInv
<1>3. CASE SrvOpen \/ SrvClose \/ SrvTurn \/ SrvComplete
  BY <1>3, ServerNotifies DEF Inv, LinkTypes, LinkInv
<1> QED
  BY <1>2, <1>3

\* The reader's steps keep the link sound.
LEMMA ReaderLinkStep ==
  ASSUME Inv, Reader
  PROVE  LinkTypes' /\ LinkInv'
<1>1. /\ out \in Seq(Frames) /\ wire \in Seq(Frames) /\ calls \in [Actors -> Results]
      /\ rturn \in Turns /\ LinkTypes /\ LinkInv
  BY DEF Inv, LinkTypes
<1>2. CASE ReaderFinishes
  BY <1>2, TurnZero DEF ReaderFinishes, Inv, LinkTypes, LinkInv
<1>3. CASE ReaderFails
  <2>1. Result("err", 0, 0) \in Results
    BY TurnZero DEF Result, Results
  <2>2. calls' \in [Actors -> Results]
    BY <1>1, <1>3, <2>1 DEF ReaderFails, FailPending
  <2>3. calls["main"].st = "none" => calls'["main"] = calls["main"]
    BY <1>3, Callers DEF ReaderFails, FailPending
  <2> QED
    BY <1>3, <2>2, <2>3 DEF ReaderFails, Inv, LinkTypes, LinkInv
<1>4. CASE ReaderTakes
  <2> DEFINE f == Head(wire)
  <2>1. wire # <<>> /\ f \in Frames /\ Tail(wire) \in Seq(Frames) /\ app = "up" /\ reader = "run"
    BY <1>1, <1>4, TailFrames DEF ReaderTakes, LinkInv
  <2>2. wire' \in Seq(Frames) /\ UNCHANGED <<srv, app, main>>
    BY <1>4, <2>1, Callers, DisownedFrames DEF ReaderTakes
  <2>3. SUFFICES /\ out' \in Seq(Frames) /\ calls' \in [Actors -> Results]
                 /\ reader' \in {"run", "finish"} /\ rturn' \in Turns
                 /\ calls["main"].st = "none" => calls'["main"].st = "none"
    BY <2>1, <2>2 DEF Inv, LinkTypes, LinkInv
  <2>4. CASE ReaderReply
    <3>1. UNCHANGED <<reader, rturn, out>>
      BY <2>4 DEF ReaderReply
    <3>2. CASE f.by \in Actors /\ calls[f.by].st = "wait"
      <4>1. calls' = [calls EXCEPT ![f.by] = Result(f.t, f.n, f.d)] /\ f.t \in {"ok", "err"}
        BY <2>4, <3>2 DEF ReaderReply
      <4>2. Result(f.t, f.n, f.d) \in Results
        BY <2>1, <4>1, ResultTyped
      <4> QED
        BY <1>1, <2>1, <3>1, <3>2, <4>1, <4>2
    <3>3. CASE ~(f.by \in Actors /\ calls[f.by].st = "wait")
      BY <1>1, <2>1, <2>4, <3>1, <3>3 DEF ReaderReply
    <3> QED
      BY <3>2, <3>3
  <2>5. CASE ReaderStarted \/ ReaderTurn \/ ReaderItem
    BY <1>1, <2>1, <2>5 DEF ReaderStarted, ReaderTurn, ReaderItem
  <2>6. CASE ReaderStatus
    <3>1. "turns" \in Tags /\ "read" \in Tags
      BY DEF Tags
    <3>2. \/ Call("cap", "turns", 0) \/ Call("disc", "read", 0) \/ UNCHANGED <<calls, out>>
      BY <2>6 DEF ReaderStatus
    <3>3. UNCHANGED <<reader, rturn>>
      BY <2>6 DEF ReaderStatus
    <3>4. CASE Call("cap", "turns", 0)
      BY <1>1, <2>1, <3>1, <3>3, <3>4, Callers, TurnZero, CallEffect
    <3>5. CASE Call("disc", "read", 0)
      BY <1>1, <2>1, <3>1, <3>3, <3>5, Callers, TurnZero, CallEffect
    <3> QED
      BY <1>1, <2>1, <3>2, <3>3, <3>4, <3>5
  <2>7. CASE ReaderCompleted
    <3>1. f.n \in Turns
      BY <2>1 DEF Frames
    <3> QED
      BY <1>1, <2>1, <2>7, <3>1 DEF ReaderCompleted
  <2>8. CASE ReaderClosed
    <3>1. CASE p.on
      <4>1. out' = Disowned("mesh", out) /\ calls' = [calls EXCEPT !["mesh"] = Result("none", 0, 0)]
        BY <2>8, <3>1 DEF ReaderClosed, CloseThread
      <4>2. Result("none", 0, 0) \in Results
        BY TurnZero DEF Result, Results
      <4>3. out' \in Seq(Frames)
        BY <1>1, <4>1, Callers, DisownedFrames
      <4> QED
        BY <1>1, <2>1, <2>8, <4>1, <4>2, <4>3, Callers DEF ReaderClosed
    <3>2. CASE ~p.on
      BY <1>1, <2>1, <2>8, <3>2 DEF ReaderClosed
    <3> QED
      BY <3>1, <3>2
  <2> QED
    BY <1>4, <2>4, <2>5, <2>6, <2>7, <2>8 DEF ReaderTakes
<1> QED
  BY <1>2, <1>3, <1>4 DEF Reader


\* The main loop's steps keep the link sound.
LEMMA MainLinkStep ==
  ASSUME Inv, Main
  PROVE  LinkTypes' /\ LinkInv'
<1>1. LinkTypes /\ LinkInv /\ "main" \in Actors
  BY Callers DEF Inv
<1>2. srv \in [init : BOOLEAN, open : BOOLEAN, turn : Turns, done : Turns]
  BY <1>1 DEF LinkTypes
<1>3. "initialize" \in Tags /\ "list" \in Tags /\ "read" \in Tags /\ 0 \in Turns
  BY TurnZero DEF Tags
<1>4. CASE MainConnects
  <2>1. srv' \in [init : BOOLEAN, open : BOOLEAN, turn : Turns, done : Turns] /\ srv'.init = FALSE
    BY <1>2, <1>4 DEF MainConnects
  <2> QED
    BY <1>1, <1>4, <2>1, EmptyFrames DEF MainConnects, LinkTypes, LinkInv
<1>5. CASE MainHello
  BY <1>1, <1>3, <1>5, CallEffect DEF MainHello, LinkTypes, LinkInv
<1>6. CASE MainInit
  <2>1. Returned("main") /\ main' \in {"close", "load"}
    BY <1>6 DEF MainInit
  <2> QED
    BY <1>1, <1>6, <2>1, ReturnEffect DEF MainInit, LinkTypes, LinkInv
<1>7. CASE MainList
  BY <1>1, <1>3, <1>7, CallEffect DEF MainList, LinkTypes, LinkInv
<1>8. CASE MainListed
  <2>1. CASE Call("main", "read", 0) /\ main' = "read"
    BY <1>1, <1>3, <1>8, <2>1, CallEffect DEF MainListed, LinkTypes, LinkInv
  <2>2. CASE Returned("main") /\ main' = "serve" /\ UNCHANGED out
    BY <1>1, <1>8, <2>2, ReturnEffect DEF MainListed, LinkTypes, LinkInv
  <2> QED
    BY <1>8, <2>1, <2>2 DEF MainListed
<1>9. CASE MainRead
  BY <1>1, <1>9, ReturnEffect DEF MainRead, LinkTypes, LinkInv
<1>10. CASE MainServe
  BY <1>1, <1>10 DEF MainServe, LinkTypes, LinkInv
<1>11. CASE MainCloses
  <2>1. srv' \in [init : BOOLEAN, open : BOOLEAN, turn : Turns, done : Turns] /\ srv'.init = FALSE
    BY <1>2, <1>11 DEF MainCloses
  <2> QED
    BY <1>1, <1>11, <2>1, EmptyFrames DEF MainCloses, LinkTypes, LinkInv
<1>12. CASE MainClears
  BY <1>1, <1>12 DEF MainClears, ClearApp, LinkTypes, LinkInv
<1> QED
  BY <1>4, <1>5, <1>6, <1>7, <1>8, <1>9, <1>10, <1>11, <1>12 DEF Main

\* Every step keeps the link sound.
LEMMA LinkStep ==
  ASSUME Inv, Next
  PROVE  LinkTypes' /\ LinkInv'
<1>1. LinkTypes /\ LinkInv /\ "main" \in Actors /\ "mesh" \in Actors /\ "mesh" # "main"
  BY Callers DEF Inv
<1>2. "inject_items" \in Tags /\ "steer" \in Tags /\ "start" \in Tags /\ 0 \in Turns /\ p.active \in Turns
  BY TurnZero DEF Tags, Inv, PeerTypes, Peers
<1>3. CASE Main
  BY <1>3, MainLinkStep
<1>4. CASE Reader
  BY <1>4, ReaderLinkStep
<1>5. CASE SrvServe \/ SrvOpen \/ SrvClose \/ SrvTurn \/ SrvComplete
  BY <1>5, ServerLinkStep
<1>6. CASE MeshRestore \/ MeshRegister \/ MeshPersist \/ MeshDial \/ MeshReconnects \/ CaptureFinishes
  BY <1>6, UnchangedLink DEF MeshRestore, MeshRegister, MeshPersist, MeshDial, MeshReconnects, CaptureFinishes
<1>7. CASE MeshContext
  <2>1. CASE UNCHANGED <<calls, out>>
    BY <1>1, <1>7, <2>1 DEF MeshContext, LinkTypes, LinkInv
  <2>2. CASE Call("mesh", "inject_items", 0)
    <3>1. UNCHANGED <<srv, app, main, reader, rturn, wire>>
      BY <1>7 DEF MeshContext
    <3>2. /\ calls' \in [Actors -> Results] /\ calls'["main"] = calls["main"]
          /\ out' \in Seq(Frames) /\ (app # "up" => out' = <<>>)
      BY <1>1, <1>2, <2>2, CallEffect
    <3> QED
      BY <1>1, <3>1, <3>2 DEF LinkTypes, LinkInv
  <2> QED
    BY <1>7, <2>1, <2>2 DEF MeshContext
<1>8. CASE MeshInjected \/ MeshStarted
  <2>1. Returned("mesh") /\ UNCHANGED <<srv, app, main, reader, rturn, out, wire>>
    BY <1>8 DEF MeshInjected, MeshStarted
  <2> QED
    BY <1>1, <2>1, ReturnEffect DEF LinkTypes, LinkInv
<1>9. CASE MeshTakes
  <2>1. Call("mesh", "steer", p.active) \/ Call("mesh", "start", 0)
    BY <1>9 DEF MeshTakes
  <2>2. UNCHANGED <<srv, app, main, reader, rturn, wire>>
    BY <1>9 DEF MeshTakes
  <2>3. /\ calls' \in [Actors -> Results] /\ calls'["main"] = calls["main"]
        /\ out' \in Seq(Frames) /\ (app # "up" => out' = <<>>)
    BY <1>1, <1>2, <2>1, CallEffect
  <2> QED
    BY <1>1, <2>2, <2>3 DEF LinkTypes, LinkInv
<1>10. CASE MeshSteered
  <2>1. \/ Returned("mesh") /\ UNCHANGED out
        \/ Call("mesh", "start", 0)
    BY <1>10 DEF MeshSteered
  <2>2. UNCHANGED <<srv, app, main, reader, rturn, wire>>
    BY <1>10 DEF MeshSteered
  <2>3. CASE Returned("mesh") /\ UNCHANGED out
    BY <1>1, <2>2, <2>3, ReturnEffect DEF LinkTypes, LinkInv
  <2>4. CASE Call("mesh", "start", 0)
    <3>1. /\ calls' \in [Actors -> Results] /\ calls'["main"] = calls["main"]
          /\ out' \in Seq(Frames) /\ (app # "up" => out' = <<>>)
      BY <1>1, <1>2, <2>4, CallEffect
    <3> QED
      BY <1>1, <2>2, <3>1 DEF LinkTypes, LinkInv
  <2> QED
    BY <2>1, <2>3, <2>4
<1>11. CASE CaptureReads \/ DiscoverReturns
  <2>1. Returned("cap") \/ Returned("disc")
    BY <1>11 DEF CaptureReads, DiscoverReturns
  <2>2. UNCHANGED <<srv, app, main, reader, rturn, out, wire>>
    BY <1>11 DEF CaptureReads, DiscoverReturns
  <2>3. calls' \in [Actors -> Results] /\ calls'["main"] = calls["main"]
    BY <1>1, <2>1, Callers, ReturnEffect
  <2> QED
    BY <1>1, <2>2, <2>3 DEF LinkTypes, LinkInv
<1>12. CASE AppLost
  <2>1. srv' \in [init : BOOLEAN, open : BOOLEAN, turn : Turns, done : Turns] /\ srv'.init = FALSE
    BY <1>1, <1>12 DEF AppLost, LinkTypes
  <2> QED
    BY <1>1, <1>12, <2>1, EmptyFrames DEF AppLost, LinkTypes, LinkInv
<1>13. CASE \E a \in Actors : CallTimeout(a)
  <2>1. PICK a \in Actors : CallTimeout(a)
    BY <1>13
  <2>2. Result("err", 0, 0) \in Results
    BY TurnZero DEF Result, Results
  <2>3. calls' \in [Actors -> Results] /\ (a # "main" => calls'["main"] = calls["main"])
    BY <1>1, <2>1, <2>2 DEF CallTimeout, LinkTypes
  <2>4. out' \in Seq(Frames) /\ wire' \in Seq(Frames) /\ (app # "up" => out' = <<>> /\ wire' = <<>>)
    BY <1>1, <2>1, DisownedFrames DEF CallTimeout, LinkTypes, LinkInv
  <2> QED
    BY <1>1, <2>1, <2>3, <2>4 DEF CallTimeout, LinkTypes, LinkInv
<1>14. CASE Crash
  <2>1. srv' \in [init : BOOLEAN, open : BOOLEAN, turn : Turns, done : Turns] /\ srv'.init = FALSE
    BY <1>1, <1>14 DEF Crash, LinkTypes
  <2>2. calls' \in [Actors -> Results] /\ calls'["main"].st = "none"
    BY <1>1, <1>14, TurnZero DEF Crash, NoCalls, Result, Results
  <2> QED
    BY <1>1, <1>14, <2>1, <2>2, EmptyFrames, TurnZero DEF Crash, LinkTypes, LinkInv
<1>15. CASE \/ Deliver \/ MeshLost \/ Expire \/ HookPosts \/ HookAdds \/ Watch \/ Leave \/ Follow
            \/ \E i \in Ids, f \in {"soft", "hard", "gone", "lost"} : Fate(i, f)
            \/ \E i \in Ids : Unregister(i) \/ Demote(i)
  BY <1>15, UnchangedLink DEF Deliver, MeshLost, Expire, HookPosts, HookAdds, Watch, Leave, Follow, Fate,
                              Unregister, Demote
<1> QED
  BY <1>3, <1>4, <1>5, <1>6, <1>7, <1>8, <1>9, <1>10, <1>11, <1>12, <1>13, <1>14, <1>15
  DEF Next, Mesh, Capture, Discover, Environment


-----------------------------------------------------------------------------
(* The thread's peer is kept by every step *)

\* What the invariant says of the bridge's peer and its certificate.
LEMMA PeerFacts ==
  ASSUME Inv
  PROVE  /\ p \in Peers /\ cap \in Caps /\ got \in BOOLEAN /\ reg \in [Ids -> RegStates]
         /\ disk \in [cert : 0 .. MaxIds, stale : BOOLEAN, ctx : BOOLEAN]
         /\ p.id \in 0 .. MaxIds /\ p.cert \in 0 .. MaxIds /\ (p.id # 0 => p.id \in Ids)
         /\ (p.cert # 0 => p.cert \in Ids) /\ MaxIds \in Nat
BY BridgeAssumption DEF Inv, PeerTypes, Peers, Caps, RegStates, Ids

\* A step that mints nothing and keeps the identity, or gives it up.
LEMMA RegKept ==
  ASSUME Inv, p'.id \in {0, p.id}, p'.cert \in {0, p.cert, disk.cert},
         disk'.cert \in {p.cert, disk.cert},
         \A j \in Ids : reg[j] # "none" => reg'[j] # "none",
         \A j \in Ids : Known(reg'[j]) => Known(reg[j])
  PROVE  RegInv'
<1>1. /\ p.id \in 0 .. MaxIds /\ p.cert \in 0 .. MaxIds /\ disk.cert \in 0 .. MaxIds
      /\ \A c \in 0 .. MaxIds : c # 0 => c \in Ids
  BY PeerFacts DEF Ids
<1> QED
  BY <1>1 DEF Inv, RegInv

\* A step that leaves the peer's identity alone.
LEMMA QuietPeer ==
  ASSUME Inv, p' \in Peers, cap' \in Caps, got' \in BOOLEAN,
         p'.on = p.on, p'.id = p.id, p'.cert = p.cert,
         UNCHANGED <<mesh, sock, disk, reg>>,
         calls'["mesh"].st # "none" => mesh \in Calling
  PROVE  PeerTypes' /\ MeshInv' /\ CertInv' /\ RegInv'
<1>1. PeerTypes' /\ MeshInv' /\ CertInv'
  BY DEF Inv, PeerTypes, Calling, MeshInv, CertInv, Peers, Caps
<1>2. RegInv'
  BY PeerFacts, RegKept
<1> QED
  BY <1>1, <1>2

\* A step of another goroutine that leaves the peer alone.
LEMMA UnchangedPeer ==
  ASSUME Inv, UNCHANGED <<p, cap, mesh, sock, got, disk, reg>>, calls'["mesh"] = calls["mesh"]
  PROVE  PeerTypes' /\ MeshInv' /\ CertInv' /\ RegInv'
BY DEF Inv, PeerTypes, Calling, MeshInv, CertInv, RegInv

\* A thread that has no peer gets one, with what the file still vouches for.
LEMMA EnsurePeer ==
  ASSUME Inv, NEW a \in Turns, EnsureThread(a), UNCHANGED <<cap, sock, got, disk, reg>>,
         calls'["mesh"] = calls["mesh"]
  PROVE  PeerTypes' /\ MeshInv' /\ CertInv' /\ RegInv'
<1>1. CASE p.on
  BY <1>1, UnchangedPeer DEF EnsureThread
<1>2. CASE ~p.on
  <2>1. PICK h \in Hints :
          /\ p' = [NoPeer EXCEPT !.on = TRUE, !.gen = p.gen + 1, !.active = a, !.hint = h, !.cert = CachedCert]
          /\ mesh' = "restore"
    BY <1>2 DEF EnsureThread
  <2>h. h \in 0 .. MaxIds
    BY PeerFacts DEF Hints, Ids
  <2>2. CachedCert \in 0 .. MaxIds /\ (CachedCert = 0 => disk.cert = 0 \/ disk.stale = TRUE)
    BY PeerFacts DEF CachedCert
  <2>3. p.gen + 1 \in Nat /\ p.on = FALSE
    BY <1>2, PeerFacts DEF Peers
  <2> DEFINE c == CachedCert
             k == p.gen + 1
  <2>4. p' = [on |-> TRUE, gen |-> k, active |-> a, done |-> 0, seen |-> {}, id |-> 0,
              hint |-> h, cert |-> c, stale |-> FALSE]
    BY <2>1 DEF NoPeer
  <2> HIDE DEF c, k
  <2>5. p' \in Peers /\ p'.on = TRUE /\ p'.id = 0 /\ p'.cert = c
    BY <2>2, <2>3, <2>4, <2>h, TurnZero, PeerFacts DEF Peers, c, k
  <2>6. mesh = "off" /\ sock # "open" /\ calls["mesh"].st = "none"
    BY <2>3 DEF Inv, Calling, MeshInv
  <2>7. PeerTypes'
    BY <2>1, <2>5 DEF Inv, PeerTypes, Peers
  <2>8. MeshInv'
    BY <2>1, <2>5, <2>6 DEF Calling, MeshInv
  <2>9. CertInv'
    BY <2>1, <2>2, <2>5 DEF CertInv, c
  <2>10. c \in {0, disk.cert}
    BY DEF CachedCert, c
  <2>11. RegInv'
    BY <2>5, <2>10, RegKept
  <2> QED
    BY <2>7, <2>8, <2>9, <2>11
<1> QED
  BY <1>1, <1>2

\* The daemon that sees a socket go marks the peer offline.
LEMMA SocketClosedTyped ==
  ASSUME Inv
  PROVE  /\ SocketClosed \in [Ids -> RegStates]
         /\ \A i \in Ids : reg[i] # "none" => SocketClosed[i] # "none"
         /\ \A i \in Ids : Known(SocketClosed[i]) => Known(reg[i])
BY PeerFacts DEF SocketClosed, RegStates, Inv, MeshInv, Known

\* The reader's steps keep the peer and its certificate sound.
LEMMA ReaderPeerStep ==
  ASSUME Inv, Reader
  PROVE  PeerTypes' /\ MeshInv' /\ CertInv' /\ RegInv'
<1>1. p \in Peers /\ cap \in Caps /\ got \in BOOLEAN /\ "mesh" \in Actors /\ LinkTypes /\ LinkInv
  BY PeerFacts, Callers DEF Inv
<1>2. calls["mesh"].st # "none" => mesh \in Calling
  BY DEF Inv, Calling, MeshInv
<1>3. CASE ReaderFinishes
  <2>1. p' = [p EXCEPT !.seen = @ \ {rturn}, !.active = 0]
    BY <1>3 DEF ReaderFinishes, FinishEnds
  <2>2. p' \in Peers /\ p'.on = p.on /\ p'.id = p.id /\ p'.cert = p.cert
    BY <1>1, <2>1, TurnZero DEF Peers
  <2> QED
    BY <1>1, <1>2, <1>3, <2>2, QuietPeer DEF ReaderFinishes
<1>4. CASE ReaderFails
  <2>1. calls["mesh"].st = "none" => calls'["mesh"].st = "none"
    BY <1>1, <1>4 DEF ReaderFails, FailPending
  <2> QED
    BY <1>1, <1>2, <1>4, <2>1, QuietPeer DEF ReaderFails, peerVars
<1>5. CASE ReaderTakes
  <2> DEFINE f == Head(wire)
  <2>1. f \in Frames /\ UNCHANGED <<got, disk>>
    BY <1>1, <1>5, TailFrames DEF ReaderTakes, LinkTypes
  <2>2. f.n \in Turns
    BY <2>1 DEF Frames
  <2>3. CASE ReaderReply
    <3>1. calls["mesh"].st = "none" => calls'["mesh"].st = "none"
      BY <1>1, <2>3 DEF ReaderReply, LinkTypes
    <3> QED
      BY <1>1, <1>2, <2>1, <2>3, <3>1, QuietPeer DEF ReaderReply
  <2>4. CASE ReaderStarted
    BY <2>1, <2>4, TurnZero, EnsurePeer DEF ReaderStarted
  <2>5. CASE ReaderStatus
    <3>1. Call("cap", "turns", 0) \/ Call("disc", "read", 0) \/ UNCHANGED <<calls, out>>
      BY <2>5 DEF ReaderStatus
    <3>2. calls'["mesh"] = calls["mesh"]
      BY <1>1, <3>1, Callers, TurnZero, CallEffect DEF Tags
    <3>3. cap' \in Caps
      BY <1>1, <2>5, TurnZero DEF ReaderStatus, Caps, Peers
    <3> QED
      BY <1>1, <1>2, <2>1, <2>5, <3>2, <3>3, QuietPeer DEF ReaderStatus
  <2>6. CASE ReaderTurn
    <3>1. p' \in Peers /\ p'.on = p.on /\ p'.id = p.id /\ p'.cert = p.cert
      BY <1>1, <2>2, <2>6 DEF ReaderTurn, Peers
    <3> QED
      BY <1>1, <1>2, <2>1, <2>6, <3>1, QuietPeer DEF ReaderTurn
  <2>7. CASE ReaderItem \/ ReaderCompleted
    <3> DEFINE t == f.n
    <3>1. \/ p' = p
          \/ p' = [p EXCEPT !.seen = @ \cup {t}]
          \/ p' = [p EXCEPT !.done = t, !.seen = @ \cup {t}]
      BY <2>7 DEF ReaderItem, ReaderCompleted, PostChatItem, FinishBegins
    <3> HIDE DEF t
    <3>2. p' \in Peers /\ p'.on = p.on /\ p'.id = p.id /\ p'.cert = p.cert
      BY <1>1, <2>2, <3>1, ZenonT(60) DEF Peers, t
    <3> QED
      BY <1>1, <1>2, <2>1, <2>7, <3>2, QuietPeer DEF ReaderItem, ReaderCompleted
  <2>8. CASE ReaderClosed
    <3>1. CASE ~p.on
      BY <1>1, <1>2, <2>1, <2>8, <3>1, QuietPeer DEF ReaderClosed
    <3>2. CASE p.on
      <4>1. /\ p' = [NoPeer EXCEPT !.gen = p.gen] /\ mesh' = "off" /\ sock' = "none" /\ reg' = SocketClosed
            /\ calls' = [calls EXCEPT !["mesh"] = Result("none", 0, 0)] /\ cap' = cap
        BY <2>8, <3>2 DEF ReaderClosed, CloseThread
      <4>2. p' \in Peers /\ p'.on = FALSE /\ p'.id = 0 /\ p'.cert = 0
        <5> DEFINE k == p.gen
        <5>1. k \in Nat
          BY <1>1 DEF Peers
        <5>2. p' = [on |-> FALSE, gen |-> k, active |-> 0, done |-> 0, seen |-> {}, id |-> 0,
                    hint |-> 0, cert |-> 0, stale |-> FALSE]
          BY <4>1 DEF NoPeer
        <5> HIDE DEF k
        <5> QED
          BY <5>1, <5>2, TurnZero, PeerFacts DEF Peers
      <4>3. calls'["mesh"].st = "none"
        BY <1>1, <4>1 DEF LinkTypes, Result
      <4>4. reg' \in [Ids -> RegStates]
        BY <4>1, SocketClosedTyped
      <4>5. PeerTypes'
        BY <1>1, <2>1, <4>1, <4>2, <4>4, PeerFacts DEF PeerTypes, Peers, RegStates, Caps
      <4>6. RegInv'
        BY <2>1, <4>1, <4>2, SocketClosedTyped, RegKept
      <4> QED
        BY <4>1, <4>2, <4>3, <4>5, <4>6 DEF Calling, MeshInv, CertInv
    <3> QED
      BY <3>1, <3>2
  <2> QED
    BY <1>5, <2>3, <2>4, <2>5, <2>6, <2>7, <2>8 DEF ReaderTakes
<1> QED
  BY <1>3, <1>4, <1>5 DEF Reader


\* AllocateAndRegister settles on one record of the thread, forgets no id, and mints one
\* only when the claim is not known; a claim that is the only known id comes online.
LEMMA Allocates ==
  ASSUME Inv, NEW claim \in 0 .. MaxIds, NEW v \in BOOLEAN, NEW i \in Ids,
         AllocateAndRegister(claim, v, i)
  PROVE  /\ reg' \in [Ids -> RegStates] /\ reg'[i] # "none"
         /\ \A j \in Ids : reg[j] # "none" => reg'[j] # "none"
         /\ Known(reg'[i]) /\ \A j \in Ids : Known(reg'[j]) => j = i
         /\ claim # 0 /\ Known(reg[claim]) => \A j \in Ids : reg[j] = "none" => reg'[j] = "none"
         /\ claim # 0 /\ ~Retired(reg[claim]) /\ (\A j \in Ids : Known(reg[j]) => j = claim)
              => reg'[i] = "online"
<1>1. /\ reg \in [Ids -> RegStates] /\ (claim # 0 => claim \in Ids)
      /\ \A k, j \in Ids : Known(reg[k]) /\ Known(reg[j]) => k = j
  BY PeerFacts DEF Inv, RegInv, Ids
<1>2. CASE claim # 0 /\ Known(reg[claim])
  <2>1. i = claim /\ reg' = [reg EXCEPT ![i] = "online"]
    BY <1>2 DEF AllocateAndRegister
  <2>2. reg'[i] = "online" /\ \A j \in Ids : j # i => reg'[j] = reg[j]
    BY <1>1, <2>1
  <2>3. reg' \in [Ids -> RegStates]
    BY <1>1, <2>1 DEF RegStates
  <2>4. Known(reg'[i]) /\ reg[i] # "none"
    BY <1>2, <2>1, <2>2 DEF Known
  <2> QED
    BY <1>1, <1>2, <2>1, <2>2, <2>3, <2>4
<1>3. CASE ~(claim # 0 /\ Known(reg[claim]))
  <2> DEFINE lifted == claim # 0 /\ Retired(reg[claim])
  <2>1. /\ i \in Allotted(reg)
        /\ reg' = [j \in Ids |-> IF j = i THEN Reconnected(reg[j], lifted)
                                ELSE IF lifted /\ j = claim THEN "lost" ELSE reg[j]]
    BY <1>3 DEF AllocateAndRegister
  <2>2. /\ Known(reg[i]) \/ (reg[i] = "none" /\ \A j \in Ids : ~Known(reg[j]))
    BY <2>1 DEF Allotted
  <2>3. /\ Reconnected(reg[i], lifted) \in RegStates /\ Known(Reconnected(reg[i], lifted))
        /\ Reconnected(reg[i], lifted) # "none"
    BY <2>2 DEF Reconnected, RegStates, Known
  <2>4. /\ reg' \in [Ids -> RegStates] /\ reg'[i] = Reconnected(reg[i], lifted)
        /\ \A j \in Ids : j # i => reg'[j] \in {"lost", reg[j]}
    BY <1>1, <2>1, <2>3 DEF RegStates
  <2>5. \A j \in Ids : j # i => (reg[j] # "none" => reg'[j] # "none") /\ (Known(reg'[j]) => Known(reg[j]))
    BY <2>4 DEF Known
  <2>6. \A j \in Ids : Known(reg'[j]) => j = i
    BY <1>1, <2>2, <2>5
  <2>7. claim # 0 /\ ~Retired(reg[claim]) /\ (\A j \in Ids : Known(reg[j]) => j = claim)
          => reg'[i] = "online"
    BY <1>3, <2>2, <2>4 DEF Reconnected
  <2> QED
    BY <1>3, <2>3, <2>4, <2>5, <2>6, <2>7
<1> QED
  BY <1>2, <1>3

\* The registry's answer to a claim keeps what is known of the identity.
LEMMA SettledReg ==
  ASSUME Inv, NEW claim \in 0 .. MaxIds, NEW v \in BOOLEAN, NEW i \in Ids,
         AllocateAndRegister(claim, v, i), p'.id = i, p'.cert \in {i, p.cert}, disk' = disk
  PROVE  RegInv'
<1>1. /\ p.cert \in 0 .. MaxIds /\ disk.cert \in 0 .. MaxIds /\ \A c \in 0 .. MaxIds : c # 0 => c \in Ids
  BY PeerFacts DEF Ids
<1>2. /\ reg'[i] # "none" /\ \A j \in Ids : reg[j] # "none" => reg'[j] # "none"
      /\ \A j \in Ids : Known(reg'[j]) => j = i
  BY Allocates
<1> QED
  BY <1>1, <1>2 DEF Inv, RegInv

\* Restoring the certificate from disk keeps them sound.
LEMMA RestoreStep ==
  ASSUME Inv, MeshRestore
  PROVE  PeerTypes' /\ MeshInv' /\ CertInv' /\ RegInv'
<1>1. p \in Peers /\ reg \in [Ids -> RegStates]
  BY PeerFacts
<1>2. /\ mesh = "restore" /\ sock # "open" /\ calls["mesh"].st = "none" /\ p.on = TRUE
      /\ UNCHANGED <<calls, cap, sock, got, disk>>
  BY <1>1 DEF MeshRestore, RestoreIdentity, appVars, Inv, Calling, MeshInv, Peers
<1>3. CASE p.id # 0 \/ p.cert = 0
  <2>1. mesh' = "post" /\ UNCHANGED <<p, reg>>
    BY <1>3 DEF MeshRestore, RestoreIdentity
  <2> QED
    BY <1>2, <1>3, <2>1 DEF Inv, PeerTypes, Calling, MeshInv, CertInv, RegInv
<1>4. CASE p.id = 0 /\ p.cert # 0
  <2>1. PICK i \in Ids : /\ AllocateAndRegister(p.cert, TRUE, i)
                         /\ p' = [p EXCEPT !.id = i] /\ mesh' = "post"
    BY <1>4 DEF MeshRestore, RestoreIdentity
  <2>2. i \in 0 .. MaxIds /\ i # 0 /\ p.cert \in 0 .. MaxIds
    BY PeerFacts DEF Ids
  <2>3. p' \in Peers /\ p'.on = p.on /\ p'.id = i /\ p'.cert = p.cert
    BY <1>1, <2>1, <2>2 DEF Peers
  <2>4. reg' \in [Ids -> RegStates] /\ reg'[i] # "none"
    BY <2>1, <2>2, Allocates
  <2>5. RegInv'
    BY <1>2, <2>1, <2>2, <2>3, SettledReg
  <2>6. PeerTypes'
    BY <1>2, <2>1, <2>3, <2>4 DEF Inv, PeerTypes, Peers, RegStates
  <2>7. MeshInv'
    BY <1>2, <2>1, <2>2, <2>3, <2>4 DEF Calling, MeshInv
  <2>8. CertInv'
    BY <1>2, <2>1, <2>2, <2>3 DEF Inv, CertInv
  <2> QED
    BY <2>5, <2>6, <2>7, <2>8
<1> QED
  BY <1>3, <1>4

\* Registering the peer keeps them sound.
LEMMA RegisterStep ==
  ASSUME Inv, MeshRegister
  PROVE  PeerTypes' /\ MeshInv' /\ CertInv' /\ RegInv'
<1>1. p \in Peers /\ reg \in [Ids -> RegStates] /\ Claim \in 0 .. MaxIds
  BY PeerFacts DEF Peers, Claim
<1>2. /\ mesh = "post" /\ sock # "open" /\ calls["mesh"].st = "none" /\ p.on = TRUE
      /\ UNCHANGED <<calls, cap, sock, got, disk>>
  BY <1>1 DEF MeshRegister, appVars, Inv, Calling, MeshInv, Peers
<1>3. CASE mesh' = "restore" /\ UNCHANGED reg /\ (p' = p \/ p' = [p EXCEPT !.id = 0])
  <2>1. p' \in Peers /\ p'.on = p.on /\ p'.id \in {0, p.id} /\ p'.cert = p.cert
    BY <1>1, <1>3, PeerFacts DEF Peers
  <2>2. RegInv'
    BY <1>2, <1>3, <2>1, RegKept
  <2> QED
    BY <1>2, <1>3, <2>1, <2>2 DEF Inv, PeerTypes, Calling, MeshInv, CertInv, Peers
<1>4. CASE \E i \in Ids : AllocateAndRegister(Claim, FALSE, i) /\ PersistBinding(i)
  <2>1. PICK i \in Ids : AllocateAndRegister(Claim, FALSE, i) /\ PersistBinding(i)
    BY <1>4
  <2>2. i \in Ids /\ i \in 0 .. MaxIds /\ i # 0
    BY PeerFacts DEF Ids
  <2>3. reg' \in [Ids -> RegStates] /\ reg'[i] # "none"
    BY <1>1, <2>1, Allocates
  <2>4. \/ p' = [p EXCEPT !.id = i, !.cert = i, !.stale = FALSE] /\ mesh' = "persist"
        \/ p' = [p EXCEPT !.id = i] /\ mesh' = "context"
    BY <2>1 DEF PersistBinding, MintBirthCertificate
  <2>5. /\ p' \in Peers /\ p'.on = TRUE /\ p'.id = i
        /\ \/ mesh' = "persist" /\ p'.cert = i
           \/ mesh' = "context" /\ p'.cert = p.cert
    BY <1>1, <1>2, <2>2, <2>4 DEF Peers
  <2>6. PeerTypes'
    BY <1>2, <2>3, <2>5 DEF Inv, PeerTypes, Peers, RegStates
  <2>7. MeshInv'
    BY <1>2, <2>2, <2>3, <2>5 DEF Calling, MeshInv
  <2>8. CertInv'
    BY <1>2, <2>2, <2>5 DEF Inv, CertInv
  <2>9. RegInv'
    BY <1>1, <1>2, <2>1, <2>5, SettledReg
  <2> QED
    BY <2>6, <2>7, <2>8, <2>9
<1> QED
  BY <1>3, <1>4 DEF MeshRegister

\* The mesh connection's steps keep them sound.
LEMMA MeshPeerStep ==
  ASSUME Inv, Mesh
  PROVE  PeerTypes' /\ MeshInv' /\ CertInv' /\ RegInv'
<1>1. /\ p \in Peers /\ reg \in [Ids -> RegStates] /\ "mesh" \in Actors /\ LinkTypes /\ LinkInv
      /\ disk \in [cert : 0 .. MaxIds, stale : BOOLEAN, ctx : BOOLEAN]
  BY PeerFacts, Callers DEF Inv
<1>2. CASE MeshRestore
  BY <1>2, RestoreStep
<1>3. CASE MeshRegister
  BY <1>3, RegisterStep
<1>4. CASE MeshPersist
  <2>1. p.cert # 0 /\ p.cert \in 0 .. MaxIds /\ p.stale \in BOOLEAN /\ disk.ctx \in BOOLEAN
    BY <1>1, <1>4 DEF MeshPersist, Inv, CertInv, Peers
  <2>2. /\ disk' \in [cert : 0 .. MaxIds, stale : BOOLEAN, ctx : BOOLEAN]
        /\ disk'.cert \in {p.cert, disk.cert}
    BY <1>1, <1>4, <2>1 DEF MeshPersist, WriteRuntimeIdentity
  <2>3. calls'["mesh"] = calls["mesh"] /\ calls["mesh"].st = "none" /\ sock # "open" /\ p.on = TRUE
    BY <1>1, <1>4 DEF MeshPersist, appVars, Inv, Calling, MeshInv, Peers
  <2>4. UNCHANGED <<p, cap, sock, got, reg>> /\ mesh = "persist" /\ mesh' \in {"context", "restore"}
    BY <1>4 DEF MeshPersist
  <2>5. RegInv'
    BY <2>2, <2>4, RegKept
  <2> QED
    BY <2>1, <2>2, <2>3, <2>4, <2>5 DEF Inv, PeerTypes, Calling, MeshInv, CertInv
<1>5. CASE MeshContext
  <2>1. UNCHANGED <<p, cap, sock, got, disk, reg>> /\ mesh = "context" /\ mesh' \in {"dial", "inject"}
    BY <1>5 DEF MeshContext
  <2>2. mesh' = "dial" => calls' = calls
    BY <1>5 DEF MeshContext
  <2> QED
    BY <2>1, <2>2 DEF Inv, PeerTypes, Calling, MeshInv, CertInv, RegInv
<1>6. CASE MeshInjected
  <2>1. /\ UNCHANGED <<p, cap, sock, got, reg>> /\ mesh = "inject" /\ mesh' = "dial"
        /\ calls'["mesh"].st = "none"
    BY <1>1, <1>6, ReturnEffect DEF MeshInjected
  <2>2. /\ disk' \in [cert : 0 .. MaxIds, stale : BOOLEAN, ctx : BOOLEAN]
        /\ disk'.cert = disk.cert /\ disk'.stale = disk.stale
    <3> DEFINE c == disk.cert
               s == disk.stale
    <3>1. c \in 0 .. MaxIds /\ s \in BOOLEAN
      BY <1>1
    <3>2. disk' = disk \/ disk' = [cert |-> c, stale |-> s, ctx |-> TRUE]
      BY <1>6 DEF MeshInjected, WriteRuntimeIdentity
    <3>3. CASE disk' = disk
      BY <1>1, <3>3
    <3>4. CASE disk' = [cert |-> c, stale |-> s, ctx |-> TRUE]
      <4> HIDE DEF c, s
      <4>1. /\ disk' \in [cert : 0 .. MaxIds, stale : BOOLEAN, ctx : BOOLEAN]
            /\ disk'.cert = c /\ disk'.stale = s
        BY <3>1, <3>4
      <4> QED
        BY <4>1 DEF c, s
    <3> QED
      BY <3>2, <3>3, <3>4
  <2> QED
    BY <2>1, <2>2 DEF Inv, PeerTypes, Calling, MeshInv, CertInv, RegInv
<1>7. CASE MeshDial
  <2>1. /\ UNCHANGED <<cap, got, disk, calls>> /\ mesh = "dial" /\ p.id # 0 /\ p.id \in Ids
        /\ sock # "open" /\ p.on = TRUE /\ calls["mesh"].st = "none" /\ p.id \in 0 .. MaxIds
    BY <1>1, <1>7, PeerFacts DEF MeshDial, appVars, Inv, Calling, MeshInv, Peers
  <2>2. CASE Refuses(p.id, FALSE) /\ mesh' = "restore" /\ UNCHANGED <<p, sock, reg>>
    BY <2>1, <2>2 DEF Inv, PeerTypes, Calling, MeshInv, CertInv, RegInv
  <2>3. CASE /\ \E i \in Ids : AllocateAndRegister(p.id, FALSE, i) /\ p' = [p EXCEPT !.id = i]
             /\ mesh' = "read" /\ sock' = "open"
    <3>1. PICK i \in Ids : AllocateAndRegister(p.id, FALSE, i) /\ p' = [p EXCEPT !.id = i]
      BY <2>3
    <3>2. i \in 0 .. MaxIds /\ i # 0
      BY PeerFacts DEF Ids
    <3>3. p' \in Peers /\ p'.on = TRUE /\ p'.id = i /\ p'.cert = p.cert
      BY <1>1, <2>1, <3>1, <3>2 DEF Peers
    <3>4. ~Retired(reg[p.id])
      BY <2>1, <3>1 DEF AllocateAndRegister, Refuses
    <3>5. reg' \in [Ids -> RegStates] /\ reg'[i] = "online"
      <4>1. Inv /\ AllocateAndRegister(p.id, FALSE, i)
        BY <1>1, <3>1
      <4>2. p.id # 0 => \A j \in Ids : Known(reg[j]) => j = p.id
        BY <2>1 DEF Inv, RegInv
      <4> QED
        BY <2>1, <3>4, <4>1, <4>2, Allocates
    <3>6. RegInv'
      BY <2>1, <3>1, <3>3, SettledReg
    <3> QED
      BY <2>1, <2>3, <3>2, <3>3, <3>5, <3>6 DEF Inv, PeerTypes, Calling, MeshInv, CertInv, RegStates
  <2> QED
    BY <1>7, <2>2, <2>3 DEF MeshDial
<1>8. CASE MeshTakes
  <2>1. UNCHANGED <<p, cap, sock, got, disk, reg>> /\ mesh = "read" /\ mesh' \in {"steer", "start"}
    BY <1>8 DEF MeshTakes
  <2> QED
    BY <2>1 DEF Inv, PeerTypes, Calling, MeshInv, CertInv, RegInv
<1>9. CASE MeshSteered \/ MeshStarted
  <2>1. /\ UNCHANGED <<p, cap, sock, got, disk, reg>> /\ mesh \in {"steer", "start"}
        /\ \/ mesh' = "start"
           \/ mesh' = "read" /\ Returned("mesh")
    BY <1>9 DEF MeshSteered, MeshStarted
  <2>2. mesh' = "start" \/ (mesh' = "read" /\ calls'["mesh"].st = "none")
    BY <1>1, <2>1, ReturnEffect
  <2> QED
    BY <2>1, <2>2 DEF Inv, PeerTypes, Calling, MeshInv, CertInv, RegInv
<1>10. CASE MeshReconnects
  BY <1>10 DEF MeshReconnects, appVars, Inv, PeerTypes, Calling, MeshInv, CertInv, RegInv
<1> QED
  BY <1>2, <1>3, <1>4, <1>5, <1>6, <1>7, <1>8, <1>9, <1>10 DEF Mesh


\* Every step keeps the peer and its certificate sound.
LEMMA PeerStep ==
  ASSUME Inv, Next
  PROVE  PeerTypes' /\ MeshInv' /\ CertInv' /\ RegInv'
<1>1. /\ p \in Peers /\ cap \in Caps /\ got \in BOOLEAN /\ reg \in [Ids -> RegStates]
      /\ disk \in [cert : 0 .. MaxIds, stale : BOOLEAN, ctx : BOOLEAN]
      /\ LinkTypes /\ LinkInv /\ calls \in [Actors -> Results]
  BY PeerFacts DEF Inv, LinkTypes
<1>2. calls["mesh"].st # "none" => mesh \in Calling
  BY DEF Inv, Calling, MeshInv
<1>3. \A a \in Actors : calls[a].n \in Turns /\ calls[a].d \in Turns
  BY <1>1 DEF Results
<1>4. CASE Reader
  BY <1>4, ReaderPeerStep
<1>5. CASE Mesh
  BY <1>5, MeshPeerStep
<1>6. CASE MainRead
  <2>1. calls'["mesh"] = calls["mesh"] /\ UNCHANGED <<cap, sock, got, disk, reg>>
    BY <1>1, <1>6, Callers, ReturnEffect DEF MainRead
  <2>2. CASE calls["main"].st = "ok"
    <3>1. PICK a \in ActiveTurn(calls["main"].n) : EnsureThread(a)
      BY <1>6, <2>2 DEF MainRead
    <3>2. a \in Turns
      BY <1>3, Callers, TurnZero DEF ActiveTurn
    <3> QED
      BY <2>1, <3>1, <3>2, EnsurePeer
  <2>3. CASE calls["main"].st # "ok"
    BY <1>6, <2>1, <2>3, UnchangedPeer DEF MainRead
  <2> QED
    BY <2>2, <2>3
<1>7. CASE Main /\ ~MainRead
  <2>1. UNCHANGED <<p, cap, mesh, sock, got, disk, reg>>
    BY <1>7 DEF Main, MainConnects, MainHello, MainInit, MainList, MainListed,
                MainServe, MainCloses, MainClears, peerVars
  <2>2. \/ calls' = calls \/ Returned("main") \/ Call("main", "initialize", 0)
        \/ Call("main", "list", 0) \/ Call("main", "read", 0)
    BY <1>7 DEF Main, MainConnects, MainHello, MainInit, MainList, MainListed,
                MainServe, MainCloses, MainClears
  <2>3. calls'["mesh"] = calls["mesh"]
    BY <1>1, <2>2, Callers, TurnZero, CallEffect, ReturnEffect DEF Tags
  <2> QED
    BY <2>1, <2>3, UnchangedPeer
<1>8. CASE DiscoverReturns
  <2>1. calls'["mesh"] = calls["mesh"] /\ UNCHANGED <<cap, sock, got, disk, reg>>
    BY <1>1, <1>8, Callers, ReturnEffect DEF DiscoverReturns
  <2>2. CASE calls["disc"].st = "ok"
    <3>1. PICK a \in ActiveTurn(calls["disc"].n) : EnsureThread(a)
      BY <1>8, <2>2 DEF DiscoverReturns
    <3>2. a \in Turns
      BY <1>3, Callers, TurnZero DEF ActiveTurn
    <3> QED
      BY <2>1, <3>1, <3>2, EnsurePeer
  <2>3. CASE calls["disc"].st # "ok"
    BY <1>8, <2>1, <2>3, UnchangedPeer DEF DiscoverReturns
  <2> QED
    BY <2>2, <2>3
<1>9. CASE CaptureReads
  <2> DEFINE t == calls["cap"].d
  <2>1. calls'["mesh"] = calls["mesh"] /\ UNCHANGED <<mesh, sock, got, disk, reg>>
    BY <1>1, <1>9, Callers, ReturnEffect DEF CaptureReads
  <2>2. /\ p' = p \/ p' = [p EXCEPT !.done = t, !.seen = @ \cup {t}]
        /\ cap' = [turn |-> 0, gen |-> 0] \/ cap' = [turn |-> t, gen |-> p.gen]
    BY <1>9 DEF CaptureReads, FinishBegins
  <2>3. t \in Turns
    BY <1>3, Callers
  <2> HIDE DEF t
  <2>4. p' \in Peers /\ p'.on = p.on /\ p'.id = p.id /\ p'.cert = p.cert
    <3>1. CASE p' = p
      BY <1>1, <3>1
    <3>2. CASE p' = [p EXCEPT !.done = t, !.seen = @ \cup {t}]
      BY <1>1, <2>3, <3>2 DEF Peers
    <3> QED
      BY <2>2, <3>1, <3>2
  <2>5. cap' \in Caps
    <3> DEFINE k == p.gen
    <3>1. k \in Nat
      BY <1>1 DEF Peers
    <3>2. cap' = [turn |-> 0, gen |-> 0] \/ cap' = [turn |-> t, gen |-> k]
      BY <2>2
    <3> HIDE DEF k
    <3> QED
      BY <2>3, <3>1, <3>2, TurnZero DEF Caps
  <2> QED
    BY <1>1, <1>2, <2>1, <2>4, <2>5, QuietPeer
<1>10. CASE CaptureFinishes
  <2>1. UNCHANGED <<calls, mesh, sock, got, disk, reg>> /\ cap' = [turn |-> 0, gen |-> 0]
    BY <1>10 DEF CaptureFinishes, appVars
  <2>2. p' = p \/ p' = [p EXCEPT !.seen = @ \ {cap.turn}, !.active = 0]
    BY <1>10 DEF CaptureFinishes, FinishEnds
  <2>3. p' \in Peers /\ p'.on = p.on /\ p'.id = p.id /\ p'.cert = p.cert
    BY <1>1, <2>2, TurnZero, ZenonT(60) DEF Peers
  <2>4. cap' \in Caps
    BY <2>1, TurnZero DEF Caps
  <2> QED
    BY <1>1, <1>2, <2>1, <2>3, <2>4, QuietPeer
<1>11. CASE SrvServe
  <2>1. got' \in BOOLEAN
    BY <1>11 DEF SrvServe
  <2>2. UNCHANGED <<calls, p, cap, mesh, sock, disk, reg>>
    BY <1>11 DEF SrvServe
  <2> QED
    BY <1>1, <1>2, <2>1, <2>2, QuietPeer
<1>12. CASE SrvOpen \/ SrvClose \/ SrvTurn \/ SrvComplete \/ AppLost
  BY <1>12, UnchangedPeer DEF SrvOpen, SrvClose, SrvTurn, SrvComplete, AppLost, peerVars
<1>13. CASE \E a \in Actors : CallTimeout(a)
  <2>1. PICK a \in Actors : CallTimeout(a)
    BY <1>13
  <2>2. UNCHANGED <<p, cap, mesh, sock, got, disk, reg>>
    BY <2>1 DEF CallTimeout, peerVars
  <2>3. calls'["mesh"].st # "none" => calls["mesh"].st # "none"
    BY <1>1, <2>1, Callers DEF CallTimeout
  <2> QED
    BY <1>1, <1>2, <2>2, <2>3, QuietPeer
<1>14. CASE Deliver \/ HookPosts \/ HookAdds \/ Watch \/ Leave \/ Follow
  BY <1>14, UnchangedPeer DEF Deliver, HookPosts, HookAdds, Watch, Leave, Follow, appVars, peerVars
<1>15. CASE MeshLost
  <2>1. UNCHANGED <<calls, p, cap, mesh, got, disk>> /\ sock' = "none" /\ reg' = SocketClosed
    BY <1>15 DEF MeshLost, appVars
  <2>2. reg' \in [Ids -> RegStates] /\ \A i \in Ids : reg[i] # "none" => reg'[i] # "none"
    BY <2>1, SocketClosedTyped
  <2>3. RegInv'
    BY <2>1, SocketClosedTyped, RegKept
  <2>4. PeerTypes' /\ MeshInv' /\ CertInv'
    BY <2>1, <2>2, PeerFacts, ZenonT(60) DEF Inv, PeerTypes, Calling, MeshInv, CertInv, RegStates
  <2> QED
    BY <2>3, <2>4
<1>16. CASE Crash
  <2>1. /\ p' = NoPeer /\ cap' = [turn |-> 0, gen |-> 0] /\ mesh' = "off" /\ sock' = "none"
        /\ reg' = SocketClosed /\ calls' = NoCalls /\ UNCHANGED <<got, disk>>
    BY <1>16 DEF Crash
  <2>2. p' \in Peers /\ p'.on = FALSE /\ p'.id = 0 /\ p'.cert = 0
    BY <2>1, TurnZero, PeerFacts DEF NoPeer, Peers
  <2>3. cap' \in Caps /\ calls'["mesh"].st = "none"
    BY <2>1, TurnZero, Callers DEF Caps, NoCalls, Result
  <2>4. reg' \in [Ids -> RegStates]
    BY <2>1, SocketClosedTyped
  <2>5. PeerTypes'
    BY <2>1, <2>2, <2>3, <2>4 DEF Inv, PeerTypes, Peers, Caps, RegStates
  <2>6. RegInv'
    BY <2>1, <2>2, SocketClosedTyped, RegKept
  <2> QED
    BY <2>1, <2>2, <2>3, <2>5, <2>6 DEF Calling, MeshInv, CertInv
<1>17. CASE Expire
  <2>1. /\ p' = [p EXCEPT !.stale = p.cert # 0] /\ disk' = [disk EXCEPT !.stale = TRUE]
        /\ UNCHANGED <<calls, cap, mesh, sock, got, reg>>
    BY <1>17 DEF Expire, appVars
  <2>2. p' \in Peers /\ p'.on = p.on /\ p'.id = p.id /\ p'.cert = p.cert
    BY <1>1, <2>1 DEF Peers
  <2>3. /\ disk' \in [cert : 0 .. MaxIds, stale : BOOLEAN, ctx : BOOLEAN] /\ disk'.stale = TRUE
        /\ disk'.cert = disk.cert
    BY <1>1, <2>1
  <2>4. PeerTypes'
    BY <2>1, <2>2, <2>3 DEF Inv, PeerTypes, Peers
  <2>5. RegInv'
    BY <2>1, <2>2, <2>3, RegKept
  <2> QED
    BY <2>1, <2>2, <2>3, <2>4, <2>5 DEF Inv, Calling, MeshInv, CertInv
<1>18. CASE \E i \in Ids, f \in {"soft", "hard", "gone", "lost"} : Fate(i, f)
  <2>1. PICK i \in Ids, f \in {"soft", "hard", "gone", "lost"} : Fate(i, f)
    BY <1>18
  <2>2. /\ reg' = [reg EXCEPT ![i] = f] /\ sock' = (IF i = p.id THEN "none" ELSE sock)
        /\ UNCHANGED <<calls, p, cap, mesh, got, disk>> /\ reg[i] \in {"online", "offline"}
    BY <2>1 DEF Fate, appVars
  <2>3. /\ reg' \in [Ids -> RegStates] /\ reg'[i] # "none"
        /\ \A j \in Ids : j # i => reg'[j] = reg[j]
    BY <1>1, <2>2 DEF RegStates
  <2>4. RegInv'
    BY <2>2, <2>3, RegKept DEF Known
  <2> QED
    BY <2>2, <2>3, <2>4, PeerFacts DEF Inv, PeerTypes, Calling, MeshInv, CertInv, RegStates
<1>19. CASE \E i \in Ids : Unregister(i) \/ Demote(i)
  <2>1. PICK i \in Ids : Unregister(i) \/ Demote(i)
    BY <1>19
  <2>2. /\ \/ reg[i] = "hard" /\ reg' = [reg EXCEPT ![i] = "closed"]
           \/ /\ reg[i] = "online" /\ reg' = [reg EXCEPT ![i] = "offline"]
              /\ ~(sock = "open" /\ p.id = i)
        /\ UNCHANGED <<calls, p, cap, mesh, sock, got, disk>>
    BY <2>1 DEF Unregister, Demote, appVars
  <2>3. /\ reg' \in [Ids -> RegStates] /\ reg'[i] # "none" /\ reg[i] \in {"hard", "online"}
        /\ \A j \in Ids : j # i => reg'[j] = reg[j]
    BY <1>1, <2>2 DEF RegStates
  <2>4. RegInv'
    BY <2>2, <2>3, RegKept DEF Known
  <2>5. sock = "open" => i # p.id
    BY <2>2 DEF Inv, MeshInv
  <2>6. p.id # 0 => p.id \in Ids
    BY <1>1, PeerFacts DEF Ids, Peers
  <2>7. PeerTypes'
    BY <2>2, <2>3 DEF Inv, PeerTypes
  <2>8. MeshInv'
    BY <2>2, <2>3, <2>5, <2>6 DEF Inv, MeshInv, Calling
  <2>9. CertInv'
    BY <2>2 DEF Inv, CertInv
  <2> QED
    BY <2>4, <2>7, <2>8, <2>9
<1> QED
  BY <1>4, <1>5, <1>6, <1>7, <1>8, <1>9, <1>10, <1>11, <1>12, <1>13, <1>14, <1>15, <1>16, <1>17,
     <1>18, <1>19
  DEF Next, Capture, Discover, Environment


-----------------------------------------------------------------------------
(* Requests and replies of the mesh goroutine are kept apart by every step *)

\* A step that adds nothing of the mesh goroutine to a queue.
LEMMA KeepsWire ==
  ASSUME Inv,
         None(out) => None(out'), AtMostOne(out) => AtMostOne(out'), Prompts(out) => Prompts(out'),
         None(wire) => None(wire'), AtMostOne(wire) => AtMostOne(wire'), NoOk(wire) => NoOk(wire'),
         calls'["mesh"] = calls["mesh"],
         mesh' \in {"steer", "start"} => mesh' = mesh,
         got' \in BOOLEAN, got = TRUE => got' = TRUE,
         msg' = "accepted" => msg = "accepted"
  PROVE  WireInv' /\ AckInv'
<1>1. WireInv /\ AckInv /\ got \in BOOLEAN
  BY DEF Inv, PeerTypes
<1>2. WireInv'
  BY <1>1 DEF WireInv
<1>3. AckInv'
  BY <1>1 DEF AckInv, AckTruthful
<1> QED
  BY <1>2, <1>3

\* A call of another goroutine.
LEMMA OtherCallKeeps ==
  ASSUME Inv, NEW a \in Actors, a # "mesh", NEW kind \in Tags, Call(a, kind, 0)
  PROVE  /\ None(out) => None(out')
         /\ AtMostOne(out) => AtMostOne(out')
         /\ Prompts(out) => Prompts(out')
         /\ calls'["mesh"] = calls["mesh"]
<1> DEFINE f == Frame(kind, a, 0, 0)
<1>1. /\ f \in Frames /\ out \in Seq(Frames) /\ calls'["mesh"] = calls["mesh"]
      /\ out' = Append(out, f) \/ out' = out
  BY TurnZero, Callers, CallEffect DEF Inv, LinkTypes
<1>2. f.by # "mesh"
  BY DEF Frame
<1> HIDE DEF f
<1> QED
  BY <1>1, <1>2, AppendFrames

\* The queues of a connection that ended are empty.
LEMMA EmptiedWire ==
  ASSUME Inv, out' = <<>>, wire' = <<>>, calls'["mesh"] = calls["mesh"],
         UNCHANGED <<mesh, got, msg>>
  PROVE  WireInv' /\ AckInv'
<1>1. got \in BOOLEAN
  BY DEF Inv, PeerTypes
<1> QED
  BY <1>1, EmptyFrames, KeepsWire

\* A call of the mesh goroutine: the only one it has under way.
LEMMA MeshCallStep ==
  ASSUME Inv, NEW kind \in Tags, NEW n \in Turns, Call("mesh", kind, n), calls["mesh"].st # "wait",
         UNCHANGED <<wire, got>>, msg' # "accepted" \/ msg' = msg,
         mesh' \in {"steer", "start"} => kind \in {"steer", "start"}
  PROVE  WireInv' /\ AckInv'
<1> DEFINE f == Frame(kind, "mesh", n, 0)
<1>1. None(out) /\ None(wire)
  BY DEF Inv, WireInv
<1>2. /\ f \in Frames /\ out \in Seq(Frames) /\ calls'["mesh"].st \in {"wait", "err"}
      /\ \/ out' = Append(out, f) /\ calls'["mesh"].st = "wait"
         \/ out' = out
  BY Callers, CallEffect DEF Inv, LinkTypes
<1>3. f.t = kind
  BY DEF Frame
<1> HIDE DEF f
<1>4. /\ AtMostOne(out') /\ (mesh' \in {"steer", "start"} => Prompts(out'))
      /\ calls'["mesh"].st # "wait" => None(out')
  BY <1>1, <1>2, <1>3, AppendFrames, NoneFrames
<1>5. None(wire') /\ AtMostOne(wire') /\ NoOk(wire')
  BY <1>1, NoneFrames
<1>6. WireInv'
  BY <1>4, <1>5 DEF WireInv
<1>7. AckTruthful'
  BY DEF Inv, AckInv, AckTruthful
<1> QED
  BY <1>2, <1>5, <1>6, <1>7 DEF AckInv

\* A call of the mesh goroutine has returned, and nothing of it is under way.
LEMMA MeshReturnStep ==
  ASSUME Inv, Returned("mesh"), calls["mesh"].st # "wait", UNCHANGED <<out, wire, got>>,
         mesh' \notin {"steer", "start"}, msg' = "accepted" => msg = "accepted" \/ got = TRUE
  PROVE  WireInv' /\ AckInv'
<1>1. None(out) /\ None(wire)
  BY DEF Inv, WireInv
<1>2. AtMostOne(out') /\ AtMostOne(wire')
  BY <1>1, NoneFrames
<1>3. WireInv'
  BY <1>1, <1>2 DEF WireInv
<1> QED
  BY <1>3 DEF Inv, AckInv, AckTruthful

\* The app server's replies keep the wire sound and the acks truthful.
LEMMA ServeWireStep ==
  ASSUME Inv, SrvServe
  PROVE  WireInv' /\ AckInv'
<1> DEFINE r == Head(out)
           f == Frame("turn", "nobody", srv.done + 1, 0)
<1>1. out \in Seq(Frames) /\ wire \in Seq(Frames) /\ got \in BOOLEAN /\ out # <<>> /\ out' = Tail(out)
  <2>1. out \in Seq(Frames) /\ wire \in Seq(Frames) /\ got \in BOOLEAN
    BY ZenonT(60) DEF Inv, LinkTypes, PeerTypes
  <2> QED
    BY <2>1 DEF SrvServe
<1>2. UNCHANGED <<calls, mesh, msg>> /\ got' \in BOOLEAN /\ (got = TRUE => got' = TRUE)
  BY <1>1 DEF SrvServe
<1>3. PICK w \in {wire} \cup {Append(wire, f)}, g \in Frames :
           /\ w \in Seq(Frames)
           /\ w # wire => f \in Frames
           /\ wire' = Append(w, g)
           /\ g.by = r.by /\ g.t \in {"ok", "err"}
           /\ g.t = "ok" /\ r.t \in {"steer", "start"} => got' = TRUE
  BY ServeEffect
<1>4. f.by = "nobody"
  BY DEF Frame
<1> HIDE DEF f
<1>5. /\ None(wire) => None(w)
      /\ AtMostOne(wire) => AtMostOne(w)
      /\ NoOk(wire) => NoOk(w)
  BY <1>1, <1>3, <1>4, AppendFrames
<1>6. CASE r.by # "mesh"
  <2>1. /\ None(wire) => None(wire')
        /\ AtMostOne(wire) => AtMostOne(wire')
        /\ NoOk(wire) => NoOk(wire')
    BY <1>3, <1>5, <1>6, AppendFrames
  <2>2. /\ None(out) => None(out')
        /\ AtMostOne(out) => AtMostOne(out')
        /\ Prompts(out) => Prompts(out')
    BY <1>1, TailFrames
  <2> QED
    BY <1>2, <2>1, <2>2, KeepsWire
<1>7. CASE r.by = "mesh"
  <2>1. ~None(out)
    BY <1>1, <1>7, TailFrames
  <2>2. AtMostOne(out) /\ None(wire) /\ calls["mesh"].st = "wait"
    BY <2>1 DEF Inv, WireInv
  <2>3. None(out')
    BY <1>1, <1>7, <2>2, TailFrames
  <2>4. AtMostOne(wire')
    BY <1>3, <1>5, <2>2, AppendFrames
  <2>5. AtMostOne(out') /\ Prompts(out')
    BY <2>3, NoneFrames
  <2>6. WireInv'
    BY <1>2, <2>2, <2>3, <2>4, <2>5 DEF WireInv
  <2>7. mesh \in {"steer", "start"} /\ got' = FALSE => NoOk(wire')
    <3> SUFFICES ASSUME mesh \in {"steer", "start"}, got' = FALSE
                 PROVE  NoOk(wire')
      OBVIOUS
    <3>1. r.t \in {"steer", "start"}
      <4>1. Prompts(out) /\ 1 \in DOMAIN out /\ out[1] = r
        BY <1>1 DEF Inv, WireInv
      <4> QED
        BY <1>7, <4>1 DEF Prompts
    <3>2. g.t # "ok" /\ NoOk(w)
      BY <1>3, <1>5, <2>2, <3>1, NoneFrames
    <3> QED
      BY <1>3, <3>2, AppendFrames
  <2>8. AckInv'
    BY <1>2, <2>2, <2>7 DEF Inv, AckInv, AckTruthful
  <2> QED
    BY <2>6, <2>8
<1> QED
  BY <1>6, <1>7, ZenonT(60)


\* So do the reader's steps.
LEMMA ReaderWireStep ==
  ASSUME Inv, Reader
  PROVE  WireInv' /\ AckInv'
<1>1. /\ out \in Seq(Frames) /\ wire \in Seq(Frames) /\ calls \in [Actors -> Results]
      /\ got \in BOOLEAN /\ "mesh" \in Actors /\ LinkInv /\ WireInv /\ AckInv
  BY Callers DEF Inv, LinkTypes, PeerTypes
<1>2. CASE ReaderFinishes
  BY <1>1, <1>2, KeepsWire DEF ReaderFinishes
<1>3. CASE ReaderFails
  <2>1. out = <<>> /\ wire = <<>> /\ UNCHANGED <<out, wire, mesh, got, msg>>
    BY <1>1, <1>3 DEF ReaderFails, LinkInv, peerVars
  <2>2. calls'["mesh"].st # "ok" \/ calls'["mesh"] = calls["mesh"]
    BY <1>1, <1>3 DEF ReaderFails, FailPending, Result
  <2>3. WireInv'
    BY <2>1, EmptyFrames DEF WireInv
  <2> QED
    BY <1>1, <2>1, <2>2, <2>3, EmptyFrames DEF AckInv, AckTruthful
<1>4. CASE ReaderTakes
  <2> DEFINE f == Head(wire)
             s == Tail(wire)
  <2>1. /\ f \in Frames /\ s \in Seq(Frames) /\ UNCHANGED got
        /\ None(wire) => None(s) /\ f.by # "mesh"
        /\ AtMostOne(wire) => AtMostOne(s)
        /\ AtMostOne(wire) /\ f.by = "mesh" => None(s)
        /\ NoOk(wire) => NoOk(s)
    BY <1>1, <1>4, TailFrames DEF ReaderTakes
  <2>2. ~ReaderClosed => wire' = s
    BY <1>4 DEF ReaderTakes, ReaderReply, ReaderStarted, ReaderStatus, ReaderTurn, ReaderItem, ReaderCompleted
  <2>3. CASE ReaderReply
    <3>1. UNCHANGED <<out, mesh, msg>> /\ f.t \in {"ok", "err"} /\ wire' = s
      BY <1>4, <2>3 DEF ReaderReply, ReaderTakes
    <3>2. CASE f.by = "mesh" /\ calls["mesh"].st = "wait"
      <4>1. calls' = [calls EXCEPT ![f.by] = Result(f.t, f.n, f.d)]
        BY <1>1, <2>3, <3>2 DEF ReaderReply
      <4>2. calls'["mesh"].st = f.t
        BY <1>1, <3>2, <4>1 DEF Result
      <4>3. ~None(wire) /\ AtMostOne(wire)
        BY <1>1, <2>1, <3>2 DEF WireInv
      <4>4. None(s) /\ None(out)
        BY <1>1, <2>1, <3>2, <4>3 DEF WireInv
      <4>5. AtMostOne(out) /\ AtMostOne(s) /\ Prompts(out) /\ NoOk(s)
        BY <4>4, NoneFrames
      <4>6. WireInv'
        BY <3>1, <4>4, <4>5 DEF WireInv
      <4>7. mesh \in {"steer", "start"} /\ got = FALSE => f.t # "ok"
        <5>1. wire # <<>> /\ 1 \in DOMAIN wire /\ wire[1] = f
          BY <1>1, <1>4 DEF ReaderTakes
        <5> QED
          BY <1>1, <3>2, <5>1 DEF AckInv, NoOk
      <4> QED
        BY <1>1, <2>1, <3>1, <4>2, <4>5, <4>6, <4>7 DEF AckInv, AckTruthful
    <3>3. CASE ~(f.by = "mesh" /\ calls["mesh"].st = "wait")
      <4>1. calls'["mesh"] = calls["mesh"]
        BY <1>1, <2>3, <3>3 DEF ReaderReply
      <4> QED
        BY <1>1, <2>1, <3>1, <4>1, KeepsWire
    <3> QED
      BY <3>2, <3>3
  <2>4. CASE ReaderStarted
    <3>1. UNCHANGED <<out, calls, msg>> /\ mesh' \in {mesh, "restore"} /\ wire' = s
      BY <1>4, <2>4 DEF ReaderStarted, EnsureThread, ReaderTakes
    <3> QED
      BY <1>1, <2>1, <3>1, KeepsWire
  <2>5. CASE ReaderStatus
    <3>1. UNCHANGED <<mesh, msg>> /\ wire' = s
      BY <1>4, <2>5 DEF ReaderStatus, ReaderTakes
    <3>2. Call("cap", "turns", 0) \/ Call("disc", "read", 0) \/ UNCHANGED <<calls, out>>
      BY <2>5 DEF ReaderStatus
    <3>3. /\ None(out) => None(out')
          /\ AtMostOne(out) => AtMostOne(out')
          /\ Prompts(out) => Prompts(out')
          /\ calls'["mesh"] = calls["mesh"]
      BY <3>2, Callers, OtherCallKeeps DEF Tags
    <3> QED
      BY <1>1, <2>1, <3>1, <3>3, KeepsWire
  <2>6. CASE ReaderTurn \/ ReaderItem \/ ReaderCompleted
    <3>1. UNCHANGED <<out, calls, mesh, msg>> /\ wire' = s
      BY <1>4, <2>6 DEF ReaderTurn, ReaderItem, ReaderCompleted, ReaderTakes
    <3> QED
      BY <1>1, <2>1, <3>1, KeepsWire
  <2>7. CASE ReaderClosed
    <3>1. CASE ~p.on
      <4>1. UNCHANGED <<out, calls, mesh, msg>> /\ wire' = s
        BY <1>4, <2>7, <3>1 DEF ReaderClosed, ReaderTakes
      <4> QED
        BY <1>1, <2>1, <4>1, KeepsWire
    <3>2. CASE p.on
      <4>1. /\ out' = Disowned("mesh", out) /\ wire' = Disowned("mesh", s) /\ mesh' = "off"
            /\ msg' = (IF msg = "taken" THEN "lost" ELSE msg)
        BY <1>4, <2>7, <3>2 DEF ReaderClosed, CloseThread, ReaderTakes
      <4>2. None(out') /\ None(wire')
        BY <1>1, <2>1, <4>1, DisownedFrames
      <4>3. AtMostOne(out') /\ AtMostOne(wire')
        BY <4>2, NoneFrames
      <4>4. WireInv'
        BY <4>1, <4>2, <4>3 DEF WireInv
      <4> QED
        BY <1>1, <2>1, <4>1, <4>4 DEF AckInv, AckTruthful
    <3> QED
      BY <3>1, <3>2
  <2> QED
    BY <1>4, <2>3, <2>4, <2>5, <2>6, <2>7 DEF ReaderTakes
<1> QED
  BY <1>2, <1>3, <1>4 DEF Reader

\* So do the main loop's steps.
LEMMA MainWireStep ==
  ASSUME Inv, Main
  PROVE  WireInv' /\ AckInv'
<1>1. got \in BOOLEAN /\ LinkTypes /\ LinkInv /\ "main" \in Actors /\ "mesh" \in Actors
  BY Callers DEF Inv, PeerTypes
<1>2. CASE MainConnects \/ MainCloses
  BY <1>2, EmptiedWire DEF MainConnects, MainCloses, peerVars
<1>3. CASE MainHello \/ MainList \/ (MainListed /\ main' = "read")
  <2>1. /\ Call("main", "initialize", 0) \/ Call("main", "list", 0) \/ Call("main", "read", 0)
        /\ UNCHANGED <<wire, mesh, got, msg>>
    BY <1>3 DEF MainHello, MainList, MainListed, peerVars
  <2>2. /\ None(out) => None(out')
        /\ AtMostOne(out) => AtMostOne(out')
        /\ Prompts(out) => Prompts(out')
        /\ calls'["mesh"] = calls["mesh"]
    BY <1>1, <2>1, OtherCallKeeps DEF Tags
  <2> QED
    BY <1>1, <2>1, <2>2, KeepsWire
<1>4. CASE MainInit \/ MainRead \/ (MainListed /\ main' # "read")
  <2>1. /\ Returned("main") /\ UNCHANGED <<out, wire, got, msg>>
        /\ mesh' \in {mesh, "restore"}
    BY <1>4 DEF MainInit, MainRead, MainListed, EnsureThread, peerVars
  <2>2. calls'["mesh"] = calls["mesh"]
    BY <1>1, <2>1, ReturnEffect
  <2> QED
    BY <1>1, <2>1, <2>2, KeepsWire
<1>5. CASE MainServe \/ MainClears
  <2>1. UNCHANGED <<out, wire, calls, got, msg, mesh>>
    BY <1>5 DEF MainServe, MainClears, peerVars
  <2> QED
    BY <1>1, <2>1, KeepsWire
<1> QED
  BY <1>2, <1>3, <1>4, <1>5 DEF Main

\* So do the mesh connection's steps.
LEMMA MeshWireStep ==
  ASSUME Inv, Mesh
  PROVE  WireInv' /\ AckInv'
<1>1. got \in BOOLEAN /\ LinkTypes /\ LinkInv /\ p.active \in Turns /\ 0 \in Turns
  BY TurnZero DEF Inv, PeerTypes, Peers
<1>2. CASE MeshRestore \/ MeshRegister \/ MeshPersist \/ MeshDial \/ MeshReconnects
  <2>1. /\ UNCHANGED <<out, wire, calls, got, msg>>
        /\ mesh' \notin {"steer", "start"}
    BY <1>2 DEF MeshRestore, RestoreIdentity, MeshRegister, PersistBinding, MeshPersist, MeshDial,
                MeshReconnects, appVars
  <2> QED
    BY <1>1, <2>1, KeepsWire
<1>3. CASE MeshContext
  <2>1. UNCHANGED <<wire, got, msg>> /\ mesh' \in {"dial", "inject"} /\ calls["mesh"].st = "none"
    BY <1>3 DEF MeshContext, Inv, Calling, MeshInv
  <2>2. CASE UNCHANGED <<calls, out>>
    BY <1>1, <2>1, <2>2, KeepsWire
  <2>3. CASE Call("mesh", "inject_items", 0)
    BY <1>1, <2>1, <2>3, MeshCallStep DEF Tags
  <2> QED
    BY <1>3, <2>2, <2>3 DEF MeshContext
<1>4. CASE MeshInjected
  BY <1>4, MeshReturnStep DEF MeshInjected
<1>5. CASE MeshTakes
  <2>1. /\ UNCHANGED <<wire, got>> /\ msg' = "taken" /\ calls["mesh"].st = "none"
        /\ Call("mesh", "steer", p.active) \/ Call("mesh", "start", 0)
    BY <1>5 DEF MeshTakes, Inv, Calling, MeshInv
  <2>2. "steer" \in Tags /\ "start" \in Tags
    BY DEF Tags
  <2> QED
    BY <1>1, <2>1, <2>2, MeshCallStep
<1>6. CASE MeshSteered
  <2>1. mesh = "steer" /\ calls["mesh"].st \in {"ok", "err"} /\ UNCHANGED <<wire, got>>
    BY <1>6 DEF MeshSteered
  <2>2. CASE calls["mesh"].st = "ok"
    <3>1. mesh' = "read" /\ Returned("mesh") /\ UNCHANGED out
      BY <1>6, <2>2 DEF MeshSteered
    <3>2. got = TRUE
      BY <1>1, <2>1, <2>2 DEF Inv, AckInv
    <3> QED
      BY <2>1, <3>1, <3>2, MeshReturnStep
  <2>3. CASE calls["mesh"].st # "ok"
    <3>1. mesh' = "start" /\ Call("mesh", "start", 0) /\ UNCHANGED msg
      BY <1>6, <2>3 DEF MeshSteered
    <3> QED
      BY <1>1, <2>1, <3>1, MeshCallStep DEF Tags
  <2> QED
    BY <2>2, <2>3
<1>7. CASE MeshStarted
  <2>1. /\ mesh = "start" /\ calls["mesh"].st \in {"ok", "err"} /\ UNCHANGED <<out, wire, got>>
        /\ mesh' = "read" /\ Returned("mesh") /\ DeliveryAck(calls["mesh"].st = "ok")
    BY <1>7 DEF MeshStarted
  <2>2. msg' = "accepted" => calls["mesh"].st = "ok"
    BY <2>1 DEF DeliveryAck
  <2>3. calls["mesh"].st = "ok" => got = TRUE
    BY <1>1, <2>1 DEF Inv, AckInv
  <2> QED
    BY <2>1, <2>2, <2>3, MeshReturnStep
<1> QED
  BY <1>2, <1>3, <1>4, <1>5, <1>6, <1>7 DEF Mesh

\* Every step keeps the wire sound and the acks truthful.
LEMMA WireStep ==
  ASSUME Inv, Next
  PROVE  WireInv' /\ AckInv'
<1>1. /\ got \in BOOLEAN /\ LinkTypes /\ LinkInv /\ "mesh" \in Actors
      /\ out \in Seq(Frames) /\ wire \in Seq(Frames)
  BY Callers DEF Inv, PeerTypes, LinkTypes
<1>2. CASE Main
  BY <1>2, MainWireStep
<1>3. CASE Reader
  BY <1>3, ReaderWireStep
<1>4. CASE Mesh
  BY <1>4, MeshWireStep
<1>5. CASE SrvServe
  BY <1>5, ServeWireStep
<1>6. CASE SrvOpen \/ SrvClose \/ SrvTurn \/ SrvComplete
  <2>1. UNCHANGED <<out, calls, mesh, got, msg>>
    BY <1>6, ServerNotifies DEF peerVars
  <2>2. /\ None(wire) => None(wire')
        /\ AtMostOne(wire) => AtMostOne(wire')
        /\ NoOk(wire) => NoOk(wire')
    BY <1>6, ServerNotifies
  <2> QED
    BY <1>1, <2>1, <2>2, KeepsWire
<1>7. CASE CaptureReads \/ DiscoverReturns
  <2>1. /\ Returned("cap") \/ Returned("disc")
        /\ UNCHANGED <<out, wire, got, msg>> /\ mesh' \in {mesh, "restore"}
    BY <1>7 DEF CaptureReads, DiscoverReturns, EnsureThread
  <2>2. calls'["mesh"] = calls["mesh"]
    BY <1>1, <2>1, Callers, ReturnEffect
  <2> QED
    BY <1>1, <2>1, <2>2, KeepsWire
<1>8. CASE AppLost
  BY <1>8, EmptiedWire DEF AppLost, peerVars
<1>9. CASE \E a \in Actors : CallTimeout(a)
  <2>1. PICK a \in Actors : CallTimeout(a)
    BY <1>9
  <2>2. /\ out' = Disowned(a, out) /\ wire' = Disowned(a, wire) /\ UNCHANGED <<mesh, got, msg>>
        /\ calls' = [calls EXCEPT ![a] = Result("err", 0, 0)]
    BY <2>1 DEF CallTimeout, peerVars
  <2>3. CASE a # "mesh"
    <3>1. calls'["mesh"] = calls["mesh"]
      BY <1>1, <2>2, <2>3 DEF LinkTypes
    <3> QED
      BY <1>1, <2>2, <3>1, DisownedFrames, KeepsWire
  <2>4. CASE a = "mesh"
    <3>1. calls'["mesh"].st = "err"
      BY <1>1, <2>2, <2>4 DEF LinkTypes, Result
    <3>2. None(out') /\ None(wire')
      BY <1>1, <2>2, <2>4, DisownedFrames
    <3>3. AtMostOne(out') /\ AtMostOne(wire') /\ Prompts(out') /\ NoOk(wire')
      BY <3>2, NoneFrames
    <3>4. WireInv'
      BY <3>2, <3>3 DEF WireInv
    <3> QED
      BY <2>2, <3>1, <3>3, <3>4 DEF Inv, AckInv, AckTruthful
  <2> QED
    BY <2>3, <2>4
<1>10. CASE Crash
  <2>1. /\ out' = <<>> /\ wire' = <<>> /\ mesh' = "off" /\ UNCHANGED got
        /\ msg' = (IF msg \in {"sent", "taken"} THEN "lost" ELSE msg)
    BY <1>10 DEF Crash
  <2>2. WireInv'
    BY <2>1, EmptyFrames DEF WireInv
  <2> QED
    BY <2>1, <2>2 DEF Inv, AckInv, AckTruthful
<1>11. CASE \/ Deliver \/ MeshLost \/ Expire \/ HookPosts \/ HookAdds \/ Watch \/ Leave \/ Follow
            \/ CaptureFinishes
            \/ \E i \in Ids, f \in {"soft", "hard", "gone", "lost"} : Fate(i, f)
            \/ \E i \in Ids : Unregister(i) \/ Demote(i)
  <2>1. UNCHANGED <<out, wire, calls, mesh, got>> /\ (msg' = "accepted" => msg = "accepted")
    BY <1>11 DEF Deliver, MeshLost, Expire, HookPosts, HookAdds, Watch, Leave, Follow,
                 CaptureFinishes, Fate, Unregister, Demote, appVars, peerVars
  <2> QED
    BY <1>1, <2>1, KeepsWire
<1> QED
  BY <1>2, <1>3, <1>4, <1>5, <1>6, <1>7, <1>8, <1>9, <1>10, <1>11
  DEF Next, Capture, Discover, Environment


-----------------------------------------------------------------------------
(* Theorems *)

\* The invariant holds initially.
LEMMA InitInv ==
  ASSUME Init
  PROVE  Inv
<1>1. WinInv
  BY WindowAssumption DEF Init, WindowInit, WinInv, WindowTypeOK, NoStream
<1>2. LinkTypes /\ LinkInv
  BY TurnZero, EmptyFrames, Callers DEF Init, LinkTypes, LinkInv, NoCalls, Result, Results
<1>3. PeerTypes
  <2>1. MaxIds \in Nat
    BY BridgeAssumption
  <2>2. p \in Peers
    BY <2>1, TurnZero DEF Init, Peers, NoPeer
  <2>3. cap \in Caps
    BY TurnZero DEF Init, Caps
  <2>4. disk \in [cert : 0 .. MaxIds, stale : BOOLEAN, ctx : BOOLEAN]
    BY <2>1 DEF Init
  <2>5. reg \in [Ids -> RegStates]
    BY DEF Init, RegStates
  <2> QED
    BY <2>2, <2>3, <2>4, <2>5 DEF Init, PeerTypes, Peers, Caps, RegStates
<1>4. MeshInv /\ CertInv
  BY Callers DEF Init, Calling, MeshInv, CertInv, NoPeer, NoCalls, Result
<1>5. WireInv /\ AckInv
  BY EmptyFrames DEF Init, WireInv, AckInv, AckTruthful
<1>6. RegInv
  BY DEF Init, NoPeer, RegInv, Known
<1> QED
  BY <1>1, <1>2, <1>3, <1>4, <1>5, <1>6 DEF Inv

\* Every step keeps the invariant.
LEMMA NextInv ==
  ASSUME Inv, [Next]_vars
  PROVE  Inv'
<1>1. CASE Next
  BY <1>1, WindowStep, LinkStep, PeerStep, WireStep DEF Inv
<1>2. CASE UNCHANGED vars
  <2>1. UNCHANGED <<appVars, peerVars, winVars>>
    BY <1>2 DEF vars
  <2>2. WinInv' /\ LinkTypes' /\ LinkInv'
    BY <2>1, UnchangedWindow, UnchangedLink DEF Inv
  <2>3. PeerTypes' /\ MeshInv' /\ CertInv' /\ RegInv'
    BY <2>1, UnchangedPeer DEF appVars, peerVars
  <2>4. WireInv' /\ AckInv'
    <3>1. UNCHANGED <<out, wire, calls, mesh, got, msg>> /\ got \in BOOLEAN
      BY <2>1 DEF appVars, peerVars, Inv, PeerTypes
    <3> QED
      BY <3>1, KeepsWire
  <2> QED
    BY <2>2, <2>3, <2>4 DEF Inv
<1> QED
  BY <1>1, <1>2

\* The bridge keeps its inductive invariant: frames are only under way on a live
\* connection, the place of the mesh goroutine says what identity and which calls
\* it has, at most one frame of it is under way and none after its deadline, and
\* the certificate it carries is as good as the file's (call, readApp, runMesh,
\* ensureThread, closeThread, cachedBirthCertificate).
THEOREM BridgeInvariant == Spec => []Inv
<1>1. Init => Inv
  BY InitInv
<1>2. Inv /\ [Next]_vars => Inv'
  BY NextInv
<1> QED
  BY <1>1, <1>2, PTL DEF Spec

\* The bridge and the event window always have the state TypeOK describes: the
\* window within its capacity and numbered without gaps, no reader without a
\* connection, no pending call without a caller, no socket without a
\* registered peer (push, EventsSince, serveApp, runMesh).
THEOREM TypeCorrect == Spec => []TypeOK
<1>1. Inv => TypeOK
  <2> SUFFICES ASSUME Inv
               PROVE  TypeOK
    OBVIOUS
  <2>1. WindowTypeOK /\ LinkTypes /\ LinkInv /\ PeerTypes /\ MeshInv
    BY DEF Inv, WinInv
  <2>2. /\ app \in {"nil", "up", "dead"}
        /\ main \in {"connect", "hello", "init", "load", "list", "read", "serve", "close"}
        /\ reader \in {"off", "run", "finish", "failed"}
        /\ (reader = "off") = (app = "nil")
        /\ calls["main"].st # "none" => main \in {"init", "list", "read"}
    BY <2>1 DEF LinkTypes, LinkInv
  <2>3. /\ calls["mesh"].st # "none" => mesh \in {"inject", "steer", "start"}
        /\ sock = "open" => p.id # 0 /\ reg[p.id] = "online"
    BY <2>1 DEF Calling, MeshInv
  <2>4. mesh = "off" <=> ~p.on
    BY <2>1, PeerFacts DEF Calling, MeshInv, Peers
  <2>5. p.active \in 0 .. MaxTurns /\ p.hint \in 0 .. MaxIds /\ p.id \in 0 .. MaxIds /\ disk.cert \in 0 .. MaxIds
    BY PeerFacts DEF Peers, Turns
  <2> QED
    BY <2>1, <2>2, <2>3, <2>4, <2>5 DEF TypeOK
<1> QED
  BY <1>1, BridgeInvariant, PTL

\* A delivery acked "accepted" was given to the thread, for any number of turns
\* and under every loss of a connection, deadline and crash (inject, deliveryAck,
\* failPending).
THEOREM AcksTruthful == Spec => []AckTruthful
<1>1. Inv => AckTruthful
  BY DEF Inv, AckInv
<1> QED
  BY <1>1, BridgeInvariant, PTL

\* A claim of its own id mints another one only when the daemon lost that id.
LEMMA LostMints ==
  ASSUME Inv, p.id # 0, p.id \in Ids, NEW k \in Ids, AllocateAndRegister(p.id, FALSE, k),
         NEW i \in Ids, reg[i] = "none", reg'[i] # "none"
  PROVE  \E j \in Ids : reg[j] \in {"gone", "lost"}
<1>1. reg \in [Ids -> RegStates] /\ p.id \in 0 .. MaxIds /\ reg[p.id] # "none"
  BY PeerFacts DEF Inv, MeshInv
<1>2. ~Known(reg[p.id])
  BY <1>1, Allocates
<1>3. ~Retired(reg[p.id])
  BY DEF AllocateAndRegister, Refuses
<1> QED
  BY <1>1, <1>2, <1>3 DEF Known, Retired, RegStates

\* With an unexpired certificate on disk, a step gives the thread a new id only
\* when an earlier one was forgotten.
LEMMA MintStep ==
  ASSUME Inv, Next, NEW i \in Ids, disk.cert # 0, disk.stale = FALSE, reg[i] = "none", reg'[i] # "none"
  PROVE  \E j \in Ids : reg[j] \in {"gone", "lost"}
<1>1. /\ p \in Peers /\ reg \in [Ids -> RegStates] /\ (p.id # 0 => p.id \in Ids)
      /\ (p.cert # 0 => p.cert \in Ids) /\ MeshInv /\ CertInv /\ RegInv
  BY PeerFacts DEF Inv
<1>2. reg' # reg
  OBVIOUS
<1>3. reg' # SocketClosed
  BY <1>1 DEF SocketClosed, Calling, MeshInv
<1>4. CASE Main
  BY <1>2, <1>4 DEF Main, MainConnects, MainHello, MainInit, MainList, MainListed, MainRead,
                    MainServe, MainCloses, MainClears, peerVars
<1>5. CASE Reader
  BY <1>2, <1>3, <1>5 DEF Reader, ReaderTakes, ReaderFinishes, ReaderFails, ReaderReply, ReaderStarted,
     ReaderStatus, ReaderTurn, ReaderItem, ReaderCompleted, ReaderClosed, CloseThread, peerVars
<1>6. CASE MeshRestore
  <2>1. p.cert \in Ids /\ \E k \in Ids : AllocateAndRegister(p.cert, TRUE, k)
    BY <1>1, <1>2, <1>6 DEF MeshRestore, RestoreIdentity
  <2>2. p.cert \in 0 .. MaxIds /\ p.cert # 0
    BY <2>1, PeerFacts DEF Ids
  <2>3. PICK k \in Ids : AllocateAndRegister(p.cert, TRUE, k)
    BY <2>1
  <2>4. ~Known(reg[p.cert])
    BY <2>2, <2>3, Allocates
  <2>5. reg[p.cert] # "closed"
    BY <2>2, <2>3 DEF AllocateAndRegister, Refuses, Retired
  <2> QED
    BY <1>1, <2>1, <2>2, <2>4, <2>5 DEF RegInv, Known, RegStates
<1>7. CASE MeshRegister
  <2>1. mesh = "post" /\ p.on = TRUE
    BY <1>1, <1>7 DEF MeshRegister, Calling, MeshInv, Peers
  <2>2. p.cert # 0
    BY <1>1, <2>1 DEF CertInv
  <2>3. p.id # 0 /\ p.id \in Ids /\ Claim = p.id
    BY <1>1, <2>1, <2>2 DEF CertInv, Claim
  <2>4. \E k \in Ids : AllocateAndRegister(p.id, FALSE, k)
    BY <1>2, <1>7, <2>3 DEF MeshRegister
  <2> QED
    BY <2>3, <2>4, LostMints
<1>8. CASE MeshDial
  <2>1. p.id # 0 /\ p.id \in Ids
    BY <1>1, <1>8 DEF MeshDial, MeshInv
  <2>2. \E k \in Ids : AllocateAndRegister(p.id, FALSE, k)
    BY <1>2, <1>8 DEF MeshDial
  <2> QED
    BY <2>1, <2>2, LostMints
<1>9. CASE Mesh /\ ~MeshRestore /\ ~MeshRegister /\ ~MeshDial
  BY <1>2, <1>9, ZenonT(60) DEF Mesh, MeshPersist, MeshContext, MeshInjected, MeshTakes, MeshSteered, MeshStarted,
     MeshReconnects
<1>10. CASE \E k \in Ids, f \in {"soft", "hard", "gone", "lost"} : Fate(k, f)
  BY <1>1, <1>10 DEF Fate
<1>11. CASE \E k \in Ids : Unregister(k) \/ Demote(k)
  BY <1>1, <1>11 DEF Unregister, Demote
<1>12. CASE MeshLost \/ Crash
  BY <1>3, <1>12 DEF MeshLost, Crash
<1>13. CASE \/ Capture \/ Discover \/ SrvServe \/ Follow \/ SrvOpen \/ SrvClose \/ SrvTurn \/ SrvComplete
            \/ AppLost \/ Deliver \/ Expire \/ HookPosts \/ HookAdds \/ Watch \/ Leave
            \/ \E a \in Actors : CallTimeout(a)
  BY <1>2, <1>13, ZenonT(60) DEF Capture, CaptureReads, CaptureFinishes, Discover, DiscoverReturns, SrvServe, Follow,
     SrvOpen, SrvClose, SrvTurn, SrvComplete, AppLost, Deliver, Expire, HookPosts, HookAdds, Watch, Leave,
     CallTimeout, peerVars
<1> QED
  BY <1>4, <1>5, <1>6, <1>7, <1>8, <1>9, <1>10, <1>11, <1>12, <1>13 DEF Next, Environment

\* While its unexpired certificate is on disk the thread is not given a second
\* id, unless one of its ids was forgotten by the daemon: for any number of ids,
\* crashes and retirements (register, restoreIdentity,
\* handleValidateRuntimeIdentity).
THEOREM IdentityStays == Spec => IdentityKept
<1> DEFINE Kept == \A i \in Ids : disk.cert # 0 /\ ~disk.stale /\ reg[i] = "none" /\ reg'[i] # "none"
                      => \E j \in Ids : reg[j] \in {"gone", "lost"}
<1>1. Inv /\ [Next]_vars => [Kept]_vars
  <2> SUFFICES ASSUME Inv, Next
               PROVE  Kept
    OBVIOUS
  <2> SUFFICES ASSUME NEW i \in Ids, disk.cert # 0, ~disk.stale, reg[i] = "none", reg'[i] # "none"
               PROVE  \E j \in Ids : reg[j] \in {"gone", "lost"}
    OBVIOUS
  <2>1. disk.stale = FALSE
    BY PeerFacts
  <2> QED
    BY <2>1, MintStep
<1> HIDE DEF Kept
<1>2. Spec => [][Kept]_vars
  BY <1>1, BridgeInvariant, PTL DEF Spec
<1> QED
  BY <1>2 DEF IdentityKept, Kept

-----------------------------------------------------------------------------
(* The follower *)

\* A move of the window keeps its follower covered.
LEMMA MoveCovers ==
  ASSUME WinInv, WinInv', owed \in Nat, FollowerCovered, WindowMove
  PROVE  owed' \in Nat /\ FollowerCovered'
<1>1. DOMAIN stream = {"at", "cursor", "token", "base"} /\ stream.cursor \in Nat
      /\ stream.cursor <= pushed /\ pushed \in Nat
  BY DEF WinInv, WindowTypeOK
<1>2. CASE (\E t \in Nat : IngestChatTurn(t)) \/ DeltaAdded
  <2>1. Push
    BY <1>2 DEF IngestChatTurn, DeltaAdded, AddEvent
  <2> QED BY <2>1 DEF Push, FollowerCovered
<1>3. CASE (\E t \in Nat : DeltaChecked(t))
  BY <1>3 DEF DeltaChecked, FollowerCovered
<1>4. CASE Signal
  <2>1. owed' \in Nat /\ UNCHANGED pushed
    BY <1>4 DEF Signal
  <2>2. stream' = [stream EXCEPT !.token = stream.token \/ stream.at # "gone"]
    BY <1>1, <1>4 DEF Signal
  <2>3. stream'.at = "loop" => stream'.token
    BY <1>1, <2>2
  <2> QED BY <2>1, <2>3 DEF FollowerCovered
<1>5. CASE Subscribe \/ StreamGone \/ InitialFlush \/ TakeWake
  <2>1. UNCHANGED owed
    BY <1>5 DEF Subscribe, StreamGone, InitialFlush, TakeWake
  <2>2. CASE Subscribe \/ TakeWake
    <3>1. stream'.at \in {"subscribed", "woken"}
      BY <1>1, <2>2 DEF Subscribe, TakeWake
    <3> QED BY <2>1, <3>1 DEF FollowerCovered
  <2>3. CASE StreamGone
    BY <2>1, <2>3 DEF StreamGone, NoStream, FollowerCovered
  <2>4. CASE InitialFlush
    <3> DEFINE c == IF window = <<>> THEN 0 ELSE Last(window)
    <3>1. stream' = [stream EXCEPT !.at = "flushed", !.cursor = c]
      BY <2>4 DEF InitialFlush
    <3> HIDE DEF c
    <3>2. stream'.at = "flushed"
      BY <1>1, <3>1
    <3> QED BY <2>1, <3>2 DEF FollowerCovered
  <2> QED BY <1>5, <2>2, <2>3, <2>4
<1>6. CASE DrainWake
  <2>1. stream'.base = pushed' /\ UNCHANGED owed
    BY <1>1, <1>6 DEF DrainWake
  <2> QED BY <2>1 DEF FollowerCovered
<1>7. CASE WriteNew
  <2> DEFINE new == EventsSince(stream.cursor)
  <2>1. /\ new # <<>> => Last(new) = pushed
        /\ new = <<>> => stream.cursor = pushed \/ pushed = 0
    BY <1>1, SinceIsLast
  <2>2. stream' = [stream EXCEPT !.at = "loop", !.cursor = IF new = <<>> THEN stream.cursor ELSE Last(new)]
    BY <1>1, <1>7 DEF WriteNew
  <2> HIDE DEF new
  <2>3. stream'.cursor = IF new = <<>> THEN stream.cursor ELSE Last(new)
    BY <1>1, <2>2
  <2>4. stream'.cursor = pushed /\ UNCHANGED <<pushed, owed>>
    BY <1>1, <1>7, <2>1, <2>3 DEF WriteNew
  <2> QED BY <2>4 DEF FollowerCovered
<1> QED BY <1>2, <1>3, <1>4, <1>5, <1>6, <1>7 DEF WindowMove, StreamStep

\* A follower of the events does not sleep on an unread event: whatever is pushed between
\* its token and its read, coalesced into one token or evicted behind its cursor, it waits
\* only when it has written the last event, or none since its loop began, or a signal is on
\* its way: the safety half of LoopEventsShown.
THEOREM FollowersCovered == Spec => []FollowerCovered
<1>1. Init => owed \in Nat /\ FollowerCovered
  BY DEF Init, WindowInit, NoStream, FollowerCovered
<1>2. Inv /\ Inv' /\ owed \in Nat /\ FollowerCovered /\ [Next]_vars
        => (owed \in Nat)' /\ FollowerCovered'
  <2> SUFFICES ASSUME Inv, Inv', owed \in Nat, FollowerCovered, [Next]_vars
               PROVE  owed' \in Nat /\ FollowerCovered'
    OBVIOUS
  <2>1. WinInv /\ WinInv'
    BY DEF Inv
  <2>2. CASE UNCHANGED winVars
    BY <2>2 DEF winVars, FollowerCovered
  <2>3. CASE Next
    BY <2>1, <2>2, <2>3, WindowMoves, MoveCovers
  <2>4. CASE UNCHANGED vars
    BY <2>2, <2>4 DEF vars
  <2> QED BY <2>3, <2>4
<1> QED BY <1>1, <1>2, BridgeInvariant, PTL DEF Spec
=============================================================================
