----------------------------- MODULE AskTracker -----------------------------
(***************************************************************************)
(* The in-memory ask ledger of daemon-go/service/ask_tracker.go: each      *)
(* method of AskTracker, one critical section of its mutex, as one action  *)
(* formula.  AskLifecycle composes them with the goroutines that call them.*)
(*                                                                         *)
(* Texts are left out: what matters is whether a reply is captured or      *)
(* stashed.  An answer is its outcome; one the question refuses            *)
(* (validateAnswer) changes nothing and is no step.  A dropped correlation *)
(* id is not used again, so one channel per id is enough: a channel is made*)
(* only for an open ask and an ask is closed once.                         *)
(***************************************************************************)
CONSTANTS
  Cids,     \* correlation ids
  Peers,    \* peer ids
  NoPeer    \* "__repowire_control__", the human; also no peer at all

VARIABLES
  ask,        \* Closed and CloseReason: unborn, open, the close reason, or dropped
  from, to,   \* FromPeerID, ToPeerID
  question,   \* the asks with a Question
  pull,       \* the asks with ReplyDelivery "pull"
  answer,     \* Answer; a dropped ask keeps its own as history, nothing reads it
  replied,    \* the asks with a ReplyText
  stashed,    \* the asks with a PendingReply
  known,      \* the asks with an AskerIdentity
  chan,       \* the waiter channel: "absent", "waiting" while in answerWaiters,
              \* the outcome sent on it, "drained" once that is received
  quiescing   \* the peers behind the switch barrier

content == <<from, to, question, pull, answer, replied, stashed, known>>
askVars == <<ask, content, chan, quiescing>>

CloseReason == {"ack", "ack_with_msg", "reply_to", "answered", "send_failed"}
Outcome == {"answered", "acknowledged", "timed_out", "cancelled"}
NoAnswer == "no answer"

AskTypeOK ==
  /\ ask \in [Cids -> CloseReason \cup {"unborn", "open", "dropped"}]
  /\ from \in [Cids -> Peers \cup {NoPeer}]
  /\ to \in [Cids -> Peers \cup {NoPeer}]
  /\ answer \in [Cids -> Outcome \cup {NoAnswer}]
  /\ \A s \in {question, pull, replied, stashed, known} : s \subseteq Cids
  /\ chan \in [Cids -> Outcome \cup {"absent", "waiting", "drained"}]
  /\ quiescing \subseteq Peers

AskInit ==
  /\ ask = [c \in Cids |-> "unborn"]
  /\ from = [c \in Cids |-> NoPeer]
  /\ to = [c \in Cids |-> NoPeer]
  /\ answer = [c \in Cids |-> NoAnswer]
  /\ question = {} /\ pull = {} /\ replied = {}
  /\ stashed = {} /\ known = {}
  /\ chan = [c \in Cids |-> "absent"]
  /\ quiescing = {}

Open(c) == ask[c] = "open"
Closed(c) == ask[c] \in CloseReason
Present(c) == Open(c) \/ Closed(c)
Involves(c, p) == p \in {from[c], to[c]}

With(set, c, flag) == IF flag THEN set \cup {c} ELSE set

\* A barrier that forgets the asker's side.
BarredTarget(f, t) == t \in quiescing
Barred(f, t) == {f, t} \cap quiescing # {}

Register(c, f, t, isQuestion, isPull) ==
  /\ ask[c] = "unborn"
  /\ ~Barred(f, t)
  /\ ask' = [ask EXCEPT ![c] = "open"]
  /\ from' = [from EXCEPT ![c] = f]
  /\ to' = [to EXCEPT ![c] = t]
  /\ question' = With(question, c, isQuestion)
  /\ pull' = With(pull, c, isPull)
  /\ UNCHANGED <<answer, replied, stashed, known, chan, quiescing>>

\* The waiter channel is taken out of answerWaiters and sent the outcome.
Send(cs, outcome) ==
  chan' = [c \in Cids |-> IF c \in cs /\ chan[c] = "waiting" THEN outcome ELSE chan[c]]

\* A removal that leaves the waiters where they are.
cancelNone(cs) == UNCHANGED chan
\* A waiter sent a close reason, not an outcome.
cancelWithReason(cs) == Send(cs, "ack")
cancelWaiter(cs) == Send(cs, "cancelled")

Close(c, reason) ==
  /\ IF Open(c)
       THEN ask' = [ask EXCEPT ![c] = reason] /\ cancelWaiter({c})
       ELSE UNCHANGED <<ask, chan>>
  /\ UNCHANGED <<content, quiescing>>

Record(c, outcome, hasText) ==
  /\ ask' = [ask EXCEPT ![c] = "answered"]
  /\ answer' = [answer EXCEPT ![c] = outcome]
  /\ replied' = With(replied, c, hasText)
  /\ Send({c}, outcome)

\* A guard that only looks for an earlier answer.
Unanswered(c) == Present(c) /\ answer[c] = NoAnswer
\* The first terminal state wins.
Answerable(c) == Open(c) /\ answer[c] = NoAnswer

Answer(c, outcome, hasText) ==
  /\ IF Answerable(c)
       THEN Record(c, outcome, hasText)
       ELSE UNCHANGED <<ask, answer, replied, chan>>
  /\ UNCHANGED <<from, to, question, pull, stashed, known, quiescing>>

CaptureReply(c) ==
  /\ replied' = With(replied, c, Present(c))
  /\ UNCHANGED <<ask, from, to, question, pull, answer, stashed, known,
                 chan, quiescing>>

\* waiterFor, after the switch to pull delivery that WaitForResolution makes.
WaiterFor(c, isPull) ==
  /\ pull' = With(pull, c, isPull)
  /\ chan' = [chan EXCEPT ![c] = "waiting"]
  /\ UNCHANGED <<ask, from, to, question, answer, replied, stashed, known,
                 quiescing>>

\* The waiter takes the value off the channel.
Receive(c) ==
  /\ chan[c] \in Outcome
  /\ chan' = [chan EXCEPT ![c] = "drained"]
  /\ UNCHANGED <<ask, content, quiescing>>

SetPendingReply(c, hasIdentity) ==
  /\ stashed' = With(stashed, c, Open(c))
  /\ known' = IF Open(c) THEN With(known \ {c}, c, hasIdentity) ELSE known
  /\ UNCHANGED <<ask, from, to, question, pull, answer, replied, chan, quiescing>>

\* A stash that has been delivered, to a new asker if it was rebound.
MarkPendingReplyDelivered(c, asker) ==
  /\ IF c \in stashed
       THEN /\ stashed' = stashed \ {c}
            /\ from' = [from EXCEPT ![c] = asker]
            /\ IF Open(c)
                 THEN ask' = [ask EXCEPT ![c] = "ack_with_msg"] /\ cancelWaiter({c})
                 ELSE UNCHANGED <<ask, chan>>
       ELSE UNCHANGED <<ask, from, stashed, chan>>
  /\ UNCHANGED <<to, question, pull, answer, replied, known, quiescing>>

TakePendingRepliesForAsker(p) == {c \in stashed : from[c] = p}
TakeOrphanPendingReplies(live) == {c \in stashed \cap known : from[c] \notin live}

\* The waiters of the removed asks are cancelled and their entries deleted.
Drop(cs) ==
  /\ ask' = [c \in Cids |-> IF c \in cs THEN "dropped" ELSE ask[c]]
  /\ from' = [c \in Cids |-> IF c \in cs THEN NoPeer ELSE from[c]]
  /\ to' = [c \in Cids |-> IF c \in cs THEN NoPeer ELSE to[c]]
  /\ question' = question \ cs /\ pull' = pull \ cs /\ replied' = replied \ cs
  /\ stashed' = stashed \ cs /\ known' = known \ cs
  /\ cancelWaiter(cs)
  /\ UNCHANGED <<answer, quiescing>>

ForgetPeer(p) == Drop({c \in Cids : Present(c) /\ Involves(c, p)})

\* old: the asks older than the ttl.
EvictExpired(old, includeStashed) == Drop(IF includeStashed THEN old ELSE old \ stashed)

BeginQuiesce(p) ==
  /\ p \notin quiescing
  /\ ~\E c \in Cids : Open(c) /\ Involves(c, p)
  /\ quiescing' = quiescing \cup {p}
  /\ UNCHANGED <<ask, content, chan>>

EndQuiesce(p) ==
  /\ quiescing' = quiescing \ {p}
  /\ UNCHANGED <<ask, content, chan>>
=============================================================================
