----------------------------- MODULE AskPromise -----------------------------
(***************************************************************************)
(* What the daemon promises about asks, whatever handlers, callbacks,      *)
(* timers, redelivery workers and repair do to the ledger behind it.  An   *)
(* ask is raised once, between peers none of which is being restarted, and *)
(* settled at most once, with an answer or without; then its verdict       *)
(* stands.  It may be forgotten at any time.  A wait is told the verdict,  *)
(* or that there is none: only if there is none or the ask was forgotten.  *)
(* A reply that could not be sent is redelivered to a peer at most once.   *)
(***************************************************************************)
EXTENDS Naturals

CONSTANTS
  Cids,      \* correlation ids
  Peers,     \* peer ids
  Parties,   \* those an ask may be between: peers and the human
  Waits,     \* blocking waits
  Answers,   \* what an ask may be answered with
  Default,   \* the answer a wait records when it times out
  Silence,   \* what a wait may be told when there is no answer
  NoAnswer,
  NoCid

VARIABLES
  phase,     \* unborn, open, settled, forgotten
  parties,   \* the peers an open ask is between
  verdict,   \* the answer an ask was settled with, NoAnswer if without one
  told,      \* what a wait was told last, NoAnswer while it waits
  about,     \* the ask a wait is about
  sends,     \* redeliveries of the reply to a peer
  barred     \* the peers being restarted

promiseVars == <<phase, parties, verdict, told, about, sends, barred>>

Init ==
  /\ phase = [c \in Cids |-> "unborn"]
  /\ parties = [c \in Cids |-> {}]
  /\ verdict = [c \in Cids |-> NoAnswer]
  /\ told = [w \in Waits |-> NoAnswer]
  /\ about = [w \in Waits |-> NoCid]
  /\ sends = [c \in Cids |-> [p \in Peers |-> 0]]
  /\ barred = {}

Raise(c) ==
  /\ phase[c] = "unborn"
  /\ phase' = [phase EXCEPT ![c] = "open"]
  /\ \E f, t \in Parties :
       {f, t} \cap barred = {} /\ parties' = [parties EXCEPT ![c] = {f, t}]
  /\ UNCHANGED <<verdict, told, about, sends, barred>>

Settled(c, v) ==
  /\ phase[c] = "open"
  /\ phase' = [phase EXCEPT ![c] = "settled"]
  /\ parties' = [parties EXCEPT ![c] = {}]
  /\ verdict' = [verdict EXCEPT ![c] = v]

Settle(c) ==
  /\ Settled(c, NoAnswer) \/ \E v \in Answers : Settled(c, v)
  /\ UNCHANGED <<told, about, sends, barred>>

Forget(cs) ==
  /\ \A c \in cs : phase[c] \in {"open", "settled"}
  /\ phase' = [c \in Cids |-> IF c \in cs THEN "forgotten" ELSE phase[c]]
  /\ parties' = [c \in Cids |-> IF c \in cs THEN {} ELSE parties[c]]
  /\ UNCHANGED <<verdict, told, about, sends, barred>>

\* A wait begins, or ends without being told anything.
Turn(w) ==
  /\ told' = [told EXCEPT ![w] = NoAnswer]
  /\ \E c \in Cids : phase[c] # "unborn" /\ about' = [about EXCEPT ![w] = c]
  /\ UNCHANGED <<phase, parties, verdict, sends, barred>>

\* What a wait may be told about an ask.
Truthful(c, v) ==
  \/ v \in Answers /\ v = verdict[c]
  \/ v \in Silence /\ phase[c] = "settled" /\ verdict[c] = NoAnswer
  \/ v \in Silence /\ phase[c] = "forgotten"

Tell(w) ==
  /\ \E v \in Answers \cup Silence :
       /\ told' = [told EXCEPT ![w] = v]
       /\ \E c \in Cids : Truthful(c, v) /\ about' = [about EXCEPT ![w] = c]
  /\ UNCHANGED <<phase, parties, verdict, sends, barred>>

\* A wait that times out settles its ask itself.
Expire(w) ==
  /\ \E c \in Cids : about[w] = c /\ Settled(c, Default)
  /\ told' = [told EXCEPT ![w] = Default]
  /\ UNCHANGED <<about, sends, barred>>

Redeliver(c, p) ==
  /\ sends[c][p] = 0
  /\ sends' = [sends EXCEPT ![c] = [sends[c] EXCEPT ![p] = 1]]
  /\ UNCHANGED <<phase, parties, verdict, told, about, barred>>

Bar(p) ==
  /\ p \notin barred /\ barred' = barred \cup {p}
  /\ \A c \in Cids : p \notin parties[c]
  /\ UNCHANGED <<phase, parties, verdict, told, about, sends>>

Lift(p) ==
  /\ p \in barred /\ barred' = barred \ {p}
  /\ UNCHANGED <<phase, parties, verdict, told, about, sends>>

Next ==
  \/ \E c \in Cids : Raise(c) \/ Settle(c) \/ \E p \in Peers : Redeliver(c, p)
  \/ \E cs \in SUBSET Cids : Forget(cs)
  \/ \E w \in Waits : Turn(w) \/ Tell(w) \/ Expire(w)
  \/ \E p \in Peers : Bar(p) \/ Lift(p)

Spec == Init /\ [][Next]_promiseVars
=============================================================================
