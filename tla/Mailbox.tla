------------------------------- MODULE Mailbox -------------------------------
(***************************************************************************)
(* What the durable delivery queue promises one recipient, whatever the    *)
(* sockets, drains and crashes around it do.  Deliveries are numbered in   *)
(* the order they are begun; one that is begun may be accepted later, in   *)
(* any order, or never.  The mailbox owes a delivery from the moment it    *)
(* accepts it; it stops owing it only once it has handed it over or as the *)
(* oldest of what it owes (time to live, cap).  A delivery accepted before *)
(* another was begun is handed over first; two that overlap may overtake   *)
(* each other.  Handing one over again is allowed: the promise is "at      *)
(* least once".                                                            *)
(***************************************************************************)
EXTENDS Naturals, FiniteSets

CONSTANT Cap    \* deliveries owed at most

VARIABLES begun,     \* number of deliveries begun so far
          accepted,  \* the ones the mailbox has accepted
          owed,      \* the ones it still owes, each with the number begun when it was accepted
          handed     \* the ones handed over, to a socket or to a drain, at least once

boxVars == <<begun, accepted, owed, handed>>

Init == begun = 0 /\ accepted = {} /\ owed = {} /\ handed = {}

\* S holds the oldest members of T.
Oldest(S, T) == S \subseteq T /\ \A p \in S, q \in T \ S : p.id < q.id

Begin == begun' = begun + 1 /\ UNCHANGED <<accepted, owed, handed>>

\* A delivery is accepted; the oldest, itself perhaps, may fall out to make room.
Accept ==
    \E i \in (1..begun) \ accepted :
      LET owes == owed \cup {[id |-> i, end |-> begun]} IN
      /\ accepted' = accepted \cup {i}
      /\ \E S \in SUBSET owes : Oldest(S, owes) /\ owed' = owes \ S
      /\ Cardinality(owed') <= Cap
      /\ UNCHANGED <<begun, handed>>

Drop ==
    /\ \E S \in SUBSET owed : Oldest(S, owed) /\ owed' = owed \ S
    /\ UNCHANGED <<begun, accepted, handed>>

\* Whatever was accepted before delivery i was begun, and is still owed, goes before i.
Hand ==
    /\ \E i \in accepted :
         /\ \A q \in owed : q.end < i => q.id \in handed
         /\ handed' = handed \cup {i}
    /\ UNCHANGED <<begun, accepted, owed>>

Settle ==
    /\ \E q \in owed : q.id \in handed /\ owed' = owed \ {q}
    /\ UNCHANGED <<begun, accepted, handed>>

\* A drain hands the oldest over and settles them in one transaction.
Take ==
    /\ \E S \in SUBSET owed, T \in SUBSET owed :
          /\ Oldest(S, owed)
          /\ Oldest(T, owed \ S)
          /\ owed' = owed \ (S \cup T)
          /\ handed' = handed \cup {q.id : q \in T}
    /\ UNCHANGED <<begun, accepted>>

Next == Begin \/ Accept \/ Drop \/ Hand \/ Settle \/ Take

Spec == Init /\ [][Next]_boxVars
==============================================================================
