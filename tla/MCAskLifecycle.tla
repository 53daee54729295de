--------------------------- MODULE MCAskLifecycle ---------------------------
(* Instances of AskLifecycle for TLC. *)
EXTENDS AskLifecycle, TLC

\* Redelivery workers are interchangeable, and so are peers with one identity
\* that come and go alike.
Symmetry == Permutations(Workers) \cup Permutations(Twins)
=============================================================================
