--------------------------- MODULE MCActivityPage ---------------------------
(* ActivityPage on small instances. *)
EXTENDS ActivityPage

\* Requests are all alike.
Slots == Permutations(Loads)
=============================================================================
