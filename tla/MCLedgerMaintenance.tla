------------------------ MODULE MCLedgerMaintenance ------------------------
(* LedgerMaintenance on small instances. *)
EXTENDS LedgerMaintenance, TLC

FiveInOrOut == {5, -5}

\* Rebuilds are all alike.
Alike == Permutations(Rebuilds)
=============================================================================
