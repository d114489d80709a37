-------------------------- MODULE MCEventDelivery --------------------------
(* EventDelivery on small instances. *)
EXTENDS EventDelivery, TLC

CONSTANTS h1, h2

\* Two calls of consume in one process, or in two.
OneProcess == {{h1, h2}}
TwoProcesses == {{h1}, {h2}}

Symmetry == Permutations(Events) \cup Permutations(Relays) \cup Permutations({h1, h2})
=============================================================================
