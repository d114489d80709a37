--------------------------- MODULE MCWalletLedger ---------------------------
(* WalletLedger on small instances. *)
EXTENDS WalletLedger, TLC

CONSTANTS alice, bob, t1, t2

\* Two transfers in opposite directions, the second one across currencies.
Opposite ==
    t1 :> [from |-> alice, to |-> bob, amount |-> 1, credit |-> 1]
    @@ t2 :> [from |-> bob, to |-> alice, amount |-> 1, credit |-> 2]

BothFunded == alice :> 1 @@ bob :> 1
=============================================================================
