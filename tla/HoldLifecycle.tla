--------------------------- MODULE HoldLifecycle ---------------------------
(***************************************************************************)
(* What the ledger promises about the hold of one transfer: it is reserved *)
(* at most once, it ends released or consumed for good, and the receipt of *)
(* the settlement appears in the very step that consumes it.  TransferSaga *)
(* relies on this; WalletLedger provides it, for all transfers at once.    *)
(***************************************************************************)
VARIABLES
    hold,      \* "none", "active", "released" or "consumed"
    receipt    \* a settlement receipt exists

vars == <<hold, receipt>>

Init == hold = "none" /\ receipt = FALSE

Place == hold = "none" /\ hold' = "active" /\ UNCHANGED receipt

Release == hold = "active" /\ hold' = "released" /\ UNCHANGED receipt

\* The owner of the wallet spends the hold outside any transfer.
Consume == hold = "active" /\ hold' = "consumed" /\ UNCHANGED receipt

Settle ==
    /\ hold = "active"
    /\ hold' = "consumed"
    /\ receipt = FALSE
    /\ receipt' = TRUE

Next == Place \/ Release \/ Consume \/ Settle

Spec == Init /\ [][Next]_vars
=============================================================================
