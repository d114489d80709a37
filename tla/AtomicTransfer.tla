--------------------------- MODULE AtomicTransfer ---------------------------
(***************************************************************************)
(* What a transfer promises its two users, whatever the payments service,  *)
(* the ledger service and the network between them do: the money moves at  *)
(* most once, only while the outcome is still open, and the outcome tells   *)
(* the truth about it.  TransferSaga is shown to implement this module.     *)
(***************************************************************************)
VARIABLES outcome, moved

vars == <<outcome, moved>>

Init == outcome = "open" /\ moved = FALSE

\* The ledger books the debit and the credit (WalletsService.settleTransfer).
MoveMoney ==
    /\ outcome = "open"
    /\ ~moved
    /\ moved' = TRUE
    /\ UNCHANGED outcome

\* The saga reports success, which is final.
Complete ==
    /\ outcome = "open"
    /\ moved
    /\ outcome' = "completed"
    /\ UNCHANGED moved

\* The saga reports failure, which is final: no money moved or ever will.
Fail ==
    /\ outcome = "open"
    /\ ~moved
    /\ outcome' = "failed"
    /\ UNCHANGED moved

Next == MoveMoney \/ Complete \/ Fail

Spec == Init /\ [][Next]_vars
=============================================================================
