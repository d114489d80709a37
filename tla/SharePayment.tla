---------------------------- MODULE SharePayment ----------------------------
(***************************************************************************)
(* What transfer creation and the saga promise about the shares of split   *)
(* bills: a share gets at most one transfer, whose outcome is final.       *)
(***************************************************************************)
CONSTANT Shares

VARIABLE payment   \* share |-> the state of its transfer, if it has one

Outcomes == {"Completed", "Failed"}

Init == payment = [s \in Shares |-> "none"]

Begin(s) ==
    /\ payment[s] = "none"
    /\ payment' = [payment EXCEPT ![s] = "open"]

Finish(s) ==
    /\ payment[s] = "open"
    /\ \E outcome \in Outcomes : payment' = [payment EXCEPT ![s] = outcome]

Next == \E s \in Shares : Begin(s) \/ Finish(s)

Spec == Init /\ [][Next]_payment
=============================================================================
