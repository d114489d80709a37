------------------------- MODULE MCTransferCreation -------------------------
(* TransferCreation on small instances. *)
EXTENDS TransferCreation, TLC

CONSTANTS form, page, anna, share

\* One user with a transfer form and the page of a split bill.
Anna == [t \in Tabs |-> anna]
Purposes == [t \in Tabs |-> IF t = form THEN NoShare ELSE share]

\* 20 kopiykas are less than half a cent, 63 are a bit more than one and a half.
Kopiykas(n) == [wallet |-> 1, amount |-> n, currency |-> "UAH", target |-> "USD"]
Dollars(w) == [wallet |-> w, amount |-> 5, currency |-> "USD", target |-> "USD"]
Entries == [t \in Tabs |-> IF t = form THEN {Kopiykas(20), Kopiykas(63)}
                           ELSE {Dollars(1), Dollars(2)}]
=============================================================================
