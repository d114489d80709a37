---------------------------- MODULE MCSplitBills ----------------------------
(* SplitBills on small instances. *)
EXTENDS SplitBills, TLC

CONSTANTS anna, boris, clara, dora

\* Bills of Anna's: eight cents for three, or three for two, herself included,
\* or five for two by hand; and requests that must be refused: too little for
\* all, a participant twice, a wrong sum, a share of nothing.
Equal(total, participants) ==
    [creator |-> anna, total |-> total, mode |-> "equal", participants |-> participants,
     custom |-> <<>>, deadline |-> TRUE]
Custom(total, shares) ==
    [creator |-> anna, total |-> total, mode |-> "custom", participants |-> <<boris, clara>>,
     custom |-> shares, deadline |-> FALSE]

Bodies == {Equal(8, <<boris, clara, dora>>), Equal(3, <<boris, anna>>),
           Equal(2, <<anna, boris, clara>>), Equal(5, <<boris, boris>>),
           Custom(5, <<1, 4>>), Custom(5, <<2, 2>>), Custom(5, <<0, 5>>)}
=============================================================================
