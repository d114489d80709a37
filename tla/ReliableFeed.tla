---------------------------- MODULE ReliableFeed ----------------------------
(***************************************************************************)
(* What the outboxes of ledger and payments, the broker and notifications  *)
(* promise together: an event that a service commits appears in the        *)
(* activity feed, once, and nothing else does.  EventDelivery is shown to  *)
(* implement this module.                                                  *)
(***************************************************************************)
EXTENDS Naturals

CONSTANT Events

VARIABLES
    committed,   \* the events that services have committed
    items        \* event |-> how many feed items it has

vars == <<committed, items>>

Init == committed = {} /\ items = [e \in Events |-> 0]

\* A service commits an event together with its own change of state.
Commit(e) ==
    /\ e \notin committed
    /\ committed' = committed \cup {e}
    /\ UNCHANGED items

\* The event becomes visible in the feed, for the first and only time.
Show(e) ==
    /\ e \in committed
    /\ items[e] = 0
    /\ items' = [items EXCEPT ![e] = 1]
    /\ UNCHANGED committed

Next == \E e \in Events : Commit(e) \/ Show(e)

Spec == Init /\ [][Next]_vars
=============================================================================
