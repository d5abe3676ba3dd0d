------------------------------- MODULE Tables -------------------------------
(* The fixed-size tables of arc_reliable_t and arc_router_t: arrays that are *)
(* scanned from index 0 upwards.  A slot whose in_use is false holds Free;   *)
(* no function reads the other fields of such a slot.                        *)
EXTENDS Integers

CONSTANT Free       \* a slot that is not in use

FreeSlots(t)  == {i \in DOMAIN t : t[i] = Free}
UsedSlots(t)  == {i \in DOMAIN t : t[i] # Free}

\* Where a loop over the table that stops at a slot of S stops.
FirstSlot(S)  == CHOOSE i \in S : \A j \in S : i <= j

\* What memset leaves.
EmptyTable(n) == [i \in 0 .. n - 1 |-> Free]

=============================================================================
