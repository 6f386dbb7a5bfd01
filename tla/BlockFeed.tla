----------------------------- MODULE BlockFeed -----------------------------
(***************************************************************************)
(* What a gateway sees of its source chain: from the block that is the     *)
(* last when it starts it deals with every sealed block, once, in order.   *)
(***************************************************************************)
EXTENDS Naturals

VARIABLES
  height,  \* the last sealed block
  next     \* the block to deal with next, 0 before the start

vars == <<height, next>>

Init == height = 1 /\ next = 0

Grow    == height' = height + 1 /\ next' = next
Start   == next = 0 /\ next' = height /\ height' = height
Advance == /\ next \in 1 .. height
           /\ next' = next + 1 /\ height' = height

Next == Grow \/ Start \/ Advance

Spec == Init /\ [][Next]_vars
============================================================================
