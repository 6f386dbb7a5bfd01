------------------------------- MODULE MCToR -------------------------------
(* Instances of ToR for TLC. *)
EXTENDS ToRInv

MT == INSTANCE MerkleTree

\* The root of a block's tree.
MerkleRoot(cms) == MT!GetRoot([i \in DOMAIN cms |-> MT!Leaf(cms[i])])

\* One route.
OneRoute == {<<1, 2>>}
\* One source with two destinations: each gateway must filter the block.
TwoDestinations == {<<1, 2>>, <<1, 3>>}
\* Both ways: the traffic of a route makes blocks for the other.
BothWays == {<<1, 2>>, <<2, 1>>}

\* Bounds on empty blocks: none, on the relay chain only, on every chain.
NoIdle    == [c \in Chains |-> 0]
RelayIdle == [c \in Chains |-> IF c = Relay THEN 1 ELSE 0]
EachIdle  == [c \in Chains |-> 1]
============================================================================
