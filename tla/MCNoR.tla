------------------------------- MODULE MCNoR -------------------------------
(* Instances of NoR for TLC. *)
EXTENDS NoR

\* One source with two destinations: each gateway must filter the blocks.
TwoDestinations == {<<1, 2>>, <<1, 3>>}

\* Bound on empty blocks: the source has one.
SourceIdle == [c \in Chains |-> IF c = 1 THEN 1 ELSE 0]
============================================================================
