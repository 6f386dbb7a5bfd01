------------------------------- MODULE MCAoR -------------------------------
(* Instances of AoR for TLC. *)
EXTENDS AoR

\* One route; parachain 3 is sent to as well, and has no gateway.
OneRoute == {<<1, Relay>>, <<Relay, 2>>}

\* Two sources whose messages take numbers from one count on the relay chain.
TwoSources == {<<1, Relay>>, <<2, Relay>>, <<Relay, 3>>}

\* Bounds on empty blocks: none, one on the relay chain.
NoIdle    == [c \in Chains |-> 0]
RelayIdle == [c \in Chains |-> IF c = Relay THEN 1 ELSE 0]
============================================================================
