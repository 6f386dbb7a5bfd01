------------------------------ MODULE MCProofs ------------------------------
(***************************************************************************)
(* The three parts of the contract's proofs, one at a time: the Merkle     *)
(* trees of BCR, the reader of RLP and the proofs of storage.              *)
(***************************************************************************)
EXTENDS BCR, RlpReader, StorageProofs

VARIABLE part  \* the one whose turn it is

\* One tree grows large, another one beside it.
MCMaxLeaves == <<9, 3>>

MCStrings ==
  LET fill(n, b) == [i \in 1 .. n |-> b]
  IN  {<<>>, <<1>>, <<127>>, <<128>>, <<1, 0>>, <<255, 255, 255>>,
       fill(54, 192), fill(55, 192), fill(56, 7), fill(255, 248), fill(256, 128)}

MCAddresses == {"contract", "user", "nobody", "stranger"}
MCOthers    == {"user"}
MCPositions == {"p", "q", "r", "s"}

\* 64 nibbles that begin like this and end with one.
MCKey64(nibbles, end) ==
  [i \in 1 .. 64 |-> IF i <= Len(nibbles) THEN nibbles[i] ELSE IF i = 64 THEN end ELSE 5]

\* Keys that differ at once, behind one nibble and, in the last nibble only, where
\* small values are embedded.
MCKey ==
  [x \in MCAddresses \cup MCPositions |->
     CASE x = "contract" -> MCKey64(<<0, 1>>, 5) [] x = "user" -> MCKey64(<<0, 2>>, 5)
       [] x = "nobody" -> MCKey64(<<0, 3>>, 5)   [] x = "stranger" -> MCKey64(<<7>>, 5)
       [] x = "p" -> MCKey64(<<1, 2>>, 5)        [] x = "q" -> MCKey64(<<1, 2>>, 6)
       [] x = "r" -> MCKey64(<<1, 3>>, 5)        [] x = "s" -> MCKey64(<<15>>, 5)]

\* A counter and a hash.
MCValues == {0, 1, 2}
MCSize   == <<1, 32>>

allVars == <<vars, data, depth, blocks, part>>

MCInit ==
  /\ Init /\ RlpInit /\ StorageInit
  /\ part \in {"bcr", "rlp", "storage"}

MCNext ==
  /\ UNCHANGED part
  /\ \/ part = "bcr" /\ Next /\ UNCHANGED <<data, depth, blocks>>
     \/ part = "rlp" /\ RlpNext /\ UNCHANGED <<vars, blocks>>
     \/ part = "storage" /\ StorageNext /\ UNCHANGED <<vars, data, depth>>

MCSpec == MCInit /\ [][MCNext]_allVars
=============================================================================
