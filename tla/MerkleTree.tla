----------------------------- MODULE MerkleTree ----------------------------
(***************************************************************************)
(* Merkle trees over the messages of a block: the tree that a gateway      *)
(* rebuilds to make its proofs (tools/helper/merkle_helper.py), the        *)
(* verification of such a proof by the contract, and the path with which   *)
(* the contract updates its root message by message.  keccak256 is taken   *)
(* to be injective: a hash is the record of what was hashed.  Positions of *)
(* leaves count from 0 as in the code, sequences from 1.                   *)
(***************************************************************************)
EXTENDS Naturals, Sequences

Leaf(data)        == [leaf |-> data]
Hash(left, right) == [left |-> left, right |-> right]
Zero              == [zero |-> "bytes32(0)"]

\* The position, k layers up, of the node above position i.
Ancestor(i) ==
  LET up[k \in Nat] == IF k = 0 THEN i ELSE up[k - 1] \div 2
  IN  up

\* The number of layers above n leaves: on the last one is one node.
Top(n) == CHOOSE k \in 0 .. n : /\ Ancestor(n - 1)[k] = 0
                                /\ \A j \in 0 .. (k - 1) : Ancestor(n - 1)[j] > 0

----------------------------------------------------------------------------
(* The gateway's tree, layer by layer.  A node without a right neighbour is *)
(* its own right sibling.                                                   *)

UpLayer(layer) ==
  [i \in 1 .. ((Len(layer) + 1) \div 2) |->
     Hash(layer[2 * i - 1],
          IF 2 * i <= Len(layer) THEN layer[2 * i] ELSE layer[2 * i - 1])]

Build(hashes) ==
  LET tree[k \in Nat] == IF k = 0 THEN hashes ELSE UpLayer(tree[k - 1])
  IN  tree

GetRoot(hashes) ==
  IF hashes = <<>> THEN Zero ELSE Build(hashes)[Top(Len(hashes))][1]

\* Variant: the node without a neighbour takes the one on its left.
SiblingLastOdd(layer, i) ==
  IF i % 2 = 0 /\ i + 1 < Len(layer) THEN layer[i + 2]
  ELSE IF i = 0 THEN layer[1] ELSE layer[i]

\* The sibling of the node at position i of a layer.
Sibling(layer, i) ==
  IF i % 2 = 1 THEN layer[i]
  ELSE IF i + 1 < Len(layer) THEN layer[i + 2]
  ELSE layer[i + 1]

\* The siblings on the way from the leaf at position index to the root.
GetProof(hashes, index) ==
  [k \in 1 .. Top(Len(hashes)) |->
     Sibling(Build(hashes)[k - 1], Ancestor(index)[k - 1])]

\* The contract climbs from node along the proof and compares.
VerifyProof(index, node, bcr, proof) ==
  LET up[k \in Nat] ==
        IF k = 0 THEN node
        ELSE IF Ancestor(index)[k - 1] % 2 = 1 THEN Hash(proof[k], up[k - 1])
        ELSE Hash(up[k - 1], proof[k])
  IN  up[Len(proof)] = bcr

----------------------------------------------------------------------------
(* The contract's update.  The path of a tree of n leaves holds what the    *)
(* later updates need of it.  Leaf number index climbs to the root: on an   *)
(* even layer its left neighbour is read from the old path, on an odd one   *)
(* it is its own neighbour; flag says whether the node is complete (2: as   *)
(* yet, 0: after a merge) or has been doubled (1), and what is complete and *)
(* still waits for its right neighbour goes to the new path.                *)

\* Variant: a left neighbour that is still needed is dropped from the path.
TurnDropping(old, c) ==
  IF c.index % 2 = 1
  THEN [index |-> c.index \div 2 + 1, node |-> Hash(c.node, c.node), flag |-> 1,
        path |-> IF c.flag = 1 THEN c.path ELSE Append(c.path, c.node),
        read |-> c.read]
  ELSE [index |-> c.index \div 2, node |-> Hash(old[c.read + 1], c.node),
        flag |-> IF c.flag = 2 THEN 0 ELSE c.flag,
        path |-> c.path, read |-> c.read + 1]

\* A turn of the loop, on a layer where index is not 1.
Turn(old, c) ==
  IF c.index % 2 = 1
  THEN [index |-> c.index \div 2 + 1, node |-> Hash(c.node, c.node), flag |-> 1,
        path |-> IF c.flag = 1 THEN c.path ELSE Append(c.path, c.node),
        read |-> c.read]
  ELSE [index |-> c.index \div 2, node |-> Hash(old[c.read + 1], c.node),
        flag |-> IF c.flag = 2 THEN 0 ELSE c.flag,
        path |-> IF c.flag = 1 THEN Append(c.path, old[c.read + 1]) ELSE c.path,
        read |-> c.read + 1]

\* The loop.  As index is halved, it is 1 after Top(index) turns.
Climbing(old, index, leaf) ==
  LET at[k \in Nat] ==
        IF k = 0 THEN [index |-> index, node |-> leaf, flag |-> 2,
                       path |-> <<>>, read |-> 0]
        ELSE Turn(old, at[k - 1])
  IN  at

Climb(old, index, leaf) ==
  LET top == Climbing(old, index, leaf)[Top(index)]
  IN  [root |-> top.node, path |-> Append(top.path, top.node), read |-> top.read]

\* The complete subtrees below layer k that no other complete one contains,
\* smallest first.  On layer j, Ancestor(n)[j] subtrees of n leaves are complete.
Complete(s) ==
  LET trees[k \in Nat] ==
        IF k = 0 THEN <<>>
        ELSE LET complete == Ancestor(Len(s))[k - 1]
             IN  IF complete % 2 = 1
                 THEN Append(trees[k - 1], Build(s)[k - 1][complete])
                 ELSE trees[k - 1]
  IN  trees

\* The path after the leaves s: those below the root, and the root.
Frontier(s) == Append(Complete(s)[Top(Len(s))], GetRoot(s))
============================================================================
