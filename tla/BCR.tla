-------------------------------- MODULE BCR --------------------------------
(***************************************************************************)
(* The BCR contracts of bcr/contracts as its evaluation deploys and        *)
(* compares them: the same messages go to every one of them.  A call of    *)
(* build is one transaction.  BCRUpdateOpt is the algorithm of             *)
(* contracts/spv/StateSpv.sol; a tree index is a block number there.       *)
(***************************************************************************)
EXTENDS MerkleTree

CONSTANTS
  Trees,     \* tree indexes
  Data,      \* encoded messages
  MaxLeaves  \* bound: MaxLeaves[t] leaves of tree t

ASSUME LeavesAssumption == MaxLeaves \in [Trees -> Nat]

VARIABLES
  sent,      \* sent[t]: leaves of the messages that were sent for tree t
  opt,       \* opt[t]: BCRUpdateOpt
  update,    \* update[t]: BCRUpdate
  byLeaves,  \* byLeaves[t]: UpdateByLeaves
  byTree     \* byTree[t]: UpdateByTree

vars == <<sent, opt, update, byLeaves, byTree>>

\* The places of a tree's mappings that are ever used.
Slots(t) == 1 .. MaxLeaves[t]
Empty(t) == [i \in Slots(t) |-> Zero]

Init ==
  /\ sent     = [t \in Trees |-> <<>>]
  /\ opt      = [t \in Trees |->
                   [root |-> Zero, xmcnts |-> 0, treeFlag |-> 0,
                    trees |-> [f \in {0, 1} |-> Empty(t)],
                    hashNum |-> [n \in Slots(t) |-> 0]]]
  /\ update   = [t \in Trees |->
                   [root |-> Zero, xmcnts |-> 0, tree |-> <<>>,
                    reverted |-> FALSE]]
  /\ byLeaves = [t \in Trees |-> [root |-> Zero, tree |-> <<>>]]
  /\ byTree   = [t \in Trees |->
                   [leaveslength |-> 0, layernumber |-> 0,
                    trees |-> [l \in Slots(t) |-> Empty(t)]]]

----------------------------------------------------------------------------
(* BCRUpdateOpt: two buffers take turns as the old and the new path.  What  *)
(* an earlier update left in the new one beyond the new path stays there.   *)

\* Variant: the buffers do not take turns.
BuildOptOneBuffer(o, leaf) ==
  LET n   == o.xmcnts + 1
      res == Climb(o.trees[1 - o.treeFlag], n, leaf)
  IN  [o EXCEPT !.xmcnts = n,
                !.root = res.root,
                !.trees[o.treeFlag] = [i \in DOMAIN @ |->
                   IF i <= Len(res.path) THEN res.path[i] ELSE @[i]],
                !.hashNum[n] = Len(res.path)]

BuildOpt(o, leaf) ==
  LET n   == o.xmcnts + 1
      res == Climb(o.trees[1 - o.treeFlag], n, leaf)
  IN  [o EXCEPT !.xmcnts = n,
                !.root = res.root,
                !.trees[o.treeFlag] = [i \in DOMAIN @ |->
                   IF i <= Len(res.path) THEN res.path[i] ELSE @[i]],
                !.treeFlag = 1 - @,
                !.hashNum[n] = Len(res.path)]

\* BCRUpdate: the new path replaces the old one.  It is built in an array of as
\* many places as there are leaves; reading beyond the old path or writing
\* beyond that array reverts.
BuildUpdate(u, leaf) ==
  LET n    == u.xmcnts + 1
      old  == [i \in 1 .. n |-> IF i <= Len(u.tree) THEN u.tree[i] ELSE Zero]
      res  == Climb(old, n, leaf)
  IN  IF res.read > Len(u.tree) \/ Len(res.path) > n
      THEN [u EXCEPT !.reverted = TRUE]
      ELSE [u EXCEPT !.xmcnts = n, !.root = res.root, !.tree = res.path]

\* A pass of UpdateByLeaves over a layer of so many nodes, within the array: the
\* parent of nodes 2j-1 and 2j goes to place j.
Passing(nodes, length) ==
  LET up[j \in Nat] ==
        IF j = 0 THEN nodes
        ELSE [up[j - 1] EXCEPT ![j] =
                Hash(up[j - 1][2 * j - 1],
                     IF 2 * j - 1 # length THEN up[j - 1][2 * j]
                     ELSE up[j - 1][2 * j - 1])]
  IN  up

Pass(p) ==
  [nodes  |-> Passing(p.nodes, p.length)[(p.length + 1) \div 2],
   length |-> (p.length + 1) \div 2]

Passes(leaves) ==
  LET after[k \in Nat] ==
        IF k = 0 THEN [nodes |-> leaves, length |-> Len(leaves)] ELSE Pass(after[k - 1])
  IN  after

\* UpdateByLeaves keeps the leaves and hashes them all, until one node is left.
BuildByLeaves(b, leaf) ==
  LET tree == Append(b.tree, leaf)
  IN  [root |-> Passes(tree)[Top(Len(tree))].nodes[1], tree |-> tree]

\* UpdateByTree, one layer up: the last node of layer l, at place templength, has a
\* new parent on layer l + 1.
UpTree(l, u) ==
  LET i == u.templength
      j == (i - 1) \div 2 + 1
  IN  [templength |-> j,
       trees |-> [u.trees EXCEPT ![l + 1][j] =
                    IF i % 2 = 0 THEN Hash(u.trees[l][i - 1], u.trees[l][i])
                    ELSE Hash(u.trees[l][i], u.trees[l][i])]]

UpTrees(trees, n, leaf) ==
  LET at[k \in Nat] ==
        IF k = 0 THEN [templength |-> n, trees |-> [trees EXCEPT ![1][n] = leaf]]
        ELSE UpTree(k, at[k - 1])
  IN  at

\* UpdateByTree keeps every layer and recomputes the last node of each.
BuildByTree(b, leaf) ==
  LET n == b.leaveslength + 1
  IN  [leaveslength |-> n, layernumber |-> Top(n) + 1,
       trees |-> UpTrees(b.trees, n, leaf)[Top(n)].trees]

ByTreeRoot(b) == IF b.layernumber = 0 THEN Zero ELSE b.trees[b.layernumber][1]

----------------------------------------------------------------------------
\* crossTransfer of a message for tree t, on every deployment.
CrossTransfer(t, data) ==
  /\ Len(sent[t]) < MaxLeaves[t]
  /\ sent'     = [sent     EXCEPT ![t] = Append(@, Leaf(data))]
  /\ opt'      = [opt      EXCEPT ![t] = BuildOpt(@, Leaf(data))]
  /\ update'   = [update   EXCEPT ![t] = BuildUpdate(@, Leaf(data))]
  /\ byLeaves' = [byLeaves EXCEPT ![t] = BuildByLeaves(@, Leaf(data))]
  /\ byTree'   = [byTree   EXCEPT ![t] = BuildByTree(@, Leaf(data))]

Next == \E t \in Trees, data \in Data : CrossTransfer(t, data)

Spec == Init /\ [][Next]_vars

----------------------------------------------------------------------------
(* Properties. *)

\* Whatever each of them keeps between two messages, after every message the
\* root that a contract answers is the root that a gateway computes over all messages
\* of the tree: the incremental updates never use a stale node of an earlier path,
\* and the evaluation compares algorithms that compute the same.
RootsAreBlockRoots ==
  \A t \in Trees :
    /\ opt[t].root           = GetRoot(sent[t])
    /\ update[t].root        = GetRoot(sent[t])
    /\ byLeaves[t].root      = GetRoot(sent[t])
    /\ ByTreeRoot(byTree[t]) = GetRoot(sent[t])

\* The path kept between two messages is the frontier of the tree, with at most one
\* node per layer: what BCRUpdateOpt reads is what its last update wrote, and
\* BCRUpdate stays within its arrays.
PathsAreFrontiers ==
  \A t \in Trees : sent[t] # <<>> =>
    LET o == opt[t]
        f == Frontier(sent[t])
    IN  /\ o.hashNum[o.xmcnts] = Len(f)
        /\ \A i \in 1 .. Len(f) : o.trees[1 - o.treeFlag][i] = f[i]
        /\ update[t].tree = f /\ ~update[t].reverted
        /\ Len(f) <= Top(Len(sent[t])) + 1

\* The proof a gateway makes for the message at a position leads to the root in
\* the contract, and leads there from no other message at any position: the
\* abstraction VerifyBCR of module StateSpv is sound.
ProofsAreBinding ==
  \A t \in Trees :
    LET s   == sent[t]
        pos == 0 .. (Len(s) - 1)
    IN  \A i, j \in pos : \A data \in Data :
          LET ok == VerifyProof(i, Leaf(data), opt[t].root, GetProof(s, j))
          IN  /\ ok => s[i + 1] = Leaf(data)
              /\ i = j /\ s[i + 1] = Leaf(data) => ok

----------------------------------------------------------------------------
(* The invariant under which these are proved, one part per deployment: it  *)
(* says what each contract keeps of the leaves s, in room for max of them.  *)

OptFits(o, s, max) ==
  /\ DOMAIN o = {"root", "xmcnts", "treeFlag", "trees", "hashNum"}
  /\ o.xmcnts = Len(s) /\ o.treeFlag \in {0, 1}
  /\ DOMAIN o.trees = {0, 1} /\ DOMAIN o.hashNum = 1 .. max
  /\ \A f \in {0, 1} : DOMAIN o.trees[f] = 1 .. max
  /\ o.root = GetRoot(s)
  /\ s # <<>> => /\ o.hashNum[o.xmcnts] = Len(Frontier(s))
                 /\ \A i \in 1 .. Len(Frontier(s)) :
                      o.trees[1 - o.treeFlag][i] = Frontier(s)[i]

UpdateFits(b, s) ==
  /\ DOMAIN b = {"root", "xmcnts", "tree", "reverted"}
  /\ b.xmcnts = Len(s) /\ b.root = GetRoot(s) /\ ~b.reverted
  /\ b.tree = IF s = <<>> THEN <<>> ELSE Frontier(s)

\* The mappings have their places, and layers 0 to top of the tree are in them.
HaveDomain(trees, max) ==
  DOMAIN trees = 1 .. max /\ \A l \in 1 .. max : DOMAIN trees[l] = 1 .. max

HaveLayers(trees, s, top) ==
  \A k \in 0 .. top : \A i \in 1 .. Len(Build(s)[k]) : trees[k + 1][i] = Build(s)[k][i]

ByTreeFits(b, s, max) ==
  /\ b.leaveslength = Len(s)
  /\ b.layernumber = IF s = <<>> THEN 0 ELSE Top(Len(s)) + 1
  /\ HaveDomain(b.trees, max)
  /\ s # <<>> => HaveLayers(b.trees, s, Top(Len(s)))

Fits(t) ==
  /\ sent[t] \in Seq({Leaf(data) : data \in Data}) /\ Len(sent[t]) <= MaxLeaves[t]
  /\ OptFits(opt[t], sent[t], MaxLeaves[t])
  /\ UpdateFits(update[t], sent[t])
  /\ byLeaves[t].tree = sent[t] /\ byLeaves[t].root = GetRoot(sent[t])
  /\ ByTreeFits(byTree[t], sent[t], MaxLeaves[t])

IInv ==
  /\ DOMAIN sent = Trees /\ DOMAIN opt = Trees /\ DOMAIN update = Trees
  /\ DOMAIN byLeaves = Trees /\ DOMAIN byTree = Trees
  /\ \A t \in Trees : Fits(t)
============================================================================
