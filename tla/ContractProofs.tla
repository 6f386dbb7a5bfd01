--------------------------- MODULE ContractProofs ---------------------------
(***************************************************************************)
(* Theorems about what the contracts compute and check.                    *)
(* The trees of BCR and MerkleTree, for every number of leaves: the        *)
(* contracts' incremental updates compute the root that a gateway          *)
(* computes, and a proof leads there from one message only.                *)
(* The storage proofs of StorageProofs, for every state: a contract takes  *)
(* out of a proof what the trie holds, whatever the proof consists of.     *)
(* The encodings of RlpReader, for every string and list: the reader finds *)
(* in them what was encoded.                                               *)
(***************************************************************************)
EXTENDS BCR, RlpReader, StorageProofs, SequenceTheorems, WellFoundedInduction, TLAPS

----------------------------------------------------------------------------
(* Loops.  A loop that has been entered ends in one state: what a recursive *)
(* function of the modules says exists.  As all of them have the same form, *)
(* this is proved once, for the following turns.                            *)

Less == {pair \in Nat \X Nat : pair[1] < pair[2]}

\* A set of naturals that is not empty has a least element.
LEMMA LeastElement ==
  ASSUME NEW S \in SUBSET Nat, S # {}
  PROVE  \E x \in S : \A y \in S : x <= y
<1>1. Less = OpToRel(<, Nat)
  BY Zenon DEF Less, OpToRel
<1>2. IsWellFoundedOn(Less, Nat)
  BY <1>1, NatLessThanWellFounded, Zenon
<1>3. PICK x \in S : \A y \in S : ~ (<<y, x>> \in Less)
  BY <1>2, WFMin, Zenon
<1>4. ASSUME NEW y \in S PROVE x <= y
  <2>1. y \in Nat /\ x \in Nat /\ <<y, x>> \in Nat \X Nat
    OBVIOUS
  <2>2. ~ (y < x)
    BY <2>1, <1>3 DEF Less
  <2> QED
    BY <2>1, <2>2
<1> QED
  BY <1>4

\* The sets of keys that have a branch node, and that node, given those below it.
Crowds(f) == {K \in SUBSET DOMAIN f : Several(K)}

BranchNode(f, branch, K) == ListOf([i \in 1 .. 17 |-> Child(f, branch, K, i - 1)])

\* The encodings of all things of a depth, given those of the depth below, and what
\* the reader decodes at all items.
EncodeLevel(v, k) ==
  [y \in Nested[k] |-> IF IsString(y) THEN EncodeString(y.str)
                       ELSE EncodeList([i \in DOMAIN y.items |-> v[y.items[i]]])]

RLPItems == [len : Nat, memPtr : Nat]

DecodeLevel(v, mem) ==
  [it \in RLPItems |-> IF IsList(mem, it)
                       THEN List([i \in DOMAIN ToList(mem, it) |-> v[ToList(mem, it)[i]]])
                       ELSE String(ToBytes(mem, it))]

\* Turn k of a loop; p is what the loop does not change.
LoopTurn(loop, p, k, v) ==
  CASE loop = "ancestor" -> v \div 2
    [] loop = "layers"   -> UpLayer(v)
    [] loop = "verify"   -> IF Ancestor(p[1])[k - 1] % 2 = 1 THEN Hash(p[2][k], v)
                            ELSE Hash(v, p[2][k])
    [] loop = "climb"    -> Turn(p, v)
    [] loop = "complete" ->
         LET complete == Ancestor(Len(p))[k - 1]
         IN  IF complete % 2 = 1 THEN Append(v, Build(p)[k - 1][complete]) ELSE v
    [] loop = "pass"     ->
         [v EXCEPT ![k] = Hash(v[2 * k - 1],
                               IF 2 * k - 1 # p THEN v[2 * k] ELSE v[2 * k - 1])]
    [] loop = "passes"   -> Pass(v)
    [] loop = "trees"    -> UpTree(k, v)
    [] loop = "payload"  -> v + p[k].len
    [] loop = "visit"    -> Visit(p[1], p[2], p[3], v, k)
    [] loop = "way"      -> Below(p[1], p[2], v)
    [] loop = "branches" -> [K \in Crowds(p) |-> BranchNode(p, v, K)]
    [] loop = "nested"   -> AllStrings \cup [items : Seq(v)]
    [] loop = "digits"   -> v \div 256
    [] loop = "joined"   -> v \o p[k]
    [] loop = "encode"   -> EncodeLevel(v, k)
    [] loop = "word"     -> v * 256 + Byte(p[1], p[2] + k - 1)
    [] loop = "places"   -> v + ItemLength(p, v)
    [] loop = "decode"   -> DecodeLevel(v, p)
    [] loop = "number"   -> v * 256 + p[k]

\* f[k] is the state after k turns.
Runs(loop, p, x, f, D) ==
  f = [k \in D |-> IF k = 0 THEN x ELSE LoopTurn(loop, p, k, f[k - 1])]

\* f is what the loop does in n turns, and nothing else is.
OnlyRun(loop, p, x, f, n) ==
  /\ Runs(loop, p, x, f, 0 .. n)
  /\ \A g : Runs(loop, p, x, g, 0 .. n) => g = f

\* The states of the first turns determine the next one.
LEMMA RunGoesOn ==
  ASSUME NEW loop, NEW p, NEW x, NEW n \in Nat, NEW f, OnlyRun(loop, p, x, f, n)
  PROVE  \E h : OnlyRun(loop, p, x, h, n + 1) /\ \A i \in 0 .. n : h[i] = f[i]
<1> DEFINE h == [k \in 0 .. n + 1 |-> IF k = 0 THEN x ELSE LoopTurn(loop, p, k, f[k - 1])]
<1>0. Runs(loop, p, x, f, 0 .. n) /\ \A g : Runs(loop, p, x, g, 0 .. n) => g = f
  BY DEF OnlyRun
<1>1. \A i \in 0 .. n : h[i] = f[i]
  BY <1>0 DEF Runs
<1>2. \A k \in 0 .. n + 1 : h[k] = IF k = 0 THEN x ELSE LoopTurn(loop, p, k, h[k - 1])
  <2> SUFFICES ASSUME NEW k \in 0 .. n + 1
               PROVE  h[k] = IF k = 0 THEN x ELSE LoopTurn(loop, p, k, h[k - 1])
    OBVIOUS
  <2>1. CASE k = 0
    BY <2>1
  <2>2. CASE k # 0
    <3>1. k - 1 \in 0 .. n
      BY <2>2
    <3>2. h[k - 1] = f[k - 1]
      BY <1>1, <3>1
    <3>3. h[k] = LoopTurn(loop, p, k, f[k - 1])
      BY <2>2
    <3> QED
      BY <2>2, <3>2, <3>3
  <2> QED
    BY <2>1, <2>2
<1>3. Runs(loop, p, x, h, 0 .. n + 1)
  <2>1. h = [k \in 0 .. n + 1 |-> h[k]]
    OBVIOUS
  <2> HIDE DEF h
  <2> QED
    BY <1>2, <2>1 DEF Runs
<1>4. ASSUME NEW g, Runs(loop, p, x, g, 0 .. n + 1)
      PROVE  g = h
  <2> DEFINE r == [k \in 0 .. n |-> g[k]]
  <2>1. \A k \in 0 .. n + 1 : g[k] = IF k = 0 THEN x ELSE LoopTurn(loop, p, k, g[k - 1])
    BY <1>4 DEF Runs
  <2>2. \A k \in 0 .. n : k # 0 => r[k - 1] = g[k - 1]
    OBVIOUS
  <2>3. Runs(loop, p, x, r, 0 .. n)
    BY <2>1, <2>2 DEF Runs
  <2>4. r = f
    BY <1>0, <2>3
  <2>5. \A k \in 0 .. n + 1 : k # 0 => g[k - 1] = f[k - 1]
    BY <2>4
  <2>6. \A k \in 0 .. n + 1 : g[k] = h[k]
    BY <2>1, <2>5
  <2>7. g = [k \in 0 .. n + 1 |-> g[k]]
    BY <1>4 DEF Runs
  <2> QED
    BY <2>6, <2>7
<1> HIDE DEF h
<1>5. OnlyRun(loop, p, x, h, n + 1)
  BY <1>3, <1>4 DEF OnlyRun
<1> QED
  BY <1>1, <1>5

\* Every number of turns can be done, in one way: the least that could not would go
\* on from the one before.
LEMMA FiniteRunExists ==
  ASSUME NEW loop, NEW p, NEW x, NEW n \in Nat
  PROVE  \E f : OnlyRun(loop, p, x, f, n)
<1> DEFINE Bad == {m \in Nat : ~ \E f : OnlyRun(loop, p, x, f, m)}
<1>1. \E f : OnlyRun(loop, p, x, f, 0)
  <2> DEFINE f == [k \in 0 .. 0 |-> x]
  <2>1. \A g : Runs(loop, p, x, g, 0 .. 0) <=> g = f
    BY DEF Runs
  <2> HIDE DEF f
  <2>2. OnlyRun(loop, p, x, f, 0)
    BY <2>1 DEF OnlyRun
  <2> QED
    BY <2>2
<1>2. ASSUME NEW m \in Nat, NEW f, OnlyRun(loop, p, x, f, m)
      PROVE  \E h : OnlyRun(loop, p, x, h, m + 1)
  BY <1>2, RunGoesOn
<1>3. Bad = {}
  <2>1. SUFFICES ASSUME Bad # {} PROVE FALSE
    OBVIOUS
  <2>2. PICK m \in Bad : \A k \in Bad : m <= k
    BY <2>1, LeastElement
  <2>3. m # 0 /\ m - 1 \in Nat /\ (m - 1) + 1 = m
    BY <1>1, <2>2
  <2>4. m - 1 \notin Bad
    BY <2>2, <2>3
  <2>5. \E f : OnlyRun(loop, p, x, f, m - 1)
    BY <2>3, <2>4
  <2>6. \E f : OnlyRun(loop, p, x, f, m)
    BY <1>2, <2>3, <2>5
  <2> QED
    BY <2>2, <2>6
<1> QED
  BY <1>3

\* So the loop has a state after every turn: the function that the recursive
\* definition names.
LEMMA RunExists ==
  ASSUME NEW loop, NEW p, NEW x
  PROVE  \E f : Runs(loop, p, x, f, Nat)
<1> DEFINE The(n) == CHOOSE f : OnlyRun(loop, p, x, f, n)
           f == [n \in Nat |-> The(n)[n]]
<1>1. ASSUME NEW n \in Nat
      PROVE  OnlyRun(loop, p, x, The(n), n)
  BY FiniteRunExists
<1> HIDE DEF The
<1>2. ASSUME NEW n \in Nat
      PROVE  The(n + 1)[n] = The(n)[n]
  <2>0. OnlyRun(loop, p, x, The(n), n)
    BY <1>1
  <2>1. PICK h : OnlyRun(loop, p, x, h, n + 1) /\ \A i \in 0 .. n : h[i] = The(n)[i]
    BY <2>0, RunGoesOn
  <2>2. OnlyRun(loop, p, x, The(n + 1), n + 1)
    BY <1>1
  <2>3. h = The(n + 1)
    BY <2>1, <2>2 DEF OnlyRun
  <2> QED
    BY <2>1, <2>3
<1>3. \A n \in Nat : The(n)[n] = IF n = 0 THEN x ELSE LoopTurn(loop, p, n, The(n)[n - 1])
  BY <1>1 DEF Runs, OnlyRun
<1>4. \A n \in Nat : n # 0 => The(n)[n - 1] = The(n - 1)[n - 1]
  <2> SUFFICES ASSUME NEW n \in Nat, n # 0
               PROVE  The(n)[n - 1] = The(n - 1)[n - 1]
    OBVIOUS
  <2>1. n - 1 \in Nat /\ (n - 1) + 1 = n
    OBVIOUS
  <2> QED
    BY <1>2, <2>1
<1>5. \A n \in Nat : f[n] = IF n = 0 THEN x ELSE LoopTurn(loop, p, n, f[n - 1])
  BY <1>3, <1>4
<1>6. Runs(loop, p, x, f, Nat)
  BY <1>5 DEF Runs
<1> QED
  BY <1>6

\* What Ancestor says of each layer.
LEMMA AncestorIs ==
  ASSUME NEW i
  PROVE  /\ Ancestor(i)[0] = i
         /\ \A k \in Nat : Ancestor(i)[k + 1] = Ancestor(i)[k] \div 2
<1>1. PICK f : Runs("ancestor", 0, i, f, Nat)
  BY RunExists
<1>2. f = [k \in Nat |-> IF k = 0 THEN i ELSE f[k - 1] \div 2]
  BY <1>1 DEF Runs, LoopTurn
<1>3. Ancestor(i) = [k \in Nat |-> IF k = 0 THEN i ELSE Ancestor(i)[k - 1] \div 2]
  BY <1>2 DEF Ancestor
<1> QED
  BY <1>3

\* Induction over a set of naturals.
LEMMA SetOfNaturals ==
  ASSUME NEW S \in SUBSET Nat, 0 \in S, \A n \in S : n + 1 \in S
  PROVE  S = Nat
<1> DEFINE Bad == Nat \ S
<1>1. Bad = {}
  <2>1. SUFFICES ASSUME Bad # {} PROVE FALSE
    OBVIOUS
  <2>2. PICK m \in Bad : \A k \in Bad : m <= k
    BY <2>1, LeastElement
  <2>3. m # 0 /\ m - 1 \in Nat /\ (m - 1) + 1 = m
    BY <2>2
  <2>4. m - 1 \in S
    BY <2>2, <2>3
  <2> QED
    BY <2>2, <2>3, <2>4
<1> QED
  BY <1>1

----------------------------------------------------------------------------
(* Positions and layers. *)

\* A position is halved on the way up, until it is 0.
LEMMA AncestorFalls ==
  ASSUME NEW i \in Nat
  PROVE  \A k \in Nat : /\ Ancestor(i)[k] \in Nat
                        /\ Ancestor(i)[k] = 0 \/ Ancestor(i)[k] + k <= i
<1> DEFINE S == {k \in Nat : /\ Ancestor(i)[k] \in Nat
                             /\ Ancestor(i)[k] = 0 \/ Ancestor(i)[k] + k <= i}
<1>1. 0 \in S
  BY AncestorIs
<1>2. ASSUME NEW k \in S PROVE k + 1 \in S
  <2>1. Ancestor(i)[k + 1] = Ancestor(i)[k] \div 2
    BY AncestorIs
  <2> QED
    BY <2>1
<1> HIDE DEF S
<1>3. S = Nat
  BY <1>1, <1>2, SetOfNaturals DEF S
<1> QED
  BY <1>3 DEF S

\* Once it is 0 it remains 0.
LEMMA AncestorEnds ==
  ASSUME NEW i \in Nat, NEW k \in Nat, NEW j \in Nat, k <= j, Ancestor(i)[k] = 0
  PROVE  Ancestor(i)[j] = 0
<1> DEFINE S == {d \in Nat : Ancestor(i)[k + d] = 0}
<1>1. 0 \in S
  OBVIOUS
<1>2. ASSUME NEW d \in S PROVE d + 1 \in S
  <2>1. k + d \in Nat /\ k + (d + 1) = (k + d) + 1
    OBVIOUS
  <2>2. Ancestor(i)[(k + d) + 1] = Ancestor(i)[k + d] \div 2
    BY <2>1, AncestorIs
  <2> QED
    BY <2>1, <2>2
<1> HIDE DEF S
<1>3. S = Nat
  BY <1>1, <1>2, SetOfNaturals DEF S
<1>4. j - k \in Nat /\ k + (j - k) = j
  OBVIOUS
<1>5. Ancestor(i)[k + (j - k)] = 0
  BY <1>3, <1>4 DEF S
<1> QED
  BY <1>4, <1>5

\* The first layer on which the last of n positions is 0: the loops end there.
LEMMA TopIs ==
  ASSUME NEW n \in Nat \ {0}
  PROVE  /\ Top(n) \in 0 .. (n - 1) /\ Ancestor(n - 1)[Top(n)] = 0
         /\ \A j \in 0 .. (Top(n) - 1) : Ancestor(n - 1)[j] > 0
<1> DEFINE S == {k \in Nat : Ancestor(n - 1)[k] = 0}
<1>1. \A k \in Nat : /\ Ancestor(n - 1)[k] \in Nat
                     /\ Ancestor(n - 1)[k] = 0 \/ Ancestor(n - 1)[k] + k <= n - 1
  BY AncestorFalls
<1>2. n - 1 \in S
  BY <1>1
<1>3. PICK k \in S : \A j \in S : k <= j
  BY <1>2, LeastElement
<1>4. k \in 0 .. n - 1 /\ k \in 0 .. n
  BY <1>2, <1>3
<1>5. \A j \in 0 .. (k - 1) : Ancestor(n - 1)[j] > 0
  <2> SUFFICES ASSUME NEW j \in 0 .. (k - 1) PROVE Ancestor(n - 1)[j] > 0
    OBVIOUS
  <2>1. j \in Nat /\ j \notin S
    BY <1>3
  <2> QED
    BY <1>1, <2>1
<1> DEFINE P(t) == /\ Ancestor(n - 1)[t] = 0
                   /\ \A j \in 0 .. (t - 1) : Ancestor(n - 1)[j] > 0
<1>6. Top(n) \in 0 .. n /\ P(Top(n))
  <2>1. Top(n) = CHOOSE t \in 0 .. n : P(t)
    BY DEF Top
  <2>2. k \in 0 .. n /\ P(k)
    BY <1>3, <1>4, <1>5
  <2> HIDE DEF P
  <2> QED
    BY <2>1, <2>2
<1>7. ~ (n - 1 < Top(n))
  BY <1>2, <1>6
<1> QED
  BY <1>6, <1>7

\* On every layer the last of n positions is at or just before position n.
LEMMA NeighbourAncestor ==
  ASSUME NEW n \in Nat \ {0}, NEW k \in Nat
  PROVE  /\ Ancestor(n)[k] \in Nat /\ Ancestor(n - 1)[k] \in Nat
         /\ Ancestor(n)[k] \in {Ancestor(n - 1)[k], Ancestor(n - 1)[k] + 1}
<1> DEFINE S == {j \in Nat : /\ Ancestor(n)[j] \in Nat /\ Ancestor(n - 1)[j] \in Nat
                             /\ Ancestor(n)[j] \in {Ancestor(n - 1)[j], Ancestor(n - 1)[j] + 1}}
<1>1. 0 \in S
  BY AncestorIs
<1>2. ASSUME NEW j \in S PROVE j + 1 \in S
  <2>1. /\ Ancestor(n)[j + 1] = Ancestor(n)[j] \div 2
        /\ Ancestor(n - 1)[j + 1] = Ancestor(n - 1)[j] \div 2
    BY AncestorIs
  <2> QED
    BY <2>1
<1> HIDE DEF S
<1>3. S = Nat
  BY <1>1, <1>2, SetOfNaturals DEF S
<1> QED
  BY <1>3 DEF S

----------------------------------------------------------------------------
(* The layers of a tree. *)

\* A function on 1 .. m is a sequence of m elements.
LEMMA FunctionIsSequence ==
  ASSUME NEW m \in Nat, NEW f, f = [i \in 1 .. m |-> f[i]], NEW S,
         \A i \in 1 .. m : f[i] \in S
  PROVE  f \in Seq(S) /\ Len(f) = m
<1>1. f \in [1 .. m -> S]
  OBVIOUS
<1> QED
  BY <1>1, SeqDef

\* The layers are the leaves and, above each layer, its parents.
LEMMA LayersAre ==
  ASSUME NEW s
  PROVE  /\ Build(s)[0] = s
         /\ \A k \in Nat : Build(s)[k + 1] = UpLayer(Build(s)[k])
<1>1. PICK f : Runs("layers", 0, s, f, Nat)
  BY RunExists
<1>2. f = [k \in Nat |-> IF k = 0 THEN s ELSE UpLayer(f[k - 1])]
  BY <1>1 DEF Runs, LoopTurn
<1>3. Build(s) = [k \in Nat |-> IF k = 0 THEN s ELSE UpLayer(Build(s)[k - 1])]
  BY <1>2 DEF Build
<1> QED
  BY <1>3

\* What is on them.
NodesOf(s) == {Build(s)[k][i] : k \in Nat, i \in Nat}

\* Each layer has a node for every position that the leaves have there.
LEMMA LayerIsSequence ==
  ASSUME NEW S, NEW s \in Seq(S), s # <<>>, NEW k \in Nat
  PROVE  /\ Build(s)[k] \in Seq(NodesOf(s))
         /\ Len(Build(s)[k]) \in Nat \ {0}
         /\ Len(Build(s)[k]) = Ancestor(Len(s) - 1)[k] + 1
<1> DEFINE n == Len(s)
           Good(j) == /\ Build(s)[j] = [i \in 1 .. Ancestor(n - 1)[j] + 1 |-> Build(s)[j][i]]
                      /\ Ancestor(n - 1)[j] \in Nat
           T == {j \in Nat : Good(j)}
<1>0. n \in Nat \ {0} /\ s = [i \in 1 .. n |-> s[i]]
  OBVIOUS
<1>1. 0 \in T
  <2>1. Build(s)[0] = s /\ Ancestor(n - 1)[0] = n - 1
    BY <1>0, LayersAre, AncestorIs
  <2>2. Ancestor(n - 1)[0] + 1 = n /\ Ancestor(n - 1)[0] \in Nat
    <3> HIDE DEF n
    <3> QED
      BY <1>0, <2>1
  <2>3. [i \in 1 .. Ancestor(n - 1)[0] + 1 |-> Build(s)[0][i]] = [i \in 1 .. n |-> s[i]]
    BY <2>1, <2>2, Zenon
  <2>4. Good(0)
    BY <1>0, <2>1, <2>2, <2>3, Zenon
  <2> QED
    BY <2>4
<1>2. \A j \in T : Len(Build(s)[j]) = Ancestor(n - 1)[j] + 1
  OBVIOUS
<1>3. ASSUME NEW j \in T PROVE j + 1 \in T
  <2>1. Ancestor(n - 1)[j + 1] = Ancestor(n - 1)[j] \div 2
    BY AncestorIs
  <2>2. Build(s)[j + 1] = UpLayer(Build(s)[j])
    BY LayersAre
  <2>3. (Len(Build(s)[j]) + 1) \div 2 = Ancestor(n - 1)[j + 1] + 1
    <3>1. Len(Build(s)[j]) = Ancestor(n - 1)[j] + 1 /\ Ancestor(n - 1)[j] \in Nat
      BY <1>2
    <3>2. \A a \in Nat : ((a + 1) + 1) \div 2 = (a \div 2) + 1
      OBVIOUS
    <3> QED
      BY <2>1, <3>1, <3>2
  <2>4. Build(s)[j + 1] = [i \in 1 .. Ancestor(n - 1)[j + 1] + 1 |-> Build(s)[j + 1][i]]
    BY <2>2, <2>3 DEF UpLayer
  <2> QED
    BY <2>1, <2>4
<1> HIDE DEF T
<1>4. T = Nat
  BY <1>1, <1>3, SetOfNaturals DEF T
<1>5. Good(k)
  BY <1>4 DEF T
<1>6. \A i \in 1 .. Ancestor(n - 1)[k] + 1 : Build(s)[k][i] \in NodesOf(s)
  BY DEF NodesOf
<1> HIDE DEF n
<1>7. Ancestor(n - 1)[k] + 1 \in Nat \ {0}
  BY <1>5
<1> QED
  BY <1>5, <1>6, <1>7, FunctionIsSequence DEF n

\* A node is the hash of the two below it, or of the last one twice.
LEMMA ParentIs ==
  ASSUME NEW S, NEW s \in Seq(S), s # <<>>, NEW k \in Nat,
         NEW i \in 1 .. Len(Build(s)[k + 1])
  PROVE  /\ 2 * i - 1 \in 1 .. Len(Build(s)[k])
         /\ Build(s)[k + 1][i] =
              Hash(Build(s)[k][2 * i - 1],
                   IF 2 * i <= Len(Build(s)[k]) THEN Build(s)[k][2 * i]
                   ELSE Build(s)[k][2 * i - 1])
<1>1. Len(Build(s)[k]) \in Nat \ {0}
  BY LayerIsSequence
<1>2. Build(s)[k + 1] = UpLayer(Build(s)[k])
  BY LayersAre
<1>3. i \in DOMAIN UpLayer(Build(s)[k])
  <2>0. k + 1 \in Nat
    OBVIOUS
  <2>1. Build(s)[k + 1] \in Seq(NodesOf(s))
    BY <2>0, LayerIsSequence
  <2>2. i \in DOMAIN Build(s)[k + 1]
    BY <2>1
  <2> QED
    BY <1>2, <2>2
<1>4. i \in 1 .. (Len(Build(s)[k]) + 1) \div 2
  BY <1>3 DEF UpLayer
<1>5. Build(s)[k + 1][i] =
        Hash(Build(s)[k][2 * i - 1],
             IF 2 * i <= Len(Build(s)[k]) THEN Build(s)[k][2 * i] ELSE Build(s)[k][2 * i - 1])
  BY <1>2, <1>4 DEF UpLayer
<1>6. \A m \in Nat \ {0} : \A j \in 1 .. (m + 1) \div 2 : 2 * j - 1 \in 1 .. m
  OBVIOUS
<1> QED
  BY <1>1, <1>4, <1>5, <1>6

\* A complete subtree does not change when a leaf is added.
LEMMA CompleteStays ==
  ASSUME NEW S, NEW s \in Seq(S), NEW x \in S, NEW k \in Nat
  PROVE  \A i \in 1 .. Ancestor(Len(s))[k] :
           /\ i <= Len(Build(s)[k]) /\ i <= Len(Build(Append(s, x))[k])
           /\ Build(Append(s, x))[k][i] = Build(s)[k][i]
<1> DEFINE n == Len(s)
           u == Append(s, x)
           Good(j) == \A i \in 1 .. Ancestor(n)[j] :
                        /\ i <= Len(Build(s)[j]) /\ i <= Len(Build(u)[j])
                        /\ Build(u)[j][i] = Build(s)[j][i]
           T == {j \in Nat : Good(j)}
<1>0. /\ n \in Nat /\ u \in Seq(S) /\ u # <<>> /\ Len(u) = n + 1
      /\ \A i \in 1 .. n : u[i] = s[i]
      /\ Len(u) - 1 = n
  OBVIOUS
<1> HIDE DEF u
<1>1. ASSUME NEW j \in Nat PROVE Ancestor(n)[j] \in Nat
  BY <1>0, AncestorFalls
<1>2. ASSUME NEW j \in Nat, NEW i \in 1 .. Ancestor(n)[j]
      PROVE  s # <<>> /\ i <= Len(Build(s)[j]) /\ i <= Len(Build(u)[j])
  <2>1. Len(Build(u)[j]) = Ancestor(n)[j] + 1
    BY <1>0, LayerIsSequence
  <2>2. n # 0
    <3>1. Ancestor(0)[0] = 0
      BY AncestorIs
    <3>2. Ancestor(0)[j] = 0
      BY <3>1, AncestorEnds
    <3> QED
      BY <3>2
  <2>3. s # <<>>
    BY <2>2
  <2>4. Len(Build(s)[j]) = Ancestor(n - 1)[j] + 1
    BY <2>3, LayerIsSequence
  <2>5. /\ Ancestor(n - 1)[j] \in Nat
        /\ Ancestor(n)[j] \in {Ancestor(n - 1)[j], Ancestor(n - 1)[j] + 1}
    BY <1>0, <2>2, NeighbourAncestor
  <2> QED
    BY <1>1, <2>1, <2>3, <2>4, <2>5
<1>3. 0 \in T
  <2>1. Build(s)[0] = s /\ Build(u)[0] = u /\ Ancestor(n)[0] = n
    BY <1>0, LayersAre, AncestorIs
  <2> QED
    BY <1>0, <2>1
<1>4. ASSUME NEW j \in T PROVE j + 1 \in T
  <2> SUFFICES ASSUME NEW i \in 1 .. Ancestor(n)[j + 1]
               PROVE  Build(u)[j + 1][i] = Build(s)[j + 1][i]
    BY <1>2
  <2>1. Ancestor(n)[j + 1] = Ancestor(n)[j] \div 2 /\ Ancestor(n)[j] \in Nat
    BY <1>0, <1>1, AncestorIs
  <2>2. 2 * i - 1 \in 1 .. Ancestor(n)[j] /\ 2 * i \in 1 .. Ancestor(n)[j]
    BY <2>1
  <2>3. s # <<>> /\ i \in 1 .. Len(Build(s)[j + 1]) /\ i \in 1 .. Len(Build(u)[j + 1])
    <3>1. /\ s # <<>> /\ i <= Len(Build(s)[j + 1]) /\ i <= Len(Build(u)[j + 1])
      BY <1>2
    <3>2. Len(Build(s)[j + 1]) \in Nat /\ Len(Build(u)[j + 1]) \in Nat
      BY <1>0, <3>1, LayerIsSequence
    <3> QED
      BY <3>1, <3>2, <2>2
  <2>4. /\ 2 * i <= Len(Build(s)[j]) /\ 2 * i <= Len(Build(u)[j])
        /\ Build(u)[j][2 * i] = Build(s)[j][2 * i]
        /\ Build(u)[j][2 * i - 1] = Build(s)[j][2 * i - 1]
    BY <2>2
  <2>5. Build(s)[j + 1][i] = Hash(Build(s)[j][2 * i - 1], Build(s)[j][2 * i])
    BY <2>3, <2>4, ParentIs
  <2>6. Build(u)[j + 1][i] = Hash(Build(u)[j][2 * i - 1], Build(u)[j][2 * i])
    BY <1>0, <2>3, <2>4, ParentIs
  <2> QED
    BY <2>4, <2>5, <2>6
<1> HIDE DEF T
<1>5. T = Nat
  BY <1>3, <1>4, SetOfNaturals DEF T
<1> QED
  BY <1>5 DEF T, u

----------------------------------------------------------------------------
(* The path that is kept. *)

\* What Complete says of each layer.
LEMMA CompletesAre ==
  ASSUME NEW s
  PROVE  /\ Complete(s)[0] = <<>>
         /\ \A k \in Nat :
              Complete(s)[k + 1] =
                IF Ancestor(Len(s))[k] % 2 = 1
                THEN Append(Complete(s)[k], Build(s)[k][Ancestor(Len(s))[k]])
                ELSE Complete(s)[k]
<1>1. PICK f : Runs("complete", s, <<>>, f, Nat)
  BY RunExists
<1>2. f = [k \in Nat |->
             IF k = 0 THEN <<>>
             ELSE LET complete == Ancestor(Len(s))[k - 1]
                  IN  IF complete % 2 = 1
                      THEN Append(f[k - 1], Build(s)[k - 1][complete]) ELSE f[k - 1]]
  BY <1>1 DEF Runs, LoopTurn
<1>3. Complete(s) = [k \in Nat |->
             IF k = 0 THEN <<>>
             ELSE LET complete == Ancestor(Len(s))[k - 1]
                  IN  IF complete % 2 = 1
                      THEN Append(Complete(s)[k - 1], Build(s)[k - 1][complete])
                      ELSE Complete(s)[k - 1]]
  BY <1>2, Zenon DEF Complete
<1>4. \A k \in Nat : k + 1 \in Nat /\ k + 1 # 0 /\ (k + 1) - 1 = k
  OBVIOUS
<1>5. Complete(s)[0] = <<>>
  BY <1>3
<1>6. ASSUME NEW k \in Nat
      PROVE  Complete(s)[k + 1] =
                IF Ancestor(Len(s))[k] % 2 = 1
                THEN Append(Complete(s)[k], Build(s)[k][Ancestor(Len(s))[k]])
                ELSE Complete(s)[k]
  <2>1. Complete(s)[k + 1] =
          IF Ancestor(Len(s))[(k + 1) - 1] % 2 = 1
          THEN Append(Complete(s)[(k + 1) - 1],
                      Build(s)[(k + 1) - 1][Ancestor(Len(s))[(k + 1) - 1]])
          ELSE Complete(s)[(k + 1) - 1]
    <3> DEFINE F(g, j) == LET complete == Ancestor(Len(s))[j - 1]
                          IN  IF complete % 2 = 1
                              THEN Append(g[j - 1], Build(s)[j - 1][complete])
                              ELSE g[j - 1]
    <3>1. Complete(s) = [j \in Nat |-> IF j = 0 THEN <<>> ELSE F(Complete(s), j)]
      BY <1>3, Zenon
    <3> HIDE DEF F
    <3>2. Complete(s)[k + 1] = F(Complete(s), k + 1)
      BY <1>4, <3>1
    <3> QED
      BY <3>2, Zenon DEF F
  <2> QED
    BY <1>4, <2>1, Zenon
<1> QED
  BY <1>5, <1>6

\* It has at most one node per layer, and no more than there are leaves.
LEMMA CompleteIsShort ==
  ASSUME NEW S, NEW s \in Seq(S), NEW k \in Nat
  PROVE  /\ Complete(s)[k] \in Seq(NodesOf(s))
         /\ Len(Complete(s)[k]) \in 0 .. k
         /\ Len(Complete(s)[k]) + Ancestor(Len(s))[k] <= Len(s)
         /\ k # 0 /\ Len(s) > 1 => Len(Complete(s)[k]) + Ancestor(Len(s))[k] < Len(s)
<1> DEFINE n == Len(s)
           Good(j) == /\ Complete(s)[j] \in Seq(NodesOf(s))
                      /\ Len(Complete(s)[j]) \in 0 .. j
                      /\ Len(Complete(s)[j]) + Ancestor(n)[j] <= n
                      /\ j # 0 /\ n > 1 => Len(Complete(s)[j]) + Ancestor(n)[j] < n
           T == {j \in Nat : Good(j)}
<1>0. n \in Nat
  OBVIOUS
<1>1. 0 \in T
  <2>1. Complete(s)[0] = <<>> /\ Ancestor(n)[0] = n
    BY CompletesAre, AncestorIs
  <2>2. <<>> \in Seq(NodesOf(s)) /\ Len(<<>>) = 0
    OBVIOUS
  <2>3. Complete(s)[0] \in Seq(NodesOf(s)) /\ Len(Complete(s)[0]) = 0
    BY <2>1, <2>2
  <2> HIDE DEF n
  <2>4. Good(0)
    BY <1>0, <2>1, <2>3
  <2> QED
    BY <2>4
<1>2. ASSUME NEW j \in T PROVE j + 1 \in T
  <2> DEFINE c == Complete(s)[j]
             a == Ancestor(n)[j]
             e == Build(s)[j][a]
  <2>0. j \in Nat /\ j + 1 \in Nat /\ j + 1 # 0
    OBVIOUS
  <2>1. c \in Seq(NodesOf(s)) /\ Len(c) \in 0 .. j /\ Len(c) + a <= n
    OBVIOUS
  <2>2. a \in Nat /\ Ancestor(n)[j + 1] = a \div 2
    BY <1>0, <2>0, AncestorFalls, AncestorIs
  <2>3. Complete(s)[j + 1] = IF a % 2 = 1 THEN Append(c, e) ELSE c
    BY <2>0, CompletesAre
  <2>4. e \in NodesOf(s)
    BY <2>0, <2>2 DEF NodesOf
  <2>5. j = 0 => a = n
    BY AncestorIs
  <2>6. j # 0 /\ n > 1 => Len(c) + a < n
    OBVIOUS
  <2> HIDE DEF T, c, a, e, n
  <2>7. CASE a % 2 = 1
    <3>1. Append(c, e) \in Seq(NodesOf(s)) /\ Len(Append(c, e)) = Len(c) + 1
      BY <2>1, <2>4
    <3>2. /\ Len(c) + 1 + (a \div 2) <= Len(c) + a
          /\ a > 1 => Len(c) + 1 + (a \div 2) < Len(c) + a
          /\ Len(c) + 1 \in 0 .. j + 1
      BY <2>0, <2>1, <2>2, <2>7
    <3>3. n > 1 => Len(c) + 1 + (a \div 2) < n
      BY <1>0, <2>0, <2>1, <2>2, <2>5, <2>6, <2>7, <3>2
    <3>4. /\ Complete(s)[j + 1] \in Seq(NodesOf(s))
          /\ Len(Complete(s)[j + 1]) = Len(c) + 1
          /\ Ancestor(n)[j + 1] = a \div 2
      BY <2>2, <2>3, <2>7, <3>1
    <3>5. Len(c) + 1 + (a \div 2) <= n
      BY <1>0, <2>1, <2>2, <2>7, <3>2
    <3>6. Good(j + 1)
      BY <3>2, <3>3, <3>4, <3>5
    <3> QED
      BY <2>0, <3>6 DEF T
  <2>8. CASE a % 2 # 1
    <3>2. /\ Len(c) + (a \div 2) <= Len(c) + a
          /\ a > 1 => Len(c) + (a \div 2) < Len(c) + a
          /\ Len(c) \in 0 .. j + 1
      BY <2>0, <2>1, <2>2, <2>8
    <3>3. n > 1 => Len(c) + (a \div 2) < n
      BY <1>0, <2>0, <2>1, <2>2, <2>5, <2>6, <2>8, <3>2
    <3> QED
      BY <1>0, <2>0, <2>1, <2>2, <2>3, <2>8, <3>2, <3>3 DEF T
  <2> QED
    BY <2>7, <2>8
<1> HIDE DEF T
<1>3. T = Nat
  BY <1>1, <1>2, SetOfNaturals DEF T
<1> QED
  BY <1>3 DEF T

\* What is found on lower layers comes first.
LEMMA CompleteIsPrefix ==
  ASSUME NEW S, NEW s \in Seq(S), NEW k \in Nat, NEW j \in Nat, k <= j
  PROVE  /\ Len(Complete(s)[k]) <= Len(Complete(s)[j])
         /\ \A i \in 1 .. Len(Complete(s)[k]) : Complete(s)[j][i] = Complete(s)[k][i]
<1> DEFINE c == Complete(s)[k]
           Good(d) == /\ Len(c) <= Len(Complete(s)[k + d])
                      /\ \A i \in 1 .. Len(c) : Complete(s)[k + d][i] = c[i]
           T == {d \in Nat : Good(d)}
<1>0. ASSUME NEW d \in Nat
      PROVE  Complete(s)[d] \in Seq(NodesOf(s)) /\ Len(Complete(s)[d]) \in Nat
  <2>1. Complete(s)[d] \in Seq(NodesOf(s)) /\ Len(Complete(s)[d]) \in 0 .. d
    BY CompleteIsShort
  <2> QED
    BY <2>1
<1>1. 0 \in T
  BY <1>0
<1>2. ASSUME NEW d \in T PROVE d + 1 \in T
  <2> DEFINE b == Complete(s)[k + d]
             e == Build(s)[k + d][Ancestor(Len(s))[k + d]]
  <2>1. d \in Nat /\ k + d \in Nat /\ k + (d + 1) = (k + d) + 1
    OBVIOUS
  <2>2. Complete(s)[k + (d + 1)] \in {b, Append(b, e)}
    BY <2>1, CompletesAre
  <2>3. b \in Seq(NodesOf(s)) /\ Len(b) \in Nat /\ Len(c) \in Nat
    BY <1>0, <2>1
  <2>4. e \in NodesOf(s)
    BY <2>1, AncestorFalls DEF NodesOf
  <2>5. Len(c) <= Len(b) /\ \A i \in 1 .. Len(c) : b[i] = c[i]
    OBVIOUS
  <2> HIDE DEF T, b, e, c
  <2>6. Len(Append(b, e)) = Len(b) + 1 /\ \A i \in 1 .. Len(b) : Append(b, e)[i] = b[i]
    BY <2>3, <2>4
  <2>7. CASE Complete(s)[k + (d + 1)] = b
    <3>1. Good(d + 1)
      BY <2>5, <2>7
    <3> QED
      BY <2>1, <3>1 DEF T
  <2>8. CASE Complete(s)[k + (d + 1)] = Append(b, e)
    <3>1. Good(d + 1)
      BY <2>3, <2>5, <2>6, <2>8
    <3> QED
      BY <2>1, <3>1 DEF T
  <2> QED
    BY <2>2, <2>7, <2>8
<1> HIDE DEF T
<1>3. T = Nat
  BY <1>1, <1>2, SetOfNaturals DEF T
<1>4. j - k \in Nat /\ k + (j - k) = j
  OBVIOUS
<1>5. Good(j - k)
  BY <1>3, <1>4 DEF T
<1> QED
  BY <1>4, <1>5

\* The path of a tree: it has room, and its last entry is the root.
LEMMA FrontierIs ==
  ASSUME NEW S, NEW s \in Seq(S), s # <<>>
  PROVE  LET c == Complete(s)[Top(Len(s))]
         IN  /\ Frontier(s) \in Seq(NodesOf(s))
             /\ Len(c) \in Nat /\ Len(Frontier(s)) = Len(c) + 1
             /\ Len(Frontier(s)) <= Top(Len(s)) + 1
             /\ Len(Frontier(s)) \in 1 .. Len(s)
             /\ \A i \in 1 .. Len(c) : Frontier(s)[i] = c[i]
             /\ Frontier(s)[Len(c) + 1] = GetRoot(s)
<1> DEFINE n == Len(s)
           k == Top(n)
           c == Complete(s)[k]
<1>1. n \in Nat \ {0}
  OBVIOUS
<1>2. k \in Nat /\ (n > 1 => k # 0)
  <2>1. k \in 0 .. (n - 1) /\ Ancestor(n - 1)[k] = 0
    BY <1>1, TopIs
  <2>2. Ancestor(n - 1)[0] = n - 1
    BY AncestorIs
  <2> QED
    BY <1>1, <2>1, <2>2
<1>3. GetRoot(s) = Build(s)[k][1] /\ GetRoot(s) \in NodesOf(s)
  BY <1>2 DEF GetRoot, NodesOf
<1>4. /\ c \in Seq(NodesOf(s)) /\ Len(c) \in 0 .. k
      /\ Len(c) + Ancestor(n)[k] <= n
      /\ k # 0 /\ n > 1 => Len(c) + Ancestor(n)[k] < n
  BY <1>2, CompleteIsShort
<1>5. Ancestor(n)[k] \in Nat
  BY <1>1, <1>2, AncestorFalls
<1>6. Frontier(s) = Append(c, GetRoot(s))
  BY DEF Frontier
<1>7. n = 1 => k = 0
  <2>1. k \in 0 .. (n - 1)
    BY <1>1, TopIs
  <2> QED
    BY <1>1, <2>1
<1> HIDE DEF c, k, n
<1>8. Len(c) < n
  BY <1>1, <1>2, <1>4, <1>5, <1>7
<1>9. /\ Append(c, GetRoot(s)) \in Seq(NodesOf(s))
      /\ Len(Append(c, GetRoot(s))) = Len(c) + 1
      /\ \A i \in 1 .. Len(c) : Append(c, GetRoot(s))[i] = c[i]
      /\ Append(c, GetRoot(s))[Len(c) + 1] = GetRoot(s)
  BY <1>3, <1>4
<1> QED
  BY <1>1, <1>2, <1>4, <1>6, <1>8, <1>9 DEF c, k, n

\* What the climb of the next leaf needs of it, and where it finds it.
LEMMA FrontierHas ==
  ASSUME NEW S, NEW s \in Seq(S), s # <<>>, NEW k \in Nat, Ancestor(Len(s))[k] % 2 = 1
  PROVE  LET i == Len(Complete(s)[k]) + 1
         IN  /\ i \in 1 .. Len(Frontier(s))
             /\ Frontier(s)[i] = Build(s)[k][Ancestor(Len(s))[k]]
<1> DEFINE n == Len(s)
           t == Top(n)
           c == Complete(s)[k]
           e == Build(s)[k][Ancestor(n)[k]]
           b == Complete(s)[t]
<1>1. n \in Nat \ {0}
  OBVIOUS
<1>2. t \in Nat /\ Ancestor(n - 1)[t] = 0
  BY <1>1, TopIs
<1>3. c \in Seq(NodesOf(s)) /\ Len(c) \in Nat
  <2>1. c \in Seq(NodesOf(s)) /\ Len(c) \in 0 .. k
    BY CompleteIsShort
  <2> QED
    BY <2>1
<1>4. /\ Len(b) \in Nat /\ Len(Frontier(s)) = Len(b) + 1
      /\ \A i \in 1 .. Len(b) : Frontier(s)[i] = b[i]
      /\ Frontier(s)[Len(b) + 1] = GetRoot(s)
  BY FrontierIs
<1>5. CASE k < t
  <2>1. Complete(s)[k + 1] = Append(c, e)
    BY CompletesAre
  <2>2. e \in NodesOf(s)
    BY <1>1, AncestorFalls DEF NodesOf
  <2>3. k + 1 \in Nat /\ k + 1 <= t
    BY <1>2, <1>5
  <2>4. /\ Len(Append(c, e)) <= Len(b)
        /\ \A i \in 1 .. Len(Append(c, e)) : b[i] = Append(c, e)[i]
    <3> DEFINE d == Complete(s)[k + 1]
    <3>1. Len(d) <= Len(b) /\ \A i \in 1 .. Len(d) : b[i] = d[i]
      BY <1>2, <2>3, CompleteIsPrefix
    <3> QED
      BY <2>1, <3>1
  <2>5. Len(Append(c, e)) = Len(c) + 1 /\ Append(c, e)[Len(c) + 1] = e
    BY <1>3, <2>2
  <2> HIDE DEF b, c, e, t, n
  <2>6. Len(c) + 1 \in 1 .. Len(b)
    BY <1>3, <1>4, <2>4, <2>5
  <2>7. Frontier(s)[Len(c) + 1] = e
    BY <1>4, <2>4, <2>5, <2>6
  <2> QED
    BY <1>3, <1>4, <2>6, <2>7 DEF c, e, n
<1>6. CASE t <= k
  <2>1. ASSUME NEW j \in Nat, t <= j PROVE Ancestor(n)[j] \in {0, 1}
    <3>1. Ancestor(n - 1)[j] = 0
      BY <1>1, <1>2, <2>1, AncestorEnds
    <3>2. Ancestor(n)[j] \in {Ancestor(n - 1)[j], Ancestor(n - 1)[j] + 1}
      BY <1>1, NeighbourAncestor
    <3> QED
      BY <3>1, <3>2
  <2>2. Ancestor(n)[k] = 1
    BY <1>6, <2>1
  <2>3. k = t
    <3> SUFFICES ASSUME k # t PROVE FALSE
      OBVIOUS
    <3>1. t + 1 \in Nat /\ t + 1 <= k
      BY <1>2, <1>6
    <3>2. Ancestor(n)[t + 1] = Ancestor(n)[t] \div 2 /\ Ancestor(n)[t] \in {0, 1}
      <4>1. t \in Nat /\ t <= t
        BY <1>2
      <4>2. Ancestor(n)[t] \in {0, 1}
        BY <4>1, <2>1
      <4>3. Ancestor(n)[t + 1] = Ancestor(n)[t] \div 2
        BY <4>1, AncestorIs
      <4> QED
        BY <4>2, <4>3
    <3>3. Ancestor(n)[t + 1] = 0
      BY <3>2
    <3>4. Ancestor(n)[k] = 0
      BY <1>1, <3>1, <3>3, AncestorEnds
    <3> QED
      BY <2>2, <3>4
  <2>4. GetRoot(s) = Build(s)[t][1]
    BY DEF GetRoot
  <2>5. b = c /\ e = GetRoot(s)
    BY <2>2, <2>3, <2>4
  <2> HIDE DEF b, c, e, t, n
  <2>6. Len(c) + 1 \in 1 .. Len(Frontier(s)) /\ Frontier(s)[Len(c) + 1] = e
    BY <1>3, <1>4, <2>5
  <2> QED
    BY <2>6 DEF c, e, n
<1> QED
  BY <1>2, <1>5, <1>6

----------------------------------------------------------------------------
(* The climb of a new leaf. *)

\* What Climbing says of each turn.
LEMMA ClimbingIs ==
  ASSUME NEW old, NEW n, NEW x
  PROVE  /\ Climbing(old, n, x)[0] = [index |-> n, node |-> x, flag |-> 2,
                                      path |-> <<>>, read |-> 0]
         /\ \A k \in Nat : Climbing(old, n, x)[k + 1] = Turn(old, Climbing(old, n, x)[k])
<1> DEFINE start == [index |-> n, node |-> x, flag |-> 2, path |-> <<>>, read |-> 0]
<1>1. PICK f : Runs("climb", old, start, f, Nat)
  BY RunExists
<1>2. f = [k \in Nat |-> IF k = 0 THEN start ELSE Turn(old, f[k - 1])]
  BY <1>1 DEF Runs, LoopTurn
<1>3. Climbing(old, n, x) =
        [k \in Nat |-> IF k = 0 THEN start ELSE Turn(old, Climbing(old, n, x)[k - 1])]
  BY <1>2, Zenon DEF Climbing
<1> HIDE DEF start
<1>4. \A k \in Nat : k + 1 \in Nat /\ k + 1 # 0 /\ (k + 1) - 1 = k
  OBVIOUS
<1>5. Climbing(old, n, x)[0] = start
  BY <1>3
<1>6. ASSUME NEW k \in Nat
      PROVE  Climbing(old, n, x)[k + 1] = Turn(old, Climbing(old, n, x)[k])
  BY <1>3, <1>4
<1> QED
  BY <1>5, <1>6 DEF start

\* Where the climb of leaf x is after k turns: at the last node of layer k, with the
\* path of the new leaves so far, and as many nodes of the old path read.
OnTheWay(s, x, k, c) ==
  LET u == Append(s, x)
      m == Len(s)
  IN  /\ c.index = Ancestor(m)[k] + 1
      /\ c.node = Build(u)[k][Ancestor(m)[k] + 1]
      /\ c.flag \in {0, 1, 2}
      /\ c.flag = 1 => Ancestor(m + 1)[k] = Ancestor(m)[k]
      /\ c.flag # 1 => Ancestor(m + 1)[k] = Ancestor(m)[k] + 1
      /\ c.path = Complete(u)[k]
      /\ c.read = Len(Complete(s)[k])
      /\ c.read <= IF s = <<>> THEN 0 ELSE Len(Frontier(s))

\* What the old path has to hold.
Holds(old, s) == s # <<>> => \A i \in 1 .. Len(Frontier(s)) : old[i] = Frontier(s)[i]

\* The layers of the new leaves, and the positions of the last two on them.
LayersOfNew(s, x, k) ==
  LET u == Append(s, x)
      m == Len(s)
  IN  /\ m \in Nat /\ u # <<>> /\ Len(u) = m + 1
      /\ Ancestor(m)[k] \in Nat /\ Ancestor(m + 1)[k] \in Nat
      /\ Ancestor(m)[k + 1] = Ancestor(m)[k] \div 2
      /\ Ancestor(m + 1)[k + 1] = Ancestor(m + 1)[k] \div 2
      /\ Len(Build(u)[k]) = Ancestor(m)[k] + 1
      /\ Len(Build(u)[k + 1]) = (Ancestor(m)[k] \div 2) + 1

\* What a turn of the climb needs to know of them.
LEMMA NewLayers ==
  ASSUME NEW S, NEW s \in Seq(S), NEW x \in S, NEW k \in Nat
  PROVE  Append(s, x) \in Seq(S) /\ LayersOfNew(s, x, k)
<1> DEFINE u == Append(s, x)
           m == Len(s)
<1>1. /\ m \in Nat /\ m + 1 \in Nat \ {0} /\ (m + 1) - 1 = m /\ k + 1 \in Nat
      /\ u \in Seq(S) /\ u # <<>> /\ Len(u) = m + 1 /\ Len(u) - 1 = m
  OBVIOUS
<1> HIDE DEF u, m
<1>2. Ancestor(m)[k] \in Nat /\ Ancestor(m + 1)[k] \in Nat
  BY <1>1, AncestorFalls
<1>3. /\ Ancestor(m)[k + 1] = Ancestor(m)[k] \div 2
      /\ Ancestor(m + 1)[k + 1] = Ancestor(m + 1)[k] \div 2
  BY AncestorIs
<1>4. /\ Len(Build(u)[k]) = Ancestor(Len(u) - 1)[k] + 1
      /\ Len(Build(u)[k + 1]) = Ancestor(Len(u) - 1)[k + 1] + 1
  BY <1>1, LayerIsSequence
<1>5. /\ Len(Build(u)[k]) = Ancestor(m)[k] + 1
      /\ Len(Build(u)[k + 1]) = (Ancestor(m)[k] \div 2) + 1
  BY <1>1, <1>3, <1>4
<1> QED
  BY <1>1, <1>2, <1>3, <1>5, Zenon DEF LayersOfNew, u, m

\* On an odd layer the node is doubled.
LEMMA OddTurn ==
  ASSUME NEW S, NEW s \in Seq(S), NEW x \in S, NEW k \in Nat, NEW old, NEW c,
         OnTheWay(s, x, k, c), c.index % 2 = 1
  PROVE  OnTheWay(s, x, k + 1, Turn(old, c))
<1> DEFINE u == Append(s, x)
           m == Len(s)
           a == Ancestor(m)[k]
           b == Ancestor(m + 1)[k]
           t == Turn(old, c)
<1>1. /\ m \in Nat /\ u \in Seq(S) /\ u # <<>> /\ Len(u) = m + 1
      /\ a \in Nat /\ b \in Nat
      /\ Ancestor(m)[k + 1] = a \div 2 /\ Ancestor(m + 1)[k + 1] = b \div 2
      /\ Len(Build(u)[k]) = a + 1 /\ Len(Build(u)[k + 1]) = (a \div 2) + 1
  <2>1. Append(s, x) \in Seq(S) /\ LayersOfNew(s, x, k)
    BY NewLayers
  <2> QED
    BY <2>1, Zenon DEF LayersOfNew
<1>2. /\ c.index = a + 1 /\ c.node = Build(u)[k][a + 1]
      /\ c.flag \in {0, 1, 2}
      /\ c.flag = 1 => b = a
      /\ c.flag # 1 => b = a + 1
      /\ c.path = Complete(u)[k] /\ c.read = Len(Complete(s)[k])
      /\ c.read <= IF s = <<>> THEN 0 ELSE Len(Frontier(s))
  BY DEF OnTheWay
<1>3. /\ t.index = c.index \div 2 + 1 /\ t.node = Hash(c.node, c.node) /\ t.flag = 1
      /\ t.path = IF c.flag = 1 THEN c.path ELSE Append(c.path, c.node)
      /\ t.read = c.read
  BY DEF Turn
<1>4. Complete(u)[k + 1] = IF b % 2 = 1 THEN Append(Complete(u)[k], Build(u)[k][b])
                           ELSE Complete(u)[k]
  BY <1>1, CompletesAre
<1>5. Complete(s)[k + 1] = IF a % 2 = 1 THEN Append(Complete(s)[k], Build(s)[k][a])
                           ELSE Complete(s)[k]
  BY CompletesAre
<1>6. \A i \in 1 .. (a \div 2) + 1 :
        Build(u)[k + 1][i] = Hash(Build(u)[k][2 * i - 1],
                                  IF 2 * i <= a + 1 THEN Build(u)[k][2 * i]
                                  ELSE Build(u)[k][2 * i - 1])
  <2> SUFFICES ASSUME NEW i \in 1 .. (a \div 2) + 1
               PROVE  Build(u)[k + 1][i] = Hash(Build(u)[k][2 * i - 1],
                                  IF 2 * i <= a + 1 THEN Build(u)[k][2 * i]
                                  ELSE Build(u)[k][2 * i - 1])
    OBVIOUS
  <2>1. i \in 1 .. Len(Build(u)[k + 1])
    BY <1>1
  <2> HIDE DEF u, m, a
  <2>2. Build(u)[k + 1][i] = Hash(Build(u)[k][2 * i - 1],
                                  IF 2 * i <= Len(Build(u)[k]) THEN Build(u)[k][2 * i]
                                  ELSE Build(u)[k][2 * i - 1])
    BY <1>1, <2>1, ParentIs
  <2> QED
    BY <1>1, <2>2
<1> HIDE DEF u, m, a, b, t
<1>7. /\ a % 2 # 1 /\ (a + 1) \div 2 = a \div 2
      /\ (a \div 2) + 1 \in 1 .. (a \div 2) + 1
      /\ 2 * ((a \div 2) + 1) - 1 = a + 1 /\ ~ (2 * ((a \div 2) + 1) <= a + 1)
  <2>1. \A i \in Nat : (i + 1) % 2 = 1 => i % 2 # 1 /\ (i + 1) \div 2 = i \div 2
    OBVIOUS
  <2>2. \A i \in Nat : i % 2 # 1 => i = 2 * (i \div 2) /\ i \div 2 \in Nat
    OBVIOUS
  <2>3. (a + 1) % 2 = 1
    BY <1>2
  <2>4. a % 2 # 1 /\ (a + 1) \div 2 = a \div 2
    BY <1>1, <2>1, <2>3
  <2>5. a = 2 * (a \div 2) /\ a \div 2 \in Nat
    BY <1>1, <2>2, <2>4
  <2> DEFINE h == a \div 2
  <2>6. \A i \in Nat : /\ i + 1 \in 1 .. i + 1 /\ 2 * (i + 1) - 1 = 2 * i + 1
                      /\ ~ (2 * (i + 1) <= 2 * i + 1)
    OBVIOUS
  <2> HIDE DEF h
  <2>7. h \in Nat /\ a = 2 * h
    BY <2>5 DEF h
  <2>8. h + 1 \in 1 .. h + 1 /\ 2 * (h + 1) - 1 = a + 1 /\ ~ (2 * (h + 1) <= a + 1)
    BY <2>6, <2>7
  <2> QED
    BY <2>4, <2>8 DEF h
<1>8. t.node = Build(u)[k + 1][(a \div 2) + 1]
  BY <1>2, <1>3, <1>6, <1>7
<1>9. t.index = (a \div 2) + 1 /\ b \div 2 = a \div 2
  BY <1>1, <1>2, <1>3, <1>7
<1>10. t.path = Complete(u)[k + 1]
  <2>1. CASE c.flag = 1
    BY <1>2, <1>3, <1>4, <1>7, <2>1
  <2>2. CASE c.flag # 1
    <3>1. b % 2 = 1
      BY <1>1, <1>2, <2>2
    <3> QED
      BY <1>2, <1>3, <1>4, <2>2, <3>1
  <2> QED
    BY <2>1, <2>2
<1>11. t.read = Len(Complete(s)[k + 1])
  BY <1>2, <1>3, <1>5, <1>7
<1>12. t.read <= IF s = <<>> THEN 0 ELSE Len(Frontier(s))
  BY <1>2, <1>3
<1> QED
  BY <1>1, <1>3, <1>8, <1>9, <1>10, <1>11, <1>12 DEF OnTheWay, u, m, a, b, t

\* On an even one its left neighbour is complete, and next in the old path.
LEMMA EvenTurn ==
  ASSUME NEW S, NEW s \in Seq(S), NEW x \in S, NEW k \in Nat, NEW old, NEW c,
         Holds(old, s), OnTheWay(s, x, k, c), c.index % 2 # 1
  PROVE  OnTheWay(s, x, k + 1, Turn(old, c))
<1> DEFINE u == Append(s, x)
           m == Len(s)
           a == Ancestor(m)[k]
           b == Ancestor(m + 1)[k]
           t == Turn(old, c)
           e == old[c.read + 1]
<1>1. /\ m \in Nat /\ u \in Seq(S) /\ u # <<>> /\ Len(u) = m + 1
      /\ a \in Nat /\ b \in Nat
      /\ Ancestor(m)[k + 1] = a \div 2 /\ Ancestor(m + 1)[k + 1] = b \div 2
      /\ Len(Build(u)[k]) = a + 1 /\ Len(Build(u)[k + 1]) = (a \div 2) + 1
  <2>1. Append(s, x) \in Seq(S) /\ LayersOfNew(s, x, k)
    BY NewLayers
  <2> QED
    BY <2>1, Zenon DEF LayersOfNew
<1>2. /\ c.index = a + 1 /\ c.node = Build(u)[k][a + 1]
      /\ c.flag \in {0, 1, 2}
      /\ c.flag = 1 => b = a
      /\ c.flag # 1 => b = a + 1
      /\ c.path = Complete(u)[k] /\ c.read = Len(Complete(s)[k])
      /\ c.read <= IF s = <<>> THEN 0 ELSE Len(Frontier(s))
  BY DEF OnTheWay
<1>3. /\ t.index = c.index \div 2 /\ t.node = Hash(e, c.node)
      /\ t.flag = IF c.flag = 2 THEN 0 ELSE c.flag
      /\ t.path = IF c.flag = 1 THEN Append(c.path, e) ELSE c.path
      /\ t.read = c.read + 1
  BY DEF Turn
<1>4. Complete(u)[k + 1] = IF b % 2 = 1 THEN Append(Complete(u)[k], Build(u)[k][b])
                           ELSE Complete(u)[k]
  BY <1>1, CompletesAre
<1>5. Complete(s)[k + 1] = IF a % 2 = 1 THEN Append(Complete(s)[k], Build(s)[k][a])
                           ELSE Complete(s)[k]
  BY CompletesAre
<1>6. \A i \in 1 .. (a \div 2) + 1 :
        Build(u)[k + 1][i] = Hash(Build(u)[k][2 * i - 1],
                                  IF 2 * i <= a + 1 THEN Build(u)[k][2 * i]
                                  ELSE Build(u)[k][2 * i - 1])
  <2> SUFFICES ASSUME NEW i \in 1 .. (a \div 2) + 1
               PROVE  Build(u)[k + 1][i] = Hash(Build(u)[k][2 * i - 1],
                                  IF 2 * i <= a + 1 THEN Build(u)[k][2 * i]
                                  ELSE Build(u)[k][2 * i - 1])
    OBVIOUS
  <2>1. i \in 1 .. Len(Build(u)[k + 1])
    BY <1>1
  <2> HIDE DEF u, m, a
  <2>2. Build(u)[k + 1][i] = Hash(Build(u)[k][2 * i - 1],
                                  IF 2 * i <= Len(Build(u)[k]) THEN Build(u)[k][2 * i]
                                  ELSE Build(u)[k][2 * i - 1])
    BY <1>1, <2>1, ParentIs
  <2> QED
    BY <1>1, <2>2
<1>7. a % 2 = 1
  <2>1. (a + 1) % 2 # 1
    BY <1>2
  <2>2. \A i \in Nat : (i + 1) % 2 # 1 => i % 2 = 1
    OBVIOUS
  <2> QED
    BY <1>1, <2>1, <2>2
<1>8. s # <<>>
  <2> SUFFICES ASSUME s = <<>> PROVE FALSE
    OBVIOUS
  <2>1. m = 0 /\ Ancestor(0)[0] = 0
    BY AncestorIs
  <2>2. Ancestor(0)[k] = 0
    BY <2>1, AncestorEnds
  <2> QED
    BY <1>7, <2>1, <2>2
<1>9. /\ Len(Complete(s)[k]) + 1 \in 1 .. Len(Frontier(s))
      /\ Frontier(s)[Len(Complete(s)[k]) + 1] = Build(s)[k][a]
  BY <1>7, <1>8, FrontierHas
<1>10. e = Build(s)[k][a]
  BY <1>2, <1>8, <1>9 DEF Holds
<1>11. Build(u)[k][a] = Build(s)[k][a]
  <2>1. a \in 1 .. Ancestor(Len(s))[k]
    BY <1>1, <1>7
  <2> QED
    BY <2>1, CompleteStays
<1>12. Complete(s)[k] \in Seq(NodesOf(s)) /\ Build(s)[k][a] \in NodesOf(s)
  <2>1. Build(s)[k][a] \in NodesOf(s)
    BY <1>1 DEF NodesOf
  <2> QED
    BY <2>1, CompleteIsShort
<1>13. Len(Complete(s)[k + 1]) = Len(Complete(s)[k]) + 1
  BY <1>5, <1>7, <1>12
<1> HIDE DEF u, m, a, b, t, e
<1>14. /\ (a + 1) \div 2 = (a \div 2) + 1
       /\ (a \div 2) + 1 \in 1 .. (a \div 2) + 1
       /\ 2 * ((a \div 2) + 1) - 1 = a /\ 2 * ((a \div 2) + 1) = a + 1
  BY <1>1, <1>7
<1>15. t.node = Build(u)[k + 1][(a \div 2) + 1]
  <2>1. Build(u)[k + 1][(a \div 2) + 1] = Hash(Build(u)[k][a], Build(u)[k][a + 1])
    BY <1>6, <1>14
  <2> QED
    BY <1>2, <1>3, <1>10, <1>11, <2>1
<1>16. t.index = (a \div 2) + 1
  BY <1>2, <1>3, <1>14
<1>17. /\ t.flag \in {0, 1, 2}
       /\ t.flag = 1 => b \div 2 = a \div 2
       /\ t.flag # 1 => b \div 2 = (a \div 2) + 1
  BY <1>2, <1>3, <1>14
<1>18. t.path = Complete(u)[k + 1]
  <2>1. CASE c.flag = 1
    BY <1>2, <1>3, <1>4, <1>7, <1>10, <1>11, <2>1
  <2>2. CASE c.flag # 1
    <3>1. b % 2 # 1
      BY <1>1, <1>2, <1>7, <2>2
    <3> QED
      BY <1>2, <1>3, <1>4, <2>2, <3>1
  <2> QED
    BY <2>1, <2>2
<1>19. t.read = Len(Complete(s)[k + 1]) /\ t.read <= Len(Frontier(s))
  BY <1>2, <1>3, <1>9, <1>13
<1> QED
  BY <1>1, <1>8, <1>15, <1>16, <1>17, <1>18, <1>19 DEF OnTheWay, u, m, a, b, t

\* So the root and the new path are what they should be, whatever else is in the
\* old buffer.
LEMMA ClimbIs ==
  ASSUME NEW S, NEW s \in Seq(S), NEW x \in S, NEW old, Holds(old, s)
  PROVE  LET u == Append(s, x)
             res == Climb(old, Len(s) + 1, x)
         IN  /\ res.root = GetRoot(u)
             /\ res.path = Frontier(u)
             /\ res.read \in Nat
             /\ res.read <= IF s = <<>> THEN 0 ELSE Len(Frontier(s))
<1> DEFINE u == Append(s, x)
           m == Len(s)
           way == Climbing(old, m + 1, x)
           T == {k \in Nat : OnTheWay(s, x, k, way[k])}
<1>0. /\ m \in Nat /\ u \in Seq(S) /\ u # <<>> /\ Len(u) = m + 1 /\ u[m + 1] = x
      /\ (m + 1) - 1 = m /\ m + 1 \in Nat \ {0}
  OBVIOUS
<1>1. 0 \in T
  <2>1. way[0] = [index |-> m + 1, node |-> x, flag |-> 2, path |-> <<>>, read |-> 0]
    BY ClimbingIs
  <2>2. /\ Ancestor(m)[0] = m /\ Ancestor(m + 1)[0] = m + 1
        /\ Build(u)[0] = u /\ Complete(u)[0] = <<>> /\ Complete(s)[0] = <<>>
    BY AncestorIs, LayersAre, CompletesAre
  <2>3. Len(<<>>) = 0
    OBVIOUS
  <2>4. s # <<>> => Len(Frontier(s)) >= 0
    <3>1. s # <<>> => Len(Frontier(s)) \in 1 .. Len(s)
      BY FrontierIs
    <3> QED
      BY <3>1
  <2> HIDE DEF way, u, m
  <2>5. OnTheWay(s, x, 0, way[0])
    BY <1>0, <2>1, <2>2, <2>3, <2>4 DEF OnTheWay, u, m
  <2> QED
    BY <2>5
<1>2. ASSUME NEW k \in T PROVE k + 1 \in T
  <2>1. way[k + 1] = Turn(old, way[k])
    BY ClimbingIs
  <2>2. OnTheWay(s, x, k + 1, Turn(old, way[k]))
    BY OddTurn, EvenTurn
  <2> QED
    BY <2>1, <2>2
<1> HIDE DEF T
<1>3. T = Nat
  BY <1>1, <1>2, SetOfNaturals DEF T
<1> DEFINE top == Top(m + 1)
<1>4. top \in Nat /\ Ancestor(m)[top] = 0
  <2>1. top \in 0 .. (m + 1) - 1 /\ Ancestor((m + 1) - 1)[top] = 0
    BY <1>0, TopIs
  <2> QED
    BY <1>0, <2>1
<1>5. OnTheWay(s, x, top, way[top])
  BY <1>3, <1>4 DEF T
<1>6. GetRoot(u) = Build(u)[top][1] /\ Frontier(u) = Append(Complete(u)[top], GetRoot(u))
  BY <1>0 DEF GetRoot, Frontier
<1> HIDE DEF top, way, u, m
<1>7. /\ way[top].node = GetRoot(u) /\ way[top].path = Complete(u)[top]
      /\ way[top].read = Len(Complete(s)[top])
      /\ way[top].read <= IF s = <<>> THEN 0 ELSE Len(Frontier(s))
  BY <1>4, <1>5, <1>6 DEF OnTheWay, u, m
<1>8. Climb(old, m + 1, x) = [root |-> way[top].node,
                              path |-> Append(way[top].path, way[top].node),
                              read |-> way[top].read]
  BY DEF Climb, way, top
<1>9. Len(Complete(s)[top]) \in Nat
  <2>1. Len(Complete(s)[top]) \in 0 .. top
    BY <1>4, CompleteIsShort
  <2> QED
    BY <1>4, <2>1
<1> QED
  BY <1>6, <1>7, <1>8, <1>9 DEF u, m

----------------------------------------------------------------------------
(* UpdateByLeaves. *)

\* The parent of nodes 2j-1 and 2j goes to place j.
Merge(v, j, length) ==
  [v EXCEPT ![j] = Hash(v[2 * j - 1],
                        IF 2 * j - 1 # length THEN v[2 * j] ELSE v[2 * j - 1])]

\* What Passing says of each place.
LEMMA PassingIs ==
  ASSUME NEW nodes, NEW length
  PROVE  /\ Passing(nodes, length)[0] = nodes
         /\ \A j \in Nat : Passing(nodes, length)[j + 1] =
                           Merge(Passing(nodes, length)[j], j + 1, length)
<1>1. PICK f : Runs("pass", length, nodes, f, Nat)
  BY RunExists
<1>2. f = [j \in Nat |-> IF j = 0 THEN nodes ELSE Merge(f[j - 1], j, length)]
  BY <1>1 DEF Runs, LoopTurn, Merge
<1>3. Passing(nodes, length) =
        [j \in Nat |-> IF j = 0 THEN nodes
                       ELSE Merge(Passing(nodes, length)[j - 1], j, length)]
  BY <1>2, Zenon DEF Passing, Merge
<1>4. \A j \in Nat : j + 1 \in Nat /\ j + 1 # 0 /\ (j + 1) - 1 = j
  OBVIOUS
<1> QED
  BY <1>3, <1>4

\* What Passes says of each pass.
LEMMA PassesAre ==
  ASSUME NEW s
  PROVE  /\ Passes(s)[0] = [nodes |-> s, length |-> Len(s)]
         /\ \A k \in Nat : Passes(s)[k + 1] = Pass(Passes(s)[k])
<1> DEFINE start == [nodes |-> s, length |-> Len(s)]
<1>1. PICK f : Runs("passes", 0, start, f, Nat)
  BY RunExists
<1>2. f = [k \in Nat |-> IF k = 0 THEN start ELSE Pass(f[k - 1])]
  BY <1>1 DEF Runs, LoopTurn
<1>3. Passes(s) = [k \in Nat |-> IF k = 0 THEN start ELSE Pass(Passes(s)[k - 1])]
  BY <1>2, Zenon DEF Passes
<1> HIDE DEF start
<1> QED
  BY <1>3 DEF start

\* After the pass over layer k - 1 the array begins with layer k of the tree.
BeginsWith(s, k, p) ==
  /\ p.length = Len(Build(s)[k]) /\ DOMAIN p.nodes = 1 .. Len(s)
  /\ \A i \in 1 .. Len(Build(s)[k]) : p.nodes[i] = Build(s)[k][i]

\* A pass overwrites only what it has read.
LEMMA PassIs ==
  ASSUME NEW S, NEW s \in Seq(S), s # <<>>, NEW k \in Nat, NEW p, BeginsWith(s, k, p)
  PROVE  BeginsWith(s, k + 1, Pass(p))
<1> DEFINE n == Len(s)
           w == Len(Build(s)[k])
           h == (w + 1) \div 2
           at == Passing(p.nodes, p.length)
           Good(j) == /\ DOMAIN at[j] = 1 .. n
                      /\ \A i \in 1 .. j : at[j][i] = Build(s)[k + 1][i]
                      /\ \A i \in j + 1 .. w : at[j][i] = Build(s)[k][i]
           T == {j \in Nat : j <= h => Good(j)}
<1>1. /\ w \in Nat \ {0} /\ w <= n /\ Len(Build(s)[k + 1]) = h /\ h \in Nat
      /\ n \in Nat
  <2>1. n \in Nat \ {0} /\ n - 1 \in Nat /\ k + 1 \in Nat
    OBVIOUS
  <2>2. w = Ancestor(n - 1)[k] + 1 /\ Len(Build(s)[k + 1]) = Ancestor(n - 1)[k + 1] + 1
    BY <2>1, LayerIsSequence
  <2>3. /\ Ancestor(n - 1)[k] \in Nat
        /\ Ancestor(n - 1)[k] = 0 \/ Ancestor(n - 1)[k] + k <= n - 1
        /\ Ancestor(n - 1)[k + 1] = Ancestor(n - 1)[k] \div 2
    BY <2>1, AncestorFalls, AncestorIs
  <2>4. \A a \in Nat : ((a + 1) + 1) \div 2 = (a \div 2) + 1 /\ ((a + 1) + 1) \div 2 \in Nat
    OBVIOUS
  <2> DEFINE a == Ancestor(n - 1)[k]
  <2> HIDE DEF n, w, a
  <2>5. w = a + 1 /\ (w + 1) \div 2 = (a \div 2) + 1 /\ (w + 1) \div 2 \in Nat
    BY <2>2, <2>3, <2>4 DEF a
  <2>6. a + 1 <= n
    BY <2>1, <2>3 DEF a
  <2> QED
    BY <2>1, <2>2, <2>3, <2>5, <2>6 DEF a
<1>2. /\ p.length = w /\ DOMAIN p.nodes = 1 .. n
      /\ \A i \in 1 .. w : p.nodes[i] = Build(s)[k][i]
  BY DEF BeginsWith
<1>3. 0 \in T
  <2>1. at[0] = p.nodes
    BY PassingIs
  <2> QED
    BY <1>1, <1>2, <2>1
<1> HIDE DEF w, h, Good
<1>4. ASSUME NEW j \in T, j + 1 <= h PROVE Good(j + 1)
  <2>0. j \in Nat /\ (j <= h => Good(j))
    OBVIOUS
  <2>1. j \in Nat /\ j <= h /\ Good(j)
    BY <1>1, <1>4, <2>0
  <2> DEFINE g == at[j]
             e == Hash(g[2 * (j + 1) - 1],
                       IF 2 * (j + 1) - 1 # p.length THEN g[2 * (j + 1)]
                       ELSE g[2 * (j + 1) - 1])
  <2>2. at[j + 1] = [g EXCEPT ![j + 1] = e]
    <3>1. at[j + 1] = Merge(g, j + 1, p.length)
      BY <2>1, PassingIs
    <3> QED
      BY <3>1, Zenon DEF Merge
  <2>3. j + 1 \in 1 .. Len(Build(s)[k + 1]) /\ j + 1 \in 1 .. n
    <3>1. h <= w
      BY <1>1 DEF h
    <3> HIDE DEF n
    <3> QED
      BY <1>1, <1>4, <2>1, <3>1
  <2>4. Build(s)[k + 1][j + 1] =
          Hash(Build(s)[k][2 * (j + 1) - 1],
               IF 2 * (j + 1) <= w THEN Build(s)[k][2 * (j + 1)]
               ELSE Build(s)[k][2 * (j + 1) - 1])
    BY <2>3, ParentIs DEF w
  <2> HIDE DEF T, n, at
  <2>5. /\ 2 * (j + 1) - 1 \in j + 1 .. w
        /\ 2 * (j + 1) - 1 # w => 2 * (j + 1) \in j + 1 .. w
        /\ (2 * (j + 1) - 1 # w) <=> (2 * (j + 1) <= w)
    BY <1>1, <1>4, <2>1 DEF h
  <2>6. e = Build(s)[k + 1][j + 1]
    BY <1>2, <2>1, <2>4, <2>5 DEF Good
  <2> HIDE DEF e
  <2>7. /\ DOMAIN g = 1 .. n
        /\ \A i \in 1 .. j : g[i] = Build(s)[k + 1][i]
        /\ \A i \in j + 1 .. w : g[i] = Build(s)[k][i]
    BY <2>1 DEF Good
  <2> HIDE DEF g
  <2>8. /\ DOMAIN at[j + 1] = 1 .. n /\ at[j + 1][j + 1] = e
        /\ \A i \in 1 .. n : i # j + 1 => at[j + 1][i] = g[i]
    BY <2>2, <2>3, <2>7
  <2>9. ASSUME NEW i \in 1 .. j + 1 PROVE at[j + 1][i] = Build(s)[k + 1][i]
    <3>1. CASE i = j + 1
      BY <2>6, <2>8, <3>1
    <3>2. CASE i # j + 1
      <4>1. i \in 1 .. j /\ i \in 1 .. n
        BY <1>1, <2>1, <2>3, <3>2
      <4> QED
        BY <2>7, <2>8, <3>2, <4>1
    <3> QED
      BY <3>1, <3>2
  <2>10. ASSUME NEW i \in (j + 1) + 1 .. w PROVE at[j + 1][i] = Build(s)[k][i]
    <3>1. i \in j + 1 .. w /\ i # j + 1 /\ i \in 1 .. n
      BY <1>1, <2>1
    <3> QED
      BY <2>7, <2>8, <3>1
  <2> QED
    BY <2>8, <2>9, <2>10 DEF Good
<1>5. ASSUME NEW j \in T PROVE j + 1 \in T
  BY <1>4
<1> HIDE DEF T
<1>6. T = Nat
  BY <1>3, <1>5, SetOfNaturals DEF T
<1>7. Good(h)
  BY <1>1, <1>6 DEF T
<1> HIDE DEF n, at
<1>8. Pass(p) = [nodes |-> at[h], length |-> h]
  BY <1>2 DEF Pass, at, h
<1> QED
  BY <1>1, <1>7, <1>8 DEF BeginsWith, n, Good

\* UpdateByLeaves ends with the root of the gateway's tree.
LEMMA ByLeavesIs ==
  ASSUME NEW S, NEW s \in Seq(S), s # <<>>
  PROVE  Passes(s)[Top(Len(s))].nodes[1] = GetRoot(s)
<1> DEFINE T == {k \in Nat : BeginsWith(s, k, Passes(s)[k])}
<1>1. 0 \in T
  <2>1. Passes(s)[0] = [nodes |-> s, length |-> Len(s)] /\ Build(s)[0] = s
    BY PassesAre, LayersAre
  <2>2. DOMAIN s = 1 .. Len(s)
    OBVIOUS
  <2>3. BeginsWith(s, 0, Passes(s)[0])
    BY <2>1, <2>2 DEF BeginsWith
  <2> QED
    BY <2>3
<1>2. ASSUME NEW k \in T PROVE k + 1 \in T
  <2>1. Passes(s)[k + 1] = Pass(Passes(s)[k])
    BY PassesAre
  <2>2. BeginsWith(s, k + 1, Pass(Passes(s)[k]))
    BY PassIs
  <2> QED
    BY <2>1, <2>2
<1> HIDE DEF T
<1>3. T = Nat
  BY <1>1, <1>2, SetOfNaturals DEF T
<1> DEFINE top == Top(Len(s))
<1>4. top \in Nat
  <2>1. Len(s) \in Nat \ {0}
    OBVIOUS
  <2>2. top \in 0 .. Len(s) - 1
    BY <2>1, TopIs
  <2> QED
    BY <2>2
<1>5. 1 \in 1 .. Len(Build(s)[top])
  <2> HIDE DEF top
  <2>1. Len(Build(s)[top]) \in Nat \ {0}
    BY <1>4, LayerIsSequence
  <2> QED
    BY <2>1
<1>6. GetRoot(s) = Build(s)[top][1]
  BY DEF GetRoot
<1> HIDE DEF top
<1>7. BeginsWith(s, top, Passes(s)[top])
  BY <1>3, <1>4 DEF T
<1> QED
  BY <1>5, <1>6, <1>7 DEF BeginsWith, top

----------------------------------------------------------------------------
(* UpdateByTree. *)

StartOf(trees, n, x) == [templength |-> n, trees |-> [trees EXCEPT ![1][n] = x]]

\* What UpTrees says of each turn.
LEMMA UpTreesAre ==
  ASSUME NEW trees, NEW n, NEW x
  PROVE  /\ UpTrees(trees, n, x)[0] = StartOf(trees, n, x)
         /\ \A k \in Nat :
              UpTrees(trees, n, x)[k + 1] = UpTree(k + 1, UpTrees(trees, n, x)[k])
<1> DEFINE start == StartOf(trees, n, x)
<1>1. PICK f : Runs("trees", 0, start, f, Nat)
  BY RunExists
<1>2. f = [k \in Nat |-> IF k = 0 THEN start ELSE UpTree(k, f[k - 1])]
  BY <1>1 DEF Runs, LoopTurn
<1>3. UpTrees(trees, n, x) =
        [k \in Nat |-> IF k = 0 THEN start ELSE UpTree(k, UpTrees(trees, n, x)[k - 1])]
  BY <1>2, Zenon DEF UpTrees, StartOf
<1>4. \A k \in Nat : k + 1 \in Nat /\ k + 1 # 0 /\ (k + 1) - 1 = k
  OBVIOUS
<1> QED
  BY <1>3, <1>4

\* A position that is not 0 is not above the root.
LEMMA BelowTop ==
  ASSUME NEW n \in Nat \ {0}, NEW k \in Nat, Ancestor(n)[k] # 0
  PROVE  k <= Top(n)
<1> DEFINE t == Top(n)
<1>1. t \in Nat /\ Ancestor(n - 1)[t] = 0
  BY TopIs
<1>2. SUFFICES ASSUME t < k PROVE FALSE
  BY <1>1
<1>3. Ancestor(n)[t] \in {0, 1}
  BY <1>1, NeighbourAncestor
<1>4. Ancestor(n)[t + 1] = Ancestor(n)[t] \div 2
  BY <1>1, AncestorIs
<1> HIDE DEF t
<1>5. Ancestor(n)[t + 1] = 0 /\ t + 1 \in Nat /\ t + 1 <= k
  BY <1>1, <1>2, <1>3, <1>4
<1>6. Ancestor(n)[k] = 0
  BY <1>5, AncestorEnds
<1> QED
  BY <1>6

\* A node of a mapping is set.
With(trees, l, i, e) == [trees EXCEPT ![l][i] = e]

\* Nothing else changes by it.
LEMMA SetNode ==
  ASSUME NEW max, NEW trees, HaveDomain(trees, max), NEW l \in 1 .. max,
         NEW i \in 1 .. max, NEW e
  PROVE  /\ HaveDomain(With(trees, l, i, e), max) /\ With(trees, l, i, e)[l][i] = e
         /\ \A j \in 1 .. max : j # i => With(trees, l, i, e)[l][j] = trees[l][j]
         /\ \A m \in 1 .. max : m # l => With(trees, l, i, e)[m] = trees[m]
BY DEF HaveDomain, With

\* After k turns: layers 0 to k are those of the new leaves u, the ones above as before.
LayersUpTo(trees, u, max, k, at) ==
  /\ HaveDomain(at.trees, max) /\ HaveLayers(at.trees, u, k)
  /\ at.templength = Len(Build(u)[k])
  /\ \A l \in k + 2 .. max : at.trees[l] = trees[l]

\* A new leaf goes to its place on the first layer.
LEMMA FirstLayer ==
  ASSUME NEW S, NEW s \in Seq(S), NEW x \in S, NEW max \in Nat, Len(s) < max,
         NEW trees, HaveDomain(trees, max),
         s # <<>> => HaveLayers(trees, s, Top(Len(s)))
  PROVE  LayersUpTo(trees, Append(s, x), max, 0, UpTrees(trees, Len(s) + 1, x)[0])
<1> DEFINE u == Append(s, x)
           n == Len(s) + 1
           new == [trees EXCEPT ![1][n] = x]
<1>1. /\ n \in 1 .. max /\ 1 \in 1 .. max /\ Len(u) = n /\ u[n] = x
      /\ \A i \in 1 .. n : i # n => s # <<>> /\ i \in 1 .. Len(s) /\ u[i] = s[i]
  OBVIOUS
<1>2. Build(u)[0] = u /\ Build(s)[0] = s
  BY LayersAre
<1>3. UpTrees(trees, n, x)[0] = [templength |-> n, trees |-> new]
  BY UpTreesAre DEF StartOf
<1>4. /\ HaveDomain(new, max) /\ new[1][n] = x
      /\ \A j \in 1 .. max : j # n => new[1][j] = trees[1][j]
      /\ \A m \in 1 .. max : m # 1 => new[m] = trees[m]
  <2> HIDE DEF n, new
  <2>1. new = With(trees, 1, n, x)
    BY Zenon DEF new, With
  <2> QED
    BY <1>1, <2>1, SetNode
<1>5. s # <<>> => \A i \in 1 .. Len(s) : trees[1][i] = s[i]
  <2> SUFFICES ASSUME s # <<>>, NEW i \in 1 .. Len(s) PROVE trees[1][i] = s[i]
    OBVIOUS
  <2>1. Len(s) \in Nat \ {0}
    OBVIOUS
  <2>2. Top(Len(s)) \in 0 .. Len(s) - 1
    BY <2>1, TopIs
  <2>3. 0 \in 0 .. Top(Len(s)) /\ 0 + 1 = 1
    BY <2>1, <2>2
  <2>4. trees[0 + 1][i] = Build(s)[0][i]
    BY <1>2, <2>3 DEF HaveLayers
  <2> QED
    BY <1>2, <2>4
<1> HIDE DEF u, n, new
<1>6. HaveLayers(new, u, 0)
  <2> SUFFICES ASSUME NEW i \in 1 .. n PROVE new[1][i] = u[i]
    BY <1>1, <1>2 DEF HaveLayers
  <2>1. CASE i = n
    BY <1>1, <1>4, <2>1
  <2>2. CASE i # n
    <3>1. i \in 1 .. max
      BY <1>1
    <3> QED
      BY <1>1, <1>4, <1>5, <2>2, <3>1
  <2> QED
    BY <2>1, <2>2
<1> QED
  BY <1>1, <1>2, <1>3, <1>4, <1>6 DEF LayersUpTo, u, n

\* The last node of the next layer is recomputed, the ones before it are complete.
LEMMA NextLayer ==
  ASSUME NEW S, NEW s \in Seq(S), NEW x \in S, NEW max \in Nat, Len(s) < max,
         NEW trees, HaveDomain(trees, max),
         s # <<>> => HaveLayers(trees, s, Top(Len(s))),
         NEW k \in Nat, k + 1 < max, NEW at, LayersUpTo(trees, Append(s, x), max, k, at)
  PROVE  LayersUpTo(trees, Append(s, x), max, k + 1, UpTree(k + 1, at))
<1> DEFINE u == Append(s, x)
           m == Len(s)
           a == Ancestor(m)[k]
           j == (a \div 2) + 1
           e == IF (a + 1) % 2 = 0
                THEN Hash(at.trees[k + 1][(a + 1) - 1], at.trees[k + 1][a + 1])
                ELSE Hash(at.trees[k + 1][a + 1], at.trees[k + 1][a + 1])
           new == [at.trees EXCEPT ![(k + 1) + 1][j] = e]
<1>1. /\ m \in Nat /\ m < max /\ u \in Seq(S) /\ u # <<>> /\ Len(u) = m + 1
      /\ a \in Nat /\ Ancestor(m)[k + 1] = a \div 2
      /\ Len(Build(u)[k]) = a + 1 /\ Len(Build(u)[k + 1]) = j
  <2>1. Append(s, x) \in Seq(S) /\ LayersOfNew(s, x, k)
    BY NewLayers
  <2> QED
    BY <2>1, Zenon DEF LayersOfNew
<1>2. a <= m
  <2>1. Ancestor(m)[k] = 0 \/ Ancestor(m)[k] + k <= m
    BY <1>1, AncestorFalls
  <2> HIDE DEF m
  <2> QED
    BY <1>1, <2>1
<1>3. /\ HaveDomain(at.trees, max) /\ HaveLayers(at.trees, u, k)
      /\ at.templength = a + 1
      /\ \A l \in k + 2 .. max : at.trees[l] = trees[l]
  BY <1>1 DEF LayersUpTo
<1>4. \A i \in 1 .. a + 1 : at.trees[k + 1][i] = Build(u)[k][i]
  <2>1. k \in 0 .. k
    OBVIOUS
  <2> HIDE DEF u, a
  <2> QED
    BY <1>1, <1>3, <2>1 DEF HaveLayers
<1>5. Build(u)[k + 1][j] = Hash(Build(u)[k][2 * j - 1],
                                IF 2 * j <= a + 1 THEN Build(u)[k][2 * j]
                                ELSE Build(u)[k][2 * j - 1])
  <2>1. j \in 1 .. Len(Build(u)[k + 1])
    <3> HIDE DEF a, u
    <3> QED
      BY <1>1
  <2> HIDE DEF u, j, a
  <2>2. Build(u)[k + 1][j] = Hash(Build(u)[k][2 * j - 1],
                                  IF 2 * j <= Len(Build(u)[k]) THEN Build(u)[k][2 * j]
                                  ELSE Build(u)[k][2 * j - 1])
    BY <1>1, <2>1, ParentIs
  <2> QED
    BY <1>1, <2>2
<1> HIDE DEF u, m, a
<1>6. e = Build(u)[k + 1][j]
  <2>1. CASE a % 2 = 1
    <3>1. /\ (a + 1) % 2 = 0 /\ 2 * j = a + 1 /\ 2 * j - 1 = a /\ (a + 1) - 1 = a
          /\ a \in 1 .. a + 1 /\ a + 1 \in 1 .. a + 1
      BY <1>1, <2>1
    <3> HIDE DEF j
    <3> QED
      BY <1>4, <1>5, <3>1
  <2>2. CASE a % 2 # 1
    <3>1. (a + 1) % 2 # 0 /\ 2 * j - 1 = a + 1 /\ ~ (2 * j <= a + 1) /\ a + 1 \in 1 .. a + 1
      BY <1>1, <2>2
    <3> HIDE DEF j
    <3> QED
      BY <1>4, <1>5, <3>1
  <2> QED
    BY <2>1, <2>2
<1>7. UpTree(k + 1, at) = [templength |-> j, trees |-> new]
  <2>1. ((a + 1) - 1) \div 2 + 1 = j
    BY <1>1
  <2> HIDE DEF j
  <2> QED
    BY <1>3, <2>1 DEF UpTree
<1>8. (k + 1) + 1 \in 1 .. max /\ j \in 1 .. max /\ k + 1 \in Nat /\ (k + 1) + 1 = k + 2
  BY <1>1, <1>2
<1> HIDE DEF e
<1>9. /\ HaveDomain(new, max) /\ new[k + 2][j] = e
      /\ \A i \in 1 .. max : i # j => new[k + 2][i] = at.trees[k + 2][i]
      /\ \A l \in 1 .. max : l # k + 2 => new[l] = at.trees[l]
  <2> HIDE DEF j, new
  <2>1. new = With(at.trees, k + 2, j, e)
    BY <1>8, Zenon DEF new, With
  <2>2. k + 2 \in 1 .. max
    BY <1>8
  <2> QED
    BY <1>3, <1>8, <2>1, <2>2, SetNode
<1> HIDE DEF new
<1>10. ASSUME NEW i \in 1 .. (a \div 2)
       PROVE  trees[k + 2][i] = Build(u)[k + 1][i]
  <2>1. i \in 1 .. Ancestor(Len(s))[k + 1] /\ k + 1 \in Nat
    BY <1>1 DEF m
  <2>2. /\ i <= Len(Build(s)[k + 1])
        /\ Build(u)[k + 1][i] = Build(s)[k + 1][i]
    BY <2>1, CompleteStays DEF u
  <2>3. m # 0 /\ Ancestor(m)[k + 1] # 0
    <3>1. Ancestor(m)[k + 1] # 0
      BY <1>1
    <3>2. m = 0 => Ancestor(m)[0] = 0
      BY AncestorIs
    <3>3. m = 0 => Ancestor(m)[k + 1] = 0
      BY <1>1, <2>1, <3>2, AncestorEnds
    <3> QED
      BY <3>1, <3>3
  <2>4. s # <<>>
    BY <2>3 DEF m
  <2>5. k + 1 <= Top(m)
    BY <1>1, <2>1, <2>3, BelowTop
  <2>6. Top(m) \in Nat
    <3>1. Top(m) \in 0 .. m - 1
      BY <1>1, <2>3, TopIs
    <3> QED
      BY <3>1
  <2>7. k + 1 \in 0 .. Top(m)
    BY <2>5, <2>6
  <2>8. Len(Build(s)[k + 1]) \in Nat
    BY <2>1, <2>4, LayerIsSequence
  <2>9. i \in 1 .. Len(Build(s)[k + 1])
    BY <2>2, <2>8
  <2>10. trees[(k + 1) + 1][i] = Build(s)[k + 1][i]
    BY <2>4, <2>7, <2>9 DEF HaveLayers, m
  <2> QED
    BY <1>8, <2>2, <2>10
<1>11. HaveLayers(new, u, k + 1)
  <2> SUFFICES ASSUME NEW l \in 0 .. k + 1, NEW i \in 1 .. Len(Build(u)[l])
               PROVE  new[l + 1][i] = Build(u)[l][i]
    BY DEF HaveLayers
  <2>1. CASE l = k + 1 /\ i = j
    BY <1>6, <1>8, <1>9, <2>1
  <2>2. CASE l = k + 1 /\ i # j
    <3>1. i \in 1 .. (a \div 2)
      BY <1>1, <2>2
    <3>2. k + 2 \in k + 2 .. max /\ i \in 1 .. max
      BY <1>1, <1>8, <3>1
    <3>3. at.trees[k + 2] = trees[k + 2]
      BY <1>3, <3>2
    <3> QED
      BY <1>8, <1>9, <1>10, <2>2, <3>1, <3>2, <3>3
  <2>3. CASE l # k + 1
    <3>1. l \in 0 .. k /\ l + 1 \in 1 .. max /\ l + 1 # k + 2
      BY <1>8, <2>3
    <3> QED
      BY <1>3, <1>9, <3>1 DEF HaveLayers
  <2> QED
    BY <2>1, <2>2, <2>3
<1>12. ASSUME NEW l \in (k + 1) + 2 .. max PROVE new[l] = trees[l]
  <2>1. l \in 1 .. max /\ l # k + 2 /\ l \in k + 2 .. max
    OBVIOUS
  <2> QED
    BY <1>3, <1>9, <2>1
<1> HIDE DEF j
<1> QED
  BY <1>1, <1>7, <1>9, <1>11, <1>12 DEF LayersUpTo, u

\* UpdateByTree ends with all layers of the new tree.
LEMMA ByTreeIs ==
  ASSUME NEW S, NEW s \in Seq(S), NEW x \in S, NEW max \in Nat, Len(s) < max,
         NEW trees, HaveDomain(trees, max),
         s # <<>> => HaveLayers(trees, s, Top(Len(s)))
  PROVE  LET n   == Len(s) + 1
             new == UpTrees(trees, n, x)[Top(n)].trees
         IN  HaveDomain(new, max) /\ HaveLayers(new, Append(s, x), Top(n))
<1> DEFINE n == Len(s) + 1
           at == UpTrees(trees, n, x)
           T == {k \in Nat : k < max => LayersUpTo(trees, Append(s, x), max, k, at[k])}
<1>1. 0 \in T
  <2>1. LayersUpTo(trees, Append(s, x), max, 0, at[0])
    BY FirstLayer
  <2> QED
    BY <2>1
<1>2. ASSUME NEW k \in T PROVE k + 1 \in T
  <2> SUFFICES ASSUME k + 1 < max
               PROVE  LayersUpTo(trees, Append(s, x), max, k + 1, at[k + 1])
    OBVIOUS
  <2>0. k \in Nat
    OBVIOUS
  <2>1. at[k + 1] = UpTree(k + 1, at[k])
    BY <2>0, UpTreesAre
  <2>2. LayersUpTo(trees, Append(s, x), max, k, at[k])
    BY <2>0
  <2> HIDE DEF T, at
  <2>3. LayersUpTo(trees, Append(s, x), max, k + 1, UpTree(k + 1, at[k]))
    BY <2>0, <2>2, NextLayer
  <2> QED
    BY <2>1, <2>3
<1> HIDE DEF T
<1>3. T = Nat
  BY <1>1, <1>2, SetOfNaturals DEF T
<1>4. Top(n) \in Nat /\ Top(n) < max
  <2>1. n \in Nat \ {0} /\ n <= max
    OBVIOUS
  <2> HIDE DEF n
  <2>2. Top(n) \in 0 .. n - 1
    BY <2>1, TopIs
  <2> QED
    BY <2>1, <2>2
<1>5. LayersUpTo(trees, Append(s, x), max, Top(n), at[Top(n)])
  BY <1>3, <1>4 DEF T
<1> QED
  BY <1>5 DEF LayersUpTo

----------------------------------------------------------------------------
(* One message more, on each deployment. *)

\* BCRUpdateOpt: the buffer that was written becomes the old path of the next update.
LEMMA BuildOptIs ==
  ASSUME NEW S, NEW s \in Seq(S), NEW x \in S, NEW max \in Nat, Len(s) < max,
         NEW o, OptFits(o, s, max)
  PROVE  OptFits(BuildOpt(o, x), Append(s, x), max)
<1> DEFINE u == Append(s, x)
           n == Len(s) + 1
           old == o.trees[1 - o.treeFlag]
           res == Climb(old, n, x)
           last == o.trees[o.treeFlag]
           path == [i \in DOMAIN last |-> IF i <= Len(res.path) THEN res.path[i] ELSE last[i]]
           new == BuildOpt(o, x)
<1>0. /\ DOMAIN o = {"root", "xmcnts", "treeFlag", "trees", "hashNum"}
      /\ o.xmcnts = Len(s) /\ o.treeFlag \in {0, 1}
      /\ DOMAIN o.trees = {0, 1} /\ DOMAIN o.hashNum = 1 .. max
      /\ \A f \in {0, 1} : DOMAIN o.trees[f] = 1 .. max
      /\ s # <<>> => \A i \in 1 .. Len(Frontier(s)) : old[i] = Frontier(s)[i]
  BY DEF OptFits
<1>1. u \in Seq(S) /\ u # <<>> /\ Len(u) = n /\ n \in 1 .. max /\ n \in Nat
  OBVIOUS
<1>2. res.root = GetRoot(u) /\ res.path = Frontier(u)
  <2>1. Holds(old, s)
    BY <1>0 DEF Holds
  <2> HIDE DEF old
  <2> QED
    BY <2>1, ClimbIs
<1>3. Len(Frontier(u)) \in 1 .. Len(u)
  BY <1>1, FrontierIs
<1>4. new = [o EXCEPT !.xmcnts = n, !.root = res.root, !.trees[o.treeFlag] = path,
                      !.treeFlag = 1 - @, !.hashNum[n] = Len(res.path)]
  BY <1>0 DEF BuildOpt
<1>5. DOMAIN path = 1 .. max /\ \A i \in 1 .. Len(Frontier(u)) : path[i] = Frontier(u)[i]
  <2>1. DOMAIN last = 1 .. max
    BY <1>0
  <2>2. \A i \in 1 .. Len(Frontier(u)) : i \in 1 .. max /\ i <= Len(Frontier(u))
    BY <1>1, <1>3
  <2> HIDE DEF last, res, u, n
  <2> QED
    BY <1>2, <2>1, <2>2
<1> HIDE DEF u, n, old, res, path, new
<1>6. /\ DOMAIN new = {"root", "xmcnts", "treeFlag", "trees", "hashNum"}
      /\ new.xmcnts = n /\ new.root = GetRoot(u) /\ new.treeFlag = 1 - o.treeFlag
      /\ new.trees = [o.trees EXCEPT ![o.treeFlag] = path]
      /\ new.hashNum = [o.hashNum EXCEPT ![n] = Len(Frontier(u))]
  BY <1>0, <1>2, <1>4
<1>7. /\ new.treeFlag \in {0, 1} /\ 1 - new.treeFlag = o.treeFlag
      /\ DOMAIN new.trees = {0, 1} /\ DOMAIN new.hashNum = 1 .. max
      /\ \A f \in {0, 1} : DOMAIN new.trees[f] = 1 .. max
      /\ new.trees[o.treeFlag] = path
      /\ new.hashNum[n] = Len(Frontier(u))
  BY <1>0, <1>1, <1>5, <1>6
<1> QED
  BY <1>1, <1>5, <1>6, <1>7 DEF OptFits, u, new

\* It reads no more of the old path than there is, and the new one has room.
LEMMA BuildUpdateIs ==
  ASSUME NEW S, NEW s \in Seq(S), NEW x \in S, NEW b, UpdateFits(b, s)
  PROVE  UpdateFits(BuildUpdate(b, x), Append(s, x))
<1> DEFINE u == Append(s, x)
           n == Len(s) + 1
           old == [i \in 1 .. n |-> IF i <= Len(b.tree) THEN b.tree[i] ELSE Zero]
           res == Climb(old, n, x)
           new == BuildUpdate(b, x)
<1>0. /\ DOMAIN b = {"root", "xmcnts", "tree", "reverted"}
      /\ b.xmcnts = Len(s) /\ ~b.reverted
      /\ b.tree = IF s = <<>> THEN <<>> ELSE Frontier(s)
  BY DEF UpdateFits
<1>1. /\ u \in Seq(S) /\ u # <<>> /\ Len(u) = n
      /\ n \in Nat /\ Len(s) \in Nat /\ Len(s) <= n
  <2>1. Len(s) \in Nat
    OBVIOUS
  <2>2. n \in Nat /\ Len(s) <= n
    BY <2>1
  <2>3. u \in Seq(S) /\ Len(u) = n
    OBVIOUS
  <2>4. u # <<>>
    <3>1. Len(<<>>) # n
      BY <2>1
    <3> HIDE DEF u, n
    <3> QED
      BY <2>3, <3>1
  <2> QED
    BY <2>1, <2>2, <2>3, <2>4
<1>2. Holds(old, s)
  <2> SUFFICES ASSUME s # <<>>, NEW i \in 1 .. Len(Frontier(s))
               PROVE  old[i] = Frontier(s)[i]
    BY DEF Holds
  <2>1. Len(Frontier(s)) \in 1 .. Len(s)
    BY FrontierIs
  <2>2. i \in 1 .. n /\ i <= Len(b.tree) /\ b.tree = Frontier(s)
    BY <1>0, <1>1, <2>1
  <2> HIDE DEF n
  <2> QED
    BY <2>2
<1>3. /\ res.root = GetRoot(u) /\ res.path = Frontier(u)
      /\ res.read \in Nat /\ res.read <= IF s = <<>> THEN 0 ELSE Len(Frontier(s))
  <2> HIDE DEF old
  <2> QED
    BY <1>2, ClimbIs
<1>4. Len(Frontier(u)) \in 1 .. Len(u)
  BY <1>1, FrontierIs
<1>5. BuildUpdate(b, x) =
        IF res.read > Len(b.tree) \/ Len(res.path) > n
        THEN [b EXCEPT !.reverted = TRUE]
        ELSE [b EXCEPT !.xmcnts = n, !.root = res.root, !.tree = res.path]
  BY <1>0 DEF BuildUpdate
<1>6. ~ (res.read > Len(b.tree)) /\ ~ (Len(res.path) > n)
  <2>1. Len(<<>>) = 0
    OBVIOUS
  <2>2. Len(b.tree) = IF s = <<>> THEN 0 ELSE Len(Frontier(s))
    BY <1>0, <2>1
  <2>3. s # <<>> => Len(Frontier(s)) \in 1 .. Len(s)
    BY FrontierIs
  <2> HIDE DEF res, n, u
  <2> QED
    BY <1>1, <1>3, <1>4, <2>2, <2>3
<1> HIDE DEF u, n, res, new
<1>7. /\ DOMAIN new = {"root", "xmcnts", "tree", "reverted"}
      /\ new.xmcnts = n /\ new.root = GetRoot(u) /\ new.tree = Frontier(u)
      /\ new.reverted = b.reverted
  BY <1>0, <1>3, <1>5, <1>6 DEF new
<1> QED
  BY <1>0, <1>1, <1>7 DEF UpdateFits, u, new

\* UpdateByTree: its layers remain those of the tree.
LEMMA BuildByTreeIs ==
  ASSUME NEW S, NEW s \in Seq(S), NEW x \in S, NEW max \in Nat, Len(s) < max,
         NEW b, ByTreeFits(b, s, max)
  PROVE  ByTreeFits(BuildByTree(b, x), Append(s, x), max)
<1> DEFINE u == Append(s, x)
           n == Len(s) + 1
           new == UpTrees(b.trees, n, x)[Top(n)].trees
<1>0. /\ b.leaveslength = Len(s) /\ HaveDomain(b.trees, max)
      /\ s # <<>> => HaveLayers(b.trees, s, Top(Len(s)))
  BY DEF ByTreeFits
<1>1. Len(u) = n
  OBVIOUS
<1>2. u # <<>>
  <2>1. Len(<<>>) # n
    OBVIOUS
  <2> HIDE DEF u, n
  <2> QED
    BY <1>1, <2>1
<1>3. HaveDomain(new, max) /\ HaveLayers(new, u, Top(n))
  BY <1>0, ByTreeIs
<1> HIDE DEF u, n, new
<1>4. BuildByTree(b, x) = [leaveslength |-> n, layernumber |-> Top(n) + 1, trees |-> new]
  BY <1>0 DEF BuildByTree, n, new
<1> QED
  BY <1>1, <1>2, <1>3, <1>4 DEF ByTreeFits, u

\* The root it answers is on the layer it has recorded as the last one.
LEMMA ByTreeRootIs ==
  ASSUME NEW S, NEW s \in Seq(S), NEW max, NEW b, ByTreeFits(b, s, max)
  PROVE  ByTreeRoot(b) = GetRoot(s)
<1>1. CASE s = <<>>
  BY <1>1 DEF ByTreeFits, ByTreeRoot, GetRoot
<1>2. CASE s # <<>>
  <2> DEFINE top == Top(Len(s))
  <2>1. Len(s) \in Nat \ {0}
    BY <1>2
  <2>2. top \in 0 .. Len(s) - 1
    BY <2>1, TopIs
  <2>3. top \in Nat /\ top \in 0 .. top
    BY <2>1, <2>2
  <2> HIDE DEF top
  <2>4. Len(Build(s)[top]) \in Nat \ {0}
    BY <1>2, <2>3, LayerIsSequence
  <2>5. 1 \in 1 .. Len(Build(s)[top])
    BY <2>4
  <2>6. b.layernumber = top + 1 /\ HaveLayers(b.trees, s, top)
    BY <1>2 DEF ByTreeFits, top
  <2>7. b.trees[top + 1][1] = Build(s)[top][1]
    BY <2>3, <2>5, <2>6 DEF HaveLayers
  <2>8. GetRoot(s) = Build(s)[top][1]
    BY <1>2 DEF GetRoot, top
  <2>9. b.layernumber # 0
    BY <2>3, <2>6
  <2> QED
    BY <2>6, <2>7, <2>8, <2>9 DEF ByTreeRoot
<1> QED
  BY <1>1, <1>2

\* UpdateByLeaves: its leaves and its root.
LEMMA BuildByLeavesIs ==
  ASSUME NEW S, NEW s \in Seq(S), NEW x \in S, NEW b, b.tree = s
  PROVE  /\ BuildByLeaves(b, x).tree = Append(s, x)
         /\ BuildByLeaves(b, x).root = GetRoot(Append(s, x))
<1> DEFINE u == Append(s, x)
<1>1. u \in Seq(S) /\ u # <<>>
  <2>1. u \in Seq(S) /\ Len(u) = Len(s) + 1 /\ Len(s) \in Nat
    OBVIOUS
  <2>2. Len(<<>>) = 0
    OBVIOUS
  <2> HIDE DEF u
  <2> QED
    BY <2>1, <2>2
<1> HIDE DEF u
<1>2. Passes(u)[Top(Len(u))].nodes[1] = GetRoot(u)
  BY <1>1, ByLeavesIs
<1>3. BuildByLeaves(b, x) = [root |-> Passes(u)[Top(Len(u))].nodes[1], tree |-> u]
  BY DEF BuildByLeaves, u
<1> QED
  BY <1>2, <1>3 DEF u

----------------------------------------------------------------------------
(* The contracts. *)

Leaves == {Leaf(message) : message \in Data}

\* Before the first message every contract is as it should be.
LEMMA InitFits == Init => IInv
<1> SUFFICES ASSUME Init PROVE IInv
  OBVIOUS
<1> SUFFICES ASSUME NEW t \in Trees PROVE Fits(t)
  BY DEF Init, IInv
<1>1. MaxLeaves[t] \in Nat
  BY LeavesAssumption
<1>2. sent[t] = <<>> /\ <<>> \in Seq(Leaves) /\ Len(<<>>) = 0 /\ GetRoot(<<>>) = Zero
  BY DEF Init, GetRoot
<1>3. OptFits(opt[t], <<>>, MaxLeaves[t])
  <2>1. opt[t] = [root |-> Zero, xmcnts |-> 0, treeFlag |-> 0,
                  trees |-> [f \in {0, 1} |-> Empty(t)],
                  hashNum |-> [n \in Slots(t) |-> 0]]
    BY DEF Init
  <2> QED
    BY <1>2, <2>1 DEF OptFits, Empty, Slots
<1>4. UpdateFits(update[t], <<>>)
  <2>1. update[t] = [root |-> Zero, xmcnts |-> 0, tree |-> <<>>, reverted |-> FALSE]
    BY DEF Init
  <2> QED
    BY <1>2, <2>1 DEF UpdateFits
<1>5. byLeaves[t].tree = <<>> /\ byLeaves[t].root = Zero
  BY DEF Init
<1>6. ByTreeFits(byTree[t], <<>>, MaxLeaves[t])
  <2>1. byTree[t] = [leaveslength |-> 0, layernumber |-> 0,
                     trees |-> [l \in Slots(t) |-> Empty(t)]]
    BY DEF Init
  <2> QED
    BY <1>2, <2>1 DEF ByTreeFits, HaveDomain, Empty, Slots
<1> QED
  BY <1>1, <1>2, <1>3, <1>4, <1>5, <1>6 DEF Fits, Leaves

\* A message changes one tree, in each contract, as the lemmas above say.
LEMMA NextFits == IInv /\ [Next]_vars => IInv'
<1> SUFFICES ASSUME IInv, [Next]_vars PROVE IInv'
  OBVIOUS
<1>0. /\ DOMAIN sent = Trees /\ DOMAIN opt = Trees /\ DOMAIN update = Trees
      /\ DOMAIN byLeaves = Trees /\ DOMAIN byTree = Trees
      /\ \A t \in Trees : Fits(t)
  BY DEF IInv
<1>1. CASE UNCHANGED vars
  BY <1>1 DEF vars, IInv, Fits
<1>2. ASSUME NEW t \in Trees, NEW message \in Data, CrossTransfer(t, message)
      PROVE  IInv'
  <2> DEFINE s == sent[t]
             x == Leaf(message)
             max == MaxLeaves[t]
  <2>1. Fits(t) /\ max \in Nat
    BY <1>0, LeavesAssumption
  <2>2. s \in Seq(Leaves) /\ x \in Leaves /\ Len(s) < max
    BY <1>2, <2>1 DEF Fits, Leaves, CrossTransfer
  <2>3. /\ sent'     = [sent     EXCEPT ![t] = Append(s, x)]
        /\ opt'      = [opt      EXCEPT ![t] = BuildOpt(opt[t], x)]
        /\ update'   = [update   EXCEPT ![t] = BuildUpdate(update[t], x)]
        /\ byLeaves' = [byLeaves EXCEPT ![t] = BuildByLeaves(byLeaves[t], x)]
        /\ byTree'   = [byTree   EXCEPT ![t] = BuildByTree(byTree[t], x)]
    BY <1>2 DEF CrossTransfer
  <2> HIDE DEF x
  <2>4. /\ sent'[t] = Append(s, x) /\ opt'[t] = BuildOpt(opt[t], x)
        /\ update'[t] = BuildUpdate(update[t], x)
        /\ byLeaves'[t] = BuildByLeaves(byLeaves[t], x)
        /\ byTree'[t] = BuildByTree(byTree[t], x)
    BY <1>0, <2>3
  <2>5. \A r \in Trees : r # t =>
          /\ sent'[r] = sent[r] /\ opt'[r] = opt[r] /\ update'[r] = update[r]
          /\ byLeaves'[r] = byLeaves[r] /\ byTree'[r] = byTree[r]
    BY <1>0, <2>3
  <2>6. /\ DOMAIN sent' = Trees /\ DOMAIN opt' = Trees /\ DOMAIN update' = Trees
        /\ DOMAIN byLeaves' = Trees /\ DOMAIN byTree' = Trees
    BY <1>0, <2>3
  <2>7. ASSUME NEW r \in Trees, r # t PROVE Fits(r)'
    BY <1>0, <2>5, <2>7 DEF Fits
  <2>8. Fits(t)'
    <3>1. OptFits(BuildOpt(opt[t], x), Append(s, x), max)
      <4>1. OptFits(opt[t], s, max)
        BY <2>1 DEF Fits
      <4> HIDE DEF s, max
      <4> QED
        BY <2>1, <2>2, <4>1, BuildOptIs
    <3>2. UpdateFits(BuildUpdate(update[t], x), Append(s, x))
      <4>1. UpdateFits(update[t], s)
        BY <2>1 DEF Fits
      <4> HIDE DEF s, max
      <4> QED
        BY <2>2, <4>1, BuildUpdateIs
    <3>3. /\ BuildByLeaves(byLeaves[t], x).tree = Append(s, x)
          /\ BuildByLeaves(byLeaves[t], x).root = GetRoot(Append(s, x))
      <4>1. byLeaves[t].tree = s
        BY <2>1 DEF Fits
      <4> HIDE DEF s, max
      <4> QED
        BY <2>2, <4>1, BuildByLeavesIs
    <3>4. ByTreeFits(BuildByTree(byTree[t], x), Append(s, x), max)
      <4>1. ByTreeFits(byTree[t], s, max)
        BY <2>1 DEF Fits
      <4> HIDE DEF s, max
      <4> QED
        BY <2>1, <2>2, <4>1, BuildByTreeIs
    <3>5. Append(s, x) \in Seq(Leaves) /\ Len(Append(s, x)) <= max
      <4> HIDE DEF s
      <4> QED
        BY <2>1, <2>2
    <3> HIDE DEF s
    <3> QED
      BY <2>4, <3>1, <3>2, <3>3, <3>4, <3>5 DEF Fits, Leaves
  <2> QED
    BY <2>6, <2>7, <2>8 DEF IInv
<1> QED
  BY <1>1, <1>2 DEF Next

\* Whatever messages are sent, the contracts keep the invariant IInv: their
\* buffers hold the path of the tree, and there is room for the next one.
THEOREM TreesInductive == Spec => []IInv
BY InitFits, NextFits, PTL DEF Spec

\* The invariant has the roots of all four contracts.
LEMMA IInvMeansRoots == IInv => RootsAreBlockRoots
<1> SUFFICES ASSUME IInv, NEW t \in Trees
             PROVE  /\ opt[t].root           = GetRoot(sent[t])
                    /\ update[t].root        = GetRoot(sent[t])
                    /\ byLeaves[t].root      = GetRoot(sent[t])
                    /\ ByTreeRoot(byTree[t]) = GetRoot(sent[t])
  BY DEF RootsAreBlockRoots
<1>1. Fits(t)
  BY DEF IInv
<1>2. sent[t] \in Seq(Leaves) /\ ByTreeFits(byTree[t], sent[t], MaxLeaves[t])
  BY <1>1 DEF Fits, Leaves
<1>3. ByTreeRoot(byTree[t]) = GetRoot(sent[t])
  BY <1>2, ByTreeRootIs
<1> QED
  BY <1>1, <1>3 DEF Fits, OptFits, UpdateFits

\* The four algorithms of the contracts and the gateway's tree compute one root, for
\* every number of messages.
THEOREM Roots == Spec => []RootsAreBlockRoots
BY TreesInductive, IInvMeansRoots, PTL

\* It has the paths of the two contracts that keep one.
LEMMA IInvMeansPaths == IInv => PathsAreFrontiers
<1> SUFFICES ASSUME IInv, NEW t \in Trees, sent[t] # <<>>
             PROVE  LET o == opt[t]
                        f == Frontier(sent[t])
                    IN  /\ o.hashNum[o.xmcnts] = Len(f)
                        /\ \A i \in 1 .. Len(f) : o.trees[1 - o.treeFlag][i] = f[i]
                        /\ update[t].tree = f /\ ~update[t].reverted
                        /\ Len(f) <= Top(Len(sent[t])) + 1
  BY DEF PathsAreFrontiers
<1>1. Fits(t)
  BY DEF IInv
<1>2. sent[t] \in Seq(Leaves)
  BY <1>1 DEF Fits, Leaves
<1>3. Len(Frontier(sent[t])) <= Top(Len(sent[t])) + 1
  BY <1>2, FrontierIs
<1> QED
  BY <1>1, <1>3 DEF Fits, OptFits, UpdateFits

\* What a contract keeps between two messages is the frontier of the tree, at most
\* one node per layer, and BCRUpdate never leaves its arrays.
THEOREM Paths == Spec => []PathsAreFrontiers
BY TreesInductive, IInvMeansPaths, PTL

----------------------------------------------------------------------------
(* The proofs of the gateways. *)

\* The climb of VerifyProof.
ProofClimb(index, node, proof) ==
  LET up[k \in Nat] ==
        IF k = 0 THEN node
        ELSE IF Ancestor(index)[k - 1] % 2 = 1 THEN Hash(proof[k], up[k - 1])
        ELSE Hash(up[k - 1], proof[k])
  IN  up

\* What ProofClimb says of each layer.
LEMMA ProofClimbIs ==
  ASSUME NEW index, NEW node, NEW proof
  PROVE  /\ ProofClimb(index, node, proof)[0] = node
         /\ \A k \in Nat :
              ProofClimb(index, node, proof)[k + 1] =
                IF Ancestor(index)[k] % 2 = 1
                THEN Hash(proof[k + 1], ProofClimb(index, node, proof)[k])
                ELSE Hash(ProofClimb(index, node, proof)[k], proof[k + 1])
<1> DEFINE F(v, k) == IF Ancestor(index)[k - 1] % 2 = 1 THEN Hash(proof[k], v)
                      ELSE Hash(v, proof[k])
           pair == <<index, proof>>
<1>0. pair[1] = index /\ pair[2] = proof
  OBVIOUS
<1> HIDE DEF pair
<1>1. PICK f : Runs("verify", pair, node, f, Nat)
  BY RunExists
<1>2. f = [k \in Nat |-> IF k = 0 THEN node ELSE F(f[k - 1], k)]
  BY <1>0, <1>1 DEF Runs, LoopTurn
<1>3. ProofClimb(index, node, proof) =
        [k \in Nat |-> IF k = 0 THEN node ELSE F(ProofClimb(index, node, proof)[k - 1], k)]
  BY <1>2, Zenon DEF ProofClimb
<1> HIDE DEF F
<1>4. \A k \in Nat : k + 1 \in Nat /\ k + 1 # 0 /\ (k + 1) - 1 = k
  OBVIOUS
<1>5. ProofClimb(index, node, proof)[0] = node
  BY <1>3
<1>6. ASSUME NEW k \in Nat
      PROVE  ProofClimb(index, node, proof)[k + 1] = F(ProofClimb(index, node, proof)[k], k + 1)
  BY <1>3, <1>4
<1>7. ASSUME NEW k \in Nat
      PROVE  ProofClimb(index, node, proof)[k + 1] =
                IF Ancestor(index)[k] % 2 = 1
                THEN Hash(proof[k + 1], ProofClimb(index, node, proof)[k])
                ELSE Hash(ProofClimb(index, node, proof)[k], proof[k + 1])
  BY <1>4, <1>6, Zenon DEF F
<1> QED
  BY <1>5, <1>7

\* A hash determines what was hashed.
LEMMA HashIsInjective ==
  ASSUME NEW a, NEW b, NEW c, NEW d, Hash(a, b) = Hash(c, d)
  PROVE  a = c /\ b = d
<1>1. Hash(a, b).left = a /\ Hash(a, b).right = b
  BY DEF Hash
<1>2. Hash(c, d).left = c /\ Hash(c, d).right = d
  BY DEF Hash
<1> QED
  BY <1>1, <1>2

\* verifyBCR compares the end of this climb with the root.
LEMMA VerifyProofIs ==
  ASSUME NEW index, NEW node, NEW bcr, NEW proof
  PROVE  VerifyProof(index, node, bcr, proof) <=>
           ProofClimb(index, node, proof)[Len(proof)] = bcr
BY Zenon DEF VerifyProof, ProofClimb

\* On every layer an earlier position is not behind a later one.
LEMMA AncestorIsMonotone ==
  ASSUME NEW i \in Nat, NEW j \in Nat, i <= j, NEW k \in Nat
  PROVE  /\ Ancestor(i)[k] \in Nat /\ Ancestor(j)[k] \in Nat
         /\ Ancestor(i)[k] <= Ancestor(j)[k]
<1> DEFINE T == {d \in Nat : Ancestor(i)[d] <= Ancestor(j)[d]}
<1>1. \A d \in Nat : Ancestor(i)[d] \in Nat /\ Ancestor(j)[d] \in Nat
  BY AncestorFalls
<1>2. 0 \in T
  BY AncestorIs
<1>3. ASSUME NEW d \in T PROVE d + 1 \in T
  <2>1. /\ Ancestor(i)[d + 1] = Ancestor(i)[d] \div 2
        /\ Ancestor(j)[d + 1] = Ancestor(j)[d] \div 2
    BY AncestorIs
  <2>2. \A a, b \in Nat : a <= b => a \div 2 <= b \div 2
    OBVIOUS
  <2> QED
    BY <1>1, <2>1, <2>2
<1> HIDE DEF T
<1>4. T = Nat
  BY <1>2, <1>3, SetOfNaturals DEF T
<1> QED
  BY <1>1, <1>4 DEF T

\* The node above a position is the hash of the node there and of its sibling.
LEMMA NodeAbove ==
  ASSUME NEW S, NEW s \in Seq(S), s # <<>>, NEW k \in Nat, NEW i \in 0 .. Len(s) - 1
  PROVE  LET a     == Ancestor(i)[k]
             layer == Build(s)[k]
         IN  Build(s)[k + 1][Ancestor(i)[k + 1] + 1] =
               IF a % 2 = 1 THEN Hash(Sibling(layer, a), layer[a + 1])
               ELSE Hash(layer[a + 1], Sibling(layer, a))
<1> DEFINE n == Len(s)
           a == Ancestor(i)[k]
           layer == Build(s)[k]
           w == Len(layer)
           j == (a \div 2) + 1
<1>1. n \in Nat /\ n # 0 /\ n - 1 \in Nat /\ i \in Nat /\ i <= n - 1 /\ k + 1 \in Nat
  OBVIOUS
<1>2. a \in Nat /\ a < w /\ w \in Nat \ {0}
  <2>1. w = Ancestor(n - 1)[k] + 1
    BY LayerIsSequence
  <2>2. a \in Nat /\ Ancestor(n - 1)[k] \in Nat /\ a <= Ancestor(n - 1)[k]
    BY <1>1, AncestorIsMonotone
  <2> HIDE DEF n, a, w
  <2> QED
    BY <2>1, <2>2
<1>3. /\ Ancestor(i)[k + 1] = a \div 2
      /\ Len(Build(s)[k + 1]) = Ancestor(n - 1)[k + 1] + 1
      /\ Ancestor(i)[k + 1] \in Nat /\ Ancestor(n - 1)[k + 1] \in Nat
      /\ Ancestor(i)[k + 1] <= Ancestor(n - 1)[k + 1]
  BY <1>1, LayerIsSequence, AncestorIsMonotone, AncestorIs
<1> HIDE DEF n, a
<1>4. j \in 1 .. Len(Build(s)[k + 1])
  BY <1>3
<1>5. Build(s)[k + 1][j] = Hash(layer[2 * j - 1],
                                IF 2 * j <= w THEN layer[2 * j] ELSE layer[2 * j - 1])
  <2> HIDE DEF j
  <2> QED
    BY <1>4, ParentIs
<1> HIDE DEF w, layer
<1>6. CASE a % 2 = 1
  <2>1. 2 * j - 1 = a /\ 2 * j = a + 1 /\ 2 * j <= w
    BY <1>2, <1>6
  <2> HIDE DEF j
  <2>2. Build(s)[k + 1][j] = Hash(layer[a], layer[a + 1])
    BY <1>5, <2>1
  <2>3. Sibling(layer, a) = layer[a]
    BY <1>6 DEF Sibling
  <2>4. Build(s)[k + 1][Ancestor(i)[k + 1] + 1] = Hash(Sibling(layer, a), layer[a + 1])
    BY <1>3, <2>2, <2>3 DEF j
  <2> QED
    BY <1>6, <2>4 DEF a, layer
<1>7. CASE a % 2 # 1
  <2>1. 2 * j - 1 = a + 1 /\ 2 * j = a + 2 /\ (2 * j <= w <=> a + 1 < w)
    BY <1>2, <1>7
  <2> HIDE DEF j
  <2>2. Build(s)[k + 1][j] = Hash(layer[a + 1], IF a + 1 < w THEN layer[a + 2] ELSE layer[a + 1])
    BY <1>5, <2>1
  <2>3. Sibling(layer, a) = IF a + 1 < w THEN layer[a + 2] ELSE layer[a + 1]
    BY <1>7 DEF Sibling, w
  <2>4. Build(s)[k + 1][Ancestor(i)[k + 1] + 1] = Hash(layer[a + 1], Sibling(layer, a))
    BY <1>3, <2>2, <2>3 DEF j
  <2> QED
    BY <1>7, <2>4 DEF a, layer
<1> QED
  BY <1>6, <1>7

\* Above position i is the root, and on layer 0 leaf i.
LEMMA NodesAtEnds ==
  ASSUME NEW S, NEW s \in Seq(S), s # <<>>, NEW i \in 0 .. Len(s) - 1
  PROVE  LET top == Top(Len(s))
         IN  /\ top \in Nat
             /\ Build(s)[top][Ancestor(i)[top] + 1] = GetRoot(s)
             /\ Build(s)[0][Ancestor(i)[0] + 1] = s[i + 1]
<1> DEFINE n == Len(s)
           top == Top(n)
<1>1. n \in Nat \ {0} /\ n - 1 \in Nat /\ i \in Nat /\ i <= n - 1
  OBVIOUS
<1>2. top \in Nat /\ Ancestor(n - 1)[top] = 0
  BY <1>1, TopIs
<1>3. Ancestor(i)[top] = 0
  <2> HIDE DEF top, n
  <2>1. Ancestor(i)[top] \in Nat /\ Ancestor(i)[top] <= Ancestor(n - 1)[top]
    BY <1>1, <1>2, AncestorIsMonotone
  <2> QED
    BY <1>2, <2>1
<1>4. GetRoot(s) = Build(s)[top][1]
  BY DEF GetRoot
<1>5. Build(s)[0] = s /\ Ancestor(i)[0] = i
  BY LayersAre, AncestorIs
<1> HIDE DEF top
<1>6. Ancestor(i)[top] + 1 = 1
  BY <1>3
<1> QED
  BY <1>2, <1>4, <1>5, <1>6 DEF top

\* A proof has the sibling on every layer below the root.
LEMMA GetProofIs ==
  ASSUME NEW s, NEW j, Top(Len(s)) \in Nat
  PROVE  /\ Len(GetProof(s, j)) = Top(Len(s))
         /\ \A k \in Nat : k < Top(Len(s)) =>
              GetProof(s, j)[k + 1] = Sibling(Build(s)[k], Ancestor(j)[k])
<1> DEFINE top == Top(Len(s))
           f == GetProof(s, j)
<1>1. f = [k \in 1 .. top |-> Sibling(Build(s)[k - 1], Ancestor(j)[k - 1])]
  BY DEF GetProof
<1>2. Len(f) = top
  BY <1>1
<1>3. ASSUME NEW k \in Nat, k < top
      PROVE  f[k + 1] = Sibling(Build(s)[k], Ancestor(j)[k])
  <2>1. k + 1 \in 1 .. top /\ (k + 1) - 1 = k
    BY <1>3
  <2> HIDE DEF top, f
  <2> QED
    BY <1>1, <2>1
<1> QED
  BY <1>2, <1>3

\* A proof of the right length leads to the root from no other leaf at its position.
LEMMA ProofsAreSound ==
  ASSUME NEW S, NEW s \in Seq(S), s # <<>>, NEW i \in 0 .. Len(s) - 1,
         NEW node, NEW proof,
         ProofClimb(i, node, proof)[Top(Len(s))] = GetRoot(s)
  PROVE  node = s[i + 1]
<1> DEFINE top == Top(Len(s))
           up == ProofClimb(i, node, proof)
           T == {d \in Nat : d <= top =>
                   up[top - d] = Build(s)[top - d][Ancestor(i)[top - d] + 1]}
<1>1. /\ top \in Nat /\ Build(s)[top][Ancestor(i)[top] + 1] = GetRoot(s)
      /\ Build(s)[0][Ancestor(i)[0] + 1] = s[i + 1]
  BY NodesAtEnds
<1>2. up[top] = GetRoot(s)
  OBVIOUS
<1> HIDE DEF top
<1>3. 0 \in T
  BY <1>1, <1>2
<1>4. ASSUME NEW d \in T PROVE d + 1 \in T
  <2> SUFFICES ASSUME d + 1 <= top
               PROVE  up[top - (d + 1)] =
                        Build(s)[top - (d + 1)][Ancestor(i)[top - (d + 1)] + 1]
    OBVIOUS
  <2> DEFINE k == top - (d + 1)
             a == Ancestor(i)[k]
             layer == Build(s)[k]
  <2>1. k \in Nat /\ k + 1 = top - d /\ d \in Nat /\ d <= top
    BY <1>1
  <2>2. up[k + 1] = Build(s)[k + 1][Ancestor(i)[k + 1] + 1]
    BY <2>1
  <2> HIDE DEF T, k
  <2>3. up[k + 1] = IF a % 2 = 1 THEN Hash(proof[k + 1], up[k]) ELSE Hash(up[k], proof[k + 1])
    BY <2>1, ProofClimbIs
  <2>4. Build(s)[k + 1][Ancestor(i)[k + 1] + 1] =
          IF a % 2 = 1 THEN Hash(Sibling(layer, a), layer[a + 1])
          ELSE Hash(layer[a + 1], Sibling(layer, a))
    BY <2>1, NodeAbove
  <2> HIDE DEF a, layer, up
  <2>5. up[k] = layer[a + 1]
    <3>1. CASE a % 2 = 1
      <4>1. Hash(proof[k + 1], up[k]) = Hash(Sibling(layer, a), layer[a + 1])
        BY <2>2, <2>3, <2>4, <3>1
      <4> QED
        BY <4>1, HashIsInjective
    <3>2. CASE a % 2 # 1
      <4>1. Hash(up[k], proof[k + 1]) = Hash(layer[a + 1], Sibling(layer, a))
        BY <2>2, <2>3, <2>4, <3>2
      <4> QED
        BY <4>1, HashIsInjective
    <3> QED
      BY <3>1, <3>2
  <2> QED
    BY <2>5 DEF a, layer, k
<1> HIDE DEF T
<1>5. T = Nat
  BY <1>3, <1>4, SetOfNaturals DEF T
<1>6. top <= top /\ top - top = 0
  BY <1>1
<1>7. up[0] = Build(s)[0][Ancestor(i)[0] + 1]
  BY <1>1, <1>5, <1>6 DEF T
<1>8. up[0] = node
  BY ProofClimbIs
<1> QED
  BY <1>1, <1>7, <1>8

\* The proof that a gateway makes for a leaf leads to the root from it.
LEMMA ProofsAreComplete ==
  ASSUME NEW S, NEW s \in Seq(S), s # <<>>, NEW i \in 0 .. Len(s) - 1
  PROVE  ProofClimb(i, s[i + 1], GetProof(s, i))[Top(Len(s))] = GetRoot(s)
<1> DEFINE top == Top(Len(s))
           proof == GetProof(s, i)
           up == ProofClimb(i, s[i + 1], proof)
           T == {k \in Nat : k <= top => up[k] = Build(s)[k][Ancestor(i)[k] + 1]}
<1>1. /\ top \in Nat /\ Build(s)[top][Ancestor(i)[top] + 1] = GetRoot(s)
      /\ Build(s)[0][Ancestor(i)[0] + 1] = s[i + 1]
  BY NodesAtEnds
<1>2. up[0] = s[i + 1]
  BY ProofClimbIs
<1>3. \A k \in Nat : k < top => proof[k + 1] = Sibling(Build(s)[k], Ancestor(i)[k])
  BY <1>1, GetProofIs
<1> HIDE DEF top, proof
<1>4. 0 \in T
  BY <1>1, <1>2
<1>5. ASSUME NEW k \in T PROVE k + 1 \in T
  <2> SUFFICES ASSUME k + 1 <= top
               PROVE  up[k + 1] = Build(s)[k + 1][Ancestor(i)[k + 1] + 1]
    OBVIOUS
  <2> DEFINE a == Ancestor(i)[k]
             layer == Build(s)[k]
  <2>1. k \in Nat /\ k < top /\ up[k] = layer[a + 1]
    BY <1>1
  <2> HIDE DEF T
  <2>2. up[k + 1] = IF a % 2 = 1 THEN Hash(proof[k + 1], up[k]) ELSE Hash(up[k], proof[k + 1])
    BY <2>1, ProofClimbIs
  <2>3. Build(s)[k + 1][Ancestor(i)[k + 1] + 1] =
          IF a % 2 = 1 THEN Hash(Sibling(layer, a), layer[a + 1])
          ELSE Hash(layer[a + 1], Sibling(layer, a))
    BY <2>1, NodeAbove
  <2>4. proof[k + 1] = Sibling(layer, a)
    BY <1>3, <2>1
  <2> QED
    BY <2>1, <2>2, <2>3, <2>4
<1> HIDE DEF T
<1>6. T = Nat
  BY <1>4, <1>5, SetOfNaturals DEF T
<1>7. up[top] = Build(s)[top][Ancestor(i)[top] + 1]
  BY <1>1, <1>6 DEF T
<1> QED
  BY <1>1, <1>7 DEF top, proof

\* With the contract's root, acceptance is a climb to the root of the gateway's tree.
LEMMA RootsMeanBinding == IInv => ProofsAreBinding
<1> SUFFICES ASSUME IInv, NEW t \in Trees,
                    NEW i \in 0 .. Len(sent[t]) - 1, NEW j \in 0 .. Len(sent[t]) - 1,
                    NEW message \in Data
             PROVE  LET s  == sent[t]
                        ok == VerifyProof(i, Leaf(message), opt[t].root, GetProof(s, j))
                    IN  /\ ok => s[i + 1] = Leaf(message)
                        /\ i = j /\ s[i + 1] = Leaf(message) => ok
  BY Zenon DEF ProofsAreBinding
<1> DEFINE s == sent[t]
           x == Leaf(message)
           proof == GetProof(s, j)
<1>1. s \in Seq(Leaves) /\ opt[t].root = GetRoot(s)
  BY DEF IInv, Fits, OptFits, Leaves
<1>2. s # <<>>
  BY <1>1
<1>3. Top(Len(s)) \in Nat
  BY <1>1, <1>2, NodesAtEnds
<1>4. Len(proof) = Top(Len(s))
  BY <1>3, GetProofIs
<1> HIDE DEF s, x, proof
<1>5. VerifyProof(i, x, opt[t].root, proof) <=>
        ProofClimb(i, x, proof)[Top(Len(s))] = GetRoot(s)
  BY <1>1, <1>4, VerifyProofIs
<1>6. i \in 0 .. Len(s) - 1
  BY DEF s
<1>7. ASSUME VerifyProof(i, x, opt[t].root, proof) PROVE s[i + 1] = x
  BY <1>1, <1>2, <1>5, <1>6, <1>7, ProofsAreSound
<1>8. ASSUME i = j, s[i + 1] = x PROVE VerifyProof(i, x, opt[t].root, proof)
  BY <1>1, <1>2, <1>5, <1>6, <1>8, ProofsAreComplete DEF proof
<1> QED
  BY <1>7, <1>8 DEF s, x, proof

\* For every number of messages the proof that a gateway makes for a message is
\* accepted, and no proof it makes is accepted for another message.
THEOREM Binding == Spec => []ProofsAreBinding
BY TreesInductive, RootsMeanBinding, PTL

----------------------------------------------------------------------------
(* Tries.  Each branch node is made of those below it, whose keys part later: so the  *)
(* recursive function of their definition exists.                                     *)

TrieKeys == [1 .. 64 -> 0 .. 15]

\* Several keys share their first nibbles, as many as Parting says.
LEMMA PartingIs ==
  ASSUME NEW K \in SUBSET TrieKeys, Several(K)
  PROVE  /\ Parting(K) \in 0 .. 63
         /\ \E k, l \in K : k[Parting(K) + 1] # l[Parting(K) + 1]
         /\ \A k, l \in K, i \in 1 .. Parting(K) : k[i] = l[i]
<1> DEFINE S == {m \in Nat : m \in 0 .. 63 /\ \E k, l \in K : k[m + 1] # l[m + 1]}
           P(m) == /\ \E k, l \in K : k[m + 1] # l[m + 1]
                   /\ \A k, l \in K, i \in 1 .. m : k[i] = l[i]
<1>1. PICK k \in K, l \in K : k # l
  BY DEF Several
<1>2. PICK i \in 1 .. 64 : k[i] # l[i]
  BY <1>1 DEF TrieKeys
<1>3. i - 1 \in Nat /\ i - 1 \in 0 .. 63 /\ (i - 1) + 1 = i
  OBVIOUS
<1>4. i - 1 \in S
  BY <1>2, <1>3
<1>5. PICK m \in S : \A j \in S : m <= j
  BY <1>4, LeastElement
<1>6. ASSUME NEW a \in K, NEW b \in K, NEW j \in 1 .. m PROVE a[j] = b[j]
  <2>1. j - 1 \in Nat /\ j - 1 \in 0 .. 63 /\ (j - 1) + 1 = j /\ ~ (m <= j - 1)
    BY <1>5
  <2>2. j - 1 \notin S
    BY <1>5, <2>1
  <2> QED
    BY <2>1, <2>2
<1>7. m \in 0 .. 63 /\ P(m)
  BY <1>5, <1>6
<1>8. Parting(K) = CHOOSE n \in 0 .. 63 : P(n)
  BY DEF Parting
<1> HIDE DEF P, S
<1>9. Parting(K) \in 0 .. 63 /\ P(Parting(K))
  BY <1>7, <1>8
<1> QED
  BY <1>9 DEF P

\* The keys under a child part later than those of the node.
LEMMA UnderParts ==
  ASSUME NEW K \in SUBSET TrieKeys, Several(K), NEW c, Several(Under(K, Parting(K), c))
  PROVE  Parting(Under(K, Parting(K), c)) >= Parting(K) + 1
<1> DEFINE L == Under(K, Parting(K), c)
<1>1. L \in SUBSET TrieKeys /\ L \subseteq K /\ \A k \in L : k[Parting(K) + 1] = c
  BY DEF Under
<1>2. /\ Parting(K) \in 0 .. 63
      /\ \A k, l \in K, i \in 1 .. Parting(K) : k[i] = l[i]
  BY PartingIs
<1>3. /\ Parting(L) \in 0 .. 63
      /\ \E k, l \in L : k[Parting(L) + 1] # l[Parting(L) + 1]
  BY <1>1, PartingIs
<1> HIDE DEF L
<1>4. SUFFICES ASSUME Parting(L) <= Parting(K) PROVE FALSE
  BY <1>2, <1>3 DEF L
<1>5. PICK k \in L, l \in L : k[Parting(L) + 1] # l[Parting(L) + 1]
  BY <1>3
<1>6. CASE Parting(L) = Parting(K)
  BY <1>1, <1>5, <1>6
<1>7. CASE Parting(L) # Parting(K)
  <2>1. Parting(L) + 1 \in 1 .. Parting(K)
    BY <1>2, <1>3, <1>4, <1>7
  <2> QED
    BY <1>1, <1>2, <1>5, <2>1
<1> QED
  BY <1>6, <1>7

\* A node is made of the branch node of its keys, a child of the one of those below.
LEMMA NodeDependsOn ==
  ASSUME NEW f, NEW K, NEW n, NEW b, NEW d, Several(K) => b[K] = d[K]
  PROVE  Node(f, b, K, n) = Node(f, d, K, n)
<1>1. CASE Several(K)
  <2>1. b[K] = d[K]
    BY <1>1
  <2> QED
    BY <2>1 DEF Node
<1>2. CASE ~Several(K)
  BY <1>2 DEF Node
<1> QED
  BY <1>1, <1>2

\* A branch node is made of the branch nodes that it leads to.
LEMMA BranchDependsOn ==
  ASSUME NEW f, NEW K, NEW b, NEW d,
         \A c : Several(Under(K, Parting(K), c)) =>
                  b[Under(K, Parting(K), c)] = d[Under(K, Parting(K), c)]
  PROVE  BranchNode(f, b, K) = BranchNode(f, d, K)
<1>1. ASSUME NEW c PROVE Child(f, b, K, c) = Child(f, d, K, c)
  <2> DEFINE L == Under(K, Parting(K), c)
  <2>1. Several(L) => b[L] = d[L]
    OBVIOUS
  <2> HIDE DEF L
  <2>2. Node(f, b, L, Parting(K) + 1) = Node(f, d, L, Parting(K) + 1)
    BY <2>1, NodeDependsOn
  <2> QED
    BY <2>2 DEF Child, L
<1> QED
  BY <1>1 DEF BranchNode

\* The recursive function of Branches exists: it is what so many turns make of no
\* branch at all as there are nibbles, since the keys of each branch part later than
\* those of the branch above.
LEMMA BranchesAre ==
  ASSUME NEW f, DOMAIN f \in SUBSET TrieKeys
  PROVE  \A K \in Crowds(f) : Branches(f)[K] = BranchNode(f, Branches(f), K)
<1> DEFINE x == [K \in Crowds(f) |-> EmptyStr]
<1>1. PICK g : Runs("branches", f, x, g, Nat)
  BY RunExists
<1> HIDE DEF x
<1>2. \A k \in Nat : g[k + 1] = [K \in Crowds(f) |-> BranchNode(f, g[k], K)]
  <2> SUFFICES ASSUME NEW k \in Nat
               PROVE  g[k + 1] = [K \in Crowds(f) |-> BranchNode(f, g[k], K)]
    OBVIOUS
  <2>1. k + 1 \in Nat /\ k + 1 # 0 /\ (k + 1) - 1 = k
    OBVIOUS
  <2>2. g[k + 1] = LoopTurn("branches", f, k + 1, g[k])
    BY <1>1, <2>1 DEF Runs
  <2> QED
    BY <2>2 DEF LoopTurn
<1> DEFINE Good(d) == \A K \in Crowds(f) : Parting(K) + d >= 64 => g[d + 1][K] = g[d][K]
           T == {d \in Nat : Good(d)}
<1>3. 0 \in T
  <2>1. \A K \in Crowds(f) : Parting(K) \in 0 .. 63
    BY PartingIs DEF Crowds
  <2> QED
    BY <2>1
<1>4. ASSUME NEW d \in T PROVE d + 1 \in T
  <2> SUFFICES ASSUME NEW K \in Crowds(f), Parting(K) + (d + 1) >= 64
               PROVE  g[(d + 1) + 1][K] = g[d + 1][K]
    OBVIOUS
  <2>1. K \in SUBSET TrieKeys /\ Several(K) /\ K \subseteq DOMAIN f
    BY DEF Crowds
  <2>2. Parting(K) \in 0 .. 63
    BY <2>1, PartingIs
  <2>3. ASSUME NEW c, Several(Under(K, Parting(K), c))
        PROVE  g[d + 1][Under(K, Parting(K), c)] = g[d][Under(K, Parting(K), c)]
    <3> DEFINE L == Under(K, Parting(K), c)
    <3>1. L \in Crowds(f) /\ L \in SUBSET TrieKeys
      BY <2>1, <2>3 DEF Crowds, Under
    <3>2. Parting(L) >= Parting(K) + 1
      BY <2>1, <2>3, UnderParts
    <3>3. Parting(L) \in 0 .. 63
      BY <2>3, <3>1, PartingIs
    <3> HIDE DEF L
    <3>4. Parting(L) + d >= 64
      BY <2>2, <3>2, <3>3
    <3>5. g[d + 1][L] = g[d][L]
      BY <3>1, <3>4
    <3> QED
      BY <3>5 DEF L
  <2>4. BranchNode(f, g[d + 1], K) = BranchNode(f, g[d], K)
    BY <2>3, BranchDependsOn
  <2>5. d \in Nat /\ d + 1 \in Nat
    OBVIOUS
  <2>6. /\ g[(d + 1) + 1] = [L \in Crowds(f) |-> BranchNode(f, g[d + 1], L)]
        /\ g[d + 1] = [L \in Crowds(f) |-> BranchNode(f, g[d], L)]
    BY <1>2, <2>5
  <2>7. /\ g[(d + 1) + 1][K] = BranchNode(f, g[d + 1], K)
        /\ g[d + 1][K] = BranchNode(f, g[d], K)
    BY <2>6, Zenon
  <2> QED
    BY <2>4, <2>7
<1> HIDE DEF T
<1>5. T = Nat
  BY <1>3, <1>4, SetOfNaturals DEF T
<1>6. Good(64)
  BY <1>5 DEF T
<1>7. \A K \in Crowds(f) : g[64][K] = BranchNode(f, g[64], K)
  <2> SUFFICES ASSUME NEW K \in Crowds(f) PROVE g[64][K] = BranchNode(f, g[64], K)
    OBVIOUS
  <2>1. Parting(K) \in 0 .. 63
    BY PartingIs DEF Crowds
  <2>2. g[64 + 1][K] = g[64][K]
    BY <1>6, <2>1
  <2> QED
    BY <1>2, <2>2
<1>8. g[64] = [K \in Crowds(f) |-> g[64][K]]
  <2>1. 63 \in Nat /\ 63 + 1 = 64
    OBVIOUS
  <2>2. g[64] = [K \in Crowds(f) |-> BranchNode(f, g[63], K)]
    BY <1>2, <2>1
  <2> QED
    BY <2>2
<1> HIDE DEF Good
<1>9. \E h : h = [K \in Crowds(f) |-> BranchNode(f, h, K)]
  BY <1>7, <1>8
<1>10. Branches(f) = [K \in Crowds(f) |-> BranchNode(f, Branches(f), K)]
  <2> DEFINE P(h) == h = [K \in Crowds(f) |-> BranchNode(f, h, K)]
  <2>1. Branches(f) = CHOOSE h : P(h)
    BY DEF Branches, Crowds, BranchNode
  <2>2. \E h : P(h)
    BY <1>9
  <2> HIDE DEF P
  <2>3. P(Branches(f))
    BY <2>1, <2>2
  <2> QED
    BY <2>3 DEF P
<1> QED
  BY <1>10

----------------------------------------------------------------------------
(* Nodes and what the contract reads in them. *)

\* A list is not taken for a string.
LEMMA ListIs ==
  ASSUME NEW items
  PROVE  ListOf(items).items = items /\ IsListItem(ListOf(items))
BY DEF ListOf, IsListItem

\* Nor a string for a list.
LEMMA StringIs ==
  ASSUME NEW b, NEW n
  PROVE  Str(b, n).bytes = b /\ ~IsListItem(Str(b, n))
BY DEF Str, IsListItem

\* Keys are sequences of nibbles.
LEMMA KeysAreSequences ==
  ASSUME NEW k \in TrieKeys
  PROVE  k \in Seq(0 .. 15) /\ Len(k) = 64
<1>1. k = [i \in 1 .. 64 |-> k[i]] /\ \A i \in 1 .. 64 : k[i] \in 0 .. 15
  BY DEF TrieKeys
<1> QED
  BY <1>1, FunctionIsSequence

\* Half-bytes that were packed into bytes are found there again.
LEMMA NibblesOfBytes ==
  ASSUME NEW n \in Nat, NEW a, \A i \in 1 .. 2 * n : a[i] \in 0 .. 15,
         NEW b, b = [i \in 1 .. n |-> a[2 * i - 1] * 16 + a[2 * i]],
         NEW j \in 0 .. 2 * n - 1
  PROVE  (IF j % 2 = 0 THEN b[j \div 2 + 1] \div 16 ELSE b[j \div 2 + 1] % 16) = a[j + 1]
<1>1. \A x, y \in 0 .. 15 : (x * 16 + y) \div 16 = x /\ (x * 16 + y) % 16 = y
  OBVIOUS
<1>2. j \div 2 + 1 \in 1 .. n
  OBVIOUS
<1>3. CASE j % 2 = 0
  <2>1. 2 * (j \div 2 + 1) - 1 = j + 1 /\ 2 * (j \div 2 + 1) = j + 2
    BY <1>3
  <2>2. j + 1 \in 1 .. 2 * n /\ j + 2 \in 1 .. 2 * n
    BY <1>3
  <2>3. b[j \div 2 + 1] = a[j + 1] * 16 + a[j + 2]
    BY <1>2, <2>1
  <2> QED
    BY <1>1, <1>3, <2>2, <2>3
<1>4. CASE j % 2 # 0
  <2>1. 2 * (j \div 2 + 1) - 1 = j /\ 2 * (j \div 2 + 1) = j + 1
    BY <1>4
  <2>2. j \in 1 .. 2 * n /\ j + 1 \in 1 .. 2 * n
    BY <1>4
  <2>3. b[j \div 2 + 1] = a[j] * 16 + a[j + 1]
    BY <1>2, <2>1
  <2>4. a[j] \in 0 .. 15 /\ a[j + 1] \in 0 .. 15
    BY <2>2
  <2>5. (a[j] * 16 + a[j + 1]) % 16 = a[j + 1]
    BY <1>1, <2>4, Zenon
  <2> QED
    BY <1>4, <2>3, <2>5
<1> QED
  BY <1>3, <1>4

\* The contract reads the nibbles and the flag of a leaf or an extension.
LEMMA CompactDecodes ==
  ASSUME NEW s \in Seq(0 .. 15), NEW isLeaf \in BOOLEAN
  PROVE  /\ CompactDecode(Compact(s, isLeaf).bytes).isLeaf = isLeaf
         /\ CompactDecode(Compact(s, isLeaf).bytes).key = s
<1> DEFINE flag == IF isLeaf THEN 2 ELSE 0
           odd  == Len(s) % 2
           pre  == IF odd = 1 THEN <<flag + 1>> ELSE <<flag, 0>>
           all  == pre \o s
           n    == Len(all) \div 2
           b    == [i \in 1 .. n |-> all[2 * i - 1] * 16 + all[2 * i]]
<1>1. flag \in {0, 2} /\ odd \in {0, 1} /\ flag + odd \in 0 .. 15
  OBVIOUS
<1> HIDE DEF flag, odd
<1>2. pre \in Seq(0 .. 15) /\ Len(pre) = 2 - odd /\ pre[1] = flag + odd
  <2>1. CASE odd = 1
    BY <1>1, <2>1
  <2>2. CASE odd = 0
    BY <1>1, <2>2
  <2> QED
    BY <1>1, <2>1, <2>2
<1> HIDE DEF pre
<1>3. /\ all \in Seq(0 .. 15) /\ Len(all) = 2 - odd + Len(s) /\ all[1] = flag + odd
      /\ \A i \in 1 .. Len(s) : all[i + (2 - odd)] = s[i]
  <2>1. all \in Seq(0 .. 15) /\ Len(all) = 2 - odd + Len(s)
    BY <1>2
  <2>2. Len(pre) >= 1
    BY <1>1, <1>2
  <2>3. all[1] = pre[1]
    BY <1>2, <2>2
  <2>4. \A i \in 1 .. Len(s) : all[i + (2 - odd)] = s[i]
    BY <1>1, <1>2, ConcatProperties
  <2> QED
    BY <1>2, <2>1, <2>3, <2>4
<1> HIDE DEF all
<1>4. n \in Nat /\ Len(all) = 2 * n /\ n >= 1
  <2>1. \A l \in Nat : (2 - (l % 2) + l) = 2 * ((2 - (l % 2) + l) \div 2)
    OBVIOUS
  <2>2. Len(s) \in Nat
    OBVIOUS
  <2>3. Len(all) = 2 - (Len(s) % 2) + Len(s)
    BY <1>3 DEF odd
  <2>4. Len(all) = 2 * (Len(all) \div 2)
    BY <2>1, <2>2, <2>3
  <2>5. Len(all) \in Nat /\ Len(all) >= 1
    BY <2>2, <2>3
  <2> QED
    BY <2>4, <2>5
<1>5. \A i \in 1 .. 2 * n : all[i] \in 0 .. 15
  BY <1>3, <1>4
<1> HIDE DEF n
<1>6. Compact(s, isLeaf).bytes = b
  BY StringIs DEF Compact, b, n, all, pre, flag, odd
<1>7. ASSUME NEW j \in 0 .. 2 * n - 1
      PROVE  (IF j % 2 = 0 THEN b[j \div 2 + 1] \div 16 ELSE b[j \div 2 + 1] % 16) = all[j + 1]
  BY <1>4, <1>5, NibblesOfBytes
<1>8. b[1] \div 16 = flag + odd
  <2>1. 0 \in 0 .. 2 * n - 1 /\ 0 % 2 = 0 /\ 0 \div 2 + 1 = 1
    BY <1>4
  <2>2. b[1] \div 16 = all[1]
    BY <1>7, <2>1
  <2> QED
    BY <1>3, <2>2
<1>9. Len(b) = n
  BY <1>4
<1> HIDE DEF b
<1>10. DecodeNibbles(b, 2 - odd) = s
  <2>1. 2 * Len(b) - (2 - odd) = Len(s)
    BY <1>1, <1>3, <1>4, <1>9
  <2>2. ASSUME NEW i \in 1 .. Len(s)
        PROVE  LET j == i + (2 - odd) - 1
               IN  (IF j % 2 = 0 THEN b[j \div 2 + 1] \div 16 ELSE b[j \div 2 + 1] % 16) = s[i]
    <3> DEFINE j == i + (2 - odd) - 1
    <3>1. j \in 0 .. 2 * n - 1 /\ j + 1 = i + (2 - odd)
      BY <1>1, <1>3, <1>4
    <3> HIDE DEF j
    <3>2. (IF j % 2 = 0 THEN b[j \div 2 + 1] \div 16 ELSE b[j \div 2 + 1] % 16) = all[j + 1]
      BY <1>7, <3>1
    <3>3. all[j + 1] = s[i]
      BY <1>3, <3>1
    <3> QED
      BY <3>2, <3>3 DEF j
  <2>3. s = [i \in 1 .. Len(s) |-> s[i]]
    OBVIOUS
  <2> QED
    BY <2>1, <2>2, <2>3 DEF DecodeNibbles
<1>11. (flag + odd \in {2, 3}) = isLeaf /\ 2 - ((flag + odd) % 2) = 2 - odd
  BY <1>1, isLeaf \in {TRUE, FALSE} DEF flag
<1> QED
  BY <1>6, <1>8, <1>10, <1>11 DEF CompactDecode

\* xs behind an offset and ys share n elements and no more.
Share(n, offset, xs, ys) ==
  /\ n \in 0 .. Len(ys) /\ n + offset <= Len(xs)
  /\ \A i \in 1 .. n : xs[i + offset] = ys[i]
  /\ n = Len(ys) \/ n + offset = Len(xs) \/ xs[n + 1 + offset] # ys[n + 1]

\* The contract counts the nibbles up to the first one that differs.
LEMMA SharedPrefixIs ==
  ASSUME NEW S, NEW xs \in Seq(S), NEW ys \in Seq(S), NEW offset \in 0 .. Len(xs)
  PROVE  Share(SharedPrefixLength(offset, xs, ys), offset, xs, ys)
<1> DEFINE Stops(n) == n = Len(ys) \/ n + offset = Len(xs) \/ xs[n + 1 + offset] # ys[n + 1]
           T == {n \in Nat : Stops(n)}
           P(n) == /\ n + offset <= Len(xs) /\ \A i \in 1 .. n : xs[i + offset] = ys[i]
                   /\ Stops(n)
<1>1. Len(ys) \in T /\ Len(xs) - offset \in T
  OBVIOUS
<1>2. PICK n \in T : \A j \in T : n <= j
  BY <1>1, LeastElement
<1>3. n \in 0 .. Len(ys) /\ n + offset <= Len(xs)
  <2>1. n \in Nat /\ Len(ys) \in Nat /\ Len(xs) \in Nat /\ offset \in Nat
    OBVIOUS
  <2>2. n <= Len(ys) /\ n <= Len(xs) - offset
    BY <1>1, <1>2
  <2> HIDE DEF T
  <2> QED
    BY <2>1, <2>2
<1>4. ASSUME NEW i \in 1 .. n PROVE xs[i + offset] = ys[i]
  <2>1. i - 1 \in Nat /\ (i - 1) + 1 + offset = i + offset /\ (i - 1) + 1 = i /\ ~ (n <= i - 1)
    BY <1>2
  <2>2. i - 1 \notin T
    BY <1>2, <2>1
  <2> QED
    BY <2>1, <2>2
<1>5. n \in 0 .. Len(ys) /\ P(n)
  BY <1>2, <1>3, <1>4
<1>6. SharedPrefixLength(offset, xs, ys) = CHOOSE m \in 0 .. Len(ys) : P(m)
  BY DEF SharedPrefixLength
<1> HIDE DEF P
<1>7. /\ SharedPrefixLength(offset, xs, ys) \in 0 .. Len(ys)
      /\ P(SharedPrefixLength(offset, xs, ys))
  BY <1>5, <1>6
<1> QED
  BY <1>7 DEF P, Share

\* Two keys share their first n nibbles.
Agree(k, key, n) == \A i \in 1 .. n : k[i] = key[i]

\* Nibbles n + 1 to m of a key.
PartOf(k, n, m) == SubSeq(k, n + 1, m)

\* A key has all of a node's nibbles from n on, or the contract sees that it has not.
LEMMA SharedPart ==
  ASSUME NEW key \in TrieKeys, NEW k \in TrieKeys, NEW n \in 0 .. 64, NEW m \in n .. 64,
         Agree(k, key, n)
  PROVE  /\ PartOf(k, n, m) \in Seq(0 .. 15) /\ Len(PartOf(k, n, m)) = m - n
         /\ SharedPrefixLength(n, key, PartOf(k, n, m)) \in 0 .. m - n
         /\ SharedPrefixLength(n, key, PartOf(k, n, m)) = m - n <=> Agree(k, key, m)
<1> DEFINE ys == PartOf(k, n, m)
           p  == SharedPrefixLength(n, key, ys)
<1>1. /\ k \in Seq(0 .. 15) /\ Len(k) = 64
      /\ key \in Seq(0 .. 15) /\ Len(key) = 64
  BY KeysAreSequences
<1>2. /\ ys \in Seq(0 .. 15) /\ Len(ys) = m - n
      /\ \A i \in 1 .. m - n : ys[i] = k[n + i]
  <2>2. /\ ys \in Seq(0 .. 15) /\ Len(ys) = m - (n + 1) + 1
        /\ \A i \in 1 .. m - (n + 1) + 1 : ys[i] = k[n + 1 + i - 1]
    <3>1. n + 1 \in Int /\ m \in Int /\ \A i \in n + 1 .. m : k[i] \in 0 .. 15
      BY DEF TrieKeys
    <3>2. (IF n + 1 <= m THEN m - (n + 1) + 1 ELSE 0) = m - (n + 1) + 1
      OBVIOUS
    <3> QED
      BY <3>1, <3>2, SubSeqProperties DEF PartOf
  <2>3. m - (n + 1) + 1 = m - n /\ \A i \in 1 .. m - n : n + 1 + i - 1 = n + i
    OBVIOUS
  <2> HIDE DEF ys
  <2> QED
    BY <2>2, <2>3
<1> HIDE DEF ys
<1>3. n \in 0 .. Len(key)
  BY <1>1
<1>4. /\ p \in 0 .. Len(ys) /\ p + n <= Len(key)
      /\ \A i \in 1 .. p : key[i + n] = ys[i]
      /\ p = Len(ys) \/ p + n = Len(key) \/ key[p + 1 + n] # ys[p + 1]
  <2>1. Share(SharedPrefixLength(n, key, ys), n, key, ys)
    BY <1>1, <1>2, <1>3, SharedPrefixIs
  <2> QED
    BY <2>1 DEF Share
<1> HIDE DEF p
<1>5. ASSUME p = m - n, NEW i \in 1 .. m PROVE k[i] = key[i]
  <2>1. CASE i \in 1 .. n
    BY <2>1 DEF Agree
  <2>2. CASE i \notin 1 .. n
    <3>1. i - n \in 1 .. p /\ (i - n) + n = i /\ n + (i - n) = i /\ i - n \in 1 .. m - n
      BY <1>5, <2>2
    <3> QED
      BY <1>2, <1>4, <3>1
  <2> QED
    BY <2>1, <2>2
<1>6. ASSUME \A i \in 1 .. m : k[i] = key[i] PROVE p = m - n
  <2> SUFFICES ASSUME p # m - n PROVE FALSE
    OBVIOUS
  <2>1. p + n # 64 /\ p + 1 \in 1 .. m - n /\ n + (p + 1) = p + 1 + n /\ p + 1 + n \in 1 .. m
    BY <1>2, <1>4
  <2>2. ys[p + 1] = k[p + 1 + n]
    BY <1>2, <2>1
  <2>3. key[p + 1 + n] # ys[p + 1]
    BY <1>1, <1>2, <1>4, <2>1
  <2> QED
    BY <1>6, <2>1, <2>2, <2>3
<1> QED
  BY <1>2, <1>4, <1>5, <1>6 DEF ys, p, Agree

\* What a node says of its child leads to the child and nowhere else.
LEMMA HashLeads ==
  ASSUME NEW node, IsListItem(node)
  PROVE  /\ MptHashHash(node) = ChildHash(Ref(node))
         /\ \A x : MptHashHash(x) = ChildHash(Ref(node)) => x = node
<1>1. \A x, y : /\ KeccakRlp(x) = KeccakRlp(y) => x = y
                /\ KeccakBytes(x) = KeccakBytes(y) => x = y
                /\ KeccakRlp(x) # KeccakBytes(y)
  <2>1. \A x, y : KeccakRlp(x) = KeccakRlp(y) => x = y
    BY \A x : KeccakRlp(x).keccakRlp = x DEF KeccakRlp
  <2>2. \A x, y : KeccakBytes(x) = KeccakBytes(y) => x = y
    BY \A x : KeccakBytes(x).keccakBytes = x DEF KeccakBytes
  <2>3. \A x, y : DOMAIN KeccakRlp(x) = {"keccakRlp"} /\ DOMAIN KeccakBytes(y) = {"keccakBytes"}
    BY DEF KeccakRlp, KeccakBytes
  <2> QED
    BY <2>1, <2>2, <2>3
<1>2. ChildHash(Ref(node)) = IF IsShort(node) THEN KeccakRlp(node)
                             ELSE KeccakBytes(KeccakRlp(node))
  <2>1. CASE IsShort(node)
    BY <2>1 DEF Ref, ChildHash
  <2>2. CASE ~IsShort(node)
    <3>1. Ref(node) = Str(<<KeccakRlp(node)>>, 32)
      BY <2>2 DEF Ref, HashStr
    <3>2. Ref(node).bytes = <<KeccakRlp(node)>> /\ ~IsListItem(Ref(node))
      BY <3>1, StringIs
    <3> QED
      BY <2>2, <3>2 DEF ChildHash
  <2> QED
    BY <2>1, <2>2
<1>3. MptHashHash(node) = ChildHash(Ref(node))
  BY <1>2 DEF MptHashHash, IsShort
<1>4. ASSUME NEW x, MptHashHash(x) = ChildHash(Ref(node)) PROVE x = node
  <2>1. MptHashHash(x) = KeccakRlp(x) \/ MptHashHash(x) = KeccakBytes(KeccakRlp(x))
    BY DEF MptHashHash
  <2> QED
    BY <1>1, <1>2, <1>4, <2>1
<1> QED
  BY <1>3, <1>4

----------------------------------------------------------------------------
(* One step of the contract on the way to a key. *)

\* A node of the trie stands n nibbles behind the root on the way to a key.
IsNodeAt(f, key, n) ==
  /\ n \in 0 .. 64 /\ Sharing(f, key, n) # {}
  /\ Several(Sharing(f, key, n)) => n <= Parting(Sharing(f, key, n))

NodeOn(f, key, n) == Trie(f, Sharing(f, key, n), n)

\* The state of the contract's loop before that node.
Before(n, hash) == [offset |-> n, hash |-> hash, out |-> Going]

\* The keys that still share a path are among those of the trie.
LEMMA SharingIs ==
  ASSUME NEW f, DOMAIN f \in SUBSET TrieKeys, NEW key \in TrieKeys, NEW n \in 0 .. 64
  PROVE  /\ Sharing(f, key, n) \in SUBSET TrieKeys
         /\ Sharing(f, key, n) \subseteq DOMAIN f
         /\ Several(Sharing(f, key, n)) => Sharing(f, key, n) \in Crowds(f)
         /\ key \in DOMAIN f <=> key \in Sharing(f, key, n)
         /\ \A k \in Sharing(f, key, n), i \in 1 .. n : k[i] = key[i]
BY DEF Sharing, Crowds

\* The keys of an extension are those of the branch node below it, if the key is
\* among them so far.
LEMMA ExtensionShares ==
  ASSUME NEW f, DOMAIN f \in SUBSET TrieKeys, NEW key \in TrieKeys, NEW n, n \in 0 .. 64,
         Several(Sharing(f, key, n)), n <= Parting(Sharing(f, key, n)),
         NEW k \in Sharing(f, key, n)
  PROVE  LET m == Parting(Sharing(f, key, n))
         IN  /\ Sharing(f, key, m) # {} => Agree(k, key, m)
             /\ Agree(k, key, m) => Sharing(f, key, m) # {}
             /\ Sharing(f, key, m) # {} => Sharing(f, key, m) = Sharing(f, key, n)
<1> DEFINE K == Sharing(f, key, n)
           m == Parting(K)
<1>1. /\ K \in SUBSET TrieKeys /\ K \subseteq DOMAIN f
      /\ \A l \in K, i \in 1 .. n : l[i] = key[i]
  BY DEF Sharing
<1>2. m \in 0 .. 63 /\ \A l, j \in K, i \in 1 .. m : l[i] = j[i]
  BY <1>1, PartingIs
<1>3. n <= m /\ k \in K
  OBVIOUS
<1>4. Sharing(f, key, m) \subseteq K
  BY <1>2, <1>3 DEF Sharing
<1>5. (\A i \in 1 .. m : k[i] = key[i]) => K \subseteq Sharing(f, key, m)
  <2> SUFFICES ASSUME \A i \in 1 .. m : k[i] = key[i], NEW l \in K
               PROVE  l \in Sharing(f, key, m)
    OBVIOUS
  <2>1. \A i \in 1 .. m : l[i] = key[i]
    BY <1>2, <1>3
  <2>2. l \in DOMAIN f
    BY <1>1
  <2> QED
    BY <2>1, <2>2 DEF Sharing
<1>6. Sharing(f, key, m) # {} => \A i \in 1 .. m : k[i] = key[i]
  <2> SUFFICES ASSUME NEW l \in Sharing(f, key, m), NEW i \in 1 .. m PROVE k[i] = key[i]
    OBVIOUS
  <2>1. l[i] = key[i]
    BY DEF Sharing
  <2>2. l \in K
    BY <1>4
  <2> QED
    BY <1>2, <1>3, <2>1, <2>2
<1> HIDE DEF K
<1> QED
  BY <1>3, <1>4, <1>5, <1>6 DEF K, Agree

\* Below a branch node are the keys that have one more nibble of the key.
LEMMA BranchShares ==
  ASSUME NEW f, NEW key, NEW n \in 0 .. 63
  PROVE  Sharing(f, key, n + 1) = Under(Sharing(f, key, n), n, key[n + 1])
<1>1. ASSUME NEW k \in DOMAIN f
      PROVE  (\A i \in 1 .. n + 1 : k[i] = key[i])
               <=> (\A i \in 1 .. n : k[i] = key[i]) /\ k[n + 1] = key[n + 1]
  <2>1. 1 .. n + 1 = (1 .. n) \cup {n + 1}
    OBVIOUS
  <2> QED
    BY <2>1
<1> QED
  BY <1>1 DEF Sharing, Under

\* The way goes on to a node.
LEMMA FurtherIs ==
  ASSUME NEW f, DOMAIN f \in SUBSET TrieKeys, NEW key \in TrieKeys, NEW n,
         IsNodeAt(f, key, n), GoesOn(f, key, n)
  PROVE  Further(f, key, n) > n /\ IsNodeAt(f, key, Further(f, key, n))
<1> DEFINE K == Sharing(f, key, n)
           m == Parting(K)
<1>0. n \in 0 .. 64 /\ Several(K) /\ n <= m /\ K # {}
  BY DEF IsNodeAt, GoesOn
<1>1. K \in SUBSET TrieKeys /\ m \in 0 .. 63
  BY <1>0, SharingIs, PartingIs
<1>2. Sharing(f, key, Further(f, key, n)) # {}
  BY DEF GoesOn
<1>3. CASE n < m
  <2>1. Further(f, key, n) = m
    BY <1>3 DEF Further
  <2>2. Sharing(f, key, m) = K
    <3>1. PICK k \in K : TRUE
      BY <1>0
    <3> QED
      BY <1>0, <1>2, <2>1, <3>1, ExtensionShares
  <2> QED
    BY <1>0, <1>1, <1>3, <2>1, <2>2 DEF IsNodeAt
<1>4. CASE ~ (n < m)
  <2>1. n = m /\ Further(f, key, n) = n + 1 /\ n \in 0 .. 63
    BY <1>0, <1>1, <1>4 DEF Further
  <2>2. Sharing(f, key, n + 1) = Under(K, n, key[n + 1])
    BY <2>1, BranchShares
  <2>3. Several(Sharing(f, key, n + 1)) => Parting(Sharing(f, key, n + 1)) >= n + 1
    BY <1>0, <1>1, <2>1, <2>2, UnderParts
  <2>4. Sharing(f, key, n + 1) \in SUBSET TrieKeys
    BY <1>1, <2>2 DEF Under
  <2>5. Several(Sharing(f, key, n + 1)) => Parting(Sharing(f, key, n + 1)) \in 0 .. 63
    BY <2>4, PartingIs
  <2> QED
    BY <1>2, <2>1, <2>3, <2>5 DEF IsNodeAt
<1> QED
  BY <1>3, <1>4

\* The three kinds of nodes.  A short one holds the nibbles of k from n up to m.
Short(k, n, m, isLeaf, x) == <<Compact(PartOf(k, n, m), isLeaf), x>>
LeafItems(k, n, x)         == Short(k, n, 64, TRUE, x)
ExtensionItems(k, n, m, x) == Short(k, n, m, FALSE, x)

\* A key of its own has a leaf.
LEMMA LeafIs ==
  ASSUME NEW f, NEW b, NEW K, NEW n, ~Several(K), NEW k \in K
  PROVE  Node(f, b, K, n) = ListOf(LeafItems(k, n, f[k]))
<1>1. (CHOOSE l \in K : TRUE) = k
  BY DEF Several
<1> QED
  BY <1>1 DEF Node, Short, LeafItems, PartOf

\* Keys that part here have a branch node.
LEMMA BranchIs ==
  ASSUME NEW f, DOMAIN f \in SUBSET TrieKeys, NEW K \in Crowds(f)
  PROVE  /\ Trie(f, K, Parting(K)) = Branches(f)[K]
         /\ Trie(f, K, Parting(K)) =
              ListOf([i \in 1 .. 17 |-> Child(f, Branches(f), K, i - 1)])
<1>1. Several(K) /\ Parting(K) \in 0 .. 63
  BY PartingIs DEF Crowds
<1>2. Trie(f, K, Parting(K)) = Branches(f)[K]
  BY <1>1 DEF Trie, Node
<1>3. Branches(f)[K] = BranchNode(f, Branches(f), K)
  BY BranchesAre
<1> QED
  BY <1>2, <1>3 DEF BranchNode

\* Keys that part further on have an extension node.
LEMMA ExtensionIs ==
  ASSUME NEW f, DOMAIN f \in SUBSET TrieKeys, NEW K \in Crowds(f), NEW n, n < Parting(K)
  PROVE  \E k \in K :
           Trie(f, K, n) = ListOf(ExtensionItems(k, n, Parting(K), Ref(Trie(f, K, Parting(K)))))
<1>1. Several(K)
  BY DEF Crowds
<1>2. PICK k \in K : k = CHOOSE l \in K : TRUE
  BY <1>1 DEF Several
<1>3. Trie(f, K, n) = ListOf(ExtensionItems(k, n, Parting(K), Ref(Branches(f)[K])))
  BY <1>1, <1>2 DEF Trie, Node, Short, ExtensionItems, PartOf
<1> QED
  BY <1>3, BranchIs

\* What the contract visits on the way of a key is a list.
LEMMA NodesAreLists ==
  ASSUME NEW f, DOMAIN f \in SUBSET TrieKeys, NEW key \in TrieKeys, NEW n,
         IsNodeAt(f, key, n)
  PROVE  IsListItem(NodeOn(f, key, n))
<1> DEFINE K == Sharing(f, key, n)
<1>1. n \in 0 .. 64 /\ K # {} /\ (Several(K) => n <= Parting(K)) /\ NodeOn(f, key, n) = Trie(f, K, n)
  BY DEF IsNodeAt, NodeOn
<1>2. Several(K) => K \in Crowds(f) /\ Parting(K) \in 0 .. 63
  BY <1>1, SharingIs, PartingIs
<1> HIDE DEF K
<1>3. CASE ~Several(K)
  <2>1. PICK k \in K : TRUE
    BY <1>1
  <2>2. Node(f, Branches(f), K, n) = ListOf(LeafItems(k, n, f[k]))
    BY <1>3, <2>1, LeafIs
  <2> QED
    BY <1>1, <2>2, ListIs DEF Trie
<1>4. CASE Several(K) /\ n < Parting(K)
  BY <1>1, <1>2, <1>4, ExtensionIs, ListIs
<1>5. CASE Several(K) /\ n = Parting(K)
  <2>1. NodeOn(f, key, n) = ListOf([i \in 1 .. 17 |-> Child(f, Branches(f), K, i - 1)])
    BY <1>1, <1>2, <1>5, BranchIs
  <2> QED
    BY <2>1, ListIs
<1> QED
  BY <1>1, <1>2, <1>3, <1>4, <1>5

LedTo(st, m, hash) == [st EXCEPT !.offset = m, !.hash = hash]

\* How a node leads the loop on.
LEMMA LedOn ==
  ASSUME NEW n, NEW h, NEW m, NEW x
  PROVE  LedTo(Before(n, h), m, x) = Before(m, x)
<1>1. [offset |-> m, hash |-> x, out |-> Going]
        = [[offset |-> m, hash |-> h, out |-> Going] EXCEPT !.hash = x]
  OBVIOUS
<1>2. [offset |-> m, hash |-> h, out |-> Going]
        = [[offset |-> n, hash |-> h, out |-> Going] EXCEPT !.offset = m]
  OBVIOUS
<1> QED
  BY <1>1, <1>2 DEF Before, LedTo

\* A leaf or an extension with the nibbles of k up to m.
LEMMA VisitShortIs ==
  ASSUME NEW key \in TrieKeys, NEW k \in TrieKeys, NEW n, n \in 0 .. 64,
         NEW m \in n .. 64, Agree(k, key, n),
         NEW isLeaf \in BOOLEAN, isLeaf => m = 64, NEW node, NEW x, node[2] = x,
         CompactDecode(node[1].bytes).isLeaf = isLeaf,
         CompactDecode(node[1].bytes).key = PartOf(k, n, m),
         NEW h, NEW isLast \in BOOLEAN
  PROVE  LET st == Before(n, h)
             v  == VisitShort(st, node, key, isLast)
             on == Agree(k, key, m)
         IN  /\ ~on => v.out = IF isLast THEN NoValue ELSE Revert
             /\ on /\ isLeaf => v.out = IF isLast THEN Value(x.bytes) ELSE Revert
             /\ on /\ ~isLeaf /\ isLast => v.out = Revert
             /\ on /\ ~isLeaf /\ ~isLast => v = Before(m, ChildHash(x))
<1> DEFINE st == Before(n, h)
           v  == VisitShort(st, node, key, isLast)
           on == Agree(k, key, m)
           ys == PartOf(k, n, m)
           p  == SharedPrefixLength(n, key, ys)
<1>1. ys \in Seq(0 .. 15) /\ Len(ys) = m - n /\ p \in 0 .. m - n /\ (p = m - n <=> on)
  BY SharedPart
<1>2. /\ CompactDecode(node[1].bytes).key = ys
      /\ CompactDecode(node[1].bytes).isLeaf = isLeaf
  OBVIOUS
<1>3. st.offset = n /\ st = [offset |-> n, hash |-> h, out |-> Going] /\ Len(key) = 64
  BY KeysAreSequences DEF Before
<1> HIDE DEF st, ys, p, on
<1>4. v = CASE p < m - n -> Ends(st, IF isLast THEN NoValue ELSE Revert)
            [] p = m - n /\ isLeaf ->
                 Ends(st, IF ~isLast THEN Revert
                          ELSE IF n + p < 64 THEN NoValue ELSE Value(x.bytes))
            [] OTHER -> IF isLast THEN Ends(st, Revert)
                        ELSE LedTo(st, n + p, ChildHash(x))
  BY <1>1, <1>2, <1>3, Zenon DEF VisitShort, LedTo, p
<1>5. \A o : Ends(st, o).out = o
  BY <1>3 DEF Ends
<1> HIDE DEF v
<1>6. CASE ~on
  <2>1. p < m - n /\ ~ (p = m - n /\ isLeaf)
    BY <1>1, <1>6
  <2>2. v = Ends(st, IF isLast THEN NoValue ELSE Revert)
    BY <1>4, <2>1, Zenon
  <2> QED
    BY <1>5, <1>6, <2>2 DEF v, on, st
<1>7. CASE on /\ isLeaf
  <2>1. ~ (p < m - n) /\ p = m - n /\ ~ (n + p < 64)
    BY <1>1, <1>7
  <2>2. v = Ends(st, IF ~isLast THEN Revert ELSE Value(x.bytes))
    BY <1>4, <1>7, <2>1, Zenon
  <2> QED
    BY <1>5, <1>7, <2>2 DEF v, on, st
<1>8. CASE on /\ ~isLeaf
  <2>1. ~ (p < m - n) /\ ~ (p = m - n /\ isLeaf) /\ n + p = m
    BY <1>1, <1>8
  <2>2. v = IF isLast THEN Ends(st, Revert) ELSE LedTo(st, m, ChildHash(x))
    BY <1>4, <2>1, Zenon
  <2>3. LedTo(st, m, ChildHash(x)) = Before(m, ChildHash(x))
    BY LedOn DEF st
  <2> QED
    BY <1>5, <1>8, <2>2, <2>3 DEF v, on, st
<1> QED
  BY <1>2, <1>6, <1>7, <1>8 DEF v, on, st
\* A branch node, one of whose children is on the way.
LEMMA VisitBranchIs ==
  ASSUME NEW key \in TrieKeys, NEW n, n \in 0 .. 63, NEW h, NEW isLast \in BOOLEAN,
         NEW child, NEW node, node[key[n + 1] + 1] = child
  PROVE  LET v == VisitBranch(Before(n, h), node, key, isLast)
         IN  /\ child.len = 1 => v.out = IF isLast THEN NoValue ELSE Revert
             /\ child.len # 1 => v = Before(n + 1, ChildHash(child))
<1> DEFINE st == Before(n, h)
           v  == VisitBranch(st, node, key, isLast)
<1>1. /\ st = [offset |-> n, hash |-> h, out |-> Going] /\ st.offset = n
      /\ Len(key) = 64 /\ n # 64
  BY KeysAreSequences DEF Before
<1> HIDE DEF st
<1>2. v = IF child.len = 1 THEN Ends(st, IF isLast THEN NoValue ELSE Revert)
          ELSE LedTo(st, st.offset + 1, ChildHash(child))
  BY <1>1, Zenon DEF VisitBranch, LedTo
<1>3. \A o : Ends(st, o).out = o
  BY <1>1 DEF Ends
<1>4. LedTo(st, st.offset + 1, ChildHash(child)) = Before(n + 1, ChildHash(child))
  BY <1>1, LedOn DEF st
<1> HIDE DEF v
<1> QED
  BY <1>2, <1>3, <1>4 DEF v, st

VisitItems(st, items, key, isLast) ==
  IF Len(items) = 2 THEN VisitShort(st, items, key, isLast)
  ELSE VisitBranch(st, items, key, isLast)

\* What the contract makes of the node n nibbles behind the root.
LeadsOn(f, key, n, v) ==
  v = Before(Further(f, key, n), ChildHash(Ref(NextNode(f, key, n))))

WayTurn(f, key, n, isLast, v) ==
  /\ GoesOn(f, key, n) => LeadsOn(f, key, n, v) \/ v.out \in {NoValue, Revert}
  /\ GoesOn(f, key, n) /\ ~isLast /\ ~IsShort(NextNode(f, key, n)) => LeadsOn(f, key, n, v)
  /\ ~GoesOn(f, key, n) /\ ~isLast => v.out = Revert
  /\ ~GoesOn(f, key, n) /\ isLast =>
       v.out = IF key \in DOMAIN f THEN Value(f[key].bytes) ELSE NoValue

\* At a leaf the contract takes the value, if the key is that of the leaf.
LEMMA VisitLeaf ==
  ASSUME NEW f, DOMAIN f \in SUBSET TrieKeys, NEW key \in TrieKeys, NEW n,
         IsNodeAt(f, key, n), ~Several(Sharing(f, key, n)), NEW h, NEW isLast \in BOOLEAN
  PROVE  WayTurn(f, key, n, isLast,
                 VisitItems(Before(n, h), NodeOn(f, key, n).items, key, isLast))
<1> DEFINE K == Sharing(f, key, n)
           v == VisitItems(Before(n, h), NodeOn(f, key, n).items, key, isLast)
<1>1. n \in 0 .. 64 /\ ~Several(K) /\ ~GoesOn(f, key, n)
  BY DEF IsNodeAt, GoesOn
<1>2. PICK k \in K : TRUE
  BY DEF IsNodeAt
<1>3. k \in TrieKeys /\ k \in DOMAIN f /\ Agree(k, key, n)
  <2>1. k \in DOMAIN f /\ \A i \in 1 .. n : k[i] = key[i]
    BY <1>2 DEF Sharing
  <2> QED
    BY <2>1 DEF Agree
<1>4. NodeOn(f, key, n) = ListOf(LeafItems(k, n, f[k]))
  BY <1>1, <1>2, LeafIs DEF NodeOn, Trie
<1>5. NodeOn(f, key, n).items = Short(k, n, 64, TRUE, f[k])
  BY <1>4, ListIs DEF LeafItems
<1>6. Len(NodeOn(f, key, n).items) = 2
  BY <1>5 DEF Short
<1>7. key \in DOMAIN f => key = k
  BY <1>1, <1>2, SharingIs DEF Several
<1>8. Agree(k, key, 64) <=> k = key
  BY <1>3 DEF Agree, TrieKeys
<1>9. v = VisitShort(Before(n, h), NodeOn(f, key, n).items, key, isLast)
  BY <1>6 DEF VisitItems
<1> HIDE DEF K, v
<1>11. /\ ~Agree(k, key, 64) => v.out = IF isLast THEN NoValue ELSE Revert
       /\ Agree(k, key, 64) => v.out = IF isLast THEN Value(f[k].bytes) ELSE Revert
  <2> DEFINE node == NodeOn(f, key, n).items
             c    == CompactDecode(node[1].bytes)
             x    == f[k]
  <2>1. node[2] = x /\ 64 \in n .. 64
    BY <1>1, <1>5 DEF Short
  <2>2. c.isLeaf = TRUE /\ c.key = PartOf(k, n, 64)
    <3>1. PartOf(k, n, 64) \in Seq(0 .. 15)
      BY <1>1, <1>3, <2>1, SharedPart
    <3>2. node[1] = Compact(PartOf(k, n, 64), TRUE)
      BY <1>5 DEF Short
    <3> QED
      BY <3>1, <3>2, CompactDecodes
  <2> HIDE DEF node, c, x
  <2>3. c = CompactDecode(node[1].bytes)
    BY DEF c
  <2>4. /\ ~Agree(k, key, 64) =>
             VisitShort(Before(n, h), node, key, isLast).out = IF isLast THEN NoValue ELSE Revert
        /\ Agree(k, key, 64) =>
             VisitShort(Before(n, h), node, key, isLast).out = IF isLast THEN Value(x.bytes) ELSE Revert
    <3> DEFINE yes == TRUE
    <3>1. /\ yes \in BOOLEAN /\ (yes => 64 = 64)
          /\ CompactDecode(node[1].bytes).isLeaf = yes
          /\ CompactDecode(node[1].bytes).key = PartOf(k, n, 64)
      BY <2>2, <2>3
    <3>2. k \in TrieKeys /\ Agree(k, key, n) /\ n \in 0 .. 64 /\ 64 \in n .. 64 /\ node[2] = x
      BY <1>1, <1>3, <2>1
    <3> HIDE DEF yes
    <3>3. /\ ~Agree(k, key, 64) =>
             VisitShort(Before(n, h), node, key, isLast).out = IF isLast THEN NoValue ELSE Revert
          /\ Agree(k, key, 64) /\ yes =>
             VisitShort(Before(n, h), node, key, isLast).out = IF isLast THEN Value(x.bytes) ELSE Revert
      BY <3>1, <3>2, VisitShortIs
    <3> QED
      BY <3>3 DEF yes
  <2> QED
    BY <1>9, <2>4 DEF node, x
<1>12. WayTurn(f, key, n, isLast, v)
  BY <1>1, <1>3, <1>7, <1>8, <1>11 DEF WayTurn
<1> QED
  BY <1>12 DEF v

\* At an extension it goes on, if the key has all of its nibbles.
LEMMA VisitExtension ==
  ASSUME NEW f, DOMAIN f \in SUBSET TrieKeys, NEW key \in TrieKeys, NEW n,
         IsNodeAt(f, key, n), Several(Sharing(f, key, n)), n < Parting(Sharing(f, key, n)),
         NEW h, NEW isLast \in BOOLEAN
  PROVE  WayTurn(f, key, n, isLast,
                 VisitItems(Before(n, h), NodeOn(f, key, n).items, key, isLast))
<1> DEFINE K == Sharing(f, key, n)
           m == Parting(K)
           node == NodeOn(f, key, n).items
           v == VisitItems(Before(n, h), node, key, isLast)
<1>1. n \in 0 .. 64 /\ n < m /\ Several(K)
  BY DEF IsNodeAt
<1>2. K \in Crowds(f) /\ m \in 0 .. 63 /\ K \in SUBSET TrieKeys
  BY <1>1, SharingIs, PartingIs
<1> DEFINE x == Ref(Trie(f, K, m))
<1>3. PICK k \in K : Trie(f, K, n) = ListOf(ExtensionItems(k, n, m, x))
  BY <1>1, <1>2, ExtensionIs
<1>4. k \in TrieKeys /\ Agree(k, key, n) /\ m \in n .. 64
  <2>1. \A i \in 1 .. n : k[i] = key[i]
    BY <1>3 DEF Sharing
  <2> QED
    BY <1>1, <1>2, <1>3, <2>1 DEF Agree
<1>5. node = Short(k, n, m, FALSE, x)
  BY <1>3, ListIs DEF ExtensionItems, NodeOn
<1>6. Further(f, key, n) = m /\ (GoesOn(f, key, n) <=> Sharing(f, key, m) # {})
  BY <1>1 DEF Further, GoesOn
<1>7. /\ Sharing(f, key, m) # {} <=> Agree(k, key, m)
      /\ Sharing(f, key, m) # {} => Sharing(f, key, m) = K
  <2> HIDE DEF x
  <2>1. n \in 0 .. 64 /\ Several(K) /\ n <= m /\ k \in K
    BY <1>1, <1>2, <1>3
  <2>2. Sharing(f, key, m) # {} => Agree(k, key, m)
    BY <2>1, ExtensionShares
  <2>3. Agree(k, key, m) => Sharing(f, key, m) # {}
    BY <2>1, ExtensionShares
  <2>4. Sharing(f, key, m) # {} => Sharing(f, key, m) = K
    BY <2>1, ExtensionShares
  <2> QED
    BY <2>2, <2>3, <2>4
<1>8. Agree(k, key, m) => Ref(NextNode(f, key, n)) = x
  BY <1>6, <1>7 DEF NextNode
<1>9. key \in DOMAIN f => Sharing(f, key, m) # {}
  BY DEF Sharing
<1>10. node[2] = x /\ Len(node) = 2 /\ node[1] = Compact(PartOf(k, n, m), FALSE)
  BY <1>5 DEF Short
<1>11. PartOf(k, n, m) \in Seq(0 .. 15)
  BY <1>1, <1>4, SharedPart
<1> DEFINE no == FALSE
<1>12. /\ no \in BOOLEAN /\ (no => m = 64) /\ ~no
       /\ CompactDecode(node[1].bytes).isLeaf = no
       /\ CompactDecode(node[1].bytes).key = PartOf(k, n, m)
  BY <1>10, <1>11, CompactDecodes
<1>13. v = VisitShort(Before(n, h), node, key, isLast)
  BY <1>10 DEF VisitItems
<1> HIDE DEF v, no, node, x, m, K
<1>14. /\ ~Agree(k, key, m) => v.out = IF isLast THEN NoValue ELSE Revert
       /\ Agree(k, key, m) /\ ~no /\ isLast => v.out = Revert
       /\ Agree(k, key, m) /\ ~no /\ ~isLast => v = Before(m, ChildHash(x))
  <2>1. n \in 0 .. 64 /\ k \in TrieKeys /\ Agree(k, key, n) /\ m \in n .. 64 /\ node[2] = x
    BY <1>1, <1>4, <1>10
  <2>2. /\ ~Agree(k, key, m) => VisitShort(Before(n, h), node, key, isLast).out = IF isLast THEN NoValue ELSE Revert
        /\ Agree(k, key, m) /\ ~no /\ isLast => VisitShort(Before(n, h), node, key, isLast).out = Revert
        /\ Agree(k, key, m) /\ ~no /\ ~isLast =>
             VisitShort(Before(n, h), node, key, isLast) = Before(m, ChildHash(x))
    BY <1>12, <2>1, VisitShortIs
  <2> QED
    BY <1>13, <2>2
<1>15. GoesOn(f, key, n) /\ ~isLast => LeadsOn(f, key, n, v)
  BY <1>6, <1>7, <1>8, <1>12, <1>14 DEF LeadsOn
<1>16. WayTurn(f, key, n, isLast, v)
  BY <1>6, <1>7, <1>9, <1>12, <1>14, <1>15 DEF WayTurn
<1> QED
  BY <1>16 DEF v, node

\* At a branch node it goes on to the child that the next nibble names.
LEMMA VisitBranchNode ==
  ASSUME NEW f, DOMAIN f \in SUBSET TrieKeys, NEW key \in TrieKeys, NEW n,
         IsNodeAt(f, key, n), Several(Sharing(f, key, n)), n = Parting(Sharing(f, key, n)),
         NEW h, NEW isLast \in BOOLEAN
  PROVE  WayTurn(f, key, n, isLast,
                 VisitItems(Before(n, h), NodeOn(f, key, n).items, key, isLast))
<1> DEFINE K == Sharing(f, key, n)
           L == Sharing(f, key, n + 1)
           node == NodeOn(f, key, n).items
           v == VisitItems(Before(n, h), node, key, isLast)
           child == Child(f, Branches(f), K, key[n + 1])
<1>1. K \in Crowds(f) /\ n \in 0 .. 63 /\ Several(K) /\ n = Parting(K)
  <2>1. n \in 0 .. 64
    BY DEF IsNodeAt
  <2> QED
    BY <2>1, SharingIs, PartingIs
<1>2. node = [i \in 1 .. 17 |-> Child(f, Branches(f), K, i - 1)]
  <2>1. NodeOn(f, key, n) = ListOf([i \in 1 .. 17 |-> Child(f, Branches(f), K, i - 1)])
    BY <1>1, BranchIs DEF NodeOn
  <2> QED
    BY <2>1, ListIs
<1>3. node[key[n + 1] + 1] = child /\ Len(node) = 17
  <2>1. key[n + 1] \in 0 .. 15
    BY <1>1 DEF TrieKeys
  <2>2. key[n + 1] + 1 \in 1 .. 17 /\ (key[n + 1] + 1) - 1 = key[n + 1]
    BY <2>1
  <2> QED
    BY <1>2, <2>2
<1>4. Further(f, key, n) = n + 1 /\ (GoesOn(f, key, n) <=> L # {})
  BY <1>1 DEF Further, GoesOn
<1>5. L = Under(K, Parting(K), key[n + 1])
  BY <1>1, BranchShares
<1>6. child = IF L = {} THEN EmptyStr ELSE Ref(NextNode(f, key, n))
  BY <1>1, <1>4, <1>5 DEF Child, NextNode, Trie
<1>7. EmptyStr.len = 1 /\ \A x : ~IsShort(x) => Ref(x).len # 1
  BY DEF EmptyStr, Ref, HashStr, Str, HeaderLen
<1>8. key \in DOMAIN f => L # {}
  BY DEF Sharing
<1>9. v = VisitBranch(Before(n, h), node, key, isLast)
  BY <1>3 DEF VisitItems
<1> HIDE DEF v, node, child, K, L
<1>10. /\ child.len = 1 => v.out = IF isLast THEN NoValue ELSE Revert
       /\ child.len # 1 => v = Before(n + 1, ChildHash(child))
  BY <1>1, <1>3, <1>9, VisitBranchIs
<1>11. L # {} /\ child.len # 1 => LeadsOn(f, key, n, v)
  BY <1>4, <1>6, <1>10 DEF LeadsOn
<1>12. L # {} /\ ~IsShort(NextNode(f, key, n)) => LeadsOn(f, key, n, v)
  BY <1>6, <1>7, <1>11
<1>13. v.out \in {NoValue, Revert} \/ child.len # 1
  BY <1>10
<1>14. WayTurn(f, key, n, isLast, v)
  BY <1>4, <1>6, <1>7, <1>8, <1>10, <1>11, <1>12, <1>13 DEF WayTurn
<1> QED
  BY <1>14 DEF v, node

\* So whatever the node is, the turn goes the way of the key.
LEMMA VisitNode ==
  ASSUME NEW f, DOMAIN f \in SUBSET TrieKeys, NEW key \in TrieKeys, NEW n,
         IsNodeAt(f, key, n), NEW h, NEW isLast \in BOOLEAN
  PROVE  WayTurn(f, key, n, isLast,
                 VisitItems(Before(n, h), NodeOn(f, key, n).items, key, isLast))
<1> DEFINE K == Sharing(f, key, n)
<1>1. CASE ~Several(K)
  BY <1>1, VisitLeaf
<1>2. CASE Several(K) /\ n < Parting(K)
  BY <1>2, VisitExtension
<1>3. CASE Several(K) /\ n = Parting(K)
  BY <1>3, VisitBranchNode
<1>4. Several(K) => n < Parting(K) \/ n = Parting(K)
  <2>1. n \in 0 .. 64 /\ (Several(K) => n <= Parting(K))
    BY DEF IsNodeAt
  <2>2. Several(K) => Parting(K) \in 0 .. 63
    BY <2>1, SharingIs, PartingIs
  <2> QED
    BY <2>1, <2>2
<1> QED
  BY <1>1, <1>2, <1>3, <1>4

----------------------------------------------------------------------------
(* Whole proofs. *)

\* s[i] is the state of the contract's loop after i nodes of the proof, r its outcome.
Reads(root, key, stack, s, r) ==
  /\ s[0] = Before(0, root)
  /\ \A i \in 1 .. Len(stack) : s[i] = Visit(key, root, stack, s[i - 1], i)
  /\ r = IF s[Len(stack)].out = Going THEN NoValue ELSE s[Len(stack)].out

\* What the contract extracts is what the last turn of its loop leaves.
LEMMA ExtractIs ==
  ASSUME NEW root, NEW key, NEW stack, Len(stack) \in Nat, stack # <<>>
  PROVE  \E s : Reads(root, key, stack, s, ExtractProofValue(root, key, stack))
<1> DEFINE p == <<key, root, stack>>
           n == Len(stack)
           P(f) == f = [i \in 0 .. n |-> IF i = 0 THEN [offset |-> 0, hash |-> root, out |-> Going]
                                         ELSE Visit(key, root, stack, f[i - 1], i)]
           s == CHOOSE f : P(f)
<1>1. PICK f : OnlyRun("visit", p, Before(0, root), f, n)
  BY FiniteRunExists
<1>2. \A k, v : LoopTurn("visit", p, k, v) = Visit(key, root, stack, v, k)
  BY DEF LoopTurn
<1>3. P(f)
  <2>1. f = [i \in 0 .. n |-> IF i = 0 THEN Before(0, root)
                              ELSE LoopTurn("visit", p, i, f[i - 1])]
    BY <1>1 DEF OnlyRun, Runs
  <2> HIDE DEF p
  <2> QED
    BY <1>2, <2>1 DEF Before
<1>4. ExtractProofValue(root, key, stack) = IF s[n].out = Going THEN NoValue ELSE s[n].out
  BY Zenon DEF ExtractProofValue
<1> HIDE DEF P
<1>5. P(s)
  BY <1>3
<1> HIDE DEF s
<1>6. s = [i \in 0 .. n |-> IF i = 0 THEN [offset |-> 0, hash |-> root, out |-> Going]
                            ELSE Visit(key, root, stack, s[i - 1], i)]
  BY <1>5 DEF P
<1>7. s[0] = Before(0, root)
  <2>1. 0 \in 0 .. n
    OBVIOUS
  <2> QED
    BY <1>6, <2>1 DEF Before
<1>8. \A i \in 1 .. n : s[i] = Visit(key, root, stack, s[i - 1], i)
  <2>1. \A i \in 1 .. n : i \in 0 .. n /\ i # 0
    OBVIOUS
  <2> QED
    BY <1>6, <2>1
<1> QED
  BY <1>4, <1>7, <1>8 DEF Reads

\* The outcomes of the loop are told apart.
LEMMA Outcomes ==
  /\ Going # Revert /\ \A b : Going # Value(b)
  /\ NoValue # Going /\ ~NoValue.revert /\ Revert.revert
  /\ ~HasValue(NoValue) /\ ~HasValue(Revert)
  /\ \A b : ~Value(b).revert /\ Value(b).bytes = b /\ Value(b) # Revert
<1>1. "going" \in DOMAIN Going /\ "going" \notin DOMAIN Revert /\ \A b : "going" \notin DOMAIN Value(b)
  BY DEF Going, Revert, Value
<1>2. \A b : ~Value(b).revert /\ Value(b).bytes = b
  BY DEF Value
<1>3. Revert.revert
  BY DEF Revert
<1> QED
  BY <1>1, <1>2, <1>3 DEF NoValue, HasValue

\* The hash that leads to the node n nibbles behind the root.
HashTo(f, key, n) == ChildHash(Ref(NodeOn(f, key, n)))

\* The hash check lets one node pass.
LEMMA RootLeads ==
  ASSUME NEW f, DOMAIN f \in SUBSET TrieKeys, NEW key \in TrieKeys, NEW node, IsListItem(node)
  PROVE  /\ KeccakRlp(node) = TrieRoot(f) => IsNodeAt(f, key, 0) /\ node = NodeOn(f, key, 0)
         /\ DOMAIN f # {} => IsNodeAt(f, key, 0) /\ KeccakRlp(NodeOn(f, key, 0)) = TrieRoot(f)
<1>1. \A x, y : KeccakRlp(x) = KeccakRlp(y) => x = y
  BY \A x : KeccakRlp(x).keccakRlp = x DEF KeccakRlp
<1>2. Sharing(f, key, 0) = DOMAIN f
  BY DEF Sharing
<1>3. DOMAIN f # {} => IsNodeAt(f, key, 0) /\ TrieRoot(f) = KeccakRlp(NodeOn(f, key, 0))
  <2> SUFFICES ASSUME DOMAIN f # {}
               PROVE  IsNodeAt(f, key, 0) /\ TrieRoot(f) = KeccakRlp(NodeOn(f, key, 0))
    OBVIOUS
  <2>1. TrieRoot(f) = KeccakRlp(NodeOn(f, key, 0))
    BY <1>2 DEF TrieRoot, NodeOn
  <2>2. Several(DOMAIN f) => Parting(DOMAIN f) \in 0 .. 63
    BY PartingIs
  <2> QED
    BY <1>2, <2>1, <2>2 DEF IsNodeAt
<1>4. node # EmptyStr
  BY StringIs DEF EmptyStr
<1>5. DOMAIN f = {} => KeccakRlp(node) # TrieRoot(f)
  BY <1>1, <1>4 DEF TrieRoot, EmptyTrie
<1> QED
  BY <1>1, <1>3, <1>5

\* The contract has the hash of node i of the proof, that of the root for the first.
Leads(root, stack, st, i) ==
  IF i = 1 THEN KeccakRlp(stack[i]) = root ELSE MptHashHash(stack[i]) = st.hash

\* A node is visited only if it has the hash that the one before leads to.
LEMMA VisitIs ==
  ASSUME NEW key, NEW root, NEW stack, NEW st, NEW i,
         NEW isLast \in BOOLEAN, isLast <=> i = Len(stack)
  PROVE  LET v == Visit(key, root, stack, st, i)
         IN  /\ st.out # Going => v = st
             /\ st.out = Going /\ ~Leads(root, stack, st, i) => v = Ends(st, Revert)
             /\ st.out = Going /\ Leads(root, stack, st, i) =>
                  v = VisitItems(st, stack[i].items, key, isLast)
<1> DEFINE v == Visit(key, root, stack, st, i)
           bad == IF i = 1 THEN KeccakRlp(stack[i]) # root ELSE MptHashHash(stack[i]) # st.hash
           items == stack[i].items
<1>1. bad <=> ~Leads(root, stack, st, i)
  BY DEF Leads
<1>2. CASE isLast
  <2>1. (i = Len(stack)) = TRUE
    BY <1>2
  <2>2. v = CASE st.out # Going -> st
              [] st.out = Going /\ bad -> Ends(st, Revert)
              [] OTHER -> IF Len(items) = 2 THEN VisitShort(st, items, key, TRUE)
                          ELSE VisitBranch(st, items, key, TRUE)
    BY <2>1, Zenon DEF Visit
  <2>3. isLast = TRUE
    BY <1>2
  <2> HIDE DEF v, bad, items
  <2>4. st.out # Going => v = st
    BY <2>2, Zenon
  <2>5. st.out = Going /\ bad => v = Ends(st, Revert)
    BY <2>2, Zenon
  <2>6. st.out = Going /\ ~bad => v = VisitItems(st, items, key, TRUE)
    BY <2>2, Zenon DEF VisitItems
  <2> QED
    BY <1>1, <2>3, <2>4, <2>5, <2>6, Zenon DEF v, items
<1>3. CASE ~isLast
  <2>1. (i = Len(stack)) = FALSE
    BY <1>3
  <2>2. v = CASE st.out # Going -> st
              [] st.out = Going /\ bad -> Ends(st, Revert)
              [] OTHER -> IF Len(items) = 2 THEN VisitShort(st, items, key, FALSE)
                          ELSE VisitBranch(st, items, key, FALSE)
    BY <2>1, Zenon DEF Visit
  <2>3. isLast = FALSE
    BY <1>3
  <2> HIDE DEF v, bad, items
  <2>4. st.out # Going => v = st
    BY <2>2, Zenon
  <2>5. st.out = Going /\ bad => v = Ends(st, Revert)
    BY <2>2, Zenon
  <2>6. st.out = Going /\ ~bad => v = VisitItems(st, items, key, FALSE)
    BY <2>2, Zenon DEF VisitItems
  <2> QED
    BY <1>1, <2>3, <2>4, <2>5, <2>6, Zenon DEF v, items
<1> QED
  BY <1>2, <1>3

\* What the contract may say of a key: nothing, or what the trie has.
Sound(f, key, r) ==
  r \in {NoValue, Revert} \/ (key \in DOMAIN f /\ r = Value(f[key].bytes))

\* The state after i nodes of a proof: it has come to a node of the trie, or it ends.
Reached(f, key, i, st) ==
  \/ i = 0 /\ st = Before(0, TrieRoot(f))
  \/ i # 0 /\ \E n : IsNodeAt(f, key, n) /\ st = Before(n, HashTo(f, key, n))
  \/ st.out # Going /\ Sound(f, key, st.out)

\* How the loop invariant is established.
LEMMA ReachedIs ==
  ASSUME NEW f, NEW key, NEW i, i # 0
  PROVE  /\ \A n : IsNodeAt(f, key, n) => Reached(f, key, i, Before(n, HashTo(f, key, n)))
         /\ \A st : st.out # Going /\ Sound(f, key, st.out) => Reached(f, key, i, st)
BY DEF Reached

\* A turn keeps the loop invariant, whatever the proof has at its place.
LEMMA ReachesOn ==
  ASSUME NEW f, DOMAIN f \in SUBSET TrieKeys, NEW key \in TrieKeys, NEW stack,
         NEW i, i \in Nat, IsListItem(stack[i + 1]), NEW st, Reached(f, key, i, st)
  PROVE  Reached(f, key, i + 1, Visit(key, TrieRoot(f), stack, st, i + 1))
<1> DEFINE root == TrieRoot(f)
           v == Visit(key, root, stack, st, i + 1)
<1>1. PICK isLast \in BOOLEAN : isLast <=> i + 1 = Len(stack)
  <2>1. CASE i + 1 = Len(stack)
    BY <2>1
  <2>2. CASE i + 1 # Len(stack)
    BY <2>2
  <2> QED
    BY <2>1, <2>2
<1>2. /\ st.out # Going => v = st
      /\ st.out = Going /\ ~Leads(root, stack, st, i + 1) => v = Ends(st, Revert)
      /\ st.out = Going /\ Leads(root, stack, st, i + 1) =>
           v = VisitItems(st, stack[i + 1].items, key, isLast)
  BY <1>1, VisitIs
<1>3. i + 1 # 0 /\ (i = 0 <=> i + 1 = 1)
  OBVIOUS
<1>4. \A n, h : Before(n, h).out = Going /\ Before(n, h).hash = h /\ Ends(Before(n, h), Revert).out = Revert
  BY DEF Before, Ends
<1>0. SUFFICES Reached(f, key, i + 1, v)
  OBVIOUS
<1> HIDE DEF v
<1>5. CASE st.out # Going
  <2>1. Sound(f, key, st.out)
    BY <1>4, <1>5 DEF Reached
  <2> QED
    BY <1>2, <1>3, <1>5, <2>1, ReachedIs
<1>6. CASE st.out = Going
  <2>1. PICK n, h : st = Before(n, h) /\ (i = 0 => n = 0)
                    /\ (i # 0 => IsNodeAt(f, key, n) /\ h = HashTo(f, key, n))
    BY <1>6 DEF Reached
  <2>2. CASE ~Leads(root, stack, st, i + 1)
    <3>1. v.out = Revert
      BY <1>2, <1>4, <1>6, <2>1, <2>2
    <3> QED
      BY <1>3, <3>1, Outcomes, ReachedIs DEF Sound
  <2>3. CASE Leads(root, stack, st, i + 1)
    <3>1. IsNodeAt(f, key, n) /\ stack[i + 1] = NodeOn(f, key, n)
      <4>1. CASE i = 0
        <5>1. KeccakRlp(stack[i + 1]) = TrieRoot(f)
          BY <1>3, <2>3, <4>1 DEF Leads
        <5> QED
          BY <2>1, <4>1, <5>1, RootLeads
      <4>2. CASE i # 0
        <5>1. MptHashHash(stack[i + 1]) = HashTo(f, key, n) /\ IsNodeAt(f, key, n)
          BY <1>3, <1>4, <2>1, <2>3, <4>2 DEF Leads
        <5>2. IsListItem(NodeOn(f, key, n))
          BY <5>1, NodesAreLists
        <5> QED
          BY <5>1, <5>2, HashLeads DEF HashTo
      <4> QED
        BY <4>1, <4>2
    <3>2. v = VisitItems(Before(n, h), NodeOn(f, key, n).items, key, isLast)
      BY <1>2, <1>6, <2>1, <2>3, <3>1
    <3>3. WayTurn(f, key, n, isLast, v)
      BY <3>1, <3>2, VisitNode
    <3>4. CASE GoesOn(f, key, n) /\ LeadsOn(f, key, n, v)
      <4>1. IsNodeAt(f, key, Further(f, key, n))
        BY <3>1, <3>4, FurtherIs
      <4>2. v = Before(Further(f, key, n), HashTo(f, key, Further(f, key, n)))
        BY <3>4 DEF LeadsOn, HashTo, NextNode, NodeOn
      <4> QED
        BY <1>3, <4>1, <4>2, ReachedIs
    <3>5. CASE GoesOn(f, key, n) /\ ~LeadsOn(f, key, n, v)
      <4>1. v.out \in {NoValue, Revert}
        BY <3>3, <3>5 DEF WayTurn
      <4>2. v.out # Going /\ Sound(f, key, v.out)
        BY <4>1, Outcomes DEF Sound
      <4> QED
        BY <1>3, <4>2, ReachedIs
    <3>6. CASE ~GoesOn(f, key, n)
      <4>1. \/ v.out \in {NoValue, Revert}
            \/ key \in DOMAIN f /\ v.out = Value(f[key].bytes)
        BY <3>3, <3>6 DEF WayTurn
      <4>2. v.out # Going /\ Sound(f, key, v.out)
        BY <4>1, Outcomes DEF Sound
      <4> QED
        BY <1>3, <4>2, ReachedIs
    <3> QED
      BY <3>4, <3>5, <3>6
  <2> QED
    BY <2>2, <2>3
<1> QED
  BY <1>5, <1>6

\* Whatever nodes a proof consists of, in any number and order, what the contract
\* takes out of it under the root of a trie is what the trie has for the key.
THEOREM AnyProofIsSound ==
  ASSUME NEW f, DOMAIN f \in SUBSET TrieKeys, NEW key \in TrieKeys,
         NEW stack, Len(stack) \in Nat, \A i \in 1 .. Len(stack) : IsListItem(stack[i])
  PROVE  HasValue(ExtractProofValue(TrieRoot(f), key, stack)) =>
           /\ key \in DOMAIN f
           /\ ExtractProofValue(TrieRoot(f), key, stack) = Value(f[key].bytes)
<1> DEFINE r == ExtractProofValue(TrieRoot(f), key, stack)
<1> SUFFICES ASSUME HasValue(r) PROVE key \in DOMAIN f /\ r = Value(f[key].bytes)
  OBVIOUS
<1>1. CASE stack = <<>>
  <2>1. r = NoValue \/ r = Revert
    BY <1>1 DEF ExtractProofValue
  <2> HIDE DEF r
  <2>2. ~HasValue(r)
    BY <2>1, Outcomes
  <2> QED
    BY <2>2 DEF r
<1>2. CASE stack # <<>>
  <2>1. PICK s : Reads(TrieRoot(f), key, stack, s, r)
    BY <1>2, ExtractIs
  <2> HIDE DEF r
  <2> DEFINE Good(i) == i <= Len(stack) => Reached(f, key, i, s[i])
             T == {i \in Nat : Good(i)}
  <2>2. 0 \in T
    BY <2>1 DEF Reads, Reached
  <2>3. ASSUME NEW i \in T PROVE i + 1 \in T
    <3> SUFFICES ASSUME i + 1 <= Len(stack) PROVE Reached(f, key, i + 1, s[i + 1])
      OBVIOUS
    <3>1. i \in Nat /\ i + 1 \in 1 .. Len(stack) /\ (i + 1) - 1 = i
      OBVIOUS
    <3>2. Reached(f, key, i, s[i])
      BY <3>1
    <3>3. s[i + 1] = Visit(key, TrieRoot(f), stack, s[i], i + 1)
      BY <2>1, <3>1 DEF Reads
    <3>4. IsListItem(stack[i + 1])
      BY <3>1
    <3> QED
      BY <3>1, <3>2, <3>3, <3>4, ReachesOn
  <2> HIDE DEF T
  <2>4. T = Nat
    BY <2>2, <2>3, SetOfNaturals DEF T
  <2>5. Good(Len(stack))
    BY <2>4 DEF T
  <2> DEFINE st == s[Len(stack)]
  <2>6. Reached(f, key, Len(stack), st)
    BY <2>5
  <2> HIDE DEF st
  <2>7. st.out # Going => Sound(f, key, st.out)
    <3>1. \A n, h : Before(n, h).out = Going
      BY DEF Before
    <3> QED
      BY <2>6, <3>1 DEF Reached
  <2>8. r = IF st.out = Going THEN NoValue ELSE st.out
    BY <2>1 DEF Reads, st
  <2>9. HasValue(r) => key \in DOMAIN f /\ r = Value(f[key].bytes)
    BY <2>7, <2>8, Outcomes DEF Sound
  <2> QED
    BY <2>9 DEF r
<1> QED
  BY <1>1, <1>2

----------------------------------------------------------------------------
(* The proofs of an Ethereum node. *)

\* way[i] tells how many nibbles the node i + 1 of a proof is behind.
IsWay(f, key, way) ==
  /\ way[0] = 0
  /\ \A i \in Nat : way[i + 1] = Below(f, key, way[i])

\* The nodes of the proof, as many as the way has.
Nodes(f, key, way, n) ==
  /\ n \in 1 .. 65 /\ way[n] = NoNode
  /\ \A i \in 0 .. n - 1 : way[i] # NoNode /\ IsNodeAt(f, key, way[i])

\* The next node of a proof is further down.
LEMMA BelowIs ==
  ASSUME NEW f, DOMAIN f \in SUBSET TrieKeys, NEW key \in TrieKeys, NEW n, IsNodeAt(f, key, n)
  PROVE  \/ Below(f, key, n) = NoNode
         \/ /\ Below(f, key, n) > n /\ IsNodeAt(f, key, Below(f, key, n))
            /\ Below(f, key, n) = Further(f, key, n)
            /\ GoesOn(f, key, n) /\ ~IsShort(NextNode(f, key, n))
BY FurtherIs DEF Below

\* So the proof has an end: a key has 64 nibbles.
LEMMA WayEnds ==
  ASSUME NEW f, DOMAIN f \in SUBSET TrieKeys, DOMAIN f # {}, NEW key \in TrieKeys,
         NEW way, IsWay(f, key, way)
  PROVE  \E n : Nodes(f, key, way, n)
<1> DEFINE S == {i \in Nat : way[i] = NoNode}
           Good(i) == (\A j \in 0 .. i : way[j] # NoNode) => IsNodeAt(f, key, way[i]) /\ way[i] >= i
           T == {i \in Nat : Good(i)}
<1>1. 0 \in T
  <2>1. IsNodeAt(f, key, 0)
    BY RootLeads, ListIs
  <2> QED
    BY <2>1 DEF IsWay
<1>2. ASSUME NEW i \in T PROVE i + 1 \in T
  <2> SUFFICES ASSUME \A j \in 0 .. i + 1 : way[j] # NoNode
               PROVE  IsNodeAt(f, key, way[i + 1]) /\ way[i + 1] >= i + 1
    OBVIOUS
  <2>1. i \in Nat /\ i + 1 \in 0 .. i + 1
    OBVIOUS
  <2>2. IsNodeAt(f, key, way[i]) /\ way[i] >= i
    BY <2>1
  <2>3. way[i + 1] = Below(f, key, way[i]) /\ way[i + 1] # NoNode
    BY <2>1 DEF IsWay
  <2>4. IsNodeAt(f, key, way[i + 1]) /\ way[i + 1] > way[i]
    BY <2>2, <2>3, BelowIs
  <2>5. way[i] \in 0 .. 64 /\ way[i + 1] \in 0 .. 64
    BY <2>2, <2>4 DEF IsNodeAt
  <2> QED
    BY <2>1, <2>2, <2>4, <2>5
<1> HIDE DEF T
<1>3. T = Nat
  BY <1>1, <1>2, SetOfNaturals DEF T
<1>4. \A i \in Nat : Good(i)
  BY <1>3 DEF T
<1>5. \E i \in 0 .. 65 : way[i] = NoNode
  <2> SUFFICES ASSUME \A i \in 0 .. 65 : way[i] # NoNode PROVE FALSE
    OBVIOUS
  <2>1. IsNodeAt(f, key, way[65]) /\ way[65] >= 65
    BY <1>4
  <2> QED
    BY <2>1 DEF IsNodeAt
<1>6. S # {} /\ S \subseteq Nat
  BY <1>5
<1>7. PICK n \in S : \A j \in S : n <= j
  BY <1>6, LeastElement
<1>8. n \in 1 .. 65 /\ way[n] = NoNode
  <2>1. way[0] # NoNode
    BY DEF IsWay, NoNode
  <2> QED
    BY <1>5, <1>7, <2>1
<1>9. ASSUME NEW i \in 0 .. n - 1 PROVE way[i] # NoNode /\ IsNodeAt(f, key, way[i])
  <2>1. i \in Nat /\ \A j \in 0 .. i : j \in Nat /\ ~ (n <= j)
    BY <1>8
  <2>2. \A j \in 0 .. i : way[j] # NoNode
    BY <1>7, <2>1
  <2>3. Good(i)
    BY <1>4, <2>1
  <2> QED
    BY <2>1, <2>2, <2>3
<1> QED
  BY <1>8, <1>9 DEF Nodes

\* The nodes of a proof are those that the key leads along.
LEMMA ProveIs ==
  ASSUME NEW f, DOMAIN f \in SUBSET TrieKeys, DOMAIN f # {}, NEW key \in TrieKeys
  PROVE  \E way, n : /\ IsWay(f, key, way) /\ Nodes(f, key, way, n)
                     /\ Prove(f, key) = [i \in 1 .. n |-> NodeOn(f, key, way[i - 1])]
<1> DEFINE P(g) == g = [i \in Nat |-> IF i = 0 THEN 0 ELSE Below(f, key, g[i - 1])]
           way == CHOOSE g : P(g)
           Q(g, n) == g[n] = NoNode /\ \A i \in 0 .. n - 1 : g[i] # NoNode
           nodes == CHOOSE n \in 1 .. 65 : Q(way, n)
<1>1. \E g : P(g)
  <2>1. PICK g : Runs("way", <<f, key>>, 0, g, Nat)
    BY RunExists
  <2>2. \A k, v : LoopTurn("way", <<f, key>>, k, v) = Below(f, key, v)
    BY DEF LoopTurn
  <2>3. g = [i \in Nat |-> IF i = 0 THEN 0 ELSE LoopTurn("way", <<f, key>>, i, g[i - 1])]
    BY <2>1 DEF Runs
  <2>4. P(g)
    BY <2>2, <2>3
  <2> QED
    BY <2>4
<1>2. Prove(f, key) = [i \in 1 .. nodes |-> Trie(f, Sharing(f, key, way[i - 1]), way[i - 1])]
  BY Zenon DEF Prove
<1> HIDE DEF P
<1>3. P(way)
  BY <1>1
<1> HIDE DEF way
<1>4. way = [i \in Nat |-> IF i = 0 THEN 0 ELSE Below(f, key, way[i - 1])]
  BY <1>3 DEF P
<1>5. IsWay(f, key, way)
  <2>1. way[0] = 0
    BY <1>4
  <2>2. ASSUME NEW i \in Nat PROVE way[i + 1] = Below(f, key, way[i])
    <3>1. i + 1 \in Nat /\ i + 1 # 0 /\ (i + 1) - 1 = i
      OBVIOUS
    <3> QED
      BY <1>4, <3>1
  <2> QED
    BY <2>1, <2>2 DEF IsWay
<1>6. PICK n : Nodes(f, key, way, n)
  BY <1>5, WayEnds
<1>7. n \in 1 .. 65 /\ Q(way, n)
  BY <1>6 DEF Nodes
<1>8. nodes = n
  <2>1. ASSUME NEW l \in 1 .. 65, Q(way, l) PROVE l = n
    <3>1. ~ (l < n)
      <4>1. l < n => l \in 0 .. n - 1
        BY <1>7
      <4> QED
        BY <1>7, <2>1, <4>1
    <3>2. ~ (n < l)
      <4>1. n < l => n \in 0 .. l - 1
        BY <1>7
      <4> QED
        BY <1>7, <2>1, <4>1
    <3> QED
      BY <1>7, <3>1, <3>2
  <2> HIDE DEF Q
  <2> QED
    BY <1>7, <2>1
<1> HIDE DEF nodes
<1>9. Prove(f, key) = [i \in 1 .. n |-> NodeOn(f, key, way[i - 1])]
  BY <1>2, <1>8 DEF NodeOn
<1> QED
  BY <1>5, <1>6, <1>9

\* The state after i nodes of the proof.
Follows(f, key, way, i, st) ==
  \E h : st = Before(way[i], h)
           /\ h = IF i = 0 THEN TrieRoot(f) ELSE HashTo(f, key, way[i])

\* What the contract takes out of the proof that a node made for a key.
Answer(f, key) == IF key \in DOMAIN f THEN Value(f[key].bytes) ELSE NoValue

\* The proof of a node leads the contract down to where the way to the key ends, and
\* there it finds the value or that there is none.
THEOREM OwnProofIsComplete ==
  ASSUME NEW f, DOMAIN f \in SUBSET TrieKeys, NEW key \in TrieKeys, ~Embedded(f, key)
  PROVE  ExtractProofValue(TrieRoot(f), key, Prove(f, key)) = Answer(f, key)
<1> DEFINE root == TrieRoot(f)
           stack == Prove(f, key)
           r == ExtractProofValue(root, key, stack)
<1>1. CASE DOMAIN f = {}
  <2>1. stack = <<>> /\ root = EmptyTrie
    BY <1>1 DEF Prove, TrieRoot
  <2>2. r = NoValue
    BY <2>1 DEF ExtractProofValue
  <2> HIDE DEF r
  <2> QED
    BY <1>1, <2>2 DEF Answer, r
<1>2. CASE DOMAIN f # {}
  <2>1. PICK way, n : /\ IsWay(f, key, way) /\ Nodes(f, key, way, n)
                      /\ stack = [i \in 1 .. n |-> NodeOn(f, key, way[i - 1])]
    BY <1>2, ProveIs
  <2> HIDE DEF stack
  <2>2. n \in 1 .. 65 /\ Len(stack) = n /\ stack # <<>>
    BY <2>1 DEF Nodes
  <2>3. PICK s : Reads(root, key, stack, s, r)
    BY <2>2, ExtractIs
  <2> HIDE DEF r
  <2>4. ASSUME NEW i \in 0 .. n - 1, Follows(f, key, way, i, s[i])
        PROVE  \E isLast \in BOOLEAN : /\ isLast <=> i + 1 = n
                                       /\ WayTurn(f, key, way[i], isLast, s[i + 1])
    <3>1. PICK h : /\ s[i] = Before(way[i], h)
                   /\ h = IF i = 0 THEN TrieRoot(f) ELSE HashTo(f, key, way[i])
      BY <2>4 DEF Follows
    <3>2. IsNodeAt(f, key, way[i])
      BY <2>1 DEF Nodes
    <3>3. i \in Nat /\ i + 1 \in 1 .. n /\ (i + 1) - 1 = i /\ (i = 0 <=> i + 1 = 1)
      BY <2>2
    <3>4. stack[i + 1] = NodeOn(f, key, way[i])
      BY <2>1, <3>3
    <3>5. s[i + 1] = Visit(key, root, stack, s[i], i + 1)
      BY <2>2, <2>3, <3>3 DEF Reads
    <3>6. PICK isLast \in BOOLEAN : isLast <=> i + 1 = n
      <4>1. CASE i + 1 = n
        BY <4>1
      <4>2. CASE i + 1 # n
        BY <4>2
      <4> QED
        BY <4>1, <4>2
    <3>7. s[i].out = Going /\ s[i].hash = h
      BY <3>1 DEF Before
    <3>8. Leads(root, stack, s[i], i + 1)
      <4>1. CASE i = 0
        <5>1. way[i] = 0
          BY <2>1, <4>1 DEF IsWay
        <5>2. IsListItem(NodeOn(f, key, 0))
          BY <3>2, <5>1, NodesAreLists
        <5>3. KeccakRlp(NodeOn(f, key, 0)) = TrieRoot(f)
          BY <1>2, <5>2, RootLeads
        <5> QED
          BY <3>3, <3>4, <4>1, <5>1, <5>3 DEF Leads
      <4>2. CASE i # 0
        <5>1. IsListItem(NodeOn(f, key, way[i]))
          BY <3>2, NodesAreLists
        <5>2. MptHashHash(NodeOn(f, key, way[i])) = HashTo(f, key, way[i])
          BY <5>1, HashLeads DEF HashTo
        <5> QED
          BY <3>1, <3>3, <3>4, <3>7, <4>2, <5>2 DEF Leads
      <4> QED
        BY <4>1, <4>2
    <3>9. s[i + 1] = VisitItems(s[i], stack[i + 1].items, key, isLast)
      BY <2>2, <3>5, <3>6, <3>7, <3>8, VisitIs
    <3>10. WayTurn(f, key, way[i], isLast, s[i + 1])
      BY <3>1, <3>2, <3>4, <3>9, VisitNode
    <3> QED
      BY <3>6, <3>10
  <2>5. ASSUME NEW i \in Nat, i < n - 1, Follows(f, key, way, i, s[i])
        PROVE  Follows(f, key, way, i + 1, s[i + 1])
    <3>1. i \in 0 .. n - 1 /\ i + 1 \in 0 .. n - 1 /\ i + 1 # n /\ i + 1 # 0
      BY <2>2, <2>5
    <3>2. WayTurn(f, key, way[i], FALSE, s[i + 1])
      BY <2>4, <2>5, <3>1
    <3>3. way[i + 1] = Below(f, key, way[i]) /\ way[i + 1] # NoNode /\ IsNodeAt(f, key, way[i])
      BY <2>1, <3>1 DEF IsWay, Nodes
    <3>4. /\ way[i + 1] = Further(f, key, way[i])
          /\ GoesOn(f, key, way[i]) /\ ~IsShort(NextNode(f, key, way[i]))
      BY <3>3, BelowIs
    <3>5. LeadsOn(f, key, way[i], s[i + 1])
      BY <3>2, <3>4 DEF WayTurn
    <3>6. s[i + 1] = Before(way[i + 1], HashTo(f, key, way[i + 1]))
      BY <3>4, <3>5 DEF LeadsOn, HashTo, NextNode, NodeOn
    <3> QED
      BY <3>1, <3>6 DEF Follows
  <2> DEFINE Good(i) == i <= n - 1 => Follows(f, key, way, i, s[i])
             T == {i \in Nat : Good(i)}
  <2>6. 0 \in T
    BY <2>1, <2>3 DEF Follows, IsWay, Reads
  <2>7. ASSUME NEW i \in T PROVE i + 1 \in T
    <3> SUFFICES ASSUME i + 1 <= n - 1 PROVE Follows(f, key, way, i + 1, s[i + 1])
      OBVIOUS
    <3>1. i \in Nat /\ i < n - 1 /\ i <= n - 1
      BY <2>2
    <3> QED
      BY <2>5, <3>1
  <2> HIDE DEF T
  <2>8. T = Nat
    BY <2>6, <2>7, SetOfNaturals DEF T
  <2>9. n - 1 \in Nat /\ n - 1 <= n - 1 /\ (n - 1) + 1 = n /\ n - 1 \in 0 .. n - 1
    BY <2>2
  <2>10. Follows(f, key, way, n - 1, s[n - 1])
    BY <2>8, <2>9 DEF T
  <2>11. WayTurn(f, key, way[n - 1], TRUE, s[n])
    BY <2>4, <2>9, <2>10
  <2>12. ~GoesOn(f, key, way[n - 1])
    <3> SUFFICES ASSUME GoesOn(f, key, way[n - 1]) PROVE FALSE
      OBVIOUS
    <3>1. way[n] = Below(f, key, way[n - 1]) /\ way[n] = NoNode
      BY <2>1, <2>9 DEF IsWay, Nodes
    <3>2. IsNodeAt(f, key, way[n - 1]) /\ way[n - 1] # NoNode
      BY <2>1, <2>9 DEF Nodes
    <3>3. way[n - 1] \in 0 .. 63
      BY <3>2, SharingIs, PartingIs DEF IsNodeAt, GoesOn
    <3>4. ~IsShort(NextNode(f, key, way[n - 1]))
      BY <3>3 DEF Embedded
    <3>5. Further(f, key, way[n - 1]) = NoNode
      BY <3>1, <3>2, <3>4 DEF Below
    <3>6. IsNodeAt(f, key, Further(f, key, way[n - 1]))
      BY <3>2, FurtherIs
    <3> QED
      BY <3>5, <3>6 DEF IsNodeAt, NoNode
  <2>13. s[n].out = Answer(f, key)
    BY <2>11, <2>12 DEF WayTurn, Answer
  <2>14. r = Answer(f, key)
    BY <2>2, <2>3, <2>13, Outcomes DEF Reads, Answer
  <2> QED
    BY <2>14 DEF r, stack
<1> QED
  BY <1>1, <1>2

\* It consists of nodes.
LEMMA ProveNodes ==
  ASSUME NEW f, DOMAIN f \in SUBSET TrieKeys, NEW key \in TrieKeys
  PROVE  /\ Len(Prove(f, key)) \in Nat
         /\ \A i \in 1 .. Len(Prove(f, key)) : IsListItem(Prove(f, key)[i])
<1>1. CASE DOMAIN f = {}
  BY <1>1 DEF Prove
<1>2. CASE DOMAIN f # {}
  <2>1. PICK way, n : /\ IsWay(f, key, way) /\ Nodes(f, key, way, n)
                      /\ Prove(f, key) = [i \in 1 .. n |-> NodeOn(f, key, way[i - 1])]
    BY <1>2, ProveIs
  <2>2. n \in 1 .. 65
    BY <2>1 DEF Nodes
  <2>3. ASSUME NEW i \in 1 .. n PROVE IsListItem(NodeOn(f, key, way[i - 1]))
    <3>1. i - 1 \in 0 .. n - 1
      BY <2>2
    <3>2. IsNodeAt(f, key, way[i - 1])
      BY <2>1, <3>1 DEF Nodes
    <3> QED
      BY <3>2, NodesAreLists
  <2> QED
    BY <2>1, <2>2, <2>3
<1> QED
  BY <1>1, <1>2

----------------------------------------------------------------------------
(* The tries of a block. *)

Storages == [Positions -> Values]

\* The storage trie holds the positions whose value is not zero.
LEMMA StorageTrieIs ==
  ASSUME NEW s \in Storages
  PROVE  /\ DOMAIN StorageTrie(s) \in SUBSET TrieKeys
         /\ \A p \in Positions :
              /\ Key[p] \in TrieKeys
              /\ Key[p] \in DOMAIN StorageTrie(s) <=> s[p] # 0
              /\ s[p] # 0 => StorageTrie(s)[Key[p]] = EncStr(Uint(s[p]))
<1> DEFINE D == {Key[p] : p \in {q \in Positions : s[q] # 0}}
           The(k) == CHOOSE p \in Positions : Key[p] = k
<1>1. StorageTrie(s) = [k \in D |-> EncStr(Uint(s[The(k)]))]
  BY DEF StorageTrie
<1>2. \A p \in Positions : Key[p] \in TrieKeys
  BY KeyAssumption DEF TrieKeys
<1>3. ASSUME NEW p \in Positions PROVE The(Key[p]) = p
  <2>1. \A q \in Positions : Key[q] = Key[p] => q = p
    BY KeyAssumption
  <2> QED
    BY <2>1
<1>4. \A p \in Positions : Key[p] \in D <=> s[p] # 0
  <2>1. \A p, q \in Positions : Key[q] = Key[p] => q = p
    BY KeyAssumption
  <2> QED
    BY <2>1
<1>5. D \in SUBSET TrieKeys
  BY <1>2
<1> HIDE DEF The, D
<1>6. DOMAIN StorageTrie(s) = D /\ \A k \in D : StorageTrie(s)[k] = EncStr(Uint(s[The(k)]))
  BY <1>1
<1> QED
  BY <1>2, <1>3, <1>4, <1>5, <1>6

\* The state trie holds the accounts that there are.
LEMMA StateTrieIs ==
  ASSUME NEW s
  PROVE  /\ DOMAIN StateTrie(s) \in SUBSET TrieKeys
         /\ \A a \in Addresses :
              /\ Key[a] \in TrieKeys
              /\ Key[a] \in DOMAIN StateTrie(s) <=> a \in Others \cup {Contract}
              /\ a \in Others \cup {Contract} =>
                   StateTrie(s)[Key[a]] = EncStr(AccountOf(a, s))
<1> DEFINE A == Others \cup {Contract}
           D == {Key[a] : a \in A}
           The(k) == CHOOSE a \in A : Key[a] = k
<1>0. A \subseteq Addresses
  BY StateAssumption
<1>1. StateTrie(s) = [k \in D |-> EncStr(AccountOf(The(k), s))]
  BY DEF StateTrie
<1> HIDE DEF A
<1>2. \A a \in Addresses : Key[a] \in TrieKeys
  BY KeyAssumption DEF TrieKeys
<1>3. ASSUME NEW a \in A PROVE The(Key[a]) = a
  <2>1. \A b \in A : Key[b] = Key[a] => b = a
    BY <1>0, KeyAssumption
  <2> QED
    BY <2>1
<1>4. \A a \in Addresses : Key[a] \in D <=> a \in A
  <2>1. \A a, b \in Addresses : Key[b] = Key[a] => b = a
    BY KeyAssumption
  <2> QED
    BY <1>0, <2>1
<1>5. D \in SUBSET TrieKeys
  BY <1>0, <1>2
<1> HIDE DEF The, D
<1>6. DOMAIN StateTrie(s) = D /\ \A k \in D : StateTrie(s)[k] = EncStr(AccountOf(The(k), s))
  BY <1>1
<1>7. \A a \in A : Key[a] \in D /\ StateTrie(s)[Key[a]] = EncStr(AccountOf(a, s))
  BY <1>0, <1>3, <1>4, <1>6
<1> QED
  BY <1>2, <1>4, <1>5, <1>6, <1>7 DEF A

\* What is read in the encodings.
LEMMA DecodedIs ==
  ASSUME NEW x
  PROVE  /\ EncStr(x).bytes # <<>> /\ Decoded(Value(EncStr(x).bytes)) = x
         /\ HasValue(Value(EncStr(x).bytes))
<1>1. EncStr(x).bytes = <<[rlp |-> x]>>
  BY StringIs DEF EncStr
<1>2. EncStr(x).bytes # <<>> /\ EncStr(x).bytes[1] = [rlp |-> x]
  BY <1>1
<1>3. Value(EncStr(x).bytes).bytes = EncStr(x).bytes
  BY DEF Value
<1> QED
  BY <1>2, <1>3, Outcomes DEF Decoded, HasValue

\* The third field of an account is the root of its storage.
LEMMA StorageRootIs ==
  ASSUME NEW s, NEW r, Decoded(r) = AccountOf(Contract, s)
  PROVE  StorageRoot(r) = TrieRoot(StorageTrie(s))
<1>1. AccountOf(Contract, s).items[3] = HashStr(TrieRoot(StorageTrie(s)))
  BY ListIs DEF AccountOf
<1>2. \A h : HashStr(h).bytes[1] = h
  BY StringIs DEF HashStr
<1> QED
  BY <1>1, <1>2 DEF StorageRoot

\* A number is read out of its encoding.
LEMMA UintIs ==
  ASSUME NEW v, v # 0
  PROVE  Uint(v).bytes[1] = v
BY StringIs DEF Uint

\* The state root is the fourth field of the header.
LEMMA RootIs ==
  ASSUME NEW n
  PROVE  Root(n) = TrieRoot(StateTrie(blocks[n]))
<1>1. HeaderRlp(n).items[4] = HashStr(TrieRoot(StateTrie(blocks[n])))
  BY ListIs DEF HeaderRlp
<1>2. \A h : HashStr(h).bytes[1] = h
  BY StringIs DEF HashStr
<1>3. Root(n) = HeaderRlp(n).items[4].bytes[1]
  BY DEF Root, ParseBlockHeader
<1> QED
  BY <1>1, <1>2, <1>3

----------------------------------------------------------------------------
(* What the contract learns of a block. *)

\* Decoded from RLP, a proof is a sequence of lists; anything else makes the contract
\* revert.
IsProof(stack) ==
  Len(stack) \in Nat /\ \A i \in 1 .. Len(stack) : IsListItem(stack[i])

\* What a contract reads of an account is that account.
LEMMA AccountIsSound ==
  ASSUME NEW s, NEW a \in Addresses, NEW stack, IsProof(stack),
         NEW r, r = ExtractAccount(a, TrieRoot(StateTrie(s)), stack), HasValue(r)
  PROVE  a \in Others \cup {Contract} /\ Decoded(r) = AccountOf(a, s)
<1> DEFINE f == StateTrie(s)
<1>1. DOMAIN f \in SUBSET TrieKeys /\ Key[a] \in TrieKeys
  BY StateTrieIs
<1>2. r = ExtractProofValue(TrieRoot(f), Key[a], stack)
  BY DEF ExtractAccount
<1>3. Len(stack) \in Nat /\ \A i \in 1 .. Len(stack) : IsListItem(stack[i])
  BY DEF IsProof
<1> HIDE DEF f
<1>4. Key[a] \in DOMAIN f /\ r = Value(f[Key[a]].bytes)
  BY <1>1, <1>2, <1>3, AnyProofIsSound
<1>5. a \in Others \cup {Contract} /\ f[Key[a]] = EncStr(AccountOf(a, s))
  BY <1>4, StateTrieIs DEF f
<1> QED
  BY <1>4, <1>5, DecodedIs

\* What it reads of a position is the value there.
LEMMA SlotIsSound ==
  ASSUME NEW s \in Storages, NEW p \in Positions, NEW stack, IsProof(stack),
         NEW r, r = ExtractSlotValue(p, TrieRoot(StorageTrie(s)), stack), HasValue(r)
  PROVE  s[p] # 0 /\ SlotValue(r) = s[p]
<1> DEFINE f == StorageTrie(s)
<1>1. DOMAIN f \in SUBSET TrieKeys /\ Key[p] \in TrieKeys
  BY StorageTrieIs
<1>2. r = ExtractProofValue(TrieRoot(f), Key[p], stack)
  BY DEF ExtractSlotValue
<1>3. Len(stack) \in Nat /\ \A i \in 1 .. Len(stack) : IsListItem(stack[i])
  BY DEF IsProof
<1> HIDE DEF f
<1>4. Key[p] \in DOMAIN f /\ r = Value(f[Key[p]].bytes)
  BY <1>1, <1>2, <1>3, AnyProofIsSound
<1>5. s[p] # 0 /\ f[Key[p]] = EncStr(Uint(s[p]))
  BY <1>4, StorageTrieIs DEF f
<1>6. Decoded(r) = Uint(s[p])
  BY <1>4, <1>5, DecodedIs
<1> QED
  BY <1>5, <1>6, UintIs DEF SlotValue

\* It finds every account, given the proof of it.
LEMMA AccountIsComplete ==
  ASSUME NEW s, NEW a \in Addresses, ~Embedded(StateTrie(s), Key[a]),
         NEW r, r = ExtractAccount(a, TrieRoot(StateTrie(s)), Prove(StateTrie(s), Key[a]))
  PROVE  ~r.revert /\ (HasValue(r) <=> a \in Others \cup {Contract})
<1> DEFINE f == StateTrie(s)
<1>1. DOMAIN f \in SUBSET TrieKeys /\ Key[a] \in TrieKeys
  BY StateTrieIs
<1>2. r = ExtractProofValue(TrieRoot(f), Key[a], Prove(f, Key[a])) /\ ~Embedded(f, Key[a])
  BY DEF ExtractAccount
<1> HIDE DEF f
<1>3. r = Answer(f, Key[a])
  BY <1>1, <1>2, OwnProofIsComplete
<1>4. CASE a \in Others \cup {Contract}
  <2>1. Key[a] \in DOMAIN f /\ f[Key[a]] = EncStr(AccountOf(a, s))
    BY <1>4, StateTrieIs DEF f
  <2>2. r = Value(EncStr(AccountOf(a, s)).bytes)
    BY <1>3, <2>1 DEF Answer
  <2> QED
    BY <1>4, <2>2, DecodedIs, Outcomes
<1>5. CASE a \notin Others \cup {Contract}
  <2>1. Key[a] \notin DOMAIN f
    BY <1>5, StateTrieIs DEF f
  <2>2. r = NoValue
    BY <1>3, <2>1 DEF Answer
  <2> QED
    BY <1>5, <2>2, Outcomes
<1> QED
  BY <1>4, <1>5

\* It finds every value, given the proof of it.
LEMMA SlotIsComplete ==
  ASSUME NEW s \in Storages, NEW p \in Positions, ~Embedded(StorageTrie(s), Key[p]),
         NEW r, r = ExtractSlotValue(p, TrieRoot(StorageTrie(s)), Prove(StorageTrie(s), Key[p]))
  PROVE  ~r.revert /\ (HasValue(r) <=> s[p] # 0)
<1> DEFINE f == StorageTrie(s)
<1>1. DOMAIN f \in SUBSET TrieKeys /\ Key[p] \in TrieKeys
  BY StorageTrieIs
<1>2. r = ExtractProofValue(TrieRoot(f), Key[p], Prove(f, Key[p])) /\ ~Embedded(f, Key[p])
  BY DEF ExtractSlotValue
<1> HIDE DEF f
<1>3. r = Answer(f, Key[p])
  BY <1>1, <1>2, OwnProofIsComplete
<1>4. CASE s[p] # 0
  <2>1. Key[p] \in DOMAIN f /\ f[Key[p]] = EncStr(Uint(s[p]))
    BY <1>4, StorageTrieIs DEF f
  <2>2. r = Value(EncStr(Uint(s[p])).bytes)
    BY <1>3, <2>1 DEF Answer
  <2> QED
    BY <1>4, <2>2, DecodedIs, Outcomes
<1>5. CASE s[p] = 0
  <2>1. Key[p] \notin DOMAIN f
    BY <1>5, StorageTrieIs DEF f
  <2>2. r = NoValue
    BY <1>3, <2>1 DEF Answer
  <2> QED
    BY <1>5, <2>2, Outcomes
<1> QED
  BY <1>4, <1>5

\* Against the state root of a block the contract accepts a value only if the
\* position holds it in that block, whatever is presented as proof.
THEOREM VerifiedIsStored ==
  ASSUME NEW s \in Storages, NEW p \in Positions, NEW v,
         NEW account, IsProof(account), NEW storage, IsProof(storage),
         Verify(p, Contract, v, TrieRoot(StateTrie(s)), account, storage)
  PROVE  s[p] = v
<1> DEFINE a == ExtractAccount(Contract, TrieRoot(StateTrie(s)), account)
           r == ExtractSlotValue(p, StorageRoot(a), storage)
<1>1. HasValue(a) /\ HasValue(r) /\ SlotValue(r) = v
  BY DEF Verify
<1>2. Contract \in Addresses
  BY StateAssumption
<1>3. Decoded(a) = AccountOf(Contract, s)
  BY <1>1, <1>2, AccountIsSound
<1>4. StorageRoot(a) = TrieRoot(StorageTrie(s))
  BY <1>3, StorageRootIs
<1>5. SlotValue(r) = s[p]
  BY <1>1, <1>4, SlotIsSound
<1> QED
  BY <1>1, <1>5

\* So it verifies what is stored.
LEMMA StoredIsVerified ==
  ASSUME NEW s \in Storages, NEW p \in Positions, NEW v, v # 0, s[p] = v,
         ~Embedded(StateTrie(s), Key[Contract]), ~Embedded(StorageTrie(s), Key[p])
  PROVE  Verify(p, Contract, v, TrieRoot(StateTrie(s)),
                Prove(StateTrie(s), Key[Contract]), Prove(StorageTrie(s), Key[p]))
<1> DEFINE account == Prove(StateTrie(s), Key[Contract])
           storage == Prove(StorageTrie(s), Key[p])
           a == ExtractAccount(Contract, TrieRoot(StateTrie(s)), account)
           r == ExtractSlotValue(p, StorageRoot(a), storage)
<1>1. Contract \in Addresses /\ Key[Contract] \in TrieKeys /\ Key[p] \in TrieKeys
  BY StateAssumption, StateTrieIs, StorageTrieIs
<1>2. IsProof(account) /\ IsProof(storage)
  BY <1>1, StateTrieIs, StorageTrieIs, ProveNodes DEF IsProof
<1>3. HasValue(a)
  BY <1>1, AccountIsComplete
<1>4. Decoded(a) = AccountOf(Contract, s)
  BY <1>1, <1>2, <1>3, AccountIsSound
<1>5. StorageRoot(a) = TrieRoot(StorageTrie(s))
  BY <1>4, StorageRootIs
<1>6. HasValue(r)
  BY <1>5, SlotIsComplete
<1>7. SlotValue(r) = s[p]
  BY <1>2, <1>5, <1>6, SlotIsSound
<1> QED
  BY <1>3, <1>6, <1>7 DEF Verify

----------------------------------------------------------------------------
(* The specification. *)

\* Every block has a value at every position.
StorageInv == blocks \in Seq(Storages)

\* Blocks begin with states of the right kind.
LEMMA StorageInvStarts == StorageInit => StorageInv
BY DEF StorageInit, StorageInv

\* They remain so.
LEMMA StorageInvStays == StorageInv /\ [StorageNext]_blocks => StorageInv'
<1> SUFFICES ASSUME StorageInv, [StorageNext]_blocks PROVE StorageInv'
  OBVIOUS
<1>1. CASE Genesis
  <2>1. [p \in Positions |-> 0] \in Storages
    BY StateAssumption DEF Storages
  <2> QED
    BY <1>1, <2>1 DEF Genesis, StorageInv
<1>2. ASSUME NEW p \in Positions, NEW v \in Values, Store(p, v) PROVE StorageInv'
  <2>1. blocks \in Seq(Storages) /\ Len(blocks) \in 1 .. (MaxBlocks - 1)
    BY <1>2 DEF Store, StorageInv
  <2>2. Last(blocks) \in Storages
    BY <2>1 DEF Last
  <2>3. [Last(blocks) EXCEPT ![p] = v] \in Storages
    BY <1>2, <2>2 DEF Storages
  <2> QED
    BY <1>2, <2>1, <2>3 DEF Store, StorageInv
<1>3. CASE UNCHANGED blocks
  BY <1>3 DEF StorageInv
<1> QED
  BY <1>1, <1>2, <1>3 DEF StorageNext

\* Proofs are exact in every block of that form, by what is said of one.
LEMMA StorageInvExact == StorageInv => ProofsAreExact
<1> SUFFICES ASSUME StorageInv, NEW m \in DOMAIN blocks, NEW n \in DOMAIN blocks
             PROVE
    /\ \A a, b \in Addresses :
         LET account == ExtractAccount(a, Root(m), AccountProof(n, b))
         IN  /\ HasValue(account) =>
                  /\ a \in Others \cup {Contract}
                  /\ Decoded(account) = AccountOf(a, blocks[m])
             /\ m = n /\ a = b /\ ~Embedded(StateTrie(blocks[m]), Key[a]) =>
                  ~account.revert /\ (HasValue(account) <=> a \in Others \cup {Contract})
    /\ \A p, q \in Positions :
         LET root == TrieRoot(StorageTrie(blocks[m]))
             slot == ExtractSlotValue(p, root, StorageProof(n, q))
         IN  /\ HasValue(slot) => SlotValue(slot) = blocks[m][p]
             /\ m = n /\ p = q /\ ~Embedded(StorageTrie(blocks[m]), Key[p]) =>
                  ~slot.revert /\ (HasValue(slot) <=> blocks[m][p] # 0)
    /\ \A p \in Positions, v \in Values \ {0} :
         LET verified == Verify(p, Contract, v, Root(m),
                                AccountProof(m, Contract), StorageProof(m, p))
         IN  /\ verified => blocks[m][p] = v
             /\ ~Embedded(StateTrie(blocks[m]), Key[Contract])
                /\ ~Embedded(StorageTrie(blocks[m]), Key[p])
                /\ blocks[m][p] = v => verified
  BY DEF ProofsAreExact
<1>1. blocks[m] \in Storages /\ blocks[n] \in Storages
  BY DEF StorageInv
<1>2. Root(m) = TrieRoot(StateTrie(blocks[m]))
  BY RootIs
<1>3. Contract \in Addresses
  BY StateAssumption
<1>4. /\ \A b \in Addresses : IsProof(AccountProof(n, b)) /\ IsProof(AccountProof(m, b))
      /\ \A q \in Positions : IsProof(StorageProof(n, q)) /\ IsProof(StorageProof(m, q))
  BY <1>1, StateTrieIs, StorageTrieIs, ProveNodes DEF IsProof, AccountProof, StorageProof
<1>5. ASSUME NEW a \in Addresses, NEW b \in Addresses,
             NEW r, r = ExtractAccount(a, Root(m), AccountProof(n, b))
      PROVE  /\ HasValue(r) => a \in Others \cup {Contract} /\ Decoded(r) = AccountOf(a, blocks[m])
             /\ m = n /\ a = b /\ ~Embedded(StateTrie(blocks[m]), Key[a]) =>
                  ~r.revert /\ (HasValue(r) <=> a \in Others \cup {Contract})
  <2>1. HasValue(r) => a \in Others \cup {Contract} /\ Decoded(r) = AccountOf(a, blocks[m])
    BY <1>2, <1>4, <1>5, AccountIsSound
  <2>2. m = n /\ a = b /\ ~Embedded(StateTrie(blocks[m]), Key[a]) =>
          ~r.revert /\ (HasValue(r) <=> a \in Others \cup {Contract})
    BY <1>2, <1>5, AccountIsComplete DEF AccountProof
  <2> QED
    BY <2>1, <2>2
<1>6. ASSUME NEW p \in Positions, NEW q \in Positions,
             NEW r, r = ExtractSlotValue(p, TrieRoot(StorageTrie(blocks[m])), StorageProof(n, q))
      PROVE  /\ HasValue(r) => SlotValue(r) = blocks[m][p]
             /\ m = n /\ p = q /\ ~Embedded(StorageTrie(blocks[m]), Key[p]) =>
                  ~r.revert /\ (HasValue(r) <=> blocks[m][p] # 0)
  <2>1. HasValue(r) => SlotValue(r) = blocks[m][p]
    BY <1>1, <1>4, <1>6, SlotIsSound
  <2>2. m = n /\ p = q /\ ~Embedded(StorageTrie(blocks[m]), Key[p]) =>
          ~r.revert /\ (HasValue(r) <=> blocks[m][p] # 0)
    BY <1>1, <1>6, SlotIsComplete DEF StorageProof
  <2> QED
    BY <2>1, <2>2
<1>7. ASSUME NEW p \in Positions, NEW v \in Values \ {0}
      PROVE  /\ Verify(p, Contract, v, Root(m), AccountProof(m, Contract), StorageProof(m, p))
                  => blocks[m][p] = v
             /\ ~Embedded(StateTrie(blocks[m]), Key[Contract])
                /\ ~Embedded(StorageTrie(blocks[m]), Key[p])
                /\ blocks[m][p] = v =>
                  Verify(p, Contract, v, Root(m), AccountProof(m, Contract), StorageProof(m, p))
  <2>1. Verify(p, Contract, v, Root(m), AccountProof(m, Contract), StorageProof(m, p))
          => blocks[m][p] = v
    BY <1>1, <1>2, <1>3, <1>4, VerifiedIsStored
  <2>2. v # 0
    OBVIOUS
  <2>3. ~Embedded(StateTrie(blocks[m]), Key[Contract])
        /\ ~Embedded(StorageTrie(blocks[m]), Key[p]) /\ blocks[m][p] = v =>
          Verify(p, Contract, v, Root(m), AccountProof(m, Contract), StorageProof(m, p))
    BY <1>1, <1>2, <2>2, StoredIsVerified DEF AccountProof, StorageProof
  <2> QED
    BY <2>1, <2>3
<1> QED
  BY <1>5, <1>6, <1>7

\* In every reachable state, against the header of a block: a proof made for another
\* block, address or position proves what that block holds or nothing, the node's own
\* proof exactly that where no node is embedded.
THEOREM StorageProofsAreExact == StorageSpec => []ProofsAreExact
<1>1. StorageSpec => []StorageInv
  BY StorageInvStarts, StorageInvStays, PTL DEF StorageSpec
<1> QED
  BY <1>1, StorageInvExact, PTL

----------------------------------------------------------------------------
(* The encodings that RLPReader.sol takes apart. *)

\* Encodings are shorter.
Limit == 256 * 256 * 256

\* Strings are of every depth, lists of the depth above their elements.
LEMMA NestedIs ==
  /\ Nested[0] = AllStrings
  /\ \A d \in Nat : Nested[d + 1] = AllStrings \cup [items : Seq(Nested[d])]
<1>1. PICK f : Runs("nested", 0, AllStrings, f, Nat)
  BY RunExists
<1>2. f = [d \in Nat |-> IF d = 0 THEN AllStrings
                         ELSE AllStrings \cup [items : Seq(f[d - 1])]]
  BY <1>1 DEF Runs, LoopTurn
<1>3. Nested = [d \in Nat |-> IF d = 0 THEN AllStrings
                              ELSE AllStrings \cup [items : Seq(Nested[d - 1])]]
  BY <1>2 DEF Nested
<1>4. 0 \in Nat /\ \A d \in Nat : d + 1 \in Nat /\ d + 1 # 0 /\ (d + 1) - 1 = d
  OBVIOUS
<1>5. Nested[0] = AllStrings
  BY <1>3, <1>4, Zenon
<1>6. ASSUME NEW d \in Nat PROVE Nested[d + 1] = AllStrings \cup [items : Seq(Nested[d])]
  <2>1. Nested[d + 1] = AllStrings \cup [items : Seq(Nested[(d + 1) - 1])]
    BY <1>3, <1>4, Zenon
  <2> QED
    BY <1>4, <2>1, Zenon
<1> QED
  BY <1>5, <1>6

\* A string is a thing of every depth.
LEMMA StringsAreNested ==
  ASSUME NEW d \in Nat, NEW x \in AllStrings
  PROVE  x \in Nested[d]
<1>1. d = 0 \/ (d - 1 \in Nat /\ (d - 1) + 1 = d)
  OBVIOUS
<1> QED
  BY <1>1, NestedIs

\* What is a string at any depth is one of them.
LEMMA OnlyStrings ==
  ASSUME NEW d \in Nat, NEW x \in Nested[d], IsString(x)
  PROVE  x \in AllStrings
<1>1. d = 0 \/ (d - 1 \in Nat /\ (d - 1) + 1 = d)
  OBVIOUS
<1>2. \A S : x \notin [items : S]
  BY DEF IsString
<1> QED
  BY <1>1, <1>2, NestedIs

\* Digit by digit, a number is divided.
LEMMA RestIs ==
  ASSUME NEW n
  PROVE  /\ Rest(n)[0] = n
         /\ \A i \in Nat : Rest(n)[i + 1] = Rest(n)[i] \div 256
<1>1. PICK f : Runs("digits", 0, n, f, Nat)
  BY RunExists
<1>2. f = [i \in Nat |-> IF i = 0 THEN n ELSE f[i - 1] \div 256]
  BY <1>1 DEF Runs, LoopTurn
<1>3. Rest(n) = [i \in Nat |-> IF i = 0 THEN n ELSE Rest(n)[i - 1] \div 256]
  BY <1>2 DEF Rest
<1> QED
  BY <1>3

\* Digits are gone one by one, until nothing is left.
LEMMA RestFalls ==
  ASSUME NEW n \in Nat
  PROVE  \A i \in Nat : Rest(n)[i] \in Nat /\ (Rest(n)[i] = 0 \/ Rest(n)[i] + i <= n)
<1> DEFINE S == {i \in Nat : Rest(n)[i] \in Nat /\ (Rest(n)[i] = 0 \/ Rest(n)[i] + i <= n)}
<1>1. 0 \in S
  BY RestIs
<1>2. ASSUME NEW i \in S PROVE i + 1 \in S
  <2>1. Rest(n)[i + 1] = Rest(n)[i] \div 256
    BY RestIs
  <2> QED
    BY <2>1
<1> HIDE DEF S
<1>3. S = Nat
  BY <1>1, <1>2, SetOfNaturals DEF S
<1> QED
  BY <1>3 DEF S

\* How many digits a number has.
LEMMA BigEndianIs ==
  ASSUME NEW n \in Nat \ {0}
  PROVE  \E k \in 1 .. n : /\ Rest(n)[k] = 0
                           /\ BigEndian(n) = [i \in 1 .. k |-> Rest(n)[k - i] % 256]
                           /\ \A j \in 0 .. k - 1 : Rest(n)[j] # 0
<1> DEFINE S == {k \in Nat : Rest(n)[k] = 0}
           P(k) == Rest(n)[k] = 0 /\ Rest(n)[k - 1] # 0
           k == CHOOSE k \in 1 .. n : P(k)
<1>0. \A i \in Nat : Rest(n)[i] \in Nat /\ (Rest(n)[i] = 0 \/ Rest(n)[i] + i <= n)
  BY RestFalls
<1>1. n \in S
  BY <1>0
<1>2. PICK m \in S : \A j \in S : m <= j
  BY <1>1, LeastElement
<1>3. m \in 1 .. n /\ Rest(n)[m] = 0 /\ Rest(n)[m - 1] # 0
  <2>1. m # 0
    BY <1>2, RestIs
  <2>2. m - 1 \in Nat /\ ~ (m <= m - 1)
    BY <2>1
  <2> QED
    BY <1>1, <1>2, <2>1, <2>2
<1>4. BigEndian(n) = [i \in 1 .. k |-> Rest(n)[k - i] % 256]
  BY DEF BigEndian
<1>5. k \in 1 .. n /\ P(k)
  <2>1. P(m)
    BY <1>3
  <2> HIDE DEF P
  <2> QED
    BY <1>3, <2>1
<1> HIDE DEF k
<1>6. ASSUME NEW j \in 0 .. k - 1 PROVE Rest(n)[j] # 0
  <2> DEFINE T == {d \in Nat : Rest(n)[j] = 0 => Rest(n)[j + d] = 0}
  <2>1. 0 \in T
    OBVIOUS
  <2>2. ASSUME NEW d \in T PROVE d + 1 \in T
    <3>1. Rest(n)[(j + d) + 1] = Rest(n)[j + d] \div 256 /\ j + (d + 1) = (j + d) + 1
      BY RestIs
    <3> QED
      BY <3>1
  <2> HIDE DEF T
  <2>3. T = Nat
    BY <2>1, <2>2, SetOfNaturals DEF T
  <2>4. k - 1 - j \in Nat /\ j + (k - 1 - j) = k - 1
    BY <1>5
  <2>5. k - 1 - j \in T
    BY <2>3, <2>4
  <2> QED
    BY <1>5, <2>4, <2>5 DEF T
<1> QED
  BY <1>4, <1>5, <1>6

\* Digits are bytes.
LEMMA BigEndianBytes ==
  ASSUME NEW n \in Nat \ {0}
  PROVE  BigEndian(n) \in Seq(Bytes) /\ Len(BigEndian(n)) \in Nat \ {0}
<1>1. PICK k \in 1 .. n : BigEndian(n) = [i \in 1 .. k |-> Rest(n)[k - i] % 256]
  BY BigEndianIs
<1>2. ASSUME NEW i \in 1 .. k PROVE BigEndian(n)[i] \in Bytes
  <2>1. k - i \in Nat /\ BigEndian(n)[i] = Rest(n)[k - i] % 256
    BY <1>1
  <2>2. Rest(n)[k - i] \in Nat
    BY <2>1, RestFalls
  <2>3. \A a \in Nat : a % 256 \in Bytes
    BY DEF Bytes
  <2> QED
    BY <2>1, <2>2, <2>3
<1>3. BigEndian(n) = [i \in 1 .. k |-> BigEndian(n)[i]] /\ k \in Nat
  BY <1>1
<1>4. BigEndian(n) \in Seq(Bytes) /\ Len(BigEndian(n)) = k
  BY <1>2, <1>3, FunctionIsSequence
<1> QED
  BY <1>4

\* Bytes are numbers.
LEMMA BytesAre == Bytes \subseteq Nat
  BY DEF Bytes

\* So are their strings.
LEMMA BytesAreNumbers ==
  ASSUME NEW s \in Seq(Bytes)
  PROVE  s \in Seq(Nat)
<1>1. Len(s) \in Nat /\ s = [i \in 1 .. Len(s) |-> s[i]]
  OBVIOUS
<1>2. ASSUME NEW i \in 1 .. Len(s) PROVE s[i] \in Nat
  <2>1. s[i] \in Bytes
    BY ElementOfSeq
  <2> QED
    BY <2>1, BytesAre
<1> QED
  BY <1>1, <1>2, FunctionIsSequence

\* The value of a string of bytes, byte by byte.
LEMMA NumberIs ==
  ASSUME NEW s \in Seq(Nat)
  PROVE  \E f : /\ OnlyRun("number", s, 0, f, Len(s)) /\ Number(s) = f[Len(s)]
                /\ f[0] = 0 /\ \A i \in 1 .. Len(s) : f[i] = f[i - 1] * 256 + s[i]
<1> DEFINE value[i \in 0 .. Len(s)] == IF i = 0 THEN 0 ELSE value[i - 1] * 256 + s[i]
<1>1. PICK f : OnlyRun("number", s, 0, f, Len(s))
  BY FiniteRunExists
<1>2. f = [i \in 0 .. Len(s) |-> IF i = 0 THEN 0 ELSE f[i - 1] * 256 + s[i]]
  BY <1>1 DEF OnlyRun, Runs, LoopTurn
<1>3. value = [i \in 0 .. Len(s) |-> IF i = 0 THEN 0 ELSE value[i - 1] * 256 + s[i]]
  BY <1>2
<1>4. Number(s) = value[Len(s)]
  BY DEF Number
<1> HIDE DEF value
<1>5. Runs("number", s, 0, value, 0 .. Len(s))
  BY <1>3 DEF Runs, LoopTurn
<1>6. value = f
  BY <1>1, <1>5, Zenon DEF OnlyRun
<1>7. f[0] = 0 /\ \A i \in 1 .. Len(s) : f[i] = f[i - 1] * 256 + s[i]
  <2>1. Len(s) \in Nat
    OBVIOUS
  <2> QED
    BY <1>2, <2>1
<1> QED
  BY <1>1, <1>4, <1>6, <1>7, Zenon

\* The digits of a number have its value.
LEMMA DigitsAreExact ==
  ASSUME NEW n \in Nat \ {0}
  PROVE  Number(BigEndian(n)) = n
<1> DEFINE s == BigEndian(n)
<1>1. PICK k \in 1 .. n : Rest(n)[k] = 0 /\ s = [i \in 1 .. k |-> Rest(n)[k - i] % 256]
  BY BigEndianIs
<1>2. s \in Seq(Nat) /\ Len(s) = k
  <2>1. s \in Seq(Bytes)
    BY BigEndianBytes
  <2>2. Len(s) = k
    BY <1>1
  <2> HIDE DEF s
  <2> QED
    BY <2>1, <2>2, BytesAreNumbers
<1> HIDE DEF s
<1>3. PICK f : /\ Number(s) = f[Len(s)]
               /\ f[0] = 0 /\ \A i \in 1 .. Len(s) : f[i] = f[i - 1] * 256 + s[i]
  BY <1>2, NumberIs, Zenon
<1> DEFINE S == {i \in Nat : i <= k => f[i] = Rest(n)[k - i]}
<1>4. 0 \in S
  BY <1>1, <1>3
<1>5. ASSUME NEW i \in S PROVE i + 1 \in S
  <2> SUFFICES ASSUME i + 1 <= k PROVE f[i + 1] = Rest(n)[k - (i + 1)]
    OBVIOUS
  <2>1. k - (i + 1) \in Nat /\ (k - (i + 1)) + 1 = k - i /\ i + 1 \in 1 .. k /\ (i + 1) - 1 = i
    OBVIOUS
  <2>2. Rest(n)[k - i] = Rest(n)[k - (i + 1)] \div 256 /\ Rest(n)[k - (i + 1)] \in Nat
    BY <2>1, RestIs, RestFalls
  <2>3. f[i + 1] = f[i] * 256 + (Rest(n)[k - (i + 1)] % 256)
    <3>1. f[i + 1] = f[i] * 256 + s[i + 1]
      BY <1>2, <1>3, <2>1
    <3>2. s[i + 1] = Rest(n)[k - (i + 1)] % 256
      BY <1>1, <2>1
    <3> QED
      BY <3>1, <3>2
  <2>4. f[i] = Rest(n)[k - i]
    OBVIOUS
  <2>5. \A a \in Nat : \A b : b = a \div 256 => b * 256 + (a % 256) = a
    OBVIOUS
  <2> HIDE DEF S
  <2> QED
    BY <2>2, <2>3, <2>4, <2>5
<1> HIDE DEF S
<1>6. S = Nat
  BY <1>4, <1>5, SetOfNaturals DEF S
<1>7. f[k] = Rest(n)[k - k] /\ k - k = 0
  BY <1>6 DEF S
<1> QED
  BY <1>2, <1>3, <1>7, RestIs DEF s

\* The bound as a number.
LEMMA LimitIs == Limit \in Nat /\ Limit = 256 * (256 * 256)
  BY DEF Limit

\* A length that the model allows has at most three digits.
LEMMA FewDigits ==
  ASSUME NEW n \in Nat \ {0}, n < Limit
  PROVE  Len(BigEndian(n)) \in 1 .. 3
<1>2. PICK k \in 1 .. n : /\ BigEndian(n) = [i \in 1 .. k |-> Rest(n)[k - i] % 256]
                          /\ \A j \in 0 .. k - 1 : Rest(n)[j] # 0
  BY BigEndianIs
<1>3. Len(BigEndian(n)) = k
  BY <1>2
<1>4. /\ Rest(n)[0] = n /\ Rest(n)[0 + 1] = Rest(n)[0] \div 256
      /\ Rest(n)[1 + 1] = Rest(n)[1] \div 256 /\ Rest(n)[2 + 1] = Rest(n)[2] \div 256
  BY RestIs
<1>5. Rest(n)[3] = ((n \div 256) \div 256) \div 256
  BY <1>4
<1>6. Rest(n)[3] = 0
  <2>1. \A a \in Nat, b \in Nat : a < 256 * b => a \div 256 < b /\ a \div 256 \in Nat
    OBVIOUS
  <2>2. n \in Nat /\ n < 256 * (256 * 256)
    BY LimitIs
  <2>3. n \div 256 < 256 * 256 /\ n \div 256 \in Nat
    BY <2>1, <2>2
  <2>4. (n \div 256) \div 256 < 256 * 1 /\ (n \div 256) \div 256 \in Nat
    BY <2>1, <2>3
  <2>5. ((n \div 256) \div 256) \div 256 < 1 /\ ((n \div 256) \div 256) \div 256 \in Nat
    BY <2>1, <2>4
  <2> QED
    BY <1>5, <2>5
<1> QED
  BY <1>2, <1>3, <1>6


\* What the memory holds from a place on.
Stands(mem, ptr, s) ==
  \A i \in 1 .. Len(s) : ptr + i - 1 \in 1 .. Len(mem) /\ mem[ptr + i - 1] = s[i]

\* What stands there in two parts, stands there part by part.
LEMMA StandsParts ==
  ASSUME NEW mem \in Seq(Nat), NEW ptr \in Nat \ {0}, NEW a \in Seq(Nat), NEW b \in Seq(Nat),
         Stands(mem, ptr, a \o b)
  PROVE  Stands(mem, ptr, a) /\ Stands(mem, ptr + Len(a), b)
<1> DEFINE c == a \o b
<1>1. /\ Len(a) \in Nat /\ Len(b) \in Nat /\ Len(mem) \in Nat /\ Len(c) = Len(a) + Len(b)
      /\ \A i \in 1 .. Len(a) : c[i] = a[i]
      /\ \A i \in 1 .. Len(b) : c[Len(a) + i] = b[i]
  OBVIOUS
<1>2. \A i \in 1 .. Len(c) : ptr + i - 1 \in 1 .. Len(mem) /\ mem[ptr + i - 1] = c[i]
  BY DEF Stands
<1> HIDE DEF c
<1>3. Stands(mem, ptr, a)
  <2> SUFFICES ASSUME NEW i \in 1 .. Len(a)
               PROVE  ptr + i - 1 \in 1 .. Len(mem) /\ mem[ptr + i - 1] = a[i]
    BY DEF Stands
  <2>1. i \in 1 .. Len(c)
    BY <1>1
  <2> QED
    BY <1>1, <1>2, <2>1
<1>4. Stands(mem, ptr + Len(a), b)
  <2> SUFFICES ASSUME NEW i \in 1 .. Len(b)
               PROVE  /\ (ptr + Len(a)) + i - 1 \in 1 .. Len(mem)
                      /\ mem[(ptr + Len(a)) + i - 1] = b[i]
    BY DEF Stands
  <2>1. Len(a) + i \in 1 .. Len(c) /\ (ptr + Len(a)) + i - 1 = ptr + (Len(a) + i) - 1
    BY <1>1
  <2> QED
    BY <1>1, <1>2, <2>1
<1> QED
  BY <1>3, <1>4

\* The reader sees its bytes.
LEMMA ByteIs ==
  ASSUME NEW mem \in Seq(Nat), NEW ptr \in Nat \ {0}, NEW s \in Seq(Nat), Stands(mem, ptr, s),
         NEW i \in 1 .. Len(s)
  PROVE  Byte(mem, ptr + i - 1) = s[i]
<1>1. ptr + i - 1 \in DOMAIN mem /\ mem[ptr + i - 1] = s[i]
  BY DEF Stands
<1> QED
  BY <1>1 DEF Byte

\* The reader takes a word for the number that its bytes write down.
LEMMA WordIs ==
  ASSUME NEW mem \in Seq(Nat), NEW ptr \in Nat \ {0}, NEW s \in Seq(Nat), Stands(mem, ptr, s)
  PROVE  Word(mem, ptr, Len(s)) = Number(s)
<1> DEFINE n == Len(s)
           value[i \in 0 .. n] ==
             IF i = 0 THEN 0 ELSE value[i - 1] * 256 + Byte(mem, ptr + i - 1)
<1>0. n \in Nat
  OBVIOUS
<1>1. Word(mem, ptr, n) = value[n]
  BY DEF Word
<1>2. value = [i \in 0 .. n |-> IF i = 0 THEN 0 ELSE value[i - 1] * 256 + s[i]]
  <2>1. PICK f : OnlyRun("word", <<mem, ptr>>, 0, f, n)
    BY <1>0, FiniteRunExists
  <2>2. f = [i \in 0 .. n |-> IF i = 0 THEN 0 ELSE f[i - 1] * 256 + Byte(mem, ptr + i - 1)]
    BY <2>1 DEF OnlyRun, Runs, LoopTurn
  <2>3. value = [i \in 0 .. n |-> IF i = 0 THEN 0
                                  ELSE value[i - 1] * 256 + Byte(mem, ptr + i - 1)]
    BY <2>2
  <2>4. \A i \in 0 .. n : i # 0 => Byte(mem, ptr + i - 1) = s[i]
    BY <1>0, ByteIs
  <2> HIDE DEF value
  <2> QED
    BY <2>3, <2>4
<1>3. PICK g : OnlyRun("number", s, 0, g, n) /\ Number(s) = g[n]
  BY NumberIs
<1> HIDE DEF value
<1>4. Runs("number", s, 0, value, 0 .. n)
  BY <1>2 DEF Runs, LoopTurn
<1>5. value = g
  BY <1>3, <1>4 DEF OnlyRun
<1> QED
  BY <1>1, <1>3, <1>5

----------------------------------------------------------------------------
(* Headers. *)

\* A header has at least one byte.
LEMMA PrefixIs ==
  ASSUME NEW offset \in Nat, NEW len \in Nat
  PROVE  Prefix(offset, len) \in Seq(Nat) /\ Len(Prefix(offset, len)) \in Nat \ {0}
<1>1. CASE len <= 55
  BY <1>1 DEF Prefix
<1>2. CASE len > 55
  <2>1. BigEndian(len) \in Seq(Nat) /\ Len(BigEndian(len)) \in Nat \ {0}
    BY <1>2, BigEndianBytes, BytesAreNumbers
  <2>2. Prefix(offset, len) = <<offset + 55 + Len(BigEndian(len))>> \o BigEndian(len)
    BY <1>2 DEF Prefix
  <2> QED
    BY <2>1, <2>2
<1> QED
  BY <1>1, <1>2

\* The same when the first part is one byte.
LEMMA HeadAndTail ==
  ASSUME NEW mem \in Seq(Nat), NEW ptr \in Nat \ {0}, NEW b \in Nat, NEW s \in Seq(Nat),
         Stands(mem, ptr, <<b>> \o s)
  PROVE  Stands(mem, ptr, <<b>>) /\ Stands(mem, ptr + 1, s)
<1>1. <<b>> \in Seq(Nat) /\ Len(<<b>>) = 1
  OBVIOUS
<1>2. Stands(mem, ptr, <<b>>) /\ Stands(mem, ptr + Len(<<b>>), s)
  BY <1>1, StandsParts
<1> QED
  BY <1>1, <1>2

\* The byte at the place itself.
LEMMA FirstByteIs ==
  ASSUME NEW mem \in Seq(Nat), NEW ptr \in Nat \ {0}, NEW b \in Nat,
         Stands(mem, ptr, <<b>>)
  PROVE  Byte(mem, ptr) = b
<1> DEFINE s == <<b>>
<1>1. s \in Seq(Nat) /\ 1 \in 1 .. Len(s) /\ s[1] = b /\ ptr + 1 - 1 = ptr
  OBVIOUS
<1> HIDE DEF s
<1>2. Byte(mem, ptr + 1 - 1) = s[1]
  BY <1>1, ByteIs DEF s
<1> QED
  BY <1>1, <1>2

\* The kinds of a first byte.
LEMMA SizesAre ==
  ASSUME NEW mem, NEW ptr, NEW b \in Nat, b = Byte(mem, ptr)
  PROVE  /\ b < 128 => ItemLength(mem, ptr) = 1 /\ PayloadOffset(mem, ptr) = 0
         /\ b >= 128 /\ b <= 183 =>
              ItemLength(mem, ptr) = b - 128 + 1 /\ PayloadOffset(mem, ptr) = 1
         /\ b >= 184 /\ b <= 191 =>
              /\ ItemLength(mem, ptr) = Word(mem, ptr + 1, b - 183) + (b - 183) + 1
              /\ PayloadOffset(mem, ptr) = b - 183 + 1
         /\ b >= 192 /\ b <= 247 =>
              ItemLength(mem, ptr) = b - 192 + 1 /\ PayloadOffset(mem, ptr) = 1
         /\ b > 247 =>
              /\ ItemLength(mem, ptr) = Word(mem, ptr + 1, b - 247) + (b - 247) + 1
              /\ PayloadOffset(mem, ptr) = b - 247 + 1
<1> DEFINE short == b < 128
           string == b \in 128 .. 183
           long == b \in 184 .. 191
           list == b \in 192 .. 247
           little == b \in (128 .. 183) \cup (192 .. 247)
<1>1. ItemLength(mem, ptr) =
        CASE short -> 1
          [] string -> b - 128 + 1
          [] long -> Word(mem, ptr + 1, b - 183) + (b - 183) + 1
          [] list -> b - 192 + 1
          [] OTHER -> Word(mem, ptr + 1, b - 247) + (b - 247) + 1
  BY DEF ItemLength
<1>2. PayloadOffset(mem, ptr) =
        CASE short -> 0 [] little -> 1 [] long -> b - 183 + 1 [] OTHER -> b - 247 + 1
  BY DEF PayloadOffset
<1>0. /\ b >= 128 /\ b <= 183 => string
      /\ b >= 184 /\ b <= 191 => long
      /\ b >= 192 /\ b <= 247 => list
  OBVIOUS
<1>3. /\ short => ~ string /\ ~ long /\ ~ list /\ ~ little
      /\ string => ~ short /\ ~ long /\ ~ list /\ little
      /\ long => ~ short /\ ~ string /\ ~ list /\ ~ little
      /\ list => ~ short /\ ~ string /\ ~ long /\ little
      /\ b > 247 => ~ short /\ ~ string /\ ~ long /\ ~ list /\ ~ little
  OBVIOUS
<1> HIDE DEF short, string, long, list, little
<1>4. short => ItemLength(mem, ptr) = 1 /\ PayloadOffset(mem, ptr) = 0
  BY <1>1, <1>2, <1>3, Zenon
<1>5. string => ItemLength(mem, ptr) = b - 128 + 1 /\ PayloadOffset(mem, ptr) = 1
  BY <1>1, <1>2, <1>3, Zenon
<1>6. long => /\ ItemLength(mem, ptr) = Word(mem, ptr + 1, b - 183) + (b - 183) + 1
              /\ PayloadOffset(mem, ptr) = b - 183 + 1
  BY <1>1, <1>2, <1>3, Zenon
<1>7. list => ItemLength(mem, ptr) = b - 192 + 1 /\ PayloadOffset(mem, ptr) = 1
  BY <1>1, <1>2, <1>3, Zenon
<1>8. b > 247 => /\ ItemLength(mem, ptr) = Word(mem, ptr + 1, b - 247) + (b - 247) + 1
                 /\ PayloadOffset(mem, ptr) = b - 247 + 1
  BY <1>1, <1>2, <1>3, Zenon
<1> QED
  BY <1>0, <1>4, <1>5, <1>6, <1>7, <1>8, Zenon DEF short

\* The reader finds the header as long as it is, and behind it as many bytes as it
\* says; strings and lists are told apart.
LEMMA HeadIs ==
  ASSUME NEW mem \in Seq(Nat), NEW ptr \in Nat \ {0}, NEW offset \in {128, 192},
         NEW len \in Nat, len < Limit, Stands(mem, ptr, Prefix(offset, len))
  PROVE  /\ PayloadOffset(mem, ptr) = Len(Prefix(offset, len))
         /\ ItemLength(mem, ptr) = Len(Prefix(offset, len)) + len
         /\ Byte(mem, ptr) >= offset /\ Byte(mem, ptr) < offset + 64
<1>1. CASE len <= 55
  <2>1. Prefix(offset, len) = <<offset + len>>
    BY <1>1 DEF Prefix
  <2>2. Byte(mem, ptr) = offset + len
    BY <2>1, FirstByteIs
  <2>3. CASE offset = 128
    <3>1. Byte(mem, ptr) \in Nat /\ Byte(mem, ptr) >= 128 /\ Byte(mem, ptr) <= 183 /\ Byte(mem, ptr) = 128 + len
      BY <1>1, <2>2, <2>3
    <3> QED
      BY <2>1, <2>3, <3>1, SizesAre
  <2>4. CASE offset = 192
    <3>1. Byte(mem, ptr) \in Nat /\ Byte(mem, ptr) >= 192 /\ Byte(mem, ptr) <= 247 /\ Byte(mem, ptr) = 192 + len
      BY <1>1, <2>2, <2>4
    <3> QED
      BY <2>1, <2>4, <3>1, SizesAre
  <2> QED
    BY <2>3, <2>4
<1>2. CASE len > 55
  <2> DEFINE d == BigEndian(len)
             k == Len(d)
  <2>1. d \in Seq(Nat) /\ k \in 1 .. 3 /\ Number(d) = len
    BY <1>2, BigEndianBytes, BytesAreNumbers, FewDigits, DigitsAreExact
  <2>2. Prefix(offset, len) = <<offset + 55 + k>> \o d
    BY <1>2 DEF Prefix
  <2>0. k = Len(d)
    OBVIOUS
  <2> HIDE DEF d, k
  <2>3. <<offset + 55 + k>> \in Seq(Nat) /\ Len(<<offset + 55 + k>>) = 1
    BY <2>1
  <2>4. Len(Prefix(offset, len)) = k + 1
    BY <2>0, <2>1, <2>2, <2>3
  <2>5. Stands(mem, ptr, <<offset + 55 + k>>) /\ Stands(mem, ptr + 1, d)
    <3>1. offset + 55 + k \in Nat
      BY <2>1
    <3> QED
      BY <2>1, <2>2, <3>1, HeadAndTail
  <2>6. Byte(mem, ptr) = offset + 55 + k
    BY <2>1, <2>5, FirstByteIs
  <2>7. Word(mem, ptr + 1, k) = len
    BY <2>0, <2>1, <2>5, WordIs
  <2>8. CASE offset = 128
    <3>1. Byte(mem, ptr) \in Nat /\ Byte(mem, ptr) >= 184 /\ Byte(mem, ptr) <= 191 /\ Byte(mem, ptr) - 183 = k
      BY <2>1, <2>6, <2>8
    <3>2. ItemLength(mem, ptr) = len + k + 1 /\ PayloadOffset(mem, ptr) = k + 1
      BY <2>1, <2>7, <3>1, SizesAre
    <3> QED
      BY <2>1, <2>4, <2>8, <3>1, <3>2
  <2>9. CASE offset = 192
    <3>1. Byte(mem, ptr) \in Nat /\ Byte(mem, ptr) > 247 /\ Byte(mem, ptr) - 247 = k
      BY <2>1, <2>6, <2>9
    <3>2. ItemLength(mem, ptr) = len + k + 1 /\ PayloadOffset(mem, ptr) = k + 1
      BY <2>1, <2>7, <3>1, SizesAre
    <3> QED
      BY <2>1, <2>4, <2>9, <3>1, <3>2
  <2> QED
    BY <2>8, <2>9
<1> QED
  BY <1>1, <1>2

----------------------------------------------------------------------------
(* Elements one behind the other. *)

\* f[i] is what the first i elements amount to.
Parts(codes, f) ==
  /\ f[0] = <<>> /\ f[Len(codes)] = Joined(codes)
  /\ \A i \in 0 .. Len(codes) : f[i] \in Seq(Nat)
  /\ \A i \in 1 .. Len(codes) : f[i] = f[i - 1] \o codes[i]

\* The elements joined one by one.
LEMMA JoinedIs ==
  ASSUME NEW codes \in Seq(Seq(Nat))
  PROVE  \E f : Parts(codes, f)
<1> DEFINE n == Len(codes)
           upTo[i \in 0 .. n] == IF i = 0 THEN <<>> ELSE upTo[i - 1] \o codes[i]
<1>0. n \in Nat
  OBVIOUS
<1>1. Joined(codes) = upTo[n]
  BY DEF Joined
<1>2. upTo = [i \in 0 .. n |-> IF i = 0 THEN <<>> ELSE upTo[i - 1] \o codes[i]]
  <2>1. PICK f : OnlyRun("joined", codes, <<>>, f, n)
    BY <1>0, FiniteRunExists
  <2>2. f = [i \in 0 .. n |-> IF i = 0 THEN <<>> ELSE f[i - 1] \o codes[i]]
    BY <2>1 DEF OnlyRun, Runs, LoopTurn
  <2> QED
    BY <2>2
<1> HIDE DEF upTo
<1>3. 0 \in 0 .. n /\ upTo[0] = <<>>
  <2>1. 0 \in 0 .. n
    BY <1>0
  <2> QED
    BY <1>2, <2>1, Zenon
<1>4. ASSUME NEW i \in 1 .. n PROVE upTo[i] = upTo[i - 1] \o codes[i]
  <2>1. i \in 0 .. n /\ i # 0
    BY <1>0
  <2> QED
    BY <1>2, <2>1, Zenon
<1> DEFINE T == {i \in Nat : i <= n => upTo[i] \in Seq(Nat)}
<1>5. 0 \in T
  <2>1. <<>> \in Seq(Nat)
    OBVIOUS
  <2> QED
    BY <1>3, <2>1
<1>6. ASSUME NEW i \in T PROVE i + 1 \in T
  <2> SUFFICES ASSUME i + 1 <= n PROVE upTo[i + 1] \in Seq(Nat)
    OBVIOUS
  <2>1. i + 1 \in 1 .. n /\ (i + 1) - 1 = i /\ upTo[i] \in Seq(Nat)
    BY <1>0
  <2>2. codes[i + 1] \in Seq(Nat)
    BY <2>1, ElementOfSeq
  <2>3. upTo[i + 1] = upTo[i] \o codes[i + 1]
    BY <1>4, <2>1
  <2> QED
    BY <2>1, <2>2, <2>3
<1> HIDE DEF T
<1>7. T = Nat
  BY <1>5, <1>6, SetOfNaturals DEF T
<1>8. \A i \in 0 .. n : upTo[i] \in Seq(Nat)
  BY <1>0, <1>7 DEF T
<1>9. Parts(codes, upTo)
  BY <1>1, <1>3, <1>4, <1>8 DEF Parts
<1> QED
  BY <1>9

\* Where they stand.
LEMMA PartsStand ==
  ASSUME NEW mem \in Seq(Nat), NEW ptr \in Nat \ {0}, NEW codes \in Seq(Seq(Nat)),
         NEW f, Parts(codes, f), Stands(mem, ptr, Joined(codes))
  PROVE  \A i \in 1 .. Len(codes) :
           /\ Len(f[i]) = Len(f[i - 1]) + Len(codes[i])
           /\ ptr + Len(f[i - 1]) \in Nat \ {0}
           /\ Stands(mem, ptr + Len(f[i - 1]), codes[i])
<1> DEFINE n == Len(codes)
           T == {d \in Nat : d <= n => Stands(mem, ptr, f[n - d])}
<1>0. n \in Nat
  OBVIOUS
<1>1. /\ \A i \in 0 .. n : f[i] \in Seq(Nat)
      /\ \A i \in 1 .. n : f[i] = f[i - 1] \o codes[i]
      /\ f[n] = Joined(codes)
  BY DEF Parts
<1>2. \A i \in 1 .. n : codes[i] \in Seq(Nat) /\ f[i - 1] \in Seq(Nat)
  <2> SUFFICES ASSUME NEW i \in 1 .. n PROVE codes[i] \in Seq(Nat) /\ f[i - 1] \in Seq(Nat)
    OBVIOUS
  <2>1. i - 1 \in 0 .. n
    BY <1>0
  <2> QED
    BY <1>1, <2>1, ElementOfSeq
<1> HIDE DEF n
<1>3. ASSUME NEW i \in 1 .. n, Stands(mem, ptr, f[i])
      PROVE  Stands(mem, ptr, f[i - 1]) /\ Stands(mem, ptr + Len(f[i - 1]), codes[i])
  <2>1. Stands(mem, ptr, f[i - 1] \o codes[i])
    BY <1>1, <1>3
  <2>2. codes[i] \in Seq(Nat) /\ f[i - 1] \in Seq(Nat)
    BY <1>2
  <2> QED
    BY <2>1, <2>2, StandsParts
<1>4. 0 \in T
  <2>1. n - 0 = n
    BY <1>0
  <2> QED
    BY <1>1, <2>1
<1>5. ASSUME NEW d \in T PROVE d + 1 \in T
  <2> SUFFICES ASSUME d + 1 <= n PROVE Stands(mem, ptr, f[n - (d + 1)])
    OBVIOUS
  <2>1. n - d \in 1 .. n /\ (n - d) - 1 = n - (d + 1) /\ Stands(mem, ptr, f[n - d])
    BY <1>0
  <2>2. Stands(mem, ptr, f[(n - d) - 1])
    BY <1>3, <2>1
  <2> QED
    BY <2>1, <2>2
<1> HIDE DEF T
<1>6. T = Nat
  BY <1>4, <1>5, SetOfNaturals DEF T
<1>7. ASSUME NEW i \in 1 .. n
      PROVE  /\ Len(f[i]) = Len(f[i - 1]) + Len(codes[i])
             /\ ptr + Len(f[i - 1]) \in Nat \ {0}
             /\ Stands(mem, ptr + Len(f[i - 1]), codes[i])
  <2>1. n - i \in Nat /\ n - i <= n /\ n - (n - i) = i
    BY <1>0
  <2>2. Stands(mem, ptr, f[n - (n - i)])
    BY <1>6, <2>1 DEF T
  <2>3. Stands(mem, ptr + Len(f[i - 1]), codes[i])
    BY <1>3, <2>1, <2>2
  <2>4. codes[i] \in Seq(Nat) /\ f[i - 1] \in Seq(Nat) /\ f[i] = f[i - 1] \o codes[i]
    BY <1>1, <1>2
  <2> QED
    BY <2>3, <2>4
<1> QED
  BY <1>7 DEF n

Filled(codes) == \A i \in 1 .. Len(codes) : Len(codes[i]) > 0

\* Elements that are not empty take at least a byte each.
LEMMA PartsGrow ==
  ASSUME NEW codes \in Seq(Seq(Nat)), NEW f, Parts(codes, f),
         Filled(codes)
  PROVE  \A i \in 0 .. Len(codes) : /\ i <= Len(f[i]) /\ Len(f[i]) \in Nat
                                    /\ Len(f[i]) + (Len(codes) - i) <= Len(Joined(codes))
<1> DEFINE n == Len(codes)
           S == {i \in Nat : i <= n => i <= Len(f[i])}
           T == {d \in Nat : d <= n => Len(f[n - d]) + d <= Len(f[n])}
<1>0. n \in Nat
  OBVIOUS
<1>1. /\ \A i \in 0 .. n : f[i] \in Seq(Nat) /\ Len(f[i]) \in Nat
      /\ f[0] = <<>> /\ f[n] = Joined(codes)
  BY DEF Parts
<1> HIDE DEF n
<1>2. ASSUME NEW i \in 1 .. n PROVE Len(f[i - 1]) + 1 <= Len(f[i])
  <2>1. codes[i] \in Seq(Nat) /\ Len(codes[i]) > 0
    BY ElementOfSeq DEF n, Filled
  <2>2. i - 1 \in 0 .. n
    BY <1>0
  <2>3. f[i - 1] \in Seq(Nat) /\ f[i] = f[i - 1] \o codes[i]
    BY <1>1, <2>2 DEF Parts, n
  <2>4. Len(f[i - 1]) \in Nat /\ Len(codes[i]) \in Nat
    BY <2>1, <2>3
  <2>5. Len(f[i]) = Len(f[i - 1]) + Len(codes[i])
    BY <2>1, <2>3
  <2> QED
    BY <2>1, <2>4, <2>5
<1>3. S = Nat
  <2>1. 0 \in S
    BY <1>0, <1>1
  <2>2. ASSUME NEW i \in S PROVE i + 1 \in S
    <3> SUFFICES ASSUME i + 1 <= n PROVE i + 1 <= Len(f[i + 1])
      OBVIOUS
    <3>1. i + 1 \in 1 .. n /\ (i + 1) - 1 = i /\ i <= Len(f[i]) /\ i \in 0 .. n
      BY <1>0
    <3>2. Len(f[i]) + 1 <= Len(f[i + 1])
      BY <1>2, <3>1
    <3>3. Len(f[i]) \in Nat /\ Len(f[i + 1]) \in Nat
      BY <1>1, <3>1
    <3> QED
      BY <3>1, <3>2, <3>3
  <2> HIDE DEF S
  <2> QED
    BY <2>1, <2>2, SetOfNaturals DEF S
<1>4. T = Nat
  <2>1. 0 \in T
    <3>1. n - 0 = n /\ Len(f[n]) \in Nat
      BY <1>0, <1>1
    <3> QED
      BY <3>1
  <2>2. ASSUME NEW d \in T, d + 1 <= n
        PROVE  Len(f[n - (d + 1)]) + (d + 1) <= Len(f[n])
    <3>1. n - d \in 1 .. n /\ (n - d) - 1 = n - (d + 1) /\ Len(f[n - d]) + d <= Len(f[n])
      BY <1>0, <2>2
    <3>2. Len(f[n - (d + 1)]) + 1 <= Len(f[n - d])
      <4>1. Len(f[(n - d) - 1]) + 1 <= Len(f[n - d])
        BY <1>2, <3>1
      <4> QED
        BY <3>1, <4>1, Zenon
    <3>3. n - d \in 0 .. n /\ n - (d + 1) \in 0 .. n /\ n \in 0 .. n
      BY <1>0, <2>2
    <3>4. Len(f[n - d]) \in Nat /\ Len(f[n - (d + 1)]) \in Nat /\ Len(f[n]) \in Nat
      BY <1>1, <3>3
    <3>5. \A a, b, c \in Nat : a + 1 <= b /\ b + d <= c => a + (d + 1) <= c
      OBVIOUS
    <3> QED
      BY <3>1, <3>2, <3>4, <3>5
  <2>3. ASSUME NEW d \in T PROVE d + 1 \in T
    <3>1. d + 1 \in Nat
      OBVIOUS
    <3>2. d + 1 <= n => Len(f[n - (d + 1)]) + (d + 1) <= Len(f[n])
      BY <2>2
    <3> QED
      BY <3>1, <3>2
  <2> HIDE DEF T
  <2> QED
    BY <2>1, <2>3, SetOfNaturals DEF T
<1>5. ASSUME NEW i \in 0 .. n
      PROVE  i <= Len(f[i]) /\ Len(f[i]) \in Nat /\ Len(f[i]) + (n - i) <= Len(f[n])
  <2>1. n - i \in Nat /\ n - i <= n /\ n - (n - i) = i /\ i \in Nat
    BY <1>0
  <2> QED
    BY <1>1, <1>3, <1>4, <2>1
<1> QED
  BY <1>1, <1>5 DEF n

----------------------------------------------------------------------------
(* The elements that the reader walks over. *)

\* Wherever an encoding stands, the reader sees how long it is.
Measured(mem, codes) ==
  \A i \in 1 .. Len(codes) : \A q \in Nat \ {0} :
    Stands(mem, q, codes[i]) => ItemLength(mem, q) = Len(codes[i])

Start(codes, ptr) == ptr + Len(Prefix(192, Len(Joined(codes))))

\* They are a string of bytes again.
LEMMA JoinedIsSeq ==
  ASSUME NEW codes \in Seq(Seq(Nat))
  PROVE  Joined(codes) \in Seq(Nat) /\ Len(Joined(codes)) \in Nat
<1>1. PICK f : Parts(codes, f)
  BY JoinedIs
<1>2. Len(codes) \in 0 .. Len(codes)
  OBVIOUS
<1>3. Joined(codes) \in Seq(Nat)
  BY <1>1, <1>2 DEF Parts
<1> QED
  BY <1>3

\* An encoded list is its header and its elements.
LEMMA EncodedListIs ==
  ASSUME NEW codes \in Seq(Seq(Nat)), NEW ptr \in Nat \ {0}
  PROVE  /\ EncodeList(codes) \in Seq(Nat) /\ Len(EncodeList(codes)) \in Nat \ {0}
         /\ Start(codes, ptr) \in Nat \ {0}
         /\ ptr + Len(EncodeList(codes)) = Start(codes, ptr) + Len(Joined(codes))
         /\ Len(Joined(codes)) < Len(EncodeList(codes))
<1> DEFINE j == Joined(codes)
           h == Prefix(192, Len(j))
<1>1. j \in Seq(Nat) /\ Len(j) \in Nat
  BY JoinedIsSeq
<1> HIDE DEF j
<1>2. h \in Seq(Nat) /\ Len(h) \in Nat \ {0}
  BY <1>1, PrefixIs
<1> HIDE DEF h
<1>3. h \o j \in Seq(Nat) /\ Len(h \o j) = Len(h) + Len(j)
  BY <1>1, <1>2
<1>4. EncodeList(codes) = h \o j /\ Start(codes, ptr) = ptr + Len(h)
  BY DEF EncodeList, Start, h, j
<1>5. /\ Len(h \o j) \in Nat \ {0} /\ ptr + Len(h) \in Nat \ {0}
      /\ ptr + Len(h \o j) = (ptr + Len(h)) + Len(j) /\ Len(j) < Len(h \o j)
  BY <1>1, <1>2, <1>3
<1>6. Joined(codes) = j
  BY DEF j
<1> QED
  BY <1>3, <1>4, <1>5, <1>6, Zenon

\* A list is seen as one, its elements stand behind its header.
LEMMA ListHead ==
  ASSUME NEW mem \in Seq(Nat), NEW ptr \in Nat \ {0}, NEW codes \in Seq(Seq(Nat)),
         Len(EncodeList(codes)) < Limit, Stands(mem, ptr, EncodeList(codes))
  PROVE  /\ Stands(mem, Start(codes, ptr), Joined(codes))
         /\ ptr + PayloadOffset(mem, ptr) = Start(codes, ptr)
         /\ ItemLength(mem, ptr) = Len(EncodeList(codes))
         /\ Byte(mem, ptr) >= 192
<1> DEFINE j == Joined(codes)
           h == Prefix(192, Len(j))
<1>1. j \in Seq(Nat) /\ Len(j) \in Nat /\ Len(j) < Len(EncodeList(codes))
  BY JoinedIsSeq, EncodedListIs
<1> HIDE DEF j
<1>2. h \in Seq(Nat) /\ Len(h) \in Nat \ {0}
  BY <1>1, PrefixIs
<1>3. EncodeList(codes) = h \o j /\ Start(codes, ptr) = ptr + Len(h)
  BY DEF EncodeList, Start, j
<1>4. Stands(mem, ptr, h) /\ Stands(mem, ptr + Len(h), j)
  BY <1>1, <1>2, <1>3, StandsParts
<1>5. Len(j) < Limit
  <2>1. Len(EncodeList(codes)) \in Nat
    BY EncodedListIs
  <2> QED
    BY <1>1, <2>1, LimitIs
<1>6. /\ PayloadOffset(mem, ptr) = Len(h) /\ ItemLength(mem, ptr) = Len(h) + Len(j)
      /\ Byte(mem, ptr) >= 192
  BY <1>1, <1>4, <1>5, HeadIs
<1>7. Len(h \o j) = Len(h) + Len(j)
  BY <1>1, <1>2
<1> QED
  BY <1>3, <1>4, <1>6, <1>7 DEF j

\* The reader stops where an element begins, and at the end of the list.
LEMMA PlacesAre ==
  ASSUME NEW mem \in Seq(Nat), NEW ptr \in Nat \ {0}, NEW codes \in Seq(Seq(Nat)),
         Filled(codes), Measured(mem, codes),
         Len(EncodeList(codes)) < Limit, Stands(mem, ptr, EncodeList(codes)),
         NEW f, Parts(codes, f)
  PROVE  Places(mem, RLPItem(Len(EncodeList(codes)), ptr)) =
           [i \in 1 .. Len(codes) + 1 |-> Start(codes, ptr) + Len(f[i - 1])]
<1> DEFINE item == RLPItem(Len(EncodeList(codes)), ptr)
           end == item.memPtr + item.len
           at[i \in Nat] == IF i = 0 THEN item.memPtr + PayloadOffset(mem, item.memPtr)
                            ELSE at[i - 1] + ItemLength(mem, at[i - 1])
           P(m) == at[m] >= end /\ \A i \in 0 .. (m - 1) : at[i] < end
           numItems == CHOOSE m \in 0 .. item.len : P(m)
           start == Start(codes, ptr)
           n == Len(codes)
<1>1. Places(mem, item) = [i \in 1 .. numItems + 1 |-> at[i - 1]]
  BY DEF Places
<1>2. item.memPtr = ptr /\ item.len = Len(EncodeList(codes))
  BY DEF RLPItem
<1>3. PICK g : Runs("places", mem, item.memPtr + PayloadOffset(mem, item.memPtr), g, Nat)
  BY RunExists
<1>4. g = [i \in Nat |-> IF i = 0 THEN item.memPtr + PayloadOffset(mem, item.memPtr)
                         ELSE g[i - 1] + ItemLength(mem, g[i - 1])]
  BY <1>3 DEF Runs, LoopTurn
<1>5. at = [i \in Nat |-> IF i = 0 THEN item.memPtr + PayloadOffset(mem, item.memPtr)
                          ELSE at[i - 1] + ItemLength(mem, at[i - 1])]
  BY <1>4
<1> HIDE DEF at, item
<1>6. at[0] = ptr + PayloadOffset(mem, ptr)
  BY <1>2, <1>5
<1>7. \A i \in Nat : at[i + 1] = at[i] + ItemLength(mem, at[i])
  <2> SUFFICES ASSUME NEW i \in Nat PROVE at[i + 1] = at[i] + ItemLength(mem, at[i])
    OBVIOUS
  <2>1. i + 1 \in Nat /\ i + 1 # 0 /\ (i + 1) - 1 = i
    OBVIOUS
  <2>2. at[i + 1] = at[(i + 1) - 1] + ItemLength(mem, at[(i + 1) - 1])
    BY <1>5, <2>1, Zenon
  <2> QED
    BY <2>1, <2>2
<1>8. n \in Nat /\ Len(f[0]) = 0
  BY DEF Parts
<1>9. /\ start \in Nat \ {0} /\ end = start + Len(Joined(codes))
      /\ Len(Joined(codes)) < item.len /\ item.len \in Nat
  BY <1>2, EncodedListIs
<1>10. at[0] = start /\ Stands(mem, start, Joined(codes))
  BY <1>6, ListHead
<1> HIDE DEF start, n, end
<1>11. \A i \in 1 .. n : /\ Len(f[i]) = Len(f[i - 1]) + Len(codes[i])
                         /\ start + Len(f[i - 1]) \in Nat \ {0}
                         /\ Stands(mem, start + Len(f[i - 1]), codes[i])
  <2>1. /\ start \in Nat \ {0} /\ Stands(mem, start, Joined(codes)) /\ Parts(codes, f)
        /\ codes \in Seq(Seq(Nat)) /\ mem \in Seq(Nat)
    BY <1>9, <1>10
  <2> QED
    BY <2>1, PartsStand, Zenon DEF n
<1>12. \A i \in 0 .. n : /\ i <= Len(f[i]) /\ Len(f[i]) \in Nat
                         /\ Len(f[i]) + (n - i) <= Len(Joined(codes))
  BY PartsGrow DEF n
<1> DEFINE T == {i \in Nat : i <= n => at[i] = start + Len(f[i])}
<1>13. 0 \in T
  <2>1. start + 0 = start
    BY <1>9
  <2>2. at[0] = start + Len(f[0])
    BY <1>8, <1>10, <2>1
  <2> QED
    BY <2>2
<1>14. ASSUME NEW i \in T, i + 1 <= n PROVE at[i + 1] = start + Len(f[i + 1])
  <2>1. i + 1 \in 1 .. n /\ (i + 1) - 1 = i /\ i \in Nat /\ i \in 0 .. n /\ i + 1 \in 0 .. n
    BY <1>8, <1>14
  <2>2. at[i] = start + Len(f[i])
    BY <1>14, <2>1
  <2>3. /\ Len(f[i + 1]) = Len(f[i]) + Len(codes[i + 1])
        /\ start + Len(f[i]) \in Nat \ {0}
        /\ Stands(mem, start + Len(f[i]), codes[i + 1])
    BY <1>11, <2>1
  <2>4. ItemLength(mem, at[i]) = Len(codes[i + 1])
    BY <2>1, <2>2, <2>3 DEF Measured, n
  <2>5. at[i + 1] = (start + Len(f[i])) + Len(codes[i + 1])
    BY <1>7, <2>1, <2>2, <2>4
  <2>6. Len(codes[i + 1]) \in Nat /\ Len(f[i]) \in Nat
    <3>1. codes[i + 1] \in Seq(Nat)
      BY <2>1, ElementOfSeq DEF n
    <3> QED
      BY <1>12, <2>1, <3>1
  <2>7. \A a, b, c \in Nat : (a + b) + c = a + (b + c)
    OBVIOUS
  <2>8. start \in Nat
    BY <1>9
  <2>9. (start + Len(f[i])) + Len(codes[i + 1]) = start + (Len(f[i]) + Len(codes[i + 1]))
    BY <2>6, <2>7, <2>8
  <2> QED
    BY <2>3, <2>5, <2>9, Zenon
<1>15. T = Nat
  <2>1. ASSUME NEW i \in T PROVE i + 1 \in T
    <3>1. i + 1 \in Nat
      OBVIOUS
    <3>2. i + 1 <= n => at[i + 1] = start + Len(f[i + 1])
      BY <1>14
    <3> QED
      BY <3>1, <3>2
  <2> HIDE DEF T
  <2> QED
    BY <1>13, <2>1, SetOfNaturals DEF T
<1>16. \A i \in 0 .. n : at[i] = start + Len(f[i])
  <2>1. \A i \in 0 .. n : i \in Nat /\ i <= n
    BY <1>8
  <2>2. \A i \in Nat : i <= n => at[i] = start + Len(f[i])
    BY <1>15
  <2> QED
    BY <2>1, <2>2
<1> HIDE DEF T
<1>17. Len(f[n]) = Len(Joined(codes)) /\ n <= Len(Joined(codes)) /\ Len(Joined(codes)) \in Nat
  <2>1. f[n] = Joined(codes) /\ n \in 0 .. n
    BY <1>8 DEF Parts, n
  <2> QED
    BY <1>12, <2>1
<1>18. at[n] = end /\ end \in Nat
  <2>0. end \in Nat
    BY <1>9, <1>17
  <2>1. n \in 0 .. n
    BY <1>8
  <2> QED
    BY <1>9, <1>16, <1>17, <2>0, <2>1, Zenon
<1>19. \A i \in 0 .. n - 1 : at[i] < end
  <2> SUFFICES ASSUME NEW i \in 0 .. n - 1 PROVE at[i] < end
    OBVIOUS
  <2>1. i \in 0 .. n /\ n - i > 0 /\ n - i \in Nat
    BY <1>8
  <2>2. Len(f[i]) \in Nat /\ Len(f[i]) + (n - i) <= Len(Joined(codes)) /\ at[i] = start + Len(f[i])
    BY <1>12, <1>16, <2>1
  <2> QED
    BY <1>9, <1>17, <2>1, <2>2
<1>20. n \in 0 .. item.len /\ P(n)
  <2>1. n \in 0 .. item.len
    BY <1>8, <1>9, <1>17
  <2>2. at[n] >= end
    BY <1>18
  <2> QED
    BY <1>19, <2>1, <2>2
<1>21. ASSUME NEW m \in 0 .. item.len, P(m) PROVE m = n
  <2>1. ~ (m < n)
    <3> SUFFICES ASSUME m < n PROVE FALSE
      OBVIOUS
    <3>1. m \in 0 .. n - 1 /\ m \in 0 .. n
      BY <1>8, <1>9
    <3>2. at[m] < end /\ at[m] >= end
      BY <1>19, <1>21, <3>1
    <3>3. at[m] \in Nat
      <4>1. start \in Nat
        BY <1>9
      <4>2. Len(f[m]) \in Nat /\ at[m] = start + Len(f[m])
        BY <1>12, <1>16, <3>1
      <4> QED
        BY <4>1, <4>2
    <3> QED
      BY <1>18, <3>2, <3>3
  <2>2. ~ (n < m)
    <3> SUFFICES ASSUME n < m PROVE FALSE
      OBVIOUS
    <3>1. n \in 0 .. m - 1
      BY <1>8, <1>9
    <3>2. at[n] < end
      BY <1>21, <3>1
    <3> QED
      BY <1>18, <3>2
  <2> QED
    BY <1>8, <1>9, <2>1, <2>2
<1>22. numItems = n
  <2> HIDE DEF P
  <2> QED
    BY <1>20, <1>21
<1> HIDE DEF numItems
<1>23. \A i \in 1 .. n + 1 : at[i - 1] = start + Len(f[i - 1])
  <2> SUFFICES ASSUME NEW i \in 1 .. n + 1 PROVE at[i - 1] = start + Len(f[i - 1])
    OBVIOUS
  <2>1. i - 1 \in 0 .. n
    BY <1>8
  <2> QED
    BY <1>16, <2>1
<1>24. Places(mem, item) = [i \in 1 .. n + 1 |-> start + Len(f[i - 1])]
  BY <1>1, <1>22, <1>23
<1> QED
  BY <1>24 DEF item, start, n

\* So the items of the reader are the elements.
LEMMA ToListIs ==
  ASSUME NEW mem \in Seq(Nat), NEW ptr \in Nat \ {0}, NEW codes \in Seq(Seq(Nat)),
         Filled(codes), Measured(mem, codes),
         Len(EncodeList(codes)) < Limit, Stands(mem, ptr, EncodeList(codes)),
         NEW f, Parts(codes, f)
  PROVE  LET item == RLPItem(Len(EncodeList(codes)), ptr)
         IN  /\ ToList(mem, item) =
                  [i \in 1 .. Len(codes) |->
                     RLPItem(Len(codes[i]), Start(codes, ptr) + Len(f[i - 1]))]
             /\ Last(Places(mem, item)) = ptr + Len(EncodeList(codes))
<1> DEFINE item == RLPItem(Len(EncodeList(codes)), ptr)
           places == Places(mem, item)
           n == Len(codes)
           start == Start(codes, ptr)
<1>0. n \in Nat /\ start \in Nat \ {0}
  BY EncodedListIs
<1>1. places = [i \in 1 .. n + 1 |-> start + Len(f[i - 1])]
  <2>1. Places(mem, RLPItem(Len(EncodeList(codes)), ptr)) =
          [i \in 1 .. Len(codes) + 1 |-> Start(codes, ptr) + Len(f[i - 1])]
    BY PlacesAre
  <2> QED
    BY <2>1
<1>2. \A i \in 1 .. n : ItemLength(mem, start + Len(f[i - 1])) = Len(codes[i])
  <2>1. Stands(mem, start, Joined(codes))
    BY ListHead
  <2> HIDE DEF start
  <2>2. \A i \in 1 .. n : /\ start + Len(f[i - 1]) \in Nat \ {0}
                          /\ Stands(mem, start + Len(f[i - 1]), codes[i])
    BY <1>0, <2>1, PartsStand
  <2> QED
    BY <2>2 DEF Measured
<1>3. ToList(mem, item) =
        [i \in 1 .. Len(places) - 1 |-> RLPItem(ItemLength(mem, places[i]), places[i])]
  BY DEF ToList
<1> HIDE DEF places
<1>4. Len(places) = n + 1 /\ places[n + 1] = start + Len(f[n])
  <2>1. n + 1 \in 1 .. n + 1 /\ (n + 1) - 1 = n /\ n + 1 \in Nat
    BY <1>0
  <2>2. places[n + 1] = start + Len(f[(n + 1) - 1])
    BY <1>1, <2>1, Zenon
  <2>3. Len(places) = n + 1
    BY <1>1, <2>1
  <2> QED
    BY <2>1, <2>2, <2>3
<1>5. \A i \in 1 .. n : places[i] = start + Len(f[i - 1])
  <2>1. \A i \in 1 .. n : i \in 1 .. n + 1
    BY <1>0
  <2> QED
    BY <1>1, <2>1, Zenon
<1>6. (n + 1) - 1 = n
  BY <1>0
<1>7. ToList(mem, item) = [i \in 1 .. n |-> RLPItem(ItemLength(mem, places[i]), places[i])]
  BY <1>3, <1>4, <1>6
<1>8. \A i \in 1 .. n : RLPItem(ItemLength(mem, places[i]), places[i]) =
                        RLPItem(Len(codes[i]), start + Len(f[i - 1]))
  BY <1>2, <1>5, Zenon
<1>9. ToList(mem, item) = [i \in 1 .. n |-> RLPItem(Len(codes[i]), start + Len(f[i - 1]))]
  BY <1>7, <1>8
<1>10. Last(places) = ptr + Len(EncodeList(codes))
  <2>1. Last(places) = places[Len(places)]
    BY DEF Last
  <2>2. f[n] = Joined(codes)
    BY DEF Parts
  <2>3. ptr + Len(EncodeList(codes)) = start + Len(Joined(codes))
    BY EncodedListIs
  <2> QED
    BY <1>4, <2>1, <2>2, <2>3, Zenon
<1> QED
  BY <1>9, <1>10 DEF places

----------------------------------------------------------------------------
(* Encoding and decoding, depth by depth. *)

\* Strings and lists are told apart.
LEMMA KindsAre ==
  /\ \A x \in AllStrings : IsString(x) /\ x.str \in Seq(Bytes) /\ x = String(x.str)
  /\ \A S : \A x \in [items : S] : ~ IsString(x) /\ x.items \in S /\ x = List(x.items)
<1>1. \A x \in AllStrings : IsString(x) /\ x.str \in Seq(Bytes) /\ x = String(x.str)
  BY DEF AllStrings, IsString, String
<1>2. \A S : \A x \in [items : S] : ~ IsString(x) /\ x.items \in S /\ x = List(x.items)
  BY DEF IsString, List
<1> QED
  BY <1>1, <1>2

\* What is encoded at a depth, from what is encoded at the depth below.
LEMMA EncodeIs ==
  /\ \A d \in Nat : \A x \in AllStrings : Encode(x, d) = EncodeString(x.str)
  /\ \A d \in Nat : \A items \in Seq(Nested[d]) :
       Encode(List(items), d + 1) = EncodeList([i \in DOMAIN items |-> Encode(items[i], d)])
<1> DEFINE encode[k \in Nat] ==
             [y \in Nested[k] |->
                IF IsString(y) THEN EncodeString(y.str)
                ELSE EncodeList([i \in DOMAIN y.items |-> encode[k - 1][y.items[i]]])]
           First == [y \in Nested[0] |-> EncodeString(y.str)]
<1>1. PICK f : Runs("encode", 0, First, f, Nat)
  BY RunExists
<1>2. f = [k \in Nat |-> IF k = 0 THEN First ELSE EncodeLevel(f[k - 1], k)]
  BY <1>1 DEF Runs, LoopTurn
<1>3. \A k \in Nat : f[k] = EncodeLevel(f[k - 1], k)
  <2>1. f[0] = First
    BY <1>2
  <2>2. First = EncodeLevel(f[0 - 1], 0)
    BY NestedIs, KindsAre DEF EncodeLevel
  <2>3. \A k \in Nat : k # 0 => f[k] = EncodeLevel(f[k - 1], k)
    BY <1>2
  <2> HIDE DEF First
  <2> QED
    BY <2>1, <2>2, <2>3
<1>4. f = [k \in Nat |-> EncodeLevel(f[k - 1], k)]
  BY <1>2, <1>3
<1>5. f = [k \in Nat |->
             [y \in Nested[k] |->
                IF IsString(y) THEN EncodeString(y.str)
                ELSE EncodeList([i \in DOMAIN y.items |-> f[k - 1][y.items[i]]])]]
  BY <1>4 DEF EncodeLevel
<1>6. encode = [k \in Nat |->
             [y \in Nested[k] |->
                IF IsString(y) THEN EncodeString(y.str)
                ELSE EncodeList([i \in DOMAIN y.items |-> encode[k - 1][y.items[i]]])]]
  BY <1>5, Zenon
<1>7. \A x, d : Encode(x, d) = encode[d][x]
  BY DEF Encode
<1> HIDE DEF encode
<1>8. ASSUME NEW d \in Nat, NEW y \in Nested[d]
      PROVE  encode[d][y] =
               IF IsString(y) THEN EncodeString(y.str)
               ELSE EncodeList([i \in DOMAIN y.items |-> encode[d - 1][y.items[i]]])
  <2> DEFINE Turned(v, k) ==
               [z \in Nested[k] |->
                  IF IsString(z) THEN EncodeString(z.str)
                  ELSE EncodeList([i \in DOMAIN z.items |-> v[z.items[i]]])]
  <2>1. encode[d] = Turned(encode[d - 1], d)
    <3>1. encode = [k \in Nat |-> Turned(encode[k - 1], k)]
      BY <1>6, Zenon
    <3> HIDE DEF Turned
    <3> QED
      BY <3>1, Zenon
  <2> QED
    BY <2>1, Zenon
<1>9. ASSUME NEW d \in Nat, NEW x \in AllStrings
      PROVE  Encode(x, d) = EncodeString(x.str)
  <2>1. x \in Nested[d]
    BY StringsAreNested
  <2> QED
    BY <1>7, <1>8, <2>1, KindsAre
<1>10. ASSUME NEW d \in Nat, NEW items \in Seq(Nested[d])
       PROVE  Encode(List(items), d + 1) =
                EncodeList([i \in DOMAIN items |-> Encode(items[i], d)])
  <2>1. List(items) \in Nested[d + 1] /\ ~ IsString(List(items)) /\ List(items).items = items
    <3>1. List(items) \in [items : Seq(Nested[d])] /\ List(items).items = items
      BY DEF List
    <3> QED
      BY <3>1, NestedIs, KindsAre
  <2>2. d + 1 \in Nat /\ (d + 1) - 1 = d
    OBVIOUS
  <2>3. encode[d + 1][List(items)] =
          EncodeList([i \in DOMAIN items |-> encode[(d + 1) - 1][items[i]]])
    BY <1>8, <2>1, <2>2, Zenon
  <2>4. \A i : encode[d][items[i]] = Encode(items[i], d)
    BY <1>7
  <2>5. [i \in DOMAIN items |-> encode[(d + 1) - 1][items[i]]] =
        [i \in DOMAIN items |-> Encode(items[i], d)]
    BY <2>2, <2>4
  <2> QED
    BY <1>7, <2>3, <2>5, Zenon
<1> QED
  BY <1>9, <1>10

\* What the reader finds at an item.
LEMMA DecodeIs ==
  ASSUME NEW mem, NEW it \in RLPItems, NEW d \in Nat
  PROVE  /\ ~ IsList(mem, it) => Decode(mem, it, d) = String(ToBytes(mem, it))
         /\ IsList(mem, it) =>
              Decode(mem, it, d + 1) =
                List([i \in DOMAIN ToList(mem, it) |-> Decode(mem, ToList(mem, it)[i], d)])
<1> DEFINE decode[k \in Nat] ==
             [x \in [len : Nat, memPtr : Nat] |->
                IF k > 0 /\ IsList(mem, x)
                THEN List([i \in DOMAIN ToList(mem, x) |-> decode[k - 1][ToList(mem, x)[i]]])
                ELSE String(ToBytes(mem, x))]
           First == [x \in RLPItems |-> String(ToBytes(mem, x))]
<1>1. PICK f : Runs("decode", mem, First, f, Nat)
  BY RunExists
<1>2. f = [k \in Nat |-> IF k = 0 THEN First ELSE DecodeLevel(f[k - 1], mem)]
  BY <1>1 DEF Runs, LoopTurn
<1> DEFINE Turned(v, k) ==
             [x \in [len : Nat, memPtr : Nat] |->
                IF k > 0 /\ IsList(mem, x)
                THEN List([i \in DOMAIN ToList(mem, x) |-> v[ToList(mem, x)[i]]])
                ELSE String(ToBytes(mem, x))]
<1>3. \A k \in Nat : f[k] = Turned(f[k - 1], k)
  <2>1. f[0] = First
    BY <1>2
  <2>2. First = Turned(f[0 - 1], 0)
    <3>1. ~ (0 > 0)
      OBVIOUS
    <3> QED
      BY <3>1, Zenon DEF RLPItems
  <2>3. ASSUME NEW k \in Nat, k # 0 PROVE f[k] = Turned(f[k - 1], k)
    <3>1. k > 0
      BY <2>3
    <3>2. f[k] = DecodeLevel(f[k - 1], mem)
      BY <1>2, <2>3
    <3>3. DecodeLevel(f[k - 1], mem) = Turned(f[k - 1], k)
      BY <3>1, Zenon DEF DecodeLevel, RLPItems
    <3> QED
      BY <3>2, <3>3, Zenon
  <2> HIDE DEF First, Turned
  <2> QED
    BY <2>1, <2>2, <2>3
<1>4. f = [k \in Nat |-> Turned(f[k - 1], k)]
  <2> HIDE DEF First, Turned
  <2> QED
    BY <1>2, <1>3
<1>5. decode = [k \in Nat |-> Turned(decode[k - 1], k)]
  BY <1>4, Zenon
<1>6. \A x, k : Decode(mem, x, k) = decode[k][x]
  BY DEF Decode
<1> HIDE DEF decode
<1>7. ASSUME NEW k \in Nat, NEW x \in RLPItems
      PROVE  decode[k][x] =
               IF k > 0 /\ IsList(mem, x)
               THEN List([i \in DOMAIN ToList(mem, x) |-> decode[k - 1][ToList(mem, x)[i]]])
               ELSE String(ToBytes(mem, x))
  <2>1. decode[k] = Turned(decode[k - 1], k)
    <3> HIDE DEF Turned
    <3> QED
      BY <1>5, Zenon
  <2>2. x \in [len : Nat, memPtr : Nat]
    BY DEF RLPItems
  <2> QED
    BY <2>1, <2>2, Zenon
<1>8. ~ IsList(mem, it) => Decode(mem, it, d) = String(ToBytes(mem, it))
  BY <1>6, <1>7, Zenon
<1>9. IsList(mem, it) =>
        Decode(mem, it, d + 1) =
          List([i \in DOMAIN ToList(mem, it) |-> Decode(mem, ToList(mem, it)[i], d)])
  <2> SUFFICES ASSUME IsList(mem, it)
               PROVE  Decode(mem, it, d + 1) =
                        List([i \in DOMAIN ToList(mem, it) |-> Decode(mem, ToList(mem, it)[i], d)])
    OBVIOUS
  <2>1. d + 1 \in Nat /\ d + 1 > 0 /\ (d + 1) - 1 = d
    OBVIOUS
  <2>2. decode[d + 1][it] =
          List([i \in DOMAIN ToList(mem, it) |-> decode[(d + 1) - 1][ToList(mem, it)[i]]])
    BY <1>7, <2>1, Zenon
  <2>3. [i \in DOMAIN ToList(mem, it) |-> decode[(d + 1) - 1][ToList(mem, it)[i]]] =
        [i \in DOMAIN ToList(mem, it) |-> Decode(mem, ToList(mem, it)[i], d)]
    BY <1>6, <2>1
  <2> QED
    BY <1>6, <2>2, <2>3, Zenon
<1> QED
  BY <1>8, <1>9

\* What the reader makes of an encoding, wherever it stands.
ReadsBack(code, x, d) ==
  \A mem \in Seq(Nat) : \A ptr \in Nat \ {0} :
    Stands(mem, ptr, code) =>
      ItemLength(mem, ptr) = Len(code) /\ Decode(mem, RLPItem(Len(code), ptr), d) = x

Good(x, d) ==
  /\ Encode(x, d) \in Seq(Nat) /\ Len(Encode(x, d)) \in Nat \ {0}
  /\ Len(Encode(x, d)) < Limit => ReadsBack(Encode(x, d), x, d)

\* The bytes at a place are what stands there.
LEMMA StandingPart ==
  ASSUME NEW mem \in Seq(Nat), NEW ptr \in Nat \ {0}, NEW s \in Seq(Nat), Stands(mem, ptr, s)
  PROVE  SubSeq(mem, ptr, ptr + Len(s) - 1) = s
<1> DEFINE n == Len(s)
           part == SubSeq(mem, ptr, ptr + n - 1)
<1>0. n \in Nat /\ s = [i \in 1 .. n |-> s[i]]
  OBVIOUS
<1> HIDE DEF n
<1>1. CASE n = 0
  <2>1. ptr + n - 1 < ptr /\ s = <<>>
    BY <1>0, <1>1
  <2>2. part = <<>>
    <3>1. ptr \in Int /\ ptr + n - 1 \in Int
      BY <1>0
    <3> QED
      BY <2>1, <3>1, SubSeqEmpty
  <2> QED
    BY <2>1, <2>2 DEF n
<1>2. CASE n # 0
  <2>1. \A i \in 1 .. n : ptr + i - 1 \in 1 .. Len(mem) /\ mem[ptr + i - 1] = s[i]
    BY DEF Stands, n
  <2>2. ptr \in 1 .. Len(mem) + 1 /\ ptr + n - 1 \in ptr - 1 .. Len(mem)
    <3>1. n \in 1 .. n
      BY <1>0, <1>2
    <3>2. ptr + n - 1 \in 1 .. Len(mem) /\ Len(mem) \in Nat
      BY <2>1, <3>1
    <3> QED
      BY <1>0, <1>2, <3>2
  <2>3. /\ part \in Seq(Nat) /\ Len(part) = (ptr + n - 1) - ptr + 1
        /\ \A i \in 1 .. (ptr + n - 1) - ptr + 1 : part[i] = mem[ptr + i - 1]
    BY <2>2, SubSeqProperties
  <2>4. (ptr + n - 1) - ptr + 1 = n
    BY <1>0
  <2> HIDE DEF part
  <2>5. Len(part) = n /\ \A i \in 1 .. n : part[i] = s[i]
    BY <2>1, <2>3, <2>4
  <2>6. part = [i \in 1 .. n |-> part[i]]
    BY <2>3, <2>5
  <2> QED
    BY <1>0, <2>5, <2>6 DEF part, n
<1> QED
  BY <1>1, <1>2

\* An encoded string has at least one byte.
LEMMA EncodedStringIs ==
  ASSUME NEW s \in Seq(Bytes)
  PROVE  EncodeString(s) \in Seq(Nat) /\ Len(EncodeString(s)) \in Nat \ {0}
<1>1. s \in Seq(Nat) /\ Len(s) \in Nat
  BY BytesAreNumbers
<1>2. CASE Len(s) = 1 /\ s[1] < 128
  BY <1>1, <1>2 DEF EncodeString
<1>3. CASE ~ (Len(s) = 1 /\ s[1] < 128)
  <2> DEFINE h == Prefix(128, Len(s))
  <2>1. h \in Seq(Nat) /\ Len(h) \in Nat \ {0}
    BY <1>1, PrefixIs
  <2>2. EncodeString(s) = h \o s
    BY <1>3 DEF EncodeString
  <2> HIDE DEF h
  <2> QED
    BY <1>1, <2>1, <2>2
<1> QED
  BY <1>2, <1>3

\* A string is read as what it is, bytes or a number: the header is taken away, if it
\* has one.
LEMMA StringIsRead ==
  ASSUME NEW s \in Seq(Bytes), NEW mem \in Seq(Nat), NEW ptr \in Nat \ {0},
         Len(EncodeString(s)) < Limit, Stands(mem, ptr, EncodeString(s))
  PROVE  LET item == RLPItem(Len(EncodeString(s)), ptr)
         IN  /\ ItemLength(mem, ptr) = Len(EncodeString(s)) /\ ~ IsList(mem, item)
             /\ ToBytes(mem, item) = s /\ ToUint(mem, item) = Number(s)
<1> DEFINE e == EncodeString(s)
           item == RLPItem(Len(e), ptr)
<1>0. s \in Seq(Nat) /\ Len(s) \in Nat /\ item.memPtr = ptr /\ item.len = Len(e)
  BY BytesAreNumbers DEF RLPItem
<1>1. /\ ToBytes(mem, item) = SubSeq(mem, ptr + PayloadOffset(mem, ptr), ptr + Len(e) - 1)
      /\ ToUint(mem, item) = Word(mem, ptr + PayloadOffset(mem, ptr),
                                  Len(e) - PayloadOffset(mem, ptr))
      /\ Byte(mem, ptr) < 192 => ~ IsList(mem, item)
  <2>1. Byte(mem, ptr) < 192 /\ Byte(mem, ptr) \in Nat => ~ (Byte(mem, ptr) >= 192)
    OBVIOUS
  <2>2. Byte(mem, ptr) \in Nat
    BY ElementOfSeq DEF Byte
  <2> QED
    BY <1>0, <2>1, <2>2, Zenon DEF ToBytes, ToUint, IsList
<1>2. CASE Len(s) = 1 /\ s[1] < 128
  <2>1. e = s
    BY <1>2 DEF EncodeString
  <2>2. Byte(mem, ptr) = s[1] /\ s[1] \in Nat
    <3>1. 1 \in 1 .. Len(s) /\ ptr + 1 - 1 = ptr
      BY <1>2
    <3>2. Byte(mem, ptr + 1 - 1) = s[1]
      BY <1>0, <2>1, <3>1, ByteIs
    <3>3. s[1] \in Nat
      BY <1>0, <3>1, ElementOfSeq
    <3> QED
      BY <3>1, <3>2, <3>3
  <2>3. ItemLength(mem, ptr) = 1 /\ PayloadOffset(mem, ptr) = 0
    BY <1>2, <2>2, SizesAre
  <2>4. ptr + 0 = ptr /\ Len(s) - 0 = Len(s)
    BY <1>0
  <2>5. ToBytes(mem, item) = s
    BY <1>0, <1>1, <2>1, <2>3, <2>4, StandingPart
  <2>6. ToUint(mem, item) = Number(s)
    BY <1>0, <1>1, <2>1, <2>3, <2>4, WordIs
  <2>7. ~ IsList(mem, item)
    BY <1>1, <1>2, <2>2
  <2> QED
    BY <1>2, <2>1, <2>3, <2>5, <2>6, <2>7
<1>3. CASE ~ (Len(s) = 1 /\ s[1] < 128)
  <2> DEFINE h == Prefix(128, Len(s))
  <2>1. h \in Seq(Nat) /\ Len(h) \in Nat \ {0}
    BY <1>0, PrefixIs
  <2>2. e = h \o s
    BY <1>3 DEF EncodeString
  <2>3. Len(h \o s) = Len(h) + Len(s)
    BY <1>0, <2>1
  <2>4. Stands(mem, ptr, h) /\ Stands(mem, ptr + Len(h), s)
    BY <1>0, <2>1, <2>2, StandsParts
  <2>5. Len(s) < Limit
    <3>1. Len(h) + Len(s) < Limit
      BY <2>2, <2>3
    <3> HIDE DEF h
    <3> QED
      BY <1>0, <2>1, <3>1, LimitIs
  <2>6. /\ PayloadOffset(mem, ptr) = Len(h) /\ ItemLength(mem, ptr) = Len(h) + Len(s)
        /\ Byte(mem, ptr) >= 128 /\ Byte(mem, ptr) < 128 + 64
    BY <1>0, <2>4, <2>5, HeadIs
  <2> HIDE DEF h
  <2>7. /\ ptr + Len(h) \in Nat \ {0} /\ (Len(h) + Len(s)) - Len(h) = Len(s)
        /\ ptr + (Len(h) + Len(s)) - 1 = (ptr + Len(h)) + Len(s) - 1
    BY <1>0, <2>1
  <2>8. ToBytes(mem, item) = SubSeq(mem, ptr + Len(h), (ptr + Len(h)) + Len(s) - 1)
    BY <1>1, <2>2, <2>3, <2>6, <2>7
  <2>9. ToBytes(mem, item) = s
    BY <1>0, <2>4, <2>7, <2>8, StandingPart
  <2>10. ToUint(mem, item) = Word(mem, ptr + Len(h), Len(s))
    BY <1>1, <2>2, <2>3, <2>6, <2>7
  <2>11. ToUint(mem, item) = Number(s)
    BY <1>0, <2>4, <2>7, <2>10, WordIs
  <2>12. ~ IsList(mem, item)
    BY <1>1, <2>6
  <2> QED
    BY <2>2, <2>3, <2>6, <2>9, <2>11, <2>12
<1> QED
  BY <1>2, <1>3

\* Strings are read back at every depth.
LEMMA StringsAreGood ==
  ASSUME NEW d \in Nat, NEW x \in AllStrings
  PROVE  Good(x, d)
<1> DEFINE e == EncodeString(x.str)
<1>1. x.str \in Seq(Bytes) /\ x = String(x.str) /\ Encode(x, d) = e
  BY KindsAre, EncodeIs
<1>2. e \in Seq(Nat) /\ Len(e) \in Nat \ {0}
  BY <1>1, EncodedStringIs
<1>3. ASSUME Len(e) < Limit, NEW mem \in Seq(Nat), NEW ptr \in Nat \ {0}, Stands(mem, ptr, e)
      PROVE  ItemLength(mem, ptr) = Len(e) /\ Decode(mem, RLPItem(Len(e), ptr), d) = x
  <2> DEFINE item == RLPItem(Len(e), ptr)
  <2>1. /\ ItemLength(mem, ptr) = Len(e) /\ ~ IsList(mem, item)
        /\ ToBytes(mem, item) = x.str
    BY <1>1, <1>3, StringIsRead
  <2>2. item \in RLPItems
    BY <1>2 DEF RLPItem, RLPItems
  <2>3. Decode(mem, item, d) = String(ToBytes(mem, item))
    BY <2>1, <2>2, DecodeIs
  <2> QED
    BY <1>1, <2>1, <2>3
<1> HIDE DEF e
<1> QED
  BY <1>1, <1>2, <1>3 DEF Good, ReadsBack

Codes(items, d) == [i \in DOMAIN items |-> Encode(items[i], d)]

AllGood(d) == \A x \in Nested[d] : Good(x, d)

\* The encodings of the elements of a list.
LEMMA CodesAre ==
  ASSUME NEW d \in Nat, AllGood(d), NEW items \in Seq(Nested[d])
  PROVE  /\ Codes(items, d) \in Seq(Seq(Nat)) /\ Len(Codes(items, d)) = Len(items)
         /\ Filled(Codes(items, d))
         /\ Encode(List(items), d + 1) = EncodeList(Codes(items, d))
         /\ \A i \in 1 .. Len(items) :
              /\ Codes(items, d)[i] = Encode(items[i], d) /\ items[i] \in Nested[d]
              /\ Good(items[i], d)
<1> DEFINE codes == Codes(items, d)
           n == Len(items)
<1>1. n \in Nat /\ DOMAIN items = 1 .. n
  OBVIOUS
<1>2. codes = [i \in 1 .. n |-> Encode(items[i], d)]
  BY <1>1 DEF Codes
<1>3. Encode(List(items), d + 1) = EncodeList(codes)
  BY EncodeIs DEF Codes
<1> HIDE DEF codes
<1>4. \A i \in 1 .. n : /\ codes[i] = Encode(items[i], d) /\ items[i] \in Nested[d]
                        /\ Good(items[i], d)
  BY <1>1, <1>2, ElementOfSeq DEF AllGood
<1>5. \A i \in 1 .. n : codes[i] \in Seq(Nat) /\ Len(codes[i]) \in Nat \ {0}
  BY <1>4 DEF Good
<1>6. codes = [i \in 1 .. n |-> codes[i]] /\ \A i \in 1 .. n : codes[i] \in Seq(Nat)
  BY <1>2, <1>5
<1>7. codes \in Seq(Seq(Nat)) /\ Len(codes) = n
  BY <1>1, <1>6, FunctionIsSequence
<1>8. Filled(codes)
  <2>1. \A k \in Nat \ {0} : k > 0
    OBVIOUS
  <2> QED
    BY <1>5, <1>7, <2>1 DEF Filled
<1> QED
  BY <1>3, <1>4, <1>7, <1>8 DEF codes

\* Elements of a list that is not too long are not either.
LEMMA CodesAreShort ==
  ASSUME NEW codes \in Seq(Seq(Nat)), Filled(codes), Len(EncodeList(codes)) < Limit
  PROVE  \A i \in 1 .. Len(codes) : Len(codes[i]) < Limit
<1> SUFFICES ASSUME NEW i \in 1 .. Len(codes) PROVE Len(codes[i]) < Limit
  OBVIOUS
<1>1. PICK f : Parts(codes, f)
  BY JoinedIs
<1>2. i \in 0 .. Len(codes) /\ i - 1 \in 0 .. Len(codes) /\ Len(codes) - i \in Nat
  OBVIOUS
<1>3. /\ Len(f[i]) \in Nat /\ Len(f[i]) + (Len(codes) - i) <= Len(Joined(codes))
      /\ Len(f[i - 1]) \in Nat
  BY <1>1, <1>2, PartsGrow
<1>4. Len(f[i]) = Len(f[i - 1]) + Len(codes[i]) /\ Len(codes[i]) \in Nat
  <2>1. codes[i] \in Seq(Nat)
    BY ElementOfSeq
  <2>2. f[i - 1] \in Seq(Nat) /\ f[i] = f[i - 1] \o codes[i]
    BY <1>1, <1>2 DEF Parts
  <2> QED
    BY <2>1, <2>2
<1>5. Len(Joined(codes)) \in Nat
  BY JoinedIsSeq
<1>6. Len(Joined(codes)) < Len(EncodeList(codes)) /\ Len(EncodeList(codes)) \in Nat
  <2>1. 1 \in Nat \ {0}
    OBVIOUS
  <2> QED
    BY <2>1, EncodedListIs
<1>7. Len(codes[i]) <= Len(Joined(codes))
  <2>1. \A a, b, c, j, r \in Nat : a + r <= j /\ a = b + c => c <= j
    OBVIOUS
  <2> QED
    BY <1>2, <1>3, <1>4, <1>5, <2>1
<1> QED
  BY <1>4, <1>5, <1>6, <1>7, LimitIs

\* The items of the reader stand for the elements.
Found(mem, item, items, d) ==
  \A i \in 1 .. Len(items) : \E q \in Nat \ {0} :
    /\ ToList(mem, item)[i] = RLPItem(Len(Encode(items[i], d)), q)
    /\ Stands(mem, q, Encode(items[i], d)) /\ Len(Encode(items[i], d)) < Limit

\* A list is read as what it is, if its elements are.
LEMMA ListIsRead ==
  ASSUME NEW d \in Nat, AllGood(d), NEW items \in Seq(Nested[d]),
         NEW mem \in Seq(Nat), NEW ptr \in Nat \ {0},
         NEW e, e = Encode(List(items), d + 1), Len(e) < Limit, Stands(mem, ptr, e)
  PROVE  LET item == RLPItem(Len(e), ptr)
         IN  /\ ItemLength(mem, ptr) = Len(e)
             /\ Decode(mem, item, d + 1) = List(items)
             /\ Last(Places(mem, item)) = ptr + Len(e)
             /\ Found(mem, item, items, d)
<1> DEFINE codes == Codes(items, d)
           item == RLPItem(Len(e), ptr)
           n == Len(items)
           start == Start(codes, ptr)
<1>1. /\ codes \in Seq(Seq(Nat)) /\ Len(codes) = n /\ Filled(codes) /\ e = EncodeList(codes)
      /\ \A i \in 1 .. n : /\ codes[i] = Encode(items[i], d) /\ items[i] \in Nested[d]
                           /\ Good(items[i], d)
  BY CodesAre
<1> HIDE DEF codes
<1>2. \A i \in 1 .. n : Len(codes[i]) < Limit
  BY <1>1, CodesAreShort
<1>3. \A i \in 1 .. n : ReadsBack(codes[i], items[i], d) /\ Len(codes[i]) \in Nat
  BY <1>1, <1>2 DEF Good
<1>4. Measured(mem, codes)
  BY <1>1, <1>3 DEF Measured, ReadsBack
<1>5. PICK f : Parts(codes, f)
  BY <1>1, JoinedIs
<1>6. /\ ToList(mem, item) = [i \in 1 .. n |-> RLPItem(Len(codes[i]), start + Len(f[i - 1]))]
      /\ Last(Places(mem, item)) = ptr + Len(e)
  <2>1. /\ ToList(mem, RLPItem(Len(EncodeList(codes)), ptr)) =
             [i \in 1 .. Len(codes) |->
                RLPItem(Len(codes[i]), Start(codes, ptr) + Len(f[i - 1]))]
        /\ Last(Places(mem, RLPItem(Len(EncodeList(codes)), ptr))) =
             ptr + Len(EncodeList(codes))
    BY <1>1, <1>4, <1>5, ToListIs, Zenon
  <2> QED
    BY <1>1, <2>1, Zenon
<1>7. /\ Stands(mem, start, Joined(codes)) /\ Byte(mem, ptr) >= 192
      /\ ItemLength(mem, ptr) = Len(e)
  BY <1>1, ListHead
<1>8. start \in Nat \ {0} /\ Len(e) \in Nat \ {0}
  BY <1>1, EncodedListIs
<1> HIDE DEF start
<1>9. \A i \in 1 .. n : /\ start + Len(f[i - 1]) \in Nat \ {0}
                        /\ Stands(mem, start + Len(f[i - 1]), codes[i])
  <2>1. \A i \in 1 .. Len(codes) : /\ start + Len(f[i - 1]) \in Nat \ {0}
                                   /\ Stands(mem, start + Len(f[i - 1]), codes[i])
    BY <1>1, <1>5, <1>7, <1>8, PartsStand
  <2> QED
    BY <1>1, <2>1
<1>10. \A i \in 1 .. n :
         Decode(mem, RLPItem(Len(codes[i]), start + Len(f[i - 1])), d) = items[i]
  BY <1>3, <1>9 DEF ReadsBack
<1>11. IsList(mem, item) /\ item \in RLPItems
  BY <1>7, <1>8 DEF IsList, RLPItem, RLPItems
<1>12. Decode(mem, item, d + 1) = List(items)
  <2>1. DOMAIN ToList(mem, item) = 1 .. n
    BY <1>6
  <2>2. Decode(mem, item, d + 1) = List([i \in 1 .. n |-> Decode(mem, ToList(mem, item)[i], d)])
    BY <1>11, <2>1, DecodeIs
  <2>3. \A i \in 1 .. n : Decode(mem, ToList(mem, item)[i], d) = items[i]
    BY <1>6, <1>10
  <2>4. items = [i \in 1 .. n |-> items[i]]
    OBVIOUS
  <2>5. [i \in 1 .. n |-> Decode(mem, ToList(mem, item)[i], d)] = items
    BY <2>3, <2>4
  <2> QED
    BY <2>2, <2>5
<1>13. ASSUME NEW i \in 1 .. n
       PROVE  \E q \in Nat \ {0} :
                /\ ToList(mem, item)[i] = RLPItem(Len(Encode(items[i], d)), q)
                /\ Stands(mem, q, Encode(items[i], d)) /\ Len(Encode(items[i], d)) < Limit
  <2>1. ToList(mem, item)[i] = RLPItem(Len(codes[i]), start + Len(f[i - 1]))
    BY <1>6
  <2>2. codes[i] = Encode(items[i], d)
    BY <1>1
  <2> QED
    BY <1>2, <1>9, <2>1, <2>2
<1> QED
  BY <1>6, <1>7, <1>12, <1>13, Zenon DEF Found

\* So things of any depth are: wherever in its memory an encoding of the library stands,
\* whatever is before and behind it, RLPReader.sol sees how long it is and finds in it
\* what was encoded.
THEOREM EncodingsAreRead == \A d \in Nat : AllGood(d)
<1> DEFINE S == {d \in Nat : AllGood(d)}
<1>1. 0 \in S
  BY NestedIs, StringsAreGood DEF AllGood
<1>2. ASSUME NEW d \in Nat, AllGood(d) PROVE AllGood(d + 1)
  <2> SUFFICES ASSUME NEW x \in Nested[d + 1] PROVE Good(x, d + 1)
    BY DEF AllGood
  <2>1. CASE x \in AllStrings
    BY <2>1, StringsAreGood
  <2>2. CASE x \in [items : Seq(Nested[d])]
    <3> DEFINE items == x.items
               e == Encode(x, d + 1)
    <3>1. items \in Seq(Nested[d]) /\ x = List(items)
      BY <2>2, KindsAre
    <3> HIDE DEF items
    <3>2. Codes(items, d) \in Seq(Seq(Nat)) /\ e = EncodeList(Codes(items, d))
      BY <1>2, <3>1, CodesAre
    <3>3. e \in Seq(Nat) /\ Len(e) \in Nat \ {0}
      <4>1. 1 \in Nat \ {0}
        OBVIOUS
      <4> QED
        BY <3>2, <4>1, EncodedListIs
    <3>4. ASSUME Len(e) < Limit, NEW mem \in Seq(Nat), NEW ptr \in Nat \ {0},
                 Stands(mem, ptr, e)
          PROVE  ItemLength(mem, ptr) = Len(e) /\ Decode(mem, RLPItem(Len(e), ptr), d + 1) = x
      BY <1>2, <3>1, <3>4, ListIsRead
    <3> QED
      BY <3>3, <3>4 DEF Good, ReadsBack
  <2> QED
    BY <2>1, <2>2, NestedIs
<1>3. \A d \in S : d + 1 \in S
  BY <1>2
<1> HIDE DEF S
<1>4. S = Nat
  BY <1>1, <1>3, SetOfNaturals DEF S
<1> QED
  BY <1>4 DEF S

----------------------------------------------------------------------------
(* What is encoded. *)

RlpInv ==
  /\ depth \in Nat \ {0} /\ data \in [items : Seq(Nested[depth - 1])]
  /\ Len(Encode(data, depth)) < Limit

\* The empty list is encoded as one byte.
LEMMA RlpInvStarts == RlpInit => RlpInv
<1> SUFFICES ASSUME RlpInit PROVE RlpInv
  OBVIOUS
<1> DEFINE d == 0
           none == <<>>
<1>1. data = List(none) /\ depth = d + 1 /\ depth = 1 /\ d \in Nat
  BY DEF RlpInit
<1>2. none \in Seq(Nested[d]) /\ DOMAIN none = {} /\ depth - 1 = d
  BY <1>1
<1>3. data \in [items : Seq(Nested[d])]
  BY <1>1, <1>2 DEF List
<1>4. Encode(data, depth) = <<192>>
  <2> DEFINE codes == [i \in DOMAIN none |-> Encode(none[i], d)]
  <2> HIDE DEF d
  <2>1. Encode(data, depth) = EncodeList(codes)
    BY <1>1, <1>2, EncodeIs
  <2>2. codes = <<>> /\ <<>> \in Seq(Seq(Nat)) /\ Len(<<>>) = 0
    BY <1>2
  <2>3. Joined(<<>>) = <<>>
    <3>1. PICK f : Parts(<<>>, f)
      BY <2>2, JoinedIs
    <3> QED
      BY <2>2, <3>1 DEF Parts
  <2>4. Prefix(192, 0) = <<192>>
    BY DEF Prefix
  <2>5. EncodeList(<<>>) = Prefix(192, 0) \o <<>>
    BY <2>2, <2>3 DEF EncodeList
  <2> QED
    BY <2>1, <2>2, <2>4, <2>5
<1>5. Len(<<192>>) < Limit
  <2>1. Len(<<192>>) = 1 /\ 1 < 256 * (256 * 256)
    OBVIOUS
  <2> QED
    BY <2>1, LimitIs
<1> HIDE DEF d
<1>6. depth \in Nat \ {0} /\ data \in [items : Seq(Nested[depth - 1])]
  BY <1>1, <1>2, <1>3
<1> QED
  BY <1>4, <1>5, <1>6, Zenon DEF RlpInv

\* Lists grow and are wrapped within the bound.
LEMMA RlpInvStays == RlpInv /\ [RlpNext]_<<data, depth>> => RlpInv'
<1> SUFFICES ASSUME RlpInv, [RlpNext]_<<data, depth>> PROVE RlpInv'
  OBVIOUS
<1>1. depth \in Nat \ {0} /\ data \in [items : Seq(Nested[depth - 1])]
  BY DEF RlpInv
<1>2. data.items \in Seq(Nested[depth - 1]) /\ data = List(data.items)
  BY <1>1, KindsAre
<1>3. depth - 1 \in Nat /\ (depth - 1) + 1 = depth
  BY <1>1
<1>4. ASSUME NEW n \in Nat, n <= MaxBytes PROVE n < Limit
  <2>1. MaxBytes \in 0 .. Limit - 1
    BY RlpAssumption, Zenon DEF Limit
  <2>2. \A a, b, c \in Nat : a <= b /\ b <= c - 1 => a < c
    OBVIOUS
  <2>3. MaxBytes \in Nat /\ MaxBytes <= Limit - 1
    <3>1. \A c \in Nat : \A a \in 0 .. c - 1 : a \in Nat /\ a <= c - 1
      OBVIOUS
    <3> QED
      BY <2>1, <3>1, LimitIs, Zenon
  <2> QED
    BY <1>4, <2>2, <2>3, LimitIs
<1>5. CASE Wrap
  <2>1. data' = List(<<data>>) /\ depth' = depth + 1 /\ Len(Encode(data', depth')) <= MaxBytes
    BY <1>5 DEF Wrap
  <2>2. data \in Nested[depth]
    BY <1>1, <1>3, NestedIs
  <2>3. data' \in [items : Seq(Nested[depth])] /\ depth' - 1 = depth /\ depth' \in Nat \ {0}
    <3>1. \A S : \A x \in S : <<x>> \in Seq(S)
      OBVIOUS
    <3>2. List(<<data>>) \in [items : Seq(Nested[depth])]
      BY <2>2, <3>1, Zenon DEF List
    <3> QED
      BY <1>1, <2>1, <3>2
  <2>4. data' \in Nested[depth']
    <3>1. depth \in Nat /\ depth' = depth + 1
      BY <1>1, <2>1
    <3> QED
      BY <2>3, <3>1, NestedIs
  <2>5. Len(Encode(data', depth')) \in Nat
    BY <2>3, <2>4, EncodingsAreRead DEF AllGood, Good
  <2> QED
    BY <1>4, <2>1, <2>3, <2>5 DEF RlpInv
<1>6. ASSUME NEW s \in Strings, AddElement(s) PROVE RlpInv'
  <2>1. /\ data' = List(Append(data.items, String(s))) /\ depth' = depth
        /\ Len(Encode(data', depth')) <= MaxBytes
    BY <1>6 DEF AddElement
  <2>2. String(s) \in Nested[depth - 1]
    <3>1. s \in Seq(Bytes)
      BY RlpAssumption
    <3>2. String(s) \in AllStrings
      BY <3>1 DEF AllStrings, String
    <3> QED
      BY <1>3, <3>2, StringsAreNested
  <2>3. Append(data.items, String(s)) \in Seq(Nested[depth - 1])
    BY <1>2, <2>2, AppendProperties
  <2>4. data' \in [items : Seq(Nested[depth' - 1])] /\ depth' \in Nat \ {0}
    BY <1>1, <2>1, <2>3 DEF List
  <2>5. data' \in Nested[depth']
    <3>1. data' \in Nested[(depth - 1) + 1]
      BY <1>3, <2>1, <2>4, NestedIs
    <3> QED
      BY <1>3, <2>1, <3>1
  <2>6. Len(Encode(data', depth')) \in Nat
    BY <2>4, <2>5, EncodingsAreRead DEF AllGood, Good
  <2> QED
    BY <1>4, <2>1, <2>4, <2>6 DEF RlpInv
<1>7. CASE UNCHANGED <<data, depth>>
  BY <1>7 DEF RlpInv
<1> QED
  BY <1>5, <1>6, <1>7 DEF RlpNext

\* What the reader finds is what depth by depth has been shown.
LEMMA RlpInvReads == RlpInv => ReaderInvertsEncoder
<1> SUFFICES ASSUME RlpInv PROVE ReaderInvertsEncoder
  OBVIOUS
<1> DEFINE mem  == Encode(data, depth)
           item == ToRlpItem(mem)
           items == data.items
<1>1. PICK d \in Nat : depth = d + 1 /\ data \in [items : Seq(Nested[d])]
  <2>1. depth - 1 \in Nat /\ depth = (depth - 1) + 1 /\ data \in [items : Seq(Nested[depth - 1])]
    BY DEF RlpInv
  <2> QED
    BY <2>1
<1>2. items \in Seq(Nested[d]) /\ data = List(items)
  BY <1>1, KindsAre
<1> HIDE DEF items
<1>3. mem \in Seq(Nat) /\ Len(mem) \in Nat \ {0} /\ Len(mem) < Limit
  <2>1. data \in Nested[d + 1] /\ d + 1 \in Nat
    BY <1>1, NestedIs
  <2>2. Good(data, depth)
    BY <1>1, <2>1, EncodingsAreRead DEF AllGood
  <2> QED
    BY <2>2 DEF RlpInv, Good
<1>4. mem = Encode(List(items), d + 1)
  BY <1>1, <1>2
<1>5. item = RLPItem(Len(mem), 1)
  BY DEF ToRlpItem
<1> HIDE DEF mem, item
<1>6. Stands(mem, 1, mem)
  <2>1. \A i \in 1 .. Len(mem) : 1 + i - 1 = i
    BY <1>3
  <2> QED
    BY <2>1 DEF Stands
<1>7. AllGood(d) /\ 1 \in Nat \ {0}
  BY EncodingsAreRead
<1>8. /\ Decode(mem, item, d + 1) = List(items) /\ Last(Places(mem, item)) = 1 + Len(mem)
      /\ \A i \in 1 .. Len(items) : \E q \in Nat \ {0} :
           /\ ToList(mem, item)[i] = RLPItem(Len(Encode(items[i], d)), q)
           /\ Stands(mem, q, Encode(items[i], d)) /\ Len(Encode(items[i], d)) < Limit
  <2>1. /\ Decode(mem, RLPItem(Len(mem), 1), d + 1) = List(items)
        /\ Last(Places(mem, RLPItem(Len(mem), 1))) = 1 + Len(mem)
        /\ Found(mem, RLPItem(Len(mem), 1), items, d)
    BY <1>2, <1>3, <1>4, <1>6, <1>7, ListIsRead
  <2> QED
    BY <1>5, <2>1, Zenon DEF Found
<1>9. ASSUME NEW i \in DOMAIN items, IsString(items[i])
      PROVE  ToUint(mem, ToList(mem, item)[i]) = Number(items[i].str)
  <2>1. i \in 1 .. Len(items) /\ items[i] \in Nested[d]
    BY <1>2, ElementOfSeq
  <2>2. PICK q \in Nat \ {0} :
          /\ ToList(mem, item)[i] = RLPItem(Len(Encode(items[i], d)), q)
          /\ Stands(mem, q, Encode(items[i], d)) /\ Len(Encode(items[i], d)) < Limit
    BY <1>8, <2>1
  <2>3. items[i] \in AllStrings
    BY <1>9, <2>1, OnlyStrings
  <2>4. Encode(items[i], d) = EncodeString(items[i].str) /\ items[i].str \in Seq(Bytes)
    BY <2>3, EncodeIs, KindsAre
  <2> QED
    BY <1>3, <2>2, <2>4, StringIsRead
<1>10. 1 + Len(mem) = Len(mem) + 1
  BY <1>3
<1>11. Decode(mem, item, depth) = data /\ Last(Places(mem, item)) = Len(mem) + 1
  BY <1>1, <1>2, <1>8, <1>10
<1> QED
  BY <1>9, <1>11 DEF ReaderInvertsEncoder, mem, item, items

\* RLPReader.sol finds in every encoding of the library what was encoded, element by
\* element, however many elements there are and however deep they are nested.
THEOREM ReaderIsExact == RlpSpec => []ReaderInvertsEncoder
<1>1. RlpInit => RlpInv
  BY RlpInvStarts
<1>2. RlpInv /\ [RlpNext]_<<data, depth>> => RlpInv'
  BY RlpInvStays
<1>3. RlpInv => ReaderInvertsEncoder
  BY RlpInvReads
<1> QED
  BY <1>1, <1>2, <1>3, PTL DEF RlpSpec
============================================================================
