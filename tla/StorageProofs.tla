--------------------------- MODULE StorageProofs ---------------------------
(***************************************************************************)
(* The state proofs of contracts/spv/lib: StateProofVerifier.sol over      *)
(* MerklePatriciaProofVerifier.sol, and verify of StateSpv.sol, with the   *)
(* tries and proofs of an Ethereum node.  RLP items are strings or lists   *)
(* with the length of their encoding (module RlpReader is about reading    *)
(* them); a hash is a string of 32 bytes that holds what was hashed, so    *)
(* keccak256 is injective; a number and an encoding within a string are    *)
(* one element of it.                                                      *)
(***************************************************************************)
EXTENDS Naturals, Sequences, SequencesExt

CONSTANTS
  Addresses,   \* addresses asked for
  Contract,    \* the one whose storage changes
  Others,      \* other accounts
  Positions,   \* storage positions asked for
  Values,      \* what a position may hold, with 0 for nothing
  Key,         \* Key[a], Key[p]: the 64 nibbles of keccak256(a), keccak256(p)
  Size,        \* Size[v]: the bytes of a number
  MaxBlocks    \* bound: blocks

\* Nibbles, the same for no two addresses and no two positions.
ASSUME KeyAssumption ==
  /\ Key \in [Addresses \cup Positions -> [1 .. 64 -> 0 .. 15]]
  /\ \A a, b \in Addresses : a # b => Key[a] # Key[b]
  /\ \A p, q \in Positions : p # q => Key[p] # Key[q]

ASSUME StateAssumption ==
  /\ Others \cup {Contract} \subseteq Addresses
  /\ 0 \in Values /\ \A v \in Values \ {0} : Size[v] \in 1 .. 32

VARIABLE blocks  \* blocks[n][p]: what position p of Contract holds in block n

----------------------------------------------------------------------------
(* RLP items. *)

HeaderLen(payload) == IF payload <= 55 THEN 1 ELSE IF payload <= 255 THEN 2 ELSE 3

\* A string; one of a single byte, below 128 here, is its own encoding.
Str(bytes, n) ==
  [bytes |-> bytes, len |-> IF n = 1 THEN 1 ELSE HeaderLen(n) + n]

ListOf(items) ==
  LET upTo[i \in 0 .. Len(items)] == IF i = 0 THEN 0 ELSE upTo[i - 1] + items[i].len
      payload == upTo[Len(items)]
  IN  [items |-> items, len |-> HeaderLen(payload) + payload]

IsListItem(x) == "items" \in DOMAIN x

EmptyStr   == Str(<<>>, 0)
Uint(v)    == IF v = 0 THEN EmptyStr ELSE Str(<<v>>, Size[v])
HashStr(h) == Str(<<h>>, 32)
EncStr(x)  == Str(<<[rlp |-> x]>>, x.len)

KeccakRlp(x)     == [keccakRlp |-> x]
KeccakBytes(b)   == [keccakBytes |-> b]
EmptyTrie        == KeccakRlp(EmptyStr)

----------------------------------------------------------------------------
(* An Ethereum node. *)

\* The nibbles packed into bytes behind a flag.
Compact(nibbles, isLeaf) ==
  LET flag == IF isLeaf THEN 2 ELSE 0
      odd  == Len(nibbles) % 2
      all  == (IF odd = 1 THEN <<flag + 1>> ELSE <<flag, 0>>) \o nibbles
      n    == Len(all) \div 2
  IN  Str([i \in 1 .. n |-> all[2 * i - 1] * 16 + all[2 * i]], n)

\* A child of fewer than 32 bytes is in its parent, another one's hash is.
IsShort(node) == node.len < 32

Ref(node) == IF IsShort(node) THEN node ELSE HashStr(KeccakRlp(node))

\* A trie maps the keys of f to strings.  Each node of it stands for a set K of
\* keys that share their first n nibbles.
Several(K) == \E k, l \in K : k # l

\* How many nibbles several keys share.
Parting(K) ==
  CHOOSE m \in 0 .. 63 : /\ \E k, l \in K : k[m + 1] # l[m + 1]
                         /\ \A k, l \in K, i \in 1 .. m : k[i] = l[i]

Under(K, n, nibble) == {k \in K : k[n + 1] = nibble}

\* A leaf, an extension, or branch[K] where the keys part.
Node(f, branch, K, n) ==
  LET k == CHOOSE k \in K : TRUE
  IN  CASE ~Several(K) -> ListOf(<<Compact(SubSeq(k, n + 1, 64), TRUE), f[k]>>)
        [] Several(K) /\ n < Parting(K) ->
             ListOf(<<Compact(SubSeq(k, n + 1, Parting(K)), FALSE), Ref(branch[K])>>)
        [] OTHER -> branch[K]

Child(f, branch, K, nibble) ==
  LET L == Under(K, Parting(K), nibble)
  IN  IF L = {} THEN EmptyStr ELSE Ref(Node(f, branch, L, Parting(K) + 1))

Branches(f) ==
  LET branch[K \in {L \in SUBSET DOMAIN f : Several(L)}] ==
        ListOf([i \in 1 .. 17 |-> Child(f, branch, K, i - 1)])
  IN  branch

Trie(f, K, n) == Node(f, Branches(f), K, n)

TrieRoot(f) == IF DOMAIN f = {} THEN EmptyTrie ELSE KeccakRlp(Trie(f, DOMAIN f, 0))

\* The keys that begin like a key.
Sharing(f, key, n) == {k \in DOMAIN f : \A i \in 1 .. n : k[i] = key[i]}

\* From the node behind n nibbles the way to a key leads to the node behind these.
Further(f, key, n) ==
  LET m == Parting(Sharing(f, key, n)) IN IF n < m THEN m ELSE n + 1

GoesOn(f, key, n) ==
  Several(Sharing(f, key, n)) /\ Sharing(f, key, Further(f, key, n)) # {}

NextNode(f, key, n) ==
  LET next == Further(f, key, n) IN Trie(f, Sharing(f, key, next), next)

NoNode == 65

\* The next node that has a hash, as far as there is one.
Below(f, key, n) ==
  IF n # NoNode /\ GoesOn(f, key, n) /\ ~IsShort(NextNode(f, key, n))
  THEN Further(f, key, n) ELSE NoNode

\* eth_getProof: the root node and those on the way.
Prove(f, key) ==
  LET way[i \in Nat] == IF i = 0 THEN 0 ELSE Below(f, key, way[i - 1])
      nodes == CHOOSE n \in 1 .. 65 : way[n] = NoNode /\ \A i \in 0 .. n - 1 : way[i] # NoNode
  IN  IF DOMAIN f = {} THEN <<>>
      ELSE [i \in 1 .. nodes |-> Trie(f, Sharing(f, key, way[i - 1]), way[i - 1])]

StorageTrie(storage) ==
  [k \in {Key[p] : p \in {q \in Positions : storage[q] # 0}} |->
     EncStr(Uint(storage[CHOOSE p \in Positions : Key[p] = k]))]

CodeHash == KeccakBytes("code")

AccountOf(a, storage) ==
  ListOf(<<Uint(1), Uint(0),
           HashStr(IF a = Contract THEN TrieRoot(StorageTrie(storage)) ELSE EmptyTrie),
           HashStr(CodeHash)>>)

StateTrie(storage) ==
  [k \in {Key[a] : a \in Others \cup {Contract}} |->
     EncStr(AccountOf(CHOOSE a \in Others \cup {Contract} : Key[a] = k, storage))]

\* The fields of a block's header as the gateways list them.
HeaderRlp(n) ==
  ListOf([i \in 1 .. 14 |->
    CASE i = 4  -> HashStr(TrieRoot(StateTrie(blocks[n])))
      [] i = 9  -> Str(<<n>>, 1)
      [] OTHER -> EmptyStr])

----------------------------------------------------------------------------
(* MerklePatriciaProofVerifier.sol.  An outcome is a revert or a value, the   *)
(* empty string for none; Going stands for no outcome yet.                    *)

Revert     == [revert |-> TRUE]
Value(b)   == [revert |-> FALSE, bytes |-> b]
NoValue    == Value(<<>>)
Going      == [going |-> TRUE]

HasValue(x) == ~x.revert /\ x.bytes # <<>>

\* The nibbles of a string of bytes without the first ones.
DecodeNibbles(compact, skipNibbles) ==
  [i \in 1 .. 2 * Len(compact) - skipNibbles |->
     LET n == i + skipNibbles - 1
     IN  IF n % 2 = 0 THEN compact[n \div 2 + 1] \div 16 ELSE compact[n \div 2 + 1] % 16]

\* The flag is 0, 1, 2 or 3: a leaf from 2 on, an odd number of nibbles if odd.
CompactDecode(compact) ==
  LET flag == compact[1] \div 16
  IN  [isLeaf |-> flag \in {2, 3}, key |-> DecodeNibbles(compact, 2 - (flag % 2))]

SharedPrefixLength(offset, xs, ys) ==
  CHOOSE n \in 0 .. Len(ys) :
    /\ n + offset <= Len(xs) /\ \A i \in 1 .. n : xs[i + offset] = ys[i]
    /\ n = Len(ys) \/ n + offset = Len(xs) \/ xs[n + 1 + offset] # ys[n + 1]

MptHashHash(x) ==
  IF x.len < 32 THEN KeccakRlp(x) ELSE KeccakBytes(KeccakRlp(x))

\* What the parent says of a child: the hash of its hash, or its own.
ChildHash(x) == IF IsListItem(x) THEN KeccakRlp(x) ELSE KeccakBytes(x.bytes[1])

Ends(st, outcome) == [st EXCEPT !.out = outcome]

\* A leaf or an extension.
VisitShort(st, node, key, isLast) ==
  LET compact == CompactDecode(node[1].bytes)
      prefix  == SharedPrefixLength(st.offset, key, compact.key)
      offset  == st.offset + prefix
  IN  CASE prefix < Len(compact.key) -> Ends(st, IF isLast THEN NoValue ELSE Revert)
        [] prefix = Len(compact.key) /\ compact.isLeaf ->
             Ends(st, IF ~isLast THEN Revert
                      ELSE IF offset < Len(key) THEN NoValue ELSE Value(node[2].bytes))
        [] OTHER -> IF isLast THEN Ends(st, Revert)
                    ELSE [st EXCEPT !.offset = offset, !.hash = ChildHash(node[2])]

VisitBranch(st, node, key, isLast) ==
  IF st.offset = Len(key) THEN Ends(st, IF isLast THEN Value(node[17].bytes) ELSE Revert)
  ELSE LET child == node[key[st.offset + 1] + 1]
       IN  IF child.len = 1 THEN Ends(st, IF isLast THEN NoValue ELSE Revert)
           ELSE [st EXCEPT !.offset = @ + 1, !.hash = ChildHash(child)]

\* Variant: the nodes below the root are taken as they come.
VisitUnchecked(key, rootHash, stack, st, i) ==
  CASE st.out # Going -> st
    [] st.out = Going /\ i = 1 /\ KeccakRlp(stack[i]) # rootHash -> Ends(st, Revert)
    [] OTHER -> IF Len(stack[i].items) = 2
                THEN VisitShort(st, stack[i].items, key, i = Len(stack))
                ELSE VisitBranch(st, stack[i].items, key, i = Len(stack))

\* Node i of the proof: its hash is the one that leads to it.
Visit(key, rootHash, stack, st, i) ==
  CASE st.out # Going -> st
    [] st.out = Going /\ IF i = 1 THEN KeccakRlp(stack[i]) # rootHash
                         ELSE MptHashHash(stack[i]) # st.hash -> Ends(st, Revert)
    [] OTHER -> IF Len(stack[i].items) = 2
                THEN VisitShort(st, stack[i].items, key, i = Len(stack))
                ELSE VisitBranch(st, stack[i].items, key, i = Len(stack))

\* A proof that ends where the trie goes on has no value either.
ExtractProofValue(rootHash, key, stack) ==
  IF stack = <<>> THEN IF rootHash = EmptyTrie THEN NoValue ELSE Revert
  ELSE LET state[i \in 0 .. Len(stack)] ==
             IF i = 0 THEN [offset |-> 0, hash |-> rootHash, out |-> Going]
             ELSE Visit(key, rootHash, stack, state[i - 1], i)
           st == state[Len(stack)]
       IN  IF st.out = Going THEN NoValue ELSE st.out

----------------------------------------------------------------------------
(* StateProofVerifier.sol and verify of StateSpv.sol. *)

ParseBlockHeader(header) ==
  [stateRootHash |-> header.items[4].bytes[1], number |-> header.items[9].bytes[1]]

Decoded(outcome) == outcome.bytes[1].rlp

ExtractAccount(a, stateRootHash, proof) ==
  ExtractProofValue(stateRootHash, Key[a], proof)

StorageRoot(outcome) == Decoded(outcome).items[3].bytes[1]

ExtractSlotValue(p, storageRootHash, proof) ==
  ExtractProofValue(storageRootHash, Key[p], proof)

SlotValue(outcome) == Decoded(outcome).bytes[1]

Verify(p, a, v, root, accountProof, storageProof) ==
  LET account == ExtractAccount(a, root, accountProof)
      slot    == ExtractSlotValue(p, StorageRoot(account), storageProof)
  IN  HasValue(account) /\ HasValue(slot) /\ SlotValue(slot) = v

----------------------------------------------------------------------------
(* Blocks. *)

StorageInit == blocks = <<>>

\* The contract is deployed: nothing is stored.
Genesis == blocks = <<>> /\ blocks' = <<[p \in Positions |-> 0]>>

\* A transaction writes position p.
Store(p, v) ==
  /\ Len(blocks) \in 1 .. (MaxBlocks - 1) /\ Last(blocks)[p] # v
  /\ blocks' = Append(blocks, [Last(blocks) EXCEPT ![p] = v])

StorageNext == Genesis \/ \E p \in Positions, v \in Values : Store(p, v)

StorageSpec == StorageInit /\ [][StorageNext]_blocks

----------------------------------------------------------------------------
(* Property. *)

Root(n) == ParseBlockHeader(HeaderRlp(n)).stateRootHash

AccountProof(n, a) == Prove(StateTrie(blocks[n]), Key[a])
StorageProof(n, p) == Prove(StorageTrie(blocks[n]), Key[p])

\* On the way to a key is a node that is in its parent: eth_getProof leaves it out.
Embedded(f, key) ==
  \E n \in 0 .. 63 : GoesOn(f, key, n) /\ IsShort(NextNode(f, key, n))

\* Against the header of a block, the proof an Ethereum node makes for an account
\* and a position in that block proves exactly what is stored there, also where
\* nothing is, unless a node is embedded; one made for another block, address or
\* position proves that or nothing.  Hence a storage proof may be represented by the
\* value it proves (modules StateSpv and DirectSpv).
ProofsAreExact ==
  \A m, n \in DOMAIN blocks : Len(blocks) \in {m, n} =>
    /\ \A a, b \in Addresses :
         LET account == ExtractAccount(a, Root(m), AccountProof(n, b))
         IN  /\ HasValue(account) =>
                  /\ a \in Others \cup {Contract}
                  /\ Decoded(account) = AccountOf(a, blocks[m])
             /\ m = n /\ a = b /\ ~Embedded(StateTrie(blocks[m]), Key[a]) =>
                  ~account.revert /\ (HasValue(account) <=> a \in Others \cup {Contract})
    /\ \A p, q \in Positions :
         LET root == TrieRoot(StorageTrie(blocks[m]))
             slot == ExtractSlotValue(p, root, StorageProof(n, q))
         IN  /\ HasValue(slot) => SlotValue(slot) = blocks[m][p]
             /\ m = n /\ p = q /\ ~Embedded(StorageTrie(blocks[m]), Key[p]) =>
                  ~slot.revert /\ (HasValue(slot) <=> blocks[m][p] # 0)
    /\ \A p \in Positions, v \in Values \ {0} :
         LET verified == Verify(p, Contract, v, Root(m),
                                AccountProof(m, Contract), StorageProof(m, p))
         IN  /\ verified => blocks[m][p] = v
             /\ ~Embedded(StateTrie(blocks[m]), Key[Contract])
                /\ ~Embedded(StorageTrie(blocks[m]), Key[p])
                /\ blocks[m][p] = v => verified
=============================================================================
