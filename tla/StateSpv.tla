----------------------------- MODULE StateSpv ------------------------------
(***************************************************************************)
(* contracts/spv/StateSpv.sol as the ToR protocol uses it.  Every chain    *)
(* runs one instance; a variable indexed by a chain is that instance's     *)
(* storage.                                                                *)
(*                                                                         *)
(* A block's BCR (block-level cross-chain root) is the root of the Merkle  *)
(* tree over the messages of the block.  A slot that holds a root is       *)
(* represented by leaves that have it, and the unset slot, bytes32(0), by  *)
(* the empty sequence; two roots are compared with Root, since lists of    *)
(* different lengths can have the same one.  Module BCR checks that what   *)
(* the contract stores is this root, incrementally built, and that the     *)
(* gateway's proofs lead to it.  A storage proof is represented by the     *)
(* value it proves.                                                        *)
(***************************************************************************)
EXTENDS Chain, Sequences

CONSTANTS
  Payload,   \* what a message carries: user, application, data
  Root(_)    \* the Merkle root over a sequence of messages

CM == [sourceChain : Para, targetChain : Para, payload : Payload]

\* Leaves that have a root, or the unset slot NoBCR.
BCR   == Seq(CM)
NoBCR == <<>>

VARIABLES
  roots,           \* roots[p][h]: BCR of block h, on parachain p
  rootsOnRelay,    \* rootsOnRelay[p][h]: that BCR as stored on the relay chain
  chainToHeaders,  \* chainToHeaders[c][e][h]: block of c in which header h of
                   \* chain e was stored, 0 when it is absent
  rootsOnDst,      \* rootsOnDst[d][p][h]: that BCR as stored on parachain d
  cmsRecordByCount \* cmsRecordByCount[d]: the messages received by parachain d
                   \* in order; countOnDst is the length

contractVars == <<roots, rootsOnRelay, chainToHeaders, rootsOnDst,
                  cmsRecordByCount>>

\* A received message with the arguments of the call that delivered it and the
\* result of verifyBCR, which the contract computes and does not consult.
Receipt == [cm : CM, height : Heights, position : Nat \ {0}, verified : BOOLEAN]

ContractTypeOK ==
  /\ roots            \in [Para -> [Heights -> BCR]]
  /\ rootsOnRelay     \in [Para -> [Heights -> BCR]]
  /\ chainToHeaders   \in [Chains -> [Chains -> [Heights -> Heights \cup {0}]]]
  /\ rootsOnDst       \in [Para -> [Para -> [Heights -> BCR]]]
  /\ cmsRecordByCount \in [Para -> Seq(Receipt)]

ContractInit ==
  /\ roots            = [p \in Para |-> [h \in Heights |-> NoBCR]]
  /\ rootsOnRelay     = [p \in Para |-> [h \in Heights |-> NoBCR]]
  /\ chainToHeaders   = [c \in Chains |-> [e \in Chains |-> [h \in Heights |-> 0]]]
  /\ rootsOnDst       = [d \in Para |-> [p \in Para |-> [h \in Heights |-> NoBCR]]]
  /\ cmsRecordByCount = [d \in Para |-> <<>>]

----------------------------------------------------------------------------
(* Transactions. *)

\* A user of parachain p sends cm: one more leaf in the tree of this block.
CrossSendToR(p, cm) ==
  /\ Mine(p)
  /\ roots' = [roots EXCEPT ![p][OpenBlock(p)] = Append(@, cm)]
  /\ UNCHANGED <<rootsOnRelay, chainToHeaders, rootsOnDst, cmsRecordByCount>>

\* The header of block h of p, and its BCR if it has one, reach the relay chain.
SubmitHeaderAndBCR(p, h, bcr) ==
  /\ Mine(Relay)
  /\ chainToHeaders' = [chainToHeaders EXCEPT ![Relay][p][h] = OpenBlock(Relay)]
  /\ rootsOnRelay' = IF bcr = NoBCR THEN rootsOnRelay
                     ELSE [rootsOnRelay EXCEPT ![p][h] = bcr]
  /\ UNCHANGED <<roots, rootsOnDst, cmsRecordByCount>>

\* The header of block h of the relay chain reaches parachain d.
SubmitHeader(d, h) ==
  /\ Mine(d)
  /\ chainToHeaders' = [chainToHeaders EXCEPT ![d][Relay][h] = OpenBlock(d)]
  /\ UNCHANGED <<roots, rootsOnRelay, rootsOnDst, cmsRecordByCount>>

\* Parachain d stores the BCR of block h of p.  Against an unknown header every
\* proof reverts; otherwise the outcome of verify is not consulted.
CrossReceiveBCR(d, p, h, bcr, relayHeight) ==
  /\ Mine(d)
  /\ rootsOnDst' = IF chainToHeaders[d][Relay][relayHeight] = 0 THEN rootsOnDst
                   ELSE [rootsOnDst EXCEPT ![d][p][h] = bcr]
  /\ UNCHANGED <<roots, rootsOnRelay, chainToHeaders, cmsRecordByCount>>

\* A Merkle proof built from the leaves of a tree leads from its leaf at that
\* position to the root of that tree and to no other.
VerifyBCR(position, cm, bcr, leaves) ==
  /\ position \in DOMAIN leaves
  /\ leaves[position] = cm
  /\ Root(leaves) = Root(bcr)

\* Parachain d receives cm, whatever VerifyBCR says of it.
CrossReceiveFromParaToR(d, cm, h, position, leaves) ==
  /\ Mine(d)
  /\ cmsRecordByCount' = [cmsRecordByCount EXCEPT ![d] = Append(@,
       [cm |-> cm, height |-> h, position |-> position,
        verified |-> VerifyBCR(position, cm,
                               rootsOnDst[d][cm.sourceChain][h], leaves)])]
  /\ UNCHANGED <<roots, rootsOnRelay, chainToHeaders, rootsOnDst>>

----------------------------------------------------------------------------
(* What the RPC interface of the relay chain and of the parachains answers. *)

\* rootsOnRelay[p][h] in the state of relay block r: getBCR, eth_getProof.
BCRAt(p, h, r) ==
  IF chainToHeaders[Relay][p][h] \in 1 .. r THEN rootsOnRelay[p][h] ELSE NoBCR

\* The slot of block h of p holds the same root as bcr.
HasBCR(p, h, bcr) ==
  /\ BCRAt(p, h, height[Relay]) # NoBCR
  /\ Root(BCRAt(p, h, height[Relay])) = Root(bcr)

\* Variant: the slot keeps the first block with this root.
IsFirstBCRHeight(bcr, r) ==
  LET wrote(p, h) == HasBCR(p, h, bcr)
  IN  /\ \E p \in Para, h \in Heights :
            wrote(p, h) /\ chainToHeaders[Relay][p][h] = r
      /\ \A p \in Para, h \in Heights :
            wrote(p, h) => r <= chainToHeaders[Relay][p][h]

\* r is bcrHeightOnRelay[bcr], a slot that every block with this root writes:
\* the relay block of the last of these writes.
IsBCRHeightOnRelay(bcr, r) ==
  LET wrote(p, h) == HasBCR(p, h, bcr)
  IN  /\ \E p \in Para, h \in Heights :
            wrote(p, h) /\ chainToHeaders[Relay][p][h] = r
      /\ \A p \in Para, h \in Heights :
            wrote(p, h) => chainToHeaders[Relay][p][h] <= r

\* GetBlockHeader on chain c returns header h of chain e.
HasHeader(c, e, h) == Sealed(c, chainToHeaders[c][e][h])
============================================================================
