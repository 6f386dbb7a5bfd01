----------------------------- MODULE DirectSpv -----------------------------
(***************************************************************************)
(* contracts/spv/StateSpv.sol as NoR and AoR use it: every message is      *)
(* proved on its own, by its slot in the state of its source block.  In    *)
(* NoR a parachain proves it to another one; in AoR it proves it to the    *)
(* relay chain, which keeps it and proves it to the destination.           *)
(*                                                                         *)
(* A storage proof is represented by the set of what it proves: the        *)
(* message in the slot, or nothing when the slot is empty.  A message      *)
(* stands for its hash as well.                                            *)
(***************************************************************************)
EXTENDS Chain, Sequences

CONSTANT Payload   \* what a message carries: user, application, data

CM == [sourceChain : Para, targetChain : Para, payload : Payload]

VARIABLES
  cms,             \* cms[p]: messages sent on parachain p, by cmIndex
  cmHashesOnRelay, \* messages the relay chain has received, by count
  chainToHeaders,  \* chainToHeaders[c][e][h]: block of c in which header h of
                   \* chain e was stored, 0 when it is absent
  cmsRecordByCount \* cmsRecordByCount[d]: messages received by parachain d

contractVars == <<cms, cmHashesOnRelay, chainToHeaders, cmsRecordByCount>>

\* A message and the block in which it entered a chain's contract.
Entry == [cm : CM, block : Heights]

\* A received message: index is its cmIndex on the source chain (history, the
\* code has no such field), verified what verify returned; the contract does
\* not consult it.
Receipt == [cm : CM, block : Heights, index : Nat, verified : BOOLEAN]

ContractTypeOK ==
  /\ cms              \in [Para -> Seq(Entry)]
  /\ cmHashesOnRelay  \in Seq(Receipt)
  /\ chainToHeaders   \in [Chains -> [Chains -> [Heights -> Heights \cup {0}]]]
  /\ cmsRecordByCount \in [Para -> Seq(Receipt)]

ContractInit ==
  /\ cms              = [p \in Para |-> <<>>]
  /\ cmHashesOnRelay  = <<>>
  /\ chainToHeaders   = [c \in Chains |-> [e \in Chains |-> [h \in Heights |-> 0]]]
  /\ cmsRecordByCount = [d \in Para |-> <<>>]

----------------------------------------------------------------------------
(* What the RPC interface answers. *)

\* The messages of chain c by the index their event carries: CMIndex on a
\* parachain, CMIndexOnRelay on the relay chain.
CMLog(c) == IF c = Relay THEN cmHashesOnRelay ELSE cms[c]

\* The indices in the events of block h of chain c.
IndicesIn(c, h) == {i \in DOMAIN CMLog(c) : CMLog(c)[i].block = h}

\* The cmIndex on its source chain of the message with index i on c: crossSend counts
\* from 0.
SourceIndex(c, i) == IF c = Relay THEN cmHashesOnRelay[i].index ELSE i - 1

\* Variant: the proof is asked for in the state before the block.
ProofBefore(c, i, h) == IF CMLog(c)[i].block < h THEN {CMLog(c)[i].cm} ELSE {}

\* Variant: the slot is that of the message's number on its source, on every chain.
ProofBySource(c, i, h) ==
  LET j == SourceIndex(c, i) + 1
  IN  IF j \in DOMAIN CMLog(c) /\ CMLog(c)[j].block <= h THEN {CMLog(c)[j].cm} ELSE {}

\* What eth_getProof proves of slot i in the state of block h of chain c.
ProofAt(c, i, h) == IF CMLog(c)[i].block <= h THEN {CMLog(c)[i].cm} ELSE {}

\* GetBlockHeader on chain c returns header h of chain e.
HasHeader(c, e, h) == Sealed(c, chainToHeaders[c][e][h])

----------------------------------------------------------------------------
(* Transactions. *)

\* A user of parachain p sends cm.
CrossSend(p, cm) ==
  /\ Mine(p)
  /\ cms' = [cms EXCEPT ![p] = Append(@, [cm |-> cm, block |-> OpenBlock(p)])]
  /\ UNCHANGED <<cmHashesOnRelay, chainToHeaders, cmsRecordByCount>>

\* The header of block h of chain e reaches chain c.
SubmitHeader(c, e, h) ==
  /\ Mine(c)
  /\ chainToHeaders' = [chainToHeaders EXCEPT ![c][e][h] = OpenBlock(c)]
  /\ UNCHANGED <<cms, cmHashesOnRelay, cmsRecordByCount>>

Received(c, tx) == [cm |-> tx.cm, block |-> OpenBlock(c), index |-> tx.index,
                    verified |-> tx.cm \in tx.proven]

\* Against an unknown header every proof reverts; otherwise the contract does
\* not consult the outcome of verify.
Reverts(c, e, tx) == chainToHeaders[c][e][tx.height] = 0

\* NoR: parachain d receives a message from its source.
CrossReceiveFromPara(d, tx) ==
  /\ Mine(d)
  /\ cmsRecordByCount' =
       IF Reverts(d, tx.cm.sourceChain, tx) THEN cmsRecordByCount
       ELSE [cmsRecordByCount EXCEPT ![d] = Append(@, Received(d, tx))]
  /\ UNCHANGED <<cms, cmHashesOnRelay, chainToHeaders>>

\* AoR: the relay chain receives a message from its source.
CrossReceiveOnRelay(tx) ==
  /\ Mine(Relay)
  /\ cmHashesOnRelay' =
       IF Reverts(Relay, tx.cm.sourceChain, tx) THEN cmHashesOnRelay
       ELSE Append(cmHashesOnRelay, Received(Relay, tx))
  /\ UNCHANGED <<cms, chainToHeaders, cmsRecordByCount>>

\* AoR: parachain d receives a message from the relay chain.
CrossReceiveFromRelay(d, tx) ==
  /\ Mine(d)
  /\ cmsRecordByCount' =
       IF Reverts(d, Relay, tx) THEN cmsRecordByCount
       ELSE [cmsRecordByCount EXCEPT ![d] = Append(@, Received(d, tx))]
  /\ UNCHANGED <<cms, cmHashesOnRelay, chainToHeaders>>
============================================================================
