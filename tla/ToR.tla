-------------------------------- MODULE ToR --------------------------------
(***************************************************************************)
(* The trust-on-relaychain protocol: users of the parachains send messages,*)
(* and three kinds of gateway processes carry them (relayer/tor).  A       *)
(* gateway is the pair <<source chain, destination chain>>:                *)
(*                                                                         *)
(*   <<p, Relay>>  gateway_from_para_to_relay: headers and BCRs of p       *)
(*   <<Relay, d>>  gateway_from_relay_to_para: headers of the relay chain  *)
(*   <<p, d>>      gateway_from_para_to_para:  BCRs and messages of p to d *)
(*                                                                         *)
(* Each one walks over the sealed blocks of its source chain from the one  *)
(* that is the last when it starts, and sends transactions to its          *)
(* destination chain from an account of its own.                           *)
(***************************************************************************)
EXTENDS StateSpv

CONSTANTS
  Routes,     \* the parachain-to-parachain gateways that run
  MaxMsgs,    \* bound: messages the users send
  AsyncStart  \* users may send before every gateway has started

ASSUME RoutesAssumption == Routes \subseteq {r \in Para \X Para : r[1] # r[2]}
ASSUME MsgsAssumption   == MaxMsgs \in Nat
ASSUME StartAssumption  == AsyncStart \in BOOLEAN

P2R == {<<r[1], Relay>> : r \in Routes}
R2P == {<<Relay, r[2]>> : r \in Routes}
P2P == Routes
Gateways == P2R \cup R2P \cup P2P

VARIABLES
  sent,        \* number of messages sent by users (only for the bound)
  next,        \* next[g]: the block g deals with next, 0 before it starts
  pc,          \* pc[g]: what g does for that block
  bcr,         \* bcr[g]: the BCR g has read for that block
  relayHeight, \* relayHeight[g]: the relay block g proves the BCR against
  sendIdx,     \* sendIdx[g]: the message of the block g looks at next
  txNonce,     \* txNonce[g]: the gateway's own count, tx_nonce
  txCount,     \* txCount[g]: the destination chain's count for the account
  pendingBCR,  \* pendingBCR[g]: crossReceiveBCR transactions not executed yet
  pendingCM    \* pendingCM[g]: crossReceiveFromParaToR, not executed yet

workerVars  == <<pc, bcr, relayHeight, sendIdx>>
accountVars == <<txNonce, txCount, pendingBCR, pendingCM>>
vars == <<chainVars, contractVars, sent, next, workerVars, accountVars>>

BCRTx == [nonce : Nat, height : Heights, bcr : BCR, relayHeight : Heights,
          proven : BCR]
CMTx  == [nonce : Nat, height : Heights, position : Nat \ {0}, cm : CM,
          leaves : BCR]

TypeOK ==
  /\ ChainTypeOK
  /\ ContractTypeOK
  /\ sent        \in 0 .. MaxMsgs
  /\ next        \in [Gateways -> Nat]
  /\ pc          \in [Gateways -> {"idle", "sent", "mined",
                                   "bcr", "proof", "cms"}]
  /\ bcr         \in [Gateways -> BCR]
  /\ relayHeight \in [P2P -> Heights \cup {0}]
  /\ sendIdx     \in [P2P -> Nat]
  /\ txNonce     \in [P2P -> Nat]
  /\ txCount     \in [P2P -> Nat]
  /\ pendingBCR  \in [P2P -> SUBSET BCRTx]
  /\ pendingCM   \in [P2P -> SUBSET CMTx]

Init ==
  /\ ChainInit
  /\ ContractInit
  /\ sent        = 0
  /\ next        = [g \in Gateways |-> 0]
  /\ pc          = [g \in Gateways |-> "idle"]
  /\ bcr         = [g \in Gateways |-> NoBCR]
  /\ relayHeight = [g \in P2P |-> 0]
  /\ sendIdx     = [g \in P2P |-> 0]
  /\ txNonce     = [g \in P2P |-> 0]
  /\ txCount     = [g \in P2P |-> 0]
  /\ pendingBCR  = [g \in P2P |-> {}]
  /\ pendingCM   = [g \in P2P |-> {}]

----------------------------------------------------------------------------
(* The environment. *)

AllStarted == \A g \in Gateways : next[g] # 0

\* A user of p sends a message to t (the scheduler starts a gateway for every
\* pair of parachains, those it sends between are among them).
UserSend(p, t, x) ==
  /\ AsyncStart \/ AllStarted
  /\ sent < MaxMsgs
  /\ sent' = sent + 1
  /\ CrossSendToR(p, [sourceChain |-> p, targetChain |-> t, payload |-> x])
  /\ UNCHANGED <<next, workerVars, accountVars>>

SealBlock(c) ==
  /\ Seal(c)
  /\ UNCHANGED <<contractVars, sent, next, workerVars, accountVars>>

----------------------------------------------------------------------------
(* What every gateway does. *)

\* The threads of the process start: it walks from what is now the last block of its
\* source.
Start(g) ==
  /\ next[g] = 0
  /\ next' = [next EXCEPT ![g] = height[g[1]]]
  /\ UNCHANGED <<chainVars, contractVars, sent, workerVars, accountVars>>

\* The mains of the three programs.
P2RStart(g) == g \in P2R /\ Start(g)
R2PStart(g) == g \in R2P /\ Start(g)
P2PStart(g) == g \in P2P /\ Start(g)

\* Variant: the gateway also takes the block that is being produced.
HasPendingBlock(g) == next[g] # 0 /\ next[g] <= OpenBlock(g[1])

\* The gateway has a block of its source chain to deal with.
HasBlock(g) == next[g] # 0 /\ Sealed(g[1], next[g])

----------------------------------------------------------------------------
(* Parachain to relay chain.  The gateway waits for every receipt. *)

\* send_header reads the BCR of the block and submits it with the header.
P2RSend(g) ==
  /\ pc[g] = "idle" /\ HasBlock(g)
  /\ bcr' = [bcr EXCEPT ![g] = roots[g[1]][next[g]]]
  /\ pc'  = [pc EXCEPT ![g] = "sent"]
  /\ UNCHANGED <<chainVars, contractVars, sent, next, relayHeight, sendIdx,
                 accountVars>>

P2RExecute(g) ==
  /\ pc[g] = "sent"
  /\ SubmitHeaderAndBCR(g[1], next[g], bcr[g])
  /\ pc' = [pc EXCEPT ![g] = "mined"]
  /\ UNCHANGED <<sent, next, bcr, relayHeight, sendIdx, accountVars>>

----------------------------------------------------------------------------
(* Relay chain to parachain.  The gateway waits for every receipt. *)

R2PSend(g) ==
  /\ pc[g] = "idle" /\ HasBlock(g)
  /\ pc' = [pc EXCEPT ![g] = "sent"]
  /\ UNCHANGED <<chainVars, contractVars, sent, next, bcr, relayHeight,
                 sendIdx, accountVars>>

R2PExecute(g) ==
  /\ pc[g] = "sent"
  /\ SubmitHeader(g[2], next[g])
  /\ pc' = [pc EXCEPT ![g] = "mined"]
  /\ UNCHANGED <<sent, next, bcr, relayHeight, sendIdx, accountVars>>

\* Variant: the gateway goes on from what is now the last block of its source.
HeaderReceiptThenLatest(g) ==
  /\ pc[g] = "mined"
  /\ HasHeader(g[2], g[1], next[g])
  /\ next' = [next EXCEPT ![g] = IF height[g[1]] > @ THEN height[g[1]] ELSE @ + 1]
  /\ pc'   = [pc EXCEPT ![g] = "idle"]
  /\ bcr'  = [bcr EXCEPT ![g] = NoBCR]
  /\ UNCHANGED <<chainVars, contractVars, sent, relayHeight, sendIdx,
                 accountVars>>

\* The receipt of a header gateway's transaction: the block it is in is sealed.
HeaderReceipt(g) ==
  /\ pc[g] = "mined"
  /\ HasHeader(g[2], g[1], next[g])
  /\ next' = [next EXCEPT ![g] = @ + 1]
  /\ pc'   = [pc EXCEPT ![g] = "idle"]
  /\ bcr'  = [bcr EXCEPT ![g] = NoBCR]
  /\ UNCHANGED <<chainVars, contractVars, sent, relayHeight, sendIdx,
                 accountVars>>

----------------------------------------------------------------------------
(* Parachain to parachain.  deal_txs deals with one block: it waits for the *)
(* BCR on the relay chain, proves it against a relay header the destination *)
(* has, then sends the block's messages.  It waits for no receipt: the      *)
(* nonces alone order its transactions.                                     *)

Leaves(g) == roots[g[1]][next[g]]

\* A block without messages is passed over.
SkipBlock(g) ==
  /\ pc[g] = "idle" /\ HasBlock(g)
  /\ Leaves(g) = NoBCR
  /\ next' = [next EXCEPT ![g] = @ + 1]
  /\ UNCHANGED <<chainVars, contractVars, sent, workerVars, accountVars>>

\* getBCR answers: the BCR of the block has reached the relay chain.
GetBCR(g) ==
  /\ pc[g] = "idle" /\ HasBlock(g)
  /\ Leaves(g) # NoBCR
  /\ BCRAt(g[1], next[g], height[Relay]) # NoBCR
  /\ bcr' = [bcr EXCEPT ![g] = BCRAt(g[1], next[g], height[Relay])]
  /\ pc'  = [pc EXCEPT ![g] = "bcr"]
  /\ UNCHANGED <<chainVars, contractVars, sent, next, relayHeight, sendIdx,
                 accountVars>>

\* getBCRHeightOnRelay, a later call: the relay chain may have moved on.
GetBCRHeight(g) ==
  /\ pc[g] = "bcr"
  /\ \E r \in Heights :
       /\ IsBCRHeightOnRelay(bcr[g], r)
       /\ relayHeight' = [relayHeight EXCEPT ![g] = r]
  /\ pc' = [pc EXCEPT ![g] = "proof"]
  /\ UNCHANGED <<chainVars, contractVars, sent, next, bcr, sendIdx,
                 accountVars>>

\* Variant: the gateway's count is not increased.
SendBCRSameNonce(g) ==
  /\ pc[g] = "proof"
  /\ HasHeader(g[2], Relay, relayHeight[g])
  /\ pendingBCR' = [pendingBCR EXCEPT ![g] = @ \cup
       {[nonce |-> txNonce[g], height |-> next[g], bcr |-> bcr[g],
         relayHeight |-> relayHeight[g],
         proven |-> BCRAt(g[1], next[g], relayHeight[g])]}]
  /\ sendIdx' = [sendIdx EXCEPT ![g] = 1]
  /\ pc'      = [pc EXCEPT ![g] = "cms"]
  /\ UNCHANGED <<chainVars, contractVars, sent, next, bcr, relayHeight,
                 txNonce, txCount, pendingCM>>

\* The destination has the header of relayHeight: the BCR is sent to it, with
\* the proof of its slot in the state of that relay block.
SendBCR(g) ==
  /\ pc[g] = "proof"
  /\ HasHeader(g[2], Relay, relayHeight[g])
  /\ pendingBCR' = [pendingBCR EXCEPT ![g] = @ \cup
       {[nonce |-> txNonce[g], height |-> next[g], bcr |-> bcr[g],
         relayHeight |-> relayHeight[g],
         proven |-> BCRAt(g[1], next[g], relayHeight[g])]}]
  /\ txNonce' = [txNonce EXCEPT ![g] = @ + 1]
  /\ sendIdx' = [sendIdx EXCEPT ![g] = 1]
  /\ pc'      = [pc EXCEPT ![g] = "cms"]
  /\ UNCHANGED <<chainVars, contractVars, sent, next, bcr, relayHeight,
                 txCount, pendingCM>>

\* Variants: positions start at 0; a message for another destination takes a
\* nonce as well; messages are sent whatever their destination.
SendCMWith(g, first, skipNonce, filter) ==
  /\ pc[g] = "cms"
  /\ sendIdx[g] \in DOMAIN Leaves(g)
  /\ LET cm == Leaves(g)[sendIdx[g]]
         own == filter => cm.targetChain = g[2]
     IN  /\ pendingCM' = IF ~own THEN pendingCM
              ELSE [pendingCM EXCEPT ![g] = @ \cup
                 {[nonce |-> txNonce[g], height |-> next[g],
                   position |-> sendIdx[g] - 1 + first, cm |-> cm,
                   leaves |-> Leaves(g)]}]
         /\ txNonce' = [txNonce EXCEPT ![g] = IF own \/ skipNonce THEN @ + 1 ELSE @]
  /\ sendIdx' = [sendIdx EXCEPT ![g] = @ + 1]
  /\ UNCHANGED <<chainVars, contractVars, sent, next, pc, bcr, relayHeight,
                 txCount, pendingBCR>>
SendCMZeroBased(g)  == SendCMWith(g, 0, FALSE, TRUE)
SendCMSkipsNonce(g) == SendCMWith(g, 1, TRUE, TRUE)
SendCMToAll(g)      == SendCMWith(g, 1, FALSE, FALSE)

\* send_cm looks at one message after the other and sends those for this
\* destination, each with its proof in the tree over the whole block.
SendCM(g) ==
  /\ pc[g] = "cms"
  /\ sendIdx[g] \in DOMAIN Leaves(g)
  /\ LET cm == Leaves(g)[sendIdx[g]]
     IN  IF cm.targetChain = g[2]
         THEN /\ pendingCM' = [pendingCM EXCEPT ![g] = @ \cup
                   {[nonce |-> txNonce[g], height |-> next[g],
                     position |-> sendIdx[g], cm |-> cm, leaves |-> Leaves(g)]}]
              /\ txNonce' = [txNonce EXCEPT ![g] = @ + 1]
         ELSE UNCHANGED <<pendingCM, txNonce>>
  /\ sendIdx' = [sendIdx EXCEPT ![g] = @ + 1]
  /\ UNCHANGED <<chainVars, contractVars, sent, next, pc, bcr, relayHeight,
                 txCount, pendingBCR>>

\* Variant: the gateway deals with the same block again.
RepeatBlock(g) ==
  /\ pc[g] = "cms"
  /\ sendIdx[g] \notin DOMAIN Leaves(g)
  /\ pc'   = [pc EXCEPT ![g] = "idle"]
  /\ bcr'  = [bcr EXCEPT ![g] = NoBCR]
  /\ relayHeight' = [relayHeight EXCEPT ![g] = 0]
  /\ sendIdx'     = [sendIdx EXCEPT ![g] = 0]
  /\ UNCHANGED <<chainVars, contractVars, sent, next, accountVars>>

\* The block is dealt with.
FinishBlock(g) ==
  /\ pc[g] = "cms"
  /\ sendIdx[g] \notin DOMAIN Leaves(g)
  /\ next' = [next EXCEPT ![g] = @ + 1]
  /\ pc'   = [pc EXCEPT ![g] = "idle"]
  /\ bcr'  = [bcr EXCEPT ![g] = NoBCR]
  /\ relayHeight' = [relayHeight EXCEPT ![g] = 0]
  /\ sendIdx'     = [sendIdx EXCEPT ![g] = 0]
  /\ UNCHANGED <<chainVars, contractVars, sent, accountVars>>

\* The destination chain executes the transaction of g's account whose nonce
\* is next, whichever it is.
ExecuteBCR(g) ==
  /\ \E tx \in pendingBCR[g] :
       /\ tx.nonce = txCount[g]
       /\ CrossReceiveBCR(g[2], g[1], tx.height, tx.bcr, tx.relayHeight)
       /\ pendingBCR' = [pendingBCR EXCEPT ![g] = @ \ {tx}]
  /\ txCount' = [txCount EXCEPT ![g] = @ + 1]
  /\ UNCHANGED <<sent, next, workerVars, txNonce, pendingCM>>

\* Variant: the messages of an account are executed in any order.
ExecuteAnyCM(g) ==
  /\ \E tx \in pendingCM[g] :
       /\ CrossReceiveFromParaToR(g[2], tx.cm, tx.height, tx.position, tx.leaves)
       /\ pendingCM' = [pendingCM EXCEPT ![g] = @ \ {tx}]
  /\ txCount' = [txCount EXCEPT ![g] = @ + 1]
  /\ UNCHANGED <<sent, next, workerVars, txNonce, pendingBCR>>

ExecuteCM(g) ==
  /\ \E tx \in pendingCM[g] :
       /\ tx.nonce = txCount[g]
       /\ CrossReceiveFromParaToR(g[2], tx.cm, tx.height, tx.position, tx.leaves)
       /\ pendingCM' = [pendingCM EXCEPT ![g] = @ \ {tx}]
  /\ txCount' = [txCount EXCEPT ![g] = @ + 1]
  /\ UNCHANGED <<sent, next, workerVars, txNonce, pendingBCR>>

----------------------------------------------------------------------------
P2RStep(g) == P2RSend(g) \/ P2RExecute(g) \/ HeaderReceipt(g)
R2PStep(g) == R2PSend(g) \/ R2PExecute(g) \/ HeaderReceipt(g)
DealTxs(g) == \/ SkipBlock(g) \/ GetBCR(g) \/ GetBCRHeight(g)
              \/ SendBCR(g) \/ SendCM(g) \/ FinishBlock(g)
Execute(g) == ExecuteBCR(g) \/ ExecuteCM(g)

Next ==
  \/ \E r \in Routes, x \in Payload : UserSend(r[1], r[2], x)
  \/ \E c \in Chains : SealBlock(c)
  \/ \E g \in Gateways : P2RStart(g) \/ R2PStart(g) \/ P2PStart(g)
  \/ \E g \in P2R : P2RStep(g)
  \/ \E g \in R2P : R2PStep(g)
  \/ \E g \in P2P : DealTxs(g) \/ Execute(g)

Spec == Init /\ [][Next]_vars

\* Every gateway is a process (or a thread of one) of its own that polls, so a
\* step it can take it takes in the end.  The chains execute what they are sent
\* and seal the block it is in; users need not send anything.
Fairness ==
  /\ \A c \in Chains : WF_vars(openTxs[c] /\ SealBlock(c))
  /\ \A g \in Gateways : WF_vars(Start(g))
  /\ \A g \in P2R : WF_vars(P2RStep(g))
  /\ \A g \in R2P : WF_vars(R2PStep(g))
  /\ \A g \in P2P : WF_vars(DealTxs(g)) /\ WF_vars(Execute(g))

FairSpec == Spec /\ Fairness

----------------------------------------------------------------------------
(* Properties. *)

\* The relay chain and the destinations hold no root but the final one of the
\* source block it is filed under: a BCR changes with every message of its
\* block (build) and must not be read before the block is sealed, and the
\* relay and destination slots are written from what a gateway read earlier.
RootsAreFinal ==
  \A p \in Para, h \in Heights :
    /\ rootsOnRelay[p][h] # NoBCR =>
         Sealed(p, h) /\ rootsOnRelay[p][h] = roots[p][h]
    /\ \A d \in Para : rootsOnDst[d][p][h] # NoBCR =>
         Sealed(p, h) /\ rootsOnDst[d][p][h] = roots[p][h]

\* Every crossReceiveBCR transaction proves its BCR, in the state of a relay
\* block whose header the destination can read.  The relay block is looked up
\* by the BCR's value alone (bcrHeightOnRelay), after the BCR was read and in
\* another call, and another block with an equal root overwrites it.
BCRsAreProven ==
  \A g \in P2P : \A tx \in pendingBCR[g] :
    /\ tx.proven = tx.bcr
    /\ HasHeader(g[2], Relay, tx.relayHeight)

\* What a destination has received passed verifyBCR, is a message of the source
\* block it claims, and was meant for this destination.  The contract ignores
\* the result of verifyBCR; only the nonces make the BCR arrive first.
ReceivedIsGenuine ==
  \A d \in Para : \A i \in DOMAIN cmsRecordByCount[d] :
    LET e == cmsRecordByCount[d][i]
        p == e.cm.sourceChain
    IN  /\ e.verified
        /\ e.cm.targetChain = d
        /\ Sealed(p, e.height)
        /\ e.position \in DOMAIN roots[p][e.height]
        /\ e.cm = roots[p][e.height][e.position]

\* Message at position i of block h comes before the one at j of block k.
Before(h, i, k, j) == h < k \/ (h = k /\ i < j)

\* A destination receives the messages of one source in the order in which they
\* were sent, and none twice: the contract has no check of either, countOnDst
\* would count the second delivery.
ReceivedInOrder ==
  \A d \in Para : \A j \in DOMAIN cmsRecordByCount[d] : \A i \in 1 .. (j - 1) :
    LET e == cmsRecordByCount[d][i]
        f == cmsRecordByCount[d][j]
    IN  e.cm.sourceChain = f.cm.sourceChain =>
          Before(e.height, e.position, f.height, f.position)

\* The transactions of a gateway's account that wait for execution carry all
\* the nonces from the chain's count up to the gateway's own, each once: a gap
\* stops the account for ever, a duplicate replaces a transaction.
Nonces(txs) == {tx.nonce : tx \in txs}

DifferentNonces(txs) == \A a, b \in txs : a.nonce = b.nonce => a = b

NoncesAreContiguous ==
  \A g \in P2P :
    /\ txCount[g] <= txNonce[g]
    /\ Nonces(pendingBCR[g]) \cup Nonces(pendingCM[g])
         = txCount[g] .. (txNonce[g] - 1)
    /\ Nonces(pendingBCR[g]) \cap Nonces(pendingCM[g]) = {}
    /\ DifferentNonces(pendingBCR[g]) /\ DifferentNonces(pendingCM[g])

\* The users send at most MaxMsgs messages, and from some moment on all that
\* were sent over a route have been received: a gateway waits for the BCR and
\* for the relay header of block after block, and each of them must come.
Received(d, p, h, i) ==
  \E j \in DOMAIN cmsRecordByCount[d] :
    LET e == cmsRecordByCount[d][j]
    IN  e.cm.sourceChain = p /\ e.height = h /\ e.position = i

AllReceived ==
  \A g \in P2P, h \in Heights : \A i \in DOMAIN roots[g[1]][h] :
    roots[g[1]][h][i].targetChain = g[2] => Received(g[2], g[1], h, i)

AllDelivered == <>[]AllReceived
============================================================================
