------------------------------ MODULE ToRProofs ----------------------------
(***************************************************************************)
(* Theorems about ToR, for every set of parachains, routes and payloads    *)
(* and every bound.                                                        *)
(***************************************************************************)
EXTENDS ToRInv, TLAPS

(* The ends of each kind of gateway. *)
LEMMA GatewayEnds ==
  /\ \A g \in P2R : g[1] \in Para /\ g[2] = Relay /\ g = <<g[1], g[2]>>
  /\ \A g \in R2P : g[1] = Relay /\ g[2] \in Para /\ g = <<g[1], g[2]>>
  /\ \A g \in P2P : /\ g[1] \in Para /\ g[2] \in Para /\ g[1] # g[2]
                    /\ g = <<g[1], g[2]>>
                    /\ <<g[1], Relay>> \in P2R /\ <<Relay, g[2]>> \in R2P
  /\ Relay \notin Para
BY RoutesAssumption, ParaAssumption DEF P2R, R2P, P2P, Relay

(* The three kinds are disjoint. *)
LEMMA GatewayKinds ==
  /\ \A g \in P2R : g \in Gateways /\ g \notin R2P /\ g \notin P2P
  /\ \A g \in R2P : g \in Gateways /\ g \notin P2R /\ g \notin P2P
  /\ \A g \in P2P : g \in Gateways /\ g \notin P2R /\ g \notin R2P
  /\ \A g \in Gateways : g \in P2R \/ g \in R2P \/ g \in P2P
BY GatewayEnds DEF Gateways

(* They join chains. *)
LEMMA GatewaysJoinChains ==
  \A g \in Gateways : g[1] \in Chains /\ g[2] \in Chains
BY GatewayEnds, GatewayKinds DEF Chains

(* What executing a transaction does to the chains. *)
LEMMA MineType ==
  ASSUME ChainTypeOK, NEW c \in Chains, Mine(c)
  PROVE  /\ ChainTypeOK'
         /\ OpenBlock(c) \in Heights
         /\ height' = height
BY HeightAssumption DEF ChainTypeOK, Mine, OpenBlock, Heights

(* So does sealing a block. *)
LEMMA SealType ==
  ASSUME ChainTypeOK, NEW c \in Chains, Seal(c)
  PROVE  ChainTypeOK'
BY HeightAssumption, IdleAssumption DEF ChainTypeOK, Seal, Heights

(* Each transaction leaves the contracts with values of their types. *)
LEMMA CrossSendToRType ==
  ASSUME ChainTypeOK, ContractTypeOK, NEW p \in Para, NEW cm \in CM,
         CrossSendToR(p, cm)
  PROVE  ChainTypeOK' /\ ContractTypeOK'
<1>1. p \in Chains
  BY DEF Chains
<1>2. ChainTypeOK' /\ OpenBlock(p) \in Heights
  BY <1>1, MineType DEF CrossSendToR
<1>3. Append(roots[p][OpenBlock(p)], cm) \in BCR
  BY <1>2 DEF ContractTypeOK, BCR
<1>4. roots' \in [Para -> [Heights -> BCR]]
  BY <1>2, <1>3 DEF ContractTypeOK, CrossSendToR
<1> QED
  BY <1>2, <1>4 DEF ContractTypeOK, CrossSendToR

(* A header and a BCR on the relay chain. *)
LEMMA SubmitHeaderAndBCRType ==
  ASSUME ChainTypeOK, ContractTypeOK, NEW p \in Para, NEW h \in Heights,
         NEW b \in BCR, SubmitHeaderAndBCR(p, h, b)
  PROVE  ChainTypeOK' /\ ContractTypeOK'
<1>1. Relay \in Chains /\ p \in Chains
  BY DEF Chains
<1>2. ChainTypeOK' /\ OpenBlock(Relay) \in Heights
  BY <1>1, MineType DEF SubmitHeaderAndBCR
<1>3. chainToHeaders' \in [Chains -> [Chains -> [Heights -> Heights \cup {0}]]]
  BY <1>1, <1>2 DEF ContractTypeOK, SubmitHeaderAndBCR
<1>4. rootsOnRelay' \in [Para -> [Heights -> BCR]]
  BY DEF ContractTypeOK, SubmitHeaderAndBCR
<1> QED
  BY <1>2, <1>3, <1>4 DEF ContractTypeOK, SubmitHeaderAndBCR

(* A header on a parachain. *)
LEMMA SubmitHeaderType ==
  ASSUME ChainTypeOK, ContractTypeOK, NEW d \in Para, NEW h \in Heights,
         SubmitHeader(d, h)
  PROVE  ChainTypeOK' /\ ContractTypeOK'
<1>1. Relay \in Chains /\ d \in Chains
  BY DEF Chains
<1>2. ChainTypeOK' /\ OpenBlock(d) \in Heights
  BY <1>1, MineType DEF SubmitHeader
<1>3. chainToHeaders' \in [Chains -> [Chains -> [Heights -> Heights \cup {0}]]]
  BY <1>1, <1>2 DEF ContractTypeOK, SubmitHeader
<1> QED
  BY <1>2, <1>3 DEF ContractTypeOK, SubmitHeader

(* A BCR on a destination. *)
LEMMA CrossReceiveBCRType ==
  ASSUME ChainTypeOK, ContractTypeOK, NEW d \in Para, NEW p \in Para,
         NEW h \in Heights, NEW b \in BCR, NEW r \in Heights,
         CrossReceiveBCR(d, p, h, b, r)
  PROVE  ChainTypeOK' /\ ContractTypeOK'
<1>1. ChainTypeOK'
  BY MineType DEF CrossReceiveBCR, Chains
<1>2. rootsOnDst' \in [Para -> [Para -> [Heights -> BCR]]]
  BY DEF ContractTypeOK, CrossReceiveBCR
<1> QED
  BY <1>1, <1>2 DEF ContractTypeOK, CrossReceiveBCR

(* A message on a destination. *)
LEMMA CrossReceiveFromParaToRType ==
  ASSUME ChainTypeOK, ContractTypeOK, NEW d \in Para, NEW cm \in CM,
         NEW h \in Heights, NEW i \in Nat \ {0}, NEW l \in BCR,
         CrossReceiveFromParaToR(d, cm, h, i, l)
  PROVE  ChainTypeOK' /\ ContractTypeOK'
<1>1. ChainTypeOK'
  BY MineType DEF CrossReceiveFromParaToR, Chains
<1> DEFINE e == [cm |-> cm, height |-> h, position |-> i,
                 verified |-> VerifyBCR(i, cm, rootsOnDst[d][cm.sourceChain][h], l)]
<1>2. VerifyBCR(i, cm, rootsOnDst[d][cm.sourceChain][h], l) \in BOOLEAN
  BY DEF VerifyBCR
<1>3. e \in Receipt
  BY <1>2 DEF Receipt
<1>4. cmsRecordByCount' \in [Para -> Seq(Receipt)]
  <2> HIDE DEF e
  <2>1. cmsRecordByCount' = [cmsRecordByCount EXCEPT ![d] = Append(@, e)]
    BY DEF CrossReceiveFromParaToR, e
  <2>2. Append(cmsRecordByCount[d], e) \in Seq(Receipt)
    BY <1>3 DEF ContractTypeOK
  <2> QED
    BY <2>1, <2>2 DEF ContractTypeOK
<1> QED
  BY <1>1, <1>4 DEF ContractTypeOK, CrossReceiveFromParaToR

----------------------------------------------------------------------------
(* Type correctness. *)

(* A block that a gateway can deal with is one of the blocks. *)
LEMMA NextIsHeight ==
  ASSUME TypeOK, NEW g \in Gateways, HasBlock(g)
  PROVE  next[g] \in Heights
<1>1. height[g[1]] \in Heights
  BY GatewaysJoinChains DEF TypeOK, ChainTypeOK
<1> QED
  BY <1>1, HeightAssumption DEF HasBlock, Sealed, Heights

(* BCRAt answers with a root. *)
LEMMA BCRAtType ==
  ASSUME ContractTypeOK, NEW p \in Para, NEW h \in Heights, NEW r
  PROVE  BCRAt(p, h, r) \in BCR
BY DEF ContractTypeOK, BCRAt, BCR, NoBCR

(* A message of a block is a message. *)
LEMMA LeafType ==
  ASSUME ContractTypeOK, NEW p \in Para, NEW h \in Heights,
         NEW i \in DOMAIN roots[p][h]
  PROVE  roots[p][h][i] \in CM /\ i \in Nat \ {0} /\ roots[p][h] # NoBCR
BY DEF ContractTypeOK, BCR, NoBCR

(* Every action keeps the types; what a gateway read earlier has one already. *)
LEMMA TypeStep == IInv /\ [Next]_vars => TypeOK'
<1> SUFFICES ASSUME IInv, [Next]_vars
             PROVE  TypeOK'
  OBVIOUS
<1>0. TypeOK /\ HeaderGatewaysAreReady /\ WorkersAreReady
  BY DEF IInv
<1> USE <1>0
<1>1. ASSUME NEW r \in Routes, NEW x \in Payload, UserSend(r[1], r[2], x)
      PROVE  TypeOK'
  <2>1. r[1] \in Para /\ r[2] \in Para
    BY GatewayEnds DEF P2P
  <2>2. ChainTypeOK' /\ ContractTypeOK'
    BY <1>1, <2>1, CrossSendToRType DEF UserSend, CM, TypeOK
  <2> QED
    BY <1>1, <2>2, MsgsAssumption
    DEF TypeOK, UserSend, workerVars, accountVars
<1>2. ASSUME NEW c \in Chains, SealBlock(c)
      PROVE  TypeOK'
  BY <1>2, SealType
  DEF TypeOK, SealBlock, ContractTypeOK, contractVars, workerVars, accountVars
<1>3. ASSUME NEW g \in Gateways, Start(g)
      PROVE  TypeOK'
  <2>1. height[g[1]] \in Nat
    BY GatewaysJoinChains DEF TypeOK, ChainTypeOK, Heights
  <2> QED
    BY <1>3, <2>1
    DEF TypeOK, Start, ChainTypeOK, ContractTypeOK,
        chainVars, contractVars, workerVars, accountVars
<1>4. ASSUME NEW g \in P2R, P2RSend(g)
      PROVE  TypeOK'
  <2>1. g \in Gateways /\ roots[g[1]][next[g]] \in BCR
    BY <1>4, GatewayEnds, GatewayKinds, NextIsHeight
    DEF TypeOK, P2RSend, ContractTypeOK
  <2> QED
    BY <1>4, <2>1
    DEF TypeOK, P2RSend, ChainTypeOK, ContractTypeOK,
        chainVars, contractVars, accountVars
<1>5. ASSUME NEW g \in P2R, P2RExecute(g)
      PROVE  TypeOK'
  <2>1. g \in Gateways /\ next[g] \in Heights /\ g[1] \in Para /\ bcr[g] \in BCR
    BY <1>5, GatewayEnds, GatewayKinds, NextIsHeight
    DEF P2RExecute, HeaderGatewaysAreReady, Headers, TypeOK
  <2>2. ChainTypeOK' /\ ContractTypeOK'
    BY <1>5, <2>1, SubmitHeaderAndBCRType DEF P2RExecute, TypeOK
  <2> QED
    BY <1>5, <2>1, <2>2 DEF TypeOK, P2RExecute, accountVars
<1>6. ASSUME NEW g \in R2P, R2PSend(g)
      PROVE  TypeOK'
  BY <1>6, GatewayKinds
  DEF TypeOK, R2PSend, ChainTypeOK, ContractTypeOK,
      chainVars, contractVars, accountVars
<1>7. ASSUME NEW g \in R2P, R2PExecute(g)
      PROVE  TypeOK'
  <2>1. g \in Gateways /\ next[g] \in Heights /\ g[2] \in Para
    BY <1>7, GatewayEnds, GatewayKinds, NextIsHeight
    DEF R2PExecute, HeaderGatewaysAreReady, Headers, TypeOK
  <2>2. ChainTypeOK' /\ ContractTypeOK'
    BY <1>7, <2>1, SubmitHeaderType DEF R2PExecute, TypeOK
  <2> QED
    BY <1>7, <2>1, <2>2 DEF TypeOK, R2PExecute, accountVars
<1>8. ASSUME NEW g \in Headers, HeaderReceipt(g)
      PROVE  TypeOK'
  BY <1>8, GatewayKinds
  DEF TypeOK, HeaderReceipt, Headers, ChainTypeOK, ContractTypeOK, BCR, NoBCR,
      chainVars, contractVars, accountVars
<1>9. ASSUME NEW g \in P2P, SkipBlock(g)
      PROVE  TypeOK'
  BY <1>9, GatewayKinds
  DEF TypeOK, SkipBlock, ChainTypeOK, ContractTypeOK,
      chainVars, contractVars, workerVars, accountVars
<1>10. ASSUME NEW g \in P2P, GetBCR(g)
       PROVE  TypeOK'
  <2>1. BCRAt(g[1], next[g], height[Relay]) \in BCR
    BY <1>10, GatewayEnds, GatewayKinds, NextIsHeight, BCRAtType
    DEF GetBCR, TypeOK
  <2> QED
    BY <1>10, <2>1, GatewayKinds
    DEF TypeOK, GetBCR, ChainTypeOK, ContractTypeOK,
        chainVars, contractVars, accountVars
<1>11. ASSUME NEW g \in P2P, GetBCRHeight(g)
       PROVE  TypeOK'
  BY <1>11, GatewayKinds
  DEF TypeOK, GetBCRHeight, ChainTypeOK, ContractTypeOK,
      chainVars, contractVars, accountVars
<1>12. ASSUME NEW g \in P2P, SendBCR(g)
       PROVE  TypeOK'
  <2> DEFINE tx == [nonce |-> txNonce[g], height |-> next[g], bcr |-> bcr[g],
                    relayHeight |-> relayHeight[g],
                    proven |-> BCRAt(g[1], next[g], relayHeight[g])]
  <2>1. /\ g \in Gateways /\ next[g] \in Heights /\ g[1] \in Para
        /\ relayHeight[g] \in Heights
    <3>1. g \in Gateways /\ next[g] \in Heights /\ g[1] \in Para
      BY <1>12, GatewayEnds, GatewayKinds, NextIsHeight
      DEF SendBCR, WorkersAreReady
    <3>2. relayHeight[g] \in 1 .. height[Relay] /\ height[Relay] \in Heights
      BY <1>12 DEF SendBCR, WorkersAreReady, TypeOK, ChainTypeOK, Chains
    <3> QED
      BY <3>1, <3>2, HeightAssumption DEF Heights
  <2>2. tx \in BCRTx
    BY <2>1, BCRAtType DEF TypeOK, BCRTx
  <2>3. pendingBCR' \in [P2P -> SUBSET BCRTx]
    <3> HIDE DEF tx
    <3>1. pendingBCR' = [pendingBCR EXCEPT ![g] = @ \cup {tx}]
      BY <1>12 DEF SendBCR, tx
    <3> QED
      BY <2>2, <3>1 DEF TypeOK
  <2> QED
    BY <1>12, <2>1, <2>3
    DEF TypeOK, SendBCR, ChainTypeOK, ContractTypeOK, chainVars, contractVars
<1>13. ASSUME NEW g \in P2P, SendCM(g)
       PROVE  TypeOK'
  <2>1. /\ g \in Gateways /\ next[g] \in Heights /\ g[1] \in Para
        /\ sendIdx[g] \in DOMAIN Leaves(g)
    BY <1>13, GatewayEnds, GatewayKinds, NextIsHeight
    DEF SendCM, WorkersAreReady, TypeOK
  <2> DEFINE cm == Leaves(g)[sendIdx[g]]
             tx == [nonce |-> txNonce[g], height |-> next[g],
                    position |-> sendIdx[g], cm |-> cm, leaves |-> Leaves(g)]
  <2>2. tx \in CMTx
    <3>1. Leaves(g) \in BCR
      BY <2>1 DEF Leaves, TypeOK, ContractTypeOK
    <3>2. cm \in CM /\ sendIdx[g] \in Nat \ {0}
      BY <2>1, LeafType DEF Leaves, TypeOK
    <3> QED
      BY <2>1, <3>1, <3>2 DEF TypeOK, CMTx
  <2>3. pendingCM' \in [P2P -> SUBSET CMTx] /\ txNonce' \in [P2P -> Nat]
    <3> HIDE DEF tx
    <3>1. \/ /\ pendingCM' = [pendingCM EXCEPT ![g] = @ \cup {tx}]
             /\ txNonce' = [txNonce EXCEPT ![g] = @ + 1]
          \/ UNCHANGED <<pendingCM, txNonce>>
      BY <1>13 DEF SendCM, tx
    <3> QED
      BY <2>2, <3>1 DEF TypeOK
  <2>4. /\ sendIdx' = [sendIdx EXCEPT ![g] = @ + 1]
        /\ UNCHANGED <<chainVars, contractVars, sent, next, pc, bcr, relayHeight,
                       txCount, pendingBCR>>
    BY <1>13 DEF SendCM
  <2> QED
    BY <2>1, <2>3, <2>4
    DEF TypeOK, ChainTypeOK, ContractTypeOK, chainVars, contractVars
<1>14. ASSUME NEW g \in P2P, FinishBlock(g)
       PROVE  TypeOK'
  BY <1>14, GatewayKinds
  DEF TypeOK, FinishBlock, ChainTypeOK, ContractTypeOK, BCR, NoBCR,
      chainVars, contractVars, accountVars
<1>15. ASSUME NEW g \in P2P, ExecuteBCR(g)
       PROVE  TypeOK'
  <2>1. PICK tx \in pendingBCR[g] :
          /\ CrossReceiveBCR(g[2], g[1], tx.height, tx.bcr, tx.relayHeight)
          /\ pendingBCR' = [pendingBCR EXCEPT ![g] = @ \ {tx}]
    BY <1>15 DEF ExecuteBCR
  <2>2. tx \in BCRTx
    BY <2>1 DEF TypeOK
  <2>3. ChainTypeOK' /\ ContractTypeOK'
    BY <2>1, <2>2, GatewayEnds, CrossReceiveBCRType DEF TypeOK, BCRTx
  <2> QED
    BY <1>15, <2>1, <2>3 DEF TypeOK, ExecuteBCR, workerVars
<1>16. ASSUME NEW g \in P2P, ExecuteCM(g)
       PROVE  TypeOK'
  <2>1. PICK tx \in pendingCM[g] :
          /\ CrossReceiveFromParaToR(g[2], tx.cm, tx.height, tx.position,
                                     tx.leaves)
          /\ pendingCM' = [pendingCM EXCEPT ![g] = @ \ {tx}]
    BY <1>16 DEF ExecuteCM
  <2>2. tx \in CMTx
    BY <2>1 DEF TypeOK
  <2>3. ChainTypeOK' /\ ContractTypeOK'
    BY <2>1, <2>2, GatewayEnds, CrossReceiveFromParaToRType DEF TypeOK, CMTx
  <2> QED
    BY <1>16, <2>1, <2>3 DEF TypeOK, ExecuteCM, workerVars
<1>17. CASE UNCHANGED vars
  BY <1>17
  DEF TypeOK, vars, ChainTypeOK, ContractTypeOK, chainVars, contractVars,
      workerVars, accountVars
<1> QED
  BY <1>1, <1>2, <1>3, <1>4, <1>5, <1>6, <1>7, <1>8, <1>9, <1>10, <1>11,
     <1>12, <1>13, <1>14, <1>15, <1>16, <1>17
  DEF Next, P2RStart, R2PStart, P2PStart, P2RStep, R2PStep, DealTxs, Execute, Headers

----------------------------------------------------------------------------
(* Who acts in a step, and what the others keep. *)

\* The chains and the contracts stay as they are.
ContractsQuiet == UNCHANGED <<height, contractVars>>

\* Nothing of gateway g changes.
Quiet(g) == next'[g] = next[g] /\ pc'[g] = pc[g] /\ bcr'[g] = bcr[g]

\* Nothing of message gateway g changes, its account included.
QuietWorker(g) ==
  /\ Quiet(g)
  /\ relayHeight'[g] = relayHeight[g] /\ sendIdx'[g] = sendIdx[g]
  /\ txNonce'[g] = txNonce[g] /\ txCount'[g] = txCount[g]
  /\ pendingBCR'[g] = pendingBCR[g] /\ pendingCM'[g] = pendingCM[g]

(* A step that changes a contract or a height is one of six. *)
LEMMA ContractSteps ==
  ASSUME [Next]_vars
  PROVE  \/ ContractsQuiet
         \/ \E c \in Chains : SealBlock(c)
         \/ \E r \in Routes, x \in Payload : UserSend(r[1], r[2], x)
         \/ \E g \in P2R : P2RExecute(g)
         \/ \E g \in R2P : R2PExecute(g)
         \/ \E g \in P2P : ExecuteBCR(g) \/ ExecuteCM(g)
<1>1. ASSUME NEW g \in Gateways, Start(g) PROVE ContractsQuiet
  BY <1>1 DEF Start, ContractsQuiet, chainVars
<1>2. ASSUME NEW g, P2RSend(g) \/ R2PSend(g) \/ HeaderReceipt(g)
      PROVE  ContractsQuiet
  BY <1>2 DEF P2RSend, R2PSend, HeaderReceipt, ContractsQuiet, chainVars
<1>3. ASSUME NEW g, DealTxs(g) PROVE ContractsQuiet
  BY <1>3 DEF DealTxs, SkipBlock, GetBCR, GetBCRHeight, SendBCR, SendCM,
              FinishBlock, ContractsQuiet, chainVars
<1>4. CASE UNCHANGED vars
  BY <1>4 DEF vars, ContractsQuiet, chainVars
<1> QED
  BY <1>1, <1>2, <1>3, <1>4 DEF Next, P2RStart, R2PStart, P2PStart, P2RStep, R2PStep, Execute

(* A header gateway takes one of its own steps or is left alone. *)
LEMMA HeaderSteps ==
  ASSUME TypeOK, [Next]_vars, NEW g \in Headers
  PROVE  \/ Quiet(g)
         \/ Start(g)
         \/ g \in P2R /\ P2RSend(g)
         \/ g \in P2R /\ P2RExecute(g)
         \/ g \in R2P /\ R2PSend(g)
         \/ g \in R2P /\ R2PExecute(g)
         \/ HeaderReceipt(g)
<1>0. g \in Gateways /\ g \notin P2P
  BY GatewayKinds DEF Headers
<1>1. ASSUME NEW r \in Routes, NEW x \in Payload, UserSend(r[1], r[2], x)
      PROVE  Quiet(g)
  BY <1>1 DEF UserSend, Quiet, workerVars
<1>2. ASSUME NEW c \in Chains, SealBlock(c) PROVE Quiet(g)
  BY <1>2 DEF SealBlock, Quiet, workerVars
<1>3. ASSUME NEW k \in Gateways, k # g, Start(k) PROVE Quiet(g)
  BY <1>0, <1>3 DEF Start, Quiet, workerVars, TypeOK
<1>4. ASSUME NEW k \in Gateways, k # g,
             \/ P2RSend(k) \/ P2RExecute(k) \/ R2PSend(k) \/ R2PExecute(k)
             \/ HeaderReceipt(k)
      PROVE  Quiet(g)
  BY <1>0, <1>4
  DEF P2RSend, P2RExecute, R2PSend, R2PExecute, HeaderReceipt, Quiet, TypeOK
<1>5. ASSUME NEW k \in P2P, DealTxs(k) PROVE Quiet(g)
  <2>1. k # g /\ k \in Gateways
    BY <1>0, GatewayKinds
  <2> QED
    BY <1>0, <1>5, <2>1
    DEF DealTxs, SkipBlock, GetBCR, GetBCRHeight, SendBCR, SendCM, FinishBlock,
        Quiet, workerVars, TypeOK
<1>6. ASSUME NEW k \in P2P, Execute(k) PROVE Quiet(g)
  BY <1>6 DEF Execute, ExecuteBCR, ExecuteCM, Quiet, workerVars
<1>7. CASE UNCHANGED vars
  BY <1>7 DEF vars, Quiet, workerVars
<1> QED
  BY <1>1, <1>2, <1>3, <1>4, <1>5, <1>6, <1>7, GatewayKinds
  DEF Next, P2RStart, R2PStart, P2PStart, P2RStep, R2PStep

(* A message gateway takes one of its own steps or is left alone. *)
LEMMA WorkerSteps ==
  ASSUME TypeOK, [Next]_vars, NEW g \in P2P
  PROVE  \/ QuietWorker(g)
         \/ Start(g)
         \/ SkipBlock(g) \/ GetBCR(g) \/ GetBCRHeight(g)
         \/ SendBCR(g) \/ SendCM(g) \/ FinishBlock(g)
         \/ ExecuteBCR(g) \/ ExecuteCM(g)
<1>0. g \in Gateways /\ g \notin P2R /\ g \notin R2P
  BY GatewayKinds
<1>1. ASSUME NEW r \in Routes, NEW x \in Payload, UserSend(r[1], r[2], x)
      PROVE  QuietWorker(g)
  BY <1>1 DEF UserSend, Quiet, QuietWorker, workerVars, accountVars
<1>2. ASSUME NEW c \in Chains, SealBlock(c) PROVE QuietWorker(g)
  BY <1>2 DEF SealBlock, Quiet, QuietWorker, workerVars, accountVars
<1>3. ASSUME NEW k \in Gateways, k # g, Start(k) PROVE QuietWorker(g)
  BY <1>0, <1>3 DEF Start, Quiet, QuietWorker, workerVars, accountVars, TypeOK
<1>4. ASSUME NEW k \in Headers,
             \/ P2RSend(k) \/ P2RExecute(k) \/ R2PSend(k) \/ R2PExecute(k)
             \/ HeaderReceipt(k)
      PROVE  QuietWorker(g)
  <2>1. k # g /\ k \in Gateways
    BY <1>0, GatewayKinds DEF Headers
  <2> QED
    BY <1>0, <1>4, <2>1
    DEF P2RSend, P2RExecute, R2PSend, R2PExecute, HeaderReceipt, Quiet,
        QuietWorker, accountVars, TypeOK
<1>5. ASSUME NEW k \in P2P, k # g, DealTxs(k) PROVE QuietWorker(g)
  <2>1. k \in Gateways
    BY GatewayKinds
  <2>2. CASE SkipBlock(k) \/ GetBCR(k) \/ GetBCRHeight(k) \/ FinishBlock(k)
    BY <1>0, <1>5, <2>1, <2>2
    DEF SkipBlock, GetBCR, GetBCRHeight, FinishBlock, Quiet, QuietWorker,
        workerVars, accountVars, TypeOK
  <2>3. CASE SendBCR(k)
    BY <1>0, <1>5, <2>1, <2>3
    DEF SendBCR, Quiet, QuietWorker, TypeOK
  <2>4. CASE SendCM(k)
    BY <1>0, <1>5, <2>1, <2>4
    DEF SendCM, Quiet, QuietWorker, TypeOK
  <2> QED
    BY <1>5, <2>2, <2>3, <2>4 DEF DealTxs
<1>6. ASSUME NEW k \in P2P, k # g, Execute(k) PROVE QuietWorker(g)
  BY <1>6 DEF Execute, ExecuteBCR, ExecuteCM, Quiet, QuietWorker, workerVars,
              TypeOK
<1>7. CASE UNCHANGED vars
  BY <1>7 DEF vars, Quiet, QuietWorker, workerVars, accountVars
<1> QED
  BY <1>1, <1>2, <1>3, <1>4, <1>5, <1>6, <1>7
  DEF Next, P2RStart, R2PStart, P2PStart, P2RStep, R2PStep, DealTxs, Execute, Headers

----------------------------------------------------------------------------
(* What no step takes back. *)

(* A header gateway that has sent a header has not stored it yet. *)
LEMMA HeaderIsNew ==
  ASSUME TypeOK, HeadersAreStoredOnce, HeaderGatewaysAreReady,
         NEW g \in Headers, pc[g] = "sent"
  PROVE  /\ next[g] \in Heights
         /\ chainToHeaders[g[2]][g[1]][next[g]] = 0
<1>1. g \in Gateways /\ g = <<g[1], g[2]>> /\ g[1] \in Chains /\ g[2] \in Chains
  BY GatewayEnds, GatewayKinds, GatewaysJoinChains DEF Headers
<1>2. next[g] \in Heights /\ next[g] \in Nat
  BY <1>1, NextIsHeight DEF HeaderGatewaysAreReady, TypeOK
<1>3. SUFFICES ASSUME chainToHeaders[g[2]][g[1]][next[g]] # 0
               PROVE  FALSE
  BY <1>2
<1>4. next[g] < next[g] \/ pc[g] = "mined"
  BY <1>1, <1>2, <1>3 DEF HeadersAreStoredOnce
<1> QED
  BY <1>2, <1>4

(* Heights do not fall: they are natural numbers, one of which a seal raises. *)
LEMMA HeightsGrow ==
  ASSUME TypeOK, [Next]_vars, NEW c \in Chains
  PROVE  height[c] \in Nat /\ height'[c] \in Nat /\ height[c] <= height'[c]
<1>1. height \in [Chains -> Nat]
  BY DEF TypeOK, ChainTypeOK, Heights
<1>2. ASSUME NEW e \in Chains, SealBlock(e)
      PROVE  height'[c] \in Nat /\ height[c] <= height'[c]
  BY <1>1, <1>2 DEF SealBlock, Seal
<1>3. ASSUME NEW r \in Routes, NEW x \in Payload, UserSend(r[1], r[2], x)
      PROVE  height' = height
  BY <1>3 DEF UserSend, CrossSendToR, Mine
<1>4. ASSUME NEW g, P2RExecute(g) PROVE height' = height
  BY <1>4 DEF P2RExecute, SubmitHeaderAndBCR, Mine
<1>5. ASSUME NEW g, R2PExecute(g) PROVE height' = height
  BY <1>5 DEF R2PExecute, SubmitHeader, Mine
<1>6. ASSUME NEW g, ExecuteBCR(g) \/ ExecuteCM(g) PROVE height' = height
  BY <1>6 DEF ExecuteBCR, ExecuteCM, CrossReceiveBCR, CrossReceiveFromParaToR,
              Mine
<1> QED
  BY <1>1, <1>2, <1>3, <1>4, <1>5, <1>6, ContractSteps DEF ContractsQuiet

(* A sealed block stays sealed. *)
LEMMA SealedStays ==
  ASSUME TypeOK, [Next]_vars, NEW c \in Chains, NEW h, Sealed(c, h)
  PROVE  Sealed(c, h)'
BY HeightsGrow DEF Sealed

(* The messages of a sealed block are final. *)
LEMMA SealedRootsStay ==
  ASSUME TypeOK, [Next]_vars, NEW p \in Para, NEW h \in Heights, Sealed(p, h)
  PROVE  roots'[p][h] = roots[p][h]
<1>1. ASSUME NEW r \in Routes, NEW x \in Payload, UserSend(r[1], r[2], x)
      PROVE  roots'[p][h] = roots[p][h]
  <2>1. r[1] \in Para /\ height[p] \in Nat
    <3>1. r[1] \in Para
      BY GatewayEnds DEF P2P
    <3>2. height[p] \in Heights
      BY DEF TypeOK, ChainTypeOK, Chains
    <3> QED
      BY <3>1, <3>2 DEF Heights
  <2>2. r[1] = p => h # OpenBlock(r[1])
    BY <2>1 DEF Sealed, OpenBlock
  <2>3. \E b : roots' = [roots EXCEPT ![r[1]][OpenBlock(r[1])] = b]
    BY <1>1 DEF UserSend, CrossSendToR
  <2> QED
    BY <2>1, <2>2, <2>3 DEF TypeOK, ContractTypeOK
<1>2. ASSUME NEW g, \/ P2RExecute(g) \/ R2PExecute(g)
                    \/ ExecuteBCR(g) \/ ExecuteCM(g)
      PROVE  roots' = roots
  BY <1>2 DEF P2RExecute, R2PExecute, ExecuteBCR, ExecuteCM, SubmitHeaderAndBCR,
              SubmitHeader, CrossReceiveBCR, CrossReceiveFromParaToR
<1>3. ASSUME NEW c, SealBlock(c) PROVE roots' = roots
  BY <1>3 DEF SealBlock, contractVars
<1> QED
  BY <1>1, <1>2, <1>3, ContractSteps DEF ContractsQuiet, contractVars

(* A header slot is written only by its gateway, from its unset state. *)
LEMMA HeaderSlots ==
  ASSUME IInv, [Next]_vars, NEW c \in Chains, NEW e \in Chains, NEW h \in Heights
  PROVE  \/ chainToHeaders'[c][e][h] = chainToHeaders[c][e][h]
         \/ /\ chainToHeaders[c][e][h] = 0
            /\ chainToHeaders'[c][e][h] = OpenBlock(c)
            /\ height' = height
            /\ <<e, c>> \in Headers
            /\ h = next[<<e, c>>] /\ next' = next /\ pc'[<<e, c>>] = "mined"
<1>0. /\ TypeOK /\ HeadersAreStoredOnce /\ HeaderGatewaysAreReady
      /\ chainToHeaders \in [Chains -> [Chains -> [Heights -> Heights \cup {0}]]]
      /\ Relay \in Chains
  BY DEF IInv, TypeOK, ContractTypeOK, Chains
<1>1. ASSUME NEW g \in Headers, pc[g] = "sent", pc' = [pc EXCEPT ![g] = "mined"],
             height' = height, next' = next,
             chainToHeaders' =
               [chainToHeaders EXCEPT ![g[2]][g[1]][next[g]] = OpenBlock(g[2])]
      PROVE  \/ chainToHeaders'[c][e][h] = chainToHeaders[c][e][h]
             \/ /\ chainToHeaders[c][e][h] = 0
                /\ chainToHeaders'[c][e][h] = OpenBlock(c)
                /\ height' = height
                /\ <<e, c>> \in Headers
                /\ h = next[<<e, c>>] /\ next' = next /\ pc'[<<e, c>>] = "mined"
  <2>1. /\ g \in Gateways /\ g = <<g[1], g[2]>>
        /\ g[1] \in Chains /\ g[2] \in Chains
        /\ pc'[g] = "mined"
    BY <1>0, <1>1, GatewayEnds, GatewayKinds, GatewaysJoinChains
    DEF Headers, TypeOK
  <2>2. /\ next[g] \in Heights
        /\ chainToHeaders[g[2]][g[1]][next[g]] = 0
    BY <1>0, <1>1, HeaderIsNew
  <2>3. CASE c = g[2] /\ e = g[1] /\ h = next[g]
    BY <1>0, <1>1, <2>1, <2>2, <2>3
  <2>4. CASE ~(c = g[2] /\ e = g[1] /\ h = next[g])
    BY <1>0, <1>1, <2>1, <2>2, <2>4
  <2> QED
    BY <2>3, <2>4
<1>2. ASSUME NEW g \in P2R, P2RExecute(g)
      PROVE  /\ g \in Headers /\ pc[g] = "sent"
             /\ pc' = [pc EXCEPT ![g] = "mined"]
             /\ height' = height /\ next' = next
             /\ chainToHeaders' =
                  [chainToHeaders EXCEPT ![g[2]][g[1]][next[g]] = OpenBlock(g[2])]
  BY <1>2, GatewayEnds DEF P2RExecute, SubmitHeaderAndBCR, Mine, Headers
<1>3. ASSUME NEW g \in R2P, R2PExecute(g)
      PROVE  /\ g \in Headers /\ pc[g] = "sent"
             /\ pc' = [pc EXCEPT ![g] = "mined"]
             /\ height' = height /\ next' = next
             /\ chainToHeaders' =
                  [chainToHeaders EXCEPT ![g[2]][g[1]][next[g]] = OpenBlock(g[2])]
  BY <1>3, GatewayEnds DEF R2PExecute, SubmitHeader, Mine, Headers
<1>4. ASSUME NEW r \in Routes, NEW x \in Payload, UserSend(r[1], r[2], x)
      PROVE  chainToHeaders' = chainToHeaders
  BY <1>4 DEF UserSend, CrossSendToR
<1>5. ASSUME NEW d, SealBlock(d) PROVE chainToHeaders' = chainToHeaders
  BY <1>5 DEF SealBlock, contractVars
<1>6. ASSUME NEW g, ExecuteBCR(g) \/ ExecuteCM(g)
      PROVE  chainToHeaders' = chainToHeaders
  BY <1>6 DEF ExecuteBCR, ExecuteCM, CrossReceiveBCR, CrossReceiveFromParaToR
<1> QED
  BY <1>1, <1>2, <1>3, <1>4, <1>5, <1>6, ContractSteps
  DEF ContractsQuiet, contractVars

(* A header that can be read stays readable. *)
LEMMA HasHeaderStays ==
  ASSUME IInv, [Next]_vars, NEW c \in Chains, NEW e \in Chains, NEW h \in Heights,
         HasHeader(c, e, h)
  PROVE  HasHeader(c, e, h)'
<1>1. TypeOK
  BY DEF IInv
<1>2. /\ height[c] \in Nat /\ height'[c] \in Nat /\ height[c] <= height'[c]
  BY <1>1, HeightsGrow
<1>3. chainToHeaders[c][e][h] # 0
  BY <1>2 DEF HasHeader, Sealed
<1>4. chainToHeaders'[c][e][h] = chainToHeaders[c][e][h]
  BY <1>3, HeaderSlots
<1> QED
  BY <1>2, <1>4 DEF HasHeader, Sealed

(* What a sealed relay block holds of a root is final. *)
LEMMA BCRAtStays ==
  ASSUME IInv, [Next]_vars, NEW p \in Para, NEW h \in Heights,
         NEW r \in Nat, r <= height[Relay]
  PROVE  BCRAt(p, h, r)' = BCRAt(p, h, r)
<1>0. TypeOK /\ Relay \in Chains /\ p \in Chains /\ height[Relay] \in Nat
  BY HeightsGrow DEF IInv, Chains
<1>1. CASE chainToHeaders'[Relay][p][h] # chainToHeaders[Relay][p][h]
  <2>1. /\ chainToHeaders[Relay][p][h] = 0
        /\ chainToHeaders'[Relay][p][h] = height[Relay] + 1
    BY <1>0, <1>1, HeaderSlots DEF OpenBlock
  <2> QED
    BY <1>0, <2>1 DEF BCRAt
<1>2. CASE chainToHeaders'[Relay][p][h] = chainToHeaders[Relay][p][h]
  <2>1. CASE chainToHeaders[Relay][p][h] = 0
    BY <1>2, <2>1 DEF BCRAt
  <2>2. CASE chainToHeaders[Relay][p][h] # 0
    <3>1. ASSUME NEW g \in P2R, P2RExecute(g)
          PROVE  rootsOnRelay'[p][h] = rootsOnRelay[p][h]
      <4>1. /\ chainToHeaders[g[2]][g[1]][next[g]] = 0 /\ next[g] \in Heights
            /\ g[1] \in Para /\ g[2] = Relay
        BY <3>1, HeaderIsNew, GatewayEnds DEF IInv, Headers, P2RExecute
      <4>2. ~(p = g[1] /\ h = next[g])
        BY <2>2, <4>1
      <4>3. \/ rootsOnRelay' = rootsOnRelay
            \/ rootsOnRelay' = [rootsOnRelay EXCEPT ![g[1]][next[g]] = bcr[g]]
        BY <3>1 DEF P2RExecute, SubmitHeaderAndBCR
      <4> QED
        BY <1>0, <4>1, <4>2, <4>3 DEF TypeOK, ContractTypeOK
    <3>2. ASSUME NEW r1 \in Routes, NEW x \in Payload, UserSend(r1[1], r1[2], x)
          PROVE  rootsOnRelay' = rootsOnRelay
      BY <3>2 DEF UserSend, CrossSendToR
    <3>3. ASSUME NEW d, SealBlock(d) PROVE rootsOnRelay' = rootsOnRelay
      BY <3>3 DEF SealBlock, contractVars
    <3>4. ASSUME NEW g, R2PExecute(g) \/ ExecuteBCR(g) \/ ExecuteCM(g)
          PROVE  rootsOnRelay' = rootsOnRelay
      BY <3>4 DEF R2PExecute, SubmitHeader, ExecuteBCR, ExecuteCM,
                  CrossReceiveBCR, CrossReceiveFromParaToR
    <3>5. rootsOnRelay'[p][h] = rootsOnRelay[p][h]
      BY <3>1, <3>2, <3>3, <3>4, ContractSteps DEF ContractsQuiet, contractVars
    <3> QED
      BY <1>2, <3>5 DEF BCRAt
  <2> QED
    BY <2>1, <2>2
<1> QED
  BY <1>1, <1>2

----------------------------------------------------------------------------
(* The parts of the invariant about blocks, headers and relay roots. *)

(* Only users write messages, and only into the open block. *)
LEMMA BlocksStep == IInv /\ [Next]_vars => BlocksAreWellFormed'
<1> SUFFICES ASSUME IInv, [Next]_vars, NEW p \in Para, NEW h \in Heights
             PROVE  /\ roots'[p][h] # NoBCR => h <= OpenBlock(p)'
                    /\ \A i \in DOMAIN roots'[p][h] : roots'[p][h][i].sourceChain = p
  BY DEF BlocksAreWellFormed
<1>0. /\ TypeOK /\ BlocksAreWellFormed
      /\ height[p] \in Nat /\ height'[p] \in Nat /\ height[p] <= height'[p]
  BY HeightsGrow DEF IInv, Chains
<1>1. CASE roots'[p][h] = roots[p][h]
  BY <1>0, <1>1 DEF BlocksAreWellFormed, OpenBlock, Heights
<1>2. ASSUME NEW r \in Routes, NEW x \in Payload, UserSend(r[1], r[2], x),
             roots'[p][h] # roots[p][h]
      PROVE  /\ roots'[p][h] # NoBCR => h <= OpenBlock(p)'
             /\ \A i \in DOMAIN roots'[p][h] : roots'[p][h][i].sourceChain = p
  <2> DEFINE cm == [sourceChain |-> r[1], targetChain |-> r[2], payload |-> x]
  <2>1. r[1] \in Para /\ cm.sourceChain = r[1] /\ cm \in CM
    BY GatewayEnds DEF P2P, CM
  <2>2. roots' = [roots EXCEPT ![r[1]][OpenBlock(r[1])] = Append(@, cm)]
    BY <1>2 DEF UserSend, CrossSendToR
  <2> HIDE DEF cm
  <2>3. r[1] = p /\ h = OpenBlock(p) /\ roots'[p][h] = Append(roots[p][h], cm)
    BY <1>0, <1>2, <2>1, <2>2 DEF TypeOK, ContractTypeOK
  <2>4. roots[p][h] \in Seq(CM)
    BY <1>0 DEF TypeOK, ContractTypeOK, BCR
  <2>5. \A i \in DOMAIN roots'[p][h] : roots'[p][h][i].sourceChain = p
    BY <1>0, <2>1, <2>3, <2>4 DEF BlocksAreWellFormed
  <2> QED
    BY <1>0, <2>3, <2>5 DEF OpenBlock
<1>3. ASSUME NEW g, \/ P2RExecute(g) \/ R2PExecute(g)
                    \/ ExecuteBCR(g) \/ ExecuteCM(g)
      PROVE  roots' = roots
  BY <1>3 DEF P2RExecute, R2PExecute, ExecuteBCR, ExecuteCM, SubmitHeaderAndBCR,
              SubmitHeader, CrossReceiveBCR, CrossReceiveFromParaToR
<1>4. ASSUME NEW c, SealBlock(c) PROVE roots' = roots
  BY <1>4 DEF SealBlock, contractVars
<1> QED
  BY <1>1, <1>2, <1>3, <1>4, ContractSteps DEF ContractsQuiet, contractVars

(* A block a gateway can deal with stays one, with the same final messages. *)
LEMMA BlockStays ==
  ASSUME IInv, [Next]_vars, NEW g \in Gateways, HasBlock(g), next'[g] = next[g]
  PROVE  /\ HasBlock(g)'
         /\ g[1] \in Para => Leaves(g)' = Leaves(g)
<1>1. TypeOK /\ next[g] \in Heights /\ g[1] \in Chains /\ Sealed(g[1], next[g])
  BY NextIsHeight, GatewaysJoinChains DEF IInv, HasBlock
<1>2. Sealed(g[1], next[g])'
  BY <1>1, SealedStays
<1>3. g[1] \in Para => roots'[g[1]][next[g]] = roots[g[1]][next[g]]
  BY <1>1, SealedRootsStay
<1> QED
  BY <1>2, <1>3 DEF HasBlock, Sealed, Leaves

(* A header gateway keeps its block, and its BCR, until the receipt. *)
LEMMA HeaderGatewaysStep == IInv /\ [Next]_vars => HeaderGatewaysAreReady'
<1> SUFFICES ASSUME IInv, [Next]_vars, NEW g \in Headers
             PROVE  /\ pc'[g] \in {"idle", "sent", "mined"}
                    /\ pc'[g] # "idle" => HasBlock(g)'
                    /\ pc'[g] = "sent" /\ g \in P2R => bcr'[g] = Leaves(g)'
  BY DEF HeaderGatewaysAreReady, Headers, P2R, R2P
<1>0. /\ TypeOK
      /\ g \in Gateways
      /\ g \in P2R => g[1] \in Para
      /\ pc[g] \in {"idle", "sent", "mined"}
      /\ pc[g] # "idle" => HasBlock(g)
      /\ pc[g] = "sent" /\ g \in P2R => bcr[g] = Leaves(g)
  BY GatewayEnds, GatewayKinds DEF IInv, HeaderGatewaysAreReady, Headers
<1>1. CASE Quiet(g)
  BY <1>0, <1>1, BlockStays DEF Quiet
<1>2. CASE Start(g)
  BY <1>0, <1>2 DEF Start, HasBlock, workerVars
<1>3. CASE g \in P2R /\ P2RSend(g)
  <2>1. /\ HasBlock(g) /\ next' = next
        /\ pc'[g] = "sent" /\ bcr'[g] = Leaves(g)
    BY <1>0, <1>3 DEF P2RSend, TypeOK, Leaves
  <2> QED
    BY <1>0, <1>3, <2>1, BlockStays
<1>4. CASE g \in R2P /\ R2PSend(g)
  <2>1. HasBlock(g) /\ next' = next /\ pc'[g] = "sent" /\ g \notin P2R
    BY <1>0, <1>4, GatewayKinds DEF R2PSend, TypeOK
  <2> QED
    BY <1>0, <2>1, BlockStays
<1>5. CASE (g \in P2R /\ P2RExecute(g)) \/ (g \in R2P /\ R2PExecute(g))
  <2>1. pc[g] = "sent" /\ next' = next /\ pc'[g] = "mined"
    BY <1>0, <1>5 DEF P2RExecute, R2PExecute, TypeOK
  <2> QED
    BY <1>0, <2>1, BlockStays
<1>6. CASE HeaderReceipt(g)
  BY <1>0, <1>6 DEF HeaderReceipt, TypeOK
<1> QED
  BY <1>0, <1>1, <1>2, <1>3, <1>4, <1>5, <1>6, HeaderSteps

(* A header is stored by its gateway's transaction only. *)
LEMMA HeadersStep == IInv /\ [Next]_vars => HeadersAreStoredOnce'
<1> SUFFICES ASSUME IInv, [Next]_vars,
                    NEW c \in Chains, NEW e \in Chains, NEW h \in Heights,
                    chainToHeaders'[c][e][h] # 0
             PROVE  /\ <<e, c>> \in Headers
                    /\ \/ h < next'[<<e, c>>]
                       \/ h = next'[<<e, c>>] /\ pc'[<<e, c>>] = "mined"
                    /\ chainToHeaders'[c][e][h] <= OpenBlock(c)'
  BY DEF HeadersAreStoredOnce, Headers, P2R, R2P
<1> DEFINE g == <<e, c>>
<1>0. /\ TypeOK /\ HeadersAreStoredOnce
      /\ height[c] \in Nat /\ height'[c] \in Nat /\ height[c] <= height'[c]
      /\ chainToHeaders[c][e][h] \in Nat
  <2>1. TypeOK /\ HeadersAreStoredOnce
    BY DEF IInv
  <2>2. chainToHeaders[c][e][h] \in Heights \cup {0}
    BY <2>1 DEF TypeOK, ContractTypeOK
  <2> QED
    BY <2>1, <2>2, HeightsGrow DEF Heights
<1>1. CASE chainToHeaders'[c][e][h] = chainToHeaders[c][e][h]
  <2>1. /\ g \in Headers
        /\ h < next[g] \/ (h = next[g] /\ pc[g] = "mined")
        /\ chainToHeaders[c][e][h] <= OpenBlock(c)
    BY <1>0, <1>1 DEF HeadersAreStoredOnce
  <2>2. h \in Nat \ {0} /\ g \in Gateways /\ next[g] \in Nat
    BY <1>0, <2>1, GatewayKinds DEF Heights, Headers, TypeOK
  <2>3. h < next'[g] \/ (h = next'[g] /\ pc'[g] = "mined")
    <3> HIDE DEF g
    <3>1. CASE Quiet(g)
      BY <2>1, <3>1 DEF Quiet
    <3>2. CASE Start(g)
      BY <2>1, <2>2, <3>2 DEF Start
    <3>3. CASE P2RSend(g) \/ P2RExecute(g) \/ R2PSend(g) \/ R2PExecute(g)
      BY <2>1, <3>3 DEF P2RSend, P2RExecute, R2PSend, R2PExecute
    <3>4. CASE HeaderReceipt(g)
      BY <1>0, <2>1, <2>2, <3>4 DEF HeaderReceipt, TypeOK
    <3> QED
      BY <1>0, <2>1, <3>1, <3>2, <3>3, <3>4, HeaderSteps
  <2> QED
    BY <1>0, <1>1, <2>1, <2>3 DEF OpenBlock
<1>2. CASE /\ chainToHeaders'[c][e][h] = OpenBlock(c)
           /\ height' = height
           /\ <<e, c>> \in Headers
           /\ h = next[<<e, c>>] /\ next' = next /\ pc'[<<e, c>>] = "mined"
  BY <1>0, <1>2 DEF OpenBlock
<1> QED
  BY <1>1, <1>2, HeaderSlots

(* The relay chain gets a root from a gateway that has read a final one. *)
LEMMA RelayRootsStep == IInv /\ [Next]_vars => RelayRootsAreFinal'
<1> SUFFICES ASSUME IInv, [Next]_vars, NEW p \in Para, NEW h \in Heights,
                    rootsOnRelay'[p][h] # NoBCR
             PROVE  /\ chainToHeaders'[Relay][p][h] # 0
                    /\ Sealed(p, h)'
                    /\ rootsOnRelay'[p][h] = roots'[p][h]
  BY DEF RelayRootsAreFinal
<1>0. TypeOK /\ RelayRootsAreFinal /\ p \in Chains /\ Relay \in Chains
  BY DEF IInv, Chains
<1>1. CASE rootsOnRelay'[p][h] = rootsOnRelay[p][h]
  <2>1. /\ chainToHeaders[Relay][p][h] # 0
        /\ Sealed(p, h)
        /\ rootsOnRelay[p][h] = roots[p][h]
    BY <1>1 DEF IInv, RelayRootsAreFinal
  <2>2. chainToHeaders'[Relay][p][h] = chainToHeaders[Relay][p][h]
    BY <1>0, <2>1, HeaderSlots
  <2> QED
    BY <1>0, <1>1, <2>1, <2>2, SealedStays, SealedRootsStay
<1>2. ASSUME NEW g \in P2R, P2RExecute(g),
             rootsOnRelay'[p][h] # rootsOnRelay[p][h]
      PROVE  /\ chainToHeaders'[Relay][p][h] # 0
             /\ Sealed(p, h)'
             /\ rootsOnRelay'[p][h] = roots'[p][h]
  <2>1. /\ g \in Gateways /\ g[1] \in Para /\ g[2] = Relay
        /\ HasBlock(g) /\ bcr[g] = Leaves(g) /\ next[g] \in Heights
    BY <1>0, <1>2, GatewayEnds, GatewayKinds, NextIsHeight
    DEF IInv, HeaderGatewaysAreReady, Headers, P2RExecute
  <2>2. /\ rootsOnRelay' = [rootsOnRelay EXCEPT ![g[1]][next[g]] = bcr[g]]
        /\ chainToHeaders' =
             [chainToHeaders EXCEPT ![Relay][g[1]][next[g]] = OpenBlock(Relay)]
    BY <1>2 DEF P2RExecute, SubmitHeaderAndBCR
  <2>3. p = g[1] /\ h = next[g] /\ rootsOnRelay'[p][h] = roots[p][h]
    BY <1>0, <1>2, <2>1, <2>2 DEF TypeOK, ContractTypeOK, Leaves
  <2>4. chainToHeaders'[Relay][p][h] = OpenBlock(Relay)
    BY <1>0, <2>1, <2>2, <2>3 DEF TypeOK, ContractTypeOK
  <2>5. OpenBlock(Relay) # 0
    BY <1>0, HeightsGrow DEF OpenBlock
  <2> QED
    BY <1>0, <2>1, <2>3, <2>4, <2>5, SealedStays, SealedRootsStay DEF HasBlock
<1>3. ASSUME NEW r \in Routes, NEW x \in Payload, UserSend(r[1], r[2], x)
      PROVE  rootsOnRelay' = rootsOnRelay
  BY <1>3 DEF UserSend, CrossSendToR
<1>4. ASSUME NEW c, SealBlock(c) PROVE rootsOnRelay' = rootsOnRelay
  BY <1>4 DEF SealBlock, contractVars
<1>5. ASSUME NEW g, R2PExecute(g) \/ ExecuteBCR(g) \/ ExecuteCM(g)
      PROVE  rootsOnRelay' = rootsOnRelay
  BY <1>5 DEF R2PExecute, SubmitHeader, ExecuteBCR, ExecuteCM, CrossReceiveBCR,
              CrossReceiveFromParaToR
<1> QED
  BY <1>1, <1>2, <1>3, <1>4, <1>5, ContractSteps DEF ContractsQuiet, contractVars

(* What a message gateway has found out stays true while it goes on. *)
LEMMA WorkersStep == IInv /\ [Next]_vars => WorkersAreReady'
<1> SUFFICES ASSUME IInv, [Next]_vars, NEW g \in P2P
             PROVE  /\ pc'[g] \in {"idle", "bcr", "proof", "cms"}
                    /\ pc'[g] # "idle" =>
                         /\ HasBlock(g)'
                         /\ Leaves(g)' # NoBCR
                         /\ bcr'[g] = Leaves(g)'
                         /\ BCRAt(g[1], next[g], height[Relay])' = Leaves(g)'
                    /\ pc'[g] = "proof" =>
                         /\ relayHeight'[g] \in 1 .. height'[Relay]
                         /\ BCRAt(g[1], next[g], relayHeight[g])' = Leaves(g)'
                    /\ pc'[g] = "cms" => sendIdx'[g] >= 1
  BY DEF WorkersAreReady, P2P
<1>0. /\ TypeOK /\ RelayRootsAreFinal
      /\ g \in Gateways /\ g[1] \in Para /\ g[1] \in Chains /\ Relay \in Chains
  BY GatewayEnds, GatewayKinds DEF IInv, Chains
<1>a. /\ pc[g] \in {"idle", "bcr", "proof", "cms"}
      /\ pc[g] # "idle" =>
           /\ HasBlock(g)
           /\ Leaves(g) # NoBCR
           /\ bcr[g] = Leaves(g)
           /\ BCRAt(g[1], next[g], height[Relay]) = Leaves(g)
      /\ pc[g] = "proof" =>
           /\ relayHeight[g] \in 1 .. height[Relay]
           /\ BCRAt(g[1], next[g], relayHeight[g]) = Leaves(g)
      /\ pc[g] = "cms" => sendIdx[g] >= 1
  BY DEF IInv, WorkersAreReady
<1>b. /\ height[Relay] \in Nat /\ height'[Relay] \in Nat
      /\ height[Relay] <= height'[Relay]
  BY <1>0, HeightsGrow
(* While g stays with its block, what it knows of the block remains true. *)
<1>c. ASSUME HasBlock(g), next'[g] = next[g], Leaves(g) # NoBCR,
             NEW r \in 1 .. height[Relay], BCRAt(g[1], next[g], r) = Leaves(g)
      PROVE  /\ HasBlock(g)'
             /\ Leaves(g)' = Leaves(g)
             /\ BCRAt(g[1], next[g], r)' = Leaves(g)
             /\ BCRAt(g[1], next[g], height[Relay])' = Leaves(g)
  <2>1. HasBlock(g)' /\ Leaves(g)' = Leaves(g) /\ next[g] \in Heights
    BY <1>0, <1>c, BlockStays, NextIsHeight
  <2>2. BCRAt(g[1], next[g], r)' = BCRAt(g[1], next[g], r)
    <3>1. \A h \in Heights : BCRAt(g[1], h, r)' = BCRAt(g[1], h, r)
      BY <1>0, <1>b, BCRAtStays
    <3> QED
      BY <1>c, <2>1, <3>1 DEF BCRAt
  <2>3. BCRAt(g[1], next[g], height[Relay])' = BCRAt(g[1], next[g], r)'
    BY <1>b, <1>c, <2>2 DEF BCRAt
  <2> QED
    BY <1>c, <2>1, <2>2, <2>3
<1>d. ASSUME HasBlock(g), next'[g] = next[g], Leaves(g) # NoBCR,
             BCRAt(g[1], next[g], height[Relay]) = Leaves(g)
      PROVE  /\ HasBlock(g)'
             /\ Leaves(g)' = Leaves(g)
             /\ BCRAt(g[1], next[g], height[Relay])' = Leaves(g)
  <2>1. height[Relay] \in 1 .. height[Relay]
    BY <1>b, <1>d DEF BCRAt
  <2> QED
    BY <1>c, <1>d, <2>1
<1>1. CASE QuietWorker(g)
  <2>1. /\ next'[g] = next[g] /\ pc'[g] = pc[g] /\ bcr'[g] = bcr[g]
        /\ relayHeight'[g] = relayHeight[g] /\ sendIdx'[g] = sendIdx[g]
    BY <1>1 DEF QuietWorker, Quiet
  <2>2. pc[g] = "proof" =>
          /\ relayHeight'[g] \in 1 .. height'[Relay]
          /\ BCRAt(g[1], next[g], relayHeight[g])' = Leaves(g)'
    <3> SUFFICES ASSUME pc[g] = "proof"
                 PROVE  /\ relayHeight'[g] \in 1 .. height'[Relay]
                        /\ BCRAt(g[1], next[g], relayHeight[g])' = Leaves(g)'
      OBVIOUS
    <3> DEFINE r == relayHeight[g]
    <3>1. /\ r \in 1 .. height[Relay] /\ BCRAt(g[1], next[g], r) = Leaves(g)
          /\ HasBlock(g) /\ Leaves(g) # NoBCR
      BY <1>a
    <3>2. BCRAt(g[1], next[g], relayHeight[g])' = Leaves(g)'
      BY <1>c, <2>1, <3>1 DEF BCRAt
    <3> QED
      BY <1>b, <2>1, <3>1, <3>2
  <2> QED
    BY <1>a, <1>d, <2>1, <2>2
<1>2. CASE Start(g) \/ SkipBlock(g)
  <2>1. pc'[g] = pc[g] /\ pc[g] = "idle"
    BY <1>a, <1>2 DEF Start, SkipBlock, HasBlock, workerVars
  <2> QED
    BY <1>a, <2>1
<1>3. CASE GetBCR(g)
  <2>1. /\ HasBlock(g) /\ next' = next /\ Leaves(g) # NoBCR
        /\ BCRAt(g[1], next[g], height[Relay]) # NoBCR
        /\ bcr'[g] = BCRAt(g[1], next[g], height[Relay]) /\ pc'[g] = "bcr"
    BY <1>0, <1>3 DEF GetBCR, TypeOK
  <2>2. BCRAt(g[1], next[g], height[Relay]) = Leaves(g)
    <3>1. next[g] \in Heights
      BY <1>0, <2>1, NextIsHeight
    <3> QED
      BY <1>0, <2>1, <3>1 DEF BCRAt, RelayRootsAreFinal, Leaves
  <2> QED
    BY <1>d, <2>1, <2>2
<1>4. CASE GetBCRHeight(g)
  <2>1. PICK r \in Heights : /\ IsBCRHeightOnRelay(bcr[g], r)
                             /\ relayHeight' = [relayHeight EXCEPT ![g] = r]
    BY <1>4 DEF GetBCRHeight
  <2>2. pc[g] = "bcr" /\ next' = next /\ bcr' = bcr /\ pc'[g] = "proof"
    BY <1>0, <1>4 DEF GetBCRHeight, TypeOK
  <2>3. /\ HasBlock(g) /\ Leaves(g) # NoBCR /\ bcr[g] = Leaves(g)
        /\ BCRAt(g[1], next[g], height[Relay]) = Leaves(g)
        /\ next[g] \in Heights
    BY <1>0, <1>a, <2>2, NextIsHeight
  <2>4. r \in 1 .. height[Relay]
    BY <2>1 DEF IsBCRHeightOnRelay, HasBCR, BCRAt
  <2>5. chainToHeaders[Relay][g[1]][next[g]] <= r
    <3>1. HasBCR(g[1], next[g], bcr[g])
      BY <2>3 DEF HasBCR
    <3> QED
      BY <1>0, <2>1, <2>3, <3>1 DEF IsBCRHeightOnRelay
  <2>6. BCRAt(g[1], next[g], r) = Leaves(g)
    BY <1>b, <2>3, <2>4, <2>5 DEF BCRAt
  <2>7. relayHeight'[g] = r
    BY <1>0, <2>1 DEF TypeOK
  <2>8. /\ HasBlock(g)' /\ Leaves(g)' = Leaves(g)
        /\ BCRAt(g[1], next[g], r)' = Leaves(g)
        /\ BCRAt(g[1], next[g], height[Relay])' = Leaves(g)
    BY <1>c, <2>2, <2>3, <2>4, <2>6
  <2>9. BCRAt(g[1], next[g], relayHeight[g])' = Leaves(g)'
    BY <2>7, <2>8 DEF BCRAt
  <2> QED
    BY <1>b, <2>2, <2>3, <2>4, <2>7, <2>8, <2>9
<1>5. CASE SendBCR(g)
  <2>1. /\ pc[g] = "proof" /\ next' = next /\ bcr' = bcr
        /\ pc'[g] = "cms" /\ sendIdx'[g] = 1
    BY <1>0, <1>5 DEF SendBCR, TypeOK
  <2> QED
    BY <1>a, <1>d, <2>1
<1>6. CASE SendCM(g)
  <2>1. /\ pc[g] = "cms" /\ next' = next /\ bcr' = bcr
        /\ pc'[g] = "cms" /\ sendIdx' = [sendIdx EXCEPT ![g] = @ + 1]
    BY <1>6 DEF SendCM
  <2>2. sendIdx'[g] >= 1
    BY <1>0, <1>a, <2>1 DEF TypeOK
  <2> QED
    BY <1>a, <1>d, <2>1, <2>2
<1>7. CASE FinishBlock(g)
  <2>1. pc'[g] = "idle"
    BY <1>0, <1>7 DEF FinishBlock, TypeOK
  <2> QED
    BY <2>1
<1>8. CASE ExecuteBCR(g) \/ ExecuteCM(g)
  <2>1. /\ next' = next /\ pc' = pc /\ bcr' = bcr
        /\ relayHeight' = relayHeight /\ sendIdx' = sendIdx
        /\ height' = height
    BY <1>8 DEF ExecuteBCR, ExecuteCM, workerVars, CrossReceiveBCR,
                CrossReceiveFromParaToR, Mine
  <2>2. pc[g] = "proof" => BCRAt(g[1], next[g], relayHeight[g])' = Leaves(g)'
    BY <1>a, <1>c, <2>1 DEF BCRAt
  <2> QED
    BY <1>a, <1>d, <2>1, <2>2
<1> QED
  BY <1>1, <1>2, <1>3, <1>4, <1>5, <1>6, <1>7, <1>8, <1>0, WorkerSteps

----------------------------------------------------------------------------
(* The parts about transactions on their way and what they leave behind. *)

(* What is known of a pending transaction by its type. *)
LEMMA PendingTypes ==
  ASSUME TypeOK, NEW g \in P2P
  PROVE  /\ \A tx \in pendingBCR[g] :
              /\ tx.nonce \in Nat /\ tx.height \in Heights /\ tx.bcr \in BCR
              /\ tx.relayHeight \in Heights
         /\ \A tx \in pendingCM[g] :
              /\ tx.nonce \in Nat /\ tx.height \in Heights /\ tx.cm \in CM
              /\ tx.position \in Nat \ {0} /\ tx.leaves \in BCR
BY DEF TypeOK, BCRTx, CMTx

(* A destination slot keeps its root or gets the final one of its block. *)
LEMMA DstSlots ==
  ASSUME IInv, [Next]_vars, NEW d \in Para, NEW p \in Para, NEW h \in Heights
  PROVE  \/ rootsOnDst'[d][p][h] = rootsOnDst[d][p][h]
         \/ Sealed(p, h) /\ rootsOnDst'[d][p][h] = roots[p][h]
<1>0. TypeOK /\ PendingBCRsAreFinal
  BY DEF IInv
<1>1. ASSUME NEW g \in P2P, ExecuteBCR(g)
      PROVE  \/ rootsOnDst'[d][p][h] = rootsOnDst[d][p][h]
             \/ Sealed(p, h) /\ rootsOnDst'[d][p][h] = roots[p][h]
  <2>1. PICK tx \in pendingBCR[g] :
          CrossReceiveBCR(g[2], g[1], tx.height, tx.bcr, tx.relayHeight)
    BY <1>1 DEF ExecuteBCR
  <2>2. /\ g[1] \in Para /\ g[2] \in Para /\ tx.height \in Heights
        /\ Sealed(g[1], tx.height) /\ tx.bcr = roots[g[1]][tx.height]
    BY <1>0, GatewayEnds, PendingTypes DEF PendingBCRsAreFinal
  <2>3. \/ rootsOnDst' = rootsOnDst
        \/ rootsOnDst' = [rootsOnDst EXCEPT ![g[2]][g[1]][tx.height] = tx.bcr]
    BY <2>1 DEF CrossReceiveBCR
  <2>4. CASE d = g[2] /\ p = g[1] /\ h = tx.height
    BY <1>0, <2>2, <2>3, <2>4 DEF TypeOK, ContractTypeOK
  <2>5. CASE ~(d = g[2] /\ p = g[1] /\ h = tx.height)
    BY <1>0, <2>2, <2>3, <2>5 DEF TypeOK, ContractTypeOK
  <2> QED
    BY <2>4, <2>5
<1>2. ASSUME NEW r \in Routes, NEW x \in Payload, UserSend(r[1], r[2], x)
      PROVE  rootsOnDst' = rootsOnDst
  BY <1>2 DEF UserSend, CrossSendToR
<1>3. ASSUME NEW c, SealBlock(c) PROVE rootsOnDst' = rootsOnDst
  BY <1>3 DEF SealBlock, contractVars
<1>4. ASSUME NEW g, P2RExecute(g) \/ R2PExecute(g) \/ ExecuteCM(g)
      PROVE  rootsOnDst' = rootsOnDst
  BY <1>4 DEF P2RExecute, R2PExecute, SubmitHeader, SubmitHeaderAndBCR,
              ExecuteCM, CrossReceiveFromParaToR
<1> QED
  BY <1>1, <1>2, <1>3, <1>4, ContractSteps DEF ContractsQuiet, contractVars

(* A destination gets a root from a pending transaction, which is final. *)
LEMMA DstRootsStep == IInv /\ [Next]_vars => DstRootsAreFinal'
<1> SUFFICES ASSUME IInv, [Next]_vars,
                    NEW d \in Para, NEW p \in Para, NEW h \in Heights,
                    rootsOnDst'[d][p][h] # NoBCR
             PROVE  Sealed(p, h)' /\ rootsOnDst'[d][p][h] = roots'[p][h]
  BY DEF DstRootsAreFinal
<1>1. TypeOK /\ p \in Chains
  BY DEF IInv, Chains
<1>2. Sealed(p, h) /\ rootsOnDst'[d][p][h] = roots[p][h]
  BY DstSlots DEF IInv, DstRootsAreFinal
<1> QED
  BY <1>1, <1>2, SealedStays, SealedRootsStay

(* A gateway does not go back behind a message. *)
LEMMA PassedStays ==
  ASSUME IInv, [Next]_vars, NEW g \in P2P, NEW h \in Heights, NEW i \in Nat,
         Passed(g, h, i)
  PROVE  Passed(g, h, i)'
<1>0. /\ TypeOK /\ g \in Gateways /\ next[g] \in Nat /\ sendIdx[g] \in Nat
      /\ h \in Nat \ {0}
  BY GatewayKinds DEF IInv, TypeOK, Heights
<1>1. CASE QuietWorker(g)
  BY <1>1 DEF QuietWorker, Quiet, Passed
<1>2. CASE Start(g)
  <2>1. next[g] = 0
    BY <1>2 DEF Start
  <2> QED
    BY <1>0, <2>1 DEF Passed
<1>3. CASE SkipBlock(g) \/ FinishBlock(g)
  <2>1. next'[g] = next[g] + 1
    BY <1>0, <1>3 DEF SkipBlock, FinishBlock, TypeOK
  <2> QED
    BY <1>0, <2>1 DEF Passed
<1>4. CASE GetBCR(g) \/ GetBCRHeight(g) \/ SendBCR(g)
  <2>1. next' = next /\ pc[g] # "cms"
    BY <1>4 DEF GetBCR, GetBCRHeight, SendBCR
  <2> QED
    BY <1>0, <2>1 DEF Passed
<1>5. CASE SendCM(g)
  <2>1. next' = next /\ pc' = pc /\ sendIdx' = [sendIdx EXCEPT ![g] = @ + 1]
    BY <1>5 DEF SendCM
  <2>2. sendIdx'[g] = sendIdx[g] + 1
    BY <1>0, <2>1 DEF TypeOK
  <2> QED
    BY <1>0, <2>1, <2>2 DEF Passed
<1>6. CASE ExecuteBCR(g) \/ ExecuteCM(g)
  BY <1>6 DEF ExecuteBCR, ExecuteCM, workerVars, Passed
<1> QED
  BY <1>0, <1>1, <1>2, <1>3, <1>4, <1>5, <1>6, WorkerSteps

(* A pending BCR stays pending until it is executed. *)
LEMMA BCRComesBeforeStays ==
  ASSUME IInv, [Next]_vars, NEW g \in P2P, NEW h \in Heights, NEW n \in Nat,
         Sealed(g[1], h), BCRComesBefore(g, h, n)
  PROVE  BCRComesBefore(g, h, n)'
<1>0. /\ TypeOK /\ PendingBCRsAreFinal /\ g[1] \in Para /\ g[2] \in Para
      /\ g[2] \in Chains /\ Relay \in Chains
  BY GatewayEnds DEF IInv, Chains
<1>1. roots'[g[1]][h] = roots[g[1]][h]
  BY <1>0, SealedRootsStay
<1>2. CASE rootsOnDst[g[2]][g[1]][h] = roots[g[1]][h]
  <2>1. rootsOnDst'[g[2]][g[1]][h] = roots[g[1]][h]
    BY <1>0, <1>2, DstSlots
  <2> QED
    BY <1>1, <2>1 DEF BCRComesBefore
<1>3. CASE \E tx \in pendingBCR[g] : tx.height = h /\ tx.nonce < n
  <2>1. PICK tx \in pendingBCR[g] : tx.height = h /\ tx.nonce < n
    BY <1>3
  <2>2. CASE tx \in pendingBCR'[g]
    BY <2>1, <2>2 DEF BCRComesBefore
  <2>3. CASE tx \notin pendingBCR'[g]
    <3>1. ExecuteBCR(g)
      <4>1. QuietWorker(g) => pendingBCR'[g] = pendingBCR[g]
        BY DEF QuietWorker
      <4>2. Start(g) \/ SkipBlock(g) \/ GetBCR(g) \/ GetBCRHeight(g)
              \/ FinishBlock(g) \/ SendCM(g) \/ ExecuteCM(g)
            => pendingBCR' = pendingBCR
        BY DEF Start, SkipBlock, GetBCR, GetBCRHeight, FinishBlock, SendCM,
               ExecuteCM, accountVars
      <4>3. SendBCR(g) => pendingBCR[g] \subseteq pendingBCR'[g]
        <5>1. SendBCR(g) =>
                \E t : pendingBCR' = [pendingBCR EXCEPT ![g] = @ \cup {t}]
          BY DEF SendBCR
        <5> QED
          BY <1>0, <5>1 DEF TypeOK
      <4> QED
        BY <1>0, <2>3, <4>1, <4>2, <4>3, WorkerSteps
    <3>2. PICK t \in pendingBCR[g] :
            /\ CrossReceiveBCR(g[2], g[1], t.height, t.bcr, t.relayHeight)
            /\ pendingBCR' = [pendingBCR EXCEPT ![g] = @ \ {t}]
      BY <3>1 DEF ExecuteBCR
    <3>3. t = tx
      BY <1>0, <2>3, <3>2 DEF TypeOK
    <3>4. /\ tx.bcr = roots[g[1]][h]
          /\ HasHeader(g[2], Relay, tx.relayHeight)
      BY <1>0, <2>1 DEF PendingBCRsAreFinal
    <3>5. chainToHeaders[g[2]][Relay][tx.relayHeight] # 0
      BY <3>4 DEF HasHeader, Sealed
    <3>6. rootsOnDst' = [rootsOnDst EXCEPT ![g[2]][g[1]][h] = tx.bcr]
      BY <2>1, <3>2, <3>3, <3>5 DEF CrossReceiveBCR
    <3>7. rootsOnDst'[g[2]][g[1]][h] = roots[g[1]][h]
      BY <1>0, <3>4, <3>6 DEF TypeOK, ContractTypeOK
    <3> QED
      BY <1>1, <3>7 DEF BCRComesBefore
  <2> QED
    BY <2>2, <2>3
<1> QED
  BY <1>2, <1>3 DEF BCRComesBefore

(* A BCR transaction is sent with the final root and a proof of it. *)
LEMMA PendingBCRsStep == IInv /\ [Next]_vars => PendingBCRsAreFinal'
<1> SUFFICES ASSUME IInv, [Next]_vars, NEW g \in P2P, NEW tx \in pendingBCR'[g]
             PROVE  /\ Sealed(g[1], tx.height)'
                    /\ tx.bcr = roots'[g[1]][tx.height]
                    /\ tx.proven = tx.bcr
                    /\ HasHeader(g[2], Relay, tx.relayHeight)'
  BY DEF PendingBCRsAreFinal, P2P
<1>0. /\ TypeOK /\ g[1] \in Para /\ g[1] \in Chains /\ g[2] \in Chains
      /\ Relay \in Chains /\ g \in Gateways
  BY GatewayEnds, GatewayKinds DEF IInv, Chains
<1>1. ASSUME NEW h \in Heights, NEW r \in Heights,
             Sealed(g[1], h), HasHeader(g[2], Relay, r)
      PROVE  /\ Sealed(g[1], h)' /\ roots'[g[1]][h] = roots[g[1]][h]
             /\ HasHeader(g[2], Relay, r)'
  BY <1>0, <1>1, SealedStays, SealedRootsStay, HasHeaderStays
<1>2. CASE tx \in pendingBCR[g]
  <2>1. /\ tx.height \in Heights /\ tx.relayHeight \in Heights
        /\ Sealed(g[1], tx.height)
        /\ tx.bcr = roots[g[1]][tx.height]
        /\ tx.proven = tx.bcr
        /\ HasHeader(g[2], Relay, tx.relayHeight)
    BY <1>0, <1>2, PendingTypes DEF IInv, PendingBCRsAreFinal
  <2> QED
    BY <1>1, <2>1
<1>3. CASE tx \notin pendingBCR[g]
  <2>1. SendBCR(g)
    <3>1. QuietWorker(g) => pendingBCR'[g] = pendingBCR[g]
      BY DEF QuietWorker
    <3>2. Start(g) \/ SkipBlock(g) \/ GetBCR(g) \/ GetBCRHeight(g)
            \/ FinishBlock(g) \/ SendCM(g) \/ ExecuteCM(g)
          => pendingBCR' = pendingBCR
      BY DEF Start, SkipBlock, GetBCR, GetBCRHeight, FinishBlock, SendCM,
             ExecuteCM, accountVars
    <3>3. ExecuteBCR(g) => pendingBCR'[g] \subseteq pendingBCR[g]
      BY <1>0 DEF ExecuteBCR, TypeOK
    <3> QED
      BY <1>0, <1>3, <3>1, <3>2, <3>3, WorkerSteps
  <2>2. tx = [nonce |-> txNonce[g], height |-> next[g], bcr |-> bcr[g],
              relayHeight |-> relayHeight[g],
              proven |-> BCRAt(g[1], next[g], relayHeight[g])]
    BY <1>0, <1>3, <2>1 DEF SendBCR, TypeOK
  <2>3. /\ HasBlock(g) /\ bcr[g] = Leaves(g)
        /\ BCRAt(g[1], next[g], relayHeight[g]) = Leaves(g)
        /\ HasHeader(g[2], Relay, relayHeight[g])
    BY <2>1 DEF SendBCR, IInv, WorkersAreReady
  <2>4. next[g] \in Heights /\ Sealed(g[1], next[g])
    BY <1>0, <2>3, NextIsHeight DEF HasBlock
  <2>5. relayHeight[g] \in Heights
    <3>1. relayHeight[g] \in 1 .. height[Relay] /\ height[Relay] \in Heights
      BY <1>0, <2>1 DEF SendBCR, IInv, WorkersAreReady, TypeOK, ChainTypeOK
    <3> QED
      BY <3>1, HeightAssumption DEF Heights
  <2>6. /\ Sealed(g[1], tx.height) /\ tx.height \in Heights
        /\ tx.relayHeight \in Heights
        /\ HasHeader(g[2], Relay, tx.relayHeight)
        /\ tx.bcr = roots[g[1]][tx.height] /\ tx.proven = tx.bcr
    BY <2>2, <2>3, <2>4, <2>5 DEF Leaves
  <2> QED
    BY <1>1, <2>6
<1> QED
  BY <1>2, <1>3

(* A message that becomes pending is the one its gateway looks at. *)
LEMMA NewCM ==
  ASSUME IInv, [Next]_vars, NEW g \in P2P,
         NEW tx \in pendingCM'[g], tx \notin pendingCM[g]
  PROVE  /\ SendCM(g)
         /\ tx = [nonce |-> txNonce[g], height |-> next[g],
                  position |-> sendIdx[g], cm |-> Leaves(g)[sendIdx[g]],
                  leaves |-> Leaves(g)]
         /\ tx.cm.targetChain = g[2]
         /\ pendingCM' = [pendingCM EXCEPT ![g] = @ \cup {tx}]
         /\ txNonce' = [txNonce EXCEPT ![g] = @ + 1]
<1>0. TypeOK /\ g \in Gateways
  BY GatewayKinds DEF IInv
<1>1. SendCM(g)
  <2>1. QuietWorker(g) => pendingCM'[g] = pendingCM[g]
    BY DEF QuietWorker
  <2>2. Start(g) \/ SkipBlock(g) \/ GetBCR(g) \/ GetBCRHeight(g)
          \/ FinishBlock(g) \/ SendBCR(g) \/ ExecuteBCR(g)
        => pendingCM' = pendingCM
    BY DEF Start, SkipBlock, GetBCR, GetBCRHeight, FinishBlock, SendBCR,
           ExecuteBCR, accountVars
  <2>3. ExecuteCM(g) => pendingCM'[g] \subseteq pendingCM[g]
    <3>1. ExecuteCM(g) =>
            \E t : pendingCM' = [pendingCM EXCEPT ![g] = @ \ {t}]
      BY DEF ExecuteCM
    <3> QED
      BY <1>0, <3>1 DEF TypeOK
  <2> QED
    BY <1>0, <2>1, <2>2, <2>3, WorkerSteps
<1> DEFINE cm == Leaves(g)[sendIdx[g]]
           t == [nonce |-> txNonce[g], height |-> next[g],
                 position |-> sendIdx[g], cm |-> cm, leaves |-> Leaves(g)]
<1>2. /\ cm.targetChain = g[2]
      /\ pendingCM' = [pendingCM EXCEPT ![g] = @ \cup {t}]
      /\ txNonce' = [txNonce EXCEPT ![g] = @ + 1]
  BY <1>1 DEF SendCM
<1>3. tx = t
  <2> HIDE DEF t
  <2> QED
    BY <1>0, <1>2 DEF TypeOK
<1> QED
  BY <1>1, <1>2, <1>3

(* A message is sent after its BCR, from the block that the gateway is in. *)
LEMMA PendingCMsStep == IInv /\ [Next]_vars => PendingCMsAreGenuine'
<1> SUFFICES ASSUME IInv, [Next]_vars, NEW g \in P2P
             PROVE  /\ \A tx \in pendingCM'[g] :
                         /\ Sealed(g[1], tx.height)'
                         /\ tx.leaves = roots'[g[1]][tx.height]
                         /\ tx.position \in DOMAIN tx.leaves
                         /\ tx.cm = tx.leaves[tx.position]
                         /\ tx.cm.targetChain = g[2]
                         /\ Passed(g, tx.height, tx.position)'
                         /\ BCRComesBefore(g, tx.height, tx.nonce)'
                    /\ pc'[g] = "cms" => BCRComesBefore(g, next[g], txNonce[g])'
  BY DEF PendingCMsAreGenuine, P2P
<1>0. /\ TypeOK /\ PendingCMsAreGenuine /\ WorkersAreReady
      /\ g \in Gateways /\ g[1] \in Para /\ g[1] \in Chains
      /\ txNonce[g] \in Nat
  BY GatewayEnds, GatewayKinds DEF IInv, Chains, TypeOK
<1>1. ASSUME NEW tx \in pendingCM'[g]
      PROVE  /\ Sealed(g[1], tx.height)'
             /\ tx.leaves = roots'[g[1]][tx.height]
             /\ tx.position \in DOMAIN tx.leaves
             /\ tx.cm = tx.leaves[tx.position]
             /\ tx.cm.targetChain = g[2]
             /\ Passed(g, tx.height, tx.position)'
             /\ BCRComesBefore(g, tx.height, tx.nonce)'
  <2>1. CASE tx \in pendingCM[g]
    <3>1. /\ Sealed(g[1], tx.height)
          /\ tx.leaves = roots[g[1]][tx.height]
          /\ tx.position \in DOMAIN tx.leaves
          /\ tx.cm = tx.leaves[tx.position]
          /\ tx.cm.targetChain = g[2]
          /\ Passed(g, tx.height, tx.position)
          /\ BCRComesBefore(g, tx.height, tx.nonce)
      BY <1>0, <2>1 DEF PendingCMsAreGenuine
    <3>2. tx.height \in Heights /\ tx.position \in Nat /\ tx.nonce \in Nat
      BY <1>0, <2>1, PendingTypes
    <3>3. \A h \in Heights, i, n \in Nat :
            /\ Passed(g, h, i) => Passed(g, h, i)'
            /\ Sealed(g[1], h) => /\ Sealed(g[1], h)'
                                  /\ roots'[g[1]][h] = roots[g[1]][h]
            /\ Sealed(g[1], h) /\ BCRComesBefore(g, h, n)
                 => BCRComesBefore(g, h, n)'
      BY <1>0, PassedStays, SealedStays, SealedRootsStay, BCRComesBeforeStays
    <3>4. /\ Passed(g, tx.height, tx.position)'
          /\ Sealed(g[1], tx.height)'
          /\ roots'[g[1]][tx.height] = roots[g[1]][tx.height]
          /\ BCRComesBefore(g, tx.height, tx.nonce)'
      BY <3>1, <3>2, <3>3
    <3> QED
      BY <3>1, <3>4
  <2>2. CASE tx \notin pendingCM[g]
    <3>1. /\ SendCM(g)
          /\ tx = [nonce |-> txNonce[g], height |-> next[g],
                   position |-> sendIdx[g], cm |-> Leaves(g)[sendIdx[g]],
                   leaves |-> Leaves(g)]
          /\ tx.cm.targetChain = g[2]
      BY <2>2, NewCM
    <3>2. /\ pc[g] = "cms" /\ pc' = pc /\ next' = next
          /\ sendIdx' = [sendIdx EXCEPT ![g] = @ + 1]
          /\ sendIdx[g] \in DOMAIN Leaves(g)
      BY <3>1 DEF SendCM
    <3>3. /\ HasBlock(g) /\ next[g] \in Heights /\ Sealed(g[1], next[g])
          /\ HasBlock(g)' /\ Leaves(g)' = Leaves(g)
      BY <1>0, <3>2, BlockStays, NextIsHeight DEF WorkersAreReady, HasBlock
    <3>4. sendIdx[g] < sendIdx'[g]
      BY <1>0, <3>2 DEF TypeOK
    <3>5. BCRComesBefore(g, next[g], txNonce[g])
      BY <1>0, <3>2 DEF PendingCMsAreGenuine
    <3>6. \A h \in Heights, n \in Nat :
            Sealed(g[1], h) /\ BCRComesBefore(g, h, n)
              => Sealed(g[1], h)' /\ BCRComesBefore(g, h, n)'
      BY <1>0, SealedStays, BCRComesBeforeStays
    <3>7. /\ tx.height = next[g] /\ tx.position = sendIdx[g]
          /\ tx.nonce = txNonce[g] /\ tx.leaves = Leaves(g)
          /\ tx.cm = Leaves(g)[sendIdx[g]]
      BY <3>1
    <3>8. Sealed(g[1], tx.height)' /\ BCRComesBefore(g, tx.height, tx.nonce)'
      BY <1>0, <3>3, <3>5, <3>6, <3>7
    <3>9. Passed(g, tx.height, tx.position)'
      BY <3>2, <3>4, <3>7 DEF Passed
    <3> QED
      BY <3>1, <3>2, <3>3, <3>7, <3>8, <3>9 DEF Leaves
  <2> QED
    BY <2>1, <2>2
<1>2. ASSUME pc'[g] = "cms"
      PROVE  BCRComesBefore(g, next[g], txNonce[g])'
  <2>1. CASE SendBCR(g)
    <3> DEFINE tx == [nonce |-> txNonce[g], height |-> next[g], bcr |-> bcr[g],
                      relayHeight |-> relayHeight[g],
                      proven |-> BCRAt(g[1], next[g], relayHeight[g])]
    <3>1. /\ next' = next /\ txNonce' = [txNonce EXCEPT ![g] = @ + 1]
          /\ pendingBCR' = [pendingBCR EXCEPT ![g] = @ \cup {tx}]
      BY <2>1 DEF SendBCR
    <3>2. tx.height = next[g] /\ tx.nonce = txNonce[g]
      OBVIOUS
    <3> HIDE DEF tx
    <3>3. /\ tx \in pendingBCR'[g] /\ txNonce'[g] = txNonce[g] + 1
      BY <1>0, <3>1 DEF TypeOK
    <3> QED
      BY <1>0, <3>1, <3>2, <3>3 DEF BCRComesBefore
  <2>2. CASE /\ pc[g] = "cms" /\ next'[g] = next[g]
             /\ txNonce'[g] \in Nat /\ txNonce[g] <= txNonce'[g]
    <3>1. /\ HasBlock(g) /\ next[g] \in Heights /\ Sealed(g[1], next[g])
      BY <1>0, <2>2, NextIsHeight DEF WorkersAreReady, HasBlock
    <3>2. BCRComesBefore(g, next[g], txNonce[g])
      BY <1>0, <2>2 DEF PendingCMsAreGenuine
    <3>3. BCRComesBefore(g, next[g], txNonce'[g])
      BY <1>0, <2>2, <3>2, PendingTypes DEF BCRComesBefore
    <3>4. \A h \in Heights, n \in Nat :
            Sealed(g[1], h) /\ BCRComesBefore(g, h, n) => BCRComesBefore(g, h, n)'
      BY BCRComesBeforeStays
    <3>5. \A h, n : h = next[g] /\ n = txNonce'[g] => BCRComesBefore(g, h, n)'
      BY <2>2, <3>1, <3>3, <3>4
    <3> QED
      BY <2>2, <3>5 DEF BCRComesBefore
  <2>3. ASSUME ~SendBCR(g)
        PROVE  /\ pc[g] = "cms" /\ next'[g] = next[g]
               /\ txNonce'[g] \in Nat /\ txNonce[g] <= txNonce'[g]
    <3>1. CASE QuietWorker(g)
      BY <1>0, <1>2, <3>1 DEF QuietWorker, Quiet
    <3>2. CASE Start(g)
      <4>1. pc[g] = "cms" /\ next[g] = 0
        BY <1>2, <3>2 DEF Start, workerVars
      <4> QED
        BY <1>0, <4>1 DEF WorkersAreReady, HasBlock
    <3>3. CASE SkipBlock(g) \/ GetBCR(g) \/ GetBCRHeight(g) \/ FinishBlock(g)
      <4>1. pc'[g] # "cms"
        BY <1>0, <3>3
        DEF SkipBlock, GetBCR, GetBCRHeight, FinishBlock, workerVars, TypeOK
      <4> QED
        BY <1>2, <4>1
    <3>4. CASE SendCM(g)
      <4>1. /\ pc[g] = "cms" /\ next' = next
            /\ txNonce' = txNonce \/ txNonce' = [txNonce EXCEPT ![g] = @ + 1]
        BY <3>4 DEF SendCM
      <4> QED
        BY <1>0, <4>1 DEF TypeOK
    <3>5. CASE ExecuteBCR(g) \/ ExecuteCM(g)
      BY <1>0, <1>2, <3>5 DEF ExecuteBCR, ExecuteCM, workerVars
    <3> QED
      BY <1>0, <2>3, <3>1, <3>2, <3>3, <3>4, <3>5, WorkerSteps
  <2> QED
    BY <2>1, <2>2, <2>3
<1> QED
  BY <1>1, <1>2

(* One more nonce at the upper end, one fewer at the lower. *)
NoncesFrom(S, T, m, n) ==
  /\ m <= n
  /\ Nonces(S) \cup Nonces(T) = m .. (n - 1)
  /\ Nonces(S) \cap Nonces(T) = {}
  /\ DifferentNonces(S) /\ DifferentNonces(T)

(* A transaction with the gateway's count extends the interval of nonces. *)
LEMMA NonceAdded ==
  ASSUME NEW S, NEW T, NEW n \in Nat, NEW m \in Nat, NEW t, t.nonce = n,
         NoncesFrom(S, T, m, n)
  PROVE  NoncesFrom(S \cup {t}, T, m, n + 1)
<1>0. m <= n /\ Nonces(S) \cup Nonces(T) = m .. (n - 1)
  BY DEF NoncesFrom
<1>1. Nonces(S \cup {t}) = Nonces(S) \cup {n}
  BY DEF Nonces
<1>2. n \notin Nonces(S) /\ n \notin Nonces(T)
  <2>1. n \notin m .. (n - 1)
    OBVIOUS
  <2> QED
    BY <1>0, <2>1
<1>3. m .. ((n + 1) - 1) = (m .. (n - 1)) \cup {n}
  BY <1>0
<1>4. DifferentNonces(S \cup {t})
  BY <1>2 DEF DifferentNonces, Nonces, NoncesFrom
<1>5. m <= n + 1
  BY <1>0
<1>6. Nonces(S \cup {t}) \cup Nonces(T) = m .. ((n + 1) - 1)
  BY <1>0, <1>1, <1>3, Zenon
<1>7. Nonces(S \cup {t}) \cap Nonces(T) = {}
  BY <1>1, <1>2, Zenon DEF NoncesFrom
<1> QED
  BY <1>4, <1>5, <1>6, <1>7 DEF NoncesFrom

(* Executing the one with the chain's count takes off its lower end. *)
LEMMA NonceRemoved ==
  ASSUME NEW S, NEW T, NEW n \in Nat, NEW m \in Nat, NEW t \in S, t.nonce = m,
         NoncesFrom(S, T, m, n)
  PROVE  NoncesFrom(S \ {t}, T, m + 1, n)
<1>0. Nonces(S) \cup Nonces(T) = m .. (n - 1) /\ Nonces(S) \cap Nonces(T) = {}
  BY DEF NoncesFrom
<1>1. m \in Nonces(S)
  BY DEF Nonces
<1>2. Nonces(S \ {t}) = Nonces(S) \ {m}
  BY DEF Nonces, DifferentNonces, NoncesFrom
<1>3. m \notin Nonces(T) /\ m \in m .. (n - 1)
  BY <1>0, <1>1, Zenon
<1>4. (m + 1) .. (n - 1) = (m .. (n - 1)) \ {m}
  OBVIOUS
<1>5. DifferentNonces(S \ {t})
  BY DEF DifferentNonces, NoncesFrom
<1>6. m + 1 <= n
  BY <1>3
<1>7. Nonces(S \ {t}) \cup Nonces(T) = (m + 1) .. (n - 1)
  BY <1>0, <1>2, <1>3, <1>4, Zenon
<1>8. Nonces(S \ {t}) \cap Nonces(T) = {}
  BY <1>0, <1>2, Zenon
<1> QED
  BY <1>5, <1>6, <1>7, <1>8 DEF NoncesFrom

(* The order of the two sets does not matter. *)
LEMMA NoncesFromSym ==
  ASSUME NEW S, NEW T, NEW m, NEW n, NoncesFrom(S, T, m, n)
  PROVE  NoncesFrom(T, S, m, n)
BY Zenon DEF NoncesFrom

(* Sending and executing are the two ways in which nonces change. *)
LEMMA NoncesStep == IInv /\ [Next]_vars => NoncesAreContiguous'
<1> SUFFICES ASSUME IInv, [Next]_vars, NEW g \in P2P
             PROVE  NoncesFrom(pendingBCR[g], pendingCM[g],
                               txCount[g], txNonce[g])'
  BY DEF NoncesAreContiguous, NoncesFrom, P2P, Nonces, DifferentNonces
<1>0. /\ TypeOK /\ txCount[g] \in Nat /\ txNonce[g] \in Nat
      /\ NoncesFrom(pendingBCR[g], pendingCM[g], txCount[g], txNonce[g])
  BY DEF IInv, TypeOK, NoncesAreContiguous, NoncesFrom
<1>1. CASE QuietWorker(g)
  BY <1>0, <1>1 DEF QuietWorker
<1>2. CASE \/ Start(g) \/ SkipBlock(g) \/ GetBCR(g) \/ GetBCRHeight(g)
           \/ FinishBlock(g)
  <2>1. UNCHANGED accountVars
    BY <1>2 DEF Start, SkipBlock, GetBCR, GetBCRHeight, FinishBlock
  <2> QED
    BY <1>0, <2>1 DEF accountVars
<1>3. CASE SendBCR(g)
  <2> DEFINE tx == [nonce |-> txNonce[g], height |-> next[g], bcr |-> bcr[g],
                    relayHeight |-> relayHeight[g],
                    proven |-> BCRAt(g[1], next[g], relayHeight[g])]
  <2>1. /\ pendingBCR' = [pendingBCR EXCEPT ![g] = @ \cup {tx}]
        /\ txNonce' = [txNonce EXCEPT ![g] = @ + 1]
        /\ UNCHANGED <<txCount, pendingCM>>
    BY <1>3 DEF SendBCR
  <2>2. tx.nonce = txNonce[g]
    OBVIOUS
  <2> HIDE DEF tx
  <2>3. /\ pendingBCR'[g] = pendingBCR[g] \cup {tx}
        /\ txNonce'[g] = txNonce[g] + 1
        /\ txCount'[g] = txCount[g] /\ pendingCM'[g] = pendingCM[g]
    BY <1>0, <2>1 DEF TypeOK
  <2>4. NoncesFrom(pendingBCR[g] \cup {tx}, pendingCM[g],
                   txCount[g], txNonce[g] + 1)
    BY <1>0, <2>2, NonceAdded
  <2> QED
    BY <2>3, <2>4, Zenon
<1>4. CASE SendCM(g)
  <2>1. CASE pendingCM'[g] = pendingCM[g] /\ txNonce' = txNonce
    <3>1. UNCHANGED <<txCount, pendingBCR>>
      BY <1>4 DEF SendCM
    <3> QED
      BY <1>0, <2>1, <3>1
  <2>2. CASE \E tx : /\ pendingCM' = [pendingCM EXCEPT ![g] = @ \cup {tx}]
                     /\ tx.nonce = txNonce[g]
                     /\ txNonce' = [txNonce EXCEPT ![g] = @ + 1]
    <3>1. PICK tx : /\ pendingCM' = [pendingCM EXCEPT ![g] = @ \cup {tx}]
                    /\ tx.nonce = txNonce[g]
                    /\ txNonce' = [txNonce EXCEPT ![g] = @ + 1]
      BY <2>2
    <3>2. /\ pendingCM'[g] = pendingCM[g] \cup {tx}
          /\ txNonce'[g] = txNonce[g] + 1
      BY <1>0, <3>1 DEF TypeOK
    <3>3. UNCHANGED <<txCount, pendingBCR>>
      BY <1>4 DEF SendCM
    <3>4. NoncesFrom(pendingCM[g], pendingBCR[g], txCount[g], txNonce[g])
      BY <1>0, NoncesFromSym
    <3>5. NoncesFrom(pendingCM[g] \cup {tx}, pendingBCR[g],
                     txCount[g], txNonce[g] + 1)
      BY <1>0, <3>1, <3>4, NonceAdded
    <3>6. NoncesFrom(pendingBCR[g], pendingCM[g] \cup {tx},
                     txCount[g], txNonce[g] + 1)
      BY <3>5, NoncesFromSym
    <3> QED
      BY <3>2, <3>3, <3>6, Zenon
  <2>3. \/ pendingCM' = pendingCM /\ txNonce' = txNonce
        \/ \E tx : /\ pendingCM' = [pendingCM EXCEPT ![g] = @ \cup {tx}]
                   /\ tx.nonce = txNonce[g]
                   /\ txNonce' = [txNonce EXCEPT ![g] = @ + 1]
    <3> DEFINE cm == Leaves(g)[sendIdx[g]]
               t == [nonce |-> txNonce[g], height |-> next[g],
                     position |-> sendIdx[g], cm |-> cm, leaves |-> Leaves(g)]
    <3>1. \/ pendingCM' = pendingCM /\ txNonce' = txNonce
          \/ /\ pendingCM' = [pendingCM EXCEPT ![g] = @ \cup {t}]
             /\ txNonce' = [txNonce EXCEPT ![g] = @ + 1]
      BY <1>4 DEF SendCM
    <3>2. t.nonce = txNonce[g]
      OBVIOUS
    <3> HIDE DEF t
    <3> QED
      BY <3>1, <3>2
  <2> QED
    BY <2>1, <2>2, <2>3
<1>5. CASE ExecuteBCR(g)
  <2>1. PICK tx \in pendingBCR[g] :
          /\ tx.nonce = txCount[g]
          /\ pendingBCR' = [pendingBCR EXCEPT ![g] = @ \ {tx}]
    BY <1>5 DEF ExecuteBCR
  <2>2. /\ txCount' = [txCount EXCEPT ![g] = @ + 1]
        /\ UNCHANGED <<txNonce, pendingCM>>
    BY <1>5 DEF ExecuteBCR
  <2>3. /\ pendingBCR'[g] = pendingBCR[g] \ {tx}
        /\ txCount'[g] = txCount[g] + 1
    BY <1>0, <2>1, <2>2 DEF TypeOK
  <2>4. NoncesFrom(pendingBCR[g] \ {tx}, pendingCM[g],
                   txCount[g] + 1, txNonce[g])
    BY <1>0, <2>1, NonceRemoved
  <2> QED
    BY <2>2, <2>3, <2>4, Zenon
<1>6. CASE ExecuteCM(g)
  <2>1. PICK tx \in pendingCM[g] :
          /\ tx.nonce = txCount[g]
          /\ pendingCM' = [pendingCM EXCEPT ![g] = @ \ {tx}]
    BY <1>6 DEF ExecuteCM
  <2>2. /\ txCount' = [txCount EXCEPT ![g] = @ + 1]
        /\ UNCHANGED <<txNonce, pendingBCR>>
    BY <1>6 DEF ExecuteCM
  <2>3. /\ pendingCM'[g] = pendingCM[g] \ {tx}
        /\ txCount'[g] = txCount[g] + 1
    BY <1>0, <2>1, <2>2 DEF TypeOK
  <2>4. NoncesFrom(pendingCM[g], pendingBCR[g], txCount[g], txNonce[g])
    BY <1>0, NoncesFromSym
  <2>5. NoncesFrom(pendingCM[g] \ {tx}, pendingBCR[g],
                   txCount[g] + 1, txNonce[g])
    BY <1>0, <2>1, <2>4, NonceRemoved
  <2>6. NoncesFrom(pendingBCR[g], pendingCM[g] \ {tx},
                   txCount[g] + 1, txNonce[g])
    BY <2>5, NoncesFromSym
  <2> QED
    BY <2>2, <2>3, <2>6, Zenon
<1> QED
  BY <1>0, <1>1, <1>2, <1>3, <1>4, <1>5, <1>6, WorkerSteps


----------------------------------------------------------------------------
(* The parts about received messages. *)

(* What is known of a message that waits for execution. *)
LEMMA PendingCM ==
  ASSUME IInv, NEW g \in P2P, NEW tx \in pendingCM[g]
  PROVE  /\ tx.height \in Heights /\ tx.position \in Nat \ {0}
         /\ tx.nonce \in Nat /\ txCount[g] \in Nat
         /\ txCount[g] <= tx.nonce /\ tx.nonce < txNonce[g]
         /\ tx.cm.sourceChain = g[1] /\ tx.cm.targetChain = g[2]
         /\ Sealed(g[1], tx.height)
         /\ tx.leaves = roots[g[1]][tx.height]
         /\ tx.position \in DOMAIN tx.leaves
         /\ tx.cm = tx.leaves[tx.position]
         /\ Passed(g, tx.height, tx.position)
         /\ BCRComesBefore(g, tx.height, tx.nonce)
<1>1. /\ tx.height \in Heights /\ tx.position \in Nat \ {0} /\ tx.nonce \in Nat
      /\ txCount[g] \in Nat /\ txNonce[g] \in Nat /\ g[1] \in Para
  BY PendingTypes, GatewayEnds DEF IInv, TypeOK
<1>2. /\ tx.cm.targetChain = g[2]
      /\ Sealed(g[1], tx.height)
      /\ tx.leaves = roots[g[1]][tx.height]
      /\ tx.position \in DOMAIN tx.leaves
      /\ tx.cm = tx.leaves[tx.position]
      /\ Passed(g, tx.height, tx.position)
      /\ BCRComesBefore(g, tx.height, tx.nonce)
  BY DEF IInv, PendingCMsAreGenuine
<1>3. tx.cm.sourceChain = g[1]
  BY <1>1, <1>2 DEF IInv, BlocksAreWellFormed
<1>4. tx.nonce \in Nonces(pendingCM[g])
  BY DEF Nonces
<1>5. Nonces(pendingBCR[g]) \cup Nonces(pendingCM[g])
        = txCount[g] .. (txNonce[g] - 1)
  BY DEF IInv, NoncesAreContiguous
<1>6. tx.nonce \in txCount[g] .. (txNonce[g] - 1)
  BY <1>4, <1>5, Zenon
<1> QED
  BY <1>1, <1>2, <1>3, <1>6

(* The record of a message that destination g[2] executes. *)
ReceiptOf(g, tx) ==
  [cm |-> tx.cm, height |-> tx.height, position |-> tx.position,
   verified |-> VerifyBCR(tx.position, tx.cm,
                          rootsOnDst[g[2]][tx.cm.sourceChain][tx.height],
                          tx.leaves)]

(* The transaction tx of gateway g is executed. *)
Executes(g, tx) ==
  /\ tx \in pendingCM[g]
  /\ tx.nonce = txCount[g]
  /\ pendingCM' = [pendingCM EXCEPT ![g] = @ \ {tx}]
  /\ cmsRecordByCount' =
       [cmsRecordByCount EXCEPT ![g[2]] = Append(@, ReceiptOf(g, tx))]

(* Only a message transaction changes what a destination has received. *)
LEMMA RecordSteps ==
  ASSUME [Next]_vars
  PROVE  \/ cmsRecordByCount' = cmsRecordByCount
         \/ \E g \in P2P : \E tx : Executes(g, tx)
<1>1. ASSUME NEW r \in Routes, NEW x \in Payload, UserSend(r[1], r[2], x)
      PROVE  cmsRecordByCount' = cmsRecordByCount
  BY <1>1 DEF UserSend, CrossSendToR
<1>2. ASSUME NEW c, SealBlock(c) PROVE cmsRecordByCount' = cmsRecordByCount
  BY <1>2 DEF SealBlock, contractVars
<1>3. ASSUME NEW g, P2RExecute(g) \/ R2PExecute(g) \/ ExecuteBCR(g)
      PROVE  cmsRecordByCount' = cmsRecordByCount
  BY <1>3 DEF P2RExecute, R2PExecute, ExecuteBCR, SubmitHeader,
              SubmitHeaderAndBCR, CrossReceiveBCR
<1>4. ASSUME NEW g \in P2P, ExecuteCM(g) PROVE \E tx : Executes(g, tx)
  <2>1. PICK tx \in pendingCM[g] :
          /\ tx.nonce = txCount[g]
          /\ CrossReceiveFromParaToR(g[2], tx.cm, tx.height, tx.position,
                                     tx.leaves)
          /\ pendingCM' = [pendingCM EXCEPT ![g] = @ \ {tx}]
    BY <1>4 DEF ExecuteCM
  <2>2. cmsRecordByCount' =
          [cmsRecordByCount EXCEPT ![g[2]] = Append(@, ReceiptOf(g, tx))]
    BY <2>1 DEF CrossReceiveFromParaToR, ReceiptOf
  <2>3. Executes(g, tx)
    BY <2>1, <2>2, Zenon DEF Executes
  <2> QED
    BY <2>3
<1> QED
  BY <1>1, <1>2, <1>3, <1>4, ContractSteps DEF ContractsQuiet, contractVars

(* A received message was received before or is the one executed now. *)
LEMMA NewReceipt ==
  ASSUME IInv, [Next]_vars, NEW d \in Para,
         NEW i \in DOMAIN cmsRecordByCount'[d]
  PROVE  \/ /\ i \in DOMAIN cmsRecordByCount[d]
            /\ cmsRecordByCount'[d][i] = cmsRecordByCount[d][i]
         \/ /\ i \notin DOMAIN cmsRecordByCount[d]
            /\ DOMAIN cmsRecordByCount'[d] = DOMAIN cmsRecordByCount[d] \cup {i}
            /\ \E g \in P2P : \E tx :
                 /\ g[2] = d /\ Executes(g, tx)
                 /\ cmsRecordByCount'[d][i] = ReceiptOf(g, tx)
<1>1. CASE cmsRecordByCount' = cmsRecordByCount
  BY <1>1
<1>2. CASE \E g \in P2P : \E tx : Executes(g, tx)
  <2>0. PICK g \in P2P : \E tx :
          Executes(g, tx)
    BY <1>2
  <2>1. PICK tx :
          Executes(g, tx)
    BY <2>0
  <2> DEFINE r == ReceiptOf(g, tx)
  <2>2. cmsRecordByCount' = [cmsRecordByCount EXCEPT ![g[2]] = Append(@, r)]
    BY <2>1 DEF Executes
  <2> HIDE DEF r
  <2>3. cmsRecordByCount \in [Para -> Seq(Receipt)] /\ g[2] \in Para
    BY GatewayEnds DEF IInv, TypeOK, ContractTypeOK
  <2>4. CASE g[2] # d
    BY <2>2, <2>3, <2>4
  <2>5. CASE g[2] = d
    <3> DEFINE s == cmsRecordByCount[d]
    <3>1. s \in Seq(Receipt) /\ cmsRecordByCount'[d] = Append(s, r)
      BY <2>2, <2>3, <2>5
    <3> HIDE DEF s
    <3>2. /\ DOMAIN Append(s, r) = DOMAIN s \cup {Len(s) + 1}
          /\ Len(s) + 1 \notin DOMAIN s
          /\ \A j \in DOMAIN s : Append(s, r)[j] = s[j]
          /\ Append(s, r)[Len(s) + 1] = r
      BY <3>1
    <3> QED
      BY <2>1, <2>5, <3>1, <3>2 DEF s, r
  <2> QED
    BY <2>4, <2>5
<1> QED
  BY <1>1, <1>2, RecordSteps


(* When a message is executed, its BCR has been: no earlier nonce is pending. *)
LEMMA ExecutedIsVerified ==
  ASSUME IInv, NEW g \in P2P, NEW tx \in pendingCM[g], tx.nonce = txCount[g]
  PROVE  VerifyBCR(tx.position, tx.cm,
                   rootsOnDst[g[2]][tx.cm.sourceChain][tx.height], tx.leaves)
<1>1. /\ tx.cm.sourceChain = g[1]
      /\ tx.leaves = roots[g[1]][tx.height]
      /\ tx.position \in DOMAIN tx.leaves
      /\ tx.cm = tx.leaves[tx.position]
      /\ BCRComesBefore(g, tx.height, tx.nonce)
      /\ txCount[g] \in Nat
  BY PendingCM
<1>2. ASSUME NEW t \in pendingBCR[g] PROVE ~(t.nonce < tx.nonce)
  <2>1. t.nonce \in Nonces(pendingBCR[g])
    BY DEF Nonces
  <2>2. Nonces(pendingBCR[g]) \cup Nonces(pendingCM[g])
          = txCount[g] .. (txNonce[g] - 1)
    BY DEF IInv, NoncesAreContiguous
  <2>3. t.nonce \in txCount[g] .. (txNonce[g] - 1)
    BY <2>1, <2>2, Zenon
  <2>4. txCount[g] \in Nat /\ txNonce[g] \in Nat
    BY DEF IInv, TypeOK
  <2> QED
    BY <2>3, <2>4
<1>3. rootsOnDst[g[2]][g[1]][tx.height] = roots[g[1]][tx.height]
  BY <1>1, <1>2 DEF BCRComesBefore
<1> QED
  BY <1>1, <1>3 DEF VerifyBCR

(* A message that is received next was pending, and its BCR is there. *)
LEMMA ReceivedGenuineStep == IInv /\ [Next]_vars => ReceivedIsGenuine'
<1> SUFFICES ASSUME IInv, [Next]_vars, NEW d \in Para,
                    NEW i \in DOMAIN cmsRecordByCount'[d], NEW e,
                    e = cmsRecordByCount'[d][i]
             PROVE  /\ e.verified
                    /\ e.cm.targetChain = d
                    /\ Sealed(e.cm.sourceChain, e.height)'
                    /\ e.position \in DOMAIN roots'[e.cm.sourceChain][e.height]
                    /\ e.cm = roots'[e.cm.sourceChain][e.height][e.position]
  BY DEF ReceivedIsGenuine
<1>1. ASSUME NEW p \in Para, NEW h \in Heights, Sealed(p, h)
      PROVE  Sealed(p, h)' /\ roots'[p][h] = roots[p][h]
  BY <1>1, SealedStays, SealedRootsStay DEF IInv, Chains
<1>2. CASE /\ i \in DOMAIN cmsRecordByCount[d]
           /\ cmsRecordByCount'[d][i] = cmsRecordByCount[d][i]
  <2>1. /\ e.verified
        /\ e.cm.targetChain = d
        /\ Sealed(e.cm.sourceChain, e.height)
        /\ e.position \in DOMAIN roots[e.cm.sourceChain][e.height]
        /\ e.cm = roots[e.cm.sourceChain][e.height][e.position]
    BY <1>2 DEF IInv, ReceivedIsGenuine
  <2>2. e.cm.sourceChain \in Para /\ e.height \in Heights
    <3>1. e \in Receipt
      BY <1>2 DEF IInv, TypeOK, ContractTypeOK
    <3> QED
      BY <3>1 DEF Receipt, CM
  <2>3. /\ Sealed(e.cm.sourceChain, e.height)'
        /\ roots'[e.cm.sourceChain][e.height]
             = roots[e.cm.sourceChain][e.height]
    BY <1>1, <2>1, <2>2
  <2> QED
    BY <2>1, <2>3
<1>3. CASE \E g \in P2P : \E tx :
             /\ g[2] = d /\ Executes(g, tx)
             /\ cmsRecordByCount'[d][i] = ReceiptOf(g, tx)
  <2>0. PICK g \in P2P : \E tx :
          /\ g[2] = d /\ Executes(g, tx)
          /\ e = ReceiptOf(g, tx)
    BY <1>3
  <2>1. PICK tx :
          /\ g[2] = d /\ Executes(g, tx)
          /\ e = ReceiptOf(g, tx)
    BY <2>0
  <2>2. tx \in pendingCM[g] /\ tx.nonce = txCount[g]
    BY <2>1 DEF Executes
  <2>3. VerifyBCR(tx.position, tx.cm,
                  rootsOnDst[g[2]][tx.cm.sourceChain][tx.height], tx.leaves)
    BY <2>2, ExecutedIsVerified
  <2>4. /\ e.cm = tx.cm /\ e.height = tx.height /\ e.position = tx.position
        /\ e.verified
    BY <2>1, <2>3 DEF ReceiptOf
  <2>5. /\ tx.height \in Heights /\ g[1] \in Para
        /\ tx.cm.sourceChain = g[1] /\ tx.cm.targetChain = d
        /\ Sealed(g[1], tx.height)
        /\ tx.position \in DOMAIN roots[g[1]][tx.height]
        /\ tx.cm = roots[g[1]][tx.height][tx.position]
    BY <2>1, <2>2, PendingCM, GatewayEnds
  <2>6. Sealed(g[1], tx.height)' /\ roots'[g[1]][tx.height] = roots[g[1]][tx.height]
    BY <1>1, <2>5
  <2> QED
    BY <2>4, <2>5, <2>6
<1> QED
  BY <1>2, <1>3, NewReceipt

(* Only a gateway's transactions deliver. *)
LEMMA ReceivedOverRoutesStep == IInv /\ [Next]_vars => ReceivedOverRoutes'
<1> SUFFICES ASSUME IInv, [Next]_vars, NEW d \in Para,
                    NEW i \in DOMAIN cmsRecordByCount'[d]
             PROVE  <<cmsRecordByCount'[d][i].cm.sourceChain, d>> \in Routes
  BY DEF ReceivedOverRoutes
<1>1. CASE /\ i \in DOMAIN cmsRecordByCount[d]
           /\ cmsRecordByCount'[d][i] = cmsRecordByCount[d][i]
  BY <1>1 DEF IInv, ReceivedOverRoutes
<1>2. CASE \E g \in P2P : \E tx :
             /\ g[2] = d /\ Executes(g, tx)
             /\ cmsRecordByCount'[d][i] = ReceiptOf(g, tx)
  <2>0. PICK g \in P2P : \E tx :
          /\ g[2] = d /\ Executes(g, tx)
          /\ cmsRecordByCount'[d][i] = ReceiptOf(g, tx)
    BY <1>2
  <2>1. PICK tx :
          /\ g[2] = d /\ Executes(g, tx)
          /\ cmsRecordByCount'[d][i] = ReceiptOf(g, tx)
    BY <2>0
  <2>2. tx.cm.sourceChain = g[1] /\ g = <<g[1], d>>
    BY <2>1, PendingCM, GatewayEnds DEF Executes
  <2> QED
    BY <2>1, <2>2 DEF ReceiptOf, P2P
<1> QED
  BY <1>1, <1>2, NewReceipt

(* What a gateway has passed comes before the message it looks at. *)
LEMMA PassedIsBefore ==
  ASSUME NEW g, NEW h, NEW i, pc[g] = "cms", Passed(g, h, i)
  PROVE  Before(h, i, next[g], sendIdx[g])
BY DEF Passed, Before

(* The messages a gateway sends leave it in order. *)
LEMMA PendingInOrder ==
  ASSUME IInv, [Next]_vars, NEW g \in P2P,
         NEW a \in pendingCM'[g], NEW b \in pendingCM'[g], a.nonce < b.nonce
  PROVE  Before(a.height, a.position, b.height, b.position)
<1>1. CASE a \in pendingCM[g] /\ b \in pendingCM[g]
  BY <1>1 DEF IInv, MessagesAreInOrder
<1>2. CASE b \notin pendingCM[g]
  <2>1. /\ SendCM(g) /\ b.nonce = txNonce[g]
        /\ b.height = next[g] /\ b.position = sendIdx[g]
        /\ pendingCM' = [pendingCM EXCEPT ![g] = @ \cup {b}]
    BY <1>2, NewCM
  <2>2. a \in pendingCM[g]
    <3>1. pendingCM'[g] = pendingCM[g] \cup {b}
      BY <2>1 DEF IInv, TypeOK
    <3>2. a # b
      <4>1. txNonce[g] \in Nat
        BY DEF IInv, TypeOK
      <4> QED
        BY <2>1, <4>1
    <3> QED
      BY <3>1, <3>2
  <2>3. Passed(g, a.height, a.position) /\ pc[g] = "cms"
    BY <2>1, <2>2, PendingCM DEF SendCM
  <2> QED
    BY <2>1, <2>3, PassedIsBefore
<1>3. CASE a \notin pendingCM[g] /\ b \in pendingCM[g]
  <2>1. a.nonce = txNonce[g] /\ txNonce[g] \in Nat
    BY <1>3, NewCM DEF IInv, TypeOK
  <2>2. b.nonce < txNonce[g] /\ b.nonce \in Nat
    BY <1>3, PendingCM
  <2> QED
    BY <2>1, <2>2
<1> QED
  BY <1>1, <1>2, <1>3


(* What g's destination has received from g's source comes before what is    *)
(* pending, and g has passed it.                                             *)
LEMMA ReceivedBeforePending ==
  ASSUME IInv, [Next]_vars, NEW g \in P2P,
         NEW i \in DOMAIN cmsRecordByCount'[g[2]], NEW e,
         e = cmsRecordByCount'[g[2]][i], e.cm.sourceChain = g[1]
  PROVE  /\ Passed(g, e.height, e.position)'
         /\ \A tx \in pendingCM'[g] :
              Before(e.height, e.position, tx.height, tx.position)
<1>0. TypeOK /\ g[2] \in Para
  BY GatewayEnds DEF IInv
<1>1. CASE /\ i \in DOMAIN cmsRecordByCount[g[2]]
           /\ cmsRecordByCount'[g[2]][i] = cmsRecordByCount[g[2]][i]
  <2>1. e \in Receipt /\ e.height \in Heights /\ e.position \in Nat
    <3>1. e \in Receipt
      BY <1>0, <1>1 DEF TypeOK, ContractTypeOK
    <3> QED
      BY <3>1 DEF Receipt
  <2>2. /\ Passed(g, e.height, e.position)
        /\ \A tx \in pendingCM[g] :
             Before(e.height, e.position, tx.height, tx.position)
    BY <1>1 DEF IInv, MessagesAreInOrder
  <2>3. Passed(g, e.height, e.position)'
    BY <2>1, <2>2, PassedStays
  <2>4. ASSUME NEW tx \in pendingCM'[g], tx \notin pendingCM[g]
        PROVE  Before(e.height, e.position, tx.height, tx.position)
    <3>1. /\ SendCM(g) /\ tx.height = next[g] /\ tx.position = sendIdx[g]
      BY <2>4, NewCM
    <3>2. pc[g] = "cms"
      BY <3>1 DEF SendCM
    <3> QED
      BY <2>2, <3>1, <3>2, PassedIsBefore
  <2> QED
    BY <2>2, <2>3, <2>4
<1>2. CASE \E k \in P2P : \E tx :
             /\ k[2] = g[2] /\ Executes(k, tx)
             /\ cmsRecordByCount'[g[2]][i] = ReceiptOf(k, tx)
  <2>0. PICK k \in P2P : \E t :
          /\ k[2] = g[2] /\ Executes(k, t)
          /\ e = ReceiptOf(k, t)
    BY <1>2
  <2>1. PICK t :
          /\ k[2] = g[2] /\ Executes(k, t)
          /\ e = ReceiptOf(k, t)
    BY <2>0
  <2>2. /\ t \in pendingCM[k] /\ t.nonce = txCount[k]
        /\ pendingCM' = [pendingCM EXCEPT ![k] = @ \ {t}]
    BY <2>1 DEF Executes
  <2>3. e.cm = t.cm /\ e.height = t.height /\ e.position = t.position
    BY <2>1 DEF ReceiptOf
  <2>4. k = g
    <3>1. t.cm.sourceChain = k[1]
      BY <2>2, PendingCM
    <3> QED
      BY <2>1, <2>3, <3>1, GatewayEnds
  <2>5. /\ Passed(g, t.height, t.position)
        /\ t.height \in Heights /\ t.position \in Nat /\ t.nonce \in Nat
    BY <2>2, <2>4, PendingCM
  <2>6. Passed(g, t.height, t.position)'
    BY <2>5, PassedStays
  <2>7. ASSUME NEW tx \in pendingCM'[g]
        PROVE  Before(t.height, t.position, tx.height, tx.position)
    <3>1. tx \in pendingCM[g] /\ tx # t
      BY <1>0, <2>2, <2>4, <2>7 DEF TypeOK
    <3>2. tx.nonce # t.nonce
      BY <2>2, <2>4, <3>1 DEF IInv, NoncesAreContiguous, DifferentNonces
    <3>3. txCount[g] <= tx.nonce /\ tx.nonce \in Nat /\ txCount[g] \in Nat
      BY <3>1, PendingCM
    <3>4. t.nonce < tx.nonce
      BY <2>2, <2>4, <3>2, <3>3
    <3> QED
      BY <2>2, <2>4, <3>1, <3>4 DEF IInv, MessagesAreInOrder
  <2> QED
    BY <2>3, <2>6, <2>7
<1> QED
  BY <1>0, <1>1, <1>2, NewReceipt

(* A message that is received next comes after all received before. *)
LEMMA ReceivedInOrderStep == IInv /\ [Next]_vars => ReceivedInOrder'
<1> SUFFICES ASSUME IInv, [Next]_vars, NEW d \in Para,
                    NEW j \in DOMAIN cmsRecordByCount'[d],
                    NEW i \in 1 .. (j - 1), NEW e, NEW f,
                    e = cmsRecordByCount'[d][i], f = cmsRecordByCount'[d][j],
                    e.cm.sourceChain = f.cm.sourceChain
             PROVE  Before(e.height, e.position, f.height, f.position)
  BY DEF ReceivedInOrder
<1>0. cmsRecordByCount[d] \in Seq(Receipt)
  BY DEF IInv, TypeOK, ContractTypeOK
<1>1. CASE /\ j \in DOMAIN cmsRecordByCount[d]
           /\ cmsRecordByCount'[d][j] = cmsRecordByCount[d][j]
  <2>1. i \in DOMAIN cmsRecordByCount[d]
    BY <1>0, <1>1
  <2>2. \/ cmsRecordByCount'[d][i] = cmsRecordByCount[d][i]
        \/ i \notin DOMAIN cmsRecordByCount'[d]
    BY <2>1, NewReceipt
  <2>3. i \in DOMAIN cmsRecordByCount'[d]
    <3>1. \/ cmsRecordByCount' = cmsRecordByCount
          \/ \E k \in P2P : \E r : cmsRecordByCount' =
               [cmsRecordByCount EXCEPT ![k[2]] = Append(@, r)]
      BY RecordSteps DEF Executes
    <3>2. cmsRecordByCount \in [Para -> Seq(Receipt)]
      BY DEF IInv, TypeOK, ContractTypeOK
    <3>3. \/ cmsRecordByCount'[d] = cmsRecordByCount[d]
          \/ \E r : cmsRecordByCount'[d] = Append(cmsRecordByCount[d], r)
      BY <3>1, <3>2
    <3> QED
      BY <1>0, <2>1, <3>3
  <2> QED
    BY <1>1, <2>1, <2>2, <2>3 DEF IInv, MessagesAreInOrder, ReceivedInOrder
<1>2. CASE /\ j \notin DOMAIN cmsRecordByCount[d]
           /\ DOMAIN cmsRecordByCount'[d] = DOMAIN cmsRecordByCount[d] \cup {j}
           /\ \E g \in P2P : \E tx :
                /\ g[2] = d /\ Executes(g, tx)
                /\ cmsRecordByCount'[d][j] = ReceiptOf(g, tx)
  <2>0. PICK g \in P2P : \E tx :
          /\ g[2] = d /\ Executes(g, tx)
          /\ f = ReceiptOf(g, tx)
    BY <1>2
  <2>1. PICK tx :
          /\ g[2] = d /\ Executes(g, tx)
          /\ f = ReceiptOf(g, tx)
    BY <2>0
  <2>2. /\ cmsRecordByCount' =
             [cmsRecordByCount EXCEPT ![d] = Append(@, ReceiptOf(g, tx))]
        /\ tx \in pendingCM[g]
    BY <2>1 DEF Executes
  <2>3. f.cm = tx.cm /\ f.height = tx.height /\ f.position = tx.position
    BY <2>1 DEF ReceiptOf
  <2>4. i \in DOMAIN cmsRecordByCount[d] /\ e = cmsRecordByCount[d][i]
    <3> DEFINE s == cmsRecordByCount[d]  r == ReceiptOf(g, tx)
    <3>1. cmsRecordByCount'[d] = Append(s, r) /\ s \in Seq(Receipt)
      BY <1>0, <2>2 DEF IInv, TypeOK, ContractTypeOK
    <3> HIDE DEF s, r
    <3>2. i \in DOMAIN s /\ Append(s, r)[i] = s[i]
      BY <3>1
    <3> QED
      BY <3>1, <3>2 DEF s
  <2>5. tx.cm.sourceChain = g[1]
    BY <2>2, PendingCM
  <2> QED
    BY <2>1, <2>2, <2>3, <2>4, <2>5 DEF IInv, MessagesAreInOrder
<1> QED
  BY <1>1, <1>2, NewReceipt

(* The three parts together. *)
LEMMA MessagesStep == IInv /\ [Next]_vars => MessagesAreInOrder'
BY PendingInOrder, ReceivedBeforePending, ReceivedInOrderStep
   DEF MessagesAreInOrder, P2P

----------------------------------------------------------------------------
(* The inductive invariant. *)

(* No chain holds anything at first. *)
LEMMA InitIInv == Init => IInv
<1> SUFFICES ASSUME Init PROVE IInv
  OBVIOUS
<1>1. TypeOK
  BY HeightAssumption, MsgsAssumption
  DEF Init, ChainInit, ContractInit, TypeOK, ChainTypeOK, ContractTypeOK,
      Heights, BCR, NoBCR
<1>2. /\ BlocksAreWellFormed /\ HeaderGatewaysAreReady /\ HeadersAreStoredOnce
      /\ RelayRootsAreFinal /\ WorkersAreReady /\ DstRootsAreFinal
  BY GatewayKinds DEF Init, ContractInit, BlocksAreWellFormed, Headers,
     HeaderGatewaysAreReady, HeadersAreStoredOnce, RelayRootsAreFinal,
     WorkersAreReady, DstRootsAreFinal, NoBCR
<1>3. /\ PendingBCRsAreFinal /\ PendingCMsAreGenuine
  BY GatewayKinds DEF Init, PendingBCRsAreFinal, PendingCMsAreGenuine
<1>4. NoncesAreContiguous
  BY DEF Init, NoncesAreContiguous, Nonces, DifferentNonces
<1>5. /\ MessagesAreInOrder /\ ReceivedIsGenuine /\ ReceivedOverRoutes
  <2>1. ASSUME NEW d \in Para PROVE DOMAIN cmsRecordByCount[d] = {}
    <3>1. cmsRecordByCount[d] = <<>>
      BY DEF Init, ContractInit
    <3>2. \A s : s = <<>> => DOMAIN s = {}
      OBVIOUS
    <3> QED
      BY <3>1, <3>2
  <2>2. \A g \in P2P : pendingCM[g] = {} /\ g[2] \in Para
    BY GatewayEnds DEF Init
  <2> QED
    BY <2>1, <2>2, Zenon
    DEF MessagesAreInOrder, ReceivedInOrder, ReceivedIsGenuine,
        ReceivedOverRoutes
<1> QED
  BY <1>1, <1>2, <1>3, <1>4, <1>5 DEF IInv

(* Every state of the protocol satisfies IInv: the parts hold each other up. *)
THEOREM Inductive == Spec => []IInv
<1>1. IInv /\ [Next]_vars => IInv'
  BY TypeStep, BlocksStep, HeaderGatewaysStep, HeadersStep, RelayRootsStep,
     WorkersStep, PendingBCRsStep, PendingCMsStep, DstRootsStep, NoncesStep,
     MessagesStep, ReceivedGenuineStep, ReceivedOverRoutesStep
  DEF IInv
<1> QED
  BY <1>1, InitIInv, PTL DEF Spec


(* The gateways and the contracts keep values of their types. *)
THEOREM TypeCorrect == Spec => []TypeOK
BY Inductive, PTL DEF IInv

(* No chain ever holds a root that is not the final one of its block, whatever *)
(* the order of users, gateways and seals.                                     *)
THEOREM RootsFinal == Spec => []RootsAreFinal
<1>1. IInv => RootsAreFinal
  BY DEF IInv, RelayRootsAreFinal, DstRootsAreFinal, RootsAreFinal
<1> QED
  BY <1>1, Inductive, PTL

(* Every BCR sent to a destination proves itself in a state whose header the   *)
(* destination has, although the relay block is looked up by value.            *)
THEOREM BCRsProven == Spec => []BCRsAreProven
<1>1. IInv => BCRsAreProven
  BY DEF IInv, PendingBCRsAreFinal, BCRsAreProven
<1> QED
  BY <1>1, Inductive, PTL

(* Destinations receive only verified messages that were sent to them,         *)
(* although the contract ignores the result of the verification.               *)
THEOREM Genuine == Spec => []ReceivedIsGenuine
BY Inductive, PTL DEF IInv

(* Destinations receive the messages of a source in order and none twice,      *)
(* although the contract checks neither.                                       *)
THEOREM InOrder == Spec => []ReceivedInOrder
<1>1. IInv => ReceivedInOrder
  BY DEF IInv, MessagesAreInOrder
<1> QED
  BY <1>1, Inductive, PTL

(* A gateway's account neither skips nor reuses a nonce.                       *)
THEOREM NoncesContiguous == Spec => []NoncesAreContiguous
BY Inductive, PTL DEF IInv

----------------------------------------------------------------------------
(* The protocol implements CrossChain. *)

Sent(p, h, i) == [cm |-> roots[p][h][i], height |-> h, position |-> i]

(* A message was sent when it is in a block. *)
LEMMA SentIs ==
  /\ \A m : m \in SentMessages <=>
       \E p \in Para, h \in Heights : \E i \in DOMAIN roots[p][h] :
         m = Sent(p, h, i)
  /\ \A m : m \in SentMessages' <=>
       \E p \in Para, h \in Heights : \E i \in DOMAIN roots'[p][h] :
         m = [cm |-> roots'[p][h][i], height |-> h, position |-> i]
<1>1. \A m : m \in SentMessages <=>
        \E p \in Para, h \in Heights : m \in SentHere(p, h)
  BY DEF SentMessages
<1>2. \A m : m \in SentMessages' <=>
        \E p \in Para, h \in Heights : m \in SentHere(p, h)'
  BY DEF SentMessages
<1> QED
  BY <1>1, <1>2 DEF SentHere, Sent

(* A user's message comes after those of its chain that were sent before. *)
LEMMA SendsNext ==
  ASSUME IInv, NEW r \in Routes, NEW x \in Payload, UserSend(r[1], r[2], x)
  PROVE  CC!Next
<1> DEFINE p  == r[1]
           h  == OpenBlock(r[1])
           cm == [sourceChain |-> r[1], targetChain |-> r[2], payload |-> x]
           n  == Len(roots[r[1]][OpenBlock(r[1])]) + 1
           m  == [cm |-> cm, height |-> h, position |-> n]
<1>1. /\ p \in Para /\ p \in Chains /\ cm \in CM
  BY GatewayEnds DEF P2P, Chains, CM
<1>2. h \in Heights /\ h \in Nat \ {0}
  BY <1>1, MineType DEF UserSend, CrossSendToR, IInv, TypeOK, Heights
<1>3. roots \in [Para -> [Heights -> Seq(CM)]]
  BY DEF IInv, TypeOK, ContractTypeOK, BCR
<1>4. /\ roots' = [roots EXCEPT ![p][h] = Append(@, cm)]
      /\ cmsRecordByCount' = cmsRecordByCount
  BY DEF UserSend, CrossSendToR
<1> HIDE DEF p, h, cm
<1>5. /\ roots[p][h] \in Seq(CM) /\ roots'[p][h] = Append(roots[p][h], cm)
      /\ \A q \in Para, k \in Heights :
           ~(q = p /\ k = h) => roots'[q][k] = roots[q][k]
  BY <1>1, <1>2, <1>3, <1>4
<1>6. n = Len(roots[p][h]) + 1 /\ n \in Nat \ {0}
  BY <1>5 DEF p, h
<1> HIDE DEF n
<1>7. /\ DOMAIN roots'[p][h] = DOMAIN roots[p][h] \cup {n}
      /\ roots'[p][h][n] = cm
      /\ \A i \in DOMAIN roots[p][h] :
           roots'[p][h][i] = roots[p][h][i] /\ i \in Nat /\ i < n
  BY <1>5, <1>6
<1>8. SentMessages' = SentMessages \cup {m}
  <2>1. ASSUME NEW q \in Para, NEW k \in Heights, NEW i
        PROVE  /\ i \in DOMAIN roots'[q][k] <=>
                    i \in DOMAIN roots[q][k] \/ (q = p /\ k = h /\ i = n)
               /\ i \in DOMAIN roots[q][k] => roots'[q][k][i] = roots[q][k][i]
    BY <1>5, <1>7
  <2>2. ASSUME NEW s, s \in SentMessages' PROVE s \in SentMessages \cup {m}
    <3>0. PICK q \in Para, k \in Heights : \E i :
            /\ i \in DOMAIN roots'[q][k]
            /\ s = [cm |-> roots'[q][k][i], height |-> k, position |-> i]
      BY <2>2, SentIs
    <3>1. PICK i :
            /\ i \in DOMAIN roots'[q][k]
            /\ s = [cm |-> roots'[q][k][i], height |-> k, position |-> i]
      BY <3>0
    <3>2. CASE i \in DOMAIN roots[q][k]
      <4>1. s = Sent(q, k, i)
        BY <2>1, <3>1, <3>2 DEF Sent
      <4> QED
        BY <3>1, <3>2, <4>1, SentIs
    <3>3. CASE q = p /\ k = h /\ i = n
      BY <1>7, <3>1, <3>3
    <3> QED
      BY <2>1, <3>1, <3>2, <3>3
  <2>3. ASSUME NEW s, s \in SentMessages PROVE s \in SentMessages'
    <3>0. PICK q \in Para, k \in Heights : \E i :
            i \in DOMAIN roots[q][k] /\ s = Sent(q, k, i)
      BY <2>3, SentIs
    <3>1. PICK i :
            i \in DOMAIN roots[q][k] /\ s = Sent(q, k, i)
      BY <3>0
    <3>2. /\ i \in DOMAIN roots'[q][k]
          /\ s = [cm |-> roots'[q][k][i], height |-> k, position |-> i]
      BY <2>1, <3>1 DEF Sent
    <3> QED
      BY <3>2, SentIs
  <2>4. m \in SentMessages'
    <3>1. n \in DOMAIN roots'[p][h] /\ roots'[p][h][n] = cm
      BY <1>7
    <3> QED
      BY <1>1, <1>2, <3>1, SentIs
  <2> QED
    BY <2>2, <2>3, <2>4
<1>9. ASSUME NEW s \in SentMessages, s.cm.sourceChain = m.cm.sourceChain
      PROVE  Before(s.height, s.position, m.height, m.position)
  <2>0. PICK q \in Para, k \in Heights : \E i :
          i \in DOMAIN roots[q][k] /\ s = Sent(q, k, i)
    BY SentIs
  <2>1. PICK i :
          i \in DOMAIN roots[q][k] /\ s = Sent(q, k, i)
    BY <2>0
  <2>2. s.cm = roots[q][k][i] /\ s.height = k /\ s.position = i
    BY <2>1 DEF Sent
  <2>3. /\ roots[q][k][i].sourceChain = q
        /\ roots[q][k] # NoBCR => k <= OpenBlock(q)
    BY <2>1 DEF IInv, BlocksAreWellFormed
  <2>4. roots[q][k] # NoBCR /\ k \in Nat
    BY <2>1, LeafType DEF IInv, TypeOK, Heights
  <2>5. q = p
    BY <1>9, <2>2, <2>3 DEF p, cm
  <2>6. k < h \/ k = h
    BY <1>2, <2>3, <2>4, <2>5 DEF h, p
  <2>7. k = h => i < n
    BY <1>7, <2>1, <2>5
  <2> QED
    BY <2>2, <2>6, <2>7 DEF Before
<1>10. m \notin SentMessages
  <2>1. ASSUME m \in SentMessages PROVE FALSE
    <3>1. Before(m.height, m.position, m.height, m.position)
      BY <1>9, <2>1
    <3> QED
      BY <1>2, <1>6, <3>1 DEF Before
  <2> QED
    BY <2>1
<1>11. m \in CC!SentMessage
  BY <1>1, <1>2, <1>6 DEF CC!SentMessage, CM
<1>12. Delivered' = Delivered
  BY <1>4 DEF Delivered
<1>13. CC!Send(m)
  BY <1>8, <1>9, <1>12
  DEF CC!Send, CC!SameSource, CC!Earlier, CC!Before, Before
<1>14. m \in SentMessages' \ SentMessages
  BY <1>8, <1>10
<1> HIDE DEF m
<1> QED
  BY <1>11, <1>13, <1>14 DEF CC!Next


(* An executed message was sent, and after those its destination has received *)
(* from the same chain.                                                       *)
LEMMA ExecutesNext ==
  ASSUME IInv, NEW g \in P2P, NEW tx, Executes(g, tx), roots' = roots
  PROVE  CC!Next
<1> DEFINE m == [cm |-> tx.cm, height |-> tx.height, position |-> tx.position]
           d == g[2]
           s == cmsRecordByCount[g[2]]
           e == ReceiptOf(g, tx)
<1>1. /\ tx \in pendingCM[g] /\ tx.height \in Heights /\ g[1] \in Para
      /\ tx.cm.sourceChain = g[1] /\ tx.cm.targetChain = d
      /\ tx.position \in DOMAIN roots[g[1]][tx.height]
      /\ tx.cm = roots[g[1]][tx.height][tx.position]
      /\ d \in Para
  BY PendingCM, GatewayEnds DEF Executes
<1>2. cmsRecordByCount \in [Para -> Seq(Receipt)] /\ s \in Seq(Receipt)
  BY <1>1 DEF IInv, TypeOK, ContractTypeOK
<1>3. m \in SentMessages
  <2>1. m = Sent(g[1], tx.height, tx.position)
    BY <1>1 DEF Sent
  <2> QED
    BY <1>1, <2>1, SentIs
<1>4. SentMessages' = SentMessages
  BY DEF SentMessages, SentHere
<1>5. cmsRecordByCount' = [cmsRecordByCount EXCEPT ![d] = Append(@, e)]
  BY DEF Executes
<1>6. MessageOf(e) = m
  BY DEF MessageOf, ReceiptOf
<1> HIDE DEF d, s, e, m
<1>7. /\ cmsRecordByCount'[d] = Append(s, e)
      /\ \A c \in Para : c # d => cmsRecordByCount'[c] = cmsRecordByCount[c]
  BY <1>1, <1>2, <1>5 DEF s, d
<1>8. /\ DOMAIN Append(s, e) = DOMAIN s \cup {Len(s) + 1}
      /\ Append(s, e)[Len(s) + 1] = e
      /\ \A i \in DOMAIN s : Append(s, e)[i] = s[i]
  BY <1>2
<1>9. {MessageOf(Append(s, e)[i]) : i \in DOMAIN Append(s, e)}
        = {MessageOf(s[i]) : i \in DOMAIN s} \cup {m}
  BY <1>6, <1>8
<1>10. Delivered' = [Delivered EXCEPT ![d] = @ \cup {m}]
  <2> DEFINE del(f) == [c \in Para |-> {MessageOf(f[c][i]) : i \in DOMAIN f[c]}]
  <2>1. Delivered = del(cmsRecordByCount) /\ Delivered' = del(cmsRecordByCount')
    BY DEF Delivered, MessageOf
  <2>2. ASSUME NEW c \in Para, c # d PROVE Delivered'[c] = Delivered[c]
    BY <1>7, <2>1, <2>2
  <2>3. Delivered'[d] = Delivered[d] \cup {m}
    BY <1>1, <1>7, <1>9, <2>1 DEF s, d
  <2>4. /\ Delivered' = [c \in Para |-> Delivered'[c]]
        /\ Delivered = [c \in Para |-> Delivered[c]]
    BY DEF Delivered
  <2> QED
    BY <1>1, <2>2, <2>3, <2>4
<1>11. ASSUME NEW n \in Delivered[d], n.cm.sourceChain = m.cm.sourceChain
       PROVE  Before(n.height, n.position, m.height, m.position)
  <2>1. PICK i \in DOMAIN s : n = MessageOf(s[i])
    BY <1>1 DEF Delivered, s, d
  <2>2. /\ n.cm = s[i].cm /\ n.height = s[i].height
        /\ n.position = s[i].position
    BY <2>1 DEF MessageOf
  <2>3. s[i].cm.sourceChain = g[1]
    BY <1>1, <1>11, <2>2 DEF m
  <2>4. Before(s[i].height, s[i].position, tx.height, tx.position)
    BY <1>1, <2>1, <2>3 DEF IInv, MessagesAreInOrder, s
  <2> QED
    BY <2>2, <2>4 DEF m
<1>12. m.cm.targetChain = d
  BY <1>1 DEF m
<1>13. CC!Deliver(m)
  BY <1>3, <1>4, <1>10, <1>11, <1>12
  DEF CC!Deliver, CC!SameSource, CC!Earlier, CC!Before, Before
<1> QED
  BY <1>3, <1>13 DEF CC!Next

(* What users see changes only when one sends or a destination executes. *)
LEMMA VisibleSteps ==
  ASSUME [Next]_vars
  PROVE  \/ roots' = roots /\ cmsRecordByCount' = cmsRecordByCount
         \/ \E r \in Routes, x \in Payload : UserSend(r[1], r[2], x)
         \/ roots' = roots /\ \E g \in P2P : \E tx : Executes(g, tx)
<1>1. ASSUME NEW c, SealBlock(c)
      PROVE  roots' = roots /\ cmsRecordByCount' = cmsRecordByCount
  BY <1>1 DEF SealBlock, contractVars
<1>2. ASSUME NEW g, P2RExecute(g) \/ R2PExecute(g) \/ ExecuteBCR(g)
      PROVE  roots' = roots /\ cmsRecordByCount' = cmsRecordByCount
  BY <1>2 DEF P2RExecute, R2PExecute, ExecuteBCR, SubmitHeader,
              SubmitHeaderAndBCR, CrossReceiveBCR
<1>3. ASSUME NEW g, ExecuteCM(g) PROVE roots' = roots
  BY <1>3 DEF ExecuteCM, CrossReceiveFromParaToR
<1> QED
  BY <1>1, <1>2, <1>3, ContractSteps, RecordSteps
  DEF ContractsQuiet, contractVars

(* A user sees no difference between the gateways, the relay chain and their   *)
(* many interleavings, and the two operations of CrossChain.                   *)
THEOREM Implementation == Spec => ImplementsCrossChain
<1>1. Init => CC!Init
  <2> SUFFICES ASSUME Init PROVE CC!Init
    OBVIOUS
  <2>1. \A s : s = <<>> => DOMAIN s = {}
    OBVIOUS
  <2>2. /\ \A p \in Para, h \in Heights : roots[p][h] = <<>>
        /\ \A d \in Para : cmsRecordByCount[d] = <<>>
    BY DEF Init, ContractInit, NoBCR
  <2>3. \A d \in Para : DOMAIN cmsRecordByCount[d] = {}
    BY <2>1, <2>2
  <2>4. \A p \in Para, h \in Heights : DOMAIN roots[p][h] = {}
    BY <2>1, <2>2
  <2>5. SentMessages = {}
    BY <2>4, SentIs
  <2>6. Delivered = [d \in Para |-> {}]
    BY <2>3 DEF Delivered
  <2> QED
    BY <2>5, <2>6 DEF CC!Init
<1>2. IInv /\ [Next]_vars => [CC!Next]_(CC!vars)
  <2> SUFFICES ASSUME IInv, [Next]_vars PROVE [CC!Next]_(CC!vars)
    OBVIOUS
  <2>1. CASE roots' = roots /\ cmsRecordByCount' = cmsRecordByCount
    <3>1. SentMessages' = SentMessages /\ Delivered' = Delivered
      BY <2>1 DEF SentMessages, SentHere, Delivered
    <3> QED
      BY <3>1 DEF CC!vars
  <2> QED
    BY <2>1, VisibleSteps, SendsNext, ExecutesNext
<1> QED
  BY <1>1, <1>2, Inductive, PTL DEF Spec, ImplementsCrossChain, CC!Spec


(* A gateway that does not start, and waits for no seal, keeps its block or   *)
(* goes on to the one that follows a sealed one.                              *)
LEMMA NextGoesOn ==
  ASSUME IInv, [Next]_vars, NEW g \in Gateways
  PROVE  \/ next'[g] = next[g]
         \/ Start(g)
         \/ HasBlock(g) /\ next'[g] = next[g] + 1
<1>1. TypeOK /\ next \in [Gateways -> Nat]
  BY DEF IInv, TypeOK
<1>2. CASE g \in Headers
  <2>1. HeaderReceipt(g) => HasBlock(g) /\ next'[g] = next[g] + 1
    BY <1>1, <1>2 DEF HeaderReceipt, IInv, HeaderGatewaysAreReady
  <2>2. P2RSend(g) \/ R2PSend(g) \/ P2RExecute(g) \/ R2PExecute(g)
          => next'[g] = next[g]
    BY DEF P2RSend, R2PSend, P2RExecute, R2PExecute
  <2> QED
    BY <1>1, <1>2, <2>1, <2>2, HeaderSteps DEF Quiet
<1>3. CASE g \in P2P
  <2>1. SkipBlock(g) \/ FinishBlock(g) => HasBlock(g) /\ next'[g] = next[g] + 1
    BY <1>1, <1>3 DEF SkipBlock, FinishBlock, IInv, WorkersAreReady
  <2>2. GetBCR(g) \/ GetBCRHeight(g) \/ SendBCR(g) \/ SendCM(g)
          => next'[g] = next[g]
    BY DEF GetBCR, GetBCRHeight, SendBCR, SendCM
  <2>3. ExecuteBCR(g) \/ ExecuteCM(g) => next'[g] = next[g]
    BY DEF ExecuteBCR, ExecuteCM
  <2> QED
    BY <1>1, <1>3, <2>1, <2>2, <2>3, WorkerSteps DEF Quiet, QuietWorker
<1> QED
  BY <1>2, <1>3, GatewayKinds DEF Headers

(* A chain grows when it seals a block, and then no gateway moves. *)
LEMMA HeightSteps ==
  ASSUME TypeOK, [Next]_vars
  PROVE  \/ height' = height
         \/ /\ next' = next
            /\ \A c \in Chains : height'[c] = height[c] \/ height'[c] = height[c] + 1
<1>1. height \in [Chains -> Nat]
  BY DEF TypeOK, ChainTypeOK, Heights
<1>2. ASSUME NEW c \in Chains, SealBlock(c)
      PROVE  /\ next' = next
             /\ \A e \in Chains : height'[e] = height[e] \/ height'[e] = height[e] + 1
  BY <1>1, <1>2 DEF SealBlock, Seal
<1>3. ASSUME NEW r \in Routes, NEW x \in Payload, UserSend(r[1], r[2], x)
      PROVE  height' = height
  BY <1>3 DEF UserSend, CrossSendToR, Mine
<1>4. ASSUME NEW g, P2RExecute(g) \/ R2PExecute(g) PROVE height' = height
  BY <1>4 DEF P2RExecute, R2PExecute, SubmitHeaderAndBCR, SubmitHeader, Mine
<1>5. ASSUME NEW g, ExecuteBCR(g) \/ ExecuteCM(g) PROVE height' = height
  BY <1>5 DEF ExecuteBCR, ExecuteCM, CrossReceiveBCR, CrossReceiveFromParaToR,
              Mine
<1> QED
  BY <1>2, <1>3, <1>4, <1>5, ContractSteps DEF ContractsQuiet

(* Together: a step of ToR is one of the feed of every gateway, or none. *)
LEMMA FeedStep ==
  ASSUME IInv, [Next]_vars, NEW g \in Gateways
  PROVE  BF(g)!Next \/ UNCHANGED BF(g)!vars
<1>1. TypeOK /\ g[1] \in Chains
  BY GatewaysJoinChains DEF IInv
<1>2. CASE height' = height
  <2>1. CASE next'[g] = next[g]
    BY <1>2, <2>1 DEF BF!vars
  <2>2. CASE Start(g)
    <3>1. next[g] = 0 /\ next'[g] = height[g[1]]
      BY <1>1, <2>2 DEF Start, TypeOK
    <3> QED
      BY <1>2, <3>1 DEF BF!Next, BF!Start
  <2>3. CASE HasBlock(g) /\ next'[g] = next[g] + 1
    BY <1>2, <2>3 DEF HasBlock, Sealed, BF!Next, BF!Advance
  <2> QED
    BY <2>1, <2>2, <2>3, NextGoesOn
<1>3. CASE /\ next' = next
           /\ \A c \in Chains : height'[c] = height[c] \/ height'[c] = height[c] + 1
  <2>1. CASE height'[g[1]] = height[g[1]]
    BY <1>3, <2>1 DEF BF!vars
  <2>2. CASE height'[g[1]] = height[g[1]] + 1
    BY <1>3, <2>2 DEF BF!Next, BF!Grow
  <2> QED
    BY <1>1, <1>3, <2>1, <2>2
<1> QED
  BY <1>1, <1>2, <1>3, HeightSteps

(* Every gateway deals with the sealed blocks of its source one after the      *)
(* other, from its first one on, whatever its receipts, the relay chain and    *)
(* the other gateways do.                                                      *)
THEOREM Feed == Spec => GatewaysFeed
<1>1. Init => \A g \in Gateways : BF(g)!Init
  BY GatewaysJoinChains DEF Init, ChainInit, BF!Init
<1>2. IInv /\ [Next]_vars
        => [\A g \in Gateways : BF(g)!Next \/ UNCHANGED BF(g)!vars]_<<height, next>>
  BY FeedStep
<1> QED
  BY <1>1, <1>2, Inductive, PTL DEF Spec, GatewaysFeed
============================================================================
