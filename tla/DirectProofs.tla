---------------------------- MODULE DirectProofs ---------------------------
(***************************************************************************)
(* The steps of NoR and AoR preserve the invariant of DirectInv, for all   *)
(* values of the constants.  What the two protocols have in common is      *)
(* DirectNext; NoRProofs and AoRProofs show that every step of theirs is   *)
(* one of its steps.                                                       *)
(***************************************************************************)
EXTENDS DirectInv, TLAPS

\* The header is there, and the destination's contract keeps the message.
Keeps(g, tx) ==
  /\ Mine(g[2])
  /\ IF g[2] = Relay
     THEN /\ cmHashesOnRelay' = Append(cmHashesOnRelay, Received(g[2], tx))
          /\ UNCHANGED cmsRecordByCount
     ELSE /\ cmsRecordByCount' =
               [cmsRecordByCount EXCEPT ![g[2]] = Append(@, Received(g[2], tx))]
          /\ UNCHANGED cmHashesOnRelay
  /\ UNCHANGED <<cms, chainToHeaders>>

Executes(g, tx) == tx \in pendingCM[g] /\ TakeCM(g, tx) /\ Keeps(g, tx)

\* A gateway to a parachain sends only what is for that parachain.
Deals(g) == \E T \in SUBSET Para : (g[2] # Relay => T = {g[2]}) /\ DealCM(g, T)

\* What both protocols do.
DirectNext ==
  \/ \E p, t \in Para, x \in Payload : UserSend(p, t, x)
  \/ \E c \in Chains : SealBlock(c)
  \/ \E g \in Gateways : Start(g) \/ Walk(g) \/ ExecuteHeader(g) \/ Deals(g)
  \/ \E g \in Gateways : \E tx \in pendingCM[g] : Executes(g, tx)

----------------------------------------------------------------------------
(* Gateways, logs and records. *)

(* A gateway joins two chains, and the relay chain is not a parachain. *)
LEMMA GatewayEnds ==
  /\ \A g \in Gateways : /\ g[1] \in Chains /\ g[2] \in Chains /\ g[1] # g[2]
                         /\ g = <<g[1], g[2]>>
  /\ Relay \notin Para /\ Relay \in Chains
  /\ \A c \in Chains : c # Relay => c \in Para
  /\ \A p \in Para : p \in Chains /\ p # Relay
BY GatewaysAssumption, ParaAssumption DEF Chains, Relay

(* What the log of a chain holds. *)
LEMMA LogType ==
  ASSUME TypeOK, NEW c \in Chains
  PROVE  /\ DOMAIN CMLog(c) = 1 .. Len(CMLog(c)) /\ Len(CMLog(c)) \in Nat
         /\ \A i \in DOMAIN CMLog(c) :
              /\ i \in Nat \ {0}
              /\ CMLog(c)[i].cm \in CM /\ CMLog(c)[i].block \in Heights
              /\ SourceIndex(c, i) \in Nat
<1>1. CASE c = Relay
  <2>1. CMLog(c) \in Seq(Receipt)
    BY <1>1 DEF CMLog, TypeOK, ContractTypeOK
  <2>2. \A i \in DOMAIN CMLog(c) : CMLog(c)[i] \in Receipt /\ i \in Nat \ {0}
    BY <2>1
  <2> QED
    BY <1>1, <2>1, <2>2 DEF SourceIndex, CMLog, Receipt
<1>2. CASE c # Relay
  <2>1. CMLog(c) \in Seq(Entry)
    BY <1>2, GatewayEnds DEF CMLog, TypeOK, ContractTypeOK
  <2>2. \A i \in DOMAIN CMLog(c) : CMLog(c)[i] \in Entry /\ i \in Nat \ {0}
    BY <2>1
  <2> QED
    BY <1>2, <2>1, <2>2 DEF SourceIndex, Entry
<1> QED
  BY <1>1, <1>2

(* What a chain has received. *)
LEMMA RecordsType ==
  ASSUME TypeOK, NEW c \in Chains
  PROVE  /\ Records[c] \in Seq(Receipt)
         /\ DOMAIN Records[c] = 1 .. Len(Records[c]) /\ Len(Records[c]) \in Nat
         /\ \A i \in DOMAIN Records[c] :
              /\ i \in Nat \ {0} /\ Records[c][i] \in Receipt
              /\ Records[c][i].cm \in CM /\ Records[c][i].index \in Nat
<1>1. Records[c] \in Seq(Receipt)
  BY GatewayEnds DEF Records, TypeOK, ContractTypeOK
<1>2. \A i \in DOMAIN Records[c] : i \in Nat \ {0} /\ Records[c][i] \in Receipt
  BY <1>1
<1> QED
  BY <1>1, <1>2 DEF Receipt

(* What waits for execution. *)
LEMMA PendingType ==
  ASSUME TypeOK, NEW g \in Gateways, NEW tx \in pendingCM[g]
  PROVE  /\ tx \in CMTx /\ tx.nonce \in Nat /\ tx.cm \in CM
         /\ tx.index \in Nat /\ tx.height \in Heights
BY DEF TypeOK, CMTx

(* The heights are numbers. *)
LEMMA HeightType ==
  ASSUME TypeOK, NEW c \in Chains
  PROVE  height[c] \in Heights /\ height[c] \in Nat \ {0}
BY DEF TypeOK, ChainTypeOK, Heights

(* The block in hand is a block. *)
LEMMA NextIsHeight ==
  ASSUME TypeOK, NEW g \in Gateways, Sealed(g[1], next[g])
  PROVE  next[g] \in Heights
BY HeightType, GatewayEnds, HeightAssumption DEF Sealed, Heights

(* On every chain the order of the log is that of the messages of each source. *)
LEMMA SourceIndexGrows ==
  ASSUME IInv, NEW c \in Chains, NEW i \in DOMAIN CMLog(c), NEW j \in DOMAIN CMLog(c),
         i < j, CMLog(c)[i].cm.sourceChain = CMLog(c)[j].cm.sourceChain
  PROVE  SourceIndex(c, i) < SourceIndex(c, j)
<1>1. CASE c = Relay
  <2>1. Records[c] = CMLog(c)
    BY <1>1 DEF Records, CMLog
  <2>2. Records[c][i].index < Records[c][j].index
    BY <2>1 DEF IInv, MessagesAreInOrder
  <2> QED
    BY <1>1, <2>1, <2>2 DEF SourceIndex, CMLog
<1>2. CASE c # Relay
  <2>1. i \in Nat /\ j \in Nat
    BY LogType DEF IInv
  <2> QED
    BY <1>2, <2>1 DEF SourceIndex
<1> QED
  BY <1>1, <1>2

----------------------------------------------------------------------------
(* Single steps. *)

(* What executing a transaction does to the chains. *)
LEMMA MineType ==
  ASSUME ChainTypeOK, NEW c \in Chains, Mine(c)
  PROVE  /\ ChainTypeOK'
         /\ OpenBlock(c) \in Heights
         /\ height' = height
BY HeightAssumption DEF ChainTypeOK, Mine, OpenBlock, Heights

(* So does sealing a block. *)
LEMMA SealType ==
  ASSUME ChainTypeOK, NEW c \in Chains, Seal(c)
  PROVE  ChainTypeOK'
BY HeightAssumption, IdleAssumption DEF ChainTypeOK, Seal, Heights

\* The transaction with message i of g's source.
MessageTx(g, i) ==
  [nonce |-> txNonce[g], cm |-> CMLog(g[1])[i].cm, index |-> SourceIndex(g[1], i),
   height |-> next[g], proven |-> ProofAt(g[1], i, next[g])]

\* g has looked at message i, the first one left of its block, and perhaps sent it.
LooksAt(g, i) ==
  /\ pc[g] = "txs" /\ i \in todo[g] /\ \A j \in todo[g] : i <= j
  /\ todo' = [todo EXCEPT ![g] = @ \ {i}]
  /\ UNCHANGED <<chainVars, contractVars, sent, first, next, pc, txCount,
                 pendingHeader>>

PassesOver(g, i) == LooksAt(g, i) /\ UNCHANGED <<pendingCM, txNonce>>

Sends(g, i) ==
  /\ LooksAt(g, i)
  /\ g[2] # Relay => CMLog(g[1])[i].cm.targetChain = g[2]
  /\ pendingCM' = [pendingCM EXCEPT ![g] = @ \cup {MessageTx(g, i)}]
  /\ txNonce'   = [txNonce EXCEPT ![g] = @ + 1]

(* A gateway sends the message it looks at or passes it over. *)
LEMMA DealsIs ==
  ASSUME NEW g \in Gateways, Deals(g)
  PROVE  \E i \in todo[g] : PassesOver(g, i) \/ Sends(g, i)
<1>1. PICK T \in SUBSET Para : (g[2] # Relay => T = {g[2]}) /\ DealCM(g, T)
  BY DEF Deals
<1>2. PICK i \in todo[g] :
        /\ \A j \in todo[g] : i <= j
        /\ todo' = [todo EXCEPT ![g] = @ \ {i}]
        /\ IF CMLog(g[1])[i].cm.targetChain \in T
           THEN /\ pendingCM' = [pendingCM EXCEPT ![g] = @ \cup {MessageTx(g, i)}]
                /\ txNonce' = [txNonce EXCEPT ![g] = @ + 1]
           ELSE UNCHANGED <<pendingCM, txNonce>>
  BY <1>1 DEF DealCM, MessageTx
<1>3. LooksAt(g, i)
  BY <1>1, <1>2 DEF LooksAt, DealCM
<1>4. CASE CMLog(g[1])[i].cm.targetChain \in T
  BY <1>1, <1>2, <1>3, <1>4 DEF Sends
<1>5. CASE CMLog(g[1])[i].cm.targetChain \notin T
  BY <1>2, <1>3, <1>5 DEF PassesOver
<1> QED
  BY <1>4, <1>5

(* The message in hand is one of the block in hand, and proved by its state. *)
LEMMA InHand ==
  ASSUME IInv, NEW g \in Gateways, pc[g] = "txs", NEW i \in todo[g]
  PROVE  /\ i \in DOMAIN CMLog(g[1]) /\ CMLog(g[1])[i].block = next[g]
         /\ next[g] \in Heights /\ HasHeader(g[2], g[1], next[g])
         /\ MessageTx(g, i) \in CMTx
         /\ MessageTx(g, i).cm \in MessageTx(g, i).proven
<1>1. TypeOK /\ g[1] \in Chains
  BY GatewayEnds DEF IInv
<1>2. /\ i \in IndicesIn(g[1], next[g]) /\ Sealed(g[1], next[g])
      /\ HasHeader(g[2], g[1], next[g])
  BY DEF IInv, BlocksInHandAreReady
<1>3. /\ i \in DOMAIN CMLog(g[1]) /\ CMLog(g[1])[i].block = next[g]
      /\ next[g] \in Heights
  BY <1>1, <1>2, NextIsHeight DEF IndicesIn
<1>4. CMLog(g[1])[i].block <= next[g]
  BY <1>3 DEF Heights
<1>5. ProofAt(g[1], i, next[g]) = {CMLog(g[1])[i].cm}
  BY <1>4 DEF ProofAt
<1>6. /\ CMLog(g[1])[i].cm \in CM /\ SourceIndex(g[1], i) \in Nat
      /\ txNonce[g] \in Nat
  BY <1>1, <1>3, LogType DEF TypeOK
<1> QED
  BY <1>2, <1>3, <1>5, <1>6 DEF MessageTx, CMTx

(* A received message is a receipt. *)
LEMMA ReceivedType ==
  ASSUME TypeOK, NEW g \in Gateways, NEW tx \in pendingCM[g], Mine(g[2])
  PROVE  Received(g[2], tx) \in Receipt
<1>1. OpenBlock(g[2]) \in Heights
  BY MineType, GatewayEnds DEF TypeOK
<1>2. (tx.cm \in tx.proven) \in BOOLEAN
  OBVIOUS
<1> QED
  BY <1>1, <1>2, PendingType DEF Received, Receipt

----------------------------------------------------------------------------
(* Type correctness. *)

\* Every step keeps the types.
LEMMA TypeStep ==
  ASSUME IInv, DirectNext
  PROVE  TypeOK'
<1>0. TypeOK
  BY DEF IInv
<1>1. ASSUME NEW p \in Para, NEW t \in Para, NEW x \in Payload, UserSend(p, t, x)
      PROVE  TypeOK'
  <2> DEFINE cm == [sourceChain |-> p, targetChain |-> t, payload |-> x]
             e  == [cm |-> cm, block |-> OpenBlock(p)]
  <2>1. ChainTypeOK' /\ OpenBlock(p) \in Heights
    BY <1>0, <1>1, MineType, GatewayEnds DEF UserSend, CrossSend, TypeOK
  <2>2. e \in Entry
    BY <2>1 DEF Entry, CM
  <2>3. cms' = [cms EXCEPT ![p] = Append(@, e)]
    BY <1>1 DEF UserSend, CrossSend
  <2> HIDE DEF e
  <2>4. cms' \in [Para -> Seq(Entry)]
    <3>1. cms \in [Para -> Seq(Entry)] /\ Append(cms[p], e) \in Seq(Entry)
      BY <1>0, <2>2 DEF TypeOK, ContractTypeOK
    <3> QED
      BY <2>3, <3>1
  <2>5. ContractTypeOK'
    BY <1>0, <1>1, <2>4 DEF TypeOK, ContractTypeOK, UserSend, CrossSend
  <2>6. sent' \in 0 .. MaxMsgs
    BY <1>0, <1>1, MsgsAssumption DEF UserSend, TypeOK
  <2> QED
    BY <1>0, <1>1, <2>1, <2>5, <2>6
    DEF TypeOK, UserSend, gatewayVars, walkVars, accountVars
<1>2. ASSUME NEW c \in Chains, SealBlock(c) PROVE TypeOK'
  <2>1. ChainTypeOK'
    BY <1>0, <1>2, SealType DEF SealBlock, TypeOK
  <2> QED
    BY <1>0, <1>2, <2>1
    DEF TypeOK, ContractTypeOK, SealBlock, contractVars, gatewayVars, walkVars,
        accountVars
<1>3. ASSUME NEW g \in Gateways, Start(g) PROVE TypeOK'
  <2>1. height[g[1]] \in Heights /\ height[g[1]] \in Nat
    BY <1>0, HeightType, GatewayEnds
  <2>2. /\ next' \in [Gateways -> Nat]
        /\ first' \in [Gateways -> Heights \cup {0}]
    BY <1>0, <1>3, <2>1 DEF Start, TypeOK
  <2> QED
    BY <1>0, <1>3, <2>2
    DEF TypeOK, ChainTypeOK, ContractTypeOK, Start, chainVars, contractVars,
        accountVars
<1>4. ASSUME NEW g \in Gateways, SendHeader(g) PROVE TypeOK'
  <2>1. next[g] \in Heights
    BY <1>0, <1>4, NextIsHeight DEF SendHeader
  <2>2. /\ pendingHeader' \in [Gateways -> SUBSET Heights]
        /\ pc' \in [Gateways -> {"idle", "header", "txs"}]
    BY <1>0, <1>4, <2>1 DEF SendHeader, TypeOK
  <2> QED
    BY <1>0, <1>4, <2>2
    DEF TypeOK, ChainTypeOK, ContractTypeOK, SendHeader, chainVars, contractVars
<1>5. ASSUME NEW g \in Gateways, HeaderReceipt(g) PROVE TypeOK'
  <2>1. IndicesIn(g[1], next[g]) \in SUBSET Nat
    BY <1>0, LogType, GatewayEnds DEF IndicesIn
  <2>2. /\ todo' \in [Gateways -> SUBSET Nat]
        /\ pc' \in [Gateways -> {"idle", "header", "txs"}]
    BY <1>0, <1>5, <2>1 DEF HeaderReceipt, TypeOK
  <2> QED
    BY <1>0, <1>5, <2>2
    DEF TypeOK, ChainTypeOK, ContractTypeOK, HeaderReceipt, chainVars,
        contractVars, accountVars
<1>6. ASSUME NEW g \in Gateways, FinishBlock(g) PROVE TypeOK'
  <2>1. /\ next' \in [Gateways -> Nat]
        /\ pc' \in [Gateways -> {"idle", "header", "txs"}]
    BY <1>0, <1>6 DEF FinishBlock, TypeOK
  <2> QED
    BY <1>0, <1>6, <2>1
    DEF TypeOK, ChainTypeOK, ContractTypeOK, FinishBlock, chainVars,
        contractVars, accountVars
<1>7. ASSUME NEW g \in Gateways, ExecuteHeader(g) PROVE TypeOK'
  <2>1. PICK h \in pendingHeader[g] :
          /\ SubmitHeader(g[2], g[1], h)
          /\ pendingHeader' = [pendingHeader EXCEPT ![g] = @ \ {h}]
    BY <1>7 DEF ExecuteHeader
  <2>2. h \in Heights /\ pendingHeader' \in [Gateways -> SUBSET Heights]
    BY <1>0, <2>1 DEF TypeOK
  <2>3. ChainTypeOK' /\ OpenBlock(g[2]) \in Heights
    BY <1>0, <2>1, MineType, GatewayEnds DEF SubmitHeader, TypeOK
  <2>4. chainToHeaders' \in [Chains -> [Chains -> [Heights -> Heights \cup {0}]]]
    BY <1>0, <2>1, <2>2, <2>3, GatewayEnds DEF SubmitHeader, TypeOK, ContractTypeOK
  <2>5. ContractTypeOK'
    BY <1>0, <2>1, <2>4 DEF SubmitHeader, TypeOK, ContractTypeOK
  <2> QED
    BY <1>0, <1>7, <2>2, <2>3, <2>5 DEF TypeOK, ExecuteHeader, walkVars
<1>8. ASSUME NEW g \in Gateways, Deals(g) PROVE TypeOK'
  <2>1. PICK i \in todo[g] : PassesOver(g, i) \/ Sends(g, i)
    BY <1>8, DealsIs
  <2>2. LooksAt(g, i) /\ MessageTx(g, i) \in CMTx
    BY <2>1, InHand DEF PassesOver, Sends, LooksAt
  <2>3. todo' \in [Gateways -> SUBSET Nat]
    BY <1>0, <2>2 DEF LooksAt, TypeOK
  <2>4. /\ pendingCM' \in [Gateways -> SUBSET CMTx]
        /\ txNonce' \in [Gateways -> Nat]
    <3> HIDE DEF MessageTx
    <3>1. pendingCM \in [Gateways -> SUBSET CMTx] /\ txNonce \in [Gateways -> Nat]
      BY <1>0 DEF TypeOK
    <3> QED
      BY <2>1, <2>2, <3>1 DEF PassesOver, Sends
  <2> QED
    BY <1>0, <2>2, <2>3, <2>4
    DEF TypeOK, ChainTypeOK, ContractTypeOK, LooksAt, chainVars, contractVars
<1>9. ASSUME NEW g \in Gateways, NEW tx \in pendingCM[g], Executes(g, tx)
      PROVE  TypeOK'
  <2> DEFINE e == Received(g[2], tx)
  <2>1. Mine(g[2])
    BY <1>9 DEF Executes, Keeps
  <2>2. ChainTypeOK' /\ e \in Receipt
    BY <1>0, <2>1, MineType, ReceivedType, GatewayEnds DEF TypeOK
  <2>3. IF g[2] = Relay
        THEN cmHashesOnRelay' = Append(cmHashesOnRelay, e)
             /\ cmsRecordByCount' = cmsRecordByCount
        ELSE cmsRecordByCount' = [cmsRecordByCount EXCEPT ![g[2]] = Append(@, e)]
             /\ cmHashesOnRelay' = cmHashesOnRelay
    BY <1>9 DEF Executes, Keeps
  <2> HIDE DEF e
  <2>4. /\ cmHashesOnRelay \in Seq(Receipt)
        /\ cmsRecordByCount \in [Para -> Seq(Receipt)]
    BY <1>0 DEF TypeOK, ContractTypeOK
  <2>5. CASE g[2] = Relay
    <3>1. cmHashesOnRelay' \in Seq(Receipt)
      BY <2>2, <2>3, <2>4, <2>5
    <3> QED
      BY <1>0, <1>9, <2>2, <2>3, <2>5, <3>1
      DEF TypeOK, ContractTypeOK, Executes, Keeps, TakeCM, walkVars
  <2>6. CASE g[2] # Relay
    <3>1. g[2] \in Para
      BY <2>6, GatewayEnds
    <3>2. Append(cmsRecordByCount[g[2]], e) \in Seq(Receipt)
      BY <2>2, <2>4, <3>1
    <3>3. cmsRecordByCount' \in [Para -> Seq(Receipt)]
      BY <2>3, <2>4, <2>6, <3>2
    <3> QED
      BY <1>0, <1>9, <2>2, <2>3, <2>6, <3>3
      DEF TypeOK, ContractTypeOK, Executes, Keeps, TakeCM, walkVars
  <2> QED
    BY <2>5, <2>6
<1> QED
  BY <1>1, <1>2, <1>3, <1>4, <1>5, <1>6, <1>7, <1>8, <1>9 DEF DirectNext, Walk

----------------------------------------------------------------------------
(* Who acts in a step, and what the others keep. *)

(* A step that changes a contract or a height is one of four. *)
LEMMA ContractSteps ==
  ASSUME DirectNext
  PROVE  \/ UNCHANGED <<height, contractVars>>
         \/ \E p, t \in Para, x \in Payload : UserSend(p, t, x)
         \/ \E c \in Chains : SealBlock(c)
         \/ \E g \in Gateways : ExecuteHeader(g)
         \/ \E g \in Gateways : \E tx \in pendingCM[g] : Executes(g, tx)
<1>1. ASSUME NEW g \in Gateways, Start(g) \/ Walk(g)
      PROVE  UNCHANGED <<height, contractVars>>
  BY <1>1 DEF Start, Walk, SendHeader, HeaderReceipt, FinishBlock, chainVars
<1>2. ASSUME NEW g \in Gateways, Deals(g)
      PROVE  UNCHANGED <<height, contractVars>>
  BY <1>2, DealsIs DEF PassesOver, Sends, LooksAt, chainVars
<1> QED
  BY <1>1, <1>2 DEF DirectNext

\* Gateway g stays where it is in its walk.
Waits(g) == next'[g] = next[g] /\ pc'[g] = pc[g] /\ todo'[g] = todo[g]

(* A gateway walks on or is left where it is. *)
LEMMA WalkSteps ==
  ASSUME TypeOK, DirectNext, NEW g \in Gateways
  PROVE  \/ Waits(g)
         \/ Start(g) \/ SendHeader(g) \/ HeaderReceipt(g) \/ FinishBlock(g)
         \/ \E i \in todo[g] : LooksAt(g, i)
<1>1. ASSUME NEW p \in Para, NEW t \in Para, NEW x \in Payload, UserSend(p, t, x)
      PROVE  Waits(g)
  BY <1>1 DEF UserSend, Waits, gatewayVars, walkVars
<1>2. ASSUME NEW c \in Chains, SealBlock(c) PROVE Waits(g)
  BY <1>2 DEF SealBlock, Waits, gatewayVars, walkVars
<1>3. ASSUME NEW k \in Gateways, k # g, Start(k) \/ Walk(k) PROVE Waits(g)
  BY <1>3 DEF Start, Walk, SendHeader, HeaderReceipt, FinishBlock, Waits, TypeOK
<1>4. ASSUME NEW k \in Gateways, k # g, Deals(k) PROVE Waits(g)
  BY <1>4, DealsIs DEF PassesOver, Sends, LooksAt, Waits, TypeOK
<1>5. ASSUME NEW k \in Gateways, ExecuteHeader(k) PROVE Waits(g)
  BY <1>5 DEF ExecuteHeader, Waits, walkVars
<1>6. ASSUME NEW k \in Gateways, NEW tx, Executes(k, tx) PROVE Waits(g)
  BY <1>6 DEF Executes, TakeCM, Waits, walkVars
<1>7. ASSUME Deals(g) PROVE \E i \in todo[g] : LooksAt(g, i)
  BY <1>7, DealsIs DEF PassesOver, Sends
<1> QED
  BY <1>1, <1>2, <1>3, <1>4, <1>5, <1>6, <1>7 DEF DirectNext, Walk

(* The block that is being produced is the same, or the next one. *)
LEMMA HeightSteps ==
  ASSUME TypeOK, DirectNext, NEW c \in Chains
  PROVE  /\ height[c] \in Nat /\ height'[c] \in Nat /\ height[c] <= height'[c]
         /\ contractVars' = contractVars \/ height' = height
<1>1. height \in [Chains -> Nat]
  BY DEF TypeOK, ChainTypeOK, Heights
<1>2. ASSUME NEW e \in Chains, SealBlock(e)
      PROVE  /\ height' = [height EXCEPT ![e] = @ + 1]
             /\ contractVars' = contractVars
  BY <1>2 DEF SealBlock, Seal
<1>3. ASSUME NEW p \in Para, NEW t \in Para, NEW x \in Payload, UserSend(p, t, x)
      PROVE  height' = height
  BY <1>3 DEF UserSend, CrossSend, Mine
<1>4. ASSUME NEW g \in Gateways, ExecuteHeader(g) PROVE height' = height
  BY <1>4 DEF ExecuteHeader, SubmitHeader, Mine
<1>5. ASSUME NEW g \in Gateways, NEW tx, Executes(g, tx) PROVE height' = height
  BY <1>5 DEF Executes, Keeps, Mine
<1> QED
  BY <1>1, <1>2, <1>3, <1>4, <1>5, ContractSteps

----------------------------------------------------------------------------
(* What a step leaves true. *)

(* A log only grows, and what is new is in the block that is being produced. *)
LEMMA LogsGrow ==
  ASSUME TypeOK, DirectNext, NEW c \in Chains
  PROVE  /\ \A j \in DOMAIN CMLog(c) :
              /\ j \in DOMAIN CMLog(c)' /\ CMLog(c)'[j] = CMLog(c)[j]
              /\ SourceIndex(c, j)' = SourceIndex(c, j)
         /\ \A j \in DOMAIN CMLog(c)' : j \notin DOMAIN CMLog(c) =>
              /\ j = Len(CMLog(c)) + 1 /\ height' = height
              /\ CMLog(c)'[j].block = OpenBlock(c)
              /\ c # Relay => CMLog(c)'[j].cm.sourceChain = c
<1> DEFINE Grows(new) ==
             /\ CMLog(c)' = Append(CMLog(c), new) /\ height' = height
             /\ new.block = OpenBlock(c)
             /\ c # Relay => new.cm.sourceChain = c
<1>0. CMLog(c) \in Seq(Entry) \/ CMLog(c) \in Seq(Receipt)
  BY GatewayEnds DEF CMLog, TypeOK, ContractTypeOK
<1>1. CASE CMLog(c)' = CMLog(c)
  <2>1. ASSUME NEW j \in DOMAIN CMLog(c) PROVE SourceIndex(c, j)' = SourceIndex(c, j)
    BY <1>1 DEF SourceIndex, CMLog
  <2> QED
    BY <1>1, <2>1
<1>2. ASSUME NEW new, Grows(new)
      PROVE  /\ \A j \in DOMAIN CMLog(c) :
                  /\ j \in DOMAIN CMLog(c)' /\ CMLog(c)'[j] = CMLog(c)[j]
                  /\ SourceIndex(c, j)' = SourceIndex(c, j)
             /\ \A j \in DOMAIN CMLog(c)' : j \notin DOMAIN CMLog(c) =>
                  /\ j = Len(CMLog(c)) + 1 /\ height' = height
                  /\ CMLog(c)'[j].block = OpenBlock(c)
                  /\ c # Relay => CMLog(c)'[j].cm.sourceChain = c
  <2>1. /\ DOMAIN Append(CMLog(c), new) = DOMAIN CMLog(c) \cup {Len(CMLog(c)) + 1}
        /\ Append(CMLog(c), new)[Len(CMLog(c)) + 1] = new
        /\ \A j \in DOMAIN CMLog(c) : Append(CMLog(c), new)[j] = CMLog(c)[j]
    BY <1>0
  <2>2. ASSUME NEW j \in DOMAIN CMLog(c) PROVE SourceIndex(c, j)' = SourceIndex(c, j)
    BY <1>2, <2>1 DEF SourceIndex, CMLog
  <2> QED
    BY <1>2, <2>1, <2>2
<1>3. ASSUME NEW p \in Para, NEW t \in Para, NEW x \in Payload, UserSend(p, t, x)
      PROVE  CMLog(c)' = CMLog(c) \/ \E new : Grows(new)
  <2> DEFINE new == [cm |-> [sourceChain |-> p, targetChain |-> t, payload |-> x],
                     block |-> OpenBlock(p)]
  <2>1. /\ cms' = [cms EXCEPT ![p] = Append(@, new)]
        /\ cmHashesOnRelay' = cmHashesOnRelay /\ height' = height
    BY <1>3 DEF UserSend, CrossSend, Mine
  <2>2. cms \in [Para -> Seq(Entry)]
    BY DEF TypeOK, ContractTypeOK
  <2>3. CASE c = p
    <3>1. Grows(new)
      BY <2>1, <2>2, <2>3, GatewayEnds DEF CMLog
    <3> QED
      BY <3>1
  <2>4. CASE c # p
    BY <2>1, <2>2, <2>4, GatewayEnds DEF CMLog
  <2> QED
    BY <2>3, <2>4
<1>4. ASSUME NEW e, SealBlock(e) PROVE CMLog(c)' = CMLog(c)
  BY <1>4 DEF SealBlock, contractVars, CMLog
<1>5. ASSUME NEW g, ExecuteHeader(g) PROVE CMLog(c)' = CMLog(c)
  BY <1>5 DEF ExecuteHeader, SubmitHeader, CMLog
<1>6. ASSUME NEW g \in Gateways, NEW tx, Executes(g, tx)
      PROVE  CMLog(c)' = CMLog(c) \/ \E new : Grows(new)
  <2>1. CASE c = Relay /\ g[2] = Relay
    <3>1. Grows(Received(Relay, tx))
      BY <1>6, <2>1 DEF Executes, Keeps, CMLog, Received, Mine
    <3> QED
      BY <3>1
  <2>2. CASE c # Relay \/ g[2] # Relay
    BY <1>6, <2>2 DEF Executes, Keeps, CMLog
  <2> QED
    BY <2>1, <2>2
<1>7. UNCHANGED <<height, contractVars>> => CMLog(c)' = CMLog(c)
  BY DEF contractVars, CMLog
<1> HIDE DEF Grows
<1>8. CMLog(c)' = CMLog(c) \/ \E new : Grows(new)
  BY <1>3, <1>4, <1>5, <1>6, <1>7, ContractSteps
<1> QED
  BY <1>1, <1>2, <1>8

(* What is in a block that can be read stays what is in it. *)
LEMMA BlocksAreFinal ==
  ASSUME IInv, DirectNext, NEW c \in Chains, NEW h, Sealed(c, h)
  PROVE  Sealed(c, h)' /\ IndicesIn(c, h)' = IndicesIn(c, h)
<1>0. TypeOK
  BY DEF IInv
<1>1. height[c] \in Nat /\ height'[c] \in Nat /\ height[c] <= height'[c]
  BY <1>0, HeightSteps
<1>2. h \in Nat /\ h # OpenBlock(c) /\ Sealed(c, h)'
  BY <1>1 DEF Sealed, OpenBlock
<1>3. ASSUME NEW j \in IndicesIn(c, h) PROVE j \in IndicesIn(c, h)'
  BY <1>0, <1>3, LogsGrow DEF IndicesIn
<1>4. ASSUME NEW j \in IndicesIn(c, h)' PROVE j \in IndicesIn(c, h)
  <2>1. j \in DOMAIN CMLog(c)' /\ CMLog(c)'[j].block = h
    BY <1>4 DEF IndicesIn
  <2>2. j \in DOMAIN CMLog(c)
    BY <1>0, <1>2, <2>1, LogsGrow
  <2>3. CMLog(c)'[j] = CMLog(c)[j]
    BY <1>0, <2>2, LogsGrow
  <2> QED
    BY <2>1, <2>2, <2>3 DEF IndicesIn
<1> QED
  BY <1>2, <1>3, <1>4

(* A header that is stored stays as it is; one that is not is stored by its   *)
(* gateway.                                                                   *)
LEMMA HeadersStay ==
  ASSUME IInv, DirectNext, NEW c \in Chains, NEW e \in Chains, NEW h \in Heights
  PROVE  \/ chainToHeaders'[c][e][h] = chainToHeaders[c][e][h]
         \/ /\ chainToHeaders[c][e][h] = 0
            /\ <<e, c>> \in Gateways /\ h \in pendingHeader[<<e, c>>]
            /\ chainToHeaders'[c][e][h] = OpenBlock(c) /\ height' = height
            /\ pendingHeader' = [pendingHeader EXCEPT ![<<e, c>>] = @ \ {h}]
            /\ next' = next /\ pc' = pc
<1>0. TypeOK /\ chainToHeaders \in [Chains -> [Chains -> [Heights -> Heights \cup {0}]]]
  BY DEF IInv, TypeOK, ContractTypeOK
<1>1. ASSUME NEW p \in Para, NEW t \in Para, NEW x \in Payload, UserSend(p, t, x)
      PROVE  chainToHeaders' = chainToHeaders
  BY <1>1 DEF UserSend, CrossSend
<1>2. ASSUME NEW d \in Chains, SealBlock(d) PROVE chainToHeaders' = chainToHeaders
  BY <1>2 DEF SealBlock, contractVars
<1>3. ASSUME NEW g \in Gateways, NEW tx, Executes(g, tx)
      PROVE  chainToHeaders' = chainToHeaders
  BY <1>3 DEF Executes, Keeps
<1>4. UNCHANGED <<height, contractVars>> => chainToHeaders' = chainToHeaders
  BY DEF contractVars
<1>5. ASSUME NEW g \in Gateways, ExecuteHeader(g),
             chainToHeaders'[c][e][h] # chainToHeaders[c][e][h]
      PROVE  /\ chainToHeaders[c][e][h] = 0
             /\ <<e, c>> \in Gateways /\ h \in pendingHeader[<<e, c>>]
             /\ chainToHeaders'[c][e][h] = OpenBlock(c) /\ height' = height
             /\ pendingHeader' = [pendingHeader EXCEPT ![<<e, c>>] = @ \ {h}]
             /\ next' = next /\ pc' = pc
  <2>1. PICK k \in pendingHeader[g] :
          /\ SubmitHeader(g[2], g[1], k)
          /\ pendingHeader' = [pendingHeader EXCEPT ![g] = @ \ {k}]
    BY <1>5 DEF ExecuteHeader
  <2>2. /\ chainToHeaders' = [chainToHeaders EXCEPT ![g[2]][g[1]][k] = OpenBlock(g[2])]
        /\ height' = height
    BY <2>1 DEF SubmitHeader, Mine
  <2>3. k \in Heights
    BY <1>0, <2>1 DEF TypeOK
  <2>4. c = g[2] /\ e = g[1] /\ h = k
    BY <1>0, <1>5, <2>2, <2>3, GatewayEnds
  <2>5. g = <<e, c>> /\ chainToHeaders'[c][e][h] = OpenBlock(c)
    BY <1>0, <2>2, <2>3, <2>4, GatewayEnds
  <2>6. chainToHeaders[c][e][h] = 0
    BY <2>1, <2>4 DEF IInv, HeadersAreStoredOnce
  <2>7. next' = next /\ pc' = pc
    BY <1>5 DEF ExecuteHeader, walkVars
  <2> QED
    BY <2>1, <2>2, <2>4, <2>5, <2>6, <2>7
<1> QED
  BY <1>1, <1>2, <1>3, <1>4, <1>5, ContractSteps

(* So what GetBlockHeader has returned it will always return. *)
LEMMA HeadersArePermanent ==
  ASSUME IInv, DirectNext, NEW c \in Chains, NEW e \in Chains, NEW h \in Heights,
         HasHeader(c, e, h)
  PROVE  HasHeader(c, e, h)'
<1>0. TypeOK
  BY DEF IInv
<1>1. height[c] \in Nat /\ height'[c] \in Nat /\ height[c] <= height'[c]
  BY <1>0, HeightSteps
<1>2. chainToHeaders[c][e][h] # 0
  BY <1>1 DEF HasHeader, Sealed
<1>3. chainToHeaders'[c][e][h] = chainToHeaders[c][e][h]
  BY <1>2, HeadersStay
<1> QED
  BY <1>1, <1>3 DEF HasHeader, Sealed

(* A gateway never goes back to a message. *)
LEMMA PassedStays ==
  ASSUME IInv, DirectNext, NEW g \in Gateways, NEW j \in DOMAIN CMLog(g[1]),
         PassedOver(g, j)
  PROVE  PassedOver(g, j)'
<1>0. /\ TypeOK /\ g[1] \in Chains
      /\ next \in [Gateways -> Nat] /\ pc \in [Gateways -> {"idle", "header", "txs"}]
      /\ todo \in [Gateways -> SUBSET Nat]
  BY GatewayEnds DEF IInv, TypeOK
<1>1. /\ CMLog(g[1])'[j] = CMLog(g[1])[j]
      /\ CMLog(g[1])[j].block \in Nat \ {0}
  BY <1>0, LogsGrow, LogType DEF Heights
<1>2. CASE Waits(g)
  BY <1>1, <1>2 DEF Waits, PassedOver
<1>3. CASE Start(g)
  BY <1>0, <1>1, <1>3 DEF Start, PassedOver
<1>4. CASE SendHeader(g)
  BY <1>0, <1>1, <1>4 DEF SendHeader, PassedOver
<1>5. CASE HeaderReceipt(g)
  BY <1>0, <1>1, <1>5 DEF HeaderReceipt, PassedOver
<1>6. CASE FinishBlock(g)
  BY <1>0, <1>1, <1>6 DEF FinishBlock, PassedOver
<1>7. ASSUME NEW i \in todo[g], LooksAt(g, i) PROVE PassedOver(g, j)'
  BY <1>0, <1>1, <1>7 DEF LooksAt, PassedOver
<1> QED
  BY <1>0, <1>2, <1>3, <1>4, <1>5, <1>6, <1>7, WalkSteps

(* What is a message of g's source stays that message. *)
LEMMA MessageStays ==
  ASSUME IInv, DirectNext, NEW g \in Gateways, NEW m, NEW j, IsMessage(g, m, j)
  PROVE  /\ j \in DOMAIN CMLog(g[1])'
         /\ CMLog(g[1])'[j] = CMLog(g[1])[j]
         /\ CMLog(g[1])'[j].cm = m.cm
         /\ SourceIndex(g[1], j)' = m.index
BY LogsGrow, GatewayEnds DEF IInv, IsMessage

----------------------------------------------------------------------------
(* Accounts and records. *)

\* Nothing happens to the message account of g.
AccountQuiet(g) ==
  pendingCM'[g] = pendingCM[g] /\ txNonce'[g] = txNonce[g] /\ txCount'[g] = txCount[g]

(* The message account of a gateway sends, executes, or is left alone. *)
LEMMA AccountSteps ==
  ASSUME TypeOK, DirectNext, NEW g \in Gateways
  PROVE  \/ AccountQuiet(g)
         \/ \E i \in todo[g] : Sends(g, i)
         \/ \E tx \in pendingCM[g] : Executes(g, tx)
<1>1. ASSUME NEW p \in Para, NEW t \in Para, NEW x \in Payload, UserSend(p, t, x)
      PROVE  AccountQuiet(g)
  BY <1>1 DEF UserSend, AccountQuiet, gatewayVars, accountVars
<1>2. ASSUME NEW c \in Chains, SealBlock(c) PROVE AccountQuiet(g)
  BY <1>2 DEF SealBlock, AccountQuiet, gatewayVars, accountVars
<1>3. ASSUME NEW k \in Gateways, Start(k) \/ Walk(k) \/ ExecuteHeader(k)
      PROVE  AccountQuiet(g)
  BY <1>3 DEF Start, Walk, SendHeader, HeaderReceipt, FinishBlock, ExecuteHeader,
              AccountQuiet, accountVars
<1>4. ASSUME NEW k \in Gateways, NEW i \in todo[k], PassesOver(k, i)
      PROVE  AccountQuiet(g)
  BY <1>4 DEF PassesOver, LooksAt, AccountQuiet
<1>5. ASSUME NEW k \in Gateways, k # g, NEW i \in todo[k], Sends(k, i)
      PROVE  AccountQuiet(g)
  BY <1>5 DEF Sends, LooksAt, AccountQuiet, TypeOK
<1>6. ASSUME NEW k \in Gateways, k # g, NEW tx \in pendingCM[k], Executes(k, tx)
      PROVE  AccountQuiet(g)
  BY <1>6 DEF Executes, TakeCM, AccountQuiet, TypeOK
<1>7. ASSUME NEW k \in Gateways, Deals(k)
      PROVE  AccountQuiet(g) \/ \E i \in todo[g] : Sends(g, i)
  BY <1>4, <1>5, <1>7, DealsIs
<1> QED
  BY <1>1, <1>2, <1>3, <1>6, <1>7 DEF DirectNext

(* What a sent message changes. *)
LEMMA SendsChanges ==
  ASSUME TypeOK, NEW g \in Gateways, NEW i \in todo[g], Sends(g, i)
  PROVE  /\ pendingCM'[g] = pendingCM[g] \cup {MessageTx(g, i)}
         /\ txNonce'[g] = txNonce[g] + 1 /\ txCount'[g] = txCount[g]
         /\ txNonce[g] \in Nat /\ txCount[g] \in Nat
         /\ MessageTx(g, i).nonce = txNonce[g]
         /\ todo'[g] = todo[g] \ {i}
         /\ pc' = pc /\ next' = next /\ contractVars' = contractVars
         /\ height' = height
<1>1. MessageTx(g, i).nonce = txNonce[g]
  BY DEF MessageTx
<1> HIDE DEF MessageTx
<1> QED
  BY <1>1 DEF Sends, LooksAt, TypeOK, chainVars

(* What an executed message changes. *)
LEMMA ExecutesChanges ==
  ASSUME TypeOK, NEW g \in Gateways, NEW tx \in pendingCM[g], Executes(g, tx)
  PROVE  /\ pendingCM'[g] = pendingCM[g] \ {tx}
         /\ txNonce'[g] = txNonce[g] /\ txCount'[g] = txCount[g] + 1
         /\ txNonce[g] \in Nat /\ txCount[g] \in Nat
         /\ tx.nonce = txCount[g]
         /\ Records'[g[2]] = Append(Records[g[2]], Received(g[2], tx))
         /\ \A c \in Chains : c # g[2] => Records'[c] = Records[c]
<1> DEFINE e == Received(g[2], tx)
<1>1. /\ g[2] \in Chains /\ Relay \in Chains
      /\ \A c \in Chains : c # Relay => c \in Para
  BY GatewayEnds
<1>2. IF g[2] = Relay
      THEN cmHashesOnRelay' = Append(cmHashesOnRelay, e)
           /\ cmsRecordByCount' = cmsRecordByCount
      ELSE cmsRecordByCount' = [cmsRecordByCount EXCEPT ![g[2]] = Append(@, e)]
           /\ cmHashesOnRelay' = cmHashesOnRelay
  BY DEF Executes, Keeps
<1> HIDE DEF e
<1>3. cmsRecordByCount \in [Para -> Seq(Receipt)]
  BY DEF TypeOK, ContractTypeOK
<1>4. /\ Records'[g[2]] = Append(Records[g[2]], e)
      /\ \A c \in Chains : c # g[2] => Records'[c] = Records[c]
  BY <1>1, <1>2, <1>3 DEF Records
<1> QED
  BY <1>4 DEF Executes, TakeCM, TypeOK, e

(* Chains keep what they have received, and receive from their gateways. *)
LEMMA RecordSteps ==
  ASSUME TypeOK, DirectNext, NEW c \in Chains
  PROVE  \/ Records'[c] = Records[c]
         \/ \E g \in Gateways : \E tx \in pendingCM[g] :
              /\ g[2] = c /\ Executes(g, tx)
              /\ Records'[c] = Append(Records[c], Received(c, tx))
<1>1. ASSUME NEW p \in Para, NEW t \in Para, NEW x \in Payload, UserSend(p, t, x)
      PROVE  Records' = Records
  BY <1>1 DEF UserSend, CrossSend, Records
<1>2. ASSUME NEW d, SealBlock(d) PROVE Records' = Records
  BY <1>2 DEF SealBlock, contractVars, Records
<1>3. ASSUME NEW g, ExecuteHeader(g) PROVE Records' = Records
  BY <1>3 DEF ExecuteHeader, SubmitHeader, Records
<1>4. UNCHANGED <<height, contractVars>> => Records' = Records
  BY DEF contractVars, Records
<1>5. ASSUME NEW g \in Gateways, NEW tx \in pendingCM[g], Executes(g, tx)
      PROVE  \/ Records'[c] = Records[c]
             \/ g[2] = c /\ Records'[c] = Append(Records[c], Received(c, tx))
  BY <1>5, ExecutesChanges
<1> HIDE DEF Records
<1> QED
  BY <1>1, <1>2, <1>3, <1>4, <1>5, ContractSteps

(* A gateway's record comes from its source's log; the gateway that brings the *)
(* messages of a source to a chain is the only one.                            *)
LEMMA SameCarrier ==
  ASSUME NEW g \in Gateways, NEW k \in Gateways, NEW p \in Para, g[2] = k[2],
         Carries(g, p), Carries(k, p)
  PROVE  g = k
BY OneCarrier, GatewayEnds DEF Carries

(* A pending message is carried from its source. *)
LEMMA PendingIsCarried ==
  ASSUME IInv, NEW g \in Gateways, NEW tx \in pendingCM[g]
  PROVE  Carries(g, tx.cm.sourceChain) /\ tx.cm.sourceChain \in Para
<1>1. PICK j \in DOMAIN CMLog(g[1]) : IsMessage(g, tx, j)
  BY DEF IInv, PendingAreGenuine
<1>2. g[1] # Relay => tx.cm.sourceChain = g[1]
  BY <1>1, GatewayEnds DEF IInv, LogsAreOrdered, IsMessage
<1> QED
  BY <1>2, PendingType DEF IInv, CM, Carries

----------------------------------------------------------------------------
(* The parts of the invariant, one after the other. *)

\* Messages are added at the end of a list, in an open block.
LEMMA LogsStep ==
  ASSUME IInv, DirectNext
  PROVE  LogsAreOrdered'
<1>0. TypeOK
  BY DEF IInv
<1> SUFFICES ASSUME NEW c \in Chains, NEW i \in DOMAIN CMLog(c)'
             PROVE  /\ CMLog(c)'[i].block <= OpenBlock(c)'
                    /\ c # Relay => CMLog(c)'[i].cm.sourceChain = c
                    /\ \A j \in DOMAIN CMLog(c)' :
                         i < j => CMLog(c)'[i].block <= CMLog(c)'[j].block
  BY DEF LogsAreOrdered
<1>1. height[c] \in Nat /\ height'[c] \in Nat /\ height[c] <= height'[c]
  BY <1>0, HeightSteps
<1>2. /\ DOMAIN CMLog(c) = 1 .. Len(CMLog(c)) /\ Len(CMLog(c)) \in Nat
      /\ \A j \in DOMAIN CMLog(c) :
           /\ CMLog(c)[j].block \in Nat /\ CMLog(c)[j].block <= OpenBlock(c)
           /\ CMLog(c)'[j] = CMLog(c)[j]
  BY <1>0, LogType, LogsGrow DEF Heights, IInv, LogsAreOrdered
<1>3. CASE i \in DOMAIN CMLog(c)
  <2>1. ASSUME NEW j \in DOMAIN CMLog(c)', i < j
        PROVE  CMLog(c)'[i].block <= CMLog(c)'[j].block
    <3>1. CASE j \in DOMAIN CMLog(c)
      BY <1>2, <1>3, <2>1, <3>1 DEF IInv, LogsAreOrdered
    <3>2. CASE j \notin DOMAIN CMLog(c)
      BY <1>0, <1>2, <1>3, <3>2, LogsGrow
    <3> QED
      BY <3>1, <3>2
  <2>2. c # Relay => CMLog(c)'[i].cm.sourceChain = c
    BY <1>2, <1>3 DEF IInv, LogsAreOrdered
  <2> QED
    BY <1>1, <1>2, <1>3, <2>1, <2>2 DEF OpenBlock
<1>4. CASE i \notin DOMAIN CMLog(c)
  <2>1. /\ i = Len(CMLog(c)) + 1 /\ height' = height
        /\ CMLog(c)'[i].block = OpenBlock(c)
        /\ c # Relay => CMLog(c)'[i].cm.sourceChain = c
    BY <1>0, <1>4, LogsGrow
  <2>2. ASSUME NEW j \in DOMAIN CMLog(c)', i < j PROVE FALSE
    BY <1>0, <1>2, <2>1, <2>2, LogsGrow
  <2> QED
    BY <1>1, <2>1, <2>2 DEF OpenBlock
<1> QED
  BY <1>3, <1>4

\* A gateway takes a sealed block, and waits for its header where messages need it.
LEMMA BlocksInHandStep ==
  ASSUME IInv, DirectNext
  PROVE  BlocksInHandAreReady'
<1>0. /\ TypeOK /\ BlocksInHandAreReady
      /\ next \in [Gateways -> Nat] /\ pc \in [Gateways -> {"idle", "header", "txs"}]
      /\ todo \in [Gateways -> SUBSET Nat]
  BY DEF IInv, TypeOK
<1> DEFINE Ready(g, n, p, t) ==
             /\ n <= OpenBlock(g[1])
             /\ p # "idle" => Sealed(g[1], n)
             /\ p = "txs" =>
                  /\ HasHeader(g[2], g[1], n)
                  /\ t \subseteq IndicesIn(g[1], n)
                  /\ \A i \in t : \A j \in IndicesIn(g[1], n) : i < j => j \in t
<1>1. ASSUME NEW g \in Gateways, NEW n \in Nat, NEW p, NEW t, Ready(g, n, p, t)
      PROVE  Ready(g, n, p, t)'
  <2>1. /\ height[g[1]] \in Nat /\ height'[g[1]] \in Nat
        /\ height[g[1]] <= height'[g[1]] /\ g[1] \in Chains /\ g[2] \in Chains
    BY <1>0, HeightSteps, GatewayEnds
  <2>2. CASE p = "idle"
    BY <1>1, <2>1, <2>2 DEF OpenBlock
  <2>3. CASE p # "idle"
    <3>1. Sealed(g[1], n)
      BY <1>1, <2>3
    <3>2. Sealed(g[1], n)' /\ IndicesIn(g[1], n)' = IndicesIn(g[1], n)
      BY <2>1, <3>1, BlocksAreFinal
    <3>3. n \in Heights
      BY <1>0, <2>1, <3>1, HeightType, HeightAssumption DEF Sealed, Heights
    <3>4. p = "txs" => HasHeader(g[2], g[1], n)'
      BY <1>1, <2>1, <3>3, HeadersArePermanent
    <3>5. n <= OpenBlock(g[1])'
      BY <1>1, <2>1 DEF OpenBlock
    <3> QED
      BY <1>1, <3>2, <3>4, <3>5
  <2> QED
    BY <2>2, <2>3
<1> SUFFICES ASSUME NEW g \in Gateways
             PROVE  Ready(g, next[g], pc[g], todo[g])'
  BY DEF BlocksInHandAreReady
<1>2. Ready(g, next[g], pc[g], todo[g]) /\ next[g] \in Nat /\ height[g[1]] \in Nat
  BY <1>0, HeightType, GatewayEnds DEF BlocksInHandAreReady
<1>3. ASSUME NEW n \in Nat, NEW p, NEW t, Ready(g, n, p, t),
             next'[g] = n, pc'[g] = p, todo'[g] = t
      PROVE  Ready(g, next[g], pc[g], todo[g])'
  <2>1. Ready(g, n, p, t)'
    BY <1>1, <1>3
  <2> QED
    BY <1>3, <2>1 DEF OpenBlock, Sealed, HasHeader, IndicesIn
<1>4. CASE Waits(g)
  BY <1>2, <1>3, <1>4 DEF Waits
<1>5. CASE Start(g)
  <2>1. /\ next'[g] = height[g[1]] /\ pc'[g] = pc[g] /\ todo'[g] = todo[g]
        /\ pc[g] = "idle"
    BY <1>0, <1>2, <1>5 DEF Start, Sealed
  <2>2. Ready(g, height[g[1]], pc[g], todo[g])
    BY <1>2, <2>1 DEF OpenBlock
  <2> QED
    BY <1>2, <1>3, <2>1, <2>2
<1>6. CASE SendHeader(g)
  <2>1. next'[g] = next[g] /\ pc'[g] = "header" /\ todo'[g] = todo[g]
    BY <1>0, <1>6 DEF SendHeader
  <2>2. Ready(g, next[g], "header", todo[g])
    BY <1>2, <1>6 DEF SendHeader
  <2> QED
    BY <1>2, <1>3, <2>1, <2>2
<1>7. CASE HeaderReceipt(g)
  <2>1. /\ next'[g] = next[g] /\ pc'[g] = "txs"
        /\ todo'[g] = IndicesIn(g[1], next[g])
    BY <1>0, <1>7 DEF HeaderReceipt
  <2>2. Ready(g, next[g], "txs", IndicesIn(g[1], next[g]))
    BY <1>2, <1>7 DEF HeaderReceipt
  <2> QED
    BY <1>2, <1>3, <2>1, <2>2
<1>8. CASE FinishBlock(g)
  <2>1. next'[g] = next[g] + 1 /\ pc'[g] = "idle" /\ todo'[g] = todo[g]
    BY <1>0, <1>8 DEF FinishBlock
  <2>2. Ready(g, next[g] + 1, "idle", todo[g])
    BY <1>2, <1>8 DEF FinishBlock, Sealed, OpenBlock
  <2> QED
    BY <1>2, <1>3, <2>1, <2>2
<1>9. ASSUME NEW i \in todo[g], LooksAt(g, i)
      PROVE  Ready(g, next[g], pc[g], todo[g])'
  <2>1. /\ next'[g] = next[g] /\ pc'[g] = pc[g] /\ todo'[g] = todo[g] \ {i}
        /\ pc[g] = "txs" /\ \A j \in todo[g] : i <= j /\ i \in Nat /\ j \in Nat
    BY <1>0, <1>9 DEF LooksAt
  <2>2. Ready(g, next[g], pc[g], todo[g] \ {i})
    BY <1>2, <2>1
  <2> QED
    BY <1>2, <1>3, <2>1, <2>2
<1> HIDE DEF Ready
<1> QED
  BY <1>0, <1>4, <1>5, <1>6, <1>7, <1>8, <1>9, WalkSteps

(* Only its gateway's send_header sends a header. *)
LEMMA PendingHeaderSteps ==
  ASSUME TypeOK, DirectNext, NEW g \in Gateways
  PROVE  \/ pendingHeader'[g] \subseteq pendingHeader[g]
         \/ SendHeader(g)
<1>1. ASSUME NEW p \in Para, NEW t \in Para, NEW x \in Payload, UserSend(p, t, x)
      PROVE  pendingHeader' = pendingHeader
  BY <1>1 DEF UserSend, gatewayVars, accountVars
<1>2. ASSUME NEW c \in Chains, SealBlock(c) PROVE pendingHeader' = pendingHeader
  BY <1>2 DEF SealBlock, gatewayVars, accountVars
<1>3. ASSUME NEW k \in Gateways, Start(k) \/ HeaderReceipt(k) \/ FinishBlock(k)
      PROVE  pendingHeader' = pendingHeader
  BY <1>3 DEF Start, HeaderReceipt, FinishBlock, accountVars
<1>4. ASSUME NEW k \in Gateways, Deals(k) PROVE pendingHeader' = pendingHeader
  BY <1>4, DealsIs DEF PassesOver, Sends, LooksAt
<1>5. ASSUME NEW k \in Gateways, NEW tx, Executes(k, tx)
      PROVE  pendingHeader' = pendingHeader
  BY <1>5 DEF Executes, TakeCM
<1>6. ASSUME NEW k \in Gateways, ExecuteHeader(k)
      PROVE  pendingHeader'[g] \subseteq pendingHeader[g]
  BY <1>6 DEF ExecuteHeader, TypeOK
<1>7. ASSUME NEW k \in Gateways, k # g, SendHeader(k)
      PROVE  pendingHeader'[g] = pendingHeader[g]
  BY <1>7 DEF SendHeader, TypeOK
<1> QED
  BY <1>1, <1>2, <1>3, <1>4, <1>5, <1>6, <1>7 DEF DirectNext, Walk

\* A header is sent once per block and is stored as it was sent.
LEMMA HeadersStep ==
  ASSUME IInv, DirectNext
  PROVE  HeadersAreStoredOnce'
<1>0. /\ TypeOK /\ HeadersAreStoredOnce /\ BlocksInHandAreReady
      /\ next \in [Gateways -> Nat] /\ pc \in [Gateways -> {"idle", "header", "txs"}]
      /\ pendingHeader \in [Gateways -> SUBSET Heights]
      /\ \A h \in Heights : h \in Nat \ {0}
  BY DEF IInv, TypeOK, Heights
<1>1. ASSUME NEW g \in Gateways, NEW h \in pendingHeader'[g]
      PROVE  /\ pc'[g] = "header" /\ h = next'[g]
             /\ chainToHeaders'[g[2]][g[1]][h] = 0
  <2>0. g[1] \in Chains /\ g[2] \in Chains /\ g = <<g[1], g[2]>>
    BY GatewayEnds
  <2>1. CASE pendingHeader'[g] \subseteq pendingHeader[g]
    <3>1. /\ h \in pendingHeader[g] /\ h \in Heights /\ pc[g] = "header"
          /\ h = next[g] /\ chainToHeaders[g[2]][g[1]][h] = 0
      BY <1>0, <1>1, <2>1 DEF HeadersAreStoredOnce
    <3>2. ~Start(g) /\ ~SendHeader(g) /\ ~FinishBlock(g) /\ \A i : ~LooksAt(g, i)
      BY <1>0, <3>1 DEF Start, SendHeader, FinishBlock, LooksAt
    <3>3. ~HeaderReceipt(g)
      BY <3>1 DEF HeaderReceipt, HasHeader, Sealed
    <3>4. Waits(g)
      BY <1>0, <3>2, <3>3, WalkSteps
    <3>5. chainToHeaders'[g[2]][g[1]][h] = chainToHeaders[g[2]][g[1]][h]
      <4>1. ASSUME pendingHeader' = [pendingHeader EXCEPT ![g] = @ \ {h}]
            PROVE  FALSE
        BY <1>0, <1>1, <4>1
      <4> QED
        BY <2>0, <3>1, <4>1, HeadersStay
    <3> QED
      BY <3>1, <3>4, <3>5 DEF Waits
  <2>2. CASE SendHeader(g)
    <3>1. /\ pc[g] = "idle" /\ next[g] # 0 /\ Sealed(g[1], next[g])
          /\ pc'[g] = "header" /\ next' = next /\ chainToHeaders' = chainToHeaders
          /\ pendingHeader'[g] = pendingHeader[g] \cup {next[g]}
      BY <1>0, <2>2 DEF SendHeader, contractVars
    <3>2. h = next[g] /\ next[g] \in Heights
      BY <1>0, <1>1, <3>1, NextIsHeight DEF HeadersAreStoredOnce
    <3>3. chainToHeaders[g[2]][g[1]][h] = 0
      BY <1>0, <2>0, <3>1, <3>2 DEF HeadersAreStoredOnce
    <3> QED
      BY <3>1, <3>2, <3>3
  <2> QED
    BY <1>0, <2>1, <2>2, PendingHeaderSteps
<1>2. ASSUME NEW c \in Chains, NEW e \in Chains, NEW h \in Heights,
             chainToHeaders'[c][e][h] # 0
      PROVE  /\ <<e, c>> \in Gateways
             /\ \/ h < next'[<<e, c>>]
                \/ h = next'[<<e, c>>] /\ pc'[<<e, c>>] # "idle"
             /\ chainToHeaders'[c][e][h] <= OpenBlock(c)'
  <2> DEFINE g == <<e, c>>
  <2>0. height[c] \in Nat /\ height'[c] \in Nat /\ height[c] <= height'[c]
    BY <1>0, HeightSteps
  <2>1. CASE chainToHeaders'[c][e][h] = chainToHeaders[c][e][h]
    <3>1. /\ g \in Gateways
          /\ h < next[g] \/ (h = next[g] /\ pc[g] # "idle")
          /\ chainToHeaders[c][e][h] <= OpenBlock(c)
      BY <1>0, <1>2, <2>1 DEF HeadersAreStoredOnce
    <3>2. chainToHeaders[c][e][h] \in Nat
      BY <1>0 DEF TypeOK, ContractTypeOK
    <3>3. chainToHeaders'[c][e][h] <= OpenBlock(c)'
      BY <2>0, <2>1, <3>1, <3>2 DEF OpenBlock
    <3> HIDE DEF g
    <3>4. h < next'[g] \/ (h = next'[g] /\ pc'[g] # "idle")
      <4>1. CASE Waits(g)
        BY <3>1, <4>1 DEF Waits
      <4>2. ~Start(g)
        BY <1>0, <3>1 DEF Start, BlocksInHandAreReady, Sealed
      <4>3. CASE SendHeader(g)
        BY <1>0, <3>1, <4>3 DEF SendHeader
      <4>4. CASE HeaderReceipt(g)
        BY <1>0, <3>1, <4>4 DEF HeaderReceipt
      <4>5. CASE FinishBlock(g)
        BY <1>0, <3>1, <4>5 DEF FinishBlock
      <4>6. ASSUME NEW i \in todo[g], LooksAt(g, i)
            PROVE  next' = next /\ pc' = pc
        BY <4>6 DEF LooksAt
      <4> QED
        BY <1>0, <3>1, <4>1, <4>2, <4>3, <4>4, <4>5, <4>6, WalkSteps
    <3> QED
      BY <3>1, <3>3, <3>4 DEF g
  <2>2. CASE /\ g \in Gateways /\ h \in pendingHeader[g]
             /\ chainToHeaders'[c][e][h] = OpenBlock(c) /\ height' = height
             /\ next' = next /\ pc' = pc
    <3>1. h = next[g] /\ pc[g] = "header"
      BY <1>0, <2>2 DEF HeadersAreStoredOnce
    <3>2. chainToHeaders'[c][e][h] <= OpenBlock(c)'
      BY <2>0, <2>2 DEF OpenBlock
    <3> QED
      BY <2>2, <3>1, <3>2
  <2> QED
    BY <2>1, <2>2, HeadersStay
<1> QED
  BY <1>1, <1>2 DEF HeadersAreStoredOnce

(* What is pending was pending before, or has just been sent. *)
LEMMA PendingSteps ==
  ASSUME IInv, DirectNext, NEW g \in Gateways, NEW tx \in pendingCM'[g]
  PROVE  \/ tx \in pendingCM[g]
         \/ \E i \in todo[g] : Sends(g, i) /\ tx = MessageTx(g, i)
<1>0. TypeOK
  BY DEF IInv
<1>1. CASE AccountQuiet(g)
  BY <1>1 DEF AccountQuiet
<1>2. ASSUME NEW i \in todo[g], Sends(g, i)
      PROVE  tx \in pendingCM[g] \/ tx = MessageTx(g, i)
  BY <1>0, <1>2, SendsChanges
<1>3. ASSUME NEW k \in pendingCM[g], Executes(g, k) PROVE tx \in pendingCM[g]
  BY <1>0, <1>3, ExecutesChanges
<1> QED
  BY <1>0, <1>1, <1>2, <1>3, AccountSteps

\* Between its sending and its execution the header of a message stays.
LEMMA ProvableStep ==
  ASSUME IInv, DirectNext
  PROVE  MessagesAreProvable'
<1> SUFFICES ASSUME NEW g \in Gateways, NEW tx \in pendingCM'[g]
             PROVE  HasHeader(g[2], g[1], tx.height)' /\ tx.cm \in tx.proven
  BY DEF MessagesAreProvable
<1>0. TypeOK /\ g[1] \in Chains /\ g[2] \in Chains
  BY GatewayEnds DEF IInv
<1>1. CASE tx \in pendingCM[g]
  <2>1. HasHeader(g[2], g[1], tx.height) /\ tx.cm \in tx.proven
    BY <1>1 DEF IInv, MessagesAreProvable
  <2>2. tx.height \in Heights
    BY <1>0, <1>1, PendingType
  <2> QED
    BY <1>0, <2>1, <2>2, HeadersArePermanent
<1>2. ASSUME NEW i \in todo[g], Sends(g, i), tx = MessageTx(g, i)
      PROVE  HasHeader(g[2], g[1], tx.height)' /\ tx.cm \in tx.proven
  <2>1. /\ HasHeader(g[2], g[1], next[g]) /\ next[g] \in Heights
        /\ tx.cm \in tx.proven
    BY <1>2, InHand DEF Sends, LooksAt
  <2>2. tx.height = next[g]
    BY <1>2 DEF MessageTx
  <2>3. HasHeader(g[2], g[1], tx.height)'
    BY <1>0, <2>1, <2>2, HeadersArePermanent
  <2> QED
    BY <2>1, <2>3
<1> QED
  BY <1>1, <1>2, PendingSteps

\* A message is sent from a block in hand, whose header has arrived.
LEMMA PendingStep ==
  ASSUME IInv, DirectNext
  PROVE  PendingAreGenuine'
<1> SUFFICES ASSUME NEW g \in Gateways, NEW tx \in pendingCM'[g]
             PROVE  /\ \E j \in DOMAIN CMLog(g[1])' :
                         /\ CMLog(g[1])'[j].cm = tx.cm
                         /\ SourceIndex(g[1], j)' = tx.index
                         /\ CMLog(g[1])'[j].block = tx.height
                         /\ PassedOver(g, j)'
                    /\ g[2] # Relay => tx.cm.targetChain = g[2]
  BY DEF PendingAreGenuine, IsMessage
<1>0. TypeOK /\ g[1] \in Chains
  BY GatewayEnds DEF IInv
<1>1. CASE tx \in pendingCM[g]
  <2>1. PICK j \in DOMAIN CMLog(g[1]) :
          IsMessage(g, tx, j) /\ CMLog(g[1])[j].block = tx.height /\ PassedOver(g, j)
    BY <1>1 DEF IInv, PendingAreGenuine
  <2>2. /\ j \in DOMAIN CMLog(g[1])' /\ CMLog(g[1])'[j] = CMLog(g[1])[j]
        /\ CMLog(g[1])'[j].cm = tx.cm /\ SourceIndex(g[1], j)' = tx.index
    BY <2>1, MessageStays
  <2>3. PassedOver(g, j)'
    BY <2>1, PassedStays
  <2>4. g[2] # Relay => tx.cm.targetChain = g[2]
    BY <1>1 DEF IInv, PendingAreGenuine
  <2> QED
    BY <2>1, <2>2, <2>3, <2>4
<1>2. ASSUME NEW i \in todo[g], Sends(g, i), tx = MessageTx(g, i)
      PROVE  /\ \E j \in DOMAIN CMLog(g[1])' :
                  /\ CMLog(g[1])'[j].cm = tx.cm
                  /\ SourceIndex(g[1], j)' = tx.index
                  /\ CMLog(g[1])'[j].block = tx.height
                  /\ PassedOver(g, j)'
             /\ g[2] # Relay => tx.cm.targetChain = g[2]
  <2>1. i \in DOMAIN CMLog(g[1]) /\ CMLog(g[1])[i].block = next[g] /\ pc[g] = "txs"
    BY <1>2, InHand DEF Sends, LooksAt
  <2>2. /\ tx.cm = CMLog(g[1])[i].cm /\ tx.index = SourceIndex(g[1], i)
        /\ tx.height = next[g]
    BY <1>2 DEF MessageTx
  <2>3. /\ i \in DOMAIN CMLog(g[1])' /\ CMLog(g[1])'[i] = CMLog(g[1])[i]
        /\ SourceIndex(g[1], i)' = SourceIndex(g[1], i)
    BY <1>0, <2>1, LogsGrow
  <2>4. pc' = pc /\ next' = next /\ todo'[g] = todo[g] \ {i}
    BY <1>0, <1>2, SendsChanges
  <2>5. PassedOver(g, i)'
    BY <2>1, <2>3, <2>4 DEF PassedOver
  <2>6. g[2] # Relay => tx.cm.targetChain = g[2]
    BY <1>2, <2>2 DEF Sends
  <2> QED
    BY <2>1, <2>2, <2>3, <2>5, <2>6
<1> QED
  BY <1>1, <1>2, PendingSteps

(* A message becomes a record only after it was proved. *)
LEMMA RecordsStep ==
  ASSUME IInv, DirectNext
  PROVE  RecordsAreGenuine'
<1> DEFINE Genuine(c, e) ==
             /\ e.verified
             /\ \E g \in Gateways :
                  /\ g[2] = c /\ Carries(g, e.cm.sourceChain)
                  /\ \E j \in DOMAIN CMLog(g[1]) : IsMessage(g, e, j) /\ PassedOver(g, j)
             /\ c # Relay => e.cm.targetChain = c
<1>0. TypeOK
  BY DEF IInv
<1>1. ASSUME NEW c \in Chains, NEW e, Genuine(c, e) PROVE Genuine(c, e)'
  <2>1. PICK g \in Gateways :
          /\ g[2] = c /\ Carries(g, e.cm.sourceChain)
          /\ \E j \in DOMAIN CMLog(g[1]) : IsMessage(g, e, j) /\ PassedOver(g, j)
    BY <1>1
  <2>2. PICK j \in DOMAIN CMLog(g[1]) : IsMessage(g, e, j) /\ PassedOver(g, j)
    BY <2>1
  <2>3. j \in DOMAIN CMLog(g[1])' /\ IsMessage(g, e, j)'
    BY <2>2, MessageStays DEF IsMessage
  <2>4. PassedOver(g, j)'
    BY <2>2, PassedStays
  <2>5. Carries(g, e.cm.sourceChain)'
    BY <2>1 DEF Carries
  <2> QED
    BY <1>1, <2>1, <2>3, <2>4, <2>5
<1>2. ASSUME NEW c \in Chains, NEW i \in DOMAIN Records[c]
      PROVE  Genuine(c, Records[c][i])
  BY <1>2 DEF IInv, RecordsAreGenuine
<1>3. ASSUME NEW g \in Gateways, NEW tx \in pendingCM[g], Executes(g, tx)
      PROVE  Genuine(g[2], Received(g[2], tx))
  <2>1. PICK j \in DOMAIN CMLog(g[1]) : IsMessage(g, tx, j) /\ PassedOver(g, j)
    BY DEF IInv, PendingAreGenuine
  <2>2. tx.cm \in tx.proven /\ (g[2] # Relay => tx.cm.targetChain = g[2])
    BY DEF IInv, MessagesAreProvable, PendingAreGenuine
  <2>3. Carries(g, tx.cm.sourceChain)
    BY PendingIsCarried
  <2>4. /\ Received(g[2], tx).cm = tx.cm /\ Received(g[2], tx).index = tx.index
        /\ Received(g[2], tx).verified = (tx.cm \in tx.proven)
    BY DEF Received
  <2> HIDE DEF Received
  <2>5. IsMessage(g, Received(g[2], tx), j)
    BY <2>1, <2>4 DEF IsMessage
  <2> QED
    BY <2>1, <2>2, <2>3, <2>4, <2>5
<1> HIDE DEF Genuine
<1>4. ASSUME NEW c \in Chains, NEW i \in DOMAIN Records'[c]
      PROVE  \E e : e = Records'[c][i] /\ Genuine(c, e)'
  <2>1. CASE Records'[c] = Records[c]
    BY <1>1, <1>2, <2>1
  <2>2. ASSUME NEW g \in Gateways, NEW tx \in pendingCM[g], g[2] = c, Executes(g, tx),
               Records'[c] = Append(Records[c], Received(c, tx))
        PROVE  \E e : e = Records'[c][i] /\ Genuine(c, e)'
    <3> DEFINE new == Received(c, tx)
    <3>1. Genuine(c, new)
      BY <1>3, <2>2
    <3> HIDE DEF new
    <3>2. Records[c] \in Seq(Receipt) /\ Records'[c] = Append(Records[c], new)
      BY <1>0, <2>2, RecordsType DEF new
    <3>3. \/ i \in DOMAIN Records[c] /\ Records'[c][i] = Records[c][i]
          \/ Records'[c][i] = new
      BY <3>2
    <3> QED
      BY <1>1, <1>2, <3>1, <3>3
  <2> QED
    BY <1>0, <2>1, <2>2, RecordSteps
<1> SUFFICES ASSUME NEW c \in Chains, NEW i \in DOMAIN Records'[c]
             PROVE  Genuine(c, Records[c][i])'
  BY DEF RecordsAreGenuine, Genuine
<1>5. PICK e : e = Records'[c][i] /\ Genuine(c, e)'
  BY <1>4
<1> QED
  BY <1>5 DEF Genuine, IsMessage, Carries, PassedOver

\* The second account of a gateway numbers its messages one after the other.
LEMMA NoncesStep ==
  ASSUME IInv, DirectNext
  PROVE  NoncesAreContiguous'
<1>0. TypeOK /\ NoncesAreContiguous
  BY DEF IInv
<1> SUFFICES ASSUME NEW g \in Gateways
             PROVE  /\ txCount'[g] <= txNonce'[g]
                    /\ \A tx \in pendingCM'[g] :
                         txCount'[g] <= tx.nonce /\ tx.nonce < txNonce'[g]
                    /\ \A a, b \in pendingCM'[g] : a.nonce = b.nonce => a = b
  BY DEF NoncesAreContiguous
<1>1. /\ txCount[g] <= txNonce[g]
      /\ \A tx \in pendingCM[g] :
           tx.nonce \in Nat /\ txCount[g] <= tx.nonce /\ tx.nonce < txNonce[g]
      /\ \A a, b \in pendingCM[g] : a.nonce = b.nonce => a = b
  BY <1>0, PendingType DEF NoncesAreContiguous
<1>2. CASE AccountQuiet(g)
  BY <1>1, <1>2 DEF AccountQuiet
<1>3. ASSUME NEW i \in todo[g], Sends(g, i)
      PROVE  /\ txCount'[g] <= txNonce'[g]
             /\ \A tx \in pendingCM'[g] :
                  txCount'[g] <= tx.nonce /\ tx.nonce < txNonce'[g]
             /\ \A a, b \in pendingCM'[g] : a.nonce = b.nonce => a = b
  <2> DEFINE new == MessageTx(g, i)
  <2>1. /\ pendingCM'[g] = pendingCM[g] \cup {new} /\ new.nonce = txNonce[g]
        /\ txNonce'[g] = txNonce[g] + 1 /\ txCount'[g] = txCount[g]
        /\ txNonce[g] \in Nat /\ txCount[g] \in Nat
    BY <1>0, <1>3, SendsChanges
  <2> HIDE DEF new
  <2> QED
    BY <1>1, <2>1
<1>4. ASSUME NEW k \in pendingCM[g], Executes(g, k)
      PROVE  /\ txCount'[g] <= txNonce'[g]
             /\ \A tx \in pendingCM'[g] :
                  txCount'[g] <= tx.nonce /\ tx.nonce < txNonce'[g]
             /\ \A a, b \in pendingCM'[g] : a.nonce = b.nonce => a = b
  <2>1. /\ pendingCM'[g] = pendingCM[g] \ {k} /\ k.nonce = txCount[g]
        /\ txNonce'[g] = txNonce[g] /\ txCount'[g] = txCount[g] + 1
        /\ txNonce[g] \in Nat /\ txCount[g] \in Nat
    BY <1>0, <1>4, ExecutesChanges
  <2> QED
    BY <1>1, <2>1
<1> QED
  BY <1>0, <1>2, <1>3, <1>4, AccountSteps

(* Whatever g has passed was sent before the message it looks at. *)
LEMMA PassedIsEarlier ==
  ASSUME IInv, NEW g \in Gateways, pc[g] = "txs", NEW i \in todo[g],
         NEW j \in DOMAIN CMLog(g[1]), PassedOver(g, j),
         CMLog(g[1])[j].cm.sourceChain = CMLog(g[1])[i].cm.sourceChain
  PROVE  SourceIndex(g[1], j) < SourceIndex(g[1], i)
<1>0. TypeOK /\ g[1] \in Chains
  BY GatewayEnds DEF IInv
<1>1. i \in DOMAIN CMLog(g[1]) /\ CMLog(g[1])[i].block = next[g]
  BY InHand
<1>2. /\ i \in Nat /\ j \in Nat
      /\ CMLog(g[1])[j].block \in Nat /\ CMLog(g[1])[i].block \in Nat
  BY <1>0, <1>1, LogType DEF Heights
<1>3. \A k \in DOMAIN CMLog(g[1]) : i < k => CMLog(g[1])[i].block <= CMLog(g[1])[k].block
  BY <1>0, <1>1 DEF IInv, LogsAreOrdered
<1>4. \A k \in IndicesIn(g[1], next[g]) : i < k => k \in todo[g]
  BY DEF IInv, BlocksInHandAreReady
<1>5. i # j
  BY <1>1, <1>2 DEF PassedOver
<1>6. ~ (i < j)
  <2>1. ASSUME i < j PROVE FALSE
    <3>1. CMLog(g[1])[j].block = next[g] /\ j \notin todo[g]
      BY <1>1, <1>2, <1>3, <2>1 DEF PassedOver
    <3>2. j \in IndicesIn(g[1], next[g])
      BY <3>1 DEF IndicesIn
    <3> QED
      BY <1>4, <2>1, <3>1, <3>2
  <2> QED
    BY <2>1
<1>7. j < i
  BY <1>2, <1>5, <1>6
<1> QED
  BY <1>0, <1>1, <1>7, SourceIndexGrows

(* A new record's source brings its messages over the same gateway. *)
LEMMA RecordIsPassed ==
  ASSUME IInv, NEW g \in Gateways, NEW i \in DOMAIN Records[g[2]],
         Carries(g, Records[g[2]][i].cm.sourceChain)
  PROVE  \E j \in DOMAIN CMLog(g[1]) :
           IsMessage(g, Records[g[2]][i], j) /\ PassedOver(g, j)
<1> DEFINE e == Records[g[2]][i]
<1>1. PICK k \in Gateways :
        /\ k[2] = g[2] /\ Carries(k, e.cm.sourceChain)
        /\ \E j \in DOMAIN CMLog(k[1]) : IsMessage(k, e, j) /\ PassedOver(k, j)
  BY GatewayEnds DEF IInv, RecordsAreGenuine
<1>2. e.cm.sourceChain \in Para
  BY RecordsType, GatewayEnds DEF IInv, CM
<1>3. k = g
  BY <1>1, <1>2, SameCarrier
<1> QED
  BY <1>1, <1>3

\* Messages of one source keep their order in the account and at the destination.
LEMMA OrderStep ==
  ASSUME IInv, DirectNext
  PROVE  MessagesAreInOrder'
<1>0. TypeOK
  BY DEF IInv
<1>1. ASSUME NEW g \in Gateways, NEW i \in todo[g], Sends(g, i)
      PROVE  /\ \A a \in pendingCM[g] :
                  a.cm.sourceChain = MessageTx(g, i).cm.sourceChain
                    => a.index < MessageTx(g, i).index
             /\ \A k \in DOMAIN Records[g[2]] :
                  Records[g[2]][k].cm.sourceChain = MessageTx(g, i).cm.sourceChain
                    => Records[g[2]][k].index < MessageTx(g, i).index
  <2> DEFINE new == MessageTx(g, i)
  <2>0. /\ new.cm = CMLog(g[1])[i].cm /\ new.index = SourceIndex(g[1], i)
        /\ pc[g] = "txs"
    BY <1>1 DEF MessageTx, Sends, LooksAt
  <2>1. ASSUME NEW a \in pendingCM[g], a.cm.sourceChain = new.cm.sourceChain
        PROVE  a.index < new.index
    <3>1. PICK j \in DOMAIN CMLog(g[1]) : IsMessage(g, a, j) /\ PassedOver(g, j)
      BY DEF IInv, PendingAreGenuine
    <3>2. CMLog(g[1])[j].cm = a.cm /\ SourceIndex(g[1], j) = a.index
      BY <3>1 DEF IsMessage
    <3> QED
      BY <2>0, <2>1, <3>1, <3>2, PassedIsEarlier
  <2>2. ASSUME NEW k \in DOMAIN Records[g[2]],
               Records[g[2]][k].cm.sourceChain = new.cm.sourceChain
        PROVE  Records[g[2]][k].index < new.index
    <3>1. i \in DOMAIN CMLog(g[1]) /\ g[1] \in Chains
      BY <2>0, InHand, GatewayEnds
    <3>2. Carries(g, new.cm.sourceChain)
      BY <2>0, <3>1 DEF Carries, IInv, LogsAreOrdered
    <3>3. PICK j \in DOMAIN CMLog(g[1]) :
            IsMessage(g, Records[g[2]][k], j) /\ PassedOver(g, j)
      BY <2>2, <3>2, RecordIsPassed
    <3>4. /\ CMLog(g[1])[j].cm = Records[g[2]][k].cm
          /\ SourceIndex(g[1], j) = Records[g[2]][k].index
      BY <3>3 DEF IsMessage
    <3> QED
      BY <2>0, <2>2, <3>3, <3>4, PassedIsEarlier
  <2> QED
    BY <2>1, <2>2
<1>2. ASSUME NEW g \in Gateways, NEW b \in pendingCM'[g], NEW a \in pendingCM'[g],
             a.cm.sourceChain = b.cm.sourceChain, a.nonce < b.nonce
      PROVE  a.index < b.index
  <2>1. CASE a \in pendingCM[g] /\ b \in pendingCM[g]
    BY <1>2, <2>1 DEF IInv, MessagesAreInOrder
  <2>2. ASSUME NEW i \in todo[g], Sends(g, i), b = MessageTx(g, i), a \in pendingCM[g]
        PROVE  a.index < b.index
    BY <1>1, <1>2, <2>2
  <2>3. ASSUME NEW i \in todo[g], Sends(g, i), a = MessageTx(g, i) PROVE FALSE
    <3>1. a.nonce = txNonce[g] /\ txNonce[g] \in Nat
      BY <1>0, <2>3, SendsChanges
    <3>2. CASE b \in pendingCM[g]
      <4>1. b.nonce \in Nat /\ b.nonce < txNonce[g]
        BY <1>0, <3>2, PendingType DEF IInv, NoncesAreContiguous
      <4> QED
        BY <1>2, <3>1, <4>1
    <3>3. ASSUME NEW k \in todo[g], Sends(g, k), b = MessageTx(g, k) PROVE FALSE
      <4>1. b.nonce = txNonce[g]
        BY <1>0, <3>3, SendsChanges
      <4> QED
        BY <1>2, <3>1, <4>1
    <3> QED
      BY <3>2, <3>3, PendingSteps
  <2> QED
    BY <2>1, <2>2, <2>3, PendingSteps
<1>3. ASSUME NEW g \in Gateways, NEW tx \in pendingCM[g], Executes(g, tx)
      PROVE  \A k \in DOMAIN Records[g[2]] :
               Records[g[2]][k].cm.sourceChain = tx.cm.sourceChain
                 => Records[g[2]][k].index < tx.index
  BY DEF IInv, MessagesAreInOrder
<1>4. ASSUME NEW g \in Gateways, NEW b \in pendingCM'[g],
             NEW i \in DOMAIN Records'[g[2]],
             Records'[g[2]][i].cm.sourceChain = b.cm.sourceChain
      PROVE  Records'[g[2]][i].index < b.index
  <2>0. g[2] \in Chains
    BY GatewayEnds
  <2>1. CASE Records'[g[2]] = Records[g[2]]
    <3>1. CASE b \in pendingCM[g]
      BY <1>4, <2>1, <3>1 DEF IInv, MessagesAreInOrder
    <3>2. ASSUME NEW k \in todo[g], Sends(g, k), b = MessageTx(g, k)
          PROVE  Records'[g[2]][i].index < b.index
      BY <1>1, <1>4, <2>1, <3>2
    <3> QED
      BY <3>1, <3>2, PendingSteps
  <2>2. ASSUME NEW k \in Gateways, NEW tx \in pendingCM[k], k[2] = g[2],
               Executes(k, tx),
               Records'[g[2]] = Append(Records[g[2]], Received(g[2], tx))
        PROVE  Records'[g[2]][i].index < b.index
    <3>0. b \in pendingCM[g]
      <4>1. ASSUME NEW n \in todo[g], Sends(g, n) PROVE FALSE
        <5>1. UNCHANGED txCount
          BY <4>1 DEF Sends, LooksAt
        <5>2. txCount'[k] = txCount[k] + 1 /\ txCount[k] \in Nat
          BY <1>0, <2>2, ExecutesChanges
        <5> QED
          BY <5>1, <5>2
      <4> QED
        BY <4>1, PendingSteps
    <3>1. Records[g[2]] \in Seq(Receipt)
      BY <1>0, <2>0, RecordsType
    <3> DEFINE new == Received(g[2], tx)
    <3>2. new.cm = tx.cm /\ new.index = tx.index
      BY DEF Received
    <3> HIDE DEF new
    <3>3. \/ i \in DOMAIN Records[g[2]] /\ Records'[g[2]][i] = Records[g[2]][i]
          \/ Records'[g[2]][i] = new
      BY <2>2, <3>1 DEF new
    <3>4. CASE i \in DOMAIN Records[g[2]] /\ Records'[g[2]][i] = Records[g[2]][i]
      BY <1>4, <3>0, <3>4 DEF IInv, MessagesAreInOrder
    <3>5. CASE Records'[g[2]][i] = new
      <4>1. tx.cm.sourceChain = b.cm.sourceChain
        BY <1>4, <3>2, <3>5
      <4>2. k = g
        <5>1. /\ Carries(g, b.cm.sourceChain) /\ Carries(k, tx.cm.sourceChain)
              /\ b.cm.sourceChain \in Para
          BY <2>2, <3>0, PendingIsCarried
        <5> QED
          BY <2>2, <4>1, <5>1, SameCarrier
      <4>3. /\ pendingCM'[g] = pendingCM[g] \ {tx} /\ tx.nonce = txCount[g]
            /\ txCount[g] \in Nat /\ tx \in pendingCM[g]
        BY <1>0, <2>2, <4>2, ExecutesChanges
      <4>4. /\ b # tx /\ b.nonce # tx.nonce /\ txCount[g] <= b.nonce
            /\ b.nonce \in Nat
        BY <1>0, <3>0, <4>3, PendingType DEF IInv, NoncesAreContiguous
      <4>5. tx.nonce < b.nonce
        BY <4>3, <4>4
      <4>6. tx.index < b.index
        BY <3>0, <4>1, <4>3, <4>5 DEF IInv, MessagesAreInOrder
      <4> QED
        BY <3>2, <3>5, <4>6
    <3> QED
      BY <3>3, <3>4, <3>5
  <2> QED
    BY <1>0, <2>0, <2>1, <2>2, RecordSteps
<1>5. ASSUME NEW c \in Chains, NEW i \in DOMAIN Records'[c], NEW j \in DOMAIN Records'[c],
             i < j, Records'[c][i].cm.sourceChain = Records'[c][j].cm.sourceChain
      PROVE  Records'[c][i].index < Records'[c][j].index
  <2>1. CASE Records'[c] = Records[c]
    BY <1>5, <2>1 DEF IInv, MessagesAreInOrder
  <2>2. ASSUME NEW g \in Gateways, NEW tx \in pendingCM[g], g[2] = c, Executes(g, tx),
               Records'[c] = Append(Records[c], Received(c, tx))
        PROVE  Records'[c][i].index < Records'[c][j].index
    <3> DEFINE new == Received(c, tx)
    <3>1. Records[c] \in Seq(Receipt)
      BY <1>0, RecordsType
    <3>2. new.cm = tx.cm /\ new.index = tx.index
      BY DEF Received
    <3> HIDE DEF new
    <3>3. i \in DOMAIN Records[c] /\ Records'[c][i] = Records[c][i]
      BY <1>5, <2>2, <3>1 DEF new
    <3>4. \/ j \in DOMAIN Records[c] /\ Records'[c][j] = Records[c][j]
          \/ Records'[c][j] = new
      BY <2>2, <3>1 DEF new
    <3>5. CASE j \in DOMAIN Records[c] /\ Records'[c][j] = Records[c][j]
      BY <1>5, <3>3, <3>5 DEF IInv, MessagesAreInOrder
    <3>6. CASE Records'[c][j] = new
      BY <1>3, <1>5, <2>2, <3>2, <3>3, <3>6
    <3> QED
      BY <3>4, <3>5, <3>6
  <2> QED
    BY <1>0, <2>1, <2>2, RecordSteps
<1>6. /\ \A g \in Gateways : \A b \in pendingCM'[g] :
           /\ \A a \in pendingCM'[g] :
                a.cm.sourceChain = b.cm.sourceChain /\ a.nonce < b.nonce => a.index < b.index
           /\ \A i \in DOMAIN Records'[g[2]] :
                Records'[g[2]][i].cm.sourceChain = b.cm.sourceChain
                  => Records'[g[2]][i].index < b.index
      /\ \A c \in Chains : \A i, j \in DOMAIN Records'[c] :
           i < j /\ Records'[c][i].cm.sourceChain = Records'[c][j].cm.sourceChain
             => Records'[c][i].index < Records'[c][j].index
  BY <1>2, <1>4, <1>5
<1> QED
  BY <1>6 DEF MessagesAreInOrder

----------------------------------------------------------------------------

(* The invariant holds when nothing has happened. *)
LEMMA IInvInit == Init => IInv
<1> SUFFICES ASSUME Init PROVE IInv
  OBVIOUS
<1>0. /\ cms = [p \in Para |-> <<>>] /\ cmHashesOnRelay = <<>>
      /\ cmsRecordByCount = [d \in Para |-> <<>>]
      /\ chainToHeaders = [c \in Chains |-> [e \in Chains |-> [h \in Heights |-> 0]]]
  BY DEF Init, ContractInit
<1>1. TypeOK
  <2>1. ChainTypeOK
    BY HeightAssumption DEF Init, ChainInit, ChainTypeOK, Heights
  <2>2. ContractTypeOK
    BY <1>0 DEF ContractTypeOK
  <2> QED
    BY <2>1, <2>2, MsgsAssumption DEF Init, TypeOK
<1>2. \A c \in Chains : DOMAIN CMLog(c) = {} /\ DOMAIN Records[c] = {}
  <2>1. \A s : s = <<>> => DOMAIN s = {}
    OBVIOUS
  <2>2. \A c \in Chains : CMLog(c) = <<>> /\ Records[c] = <<>>
    BY <1>0, GatewayEnds DEF CMLog, Records
  <2> QED
    BY <2>1, <2>2
<1>3. \A g \in Gateways : /\ pendingCM[g] = {} /\ pendingHeader[g] = {}
                          /\ pc[g] = "idle" /\ next[g] = 0
                          /\ txNonce[g] = 0 /\ txCount[g] = 0
                          /\ height[g[1]] = 1
  BY GatewayEnds DEF Init, ChainInit
<1>4. \A c, e \in Chains, h \in Heights : chainToHeaders[c][e][h] = 0
  BY <1>0
<1>5. LogsAreOrdered /\ RecordsAreGenuine
  BY <1>2 DEF LogsAreOrdered, RecordsAreGenuine
<1>6. BlocksInHandAreReady
  BY <1>3 DEF BlocksInHandAreReady, OpenBlock
<1>7. HeadersAreStoredOnce
  BY <1>3, <1>4 DEF HeadersAreStoredOnce
<1>8. PendingAreGenuine /\ MessagesAreProvable /\ NoncesAreContiguous
  BY <1>3 DEF PendingAreGenuine, MessagesAreProvable, NoncesAreContiguous
<1>9. MessagesAreInOrder
  BY <1>2, <1>3 DEF MessagesAreInOrder
<1> QED
  BY <1>1, <1>5, <1>6, <1>7, <1>8, <1>9 DEF IInv

(* Every step of the two protocols preserves it. *)
LEMMA IInvStep ==
  ASSUME IInv, DirectNext
  PROVE  IInv'
BY TypeStep, LogsStep, BlocksInHandStep, HeadersStep, PendingStep, ProvableStep,
   RecordsStep, NoncesStep, OrderStep DEF IInv

(* As does a step that changes nothing. *)
LEMMA IInvStutter ==
  ASSUME IInv, UNCHANGED vars
  PROVE  IInv'
<1>1. TypeOK'
  BY DEF IInv, TypeOK, ChainTypeOK, ContractTypeOK, vars, chainVars, contractVars,
         gatewayVars, walkVars, accountVars
<1>2. /\ next' = next /\ pc' = pc /\ todo' = todo /\ pendingHeader' = pendingHeader
      /\ txNonce' = txNonce /\ txCount' = txCount /\ pendingCM' = pendingCM
      /\ height' = height /\ cms' = cms /\ cmHashesOnRelay' = cmHashesOnRelay
      /\ chainToHeaders' = chainToHeaders /\ cmsRecordByCount' = cmsRecordByCount
  BY DEF vars, chainVars, contractVars, gatewayVars, walkVars, accountVars
<1>3. LogsAreOrdered'
  BY <1>2 DEF IInv, LogsAreOrdered, CMLog, OpenBlock
<1>4. BlocksInHandAreReady'
  BY <1>2 DEF IInv, BlocksInHandAreReady, OpenBlock, Sealed, HasHeader, IndicesIn, CMLog
<1>5. HeadersAreStoredOnce'
  BY <1>2 DEF IInv, HeadersAreStoredOnce, OpenBlock
<1>6. PendingAreGenuine'
  BY <1>2 DEF IInv, PendingAreGenuine, IsMessage, PassedOver, CMLog, SourceIndex
<1>7. MessagesAreProvable'
  BY <1>2 DEF IInv, MessagesAreProvable, HasHeader, Sealed
<1>8. Records' = Records
  BY <1>2 DEF Records
<1>9. RecordsAreGenuine'
  BY <1>2, <1>8 DEF IInv, RecordsAreGenuine, Carries, IsMessage, PassedOver, CMLog,
                    SourceIndex
<1>10. NoncesAreContiguous'
  BY <1>2 DEF IInv, NoncesAreContiguous
<1>11. MessagesAreInOrder'
  BY <1>2, <1>8 DEF IInv, MessagesAreInOrder
<1> QED
  BY <1>1, <1>3, <1>4, <1>5, <1>6, <1>7, <1>9, <1>10, <1>11 DEF IInv

----------------------------------------------------------------------------
(* The refinement of CrossChain. *)

(* A record is a message that was sent. *)
LEMMA RecordIsSent ==
  ASSUME IInv, NEW c \in Chains, NEW i \in DOMAIN Records[c]
  PROVE  LET e == Records[c][i]
         IN  /\ e.cm.sourceChain \in Para
             /\ Place(e) \in DOMAIN cms[e.cm.sourceChain]
             /\ cms[e.cm.sourceChain][Place(e)].cm = e.cm
<1>0. TypeOK
  BY DEF IInv
<1>1. ASSUME NEW d \in Chains, NEW k \in DOMAIN Records[d],
             NEW g \in Gateways, g[2] = d, g[1] # Relay,
             Carries(g, Records[d][k].cm.sourceChain),
             NEW j \in DOMAIN CMLog(g[1]), IsMessage(g, Records[d][k], j)
      PROVE  /\ Place(Records[d][k]) \in DOMAIN cms[Records[d][k].cm.sourceChain]
             /\ cms[Records[d][k].cm.sourceChain][Place(Records[d][k])].cm = Records[d][k].cm
  <2>1. g[1] = Records[d][k].cm.sourceChain /\ CMLog(g[1]) = cms[g[1]]
    BY <1>1 DEF Carries, CMLog
  <2>2. Place(Records[d][k]) = j
    <3>1. j \in Nat \ {0} /\ Records[d][k].index = j - 1
      BY <1>0, <1>1, LogType, GatewayEnds DEF IsMessage, SourceIndex
    <3> QED
      BY <3>1 DEF Place
  <2> QED
    BY <1>1, <2>1, <2>2 DEF IsMessage
<1>2. Records[c][i].cm.sourceChain \in Para
  BY <1>0, RecordsType DEF CM
<1>3. PICK g \in Gateways :
        /\ g[2] = c /\ Carries(g, Records[c][i].cm.sourceChain)
        /\ \E j \in DOMAIN CMLog(g[1]) :
             IsMessage(g, Records[c][i], j) /\ PassedOver(g, j)
  BY DEF IInv, RecordsAreGenuine
<1>4. PICK j \in DOMAIN CMLog(g[1]) : IsMessage(g, Records[c][i], j)
  BY <1>3
<1>5. CASE g[1] # Relay
  BY <1>1, <1>2, <1>3, <1>4, <1>5
<1>6. CASE g[1] = Relay
  <2>1. CMLog(g[1]) = Records[Relay] /\ SourceIndex(g[1], j) = Records[Relay][j].index
    BY <1>6, GatewayEnds DEF CMLog, SourceIndex, Records
  <2>2. /\ j \in DOMAIN Records[Relay] /\ Records[Relay][j].cm = Records[c][i].cm
        /\ Records[Relay][j].index = Records[c][i].index
    BY <1>4, <2>1 DEF IsMessage
  <2>3. PICK k \in Gateways :
          /\ k[2] = Relay /\ Carries(k, Records[Relay][j].cm.sourceChain)
          /\ \E n \in DOMAIN CMLog(k[1]) :
               IsMessage(k, Records[Relay][j], n) /\ PassedOver(k, n)
    BY <2>2, GatewayEnds DEF IInv, RecordsAreGenuine
  <2>4. k[1] # Relay
    BY <2>3, GatewayEnds
  <2>5. Place(Records[c][i]) = Place(Records[Relay][j])
    BY <2>2 DEF Place
  <2> QED
    BY <1>1, <1>2, <2>2, <2>3, <2>4, <2>5, GatewayEnds
<1> QED
  BY <1>5, <1>6

(* So is a message that waits for execution. *)
LEMMA PendingIsSent ==
  ASSUME IInv, NEW g \in Gateways, NEW tx \in pendingCM[g]
  PROVE  /\ Place(tx) \in DOMAIN cms[tx.cm.sourceChain]
         /\ cms[tx.cm.sourceChain][Place(tx)].cm = tx.cm
<1>1. PICK j \in DOMAIN CMLog(g[1]) : IsMessage(g, tx, j)
  BY DEF IInv, PendingAreGenuine
<1>2. CASE g[1] = Relay
  <2>1. CMLog(g[1]) = Records[Relay] /\ SourceIndex(g[1], j) = Records[Relay][j].index
    BY <1>2, GatewayEnds DEF CMLog, SourceIndex, Records
  <2>2. /\ j \in DOMAIN Records[Relay] /\ Records[Relay][j].cm = tx.cm
        /\ Records[Relay][j].index = tx.index
    BY <1>1, <2>1 DEF IsMessage
  <2>3. Place(tx) = Place(Records[Relay][j])
    BY <2>2 DEF Place
  <2> QED
    BY <2>2, <2>3, RecordIsSent, GatewayEnds
<1>3. CASE g[1] # Relay
  <2>1. g[1] = tx.cm.sourceChain /\ CMLog(g[1]) = cms[g[1]]
    BY <1>3, PendingIsCarried DEF Carries, CMLog
  <2>2. Place(tx) = j
    <3>1. j \in Nat \ {0} /\ tx.index = j - 1
      BY <1>1, <1>3, LogType, GatewayEnds DEF IInv, IsMessage, SourceIndex
    <3> QED
      BY <3>1 DEF Place
  <2> QED
    BY <1>1, <2>1, <2>2 DEF IsMessage
<1> QED
  BY <1>2, <1>3

\* Message i of parachain p, when it is m.
SentAt(log, p, i) == [cm |-> log[p][i].cm, height |-> log[p][i].block, position |-> i]

(* A message was sent when it is in its chain's log. *)
LEMMA SentIs ==
  /\ \A m : m \in SentMessages <=> \E p \in Para : \E i \in DOMAIN cms[p] : m = SentAt(cms, p, i)
  /\ \A m : m \in SentMessages' <=> \E p \in Para : \E i \in DOMAIN cms'[p] : m = SentAt(cms', p, i)
BY DEF SentMessages, SentAt

(* A user's message comes after those of its chain that were sent before. *)
LEMMA SendsNext ==
  ASSUME IInv, NEW p \in Para, NEW t \in Para, NEW x \in Payload, UserSend(p, t, x)
  PROVE  CC!Next
<1> DEFINE cm == [sourceChain |-> p, targetChain |-> t, payload |-> x]
           h  == OpenBlock(p)
           e  == [cm |-> cm, block |-> h]
           n  == Len(cms[p]) + 1
           m  == [cm |-> cm, height |-> h, position |-> n]
<1>0. TypeOK /\ p \in Chains /\ p # Relay /\ cm \in CM
  BY GatewayEnds DEF IInv, CM
<1>1. h \in Nat \ {0}
  BY <1>0, MineType DEF UserSend, CrossSend, TypeOK, Heights
<1>2. /\ cms' = [cms EXCEPT ![p] = Append(@, e)]
      /\ cmsRecordByCount' = cmsRecordByCount
  BY DEF UserSend, CrossSend
<1>3. cms \in [Para -> Seq(Entry)] /\ cms[p] \in Seq(Entry)
  BY <1>0 DEF TypeOK, ContractTypeOK
<1>4. /\ e.cm = cm /\ e.block = h /\ m.cm = cm /\ m.height = h /\ m.position = n
      /\ m \in CC!SentMessage
  BY <1>0, <1>1, <1>3 DEF CC!SentMessage, CM
<1>4a. cm.sourceChain = p
  OBVIOUS
<1> HIDE DEF e, cm
<1>5. cms'[p] = Append(cms[p], e) /\ \A q \in Para : q # p => cms'[q] = cms[q]
  BY <1>2, <1>3
<1>6. /\ DOMAIN cms'[p] = DOMAIN cms[p] \cup {n} /\ cms'[p][n] = e /\ n \in Nat
      /\ \A i \in DOMAIN cms[p] : cms'[p][i] = cms[p][i] /\ i \in Nat /\ i < n
  BY <1>3, <1>5
<1>7. SentAt(cms', p, n) = m
  BY <1>4, <1>6 DEF SentAt
<1> HIDE DEF n, m
<1>8. SentMessages' = SentMessages \cup {m}
  <2>1. ASSUME NEW q \in Para, NEW i
        PROVE  /\ i \in DOMAIN cms'[q] <=> i \in DOMAIN cms[q] \/ (q = p /\ i = n)
               /\ i \in DOMAIN cms[q] => SentAt(cms', q, i) = SentAt(cms, q, i)
    BY <1>5, <1>6 DEF SentAt
  <2>2. \A s : s \in SentMessages' <=> s \in SentMessages \/ s = m
    <3>1. ASSUME NEW s, s \in SentMessages' PROVE s \in SentMessages \/ s = m
      <4>1. PICK q \in Para : \E i \in DOMAIN cms'[q] : s = SentAt(cms', q, i)
        BY <3>1, SentIs
      <4>2. PICK i \in DOMAIN cms'[q] : s = SentAt(cms', q, i)
        BY <4>1
      <4>3. CASE i \in DOMAIN cms[q]
        BY <2>1, <4>2, <4>3, SentIs
      <4>4. CASE q = p /\ i = n
        BY <1>7, <4>2, <4>4
      <4> QED
        BY <2>1, <4>3, <4>4
    <3>2. ASSUME NEW s, s \in SentMessages PROVE s \in SentMessages'
      <4>1. PICK q \in Para : \E i \in DOMAIN cms[q] : s = SentAt(cms, q, i)
        BY <3>2, SentIs
      <4>2. PICK i \in DOMAIN cms[q] : s = SentAt(cms, q, i)
        BY <4>1
      <4>3. i \in DOMAIN cms'[q] /\ s = SentAt(cms', q, i)
        BY <2>1, <4>2
      <4> QED
        BY <4>3, SentIs
    <3>3. m \in SentMessages'
      <4>1. n \in DOMAIN cms'[p]
        BY <1>6
      <4> QED
        BY <1>7, <4>1, SentIs
    <3> QED
      BY <3>1, <3>2, <3>3
  <2> QED
    BY <2>2
<1>9. ASSUME NEW s \in SentMessages, s.cm.sourceChain = m.cm.sourceChain
      PROVE  CC!Before(s.height, s.position, m.height, m.position)
  <2>1. PICK q \in Para : \E i \in DOMAIN cms[q] : s = SentAt(cms, q, i)
    BY SentIs
  <2>2. PICK i \in DOMAIN cms[q] : s = SentAt(cms, q, i)
    BY <2>1
  <2>3. s.cm = cms[q][i].cm /\ s.height = cms[q][i].block /\ s.position = i
    BY <2>2 DEF SentAt
  <2>4. /\ CMLog(q) = cms[q] /\ q \in Chains /\ q # Relay
    BY GatewayEnds DEF CMLog
  <2>5. cms[q][i].cm.sourceChain = q /\ cms[q][i].block <= OpenBlock(q)
    BY <2>4 DEF IInv, LogsAreOrdered
  <2>6. q = p
    BY <1>4, <1>4a, <1>9, <2>3, <2>5
  <2>7. s.height \in Nat /\ s.height <= h /\ i < n
    BY <1>0, <1>6, <2>3, <2>4, <2>5, <2>6, LogType DEF Heights
  <2> QED
    BY <1>1, <1>4, <2>3, <2>7 DEF CC!Before
<1>10. m \notin SentMessages
  <2>1. ASSUME m \in SentMessages PROVE FALSE
    <3>1. CC!Before(m.height, m.position, m.height, m.position)
      BY <1>9, <2>1
    <3> QED
      BY <1>1, <1>4, <1>6, <3>1 DEF CC!Before
  <2> QED
    BY <2>1
<1>11. Delivered' = Delivered
  <2>1. ASSUME NEW d \in Para, NEW i \in DOMAIN cmsRecordByCount[d]
        PROVE  MessageOf(cmsRecordByCount[d][i])' = MessageOf(cmsRecordByCount[d][i])
    <3> DEFINE r == cmsRecordByCount[d][i]
    <3>1. d \in Chains /\ Records[d] = cmsRecordByCount[d]
      BY GatewayEnds DEF Records
    <3>2. r.cm.sourceChain \in Para /\ Place(r) \in DOMAIN cms[r.cm.sourceChain]
      BY <3>1, RecordIsSent
    <3>3. cms'[r.cm.sourceChain][Place(r)] = cms[r.cm.sourceChain][Place(r)]
      BY <1>5, <1>6, <3>2
    <3> QED
      BY <1>2, <3>3 DEF MessageOf
  <2> QED
    BY <1>2, <2>1 DEF Delivered
<1>12. CC!Send(m)
  BY <1>8, <1>9, <1>11 DEF CC!Send, CC!SameSource, CC!Earlier
<1>13. m \in SentMessages' \ SentMessages
  BY <1>8, <1>10
<1> QED
  BY <1>4, <1>12, <1>13 DEF CC!Next

(* A message that is executed on a parachain was sent, and after those that    *)
(* the parachain has received from the same chain.                             *)
LEMMA ExecutesNext ==
  ASSUME IInv, NEW g \in Gateways, g[2] # Relay, NEW tx \in pendingCM[g],
         Executes(g, tx)
  PROVE  CC!Next
<1> DEFINE e == Received(g[2], tx)
           d == g[2]
           s == cmsRecordByCount[g[2]]
           p == tx.cm.sourceChain
           m == [cm |-> tx.cm, height |-> cms[p][Place(tx)].block, position |-> Place(tx)]
<1>0. TypeOK /\ d \in Para /\ d \in Chains /\ Records[d] = s
  BY GatewayEnds DEF IInv, Records
<1>1. /\ p \in Para /\ p \in Chains /\ Carries(g, p)
      /\ Place(tx) \in DOMAIN cms[p] /\ cms[p][Place(tx)].cm = tx.cm
      /\ tx.cm.targetChain = d
  BY PendingIsCarried, PendingIsSent, GatewayEnds DEF IInv, PendingAreGenuine
<1>2. m \in SentMessages
  <2>1. m = SentAt(cms, p, Place(tx))
    BY <1>1 DEF SentAt
  <2> QED
    BY <1>1, <2>1, SentIs
<1>3. /\ cms' = cms
      /\ cmsRecordByCount' = [cmsRecordByCount EXCEPT ![d] = Append(@, e)]
  BY DEF Executes, Keeps
<1>4. SentMessages' = SentMessages
  BY <1>3 DEF SentMessages
<1>5. MessageOf(e) = m
  BY DEF MessageOf, Received, Place
<1>6. cmsRecordByCount \in [Para -> Seq(Receipt)] /\ s \in Seq(Receipt)
  BY <1>0 DEF TypeOK, ContractTypeOK
<1>7. \A r : MessageOf(r)' = MessageOf(r)
  BY <1>3 DEF MessageOf
<1>8. /\ m.cm = tx.cm /\ m.position = Place(tx)
      /\ m.height = cms[p][Place(tx)].block
  OBVIOUS
<1> HIDE DEF d, s, e, m, p
<1>9. /\ cmsRecordByCount'[d] = Append(s, e)
      /\ \A c \in Para : c # d => cmsRecordByCount'[c] = cmsRecordByCount[c]
  BY <1>0, <1>3, <1>6 DEF s, d
<1>10. /\ DOMAIN Append(s, e) = DOMAIN s \cup {Len(s) + 1}
       /\ Append(s, e)[Len(s) + 1] = e
       /\ \A i \in DOMAIN s : Append(s, e)[i] = s[i]
  BY <1>6
<1>11. {MessageOf(Append(s, e)[i]) : i \in DOMAIN Append(s, e)}
         = {MessageOf(s[i]) : i \in DOMAIN s} \cup {m}
  BY <1>5, <1>10
<1>12. Delivered' = [Delivered EXCEPT ![d] = @ \cup {m}]
  <2> DEFINE del(f) == [c \in Para |-> {MessageOf(f[c][i]) : i \in DOMAIN f[c]}]
  <2>1. Delivered = del(cmsRecordByCount) /\ Delivered' = del(cmsRecordByCount')
    BY <1>3 DEF Delivered, MessageOf
  <2>2. ASSUME NEW c \in Para, c # d PROVE Delivered'[c] = Delivered[c]
    BY <1>9, <2>1, <2>2
  <2>3. Delivered'[d] = Delivered[d] \cup {m}
    BY <1>0, <1>9, <1>11, <2>1 DEF s, d
  <2>4. /\ Delivered' = [c \in Para |-> Delivered'[c]]
        /\ Delivered = [c \in Para |-> Delivered[c]]
    BY DEF Delivered
  <2> QED
    BY <1>0, <2>2, <2>3, <2>4
<1>13. ASSUME NEW n \in Delivered[d], n.cm.sourceChain = m.cm.sourceChain
       PROVE  CC!Before(n.height, n.position, m.height, m.position)
  <2>1. PICK i \in DOMAIN s : n = MessageOf(s[i])
    BY <1>0 DEF Delivered, s, d
  <2>2. s[i].cm.sourceChain = p
    BY <1>8, <1>13, <2>1 DEF MessageOf, p
  <2>3. /\ n.height = cms[p][Place(s[i])].block /\ n.position = Place(s[i])
    BY <2>1, <2>2 DEF MessageOf
  <2>4. Place(s[i]) < Place(tx)
    <3>1. s[i].index < tx.index
      BY <1>0, <2>2 DEF IInv, MessagesAreInOrder, p, d
    <3>2. s[i].index \in Nat /\ tx.index \in Nat
      BY <1>0, PendingType, RecordsType
    <3> QED
      BY <3>1, <3>2 DEF Place
  <2>5. Place(s[i]) \in DOMAIN cms[p] /\ CMLog(p) = cms[p]
    <3>1. i \in DOMAIN Records[d] /\ Records[d][i] = s[i]
      BY <1>0
    <3>2. Place(s[i]) \in DOMAIN cms[p]
      BY <1>0, <2>2, <3>1, RecordIsSent
    <3> QED
      BY <1>1, <3>2, GatewayEnds DEF CMLog
  <2>6. /\ cms[p][Place(s[i])].block <= cms[p][Place(tx)].block
        /\ cms[p][Place(s[i])].block \in Nat /\ cms[p][Place(tx)].block \in Nat
    BY <1>0, <1>1, <2>4, <2>5, LogType DEF IInv, LogsAreOrdered, Heights
  <2> QED
    BY <1>8, <2>3, <2>4, <2>6 DEF CC!Before
<1>14. CC!Deliver(m)
  BY <1>1, <1>2, <1>4, <1>8, <1>12, <1>13
  DEF CC!Deliver, CC!SameSource, CC!Earlier
<1> QED
  BY <1>2, <1>14 DEF CC!Next

(* What users see changes only when one sends or a parachain executes. *)
LEMMA CrossChainStep ==
  ASSUME IInv, DirectNext
  PROVE  [CC!Next]_(CC!vars)
<1>1. ASSUME cms' = cms, cmsRecordByCount' = cmsRecordByCount
      PROVE  UNCHANGED CC!vars
  BY <1>1 DEF CC!vars, SentMessages, Delivered, MessageOf
<1>2. ASSUME NEW c, SealBlock(c) PROVE UNCHANGED CC!vars
  BY <1>1, <1>2 DEF SealBlock, contractVars
<1>3. ASSUME NEW g, ExecuteHeader(g) PROVE UNCHANGED CC!vars
  BY <1>1, <1>3 DEF ExecuteHeader, SubmitHeader
<1>4. ASSUME NEW g \in Gateways, NEW tx \in pendingCM[g], Executes(g, tx)
      PROVE  [CC!Next]_(CC!vars)
  <2>1. CASE g[2] = Relay
    BY <1>1, <1>4, <2>1 DEF Executes, Keeps
  <2>2. CASE g[2] # Relay
    BY <1>4, <2>2, ExecutesNext
  <2> QED
    BY <2>1, <2>2
<1>5. UNCHANGED <<height, contractVars>> => UNCHANGED CC!vars
  BY <1>1 DEF contractVars
<1> QED
  BY <1>2, <1>3, <1>4, <1>5, SendsNext, ContractSteps

(* At first nothing was sent. *)
LEMMA CrossChainInit ==
  ASSUME Init
  PROVE  CC!Init
<1>1. \A s : s = <<>> => DOMAIN s = {}
  OBVIOUS
<1>2. /\ \A p \in Para : DOMAIN cms[p] = {}
      /\ \A d \in Para : DOMAIN cmsRecordByCount[d] = {}
  BY <1>1 DEF Init, ContractInit
<1>3. SentMessages = {}
  BY <1>2, SentIs
<1>4. Delivered = [d \in Para |-> {}]
  BY <1>2 DEF Delivered
<1> QED
  BY <1>3, <1>4 DEF CC!Init
============================================================================
