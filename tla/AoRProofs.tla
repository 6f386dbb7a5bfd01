------------------------------ MODULE AoRProofs ----------------------------
(***************************************************************************)
(* Theorems about AoR, for every set of parachains, gateways and payloads  *)
(* and every bound.                                                        *)
(***************************************************************************)
EXTENDS AoR, DirectProofs

(* Messages do not revert on the relay chain. *)
LEMMA ExecuteOnRelayIs ==
  ASSUME IInv, NEW g \in P2R, ExecuteOnRelay(g)
  PROVE  \E tx \in pendingCM[g] : Executes(g, tx)
<1>1. PICK tx \in pendingCM[g] : TakeCM(g, tx) /\ CrossReceiveOnRelay(tx)
  BY DEF ExecuteOnRelay
<1>2. g \in Gateways /\ g[2] = Relay /\ g[1] # Relay
  BY GatewayEnds DEF P2R
<1>3. tx.cm.sourceChain = g[1]
  BY <1>1, <1>2, PendingIsCarried DEF Carries
<1>4. HasHeader(g[2], g[1], tx.height)
  BY <1>1, <1>2 DEF IInv, MessagesAreProvable
<1>5. ~Reverts(Relay, tx.cm.sourceChain, tx)
  BY <1>2, <1>3, <1>4 DEF Reverts, HasHeader, Sealed
<1>6. Executes(g, tx)
  BY <1>1, <1>2, <1>5 DEF CrossReceiveOnRelay, Executes, Keeps
<1> QED
  BY <1>1, <1>6

(* Nor on their destination. *)
LEMMA ExecuteOnDstIs ==
  ASSUME IInv, NEW g \in R2P, ExecuteOnDst(g)
  PROVE  \E tx \in pendingCM[g] : Executes(g, tx)
<1>1. PICK tx \in pendingCM[g] : TakeCM(g, tx) /\ CrossReceiveFromRelay(g[2], tx)
  BY DEF ExecuteOnDst
<1>2. g \in Gateways /\ g[1] = Relay /\ g[2] # Relay
  BY GatewayEnds DEF R2P
<1>3. HasHeader(g[2], Relay, tx.height)
  BY <1>1, <1>2 DEF IInv, MessagesAreProvable
<1>4. ~Reverts(g[2], Relay, tx)
  BY <1>3 DEF Reverts, HasHeader, Sealed
<1>5. Executes(g, tx)
  BY <1>1, <1>2, <1>4 DEF CrossReceiveFromRelay, Executes, Keeps
<1> QED
  BY <1>1, <1>5

(* Every step is one that both protocols take. *)
LEMMA StepsAreDirect ==
  ASSUME IInv, Next
  PROVE  DirectNext
<1>0. /\ \A g \in P2R : g \in Gateways /\ g[1] \in Para /\ g[2] = Relay
      /\ \A g \in R2P : g \in Gateways /\ g[2] \in Para
  BY GatewayEnds DEF P2R, R2P
<1>1. ASSUME NEW g \in P2R, NEW x \in Payload, NEW t \in Para \ {g[1]},
             UserSend(g[1], t, x)
      PROVE  DirectNext
  BY <1>0, <1>1 DEF DirectNext
<1>2. ASSUME NEW c \in Chains, SealBlock(c) PROVE DirectNext
  BY <1>2 DEF DirectNext
<1>3. ASSUME NEW g \in P2R, SendToRelay(g) PROVE DirectNext
  <2>1. Deals(g)
    BY <1>0, <1>3 DEF SendToRelay, Deals
  <2> QED
    BY <1>0, <2>1 DEF DirectNext
<1>4. ASSUME NEW g \in R2P, SendFromRelay(g) PROVE DirectNext
  <2>1. {g[2]} \in SUBSET Para
    BY <1>0
  <2>2. Deals(g)
    BY <1>4, <2>1 DEF SendFromRelay, Deals
  <2> QED
    BY <1>0, <2>2 DEF DirectNext
<1>5. ASSUME NEW g \in P2R, ExecuteOnRelay(g) PROVE DirectNext
  BY <1>0, <1>5, ExecuteOnRelayIs DEF DirectNext
<1>6. ASSUME NEW g \in R2P, ExecuteOnDst(g) PROVE DirectNext
  BY <1>0, <1>6, ExecuteOnDstIs DEF DirectNext
<1>7. ASSUME NEW g \in Gateways, Start(g) \/ ExecuteHeader(g) \/ Walk(g)
      PROVE  DirectNext
  BY <1>7 DEF DirectNext
<1> QED
  BY <1>0, <1>1, <1>2, <1>3, <1>4, <1>5, <1>6, <1>7
  DEF Next, ToRelayStart, FromRelayStart, DealOnRelay, DealOnDst

(* The inductive invariant. *)
THEOREM AoRInductive == Spec => []IInv
<1>1. Init => IInv
  BY IInvInit
<1>2. IInv /\ [Next]_vars => IInv'
  BY StepsAreDirect, IInvStep, IInvStutter
<1> QED
  BY <1>1, <1>2, PTL DEF Spec

(* Every variable keeps its type. *)
THEOREM AoRTypeCorrect == Spec => []TypeOK
<1>1. IInv => TypeOK
  BY DEF IInv
<1> QED
  BY <1>1, AoRInductive, PTL

(* On both hops a message that waits for execution finds its header and is     *)
(* proved by the state of its block.                                           *)
THEOREM AoRProvable == Spec => []MessagesAreProvable
<1>1. IInv => MessagesAreProvable
  BY DEF IInv
<1> QED
  BY <1>1, AoRInductive, PTL

(* What a parachain has received was proved to it, and before that to the      *)
(* relay chain, in a block that its gateway could read.                        *)
THEOREM AoRReceivedWasProved == Spec => []ReceivedWasProved
<1>1. IInv => ReceivedWasProved
  <2> SUFFICES ASSUME IInv PROVE ReceivedWasProved
    OBVIOUS
  <2>0. TypeOK
    BY DEF IInv
  <2>1. Records[Relay] = cmHashesOnRelay /\ \A d \in Para : Records[d] = cmsRecordByCount[d]
    BY GatewayEnds DEF Records
  <2>2. \A i \in DOMAIN cmHashesOnRelay : cmHashesOnRelay[i].verified
    BY <2>1, GatewayEnds DEF IInv, RecordsAreGenuine
  <2>3. ASSUME NEW d \in Para, NEW j \in DOMAIN cmsRecordByCount[d]
        PROVE  /\ cmsRecordByCount[d][j].verified
               /\ \E i \in DOMAIN cmHashesOnRelay :
                    /\ cmHashesOnRelay[i].cm = cmsRecordByCount[d][j].cm
                    /\ cmHashesOnRelay[i].index = cmsRecordByCount[d][j].index
                    /\ Sealed(Relay, cmHashesOnRelay[i].block)
    <3> DEFINE e == cmsRecordByCount[d][j]
    <3>1. d \in Chains /\ d # Relay /\ j \in DOMAIN Records[d] /\ Records[d][j] = e
      BY <2>1, GatewayEnds
    <3>2. /\ e.verified
          /\ \E g \in Gateways : /\ g[2] = d
                                 /\ \E i \in DOMAIN CMLog(g[1]) :
                                      IsMessage(g, e, i) /\ PassedOver(g, i)
      BY <3>1 DEF IInv, RecordsAreGenuine
    <3>3. PICK g \in Gateways : /\ g[2] = d
                                /\ \E i \in DOMAIN CMLog(g[1]) :
                                     IsMessage(g, e, i) /\ PassedOver(g, i)
      BY <3>2
    <3>4. PICK i \in DOMAIN CMLog(g[1]) : IsMessage(g, e, i) /\ PassedOver(g, i)
      BY <3>3
    <3>5. g[1] = Relay /\ CMLog(g[1]) = cmHashesOnRelay
      BY <3>1, <3>3, OverRelay DEF P2R, R2P, CMLog
    <3>6. /\ i \in DOMAIN cmHashesOnRelay /\ cmHashesOnRelay[i].cm = e.cm
          /\ cmHashesOnRelay[i].index = e.index
      BY <3>4, <3>5 DEF IsMessage, SourceIndex
    <3>7. Sealed(Relay, cmHashesOnRelay[i].block)
      <4>1. cmHashesOnRelay[i].block \in Nat \ {0}
        BY <2>0, <3>4, <3>5, LogType, GatewayEnds DEF Heights
      <4>2. height[Relay] \in Nat /\ next[g] \in Nat /\ next[g] <= height[Relay] + 1
        BY <2>0, <3>5, HeightType, GatewayEnds
        DEF IInv, BlocksInHandAreReady, OpenBlock, TypeOK
      <4>3. CASE cmHashesOnRelay[i].block < next[g]
        BY <4>1, <4>2, <4>3 DEF Sealed
      <4>4. CASE cmHashesOnRelay[i].block = next[g] /\ pc[g] = "txs"
        BY <3>5, <4>4 DEF IInv, BlocksInHandAreReady
      <4> QED
        BY <3>4, <3>5, <4>3, <4>4 DEF PassedOver
    <3> QED
      BY <3>2, <3>6, <3>7
  <2> QED
    BY <2>2, <2>3 DEF ReceivedWasProved
<1> QED
  BY <1>1, AoRInductive, PTL

(* Over two hops a user sees only messages that were sent, at their            *)
(* destination, once and in order.                                             *)
THEOREM AoRImplementation == Spec => ImplementsCrossChain
<1>1. Init => CC!Init
  BY CrossChainInit
<1>2. IInv /\ [Next]_vars => [CC!Next]_(CC!vars)
  <2>1. UNCHANGED vars => UNCHANGED CC!vars
    BY DEF vars, contractVars, CC!vars, SentMessages, Delivered, MessageOf
  <2> QED
    BY <2>1, StepsAreDirect, CrossChainStep
<1> QED
  BY <1>1, <1>2, AoRInductive, PTL DEF Spec, ImplementsCrossChain, CC!Spec
============================================================================
