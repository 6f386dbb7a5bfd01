------------------------------ MODULE NoRProofs ----------------------------
(***************************************************************************)
(* Theorems about NoR, for every set of parachains, gateways and payloads  *)
(* and every bound.                                                        *)
(***************************************************************************)
EXTENDS NoR, DirectProofs

(* The header of a message that executes is there, and the message comes from *)
(* the gateway's source: the contract never reverts.                          *)
LEMMA ExecuteIs ==
  ASSUME IInv, NEW g \in Gateways, Execute(g)
  PROVE  \E tx \in pendingCM[g] : Executes(g, tx)
<1>1. PICK tx \in pendingCM[g] : TakeCM(g, tx) /\ CrossReceiveFromPara(g[2], tx)
  BY DEF Execute
<1>2. g[1] \in Para /\ g[2] \in Para /\ g[1] # Relay /\ g[2] # Relay
  BY ParaToPara, GatewayEnds
<1>3. tx.cm.sourceChain = g[1]
  BY <1>1, <1>2, PendingIsCarried DEF Carries
<1>4. HasHeader(g[2], g[1], tx.height)
  BY <1>1 DEF IInv, MessagesAreProvable
<1>5. ~Reverts(g[2], tx.cm.sourceChain, tx)
  BY <1>3, <1>4 DEF Reverts, HasHeader, Sealed
<1>6. Executes(g, tx)
  BY <1>1, <1>2, <1>5 DEF CrossReceiveFromPara, Executes, Keeps
<1> QED
  BY <1>1, <1>6

(* Every step is one that both protocols take. *)
LEMMA StepsAreDirect ==
  ASSUME IInv, Next
  PROVE  DirectNext
<1>1. ASSUME NEW g \in Gateways, NEW x \in Payload, UserSend(g[1], g[2], x)
      PROVE  DirectNext
  BY <1>1, ParaToPara DEF DirectNext
<1>2. ASSUME NEW c \in Para, SealBlock(c) PROVE DirectNext
  BY <1>2, GatewayEnds DEF DirectNext
<1>3. ASSUME NEW g \in Gateways, SendCM(g) PROVE DirectNext
  <2>1. {g[2]} \in SUBSET Para
    BY ParaToPara
  <2>2. Deals(g)
    BY <1>3, <2>1 DEF SendCM, Deals
  <2> QED
    BY <2>2 DEF DirectNext
<1>4. ASSUME NEW g \in Gateways, Execute(g) PROVE DirectNext
  BY <1>4, ExecuteIs DEF DirectNext
<1>5. ASSUME NEW g \in Gateways, Start(g) \/ ExecuteHeader(g) \/ Walk(g)
      PROVE  DirectNext
  BY <1>5 DEF DirectNext
<1> QED
  BY <1>1, <1>2, <1>3, <1>4, <1>5 DEF Next, DealBlock

(* The inductive invariant. *)
THEOREM NoRInductive == Spec => []IInv
<1>1. Init => IInv
  BY IInvInit
<1>2. IInv /\ [Next]_vars => IInv'
  BY StepsAreDirect, IInvStep, IInvStutter
<1> QED
  BY <1>1, <1>2, PTL DEF Spec

(* Every variable keeps its type. *)
THEOREM NoRTypeCorrect == Spec => []TypeOK
<1>1. IInv => TypeOK
  BY DEF IInv
<1> QED
  BY <1>1, NoRInductive, PTL

(* A message that waits for execution finds its header and is proved by the    *)
(* state of its block, although headers and messages go out from two accounts: *)
(* the gateway waits for the header's receipt.                                 *)
THEOREM NoRProvable == Spec => []MessagesAreProvable
<1>1. IInv => MessagesAreProvable
  BY DEF IInv
<1> QED
  BY <1>1, NoRInductive, PTL

(* A user sees only messages that were sent, at their destination, once and in *)
(* order, although no contract checks any of it.                               *)
THEOREM NoRImplementation == Spec => ImplementsCrossChain
<1>1. Init => CC!Init
  BY CrossChainInit
<1>2. IInv /\ [Next]_vars => [CC!Next]_(CC!vars)
  <2>1. UNCHANGED vars => UNCHANGED CC!vars
    BY DEF vars, contractVars, CC!vars, SentMessages, Delivered, MessageOf
  <2> QED
    BY <2>1, StepsAreDirect, CrossChainStep
<1> QED
  BY <1>1, <1>2, NoRInductive, PTL DEF Spec, ImplementsCrossChain, CC!Spec
============================================================================
