-------------------------------- MODULE NoR --------------------------------
(***************************************************************************)
(* The protocol without a relay chain (relayer/nor): one gateway for every *)
(* pair of parachains carries the headers of the source and the messages   *)
(* for the destination.                                                    *)
(***************************************************************************)
EXTENDS DirectInv

ASSUME ParaToPara == Gateways \subseteq Para \X Para

\* Variant: messages are sent whatever their destination.
SendCMToAll(g) == DealCM(g, Para)

\* deal_txs sends the messages for the gateway's destination.
SendCM(g) == DealCM(g, {g[2]})

\* deal_block.
DealBlock(g) == Walk(g) \/ SendCM(g)

Execute(g) == \E tx \in pendingCM[g] : TakeCM(g, tx) /\ CrossReceiveFromPara(g[2], tx)

Next ==
  \/ \E g \in Gateways, x \in Payload : UserSend(g[1], g[2], x)
  \/ \E c \in Para : SealBlock(c)
  \/ \E g \in Gateways :
       Start(g) \/ ExecuteHeader(g) \/ DealBlock(g) \/ Execute(g)

Spec == Init /\ [][Next]_vars

\* Every gateway is a process that polls; the chains execute what they are sent
\* and seal the block it is in.
Fairness ==
  /\ \A c \in Para : WF_vars(openTxs[c] /\ SealBlock(c))
  /\ \A g \in Gateways :
       /\ WF_vars(Start(g)) /\ WF_vars(ExecuteHeader(g))
       /\ WF_vars(DealBlock(g)) /\ WF_vars(Execute(g))

FairSpec == Spec /\ Fairness

----------------------------------------------------------------------------
(* Properties. *)

\* From some moment on every message of a block that its gateway has walked over
\* has been received.
ReceivedIndices(d, p) ==
  {cmsRecordByCount[d][j].index : j \in {k \in DOMAIN cmsRecordByCount[d] :
                                   cmsRecordByCount[d][k].cm.sourceChain = p}}

AllReceived ==
  \A g \in Gateways : \A i \in DOMAIN cms[g[1]] :
    /\ cms[g[1]][i].cm.targetChain = g[2]
    /\ first[g] # 0 /\ cms[g[1]][i].block >= first[g]
    => i - 1 \in ReceivedIndices(g[2], g[1])

AllDelivered == <>[]AllReceived
============================================================================
