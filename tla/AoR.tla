-------------------------------- MODULE AoR --------------------------------
(***************************************************************************)
(* All messages on the relay chain (relayer/aor): a gateway <<p, Relay>>   *)
(* carries the headers and all messages of parachain p to the relay chain, *)
(* a gateway <<Relay, d>> the headers of the relay chain and the messages  *)
(* for d to parachain d.                                                   *)
(***************************************************************************)
EXTENDS DirectInv

P2R == {g \in Gateways : g[2] = Relay}
R2P == {g \in Gateways : g[1] = Relay}

ASSUME OverRelay == Gateways = P2R \cup R2P

\* The mains of the two programs.
ToRelayStart(g)   == g \in P2R /\ Start(g)
FromRelayStart(g) == g \in R2P /\ Start(g)

\* deal_txs of gateway_from_para_to_relay sends every message.
SendToRelay(g) == DealCM(g, Para)

\* deal_txs of gateway_from_relay_to_para sends those for its destination.
SendFromRelay(g) == DealCM(g, {g[2]})

\* deal_block of the two gateways.
DealOnRelay(g) == Walk(g) \/ SendToRelay(g)
DealOnDst(g)   == Walk(g) \/ SendFromRelay(g)

ExecuteOnRelay(g) == \E tx \in pendingCM[g] : TakeCM(g, tx) /\ CrossReceiveOnRelay(tx)
ExecuteOnDst(g)   == \E tx \in pendingCM[g] : TakeCM(g, tx) /\ CrossReceiveFromRelay(g[2], tx)

Next ==
  \/ \E g \in P2R, x \in Payload : \E t \in Para \ {g[1]} : UserSend(g[1], t, x)
  \/ \E c \in Chains : SealBlock(c)
  \/ \E g \in Gateways : ToRelayStart(g) \/ FromRelayStart(g) \/ ExecuteHeader(g)
  \/ \E g \in P2R : DealOnRelay(g) \/ ExecuteOnRelay(g)
  \/ \E g \in R2P : DealOnDst(g) \/ ExecuteOnDst(g)

Spec == Init /\ [][Next]_vars

\* As in NoR.
Fairness ==
  /\ \A c \in Chains : WF_vars(openTxs[c] /\ SealBlock(c))
  /\ \A g \in Gateways : WF_vars(Start(g)) /\ WF_vars(ExecuteHeader(g))
  /\ \A g \in P2R : WF_vars(DealOnRelay(g)) /\ WF_vars(ExecuteOnRelay(g))
  /\ \A g \in R2P : WF_vars(DealOnDst(g)) /\ WF_vars(ExecuteOnDst(g))

FairSpec == Spec /\ Fairness

----------------------------------------------------------------------------
(* Properties. *)

\* Every message that a parachain or the relay chain has received was proved to
\* it, although both contracts ignore the result, and what a parachain has
\* received the relay chain had received before.
ReceivedWasProved ==
  /\ \A i \in DOMAIN cmHashesOnRelay : cmHashesOnRelay[i].verified
  /\ \A d \in Para : \A j \in DOMAIN cmsRecordByCount[d] :
       LET e == cmsRecordByCount[d][j]
       IN  /\ e.verified
           /\ \E i \in DOMAIN cmHashesOnRelay :
                /\ cmHashesOnRelay[i].cm = e.cm /\ cmHashesOnRelay[i].index = e.index
                /\ Sealed(Relay, cmHashesOnRelay[i].block)

\* The indices with which chain c has received messages of p.
IndicesOf(received, p) ==
  {received[j].index : j \in {k \in DOMAIN received : received[k].cm.sourceChain = p}}

\* From some moment on every message of a block that a gateway has walked over
\* has gone over its hop.
RelayReceived ==
  \A g \in P2R : \A i \in DOMAIN cms[g[1]] :
    first[g] # 0 /\ cms[g[1]][i].block >= first[g]
    => i - 1 \in IndicesOf(cmHashesOnRelay, g[1])

DstReceived ==
  \A g \in R2P : \A i \in DOMAIN cmHashesOnRelay :
    LET e == cmHashesOnRelay[i]
    IN  e.cm.targetChain = g[2] /\ first[g] # 0 /\ e.block >= first[g]
        => e.index \in IndicesOf(cmsRecordByCount[g[2]], e.cm.sourceChain)

AllDelivered == <>[](RelayReceived /\ DstReceived)
============================================================================
