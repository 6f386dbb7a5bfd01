------------------------------- MODULE ToRInv ------------------------------
(***************************************************************************)
(* The inductive invariant of ToR, and the mapping under which ToR         *)
(* implements CrossChain.  TLC checks both on the instances of MCToR, the  *)
(* module ToRProofs proves them for all values of the constants.           *)
(***************************************************************************)
EXTENDS ToR

Headers == P2R \cup R2P

\* The messages of a block were sent on that chain, and no block beyond the one
\* that is being produced has any.
BlocksAreWellFormed ==
  \A p \in Para, h \in Heights :
    /\ roots[p][h] # NoBCR => h <= OpenBlock(p)
    /\ \A i \in DOMAIN roots[p][h] : roots[p][h][i].sourceChain = p

\* A header gateway that is dealing with a block has read its final BCR.
HeaderGatewaysAreReady ==
  \A g \in Headers :
    /\ pc[g] \in {"idle", "sent", "mined"}
    /\ pc[g] # "idle" => HasBlock(g)
    /\ pc[g] = "sent" /\ g \in P2R => bcr[g] = Leaves(g)

\* A header is stored once, by its gateway, before the gateway moves on.
HeadersAreStoredOnce ==
  \A c, e \in Chains, h \in Heights :
    chainToHeaders[c][e][h] # 0 =>
      /\ <<e, c>> \in Headers
      /\ h < next[<<e, c>>] \/ (h = next[<<e, c>>] /\ pc[<<e, c>>] = "mined")
      /\ chainToHeaders[c][e][h] <= OpenBlock(c)

\* The relay chain holds final roots, stored with their headers.
RelayRootsAreFinal ==
  \A p \in Para, h \in Heights : rootsOnRelay[p][h] # NoBCR =>
    /\ chainToHeaders[Relay][p][h] # 0
    /\ Sealed(p, h)
    /\ rootsOnRelay[p][h] = roots[p][h]

\* What a message gateway knows at each place of deal_txs.
WorkersAreReady ==
  \A g \in P2P :
    /\ pc[g] \in {"idle", "bcr", "proof", "cms"}
    /\ pc[g] # "idle" =>
         /\ HasBlock(g)
         /\ Leaves(g) # NoBCR
         /\ bcr[g] = Leaves(g)
         /\ BCRAt(g[1], next[g], height[Relay]) = Leaves(g)
    /\ pc[g] = "proof" =>
         /\ relayHeight[g] \in 1 .. height[Relay]
         /\ BCRAt(g[1], next[g], relayHeight[g]) = Leaves(g)
    /\ pc[g] = "cms" => sendIdx[g] >= 1

\* The BCR of block h reaches g's destination before nonce n of g's account.
BCRComesBefore(g, h, n) ==
  \/ rootsOnDst[g[2]][g[1]][h] = roots[g[1]][h]
  \/ \E tx \in pendingBCR[g] : tx.height = h /\ tx.nonce < n

\* g has sent message i of block h, or passed it over.
Passed(g, h, i) ==
  h < next[g] \/ (h = next[g] /\ pc[g] = "cms" /\ i < sendIdx[g])

\* A pending BCR is final and proven.
PendingBCRsAreFinal ==
  \A g \in P2P : \A tx \in pendingBCR[g] :
    /\ Sealed(g[1], tx.height)
    /\ tx.bcr = roots[g[1]][tx.height]
    /\ tx.proven = tx.bcr
    /\ HasHeader(g[2], Relay, tx.relayHeight)

\* A pending message is one of its block, for this destination, and the BCR
\* comes before it.
PendingCMsAreGenuine ==
  \A g \in P2P :
    /\ \A tx \in pendingCM[g] :
         /\ Sealed(g[1], tx.height)
         /\ tx.leaves = roots[g[1]][tx.height]
         /\ tx.position \in DOMAIN tx.leaves
         /\ tx.cm = tx.leaves[tx.position]
         /\ tx.cm.targetChain = g[2]
         /\ Passed(g, tx.height, tx.position)
         /\ BCRComesBefore(g, tx.height, tx.nonce)
    /\ pc[g] = "cms" => BCRComesBefore(g, next[g], txNonce[g])

DstRootsAreFinal ==
  \A d, p \in Para, h \in Heights : rootsOnDst[d][p][h] # NoBCR =>
    Sealed(p, h) /\ rootsOnDst[d][p][h] = roots[p][h]

\* Messages are sent in order, received ones before pending ones.
MessagesAreInOrder ==
  /\ \A g \in P2P :
       /\ \A a, b \in pendingCM[g] : a.nonce < b.nonce =>
            Before(a.height, a.position, b.height, b.position)
       /\ \A i \in DOMAIN cmsRecordByCount[g[2]] :
            LET e == cmsRecordByCount[g[2]][i]
            IN  e.cm.sourceChain = g[1] =>
                  /\ Passed(g, e.height, e.position)
                  /\ \A tx \in pendingCM[g] :
                       Before(e.height, e.position, tx.height, tx.position)
  /\ ReceivedInOrder

ReceivedOverRoutes ==
  \A d \in Para : \A i \in DOMAIN cmsRecordByCount[d] :
    <<cmsRecordByCount[d][i].cm.sourceChain, d>> \in Routes

IInv ==
  /\ TypeOK
  /\ BlocksAreWellFormed
  /\ HeaderGatewaysAreReady
  /\ HeadersAreStoredOnce
  /\ RelayRootsAreFinal
  /\ WorkersAreReady
  /\ PendingBCRsAreFinal
  /\ PendingCMsAreGenuine
  /\ DstRootsAreFinal
  /\ NoncesAreContiguous
  /\ MessagesAreInOrder
  /\ ReceivedIsGenuine
  /\ ReceivedOverRoutes

----------------------------------------------------------------------------
(* The messages sent and delivered, as CrossChain sees them. *)

SentHere(p, h) == {[cm |-> roots[p][h][i], height |-> h, position |-> i] :
                     i \in DOMAIN roots[p][h]}
SentMessages == UNION {UNION {SentHere(p, h) : h \in Heights} : p \in Para}

MessageOf(e) == [cm |-> e.cm, height |-> e.height, position |-> e.position]
Delivered == [d \in Para |-> {MessageOf(cmsRecordByCount[d][i]) :
                                i \in DOMAIN cmsRecordByCount[d]}]

CC == INSTANCE CrossChain WITH sentMessages <- SentMessages,
                               delivered <- Delivered

\* Every step of the protocol is a step of CrossChain or leaves what users see
\* as it is: a transaction, a block or a gateway's reading never invents,
\* repeats or overtakes a message.
ImplementsCrossChain == CC!Spec

BF(g) == INSTANCE BlockFeed WITH height <- height[g[1]], next <- next[g]

\* Each gateway deals with the sealed blocks of its source one after the other,
\* whatever it waits for in between: BF(g)!Spec, for all gateways at once.  Module
\* GatewayThreads shows that the threads and the queue of a gateway do the same.
GatewaysFeed ==
  /\ \A g \in Gateways : BF(g)!Init
  /\ [][\A g \in Gateways : BF(g)!Next \/ UNCHANGED BF(g)!vars]_<<height, next>>
============================================================================
