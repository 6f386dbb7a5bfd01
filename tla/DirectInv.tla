------------------------------ MODULE DirectInv ----------------------------
(***************************************************************************)
(* The inductive invariant that NoR and AoR share.  TLC checks it on the   *)
(* instance of MCAoR, the module DirectProofs proves for all values of     *)
(* the constants that the steps of the gateways preserve it.               *)
(***************************************************************************)
EXTENDS DirectGateways

\* A chain that takes messages from the relay chain takes them from nobody
\* else: the gateways of NoR and those of AoR never run together.
ASSUME OneCarrier == \A g, k \in Gateways : g[2] = k[2] /\ g[1] = Relay => k = g

\* Records[c]: the messages that chain c has received.
Records == [c \in Chains |-> IF c = Relay THEN cmHashesOnRelay ELSE cmsRecordByCount[c]]

\* Gateway g may bring messages that were sent on parachain p.
Carries(g, p) == g[1] = Relay \/ g[1] = p

\* m, sent or received, is message j of g's source.
IsMessage(g, m, j) ==
  /\ j \in DOMAIN CMLog(g[1])
  /\ CMLog(g[1])[j].cm = m.cm
  /\ SourceIndex(g[1], j) = m.index

\* g has gone past message j of its source.
PassedOver(g, j) ==
  \/ CMLog(g[1])[j].block < next[g]
  \/ CMLog(g[1])[j].block = next[g] /\ pc[g] = "txs" /\ j \notin todo[g]

----------------------------------------------------------------------------

\* A chain's messages stand in the order of its blocks, and none is in a block
\* beyond the one that is being produced; users send on their own chain.
LogsAreOrdered ==
  \A c \in Chains : \A i \in DOMAIN CMLog(c) :
    /\ CMLog(c)[i].block <= OpenBlock(c)
    /\ c # Relay => CMLog(c)[i].cm.sourceChain = c
    /\ \A j \in DOMAIN CMLog(c) : i < j => CMLog(c)[i].block <= CMLog(c)[j].block

\* A gateway holds a block that can be read.  Once it looks at the block's
\* messages the header is on the destination, and those still to look at are the
\* last ones of the block.
BlocksInHandAreReady ==
  \A g \in Gateways :
    /\ next[g] <= OpenBlock(g[1])
    /\ pc[g] # "idle" => Sealed(g[1], next[g])
    /\ pc[g] = "txs" =>
         /\ HasHeader(g[2], g[1], next[g])
         /\ todo[g] \subseteq IndicesIn(g[1], next[g])
         /\ \A i \in todo[g] : \A j \in IndicesIn(g[1], next[g]) : i < j => j \in todo[g]

\* A header is stored once, by its own gateway, before the gateway moves on: what
\* HasHeader has answered stays true.
HeadersAreStoredOnce ==
  /\ \A g \in Gateways :
       /\ pendingHeader[g] # {} => pc[g] = "header"
       /\ \A h \in pendingHeader[g] : h = next[g] /\ chainToHeaders[g[2]][g[1]][h] = 0
  /\ \A c, e \in Chains, h \in Heights : chainToHeaders[c][e][h] # 0 =>
       /\ <<e, c>> \in Gateways
       /\ h < next[<<e, c>>] \/ (h = next[<<e, c>>] /\ pc[<<e, c>>] # "idle")
       /\ chainToHeaders[c][e][h] <= OpenBlock(c)

\* A pending message is one of its block, was passed, and is for the destination.
PendingAreGenuine ==
  \A g \in Gateways : \A tx \in pendingCM[g] :
    /\ \E j \in DOMAIN CMLog(g[1]) :
         IsMessage(g, tx, j) /\ CMLog(g[1])[j].block = tx.height /\ PassedOver(g, j)
    /\ g[2] # Relay => tx.cm.targetChain = g[2]

\* A received message was brought by a gateway that has passed it.
RecordsAreGenuine ==
  \A c \in Chains : \A i \in DOMAIN Records[c] :
    LET e == Records[c][i]
    IN  /\ e.verified
        /\ \E g \in Gateways :
             /\ g[2] = c /\ Carries(g, e.cm.sourceChain)
             /\ \E j \in DOMAIN CMLog(g[1]) : IsMessage(g, e, j) /\ PassedOver(g, j)
        /\ c # Relay => e.cm.targetChain = c

\* A gateway's account neither skips nor reuses a nonce.
NoncesAreContiguous ==
  \A g \in Gateways :
    /\ txCount[g] <= txNonce[g]
    /\ \A tx \in pendingCM[g] : txCount[g] <= tx.nonce /\ tx.nonce < txNonce[g]
    /\ \A a, b \in pendingCM[g] : a.nonce = b.nonce => a = b

\* The messages of a source are pending in the order in which they were sent,
\* after those that were received, which are in that order as well.
MessagesAreInOrder ==
  /\ \A g \in Gateways : \A b \in pendingCM[g] :
       /\ \A a \in pendingCM[g] :
            a.cm.sourceChain = b.cm.sourceChain /\ a.nonce < b.nonce => a.index < b.index
       /\ \A i \in DOMAIN Records[g[2]] :
            Records[g[2]][i].cm.sourceChain = b.cm.sourceChain
              => Records[g[2]][i].index < b.index
  /\ \A c \in Chains : \A i, j \in DOMAIN Records[c] :
       i < j /\ Records[c][i].cm.sourceChain = Records[c][j].cm.sourceChain
         => Records[c][i].index < Records[c][j].index

IInv ==
  /\ TypeOK
  /\ LogsAreOrdered
  /\ BlocksInHandAreReady
  /\ HeadersAreStoredOnce
  /\ PendingAreGenuine
  /\ MessagesAreProvable
  /\ RecordsAreGenuine
  /\ NoncesAreContiguous
  /\ MessagesAreInOrder

----------------------------------------------------------------------------
(* The messages sent and delivered, as CrossChain sees them. *)

SentMessages == UNION {{[cm |-> cms[p][i].cm, height |-> cms[p][i].block, position |-> i] :
                          i \in DOMAIN cms[p]} : p \in Para}

\* The place in cms of a message that was received or waits for execution.
Place(e) == e.index + 1

MessageOf(e) == [cm |-> e.cm, height |-> cms[e.cm.sourceChain][Place(e)].block,
                 position |-> Place(e)]
Delivered == [d \in Para |-> {MessageOf(cmsRecordByCount[d][i]) :
                                i \in DOMAIN cmsRecordByCount[d]}]

CC == INSTANCE CrossChain WITH sentMessages <- SentMessages,
                               delivered <- Delivered

\* NoR, where a received message is the next one of its gateway's account, and
\* AoR, over two hops with their own accounts, headers and proofs, deliver only
\* what was sent, to whom it was sent, at most once and in order.
ImplementsCrossChain == CC!Spec
============================================================================
