--------------------------- MODULE DirectGateways --------------------------
(***************************************************************************)
(* What the gateways of relayer/nor and relayer/aor have in common.  A     *)
(* gateway <<e, c>> deals with the blocks of chain e one after the other:  *)
(* it sends the header to chain c from one account and waits for the       *)
(* receipt, then sends the block's messages from another account, whose    *)
(* nonces it counts itself, and waits for none of them.                    *)
(***************************************************************************)
EXTENDS DirectSpv

CONSTANTS
  Gateways,  \* the gateways that run: pairs of chains
  MaxMsgs    \* bound: messages the users send

ASSUME GatewaysAssumption == Gateways \subseteq {g \in Chains \X Chains : g[1] # g[2]}
ASSUME MsgsAssumption     == MaxMsgs \in Nat

VARIABLES
  sent,          \* number of messages sent by users (only for the bound)
  first,         \* first[g]: g's first block, 0 before it starts (history)
  next,          \* next[g]: the block g deals with next, 0 before it starts
  pc,            \* pc[g]: what g does for that block
  todo,          \* todo[g]: indices of the block's messages not looked at yet
  txNonce,       \* txNonce[g]: the gateway's own count, tx_nonce
  txCount,       \* txCount[g]: chain c's count for the message account
  pendingHeader, \* pendingHeader[g]: headers sent and not executed
  pendingCM      \* pendingCM[g]: messages sent and not executed

walkVars    == <<first, next, pc, todo>>
accountVars == <<txNonce, txCount, pendingHeader, pendingCM>>
gatewayVars == <<walkVars, accountVars>>
vars        == <<chainVars, contractVars, sent, gatewayVars>>

CMTx == [nonce : Nat, cm : CM, index : Nat, height : Heights,
         proven : SUBSET CM]

TypeOK ==
  /\ ChainTypeOK
  /\ ContractTypeOK
  /\ sent          \in 0 .. MaxMsgs
  /\ first         \in [Gateways -> Heights \cup {0}]
  /\ next          \in [Gateways -> Nat]
  /\ pc            \in [Gateways -> {"idle", "header", "txs"}]
  /\ todo          \in [Gateways -> SUBSET Nat]
  /\ txNonce       \in [Gateways -> Nat]
  /\ txCount       \in [Gateways -> Nat]
  /\ pendingHeader \in [Gateways -> SUBSET Heights]
  /\ pendingCM     \in [Gateways -> SUBSET CMTx]

Init ==
  /\ ChainInit
  /\ ContractInit
  /\ sent          = 0
  /\ first         = [g \in Gateways |-> 0]
  /\ next          = [g \in Gateways |-> 0]
  /\ pc            = [g \in Gateways |-> "idle"]
  /\ todo          = [g \in Gateways |-> {}]
  /\ txNonce       = [g \in Gateways |-> 0]
  /\ txCount       = [g \in Gateways |-> 0]
  /\ pendingHeader = [g \in Gateways |-> {}]
  /\ pendingCM     = [g \in Gateways |-> {}]

----------------------------------------------------------------------------
(* The environment. *)

\* A user of p sends a message to t.
UserSend(p, t, x) ==
  /\ sent < MaxMsgs
  /\ sent' = sent + 1
  /\ CrossSend(p, [sourceChain |-> p, targetChain |-> t, payload |-> x])
  /\ UNCHANGED gatewayVars

SealBlock(c) ==
  /\ Seal(c)
  /\ UNCHANGED <<contractVars, sent, gatewayVars>>

----------------------------------------------------------------------------
(* The walk over the blocks. *)

\* The process starts and walks from what is now the last block of its source.
Start(g) ==
  /\ next[g] = 0
  /\ next'  = [next EXCEPT ![g] = height[g[1]]]
  /\ first' = [first EXCEPT ![g] = height[g[1]]]
  /\ UNCHANGED <<chainVars, contractVars, sent, pc, todo, accountVars>>

\* send_header: the header of the block is sent.
SendHeader(g) ==
  /\ pc[g] = "idle"
  /\ next[g] # 0 /\ Sealed(g[1], next[g])
  /\ pendingHeader' = [pendingHeader EXCEPT ![g] = @ \cup {next[g]}]
  /\ pc' = [pc EXCEPT ![g] = "header"]
  /\ UNCHANGED <<chainVars, contractVars, sent, first, next, todo, txNonce,
                 txCount, pendingCM>>

ExecuteHeader(g) ==
  /\ \E h \in pendingHeader[g] :
       /\ SubmitHeader(g[2], g[1], h)
       /\ pendingHeader' = [pendingHeader EXCEPT ![g] = @ \ {h}]
  /\ UNCHANGED <<sent, walkVars, txNonce, txCount, pendingCM>>

\* Variant: the header is sent with wait=False.
HeaderUnawaited(g) ==
  /\ pc[g] = "header"
  /\ todo' = [todo EXCEPT ![g] = IndicesIn(g[1], next[g])]
  /\ pc'   = [pc EXCEPT ![g] = "txs"]
  /\ UNCHANGED <<chainVars, contractVars, sent, first, next, accountVars>>

\* The receipt has come: the block the header is in is sealed.  deal_txs goes
\* through the transactions of the block.
HeaderReceipt(g) ==
  /\ pc[g] = "header"
  /\ HasHeader(g[2], g[1], next[g])
  /\ todo' = [todo EXCEPT ![g] = IndicesIn(g[1], next[g])]
  /\ pc'   = [pc EXCEPT ![g] = "txs"]
  /\ UNCHANGED <<chainVars, contractVars, sent, first, next, accountVars>>

\* One message of the block after the other: it is sent if it is for one of the
\* targets, with the proof of its slot in the state of the block.
DealCM(g, targets) ==
  /\ pc[g] = "txs"
  /\ \E i \in todo[g] :
       /\ \A j \in todo[g] : i <= j
       /\ todo' = [todo EXCEPT ![g] = @ \ {i}]
       /\ IF CMLog(g[1])[i].cm.targetChain \in targets
          THEN /\ pendingCM' = [pendingCM EXCEPT ![g] = @ \cup
                    {[nonce |-> txNonce[g], cm |-> CMLog(g[1])[i].cm,
                      index |-> SourceIndex(g[1], i), height |-> next[g],
                      proven |-> ProofAt(g[1], i, next[g])]}]
               /\ txNonce' = [txNonce EXCEPT ![g] = @ + 1]
          ELSE UNCHANGED <<pendingCM, txNonce>>
  /\ UNCHANGED <<chainVars, contractVars, sent, first, next, pc, txCount,
                 pendingHeader>>

\* Variant: the gateway deals with the same block again.
RepeatBlock(g) ==
  /\ pc[g] = "txs" /\ todo[g] = {}
  /\ pc'   = [pc EXCEPT ![g] = "idle"]
  /\ UNCHANGED <<chainVars, contractVars, sent, first, next, todo, accountVars>>

\* Variant: the gateway goes on with what is now the last block of its source.
FinishThenLatest(g) ==
  /\ pc[g] = "txs" /\ todo[g] = {}
  /\ next' = [next EXCEPT ![g] = IF height[g[1]] > @ THEN height[g[1]] ELSE @ + 1]
  /\ pc'   = [pc EXCEPT ![g] = "idle"]
  /\ UNCHANGED <<chainVars, contractVars, sent, first, todo, accountVars>>

\* The block is dealt with.
FinishBlock(g) ==
  /\ pc[g] = "txs" /\ todo[g] = {}
  /\ next' = [next EXCEPT ![g] = @ + 1]
  /\ pc'   = [pc EXCEPT ![g] = "idle"]
  /\ UNCHANGED <<chainVars, contractVars, sent, first, todo, accountVars>>

\* The destination takes the message transaction whose nonce is next; what the
\* contract does with it is up to NoR and AoR.
TakeCM(g, tx) ==
  /\ tx.nonce = txCount[g]
  /\ pendingCM' = [pendingCM EXCEPT ![g] = @ \ {tx}]
  /\ txCount'   = [txCount EXCEPT ![g] = @ + 1]
  /\ UNCHANGED <<sent, walkVars, txNonce, pendingHeader>>

\* What every gateway does, whatever it does with messages.
Walk(g) == SendHeader(g) \/ HeaderReceipt(g) \/ FinishBlock(g)

----------------------------------------------------------------------------
(* Properties. *)

\* Whatever waits for execution can be proved on its chain: the header is there
\* and the slot held the message in that block.  Headers and messages are sent
\* from two accounts, so no nonce orders them, and the contract consults no
\* result: without the header the transaction reverts and the message is lost.
MessagesAreProvable ==
  \A g \in Gateways : \A tx \in pendingCM[g] :
    /\ HasHeader(g[2], g[1], tx.height)
    /\ tx.cm \in tx.proven
============================================================================
