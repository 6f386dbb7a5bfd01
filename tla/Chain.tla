------------------------------- MODULE Chain -------------------------------
(***************************************************************************)
(* The blockchains under the protocol: one relay chain (id 0) and the      *)
(* parachains.  They are geth proof-of-authority networks, which are not   *)
(* part of the repository: this module models what its code relies on.     *)
(* A transaction executes in the block that is being produced (block.number*)
(* is that block's number) and its effects can be read through the RPC     *)
(* interface (eth_call, eth_getProof, receipts) once the block is sealed.  *)
(* Blocks are final: the code asks for no confirmations, and a network     *)
(* with one signer does not fork.                                          *)
(***************************************************************************)
EXTENDS Naturals

CONSTANTS
  Para,        \* ids of the parachains
  MaxHeight,   \* bound: last block number of any chain
  MaxIdle      \* bound: MaxIdle[c] empty blocks chain c may seal

ASSUME ParaAssumption   == Para \subseteq Nat \ {0}
ASSUME HeightAssumption == MaxHeight \in Nat \ {0}

Relay   == 0
Chains  == Para \cup {Relay}
Heights == 1 .. MaxHeight

ASSUME IdleAssumption   == MaxIdle \in [Chains -> Nat]

VARIABLES
  height,   \* height[c]: number of the last sealed block of c
  openTxs,  \* openTxs[c]: the block being produced holds a transaction
  idle      \* idle[c]: empty blocks sealed so far (only for the bound)

chainVars == <<height, openTxs, idle>>

ChainTypeOK ==
  /\ height  \in [Chains -> Heights]
  /\ openTxs \in [Chains -> BOOLEAN]
  /\ idle    \in [Chains -> Nat]

ChainInit ==
  /\ height  = [c \in Chains |-> 1]
  /\ openTxs = [c \in Chains |-> FALSE]
  /\ idle    = [c \in Chains |-> 0]

\* The block in which a transaction of chain c executes now.
OpenBlock(c) == height[c] + 1

\* Block h of chain c can be read.
Sealed(c, h) == h \in 1 .. height[c]

\* A transaction executes on chain c: the rest of the action says what it does.
Mine(c) ==
  /\ height[c] < MaxHeight
  /\ openTxs' = [openTxs EXCEPT ![c] = TRUE]
  /\ UNCHANGED <<height, idle>>

\* A signer seals the block of c: every period, also when it is empty.
Seal(c) ==
  /\ height[c] < MaxHeight
  /\ openTxs[c] \/ idle[c] < MaxIdle[c]
  /\ height'  = [height EXCEPT ![c] = @ + 1]
  /\ openTxs' = [openTxs EXCEPT ![c] = FALSE]
  /\ idle'    = IF openTxs[c] THEN idle ELSE [idle EXCEPT ![c] = @ + 1]
============================================================================
