----------------------------- MODULE ChainTools -----------------------------
(***************************************************************************)
(* deploy_nodes/deploy/scripttools and the scripts that use them, on the   *)
(* machine of the operator: 4_0_start_parallel_chain.py,                   *)
(* stop_remote_geth.py and 4_1_create_default_parallel_account.py.  A      *)
(* script changes its own copy of a chain's config, and writes it back     *)
(* when the chain mines.  A chain is                                       *)
(*   [name, type, gen, contract, nodes],  a node                           *)
(*   [host, rpcport, signer, default],                                     *)
(* where gen is the genesis block (0: none yet), a signer the genesis      *)
(* block it was made for, default the genesis block of the chain that      *)
(* holds the default account, and rpcport 0 stands for a missing key.      *)
(***************************************************************************)
EXTENDS ConfigServer, Hosts

VARIABLES
  script,  \* the script that runs
  gens     \* number of genesis blocks made so far

NoScript == [kind |-> "none"]

Begin(kind, cfg, reset, chains, threads) ==
  script' = [kind |-> kind, cfg |-> cfg, reset |-> reset, chains |-> chains,
             st |-> "chain", i |-> 1, j |-> 1, skipped |-> FALSE, failed |-> {},
             thr |-> threads]

End == script' = NoScript

Chain == script.chains[script.i]
Node  == Chain.nodes[script.j]

NodeTag(chain, j) == <<chain.name, chain.type, j>>
BootTag(chain)    == <<chain.name, chain.type, 0>>

\* The accounts a node may have in its keystore.
GenesisAccount(gen)   == <<gen, 0>>
SignerAccount(gen, j) == <<gen, j>>

At(st) == script.kind = "start" /\ script.st = st
Tool(type, st) == At(st) /\ Chain.type = type

Goto(st) == script' = [script EXCEPT !.st = st, !.j = 1]

----------------------------------------------------------------------------
(* 4_0_start_parallel_chain.py *)

\* A chain whose first node has an rpcport is taken to run, unless --reset.
SkipChain ==
  /\ At("chain") /\ script.i <= Len(script.chains)
  /\ ~script.reset /\ Chain.nodes[1].rpcport # 0
  /\ script' = [script EXCEPT !.i = @ + 1, !.skipped = TRUE]
  /\ UNCHANGED <<config_db, hostVars, gens>>

TakeChain ==
  /\ At("chain") /\ script.i <= Len(script.chains)
  /\ script.reset \/ Chain.nodes[1].rpcport = 0
  /\ Goto("prestart")
  /\ UNCHANGED <<config_db, hostVars, gens>>

\* The chain's copy is written back; or the server crashes in the save, and the
\* client raises.
SaveChain ==
  /\ At("save")
  /\ \/ /\ AddItem(script.cfg, script.i, Chain)
        /\ script' = [script EXCEPT !.st = "chain", !.i = @ + 1, !.j = 1]
     \/ CrashInSave(script.cfg) /\ End
  /\ UNCHANGED <<hostVars, gens>>

----------------------------------------------------------------------------
(* pre_start of the tools.  The bootnode of a chain runs on its first host.   *)

RemotePreStart ==
  /\ LET h == Chain.nodes[1].host
     IN  \/ StartChainPre(Chain.type, h, BootTag(Chain)) /\ Goto("accounts")
         \/ StartFails(h, BootTag(Chain)) /\ End
  /\ UNCHANGED <<config_db, gens>>

EthPoaPreStart == Tool("eth-poa", "prestart") /\ RemotePreStart
EthPowPreStart == Tool("eth-pow", "prestart") /\ RemotePreStart

\* The remote script raises for this type.
EthHitPreStart ==
  Tool("eth-hit", "prestart") /\ End /\ UNCHANGED <<config_db, hostVars, gens>>

\* Four values are unpacked into five variables.
BuPreStart ==
  Tool("bu", "prestart") /\ End /\ UNCHANGED <<config_db, hostVars, gens>>

----------------------------------------------------------------------------
(* start_chain of the tools: fresh accounts and a genesis block, a geth per   *)
(* node, and a look whether the last one on every host answers.               *)

EthPoaAccounts ==
  /\ Tool("eth-poa", "accounts")
  /\ gens' = gens + 1
  /\ script' = [script EXCEPT !.st = "node", !.chains[script.i].gen = gens + 1,
                  !.chains[script.i].nodes =
                    [j \in DOMAIN @ |-> [@[j] EXCEPT !.signer = gens + 1]]]
  /\ UNCHANGED <<config_db, hostVars>>

EthPowAccounts ==
  /\ Tool("eth-pow", "accounts")
  /\ gens' = gens + 1
  /\ script' = [script EXCEPT !.st = "node", !.chains[script.i].gen = gens + 1]
  /\ UNCHANGED <<config_db, hostVars>>

RemoteStart(keys) ==
  /\ \/ /\ StartChain(Chain.type, Node.host, NodeTag(Chain, script.j), Chain.gen, keys)
        /\ LET new == CHOOSE p \in procs' :
                        p.host = Node.host /\ p.pid = pidfile'[Node.host][NodeTag(Chain, script.j)]
           IN  script' = [script EXCEPT
                  !.chains[script.i].nodes[script.j].rpcport = new.rpc,
                  !.st = IF script.j = Len(Chain.nodes) THEN "check" ELSE "node",
                  !.j = IF script.j = Len(Chain.nodes) THEN 1 ELSE @ + 1]
     \/ StartFails(Node.host, NodeTag(Chain, script.j)) /\ End
  /\ UNCHANGED <<config_db, gens>>

\* A node gets its own signer's key, the first node the genesis account's too.
EthPoaStartNode ==
  /\ Tool("eth-poa", "node")
  /\ RemoteStart({SignerAccount(Chain.gen, script.j)}
                   \cup (IF script.j = 1 THEN {GenesisAccount(Chain.gen)} ELSE {}))

EthPowStartNode ==
  /\ Tool("eth-pow", "node")
  /\ RemoteStart({GenesisAccount(Chain.gen)})

\* The ports to look at are kept per host: the last node's remains.
Connected ==
  \A j \in DOMAIN Chain.nodes :
    \/ \E k \in DOMAIN Chain.nodes : k > j /\ Chain.nodes[k].host = Chain.nodes[j].host
    \/ Answers(Chain.nodes[j].host, Chain.nodes[j].rpcport) # {}

CheckConnected ==
  /\ Connected /\ Goto("mine")
  /\ UNCHANGED <<config_db, hostVars, gens>>

\* Variant: no limit to the tries.
KeepsTrying == ~Connected /\ UNCHANGED <<config_db, hostVars, script, gens>>

\* After fifteen tries.
NotConnected == ~Connected /\ End /\ UNCHANGED <<config_db, hostVars, gens>>

EthPoaCheck == Tool("eth-poa", "check") /\ (CheckConnected \/ NotConnected)
EthPowCheck == Tool("eth-pow", "check") /\ (CheckConnected \/ NotConnected)

----------------------------------------------------------------------------
(* start_mining of the tools. *)

NodeMines ==
  /\ Mine(Node.host, Node.rpcport)
  /\ IF script.j = Len(Chain.nodes) THEN Goto("save")
     ELSE script' = [script EXCEPT !.j = @ + 1]
  /\ UNCHANGED <<config_db, gens>>

MiningFails == End /\ UNCHANGED <<config_db, hostVars, gens>>

\* Variant: whatever geth answers is told to mine.
EthPoaMiningAny ==
  /\ Tool("eth-poa", "mine")
  /\ IF Answers(Node.host, Node.rpcport) # {} THEN NodeMines ELSE MiningFails

\* The geth that answers must have the node's own signer, to unlock it.
EthPoaStartMining ==
  /\ Tool("eth-poa", "mine")
  /\ IF \E p \in Answers(Node.host, Node.rpcport) :
          SignerAccount(Node.signer, script.j) \in p.keys
     THEN NodeMines ELSE MiningFails

\* Any geth that answers has a first account to unlock.
EthPowStartMining ==
  /\ Tool("eth-pow", "mine")
  /\ IF Answers(Node.host, Node.rpcport) # {} THEN NodeMines ELSE MiningFails

----------------------------------------------------------------------------
(* stop_remote_geth.py: what runs with a recorded port is told to end, whoever *)
(* started it; the config is left as it is.                                    *)

\* The script goes on with the next node.
NodeIsDone(failed) ==
  script' = [script EXCEPT
    !.failed = failed,
    !.i = IF script.j = Len(Chain.nodes) THEN @ + 1 ELSE @,
    !.j = IF script.j = Len(Chain.nodes) THEN 1 ELSE @ + 1]

\* Variant: one node of every chain.
StopFirstNode ==
  /\ script.kind = "stop" /\ script.i <= Len(script.chains)
  /\ Node.rpcport # 0
  /\ PKill(Node.host, Node.rpcport)
  /\ script' = [script EXCEPT !.i = @ + 1]
  /\ UNCHANGED <<config_db, gens>>

\* A pkill that fails, before or after it has done its work, is printed, and the
\* script goes on.
StopNode ==
  /\ script.kind = "stop" /\ script.i <= Len(script.chains)
  /\ Node.rpcport # 0
  /\ \/ PKill(Node.host, Node.rpcport) /\ NodeIsDone(script.failed)
     \/ /\ PKill(Node.host, Node.rpcport) \/ UNCHANGED hostVars
        /\ NodeIsDone(script.failed \cup {<<script.i, script.j>>})
  /\ UNCHANGED <<config_db, gens>>

\* A node without rpcport ends the script, and so does a host that refuses the
\* connection.
StopFails ==
  /\ script.kind = "stop" /\ script.i <= Len(script.chains)
  /\ End
  /\ UNCHANGED <<config_db, hostVars, gens>>

----------------------------------------------------------------------------
(* 4_1_create_default_parallel_account.py: a thread for every chain, which    *)
(* creates an account per node and sends it money from the first one.         *)

\* create_default_account of the pow tool, for the next node; only its thread
\* ends when something fails.  The transfer needs a miner.
EthPowDefaultAccount(i) ==
  LET chain == script.chains[i]
      j     == script.thr[i].node
      geths == Answers(chain.nodes[j].host, chain.nodes[j].rpcport)
  IN  /\ script.kind = "accounts" /\ chain.type = "eth-pow"
      /\ script.thr[i].st = "work"
      /\ \/ /\ \E p \in geths :
                 /\ p.mining
                 /\ script' = [script EXCEPT
                      !.chains[i].nodes[j].default = p.gen,
                      !.thr[i] = IF j = Len(chain.nodes) THEN [@ EXCEPT !.st = "done"]
                                 ELSE [@ EXCEPT !.node = j + 1]]
         \/ /\ \A p \in geths : ~p.mining
            /\ script' = [script EXCEPT !.thr[i].st = "dead"]
      /\ UNCHANGED <<config_db, hostVars, gens>>

\* The poa tool has no such method; the nodes of the other types have no rpcport.
NoDefaultAccount(i) ==
  /\ script.kind = "accounts" /\ script.chains[i].type # "eth-pow"
  /\ script.thr[i].st = "work"
  /\ script' = [script EXCEPT !.thr[i].st = "dead"]
  /\ UNCHANGED <<config_db, hostVars, gens>>

Joined == \A i \in DOMAIN script.thr : script.thr[i].st # "work"

\* The configs of the chains whose thread has come to its end are written back, in
\* the order of their ends.
SaveAccounts(i) ==
  /\ script.kind = "accounts" /\ Joined /\ script.thr[i].st = "done"
  /\ \/ /\ AddItem(script.cfg, i, script.chains[i])
        /\ script' = [script EXCEPT !.thr[i].st = "saved"]
     \/ CrashInSave(script.cfg) /\ End
  /\ UNCHANGED <<hostVars, gens>>
=============================================================================
