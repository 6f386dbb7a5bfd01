----------------------------- MODULE Deployment -----------------------------
(***************************************************************************)
(* The operator's work with the scripts of deploy_nodes, contracts and     *)
(* relayer/*/generate_configs.py: one script at a time, each of which may  *)
(* be interrupted between two of its steps (by the operator, or by an      *)
(* exception of a call that the modules below do not show).  The processes *)
(* it has started go on.                                                   *)
(***************************************************************************)
EXTENDS ContractDeploy

CONSTANTS
  Servers,      \* the hosts of the config server.json, in order
  ParaNum,      \* --paranum
  InitConfigs,  \* what init_config/parallel_chain.json may hold
  NewChains,    \* the chains the operator may add to it
  MaxScripts,   \* bound: scripts run and configs edited
  MaxChanges    \* bound: those of them that change chains or configs

VARIABLES
  scripts,     \* number of them so far
  changes,     \* number of those that change chains or configs
  fresh,       \* <<work, config>>: what the last scripts have done, all of it
  unstopped,   \* <<chain, node>>s whose failure the stop that is fresh has printed
  interrupted  \* the kind of the script that was interrupted; bound: one is

vars ==
  <<config_db, hostVars, script, gens, DeployVars, scripts, changes, fresh, unstopped,
    interrupted>>

Nothing == <<"none", "none">>

\* generate_configs.py: a chain of type eth-poa with one node.
PoaChain(name, server) ==
  [name |-> name, type |-> "eth-poa", gen |-> 0, contract |-> NoContract,
   nodes |-> <<[host |-> Servers[(server % Len(Servers)) + 1], rpcport |-> 0,
                signer |-> 0, default |-> 0]>>]

\* The relay chain, then parallel chains 1 .. paranum.
TorConfigs(paranum) ==
  <<PoaChain(<<"relay", 0>>, 0)>>
    \o [i \in 1 .. paranum |-> PoaChain(<<"parallel", i>>, i - 1)]

AorConfigs(paranum) == TorConfigs(paranum)

\* Parallel chain 0, which stays unused, and parallel chains 1 .. paranum.
NorConfigs(paranum) ==
  [i \in 1 .. paranum + 1 |-> PoaChain(<<"parallel", i - 1>>, i - 1)]

Generated(n) == CASE n = "tor" -> TorConfigs(ParaNum)
                  [] n = "aor" -> AorConfigs(ParaNum)
                  [] n = "nor" -> NorConfigs(ParaNum)

\* What a config holds: chains with names of their own, a remote script for a tag of
\* each of their nodes if there is one for their type.
Nodes  == [host : HostNames, rpcport : Nat, signer : Nat, default : Nat]
Chains == [name : {"relay", "parallel"} \X Nat,
           type : {"eth-poa", "eth-pow", "eth-hit", "bu"},
           gen : Nat, contract : [gen : Nat, src : Nat], nodes : Seq(Nodes) \ {<<>>}]

HasTags(chain) ==
  chain.type \in {"eth-poa", "eth-pow"} =>
    /\ BootTag(chain) \in BootTags
    /\ \A j \in DOMAIN chain.nodes : NodeTag(chain, j) \in NodeTags

Configs ==
  {chains \in Seq(Chains) :
     /\ \A i \in DOMAIN chains : HasTags(chains[i])
     /\ \A i, k \in DOMAIN chains : chains[i].name = chains[k].name => i = k}

ASSUME BoundsAssumption  == MaxSource \in Nat \ {0} /\ ParaNum \in Nat
ASSUME ServersAssumption == Servers \in Seq(HostNames) \ {<<>>}
ASSUME ConfigsAssumption ==
  /\ ConfigNames \subseteq {"parallel_chain", "tor", "aor", "nor"}
  /\ "parallel_chain" \in ConfigNames
  /\ InitConfigs \subseteq Configs
  /\ \A chain \in NewChains : chain \in Chains /\ HasTags(chain)
  /\ \A n \in ConfigNames \ {"parallel_chain"} :
       \A i \in DOMAIN Generated(n) : HasTags(Generated(n)[i])

----------------------------------------------------------------------------
(* The operator. *)

InitialFiles(chains) ==
  [n \in ConfigNames |-> IF n = "parallel_chain" THEN File(chains) ELSE Absent]

Work ==
  /\ script = NoScript /\ scripts < MaxScripts
  /\ scripts' = scripts + 1

Change == Work /\ changes < MaxChanges /\ changes' = changes + 1

Forget == fresh' = Nothing /\ unstopped' = {}

\* 0_initialize_config.py: every file of config_db is removed, and those of
\* init_config are copied there.
Initialize ==
  /\ Change /\ Forget
  /\ \E chains \in InitConfigs : config_db' = InitialFiles(chains)
  /\ UNCHANGED <<hostVars, script, gens, DeployVars, interrupted>>

Generate(n) ==
  /\ script = NoScript /\ n # "parallel_chain"
  /\ Create(n, Generated(n))
  /\ UNCHANGED <<hostVars, script, gens, DeployVars, scripts, changes, fresh, unstopped,
                 interrupted>>

RunScript(kind, n, reset) ==
  /\ CanLoad(n)
  /\ IF kind = "deploy" THEN Work /\ UNCHANGED changes ELSE Change
  /\ Begin(kind, n, reset, Load(n),
           IF kind \in {"deploy", "accounts"}
             THEN [i \in DOMAIN Load(n) |-> Thread("work")] ELSE <<>>)
  /\ fresh' = CASE kind = "deploy" /\ fresh[1] # "stopped" -> fresh
                [] kind = "stop" /\ fresh \in {<<"started", n>>, <<"deployed", n>>} ->
                     <<"stopping", n>>
                [] OTHER -> Nothing
  /\ unstopped' = {}
  /\ UNCHANGED <<config_db, hostVars, gens, DeployVars, interrupted>>

StartScript(n)  == \E reset \in BOOLEAN : RunScript("start", n, reset)
StopScript(n)   == RunScript("stop", n, FALSE)
DeployScript(n) == RunScript("deploy", n, FALSE)
AccountsScript  == RunScript("accounts", "parallel_chain", FALSE)

\* The operator changes the list of chains through the server, and gives no two
\* chains one name.
EditConfig ==
  /\ Change /\ Forget
  /\ \/ RemoveItem("parallel_chain", 1)
     \/ \E chain \in NewChains :
          /\ \A i \in DOMAIN Load("parallel_chain") :
               Load("parallel_chain")[i].name # chain.name
          /\ \/ AppendItem("parallel_chain", chain)
             \/ UpdateItem("parallel_chain", 1, chain)
  /\ UNCHANGED <<hostVars, script, gens, DeployVars, interrupted>>

\* Bound: a script may follow the edit, and a source is in the cache; without one,
\* every deploy compiles whatever the source is.
EditSource ==
  /\ script = NoScript /\ scripts < MaxScripts /\ cache.src \in 1 .. MaxSource
  /\ Forget
  /\ source' \in 1 .. MaxSource \ {source}
  /\ UNCHANGED <<config_db, hostVars, script, gens, cache, scripts, changes, interrupted>>

----------------------------------------------------------------------------
(* The end of a script. *)

\* The last chain is done.
Through ==
  IF script.kind = "accounts"
    THEN \A i \in DOMAIN script.thr : script.thr[i].st \in {"dead", "saved"}
    ELSE script.i > Len(script.chains)

\* A deploy that follows a start leaves contracts.
Finish ==
  /\ script # NoScript /\ Through /\ End
  /\ fresh' = CASE script.kind = "start" /\ ~script.skipped -> <<"started", script.cfg>>
                [] /\ script.kind = "deploy" /\ fresh[2] = script.cfg
                   /\ \A i \in DOMAIN script.thr : script.thr[i].st = "done"
                   -> <<"deployed", script.cfg>>
                [] fresh[1] = "stopping" -> <<"stopped", script.cfg>>
                [] OTHER -> Nothing
  /\ unstopped' = script.failed
  /\ UNCHANGED <<config_db, hostVars, gens, DeployVars, scripts, changes, interrupted>>

Interrupt ==
  /\ script # NoScript /\ interrupted = "none" /\ End
  /\ interrupted' = script.kind /\ Forget
  /\ UNCHANGED <<config_db, hostVars, gens, DeployVars, scripts, changes>>

\* What a script's own step means for the rest: one that ends it is a failure.
Inside ==
  /\ fresh' = IF script' = NoScript THEN Nothing ELSE fresh
  /\ UNCHANGED <<scripts, changes, unstopped, interrupted>>

StartStep ==
  \/ SkipChain \/ TakeChain \/ SaveChain
  \/ EthPoaPreStart \/ EthPowPreStart \/ EthHitPreStart \/ BuPreStart
  \/ EthPoaAccounts \/ EthPowAccounts
  \/ EthPoaStartNode \/ EthPowStartNode
  \/ EthPoaCheck \/ EthPowCheck
  \/ EthPoaStartMining \/ EthPowStartMining

StopStep == StopNode \/ StopFails

AccountsStep ==
  /\ script.kind = "accounts"
  /\ \E i \in DOMAIN script.thr :
       EthPowDefaultAccount(i) \/ NoDefaultAccount(i) \/ SaveAccounts(i)

DeployStep ==
  \/ /\ script.kind = "deploy"
     /\ \E i \in DOMAIN script.thr :
          \/ Lookup(i) \/ LoadCached(i) \/ Compile(i)
          \/ SaveResult(i) \/ OpenSource(i) \/ SaveSource(i) \/ Deploy(i)
  \/ SaveContracts

ScriptStep ==
  \/ Finish
  \/ /\ script # NoScript
     /\ \/ (StartStep \/ StopStep \/ AccountsStep) /\ UNCHANGED DeployVars
        \/ DeployStep
     /\ Inside

ProcessStep ==
  /\ \E p \in procs : Bind(p) \/ BindFails(p) \/ Exit(p)
  /\ UNCHANGED <<config_db, script, gens, DeployVars, scripts, changes, fresh, unstopped,
                 interrupted>>

Operator ==
  \/ Initialize \/ AccountsScript \/ EditConfig \/ EditSource
  \/ \E n \in ConfigNames :
       Generate(n) \/ StartScript(n) \/ StopScript(n) \/ DeployScript(n)

Init ==
  /\ \E chains \in InitConfigs : config_db = InitialFiles(chains)
  /\ HostsInit
  /\ script = NoScript /\ gens = 0
  /\ source = 1 /\ cache = [src |-> NoFile, res |-> NoFile]
  /\ scripts = 0 /\ changes = 0 /\ fresh = Nothing /\ unstopped = {}
  /\ interrupted = "none"

Next == Operator \/ ScriptStep \/ Interrupt \/ ProcessStep

\* A script that runs goes on; a process binds its sockets, and ends when told to.
Spec == Init /\ [][Next]_vars /\ WF_vars(ScriptStep) /\ WF_vars(ProcessStep)

----------------------------------------------------------------------------
(* Properties. *)

TypeOK ==
  /\ \A n \in ConfigNames : config_db[n].st \in {"absent", "truncated", "whole"}
  /\ \A p \in procs : p.pid \in Pids /\ p.host \in HostNames /\ p.tag \in Tags
                        /\ {s[2] : s \in p.sockets} \subseteq Ports
  /\ pidfile \in [HostNames -> [Tags -> Pids \cup {0}]]
  /\ script # NoScript =>
       script.cfg \in ConfigNames /\ script.i \in 1 .. Len(script.chains) + 1
  /\ source \in 1 .. MaxSource
  /\ cache \in [src : NoFile .. EmptyFile, res : NoFile .. EmptyFile]
  /\ fresh[1] \in {"none", "started", "deployed", "stopping", "stopped"}
  /\ interrupted \in {"none", "start", "stop", "accounts", "deploy"}

\* Every bootnode and geth that runs is the one its tag's pid file names, after
\* failed and interrupted starts too: killlast (blockchain/scripts/utils.py) finds
\* all that an earlier start has left, and no tag ever has two processes.
PidFilesNameTheProcesses ==
  /\ \A p \in procs : pidfile[p.host][p.tag] = p.pid
  /\ \A p, q \in procs : p.host = q.host /\ (p.pid = q.pid \/ p.tag = q.tag) => p = q

Served(chain, j) ==
  \E p \in Answers(chain.nodes[j].host, chain.nodes[j].rpcport) :
    /\ p.tag = NodeTag(chain, j) /\ p.mining /\ ~p.ending
    /\ p.gen = chain.gen /\ SignerAccount(chain.gen, j) \in p.keys

\* A start that has skipped no chain and come to its end leaves every node of every
\* eth-poa chain mining, with its own signer, at the port in the config, although
\* nodes of one host may be given the same ports (4_0_start_parallel_chain.py,
\* eth_poa/tool.py).  A deploy after it, all of whose threads come to their end,
\* leaves a contract on the chain that runs, the current one although the threads
\* share the cache of compile (contracts/deploy.py, tools/sdk/ethsdk.py).  A deploy
\* killed between the writes of the cache's two files may leave there the result of
\* another source, to which the operator may return.
DeploymentIsUsable ==
  fresh[1] \in {"started", "deployed"} =>
    LET chains == Load(fresh[2])
    IN  \A i \in DOMAIN chains :
          chains[i].type = "eth-poa" =>
            /\ \A j \in DOMAIN chains[i].nodes : Served(chains[i], j)
            /\ fresh[1] = "deployed" => chains[i].contract.gen = chains[i].gen
            /\ fresh[1] = "deployed" /\ interrupted # "deploy" =>
                 chains[i].contract.src = source

\* stop_remote_geth.py, run to its end after such a start, has told every geth of the
\* config to end, the ones included that lost their port to another node and have not
\* yet exited, but for those of the nodes whose failure it has printed: one that fails
\* does not keep it from the others.
StoppedIsStopped ==
  fresh[1] = "stopped" =>
    LET chains == Load(fresh[2])
    IN  \A i \in DOMAIN chains : \A j \in DOMAIN chains[i].nodes :
          <<i, j>> \notin unstopped =>
            \A p \in procs :
              p.host = chains[i].nodes[j].host /\ p.tag = NodeTag(chains[i], j) => p.ending

\* As long as no deploy is killed in between, the two files of compile's cache
\* agree: what is kept for the current source is its own result, or a file that
\* a thread is about to write; and between deploys the result is whole.
CacheIsSound ==
  interrupted # "deploy" /\ cache.src = source =>
    \/ cache.res = source
    \/ cache.res = EmptyFile /\ script.kind = "deploy"

\* Every script comes to its end, whatever of what it waits for is missing.
ScriptsEnd == script # NoScript ~> script = NoScript
=============================================================================
