--------------------------- MODULE DeploymentInv ---------------------------
(***************************************************************************)
(* The inductive invariant of Deployment.  TLC checks it on the instance   *)
(* of MCDeployment, DeploymentProofs proves it for all values of the       *)
(* constants.                                                              *)
(***************************************************************************)
EXTENDS Deployment

Processes ==
  [pid : Pids, host : HostNames, tag : Tags, sockets : SUBSET ({"tcp", "udp"} \X Ports),
   rpc : Ports \cup {0}, gen : Nat, keys : SUBSET (Nat \X Nat), up : BOOLEAN,
   mining : BOOLEAN, ending : BOOLEAN]

Threads ==
  [st : {"work", "load", "compile", "result", "source", "content", "deploy",
         "done", "dead", "saved"},
   node : Nat \ {0}, info : NoFile .. EmptyFile]

Scripts ==
  [kind : {"start", "stop", "accounts", "deploy"}, cfg : ConfigNames, reset : BOOLEAN,
   chains : Configs,
   st : {"chain", "prestart", "accounts", "node", "check", "mine", "save"},
   i : Nat \ {0}, j : Nat \ {0}, skipped : BOOLEAN,
   failed : SUBSET (Nat \X Nat), thr : Seq(Threads)]

Typed ==
  /\ config_db \in [ConfigNames -> [st : {"absent", "truncated", "whole"}, chains : Configs]]
  /\ procs \subseteq Processes
  /\ pidfile \in [HostNames -> [Tags -> Pids \cup {0}]]
  /\ script = NoScript \/ script \in Scripts
  /\ gens \in Nat
  /\ source \in 1 .. MaxSource
  /\ cache \in [src : NoFile .. EmptyFile, res : NoFile .. EmptyFile]
  /\ fresh = Nothing \/ fresh \in {"started", "deployed", "stopping", "stopped"} \X ConfigNames
  /\ interrupted \in {"none", "start", "stop", "accounts", "deploy"}

\* A script's counters are within its chains and nodes, and its config is the one
\* that it loaded, but for what it has written itself.
ScriptFits ==
  script # NoScript =>
    /\ CanLoad(script.cfg)
    /\ Len(Load(script.cfg)) = Len(script.chains)
    /\ \A i \in DOMAIN script.chains : Load(script.cfg)[i].name = script.chains[i].name
    /\ script.i <= Len(script.chains) + 1
    /\ script.kind = "start" /\ script.st # "chain" => script.i <= Len(script.chains)
    /\ script.kind = "start" /\ script.st \notin {"node", "mine"} => script.j = 1
    /\ script.kind \in {"start", "stop"} /\ script.i <= Len(script.chains) =>
         script.j <= Len(Chain.nodes)
    /\ script.kind \in {"deploy", "accounts"} => DOMAIN script.thr = DOMAIN script.chains
    /\ script.kind = "accounts" => \A i \in DOMAIN script.thr :
         script.thr[i].node <= Len(script.chains[i].nodes)

\* No two pid files of a host hold one pid.
PidFilesDiffer ==
  \A h \in HostNames : \A tag, other \in Tags :
    pidfile[h][tag] = pidfile[h][other] /\ pidfile[h][tag] # 0 => tag = other

\* Two processes of a host do not listen at one port; a geth has its rpc port.
SocketsAreExclusive ==
  /\ \A p, q \in procs :
       p.up /\ q.up /\ p.host = q.host /\ p.sockets \cap q.sockets # {} => p = q
  /\ \A p \in procs : p.tag \in NodeTags => <<"tcp", p.rpc>> \in p.sockets

\* A geth holds keys of its own genesis block, and of no other node's signer.
KeysAreOwn ==
  \A p \in procs :
    /\ p.gen <= gens
    /\ \A key \in p.keys : key[1] = p.gen /\ (key[2] = 0 \/ p.tag[3] = key[2])

----------------------------------------------------------------------------
(* Of the processes P, the one of node j of a chain. *)

\* It is at the port that is recorded for the node.
Recorded(P, chain, j) ==
  \A p \in P :
    p.host = chain.nodes[j].host /\ p.tag = NodeTag(chain, j) => p.rpc = chain.nodes[j].rpcport

\* Every geth of the host with the port recorded for the node has been told to end.
Signalled(P, chain, j) ==
  \A p \in P :
    p.host = chain.nodes[j].host /\ p.tag \in NodeTags /\ p.rpc = chain.nodes[j].rpcport
      => p.ending

----------------------------------------------------------------------------

\* The genesis block of the chain that a start is at is its own: only the geths of the
\* chain have it, none of which a stop has met, and its signers are made for it.
GenesisIsNew ==
  script.kind = "start" /\ script.st \in {"node", "check", "mine", "save"} =>
    /\ Chain.gen = gens /\ gens # 0 /\ Chain.type \in {"eth-poa", "eth-pow"}
    /\ Chain.type = "eth-poa" => \A j \in DOMAIN Chain.nodes : Chain.nodes[j].signer = gens
    /\ \A p \in procs : p.gen = gens =>
         /\ ~p.ending
         /\ \E j \in DOMAIN Chain.nodes : p.tag = NodeTag(Chain, j)

\* What a start has done so far: the nodes it has started are at their ports, those
\* it has told to mine do, and the chains it has left behind are saved.
Starting   == script.kind = "start" /\ ~script.skipped
HasStarted(i, j) ==
  \/ i < script.i
  \/ i = script.i /\ script.st = "node" /\ j < script.j
  \/ i = script.i /\ script.st \in {"check", "mine", "save"}
HasMined(i, j) ==
  \/ i < script.i
  \/ i = script.i /\ script.st = "mine" /\ j < script.j
  \/ i = script.i /\ script.st = "save"

StartIsAsFar ==
  Starting =>
    \A i \in DOMAIN script.chains :
      /\ i < script.i =>
           /\ Load(script.cfg)[i] = script.chains[i]
           /\ script.chains[i].type \in {"eth-poa", "eth-pow"}
      /\ \A j \in DOMAIN script.chains[i].nodes :
           /\ HasStarted(i, j) => Recorded(procs, script.chains[i], j)
           /\ HasMined(i, j) /\ script.chains[i].type = "eth-poa" => Served(script.chains[i], j)

\* What a stop has done so far, but for the nodes that have failed.
StopIsAsFar ==
  /\ script.kind = "stop" => script.chains = Load(script.cfg)
  /\ fresh[1] = "stopping" =>
       \A i \in DOMAIN script.chains : \A j \in DOMAIN script.chains[i].nodes :
         /\ i < script.i \/ (i = script.i /\ j < script.j)
         /\ <<i, j>> \notin script.failed
         => Signalled(procs, script.chains[i], j)
  /\ fresh[1] = "stopped" =>
       \A i \in DOMAIN Load(fresh[2]) : \A j \in DOMAIN Load(fresh[2])[i].nodes :
         <<i, j>> \notin unstopped => Signalled(procs, Load(fresh[2])[i], j)

\* What is left of a start: the ports are recorded until another script starts geths.
FreshIsKept ==
  fresh # Nothing =>
    /\ CanLoad(fresh[2])
    /\ \A i \in DOMAIN Load(fresh[2]) :
         /\ Load(fresh[2])[i].type \in {"eth-poa", "eth-pow"}
         /\ \A j \in DOMAIN Load(fresh[2])[i].nodes : Recorded(procs, Load(fresh[2])[i], j)
    /\ fresh[1] = "stopping" => script.kind = "stop" /\ script.cfg = fresh[2]
    /\ fresh[1] \in {"started", "deployed"} => script.kind \in {"none", "deploy"}
    /\ fresh[1] = "stopped" => script.kind = "none"

\* A deploy changes the contracts in its copy, and nothing else; what a thread that is
\* done has left is on the chain that runs, and of the current source.
Contract(chain) ==
  /\ chain.contract.gen = chain.gen
  /\ interrupted # "deploy" => chain.contract.src = source

DeployFits ==
  script.kind = "deploy" =>
    /\ \A i \in DOMAIN script.chains :
         /\ script.chains[i] =
              [Load(script.cfg)[i] EXCEPT !.contract = script.chains[i].contract]
         /\ i < script.i => script.chains[i] = Load(script.cfg)[i]
    /\ fresh[2] = script.cfg =>
         \A i \in DOMAIN script.chains :
           /\ script.chains[i].type = "eth-poa"
           /\ \/ fresh[1] = "started" /\ script.thr[i].st = "done"
              \/ fresh[1] = "deployed"
           => Contract(script.chains[i])
    /\ script.i > 1 => Deployed

\* A thread that has to write the cache's files, or is between the two.
Writing(i)  == Working(i, "result") \/ Working(i, "source") \/ Working(i, "content")
NoneWriting == script.kind = "deploy" => \A i \in DOMAIN script.thr : ~Writing(i)

\* The two files agree when no thread writes them; the result is empty only as long
\* as one has to fill it; what a thread has compiled, or found, is current.
CacheAgrees ==
  interrupted # "deploy" =>
    /\ NoneWriting => cache.src = cache.res
    /\ cache.res = EmptyFile =>
         script.kind = "deploy" /\ \E i \in DOMAIN script.thr : Working(i, "result")
    /\ cache.src = source => cache.res \in {source, EmptyFile}
    /\ script.kind = "deploy" =>
         \A i \in DOMAIN script.thr :
           /\ script.thr[i].st \in {"load", "source", "content"} =>
                cache.res \in {source, EmptyFile}
           /\ script.thr[i].st \in {"result", "source", "content", "deploy"} =>
                script.thr[i].info = source

IInv ==
  /\ Typed
  /\ ScriptFits
  /\ PidFilesNameTheProcesses
  /\ PidFilesDiffer
  /\ SocketsAreExclusive
  /\ KeysAreOwn
  /\ GenesisIsNew
  /\ StartIsAsFar
  /\ StopIsAsFar
  /\ FreshIsKept
  /\ DeployFits
  /\ CacheAgrees
  /\ DeploymentIsUsable
=============================================================================
