--------------------------- MODULE ContractDeploy ---------------------------
(***************************************************************************)
(* contracts/deploy.py: one thread per chain compiles StateSpv.sol and     *)
(* deploys it on the geth at the first node's recorded port.  compile of   *)
(* tools/sdk/ethsdk.py keeps its last result in two files, one with the    *)
(* source and one with the result, that all threads share.                 *)
(***************************************************************************)
EXTENDS ChainTools

CONSTANT MaxSource  \* bound: versions of the contract

VARIABLES
  source,  \* version of StateSpv.sol
  cache    \* [src, res]: the version in each of the two files

\* No such file; a file opened for writing and not yet written.
NoFile    == 0
EmptyFile == MaxSource + 1

NoContract == [gen |-> 0, src |-> 0]

Thread(st) == [st |-> st, node |-> 1, info |-> 0]

DeployVars == <<source, cache>>

Working(i, st) == script.kind = "deploy" /\ script.thr[i].st = st

Becomes(i, st) == script' = [script EXCEPT !.thr[i].st = st]

Rpc(i) == Answers(script.chains[i].nodes[1].host, script.chains[i].nodes[1].rpcport)

\* EthSdk asks the geth for its accounts; then compile looks into the cache.
Lookup(i) ==
  /\ Working(i, "work")
  /\ Becomes(i, IF Rpc(i) = {} THEN "dead"
                ELSE IF cache.src = source /\ cache.res # NoFile THEN "load"
                ELSE "compile")
  /\ UNCHANGED <<config_db, hostVars, gens, DeployVars>>

\* The cached result is read: json.load raises on an empty file.
LoadCached(i) ==
  /\ Working(i, "load")
  /\ script' = [script EXCEPT !.thr[i].info = cache.res,
                  !.thr[i].st = IF cache.res = EmptyFile THEN "dead" ELSE "deploy"]
  /\ UNCHANGED <<config_db, hostVars, gens, DeployVars>>

\* Variant: a result that is there is kept.
CompileKeepsResult(i) ==
  /\ Working(i, "compile")
  /\ IF cache.res = NoFile
       THEN /\ cache'  = [cache EXCEPT !.res = EmptyFile]
            /\ script' = [script EXCEPT !.thr[i].info = source, !.thr[i].st = "result"]
       ELSE /\ script' = [script EXCEPT !.thr[i].info = source, !.thr[i].st = "source"]
            /\ UNCHANGED cache
  /\ UNCHANGED <<config_db, hostVars, gens, source>>

\* solc; then the result's file is opened and written, then the source's.
Compile(i) ==
  /\ Working(i, "compile")
  /\ cache'  = [cache EXCEPT !.res = EmptyFile]
  /\ script' = [script EXCEPT !.thr[i].info = source, !.thr[i].st = "result"]
  /\ UNCHANGED <<config_db, hostVars, gens, source>>

SaveResult(i) ==
  /\ Working(i, "result")
  /\ cache' = [cache EXCEPT !.res = script.thr[i].info]
  /\ Becomes(i, "source")
  /\ UNCHANGED <<config_db, hostVars, gens, source>>

OpenSource(i) ==
  /\ Working(i, "source")
  /\ cache' = [cache EXCEPT !.src = EmptyFile]
  /\ Becomes(i, "content")
  /\ UNCHANGED <<config_db, hostVars, gens, source>>

SaveSource(i) ==
  /\ Working(i, "content")
  /\ cache' = [cache EXCEPT !.src = source]
  /\ Becomes(i, "deploy")
  /\ UNCHANGED <<config_db, hostVars, gens, source>>

\* The deployment is a transaction of the geth's first account: it needs a geth
\* that mines.  The thread keeps address and abi in the chain's copy.
Deploy(i) ==
  /\ Working(i, "deploy")
  /\ \/ \E p \in Rpc(i) :
          /\ p.mining
          /\ script' = [script EXCEPT !.thr[i].st = "done",
                !.chains[i].contract = [gen |-> p.gen, src |-> script.thr[i].info]]
     \/ /\ \A p \in Rpc(i) : ~p.mining
        /\ Becomes(i, "dead")
  /\ UNCHANGED <<config_db, hostVars, gens, DeployVars>>

Deployed == \A i \in DOMAIN script.thr : script.thr[i].st \in {"done", "dead"}

\* Whatever has become of the threads, the configs of all chains are written back.
SaveContracts ==
  /\ script.kind = "deploy" /\ Deployed /\ script.i <= Len(script.chains)
  /\ \/ /\ AddItem(script.cfg, script.i, Chain)
        /\ script' = [script EXCEPT !.i = @ + 1]
     \/ CrashInSave(script.cfg) /\ End
  /\ UNCHANGED <<hostVars, gens, DeployVars>>
=============================================================================
