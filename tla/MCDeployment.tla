---------------------------- MODULE MCDeployment ----------------------------
(***************************************************************************)
(* One server, so that all nodes compete for its ports; the parallel_chain *)
(* config holds one chain, of any type, or two.                            *)
(***************************************************************************)
EXTENDS DeploymentInv

MCNode == [host |-> "h", rpcport |-> 0, signer |-> 0, default |-> 0]

MCChain(name, type, nodes) ==
  [name |-> <<"parallel", name>>, type |-> type, gen |-> 0, contract |-> NoContract,
   nodes |-> [j \in 1 .. nodes |-> MCNode]]

MCServers == <<"h">>

MCInitConfigs ==
  {<<MCChain(0, "eth-poa", 2)>>, <<MCChain(1, "eth-pow", 1), MCChain(2, "eth-poa", 1)>>}

MCNewChains == {MCChain(3, "eth-hit", 1), MCChain(3, "bu", 1)}

MCNodeTags ==
  {<<<<"parallel", 0>>, "eth-poa", 1>>, <<<<"parallel", 0>>, "eth-poa", 2>>,
   <<<<"parallel", 1>>, "eth-pow", 1>>, <<<<"parallel", 2>>, "eth-poa", 1>>}
MCBootTags == {<<tag[1], tag[2], 0>> : tag \in MCNodeTags}

MCHostNames == {"h"}
MCConfigNames == {"parallel_chain", "nor"}
MCPorts == 1 .. 6
MCPids == 1 .. 14
=============================================================================
