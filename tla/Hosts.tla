-------------------------------- MODULE Hosts --------------------------------
(***************************************************************************)
(* The scripts that run on a server, blockchain/scripts: they start a      *)
(* bootnode or a geth in the background, and find the earlier one of the   *)
(* same tag by the pid in its pid file.  A started process binds its       *)
(* sockets later, or exits when one of them is taken.  Assumption: the     *)
(* system does not give out a process id that a pid file still holds.      *)
(***************************************************************************)
EXTENDS Naturals, FiniteSets, FiniteSetsExt

CONSTANTS
  HostNames,  \* servers
  Ports,      \* PORTS_RANGE
  NodeTags,   \* tags of geths
  BootTags,   \* tags of bootnodes
  Pids        \* bound: process ids

Tags == NodeTags \cup BootTags

ASSUME PidsAssumption  == Pids \subseteq Nat \ {0}
ASSUME PortsAssumption == Ports \subseteq Nat \ {0}
ASSUME TagsAssumption  == NodeTags \cap BootTags = {}

VARIABLES
  procs,    \* running processes
  pidfile   \* pidfile[h][tag]: the pid in the file of the tag on h, 0: no file

hostVars == <<procs, pidfile>>

HostsInit ==
  /\ procs   = {}
  /\ pidfile = [h \in HostNames |-> [tag \in Tags |-> 0]]

\* A geth listens on its rpc port, and on its p2p port for two protocols; a
\* bootnode on one port.
GethSockets(rpc, p2p) == {<<"tcp", rpc>>, <<"tcp", p2p>>, <<"udp", p2p>>}
BootSockets(port)     == {<<"udp", port>>}

Bound(P, h) == UNION {p.sockets : p \in {q \in P : q.host = h /\ q.up}}

\* Variant: when no port is free, the next ones are taken.
FreePortsOrNext(P, h) ==
  LET free == Ports \ {s[2] : s \in Bound(P, h)}
  IN  IF free = {} THEN {Max(Ports) + 1, Max(Ports) + 2} ELSE free

\* netstat lists the ports that processes listen on, whatever the protocol: a
\* port that a process is about to bind is not among them.
FreePorts(P, h) == Ports \ {s[2] : s \in Bound(P, h)}

FreshPids(h) ==
  Pids \ ({p.pid : p \in {q \in procs : q.host = h}}
            \cup {pidfile[h][tag] : tag \in Tags})

----------------------------------------------------------------------------
(* Pid files. *)

\* Variant: the process is left alone.
KillNone(h, tag) == procs

\* killlast: SIGKILL to the process the pid file names, if it still runs.
KillLast(h, tag) == {p \in procs : ~(p.host = h /\ p.pid = pidfile[h][tag])}

WritePid(h, tag, pid) == pidfile' = [pidfile EXCEPT ![h][tag] = pid]

\* The new process is found by its command line, and its pid written.
Launch(h, tag, others, sockets, rpc, gen, keys) ==
  LET pid == CHOOSE n \in Pids : n \in FreshPids(h)
  IN  /\ FreshPids(h) # {}
      /\ procs' = others \cup
           {[pid |-> pid, host |-> h, tag |-> tag, sockets |-> sockets, rpc |-> rpc,
             gen |-> gen, keys |-> keys, up |-> FALSE, mining |-> FALSE,
             ending |-> FALSE]}
      /\ WritePid(h, tag, pid)

----------------------------------------------------------------------------
(* The scripts. *)

\* The bootnode of a chain.
BootStart(h, tag) ==
  LET others == KillLast(h, tag)
      free   == FreePorts(others, h)
  IN  /\ free # {}
      /\ Launch(h, tag, others, BootSockets(Min(free)), 0, 0, {})

EthPoaBoot(h, tag) == BootStart(h, tag)
EthPowBoot(h, tag) == BootStart(h, tag)

\* start_chain_pre.py, which raises for the other types.
StartChainPre(type, h, tag) ==
  \/ type = "eth-poa" /\ EthPoaBoot(h, tag)
  \/ type = "eth-pow" /\ EthPowBoot(h, tag)

\* A node of a chain: stop has killed the earlier node of the tag and removed its
\* directory; the new node starts from the genesis block gen, with keys in its
\* keystore.  The first free port becomes the rpc port.
NodeStart(h, tag, gen, keys) ==
  LET others == KillLast(h, tag)
      free   == FreePorts(others, h)
      rpc    == Min(free)
      p2p    == Min(free \ {rpc})
  IN  /\ Cardinality(free) >= 2
      /\ Launch(h, tag, others, GethSockets(rpc, p2p), rpc, gen, keys)

\* The two kinds of node differ in the APIs they offer.
EthPoaNode(h, tag, gen, keys) == NodeStart(h, tag, gen, keys)
EthPowNode(h, tag, gen, keys) == NodeStart(h, tag, gen, keys)

\* start_chain.py, which raises for the other types.
StartChain(type, h, tag, gen, keys) ==
  \/ type = "eth-poa" /\ EthPoaNode(h, tag, gen, keys)
  \/ type = "eth-pow" /\ EthPowNode(h, tag, gen, keys)

\* Either script fails after killlast: there is no free port, or the new process
\* has already exited when its pid is looked up.  The pid file is not written.
StartFails(h, tag) ==
  /\ procs' = KillLast(h, tag)
  /\ UNCHANGED pidfile

----------------------------------------------------------------------------
(* The processes. *)

\* A started process binds its sockets.
Bind(p) ==
  /\ ~p.up /\ p.sockets \cap Bound(procs, p.host) = {}
  /\ procs' = (procs \ {p}) \cup {[p EXCEPT !.up = TRUE]}
  /\ UNCHANGED pidfile

\* One of them is taken: it exits.
BindFails(p) ==
  /\ ~p.up /\ p.sockets \cap Bound(procs, p.host) # {}
  /\ procs' = procs \ {p}
  /\ UNCHANGED pidfile

\* The geths that answer requests at h:rpc.
Answers(h, rpc) ==
  {p \in procs : p.host = h /\ p.up /\ p.tag \in NodeTags /\ p.rpc = rpc}

\* miner.start on the geth at h:rpc.
Mine(h, rpc) ==
  /\ procs' = {IF p \in Answers(h, rpc) THEN [p EXCEPT !.mining = TRUE] ELSE p :
                 p \in procs}
  /\ UNCHANGED pidfile

\* pkill -f 'rpcport N' on h sends the geths with this port SIGTERM, whether they
\* listen there or not.
PKill(h, rpc) ==
  /\ procs' = {IF p.host = h /\ p.tag \in NodeTags /\ p.rpc = rpc
                 THEN [p EXCEPT !.ending = TRUE] ELSE p : p \in procs}
  /\ UNCHANGED pidfile

\* A geth that has got it ends some time later, and answers until then.
Exit(p) ==
  /\ p.ending
  /\ procs' = procs \ {p}
  /\ UNCHANGED pidfile
=============================================================================
