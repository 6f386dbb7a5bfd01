--------------------------- MODULE DeploymentProofs -------------------------
(***************************************************************************)
(* Proof that IInv is an invariant of Deployment, and with it the          *)
(* properties of that module.                                              *)
(***************************************************************************)
EXTENDS DeploymentInv, FiniteSetTheorems, SequenceTheorems, WellFoundedInduction, TLAPS

----------------------------------------------------------------------------
(* The operators of the library that the scripts use. *)

Less == {pair \in Nat \X Nat : pair[1] < pair[2]}

\* The order of the naturals is well founded.
LEMMA LessIsWellFounded == IsWellFoundedOn(Less, Nat)
<1>1. Less = OpToRel(<, Nat)
  BY Zenon DEF Less, OpToRel
<1> QED
  BY <1>1, NatLessThanWellFounded, Zenon

\* Min, the choice of the first free port, is an element of the set.
LEMMA MinIsElement ==
  ASSUME NEW S \in SUBSET Nat, S # {}
  PROVE  Min(S) \in S
<1>1. PICK x \in S : \A y \in S : ~ (<<y, x>> \in Less)
  BY LessIsWellFounded, WFMin, Zenon
<1>2. ASSUME NEW y \in S PROVE x <= y
  <2>1. y \in Nat /\ x \in Nat /\ <<y, x>> \in Nat \X Nat
    OBVIOUS
  <2>2. ~ (y < x)
    BY <2>1, <1>1 DEF Less
  <2> QED
    BY <2>1, <2>2
<1> QED
  BY <1>2 DEF Min

----------------------------------------------------------------------------
(* Configs and their chains. *)

\* A chain of the same name, type and number of nodes has the same tags.
LEMMA SameTags ==
  ASSUME NEW c \in Chains, NEW d \in Chains, HasTags(c),
         c.name = d.name, c.type = d.type, DOMAIN c.nodes = DOMAIN d.nodes
  PROVE  HasTags(d)
  BY DEF HasTags, NodeTag, BootTag

\* dict.update with a whole chain replaces the chain.
LEMMA UpdatedIsValue ==
  ASSUME NEW c \in Chains, NEW v \in Chains
  PROVE  Updated(c, v) = v
  BY DEF Updated, Chains

\* A chain of a config replaced by one of the same name.
LEMMA ReplacedIsConfig ==
  ASSUME NEW chains \in Configs, NEW i \in DOMAIN chains, NEW c \in Chains,
         HasTags(c), c.name = chains[i].name
  PROVE  /\ [chains EXCEPT ![i] = c] \in Configs
         /\ Len([chains EXCEPT ![i] = c]) = Len(chains)
         /\ DOMAIN [chains EXCEPT ![i] = c] = DOMAIN chains
<1> DEFINE new == [chains EXCEPT ![i] = c]
<1>1. chains \in Seq(Chains)
  BY DEF Configs
<1>2. /\ new \in Seq(Chains) /\ Len(new) = Len(chains) /\ DOMAIN new = DOMAIN chains
      /\ \A k \in DOMAIN new : new[k] = IF k = i THEN c ELSE chains[k]
  BY <1>1
<1> HIDE DEF new
<1>3. \A k \in DOMAIN new : HasTags(new[k])
  BY <1>2 DEF Configs
<1>4. \A k \in DOMAIN new : new[k].name = chains[k].name
  BY <1>2
<1>5. \A k, l \in DOMAIN new : new[k].name = new[l].name => k = l
  BY <1>2, <1>4 DEF Configs
<1>6. new \in Configs
  BY <1>2, <1>3, <1>5 DEF Configs
<1> QED
  BY <1>2, <1>6 DEF new

\* The chains of a config.
LEMMA ConfigChains ==
  ASSUME NEW chains \in Configs
  PROVE  /\ chains \in Seq(Chains) /\ Len(chains) \in Nat
         /\ DOMAIN chains = 1 .. Len(chains)
         /\ \A i \in DOMAIN chains :
              /\ chains[i] \in Chains /\ HasTags(chains[i])
              /\ chains[i].nodes \in Seq(Nodes) /\ Len(chains[i].nodes) \in Nat \ {0}
              /\ DOMAIN chains[i].nodes = 1 .. Len(chains[i].nodes)
              /\ \A j \in DOMAIN chains[i].nodes : chains[i].nodes[j] \in Nodes
<1>1. chains \in Seq(Chains) /\ Len(chains) \in Nat /\ DOMAIN chains = 1 .. Len(chains)
  BY DEF Configs
<1>2. ASSUME NEW i \in DOMAIN chains
      PROVE  /\ chains[i] \in Chains /\ HasTags(chains[i])
             /\ chains[i].nodes \in Seq(Nodes) /\ chains[i].nodes # <<>>
  <2>1. chains[i] \in Chains /\ HasTags(chains[i])
    BY <1>1 DEF Configs
  <2>2. ASSUME NEW c \in Chains PROVE c.nodes \in Seq(Nodes) /\ c.nodes # <<>>
    BY DEF Chains
  <2> QED
    BY <2>1, <2>2
<1>3. ASSUME NEW s \in Seq(Nodes), s # <<>>
      PROVE  /\ Len(s) \in Nat \ {0} /\ DOMAIN s = 1 .. Len(s)
             /\ \A j \in DOMAIN s : s[j] \in Nodes
  <2>1. Len(s) \in Nat /\ DOMAIN s = 1 .. Len(s) /\ \A j \in DOMAIN s : s[j] \in Nodes
    OBVIOUS
  <2>2. Len(s) \in Nat \ {0}
    BY <1>3, EmptySeq
  <2> QED
    BY <2>1, <2>2
<1> QED
  BY <1>1, <1>2, <1>3

\* A config without its first chain, and with one more of another name.
LEMMA RemovedIsConfig ==
  ASSUME NEW chains \in Configs, 1 \in 1 .. Len(chains)
  PROVE  RemoveAt(chains, 1) \in Configs
<1> DEFINE new == RemoveAt(chains, 1)
<1>1. chains \in Seq(Chains) /\ Len(chains) \in Nat /\ DOMAIN chains = 1 .. Len(chains)
  BY ConfigChains
<1>2. new = SubSeq(chains, 2, Len(chains))
  <2>1. new = SubSeq(chains, 1, 0) \o SubSeq(chains, 2, Len(chains))
    BY DEF RemoveAt
  <2>2. SubSeq(chains, 1, 0) = <<>>
    BY SubSeqEmpty
  <2>3. SubSeq(chains, 2, Len(chains)) \in Seq(Chains)
    BY <1>1, SubSeqProperties
  <2> QED
    BY <2>1, <2>2, <2>3, ConcatEmptySeq
<1>3. /\ new \in Seq(Chains) /\ DOMAIN new = 1 .. Len(chains) - 1
      /\ \A k \in DOMAIN new : new[k] = chains[k + 1] /\ k + 1 \in DOMAIN chains
  <2>1. \A k \in 2 .. Len(chains) : chains[k] \in Chains
    BY <1>1
  <2> DEFINE n == Len(chains)
  <2>0. n \in Int /\ n >= 1
    BY <1>1
  <2> HIDE DEF n
  <2>3. /\ SubSeq(chains, 2, n) \in Seq(Chains)
        /\ Len(SubSeq(chains, 2, n)) = IF 2 <= n THEN n - 2 + 1 ELSE 0
        /\ \A k \in 1 .. n - 2 + 1 : SubSeq(chains, 2, n)[k] = chains[2 + k - 1]
    BY <2>0, <2>1, SubSeqProperties DEF n
  <2>5. new = SubSeq(chains, 2, n)
    BY <1>2 DEF n
  <2> HIDE DEF new
  <2>6. /\ new \in Seq(Chains) /\ Len(new) = n - 1
        /\ \A k \in 1 .. n - 1 : new[k] = chains[2 + k - 1]
    BY <2>0, <2>3, <2>5
  <2>2. /\ new \in Seq(Chains) /\ Len(new) = Len(chains) - 1
        /\ \A k \in 1 .. Len(chains) - 1 : new[k] = chains[k + 1]
    BY <2>0, <2>6 DEF n
  <2>4. DOMAIN new = 1 .. Len(new)
    BY <2>2
  <2> QED
    BY <1>1, <2>2, <2>4
<1> HIDE DEF new
<1>4. \A k \in DOMAIN new : HasTags(new[k])
  BY <1>3 DEF Configs
<1>5. \A k, l \in DOMAIN new : new[k].name = new[l].name => k = l
  <2> TAKE k, l \in DOMAIN new
  <2> HAVE new[k].name = new[l].name
  <2>1. k + 1 = l + 1
    BY <1>3 DEF Configs
  <2> QED
    BY <2>1, <1>3
<1> QED
  BY <1>3, <1>4, <1>5 DEF Configs, new

\* A chain whose name is not in the config can be added to it.
LEMMA AppendedIsConfig ==
  ASSUME NEW chains \in Configs, NEW c \in Chains, HasTags(c),
         \A i \in DOMAIN chains : chains[i].name # c.name
  PROVE  Append(chains, c) \in Configs
<1> DEFINE new == Append(chains, c)
<1>1. chains \in Seq(Chains) /\ Len(chains) \in Nat /\ DOMAIN chains = 1 .. Len(chains)
  BY ConfigChains
<1>2. /\ new \in Seq(Chains) /\ DOMAIN new = 1 .. Len(chains) + 1
      /\ \A k \in DOMAIN new : new[k] = IF k = Len(chains) + 1 THEN c ELSE chains[k]
  BY <1>1
<1> HIDE DEF new
<1>3. \A k \in DOMAIN new : HasTags(new[k])
  BY <1>1, <1>2 DEF Configs
<1>4. \A k, l \in DOMAIN new : new[k].name = new[l].name => k = l
  BY <1>1, <1>2 DEF Configs
<1> QED
  BY <1>2, <1>3, <1>4 DEF Configs, new


----------------------------------------------------------------------------
(* The processes and their pid files: what HostsInv collects does not depend on *)
(* scripts and configs, but for the number of genesis blocks.                   *)

HostsInv ==
  /\ procs \subseteq Processes
  /\ pidfile \in [HostNames -> [Tags -> Pids \cup {0}]]
  /\ gens \in Nat
  /\ PidFilesNameTheProcesses
  /\ PidFilesDiffer
  /\ SocketsAreExclusive
  /\ KeysAreOwn

\* p has gone on as q.
Like(p, q) ==
  /\ q.host = p.host /\ q.tag = p.tag /\ q.rpc = p.rpc /\ q.gen = p.gen /\ q.keys = p.keys
  /\ q.ending = p.ending

\* A step starts no process, and ends none that listens and has not been told to end.
OnlyOld == \A q \in procs' : \E p \in procs : Like(p, q)
UpStay  == \A p \in procs : p.up /\ ~p.ending =>
             \E q \in procs' : Like(p, q) /\ q.up /\ (p.mining => q.mining)

\* Processes that end, and new genesis blocks, do no harm.
LEMMA HostsLoseProcesses ==
  ASSUME HostsInv, procs' \subseteq procs, UNCHANGED pidfile, gens' \in Nat, gens <= gens'
  PROVE  HostsInv' /\ OnlyOld
<1>1. procs' \subseteq Processes /\ pidfile' \in [HostNames -> [Tags -> Pids \cup {0}]]
  BY DEF HostsInv
<1>2. PidFilesNameTheProcesses' /\ PidFilesDiffer' /\ SocketsAreExclusive'
  BY DEF HostsInv, PidFilesNameTheProcesses, PidFilesDiffer, SocketsAreExclusive
<1>3. KeysAreOwn'
  <2>1. \A p \in procs' : p.gen \in Nat
    BY <1>1 DEF Processes
  <2> QED
    BY <2>1 DEF HostsInv, KeysAreOwn
<1> QED
  BY <1>1, <1>2, <1>3 DEF HostsInv, OnlyOld, Like

\* SIGKILL to the pid of a file ends the process of the file's tag, and no other.
LEMMA KillLastEndsTheTag ==
  ASSUME HostsInv, NEW h \in HostNames, NEW tag \in Tags
  PROVE  KillLast(h, tag) = {p \in procs : ~(p.host = h /\ p.tag = tag)}
<1>1. ASSUME NEW p \in procs, p.host = h
      PROVE  p.pid = pidfile[h][tag] <=> p.tag = tag
  <2>1. p.tag \in Tags /\ p.pid # 0 /\ pidfile[h][p.tag] = p.pid
    BY <1>1, PidsAssumption DEF HostsInv, Processes, PidFilesNameTheProcesses
  <2> QED
    BY <2>1 DEF HostsInv, PidFilesDiffer
<1> QED
  BY <1>1 DEF KillLast

\* Processes that are told something go on as they are.
LEMMA HostsMarked ==
  ASSUME HostsInv, NEW f, procs' = {f[p] : p \in procs}, UNCHANGED <<pidfile, gens>>,
         \A p \in procs :
           /\ f[p] \in Processes /\ f[p].pid = p.pid /\ f[p].host = p.host
           /\ f[p].tag = p.tag /\ f[p].sockets = p.sockets /\ f[p].up = p.up
           /\ f[p].rpc = p.rpc /\ f[p].gen = p.gen /\ f[p].keys = p.keys
  PROVE  HostsInv'
<1>1. procs' \subseteq Processes
  OBVIOUS
<1>2. PidFilesNameTheProcesses'
  <2>1. \A p \in procs' : pidfile'[p.host][p.tag] = p.pid
    BY DEF HostsInv, PidFilesNameTheProcesses
  <2>2. ASSUME NEW p \in procs, NEW q \in procs, f[p].host = f[q].host,
               f[p].pid = f[q].pid \/ f[p].tag = f[q].tag
        PROVE  f[p] = f[q]
    <3>1. p = q
      BY <2>2 DEF HostsInv, PidFilesNameTheProcesses
    <3> QED
      BY <3>1
  <2> QED
    BY <2>1, <2>2 DEF PidFilesNameTheProcesses
<1>3. PidFilesDiffer'
  BY DEF HostsInv, PidFilesDiffer
<1>4. SocketsAreExclusive'
  <2>1. ASSUME NEW p \in procs, NEW q \in procs, f[p].up, f[q].up,
               f[p].host = f[q].host, f[p].sockets \cap f[q].sockets # {}
        PROVE  f[p] = f[q]
    <3>1. p = q
      BY <2>1 DEF HostsInv, SocketsAreExclusive
    <3> QED
      BY <3>1
  <2>2. \A p \in procs' : p.tag \in NodeTags => <<"tcp", p.rpc>> \in p.sockets
    BY DEF HostsInv, SocketsAreExclusive
  <2> QED
    BY <2>1, <2>2 DEF SocketsAreExclusive
<1>5. KeysAreOwn'
  <2>1. ASSUME NEW p \in procs
        PROVE  /\ f[p].gen <= gens'
               /\ \A key \in f[p].keys :
                    key[1] = f[p].gen /\ (key[2] = 0 \/ f[p].tag[3] = key[2])
    BY DEF HostsInv, KeysAreOwn
  <2> QED
    BY <2>1 DEF KeysAreOwn
<1> QED
  BY <1>1, <1>2, <1>3, <1>4, <1>5 DEF HostsInv

\* miner.start changes nothing else.
LEMMA HostsMine ==
  ASSUME HostsInv, NEW h, NEW rpc, Mine(h, rpc), UNCHANGED gens
  PROVE  /\ HostsInv' /\ OnlyOld /\ UpStay
         /\ \A p \in Answers(h, rpc) : [p EXCEPT !.mining = TRUE] \in procs'
<1> DEFINE f == [p \in procs |->
                   IF p \in Answers(h, rpc) THEN [p EXCEPT !.mining = TRUE] ELSE p]
<1>1. procs' = {f[p] : p \in procs} /\ UNCHANGED <<pidfile, gens>>
  BY DEF Mine
<1>2. ASSUME NEW p \in procs
      PROVE  /\ f[p] \in Processes /\ Like(p, f[p])
             /\ f[p].pid = p.pid /\ f[p].sockets = p.sockets /\ f[p].up = p.up
             /\ p.mining => f[p].mining
  <2>1. p \in Processes
    BY DEF HostsInv
  <2>2. [p EXCEPT !.mining = TRUE] \in Processes
    BY <2>1 DEF Processes
  <2> QED
    BY <2>1, <2>2 DEF Processes, Like
<1>3. \A p \in Answers(h, rpc) : [p EXCEPT !.mining = TRUE] \in procs'
  BY <1>1 DEF Answers
<1> HIDE DEF f
<1>4. HostsInv'
  BY <1>1, <1>2, HostsMarked DEF Like
<1>5. OnlyOld /\ UpStay
  BY <1>1, <1>2 DEF OnlyOld, UpStay, Like
<1> QED
  BY <1>3, <1>4, <1>5

\* SIGTERM to the geths with a port tells just these to end.
LEMMA HostsSignal ==
  ASSUME HostsInv, NEW h, NEW rpc, PKill(h, rpc), UNCHANGED gens
  PROVE  /\ HostsInv'
         /\ \A q \in procs' : \E p \in procs :
              /\ q.host = p.host /\ q.tag = p.tag /\ q.rpc = p.rpc
              /\ p.ending => q.ending
         /\ \A q \in procs' : q.host = h /\ q.tag \in NodeTags /\ q.rpc = rpc => q.ending
<1> DEFINE f == [p \in procs |->
                   IF p.host = h /\ p.tag \in NodeTags /\ p.rpc = rpc
                     THEN [p EXCEPT !.ending = TRUE] ELSE p]
<1>1. procs' = {f[p] : p \in procs} /\ UNCHANGED <<pidfile, gens>>
  BY DEF PKill
<1>2. ASSUME NEW p \in procs
      PROVE  /\ f[p] \in Processes /\ f[p].pid = p.pid /\ f[p].host = p.host
             /\ f[p].tag = p.tag /\ f[p].sockets = p.sockets /\ f[p].up = p.up
             /\ f[p].rpc = p.rpc /\ f[p].gen = p.gen /\ f[p].keys = p.keys
             /\ p.ending => f[p].ending
             /\ f[p].host = h /\ f[p].tag \in NodeTags /\ f[p].rpc = rpc => f[p].ending
  <2>1. p \in Processes
    BY DEF HostsInv
  <2>2. [p EXCEPT !.ending = TRUE] \in Processes
    BY <2>1 DEF Processes
  <2> QED
    BY <2>1, <2>2 DEF Processes
<1> HIDE DEF f
<1>3. HostsInv'
  BY <1>1, <1>2, HostsMarked
<1> QED
  BY <1>1, <1>2, <1>3

\* A process binds its sockets when none of them is taken.
LEMMA HostsBind ==
  ASSUME HostsInv, NEW p \in procs, Bind(p), UNCHANGED gens
  PROVE  HostsInv' /\ OnlyOld /\ UpStay
<1> DEFINE b == [p EXCEPT !.up = TRUE]
<1>1. /\ procs' = (procs \ {p}) \cup {b} /\ UNCHANGED pidfile
      /\ \A q \in procs : q.up /\ q.host = p.host => p.sockets \cap q.sockets = {}
  BY DEF Bind, Bound
<1>2. p \in Processes
  BY DEF HostsInv
<1>3. /\ b \in Processes /\ Like(p, b) /\ b.pid = p.pid /\ b.sockets = p.sockets
      /\ b.up /\ b.mining = p.mining
  BY <1>2 DEF Processes, Like
<1> HIDE DEF b
<1>4. procs' \subseteq Processes
  BY <1>1, <1>3 DEF HostsInv
<1>5. PidFilesNameTheProcesses'
  <2>1. \A q \in procs' : pidfile'[q.host][q.tag] = q.pid
    BY <1>1, <1>3 DEF HostsInv, PidFilesNameTheProcesses, Like
  <2>2. ASSUME NEW q \in procs \ {p}, q.host = p.host
        PROVE  q.pid # p.pid /\ q.tag # p.tag
    BY <2>2 DEF HostsInv, PidFilesNameTheProcesses
  <2>3. \A q, r \in procs' : q.host = r.host /\ (q.pid = r.pid \/ q.tag = r.tag) => q = r
    BY <1>1, <1>3, <2>2 DEF HostsInv, PidFilesNameTheProcesses, Like
  <2> QED
    BY <2>1, <2>3 DEF PidFilesNameTheProcesses
<1>6. PidFilesDiffer'
  BY <1>1 DEF HostsInv, PidFilesDiffer
<1>7. SocketsAreExclusive'
  <2>1. \A q \in procs' : q.tag \in NodeTags => <<"tcp", q.rpc>> \in q.sockets
    BY <1>1, <1>3 DEF HostsInv, SocketsAreExclusive, Like
  <2>2. \A q, r \in procs' :
          q.up /\ r.up /\ q.host = r.host /\ q.sockets \cap r.sockets # {} => q = r
    BY <1>1, <1>3 DEF HostsInv, SocketsAreExclusive, Like
  <2> QED
    BY <2>1, <2>2 DEF SocketsAreExclusive
<1>8. KeysAreOwn'
  <2>1. /\ b.gen <= gens'
        /\ \A key \in b.keys : key[1] = b.gen /\ (key[2] = 0 \/ b.tag[3] = key[2])
    BY <1>3 DEF HostsInv, KeysAreOwn, Like
  <2> QED
    BY <1>1, <2>1 DEF HostsInv, KeysAreOwn
<1>9. OnlyOld
  BY <1>1, <1>3 DEF OnlyOld, Like
<1>10. UpStay
  <2>1. ASSUME NEW q \in procs, q.up, ~q.ending
        PROVE  \E r \in procs' : Like(q, r) /\ r.up /\ (q.mining => r.mining)
    <3>1. CASE q = p
      BY <1>1, <1>3, <3>1
    <3>2. CASE q # p
      BY <1>1, <2>1, <3>2 DEF Like
    <3> QED
      BY <3>1, <3>2
  <2> QED
    BY <2>1 DEF UpStay
<1> QED
  BY <1>1, <1>4, <1>5, <1>6, <1>7, <1>8, <1>9, <1>10 DEF HostsInv

\* A process that finds a socket taken did not listen.
LEMMA HostsBindFails ==
  ASSUME HostsInv, NEW p \in procs, BindFails(p), UNCHANGED gens
  PROVE  HostsInv' /\ OnlyOld /\ UpStay
<1>1. procs' = procs \ {p} /\ UNCHANGED pidfile /\ ~p.up
  BY DEF BindFails
<1>2. HostsInv' /\ OnlyOld
  BY <1>1, HostsLoseProcesses DEF HostsInv
<1>3. UpStay
  BY <1>1 DEF UpStay, Like
<1> QED
  BY <1>2, <1>3

\* A process ends when it has been told to.
LEMMA HostsExit ==
  ASSUME HostsInv, NEW p \in procs, Exit(p), UNCHANGED gens
  PROVE  HostsInv' /\ OnlyOld /\ UpStay
<1>1. procs' = procs \ {p} /\ UNCHANGED pidfile /\ p.ending
  BY DEF Exit
<1>2. HostsInv' /\ OnlyOld
  BY <1>1, HostsLoseProcesses DEF HostsInv
<1>3. UpStay
  BY <1>1 DEF UpStay, Like
<1> QED
  BY <1>2, <1>3

\* The new process of a tag takes the place of the tag's earlier one.
LEMMA HostsLaunch ==
  ASSUME HostsInv, UNCHANGED gens,
         NEW h \in HostNames, NEW tag \in Tags, NEW rpc \in Ports \cup {0},
         NEW sockets \in SUBSET ({"tcp", "udp"} \X Ports),
         NEW gen \in 0 .. gens, NEW keys \in SUBSET (Nat \X Nat),
         tag \in NodeTags => <<"tcp", rpc>> \in sockets,
         \A key \in keys : key[1] = gen /\ (key[2] = 0 \/ tag[3] = key[2]),
         Launch(h, tag, KillLast(h, tag), sockets, rpc, gen, keys)
  PROVE  /\ HostsInv'
         /\ \E new \in procs' :
              /\ procs' = {p \in procs : ~(p.host = h /\ p.tag = tag)} \cup {new}
              /\ new.host = h /\ new.tag = tag /\ new.rpc = rpc /\ new.gen = gen
              /\ ~new.ending
              /\ \A p \in procs' : p.host = h /\ p.pid = pidfile'[h][tag] <=> p = new
<1> DEFINE pid == CHOOSE n \in Pids : n \in FreshPids(h)
           new == [pid |-> pid, host |-> h, tag |-> tag, sockets |-> sockets, rpc |-> rpc,
                   gen |-> gen, keys |-> keys, up |-> FALSE, mining |-> FALSE,
                   ending |-> FALSE]
           others == {p \in procs : ~(p.host = h /\ p.tag = tag)}
<1>1. procs' = others \cup {new} /\ pidfile' = [pidfile EXCEPT ![h][tag] = pid]
  BY KillLastEndsTheTag DEF Launch, WritePid
<1>2. /\ pid \in Pids /\ pid # 0
      /\ \A p \in procs : p.host = h => p.pid # pid
      /\ \A t \in Tags : pidfile[h][t] # pid
  <2>1. FreshPids(h) # {}
    BY DEF Launch
  <2>2. pid \in Pids /\ pid \in FreshPids(h)
    BY <2>1 DEF FreshPids
  <2> QED
    BY <2>2, PidsAssumption DEF FreshPids
<1> HIDE DEF pid
<1>3. /\ new \in Processes /\ new.pid = pid /\ new.host = h /\ new.tag = tag
      /\ new.sockets = sockets /\ new.rpc = rpc /\ new.gen = gen /\ new.keys = keys
      /\ new.up = FALSE /\ ~new.ending
  BY <1>2 DEF HostsInv, Processes
<1> HIDE DEF new
<1>4. procs' \subseteq Processes
  BY <1>1, <1>3 DEF HostsInv
<1>5. /\ pidfile' \in [HostNames -> [Tags -> Pids \cup {0}]]
      /\ \A g \in HostNames : \A t \in Tags :
           pidfile'[g][t] = IF g = h /\ t = tag THEN pid ELSE pidfile[g][t]
  BY <1>1, <1>2 DEF HostsInv
<1>6. PidFilesDiffer'
  BY <1>2, <1>5 DEF HostsInv, PidFilesDiffer
<1>7. PidFilesNameTheProcesses'
  <2>1. \A p \in procs' : pidfile'[p.host][p.tag] = p.pid
    BY <1>1, <1>3, <1>4, <1>5 DEF HostsInv, PidFilesNameTheProcesses, Processes
  <2>2. \A p, q \in procs' : p.host = q.host /\ (p.pid = q.pid \/ p.tag = q.tag) => p = q
    BY <1>1, <1>2, <1>3 DEF HostsInv, PidFilesNameTheProcesses
  <2> QED
    BY <2>1, <2>2 DEF PidFilesNameTheProcesses
<1>8. SocketsAreExclusive'
  BY <1>1, <1>3 DEF HostsInv, SocketsAreExclusive
<1>9. KeysAreOwn'
  <2>1. new.gen <= gens'
    BY <1>3 DEF HostsInv
  <2> QED
    BY <1>1, <1>3, <2>1 DEF HostsInv, KeysAreOwn
<1>10. \A p \in procs' : p.host = h /\ p.pid = pidfile'[h][tag] <=> p = new
  BY <1>1, <1>2, <1>3, <1>5
<1> QED
  BY <1>1, <1>3, <1>4, <1>5, <1>6, <1>7, <1>8, <1>9, <1>10 DEF HostsInv

\* start_chain_pre.py starts the bootnode of a chain: no geth.
LEMMA PreStartLaunches ==
  ASSUME HostsInv, UNCHANGED gens, NEW h \in HostNames, NEW c \in Chains, HasTags(c),
         StartChainPre(c.type, h, BootTag(c))
  PROVE  /\ HostsInv' /\ c.type \in {"eth-poa", "eth-pow"}
         /\ \E new \in procs' :
              /\ procs' = {p \in procs : ~(p.host = h /\ p.tag = BootTag(c))} \cup {new}
              /\ new.host = h /\ new.tag = BootTag(c) /\ new.gen = 0
<1> DEFINE others == KillLast(h, BootTag(c))
           free   == FreePorts(others, h)
<1>1. c.type \in {"eth-poa", "eth-pow"} /\ BootStart(h, BootTag(c))
  BY DEF StartChainPre, EthPoaBoot, EthPowBoot
<1>2. BootTag(c) \in Tags /\ BootTag(c) \notin NodeTags
  BY <1>1, TagsAssumption DEF HasTags, Tags
<1>3. free \in SUBSET Nat /\ free \subseteq Ports /\ free # {}
  BY <1>1, PortsAssumption DEF BootStart, FreePorts
<1>4. Launch(h, BootTag(c), others, BootSockets(Min(free)), 0, 0, {})
  BY <1>1 DEF BootStart
<1>5. BootSockets(Min(free)) \in SUBSET ({"tcp", "udp"} \X Ports)
  BY <1>3, MinIsElement DEF BootSockets
<1>6. 0 \in 0 .. gens
  BY DEF HostsInv
<1> HIDE DEF free
<1>7. /\ HostsInv'
      /\ \E new \in procs' :
              /\ procs' = {p \in procs : ~(p.host = h /\ p.tag = BootTag(c))} \cup {new}
              /\ new.host = h /\ new.tag = BootTag(c) /\ new.rpc = 0 /\ new.gen = 0
              /\ ~new.ending
              /\ \A p \in procs' : p.host = h /\ p.pid = pidfile'[h][BootTag(c)] <=> p = new
  <2>1. /\ {} \in SUBSET (Nat \X Nat) /\ 0 \in Ports \cup {0}
        /\ \A key \in {} : key[1] = 0 /\ (key[2] = 0 \/ BootTag(c)[3] = key[2])
        /\ BootTag(c) \in NodeTags => <<"tcp", 0>> \in BootSockets(Min(free))
    BY <1>2
  <2> QED
    BY <1>2, <1>4, <1>5, <1>6, <2>1, HostsLaunch
<1> QED
  BY <1>1, <1>7

\* start_chain.py starts the geth of a node, with keys of the chain's genesis block; it is
\* found by its pid file.
LEMMA StartLaunches ==
  ASSUME HostsInv, UNCHANGED gens, NEW c \in Chains, HasTags(c), NEW j \in DOMAIN c.nodes,
         NEW h \in HostNames, c.gen <= gens,
         NEW keys, keys \subseteq {SignerAccount(c.gen, j), GenesisAccount(c.gen)},
         StartChain(c.type, h, NodeTag(c, j), c.gen, keys)
  PROVE  /\ HostsInv' /\ c.type \in {"eth-poa", "eth-pow"}
         /\ \E new \in procs' :
              /\ procs' = {p \in procs : ~(p.host = h /\ p.tag = NodeTag(c, j))} \cup {new}
              /\ new.host = h /\ new.tag = NodeTag(c, j) /\ new.gen = c.gen
              /\ new.rpc \in Ports /\ ~new.ending
              /\ \A p \in procs' : p.host = h /\ p.pid = pidfile'[h][NodeTag(c, j)] <=> p = new
<1> DEFINE others == KillLast(h, NodeTag(c, j))
           free   == FreePorts(others, h)
           rpc    == Min(free)
           p2p    == Min(free \ {rpc})
<1>1. c.type \in {"eth-poa", "eth-pow"} /\ NodeStart(h, NodeTag(c, j), c.gen, keys)
  BY DEF StartChain, EthPoaNode, EthPowNode
<1>2. NodeTag(c, j) \in Tags
  BY <1>1 DEF HasTags, Tags
<1>3. free \subseteq Ports /\ Cardinality(free) >= 2
  BY <1>1 DEF NodeStart, FreePorts
<1>4. Launch(h, NodeTag(c, j), others, GethSockets(rpc, p2p), rpc, c.gen, keys)
  BY <1>1 DEF NodeStart
<1> HIDE DEF free, rpc, p2p
<1>5. free # {} /\ free \ {rpc} # {}
  <2>1. Cardinality({}) = 0 /\ Cardinality({rpc}) = 1
    BY FS_EmptySet, FS_Singleton
  <2>2. ~(2 <= 0) /\ ~(2 <= 1)
    OBVIOUS
  <2>3. free \ {rpc} = {} => free = {} \/ free = {rpc}
    OBVIOUS
  <2> QED
    BY <1>3, <2>1, <2>2, <2>3
<1>6. free \in SUBSET Nat /\ free \ {rpc} \in SUBSET Nat
  BY <1>3, PortsAssumption
<1>7. rpc \in Ports /\ p2p \in Ports
  BY <1>3, <1>5, <1>6, MinIsElement DEF rpc, p2p
<1>8. GethSockets(rpc, p2p) \in SUBSET ({"tcp", "udp"} \X Ports)
      /\ <<"tcp", rpc>> \in GethSockets(rpc, p2p)
  BY <1>7 DEF GethSockets
<1>9. c.gen \in 0 .. gens
  BY DEF HostsInv, Chains
<1>10. j \in Nat
  <2>1. c.nodes \in Seq(Nodes)
    BY DEF Chains
  <2> QED
    BY <2>1
<1>11. /\ keys \in SUBSET (Nat \X Nat)
       /\ \A key \in keys : key[1] = c.gen /\ (key[2] = 0 \/ NodeTag(c, j)[3] = key[2])
  BY <1>9, <1>10 DEF SignerAccount, GenesisAccount, NodeTag, HostsInv
<1>12. /\ HostsInv'
       /\ \E new \in procs' :
              /\ procs' = {p \in procs : ~(p.host = h /\ p.tag = NodeTag(c, j))} \cup {new}
              /\ new.host = h /\ new.tag = NodeTag(c, j) /\ new.rpc = rpc /\ new.gen = c.gen
              /\ ~new.ending
              /\ \A p \in procs' : p.host = h /\ p.pid = pidfile'[h][NodeTag(c, j)] <=> p = new
  <2>1. /\ NodeTag(c, j) \in NodeTags => <<"tcp", rpc>> \in GethSockets(rpc, p2p)
        /\ rpc \in Ports \cup {0}
    BY <1>7, <1>8
  <2> QED
    BY <1>2, <1>4, <1>8, <1>9, <1>11, <2>1, HostsLaunch
<1> QED
  BY <1>1, <1>7, <1>12


----------------------------------------------------------------------------
(* What becomes of the rest of the invariant, whatever the processes do. *)

\* The types that do not belong to the hosts.
RestTyped ==
  /\ config_db \in [ConfigNames -> [st : {"absent", "truncated", "whole"}, chains : Configs]]
  /\ script = NoScript \/ script \in Scripts
  /\ source \in 1 .. MaxSource
  /\ cache \in [src : NoFile .. EmptyFile, res : NoFile .. EmptyFile]
  /\ fresh = Nothing \/ fresh \in {"started", "deployed", "stopping", "stopped"} \X ConfigNames
  /\ interrupted \in {"none", "start", "stop", "accounts", "deploy"}

\* The invariant in the parts that the lemmas below are about.
LEMMA IInvParts ==
  IInv <=> /\ HostsInv /\ RestTyped /\ ScriptFits /\ GenesisIsNew /\ StartIsAsFar
           /\ StopIsAsFar /\ FreshIsKept /\ DeployFits /\ CacheAgrees /\ DeploymentIsUsable
  BY DEF IInv, HostsInv, RestTyped, Typed

\* The parts of the invariant after a step.
LEMMA IInvPartsNext ==
  IInv' <=> /\ HostsInv' /\ RestTyped' /\ ScriptFits' /\ GenesisIsNew' /\ StartIsAsFar'
            /\ StopIsAsFar' /\ FreshIsKept' /\ DeployFits' /\ CacheAgrees' /\ DeploymentIsUsable'
  BY DEF IInv, HostsInv, RestTyped, Typed

\* No script runs, and nothing is left of the last ones: only the cache has to agree.
LEMMA NothingRuns ==
  ASSUME script' = NoScript, fresh' = Nothing
  PROVE  /\ ScriptFits' /\ GenesisIsNew' /\ StartIsAsFar' /\ StopIsAsFar'
         /\ FreshIsKept' /\ DeployFits' /\ DeploymentIsUsable'
<1>1. script'.kind = "none" /\ fresh'[1] = "none"
  BY DEF NoScript, Nothing
<1> QED
  BY <1>1 DEF ScriptFits, GenesisIsNew, StartIsAsFar, Starting, StopIsAsFar, FreshIsKept,
       DeployFits, DeploymentIsUsable

\* A script ends: interrupted, when a save crashes, or because something fails.
Ends ==
  /\ script # NoScript /\ script' = NoScript /\ fresh' = Nothing
  /\ procs' \subseteq procs /\ UNCHANGED <<pidfile, gens, DeployVars>>
  /\ \/ UNCHANGED interrupted /\ (script.kind = "deploy" => Deployed)
     \/ interrupted = "none" /\ interrupted' = script.kind
  /\ UNCHANGED config_db \/ CrashInSave(script.cfg)

\* A script that ends, whatever has ended it, leaves what is on the hosts as it is.
LEMMA EndStep ==
  ASSUME IInv, Ends
  PROVE  IInv'
<1> USE IInvParts
<1>1. HostsInv'
  BY HostsLoseProcesses DEF HostsInv, Ends
<1>2. script \in Scripts
  BY DEF RestTyped, Ends
<1>3. script.cfg \in ConfigNames /\ script.kind \in {"start", "stop", "accounts", "deploy"}
  BY <1>2 DEF Scripts
<1>4. RestTyped'
  <2>1. config_db' \in [ConfigNames -> [st : {"absent", "truncated", "whole"}, chains : Configs]]
    <3>1. Truncated \in [st : {"absent", "truncated", "whole"}, chains : Configs]
      BY DEF Truncated, Configs
    <3> QED
      BY <1>3, <3>1 DEF Ends, CrashInSave, RestTyped
  <2> QED
    BY <1>3, <2>1 DEF Ends, RestTyped, DeployVars
<1>5. CacheAgrees'
  <2>1. script'.kind = "none"
    BY DEF Ends, NoScript
  <2> SUFFICES ASSUME interrupted' # "deploy" PROVE CacheAgrees'
    BY DEF CacheAgrees
  <2>2. script.kind = "deploy" => Deployed
    BY DEF Ends
  <2>3. NoneWriting /\ interrupted # "deploy"
    <3>1. NoneWriting
      BY <2>2 DEF NoneWriting, Writing, Working, Deployed
    <3>2. interrupted # "deploy"
      BY DEF Ends
    <3> QED
      BY <3>1, <3>2
  <2>4. cache.src = cache.res /\ cache.res # EmptyFile
    BY <2>3 DEF CacheAgrees, NoneWriting, Writing, Working
  <2> QED
    BY <2>1, <2>4 DEF CacheAgrees, Ends, DeployVars, NoneWriting, NoFile, EmptyFile
<1> QED
  BY <1>1, <1>4, <1>5, NothingRuns, IInvPartsNext DEF Ends


----------------------------------------------------------------------------
(* The operator, who waits for the end of a script. *)

\* A save leaves the file with the config or truncated.
LEMMA SavedIsTyped ==
  ASSUME RestTyped, NEW n \in ConfigNames, NEW chains \in Configs, SaveConfig(n, chains)
  PROVE  config_db' \in [ConfigNames -> [st : {"absent", "truncated", "whole"}, chains : Configs]]
<1>1. File(chains) \in [st : {"absent", "truncated", "whole"}, chains : Configs]
  BY DEF File
<1> QED
  BY <1>1 DEF RestTyped, SaveConfig

\* The configs before the first script have their type.
LEMMA InitialFilesAreTyped ==
  ASSUME NEW chains \in InitConfigs
  PROVE  InitialFiles(chains) \in
           [ConfigNames -> [st : {"absent", "truncated", "whole"}, chains : Configs]]
<1>1. File(chains) \in [st : {"absent", "truncated", "whole"}, chains : Configs]
  BY ConfigsAssumption DEF File
<1>2. Absent \in [st : {"absent", "truncated", "whole"}, chains : Configs]
  BY DEF Absent, Configs
<1> QED
  BY <1>1, <1>2 DEF InitialFiles

\* The invariant holds before the first script.
LEMMA InitIsGood ==
  ASSUME Init
  PROVE  IInv
<1>1. config_db \in [ConfigNames -> [st : {"absent", "truncated", "whole"}, chains : Configs]]
  BY InitialFilesAreTyped DEF Init
<1>2. HostsInv
  BY DEF Init, HostsInit, HostsInv, PidFilesNameTheProcesses, PidFilesDiffer,
       SocketsAreExclusive, KeysAreOwn
<1>3. RestTyped
  BY <1>1, BoundsAssumption DEF Init, RestTyped, NoFile, EmptyFile
<1>4. script.kind = "none" /\ fresh[1] = "none" /\ fresh = Nothing /\ script = NoScript
  BY DEF Init, NoScript, Nothing
<1>5. /\ ScriptFits /\ GenesisIsNew /\ StartIsAsFar /\ StopIsAsFar
      /\ FreshIsKept /\ DeployFits /\ DeploymentIsUsable
  BY <1>4 DEF ScriptFits, GenesisIsNew, StartIsAsFar, Starting, StopIsAsFar, FreshIsKept,
       DeployFits, DeploymentIsUsable
<1>6. CacheAgrees
  BY <1>4, BoundsAssumption DEF Init, CacheAgrees, NoFile, EmptyFile
<1> QED
  BY <1>2, <1>3, <1>5, <1>6, IInvParts

\* The generated configs.
LEMMA GeneratedAreConfigs ==
  ASSUME NEW n \in ConfigNames, n # "parallel_chain"
  PROVE  Generated(n) \in Configs
<1> DEFINE Names == {"relay", "parallel"} \X Nat
<1>1. ASSUME NEW name \in Names, NEW server \in Nat
      PROVE  PoaChain(name, server) \in Chains /\ PoaChain(name, server).name = name
  <2> DEFINE host == Servers[(server % Len(Servers)) + 1]
             node == [host |-> host, rpcport |-> 0, signer |-> 0, default |-> 0]
  <2>1. Servers \in Seq(HostNames) /\ Len(Servers) \in Nat \ {0}
    BY ServersAssumption, EmptySeq
  <2>2. (server % Len(Servers)) + 1 \in 1 .. Len(Servers)
    BY <2>1
  <2>3. host \in HostNames
    BY <2>1, <2>2
  <2> HIDE DEF host
  <2>4. node \in Nodes
    BY <2>3 DEF Nodes
  <2> HIDE DEF node
  <2>5. <<node>> \in Seq(Nodes) /\ <<node>> # <<>>
    BY <2>4
  <2>6. NoContract \in [gen : Nat, src : Nat]
    BY DEF NoContract
  <2>7. PoaChain(name, server) = [name |-> name, type |-> "eth-poa", gen |-> 0,
                                  contract |-> NoContract, nodes |-> <<node>>]
    BY DEF PoaChain, node, host
  <2> QED
    BY <2>5, <2>6, <2>7 DEF Chains
<1>2. n \in {"tor", "aor", "nor"} /\ \A i \in DOMAIN Generated(n) : HasTags(Generated(n)[i])
  BY ConfigsAssumption
<1> DEFINE tor == TorConfigs(ParaNum)
           nor == NorConfigs(ParaNum)
<1>3. /\ tor \in Seq(Chains) /\ DOMAIN tor = 1 .. ParaNum + 1
      /\ \A i, k \in DOMAIN tor : tor[i].name = tor[k].name => i = k
  <2> DEFINE rest == [i \in 1 .. ParaNum |-> PoaChain(<<"parallel", i>>, i - 1)]
             first == PoaChain(<<"relay", 0>>, 0)
  <2>1. \A i \in 1 .. ParaNum : rest[i] \in Chains /\ rest[i].name = <<"parallel", i>>
    <3> TAKE i \in 1 .. ParaNum
    <3>1. <<"parallel", i>> \in Names /\ i - 1 \in Nat
      BY BoundsAssumption
    <3> QED
      BY <1>1, <3>1
  <2>2. first \in Chains /\ first.name = <<"relay", 0>>
    <3>1. <<"relay", 0>> \in Names
      OBVIOUS
    <3> QED
      BY <1>1, <3>1
  <2>3. tor = <<first>> \o rest
    BY DEF TorConfigs
  <2>4. DOMAIN rest = 1 .. ParaNum /\ rest \in Seq(Chains) /\ Len(rest) = ParaNum
    BY <2>1, BoundsAssumption
  <2> HIDE DEF tor, rest, first
  <2>5. /\ tor \in Seq(Chains) /\ DOMAIN tor = 1 .. ParaNum + 1
        /\ \A i \in DOMAIN tor : tor[i] = IF i = 1 THEN first ELSE rest[i - 1]
    BY <2>2, <2>3, <2>4, BoundsAssumption
  <2>6. ASSUME NEW i \in DOMAIN tor
        PROVE  /\ i = 1 => tor[i].name = <<"relay", 0>>
               /\ i # 1 => tor[i].name = <<"parallel", i - 1>> /\ i \in Nat
    <3>1. i # 1 => i - 1 \in 1 .. ParaNum /\ i \in Nat
      BY <2>5, BoundsAssumption
    <3> QED
      BY <2>1, <2>2, <2>5, <3>1
  <2>7. ASSUME NEW i \in DOMAIN tor, NEW k \in DOMAIN tor, tor[i].name = tor[k].name
        PROVE  i = k
    <3>1. CASE i = 1 /\ k # 1
      BY <2>6, <2>7, <3>1
    <3>2. CASE i # 1 /\ k = 1
      BY <2>6, <2>7, <3>2
    <3>3. CASE i # 1 /\ k # 1
      <4>1. i \in Nat /\ k \in Nat /\ i - 1 = k - 1
        BY <2>6, <2>7, <3>3
      <4> QED
        BY <4>1
    <3> QED
      BY <3>1, <3>2, <3>3
  <2> QED
    BY <2>5, <2>7
<1>4. /\ nor \in Seq(Chains) /\ DOMAIN nor = 1 .. ParaNum + 1
      /\ \A i, k \in DOMAIN nor : nor[i].name = nor[k].name => i = k
  <2>1. \A i \in 1 .. ParaNum + 1 : nor[i] \in Chains /\ nor[i].name = <<"parallel", i - 1>>
    <3> TAKE i \in 1 .. ParaNum + 1
    <3>1. <<"parallel", i - 1>> \in Names /\ i - 1 \in Nat
      BY BoundsAssumption
    <3> QED
      BY <1>1, <3>1 DEF NorConfigs
  <2>2. DOMAIN nor = 1 .. ParaNum + 1 /\ nor \in Seq(Chains)
    BY <2>1, BoundsAssumption DEF NorConfigs
  <2> QED
    BY <2>1, <2>2
<1>5. Generated(n) = tor \/ Generated(n) = nor
  BY <1>2 DEF Generated, AorConfigs
<1> HIDE DEF tor, nor
<1> QED
  BY <1>2, <1>3, <1>4, <1>5 DEF Configs

\* What a start has left, as long as nothing that it is about changes; the config of
\* another name may.
LEMMA SameDeployment ==
  ASSUME RestTyped, DeploymentIsUsable, UNCHANGED <<procs, fresh, source, interrupted>>,
         fresh # Nothing => config_db'[fresh[2]] = config_db[fresh[2]]
  PROVE  DeploymentIsUsable'
<1> SUFFICES ASSUME fresh[1] \in {"started", "deployed"}
             PROVE  DeploymentIsUsable'
  BY DEF DeploymentIsUsable
<1>1. Load(fresh[2])' = Load(fresh[2])
  BY DEF Load, Nothing
<1>2. \A c, j : Served(c, j)' <=> Served(c, j)
  BY DEF Served, Answers
<1> HIDE DEF Served
<1> DEFINE chains == Load(fresh[2])
<1>3. \A i \in DOMAIN chains :
          chains[i].type = "eth-poa" =>
            /\ \A j \in DOMAIN chains[i].nodes : Served(chains[i], j)
            /\ fresh[1] = "deployed" => chains[i].contract.gen = chains[i].gen
            /\ fresh[1] = "deployed" /\ interrupted # "deploy" =>
                 chains[i].contract.src = source
  BY DEF DeploymentIsUsable
<1> QED
  BY <1>1, <1>2, <1>3 DEF DeploymentIsUsable

\* A script begins.
LEMMA RunScriptStep ==
  ASSUME IInv, script = NoScript, NEW kind \in {"start", "stop", "accounts", "deploy"},
         NEW n \in ConfigNames, NEW reset \in BOOLEAN, RunScript(kind, n, reset)
  PROVE  IInv'
<1> USE IInvParts
<1> DEFINE chains == Load(n)
           thr == IF kind \in {"deploy", "accounts"}
                    THEN [i \in DOMAIN Load(n) |-> Thread("work")] ELSE <<>>
<1>1. /\ UNCHANGED <<config_db, procs, pidfile, gens, source, cache, interrupted>>
      /\ CanLoad(n)
      /\ script' = [kind |-> kind, cfg |-> n, reset |-> reset, chains |-> chains,
                    st |-> "chain", i |-> 1, j |-> 1, skipped |-> FALSE, failed |-> {},
                    thr |-> thr]
  BY DEF RunScript, Begin, hostVars, DeployVars
<1>2. \/ fresh' = fresh /\ kind = "deploy" /\ fresh[1] # "stopped"
      \/ fresh' = Nothing
      \/ /\ fresh' = <<"stopping", n>> /\ kind = "stop"
         /\ fresh \in {<<"started", n>>, <<"deployed", n>>}
  BY DEF RunScript
<1>3. chains \in Configs
  BY DEF RestTyped, Load
<1>4. /\ chains \in Seq(Chains) /\ Len(chains) \in Nat /\ DOMAIN chains = 1 .. Len(chains)
      /\ \A i \in DOMAIN chains :
           /\ chains[i] \in Chains
           /\ Len(chains[i].nodes) \in Nat \ {0}
           /\ DOMAIN chains[i].nodes = 1 .. Len(chains[i].nodes)
  BY <1>3, ConfigChains
<1>5. /\ thr \in Seq(Threads)
      /\ kind \in {"deploy", "accounts"} => DOMAIN thr = DOMAIN chains
      /\ \A i \in DOMAIN thr : thr[i] = Thread("work")
  <2>1. Thread("work") \in Threads
    BY BoundsAssumption DEF Thread, Threads, NoFile, EmptyFile
  <2> QED
    BY <1>4, <2>1
<1>6. Thread("work").st = "work" /\ Thread("work").node = 1
  BY DEF Thread
<1> HIDE DEF chains, thr
<1>7. HostsInv'
  BY <1>1, HostsLoseProcesses DEF HostsInv
<1>8. script' \in Scripts
  BY <1>1, <1>3, <1>5 DEF Scripts
<1>9. RestTyped'
  BY <1>1, <1>2, <1>8 DEF RestTyped
<1>10. script' # NoScript /\ script'.kind = kind /\ script.kind = "none"
  BY <1>1 DEF NoScript
<1>11. ScriptFits'
  <2>1. CanLoad(n)' /\ Load(n)' = chains
    BY <1>1 DEF CanLoad, Load, chains
  <2> QED
    BY <1>1, <1>4, <1>5, <1>6, <2>1 DEF ScriptFits, Chain
<1>12. GenesisIsNew'
  BY <1>1 DEF GenesisIsNew
<1>13. StartIsAsFar'
  BY <1>1, <1>4 DEF StartIsAsFar, HasStarted, HasMined
<1>14. StopIsAsFar'
  <2>1. kind = "stop" => Load(n)' = chains
    BY <1>1 DEF Load, chains
  <2>2. fresh'[1] = "stopping" =>
          \A i \in DOMAIN chains : \A j \in DOMAIN chains[i].nodes :
             ~(i < 1 \/ (i = 1 /\ j < 1))
    BY <1>4
  <2>3. fresh'[1] # "stopped"
    BY <1>1, <1>2 DEF Nothing
  <2> QED
    BY <1>1, <2>1, <2>2, <2>3 DEF StopIsAsFar, Load
<1>15. FreshIsKept'
  <2>1. CASE fresh' = fresh /\ kind = "deploy" /\ fresh[1] # "stopped"
    BY <1>1, <1>10, <2>1 DEF FreshIsKept, CanLoad, Load
  <2>2. CASE /\ fresh' = <<"stopping", n>> /\ kind = "stop"
             /\ fresh \in {<<"started", n>>, <<"deployed", n>>}
    <3>1. fresh # Nothing /\ fresh[2] = n /\ fresh'[2] = n /\ fresh'[1] = "stopping"
      BY <2>2 DEF Nothing
    <3> QED
      BY <1>1, <2>2, <3>1 DEF FreshIsKept, CanLoad, Load
  <2>3. CASE fresh' = Nothing
    BY <2>3 DEF FreshIsKept
  <2> QED
    BY <1>2, <2>1, <2>2, <2>3
<1>16. DeployFits'
  <2> SUFFICES ASSUME kind = "deploy" PROVE DeployFits'
    BY <1>10 DEF DeployFits
  <2>1. Load(n)' = chains /\ (fresh' = fresh \/ fresh' = Nothing)
    BY <1>1, <1>2 DEF Load, chains
  <2>2. \A i \in DOMAIN chains : chains[i] = [chains[i] EXCEPT !.contract = chains[i].contract]
    BY <1>4 DEF Chains
  <2>3. ASSUME fresh[2] = n, NEW i \in DOMAIN chains
        PROVE  /\ thr[i].st = "work"
               /\ chains[i].type = "eth-poa" /\ fresh[1] = "deployed" =>
                    /\ chains[i].contract.gen = chains[i].gen
                    /\ interrupted # "deploy" => chains[i].contract.src = source
    <3>1. thr[i].st = "work"
      BY <1>5, <1>6
    <3>2. chains = Load(fresh[2])
      BY <2>3 DEF chains
    <3> QED
      BY <3>1, <3>2 DEF DeploymentIsUsable
  <2>4. fresh' = Nothing => fresh'[1] = "none"
    BY DEF Nothing
  <2> QED
    BY <1>1, <1>4, <2>1, <2>2, <2>3, <2>4 DEF DeployFits, Contract
<1>17. CacheAgrees'
  <2>1. interrupted # "deploy" => cache.src = cache.res /\ cache.res # EmptyFile
    BY <1>10 DEF CacheAgrees, NoneWriting
  <2>2. kind = "deploy" => \A i \in DOMAIN thr : thr[i].st = "work"
    BY <1>5, <1>6
  <2> QED
    BY <1>1, <2>1, <2>2 DEF CacheAgrees, NoneWriting, Writing, Working, EmptyFile
<1>18. DeploymentIsUsable'
  <2>1. CASE fresh' = fresh
    BY <1>1, <2>1, SameDeployment
  <2>2. CASE fresh' # fresh
    <3>1. fresh'[1] \notin {"started", "deployed"}
      BY <1>2, <2>2 DEF Nothing
    <3> QED
      BY <3>1 DEF DeploymentIsUsable
  <2> QED
    BY <2>1, <2>2
<1> QED
  BY <1>7, <1>9, <1>11, <1>12, <1>13, <1>14, <1>15, <1>16, <1>17, <1>18, IInvPartsNext

\* The configs are set up anew, or edited.
LEMMA EditConfigsStep ==
  ASSUME IInv, script = NoScript, Initialize \/ EditConfig
  PROVE  IInv'
<1> USE IInvParts
<1>1. /\ script' = NoScript /\ fresh' = Nothing
      /\ UNCHANGED <<procs, pidfile, gens, source, cache, interrupted>>
  BY DEF Initialize, EditConfig, Forget, hostVars, DeployVars
<1>2. HostsInv'
  BY <1>1, HostsLoseProcesses DEF HostsInv
<1>3. config_db' \in [ConfigNames -> [st : {"absent", "truncated", "whole"}, chains : Configs]]
  <2> DEFINE n == "parallel_chain"
  <2>1. CASE Initialize
    BY <2>1, InitialFilesAreTyped DEF Initialize
  <2>2. CASE EditConfig
    <3>1. PICK chains : SaveConfig(n, chains) /\ (n \in ConfigNames => chains \in Configs)
      <4>1. n \in ConfigNames => Load(n) \in Configs
        BY DEF RestTyped, Load
      <4>2. CASE RemoveItem(n, 1)
        BY <4>1, <4>2, RemovedIsConfig DEF RemoveItem
      <4>3. ASSUME NEW chain \in NewChains,
                   \A i \in DOMAIN Load(n) : Load(n)[i].name # chain.name,
                   AppendItem(n, chain) \/ UpdateItem(n, 1, chain)
            PROVE  \E chains : SaveConfig(n, chains) /\ (n \in ConfigNames => chains \in Configs)
        <5>1. chain \in Chains /\ HasTags(chain)
          BY ConfigsAssumption
        <5>2. CASE AppendItem(n, chain)
          BY <4>1, <4>3, <5>1, <5>2, AppendedIsConfig DEF AppendItem
        <5>3. CASE UpdateItem(n, 1, chain)
          <6>1. SaveConfig(n, [Load(n) EXCEPT ![1] = chain]) /\ 1 \in 1 .. Len(Load(n))
            BY <5>3 DEF UpdateItem
          <6>2. n \in ConfigNames => [Load(n) EXCEPT ![1] = chain] \in Configs
            <7> SUFFICES ASSUME n \in ConfigNames
                         PROVE  [Load(n) EXCEPT ![1] = chain] \in Configs
              OBVIOUS
            <7> DEFINE old == Load(n)
                       new == [old EXCEPT ![1] = chain]
            <7>1. /\ old \in Seq(Chains) /\ DOMAIN old = 1 .. Len(old) /\ 1 \in DOMAIN old
                  /\ \A i \in DOMAIN old : HasTags(old[i])
                  /\ \A i \in DOMAIN old : old[i].name # chain.name
                  /\ \A i, k \in DOMAIN old : old[i].name = old[k].name => i = k
              BY <4>1, <4>3, <6>1, ConfigChains DEF Configs
            <7> HIDE DEF old
            <7>2. /\ new \in Seq(Chains) /\ DOMAIN new = DOMAIN old
                  /\ \A i \in DOMAIN old : new[i] = IF i = 1 THEN chain ELSE old[i]
              BY <5>1, <7>1
            <7> HIDE DEF new
            <7>3. \A i, k \in DOMAIN new : new[i].name = new[k].name => i = k
              BY <7>1, <7>2
            <7>4. \A i \in DOMAIN new : HasTags(new[i])
              BY <5>1, <7>1, <7>2
            <7>5. new \in Configs
              BY <7>2, <7>3, <7>4 DEF Configs
            <7> QED
              BY <7>5 DEF new, old
          <6> QED
            BY <6>1, <6>2
        <5> QED
          BY <4>3, <5>2, <5>3
      <4> QED
        BY <2>2, <4>2, <4>3 DEF EditConfig
    <3>2. CASE n \in ConfigNames
      BY <3>1, <3>2, SavedIsTyped
    <3>3. CASE n \notin ConfigNames
      BY <3>1, <3>3 DEF SaveConfig, RestTyped
    <3> QED
      BY <3>2, <3>3
  <2> QED
    BY <2>1, <2>2
<1>4. RestTyped'
  BY <1>1, <1>3 DEF RestTyped
<1>5. CacheAgrees'
  <2>1. script'.kind = "none" /\ script.kind = "none"
    BY <1>1 DEF NoScript
  <2> QED
    BY <1>1, <2>1 DEF CacheAgrees, NoneWriting, EmptyFile
<1> QED
  BY <1>1, <1>2, <1>4, <1>5, NothingRuns, IInvPartsNext

\* The source is edited: what the cache holds, which agrees, may be another's.
LEMMA EditSourceStep ==
  ASSUME IInv, EditSource
  PROVE  IInv'
<1> USE IInvParts
<1>1. /\ script = NoScript /\ script' = NoScript /\ fresh' = Nothing
      /\ source' \in 1 .. MaxSource
      /\ UNCHANGED <<config_db, procs, pidfile, gens, cache, interrupted>>
  BY DEF EditSource, Forget, hostVars
<1>2. HostsInv'
  BY <1>1, HostsLoseProcesses DEF HostsInv
<1>3. RestTyped'
  BY <1>1 DEF RestTyped
<1>4. CacheAgrees'
  <2>1. script'.kind = "none" /\ script.kind = "none"
    BY <1>1 DEF NoScript
  <2> QED
    BY <1>1, <2>1 DEF CacheAgrees, NoneWriting, EmptyFile
<1> QED
  BY <1>1, <1>2, <1>3, <1>4, NothingRuns, IInvPartsNext

\* A generated config is a new one.
LEMMA GenerateStep ==
  ASSUME IInv, NEW n \in ConfigNames, Generate(n)
  PROVE  IInv'
<1> USE IInvParts
<1>1. /\ script = NoScript /\ script' = NoScript /\ UNCHANGED <<fresh, unstopped>>
      /\ UNCHANGED <<procs, pidfile, gens, source, cache, interrupted>>
      /\ ~HasConfig(n) /\ SaveConfig(n, Generated(n)) /\ n # "parallel_chain"
  BY DEF Generate, Create, hostVars, DeployVars
<1>2. HostsInv'
  BY <1>1, HostsLoseProcesses DEF HostsInv
<1>3. RestTyped'
  BY <1>1, GeneratedAreConfigs, SavedIsTyped DEF RestTyped
<1>4. script'.kind = "none" /\ script.kind = "none"
  BY <1>1 DEF NoScript
<1>5. fresh # Nothing => config_db'[fresh[2]] = config_db[fresh[2]]
  <2> SUFFICES ASSUME fresh # Nothing PROVE config_db'[fresh[2]] = config_db[fresh[2]]
    OBVIOUS
  <2>1. n # fresh[2]
    BY <1>1 DEF FreshIsKept, CanLoad, HasConfig
  <2> QED
    BY <1>1, <2>1 DEF SaveConfig, RestTyped
<1>6. ScriptFits' /\ GenesisIsNew' /\ StartIsAsFar' /\ DeployFits'
  BY <1>1, <1>4 DEF ScriptFits, GenesisIsNew, StartIsAsFar, Starting, DeployFits
<1>7. StopIsAsFar'
  <2>1. fresh[1] # "stopping"
    BY <1>4 DEF FreshIsKept, Nothing
  <2>2. fresh[1] = "stopped" => fresh # Nothing
    BY DEF Nothing
  <2> QED
    BY <1>1, <1>4, <1>5, <2>1, <2>2 DEF StopIsAsFar, Load
<1>8. FreshIsKept'
  BY <1>1, <1>4, <1>5 DEF FreshIsKept, CanLoad, Load
<1>9. CacheAgrees'
  BY <1>1, <1>4 DEF CacheAgrees, NoneWriting, EmptyFile
<1>10. DeploymentIsUsable'
  BY <1>1, <1>5, SameDeployment
<1> QED
  BY <1>2, <1>3, <1>6, <1>7, <1>8, <1>9, <1>10, IInvPartsNext

\* A script comes to its end.
LEMMA FinishStep ==
  ASSUME IInv, Finish
  PROVE  IInv'
<1> USE IInvParts
<1>1. /\ script # NoScript /\ script' = NoScript /\ Through
      /\ UNCHANGED <<config_db, procs, pidfile, gens, source, cache, interrupted>>
  BY DEF Finish, End, hostVars, DeployVars
<1>2. /\ script \in Scripts /\ script.cfg \in ConfigNames /\ script.cfg # "none"
      /\ script.chains \in Configs /\ script.i \in Nat \ {0}
      /\ script.kind \in {"start", "stop", "accounts", "deploy"} /\ script'.kind = "none"
  BY <1>1, ConfigsAssumption DEF RestTyped, Scripts, NoScript
<1>3. /\ DOMAIN script.chains = 1 .. Len(script.chains) /\ Len(script.chains) \in Nat
      /\ \A i \in DOMAIN script.chains :
           DOMAIN script.chains[i].nodes = 1 .. Len(script.chains[i].nodes)
  BY <1>2, ConfigChains
<1>4. HostsInv'
  BY <1>1, HostsLoseProcesses DEF HostsInv
<1>5. CacheAgrees'
  <2>1. NoneWriting
    <3> SUFFICES ASSUME script.kind = "deploy" PROVE NoneWriting
      BY DEF NoneWriting
    <3>1. script.i > Len(script.chains) /\ DOMAIN script.thr = DOMAIN script.chains
      BY <1>1 DEF Through, ScriptFits
    <3>2. DOMAIN script.thr = {} \/ Deployed
      BY <1>2, <1>3, <3>1 DEF DeployFits
    <3> QED
      BY <3>2 DEF NoneWriting, Writing, Working, Deployed
  <2>2. interrupted # "deploy" => cache.src = cache.res /\ cache.res # EmptyFile
    BY <2>1 DEF CacheAgrees, NoneWriting, Writing
  <2> QED
    BY <1>1, <1>2, <2>2 DEF CacheAgrees, NoneWriting, EmptyFile
<1>6. CanLoad(script.cfg) /\ Load(script.cfg) \in Configs
  BY <1>1, <1>2 DEF ScriptFits, Load, RestTyped
<1>7. DOMAIN Load(script.cfg) = DOMAIN script.chains
  BY <1>1, <1>3, <1>6, ConfigChains DEF ScriptFits
<1> DEFINE chains == Load(script.cfg)
<1>8. CASE script.kind = "start" /\ ~script.skipped
  <2>1. fresh' = <<"started", script.cfg>>
    <3>1. fresh[1] # "stopping"
      BY <1>8 DEF FreshIsKept, Nothing
    <3> QED
      BY <1>8, <3>1 DEF Finish
  <2>2. \A i \in DOMAIN script.chains : i < script.i
    BY <1>1, <1>2, <1>3, <1>8 DEF Through
  <2>3. ASSUME NEW i \in DOMAIN chains
        PROVE  /\ chains[i] = script.chains[i] /\ chains[i].type \in {"eth-poa", "eth-pow"}
               /\ \A j \in DOMAIN chains[i].nodes :
                    /\ Recorded(procs, chains[i], j)
                    /\ chains[i].type = "eth-poa" => Served(chains[i], j)
    BY <1>7, <1>8, <2>2 DEF StartIsAsFar, Starting, HasStarted, HasMined
  <2> HIDE DEF chains
  <2>4. fresh'[1] = "started" /\ fresh'[2] = script.cfg
    BY <2>1
  <2>5. \A c, j : Served(c, j)' <=> Served(c, j)
    BY <1>1 DEF Served, Answers
  <2> HIDE DEF Served
  <2>6. Load(fresh[2])' = chains /\ CanLoad(fresh[2])'
    BY <1>1, <1>6, <2>4 DEF chains, Load, CanLoad
  <2>7. RestTyped'
    BY <1>1, <1>2, <2>1 DEF RestTyped
  <2>8. ScriptFits' /\ GenesisIsNew' /\ StartIsAsFar' /\ DeployFits'
    BY <1>1, <1>2 DEF ScriptFits, GenesisIsNew, StartIsAsFar, Starting, DeployFits
  <2>9. StopIsAsFar'
    BY <1>2, <2>4 DEF StopIsAsFar
  <2>10. FreshIsKept'
    BY <1>1, <1>2, <2>3, <2>4, <2>6 DEF FreshIsKept
  <2>11. DeploymentIsUsable'
    BY <2>3, <2>4, <2>5, <2>6 DEF DeploymentIsUsable
  <2> QED
    BY <1>4, <1>5, <2>7, <2>8, <2>9, <2>10, <2>11, IInvPartsNext
<1>9. CASE /\ script.kind = "deploy" /\ fresh[2] = script.cfg
           /\ \A i \in DOMAIN script.thr : script.thr[i].st = "done"
  <2>1. fresh' = <<"deployed", script.cfg>> /\ fresh'[1] = "deployed" /\ fresh'[2] = script.cfg
    <3>1. fresh[1] # "stopping"
      BY <1>9 DEF FreshIsKept, Nothing
    <3> QED
      BY <1>9, <3>1 DEF Finish
  <2>2. fresh # Nothing
    BY <1>2, <1>9 DEF Nothing
  <2>3. \A i \in DOMAIN script.chains : i < script.i /\ i \in DOMAIN script.thr
    BY <1>1, <1>2, <1>3, <1>9 DEF Through, ScriptFits
  <2>4. fresh[1] \in {"started", "deployed"}
    BY <1>9, <2>2 DEF FreshIsKept, RestTyped
  <2>5. ASSUME NEW i \in DOMAIN chains
        PROVE  /\ chains[i] = script.chains[i]
               /\ chains[i].type = "eth-poa" => Contract(chains[i])
    BY <1>7, <1>9, <2>3, <2>4 DEF DeployFits
  <2>6. ASSUME NEW i \in DOMAIN chains, chains[i].type = "eth-poa"
        PROVE  /\ \A j \in DOMAIN chains[i].nodes : Served(chains[i], j)
               /\ chains[i].contract.gen = chains[i].gen
               /\ interrupted # "deploy" => chains[i].contract.src = source
    <3>1. fresh[1] \in {"started", "deployed"} /\ chains = Load(fresh[2])
      BY <1>9, <2>4, <2>5
    <3> QED
      BY <2>5, <2>6, <3>1 DEF DeploymentIsUsable, Contract
  <2> HIDE DEF chains
  <2>7. \A c, j : Served(c, j)' <=> Served(c, j)
    BY <1>1 DEF Served, Answers
  <2> HIDE DEF Served
  <2>8. Load(fresh[2])' = chains /\ CanLoad(fresh[2])'
    BY <1>1, <1>6, <2>1 DEF chains, Load, CanLoad
  <2>9. RestTyped'
    BY <1>1, <1>2, <2>1 DEF RestTyped
  <2>10. ScriptFits' /\ GenesisIsNew' /\ StartIsAsFar' /\ DeployFits'
    BY <1>1, <1>2 DEF ScriptFits, GenesisIsNew, StartIsAsFar, Starting, DeployFits
  <2>11. StopIsAsFar'
    BY <1>2, <2>1 DEF StopIsAsFar
  <2>12. FreshIsKept'
    <3>1. \A i \in DOMAIN chains :
            /\ chains[i].type \in {"eth-poa", "eth-pow"}
            /\ \A j \in DOMAIN chains[i].nodes : Recorded(procs, chains[i], j)
      BY <1>9, <2>2 DEF FreshIsKept, chains
    <3> QED
      BY <1>1, <1>2, <2>1, <2>8, <3>1 DEF FreshIsKept
  <2>13. DeploymentIsUsable'
    BY <1>1, <2>1, <2>6, <2>7, <2>8 DEF DeploymentIsUsable
  <2> QED
    BY <1>4, <1>5, <2>9, <2>10, <2>11, <2>12, <2>13, IInvPartsNext
<1>10. CASE fresh[1] = "stopping"
  <2>1. fresh # Nothing /\ script.kind = "stop" /\ script.cfg = fresh[2]
    BY <1>10 DEF FreshIsKept, Nothing
  <2>2. fresh' = <<"stopped", script.cfg>> /\ fresh'[1] = "stopped" /\ fresh'[2] = script.cfg
    BY <1>10, <2>1 DEF Finish
  <2>3. chains = script.chains /\ \A i \in DOMAIN script.chains : i < script.i
    BY <1>1, <1>2, <1>3, <2>1 DEF Through, StopIsAsFar
  <2>4. \A i \in DOMAIN chains : \A j \in DOMAIN chains[i].nodes :
          <<i, j>> \notin unstopped' => Signalled(procs, chains[i], j)
    <3>1. unstopped' = script.failed
      BY DEF Finish
    <3> QED
      BY <1>10, <2>3, <3>1 DEF StopIsAsFar
  <2>5. \A i \in DOMAIN chains :
            /\ chains[i].type \in {"eth-poa", "eth-pow"}
            /\ \A j \in DOMAIN chains[i].nodes : Recorded(procs, chains[i], j)
    BY <2>1 DEF FreshIsKept
  <2> HIDE DEF chains
  <2>6. Load(fresh[2])' = chains /\ CanLoad(fresh[2])'
    BY <1>1, <1>6, <2>2 DEF chains, Load, CanLoad
  <2>7. RestTyped'
    BY <1>1, <1>2, <2>2 DEF RestTyped
  <2>8. ScriptFits' /\ GenesisIsNew' /\ StartIsAsFar' /\ DeployFits'
    BY <1>1, <1>2 DEF ScriptFits, GenesisIsNew, StartIsAsFar, Starting, DeployFits
  <2>9. StopIsAsFar'
    BY <1>1, <1>2, <2>2, <2>4, <2>6 DEF StopIsAsFar
  <2>10. FreshIsKept'
    BY <1>1, <1>2, <2>2, <2>5, <2>6 DEF FreshIsKept
  <2>11. DeploymentIsUsable'
    BY <2>2 DEF DeploymentIsUsable
  <2> QED
    BY <1>4, <1>5, <2>7, <2>8, <2>9, <2>10, <2>11, IInvPartsNext
<1>11. CASE /\ ~(script.kind = "start" /\ ~script.skipped)
            /\ ~(/\ script.kind = "deploy" /\ fresh[2] = script.cfg
                 /\ \A i \in DOMAIN script.thr : script.thr[i].st = "done")
            /\ fresh[1] # "stopping"
  <2>1. fresh' = Nothing
    BY <1>11 DEF Finish
  <2>2. RestTyped'
    BY <1>1, <2>1 DEF RestTyped
  <2> QED
    BY <1>1, <1>4, <1>5, <2>1, <2>2, NothingRuns, IInvPartsNext
<1> QED
  BY <1>8, <1>9, <1>10, <1>11


----------------------------------------------------------------------------
(* The processes, whatever script runs. *)

\* When no process is new, a record that names a process named it before.
LEMMA OldOnesOnly ==
  ASSUME OnlyOld, NEW c, NEW j
  PROVE  /\ Recorded(procs, c, j) => Recorded(procs', c, j)
         /\ Signalled(procs, c, j) => Signalled(procs', c, j)
  BY DEF OnlyOld, Like, Recorded, Signalled

\* While what listens goes on listening, a node that is served remains so.
LEMMA UpOnesStay ==
  ASSUME UpStay, NEW c, NEW j, Served(c, j)
  PROVE  Served(c, j)'
<1>1. PICK p \in procs :
        /\ p.host = c.nodes[j].host /\ p.up /\ p.tag \in NodeTags /\ p.rpc = c.nodes[j].rpcport
        /\ p.tag = NodeTag(c, j) /\ p.mining /\ ~p.ending /\ p.gen = c.gen
        /\ SignerAccount(c.gen, j) \in p.keys
  BY DEF Served, Answers
<1>2. PICK q \in procs' : Like(p, q) /\ q.up /\ q.mining
  BY <1>1 DEF UpStay
<1> QED
  BY <1>1, <1>2 DEF Served, Answers, Like

\* Processes bind their sockets or exit.
LEMMA ProcessesGoOn ==
  ASSUME IInv, HostsInv', OnlyOld, UpStay,
         UNCHANGED <<config_db, script, gens, source, cache, fresh, unstopped, interrupted>>
  PROVE  IInv'
<1> USE IInvParts
<1>1. \A c, j : /\ Recorded(procs, c, j) => Recorded(procs', c, j)
                /\ Signalled(procs, c, j) => Signalled(procs', c, j)
                /\ Served(c, j) => Served(c, j)'
  BY OldOnesOnly, UpOnesStay
<1>2. RestTyped' /\ ScriptFits' /\ DeployFits' /\ CacheAgrees'
  <2>1. RestTyped'
    BY DEF RestTyped
  <2>2. ScriptFits'
    BY DEF ScriptFits, CanLoad, Load, Chain
  <2>3. DeployFits'
    BY DEF DeployFits, Load, Contract, Deployed
  <2>4. CacheAgrees'
    BY DEF CacheAgrees, NoneWriting, Writing, Working
  <2> QED
    BY <2>1, <2>2, <2>3, <2>4
<1>3. GenesisIsNew'
  BY DEF GenesisIsNew, Chain, OnlyOld, Like
<1> HIDE DEF Served
<1>4. StartIsAsFar'
  BY <1>1 DEF StartIsAsFar, Starting, HasStarted, HasMined, Load
<1>5. StopIsAsFar'
  BY <1>1 DEF StopIsAsFar, Load
<1>6. FreshIsKept'
  BY <1>1 DEF FreshIsKept, CanLoad, Load
<1>7. DeploymentIsUsable'
  BY <1>1 DEF DeploymentIsUsable, Load
<1> QED
  BY <1>2, <1>3, <1>4, <1>5, <1>6, <1>7, IInvPartsNext

\* A process that binds its ports or exits keeps the invariant.
LEMMA ProcessStepIsGood ==
  ASSUME IInv, ProcessStep
  PROVE  IInv'
<1> USE IInvParts
<1>1. PICK p \in procs : Bind(p) \/ BindFails(p) \/ Exit(p)
  BY DEF ProcessStep
<1>2. UNCHANGED <<config_db, script, gens, source, cache, fresh, unstopped, interrupted>>
  BY DEF ProcessStep, DeployVars
<1>3. HostsInv' /\ OnlyOld /\ UpStay
  BY <1>1, <1>2, HostsBind, HostsBindFails, HostsExit
<1> QED
  BY <1>2, <1>3, ProcessesGoOn

----------------------------------------------------------------------------
(* Scripts that start and stop processes. *)

\* A start, a stop and the creation of accounts leave the cache alone, and a start has
\* no finished start behind it.
LEMMA StartLeavesTheRest ==
  ASSUME IInv, script.kind \in {"start", "accounts"}, script'.kind = script.kind,
         UNCHANGED <<source, cache, fresh, interrupted>>
  PROVE  fresh = Nothing /\ StopIsAsFar' /\ FreshIsKept' /\ DeployFits' /\ CacheAgrees'
         /\ DeploymentIsUsable'
<1> USE IInvParts
<1>1. fresh = Nothing /\ fresh' = Nothing /\ fresh'[1] = "none"
  BY DEF FreshIsKept, Nothing, RestTyped
<1>2. CacheAgrees'
  BY DEF CacheAgrees, NoneWriting
<1> QED
  BY <1>1, <1>2 DEF StopIsAsFar, FreshIsKept, DeployFits, DeploymentIsUsable

\* What the steps of a script find.
LEMMA ScriptFacts ==
  ASSUME IInv, script # NoScript
  PROVE  /\ script \in Scripts /\ script.chains \in Configs /\ script.cfg \in ConfigNames
         /\ script.i \in Nat \ {0} /\ script.j \in Nat \ {0}
         /\ script.chains \in Seq(Chains) /\ Len(script.chains) \in Nat
         /\ DOMAIN script.chains = 1 .. Len(script.chains)
         /\ \A i \in DOMAIN script.chains :
              /\ script.chains[i] \in Chains /\ HasTags(script.chains[i])
              /\ script.chains[i].nodes \in Seq(Nodes)
              /\ Len(script.chains[i].nodes) \in Nat \ {0}
              /\ DOMAIN script.chains[i].nodes = 1 .. Len(script.chains[i].nodes)
              /\ \A j \in DOMAIN script.chains[i].nodes : script.chains[i].nodes[j] \in Nodes
<1>1. script \in Scripts
  BY IInvParts DEF RestTyped
<1>2. script.chains \in Configs /\ script.cfg \in ConfigNames
      /\ script.i \in Nat \ {0} /\ script.j \in Nat \ {0}
  BY <1>1 DEF Scripts
<1> QED
  BY <1>1, <1>2, ConfigChains

\* Two chains of a script have no tag in common, nor two nodes of a chain.
LEMMA TagsDiffer ==
  ASSUME IInv, script # NoScript,
         NEW i \in DOMAIN script.chains, NEW k \in DOMAIN script.chains, NEW j, NEW l,
         NodeTag(script.chains[i], j) = NodeTag(script.chains[k], l)
  PROVE  i = k /\ j = l
<1>1. script.chains[i].name = script.chains[k].name /\ j = l
  BY DEF NodeTag
<1>2. script.chains \in Configs
  BY ScriptFacts
<1> QED
  BY <1>1, <1>2 DEF Configs

\* The copy of the chain that a start is at changes, and the start goes on with it.
LEMMA ChainChanges ==
  ASSUME IInv, script.kind = "start", script.i <= Len(script.chains),
         NEW c \in Chains, c.name = Chain.name, c.type = Chain.type,
         Len(c.nodes) = Len(Chain.nodes),
         NEW st \in {"prestart", "accounts", "node", "check", "mine", "save"},
         NEW j \in Nat \ {0}, j <= Len(c.nodes), st \notin {"node", "mine"} => j = 1,
         script' = [script EXCEPT !.chains = [script.chains EXCEPT ![script.i] = c],
                                  !.st = st, !.j = j],
         UNCHANGED <<config_db, source, cache, fresh, interrupted>>
  PROVE  /\ RestTyped' /\ ScriptFits'
         /\ script'.kind = "start" /\ script'.cfg = script.cfg /\ script'.i = script.i
         /\ script'.st = st /\ script'.j = j /\ script'.skipped = script.skipped
         /\ DOMAIN script'.chains = DOMAIN script.chains
         /\ \A k \in DOMAIN script.chains :
              script'.chains[k] = IF k = script.i THEN c ELSE script.chains[k]
<1> USE IInvParts
<1>1. script # NoScript
  BY DEF NoScript
<1>2. /\ script \in Scripts /\ script.i \in DOMAIN script.chains /\ Chain \in Chains
      /\ HasTags(Chain) /\ script.chains \in Configs /\ Len(script.chains) \in Nat
      /\ DOMAIN Chain.nodes = 1 .. Len(Chain.nodes)
      /\ script.chains \in Seq(Chains)
  BY <1>1, ScriptFacts DEF Chain
<1>3. DOMAIN c.nodes = DOMAIN Chain.nodes
  <2>1. c.nodes \in Seq(Nodes)
    BY DEF Chains
  <2> QED
    BY <1>2, <2>1
<1>4. HasTags(c)
  BY <1>2, <1>3, SameTags
<1> DEFINE chains == [script.chains EXCEPT ![script.i] = c]
<1>5. chains \in Configs /\ Len(chains) = Len(script.chains) /\ DOMAIN chains = DOMAIN script.chains
  BY <1>2, <1>4, ReplacedIsConfig DEF Chain
<1>6. \A k \in DOMAIN script.chains : chains[k] = IF k = script.i THEN c ELSE script.chains[k]
  BY <1>2
<1> HIDE DEF chains
<1>7. script' = [script EXCEPT !.chains = chains, !.st = st, !.j = j]
  BY DEF chains
<1>8. /\ script'.kind = "start" /\ script'.cfg = script.cfg /\ script'.i = script.i
      /\ script'.st = st /\ script'.j = j /\ script'.skipped = script.skipped
      /\ script'.chains = chains
  BY <1>2, <1>7 DEF Scripts
<1>9. script' \in Scripts
  BY <1>2, <1>5, <1>7 DEF Scripts
<1>10. RestTyped'
  BY <1>9 DEF RestTyped
<1>11. ScriptFits'
  <2>1. \A k \in DOMAIN script.chains : chains[k].name = script.chains[k].name
    BY <1>6 DEF Chain
  <2>2. chains[script.i] = c
    BY <1>2, <1>6
  <2> QED
    BY <1>1, <1>5, <1>8, <2>1, <2>2 DEF ScriptFits, CanLoad, Load, Chain
<1> QED
  BY <1>5, <1>6, <1>8, <1>10, <1>11

\* A chain is skipped.
LEMMA SkipChainStep ==
  ASSUME IInv, SkipChain, UNCHANGED <<source, cache, fresh, interrupted>>
  PROVE  IInv'
<1> USE IInvParts
<1>1. /\ script.kind = "start" /\ script.st = "chain" /\ script.i <= Len(script.chains)
      /\ script' = [script EXCEPT !.i = @ + 1, !.skipped = TRUE]
      /\ UNCHANGED <<config_db, procs, pidfile, gens>>
  BY DEF SkipChain, At, hostVars
<1>2. script # NoScript
  BY <1>1 DEF NoScript
<1>3. script \in Scripts /\ script.i \in Nat \ {0} /\ Len(script.chains) \in Nat
  BY <1>2, ScriptFacts
<1>4. /\ script'.kind = "start" /\ script'.st = "chain" /\ script'.i = script.i + 1
      /\ script'.chains = script.chains /\ script'.cfg = script.cfg
      /\ script'.j = script.j /\ script'.skipped = TRUE /\ script' \in Scripts
  <2>1. script.i + 1 \in Nat \ {0}
    BY <1>3
  <2>2. \A i \in Nat \ {0} : [script EXCEPT !.i = i, !.skipped = TRUE] \in Scripts
    BY <1>3 DEF Scripts
  <2> QED
    BY <1>1, <1>3, <2>1, <2>2 DEF Scripts
<1>5. HostsInv'
  BY <1>1, HostsLoseProcesses DEF HostsInv
<1>6. RestTyped'
  BY <1>1, <1>4 DEF RestTyped
<1>7. ScriptFits'
  <2>1. script.j = 1 /\ \A i \in 1 .. Len(script.chains) : 1 <= Len(script.chains[i].nodes)
    BY <1>1, <1>2, ScriptFacts DEF ScriptFits
  <2> QED
    BY <1>1, <1>2, <1>3, <1>4, <2>1 DEF ScriptFits, CanLoad, Load, Chain
<1>8. GenesisIsNew' /\ StartIsAsFar'
  BY <1>4 DEF GenesisIsNew, StartIsAsFar, Starting
<1>9. StopIsAsFar' /\ FreshIsKept' /\ DeployFits' /\ CacheAgrees' /\ DeploymentIsUsable'
  BY <1>1, <1>4, StartLeavesTheRest
<1> QED
  BY <1>5, <1>6, <1>7, <1>8, <1>9, IInvPartsNext

\* The counters of a script.
LEMMA CountersChange ==
  ASSUME NEW s \in Scripts, NEW i \in Nat \ {0}, NEW j \in Nat \ {0},
         NEW st \in {"chain", "prestart", "accounts", "node", "check", "mine", "save"},
         NEW t, t = [s EXCEPT !.st = st, !.i = i, !.j = j]
  PROVE  /\ t \in Scripts /\ t.st = st /\ t.i = i /\ t.j = j
         /\ t.kind = s.kind /\ t.cfg = s.cfg /\ t.chains = s.chains
         /\ t.skipped = s.skipped /\ t.thr = s.thr
  BY DEF Scripts

\* A chain is taken.
LEMMA TakeChainStep ==
  ASSUME IInv, TakeChain, UNCHANGED <<source, cache, fresh, interrupted>>
  PROVE  IInv'
<1> USE IInvParts
<1>1. /\ script.kind = "start" /\ script.st = "chain" /\ script.i <= Len(script.chains)
      /\ script' = [script EXCEPT !.st = "prestart", !.j = 1]
      /\ UNCHANGED <<config_db, procs, pidfile, gens>>
  BY DEF TakeChain, At, Goto, hostVars
<1>2. script # NoScript
  BY <1>1 DEF NoScript
<1>3. /\ script \in Scripts /\ script.i \in DOMAIN script.chains /\ Chain \in Chains
      /\ Len(Chain.nodes) \in Nat \ {0} /\ script.chains \in Seq(Chains)
  BY <1>1, <1>2, ScriptFacts DEF Chain
<1>4. script' = [script EXCEPT !.chains = [script.chains EXCEPT ![script.i] = Chain],
                               !.st = "prestart", !.j = 1]
  <2>1. [script.chains EXCEPT ![script.i] = Chain] = script.chains
    BY <1>3 DEF Chain
  <2> QED
    BY <1>1, <1>3, <2>1 DEF Scripts
<1>5. /\ RestTyped' /\ ScriptFits'
      /\ script'.kind = "start" /\ script'.cfg = script.cfg /\ script'.i = script.i
      /\ script'.st = "prestart" /\ script'.j = 1 /\ script'.skipped = script.skipped
      /\ DOMAIN script'.chains = DOMAIN script.chains
      /\ \A k \in DOMAIN script.chains :
           script'.chains[k] = IF k = script.i THEN Chain ELSE script.chains[k]
  <2>1. /\ "prestart" \in {"prestart", "accounts", "node", "check", "mine", "save"}
        /\ 1 \in Nat \ {0} /\ 1 <= Len(Chain.nodes)
    BY <1>3
  <2> QED
    BY <1>1, <1>3, <1>4, <2>1, ChainChanges
<1>6. HostsInv'
  BY <1>1, HostsLoseProcesses DEF HostsInv
<1>7. GenesisIsNew'
  BY <1>5 DEF GenesisIsNew
<1>8. StartIsAsFar'
  <2>1. \A k \in DOMAIN script.chains : script'.chains[k] = script.chains[k]
    BY <1>5 DEF Chain
  <2>2. \A c, j : Served(c, j)' <=> Served(c, j)
    BY <1>1 DEF Served, Answers
  <2> HIDE DEF Served
  <2> QED
    BY <1>1, <1>5, <2>1, <2>2 DEF StartIsAsFar, Starting, HasStarted, HasMined, Load
<1>9. StopIsAsFar' /\ FreshIsKept' /\ DeployFits' /\ CacheAgrees' /\ DeploymentIsUsable'
  BY <1>1, <1>5, StartLeavesTheRest
<1> QED
  BY <1>5, <1>6, <1>7, <1>8, <1>9, IInvPartsNext

\* A script that turns to another chain or node keeps its type.
LEMMA CountersAreTyped ==
  \A s \in Scripts : \A i, j \in Nat \ {0} :
    \A st \in {"chain", "prestart", "accounts", "node", "check", "mine", "save"} :
      [s EXCEPT !.st = st, !.i = i, !.j = j] \in Scripts
  BY DEF Scripts

\* A chain that mines is saved.
LEMMA SaveChainStep ==
  ASSUME IInv, At("save"), AddItem(script.cfg, script.i, Chain),
         script' = [script EXCEPT !.st = "chain", !.i = @ + 1, !.j = 1],
         UNCHANGED <<procs, pidfile, gens, source, cache, fresh, interrupted>>
  PROVE  IInv'
<1> USE IInvParts
<1>1. /\ script.kind = "start" /\ script.st = "save" /\ script # NoScript
  BY DEF At, NoScript
<1>2. script.i <= Len(script.chains)
  BY <1>1 DEF ScriptFits
<1>3. /\ script \in Scripts /\ script.i \in Nat \ {0} /\ Len(script.chains) \in Nat
      /\ DOMAIN script.chains = 1 .. Len(script.chains)
      /\ script.i \in DOMAIN script.chains /\ script.cfg \in ConfigNames
      /\ Chain \in Chains /\ HasTags(Chain)
      /\ \A k \in DOMAIN script.chains : 1 <= Len(script.chains[k].nodes)
  BY <1>1, <1>2, ScriptFacts DEF Chain
<1> DEFINE old == Load(script.cfg)
           new == [old EXCEPT ![script.i] = Chain]
<1>4. /\ old \in Configs /\ DOMAIN old = DOMAIN script.chains
      /\ \A k \in DOMAIN old : old[k] \in Chains /\ old[k].name = script.chains[k].name
  <2>1. old \in Configs
    BY <1>3 DEF RestTyped, Load
  <2> QED
    BY <1>1, <1>3, <2>1, ConfigChains DEF ScriptFits
<1>5. SaveConfig(script.cfg, new)
  <2>1. Updated(old[script.i], Chain) = Chain
    BY <1>3, <1>4, UpdatedIsValue
  <2>2. SaveConfig(script.cfg, [old EXCEPT ![script.i] = Updated(old[script.i], Chain)])
    BY DEF AddItem
  <2> QED
    BY <2>1, <2>2
<1>6. /\ new \in Configs /\ Len(new) = Len(old) /\ DOMAIN new = DOMAIN old
      /\ \A k \in DOMAIN old : new[k] = IF k = script.i THEN Chain ELSE old[k]
  BY <1>3, <1>4, ReplacedIsConfig DEF Chain, Configs
<1> HIDE DEF old, new
<1>7. config_db'[script.cfg] = File(new)
  BY <1>3, <1>5 DEF SaveConfig, RestTyped
<1>8. /\ script'.kind = "start" /\ script'.st = "chain" /\ script'.i = script.i + 1
      /\ script'.chains = script.chains /\ script'.cfg = script.cfg
      /\ script'.j = 1 /\ script'.skipped = script.skipped /\ script' \in Scripts
  <2> DEFINE n == script.i + 1
  <2>1. n \in Nat \ {0} /\ script' = [script EXCEPT !.st = "chain", !.i = n, !.j = 1]
    BY <1>3
  <2> HIDE DEF n
  <2>2. [script EXCEPT !.st = "chain", !.i = n, !.j = 1] \in Scripts
    <3>1. 1 \in Nat \ {0} /\ "chain" \in {"chain", "prestart", "accounts", "node", "check", "mine", "save"}
      OBVIOUS
    <3> QED
      BY <1>3, <2>1, <3>1, CountersAreTyped
  <2>3. /\ script'.kind = script.kind /\ script'.st = "chain" /\ script'.i = n
        /\ script'.chains = script.chains /\ script'.cfg = script.cfg
        /\ script'.j = 1 /\ script'.skipped = script.skipped
    BY <1>3, <2>1 DEF Scripts
  <2> QED
    BY <1>1, <2>1, <2>2, <2>3 DEF n
<1>9. HostsInv'
  BY HostsLoseProcesses DEF HostsInv
<1>10. RestTyped'
  BY <1>3, <1>5, <1>6, <1>8, SavedIsTyped DEF RestTyped
<1>11. ScriptFits'
  <2>1. /\ config_db'[script'.cfg].st = "whole" /\ config_db'[script'.cfg].chains = new
        /\ Len(old) = Len(script.chains)
    BY <1>1, <1>7, <1>8 DEF File, ScriptFits, old
  <2>2. \A k \in DOMAIN script.chains : new[k].name = script.chains[k].name
    BY <1>4, <1>6 DEF Chain
  <2> QED
    BY <1>1, <1>3, <1>6, <1>8, <2>1, <2>2 DEF ScriptFits, CanLoad, Load, Chain
<1>12. GenesisIsNew'
  BY <1>8 DEF GenesisIsNew
<1>13. StartIsAsFar'
  <2>1. \A c, j : Served(c, j)' <=> Served(c, j)
    BY DEF Served, Answers
  <2> HIDE DEF Served
  <2>2. ASSUME Starting, NEW k \in DOMAIN script.chains, k < script.i + 1
        PROVE  /\ new[k] = script.chains[k] /\ new[k].type \in {"eth-poa", "eth-pow"}
               /\ \A j \in DOMAIN script.chains[k].nodes :
                    /\ Recorded(procs, script.chains[k], j)
                    /\ script.chains[k].type = "eth-poa" => Served(script.chains[k], j)
    <3>1. CASE k = script.i
      BY <1>1, <1>4, <1>6, <2>2, <3>1 DEF StartIsAsFar, GenesisIsNew, HasStarted, HasMined, Chain
    <3>2. CASE k < script.i
      BY <1>4, <1>6, <2>2, <3>2 DEF StartIsAsFar, HasStarted, HasMined, old
    <3> QED
      BY <1>3, <2>2, <3>1, <3>2
  <2>3. \A k \in DOMAIN script.chains : \A j :
          HasStarted(k, j)' \/ HasMined(k, j)' => k < script.i + 1
    BY <1>8 DEF HasStarted, HasMined
  <2>4. config_db'[script'.cfg].chains = new /\ (Starting' => Starting)
    BY <1>1, <1>7, <1>8 DEF File, Starting
  <2> QED
    BY <1>8, <2>1, <2>2, <2>3, <2>4 DEF StartIsAsFar, Load
<1>14. StopIsAsFar' /\ FreshIsKept' /\ DeployFits' /\ CacheAgrees' /\ DeploymentIsUsable'
  BY <1>1, <1>8, StartLeavesTheRest
<1> QED
  BY <1>9, <1>10, <1>11, <1>12, <1>13, <1>14, IInvPartsNext


\* The start of a process of another tag leaves those of a node as they are.
LEMMA OthersStay ==
  ASSUME NEW h, NEW tag, NEW new, new.tag = tag,
         procs' = {p \in procs : ~(p.host = h /\ p.tag = tag)} \cup {new},
         NEW c, NEW j, NodeTag(c, j) # tag
  PROVE  /\ Recorded(procs, c, j) => Recorded(procs', c, j)
         /\ Served(c, j) => Served(c, j)'
<1>1. Recorded(procs, c, j) => Recorded(procs', c, j)
  BY DEF Recorded
<1>2. Served(c, j) => Served(c, j)'
  BY DEF Served, Answers
<1> QED
  BY <1>1, <1>2

\* A start goes on with its chain c, and leaves what it has done before as it is.
LEMMA StartGoesOn ==
  ASSUME IInv, script.kind = "start", script.i <= Len(script.chains), UNCHANGED config_db,
         script'.kind = "start", script'.cfg = script.cfg, script'.i = script.i,
         script'.skipped = script.skipped, DOMAIN script'.chains = DOMAIN script.chains,
         NEW c, \A k \in DOMAIN script.chains :
           script'.chains[k] = IF k = script.i THEN c ELSE script.chains[k],
         \A k \in DOMAIN script.chains : \A j \in DOMAIN script.chains[k].nodes :
           k # script.i =>
             /\ Recorded(procs, script.chains[k], j) => Recorded(procs', script.chains[k], j)
             /\ \A d : d = script.chains[k] /\ Served(d, j) => Served(d, j)',
         Starting => \A j \in DOMAIN c.nodes :
           /\ HasStarted(script.i, j)' => Recorded(procs', c, j)
           /\ HasMined(script.i, j)' /\ c.type = "eth-poa" => Served(c, j)'
  PROVE  StartIsAsFar'
<1> USE IInvParts
<1>1. script # NoScript
  BY DEF NoScript
<1>2. /\ script.i \in DOMAIN script.chains /\ DOMAIN script.chains = 1 .. Len(script.chains)
      /\ script.i \in Nat \ {0} /\ Len(script.chains) \in Nat
  BY <1>1, ScriptFacts
<1> SUFFICES ASSUME Starting'
             PROVE  StartIsAsFar'
  BY DEF StartIsAsFar
<1>3. Starting
  BY DEF Starting
<1>4. Load(script.cfg)' = Load(script.cfg)
  BY DEF Load
<1> HIDE DEF Served
<1>5. ASSUME NEW k \in DOMAIN script.chains, k # script.i,
             NEW j \in DOMAIN script.chains[k].nodes, NEW d, d = script.chains[k]
      PROVE  /\ HasStarted(k, j)' => Recorded(procs', d, j)
             /\ HasMined(k, j)' /\ d.type = "eth-poa" => Served(d, j)'
  <2>1. /\ HasStarted(k, j)' => HasStarted(k, j)
        /\ HasMined(k, j)' => HasMined(k, j)
    BY <1>5 DEF HasStarted, HasMined
  <2> HIDE DEF HasStarted, HasMined
  <2>2. /\ HasStarted(k, j) => Recorded(procs, d, j)
        /\ HasMined(k, j) /\ d.type = "eth-poa" => Served(d, j)
    BY <1>3, <1>5 DEF StartIsAsFar
  <2> QED
    BY <1>5, <2>1, <2>2
<1>6. \A k \in DOMAIN script.chains : k < script.i =>
        /\ Load(script.cfg)[k] = script'.chains[k]
        /\ script'.chains[k].type \in {"eth-poa", "eth-pow"}
  BY <1>2, <1>3 DEF StartIsAsFar
<1>7. ASSUME NEW k \in DOMAIN script.chains, NEW d, d = script'.chains[k],
             NEW j \in DOMAIN d.nodes
      PROVE  /\ HasStarted(k, j)' => Recorded(procs', d, j)
             /\ HasMined(k, j)' /\ d.type = "eth-poa" => Served(d, j)'
  <2>1. CASE k = script.i
    <3>1. d = c
      BY <1>7, <2>1
    <3> QED
      BY <1>3, <1>7, <2>1, <3>1
  <2>2. CASE k # script.i
    <3>1. d = script.chains[k]
      BY <1>7, <2>2
    <3> QED
      BY <1>5, <1>7, <2>2, <3>1
  <2> QED
    BY <2>1, <2>2
<1> HIDE DEF HasStarted, HasMined
<1> QED
  BY <1>4, <1>6, <1>7 DEF StartIsAsFar, Load


\* The bootnode of a chain is started.
LEMMA PreStartStep ==
  ASSUME IInv, At("prestart"), Goto("accounts"),
         StartChainPre(Chain.type, Chain.nodes[1].host, BootTag(Chain)),
         UNCHANGED <<config_db, gens, source, cache, fresh, interrupted>>
  PROVE  IInv'
<1> USE IInvParts
<1>1. script.kind = "start" /\ script.st = "prestart" /\ script # NoScript
      /\ script' = [script EXCEPT !.st = "accounts", !.j = 1]
  BY DEF At, NoScript, Goto
<1>2. script.i <= Len(script.chains)
  BY <1>1 DEF ScriptFits
<1>3. /\ script \in Scripts /\ script.i \in DOMAIN script.chains /\ Chain \in Chains
      /\ HasTags(Chain) /\ Len(Chain.nodes) \in Nat \ {0} /\ script.chains \in Seq(Chains)
      /\ Chain.nodes[1].host \in HostNames
  <2>1. script.i \in DOMAIN script.chains
    BY <1>1, <1>2, ScriptFacts
  <2>2. 1 \in DOMAIN Chain.nodes /\ Chain.nodes[1] \in Nodes
    BY <1>1, <2>1, ScriptFacts DEF Chain
  <2> QED
    BY <1>1, <2>1, <2>2, ScriptFacts DEF Chain, Nodes
<1>4. script' = [script EXCEPT !.chains = [script.chains EXCEPT ![script.i] = Chain],
                               !.st = "accounts", !.j = 1]
  <2>1. [script.chains EXCEPT ![script.i] = Chain] = script.chains
    BY <1>3 DEF Chain
  <2> QED
    BY <1>1, <1>3, <2>1 DEF Scripts
<1>5. /\ RestTyped' /\ ScriptFits'
      /\ script'.kind = "start" /\ script'.cfg = script.cfg /\ script'.i = script.i
      /\ script'.st = "accounts" /\ script'.j = 1 /\ script'.skipped = script.skipped
      /\ DOMAIN script'.chains = DOMAIN script.chains
      /\ \A k \in DOMAIN script.chains :
           script'.chains[k] = IF k = script.i THEN Chain ELSE script.chains[k]
  <2>1. /\ "accounts" \in {"prestart", "accounts", "node", "check", "mine", "save"}
        /\ 1 \in Nat \ {0} /\ 1 <= Len(Chain.nodes)
    BY <1>3
  <2> QED
    BY <1>1, <1>2, <1>3, <1>4, <2>1, ChainChanges
<1> DEFINE h   == Chain.nodes[1].host
           tag == BootTag(Chain)
<1>6. /\ HostsInv'
      /\ \E new : /\ procs' = {p \in procs : ~(p.host = h /\ p.tag = tag)} \cup {new}
                  /\ new.tag = tag
  BY <1>3, PreStartLaunches
<1>7. PICK new : /\ procs' = {p \in procs : ~(p.host = h /\ p.tag = tag)} \cup {new}
                 /\ new.tag = tag
  BY <1>6
<1>8. \A d : \A j \in Nat \ {0} : NodeTag(d, j) # tag
  BY DEF NodeTag, BootTag
<1> HIDE DEF h, tag
<1>9. GenesisIsNew'
  BY <1>5 DEF GenesisIsNew
<1>10. StartIsAsFar'
  <2>1. \A k \in DOMAIN script.chains : \A j \in DOMAIN script.chains[k].nodes :
          /\ Recorded(procs, script.chains[k], j) => Recorded(procs', script.chains[k], j)
          /\ \A d : d = script.chains[k] /\ Served(d, j) => Served(d, j)'
    <3> TAKE k \in DOMAIN script.chains
    <3> TAKE j \in DOMAIN script.chains[k].nodes
    <3>1. j \in Nat \ {0}
      BY <1>1, ScriptFacts
    <3> QED
      BY <1>7, <1>8, <3>1, OthersStay
  <2>2. \A j : ~HasStarted(script.i, j)' /\ ~HasMined(script.i, j)'
    BY <1>3, <1>5 DEF HasStarted, HasMined, Scripts
  <2> QED
    BY <1>1, <1>2, <1>5, <2>1, <2>2, StartGoesOn
<1>11. StopIsAsFar' /\ FreshIsKept' /\ DeployFits' /\ CacheAgrees' /\ DeploymentIsUsable'
  BY <1>1, <1>5, StartLeavesTheRest
<1> QED
  BY <1>5, <1>6, <1>9, <1>10, <1>11, IInvPartsNext

\* The accounts of a chain and its genesis block are made.
LEMMA GenesisStep ==
  ASSUME IInv, At("accounts"), Chain.type \in {"eth-poa", "eth-pow"},
         NEW c \in Chains, c.gen = gens + 1, c.name = Chain.name, c.type = Chain.type,
         Len(c.nodes) = Len(Chain.nodes),
         c.type = "eth-poa" => \A j \in DOMAIN c.nodes : c.nodes[j].signer = gens + 1,
         script' = [script EXCEPT !.chains = [script.chains EXCEPT ![script.i] = c],
                                  !.st = "node", !.j = 1],
         gens' = gens + 1,
         UNCHANGED <<config_db, procs, pidfile, source, cache, fresh, interrupted>>
  PROVE  IInv'
<1> USE IInvParts
<1>1. script.kind = "start" /\ script.st = "accounts" /\ script # NoScript
  BY DEF At, NoScript
<1>2. script.i <= Len(script.chains)
  BY <1>1 DEF ScriptFits
<1>3. /\ script \in Scripts /\ script.i \in DOMAIN script.chains /\ script.i \in Nat \ {0}
      /\ Len(Chain.nodes) \in Nat \ {0}
  <2>1. script.i \in DOMAIN script.chains
    BY <1>1, <1>2, ScriptFacts
  <2> QED
    BY <1>1, <2>1, ScriptFacts DEF Chain
<1>4. /\ RestTyped' /\ ScriptFits'
      /\ script'.kind = "start" /\ script'.cfg = script.cfg /\ script'.i = script.i
      /\ script'.st = "node" /\ script'.j = 1 /\ script'.skipped = script.skipped
      /\ DOMAIN script'.chains = DOMAIN script.chains
      /\ \A k \in DOMAIN script.chains :
           script'.chains[k] = IF k = script.i THEN c ELSE script.chains[k]
  <2>1. /\ "node" \in {"prestart", "accounts", "node", "check", "mine", "save"}
        /\ 1 \in Nat \ {0} /\ 1 <= Len(c.nodes)
    BY <1>3
  <2> QED
    BY <1>1, <1>2, <2>1, ChainChanges
<1>5. gens \in Nat
  BY DEF HostsInv
<1>6. HostsInv'
  BY <1>5, HostsLoseProcesses
<1>7. GenesisIsNew'
  <2>1. script'.chains[script'.i] = c
    BY <1>3, <1>4
  <2>2. \A p \in procs : p.gen # gens + 1
    BY <1>5 DEF HostsInv, KeysAreOwn, Processes
  <2> QED
    BY <1>4, <1>5, <2>1, <2>2 DEF GenesisIsNew, Chain
<1>8. StartIsAsFar'
  <2>1. \A d, j : Served(d, j)' <=> Served(d, j)
    BY DEF Served, Answers
  <2> HIDE DEF Served
  <2>2. \A j \in DOMAIN c.nodes : ~HasStarted(script.i, j)' /\ ~HasMined(script.i, j)'
    <3>1. c.nodes \in Seq(Nodes)
      BY DEF Chains
    <3>2. \A j \in DOMAIN c.nodes : ~(j < 1)
      BY <3>1
    <3> QED
      BY <1>3, <1>4, <3>2 DEF HasStarted, HasMined
  <2> QED
    BY <1>1, <1>2, <1>4, <2>1, <2>2, StartGoesOn
<1>9. StopIsAsFar' /\ FreshIsKept' /\ DeployFits' /\ CacheAgrees' /\ DeploymentIsUsable'
  BY <1>1, <1>4, StartLeavesTheRest
<1> QED
  BY <1>4, <1>6, <1>7, <1>8, <1>9, IInvPartsNext


\* What a start whose chain has its genesis block finds.
LEMMA StartFacts ==
  ASSUME IInv, script.kind = "start", script.st # "chain"
  PROVE  /\ script # NoScript /\ script \in Scripts /\ script.i <= Len(script.chains)
         /\ script.i \in Nat \ {0} /\ script.i \in DOMAIN script.chains
         /\ Chain \in Chains /\ HasTags(Chain) /\ Chain = script.chains[script.i]
         /\ Len(Chain.nodes) \in Nat \ {0} /\ DOMAIN Chain.nodes = 1 .. Len(Chain.nodes)
         /\ script.j \in DOMAIN Chain.nodes /\ script.j \in Nat \ {0} /\ Node \in Nodes
         /\ Chain.nodes \in Seq(Nodes) /\ Node = Chain.nodes[script.j]
         /\ \A k \in DOMAIN script.chains : DOMAIN script.chains[k].nodes \subseteq Nat \ {0}
<1> USE IInvParts
<1>1. script # NoScript
  BY DEF NoScript
<1>2. script.i <= Len(script.chains) /\ script.j <= Len(Chain.nodes)
  BY <1>1 DEF ScriptFits
<1>3. script.i \in DOMAIN script.chains /\ script.i \in Nat \ {0} /\ script.j \in Nat \ {0}
  BY <1>1, <1>2, ScriptFacts
<1>4. /\ Chain \in Chains /\ HasTags(Chain) /\ Len(Chain.nodes) \in Nat \ {0}
      /\ DOMAIN Chain.nodes = 1 .. Len(Chain.nodes) /\ Chain.nodes \in Seq(Nodes)
      /\ \A j \in DOMAIN Chain.nodes : Chain.nodes[j] \in Nodes
  BY <1>1, <1>3, ScriptFacts DEF Chain
<1>5. script.j \in DOMAIN Chain.nodes
  BY <1>2, <1>3, <1>4
<1>6. \A k \in DOMAIN script.chains : DOMAIN script.chains[k].nodes \subseteq Nat \ {0}
  BY <1>1, ScriptFacts
<1> QED
  BY <1>1, <1>2, <1>3, <1>4, <1>5, <1>6, ScriptFacts DEF Chain, Node

\* A node of a chain is replaced.
LEMMA NodeIsReplaced ==
  ASSUME NEW c \in Chains, NEW j \in DOMAIN c.nodes, NEW node \in Nodes,
         node.host = c.nodes[j].host, node.signer = c.nodes[j].signer,
         NEW d, d = [c EXCEPT !.nodes = [c.nodes EXCEPT ![j] = node]]
  PROVE  /\ d \in Chains /\ d.name = c.name /\ d.type = c.type /\ d.gen = c.gen
         /\ Len(d.nodes) = Len(c.nodes) /\ DOMAIN d.nodes = DOMAIN c.nodes
         /\ d.nodes[j] = node
         /\ \A k \in DOMAIN c.nodes :
              /\ k # j => d.nodes[k] = c.nodes[k]
              /\ d.nodes[k].host = c.nodes[k].host
              /\ d.nodes[k].signer = c.nodes[k].signer
<1> DEFINE nodes == [c.nodes EXCEPT ![j] = node]
<1>1. c.nodes \in Seq(Nodes) /\ c.nodes # <<>>
  BY DEF Chains
<1>2. /\ nodes \in Seq(Nodes) /\ Len(nodes) = Len(c.nodes) /\ DOMAIN nodes = DOMAIN c.nodes
      /\ \A k \in DOMAIN c.nodes : nodes[k] = IF k = j THEN node ELSE c.nodes[k]
  BY <1>1
<1> HIDE DEF nodes
<1>3. nodes # <<>>
  BY <1>1, <1>2
<1>4. d \in Chains /\ d.name = c.name /\ d.type = c.type /\ d.gen = c.gen /\ d.nodes = nodes
  BY <1>2, <1>3 DEF Chains, nodes
<1> QED
  BY <1>2, <1>4

\* The accounts of an eth-poa chain are made for its genesis block.
LEMMA EthPoaAccountsStep ==
  ASSUME IInv, EthPoaAccounts, UNCHANGED <<source, cache, fresh, interrupted>>
  PROVE  IInv'
<1>1. /\ script.kind = "start" /\ script.st = "accounts" /\ Chain.type = "eth-poa"
      /\ gens' = gens + 1 /\ UNCHANGED <<config_db, procs, pidfile>>
      /\ script' = [script EXCEPT !.st = "node", !.chains[script.i].gen = gens + 1,
                      !.chains[script.i].nodes =
                        [j \in DOMAIN @ |-> [@[j] EXCEPT !.signer = gens + 1]]]
  BY DEF EthPoaAccounts, Tool, At, hostVars
<1>2. /\ script \in Scripts /\ script.i \in DOMAIN script.chains /\ Chain \in Chains
      /\ Chain = script.chains[script.i] /\ script.chains \in Seq(Chains)
      /\ script.j = 1 /\ gens + 1 \in Nat
  <2>1. script.j = 1
    BY <1>1, StartFacts, IInvParts DEF ScriptFits
  <2>2. gens + 1 \in Nat
    BY IInvParts DEF HostsInv
  <2> QED
    BY <1>1, <2>1, <2>2, StartFacts, ScriptFacts
<1> DEFINE g == gens + 1
           c == [Chain EXCEPT !.gen = g, !.nodes =
                  [j \in DOMAIN Chain.nodes |-> [Chain.nodes[j] EXCEPT !.signer = g]]]
<1>3. g \in Nat
  BY <1>2
<1>4. script' = [script EXCEPT !.chains = [script.chains EXCEPT ![script.i] = c],
                               !.st = "node", !.j = 1]
  BY <1>1, <1>2 DEF Scripts
<1> HIDE DEF g
<1>5. c = [Chain EXCEPT !.gen = g, !.nodes =
            [j \in DOMAIN Chain.nodes |-> [Chain.nodes[j] EXCEPT !.signer = g]]]
  OBVIOUS
<1> HIDE DEF c
<1>6. /\ c \in Chains /\ c.gen = g /\ c.name = Chain.name /\ c.type = Chain.type
      /\ Len(c.nodes) = Len(Chain.nodes) /\ \A j \in DOMAIN c.nodes : c.nodes[j].signer = g
  <2> DEFINE n     == Len(Chain.nodes)
             nodes == [j \in 1 .. n |-> [Chain.nodes[j] EXCEPT !.signer = g]]
  <2>1. /\ n \in Nat \ {0} /\ DOMAIN Chain.nodes = 1 .. n
        /\ \A j \in 1 .. n : Chain.nodes[j] \in Nodes
    <3>1. /\ Chain.nodes \in Seq(Nodes) /\ Len(Chain.nodes) \in Nat \ {0}
          /\ DOMAIN Chain.nodes = 1 .. Len(Chain.nodes)
      BY <1>1, StartFacts
    <3> QED
      BY <3>1
  <2>2. c = [Chain EXCEPT !.gen = g, !.nodes = nodes]
    BY <1>5, <2>1
  <2> HIDE DEF n
  <2>3. \A j \in 1 .. n : nodes[j] \in Nodes /\ nodes[j].signer = g
    <3> TAKE j \in 1 .. n
    <3> DEFINE node == Chain.nodes[j]
    <3>1. node \in Nodes /\ nodes[j] = [node EXCEPT !.signer = g]
      BY <2>1
    <3> HIDE DEF node, nodes
    <3> QED
      BY <1>3, <3>1 DEF Nodes
  <2>4. nodes \in Seq(Nodes) /\ Len(nodes) = n /\ DOMAIN nodes = 1 .. n
    BY <2>1, <2>3
  <2> HIDE DEF nodes
  <2>5. nodes # <<>>
    BY <2>1, <2>4, EmptySeq
  <2>6. c \in Chains /\ c.gen = g /\ c.name = Chain.name /\ c.type = Chain.type /\ c.nodes = nodes
    BY <1>2, <1>3, <2>2, <2>4, <2>5 DEF Chains
  <2> QED
    BY <2>3, <2>4, <2>6 DEF n
<1> QED
  BY <1>1, <1>4, <1>6, GenesisStep DEF g, At

\* Those of an eth-pow chain too.
LEMMA EthPowAccountsStep ==
  ASSUME IInv, EthPowAccounts, UNCHANGED <<source, cache, fresh, interrupted>>
  PROVE  IInv'
<1>1. /\ script.kind = "start" /\ script.st = "accounts" /\ Chain.type = "eth-pow"
      /\ gens' = gens + 1 /\ UNCHANGED <<config_db, procs, pidfile>>
      /\ script' = [script EXCEPT !.st = "node", !.chains[script.i].gen = gens + 1]
  BY DEF EthPowAccounts, Tool, At, hostVars
<1>2. /\ script \in Scripts /\ script.i \in DOMAIN script.chains /\ Chain \in Chains
      /\ Chain = script.chains[script.i] /\ script.chains \in Seq(Chains)
      /\ script.j = 1 /\ gens + 1 \in Nat
  <2>1. script.j = 1
    BY <1>1, StartFacts, IInvParts DEF ScriptFits
  <2>2. gens + 1 \in Nat
    BY IInvParts DEF HostsInv
  <2> QED
    BY <1>1, <2>1, <2>2, StartFacts, ScriptFacts
<1> DEFINE g == gens + 1
<1> HIDE DEF g
<1> DEFINE c == [Chain EXCEPT !.gen = g]
<1>3. /\ c \in Chains /\ c.gen = g /\ c.name = Chain.name /\ c.type = Chain.type
      /\ Len(c.nodes) = Len(Chain.nodes)
  <2>1. g \in Nat
    BY <1>2 DEF g
  <2> QED
    BY <1>2, <2>1 DEF Chains
<1>4. script' = [script EXCEPT !.chains = [script.chains EXCEPT ![script.i] = c],
                               !.st = "node", !.j = 1]
  BY <1>1, <1>2 DEF g, Scripts
<1> HIDE DEF c
<1> QED
  BY <1>1, <1>3, <1>4, GenesisStep DEF g, At


\* The loop over the nodes goes to the next one or ends.
LEMMA NextNode ==
  \A n, m, D, st, j1 :
    /\ n \in Nat \ {0} /\ m \in 1 .. n /\ D = 1 .. n
    /\ st = IF m = n THEN "check" ELSE "node"
    /\ j1 = IF m = n THEN 1 ELSE m + 1
    => /\ st \in {"check", "node"} /\ j1 \in Nat \ {0} /\ j1 <= n
       /\ st # "node" => j1 = 1
       /\ \A j \in D : /\ st = "node" /\ j < j1 => j <= m
                      /\ st = "check" => j <= m
  OBVIOUS

\* The geth of a node is started, and the port that it will listen on recorded.
LEMMA StartNodeStep ==
  ASSUME IInv, At("node"),
         NEW keys, keys \subseteq {SignerAccount(Chain.gen, script.j), GenesisAccount(Chain.gen)},
         StartChain(Chain.type, Node.host, NodeTag(Chain, script.j), Chain.gen, keys),
         LET new == CHOOSE p \in procs' :
                     p.host = Node.host /\ p.pid = pidfile'[Node.host][NodeTag(Chain, script.j)]
         IN  script' = [script EXCEPT
               !.chains[script.i].nodes[script.j].rpcport = new.rpc,
               !.st = IF script.j = Len(Chain.nodes) THEN "check" ELSE "node",
               !.j = IF script.j = Len(Chain.nodes) THEN 1 ELSE @ + 1],
         UNCHANGED <<config_db, gens, source, cache, fresh, interrupted>>
  PROVE  IInv'
<1> USE IInvParts
<1> DEFINE h   == Node.host
           tag == NodeTag(Chain, script.j)
<1>1. script.kind = "start" /\ script.st = "node"
  BY DEF At
<1>2. /\ script # NoScript /\ script \in Scripts /\ script.i <= Len(script.chains)
      /\ script.i \in Nat \ {0} /\ script.i \in DOMAIN script.chains
      /\ Chain \in Chains /\ HasTags(Chain) /\ Chain = script.chains[script.i]
      /\ Len(Chain.nodes) \in Nat \ {0} /\ DOMAIN Chain.nodes = 1 .. Len(Chain.nodes)
      /\ script.j \in DOMAIN Chain.nodes /\ script.j \in Nat \ {0} /\ Node \in Nodes
      /\ Chain.nodes \in Seq(Nodes) /\ Node = Chain.nodes[script.j]
      /\ \A k \in DOMAIN script.chains : DOMAIN script.chains[k].nodes \subseteq Nat \ {0}
      /\ script.chains \in Seq(Chains)
  BY <1>1, StartFacts, ScriptFacts
<1>3. Chain.gen = gens /\ gens # 0 /\ h \in HostNames /\ Chain.gen <= gens
  <2>1. Chain.gen = gens /\ gens # 0 /\ gens \in Nat
    BY <1>1 DEF GenesisIsNew, HostsInv
  <2>2. h \in HostNames
    BY <1>2 DEF Nodes
  <2> QED
    BY <2>1, <2>2
<1>4. /\ HostsInv' /\ Chain.type \in {"eth-poa", "eth-pow"}
      /\ \E new \in procs' :
           /\ procs' = {p \in procs : ~(p.host = h /\ p.tag = tag)} \cup {new}
           /\ new.host = h /\ new.tag = tag /\ new.gen = Chain.gen
           /\ new.rpc \in Ports /\ ~new.ending
           /\ \A p \in procs' : p.host = h /\ p.pid = pidfile'[h][tag] <=> p = new
  <2>1. /\ Chain \in Chains /\ HasTags(Chain) /\ script.j \in DOMAIN Chain.nodes
        /\ h \in HostNames /\ Chain.gen <= gens /\ HostsInv
    BY <1>2, <1>3
  <2> QED
    BY <2>1, StartLaunches
<1>5. PICK new \in procs' :
           /\ procs' = {p \in procs : ~(p.host = h /\ p.tag = tag)} \cup {new}
           /\ new.host = h /\ new.tag = tag /\ new.gen = Chain.gen
           /\ new.rpc \in Ports /\ ~new.ending
           /\ \A p \in procs' : p.host = h /\ p.pid = pidfile'[h][tag] <=> p = new
  BY <1>4
<1> DEFINE found == CHOOSE p \in procs' : p.host = h /\ p.pid = pidfile'[h][tag]
           st == IF script.j = Len(Chain.nodes) THEN "check" ELSE "node"
           j1 == IF script.j = Len(Chain.nodes) THEN 1 ELSE script.j + 1
           node == [Node EXCEPT !.rpcport = new.rpc]
           c  == [Chain EXCEPT !.nodes = [Chain.nodes EXCEPT ![script.j] = node]]
<1>6. script' = [script EXCEPT !.chains = [script.chains EXCEPT ![script.i] = c],
                               !.st = st, !.j = j1]
  <2>1. found = new
    BY <1>5
  <2>2. script' = [script EXCEPT
               !.chains[script.i].nodes[script.j].rpcport = found.rpc,
               !.st = st, !.j = j1]
    BY <1>2 DEF Scripts
  <2> HIDE DEF st, j1, found
  <2> QED
    BY <1>2, <2>1, <2>2 DEF Scripts
<1>7. new.rpc \in Nat
  BY <1>5, PortsAssumption
<1>8. /\ c \in Chains /\ c.name = Chain.name /\ c.type = Chain.type /\ c.gen = Chain.gen
      /\ Len(c.nodes) = Len(Chain.nodes) /\ DOMAIN c.nodes = DOMAIN Chain.nodes
      /\ c.nodes[script.j].rpcport = new.rpc
      /\ \A k \in DOMAIN Chain.nodes :
           /\ k # script.j => c.nodes[k] = Chain.nodes[k]
           /\ c.nodes[k].host = Chain.nodes[k].host
           /\ c.nodes[k].signer = Chain.nodes[k].signer
  <2>1. /\ node \in Nodes /\ node.rpcport = new.rpc
        /\ node.host = Chain.nodes[script.j].host /\ node.signer = Chain.nodes[script.j].signer
    BY <1>2, <1>7 DEF Nodes
  <2> HIDE DEF node
  <2>2. c = [Chain EXCEPT !.nodes = [Chain.nodes EXCEPT ![script.j] = node]]
    OBVIOUS
  <2>3. Chain \in Chains /\ script.j \in DOMAIN Chain.nodes
    BY <1>2
  <2> HIDE DEF c
  <2>4. /\ c \in Chains /\ c.name = Chain.name /\ c.type = Chain.type /\ c.gen = Chain.gen
        /\ Len(c.nodes) = Len(Chain.nodes) /\ DOMAIN c.nodes = DOMAIN Chain.nodes
        /\ c.nodes[script.j] = node
        /\ \A k \in DOMAIN Chain.nodes :
             /\ k # script.j => c.nodes[k] = Chain.nodes[k]
             /\ c.nodes[k].host = Chain.nodes[k].host
             /\ c.nodes[k].signer = Chain.nodes[k].signer
    BY <2>1, <2>2, <2>3, NodeIsReplaced
  <2> QED
    BY <2>1, <2>4
<1>9. /\ st \in {"check", "node"} /\ j1 \in Nat \ {0} /\ j1 <= Len(Chain.nodes)
      /\ st # "node" => j1 = 1
      /\ \A j \in DOMAIN Chain.nodes :
           /\ st = "node" /\ j < j1 => j <= script.j
           /\ st = "check" => j <= script.j
  <2>1. /\ Len(Chain.nodes) \in Nat \ {0} /\ script.j \in 1 .. Len(Chain.nodes)
        /\ DOMAIN Chain.nodes = 1 .. Len(Chain.nodes)
    BY <1>2
  <2>2. /\ st = IF script.j = Len(Chain.nodes) THEN "check" ELSE "node"
        /\ j1 = IF script.j = Len(Chain.nodes) THEN 1 ELSE script.j + 1
    OBVIOUS
  <2> HIDE DEF st, j1
  <2> QED
    BY <2>1, <2>2, NextNode
<1> HIDE DEF st, j1, c, node, h, tag, found
<1>10. /\ RestTyped' /\ ScriptFits'
      /\ script'.kind = "start" /\ script'.cfg = script.cfg /\ script'.i = script.i
      /\ script'.st = st /\ script'.j = j1 /\ script'.skipped = script.skipped
      /\ DOMAIN script'.chains = DOMAIN script.chains
      /\ \A k \in DOMAIN script.chains :
           script'.chains[k] = IF k = script.i THEN c ELSE script.chains[k]
  <2>1. /\ st \in {"prestart", "accounts", "node", "check", "mine", "save"}
        /\ st \notin {"node", "mine"} => j1 = 1
        /\ j1 <= Len(c.nodes)
    BY <1>8, <1>9
  <2>2. /\ c \in Chains /\ c.name = Chain.name /\ c.type = Chain.type
        /\ Len(c.nodes) = Len(Chain.nodes)
    BY <1>8
  <2>3. j1 \in Nat \ {0} /\ script.i <= Len(script.chains)
    BY <1>2, <1>9
  <2> QED
    BY <1>1, <1>6, <2>1, <2>2, <2>3, ChainChanges
<1>11. \A j : NodeTag(c, j) = NodeTag(Chain, j)
  BY <1>8 DEF NodeTag
<1>12. GenesisIsNew'
  <2>1. script'.chains[script'.i] = c
    BY <1>2, <1>10
  <2>2. \A p \in procs' : p.gen = gens =>
          ~p.ending /\ \E j \in DOMAIN Chain.nodes : p.tag = NodeTag(Chain, j)
    BY <1>1, <1>2, <1>5 DEF GenesisIsNew, tag
  <2>3. c.type = "eth-poa" => \A j \in DOMAIN c.nodes : c.nodes[j].signer = gens
    BY <1>1, <1>8 DEF GenesisIsNew
  <2>4. \A p \in procs' : p.gen = gens =>
          ~p.ending /\ \E j \in DOMAIN c.nodes : p.tag = NodeTag(c, j)
    BY <1>8, <1>11, <2>2
  <2> QED
    BY <1>3, <1>4, <1>8, <1>10, <2>1, <2>3, <2>4 DEF GenesisIsNew, Chain
<1>13. ASSUME Starting, NEW j \in DOMAIN c.nodes, HasStarted(script.i, j)'
       PROVE  Recorded(procs', c, j)
  <2>1. j <= script.j
    <3>1. \/ script.i < script.i
          \/ st = "node" /\ j < j1
          \/ st = "check"
      <4>1. script'.i = script.i /\ script'.st = st /\ script'.j = j1
        BY <1>10
      <4>2. st \in {"check", "node"}
        BY <1>9
      <4>3. HasStarted(script.i, j)' =>
              \/ script'.i < script'.i
              \/ script'.st = "node" /\ j < script'.j
              \/ script'.st \in {"check", "mine", "save"}
        BY <4>1 DEF HasStarted
      <4> HIDE DEF HasStarted
      <4>4. \/ script'.i < script'.i
            \/ script'.st = "node" /\ j < script'.j
            \/ script'.st \in {"check", "mine", "save"}
        BY <1>13, <4>3, Zenon
      <4> QED
        BY <4>1, <4>2, <4>4
    <3>2. ~(script.i < script.i)
      <4>1. script.i \in Nat
        BY <1>2
      <4> QED
        BY <4>1
    <3> QED
      BY <1>8, <1>9, <3>1, <3>2
  <2>2. CASE j = script.j
    BY <1>2, <1>5, <1>8, <1>11, <2>2 DEF Recorded, h, tag
  <2>3. CASE j # script.j
    <3>1. HasStarted(script.i, j)
      <4>1. j \in Nat /\ script.j \in Nat
        BY <1>2, <1>8
      <4>2. j < script.j
        BY <2>1, <2>3, <4>1
      <4> QED
        BY <1>1, <4>2 DEF HasStarted
    <3>2. Recorded(procs, Chain, j)
      BY <1>2, <1>8, <1>13, <3>1 DEF StartIsAsFar
    <3>3. Recorded(procs, c, j)
      BY <1>8, <1>11, <2>3, <3>2 DEF Recorded
    <3>4. NodeTag(c, j) # tag
      BY <1>11, <2>3 DEF NodeTag, tag
    <3>5. procs' = {p \in procs : ~(p.host = h /\ p.tag = tag)} \cup {new} /\ new.tag = tag
      BY <1>5
    <3> QED
      BY <3>3, <3>4, <3>5, OthersStay
  <2> QED
    BY <2>2, <2>3
<1>14. StartIsAsFar'
  <2>1. \A k \in DOMAIN script.chains : \A j \in DOMAIN script.chains[k].nodes :
          k # script.i =>
          /\ Recorded(procs, script.chains[k], j) => Recorded(procs', script.chains[k], j)
          /\ \A d : d = script.chains[k] /\ Served(d, j) => Served(d, j)'
    <3> TAKE k \in DOMAIN script.chains
    <3> TAKE j \in DOMAIN script.chains[k].nodes
    <3> HAVE k # script.i
    <3>1. NodeTag(script.chains[k], j) # tag
      <4>1. /\ script # NoScript /\ script.i \in DOMAIN script.chains
            /\ tag = NodeTag(script.chains[script.i], script.j)
        BY <1>2 DEF tag
      <4> QED
        BY <4>1, TagsDiffer
    <3>2. ASSUME NEW d, d = script.chains[k]
          PROVE  /\ Recorded(procs, d, j) => Recorded(procs', d, j)
                 /\ Served(d, j) => Served(d, j)'
      <4>1. NodeTag(d, j) # tag
        BY <3>1, <3>2
      <4> QED
        BY <1>5, <4>1, OthersStay
    <3> HIDE DEF Recorded, Served
    <3>3. Recorded(procs, script.chains[k], j) => Recorded(procs', script.chains[k], j)
      BY <3>2
    <3>4. \A d : d = script.chains[k] /\ Served(d, j) => Served(d, j)'
      BY <3>2
    <3> QED
      BY <3>3, <3>4, Zenon
  <2>2. \A j : ~HasMined(script.i, j)'
    <3>1. script.i \in Nat /\ script'.i = script.i /\ script'.st = st /\ st \in {"check", "node"}
      BY <1>2, <1>9, <1>10
    <3> QED
      BY <3>1 DEF HasMined
  <2> HIDE DEF HasStarted, HasMined
  <2> QED
    BY <1>1, <1>2, <1>10, <1>13, <2>1, <2>2, StartGoesOn
<1>15. StopIsAsFar' /\ FreshIsKept' /\ DeployFits' /\ CacheAgrees' /\ DeploymentIsUsable'
  BY <1>1, <1>10, StartLeavesTheRest
<1> QED
  BY <1>4, <1>10, <1>12, <1>14, <1>15, IInvPartsNext


\* A start goes on with the nodes of its chain, which stays as it is.
LEMMA NodesGoOn ==
  ASSUME IInv, script.kind = "start", script.st \in {"check", "mine"},
         NEW st \in {"mine", "save"}, NEW j \in Nat \ {0}, j <= Len(Chain.nodes),
         st # "mine" => j = 1,
         script' = [script EXCEPT !.st = st, !.j = j],
         HostsInv', OnlyOld, UpStay,
         Starting /\ Chain.type = "eth-poa" => \A k \in DOMAIN Chain.nodes :
           (st = "mine" => k < j) => \A d : d = Chain => Served(d, k)',
         UNCHANGED <<config_db, gens, source, cache, fresh, interrupted>>
  PROVE  IInv'
<1> USE IInvParts
<1>1. /\ script \in Scripts /\ script.i <= Len(script.chains) /\ script.i \in Nat \ {0}
      /\ script.i \in DOMAIN script.chains /\ script.chains \in Seq(Chains)
      /\ Chain \in Chains /\ Chain = script.chains[script.i]
      /\ DOMAIN Chain.nodes = 1 .. Len(Chain.nodes)
  BY StartFacts, ScriptFacts
<1>2. script' = [script EXCEPT !.chains = [script.chains EXCEPT ![script.i] = Chain],
                               !.st = st, !.j = j]
  <2>1. [script.chains EXCEPT ![script.i] = Chain] = script.chains
    BY <1>1
  <2> QED
    BY <1>1, <2>1 DEF Scripts
<1>3. /\ RestTyped' /\ ScriptFits'
      /\ script'.kind = "start" /\ script'.cfg = script.cfg /\ script'.i = script.i
      /\ script'.st = st /\ script'.j = j /\ script'.skipped = script.skipped
      /\ DOMAIN script'.chains = DOMAIN script.chains
      /\ \A k \in DOMAIN script.chains :
           script'.chains[k] = IF k = script.i THEN Chain ELSE script.chains[k]
  <2>1. /\ st \in {"prestart", "accounts", "node", "check", "mine", "save"}
        /\ st \notin {"node", "mine"} => j = 1
    OBVIOUS
  <2> QED
    BY <1>1, <1>2, <2>1, ChainChanges
<1>4. GenesisIsNew'
  <2>1. script'.chains[script'.i] = Chain
    BY <1>1, <1>3
  <2>2. \A p \in procs' : p.gen = gens =>
          ~p.ending /\ \E k \in DOMAIN Chain.nodes : p.tag = NodeTag(Chain, k)
    BY DEF GenesisIsNew, OnlyOld, Like
  <2>3. /\ Chain.gen = gens /\ gens # 0 /\ Chain.type \in {"eth-poa", "eth-pow"}
        /\ Chain.type = "eth-poa" => \A k \in DOMAIN Chain.nodes : Chain.nodes[k].signer = gens
    BY DEF GenesisIsNew
  <2> QED
    BY <1>3, <2>1, <2>2, <2>3 DEF GenesisIsNew, Chain
<1>5. \A d, k : /\ Recorded(procs, d, k) => Recorded(procs', d, k)
                /\ Served(d, k) => Served(d, k)'
  BY OldOnesOnly, UpOnesStay
<1>6. StartIsAsFar'
  <2>1. ASSUME Starting, NEW k \in DOMAIN Chain.nodes
        PROVE  Recorded(procs', Chain, k)
    <3>1. HasStarted(script.i, k)
      BY DEF HasStarted
    <3>2. Recorded(procs, Chain, k)
      BY <1>1, <2>1, <3>1 DEF StartIsAsFar
    <3> QED
      BY <1>5, <3>2
  <2>2. ASSUME Starting, NEW k \in DOMAIN Chain.nodes, HasMined(script.i, k)',
               Chain.type = "eth-poa", NEW d, d = Chain
        PROVE  Served(d, k)'
    <3>1. st = "mine" => k < j
      BY <1>1, <1>3, <2>2 DEF HasMined
    <3> QED
      BY <2>2, <3>1
  <2> HIDE DEF HasStarted, HasMined, Served
  <2> QED
    BY <1>1, <1>3, <1>5, <2>1, <2>2, StartGoesOn
<1>7. StopIsAsFar' /\ FreshIsKept' /\ DeployFits' /\ CacheAgrees' /\ DeploymentIsUsable'
  BY <1>3, StartLeavesTheRest
<1> QED
  BY <1>3, <1>4, <1>6, <1>7, IInvPartsNext

\* All nodes are connected, and the script goes on to mining.
LEMMA CheckStep ==
  ASSUME IInv, At("check"), CheckConnected, UNCHANGED <<source, cache, fresh, interrupted>>
  PROVE  IInv'
<1> USE IInvParts
<1>1. /\ script.kind = "start" /\ script.st = "check"
      /\ script' = [script EXCEPT !.st = "mine", !.j = 1]
      /\ UNCHANGED <<config_db, procs, pidfile, gens>>
  BY DEF At, CheckConnected, Goto, hostVars
<1>2. HostsInv' /\ OnlyOld /\ UpStay
  <2>1. HostsInv' /\ OnlyOld
    BY <1>1, HostsLoseProcesses DEF HostsInv
  <2>2. UpStay
    BY <1>1 DEF UpStay, Like
  <2> QED
    BY <2>1, <2>2
<1>3. /\ Len(Chain.nodes) \in Nat \ {0} /\ DOMAIN Chain.nodes = 1 .. Len(Chain.nodes)
      /\ 1 <= Len(Chain.nodes) /\ \A k \in DOMAIN Chain.nodes : ~(k < 1)
  BY <1>1, StartFacts
<1>4. 1 \in Nat \ {0} /\ "mine" \in {"mine", "save"}
  OBVIOUS
<1> QED
  BY <1>1, <1>2, <1>3, <1>4, NodesGoOn

\* A node is told to mine: the geth that answers has the key of the node's signer, which
\* no other geth has.
LEMMA MiningStep ==
  ASSUME IInv, At("mine"), NodeMines,
         Chain.type = "eth-poa" =>
           \E p \in Answers(Node.host, Node.rpcport) :
             SignerAccount(Node.signer, script.j) \in p.keys,
         UNCHANGED <<source, cache, fresh, interrupted>>
  PROVE  IInv'
<1> USE IInvParts
<1>1. script.kind = "start" /\ script.st = "mine"
  BY DEF At
<1>2. /\ script \in Scripts /\ script.i \in DOMAIN script.chains /\ Chain \in Chains
      /\ Chain = script.chains[script.i] /\ script.i \in Nat \ {0}
      /\ Len(Chain.nodes) \in Nat \ {0} /\ DOMAIN Chain.nodes = 1 .. Len(Chain.nodes)
      /\ script.j \in DOMAIN Chain.nodes /\ script.j \in Nat \ {0}
      /\ Node = Chain.nodes[script.j]
  BY <1>1, StartFacts
<1> DEFINE st == IF script.j = Len(Chain.nodes) THEN "save" ELSE "mine"
           j1 == IF script.j = Len(Chain.nodes) THEN 1 ELSE script.j + 1
<1>3. script' = [script EXCEPT !.st = st, !.j = j1]
  <2>1. CASE script.j = Len(Chain.nodes)
    BY <2>1 DEF NodeMines, Goto
  <2>2. CASE script.j # Len(Chain.nodes)
    BY <1>1, <1>2, <2>2 DEF NodeMines, Scripts
  <2> QED
    BY <2>1, <2>2
<1>4. /\ st \in {"mine", "save"} /\ j1 \in Nat \ {0} /\ j1 <= Len(Chain.nodes)
      /\ st # "mine" => j1 = 1
      /\ \A k \in DOMAIN Chain.nodes : (st = "mine" => k < j1) => k <= script.j \/ st = "save"
      /\ st = "save" => script.j = Len(Chain.nodes)
  BY <1>2
<1> HIDE DEF st, j1
<1>5. UNCHANGED <<config_db, gens>> /\ Mine(Node.host, Node.rpcport)
  BY DEF NodeMines
<1>6. /\ HostsInv' /\ OnlyOld /\ UpStay
      /\ \A p \in Answers(Node.host, Node.rpcport) : [p EXCEPT !.mining = TRUE] \in procs'
  BY <1>5, HostsMine
<1>7. ASSUME Starting, Chain.type = "eth-poa", NEW k \in DOMAIN Chain.nodes,
             st = "mine" => k < j1, NEW d, d = Chain
      PROVE  Served(d, k)'
  <2>1. k <= script.j /\ k \in Nat \ {0}
    BY <1>2, <1>4, <1>7
  <2>2. CASE k = script.j
    <3>1. PICK p \in Answers(Node.host, Node.rpcport) :
            SignerAccount(Node.signer, script.j) \in p.keys
      BY <1>7
    <3>2. Chain.gen = gens /\ Node.signer = gens
      BY <1>1, <1>2, <1>7 DEF GenesisIsNew
    <3>3. p \in procs /\ p \in Processes /\ <<gens, script.j>> \in p.keys
      BY <3>1, <3>2 DEF Answers, HostsInv, SignerAccount
    <3>4. <<gens, script.j>>[1] = p.gen /\ p.tag[3] = script.j
      BY <1>2, <3>3 DEF HostsInv, KeysAreOwn
    <3>5. p.gen = gens
      BY <3>4
    <3>6. ~p.ending /\ \E l \in DOMAIN Chain.nodes : p.tag = NodeTag(Chain, l)
      BY <1>1, <3>3, <3>5 DEF GenesisIsNew
    <3>12. PICK l \in DOMAIN Chain.nodes : p.tag = NodeTag(Chain, l)
      BY <3>6
    <3>7. l = script.j
      BY <3>4, <3>12 DEF NodeTag
    <3> DEFINE q == [p EXCEPT !.mining = TRUE]
    <3>8. /\ q.host = p.host /\ q.tag = p.tag /\ q.rpc = p.rpc /\ q.gen = p.gen
          /\ q.keys = p.keys /\ q.up = p.up /\ q.mining = TRUE /\ q.ending = p.ending
      BY <3>3 DEF Processes
    <3>9. q \in procs'
      BY <1>6, <3>1
    <3> HIDE DEF q
    <3>10. q.host = Node.host /\ q.rpc = Node.rpcport /\ q.up /\ q.tag \in NodeTags
      BY <3>1, <3>8 DEF Answers
    <3>11. /\ q.tag = NodeTag(d, k) /\ q.mining /\ ~q.ending /\ q.gen = d.gen
           /\ SignerAccount(d.gen, k) \in q.keys
      BY <1>7, <2>2, <3>2, <3>3, <3>5, <3>6, <3>7, <3>8, <3>12 DEF SignerAccount
    <3> QED
      BY <1>2, <1>7, <2>2, <3>9, <3>10, <3>11 DEF Served, Answers
  <2>3. CASE k < script.j
    <3>1. HasMined(script.i, k)
      BY <1>1, <2>3 DEF HasMined
    <3> HIDE DEF HasMined
    <3>2. Served(d, k)
      BY <1>2, <1>7, <3>1 DEF StartIsAsFar
    <3> QED
      BY <1>6, <3>2, UpOnesStay
  <2> QED
    BY <1>2, <2>1, <2>2, <2>3
<1> HIDE DEF Served
<1> QED
  BY <1>1, <1>3, <1>4, <1>5, <1>6, <1>7, NodesGoOn


\* The geth with the port of a node is told to end, or the failure is printed.
LEMMA StopNodeStep ==
  ASSUME IInv, StopNode, UNCHANGED <<source, cache, fresh, interrupted>>
  PROVE  IInv'
<1> USE IInvParts
<1>1. /\ script.kind = "stop" /\ script.i <= Len(script.chains) /\ script # NoScript
      /\ UNCHANGED <<config_db, gens>>
      /\ \E failed \in {script.failed, script.failed \cup {<<script.i, script.j>>}} :
           /\ PKill(Node.host, Node.rpcport) \/ UNCHANGED <<procs, pidfile>>
           /\ PKill(Node.host, Node.rpcport) \/ <<script.i, script.j>> \in failed
           /\ NodeIsDone(failed)
  BY DEF StopNode, NoScript, hostVars
<1>2. /\ script \in Scripts /\ script.i \in Nat \ {0} /\ script.j \in Nat \ {0}
      /\ Len(script.chains) \in Nat /\ DOMAIN script.chains = 1 .. Len(script.chains)
      /\ script.i \in DOMAIN script.chains /\ script.j <= Len(Chain.nodes)
      /\ Chain = script.chains[script.i] /\ Node = Chain.nodes[script.j]
      /\ \A k \in DOMAIN script.chains :
           /\ Len(script.chains[k].nodes) \in Nat \ {0}
           /\ DOMAIN script.chains[k].nodes = 1 .. Len(script.chains[k].nodes)
  BY <1>1, ScriptFacts DEF ScriptFits, Chain, Node
<1> DEFINE i1 == IF script.j = Len(Chain.nodes) THEN script.i + 1 ELSE script.i
           j1 == IF script.j = Len(Chain.nodes) THEN 1 ELSE script.j + 1
<1>3. PICK failed \in SUBSET (Nat \X Nat) :
        /\ PKill(Node.host, Node.rpcport) \/ UNCHANGED <<procs, pidfile>>
        /\ PKill(Node.host, Node.rpcport) \/ <<script.i, script.j>> \in failed
        /\ script.failed \subseteq failed
        /\ script' = [script EXCEPT !.failed = failed, !.i = i1, !.j = j1]
  <2>1. PICK failed \in {script.failed, script.failed \cup {<<script.i, script.j>>}} :
          /\ PKill(Node.host, Node.rpcport) \/ UNCHANGED <<procs, pidfile>>
          /\ PKill(Node.host, Node.rpcport) \/ <<script.i, script.j>> \in failed
          /\ NodeIsDone(failed)
    BY <1>1
  <2>2. script.failed \in SUBSET (Nat \X Nat)
    BY <1>2 DEF Scripts
  <2>3. failed \in SUBSET (Nat \X Nat) /\ script.failed \subseteq failed
    BY <1>2, <2>2
  <2>4. script' = [script EXCEPT !.failed = failed, !.i = i1, !.j = j1]
    BY <1>2, <2>1 DEF NodeIsDone, Scripts
  <2> QED
    BY <2>1, <2>3, <2>4
<1>4. /\ i1 \in Nat \ {0} /\ j1 \in Nat \ {0} /\ i1 <= Len(script.chains) + 1
      /\ i1 <= Len(script.chains) => j1 <= Len(script.chains[i1].nodes)
      /\ \A i \in DOMAIN script.chains : \A j \in DOMAIN script.chains[i].nodes :
           i < i1 \/ (i = i1 /\ j < j1) =>
             \/ i < script.i \/ (i = script.i /\ j < script.j)
             \/ i = script.i /\ j = script.j
  <2>1. i1 <= Len(script.chains) => j1 <= Len(script.chains[i1].nodes)
    BY <1>2
  <2>2. ASSUME NEW i \in DOMAIN script.chains, NEW j \in DOMAIN script.chains[i].nodes,
               i < i1 \/ (i = i1 /\ j < j1)
        PROVE  \/ i < script.i \/ (i = script.i /\ j < script.j)
               \/ i = script.i /\ j = script.j
    <3>1. i \in Nat /\ j \in Nat \ {0} /\ (i = script.i => j <= Len(Chain.nodes))
      BY <1>2
    <3>2. Len(Chain.nodes) \in Nat
      BY <1>2
    <3> QED
      BY <1>2, <2>2, <3>1, <3>2
  <2> QED
    BY <1>2, <2>1, <2>2
<1> HIDE DEF i1, j1
<1>5. /\ script' \in Scripts /\ script'.kind = "stop" /\ script'.cfg = script.cfg
      /\ script'.chains = script.chains /\ script'.i = i1 /\ script'.j = j1
      /\ script'.failed = failed
  <2>1. \A i, j \in Nat \ {0} : [script EXCEPT !.failed = failed, !.i = i, !.j = j] \in Scripts
    <3>1. script \in Scripts
      BY <1>2
    <3> QED
      BY <3>1 DEF Scripts
  <2>2. script' \in Scripts
    BY <1>3, <1>4, <2>1
  <2>3. /\ script'.kind = script.kind /\ script'.cfg = script.cfg
        /\ script'.chains = script.chains /\ script'.i = i1 /\ script'.j = j1
        /\ script'.failed = failed
    BY <1>2, <1>3 DEF Scripts
  <2> QED
    BY <1>1, <2>2, <2>3
<1>6. /\ HostsInv'
      /\ \A q \in procs' : \E p \in procs :
           /\ q.host = p.host /\ q.tag = p.tag /\ q.rpc = p.rpc
           /\ p.ending => q.ending
      /\ <<script.i, script.j>> \notin failed =>
           \A q \in procs' :
             q.host = Node.host /\ q.tag \in NodeTags /\ q.rpc = Node.rpcport => q.ending
  <2>1. CASE PKill(Node.host, Node.rpcport)
    BY <1>1, <2>1, HostsSignal
  <2>2. CASE UNCHANGED <<procs, pidfile>> /\ <<script.i, script.j>> \in failed
    <3>1. HostsInv'
      BY <1>1, <2>2, HostsLoseProcesses DEF HostsInv
    <3> QED
      BY <2>2, <3>1
  <2> QED
    BY <1>3, <2>1, <2>2
<1>7. RestTyped'
  BY <1>1, <1>5 DEF RestTyped
<1>8. ScriptFits'
  BY <1>1, <1>4, <1>5 DEF ScriptFits, CanLoad, Load, Chain
<1>9. GenesisIsNew' /\ StartIsAsFar' /\ DeployFits' /\ CacheAgrees'
  <2>1. CacheAgrees'
    BY <1>1, <1>5 DEF CacheAgrees, NoneWriting
  <2> QED
    BY <1>5, <2>1 DEF GenesisIsNew, StartIsAsFar, Starting, DeployFits
<1>10. fresh[1] \notin {"started", "deployed", "stopped"}
  BY <1>1 DEF FreshIsKept, Nothing
<1>11. \A c, j : /\ Recorded(procs, c, j) => Recorded(procs', c, j)
                 /\ Signalled(procs, c, j) => Signalled(procs', c, j)
  BY <1>6 DEF Recorded, Signalled
<1>12. <<script.i, script.j>> \notin failed => Signalled(procs', Chain, script.j)
  BY <1>2, <1>6 DEF Signalled
<1>13. StopIsAsFar'
  <2>1. script'.chains = config_db'[script'.cfg].chains
    BY <1>1, <1>5 DEF StopIsAsFar, Load
  <2>2. ASSUME fresh[1] = "stopping", NEW i \in DOMAIN script.chains,
               NEW j \in DOMAIN script.chains[i].nodes, i < i1 \/ (i = i1 /\ j < j1),
               <<i, j>> \notin failed
        PROVE  Signalled(procs', script.chains[i], j)
    <3>1. CASE i < script.i \/ (i = script.i /\ j < script.j)
      BY <1>3, <1>11, <2>2, <3>1 DEF StopIsAsFar
    <3>2. CASE i = script.i /\ j = script.j
      BY <1>2, <1>12, <2>2, <3>2
    <3> QED
      BY <1>4, <2>2, <3>1, <3>2
  <2> QED
    BY <1>5, <1>10, <2>1, <2>2 DEF StopIsAsFar, Load
<1>14. FreshIsKept'
  BY <1>1, <1>5, <1>11 DEF FreshIsKept, CanLoad, Load
<1>15. DeploymentIsUsable'
  BY <1>10 DEF DeploymentIsUsable
<1> QED
  BY <1>6, <1>7, <1>8, <1>9, <1>13, <1>14, <1>15, IInvPartsNext

----------------------------------------------------------------------------
(* The creation of accounts. *)

\* What a thread does to its chain and to itself.
ThreadChanged(i, c, t) ==
  /\ script' \in Scripts /\ script'.kind = script.kind /\ script'.cfg = script.cfg
  /\ script'.i = script.i /\ script'.j = script.j
  /\ i \in DOMAIN script.chains /\ DOMAIN script.thr = DOMAIN script.chains
  /\ Len(script'.chains) = Len(script.chains)
  /\ DOMAIN script'.chains = DOMAIN script.chains /\ DOMAIN script'.thr = DOMAIN script.thr
  /\ \A k \in DOMAIN script.thr :
       /\ script'.chains[k] = IF k = i THEN c ELSE script.chains[k]
       /\ script'.thr[k] = IF k = i THEN t ELSE script.thr[k]

\* A thread of a script goes on, with its copy of a chain.
LEMMA ThreadChanges ==
  ASSUME IInv, script.kind \in {"accounts", "deploy"}, NEW i \in DOMAIN script.thr,
         NEW c \in Chains, c.name = script.chains[i].name, c.type = script.chains[i].type,
         Len(c.nodes) = Len(script.chains[i].nodes), NEW t \in Threads,
         script' = [script EXCEPT !.chains = [script.chains EXCEPT ![i] = c],
                                  !.thr = [script.thr EXCEPT ![i] = t]]
  PROVE  ThreadChanged(i, c, t)
<1>1. script # NoScript /\ DOMAIN script.thr = DOMAIN script.chains
  BY IInvParts DEF NoScript, ScriptFits
<1>2. /\ script \in Scripts /\ i \in DOMAIN script.chains /\ script.chains \in Configs
      /\ script.chains \in Seq(Chains) /\ script.thr \in Seq(Threads)
      /\ script.chains[i] \in Chains /\ HasTags(script.chains[i])
      /\ DOMAIN script.chains[i].nodes = 1 .. Len(script.chains[i].nodes)
  <2>1. script.thr \in Seq(Threads)
    BY <1>1, ScriptFacts DEF Scripts
  <2> QED
    BY <1>1, <2>1, ScriptFacts
<1>3. DOMAIN c.nodes = DOMAIN script.chains[i].nodes
  <2>1. c.nodes \in Seq(Nodes)
    BY DEF Chains
  <2> QED
    BY <1>2, <2>1
<1>4. HasTags(c)
  BY <1>2, <1>3, SameTags
<1> DEFINE chains == [script.chains EXCEPT ![i] = c]
           thr    == [script.thr EXCEPT ![i] = t]
<1>5. /\ chains \in Configs /\ Len(chains) = Len(script.chains)
      /\ DOMAIN chains = DOMAIN script.chains
  BY <1>2, <1>4, ReplacedIsConfig
<1>6. /\ \A k \in DOMAIN script.chains : chains[k] = IF k = i THEN c ELSE script.chains[k]
      /\ thr \in Seq(Threads) /\ DOMAIN thr = DOMAIN script.thr
      /\ \A k \in DOMAIN script.thr : thr[k] = IF k = i THEN t ELSE script.thr[k]
  BY <1>2
<1> HIDE DEF chains, thr
<1>7. script' = [script EXCEPT !.chains = chains, !.thr = thr]
  BY DEF chains, thr
<1>8. /\ script'.kind = script.kind /\ script'.cfg = script.cfg /\ script'.i = script.i /\ script'.j = script.j
      /\ script'.chains = chains /\ script'.thr = thr
  BY <1>2, <1>7 DEF Scripts
<1>9. script' \in Scripts
  BY <1>2, <1>5, <1>6, <1>7 DEF Scripts
<1> QED
  BY <1>1, <1>2, <1>5, <1>6, <1>8, <1>9 DEF ThreadChanged

\* The threads of a script that creates accounts go on.
LEMMA AccountsGoOn ==
  ASSUME IInv, script.kind = "accounts", NEW i \in DOMAIN script.thr,
         NEW c \in Chains, c.name = script.chains[i].name, c.type = script.chains[i].type,
         Len(c.nodes) = Len(script.chains[i].nodes),
         NEW t \in Threads, t.node <= Len(c.nodes),
         script' = [script EXCEPT !.chains = [script.chains EXCEPT ![i] = c],
                                  !.thr = [script.thr EXCEPT ![i] = t]],
         UNCHANGED <<config_db, procs, pidfile, gens, source, cache, fresh, interrupted>>
  PROVE  IInv'
<1> USE IInvParts
<1>1. /\ script' \in Scripts /\ script'.kind = script.kind /\ script'.cfg = script.cfg
      /\ script'.i = script.i /\ script'.j = script.j
      /\ i \in DOMAIN script.chains /\ DOMAIN script.thr = DOMAIN script.chains
      /\ Len(script'.chains) = Len(script.chains)
      /\ DOMAIN script'.chains = DOMAIN script.chains /\ DOMAIN script'.thr = DOMAIN script.thr
      /\ \A k \in DOMAIN script.thr :
           /\ script'.chains[k] = IF k = i THEN c ELSE script.chains[k]
           /\ script'.thr[k] = IF k = i THEN t ELSE script.thr[k]
  <2>1. script.kind \in {"accounts", "deploy"}
    OBVIOUS
  <2>2. ThreadChanged(i, c, t)
    BY <2>1, ThreadChanges
  <2> QED
    BY <2>2 DEF ThreadChanged
<1>2. script # NoScript
  BY DEF NoScript
<1>3. HostsInv'
  BY HostsLoseProcesses DEF HostsInv
<1>4. RestTyped'
  BY <1>1 DEF RestTyped
<1>5. ScriptFits'
  <2>1. \A k \in DOMAIN script.chains : script'.chains[k].name = script.chains[k].name
    BY <1>1
  <2>2. \A k \in DOMAIN script.thr : script'.thr[k].node <= Len(script'.chains[k].nodes)
    BY <1>1, <1>2 DEF ScriptFits
  <2> QED
    BY <1>1, <1>2, <2>1, <2>2 DEF ScriptFits, CanLoad, Load, Chain
<1>6. GenesisIsNew' /\ StartIsAsFar'
  BY <1>1 DEF GenesisIsNew, StartIsAsFar, Starting
<1>7. StopIsAsFar' /\ FreshIsKept' /\ DeployFits' /\ CacheAgrees' /\ DeploymentIsUsable'
  BY <1>1, StartLeavesTheRest
<1> QED
  BY <1>3, <1>4, <1>5, <1>6, <1>7, IInvPartsNext

\* An account of a node is created, or cannot be.
LEMMA DefaultAccountStep ==
  ASSUME IInv, script.kind = "accounts", NEW i \in DOMAIN script.thr,
         EthPowDefaultAccount(i) \/ NoDefaultAccount(i),
         UNCHANGED <<source, cache, fresh, interrupted>>
  PROVE  IInv'
<1> USE IInvParts
<1> DEFINE chain == script.chains[i]
           thread == script.thr[i]
           j == thread.node
<1>1. /\ script # NoScript /\ DOMAIN script.thr = DOMAIN script.chains
      /\ j <= Len(chain.nodes)
  BY DEF ScriptFits, NoScript
<1>2. /\ script \in Scripts /\ chain \in Chains /\ script.chains \in Seq(Chains)
      /\ script.thr \in Seq(Threads) /\ thread \in Threads /\ j \in Nat \ {0}
      /\ DOMAIN chain.nodes = 1 .. Len(chain.nodes) /\ Len(chain.nodes) \in Nat
      /\ i \in DOMAIN script.chains
  <2>1. script.thr \in Seq(Threads)
    BY <1>1, ScriptFacts DEF Scripts
  <2>2. thread \in Threads
    BY <2>1
  <2>3. j \in Nat \ {0}
    BY <2>2 DEF Threads
  <2> QED
    BY <1>1, <2>1, <2>2, <2>3, ScriptFacts
<1>3. UNCHANGED <<config_db, procs, pidfile, gens>>
  BY DEF EthPowDefaultAccount, NoDefaultAccount, hostVars
<1>4. CASE script' = [script EXCEPT !.thr[i].st = "dead"]
  <2> DEFINE t == [thread EXCEPT !.st = "dead"]
  <2>1. t \in Threads /\ t.node = j
    BY <1>2 DEF Threads
  <2>2. script' = [script EXCEPT !.chains = [script.chains EXCEPT ![i] = chain],
                                 !.thr = [script.thr EXCEPT ![i] = t]]
    <3>1. [script.chains EXCEPT ![i] = chain] = script.chains
      BY <1>2
    <3> QED
      BY <1>2, <1>4, <3>1 DEF Scripts
  <2> HIDE DEF t
  <2> QED
    BY <1>1, <1>2, <1>3, <2>1, <2>2, AccountsGoOn
<1>5. ASSUME NEW p \in Answers(chain.nodes[j].host, chain.nodes[j].rpcport),
             script' = [script EXCEPT
                  !.chains[i].nodes[j].default = p.gen,
                  !.thr[i] = IF j = Len(chain.nodes) THEN [@ EXCEPT !.st = "done"]
                             ELSE [@ EXCEPT !.node = j + 1]]
      PROVE  IInv'
  <2>1. p.gen \in Nat /\ j \in DOMAIN chain.nodes
    <3>1. p \in Processes
      BY DEF Answers, HostsInv
    <3> QED
      BY <1>1, <1>2, <3>1 DEF Processes
  <2> DEFINE node == [chain.nodes[j] EXCEPT !.default = p.gen]
             c == [chain EXCEPT !.nodes = [chain.nodes EXCEPT ![j] = node]]
             t == IF j = Len(chain.nodes) THEN [thread EXCEPT !.st = "done"]
                  ELSE [thread EXCEPT !.node = j + 1]
  <2>2. c \in Chains /\ c.name = chain.name /\ c.type = chain.type /\ Len(c.nodes) = Len(chain.nodes)
    <3>1. /\ node \in Nodes
          /\ node.host = chain.nodes[j].host /\ node.signer = chain.nodes[j].signer
      <4>1. chain.nodes[j] \in Nodes
        BY <1>1, <1>2, <2>1, ScriptFacts
      <4> QED
        BY <2>1, <4>1 DEF Nodes
    <3> HIDE DEF node
    <3>2. c = [chain EXCEPT !.nodes = [chain.nodes EXCEPT ![j] = node]]
      OBVIOUS
    <3>3. chain \in Chains /\ j \in DOMAIN chain.nodes
      BY <1>2, <2>1
    <3> HIDE DEF c, chain, j
    <3> QED
      BY <3>1, <3>2, <3>3, NodeIsReplaced
  <2>3. t \in Threads /\ t.node <= Len(chain.nodes)
    <3>1. CASE j = Len(chain.nodes)
      BY <1>1, <1>2, <3>1 DEF Threads
    <3>2. CASE j # Len(chain.nodes)
      <4>1. j + 1 \in Nat \ {0} /\ j + 1 <= Len(chain.nodes)
        BY <1>1, <1>2, <3>2
      <4> QED
        BY <1>2, <3>2, <4>1 DEF Threads
    <3> QED
      BY <3>1, <3>2
  <2>4. script' = [script EXCEPT !.chains = [script.chains EXCEPT ![i] = c],
                                 !.thr = [script.thr EXCEPT ![i] = t]]
    BY <1>2, <1>5 DEF Scripts
  <2> HIDE DEF c, t
  <2> QED
    BY <1>1, <1>2, <1>3, <2>2, <2>3, <2>4, AccountsGoOn
<1> QED
  BY <1>4, <1>5 DEF EthPowDefaultAccount, NoDefaultAccount


\* A chain of the script's copy is saved.
LEMMA ChainIsSaved ==
  ASSUME IInv, script # NoScript, NEW i \in DOMAIN script.chains,
         AddItem(script.cfg, i, script.chains[i])
  PROVE  \E new \in Configs :
           /\ SaveConfig(script.cfg, new) /\ config_db'[script.cfg] = File(new)
           /\ config_db' \in
                [ConfigNames -> [st : {"absent", "truncated", "whole"}, chains : Configs]]
           /\ Len(new) = Len(script.chains) /\ DOMAIN new = DOMAIN script.chains
           /\ \A k \in DOMAIN script.chains :
                /\ new[k] = IF k = i THEN script.chains[i] ELSE Load(script.cfg)[k]
                /\ new[k].name = script.chains[k].name
<1> USE IInvParts
<1>1. /\ DOMAIN script.chains = 1 .. Len(script.chains) /\ script.cfg \in ConfigNames
      /\ script.chains[i] \in Chains /\ HasTags(script.chains[i])
  BY ScriptFacts
<1> DEFINE old == Load(script.cfg)
           new == [old EXCEPT ![i] = script.chains[i]]
<1>2. /\ old \in Configs /\ DOMAIN old = DOMAIN script.chains /\ Len(old) = Len(script.chains)
      /\ \A k \in DOMAIN old : old[k] \in Chains /\ old[k].name = script.chains[k].name
  <2>1. old \in Configs
    BY <1>1 DEF RestTyped, Load
  <2> QED
    BY <1>1, <2>1, ConfigChains DEF ScriptFits
<1>3. SaveConfig(script.cfg, new)
  <2>1. Updated(old[i], script.chains[i]) = script.chains[i]
    BY <1>1, <1>2, UpdatedIsValue
  <2>2. SaveConfig(script.cfg, [old EXCEPT ![i] = Updated(old[i], script.chains[i])])
    BY DEF AddItem
  <2> QED
    BY <2>1, <2>2
<1>4. /\ new \in Configs /\ Len(new) = Len(old) /\ DOMAIN new = DOMAIN old
      /\ \A k \in DOMAIN old : new[k] = IF k = i THEN script.chains[i] ELSE old[k]
  <2>1. /\ old \in Configs /\ i \in DOMAIN old /\ script.chains[i] \in Chains
        /\ HasTags(script.chains[i]) /\ script.chains[i].name = old[i].name
    BY <1>1, <1>2
  <2> HIDE DEF old
  <2>2. new \in Configs /\ Len(new) = Len(old) /\ DOMAIN new = DOMAIN old
    BY <2>1, ReplacedIsConfig
  <2>3. \A k \in DOMAIN old : new[k] = IF k = i THEN script.chains[i] ELSE old[k]
    BY <2>1 DEF Configs
  <2> QED
    BY <2>2, <2>3
<1> HIDE DEF new
<1>5. config_db'[script.cfg] = File(new)
  BY <1>1, <1>3 DEF SaveConfig, RestTyped
<1>6. config_db' \in [ConfigNames -> [st : {"absent", "truncated", "whole"}, chains : Configs]]
  BY <1>1, <1>3, <1>4, SavedIsTyped
<1>7. \A k \in DOMAIN script.chains : new[k].name = script.chains[k].name
  BY <1>2, <1>4
<1> QED
  BY <1>2, <1>3, <1>4, <1>5, <1>6, <1>7

\* The accounts of a chain are saved.
LEMMA SaveAccountsStep ==
  ASSUME IInv, script.kind = "accounts", NEW i \in DOMAIN script.thr,
         AddItem(script.cfg, i, script.chains[i]),
         script' = [script EXCEPT !.thr[i].st = "saved"],
         UNCHANGED <<procs, pidfile, gens, source, cache, fresh, interrupted>>
  PROVE  IInv'
<1> USE IInvParts
<1> DEFINE chain == script.chains[i]
           t == [script.thr[i] EXCEPT !.st = "saved"]
<1>1. script # NoScript /\ DOMAIN script.thr = DOMAIN script.chains
  BY DEF ScriptFits, NoScript
<1>2. /\ script \in Scripts /\ chain \in Chains /\ script.chains \in Seq(Chains)
      /\ script.thr[i] \in Threads
  <2>1. script.thr \in Seq(Threads)
    BY <1>1, ScriptFacts DEF Scripts
  <2>2. script.thr[i] \in Threads
    BY <2>1
  <2> QED
    BY <1>1, <2>2, ScriptFacts
<1>3. t \in Threads /\ t.node = script.thr[i].node
  BY <1>2 DEF Threads
<1>4. script' = [script EXCEPT !.chains = [script.chains EXCEPT ![i] = chain],
                               !.thr = [script.thr EXCEPT ![i] = t]]
  <2>1. [script.chains EXCEPT ![i] = chain] = script.chains
    BY <1>2
  <2> QED
    BY <1>2, <2>1 DEF Scripts
<1> HIDE DEF t
<1>5. /\ script' \in Scripts /\ script'.kind = script.kind /\ script'.cfg = script.cfg
      /\ script'.i = script.i /\ script'.j = script.j
      /\ i \in DOMAIN script.chains /\ DOMAIN script.thr = DOMAIN script.chains
      /\ Len(script'.chains) = Len(script.chains)
      /\ DOMAIN script'.chains = DOMAIN script.chains /\ DOMAIN script'.thr = DOMAIN script.thr
      /\ \A k \in DOMAIN script.thr :
           /\ script'.chains[k] = IF k = i THEN chain ELSE script.chains[k]
           /\ script'.thr[k] = IF k = i THEN t ELSE script.thr[k]
  <2>1. /\ chain \in Chains /\ chain.name = script.chains[i].name
        /\ chain.type = script.chains[i].type
        /\ Len(chain.nodes) = Len(script.chains[i].nodes)
        /\ script.kind \in {"accounts", "deploy"} /\ t \in Threads
    BY <1>2, <1>3
  <2> HIDE DEF chain
  <2>2. ThreadChanged(i, chain, t)
    BY <1>4, <2>1, ThreadChanges
  <2> QED
    BY <2>2 DEF ThreadChanged
<1>6. PICK new \in Configs :
        /\ config_db'[script.cfg] = File(new)
        /\ config_db' \in
             [ConfigNames -> [st : {"absent", "truncated", "whole"}, chains : Configs]]
        /\ Len(new) = Len(script.chains)
        /\ \A k \in DOMAIN script.chains : new[k].name = script.chains[k].name
  BY <1>1, ChainIsSaved
<1>7. HostsInv'
  BY HostsLoseProcesses DEF HostsInv
<1>8. RestTyped'
  BY <1>5, <1>6 DEF RestTyped
<1>9. ScriptFits'
  <2>1. \A k \in DOMAIN script.thr :
          /\ script'.chains[k].name = script.chains[k].name
          /\ script'.thr[k].node <= Len(script'.chains[k].nodes)
    BY <1>1, <1>3, <1>5 DEF ScriptFits
  <2>2. config_db'[script'.cfg].st = "whole" /\ config_db'[script'.cfg].chains = new
    BY <1>5, <1>6 DEF File
  <2> QED
    BY <1>1, <1>5, <1>6, <2>1, <2>2 DEF ScriptFits, CanLoad, Load, Chain
<1>10. GenesisIsNew' /\ StartIsAsFar'
  BY <1>5 DEF GenesisIsNew, StartIsAsFar, Starting
<1>11. StopIsAsFar' /\ FreshIsKept' /\ DeployFits' /\ CacheAgrees' /\ DeploymentIsUsable'
  BY <1>5, StartLeavesTheRest
<1> QED
  BY <1>7, <1>8, <1>9, <1>10, <1>11, IInvPartsNext


----------------------------------------------------------------------------
(* The deployment of the contract. *)

\* What a thread may leave, when the deploy follows a start.
ThreadFits(c, t) ==
  fresh[2] = script.cfg =>
    /\ c.type = "eth-poa" /\ fresh[1] = "started" /\ t.st = "done" => Contract(c)
    /\ c.type = "eth-poa" /\ fresh[1] = "deployed" => Contract(c)

\* A thread of a deploy goes on.
LEMMA ThreadGoesOn ==
  ASSUME IInv, script.kind = "deploy", NEW i \in DOMAIN script.thr,
         script.thr[i].st \notin {"done", "dead"},
         NEW c \in Chains, c = [script.chains[i] EXCEPT !.contract = c.contract],
         NEW t \in Threads,
         script' = [script EXCEPT !.chains = [script.chains EXCEPT ![i] = c],
                                  !.thr = [script.thr EXCEPT ![i] = t]],
         ThreadFits(c, t),
         cache' \in [src : NoFile .. EmptyFile, res : NoFile .. EmptyFile], CacheAgrees',
         UNCHANGED <<config_db, procs, pidfile, gens, source, fresh, interrupted>>
  PROVE  IInv'
<1> USE IInvParts
<1>1. script # NoScript /\ i \in DOMAIN script.chains
  BY DEF NoScript, ScriptFits
<1>2. /\ c.name = script.chains[i].name /\ c.type = script.chains[i].type
      /\ c.nodes = script.chains[i].nodes /\ c.gen = script.chains[i].gen
  <2>1. script.chains[i] \in Chains
    BY <1>1, ScriptFacts
  <2> QED
    BY <2>1 DEF Chains
<1>3. /\ script' \in Scripts /\ script'.kind = script.kind /\ script'.cfg = script.cfg
      /\ script'.i = script.i /\ script'.j = script.j
      /\ i \in DOMAIN script.chains /\ DOMAIN script.thr = DOMAIN script.chains
      /\ Len(script'.chains) = Len(script.chains)
      /\ DOMAIN script'.chains = DOMAIN script.chains /\ DOMAIN script'.thr = DOMAIN script.thr
      /\ \A k \in DOMAIN script.thr :
           /\ script'.chains[k] = IF k = i THEN c ELSE script.chains[k]
           /\ script'.thr[k] = IF k = i THEN t ELSE script.thr[k]
  <2>1. /\ c.name = script.chains[i].name /\ c.type = script.chains[i].type
        /\ Len(c.nodes) = Len(script.chains[i].nodes)
        /\ script.kind \in {"accounts", "deploy"}
    BY <1>2
  <2>2. ThreadChanged(i, c, t)
    BY <2>1, ThreadChanges
  <2> QED
    BY <2>2 DEF ThreadChanged
<1>4. HostsInv'
  BY HostsLoseProcesses DEF HostsInv
<1>5. RestTyped'
  BY <1>3 DEF RestTyped
<1>6. ScriptFits'
  <2>1. \A k \in DOMAIN script.chains : script'.chains[k].name = script.chains[k].name
    BY <1>2, <1>3
  <2> QED
    BY <1>1, <1>3, <2>1 DEF ScriptFits, CanLoad, Load, Chain
<1>7. GenesisIsNew' /\ StartIsAsFar'
  BY <1>3 DEF GenesisIsNew, StartIsAsFar, Starting
<1>8. StopIsAsFar'
  <2>1. fresh[1] \notin {"stopping", "stopped"}
    BY DEF FreshIsKept, Nothing
  <2> QED
    BY <1>3, <2>1 DEF StopIsAsFar, Load
<1>9. FreshIsKept'
  BY <1>3 DEF FreshIsKept, CanLoad, Load
<1>10. DeployFits'
  <2>1. ~Deployed /\ ~(script.i > 1)
    BY DEF Deployed, DeployFits
  <2>2. ASSUME NEW k \in DOMAIN script.chains
        PROVE  script'.chains[k] =
                 [Load(script.cfg)[k] EXCEPT !.contract = script'.chains[k].contract]
    <3>1. script.chains[k] = [Load(script.cfg)[k] EXCEPT !.contract = script.chains[k].contract]
      BY DEF DeployFits
    <3>2. CASE k # i
      BY <1>3, <3>1, <3>2
    <3>3. CASE k = i
      <4>1. script'.chains[k] = c
        BY <1>3, <3>3
      <4>2. \A x, y : [[Load(script.cfg)[k] EXCEPT !.contract = x] EXCEPT !.contract = y]
                        = [Load(script.cfg)[k] EXCEPT !.contract = y]
        OBVIOUS
      <4>3. c = [script.chains[k] EXCEPT !.contract = c.contract]
        BY <3>3
      <4>4. c = [[Load(script.cfg)[k] EXCEPT !.contract = script.chains[k].contract]
                    EXCEPT !.contract = c.contract]
        BY <3>1, <4>3
      <4>5. c = [Load(script.cfg)[k] EXCEPT !.contract = c.contract]
        BY <4>2, <4>4
      <4> QED
        BY <4>1, <4>5
    <3> QED
      BY <3>2, <3>3
  <2>3. ASSUME fresh[2] = script.cfg, NEW k \in DOMAIN script.chains
        PROVE  /\ script'.chains[k].type = "eth-poa"
               /\ (fresh[1] = "started" /\ script'.thr[k].st = "done") \/ fresh[1] = "deployed"
               => Contract(script'.chains[k])
    <3>1. CASE k = i
      BY <1>3, <2>3, <3>1 DEF ThreadFits
    <3>2. CASE k # i
      BY <1>3, <2>3, <3>2 DEF DeployFits
    <3> QED
      BY <3>1, <3>2
  <2>4. \A k \in DOMAIN script.chains : ~(k < script.i)
    BY <1>1, <2>1, ScriptFacts
  <2>5. \A d : Contract(d) => Contract(d)'
    BY DEF Contract
  <2>6. script'.i = script.i /\ ~(script'.i > 1)
    BY <1>3, <2>1
  <2> HIDE DEF Contract
  <2> QED
    BY <1>3, <2>2, <2>3, <2>4, <2>5, <2>6 DEF DeployFits, Load
<1>11. DeploymentIsUsable'
  BY SameDeployment
<1> QED
  BY <1>4, <1>5, <1>6, <1>7, <1>8, <1>9, <1>10, <1>11, IInvPartsNext

\* A thread of a deploy and its copy.
LEMMA ThreadFacts ==
  ASSUME IInv, script.kind = "deploy", NEW i \in DOMAIN script.thr
  PROVE  /\ script # NoScript /\ script \in Scripts /\ script.thr[i] \in Threads
         /\ script.thr \in Seq(Threads) /\ script.chains \in Seq(Chains)
         /\ i \in DOMAIN script.chains /\ script.chains[i] \in Chains
         /\ 1 \in DOMAIN script.chains[i].nodes
         /\ DOMAIN script.thr = DOMAIN script.chains
<1>1. script # NoScript /\ DOMAIN script.thr = DOMAIN script.chains
  BY IInvParts DEF ScriptFits, NoScript
<1>2. script.thr \in Seq(Threads)
  BY <1>1, ScriptFacts DEF Scripts
<1>3. script.thr[i] \in Threads
  BY <1>2
<1>4. 1 \in DOMAIN script.chains[i].nodes
  BY <1>1, ScriptFacts
<1> QED
  BY <1>1, <1>2, <1>3, <1>4, ScriptFacts

\* Only the thread changes.
LEMMA OnlyTheThread ==
  ASSUME IInv, script.kind = "deploy", NEW i \in DOMAIN script.thr,
         script.thr[i].st \notin {"done", "dead"}, NEW t \in Threads,
         t.st # "done",
         script' = [script EXCEPT !.thr = [script.thr EXCEPT ![i] = t]],
         cache' \in [src : NoFile .. EmptyFile, res : NoFile .. EmptyFile], CacheAgrees',
         UNCHANGED <<config_db, procs, pidfile, gens, source, fresh, interrupted>>
  PROVE  IInv'
<1>1. /\ script # NoScript /\ script \in Scripts
      /\ script.chains \in Seq(Chains) /\ i \in DOMAIN script.chains
      /\ script.chains[i] \in Chains
  BY ThreadFacts
<1>2. PICK c \in Chains : c = script.chains[i]
  BY <1>1
<1>3. script' = [script EXCEPT !.chains = [script.chains EXCEPT ![i] = c],
                               !.thr = [script.thr EXCEPT ![i] = t]]
  <2>1. [script.chains EXCEPT ![i] = c] = script.chains
    BY <1>1, <1>2
  <2> QED
    BY <1>1, <2>1 DEF Scripts
<1>4. fresh[2] = script.cfg /\ c.type = "eth-poa" /\ fresh[1] = "deployed" => Contract(c)
  BY <1>1, <1>2, IInvParts DEF DeployFits
<1>5. ThreadFits(c, t)
  BY <1>4 DEF ThreadFits
<1>6. c = [script.chains[i] EXCEPT !.contract = c.contract]
  BY <1>2 DEF Chains
<1> QED
  BY <1>3, <1>5, <1>6, ThreadGoesOn


\* A step of one deploy thread leaves the others alone.
LEMMA ThreadIsReplaced ==
  ASSUME IInv, script.kind = "deploy", NEW i \in DOMAIN script.thr, NEW t,
         script' = [script EXCEPT !.thr = [script.thr EXCEPT ![i] = t]]
  PROVE  /\ script'.kind = "deploy" /\ DOMAIN script'.thr = DOMAIN script.thr
         /\ \A k \in DOMAIN script.thr : script'.thr[k] = IF k = i THEN t ELSE script.thr[k]
<1>1. script \in Scripts /\ script.thr \in Seq(Threads)
  BY ThreadFacts
<1>2. script'.kind = "deploy" /\ script'.thr = [script.thr EXCEPT ![i] = t]
  BY <1>1 DEF Scripts
<1> QED
  BY <1>1, <1>2

\* The types of the cache.
LEMMA CacheFacts ==
  ASSUME IInv
  PROVE  /\ MaxSource \in Nat \ {0} /\ source \in 1 .. MaxSource /\ source # EmptyFile
         /\ cache \in [src : NoFile .. EmptyFile, res : NoFile .. EmptyFile]
         /\ cache.src \in NoFile .. EmptyFile /\ cache.res \in NoFile .. EmptyFile
         /\ source \in NoFile .. EmptyFile /\ EmptyFile \in NoFile .. EmptyFile
         /\ NoFile .. EmptyFile \subseteq Nat
<1>1. /\ MaxSource \in Nat \ {0} /\ source \in 1 .. MaxSource
      /\ cache \in [src : NoFile .. EmptyFile, res : NoFile .. EmptyFile]
  BY IInvParts, BoundsAssumption DEF RestTyped
<1> QED
  BY <1>1 DEF NoFile, EmptyFile

\* A thread that is not in the way of the cache goes on.
LEMMA CacheStaysAsItIs ==
  ASSUME IInv, script.kind = "deploy", NEW i \in DOMAIN script.thr, NEW t,
         script' = [script EXCEPT !.thr = [script.thr EXCEPT ![i] = t]],
         script.thr[i].st \notin {"result", "source", "content"},
         t.st \notin {"result", "source", "content"},
         interrupted # "deploy" =>
           /\ t.st = "load" => cache.res \in {source, EmptyFile}
           /\ t.st = "deploy" => t.info = source,
         UNCHANGED <<source, cache, interrupted>>
  PROVE  CacheAgrees'
<1> USE IInvParts
<1>1. /\ script'.kind = "deploy" /\ DOMAIN script'.thr = DOMAIN script.thr
      /\ \A k \in DOMAIN script.thr : script'.thr[k] = IF k = i THEN t ELSE script.thr[k]
  BY ThreadIsReplaced
<1> SUFFICES ASSUME interrupted # "deploy" PROVE CacheAgrees'
  BY DEF CacheAgrees
<1>2. NoneWriting' => cache.src = cache.res
  <2>1. NoneWriting' => NoneWriting
    BY <1>1 DEF NoneWriting, Writing, Working
  <2> QED
    BY <2>1 DEF CacheAgrees
<1>3. cache.res = EmptyFile => \E k \in DOMAIN script.thr : script'.thr[k].st = "result"
  <2> SUFFICES ASSUME cache.res = EmptyFile
               PROVE  \E k \in DOMAIN script.thr : script'.thr[k].st = "result"
    OBVIOUS
  <2>1. PICK k \in DOMAIN script.thr : script.thr[k].st = "result"
    BY DEF CacheAgrees, Working
  <2> QED
    BY <1>1, <2>1
<1>4. \A k \in DOMAIN script.thr :
           /\ script'.thr[k].st \in {"load", "source", "content"} =>
                cache.res \in {source, EmptyFile}
           /\ script'.thr[k].st \in {"result", "source", "content", "deploy"} =>
                script'.thr[k].info = source
  BY <1>1 DEF CacheAgrees
<1>5. cache.src = source => cache.res \in {source, EmptyFile}
  BY DEF CacheAgrees
<1>6. EmptyFile' = EmptyFile /\ cache' = cache /\ source' = source
  BY DEF EmptyFile
<1> QED
  BY <1>1, <1>2, <1>3, <1>4, <1>5, <1>6 DEF CacheAgrees, Working

\* A thread looks for its source in the cache.
LEMMA LookupStep ==
  ASSUME IInv, script.kind = "deploy", NEW i \in DOMAIN script.thr, Lookup(i),
         UNCHANGED <<fresh, interrupted>>
  PROVE  IInv'
<1> USE IInvParts
<1> DEFINE st == IF Rpc(i) = {} THEN "dead"
                 ELSE IF cache.src = source /\ cache.res # NoFile THEN "load" ELSE "compile"
           t == [script.thr[i] EXCEPT !.st = st]
<1>1. script.thr[i].st = "work" /\ script \in Scripts /\ script.thr[i] \in Threads
  BY ThreadFacts DEF Lookup, Working
<1>2. UNCHANGED <<config_db, procs, pidfile, gens, source, cache>>
  BY DEF Lookup, hostVars, DeployVars
<1>3. st \in {"dead", "load", "compile"}
  OBVIOUS
<1>4. st = "load" => cache.src = source
  OBVIOUS
<1>6. script' = [script EXCEPT !.thr[i].st = st]
  BY DEF Lookup, Becomes
<1> HIDE DEF st
<1>7. t \in Threads /\ t.st = st
  BY <1>1, <1>3 DEF Threads
<1>8. script' = [script EXCEPT !.thr = [script.thr EXCEPT ![i] = t]]
  BY <1>1, <1>6 DEF Scripts
<1> HIDE DEF t
<1>9. CacheAgrees'
  <2>1. interrupted # "deploy" => (t.st = "load" => cache.res \in {source, EmptyFile})
    BY <1>4, <1>7 DEF CacheAgrees
  <2> QED
    BY <1>1, <1>2, <1>3, <1>7, <1>8, <2>1, CacheStaysAsItIs
<1> QED
  BY <1>1, <1>2, <1>3, <1>7, <1>8, <1>9, CacheFacts, OnlyTheThread

\* A thread reads the cached result, or dies of an empty file.
LEMMA LoadCachedStep ==
  ASSUME IInv, script.kind = "deploy", NEW i \in DOMAIN script.thr, LoadCached(i),
         UNCHANGED <<fresh, interrupted>>
  PROVE  IInv'
<1> USE IInvParts
<1> DEFINE st == IF cache.res = EmptyFile THEN "dead" ELSE "deploy"
           t == [script.thr[i] EXCEPT !.info = cache.res, !.st = st]
<1>1. script.thr[i].st = "load" /\ script \in Scripts /\ script.thr[i] \in Threads
      /\ i \in DOMAIN script.chains
  BY ThreadFacts DEF LoadCached, Working
<1>2. UNCHANGED <<config_db, procs, pidfile, gens, source, cache>>
  BY DEF LoadCached, hostVars, DeployVars
<1>3. st \in {"dead", "deploy"} /\ (st = "deploy" => cache.res # EmptyFile)
  OBVIOUS
<1>4. script' = [script EXCEPT !.thr[i].info = cache.res, !.thr[i].st = st]
  BY DEF LoadCached
<1> HIDE DEF st
<1>5. t \in Threads /\ t.st = st /\ t.info = cache.res
  <2>1. cache.res \in NoFile .. EmptyFile
    BY CacheFacts
  <2> QED
    BY <1>1, <1>3, <2>1 DEF Threads
<1>6. script' = [script EXCEPT !.thr = [script.thr EXCEPT ![i] = t]]
  BY <1>1, <1>4 DEF Scripts
<1> HIDE DEF t
<1>7. CacheAgrees'
  <2>1. interrupted # "deploy" => (t.st = "deploy" => t.info = source)
    BY <1>1, <1>3, <1>5 DEF CacheAgrees
  <2> QED
    BY <1>1, <1>2, <1>3, <1>5, <1>6, <2>1, CacheStaysAsItIs
<1> QED
  BY <1>1, <1>2, <1>3, <1>5, <1>6, <1>7, CacheFacts, OnlyTheThread


\* A thread that has the cache's files to write goes on.
LEMMA CacheIsWritten ==
  ASSUME IInv, script.kind = "deploy", NEW i \in DOMAIN script.thr, NEW t,
         script' = [script EXCEPT !.thr = [script.thr EXCEPT ![i] = t]],
         t.st \in {"result", "source", "content", "deploy"}, t.info = source,
         NEW src, NEW res, cache'.src = src, cache'.res = res,
         res \in {cache.res, source, EmptyFile},
         res = EmptyFile =>
           \/ t.st = "result"
           \/ cache.res = EmptyFile /\ script.thr[i].st # "result",
         src \in {cache.src, source, EmptyFile},
         src = source => res \in {source, EmptyFile},
         t.st \in {"source", "content"} => res \in {source, EmptyFile},
         t.st = "deploy" /\ res # EmptyFile => src = res,
         UNCHANGED <<source, interrupted>>
  PROVE  CacheAgrees'
<1> USE IInvParts
<1>1. /\ script'.kind = "deploy" /\ DOMAIN script'.thr = DOMAIN script.thr
      /\ \A k \in DOMAIN script.thr : script'.thr[k] = IF k = i THEN t ELSE script.thr[k]
  BY ThreadIsReplaced
<1> SUFFICES ASSUME interrupted # "deploy" PROVE CacheAgrees'
  BY DEF CacheAgrees
<1>2. res = EmptyFile => \E k \in DOMAIN script.thr : script'.thr[k].st = "result"
  <2> SUFFICES ASSUME res = EmptyFile
               PROVE  \E k \in DOMAIN script.thr : script'.thr[k].st = "result"
    OBVIOUS
  <2>1. CASE t.st = "result"
    BY <1>1, <2>1
  <2>2. CASE cache.res = EmptyFile /\ script.thr[i].st # "result"
    <3>1. PICK k \in DOMAIN script.thr : script.thr[k].st = "result"
      BY <2>2 DEF CacheAgrees, Working
    <3> QED
      BY <1>1, <2>2, <3>1
  <2> QED
    BY <2>1, <2>2
<1>3. NoneWriting' => src = res
  <2> SUFFICES ASSUME NoneWriting' PROVE src = res
    OBVIOUS
  <2>1. \A k \in DOMAIN script.thr : script'.thr[k].st \notin {"result", "source", "content"}
    BY <1>1 DEF NoneWriting, Writing, Working
  <2>2. t.st = "deploy" /\ res # EmptyFile
    BY <1>1, <1>2, <2>1
  <2> QED
    BY <2>2
<1>4. \A k \in DOMAIN script.thr :
           /\ script'.thr[k].st \in {"load", "source", "content"} =>
                res \in {source, EmptyFile}
           /\ script'.thr[k].st \in {"result", "source", "content", "deploy"} =>
                script'.thr[k].info = source
  <2> TAKE k \in DOMAIN script.thr
  <2>1. CASE k = i
    BY <1>1, <2>1
  <2>2. CASE k # i
    BY <1>1, <2>2 DEF CacheAgrees
  <2> QED
    BY <2>1, <2>2
<1>5. EmptyFile' = EmptyFile /\ source' = source
  BY DEF EmptyFile
<1> QED
  BY <1>1, <1>2, <1>3, <1>4, <1>5 DEF CacheAgrees, Working

\* A thread compiles the source as it is now, and opens the file of the result.
LEMMA CompileStep ==
  ASSUME IInv, script.kind = "deploy", NEW i \in DOMAIN script.thr, Compile(i),
         UNCHANGED <<fresh, interrupted>>
  PROVE  IInv'
<1> USE IInvParts
<1> DEFINE t == [script.thr[i] EXCEPT !.info = source, !.st = "result"]
<1>1. /\ script.thr[i].st = "compile" /\ script \in Scripts /\ script.thr[i] \in Threads
      /\ UNCHANGED <<config_db, procs, pidfile, gens, source>>
      /\ cache' = [cache EXCEPT !.res = EmptyFile]
  BY ThreadFacts DEF Compile, Working, hostVars
<1>2. t \in Threads /\ t.st = "result" /\ t.info = source
  <2>1. source \in NoFile .. EmptyFile
    BY CacheFacts
  <2> QED
    BY <1>1, <2>1 DEF Threads
<1>3. script' = [script EXCEPT !.thr = [script.thr EXCEPT ![i] = t]]
  BY <1>1 DEF Compile, Scripts
<1> HIDE DEF t
<1>4. /\ cache' \in [src : NoFile .. EmptyFile, res : NoFile .. EmptyFile]
      /\ cache'.src = cache.src /\ cache'.res = EmptyFile
  BY <1>1, CacheFacts
<1>5. CacheAgrees'
  BY <1>1, <1>2, <1>3, <1>4, CacheIsWritten
<1> QED
  BY <1>1, <1>2, <1>3, <1>4, <1>5, OnlyTheThread

\* The result is written first.
LEMMA SaveResultStep ==
  ASSUME IInv, script.kind = "deploy", NEW i \in DOMAIN script.thr, SaveResult(i),
         UNCHANGED <<fresh, interrupted>>
  PROVE  IInv'
<1> USE IInvParts
<1> DEFINE t == [script.thr[i] EXCEPT !.st = "source"]
<1>1. /\ script.thr[i].st = "result" /\ script \in Scripts /\ script.thr[i] \in Threads
      /\ UNCHANGED <<config_db, procs, pidfile, gens, source>>
      /\ cache' = [cache EXCEPT !.res = script.thr[i].info]
  BY ThreadFacts DEF SaveResult, Working, hostVars
<1>2. t \in Threads /\ t.st = "source" /\ t.info = script.thr[i].info
  BY <1>1 DEF Threads
<1>3. script' = [script EXCEPT !.thr = [script.thr EXCEPT ![i] = t]]
  BY <1>1 DEF SaveResult, Becomes, Scripts
<1> HIDE DEF t
<1>4. /\ cache' \in [src : NoFile .. EmptyFile, res : NoFile .. EmptyFile]
      /\ cache'.src = cache.src /\ cache'.res = script.thr[i].info
  <2>1. script.thr[i].info \in NoFile .. EmptyFile
    BY <1>1 DEF Threads
  <2> QED
    BY <1>1, <2>1, CacheFacts
<1>5. CacheAgrees'
  <2>1. CASE interrupted = "deploy"
    BY <2>1 DEF CacheAgrees
  <2>2. CASE interrupted # "deploy"
    <3>1. script.thr[i].info = source /\ source # EmptyFile
      BY <1>1, <2>2, CacheFacts DEF CacheAgrees
    <3> QED
      BY <1>1, <1>2, <1>3, <1>4, <3>1, CacheIsWritten
  <2> QED
    BY <2>1, <2>2
<1> QED
  BY <1>1, <1>2, <1>3, <1>4, <1>5, OnlyTheThread

\* Then the file of the source is opened, which empties it.
LEMMA OpenSourceStep ==
  ASSUME IInv, script.kind = "deploy", NEW i \in DOMAIN script.thr, OpenSource(i),
         UNCHANGED <<fresh, interrupted>>
  PROVE  IInv'
<1> USE IInvParts
<1> DEFINE t == [script.thr[i] EXCEPT !.st = "content"]
<1>1. /\ script.thr[i].st = "source" /\ script \in Scripts /\ script.thr[i] \in Threads
      /\ UNCHANGED <<config_db, procs, pidfile, gens, source>>
      /\ cache' = [cache EXCEPT !.src = EmptyFile]
  BY ThreadFacts DEF OpenSource, Working, hostVars
<1>2. t \in Threads /\ t.st = "content" /\ t.info = script.thr[i].info
  BY <1>1 DEF Threads
<1>3. script' = [script EXCEPT !.thr = [script.thr EXCEPT ![i] = t]]
  BY <1>1 DEF OpenSource, Becomes, Scripts
<1> HIDE DEF t
<1>4. /\ cache' \in [src : NoFile .. EmptyFile, res : NoFile .. EmptyFile]
      /\ cache'.src = EmptyFile /\ cache'.res = cache.res
  BY <1>1, CacheFacts
<1>5. CacheAgrees'
  <2>1. CASE interrupted = "deploy"
    BY <1>1, <2>1 DEF CacheAgrees
  <2>2. CASE interrupted # "deploy"
    <3>1. /\ script.thr[i].info = source /\ source # EmptyFile
          /\ cache.res \in {source, EmptyFile}
      BY <1>1, <2>2, CacheFacts DEF CacheAgrees
    <3> QED
      BY <1>1, <1>2, <1>3, <1>4, <3>1, CacheIsWritten
  <2> QED
    BY <2>1, <2>2
<1> QED
  BY <1>1, <1>2, <1>3, <1>4, <1>5, OnlyTheThread

\* At last the source is written.
LEMMA SaveSourceStep ==
  ASSUME IInv, script.kind = "deploy", NEW i \in DOMAIN script.thr, SaveSource(i),
         UNCHANGED <<fresh, interrupted>>
  PROVE  IInv'
<1> USE IInvParts
<1> DEFINE t == [script.thr[i] EXCEPT !.st = "deploy"]
<1>1. /\ script.thr[i].st = "content" /\ script \in Scripts /\ script.thr[i] \in Threads
      /\ UNCHANGED <<config_db, procs, pidfile, gens, source>>
      /\ cache' = [cache EXCEPT !.src = source]
  BY ThreadFacts DEF SaveSource, Working, hostVars
<1>2. t \in Threads /\ t.st = "deploy" /\ t.info = script.thr[i].info
  BY <1>1 DEF Threads
<1>3. script' = [script EXCEPT !.thr = [script.thr EXCEPT ![i] = t]]
  BY <1>1 DEF SaveSource, Becomes, Scripts
<1> HIDE DEF t
<1>4. /\ cache' \in [src : NoFile .. EmptyFile, res : NoFile .. EmptyFile]
      /\ cache'.src = source /\ cache'.res = cache.res
  BY <1>1, CacheFacts
<1>5. CacheAgrees'
  <2>1. CASE interrupted = "deploy"
    BY <2>1 DEF CacheAgrees
  <2>2. CASE interrupted # "deploy"
    <3>1. script.thr[i].info = source /\ cache.res \in {source, EmptyFile}
      BY <1>1, <2>2 DEF CacheAgrees
    <3> QED
      BY <1>1, <1>2, <1>3, <1>4, <3>1, CacheIsWritten
  <2> QED
    BY <2>1, <2>2
<1> QED
  BY <1>1, <1>2, <1>3, <1>4, <1>5, OnlyTheThread


\* The contract is deployed on the geth that answers: the one of the chain's first node,
\* if a start has left it there.
LEMMA DeployStepOfThread ==
  ASSUME IInv, script.kind = "deploy", NEW i \in DOMAIN script.thr, Deploy(i),
         UNCHANGED <<fresh, interrupted>>
  PROVE  IInv'
<1> USE IInvParts
<1> DEFINE chain == script.chains[i]
<1>1. /\ script.thr[i].st = "deploy" /\ script \in Scripts /\ script.thr[i] \in Threads
      /\ script.thr \in Seq(Threads) /\ script.chains \in Seq(Chains)
      /\ i \in DOMAIN script.chains /\ chain \in Chains /\ script # NoScript
      /\ UNCHANGED <<config_db, procs, pidfile, gens, source, cache>>
      /\ 1 \in DOMAIN chain.nodes
  BY ThreadFacts DEF Deploy, Working, hostVars, DeployVars
<1>3. CASE Becomes(i, "dead")
  <2> DEFINE t == [script.thr[i] EXCEPT !.st = "dead"]
  <2>1. t \in Threads /\ t.st = "dead"
    BY <1>1 DEF Threads
  <2>2. script' = [script EXCEPT !.thr = [script.thr EXCEPT ![i] = t]]
    BY <1>1, <1>3 DEF Becomes, Scripts
  <2> HIDE DEF t
  <2>3. CacheAgrees'
    BY <1>1, <2>1, <2>2, CacheStaysAsItIs
  <2> QED
    BY <1>1, <2>1, <2>2, <2>3, CacheFacts, OnlyTheThread
<1>4. ASSUME NEW p \in Rpc(i),
             script' = [script EXCEPT !.thr[i].st = "done",
                !.chains[i].contract = [gen |-> p.gen, src |-> script.thr[i].info]]
      PROVE  IInv'
  <2> DEFINE contract == [gen |-> p.gen, src |-> script.thr[i].info]
             c == [chain EXCEPT !.contract = contract]
             t == [script.thr[i] EXCEPT !.st = "done"]
  <2>1. /\ p \in procs /\ p \in Processes /\ p.host = chain.nodes[1].host /\ p.up
        /\ p.tag \in NodeTags /\ p.rpc = chain.nodes[1].rpcport
    BY DEF Rpc, Answers, HostsInv
  <2>2. contract \in [gen : Nat, src : Nat]
    <3>1. script.thr[i].info \in Nat
      BY <1>1, CacheFacts DEF Threads
    <3> QED
      BY <2>1, <3>1 DEF Processes
  <2>3. contract.gen = p.gen /\ contract.src = script.thr[i].info
    OBVIOUS
  <2>4. script' = [script EXCEPT !.chains = [script.chains EXCEPT ![i] = c],
                                 !.thr = [script.thr EXCEPT ![i] = t]]
    <3>1. script' = [script EXCEPT !.thr[i].st = "done", !.chains[i].contract = contract]
      BY <1>4
    <3> HIDE DEF contract
    <3> QED
      BY <1>1, <3>1 DEF Scripts
  <2> HIDE DEF contract
  <2>5. /\ c \in Chains /\ c = [chain EXCEPT !.contract = c.contract]
        /\ c.gen = chain.gen /\ c.type = chain.type /\ c.contract = contract
    BY <1>1, <2>2 DEF Chains
  <2>6. t \in Threads /\ t.st = "done"
    BY <1>1 DEF Threads
  <2> HIDE DEF c, t
  <2>7. ASSUME fresh[2] = script.cfg, c.type = "eth-poa", fresh[1] \in {"started", "deployed"}
        PROVE  Contract(c)
    <3> DEFINE old == Load(script.cfg)[i]
    <3>1. old \in Chains /\ i \in DOMAIN Load(script.cfg)
      <4>1. Load(script.cfg) \in Configs /\ Len(Load(script.cfg)) = Len(script.chains)
        BY <1>1, ScriptFacts DEF ScriptFits, Load, RestTyped
      <4> QED
        BY <1>1, <4>1, ScriptFacts, ConfigChains
    <3>2. chain = [old EXCEPT !.contract = chain.contract]
      BY <1>1 DEF DeployFits
    <3>3. chain.nodes = old.nodes /\ chain.gen = old.gen /\ chain.type = old.type
      BY <3>1, <3>2 DEF Chains
    <3>4. Served(old, 1)
      BY <1>1, <2>5, <2>7, <3>1, <3>3 DEF DeploymentIsUsable
    <3>5. PICK q \in procs : /\ q.host = chain.nodes[1].host /\ q.up /\ q.tag \in NodeTags
                             /\ q.rpc = chain.nodes[1].rpcport /\ q.gen = chain.gen
      BY <3>3, <3>4 DEF Served, Answers
    <3>6. <<"tcp", p.rpc>> \in p.sockets /\ <<"tcp", p.rpc>> \in q.sockets
      BY <2>1, <3>5 DEF HostsInv, SocketsAreExclusive
    <3>7. p = q
      BY <2>1, <3>5, <3>6 DEF HostsInv, SocketsAreExclusive
    <3>8. interrupted # "deploy" => script.thr[i].info = source
      BY <1>1 DEF CacheAgrees
    <3> QED
      BY <2>3, <2>5, <3>5, <3>7, <3>8 DEF Contract
  <2>8. CacheAgrees'
    <3> SUFFICES ASSUME interrupted # "deploy" PROVE CacheAgrees'
      BY <1>1 DEF CacheAgrees
    <3>1. /\ script'.kind = "deploy" /\ DOMAIN script'.thr = DOMAIN script.thr
          /\ \A k \in DOMAIN script.thr : script'.thr[k] = IF k = i THEN t ELSE script.thr[k]
      BY <1>1, <2>4 DEF Scripts
    <3>2. \A k \in DOMAIN script.thr : \A st \in {"load", "result", "source", "content", "deploy"} :
            script'.thr[k].st = st => script.thr[k].st = st /\ script'.thr[k] = script.thr[k]
      BY <2>6, <3>1
    <3>3. NoneWriting' => NoneWriting
      BY <1>1, <2>6, <3>1 DEF NoneWriting, Writing, Working
    <3>4. cache.res = EmptyFile => \E k \in DOMAIN script.thr : script'.thr[k].st = "result"
      <4> SUFFICES ASSUME cache.res = EmptyFile
                   PROVE  \E k \in DOMAIN script.thr : script'.thr[k].st = "result"
        OBVIOUS
      <4>1. PICK k \in DOMAIN script.thr : script.thr[k].st = "result"
        BY DEF CacheAgrees, Working
      <4> QED
        BY <1>1, <3>1, <4>1
    <3>5. \A k \in DOMAIN script.thr :
           /\ script'.thr[k].st \in {"load", "source", "content"} =>
                cache.res \in {source, EmptyFile}
           /\ script'.thr[k].st \in {"result", "source", "content", "deploy"} =>
                script'.thr[k].info = source
      BY <3>2 DEF CacheAgrees
    <3>6. EmptyFile' = EmptyFile
      BY DEF EmptyFile
    <3> QED
      BY <1>1, <3>1, <3>3, <3>4, <3>5, <3>6 DEF CacheAgrees, Working
  <2>9. ThreadFits(c, t)
    BY <2>7 DEF ThreadFits
  <2> QED
    BY <1>1, <2>4, <2>5, <2>6, <2>8, <2>9, CacheFacts, ThreadGoesOn
<1> QED
  BY <1>3, <1>4 DEF Deploy


\* The contract of a chain has nothing to do with its nodes.
LEMMA ContractAlone ==
  ASSUME NEW c \in Chains, NEW d \in Chains, d = [c EXCEPT !.contract = d.contract]
  PROVE  /\ d.name = c.name /\ d.type = c.type /\ d.gen = c.gen /\ d.nodes = c.nodes
         /\ \A j : /\ Recorded(procs, c, j) => Recorded(procs, d, j)
                   /\ Signalled(procs, c, j) => Signalled(procs, d, j)
                   /\ Served(c, j) => Served(d, j)
<1>1. d.name = c.name /\ d.type = c.type /\ d.gen = c.gen /\ d.nodes = c.nodes
  BY DEF Chains
<1>2. \A j : NodeTag(c, j) = NodeTag(d, j)
  BY <1>1 DEF NodeTag
<1> QED
  BY <1>1, <1>2 DEF Recorded, Signalled, Served

\* The contracts of a chain are saved.
LEMMA SaveContractsStep ==
  ASSUME IInv, script.kind = "deploy", Deployed, script.i <= Len(script.chains),
         AddItem(script.cfg, script.i, Chain), script' = [script EXCEPT !.i = @ + 1],
         UNCHANGED <<procs, pidfile, gens, source, cache, fresh, interrupted>>
  PROVE  IInv'
<1> USE IInvParts
<1> DEFINE old == Load(script.cfg)
<1>1. script # NoScript /\ DOMAIN script.thr = DOMAIN script.chains
  BY DEF NoScript, ScriptFits
<1>2. /\ script \in Scripts /\ script.i \in Nat \ {0} /\ Len(script.chains) \in Nat
      /\ DOMAIN script.chains = 1 .. Len(script.chains) /\ script.i \in DOMAIN script.chains
      /\ script.cfg \in ConfigNames /\ Chain = script.chains[script.i]
      /\ \A k \in DOMAIN script.chains : script.chains[k] \in Chains
  BY <1>1, ScriptFacts DEF Chain
<1>3. PICK new \in Configs :
        /\ SaveConfig(script.cfg, new) /\ config_db'[script.cfg] = File(new)
        /\ config_db' \in
             [ConfigNames -> [st : {"absent", "truncated", "whole"}, chains : Configs]]
        /\ Len(new) = Len(script.chains) /\ DOMAIN new = DOMAIN script.chains
        /\ \A k \in DOMAIN script.chains :
             /\ new[k] = IF k = script.i THEN script.chains[script.i] ELSE old[k]
             /\ new[k].name = script.chains[k].name
  BY <1>1, <1>2, ChainIsSaved
<1>4. /\ old \in Configs /\ DOMAIN old = DOMAIN script.chains
      /\ \A k \in DOMAIN script.chains : old[k] \in Chains /\ new[k] \in Chains
  <2>1. old \in Configs
    BY <1>2 DEF RestTyped, Load
  <2> QED
    BY <1>1, <1>2, <1>3, <2>1, ConfigChains DEF ScriptFits
<1>5. \A k \in DOMAIN script.chains :
        /\ script.chains[k] = [old[k] EXCEPT !.contract = script.chains[k].contract]
        /\ k < script.i => script.chains[k] = old[k]
  BY DEF DeployFits
<1>6. \A n \in ConfigNames : n # script.cfg => config_db'[n] = config_db[n]
  BY <1>3 DEF SaveConfig, RestTyped
<1> HIDE DEF old
<1>7. \A k \in DOMAIN script.chains :
        /\ new[k] = [old[k] EXCEPT !.contract = new[k].contract]
        /\ script.chains[k] = [new[k] EXCEPT !.contract = script.chains[k].contract]
        /\ k < script.i + 1 => script.chains[k] = new[k]
  <2> TAKE k \in DOMAIN script.chains
  <2>1. /\ old[k] = [old[k] EXCEPT !.contract = old[k].contract]
        /\ script.chains[k] = [script.chains[k] EXCEPT !.contract = script.chains[k].contract]
    BY <1>2, <1>4 DEF Chains
  <2>2. CASE k = script.i
    BY <1>3, <1>5, <2>1, <2>2
  <2>3. CASE k # script.i
    <3>1. new[k] = old[k] /\ (k < script.i + 1 => k < script.i)
      BY <1>2, <1>3, <2>3
    <3> QED
      BY <1>5, <2>1, <3>1
  <2> QED
    BY <2>2, <2>3
<1>8. \A k \in DOMAIN script.chains :
        /\ new[k].type = old[k].type /\ new[k].gen = old[k].gen /\ new[k].nodes = old[k].nodes
        /\ \A j : /\ Recorded(procs, old[k], j) => Recorded(procs, new[k], j)
                  /\ Signalled(procs, old[k], j) => Signalled(procs, new[k], j)
                  /\ Served(old[k], j) => Served(new[k], j)
  BY <1>4, <1>7, ContractAlone
<1>9. /\ script' \in Scripts /\ script'.kind = "deploy" /\ script'.cfg = script.cfg
      /\ script'.chains = script.chains /\ script'.thr = script.thr
      /\ script'.i = script.i + 1 /\ script'.j = script.j
  <2> DEFINE n == script.i + 1
  <2>1. n \in Nat \ {0} /\ script' = [script EXCEPT !.i = n]
    BY <1>2
  <2> HIDE DEF n
  <2>2. \A i \in Nat \ {0} : [script EXCEPT !.i = i] \in Scripts
    BY <1>2 DEF Scripts
  <2>3. /\ script'.kind = script.kind /\ script'.i = n /\ script'.j = script.j
        /\ script'.chains = script.chains /\ script'.cfg = script.cfg
        /\ script'.thr = script.thr
    BY <1>2, <2>1 DEF Scripts
  <2> QED
    BY <2>1, <2>2, <2>3 DEF n
<1>10. config_db'[script.cfg].st = "whole" /\ config_db'[script.cfg].chains = new
  BY <1>3 DEF File
<1>11. HostsInv'
  BY HostsLoseProcesses DEF HostsInv
<1>12. RestTyped'
  BY <1>3, <1>9 DEF RestTyped
<1>13. ScriptFits'
  BY <1>1, <1>2, <1>3, <1>9, <1>10 DEF ScriptFits, CanLoad, Load, Chain
<1>14. GenesisIsNew' /\ StartIsAsFar'
  BY <1>9 DEF GenesisIsNew, StartIsAsFar, Starting
<1>15. fresh # Nothing => fresh[2] \in ConfigNames /\ fresh[1] \in {"started", "deployed"}
  BY DEF RestTyped, FreshIsKept
<1>16. StopIsAsFar'
  <2>1. fresh[1] \notin {"stopping", "stopped"}
    BY <1>15 DEF Nothing
  <2> QED
    BY <1>9, <2>1 DEF StopIsAsFar
<1>17. FreshIsKept'
  <2> SUFFICES ASSUME fresh # Nothing PROVE FreshIsKept'
    BY DEF FreshIsKept
  <2>1. CASE fresh[2] = script.cfg
    <3>1. Load(fresh[2])' = new /\ CanLoad(fresh[2])'
      BY <1>10, <2>1 DEF Load, CanLoad
    <3>2. \A i \in DOMAIN new :
            /\ new[i].type \in {"eth-poa", "eth-pow"}
            /\ \A j \in DOMAIN new[i].nodes : Recorded(procs, new[i], j)
      BY <1>3, <1>4, <1>8, <2>1 DEF FreshIsKept, old
    <3> QED
      BY <1>9, <1>15, <3>1, <3>2 DEF FreshIsKept
  <2>2. CASE fresh[2] # script.cfg
    <3>1. config_db'[fresh[2]] = config_db[fresh[2]]
      BY <1>6, <1>15, <2>2
    <3> QED
      BY <1>9, <1>15, <3>1 DEF FreshIsKept, Load, CanLoad
  <2> QED
    BY <2>1, <2>2
<1>18. DeployFits'
  <2>1. config_db'[script'.cfg].chains = new
    BY <1>9, <1>10
  <2>2. \A c : Contract(c) => Contract(c)'
    BY DEF Contract
  <2>3. Deployed'
    BY <1>9 DEF Deployed
  <2> HIDE DEF Contract
  <2>4. \A k \in DOMAIN script.chains :
          /\ script.chains[k] = [new[k] EXCEPT !.contract = script.chains[k].contract]
          /\ k < script'.i => script.chains[k] = new[k]
    BY <1>7, <1>9
  <2>5. fresh[2] = script.cfg =>
          \A k \in DOMAIN script.chains :
            /\ script.chains[k].type = "eth-poa"
            /\ (fresh[1] = "started" /\ script.thr[k].st = "done") \/ fresh[1] = "deployed"
            => \A c : c = script.chains[k] => Contract(c)'
    BY <2>2 DEF DeployFits
  <2> QED
    BY <1>9, <2>1, <2>3, <2>4, <2>5 DEF DeployFits, Load
<1>19. CacheAgrees'
  BY <1>9 DEF CacheAgrees, NoneWriting, Writing, Working, EmptyFile
<1>20. DeploymentIsUsable'
  <2>1. CASE fresh[2] # script.cfg
    <3>1. fresh # Nothing => config_db'[fresh[2]] = config_db[fresh[2]]
      BY <1>6, <1>15, <2>1
    <3> QED
      BY <3>1, SameDeployment
  <2>2. CASE fresh[2] = script.cfg /\ fresh[1] \in {"started", "deployed"}
    <3>1. Load(fresh[2])' = new
      BY <1>10, <2>2 DEF Load
    <3>2. \A c, j : Served(c, j)' <=> Served(c, j)
      BY DEF Served, Answers
    <3> HIDE DEF Served
    <3>3. ASSUME NEW k \in DOMAIN new, new[k].type = "eth-poa"
          PROVE  /\ \A j \in DOMAIN new[k].nodes : Served(new[k], j)
                 /\ fresh[1] = "deployed" => new[k].contract.gen = new[k].gen
                 /\ fresh[1] = "deployed" /\ interrupted # "deploy" =>
                      new[k].contract.src = source
      <4>1. \A j \in DOMAIN new[k].nodes : Served(new[k], j)
        BY <1>3, <1>4, <1>8, <2>2, <3>3 DEF DeploymentIsUsable, old
      <4>2. CASE k = script.i
        BY <1>2, <1>3, <2>2, <3>3, <4>1, <4>2 DEF DeployFits, Contract
      <4>3. CASE k # script.i
        BY <1>3, <1>4, <1>8, <2>2, <3>3, <4>1, <4>3 DEF DeploymentIsUsable, old
      <4> QED
        BY <4>2, <4>3
    <3> QED
      BY <3>1, <3>2, <3>3 DEF DeploymentIsUsable
  <2>3. CASE fresh[1] \notin {"started", "deployed"}
    BY <2>3 DEF DeploymentIsUsable
  <2> QED
    BY <2>1, <2>2, <2>3
<1> QED
  BY <1>11, <1>12, <1>13, <1>14, <1>16, <1>17, <1>18, <1>19, <1>20, IInvPartsNext


----------------------------------------------------------------------------
(* The steps of a script: it goes on, or fails. *)

\* A script that has not ended leaves what earlier ones have left.
LEMMA ScriptGoesOn ==
  ASSUME IInv, script # NoScript, Inside, script'.kind = script.kind
  PROVE  UNCHANGED <<fresh, interrupted>>
<1>1. script.kind # "none"
  BY ScriptFacts DEF Scripts
<1>2. script' # NoScript
  BY <1>1 DEF NoScript
<1> QED
  BY <1>2 DEF Inside

\* A script that fails in a step ends there.
LEMMA ScriptFails ==
  ASSUME IInv, script # NoScript, Inside, End, procs' \subseteq procs,
         UNCHANGED <<pidfile, gens, source, cache>>,
         script.kind = "deploy" => Deployed,
         UNCHANGED config_db \/ CrashInSave(script.cfg)
  PROVE  IInv'
<1>1. script' = NoScript /\ fresh' = Nothing /\ UNCHANGED interrupted
  BY DEF End, Inside
<1>2. Ends
  BY <1>1 DEF Ends, DeployVars
<1> QED
  BY <1>2, EndStep

\* A chain is skipped, taken or saved.
LEMMA ChainStep ==
  ASSUME IInv, script # NoScript, Inside, UNCHANGED DeployVars,
         SkipChain \/ TakeChain \/ SaveChain
  PROVE  IInv'
<1>1. script \in Scripts /\ UNCHANGED <<source, cache>>
  BY ScriptFacts DEF DeployVars
<1>2. CASE SkipChain
  <2>1. script'.kind = script.kind
    BY <1>1, <1>2 DEF SkipChain, Scripts
  <2> QED
    BY <1>1, <1>2, <2>1, ScriptGoesOn, SkipChainStep
<1>3. CASE TakeChain
  <2>1. script'.kind = script.kind
    BY <1>1, <1>3 DEF TakeChain, Goto, Scripts
  <2> QED
    BY <1>1, <1>3, <2>1, ScriptGoesOn, TakeChainStep
<1>4. CASE SaveChain
  <2>1. At("save") /\ UNCHANGED <<procs, pidfile, gens>>
    BY <1>4 DEF SaveChain, hostVars
  <2>2. CASE CrashInSave(script.cfg) /\ End
    <3>1. script.kind # "deploy"
      BY <2>1 DEF At
    <3> QED
      BY <1>1, <2>1, <2>2, <3>1, ScriptFails
  <2>3. CASE /\ AddItem(script.cfg, script.i, Chain)
             /\ script' = [script EXCEPT !.st = "chain", !.i = @ + 1, !.j = 1]
    <3>1. script'.kind = script.kind
      BY <1>1, <2>3 DEF Scripts
    <3> QED
      BY <1>1, <2>1, <2>3, <3>1, ScriptGoesOn, SaveChainStep
  <2> QED
    BY <1>4, <2>2, <2>3 DEF SaveChain
<1> QED
  BY <1>2, <1>3, <1>4

\* pre_start of the tools.
LEMMA PreStart ==
  ASSUME IInv, script # NoScript, Inside, UNCHANGED DeployVars,
         EthPoaPreStart \/ EthPowPreStart \/ EthHitPreStart \/ BuPreStart
  PROVE  IInv'
<1>1. /\ script \in Scripts /\ UNCHANGED <<source, cache>> /\ script.kind # "deploy"
      /\ At("prestart")
  BY ScriptFacts
     DEF DeployVars, At, Tool, EthPoaPreStart, EthPowPreStart, EthHitPreStart, BuPreStart
<1>2. CASE EthHitPreStart \/ BuPreStart
  <2>1. End /\ UNCHANGED <<config_db, procs, pidfile, gens>>
    BY <1>2 DEF EthHitPreStart, BuPreStart, hostVars
  <2> QED
    BY <1>1, <2>1, ScriptFails
<1>3. CASE RemotePreStart
  <2>1. UNCHANGED <<config_db, gens>>
    BY <1>3 DEF RemotePreStart
  <2>2. CASE StartChainPre(Chain.type, Chain.nodes[1].host, BootTag(Chain)) /\ Goto("accounts")
    <3>1. script'.kind = script.kind
      BY <1>1, <2>2 DEF Goto, Scripts
    <3> QED
      BY <1>1, <2>1, <2>2, <3>1, ScriptGoesOn, PreStartStep
  <2>3. CASE StartFails(Chain.nodes[1].host, BootTag(Chain)) /\ End
    <3>1. procs' \subseteq procs /\ UNCHANGED pidfile
      BY <2>3 DEF StartFails, KillLast
    <3> QED
      BY <1>1, <2>1, <2>3, <3>1, ScriptFails
  <2> QED
    BY <1>3, <2>2, <2>3 DEF RemotePreStart
<1> QED
  BY <1>2, <1>3 DEF EthPoaPreStart, EthPowPreStart

\* The accounts, and the geth of a node.
LEMMA NodeStep ==
  ASSUME IInv, script # NoScript, Inside, UNCHANGED DeployVars,
         EthPoaAccounts \/ EthPowAccounts \/ EthPoaStartNode \/ EthPowStartNode
  PROVE  IInv'
<1>1. script \in Scripts /\ UNCHANGED <<source, cache>>
  BY ScriptFacts DEF DeployVars
<1>2. CASE EthPoaAccounts
  <2>1. script'.kind = script.kind
    BY <1>1, <1>2 DEF EthPoaAccounts, Scripts
  <2> QED
    BY <1>1, <1>2, <2>1, ScriptGoesOn, EthPoaAccountsStep
<1>3. CASE EthPowAccounts
  <2>1. script'.kind = script.kind
    BY <1>1, <1>3 DEF EthPowAccounts, Scripts
  <2> QED
    BY <1>1, <1>3, <2>1, ScriptGoesOn, EthPowAccountsStep
<1>4. CASE EthPoaStartNode \/ EthPowStartNode
  <2>1. At("node") /\ script.kind # "deploy"
    BY <1>4 DEF EthPoaStartNode, EthPowStartNode, Tool, At
  <2>2. PICK keys :
          /\ keys \subseteq {SignerAccount(Chain.gen, script.j), GenesisAccount(Chain.gen)}
          /\ RemoteStart(keys)
    <3>1. CASE EthPoaStartNode
      BY <3>1 DEF EthPoaStartNode
    <3>2. CASE EthPowStartNode
      BY <3>2 DEF EthPowStartNode
    <3> QED
      BY <1>4, <3>1, <3>2
  <2>3. UNCHANGED <<config_db, gens>>
    BY <2>2 DEF RemoteStart
  <2>4. CASE StartFails(Node.host, NodeTag(Chain, script.j)) /\ End
    <3>1. procs' \subseteq procs /\ UNCHANGED pidfile
      BY <2>4 DEF StartFails, KillLast
    <3> QED
      BY <1>1, <2>1, <2>3, <2>4, <3>1, ScriptFails
  <2>5. CASE /\ StartChain(Chain.type, Node.host, NodeTag(Chain, script.j), Chain.gen, keys)
             /\ LET new == CHOOSE p \in procs' :
                             p.host = Node.host /\ p.pid = pidfile'[Node.host][NodeTag(Chain, script.j)]
                IN  script' = [script EXCEPT
                       !.chains[script.i].nodes[script.j].rpcport = new.rpc,
                       !.st = IF script.j = Len(Chain.nodes) THEN "check" ELSE "node",
                       !.j = IF script.j = Len(Chain.nodes) THEN 1 ELSE @ + 1]
    <3>1. script'.kind = script.kind
      <4>1. \A r, st, j :
              [script EXCEPT !.chains[script.i].nodes[script.j].rpcport = r,
                             !.st = st, !.j = j].kind = script.kind
        BY <1>1 DEF Scripts
      <4> QED
        BY <2>5, <4>1
    <3>2. UNCHANGED <<fresh, interrupted>>
      BY <3>1, ScriptGoesOn
    <3> QED
      BY <1>1, <2>1, <2>2, <2>3, <2>5, <3>2, StartNodeStep
  <2> QED
    BY <2>2, <2>4, <2>5 DEF RemoteStart
<1> QED
  BY <1>2, <1>3, <1>4

\* The nodes are looked at and told to mine.
LEMMA MinesStep ==
  ASSUME IInv, script # NoScript, Inside, UNCHANGED DeployVars,
         EthPoaCheck \/ EthPowCheck \/ EthPoaStartMining \/ EthPowStartMining
  PROVE  IInv'
<1>1. script \in Scripts /\ UNCHANGED <<source, cache>> /\ script.kind # "deploy"
  BY ScriptFacts
     DEF DeployVars, At, Tool, EthPoaCheck, EthPowCheck, EthPoaStartMining, EthPowStartMining
<1>2. CASE End /\ UNCHANGED <<config_db, hostVars, gens>>
  <2>1. UNCHANGED <<config_db, procs, pidfile, gens>>
    BY <1>2 DEF hostVars
  <2> QED
    BY <1>1, <1>2, <2>1, ScriptFails
<1>3. CASE At("check") /\ CheckConnected
  <2>1. script'.kind = script.kind
    BY <1>1, <1>3 DEF CheckConnected, Goto, Scripts
  <2> QED
    BY <1>1, <1>3, <2>1, ScriptGoesOn, CheckStep
<1>4. CASE /\ At("mine") /\ NodeMines
           /\ Chain.type = "eth-poa" =>
                \E p \in Answers(Node.host, Node.rpcport) :
                  SignerAccount(Node.signer, script.j) \in p.keys
  <2>1. script'.kind = script.kind
    BY <1>1, <1>4 DEF NodeMines, Goto, Scripts
  <2> QED
    BY <1>1, <1>4, <2>1, ScriptGoesOn, MiningStep
<1>5. CASE EthPoaCheck \/ EthPowCheck
  BY <1>2, <1>3, <1>5 DEF EthPoaCheck, EthPowCheck, Tool, NotConnected
<1>6. CASE EthPoaStartMining
  BY <1>2, <1>4, <1>6 DEF EthPoaStartMining, Tool, MiningFails
<1>7. CASE EthPowStartMining
  BY <1>2, <1>4, <1>7 DEF EthPowStartMining, Tool, MiningFails
<1> QED
  BY <1>5, <1>6, <1>7

\* Steps of the stop script keep the invariant.
LEMMA StopStepIsGood ==
  ASSUME IInv, script # NoScript, Inside, UNCHANGED DeployVars, StopStep
  PROVE  IInv'
<1>1. script \in Scripts /\ UNCHANGED <<source, cache>> /\ script.kind # "deploy"
  BY ScriptFacts DEF DeployVars, StopStep, StopNode, StopFails
<1>2. CASE StopNode
  <2>1. script'.kind = script.kind
    BY <1>1, <1>2 DEF StopNode, NodeIsDone, Scripts
  <2> QED
    BY <1>1, <1>2, <2>1, ScriptGoesOn, StopNodeStep
<1>3. CASE StopFails
  <2>1. End /\ UNCHANGED <<config_db, procs, pidfile, gens>>
    BY <1>3 DEF StopFails, hostVars
  <2> QED
    BY <1>1, <2>1, ScriptFails
<1> QED
  BY <1>2, <1>3 DEF StopStep

\* So do those of the accounts script.
LEMMA AccountsStepIsGood ==
  ASSUME IInv, script # NoScript, Inside, UNCHANGED DeployVars, AccountsStep
  PROVE  IInv'
<1>1. script \in Scripts /\ UNCHANGED <<source, cache>> /\ script.kind = "accounts"
  BY ScriptFacts DEF DeployVars, AccountsStep
<1>2. PICK i \in DOMAIN script.thr :
        EthPowDefaultAccount(i) \/ NoDefaultAccount(i) \/ SaveAccounts(i)
  BY DEF AccountsStep
<1>3. CASE EthPowDefaultAccount(i) \/ NoDefaultAccount(i)
  <2>1. script'.kind = script.kind
    BY <1>1, <1>3 DEF EthPowDefaultAccount, NoDefaultAccount, Scripts
  <2> QED
    BY <1>1, <1>3, <2>1, ScriptGoesOn, DefaultAccountStep
<1>4. CASE SaveAccounts(i)
  <2>1. UNCHANGED <<procs, pidfile, gens>>
    BY <1>4 DEF SaveAccounts, hostVars
  <2>2. CASE CrashInSave(script.cfg) /\ End
    BY <1>1, <2>1, <2>2, ScriptFails
  <2>3. CASE /\ AddItem(script.cfg, i, script.chains[i])
             /\ script' = [script EXCEPT !.thr[i].st = "saved"]
    <3>1. script'.kind = script.kind
      BY <1>1, <2>3 DEF Scripts
    <3> QED
      BY <1>1, <2>1, <2>3, <3>1, ScriptGoesOn, SaveAccountsStep
  <2> QED
    BY <1>4, <2>2, <2>3 DEF SaveAccounts
<1> QED
  BY <1>2, <1>3, <1>4

\* And those of a deploy.
LEMMA DeployStepIsGood ==
  ASSUME IInv, script # NoScript, Inside, DeployStep
  PROVE  IInv'
<1>1. script \in Scripts /\ script.kind = "deploy"
  BY ScriptFacts DEF DeployStep, SaveContracts
<1>2. CASE SaveContracts
  <2>1. /\ Deployed /\ script.i <= Len(script.chains)
        /\ UNCHANGED <<procs, pidfile, gens, source, cache>>
    BY <1>2 DEF SaveContracts, hostVars, DeployVars
  <2>2. CASE CrashInSave(script.cfg) /\ End
    BY <1>1, <2>1, <2>2, ScriptFails
  <2>3. CASE AddItem(script.cfg, script.i, Chain) /\ script' = [script EXCEPT !.i = @ + 1]
    <3>1. script'.kind = script.kind
      BY <1>1, <2>3 DEF Scripts
    <3> QED
      BY <1>1, <2>1, <2>3, <3>1, ScriptGoesOn, SaveContractsStep
  <2> QED
    BY <1>2, <2>2, <2>3 DEF SaveContracts
<1>3. ASSUME NEW i \in DOMAIN script.thr,
             \/ Lookup(i) \/ LoadCached(i) \/ Compile(i)
             \/ SaveResult(i) \/ OpenSource(i) \/ SaveSource(i) \/ Deploy(i)
      PROVE  IInv'
  <2>1. script'.kind = script.kind
    BY <1>1, <1>3
       DEF Lookup, LoadCached, Compile, SaveResult, OpenSource, SaveSource, Deploy, Becomes, Scripts
  <2>2. UNCHANGED <<fresh, interrupted>>
    BY <2>1, ScriptGoesOn
  <2> QED
    BY <1>1, <1>3, <2>2, LookupStep, LoadCachedStep, CompileStep, SaveResultStep,
       OpenSourceStep, SaveSourceStep, DeployStepOfThread
<1> QED
  BY <1>2, <1>3 DEF DeployStep


----------------------------------------------------------------------------
(* The invariant, and what it says. *)

\* What the operator does between scripts keeps the invariant.
LEMMA OperatorStepIsGood ==
  ASSUME IInv, Operator
  PROVE  IInv'
<1>1. CASE Initialize \/ EditConfig
  BY <1>1, EditConfigsStep DEF Initialize, EditConfig, Change, Work
<1>2. CASE EditSource
  BY <1>2, EditSourceStep
<1>3. ASSUME NEW n \in ConfigNames, Generate(n)
      PROVE  IInv'
  BY <1>3, GenerateStep
<1>4. ASSUME NEW n \in ConfigNames, NEW reset \in BOOLEAN,
             NEW kind \in {"start", "stop", "accounts", "deploy"}, RunScript(kind, n, reset)
      PROVE  IInv'
  <2>1. script = NoScript
    BY <1>4 DEF RunScript, Work, Change
  <2> QED
    BY <1>4, <2>1, RunScriptStep
<1>5. "parallel_chain" \in ConfigNames
  BY ConfigsAssumption
<1> QED
  BY <1>1, <1>2, <1>3, <1>4, <1>5
     DEF Operator, StartScript, StopScript, DeployScript, AccountsScript

\* Every step of a script keeps it.
LEMMA ScriptStepIsGood ==
  ASSUME IInv, ScriptStep
  PROVE  IInv'
<1>1. CASE Finish
  BY <1>1, FinishStep
<1>2. CASE script # NoScript /\ (StartStep \/ StopStep \/ AccountsStep) /\ UNCHANGED DeployVars /\ Inside
  BY <1>2, ChainStep, PreStart, NodeStep, MinesStep, StopStepIsGood, AccountsStepIsGood
     DEF StartStep
<1>3. CASE script # NoScript /\ DeployStep /\ Inside
  BY <1>3, DeployStepIsGood
<1> QED
  BY <1>1, <1>2, <1>3 DEF ScriptStep

\* An interrupt ends the script that runs.
LEMMA InterruptStep ==
  ASSUME IInv, Interrupt
  PROVE  IInv'
<1>1. Ends
  BY DEF Interrupt, Forget, Ends, End, hostVars
<1> QED
  BY <1>1, EndStep

\* A step that changes nothing keeps it.
LEMMA StutterStep ==
  ASSUME IInv, UNCHANGED vars
  PROVE  IInv'
<1>1. UNCHANGED <<config_db, procs, pidfile, script, gens, source, cache, fresh, unstopped,
                  interrupted>>
  BY DEF vars, hostVars, DeployVars
<1>2. HostsInv' /\ OnlyOld
  BY <1>1, IInvParts, HostsLoseProcesses DEF HostsInv
<1>3. UpStay
  BY <1>1 DEF UpStay, Like
<1> QED
  BY <1>1, <1>2, <1>3, ProcessesGoOn

\* What the pid files, the sockets, the keys, the configs, the copies that the scripts
\* work on, and the two files of the cache have to do with each other, in every state:
\* the inductive invariant, whatever the servers, ports, tags, configs and bounds.
THEOREM DeploymentInductive == Spec => []IInv
<1>1. Init => IInv
  BY InitIsGood
<1>2. IInv /\ [Next]_vars => IInv'
  BY OperatorStepIsGood, ScriptStepIsGood, InterruptStep, ProcessStepIsGood, StutterStep
     DEF Next
<1> QED
  BY <1>1, <1>2, PTL DEF Spec

\* Files, processes, pid files, scripts and the cache have the values that are meant.
THEOREM DeploymentTypeCorrect == Spec => []TypeOK
<1>1. IInv => TypeOK
  <2> SUFFICES ASSUME IInv PROVE TypeOK
    OBVIOUS
  <2>1. Typed /\ ScriptFits
    BY DEF IInv
  <2>2. \A n \in ConfigNames : config_db[n].st \in {"absent", "truncated", "whole"}
    BY <2>1 DEF Typed
  <2>3. \A p \in procs : /\ p.pid \in Pids /\ p.host \in HostNames /\ p.tag \in Tags
                         /\ {s[2] : s \in p.sockets} \subseteq Ports
    BY <2>1 DEF Typed, Processes
  <2>4. script # NoScript => script.cfg \in ConfigNames /\ script.i \in 1 .. Len(script.chains) + 1
    <3> SUFFICES ASSUME script # NoScript
                 PROVE  script.cfg \in ConfigNames /\ script.i \in 1 .. Len(script.chains) + 1
      OBVIOUS
    <3>1. /\ script.cfg \in ConfigNames /\ script.i \in Nat \ {0}
          /\ Len(script.chains) \in Nat
      BY ScriptFacts
    <3>2. script.i <= Len(script.chains) + 1
      BY <2>1 DEF ScriptFits
    <3> QED
      BY <3>1, <3>2
  <2>5. fresh[1] \in {"none", "started", "deployed", "stopping", "stopped"}
    BY <2>1 DEF Typed, Nothing
  <2> QED
    BY <2>1, <2>2, <2>3, <2>4, <2>5 DEF TypeOK, Typed
<1> QED
  BY <1>1, DeploymentInductive, PTL

\* Every bootnode and geth that runs, one left by a failed or an interrupted start
\* included, is found by the pid file of its tag, which no other process has.
THEOREM PidFiles == Spec => []PidFilesNameTheProcesses
<1>1. IInv => PidFilesNameTheProcesses
  BY DEF IInv
<1> QED
  BY <1>1, DeploymentInductive, PTL

\* After a start that has skipped nothing every node of every eth-poa chain mines with
\* its own signer at the port in the config; after a deploy that follows it and whose
\* threads have all come to their end, the contract is on that chain, and current.
THEOREM Usable == Spec => []DeploymentIsUsable
<1>1. IInv => DeploymentIsUsable
  BY DEF IInv
<1> QED
  BY <1>1, DeploymentInductive, PTL

\* A stop that follows it and comes to its end has told every geth of these chains on
\* their hosts to end, but for those of the nodes whose failure it has printed.
THEOREM Stopped == Spec => []StoppedIsStopped
<1>1. IInv => StoppedIsStopped
  <2> SUFFICES ASSUME IInv, fresh[1] = "stopped",
                      NEW i \in DOMAIN Load(fresh[2]), NEW j \in DOMAIN Load(fresh[2])[i].nodes,
                      <<i, j>> \notin unstopped,
                      NEW p \in procs, p.host = Load(fresh[2])[i].nodes[j].host,
                      p.tag = NodeTag(Load(fresh[2])[i], j)
               PROVE  p.ending
    BY DEF StoppedIsStopped
  <2> DEFINE c == Load(fresh[2])[i]
  <2>1. fresh # Nothing /\ fresh[2] \in ConfigNames
    BY DEF IInv, Typed, Nothing
  <2>2. /\ c.type \in {"eth-poa", "eth-pow"}
        /\ Recorded(procs, c, j) /\ Signalled(procs, c, j)
    BY <2>1 DEF IInv, FreshIsKept, StopIsAsFar
  <2>3. HasTags(c)
    <3>1. Load(fresh[2]) \in Configs
      BY <2>1 DEF IInv, Typed, Load
    <3> QED
      BY <3>1 DEF Configs
  <2>4. NodeTag(c, j) \in NodeTags
    BY <2>2, <2>3 DEF HasTags
  <2>5. p.rpc = c.nodes[j].rpcport
    BY <2>2 DEF Recorded
  <2> QED
    BY <2>2, <2>4, <2>5 DEF Signalled
<1> QED
  BY <1>1, DeploymentInductive, PTL

\* As long as no deploy is killed, what compile's cache holds for the current source
\* is its own result, or is about to become it.
THEOREM Cache == Spec => []CacheIsSound
<1>1. IInv => CacheIsSound
  <2> SUFFICES ASSUME IInv, interrupted # "deploy", cache.src = source
               PROVE  cache.res = source \/ (cache.res = EmptyFile /\ script.kind = "deploy")
    BY DEF CacheIsSound
  <2> QED
    BY DEF IInv, CacheAgrees
<1> QED
  BY <1>1, DeploymentInductive, PTL
============================================================================
