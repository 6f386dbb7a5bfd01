---------------------------- MODULE ConfigServer ----------------------------
(***************************************************************************)
(* deploy_nodes/config_server: one JSON file per config, changed by        *)
(* loading, changing and saving it.  The server is one process             *)
(* (--start_num 1), whose handlers run one after the other; it may crash   *)
(* between the opening of a file for writing, which empties it, and the    *)
(* writing.  A config of blockchains is the list of its chains; the        *)
(* scripts' key chains are [] and [index].                                 *)
(***************************************************************************)
EXTENDS Naturals, Sequences, SequencesExt

CONSTANT ConfigNames

VARIABLE config_db  \* config_db[n]: the file of config n

Absent    == [st |-> "absent", chains |-> <<>>]
Truncated == [st |-> "truncated", chains |-> <<>>]
File(chains) == [st |-> "whole", chains |-> chains]

HasConfig(n) == config_db[n].st # "absent"

\* An empty file is no JSON: every operation that loads it fails.
CanLoad(n) == config_db[n].st = "whole"

Load(n) == config_db[n].chains

SaveConfig(n, chains) == config_db' = [config_db EXCEPT ![n] = File(chains)]

\* The server dies in the middle of a save of n.
CrashInSave(n) == config_db' = [config_db EXCEPT ![n] = Truncated]

\* dict.update: the fields of value replace those of the chain.
Updated(chain, value) ==
  [f \in DOMAIN chain \cup DOMAIN value |->
     IF f \in DOMAIN value THEN value[f] ELSE chain[f]]

Create(n, chains) == ~HasConfig(n) /\ SaveConfig(n, chains)

AddItem(n, i, value) ==
  /\ CanLoad(n) /\ i \in 1 .. Len(Load(n))
  /\ SaveConfig(n, [Load(n) EXCEPT ![i] = Updated(@, value)])

UpdateItem(n, i, value) ==
  /\ CanLoad(n) /\ i \in 1 .. Len(Load(n))
  /\ SaveConfig(n, [Load(n) EXCEPT ![i] = value])

AppendItem(n, value) == CanLoad(n) /\ SaveConfig(n, Append(Load(n), value))

RemoveItem(n, i) ==
  /\ CanLoad(n) /\ i \in 1 .. Len(Load(n))
  /\ SaveConfig(n, RemoveAt(Load(n), i))
=============================================================================
