----------------------------- MODULE Statistics -----------------------------
(***************************************************************************)
(* The end of an evaluation.  AoR's main calls statistical: from the files *)
(* of the sending processes and the records of the contracts, read by one  *)
(* thread per chain, it makes the latency of every message.  Every main    *)
(* then kills the gateways and calls statistical_info, which averages what *)
(* the gateways' collectors have written on their transactions.            *)
(*                                                                         *)
(* Of a latency the model keeps whether the record that ends it is of this *)
(* evaluation or of an earlier one, whose messages have the same keys.     *)
(***************************************************************************)
EXTENDS Scheduler

Chain == Para \cup {Relay}

VARIABLES
  query,    \* query[d]: what the thread of chain d in statistical does next
  todo,     \* todo[d]: the records it has not read yet
  latency,  \* payloads_latency
  info,     \* info[g]: the file of the collector of gateway g
  unread    \* the files statistical_info has not read yet

statVars == <<query, todo, latency, info, unread>>
allVars  == <<vars, statVars>>

Times == {"none", "earlier", "this"}

\* The gateways whose files statistical_info reads, by the transactions that only they
\* report.
TorFiles == {ToRelay, Pairs}
AorFiles == {ToRelay}
NorFiles == {Pairs}

Files == [tor |-> TorFiles, aor |-> AorFiles, nor |-> NorFiles][protocol]

Leftover == IF \A d \in Para : old[d] = 0 THEN "none" ELSE "earlier"

StatTypeOK ==
  /\ EvalTypeOK
  /\ phase \in EvalPhases \cup {"statistics", "measured", "killed", "done", "failed"}
  /\ query   \in [Chain -> {"count", "records", "died"}]
  /\ todo    \in [Chain -> SUBSET (Message \X {"earlier", "this"})]
  /\ latency \in [Message -> Times]
  /\ info    \in [UNION Files -> {"none", "earlier", "torn", "this"}]
  /\ unread  \subseteq DOMAIN info

StatInit ==
  /\ Init
  /\ query   = [d \in Chain |-> "count"]
  /\ todo    = [d \in Chain |-> {}]
  /\ latency = [m \in Message |-> "none"]
  /\ info    = [g \in UNION Files |-> Leftover]
  /\ unread  = DOMAIN info

----------------------------------------------------------------------------
(* statistical: only AoR's main calls it. *)

\* Main reads the payloads.  A missing file ends it, and the gateways go on.
ReadPayloads ==
  /\ phase = "finished" /\ protocol = "aor"
  /\ phase' = IF \A c \in Para : payloads[c] # "none" THEN "statistics" ELSE "failed"
  /\ UNCHANGED <<evalVars, startVars, statVars>>

\* The contract of a parachain records the messages it receives under its count.  The
\* relay chain receives with a function that counts nothing: its thread reads nothing.
RecordsOf(d) == IF d = Relay THEN {} ELSE recorded[d]

\* The records an earlier evaluation, as large as this one, may have left on d.
Earlier(d) ==
  IF d = Relay THEN {{}}
  ELSE {M \in SUBSET {m \in Message : Dst(m) = d} : Cardinality(M) = old[d]}

\* The thread of d asks for the count, and reads as many records.
QueryCount(d) ==
  /\ phase = "statistics" /\ query[d] = "count"
  /\ \E E \in Earlier(d) :
       todo' = [todo EXCEPT ![d] = (E \X {"earlier"}) \cup (RecordsOf(d) \X {"this"})]
  /\ query' = [query EXCEPT ![d] = "records"]
  /\ UNCHANGED <<evalVars, phase, startVars, latency, info, unread>>

\* It reads a record; those of an earlier evaluation come first, and a later record
\* of the same key takes the place of an earlier one.
QueryRecord(d) ==
  /\ phase = "statistics" /\ query[d] = "records"
  /\ \E r \in todo[d] :
       /\ r[2] = "this" => \A q \in todo[d] : q[2] = "this"
       /\ latency' = [latency EXCEPT ![r[1]] = r[2]]
       /\ todo'    = [todo EXCEPT ![d] = @ \ {r}]
  /\ UNCHANGED <<evalVars, phase, startVars, query, info, unread>>

StatThreadRaises(d) ==
  /\ phase = "statistics" /\ Raises
  /\ query[d] = "count" \/ todo[d] # {}
  /\ query' = [query EXCEPT ![d] = "died"]
  /\ UNCHANGED <<evalVars, protocol, phase, transfer, keys, running, thread>>
  /\ UNCHANGED <<todo, latency, info, unread>>

\* The threads are joined.  The average of no latency raises, and main ends.
Measure ==
  /\ phase = "statistics"
  /\ \A d \in Chain : query[d] = "died" \/ (query[d] = "records" /\ todo[d] = {})
  /\ phase' = IF \A m \in Message : latency[m] = "none" THEN "failed" ELSE "measured"
  /\ UNCHANGED <<evalVars, startVars, statVars>>

----------------------------------------------------------------------------
(* pkill and statistical_info *)

\* Each collector has come to some place in its loop.  One that runs has written its
\* file: the gateways have run for ten seconds more.  The dictionaries of
\* statistical are no more.
Kill ==
  /\ phase' = "killed"
  /\ info' \in [DOMAIN info -> {Leftover, "torn", "this"}]
  /\ \A g \in running \cap DOMAIN info : info'[g] \in {"torn", "this"}
  /\ latency' = [m \in Message |-> "none"]
  /\ query'   = [d \in Chain |-> "count"]
  /\ todo'    = [d \in Chain |-> {}]
  /\ UNCHANGED <<evalVars, startVars, unread>>

TorKill == protocol = "tor" /\ phase = "finished" /\ Kill
AorKill == protocol = "aor" /\ phase = "measured" /\ Kill
NorKill == protocol = "nor" /\ phase = "finished" /\ Kill

\* A collector opens its file, which empties it, and writes all it has.
CollectorWrites(g) ==
  /\ phase = "killed" /\ g \in running \cap DOMAIN info
  /\ info' = [info EXCEPT ![g] = IF @ = "torn" THEN "this" ELSE "torn"]
  /\ UNCHANGED <<evalVars, phase, startVars, query, todo, latency, unread>>

\* The signal ends the processes of a gateway, wherever they are; pkill waits for none.
Dies(g) ==
  /\ phase = "killed"
  /\ running' = running \ {g}
  /\ UNCHANGED <<evalVars, protocol, phase, transfer, keys, thread, failures, statVars>>

\* Those of the gateways to the relay chain are last.
Before(g, h) ==
  \/ g[2] # Relay /\ h[2] = Relay
  \/ (g[2] = Relay <=> h[2] = Relay) /\ (g[1] < h[1] \/ (g[1] = h[1] /\ g[2] < h[2]))

\* The files in order.  A missing one is left out, a torn one ends main.
ReadInfo ==
  /\ phase = "killed"
  /\ \E g \in unread :
       /\ \A h \in unread \ {g} : Before(g, h)
       /\ unread' = unread \ {g}
       /\ phase'  = IF info[g] = "torn" THEN "failed" ELSE "killed"
  /\ UNCHANGED <<evalVars, startVars, query, todo, latency, info>>

\* A kind of transaction that no file reports has no average, and main ends.
Average ==
  /\ phase = "killed" /\ unread = {}
  /\ phase' = IF \A G \in Files : \E g \in G : info[g] # "none"
                THEN "done" ELSE "failed"
  /\ UNCHANGED <<evalVars, startVars, statVars>>

----------------------------------------------------------------------------
StatNext ==
  \/ Next /\ UNCHANGED statVars
  \/ ReadPayloads \/ Measure \/ TorKill \/ AorKill \/ NorKill \/ ReadInfo \/ Average
  \/ \E d \in Chain : QueryCount(d) \/ QueryRecord(d) \/ StatThreadRaises(d)
  \/ \E g \in running : CollectorWrites(g) \/ Dies(g)

StatFairness ==
  /\ \A c \in Para :
       /\ WF_allVars(ExecuteSend(c) /\ UNCHANGED statVars)
       /\ WF_allVars(Sender(c) /\ UNCHANGED statVars)
  /\ \A m \in Message : WF_allVars(Deliver(m) /\ UNCHANGED statVars)
  /\ WF_allVars((Join \/ Finish) /\ UNCHANGED statVars)
  /\ WF_allVars(MainStarts /\ UNCHANGED <<evalVars, statVars>>)
  /\ \A d \in Para :
       /\ WF_allVars((Query(d) \/ Compare(d)) /\ UNCHANGED statVars)
       /\ WF_allVars(TenSeconds(d) /\ UNCHANGED statVars)
       /\ WF_allVars(ThreadStarts(d) /\ UNCHANGED <<evalVars, statVars>>)
  /\ \A d \in Chain :
       /\ WF_allVars(Seal(d) /\ UNCHANGED <<evalVars, statVars>>)
       /\ WF_allVars(QueryCount(d) \/ QueryRecord(d))
  /\ WF_allVars(ReadPayloads \/ Measure)
  /\ WF_allVars(TorKill \/ AorKill \/ NorKill \/ ReadInfo \/ Average)

StatSpec == StatInit /\ [][StatNext]_allVars /\ StatFairness

----------------------------------------------------------------------------
(* Properties. *)

\* When nothing has failed, statistical has a latency for every message, and both of
\* its times are of this evaluation.  Keys do not tell evaluations apart: it takes
\* that every process has replaced its file and reset its chain's count, and that
\* no message arrived before that reset, or wait_finish would not have returned.
LatenciesAreOfThisRun ==
  phase = "measured" /\ failures = 0 =>
    \A m \in Message : payloads[m[1]] = "this" /\ latency[m] = "this"

\* Main comes to its end, by itself or with an exception, unless an exception has ended
\* a process, a thread or a gateway, or a reset has removed messages of this very
\* evaluation from a chain's count.
MainEnds ==
  <>(phase \in {"done", "failed", "aborted"} \/ Wiped \/ failures > 0)
=============================================================================
