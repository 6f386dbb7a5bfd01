--------------------------- MODULE StatisticsInv ---------------------------
(***************************************************************************)
(* The inductive invariant of Statistics and the modules it extends.  TLC  *)
(* checks it on small evaluations, StatisticsProofs proves it for every    *)
(* number of parachains, messages, leftovers and exceptions.               *)
(***************************************************************************)
EXTENDS Statistics

Early == StartPhases \cup {"sending", "aborted"}
Late  == {"waiting", "finished", "statistics", "measured", "killed", "done", "failed"}

\* wait_finish's threads start with nothing read and no time running; statistical's
\* start with nothing read.
WaitsAreFresh ==
  phase \in Early =>
    \A d \in Para : counts[d] = 0 /\ at[d] = "query" /\ timer[d] = "off"

StatisticsAreFresh ==
  phase \in Early \cup {"waiting", "finished"} =>
    \A d \in Chain : query[d] = "count" /\ todo[d] = {}

\* A process that has not failed has reset its chain's count and replaced its file;
\* before main waits, all processes have ended.
SendersFit ==
  /\ phase \in Late => \A c \in Para : stage[c] = "done"
  /\ failures = 0 => \A c \in Para :
       /\ stage[c] # "start" => old[c] = 0
       /\ stage[c] = "done" => payloads[c] = "this"

\* A chain counts messages that it has received, and each of them once; no reset
\* makes a count smaller than what a thread has read of it.
CountsFit ==
  \A d \in Para :
    /\ recorded[d] \subseteq {m \in received : Dst(m) = d}
    /\ counts[d] <= CountOnDst(d)

\* Only a sum that has reached the target starts a thread's ten seconds, whatever the
\* moments at which its parts were read, and then every message is recorded.
Recorded == \A d \in Para : recorded[d] = {m \in Message : Dst(m) = d}

TimersFit ==
  /\ \A d \in Para : at[d] = "ended" => timer[d] = "over"
  /\ (\E d \in Para : timer[d] # "off") /\ (\A d \in Para : old[d] = 0) =>
       received = Message /\ Recorded
  /\ phase \in Late \ {"waiting"} => \A d \in Para : at[d] \in {"ended", "died"}

\* A thread of wait_finish or statistical dies of an exception only.
NoneDied ==
  failures = 0 => /\ \A d \in Para : at[d] # "died"
                  /\ \A d \in Chain : query[d] # "died"

\* What statistical has left to read in an evaluation without exception is of this
\* run, and a thread that has asked for the count leaves no message of its chain out.
ReadingFits ==
  phase = "statistics" /\ failures = 0 =>
    /\ \A d \in Chain : \A r \in todo[d] : r[2] = "this"
    /\ \A m \in Message :
         query[Dst(m)] = "records" => <<m, "this">> \in todo[Dst(m)] \/ latency[m] = "this"

IInv ==
  /\ StatTypeOK
  /\ WaitsAreFresh
  /\ StatisticsAreFresh
  /\ SendersFit
  /\ CountsFit
  /\ TimersFit
  /\ NoneDied
  /\ ReadingFits
  /\ LatenciesAreOfThisRun
=============================================================================
