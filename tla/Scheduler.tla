----------------------------- MODULE Scheduler -----------------------------
(***************************************************************************)
(* The evaluation that relayer/tor/scheduler.py, relayer/aor/scheduler.py  *)
(* and relayer/nor/scheduler.py run: once the gateways are started         *)
(* (GatewayStart), one process per parachain sends messages to the others, *)
(* then one thread per parachain polls how many its chain has received     *)
(* until their sum reaches the target.  What follows is in Statistics.     *)
(*                                                                         *)
(* Between the chains, messages travel as CrossChain promises.  Here a     *)
(* message <<c, i>> is the i-th, from 0, that the process of c sends, and  *)
(* all gateways walk before the first is sent (run tor_late_gateways shows *)
(* what happens otherwise).  A transaction's effect is taken at the moment *)
(* its block is sealed, when the effect can be read.                       *)
(***************************************************************************)
EXTENDS GatewayStart

CONSTANTS
  EachNum,  \* messages each parachain's process sends
  MaxOld    \* bound: messages an earlier evaluation has left counted, on all chains

ASSUME NumAssumption == EachNum \in Nat \ {0} /\ MaxOld \in Nat

\* Variant: the relay chain is counted among the senders.
TargetWithRelay == (N + 1) * EachNum

\* Variant: a parachain is left out.
TargetOfOthers == (N - 1) * EachNum

\* len(chain_configs) counts the relay chain.
Target == N * EachNum

Message == Para \X (0 .. EachNum - 1)

\* Destination of a message: the other parachains in turn.
Dst(m) ==
  LET c == m[1]
      k == m[2] % (N - 1)
  IN  IF k + 1 < c THEN k + 1 ELSE k + 2

VARIABLES
  stage,      \* stage[c]: where the sending process of chain c is
  sentNum,    \* sentNum[c]: messages the process has handed to its node
  executed,   \* executed[c]: how many of them are on the chain
  received,   \* the messages that are on their destination
  recorded,   \* recorded[d]: those that the contract of d counts
  old,        \* old[d]: how many of an earlier evaluation it counts
  payloads,   \* payloads[c]: the file of the payloads that c has sent
  counts,     \* the list wait_finish's threads share
  at,         \* at[d]: what the thread of d does next
  timer       \* timer[d]: its ten more seconds

chainVars  == <<executed, received, recorded, old>>
senderVars == <<stage, sentNum, payloads>>
pollVars   == <<counts, at, timer>>
evalVars   == <<chainVars, senderVars, pollVars>>
vars       == <<evalVars, phase, startVars>>

\* Phases of this module, and the one in which main goes on after wait_finish.
EvalPhases == StartPhases \cup {"sending", "waiting", "finished", "aborted"}

EvalTypeOK ==
  /\ stage    \in [Para -> {"start", "reset", "send", "receipts", "done"}]
  /\ sentNum  \in [Para -> 0 .. EachNum]
  /\ executed \in [Para -> 0 .. EachNum]
  /\ received \subseteq Message
  /\ recorded \in [Para -> SUBSET Message]
  /\ old      \in [Para -> 0 .. MaxOld]
  /\ payloads \in [Para -> {"none", "earlier", "this"}]
  /\ counts   \in [Para -> Nat]
  /\ at       \in [Para -> {"query", "compare", "ended", "died"}]
  /\ timer    \in [Para -> {"off", "running", "over"}]
  /\ StartTypeOK

TypeOK == EvalTypeOK /\ phase \in EvalPhases

\* An earlier evaluation may have left counts and the files of its payloads.
Init ==
  /\ StartInit
  /\ stage    = [c \in Para |-> "start"]
  /\ sentNum  = [c \in Para |-> 0]
  /\ executed = [c \in Para |-> 0]
  /\ received = {}
  /\ recorded = [d \in Para |-> {}]
  /\ old      \in [Para -> 0 .. MaxOld]
  /\ MapThenSumSet(LAMBDA d : old[d], Para) <= MaxOld
  /\ payloads = [c \in Para |-> IF \A d \in Para : old[d] = 0 THEN "none" ELSE "earlier"]
  /\ counts   = [d \in Para |-> 0]
  /\ at       = [d \in Para |-> "query"]
  /\ timer    = [d \in Para |-> "off"]

----------------------------------------------------------------------------
(* The chains. *)

CountOnDst(d) == old[d] + Cardinality(recorded[d])

\* The next transaction of the process of c is on the chain.
ExecuteSend(c) ==
  /\ executed[c] < sentNum[c]
  /\ executed' = [executed EXCEPT ![c] = @ + 1]
  /\ UNCHANGED <<received, recorded, old, senderVars, pollVars, phase, startVars>>

\* The gateways that bring a message from c to d.
Way(c, d) ==
  [tor |-> {<<c, Relay>>, <<Relay, d>>, <<c, d>>},
   aor |-> {<<c, Relay>>, <<Relay, d>>},
   nor |-> {<<c, d>>}][protocol]

\* The gateways run until the scheduler kills them.  A delivery needs a header in a
\* block of d, sealed after the transfers were sent there.
Deliver(m) ==
  /\ m[2] < executed[m[1]] /\ m \notin received
  /\ Way(m[1], Dst(m)) \subseteq running
  /\ received' = received \cup {m}
  /\ recorded' = [recorded EXCEPT ![Dst(m)] = @ \cup {m}]
  /\ UNCHANGED <<executed, old, senderVars, pollVars, phase, startVars>>

\* A gateway ends with an exception.  Nobody notices.
GatewayRaises(g) ==
  /\ g \in running /\ Raises
  /\ running' = running \ {g}
  /\ UNCHANGED <<evalVars, protocol, phase, transfer, keys, thread>>

----------------------------------------------------------------------------
(* send_cm_to_each_chain, one process per parachain. *)

\* Variant: the count is left as it is.
ResetNothing(c) ==
  /\ phase = "sending" /\ stage[c] = "start"
  /\ stage' = [stage EXCEPT ![c] = "reset"]
  /\ SealTransfers(c)
  /\ UNCHANGED <<chainVars, sentNum, payloads, pollVars>>
  /\ UNCHANGED <<protocol, phase, keys, running, thread, failures>>

\* The process sends resetCountOnDst, and it executes, after the transfers that the
\* same account has sent before.
Reset(c) ==
  /\ phase = "sending" /\ stage[c] = "start"
  /\ recorded' = [recorded EXCEPT ![c] = {}]
  /\ old'      = [old EXCEPT ![c] = 0]
  /\ stage'    = [stage EXCEPT ![c] = "reset"]
  /\ SealTransfers(c)
  /\ UNCHANGED <<executed, received, sentNum, payloads, pollVars>>
  /\ UNCHANGED <<protocol, phase, keys, running, thread, failures>>

ResetReceipt(c) ==
  /\ stage[c] = "reset"
  /\ stage' = [stage EXCEPT ![c] = "send"]
  /\ UNCHANGED <<chainVars, sentNum, payloads, pollVars, phase, startVars>>

\* Variant: one message too many.
SendOneMore(c) ==
  /\ stage[c] = "send"
  /\ sentNum[c] <= EachNum
  /\ sentNum' = [sentNum EXCEPT ![c] = @ + 1]
  /\ UNCHANGED <<chainVars, stage, payloads, pollVars, phase, startVars>>

\* Sends wait for nothing.
Send(c) ==
  /\ stage[c] = "send"
  /\ sentNum[c] < EachNum
  /\ sentNum' = [sentNum EXCEPT ![c] = @ + 1]
  /\ UNCHANGED <<chainVars, stage, payloads, pollVars, phase, startVars>>

SendEnd(c) ==
  /\ stage[c] = "send"
  /\ sentNum[c] = EachNum
  /\ stage' = [stage EXCEPT ![c] = "receipts"]
  /\ UNCHANGED <<chainVars, sentNum, payloads, pollVars, phase, startVars>>

\* All receipts have come.
Receipts(c) ==
  /\ stage[c] = "receipts" /\ executed[c] = EachNum
  /\ stage'    = [stage EXCEPT ![c] = "done"]
  /\ payloads' = [payloads EXCEPT ![c] = "this"]
  /\ UNCHANGED <<chainVars, sentNum, pollVars, phase, startVars>>

\* The node does not answer, or a receipt is too late: the exception ends the
\* process, and what it has sent executes nevertheless.
SenderRaises(c) ==
  /\ phase = "sending" /\ stage[c] # "done" /\ Raises
  /\ stage' = [stage EXCEPT ![c] = "done"]
  /\ UNCHANGED <<chainVars, sentNum, payloads, pollVars>>
  /\ UNCHANGED <<protocol, phase, transfer, keys, running, thread>>

Sender(c) == Reset(c) \/ ResetReceipt(c) \/ Send(c) \/ SendEnd(c) \/ Receipts(c)

TorSends == protocol = "tor" /\ \E c \in Para : Sender(c) \/ SenderRaises(c)
AorSends == protocol = "aor" /\ \E c \in Para : Sender(c) \/ SenderRaises(c)
NorSends == protocol = "nor" /\ \E c \in Para : Sender(c) \/ SenderRaises(c)

----------------------------------------------------------------------------
(* wait_finish *)

\* send_cm_local joins its processes; wait_finish starts its threads.
Join ==
  /\ phase = "sending"
  /\ \A c \in Para : stage[c] = "done"
  /\ phase' = "waiting"
  /\ UNCHANGED <<evalVars, startVars>>

\* The thread of d asks for the count of its chain.
Query(d) ==
  /\ phase = "waiting" /\ at[d] = "query"
  /\ counts' = [counts EXCEPT ![d] = CountOnDst(d)]
  /\ at'     = [at EXCEPT ![d] = "compare"]
  /\ UNCHANGED <<chainVars, senderVars, phase, timer, startVars>>

\* The call raises.  The others go on with the count the thread has read last.
QueryRaises(d) ==
  /\ phase = "waiting" /\ at[d] = "query" /\ Raises
  /\ at' = [at EXCEPT ![d] = "died"]
  /\ UNCHANGED <<chainVars, senderVars, phase, counts, timer>>
  /\ UNCHANGED <<protocol, transfer, keys, running, thread>>

AllCount == MapThenSumSet(LAMBDA d : counts[d], Para)

\* It compares the sum of all counts, as the threads have last read them, with
\* the target, and goes on for ten seconds more.
Compare(d) ==
  /\ phase = "waiting" /\ at[d] = "compare"
  /\ \/ /\ AllCount < Target
        /\ at' = [at EXCEPT ![d] = "query"] /\ timer' = timer
     \/ /\ AllCount >= Target
        /\ at' = [at EXCEPT ![d] = IF timer[d] = "over" THEN "ended" ELSE "query"]
        /\ timer' = [timer EXCEPT ![d] = IF @ = "off" THEN "running" ELSE @]
  /\ UNCHANGED <<chainVars, senderVars, phase, counts, startVars>>

TenSeconds(d) ==
  /\ timer[d] = "running"
  /\ timer' = [timer EXCEPT ![d] = "over"]
  /\ UNCHANGED <<chainVars, senderVars, phase, counts, at, startVars>>

\* The threads are joined.
Finish ==
  /\ phase = "waiting"
  /\ \A d \in Para : at[d] \in {"ended", "died"}
  /\ phase' = "finished"
  /\ UNCHANGED <<evalVars, startVars>>

Waits == Finish \/ \E d \in Para : Query(d) \/ QueryRaises(d) \/ Compare(d) \/ TenSeconds(d)

TorWaits == protocol = "tor" /\ Waits
AorWaits == protocol = "aor" /\ Waits
NorWaits == protocol = "nor" /\ Waits

----------------------------------------------------------------------------
Evaluation ==
  \/ (TorStarts \/ AorToRelay \/ AorFromRelay \/ NorPairs \/ StartRaises) /\ UNCHANGED evalVars
  \/ TorSends \/ AorSends \/ NorSends \/ Join
  \/ TorWaits \/ AorWaits \/ NorWaits

Environment ==
  \/ \E d \in Para \cup {Relay} : Seal(d) /\ UNCHANGED evalVars
  \/ \E c \in Para : ExecuteSend(c)
  \/ \E m \in Message : Deliver(m)
  \/ \E g \in running : GatewayRaises(g)

Next == Evaluation \/ Environment

Spec == Init /\ [][Next]_vars

\* Processes, threads and time go on; the chains execute what they are sent; the
\* gateways deliver (run tor_delivery).
Fairness ==
  /\ \A c \in Para : WF_vars(ExecuteSend(c)) /\ WF_vars(Sender(c))
  /\ \A m \in Message : WF_vars(Deliver(m))
  /\ \A d \in Para : WF_vars(Query(d) \/ Compare(d)) /\ WF_vars(TenSeconds(d))
  /\ WF_vars(Join) /\ WF_vars(Finish)
  /\ WF_vars(MainStarts /\ UNCHANGED evalVars)
  /\ \A d \in Para : WF_vars(ThreadStarts(d) /\ UNCHANGED evalVars)
  /\ \A d \in Para \cup {Relay} : WF_vars(Seal(d) /\ UNCHANGED evalVars)

FairSpec == Spec /\ Fairness

----------------------------------------------------------------------------
(* Properties. *)

\* wait_finish returns only when every message has been received, unless each of its
\* threads has died, or a process before it could reset what its chain has counted
\* for an earlier evaluation: the threads add up counts they read at different
\* moments, and one that dies leaves its own behind.
FinishedMeansReceived ==
  phase = "finished" =>
    \/ received = Message
    \/ \A d \in Para : at[d] = "died"
    \/ \E d \in Para : old[d] # 0

\* From the moment all senders have ended, a chain's count is the number of
\* messages of this evaluation that it has received (relayer/tor/scheduler.py, line
\* 241: "init count on parachains for wait_finish()").
CountsAreOfThisRun ==
  phase \in {"waiting", "finished"} =>
    \A d \in Para : CountOnDst(d) = Cardinality({m \in received : Dst(m) = d})

\* Main gets past wait_finish, or is given up before it sends anything, unless an
\* exception has ended a process, a thread or a gateway that is needed, or a reset
\* has removed messages of this very evaluation from a chain's count.
Wiped == \E m \in received : m \notin recorded[Dst(m)] /\ stage[Dst(m)] # "start"

EndsUnlessWiped == <>(phase \in {"finished", "aborted"} \/ Wiped \/ failures > 0)
============================================================================
