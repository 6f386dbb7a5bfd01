---------------------------- MODULE GatewayStart ----------------------------
(***************************************************************************)
(* How the schedulers of relayer/tor, relayer/aor and relayer/nor start    *)
(* the gateways: for every gateway a scheduler makes two accounts, sends   *)
(* them money on the gateway's destination, and launches the gateway with  *)
(* their keys.  ToR starts the gateways to the relay chain, then, with one *)
(* thread per parachain, those from it, then those between parachains; AoR *)
(* has the first two kinds, NoR the last.  A gateway <<s, d>> goes from    *)
(* chain s to chain d.                                                     *)
(***************************************************************************)
EXTENDS Naturals, Sequences, FiniteSets, FiniteSetsExt

CONSTANTS
  N,            \* number of parachains
  MaxFailures   \* bound: calls to a node that raise while gateways start

\* With a single parachain there is no destination: i % dst_chain_num fails.
ASSUME SeveralParachains == N \in Nat /\ N >= 2
ASSUME FailuresAssumption == MaxFailures \in Nat

Relay == 0
Para  == 1 .. N

ToRelay   == Para \X {Relay}
FromRelay == {Relay} \X Para
Pairs     == {g \in Para \X Para : g[1] # g[2]}

\* Accounts are made for <<d, d>> too, which is no gateway.
Funded == ToRelay \cup FromRelay \cup Para \X Para

\* The functions main calls, until it sends.
Starts == [tor |-> <<"to_relay", "from_relay", "pairs", "sending">>,
           aor |-> <<"to_relay", "from_relay", "sending">>,
           nor |-> <<"pairs", "sending">>]

VARIABLES
  protocol,  \* whose scheduler runs
  phase,     \* where main is
  transfer,  \* transfer[g]: the two transfers for g
  keys,      \* those whose keys main has
  running,   \* the gateways that run
  thread,    \* thread[d]: the thread of create for d
  failures   \* number of calls that have raised

startVars == <<protocol, transfer, keys, running, thread, failures>>

StartPhases == {"to_relay", "from_relay", "pairs"}

\* What main does after a function.
After(p) ==
  LET calls == Starts[protocol]
  IN  calls[1 + CHOOSE i \in DOMAIN calls : calls[i] = p]

StartInit ==
  /\ protocol \in DOMAIN Starts
  /\ phase    = Head(Starts[protocol])
  /\ transfer = [g \in Funded |-> "none"]
  /\ keys     = {}
  /\ running  = {}
  /\ thread   = [d \in Para |-> IF phase = "pairs" THEN "running" ELSE "ended"]
  /\ failures = 0

StartTypeOK ==
  /\ protocol \in DOMAIN Starts
  /\ transfer \in [Funded -> {"none", "sent", "sealed"}]
  /\ keys \subseteq Funded /\ running \subseteq Funded
  /\ thread \in [Para -> {"running", "ended"}]
  /\ failures \in 0 .. MaxFailures

SealTransfers(d) ==
  transfer' = [g \in Funded |-> IF g[2] = d /\ transfer[g] = "sent" THEN "sealed"
                                ELSE transfer[g]]

AllSent(d) ==
  IF phase = "pairs" THEN \A s \in Para : transfer[<<s, d>>] # "none"
  ELSE transfer[<<Relay, d>>] # "none"

\* A block of chain d: what was sent there is executed.  Nobody looks at a
\* parachain before the thread that pays there has sent its transfers, or after it
\* has ended.
Seal(d) ==
  /\ d # Relay => thread[d] = "running" /\ AllSent(d)
  /\ \E g \in Funded : g[2] = d /\ transfer[g] = "sent"
  /\ SealTransfers(d)
  /\ UNCHANGED <<protocol, phase, keys, running, thread, failures>>

\* Keys are kept when the node has the transfers, or when it has executed them.
SendTransfers(g) == transfer[g] = "none" /\ transfer' = [transfer EXCEPT ![g] = "sent"]
AllSealed(G)     == \A g \in G : transfer[g] = "sealed"

\* A call to a node raises.
Raises == failures < MaxFailures /\ failures' = failures + 1

----------------------------------------------------------------------------
(* start_gateways_from_para_to_relay_local *)

FundToRelay ==
  /\ phase = "to_relay"
  /\ \E s \in Para :
       /\ \A r \in 1 .. s - 1 : transfer[<<r, Relay>>] # "none"
       /\ SendTransfers(<<s, Relay>>)
       /\ keys' = keys \cup {<<s, Relay>>}
  /\ UNCHANGED <<protocol, phase, running, thread, failures>>

LaunchToRelay ==
  /\ phase = "to_relay" /\ AllSealed(ToRelay)
  /\ running' = running \cup ToRelay
  /\ phase'   = After(phase)
  /\ thread'  = [d \in Para |-> "running"]
  /\ UNCHANGED <<protocol, transfer, keys, failures>>

\* The exception ends main.
ToRelayRaises ==
  /\ phase = "to_relay" /\ Raises
  /\ phase' = "aborted"
  /\ UNCHANGED <<protocol, transfer, keys, running, thread>>

----------------------------------------------------------------------------
(* The threads of the other two functions: an exception ends only the thread. *)

\* In the last function, one that comes when all is sealed changes nothing.
ThreadRaises(d) ==
  /\ thread[d] = "running" /\ Raises
  /\ phase = "pairs" => ~AllSealed(Para \X {d})
  /\ thread' = [thread EXCEPT ![d] = "ended"]
  /\ UNCHANGED <<protocol, phase, transfer, keys, running>>

(* start_gateways_from_relay_to_para_local *)

\* Variant: the keys are kept before the receipts are there.
FundFromRelayKeysFirst(d) ==
  /\ phase = "from_relay" /\ thread[d] = "running"
  /\ SendTransfers(<<Relay, d>>)
  /\ keys' = keys \cup {<<Relay, d>>}
  /\ UNCHANGED <<protocol, phase, running, thread, failures>>

FundFromRelay(d) ==
  /\ phase = "from_relay" /\ thread[d] = "running"
  /\ SendTransfers(<<Relay, d>>)
  /\ UNCHANGED <<protocol, phase, keys, running, thread, failures>>

ReceiptsFromRelay(d) ==
  /\ phase = "from_relay" /\ thread[d] = "running"
  /\ AllSealed({<<Relay, d>>})
  /\ keys'   = keys \cup {<<Relay, d>>}
  /\ thread' = [thread EXCEPT ![d] = "ended"]
  /\ UNCHANGED <<protocol, phase, transfer, running, failures>>

\* Missing keys are found when the commands are put together, before the first
\* is executed; the exception ends main, and the gateways launched before go on.
LaunchAll(G) ==
  IF G \subseteq keys
    THEN running' = running \cup G /\ phase' = After(phase)
    ELSE phase' = "aborted" /\ UNCHANGED running

LaunchFromRelay ==
  /\ phase = "from_relay" /\ \A d \in Para : thread[d] = "ended"
  /\ LaunchAll(FromRelay)
  /\ thread' = IF phase' = "pairs" THEN [d \in Para |-> "running"] ELSE thread
  /\ UNCHANGED <<protocol, transfer, keys, failures>>

(* start_gateways_from_para_to_para_local *)

\* The keys are kept although the receipts are not there.
FundPair(d) ==
  /\ phase = "pairs" /\ thread[d] = "running"
  /\ \E s \in Para :
       /\ \A r \in 1 .. s - 1 : transfer[<<r, d>>] # "none"
       /\ SendTransfers(<<s, d>>)
       /\ keys' = keys \cup {<<s, d>>}
  /\ UNCHANGED <<protocol, phase, running, thread, failures>>

ReceiptsPairs(d) ==
  /\ phase = "pairs" /\ thread[d] = "running"
  /\ AllSealed(Para \X {d})
  /\ thread' = [thread EXCEPT ![d] = "ended"]
  /\ UNCHANGED <<protocol, phase, transfer, keys, running, failures>>

LaunchPairs ==
  /\ phase = "pairs" /\ \A d \in Para : thread[d] = "ended"
  /\ LaunchAll(Pairs)
  /\ UNCHANGED <<protocol, transfer, keys, thread, failures>>

----------------------------------------------------------------------------
MainStarts == FundToRelay \/ LaunchToRelay \/ LaunchFromRelay \/ LaunchPairs

ThreadStarts(d) ==
  FundFromRelay(d) \/ ReceiptsFromRelay(d) \/ FundPair(d) \/ ReceiptsPairs(d)

StartRaises == ToRelayRaises \/ \E d \in Para : ThreadRaises(d)

\* The three functions, and what each of the schedulers has of them.
ToRelaySteps   == FundToRelay \/ LaunchToRelay
FromRelaySteps == LaunchFromRelay \/ \E d \in Para : FundFromRelay(d) \/ ReceiptsFromRelay(d)
PairSteps      == LaunchPairs \/ \E d \in Para : FundPair(d) \/ ReceiptsPairs(d)

TorStarts    == protocol = "tor" /\ (ToRelaySteps \/ FromRelaySteps \/ PairSteps)
AorToRelay   == protocol = "aor" /\ ToRelaySteps
AorFromRelay == protocol = "aor" /\ FromRelaySteps
NorPairs     == protocol = "nor" /\ PairSteps

\* A gateway with an end on the relay chain is launched with accounts that have
\* money: a gateway to the relay chain sends its first header at once, and its
\* thread ends with the exception if the node refuses the transaction.  The money
\* for a gateway between parachains is at least on its way, although a thread of
\* create may have failed while it waited (scheduler.py, lines 59 to 62, 117 to
\* 122 and 191 to 197).
GatewaysHaveMoney ==
  \A g \in running :
    IF Relay \in {g[1], g[2]} THEN transfer[g] = "sealed" ELSE transfer[g] # "none"
=============================================================================
