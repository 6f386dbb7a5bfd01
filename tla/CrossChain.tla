----------------------------- MODULE CrossChain ----------------------------
(***************************************************************************)
(* What a cross-chain protocol promises its users, whatever carries the    *)
(* messages: a chain receives only messages that were sent to it, each at  *)
(* most once, and those of one source in the order in which they were sent.*)
(***************************************************************************)
EXTENDS Naturals

CONSTANTS Para, Payload

\* A sent message: what it is and where in its source chain it was sent.
SentMessage == [cm : [sourceChain : Para, targetChain : Para, payload : Payload],
                height : Nat \ {0}, position : Nat \ {0}]

VARIABLES
  sentMessages,  \* the messages that were sent
  delivered      \* delivered[d]: the messages parachain d has received

vars == <<sentMessages, delivered>>

\* Position i of block h comes before position j of block k.
Before(h, i, k, j) == h < k \/ (h = k /\ i < j)

\* m was sent before n, from the same chain.
Earlier(m, n) == Before(m.height, m.position, n.height, n.position)
SameSource(m, n) == m.cm.sourceChain = n.cm.sourceChain

Init ==
  /\ sentMessages = {}
  /\ delivered    = [d \in Para |-> {}]

Send(m) ==
  /\ \A n \in sentMessages : SameSource(n, m) => Earlier(n, m)
  /\ sentMessages' = sentMessages \cup {m}
  /\ UNCHANGED delivered

Deliver(m) ==
  LET d == m.cm.targetChain
  IN  /\ m \in sentMessages
      /\ \A n \in delivered[d] : SameSource(n, m) => Earlier(n, m)
      /\ delivered' = [delivered EXCEPT ![d] = @ \cup {m}]
      /\ UNCHANGED sentMessages

\* The messages are those that the chains can hold: a step is described by the
\* message it adds, so that TLC need not enumerate SentMessage.
Next ==
  \/ \E m \in sentMessages' \ sentMessages : m \in SentMessage /\ Send(m)
  \/ \E m \in sentMessages : Deliver(m)

Spec == Init /\ [][Next]_vars
============================================================================
