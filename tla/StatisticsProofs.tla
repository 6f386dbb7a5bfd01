-------------------------- MODULE StatisticsProofs --------------------------
(***************************************************************************)
(* Theorems about Statistics and the modules it extends, for every number  *)
(* of parachains, messages, leftovers and exceptions: gateways run with    *)
(* money, the evaluation ends only when all messages are received, and its *)
(* latencies are of its own messages.                                      *)
(***************************************************************************)
EXTENDS StatisticsInv, FiniteSetTheorems, WellFoundedInduction, TLAPS

----------------------------------------------------------------------------
(* The sum of the counts. *)

Less == {pair \in Nat \X Nat : pair[1] < pair[2]}

\* The order of the naturals is well founded.
LEMMA LessIsWellFounded == IsWellFoundedOn(Less, Nat)
<1>1. Less = OpToRel(<, Nat)
  BY Zenon DEF Less, OpToRel
<1> QED
  BY <1>1, NatLessThanWellFounded, Zenon

\* A set of naturals that is not empty has a least element.
LEMMA LeastElement ==
  ASSUME NEW S \in SUBSET Nat, S # {}
  PROVE  \E x \in S : \A y \in S : x <= y
<1>1. PICK x \in S : \A y \in S : ~ (<<y, x>> \in Less)
  BY LessIsWellFounded, WFMin, Zenon
<1>2. ASSUME NEW y \in S PROVE x <= y
  <2>1. y \in Nat /\ x \in Nat /\ <<y, x>> \in Nat \X Nat
    OBVIOUS
  <2>2. ~ (y < x)
    BY <2>1, <1>1 DEF Less
  <2> QED
    BY <2>1, <2>2
<1> QED
  BY <1>2

\* MapThenSumSet takes one element after the other from the set.
First(s) == CHOOSE x \in s : TRUE
SumStep(f, it, s) == IF s = {} THEN 0 ELSE f[First(s)] + it[s \ {First(s)}]
Sums(f, it, D) == it = [s \in D |-> SumStep(f, it, s)]

\* The subsets of S with at most n elements.
Small(S, n) == {s \in SUBSET S : Cardinality(s) <= n}

\* First picks an element of the set.
LEMMA FirstIsElement ==
  ASSUME NEW s, s # {}
  PROVE  First(s) \in s
BY DEF First

\* A sum over sets of at most n elements extends to those of n + 1.
LEMMA SumOfSmall ==
  ASSUME NEW S, IsFiniteSet(S), NEW f, NEW n \in Nat, NEW it, Sums(f, it, Small(S, n))
  PROVE  \E g : Sums(f, g, Small(S, n + 1))
<1> DEFINE g == [s \in Small(S, n + 1) |-> SumStep(f, it, s)]
<1>1. \A s \in Small(S, n) : it[s] = SumStep(f, it, s)
  BY DEF Sums
<1>2. Small(S, n) \subseteq Small(S, n + 1)
  <2>1. \A s \in SUBSET S : Cardinality(s) \in Nat
    BY FS_Subset, FS_CardinalityType
  <2> QED
    BY <2>1 DEF Small
<1>3. \A s \in Small(S, n) : g[s] = it[s]
  BY <1>1, <1>2
<1>4. ASSUME NEW s \in Small(S, n + 1), s # {}
      PROVE  s \ {First(s)} \in Small(S, n)
  <2>1. First(s) \in s
    BY <1>4, FirstIsElement
  <2>2. s \in SUBSET S /\ IsFiniteSet(s) /\ Cardinality(s) \in Nat /\ Cardinality(s) <= n + 1
    BY FS_Subset, FS_CardinalityType DEF Small
  <2>3. Cardinality(s \ {First(s)}) = Cardinality(s) - 1
    BY <2>1, <2>2, FS_RemoveElement
  <2>4. s \ {First(s)} \in SUBSET S
    BY <2>2
  <2> QED
    BY <2>2, <2>3, <2>4 DEF Small
<1>5. \A s \in Small(S, n + 1) : SumStep(f, it, s) = SumStep(f, g, s)
  <2> HIDE DEF g
  <2> QED
    BY <1>3, <1>4 DEF SumStep
<1>6. Sums(f, g, Small(S, n + 1))
  BY <1>5 DEF Sums
<1> QED
  BY <1>6

\* The library's recursive function exists.
LEMMA SumExists ==
  ASSUME NEW S, IsFiniteSet(S), NEW f
  PROVE  \E it : Sums(f, it, SUBSET S)
<1> DEFINE Bad == {n \in Nat : ~ \E it : Sums(f, it, Small(S, n))}
<1>1. Bad = {}
  <2>1. SUFFICES ASSUME Bad # {} PROVE FALSE
    OBVIOUS
  <2>2. PICK n \in Bad : \A k \in Bad : n <= k
    BY <2>1, LeastElement
  <2>3. CASE n = 0
    <3> DEFINE it == [s \in {{}} |-> 0]
    <3>1. Small(S, 0) = {{}}
      <4>1. ASSUME NEW s \in Small(S, 0) PROVE s = {}
        BY FS_Subset, FS_CardinalityType, FS_EmptySet DEF Small
      <4>2. {} \in Small(S, 0)
        BY FS_EmptySet DEF Small
      <4> QED
        BY <4>1, <4>2
    <3>2. Sums(f, it, {{}})
      <4>1. \A s \in {{}} : SumStep(f, it, s) = 0
        BY DEF SumStep
      <4> QED
        BY <4>1 DEF Sums
    <3>3. \E g : Sums(f, g, Small(S, 0))
      <4> HIDE DEF it
      <4> QED
        BY <3>1, <3>2
    <3> QED
      BY <2>2, <2>3, <3>3
  <2>4. CASE n # 0
    <3>1. n - 1 \in Nat /\ n - 1 \notin Bad /\ (n - 1) + 1 = n
      BY <2>2, <2>4
    <3>2. PICK it : Sums(f, it, Small(S, n - 1))
      BY <3>1
    <3>3. \E g : Sums(f, g, Small(S, (n - 1) + 1))
      BY <3>1, <3>2, SumOfSmall
    <3> QED
      BY <3>1, <3>3
  <2> QED
    BY <2>3, <2>4
<1>2. Small(S, Cardinality(S)) = SUBSET S /\ Cardinality(S) \in Nat
  BY FS_Subset, FS_CardinalityType DEF Small
<1>3. \A n \in Nat : \E it : Sums(f, it, Small(S, n))
  BY <1>1
<1> HIDE DEF Bad
<1>4. \E it : Sums(f, it, Small(S, Cardinality(S)))
  BY <1>2, <1>3
<1> QED
  BY <1>2, <1>4

SumOf(f, S) == (CHOOSE it : Sums(f, it, SUBSET S))[S]

\* A sum of counts is bounded by the size of a set M, if each is bounded by the
\* number of elements of M that belong to it.
LEMMA SumIsBounded ==
  ASSUME NEW S, IsFiniteSet(S), NEW f \in [S -> Nat], NEW M, IsFiniteSet(M), NEW D,
         \A d \in S : f[d] <= Cardinality({m \in M : D[m] = d})
  PROVE  SumOf(f, S) \in Nat /\ SumOf(f, S) <= Cardinality(M)
<1> DEFINE it == CHOOSE it : Sums(f, it, SUBSET S)
           Of(s) == {m \in M : D[m] \in s}
           Good(s) == it[s] \in Nat /\ it[s] <= Cardinality(Of(s))
           Bad == {n \in Nat : \E s \in SUBSET S : Cardinality(s) = n /\ ~Good(s)}
<1>1. Sums(f, it, SUBSET S)
  BY SumExists
<1>2. \A s \in SUBSET S : it[s] = SumStep(f, it, s)
  <2> HIDE DEF it
  <2> QED
    BY <1>1 DEF Sums
<1>3. \A s : IsFiniteSet(Of(s)) /\ Cardinality(Of(s)) \in Nat
  BY FS_Subset, FS_CardinalityType
<1>4. \A s \in SUBSET S : IsFiniteSet(s) /\ Cardinality(s) \in Nat
  BY FS_Subset, FS_CardinalityType
<1> HIDE DEF it, Of
<1>5. ASSUME NEW s \in SUBSET S, s # {}, Good(s \ {First(s)})
      PROVE  Good(s)
  <2> DEFINE d == First(s)
             r == s \ {d}
  <2>1. d \in s /\ d \in S
    BY <1>5, FirstIsElement
  <2>2. it[s] = f[d] + it[r]
    BY <1>2, <1>5 DEF SumStep
  <2>3. /\ Of(s) = Of({d}) \cup Of(r)
        /\ Of({d}) \cap Of(r) = {}
        /\ Of({d}) = {m \in M : D[m] = d}
    BY <2>1 DEF Of
  <2>4. Cardinality(Of(s)) = Cardinality(Of({d})) + Cardinality(Of(r))
    <3>1. Cardinality(Of({d}) \cup Of(r))
            = Cardinality(Of({d})) + Cardinality(Of(r)) - Cardinality(Of({d}) \cap Of(r))
      BY <1>3, FS_Union
    <3>2. Cardinality(Of({d}) \cap Of(r)) = 0
      BY <2>3, FS_EmptySet
    <3>3. Cardinality(Of({d})) \in Nat /\ Cardinality(Of(r)) \in Nat
      BY <1>3
    <3>4. Cardinality(Of(s)) = Cardinality(Of({d}) \cup Of(r))
      BY <2>3
    <3> HIDE DEF d, r
    <3> QED
      BY <3>1, <3>2, <3>3, <3>4
  <2>5. f[d] \in Nat /\ f[d] <= Cardinality(Of({d}))
    BY <2>1, <2>3
  <2>6. it[r] \in Nat /\ it[r] <= Cardinality(Of(r))
    BY <1>5
  <2>7. Cardinality(Of({d})) \in Nat /\ Cardinality(Of(r)) \in Nat
    BY <1>3
  <2> HIDE DEF d, r
  <2> QED
    BY <2>2, <2>4, <2>5, <2>6, <2>7
<1>6. Good({})
  <2>1. {} \in SUBSET S /\ it[{}] = 0
    BY <1>2 DEF SumStep
  <2> QED
    BY <1>3, <2>1
<1>7. Bad = {}
  <2>1. SUFFICES ASSUME Bad # {} PROVE FALSE
    OBVIOUS
  <2>2. PICK n \in Bad : \A k \in Bad : n <= k
    BY <2>1, LeastElement
  <2>3. PICK s \in SUBSET S : Cardinality(s) = n /\ ~Good(s)
    BY <2>2
  <2>4. s # {}
    BY <1>6, <2>3
  <2>5. ~Good(s \ {First(s)})
    BY <1>5, <2>3, <2>4
  <2>6. Cardinality(s \ {First(s)}) = n - 1
    BY <1>4, <2>3, <2>4, FirstIsElement, FS_RemoveElement
  <2>7. s \ {First(s)} \in SUBSET S /\ n - 1 \in Nat
    BY <1>4, <2>6
  <2>8. n - 1 \in Bad
    BY <2>5, <2>6, <2>7
  <2> QED
    BY <2>2, <2>7, <2>8
<1>8. Good(S)
  BY <1>4, <1>7
<1>9. Of(S) \subseteq M
  BY DEF Of
<1>10. SumOf(f, S) = it[S]
  BY DEF SumOf, it
<1>11. Cardinality(Of(S)) <= Cardinality(M) /\ Cardinality(M) \in Nat
  BY <1>9, FS_Subset, FS_CardinalityType
<1> QED
  BY <1>3, <1>8, <1>10, <1>11

----------------------------------------------------------------------------
(* The messages of an evaluation. *)

\* The target of wait_finish is the number of messages.
LEMMA MessagesAreFinite ==
  /\ IsFiniteSet(Message) /\ Cardinality(Message) = Target
  /\ IsFiniteSet(Para) /\ Target \in Nat
<1>1. N \in Nat /\ EachNum \in Nat \ {0}
  BY SeveralParachains, NumAssumption
<1>2. IsFiniteSet(Para) /\ Cardinality(Para) = N
  BY <1>1, FS_Interval DEF Para
<1>3. IsFiniteSet(0 .. EachNum - 1) /\ Cardinality(0 .. EachNum - 1) = EachNum
  BY <1>1, FS_Interval
<1>4. IsFiniteSet(Message) /\ Cardinality(Message) = N * EachNum
  BY <1>2, <1>3, FS_Product DEF Message
<1>5. N * EachNum \in Nat
  BY <1>1
<1> QED
  BY <1>2, <1>4, <1>5 DEF Target

\* What the threads of wait_finish add up.
LEMMA AllCountIsSum == AllCount = SumOf(counts, Para)
BY DEF AllCount, MapThenSumSet, MapThenFoldSet, SumOf, Sums, SumStep, First

\* A message is for a parachain.
LEMMA ForParachains == \A m \in Message : Dst(m) \in Para
<1> SUFFICES ASSUME NEW m \in Message PROVE Dst(m) \in Para
  OBVIOUS
<1>1. N \in Nat /\ N >= 2 /\ EachNum \in Nat
  BY SeveralParachains, NumAssumption
<1>2. m[1] \in 1 .. N /\ m[2] \in Nat
  BY <1>1 DEF Message, Para
<1>3. \A a \in Nat, b \in Nat \ {0} : a % b \in 0 .. b - 1
  OBVIOUS
<1>4. m[2] % (N - 1) \in 0 .. N - 2
  <2>1. N - 1 \in Nat \ {0} /\ 0 .. (N - 1) - 1 = 0 .. N - 2
    BY <1>1
  <2>2. m[2] % (N - 1) \in 0 .. (N - 1) - 1
    BY <1>2, <1>3, <2>1
  <2> QED
    BY <2>1, <2>2
<1> HIDE DEF Message
<1>5. \A k \in 0 .. N - 2, c \in 1 .. N :
        (IF k + 1 < c THEN k + 1 ELSE k + 2) \in 1 .. N
  BY <1>1
<1> QED
  BY <1>2, <1>4, <1>5 DEF Dst, Para

\* When the counts hold no more than what has been recorded, and their sum reaches
\* the target, everything has been received and recorded.
LEMMA TargetIsReached ==
  ASSUME counts \in [Para -> Nat], received \subseteq Message,
         recorded \in [Para -> SUBSET Message], CountsFit,
         \A d \in Para : old[d] = 0, AllCount >= Target
  PROVE  received = Message /\ Recorded
<1> DEFINE R == {m \in received : m \in recorded[Dst(m)]}
<1>1. IsFiniteSet(R) /\ Cardinality(R) \in Nat
  BY MessagesAreFinite, FS_Subset, FS_CardinalityType
<1>2. ASSUME NEW d \in Para
      PROVE  counts[d] <= Cardinality({m \in R : Dst(m) = d})
  <2> DEFINE Q == {m \in R : Dst(m) = d}
  <2>1. recorded[d] \subseteq Q /\ counts[d] <= 0 + Cardinality(recorded[d])
    BY <1>2 DEF CountsFit, CountOnDst
  <2>2. IsFiniteSet(Q) /\ Cardinality(Q) \in Nat
    BY <1>1, FS_Subset, FS_CardinalityType
  <2>3. Cardinality(recorded[d]) <= Cardinality(Q) /\ Cardinality(recorded[d]) \in Nat
    BY <2>1, <2>2, FS_Subset, FS_CardinalityType
  <2>4. counts[d] \in Nat
    BY <1>2
  <2> QED
    BY <2>1, <2>2, <2>3, <2>4
<1>3. R \subseteq Message /\ R \subseteq received
  OBVIOUS
<1>4. (R = Message) => received = Message /\ Recorded
  <2> SUFFICES ASSUME R = Message, NEW d \in Para
               PROVE  received = Message /\ recorded[d] = {m \in Message : Dst(m) = d}
    BY DEF Recorded
  <2>1. recorded[d] \subseteq {m \in Message : Dst(m) = d}
    BY DEF CountsFit
  <2>2. {m \in Message : Dst(m) = d} \subseteq recorded[d]
    OBVIOUS
  <2> QED
    BY <1>3, <2>1, <2>2
<1> HIDE DEF R
<1>5. SumOf(counts, Para) \in Nat /\ SumOf(counts, Para) <= Cardinality(R)
  <2> DEFINE D == [m \in R |-> Dst(m)]
  <2>1. \A d \in Para : {m \in R : Dst(m) = d} = {m \in R : D[m] = d}
    OBVIOUS
  <2>2. \A d \in Para : counts[d] <= Cardinality({m \in R : D[m] = d})
    BY <1>2, <2>1
  <2> HIDE DEF D
  <2> QED
    BY <1>1, <2>2, MessagesAreFinite, SumIsBounded
<1>6. Target <= Cardinality(R)
  BY <1>1, <1>5, AllCountIsSum, MessagesAreFinite
<1> QED
  BY <1>1, <1>3, <1>4, <1>6, MessagesAreFinite, FS_Subset, FS_CardinalityType

----------------------------------------------------------------------------
(* The start of the gateways. *)

\* The invariant holds when main begins.
LEMMA InitIsGood == StatInit => IInv
<1> SUFFICES ASSUME StatInit PROVE IInv
  OBVIOUS
<1>1. phase \in StartPhases
  <2>1. protocol \in {"tor", "aor", "nor"} /\ phase = Head(Starts[protocol])
    BY DEF StatInit, Init, StartInit, Starts
  <2>2. CASE protocol = "tor"
    BY <2>1, <2>2 DEF Starts, StartPhases
  <2>3. CASE protocol = "aor"
    BY <2>1, <2>3 DEF Starts, StartPhases
  <2>4. CASE protocol = "nor"
    BY <2>1, <2>4 DEF Starts, StartPhases
  <2> QED
    BY <2>1, <2>2, <2>3, <2>4
<1>2. phase \in Early /\ phase \in EvalPhases /\ phase \notin Late
  BY <1>1 DEF Early, EvalPhases, Late, StartPhases
<1>3. StatTypeOK
  <2>1. StartTypeOK
    BY FailuresAssumption DEF StatInit, Init, StartInit, StartTypeOK
  <2>2. EvalTypeOK
    BY <2>1, NumAssumption DEF StatInit, Init, EvalTypeOK
  <2>3. /\ query \in [Chain -> {"count", "records", "died"}]
        /\ todo \in [Chain -> SUBSET (Message \X {"earlier", "this"})]
        /\ latency \in [Message -> Times]
        /\ info \in [UNION Files -> {"none", "earlier", "torn", "this"}]
        /\ unread \subseteq DOMAIN info
    BY DEF StatInit, Times, Leftover
  <2> QED
    BY <1>2, <2>2, <2>3 DEF StatTypeOK
<1>4. WaitsAreFresh /\ StatisticsAreFresh
  BY DEF StatInit, Init, WaitsAreFresh, StatisticsAreFresh
<1>5. SendersFit
  BY <1>2 DEF StatInit, Init, SendersFit
<1>6. CountsFit
  <2>1. \A d \in Para : old[d] \in Nat
    BY NumAssumption DEF StatInit, Init
  <2>2. \A d \in Para : recorded[d] = {} /\ counts[d] = 0
    BY DEF StatInit, Init
  <2>3. \A d \in Para : CountOnDst(d) = old[d] + 0
    BY <2>2, FS_EmptySet DEF CountOnDst
  <2> QED
    BY <2>1, <2>2, <2>3 DEF CountsFit
<1>7. TimersFit /\ NoneDied
  BY <1>2 DEF StatInit, Init, TimersFit, Recorded, NoneDied
<1>8. ReadingFits /\ LatenciesAreOfThisRun
  BY <1>1 DEF ReadingFits, LatenciesAreOfThisRun, StartPhases
<1> QED
  BY <1>3, <1>4, <1>5, <1>6, <1>7, <1>8 DEF IInv

\* What a step outside of the evaluation itself leaves as it is: a gateway is paid,
\* launched or ended, or a call raises.
Outside ==
  /\ UNCHANGED <<evalVars, statVars, protocol>>
  /\ StartTypeOK'
  /\ phase' = phase \/ (phase \in Early /\ phase' \in Early)
  /\ failures' = 0 => failures = 0

\* Steps that leave the evaluation alone keep the invariant.
LEMMA OutsideStep ==
  ASSUME IInv, Outside
  PROVE  IInv'
<1> USE DEF evalVars, chainVars, senderVars, pollVars, statVars
<1>1. Early \cap Late = {} /\ "measured" \notin Early /\ "statistics" \notin Early
      /\ "waiting" \notin Early /\ "finished" \notin Early
  BY DEF Early, Late, StartPhases
<1>2. StatTypeOK'
  <2>1. Files' = Files
    BY DEF Outside, Files
  <2>2. phase' \in EvalPhases \cup {"statistics", "measured", "killed", "done", "failed"}
    BY DEF IInv, StatTypeOK, Outside, Early, EvalPhases
  <2>3. EvalTypeOK'
    BY DEF IInv, StatTypeOK, Outside, EvalTypeOK
  <2> QED
    BY <2>1, <2>2, <2>3 DEF IInv, StatTypeOK, Outside
<1>3. WaitsAreFresh'
  BY DEF IInv, Outside, WaitsAreFresh
<1>4. StatisticsAreFresh'
  BY DEF IInv, Outside, StatisticsAreFresh
<1>5. SendersFit'
  BY <1>1 DEF IInv, Outside, SendersFit
<1>6. CountsFit'
  BY DEF IInv, Outside, CountsFit, CountOnDst
<1>7. TimersFit'
  BY <1>1 DEF IInv, Outside, TimersFit, Recorded
<1>8. NoneDied'
  BY DEF IInv, Outside, NoneDied
<1>9. ReadingFits'
  BY <1>1 DEF IInv, Outside, ReadingFits
<1>10. LatenciesAreOfThisRun'
  BY <1>1 DEF IInv, Outside, LatenciesAreOfThisRun
<1> QED
  BY <1>2, <1>3, <1>4, <1>5, <1>6, <1>7, <1>8, <1>9, <1>10 DEF IInv

\* The functions that main calls, in the order of each protocol.
LEMMA AfterIs ==
  /\ protocol = "tor" => /\ After("to_relay") = "from_relay"
                         /\ After("from_relay") = "pairs"
                         /\ After("pairs") = "sending"
  /\ protocol = "aor" => /\ After("to_relay") = "from_relay"
                         /\ After("from_relay") = "sending"
  /\ protocol = "nor" => After("pairs") = "sending"
<1> DEFINE calls == Starts[protocol]
           At(p) == CHOOSE i \in DOMAIN calls : calls[i] = p
<1>1. ASSUME protocol = "tor"
      PROVE  /\ After("to_relay") = "from_relay"
             /\ After("from_relay") = "pairs"
             /\ After("pairs") = "sending"
  <2>1. /\ DOMAIN calls = 1 .. 4 /\ calls[1] = "to_relay" /\ calls[2] = "from_relay"
        /\ calls[3] = "pairs" /\ calls[4] = "sending"
    BY <1>1 DEF Starts
  <2> HIDE DEF calls
  <2>2. \A i \in 1 .. 4 : i = 1 \/ i = 2 \/ i = 3 \/ i = 4
    OBVIOUS
  <2>3. At("to_relay") = 1
    BY <2>1, <2>2
  <2>4. At("from_relay") = 2
    BY <2>1, <2>2
  <2>5. At("pairs") = 3
    BY <2>1, <2>2
  <2> QED
    BY <2>1, <2>3, <2>4, <2>5 DEF After, calls
<1>2. ASSUME protocol = "aor"
      PROVE  /\ After("to_relay") = "from_relay"
             /\ After("from_relay") = "sending"
  <2>1. /\ DOMAIN calls = 1 .. 3 /\ calls[1] = "to_relay" /\ calls[2] = "from_relay"
        /\ calls[3] = "sending"
    BY <1>2 DEF Starts
  <2> HIDE DEF calls
  <2>2. \A i \in DOMAIN calls : /\ calls[i] = "to_relay" <=> i = 1
                               /\ calls[i] = "from_relay" <=> i = 2
    BY <2>1
  <2>3. At("to_relay") = 1 /\ At("from_relay") = 2
    BY <2>1, <2>2
  <2> QED
    BY <2>1, <2>3 DEF After, calls
<1>3. ASSUME protocol = "nor" PROVE After("pairs") = "sending"
  <2>1. DOMAIN calls = 1 .. 2 /\ calls[1] = "pairs" /\ calls[2] = "sending"
    BY <1>3 DEF Starts
  <2> HIDE DEF calls
  <2>2. \A i \in DOMAIN calls : calls[i] = "pairs" <=> i = 1
    BY <2>1
  <2>3. At("pairs") = 1
    BY <2>1, <2>2
  <2> QED
    BY <2>1, <2>3 DEF After, calls
<1> QED
  BY <1>1, <1>2, <1>3

\* A call that raises is counted.
LEMMA RaisesIsCounted ==
  ASSUME IInv, Raises
  PROVE  failures' \in 0 .. MaxFailures /\ failures' # 0
BY FailuresAssumption DEF IInv, StatTypeOK, EvalTypeOK, StartTypeOK, Raises

\* Accounts are made for every gateway.
LEMMA KindsAreFunded ==
  /\ ToRelay \subseteq Funded /\ FromRelay \subseteq Funded /\ Pairs \subseteq Funded
  /\ \A s \in Para : <<s, Relay>> \in Funded /\ <<Relay, s>> \in Funded
  /\ \A s, d \in Para : <<s, d>> \in Funded
  /\ \A g \in FromRelay : g[1] = Relay
  /\ \A g \in Pairs : g[1] # Relay /\ g[2] # Relay
<1>1. Relay \notin Para
  BY DEF Relay, Para
<1> QED
  BY <1>1 DEF ToRelay, FromRelay, Pairs, Funded

\* The transfers for a gateway are sent, or those on a chain sealed.
LEMMA TransfersAreTyped ==
  ASSUME StartTypeOK
  PROVE  /\ \A g \in Funded : SendTransfers(g) =>
              transfer' \in [Funded -> {"none", "sent", "sealed"}]
         /\ \A d : SealTransfers(d) => transfer' \in [Funded -> {"none", "sent", "sealed"}]
BY DEF StartTypeOK, SendTransfers, SealTransfers

\* The launch of the gateways to the relay chain is such a step.
LEMMA ToRelayStep ==
  ASSUME IInv, protocol \in {"tor", "aor"}, ToRelaySteps, UNCHANGED <<evalVars, statVars>>
  PROVE  Outside
<1> USE KindsAreFunded
<1>1. StartTypeOK
  BY DEF IInv, StatTypeOK, EvalTypeOK
<1>2. CASE FundToRelay
  <2>1. PICK s \in Para : SendTransfers(<<s, Relay>>) /\ keys' = keys \cup {<<s, Relay>>}
    BY <1>2 DEF FundToRelay
  <2>2. transfer' \in [Funded -> {"none", "sent", "sealed"}]
    BY <1>1, <2>1, TransfersAreTyped
  <2> QED
    BY <1>1, <1>2, <2>1, <2>2 DEF FundToRelay, Outside, StartTypeOK
<1>3. CASE LaunchToRelay
  <2>1. phase' = "from_relay" /\ phase = "to_relay"
    BY <1>3, AfterIs DEF LaunchToRelay
  <2> QED
    BY <1>1, <1>3, <2>1 DEF LaunchToRelay, Outside, StartTypeOK, Early, StartPhases
<1> QED
  BY <1>2, <1>3 DEF ToRelaySteps

\* So is the launch of those from the relay chain.
LEMMA FromRelayStep ==
  ASSUME IInv, protocol \in {"tor", "aor"}, FromRelaySteps, UNCHANGED <<evalVars, statVars>>
  PROVE  Outside
<1> USE KindsAreFunded
<1>1. StartTypeOK
  BY DEF IInv, StatTypeOK, EvalTypeOK
<1>2. CASE LaunchFromRelay
  <2>1. phase = "from_relay" /\ phase' \in {"pairs", "sending", "aborted"}
    BY <1>2, AfterIs DEF LaunchFromRelay, LaunchAll
  <2>2. running' \subseteq Funded
    BY <1>1, <1>2 DEF LaunchFromRelay, LaunchAll, StartTypeOK
  <2>3. thread' \in [Para -> {"running", "ended"}]
    BY <1>1, <1>2 DEF LaunchFromRelay, StartTypeOK
  <2> QED
    BY <1>1, <1>2, <2>1, <2>2, <2>3
       DEF LaunchFromRelay, Outside, StartTypeOK, Early, StartPhases
<1>3. ASSUME NEW d \in Para, FundFromRelay(d) PROVE Outside
  <2>1. transfer' \in [Funded -> {"none", "sent", "sealed"}]
    BY <1>1, <1>3, TransfersAreTyped DEF FundFromRelay
  <2> QED
    BY <1>1, <1>3, <2>1 DEF FundFromRelay, Outside, StartTypeOK
<1>4. ASSUME NEW d \in Para, ReceiptsFromRelay(d) PROVE Outside
  BY <1>1, <1>4 DEF ReceiptsFromRelay, Outside, StartTypeOK
<1> QED
  BY <1>2, <1>3, <1>4 DEF FromRelaySteps

\* And of those between two parachains.
LEMMA PairStep ==
  ASSUME IInv, protocol \in {"tor", "nor"}, PairSteps, UNCHANGED <<evalVars, statVars>>
  PROVE  Outside
<1> USE KindsAreFunded
<1>1. StartTypeOK
  BY DEF IInv, StatTypeOK, EvalTypeOK
<1>2. CASE LaunchPairs
  <2>1. phase = "pairs" /\ phase' \in {"sending", "aborted"}
    BY <1>2, AfterIs DEF LaunchPairs, LaunchAll
  <2>2. running' \subseteq Funded
    BY <1>1, <1>2 DEF LaunchPairs, LaunchAll, StartTypeOK
  <2> QED
    BY <1>1, <1>2, <2>1, <2>2 DEF LaunchPairs, Outside, StartTypeOK, Early, StartPhases
<1>3. ASSUME NEW d \in Para, FundPair(d) PROVE Outside
  <2>1. PICK s \in Para : SendTransfers(<<s, d>>) /\ keys' = keys \cup {<<s, d>>}
    BY <1>3 DEF FundPair
  <2>2. transfer' \in [Funded -> {"none", "sent", "sealed"}]
    BY <1>1, <2>1, TransfersAreTyped
  <2> QED
    BY <1>1, <1>3, <2>1, <2>2 DEF FundPair, Outside, StartTypeOK
<1>4. ASSUME NEW d \in Para, ReceiptsPairs(d) PROVE Outside
  BY <1>1, <1>4 DEF ReceiptsPairs, Outside, StartTypeOK
<1> QED
  BY <1>2, <1>3, <1>4 DEF PairSteps

\* Exceptions and blocks while gateways start, and gateways that end later.
LEMMA RaisesStep ==
  ASSUME IInv, UNCHANGED <<evalVars, statVars>>,
         \/ StartRaises
         \/ \E d \in Chain : Seal(d)
         \/ \E g \in running : GatewayRaises(g)
  PROVE  Outside
<1>1. StartTypeOK
  BY DEF IInv, StatTypeOK, EvalTypeOK
<1>2. CASE ToRelayRaises
  <2>1. failures' \in 0 .. MaxFailures /\ failures' # 0
    BY <1>2, RaisesIsCounted DEF ToRelayRaises
  <2> QED
    BY <1>1, <1>2, <2>1 DEF ToRelayRaises, Outside, StartTypeOK, Early, StartPhases
<1>3. ASSUME NEW d \in Para, ThreadRaises(d) PROVE Outside
  <2>1. failures' \in 0 .. MaxFailures /\ failures' # 0
    BY <1>3, RaisesIsCounted DEF ThreadRaises
  <2> QED
    BY <1>1, <1>3, <2>1 DEF ThreadRaises, Outside, StartTypeOK
<1>4. ASSUME NEW d \in Chain, Seal(d) PROVE Outside
  <2>1. transfer' \in [Funded -> {"none", "sent", "sealed"}]
    BY <1>1, <1>4, TransfersAreTyped DEF Seal
  <2> QED
    BY <1>1, <1>4, <2>1 DEF Seal, Outside, StartTypeOK
<1>5. ASSUME NEW g \in running, GatewayRaises(g) PROVE Outside
  <2>1. failures' \in 0 .. MaxFailures /\ failures' # 0
    BY <1>5, RaisesIsCounted DEF GatewayRaises
  <2> QED
    BY <1>1, <1>5, <2>1 DEF GatewayRaises, Outside, StartTypeOK
<1> QED
  BY <1>2, <1>3, <1>4, <1>5 DEF StartRaises

----------------------------------------------------------------------------
(* The sending processes and the chains. *)

\* What a process or a chain leaves as it is.
LEMMA SendersLeaveTheRest ==
  ASSUME IInv, UNCHANGED <<pollVars, statVars, phase, protocol>>,
         failures' = 0 => failures = 0
  PROVE  /\ WaitsAreFresh' /\ StatisticsAreFresh' /\ NoneDied' /\ ReadingFits'
         /\ phase' # "measured" => LatenciesAreOfThisRun'
         /\ Files' = Files
<1>1. WaitsAreFresh' /\ StatisticsAreFresh'
  BY DEF IInv, WaitsAreFresh, StatisticsAreFresh, pollVars, statVars
<1>2. NoneDied'
  BY DEF IInv, NoneDied, pollVars, statVars
<1>3. ReadingFits'
  BY DEF IInv, ReadingFits, pollVars, statVars
<1>4. phase' # "measured" => LatenciesAreOfThisRun'
  BY DEF LatenciesAreOfThisRun
<1>5. Files' = Files
  BY DEF Files
<1> QED
  BY <1>1, <1>2, <1>3, <1>4, <1>5

\* The parts of the state that sending and execution change.
SendTyped ==
  /\ stage    \in [Para -> {"start", "reset", "send", "receipts", "done"}]
  /\ sentNum  \in [Para -> 0 .. EachNum]
  /\ executed \in [Para -> 0 .. EachNum]
  /\ received \subseteq Message
  /\ recorded \in [Para -> SUBSET Message]
  /\ old      \in [Para -> 0 .. MaxOld]
  /\ payloads \in [Para -> {"none", "earlier", "this"}]

\* Steps of senders keep the types of everything else.
LEMMA SendersAreTyped ==
  ASSUME IInv, UNCHANGED <<pollVars, statVars, phase, protocol>>, Files' = Files,
         SendTyped', StartTypeOK'
  PROVE  StatTypeOK'
<1>1. StatTypeOK
  BY DEF IInv
<1>2. EvalTypeOK'
  BY <1>1 DEF EvalTypeOK, StatTypeOK, SendTyped, pollVars
<1> QED
  BY <1>1, <1>2 DEF StatTypeOK, statVars

\* What the lemmas about senders take from the invariant.
LEMMA SendFacts ==
  ASSUME IInv
  PROVE  /\ SendTyped /\ StartTypeOK /\ SendersFit /\ CountsFit /\ TimersFit
         /\ WaitsAreFresh /\ StatTypeOK
BY DEF IInv, StatTypeOK, EvalTypeOK, SendTyped

\* Sets of messages can be counted.
LEMMA CardinalitiesOfMessages ==
  ASSUME NEW M \in SUBSET Message
  PROVE  IsFiniteSet(M) /\ Cardinality(M) \in Nat
BY MessagesAreFinite, FS_Subset, FS_CardinalityType

\* A process that is not done is one of main's phase of sending, or before it.
LEMMA NotYetWaiting ==
  ASSUME IInv, NEW c \in Para, stage[c] # "done"
  PROVE  /\ phase \in Early /\ phase \notin Late /\ phase # "measured"
<1>1. phase \notin Late
  BY SendFacts DEF SendersFit
<1>2. phase \in Early \cup Late
  BY SendFacts DEF StatTypeOK, EvalPhases, Early, Late
<1> QED
  BY <1>1, <1>2 DEF Late

\* A sender resets its count: no thread waits yet that could have read it.
LEMMA ResetStep ==
  ASSUME IInv, NEW c \in Para, Reset(c), UNCHANGED statVars
  PROVE  IInv'
<1> USE SendFacts DEF Reset
<1>1. phase \in Early /\ phase' = phase /\ phase \notin Late /\ phase # "measured"
  BY NotYetWaiting
<1>2. UNCHANGED <<pollVars, statVars, phase, protocol>> /\ failures' = failures
  OBVIOUS
<1>3. SendTyped'
  BY NumAssumption DEF SendTyped
<1>4. StartTypeOK'
  BY TransfersAreTyped DEF StartTypeOK
<1>5. SendersFit'
  BY <1>1 DEF SendersFit, SendTyped
<1>6. CountsFit'
  <2>1. \A d \in Para : counts'[d] = 0
    BY <1>1 DEF WaitsAreFresh, pollVars
  <2>2. \A d \in Para : recorded'[d] \in SUBSET Message /\ old'[d] \in Nat
    BY <1>3, NumAssumption DEF SendTyped
  <2>3. \A d \in Para : recorded'[d] \subseteq recorded[d] /\ received' = received
    BY DEF SendTyped
  <2>4. \A d \in Para : CountOnDst(d)' \in Nat
    BY <2>2, CardinalitiesOfMessages DEF CountOnDst
  <2> QED
    BY <2>1, <2>3, <2>4 DEF CountsFit
<1>7. TimersFit'
  BY <1>1 DEF TimersFit, Recorded, WaitsAreFresh, pollVars
<1> QED
  BY <1>1, <1>2, <1>3, <1>4, <1>5, <1>6, <1>7, SendersLeaveTheRest, SendersAreTyped DEF IInv

\* A process goes on, or ends.
LEMMA SenderGoesOn ==
  ASSUME IInv, NEW c \in Para, UNCHANGED statVars,
         ResetReceipt(c) \/ Send(c) \/ SendEnd(c) \/ Receipts(c)
  PROVE  IInv'
<1> USE SendFacts
<1>1. phase \in Early /\ phase' = phase /\ phase \notin Late /\ phase # "measured"
  BY NotYetWaiting DEF ResetReceipt, Send, SendEnd, Receipts
<1>2. /\ UNCHANGED <<pollVars, statVars, phase, protocol>> /\ failures' = failures
      /\ UNCHANGED <<startVars, chainVars>>
  BY DEF ResetReceipt, Send, SendEnd, Receipts, startVars
<1>3. SendTyped'
  <2>1. CASE Send(c)
    BY <2>1, NumAssumption DEF SendTyped, Send, chainVars
  <2>2. CASE ResetReceipt(c) \/ SendEnd(c) \/ Receipts(c)
    BY <2>2 DEF SendTyped, ResetReceipt, SendEnd, Receipts, chainVars
  <2> QED
    BY <2>1, <2>2
<1>4. StartTypeOK'
  BY <1>2 DEF StartTypeOK, startVars
<1>5. SendersFit'
  BY <1>1, <1>2 DEF SendersFit, SendTyped, ResetReceipt, Send, SendEnd, Receipts, chainVars
<1>6. CountsFit'
  BY <1>2 DEF CountsFit, CountOnDst, pollVars, chainVars
<1>7. TimersFit'
  BY <1>1, <1>2 DEF TimersFit, Recorded, pollVars, chainVars
<1> QED
  BY <1>1, <1>2, <1>3, <1>4, <1>5, <1>6, <1>7, SendersLeaveTheRest, SendersAreTyped DEF IInv

\* A sender dies of an exception; what it has sent remains.
LEMMA SenderRaisesStep ==
  ASSUME IInv, NEW c \in Para, UNCHANGED statVars, SenderRaises(c)
  PROVE  IInv'
<1> USE SendFacts
<1>1. phase \in Early /\ phase' = phase /\ phase \notin Late /\ phase # "measured"
  BY NotYetWaiting DEF SenderRaises
<1>2. /\ UNCHANGED <<pollVars, statVars, phase, protocol, chainVars, payloads, sentNum>>
      /\ UNCHANGED <<transfer, keys, running, thread>>
      /\ failures' \in 0 .. MaxFailures /\ failures' # 0
  BY RaisesIsCounted DEF SenderRaises
<1>3. SendTyped'
  BY <1>2 DEF SendTyped, SenderRaises, chainVars
<1>4. StartTypeOK'
  BY <1>2 DEF StartTypeOK
<1>5. SendersFit'
  BY <1>1, <1>2 DEF SendersFit
<1>6. CountsFit'
  BY <1>2 DEF CountsFit, CountOnDst, pollVars, chainVars
<1>7. TimersFit'
  BY <1>1, <1>2 DEF TimersFit, Recorded, pollVars, chainVars
<1> QED
  BY <1>1, <1>2, <1>3, <1>4, <1>5, <1>6, <1>7, SendersLeaveTheRest, SendersAreTyped DEF IInv

\* A transaction of a process is executed.
LEMMA ExecuteSendStep ==
  ASSUME IInv, NEW c \in Para, UNCHANGED statVars, ExecuteSend(c)
  PROVE  IInv'
<1> USE SendFacts
<1>1. /\ UNCHANGED <<pollVars, statVars, phase, protocol, senderVars, startVars>>
      /\ UNCHANGED <<received, recorded, old, failures>>
  BY DEF ExecuteSend, startVars
<1>2. SendTyped'
  BY <1>1, NumAssumption DEF SendTyped, ExecuteSend, senderVars
<1>3. StartTypeOK'
  BY <1>1 DEF StartTypeOK, startVars
<1>4. SendersFit'
  BY <1>1 DEF SendersFit, senderVars
<1>5. CountsFit'
  BY <1>1 DEF CountsFit, CountOnDst, pollVars
<1>6. TimersFit'
  BY <1>1 DEF TimersFit, Recorded, pollVars
<1>7. LatenciesAreOfThisRun'
  BY <1>1 DEF IInv, LatenciesAreOfThisRun, senderVars, statVars
<1> QED
  BY <1>1, <1>2, <1>3, <1>4, <1>5, <1>6, <1>7, SendersLeaveTheRest, SendersAreTyped DEF IInv

\* A message is received, and its chain counts it.
LEMMA DeliverStep ==
  ASSUME IInv, NEW m \in Message, UNCHANGED statVars, Deliver(m)
  PROVE  IInv'
<1> USE SendFacts
<1>1. /\ UNCHANGED <<pollVars, statVars, phase, protocol, senderVars, startVars>>
      /\ UNCHANGED <<executed, old, failures>>
      /\ received' = received \cup {m}
      /\ recorded' = [recorded EXCEPT ![Dst(m)] = @ \cup {m}]
  BY DEF Deliver, startVars
<1>2. SendTyped'
  BY <1>1 DEF SendTyped, senderVars
<1>3. StartTypeOK'
  BY <1>1 DEF StartTypeOK, startVars
<1>4. SendersFit'
  BY <1>1 DEF SendersFit, senderVars
<1>5. CountsFit'
  <2> SUFFICES ASSUME NEW d \in Para
               PROVE  /\ recorded'[d] \subseteq {n \in received' : Dst(n) = d}
                      /\ counts'[d] <= CountOnDst(d)'
    BY DEF CountsFit
  <2>1. recorded'[d] = IF d = Dst(m) THEN recorded[d] \cup {m} ELSE recorded[d]
    BY <1>1 DEF SendTyped
  <2>2. recorded[d] \subseteq {n \in received : Dst(n) = d} /\ counts[d] <= CountOnDst(d)
    BY DEF CountsFit
  <2>3. recorded'[d] \in SUBSET Message /\ recorded[d] \in SUBSET recorded'[d]
    BY <1>2, <2>1 DEF SendTyped
  <2>4. /\ IsFiniteSet(recorded'[d]) /\ Cardinality(recorded'[d]) \in Nat
        /\ Cardinality(recorded[d]) \in Nat
    BY <2>3, CardinalitiesOfMessages
  <2>5. Cardinality(recorded[d]) <= Cardinality(recorded'[d])
    BY <2>3, <2>4, FS_Subset
  <2>6. counts'[d] = counts[d] /\ counts[d] \in Nat /\ old'[d] = old[d] /\ old[d] \in Nat
    BY <1>1, NumAssumption DEF pollVars, SendTyped, StatTypeOK, EvalTypeOK
  <2>7. counts'[d] <= CountOnDst(d)'
    BY <2>2, <2>4, <2>5, <2>6 DEF CountOnDst
  <2> QED
    BY <1>1, <2>1, <2>2, <2>7
<1>6. TimersFit'
  BY <1>1 DEF TimersFit, Recorded, pollVars, SendTyped
<1>7. LatenciesAreOfThisRun'
  BY <1>1 DEF IInv, LatenciesAreOfThisRun, senderVars, statVars
<1> QED
  BY <1>1, <1>2, <1>3, <1>4, <1>5, <1>6, <1>7, SendersLeaveTheRest, SendersAreTyped DEF IInv

----------------------------------------------------------------------------
(* wait_finish *)

PollTyped ==
  /\ counts \in [Para -> Nat]
  /\ at     \in [Para -> {"query", "compare", "ended", "died"}]
  /\ timer  \in [Para -> {"off", "running", "over"}]

\* What the lemmas about waiting take from the invariant.
LEMMA PollFacts ==
  ASSUME IInv
  PROVE  /\ PollTyped /\ SendTyped /\ StartTypeOK /\ SendersFit /\ CountsFit /\ TimersFit
         /\ WaitsAreFresh /\ StatisticsAreFresh /\ NoneDied /\ StatTypeOK
BY DEF IInv, StatTypeOK, EvalTypeOK, SendTyped, PollTyped

\* The steps of main and its threads in wait_finish, and what is left to show of them.
WaitStep ==
  /\ UNCHANGED <<chainVars, senderVars, statVars>>
  /\ UNCHANGED <<protocol, transfer, keys, running, thread>>
  /\ phase \in {"sending", "waiting"} /\ phase' \in {"waiting", "finished"}
  /\ failures' \in 0 .. MaxFailures /\ (failures' = 0 => failures = 0)
  /\ PollTyped'
  /\ \A c \in Para : stage[c] = "done"

\* Waiting changes only what the waiting threads keep.
LEMMA WaitLeavesTheRest ==
  ASSUME IInv, WaitStep
  PROVE  /\ StatTypeOK' /\ WaitsAreFresh' /\ StatisticsAreFresh' /\ SendersFit'
         /\ ReadingFits' /\ LatenciesAreOfThisRun'
<1> USE PollFacts
<1>1. StatTypeOK'
  <2>1. Files' = Files
    BY DEF Files, WaitStep
  <2>2. StartTypeOK'
    BY DEF StartTypeOK, WaitStep
  <2>3. SendTyped'
    BY DEF SendTyped, WaitStep, chainVars, senderVars
  <2>4. PollTyped' /\ phase' \in EvalPhases
    BY DEF WaitStep, EvalPhases
  <2>5. EvalTypeOK'
    BY <2>2, <2>3, <2>4 DEF EvalTypeOK, SendTyped, PollTyped
  <2> QED
    BY <2>1, <2>4, <2>5 DEF StatTypeOK, WaitStep, statVars
<1>2. phase' \notin Early /\ phase' \notin {"statistics", "measured"}
  BY DEF WaitStep, Early, StartPhases
<1>3. StatisticsAreFresh'
  <2>1. phase \in Early \cup {"waiting", "finished"}
    BY DEF WaitStep, Early
  <2> QED
    BY <2>1 DEF StatisticsAreFresh, WaitStep, statVars
<1>4. SendersFit'
  BY DEF SendersFit, WaitStep, chainVars, senderVars
<1> QED
  BY <1>1, <1>2, <1>3, <1>4 DEF WaitsAreFresh, ReadingFits, LatenciesAreOfThisRun

\* All senders have ended: the threads of wait_finish begin with nothing read.
LEMMA JoinStep ==
  ASSUME IInv, Join, UNCHANGED statVars
  PROVE  IInv'
<1> USE PollFacts
<1>1. WaitStep
  BY DEF WaitStep, Join, evalVars, startVars, pollVars, PollTyped, StartTypeOK
<1>2. CountsFit' /\ NoneDied'
  BY DEF Join, evalVars, pollVars, chainVars, startVars, statVars, CountsFit, CountOnDst,
         NoneDied
<1>3. TimersFit'
  <2>1. \A d \in Para : at'[d] = "query" /\ timer'[d] = "off"
    BY DEF Join, Early, WaitsAreFresh, evalVars, pollVars
  <2>2. phase' = "waiting"
    BY DEF Join
  <2> QED
    BY <2>1, <2>2 DEF TimersFit, Recorded
<1> QED
  BY <1>1, <1>2, <1>3, WaitLeavesTheRest DEF IInv

\* Main and the threads are in the phase of waiting.
LEMMA WaitingFacts ==
  ASSUME IInv, phase = "waiting"
  PROVE  /\ \A c \in Para : stage[c] = "done"
         /\ failures \in 0 .. MaxFailures
BY PollFacts DEF SendersFit, Late, StartTypeOK

\* A thread reads the count of one chain, which is at most what was there and what
\* arrived.
LEMMA QueryStep ==
  ASSUME IInv, NEW d \in Para, Query(d), UNCHANGED statVars
  PROVE  IInv'
<1> USE PollFacts
<1>1. phase = "waiting" /\ phase' = phase /\ UNCHANGED <<startVars, chainVars, senderVars, timer>>
  BY DEF Query
<1>2. CountOnDst(d) \in Nat
  <2>1. recorded[d] \in SUBSET Message /\ old[d] \in Nat
    BY NumAssumption DEF SendTyped
  <2> QED
    BY <2>1, CardinalitiesOfMessages DEF CountOnDst
<1>3. PollTyped'
  BY <1>1, <1>2 DEF PollTyped, Query
<1>4. WaitStep
  BY <1>1, <1>3, WaitingFacts DEF WaitStep, startVars
<1>5. \A e \in Para : CountOnDst(e)' = CountOnDst(e)
  BY <1>1 DEF CountOnDst, chainVars
<1>6. CountsFit'
  <2>1. \A e \in Para : counts'[e] = IF e = d THEN CountOnDst(d) ELSE counts[e]
    BY DEF Query, PollTyped
  <2>2. \A e \in Para : counts'[e] <= CountOnDst(e)'
    BY <1>2, <1>5, <2>1 DEF CountsFit
  <2> QED
    BY <1>1, <2>2 DEF CountsFit, chainVars
<1>7. NoneDied' /\ TimersFit'
  <2>1. \A e \in Para : at'[e] = IF e = d THEN "compare" ELSE at[e]
    BY DEF Query, PollTyped
  <2> QED
    BY <1>1, <2>1 DEF NoneDied, TimersFit, Recorded, startVars, statVars, chainVars
<1> QED
  BY <1>4, <1>6, <1>7, WaitLeavesTheRest DEF IInv

\* A thread of wait_finish dies; the sums of the others stay right.
LEMMA QueryRaisesStep ==
  ASSUME IInv, NEW d \in Para, QueryRaises(d), UNCHANGED statVars
  PROVE  IInv'
<1> USE PollFacts
<1>1. /\ phase = "waiting" /\ phase' = phase
      /\ UNCHANGED <<chainVars, senderVars, timer, counts, protocol, transfer, keys,
                     running, thread>>
      /\ failures' \in 0 .. MaxFailures /\ failures' # 0
  BY RaisesIsCounted DEF QueryRaises
<1>2. PollTyped'
  BY <1>1 DEF PollTyped, QueryRaises
<1>3. WaitStep
  BY <1>1, <1>2, WaitingFacts DEF WaitStep
<1>4. CountsFit' /\ NoneDied'
  BY <1>1 DEF CountsFit, CountOnDst, NoneDied, chainVars
<1>5. TimersFit'
  <2>1. \A e \in Para : at'[e] = IF e = d THEN "died" ELSE at[e]
    BY DEF QueryRaises, PollTyped
  <2> QED
    BY <1>1, <2>1 DEF TimersFit, Recorded, chainVars
<1> QED
  BY <1>3, <1>4, <1>5, WaitLeavesTheRest DEF IInv

\* Whoever finds that the sum has reached the target, all has been received.
LEMMA CompareStep ==
  ASSUME IInv, NEW d \in Para, Compare(d), UNCHANGED statVars
  PROVE  IInv'
<1> USE PollFacts
<1>1. /\ phase = "waiting" /\ phase' = phase
      /\ UNCHANGED <<chainVars, senderVars, counts, startVars>>
  BY DEF Compare
<1>2. PollTyped'
  BY <1>1 DEF PollTyped, Compare
<1>3. WaitStep
  BY <1>1, <1>2, WaitingFacts DEF WaitStep, startVars
<1>4. CountsFit'
  BY <1>1 DEF CountsFit, CountOnDst, chainVars
<1>5. \A e \in Para :
        /\ e # d => at'[e] = at[e] /\ timer'[e] = timer[e]
        /\ at'[d] \in {"query", "ended"} /\ (at'[d] = "ended" => timer'[d] = "over")
  BY DEF Compare, PollTyped
<1>6. NoneDied'
  BY <1>1, <1>5 DEF NoneDied, startVars, statVars
<1>7. (\E e \in Para : timer'[e] # "off") /\ (\A e \in Para : old[e] = 0) =>
        received = Message /\ Recorded
  <2>1. CASE timer' = timer
    BY <2>1 DEF TimersFit, Recorded
  <2>2. CASE AllCount >= Target
    BY <2>2, TargetIsReached DEF PollTyped, SendTyped
  <2> QED
    BY <2>1, <2>2 DEF Compare
<1>8. TimersFit'
  <2>1. \A e \in Para : at'[e] = "ended" => timer'[e] = "over"
    BY <1>5 DEF TimersFit, Recorded
  <2> QED
    BY <1>1, <1>7, <2>1 DEF TimersFit, Recorded, chainVars
<1> QED
  BY <1>3, <1>4, <1>6, <1>8, WaitLeavesTheRest DEF IInv

\* wait_finish returns when every thread has ended or died.
LEMMA FinishStep ==
  ASSUME IInv, Finish, UNCHANGED statVars
  PROVE  IInv'
<1> USE PollFacts
<1>1. WaitStep
  BY WaitingFacts DEF WaitStep, Finish, evalVars, startVars, pollVars, PollTyped
<1>2. CountsFit' /\ NoneDied' /\ TimersFit'
  BY DEF Finish, evalVars, pollVars, chainVars, startVars, statVars, CountsFit, CountOnDst,
         NoneDied, TimersFit, Recorded
<1> QED
  BY <1>1, <1>2, WaitLeavesTheRest DEF IInv

\* Ten seconds pass; wait_finish may have ended for another reason.
LEMMA TenSecondsStep ==
  ASSUME IInv, NEW d \in Para, TenSeconds(d), UNCHANGED statVars
  PROVE  IInv'
<1> USE PollFacts
<1>1. UNCHANGED <<chainVars, senderVars, phase, counts, at, startVars, statVars>>
  BY DEF TenSeconds
<1>2. \A e \in Para : /\ e # d => timer'[e] = timer[e]
                      /\ timer[d] = "running" /\ timer'[d] = "over"
  BY DEF TenSeconds, PollTyped
<1>3. PollTyped' /\ SendTyped' /\ StartTypeOK' /\ Files' = Files
  BY <1>1 DEF TenSeconds, PollTyped, SendTyped, StartTypeOK, Files, chainVars, senderVars,
              startVars
<1>4. StatTypeOK'
  <2>1. EvalTypeOK'
    BY <1>3 DEF EvalTypeOK, PollTyped, SendTyped
  <2> QED
    BY <1>1, <1>3, <2>1 DEF StatTypeOK, statVars
<1>5. WaitsAreFresh' /\ StatisticsAreFresh'
  BY <1>1, <1>2 DEF WaitsAreFresh, StatisticsAreFresh, statVars
<1>6. SendersFit' /\ CountsFit' /\ NoneDied'
  BY <1>1 DEF SendersFit, CountsFit, CountOnDst, NoneDied, chainVars, senderVars, startVars,
              statVars
<1>7. TimersFit'
  BY <1>1, <1>2 DEF TimersFit, Recorded, chainVars
<1>8. ReadingFits' /\ LatenciesAreOfThisRun'
  BY <1>1 DEF IInv, ReadingFits, LatenciesAreOfThisRun, senderVars, startVars, statVars
<1> QED
  BY <1>4, <1>5, <1>6, <1>7, <1>8 DEF IInv

\* Every step up to the end of wait_finish keeps the invariant.
LEMMA NextStep ==
  ASSUME IInv, Next, UNCHANGED statVars
  PROVE  IInv'
<1>1. CASE /\ TorStarts \/ AorToRelay \/ AorFromRelay \/ NorPairs \/ StartRaises
           /\ UNCHANGED evalVars
  BY <1>1, ToRelayStep, FromRelayStep, PairStep, RaisesStep, OutsideStep
     DEF TorStarts, AorToRelay, AorFromRelay, NorPairs
<1>2. ASSUME NEW c \in Para, Sender(c) \/ SenderRaises(c) PROVE IInv'
  BY <1>2, ResetStep, SenderGoesOn, SenderRaisesStep DEF Sender
<1>3. CASE Join
  BY <1>3, JoinStep
<1>4. CASE Waits
  BY <1>4, FinishStep, QueryStep, QueryRaisesStep, CompareStep, TenSecondsStep DEF Waits
<1>5. CASE Environment
  <2>1. ASSUME NEW d \in Para \cup {Relay}, Seal(d), UNCHANGED evalVars PROVE IInv'
    BY <2>1, RaisesStep, OutsideStep DEF Chain
  <2>2. ASSUME NEW g \in running, GatewayRaises(g) PROVE IInv'
    <3>1. UNCHANGED evalVars
      BY <2>2 DEF GatewayRaises
    <3> QED
      BY <2>2, <3>1, RaisesStep, OutsideStep
  <2> QED
    BY <1>5, <2>1, <2>2, ExecuteSendStep, DeliverStep DEF Environment
<1> QED
  BY <1>1, <1>2, <1>3, <1>4, <1>5
     DEF Next, Evaluation, TorSends, AorSends, NorSends, TorWaits, AorWaits, NorWaits

----------------------------------------------------------------------------
(* statistical, pkill and statistical_info *)

Reading ==
  /\ query   \in [Chain -> {"count", "records", "died"}]
  /\ todo    \in [Chain -> SUBSET (Message \X {"earlier", "this"})]
  /\ latency \in [Message -> Times]
  /\ info    \in [UNION Files -> {"none", "earlier", "torn", "this"}]
  /\ unread  \subseteq DOMAIN info

StatFacts ==
  /\ StatTypeOK /\ EvalTypeOK /\ Reading /\ StartTypeOK /\ SendersFit /\ CountsFit
  /\ TimersFit /\ StatisticsAreFresh /\ NoneDied /\ ReadingFits /\ LatenciesAreOfThisRun

\* What the lemmas about statistics take from the invariant.
LEMMA IInvIsKnown ==
  ASSUME IInv
  PROVE  StatFacts
BY DEF IInv, StatFacts, StatTypeOK, EvalTypeOK, Reading

AfterWait == {"finished", "statistics", "measured", "killed"}

\* The steps that follow wait_finish, and what is left to show of them.
StatStep ==
  /\ UNCHANGED <<evalVars, protocol, transfer, keys, thread>>
  /\ running' \subseteq running
  /\ phase \in AfterWait
  /\ phase' \in {"statistics", "measured", "killed", "done", "failed"}
  /\ failures' \in 0 .. MaxFailures /\ (failures' = 0 => failures = 0)
  /\ Reading'

\* Statistics change nothing that the evaluation itself has left.
LEMMA StatLeavesTheRest ==
  ASSUME IInv, StatStep
  PROVE  /\ StatTypeOK' /\ WaitsAreFresh' /\ StatisticsAreFresh' /\ SendersFit'
         /\ CountsFit' /\ TimersFit'
<1> USE IInvIsKnown DEF evalVars, chainVars, senderVars, pollVars
<1>1. phase' \notin Early /\ phase' \notin {"waiting", "finished"} /\ phase' \in Late
  BY DEF StatStep, Early, Late, StartPhases
<1>2. phase \in Late /\ phase # "waiting" /\ phase' # "waiting"
  BY DEF StatStep, AfterWait, Late
<1>3. StatTypeOK'
  <2>1. StartTypeOK'
    BY DEF StatStep, StartTypeOK, StatFacts
  <2>2. EvalTypeOK'
    BY <2>1 DEF StatStep, EvalTypeOK, StatFacts
  <2> QED
    BY <2>2 DEF StatStep, StatTypeOK, Reading
<1>4. WaitsAreFresh' /\ StatisticsAreFresh'
  BY <1>1 DEF WaitsAreFresh, StatisticsAreFresh
<1>5. SendersFit'
  BY <1>1, <1>2 DEF SendersFit, StatStep, StatFacts
<1>6. CountsFit'
  BY DEF CountsFit, CountOnDst, StatStep, StatFacts
<1>7. TimersFit'
  BY <1>1, <1>2 DEF TimersFit, Recorded, StatStep, StatFacts
<1> QED
  BY <1>3, <1>4, <1>5, <1>6, <1>7

\* Nothing has failed: the wait has ended because all was received and recorded.
LEMMA AllIsReceived ==
  ASSUME IInv, phase \in AfterWait, failures = 0
  PROVE  /\ received = Message /\ Recorded
         /\ \A d \in Para : old[d] = 0 /\ payloads[d] = "this"
<1> USE IInvIsKnown DEF StatFacts
<1>1. phase \in Late \ {"waiting"}
  BY DEF AfterWait, Late
<1>2. \A c \in Para : stage[c] = "done" /\ old[c] = 0 /\ payloads[c] = "this"
  BY <1>1 DEF SendersFit
<1>3. \A d \in Para : at[d] = "ended" /\ timer[d] # "off"
  BY <1>1 DEF TimersFit, Recorded, NoneDied
<1>4. Para # {}
  <2>1. 1 \in Para
    BY SeveralParachains DEF Para
  <2> QED
    BY <2>1
<1> QED
  BY <1>2, <1>3, <1>4 DEF TimersFit, Recorded

\* main reads the payload files, and statistics begin if every one is there.
LEMMA ReadPayloadsStep ==
  ASSUME IInv, ReadPayloads
  PROVE  IInv'
<1> USE IInvIsKnown DEF StatFacts
<1>1. /\ UNCHANGED <<evalVars, startVars, statVars>>
      /\ phase = "finished" /\ phase' \in {"statistics", "failed"}
  BY DEF ReadPayloads
<1>2. Reading'
  BY <1>1 DEF Reading, statVars, startVars, Files
<1>3. StatStep
  BY <1>1, <1>2 DEF StatStep, AfterWait, startVars, StartTypeOK
<1>4. NoneDied'
  BY <1>1 DEF NoneDied, evalVars, pollVars, startVars, statVars
<1>5. ReadingFits'
  <2>1. \A d \in Chain : query'[d] = "count" /\ todo'[d] = {}
    BY <1>1 DEF StatisticsAreFresh, statVars
  <2> QED
    BY <2>1, ForParachains DEF ReadingFits, Chain
<1>6. LatenciesAreOfThisRun'
  BY <1>1 DEF LatenciesAreOfThisRun
<1> QED
  BY <1>3, <1>4, <1>5, <1>6, StatLeavesTheRest DEF IInv

\* What a thread of statistical finds on its chain when nothing has failed: no record
\* of an earlier evaluation, and one of every message that its chain is to receive.
LEMMA RecordsAreOfThisRun ==
  ASSUME IInv, failures = 0, phase = "statistics", NEW d \in Chain, NEW E \in Earlier(d)
  PROVE  /\ E = {}
         /\ \A m \in Message : Dst(m) = d => m \in RecordsOf(d)
<1> USE IInvIsKnown DEF StatFacts
<1>1. /\ \A c \in Para : old[c] = 0
      /\ Recorded
  BY AllIsReceived DEF AfterWait
<1>2. CASE d = Relay
  <2>1. E = {}
    BY <1>2 DEF Earlier
  <2>2. Relay \notin Para
    BY DEF Relay, Para
  <2> QED
    BY <1>2, <2>1, <2>2, ForParachains
<1>3. CASE d # Relay
  <2>1. d \in Para
    BY <1>3 DEF Chain
  <2>2. E \in SUBSET Message /\ Cardinality(E) = 0
    BY <1>1, <1>3, <2>1 DEF Earlier
  <2>3. E = {}
    BY <2>2, CardinalitiesOfMessages, FS_EmptySet
  <2>4. \A m \in Message : Dst(m) = d => m \in RecordsOf(d)
    BY <1>1, <1>3, <2>1 DEF Recorded, RecordsOf
  <2> QED
    BY <2>3, <2>4
<1> QED
  BY <1>2, <1>3

\* A thread of statistical asks for the messages of its chain: those of this run and
\* those left there.
LEMMA QueryCountStep ==
  ASSUME IInv, NEW d \in Chain, QueryCount(d)
  PROVE  IInv'
<1> USE IInvIsKnown DEF StatFacts
<1>1. /\ UNCHANGED <<evalVars, startVars, phase, latency, info, unread>>
      /\ phase = "statistics" /\ query[d] = "count"
      /\ query' = [query EXCEPT ![d] = "records"]
  BY DEF QueryCount
<1>2. PICK E \in Earlier(d) :
        todo' = [todo EXCEPT ![d] = (E \X {"earlier"}) \cup (RecordsOf(d) \X {"this"})]
  BY DEF QueryCount
<1>3. E \in SUBSET Message /\ RecordsOf(d) \in SUBSET Message
  BY DEF Earlier, RecordsOf, EvalTypeOK, Chain
<1>4. Reading'
  <2>1. (E \X {"earlier"}) \cup (RecordsOf(d) \X {"this"})
          \in SUBSET (Message \X {"earlier", "this"})
    BY <1>3
  <2>2. todo' \in [Chain -> SUBSET (Message \X {"earlier", "this"})]
    BY <1>2, <2>1 DEF Reading
  <2> QED
    BY <1>1, <2>2 DEF Reading, startVars, Files
<1>5. StatStep
  BY <1>1, <1>4 DEF StatStep, AfterWait, startVars, StartTypeOK
<1>6. NoneDied'
  BY <1>1 DEF NoneDied, Reading, evalVars, pollVars, startVars
<1>7. ReadingFits'
  <2> SUFFICES ASSUME failures' = 0
               PROVE  /\ \A e \in Chain : \A r \in todo'[e] : r[2] = "this"
                      /\ \A m \in Message :
                           query'[Dst(m)] = "records" =>
                             <<m, "this">> \in todo'[Dst(m)] \/ latency'[m] = "this"
    BY DEF ReadingFits
  <2>1. failures = 0
    BY <1>1 DEF startVars
  <2>2. /\ E = {}
        /\ \A m \in Message : Dst(m) = d => m \in RecordsOf(d)
    BY <1>1, <2>1, RecordsAreOfThisRun
  <2>3. /\ \A e \in Chain : \A r \in todo[e] : r[2] = "this"
        /\ \A m \in Message :
             query[Dst(m)] = "records" =>
               <<m, "this">> \in todo[Dst(m)] \/ latency[m] = "this"
    BY <1>1, <2>1 DEF ReadingFits
  <2>4. /\ \A e \in Chain : e # d => todo'[e] = todo[e] /\ query'[e] = query[e]
        /\ todo'[d] = RecordsOf(d) \X {"this"}
        /\ latency' = latency
    BY <1>1, <1>2, <2>2 DEF Reading
  <2>5. ASSUME NEW e \in Chain, NEW r \in todo'[e] PROVE r[2] = "this"
    BY <2>3, <2>4
  <2>6. ASSUME NEW m \in Message, query'[Dst(m)] = "records"
        PROVE  <<m, "this">> \in todo'[Dst(m)] \/ latency'[m] = "this"
    <3>1. Dst(m) \in Chain
      BY ForParachains DEF Chain
    <3>2. CASE Dst(m) = d
      BY <2>2, <2>4, <3>2
    <3>3. CASE Dst(m) # d
      BY <2>3, <2>4, <2>6, <3>1, <3>3
    <3> QED
      BY <3>2, <3>3
  <2> QED
    BY <2>5, <2>6
<1>8. LatenciesAreOfThisRun'
  BY <1>1 DEF LatenciesAreOfThisRun
<1> QED
  BY <1>5, <1>6, <1>7, <1>8, StatLeavesTheRest DEF IInv

\* A record that is read makes or replaces a latency, of this run like the record.
LEMMA QueryRecordStep ==
  ASSUME IInv, NEW d \in Chain, QueryRecord(d)
  PROVE  IInv'
<1> USE IInvIsKnown DEF StatFacts
<1>1. /\ UNCHANGED <<evalVars, startVars, phase, query, info, unread>>
      /\ phase = "statistics" /\ query[d] = "records"
  BY DEF QueryRecord
<1>2. PICK r \in todo[d] :
        /\ latency' = [latency EXCEPT ![r[1]] = r[2]]
        /\ todo'    = [todo EXCEPT ![d] = @ \ {r}]
  BY DEF QueryRecord
<1>3. r \in Message \X {"earlier", "this"}
  BY DEF Reading
<1>4. Reading'
  <2>1. r[2] \in Times
    BY <1>3 DEF Times
  <2>2. latency' \in [Message -> Times]
    BY <1>2, <2>1 DEF Reading
  <2>3. todo' \in [Chain -> SUBSET (Message \X {"earlier", "this"})]
    BY <1>2 DEF Reading
  <2> QED
    BY <1>1, <2>2, <2>3 DEF Reading, startVars, Files
<1>5. StatStep
  BY <1>1, <1>4 DEF StatStep, AfterWait, startVars, StartTypeOK
<1>6. NoneDied'
  BY <1>1 DEF NoneDied, evalVars, pollVars, startVars
<1>7. ReadingFits'
  <2> SUFFICES ASSUME failures' = 0
               PROVE  /\ \A e \in Chain : \A q \in todo'[e] : q[2] = "this"
                      /\ \A m \in Message :
                           query'[Dst(m)] = "records" =>
                             <<m, "this">> \in todo'[Dst(m)] \/ latency'[m] = "this"
    BY DEF ReadingFits
  <2>1. /\ \A e \in Chain : \A q \in todo[e] : q[2] = "this"
        /\ \A m \in Message :
             query[Dst(m)] = "records" =>
               <<m, "this">> \in todo[Dst(m)] \/ latency[m] = "this"
    BY <1>1 DEF ReadingFits, startVars
  <2>2. \A e \in Chain : todo'[e] = IF e = d THEN todo[d] \ {r} ELSE todo[e]
    BY <1>2 DEF Reading
  <2>3. ASSUME NEW e \in Chain, NEW q \in todo'[e] PROVE q[2] = "this"
    BY <2>1, <2>2
  <2>4. ASSUME NEW m \in Message, query'[Dst(m)] = "records"
        PROVE  <<m, "this">> \in todo'[Dst(m)] \/ latency'[m] = "this"
    <3>1. Dst(m) \in Chain /\ r[2] = "this"
      BY <2>1, ForParachains DEF Chain
    <3>2. latency'[m] = IF m = r[1] THEN r[2] ELSE latency[m]
      BY <1>2 DEF Reading
    <3>3. CASE m = r[1]
      BY <3>1, <3>2, <3>3
    <3>4. CASE m # r[1]
      <4>1. <<m, "this">> # r
        BY <3>4
      <4> QED
        BY <1>1, <2>1, <2>2, <2>4, <3>1, <3>2, <3>4, <4>1
    <3> QED
      BY <3>3, <3>4
  <2> QED
    BY <2>3, <2>4
<1>8. LatenciesAreOfThisRun'
  BY <1>1 DEF LatenciesAreOfThisRun
<1> QED
  BY <1>5, <1>6, <1>7, <1>8, StatLeavesTheRest DEF IInv

\* A thread of statistical dies, and the run counts as one in which something died.
LEMMA StatThreadRaisesStep ==
  ASSUME IInv, NEW d \in Chain, StatThreadRaises(d)
  PROVE  IInv'
<1> USE IInvIsKnown DEF StatFacts
<1>1. /\ UNCHANGED <<evalVars, protocol, phase, transfer, keys, running, thread>>
      /\ UNCHANGED <<todo, latency, info, unread>>
      /\ phase = "statistics" /\ query' = [query EXCEPT ![d] = "died"]
      /\ failures' \in 0 .. MaxFailures /\ failures' # 0
  BY RaisesIsCounted DEF StatThreadRaises
<1>2. Reading'
  BY <1>1 DEF Reading, Files
<1>3. StatStep
  BY <1>1, <1>2 DEF StatStep, AfterWait
<1>4. NoneDied' /\ ReadingFits' /\ LatenciesAreOfThisRun'
  BY <1>1 DEF NoneDied, ReadingFits, LatenciesAreOfThisRun
<1> QED
  BY <1>3, <1>4, StatLeavesTheRest DEF IInv

\* When all has been read and no thread has died, each latency is of this run.
LEMMA MeasureStep ==
  ASSUME IInv, Measure
  PROVE  IInv'
<1> USE IInvIsKnown DEF StatFacts
<1>1. /\ UNCHANGED <<evalVars, startVars, statVars>>
      /\ phase = "statistics" /\ phase' \in {"failed", "measured"}
      /\ \A d \in Chain : query[d] = "died" \/ (query[d] = "records" /\ todo[d] = {})
  BY DEF Measure
<1>2. Reading'
  BY <1>1 DEF Reading, statVars, startVars, Files
<1>3. StatStep
  BY <1>1, <1>2 DEF StatStep, AfterWait, startVars, StartTypeOK
<1>4. NoneDied' /\ ReadingFits'
  BY <1>1 DEF NoneDied, ReadingFits, evalVars, pollVars, startVars, statVars
<1>5. LatenciesAreOfThisRun'
  <2> SUFFICES ASSUME failures' = 0, NEW m \in Message
               PROVE  payloads'[m[1]] = "this" /\ latency'[m] = "this"
    BY DEF LatenciesAreOfThisRun
  <2>1. failures = 0 /\ payloads' = payloads /\ latency' = latency
    BY <1>1 DEF startVars, evalVars, senderVars, statVars
  <2>2. Dst(m) \in Chain /\ m[1] \in Para
    BY ForParachains DEF Chain, Message
  <2>3. query[Dst(m)] = "records" /\ todo[Dst(m)] = {}
    BY <1>1, <2>1, <2>2 DEF NoneDied
  <2>4. latency[m] = "this"
    BY <1>1, <2>1, <2>3 DEF ReadingFits
  <2>5. payloads[m[1]] = "this"
    BY <1>1, <2>1, <2>2, AllIsReceived DEF AfterWait
  <2> QED
    BY <2>1, <2>4, <2>5
<1> QED
  BY <1>3, <1>4, <1>5, StatLeavesTheRest DEF IInv

\* The collectors are killed, wherever they are in writing their files.
LEMMA KillStep ==
  ASSUME IInv, phase \in {"finished", "measured"}, Kill
  PROVE  IInv'
<1> USE IInvIsKnown DEF StatFacts
<1>1. /\ UNCHANGED <<evalVars, startVars, unread>> /\ phase' = "killed"
      /\ info' \in [DOMAIN info -> {Leftover, "torn", "this"}]
      /\ latency' = [m \in Message |-> "none"]
      /\ query'   = [e \in Chain |-> "count"]
      /\ todo'    = [e \in Chain |-> {}]
  BY DEF Kill
<1>2. Reading'
  <2>1. info' \in [UNION Files -> {"none", "earlier", "torn", "this"}]
    BY <1>1 DEF Reading, Leftover
  <2>2. Files' = Files
    BY <1>1 DEF Files, startVars
  <2> QED
    BY <1>1, <2>1, <2>2 DEF Reading, Times
<1>3. StatStep
  BY <1>1, <1>2 DEF StatStep, AfterWait, startVars, StartTypeOK
<1>4. NoneDied' /\ ReadingFits' /\ LatenciesAreOfThisRun'
  BY <1>1 DEF NoneDied, ReadingFits, LatenciesAreOfThisRun, evalVars, pollVars, startVars
<1> QED
  BY <1>3, <1>4, StatLeavesTheRest DEF IInv

\* The files of the collectors, the end of the gateways, and that of main.
LEMMA KilledStep ==
  ASSUME IInv, \/ ReadInfo \/ Average
               \/ \E g \in running : CollectorWrites(g) \/ Dies(g)
  PROVE  IInv'
<1> USE IInvIsKnown DEF StatFacts
<1>1. /\ UNCHANGED <<evalVars, protocol, transfer, keys, thread, failures>>
      /\ UNCHANGED <<query, todo, latency>>
      /\ running' \subseteq running
      /\ phase = "killed" /\ phase' \in {"killed", "done", "failed"}
  BY DEF ReadInfo, Average, CollectorWrites, Dies, startVars, statVars
<1>2. /\ info' \in [UNION Files -> {"none", "earlier", "torn", "this"}]
      /\ unread' \subseteq DOMAIN info'
  <2>1. CASE ReadInfo \/ Average \/ \E g \in running : Dies(g)
    BY <2>1 DEF ReadInfo, Average, Dies, statVars, Reading
  <2>2. ASSUME NEW g \in running, CollectorWrites(g)
        PROVE  /\ info' \in [UNION Files -> {"none", "earlier", "torn", "this"}]
               /\ unread' \subseteq DOMAIN info'
    BY <2>2 DEF CollectorWrites, Reading
  <2> QED
    BY <2>1, <2>2
<1>3. Reading'
  BY <1>1, <1>2 DEF Reading, Files
<1>4. StatStep
  BY <1>1, <1>3 DEF StatStep, AfterWait, StartTypeOK
<1>5. NoneDied' /\ ReadingFits' /\ LatenciesAreOfThisRun'
  BY <1>1 DEF NoneDied, ReadingFits, LatenciesAreOfThisRun, evalVars, pollVars
<1> QED
  BY <1>4, <1>5, StatLeavesTheRest DEF IInv

\* Every step keeps the invariant.
LEMMA StepIsGood == IInv /\ [StatNext]_allVars => IInv'
<1> SUFFICES ASSUME IInv, [StatNext]_allVars PROVE IInv'
  OBVIOUS
<1>1. CASE Next /\ UNCHANGED statVars
  BY <1>1, NextStep
<1>2. CASE ReadPayloads \/ Measure
  BY <1>2, ReadPayloadsStep, MeasureStep
<1>3. CASE TorKill \/ AorKill \/ NorKill
  BY <1>3, KillStep DEF TorKill, AorKill, NorKill
<1>4. CASE \/ ReadInfo \/ Average
           \/ \E g \in running : CollectorWrites(g) \/ Dies(g)
  BY <1>4, KilledStep
<1>5. CASE \E d \in Chain : QueryCount(d) \/ QueryRecord(d) \/ StatThreadRaises(d)
  BY <1>5, QueryCountStep, QueryRecordStep, StatThreadRaisesStep
<1>6. CASE UNCHANGED allVars
  <2>1. UNCHANGED <<evalVars, statVars, protocol, phase, startVars>>
    BY <1>6 DEF allVars, vars, startVars
  <2>2. Outside
    BY <2>1 DEF Outside, startVars, IInv, StatTypeOK, EvalTypeOK, StartTypeOK
  <2> QED
    BY <2>2, OutsideStep
<1> QED
  BY <1>1, <1>2, <1>3, <1>4, <1>5, <1>6 DEF StatNext

----------------------------------------------------------------------------
(* Theorems. *)

\* The inductive invariant: what senders, threads and main have left behind, whatever
\* of them has died, in the evaluations of all three protocols (scheduler.py of tor,
\* aor and nor).
THEOREM EvaluationInductive == StatSpec => []IInv
BY InitIsGood, StepIsGood, PTL DEF StatSpec

\* Types are kept by every action of the three schedulers, with any number of
\* parachains, messages, leftovers and exceptions.
THEOREM EvaluationTypeCorrect == StatSpec => []StatTypeOK
<1>1. IInv => StatTypeOK
  BY DEF IInv
<1> QED
  BY <1>1, EvaluationInductive, PTL

\* wait_finish (relayer/tor/scheduler.py) returns only when every message has been
\* received, with any number of parachains and messages and although each thread
\* adds up counts read at different moments, unless all of its threads have died or
\* a chain has not been reset.
THEOREM Finished == StatSpec => []FinishedMeansReceived
<1>1. IInv => FinishedMeansReceived
  <2> SUFFICES ASSUME IInv, phase = "finished",
                      ~ \A d \in Para : at[d] = "died",
                      ~ \E d \in Para : old[d] # 0
               PROVE  received = Message
    BY DEF FinishedMeansReceived
  <2>1. PICK d \in Para : at[d] # "died"
    OBVIOUS
  <2>2. at[d] = "ended" /\ timer[d] = "over"
    BY <2>1 DEF IInv, TimersFit, Recorded, Late
  <2> QED
    BY <2>2 DEF IInv, TimersFit, Recorded
<1> QED
  BY <1>1, EvaluationInductive, PTL

\* AoR's statistical (relayer/aor/scheduler.py) has a time of this evaluation for both
\* ends of every message's latency when nothing has failed, although the files and
\* the chains' records of an earlier evaluation have the same keys.
THEOREM Latencies == StatSpec => []LatenciesAreOfThisRun
<1>1. IInv => LatenciesAreOfThisRun
  BY DEF IInv
<1> QED
  BY <1>1, EvaluationInductive, PTL

----------------------------------------------------------------------------
(* The accounts of the gateways. *)

(* What the property rests on: keys are kept with money that is on its way, *)
(* and those of the gateways from the relay chain with money that is there. *)
MoneyTypeOK ==
  /\ transfer \in [Funded -> {"none", "sent", "sealed"}]
  /\ keys \subseteq Funded /\ running \subseteq Funded

KeysHaveMoney ==
  \A g \in keys :
    transfer[g] # "none" /\ (g[1] = Relay => transfer[g] = "sealed")

MoneyInv == MoneyTypeOK /\ KeysHaveMoney /\ GatewaysHaveMoney

(* Money that is on its way stays so, or is there; nothing is taken back. *)
MoneyStays ==
  /\ transfer' \in [Funded -> {"none", "sent", "sealed"}]
  /\ \A g \in Funded :
       /\ transfer[g] # "none" => transfer'[g] # "none"
       /\ transfer[g] = "sealed" => transfer'[g] = "sealed"

(* A block of a chain. *)
LEMMA SealKeepsMoney ==
  ASSUME MoneyTypeOK, NEW d, SealTransfers(d)
  PROVE  MoneyStays
BY DEF MoneyTypeOK, SealTransfers, MoneyStays

(* The transfers to the accounts of a gateway. *)
LEMMA SendKeepsMoney ==
  ASSUME MoneyTypeOK, NEW g \in Funded, SendTransfers(g)
  PROVE  MoneyStays /\ transfer'[g] = "sent"
BY DEF MoneyTypeOK, SendTransfers, MoneyStays

(* A step that keeps no key and launches no gateway. *)
LEMMA NothingNew ==
  ASSUME MoneyInv, MoneyStays, keys' = keys, running' \subseteq running
  PROVE  MoneyInv'
BY DEF MoneyInv, MoneyTypeOK, MoneyStays, KeysHaveMoney, GatewaysHaveMoney

(* A step that does not touch the accounts at all. *)
LEMMA NoTransfer ==
  ASSUME MoneyInv, transfer' = transfer, keys' = keys, running' \subseteq running
  PROVE  MoneyInv'
<1>1. MoneyStays
  BY DEF MoneyInv, MoneyTypeOK, MoneyStays
<1> QED
  BY <1>1, NothingNew

(* A step that keeps the keys of one gateway, not from the relay chain or with *)
(* money that is there.                                                        *)
LEMMA KeepKey ==
  ASSUME MoneyInv, MoneyStays, NEW g \in Funded,
         keys' = keys \cup {g}, running' = running,
         transfer'[g] # "none", g[1] = Relay => transfer'[g] = "sealed"
  PROVE  MoneyInv'
BY DEF MoneyInv, MoneyTypeOK, MoneyStays, KeysHaveMoney, GatewaysHaveMoney

(* A step that launches gateways with money. *)
LEMMA Launches ==
  ASSUME MoneyInv, NEW G \in SUBSET Funded, transfer' = transfer, keys' = keys,
         running' = running \cup G,
         \A g \in G : IF Relay \in {g[1], g[2]} THEN transfer[g] = "sealed"
                      ELSE transfer[g] # "none"
  PROVE  MoneyInv'
BY DEF MoneyInv, MoneyTypeOK, KeysHaveMoney, GatewaysHaveMoney

(* The functions of the three schedulers, one action after the other. *)
LEMMA StartKeeps ==
  ASSUME MoneyInv, ToRelaySteps \/ FromRelaySteps \/ PairSteps
  PROVE  MoneyInv'
<1> USE KindsAreFunded
<1>0. MoneyTypeOK /\ KeysHaveMoney
  BY DEF MoneyInv
<1>1. CASE FundToRelay
  <2>1. PICK s \in Para : SendTransfers(<<s, Relay>>) /\ keys' = keys \cup {<<s, Relay>>}
    BY <1>1 DEF FundToRelay
  <2>2. <<s, Relay>> \in Funded /\ <<s, Relay>>[1] # Relay /\ running' = running
    <3>1. <<s, Relay>> \in Funded
      BY DEF Funded, ToRelay
    <3>2. s # Relay
      BY DEF Relay, Para
    <3>3. running' = running
      BY <1>1 DEF FundToRelay
    <3> QED
      BY <3>1, <3>2, <3>3
  <2>3. MoneyStays /\ transfer'[<<s, Relay>>] # "none"
    BY <1>0, <2>1, <2>2, SendKeepsMoney
  <2> QED
    BY <2>1, <2>2, <2>3, KeepKey
<1>2. CASE LaunchToRelay
  <2>1. /\ transfer' = transfer /\ keys' = keys /\ running' = running \cup ToRelay
        /\ \A g \in ToRelay : transfer[g] = "sealed"
    BY <1>2 DEF LaunchToRelay, AllSealed
  <2> QED
    BY <2>1, Launches
<1>3. CASE LaunchFromRelay
  <2>1. transfer' = transfer /\ keys' = keys
    BY <1>3 DEF LaunchFromRelay
  <2>2. CASE FromRelay \subseteq keys
    <3>1. running' = running \cup FromRelay
      BY <1>3, <2>2 DEF LaunchFromRelay, LaunchAll
    <3>2. \A g \in FromRelay : transfer[g] = "sealed"
      BY <1>0, <2>2 DEF KeysHaveMoney
    <3> QED
      BY <2>1, <3>1, <3>2, Launches
  <2>3. CASE ~(FromRelay \subseteq keys)
    <3>1. running' = running
      BY <1>3, <2>3 DEF LaunchFromRelay, LaunchAll
    <3> QED
      BY <2>1, <3>1, NoTransfer
  <2> QED
    BY <2>2, <2>3
<1>4. ASSUME NEW d \in Para, FundFromRelay(d) PROVE MoneyInv'
  <2>1. SendTransfers(<<Relay, d>>) /\ keys' = keys /\ running' = running
    BY <1>4 DEF FundFromRelay
  <2>2. <<Relay, d>> \in Funded
    BY DEF Funded, FromRelay
  <2>3. MoneyStays
    BY <1>0, <2>1, <2>2, SendKeepsMoney
  <2> QED
    BY <2>1, <2>3, NothingNew
<1>5. ASSUME NEW d \in Para, ReceiptsFromRelay(d) PROVE MoneyInv'
  <2>1. /\ transfer' = transfer /\ running' = running
        /\ keys' = keys \cup {<<Relay, d>>} /\ transfer[<<Relay, d>>] = "sealed"
    BY <1>5 DEF ReceiptsFromRelay, AllSealed
  <2>2. <<Relay, d>> \in Funded
    BY DEF Funded, FromRelay
  <2>3. MoneyStays
    BY <1>0, <2>1 DEF MoneyTypeOK, MoneyStays
  <2> QED
    BY <2>1, <2>2, <2>3, KeepKey
<1>6. CASE LaunchPairs
  <2>1. transfer' = transfer /\ keys' = keys
    BY <1>6 DEF LaunchPairs
  <2>2. CASE Pairs \subseteq keys
    <3>1. running' = running \cup Pairs
      BY <1>6, <2>2 DEF LaunchPairs, LaunchAll
    <3>2. \A g \in Pairs : transfer[g] # "none" /\ Relay \notin {g[1], g[2]}
      BY <1>0, <2>2 DEF KeysHaveMoney
    <3> QED
      BY <2>1, <3>1, <3>2, Launches
  <2>3. CASE ~(Pairs \subseteq keys)
    <3>1. running' = running
      BY <1>6, <2>3 DEF LaunchPairs, LaunchAll
    <3> QED
      BY <2>1, <3>1, NoTransfer
  <2> QED
    BY <2>2, <2>3
<1>7. ASSUME NEW d \in Para, FundPair(d) PROVE MoneyInv'
  <2>1. PICK s \in Para : SendTransfers(<<s, d>>) /\ keys' = keys \cup {<<s, d>>}
    BY <1>7 DEF FundPair
  <2>2. <<s, d>> \in Funded /\ <<s, d>>[1] # Relay /\ running' = running
    BY <1>7 DEF FundPair, Funded, Relay, Para
  <2>3. MoneyStays /\ transfer'[<<s, d>>] # "none"
    BY <1>0, <2>1, <2>2, SendKeepsMoney
  <2> QED
    BY <2>1, <2>2, <2>3, KeepKey
<1>8. ASSUME NEW d \in Para, ReceiptsPairs(d) PROVE MoneyInv'
  BY <1>8, NoTransfer DEF ReceiptsPairs
<1> QED
  BY <1>1, <1>2, <1>3, <1>4, <1>5, <1>6, <1>7, <1>8
     DEF ToRelaySteps, FromRelaySteps, PairSteps

(* The sending processes: only the reset's block matters. *)
LEMMA SenderKeeps ==
  ASSUME MoneyInv, NEW c \in Para, Sender(c) \/ SenderRaises(c)
  PROVE  MoneyInv'
<1>1. CASE Reset(c)
  <2>1. SealTransfers(c) /\ keys' = keys /\ running' = running
    BY <1>1 DEF Reset
  <2>2. MoneyStays
    BY <2>1, SealKeepsMoney DEF MoneyInv
  <2> QED
    BY <2>1, <2>2, NothingNew
<1>2. CASE ResetReceipt(c) \/ Send(c) \/ SendEnd(c) \/ Receipts(c) \/ SenderRaises(c)
  <2>1. transfer' = transfer /\ keys' = keys /\ running' = running
    BY <1>2 DEF ResetReceipt, Send, SendEnd, Receipts, SenderRaises, startVars
  <2> QED
    BY <2>1, NoTransfer
<1> QED
  BY <1>1, <1>2 DEF Sender

\* Waiting does not touch accounts and keys.
LEMMA WaitsKeeps ==
  ASSUME MoneyInv, Waits
  PROVE  MoneyInv'
<1>1. transfer' = transfer /\ keys' = keys /\ running' = running
  BY DEF Waits, Finish, Query, QueryRaises, Compare, TenSeconds, startVars
<1> QED
  BY <1>1, NoTransfer

\* Nor do the senders and main of the evaluation.
LEMMA EvaluationKeeps ==
  ASSUME MoneyInv, Evaluation
  PROVE  MoneyInv'
<1>1. CASE TorStarts \/ AorToRelay \/ AorFromRelay \/ NorPairs
  BY <1>1, StartKeeps DEF TorStarts, AorToRelay, AorFromRelay, NorPairs
<1>2. CASE StartRaises
  <2>1. transfer' = transfer /\ keys' = keys /\ running' = running
    BY <1>2 DEF StartRaises, ToRelayRaises, ThreadRaises
  <2> QED
    BY <2>1, NoTransfer
<1>3. CASE TorSends \/ AorSends \/ NorSends
  BY <1>3, SenderKeeps DEF TorSends, AorSends, NorSends
<1>4. CASE Join
  <2>1. transfer' = transfer /\ keys' = keys /\ running' = running
    BY <1>4 DEF Join, startVars
  <2> QED
    BY <2>1, NoTransfer
<1>5. CASE TorWaits \/ AorWaits \/ NorWaits
  BY <1>5, WaitsKeeps DEF TorWaits, AorWaits, NorWaits
<1> QED
  BY <1>1, <1>2, <1>3, <1>4, <1>5 DEF Evaluation

\* Blocks, deliveries and the death of a gateway take no money away.
LEMMA EnvironmentKeeps ==
  ASSUME MoneyInv, Environment
  PROVE  MoneyInv'
<1>1. ASSUME NEW d \in Para \cup {Relay}, Seal(d) PROVE MoneyInv'
  <2>1. SealTransfers(d) /\ keys' = keys /\ running' = running
    BY <1>1 DEF Seal
  <2>2. MoneyStays
    BY <2>1, SealKeepsMoney DEF MoneyInv
  <2> QED
    BY <2>1, <2>2, NothingNew
<1>2. ASSUME NEW c \in Para, ExecuteSend(c) PROVE MoneyInv'
  BY <1>2, NoTransfer DEF ExecuteSend, startVars
<1>3. ASSUME NEW m \in Message, Deliver(m) PROVE MoneyInv'
  BY <1>3, NoTransfer DEF Deliver, startVars
<1>4. ASSUME NEW g \in running, GatewayRaises(g) PROVE MoneyInv'
  <2>1. transfer' = transfer /\ keys' = keys /\ running' \subseteq running
    BY <1>4 DEF GatewayRaises
  <2> QED
    BY <2>1, NoTransfer
<1> QED
  BY <1>1, <1>2, <1>3, <1>4 DEF Environment

(* What follows the evaluation: gateways die, and nothing is paid. *)
LEMMA StatisticsKeeps ==
  ASSUME MoneyInv, StatNext, ~(Next /\ UNCHANGED statVars)
  PROVE  MoneyInv'
<1>1. CASE ReadPayloads \/ Measure \/ TorKill \/ AorKill \/ NorKill \/ ReadInfo \/ Average
  <2>1. transfer' = transfer /\ keys' = keys /\ running' = running
    BY <1>1 DEF ReadPayloads, Measure, TorKill, AorKill, NorKill, Kill, ReadInfo, Average,
                startVars
  <2> QED
    BY <2>1, NoTransfer
<1>2. ASSUME NEW d \in Chain, QueryCount(d) \/ QueryRecord(d) \/ StatThreadRaises(d)
      PROVE  MoneyInv'
  <2>1. transfer' = transfer /\ keys' = keys /\ running' = running
    BY <1>2 DEF QueryCount, QueryRecord, StatThreadRaises, startVars
  <2> QED
    BY <2>1, NoTransfer
<1>3. ASSUME NEW g \in running, CollectorWrites(g) \/ Dies(g) PROVE MoneyInv'
  <2>1. transfer' = transfer /\ keys' = keys /\ running' \subseteq running
    BY <1>3 DEF CollectorWrites, Dies, startVars
  <2> QED
    BY <2>1, NoTransfer
<1> QED
  BY <1>1, <1>2, <1>3 DEF StatNext

\* At the beginning nobody has keys.
LEMMA InitMoney == StatInit => MoneyInv
BY DEF StatInit, Init, StartInit, MoneyInv, MoneyTypeOK, KeysHaveMoney, GatewaysHaveMoney

\* Every step keeps what keys mean.
LEMMA NextMoney == MoneyInv /\ [StatNext]_allVars => MoneyInv'
<1> SUFFICES ASSUME MoneyInv, [StatNext]_allVars PROVE MoneyInv'
  OBVIOUS
<1>1. CASE Next /\ UNCHANGED statVars
  BY <1>1, EvaluationKeeps, EnvironmentKeeps DEF Next
<1>2. CASE StatNext /\ ~(Next /\ UNCHANGED statVars)
  BY <1>2, StatisticsKeeps
<1>3. CASE UNCHANGED allVars
  <2>1. transfer' = transfer /\ keys' = keys /\ running' = running
    BY <1>3 DEF allVars, vars, startVars
  <2> QED
    BY <2>1, NoTransfer
<1> QED
  BY <1>1, <1>2, <1>3

(* In the evaluations of all three protocols, for every number of parachains *)
(* and messages and whatever exceptions end, a gateway with an end on the    *)
(* relay chain runs only with money in its accounts, and one between         *)
(* parachains only with money on its way (scheduler.py of tor, aor and nor:  *)
(* start_gateways_from_para_to_relay_local and the two functions after it).  *)
THEOREM AccountsHaveMoney == StatSpec => []GatewaysHaveMoney
<1>1. MoneyInv => GatewaysHaveMoney
  BY DEF MoneyInv
<1> QED
  BY <1>1, InitMoney, NextMoney, PTL DEF StatSpec
=============================================================================
