----------------------- MODULE GatewayThreadsProofs ------------------------
(* Theorems about GatewayThreads, for every number of blocks. *)
EXTENDS GatewayThreads, TLAPS

(* What the queue holds after its first block is taken. *)
LEMMA TailOf ==
  ASSUME NEW S, NEW s \in Seq(S), s # <<>>
  PROVE  /\ Head(s) = s[1] /\ Head(s) \in S /\ Tail(s) \in Seq(S)
         /\ Len(s) \in Nat \ {0} /\ Len(Tail(s)) = Len(s) - 1
         /\ \A i \in 1 .. Len(Tail(s)) : Tail(s)[i] = s[i + 1]
OBVIOUS

(* What it holds after a block is put. *)
LEMMA AppendOf ==
  ASSUME NEW S, NEW s \in Seq(S), NEW e \in S
  PROVE  /\ Append(s, e) \in Seq(S) /\ Append(s, e) # <<>>
         /\ Len(s) \in Nat /\ Len(Append(s, e)) = Len(s) + 1
         /\ \A i \in 1 .. Len(s) : Append(s, e)[i] = s[i]
         /\ Append(s, e)[Len(s) + 1] = e
         /\ s = <<>> => Head(Append(s, e)) = e
         /\ s # <<>> => Head(Append(s, e)) = Head(s)
<1>1. /\ Append(s, e) \in Seq(S) /\ Append(s, e) # <<>>
      /\ Len(s) \in Nat /\ Len(Append(s, e)) = Len(s) + 1
      /\ \A i \in 1 .. Len(s) : Append(s, e)[i] = s[i]
      /\ Append(s, e)[Len(s) + 1] = e
  OBVIOUS
<1>2. \A t \in Seq(S) : t # <<>> => Head(t) = t[1] /\ Len(t) \in Nat \ {0}
  OBVIOUS
<1>3. s = <<>> => Len(s) = 0
  OBVIOUS
<1> QED
  BY <1>1, <1>2, <1>3

(* It holds before the threads start. *)
LEMMA InitIInv == Init => IInv
<1> SUFFICES ASSUME Init PROVE IInv
  OBVIOUS
<1>1. header_queue = <<>>
  BY DEF Init
<1>2. Len(header_queue) = 0 /\ header_queue \in Seq(1 .. MaxHeight)
  BY <1>1
<1>3. /\ height = 1 /\ walk_height = 0 /\ now_height = 0
      /\ dealing = 0 /\ dead \subseteq Threads
  BY DEF Init
<1>4. TypeOK
  BY <1>2, <1>3, HeightAssumption DEF TypeOK
<1>5. QueueIsWalk
  <2>1. \A i \in 1 .. Len(header_queue) : FALSE
    BY <1>2
  <2> QED
    BY <1>1, <1>3, <2>1 DEF QueueIsWalk
<1> QED
  BY <1>4, <1>5 DEF IInv

(* Every step keeps it. *)
LEMMA NextIInv == IInv /\ [Next]_vars => IInv'
<1> SUFFICES ASSUME IInv, [Next]_vars PROVE IInv'
  OBVIOUS
<1> USE HeightAssumption, FailAssumption DEF IInv
<1>0. /\ TypeOK /\ QueueIsWalk
      /\ header_queue \in Seq(1 .. MaxHeight) /\ Len(header_queue) \in Nat
  BY DEF TypeOK
<1>1. CASE SealBlock
  BY <1>0, <1>1 DEF SealBlock, queryVars, TypeOK, QueueIsWalk
<1>2. CASE StartQuery
  <2>1. header_queue = <<>> /\ dealing = 0 /\ height \in 1 .. MaxHeight
    BY <1>2 DEF StartQuery, TypeOK, QueueIsWalk
  <2>2. Len(header_queue) = 0
    BY <2>1
  <2> QED
    BY <1>0, <1>2, <2>1, <2>2 DEF StartQuery, TypeOK, QueueIsWalk
<1>3. CASE Poll
  BY <1>0, <1>3 DEF Poll, TypeOK, QueueIsWalk
<1>4. CASE Fetch
  <2> DEFINE q == header_queue
  <2>1. /\ walk_height \in 1 .. MaxHeight /\ now_height <= height
        /\ header_queue' = Append(q, walk_height)
        /\ walk_height' = walk_height + 1
        /\ UNCHANGED <<height, now_height, dealing, dead>>
    BY <1>4 DEF Fetch, TypeOK, QueueIsWalk
  <2>2. /\ header_queue' \in Seq(1 .. MaxHeight)
        /\ Len(header_queue') = Len(q) + 1
        /\ \A i \in 1 .. Len(q) : header_queue'[i] = q[i]
        /\ header_queue'[Len(q) + 1] = walk_height
    BY <1>0, <2>1, AppendOf
  <2>3. TypeOK'
    BY <1>0, <2>1, <2>2 DEF TypeOK
  <2>4. ASSUME NEW i \in 1 .. Len(header_queue')
        PROVE  header_queue'[i] = ((walk_height' - Len(header_queue')) + i) - 1
    <3>1. CASE i \in 1 .. Len(q)
      BY <1>0, <2>1, <2>2, <3>1 DEF QueueIsWalk
    <3>2. CASE i = Len(q) + 1
      BY <1>0, <2>1, <2>2, <3>2
    <3> QED
      BY <1>0, <2>2, <3>1, <3>2
  <2>a. /\ 1 <= walk_height - Len(q) /\ walk_height <= now_height
        /\ walk_height' - Len(header_queue') = walk_height - Len(q)
        /\ dealing # 0 => dealing = (walk_height - Len(q)) - 1
    <3>1. walk_height <= now_height
      BY <1>4 DEF Fetch
    <3> QED
      BY <1>0, <2>1, <2>2, <3>1 DEF QueueIsWalk, TypeOK
  <2>5. /\ walk_height' # 0
        /\ 1 <= walk_height' - Len(header_queue')
        /\ walk_height' <= now_height' + 1
        /\ dealing' # 0 => dealing' = (walk_height' - Len(header_queue')) - 1
        /\ now_height' <= height'
    BY <1>0, <2>1, <2>a DEF TypeOK
  <2> QED
    BY <2>3, <2>4, <2>5 DEF QueueIsWalk
<1>5. CASE Get
  <2> DEFINE q == header_queue
  <2>1. /\ q # <<>> /\ dealing = 0 /\ dealing' = Head(q)
        /\ header_queue' = Tail(q)
        /\ UNCHANGED <<height, walk_height, now_height, dead>>
    BY <1>5 DEF Get, queryVars
  <2>2. /\ header_queue' \in Seq(1 .. MaxHeight)
        /\ Len(q) \in Nat \ {0} /\ Len(header_queue') = Len(q) - 1
        /\ \A i \in 1 .. Len(header_queue') : header_queue'[i] = q[i + 1]
        /\ dealing' = q[1] /\ dealing' \in 1 .. MaxHeight
    BY <1>0, <2>1, TailOf
  <2>3. TypeOK'
    BY <1>0, <2>1, <2>2 DEF TypeOK
  <2>4. /\ walk_height # 0 /\ 1 <= walk_height - Len(q)
        /\ \A i \in 1 .. Len(q) : q[i] = ((walk_height - Len(q)) + i) - 1
    BY <1>0, <2>1 DEF QueueIsWalk
  <2>5. dealing' = (walk_height' - Len(header_queue')) - 1
    BY <1>0, <2>1, <2>2, <2>4 DEF TypeOK
  <2>6. ASSUME NEW i \in 1 .. Len(header_queue')
        PROVE  header_queue'[i] = ((walk_height' - Len(header_queue')) + i) - 1
    BY <1>0, <2>1, <2>2, <2>4 DEF TypeOK
  <2> QED
    BY <1>0, <2>1, <2>2, <2>3, <2>4, <2>5, <2>6 DEF QueueIsWalk, TypeOK
<1>6. CASE Return \/ RaiseQuery \/ RaiseDeal
  <2>1. /\ UNCHANGED <<height, walk_height, now_height, header_queue>>
        /\ (dealing # 0 /\ dealing' = 0) \/ dealing' = dealing
        /\ dead' \subseteq Threads
    BY <1>0, <1>6 DEF Return, RaiseQuery, RaiseDeal, Threads, queryVars, TypeOK
  <2>2. TypeOK'
    BY <1>0, <2>1 DEF TypeOK
  <2> QED
    BY <1>0, <2>1, <2>2 DEF QueueIsWalk
<1>7. CASE UNCHANGED vars
  BY <1>0, <1>7 DEF vars, queryVars, TypeOK, QueueIsWalk
<1> QED
  BY <1>1, <1>2, <1>3, <1>4, <1>5, <1>6, <1>7 DEF Next, QueryBlock, DealBlock

(* A gateway always deals next with the block that follows the one before:    *)
(* what is in hand, in the queue and about to be fetched is one walk.          *)
THEOREM Inductive == Spec => []IInv
BY InitIInv, NextIInv, PTL DEF Spec

(* The threads of a gateway implement the feed that module ToR assumes.        *)
THEOREM Implementation == Spec => ImplementsBlockFeed
<1>1. Init => BF!Init
  BY DEF Init, BF!Init, NextBlock
<1>2. IInv /\ [Next]_vars => [BF!Next]_(BF!vars)
  <2> SUFFICES ASSUME IInv, [Next]_vars PROVE [BF!Next]_(BF!vars)
    OBVIOUS
  <2>0. /\ TypeOK /\ QueueIsWalk
        /\ header_queue \in Seq(1 .. MaxHeight) /\ Len(header_queue) \in Nat
    BY DEF IInv, TypeOK
  <2>1. CASE SealBlock
    BY <2>1 DEF SealBlock, queryVars, NextBlock, BF!Next, BF!Grow
  <2>2. CASE StartQuery
    <3>1. header_queue = <<>> /\ dealing = 0 /\ walk_height = 0
      BY <2>0, <2>2 DEF StartQuery, QueueIsWalk
    <3> QED
      BY <2>2, <3>1
      DEF StartQuery, NextBlock, BF!Next, BF!Start
  <2>3. CASE Fetch
    <3>1. /\ walk_height \in 1 .. MaxHeight
          /\ header_queue' = Append(header_queue, walk_height)
          /\ UNCHANGED <<height, dealing>>
      BY <2>0, <2>3, HeightAssumption DEF Fetch, TypeOK, QueueIsWalk
    <3>2. /\ header_queue' # <<>>
          /\ header_queue = <<>> => Head(header_queue') = walk_height
          /\ header_queue # <<>> => Head(header_queue') = Head(header_queue)
      BY <2>0, <3>1, AppendOf
    <3> QED
      BY <3>1, <3>2 DEF NextBlock, BF!vars
  <2>4. CASE Get
    <3>1. /\ header_queue # <<>> /\ dealing = 0
          /\ dealing' = Head(header_queue) /\ height' = height
      BY <2>4 DEF Get, queryVars
    <3>2. dealing' \in 1 .. MaxHeight
      BY <2>0, <3>1, TailOf
    <3> QED
      BY <3>1, <3>2 DEF NextBlock, BF!vars
  <2>5. CASE Return
    <3>1. /\ dealing # 0 /\ dealing' = 0
          /\ UNCHANGED <<height, header_queue, walk_height>>
      BY <2>5 DEF Return, queryVars
    <3>2. /\ dealing = (walk_height - Len(header_queue)) - 1
          /\ walk_height # 0 /\ walk_height <= now_height + 1
          /\ now_height <= height
          /\ \A i \in 1 .. Len(header_queue) :
               header_queue[i] = ((walk_height - Len(header_queue)) + i) - 1
      BY <2>0, <3>1 DEF QueueIsWalk
    <3>3. dealing \in 1 .. height
      BY <2>0, <3>1, <3>2 DEF TypeOK
    <3>4. NextBlock' = dealing + 1
      <4>1. CASE header_queue = <<>>
        <5>1. Len(header_queue) = 0
          BY <4>1
        <5> QED
          BY <2>0, <3>1, <3>2, <4>1, <5>1 DEF NextBlock, TypeOK
      <4>2. CASE header_queue # <<>>
        <5>1. /\ Head(header_queue) = header_queue[1]
              /\ Len(header_queue) \in Nat \ {0}
          BY <2>0, <4>2, TailOf
        <5> QED
          BY <2>0, <3>1, <3>2, <4>2, <5>1 DEF NextBlock, TypeOK
      <4> QED
        BY <4>1, <4>2
    <3> QED
      BY <3>1, <3>3, <3>4 DEF NextBlock, BF!Next, BF!Advance
  <2>6. CASE Poll \/ RaiseQuery \/ RaiseDeal \/ UNCHANGED vars
    BY <2>6 DEF Poll, RaiseQuery, RaiseDeal, vars, queryVars, NextBlock, BF!vars
  <2> QED
    BY <2>1, <2>2, <2>3, <2>4, <2>5, <2>6 DEF Next, QueryBlock, DealBlock
<1> QED
  BY <1>1, <1>2, Inductive, PTL DEF Spec, ImplementsBlockFeed, BF!Spec
============================================================================
