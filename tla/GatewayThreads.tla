--------------------------- MODULE GatewayThreads --------------------------
(***************************************************************************)
(* The threads of a gateway process (relayer/tor, the same in relayer/aor  *)
(* and relayer/nor): query_block walks over the source chain and puts the  *)
(* blocks into header_queue, deal_block takes them out and deals with one  *)
(* after the other.  Neither loop catches an exception: a failed assertion *)
(* or a failed call of a node ends the thread it happens in and no other.  *)
(***************************************************************************)
EXTENDS Naturals, Sequences

CONSTANTS
  MaxHeight,  \* bound: last block of the source chain
  MayFail     \* a call of a node, or an assertion, may raise an exception

ASSUME HeightAssumption == MaxHeight \in Nat \ {0}
ASSUME FailAssumption   == MayFail \in BOOLEAN

VARIABLES
  height,       \* last sealed block of the source chain
  walk_height,  \* query_block: the block to fetch next, 0 before the start
  now_height,   \* query_block: the height it has last asked for
  header_queue, \* numbers of the fetched blocks
  dealing,      \* deal_block: the block it is dealing with, 0 for none
  dead          \* the threads an exception has ended

queryVars == <<walk_height, now_height>>
vars      == <<height, queryVars, header_queue, dealing, dead>>

Threads == {"query_block", "deal_block"}

TypeOK ==
  /\ height       \in 1 .. MaxHeight
  /\ walk_height  \in 0 .. MaxHeight + 1
  /\ now_height   \in 0 .. MaxHeight
  /\ header_queue \in Seq(1 .. MaxHeight)
  /\ dealing      \in 0 .. MaxHeight
  /\ dead         \subseteq Threads

Init ==
  /\ height = 1
  /\ walk_height = 0 /\ now_height = 0
  /\ header_queue = <<>>
  /\ dealing = 0 /\ dead = {}

\* The source chain seals a block.
SealBlock ==
  /\ height < MaxHeight
  /\ height' = height + 1
  /\ UNCHANGED <<queryVars, header_queue, dealing, dead>>

\* query_block starts with the block that is the last.
StartQuery ==
  /\ "query_block" \notin dead
  /\ walk_height = 0
  /\ now_height'  = height
  /\ walk_height' = height
  /\ UNCHANGED <<height, header_queue, dealing, dead>>

\* Variant: the walk goes on from what is now the last block.
PollToLatest ==
  /\ "query_block" \notin dead
  /\ walk_height > now_height
  /\ now_height' = height
  /\ walk_height' = IF height > walk_height THEN height ELSE walk_height
  /\ UNCHANGED <<height, header_queue, dealing, dead>>

\* Everything up to now_height is fetched: query_block asks for the height.
Poll ==
  /\ "query_block" \notin dead
  /\ walk_height > now_height
  /\ now_height' = height
  /\ UNCHANGED <<height, walk_height, header_queue, dealing, dead>>

\* Variant: the last block known is not fetched until there is another.
FetchBelow ==
  /\ "query_block" \notin dead
  /\ walk_height # 0 /\ walk_height < now_height
  /\ header_queue' = Append(header_queue, walk_height)
  /\ walk_height' = walk_height + 1
  /\ UNCHANGED <<height, now_height, dealing, dead>>

\* query_block fetches a block.
Fetch ==
  /\ "query_block" \notin dead
  /\ walk_height # 0 /\ walk_height <= now_height
  /\ header_queue' = Append(header_queue, walk_height)
  /\ walk_height' = walk_height + 1
  /\ UNCHANGED <<height, now_height, dealing, dead>>

\* deal_block takes the first block of the queue.
Get ==
  /\ "deal_block" \notin dead /\ dealing = 0
  /\ header_queue # <<>>
  /\ dealing' = Head(header_queue)
  /\ header_queue' = Tail(header_queue)
  /\ UNCHANGED <<height, queryVars, dead>>

\* send_header or deal_txs returns.
Return ==
  /\ "deal_block" \notin dead /\ dealing # 0
  /\ dealing' = 0
  /\ UNCHANGED <<height, queryVars, header_queue, dead>>

\* block_number or get_block raises: query_block ends, deal_block goes on with
\* what is in the queue.
RaiseQuery ==
  /\ MayFail
  /\ "query_block" \notin dead
  /\ dead' = dead \cup {"query_block"}
  /\ UNCHANGED <<height, queryVars, header_queue, dealing>>

\* send_header or deal_txs raises: deal_block ends, query_block goes on.
RaiseDeal ==
  /\ MayFail
  /\ "deal_block" \notin dead /\ dealing # 0
  /\ dead' = dead \cup {"deal_block"}
  /\ UNCHANGED <<height, queryVars, header_queue, dealing>>

QueryBlock == StartQuery \/ Poll \/ Fetch
DealBlock  == Get \/ Return

Next == SealBlock \/ QueryBlock \/ RaiseQuery \/ DealBlock \/ RaiseDeal

Spec == Init /\ [][Next]_vars

\* Each thread runs as long as no exception ends it; a poll that finds nothing
\* new is repeated.  No exception is ever owed.
FairSpec == Spec /\ WF_vars(QueryBlock) /\ WF_vars(DealBlock)

----------------------------------------------------------------------------
(* Properties. *)

\* The block a gateway deals with next, as module ToR sees it.
NextBlock ==
  IF dealing # 0 THEN dealing
  ELSE IF header_queue # <<>> THEN Head(header_queue)
  ELSE walk_height

BF == INSTANCE BlockFeed WITH next <- NextBlock

\* Between the polls, the queue and the threads no block is lost, repeated or
\* overtaken, and none is dealt with that is not sealed.
ImplementsBlockFeed == BF!Spec

\* Every block from the start on is dealt with in the end if no exception ends
\* a thread.  A block that has been fetched is dealt with even when query_block
\* is dead: only the end of deal_block itself leaves a block in the queue.
AllDealtWith ==
  \A h \in 1 .. MaxHeight :
    /\ (NextBlock \in 1 .. h /\ h <= height) ~> (dead # {} \/ NextBlock > h)
    /\ (NextBlock \in 1 .. h /\ h < walk_height)
         ~> ("deal_block" \in dead \/ NextBlock > h)

----------------------------------------------------------------------------
(* The invariant under which ImplementsBlockFeed is proved. *)

\* The queue holds the blocks just below walk_height, in order, and the block
\* in hand comes before them; none of them is beyond now_height.
QueueIsWalk ==
  LET first == walk_height - Len(header_queue)
  IN  /\ \A i \in 1 .. Len(header_queue) : header_queue[i] = (first + i) - 1
      /\ walk_height = 0 => now_height = 0 /\ header_queue = <<>> /\ dealing = 0
      /\ walk_height # 0 => 1 <= first /\ walk_height <= now_height + 1
      /\ dealing # 0 => dealing = first - 1
      /\ now_height <= height

IInv == TypeOK /\ QueueIsWalk
============================================================================
