----------------------------- MODULE RlpReader -----------------------------
(***************************************************************************)
(* contracts/spv/lib/RLPReader.sol over a memory of bytes, and the         *)
(* encoding it reads, which the gateways make with the library rlp.  An    *)
(* item of the reader is a place in the memory and a length; what is       *)
(* encoded is a string of bytes or a list of such things.  Addresses count *)
(* from 1; the memory is zero behind the encoding.                         *)
(***************************************************************************)
EXTENDS Naturals, Sequences, SequencesExt

CONSTANTS
  Strings,   \* byte strings that occur
  MaxItems,  \* bound: elements of a list
  MaxDepth,  \* bound: lists in lists
  MaxBytes   \* bound: bytes of an encoding

Bytes == 0 .. 255

\* Lengths have at most three bytes: a transaction has no room for more.
ASSUME RlpAssumption ==
  /\ Strings \subseteq Seq(Bytes)
  /\ MaxBytes \in 0 .. 256 * 256 * 256 - 1

VARIABLES
  data,   \* what the gateway encodes: a list
  depth   \* how deep it is

String(s)     == [str |-> s]
List(items)   == [items |-> items]
IsString(x)   == "str" \in DOMAIN x

AllStrings == [str : Seq(Bytes)]

\* Strings, and lists in lists up to a depth.
Nested[d \in Nat] ==
  IF d = 0 THEN AllStrings ELSE AllStrings \cup [items : Seq(Nested[d - 1])]

----------------------------------------------------------------------------
(* The encoding. *)

\* What is left of a number without its last digits, to the base of 256.
Rest(n) ==
  LET rest[i \in Nat] == IF i = 0 THEN n ELSE rest[i - 1] \div 256
  IN  rest

\* The digits, the first one not zero.
BigEndian(n) ==
  LET k == CHOOSE k \in 1 .. n : Rest(n)[k] = 0 /\ Rest(n)[k - 1] # 0
  IN  [i \in 1 .. k |-> Rest(n)[k - i] % 256]

Prefix(offset, len) ==
  IF len <= 55 THEN <<offset + len>>
  ELSE <<offset + 55 + Len(BigEndian(len))>> \o BigEndian(len)

EncodeString(s) ==
  IF Len(s) = 1 /\ s[1] < 128 THEN s ELSE Prefix(128, Len(s)) \o s

\* The elements, which are encoded already, one behind the other.
Joined(codes) ==
  LET upTo[i \in 0 .. Len(codes)] == IF i = 0 THEN <<>> ELSE upTo[i - 1] \o codes[i]
  IN  upTo[Len(codes)]

EncodeList(codes) == Prefix(192, Len(Joined(codes))) \o Joined(codes)

\* Of a thing of that depth.
Encode(x, d) ==
  LET encode[k \in Nat] ==
        [y \in Nested[k] |->
           IF IsString(y) THEN EncodeString(y.str)
           ELSE EncodeList([i \in DOMAIN y.items |-> encode[k - 1][y.items[i]]])]
  IN  encode[d][x]

----------------------------------------------------------------------------
(* The reader. *)

RLPItem(len, memPtr) == [len |-> len, memPtr |-> memPtr]

Byte(mem, ptr) == IF ptr \in DOMAIN mem THEN mem[ptr] ELSE 0

\* mload, shifted right to its first n bytes.
Word(mem, ptr, n) ==
  LET value[i \in 0 .. n] ==
        IF i = 0 THEN 0 ELSE value[i - 1] * 256 + Byte(mem, ptr + i - 1)
  IN  value[n]

ToRlpItem(mem) == RLPItem(Len(mem), 1)

ItemLength(mem, ptr) ==
  LET b == Byte(mem, ptr)
  IN  CASE b < 128           -> 1
        [] b \in 128 .. 183  -> b - 128 + 1
        [] b \in 184 .. 191  -> Word(mem, ptr + 1, b - 183) + (b - 183) + 1
        [] b \in 192 .. 247  -> b - 192 + 1
        [] OTHER             -> Word(mem, ptr + 1, b - 247) + (b - 247) + 1

\* Variant: a long string is read like a short one.
PayloadOffsetShort(mem, ptr) == IF Byte(mem, ptr) < 128 THEN 0 ELSE 1

PayloadOffset(mem, ptr) ==
  LET b == Byte(mem, ptr)
  IN  CASE b < 128                                -> 0
        [] b \in (128 .. 183) \cup (192 .. 247)  -> 1
        [] b \in 184 .. 191                      -> b - 183 + 1
        [] OTHER                                 -> b - 247 + 1

IsList(mem, item) == item.len > 0 /\ Byte(mem, item.memPtr) >= 192

\* Where the elements of a list begin, the place behind the last one included.
Places(mem, item) ==
  LET end == item.memPtr + item.len
      at[i \in Nat] == IF i = 0 THEN item.memPtr + PayloadOffset(mem, item.memPtr)
                       ELSE at[i - 1] + ItemLength(mem, at[i - 1])
      numItems == CHOOSE n \in 0 .. item.len :
                    at[n] >= end /\ \A i \in 0 .. (n - 1) : at[i] < end
  IN  [i \in 1 .. numItems + 1 |-> at[i - 1]]

ToList(mem, item) ==
  LET places == Places(mem, item)
  IN  [i \in 1 .. Len(places) - 1 |->
         RLPItem(ItemLength(mem, places[i]), places[i])]

ToBytes(mem, item) ==
  LET offset == PayloadOffset(mem, item.memPtr)
  IN  SubSeq(mem, item.memPtr + offset, item.memPtr + item.len - 1)

\* For an item of at most 33 bytes.
ToUint(mem, item) ==
  LET offset == PayloadOffset(mem, item.memPtr)
  IN  Word(mem, item.memPtr + offset, item.len - offset)

----------------------------------------------------------------------------
(* Lists are built element by element. *)

RlpInit == data = List(<<>>) /\ depth = 1

AddElement(s) ==
  /\ Len(data.items) < MaxItems
  /\ data' = List(Append(data.items, String(s)))
  /\ Len(Encode(data', depth)) <= MaxBytes
  /\ UNCHANGED depth

Wrap ==
  /\ depth < MaxDepth
  /\ data' = List(<<data>>) /\ depth' = depth + 1
  /\ Len(Encode(data', depth')) <= MaxBytes

RlpNext == Wrap \/ \E s \in Strings : AddElement(s)

RlpSpec == RlpInit /\ [][RlpNext]_<<data, depth>>

----------------------------------------------------------------------------
(* Property. *)

\* What the reader finds at an item, element by element, down to a depth.
Decode(mem, item, d) ==
  LET decode[k \in Nat] ==
        [it \in [len : Nat, memPtr : Nat] |->
           IF k > 0 /\ IsList(mem, it)
           THEN List([i \in DOMAIN ToList(mem, it) |-> decode[k - 1][ToList(mem, it)[i]]])
           ELSE String(ToBytes(mem, it))]
  IN  decode[d][item]

Number(s) ==
  LET value[i \in 0 .. Len(s)] == IF i = 0 THEN 0 ELSE value[i - 1] * 256 + s[i]
  IN  value[Len(s)]

\* RLPReader.sol takes apart what rlp has put together, at the boundaries of the
\* lengths too (55 and 56 bytes, 255 and 256): the elements it walks over are the
\* encoded ones, end where the list ends, and small numbers have their value.
ReaderInvertsEncoder ==
  LET mem  == Encode(data, depth)
      item == ToRlpItem(mem)
  IN  /\ Decode(mem, item, depth) = data
      /\ Last(Places(mem, item)) = Len(mem) + 1
      /\ \A i \in DOMAIN data.items :
           LET x == data.items[i]
           IN  IsString(x) /\ Len(x.str) \in 1 .. 3 =>
                 ToUint(mem, ToList(mem, item)[i]) = Number(x.str)
=============================================================================
