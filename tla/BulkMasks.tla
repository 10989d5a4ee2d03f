------------------------------- MODULE BulkMasks -------------------------------
(***************************************************************************)
(* The bulk operations that turn elements into bits and back: AnyEqual and *)
(* AllEqual of SimdAlgo, Reduce and Expand of SimdResample.  Each runs     *)
(* over its span register by register, and ends in a register that is only *)
(* partly filled.  A byte has G bits and stands for G elements.            *)
(***************************************************************************)
EXTENDS Words, Sequences

CONSTANTS
  G,           \* bits of a byte (8)
  Lanes128,    \* elements of a 128-bit register of read_t
  MaxElements, \* bound on AnyEqual's and AllEqual's span
  MaxGroups    \* bound on the packed span of Reduce and Expand

ASSUME BulkAssumption ==
  /\ G \in Nat \ {0} /\ G % 2 = 0
  /\ Lanes128 \in Nat \ {0}
  /\ MaxElements \in Nat /\ MaxGroups \in Nat

VARIABLES
  build,       \* "sse42" or "portable"
  op,
  predicate,   \* of AnyEqual and AllEqual
  src,         \* the span that is read
  dst,         \* the span that is written, as far as it is
  at,          \* elements of src done
  answer       \* of AnyEqual and AllEqual: "pending", then "true" or "false"

vars == <<build, op, predicate, src, dst, at, answer>>

Byte == Word(G)
Zero == {}
AllBits == Full(G)

Comparisons == {"AnyEqual", "AllEqual"}
Reductions == {"Any", "All", "Parity"}

Size == Len(src)
Truth(b) == IF b THEN "true" ELSE "false"

\* Elements from position i (0-based) on, behind which a load finds zeros.
Staged(i, count, lanes) ==
  [k \in 0 .. lanes - 1 |-> IF k < count THEN src[i + k + 1] ELSE Zero]

-------------------------------------------------------------------------------
\* AnyEqual and AllEqual.

\* SimdImpl<count>
Lanes == IF Size >= 2 * Lanes128 THEN 2 * Lanes128 ELSE Lanes128

\* movemask_slim(cmpeq(v, predicateVector)): the lanes that are equal.
EqualLanes(v) == {k \in DOMAIN v : v[k] = predicate}

\* Mutant: the padded lanes count.
KeepAllLanes(mask, count) == mask

\* LowBits, and the masks (1 << count) - 1 of the tails.
LowBits(mask, count) == {k \in mask : k < count}

Answer(value) ==
  /\ answer' = Truth(value)
  /\ UNCHANGED <<build, op, predicate, src, dst, at>>

\* Whether the loop goes on to the next register.
Undecided(mask) ==
  IF op = "AnyEqual" THEN mask = {} ELSE mask = 0 .. Lanes - 1

CompareRegister ==
  LET mask == EqualLanes(Staged(at, Lanes, Lanes)) IN
  /\ op \in Comparisons /\ answer = "pending"
  /\ at + Lanes <= Size
  /\ IF Undecided(mask)
     THEN at' = at + Lanes /\ UNCHANGED <<build, op, predicate, src, dst, answer>>
     ELSE Answer(op = "AnyEqual")

\* A span shorter than a register, and the rest of a longer one.
CompareTail ==
  LET count == Size - at
      mask == LowBits(EqualLanes(Staged(at, count, Lanes)), count)
  IN
  /\ op \in Comparisons /\ answer = "pending"
  /\ at + Lanes > Size
  /\ Size < Lanes \/ count # 0
  /\ Answer(IF op = "AnyEqual" THEN mask # {} ELSE mask = 0 .. count - 1)

CompareDone ==
  /\ op \in Comparisons /\ answer = "pending"
  /\ at = Size /\ Size >= Lanes
  /\ Answer(op = "AllEqual")

-------------------------------------------------------------------------------
\* Reduce: a register holds two groups of G bytes.

\* The lookup by half bytes.  The shift is one of 2 * G bits, so the neighbour's
\* low half enters above the byte's high half and is masked off.
Half == G \div 2

ParityOf(s) == Cardinality(s) % 2

\* Mutant: the shifted halves are not masked.
ParityWithNeighbour(v, k) ==
  LET pair == IF k % 2 = 0 THEN v[k] \cup {b + G : b \in v[k + 1]} ELSE v[k]
      low == v[k] \cap Full(Half)
      high == Right(pair, Half) \cap AllBits
  IN  (ParityOf(low) + ParityOf(high)) % 2 = 1

ParityLane(v, k) ==
  LET pair == IF k % 2 = 0 THEN v[k] \cup {b + G : b \in v[k + 1]} ELSE v[k]
      low == v[k] \cap Full(Half)
      high == Right(pair, Half) \cap Full(Half)
  IN  (ParityOf(low) + ParityOf(high)) % 2 = 1

\* One bit per lane of the register.
MaskOf(v) ==
  CASE op = "Any"    -> DOMAIN v \ {k \in DOMAIN v : v[k] = Zero}
    [] op = "All"    -> {k \in DOMAIN v : v[k] = AllBits}
    [] op = "Parity" -> {k \in DOMAIN v : ParityLane(v, k)}

LowByte(mask) == mask \cap AllBits
HighByte(mask) == Right(mask, G) \cap AllBits

Write(bytes) ==
  /\ dst' = dst \o bytes
  /\ UNCHANGED <<build, op, predicate, src, answer>>

ReducePair ==
  /\ op \in Reductions /\ build = "sse42"
  /\ at + 2 * G <= Size
  /\ LET mask == MaskOf(Staged(at, 2 * G, 2 * G))
     IN  Write(<<LowByte(mask), HighByte(mask)>>)
  /\ at' = at + 2 * G

\* The odd group is loaded into half a register.
ReduceLast ==
  /\ op \in Reductions /\ build = "sse42"
  /\ Size - at = G
  /\ Write(<<LowByte(MaskOf(Staged(at, G, 2 * G)))>>)
  /\ at' = at + G

ReduceGroup ==
  /\ op \in Reductions /\ build = "portable"
  /\ at < Size
  /\ Write(<<{k \in AllBits :
                CASE op = "Any"    -> src[at + k + 1] # Zero
                  [] op = "All"    -> src[at + k + 1] = AllBits
                  [] op = "Parity" -> ParityOf(src[at + k + 1]) = 1}>>)
  /\ at' = at + G

-------------------------------------------------------------------------------
\* Expand: G bytes, all ones or zero, from each byte.

\* Lane k of a register keeps bit k modulo G of the byte it was filled with.
expandPair(low, high) ==
  [k \in 1 .. 2 * G |->
     LET bits == IF k <= G THEN low ELSE high
     IN  IF bits \cap {(k - 1) % G} = Zero THEN Zero ELSE AllBits]

ExpandPair ==
  /\ op = "Expand" /\ build = "sse42"
  /\ at + 2 <= Size
  /\ Write(expandPair(src[at + 1], src[at + 2]))
  /\ at' = at + 2

\* Mutant: the odd byte stores the whole register.
StoresWholeRegister(pair) == pair

\* store_half
LowHalf(pair) == SubSeq(pair, 1, G)

ExpandLast ==
  /\ op = "Expand" /\ build = "sse42"
  /\ Size - at = 1
  /\ Write(LowHalf(expandPair(src[at + 1], Zero)))
  /\ at' = at + 1

ExpandGroup ==
  /\ op = "Expand" /\ build = "portable"
  /\ at < Size
  /\ Write([k \in 1 .. G |-> IF k - 1 \in src[at + 1] THEN AllBits ELSE Zero])
  /\ at' = at + 1

-------------------------------------------------------------------------------
\* A call; Reduce and Expand are called with spans of matching sizes.

SeqsUpTo(n, S) == UNION {[1 .. k -> S] : k \in 0 .. n}

Calls ==
  [op : Comparisons, build : {"sse42"}, predicate : Byte, src : SeqsUpTo(MaxElements, Byte)]
  \cup [op : Reductions, build : {"sse42", "portable"}, predicate : {Zero},
        src : UNION {[1 .. G * k -> Byte] : k \in 0 .. MaxGroups}]
  \cup [op : {"Expand"}, build : {"sse42", "portable"}, predicate : {Zero},
        src : SeqsUpTo(MaxGroups, Byte)]

Init ==
  \E c \in Calls :
    /\ build = c.build /\ op = c.op /\ predicate = c.predicate /\ src = c.src
    /\ dst = << >> /\ at = 0 /\ answer = "pending"

Next ==
  \/ CompareRegister \/ CompareTail \/ CompareDone
  \/ ReducePair \/ ReduceLast \/ ReduceGroup
  \/ ExpandPair \/ ExpandLast \/ ExpandGroup

Spec == Init /\ [][Next]_vars

-------------------------------------------------------------------------------
\* What must hold.

\* The comparison answers for the elements of the span: not for the zeros a short
\* or last register is filled with, and not before it has seen what decides.
ComparesItsElements ==
  answer # "pending" =>
    answer = Truth(IF op = "AnyEqual" THEN \E k \in 1 .. Size : src[k] = predicate
                   ELSE \A k \in 1 .. Size : src[k] = predicate)

\* What a byte of the result stands for, by position.
BitOf(b) == CASE op = "Any" -> b # Zero [] op = "All" -> b = AllBits
              [] op = "Parity" -> ParityOf(b) = 1

\* Bit i of byte g is the reduction of source byte g * G + i, in both builds.
ReducesByPosition ==
  op \in Reductions =>
    /\ Len(dst) * G = at
    /\ \A g \in 1 .. Len(dst) :
         dst[g] = {i \in AllBits : BitOf(src[(g - 1) * G + i + 1])}

\* Byte g * G + i is bit i of source byte g, all ones or zero; no byte more is
\* stored than the destination has.
ExpandsByPosition ==
  op = "Expand" =>
    /\ Len(dst) = at * G
    /\ \A k \in 1 .. Len(dst) :
         dst[k] = IF (k - 1) % G \in src[(k - 1) \div G + 1] THEN AllBits ELSE Zero
===============================================================================
