---------------------------- MODULE BulkMasksProofs ----------------------------
(***************************************************************************)
(* The bulk operations between elements and bits, for every width of a     *)
(* byte, every register width and spans of every length: the comparisons   *)
(* answer for the elements of the span and nothing else, Reduce and Expand *)
(* put every bit where its element's position says, in both builds.        *)
(*                                                                         *)
(* The three properties are not inductive: that a comparison is undecided  *)
(* says something of the elements it has passed (Passed), and a group is   *)
(* complete because the span of a reduction is whole groups (WholeGroups). *)
(* The lookup of parities by half bytes is right because the bits that     *)
(* enter from the neighbour byte land above the half, and are masked off.  *)
(***************************************************************************)
EXTENDS BulkMasks, FiniteSetTheorems, FunctionTheorems, TLAPS

Operations == Comparisons \cup Reductions \cup {"Expand"}

TypeInv ==
  /\ op \in Operations
  /\ src \in Seq(Byte)
  /\ dst \in Seq(Byte)
  /\ at \in 0 .. Size

\* A reduction is called with a span of whole groups.
WholeGroups == op \in Reductions => \E n \in 0 .. Size : Size = n * G

\* The elements that a comparison has passed do not decide it.
Passed ==
  op \in Comparisons /\ answer = "pending" =>
    \A k \in 1 .. at : src[k] = predicate <=> op = "AllEqual"

BulkInv ==
  /\ TypeInv /\ WholeGroups /\ Passed
  /\ ComparesItsElements /\ ReducesByPosition /\ ExpandsByPosition

-------------------------------------------------------------------------------
(***************************************************************************)
(* Positions, registers and sequences                                      *)
(***************************************************************************)
\* A group of g elements that starts behind n groups.
LEMMA GroupPosition ==
  ASSUME NEW n \in Nat, NEW i \in 0 .. G - 1
  PROVE  /\ n * G \in Nat /\ (n + 1) * G = n * G + G
         /\ (n * G + i) \div G = n /\ (n * G + i) % G = i
<1>1. G \in Nat \ {0}
  BY BulkAssumption
<1>2. ASSUME NEW a \in Nat, NEW b \in Nat, a <= b
      PROVE  a * G \in Nat /\ b * G \in Nat /\ a * G <= b * G
  <2>1. b * G = a * G + (b - a) * G /\ (b - a) * G \in Nat /\ a * G \in Nat
    BY <1>1, <1>2
  <2> QED BY <2>1
<1>3. /\ n * G \in Nat /\ (n + 1) * G = n * G + G
  BY <1>1
<1> DEFINE p == n * G + i
<1>4. p \in Nat
  BY <1>1, <1>3
<1>5. PICK q \in Nat, j \in 0 .. G - 1 : q = p \div G /\ j = (p % G) /\ p = q * G + j
  BY <1>1, <1>4
<1>6. q * G \in Nat /\ (q + 1) * G = q * G + G
  BY <1>1
<1>7. ~(q < n)
  <2> SUFFICES ASSUME q < n PROVE FALSE
    OBVIOUS
  <2>1. (q + 1) * G <= n * G
    BY <1>2
  <2> QED BY <1>1, <1>3, <1>5, <1>6, <2>1
<1>8. ~(n < q)
  <2> SUFFICES ASSUME n < q PROVE FALSE
    OBVIOUS
  <2>1. (n + 1) * G <= q * G
    BY <1>2
  <2> QED BY <1>1, <1>3, <1>5, <1>6, <2>1
<1>9. q = n
  BY <1>7, <1>8
<1>10. j = i
  BY <1>1, <1>3, <1>5, <1>9
<1> QED BY <1>3, <1>5, <1>9, <1>10

\* A span of whole groups with an element left has a group left.
LEMMA GroupLeft ==
  ASSUME NEW n \in Nat, NEW m \in Nat, m * G < n * G
  PROVE  m * G + G <= n * G
<1>1. G \in Nat \ {0}
  BY BulkAssumption
<1>2. m < n
  <2> SUFFICES ASSUME n <= m PROVE FALSE
    OBVIOUS
  <2>1. m * G = n * G + (m - n) * G /\ (m - n) * G \in Nat /\ n * G \in Nat
    BY <1>1
  <2> QED BY <2>1
<1>3. n * G = m * G + G + (n - m - 1) * G /\ (n - m - 1) * G \in Nat /\ m * G \in Nat
  BY <1>1, <1>2
<1> QED BY <1>1, <1>3

\* What is appended to a sequence of bytes.
LEMMA Appended ==
  ASSUME NEW s \in Seq(Byte), NEW t \in Seq(Byte)
  PROVE  /\ s \o t \in Seq(Byte)
         /\ Len(s) \in Nat /\ Len(t) \in Nat /\ Len(s \o t) = Len(s) + Len(t)
         /\ \A k \in 1 .. Len(s) : (s \o t)[k] = s[k]
         /\ \A k \in 1 .. Len(t) : (s \o t)[Len(s) + k] = t[k]
OBVIOUS

\* A function on 1 .. n is a sequence of n bytes.
LEMMA BytesAreSequence ==
  ASSUME NEW n \in Nat, NEW f \in [1 .. n -> Byte]
  PROVE  f \in Seq(Byte) /\ Len(f) = n
OBVIOUS

-------------------------------------------------------------------------------
(***************************************************************************)
(* AnyEqual and AllEqual                                                   *)
(***************************************************************************)
\* The lanes of a register filled from position at on that are equal.
LEMMA EqualLanesOfStaged ==
  ASSUME NEW count, NEW lanes
  PROVE  EqualLanes(Staged(at, count, lanes)) =
           {k \in 0 .. lanes - 1 : (IF k < count THEN src[at + k + 1] ELSE Zero) = predicate}
BY DEF EqualLanes, Staged

\* A complete register decides, or is passed.
LEMMA RegisterCompares ==
  ASSUME TypeInv, Passed, CompareRegister
  PROVE  /\ at' \in 0 .. Size
         /\ Passed' /\ ComparesItsElements'
<1> DEFINE mask == EqualLanes(Staged(at, Lanes, Lanes))
           Equal(k) == src[at + k + 1] = predicate
<1>1. /\ at \in Nat /\ Size \in Nat /\ Lanes \in Nat /\ at + Lanes <= Size
      /\ src' = src /\ op' = op /\ predicate' = predicate
      /\ op \in Comparisons /\ answer = "pending"
  BY BulkAssumption DEF TypeInv, CompareRegister, Lanes, Size, Answer
<1>2. mask = {k \in 0 .. Lanes - 1 : Equal(k)}
  <2>1. mask = {k \in 0 .. Lanes - 1 :
                  (IF k < Lanes THEN src[at + k + 1] ELSE Zero) = predicate}
    BY EqualLanesOfStaged
  <2> HIDE DEF mask
  <2> QED BY <1>1, <2>1
<1>3. IF Undecided(mask)
      THEN at' = at + Lanes /\ answer' = answer
      ELSE at' = at /\ answer' = Truth(op = "AnyEqual")
  BY DEF CompareRegister, Answer
<1> HIDE DEF mask
<1>4. CASE Undecided(mask)
  <2>1. \A k \in 0 .. Lanes - 1 : Equal(k) <=> op = "AllEqual"
    BY <1>1, <1>2, <1>4 DEF Undecided, Comparisons
  <2>2. ASSUME NEW k \in 1 .. at + Lanes
        PROVE  src[k] = predicate <=> op = "AllEqual"
    <3>1. CASE k <= at
      BY <1>1, <2>2, <3>1 DEF Passed
    <3>2. CASE at < k
      <4>1. k - at - 1 \in 0 .. Lanes - 1 /\ at + (k - at - 1) + 1 = k
        BY <1>1, <3>2
      <4> QED BY <2>1, <4>1
    <3> QED BY <1>1, <3>1, <3>2
  <2>3. at' = at + Lanes /\ answer' = "pending"
    BY <1>1, <1>3, <1>4
  <2> QED BY <1>1, <2>2, <2>3 DEF Passed, ComparesItsElements
<1>5. CASE ~Undecided(mask)
  <2>1. at' = at /\ answer' = Truth(op = "AnyEqual")
    BY <1>3, <1>5
  <2>2. PICK k \in 0 .. Lanes - 1 : Equal(k) <=> op = "AnyEqual"
    BY <1>1, <1>2, <1>5 DEF Undecided, Comparisons
  <2>3. at + k + 1 \in 1 .. Size
    BY <1>1
  <2>4. answer' # "pending"
    BY <2>1 DEF Truth
  <2>5. answer' = Truth(IF op = "AnyEqual" THEN \E j \in 1 .. Size : src[j] = predicate
                        ELSE \A j \in 1 .. Size : src[j] = predicate)
    BY <1>1, <2>1, <2>2, <2>3 DEF Comparisons, Truth
  <2>6. at' \in 0 .. Size /\ Passed'
    BY <1>1, <2>1, <2>4 DEF Passed
  <2>7. ComparesItsElements'
    BY <1>1, <2>5 DEF ComparesItsElements, Size
  <2> QED BY <2>6, <2>7
<1> QED BY <1>4, <1>5

\* The lanes behind the span's last element are masked off.
LEMMA TailCompares ==
  ASSUME TypeInv, Passed, CompareTail
  PROVE  Passed' /\ ComparesItsElements'
<1> DEFINE count == Size - at
           mask == LowBits(EqualLanes(Staged(at, count, Lanes)), count)
           Equal(k) == src[at + k + 1] = predicate
<1>1. /\ at \in Nat /\ Size \in Nat /\ Lanes \in Nat /\ at <= Size /\ at + Lanes > Size
      /\ src' = src /\ op' = op /\ predicate' = predicate
      /\ op \in Comparisons /\ answer = "pending"
      /\ answer' = Truth(IF op = "AnyEqual" THEN mask # {} ELSE mask = 0 .. count - 1)
  BY BulkAssumption DEF TypeInv, CompareTail, Lanes, Size, Answer
<1>2. count \in Nat /\ count <= Lanes
  BY <1>1
<1>3. mask = {k \in 0 .. count - 1 : Equal(k)}
  <2>1. mask = {k \in {j \in 0 .. Lanes - 1 :
                  (IF j < count THEN src[at + j + 1] ELSE Zero) = predicate} : k < count}
    BY EqualLanesOfStaged DEF LowBits
  <2> HIDE DEF mask, count
  <2> QED BY <1>1, <1>2, <2>1
<1> HIDE DEF mask
<1>4. (\E k \in 1 .. Size : src[k] = predicate) <=> \/ \E k \in 1 .. at : src[k] = predicate
                                                    \/ mask # {}
  <2>1. ASSUME NEW k \in 1 .. Size, src[k] = predicate, ~(k <= at)
        PROVE  mask # {}
    <3>1. k - at - 1 \in 0 .. count - 1 /\ at + (k - at - 1) + 1 = k
      BY <1>1, <2>1
    <3> QED BY <1>3, <2>1, <3>1
  <2>2. ASSUME mask # {}
        PROVE  \E k \in 1 .. Size : src[k] = predicate
    <3>1. PICK k \in 0 .. count - 1 : Equal(k)
      BY <1>3, <2>2
    <3>2. at + k + 1 \in 1 .. Size
      BY <1>1
    <3> QED BY <3>1, <3>2
  <2> QED BY <1>1, <2>1, <2>2
<1>5. (\A k \in 1 .. Size : src[k] = predicate) <=> /\ \A k \in 1 .. at : src[k] = predicate
                                                    /\ mask = 0 .. count - 1
  <2>1. ASSUME \A k \in 1 .. Size : src[k] = predicate
        PROVE  mask = 0 .. count - 1
    <3>1. ASSUME NEW k \in 0 .. count - 1
          PROVE  Equal(k)
      <4>1. at + k + 1 \in 1 .. Size
        BY <1>1
      <4> QED BY <2>1, <4>1
    <3> HIDE DEF Equal
    <3> QED BY <1>3, <3>1
  <2>2. ASSUME mask = 0 .. count - 1, \A k \in 1 .. at : src[k] = predicate,
               NEW k \in 1 .. Size
        PROVE  src[k] = predicate
    <3>1. CASE k <= at
      BY <1>1, <2>2, <3>1
    <3>2. CASE at < k
      <4>1. k - at - 1 \in 0 .. count - 1 /\ at + (k - at - 1) + 1 = k
        BY <1>1, <3>2
      <4>2. Equal(k - at - 1)
        BY <1>3, <2>2, <4>1
      <4> QED BY <4>1, <4>2
    <3> QED BY <1>1, <3>1, <3>2
  <2> QED BY <1>1, <2>1, <2>2
<1>6. \A k \in 1 .. at : src[k] = predicate <=> op = "AllEqual"
  BY <1>1 DEF Passed
<1>7. answer' = Truth(IF op = "AnyEqual" THEN \E k \in 1 .. Size : src[k] = predicate
                      ELSE \A k \in 1 .. Size : src[k] = predicate)
  BY <1>1, <1>4, <1>5, <1>6 DEF Comparisons, Truth
<1> QED BY <1>1, <1>7 DEF Passed, ComparesItsElements, Truth, Size

\* A span of complete registers that have all been passed.
LEMMA DoneCompares ==
  ASSUME TypeInv, Passed, CompareDone
  PROVE  Passed' /\ ComparesItsElements'
<1>1. /\ at = Size /\ src' = src /\ op' = op /\ predicate' = predicate
      /\ op \in Comparisons /\ answer' = Truth(op = "AllEqual") /\ Size \in Nat
      /\ Size >= Lanes /\ Lanes \in Nat \ {0}
      /\ \A k \in 1 .. at : src[k] = predicate <=> op = "AllEqual"
  BY BulkAssumption DEF TypeInv, Passed, CompareDone, Answer, Size, Lanes
<1>2. answer' = Truth(IF op = "AnyEqual" THEN \E k \in 1 .. Size : src[k] = predicate
                      ELSE \A k \in 1 .. Size : src[k] = predicate)
  BY <1>1 DEF Comparisons, Truth
<1> QED BY <1>1, <1>2 DEF Passed, ComparesItsElements, Truth, Size

-------------------------------------------------------------------------------
(***************************************************************************)
(* Reduce                                                                  *)
(***************************************************************************)
\* Moving the bits of a finite set does not change how many there are.
LEMMA ShiftKeepsSize ==
  ASSUME NEW s \in SUBSET Int, IsFiniteSet(s), NEW k \in Int
  PROVE  LET t == {b - k : b \in s} IN IsFiniteSet(t) /\ Cardinality(t) = Cardinality(s)
<1> DEFINE t == {b - k : b \in s}
           f == [b \in s |-> b - k]
<1>1. f \in [s -> t] /\ \A a, b \in s : f[a] = f[b] => a = b
  OBVIOUS
<1>2. \A c \in t : \E b \in s : f[b] = c
  OBVIOUS
<1> HIDE DEF f, t
<1>3. f \in Bijection(s, t)
  BY <1>1, <1>2, Fun_IsBij
<1>4. ExistsBijection(s, t)
  BY <1>3, Fun_ExistsBij
<1>5. IsFiniteSet(t) /\ Cardinality(t) = Cardinality(s)
  BY <1>4, FS_Bijection
<1> QED BY <1>5 DEF t

\* A byte has as many bits as its two halves.
LEMMA HalvesCount ==
  ASSUME NEW s \in Byte
  PROVE  LET low == s \cap Full(Half)
             high == {b - Half : b \in {c \in s : c >= Half}}
         IN  /\ Cardinality(low) \in Nat /\ Cardinality(high) \in Nat
             /\ Cardinality(s) = Cardinality(low) + Cardinality(high)
<1> DEFINE low == s \cap Full(Half)
           top == {c \in s : c >= Half}
           high == {b - Half : b \in top}
<1>1. G \in Nat /\ Half \in Nat /\ s \subseteq 0 .. G - 1
  BY BulkAssumption DEF Byte, Word, Full, Half
<1>2. IsFiniteSet(0 .. G - 1)
  BY <1>1, FS_Interval
<1>3. low \in SUBSET (0 .. G - 1) /\ top \in SUBSET (0 .. G - 1)
  BY <1>1
<1>4. s = low \cup top /\ low \cap top = {}
  <2>1. \A c \in s : c \in Full(Half) <=> ~(c >= Half)
    BY <1>1 DEF Full
  <2> QED BY <2>1
<1> HIDE DEF low, top
<1>5. /\ IsFiniteSet(low) /\ IsFiniteSet(top)
      /\ Cardinality(low) \in Nat /\ Cardinality(top) \in Nat
  BY <1>2, <1>3, FS_Subset, FS_CardinalityType
<1>6. Cardinality(s) = Cardinality(low) + Cardinality(top)
  <2>1. Cardinality(low \cup top) =
          Cardinality(low) + Cardinality(top) - Cardinality(low \cap top)
    BY <1>5, FS_Union
  <2>2. Cardinality({}) = 0
    BY FS_EmptySet
  <2>3. Cardinality(low \cup top) = Cardinality(s) /\ Cardinality(low \cap top) = 0
    BY <1>4, <2>2, Zenon
  <2> QED BY <1>5, <2>1, <2>3
<1>7. Cardinality(high) = Cardinality(top)
  <2>1. top \in SUBSET Int /\ Half \in Int
    BY <1>1, <1>3
  <2> QED BY <1>5, <2>1, ShiftKeepsSize
<1> HIDE DEF high
<1>8. Cardinality(high) \in Nat /\ Cardinality(s) = Cardinality(low) + Cardinality(high)
  BY <1>5, <1>6, <1>7
<1> QED BY <1>5, <1>8 DEF low, top, high

\* A register as Reduce fills it.
Registers == [0 .. 2 * G - 1 -> Byte]

\* The lookup by half bytes: what enters from the neighbour is masked off.
LEMMA ParityOfLane ==
  ASSUME NEW v \in Registers, NEW k \in 0 .. 2 * G - 1
  PROVE  ParityLane(v, k) <=> ParityOf(v[k]) = 1
<1> DEFINE above == {b + G : b \in v[k + 1]}
           pair == IF k % 2 = 0 THEN v[k] \cup above ELSE v[k]
           low == v[k] \cap Full(Half)
           high == Right(pair, Half) \cap Full(Half)
           top == {b - Half : b \in {c \in v[k] : c >= Half}}
<1>1. /\ G \in Nat \ {0} /\ Half \in Nat /\ G = 2 * Half
      /\ v[k] \in Byte /\ v[k] \subseteq 0 .. G - 1
  BY BulkAssumption DEF Registers, Byte, Word, Full, Half
<1>2. k % 2 = 0 => above \cap Int = above /\ \A b \in above : b >= G
  <2>1. k % 2 = 0 => k + 1 \in 0 .. 2 * G - 1
    BY <1>1
  <2>2. k % 2 = 0 => v[k + 1] \subseteq 0 .. G - 1
    BY <2>1 DEF Registers, Byte, Word, Full
  <2> QED BY <1>1, <2>2
<1>3. high = top
  <2>1. high = {b - Half : b \in {c \in pair : c >= Half}} \cap (0 .. Half - 1)
    BY DEF Right, Full
  <2>2. {c \in v[k] : c >= Half} \subseteq {c \in pair : c >= Half}
    OBVIOUS
  <2>3. \A b \in pair : b \in v[k] \/ (b \in Int /\ b >= G)
    BY <1>2
  <2> HIDE DEF pair, high
  <2> QED BY <1>1, <2>1, <2>2, <2>3
<1> HIDE DEF high, pair, above
<1>4. /\ Cardinality(low) \in Nat /\ Cardinality(high) \in Nat
      /\ Cardinality(v[k]) = Cardinality(low) + Cardinality(high)
  BY <1>1, <1>3, HalvesCount
<1> HIDE DEF low, top
<1>5. \A m, n \in Nat : ((m % 2) + (n % 2)) % 2 = (m + n) % 2
  OBVIOUS
<1>6. (ParityOf(low) + ParityOf(high)) % 2 = ParityOf(v[k])
  BY <1>4, <1>5 DEF ParityOf
<1>7. ParityLane(v, k) <=> (ParityOf(low) + ParityOf(high)) % 2 = 1
  BY DEF ParityLane, low, high, pair, above
<1> QED BY <1>6, <1>7

\* One bit per lane, whatever is reduced.
LEMMA MaskIsOfLanes ==
  ASSUME op \in Reductions, NEW v \in Registers
  PROVE  MaskOf(v) = {k \in 0 .. 2 * G - 1 : BitOf(v[k])}
<1>1. DOMAIN v = 0 .. 2 * G - 1
  BY DEF Registers
<1>2. CASE op = "Any"
  BY <1>1, <1>2 DEF MaskOf, BitOf
<1>3. CASE op = "All"
  BY <1>1, <1>3 DEF MaskOf, BitOf
<1>4. CASE op = "Parity"
  BY <1>1, <1>4, ParityOfLane DEF MaskOf, BitOf
<1> QED BY <1>2, <1>3, <1>4 DEF Reductions

\* What a step of Reduce appends: the bytes for the next n groups.
GroupBytes(n) ==
  [g \in 1 .. n |-> {i \in AllBits : BitOf(src[at + (g - 1) * G + i + 1])}]

\* Appending the next groups' bytes keeps bits at their element's position.
LEMMA GroupsKeep ==
  ASSUME TypeInv, ReducesByPosition, op \in Reductions, NEW n \in {1, 2},
         at + n * G <= Size, at' = at + n * G, dst' = dst \o GroupBytes(n),
         UNCHANGED <<build, op, predicate, src, answer>>
  PROVE  /\ dst' \in Seq(Byte) /\ at' \in 0 .. Size
         /\ ReducesByPosition'
<1>1. /\ G \in Nat \ {0} /\ at \in Nat /\ Size \in Nat /\ dst \in Seq(Byte) /\ Len(dst) \in Nat
      /\ Len(dst) * G = at /\ AllBits = 0 .. G - 1 /\ n \in Nat
  BY BulkAssumption DEF TypeInv, Size, ReducesByPosition, AllBits, Full
<1> DEFINE bytes == GroupBytes(n)
           byte(p) == {i \in AllBits : BitOf(src[p + i + 1])}
<1>2. \A g \in 1 .. Len(dst) : dst[g] = byte((g - 1) * G)
  BY Zenon DEF ReducesByPosition
<1>3. bytes \in [1 .. n -> Byte] /\ \A g \in 1 .. n : bytes[g] = byte(at + (g - 1) * G)
  BY DEF GroupBytes, Byte, Word, AllBits
<1> HIDE DEF bytes, byte
<1>4. bytes \in Seq(Byte) /\ Len(bytes) = n
  BY <1>1, <1>3, BytesAreSequence
<1>5. /\ dst' = dst \o bytes /\ dst' \in Seq(Byte) /\ Len(dst') = Len(dst) + n
      /\ \A k \in 1 .. Len(dst) : (dst')[k] = dst[k]
      /\ \A k \in 1 .. n : (dst')[Len(dst) + k] = bytes[k]
  BY <1>1, <1>4, Appended DEF bytes
<1>6. Len(dst') * G = at'
  <2>1. (Len(dst) + n) * G = Len(dst) * G + n * G
    BY <1>1
  <2> QED BY <1>1, <1>5, <2>1
<1>7. ASSUME NEW g \in 1 .. Len(dst')
      PROVE  (dst')[g] = byte((g - 1) * G)
  <2>1. CASE g <= Len(dst)
    <3>1. (dst')[g] = dst[g]
      BY <1>1, <1>5, <2>1
    <3> QED BY <1>1, <1>2, <2>1, <3>1
  <2>2. CASE Len(dst) < g
    <3>1. g - Len(dst) \in 1 .. n /\ Len(dst) + (g - Len(dst)) = g
      BY <1>1, <1>5, <2>2
    <3>2. (dst')[g] = byte(at + (g - Len(dst) - 1) * G)
      BY <1>3, <1>5, <3>1
    <3>3. (g - 1) * G = Len(dst) * G + (g - Len(dst) - 1) * G
      BY <1>1, <3>1
    <3> QED BY <1>1, <3>2, <3>3
  <2> QED BY <1>1, <1>5, <2>1, <2>2
<1>8. ASSUME NEW g \in 1 .. Len(dst')
      PROVE  (dst')[g] = {i \in AllBits : BitOf(src[(g - 1) * G + i + 1])'}
  <2>1. \A i : BitOf(src[(g - 1) * G + i + 1])' <=> BitOf(src[(g - 1) * G + i + 1])
    BY DEF BitOf
  <2>2. (dst')[g] = {i \in AllBits : BitOf(src[(g - 1) * G + i + 1])}
    BY <1>7, Zenon DEF byte
  <2> QED BY <2>1, <2>2
<1>9. ReducesByPosition'
  BY <1>6, <1>8, Zenon DEF ReducesByPosition
<1>10. at' \in 0 .. Size
  BY <1>1
<1> QED BY <1>5, <1>9, <1>10

\* A register filled with the elements from position at on.
LEMMA StagedIsRegister ==
  ASSUME TypeInv, NEW count \in {G, 2 * G}, at + count <= Size
  PROVE  LET v == Staged(at, count, 2 * G) IN
         /\ v \in Registers
         /\ \A k \in 0 .. count - 1 : v[k] = src[at + k + 1]
<1>1. /\ G \in Nat \ {0} /\ at \in Nat /\ Size \in Nat /\ count \in Nat /\ count <= 2 * G
      /\ src \in Seq(Byte) /\ Size = Len(src) /\ Zero \in Byte
  BY BulkAssumption DEF TypeInv, Size, Zero, Byte, Word
<1>2. ASSUME NEW k \in 0 .. 2 * G - 1
      PROVE  (IF k < count THEN src[at + k + 1] ELSE Zero) \in Byte
  <2>1. k < count => at + k + 1 \in 1 .. Len(src)
    BY <1>1
  <2> QED BY <1>1, <2>1
<1> QED BY <1>1, <1>2 DEF Staged, Registers

\* The two bytes of the mask of a register.
LEMMA BytesOfMask ==
  ASSUME op \in Reductions, NEW v \in Registers
  PROVE  /\ LowByte(MaskOf(v)) = {i \in AllBits : BitOf(v[i])}
         /\ HighByte(MaskOf(v)) = {i \in AllBits : BitOf(v[G + i])}
<1>1. G \in Nat \ {0} /\ AllBits = 0 .. G - 1
  BY BulkAssumption DEF AllBits, Full
<1> DEFINE mask == MaskOf(v)
<1>2. mask = {k \in 0 .. 2 * G - 1 : BitOf(v[k])}
  BY MaskIsOfLanes
<1> HIDE DEF mask
<1>3. \A i \in AllBits : i \in mask <=> BitOf(v[i])
  BY <1>1, <1>2
<1>4. \A i \in AllBits : G + i \in mask <=> BitOf(v[G + i])
  BY <1>1, <1>2
<1>5. \A i \in AllBits : i \in Right(mask, G) <=> G + i \in mask
  <2>1. mask \subseteq Int
    BY <1>1, <1>2
  <2>2. ASSUME NEW i \in AllBits
        PROVE  i \in Right(mask, G) <=> G + i \in mask
    <3>1. i \in Right(mask, G) => G + i \in mask
      BY <1>1, <2>1 DEF Right
    <3>2. G + i \in Int /\ G + i >= G /\ (G + i) - G = i
      BY <1>1
    <3> QED BY <3>1, <3>2 DEF Right
  <2> QED BY <2>2
<1>6. LowByte(mask) = {i \in AllBits : BitOf(v[i])}
  BY <1>3 DEF LowByte
<1>7. HighByte(mask) = {i \in AllBits : BitOf(v[G + i])}
  BY <1>4, <1>5 DEF HighByte
<1> QED BY <1>6, <1>7 DEF mask

\* Two groups at a time.
LEMMA ReducePairKeeps ==
  ASSUME TypeInv, ReducesByPosition, ReducePair
  PROVE  dst' \in Seq(Byte) /\ at' \in 0 .. Size /\ ReducesByPosition'
<1> DEFINE v == Staged(at, 2 * G, 2 * G)
           low == LowByte(MaskOf(v))
           high == HighByte(MaskOf(v))
<1>1. /\ op \in Reductions /\ at + 2 * G <= Size /\ at' = at + 2 * G
      /\ dst' = dst \o <<low, high>>
      /\ UNCHANGED <<build, op, predicate, src, answer>>
  BY DEF ReducePair, Write
<1>2. v \in Registers /\ \A k \in 0 .. 2 * G - 1 : v[k] = src[at + k + 1]
  BY <1>1, StagedIsRegister
<1> HIDE DEF v
<1>3. G \in Nat \ {0} /\ AllBits = 0 .. G - 1 /\ at \in Nat
  BY BulkAssumption DEF AllBits, Full, TypeInv
<1>4. low = {i \in AllBits : BitOf(src[at + (1 - 1) * G + i + 1])}
  <2>1. low = {i \in AllBits : BitOf(v[i])}
    BY <1>1, <1>2, BytesOfMask
  <2>2. ASSUME NEW i \in AllBits
        PROVE  v[i] = src[at + (1 - 1) * G + i + 1]
    <3>1. i \in 0 .. 2 * G - 1 /\ at + (1 - 1) * G + i + 1 = at + i + 1
      BY <1>3
    <3> QED BY <1>2, <3>1
  <2> QED BY <2>1, <2>2
<1>5. high = {i \in AllBits : BitOf(src[at + (2 - 1) * G + i + 1])}
  <2>1. high = {i \in AllBits : BitOf(v[G + i])}
    BY <1>1, <1>2, BytesOfMask
  <2>2. ASSUME NEW i \in AllBits
        PROVE  v[G + i] = src[at + (2 - 1) * G + i + 1]
    <3>1. G + i \in 0 .. 2 * G - 1 /\ at + (2 - 1) * G + i + 1 = at + (G + i) + 1
      BY <1>3
    <3> QED BY <1>2, <3>1
  <2> QED BY <2>1, <2>2
<1>6. <<low, high>> = GroupBytes(2)
  <2> DEFINE f == GroupBytes(2)
  <2>1. f[1] = low /\ f[2] = high /\ f = [g \in 1 .. 2 |-> f[g]]
    BY <1>4, <1>5 DEF GroupBytes
  <2> HIDE DEF f, low, high
  <2>2. <<low, high>> = f
    BY <2>1
  <2> QED BY <2>2 DEF f
<1> QED BY <1>1, <1>6, GroupsKeep

\* The odd group: what fills the register up is dropped.
LEMMA ReduceLastKeeps ==
  ASSUME TypeInv, ReducesByPosition, ReduceLast
  PROVE  dst' \in Seq(Byte) /\ at' \in 0 .. Size /\ ReducesByPosition'
<1> DEFINE v == Staged(at, G, 2 * G)
           low == LowByte(MaskOf(v))
<1>1. G \in Nat \ {0} /\ AllBits = 0 .. G - 1 /\ at \in Nat /\ Size \in Nat
  BY BulkAssumption DEF AllBits, Full, TypeInv, Size
<1>2. /\ op \in Reductions /\ at + 1 * G <= Size /\ at + G <= Size /\ at' = at + 1 * G
      /\ dst' = dst \o <<low>>
      /\ UNCHANGED <<build, op, predicate, src, answer>>
  BY <1>1 DEF ReduceLast, Write
<1>3. v \in Registers /\ \A k \in 0 .. G - 1 : v[k] = src[at + k + 1]
  BY <1>2, StagedIsRegister
<1> HIDE DEF v
<1>4. low = {i \in AllBits : BitOf(src[at + (1 - 1) * G + i + 1])}
  <2>1. low = {i \in AllBits : BitOf(v[i])}
    BY <1>2, <1>3, BytesOfMask
  <2>2. ASSUME NEW i \in AllBits
        PROVE  v[i] = src[at + (1 - 1) * G + i + 1]
    <3>1. i \in 0 .. G - 1 /\ at + (1 - 1) * G + i + 1 = at + i + 1
      BY <1>1
    <3> QED BY <1>3, <3>1
  <2> QED BY <2>1, <2>2
<1>5. <<low>> = GroupBytes(1)
  <2> DEFINE f == GroupBytes(1)
  <2>1. f[1] = low /\ f = [g \in 1 .. 1 |-> f[g]]
    BY <1>4 DEF GroupBytes
  <2> HIDE DEF f, low
  <2>2. <<low>> = f
    BY <2>1
  <2> QED BY <2>2 DEF f
<1> QED BY <1>2, <1>5, GroupsKeep

\* The portable loop: one group at a time.
LEMMA ReduceGroupKeeps ==
  ASSUME TypeInv, WholeGroups, ReducesByPosition, ReduceGroup
  PROVE  dst' \in Seq(Byte) /\ at' \in 0 .. Size /\ ReducesByPosition'
<1> DEFINE low == {i \in AllBits : BitOf(src[at + i + 1])}
<1>1. G \in Nat \ {0} /\ AllBits = 0 .. G - 1 /\ at \in Nat /\ Size \in Nat
  BY BulkAssumption DEF AllBits, Full, TypeInv, Size
<1>2. /\ op \in Reductions /\ at < Size /\ at' = at + 1 * G
      /\ UNCHANGED <<build, op, predicate, src, answer>>
  BY <1>1 DEF ReduceGroup, Write
<1>3. dst' = dst \o <<low>>
  BY DEF ReduceGroup, Write, BitOf
<1>4. at + 1 * G <= Size
  <2>1. PICK n \in Nat : Size = n * G
    BY <1>1, <1>2 DEF WholeGroups
  <2>2. Len(dst) \in Nat /\ Len(dst) * G = at
    BY <1>2 DEF ReducesByPosition, TypeInv
  <2>3. Len(dst) * G + G <= n * G
    BY <1>2, <2>1, <2>2, GroupLeft
  <2> QED BY <1>1, <2>1, <2>2, <2>3
<1>5. low = {i \in AllBits : BitOf(src[at + (1 - 1) * G + i + 1])}
  <2>1. ASSUME NEW i \in AllBits
        PROVE  at + (1 - 1) * G + i + 1 = at + i + 1
    BY <1>1
  <2> QED BY <2>1
<1>6. <<low>> = GroupBytes(1)
  <2> DEFINE f == GroupBytes(1)
  <2>1. f[1] = low /\ f = [g \in 1 .. 1 |-> f[g]]
    BY <1>5 DEF GroupBytes
  <2> HIDE DEF f, low
  <2>2. <<low>> = f
    BY <2>1
  <2> QED BY <2>2 DEF f
<1> QED BY <1>2, <1>3, <1>4, <1>6, GroupsKeep

-------------------------------------------------------------------------------
(***************************************************************************)
(* Expand                                                                  *)
(***************************************************************************)
\* The byte for position p (0-based) behind the first done bytes of the span.
Expanded(done, p) ==
  IF (p % G) \in src[done + (p \div G) + 1] THEN AllBits ELSE Zero

\* A position behind whole groups.
LEMMA PositionBehindGroups ==
  ASSUME NEW n \in Nat, NEW p \in Nat
  PROVE  /\ n * G + p \in Nat
         /\ (n * G + p) % G = p % G /\ (n * G + p) \div G = n + (p \div G)
<1>1. G \in Nat \ {0}
  BY BulkAssumption
<1>2. PICK q \in Nat, j \in 0 .. G - 1 : q = p \div G /\ j = (p % G) /\ p = q * G + j
  BY <1>1
<1>3. n * G \in Nat /\ q * G \in Nat /\ (n + q) * G = n * G + q * G
  BY <1>1
<1>4. (n + q) * G + j = n * G + p
  BY <1>1, <1>2, <1>3
<1>5. ((n + q) * G + j) \div G = n + q /\ ((n + q) * G + j) % G = j
  BY GroupPosition
<1>6. n * G + p \in Nat
  BY <1>3
<1> QED BY <1>2, <1>4, <1>5, <1>6

\* Appending the bytes of the next n of the span keeps bits at their position.
LEMMA BytesKeep ==
  ASSUME TypeInv, ExpandsByPosition, op = "Expand", NEW n \in {1, 2}, at + n <= Size,
         NEW count \in Nat, count = n * G,
         NEW f \in [1 .. count -> Byte], \A k \in 1 .. count : f[k] = Expanded(at, k - 1),
         at' = at + n, dst' = dst \o f, UNCHANGED <<build, op, predicate, src, answer>>
  PROVE  dst' \in Seq(Byte) /\ at' \in 0 .. Size /\ ExpandsByPosition'
<1> DEFINE base == at * G
<1>1. /\ G \in Nat \ {0} /\ at \in Nat /\ Size \in Nat /\ dst \in Seq(Byte) /\ Len(dst) \in Nat
      /\ Len(dst) = base /\ base \in Nat /\ (at + n) * G = base + count
  <2>1. G \in Nat \ {0} /\ at \in Nat /\ Size \in Nat /\ dst \in Seq(Byte) /\ Len(dst) \in Nat
    BY BulkAssumption DEF TypeInv, Size
  <2>2. Len(dst) = base
    BY DEF ExpandsByPosition
  <2>3. n \in Nat
    OBVIOUS
  <2>4. base \in Nat /\ (at + n) * G = base + n * G
    BY <2>1, <2>3
  <2> QED BY <2>1, <2>2, <2>4
<1> HIDE DEF base
<1>2. \A k \in 1 .. Len(dst) : dst[k] = Expanded(0, k - 1)
  <2>1. \A k \in 1 .. Len(dst) :
          dst[k] = IF (k - 1) % G \in src[(k - 1) \div G + 1] THEN AllBits ELSE Zero
    BY DEF ExpandsByPosition
  <2>2. ASSUME NEW k \in 1 .. Len(dst)
        PROVE  0 + ((k - 1) \div G) + 1 = (k - 1) \div G + 1
    BY <1>1
  <2> QED BY <2>1, <2>2 DEF Expanded
<1>3. f \in Seq(Byte) /\ Len(f) = count
  BY BytesAreSequence
<1>4. /\ dst' \in Seq(Byte) /\ Len(dst') = Len(dst) + count
      /\ \A k \in 1 .. Len(dst) : (dst')[k] = dst[k]
      /\ \A k \in 1 .. count : (dst')[Len(dst) + k] = f[k]
  <2>1. /\ dst \o f \in Seq(Byte) /\ Len(dst \o f) = Len(dst) + count
        /\ \A k \in 1 .. Len(dst) : (dst \o f)[k] = dst[k]
        /\ \A k \in 1 .. count : (dst \o f)[Len(dst) + k] = f[k]
    <3>1. dst \in Seq(Byte) /\ f \in Seq(Byte)
      BY <1>1, <1>3
    <3>2. /\ dst \o f \in Seq(Byte) /\ Len(dst \o f) = Len(dst) + Len(f)
          /\ \A k \in 1 .. Len(dst) : (dst \o f)[k] = dst[k]
          /\ \A k \in 1 .. Len(f) : (dst \o f)[Len(dst) + k] = f[k]
      BY <3>1, Appended, Zenon
    <3> QED BY <1>3, <3>2, Zenon
  <2> QED BY <2>1, Zenon
<1>5. Len(dst') = at' * G /\ at' \in 0 .. Size
  <2>1. at' = at + n /\ at + n <= Size
    OBVIOUS
  <2>2. at' * G = base + count
    BY <1>1, <2>1
  <2> QED BY <1>1, <1>4, <2>1, <2>2
<1>6. ASSUME NEW k \in 1 .. Len(dst')
      PROVE  (dst')[k] = Expanded(0, k - 1)
  <2>1. CASE k <= Len(dst)
    BY <1>1, <1>2, <1>4, <2>1
  <2>2. CASE Len(dst) < k
    <3> DEFINE j == k - Len(dst)
    <3>1. j \in 1 .. count /\ Len(dst) + j = k /\ j - 1 \in Nat /\ k - 1 = base + (j - 1)
      <4>1. Len(dst') = base + count /\ Len(dst) = base /\ base \in Nat /\ count \in Nat
        BY <1>1, <1>4
      <4> QED BY <4>1, <2>2
    <3> HIDE DEF j
    <3>2. (dst')[k] = Expanded(at, j - 1)
      BY <1>3, <1>4, <3>1
    <3>3. (k - 1) % G = (j - 1) % G /\ (k - 1) \div G = at + ((j - 1) \div G)
      <4>1. k - 1 = at * G + (j - 1)
        BY <3>1 DEF base
      <4>2. j - 1 \in Nat
        BY <3>1
      <4>3. (at * G + (j - 1)) % G = (j - 1) % G /\ (at * G + (j - 1)) \div G = at + ((j - 1) \div G)
        BY <1>1, <4>2, PositionBehindGroups
      <4> QED BY <4>1, <4>3, Zenon
    <3>4. 0 + ((k - 1) \div G) + 1 = at + ((j - 1) \div G) + 1
      <4>1. (j - 1) \div G \in Int
        BY <1>1, <3>1
      <4>2. \A d \in Int : 0 + (at + d) + 1 = at + d + 1
        BY <1>1
      <4> QED BY <3>3, <4>1, <4>2
    <3> QED BY <3>2, <3>3, <3>4 DEF Expanded
  <2> QED BY <1>1, <1>4, <2>1, <2>2
<1>7. \A k \in 1 .. Len(dst') :
        (dst')[k] = IF (k - 1) % G \in src[(k - 1) \div G + 1] THEN AllBits ELSE Zero
  <2>1. ASSUME NEW k \in 1 .. Len(dst')
        PROVE  0 + ((k - 1) \div G) + 1 = (k - 1) \div G + 1
    <3>1. k - 1 \in Nat /\ G \in Nat \ {0}
      BY <1>1, <1>4
    <3>2. (k - 1) \div G \in Int
      BY <3>1
    <3> QED BY <3>2
  <2> QED BY <1>6, <2>1 DEF Expanded
<1> QED BY <1>4, <1>5, <1>7 DEF ExpandsByPosition

\* A register of two bytes' expansions, lane by lane.
LEMMA PairExpands ==
  ASSUME NEW low \in Byte, NEW high \in Byte
  PROVE  /\ expandPair(low, high) \in [1 .. 2 * G -> Byte]
         /\ \A k \in 1 .. G : expandPair(low, high)[k] =
              IF (k - 1) % G \in low THEN AllBits ELSE Zero
         /\ \A k \in G + 1 .. 2 * G : expandPair(low, high)[k] =
              IF (k - 1) % G \in high THEN AllBits ELSE Zero
<1>1. G \in Nat \ {0} /\ Zero \in Byte /\ AllBits \in Byte
  BY BulkAssumption DEF Zero, AllBits, Byte, Word
<1> DEFINE lane(bits, k) == IF bits \cap {(k - 1) % G} = Zero THEN Zero ELSE AllBits
           f == expandPair(low, high)
<1>2. \A bits, k : lane(bits, k) = IF (k - 1) % G \in bits THEN AllBits ELSE Zero
  BY DEF Zero
<1>3. f = [k \in 1 .. 2 * G |-> lane(IF k <= G THEN low ELSE high, k)]
  BY DEF expandPair
<1> HIDE DEF lane, f
<1>4. f \in [1 .. 2 * G -> Byte]
  BY <1>1, <1>2, <1>3
<1>5. ASSUME NEW k \in 1 .. G
      PROVE  f[k] = IF (k - 1) % G \in low THEN AllBits ELSE Zero
  <2>1. k \in 1 .. 2 * G /\ k <= G
    BY <1>1
  <2>2. f[k] = lane(low, k)
    BY <1>3, <2>1
  <2> QED BY <1>2, <2>2
<1>6. ASSUME NEW k \in G + 1 .. 2 * G
      PROVE  f[k] = IF (k - 1) % G \in high THEN AllBits ELSE Zero
  <2>1. k \in 1 .. 2 * G /\ ~(k <= G)
    BY <1>1
  <2>2. f[k] = lane(high, k)
    BY <1>3, <2>1
  <2> QED BY <1>2, <2>2
<1> QED BY <1>4, <1>5, <1>6 DEF f

\* Where the positions of the first group, and of the second, come from.
LEMMA PositionInPair ==
  /\ \A k \in 1 .. G : (k - 1) % G = k - 1 /\ (k - 1) \div G = 0
  /\ \A k \in G + 1 .. 2 * G : (k - 1) \div G = 1
<1>1. G \in Nat \ {0}
  BY BulkAssumption
<1>2. ASSUME NEW k \in 1 .. G
      PROVE  (k - 1) % G = k - 1 /\ (k - 1) \div G = 0
  <2>1. k - 1 \in 0 .. G - 1 /\ 0 * G + (k - 1) = k - 1
    BY <1>1
  <2>2. (0 * G + (k - 1)) % G = k - 1 /\ (0 * G + (k - 1)) \div G = 0
    BY <2>1, GroupPosition
  <2> QED BY <2>1, <2>2
<1>3. ASSUME NEW k \in G + 1 .. 2 * G
      PROVE  (k - 1) \div G = 1
  <2>1. k - 1 - G \in 0 .. G - 1 /\ 1 * G + (k - 1 - G) = k - 1
    BY <1>1
  <2>2. (1 * G + (k - 1 - G)) \div G = 1
    BY <2>1, GroupPosition
  <2> QED BY <2>1, <2>2
<1> QED BY <1>2, <1>3

\* Two bytes at a time.
LEMMA ExpandPairKeeps ==
  ASSUME TypeInv, ExpandsByPosition, ExpandPair
  PROVE  dst' \in Seq(Byte) /\ at' \in 0 .. Size /\ ExpandsByPosition'
<1> DEFINE low == src[at + 1]
           high == src[at + 2]
           f == expandPair(low, high)
<1>1. /\ G \in Nat \ {0} /\ at \in Nat /\ Size \in Nat /\ at + 2 <= Size
      /\ op = "Expand" /\ at' = at + 2 /\ dst' = dst \o f
      /\ UNCHANGED <<build, op, predicate, src, answer>>
  BY BulkAssumption DEF ExpandPair, Write, TypeInv, Size
<1>2. low \in Byte /\ high \in Byte
  BY <1>1 DEF TypeInv, Size
<1>3. /\ f \in [1 .. 2 * G -> Byte]
      /\ \A k \in 1 .. G : f[k] = IF (k - 1) % G \in low THEN AllBits ELSE Zero
      /\ \A k \in G + 1 .. 2 * G : f[k] = IF (k - 1) % G \in high THEN AllBits ELSE Zero
  BY <1>2, PairExpands
<1> HIDE DEF f
<1>4. ASSUME NEW k \in 1 .. 2 * G
      PROVE  f[k] = Expanded(at, k - 1)
  <2>1. CASE k <= G
    <3>1. k \in 1 .. G /\ at + ((k - 1) \div G) + 1 = at + 1
      BY <1>1, <2>1, PositionInPair
    <3> QED BY <1>3, <3>1 DEF Expanded
  <2>2. CASE G < k
    <3>1. k \in G + 1 .. 2 * G /\ at + ((k - 1) \div G) + 1 = at + 2
      BY <1>1, <2>2, PositionInPair
    <3> QED BY <1>3, <3>1 DEF Expanded
  <2> QED BY <1>1, <2>1, <2>2
<1>5. 2 \in {1, 2} /\ 2 * G \in Nat
  BY <1>1
<1> QED BY <1>1, <1>3, <1>4, <1>5, BytesKeep

\* The odd byte: half a register is stored.
LEMMA ExpandLastKeeps ==
  ASSUME TypeInv, ExpandsByPosition, ExpandLast
  PROVE  dst' \in Seq(Byte) /\ at' \in 0 .. Size /\ ExpandsByPosition'
<1> DEFINE low == src[at + 1]
           pair == expandPair(low, Zero)
           f == LowHalf(pair)
<1>1. /\ G \in Nat \ {0} /\ at \in Nat /\ Size \in Nat /\ at + 1 <= Size /\ 1 * G = G
      /\ op = "Expand" /\ at' = at + 1 /\ dst' = dst \o f
      /\ UNCHANGED <<build, op, predicate, src, answer>>
  BY BulkAssumption DEF ExpandLast, Write, TypeInv, Size
<1>2. low \in Byte /\ Zero \in Byte
  BY <1>1 DEF TypeInv, Size, Zero, Byte, Word
<1>3. /\ pair \in [1 .. 2 * G -> Byte]
      /\ \A k \in 1 .. G : pair[k] = IF (k - 1) % G \in low THEN AllBits ELSE Zero
  BY <1>2, PairExpands
<1> HIDE DEF pair
<1>4. f \in [1 .. 1 * G -> Byte] /\ \A k \in 1 .. G : f[k] = pair[k]
  <2>1. f = [k \in 1 .. G |-> pair[k]]
    <3>1. pair \in Seq(Byte) /\ Len(pair) = 2 * G
      BY <1>1, <1>3, BytesAreSequence
    <3> QED BY <1>1, <3>1 DEF LowHalf
  <2>2. \A k \in 1 .. G : k \in 1 .. 2 * G
    BY <1>1
  <2> HIDE DEF f
  <2> QED BY <1>1, <1>3, <2>1, <2>2
<1> HIDE DEF f
<1>5. ASSUME NEW k \in 1 .. 1 * G
      PROVE  f[k] = Expanded(at, k - 1)
  <2>1. k \in 1 .. G /\ at + ((k - 1) \div G) + 1 = at + 1
    BY <1>1, PositionInPair
  <2> QED BY <1>3, <1>4, <2>1 DEF Expanded
<1> QED BY <1>1, <1>4, <1>5, BytesKeep

\* The portable loop: one byte at a time.
LEMMA ExpandGroupKeeps ==
  ASSUME TypeInv, ExpandsByPosition, ExpandGroup
  PROVE  dst' \in Seq(Byte) /\ at' \in 0 .. Size /\ ExpandsByPosition'
<1> DEFINE f == [k \in 1 .. G |-> IF k - 1 \in src[at + 1] THEN AllBits ELSE Zero]
<1>1. /\ G \in Nat \ {0} /\ at \in Nat /\ Size \in Nat /\ at + 1 <= Size /\ 1 * G = G
      /\ op = "Expand" /\ at' = at + 1 /\ dst' = dst \o f
      /\ UNCHANGED <<build, op, predicate, src, answer>>
  BY BulkAssumption DEF ExpandGroup, Write, TypeInv, Size
<1>2. f \in [1 .. 1 * G -> Byte]
  <2>1. Zero \in Byte /\ AllBits \in Byte
    BY DEF Zero, AllBits, Byte, Word
  <2> QED BY <1>1, <2>1
<1>3. ASSUME NEW k \in 1 .. 1 * G
      PROVE  f[k] = Expanded(at, k - 1)
  <2>1. k \in 1 .. G /\ (k - 1) % G = k - 1 /\ at + ((k - 1) \div G) + 1 = at + 1
    BY <1>1, PositionInPair
  <2> QED BY <2>1 DEF Expanded
<1> HIDE DEF f
<1> QED BY <1>1, <1>2, <1>3, BytesKeep

-------------------------------------------------------------------------------
(***************************************************************************)
(* The invariant                                                           *)
(***************************************************************************)
\* What is written by one kind of operation says nothing of the others.
LEMMA OtherOperations ==
  ASSUME TypeInv, WholeGroups, ComparesItsElements, UNCHANGED <<op, predicate, src>>
  PROVE  /\ (op \in Comparisons => op \notin Reductions /\ op # "Expand")
         /\ (op \in Reductions => op \notin Comparisons /\ op # "Expand")
         /\ (op = "Expand" => op \notin Reductions /\ op \notin Comparisons)
         /\ WholeGroups'
         /\ (answer' = answer => ComparesItsElements')
<1>1. WholeGroups'
  BY DEF WholeGroups, Size
<1>2. answer' = answer => ComparesItsElements'
  BY DEF ComparesItsElements, Size
<1> QED BY <1>1, <1>2 DEF Comparisons, Reductions

\* Every shape starts with an empty destination and an undecided comparison.
LEMMA InitHolds == Init => BulkInv
<1> SUFFICES ASSUME Init PROVE BulkInv
  OBVIOUS
<1>1. PICK c \in Calls : /\ build = c.build /\ op = c.op /\ predicate = c.predicate
                         /\ src = c.src
                         /\ dst = << >> /\ at = 0 /\ answer = "pending"
  BY DEF Init
<1>2. MaxElements \in Nat /\ MaxGroups \in Nat /\ G \in Nat
  BY BulkAssumption
<1>3. /\ op \in Operations /\ src \in Seq(Byte)
      /\ op \in Reductions => \E n \in Nat : src \in [1 .. G * n -> Byte]
  <2>1. CASE c \in [op : Comparisons, build : {"sse42"}, predicate : Byte,
                    src : SeqsUpTo(MaxElements, Byte)]
    <3>1. op \in Comparisons /\ \E n \in Nat : src \in [1 .. n -> Byte]
      BY <1>1, <1>2, <2>1 DEF SeqsUpTo
    <3> QED BY <3>1, BytesAreSequence DEF Operations, Comparisons, Reductions
  <2>2. CASE c \in [op : Reductions, build : {"sse42", "portable"}, predicate : {Zero},
                    src : UNION {[1 .. G * k -> Byte] : k \in 0 .. MaxGroups}]
    <3>1. op \in Reductions /\ \E n \in Nat : src \in [1 .. G * n -> Byte]
      <4> DEFINE spans == {[1 .. G * k -> Byte] : k \in 0 .. MaxGroups}
      <4>1. op \in Reductions /\ src \in UNION spans
        <5> HIDE DEF spans
        <5> QED BY <1>1, <2>2 DEF spans
      <4>2. PICK span \in spans : src \in span
        BY <4>1
      <4>3. PICK k \in 0 .. MaxGroups : span = [1 .. G * k -> Byte]
        BY <4>2
      <4> QED BY <1>2, <4>1, <4>2, <4>3
    <3>2. \A n \in Nat : G * n \in Nat
      BY <1>2
    <3> QED BY <3>1, <3>2, BytesAreSequence DEF Operations
  <2>3. CASE c \in [op : {"Expand"}, build : {"sse42", "portable"}, predicate : {Zero},
                    src : SeqsUpTo(MaxGroups, Byte)]
    <3>1. op = "Expand" /\ \E n \in Nat : src \in [1 .. n -> Byte]
      BY <1>1, <1>2, <2>3 DEF SeqsUpTo
    <3> QED BY <3>1, BytesAreSequence DEF Operations, Reductions
  <2> QED BY <2>1, <2>2, <2>3 DEF Calls
<1>4. Size \in Nat
  BY <1>3 DEF Size
<1>5. TypeInv
  BY <1>1, <1>3, <1>4 DEF TypeInv
<1>6. WholeGroups
  <2> SUFFICES ASSUME op \in Reductions
               PROVE  \E n \in 0 .. Size : Size = n * G
    BY DEF WholeGroups
  <2>1. PICK n \in Nat : src \in [1 .. G * n -> Byte]
    BY <1>3
  <2>2. G * n \in Nat /\ n * G = G * n /\ n <= G * n
    <3>1. G * n = n + (G - 1) * n /\ (G - 1) * n \in Nat
      BY BulkAssumption
    <3> QED BY <1>2, <3>1
  <2>3. Size = G * n
    BY <2>1, <2>2, BytesAreSequence DEF Size
  <2> QED BY <2>2, <2>3
<1>7. Passed /\ ComparesItsElements
  BY <1>1 DEF Passed, ComparesItsElements
<1>8. ReducesByPosition /\ ExpandsByPosition
  BY <1>1, <1>2 DEF ReducesByPosition, ExpandsByPosition
<1> QED BY <1>5, <1>6, <1>7, <1>8 DEF BulkInv

\* Every step of every operation keeps the invariant.
LEMMA NextKeeps ==
  ASSUME BulkInv, [Next]_vars
  PROVE  BulkInv'
<1>1. /\ TypeInv /\ WholeGroups /\ Passed
      /\ ComparesItsElements /\ ReducesByPosition /\ ExpandsByPosition
  BY DEF BulkInv
<1>2. CASE CompareRegister \/ CompareTail \/ CompareDone
  <2>1. UNCHANGED <<op, predicate, src, dst>> /\ op \in Comparisons
    BY <1>2 DEF CompareRegister, CompareTail, CompareDone, Answer
  <2>2. at' \in 0 .. Size /\ Passed' /\ ComparesItsElements'
    <3>1. CASE CompareRegister
      BY <1>1, <3>1, RegisterCompares
    <3>2. CASE CompareTail \/ CompareDone
      <4>1. at' = at
        BY <3>2 DEF CompareTail, CompareDone, Answer
      <4> QED BY <1>1, <3>2, <4>1, TailCompares, DoneCompares DEF TypeInv
    <3> QED BY <1>2, <3>1, <3>2
  <2>3. TypeInv'
    BY <1>1, <2>1, <2>2 DEF TypeInv, Size
  <2>4. WholeGroups' /\ op' \notin Reductions /\ op' # "Expand"
    BY <1>1, <2>1, OtherOperations
  <2> QED BY <2>2, <2>3, <2>4 DEF BulkInv, ReducesByPosition, ExpandsByPosition
<1>3. CASE ReducePair \/ ReduceLast \/ ReduceGroup
  <2>1. UNCHANGED <<op, predicate, src, answer>> /\ op \in Reductions
    BY <1>3 DEF ReducePair, ReduceLast, ReduceGroup, Write
  <2>2. dst' \in Seq(Byte) /\ at' \in 0 .. Size /\ ReducesByPosition'
    BY <1>1, <1>3, ReducePairKeeps, ReduceLastKeeps, ReduceGroupKeeps
  <2>3. TypeInv'
    BY <1>1, <2>1, <2>2 DEF TypeInv, Size
  <2>4. WholeGroups' /\ op' \notin Comparisons /\ op' # "Expand" /\ ComparesItsElements'
    BY <1>1, <2>1, OtherOperations
  <2> QED BY <2>2, <2>3, <2>4 DEF BulkInv, Passed, ExpandsByPosition
<1>4. CASE ExpandPair \/ ExpandLast \/ ExpandGroup
  <2>1. UNCHANGED <<op, predicate, src, answer>> /\ op = "Expand"
    BY <1>4 DEF ExpandPair, ExpandLast, ExpandGroup, Write
  <2>2. dst' \in Seq(Byte) /\ at' \in 0 .. Size /\ ExpandsByPosition'
    BY <1>1, <1>4, ExpandPairKeeps, ExpandLastKeeps, ExpandGroupKeeps
  <2>3. TypeInv'
    BY <1>1, <2>1, <2>2 DEF TypeInv, Size
  <2>4. WholeGroups' /\ op' \notin Comparisons /\ op' \notin Reductions /\ ComparesItsElements'
    BY <1>1, <2>1, OtherOperations
  <2> QED BY <2>2, <2>3, <2>4 DEF BulkInv, Passed, ReducesByPosition
<1>5. CASE UNCHANGED vars
  BY <1>1, <1>5 DEF vars, BulkInv, TypeInv, WholeGroups, Passed, ComparesItsElements,
     ReducesByPosition, ExpandsByPosition, Size, BitOf
<1> QED BY <1>2, <1>3, <1>4, <1>5 DEF Next

\* The properties with what makes them inductive.
THEOREM Invariant == Spec => []BulkInv
<1>1. BulkInv /\ [Next]_vars => BulkInv'
  BY NextKeeps
<1> QED BY <1>1, InitHolds, PTL DEF Spec

\* AnyEqual and AllEqual (SimdAlgo.h) answer for the elements of a span of any
\* length, and neither for the zeros that fill its last register nor too early.
THEOREM ComparisonsAreRight == Spec => []ComparesItsElements
<1>1. BulkInv => ComparesItsElements
  BY DEF BulkInv
<1> QED BY <1>1, Invariant, PTL

\* Reduce (SimdResample.h) puts the reduction of every source byte in the bit its
\* position names, by register and by group, for complete and odd groups.
THEOREM ReductionsKeepPositions == Spec => []ReducesByPosition
<1>1. BulkInv => ReducesByPosition
  BY DEF BulkInv
<1> QED BY <1>1, Invariant, PTL

\* Expand (SimdResample.h) stores the byte of every bit at the bit's position,
\* and as many bytes as there are bits.
THEOREM ExpansionsKeepPositions == Spec => []ExpandsByPosition
<1>1. BulkInv => ExpandsByPosition
  BY DEF BulkInv
<1> QED BY <1>1, Invariant, PTL
===============================================================================
