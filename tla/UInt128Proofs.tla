---------------------------- MODULE UInt128Proofs -----------------------------
(***************************************************************************)
(* uint128_t does, in every profile and for words of any width, what one   *)
(* integer of twice the width does: the calls that move and combine bits   *)
(* by the positions they hold, those that compute by the numbers the       *)
(* words stand for.                                                        *)
(***************************************************************************)
EXTENDS UInt128, FiniteSetTheorems, TLAPS

Data == [low : Word(H), high : Word(H)]

-------------------------------------------------------------------------------
\* Membership: each construct by the positions it holds.

\* Two words as sets of positions.
LEMMA Words0 ==
  ASSUME NEW x \in Data
  PROVE  /\ x.low \subseteq 0 .. H - 1
         /\ x.high \subseteq 0 .. H - 1
         /\ x = Pair(x.low, x.high)
BY UInt128Assumption DEF Data, Word, Full, Pair

\* A pair of words is a value.
LEMMA PairData ==
  ASSUME NEW a \in SUBSET (0 .. H - 1), NEW b \in SUBSET (0 .. H - 1)
  PROVE  Pair(a, b) \in Data /\ Pair(a, b).low = a /\ Pair(a, b).high = b
BY DEF Data, Word, Full, Pair

\* A position of the value is one of the low word or, less H, of the high one.
LEMMA InJoined ==
  ASSUME NEW x \in Data
  PROVE  /\ Joined(x) \subseteq 0 .. 2 * H - 1
         /\ \A b \in Int : b \in Joined(x) <=> b \in x.low \/ b - H \in x.high
<1>1. x.low \subseteq 0 .. H - 1 /\ x.high \subseteq 0 .. H - 1
  BY Words0
<1>2. H \in Nat
  BY UInt128Assumption
<1>3. ASSUME NEW b \in Int
      PROVE  b \in {c + H : c \in x.high} <=> b - H \in x.high
  BY <1>1, <1>2
<1> QED
  BY <1>1, <1>2, <1>3 DEF Joined

\* A pair joins to the set T when it does so position by position.
LEMMA JoinsTo ==
  ASSUME NEW x \in Data, NEW T \in SUBSET Int,
         \A b \in Int : b \in T <=> b \in x.low \/ b - H \in x.high
  PROVE  Joined(x) = T
<1>1. Joined(x) \subseteq Int
  BY InJoined, UInt128Assumption
<1>2. \A b \in Int : b \in Joined(x) <=> b \in T
  BY InJoined
<1> QED
  BY <1>1, <1>2

\* A position of a word shifted left.
LEMMA InLeft ==
  ASSUME NEW w \in Nat, NEW s \in SUBSET Int, NEW k \in Int
  PROVE  /\ Left(w, s, k) \subseteq 0 .. w - 1
         /\ \A b \in Int : b \in Left(w, s, k) <=> b \in 0 .. w - 1 /\ b - k \in s
<1>1. ASSUME NEW b \in Int
      PROVE  b \in {c + k : c \in s} <=> b - k \in s
  OBVIOUS
<1> QED
  BY <1>1 DEF Left, Full

\* A position of a word shifted right.
LEMMA InRight ==
  ASSUME NEW s \in SUBSET Int, NEW k \in Int
  PROVE  /\ Right(s, k) \subseteq Nat
         /\ \A b \in Int : b \in Right(s, k) <=> b >= 0 /\ b + k \in s
<1>1. ASSUME NEW b \in Int
      PROVE  b \in {c - k : c \in {d \in s : d >= k}} <=> b >= 0 /\ b + k \in s
  OBVIOUS
<1>2. ASSUME NEW b \in Right(s, k)
      PROVE  b \in Nat
  BY DEF Right
<1> QED
  BY <1>1, <1>2 DEF Right

-------------------------------------------------------------------------------
\* The shifts.  S is the number of the integer's bits, as a name for the proofs.

\* A left shift of the pair by 0 < k < 2 * H in words: below H the high word takes
\* what the low one loses, from H on it takes the low word.
LEMMA LeftByWords ==
  ASSUME NEW x \in Data, NEW k \in Int, 0 <= k, NEW y \in Data,
         \A b \in 0 .. H - 1 : b \in y.low <=> b - k \in x.low,
         \A b \in 0 .. H - 1 : b \in y.high <=>
            b - k \in x.high \/ b + H - k \in x.low
  PROVE  Joined(y) = Wide!Left(2 * H, Joined(x), k)
<1> DEFINE T == Wide!Left(2 * H, Joined(x), k)
<1>1. H \in Nat /\ 2 * H \in Nat /\ Joined(x) \in SUBSET Int
  BY InJoined, UInt128Assumption
<1>2. Wide!Left(2 * H, Joined(x), k) = Left(2 * H, Joined(x), k)
  BY DEF Wide!Left, Left, Wide!Full, Full
<1>3. T \in SUBSET Int
  BY <1>1, <1>2, InLeft
<1>4. ASSUME NEW b \in Int
      PROVE  b \in T <=> b \in y.low \/ b - H \in y.high
  <2>1. b \in T <=> b \in 0 .. 2 * H - 1 /\ b - k \in Joined(x)
    BY <1>1, <1>2, InLeft
  <2>2. b - k \in Joined(x) <=> b - k \in x.low \/ b - k - H \in x.high
    BY InJoined
  <2>3. /\ x.low \subseteq 0 .. H - 1 /\ x.high \subseteq 0 .. H - 1
        /\ y.low \subseteq 0 .. H - 1 /\ y.high \subseteq 0 .. H - 1
    BY Words0
  <2>4. CASE b \in 0 .. H - 1
    BY <2>1, <2>2, <2>3, <2>4, <1>1
  <2>5. CASE b \in H .. 2 * H - 1
    <3>1. b - H \in 0 .. H - 1
      BY <2>5, <1>1
    <3>2. b - H \in y.high <=> (b - H) - k \in x.high \/ (b - H) + H - k \in x.low
      BY <3>1
    <3>3. (b - H) - k = b - k - H /\ (b - H) + H - k = b - k
      BY <1>1
    <3> QED
      BY <2>1, <2>2, <2>3, <2>5, <3>2, <3>3, <1>1
  <2>6. CASE b \notin 0 .. 2 * H - 1
    BY <2>1, <2>3, <2>6, <1>1
  <2> QED
    BY <2>4, <2>5, <2>6, <1>1
<1> QED
  BY <1>3, <1>4, JoinsTo

\* The right shift by the same argument, downwards.
LEMMA RightByWords ==
  ASSUME NEW x \in Data, NEW k \in Int, 0 <= k, NEW y \in Data,
         \A b \in 0 .. H - 1 : b \in y.high <=> b + k \in x.high,
         \A b \in 0 .. H - 1 : b \in y.low <=>
            b + k \in x.low \/ (b + k) - H \in x.high
  PROVE  Joined(y) = Right(Joined(x), k)
<1>1. H \in Nat /\ Joined(x) \in SUBSET Int
  BY InJoined, UInt128Assumption
<1>2. Right(Joined(x), k) \in SUBSET Int
  BY <1>1, InRight
<1>3. ASSUME NEW b \in Int
      PROVE  b \in Right(Joined(x), k) <=> b \in y.low \/ b - H \in y.high
  <2>1. b \in Right(Joined(x), k) <=> b >= 0 /\ b + k \in Joined(x)
    BY <1>1, InRight
  <2>2. b + k \in Joined(x) <=> b + k \in x.low \/ (b + k) - H \in x.high
    <3>1. b + k \in Int
      OBVIOUS
    <3> QED
      BY <3>1, InJoined
  <2>3. /\ x.low \subseteq 0 .. H - 1 /\ x.high \subseteq 0 .. H - 1
        /\ y.low \subseteq 0 .. H - 1 /\ y.high \subseteq 0 .. H - 1
    BY Words0
  <2>4. CASE b \in 0 .. H - 1
    BY <2>1, <2>2, <2>3, <2>4, <1>1
  <2>5. CASE b \in H .. 2 * H - 1
    <3>1. b - H \in 0 .. H - 1
      BY <2>5, <1>1
    <3>2. b - H \in y.high <=> (b - H) + k \in x.high
      BY <3>1
    <3>3. (b - H) + k = (b + k) - H
      BY <1>1
    <3> QED
      BY <2>1, <2>2, <2>3, <2>5, <3>2, <3>3, <1>1
  <2>6. CASE b \notin 0 .. 2 * H - 1
    BY <2>1, <2>2, <2>3, <2>6, <1>1
  <2> QED
    BY <2>4, <2>5, <2>6, <1>1
<1> QED
  BY <1>2, <1>3, JoinsTo

\* A word shifted left and what a right shift brings into it, as one word.
LEMMA WordsStayWords ==
  ASSUME NEW x \in Data, NEW k \in Int
  PROVE  /\ x.low \in SUBSET Int /\ x.high \in SUBSET Int /\ H \in Nat
         /\ Left(H, x.low, k) \subseteq 0 .. H - 1
         /\ Left(H, x.high, k) \subseteq 0 .. H - 1
         /\ k >= 0 => Right(x.low, k) \subseteq 0 .. H - 1
         /\ k >= 0 => Right(x.high, k) \subseteq 0 .. H - 1
         /\ {} \subseteq 0 .. H - 1
<1>1. x.low \in SUBSET Int /\ x.high \in SUBSET Int /\ H \in Nat
  BY Words0, UInt128Assumption
<1>2. ASSUME NEW s \in SUBSET (0 .. H - 1), k >= 0
      PROVE  Right(s, k) \subseteq 0 .. H - 1
  <2>1. ASSUME NEW b \in Right(s, k)
        PROVE  b \in 0 .. H - 1
    BY <1>1, <1>2, <2>1, InRight
  <2> QED
    BY <2>1
<1> QED
  BY <1>1, <1>2, InLeft, Words0

\* The whole-register shift of the instructions and the shift of the words.
LEMMA ShiftLeftExact ==
  ASSUME NEW x \in Data, NEW k \in 0 .. 2 * H
  PROVE  /\ shift_left(x, k) \in Data
         /\ Joined(shift_left(x, k)) = Wide!Left(2 * H, Joined(x), k)
<1> DEFINE y == shift_left(x, k)
<1> DEFINE Low(b) == b \in y.low <=> b - k \in x.low
           High(b) == b \in y.high <=> b - k \in x.high \/ b + H - k \in x.low
<1> SUFFICES y \in Data /\ \A b \in 0 .. H - 1 : Low(b) /\ High(b)
  BY LeftByWords, UInt128Assumption
<1>1. /\ H \in Nat /\ k \in Int /\ 0 <= k /\ k <= 2 * H /\ H > 0
      /\ x.low \subseteq 0 .. H - 1 /\ x.high \subseteq 0 .. H - 1
  BY Words0, UInt128Assumption
<1>2. CASE k = 0
  <2>1. y = x
    BY <1>1, <1>2 DEF shift_left
  <2> QED
    BY <1>1, <1>2, <2>1
<1>3. CASE k = 2 * H
  <2>1. y = Pair({}, {})
    BY <1>1, <1>3 DEF shift_left, Whole, Zero
  <2> QED
    BY <1>1, <1>3, <2>1, PairData
<1>4. CASE 0 < k /\ k < H
  <2> DEFINE carried == Right(x.low, H - k)
  <2>1. y = Pair(Left(H, x.low, k), Left(H, x.high, k) \cup carried)
    BY <1>1, <1>4
    DEF shift_left, shift_bits_left_slow, bitwise_or, SLL, SRL, LaneUp, Pair, Zero
  <2>2. /\ Left(H, x.low, k) \subseteq 0 .. H - 1
        /\ Left(H, x.high, k) \cup carried \subseteq 0 .. H - 1
    BY <1>1, <1>4, WordsStayWords
  <2>3. y \in Data /\ y.low = Left(H, x.low, k) /\ y.high = Left(H, x.high, k) \cup carried
    BY <2>1, <2>2, PairData
  <2>4. ASSUME NEW b \in 0 .. H - 1
        PROVE  Low(b) /\ High(b)
    <3>1. /\ b \in Left(H, x.low, k) <=> b - k \in x.low
          /\ b \in Left(H, x.high, k) <=> b - k \in x.high
      BY <1>1, InLeft
    <3>2. b \in carried <=> b + (H - k) \in x.low
      BY <1>1, InRight
    <3>3. b + (H - k) = b + H - k
      BY <1>1
    <3> QED
      BY <2>3, <3>1, <3>2, <3>3
  <2> QED
    BY <2>3, <2>4
<1>5. CASE H <= k /\ k < 2 * H
  <2>1. y = Pair({}, Left(H, x.low, k - H))
    <3>1. CASE ~Simd
      BY <1>1, <1>5, <3>1 DEF shift_left, Zero
    <3>2. CASE Simd /\ k = H
      <4>1. y = LaneUp(x)
        BY <1>1, <1>5, <3>2 DEF shift_left, shift_bits_left_slow
      <4>2. Left(H, x.low, 0) = x.low
        <5>1. x.low \in SUBSET Int /\ Left(H, x.low, 0) \in SUBSET Int
          BY <1>1, InLeft
        <5>2. \A b \in Int : b \in Left(H, x.low, 0) <=> b \in x.low
          BY <1>1, InLeft
        <5> QED
          BY <5>1, <5>2
      <4> QED
        BY <1>1, <3>2, <4>1, <4>2 DEF LaneUp, Zero
    <3>3. CASE Simd /\ H < k
      <4>1. y = SLL(LaneUp(x), k - H)
        BY <1>1, <1>5, <3>3 DEF shift_left, shift_bits_left_slow
      <4>2. Left(H, {}, k - H) = {}
        BY DEF Left
      <4> QED
        BY <4>1, <4>2 DEF SLL, LaneUp, Pair, Zero
    <3> QED
      BY <1>1, <1>5, <3>1, <3>2, <3>3
  <2>2. Left(H, x.low, k - H) \subseteq 0 .. H - 1
    BY <1>1, WordsStayWords
  <2>3. y \in Data /\ y.low = {} /\ y.high = Left(H, x.low, k - H)
    BY <2>1, <2>2, PairData
  <2>4. ASSUME NEW b \in 0 .. H - 1
        PROVE  Low(b) /\ High(b)
    <3>1. b \in Left(H, x.low, k - H) <=> b - (k - H) \in x.low
      BY <1>1, InLeft
    <3>2. b - (k - H) = b + H - k
      BY <1>1
    <3> QED
      BY <1>1, <1>5, <2>3, <3>1, <3>2
  <2> QED
    BY <2>3, <2>4
<1> QED
  BY <1>1, <1>2, <1>3, <1>4, <1>5

\* A right shift by any count is that of the joined words.
LEMMA ShiftRightExact ==
  ASSUME NEW x \in Data, NEW k \in 0 .. 2 * H
  PROVE  /\ shift_right(x, k) \in Data
         /\ Joined(shift_right(x, k)) = Right(Joined(x), k)
<1> DEFINE y == shift_right(x, k)
<1> DEFINE High(b) == b \in y.high <=> b + k \in x.high
           Low(b) == b \in y.low <=> b + k \in x.low \/ (b + k) - H \in x.high
<1> SUFFICES y \in Data /\ \A b \in 0 .. H - 1 : Low(b) /\ High(b)
  BY RightByWords, UInt128Assumption
<1>1. /\ H \in Nat /\ k \in Int /\ 0 <= k /\ k <= 2 * H /\ H > 0
      /\ x.low \subseteq 0 .. H - 1 /\ x.high \subseteq 0 .. H - 1
  BY Words0, UInt128Assumption
<1>2. CASE k = 0
  <2>1. y = x
    BY <1>1, <1>2 DEF shift_right
  <2> QED
    BY <1>1, <1>2, <2>1
<1>3. CASE k = 2 * H
  <2>1. y = Pair({}, {})
    BY <1>1, <1>3 DEF shift_right, Whole, Zero
  <2> QED
    BY <1>1, <1>3, <2>1, PairData
<1>4. CASE 0 < k /\ k < H
  <2> DEFINE carried == Left(H, x.high, H - k)
  <2>1. y = Pair(Right(x.low, k) \cup carried, Right(x.high, k))
    BY <1>1, <1>4
    DEF shift_right, shift_bits_right_slow, bitwise_or, SLL, SRL, LaneDown, Pair, Zero
  <2>2. /\ Right(x.high, k) \subseteq 0 .. H - 1
        /\ Right(x.low, k) \cup carried \subseteq 0 .. H - 1
    BY <1>1, <1>4, WordsStayWords
  <2>3. y \in Data /\ y.high = Right(x.high, k) /\ y.low = Right(x.low, k) \cup carried
    BY <2>1, <2>2, PairData
  <2>4. ASSUME NEW b \in 0 .. H - 1
        PROVE  Low(b) /\ High(b)
    <3>1. /\ b \in Right(x.low, k) <=> b + k \in x.low
          /\ b \in Right(x.high, k) <=> b + k \in x.high
      BY <1>1, InRight
    <3>2. b \in carried <=> b - (H - k) \in x.high
      BY <1>1, InLeft
    <3>3. b - (H - k) = (b + k) - H
      BY <1>1
    <3> QED
      BY <2>3, <3>1, <3>2, <3>3
  <2> QED
    BY <2>3, <2>4
<1>5. CASE H <= k /\ k < 2 * H
  <2>1. y = Pair(Right(x.high, k - H), {})
    <3>1. CASE ~Simd
      BY <1>1, <1>5, <3>1 DEF shift_right, Zero
    <3>2. CASE Simd /\ k = H
      <4>1. y = LaneDown(x)
        BY <1>1, <1>5, <3>2 DEF shift_right, shift_bits_right_slow
      <4>2. Right(x.high, 0) = x.high
        <5>1. x.high \in SUBSET Int /\ Right(x.high, 0) \in SUBSET Int
          BY <1>1, InRight
        <5>2. \A b \in Int : b \in Right(x.high, 0) <=> b \in x.high
          BY <1>1, InRight
        <5> QED
          BY <5>1, <5>2
      <4> QED
        BY <1>1, <3>2, <4>1, <4>2 DEF LaneDown, Zero
    <3>3. CASE Simd /\ H < k
      <4>1. y = SRL(LaneDown(x), k - H)
        BY <1>1, <1>5, <3>3 DEF shift_right, shift_bits_right_slow
      <4>2. Right({}, k - H) = {}
        BY DEF Right
      <4> QED
        BY <4>1, <4>2 DEF SRL, LaneDown, Pair, Zero
    <3> QED
      BY <1>1, <1>5, <3>1, <3>2, <3>3
  <2>2. Right(x.high, k - H) \subseteq 0 .. H - 1
    BY <1>1, <1>5, WordsStayWords
  <2>3. y \in Data /\ y.high = {} /\ y.low = Right(x.high, k - H)
    BY <2>1, <2>2, PairData
  <2>4. ASSUME NEW b \in 0 .. H - 1
        PROVE  Low(b) /\ High(b)
    <3>1. b \in Right(x.high, k - H) <=> b + (k - H) \in x.high
      BY <1>1, InRight
    <3>2. b + (k - H) = (b + k) - H
      BY <1>1
    <3> QED
      BY <1>1, <1>5, <2>3, <3>1, <3>2
  <2> QED
    BY <2>3, <2>4
<1> QED
  BY <1>1, <1>2, <1>3, <1>4, <1>5

\* A count of any size is one of 0 .. 2 * H: the same shift of 2 * H bits.
LEMMA ShiftsExact ==
  ASSUME NEW x \in Data, NEW count \in Int
  PROVE  /\ ShiftLeft(x, count) \in Data /\ ShiftRight(x, count) \in Data
         /\ Joined(ShiftLeft(x, count)) =
               Wide!Left(2 * H, Joined(x), Wide!AtLeastZero(count))
         /\ Joined(ShiftRight(x, count)) =
               Wide!Right(Joined(x), Wide!AtLeastZero(count))
<1> DEFINE k == normalize_shift(count)
           n == Wide!AtLeastZero(count)
<1>1. H \in Nat /\ H > 0 /\ 2 * H \in Nat /\ k \in 0 .. 2 * H /\ n \in Nat
  BY UInt128Assumption DEF normalize_shift, Wide!AtLeastZero
<1>2. Joined(x) \in SUBSET (0 .. 2 * H - 1) /\ Joined(x) \in SUBSET Int
  BY InJoined
<1>3. k = n \/ (k = 2 * H /\ n >= 2 * H)
  BY <1>1 DEF normalize_shift, Wide!AtLeastZero
<1>4. Left(2 * H, Joined(x), k) = Left(2 * H, Joined(x), n)
  <2>1. CASE k = n
    BY <2>1
  <2>2. CASE k = 2 * H /\ n >= 2 * H
    <3>1. \A b \in Int : b \notin Left(2 * H, Joined(x), k)
      BY <1>1, <1>2, <2>2, InLeft
    <3>2. \A b \in Int : b \notin Left(2 * H, Joined(x), n)
      BY <1>1, <1>2, <2>2, InLeft
    <3>3. /\ Left(2 * H, Joined(x), k) \subseteq Int
          /\ Left(2 * H, Joined(x), n) \subseteq Int
      BY <1>1, <1>2, InLeft
    <3> QED
      BY <3>1, <3>2, <3>3
  <2> QED
    BY <1>3, <2>1, <2>2
<1>5. Right(Joined(x), k) = Right(Joined(x), n)
  <2>1. CASE k = n
    BY <2>1
  <2>2. CASE k = 2 * H /\ n >= 2 * H
    <3>1. \A b \in Int : b \notin Right(Joined(x), k)
      BY <1>1, <1>2, <2>2, InRight
    <3>2. \A b \in Int : b \notin Right(Joined(x), n)
      BY <1>1, <1>2, <2>2, InRight
    <3>3. Right(Joined(x), k) \subseteq Int /\ Right(Joined(x), n) \subseteq Int
      BY <1>1, <1>2, InRight
    <3> QED
      BY <3>1, <3>2, <3>3
  <2> QED
    BY <1>3, <2>1, <2>2
<1>6. /\ Wide!Left(2 * H, Joined(x), n) = Left(2 * H, Joined(x), n)
      /\ Wide!Right(Joined(x), n) = Right(Joined(x), n)
      /\ Wide!Left(2 * H, Joined(x), k) = Left(2 * H, Joined(x), k)
  BY DEF Wide!Left, Left, Wide!Full, Full, Wide!Right, Right
<1>7. ShiftLeft(x, count) = shift_left(x, k) /\ ShiftRight(x, count) = shift_right(x, k)
  BY DEF ShiftLeft, ShiftRight
<1> HIDE DEF k, n
<1> QED
  BY <1>1, <1>4, <1>5, <1>6, <1>7, ShiftLeftExact, ShiftRightExact DEF k, n

-------------------------------------------------------------------------------
\* Logic, masks and extraction.

\* Logic word by word is logic of the joined words.
LEMMA LogicExact ==
  ASSUME NEW x \in Data, NEW y \in Data
  PROVE  /\ bitwise_and(x, y) \in Data
         /\ Joined(bitwise_and(x, y)) = Joined(x) \cap Joined(y)
         /\ bitwise_or(x, y) \in Data
         /\ Joined(bitwise_or(x, y)) = Joined(x) \cup Joined(y)
         /\ bitwise_xor(x, y) \in Data
         /\ Joined(bitwise_xor(x, y)) = Xor(Joined(x), Joined(y))
         /\ bitwise_not(x) \in Data
         /\ Joined(bitwise_not(x)) = (0 .. 2 * H - 1) \ Joined(x)
<1>1. /\ x.low \subseteq 0 .. H - 1 /\ x.high \subseteq 0 .. H - 1
      /\ y.low \subseteq 0 .. H - 1 /\ y.high \subseteq 0 .. H - 1
      /\ H \in Nat
  BY Words0, UInt128Assumption
<1> DEFINE In(z, b) == b \in z.low \/ b - H \in z.high
<1>2. /\ Joined(x) \subseteq 0 .. 2 * H - 1 /\ Joined(y) \subseteq 0 .. 2 * H - 1
      /\ \A b \in Int : b \in Joined(x) <=> In(x, b)
      /\ \A b \in Int : b \in Joined(y) <=> In(y, b)
  BY InJoined
<1>3. bitwise_and(x, y) \in Data /\ Joined(bitwise_and(x, y)) = Joined(x) \cap Joined(y)
  <2>1. bitwise_and(x, y) \in Data
    BY <1>1, PairData DEF bitwise_and
  <2>2. \A b \in Int : b \in Joined(x) \cap Joined(y) <=> In(bitwise_and(x, y), b)
    BY <1>1, <1>2 DEF bitwise_and, Pair
  <2>3. Joined(x) \cap Joined(y) \in SUBSET Int
    BY <1>2
  <2> QED
    BY <2>1, <2>2, <2>3, JoinsTo
<1>4. bitwise_or(x, y) \in Data /\ Joined(bitwise_or(x, y)) = Joined(x) \cup Joined(y)
  <2>1. bitwise_or(x, y) \in Data
    BY <1>1, PairData DEF bitwise_or
  <2>2. \A b \in Int : b \in Joined(x) \cup Joined(y) <=> In(bitwise_or(x, y), b)
    BY <1>1, <1>2 DEF bitwise_or, Pair
  <2>3. Joined(x) \cup Joined(y) \in SUBSET Int
    BY <1>2
  <2> QED
    BY <2>1, <2>2, <2>3, JoinsTo
<1>5. bitwise_xor(x, y) \in Data /\ Joined(bitwise_xor(x, y)) = Xor(Joined(x), Joined(y))
  <2>1. bitwise_xor(x, y) \in Data
    BY <1>1, PairData DEF bitwise_xor, Xor
  <2>2. \A b \in Int : b \in Xor(Joined(x), Joined(y)) <=> In(bitwise_xor(x, y), b)
    BY <1>1, <1>2 DEF bitwise_xor, Xor, Pair
  <2>3. Xor(Joined(x), Joined(y)) \in SUBSET Int
    BY <1>2 DEF Xor
  <2> QED
    BY <2>1, <2>2, <2>3, JoinsTo
<1>6. /\ bitwise_not(x) \in Data
      /\ Joined(bitwise_not(x)) = (0 .. 2 * H - 1) \ Joined(x)
  <2>1. bitwise_not(x) \in Data
    BY <1>1, PairData DEF bitwise_not, Complement, Full
  <2>2. \A b \in Int : b \in (0 .. 2 * H - 1) \ Joined(x) <=> In(bitwise_not(x), b)
    BY <1>1, <1>2 DEF bitwise_not, Complement, Full, Pair
  <2>3. ((0 .. 2 * H - 1) \ Joined(x)) \in SUBSET Int
    OBVIOUS
  <2> QED
    BY <2>1, <2>2, <2>3, JoinsTo
<1> QED
  BY <1>3, <1>4, <1>5, <1>6

\* create_mask is the low ones of the joined words.
LEMMA MaskExact ==
  ASSUME NEW n \in Int
  PROVE  /\ create_mask(n) \in Data
         /\ Joined(create_mask(n)) = {b \in 0 .. 2 * H - 1 : b < n}
<1> DEFINE y == create_mask(n)
           T == {b \in 0 .. 2 * H - 1 : b < n}
<1>1. H \in Nat /\ H > 0
  BY UInt128Assumption
<1>2. y = Pair({b \in 0 .. H - 1 : b < n}, {b \in 0 .. H - 1 : b < n - H})
  <2> DEFINE L == {b \in 0 .. H - 1 : b < n}
             U == {b \in 0 .. H - 1 : b < n - H}
  <2>1. CASE n <= 0
    <3>1. L = {} /\ U = {}
      BY <1>1, <2>1
    <3>2. y = Pair({}, {})
      BY <1>1, <2>1 DEF create_mask, Whole, Zero
    <3> QED
      BY <3>1, <3>2
  <2>2. CASE n >= 2 * H
    <3>1. L = 0 .. H - 1 /\ U = 0 .. H - 1
      BY <1>1, <2>2
    <3>2. y = Pair(0 .. H - 1, 0 .. H - 1)
      BY <1>1, <2>2 DEF create_mask, AllOnes, Full
    <3> QED
      BY <3>1, <3>2
  <2>3. CASE H <= n /\ n < 2 * H
    <3>1. L = 0 .. H - 1
      BY <1>1, <2>3
    <3>2. y = Pair(0 .. H - 1, U)
      BY <1>1, <2>3 DEF create_mask, AllOnes, Full, LowOnes
    <3> QED
      BY <3>1, <3>2
  <2>4. CASE 0 < n /\ n < H
    <3>1. U = {}
      BY <1>1, <2>4
    <3>2. y = Pair(L, {})
      BY <1>1, <2>4 DEF create_mask, AllOnes, Full, LowOnes, Zero
    <3> QED
      BY <3>1, <3>2
  <2> QED
    BY <1>1, <2>1, <2>2, <2>3, <2>4
<1>3. y \in Data /\ y.low = {b \in 0 .. H - 1 : b < n}
                /\ y.high = {b \in 0 .. H - 1 : b < n - H}
  BY <1>2, PairData
<1>4. \A b \in Int : b \in T <=> b \in y.low \/ b - H \in y.high
  BY <1>1, <1>3
<1>5. T \in SUBSET Int
  OBVIOUS
<1> QED
  BY <1>3, <1>4, <1>5, JoinsTo

\* A mask at an offset is the mask shifted.
LEMMA MaskAtExact ==
  ASSUME NEW width \in 0 .. 2 * H, NEW offset \in Int
  PROVE  /\ create_mask_at(width, offset) \in Data
         /\ Joined(create_mask_at(width, offset)) =
               Wide!Left(2 * H, 0 .. width - 1, Wide!AtLeastZero(offset))
<1> DEFINE y == create_mask_at(width, offset)
           n == Wide!AtLeastZero(offset)
           T == Left(2 * H, 0 .. width - 1, n)
<1>1. H \in Nat /\ H > 0 /\ 2 * H \in Nat /\ n \in Nat
  BY UInt128Assumption DEF Wide!AtLeastZero
<1>2. Wide!Left(2 * H, 0 .. width - 1, n) = T
  BY DEF Wide!Left, Left, Wide!Full, Full
<1>3. /\ T \subseteq 0 .. 2 * H - 1
      /\ \A b \in Int : b \in T <=> b \in 0 .. 2 * H - 1 /\ b - n \in 0 .. width - 1
  BY <1>1, InLeft
<1>4. CASE width = 0 \/ offset >= 2 * H
  <2>1. y = Pair({}, {})
    BY <1>1, <1>4 DEF create_mask_at, Whole, Zero
  <2>2. y \in Data /\ y.low = {} /\ y.high = {}
    BY <2>1, PairData
  <2>3. \A b \in Int : b \notin T
    BY <1>1, <1>3, <1>4 DEF Wide!AtLeastZero
  <2>4. T \in SUBSET Int
    BY <1>3
  <2>5. Joined(y) = T
    BY <2>2, <2>3, <2>4, JoinsTo
  <2> QED
    BY <1>2, <2>2, <2>5
<1>5. CASE width # 0 /\ offset <= 0
  <2>1. y = create_mask(width)
    BY <1>1, <1>5 DEF create_mask_at
  <2>2. y \in Data /\ Joined(y) = {b \in 0 .. 2 * H - 1 : b < width}
    BY <2>1, MaskExact
  <2>3. n = 0
    BY <1>5 DEF Wide!AtLeastZero
  <2>4. \A b \in Int : b \in T <=> b \in {c \in 0 .. 2 * H - 1 : c < width}
    BY <1>1, <1>3, <2>3
  <2>5. T = {b \in 0 .. 2 * H - 1 : b < width}
    BY <1>3, <2>4
  <2> QED
    BY <1>2, <2>2, <2>5
<1>6. CASE width # 0 /\ 0 < offset /\ offset < 2 * H
  <2>1. y = ShiftLeft(create_mask(width), offset)
    BY <1>1, <1>6 DEF create_mask_at
  <2>2. create_mask(width) \in Data /\
        Joined(create_mask(width)) = 0 .. width - 1
    <3>1. width \in Int /\ {b \in 0 .. 2 * H - 1 : b < width} = 0 .. width - 1
      BY <1>1
    <3> QED
      BY <3>1, MaskExact
  <2> QED
    BY <2>1, <2>2, ShiftsExact
<1> QED
  BY <1>1, <1>4, <1>5, <1>6

\* The portable extraction: the range ends where the integer does.
LEMMA ExtractExact ==
  ASSUME NEW x \in Data, NEW start \in Nat, NEW len \in Nat
  PROVE  /\ extract(x, len, start) \in Data
         /\ Joined(extract(x, len, start)) = {b \in Right(Joined(x), start) : b < len}
<1> DEFINE y == extract(x, len, start)
           R == Right(Joined(x), start)
           T == {b \in R : b < len}
<1>1. H \in Nat /\ H > 0 /\ Joined(x) \subseteq 0 .. 2 * H - 1 /\ Joined(x) \in SUBSET Int
  BY InJoined, UInt128Assumption
<1>2. /\ R \subseteq Nat
      /\ \A b \in Int : b \in R <=> b >= 0 /\ b + start \in Joined(x)
  BY <1>1, InRight
<1>3. CASE len = 0 \/ start >= 2 * H
  <2>1. y = Pair({}, {})
    BY <1>3 DEF extract, Whole, Zero
  <2>2. y \in Data /\ y.low = {} /\ y.high = {}
    BY <2>1, PairData
  <2>3. \A b \in Int : b \notin T
    BY <1>1, <1>2, <1>3
  <2>4. T \in SUBSET Int
    BY <1>2
  <2> QED
    BY <2>2, <2>3, <2>4, JoinsTo
<1>4. CASE len # 0 /\ start < 2 * H
  <2> DEFINE retained == IF len > 2 * H - start THEN 2 * H - start ELSE len
  <2>1. y = bitwise_and(ShiftRight(x, start), create_mask(retained))
    BY <1>1, <1>4 DEF extract
  <2>2. retained \in Int
    BY <1>1
  <2>3. /\ ShiftRight(x, start) \in Data
        /\ Joined(ShiftRight(x, start)) = Wide!Right(Joined(x), Wide!AtLeastZero(start))
    BY ShiftsExact
  <2>4. Wide!Right(Joined(x), Wide!AtLeastZero(start)) = R
    BY DEF Wide!Right, Right, Wide!AtLeastZero
  <2>5. /\ create_mask(retained) \in Data
        /\ Joined(create_mask(retained)) = {b \in 0 .. 2 * H - 1 : b < retained}
    BY <2>2, MaskExact
  <2>6. y \in Data /\ Joined(y) = R \cap {b \in 0 .. 2 * H - 1 : b < retained}
    <3> HIDE DEF retained, R
    <3> QED
      BY <2>1, <2>3, <2>4, <2>5, LogicExact
  <2>7. \A b \in Int : b \in T <=> b \in R /\ b \in 0 .. 2 * H - 1 /\ b < retained
    BY <1>1, <1>2, <1>4
  <2>8. T = R \cap {b \in 0 .. 2 * H - 1 : b < retained}
    <3>1. T \subseteq Int /\ (R \cap {b \in 0 .. 2 * H - 1 : b < retained}) \subseteq Int
      BY <1>2
    <3> HIDE DEF retained, R
    <3> QED
      BY <2>7, <3>1
  <2> QED
    BY <2>6, <2>8
<1> QED
  BY <1>1, <1>3, <1>4

\* A position of a range extracted from one word.
LEMMA InExtractedWord ==
  ASSUME NEW s \in SUBSET Int, NEW len \in Int, NEW k \in Int
  PROVE  /\ bextr_word(s, len, k) \subseteq 0 .. H - 1
         /\ \A b \in Int : b \in bextr_word(s, len, k) <=>
              b \in 0 .. H - 1 /\ b < len /\ b + k \in s
BY InRight, UInt128Assumption DEF bextr_word, AllOnes, Full

\* A position of a range that crosses from one word into the other.
LEMMA InFunnel ==
  ASSUME NEW x \in Data, NEW k \in 0 .. H - 1
  PROVE  LET f == funnel_shift_right(x.low, x.high, k) IN
         /\ f \subseteq 0 .. H - 1
         /\ \A b \in Int : b \in f <=>
              b \in 0 .. H - 1 /\ (b + k \in x.low \/ (b + k) - H \in x.high)
<1> DEFINE f == funnel_shift_right(x.low, x.high, k)
<1>1. /\ H \in Nat /\ k \in Int /\ H > 0
      /\ x.low \subseteq 0 .. H - 1 /\ x.high \subseteq 0 .. H - 1
  BY Words0, UInt128Assumption
<1>2. CASE k = 0
  BY <1>1, <1>2 DEF funnel_shift_right
<1>3. CASE k # 0
  <2>1. f = Right(x.low, k) \cup Left(H, x.high, H - k)
    BY <1>3 DEF funnel_shift_right
  <2>2. /\ Right(x.low, k) \subseteq 0 .. H - 1
        /\ Left(H, x.high, H - k) \subseteq 0 .. H - 1
    BY <1>1, WordsStayWords
  <2>3. ASSUME NEW b \in Int
        PROVE  /\ b \in Right(x.low, k) <=> b >= 0 /\ b + k \in x.low
               /\ b \in Left(H, x.high, H - k) <=>
                    b \in 0 .. H - 1 /\ b - (H - k) \in x.high
               /\ b - (H - k) = (b + k) - H
    BY <1>1, InRight, InLeft
  <2>4. ASSUME NEW b \in Int
        PROVE  b \in f <=>
                 b \in 0 .. H - 1 /\ (b + k \in x.low \/ (b + k) - H \in x.high)
    <3> HIDE DEF f
    <3> QED
      BY <1>1, <2>1, <2>2, <2>3
  <2> HIDE DEF f
  <2> QED
    BY <2>1, <2>2, <2>4 DEF f
<1> QED
  BY <1>2, <1>3

\* The word extractions of the BMI1 form: a range in the high word, in the low
\* word, across the boundary into one word of result, and into two.
LEMMA BextrExact ==
  ASSUME NEW x \in Data, NEW start \in Nat, NEW len \in Nat
  PROVE  /\ bextr(x, len, start) \in Data
         /\ Joined(bextr(x, len, start)) = {b \in Right(Joined(x), start) : b < len}
<1> DEFINE y == bextr(x, len, start)
           R == Right(Joined(x), start)
           T == {b \in R : b < len}
           aligned == funnel_shift_right(x.low, x.high, start)
<1>1. /\ H \in Nat /\ H > 0 /\ Joined(x) \in SUBSET Int
      /\ x.low \subseteq 0 .. H - 1 /\ x.high \subseteq 0 .. H - 1
      /\ x.low \in SUBSET Int /\ x.high \in SUBSET Int
  BY InJoined, Words0, UInt128Assumption
<1>2. /\ T \in SUBSET Int
      /\ \A b \in Int : b \in T <=>
           /\ b >= 0 /\ b < len
           /\ b + start \in x.low \/ (b + start) - H \in x.high
  <2>1. /\ R \subseteq Nat
        /\ \A b \in Int : b \in R <=> b >= 0 /\ b + start \in Joined(x)
    BY <1>1, InRight
  <2>2. ASSUME NEW b \in Int
        PROVE  b + start \in Joined(x) <=> b + start \in x.low \/ (b + start) - H \in x.high
    <3>1. b + start \in Int
      OBVIOUS
    <3> QED
      BY <3>1, InJoined
  <2> QED
    BY <2>1, <2>2
<1> HIDE DEF T, aligned
<1> SUFFICES ASSUME Bmi1
             PROVE  y \in Data /\ \A b \in Int : b \in T <=> b \in y.low \/ b - H \in y.high
  <2>1. CASE ~Bmi1
    <3>1. y = extract(x, len, start)
      BY <2>1 DEF bextr
    <3> QED
      BY <3>1, ExtractExact
  <2>2. CASE Bmi1
    BY <1>2, <2>2, JoinsTo DEF T
  <2> QED
    BY <2>1, <2>2
<1>3. CASE start >= H
  <2> DEFINE f == bextr_word(x.high, len, start - H)
  <2>1. y = Pair(f, {})
    BY <1>1, <1>3 DEF bextr, Whole, Zero
  <2>2. /\ f \subseteq 0 .. H - 1
        /\ \A b \in Int : b \in f <=> b \in 0 .. H - 1 /\ b < len /\ b + (start - H) \in x.high
    BY <1>1, InExtractedWord
  <2>3. y \in Data /\ y.low = f /\ y.high = {}
    <3> HIDE DEF f
    <3> QED
      BY <2>1, <2>2, PairData
  <2>4. ASSUME NEW b \in Int
        PROVE  b \in T <=> b \in f
    <3>1. b + (start - H) = (b + start) - H
      BY <1>1
    <3> HIDE DEF f
    <3> QED
      BY <1>1, <1>2, <1>3, <2>2, <3>1
  <2> QED
    BY <2>3, <2>4
<1>4. CASE start < H /\ len <= H - start
  <2> DEFINE f == bextr_word(x.low, len, start)
  <2>1. y = Pair(f, {})
    BY <1>1, <1>4 DEF bextr, Whole, Zero
  <2>2. /\ f \subseteq 0 .. H - 1
        /\ \A b \in Int : b \in f <=> b \in 0 .. H - 1 /\ b < len /\ b + start \in x.low
    BY <1>1, InExtractedWord
  <2>3. y \in Data /\ y.low = f /\ y.high = {}
    <3> HIDE DEF f
    <3> QED
      BY <2>1, <2>2, PairData
  <2>4. ASSUME NEW b \in Int
        PROVE  b \in T <=> b \in f
    <3> HIDE DEF f
    <3> QED
      BY <1>1, <1>2, <1>4, <2>2
  <2> QED
    BY <2>3, <2>4
<1>5. ASSUME start < H
      PROVE  /\ aligned \subseteq 0 .. H - 1
             /\ aligned \in SUBSET Int
             /\ \A b \in Int : b \in aligned <=>
                  b \in 0 .. H - 1 /\ (b + start \in x.low \/ (b + start) - H \in x.high)
  <2>1. start \in 0 .. H - 1
    BY <1>1, <1>5
  <2> QED
    BY <2>1, InFunnel DEF aligned
<1>6. CASE start < H /\ H - start < len /\ len <= H
  <2> DEFINE f == bextr_word(aligned, len, 0)
  <2>1. y = Pair(f, {})
    BY <1>1, <1>6 DEF bextr, Whole, Zero, aligned
  <2>2. /\ f \subseteq 0 .. H - 1
        /\ \A b \in Int : b \in f <=> b \in 0 .. H - 1 /\ b < len /\ b + 0 \in aligned
    BY <1>5, <1>6, InExtractedWord
  <2>3. y \in Data /\ y.low = f /\ y.high = {}
    <3> HIDE DEF f
    <3> QED
      BY <2>1, <2>2, PairData
  <2>4. ASSUME NEW b \in Int
        PROVE  b \in T <=> b \in f
    <3>1. b + 0 = b
      OBVIOUS
    <3> HIDE DEF f
    <3> QED
      BY <1>1, <1>2, <1>5, <1>6, <2>2, <3>1
  <2> QED
    BY <2>3, <2>4
<1>7. CASE start < H /\ H < len
  <2> DEFINE f == bextr_word(x.high, len - H, start)
  <2>1. y = Pair(aligned, f)
    BY <1>1, <1>7 DEF bextr, aligned
  <2>2. /\ f \subseteq 0 .. H - 1
        /\ \A b \in Int : b \in f <=> b \in 0 .. H - 1 /\ b < len - H /\ b + start \in x.high
    BY <1>1, InExtractedWord
  <2>3. y \in Data /\ y.low = aligned /\ y.high = f
    <3> HIDE DEF f
    <3> QED
      BY <1>5, <1>7, <2>1, <2>2, PairData
  <2>4. ASSUME NEW b \in Int
        PROVE  b \in T <=> b \in aligned \/ b - H \in f
    <3>1. b - H \in f <=> b - H \in 0 .. H - 1 /\ b - H < len - H /\ (b - H) + start \in x.high
      <4>1. b - H \in Int
        BY <1>1
      <4> HIDE DEF f
      <4> QED
        BY <2>2, <4>1
    <3>2. (b - H) + start = (b + start) - H
      BY <1>1
    <3> HIDE DEF f
    <3> QED
      BY <1>1, <1>2, <1>5, <1>7, <3>1, <3>2
  <2> QED
    BY <2>3, <2>4
<1> QED
  BY <1>1, <1>3, <1>4, <1>6, <1>7

-------------------------------------------------------------------------------
\* The calls.

\* Splitting a wide integer and joining it gives it back.
LEMMA SplitExact ==
  ASSUME NEW v \in SUBSET (0 .. 2 * H - 1)
  PROVE  Split(v) \in Data /\ Joined(Split(v)) = v
<1> DEFINE low == v \cap AllOnes
           high == Right(v, H)
<1>1. H \in Nat /\ H > 0 /\ v \in SUBSET Int
  BY UInt128Assumption
<1>2. low \subseteq 0 .. H - 1 /\ \A b \in Int : b \in low <=> b \in 0 .. H - 1 /\ b \in v
  BY DEF AllOnes, Full
<1>3. high \subseteq 0 .. H - 1 /\ \A b \in Int : b \in high <=> b >= 0 /\ b + H \in v
  <2>1. high \subseteq Nat /\ \A b \in Int : b \in high <=> b >= 0 /\ b + H \in v
    BY <1>1, InRight
  <2> HIDE DEF high
  <2> QED
    BY <1>1, <2>1
<1>4. Split(v) = Pair(low, high)
  BY DEF Split
<1> HIDE DEF low, high
<1>5. Split(v) \in Data /\ Split(v).low = low /\ Split(v).high = high
  BY <1>2, <1>3, <1>4, PairData
<1>6. \A b \in Int : b \in v <=> b \in low \/ b - H \in high
  <2>1. ASSUME NEW b \in Int
        PROVE  b - H \in high <=> b - H >= 0 /\ b \in v
    <3>1. b - H \in Int /\ (b - H) + H = b
      BY <1>1
    <3> QED
      BY <1>3, <3>1
  <2> QED
    BY <1>1, <1>2, <2>1
<1> QED
  BY <1>1, <1>5, <1>6, JoinsTo

\* Every call that moves or combines bits is exact.
LEMMA BitsExact ==
  ASSUME NEW x \in Data, NEW c \in Wide!Calls, c.op \in Wide!BitCalls
  PROVE  /\ NewBits(x, c) \in Data
         /\ Joined(NewBits(x, c)) = Wide!NewBits(Joined(x), c)
<1> USE DEF Wide!Calls, Wide!Arithmetic, Wide!Logic, Wide!Steps, Wide!Powers,
            Wide!Shifts, Wide!Questions, Wide!Comparisons
<1>1. CASE c.op \in {"and", "or", "xor"}
  <2>1. c.rhs \in SUBSET (0 .. 2 * H - 1)
    BY <1>1 DEF Wide!Word, Wide!Full
  <2>2. Split(c.rhs) \in Data /\ Joined(Split(c.rhs)) = c.rhs
    BY <2>1, SplitExact
  <2>3. CASE c.op = "and"
    BY <2>2, <2>3, LogicExact DEF NewBits, Wide!NewBits
  <2>4. CASE c.op = "or"
    BY <2>2, <2>4, LogicExact DEF NewBits, Wide!NewBits
  <2>5. CASE c.op = "xor"
    BY <2>2, <2>5, LogicExact DEF NewBits, Wide!NewBits, Wide!Xor, Xor
  <2> QED
    BY <1>1, <2>3, <2>4, <2>5
<1>2. CASE c.op = "not"
  BY <1>2, LogicExact DEF NewBits, Wide!NewBits, Wide!Complement, Wide!Full
<1>3. CASE c.op \in {"shift_left", "shift_right"}
  <2>1. c.count \in Int
    BY <1>3, UInt128Assumption DEF Wide!Counts
  <2> QED
    BY <1>3, <2>1, ShiftsExact DEF NewBits, Wide!NewBits
<1>4. CASE c.op = "create_mask"
  <2>1. c.width \in Int
    BY <1>4, UInt128Assumption DEF Wide!Counts
  <2> QED
    BY <1>4, <2>1, MaskExact DEF NewBits, Wide!NewBits, Wide!Full
<1>5. CASE c.op = "create_mask_at"
  <2>1. c.width \in 0 .. 2 * H /\ c.offset \in Int
    BY <1>5, UInt128Assumption DEF Wide!Counts
  <2> QED
    BY <1>5, <2>1, MaskAtExact DEF NewBits, Wide!NewBits, Wide!Full
<1>6. CASE c.op = "bextr"
  <2>1. c.start \in Nat /\ c.len \in Nat
    BY <1>6 DEF Wide!Indices
  <2>2. Wide!Right(Joined(x), c.start) = Right(Joined(x), c.start)
    BY DEF Wide!Right, Right
  <2> QED
    BY <1>6, <2>1, <2>2, BextrExact DEF NewBits, Wide!NewBits
<1> QED
  BY <1>1, <1>2, <1>3, <1>4, <1>5, <1>6 DEF Wide!BitCalls

\* The counts of one word.
LEMMA WordCounts ==
  ASSUME NEW s \in SUBSET (0 .. H - 1)
  PROVE  /\ Cardinality(s) \in 0 .. H
         /\ BitWidth(s) \in 0 .. H
         /\ ZerosBelow(s) \in 0 .. H
         /\ ZerosAbove(s) \in 0 .. H
         /\ Complement(H, s) \in SUBSET (0 .. H - 1)
<1>1. H \in Nat /\ IsFiniteSet(0 .. H - 1) /\ Cardinality(0 .. H - 1) = H
  BY FS_Interval, UInt128Assumption
<1>2. ASSUME NEW u \in SUBSET (0 .. H - 1)
      PROVE  Cardinality(u) \in 0 .. H
  <2>1. IsFiniteSet(u) /\ Cardinality(u) <= Cardinality(0 .. H - 1)
    BY <1>1, FS_Subset
  <2>2. Cardinality(u) \in Nat
    BY <2>1, FS_CardinalityType
  <2> QED
    BY <1>1, <2>1, <2>2
<1>3. UNION {0 .. b : b \in s} \subseteq 0 .. H - 1
  BY UInt128Assumption
<1>4. {b \in AllOnes : (0 .. b) \cap s = {}} \subseteq 0 .. H - 1
  BY DEF AllOnes, Full
<1>5. ZerosBelow(s) \in 0 .. H
  BY <1>2, <1>4 DEF ZerosBelow
<1>6. BitWidth(s) \in 0 .. H
  BY <1>2, <1>3 DEF BitWidth
<1> QED
  BY <1>1, <1>2, <1>5, <1>6 DEF ZerosAbove, Complement, Full

\* Counts, widths and orders are small.
LEMMA AnswersInRange ==
  ASSUME NEW x \in Data, NEW c \in Wide!Calls,
         c.op \in Wide!Questions \cup Wide!Comparisons \cup {"compare"}
  PROVE  Answer(x, c) \in -1 .. 2 * H + 1
<1>1. /\ H \in Nat /\ H > 0
      /\ x.low \in SUBSET (0 .. H - 1) /\ x.high \in SUBSET (0 .. H - 1)
  BY Words0, UInt128Assumption
<1>2. ASSUME NEW a, NEW b
      PROVE  compare(a, b) \in -1 .. 1
  BY DEF compare, compare_words, Wide!Sign
<1>3. /\ popcount(x) \in 0 .. 2 * H /\ bit_width(x) \in 0 .. 2 * H
      /\ countr_zero(x) \in 0 .. 2 * H /\ countr_one(x) \in 0 .. 2 * H
      /\ countl_zero(x) \in 0 .. 2 * H /\ countl_one(x) \in 0 .. 2 * H
  <2>1. ASSUME NEW s \in SUBSET (0 .. H - 1)
        PROVE  /\ Cardinality(s) \in 0 .. H /\ BitWidth(s) \in 0 .. H
               /\ ZerosBelow(s) \in 0 .. H /\ ZerosAbove(s) \in 0 .. H
               /\ ZerosBelow(Complement(H, s)) \in 0 .. H
               /\ ZerosAbove(Complement(H, s)) \in 0 .. H
    BY WordCounts
  <2> QED
    BY <1>1, <2>1
    DEF popcount, bit_width, countr_zero, countr_one, countl_zero, countl_one
<1>4. Answer(x, c) \in (-1 .. 1) \cup (0 .. 2 * H)
  BY <1>2, <1>3
  DEF Answer, Wide!Questions, Wide!Comparisons, compare_scalar
<1> QED
  BY <1>1, <1>4

\* Sums, differences and powers of two are words again.
LEMMA NumbersAreData ==
  ASSUME NEW x \in Data, NEW c \in Wide!Calls, c.op \in Wide!NumberCalls
  PROVE  NewNumber(x, c) \in Data
<1>1. ASSUME NEW n
      PROVE  Bin(H, n) \in SUBSET (0 .. H - 1)
  BY DEF Bin, Full
<1>2. ASSUME NEW a, NEW b
      PROVE  add(a, b) \in Data /\ subtract(a, b) \in Data
  <2>1. ASSUME NEW s, NEW u, NEW carry
        PROVE  /\ add_with_carry(s, u, carry).value \in SUBSET (0 .. H - 1)
               /\ subtract_with_borrow(s, u, carry).value \in SUBSET (0 .. H - 1)
    <3>1. Plus(H, Plus(H, s, u), Bit(carry)) \in SUBSET (0 .. H - 1)
      BY <1>1 DEF Plus
    <3>2. Minus(H, Minus(H, s, u), Bit(carry)) \in SUBSET (0 .. H - 1)
      BY <1>1 DEF Minus
    <3> QED
      BY <3>1, <3>2 DEF add_with_carry, subtract_with_borrow, portable_add_with_carry,
                       portable_subtract_with_borrow
  <2> QED
    BY <2>1, PairData DEF add, subtract
<1>3. ASSUME NEW y \in Data
      PROVE  bit_width(y) \in Int
  BY <1>3, Words0, WordCounts, UInt128Assumption DEF bit_width
<1>4. Whole(One) \in Data
  BY PairData, UInt128Assumption DEF Whole, One, Zero
<1>5. bit_ceil(x) \in Data
  <2>1. decrement(x) \in Data
    BY <1>2 DEF decrement
  <2> QED
    BY <1>3, <1>4, <2>1, ShiftsExact DEF bit_ceil
<1>6. bit_floor(x) \in Data
  <2>1. bit_width(x) - 1 \in Int
    BY <1>3
  <2> QED
    BY <1>4, <2>1, ShiftsExact DEF bit_floor
<1> QED
  BY <1>2, <1>5, <1>6
  DEF NewNumber, Wide!NumberCalls, Wide!Arithmetic, Wide!Steps, Wide!Powers,
      abs_diff, negate, increment, decrement

-------------------------------------------------------------------------------
\* The specification.

\* Every call keeps the type.
LEMMA TypeStep ==
  ASSUME TypeOK, [Next]_vars
  PROVE  TypeOK'
<1>1. m_data \in Data /\ H \in Nat /\ Wide!NoCall.op = "none"
  BY UInt128Assumption DEF TypeOK, Data, Wide!NoCall
<1>2. Wide!NoAnswer \in -1 .. 2 * H + 1
  BY <1>1 DEF Wide!NoAnswer
<1> SUFFICES m_data' \in Data /\ answer' \in -1 .. 2 * H + 1
             /\ call' \in Wide!Calls \cup {Wide!NoCall} /\ profile' = profile
  BY DEF TypeOK, Data
<1>3. CASE ReturnBits
  <2>1. call \in Wide!Calls
    BY <1>1, <1>3 DEF ReturnBits, TypeOK, Wide!BitCalls, Wide!Logic, Wide!Shifts
  <2> QED
    BY <1>1, <1>3, <2>1, BitsExact DEF ReturnBits, TypeOK
<1>4. CASE ReturnNumber
  <2>1. call \in Wide!Calls
    BY <1>1, <1>4 DEF ReturnNumber, TypeOK, Wide!NumberCalls, Wide!Arithmetic, Wide!Steps,
                      Wide!Powers
  <2> QED
    BY <1>1, <1>4, <2>1, NumbersAreData DEF ReturnNumber, TypeOK
<1>5. CASE ReturnAssigned
  <2>1. Bin(H, call.scalar) \in SUBSET (0 .. H - 1) /\ {} \in SUBSET (0 .. H - 1)
    BY DEF Bin, Full
  <2>2. m_data' \in Data
    BY <1>5, <2>1, PairData DEF ReturnAssigned, Whole, Zero
  <2> QED
    BY <1>5, <2>2 DEF ReturnAssigned, TypeOK
<1>6. CASE ReturnAnswer
  <2>1. call \in Wide!Calls
    BY <1>1, <1>6 DEF ReturnAnswer, TypeOK, Wide!Questions, Wide!Comparisons
  <2> QED
    BY <1>1, <1>6, <2>1, AnswersInRange DEF ReturnAnswer, TypeOK
<1>7. CASE Call \/ UNCHANGED vars
  BY <1>1, <1>2, <1>7 DEF Call, vars, TypeOK
<1> QED
  BY <1>3, <1>4, <1>5, <1>6, <1>7 DEF Next

\* The first value is two words.
LEMMA TypeInit == Init => TypeOK
<1>1. H \in Nat /\ Wide!NoAnswer \in -1 .. 2 * H + 1
  BY UInt128Assumption DEF Wide!NoAnswer
<1> QED
  BY <1>1 DEF Init, TypeOK

\* In every profile and for words of every width, the words of a uint128_t keep
\* their width and the counts of <bit> stay within 0 .. 2 * H.
THEOREM TypeCorrect == Spec => []TypeOK
BY TypeInit, TypeStep, PTL DEF Spec

-------------------------------------------------------------------------------
(***************************************************************************)
(* Words and their numbers, from the proofs about Bmi: its words are as    *)
(* wide as the integer, and what is used of it depends on no other         *)
(* parameter.                                                              *)
(***************************************************************************)
N == INSTANCE BmiProofs
       WITH W <- 2 * H, native <- TRUE, source <- {}, rest <- {}, taken <- {}, steps <- 0

\* The integer is a word Bmi takes.
LEMMA WideIsAWord == N!BmiAssumption
BY UInt128Assumption DEF N!BmiAssumption

\* The numbers of the three modules are the same.
LEMMA NumSame ==
  ASSUME NEW s
  PROVE  N!Num(s) = Num(s) /\ Wide!Num(s) = Num(s)
<1>1. N!Num(s) = Num(s)
  BY Zenon DEF N!Num, N!MapThenSumSet, N!MapThenFoldSet, Num, MapThenSumSet, MapThenFoldSet
<1>2. Wide!Num(s) = Num(s)
  BY Zenon
  DEF Wide!Num, Wide!MapThenSumSet, Wide!MapThenFoldSet, Num, MapThenSumSet, MapThenFoldSet
<1> QED BY <1>1, <1>2

\* So are the counts and the ends of sets.
LEMMA CountsSame ==
  ASSUME NEW S
  PROVE  /\ N!IsFiniteSet(S) = IsFiniteSet(S)
         /\ N!Cardinality(S) = Cardinality(S) /\ Wide!Cardinality(S) = Cardinality(S)
         /\ N!BitWidth(S) = BitWidth(S) /\ Wide!BitWidth(S) = BitWidth(S)
         /\ Wide!Max(S) = N!Max(S) /\ Wide!Min(S) = N!Min(S)
<1>1. N!IsFiniteSet(S) = IsFiniteSet(S)
  BY Zenon DEF N!IsFiniteSet, IsFiniteSet
<1>2. ASSUME NEW T
      PROVE  N!Cardinality(T) = Cardinality(T) /\ Wide!Cardinality(T) = Cardinality(T)
  BY DEF N!Cardinality, Wide!Cardinality, Cardinality
<1>3. N!BitWidth(S) = BitWidth(S) /\ Wide!BitWidth(S) = BitWidth(S)
  BY <1>2 DEF N!BitWidth, Wide!BitWidth, BitWidth
<1>4. Wide!Max(S) = N!Max(S) /\ Wide!Min(S) = N!Min(S)
  BY DEF Wide!Max, N!Max, Wide!Min, N!Min
<1> QED BY <1>1, <1>2, <1>3, <1>4

\* So is what is written for a number.
LEMMA BinSame ==
  ASSUME NEW w, NEW n
  PROVE  N!Bin(w, n) = Bin(w, n) /\ Wide!Bin(w, n) = Bin(w, n)
BY DEF N!Bin, Bin, N!Full, Full, Wide!Bin, Wide!Full

\* A word of w bits is a number below 2^w.
LEMMA NumIsBelow ==
  ASSUME NEW w \in Nat, NEW s \in SUBSET (0 .. w - 1)
  PROVE  Num(s) \in Nat /\ Num(s) < 2 ^ w /\ 2 ^ w \in Nat
<1>1. s \in N!Word(w)
  BY DEF N!Word, N!Full
<1>2. N!Num(s) \in 0 .. 2 ^ w - 1
  BY <1>1, WideIsAWord, N!NumBound
<1>3. 2 ^ w \in Nat
  BY WideIsAWord, N!PowerType
<1> QED BY <1>2, <1>3, NumSame

\* A word is what its number, reduced modulo 2^w, is written as.
LEMMA WrittenBack ==
  ASSUME NEW w \in Nat, NEW s \in SUBSET (0 .. w - 1), NEW c \in Int
  PROVE  Bin(w, Num(s) + c * 2 ^ w) = s
<1>1. s \in N!Word(w)
  BY DEF N!Word, N!Full
<1>2. N!Bin(w, N!Num(s) + c * 2 ^ w) = s
  BY <1>1, WideIsAWord, N!BinNum
<1> QED BY <1>2, NumSame, BinSame

\* A number below 2^w is the number of its word.
LEMMA WrittenIs ==
  ASSUME NEW w \in Nat, NEW n \in 0 .. 2 ^ w - 1
  PROVE  Bin(w, n) \in SUBSET (0 .. w - 1) /\ Num(Bin(w, n)) = n
<1>1. N!Num(N!Bin(w, n)) = n
  BY WideIsAWord, N!NumBin
<1>2. Bin(w, n) \in SUBSET (0 .. w - 1)
  BY DEF Bin, Full
<1> QED BY <1>1, <1>2, NumSame, BinSame

\* Different words are different numbers.
LEMMA SameNumber ==
  ASSUME NEW w \in Nat, NEW s \in SUBSET (0 .. w - 1), NEW t \in SUBSET (0 .. w - 1),
         Num(s) = Num(t)
  PROVE  s = t
<1>1. Bin(w, Num(s) + 0 * 2 ^ w) = s /\ Bin(w, Num(t) + 0 * 2 ^ w) = t
  BY 0 \in Int, WrittenBack, Zenon
<1> QED BY <1>1

\* What one word can hold, and two.
Base == 2 ^ H

\* Two words hold the square of one; a word of at least two bits holds more than one bit.
LEMMA BaseFacts == /\ Base \in Nat /\ Base > 1 /\ 2 ^ (2 * H) = Base * Base
                   /\ H \in Nat /\ H > 1
<1>1. H \in Nat /\ H > 1
  BY UInt128Assumption
<1>2. 2 ^ (H + H) = 2 ^ H * 2 ^ H /\ H + H = 2 * H
  BY <1>1, WideIsAWord, N!PowerSum
<1>3. 2 ^ ((H - 1) + 1) = 2 * 2 ^ (H - 1) /\ 2 ^ (H - 1) \in Nat \ {0} /\ (H - 1) + 1 = H
  <2>1. H - 1 \in Nat
    BY <1>1
  <2> QED BY <1>1, <2>1, WideIsAWord, N!Double, N!PowerType
<1> QED BY <1>1, <1>2, <1>3 DEF Base

\* The number of two words.
LEMMA JoinedNum ==
  ASSUME NEW x \in Data
  PROVE  /\ Joined(x) \in SUBSET (0 .. 2 * H - 1)
         /\ Num(Joined(x)) = Num(x.low) + Base * Num(x.high)
         /\ Num(x.low) \in Nat /\ Num(x.low) < Base
         /\ Num(x.high) \in Nat /\ Num(x.high) < Base
<1>1. x.low \in SUBSET (0 .. H - 1) /\ x.high \in SUBSET (0 .. H - 1)
  BY Words0
<1>2. x.low \in N!Word(H) /\ x.high \in N!Word(H)
  BY <1>1 DEF N!Word, N!Full
<1>3. N!Joins(x.low \cup N!Upper(x.high, H), x.low, x.high, H)
  BY <1>2, BaseFacts, WideIsAWord, N!JoinHalves
<1>4. N!Num(Joined(x)) = N!Num(x.low) + 2 ^ H * N!Num(x.high)
  BY <1>3 DEF N!Joins, N!Upper, Joined
<1>5. Num(Joined(x)) = Num(x.low) + Base * Num(x.high)
  BY <1>4, NumSame DEF Base
<1> QED BY <1>1, <1>5, BaseFacts, NumIsBelow, InJoined DEF Base

-------------------------------------------------------------------------------
(***************************************************************************)
(* Carries and borrows                                                     *)
(***************************************************************************)
\* The bits of a word, H of them.
HWord == SUBSET (0 .. H - 1)

\* Numbers that differ by a multiple of 2^w are written alike.
LEMMA WrittenModulo ==
  ASSUME NEW w \in Nat, NEW n \in Int, NEW c \in Int
  PROVE  Bin(w, n + c * 2 ^ w) = Bin(w, n)
<1>1. N!Bin(w, n + c * 2 ^ w) = N!Bin(w, n)
  BY WideIsAWord, N!BinMod
<1> QED BY <1>1, BinSame

\* One word: what is written of a number that leaves it by less than a word.
LEMMA OneWord ==
  ASSUME NEW n \in Int, n >= -Base, n < 2 * Base
  PROVE  /\ Bin(H, n) \in HWord
         /\ Num(Bin(H, n)) = IF n < 0 THEN n + Base ELSE IF n < Base THEN n ELSE n - Base
<1>1. Base \in Nat /\ H \in Nat
  BY BaseFacts
<1>2. \A k \in 0 .. Base - 1 : Bin(H, k) \in HWord /\ Num(Bin(H, k)) = k
  BY <1>1, WrittenIs DEF Base, HWord
<1>3. /\ Bin(H, (n + Base) + (-1) * Base) = Bin(H, n + Base)
      /\ Bin(H, (n - Base) + 1 * Base) = Bin(H, n - Base)
  <2>1. n + Base \in Int /\ n - Base \in Int /\ -1 \in Int /\ 1 \in Int
    BY <1>1
  <2> QED BY <1>1, <2>1, WrittenModulo, Zenon DEF Base
<1>4. (n + Base) + (-1) * Base = n /\ (n - Base) + 1 * Base = n
  BY <1>1
<1>5. CASE n < 0
  <2>1. n + Base \in 0 .. Base - 1
    BY <1>1, <1>5
  <2> QED BY <1>2, <1>3, <1>4, <1>5, <2>1
<1>6. CASE n >= 0 /\ n < Base
  <2>1. n \in 0 .. Base - 1
    BY <1>1, <1>6
  <2> QED BY <1>1, <1>2, <1>6, <2>1
<1>7. CASE n >= Base
  <2>1. n - Base \in 0 .. Base - 1 /\ ~(n < 0) /\ ~(n < Base)
    BY <1>1, <1>7
  <2> QED BY <1>2, <1>3, <1>4, <2>1
<1> QED BY <1>1, <1>5, <1>6, <1>7

\* Two words: what is written of a number is the integer it leaves by a multiple of 2^(2H).
LEMMA TwoWords ==
  ASSUME NEW x \in Data, NEW n \in Int, NEW c \in Int,
         Num(Joined(x)) + c * (Base * Base) = n
  PROVE  Bin(2 * H, n) = Joined(x)
<1>1. Joined(x) \in SUBSET (0 .. 2 * H - 1) /\ 2 * H \in Nat
  BY JoinedNum, BaseFacts
<1>2. Bin(2 * H, Num(Joined(x)) + c * 2 ^ (2 * H)) = Joined(x)
  BY <1>1, WrittenBack
<1> QED BY <1>2, BaseFacts

\* What a carry is, by a name the steps below need not look behind.
Flags == BOOLEAN

\* A carry as a number.
Unit(c) == IF c THEN 1 ELSE 0

\* A carry as a word and as a number.
LEMMA CarryBit ==
  ASSUME NEW c \in BOOLEAN
  PROVE  Bit(c) \in HWord /\ Num(Bit(c)) = Unit(c) /\ Unit(c) \in {0, 1}
<1>1. Num({}) = 0
  BY WideIsAWord, N!NumEmpty, NumSame
<1>2. Num({0}) = 1
  <2>1. N!Num({0}) = 2 ^ 0
    BY WideIsAWord, N!NumOne
  <2> QED BY <2>1, NumSame
<1>3. {0} \in HWord /\ {} \in HWord
  BY BaseFacts DEF HWord
<1> QED BY <1>1, <1>2, <1>3 DEF Bit, One, Zero, Unit

\* A word as a number.
LEMMA WordNum ==
  ASSUME NEW s \in HWord
  PROVE  Num(s) \in Nat /\ Num(s) < Base
BY BaseFacts, NumIsBelow DEF HWord, Base

\* The sum of two words, and their difference.
LEMMA PlusNum ==
  ASSUME NEW s \in HWord, NEW t \in HWord
  PROVE  /\ Plus(H, s, t) \in HWord
         /\ Num(Plus(H, s, t)) = IF Num(s) + Num(t) < Base THEN Num(s) + Num(t)
                                 ELSE Num(s) + Num(t) - Base
         /\ Minus(H, s, t) \in HWord
         /\ Num(Minus(H, s, t)) = IF Num(s) < Num(t) THEN Num(s) - Num(t) + Base
                                  ELSE Num(s) - Num(t)
<1> DEFINE a == Num(s)
           b == Num(t)
<1>1. a \in Nat /\ a < Base /\ b \in Nat /\ b < Base /\ Base \in Nat
  BY WordNum, BaseFacts
<1> HIDE DEF a, b
<1>2. /\ a + b \in Int /\ a + b >= -Base /\ a + b < 2 * Base
      /\ a - b \in Int /\ a - b >= -Base /\ a - b < 2 * Base
  BY <1>1
<1>3. /\ Bin(H, a + b) \in HWord
      /\ Num(Bin(H, a + b)) = IF a + b < Base THEN a + b ELSE a + b - Base
  BY <1>1, <1>2, OneWord
<1>4. /\ Bin(H, a - b) \in HWord
      /\ Num(Bin(H, a - b)) = IF a < b THEN a - b + Base ELSE a - b
  BY <1>1, <1>2, OneWord
<1> QED BY <1>3, <1>4 DEF Plus, Minus, a, b

\* The words s and t and the carry c add up to a word and a carry.
IsSum(s, t, c, r) ==
  /\ r.value \in HWord /\ r.carry \in Flags
  /\ Num(r.value) + Unit(r.carry) * Base = Num(s) + Num(t) + Unit(c)

\* The carry of either form is the one the value does not hold.
LEMMA CarryExact ==
  ASSUME NEW s \in HWord, NEW t \in HWord, NEW c \in Flags
  PROVE  IsSum(s, t, c, add_with_carry(s, t, c))
<1> USE DEF Flags
<1> DEFINE r == add_with_carry(s, t, c)
<1> SUFFICES /\ r.value \in HWord /\ r.carry \in BOOLEAN
             /\ Num(r.value) + Unit(r.carry) * Base = Num(s) + Num(t) + Unit(c)
  BY DEF IsSum
<1> DEFINE p == Plus(H, s, t)
           v == Plus(H, p, Bit(c))
           a == Num(s)
           b == Num(t)
           d == Unit(c)
           m == Num(p)
           n == Num(v)
           portable == m < a \/ n < m
           native == a + b >= Base \/ m + d >= Base
<1>1. /\ p \in HWord /\ m = IF a + b < Base THEN a + b ELSE a + b - Base
  BY PlusNum
<1>2. v \in HWord /\ n = IF m + d < Base THEN m + d ELSE m + d - Base
  <2>1. Bit(c) \in HWord /\ Num(Bit(c)) = d
    BY CarryBit
  <2> HIDE DEF d, p
  <2> QED BY <1>1, <2>1, PlusNum
<1>3. a \in Nat /\ a < Base /\ b \in Nat /\ b < Base /\ Base \in Nat /\ d \in {0, 1} /\ Base > 1
  BY WordNum, BaseFacts, CarryBit
<1>4. /\ r.value = v
      /\ r.carry \in {portable, native}
  <2>1. Num(Bit(c)) = d
    BY CarryBit
  <2> HIDE DEF d
  <2> QED BY <2>1 DEF add_with_carry, portable_add_with_carry, Base
<1> HIDE DEF p, v, a, b, d, m, n, r
<1>5. m \in Nat /\ n \in Nat /\ m < Base
  BY <1>1, <1>2, <1>3
<1>6. /\ n + Unit(portable) * Base = a + b + d
      /\ n + Unit(native) * Base = a + b + d
  BY <1>1, <1>2, <1>3, <1>5 DEF Unit
<1>7. portable \in BOOLEAN /\ native \in BOOLEAN
  OBVIOUS
<1> HIDE DEF portable, native
<1> QED BY <1>2, <1>4, <1>6, <1>7 DEF a, b, d, n

\* The words s and t and the borrow c leave a word and a borrow.
IsDifference(s, t, c, r) ==
  /\ r.value \in HWord /\ r.borrow \in Flags
  /\ Num(r.value) - Unit(r.borrow) * Base = Num(s) - Num(t) - Unit(c)

\* The borrow of either form is the one the value has taken.
LEMMA BorrowExact ==
  ASSUME NEW s \in HWord, NEW t \in HWord, NEW c \in Flags
  PROVE  IsDifference(s, t, c, subtract_with_borrow(s, t, c))
<1> USE DEF Flags
<1> DEFINE r == subtract_with_borrow(s, t, c)
<1> SUFFICES /\ r.value \in HWord /\ r.borrow \in BOOLEAN
             /\ Num(r.value) - Unit(r.borrow) * Base = Num(s) - Num(t) - Unit(c)
  BY DEF IsDifference
<1> DEFINE p == Minus(H, s, t)
           v == Minus(H, p, Bit(c))
           a == Num(s)
           b == Num(t)
           d == Unit(c)
           m == Num(p)
           n == Num(v)
           portable == a < b \/ m < d
           native == a - b < 0 \/ m - d < 0
<1>1. /\ p \in HWord /\ m = IF a < b THEN a - b + Base ELSE a - b
  BY PlusNum
<1>2. v \in HWord /\ n = IF m < d THEN m - d + Base ELSE m - d
  <2>1. Bit(c) \in HWord /\ Num(Bit(c)) = d
    BY CarryBit
  <2> HIDE DEF d, p
  <2> QED BY <1>1, <2>1, PlusNum
<1>3. a \in Nat /\ a < Base /\ b \in Nat /\ b < Base /\ Base \in Nat /\ d \in {0, 1} /\ Base > 1
  BY WordNum, BaseFacts, CarryBit
<1>4. /\ r.value = v
      /\ r.borrow \in {portable, native}
  <2>1. Num(Bit(c)) = d
    BY CarryBit
  <2> HIDE DEF d
  <2> QED BY <2>1 DEF subtract_with_borrow, portable_subtract_with_borrow
<1> HIDE DEF p, v, a, b, d, m, n, r
<1>5. m \in Nat /\ n \in Nat /\ m < Base
  BY <1>1, <1>2, <1>3
<1>6. /\ n - Unit(portable) * Base = a - b - d
      /\ n - Unit(native) * Base = a - b - d
  BY <1>1, <1>2, <1>3, <1>5 DEF Unit
<1>7. portable \in BOOLEAN /\ native \in BOOLEAN
  OBVIOUS
<1> HIDE DEF portable, native
<1> QED BY <1>2, <1>4, <1>6, <1>7 DEF a, b, d, n

\* Two digits of a sum and of a difference, carries included.
LEMMA DigitsAdd ==
  ASSUME NEW B \in Int, NEW l \in Int, NEW h \in Int, NEW xl \in Int, NEW xh \in Int,
         NEW yl \in Int, NEW yh \in Int, NEW c \in Int, NEW e \in Int,
         l + c * B = xl + yl, h + e * B = xh + yh + c
  PROVE  (l + B * h) + e * (B * B) = (xl + B * xh) + (yl + B * yh)
<1>1. l = xl + yl - c * B /\ h = xh + yh + c - e * B
  OBVIOUS
<1>2. B * (xh + yh + c - e * B) = B * xh + B * yh + B * c - B * (e * B)
  OBVIOUS
<1>3. B * (e * B) = e * (B * B) /\ B * c = c * B
  OBVIOUS
<1> QED BY <1>1, <1>2, <1>3

\* The sum of two integers.
LEMMA AddExact ==
  ASSUME NEW x \in Data, NEW y \in Data
  PROVE  /\ add(x, y) \in Data
         /\ \E e \in Int : Num(Joined(add(x, y))) + e * (Base * Base)
                             = Num(Joined(x)) + Num(Joined(y))
<1>1. x.low \in HWord /\ x.high \in HWord /\ y.low \in HWord /\ y.high \in HWord
  BY Words0 DEF HWord
<1> DEFINE low == add_with_carry(x.low, y.low, FALSE)
           high == add_with_carry(x.high, y.high, low.carry)
<1>2. FALSE \in Flags
  BY DEF Flags
<1>3. IsSum(x.low, y.low, FALSE, low)
  BY <1>1, <1>2, CarryExact, Zenon
<1>4. low.carry \in Flags
  BY <1>3, Zenon DEF IsSum
<1>5. IsSum(x.high, y.high, low.carry, high)
  BY <1>1, <1>4, CarryExact, Zenon
<1>6. add(x, y) = Pair(low.value, high.value)
  BY DEF add
<1> HIDE DEF low, high
<1>7. /\ add(x, y) \in Data /\ add(x, y).low = low.value /\ add(x, y).high = high.value
  BY <1>3, <1>5, <1>6, PairData DEF HWord, IsSum, IsDifference
<1> DEFINE l == Num(low.value)
           h == Num(high.value)
           xl == Num(x.low)
           xh == Num(x.high)
           yl == Num(y.low)
           yh == Num(y.high)
           c == Unit(low.carry)
           e == Unit(high.carry)
<1>8. /\ Base \in Int /\ l \in Int /\ h \in Int /\ xl \in Int /\ xh \in Int
      /\ yl \in Int /\ yh \in Int /\ c \in Int /\ e \in Int /\ Unit(FALSE) = 0
  BY <1>1, <1>3, <1>5, WordNum, BaseFacts DEF Unit, IsSum, IsDifference
<1>9. /\ Num(Joined(add(x, y))) = l + Base * h
      /\ Num(Joined(x)) = xl + Base * xh /\ Num(Joined(y)) = yl + Base * yh
  BY <1>7, JoinedNum
<1>10. l + c * Base = xl + yl + 0 /\ h + e * Base = xh + yh + c
  BY <1>3, <1>5, <1>8 DEF IsSum, IsDifference
<1> HIDE DEF l, h, xl, xh, yl, yh, c, e
<1>11. l + c * Base = xl + yl
  BY <1>8, <1>10
<1>12. (l + Base * h) + e * (Base * Base) = (xl + Base * xh) + (yl + Base * yh)
  BY <1>8, <1>10, <1>11, DigitsAdd
<1> QED BY <1>7, <1>8, <1>9, <1>12

\* The difference of two integers.
LEMMA SubtractExact ==
  ASSUME NEW x \in Data, NEW y \in Data
  PROVE  /\ subtract(x, y) \in Data
         /\ \E e \in Int : Num(Joined(subtract(x, y))) + e * (Base * Base)
                             = Num(Joined(x)) - Num(Joined(y))
<1>1. x.low \in HWord /\ x.high \in HWord /\ y.low \in HWord /\ y.high \in HWord
  BY Words0 DEF HWord
<1> DEFINE low == subtract_with_borrow(x.low, y.low, FALSE)
           high == subtract_with_borrow(x.high, y.high, low.borrow)
<1>2. FALSE \in Flags
  BY DEF Flags
<1>3. IsDifference(x.low, y.low, FALSE, low)
  BY <1>1, <1>2, BorrowExact, Zenon
<1>4. low.borrow \in Flags
  BY <1>3, Zenon DEF IsDifference
<1>5. IsDifference(x.high, y.high, low.borrow, high)
  BY <1>1, <1>4, BorrowExact, Zenon
<1>6. subtract(x, y) = Pair(low.value, high.value)
  BY DEF subtract
<1> HIDE DEF low, high
<1>7. /\ subtract(x, y) \in Data
      /\ subtract(x, y).low = low.value /\ subtract(x, y).high = high.value
  BY <1>3, <1>5, <1>6, PairData DEF HWord, IsSum, IsDifference
<1> DEFINE l == Num(low.value)
           h == Num(high.value)
           xl == Num(x.low)
           xh == Num(x.high)
           yl == Num(y.low)
           yh == Num(y.high)
           c == Unit(low.borrow)
           e == Unit(high.borrow)
<1>8. /\ Base \in Int /\ l \in Int /\ h \in Int /\ xl \in Int /\ xh \in Int
      /\ yl \in Int /\ yh \in Int /\ c \in Int /\ e \in Int /\ Unit(FALSE) = 0
  BY <1>1, <1>3, <1>5, WordNum, BaseFacts DEF Unit, IsSum, IsDifference
<1>9. /\ Num(Joined(subtract(x, y))) = l + Base * h
      /\ Num(Joined(x)) = xl + Base * xh /\ Num(Joined(y)) = yl + Base * yh
  BY <1>7, JoinedNum
<1>10. l - c * Base = xl - yl - 0 /\ h - e * Base = xh - yh - c
  BY <1>3, <1>5, <1>8 DEF IsSum, IsDifference
<1> HIDE DEF l, h, xl, xh, yl, yh, c, e
<1>11. (l + Base * h) + (-e) * (Base * Base) = (xl + Base * xh) - (yl + Base * yh)
  <2>1. /\ -yl \in Int /\ -yh \in Int /\ -c \in Int /\ -e \in Int
        /\ l + (-c) * Base = xl + (-yl) /\ h + (-e) * Base = xh + (-yh) + (-c)
    BY <1>8, <1>10
  <2>2. (l + Base * h) + (-e) * (Base * Base)
          = (xl + Base * xh) + (-yl + Base * (-yh))
    BY <1>8, <2>1, DigitsAdd
  <2>3. Base * (-yh) = -(Base * yh) /\ Base * yh \in Int /\ Base * xh \in Int
    BY <1>8
  <2> QED BY <1>8, <2>2, <2>3
<1>12. -e \in Int
  BY <1>8
<1> QED BY <1>7, <1>9, <1>11, <1>12

\* Small integers.
LEMMA SmallOnes ==
  /\ Whole(Zero) \in Data /\ Num(Joined(Whole(Zero))) = 0 /\ Joined(Whole(Zero)) = {}
  /\ Whole(One) \in Data /\ Num(Joined(Whole(One))) = 1 /\ Joined(Whole(One)) = {0}
<1>1. {} \in SUBSET (0 .. H - 1) /\ {0} \in SUBSET (0 .. H - 1)
  BY BaseFacts
<1>2. /\ Whole(Zero) \in Data /\ Whole(Zero).low = {} /\ Whole(Zero).high = {}
      /\ Whole(One) \in Data /\ Whole(One).low = {0} /\ Whole(One).high = {}
  BY <1>1, PairData DEF Whole, Zero, One
<1>3. Joined(Whole(Zero)) = {} /\ Joined(Whole(One)) = {0}
  BY <1>2 DEF Joined
<1>4. Num({}) = 0 /\ Num({0}) = 1
  BY CarryBit DEF Bit, One, Zero, Unit
<1> QED BY <1>2, <1>3, <1>4

\* The order of two integers is that of their high words, then of their low ones.
LEMMA CompareExact ==
  ASSUME NEW x \in Data, NEW y \in Data
  PROVE  compare(x, y) = Wide!Sign(Num(Joined(x)) - Num(Joined(y)))
<1> DEFINE a == Num(x.low)
           b == Num(x.high)
           c == Num(y.low)
           d == Num(y.high)
<1>1. x.low \in HWord /\ x.high \in HWord /\ y.low \in HWord /\ y.high \in HWord
  BY Words0 DEF HWord
<1>2. /\ a \in Nat /\ b \in Nat /\ c \in Nat /\ d \in Nat /\ Base \in Nat
      /\ a < Base /\ b < Base /\ c < Base /\ d < Base
  BY <1>1, WordNum, BaseFacts
<1>3. Num(Joined(x)) = a + Base * b /\ Num(Joined(y)) = c + Base * d
  BY JoinedNum
<1>4. x.high = y.high <=> b = d
  BY <1>1, BaseFacts, SameNumber DEF HWord
<1>5. compare(x, y) = IF b # d THEN Wide!Sign(b - d) ELSE Wide!Sign(a - c)
  BY <1>4 DEF compare, compare_words
<1> HIDE DEF a, b, c, d
<1> DEFINE p == a - c
           q == b - d
           n == (a + Base * b) - (c + Base * d)
<1>6. p \in Int /\ q \in Int /\ n \in Int /\ p < Base /\ -p < Base /\ n = p + Base * q
  <2>1. /\ Base * b \in Int /\ Base * d \in Int /\ Base * (b - d) = Base * b - Base * d
    BY <1>2
  <2> QED BY <1>2, <2>1
<1>7. (b # d <=> q # 0) /\ compare(x, y) = IF b # d THEN Wide!Sign(q) ELSE Wide!Sign(p)
  BY <1>2, <1>5
<1>8. Num(Joined(x)) - Num(Joined(y)) = n
  BY <1>3
<1> HIDE DEF p, q, n
<1>9. \A k \in Nat : Base * k \in Nat
  BY <1>2
<1>10. (q > 0 => n > 0) /\ (q < 0 => n < 0) /\ (q = 0 => n = p)
  <2>1. q > 0 => Base * (q - 1) \in Nat /\ Base * q = Base + Base * (q - 1)
    BY <1>2, <1>6, <1>9
  <2>2. q < 0 => Base * (-q - 1) \in Nat /\ Base * q = -(Base + Base * (-q - 1))
    BY <1>2, <1>6, <1>9
  <2>3. q = 0 => Base * q = 0
    BY <1>2
  <2> QED BY <1>2, <1>6, <2>1, <2>2, <2>3
<1>11. CASE q = 0
  BY <1>7, <1>8, <1>10, <1>11
<1>12. CASE q > 0
  <2>1. Wide!Sign(q) = 1 /\ Wide!Sign(n) = 1 /\ q # 0
    BY <1>6, <1>10, <1>12 DEF Wide!Sign
  <2> QED BY <1>7, <1>8, <2>1
<1>13. CASE q < 0
  <2>1. Wide!Sign(q) = -1 /\ Wide!Sign(n) = -1 /\ q # 0
    BY <1>6, <1>10, <1>13 DEF Wide!Sign
  <2> QED BY <1>7, <1>8, <2>1
<1> QED BY <1>6, <1>11, <1>12, <1>13

-------------------------------------------------------------------------------
(***************************************************************************)
(* The highest one-bit                                                     *)
(***************************************************************************)
\* The width, the rounding and the number of a word that is not zero, by its highest one.
LEMMA TopOne ==
  ASSUME NEW w \in Nat, NEW s \in SUBSET (0 .. w - 1), s # {}
  PROVE  \E m \in s : /\ \A b \in s : b <= m
                      /\ BitWidth(s) = m + 1 /\ Wide!BitFloor(s) = {m}
                      /\ 2 ^ m <= Num(s) /\ Num(s) < 2 ^ (m + 1)
<1>1. s \in N!Word(w)
  BY DEF N!Word, N!Full
<1>2. /\ N!BitWidth(s) = N!Max(s) + 1 /\ N!Max(s) \in s /\ \A b \in s : b <= N!Max(s)
  BY <1>1, WideIsAWord, N!BitWidthIs
<1>3. N!BitWidth(s) = BitWidth(s) /\ Wide!Max(s) = N!Max(s)
  BY CountsSame
<1>4. PICK m \in s : m = N!Max(s)
  BY <1>2
<1>5. \A b \in s : b <= m
  BY <1>2, <1>4
<1>6. BitWidth(s) = m + 1 /\ Wide!BitFloor(s) = {m}
  BY <1>2, <1>3, <1>4 DEF Wide!BitFloor
<1>7. m \in Nat /\ m + 1 \in Nat /\ s \in SUBSET (0 .. (m + 1) - 1)
  BY <1>5
<1>8. Num(s) \in Nat /\ Num(s) < 2 ^ (m + 1)
  BY <1>7, NumIsBelow
<1>9. 2 ^ m <= Num(s)
  <2>1. s \in SUBSET Nat /\ IsFiniteSet(s) /\ {m} \in SUBSET s /\ s \ {m} \in SUBSET (0 .. m)
    <3>1. IsFiniteSet(0 .. m)
      BY <1>7, FS_Interval
    <3>2. s \in SUBSET (0 .. m)
      BY <1>7
    <3>3. IsFiniteSet(s)
      BY <3>1, <3>2, FS_Subset, Zenon
    <3>4. s \in SUBSET Nat /\ {m} \in SUBSET s /\ s \ {m} \in SUBSET (0 .. m)
      BY <1>7, <3>2
    <3> QED BY <3>3, <3>4
  <2>2. N!Num({m}) + N!Num(s \ {m}) = N!Num(s)
    <3>1. N!IsFiniteSet(s)
      BY <2>1, CountsSame
    <3> QED BY <2>1, <3>1, WideIsAWord, N!NumMonotone, Zenon
  <2>3. N!Num({m}) = 2 ^ m
    BY <1>7, WideIsAWord, N!NumOne
  <2>4. Num(s \ {m}) \in Nat
    <3>1. s \ {m} \in SUBSET (0 .. (m + 1) - 1)
      BY <1>7
    <3> QED BY <1>7, <3>1, NumIsBelow
  <2>5. 2 ^ m \in Nat
    BY <1>7, WideIsAWord, N!PowerType
  <2>6. 2 ^ m + Num(s \ {m}) = Num(s)
    BY <2>2, <2>3, NumSame
  <2> QED BY <1>8, <2>4, <2>5, <2>6
<1> QED BY <1>5, <1>6, <1>8, <1>9

\* The empty word.
LEMMA NoOne == BitWidth({}) = 0 /\ Num({}) = 0 /\ Wide!BitFloor({}) = {}
<1>1. UNION {0 .. b : b \in {}} = {}
  OBVIOUS
<1>2. BitWidth({}) = 0
  BY <1>1, FS_EmptySet DEF BitWidth
<1> QED BY <1>2, CarryBit, FALSE \in Flags DEF Flags, Bit, Zero, Unit, Wide!BitFloor

\* The width of the two words is that of the integer.
LEMMA WidthExact ==
  ASSUME NEW x \in Data
  PROVE  bit_width(x) = BitWidth(Joined(x))
<1>1. /\ x.low \in SUBSET (0 .. H - 1) /\ x.high \in SUBSET (0 .. H - 1)
      /\ H \in Nat /\ 2 * H \in Nat /\ Joined(x) \in SUBSET (0 .. 2 * H - 1)
      /\ \A b \in Int : b \in Joined(x) <=> b \in x.low \/ b - H \in x.high
  BY Words0, InJoined, BaseFacts
<1>2. CASE x.high = {}
  <2>1. Joined(x) = x.low
    BY <1>2 DEF Joined
  <2> QED BY <1>2, <2>1 DEF bit_width, Zero
<1>3. CASE x.high # {}
  <2>1. PICK m \in x.high : (\A b \in x.high : b <= m) /\ BitWidth(x.high) = m + 1
    BY <1>1, <1>3, TopOne
  <2>2. m + H \in Joined(x) /\ m \in Int
    BY <1>1
  <2>3. PICK n \in Joined(x) : (\A b \in Joined(x) : b <= n) /\ BitWidth(Joined(x)) = n + 1
    BY <1>1, <2>2, TopOne
  <2>4. n = m + H
    <3>1. m + H <= n /\ n \in Int
      BY <1>1, <2>2, <2>3
    <3>2. n \in x.low \/ n - H \in x.high
      BY <1>1, <3>1
    <3>3. n \in x.low => n <= H - 1
      BY <1>1
    <3>4. n - H \in x.high => n - H <= m
      BY <2>1
    <3>5. m \in Nat /\ ~(n <= H - 1)
      BY <1>1, <2>2, <3>1
    <3>6. n - H <= m
      BY <3>2, <3>3, <3>4, <3>5
    <3> QED BY BaseFacts, <3>1, <3>5, <3>6
  <2>5. bit_width(x) = H + (m + 1) /\ BitWidth(Joined(x)) = (m + H) + 1
    BY <1>3, <2>1, <2>3, <2>4 DEF bit_width, Zero
  <2> QED BY BaseFacts, <2>2, <2>5
<1> QED BY <1>2, <1>3

-------------------------------------------------------------------------------
(***************************************************************************)
(* The calls that compute a number                                         *)
(***************************************************************************)
\* A sum and a difference, written in two words.
LEMMA SumWritten ==
  ASSUME NEW x \in Data, NEW y \in Data
  PROVE  /\ Joined(add(x, y)) = Bin(2 * H, Num(Joined(x)) + Num(Joined(y)))
         /\ Joined(subtract(x, y)) = Bin(2 * H, Num(Joined(x)) - Num(Joined(y)))
<1>1. Num(Joined(x)) \in Int /\ Num(Joined(y)) \in Int
  BY JoinedNum, NumIsBelow, BaseFacts
<1>2. Joined(add(x, y)) = Bin(2 * H, Num(Joined(x)) + Num(Joined(y)))
  <2>1. add(x, y) \in Data
    BY AddExact
  <2>2. PICK e \in Int : Num(Joined(add(x, y))) + e * (Base * Base)
                           = Num(Joined(x)) + Num(Joined(y))
    BY AddExact
  <2> QED BY <1>1, <2>1, <2>2, TwoWords
<1>3. Joined(subtract(x, y)) = Bin(2 * H, Num(Joined(x)) - Num(Joined(y)))
  <2>1. subtract(x, y) \in Data
    BY SubtractExact
  <2>2. PICK e \in Int : Num(Joined(subtract(x, y))) + e * (Base * Base)
                           = Num(Joined(x)) - Num(Joined(y))
    BY SubtractExact
  <2> QED BY <1>1, <2>1, <2>2, TwoWords
<1> QED BY <1>2, <1>3

\* The absolute difference takes the smaller from the larger.
LEMMA AbsDiffWritten ==
  ASSUME NEW x \in Data, NEW y \in Data
  PROVE  Joined(abs_diff(x, y)) =
           Bin(2 * H, IF Num(Joined(x)) > Num(Joined(y)) THEN Num(Joined(x)) - Num(Joined(y))
                      ELSE Num(Joined(y)) - Num(Joined(x)))
<1>1. Num(Joined(x)) \in Int /\ Num(Joined(y)) \in Int
  BY JoinedNum, NumIsBelow, BaseFacts
<1>2. compare(x, y) = 1 <=> Num(Joined(x)) > Num(Joined(y))
  BY <1>1, CompareExact DEF Wide!Sign
<1> QED BY <1>2, SumWritten DEF abs_diff

\* A power of two, as a word and as a number.
LEMMA PowerWord ==
  ASSUME NEW k \in 0 .. 2 * H
  PROVE  /\ ShiftLeft(Whole(One), k) \in Data
         /\ Joined(ShiftLeft(Whole(One), k)) = Bin(2 * H, 2 ^ k)
<1>1. H \in Nat /\ 2 * H \in Nat /\ k \in Nat /\ Wide!AtLeastZero(k) = k
  BY BaseFacts DEF Wide!AtLeastZero
<1>2. /\ Whole(One) \in Data /\ Joined(Whole(One)) = {0}
  BY SmallOnes
<1>3. /\ ShiftLeft(Whole(One), k) \in Data
      /\ Joined(ShiftLeft(Whole(One), k)) = Wide!Left(2 * H, {0}, k)
  <2>1. k \in Int
    BY <1>1
  <2> QED BY <1>1, <1>2, <2>1, ShiftsExact, Zenon
<1>4. Wide!Left(2 * H, {0}, k) = IF k < 2 * H THEN {k} ELSE {}
  BY <1>1 DEF Wide!Left, Wide!Full
<1>5. CASE k < 2 * H
  <2>1. {k} \in SUBSET (0 .. 2 * H - 1)
    BY <1>1, <1>5
  <2>2. Num({k}) = 2 ^ k /\ 2 ^ k \in Nat
    BY <1>1, WideIsAWord, N!NumOne, N!PowerType, NumSame
  <2>3. Bin(2 * H, Num({k}) + 0 * 2 ^ (2 * H)) = {k}
    BY <1>1, <2>1, 0 \in Int, WrittenBack, Zenon
  <2>4. Num({k}) + 0 * 2 ^ (2 * H) = 2 ^ k
    BY <2>2, BaseFacts
  <2> QED BY <1>3, <1>4, <1>5, <2>3, <2>4
<1>6. CASE k = 2 * H
  <2>1. Bin(2 * H, Num({}) + 1 * 2 ^ (2 * H)) = {}
    <3>1. {} \in SUBSET (0 .. 2 * H - 1) /\ 1 \in Int
      OBVIOUS
    <3> QED BY <1>1, <3>1, WrittenBack, Zenon
  <2>2. Num({}) + 1 * 2 ^ (2 * H) = 2 ^ k
    BY <1>6, NoOne, BaseFacts
  <2>3. ~(k < 2 * H)
    BY <1>1, <1>6
  <2> QED BY <1>3, <1>4, <2>1, <2>2, <2>3, Zenon
<1> QED BY <1>1, <1>5, <1>6

\* A higher power is at least twice a lower one.
LEMMA PowersRise ==
  ASSUME NEW j \in Nat, NEW k \in Nat, j < k
  PROVE  2 ^ j \in Nat /\ 2 ^ j > 0 /\ 2 * 2 ^ j <= 2 ^ k
<1>1. 2 ^ j \in Nat \ {0} /\ 2 ^ k \in Nat \ {0} /\ 2 ^ (j + 1) = 2 * 2 ^ j
  BY WideIsAWord, N!PowerType, N!Double
<1>2. PICK q \in Nat : 2 ^ k = q * 2 ^ (j + 1)
  BY j + 1 \in Nat, k >= j + 1, WideIsAWord, N!PowerMultiple
<1> DEFINE p == 2 ^ (j + 1)
<1>3. p \in Nat /\ q * p > 0
  BY <1>1, <1>2
<1>4. q * p >= p
  <2> HIDE DEF p
  <2>1. q # 0
    BY <1>3
  <2>2. q - 1 \in Nat /\ q * p = p + (q - 1) * p
    BY <1>3, <2>1
  <2>3. (q - 1) * p \in Nat
    BY <1>3, <2>2
  <2> QED BY <1>3, <2>2, <2>3
<1> QED BY <1>1, <1>2, <1>4

\* The least power that is not below n, found by naming it.
LEMMA NextPower ==
  ASSUME NEW n \in Nat, NEW k \in 0 .. 2 * H, n <= 2 ^ k,
         IF k = 0 THEN n <= 1 ELSE 2 ^ (k - 1) < n
  PROVE  (CHOOSE p \in {2 ^ j : j \in 0 .. 2 * H} : p >= n /\ (p = 1 \/ p \div 2 < n)) = 2 ^ k
<1> DEFINE S == {2 ^ j : j \in 0 .. 2 * H}
           P(p) == p >= n /\ (p = 1 \/ p \div 2 < n)
<1>1. H \in Nat /\ k \in Nat /\ 2 ^ 0 = 1
  BY BaseFacts, WideIsAWord, N!PowerType
<1>2. ASSUME NEW j \in Nat, j > 0
      PROVE  /\ 2 ^ j = 2 * 2 ^ (j - 1) /\ 2 ^ (j - 1) \in Nat /\ 2 ^ (j - 1) > 0
             /\ 2 ^ j \div 2 = 2 ^ (j - 1) /\ 2 ^ j # 1
  <2>1. j - 1 \in Nat /\ (j - 1) + 1 = j
    BY <1>2
  <2>2. 2 ^ ((j - 1) + 1) = 2 * 2 ^ (j - 1) /\ 2 ^ (j - 1) \in Nat \ {0}
    BY <2>1, WideIsAWord, N!Double, N!PowerType
  <2>3. \A a \in Nat : (2 * a) \div 2 = a
    OBVIOUS
  <2> QED BY <2>1, <2>2, <2>3
<1>3. 2 ^ k \in S /\ 2 ^ k \in Nat
  BY <1>1, WideIsAWord, N!PowerType
<1>4. P(2 ^ k)
  <2>1. CASE k = 0
    BY <1>1, <2>1
  <2>2. CASE k # 0
    BY <1>1, <1>2, <1>3, <2>2
  <2> QED BY <2>1, <2>2
<1>5. ASSUME NEW j \in 0 .. 2 * H, P(2 ^ j)
      PROVE  j = k
  <2>1. 2 ^ j \in Nat
    BY WideIsAWord, N!PowerType
  <2>2. CASE j < k
    <3>1. 2 * 2 ^ j <= 2 ^ k /\ 2 ^ k = 2 * 2 ^ (k - 1) /\ 2 ^ (k - 1) \in Nat /\ 2 ^ (k - 1) < n
      BY <1>1, <1>2, <2>2, PowersRise
    <3> QED BY <1>5, <2>1, <3>1
  <2>3. CASE k < j
    <3>1. 2 * 2 ^ k <= 2 ^ j /\ 2 ^ j = 2 * 2 ^ (j - 1) /\ 2 ^ (j - 1) \in Nat
          /\ 2 ^ j \div 2 = 2 ^ (j - 1) /\ 2 ^ j # 1
      BY <1>1, <1>2, <2>3, PowersRise
    <3> QED BY <1>3, <1>5, <2>1, <3>1
  <2> QED BY <1>1, <2>2, <2>3
<1>6. (CHOOSE p \in S : P(p)) \in S /\ P(CHOOSE p \in S : P(p))
  BY <1>3, <1>4, Zenon
<1> HIDE DEF P
<1>7. \A p \in S : P(p) => p = 2 ^ k
  BY <1>5
<1> QED BY <1>6, <1>7 DEF P

\* The two words of the integer zero.
LEMMA NoBits ==
  ASSUME NEW x \in Data
  PROVE  Joined(x) = {} <=> x = Whole(Zero)
<1>1. Joined(x) = {} => x.low = {} /\ x.high = {}
  BY DEF Joined
<1>2. x = Pair(x.low, x.high)
  BY Words0
<1> QED BY <1>1, <1>2, SmallOnes DEF Whole, Zero

\* bit_floor keeps the highest one-bit.
LEMMA FloorWritten ==
  ASSUME NEW x \in Data
  PROVE  Joined(bit_floor(x)) = Bin(2 * H, Num(Wide!BitFloor(Joined(x))))
<1>1. 2 * H \in Nat /\ Joined(x) \in SUBSET (0 .. 2 * H - 1)
  BY BaseFacts, JoinedNum
<1>2. CASE Joined(x) = {}
  <2>1. Bin(2 * H, Num({}) + 0 * 2 ^ (2 * H)) = {}
    <3>1. {} \in SUBSET (0 .. 2 * H - 1) /\ 0 \in Int
      OBVIOUS
    <3> QED BY <1>1, <3>1, WrittenBack, Zenon
  <2>2. Num({}) + 0 * 2 ^ (2 * H) = 0 /\ Num(Wide!BitFloor({})) = 0
    BY NoOne, BaseFacts
  <2>3. bit_floor(x) = x
    BY <1>2, NoBits DEF bit_floor
  <2> QED BY <1>2, <2>1, <2>2, <2>3
<1>3. CASE Joined(x) # {}
  <2>1. PICK m \in Joined(x) : BitWidth(Joined(x)) = m + 1 /\ Wide!BitFloor(Joined(x)) = {m}
    BY <1>1, <1>3, TopOne
  <2>2. m \in 0 .. 2 * H /\ m \in Nat /\ bit_width(x) - 1 = m
    BY <1>1, <2>1, WidthExact
  <2>3. bit_floor(x) = ShiftLeft(Whole(One), m)
    BY <1>3, <2>2, NoBits DEF bit_floor
  <2>4. Num({m}) = 2 ^ m
    BY <2>2, WideIsAWord, N!NumOne, NumSame
  <2> QED BY <2>1, <2>2, <2>3, <2>4, PowerWord
<1> QED BY <1>2, <1>3

\* bit_ceil is the least power of two that is not below the integer.
LEMMA CeilWritten ==
  ASSUME NEW x \in Data
  PROVE  Joined(bit_ceil(x)) =
           Bin(2 * H, CHOOSE p \in {2 ^ j : j \in 0 .. 2 * H} :
                        p >= Num(Joined(x)) /\ (p = 1 \/ p \div 2 < Num(Joined(x))))
<1> DEFINE n == Num(Joined(x))
           d == decrement(x)
<1>1. 2 * H \in Nat /\ Joined(x) \in SUBSET (0 .. 2 * H - 1)
  BY BaseFacts, JoinedNum
<1>2. n \in Nat /\ n < 2 ^ (2 * H) /\ 2 ^ (2 * H) \in Nat
  BY <1>1, NumIsBelow
<1>3. compare(x, Whole(One)) = Wide!Sign(n - 1)
  BY SmallOnes, CompareExact
<1>4. CASE n <= 1
  <2>1. bit_ceil(x) = Whole(One)
    BY <1>2, <1>3, <1>4 DEF bit_ceil, Wide!Sign
  <2>2. 0 \in 0 .. 2 * H /\ 2 ^ 0 = 1
    BY <1>1, WideIsAWord, N!PowerType
  <2>3. Joined(Whole(One)) = Bin(2 * H, 2 ^ 0)
    <3>1. ShiftLeft(Whole(One), 0) = Whole(One)
      BY BaseFacts DEF ShiftLeft, normalize_shift, shift_left
    <3> QED BY <2>2, <3>1, PowerWord
  <2> HIDE DEF n
  <2> QED BY <1>2, <1>4, <2>1, <2>2, <2>3, NextPower DEF n
<1>5. CASE n > 1
  <2>1. bit_ceil(x) = ShiftLeft(Whole(One), bit_width(d))
    BY <1>2, <1>3, <1>5 DEF bit_ceil, Wide!Sign
  <2>2. d \in Data /\ Joined(d) = Bin(2 * H, n - 1)
    <3>1. Whole(One) \in Data /\ Num(Joined(Whole(One))) = 1 /\ d = subtract(x, Whole(One))
      BY SmallOnes DEF decrement
    <3> HIDE DEF n, d
    <3>2. d \in Data
      BY <3>1, SubtractExact
    <3>3. Joined(d) = Bin(2 * H, Num(Joined(x)) - 1)
      BY <3>1, SumWritten
    <3> QED BY <3>2, <3>3 DEF n
  <2>3. Num(Joined(d)) = n - 1
    <3>1. n - 1 \in 0 .. 2 ^ (2 * H) - 1
      BY <1>2, <1>5
    <3> QED BY <1>1, <2>2, <3>1, WrittenIs
  <2> DEFINE s == Joined(d)
  <2> HIDE DEF n, d
  <2>4. s # {} /\ s \in SUBSET (0 .. 2 * H - 1)
    <3>1. s \in SUBSET (0 .. 2 * H - 1)
      BY <2>2, JoinedNum
    <3>2. s = {} => Num(s) = 0
      BY NoOne
    <3>3. Num(s) # 0
      BY <1>2, <1>5, <2>3
    <3> QED BY <3>1, <3>2, <3>3
  <2>5. PICK m \in s : /\ BitWidth(s) = m + 1
                      /\ 2 ^ m <= n - 1 /\ n - 1 < 2 ^ (m + 1)
    <3>1. Num(s) = n - 1
      BY <2>3
    <3> HIDE DEF s
    <3>2. PICK m \in s : /\ BitWidth(s) = m + 1
                        /\ 2 ^ m <= Num(s) /\ Num(s) < 2 ^ (m + 1)
      BY <1>1, <2>4, TopOne
    <3> QED BY <3>1, <3>2
  <2>6. /\ bit_width(d) = m + 1 /\ m \in Nat /\ m + 1 \in 0 .. 2 * H /\ m + 1 # 0
        /\ (m + 1) - 1 = m
    BY <1>1, <2>2, <2>4, <2>5, WidthExact
  <2>7. 2 ^ m \in Nat /\ 2 ^ (m + 1) \in Nat
    BY <2>6, WideIsAWord, N!PowerType
  <2>8. n <= 2 ^ (m + 1) /\ 2 ^ ((m + 1) - 1) < n
    BY <1>2, <2>5, <2>6, <2>7
  <2>9. (CHOOSE p \in {2 ^ j : j \in 0 .. 2 * H} : p >= n /\ (p = 1 \/ p \div 2 < n))
          = 2 ^ (m + 1)
    BY <1>2, <2>6, <2>8, NextPower
  <2> QED BY <2>1, <2>6, <2>9, PowerWord DEF n
<1> QED BY <1>2, <1>4, <1>5

-------------------------------------------------------------------------------
(***************************************************************************)
(* The questions                                                           *)
(***************************************************************************)
\* The one-bits of the two words are those of the integer.
LEMMA OnesOfBoth ==
  ASSUME NEW x \in Data
  PROVE  IsFiniteSet(Joined(x)) /\ popcount(x) = Cardinality(Joined(x))
<1> DEFINE U == {b + H : b \in x.high}
           f == [b \in x.high |-> b + H]
<1>1. /\ x.low \in SUBSET (0 .. H - 1) /\ x.high \in SUBSET (0 .. H - 1) /\ H \in Nat
      /\ IsFiniteSet(0 .. H - 1)
  <2>1. 0 \in Int /\ H - 1 \in Int /\ H \in Nat
    BY BaseFacts
  <2> QED BY <2>1, Words0, FS_Interval
<1>2. IsFiniteSet(x.low) /\ IsFiniteSet(x.high)
  BY <1>1, FS_Subset, Zenon
<1>3. ExistsBijection(x.high, U)
  <2>1. f \in Bijection(x.high, U)
    BY <1>1 DEF Bijection, Injection, Surjection, IsInjective
  <2> QED BY <2>1 DEF ExistsBijection
<1>4. IsFiniteSet(U) /\ Cardinality(U) = Cardinality(x.high)
  BY <1>2, <1>3, FS_Bijection, Zenon
<1>5. x.low \cap U = {}
  BY <1>1
<1>6. /\ IsFiniteSet(x.low \cup U)
      /\ Cardinality(x.low \cup U) = Cardinality(x.low) + Cardinality(U) - Cardinality(x.low \cap U)
  BY <1>2, <1>4, FS_Union, Zenon
<1>7. Cardinality(x.low) \in Nat /\ Cardinality(x.high) \in Nat /\ Cardinality({}) = 0
  BY <1>2, FS_CardinalityType, FS_EmptySet
<1>8. Joined(x) = x.low \cup U
  BY DEF Joined
<1> HIDE DEF U
<1>9. Cardinality(x.low \cup U) = Cardinality(x.low) + Cardinality(x.high)
  <2>1. Cardinality(x.low \cup U) = Cardinality(x.low) + Cardinality(x.high) - 0
    BY <1>4, <1>5, <1>6, <1>7, Zenon
  <2>2. \A a, b \in Nat : a + b - 0 = a + b
    OBVIOUS
  <2> QED BY <1>7, <2>1, <2>2, Zenon
<1> QED BY <1>6, <1>8, <1>9 DEF popcount

\* The least one-bit of a word, by naming it.
LEMMA LowestOne ==
  ASSUME NEW w \in Nat, NEW s \in SUBSET (0 .. w - 1), s # {}
  PROVE  \E m \in s : (\A b \in s : m <= b) /\ Wide!Min(s) = m
<1>1. s \in SUBSET Nat /\ s \in SUBSET Int
  OBVIOUS
<1>2. PICK m \in s : \A b \in s : m <= b
  BY <1>1, WideIsAWord, N!NatMin
<1>3. N!Min(s) = m
  BY <1>1, <1>2, WideIsAWord, N!MinIs
<1> QED BY <1>2, <1>3, CountsSame

\* The zeros below the least one-bit of a word, or all of them.
LEMMA ZerosBelowIs ==
  ASSUME NEW s \in SUBSET (0 .. H - 1)
  PROVE  /\ s = {} => ZerosBelow(s) = H
         /\ \A m \in s : (\A b \in s : m <= b) => ZerosBelow(s) = m
<1> DEFINE Z == {b \in AllOnes : (0 .. b) \cap s = {}}
<1>1. H \in Nat /\ AllOnes = 0 .. H - 1
  BY BaseFacts DEF AllOnes, Full
<1>2. ASSUME s = {}
      PROVE  ZerosBelow(s) = H
  <2>1. Z = 0 .. H - 1
    BY <1>1, <1>2
  <2>2. Cardinality(0 .. H - 1) = H
    <3>1. 0 \in Int /\ H - 1 \in Int
      BY <1>1
    <3>2. Cardinality(0 .. H - 1) = IF 0 > H - 1 THEN 0 ELSE (H - 1) - 0 + 1
      BY <3>1, FS_Interval
    <3> QED BY <1>1, <3>2, BaseFacts
  <2> QED BY <2>1, <2>2 DEF ZerosBelow
<1>3. ASSUME NEW m \in s, \A b \in s : m <= b
      PROVE  ZerosBelow(s) = m
  <2>1. Z = 0 .. m - 1
    <3>1. ASSUME NEW b \in Z
          PROVE  b \in 0 .. m - 1
      BY <1>1, <3>1
    <3>2. ASSUME NEW b \in 0 .. m - 1
          PROVE  b \in Z
      BY <1>1, <1>3
    <3> QED BY <3>1, <3>2
  <2>2. Cardinality(0 .. m - 1) = m
    <3>1. m \in Nat /\ 0 \in Int /\ m - 1 \in Int
      BY <1>1
    <3>2. Cardinality(0 .. m - 1) = IF 0 > m - 1 THEN 0 ELSE (m - 1) - 0 + 1
      BY <3>1, FS_Interval
    <3> QED BY <3>1, <3>2
  <2> QED BY <2>1, <2>2 DEF ZerosBelow
<1> QED BY <1>2, <1>3

\* The zeros below the least one-bit of two words are those of the integer.
LEMMA TrailingExact ==
  ASSUME NEW x \in Data
  PROVE  countr_zero(x) = IF Joined(x) = {} THEN 2 * H ELSE Wide!Min(Joined(x))
<1>1. /\ x.low \in SUBSET (0 .. H - 1) /\ x.high \in SUBSET (0 .. H - 1)
      /\ H \in Nat /\ 2 * H \in Nat /\ Joined(x) \in SUBSET (0 .. 2 * H - 1)
      /\ \A b \in Int : b \in Joined(x) <=> b \in x.low \/ b - H \in x.high
  BY Words0, InJoined, BaseFacts
<1>2. CASE x.low = {} /\ x.high = {}
  <2>1. Joined(x) = {}
    BY <1>2 DEF Joined
  <2>2. ZerosBelow({}) = H
    BY ZerosBelowIs, {} \in SUBSET (0 .. H - 1)
  <2> QED BY <1>1, <1>2, <2>1, <2>2 DEF countr_zero, Zero
<1>3. CASE x.low # {}
  <2>1. PICK m \in x.low : \A b \in x.low : m <= b
    BY <1>1, <1>3, LowestOne
  <2>2. m \in Joined(x) /\ m <= H - 1 /\ m \in Int
    BY <1>1
  <2>3. PICK n \in Joined(x) : (\A b \in Joined(x) : n <= b) /\ Wide!Min(Joined(x)) = n
    BY <1>1, <2>2, LowestOne
  <2>4. n = m
    <3>1. n \in Int /\ n <= m
      BY <1>1, <2>2, <2>3
    <3>2. n \in x.low \/ n - H \in x.high
      BY <1>1, <3>1
    <3>3. n - H \in x.high => n >= H
      BY <1>1, <3>1
    <3> QED BY <1>1, <2>1, <2>2, <3>1, <3>2, <3>3
  <2>5. ZerosBelow(x.low) = m
    BY <1>1, <2>1, ZerosBelowIs
  <2> QED BY <1>3, <2>2, <2>3, <2>4, <2>5 DEF countr_zero, Zero
<1>4. CASE x.low = {} /\ x.high # {}
  <2>1. PICK m \in x.high : \A b \in x.high : m <= b
    BY <1>1, <1>4, LowestOne
  <2>2. m + H \in Joined(x) /\ m \in Int
    BY <1>1
  <2>3. PICK n \in Joined(x) : (\A b \in Joined(x) : n <= b) /\ Wide!Min(Joined(x)) = n
    BY <1>1, <2>2, LowestOne
  <2>4. n = m + H
    <3>1. n \in Int /\ n <= m + H
      BY <1>1, <2>2, <2>3
    <3>2. n - H \in x.high
      BY <1>1, <1>4, <3>1
    <3>3. m <= n - H
      BY <2>1, <3>2
    <3> QED BY <1>1, <2>2, <3>1, <3>3
  <2>5. ZerosBelow(x.high) = m
    BY <1>1, <2>1, ZerosBelowIs
  <2> QED BY <1>1, <1>4, <2>2, <2>3, <2>4, <2>5 DEF countr_zero, Zero
<1> QED BY <1>2, <1>3, <1>4

\* What is asked of the ones is what is asked of the zeros of the complement.
LEMMA OnesAreZeros ==
  ASSUME NEW x \in Data
  PROVE  /\ bitwise_not(x) \in Data
         /\ Joined(bitwise_not(x)) = Wide!Full(2 * H) \ Joined(x)
         /\ countr_one(x) = countr_zero(bitwise_not(x))
         /\ countl_one(x) = countl_zero(bitwise_not(x))
<1>1. x.low \in SUBSET (0 .. H - 1) /\ x.high \in SUBSET (0 .. H - 1)
  BY Words0
<1>2. /\ bitwise_not(x).low = Complement(H, x.low) /\ bitwise_not(x).high = Complement(H, x.high)
      /\ x.low = AllOnes <=> Complement(H, x.low) = {}
      /\ x.high = AllOnes <=> Complement(H, x.high) = {}
  BY <1>1 DEF bitwise_not, Pair, Complement, AllOnes, Full
<1>3. /\ countr_one(x) = countr_zero(bitwise_not(x))
      /\ countl_one(x) = countl_zero(bitwise_not(x))
  BY <1>2 DEF countr_one, countr_zero, countl_one, countl_zero, Zero
<1> QED BY <1>3, LogicExact DEF Wide!Full

\* The zeros above the highest one-bit of two words are those of the integer.
LEMMA LeadingExact ==
  ASSUME NEW x \in Data
  PROVE  countl_zero(x) = 2 * H - BitWidth(Joined(x))
<1>1. /\ x.low \in SUBSET (0 .. H - 1) /\ x.high \in SUBSET (0 .. H - 1) /\ H \in Nat
  BY Words0, BaseFacts
<1>2. BitWidth(x.low) \in Int /\ BitWidth(x.high) \in Int
  BY <1>1, WordCounts
<1> QED BY <1>1, <1>2, WidthExact DEF bit_width, countl_zero, ZerosAbove

\* An integer of half the width, as a word and as two.
LEMMA HalfWritten ==
  ASSUME NEW n \in 0 .. Base - 1
  PROVE  /\ Bin(H, n) \in HWord /\ Num(Bin(H, n)) = n
         /\ Whole(Bin(H, n)) \in Data /\ Joined(Whole(Bin(H, n))) = Bin(H, n)
<1>1. Bin(H, n) \in HWord /\ Num(Bin(H, n)) = n
  BY BaseFacts, WrittenIs DEF HWord, Base
<1>2. Whole(Bin(H, n)) \in Data /\ Joined(Whole(Bin(H, n))) = Bin(H, n)
  <2>1. {} \in SUBSET (0 .. H - 1)
    OBVIOUS
  <2>2. Pair(Bin(H, n), {}) \in Data /\ Pair(Bin(H, n), {}).low = Bin(H, n)
        /\ Pair(Bin(H, n), {}).high = {}
    BY <1>1, <2>1, PairData DEF HWord
  <2> QED BY <2>2 DEF Whole, Zero, Joined
<1> QED BY <1>1, <1>2

\* The integers the comparisons take.
LEMMA ScalarRange ==
  ASSUME NEW n \in Wide!Scalars
  PROVE  n \in Int /\ (n >= 0 => n \in 0 .. Base - 1)
<1>1. (2 * H) \div 2 = H /\ H - 1 \in Nat
  BY BaseFacts
<1>2. 2 ^ (H - 1) \in Nat
  BY <1>1, WideIsAWord, N!PowerType
<1> QED BY <1>1, <1>2, BaseFacts DEF Wide!Scalars, Base

\* The comparisons with an integer of half the width.
LEMMA ScalarExact ==
  ASSUME NEW x \in Data, NEW n \in Wide!Scalars
  PROVE  /\ compare_scalar(x, n) = Wide!Sign(Num(Joined(x)) - n)
         /\ equals_scalar(x, n) <=> Num(Joined(x)) = n
<1>1. /\ n \in Int /\ (n >= 0 => n \in 0 .. Base - 1)
      /\ Num(Joined(x)) \in Nat /\ Joined(x) \in SUBSET (0 .. 2 * H - 1) /\ 2 * H \in Nat
  BY ScalarRange, JoinedNum, NumIsBelow, BaseFacts
<1>2. CASE n < 0
  <2>1. Wide!Sign(Num(Joined(x)) - n) = 1
    BY <1>1, <1>2 DEF Wide!Sign
  <2> QED BY <1>1, <1>2, <2>1 DEF compare_scalar, equals_scalar
<1>3. CASE n >= 0
  <2> DEFINE s == Bin(H, n)
  <2>1. Whole(s) \in Data /\ Num(Joined(Whole(s))) = n /\ Joined(Whole(s)) = s /\ s \in HWord
    BY <1>1, <1>3, HalfWritten
  <2>2. compare_scalar(x, n) = Wide!Sign(Num(Joined(x)) - n)
    <3>1. ~(n < 0)
      BY <1>1, <1>3
    <3> QED BY <2>1, <3>1, CompareExact DEF compare_scalar
  <2>3. equals_scalar(x, n) <=> x = Whole(s)
    BY <1>1, <1>3, Words0 DEF equals_scalar, Whole, Pair
  <2>4. Num(Joined(x)) = n => x = Whole(s)
    <3>1. Num(Joined(x)) = n => Joined(x) = Joined(Whole(s))
      BY <1>1, <2>1, JoinedNum, SameNumber
    <3>2. \A b \in Int : /\ b \in Joined(x) <=> b \in x.low \/ b - H \in x.high
      BY InJoined
    <3>3. Joined(x) = s => x.low = s /\ x.high = {}
      <4>1. x.low \in SUBSET (0 .. H - 1) /\ x.high \in SUBSET (0 .. H - 1) /\ H \in Nat
        BY Words0, BaseFacts
      <4>2. Joined(x) \subseteq 0 .. H - 1 => x.high = {}
        <5>1. ASSUME NEW b \in x.high
              PROVE  b + H \in Joined(x) /\ b + H \notin 0 .. H - 1
          BY <4>1 DEF Joined
        <5> QED BY <5>1
      <4>3. x.high = {} => Joined(x) = x.low
        BY DEF Joined
      <4>4. s \subseteq 0 .. H - 1
        BY <2>1 DEF HWord
      <4> QED BY <4>2, <4>3, <4>4
    <3> QED BY <2>1, <3>1, <3>3, Words0 DEF Whole, Zero
  <2> QED BY <2>1, <2>2, <2>3, <2>4
<1> QED BY <1>1, <1>2, <1>3

\* Every question is answered about the integer.
LEMMA AnswersExact ==
  ASSUME NEW x \in Data, NEW c \in Wide!Calls,
         c.op \in Wide!Questions \cup Wide!Comparisons \cup {"compare"}
  PROVE  Answer(x, c) = Wide!Answer(Joined(x), c)
<1> DEFINE v == Joined(x)
<1>1. /\ \A s : Wide!Num(s) = Num(s) /\ Wide!Cardinality(s) = Cardinality(s)
      /\ \A s : Wide!BitWidth(s) = BitWidth(s)
  BY NumSame, CountsSame
<1>2. CASE c.op = "compare"
  <2>1. c.rhs \in SUBSET (0 .. 2 * H - 1)
    BY <1>2
    DEF Wide!Calls, Wide!Arithmetic, Wide!Logic, Wide!Steps, Wide!Powers, Wide!Shifts,
        Wide!Questions, Wide!Comparisons, Wide!Word, Wide!Full
  <2>2. Split(c.rhs) \in Data /\ Joined(Split(c.rhs)) = c.rhs
    BY <2>1, SplitExact
  <2> QED BY <1>1, <1>2, <2>2, CompareExact DEF Answer, Wide!Answer
<1>3. CASE c.op \in Wide!Comparisons
  <2>1. c.scalar \in Wide!Scalars
    BY <1>3
    DEF Wide!Calls, Wide!Arithmetic, Wide!Logic, Wide!Steps, Wide!Powers, Wide!Shifts,
        Wide!Questions, Wide!Comparisons
  <2>2. /\ compare_scalar(x, c.scalar) = Wide!Sign(Num(v) - c.scalar)
        /\ equals_scalar(x, c.scalar) <=> Num(v) = c.scalar
    BY <2>1, ScalarExact
  <2>3. CASE c.op = "compare_scalar"
    BY <1>1, <2>2, <2>3 DEF Answer, Wide!Answer
  <2>4. CASE c.op = "equals_scalar"
    BY <1>1, <2>2, <2>4 DEF Answer, Wide!Answer
  <2> QED BY <1>3, <2>3, <2>4 DEF Wide!Comparisons
<1>4. CASE c.op = "has_single_bit"
  <2>1. popcount(x) = 1 <=> \E b \in v : v = {b}
    <3>1. Cardinality(v) = 1 <=> \E b : v = {b}
      BY OnesOfBoth, FS_Singleton, Zenon
    <3>2. (\E b : v = {b}) <=> \E b \in v : v = {b}
      OBVIOUS
    <3> QED BY <3>1, <3>2, OnesOfBoth
  <2> QED BY <1>4, <2>1 DEF Answer, Wide!Answer, has_single_bit
<1>5. CASE c.op = "popcount"
  BY <1>1, <1>5, OnesOfBoth DEF Answer, Wide!Answer
<1>6. CASE c.op = "countr_zero"
  BY <1>6, TrailingExact DEF Answer, Wide!Answer, Wide!TrailingZeros
<1>7. CASE c.op = "countr_one"
  <2>1. Answer(x, c) = countr_one(x)
    BY <1>7 DEF Answer
  <2>2. Wide!Answer(v, c) = Wide!TrailingZeros(Wide!Full(2 * H) \ v)
    BY <1>7 DEF Wide!Answer
  <2> QED BY <2>1, <2>2, OnesAreZeros, TrailingExact DEF Wide!TrailingZeros
<1>8. CASE c.op = "countl_zero"
  BY <1>1, <1>8, LeadingExact DEF Answer, Wide!Answer, Wide!LeadingZeros
<1>9. CASE c.op = "countl_one"
  <2>1. Answer(x, c) = countl_one(x)
    BY <1>9 DEF Answer
  <2>2. Wide!Answer(v, c) = Wide!LeadingZeros(Wide!Full(2 * H) \ v)
    BY <1>9 DEF Wide!Answer
  <2> QED BY <1>1, <2>1, <2>2, OnesAreZeros, LeadingExact DEF Wide!LeadingZeros
<1>10. CASE c.op = "bit_width"
  BY <1>1, <1>10, WidthExact DEF Answer, Wide!Answer
<1> QED
  BY <1>2, <1>3, <1>4, <1>5, <1>6, <1>7, <1>8, <1>9, <1>10 DEF Wide!Questions

-------------------------------------------------------------------------------
(***************************************************************************)
(* The two words implement the integer                                     *)
(***************************************************************************)
\* Every call that computes a number writes the number the integer's call does.
LEMMA NumbersExact ==
  ASSUME NEW x \in Data, NEW c \in Wide!Calls, c.op \in Wide!NumberCalls
  PROVE  Joined(NewNumber(x, c)) = Wide!Bin(2 * H, Wide!NewNumber(Joined(x), c))
<1> DEFINE n == Num(Joined(x))
<1>1. /\ \A s : Wide!Num(s) = Num(s)
      /\ \A k : Wide!Bin(2 * H, k) = Bin(2 * H, k)
      /\ n \in Nat /\ Base \in Nat
  BY NumSame, BinSame, JoinedNum, NumIsBelow, BaseFacts
<1>2. CASE c.op \in Wide!Arithmetic
  <2>1. c.rhs \in SUBSET (0 .. 2 * H - 1)
    BY <1>2
    DEF Wide!Calls, Wide!Arithmetic, Wide!Logic, Wide!Steps, Wide!Powers, Wide!Shifts,
        Wide!Questions, Wide!Comparisons, Wide!Word, Wide!Full
  <2>2. Split(c.rhs) \in Data /\ Joined(Split(c.rhs)) = c.rhs
    BY <2>1, SplitExact
  <2>3. CASE c.op = "add"
    BY <1>1, <2>2, <2>3, SumWritten DEF NewNumber, Wide!NewNumber
  <2>4. CASE c.op = "subtract"
    BY <1>1, <2>2, <2>4, SumWritten DEF NewNumber, Wide!NewNumber
  <2>5. CASE c.op = "abs_diff"
    BY <1>1, <2>2, <2>5, AbsDiffWritten DEF NewNumber, Wide!NewNumber
  <2> QED BY <1>2, <2>3, <2>4, <2>5 DEF Wide!Arithmetic
<1>3. CASE c.op = "negate"
  <2>1. Joined(negate(x)) = Bin(2 * H, 0 - n)
    BY SmallOnes, SumWritten DEF negate
  <2>2. 0 - n = -n
    BY <1>1
  <2>3. NewNumber(x, c) = negate(x) /\ Wide!NewNumber(Joined(x), c) = -n
    BY <1>1, <1>3 DEF NewNumber, Wide!NewNumber
  <2> HIDE DEF n
  <2> QED BY <1>1, <2>1, <2>2, <2>3
<1>4. CASE c.op = "increment"
  <2>1. NewNumber(x, c) = add(x, Whole(One)) /\ Wide!NewNumber(Joined(x), c) = n + 1
    BY <1>1, <1>4 DEF NewNumber, Wide!NewNumber, increment
  <2>2. Joined(add(x, Whole(One))) = Bin(2 * H, n + 1)
    BY SmallOnes, SumWritten
  <2> QED BY <1>1, <2>1, <2>2
<1>5. CASE c.op = "decrement"
  <2>1. NewNumber(x, c) = subtract(x, Whole(One)) /\ Wide!NewNumber(Joined(x), c) = n - 1
    BY <1>1, <1>5 DEF NewNumber, Wide!NewNumber, decrement
  <2>2. Joined(subtract(x, Whole(One))) = Bin(2 * H, n - 1)
    BY SmallOnes, SumWritten
  <2> QED BY <1>1, <2>1, <2>2
<1>6. CASE c.op = "bit_floor"
  BY <1>1, <1>6, FloorWritten DEF NewNumber, Wide!NewNumber
<1>7. CASE c.op = "bit_ceil"
  <2>1. Wide!NewNumber(Joined(x), c)
          = CHOOSE p \in {2 ^ j : j \in 0 .. 2 * H} : p >= n /\ (p = 1 \/ p \div 2 < n)
    BY <1>1, <1>7 DEF Wide!NewNumber
  <2>2. NewNumber(x, c) = bit_ceil(x)
    BY <1>7 DEF NewNumber
  <2> QED BY <1>1, <2>1, <2>2, CeilWritten
<1> QED BY <1>2, <1>3, <1>4, <1>5, <1>6, <1>7 DEF Wide!NumberCalls, Wide!Steps, Wide!Powers

\* A step of the two words is a step of the integer, or leaves it alone.
LEMMA StepImplements ==
  ASSUME TypeOK, [Next]_vars
  PROVE  [Wide!Next]_(Wide!vars)
<1>1. m_data \in Data /\ Wide!NoCall.op = "none"
  BY DEF TypeOK, Data, Wide!NoCall
<1>2. CASE Call
  BY <1>2 DEF Call, Wide!Call, Wide!Next
<1>3. CASE ReturnBits
  <2>1. call \in Wide!Calls
    BY <1>1, <1>3 DEF ReturnBits, TypeOK, Wide!BitCalls, Wide!Logic, Wide!Shifts
  <2>2. Joined(m_data') = Wide!NewBits(Joined(m_data), call)
    BY <1>1, <1>3, <2>1, BitsExact DEF ReturnBits
  <2> QED BY <1>3, <2>2 DEF ReturnBits, Wide!ReturnBits, Wide!Next
<1>4. CASE ReturnNumber
  <2>1. call \in Wide!Calls
    BY <1>1, <1>4
    DEF ReturnNumber, TypeOK, Wide!NumberCalls, Wide!Arithmetic, Wide!Steps, Wide!Powers
  <2>2. Joined(m_data') = Wide!Bin(2 * H, Wide!NewNumber(Joined(m_data), call))
    BY <1>1, <1>4, <2>1, NumbersExact DEF ReturnNumber
  <2> QED BY <1>4, <2>2 DEF ReturnNumber, Wide!ReturnNumber, Wide!Next
<1>5. CASE ReturnAssigned
  <2>1. call \in Wide!Calls
    BY <1>1, <1>5 DEF ReturnAssigned, TypeOK
  <2>2. /\ Joined(Whole(Bin(H, call.scalar))) = Bin(H, call.scalar)
        /\ (2 * H) \div 2 = H
    <3>1. /\ Bin(H, call.scalar) \in SUBSET (0 .. H - 1)
          /\ {} \in SUBSET (0 .. H - 1) /\ (2 * H) \div 2 = H
      BY BaseFacts DEF Bin, Full
    <3>2. /\ Whole(Bin(H, call.scalar)).low = Bin(H, call.scalar)
          /\ Whole(Bin(H, call.scalar)).high = {}
      BY <3>1, PairData DEF Whole, Zero
    <3> QED BY <3>1, <3>2 DEF Joined
  <2>3. Joined(m_data') = Wide!Bin((2 * H) \div 2, call.scalar)
    BY <1>5, <2>2, BinSame DEF ReturnAssigned
  <2> QED BY <1>5, <2>3 DEF ReturnAssigned, Wide!ReturnAssigned, Wide!Next
<1>6. CASE ReturnAnswer
  <2>1. call \in Wide!Calls
    BY <1>1, <1>6 DEF ReturnAnswer, TypeOK, Wide!Questions, Wide!Comparisons
  <2>2. answer' = Wide!Answer(Joined(m_data), call)
    BY <1>1, <1>6, <2>1, AnswersExact DEF ReturnAnswer
  <2> QED BY <1>6, <2>2 DEF ReturnAnswer, Wide!ReturnAnswer, Wide!Next
<1>7. CASE UNCHANGED vars
  BY <1>7 DEF vars, Wide!vars
<1> QED BY <1>2, <1>3, <1>4, <1>5, <1>6, <1>7 DEF Next

\* The first value of the two words is one of the integer's.
LEMMA InitImplements == Init => Wide!Init
<1> SUFFICES ASSUME Init PROVE Wide!Init
  OBVIOUS
<1>1. m_data \in Data
  BY DEF Init, Data
<1>2. Joined(m_data) \in SUBSET (0 .. 2 * H - 1)
  BY <1>1, JoinedNum
<1> QED BY <1>2 DEF Init, Wide!Init, Wide!Word, Wide!Full

\* ImplementsWideInteger for every width of the words, every profile and every call:
\* what two words, carries and borrows do is what one integer of 2 * H bits does.
THEOREM TwoWordsAreOneInteger == Spec => ImplementsWideInteger
<1>1. TypeOK /\ [Next]_vars => [Wide!Next]_(Wide!vars)
  BY StepImplements
<1> QED
  BY <1>1, InitImplements, TypeCorrect, PTL DEF Spec, Wide!Spec, ImplementsWideInteger
===============================================================================
