------------------------------- MODULE UInt128 --------------------------------
(***************************************************************************)
(* SimdLib::uint128_t: two words of H bits, with carries, shifts and bit   *)
(* extraction that cross the boundary between them, in the profiles the    *)
(* library is built and tested in.                                         *)
(***************************************************************************)
EXTENDS Words

CONSTANTS
  H,          \* block_width (64)
  IndexBits   \* the bits of bextr's start and length (8)

ASSUME UInt128Assumption ==
  /\ H \in Nat \ {0, 1}
  /\ IndexBits \in Nat /\ 2 * H < 2 ^ IndexBits

VARIABLES
  profile,    \* which forms the build uses
  m_data,     \* [low, high]
  call,       \* the call under way
  answer      \* of the last question

vars == <<profile, m_data, call, answer>>

\* The integer the two words are meant to be, and what it promises.
Joined(x) == x.low \cup {b + H : b \in x.high}

Wide == INSTANCE WideInteger WITH Width <- 2 * H, value <- Joined(m_data)

Profiles == {"optimized", "portable", "scalar"}
Simd == profile # "scalar"
CarryIntrinsics == profile = "optimized"
Bmi1 == profile = "optimized"

Zero == {}
One == {0}
AllOnes == Full(H)

Pair(lower, upper) == [low |-> lower, high |-> upper]
Whole(value) == Pair(value, Zero)

-------------------------------------------------------------------------------
\* Addition and subtraction, word by word.

Bit(state) == IF state THEN One ELSE Zero

portable_add_with_carry(lhs, rhs, carryIn) ==
  LET partial == Plus(H, lhs, rhs)
      result == Plus(H, partial, Bit(carryIn))
  IN  [value |-> result,
       carry |-> Num(partial) < Num(lhs) \/ Num(result) < Num(partial)]

\* Mutant: the borrow is looked for in the difference, as a carry is in the sum.
BorrowOfTheDifference(lhs, rhs, borrowIn) ==
  LET partial == Minus(H, lhs, rhs)
  IN  [value |-> Minus(H, partial, Bit(borrowIn)),
       borrow |-> Num(partial) < Num(rhs) \/ Num(partial) < Num(Bit(borrowIn))]

portable_subtract_with_borrow(lhs, rhs, borrowIn) ==
  LET partial == Minus(H, lhs, rhs)
  IN  [value |-> Minus(H, partial, Bit(borrowIn)),
       borrow |-> Num(lhs) < Num(rhs) \/ Num(partial) < Num(Bit(borrowIn))]

\* The overflow builtins report whether the exact result fits.
add_with_carry(lhs, rhs, carryIn) ==
  IF ~CarryIntrinsics THEN portable_add_with_carry(lhs, rhs, carryIn)
  ELSE LET partial == Plus(H, lhs, rhs) IN
       [value |-> Plus(H, partial, Bit(carryIn)),
        carry |-> \/ Num(lhs) + Num(rhs) >= 2 ^ H
                  \/ Num(partial) + Num(Bit(carryIn)) >= 2 ^ H]

subtract_with_borrow(lhs, rhs, borrowIn) ==
  IF ~CarryIntrinsics THEN portable_subtract_with_borrow(lhs, rhs, borrowIn)
  ELSE LET partial == Minus(H, lhs, rhs) IN
       [value |-> Minus(H, partial, Bit(borrowIn)),
        borrow |-> Num(lhs) - Num(rhs) < 0 \/ Num(partial) - Num(Bit(borrowIn)) < 0]

add(lhs, rhs) ==
  LET low == add_with_carry(lhs.low, rhs.low, FALSE)
  IN  Pair(low.value, add_with_carry(lhs.high, rhs.high, low.carry).value)

subtract(lhs, rhs) ==
  LET low == subtract_with_borrow(lhs.low, rhs.low, FALSE)
  IN  Pair(low.value, subtract_with_borrow(lhs.high, rhs.high, low.borrow).value)

-------------------------------------------------------------------------------
\* Comparison.  Three-way results are -1, 0 and 1.

compare_words(lhs, rhs) == Wide!Sign(Num(lhs) - Num(rhs))

compare(lhs, rhs) ==
  IF lhs.high # rhs.high THEN compare_words(lhs.high, rhs.high)
  ELSE compare_words(lhs.low, rhs.low)

compare_scalar(lhs, scalar) ==
  IF scalar < 0 THEN 1 ELSE compare(lhs, Whole(Bin(H, scalar)))

equals_scalar(lhs, scalar) ==
  scalar >= 0 /\ lhs.high = Zero /\ lhs.low = Bin(H, scalar)

abs_diff(lhs, rhs) ==
  IF compare(lhs, rhs) = 1 THEN subtract(lhs, rhs) ELSE subtract(rhs, lhs)

negate(x) == subtract(Whole(Zero), x)
increment(x) == add(x, Whole(One))
decrement(x) == subtract(x, Whole(One))

-------------------------------------------------------------------------------
\* Logic: the register forms work on the same two lanes.

bitwise_and(lhs, rhs) == Pair(lhs.low \cap rhs.low, lhs.high \cap rhs.high)
bitwise_or(lhs, rhs) == Pair(lhs.low \cup rhs.low, lhs.high \cup rhs.high)
bitwise_xor(lhs, rhs) == Pair(Xor(lhs.low, rhs.low), Xor(lhs.high, rhs.high))
bitwise_not(x) == Pair(Complement(H, x.low), Complement(H, x.high))

-------------------------------------------------------------------------------
\* Shifts.

normalize_shift(count) ==
  IF count <= 0 THEN 0 ELSE IF count >= 2 * H THEN 2 * H ELSE count

\* The instructions on two lanes: SLL and SRL of each, and byte shifts by one lane.
SLL(x, count) == Pair(Left(H, x.low, count), Left(H, x.high, count))
SRL(x, count) == Pair(Right(x.low, count), Right(x.high, count))
LaneUp(x) == Pair(Zero, x.low)
LaneDown(x) == Pair(x.high, Zero)

shift_bits_left_slow(x, shift) ==
  CASE shift <= 0 -> x
    [] shift >= 2 * H -> Whole(Zero)
    [] 0 < shift /\ shift < H -> bitwise_or(SLL(x, shift), LaneUp(SRL(x, H - shift)))
    [] shift = H -> LaneUp(x)
    [] H < shift /\ shift < 2 * H -> SLL(LaneUp(x), shift - H)

shift_bits_right_slow(x, shift) ==
  CASE shift <= 0 -> x
    [] shift >= 2 * H -> Whole(Zero)
    [] 0 < shift /\ shift < H -> bitwise_or(SRL(x, shift), LaneDown(SLL(x, H - shift)))
    [] shift = H -> LaneDown(x)
    [] H < shift /\ shift < 2 * H -> SRL(LaneDown(x), shift - H)

shift_left(x, count) ==
  CASE count = 0 -> x
    [] count >= 2 * H -> Whole(Zero)
    [] Simd /\ 0 < count /\ count < 2 * H -> shift_bits_left_slow(x, count)
    [] ~Simd /\ H <= count /\ count < 2 * H -> Pair(Zero, Left(H, x.low, count - H))
    [] ~Simd /\ 0 < count /\ count < H ->
         Pair(Left(H, x.low, count), Left(H, x.high, count) \cup Right(x.low, H - count))

shift_right(x, count) ==
  CASE count = 0 -> x
    [] count >= 2 * H -> Whole(Zero)
    [] Simd /\ 0 < count /\ count < 2 * H -> shift_bits_right_slow(x, count)
    [] ~Simd /\ H <= count /\ count < 2 * H -> Pair(Right(x.high, count - H), Zero)
    [] ~Simd /\ 0 < count /\ count < H ->
         Pair(Right(x.low, count) \cup Left(H, x.high, H - count), Right(x.high, count))

ShiftLeft(x, count) == shift_left(x, normalize_shift(count))
ShiftRight(x, count) == shift_right(x, normalize_shift(count))

-------------------------------------------------------------------------------
\* Masks and extraction.

\* (1 << count) - 1 for a count below H.
LowOnes(count) == {b \in AllOnes : b < count}

create_mask(bitCount) ==
  CASE bitCount <= 0 -> Whole(Zero)
    [] bitCount >= 2 * H -> Pair(AllOnes, AllOnes)
    [] H <= bitCount /\ bitCount < 2 * H -> Pair(AllOnes, LowOnes(bitCount - H))
    [] 0 < bitCount /\ bitCount < H -> Pair(LowOnes(bitCount), Zero)

create_mask_at(width, offset) ==
  CASE width = 0 -> Whole(Zero)
    [] width # 0 /\ offset <= 0 -> create_mask(width)
    [] width # 0 /\ offset >= 2 * H -> Whole(Zero)
    [] width # 0 /\ 0 < offset /\ offset < 2 * H -> ShiftLeft(create_mask(width), offset)

\* The portable form, which the deprecated extract also is.
extract(x, len, start) ==
  IF len = 0 \/ start >= 2 * H THEN Whole(Zero)
  ELSE LET retained == IF len > 2 * H - start THEN 2 * H - start ELSE len
       IN  bitwise_and(ShiftRight(x, start), create_mask(retained))

funnel_shift_right(low, high, shift) ==
  IF shift = 0 THEN low ELSE Right(low, shift) \cup Left(H, high, H - shift)

\* Bmi::bextr of one word.
bextr_word(word, len, start) == Right(word, start) \cap {b \in AllOnes : b < len}

bextr(x, len, start) ==
  LET aligned == funnel_shift_right(x.low, x.high, start) IN
  CASE ~Bmi1 -> extract(x, len, start)
    [] Bmi1 /\ start >= H -> Whole(bextr_word(x.high, len, start - H))
    [] Bmi1 /\ start < H /\ len <= H - start -> Whole(bextr_word(x.low, len, start))
    [] Bmi1 /\ start < H /\ H - start < len /\ len <= H -> Whole(bextr_word(aligned, len, 0))
    [] Bmi1 /\ start < H /\ H < len -> Pair(aligned, bextr_word(x.high, len - H, start))

-------------------------------------------------------------------------------
\* The functions of <bit>.

ZerosBelow(word) == Cardinality({b \in AllOnes : (0 .. b) \cap word = {}})
ZerosAbove(word) == H - BitWidth(word)

popcount(x) == Cardinality(x.low) + Cardinality(x.high)

countr_zero(x) == IF x.low = Zero THEN H + ZerosBelow(x.high) ELSE ZerosBelow(x.low)

countr_one(x) ==
  IF x.low = AllOnes THEN H + ZerosBelow(Complement(H, x.high))
  ELSE ZerosBelow(Complement(H, x.low))

\* Mutant: the width of a word is counted twice.
CountLowTwice(x) == IF x.high = Zero THEN 2 * H + ZerosAbove(x.low) ELSE ZerosAbove(x.high)

countl_zero(x) == IF x.high = Zero THEN H + ZerosAbove(x.low) ELSE ZerosAbove(x.high)

countl_one(x) ==
  IF x.high = AllOnes THEN H + ZerosAbove(Complement(H, x.low))
  ELSE ZerosAbove(Complement(H, x.high))

bit_width(x) == IF x.high = Zero THEN BitWidth(x.low) ELSE H + BitWidth(x.high)

bit_ceil(x) ==
  IF compare(x, Whole(One)) # 1 THEN Whole(One)
  ELSE ShiftLeft(Whole(One), bit_width(decrement(x)))

bit_floor(x) ==
  IF x = Whole(Zero) THEN x ELSE ShiftLeft(Whole(One), bit_width(x) - 1)

has_single_bit(x) == popcount(x) = 1

-------------------------------------------------------------------------------
\* Every call with what it returns.

Split(v) == Pair(v \cap AllOnes, Right(v, H))

NewBits(x, c) ==
  CASE c.op = "and"            -> bitwise_and(x, Split(c.rhs))
    [] c.op = "or"             -> bitwise_or(x, Split(c.rhs))
    [] c.op = "xor"            -> bitwise_xor(x, Split(c.rhs))
    [] c.op = "not"            -> bitwise_not(x)
    [] c.op = "shift_left"     -> ShiftLeft(x, c.count)
    [] c.op = "shift_right"    -> ShiftRight(x, c.count)
    [] c.op = "create_mask"    -> create_mask(c.width)
    [] c.op = "create_mask_at" -> create_mask_at(c.width, c.offset)
    [] c.op = "bextr"          -> bextr(x, c.len, c.start)

NewNumber(x, c) ==
  CASE c.op = "add"       -> add(x, Split(c.rhs))
    [] c.op = "subtract"  -> subtract(x, Split(c.rhs))
    [] c.op = "abs_diff"  -> abs_diff(x, Split(c.rhs))
    [] c.op = "negate"    -> negate(x)
    [] c.op = "increment" -> increment(x)
    [] c.op = "decrement" -> decrement(x)
    [] c.op = "bit_floor" -> bit_floor(x)
    [] c.op = "bit_ceil"  -> bit_ceil(x)

Answer(x, c) ==
  CASE c.op = "compare"        -> compare(x, Split(c.rhs))
    [] c.op = "compare_scalar" -> compare_scalar(x, c.scalar)
    [] c.op = "equals_scalar"  -> IF equals_scalar(x, c.scalar) THEN 1 ELSE 0
    [] c.op = "has_single_bit" -> IF has_single_bit(x) THEN 1 ELSE 0
    [] c.op = "popcount"       -> popcount(x)
    [] c.op = "countr_zero"    -> countr_zero(x)
    [] c.op = "countr_one"     -> countr_one(x)
    [] c.op = "countl_zero"    -> countl_zero(x)
    [] c.op = "countl_one"     -> countl_one(x)
    [] c.op = "bit_width"      -> bit_width(x)

Init ==
  /\ profile \in Profiles
  /\ m_data \in [low : Word(H), high : Word(H)]
  /\ call = Wide!NoCall
  /\ answer = Wide!NoAnswer

Call ==
  /\ call = Wide!NoCall
  /\ call' \in Wide!Calls
  /\ answer' = Wide!NoAnswer
  /\ UNCHANGED <<profile, m_data>>

ReturnBits ==
  /\ call.op \in Wide!BitCalls
  /\ m_data' = NewBits(m_data, call)
  /\ call' = Wide!NoCall
  /\ UNCHANGED <<profile, answer>>

ReturnNumber ==
  /\ call.op \in Wide!NumberCalls
  /\ m_data' = NewNumber(m_data, call)
  /\ call' = Wide!NoCall
  /\ UNCHANGED <<profile, answer>>

ReturnAssigned ==
  /\ call.op = "assign"
  /\ m_data' = Whole(Bin(H, call.scalar))
  /\ call' = Wide!NoCall
  /\ UNCHANGED <<profile, answer>>

ReturnAnswer ==
  /\ call.op \in Wide!Questions \cup Wide!Comparisons \cup {"compare"}
  /\ answer' = Answer(m_data, call)
  /\ call' = Wide!NoCall
  /\ UNCHANGED <<profile, m_data>>

Next == Call \/ ReturnBits \/ ReturnNumber \/ ReturnAssigned \/ ReturnAnswer

Spec == Init /\ [][Next]_vars

-------------------------------------------------------------------------------
\* What must hold.

\* Both words keep their width and an answer is a count or an order.
TypeOK ==
  /\ profile \in Profiles
  /\ m_data \in [low : Word(H), high : Word(H)]
  /\ call \in Wide!Calls \cup {Wide!NoCall}
  /\ answer \in -1 .. 2 * H + 1

\* In every profile the two words are the one integer: every call - carries and
\* borrows through both words, shifts by any count, ranges that cross the
\* boundary - returns what it returns on Width bits.
ImplementsWideInteger == Wide!Spec
===============================================================================
