---------------------------------- MODULE Bmi ----------------------------------
(***************************************************************************)
(* SimdLib::Bmi: bit manipulation on one word of W bits.                   *)
(*                                                                         *)
(* Every function has one translation unit and several forms: the portable *)
(* formula, and an instruction when the build has BMI1 or BMI2 and the     *)
(* call is not a constant expression.  `native' says which of them a       *)
(* behaviour runs.  The functions are used as their callers use them, to   *)
(* take the bits of a word piece by piece from either end.                 *)
(***************************************************************************)
EXTENDS Words

CONSTANTS
  W,          \* digits of int_t
  IndexBits   \* BZHI and BEXTR read that many bits of an index (8)

ASSUME BmiAssumption ==
  /\ W \in Nat \ {0} /\ W % 2 = 0
  /\ IndexBits \in Nat /\ W < 2 ^ IndexBits

VARIABLES
  native,     \* are the instructions used
  source,     \* the word the caller started from
  rest,       \* what is left of it
  taken,      \* the bits that were handed out
  steps       \* the calls made

vars == <<native, source, rest, taken, steps>>

One == {0}
AllOnes == Full(W)
Zero == {}

-------------------------------------------------------------------------------
\* Building blocks.

boolmask(state) == Bin(W, -(IF state THEN 1 ELSE 0))

select(lhs, rhs, bit) ==
  LET mask == boolmask(bit) IN (Complement(W, mask) \cap lhs) \cup (rhs \cap mask)

\* For an unsigned and a signed int_t: only the comparison differs.
Less(signed, lhs, rhs) ==
  IF signed THEN Signed(W, lhs) < Signed(W, rhs) ELSE Num(lhs) < Num(rhs)

max(signed, lhs, rhs) == select(lhs, rhs, Less(signed, lhs, rhs))

min(signed, lhs, rhs) == select(lhs, rhs, Less(signed, rhs, lhs))

abs(value) ==
  LET sign == Right(value, W - 1)
      mask == Minus(W, Zero, sign)
  IN  Plus(W, Xor(value, mask), sign)

-------------------------------------------------------------------------------
\* The BMI functions: portable formulas ...

portable_andn(lhs, rhs) == rhs \cap Complement(W, lhs)

portable_bzhi(value, index) ==
  CASE index = 0 -> Zero
    [] index >= W -> value
    [] OTHER -> value \cap Minus(W, Left(W, One, index), One)

portable_blsi(value) == value \cap Minus(W, Zero, value)

portable_blsr(value) == value \cap Minus(W, value, One)

portable_blsmsk(value) == Xor(value, Minus(W, value, One))

\* {high, low} of the product, by halves as for 64 bits.
\* Mutant: the carry out of the first cross product is dropped.
MulxWithoutMiddleHigh(lhs, rhs) ==
  LET h == W \div 2
      low(s) == s \cap Full(h)
      product == Times(W, low(lhs), low(rhs))
      middle == Plus(W, Times(W, Right(lhs, h), low(rhs)), Right(product, h))
      middleLow == Plus(W, low(middle), Times(W, low(lhs), Right(rhs, h)))
  IN  <<Plus(W, Times(W, Right(lhs, h), Right(rhs, h)), Right(middleLow, h)),
        Left(W, middleLow, h) \cup low(product)>>

portable_mulx(lhs, rhs) ==
  LET h == W \div 2
      low(s) == s \cap Full(h)
      product == Times(W, low(lhs), low(rhs))
      middle == Plus(W, Times(W, Right(lhs, h), low(rhs)), Right(product, h))
      middleLow == Plus(W, low(middle), Times(W, low(lhs), Right(rhs, h)))
      high == Plus(W, Plus(W, Times(W, Right(lhs, h), Right(rhs, h)), Right(middle, h)),
                   Right(middleLow, h))
  IN  <<high, Left(W, middleLow, h) \cup low(product)>>

portable_bextr(value, start, len) ==
  IF len = 0 \/ start >= W
  THEN Zero
  ELSE LET count == IF len < W - start THEN len ELSE W - start
           shifted == Right(value, start)
       IN  IF count = W THEN shifted
           ELSE shifted \cap Minus(W, Left(W, One, count), One)

\* The loops over the bits m of the mask; `at' is bit_index.
DepositLoop(value, mask) ==
  LET loop[m \in 0 .. W] ==
        IF m = 0 THEN [result |-> Zero, at |-> 0]
        ELSE LET before == loop[m - 1] IN
             IF (m - 1) \notin mask THEN before
             ELSE [result |-> IF before.at \in value THEN before.result \cup {m - 1}
                              ELSE before.result,
                   at |-> before.at + 1]
  IN  loop[W]

portable_pdep(value, mask) == DepositLoop(value, mask).result

\* Mutant: bit_index advances with the bits found, not with the bits of the mask.
ExtractCompacts(value, mask) ==
  [result |-> Full(Cardinality(value \cap mask)), at |-> Cardinality(value \cap mask)]

ExtractLoop(value, mask) ==
  LET loop[m \in 0 .. W] ==
        IF m = 0 THEN [result |-> Zero, at |-> 0]
        ELSE LET before == loop[m - 1] IN
             IF (m - 1) \notin mask THEN before
             ELSE [result |-> IF (m - 1) \in value THEN before.result \cup {before.at}
                              ELSE before.result,
                   at |-> before.at + 1]
  IN  loop[W]

portable_pext(value, mask) == ExtractLoop(value, mask).result

\* ... and what the instructions of the same names do.
Lowest(s) == IF s = {} THEN {} ELSE {Min(s)}

Rank(m, mask) == Cardinality({k \in mask : k < m})

BZHI(value, index) == {b \in value : b < index % 2 ^ IndexBits}

BEXTR(value, start, len) ==
  Right(value, start % 2 ^ IndexBits) \cap Full(len % 2 ^ IndexBits)

MULX(lhs, rhs) ==
  LET product == Bin(2 * W, Num(lhs) * Num(rhs))
  IN  <<Right(product, W), product \cap Full(W)>>

BLSMSK(value) == IF value = {} THEN AllOnes ELSE Full(Min(value) + 1)

PDEP(value, mask) == {m \in mask : Rank(m, mask) \in value}

PEXT(value, mask) == {Rank(m, mask) : m \in value \cap mask}

-------------------------------------------------------------------------------
\* The public functions choose between the two.

andn(lhs, rhs) == IF native THEN rhs \ lhs ELSE portable_andn(lhs, rhs)

bzhi(value, index) == IF native THEN BZHI(value, index) ELSE portable_bzhi(value, index)

blsi(value) == IF native THEN Lowest(value) ELSE portable_blsi(value)

blsr(value) == IF native THEN value \ Lowest(value) ELSE portable_blsr(value)

blsmsk(value) == IF native THEN BLSMSK(value) ELSE portable_blsmsk(value)

mulx(lhs, rhs) == IF native THEN MULX(lhs, rhs) ELSE portable_mulx(lhs, rhs)

bextr(value, len, start) ==
  IF native THEN BEXTR(value, start, len) ELSE portable_bextr(value, start, len)

\* The overload with start and length packed into one control word.
bextr_control(value, control) ==
  LET start == control % 2 ^ IndexBits
      len == (control \div 2 ^ IndexBits) % 2 ^ IndexBits
  IN  IF native THEN BEXTR(value, start, len) ELSE portable_bextr(value, start, len)

pdep(value, mask) == IF native THEN PDEP(value, mask) ELSE portable_pdep(value, mask)

pdepl(value, mask) ==
  pdep(Right(value, Cardinality(Complement(W, mask)) % W), mask)

pext(value, mask) == IF native THEN PEXT(value, mask) ELSE portable_pext(value, mask)
-------------------------------------------------------------------------------
\* Prefix and suffix stages: a bit with its neighbour above, or below.

pp_xor(v) == Xor(Right(v, 1), v)
ps_xor(v) == Xor(Left(W, v, 1), v)
pp_and(v) == v \cap Right(v, 1)
ps_and(v) == v \cap Left(W, v, 1)
pp_andn(v) == andn(Right(v, 1), v)
ps_andn(v) == andn(Left(W, v, 1), v)
pp_andni(v) == andn(v, Right(v, 1))
ps_andni(v) == andn(v, Left(W, v, 1))

pp_or(v) == bzhi(AllOnes, BitWidth(v))
ps_or(v) == v \cup Minus(W, Zero, v)
pp_lsor(v) == bzhi(AllOnes, BitWidth(blsi(v)))

\* The highest bit.  A width of 0 makes the index -1, converted to unsigned:
\* UnsignedMax stands for 2^32 - 1, all of whose low IndexBits are one.
UnsignedMax == 2 ^ (IndexBits + 1) - 1

Index(i) == IF i < 0 THEN UnsignedMax ELSE i

bmsi(v) == BitFloor(v)
bmsr(v) == bzhi(v, Index(BitWidth(v) - 1))
bmse(v) == <<Xor(v, BitFloor(v)), BitFloor(v)>>
bmsmsk(v) == pp_or(v)
bzlo(v, index) == andn(bzhi(AllOnes, index), v)

\* Mutant: the bit is reset by blsr of the decremented word.
LowestClearedTwice(v) == <<blsr(Minus(W, v, One)), blsi(v)>>
blse(v) == <<Xor(v, blsi(v)), blsi(v)>>

\* Mutant: the search starts behind the boundary.
SearchBehind(v, start) == v \cap Plus(W, Complement(W, v), Left(W, start, 1))
blsioff(v, start) == v \cap Plus(W, Complement(W, v), start)

-------------------------------------------------------------------------------
\* Common building blocks.

\* The bits of v at positions with bit k set: the masks 0xAAAAAAAA, 0xCCCCCCCC, ...
\* are 32 bits wide, whatever the word is.
Stage(v, k) == {p \in v : p < 32 /\ (p \div 2 ^ k) % 2 = 1}

PartialSumBLSMSK(v) ==
  Bin(W, Num(v) + MapThenSumSet(LAMBDA k : Num(Left(W, Stage(v, k), k)), 0 .. 4))

PartialSumBLSI(v) ==
  Bin(W, Num(v) + Num(Right(Stage(v, 0), 1))
         + MapThenSumSet(LAMBDA k : Num(Left(W, Stage(v, k), k - 1)), 1 .. 4))

flipr_unset(v) == v \cup Plus(W, v, One)
maskr_unset(v) == blsi(Complement(W, v))
maskl_trailing_one(v) == Right(blsi(Complement(W, v)), 1)
clear_trailing_ones(v) == v \cap Plus(W, v, One)
flip_trailing_zeros(v) == v \cup Minus(W, v, One)
mask_trailing_zeros(v) == Minus(W, blsi(v), One)
mask_trailing_zeros_or_zero(v) == boolmask(v # Zero) \cap mask_trailing_zeros(v)
mask_bits_lower_than_lsb(v) == boolmask(v # Zero) \cap Complement(W, ps_or(v))
mask_bits_lower_than_lsb_or_all_ones(v) == Complement(W, ps_or(v))
mask_trailing_ones(v) == Minus(W, blsi(Complement(W, v)), One)
mask_leading_zeros(v) == Complement(W, pp_or(v))
mask_leading_ones(v) == Complement(W, pp_or(Complement(W, v)))
clear_leading_ones(v) == pp_or(Complement(W, v)) \cap v

RunMask(v) == Plus(W, v \cup Minus(W, v, One), One)

clear_lowest_set_bits(v) == v \cap RunMask(v)
clear_lowest_set_bits_out(v) == <<v \cap RunMask(v), Xor(v, RunMask(v))>>
consume_bit_sequence_right(v) == <<v \cap RunMask(v), v \ RunMask(v)>>

\* Mutant: the boundary is taken below the run instead of at its first bit.
ConsumeBelowTheRun(v) ==
  LET mask == Minus(W, bmsi(ps_andni(v)), One) IN <<v \cap mask, andn(mask, v)>>
consume_bit_sequence_left(v) ==
  LET mask == Minus(W, bmsi(ps_andn(v)), One) IN <<v \cap mask, andn(mask, v)>>

left_collapse_trailing_bits(v) == andn(Right(mask_trailing_ones(v), 1), v)
clear_bits_lower_than(v, target) == andn(Minus(W, target, One), v)
clear_bits_higher_than(v, target) == blsmsk(target) \cap v
extract_bits_lower_than(v, target) == v \cap Minus(W, target, One)
extract_bits_higher_than(v, target) == andn(blsmsk(target), v)

-------------------------------------------------------------------------------
\* Scanning a word: each call takes a piece of what is left.

Init ==
  /\ native \in BOOLEAN
  /\ source \in Word(W)
  /\ rest = source
  /\ taken = {}
  /\ steps = 0

\* One step of a scan hands out `piece' and goes on with `left'.
Take(left, piece) ==
  /\ rest # Zero
  /\ rest' = left
  /\ taken' = taken \cup piece
  /\ steps' = steps + 1
  /\ UNCHANGED <<native, source>>

TakeLowest == Take(blse(rest)[1], blse(rest)[2])

ResetLowest == Take(blsr(rest), blsi(rest))

TakeHighest == Take(bmse(rest)[1], bmse(rest)[2])

ResetHighest == Take(bmsr(rest), bmsi(rest))

TakeLowRun == Take(consume_bit_sequence_right(rest)[1], consume_bit_sequence_right(rest)[2])

TakeHighRun == Take(consume_bit_sequence_left(rest)[1], consume_bit_sequence_left(rest)[2])

\* Split at the first bit at or above a boundary, if there is one: the caller
\* takes the bit with one side of it.
Split(start) ==
  LET target == blsioff(rest, {start}) IN
  /\ target # Zero
  /\ \/ Take(extract_bits_higher_than(rest, target), clear_bits_higher_than(rest, target))
     \/ Take(extract_bits_lower_than(rest, target), clear_bits_lower_than(rest, target))

Next ==
  \/ TakeLowest \/ ResetLowest \/ TakeHighest \/ ResetHighest
  \/ TakeLowRun \/ TakeHighRun
  \/ \E start \in Full(W) : Split(start)

Spec == Init /\ [][Next]_vars

-------------------------------------------------------------------------------
\* What the functions promise.

\* However a word is taken apart - bit by bit, run by run, from both ends, at
\* any boundary - no bit of it is lost and none is handed out twice.
NoBitLostOrTwice ==
  /\ rest \cup taken = source
  /\ rest \cap taken = {}

\* A scan ends within as many calls as the word has bits: a bit that is
\* extracted and not reset, or an empty run, would make `while (v)' loop for ever.
ScanEnds == steps + Cardinality(rest) <= Cardinality(source)

\* The instruction and the portable formula of every function are the same
\* function, for every second operand, every start and length an index byte can
\* hold and BZHI's index up to the byte's end.
FormsAgree ==
  LET Indices == 0 .. 2 ^ IndexBits - 1 IN
  steps = 0 =>
  /\ portable_blsi(rest) = Lowest(rest)
  /\ portable_blsr(rest) = rest \ Lowest(rest)
  /\ portable_blsmsk(rest) = BLSMSK(rest)
  /\ \A m \in Word(W) :
       /\ portable_andn(rest, m) = m \ rest
       /\ portable_mulx(rest, m) = MULX(rest, m)
       /\ portable_pdep(rest, m) = PDEP(rest, m)
       /\ portable_pext(rest, m) = PEXT(rest, m)
  /\ \A i \in Indices :
       /\ portable_bzhi(rest, i) = BZHI(rest, i)
       /\ \A len \in Indices :
            /\ portable_bextr(rest, i, len) = BEXTR(rest, i, len)
            /\ bextr_control(rest, i + 2 ^ IndexBits * (len + 2 ^ IndexBits)) =
                 bextr(rest, len, i)

\* pdep and pext undo each other on the bits of the mask; pdepl deposits the
\* high bits of the source instead of the low ones.
DepositExtractInverse ==
  steps = 0 => \A m \in Word(W) :
    LET n == Cardinality(m) IN
    /\ pext(pdep(rest, m), m) = rest \cap Full(n)
    /\ pdep(pext(rest, m), m) = rest \cap m
    /\ pext(pdepl(rest, m), m) = Right(rest, W - n)

\* The derived helpers by the positions they are documented with.
Lowest0 == Lowest(AllOnes \ rest)
TrailingOnes == {b \in AllOnes : 0 .. b \subseteq rest}
TrailingZeros == {b \in AllOnes : (0 .. b) \cap rest = {}}
LeadingOnes == {b \in AllOnes : b .. W - 1 \subseteq rest}
LeadingZeros == {b \in AllOnes : (b .. W - 1) \cap rest = {}}
LowRun == {b \in rest : Min(rest) .. b \subseteq rest}
HighRun == {b \in rest : b .. Max(rest) \subseteq rest}

TrailingContracts ==
  /\ flipr_unset(rest) = rest \cup Lowest0
  /\ maskr_unset(rest) = Lowest0
  /\ clear_trailing_ones(rest) = rest \ TrailingOnes
  /\ flip_trailing_zeros(rest) = rest \cup TrailingZeros
  /\ mask_trailing_zeros(rest) = TrailingZeros
  /\ mask_trailing_zeros_or_zero(rest) = IF rest = {} THEN {} ELSE TrailingZeros
  /\ mask_bits_lower_than_lsb(rest) = IF rest = {} THEN {} ELSE TrailingZeros
  /\ mask_bits_lower_than_lsb_or_all_ones(rest) = TrailingZeros
  /\ mask_trailing_ones(rest) = TrailingOnes
  /\ maskl_trailing_one(rest) =    \* zero as well when every bit is one
       {b \in TrailingOnes : b + 1 \in AllOnes \ rest}
  /\ left_collapse_trailing_bits(rest) =
       rest \ {b \in TrailingOnes : b + 1 \in TrailingOnes}

LeadingContracts ==
  /\ mask_leading_zeros(rest) = LeadingZeros
  /\ mask_leading_ones(rest) = LeadingOnes
  /\ clear_leading_ones(rest) = rest \ LeadingOnes
  /\ pp_or(rest) = AllOnes \ LeadingZeros
  /\ ps_or(rest) = AllOnes \ TrailingZeros
  /\ pp_lsor(rest) = IF rest = {} THEN {} ELSE TrailingZeros \cup Lowest(rest)
  /\ bmsmsk(rest) = pp_or(rest)

RunContracts ==
  rest # {} =>
    /\ clear_lowest_set_bits(rest) = rest \ LowRun
    /\ clear_lowest_set_bits_out(rest) = \* the bit above the run is written too
         <<rest \ LowRun, LowRun \cup Left(W, {Max(LowRun)}, 1)>>
    /\ consume_bit_sequence_right(rest) = <<rest \ LowRun, LowRun>>
    /\ consume_bit_sequence_left(rest) = <<rest \ HighRun, HighRun>>

\* A stage marks the ends of the runs it is named for.
StageContracts ==
  /\ pp_xor(rest) = {b \in AllOnes : (b \in rest) # (b + 1 \in rest)}
  /\ ps_xor(rest) = {b \in AllOnes : (b \in rest) # (b - 1 \in rest)}
  /\ pp_and(rest) = {b \in rest : b + 1 \in rest}
  /\ ps_and(rest) = {b \in rest : b - 1 \in rest}
  /\ pp_andn(rest) = {b \in rest : b + 1 \notin rest}
  /\ ps_andn(rest) = {b \in rest : b - 1 \notin rest}
  /\ pp_andni(rest) = {b \in AllOnes \ rest : b + 1 \in rest}
  /\ ps_andni(rest) = {b \in AllOnes \ rest : b - 1 \in rest}

BoundaryContracts ==
  /\ \A b \in AllOnes :
       /\ blsioff(rest, {b}) = Lowest({c \in rest : c >= b})
       /\ clear_bits_lower_than(rest, {b}) = {c \in rest : c >= b}
       /\ clear_bits_higher_than(rest, {b}) = {c \in rest : c <= b}
       /\ extract_bits_lower_than(rest, {b}) = {c \in rest : c < b}
       /\ extract_bits_higher_than(rest, {b}) = {c \in rest : c > b}
  /\ \A i \in 0 .. 2 ^ IndexBits - 1 : bzlo(rest, i) = {c \in rest : c >= i}
  /\ blsioff(rest, Zero) = Zero

\* What the stages add to a bit: nothing where their masks end.
Staged(p) == IF p < 32 THEN p ELSE 0

ArithmeticContracts ==
  /\ PartialSumBLSMSK(rest) =
       Bin(W, MapThenSumSet(LAMBDA p : 2 ^ p * (Staged(p) + 1), rest))
  /\ PartialSumBLSI(rest) =
       Bin(W, MapThenSumSet(LAMBDA p : 2 ^ p + (Staged(p) * 2 ^ p) \div 2, rest))
  /\ Signed(W, abs(rest)) =
       LET v == Signed(W, rest) IN
       IF v >= 0 \/ v = -(2 ^ (W - 1)) THEN v ELSE -v
  /\ \A m \in Word(W), signed \in BOOLEAN :
       /\ {max(signed, rest, m), min(signed, rest, m)} = {rest, m}
       /\ ~Less(signed, max(signed, rest, m), min(signed, rest, m))

\* Every helper does at every word - zero, all ones and both ends included -
\* what the contract matrix says, in either form.
ContractsHold ==
  steps = 0 =>
  /\ TrailingContracts
  /\ LeadingContracts
  /\ RunContracts
  /\ StageContracts
  /\ BoundaryContracts
  /\ ArithmeticContracts

\* docs/BmiContractMatrix.md: bzhi returns the source "at an index at or above
\* width".  BZHI reads IndexBits of the index.
BzhiAsDocumented ==
  \A i \in W .. UnsignedMax : bzhi(rest, i) = rest
===============================================================================
