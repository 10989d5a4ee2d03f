----------------------------- MODULE LaneKernels -----------------------------
(***************************************************************************)
(* What Implementations.h composes from several instructions: sums of      *)
(* adjacent products, saturating pairs, the position of the minimum, the   *)
(* checked magnitude, and the moves.  A type is a record: s(igned), w bits *)
(* to a lane, n lanes to a half.                                           *)
(***************************************************************************)
EXTENDS LaneExtensions

CONSTANT Precision   \* bits of the significand of a double

ASSUME PrecisionAssumption == Precision \in Nat \ {0, 1}

IsWide(t, v) == LanesOf(v) = 2 * t.n

-------------------------------------------------------------------------------
\* Sums of adjacent products, in lanes of twice the width.

\* 8-bit lanes, and unsigned 16-bit ones.  With 256 bits the halves are extended
\* one by one, which leaves the sums of both interleaved.
adjacent_by_extension(t, a, b) ==
  LET m == t.n \div 2
      products(first, n) ==
        mullo(2 * t.w, cvt(t.s, t.w, [k \in First(n) |-> a[first + k]]),
                       cvt(t.s, t.w, [k \in First(n) |-> b[first + k]]))
  IN  IF IsWide(t, a)
      THEN permute4x64(hadd(2 * t.w, m, products(0, t.n), products(t.n, t.n)), <<0, 2, 1, 3>>)
      ELSE hadd(2 * t.w, m, products(0, m), products(m, m))

adjacent_by_parity(t, a, b) ==
  add(2 * t.w, mul(t.s, t.w, a, b), mul(t.s, t.w, bsrli(t.n, a, 1), bsrli(t.n, b, 1)))

\* 64-bit products are truncated; the upper lane of the half is cleared.
adjacent_epi64(t, a, b) ==
  LET products == mullo_epi64(t.w, a, b)
      sum == add(t.w, products, bsrli(t.n, products, 1))
  IN  [k \in DOMAIN sum |-> IF k % t.n = 0 THEN sum[k] ELSE 0]

-------------------------------------------------------------------------------
\* Saturating pairs of unsigned 16-bit lanes, and saturating products.

OddDown(t, v) == narrow(t.w, srli(2 * t.w, wide(t.w, v), t.w))

pack_pairs(t, a, b) ==
  LET even(v) == wide(t.w, [k \in DOMAIN v |-> IF k % 2 = 1 THEN 0 ELSE v[k]])
  IN  packs(FALSE, t.w, t.n \div 2, even(a), even(b))

hadd_saturated_epu16(t, a, b) ==
  pack_pairs(t, adds(FALSE, t.w, a, OddDown(t, a)), adds(FALSE, t.w, b, OddDown(t, b)))
hsubtract_saturated_epu16(t, a, b) ==
  pack_pairs(t, subs(FALSE, t.w, a, OddDown(t, a)), subs(FALSE, t.w, b, OddDown(t, b)))

\* The instruction that packs takes its operands for signed.
multiply_saturated_128(t, a, b) ==
  LET products(v, u) == mullo(2 * t.w, cvt(t.s, t.w, v), cvt(t.s, t.w, u))
      m == t.n \div 2
  IN  packs(t.s, t.w, m, products(lower(m, a), lower(m, b)), products(upper(m, a), upper(m, b)))

multiply_saturated_256(t, a, b) ==
  Halves(LAMBDA x, y : multiply_saturated_128(t, x, y), t.n, a, b)

-------------------------------------------------------------------------------
\* The minimum and its position, in lanes 0 and 1.

greater(t, a, b) ==
  IF t.s THEN cmpgt(t.w, a, b)
  ELSE cmpgt(t.w, xor(t.w, a, set1(a, SignBit(t.w))), xor(t.w, b, set1(b, SignBit(t.w))))

\* Zeros enter at the top; they must not reach lane 0.
reduce(t, m, offset) ==
  LET values == bsrli(t.n, m.values, offset)
      less == greater(t, m.values, values)
  IN  [values |-> blendv(t.w, m.values, values, less),
       positions |-> blendv(t.w, m.positions, bsrli(t.n, m.positions, offset), less)]

Start(v) == [values |-> v, positions |-> [k \in DOMAIN v |-> k]]

\* Mutant: the offsets are taken in the wrong order.
AscendsFromTheTop(t, v) ==
  LET reduced[offset \in {1, 2, 4, 8, 16}] ==
        IF offset >= t.n THEN Start(v) ELSE reduce(t, reduced[2 * offset], offset)
      last == reduced[1]
  IN  [value |-> last.values[0], position |-> last.positions[0]]

\* The offsets double: 1, 2, 4 and 8, as far as there are lanes.
min_position_128(t, v) ==
  LET reduced[offset \in {1, 2, 4, 8}] ==
        reduce(t, IF offset = 1 THEN Start(v) ELSE reduced[offset \div 2], offset)
      last == reduced[t.n \div 2]
  IN  [value |-> last.values[0], position |-> last.positions[0]]

\* The instruction for unsigned 16-bit lanes.
minpos_epu16(v) ==
  LET least == CHOOSE k \in DOMAIN v :
                 /\ \A j \in DOMAIN v : v[k] <= v[j]
                 /\ \A j \in First(k) : v[k] < v[j]
  IN  [value |-> v[least], position |-> least]

\* The high half's minimum has to be strictly less.
min_position_256(t, v) ==
  LET position(half) == IF t.n = 8 /\ ~t.s THEN minpos_epu16(half) ELSE min_position_128(t, half)
      low == position(lower(t.n, v))
      high == position(upper(t.n, v))
  IN  IF Value(t.s, t.w, high.value) < Value(t.s, t.w, low.value)
      THEN [high EXCEPT !.position = @ + t.n] ELSE low

-------------------------------------------------------------------------------
\* The checked magnitude of a half: the root of the sum of squares in lane 0, and
\* a mask in lane 1 that says it was saturated.

SumOf(v) == MapThenSumSet(LAMBDA k : v[k], DOMAIN v)

Saturated(t, result, overflow) ==
  [value |-> result, mask |-> Truth(t.w, overflow)]

\* A double has a significand of Precision bits.  Around x doubles are Spacing(x)
\* apart, and Double(x) is the one nearest to x, the even one of two.
Spacing(x) ==
  IF x < 2 ^ Precision THEN 1
  ELSE 2 ^ (CHOOSE e \in 1 .. x : 2 ^ (Precision - 1 + e) <= x /\ x < 2 ^ (Precision + e))

Rounded(x, apart) ==
  LET over == x % apart
  IN  (x - over) + (IF 2 * over > apart \/ (2 * over = apart /\ (x \div apart) % 2 = 1)
                  THEN apart ELSE 0)

Double(x) == Rounded(x, Spacing(x))

\* Roots have a fraction: they are counted in units of 2^-Precision.
Unit == 2 ^ Precision

FloorRoot(x) == CHOOSE r \in 0 .. x : r * r <= x /\ x < (r + 1) * (r + 1)

\* The nearest to the root of x, which lies in the middle of two doubles for no x.
RoundedRoot(x, root, apart) ==
  LET below == root - (root % apart)
  IN  IF 4 * x > (2 * below + apart) * (2 * below + apart) THEN below + apart ELSE below

SquareRoot(total) ==
  LET square == total * Unit * Unit
      root == FloorRoot(square)
  IN  RoundedRoot(square, root, Spacing(root))

\* root + 0.5, of which the conversion to an integer keeps the integer part.
PlusHalf(root) == Double(root + Unit \div 2)

Estimate(total) == PlusHalf(SquareRoot(Double(total))) \div Unit

Limited(candidate, maximum) == IF candidate > maximum THEN maximum ELSE candidate

Lowered(total, candidate) ==
  IF candidate > 0 /\ total < candidate * candidate - candidate + 1
  THEN candidate - 1 ELSE candidate

Raised(total, candidate, maximum) ==
  IF candidate < maximum /\ total > candidate * candidate + candidate
  THEN candidate + 1 ELSE candidate

\* Mutant: the candidate is not corrected downwards.
RaisedOnly(total, maximum) == Raised(total, Limited(Estimate(total), maximum), maximum)

magnitude_round_sqrt_u64(total, maximum) ==
  Raised(total, Lowered(total, Limited(Estimate(total), maximum)), maximum)

\* Mutant: a root that was rounded up to more than the maximum is not caught.
MaximumNotChecked(w, low, high, maximum) == Estimate(Double(high) * 2 ^ w + Double(low))

\* Not corrected: a double holds neither the sum of squares nor the root.
LimitedRoot(root, rounded, maximum) ==
  IF root >= Double(maximum) * Unit \/ rounded >= Double(maximum) * Unit
  THEN maximum ELSE rounded \div Unit

magnitude_round_sqrt_u128(w, low, high, maximum) ==
  LET root == SquareRoot(Double(Double(high) * 2 ^ w + Double(low)))
  IN  LimitedRoot(root, PlusHalf(root), maximum)

Threshold(maximum) == maximum * maximum + maximum + 1

checked_total(t, total) ==
  LET maximum == Highest(t.s, t.w)
      overflow == total >= Threshold(maximum)
  IN  Saturated(t, IF overflow THEN maximum
                   ELSE magnitude_round_sqrt_u64(total, maximum), overflow)

\* 8-bit lanes: squares of 16 bits, sums of 32.
magnitude_checked_8(t, v) ==
  LET half(first) == cvt(t.s, t.w, [k \in First(t.n \div 2) |-> v[first + k]])
      low == half(0)
      high == half(t.n \div 2)
      pairs == add(4 * t.w, madd(2 * t.w, low, low), madd(2 * t.w, high, high))
      quads == hadd(4 * t.w, t.n \div 4, pairs, pairs)
      sums == hadd(4 * t.w, t.n \div 4, quads, quads)
  IN  checked_total(t, sums[0])

\* 16-bit lanes: the lowest signed value saturates at once; pairs of squares are
\* carried over to 64 bits as unsigned numbers.
magnitude_checked_int16(t, v) ==
  IF \E k \in DOMAIN v : v[k] = SignBit(t.w)
  THEN Saturated(t, Highest(t.s, t.w), TRUE)
  ELSE checked_total(t, Lane(4 * t.w, SumOf(cvt(FALSE, 2 * t.w, madd(t.w, v, v)))))

magnitude_checked_uint16(t, v) ==
  LET squares == mullo(2 * t.w, cvt(FALSE, t.w, v), cvt(FALSE, t.w, v))
  IN  checked_total(t, Lane(4 * t.w, SumOf(cvt(FALSE, 2 * t.w, squares))))

\* 32-bit lanes: sums of 64 bits.  Signed ones fit once the lowest value is out;
\* of unsigned ones each addition may carry.
magnitude_checked_int32(t, v) ==
  LET shifted == bsrli(t.n, v, 1)
      pairs == add(2 * t.w, mul(TRUE, t.w, v, v), mul(TRUE, t.w, shifted, shifted))
  IN  IF \E k \in DOMAIN v : v[k] = SignBit(t.w)
      THEN Saturated(t, Highest(t.s, t.w), TRUE)
      ELSE checked_total(t, Lane(2 * t.w, SumOf(pairs)))

magnitude_checked_uint32(t, v) ==
  LET even == mul(FALSE, t.w, v, v)
      shifted == bsrli(t.n, v, 1)
      pairs == add(2 * t.w, even, mul(FALSE, t.w, shifted, shifted))
      total == Lane(2 * t.w, pairs[0] + pairs[1])
      maximum == Highest(t.s, t.w)
      overflow == \/ \E k \in DOMAIN pairs : even[k] > pairs[k]
                  \/ total < pairs[0]
                  \/ total >= Threshold(maximum)
  IN  Saturated(t, IF overflow THEN maximum
                   ELSE magnitude_round_sqrt_u64(total, maximum), overflow)

\* 64-bit lanes: squares of two words.
magnitude_square_u64(w, x) ==
  LET half == w \div 2
      lowHalf == x % 2 ^ half
      highHalf == x \div 2 ^ half
      cross == Lane(w, highHalf * lowHalf)
      lowSquare == Lane(w, lowHalf * lowHalf)
      low == Lane(w, lowSquare + Lane(w, cross * 2 ^ (half + 1)))
  IN  [low  |-> low,
       high |-> Lane(w, highHalf * highHalf + cross \div 2 ^ (half - 1)
                        + (IF low < lowSquare THEN 1 ELSE 0))]

\* The sum of two of them, and whether a carry left it.
SumOfSquares(w, first, second) ==
  LET low == Lane(w, first.low + second.low)
      partial == Lane(w, first.high + second.high)
      high == Lane(w, partial + (IF low < first.low THEN 1 ELSE 0))
  IN  [low |-> low, high |-> high, carried |-> partial < first.high \/ high < partial]

checked_sum(t, sum) ==
  LET w == t.w
      maximum == Highest(t.s, w)
      limit == Threshold(maximum)
      overflow == \/ sum.carried
                  \/ sum.high > limit \div 2 ^ w
                  \/ sum.high = limit \div 2 ^ w /\ sum.low >= limit % 2 ^ w
  IN  Saturated(t, IF overflow THEN maximum
                   ELSE magnitude_round_sqrt_u128(w, sum.low, sum.high, maximum), overflow)

magnitude_checked_64(t, v) ==
  LET square(x) == magnitude_square_u64(t.w, IF t.s /\ x >= SignBit(t.w) THEN Lane(t.w, -x) ELSE x)
  IN  checked_sum(t, SumOfSquares(t.w, square(v[0]), square(v[1])))
===============================================================================
