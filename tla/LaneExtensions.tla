---------------------------- MODULE LaneExtensions ----------------------------
(***************************************************************************)
(* The operations the instruction sets lack, as Extensions.h builds them   *)
(* from those they have: 8-bit lanes in pairs of 16 bits, 64-bit products  *)
(* from halves, unsigned orders from signed ones, shuffles with a run-time *)
(* control.  The 128-bit and 256-bit forms differ in the instructions'     *)
(* width only, unless a definition says otherwise.                         *)
(***************************************************************************)
EXTENDS Lanes

\* The mask 0x00FF00FF of the even positions.
EvenLanes(w, v) == [k \in DOMAIN v |-> Truth(w, k % 2 = 0)]

-------------------------------------------------------------------------------
\* Division, lane by lane, with the truncation of C.  8-bit and 16-bit lanes are
\* promoted to int, so that the lowest value by minus one wraps; in 32-bit and
\* 64-bit lanes that is undefined, as is a zero divisor in all of them.

Magnitude(x) == IF x < 0 THEN -x ELSE x
Quotient(x, y) ==
  LET q == Magnitude(x) \div Magnitude(y) IN IF (x < 0) = (y < 0) THEN q ELSE -q
Remainder(x, y) ==
  LET r == Magnitude(x) % Magnitude(y) IN IF x < 0 THEN -r ELSE r

div(s, w, a, b) == Zip(LAMBDA x, y : Lane(w, Quotient(x, y)), s, w, a, b)
rem(s, w, a, b) == Zip(LAMBDA x, y : Lane(w, Remainder(x, y)), s, w, a, b)

\* 256 bits are divided half by half.
Halves(Op(_, _), n, a, b) ==
  join(n, Op(lower(n, a), lower(n, b)), Op(upper(n, a), upper(n, b)))

ext256_div(s, w, n, a, b) == Halves(LAMBDA x, y : div(s, w, x, y), n, a, b)
ext256_rem(s, w, n, a, b) == Halves(LAMBDA x, y : rem(s, w, x, y), n, a, b)

-------------------------------------------------------------------------------
\* 8-bit lanes.

\* Mutant: the odd products are not made from the odd lanes alone.
OddFactorsWithEven(w, a, b) ==
  LET even == mullo(2 * w, wide(w, a), wide(w, b))
      odd == slli(2 * w, mullo(2 * w, srli(2 * w, wide(w, a), w), wide(w, b)), w)
  IN  blendv(w, narrow(w, odd), narrow(w, even), EvenLanes(w, a))

mul_epi8(w, a, b) ==
  LET even == mullo(2 * w, wide(w, a), wide(w, b))
      odd == slli(2 * w, mullo(2 * w, srli(2 * w, wide(w, a), w), srli(2 * w, wide(w, b), w)), w)
  IN  blendv(w, narrow(w, odd), narrow(w, even), EvenLanes(w, a))

slli_epx8(w, a, c) ==
  and(w, narrow(w, slli(2 * w, wide(w, a), c)), set1(a, Lane(w, Ones(w) * 2 ^ c)))

srli_epx8(w, a, c) ==
  and(w, narrow(w, srli(2 * w, wide(w, a), c)), set1(a, Ones(w) \div 2 ^ c))

srai_epx8(w, a, c) ==
  LET even == srai(2 * w, slli(2 * w, wide(w, a), w), c + w)
      odd == srai(2 * w, wide(w, a), c)
  IN  blendv(w, narrow(w, odd), narrow(w, even), EvenLanes(w, a))

\* 8-bit and 32-bit lanes, and the 256-bit form of 16-bit ones.
cmpgt_by_max(w, a, b) ==
  andnot(w, cmpeq(w, a, b), cmpeq(w, max(FALSE, w, a, b), a))

-------------------------------------------------------------------------------
\* 16-bit lanes: an order from the saturating difference.

cmple_epu16(w, x, y) == cmpeq(w, subs(FALSE, w, x, y), set1(x, 0))

cmpgt_epu16(w, x, y) == andnot(w, cmpeq(w, x, y), cmple_epu16(w, y, x))

-------------------------------------------------------------------------------
\* 64-bit lanes.

mullo_epi64(w, a, b) ==
  LET half == w \div 2
      low(v) == narrow(half, v)
      high(v) == low(srli(w, v, half))
      cross == add(w, mul(FALSE, half, high(a), low(b)), mul(FALSE, half, low(a), high(b)))
  IN  add(w, mul(FALSE, half, low(a), low(b)), slli(w, cross, half))

abs_epi64(w, a) ==
  LET sign == cmpgt(w, set1(a, 0), a) IN sub(w, xor(w, a, sign), sign)

min_epi64(w, a, b) == blendv(w, a, b, cmpgt(w, a, b))
max_epi64(w, a, b) == blendv(w, b, a, cmpgt(w, a, b))

srai_epi64(w, a, c) ==
  LET sign == cmpgt(w, set1(a, 0), a)
  IN  CASE c <= 0 -> a
        [] c >= w -> sign
        [] OTHER  -> or(w, srli(w, a, c), slli(w, sign, w - c))

cmpgt_epu64(w, a, b) ==
  cmpgt(w, xor(w, a, set1(a, SignBit(w))), xor(w, b, set1(b, SignBit(w))))

min_epu64(w, a, b) == blendv(w, a, b, cmpgt_epu64(w, a, b))
max_epu64(w, a, b) == blendv(w, b, a, cmpgt_epu64(w, a, b))

-------------------------------------------------------------------------------
\* Moves with a run-time control.  Registers are bytes here, a half has 16.

clamp_shift_bytes_count(c) == IF c < 0 THEN 0 ELSE IF c > 16 THEN 16 ELSE c

\* A byte that would come from below the register has a negative selector.
shift_bytes_left_slow(v, c) ==
  pshufb(16, v, [k \in DOMAIN v |-> (k - clamp_shift_bytes_count(c)) % 256])

\* The bias 0x70 brings a selector of 16 or more to 0x80.
shift_bytes_right_slow(v, c) ==
  pshufb(16, v, [k \in DOMAIN v |-> (112 + k + clamp_shift_bytes_count(c)) % 256])

\* Selector i of an immediate control, two bits each.
Selector(control, i) == (control \div 4 ^ i) % 4

\* With 256 bits the instruction selects across the halves, so the second half
\* counts from 4.
register_shuffle_32_slow(v, control) ==
  IF LanesOf(v) = 16
  THEN pshufb(16, v, [k \in DOMAIN v |-> 4 * Selector(control, k \div 4) + (k % 4)])
  ELSE [k \in DOMAIN v |->
          v[4 * ((4 * (k \div 16) + Selector(control, (k \div 4) % 4)) % 8) + (k % 4)]]

register_shuffle_half_16_slow(v, control, high) ==
  LET word(j) == IF high
                 THEN IF j < 4 THEN j ELSE 4 + Selector(control, j - 4)
                 ELSE IF j < 4 THEN Selector(control, j) ELSE j
  IN  pshufb(16, v, [k \in DOMAIN v |-> 2 * word((k % 16) \div 2) + (k % 2)])

register_blend_bytes(v, u, mask) == blendv(8, v, u, mask)

\* Bit k % 8 of the control selects lane k of u; e bytes to a lane.
Selected(control, k) == (control \div 2 ^ (k % 8)) % 2 = 1

register_blend_constexpr(e, v, u, control) ==
  [k \in DOMAIN v |-> IF Selected(control, k \div e) THEN u[k] ELSE v[k]]
===============================================================================
