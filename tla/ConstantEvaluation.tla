------------------------- MODULE ConstantEvaluation -------------------------
(***************************************************************************)
(* What Api.h computes when a call is evaluated by the compiler, where no  *)
(* instruction can be used: one loop over the lanes for each operation.    *)
(* A caller cannot tell which of the two ways a call went, so both have to *)
(* give the same result.  t is the type of the lanes; moves are of bytes,  *)
(* e of them to a lane.                                                    *)
(***************************************************************************)
EXTENDS LaneImplementations

Compared(Op(_, _), t, a, b) ==
  Zip(LAMBDA x, y : Truth(t.w, Op(x, y)), t.s, t.w, a, b)

compare_equal_constexpr(t, a, b) == Compared(LAMBDA x, y : x = y, t, a, b)
compare_greater_constexpr(t, a, b) == Compared(LAMBDA x, y : x > y, t, a, b)
compare_greater_equal_constexpr(t, a, b) == Compared(LAMBDA x, y : x >= y, t, a, b)
compare_less_constexpr(t, a, b) == Compared(LAMBDA x, y : x < y, t, a, b)
compare_less_equal_constexpr(t, a, b) == Compared(LAMBDA x, y : x <= y, t, a, b)

bitwise_and_constexpr(t, a, b) == and(t.w, a, b)
bitwise_or_constexpr(t, a, b) == or(t.w, a, b)
bitwise_andnot_constexpr(t, a, b) == andnot(t.w, a, b)

select_constexpr(t, condition, when_true, when_false) ==
  bitwise_or_constexpr(t, bitwise_and_constexpr(t, condition, when_true),
                       bitwise_andnot_constexpr(t, condition, when_false))

-------------------------------------------------------------------------------
\* Shifts of the lanes.  The arithmetic one shifts a value of the lanes' type.

shift_left_constexpr(t, a, shift) ==
  IF shift >= t.w THEN set1(a, 0) ELSE Each(LAMBDA x : Lane(t.w, x * 2 ^ shift), t.s, t.w, a)

shift_right_constexpr(t, a, shift) ==
  IF shift >= t.w THEN set1(a, 0) ELSE Each(LAMBDA x : x \div 2 ^ shift, FALSE, t.w, a)

shift_right_arithmetic_constexpr(t, a, shift) ==
  LET clamped == IF shift >= t.w THEN t.w - 1 ELSE shift
  IN  Each(LAMBDA x : Lane(t.w, x \div 2 ^ clamped), t.s, t.w, a)

-------------------------------------------------------------------------------
\* The first of the smallest, and of the largest.

FirstOf(Better(_, _), t, a) ==
  LET value(k) == Value(t.s, t.w, a[k])
  IN  CHOOSE k \in DOMAIN a : /\ \A j \in DOMAIN a : ~Better(value(j), value(k))
                              /\ \A j \in First(k) : Better(value(k), value(j))

min_position_constexpr(t, a) == FirstOf(LAMBDA x, y : x < y, t, a)
max_position_constexpr(t, a) == FirstOf(LAMBDA x, y : x > y, t, a)

-------------------------------------------------------------------------------
\* One bit for each byte, and for each lane.

movemask_constexpr(v) == {k \in DOMAIN v : v[k] >= 128}
movemask_slim_constexpr(e, v) ==
  {k \in First(LanesOf(v) \div e) : v[e * k + e - 1] >= 128}

-------------------------------------------------------------------------------
\* Moves.

lower_half_constexpr(v) == [k \in First(16) |-> v[k]]

extract_constexpr(e, v, index) == [j \in First(e) |-> v[e * index + j]]
insert_constexpr(e, v, u, index) ==
  [k \in DOMAIN v |-> IF k \div e = index THEN u[k] ELSE v[k]]

unpack_constexpr(e, v, u, high) ==
  LET group == 16 \div e
      half == group \div 2
      source(k) == (k - (k % group)) + (IF high THEN half ELSE 0) + ((k % group) \div 2)
  IN  [j \in DOMAIN v |->
         LET k == j \div e
             from == e * source(k) + (j % e)
         IN  IF k % 2 = 0 THEN v[from] ELSE u[from]]

shuffle_constexpr(e, v, selectors) ==
  [j \in DOMAIN v |-> v[e * selectors[j \div e] + (j % e)]]

\* Groups of eight lanes of 16 bits, the lower or the upper four of each.
shuffle_half_constexpr(v, control, high) ==
  LET offset == IF high THEN 4 ELSE 0
      source(k) == LET lane == k % 8
                   IN  IF lane - offset \in 0 .. 3
                       THEN (k - lane) + offset + Selector(control, lane - offset) ELSE k
  IN  [j \in DOMAIN v |-> v[2 * source(j \div 2) + (j % 2)]]

shift_bytes_left_constexpr(v, shift) ==
  LET N == LanesOf(v)
  IN  CASE shift <= 0 -> v
        [] shift >= N -> set1(v, 0)
        [] OTHER      -> [k \in DOMAIN v |-> IF k >= shift THEN v[k - shift] ELSE 0]

shift_bytes_right_constexpr(v, shift) ==
  LET N == LanesOf(v)
  IN  CASE shift <= 0 -> v
        [] shift >= N -> set1(v, 0)
        [] OTHER      -> [k \in DOMAIN v |-> IF k + shift < N THEN v[k + shift] ELSE 0]
===============================================================================
