--------------------------- MODULE LaneOperations ---------------------------
(***************************************************************************)
(* Calls of the element operations of Api, for every integer type and both *)
(* register widths.  Two operands are given; a call leaves its result, and *)
(* the predicate register a comparison leaves may be passed on to select,  *)
(* or to the masks of a bit per lane and of a bit per byte.                *)
(*                                                                         *)
(* Operations on values see lanes of a few bits.  Operations that only     *)
(* move see bytes, each with a tag of its own.                             *)
(***************************************************************************)
EXTENDS ConstantEvaluation, TLC

CONSTANTS LhsStrides, RhsStrides   \* the operands are patterns of these strides

ASSUME StrideAssumption == LhsStrides \cup RhsStrides \subseteq Int

VARIABLES type, bits,   \* the Api in use
          view,         \* what the operands are: values or bytes
          lhs, rhs,
          call,         \* the last call: operation and further argument
          result        \* and what it returned

vars == <<type, bits, view, lhs, rhs, call, result>>
operands == <<type, bits, view, lhs, rhs>>

Types == {int8, uint8, int16, uint16, int32, uint32, int64, uint64}
unsigned(t) == [t EXCEPT !.s = FALSE]

\* The specialisation of an element type at a width.
arithmetic(t, op, a, b) ==
  CASE t = int8   -> IF bits = 128 THEN SimdImpl128_int8_arithmetic(op, a, b)
                                   ELSE SimdImpl256_int8_arithmetic(op, a, b)
    [] t = uint8  -> IF bits = 128 THEN SimdImpl128_uint8_arithmetic(op, a, b)
                                   ELSE SimdImpl256_uint8_arithmetic(op, a, b)
    [] t = int16  -> IF bits = 128 THEN SimdImpl128_int16_arithmetic(op, a, b)
                                   ELSE SimdImpl256_int16_arithmetic(op, a, b)
    [] t = uint16 -> IF bits = 128 THEN SimdImpl128_uint16_arithmetic(op, a, b)
                                   ELSE SimdImpl256_uint16_arithmetic(op, a, b)
    [] t = int32  -> IF bits = 128 THEN SimdImpl128_int32_arithmetic(op, a, b)
                                   ELSE SimdImpl256_int32_arithmetic(op, a, b)
    [] t = uint32 -> IF bits = 128 THEN SimdImpl128_uint32_arithmetic(op, a, b)
                                   ELSE SimdImpl256_uint32_arithmetic(op, a, b)
    [] t = int64  -> IF bits = 128 THEN SimdImpl128_int64_arithmetic(op, a, b)
                                   ELSE SimdImpl256_int64_arithmetic(op, a, b)
    [] t = uint64 -> IF bits = 128 THEN SimdImpl128_uint64_arithmetic(op, a, b)
                                   ELSE SimdImpl256_uint64_arithmetic(op, a, b)

reduction(t, op, a, c) ==
  CASE t = int8   -> IF bits = 128 THEN SimdImpl128_int8_reductions(op, a, c)
                                   ELSE SimdImpl256_int8_reductions(op, a, c)
    [] t = uint8  -> IF bits = 128 THEN SimdImpl128_uint8_reductions(op, a, c)
                                   ELSE SimdImpl256_uint8_reductions(op, a, c)
    [] t = int16  -> IF bits = 128 THEN SimdImpl128_int16_reductions(op, a, c)
                                   ELSE SimdImpl256_int16_reductions(op, a, c)
    [] t = uint16 -> IF bits = 128 THEN SimdImpl128_uint16_reductions(op, a, c)
                                   ELSE SimdImpl256_uint16_reductions(op, a, c)
    [] t = int32  -> IF bits = 128 THEN SimdImpl128_int32_reductions(op, a, c)
                                   ELSE SimdImpl256_int32_reductions(op, a, c)
    [] t = uint32 -> IF bits = 128 THEN SimdImpl128_uint32_reductions(op, a, c)
                                   ELSE SimdImpl256_uint32_reductions(op, a, c)
    [] t = int64  -> IF bits = 128 THEN SimdImpl128_int64_reductions(op, a, c)
                                   ELSE SimdImpl256_int64_reductions(op, a, c)
    [] t = uint64 -> IF bits = 128 THEN SimdImpl128_uint64_reductions(op, a, c)
                                   ELSE SimdImpl256_uint64_reductions(op, a, c)

lanewise(t, op, a, b, c) ==
  CASE t = int8   -> IF bits = 128 THEN SimdImpl128_int8(op, a, b, c)
                                   ELSE SimdImpl256_int8(op, a, b, c)
    [] t = uint8  -> IF bits = 128 THEN SimdImpl128_uint8(op, a, b, c)
                                   ELSE SimdImpl256_uint8(op, a, b, c)
    [] t = int16  -> IF bits = 128 THEN SimdImpl128_int16(op, a, b, c)
                                   ELSE SimdImpl256_int16(op, a, b, c)
    [] t = uint16 -> IF bits = 128 THEN SimdImpl128_uint16(op, a, b, c)
                                   ELSE SimdImpl256_uint16(op, a, b, c)
    [] t = int32  -> IF bits = 128 THEN SimdImpl128_int32(op, a, b, c)
                                   ELSE SimdImpl256_int32(op, a, b, c)
    [] t = uint32 -> IF bits = 128 THEN SimdImpl128_uint32(op, a, b, c)
                                   ELSE SimdImpl256_uint32(op, a, b, c)
    [] t = int64  -> IF bits = 128 THEN SimdImpl128_int64(op, a, b, c)
                                   ELSE SimdImpl256_int64(op, a, b, c)
    [] t = uint64 -> IF bits = 128 THEN SimdImpl128_uint64(op, a, b, c)
                                   ELSE SimdImpl256_uint64(op, a, b, c)

moves(t, op, v, u, c) ==
  CASE t = int8   -> IF bits = 128 THEN SimdImpl128_int8_moves(op, v, u, c)
                                   ELSE SimdImpl256_int8_moves(op, v, u, c)
    [] t = uint8  -> IF bits = 128 THEN SimdImpl128_uint8_moves(op, v, u, c)
                                   ELSE SimdImpl256_uint8_moves(op, v, u, c)
    [] t = int16  -> IF bits = 128 THEN SimdImpl128_int16_moves(op, v, u, c)
                                   ELSE SimdImpl256_int16_moves(op, v, u, c)
    [] t = uint16 -> IF bits = 128 THEN SimdImpl128_uint16_moves(op, v, u, c)
                                   ELSE SimdImpl256_uint16_moves(op, v, u, c)
    [] t = int32  -> IF bits = 128 THEN SimdImpl128_int32_moves(op, v, u, c)
                                   ELSE SimdImpl256_int32_moves(op, v, u, c)
    [] t = uint32 -> IF bits = 128 THEN SimdImpl128_uint32_moves(op, v, u, c)
                                   ELSE SimdImpl256_uint32_moves(op, v, u, c)
    [] t = int64  -> IF bits = 128 THEN SimdImpl128_int64_moves(op, v, u, c)
                                   ELSE SimdImpl256_int64_moves(op, v, u, c)
    [] t = uint64 -> IF bits = 128 THEN SimdImpl128_uint64_moves(op, v, u, c)
                                   ELSE SimdImpl256_uint64_moves(op, v, u, c)

-------------------------------------------------------------------------------
\* The run-time way of each operation of Api.

compare_equal(a, b) == lanewise(type, "cmpeq", a, b, 0)
compare_greater(a, b) == lanewise(type, "cmpgt", a, b, 0)
compare_greater_equal(a, b) == or(type.w, compare_equal(a, b), compare_greater(a, b))
compare_less(a, b) == lanewise(type, "cmpgt", b, a, 0)
compare_less_equal(a, b) == or(type.w, compare_equal(a, b), compare_less(a, b))

select(condition, when_true, when_false) == blendv(type.w, when_false, when_true, condition)

min_position(a) == reduction(type, "min_position", a, 0).position

\* The order of the lanes is reversed, for signed ones as that of unsigned ones.
TransformForMaxPosition(a) ==
  LET bitwise_not(v) == [k \in DOMAIN v |-> Ones(type.w) - v[k]]
  IN  bitwise_not(IF type.s THEN xor(type.w, a, set1(a, SignBit(type.w))) ELSE a)

max_position(a) ==
  reduction(unsigned(type), "min_position", TransformForMaxPosition(a), 0).position

\* The bytes of a predicate register, whose lanes are all ones or zero.
elementBytes == 16 \div type.n
predicateBytes(p) ==
  [k \in First(elementBytes * LanesOf(p)) |-> IF p[k \div elementBytes] = 0 THEN 0 ELSE 255]

movemask_slim(v) ==
  IF bits = 128 THEN movemask_slim_128(elementBytes, v) ELSE movemask_slim_256(elementBytes, v)

shuffle(v, selectors) ==
  IF bits = 128 THEN shuffle_128(elementBytes, v, selectors)
                ELSE shuffle_256(elementBytes, v, selectors)

shift_bytes_left(v, c) ==
  IF bits = 128 THEN shift_bytes_left_128(v, c) ELSE shift_bytes_left_256(v, c)
shift_bytes_right(v, c) ==
  IF bits = 128 THEN shift_bytes_right_128(v, c) ELSE shift_bytes_right_256(v, c)

-------------------------------------------------------------------------------
\* Operands.

lanes(t, b) == First(t.n * (b \div 128))
Values(t) == First(2 ^ t.w)
Pattern(t, b, x, stride) ==
  [k \in lanes(t, b) |-> Lane(t.w, x + stride * ((k * (k + 1)) \div 2))]
Tags(b, base) == [k \in First(b \div 8) |-> base + k]

Init ==
  /\ type \in Types
  /\ bits \in {128, 256}
  /\ \/ /\ view = "values"
        /\ \E x, y \in Values(type), p \in LhsStrides, q \in RhsStrides :
             /\ lhs = Pattern(type, bits, x, p)
             /\ rhs = Pattern(type, bits, y, q)
     \/ /\ view = "bytes"
        /\ lhs = Tags(bits, 1)
        /\ rhs = Tags(bits, 65)
  /\ call = [op |-> "none", c |-> 0]
  /\ result = <<>>

Returns(op, c, value) ==
  /\ call' = [op |-> op, c |-> c]
  /\ result' = value
  /\ UNCHANGED operands

OnValues == view = "values" /\ call.op = "none"
OnBytes == view = "bytes" /\ call.op = "none"

\* An operation of one operand is called once for each of its patterns.
OneOperand == rhs = set1(rhs, 0)
-------------------------------------------------------------------------------
\* The calls.

Arithmetic ==
  /\ OnValues
  /\ \E op \in {"add", "subtract", "multiply"} :
       Returns(op, 0, arithmetic(type, op, lhs, rhs))

\* No divisor is zero; the lowest value by minus one is undefined unless the lanes
\* are promoted.
Division ==
  /\ OnValues
  /\ \A k \in DOMAIN rhs : rhs[k] # 0
  /\ type.s /\ type.n <= 4 =>
       \A k \in DOMAIN lhs : lhs[k] # SignBit(type.w) \/ rhs[k] # Ones(type.w)
  /\ \E op \in {"divide", "modulus"} : Returns(op, 0, arithmetic(type, op, lhs, rhs))

Unary ==
  /\ OnValues /\ OneOperand
  /\ \E op \in {"absolute", "negate"} : Returns(op, 0, lanewise(type, op, lhs, lhs, 0))

Extremum ==
  /\ OnValues
  /\ \E op \in {"min", "max"} \cup (IF ~type.s /\ type.n >= 8 THEN {"avg"} ELSE {}) :
       Returns(op, 0, lanewise(type, op, lhs, rhs, 0))

Shift ==
  /\ OnValues /\ OneOperand
  /\ \E op \in {"shift_left", "shift_right", "shift_right_arithmetic"}, c \in 0 .. type.w + 1 :
       Returns(op, c, lanewise(type, op, lhs, lhs, c))

Saturating ==
  /\ OnValues /\ type.n >= 8
  /\ \E op \in {"add_saturated", "subtract_saturated"}
               \cup (IF type.n = 8 THEN {"multiply_saturated"} ELSE {}) :
       Returns(op, 0, lanewise(type, op, lhs, rhs, 0))

AdjacentProducts ==
  /\ OnValues
  /\ Returns("multiply_add_adjacent", 0, arithmetic(type, "multiply_add_adjacent", lhs, rhs))

Horizontally ==
  /\ OnValues /\ type.n \in {4, 8}
  /\ \E op \in {"add_horizontal", "subtract_horizontal"}
               \cup (IF type.n = 8 THEN {"hadd_saturated", "hsubtract_saturated"} ELSE {}) :
       Returns(op, 0, lanewise(type, op, lhs, rhs, 0))

CompareEqual == OnValues /\ Returns("compare_equal", 0, compare_equal(lhs, rhs))
CompareGreater == OnValues /\ Returns("compare_greater", 0, compare_greater(lhs, rhs))
CompareGreaterEqual ==
  OnValues /\ Returns("compare_greater_equal", 0, compare_greater_equal(lhs, rhs))
CompareLess == OnValues /\ Returns("compare_less", 0, compare_less(lhs, rhs))
CompareLessEqual == OnValues /\ Returns("compare_less_equal", 0, compare_less_equal(lhs, rhs))

Comparisons == {"compare_equal", "compare_greater", "compare_greater_equal",
                "compare_less", "compare_less_equal"}

\* What a comparison left is passed on; the comparison stays in the call.
PassOn ==
  /\ call.op \in Comparisons
  /\ \/ Returns("select", call.op, select(result, lhs, rhs))
     \/ Returns("cmp_mask", call.op, movemask(8, predicateBytes(result)))
     \/ Returns("cmp_slim", call.op, movemask_slim(predicateBytes(result)))

MinPosition == OnValues /\ OneOperand /\ Returns("min_position", 0, min_position(lhs))
MaxPosition == OnValues /\ OneOperand /\ Returns("max_position", 0, max_position(lhs))

MagnitudeChecked ==
  /\ OnValues /\ OneOperand
  /\ Returns("magnitude_checked", 0, reduction(type, "magnitude_checked", lhs, 0))

\* Selectors of a shuffle: rotations and reversals within and across the halves,
\* broadcasts, and a deal of every third lane.
Selectors ==
  LET N == LanesOf(lhs) \div elementBytes
  IN  {[k \in First(N) |-> (a * k + b) % N] : a \in {0, 1, 3, N - 1}, b \in First(N)}

Unpack ==
  /\ OnBytes
  /\ \E op \in {"unpack_lo", "unpack_hi"} : Returns(op, 0, moves(type, op, lhs, rhs, 0))

Shuffle ==
  /\ OnBytes
  /\ \E selectors \in Selectors : Returns("shuffle", selectors, shuffle(lhs, selectors))

\* The lane inserted is broadcast first.
LaneAccess ==
  /\ OnBytes
  /\ \E index \in First(LanesOf(lhs) \div elementBytes) :
       \/ Returns("extract_slow", index, moves(type, "extract_slow", lhs, lhs, index))
       \/ LET value == [k \in DOMAIN rhs |-> rhs[k % elementBytes]]
          IN  Returns("insert_slow", index, moves(type, "insert_slow", lhs, value, index))

Controlled ==
  /\ OnBytes
  /\ \E control \in 0 .. 255 :
       \/ Returns("shuffle_32_slow", control, register_shuffle_32_slow(lhs, control))
       \/ /\ type.n \in {4, 8}
          /\ \E op \in {"blend_slow", "shuffle_lo_slow", "shuffle_hi_slow"} :
               Returns(op, control, moves(type, op, lhs, rhs, control))

ByteShift ==
  /\ OnBytes
  /\ \/ \E c \in 0 .. 33 :
          \/ Returns("shift_bytes_left", c, shift_bytes_left(lhs, c))
          \/ Returns("shift_bytes_right", c, shift_bytes_right(lhs, c))
     \/ /\ bits = 128
        /\ \E c \in -1 .. 17 :
             \/ Returns("shift_bytes_left_slow", c, shift_bytes_left_slow(lhs, c))
             \/ Returns("shift_bytes_right_slow", c, shift_bytes_right_slow(lhs, c))

LowerHalf ==
  /\ OnBytes /\ bits = 256
  /\ Returns("lower_half", 0, lower(16, lhs))

Next ==
  \/ Arithmetic \/ Division \/ Unary \/ Extremum \/ Shift \/ Saturating
  \/ AdjacentProducts \/ Horizontally
  \/ CompareEqual \/ CompareGreater \/ CompareGreaterEqual \/ CompareLess \/ CompareLessEqual
  \/ PassOn \/ MinPosition \/ MaxPosition \/ MagnitudeChecked
  \/ Unpack \/ Shuffle \/ LaneAccess \/ Controlled \/ ByteShift \/ LowerHalf

Spec == Init /\ [][Next]_vars

-------------------------------------------------------------------------------
\* What the compiler evaluates of a call.

predicate_constexpr(op) ==
  CASE op = "compare_equal"         -> compare_equal_constexpr(type, lhs, rhs)
    [] op = "compare_greater"       -> compare_greater_constexpr(type, lhs, rhs)
    [] op = "compare_greater_equal" -> compare_greater_equal_constexpr(type, lhs, rhs)
    [] op = "compare_less"          -> compare_less_constexpr(type, lhs, rhs)
    [] op = "compare_less_equal"    -> compare_less_equal_constexpr(type, lhs, rhs)

value_constexpr(op, c) ==
  CASE op = "select"   -> select_constexpr(type, predicate_constexpr(c), lhs, rhs)
    [] op = "cmp_mask" -> movemask_constexpr(predicateBytes(predicate_constexpr(c)))
    [] op = "cmp_slim" -> movemask_slim_constexpr(elementBytes, predicateBytes(predicate_constexpr(c)))
    [] op = "min_position" -> min_position_constexpr(type, lhs)
    [] op = "max_position" -> max_position_constexpr(type, lhs)
    [] op = "shift_left"   -> shift_left_constexpr(type, lhs, c)
    [] op = "shift_right"  -> shift_right_constexpr(type, lhs, c)
    [] op = "shift_right_arithmetic" -> shift_right_arithmetic_constexpr(type, lhs, c)
    [] OTHER -> predicate_constexpr(op)

\* A control given at run time stands for the immediate of the same value.
move_constexpr(op, c) ==
  CASE op = "unpack_lo"       -> unpack_constexpr(elementBytes, lhs, rhs, FALSE)
    [] op = "unpack_hi"       -> unpack_constexpr(elementBytes, lhs, rhs, TRUE)
    [] op = "shuffle"         -> shuffle_constexpr(elementBytes, lhs, c)
    [] op = "shuffle_lo_slow" -> shuffle_half_constexpr(lhs, c, FALSE)
    [] op = "shuffle_hi_slow" -> shuffle_half_constexpr(lhs, c, TRUE)
    [] op = "shuffle_32_slow" -> shuffle_epi32(lhs, c)
    [] op = "blend_slow"      -> register_blend_constexpr(elementBytes, lhs, rhs, c)
    [] op = "extract_slow"    -> extract_constexpr(elementBytes, lhs, c)
    [] op = "insert_slow"     ->
         insert_constexpr(elementBytes, lhs, [k \in DOMAIN rhs |-> rhs[k % elementBytes]], c)
    [] op \in {"shift_bytes_left", "shift_bytes_left_slow"}   -> shift_bytes_left_constexpr(lhs, c)
    [] op \in {"shift_bytes_right", "shift_bytes_right_slow"} -> shift_bytes_right_constexpr(lhs, c)
    [] op = "lower_half" -> lower_half_constexpr(lhs)

EvaluatedValues ==
  Comparisons \cup {"select", "cmp_mask", "cmp_slim", "min_position", "max_position",
                    "shift_left", "shift_right", "shift_right_arithmetic"}

-------------------------------------------------------------------------------
\* Properties.  A call's operands are still there when its result is.

\* A call on values gives what the compiler would have made of it: comparisons,
\* also those made of a saturating difference, a maximum or a flipped sign bit;
\* masks gathered by a shuffle; the first of equal extrema; counts of the lane's
\* width and more.  Arithmetic shifts of unsigned lanes are left out: evaluated by
\* the compiler they are logical ones, at run time the top bit is repeated.
RunTimeAgreesOnValues ==
  /\ call.op \in EvaluatedValues
  /\ ~(call.op = "shift_right_arithmetic" /\ ~type.s)
  => result = value_constexpr(call.op, call.c)

\* A call that moves puts every byte where the compiler would have put it, across
\* the halves of a register too, and a control given at run time acts like the
\* immediate.  Not so with 32-bit lanes and shuffle_lo_slow and shuffle_hi_slow,
\* which have no form with an immediate.
RunTimeAgreesOnMoves ==
  /\ view = "bytes" /\ call.op # "none"
  /\ ~(call.op \in {"shuffle_lo_slow", "shuffle_hi_slow"} /\ type.n = 4)
  => result = move_constexpr(call.op, call.c)

\* What an operation on numbers should give in a lane.
Wanted(op, x, y) ==
  LET s == type.s
      w == type.w
  IN  CASE op = "add"      -> Lane(w, x + y)
        [] op = "subtract" -> Lane(w, x - y)
        [] op = "multiply" -> Lane(w, x * y)
        [] op = "divide"   -> Lane(w, Quotient(x, y))
        [] op = "modulus"  -> Lane(w, x - y * Quotient(x, y))
        [] op = "absolute" -> Lane(w, Magnitude(x))
        [] op = "negate"   -> Lane(w, -x)
        [] op = "min"      -> Lane(w, IF x < y THEN x ELSE y)
        [] op = "max"      -> Lane(w, IF x < y THEN y ELSE x)
        [] op = "avg"      -> (x + y + 1) \div 2
        [] op \in {"add_saturated", "hadd_saturated"}           -> Saturate(s, w, x + y)
        [] op \in {"subtract_saturated", "hsubtract_saturated"} -> Saturate(s, w, x - y)
        [] op = "multiply_saturated"  -> Saturate(s, w, x * y)
        [] op = "add_horizontal"      -> Lane(w, x + y)
        [] op = "subtract_horizontal" -> Lane(w, x - y)

PairOperations == {"add_horizontal", "subtract_horizontal", "hadd_saturated", "hsubtract_saturated"}
LaneOperationNames ==
  {"add", "subtract", "multiply", "divide", "modulus", "absolute", "negate", "min", "max",
   "avg", "add_saturated", "subtract_saturated", "multiply_saturated"}

number(v, k) == Value(type.s, type.w, v[k])

\* Each lane of a result is the operation on the numbers in the same lanes, or in
\* the adjacent lanes of the operands' halves, or is a sum of adjacent products in
\* its place, however the result was put together.  absolute takes unsigned lanes
\* of less than 64 bits for signed ones and is left out there, as are saturated
\* unsigned products of 2^(2w-1) and more.
ArithmeticIsExact ==
  LET op == call.op
      w == type.w
      half == type.n \div 2
      place(k) == (k - (k % type.n)) + 2 * (k % half)
      pair(k) == IF k % type.n < half THEN <<number(lhs, place(k)), number(lhs, place(k) + 1)>>
                                      ELSE <<number(rhs, place(k)), number(rhs, place(k) + 1)>>
      product(k) == number(lhs, k) * number(rhs, k)
  IN  /\ /\ op \in LaneOperationNames
         /\ ~(op = "absolute" /\ ~type.s)
         => \A k \in DOMAIN lhs :
              \/ op = "multiply_saturated" /\ ~type.s /\ product(k) >= SignBit(2 * w)
              \/ result[k] = Wanted(op, number(lhs, k), number(rhs, k))
      /\ op \in PairOperations =>
           \A k \in DOMAIN lhs : result[k] = Wanted(op, pair(k)[1], pair(k)[2])
      /\ op = "multiply_add_adjacent" =>
           \A k \in First(LanesOf(lhs) \div 2) :
             LET sum == product(2 * k) + product(2 * k + 1)
             IN  IF type.n = 2 THEN result[2 * k] = Lane(w, sum) /\ result[2 * k + 1] = 0
                               ELSE result[k] = Lane(2 * w, sum)

\* The exact sum of the squares of half h, and the integer nearest to its root.
SumOfSquared(h) ==
  SumOf([k \in First(type.n) |-> number(lhs, (h - 1) * type.n + k) * number(lhs, (h - 1) * type.n + k)])
NearestRoot(total) ==
  CHOOSE c \in 0 .. total : total <= c * c + c /\ (c = 0 \/ total > c * c - c)

\* The checked magnitude of each half says it saturated exactly when the root of
\* the exact sum of squares rounds to more than the type holds, though the sum may
\* leave the word or the two words it is made in, and is the largest value then.
\* Otherwise it is, in lanes of less than 64 bits, the rounded root itself: what the
\* double lost of the sum and of the root is corrected.
MagnitudeIsExact ==
  call.op = "magnitude_checked" =>
    \A h \in DOMAIN result :
      LET largest == Highest(type.s, type.w)
          root == NearestRoot(SumOfSquared(h))
      IN  /\ result[h].mask = Truth(type.w, root > largest)
          /\ root > largest => result[h].value = largest
          /\ root <= largest /\ type.n # 2 => result[h].value = root

\* Nothing corrects the root of 64-bit lanes, which comes of a sum, a root and an
\* addition rounded to doubles each.  It is at most largest all the same and not far
\* off: by one where doubles tell halves, by two where they tell integers, and by the
\* distance between two doubles above that.
WideMagnitudeIsClose ==
  call.op = "magnitude_checked" /\ type.n = 2 =>
    \A h \in DOMAIN result :
      LET largest == Highest(type.s, type.w)
          root == NearestRoot(SumOfSquared(h))
      IN  /\ result[h].value <= largest
          /\ root <= largest =>
               Magnitude(result[h].value - root)
                 <= IF root < 2 ^ Precision THEN Spacing(2 * root) ELSE Spacing(root)

\* Multiplying with saturation clamps what the type cannot hold to its largest
\* value.
SaturatesAsDocumented ==
  call.op = "multiply_saturated" =>
    \A k \in DOMAIN lhs :
      number(lhs, k) * number(rhs, k) > Highest(type.s, type.w) =>
        result[k] = Highest(type.s, type.w)
===============================================================================
