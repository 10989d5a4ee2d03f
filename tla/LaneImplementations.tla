------------------------- MODULE LaneImplementations -------------------------
(***************************************************************************)
(* Which instruction or composition each operation of Implementations.h    *)
(* is, by element type and register width: a table for each                *)
(* specialisation, of what differs from the instruction of the lane's      *)
(* width.  Left out are what is computed in floating point (sqrt,          *)
(* magnitude), the sums of byte differences and the widening conversions.  *)
(***************************************************************************)
EXTENDS LaneKernels, LaneMoves

CONSTANTS W8, W16, W32, W64   \* bits of a lane of each width

ASSUME LaneAssumption ==
  /\ {W8, W16, W32, W64} \subseteq Nat \ {0, 1}
  /\ W64 % 2 = 0

int8   == [s |-> TRUE,  w |-> W8,  n |-> 16]
uint8  == [s |-> FALSE, w |-> W8,  n |-> 16]
int16  == [s |-> TRUE,  w |-> W16, n |-> 8]
uint16 == [s |-> FALSE, w |-> W16, n |-> 8]
int32  == [s |-> TRUE,  w |-> W32, n |-> 4]
uint32 == [s |-> FALSE, w |-> W32, n |-> 4]
int64  == [s |-> TRUE,  w |-> W64, n |-> 2]
uint64 == [s |-> FALSE, w |-> W64, n |-> 2]

\* Where the lane's width has the instruction, an operation is that instruction.
Instruction(t, op, a, b, c) ==
  CASE op = "add"                    -> add(t.w, a, b)
    [] op = "subtract"               -> sub(t.w, a, b)
    [] op = "multiply"               -> mullo(t.w, a, b)
    [] op = "absolute"               -> abs(t.w, a)
    [] op = "negate"                 -> sub(t.w, set1(a, 0), a)
    [] op = "min"                    -> min(t.s, t.w, a, b)
    [] op = "max"                    -> max(t.s, t.w, a, b)
    [] op = "avg"                    -> avg(t.w, a, b)
    [] op = "shift_left"             -> slli(t.w, a, c)
    [] op = "shift_right"            -> srli(t.w, a, c)
    [] op = "shift_right_arithmetic" -> srai(t.w, a, c)
    [] op = "add_saturated"          -> adds(t.s, t.w, a, b)
    [] op = "subtract_saturated"     -> subs(t.s, t.w, a, b)
    [] op = "add_horizontal"         -> hadd(t.w, t.n, a, b)
    [] op = "subtract_horizontal"    -> hsub(t.w, t.n, a, b)
    [] op = "hadd_saturated"         -> hadds(t.w, t.n, a, b)
    [] op = "hsubtract_saturated"    -> hsubs(t.w, t.n, a, b)
    [] op = "cmpeq"                  -> cmpeq(t.w, a, b)
    [] op = "cmpgt"                  -> cmpgt(t.w, a, b)

\* Neither 8-bit nor 64-bit lanes have all of them.
Emulated8(t, op, a, b, c) ==
  CASE op = "shift_left"             -> slli_epx8(t.w, a, c)
    [] op = "shift_right"            -> srli_epx8(t.w, a, c)
    [] op = "shift_right_arithmetic" -> srai_epx8(t.w, a, c)
    [] OTHER                         -> Instruction(t, op, a, b, c)

Emulated64(t, op, a, b, c) ==
  CASE op = "absolute"               -> IF t.s THEN abs_epi64(t.w, a) ELSE a
    [] op = "min"                    -> IF t.s THEN min_epi64(t.w, a, b) ELSE min_epu64(t.w, a, b)
    [] op = "max"                    -> IF t.s THEN max_epi64(t.w, a, b) ELSE max_epu64(t.w, a, b)
    [] op = "shift_right_arithmetic" -> srai_epi64(t.w, a, c)
    [] OTHER                         -> Instruction(t, op, a, b, c)

\* 256 bits: the magnitude of each half.
BothHalves(Op(_, _), t, a) == <<Op(t, lower(t.n, a)), Op(t, upper(t.n, a))>>

-------------------------------------------------------------------------------
\* 128 bits: products, quotients and sums.

SimdImpl128_int8_arithmetic(op, a, b) ==
  CASE op = "multiply"              -> mul_epi8(W8, a, b)
    [] op = "multiply_add_adjacent" -> adjacent_by_extension(int8, a, b)
    [] op = "divide"                -> div(TRUE, W8, a, b)
    [] op = "modulus"               -> rem(TRUE, W8, a, b)
    [] OTHER                        -> Instruction(int8, op, a, b, 0)

SimdImpl128_uint8_arithmetic(op, a, b) ==
  CASE op = "multiply"              -> mul_epi8(W8, a, b)
    [] op = "multiply_add_adjacent" -> adjacent_by_extension(uint8, a, b)
    [] op = "divide"                -> div(FALSE, W8, a, b)
    [] op = "modulus"               -> rem(FALSE, W8, a, b)
    [] OTHER                        -> Instruction(uint8, op, a, b, 0)

SimdImpl128_int16_arithmetic(op, a, b) ==
  CASE op = "multiply_add_adjacent" -> madd(W16, a, b)
    [] op = "divide"                -> div(TRUE, W16, a, b)
    [] op = "modulus"               -> rem(TRUE, W16, a, b)
    [] OTHER                        -> Instruction(int16, op, a, b, 0)

SimdImpl128_uint16_arithmetic(op, a, b) ==
  CASE op = "multiply_add_adjacent" -> adjacent_by_extension(uint16, a, b)
    [] op = "divide"                -> div(FALSE, W16, a, b)
    [] op = "modulus"               -> rem(FALSE, W16, a, b)
    [] OTHER                        -> Instruction(uint16, op, a, b, 0)

SimdImpl128_int32_arithmetic(op, a, b) ==
  CASE op = "multiply_add_adjacent" -> adjacent_by_parity(int32, a, b)
    [] op = "divide"                -> div(TRUE, W32, a, b)
    [] op = "modulus"               -> rem(TRUE, W32, a, b)
    [] OTHER                        -> Instruction(int32, op, a, b, 0)

SimdImpl128_uint32_arithmetic(op, a, b) ==
  CASE op = "multiply_add_adjacent" -> adjacent_by_parity(uint32, a, b)
    [] op = "divide"                -> div(FALSE, W32, a, b)
    [] op = "modulus"               -> rem(FALSE, W32, a, b)
    [] OTHER                        -> Instruction(uint32, op, a, b, 0)

SimdImpl128_int64_arithmetic(op, a, b) ==
  CASE op = "multiply"              -> mullo_epi64(W64, a, b)
    [] op = "multiply_add_adjacent" -> adjacent_epi64(int64, a, b)
    [] op = "divide"                -> div(TRUE, W64, a, b)
    [] op = "modulus"               -> rem(TRUE, W64, a, b)
    [] OTHER                        -> Instruction(int64, op, a, b, 0)

SimdImpl128_uint64_arithmetic(op, a, b) ==
  CASE op = "multiply"              -> mullo_epi64(W64, a, b)
    [] op = "multiply_add_adjacent" -> adjacent_epi64(uint64, a, b)
    [] op = "divide"                -> div(FALSE, W64, a, b)
    [] op = "modulus"               -> rem(FALSE, W64, a, b)
    [] OTHER                        -> Instruction(uint64, op, a, b, 0)

-------------------------------------------------------------------------------
\* 128 bits: reductions.

SimdImpl128_int8_reductions(op, a, c) ==
  CASE op = "magnitude_checked" -> <<magnitude_checked_8(int8, a)>>
    [] op = "min_position"      -> min_position_128(int8, a)

SimdImpl128_uint8_reductions(op, a, c) ==
  CASE op = "magnitude_checked" -> <<magnitude_checked_8(uint8, a)>>
    [] op = "min_position"      -> min_position_128(uint8, a)

SimdImpl128_int16_reductions(op, a, c) ==
  CASE op = "magnitude_checked" -> <<magnitude_checked_int16(int16, a)>>
    [] op = "min_position"      -> min_position_128(int16, a)

SimdImpl128_uint16_reductions(op, a, c) ==
  CASE op = "magnitude_checked" -> <<magnitude_checked_uint16(uint16, a)>>
    [] op = "min_position"      -> minpos_epu16(a)

SimdImpl128_int32_reductions(op, a, c) ==
  CASE op = "magnitude_checked" -> <<magnitude_checked_int32(int32, a)>>
    [] op = "min_position"      -> min_position_128(int32, a)

SimdImpl128_uint32_reductions(op, a, c) ==
  CASE op = "magnitude_checked" -> <<magnitude_checked_uint32(uint32, a)>>
    [] op = "min_position"      -> min_position_128(uint32, a)

SimdImpl128_int64_reductions(op, a, c) ==
  CASE op = "magnitude_checked" -> <<magnitude_checked_64(int64, a)>>
    [] op = "min_position"      -> min_position_128(int64, a)

SimdImpl128_uint64_reductions(op, a, c) ==
  CASE op = "magnitude_checked" -> <<magnitude_checked_64(uint64, a)>>
    [] op = "min_position"      -> min_position_128(uint64, a)

-------------------------------------------------------------------------------
\* 128 bits: the operations on each lane, or on pairs of lanes.

SimdImpl128_int8(op, a, b, c) ==
  Emulated8(int8, op, a, b, c)

SimdImpl128_uint8(op, a, b, c) ==
  CASE op = "cmpgt" -> cmpgt_by_max(W8, a, b)
    [] OTHER        -> Emulated8(uint8, op, a, b, c)

SimdImpl128_int16(op, a, b, c) ==
  CASE op = "multiply_saturated" -> multiply_saturated_128(int16, a, b)
    [] OTHER                     -> Instruction(int16, op, a, b, c)

SimdImpl128_uint16(op, a, b, c) ==
  CASE op = "multiply_saturated"  -> multiply_saturated_128(uint16, a, b)
    [] op = "hadd_saturated"      -> hadd_saturated_epu16(uint16, a, b)
    [] op = "hsubtract_saturated" -> hsubtract_saturated_epu16(uint16, a, b)
    [] op = "cmpgt"               -> cmpgt_epu16(W16, a, b)
    [] OTHER                      -> Instruction(uint16, op, a, b, c)

SimdImpl128_int32(op, a, b, c) ==
  Instruction(int32, op, a, b, c)

SimdImpl128_uint32(op, a, b, c) ==
  CASE op = "cmpgt" -> cmpgt_by_max(W32, a, b)
    [] OTHER        -> Instruction(uint32, op, a, b, c)

SimdImpl128_int64(op, a, b, c) ==
  Emulated64(int64, op, a, b, c)

SimdImpl128_uint64(op, a, b, c) ==
  CASE op = "cmpgt" -> cmpgt_epu64(W64, a, b)
    [] OTHER        -> Emulated64(uint64, op, a, b, c)

-------------------------------------------------------------------------------
\* 128 bits: moves.

SimdImpl128_int8_moves(op, v, u, c) ==
  CASE op = "unpack_lo"       -> unpack(1, v, u, 0)
    [] op = "unpack_hi"       -> unpack(1, v, u, 1)
    [] op = "insert_slow"     -> insert_slow(1, v, u, c)
    [] op = "extract_slow"    -> extract_slow_128(1, v, c)

SimdImpl128_uint8_moves(op, v, u, c) ==
  CASE op = "unpack_lo"       -> unpack(1, v, u, 0)
    [] op = "unpack_hi"       -> unpack(1, v, u, 1)
    [] op = "insert_slow"     -> insert_slow(1, v, u, c)
    [] op = "extract_slow"    -> extract_slow_128(1, v, c)

SimdImpl128_int16_moves(op, v, u, c) ==
  CASE op = "unpack_lo"       -> unpack(2, v, u, 0)
    [] op = "unpack_hi"       -> unpack(2, v, u, 1)
    [] op = "insert_slow"     -> insert_slow(2, v, u, c)
    [] op = "extract_slow"    -> extract_slow_128(2, v, c)
    [] op = "blend_slow"      -> blend_slow(2, v, u, c)
    [] op = "shuffle_lo_slow" -> register_shuffle_half_16_slow(v, c, FALSE)
    [] op = "shuffle_hi_slow" -> register_shuffle_half_16_slow(v, c, TRUE)

SimdImpl128_uint16_moves(op, v, u, c) ==
  CASE op = "unpack_lo"       -> unpack(2, v, u, 0)
    [] op = "unpack_hi"       -> unpack(2, v, u, 1)
    [] op = "insert_slow"     -> insert_slow(2, v, u, c)
    [] op = "extract_slow"    -> extract_slow_128(2, v, c)
    [] op = "blend_slow"      -> blend_slow(2, v, u, c)
    [] op = "shuffle_lo_slow" -> register_shuffle_half_16_slow(v, c, FALSE)
    [] op = "shuffle_hi_slow" -> register_shuffle_half_16_slow(v, c, TRUE)

SimdImpl128_int32_moves(op, v, u, c) ==
  CASE op = "unpack_lo"       -> unpack(4, v, u, 0)
    [] op = "unpack_hi"       -> unpack(4, v, u, 1)
    [] op = "insert_slow"     -> insert_slow(4, v, u, c)
    [] op = "extract_slow"    -> extract_slow_128(4, v, c)
    [] op = "blend_slow"      -> blend_slow(4, v, u, c)
    [] op = "shuffle_lo_slow" -> register_shuffle_half_16_slow(v, c, FALSE)
    [] op = "shuffle_hi_slow" -> register_shuffle_half_16_slow(v, c, TRUE)

SimdImpl128_uint32_moves(op, v, u, c) ==
  CASE op = "unpack_lo"       -> unpack(4, v, u, 0)
    [] op = "unpack_hi"       -> unpack(4, v, u, 1)
    [] op = "insert_slow"     -> insert_slow(4, v, u, c)
    [] op = "extract_slow"    -> extract_slow_128(4, v, c)
    [] op = "blend_slow"      -> blend_slow(4, v, u, c)
    [] op = "shuffle_lo_slow" -> register_shuffle_half_16_slow(v, c, FALSE)
    [] op = "shuffle_hi_slow" -> register_shuffle_half_16_slow(v, c, TRUE)

SimdImpl128_int64_moves(op, v, u, c) ==
  CASE op = "unpack_lo"       -> unpack(8, v, u, 0)
    [] op = "unpack_hi"       -> unpack(8, v, u, 1)
    [] op = "insert_slow"     -> insert_slow(8, v, u, c)
    [] op = "extract_slow"    -> extract_slow_128(8, v, c)

SimdImpl128_uint64_moves(op, v, u, c) ==
  CASE op = "unpack_lo"       -> unpack(8, v, u, 0)
    [] op = "unpack_hi"       -> unpack(8, v, u, 1)
    [] op = "insert_slow"     -> insert_slow(8, v, u, c)
    [] op = "extract_slow"    -> extract_slow_128(8, v, c)

-------------------------------------------------------------------------------
\* 256 bits: products, quotients and sums.

SimdImpl256_int8_arithmetic(op, a, b) ==
  CASE op = "multiply"              -> mul_epi8(W8, a, b)
    [] op = "multiply_add_adjacent" -> adjacent_by_extension(int8, a, b)
    [] op = "divide"                -> ext256_div(TRUE, W8, 16, a, b)
    [] op = "modulus"               -> ext256_rem(TRUE, W8, 16, a, b)
    [] OTHER                        -> Instruction(int8, op, a, b, 0)

SimdImpl256_uint8_arithmetic(op, a, b) ==
  CASE op = "multiply"              -> mul_epi8(W8, a, b)
    [] op = "multiply_add_adjacent" -> adjacent_by_extension(uint8, a, b)
    [] op = "divide"                -> ext256_div(FALSE, W8, 16, a, b)
    [] op = "modulus"               -> ext256_rem(FALSE, W8, 16, a, b)
    [] OTHER                        -> Instruction(uint8, op, a, b, 0)

SimdImpl256_int16_arithmetic(op, a, b) ==
  CASE op = "multiply_add_adjacent" -> madd(W16, a, b)
    [] op = "divide"                -> ext256_div(TRUE, W16, 8, a, b)
    [] op = "modulus"               -> ext256_rem(TRUE, W16, 8, a, b)
    [] OTHER                        -> Instruction(int16, op, a, b, 0)

SimdImpl256_uint16_arithmetic(op, a, b) ==
  CASE op = "multiply_add_adjacent" -> adjacent_by_extension(uint16, a, b)
    [] op = "divide"                -> ext256_div(FALSE, W16, 8, a, b)
    [] op = "modulus"               -> ext256_rem(FALSE, W16, 8, a, b)
    [] OTHER                        -> Instruction(uint16, op, a, b, 0)

SimdImpl256_int32_arithmetic(op, a, b) ==
  CASE op = "multiply_add_adjacent" -> adjacent_by_parity(int32, a, b)
    [] op = "divide"                -> ext256_div(TRUE, W32, 4, a, b)
    [] op = "modulus"               -> ext256_rem(TRUE, W32, 4, a, b)
    [] OTHER                        -> Instruction(int32, op, a, b, 0)

SimdImpl256_uint32_arithmetic(op, a, b) ==
  CASE op = "multiply_add_adjacent" -> adjacent_by_parity(uint32, a, b)
    [] op = "divide"                -> ext256_div(FALSE, W32, 4, a, b)
    [] op = "modulus"               -> ext256_rem(FALSE, W32, 4, a, b)
    [] OTHER                        -> Instruction(uint32, op, a, b, 0)

SimdImpl256_int64_arithmetic(op, a, b) ==
  CASE op = "multiply"              -> mullo_epi64(W64, a, b)
    [] op = "multiply_add_adjacent" -> adjacent_epi64(int64, a, b)
    [] op = "divide"                -> ext256_div(TRUE, W64, 2, a, b)
    [] op = "modulus"               -> ext256_rem(TRUE, W64, 2, a, b)
    [] OTHER                        -> Instruction(int64, op, a, b, 0)

SimdImpl256_uint64_arithmetic(op, a, b) ==
  CASE op = "multiply"              -> mullo_epi64(W64, a, b)
    [] op = "multiply_add_adjacent" -> adjacent_epi64(uint64, a, b)
    [] op = "divide"                -> ext256_div(FALSE, W64, 2, a, b)
    [] op = "modulus"               -> ext256_rem(FALSE, W64, 2, a, b)
    [] OTHER                        -> Instruction(uint64, op, a, b, 0)

-------------------------------------------------------------------------------
\* 256 bits: reductions.

SimdImpl256_int8_reductions(op, a, c) ==
  CASE op = "magnitude_checked" -> BothHalves(magnitude_checked_8, int8, a)
    [] op = "min_position"      -> min_position_256(int8, a)

SimdImpl256_uint8_reductions(op, a, c) ==
  CASE op = "magnitude_checked" -> BothHalves(magnitude_checked_8, uint8, a)
    [] op = "min_position"      -> min_position_256(uint8, a)

SimdImpl256_int16_reductions(op, a, c) ==
  CASE op = "magnitude_checked" -> BothHalves(magnitude_checked_int16, int16, a)
    [] op = "min_position"      -> min_position_256(int16, a)

SimdImpl256_uint16_reductions(op, a, c) ==
  CASE op = "magnitude_checked" -> BothHalves(magnitude_checked_uint16, uint16, a)
    [] op = "min_position"      -> min_position_256(uint16, a)

SimdImpl256_int32_reductions(op, a, c) ==
  CASE op = "magnitude_checked" -> BothHalves(magnitude_checked_int32, int32, a)
    [] op = "min_position"      -> min_position_256(int32, a)

SimdImpl256_uint32_reductions(op, a, c) ==
  CASE op = "magnitude_checked" -> BothHalves(magnitude_checked_uint32, uint32, a)
    [] op = "min_position"      -> min_position_256(uint32, a)

SimdImpl256_int64_reductions(op, a, c) ==
  CASE op = "magnitude_checked" -> BothHalves(magnitude_checked_64, int64, a)
    [] op = "min_position"      -> min_position_256(int64, a)

SimdImpl256_uint64_reductions(op, a, c) ==
  CASE op = "magnitude_checked" -> BothHalves(magnitude_checked_64, uint64, a)
    [] op = "min_position"      -> min_position_256(uint64, a)

-------------------------------------------------------------------------------
\* 256 bits: the operations on each lane, or on pairs of lanes.

SimdImpl256_int8(op, a, b, c) ==
  Emulated8(int8, op, a, b, c)

SimdImpl256_uint8(op, a, b, c) ==
  CASE op = "cmpgt" -> cmpgt_by_max(W8, a, b)
    [] OTHER        -> Emulated8(uint8, op, a, b, c)

SimdImpl256_int16(op, a, b, c) ==
  CASE op = "multiply_saturated" -> multiply_saturated_256(int16, a, b)
    [] OTHER                     -> Instruction(int16, op, a, b, c)

SimdImpl256_uint16(op, a, b, c) ==
  CASE op = "multiply_saturated"  -> multiply_saturated_256(uint16, a, b)
    [] op = "hadd_saturated"      -> hadd_saturated_epu16(uint16, a, b)
    [] op = "hsubtract_saturated" -> hsubtract_saturated_epu16(uint16, a, b)
    [] op = "cmpgt"               -> cmpgt_by_max(W16, a, b)
    [] OTHER                      -> Instruction(uint16, op, a, b, c)

SimdImpl256_int32(op, a, b, c) ==
  Instruction(int32, op, a, b, c)

SimdImpl256_uint32(op, a, b, c) ==
  CASE op = "cmpgt" -> cmpgt_by_max(W32, a, b)
    [] OTHER        -> Instruction(uint32, op, a, b, c)

SimdImpl256_int64(op, a, b, c) ==
  Emulated64(int64, op, a, b, c)

SimdImpl256_uint64(op, a, b, c) ==
  CASE op = "cmpgt" -> cmpgt_epu64(W64, a, b)
    [] OTHER        -> Emulated64(uint64, op, a, b, c)

-------------------------------------------------------------------------------
\* 256 bits: moves.

SimdImpl256_int8_moves(op, v, u, c) ==
  CASE op = "unpack_lo"       -> unpack(1, v, u, 0)
    [] op = "unpack_hi"       -> unpack(1, v, u, 1)
    [] op = "insert_slow"     -> insert_slow(1, v, u, c)
    [] op = "extract_slow"    -> extract_slow_256(1, v, c)

SimdImpl256_uint8_moves(op, v, u, c) ==
  CASE op = "unpack_lo"       -> unpack(1, v, u, 0)
    [] op = "unpack_hi"       -> unpack(1, v, u, 1)
    [] op = "insert_slow"     -> insert_slow(1, v, u, c)
    [] op = "extract_slow"    -> extract_slow_256(1, v, c)

SimdImpl256_int16_moves(op, v, u, c) ==
  CASE op = "unpack_lo"       -> unpack(2, v, u, 0)
    [] op = "unpack_hi"       -> unpack(2, v, u, 1)
    [] op = "insert_slow"     -> insert_slow(2, v, u, c)
    [] op = "extract_slow"    -> extract_slow_256(2, v, c)
    [] op = "blend_slow"      -> blend_slow(2, v, u, c)
    [] op = "shuffle_lo_slow" -> register_shuffle_half_16_slow(v, c, FALSE)
    [] op = "shuffle_hi_slow" -> register_shuffle_half_16_slow(v, c, TRUE)

SimdImpl256_uint16_moves(op, v, u, c) ==
  CASE op = "unpack_lo"       -> unpack(2, v, u, 0)
    [] op = "unpack_hi"       -> unpack(2, v, u, 1)
    [] op = "insert_slow"     -> insert_slow(2, v, u, c)
    [] op = "extract_slow"    -> extract_slow_256(2, v, c)
    [] op = "blend_slow"      -> blend_slow(2, v, u, c)
    [] op = "shuffle_lo_slow" -> register_shuffle_half_16_slow(v, c, FALSE)
    [] op = "shuffle_hi_slow" -> register_shuffle_half_16_slow(v, c, TRUE)

SimdImpl256_int32_moves(op, v, u, c) ==
  CASE op = "unpack_lo"       -> unpack(4, v, u, 0)
    [] op = "unpack_hi"       -> unpack(4, v, u, 1)
    [] op = "insert_slow"     -> insert_slow(4, v, u, c)
    [] op = "extract_slow"    -> extract_slow_256(4, v, c)
    [] op = "blend_slow"      -> blend_slow(4, v, u, c)
    [] op = "shuffle_lo_slow" -> register_shuffle_32_slow(v, c)
    [] op = "shuffle_hi_slow" -> register_shuffle_32_slow(v, c)

SimdImpl256_uint32_moves(op, v, u, c) ==
  CASE op = "unpack_lo"       -> unpack(4, v, u, 0)
    [] op = "unpack_hi"       -> unpack(4, v, u, 1)
    [] op = "insert_slow"     -> insert_slow(4, v, u, c)
    [] op = "extract_slow"    -> extract_slow_256(4, v, c)
    [] op = "blend_slow"      -> blend_slow(4, v, u, c)
    [] op = "shuffle_lo_slow" -> register_shuffle_32_slow(v, c)
    [] op = "shuffle_hi_slow" -> register_shuffle_32_slow(v, c)

SimdImpl256_int64_moves(op, v, u, c) ==
  CASE op = "unpack_lo"       -> unpack(8, v, u, 0)
    [] op = "unpack_hi"       -> unpack(8, v, u, 1)
    [] op = "insert_slow"     -> insert_slow(8, v, u, c)
    [] op = "extract_slow"    -> extract_slow_256(8, v, c)

SimdImpl256_uint64_moves(op, v, u, c) ==
  CASE op = "unpack_lo"       -> unpack(8, v, u, 0)
    [] op = "unpack_hi"       -> unpack(8, v, u, 1)
    [] op = "insert_slow"     -> insert_slow(8, v, u, c)
    [] op = "extract_slow"    -> extract_slow_256(8, v, c)
===============================================================================
