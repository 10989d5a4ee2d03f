------------------------------ MODULE LaneMoves ------------------------------
(***************************************************************************)
(* The operations of the implementation that only move bytes.  A register  *)
(* has 16 or 32 bytes, e of them to a lane; what the bytes hold does not   *)
(* matter, so they may be tags, zero being the cleared byte.               *)
(***************************************************************************)
EXTENDS LaneExtensions

Is256(v) == LanesOf(v) = 32

\* Byte k of a register of lanes.
Bytewise(e, v, lane(_)) == [k \in DOMAIN v |-> v[e * lane(k \div e) + (k % e)]]

-------------------------------------------------------------------------------
\* Shuffles by lane, with the selectors known when compiling.

\* Two bits of an immediate for each of four lanes.
encode_logical_shuffle_32_immediate(sel) ==
  sel[0] + 4 * sel[1] + 16 * sel[2] + 64 * sel[3]

encode_logical_shuffle_64_immediate(sel) ==
  encode_logical_shuffle_32_immediate(
    [i \in 0 .. 3 |-> 2 * sel[i \div 2] + (i % 2)])

encode_logical_shuffle_16_byte(index, byte) == index * 2 + byte

shuffle_epi32(v, control) ==
  Bytewise(4, v, LAMBDA k : (k - (k % 4)) + Selector(control, k % 4))

shuffle_128(e, v, sel) ==
  CASE e = 1 -> pshufb(16, v, sel)
    [] e = 2 -> pshufb(16, v, [k \in DOMAIN v |->
                                 encode_logical_shuffle_16_byte(sel[k \div 2], k % 2)])
    [] e = 4 -> shuffle_epi32(v, encode_logical_shuffle_32_immediate(sel))
    [] e = 8 -> shuffle_epi32(v, encode_logical_shuffle_64_immediate(sel))

\* A byte shuffle stays within its half: lanes that come from the other half are
\* taken from the register with its halves swapped.
crosses(e, k, sel) == k \div 16 # (e * sel[k \div e]) \div 16

\* Mutant: the control for the other half keeps the lanes of this one.
KeepsBothHalves(e, cross, k, sel) ==
  e * (sel[k \div e] % (16 \div e)) + (k % e)

encode_logical_shuffle_256_byte(e, cross, k, sel) ==
  IF crosses(e, k, sel) # cross THEN 128
  ELSE e * (sel[k \div e] % (16 \div e)) + (k % e)

make_logical_shuffle_256_byte_control(e, cross, v, sel) ==
  [k \in DOMAIN v |-> encode_logical_shuffle_256_byte(e, cross, k, sel)]

shuffle_256_bytes(e, v, sel) ==
  LET swapped == join(16, upper(16, v), lower(16, v))
      local == pshufb(16, v, make_logical_shuffle_256_byte_control(e, FALSE, v, sel))
      cross == pshufb(16, swapped, make_logical_shuffle_256_byte_control(e, TRUE, v, sel))
  IN  CASE \A k \in DOMAIN v : ~crosses(e, k, sel) -> local
        [] \A k \in DOMAIN v : crosses(e, k, sel)  -> cross
        [] OTHER -> or(8, local, cross)

shuffle_256(e, v, sel) ==
  CASE e \in {1, 2} -> shuffle_256_bytes(e, v, sel)
    [] e = 4 -> Bytewise(4, v, LAMBDA k : sel[k])
    [] e = 8 -> Bytewise(8, v, LAMBDA k :
                           Selector(encode_logical_shuffle_32_immediate(sel), k))

-------------------------------------------------------------------------------
\* Byte shifts of the complete register.

shift_bytes_left_128(v, c) ==
  IF c >= 16 THEN set1(v, 0) ELSE bslli(16, v, c)

shift_bytes_right_128(v, c) ==
  IF c >= 16 THEN set1(v, 0) ELSE bsrli(16, v, c)

\* The instructions shift within a half: the bytes that cross are aligned with the
\* half before, or after.
shift_bytes_left_256(v, c) ==
  LET previous == join(16, set1(lower(16, v), 0), lower(16, v))
  IN  CASE c = 0            -> v
        [] c >= 32          -> set1(v, 0)
        [] c \in 1 .. 15    -> alignr(16, v, previous, 16 - c)
        [] c \in 16 .. 31   -> bslli(16, previous, c - 16)

shift_bytes_right_256(v, c) ==
  LET next == join(16, upper(16, v), set1(upper(16, v), 0))
  IN  CASE c = 0            -> v
        [] c >= 32          -> set1(v, 0)
        [] c \in 1 .. 15    -> alignr(16, next, v, c)
        [] c \in 16 .. 31   -> bsrli(16, next, c - 16)

-------------------------------------------------------------------------------
\* A lane chosen at run time.

insert_slow(e, v, u, index) ==
  LET lane_indices == [k \in DOMAIN v |-> k \div e]
  IN  blendv(8, v, u, cmpeq(8, lane_indices, set1(v, index)))

\* The bytes of the lane.  256 bits: the double word that holds the lane comes to
\* the front, and the lane is shifted down in it; a 64-bit lane is two of them.
extract_slow_128(e, v, index) == [j \in First(e) |-> v[e * index + j]]

extract_slow_256(e, v, index) ==
  LET dwords(index_of(_)) == [j \in First(8) |-> v[4 * (index_of(j \div 4) % 8) + (j % 4)]]
      perDword == 4 \div e
  IN  IF e = 8 THEN dwords(LAMBDA d : 2 * index + d)
      ELSE LET selected == dwords(LAMBDA d : index \div perDword)
           IN  [j \in First(e) |-> selected[e * (index % perDword) + j]]

\* The control meets selector 1 << k in lane k, in lane k % 8 of sixteen.
blend_slow(e, v, u, control) ==
  LET selector(k) == 2 ^ ((k \div e) % 8)
      selected == [k \in DOMAIN v |-> Truth(8, Bin(8, control) \cap Bin(8, selector(k)) = Bin(8, selector(k)))]
  IN  blendv(8, v, u, selected)

unpack(e, v, u, first) ==
  LET half == 16 \div e
      lane(k) == half * (k \div half) + first * (half \div 2) + ((k % half) \div 2)
  IN  [k \in DOMAIN v |->
         LET from == e * lane(k \div e) + (k % e)
         IN  IF (k \div e) % 2 = 0 THEN v[from] ELSE u[from]]

-------------------------------------------------------------------------------
\* One bit per lane: the top bits of the lanes are gathered at the bottom of each
\* half, and the halves' bits are put together.

get_msb_swizzle_order(e, v) ==
  [k \in DOMAIN v |-> IF k % 16 < 16 \div e THEN e * (k % 16) + (e - 1) ELSE 128]

swizzle_msb(e, v) == pshufb(16, v, get_msb_swizzle_order(e, v))

movemask_slim_128(e, v) ==
  IF e = 2 THEN movemask(8, swizzle_msb(e, v))
  ELSE {k \in First(16 \div e) : v[e * k + e - 1] >= 128}

\* 16-bit lanes: bits 0 to 7 and 16 to 23 of the byte mask.
movemask_slim_256(e, v) ==
  LET raw == movemask(8, swizzle_msb(e, v))
  IN  IF e = 2 THEN (raw \cap (0 .. 7)) \cup ({k - 8 : k \in raw} \cap (8 .. 15))
      ELSE {k \in First(32 \div e) : v[e * k + e - 1] >= 128}
===============================================================================
