------------------------- MODULE MCPackedTransform -------------------------
(***************************************************************************)
(* Instances of transform_pack scaled down by eight: a byte is one bit, so *)
(* write_t has 1, 2, 4 or 8 bits, a native word 4 or 8 (the 32-bit and the *)
(* 64-bit targets), the accumulator 8.  A register has 2 or 4 lanes.       *)
(***************************************************************************)
EXTENDS PackedTransform

MaxCount == 9

\* select_unsigned_integer_t: the narrowest unsigned type that holds n bits.
UnitFor(n) == IF n <= 1 THEN 1 ELSE IF n <= 2 THEN 2 ELSE IF n <= 4 THEN 4 ELSE 8

MCShapes ==
  {[acc |-> 8, word |-> w, unit |-> UnitFor(r), digits |-> d, bits |-> r,
    lanes |-> l, count |-> c] :
     w \in {4, 8}, r \in 1 .. 4, d \in {2, 4, 8}, l \in {2, 4}, c \in 0 .. MaxCount}

ScaledShapes == {s \in MCShapes : RegisterBits(s) <= s.digits}
=============================================================================
