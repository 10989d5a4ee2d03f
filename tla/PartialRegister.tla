--------------------------- MODULE PartialRegister ---------------------------
(***************************************************************************)
(* PartialRegister and PartialRegisterMask (include/SimdLib): a physical   *)
(* SIMD register of which only a prefix of the lanes is active.  The class *)
(* stores nothing but the native register; every operation runs on all the *)
(* physical lanes, and the observers read all of them.  What makes that    *)
(* correct is the representation invariant that every inactive lane is     *)
(* all zero bits: some operations keep it by themselves, the others mask   *)
(* their result (normalize_native).                                        *)
(*                                                                         *)
(* A register is the set of its bits that are one.  A byte is scaled down  *)
(* to one bit: a shift by whole bytes and a shift by bits of the complete  *)
(* register are the same operation here.                                   *)
(***************************************************************************)
EXTENDS Integers

CONSTANTS
  Registers,   (* The PartialRegister objects of a computation.            *)
  Shapes,      (* Instances of the template: see ValidShape.               *)
  LaneOp(_, _, _, _)  (* LaneOp(width, n, x, y): what operation n computes *)
                      (* from the lanes x and y.                           *)

(***************************************************************************)
(*   groups       128-bit groups of the register: 1 or 2                   *)
(*   group_lanes  lanes of one group (element_count of the 128-bit Api)    *)
(*   width        bits of a lane                                           *)
(*   active       lane_count                                               *)
(*   signed       whether the element type is signed                       *)
(* and, to bound the inputs of a check: the selectors, the lane choices    *)
(* and the native registers that shuffle, blend and from_native are given. *)
(***************************************************************************)
NativeLanes(s) == s.groups * s.group_lanes
LaneBits(s) == 0 .. s.width - 1
NativeBits(s) == 0 .. NativeLanes(s) * s.width - 1
ActiveBits(s) == 0 .. s.active * s.width - 1
ActiveLanes(s) == 0 .. s.active - 1

\* PartialRegisterAvailable: a 256-bit register with every active lane in its
\* low group has no partial form.
ValidShape(s) ==
  /\ s.groups \in {1, 2}
  /\ s.group_lanes \in Nat /\ s.group_lanes >= 2 /\ s.group_lanes % 2 = 0
  /\ s.width \in Nat \ {0}
  /\ s.active \in 1 .. NativeLanes(s) - 1
  /\ s.signed \in BOOLEAN
  /\ s.groups = 2 => s.active > s.group_lanes
  /\ s.selectors \subseteq [ActiveLanes(s) -> ActiveLanes(s)]
  /\ s.half_selectors \subseteq
       [0 .. s.group_lanes \div 2 - 1 -> 0 .. s.group_lanes \div 2 - 1]
  /\ s.choices \subseteq SUBSET (0 .. NativeLanes(s) - 1)
  /\ s.natives \subseteq SUBSET NativeBits(s)

\* The operations the class does not normalise, because a lane whose operands
\* are zero gives zero: +, integer -, *, min, max, average, add_saturated,
\* subtract_saturated, and absolute and sqrt, which look at one operand only.
Preserving == {"add", "subtract", "multiply", "min", "max", "average",
               "add_saturated", "subtract_saturated", "absolute", "sqrt"}
\* The operations whose zero lanes may become nonzero (0 - 0 is -0 when rounding
\* down, -0 is the negation of 0), and those that need a nonzero divisor.
Disturbing == {"subtract_float", "negate"}
Dividing == {"divide", "modulus"}

ASSUME ShapesAssumption == \A s \in Shapes : ValidShape(s)

ASSUME LaneOpAssumption ==
  \A s \in Shapes :
    /\ \A n \in Preserving \cup Disturbing :
         \A x, y \in SUBSET LaneBits(s) : LaneOp(s.width, n, x, y) \in SUBSET LaneBits(s)
    /\ \A n \in Dividing :
         \A x \in SUBSET LaneBits(s), y \in (SUBSET LaneBits(s)) \ {{}} :
           LaneOp(s.width, n, x, y) \in SUBSET LaneBits(s)
    /\ \A n \in Preserving : LaneOp(s.width, n, {}, {}) = {}

VARIABLES
  shape,   (* the template instance; never changes                          *)
  reg,     (* the native register of every PartialRegister                  *)
  mask     (* the native register of a PartialRegisterMask                  *)

vars == <<shape, reg, mask>>

NL == NativeLanes(shape)
W == shape.width
GL == shape.group_lanes
Bits == NativeBits(shape)
AllLanes == 0 .. NL - 1

\* The bits of lane l of register r, and the register with the given lanes.
Lane(r, l) == {i \in LaneBits(shape) : l * W + i \in r}
FromLanes(f) == {b \in Bits : b % W \in f[b \div W]}
Ones == LaneBits(shape)

\* active_lane_filter and normalize_native.
Normalize(r) == r \cap ActiveBits(shape)

Init ==
  /\ shape \in Shapes
  /\ reg = [r \in Registers |-> {}]
  /\ mask = {}

Write(d, r) == reg' = [reg EXCEPT ![d] = r] /\ UNCHANGED <<shape, mask>>

-----------------------------------------------------------------------------
(***************************************************************************)
(* Construction                                                            *)
(***************************************************************************)

\* from_native and from_register: any physical register comes in.
FromNative(d) == \E n \in shape.natives : Write(d, Normalize(n))

\* from_lanes, from_array, load, load_bytes and broadcast: the Api call zero-
\* fills the lanes behind the active ones.
LoadPartial(d) ==
  \E n \in shape.natives :
    Write(d, FromLanes([l \in AllLanes |-> IF l < shape.active THEN Lane(n, l) ELSE {}]))

WithLane(d, l, v) ==
  Write(d, FromLanes([k \in AllLanes |-> IF k = l THEN v ELSE Lane(reg[d], k)]))

-----------------------------------------------------------------------------
(***************************************************************************)
(* Arithmetic                                                              *)
(***************************************************************************)
Lanewise(n, x, y) == FromLanes([l \in AllLanes |-> LaneOp(W, n, Lane(x, l), Lane(y, l))])

\* +, integer -, *, min, max, average, the saturated forms, absolute and sqrt.
Arithmetic(d, a, b) == \E n \in Preserving : Write(d, Lanewise(n, reg[a], reg[b]))

MultiplyAdd(d, a, b) ==
  Write(d, Lanewise("add", Lanewise("multiply", reg[a], reg[b]), reg[d]))

\* Floating-point - and unary -.
FloatArithmetic(d, a, b) ==
  \E n \in Disturbing : Write(d, Normalize(Lanewise(n, reg[a], reg[b])))

\* Mutant: the identity leaves the last physical lane out.
DivisorsButLastLane(r) == r \cup {l * W : l \in shape.active .. NL - 2}

\* The inactive divisor lanes become one (inactive_divisor_identity).
Divisors(r) == r \cup {l * W : l \in shape.active .. NL - 1}

\* validate_active_divisors.
ActiveDivisorsNonZero(r) == \A l \in ActiveLanes(shape) : Lane(r, l) # {}

Divide(d, a, b) ==
  /\ ActiveDivisorsNonZero(reg[b])
  /\ \E n \in Dividing : Write(d, Normalize(Lanewise(n, reg[a], Divisors(reg[b]))))

\* horizontal_add, horizontal_subtract and their saturated forms: in every group
\* the low half comes from the pairs of one operand, the high half of the other.
Pairwise(n, x, y) ==
  FromLanes([l \in AllLanes |->
    LET p == l % GL
        h == GL \div 2
        src == IF p < h THEN x ELSE y
        k == (l - p) + 2 * (IF p < h THEN p ELSE p - h)
    IN  LaneOp(W, n, Lane(src, k), Lane(src, k + 1))])

Horizontal(d, a, b) ==
  \E n \in {"add", "subtract", "add_saturated", "subtract_saturated"} :
    Write(d, Normalize(Pairwise(n, reg[a], reg[b])))

\* add_subtract: even lanes subtract, odd lanes add.
AddSubtract(d, a, b) ==
  Write(d, Normalize(FromLanes([l \in AllLanes |->
    LaneOp(W, IF l % 2 = 0 THEN "subtract_float" ELSE "add", Lane(reg[a], l), Lane(reg[b], l))])))

\* magnitude and normalize: every lane of a group depends on the whole group.
GroupReduction(d) ==
  \E f \in [0 .. shape.groups - 1 -> SUBSET Ones] :
    Write(d, Normalize(FromLanes([l \in AllLanes |-> f[l \div GL]])))

\* Mutant: only the first group's inactive outputs are looked at.
FirstGroupOutputsAreActive(outs) ==
  \A l \in shape.active .. NL - 1 : l < GL => l \notin outs

\* dot_product_outputs_are_active: the immediate names the output lanes of every
\* group, and a call whose immediate names an inactive lane does not compile.
DotProductOutputsAreActive(outs) ==
  \A l \in shape.active .. NL - 1 : l % GL \notin outs

DotProduct(d) ==
  \E outs \in SUBSET (0 .. GL - 1), f \in [0 .. shape.groups - 1 -> SUBSET Ones] :
    /\ DotProductOutputsAreActive(outs)
    /\ Write(d, FromLanes([l \in AllLanes |-> IF l % GL \in outs THEN f[l \div GL] ELSE {}]))

-----------------------------------------------------------------------------
(***************************************************************************)
(* Bitwise operations and shifts                                           *)
(***************************************************************************)
BitwiseOp(d, a, b) ==
  \/ Write(d, reg[a] \cap reg[b])
  \/ Write(d, reg[a] \cup reg[b])
  \/ Write(d, (reg[a] \ reg[b]) \cup (reg[b] \ reg[a]))
  \/ Write(d, (Bits \ reg[a]) \cap reg[b])              \* andnot

Invert(d, a) == Write(d, Normalize(Bits \ reg[a]))

\* <<, logical_shift_right and >>, lane by lane.
ShiftLanes(d, a, k) ==
  \/ Write(d, FromLanes([l \in AllLanes |-> {i \in Ones : i - k \in Lane(reg[a], l)}]))
  \/ Write(d, FromLanes([l \in AllLanes |-> {i \in Ones : i + k \in Lane(reg[a], l)}]))
  \/ Write(d, FromLanes([l \in AllLanes |->
       {i \in Ones : (IF i + k < W THEN i + k ELSE W - 1) \in Lane(reg[a], l)}]))

\* Mutant: the bits that leave the register are kept.
ShiftRegisterLeftUntruncated(d, a, k) == Write(d, {b + k : b \in reg[a]})

\* shift_bytes_left and shift_bits_left, and their _slow forms: the complete
\* register moves, over lane and group boundaries.
ShiftRegisterLeft(d, a, k) == Write(d, Normalize({b \in Bits : b - k \in reg[a]}))

\* shift_bytes_right and shift_bits_right: only zeros come in.
ShiftRegisterRight(d, a, k) == Write(d, {b \in Bits : b + k \in reg[a]})

-----------------------------------------------------------------------------
(***************************************************************************)
(* Rearrangement                                                           *)
(***************************************************************************)
Interleaved(offset, x, y) ==
  FromLanes([l \in AllLanes |->
    LET p == l % GL IN Lane(IF p % 2 = 0 THEN x ELSE y, (l - p) + offset + p \div 2)])

UnpackLow(d, a, b) == Write(d, Normalize(Interleaved(0, reg[a], reg[b])))

\* Not normalised: a group of m active lanes has m - h of them in its high half,
\* and their interleaving is no longer than m.
UnpackHigh(d, a, b) == Write(d, Interleaved(GL \div 2, reg[a], reg[b]))

\* shuffle and shuffle_bytes: partial_shuffle_native gives every inactive output
\* lane the selector active_count, the first inactive lane.
Shuffle(d, a) ==
  \E sel \in shape.selectors :
    Write(d, FromLanes([l \in AllLanes |->
      Lane(reg[a], IF l < shape.active THEN sel[l] ELSE shape.active)]))

\* shuffle_low (offset 0) and shuffle_high (offset h): one half of every group.
HalfShuffled(offset, sel, x) ==
  FromLanes([l \in AllLanes |->
    LET p == l % GL IN
    Lane(x, IF p - offset \in 0 .. GL \div 2 - 1
            THEN (l - p) + offset + sel[p - offset] ELSE l)])

ShuffleHalf(d, a) ==
  \E offset \in {0, GL \div 2}, sel \in shape.half_selectors :
    Write(d, Normalize(HalfShuffled(offset, sel, reg[a])))

Blend(d, a, b) ==
  \E right \in shape.choices :
    Write(d, FromLanes([l \in AllLanes |-> Lane(IF l \in right THEN reg[b] ELSE reg[a], l)]))

-----------------------------------------------------------------------------
(***************************************************************************)
(* Comparison and masks                                                    *)
(***************************************************************************)

\* The unsigned lane of the same rank: the sign bit of a signed lane inverted.
Rank(x) == IF shape.signed THEN (x \ {W - 1}) \cup ({W - 1} \ x) ELSE x

\* Integer lanes: the highest bit in which the ranks differ decides.
Less(x, y) == \E i \in Rank(y) \ Rank(x) : \A j \in Rank(x) \ Rank(y) : j < i

Relations == {"equal", "greater", "greater_equal", "less", "less_equal"}
Holds(rel, x, y) ==
  \/ rel = "equal" /\ x = y
  \/ rel = "greater" /\ Less(y, x)
  \/ rel = "greater_equal" /\ ~Less(x, y)
  \/ rel = "less" /\ Less(x, y)
  \/ rel = "less_equal" /\ ~Less(y, x)

\* What the Api comparison returns: all ones in every physical lane that holds,
\* the inactive ones, whose zeros are equal, included.
Compared(rel, x, y) ==
  FromLanes([l \in AllLanes |-> IF Holds(rel, Lane(x, l), Lane(y, l)) THEN Ones ELSE {}])

Compare(a, b) ==
  \E rel \in Relations :
    /\ mask' = Normalize(Compared(rel, reg[a], reg[b]))
    /\ UNCHANGED <<shape, reg>>

\* PartialRegisterMask::from_native: a predicate with canonical active lanes and
\* anything behind them.
ImportMask ==
  \E n \in shape.natives :
    /\ \A l \in ActiveLanes(shape) : Lane(n, l) \in {{}, Ones}
    /\ mask' = Normalize(n)
    /\ UNCHANGED <<shape, reg>>

\* &, | and ^ of the mask with one that a comparison has just produced.
CombineMask(a, b) ==
  \E rel \in Relations :
    LET other == Normalize(Compared(rel, reg[a], reg[b])) IN
    /\ \/ mask' = mask \cap other
       \/ mask' = mask \cup other
       \/ mask' = (mask \ other) \cup (other \ mask)
    /\ UNCHANGED <<shape, reg>>

\* Mutant: ~ inverts the physical register.
MaskInvertPhysical == mask' = Bits \ mask /\ UNCHANGED <<shape, reg>>

\* ~: an exclusive or with the active lane filter.
MaskInvert ==
  /\ mask' = (mask \ ActiveBits(shape)) \cup (ActiveBits(shape) \ mask)
  /\ UNCHANGED <<shape, reg>>

Select(d, a, b) == Write(d, (mask \cap reg[a]) \cup ((Bits \ mask) \cap reg[b]))

Next ==
  \/ \E d \in Registers :
       \/ FromNative(d)
       \/ LoadPartial(d)
       \/ \E l \in ActiveLanes(shape), v \in SUBSET Ones : WithLane(d, l, v)
       \/ GroupReduction(d)
       \/ DotProduct(d)
  \/ \E d, a \in Registers :
       \/ Invert(d, a)
       \/ Shuffle(d, a)
       \/ ShuffleHalf(d, a)
       \/ \E k \in 0 .. W : ShiftLanes(d, a, k)
       \/ \E k \in 0 .. NL * W : ShiftRegisterLeft(d, a, k) \/ ShiftRegisterRight(d, a, k)
  \/ \E d, a, b \in Registers :
       \/ Arithmetic(d, a, b)
       \/ MultiplyAdd(d, a, b)
       \/ FloatArithmetic(d, a, b)
       \/ Divide(d, a, b)
       \/ Horizontal(d, a, b)
       \/ AddSubtract(d, a, b)
       \/ BitwiseOp(d, a, b)
       \/ UnpackLow(d, a, b)
       \/ UnpackHigh(d, a, b)
       \/ Blend(d, a, b)
       \/ Select(d, a, b)
  \/ \E a, b \in Registers : Compare(a, b) \/ CombineMask(a, b)
  \/ ImportMask
  \/ MaskInvert

Spec == Init /\ [][Next]_vars

-----------------------------------------------------------------------------
(***************************************************************************)
(* Observers: what the class computes from the physical register           *)
(***************************************************************************)

\* movemask_slim: the sign bit of every physical lane.
SignBits(r) == {l \in AllLanes : W - 1 \in Lane(r, l)}
ActiveMaskBits == ActiveLanes(shape)

\* PartialRegisterMask::any and none test the whole register, all compares the
\* packed bits with active_bits or, for 16-bit lanes, tests against the filter.
MaskAny(m) == m # {}
MaskAllBits(m) == SignBits(m) = ActiveMaskBits
MaskAllTest(m) == ActiveBits(shape) \subseteq m

\* operator==: compare_equal(...).all().
Equal(x, y) == MaskAllBits(Normalize(Compared("equal", x, y)))

FirstMinimum(r) ==
  CHOOSE l \in AllLanes :
    /\ \A k \in AllLanes : ~Less(Lane(r, k), Lane(r, l))
    /\ \A k \in AllLanes : k < l => Less(Lane(r, l), Lane(r, k))
FirstMaximum(r) ==
  CHOOSE l \in AllLanes :
    /\ \A k \in AllLanes : ~Less(Lane(r, l), Lane(r, k))
    /\ \A k \in AllLanes : k < l => Less(Lane(r, k), Lane(r, l))

\* inactive_min_position_identity and inactive_max_position_identity.
InactiveLanesAre(x) == {b \in Bits : b \div W >= shape.active /\ b % W \in x}

\* min_position and max_position: the inactive lanes are set to the largest,
\* or the smallest, value of the element type before the search.
MinPosition(r) == FirstMinimum(r \cup InactiveLanesAre(Rank(Ones)))

\* Mutant: the zeros behind the active lanes take part in the search.
MaxPositionOfPhysical(r) == FirstMaximum(r)

MaxPosition(r) == FirstMaximum(r \cup InactiveLanesAre(Rank({})))

(***************************************************************************)
(* Results of another lane or register width, and the lane counts their    *)
(* types declare.                                                          *)
(***************************************************************************)

\* widen_low: the low lanes that fill a register of lanes k times as wide.
WidenedLanes(k) == IF shape.active < NL \div k THEN shape.active ELSE NL \div k
WidenLow(r, k) ==
  {b \in Bits : b % (k * W) < W /\ ((b \div (k * W)) * W) + (b % (k * W)) \in r}

\* lower_half: the low group of a register of two.
LowerHalfLanes == IF shape.active < GL THEN shape.active ELSE GL

\* bit_cast: the same bits as lanes of t bits, when the active ones make whole lanes.
BitCastLanes(t) == (shape.active * W) \div t

\* convert: one lane of the target type for each, zero for zero.
ConvertedNonZero(r) == {l \in AllLanes : Lane(r, l) # {}}

\* Mutant: the result type counts complete groups of lanes only.
CompleteGroupsOnly(k) == shape.active \div k

\* multiply_add_adjacent, multiply_add_unsigned_signed_bytes (k = 2) and
\* sum_absolute_byte_differences: k lanes make one result lane.
CombinedLanes(k) == (shape.active + k - 1) \div k
CombinedNonZero(r, k) ==
  {p \in 0 .. (NL \div k) - 1 : \E i \in 0 .. k - 1 : Lane(r, k * p + i) # {}}

\* magnitude_checked: every group's magnitude, and its overflow in the lane above.
CheckedMagnitudeLanes == ((shape.active - 1) \div GL) * GL + 2
CheckedMagnitudeNonZero(r) ==
  {l \in AllLanes : l % GL < 2 /\ \E k \in AllLanes : k \div GL = l \div GL /\ Lane(r, k) # {}}

-----------------------------------------------------------------------------
(***************************************************************************)
(* Correctness                                                             *)
(***************************************************************************)

\* The registers and the mask are physical registers of the instance.
TypeOK ==
  /\ shape \in Shapes
  /\ reg \in [Registers -> SUBSET Bits]
  /\ mask \in SUBSET Bits

\* The representation invariant (docs/RegisterContract.md, PartialRegister.h):
\* after any sequence of operations every inactive lane is all zero bits, though
\* most operations never mask their result.
ZeroSuffix ==
  /\ \A r \in Registers : reg[r] \subseteq ActiveBits(shape)
  /\ mask \subseteq ActiveBits(shape)

\* A mask stays canonical, every active lane all zeros or all ones, so that the
\* two ways to compute all() and the lane bits agree.
CanonicalMask ==
  /\ \A l \in AllLanes : Lane(mask, l) \in {{}, Ones}
  /\ MaskAllBits(mask) <=> MaskAllTest(mask)
  /\ MaskAny(mask) <=> \E l \in ActiveLanes(shape) : Lane(mask, l) = Ones

\* Every observer answers as if the inactive lanes did not exist: equality,
\* the lane sign bits, and the first minimum and maximum among active lanes.
ObserversSeeActiveLanes ==
  \A a \in Registers :
    LET x(l) == Lane(reg[a], l) IN
    /\ SignBits(reg[a]) \subseteq ActiveLanes(shape)
    /\ \A b \in Registers :
         Equal(reg[a], reg[b]) <=> \A l \in ActiveLanes(shape) : x(l) = Lane(reg[b], l)
    /\ LET m == MinPosition(reg[a]) IN
         /\ m \in ActiveLanes(shape)
         /\ \A l \in ActiveLanes(shape) : ~Less(x(l), x(m)) /\ (l < m => Less(x(m), x(l)))
    /\ LET m == MaxPosition(reg[a]) IN
         /\ m \in ActiveLanes(shape)
         /\ \A l \in ActiveLanes(shape) : ~Less(x(m), x(l)) /\ (l < m => Less(x(l), x(m)))

\* A division whose active divisors are nonzero never gives the hardware, or
\* the scalar loop that emulates it, a zero divisor in any physical lane.
NoZeroDivisor ==
  \A a \in Registers :
    ActiveDivisorsNonZero(reg[a]) => \A l \in AllLanes : Lane(Divisors(reg[a]), l) # {}

\* A result of another lane width loses nothing when it is normalised to its
\* type, and one that is not normalised has nothing behind its type's lanes; a low
\* half is complete.
ResultsFitTheirType ==
  /\ shape.groups = 2 => LowerHalfLanes = GL
  /\ \A t \in 1 .. NL * W : (shape.active * W) % t = 0 =>
       \A a \in Registers : reg[a] \subseteq 0 .. (BitCastLanes(t) * t) - 1
  /\ \A a \in Registers :
       /\ ConvertedNonZero(reg[a]) \subseteq ActiveLanes(shape)
       /\ \A k \in {2, NL} : WidenLow(reg[a], k) \subseteq 0 .. (WidenedLanes(k) * k * W) - 1
       /\ \A k \in {2, NL} : CombinedNonZero(reg[a], k) \subseteq 0 .. CombinedLanes(k) - 1
       /\ CheckedMagnitudeNonZero(reg[a]) \subseteq 0 .. CheckedMagnitudeLanes - 1
=============================================================================
