------------------------ MODULE PartialRegisterProofs ------------------------
(***************************************************************************)
(* The inactive lanes of every PartialRegister stay all zero bits, for     *)
(* every element width, register width, active prefix and whatever the     *)
(* lane operations compute.                                                *)
(*                                                                         *)
(* The invariant is inductive as it stands.  Every operation writes one    *)
(* register, or the mask, so a step keeps it if the bits it writes are     *)
(* active ones.  Normalised results are by definition; the others are      *)
(* built lane by lane, and an inactive result lane only ever looks at      *)
(* inactive, and hence zero, operand lanes.  For masks it is strengthened  *)
(* by their canonical form.                                                *)
(*                                                                         *)
(* What the observers answer follows from the invariant: the operands of   *)
(* a search have the extreme value in every inactive lane, and the order   *)
(* of lanes, by the highest bit in which their ranks differ, is a strict   *)
(* weak order, so that a first minimum exists, and it is an active lane.   *)
(***************************************************************************)
EXTENDS PartialRegister, FiniteSetTheorems, TLAPS

\* What the arithmetic below needs of a template instance.
LEMMA ShapeFacts ==
  ASSUME shape \in Shapes
  PROVE  /\ W \in Nat \ {0} /\ GL \in Nat \ {0} /\ NL \in Nat
         /\ shape.active \in 1 .. NL - 1
         /\ GL % 2 = 0 /\ GL \div 2 \in Nat /\ GL = 2 * (GL \div 2)
<1>1. ValidShape(shape)
  BY ShapesAssumption
<1>2. NL \in Nat
  BY <1>1 DEF ValidShape, NL, NativeLanes
<1>3. GL % 2 = 0 => GL = 2 * (GL \div 2)
  BY <1>1 DEF ValidShape, GL
<1> QED BY <1>1, <1>2, <1>3 DEF ValidShape, W, GL, NL

\* Bit b is in lane b \div w, at place b % w.
LEMMA BitOfLane ==
  ASSUME NEW w \in Nat \ {0}, NEW b \in Nat
  PROVE  /\ b \div w \in Nat
         /\ b % w \in 0 .. w - 1
         /\ b = (b \div w) * w + (b % w)
OBVIOUS

\* A lane behind the first k starts behind the first k * w bits.
LEMMA LaneStart ==
  ASSUME NEW w \in Nat, NEW k \in Nat, NEW l \in Nat, k <= l
  PROVE  k * w \in Nat /\ l * w \in Nat /\ k * w <= l * w
<1>1. l * w = k * w + (l - k) * w
  OBVIOUS
<1>2. (l - k) * w \in Nat /\ k * w \in Nat
  OBVIOUS
<1> QED BY <1>1, <1>2

\* A bit is in one of the first k lanes if it is one of the first k * w bits.
LEMMA BitOfFirstLanes ==
  ASSUME NEW w \in Nat \ {0}, NEW b \in Nat, NEW k \in Nat
  PROVE  k * w \in Nat /\ (b < k * w <=> b \div w < k)
<1>1. PICK q \in Nat, i \in 0 .. w - 1 : q = b \div w /\ b = q * w + i
  BY BitOfLane
<1>2. k * w \in Nat /\ q * w \in Nat
  BY LaneStart
<1>3. CASE q < k
  <2>1. (q + 1) * w <= k * w /\ (q + 1) * w = q * w + w
    BY <1>3, LaneStart
  <2> QED BY <1>1, <1>2, <1>3, <2>1
<1>4. CASE k <= q
  <2>1. k * w <= q * w
    BY <1>4, LaneStart
  <2> QED BY <1>1, <1>2, <1>4, <2>1
<1> QED BY <1>3, <1>4

\* The active prefix lies within the physical register.
LEMMA ActiveBitsAreBits ==
  ASSUME shape \in Shapes
  PROVE  ActiveBits(shape) \subseteq Bits
<1>1. shape.active * W <= NL * W /\ shape.active * W \in Nat /\ NL * W \in Nat
  BY ShapeFacts, LaneStart
<1> QED BY <1>1 DEF ActiveBits, Bits, NativeBits, NL, W

\* An inactive lane of a register with a zero suffix is zero.
LEMMA InactiveLaneIsZero ==
  ASSUME shape \in Shapes, NEW r, r \subseteq ActiveBits(shape), NEW l \in Nat, shape.active <= l
  PROVE  Lane(r, l) = {}
<1>1. shape.active * W <= l * W /\ shape.active * W \in Nat /\ l * W \in Nat
  BY ShapeFacts, LaneStart
<1> QED BY <1>1, ShapeFacts DEF Lane, ActiveBits, LaneBits, W

\* A register built from lanes of which the inactive ones are zero has a zero suffix.
LEMMA ZeroLanesAreZeroSuffix ==
  ASSUME shape \in Shapes, NEW f, \A l \in AllLanes : shape.active <= l => f[l] = {}
  PROVE  FromLanes(f) \subseteq ActiveBits(shape)
<1> SUFFICES ASSUME NEW b \in Bits, b % W \in f[b \div W] PROVE b \in ActiveBits(shape)
  BY DEF FromLanes
<1>1. b \in Nat /\ b < NL * W
  BY ShapeFacts DEF Bits, NativeBits, NL, W
<1>2. b \div W \in Nat /\ b \div W < NL
  BY <1>1, BitOfLane, BitOfFirstLanes, ShapeFacts
<1>3. b \div W < shape.active
  BY <1>2, ShapeFacts DEF AllLanes
<1>4. b < shape.active * W /\ shape.active * W \in Nat
  BY <1>1, <1>3, BitOfFirstLanes, ShapeFacts
<1> QED BY <1>1, <1>4 DEF ActiveBits, W

-----------------------------------------------------------------------------
(***************************************************************************)
(* One step                                                                *)
(***************************************************************************)
\* The inductive invariant.
IInv == TypeOK /\ ZeroSuffix

\* A step that writes only active bits to a register keeps the invariant.
LEMMA WriteKeeps ==
  ASSUME IInv, NEW d \in Registers, NEW r, r \subseteq ActiveBits(shape), Write(d, r)
  PROVE  IInv'
<1>1. r \subseteq Bits
  BY ActiveBitsAreBits DEF IInv, TypeOK
<1>2. /\ shape' = shape /\ mask' = mask
      /\ reg' \in [Registers -> SUBSET Bits]
      /\ \A e \in Registers : reg'[e] \subseteq ActiveBits(shape)
  BY <1>1 DEF IInv, TypeOK, ZeroSuffix, Write
<1> QED BY <1>2 DEF IInv, TypeOK, ZeroSuffix, Bits

\* So does one that writes only active bits to the mask.
LEMMA MaskWriteKeeps ==
  ASSUME IInv, mask' \subseteq ActiveBits(shape), UNCHANGED <<shape, reg>>
  PROVE  IInv'
<1>1. mask' \subseteq Bits
  BY ActiveBitsAreBits DEF IInv, TypeOK
<1> QED BY <1>1 DEF IInv, TypeOK, ZeroSuffix, Bits

\* What normalize_native returns, whatever it is given.
LEMMA NormalizeClears ==
  ASSUME NEW r
  PROVE  Normalize(r) \subseteq ActiveBits(shape)
BY DEF Normalize

\* A lane-wise operation that maps zero lanes to a zero lane needs no masking.
LEMMA LanewisePreserves ==
  ASSUME shape \in Shapes, NEW n \in Preserving,
         NEW x, x \subseteq ActiveBits(shape), NEW y, y \subseteq ActiveBits(shape)
  PROVE  Lanewise(n, x, y) \subseteq ActiveBits(shape)
<1> DEFINE f == [l \in AllLanes |-> LaneOp(W, n, Lane(x, l), Lane(y, l))]
<1>1. LaneOp(W, n, {}, {}) = {}
  BY LaneOpAssumption DEF W
<1>2. ASSUME NEW l \in AllLanes, shape.active <= l PROVE f[l] = {}
  <2>1. Lane(x, l) = {} /\ Lane(y, l) = {}
    BY <1>2, InactiveLaneIsZero, ShapeFacts DEF AllLanes
  <2> QED BY <1>1, <2>1
<1> HIDE DEF f
<1>3. FromLanes(f) \subseteq ActiveBits(shape)
  BY <1>2, ZeroLanesAreZeroSuffix
<1> QED BY <1>3 DEF Lanewise, f

\* from_native and the loads.
LEMMA ConstructionKeeps ==
  ASSUME IInv, NEW d \in Registers, FromNative(d) \/ LoadPartial(d)
  PROVE  IInv'
<1>1. CASE FromNative(d)
  BY <1>1, NormalizeClears, WriteKeeps DEF FromNative
<1>2. CASE LoadPartial(d)
  <2>1. PICK n \in shape.natives :
          Write(d, FromLanes([l \in AllLanes |-> IF l < shape.active THEN Lane(n, l) ELSE {}]))
    BY <1>2 DEF LoadPartial
  <2> DEFINE f == [l \in AllLanes |-> IF l < shape.active THEN Lane(n, l) ELSE {}]
  <2>2. \A l \in AllLanes : shape.active <= l => f[l] = {}
    BY ShapeFacts DEF IInv, TypeOK, AllLanes
  <2> HIDE DEF f
  <2>3. FromLanes(f) \subseteq ActiveBits(shape)
    BY <2>2, ZeroLanesAreZeroSuffix DEF IInv, TypeOK
  <2> QED BY <2>1, <2>3, WriteKeeps DEF f
<1> QED BY <1>1, <1>2

\* with_lane.
LEMMA WithLaneKeeps ==
  ASSUME IInv, NEW d \in Registers, NEW i \in ActiveLanes(shape), NEW v \in SUBSET Ones,
         WithLane(d, i, v)
  PROVE  IInv'
<1> DEFINE f == [k \in AllLanes |-> IF k = i THEN v ELSE Lane(reg[d], k)]
<1>1. ASSUME NEW k \in AllLanes, shape.active <= k PROVE f[k] = {}
  BY <1>1, InactiveLaneIsZero, ShapeFacts DEF IInv, TypeOK, ZeroSuffix, AllLanes, ActiveLanes
<1> HIDE DEF f
<1>2. FromLanes(f) \subseteq ActiveBits(shape)
  BY <1>1, ZeroLanesAreZeroSuffix DEF IInv, TypeOK
<1> QED BY <1>2, WriteKeeps DEF WithLane, f

\* The arithmetic that is not normalised: inactive lanes compute from zeros only.
LEMMA ArithmeticKeeps ==
  ASSUME IInv, NEW d \in Registers, NEW a \in Registers, NEW b \in Registers,
         Arithmetic(d, a, b) \/ MultiplyAdd(d, a, b)
  PROVE  IInv'
<1>1. /\ shape \in Shapes
      /\ \A e \in Registers : reg[e] \subseteq ActiveBits(shape)
  BY DEF IInv, TypeOK, ZeroSuffix
<1>2. CASE Arithmetic(d, a, b)
  BY <1>1, <1>2, LanewisePreserves, WriteKeeps DEF Arithmetic
<1>3. CASE MultiplyAdd(d, a, b)
  <2>1. Lanewise("multiply", reg[a], reg[b]) \subseteq ActiveBits(shape)
    BY <1>1, LanewisePreserves DEF Preserving
  <2>2. Lanewise("add", Lanewise("multiply", reg[a], reg[b]), reg[d]) \subseteq ActiveBits(shape)
    BY <1>1, <2>1, LanewisePreserves DEF Preserving
  <2> QED BY <1>3, <2>2, WriteKeeps DEF MultiplyAdd
<1> QED BY <1>2, <1>3

\* The operations that mask their result.
LEMMA NormalizedKeeps ==
  ASSUME IInv, NEW d \in Registers, NEW a \in Registers, NEW b \in Registers,
         \/ FloatArithmetic(d, a, b) \/ Divide(d, a, b) \/ Horizontal(d, a, b)
         \/ AddSubtract(d, a, b) \/ GroupReduction(d) \/ Invert(d, a)
         \/ UnpackLow(d, a, b) \/ ShuffleHalf(d, a)
         \/ \E k \in 0 .. NL * W : ShiftRegisterLeft(d, a, k)
  PROVE  IInv'
<1>1. \E r : Write(d, Normalize(r))
  BY DEF FloatArithmetic, Divide, Horizontal, AddSubtract, GroupReduction, Invert, UnpackLow,
         ShuffleHalf, ShiftRegisterLeft
<1> QED BY <1>1, NormalizeClears, WriteKeeps

\* The bitwise operations, and select, combine equal places.
LEMMA BitwiseKeeps ==
  ASSUME IInv, NEW d \in Registers, NEW a \in Registers, NEW b \in Registers,
         BitwiseOp(d, a, b) \/ Select(d, a, b)
  PROVE  IInv'
<1>1. \E r : r \subseteq reg[a] \cup reg[b] /\ Write(d, r)
  BY DEF BitwiseOp, Select
<1> QED BY <1>1, WriteKeeps DEF IInv, ZeroSuffix

\* Lane shifts: a zero lane stays zero, its sign bit included.
LEMMA ShiftLanesKeeps ==
  ASSUME IInv, NEW d \in Registers, NEW a \in Registers, NEW k \in 0 .. W, ShiftLanes(d, a, k)
  PROVE  IInv'
<1>1. \A l \in AllLanes : shape.active <= l => Lane(reg[a], l) = {}
  BY InactiveLaneIsZero, ShapeFacts DEF IInv, TypeOK, ZeroSuffix, AllLanes
<1>2. PICK f : /\ \A l \in AllLanes : Lane(reg[a], l) = {} => f[l] = {}
               /\ Write(d, FromLanes(f))
  <2> DEFINE left == [l \in AllLanes |-> {i \in Ones : i - k \in Lane(reg[a], l)}]
             logical == [l \in AllLanes |-> {i \in Ones : i + k \in Lane(reg[a], l)}]
             arithmetic == [l \in AllLanes |->
               {i \in Ones : (IF i + k < W THEN i + k ELSE W - 1) \in Lane(reg[a], l)}]
  <2>1. CASE Write(d, FromLanes(left))
    BY <2>1
  <2>2. CASE Write(d, FromLanes(logical))
    BY <2>2
  <2>3. CASE Write(d, FromLanes(arithmetic))
    BY <2>3
  <2> QED BY <2>1, <2>2, <2>3 DEF ShiftLanes
<1>3. FromLanes(f) \subseteq ActiveBits(shape)
  BY <1>1, <1>2, ZeroLanesAreZeroSuffix DEF IInv, TypeOK
<1> QED BY <1>2, <1>3, WriteKeeps

\* Shifts of the complete register to the right bring no bit closer to the end.
LEMMA ShiftRightKeeps ==
  ASSUME IInv, NEW d \in Registers, NEW a \in Registers, NEW k \in Nat,
         ShiftRegisterRight(d, a, k)
  PROVE  IInv'
<1>1. /\ shape.active * W \in Nat
      /\ NL * W \in Nat
  BY ShapeFacts, LaneStart DEF IInv, TypeOK
<1>2. {b \in Bits : b + k \in reg[a]} \subseteq ActiveBits(shape)
  BY <1>1 DEF IInv, ZeroSuffix, ActiveBits, Bits, NativeBits, NL, W
<1> QED BY <1>2, WriteKeeps DEF ShiftRegisterRight

\* unpack_high: lane l of the result comes from lane l or one behind it.
LEMMA UnpackHighKeeps ==
  ASSUME IInv, NEW d \in Registers, NEW a \in Registers, NEW b \in Registers,
         UnpackHigh(d, a, b)
  PROVE  IInv'
<1> DEFINE from(l) == (l - (l % GL)) + GL \div 2 + (l % GL) \div 2
           f == [l \in AllLanes |->
                  LET p == l % GL IN
                  Lane(IF p % 2 = 0 THEN reg[a] ELSE reg[b], (l - p) + GL \div 2 + p \div 2)]
<1>1. ASSUME NEW l \in AllLanes, shape.active <= l
      PROVE  from(l) \in Nat /\ shape.active <= from(l)
  <2>1. PICK h \in Nat : GL = 2 * h /\ h = GL \div 2 /\ GL \in Nat \ {0}
    BY ShapeFacts DEF IInv, TypeOK
  <2>2. l \in Nat /\ shape.active \in Nat
    BY ShapeFacts DEF IInv, TypeOK, AllLanes
  <2>3. PICK p \in 0 .. GL - 1 : p = l % GL /\ l - p \in Nat
    BY <2>1, <2>2
  <2>4. h + p \div 2 >= p /\ p \div 2 \in Nat
    BY <2>1, <2>3
  <2>5. from(l) = (l - p) + h + p \div 2
    BY <2>1, <2>3
  <2> HIDE DEF from
  <2> QED BY <1>1, <2>1, <2>2, <2>3, <2>4, <2>5
<1>2. ASSUME NEW l \in AllLanes, shape.active <= l PROVE f[l] = {}
  <2>1. Lane(reg[a], from(l)) = {} /\ Lane(reg[b], from(l)) = {}
    BY <1>1, <1>2, InactiveLaneIsZero DEF IInv, TypeOK, ZeroSuffix
  <2>2. f[l] = Lane(reg[a], from(l)) \/ f[l] = Lane(reg[b], from(l))
    <3>1. CASE (l % GL) % 2 = 0
      BY <3>1
    <3>2. CASE (l % GL) % 2 # 0
      BY <3>2
    <3> QED BY <3>1, <3>2
  <2> QED BY <2>1, <2>2
<1> HIDE DEF f
<1>3. FromLanes(f) \subseteq ActiveBits(shape)
  BY <1>2, ZeroLanesAreZeroSuffix DEF IInv, TypeOK
<1> QED BY <1>3, WriteKeeps DEF UnpackHigh, Interleaved, f

\* shuffle takes inactive lanes from the first inactive one, blend from themselves.
LEMMA RearrangementKeeps ==
  ASSUME IInv, NEW d \in Registers, NEW a \in Registers, NEW b \in Registers,
         Shuffle(d, a) \/ Blend(d, a, b)
  PROVE  IInv'
<1>1. \A r \in Registers, l \in Nat : shape.active <= l => Lane(reg[r], l) = {}
  BY InactiveLaneIsZero DEF IInv, TypeOK, ZeroSuffix
<1>2. shape.active \in Nat /\ AllLanes \subseteq Nat
  BY ShapeFacts DEF IInv, TypeOK, AllLanes
<1>3. PICK f : /\ \A l \in AllLanes : shape.active <= l => f[l] = {}
               /\ Write(d, FromLanes(f))
  <2>1. CASE Shuffle(d, a)
    <3>1. PICK sel \in shape.selectors :
            Write(d, FromLanes([l \in AllLanes |->
              Lane(reg[a], IF l < shape.active THEN sel[l] ELSE shape.active)]))
      BY <2>1 DEF Shuffle
    <3> DEFINE f == [l \in AllLanes |->
                      Lane(reg[a], IF l < shape.active THEN sel[l] ELSE shape.active)]
    <3>2. \A l \in AllLanes : shape.active <= l => f[l] = {}
      BY <1>1, <1>2
    <3> QED BY <3>1, <3>2
  <2>2. CASE Blend(d, a, b)
    <3>1. PICK right \in shape.choices :
            Write(d, FromLanes([l \in AllLanes |->
              Lane(IF l \in right THEN reg[b] ELSE reg[a], l)]))
      BY <2>2 DEF Blend
    <3> DEFINE f == [l \in AllLanes |-> Lane(IF l \in right THEN reg[b] ELSE reg[a], l)]
    <3>2. ASSUME NEW l \in AllLanes, shape.active <= l PROVE f[l] = {}
      <4>1. Lane(reg[a], l) = {} /\ Lane(reg[b], l) = {}
        BY <1>1, <1>2, <3>2
      <4> QED BY <4>1
    <3> QED BY <3>1, <3>2
  <2> QED BY <2>1, <2>2
<1>4. FromLanes(f) \subseteq ActiveBits(shape)
  BY <1>3, ZeroLanesAreZeroSuffix DEF IInv, TypeOK
<1> QED BY <1>3, <1>4, WriteKeeps

\* dot_product_outputs_are_active rejects every immediate with an inactive output.
LEMMA DotProductKeeps ==
  ASSUME IInv, NEW d \in Registers, DotProduct(d)
  PROVE  IInv'
<1>1. PICK outs, f0 :
        /\ DotProductOutputsAreActive(outs)
        /\ Write(d, FromLanes([l \in AllLanes |-> IF l % GL \in outs THEN f0[l \div GL] ELSE {}]))
  BY DEF DotProduct
<1> DEFINE f == [l \in AllLanes |-> IF l % GL \in outs THEN f0[l \div GL] ELSE {}]
<1>2. \A l \in AllLanes : shape.active <= l => l % GL \notin outs
  BY <1>1, ShapeFacts DEF DotProductOutputsAreActive, IInv, TypeOK, AllLanes
<1>3. \A l \in AllLanes : shape.active <= l => f[l] = {}
  BY <1>2
<1> HIDE DEF f
<1>4. FromLanes(f) \subseteq ActiveBits(shape)
  BY <1>3, ZeroLanesAreZeroSuffix DEF IInv, TypeOK
<1> QED BY <1>1, <1>4, WriteKeeps DEF f

\* Comparisons mask their result, and what combines masks never sets a place that
\* is clear in both.
LEMMA MaskKeeps ==
  ASSUME IInv, NEW a \in Registers, NEW b \in Registers,
         Compare(a, b) \/ CombineMask(a, b)
  PROVE  IInv'
<1>1. mask \subseteq ActiveBits(shape)
  BY DEF IInv, ZeroSuffix
<1>2. CASE Compare(a, b)
  BY <1>2, NormalizeClears, MaskWriteKeeps DEF Compare
<1>3. CASE CombineMask(a, b)
  <2>1. PICK rel \in Relations :
          LET other == Normalize(Compared(rel, reg[a], reg[b])) IN
          /\ \/ mask' = mask \cap other
             \/ mask' = mask \cup other
             \/ mask' = (mask \ other) \cup (other \ mask)
          /\ UNCHANGED <<shape, reg>>
    BY <1>3 DEF CombineMask
  <2>2. mask' \subseteq ActiveBits(shape)
    BY <1>1, <2>1, NormalizeClears
  <2> QED BY <2>1, <2>2, MaskWriteKeeps
<1> QED BY <1>2, <1>3

-----------------------------------------------------------------------------
\* A default-constructed register and mask are all zeros.
LEMMA InitHolds == Init => IInv
BY DEF Init, IInv, TypeOK, ZeroSuffix

\* Every operation of the two classes keeps the invariant.
LEMMA NextKeeps ==
  ASSUME IInv, [Next]_vars
  PROVE  IInv'
<1>1. CASE \E d \in Registers :
             \/ FromNative(d)
             \/ LoadPartial(d)
             \/ \E l \in ActiveLanes(shape), v \in SUBSET Ones : WithLane(d, l, v)
             \/ GroupReduction(d)
             \/ DotProduct(d)
  BY <1>1, ConstructionKeeps, WithLaneKeeps, NormalizedKeeps, DotProductKeeps
<1>2. CASE \E d, a \in Registers :
             \/ Invert(d, a)
             \/ Shuffle(d, a)
             \/ ShuffleHalf(d, a)
             \/ \E k \in 0 .. W : ShiftLanes(d, a, k)
             \/ \E k \in 0 .. NL * W : ShiftRegisterLeft(d, a, k) \/ ShiftRegisterRight(d, a, k)
  <2>1. 0 .. NL * W \subseteq Nat
    BY ShapeFacts, LaneStart DEF IInv, TypeOK
  <2> QED BY <1>2, <2>1, NormalizedKeeps, RearrangementKeeps, ShiftLanesKeeps, ShiftRightKeeps
<1>3. CASE \E d, a, b \in Registers :
             \/ Arithmetic(d, a, b)
             \/ MultiplyAdd(d, a, b)
             \/ FloatArithmetic(d, a, b)
             \/ Divide(d, a, b)
             \/ Horizontal(d, a, b)
             \/ AddSubtract(d, a, b)
             \/ BitwiseOp(d, a, b)
             \/ UnpackLow(d, a, b)
             \/ UnpackHigh(d, a, b)
             \/ Blend(d, a, b)
             \/ Select(d, a, b)
  BY <1>3, ArithmeticKeeps, NormalizedKeeps, BitwiseKeeps, UnpackHighKeeps, RearrangementKeeps
<1>4. CASE \E a, b \in Registers : Compare(a, b) \/ CombineMask(a, b)
  BY <1>4, MaskKeeps
<1>5. CASE MaskInvert
  <2>1. mask' \subseteq ActiveBits(shape) /\ UNCHANGED <<shape, reg>>
    BY <1>5 DEF MaskInvert, IInv, ZeroSuffix
  <2> QED BY <2>1, MaskWriteKeeps
<1>6. CASE ImportMask
  <2>1. PICK n : mask' = Normalize(n) /\ UNCHANGED <<shape, reg>>
    BY <1>6 DEF ImportMask
  <2> QED BY <2>1, NormalizeClears, MaskWriteKeeps
<1>7. CASE UNCHANGED vars
  BY <1>7 DEF vars, IInv, TypeOK, ZeroSuffix, Bits
<1> QED BY <1>1, <1>2, <1>3, <1>4, <1>5, <1>6, <1>7 DEF Next

\* The registers and masks are well formed, and no sequence of operations of
\* PartialRegister.h and PartialRegisterMask.h sets a bit of an inactive lane,
\* whichever of them normalise their result.
THEOREM Invariant == Spec => []IInv
<1>1. Init => IInv
  BY InitHolds
<1>2. IInv /\ [Next]_vars => IInv'
  BY NextKeeps
<1> QED BY <1>1, <1>2, PTL DEF Spec

\* Every register is a physical register of its shape.
THEOREM TypeCorrect == Spec => []TypeOK
<1>1. IInv => TypeOK
  BY DEF IInv
<1> QED BY <1>1, Invariant, PTL

\* "The sole native value has all-bits-zero inactive high lanes" (PartialRegister.h).
THEOREM SuffixStaysZero == Spec => []ZeroSuffix
<1>1. IInv => ZeroSuffix
  BY DEF IInv
<1> QED BY <1>1, Invariant, PTL

-----------------------------------------------------------------------------
(***************************************************************************)
(* Lanes and bits                                                          *)
(***************************************************************************)
\* Place i of lane l is bit l * W + i, and no other lane has that bit.
LEMMA BitAtPlace ==
  ASSUME NEW w \in Nat \ {0}, NEW l \in Nat, NEW i \in 0 .. w - 1
  PROVE  /\ l * w + i \in Nat
         /\ (l * w + i) \div w = l
         /\ (l * w + i) % w = i
<1>1. l * w \in Nat
  BY LaneStart
<1> DEFINE b == l * w + i
<1>2. b \in Nat
  BY <1>1
<1>3. PICK q \in Nat, j \in 0 .. w - 1 : q = b \div w /\ j = b % w /\ b = q * w + j
  BY <1>2, BitOfLane
<1>4. q * w \in Nat
  BY LaneStart
<1>5. ~(q < l)
  <2> SUFFICES ASSUME q < l PROVE FALSE
    OBVIOUS
  <2>1. (q + 1) * w <= l * w /\ (q + 1) * w = q * w + w
    BY LaneStart
  <2> QED BY <1>1, <1>3, <1>4, <2>1
<1>6. ~(l < q)
  <2> SUFFICES ASSUME l < q PROVE FALSE
    OBVIOUS
  <2>1. (l + 1) * w <= q * w /\ (l + 1) * w = l * w + w
    BY LaneStart
  <2> QED BY <1>1, <1>3, <1>4, <2>1
<1>7. q = l
  BY <1>5, <1>6
<1>8. j = i
  BY <1>1, <1>3, <1>7
<1> QED BY <1>2, <1>3, <1>7, <1>8

\* The bits of the first k lanes are the first k * W bits.
LEMMA PlaceInFirstLanes ==
  ASSUME NEW w \in Nat \ {0}, NEW l \in Nat, NEW i \in 0 .. w - 1, NEW k \in Nat
  PROVE  l * w + i \in 0 .. k * w - 1 <=> l < k
<1>1. l * w + i \in Nat /\ (l * w + i) \div w = l
  BY BitAtPlace
<1> QED BY <1>1, BitOfFirstLanes

\* A register built from lanes has these lanes.
LEMMA LaneOfFromLanes ==
  ASSUME shape \in Shapes, NEW f, NEW l \in AllLanes, f[l] \subseteq Ones
  PROVE  Lane(FromLanes(f), l) = f[l]
<1>1. W \in Nat \ {0} /\ NL \in Nat /\ l \in Nat /\ l < NL
  BY ShapeFacts DEF AllLanes
<1>2. Ones = 0 .. W - 1 /\ Bits = 0 .. NL * W - 1
  BY DEF Ones, LaneBits, W, Bits, NativeBits, NL
<1>3. ASSUME NEW i \in Ones
      PROVE  l * W + i \in FromLanes(f) <=> i \in f[l]
  <2>1. /\ l * W + i \in Bits
        /\ (l * W + i) \div W = l
        /\ (l * W + i) % W = i
    BY <1>1, <1>2, BitAtPlace, PlaceInFirstLanes
  <2> QED BY <2>1 DEF FromLanes
<1> QED BY <1>3 DEF Lane, Ones

\* Normalising clears the inactive lanes and leaves the active ones.
LEMMA LaneOfNormalize ==
  ASSUME shape \in Shapes, NEW r, NEW l \in AllLanes
  PROVE  Lane(Normalize(r), l) = IF l < shape.active THEN Lane(r, l) ELSE {}
<1>1. W \in Nat \ {0} /\ shape.active \in Nat /\ l \in Nat
  BY ShapeFacts DEF AllLanes
<1>2. Ones = 0 .. W - 1 /\ ActiveBits(shape) = 0 .. shape.active * W - 1
  BY DEF Ones, LaneBits, W, ActiveBits
<1>3. \A i \in Ones : l * W + i \in ActiveBits(shape) <=> l < shape.active
  BY <1>1, <1>2, PlaceInFirstLanes
<1> QED BY <1>3 DEF Lane, Ones, Normalize

\* A bit of a register is in one of its lanes.
LEMMA BitHasLane ==
  ASSUME shape \in Shapes, NEW b \in Bits
  PROVE  /\ b \div W \in AllLanes /\ b % W \in Ones /\ b = (b \div W) * W + (b % W)
         /\ b \in ActiveBits(shape) <=> b \div W < shape.active
<1>1. W \in Nat \ {0} /\ NL \in Nat /\ shape.active \in Nat
  BY ShapeFacts
<1>2. b \in Nat /\ b < NL * W /\ Bits = 0 .. NL * W - 1
  BY <1>1, LaneStart DEF Bits, NativeBits, NL, W
<1>3. b \div W \in Nat /\ b % W \in 0 .. W - 1 /\ b = (b \div W) * W + (b % W)
  BY <1>1, <1>2, BitOfLane
<1>4. b \div W < NL
  BY <1>1, <1>2, BitOfFirstLanes
<1>5. b < shape.active * W <=> b \div W < shape.active
  BY <1>1, <1>2, BitOfFirstLanes
<1>6. shape.active * W \in Nat
  BY <1>1, LaneStart
<1>7. b \in ActiveBits(shape) <=> b \div W < shape.active
  BY <1>2, <1>5, <1>6 DEF ActiveBits, W
<1> QED BY <1>1, <1>3, <1>4, <1>7 DEF AllLanes, Ones, LaneBits, W

-----------------------------------------------------------------------------
(***************************************************************************)
(* Masks                                                                   *)
(***************************************************************************)
\* Every lane is all zeros or all ones.
Canonical(m) == \A l \in AllLanes : Lane(m, l) \in {{}, Ones}

MaskInv == IInv /\ Canonical(mask)

\* What a comparison returns, normalised or not.
LEMMA LaneOfCompared ==
  ASSUME shape \in Shapes, NEW rel, NEW x, NEW y, NEW l \in AllLanes
  PROVE  Lane(Compared(rel, x, y), l) =
           IF Holds(rel, Lane(x, l), Lane(y, l)) THEN Ones ELSE {}
<1> DEFINE f == [k \in AllLanes |-> IF Holds(rel, Lane(x, k), Lane(y, k)) THEN Ones ELSE {}]
<1>1. f[l] = IF Holds(rel, Lane(x, l), Lane(y, l)) THEN Ones ELSE {}
  OBVIOUS
<1>2. f[l] \subseteq Ones
  BY <1>1
<1> HIDE DEF f
<1>3. Lane(FromLanes(f), l) = f[l]
  BY <1>2, LaneOfFromLanes
<1> QED BY <1>1, <1>3 DEF Compared, f

\* A comparison, normalised, is a canonical mask.
LEMMA NormalizedIsCanonical ==
  ASSUME shape \in Shapes, NEW rel, NEW x, NEW y
  PROVE  Canonical(Normalize(Compared(rel, x, y)))
<1> DEFINE c == Compared(rel, x, y)
<1>1. ASSUME NEW l \in AllLanes
      PROVE  Lane(Normalize(c), l) \in {{}, Ones}
  <2>1. Lane(c, l) \in {{}, Ones}
    BY LaneOfCompared
  <2>2. Lane(Normalize(c), l) = IF l < shape.active THEN Lane(c, l) ELSE {}
    BY LaneOfNormalize
  <2> QED BY <2>1, <2>2
<1> QED BY <1>1 DEF Canonical

\* &, | and ^ work lane by lane.
LEMMA CombinedIsCanonical ==
  ASSUME NEW x, Canonical(x), NEW y, Canonical(y)
  PROVE  /\ Canonical(x \cap y) /\ Canonical(x \cup y)
         /\ Canonical((x \ y) \cup (y \ x))
<1> DEFINE xor == (x \ y) \cup (y \ x)
<1>1. ASSUME NEW l \in AllLanes
      PROVE  /\ Lane(x \cap y, l) \in {{}, Ones}
             /\ Lane(x \cup y, l) \in {{}, Ones}
             /\ Lane(xor, l) \in {{}, Ones}
  <2>1. /\ Lane(x \cap y, l) = Lane(x, l) \cap Lane(y, l)
        /\ Lane(x \cup y, l) = Lane(x, l) \cup Lane(y, l)
        /\ Lane(xor, l) = (Lane(x, l) \ Lane(y, l)) \cup (Lane(y, l) \ Lane(x, l))
    BY DEF Lane
  <2>2. Lane(x, l) \in {{}, Ones} /\ Lane(y, l) \in {{}, Ones}
    BY DEF Canonical
  <2> QED BY <2>1, <2>2
<1> QED BY <1>1 DEF Canonical

\* The filter that ~ works with is itself a canonical mask.
LEMMA FilterIsCanonical ==
  ASSUME shape \in Shapes
  PROVE  Canonical(ActiveBits(shape))
<1>1. ASSUME NEW l \in AllLanes
      PROVE  Lane(Bits, l) = Ones
  <2>1. W \in Nat \ {0} /\ NL \in Nat /\ l \in Nat /\ l < NL
    BY ShapeFacts DEF AllLanes
  <2>2. \A i \in 0 .. W - 1 : l * W + i \in 0 .. NL * W - 1
    BY <2>1, PlaceInFirstLanes
  <2> QED BY <2>2 DEF Lane, Ones, LaneBits, W, Bits, NativeBits, NL
<1>2. Normalize(Bits) = ActiveBits(shape)
  BY ActiveBitsAreBits DEF Normalize
<1>3. \A l \in AllLanes : Lane(Normalize(Bits), l) \in {{}, Ones}
  BY <1>1, LaneOfNormalize
<1> QED BY <1>2, <1>3 DEF Canonical

\* A step writes one register or the mask, and never another instance.
LEMMA StepWrites ==
  ASSUME [Next]_vars
  PROVE  \/ \E d \in Registers : \E r : Write(d, r)
         \/ \E a, b \in Registers : Compare(a, b) \/ CombineMask(a, b)
         \/ ImportMask
         \/ MaskInvert
         \/ UNCHANGED vars
<1>1. ASSUME NEW d \in Registers, FromNative(d) \/ LoadPartial(d)
                                  \/ GroupReduction(d) \/ DotProduct(d)
      PROVE  \E r : Write(d, r)
  BY <1>1 DEF FromNative, LoadPartial, GroupReduction, DotProduct
<1>2. ASSUME NEW d \in Registers, NEW l, NEW v, WithLane(d, l, v)
      PROVE  \E r : Write(d, r)
  BY <1>2 DEF WithLane
<1>3. ASSUME NEW d \in Registers, NEW a \in Registers,
             Invert(d, a) \/ Shuffle(d, a) \/ ShuffleHalf(d, a)
      PROVE  \E r : Write(d, r)
  BY <1>3 DEF Invert, Shuffle, ShuffleHalf
<1>4. ASSUME NEW d \in Registers, NEW a \in Registers, NEW k,
             ShiftLanes(d, a, k) \/ ShiftRegisterLeft(d, a, k) \/ ShiftRegisterRight(d, a, k)
      PROVE  \E r : Write(d, r)
  BY <1>4 DEF ShiftLanes, ShiftRegisterLeft, ShiftRegisterRight
<1>5. ASSUME NEW d \in Registers, NEW a \in Registers, NEW b \in Registers,
             \/ Arithmetic(d, a, b) \/ MultiplyAdd(d, a, b) \/ FloatArithmetic(d, a, b)
             \/ Divide(d, a, b) \/ Horizontal(d, a, b) \/ AddSubtract(d, a, b)
      PROVE  \E r : Write(d, r)
  BY <1>5 DEF Arithmetic, MultiplyAdd, FloatArithmetic, Divide, Horizontal, AddSubtract
<1>6. ASSUME NEW d \in Registers, NEW a \in Registers, NEW b \in Registers,
             \/ BitwiseOp(d, a, b) \/ UnpackLow(d, a, b) \/ UnpackHigh(d, a, b)
             \/ Blend(d, a, b) \/ Select(d, a, b)
      PROVE  \E r : Write(d, r)
  BY <1>6 DEF BitwiseOp, UnpackLow, UnpackHigh, Blend, Select
<1> QED BY <1>1, <1>2, <1>3, <1>4, <1>5, <1>6 DEF Next

\* What is imported is canonical in the active lanes.
LEMMA ImportedIsCanonical ==
  ASSUME shape \in Shapes, ImportMask
  PROVE  shape' = shape /\ Canonical(mask')
<1>1. PICK n \in shape.natives : /\ \A l \in ActiveLanes(shape) : Lane(n, l) \in {{}, Ones}
                                 /\ mask' = Normalize(n) /\ shape' = shape
  BY DEF ImportMask
<1>2. \A l \in AllLanes : Lane(mask', l) = IF l < shape.active THEN Lane(n, l) ELSE {}
  BY <1>1, LaneOfNormalize
<1>3. \A l \in AllLanes : l < shape.active => l \in ActiveLanes(shape)
  BY ShapeFacts DEF AllLanes, ActiveLanes
<1> QED BY <1>1, <1>2, <1>3 DEF Canonical

\* Masks are imported, made by comparisons, or combined with each other and the
\* filter only.
LEMMA MaskStaysCanonical ==
  ASSUME MaskInv, [Next]_vars
  PROVE  Canonical(mask)'
<1>1. shape \in Shapes /\ Canonical(mask)
  BY DEF MaskInv, IInv, TypeOK
<1>2. shape' = shape /\ Canonical(mask')
  <2>1. CASE UNCHANGED vars \/ \E d \in Registers : \E r : Write(d, r)
    <3>1. shape' = shape /\ mask' = mask
      BY <2>1 DEF vars, Write
    <3> QED BY <1>1, <3>1
  <2>2. ASSUME NEW a \in Registers, NEW b \in Registers, Compare(a, b)
        PROVE  shape' = shape /\ Canonical(mask')
    BY <1>1, <2>2, NormalizedIsCanonical DEF Compare
  <2>3. ASSUME NEW a \in Registers, NEW b \in Registers, CombineMask(a, b)
        PROVE  shape' = shape /\ Canonical(mask')
    <3>1. PICK other : /\ Canonical(other) /\ shape' = shape
                       /\ \/ mask' = mask \cap other
                          \/ mask' = mask \cup other
                          \/ mask' = (mask \ other) \cup (other \ mask)
      BY <1>1, <2>3, NormalizedIsCanonical DEF CombineMask
    <3> QED BY <1>1, <3>1, CombinedIsCanonical
  <2>4. CASE MaskInvert
    BY <1>1, <2>4, FilterIsCanonical, CombinedIsCanonical DEF MaskInvert
  <2>5. CASE ImportMask
    BY <1>1, <2>5, ImportedIsCanonical
  <2> QED BY <2>1, <2>2, <2>3, <2>4, <2>5, StepWrites
<1> QED BY <1>2 DEF Canonical, Lane, AllLanes, Ones, LaneBits, NL, W

\* The three tests of a mask with zeros behind the active lanes and canonical lanes.
LEMMA TestsAgree ==
  ASSUME MaskInv
  PROVE  /\ MaskAllBits(mask) <=> MaskAllTest(mask)
         /\ MaskAny(mask) <=> \E l \in ActiveLanes(shape) : Lane(mask, l) = Ones
<1>1. /\ shape \in Shapes /\ mask \subseteq ActiveBits(shape) /\ mask \subseteq Bits
      /\ \A l \in AllLanes : Lane(mask, l) \in {{}, Ones}
  BY DEF MaskInv, IInv, TypeOK, ZeroSuffix, Canonical
<1>2. /\ W \in Nat \ {0} /\ NL \in Nat /\ shape.active \in 1 .. NL - 1
      /\ Ones = 0 .. W - 1 /\ AllLanes = 0 .. NL - 1 /\ ActiveLanes(shape) = 0 .. shape.active - 1
  BY <1>1, ShapeFacts DEF Ones, LaneBits, W, AllLanes, ActiveLanes
<1>3. ActiveLanes(shape) \subseteq AllLanes /\ W - 1 \in Ones
  BY <1>2
<1>4. SignBits(mask) = {l \in ActiveLanes(shape) : Lane(mask, l) = Ones}
  <2>1. ASSUME NEW l \in AllLanes
        PROVE  W - 1 \in Lane(mask, l) <=> l \in ActiveLanes(shape) /\ Lane(mask, l) = Ones
    <3>1. l \notin ActiveLanes(shape) => Lane(mask, l) = {}
      BY <1>1, <1>2, InactiveLaneIsZero
    <3> QED BY <1>1, <1>3, <3>1
  <2> QED BY <1>3, <2>1 DEF SignBits
<1>5. ASSUME NEW l \in AllLanes, NEW i \in Ones
      PROVE  /\ l * W + i \in ActiveBits(shape) <=> l \in ActiveLanes(shape)
             /\ l * W + i \in mask <=> i \in Lane(mask, l)
  <2>1. l * W + i \in 0 .. shape.active * W - 1 <=> l < shape.active
    <3>1. l \in Nat /\ i \in 0 .. W - 1 /\ shape.active \in Nat /\ W \in Nat \ {0}
      BY <1>2
    <3> QED BY <3>1, PlaceInFirstLanes, Zenon
  <2>2. ActiveBits(shape) = 0 .. shape.active * W - 1
    BY DEF ActiveBits, W
  <2> QED BY <1>2, <2>1, <2>2 DEF Lane, Ones
<1>6. MaskAllTest(mask) <=> \A l \in ActiveLanes(shape) : Lane(mask, l) = Ones
  <2>1. ASSUME MaskAllTest(mask), NEW l \in ActiveLanes(shape)
        PROVE  Lane(mask, l) = Ones
    <3>1. W - 1 \in Lane(mask, l)
      BY <1>3, <1>5, <2>1 DEF MaskAllTest
    <3> QED BY <1>1, <1>3, <3>1
  <2>2. ASSUME \A l \in ActiveLanes(shape) : Lane(mask, l) = Ones, NEW b \in ActiveBits(shape)
        PROVE  b \in mask
    <3>1. PICK l \in AllLanes, i \in Ones : b = l * W + i
      BY <1>1, BitHasLane, ActiveBitsAreBits
    <3>2. l \in ActiveLanes(shape)
      BY <1>5, <3>1
    <3> QED BY <1>5, <2>2, <3>1, <3>2
  <2> QED BY <2>1, <2>2 DEF MaskAllTest
<1>7. MaskAny(mask) <=> \E l \in ActiveLanes(shape) : Lane(mask, l) = Ones
  <2>1. ASSUME NEW b \in mask
        PROVE  \E l \in ActiveLanes(shape) : Lane(mask, l) = Ones
    <3>1. PICK l \in AllLanes, i \in Ones : b = l * W + i
      BY <1>1, BitHasLane
    <3>2. l \in ActiveLanes(shape) /\ i \in Lane(mask, l)
      BY <1>1, <1>5, <3>1
    <3> QED BY <1>1, <3>2
  <2>2. ASSUME NEW l \in ActiveLanes(shape), Lane(mask, l) = Ones
        PROVE  mask # {}
    BY <1>3, <2>2 DEF Lane
  <2> QED BY <2>1, <2>2 DEF MaskAny
<1> QED BY <1>4, <1>6, <1>7 DEF MaskAllBits, ActiveMaskBits

-----------------------------------------------------------------------------
(***************************************************************************)
(* Divisors and results of another lane width                              *)
(***************************************************************************)
\* Every inactive lane of the divisors has its lowest bit, and nothing is taken
\* from an active one.
LEMMA DivisorsAreNonZero ==
  ASSUME shape \in Shapes, NEW r, ActiveDivisorsNonZero(r), NEW l \in AllLanes
  PROVE  Lane(Divisors(r), l) # {}
<1>1. /\ W \in Nat \ {0} /\ NL \in Nat /\ shape.active \in 1 .. NL - 1
      /\ l \in 0 .. NL - 1 /\ 0 \in LaneBits(shape)
  BY ShapeFacts DEF AllLanes, LaneBits, W
<1>2. CASE l < shape.active
  <2>1. Lane(r, l) # {}
    BY <1>1, <1>2 DEF ActiveDivisorsNonZero, ActiveLanes
  <2> QED BY <2>1 DEF Lane, Divisors
<1>3. CASE shape.active <= l
  <2>1. l * W + 0 = l * W /\ l * W \in Nat
    BY <1>1, LaneStart
  <2>2. l * W \in Divisors(r)
    BY <1>1, <1>3 DEF Divisors
  <2>3. 0 \in Lane(Divisors(r), l)
    BY <1>1, <2>1, <2>2 DEF Lane
  <2> QED BY <2>3
<1> QED BY <1>1, <1>2, <1>3

\* widen_low: the result lane that a bit goes to comes from an active lane.
LEMMA WidenedFits ==
  ASSUME IInv, NEW a \in Registers, NEW k \in Nat \ {0}, NL = (NL \div k) * k
  PROVE  WidenLow(reg[a], k) \subseteq 0 .. (WidenedLanes(k) * k * W) - 1
<1>1. /\ shape \in Shapes /\ reg[a] \subseteq ActiveBits(shape)
      /\ W \in Nat \ {0} /\ NL \in Nat /\ shape.active \in 1 .. NL - 1
  BY ShapeFacts DEF IInv, TypeOK, ZeroSuffix
<1> SUFFICES ASSUME NEW b \in Bits, b % (k * W) < W,
                    ((b \div (k * W)) * W) + (b % (k * W)) \in reg[a]
             PROVE  b \in 0 .. (WidenedLanes(k) * k * W) - 1
  BY DEF WidenLow
<1> DEFINE w == k * W
           lanes == NL \div k
<1>2. w \in Nat \ {0} /\ lanes \in Nat
  BY <1>1
<1>3. NL * W = lanes * w
  <2>1. (lanes * k) * W = lanes * (k * W)
    BY <1>1, <1>2
  <2> QED BY <2>1
<1>4. b \in Nat /\ b < lanes * w
  BY <1>1, <1>2, <1>3 DEF Bits, NativeBits, NL, W
<1> HIDE DEF w, lanes
<1>5. PICK q \in Nat, i \in 0 .. w - 1 : q = b \div w /\ i = b % w /\ b = q * w + i
  BY <1>2, <1>4, BitOfLane
<1>6. q < lanes
  BY <1>2, <1>4, <1>5, BitOfFirstLanes
<1>7. i \in 0 .. W - 1 /\ q * W + i \in ActiveBits(shape)
  BY <1>1, <1>5 DEF w
<1>8. q < shape.active
  BY <1>1, <1>7, PlaceInFirstLanes DEF ActiveBits, W
<1>9. WidenedLanes(k) \in Nat /\ q < WidenedLanes(k)
  BY <1>1, <1>2, <1>6, <1>8 DEF WidenedLanes, lanes
<1>10. b \in 0 .. WidenedLanes(k) * w - 1
  BY <1>2, <1>5, <1>9, PlaceInFirstLanes
<1>11. WidenedLanes(k) * w = WidenedLanes(k) * k * W
  BY <1>1, <1>9 DEF w
<1> QED BY <1>10, <1>11

\* k lanes make one: the result lanes that see an active lane are declared.
LEMMA CombinedFits ==
  ASSUME IInv, NEW a \in Registers, NEW k \in Nat \ {0}
  PROVE  CombinedNonZero(reg[a], k) \subseteq 0 .. CombinedLanes(k) - 1
<1>1. /\ shape \in Shapes /\ reg[a] \subseteq ActiveBits(shape)
      /\ NL \in Nat /\ shape.active \in 1 .. NL - 1
  BY ShapeFacts DEF IInv, TypeOK, ZeroSuffix
<1> SUFFICES ASSUME NEW p \in 0 .. (NL \div k) - 1, NEW i \in 0 .. k - 1,
                    Lane(reg[a], k * p + i) # {}
             PROVE  p \in 0 .. CombinedLanes(k) - 1
  BY DEF CombinedNonZero
<1>2. p \in Nat /\ k * p \in Nat /\ k * p + i \in Nat
  BY <1>1
<1>3. k * p + i < shape.active
  BY <1>1, <1>2, InactiveLaneIsZero
<1> DEFINE n == shape.active + k - 1
<1>4. n \in Nat /\ (p + 1) * k = k * p + k /\ (p + 1) * k <= n
  BY <1>1, <1>2, <1>3
<1> HIDE DEF n
<1>5. p + 1 <= n \div k
  <2>1. PICK q \in Nat, j \in 0 .. k - 1 : q = n \div k /\ n = q * k + j
    BY <1>4, BitOfLane
  <2>2. CASE q < p + 1
    <3>1. (q + 1) * k <= (p + 1) * k /\ (q + 1) * k = q * k + k
      BY <1>2, <2>2, LaneStart
    <3>2. q * k \in Nat /\ (p + 1) * k \in Nat
      BY <1>2, <2>1, LaneStart
    <3> QED BY <1>4, <2>1, <3>1, <3>2
  <2> QED BY <1>2, <2>1, <2>2
<1>6. n \div k = CombinedLanes(k) /\ n \div k \in Nat
  BY <1>4 DEF CombinedLanes, n
<1> QED BY <1>2, <1>5, <1>6

\* magnitude_checked: no group behind the last active lane has a magnitude.
LEMMA MagnitudeFits ==
  ASSUME IInv, NEW a \in Registers
  PROVE  CheckedMagnitudeNonZero(reg[a]) \subseteq 0 .. CheckedMagnitudeLanes - 1
<1>1. /\ shape \in Shapes /\ reg[a] \subseteq ActiveBits(shape)
      /\ GL \in Nat \ {0} /\ NL \in Nat /\ shape.active \in 1 .. NL - 1
  BY ShapeFacts DEF IInv, TypeOK, ZeroSuffix
<1> SUFFICES ASSUME NEW l \in AllLanes, l % GL < 2, NEW k \in AllLanes,
                    k \div GL = l \div GL, Lane(reg[a], k) # {}
             PROVE  l \in 0 .. CheckedMagnitudeLanes - 1
  BY DEF CheckedMagnitudeNonZero
<1>2. l \in Nat /\ k \in Nat
  BY <1>1 DEF AllLanes
<1>3. k < shape.active
  BY <1>1, <1>2, InactiveLaneIsZero
<1> DEFINE last == shape.active - 1
<1>4. last \in Nat /\ k <= last
  BY <1>1, <1>2, <1>3
<1> HIDE DEF last
<1>5. PICK q \in Nat, i \in 0 .. GL - 1 : q = l \div GL /\ i = l % GL /\ l = q * GL + i
  BY <1>1, <1>2, BitOfLane
<1>6. PICK g \in Nat, j \in 0 .. GL - 1 : g = last \div GL /\ last = g * GL + j
  BY <1>1, <1>4, BitOfLane
<1>7. q <= g
  <2>1. PICK h \in 0 .. GL - 1 : k = q * GL + h
    <3>1. k \in Nat /\ GL \in Nat \ {0} /\ k \div GL = q
      BY <1>1, <1>2, <1>5
    <3> QED BY <3>1, BitOfLane, Zenon
  <2>2. CASE g < q
    <3>1. (g + 1) * GL <= q * GL /\ (g + 1) * GL = g * GL + GL
      BY <1>1, <2>2, LaneStart
    <3>2. g * GL \in Nat /\ q * GL \in Nat
      BY <1>1, LaneStart
    <3> QED BY <1>1, <1>4, <1>6, <2>1, <3>1, <3>2
  <2> QED BY <2>2
<1>8. q * GL <= g * GL /\ q * GL \in Nat /\ g * GL \in Nat
  BY <1>1, <1>7, LaneStart
<1>9. CheckedMagnitudeLanes = g * GL + 2
  BY <1>6 DEF CheckedMagnitudeLanes, last
<1> QED BY <1>2, <1>5, <1>8, <1>9

-----------------------------------------------------------------------------
(***************************************************************************)
(* The order of lanes, and the first of the smallest                       *)
(***************************************************************************)
\* A nonempty set of naturals with a bound has a largest element.
LEMMA LargestExists ==
  ASSUME NEW n \in Nat, NEW D, D \subseteq 0 .. n, D # {}
  PROVE  \E d \in D : \A e \in D : e <= d
<1> DEFINE T == {u \in Nat : \A e \in D : e <= u}
           R == OpToRel(<, Nat)
<1>1. T \subseteq Nat /\ n \in T
  OBVIOUS
<1>2. PICK u \in T : \A v \in T : ~(<<v, u>> \in R)
  BY <1>1, WFMin, NatLessThanWellFounded
<1>3. u \in Nat /\ \A e \in D : e \in Nat /\ e <= u
  BY <1>1
<1>4. CASE u \notin D
  <2>1. PICK e \in D : TRUE
    OBVIOUS
  <2>2. u - 1 \in T
    BY <1>3, <1>4, <2>1
  <2>3. <<u - 1, u>> \in R
    <3>1. u - 1 \in Nat /\ u - 1 < u
      BY <1>3, <2>2
    <3> QED BY <1>3, <3>1, Zenon DEF OpToRel
  <2> QED BY <1>2, <2>2, <2>3
<1> QED BY <1>3, <1>4

\* A finite set with a transitive, irreflexive relation has a minimal element.
LEMMA MinimalExists ==
  ASSUME NEW S, IsFiniteSet(S), S # {}, NEW R,
         \A x \in S : <<x, x>> \notin R,
         \A x, y, z \in S : <<x, y>> \in R /\ <<y, z>> \in R => <<x, z>> \in R
  PROVE  \E x \in S : \A y \in S : <<y, x>> \notin R
<1> DEFINE Below(x) == {y \in S : <<y, x>> \in R}
           T == {Cardinality(Below(x)) : x \in S}
           L == OpToRel(<, Nat)
<1>1. ASSUME NEW x \in S
      PROVE  IsFiniteSet(Below(x)) /\ Cardinality(Below(x)) \in Nat
  <2>1. Below(x) \in SUBSET S
    OBVIOUS
  <2> HIDE DEF Below
  <2> QED BY <2>1, FS_Subset, FS_CardinalityType
<1>2. T \subseteq Nat /\ T # {}
  <2> HIDE DEF Below
  <2>1. T \subseteq Nat
    BY <1>1
  <2>2. PICK x \in S : TRUE
    OBVIOUS
  <2>3. Cardinality(Below(x)) \in T
    OBVIOUS
  <2> QED BY <2>1, <2>3
<1>3. PICK t \in T : \A u \in T : ~(<<u, t>> \in L)
  BY <1>2, WFMin, NatLessThanWellFounded
<1>4. PICK x \in S : t = Cardinality(Below(x))
  OBVIOUS
<1>5. ASSUME NEW y \in S, <<y, x>> \in R
      PROVE  FALSE
  <2>1. Below(y) \subseteq Below(x) /\ y \in Below(x) /\ y \notin Below(y)
    BY <1>4, <1>5
  <2>2. Below(y) \in SUBSET Below(x) /\ Below(x) # Below(y)
    BY <2>1
  <2> HIDE DEF Below
  <2>3. Cardinality(Below(y)) <= Cardinality(Below(x))
        /\ Cardinality(Below(x)) # Cardinality(Below(y))
    BY <1>1, <1>4, <2>2, FS_Subset
  <2>4. Cardinality(Below(y)) < Cardinality(Below(x))
        /\ Cardinality(Below(y)) \in Nat /\ t \in Nat
    BY <1>1, <1>4, <2>3
  <2>5. <<Cardinality(Below(y)), t>> \in L
    BY <1>4, <2>4, Zenon DEF OpToRel
  <2> QED BY <1>3, <2>5
<1> QED BY <1>4, <1>5

\* The first of the smallest elements of a row: for every strict weak order L
\* there is one that nothing precedes and that precedes all before it.
LEMMA FirstExists ==
  ASSUME NEW n \in Nat \ {0}, NEW L,
         \A k, l \in 0 .. n - 1 : <<k, l>> \in L => <<l, k>> \notin L,
         \A k, l, m \in 0 .. n - 1 : <<k, l>> \in L /\ <<l, m>> \in L => <<k, m>> \in L,
         \A k, l, m \in 0 .. n - 1 : <<k, l>> \notin L /\ <<l, m>> \notin L => <<k, m>> \notin L
  PROVE  \E l \in 0 .. n - 1 : \A k \in 0 .. n - 1 :
           <<k, l>> \notin L /\ (k < l => <<l, k>> \in L)
<1> DEFINE S == 0 .. n - 1
           Ahead(k, l) == <<k, l>> \in L \/ (<<l, k>> \notin L /\ k < l)
           R == {p \in S \X S : Ahead(p[1], p[2])}
<1>1. \A k, l \in S : <<k, l>> \in R <=> Ahead(k, l)
  OBVIOUS
<1>2. \A k \in S : ~Ahead(k, k)
  OBVIOUS
<1>3. ASSUME NEW j \in S, NEW k \in S, NEW l \in S, Ahead(j, k), Ahead(k, l)
      PROVE  Ahead(j, l)
  <2>1. j < k /\ k < l => j < l
    OBVIOUS
  <2>2. CASE <<j, k>> \in L /\ <<k, l>> \in L
    BY <2>2
  <2>3. CASE <<j, k>> \in L /\ <<k, l>> \notin L
    <3>1. <<l, k>> \notin L
      BY <1>3, <2>3
    <3>2. CASE <<j, l>> \notin L
      BY <2>3, <3>1, <3>2
    <3> QED BY <3>2
  <2>4. CASE <<j, k>> \notin L /\ <<k, l>> \in L
    <3>1. <<k, j>> \notin L
      BY <1>3, <2>4
    <3>2. CASE <<j, l>> \notin L
      BY <2>4, <3>1, <3>2
    <3> QED BY <3>2
  <2>5. CASE <<j, k>> \notin L /\ <<k, l>> \notin L
    BY <1>3, <2>1, <2>5
  <2> QED BY <2>2, <2>3, <2>4, <2>5
<1>4. IsFiniteSet(S) /\ 0 \in S
  BY FS_Interval
<1> HIDE DEF R, S, Ahead
<1>5. PICK l \in S : \A k \in S : <<k, l>> \notin R
  <2>1. S # {}
    BY <1>4
  <2>2. \A x \in S : <<x, x>> \notin R
    BY <1>1, <1>2
  <2>3. \A x, y, z \in S : <<x, y>> \in R /\ <<y, z>> \in R => <<x, z>> \in R
    BY <1>1, <1>3
  <2> QED BY <1>4, <2>1, <2>2, <2>3, MinimalExists
<1>6. \A k \in S : ~Ahead(k, l)
  BY <1>1, <1>5
<1> QED BY <1>6 DEF Ahead, S

\* The order of numbers by their bits.
Before(x, y) == \E i \in y \ x : \A j \in x \ y : j < i

\* It is a strict total order.
LEMMA BeforeIsStrict ==
  ASSUME NEW n \in Nat, NEW x, x \subseteq 0 .. n, NEW y, y \subseteq 0 .. n
  PROVE  /\ Before(x, y) => ~Before(y, x)
         /\ x = y \/ Before(x, y) \/ Before(y, x)
<1>1. ASSUME Before(x, y), Before(y, x)
      PROVE  FALSE
  <2>1. PICK i \in y \ x : \A j \in x \ y : j < i
    BY <1>1 DEF Before
  <2>2. PICK k \in x \ y : \A j \in y \ x : j < k
    BY <1>1 DEF Before
  <2>3. i \in Nat /\ k \in Nat /\ i < k /\ k < i
    BY <2>1, <2>2
  <2> QED BY <2>3
<1>2. ASSUME x # y
      PROVE  Before(x, y) \/ Before(y, x)
  <2> DEFINE D == (x \ y) \cup (y \ x)
  <2>1. D \subseteq 0 .. n /\ D # {}
    BY <1>2
  <2>2. PICK d \in D : \A e \in D : e <= d
    BY <2>1, LargestExists
  <2>3. \A e \in D : e \in Nat /\ (e # d => e < d)
    BY <2>1, <2>2
  <2>4. CASE d \in x \ y
    <3>1. \A e \in y \ x : e < d
      BY <2>3, <2>4
    <3> QED BY <2>4, <3>1 DEF Before
  <2>5. CASE d \in y \ x
    <3>1. \A e \in x \ y : e < d
      BY <2>3, <2>5
    <3> QED BY <2>5, <3>1 DEF Before
  <2> QED BY <2>2, <2>4, <2>5
<1> QED BY <1>1, <1>2

\* The order of lane values is transitive.
LEMMA BeforeIsTransitive ==
  ASSUME NEW n \in Nat, NEW x, x \subseteq 0 .. n, NEW y, y \subseteq 0 .. n,
         NEW z, z \subseteq 0 .. n, Before(x, y), Before(y, z)
  PROVE  Before(x, z)
<1>1. PICK i \in y \ x : \A j \in x \ y : j < i
  BY DEF Before
<1>2. PICK k \in z \ y : \A j \in y \ z : j < k
  BY DEF Before
<1>3. i \in Nat /\ k \in Nat /\ i # k /\ \A j \in x : j \in Nat
  BY <1>1, <1>2
<1>4. CASE i < k
  <2>1. k \in z \ x
    BY <1>1, <1>2, <1>3, <1>4
  <2>2. \A j \in x \ z : j < k
    BY <1>1, <1>2, <1>3, <1>4
  <2> QED BY <2>1, <2>2 DEF Before
<1>5. CASE k < i
  <2>1. i \in z \ x
    BY <1>1, <1>2, <1>3, <1>5
  <2>2. \A j \in x \ z : j < i
    BY <1>1, <1>2, <1>3, <1>5
  <2> QED BY <2>1, <2>2 DEF Before
<1> QED BY <1>3, <1>4, <1>5

\* Less compares ranks; the rank of a rank is the lane itself.
LEMMA RankFacts ==
  ASSUME shape \in Shapes
  PROVE  /\ W - 1 \in Nat /\ Ones = 0 .. W - 1
         /\ \A x \in SUBSET Ones : Rank(x) \in SUBSET Ones /\ Rank(Rank(x)) = x
         /\ \A x, y : Less(x, y) <=> Before(Rank(x), Rank(y))
<1>1. W \in Nat \ {0} /\ Ones = 0 .. W - 1
  BY ShapeFacts DEF Ones, LaneBits, W
<1>2. ASSUME NEW x \in SUBSET Ones
      PROVE  Rank(x) \in SUBSET Ones /\ Rank(Rank(x)) = x
  BY <1>1 DEF Rank
<1>3. \A x, y : Less(x, y) <=> Before(Rank(x), Rank(y))
  BY DEF Less, Before
<1> QED BY <1>1, <1>2, <1>3

\* A lane holds bits of a lane.
LEMMA LaneIsOfOnes == \A r, l : Lane(r, l) \in SUBSET Ones
BY DEF Lane, Ones

\* Less is a strict weak order of the lanes of a register.
LEMMA LessIsWeakOrder ==
  ASSUME shape \in Shapes, NEW x \in SUBSET Ones, NEW y \in SUBSET Ones, NEW z \in SUBSET Ones
  PROVE  /\ Less(x, y) => ~Less(y, x)
         /\ Less(x, y) /\ Less(y, z) => Less(x, z)
         /\ ~Less(x, y) /\ ~Less(y, z) => ~Less(x, z)
<1> DEFINE X == Rank(x)
           Y == Rank(y)
           Z == Rank(z)
           n == W - 1
<1>1. n \in Nat /\ X \subseteq 0 .. n /\ Y \subseteq 0 .. n /\ Z \subseteq 0 .. n
  BY RankFacts
<1>2. /\ Less(x, y) <=> Before(X, Y)
      /\ Less(y, x) <=> Before(Y, X)
      /\ Less(y, z) <=> Before(Y, Z)
      /\ Less(x, z) <=> Before(X, Z)
  BY RankFacts
<1> HIDE DEF X, Y, Z, n
<1>3. /\ Before(X, Y) => ~Before(Y, X)
      /\ X = Y \/ Before(X, Y) \/ Before(Y, X)
      /\ Y = Z \/ Before(Y, Z) \/ Before(Z, Y)
      /\ Before(X, Z) => ~Before(Z, X)
  BY <1>1, BeforeIsStrict
<1>4. Before(X, Y) /\ Before(Y, Z) => Before(X, Z)
  BY <1>1, BeforeIsTransitive
<1>5. Before(Z, Y) /\ Before(Y, X) => Before(Z, X)
  BY <1>1, BeforeIsTransitive
<1> QED BY <1>2, <1>3, <1>4, <1>5

\* The searches find what they look for, in every physical register.
LEMMA FirstMinimumIsMinimum ==
  ASSUME shape \in Shapes, NEW r
  PROVE  LET m == FirstMinimum(r) IN
         /\ m \in AllLanes
         /\ \A k \in AllLanes : /\ ~Less(Lane(r, k), Lane(r, m))
                                /\ k < m => Less(Lane(r, m), Lane(r, k))
<1> DEFINE L == {p \in AllLanes \X AllLanes : Less(Lane(r, p[1]), Lane(r, p[2]))}
<1>1. NL \in Nat \ {0} /\ AllLanes = 0 .. NL - 1
  BY ShapeFacts DEF AllLanes
<1>2. \A k, l \in AllLanes : <<k, l>> \in L <=> Less(Lane(r, k), Lane(r, l))
  OBVIOUS
<1> HIDE DEF L
<1>3. \A k, l \in 0 .. NL - 1 : <<k, l>> \in L => <<l, k>> \notin L
  BY <1>1, <1>2, LaneIsOfOnes, LessIsWeakOrder
<1>4. ASSUME NEW k \in 0 .. NL - 1, NEW l \in 0 .. NL - 1, NEW m \in 0 .. NL - 1
      PROVE  /\ <<k, l>> \in L /\ <<l, m>> \in L => <<k, m>> \in L
             /\ <<k, l>> \notin L /\ <<l, m>> \notin L => <<k, m>> \notin L
  BY <1>1, <1>2, LaneIsOfOnes, LessIsWeakOrder
<1>5. PICK l \in 0 .. NL - 1 : \A k \in 0 .. NL - 1 :
        <<k, l>> \notin L /\ (k < l => <<l, k>> \in L)
  BY <1>1, <1>3, <1>4, FirstExists
<1>6. \E m \in AllLanes :
        /\ \A k \in AllLanes : ~Less(Lane(r, k), Lane(r, m))
        /\ \A k \in AllLanes : k < m => Less(Lane(r, m), Lane(r, k))
  BY <1>1, <1>2, <1>5
<1> QED BY <1>6 DEF FirstMinimum

\* The search finds the first of the greatest lanes.
LEMMA FirstMaximumIsMaximum ==
  ASSUME shape \in Shapes, NEW r
  PROVE  LET m == FirstMaximum(r) IN
         /\ m \in AllLanes
         /\ \A k \in AllLanes : /\ ~Less(Lane(r, m), Lane(r, k))
                                /\ k < m => Less(Lane(r, k), Lane(r, m))
<1> DEFINE L == {p \in AllLanes \X AllLanes : Less(Lane(r, p[2]), Lane(r, p[1]))}
<1>1. NL \in Nat \ {0} /\ AllLanes = 0 .. NL - 1
  BY ShapeFacts DEF AllLanes
<1>2. \A k, l \in AllLanes : <<k, l>> \in L <=> Less(Lane(r, l), Lane(r, k))
  OBVIOUS
<1> HIDE DEF L
<1>3. \A k, l \in 0 .. NL - 1 : <<k, l>> \in L => <<l, k>> \notin L
  BY <1>1, <1>2, LaneIsOfOnes, LessIsWeakOrder
<1>4. ASSUME NEW k \in 0 .. NL - 1, NEW l \in 0 .. NL - 1, NEW m \in 0 .. NL - 1
      PROVE  /\ <<k, l>> \in L /\ <<l, m>> \in L => <<k, m>> \in L
             /\ <<k, l>> \notin L /\ <<l, m>> \notin L => <<k, m>> \notin L
  BY <1>1, <1>2, LaneIsOfOnes, LessIsWeakOrder
<1>5. PICK l \in 0 .. NL - 1 : \A k \in 0 .. NL - 1 :
        <<k, l>> \notin L /\ (k < l => <<l, k>> \in L)
  BY <1>1, <1>3, <1>4, FirstExists
<1>6. \E m \in AllLanes :
        /\ \A k \in AllLanes : ~Less(Lane(r, m), Lane(r, k))
        /\ \A k \in AllLanes : k < m => Less(Lane(r, k), Lane(r, m))
  BY <1>1, <1>2, <1>5
<1> QED BY <1>6 DEF FirstMaximum

\* What a search register looks like: active lanes as they are, the others set.
LEMMA LaneOfSearched ==
  ASSUME IInv, NEW a \in Registers, NEW x \in SUBSET Ones, NEW l \in AllLanes
  PROVE  Lane(reg[a] \cup InactiveLanesAre(x), l) =
           IF l < shape.active THEN Lane(reg[a], l) ELSE x
<1>1. /\ shape \in Shapes /\ reg[a] \subseteq ActiveBits(shape)
      /\ W \in Nat \ {0} /\ NL \in Nat /\ shape.active \in 1 .. NL - 1 /\ l \in Nat /\ l < NL
      /\ Ones = 0 .. W - 1 /\ Bits = 0 .. NL * W - 1
  BY ShapeFacts
     DEF IInv, TypeOK, ZeroSuffix, AllLanes, Ones, LaneBits, W, Bits, NativeBits, NL
<1>2. ASSUME NEW i \in Ones
      PROVE  l * W + i \in InactiveLanesAre(x) <=> shape.active <= l /\ i \in x
  <2>1. l * W + i \in Bits /\ (l * W + i) \div W = l /\ (l * W + i) % W = i
    BY <1>1, BitAtPlace, PlaceInFirstLanes
  <2> QED BY <1>1, <2>1 DEF InactiveLanesAre
<1>3. Lane(reg[a] \cup InactiveLanesAre(x), l) =
        Lane(reg[a], l) \cup {i \in Ones : shape.active <= l /\ i \in x}
  BY <1>2 DEF Lane, Ones
<1>4. shape.active <= l => Lane(reg[a], l) = {}
  BY <1>1, InactiveLaneIsZero
<1> DEFINE Behind == {i \in Ones : shape.active <= l /\ i \in x}
<1>5. CASE l < shape.active
  <2>1. ~(shape.active <= l)
    BY <1>1, <1>5
  <2>2. Behind = {}
    BY <2>1
  <2> QED BY <1>3, <1>5, <2>2
<1>6. CASE ~(l < shape.active)
  <2>1. shape.active <= l
    BY <1>1, <1>6
  <2>2. Behind = x
    BY <2>1
  <2> QED BY <1>3, <1>4, <1>6, <2>1, <2>2
<1> QED BY <1>5, <1>6

\* min_position: no lane is less than one of rank 0, none follows one of the last.
LEMMA MinPositionIsActive ==
  ASSUME IInv, NEW a \in Registers
  PROVE  LET m == MinPosition(reg[a]) IN
         /\ m \in ActiveLanes(shape)
         /\ \A l \in ActiveLanes(shape) :
              /\ ~Less(Lane(reg[a], l), Lane(reg[a], m))
              /\ l < m => Less(Lane(reg[a], m), Lane(reg[a], l))
<1> DEFINE r == reg[a] \cup InactiveLanesAre(Rank(Ones))
           m == FirstMinimum(r)
<1>1. /\ shape \in Shapes /\ NL \in Nat /\ shape.active \in 1 .. NL - 1
      /\ AllLanes = 0 .. NL - 1 /\ ActiveLanes(shape) = 0 .. shape.active - 1
      /\ ActiveLanes(shape) \subseteq AllLanes /\ 0 \in ActiveLanes(shape)
  BY ShapeFacts DEF IInv, TypeOK, AllLanes, ActiveLanes
<1>2. Rank(Ones) \in SUBSET Ones /\ Rank(Rank(Ones)) = Ones
  BY <1>1, RankFacts
<1>3. \A l \in AllLanes : Lane(r, l) = IF l < shape.active THEN Lane(reg[a], l) ELSE Rank(Ones)
  BY <1>2, LaneOfSearched
<1> HIDE DEF r
<1>4. /\ m \in AllLanes
      /\ \A k \in AllLanes : /\ ~Less(Lane(r, k), Lane(r, m))
                             /\ k < m => Less(Lane(r, m), Lane(r, k))
  BY <1>1, FirstMinimumIsMinimum
<1> HIDE DEF m
<1>5. m < shape.active
  <2> SUFFICES ASSUME ~(m < shape.active) PROVE FALSE
    OBVIOUS
  <2>1. 0 < m /\ Lane(r, m) = Rank(Ones)
    BY <1>1, <1>3, <1>4
  <2>2. Less(Rank(Ones), Lane(r, 0))
    BY <1>1, <1>4, <2>1
  <2>3. Before(Ones, Rank(Lane(r, 0)))
    BY <1>1, <1>2, <2>2, RankFacts
  <2>4. Rank(Lane(r, 0)) \subseteq Ones
    BY <1>1, RankFacts, LaneIsOfOnes
  <2> QED BY <2>3, <2>4 DEF Before
<1>6. m \in ActiveLanes(shape)
  BY <1>1, <1>4, <1>5
<1>7. \A l \in ActiveLanes(shape) : Lane(r, l) = Lane(reg[a], l)
  BY <1>1, <1>3
<1>8. \A l \in ActiveLanes(shape) : /\ ~Less(Lane(reg[a], l), Lane(reg[a], m))
                                    /\ l < m => Less(Lane(reg[a], m), Lane(reg[a], l))
  BY <1>1, <1>4, <1>6, <1>7
<1> QED BY <1>6, <1>8 DEF MinPosition, m, r

\* max_position: likewise, the inactive lanes have the lowest rank.
LEMMA MaxPositionIsActive ==
  ASSUME IInv, NEW a \in Registers
  PROVE  LET m == MaxPosition(reg[a]) IN
         /\ m \in ActiveLanes(shape)
         /\ \A l \in ActiveLanes(shape) :
              /\ ~Less(Lane(reg[a], m), Lane(reg[a], l))
              /\ l < m => Less(Lane(reg[a], l), Lane(reg[a], m))
<1> DEFINE r == reg[a] \cup InactiveLanesAre(Rank({}))
           m == FirstMaximum(r)
<1>1. /\ shape \in Shapes /\ NL \in Nat /\ shape.active \in 1 .. NL - 1
      /\ AllLanes = 0 .. NL - 1 /\ ActiveLanes(shape) = 0 .. shape.active - 1
      /\ ActiveLanes(shape) \subseteq AllLanes /\ 0 \in ActiveLanes(shape)
  BY ShapeFacts DEF IInv, TypeOK, AllLanes, ActiveLanes
<1>2. Rank({}) \in SUBSET Ones /\ Rank(Rank({})) = {}
  BY <1>1, RankFacts
<1>3. \A l \in AllLanes : Lane(r, l) = IF l < shape.active THEN Lane(reg[a], l) ELSE Rank({})
  BY <1>2, LaneOfSearched
<1> HIDE DEF r
<1>4. /\ m \in AllLanes
      /\ \A k \in AllLanes : /\ ~Less(Lane(r, m), Lane(r, k))
                             /\ k < m => Less(Lane(r, k), Lane(r, m))
  BY <1>1, FirstMaximumIsMaximum
<1> HIDE DEF m
<1>5. m < shape.active
  <2> SUFFICES ASSUME ~(m < shape.active) PROVE FALSE
    OBVIOUS
  <2>1. 0 < m /\ Lane(r, m) = Rank({})
    BY <1>1, <1>3, <1>4
  <2>2. Less(Lane(r, 0), Rank({}))
    BY <1>1, <1>4, <2>1
  <2>3. Before(Rank(Lane(r, 0)), {})
    BY <1>1, <1>2, <2>2, RankFacts
  <2> QED BY <2>3 DEF Before
<1>6. m \in ActiveLanes(shape)
  BY <1>1, <1>4, <1>5
<1>7. \A l \in ActiveLanes(shape) : Lane(r, l) = Lane(reg[a], l)
  BY <1>1, <1>3
<1>8. \A l \in ActiveLanes(shape) : /\ ~Less(Lane(reg[a], m), Lane(reg[a], l))
                                    /\ l < m => Less(Lane(reg[a], l), Lane(reg[a], m))
  BY <1>1, <1>4, <1>6, <1>7
<1> QED BY <1>6, <1>8 DEF MaxPosition, m, r

\* operator== and the packed sign bits.
LEMMA EqualityIsOfActiveLanes ==
  ASSUME IInv, NEW a \in Registers, NEW b \in Registers
  PROVE  /\ SignBits(reg[a]) \subseteq ActiveLanes(shape)
         /\ Equal(reg[a], reg[b]) <=>
              \A l \in ActiveLanes(shape) : Lane(reg[a], l) = Lane(reg[b], l)
<1>1. /\ shape \in Shapes /\ reg[a] \subseteq ActiveBits(shape)
      /\ NL \in Nat /\ shape.active \in 1 .. NL - 1
      /\ AllLanes = 0 .. NL - 1 /\ ActiveLanes(shape) = 0 .. shape.active - 1
      /\ ActiveLanes(shape) \subseteq AllLanes /\ W - 1 \in Ones
  BY ShapeFacts DEF IInv, TypeOK, ZeroSuffix, AllLanes, ActiveLanes, Ones, LaneBits, W
<1>2. ASSUME NEW l \in SignBits(reg[a])
      PROVE  l \in ActiveLanes(shape)
  <2>1. l \in AllLanes /\ Lane(reg[a], l) # {}
    BY DEF SignBits
  <2> QED BY <1>1, <2>1, InactiveLaneIsZero
<1> DEFINE e == Normalize(Compared("equal", reg[a], reg[b]))
<1>3. ASSUME NEW l \in AllLanes
      PROVE  Lane(e, l) = IF l < shape.active /\ Lane(reg[a], l) = Lane(reg[b], l)
                          THEN Ones ELSE {}
  <2>1. Lane(Compared("equal", reg[a], reg[b]), l) =
          IF Holds("equal", Lane(reg[a], l), Lane(reg[b], l)) THEN Ones ELSE {}
    BY <1>1, LaneOfCompared
  <2>2. Holds("equal", Lane(reg[a], l), Lane(reg[b], l)) <=> Lane(reg[a], l) = Lane(reg[b], l)
    BY DEF Holds
  <2>3. Lane(e, l) = IF l < shape.active THEN Lane(Compared("equal", reg[a], reg[b]), l) ELSE {}
    BY <1>1, LaneOfNormalize
  <2> QED BY <2>1, <2>2, <2>3
<1> HIDE DEF e
<1>4. SignBits(e) = {l \in ActiveLanes(shape) : Lane(reg[a], l) = Lane(reg[b], l)}
  BY <1>1, <1>3 DEF SignBits
<1>5. MaskAllBits(e) <=> \A l \in ActiveLanes(shape) : Lane(reg[a], l) = Lane(reg[b], l)
  BY <1>4 DEF MaskAllBits, ActiveMaskBits
<1> QED BY <1>2, <1>5 DEF Equal, e

-----------------------------------------------------------------------------
(***************************************************************************)
(* What every reachable state satisfies                                    *)
(***************************************************************************)
\* The registers and the mask are zero-suffixed and the mask is canonical.
THEOREM MaskInvariant == Spec => []MaskInv
<1>1. Init => MaskInv
  <2> SUFFICES ASSUME Init PROVE MaskInv
    OBVIOUS
  <2>1. IInv
    BY InitHolds
  <2>2. \A l \in AllLanes : Lane(mask, l) = {}
    BY DEF Init, Lane
  <2> QED BY <2>1, <2>2 DEF MaskInv, Canonical
<1>2. MaskInv /\ [Next]_vars => MaskInv'
  BY NextKeeps, MaskStaysCanonical DEF MaskInv
<1> QED BY <1>1, <1>2, PTL DEF Spec

\* Whatever comparisons and mask operations made it, every lane of a mask is all
\* zeros or all ones, and the two ways to compute all() and the way to compute
\* any() agree with its active lanes (PartialRegisterMask.h).
THEOREM MasksAreCanonical == Spec => []CanonicalMask
<1>1. MaskInv => CanonicalMask
  BY TestsAgree DEF MaskInv, Canonical, CanonicalMask
<1> QED BY <1>1, MaskInvariant, PTL

\* validate_active_divisors and inactive_divisor_identity together: no physical
\* lane of a divisor that reaches the hardware is zero.
THEOREM DivisorsNeverZero == Spec => []NoZeroDivisor
<1>1. IInv => NoZeroDivisor
  BY DivisorsAreNonZero DEF IInv, TypeOK, NoZeroDivisor
<1> QED BY <1>1, Invariant, PTL

\* A register of even length is two halves, or one lane as wide as itself.
LEMMA LanesDivide ==
  ASSUME shape \in Shapes
  PROVE  /\ NL \in Nat \ {0}
         /\ NL = (NL \div 2) * 2
         /\ NL = (NL \div NL) * NL
<1>1. /\ GL \in Nat /\ GL = 2 * (GL \div 2) /\ GL \div 2 \in Nat
      /\ NL \in Nat /\ shape.active \in 1 .. NL - 1
  BY ShapeFacts
<1>2. NL = GL \/ NL = 2 * GL
  BY <1>1, ShapesAssumption DEF ValidShape, NL, NativeLanes, GL
<1>3. NL \in Nat \ {0} /\ \E h \in Nat : NL = 2 * h
  BY <1>1, <1>2
<1>4. NL = (NL \div 2) * 2
  BY <1>3
<1>5. \A n \in Nat \ {0} : n = (n \div n) * n
  OBVIOUS
<1> QED BY <1>3, <1>4, <1>5

\* Of 256 bits more than the low half is active, and a bit_cast that is available
\* has no active bit behind its last lane.
LEMMA CastsFit ==
  ASSUME IInv
  PROVE  /\ shape.groups = 2 => LowerHalfLanes = GL
         /\ \A t \in 1 .. NL * W : (shape.active * W) % t = 0 =>
              \A a \in Registers : reg[a] \subseteq 0 .. (BitCastLanes(t) * t) - 1
         /\ \A a \in Registers : ConvertedNonZero(reg[a]) \subseteq ActiveLanes(shape)
<1>1. /\ shape \in Shapes
      /\ \A a \in Registers : reg[a] \subseteq ActiveBits(shape)
  BY DEF IInv, TypeOK, ZeroSuffix
<1>2. ValidShape(shape) /\ W \in Nat \ {0} /\ NL \in Nat /\ shape.active \in 1 .. NL - 1
  BY <1>1, ShapesAssumption, ShapeFacts
<1>3. shape.groups = 2 => LowerHalfLanes = GL
  BY <1>2 DEF ValidShape, LowerHalfLanes, GL
<1>4. ASSUME NEW t \in 1 .. NL * W, (shape.active * W) % t = 0, NEW a \in Registers
      PROVE  reg[a] \subseteq 0 .. (BitCastLanes(t) * t) - 1
  <2>1. PICK n \in Nat : n = shape.active * W
    BY <1>2, LaneStart
  <2>2. t \in Nat \ {0}
    BY <1>2, <1>4, LaneStart
  <2>3. n = (n \div t) * t
    <3>1. n = (n \div t) * t + (n % t) /\ n \div t \in Nat
      BY <2>2, BitOfLane
    <3>2. n % t = 0
      BY <1>4, <2>1
    <3>3. (n \div t) * t \in Nat
      BY <3>1, <2>2, LaneStart
    <3> QED BY <3>1, <3>2, <3>3
  <2>4. reg[a] \subseteq 0 .. n - 1
    BY <1>1, <2>1 DEF ActiveBits, W
  <2> QED BY <2>1, <2>3, <2>4 DEF BitCastLanes
<1>5. ASSUME NEW a \in Registers
      PROVE  ConvertedNonZero(reg[a]) \subseteq ActiveLanes(shape)
  BY <1>1, <1>2, InactiveLaneIsZero DEF ConvertedNonZero, AllLanes, ActiveLanes
<1> QED BY <1>3, <1>4, <1>5

\* The lane counts that bit_cast, convert, lower_half, widen_low,
\* multiply_add_adjacent, the absolute byte differences and magnitude_checked
\* declare for their results hold every lane that can be nonzero.
THEOREM ResultsFit == Spec => []ResultsFitTheirType
<1>1. ASSUME IInv, NEW a \in Registers, NEW k \in {2, NL}
      PROVE  /\ WidenLow(reg[a], k) \subseteq 0 .. (WidenedLanes(k) * k * W) - 1
             /\ CombinedNonZero(reg[a], k) \subseteq 0 .. CombinedLanes(k) - 1
  <2>1. k \in Nat \ {0} /\ NL = (NL \div k) * k
    BY <1>1, LanesDivide DEF IInv, TypeOK
  <2> QED BY <1>1, <2>1, WidenedFits, CombinedFits
<1>2. IInv => ResultsFitTheirType
  BY <1>1, CastsFit, MagnitudeFits DEF ResultsFitTheirType
<1> QED BY <1>2, Invariant, PTL

\* Equality, the packed sign bits, min_position and max_position read every
\* physical lane and answer for the active ones.
THEOREM ObserversAreRight == Spec => []ObserversSeeActiveLanes
<1>1. IInv => ObserversSeeActiveLanes
  <2> SUFFICES ASSUME IInv, NEW a \in Registers
               PROVE  /\ SignBits(reg[a]) \subseteq ActiveLanes(shape)
                      /\ \A b \in Registers :
                           Equal(reg[a], reg[b]) <=>
                             \A l \in ActiveLanes(shape) : Lane(reg[a], l) = Lane(reg[b], l)
                      /\ LET m == MinPosition(reg[a]) IN
                           /\ m \in ActiveLanes(shape)
                           /\ \A l \in ActiveLanes(shape) :
                                /\ ~Less(Lane(reg[a], l), Lane(reg[a], m))
                                /\ l < m => Less(Lane(reg[a], m), Lane(reg[a], l))
                      /\ LET m == MaxPosition(reg[a]) IN
                           /\ m \in ActiveLanes(shape)
                           /\ \A l \in ActiveLanes(shape) :
                                /\ ~Less(Lane(reg[a], m), Lane(reg[a], l))
                                /\ l < m => Less(Lane(reg[a], l), Lane(reg[a], m))
    BY Zenon DEF ObserversSeeActiveLanes
  <2>1. /\ SignBits(reg[a]) \subseteq ActiveLanes(shape)
        /\ \A b \in Registers :
             Equal(reg[a], reg[b]) <=>
               \A l \in ActiveLanes(shape) : Lane(reg[a], l) = Lane(reg[b], l)
    BY EqualityIsOfActiveLanes
  <2> QED BY <2>1, MinPositionIsActive, MaxPositionIsActive
<1> QED BY <1>1, Invariant, PTL
=============================================================================
