---------------------------- MODULE EvaluationProofs ----------------------------
(***************************************************************************)
(* What a call on values returns at run time is what the compiler would    *)
(* have made of the same call: comparisons, the selection by what a        *)
(* comparison left, its masks of a bit per byte and of a bit per lane,     *)
(* shifts by any count, and the positions of the least and of the greatest *)
(* lane - for every integer type, both register widths, lanes of any       *)
(* width, and any operands the registers can hold.                         *)
(*                                                                         *)
(* The operands fit the Api in use (LaneProofs).  Each operation is shown  *)
(* to be its counterpart on registers.  What a comparison left is passed   *)
(* on by the next call, so the invariant says of it that it is what the    *)
(* compiler makes of the comparison of these operands, from which it       *)
(* follows that it holds masks, all ones or zero in a lane.                *)
(***************************************************************************)
EXTENDS LaneProofs


-------------------------------------------------------------------------------
(***************************************************************************)
(* More of the instructions: comparison for equality, and bits.            *)
(***************************************************************************)

\* The remainder by a power of two keeps the positions below it.
LEMMA CutBits ==
  ASSUME NEW w \in Nat, NEW m \in 0 .. w, NEW x \in Cells(w)
  PROVE  /\ Num(Bin(w, x) \cap Bin(w, 2 ^ m - 1)) = x % 2 ^ m
         /\ Num(Bin(w, x) \cap Bin(w, 2 ^ w - 2 ^ m)) = x - (x % 2 ^ m)
BY BinSplit, BinMasks, ZenonT(40)

\* Disjoint sets of positions add up.
LEMMA JoinedBits ==
  ASSUME NEW w \in Nat, NEW m \in 0 .. w, NEW x \in 0 .. 2 ^ m - 1, NEW y \in Cells(w), y % 2 ^ m = 0
  PROVE  Num(Bin(w, x) \cup Bin(w, y)) = x + y
<1> DEFINE t == Bin(w, y)
<1>0. m \in Nat /\ x \in Cells(m)
  BY DEF Cells
<1>1. PICK s \in Positions(m) : s = Bin(m, x) /\ Num(s) = x
  BY <1>0, BinCell, Zenon
<1>2. s \in Positions(w)
  BY <1>1 DEF Positions
<1>3. Bin(w, x) = s
  BY <1>1, <1>2, NumCell, Zenon
<1>4. t \in Positions(w) /\ Num(t) = y
  BY BinCell
<1>5. t \cap 0 .. m - 1 = {}
  <2>1. Num(t \cap 0 .. m - 1) = 0
    BY BinSplit
  <2>2. t \cap 0 .. m - 1 \in Positions(m)
    BY DEF Positions
  <2>3. Bin(m, 0) = t \cap 0 .. m - 1
    BY <1>0, <2>1, <2>2, NumCell, Zenon
  <2>4. Bin(m, 0) = {}
    BY <1>0, BinMasks, m \in 0 .. m
  <2> QED BY <2>3, <2>4
<1>6. s \cap t = {}
  BY <1>5, <1>1 DEF Positions
<1>7. Num(s \cup t) = Num(s) + Num(t)
  BY <1>2, <1>4, <1>6, NumJoin
<1> QED BY <1>1, <1>3, <1>4, <1>7

\* The comparison for equality.
LEMMA CmpeqIs ==
  ASSUME NEW w \in Nat \ {0}, NEW n \in Nat, NEW a \in Register(w, n), NEW b \in Register(w, n)
  PROVE  /\ cmpeq(w, a, b) \in Register(w, n)
         /\ \A k \in First(n) : cmpeq(w, a, b)[k] = Truth(w, a[k] = b[k])
<1>1. cmpeq(w, a, b) = [k \in First(n) |-> Truth(w, a[k] = b[k])]
  BY LaneOfRegister DEF cmpeq, Zip, Value
<1>2. \A k \in First(n) : Truth(w, a[k] = b[k]) \in Cells(w)
  BY TruthIs
<1> QED BY <1>1, <1>2 DEF Register

\* The bits of both.
LEMMA AndIs ==
  ASSUME NEW w \in Nat, NEW n \in Nat, NEW a \in Register(w, n), NEW b \in Register(w, n)
  PROVE  /\ and(w, a, b) \in Register(w, n)
         /\ \A k \in First(n) : and(w, a, b)[k] = Num(Bin(w, a[k]) \cap Bin(w, b[k]))
<1>1. DOMAIN a = First(n) /\ \A k \in First(n) : a[k] \in Cells(w) /\ b[k] \in Cells(w)
  BY LaneOfRegister
<1>2. and(w, a, b) = [k \in First(n) |-> OnesAt(w, Bin(w, a[k]) \cap Bin(w, b[k]))]
  BY <1>1, Zenon DEF and
<1>3. \A k \in First(n) : /\ Num(Bin(w, a[k]) \cap Bin(w, b[k])) \in Cells(w)
                          /\ OnesAt(w, Bin(w, a[k]) \cap Bin(w, b[k])) = Num(Bin(w,
                              a[k]) \cap Bin(w, b[k]))
  BY <1>1, BitsType, Zenon
<1>4. and(w, a, b) = [k \in First(n) |-> Num(Bin(w, a[k]) \cap Bin(w, b[k]))]
  BY <1>2, <1>3, Zenon
<1> QED BY <1>3, <1>4, Zenon DEF Register

\* The bits of either.
LEMMA OrIs ==
  ASSUME NEW w \in Nat, NEW n \in Nat, NEW a \in Register(w, n), NEW b \in Register(w, n)
  PROVE  /\ or(w, a, b) \in Register(w, n)
         /\ \A k \in First(n) : or(w, a, b)[k] = Num(Bin(w, a[k]) \cup Bin(w, b[k]))
<1>1. DOMAIN a = First(n) /\ \A k \in First(n) : a[k] \in Cells(w) /\ b[k] \in Cells(w)
  BY LaneOfRegister
<1>2. or(w, a, b) = [k \in First(n) |-> OnesAt(w, Bin(w, a[k]) \cup Bin(w, b[k]))]
  BY <1>1, Zenon DEF or
<1>3. \A k \in First(n) : /\ Num(Bin(w, a[k]) \cup Bin(w, b[k])) \in Cells(w)
                          /\ OnesAt(w, Bin(w, a[k]) \cup Bin(w, b[k])) = Num(Bin(w,
                              a[k]) \cup Bin(w, b[k]))
  BY <1>1, BitsType, Zenon
<1>4. or(w, a, b) = [k \in First(n) |-> Num(Bin(w, a[k]) \cup Bin(w, b[k]))]
  BY <1>2, <1>3, Zenon
<1> QED BY <1>3, <1>4, Zenon DEF Register

\* The bits of the second that the first lacks.
LEMMA AndnotIs ==
  ASSUME NEW w \in Nat, NEW n \in Nat, NEW a \in Register(w, n), NEW b \in Register(w, n)
  PROVE  /\ andnot(w, a, b) \in Register(w, n)
         /\ \A k \in First(n) : andnot(w, a, b)[k] = Num(Bin(w, b[k]) \ Bin(w, a[k]))
<1>1. DOMAIN a = First(n) /\ \A k \in First(n) : a[k] \in Cells(w) /\ b[k] \in Cells(w)
  BY LaneOfRegister
<1>2. andnot(w, a, b) = [k \in First(n) |-> OnesAt(w, Bin(w, b[k]) \ Bin(w, a[k]))]
  BY <1>1, Zenon DEF andnot
<1>3. \A k \in First(n) : /\ Num(Bin(w, b[k]) \ Bin(w, a[k])) \in Cells(w)
                          /\ OnesAt(w, Bin(w, b[k]) \ Bin(w, a[k])) = Num(Bin(w, b[k]) \ Bin(w, a[k]))
  BY <1>1, BitsType, Zenon
<1>4. andnot(w, a, b) = [k \in First(n) |-> Num(Bin(w, b[k]) \ Bin(w, a[k]))]
  BY <1>2, <1>3, Zenon
<1> QED BY <1>3, <1>4, Zenon DEF Register

-------------------------------------------------------------------------------
(***************************************************************************)
(* Comparisons: what one leaves in a lane, by type, and what the compiler  *)
(* makes of it.                                                            *)
(***************************************************************************)

\* The value of a lane tells the lane.
LEMMA ValueTells ==
  ASSUME NEW w \in Nat \ {0}, NEW s, NEW x \in Cells(w), NEW y \in Cells(w)
  PROVE  Value(s, w, x) = Value(s, w, y) <=> x = y
<1>1. Value(s, w, x) = Value(s, w, y) => Lane(w, Value(s, w, x)) = Lane(w, Value(s, w, y))
  BY Zenon
<1>2. Lane(w, Value(s, w, x)) = x /\ Lane(w, Value(s, w, y)) = y
  BY LaneOf
<1> QED BY <1>1, <1>2, Zenon

\* Two masks are the same when the conditions are.
LEMMA TruthSame ==
  ASSUME NEW w \in Nat \ {0}, NEW p, NEW q, p <=> q
  PROVE  Truth(w, p) = Truth(w, q)
<1>1. CASE p
  <2>1. q
    BY <1>1
  <2> QED BY <1>1, <2>1, TruthIs, Zenon
<1>2. CASE ~p
  <2>1. ~q
    BY <1>2
  <2> QED BY <1>2, <2>1, TruthIs, Zenon
<1> QED BY <1>1, <1>2

\* A mask cleared where another is set.
LEMMA ClearedMask ==
  ASSUME NEW w \in Nat \ {0}, NEW p, NEW x \in Cells(w)
  PROVE  /\ p => Num(Bin(w, x) \ Bin(w, Truth(w, p))) = 0
         /\ ~p => Num(Bin(w, x) \ Bin(w, Truth(w, p))) = x
<1>1. Num(Bin(w, x) \ Bin(w, Ones(w))) = 0 /\ Num(Bin(w, x) \ Bin(w, 0)) = x
  BY MaskedBits
<1>2. CASE p
  <2>1. Truth(w, p) = Ones(w)
    BY <1>2 DEF Truth
  <2> QED BY <1>1, <1>2, <2>1, Zenon
<1>3. CASE ~p
  <2>1. Truth(w, p) = 0
    BY <1>3 DEF Truth
  <2> QED BY <1>1, <1>3, <2>1, Zenon
<1> QED BY <1>2, <1>3

\* The unsigned order, from the maximum.
LEMMA CmpgtByMaxIs ==
  ASSUME NEW w \in Nat \ {0}, NEW n \in Nat, NEW a \in Register(w, n), NEW b \in Register(w, n)
  PROVE  /\ cmpgt_by_max(w, a, b) \in Register(w, n)
         /\ \A k \in First(n) : cmpgt_by_max(w, a, b)[k] = Truth(w, a[k] > b[k])
<1>1. /\ DOMAIN a = First(n)
         /\ \A k \in First(n) :
              a[k] \in Cells(w) /\ b[k] \in Cells(w) /\ a[k] \in Int /\ b[k] \in Int
  BY LaneOfRegister DEF Cells
<1>2. PICK M \in Register(w, n) :
        /\ M = max(FALSE, w, a, b)
        /\ \A k \in First(n) : M[k] = IF a[k] > b[k] THEN a[k] ELSE b[k]
  <2>1. max(FALSE, w, a, b) = [k \in First(n) |-> Lane(w, IF a[k] > b[k] THEN a[k] ELSE b[k])]
    BY <1>1 DEF max, Zip, Value
  <2>2. \A k \in First(n) : Lane(w,
            IF a[k] > b[k] THEN a[k] ELSE b[k]) = IF a[k] > b[k] THEN a[k] ELSE b[k]
    BY <1>1, LaneType
  <2>3. \A k \in First(n) : (IF a[k] > b[k] THEN a[k] ELSE b[k]) \in Cells(w)
    BY <1>1
  <2> QED BY <2>1, <2>2, <2>3 DEF Register
<1>3. PICK E \in Register(w, n) :
        E = cmpeq(w, a, b) /\ \A k \in First(n) : E[k] = Truth(w, a[k] = b[k])
  <2>1. /\ cmpeq(w, a, b) \in Register(w, n)
        /\ \A k \in First(n) : cmpeq(w, a, b)[k] = Truth(w, a[k] = b[k])
    BY CmpeqIs
  <2> QED BY <2>1, Zenon
<1>4. PICK G \in Register(w, n) :
        G = cmpeq(w, M, a) /\ \A k \in First(n) : G[k] = Truth(w, M[k] = a[k])
  <2>1. /\ cmpeq(w, M, a) \in Register(w, n)
        /\ \A k \in First(n) : cmpeq(w, M, a)[k] = Truth(w, M[k] = a[k])
    BY CmpeqIs
  <2> QED BY <2>1, Zenon
<1>5. /\ andnot(w, E, G) \in Register(w, n)
      /\ \A k \in First(n) : andnot(w, E, G)[k] = Num(Bin(w, G[k]) \ Bin(w, E[k]))
  BY AndnotIs, SMTT(30)
<1>6. ASSUME NEW k \in First(n)
      PROVE  Num(Bin(w, G[k]) \ Bin(w, E[k])) = Truth(w, a[k] > b[k])
  <2>1. G[k] \in Cells(w)
    BY LaneOfRegister
  <2>2. CASE a[k] = b[k]
    <3>1. Num(Bin(w, G[k]) \ Bin(w, Truth(w, a[k] = b[k]))) = 0
      BY <2>1, <2>2, ClearedMask, Zenon
    <3>2. ~(a[k] > b[k])
      BY <1>1, <2>2
    <3>3. Truth(w, a[k] > b[k]) = 0
      BY <3>2 DEF Truth
    <3> QED BY <1>3, <3>1, <3>3, Zenon
  <2>3. CASE a[k] # b[k]
    <3>1. Num(Bin(w, G[k]) \ Bin(w, Truth(w, a[k] = b[k]))) = G[k]
      BY <2>1, <2>3, ClearedMask, Zenon
    <3>2. (M[k] = a[k]) <=> (a[k] > b[k])
      BY <1>1, <1>2, <2>3
    <3>3. Truth(w, M[k] = a[k]) = Truth(w, a[k] > b[k])
      BY <3>2, TruthSame, Zenon
    <3> QED BY <1>3, <1>4, <3>1, <3>3, Zenon
  <2> QED BY <2>2, <2>3
<1> QED BY <1>2, <1>3, <1>4, <1>5, <1>6, Zenon DEF cmpgt_by_max

\* The unsigned order, from the saturating difference.
LEMMA CmpgtEpu16Is ==
  ASSUME NEW w \in Nat \ {0}, NEW n \in Nat, NEW a \in Register(w, n), NEW b \in Register(w, n)
  PROVE  /\ cmpgt_epu16(w, a, b) \in Register(w, n)
         /\ \A k \in First(n) : cmpgt_epu16(w, a, b)[k] = Truth(w, a[k] > b[k])
<1>1. DOMAIN a = First(n) /\ DOMAIN b = First(n)
      /\ \A k \in First(n) : a[k] \in Cells(w) /\ b[k] \in Cells(w) /\ a[k] \in Int /\ b[k] \in Int
  BY LaneOfRegister DEF Cells
<1>2. PICK D \in Register(w, n) :
        /\ D = subs(FALSE, w, b, a)
        /\ \A k \in First(n) : D[k] = 0 <=> b[k] <= a[k]
  <2>1. subs(FALSE, w, b, a) = [k \in First(n) |-> Saturate(FALSE, w, b[k] - a[k])]
    BY <1>1 DEF subs, Zip, Value
  <2>2. ASSUME NEW x \in Cells(w), NEW y \in Cells(w)
        PROVE  /\ Saturate(FALSE, w, x - y) \in Cells(w)
               /\ Saturate(FALSE, w, x - y) = 0 <=> x <= y
    <3>1. PICK P \in Nat : P = 2 ^ w /\ P > 0
      BY Base
    <3>2. x \in 0 .. P - 1 /\ y \in 0 .. P - 1
      BY <3>1 DEF Cells
    <3>3. PICK z : z = Saturate(FALSE, w, x - y)
      OBVIOUS
    <3>4. CASE x < y
      <4>1. z = Lane(w, 0)
        BY <3>1, <3>2, <3>3, <3>4 DEF Saturate, Lowest, Highest, Ones
      <4>2. 0 \in Cells(w)
        BY <3>1 DEF Cells
      <4>3. z \in Cells(w) /\ z = 0 /\ x <= y
        BY <3>2, <3>4, <4>1, <4>2, LaneType
      <4> QED BY <3>3, <4>3, Zenon
    <3>5. CASE x >= y
      <4>1. z = Lane(w, x - y)
        BY <3>1, <3>2, <3>3, <3>5 DEF Saturate, Lowest, Highest, Ones
      <4>2. x - y \in Cells(w) /\ x - y \in Int
        BY <3>1, <3>2, <3>5 DEF Cells
      <4>3. z = x - y
        BY <4>1, <4>2, LaneType
      <4>4. z \in Cells(w) /\ (z = 0 <=> x <= y)
        BY <3>2, <3>5, <4>2, <4>3
      <4> QED BY <3>3, <4>4, Zenon
    <3>6. x < y \/ x >= y
      BY <3>2
    <3> QED BY <3>4, <3>5, <3>6, Zenon
  <2>3. \A k \in First(n) : /\ Saturate(FALSE, w, b[k] - a[k]) \in Cells(w)
                            /\ Saturate(FALSE, w, b[k] - a[k]) = 0 <=> b[k] <= a[k]
    BY <1>1, <2>2
  <2> QED BY <2>1, <2>3 DEF Register
<1>3. PICK E \in Register(w, n) :
        E = cmpeq(w, a, b) /\ \A k \in First(n) : E[k] = Truth(w, a[k] = b[k])
  <2>1. /\ cmpeq(w, a, b) \in Register(w, n)
        /\ \A k \in First(n) : cmpeq(w, a, b)[k] = Truth(w, a[k] = b[k])
    BY CmpeqIs
  <2> QED BY <2>1, Zenon
<1>4. PICK Z \in Register(w, n) : Z = set1(b, 0) /\ \A k \in First(n) : Z[k] = 0
  <2>1. 0 \in Cells(w) /\ w \in Nat
    BY Base DEF Cells
  <2>2. set1(b, 0) \in Register(w, n) /\ \A k \in First(n) : set1(b, 0)[k] = 0
    BY <2>1, SetIs
  <2> QED BY <2>2, Zenon
<1>5. PICK G \in Register(w, n) :
        G = cmpeq(w, D, Z) /\ \A k \in First(n) : G[k] = Truth(w, D[k] = Z[k])
  <2>1. /\ cmpeq(w, D, Z) \in Register(w, n)
        /\ \A k \in First(n) : cmpeq(w, D, Z)[k] = Truth(w, D[k] = Z[k])
    BY CmpeqIs
  <2> QED BY <2>1, Zenon
<1>6. /\ andnot(w, E, G) \in Register(w, n)
      /\ \A k \in First(n) : andnot(w, E, G)[k] = Num(Bin(w, G[k]) \ Bin(w, E[k]))
  BY AndnotIs
<1>7. ASSUME NEW k \in First(n)
      PROVE  Num(Bin(w, G[k]) \ Bin(w, E[k])) = Truth(w, a[k] > b[k])
  <2>1. G[k] \in Cells(w)
    BY LaneOfRegister
  <2>2. CASE a[k] = b[k]
    <3>1. Num(Bin(w, G[k]) \ Bin(w, Truth(w, a[k] = b[k]))) = 0
      BY <2>1, <2>2, ClearedMask, Zenon
    <3>2. ~(a[k] > b[k])
      BY <1>1, <2>2
    <3>3. Truth(w, a[k] > b[k]) = 0
      BY <3>2 DEF Truth
    <3> QED BY <1>3, <3>1, <3>3, Zenon
  <2>3. CASE a[k] # b[k]
    <3>1. Num(Bin(w, G[k]) \ Bin(w, Truth(w, a[k] = b[k]))) = G[k]
      BY <2>1, <2>3, ClearedMask, Zenon
    <3>2. (D[k] = 0 <=> b[k] <= a[k]) /\ Z[k] = 0
      BY <1>2, <1>4, Zenon
    <3>4. (D[k] = Z[k]) <=> (a[k] > b[k])
      BY <1>1, <2>3, <3>2
    <3>3. Truth(w, D[k] = Z[k]) = Truth(w, a[k] > b[k])
      BY <3>4, TruthSame, Zenon
    <3> QED BY <1>3, <1>5, <3>1, <3>3, Zenon
  <2> QED BY <2>2, <2>3
<1> QED BY <1>2, <1>3, <1>4, <1>5, <1>6, <1>7, Zenon DEF cmpgt_epu16, cmple_epu16

\* What a comparison leaves in a lane.
Equal(t, x, y) == Truth(t.w, Value(t.s, t.w, x) = Value(t.s, t.w, y))
Greater(t, x, y) == Truth(t.w, Value(t.s, t.w, x) > Value(t.s, t.w, y))

\* The comparison for equality, of every type.
LEMMA EqualIs ==
  ASSUME NEW t, NEW w \in Nat \ {0}, w = t.w, NEW x \in Cells(w), NEW y \in Cells(w)
  PROVE  Equal(t, x, y) = Truth(w, x = y) /\ Equal(t, x, y) \in Cells(w)
<1>1. PICK s : s = t.s
  OBVIOUS
<1>2. Value(s, w, x) = Value(s, w, y) <=> x = y
  BY <1>1, ValueTells
<1>3. Truth(w, Value(s, w, x) = Value(s, w, y)) = Truth(w, x = y)
  BY <1>2, TruthSame, Zenon
<1>4. Truth(w, x = y) \in Cells(w)
  BY TruthIs
<1> QED BY <1>1, <1>3, <1>4, Zenon DEF Equal

\* The comparison for the greater, of every type: made of a maximum, of a
\* saturating difference, or of a flipped sign bit.
LEMMA GreaterIs ==
  ASSUME NEW t, t.w \in Nat \ {0}, t.s \in BOOLEAN, NEW x \in Cells(t.w), NEW y \in Cells(t.w)
  PROVE  /\ t.s => Greater(t, x, y) = Truth(t.w, AsSigned(t.w, x) > AsSigned(t.w, y))
         /\ ~t.s => Greater(t, x, y) = Truth(t.w, x > y)
         /\ Greater(t, x, y) \in Cells(t.w)
<1>1. t.s => Greater(t, x, y) = Truth(t.w, AsSigned(t.w, x) > AsSigned(t.w, y))
  <2>1. t.s => t.s = TRUE
    OBVIOUS
  <2> QED BY <2>1, Zenon DEF Greater, AsSigned
<1>2. ASSUME ~t.s
      PROVE  Greater(t, x, y) = Truth(t.w, x > y)
  <2>1. t.s = FALSE
    BY <1>2
  <2>2. Value(FALSE, t.w, x) = x /\ Value(FALSE, t.w, y) = y
    BY DEF Value
  <2> QED BY <2>1, <2>2, Zenon DEF Greater
<1>3. Truth(t.w, Value(t.s, t.w, x) > Value(t.s, t.w, y)) \in Cells(t.w)
  BY TruthIs
<1> QED BY <1>1, <1>2, <1>3, Zenon DEF Greater

\* Comparisons at run time, lane by lane.
LEMMA CompareIs ==
  ASSUME type \in Types, NEW n \in Nat, NEW a \in Register(type.w, n), NEW b \in Register(type.w, n)
  PROVE  /\ compare_equal(a, b) \in Register(type.w, n)
         /\ compare_greater(a, b) \in Register(type.w, n)
         /\ \A k \in First(n) : compare_equal(a, b)[k] = Equal(type, a[k], b[k])
         /\ \A k \in First(n) : compare_greater(a, b)[k] = Greater(type, a[k], b[k])
<1>w. /\ type.w \in Nat \ {0} /\ type.s \in BOOLEAN /\ type.n \in {2, 4, 8, 16}
  BY TypeIs
<1>1. PICK w \in Nat \ {0} : w = type.w
  BY <1>w, Zenon
<1>0. a \in Register(w, n) /\ b \in Register(w, n)
  BY <1>1
<1>2. \A k \in First(n) : a[k] \in Cells(w) /\ b[k] \in Cells(w)
  BY <1>0, LaneOfRegister
<1>3. compare_equal(a, b) = cmpeq(w, a, b)
  BY <1>1, LanewiseIs, Zenon DEF compare_equal
<1>4. cmpeq(w, a, b) \in Register(w, n) /\ \A k \in First(n) : cmpeq(w, a, b)[k] = Truth(w, a[k] = b[k])
  BY <1>0, CmpeqIs
<1>5. \A k \in First(n) : Equal(type, a[k], b[k]) = Truth(w, a[k] = b[k])
  <2>1. ASSUME NEW x \in Cells(w), NEW y \in Cells(w)
        PROVE  Equal(type, x, y) = Truth(w, x = y)
    BY <1>1, EqualIs
  <2> QED BY <1>2, <2>1
<1>8. /\ compare_equal(a, b) \in Register(type.w, n)
         /\ \A k \in First(n) : compare_equal(a, b)[k] = Equal(type, a[k], b[k])
  BY <1>1, <1>3, <1>4, <1>5, Zenon
<1>6. CASE type.s
  <2>1. compare_greater(a, b) = cmpgt(w, a, b)
    BY <1>1, <1>6, LanewiseIs, Zenon DEF compare_greater
  <2>2. /\ cmpgt(w, a, b) \in Register(w, n)
        /\ \A k \in First(n) : cmpgt(w, a, b)[k] = Truth(w, AsSigned(w, a[k]) > AsSigned(w, b[k]))
    BY <1>0, CmpgtIs
  <2>3. \A k \in First(n) : Greater(type, a[k], b[k]) = Truth(w, AsSigned(w, a[k]) > AsSigned(w, b[k]))
    BY <1>w, <1>1, <1>2, <1>6, GreaterIs, Zenon
  <2>4. compare_greater(a, b) \in Register(type.w, n)
    BY <1>1, <2>1, <2>2, Zenon
  <2>5. \A k \in First(n) : compare_greater(a, b)[k] = Greater(type, a[k], b[k])
    BY <2>1, <2>2, <2>3, ZenonT(40)
  <2> QED BY <1>8, <2>4, <2>5
<1>7. CASE ~type.s
  <2>1. \/ compare_greater(a, b) = cmpgt_epu64(w, a, b)
        \/ compare_greater(a, b) = cmpgt_by_max(w, a, b)
        \/ compare_greater(a, b) = cmpgt_epu16(w, a, b)
    <3>1. \/ type.n = 2 \/ type.n \in {4, 16} \/ type.n = 8
      BY <1>w
    <3> DEFINE g == lanewise(type, "cmpgt", a, b, 0)
    <3>2. /\ ~type.s /\ type.n = 2 => g = cmpgt_epu64(type.w, a, b)
          /\ ~type.s /\ type.n \in {4, 16} => g = cmpgt_by_max(type.w, a, b)
          /\ ~type.s /\ type.n = 8 =>
               g = IF bits = 128 THEN cmpgt_epu16(type.w, a, b) ELSE cmpgt_by_max(type.w, a, b)
      <4>1. ~type.s /\ type.n = 2 => g = cmpgt_epu64(type.w, a, b)
        BY LanewiseIs, ZenonT(60)
      <4>2. ~type.s /\ type.n \in {4, 16} => g = cmpgt_by_max(type.w, a, b)
        BY LanewiseIs, ZenonT(60)
      <4>3. ~type.s /\ type.n = 8 =>
              g = IF bits = 128 THEN cmpgt_epu16(type.w, a, b) ELSE cmpgt_by_max(type.w, a, b)
        BY LanewiseIs, ZenonT(60)
      <4> QED BY <4>1, <4>2, <4>3
    <3>3. compare_greater(a, b) = g
      BY DEF compare_greater
    <3> HIDE DEF g
    <3>4. CASE type.n = 8
      <4>1. CASE bits = 128
        BY <1>1, <1>7, <3>2, <3>3, <3>4, <4>1, Zenon
      <4>2. CASE bits # 128
        BY <1>1, <1>7, <3>2, <3>3, <3>4, <4>2, Zenon
      <4> QED BY <4>1, <4>2
    <3> QED BY <1>1, <1>7, <3>1, <3>2, <3>3, <3>4, Zenon
  <2>2. \A g \in {cmpgt_epu64(w, a, b), cmpgt_by_max(w, a, b), cmpgt_epu16(w, a, b)} :
           g \in Register(w, n) /\ \A k \in First(n) : g[k] = Truth(w, a[k] > b[k])
    <3>1. /\ cmpgt_epu64(w, a, b) \in Register(w, n)
          /\ \A k \in First(n) : cmpgt_epu64(w, a, b)[k] = Truth(w, a[k] > b[k])
      BY <1>0, CmpgtEpu64Is
    <3>2. /\ cmpgt_by_max(w, a, b) \in Register(w, n)
          /\ \A k \in First(n) : cmpgt_by_max(w, a, b)[k] = Truth(w, a[k] > b[k])
      BY <1>0, CmpgtByMaxIs
    <3>3. /\ cmpgt_epu16(w, a, b) \in Register(w, n)
          /\ \A k \in First(n) : cmpgt_epu16(w, a, b)[k] = Truth(w, a[k] > b[k])
      BY <1>0, CmpgtEpu16Is
    <3> QED BY <3>1, <3>2, <3>3, Zenon
  <2>3. \A k \in First(n) : Greater(type, a[k], b[k]) = Truth(w, a[k] > b[k])
    BY <1>w, <1>1, <1>2, <1>7, GreaterIs, Zenon
  <2>4. compare_greater(a, b) \in Register(type.w, n)
    BY <1>1, <2>1, <2>2, Zenon
  <2>5. \A k \in First(n) : compare_greater(a, b)[k] = Greater(type, a[k], b[k])
    BY <2>1, <2>2, <2>3, ZenonT(40)
  <2> QED BY <1>8, <2>4, <2>5
<1> QED BY <1>6, <1>7

\* The masks of two numbers in each order.
Same(w, i, j) == Truth(w, i = j)
More(w, i, j) == Truth(w, i > j)
Fewer(w, i, j) == Truth(w, i < j)
AtLeast(w, i, j) == Truth(w, i >= j)
AtMost(w, i, j) == Truth(w, i <= j)

\* The masks of the three outcomes of a comparison, in terms of two of them.
LEMMA OrderMasks ==
  ASSUME NEW w \in Nat \ {0}, NEW i \in Int, NEW j \in Int
  PROVE  /\ Num(Bin(w, Same(w, i, j)) \cup Bin(w, More(w, i, j))) = AtLeast(w, i, j)
         /\ Num(Bin(w, Same(w, i, j)) \cup Bin(w, More(w, j, i))) = AtMost(w, i, j)
         /\ More(w, j, i) = Fewer(w, i, j)
<1>1. /\ Num(Bin(w, 0) \cup Bin(w, 0)) = 0
      /\ Num(Bin(w, 0) \cup Bin(w, Ones(w))) = Ones(w)
      /\ Num(Bin(w, Ones(w)) \cup Bin(w, 0)) = Ones(w)
  <2>1. 0 \in Cells(w) /\ Ones(w) \in Cells(w)
    BY Base DEF Cells, Ones
  <2> QED BY <2>1, MaskedBits
<1>2. CASE i = j
  <2>1. /\ Same(w, i, j) = Ones(w) /\ More(w, i, j) = 0 /\ More(w, j, i) = 0
        /\ AtLeast(w, i, j) = Ones(w) /\ AtMost(w, i, j) = Ones(w) /\ Fewer(w, i, j) = 0
    BY <1>2 DEF Truth, Same, More, Fewer, AtLeast, AtMost
  <2> QED BY <1>1, <2>1, Zenon
<1>3. CASE i > j
  <2>1. /\ Same(w, i, j) = 0 /\ More(w, i, j) = Ones(w) /\ More(w, j, i) = 0
        /\ AtLeast(w, i, j) = Ones(w) /\ AtMost(w, i, j) = 0 /\ Fewer(w, i, j) = 0
    BY <1>3 DEF Truth, Same, More, Fewer, AtLeast, AtMost
  <2> QED BY <1>1, <2>1, Zenon
<1>4. CASE j > i
  <2>1. /\ Same(w, i, j) = 0 /\ More(w, i, j) = 0 /\ More(w, j, i) = Ones(w)
        /\ AtLeast(w, i, j) = 0 /\ AtMost(w, i, j) = Ones(w) /\ Fewer(w, i, j) = Ones(w)
    BY <1>4 DEF Truth, Same, More, Fewer, AtLeast, AtMost
  <2> QED BY <1>1, <2>1, Zenon
<1> QED BY <1>2, <1>3, <1>4

\* What the compiler makes of a comparison.
LEMMA ComparedIs ==
  ASSUME NEW t, NEW w, w = t.w, NEW n \in Nat,
         NEW a \in Register(w, n), NEW b \in Register(w, n)
  PROVE  /\ compare_equal_constexpr(t, a, b) = [k \in First(n) |-> Equal(t, a[k], b[k])]
         /\ compare_greater_constexpr(t, a, b) = [k \in First(n) |-> Greater(t, a[k], b[k])]
         /\ compare_greater_equal_constexpr(t, a, b)
              = [k \in First(n) |-> AtLeast(w, Value(t.s, w, a[k]), Value(t.s, w, b[k]))]
         /\ compare_less_constexpr(t, a, b)
              = [k \in First(n) |-> Fewer(w, Value(t.s, w, a[k]), Value(t.s, w, b[k]))]
         /\ compare_less_equal_constexpr(t, a, b)
              = [k \in First(n) |-> AtMost(w, Value(t.s, w, a[k]), Value(t.s, w, b[k]))]
<1>1. DOMAIN a = First(n)
  BY LaneOfRegister
<1>2. compare_equal_constexpr(t, a, b) = [k \in First(n) |-> Equal(t, a[k], b[k])]
  BY <1>1, Zenon DEF compare_equal_constexpr, Compared, Zip, Equal
<1>3. compare_greater_constexpr(t, a, b) = [k \in First(n) |-> Greater(t, a[k], b[k])]
  BY <1>1, Zenon DEF compare_greater_constexpr, Compared, Zip, Greater
<1>4. compare_greater_equal_constexpr(t, a, b)
        = [k \in First(n) |-> AtLeast(w, Value(t.s, w, a[k]), Value(t.s, w, b[k]))]
  BY <1>1, Zenon DEF compare_greater_equal_constexpr, Compared, Zip, AtLeast
<1>5. compare_less_constexpr(t, a, b)
        = [k \in First(n) |-> Fewer(w, Value(t.s, w, a[k]), Value(t.s, w, b[k]))]
  BY <1>1, Zenon DEF compare_less_constexpr, Compared, Zip, Fewer
<1>6. compare_less_equal_constexpr(t, a, b)
        = [k \in First(n) |-> AtMost(w, Value(t.s, w, a[k]), Value(t.s, w, b[k]))]
  BY <1>1, Zenon DEF compare_less_equal_constexpr, Compared, Zip, AtMost
<1> QED BY <1>2, <1>3, <1>4, <1>5, <1>6

\* A comparison or equality is that of the comparison's result and equality's.
LEMMA EitherIs ==
  ASSUME NEW t, NEW w \in Nat \ {0}, w = t.w, NEW x \in Cells(w), NEW y \in Cells(w)
  PROVE  /\ Num(Bin(w, Equal(t, x, y)) \cup Bin(w, Greater(t, x, y)))
              = AtLeast(w, Value(t.s, w, x), Value(t.s, w, y))
         /\ Greater(t, y, x) = Fewer(w, Value(t.s, w, x), Value(t.s, w, y))
         /\ Num(Bin(w, Equal(t, x, y)) \cup Bin(w, Greater(t, y, x)))
              = AtMost(w, Value(t.s, w, x), Value(t.s, w, y))
<1>1. PICK s : s = t.s
  OBVIOUS
<1>2. PICK i, j \in Int : i = Value(s, w, x) /\ j = Value(s, w, y)
  BY ValueIs
<1>3. Equal(t, x, y) = Same(w, i, j) /\ Greater(t, x, y) = More(w, i, j) /\ Greater(t, y,
          x) = More(w, j, i)
  BY <1>1, <1>2 DEF Equal, Greater, Same, More, Truth
<1>4. /\ Num(Bin(w, Same(w, i, j)) \cup Bin(w, More(w, i, j))) = AtLeast(w, i, j)
      /\ Num(Bin(w, Same(w, i, j)) \cup Bin(w, More(w, j, i))) = AtMost(w, i, j)
      /\ More(w, j, i) = Fewer(w, i, j)
  BY OrderMasks
<1> QED BY <1>1, <1>2, <1>3, <1>4, Zenon

\* A register is known by its lanes.
LEMMA SameRegister ==
  ASSUME NEW w, NEW n, NEW r \in Register(w, n), NEW q \in Register(w, n),
         \A k \in First(n) : r[k] = q[k]
  PROVE  r = q
BY DEF Register

\* Registers of masks: all ones or zero in a lane.
Masks(w, n) == [First(n) -> {0, Ones(w)}]

\* They are registers.
LEMMA MaskIs ==
  ASSUME NEW w \in Nat \ {0}, NEW n, NEW m \in Masks(w, n)
  PROVE  m \in Register(w, n)
<1>1. 0 \in Cells(w) /\ Ones(w) \in Cells(w)
  BY Base DEF Cells, Ones
<1> QED BY <1>1 DEF Masks, Register

\* And so is what comparisons leave.
LEMMA OrderIsMask ==
  ASSUME NEW t, NEW w, w = t.w, NEW x, NEW y
  PROVE  /\ Equal(t, x, y) \in {0, Ones(w)} /\ Greater(t, x, y) \in {0, Ones(w)}
         /\ AtLeast(w, x, y) \in {0, Ones(w)} /\ AtMost(w, x, y) \in {0, Ones(w)}
         /\ Fewer(w, x, y) \in {0, Ones(w)}
<1>1. ASSUME NEW p
      PROVE  Truth(w, p) \in {0, Ones(w)}
  <2>1. CASE p
    BY <2>1 DEF Truth
  <2>2. CASE ~p
    BY <2>2 DEF Truth
  <2> QED BY <2>1, <2>2
<1>2. Equal(t, x, y) = Truth(w, Value(t.s, w, x) = Value(t.s, w, y))
  BY Zenon DEF Equal
<1> QED BY <1>1, <1>2 DEF Greater, AtLeast, AtMost, Fewer

\* A comparison is what the compiler makes of it, a register of masks.
LEMMA PredicatesAgree ==
  ASSUME type \in Types, NEW n \in Nat, NEW a \in Register(type.w, n), NEW b \in Register(type.w, n)
  PROVE  /\ compare_equal(a, b) = compare_equal_constexpr(type, a, b)
         /\ compare_greater(a, b) = compare_greater_constexpr(type, a, b)
         /\ compare_greater_equal(a, b) = compare_greater_equal_constexpr(type, a, b)
         /\ compare_less(a, b) = compare_less_constexpr(type, a, b)
         /\ compare_less_equal(a, b) = compare_less_equal_constexpr(type, a, b)
         /\ compare_equal(a, b) \in Masks(type.w, n)
         /\ compare_greater(a, b) \in Masks(type.w, n)
         /\ compare_greater_equal(a, b) \in Masks(type.w, n)
         /\ compare_less(a, b) \in Masks(type.w, n)
         /\ compare_less_equal(a, b) \in Masks(type.w, n)
<1>1. PICK w \in Nat \ {0} : w = type.w
  BY TypeIs, Zenon
<1>2. a \in Register(w, n) /\ b \in Register(w, n) /\ w \in Nat
  BY <1>1
<1>3. \A k \in First(n) : a[k] \in Cells(w) /\ b[k] \in Cells(w)
  BY <1>2, LaneOfRegister
<1>4. PICK e \in Register(w, n), g \in Register(w, n), l \in Register(w, n) :
        /\ e = compare_equal(a, b) /\ g = compare_greater(a, b) /\ l = compare_less(a, b)
        /\ \A k \in First(n) : e[k] = Equal(type, a[k], b[k])
        /\ \A k \in First(n) : g[k] = Greater(type, a[k], b[k])
        /\ \A k \in First(n) : l[k] = Greater(type, b[k], a[k])
  <2>1. /\ compare_equal(a, b) \in Register(w, n)
        /\ compare_greater(a, b) \in Register(w, n)
        /\ \A k \in First(n) : compare_equal(a, b)[k] = Equal(type, a[k], b[k])
        /\ \A k \in First(n) : compare_greater(a, b)[k] = Greater(type, a[k], b[k])
    BY <1>1, CompareIs, Zenon
  <2>2. compare_less(a, b) = compare_greater(b, a)
    BY DEF compare_less, compare_greater
  <2>3. /\ compare_greater(b, a) \in Register(w, n)
        /\ \A k \in First(n) : compare_greater(b, a)[k] = Greater(type, b[k], a[k])
    BY <1>1, CompareIs, Zenon
  <2> QED BY <2>1, <2>2, <2>3, Zenon
<1>5. PICK u \in Register(w, n), v \in Register(w, n) :
        /\ u = compare_greater_equal(a, b) /\ v = compare_less_equal(a, b)
        /\ \A k \in First(n) : u[k] = Num(Bin(w, e[k]) \cup Bin(w, g[k]))
        /\ \A k \in First(n) : v[k] = Num(Bin(w, e[k]) \cup Bin(w, l[k]))
  <2>1. /\ or(w, e, g) \in Register(w, n)
        /\ \A k \in First(n) : or(w, e, g)[k] = Num(Bin(w, e[k]) \cup Bin(w, g[k]))
    BY <1>2, OrIs
  <2>2. /\ or(w, e, l) \in Register(w, n)
        /\ \A k \in First(n) : or(w, e, l)[k] = Num(Bin(w, e[k]) \cup Bin(w, l[k]))
    BY <1>2, OrIs
  <2>3. compare_greater_equal(a, b) = or(w, e, g) /\ compare_less_equal(a, b) = or(w, e, l)
    BY <1>1, <1>4, Zenon DEF compare_greater_equal, compare_less_equal
  <2> QED BY <2>1, <2>2, <2>3, Zenon
<1>6. ASSUME NEW x \in Cells(w), NEW y \in Cells(w)
      PROVE  /\ Num(Bin(w, Equal(type, x, y)) \cup Bin(w, Greater(type, x, y)))
                   = AtLeast(w, Value(type.s, w, x), Value(type.s, w, y))
             /\ Greater(type, y, x) = Fewer(w, Value(type.s, w, x), Value(type.s, w, y))
             /\ Num(Bin(w, Equal(type, x, y)) \cup Bin(w, Greater(type, y, x)))
                   = AtMost(w, Value(type.s, w, x), Value(type.s, w, y))
  BY <1>1, EitherIs, SMTT(30)
<1>7. /\ \A k \in First(n) : u[k] = AtLeast(w, Value(type.s, w, a[k]), Value(type.s, w, b[k]))
      /\ \A k \in First(n) : l[k] = Fewer(w, Value(type.s, w, a[k]), Value(type.s, w, b[k]))
      /\ \A k \in First(n) : v[k] = AtMost(w, Value(type.s, w, a[k]), Value(type.s, w, b[k]))
  <2> SUFFICES ASSUME NEW k \in First(n)
               PROVE  /\ u[k] = AtLeast(w, Value(type.s, w, a[k]), Value(type.s, w, b[k]))
                      /\ l[k] = Fewer(w, Value(type.s, w, a[k]), Value(type.s, w, b[k]))
                      /\ v[k] = AtMost(w, Value(type.s, w, a[k]), Value(type.s, w, b[k]))
    BY Zenon
  <2>1. PICK x, y \in Cells(w) : x = a[k] /\ y = b[k]
    BY <1>3, Zenon
  <2>2. /\ u[k] = Num(Bin(w, Equal(type, x, y)) \cup Bin(w, Greater(type, x, y)))
        /\ l[k] = Greater(type, y, x)
        /\ v[k] = Num(Bin(w, Equal(type, x, y)) \cup Bin(w, Greater(type, y, x)))
    BY <1>4, <1>5, <2>1, Zenon
  <2> QED BY <1>6, <2>1, <2>2, Zenon
<1>8. /\ e = [k \in First(n) |-> Equal(type, a[k], b[k])]
      /\ g = [k \in First(n) |-> Greater(type, a[k], b[k])]
      /\ u = [k \in First(n) |-> AtLeast(w, Value(type.s, w, a[k]), Value(type.s, w, b[k]))]
      /\ l = [k \in First(n) |-> Fewer(w, Value(type.s, w, a[k]), Value(type.s, w, b[k]))]
      /\ v = [k \in First(n) |-> AtMost(w, Value(type.s, w, a[k]), Value(type.s, w, b[k]))]
  BY <1>4, <1>7 DEF Register
<1>9. /\ compare_equal_constexpr(type, a, b) = e
      /\ compare_greater_constexpr(type, a, b) = g
      /\ compare_greater_equal_constexpr(type, a, b) = u
      /\ compare_less_constexpr(type, a, b) = l
      /\ compare_less_equal_constexpr(type, a, b) = v
  BY <1>1, <1>2, <1>8, ComparedIs
<1>10. ASSUME NEW k \in First(n)
       PROVE  /\ e[k] \in {0, Ones(w)} /\ g[k] \in {0, Ones(w)} /\ u[k] \in {0, Ones(w)}
              /\ l[k] \in {0, Ones(w)} /\ v[k] \in {0, Ones(w)}
  <2>1. /\ Equal(type, a[k], b[k]) \in {0, Ones(w)} /\ Greater(type, a[k], b[k]) \in {0, Ones(w)}
        /\ \A i, j : /\ AtLeast(w, i, j) \in {0, Ones(w)} /\ AtMost(w, i, j) \in {0, Ones(w)}
                    /\ Fewer(w, i, j) \in {0, Ones(w)}
    BY <1>1, OrderIsMask
  <2>2. e[k] \in {0, Ones(w)} /\ g[k] \in {0, Ones(w)}
    BY <1>4, <2>1, Zenon
  <2>3. u[k] \in {0, Ones(w)}
    BY <1>7, <2>1, Zenon
  <2>4. l[k] \in {0, Ones(w)}
    BY <1>7, <2>1, Zenon
  <2>5. v[k] \in {0, Ones(w)}
    BY <1>7, <2>1, Zenon
  <2> QED BY <2>2, <2>3, <2>4, <2>5
<1>11. /\ e \in Masks(w, n) /\ g \in Masks(w, n) /\ u \in Masks(w, n)
       /\ l \in Masks(w, n) /\ v \in Masks(w, n)
  BY <1>10 DEF Masks, Register
<1> QED BY <1>1, <1>4, <1>5, <1>9, <1>11, Zenon

\* Selecting by masks is the same bit by bit.
LEMMA BlendByMask ==
  ASSUME NEW w \in Nat \ {0}, NEW n \in Nat, NEW m \in Masks(w, n),
         NEW a \in Register(w, n), NEW b \in Register(w, n)
  PROVE  blendv(w, b, a, m) = or(w, and(w, m, a), andnot(w, m, b))
<1>1. w \in Nat
  OBVIOUS
<1>3. m \in Register(w, n)
  BY MaskIs
<1>2. \A x, y \in Register(w, n) :
        /\ or(w, x, y) \in Register(w, n)
        /\ \A k \in First(n) : or(w, x, y)[k] = Num(Bin(w, x[k]) \cup Bin(w, y[k]))
  BY <1>1, OrIs
<1>4. PICK r \in Register(w, n) :
        r = blendv(w, b, a, m) /\ \A k \in First(n) : r[k] = IF m[k] >= SignBit(w) THEN a[k] ELSE b[k]
  <2>1. /\ blendv(w, b, a, m) \in Register(w, n)
        /\ \A k \in First(n) : blendv(w, b, a, m)[k] = IF m[k] >= SignBit(w) THEN a[k] ELSE b[k]
    BY <1>1, BlendIs
  <2> QED BY <2>1, Zenon
<1>5. PICK c \in Register(w, n) :
        c = and(w, m, a) /\ \A k \in First(n) : c[k] = Num(Bin(w, m[k]) \cap Bin(w, a[k]))
  <2>1. /\ and(w, m, a) \in Register(w, n)
        /\ \A k \in First(n) : and(w, m, a)[k] = Num(Bin(w, m[k]) \cap Bin(w, a[k]))
    BY <1>1, <1>3, AndIs, SMTT(30)
  <2> QED BY <2>1, Zenon
<1>6. PICK d \in Register(w, n) :
        d = andnot(w, m, b) /\ \A k \in First(n) : d[k] = Num(Bin(w, b[k]) \ Bin(w, m[k]))
  <2>1. /\ andnot(w, m, b) \in Register(w, n)
        /\ \A k \in First(n) : andnot(w, m, b)[k] = Num(Bin(w, b[k]) \ Bin(w, m[k]))
    BY <1>1, <1>3, AndnotIs
  <2> QED BY <2>1, Zenon
<1>7. PICK q \in Register(w, n) :
        q = or(w, c, d) /\ \A k \in First(n) : q[k] = Num(Bin(w, c[k]) \cup Bin(w, d[k]))
  <2>0. c \in Register(w, n) /\ d \in Register(w, n)
    BY Zenon
  <2>1. /\ or(w, c, d) \in Register(w, n)
        /\ \A k \in First(n) : or(w, c, d)[k] = Num(Bin(w, c[k]) \cup Bin(w, d[k]))
    BY <1>2, <2>0, Zenon
  <2> QED BY <2>1, Zenon
<1>8. ASSUME NEW k \in First(n)
      PROVE  r[k] = q[k]
  <2>1. PICK x \in Cells(w), y \in Cells(w) : x = a[k] /\ y = b[k]
    BY LaneOfRegister
  <2>2. m[k] \in {0, Ones(w)}
    BY DEF Masks
  <2>3. /\ Num(Bin(w, Ones(w)) \cap Bin(w, x)) = x /\ Num(Bin(w, y) \ Bin(w, Ones(w))) = 0
        /\ Num(Bin(w, x) \cup Bin(w, 0)) = x
        /\ Num(Bin(w, 0) \cap Bin(w, x)) = 0 /\ Num(Bin(w, y) \ Bin(w, 0)) = y
        /\ Num(Bin(w, 0) \cup Bin(w, y)) = y
    BY <1>1, MaskedBits
  <2>4. Ones(w) >= SignBit(w) /\ ~(0 >= SignBit(w))
    <3>1. PICK S \in Nat : S = SignBit(w) /\ S > 0 /\ 2 ^ w = 2 * S
      BY Base
    <3> QED BY <3>1 DEF Ones
  <2>5. CASE m[k] = Ones(w)
    BY <1>4, <1>5, <1>6, <1>7, <2>1, <2>3, <2>4, <2>5, ZenonT(40)
  <2>6. CASE m[k] = 0
    BY <1>4, <1>5, <1>6, <1>7, <2>1, <2>3, <2>4, <2>6, ZenonT(40)
  <2> QED BY <2>2, <2>5, <2>6
<1>9. r = q
  BY <1>8, SameRegister
<1> QED BY <1>4, <1>5, <1>6, <1>7, <1>9, Zenon

\* So select is what the compiler makes of it.
LEMMA SelectAgrees ==
  ASSUME type \in Types, NEW n \in Nat, NEW m \in Masks(type.w, n),
         NEW a \in Register(type.w, n), NEW b \in Register(type.w, n)
  PROVE  select(m, a, b) = select_constexpr(type, m, a, b)
<1>1. type.w \in Nat \ {0}
  BY TypeIs
<1>2. blendv(type.w, b, a, m) = or(type.w, and(type.w, m, a), andnot(type.w, m, b))
  BY <1>1, BlendByMask
<1> QED BY <1>2, Zenon DEF select, select_constexpr, bitwise_or_constexpr, bitwise_and_constexpr,
             bitwise_andnot_constexpr

-------------------------------------------------------------------------------
(***************************************************************************)
(* The masks of a bit per byte and of a bit per lane.                      *)
(***************************************************************************)

\* The top bit of a byte.
LEMMA ByteSign == SignBit(8) = 128
<1>1. 2 ^ 7 = 128 /\ 8 - 1 = 7
  OBVIOUS
<1> QED BY <1>1 DEF SignBit

\* A register of bytes.
Bytes(N) == [First(N) -> Int]

\* The swizzle gathers the odd bytes at the bottom of each half.
LEMMA SwizzledIs ==
  ASSUME NEW N \in {16, 32}, NEW v \in Bytes(N)
  PROVE  movemask(8, swizzle_msb(2, v))
           = {k \in First(N) : k % 16 < 8 /\ v[(k - (k % 16)) + 2 * (k % 16) + 1] >= 128}
<1>1. DOMAIN v = First(N)
  BY DEF Bytes
<1>2. PICK o : /\ o = get_msb_swizzle_order(2, v)
               /\ o = [k \in First(N) |-> IF k % 16 < 8 THEN 2 * (k % 16) + 1 ELSE 128]
  <2>1. 16 \div 2 = 8 /\ 2 - 1 = 1
    OBVIOUS
  <2> QED BY <1>1, <2>1, ZenonT(40) DEF get_msb_swizzle_order
<1>3. PICK s : /\ s = swizzle_msb(2, v)
               /\ s = [k \in First(N) |-> IF o[k] >= 128 THEN 0 ELSE v[(k - (k % 16)) + (o[k] % 16)]]
  BY <1>1, <1>2, ZenonT(40) DEF swizzle_msb, pshufb
<1>4. ASSUME NEW k \in First(N)
      PROVE  s[k] >= 128 <=> k % 16 < 8 /\ v[(k - (k % 16)) + 2 * (k % 16) + 1] >= 128
  <2>1. k \in Int /\ k % 16 \in 0 .. 15
    BY DEF First
  <2>2. CASE k % 16 < 8
    <3>1. o[k] = 2 * (k % 16) + 1 /\ ~(o[k] >= 128) /\ o[k] % 16 = 2 * (k % 16) + 1
      BY <1>2, <2>1, <2>2
    <3>2. s[k] = v[(k - (k % 16)) + (2 * (k % 16) + 1)]
      BY <1>3, <3>1
    <3>3. (k - (k % 16)) + (2 * (k % 16) + 1) = (k - (k % 16)) + 2 * (k % 16) + 1
      BY <2>1
    <3> QED BY <2>2, <3>2, <3>3
  <2>3. CASE ~(k % 16 < 8)
    <3>1. o[k] = 128
      BY <1>2, <2>3
    <3>2. s[k] = 0
      BY <1>3, <3>1
    <3> QED BY <2>3, <3>2
  <2> QED BY <2>2, <2>3
<1>5. movemask(8, s) = {k \in First(N) : s[k] >= 128}
  BY <1>3, ByteSign DEF movemask
<1>6. {k \in First(N) : s[k] >= 128}
        = {k \in First(N) : k % 16 < 8 /\ v[(k - (k % 16)) + 2 * (k % 16) + 1] >= 128}
  BY <1>4, Zenon
<1> QED BY <1>3, <1>5, <1>6, Zenon

\* One bit for each lane.
LEMMA SlimAgrees ==
  ASSUME NEW e \in {1, 2, 4, 8}
  PROVE  /\ \A v \in Bytes(16) : movemask_slim_128(e, v) = movemask_slim_constexpr(e, v)
         /\ \A v \in Bytes(32) : movemask_slim_256(e, v) = movemask_slim_constexpr(e, v)
<1>1. ASSUME NEW N \in {16, 32}, NEW v \in Bytes(N)
      PROVE  movemask_slim_constexpr(e, v) = {k \in First(N \div e) : v[e * k + e - 1] >= 128}
  <2>1. LanesOf(v) = N
    <3>1. N \in Nat
      OBVIOUS
    <3> QED BY <3>1, LaneCount DEF Bytes
  <2> QED BY <2>1, Zenon DEF movemask_slim_constexpr
<1>2. CASE e # 2
  BY <1>1, <1>2, Zenon DEF movemask_slim_128, movemask_slim_256
<1>3. CASE e = 2
  <2>1. ASSUME NEW v \in Bytes(16)
        PROVE  movemask_slim_128(e, v) = movemask_slim_constexpr(e, v)
    <3>1. movemask_slim_128(e, v)
            = {k \in First(16) : k % 16 < 8 /\ v[(k - (k % 16)) + 2 * (k % 16) + 1] >= 128}
      BY <1>3, SwizzledIs DEF movemask_slim_128
    <3>2. movemask_slim_constexpr(e, v) = {k \in First(8) : v[2 * k + 1] >= 128}
      <4>1. 16 \div 2 = 8 /\ \A k \in First(8) : 2 * k + 2 - 1 = 2 * k + 1
        BY DEF First
      <4> QED BY <1>1, <1>3, <4>1
    <3>3. {k \in First(16) : k % 16 < 8 /\ v[(k - (k % 16)) + 2 * (k % 16) + 1] >= 128}
            = {k \in First(8) : v[2 * k + 1] >= 128}
      <4>1. \A k \in First(16) :
              /\ k % 16 = k /\ (k < 8 <=> k \in First(8))
              /\ k - k = 0 /\ 0 + 2 * k + 1 = 2 * k + 1
        BY DEF First
      <4>2. First(8) \subseteq First(16)
        BY DEF First
      <4> QED BY <4>1, <4>2
    <3> QED BY <3>1, <3>2, <3>3, Zenon
  <2>2. ASSUME NEW v \in Bytes(32)
        PROVE  movemask_slim_256(e, v) = movemask_slim_constexpr(e, v)
    <3>1. PICK raw : /\ raw = movemask(8, swizzle_msb(e, v))
                     /\ raw = {k \in First(32) : k % 16 < 8 /\
                         v[(k - (k % 16)) + 2 * (k % 16) + 1] >= 128}
      BY <1>3, SwizzledIs
    <3>2. movemask_slim_constexpr(e, v) = {k \in First(16) : v[2 * k + 1] >= 128}
      <4>1. 32 \div 2 = 16 /\ \A k \in First(16) : 2 * k + 2 - 1 = 2 * k + 1
        BY DEF First
      <4> QED BY <1>1, <1>3, <4>1
    <3>3. movemask_slim_256(e, v) = (raw \cap (0 .. 7)) \cup ({k - 8 : k \in raw} \cap (8 .. 15))
      BY <1>3, <3>1, Zenon DEF movemask_slim_256
    <3>4. ASSUME NEW j \in 0 .. 7
          PROVE  j \in raw <=> v[2 * j + 1] >= 128
      <4>1. j \in First(32) /\ j % 16 = j /\ j < 8 /\ (j - j) + 2 * j + 1 = 2 * j + 1
        BY DEF First
      <4> QED BY <3>1, <4>1
    <3>5. ASSUME NEW j \in 8 .. 15
          PROVE  j + 8 \in raw <=> v[2 * j + 1] >= 128
      <4>1. /\ j + 8 \in First(32) /\ (j + 8) % 16 = j - 8 /\ j - 8 < 8
            /\ ((j + 8) - (j - 8)) + 2 * (j - 8) + 1 = 2 * j + 1
        BY DEF First
      <4> QED BY <3>1, <4>1
    <3>6. ASSUME NEW j
          PROVE  j \in (raw \cap (0 .. 7)) \cup ({k - 8 : k \in raw} \cap (8 .. 15))
                   <=> j \in First(16) /\ v[2 * j + 1] >= 128
      <4>1. raw \subseteq Int
        BY <3>1 DEF First
      <4>2. First(16) = (0 .. 7) \cup (8 .. 15)
        BY DEF First
      <4>3. CASE j \in 0 .. 7
        <5>1. j \notin 8 .. 15 /\ j \in First(16)
          BY <4>3 DEF First
        <5> QED BY <3>4, <4>3, <5>1, Zenon
      <4>4. CASE j \in 8 .. 15
        <5>1. j \notin 0 .. 7 /\ j \in First(16)
          BY <4>4 DEF First
        <5>2. j \in {k - 8 : k \in raw} <=> j + 8 \in raw
          BY <4>1, <4>4
        <5> QED BY <3>5, <4>4, <5>1, <5>2, Zenon
      <4>5. CASE j \notin First(16)
        BY <4>2, <4>5, Zenon
      <4> QED BY <4>2, <4>3, <4>4, <4>5, Zenon
    <3> QED BY <3>2, <3>3, <3>6
  <2> QED BY <2>1, <2>2
<1> QED BY <1>2, <1>3

\* The bytes of a predicate, and the masks made of them.
LEMMA MasksAgree ==
  ASSUME type \in Types, bits \in {128, 256}, NEW p \in Register(type.w, Count)
  PROVE  /\ movemask(8, predicateBytes(p)) = movemask_constexpr(predicateBytes(p))
         /\ movemask_slim(predicateBytes(p)) = movemask_slim_constexpr(elementBytes, predicateBytes(p))
<1>1. movemask(8, predicateBytes(p)) = movemask_constexpr(predicateBytes(p))
  BY ByteSign, Zenon DEF movemask, movemask_constexpr
<1>2. LanesOf(p) = Count
  <2>1. Count \in Nat
    BY CountIs
  <2> QED BY <2>1, LaneOfRegister
<1>3. PICK e \in {1, 2, 4, 8} : e = elementBytes /\ e * type.n = 16
  <2>1. type.n \in {2, 4, 8, 16}
    BY TypeIs
  <2> QED BY <2>1 DEF elementBytes
<1>4. ASSUME NEW N, elementBytes * LanesOf(p) = N
      PROVE  predicateBytes(p) \in Bytes(N)
  BY <1>4 DEF predicateBytes, Bytes
<1>5. CASE bits = 128
  <2>1. elementBytes * LanesOf(p) = 16
    BY <1>2, <1>3, <1>5, CountIs
  <2> QED BY <1>1, <1>3, <1>4, <1>5, <2>1, SlimAgrees, Zenon DEF movemask_slim
<1>6. CASE bits = 256
  <2>1. Count = 2 * type.n /\ bits # 128
    BY <1>6, CountIs
  <2>2. type.n \in Nat
    BY TypeIs
  <2>3. elementBytes * LanesOf(p) = 32
    BY <1>2, <1>3, <2>1, <2>2
  <2>4. PICK v \in Bytes(32) : v = predicateBytes(p)
    BY <1>4, <2>3
  <2>5. movemask_slim_256(e, v) = movemask_slim_constexpr(e, v)
    BY SlimAgrees
  <2>6. movemask_slim(v) = movemask_slim_256(elementBytes, v)
    BY <2>1, Zenon DEF movemask_slim
  <2> QED BY <1>1, <1>3, <2>4, <2>5, <2>6, Zenon
<1> QED BY <1>5, <1>6

-------------------------------------------------------------------------------
(***************************************************************************)
(* Shifts: lanes of 8 bits are shifted in lanes of 16, and 64-bit lanes    *)
(* are shifted with a sign of their own.                                   *)
(***************************************************************************)

\* A quotient of what is below a multiple of the divisor.
LEMMA QuotientBelow ==
  ASSUME NEW C \in Nat, C > 0, NEW Q \in Nat, NEW x \in 0 .. Q * C - 1
  PROVE  x \div C \in 0 .. Q - 1
<1>1. PICK r \in 0 .. C - 1, d \in Int : r = x % C /\ d = x \div C /\ x = r + d * C
  BY Divided, x \in Int
<1>2. d >= 0
  <2>1. CASE d <= -1
    <3>1. d * C <= (-1) * C
      BY <2>1
    <3> QED BY <1>1, <3>1
  <2> QED BY <2>1
<1>3. d < Q
  <2>1. CASE d >= Q
    <3>1. d * C >= Q * C
      BY <2>1
    <3> QED BY <1>1, <3>1
  <2> QED BY <2>1
<1> QED BY <1>1, <1>2, <1>3

\* Dividing by one and by the other.
LEMMA DividedTwice ==
  ASSUME NEW C \in Nat, C > 0, NEW P \in Nat, P > 0, NEW x \in 0 .. P - 1, NEW y \in Int
  PROVE  ((x + y * P) \div C) \div P = y \div C
<1>1. PICK r \in 0 .. C - 1, q \in Int : r = y % C /\ q = y \div C /\ y = r + q * C
  BY Divided
<1>2. x + y * P = (x + r * P) + (q * P) * C /\ q * P \in Int
  BY <1>1
<1>3. x + r * P \in 0 .. P * C - 1
  <2>1. r * P <= (C - 1) * P /\ (C - 1) * P = P * C - P /\ r * P >= 0 /\ r * P \in Int
    BY <1>1
  <2> QED BY <2>1
<1>4. PICK d \in 0 .. P - 1 : d = (x + r * P) \div C
  BY <1>3, QuotientBelow
<1>5. (x + y * P) \div C = d + q * P
  BY <1>2, <1>3, <1>4, Congruent
<1>6. (d + q * P) \div P = q
  BY <1>1, Written
<1> QED BY <1>1, <1>5, <1>6

\* A modulus in two parts, and two numbers below it shifted as one.
Parts(P, C, D) ==
  C \in Nat /\ C > 0 /\ D \in Nat /\ D > 0 /\ P \in Nat /\ P = D * C
ShiftedLeft(P, C, x, y) == ((x + P * y) * C) % (P * P)
ShiftedRight(P, C, x, y) == (x + P * y) \div C

\* A number of twice the width, shifted left: what is left of its halves.
LEMMA LeftOfTwo ==
  ASSUME NEW C, NEW D, NEW P, Parts(P, C, D), NEW x \in 0 .. P - 1, NEW y \in 0 .. P - 1,
         NEW z, z = ShiftedLeft(P, C, x, y)
  PROVE  /\ z % P = (x * C) % P
         /\ ((x * C) % P) % C = 0
         /\ (z \div P) - ((z \div P) % C) = (y * C) % P
         /\ z \in Int
<1>p. C \in Nat /\ C > 0 /\ D \in Nat /\ D > 0 /\ P \in Nat /\ P = D * C
  BY DEF Parts
<1>1. P > 0
  BY <1>p, C * D > 0
<1>s. z = ((x + P * y) * C) % (P * P)
  BY DEF ShiftedLeft
<1>2. \A i \in Int : (i * C) % P = (i % D) * C
  BY <1>p, Scaled
<1>3. PICK X \in Int, Y \in Int : X = x * C /\ Y = y * C
  BY <1>p
<1>4. (x + P * y) * C = X + Y * P
  BY <1>p, <1>3
<1>u. PICK U \in Int : U = X + Y * P
  BY <1>p, X + Y * P \in Int
<1>z. z = U % (P * P)
  BY <1>s, <1>4, <1>u, Zenon
<1>5. z % P = X % P
  <2>1. z % P = U % P
    <3>1. (U % (P * P)) % P = U % P
      BY <1>p, <1>1, Remainders
    <3> QED BY <1>z, <3>1, Zenon
  <2>2. (X + Y * P) % P = X % P
    BY <1>p, <1>1, Congruent
  <2> QED BY <1>u, <2>1, <2>2, Zenon
<1>6. (X % P) % C = 0
  <2>1. X % P = (x % D) * C /\ x % D \in Int
    BY <1>p, <1>2, <1>3, Divided
  <2>2. (0 + (x % D) * C) % C = 0
    BY <1>p, <2>1, 0 \in 0 .. C - 1, Written
  <2>3. 0 + (x % D) * C = (x % D) * C
    BY <1>p, <2>1
  <2> QED BY <2>1, <2>2, <2>3
<1>7. z \div P = (U \div P) % P
  <2>1. (U % (P * P)) \div P = (U \div P) % P
    BY <1>p, <1>1, Scaled
  <2> QED BY <1>z, <2>1, Zenon
<1>8. PICK q \in 0 .. C - 1 : q = X \div P
  <2>1. X \in 0 .. C * P - 1
    <3>1. X <= (P - 1) * C /\ (P - 1) * C = C * P - C /\ X >= 0
      BY <1>p, <1>3
    <3> QED BY <1>p, <3>1
  <2> QED BY <1>p, <1>1, <2>1, QuotientBelow
<1>9. U \div P = q + Y
  <2>1. (X + Y * P) \div P = X \div P + Y
    BY <1>p, <1>1, Congruent
  <2> QED BY <1>8, <1>u, <2>1, Zenon
<1>10. PICK e \in 0 .. D - 1, f \in Int : e = y % D /\ y = e + f * D
  BY <1>p, Divided, y \in Int
<1>11. q + Y = (q + e * C) + f * P /\ e * C \in Int
  BY <1>p, <1>3, <1>10
<1>12. q + e * C \in 0 .. P - 1
  <2>1. e * C <= (D - 1) * C /\ (D - 1) * C = P - C /\ e * C >= 0
    BY <1>p, <1>10
  <2> QED BY <1>p, <1>11, <2>1
<1>13. z \div P = q + e * C
  <2>1. ((q + e * C) + f * P) % P = q + e * C
    BY <1>p, <1>1, <1>10, <1>12, Written
  <2> QED BY <1>7, <1>9, <1>11, <2>1, Zenon
<1>14. (q + e * C) % C = q
  BY <1>p, <1>10, Written
<1>15. (y * C) % P = e * C
  BY <1>p, <1>2, <1>10
<1>t. z \in Int
  BY <1>p, <1>1, <1>u, <1>z, P * P > 0, P * P \in Nat, Divided
<1> QED BY <1>t, <1>p, <1>1, <1>3, <1>5, <1>6, <1>11, <1>13, <1>14, <1>15

\* And shifted right.
LEMMA RightOfTwo ==
  ASSUME NEW C, NEW D, NEW P, Parts(P, C, D), NEW x \in 0 .. P - 1, NEW y \in 0 .. P - 1,
         NEW z, z = ShiftedRight(P, C, x, y)
  PROVE  /\ (z % P) % D = x \div C
         /\ (z \div P) % D = y \div C
<1>p. C \in Nat /\ C > 0 /\ D \in Nat /\ D > 0 /\ P \in Nat /\ P = D * C
  BY DEF Parts
<1>1. P > 0
  BY <1>p, C * D > 0
<1>s. z = (x + P * y) \div C
  BY DEF ShiftedRight
<1>2. x \div C \in 0 .. D - 1 /\ y \div C \in 0 .. D - 1
  BY <1>p, QuotientBelow
<1>3. (x + P * y) = x + (y * D) * C /\ P * y = y * P /\ y * D \in Int
  BY <1>p
<1>4. z = x \div C + y * D
  BY <1>p, <1>s, <1>3, Congruent
<1>5. (x \div C + y * D) % D = x \div C
  BY <1>p, <1>2, Written
<1>6. (z % P) % D = z % D
  <2>1. D \in Nat /\ D > 0 /\ C \in Nat /\ C > 0 /\ z \in Int
    BY <1>p, <1>2, <1>3, <1>4
  <2>2. (z % (D * C)) % D = z % D
    BY <2>1, Remainders
  <2> QED BY <1>p, <2>2, Zenon
<1>7. z \div P = y \div C
  BY <1>p, <1>1, <1>s, <1>3, DividedTwice
<1>8. \A i \in 0 .. D - 1 : i % D = i
  BY <1>p
<1> QED BY <1>2, <1>4, <1>5, <1>6, <1>7, <1>8

\* A value shifted right by the width less one or more: the sign.
LEMMA SignLeft ==
  ASSUME NEW S \in Nat, S > 0, NEW G \in Nat, G >= S, NEW v \in Int, v >= -S, v < S
  PROVE  v \div G = IF v < 0 THEN -1 ELSE 0
<1>1. CASE v < 0
  <2>1. v = (v + G) + (-1) * G /\ v + G \in 0 .. G - 1
    BY <1>1
  <2> QED BY <1>1, <2>1, Written
<1>2. CASE v >= 0
  <2>1. v = v + 0 * G /\ v \in 0 .. G - 1
    BY <1>2
  <2> QED BY <1>2, <2>1, Written
<1> QED BY <1>1, <1>2

\* A power as the product of two.
LEMMA PowerParts ==
  ASSUME NEW w \in Nat \ {0}, NEW c \in 0 .. w - 1
  PROVE  \E C, D \in Nat : /\ C = 2 ^ c /\ D = 2 ^ (w - c)
                           /\ C > 0 /\ D > 0 /\ 2 ^ w = D * C /\ Parts(2 ^ w, C, D)
<1>1. w - c \in Nat /\ c \in Nat /\ (w - c) + c = w
  OBVIOUS
<1>2. 2 ^ w = 2 ^ (w - c) * 2 ^ c
  <2>1. 2 ^ ((w - c) + c) = 2 ^ (w - c) * 2 ^ c
    BY <1>1, PowerSum
  <2> QED BY <1>1, <2>1
<1>3. w \in Nat
  OBVIOUS
<1> QED BY <1>1, <1>2, <1>3, Power DEF Parts

\* Masking lane by lane with one number.
LEMMA MaskedIs ==
  ASSUME NEW w \in Nat \ {0}, NEW n \in Nat, NEW a \in Register(w, n), NEW v \in Register(w, n),
         NEW x \in Cells(w)
  PROVE  /\ and(w, v, set1(a, x)) \in Register(w, n)
         /\ \A k \in First(n) : and(w, v, set1(a, x))[k] = Num(Bin(w, v[k]) \cap Bin(w, x))
<1>2. \A s \in Register(w, n) :
        /\ and(w, v, s) \in Register(w, n)
        /\ \A k \in First(n) : and(w, v, s)[k] = Num(Bin(w, v[k]) \cap Bin(w, s[k]))
  <2>1. w \in Nat
    OBVIOUS
  <2> QED BY <2>1, AndIs
<1>1. PICK s \in Register(w, n) : s = set1(a, x) /\ \A k \in First(n) : s[k] = x
  <2>1. w \in Nat
    OBVIOUS
  <2>2. set1(a, x) \in Register(w, n) /\ \A k \in First(n) : set1(a, x)[k] = x
    BY <2>1, SetIs
  <2> QED BY <2>2, Zenon
<1> QED BY <1>1, <1>2, Zenon

\* Two registers agree when their even and their odd lanes do.
LEMMA SamePairwise ==
  ASSUME NEW w, NEW m \in Nat, NEW r \in Register(w, 2 * m), NEW q \in Register(w, 2 * m),
         \A j \in First(m) : r[2 * j] = q[2 * j] /\ r[2 * j + 1] = q[2 * j + 1]
  PROVE  r = q
<1>1. ASSUME NEW k \in First(2 * m)
      PROVE  r[k] = q[k]
  <2>1. k \div 2 \in First(m) /\ (k = 2 * (k \div 2) \/ k = 2 * (k \div 2) + 1)
    BY Paired
  <2> QED BY <2>1, Zenon
<1> QED BY <1>1, SameRegister

\* 8-bit lanes shifted left in 16-bit ones.
LEMMA SlliEpx8Is ==
  ASSUME NEW w \in Nat \ {0}, NEW m \in Nat, NEW a \in Register(w, 2 * m), NEW c \in Nat
  PROVE  slli_epx8(w, a, c) = slli(w, a, c)
<1>w. w \in Nat /\ 2 * w \in Nat \ {0} /\ 2 * m \in Nat
  OBVIOUS
<1>m. \A v \in Register(w, 2 * m), x \in Cells(w) :
        /\ and(w, v, set1(a, x)) \in Register(w, 2 * m)
        /\ \A k \in First(2 * m) : and(w, v, set1(a, x))[k] = Num(Bin(w, v[k]) \cap Bin(w, x))
  BY <1>w, MaskedIs
<1>1. PICK P \in Nat : P = 2 ^ w /\ P > 0 /\ 2 ^ (2 * w) = P * P
  BY Modulus, Zenon
<1>2. PICK A \in Register(2 * w, m) :
        /\ A = wide(w, a)
        /\ \A j \in First(m) : A[j] = a[2 * j] + P * a[2 * j + 1]
  <2>1. /\ wide(w, a) \in Register(2 * w, m)
        /\ \A j \in First(m) : wide(w, a)[j] = a[2 * j] + P * a[2 * j + 1]
    BY <1>1, WideIs
  <2> QED BY <2>1, Zenon
<1>3. PICK z \in Register(2 * w, m) :
        /\ z = slli(2 * w, A, c)
        /\ \A j \in First(m) : z[j] = IF c >= 2 * w THEN 0 ELSE Lane(2 * w, A[j] * 2 ^ c)
  <2>1. /\ slli(2 * w, A, c) \in Register(2 * w, m)
        /\ \A j \in First(m) : slli(2 * w, A, c)[j] = IF c >= 2 * w THEN 0 ELSE Lane(2 * w, A[j] * 2 ^ c)
    BY <1>w, ShiftIs
  <2> QED BY <2>1, Zenon
<1>4. PICK v \in Register(w, 2 * m) :
        /\ v = narrow(w, z)
        /\ \A j \in First(m) : v[2 * j] = z[j] % P /\ v[2 * j + 1] = z[j] \div P
  <2>1. /\ narrow(w, z) \in Register(w, 2 * m)
        /\ \A j \in First(m) : narrow(w, z)[2 * j] = z[j] % 2 ^ w
        /\ \A j \in First(m) : narrow(w, z)[2 * j + 1] = z[j] \div 2 ^ w
    BY NarrowIs
  <2> QED BY <1>1, <2>1, Zenon
<1>5. PICK M \in Cells(w) : M = Lane(w, Ones(w) * 2 ^ c)
  <2>1. Ones(w) * 2 ^ c \in Int
    BY <1>1, Power DEF Ones
  <2> QED BY <1>w, <2>1, LaneType, Zenon
<1>6. PICK r \in Register(w, 2 * m) :
        /\ r = slli_epx8(w, a, c)
        /\ \A k \in First(2 * m) : r[k] = Num(Bin(w, v[k]) \cap Bin(w, M))
  <2>1. /\ and(w, v, set1(a, M)) \in Register(w, 2 * m)
        /\ \A k \in First(2 * m) : and(w, v, set1(a, M))[k] = Num(Bin(w, v[k]) \cap Bin(w, M))
    BY <1>m, Zenon
  <2>2. slli_epx8(w, a, c) = and(w, v, set1(a, M))
    BY <1>2, <1>3, <1>4, <1>5, Zenon DEF slli_epx8
  <2> QED BY <2>1, <2>2, Zenon
<1>7. PICK q \in Register(w, 2 * m) :
        /\ q = slli(w, a, c)
        /\ \A k \in First(2 * m) : q[k] = IF c >= w THEN 0 ELSE Lane(w, a[k] * 2 ^ c)
  <2>1. /\ slli(w, a, c) \in Register(w, 2 * m)
        /\ \A k \in First(2 * m) : slli(w, a, c)[k] = IF c >= w THEN 0 ELSE Lane(w, a[k] * 2 ^ c)
    BY <1>w, ShiftIs
  <2> QED BY <2>1, Zenon
<1>8. CASE c >= w
  <2>1. M = 0
    <3>1. c - w \in Nat /\ c = (c - w) + w
      BY <1>8
    <3>2. PICK E \in Nat : E = 2 ^ (c - w) /\ 2 ^ c = E * P
      <4>1. 2 ^ ((c - w) + w) = 2 ^ (c - w) * 2 ^ w
        BY <1>w, <3>1, PowerSum
      <4> QED BY <1>1, <3>1, <4>1, Power
    <3>o. PICK O \in Int : O = Ones(w)
      BY <1>1 DEF Ones
    <3>3. PICK u \in Int : u = O * E
      BY O * E \in Int
    <3>4. Ones(w) * 2 ^ c = 0 + u * P
      <4>1. O * (E * P) = 0 + (O * E) * P
        OBVIOUS
      <4> QED BY <3>2, <3>3, <3>o, <4>1, Zenon
    <3>5. (0 + u * P) % P = 0
      BY <1>1, Written
    <3> QED BY <1>1, <1>5, <3>4, <3>5, Zenon DEF Lane
  <2>2. ASSUME NEW k \in First(2 * m)
        PROVE  r[k] = q[k]
    <3>1. v[k] \in Cells(w)
      BY <1>w, LaneOfRegister
    <3>2. Num(Bin(w, v[k]) \cap Bin(w, 0)) = 0
      BY <1>w, <3>1, MaskedBits
    <3>3. q[k] = 0
      BY <1>7, <1>8
    <3> QED BY <1>6, <2>1, <3>2, <3>3, Zenon
  <2>3. r = q
    BY <2>2, SameRegister
  <2> QED BY <1>6, <1>7, <2>3
<1>9. CASE c < w
  <2>0. c \in 0 .. w - 1 /\ c \in 0 .. w /\ ~(c >= w) /\ ~(c >= 2 * w)
    BY <1>9
  <2>1. PICK C \in Nat, D \in Nat : C = 2 ^ c /\ C > 0 /\ D > 0 /\ P = D * C /\ Parts(P, C, D)
    BY <1>1, <2>0, PowerParts, Zenon
  <2>p. Parts(P, C, D)
    BY <2>1
  <2>2. M = P - C
    <3>1. Ones(w) * 2 ^ c = (P - C) + (C - 1) * P
      BY <1>1, <2>1 DEF Ones
    <3>2. P - C \in 0 .. P - 1
      BY <2>1, D * C >= C
    <3>3. ((P - C) + (C - 1) * P) % P = P - C
      BY <1>1, <2>1, <3>2, C - 1 \in Int, Written
    <3> QED BY <1>1, <1>5, <3>1, <3>3, Zenon DEF Lane
  <2>3. \A x \in Cells(w) : Num(Bin(w, x) \cap Bin(w, M)) = x - (x % C)
    <3>1. ASSUME NEW x \in Cells(w)
          PROVE  Num(Bin(w, x) \cap Bin(w, 2 ^ w - 2 ^ c)) = x - (x % 2 ^ c)
      BY <1>w, <2>0, CutBits
    <3> QED BY <1>1, <2>1, <2>2, <3>1, Zenon
  <2>4. ASSUME NEW j \in First(m)
        PROVE  r[2 * j] = q[2 * j] /\ r[2 * j + 1] = q[2 * j + 1]
    <3>1. 2 * j \in First(2 * m) /\ 2 * j + 1 \in First(2 * m)
      BY Pairs
    <3>2. PICK x \in Cells(w), y \in Cells(w) : x = a[2 * j] /\ y = a[2 * j + 1]
      BY <1>w, <3>1, LaneOfRegister
    <3>3. x \in 0 .. P - 1 /\ y \in 0 .. P - 1
      BY <1>1 DEF Cells
    <3>4. PICK u : u = z[j] /\ u = ShiftedLeft(P, C, x, y)
      BY <1>1, <1>2, <1>3, <2>0, <2>1, <3>2, Zenon DEF Lane, ShiftedLeft
    <3>5. /\ u % P = (x * C) % P
          /\ ((x * C) % P) % C = 0
          /\ (u \div P) - ((u \div P) % C) = (y * C) % P
      BY <2>p, <3>3, <3>4, LeftOfTwo
    <3>6. v[2 * j] = u % P /\ v[2 * j + 1] = u \div P
      BY <1>4, <3>4, Zenon
    <3>7. v[2 * j] \in Cells(w) /\ v[2 * j + 1] \in Cells(w)
      BY <1>w, <3>1, LaneOfRegister
    <3>8. q[2 * j] = (x * C) % P /\ q[2 * j + 1] = (y * C) % P
      BY <1>1, <1>7, <2>0, <2>1, <3>1, <3>2, Zenon DEF Lane
    <3>9. r[2 * j + 1] = (u \div P) - ((u \div P) % C)
      BY <1>6, <2>3, <3>1, <3>6, <3>7, Zenon
    <3>10. r[2 * j] = (u % P) - ((u % P) % C)
      BY <1>6, <2>3, <3>1, <3>6, <3>7, Zenon
    <3>11. PICK l \in Int : l = (x * C) % P /\ l % C = 0
      <4>1. (x * C) % P \in Int
        BY <1>1, x * C \in Int DEF Cells
      <4> QED BY <3>5, <4>1, Zenon
    <3>12. r[2 * j] = l - 0
      BY <3>5, <3>10, <3>11, Zenon
    <3> QED BY <3>5, <3>8, <3>9, <3>11, <3>12
  <2>5. r = q
    BY <2>4, SamePairwise
  <2> QED BY <1>6, <1>7, <2>5
<1> QED BY <1>8, <1>9

\* And shifted right.
LEMMA SrliEpx8Is ==
  ASSUME NEW w \in Nat \ {0}, NEW m \in Nat, NEW a \in Register(w, 2 * m), NEW c \in Nat
  PROVE  srli_epx8(w, a, c) = srli(w, a, c)
<1>w. w \in Nat /\ 2 * w \in Nat \ {0} /\ 2 * m \in Nat
  OBVIOUS
<1>m. \A v \in Register(w, 2 * m), x \in Cells(w) :
        /\ and(w, v, set1(a, x)) \in Register(w, 2 * m)
        /\ \A k \in First(2 * m) : and(w, v, set1(a, x))[k] = Num(Bin(w, v[k]) \cap Bin(w, x))
  BY <1>w, MaskedIs
<1>1. PICK P \in Nat : P = 2 ^ w /\ P > 0 /\ 2 ^ (2 * w) = P * P
  BY Modulus, Zenon
<1>2. PICK A \in Register(2 * w, m) :
        /\ A = wide(w, a)
        /\ \A j \in First(m) : A[j] = a[2 * j] + P * a[2 * j + 1]
  <2>1. /\ wide(w, a) \in Register(2 * w, m)
        /\ \A j \in First(m) : wide(w, a)[j] = a[2 * j] + P * a[2 * j + 1]
    BY <1>1, WideIs
  <2> QED BY <2>1, Zenon
<1>3. PICK z \in Register(2 * w, m) :
        /\ z = srli(2 * w, A, c)
        /\ \A j \in First(m) : z[j] = IF c >= 2 * w THEN 0 ELSE A[j] \div 2 ^ c
  <2>1. /\ srli(2 * w, A, c) \in Register(2 * w, m)
        /\ \A j \in First(m) : srli(2 * w, A, c)[j] = IF c >= 2 * w THEN 0 ELSE A[j] \div 2 ^ c
    BY <1>w, ShiftIs
  <2> QED BY <2>1, Zenon
<1>4. PICK v \in Register(w, 2 * m) :
        /\ v = narrow(w, z)
        /\ \A j \in First(m) : v[2 * j] = z[j] % P /\ v[2 * j + 1] = z[j] \div P
  <2>1. /\ narrow(w, z) \in Register(w, 2 * m)
        /\ \A j \in First(m) : narrow(w, z)[2 * j] = z[j] % 2 ^ w
        /\ \A j \in First(m) : narrow(w, z)[2 * j + 1] = z[j] \div 2 ^ w
    BY NarrowIs
  <2> QED BY <1>1, <2>1, Zenon
<1>5. PICK G \in Nat : G = 2 ^ c /\ G > 0
  BY Power
<1>r. PICK M \in Cells(w) : M = Ones(w) \div 2 ^ c
  <2>1. P * G >= P /\ P - 1 \in 0 .. P * G - 1
    BY <1>1, <1>5
  <2>2. (P - 1) \div G \in 0 .. P - 1
    BY <1>1, <1>5, <2>1, QuotientBelow
  <2> QED BY <1>1, <1>5, <2>2 DEF Ones, Cells
<1>6. PICK r \in Register(w, 2 * m) :
        /\ r = srli_epx8(w, a, c)
        /\ \A k \in First(2 * m) : r[k] = Num(Bin(w, v[k]) \cap Bin(w, M))
  <2>1. /\ and(w, v, set1(a, M)) \in Register(w, 2 * m)
        /\ \A k \in First(2 * m) : and(w, v, set1(a, M))[k] = Num(Bin(w, v[k]) \cap Bin(w, M))
    BY <1>m, Zenon
  <2>2. srli_epx8(w, a, c) = and(w, v, set1(a, M))
    BY <1>2, <1>3, <1>4, <1>r, Zenon DEF srli_epx8
  <2> QED BY <2>1, <2>2, Zenon
<1>7. PICK q \in Register(w, 2 * m) :
        /\ q = srli(w, a, c)
        /\ \A k \in First(2 * m) : q[k] = IF c >= w THEN 0 ELSE a[k] \div 2 ^ c
  <2>1. /\ srli(w, a, c) \in Register(w, 2 * m)
        /\ \A k \in First(2 * m) : srli(w, a, c)[k] = IF c >= w THEN 0 ELSE a[k] \div 2 ^ c
    BY <1>w, ShiftIs
  <2> QED BY <2>1, Zenon
<1>8. CASE c >= w
  <2>1. M = 0
    <3>1. c - w \in Nat /\ c = (c - w) + w
      BY <1>8
    <3>2. PICK E \in Nat : E = 2 ^ (c - w) /\ 2 ^ c = E * P
      <4>1. 2 ^ ((c - w) + w) = 2 ^ (c - w) * 2 ^ w
        BY <1>w, <3>1, PowerSum
      <4> QED BY <1>1, <3>1, <4>1, Power
    <3>3. E > 0
      BY <3>1, <3>2, Power
    <3>4. E * P >= P
      BY <1>1, <3>3
    <3>5. P - 1 \in 0 .. G - 1
      BY <1>1, <1>5, <3>2, <3>4
    <3>6. ((P - 1) + 0 * G) \div G = 0
      BY <1>5, <3>5, Written
    <3> QED BY <1>1, <1>5, <1>r, <3>6 DEF Ones
  <2>2. ASSUME NEW k \in First(2 * m)
        PROVE  r[k] = q[k]
    <3>1. v[k] \in Cells(w)
      BY <1>w, LaneOfRegister
    <3>2. Num(Bin(w, v[k]) \cap Bin(w, 0)) = 0
      BY <1>w, <3>1, MaskedBits
    <3>3. q[k] = 0
      BY <1>7, <1>8
    <3> QED BY <1>6, <2>1, <3>2, <3>3, Zenon
  <2>3. r = q
    BY <2>2, SameRegister
  <2> QED BY <1>6, <1>7, <2>3
<1>9. CASE c < w
  <2>0. c \in 0 .. w - 1 /\ c \in 0 .. w /\ ~(c >= w) /\ ~(c >= 2 * w)
    BY <1>9
  <2>1. PICK C \in Nat, D \in Nat :
           /\ C = 2 ^ c /\ D = 2 ^ (w - c) /\ C > 0 /\ D > 0
           /\ P = D * C /\ Parts(P, C, D)
    BY <1>1, <2>0, PowerParts, Zenon
  <2>p. Parts(P, C, D)
    BY <2>1
  <2>2. M = D - 1
    <3>1. P - 1 = (C - 1) + (D - 1) * C
      BY <2>1
    <3>2. ((C - 1) + (D - 1) * C) \div C = D - 1
      BY <2>1, C - 1 \in 0 .. C - 1, D - 1 \in Int, Written
    <3> QED BY <1>1, <1>r, <2>1, <3>1, <3>2, Zenon DEF Ones
  <2>3. \A x \in Cells(w) : Num(Bin(w, x) \cap Bin(w, M)) = x % D
    <3>0. w - c \in 0 .. w
      BY <2>0
    <3>1. ASSUME NEW x \in Cells(w)
          PROVE  Num(Bin(w, x) \cap Bin(w, 2 ^ (w - c) - 1)) = x % 2 ^ (w - c)
      BY <1>w, <3>0, CutBits
    <3> QED BY <2>1, <2>2, <3>1, Zenon
  <2>4. ASSUME NEW j \in First(m)
        PROVE  r[2 * j] = q[2 * j] /\ r[2 * j + 1] = q[2 * j + 1]
    <3>1. 2 * j \in First(2 * m) /\ 2 * j + 1 \in First(2 * m)
      BY Pairs
    <3>2. PICK x \in Cells(w), y \in Cells(w) : x = a[2 * j] /\ y = a[2 * j + 1]
      BY <1>w, <3>1, LaneOfRegister
    <3>3. x \in 0 .. P - 1 /\ y \in 0 .. P - 1
      BY <1>1 DEF Cells
    <3>4. PICK u : u = z[j] /\ u = ShiftedRight(P, C, x, y)
      BY <1>2, <1>3, <2>0, <2>1, <3>2, Zenon DEF ShiftedRight
    <3>5. (u % P) % D = x \div C /\ (u \div P) % D = y \div C
      BY <2>p, <3>3, <3>4, RightOfTwo
    <3>6. v[2 * j] = u % P /\ v[2 * j + 1] = u \div P
      BY <1>4, <3>4, Zenon
    <3>7. v[2 * j] \in Cells(w) /\ v[2 * j + 1] \in Cells(w)
      BY <1>w, <3>1, LaneOfRegister
    <3>8. q[2 * j] = x \div C /\ q[2 * j + 1] = y \div C
      BY <1>7, <2>0, <2>1, <3>1, <3>2, Zenon
    <3> QED BY <1>6, <2>3, <3>1, <3>5, <3>6, <3>7, <3>8, Zenon
  <2>5. r = q
    BY <2>4, SamePairwise
  <2> QED BY <1>6, <1>7, <2>5
<1> QED BY <1>8, <1>9

\* The count of an arithmetic shift stops at the width less one.
Clamped(w, c) == IF c >= w THEN w - 1 ELSE c

\* A shift to the right of the signed value.
LEMMA SraiIs ==
  ASSUME NEW w \in Nat \ {0}, NEW n \in Nat, NEW a \in Register(w, n), NEW c \in Nat
  PROVE  /\ srai(w, a, c) \in Register(w, n)
         /\ \A k \in First(n) : srai(w, a, c)[k] = Lane(w, AsSigned(w, a[k]) \div 2 ^ Clamped(w, c))
<1>1. DOMAIN a = First(n) /\ \A k \in First(n) : a[k] \in Cells(w)
  BY LaneOfRegister
<1>2. srai(w, a, c) = [k \in First(n) |-> Lane(w, AsSigned(w, a[k]) \div 2 ^ Clamped(w, c))]
  BY <1>1, Zenon DEF srai, Each, AsSigned, Clamped
<1>3. PICK K \in Nat : K = 2 ^ Clamped(w, c) /\ K > 0
  <2>1. Clamped(w, c) \in Nat
    BY DEF Clamped
  <2> QED BY <2>1, Power
<1>4. ASSUME NEW k \in First(n)
      PROVE  Lane(w, AsSigned(w, a[k]) \div K) \in Cells(w)
  <2>1. PICK v \in Int : v = AsSigned(w, a[k])
    BY <1>1, SignedIs
  <2>2. v \div K \in Int /\ w \in Nat
    BY <1>3, Divided
  <2>3. Lane(w, v \div K) \in Cells(w)
    BY <2>2, LaneType
  <2> QED BY <2>1, <2>3, Zenon
<1>5. [k \in First(n) |-> Lane(w, AsSigned(w, a[k]) \div K)] \in Register(w, n)
  BY <1>4 DEF Register
<1> QED BY <1>2, <1>3, <1>5

\* A quotient of multiples.
LEMMA DividedScaled ==
  ASSUME NEW K \in Nat, K > 0, NEW P \in Nat, P > 0, NEW v \in Int
  PROVE  (v * P) \div (P * K) = v \div K
<1>1. PICK r \in 0 .. K - 1, q \in Int : q = v \div K /\ v = r + q * K
  BY Divided
<1>2. v * P = r * P + q * (P * K) /\ P * K \in Nat /\ P * K > 0
  BY <1>1
<1>3. r * P \in 0 .. P * K - 1
  <2>1. r * P <= (K - 1) * P /\ (K - 1) * P = P * K - P /\ r * P >= 0 /\ r * P \in Int
    BY <1>1
  <2> QED BY <2>1
<1>4. (r * P + q * (P * K)) \div (P * K) = q
  <2>1. PICK M \in Nat : M = P * K /\ M > 0
    BY <1>2
  <2>2. r * P \in 0 .. M - 1
    BY <1>3, <2>1
  <2>3. (r * P + q * M) \div M = q
    BY <1>1, <2>1, <2>2, Written
  <2> QED BY <2>1, <2>3, Zenon
<1> QED BY <1>1, <1>2, <1>4

\* Signed values of twice the width: a multiple, and one with a lower half.
LEMMA SignedOfTwo ==
  ASSUME NEW w \in Nat \ {0}, NEW x \in Cells(w), NEW y \in Cells(w)
  PROVE  /\ x * 2 ^ w \in Cells(2 * w)
         /\ AsSigned(2 * w, x * 2 ^ w) = AsSigned(w, x) * 2 ^ w
         /\ AsSigned(2 * w, x + 2 ^ w * y) = x + AsSigned(w, y) * 2 ^ w
<1>1. PICK P \in Nat, S \in Nat : /\ P = 2 ^ w /\ P > 0 /\ 2 ^ (2 * w) = P * P /\ P = 2 * S
                                 /\ S = SignBit(w) /\ SignBit(2 * w) = S * P
  <2>1. /\ 2 ^ w \in Nat /\ SignBit(w) \in Nat /\ SignBit(w) > 0
        /\ 2 ^ w = 2 * SignBit(w)
        /\ 2 ^ (2 * w) = 2 ^ w * 2 ^ w
        /\ SignBit(2 * w) = SignBit(w) * 2 ^ w
    BY Base
  <2>2. 2 ^ w > 0
    BY <2>1
  <2> QED BY <2>1, <2>2, Zenon
<1>w. 2 * w \in Nat \ {0}
  OBVIOUS
<1>2. x \in 0 .. P - 1 /\ y \in 0 .. P - 1
  BY <1>1 DEF Cells
<1>3. x * P \in 0 .. P * P - 1
  <2>1. x * P <= (P - 1) * P /\ (P - 1) * P = P * P - P /\ x * P >= 0 /\ x * P \in Int
    BY <1>1, <1>2
  <2> QED BY <1>1, <2>1
<1>4. x + P * y \in Cells(2 * w)
  BY <1>1, TwoCells
<1>5. x * P \in Cells(2 * w)
  BY <1>1, <1>3 DEF Cells
<1>6. \A u \in {x, y} : AsSigned(w, u) = IF u >= S THEN u - P ELSE u
  BY <1>1, SignedIs
<1>7. \A u \in Cells(2 * w) : AsSigned(2 * w, u) = IF u >= S * P THEN u - P * P ELSE u
  BY <1>1, <1>w, SignedIs
<1>8. AsSigned(2 * w, x * P) = AsSigned(w, x) * P
  <2>1. x * P >= S * P <=> x >= S
    <3>1. CASE x >= S
      <4>1. x * P >= S * P
        BY <1>1, <1>2, <3>1
      <4> QED BY <3>1, <4>1
    <3>2. CASE x <= S - 1
      <4>1. x * P <= (S - 1) * P /\ (S - 1) * P = S * P - P /\ x * P \in Int /\ S * P \in Int
        BY <1>1, <1>2, <3>2
      <4>2. ~(x * P >= S * P)
        BY <1>1, <4>1
      <4> QED BY <1>2, <3>2, <4>2
    <3> QED BY <1>2, <3>1, <3>2
  <2>2. CASE x >= S
    <3>1. AsSigned(2 * w, x * P) = x * P - P * P /\ AsSigned(w, x) = x - P
      BY <1>5, <1>6, <1>7, <2>1, <2>2
    <3>2. x * P - P * P = (x - P) * P
      BY <1>2
    <3> QED BY <3>1, <3>2
  <2>3. CASE ~(x >= S)
    <3>1. AsSigned(2 * w, x * P) = x * P /\ AsSigned(w, x) = x
      BY <1>5, <1>6, <1>7, <2>1, <2>3
    <3> QED BY <3>1
  <2> QED BY <2>2, <2>3
<1>9. AsSigned(2 * w, x + P * y) = x + AsSigned(w, y) * P
  <2>1. x + P * y >= S * P <=> y >= S
    <3>1. CASE y >= S
      <4>1. P * y >= S * P /\ P * y \in Int /\ S * P \in Int
        BY <1>1, <1>2, <3>1
      <4> QED BY <1>2, <3>1, <4>1
    <3>2. CASE y <= S - 1
      <4>1. P * y <= (S - 1) * P /\ (S - 1) * P = S * P - P /\ P * y \in Int /\ S * P \in Int
        BY <1>1, <1>2, <3>2
      <4>2. ~(x + P * y >= S * P)
        BY <1>1, <1>2, <4>1
      <4> QED BY <1>2, <3>2, <4>2
    <3> QED BY <1>2, <3>1, <3>2
  <2>2. CASE y >= S
    <3>1. AsSigned(2 * w, x + P * y) = (x + P * y) - P * P /\ AsSigned(w, y) = y - P
      BY <1>4, <1>6, <1>7, <2>1, <2>2
    <3>2. (x + P * y) - P * P = x + (y - P) * P
      BY <1>2
    <3> QED BY <3>1, <3>2
  <2>3. CASE ~(y >= S)
    <3>1. AsSigned(2 * w, x + P * y) = x + P * y /\ AsSigned(w, y) = y
      BY <1>4, <1>6, <1>7, <2>1, <2>3
    <3>2. x + P * y = x + y * P
      BY <1>2
    <3> QED BY <3>1, <3>2
  <2> QED BY <2>2, <2>3
<1> QED BY <1>1, <1>5, <1>8, <1>9

\* Powers by the clamped counts.
LEMMA ClampedPowers ==
  ASSUME NEW w \in Nat \ {0}, NEW c \in Nat
  PROVE  \E K, C \in Nat : /\ K > 0 /\ C > 0
                           /\ K = 2 ^ Clamped(w, c) /\ C = 2 ^ Clamped(2 * w, c)
                           /\ 2 ^ Clamped(2 * w, c + w) = 2 ^ w * K
                           /\ \A x \in Cells(w) : AsSigned(w, x) \div C = AsSigned(w, x) \div K
<1>1. Clamped(w, c) \in Nat /\ Clamped(2 * w, c) \in Nat /\ Clamped(2 * w, c + w) = w + Clamped(w, c)
  BY DEF Clamped
<1>2. PICK K \in Nat, C \in Nat : /\ K = 2 ^ Clamped(w, c) /\ K > 0
                                 /\ C = 2 ^ Clamped(2 * w, c) /\ C > 0
  BY <1>1, Power
<1>3. 2 ^ Clamped(2 * w, c + w) = 2 ^ w * K
  <2>1. 2 ^ (w + Clamped(w, c)) = 2 ^ w * 2 ^ Clamped(w, c)
    BY <1>1, PowerSum, w \in Nat
  <2> QED BY <1>1, <1>2, <2>1
<1>4. CASE c < w
  <2>1. Clamped(w, c) = Clamped(2 * w, c)
    BY <1>4 DEF Clamped
  <2> QED BY <1>2, <1>3, <2>1
<1>5. CASE c >= w
  <2>1. Clamped(w, c) = w - 1
    BY <1>5 DEF Clamped
  <2>2. PICK e \in Nat : Clamped(2 * w, c) = (w - 1) + e
    <3>1. Clamped(2 * w, c) - (w - 1) \in Nat
      BY <1>5 DEF Clamped
    <3>2. Clamped(2 * w, c) = (w - 1) + (Clamped(2 * w, c) - (w - 1))
      BY <1>1
    <3> QED BY <3>1, <3>2
  <2>3. K = SignBit(w) /\ C = K * 2 ^ e /\ 2 ^ e \in Nat /\ 2 ^ e > 0
    <3>1. 2 ^ ((w - 1) + e) = 2 ^ (w - 1) * 2 ^ e
      BY PowerSum, w - 1 \in Nat
    <3> QED BY <1>2, <2>1, <2>2, <3>1, Power DEF SignBit
  <2>4. C >= K
    BY <1>2, <2>3
  <2>5. ASSUME NEW x \in Cells(w)
        PROVE  AsSigned(w, x) \div C = AsSigned(w, x) \div K
    <3>1. PICK v \in Int : v = AsSigned(w, x) /\ v >= -K /\ v < K
      BY <2>3, SignedIs
    <3>2. v \div C = v \div K
      BY <1>2, <2>4, <3>1, SignLeft
    <3> QED BY <3>1, <3>2
  <2> QED BY <1>2, <1>3, <2>5
<1> QED BY <1>4, <1>5

\* 8-bit lanes shifted right with their sign.
LEMMA SraiEpx8Is ==
  ASSUME NEW w \in Nat \ {0}, NEW m \in Nat, NEW a \in Register(w, 2 * m), NEW c \in Nat
  PROVE  srai_epx8(w, a, c) = srai(w, a, c)
<1>w. w \in Nat /\ 2 * w \in Nat \ {0} /\ 2 * m \in Nat /\ c + w \in Nat /\ ~(w >= 2 * w)
  OBVIOUS
<1>s. \A A \in Register(2 * w, m) :
        /\ slli(2 * w, A, w) \in Register(2 * w, m)
        /\ \A j \in First(m) : slli(2 * w, A, w)[j] = Lane(2 * w, A[j] * 2 ^ w)
        /\ \A d \in Nat :
             /\ srai(2 * w, A, d) \in Register(2 * w, m)
             /\ \A j \in First(m) : srai(2 * w, A, d)[j]
                                      = Lane(2 * w, AsSigned(2 * w, A[j]) \div 2 ^ Clamped(2 * w, d))
  <2>1. \A A \in Register(2 * w, m) :
          /\ slli(2 * w, A, w) \in Register(2 * w, m)
          /\ \A j \in First(m) : slli(2 * w, A, w)[j] = Lane(2 * w, A[j] * 2 ^ w)
    BY <1>w, ShiftIs
  <2>2. \A A \in Register(2 * w, m) : \A d \in Nat :
             /\ srai(2 * w, A, d) \in Register(2 * w, m)
             /\ \A j \in First(m) : srai(2 * w, A, d)[j]
                                      = Lane(2 * w, AsSigned(2 * w, A[j]) \div 2 ^ Clamped(2 * w, d))
    BY <1>w, SraiIs
  <2> QED BY <2>1, <2>2, Zenon
<1>b. \A x, y \in Register(w, 2 * m) : \A M :
        /\ blendv(w, x, y, M) \in Register(w, 2 * m)
        /\ \A k \in First(2 * m) : blendv(w, x, y, M)[k] = IF M[k] >= SignBit(w) THEN y[k] ELSE x[k]
  BY <1>w, BlendIs
<1>1. PICK P \in Nat : P = 2 ^ w /\ P > 0 /\ 2 ^ (2 * w) = P * P
  BY Modulus, Zenon
<1>2. PICK A \in Register(2 * w, m) :
        /\ A = wide(w, a)
        /\ \A j \in First(m) : A[j] = a[2 * j] + P * a[2 * j + 1]
  <2>1. /\ wide(w, a) \in Register(2 * w, m)
        /\ \A j \in First(m) : wide(w, a)[j] = a[2 * j] + P * a[2 * j + 1]
    BY <1>1, WideIs
  <2> QED BY <2>1, Zenon
<1>3. PICK B \in Register(2 * w, m) :
        B = slli(2 * w, A, w) /\ \A j \in First(m) : B[j] = Lane(2 * w, A[j] * P)
  BY <1>1, <1>s, Zenon
<1>4. PICK even \in Register(2 * w, m) :
        /\ even = srai(2 * w, B, c + w)
        /\ \A j \in First(m) : even[j]
                                 = Lane(2 * w, AsSigned(2 * w, B[j]) \div 2 ^ Clamped(2 * w, c + w))
  BY <1>s, <1>w, Zenon
<1>5. PICK odd \in Register(2 * w, m) :
        /\ odd = srai(2 * w, A, c)
        /\ \A j \in First(m) : odd[j] = Lane(2 * w, AsSigned(2 * w, A[j]) \div 2 ^ Clamped(2 * w, c))
  BY <1>s, ZenonT(40)
<1>6. /\ narrow(w, even) \in Register(w, 2 * m) /\ narrow(w, odd) \in Register(w, 2 * m)
      /\ \A j \in First(m) : narrow(w, even)[2 * j] = even[j] % P
      /\ \A j \in First(m) : narrow(w, odd)[2 * j + 1] = odd[j] \div P
  BY <1>1, NarrowIs
<1>7. PICK r \in Register(w, 2 * m) :
        /\ r = srai_epx8(w, a, c)
        /\ \A k \in First(2 * m) :
             r[k] = IF EvenLanes(w, a)[k] >= SignBit(w) THEN narrow(w, even)[k] ELSE narrow(w, odd)[k]
  <2>1. srai_epx8(w, a, c) = blendv(w, narrow(w, odd), narrow(w, even), EvenLanes(w, a))
    BY <1>2, <1>3, <1>4, <1>5, Zenon DEF srai_epx8
  <2>2. PICK o \in Register(w, 2 * m), e \in Register(w, 2 * m) : o = narrow(w,
            odd) /\ e = narrow(w, even)
    BY <1>6, Zenon
  <2>3. /\ blendv(w, o, e, EvenLanes(w, a)) \in Register(w, 2 * m)
        /\ \A k \in First(2 * m) : blendv(w, o, e, EvenLanes(w, a))[k]
                                     = IF EvenLanes(w, a)[k] >= SignBit(w) THEN e[k] ELSE o[k]
    BY <1>b
  <2> QED BY <2>1, <2>2, <2>3, Zenon
<1>8. PICK q \in Register(w, 2 * m) :
        /\ q = srai(w, a, c)
        /\ \A k \in First(2 * m) : q[k] = Lane(w, AsSigned(w, a[k]) \div 2 ^ Clamped(w, c))
  <2>1. /\ srai(w, a, c) \in Register(w, 2 * m)
        /\ \A k \in First(2 * m) :
             srai(w, a, c)[k] = Lane(w, AsSigned(w, a[k]) \div 2 ^ Clamped(w, c))
    BY <1>w, SraiIs
  <2> QED BY <2>1, Zenon
<1>9. PICK K \in Nat, C \in Nat :
        /\ K > 0 /\ C > 0
        /\ K = 2 ^ Clamped(w, c) /\ C = 2 ^ Clamped(2 * w, c)
        /\ 2 ^ Clamped(2 * w, c + w) = P * K
        /\ \A x \in Cells(w) : AsSigned(w, x) \div C = AsSigned(w, x) \div K
  BY <1>1, ClampedPowers, Zenon
<1>10. ASSUME NEW j \in First(m)
       PROVE  r[2 * j] = q[2 * j] /\ r[2 * j + 1] = q[2 * j + 1]
  <2>1. 2 * j \in First(2 * m) /\ 2 * j + 1 \in First(2 * m)
    BY Pairs
  <2>2. PICK x \in Cells(w), y \in Cells(w) : x = a[2 * j] /\ y = a[2 * j + 1]
    BY <1>w, <2>1, LaneOfRegister
  <2>x. x \in 0 .. P - 1 /\ y \in 0 .. P - 1
    BY <1>1 DEF Cells
  <2>3. PICK u \in Int, v \in Int : u = AsSigned(w, x) /\ v = AsSigned(w, y)
    BY SignedIs
  <2>4. B[j] = x * P
    <3>1. A[j] * P = x * P + y * (P * P) /\ x * P \in Int
      <4>1. (x + P * y) * P = x * P + y * (P * P)
        BY <2>x
      <4> QED BY <1>2, <2>2, <2>x, <4>1
    <3>2. Lane(2 * w, x * P + y * (P * P)) = Lane(2 * w, x * P)
      <4>1. 2 * w \in Nat /\ y \in Int
        BY <2>x
      <4>2. Lane(2 * w, x * P + y * 2 ^ (2 * w)) = Lane(2 * w, x * P)
        BY <3>1, <4>1, LaneShift
      <4> QED BY <1>1, <4>2, Zenon
    <3>3. Lane(2 * w, x * P) = x * P
      <4>1. x * P \in Cells(2 * w)
        BY <1>1, SignedOfTwo
      <4>2. 2 * w \in Nat
        OBVIOUS
      <4> QED BY <3>1, <4>1, <4>2, LaneType
    <3> QED BY <1>3, <3>1, <3>2, <3>3, Zenon
  <2>5. even[j] = Lane(2 * w, u \div K)
    <3>1. AsSigned(2 * w, x * P) = u * P
      BY <1>1, <2>3, SignedOfTwo, Zenon
    <3>2. (u * P) \div (P * K) = u \div K
      BY <1>1, <1>9, DividedScaled
    <3> QED BY <1>4, <1>9, <2>4, <3>1, <3>2, Zenon
  <2>6. even[j] % P = Lane(w, u \div K)
    <3>1. u \div K \in Int
      BY <1>9, Divided
    <3>2. Lane(2 * w, u \div K) % 2 ^ w = Lane(w, u \div K)
      BY <3>1, LaneOfWide
    <3> QED BY <1>1, <2>5, <3>2, Zenon
  <2>7. odd[j] = Lane(2 * w, (x + v * P) \div C)
    <3>1. AsSigned(2 * w, x + P * y) = x + v * P
      BY <1>1, <2>3, SignedOfTwo, Zenon
    <3> QED BY <1>2, <1>5, <1>9, <2>2, <3>1, Zenon
  <2>8. odd[j] \div P = Lane(w, v \div C)
    <3>1. PICK i \in Int : i = (x + v * P) \div C
      <4>1. x + v * P \in Int
        BY <2>x
      <4>2. (x + v * P) \div C \in Int
        BY <1>9, <4>1, Divided
      <4> QED BY <4>2, Zenon
    <3>2. (i % (P * P)) \div P = (i \div P) % P
      BY <1>1, Scaled, ZenonT(40)
    <3>3. i \div P = v \div C
      BY <1>1, <1>9, <2>x, <3>1, DividedTwice
    <3> QED BY <1>1, <2>7, <3>1, <3>2, <3>3, Zenon DEF Lane
  <2>9. q[2 * j] = Lane(w, u \div K) /\ q[2 * j + 1] = Lane(w, v \div K)
    BY <1>8, <1>9, <2>1, <2>2, <2>3, Zenon
  <2>10. v \div C = v \div K
    BY <1>9, <2>3, Zenon
  <2>11. EvenLanes(w, a)[2 * j] >= SignBit(w) /\ ~(EvenLanes(w, a)[2 * j + 1] >= SignBit(w))
    BY EvenIs
  <2> QED BY <1>6, <1>7, <2>1, <2>6, <2>8, <2>9, <2>10, <2>11, Zenon
<1>11. r = q
  BY <1>10, SamePairwise
<1> QED BY <1>7, <1>8, <1>11

\* A lane shifted right, joined with its sign shifted left.
LEMMA SignedQuotient ==
  ASSUME NEW w \in Nat \ {0}, NEW c \in 1 .. w - 1, NEW x \in Cells(w), NEW sign \in Int,
         sign = IF x >= SignBit(w) THEN Ones(w) ELSE 0
  PROVE  Num(Bin(w, x \div 2 ^ c) \cup Bin(w, Lane(w, sign * 2 ^ (w - c))))
           = Lane(w, AsSigned(w, x) \div 2 ^ c)
<1>w. w \in Nat /\ c \in 0 .. w - 1 /\ w - c \in 0 .. w
  OBVIOUS
<1>1. PICK C \in Nat, D \in Nat : C = 2 ^ c /\ D = 2 ^ (w - c) /\ C > 0 /\ D > 0 /\ 2 ^ w = D * C
  BY <1>w, PowerParts, Zenon
<1>2. PICK P \in Nat : P = 2 ^ w /\ P = D * C /\ P > 0
  BY <1>1, Modulus, Zenon
<1>3. x \in 0 .. P - 1
  BY <1>2 DEF Cells
<1>4. PICK q \in 0 .. D - 1 : q = x \div C
  BY <1>1, <1>2, <1>3, QuotientBelow
<1>5. D <= P
  <2>1. D * 1 <= D * C
    BY <1>1
  <2> QED BY <1>1, <1>2, <2>1
<1>6. q \in Cells(w) /\ q \in Int
  BY <1>2, <1>5 DEF Cells
<1>7. CASE x >= SignBit(w)
  <2>1. PICK y \in Int : y = P - D
    BY <1>1, <1>2
  <2>2. y \in 0 .. P - 1 /\ y \in Cells(w)
    BY <1>1, <1>2, <1>5, <2>1 DEF Cells
  <2>3. Lane(w, sign * 2 ^ (w - c)) = y
    <3>1. sign = P - 1
      BY <1>2, <1>7 DEF Ones
    <3>2. sign * D = y + (D - 1) * P
      BY <1>1, <1>2, <2>1, <3>1
    <3>3. (y + (D - 1) * P) % P = y
      BY <1>1, <1>2, <2>2, D - 1 \in Int, Written
    <3> QED BY <1>1, <1>2, <3>2, <3>3, Zenon DEF Lane
  <2>4. y % 2 ^ (w - c) = 0
    <3>1. y = 0 + (C - 1) * D
      BY <1>1, <1>2, <2>1
    <3>2. (0 + (C - 1) * D) % D = 0
      BY <1>1, 0 \in 0 .. D - 1, C - 1 \in Int, Written
    <3> QED BY <1>1, <3>1, <3>2, Zenon
  <2>5. Num(Bin(w, q) \cup Bin(w, y)) = q + y
    <3>1. q \in 0 .. 2 ^ (w - c) - 1
      BY <1>1
    <3> QED BY <1>w, <2>2, <2>4, <3>1, JoinedBits
  <2>6. AsSigned(w, x) \div 2 ^ c = q - D
    <3>1. AsSigned(w, x) = x + (-D) * C
      BY <1>1, <1>2, <1>3, <1>7, SignedIs
    <3>2. (x + (-D) * C) \div C = x \div C + (-D)
      BY <1>1, <1>3, x \in Int, -D \in Int, Congruent
    <3> QED BY <1>1, <1>4, <3>1, <3>2
  <2>7. Lane(w, q - D) = q + y
    <3>1. q - D = (q + y) + (-1) * P /\ q + y \in 0 .. P - 1
      BY <1>1, <1>2, <1>5, <2>1
    <3>2. ((q + y) + (-1) * P) % P = q + y
      BY <1>2, <3>1, Written
    <3> QED BY <1>2, <3>1, <3>2, Zenon DEF Lane
  <2> QED BY <1>1, <1>4, <2>3, <2>5, <2>6, <2>7, Zenon
<1>8. CASE ~(x >= SignBit(w))
  <2>1. sign * 2 ^ (w - c) = 0
    BY <1>1, <1>8
  <2>2. Lane(w, 0) = 0
    <3>1. 0 \in Cells(w)
      BY <1>2 DEF Cells
    <3> QED BY <1>w, <3>1, LaneType
  <2>3. Num(Bin(w, q) \cup Bin(w, 0)) = q
    BY <1>w, <1>6, MaskedBits
  <2>4. AsSigned(w, x) = x
    BY <1>8, SignedIs
  <2>5. Lane(w, q) = q
    BY <1>w, <1>6, LaneType
  <2> QED BY <1>1, <1>4, <2>1, <2>2, <2>3, <2>4, <2>5, Zenon
<1> QED BY <1>7, <1>8

\* 64-bit lanes shifted right with their sign.
LEMMA SraiEpi64Is ==
  ASSUME NEW w \in Nat \ {0}, NEW n \in Nat, NEW a \in Register(w, n), NEW c \in Nat
  PROVE  srai_epi64(w, a, c) = srai(w, a, c)
<1>w. w \in Nat
  OBVIOUS
<1>1. \A k \in First(n) : a[k] \in Cells(w)
  BY LaneOfRegister
<1>2. PICK sign \in Register(w, n) :
        /\ sign = cmpgt(w, set1(a, 0), a)
        /\ \A k \in First(n) : sign[k] = IF a[k] >= SignBit(w) THEN Ones(w) ELSE 0
  <2>1. /\ cmpgt(w, set1(a, 0), a) \in Register(w, n)
        /\ \A k \in First(n) : cmpgt(w, set1(a, 0), a)[k] = IF a[k] >= SignBit(w) THEN Ones(w) ELSE 0
    BY SignMask
  <2> QED BY <2>1, Zenon
<1>3. PICK q \in Register(w, n) :
        /\ q = srai(w, a, c)
        /\ \A k \in First(n) : q[k] = Lane(w, AsSigned(w, a[k]) \div 2 ^ Clamped(w, c))
  <2>1. /\ srai(w, a, c) \in Register(w, n)
        /\ \A k \in First(n) : srai(w, a, c)[k] = Lane(w, AsSigned(w, a[k]) \div 2 ^ Clamped(w, c))
    BY SraiIs
  <2> QED BY <2>1, Zenon
<1>s. \A x \in Cells(w) : Lane(w, AsSigned(w, x)) = x
  <2>1. \A x \in Cells(w) : Lane(w, Value(TRUE, w, x)) = x
    BY LaneOf, ZenonT(30)
  <2> QED BY <2>1, Zenon DEF AsSigned
<1>4. CASE c = 0
  <2>1. 2 ^ Clamped(w, c) = 1
    BY <1>4 DEF Clamped
  <2>2. ASSUME NEW k \in First(n)
        PROVE  a[k] = q[k]
    <3>1. PICK v \in Int : v = AsSigned(w, a[k])
      BY <1>1, SignedIs
    <3>2. v \div 1 = v
      OBVIOUS
    <3> QED BY <1>1, <1>3, <1>s, <2>1, <3>1, <3>2, Zenon
  <2>3. a = q
    BY <2>2, SameRegister
  <2>4. srai_epi64(w, a, c) = a
    BY <1>4 DEF srai_epi64
  <2> QED BY <1>3, <2>3, <2>4
<1>5. CASE c >= w
  <2>1. PICK S \in Nat : S = SignBit(w) /\ S > 0 /\ S = 2 ^ Clamped(w, c)
    BY <1>5, Base DEF Clamped, SignBit
  <2>2. Lane(w, -1) = Ones(w) /\ Lane(w, 0) = 0
    <3>1. PICK P \in Nat : P = 2 ^ w /\ P > 0
      BY Modulus, Zenon
    <3>2. -1 = (P - 1) + (-1) * P /\ P - 1 \in 0 .. P - 1
      BY <3>1
    <3>3. ((P - 1) + (-1) * P) % P = P - 1
      BY <3>1, <3>2, Written
    <3>4. 0 \in Cells(w)
      BY <3>1 DEF Cells
    <3> QED BY <1>w, <3>1, <3>2, <3>3, <3>4, LaneType DEF Lane, Ones
  <2>3. ASSUME NEW k \in First(n)
        PROVE  sign[k] = q[k]
    <3>1. PICK v \in Int : /\ v = AsSigned(w, a[k]) /\ v >= -S /\ v < S
                          /\ (v < 0 <=> a[k] >= SignBit(w))
      <4>1. PICK x \in Cells(w) : x = a[k]
        BY <1>1
      <4>2. 2 ^ w = 2 * S
        BY <2>1, Base
      <4>3. x \in 0 .. 2 * S - 1
        BY <4>2 DEF Cells
      <4>4. PICK v \in Int : v = AsSigned(w, x) /\ v = IF x >= S THEN x - 2 * S ELSE x
        BY <2>1, <4>2, SignedIs
      <4>5. v >= -S /\ v < S /\ (v < 0 <=> x >= S)
        BY <4>3, <4>4
      <4> QED BY <2>1, <4>1, <4>4, <4>5
    <3>2. v \div S = IF v < 0 THEN -1 ELSE 0
      BY <2>1, <3>1, SignLeft
    <3>3. q[k] = Lane(w, v \div S)
      BY <1>3, <2>1, <3>1, Zenon
    <3>4. CASE v < 0
      <4>1. v \div S = -1 /\ sign[k] = Ones(w)
        BY <1>2, <3>1, <3>2, <3>4
      <4> QED BY <2>2, <3>3, <4>1
    <3>5. CASE ~(v < 0)
      <4>1. v \div S = 0 /\ sign[k] = 0
        BY <1>2, <3>1, <3>2, <3>5
      <4> QED BY <2>2, <3>3, <4>1
    <3> QED BY <3>4, <3>5
  <2>4. sign = q
    BY <2>3, SameRegister
  <2>5. srai_epi64(w, a, c) = sign
    BY <1>2, <1>5 DEF srai_epi64
  <2> QED BY <1>3, <2>4, <2>5
<1>6. CASE c > 0 /\ c < w
  <2>1. c \in 1 .. w - 1 /\ w - c \in Nat /\ ~(w - c >= w) /\ ~(c >= w) /\ ~(c <= 0)
    BY <1>6
  <2>2. PICK r \in Register(w, n) :
          r = srli(w, a, c) /\ \A k \in First(n) : r[k] = a[k] \div 2 ^ c
    <3>1. /\ srli(w, a, c) \in Register(w, n)
          /\ \A k \in First(n) : srli(w, a, c)[k] = IF c >= w THEN 0 ELSE a[k] \div 2 ^ c
      BY ShiftIs
    <3> QED BY <2>1, <3>1, Zenon
  <2>3. PICK l \in Register(w, n) :
          l = slli(w, sign, w - c) /\ \A k \in First(n) : l[k] = Lane(w, sign[k] * 2 ^ (w - c))
    <3>0. PICK d \in Nat : d = w - c
      BY <2>1
    <3>1. /\ slli(w, sign, d) \in Register(w, n)
          /\ \A k \in First(n) : slli(w, sign, d)[k] = IF d >= w THEN 0 ELSE Lane(w, sign[k] * 2 ^ d)
      BY ShiftIs
    <3> QED BY <2>1, <3>0, <3>1, Zenon
  <2>4. PICK o \in Register(w, n) :
          o = or(w, r, l) /\ \A k \in First(n) : o[k] = Num(Bin(w, r[k]) \cup Bin(w, l[k]))
    <3>1. /\ or(w, r, l) \in Register(w, n)
          /\ \A k \in First(n) : or(w, r, l)[k] = Num(Bin(w, r[k]) \cup Bin(w, l[k]))
      BY <1>w, OrIs
    <3> QED BY <3>1, Zenon
  <2>5. ASSUME NEW k \in First(n)
        PROVE  o[k] = q[k]
    <3>1. PICK x \in Cells(w) : x = a[k]
      BY <1>1, Zenon
    <3>2. PICK s \in Int : s = sign[k] /\ s = IF x >= SignBit(w) THEN Ones(w) ELSE 0
      <4>1. Ones(w) \in Int
        BY Base DEF Ones
      <4> QED BY <1>2, <3>1, <4>1
    <3>3. Num(Bin(w, x \div 2 ^ c) \cup Bin(w, Lane(w, s * 2 ^ (w - c)))) = Lane(w,
              AsSigned(w, x) \div 2 ^ c)
      BY <2>1, <3>2, SignedQuotient
    <3>4. Clamped(w, c) = c
      BY <2>1 DEF Clamped
    <3> QED BY <1>3, <2>2, <2>3, <2>4, <3>1, <3>2, <3>3, <3>4, Zenon
  <2>6. o = q
    BY <2>5, SameRegister
  <2>7. srai_epi64(w, a, c) = o
    BY <1>2, <2>1, <2>2, <2>3, <2>4 DEF srai_epi64
  <2> QED BY <1>3, <2>6, <2>7
<1> QED BY <1>4, <1>5, <1>6

\* What the compiler makes of a shift to the left, of values.
LEMMA ShiftLeftConstexpr ==
  ASSUME NEW t, NEW w \in Nat \ {0}, w = t.w, NEW n \in Nat, NEW a \in Register(w, n), NEW c \in Nat
  PROVE  shift_left_constexpr(t, a, c) = slli(w, a, c)
<1>w. w \in Nat
  OBVIOUS
<1>1. DOMAIN a = First(n) /\ \A k \in First(n) : a[k] \in Cells(w)
  BY LaneOfRegister
<1>2. CASE c >= w
  <2>1. c >= t.w
    BY <1>2
  <2> QED BY <1>2, <2>1 DEF shift_left_constexpr, slli, set1
<1>3. CASE ~(c >= w)
  <2>1. PICK s : s = t.s
    OBVIOUS
  <2>2. shift_left_constexpr(t, a, c) = [k \in First(n) |-> Lane(w, Value(s, w, a[k]) * 2 ^ c)]
    BY <1>1, <1>3, <2>1, Zenon DEF shift_left_constexpr, Each
  <2>3. slli(w, a, c) = [k \in First(n) |-> Lane(w, a[k] * 2 ^ c)]
    BY <1>1, <1>3, Zenon DEF slli
  <2>4. PICK C \in Nat, P \in Nat : C = 2 ^ c /\ P = 2 ^ w
    BY <1>w, Power
  <2>5. ASSUME NEW x \in Cells(w)
        PROVE  Lane(w, Value(s, w, x) * C) = Lane(w, x * C)
    <3>1. PICK q \in Int : Value(s, w, x) = x + q * P
      BY <2>4, ValueIs, Zenon
    <3>2. x \in Int
      BY DEF Cells
    <3>3. (x + q * P) * C = x * C + (q * C) * P /\ q * C \in Int /\ x * C \in Int
      BY <3>2
    <3>4. Lane(w, x * C + (q * C) * 2 ^ w) = Lane(w, x * C)
      BY <1>w, <3>3, LaneShift
    <3> QED BY <2>4, <3>1, <3>3, <3>4, Zenon
  <2>6. \A k \in First(n) : Lane(w, Value(s, w, a[k]) * 2 ^ c) = Lane(w, a[k] * 2 ^ c)
    BY <1>1, <2>4, <2>5, Zenon
  <2>7. [k \in First(n) |-> Lane(w, Value(s, w, a[k]) * 2 ^ c)] = [k \in First(n) |-> Lane(w,
            a[k] * 2 ^ c)]
    BY <2>6, Zenon
  <2> QED BY <2>2, <2>3, <2>7, Zenon
<1> QED BY <1>2, <1>3

\* Of a shift to the right, of numbers.
LEMMA ShiftRightConstexpr ==
  ASSUME NEW t, NEW w \in Nat \ {0}, w = t.w, NEW n \in Nat, NEW a \in Register(w, n), NEW c \in Nat
  PROVE  shift_right_constexpr(t, a, c) = srli(w, a, c)
<1>2. CASE c >= w
  <2>1. c >= t.w
    BY <1>2
  <2> QED BY <1>2, <2>1 DEF shift_right_constexpr, srli, set1
<1>3. CASE ~(c >= w)
  <2>1. \A x : Value(FALSE, w, x) = x
    BY DEF Value
  <2>2. shift_right_constexpr(t, a, c) = [k \in DOMAIN a |-> Value(FALSE, w, a[k]) \div 2 ^ c]
    BY <1>3, Zenon DEF shift_right_constexpr, Each
  <2>3. srli(w, a, c) = [k \in DOMAIN a |-> a[k] \div 2 ^ c]
    BY <1>3, Zenon DEF srli
  <2>4. \A k \in DOMAIN a : Value(FALSE, w, a[k]) \div 2 ^ c = a[k] \div 2 ^ c
    BY <2>1, Zenon
  <2>5. [k \in DOMAIN a |-> Value(FALSE, w, a[k]) \div 2 ^ c] = [k \in DOMAIN a |-> a[k] \div 2 ^ c]
    BY <2>4, Zenon
  <2> QED BY <2>2, <2>3, <2>5, Zenon
<1> QED BY <1>2, <1>3

\* The shifts of both ways agree, but for arithmetic ones of unsigned lanes.
LEMMA ShiftsAgree ==
  ASSUME type \in Types, bits \in {128, 256}, NEW a \in Register(type.w, Count), NEW b, NEW c \in Nat
  PROVE  /\ lanewise(type, "shift_left", a, b, c) = shift_left_constexpr(type, a, c)
         /\ lanewise(type, "shift_right", a, b, c) = shift_right_constexpr(type, a, c)
         /\ type.s => lanewise(type, "shift_right_arithmetic", a, b, c)
                        = shift_right_arithmetic_constexpr(type, a, c)
<1>w. type.w \in Nat \ {0} /\ type.s \in BOOLEAN /\ type.n \in {2, 4, 8, 16} /\ Count \in Nat
  BY TypeIs, CountIs
<1>1. PICK w \in Nat \ {0}, n \in Nat : w = type.w /\ n = Count
  BY <1>w, Zenon
<1>0. a \in Register(w, n)
  BY <1>1
<1>2. /\ shift_left_constexpr(type, a, c) = slli(w, a, c)
      /\ shift_right_constexpr(type, a, c) = srli(w, a, c)
      /\ type.s => shift_right_arithmetic_constexpr(type, a, c) = srai(w, a, c)
  <2>1. shift_left_constexpr(type, a, c) = slli(w, a, c)
    BY <1>0, <1>1, ShiftLeftConstexpr
  <2>2. shift_right_constexpr(type, a, c) = srli(w, a, c)
    BY <1>0, <1>1, ShiftRightConstexpr
  <2>3. ASSUME type.s
        PROVE  shift_right_arithmetic_constexpr(type, a, c) = srai(w, a, c)
    <3>1. type.s = TRUE
      BY <2>3
    <3> QED BY <1>1, <3>1, Zenon DEF shift_right_arithmetic_constexpr, srai, Each
  <2> QED BY <2>1, <2>2, <2>3, Zenon
<1> DEFINE left == lanewise(type, "shift_left", a, b, c)
           right == lanewise(type, "shift_right", a, b, c)
           signed == lanewise(type, "shift_right_arithmetic", a, b, c)
<1>7. ASSUME type.n = 16
      PROVE  left = slli_epx8(w, a, c) /\ right = srli_epx8(w, a, c) /\ signed = srai_epx8(w, a, c)
  BY <1>1, <1>7, LanewiseIs
<1>8. ASSUME type.n # 16
      PROVE  left = slli(w, a, c) /\ right = srli(w, a, c)
  BY <1>1, <1>8, LanewiseIs
<1>9. /\ type.n = 2 => signed = srai_epi64(w, a, c)
      /\ type.n \in {4, 8} => signed = srai(w, a, c)
  BY <1>1, LanewiseIs
<1> HIDE DEF left, right, signed
<1>4. CASE type.n = 16
  <2>1. PICK m \in Nat : n = 2 * m
    <3>1. n = 16 \/ n = 2 * 16
      <4>1. Count = type.n \/ Count = 2 * type.n
        BY CountIs, Zenon
      <4> QED BY <1>1, <1>4, <4>1, Zenon
    <3>2. n = 2 * 8 \/ n = 2 * 16
      BY <3>1
    <3> QED BY <3>2
  <2>2. a \in Register(w, 2 * m)
    BY <1>0, <2>1
  <2>3. slli_epx8(w, a, c) = slli(w, a, c)
    BY <2>2, SlliEpx8Is
  <2>4. srli_epx8(w, a, c) = srli(w, a, c)
    BY <2>2, SrliEpx8Is
  <2>5. srai_epx8(w, a, c) = srai(w, a, c)
    BY <2>2, SraiEpx8Is
  <2>6. left = slli(w, a, c) /\ right = srli(w, a, c) /\ signed = srai(w, a, c)
    BY <1>1, <1>7, <1>8, <1>9, <1>4, <2>3, <2>4, <2>5, Zenon
  <2> QED BY <1>2, <2>6, Zenon DEF left, right, signed
<1>5. CASE type.n = 2
  <2>1. srai_epi64(w, a, c) = srai(w, a, c)
    BY <1>0, SraiEpi64Is
  <2>2. type.n # 16
    BY <1>5
  <2>3. left = slli(w, a, c) /\ right = srli(w, a, c) /\ signed = srai(w, a, c)
    BY <1>1, <1>7, <1>8, <1>9, <1>5, <2>1, <2>2
  <2> QED BY <1>2, <2>3, Zenon DEF left, right, signed
<1>6. CASE type.n \in {4, 8}
  <2>1. type.n # 16
    BY <1>6
  <2>2. left = slli(w, a, c) /\ right = srli(w, a, c) /\ signed = srai(w, a, c)
    BY <1>1, <1>7, <1>8, <1>9, <1>6, <2>1, Zenon
  <2> QED BY <1>2, <2>2, Zenon DEF left, right, signed
<1> QED BY <1>w, <1>4, <1>5, <1>6

\* The number of a lane, and the first of the least lanes among some.
Number(t, a, k) == Value(t.s, t.w, a[k])
Leads(t, a, S, k) ==
  /\ k \in S
  /\ \A j \in S : /\ Number(t, a, k) <= Number(t, a, j)
                  /\ j < k => Number(t, a, k) < Number(t, a, j)

-------------------------------------------------------------------------------
(***************************************************************************)
(* The positions of the extrema.                                           *)
(***************************************************************************)

\* The leads of two adjacent groups meet: the second has to be strictly less.
LEMMA LeadsMeet ==
  ASSUME NEW t, NEW a, NEW b \in Int, NEW c \in Int, NEW d \in Int, b <= c, c <= d,
         \A j \in b .. d - 1 : Number(t, a, j) \in Int,
         NEW k, Leads(t, a, b .. c - 1, k), NEW m, Leads(t, a, c .. d - 1, m),
         NEW r, r = IF Number(t, a, k) > Number(t, a, m) THEN m ELSE k
  PROVE  Leads(t, a, b .. d - 1, r)
<1>1. /\ k \in b .. c - 1 /\ m \in c .. d - 1
      /\ \A j \in b .. c - 1 : /\ Number(t, a, k) <= Number(t, a, j)
                               /\ j < k => Number(t, a, k) < Number(t, a, j)
      /\ \A j \in c .. d - 1 : /\ Number(t, a, m) <= Number(t, a, j)
                               /\ j < m => Number(t, a, m) < Number(t, a, j)
  BY DEF Leads
<1>2. k \in b .. d - 1 /\ m \in b .. d - 1 /\ k < m
  BY <1>1
<1>3. PICK x \in Int, y \in Int : x = Number(t, a, k) /\ y = Number(t, a, m)
  BY <1>2
<1>4. r \in b .. d - 1
  BY <1>2
<1>5. ASSUME NEW j \in b .. d - 1
      PROVE  /\ Number(t, a, r) <= Number(t, a, j)
             /\ j < r => Number(t, a, r) < Number(t, a, j)
  <2>1. PICK z \in Int : z = Number(t, a, j)
    OBVIOUS
  <2>2. CASE j \in b .. c - 1
    <3>1. x <= z /\ (j < k => x < z)
      BY <1>1, <1>3, <2>1, <2>2
    <3>2. CASE x > y
      <4>1. r = m
        BY <1>3, <3>2
      <4> QED BY <1>3, <2>1, <3>1, <3>2, <4>1
    <3>3. CASE ~(x > y)
      <4>1. r = k
        BY <1>3, <3>3
      <4> QED BY <1>3, <2>1, <3>1, <4>1
    <3> QED BY <3>2, <3>3
  <2>3. CASE j \in c .. d - 1
    <3>1. y <= z /\ (j < m => y < z)
      BY <1>1, <1>3, <2>1, <2>3
    <3>2. CASE x > y
      <4>1. r = m
        BY <1>3, <3>2
      <4> QED BY <1>3, <2>1, <3>1, <4>1
    <3>3. CASE ~(x > y)
      <4>1. r = k /\ ~(j < k)
        BY <1>1, <1>3, <2>3, <3>3
      <4> QED BY <1>3, <2>1, <3>1, <3>3, <4>1
    <3> QED BY <3>2, <3>3
  <2> QED BY <2>2, <2>3
<1> QED BY <1>4, <1>5, Zenon DEF Leads

\* There is one lead only.
LEMMA OneLeads ==
  ASSUME NEW t, NEW a, NEW n \in Nat, \A j \in First(n) : Number(t, a, j) \in Int,
         NEW k, Leads(t, a, First(n), k), NEW m, Leads(t, a, First(n), m)
  PROVE  k = m
<1>1. /\ k \in First(n) /\ m \in First(n) /\ k \in Int /\ m \in Int
  BY DEF Leads, First
<1>2. PICK x \in Int, y \in Int : x = Number(t, a, k) /\ y = Number(t, a, m)
  BY <1>1
<1>3. x <= y /\ y <= x /\ (m < k => x < y) /\ (k < m => y < x)
  BY <1>1, <1>2, Zenon DEF Leads
<1> QED BY <1>1, <1>2, <1>3

\* And there is one.
LEMMA SomeLeads ==
  ASSUME NEW t, NEW a, NEW n \in Nat, \A j \in 0 .. n : Number(t, a, j) \in Int
  PROVE  \E k : Leads(t, a, First(n + 1), k)
<1> DEFINE Led == {i \in Nat : i <= n => \E k : Leads(t, a, 0 .. i, k)}
<1>0. ASSUME NEW i \in 0 .. n
      PROVE  Leads(t, a, i .. i, i)
  BY DEF Leads
<1>1. 0 \in Led
  BY <1>0
<1>2. ASSUME NEW i \in Nat, i \in Led
      PROVE  i + 1 \in Led
  <2>1. CASE i + 1 <= n
    <3>1. PICK k : Leads(t, a, 0 .. i, k)
      BY <1>2, <2>1
    <3>2. Leads(t, a, i + 1 .. i + 1, i + 1)
      BY <1>0, <2>1
    <3>3. PICK r : r = IF Number(t, a, k) > Number(t, a, i + 1) THEN i + 1 ELSE k
      OBVIOUS
    <3>4. Leads(t, a, 0 .. (i + 2) - 1, r)
      <4>1. /\ 0 <= i + 1 /\ i + 1 <= i + 2 /\ i = (i + 1) - 1 /\ i + 1 = (i + 2) - 1
            /\ 0 \in Int /\ i + 1 \in Int /\ i + 2 \in Int
        OBVIOUS
      <4>2. \A j \in 0 .. (i + 2) - 1 : Number(t, a, j) \in Int
        BY <2>1
      <4>3. Leads(t, a, 0 .. (i + 1) - 1, k) /\ Leads(t, a, i + 1 .. (i + 2) - 1, i + 1)
        BY <3>1, <3>2, <4>1
      <4> QED BY <3>3, <4>1, <4>2, <4>3, LeadsMeet
    <3>5. (i + 2) - 1 = i + 1
      OBVIOUS
    <3> QED BY <3>4, <3>5
  <2> QED BY <2>1
<1> HIDE DEF Led
<1>3. Nat \subseteq Led
  BY <1>1, <1>2, WordOfTwo, Numbers!SetInduction
<1>4. \E k : Leads(t, a, 0 .. n, k)
  BY <1>3 DEF Led
<1>5. First(n + 1) = 0 .. n
  BY DEF First
<1> QED BY <1>4, <1>5

\* What the compiler finds is the lead.
LEMMA LeadFound ==
  ASSUME NEW t, NEW n \in Nat, NEW a, DOMAIN a = First(n),
         \A j \in First(n) : Number(t, a, j) \in Int,
         NEW k, Leads(t, a, First(n), k)
  PROVE  min_position_constexpr(t, a) = k
<1> DEFINE P(i) == /\ \A j \in First(n) : ~(Value(t.s, t.w, a[j]) < Value(t.s, t.w, a[i]))
                   /\ \A j \in First(i) : Value(t.s, t.w, a[i]) < Value(t.s, t.w, a[j])
<1>1. min_position_constexpr(t, a) = CHOOSE i \in First(n) : P(i)
  BY DEF min_position_constexpr, FirstOf
<1>2. ASSUME NEW i \in First(n)
      PROVE  P(i) <=> Leads(t, a, First(n), i)
  <2>1. PICK x \in Int : x = Number(t, a, i)
    OBVIOUS
  <2>2. i \in Int /\ \A j : j \in First(i) <=> j \in First(n) /\ j < i
    BY DEF First
  <2>3. P(i) <=> /\ \A j \in First(n) : ~(Number(t, a, j) < Number(t, a, i))
                 /\ \A j \in First(i) : Number(t, a, i) < Number(t, a, j)
    BY Zenon DEF Number
  <2>4. \A j \in First(n) : ~(Number(t, a, j) < Number(t, a, i)) <=> Number(t, a, i) <= Number(t, a, j)
    BY <2>1
  <2> HIDE DEF P
  <2> QED BY <2>2, <2>3, <2>4, Zenon DEF Leads
<1> HIDE DEF P
<1>3. k \in First(n)
  BY DEF Leads
<1>4. PICK i : i = (CHOOSE j \in First(n) : P(j)) /\ i \in First(n) /\ P(i)
  BY <1>2, <1>3
<1>5. Leads(t, a, First(n), i)
  BY <1>2, <1>4
<1>6. i = k
  BY <1>5, OneLeads
<1> QED BY <1>1, <1>4, <1>6

\* Each lane holds the least of a group of o lanes from it on, and its position.
Gathered(t, v, N, m, o) ==
  /\ m.values \in Register(t.w, N)
  /\ DOMAIN m.positions = First(N)
  /\ \A k \in First(N) : k + o <= N => /\ Leads(t, v, k .. k + o - 1, m.positions[k])
                                       /\ m.values[k] = v[m.positions[k]]

\* The start: groups of one.
LEMMA StartGathered ==
  ASSUME NEW t, NEW N \in Nat, NEW v \in Register(t.w, N), \A k \in First(N) : Number(t, v, k) \in Int
  PROVE  Gathered(t, v, N, Start(v), 1)
<1>1. DOMAIN v = First(N)
  BY LaneOfRegister
<1>2. Start(v).values = v /\ Start(v).positions = [k \in First(N) |-> k]
  BY <1>1 DEF Start
<1>3. ASSUME NEW k \in First(N)
      PROVE  Leads(t, v, k .. k + 1 - 1, k)
  <2>1. k \in Int /\ Number(t, v, k) \in Int
    BY DEF First
  <2>2. k .. k + 1 - 1 = {k}
    BY <2>1
  <2>3. Leads(t, v, {k}, k)
    BY <2>1 DEF Leads
  <2> QED BY <2>2, <2>3, Zenon
<1>4. PICK m : m = Start(v)
  OBVIOUS
<1>5. Gathered(t, v, N, m, 1)
  <2>1. m.values = v /\ m.positions = [k \in First(N) |-> k]
    BY <1>2, <1>4
  <2> QED BY <1>3, <2>1 DEF Gathered
<1> QED BY <1>4, <1>5

\* A shift by lanes brings the lane o above.
LEMMA BroughtDown ==
  ASSUME NEW N \in Nat, NEW v, DOMAIN v = First(N), NEW o \in Nat
  PROVE  /\ DOMAIN bsrli(N, v, o) = First(N)
         /\ bsrli(N, v, o) = [k \in First(N) |-> bsrli(N, v, o)[k]]
         /\ \A k \in First(N) : bsrli(N, v, o)[k] = IF k + o < N THEN v[k + o] ELSE 0
<1>1. bsrli(N, v, o) = [k \in First(N) |-> IF (k % N) + o < N THEN v[k + o] ELSE 0]
  BY DEF bsrli
<1>2. \A k \in First(N) : k % N = k
  BY DEF First
<1> QED BY <1>1, <1>2

\* The order of the type, at run time.
LEMMA OrderIs ==
  ASSUME NEW t, NEW w \in Nat \ {0}, w = t.w, t.s \in BOOLEAN, NEW n \in Nat,
         NEW a \in Register(w, n), NEW b \in Register(w, n), NEW k \in First(n)
  PROVE  greater(t, a, b)[k] >= SignBit(w) <=> Number(t, a, k) > Number(t, b, k)
<1>1. a[k] \in Cells(w) /\ b[k] \in Cells(w)
  BY LaneOfRegister
<1>2. greater(t, a, b)[k] = Greater(t, a[k], b[k])
  <2>1. CASE t.s
    <3>1. greater(t, a, b) = cmpgt(w, a, b)
      BY <2>1, Zenon DEF greater
    <3>2. cmpgt(w, a, b)[k] = Truth(w, AsSigned(w, a[k]) > AsSigned(w, b[k]))
      BY CmpgtIs
    <3>3. Greater(t, a[k], b[k]) = Truth(t.w, AsSigned(t.w, a[k]) > AsSigned(t.w, b[k]))
      BY <1>1, <2>1, GreaterIs, Zenon
    <3> QED BY <3>1, <3>2, <3>3, Zenon
  <2>2. CASE ~t.s
    <3>1. greater(t, a, b) = cmpgt_epu64(w, a, b)
      BY <2>2, Zenon DEF greater, cmpgt_epu64
    <3>2. cmpgt_epu64(w, a, b)[k] = Truth(w, a[k] > b[k])
      BY CmpgtEpu64Is
    <3>3. Greater(t, a[k], b[k]) = Truth(t.w, a[k] > b[k])
      BY <1>1, <2>2, GreaterIs, Zenon
    <3> QED BY <3>1, <3>2, <3>3, Zenon
  <2> QED BY <2>1, <2>2
<1>3. Truth(w, Number(t, a, k) > Number(t, b, k)) >= SignBit(w) <=> Number(t, a, k) > Number(t, b, k)
  <2>1. ASSUME Number(t, a, k) > Number(t, b, k)
        PROVE  Truth(w, Number(t, a, k) > Number(t, b, k)) >= SignBit(w)
    BY <2>1, TruthIs, Zenon
  <2>2. ASSUME ~(Number(t, a, k) > Number(t, b, k))
        PROVE  ~(Truth(w, Number(t, a, k) > Number(t, b, k)) >= SignBit(w))
    <3>1. ~(0 >= SignBit(w))
      BY Base
    <3>2. Truth(w, Number(t, a, k) > Number(t, b, k)) = 0
      BY <2>2 DEF Truth
    <3> QED BY <3>1, <3>2, Zenon
  <2> QED BY <2>1, <2>2, Zenon
<1>4. Greater(t, a[k], b[k]) = Truth(w, Number(t, a, k) > Number(t, b, k))
  BY Zenon DEF Greater, Number
<1> QED BY <1>2, <1>3, <1>4, Zenon

\* One reduction doubles the groups.
LEMMA ReduceGathers ==
  ASSUME NEW t, NEW w \in Nat \ {0}, w = t.w, t.s \in BOOLEAN, NEW N \in Nat, N = t.n,
         NEW v \in Register(w, N), \A k \in First(N) : Number(t, v, k) \in Int,
         NEW o \in Nat \ {0}, NEW m, Gathered(t, v, N, m, o)
  PROVE  Gathered(t, v, N, reduce(t, m, o), 2 * o)
<1>1. PICK x \in Register(w, N) : x = m.values
  BY DEF Gathered
<1>2. PICK p : p = m.positions /\ DOMAIN p = First(N)
  BY DEF Gathered
<1>3. \A k \in First(N) : k + o <= N => Leads(t, v, k .. k + o - 1, p[k]) /\ x[k] = v[p[k]]
  BY <1>1, <1>2, Zenon DEF Gathered
<1>4. PICK y \in Register(w, N) :
        y = bsrli(N, x, o) /\ \A k \in First(N) : k + o < N => y[k] = x[k + o]
  <2>1. DOMAIN x = First(N) /\ \A k \in First(N) : x[k] \in Cells(w)
    BY LaneOfRegister
  <2>2. PICK z : /\ z = bsrli(N, x, o) /\ DOMAIN z = First(N)
                 /\ z = [k \in First(N) |-> z[k]]
                 /\ \A k \in First(N) : z[k] = IF k + o < N THEN x[k + o] ELSE 0
    BY <2>1, BroughtDown
  <2>3. 0 \in Cells(w)
    <3>1. PICK P \in Nat : P = 2 ^ w /\ P > 0
      BY Modulus, Zenon
    <3> QED BY <3>1 DEF Cells
  <2>4. ASSUME NEW k \in First(N)
        PROVE  z[k] \in Cells(w)
    <3>1. k + o < N => k + o \in First(N)
      BY DEF First
    <3> QED BY <2>1, <2>2, <2>3, <3>1
  <2>6. z \in Register(w, N)
    BY <2>2, <2>4 DEF Register
  <2> QED BY <2>2, <2>6
<1>5. PICK q : /\ q = bsrli(N, p, o) /\ DOMAIN q = First(N)
               /\ \A k \in First(N) : k + o < N => q[k] = p[k + o]
  BY <1>2, BroughtDown
<1>6. PICK less : less = greater(t, x, y)
  OBVIOUS
<1>7. \A k \in First(N) : less[k] >= SignBit(w) <=> Number(t, x, k) > Number(t, y, k)
  BY <1>6, OrderIs
<1>8. PICK r : r = reduce(t, m, o)
  OBVIOUS
<1>9. r.values = blendv(w, x, y, less) /\ r.positions = blendv(w, p, q, less)
  BY <1>1, <1>2, <1>4, <1>5, <1>6, <1>8 DEF reduce
<1>10. /\ r.values \in Register(w, N)
       /\ \A k \in First(N) : r.values[k] = IF less[k] >= SignBit(w) THEN y[k] ELSE x[k]
  <2>1. w \in Nat
    OBVIOUS
  <2> QED BY <1>9, <2>1, BlendIs
<1>11. /\ DOMAIN r.positions = First(N)
       /\ \A k \in First(N) : r.positions[k] = IF less[k] >= SignBit(w) THEN q[k] ELSE p[k]
  BY <1>2, <1>9 DEF blendv
<1>12. ASSUME NEW k \in First(N), k + 2 * o <= N
       PROVE  /\ Leads(t, v, k .. k + 2 * o - 1, r.positions[k])
              /\ r.values[k] = v[r.positions[k]]
  <2>1. /\ k \in Int /\ k + o \in First(N) /\ k + o < N /\ k + o <= N /\ (k + o) + o <= N
        /\ (k + o) + o - 1 = (k + 2 * o) - 1 /\ k + o - 1 = (k + o) - 1 /\ k + 2 * o - 1 = (k + 2 * o) - 1
    BY <1>12 DEF First
  <2>2. Leads(t, v, k .. (k + o) - 1, p[k]) /\ x[k] = v[p[k]]
    BY <1>3, <2>1
  <2>3. Leads(t, v, k + o .. (k + 2 * o) - 1, p[k + o]) /\ x[k + o] = v[p[k + o]]
    BY <1>3, <2>1
  <2>4. y[k] = v[q[k]] /\ q[k] = p[k + o]
    BY <1>4, <1>5, <2>1, <2>3
  <2>5. Number(t, x, k) = Number(t, v, p[k]) /\ Number(t, y, k) = Number(t, v, p[k + o])
    BY <2>2, <2>4, Zenon DEF Number
  <2>6. r.positions[k] = IF Number(t, v, p[k]) > Number(t, v, p[k + o]) THEN p[k + o] ELSE p[k]
    <3>1. CASE Number(t, x, k) > Number(t, y, k)
      <4>1. less[k] >= SignBit(w)
        BY <1>7, <3>1
      <4>2. r.positions[k] = p[k + o]
        BY <1>11, <2>4, <4>1
      <4> QED BY <2>5, <3>1, <4>2
    <3>2. CASE ~(Number(t, x, k) > Number(t, y, k))
      <4>1. ~(less[k] >= SignBit(w))
        BY <1>7, <3>2
      <4>2. r.positions[k] = p[k]
        BY <1>11, <4>1
      <4> QED BY <2>5, <3>2, <4>2
    <3> QED BY <3>1, <3>2
  <2>7. Leads(t, v, k .. (k + 2 * o) - 1, r.positions[k])
    <3>1. k \in Int /\ k + o \in Int /\ k + 2 * o \in Int /\ k <= k + o /\ k + o <= k + 2 * o
      BY <2>1
    <3>2. \A j \in k .. (k + 2 * o) - 1 : Number(t, v, j) \in Int
      <4>1. \A j \in k .. (k + 2 * o) - 1 : j \in First(N)
        BY <1>12, <2>1 DEF First
      <4> QED BY <4>1
    <3> QED BY <2>2, <2>3, <2>6, <3>1, <3>2, LeadsMeet, ZenonT(30)
  <2>8. r.values[k] = v[r.positions[k]]
    BY <1>10, <1>11, <2>2, <2>4
  <2> QED BY <2>1, <2>7, <2>8
<1>13. Gathered(t, v, N, r, 2 * o)
  BY <1>10, <1>11, <1>12, Zenon DEF Gathered
<1> QED BY <1>8, <1>13

\* The least of a half, and where it is first.
PositionOf(m) == [value |-> m.values[0], position |-> m.positions[0]]

\* The reductions in their order.
LEMMA ReductionsAre ==
  ASSUME NEW t, t.n \in {2, 4, 8, 16}, NEW v,
         NEW m1, m1 = reduce(t, Start(v), 1), NEW m2, m2 = reduce(t, m1, 2),
         NEW m4, m4 = reduce(t, m2, 4), NEW m8, m8 = reduce(t, m4, 8)
  PROVE  min_position_128(t, v)
           = PositionOf(IF t.n = 2 THEN m1 ELSE IF t.n = 4 THEN m2 ELSE IF t.n = 8 THEN m4 ELSE m8)
<1> DEFINE Reduced(f) == [offset \in {1, 2, 4, 8} |->
                            reduce(t, IF offset = 1 THEN Start(v) ELSE f[offset \div 2], offset)]
           g == [offset \in {1, 2, 4, 8} |->
                   IF offset = 1 THEN m1 ELSE IF offset = 2 THEN m2 ELSE IF offset = 4 THEN m4 ELSE m8]
<1>1. g = Reduced(g)
  <2>1. ASSUME NEW offset \in {1, 2, 4, 8}
        PROVE  g[offset] = reduce(t, IF offset = 1 THEN Start(v) ELSE g[offset \div 2], offset)
    <3>1. CASE offset = 1
      BY <3>1
    <3>2. CASE offset = 2
      <4>1. offset \div 2 = 1 /\ 1 \in {1, 2, 4, 8}
        BY <3>2
      <4> QED BY <3>2, <4>1
    <3>3. CASE offset = 4
      <4>1. offset \div 2 = 2 /\ 2 \in {1, 2, 4, 8}
        BY <3>3
      <4> QED BY <3>3, <4>1
    <3>4. CASE offset = 8
      <4>1. offset \div 2 = 4 /\ 4 \in {1, 2, 4, 8}
        BY <3>4
      <4> QED BY <3>4, <4>1
    <3> QED BY <3>1, <3>2, <3>3, <3>4
  <2>2. DOMAIN g = {1, 2, 4, 8}
    OBVIOUS
  <2> QED BY <2>1, <2>2
<1>2. PICK f : f = (CHOOSE h : h = Reduced(h)) /\ f = Reduced(f)
  <2> HIDE DEF Reduced, g
  <2> QED BY <1>1, Zenon
<1>3. f[1] = m1
  BY <1>2
<1>4. f[2] = m2
  <2>1. 2 \div 2 = 1 /\ 2 # 1
    OBVIOUS
  <2> QED BY <1>2, <1>3, <2>1
<1>5. f[4] = m4
  <2>1. 4 \div 2 = 2 /\ 4 # 1
    OBVIOUS
  <2> QED BY <1>2, <1>4, <2>1
<1>6. f[8] = m8
  <2>1. 8 \div 2 = 4 /\ 8 # 1
    OBVIOUS
  <2> QED BY <1>2, <1>5, <2>1
<1>7. min_position_128(t, v) = PositionOf(f[t.n \div 2])
  BY <1>2, Zenon DEF min_position_128, PositionOf
<1>8. t.n \div 2 = IF t.n = 2 THEN 1 ELSE IF t.n = 4 THEN 2 ELSE IF t.n = 8 THEN 4 ELSE 8
  OBVIOUS
<1> QED BY <1>3, <1>4, <1>5, <1>6, <1>7, <1>8

\* The position of the minimum of a half.
Located(t, a, n, r) ==
  /\ Leads(t, a, First(n), r.position)
  /\ r = [value |-> a[r.position], position |-> r.position]

\* The reduction finds it.
LEMMA MinPosition128Is ==
  ASSUME NEW t, t.w \in Nat \ {0}, t.s \in BOOLEAN, NEW N \in {2, 4, 8, 16}, N = t.n,
         NEW v \in Register(t.w, N)
  PROVE  Located(t, v, N, min_position_128(t, v))
<1>w. PICK w \in Nat \ {0} : w = t.w
  BY Zenon
<1>n. N \in Nat
  OBVIOUS
<1>v. v \in Register(w, N)
  BY <1>w
<1>1. \A k \in First(N) : Number(t, v, k) \in Int
  <2>1. \A k \in First(N) : v[k] \in Cells(w)
    BY <1>n, <1>v, LaneOfRegister
  <2>2. PICK s : s = t.s
    OBVIOUS
  <2>3. \A x \in Cells(w) : Value(s, w, x) \in Int
    BY ValueIs
  <2> QED BY <1>w, <2>1, <2>2, <2>3, Zenon DEF Number
<1>2. PICK m1 : m1 = reduce(t, Start(v), 1)
  OBVIOUS
<1>3. PICK m2 : m2 = reduce(t, m1, 2)
  OBVIOUS
<1>4. PICK m4 : m4 = reduce(t, m2, 4)
  OBVIOUS
<1>5. PICK m8 : m8 = reduce(t, m4, 8)
  OBVIOUS
<1>6. ASSUME NEW o \in Nat \ {0}, NEW m, Gathered(t, v, N, m, o)
      PROVE  Gathered(t, v, N, reduce(t, m, o), 2 * o)
  BY <1>w, <1>n, <1>v, <1>1, <1>6, ReduceGathers
<1>7. Gathered(t, v, N, m1, 2)
  <2>1. Gathered(t, v, N, Start(v), 1)
    BY <1>n, <1>1, StartGathered
  <2>2. 2 * 1 = 2 /\ 1 \in Nat \ {0}
    OBVIOUS
  <2> QED BY <1>2, <1>6, <2>1, <2>2
<1>8. Gathered(t, v, N, m2, 4)
  <2>1. 2 * 2 = 4 /\ 2 \in Nat \ {0}
    OBVIOUS
  <2> QED BY <1>3, <1>6, <1>7, <2>1
<1>9. Gathered(t, v, N, m4, 8)
  <2>1. 2 * 4 = 8 /\ 4 \in Nat \ {0}
    OBVIOUS
  <2> QED BY <1>4, <1>6, <1>8, <2>1
<1>10. Gathered(t, v, N, m8, 16)
  <2>1. 2 * 8 = 16 /\ 8 \in Nat \ {0}
    OBVIOUS
  <2> QED BY <1>5, <1>6, <1>9, <2>1
<1>11. PICK m : Gathered(t, v, N, m, N) /\ min_position_128(t, v) = PositionOf(m)
  <2>1. min_position_128(t, v)
           = PositionOf(IF t.n = 2 THEN m1 ELSE IF t.n = 4 THEN m2 ELSE IF t.n = 8 THEN m4 ELSE m8)
    BY <1>2, <1>3, <1>4, <1>5, ReductionsAre
  <2> QED BY <1>7, <1>8, <1>9, <1>10, <2>1
<1>12. Leads(t, v, First(N), m.positions[0]) /\ m.values[0] = v[m.positions[0]]
  <2>1. 0 \in First(N) /\ 0 + N <= N /\ 0 .. 0 + N - 1 = First(N)
    BY DEF First
  <2> QED BY <1>11, <2>1, Zenon DEF Gathered
<1> QED BY <1>11, <1>12 DEF PositionOf, Located

\* That of the instruction for unsigned 16-bit lanes.
LEMMA MinposIs ==
  ASSUME NEW t, t.w \in Nat \ {0}, t.s = FALSE, NEW N \in Nat \ {0}, NEW v \in Register(t.w, N)
  PROVE  Located(t, v, N, minpos_epu16(v))
<1>w. PICK w \in Nat \ {0} : w = t.w
  BY Zenon
<1>1. DOMAIN v = First(N) /\ \A k \in First(N) : v[k] \in Cells(w) /\ v[k] \in Int
  <2>1. v \in Register(w, N) /\ N \in Nat
    BY <1>w
  <2> QED BY <2>1, LaneOfRegister DEF Cells
<1>2. \A k : Number(t, v, k) = v[k]
  <2>1. \A x : Value(FALSE, t.w, x) = x
    BY DEF Value
  <2> QED BY <2>1, Zenon DEF Number
<1>3. PICK k : Leads(t, v, First(N), k)
  <2>1. PICK n \in Nat : N = n + 1
    <3>1. N - 1 \in Nat /\ N = (N - 1) + 1
      OBVIOUS
    <3> QED BY <3>1
  <2>2. \A j \in 0 .. n : Number(t, v, j) \in Int
    BY <1>1, <1>2, <2>1 DEF First
  <2>3. \E k : Leads(t, v, First(n + 1), k)
    BY <2>2, SomeLeads
  <2> QED BY <2>1, <2>3
<1> DEFINE P(i) == /\ \A j \in First(N) : v[i] <= v[j]
                   /\ \A j \in First(i) : v[i] < v[j]
<1>4. ASSUME NEW i \in First(N)
      PROVE  P(i) <=> Leads(t, v, First(N), i)
  <2>1. i \in Int /\ \A j : j \in First(i) <=> j \in First(N) /\ j < i
    BY DEF First
  <2> QED BY <1>2, <2>1, Zenon DEF Leads
<1> HIDE DEF P
<1>5. PICK i : i = (CHOOSE j \in First(N) : P(j)) /\ i \in First(N) /\ P(i)
  <2>1. k \in First(N)
    BY <1>3 DEF Leads
  <2> QED BY <1>3, <1>4, <2>1
<1>6. minpos_epu16(v) = [value |-> v[i], position |-> i]
  BY <1>1, <1>5 DEF minpos_epu16, P
<1>7. Leads(t, v, First(N), i)
  BY <1>4, <1>5
<1> QED BY <1>6, <1>7 DEF Located

\* The minimum of two halves.
LEMMA MinPosition256Is ==
  ASSUME NEW t, t.w \in Nat \ {0}, t.s \in BOOLEAN, NEW N \in {2, 4, 8, 16}, N = t.n,
         NEW v \in Register(t.w, 2 * N)
  PROVE  Leads(t, v, First(2 * N), min_position_256(t, v).position)
<1>w. PICK w \in Nat \ {0} : w = t.w
  BY Zenon
<1>n. N \in Nat /\ N \in Nat \ {0} /\ 2 * N \in Nat
  OBVIOUS
<1>v. v \in Register(w, 2 * N)
  BY <1>w
<1>1. \A k \in First(2 * N) : Number(t, v, k) \in Int
  <2>1. \A k \in First(2 * N) : v[k] \in Cells(w)
    BY <1>n, <1>v, LaneOfRegister
  <2>2. PICK s : s = t.s
    OBVIOUS
  <2>3. \A x \in Cells(w) : Value(s, w, x) \in Int
    BY ValueIs
  <2> QED BY <1>w, <2>1, <2>2, <2>3, Zenon DEF Number
<1> DEFINE position(half) == IF t.n = 8 /\ ~t.s THEN minpos_epu16(half) ELSE min_position_128(t, half)
<1>2. PICK a \in Register(t.w, N), b \in Register(t.w, N) :
        /\ a = lower(N, v) /\ b = upper(N, v)
        /\ \A k \in First(N) : a[k] = v[k] /\ b[k] = v[N + k]
  BY <1>n, HalvesAre
<1>3. ASSUME NEW h \in Register(t.w, N)
      PROVE  Located(t, h, N, position(h))
  <2>1. CASE t.n = 8 /\ ~t.s
    <3>1. t.s = FALSE
      BY <2>1
    <3>2. Located(t, h, N, minpos_epu16(h))
      BY <1>n, <3>1, MinposIs, Zenon
    <3> QED BY <2>1, <3>2
  <2>2. CASE ~(t.n = 8 /\ ~t.s)
    <3>1. Located(t, h, N, min_position_128(t, h))
      BY MinPosition128Is
    <3> QED BY <2>2, <3>1
  <2> QED BY <2>1, <2>2
<1>4. PICK low, high :
        /\ low = position(a) /\ high = position(b)
        /\ Located(t, a, N, low) /\ Located(t, b, N, high)
  <2> HIDE DEF position
  <2> QED BY <1>3
<1>5. PICK i, j : /\ i = low.position /\ j = high.position
                  /\ low = [value |-> a[i], position |-> i] /\ high = [value |-> b[j], position |-> j]
                  /\ Leads(t, a, First(N), i) /\ Leads(t, b, First(N), j)
  BY <1>4 DEF Located
<1>6. i \in First(N) /\ j \in First(N) /\ i \in Int /\ j \in Int
  BY <1>5 DEF Leads, First
<1>7. /\ \A k \in First(N) : Number(t, a, k) = Number(t, v, k)
      /\ \A k \in First(N) : Number(t, b, k) = Number(t, v, N + k)
  BY <1>2, Zenon DEF Number
<1>8. Leads(t, v, 0 .. N - 1, i)
  <2>1. First(N) = 0 .. N - 1
    BY DEF First
  <2>2. Leads(t, v, First(N), i)
    BY <1>5, <1>6, <1>7, Zenon DEF Leads
  <2> QED BY <2>1, <2>2
<1>9. Leads(t, v, N .. 2 * N - 1, j + N)
  <2>1. j + N \in N .. 2 * N - 1
    BY <1>6 DEF First
  <2>2. ASSUME NEW k \in N .. 2 * N - 1
        PROVE  /\ Number(t, v, j + N) <= Number(t, v, k)
               /\ k < j + N => Number(t, v, j + N) < Number(t, v, k)
    <3>1. k - N \in First(N) /\ N + (k - N) = k /\ (k < j + N <=> k - N < j) /\ N + j = j + N
      BY <1>6 DEF First
    <3>2. /\ Number(t, b, j) <= Number(t, b, k - N)
          /\ k - N < j => Number(t, b, j) < Number(t, b, k - N)
      BY <1>5, <3>1 DEF Leads
    <3>3. Number(t, b, j) = Number(t, v, j + N) /\ Number(t, b, k - N) = Number(t, v, k)
      BY <1>6, <1>7, <3>1
    <3> QED BY <3>1, <3>2, <3>3
  <2> QED BY <2>1, <2>2, Zenon DEF Leads
<1>10. PICK r : r = min_position_256(t, v)
  OBVIOUS
<1>11. r = IF Value(t.s, t.w, high.value) < Value(t.s, t.w, low.value)
           THEN [high EXCEPT !.position = @ + t.n] ELSE low
  BY <1>2, <1>4, <1>10, Zenon DEF min_position_256
<1>12. /\ Value(t.s, t.w, high.value) = Number(t, v, j + N)
       /\ Value(t.s, t.w, low.value) = Number(t, v, i)
  <2>1. high.value = b[j] /\ low.value = a[i] /\ N + j = j + N
    BY <1>5, <1>6
  <2> QED BY <1>6, <1>7, <2>1, Zenon DEF Number
<1>13. r.position = IF Number(t, v, i) > Number(t, v, j + N) THEN j + N ELSE i
  <2>0. /\ i \in First(2 * N) /\ j + N \in First(2 * N)
    BY <1>6 DEF First
  <2>1. Number(t, v, i) \in Int /\ Number(t, v, j + N) \in Int
    BY <1>1, <2>0
  <2>2. [high EXCEPT !.position = @ + t.n].position = j + N
    BY <1>5
  <2>3. low.position = i
    BY <1>5
  <2> QED BY <1>11, <1>12, <2>1, <2>2, <2>3
<1>14. Leads(t, v, 0 .. 2 * N - 1, r.position)
  <2>1. 0 \in Int /\ N \in Int /\ 2 * N \in Int /\ 0 <= N /\ N <= 2 * N
    BY <1>n
  <2>2. \A k \in 0 .. 2 * N - 1 : Number(t, v, k) \in Int
    BY <1>1 DEF First
  <2> QED BY <1>8, <1>9, <1>13, <2>1, <2>2, LeadsMeet, SMTT(30)
<1>15. First(2 * N) = 0 .. 2 * N - 1
  BY DEF First
<1> QED BY <1>10, <1>14, <1>15

\* Which operation finds the position: an instruction for unsigned 16-bit lanes.
PositionBy(t, a) ==
  IF bits = 128 THEN IF t = uint16 THEN minpos_epu16(a) ELSE min_position_128(t, a)
                ELSE min_position_256(t, a)

\* The table of the reductions, for the position.
LEMMA PositionTable ==
  ASSUME NEW t \in Types, NEW a, NEW c
  PROVE  reduction(t, "min_position", a, c) = PositionBy(t, a)
<1>1. CASE t = int8
  <2>1. t # uint8 /\ t # int16 /\ t # uint16 /\ t # int32 /\ t # uint32 /\ t # int64 /\ t # uint64
    BY <1>1, TypesDiffer, Zenon
  <2>2. reduction(t, "min_position", a, c)
          = IF bits = 128 THEN SimdImpl128_int8_reductions("min_position", a, c)
                          ELSE SimdImpl256_int8_reductions("min_position", a, c)
    BY <1>1, <2>1, Zenon DEF reduction
  <2>3. /\ SimdImpl128_int8_reductions("min_position", a, c) = min_position_128(int8, a)
        /\ SimdImpl256_int8_reductions("min_position", a, c) = min_position_256(int8, a)
    BY DEF SimdImpl128_int8_reductions, SimdImpl256_int8_reductions
  <2> QED BY <1>1, <2>1, <2>2, <2>3, Zenon DEF PositionBy
<1>2. CASE t = uint8
  <2>1. t # int8 /\ t # int16 /\ t # uint16 /\ t # int32 /\ t # uint32 /\ t # int64 /\ t # uint64
    BY <1>2, TypesDiffer, Zenon
  <2>2. reduction(t, "min_position", a, c)
          = IF bits = 128 THEN SimdImpl128_uint8_reductions("min_position", a, c)
                          ELSE SimdImpl256_uint8_reductions("min_position", a, c)
    BY <1>2, <2>1, Zenon DEF reduction
  <2>3. /\ SimdImpl128_uint8_reductions("min_position", a, c) = min_position_128(uint8, a)
        /\ SimdImpl256_uint8_reductions("min_position", a, c) = min_position_256(uint8, a)
    BY DEF SimdImpl128_uint8_reductions, SimdImpl256_uint8_reductions
  <2> QED BY <1>2, <2>1, <2>2, <2>3, Zenon DEF PositionBy
<1>3. CASE t = int16
  <2>1. t # int8 /\ t # uint8 /\ t # uint16 /\ t # int32 /\ t # uint32 /\ t # int64 /\ t # uint64
    BY <1>3, TypesDiffer, Zenon
  <2>2. reduction(t, "min_position", a, c)
          = IF bits = 128 THEN SimdImpl128_int16_reductions("min_position", a, c)
                          ELSE SimdImpl256_int16_reductions("min_position", a, c)
    BY <1>3, <2>1, Zenon DEF reduction
  <2>3. /\ SimdImpl128_int16_reductions("min_position", a, c) = min_position_128(int16, a)
        /\ SimdImpl256_int16_reductions("min_position", a, c) = min_position_256(int16, a)
    BY DEF SimdImpl128_int16_reductions, SimdImpl256_int16_reductions
  <2> QED BY <1>3, <2>1, <2>2, <2>3, Zenon DEF PositionBy
<1>4. CASE t = uint16
  <2>1. t # int8 /\ t # uint8 /\ t # int16 /\ t # int32 /\ t # uint32 /\ t # int64 /\ t # uint64
    BY <1>4, TypesDiffer, Zenon
  <2>2. reduction(t, "min_position", a, c)
          = IF bits = 128 THEN SimdImpl128_uint16_reductions("min_position", a, c)
                          ELSE SimdImpl256_uint16_reductions("min_position", a, c)
    BY <1>4, <2>1, Zenon DEF reduction
  <2>3. /\ SimdImpl128_uint16_reductions("min_position", a, c) = minpos_epu16(a)
        /\ SimdImpl256_uint16_reductions("min_position", a, c) = min_position_256(uint16, a)
    BY DEF SimdImpl128_uint16_reductions, SimdImpl256_uint16_reductions
  <2> QED BY <1>4, <2>1, <2>2, <2>3, Zenon DEF PositionBy
<1>5. CASE t = int32
  <2>1. t # int8 /\ t # uint8 /\ t # int16 /\ t # uint16 /\ t # uint32 /\ t # int64 /\ t # uint64
    BY <1>5, TypesDiffer, Zenon
  <2>2. reduction(t, "min_position", a, c)
          = IF bits = 128 THEN SimdImpl128_int32_reductions("min_position", a, c)
                          ELSE SimdImpl256_int32_reductions("min_position", a, c)
    BY <1>5, <2>1, Zenon DEF reduction
  <2>3. /\ SimdImpl128_int32_reductions("min_position", a, c) = min_position_128(int32, a)
        /\ SimdImpl256_int32_reductions("min_position", a, c) = min_position_256(int32, a)
    BY DEF SimdImpl128_int32_reductions, SimdImpl256_int32_reductions
  <2> QED BY <1>5, <2>1, <2>2, <2>3, Zenon DEF PositionBy
<1>6. CASE t = uint32
  <2>1. t # int8 /\ t # uint8 /\ t # int16 /\ t # uint16 /\ t # int32 /\ t # int64 /\ t # uint64
    BY <1>6, TypesDiffer, Zenon
  <2>2. reduction(t, "min_position", a, c)
          = IF bits = 128 THEN SimdImpl128_uint32_reductions("min_position", a, c)
                          ELSE SimdImpl256_uint32_reductions("min_position", a, c)
    BY <1>6, <2>1, Zenon DEF reduction
  <2>3. /\ SimdImpl128_uint32_reductions("min_position", a, c) = min_position_128(uint32, a)
        /\ SimdImpl256_uint32_reductions("min_position", a, c) = min_position_256(uint32, a)
    BY DEF SimdImpl128_uint32_reductions, SimdImpl256_uint32_reductions
  <2> QED BY <1>6, <2>1, <2>2, <2>3, Zenon DEF PositionBy
<1>7. CASE t = int64
  <2>1. t # int8 /\ t # uint8 /\ t # int16 /\ t # uint16 /\ t # int32 /\ t # uint32 /\ t # uint64
    BY <1>7, TypesDiffer, Zenon
  <2>2. reduction(t, "min_position", a, c)
          = IF bits = 128 THEN SimdImpl128_int64_reductions("min_position", a, c)
                          ELSE SimdImpl256_int64_reductions("min_position", a, c)
    BY <1>7, <2>1, Zenon DEF reduction
  <2>3. /\ SimdImpl128_int64_reductions("min_position", a, c) = min_position_128(int64, a)
        /\ SimdImpl256_int64_reductions("min_position", a, c) = min_position_256(int64, a)
    BY DEF SimdImpl128_int64_reductions, SimdImpl256_int64_reductions
  <2> QED BY <1>7, <2>1, <2>2, <2>3, Zenon DEF PositionBy
<1>8. CASE t = uint64
  <2>1. t # int8 /\ t # uint8 /\ t # int16 /\ t # uint16 /\ t # int32 /\ t # uint32 /\ t # int64
    BY <1>8, TypesDiffer, Zenon
  <2>2. reduction(t, "min_position", a, c)
          = IF bits = 128 THEN SimdImpl128_uint64_reductions("min_position", a, c)
                          ELSE SimdImpl256_uint64_reductions("min_position", a, c)
    BY <1>8, <2>1, Zenon DEF reduction
  <2>3. /\ SimdImpl128_uint64_reductions("min_position", a, c) = min_position_128(uint64, a)
        /\ SimdImpl256_uint64_reductions("min_position", a, c) = min_position_256(uint64, a)
    BY DEF SimdImpl128_uint64_reductions, SimdImpl256_uint64_reductions
  <2> QED BY <1>8, <2>1, <2>2, <2>3, Zenon DEF PositionBy
<1> QED BY <1>1, <1>2, <1>3, <1>4, <1>5, <1>6, <1>7, <1>8, Zenon DEF Types

\* A type as a record, and with another sign.
TypeOf(x, w, n) == [s |-> x, w |-> w, n |-> n]
Resigned(t, y) == [t EXCEPT !.s = y]
SignedKind == TRUE
UnsignedKind == FALSE

\* The record that results.
LEMMA ResignedIs ==
  ASSUME NEW x, NEW y, NEW w, NEW n
  PROVE  Resigned(TypeOf(x, w, n), y) = TypeOf(y, w, n)
BY DEF Resigned, TypeOf

\* What holds of the types, and of their unsigned counterparts.
LEMMA EachTypeIs ==
  ASSUME NEW t \in Types
  PROVE  /\ t.w \in Nat \ {0} /\ t.s \in BOOLEAN /\ t.n \in {2, 4, 8, 16}
         /\ unsigned(t) \in Types
         /\ unsigned(t).s = FALSE /\ unsigned(t).w = t.w /\ unsigned(t).n = t.n
         /\ t = uint16 => t.s = FALSE
<1>1. {W8, W16, W32, W64} \subseteq Nat \ {0}
  BY LaneAssumption
<1>0. t = uint16 => t.s = FALSE
  BY FieldsAre, Zenon
<1>2. CASE t = int8
  <2>1. t.w = W8 /\ t.n = 16 /\ t.s \in BOOLEAN
    BY <1>2, FieldsAre, Zenon
  <2>2. unsigned(t) = uint8
    <3>1. int8 = TypeOf(SignedKind, W8, 16) /\ uint8 = TypeOf(UnsignedKind, W8, 16)
      BY Zenon DEF TypeOf, SignedKind, UnsignedKind, int8, uint8
    <3>2. unsigned(t) = Resigned(t, UnsignedKind)
      BY Zenon DEF unsigned, Resigned, UnsignedKind
    <3>3. Resigned(TypeOf(SignedKind, W8, 16), UnsignedKind) = TypeOf(UnsignedKind, W8, 16)
      BY ResignedIs
    <3> QED BY <1>2, <3>1, <3>2, <3>3, Zenon
  <2>3. uint8.w = W8 /\ uint8.n = 16 /\ uint8.s = FALSE
    BY FieldsAre, Zenon
  <2>4. t.w \in Nat \ {0} /\ t.n \in {2, 4, 8, 16}
    BY <1>1, <2>1
  <2>5. uint8 \in Types
    BY Zenon DEF Types
  <2> QED BY <1>0, <2>1, <2>2, <2>3, <2>4, <2>5, Zenon
<1>3. CASE t = uint8
  <2>1. t.w = W8 /\ t.n = 16 /\ t.s \in BOOLEAN
    BY <1>3, FieldsAre, Zenon
  <2>2. unsigned(t) = uint8
    <3>1. uint8 = TypeOf(UnsignedKind, W8, 16) /\ uint8 = TypeOf(UnsignedKind, W8, 16)
      BY Zenon DEF TypeOf, SignedKind, UnsignedKind, uint8
    <3>2. unsigned(t) = Resigned(t, UnsignedKind)
      BY Zenon DEF unsigned, Resigned, UnsignedKind
    <3>3. Resigned(TypeOf(UnsignedKind, W8, 16), UnsignedKind) = TypeOf(UnsignedKind, W8, 16)
      BY ResignedIs
    <3> QED BY <1>3, <3>1, <3>2, <3>3, Zenon
  <2>3. uint8.w = W8 /\ uint8.n = 16 /\ uint8.s = FALSE
    BY FieldsAre, Zenon
  <2>4. t.w \in Nat \ {0} /\ t.n \in {2, 4, 8, 16}
    BY <1>1, <2>1
  <2>5. uint8 \in Types
    BY Zenon DEF Types
  <2> QED BY <1>0, <2>1, <2>2, <2>3, <2>4, <2>5, Zenon
<1>4. CASE t = int16
  <2>1. t.w = W16 /\ t.n = 8 /\ t.s \in BOOLEAN
    BY <1>4, FieldsAre, Zenon
  <2>2. unsigned(t) = uint16
    <3>1. int16 = TypeOf(SignedKind, W16, 8) /\ uint16 = TypeOf(UnsignedKind, W16, 8)
      BY Zenon DEF TypeOf, SignedKind, UnsignedKind, int16, uint16
    <3>2. unsigned(t) = Resigned(t, UnsignedKind)
      BY Zenon DEF unsigned, Resigned, UnsignedKind
    <3>3. Resigned(TypeOf(SignedKind, W16, 8), UnsignedKind) = TypeOf(UnsignedKind, W16, 8)
      BY ResignedIs
    <3> QED BY <1>4, <3>1, <3>2, <3>3, Zenon
  <2>3. uint16.w = W16 /\ uint16.n = 8 /\ uint16.s = FALSE
    BY FieldsAre, Zenon
  <2>4. t.w \in Nat \ {0} /\ t.n \in {2, 4, 8, 16}
    BY <1>1, <2>1
  <2>5. uint16 \in Types
    BY Zenon DEF Types
  <2> QED BY <1>0, <2>1, <2>2, <2>3, <2>4, <2>5, Zenon
<1>5. CASE t = uint16
  <2>1. t.w = W16 /\ t.n = 8 /\ t.s \in BOOLEAN
    BY <1>5, FieldsAre, Zenon
  <2>2. unsigned(t) = uint16
    <3>1. uint16 = TypeOf(UnsignedKind, W16, 8) /\ uint16 = TypeOf(UnsignedKind, W16, 8)
      BY Zenon DEF TypeOf, SignedKind, UnsignedKind, uint16
    <3>2. unsigned(t) = Resigned(t, UnsignedKind)
      BY Zenon DEF unsigned, Resigned, UnsignedKind
    <3>3. Resigned(TypeOf(UnsignedKind, W16, 8), UnsignedKind) = TypeOf(UnsignedKind, W16, 8)
      BY ResignedIs
    <3> QED BY <1>5, <3>1, <3>2, <3>3, Zenon
  <2>3. uint16.w = W16 /\ uint16.n = 8 /\ uint16.s = FALSE
    BY FieldsAre, Zenon
  <2>4. t.w \in Nat \ {0} /\ t.n \in {2, 4, 8, 16}
    BY <1>1, <2>1
  <2>5. uint16 \in Types
    BY Zenon DEF Types
  <2> QED BY <1>0, <2>1, <2>2, <2>3, <2>4, <2>5, Zenon
<1>6. CASE t = int32
  <2>1. t.w = W32 /\ t.n = 4 /\ t.s \in BOOLEAN
    BY <1>6, FieldsAre, Zenon
  <2>2. unsigned(t) = uint32
    <3>1. int32 = TypeOf(SignedKind, W32, 4) /\ uint32 = TypeOf(UnsignedKind, W32, 4)
      BY Zenon DEF TypeOf, SignedKind, UnsignedKind, int32, uint32
    <3>2. unsigned(t) = Resigned(t, UnsignedKind)
      BY Zenon DEF unsigned, Resigned, UnsignedKind
    <3>3. Resigned(TypeOf(SignedKind, W32, 4), UnsignedKind) = TypeOf(UnsignedKind, W32, 4)
      BY ResignedIs
    <3> QED BY <1>6, <3>1, <3>2, <3>3, Zenon
  <2>3. uint32.w = W32 /\ uint32.n = 4 /\ uint32.s = FALSE
    BY FieldsAre, Zenon
  <2>4. t.w \in Nat \ {0} /\ t.n \in {2, 4, 8, 16}
    BY <1>1, <2>1
  <2>5. uint32 \in Types
    BY Zenon DEF Types
  <2> QED BY <1>0, <2>1, <2>2, <2>3, <2>4, <2>5, Zenon
<1>7. CASE t = uint32
  <2>1. t.w = W32 /\ t.n = 4 /\ t.s \in BOOLEAN
    BY <1>7, FieldsAre, Zenon
  <2>2. unsigned(t) = uint32
    <3>1. uint32 = TypeOf(UnsignedKind, W32, 4) /\ uint32 = TypeOf(UnsignedKind, W32, 4)
      BY Zenon DEF TypeOf, SignedKind, UnsignedKind, uint32
    <3>2. unsigned(t) = Resigned(t, UnsignedKind)
      BY Zenon DEF unsigned, Resigned, UnsignedKind
    <3>3. Resigned(TypeOf(UnsignedKind, W32, 4), UnsignedKind) = TypeOf(UnsignedKind, W32, 4)
      BY ResignedIs
    <3> QED BY <1>7, <3>1, <3>2, <3>3, Zenon
  <2>3. uint32.w = W32 /\ uint32.n = 4 /\ uint32.s = FALSE
    BY FieldsAre, Zenon
  <2>4. t.w \in Nat \ {0} /\ t.n \in {2, 4, 8, 16}
    BY <1>1, <2>1
  <2>5. uint32 \in Types
    BY Zenon DEF Types
  <2> QED BY <1>0, <2>1, <2>2, <2>3, <2>4, <2>5, Zenon
<1>8. CASE t = int64
  <2>1. t.w = W64 /\ t.n = 2 /\ t.s \in BOOLEAN
    BY <1>8, FieldsAre, Zenon
  <2>2. unsigned(t) = uint64
    <3>1. int64 = TypeOf(SignedKind, W64, 2) /\ uint64 = TypeOf(UnsignedKind, W64, 2)
      BY Zenon DEF TypeOf, SignedKind, UnsignedKind, int64, uint64
    <3>2. unsigned(t) = Resigned(t, UnsignedKind)
      BY Zenon DEF unsigned, Resigned, UnsignedKind
    <3>3. Resigned(TypeOf(SignedKind, W64, 2), UnsignedKind) = TypeOf(UnsignedKind, W64, 2)
      BY ResignedIs
    <3> QED BY <1>8, <3>1, <3>2, <3>3, Zenon
  <2>3. uint64.w = W64 /\ uint64.n = 2 /\ uint64.s = FALSE
    BY FieldsAre, Zenon
  <2>4. t.w \in Nat \ {0} /\ t.n \in {2, 4, 8, 16}
    BY <1>1, <2>1
  <2>5. uint64 \in Types
    BY Zenon DEF Types
  <2> QED BY <1>0, <2>1, <2>2, <2>3, <2>4, <2>5, Zenon
<1>9. CASE t = uint64
  <2>1. t.w = W64 /\ t.n = 2 /\ t.s \in BOOLEAN
    BY <1>9, FieldsAre, Zenon
  <2>2. unsigned(t) = uint64
    <3>1. uint64 = TypeOf(UnsignedKind, W64, 2) /\ uint64 = TypeOf(UnsignedKind, W64, 2)
      BY Zenon DEF TypeOf, SignedKind, UnsignedKind, uint64
    <3>2. unsigned(t) = Resigned(t, UnsignedKind)
      BY Zenon DEF unsigned, Resigned, UnsignedKind
    <3>3. Resigned(TypeOf(UnsignedKind, W64, 2), UnsignedKind) = TypeOf(UnsignedKind, W64, 2)
      BY ResignedIs
    <3> QED BY <1>9, <3>1, <3>2, <3>3, Zenon
  <2>3. uint64.w = W64 /\ uint64.n = 2 /\ uint64.s = FALSE
    BY FieldsAre, Zenon
  <2>4. t.w \in Nat \ {0} /\ t.n \in {2, 4, 8, 16}
    BY <1>1, <2>1
  <2>5. uint64 \in Types
    BY Zenon DEF Types
  <2> QED BY <1>0, <2>1, <2>2, <2>3, <2>4, <2>5, Zenon
<1> QED BY <1>2, <1>3, <1>4, <1>5, <1>6, <1>7, <1>8, <1>9, Zenon DEF Types

\* The position found leads the register.
LEMMA PositionLeads ==
  ASSUME NEW t \in Types, bits \in {128, 256}, NEW n, n = IF bits = 128 THEN t.n ELSE 2 * t.n,
         NEW a \in Register(t.w, n), NEW c
  PROVE  Leads(t, a, First(n), reduction(t, "min_position", a, c).position)
<1>1. t.w \in Nat \ {0} /\ t.s \in BOOLEAN /\ t.n \in {2, 4, 8, 16}
  BY EachTypeIs, ZenonT(30)
<1>2. PICK N \in {2, 4, 8, 16} : N = t.n
  BY <1>1
<1>3. PICK r : r = reduction(t, "min_position", a, c) /\ r = PositionBy(t, a)
  <2>1. reduction(t, "min_position", a, c) = PositionBy(t, a)
    BY PositionTable
  <2> QED BY <2>1
<1>4. CASE bits = 128
  <2>1. n = N /\ a \in Register(t.w, N)
    BY <1>2, <1>4
  <2>2. CASE t = uint16
    <3>1. t.s = FALSE
      BY <2>2, EachTypeIs, Zenon
    <3>2. N \in Nat \ {0}
      OBVIOUS
    <3>3. Located(t, a, N, minpos_epu16(a))
      BY <1>1, <2>1, <3>1, <3>2, MinposIs, ZenonT(60)
    <3>4. r = minpos_epu16(a)
      BY <1>3, <1>4, <2>2, Zenon DEF PositionBy
    <3> QED BY <1>3, <2>1, <3>3, <3>4 DEF Located
  <2>3. CASE t # uint16
    <3>1. Located(t, a, N, min_position_128(t, a))
      BY <1>1, <1>2, <2>1, MinPosition128Is
    <3>2. r = min_position_128(t, a)
      BY <1>3, <1>4, <2>3, Zenon DEF PositionBy
    <3> QED BY <1>3, <2>1, <3>1, <3>2 DEF Located
  <2> QED BY <2>2, <2>3
<1>5. CASE bits = 256
  <2>1. n = 2 * N /\ a \in Register(t.w, 2 * N) /\ bits # 128
    BY <1>2, <1>5
  <2>2. Leads(t, a, First(2 * N), min_position_256(t, a).position)
    BY <1>1, <1>2, <2>1, MinPosition256Is
  <2>3. r = min_position_256(t, a)
    BY <1>3, <2>1, Zenon DEF PositionBy
  <2> QED BY <1>3, <2>1, <2>2, <2>3
<1> QED BY <1>4, <1>5

\* The lanes of a register and their numbers.
LEMMA NumbersAre ==
  ASSUME NEW t, NEW w \in Nat \ {0}, w = t.w, NEW n \in Nat, NEW a \in Register(w, n)
  PROVE  /\ DOMAIN a = First(n) /\ \A k \in First(n) : a[k] \in Cells(w)
         /\ \A k \in First(n) : Number(t, a, k) \in Int
<1>0. w \in Nat
  OBVIOUS
<1>1. DOMAIN a = First(n) /\ \A k \in First(n) : a[k] \in Cells(w)
  BY <1>0, LaneOfRegister
<1>2. PICK s : s = t.s
  OBVIOUS
<1>3. \A x \in Cells(w) : Value(s, w, x) \in Int
  BY ValueIs
<1> QED BY <1>1, <1>2, <1>3, Zenon DEF Number

\* The first of the least lanes is what the compiler finds.
LEMMA MinPositionAgrees ==
  ASSUME type \in Types, bits \in {128, 256}, NEW a \in Register(type.w, Count)
  PROVE  min_position(a) = min_position_constexpr(type, a)
<1>1. PICK n \in Nat : n = Count /\ n = IF bits = 128 THEN type.n ELSE 2 * type.n
  BY CountIs
<1>2. DOMAIN a = First(n) /\ \A k \in First(n) : Number(type, a, k) \in Int
  <2>1. PICK w \in Nat \ {0} : w = type.w
    BY TypeIs, Zenon
  <2>2. a \in Register(w, n)
    BY <1>1, <2>1
  <2> QED BY <2>1, <2>2, NumbersAre
<1>3. PICK k : k = min_position(a) /\ Leads(type, a, First(n), k)
  <2>1. Leads(type, a, First(n), reduction(type, "min_position", a, 0).position)
    BY <1>1, PositionLeads
  <2> QED BY <2>1 DEF min_position
<1>4. min_position_constexpr(type, a) = k
  BY <1>2, <1>3, LeadFound
<1> QED BY <1>3, <1>4

\* Where the numbers are mirrored, the first of the greatest leads.
LEMMA GreatestFound ==
  ASSUME NEW t, NEW u, NEW n \in Nat, NEW a, DOMAIN a = First(n), NEW b,
         \A j \in First(n) : Number(t, a, j) \in Int,
         NEW H \in Int, \A j \in First(n) : Number(u, b, j) = H - Number(t, a, j),
         NEW k, Leads(u, b, First(n), k)
  PROVE  max_position_constexpr(t, a) = k
<1> DEFINE P(i) == /\ \A j \in First(n) : ~(Value(t.s, t.w, a[j]) > Value(t.s, t.w, a[i]))
                   /\ \A j \in First(i) : Value(t.s, t.w, a[i]) > Value(t.s, t.w, a[j])
<1>1. max_position_constexpr(t, a) = CHOOSE i \in First(n) : P(i)
  BY DEF max_position_constexpr, FirstOf
<1>0. \A j \in First(n) : Number(u, b, j) \in Int
  OBVIOUS
<1>2. ASSUME NEW i \in First(n)
      PROVE  P(i) <=> Leads(u, b, First(n), i)
  <2>1. PICK x \in Int : x = Number(t, a, i)
    OBVIOUS
  <2>2. i \in Int /\ \A j : j \in First(i) <=> j \in First(n) /\ j < i
    BY DEF First
  <2>3. P(i) <=> /\ \A j \in First(n) : ~(Number(t, a, j) > Number(t, a, i))
                 /\ \A j \in First(i) : Number(t, a, i) > Number(t, a, j)
    BY Zenon DEF Number
  <2>4. \A j \in First(n) :
          /\ ~(Number(t, a, j) > Number(t, a, i)) <=> Number(u, b, i) <= Number(u, b, j)
          /\ Number(t, a, i) > Number(t, a, j) <=> Number(u, b, i) < Number(u, b, j)
    <3> SUFFICES ASSUME NEW j \in First(n)
                 PROVE  /\ ~(Number(t, a, j) > Number(t, a, i)) <=> Number(u, b, i) <= Number(u, b, j)
                        /\ Number(t, a, i) > Number(t, a, j) <=> Number(u, b, i) < Number(u, b, j)
      BY Zenon
    <3>1. PICK y \in Int : y = Number(t, a, j)
      OBVIOUS
    <3>2. Number(u, b, i) = H - x /\ Number(u, b, j) = H - y
      BY <2>1, <3>1
    <3> QED BY <2>1, <3>1, <3>2
  <2> HIDE DEF P
  <2> QED BY <2>2, <2>3, <2>4, Zenon DEF Leads
<1> HIDE DEF P
<1>3. k \in First(n)
  BY DEF Leads
<1>4. PICK i : i = (CHOOSE j \in First(n) : P(j)) /\ i \in First(n) /\ P(i)
  BY <1>2, <1>3
<1>5. Leads(u, b, First(n), i)
  BY <1>2, <1>4
<1>6. i = k
  BY <1>0, <1>5, OneLeads
<1> QED BY <1>1, <1>4, <1>6

\* The register the greatest is sought in: its unsigned numbers mirror those of
\* the operand.
LEMMA MirrorIs ==
  ASSUME type \in Types, NEW w \in Nat \ {0}, w = type.w, NEW n \in Nat, NEW a \in Register(w, n)
  PROVE  /\ TransformForMaxPosition(a) \in Register(w, n)
         /\ \E H \in Int : \A k \in First(n) :
              TransformForMaxPosition(a)[k] = H - Number(type, a, k)
<1>w. w \in Nat
  OBVIOUS
<1>0. PICK S \in Nat, P \in Nat : S = SignBit(w) /\ P = 2 ^ w /\ S > 0 /\ P = 2 * S /\ Ones(w) = P - 1
  <2>1. PICK S \in Nat : S = SignBit(w) /\ S > 0 /\ 2 ^ w = 2 * S
    BY Base
  <2>2. 2 * S \in Nat /\ Ones(w) = 2 * S - 1
    BY <2>1 DEF Ones
  <2> QED BY <2>1, <2>2
<1>1. DOMAIN a = First(n) /\ \A k \in First(n) : a[k] \in Cells(w)
  BY <1>w, LaneOfRegister
<1>2. \A x : x \in Cells(w) <=> x \in Nat /\ x < P
  BY <1>0 DEF Cells
<1> DEFINE inverse(v) == [k \in DOMAIN v |-> Ones(w) - v[k]]
<1>3. ASSUME NEW v \in Register(w, n)
      PROVE  /\ inverse(v) \in Register(w, n)
             /\ \A k \in First(n) : inverse(v)[k] = Ones(w) - v[k]
  <2>1. DOMAIN v = First(n) /\ \A k \in First(n) : v[k] \in Cells(w)
    BY <1>w, LaneOfRegister
  <2>2. \A x \in Cells(w) : Ones(w) - x \in Cells(w)
    BY <1>0, <1>2
  <2>3. inverse(v) = [k \in First(n) |-> Ones(w) - v[k]]
    BY <2>1
  <2> HIDE DEF inverse
  <2> QED BY <2>1, <2>2, <2>3 DEF Register
<1>4. CASE type.s
  <2>1. PICK f \in Register(w, n) :
          /\ f = xor(w, a, set1(a, SignBit(w)))
          /\ \A k \in First(n) : f[k] = Number(type, a, k) + S
    <3>1. S \in Cells(w)
      BY <1>0, <1>2
    <3>2. PICK b \in Register(w, n) : b = set1(a, SignBit(w)) /\ \A k \in First(n) : b[k] = SignBit(w)
      BY <1>0, <1>w, <3>1, SetIs
    <3>3. /\ xor(w, a, b) \in Register(w, n)
          /\ \A k \in First(n) : xor(w, a, b)[k] = Num(Xor(Bin(w, a[k]), Bin(w, b[k])))
      BY <1>w, XorIs
    <3>4. ASSUME NEW x \in Cells(w)
          PROVE  Num(Xor(Bin(w, x), Bin(w, SignBit(w)))) = Value(type.s, w, x) + S
      <4>1. Num(Xor(Bin(w, x), Bin(w, SignBit(w))))
              = IF x >= SignBit(w) THEN x - SignBit(w) ELSE x + SignBit(w)
        BY FlippedSign
      <4>2. Value(type.s, w, x) = IF x >= S THEN x - P ELSE x
        BY <1>0, <1>4 DEF Value
      <4> QED BY <1>0, <1>2, <4>1, <4>2
    <3>5. \A k : Number(type, a, k) = Value(type.s, w, a[k])
      BY Zenon DEF Number
    <3>6. \A k \in First(n) : xor(w, a, b)[k] = Number(type, a, k) + S
      BY <1>1, <3>2, <3>3, <3>4, <3>5, Zenon
    <3> QED BY <3>2, <3>3, <3>6
  <2>2. TransformForMaxPosition(a) = inverse(f)
    <3>1. f = IF type.s THEN xor(type.w, a, set1(a, SignBit(type.w))) ELSE a
      BY <1>4, <2>1, Zenon
    <3>2. TransformForMaxPosition(a) = [k \in DOMAIN f |-> Ones(type.w) - f[k]]
      BY <3>1, Zenon DEF TransformForMaxPosition
    <3> QED BY <3>2, Zenon
  <2> HIDE DEF inverse
  <2>3. ASSUME NEW k \in First(n)
        PROVE  inverse(f)[k] = (Ones(w) - S) - Number(type, a, k)
    <3>1. inverse(f)[k] = Ones(w) - (Number(type, a, k) + S)
      <4>1. \A j \in First(n) : inverse(f)[j] = Ones(w) - f[j]
        BY <1>3
      <4> QED BY <2>1, <4>1
    <3>2. PICK x \in Int : x = Number(type, a, k)
      BY NumbersAre
    <3> QED BY <1>0, <3>1, <3>2
  <2>4. Ones(w) - S \in Int
    BY <1>0
  <2> QED BY <1>3, <2>2, <2>3, <2>4
<1>5. CASE ~type.s
  <2>1. TransformForMaxPosition(a) = inverse(a)
    BY <1>5, Zenon DEF TransformForMaxPosition
  <2>2. \A k : Number(type, a, k) = a[k]
    <3>1. \A x : Value(type.s, type.w, x) = x
      BY <1>5 DEF Value
    <3> QED BY <3>1, Zenon DEF Number
  <2> HIDE DEF inverse
  <2>3. Ones(w) \in Int
    BY <1>0
  <2>4. /\ inverse(a) \in Register(w, n)
        /\ \A k \in First(n) : inverse(a)[k] = Ones(w) - Number(type, a, k)
    BY <1>3, <2>2, Zenon
  <2> QED BY <2>1, <2>3, <2>4
<1> QED BY <1>4, <1>5

\* The first of the greatest lanes is what the compiler finds.
LEMMA MaxPositionAgrees ==
  ASSUME type \in Types, bits \in {128, 256}, NEW a \in Register(type.w, Count)
  PROVE  max_position(a) = max_position_constexpr(type, a)
<1>1. PICK n \in Nat : n = Count /\ n = IF bits = 128 THEN type.n ELSE 2 * type.n
  BY CountIs
<1>2. PICK w \in Nat \ {0} : w = type.w
  BY TypeIs, Zenon
<1>3. a \in Register(w, n)
  BY <1>1, <1>2
<1>4. DOMAIN a = First(n) /\ \A k \in First(n) : Number(type, a, k) \in Int
  BY <1>2, <1>3, NumbersAre
<1>5. PICK b \in Register(w, n), H \in Int :
        b = TransformForMaxPosition(a) /\ \A k \in First(n) : b[k] = H - Number(type, a, k)
  BY <1>2, <1>3, MirrorIs
<1>6. PICK u \in Types : u = unsigned(type) /\ ~u.s /\ u.w = w /\ u.n = type.n
  <2>1. /\ unsigned(type) \in Types /\ ~unsigned(type).s
        /\ unsigned(type).w = w /\ unsigned(type).n = type.n
    BY <1>2, EachTypeIs
  <2> QED BY <2>1, Zenon
<1>7. \A k : Number(u, b, k) = b[k]
  <2>1. \A x : Value(u.s, u.w, x) = x
    BY <1>6 DEF Value
  <2> QED BY <2>1 DEF Number
<1>8. PICK k : k = max_position(a) /\ Leads(u, b, First(n), k)
  <2>1. n = IF bits = 128 THEN u.n ELSE 2 * u.n
    BY <1>1, <1>6
  <2>2. b \in Register(u.w, n)
    BY <1>6
  <2>3. Leads(u, b, First(n), reduction(u, "min_position", b, 0).position)
    BY <2>1, <2>2, PositionLeads
  <2>4. max_position(a) = reduction(u, "min_position", b, 0).position
    BY <1>5, <1>6, Zenon DEF max_position
  <2> QED BY <2>3, <2>4
<1>9. \A j \in First(n) : Number(u, b, j) = H - Number(type, a, j)
  BY <1>5, <1>7, Zenon
<1>10. max_position_constexpr(type, a) = k
  BY <1>4, <1>8, <1>9, GreatestFound
<1> QED BY <1>8, <1>10

\* What is said of the last call: its result, and that it was one on values.
Agrees(op, c, value) ==
  op \in EvaluatedValues /\ ~(op = "shift_right_arithmetic" /\ ~type.s) => value = value_constexpr(op, c)
EvaluatedOnValues == call.op \in EvaluatedValues => view = "values"

-------------------------------------------------------------------------------
(***************************************************************************)
(* The invariant.                                                          *)
(***************************************************************************)

\* What the compiler evaluates depends on the operands only.
LEMMA SameValues ==
  ASSUME UNCHANGED operands
  PROVE  \A op, c : value_constexpr(op, c)' = value_constexpr(op, c)
<1>1. type' = type /\ bits' = bits /\ lhs' = lhs /\ rhs' = rhs
  BY DEF operands
<1>2. \A op : predicate_constexpr(op)' = predicate_constexpr(op)
  BY <1>1, Zenon DEF predicate_constexpr
<1>3. elementBytes' = elementBytes
  BY <1>1, Zenon DEF elementBytes
<1>4. \A p : predicateBytes(p)' = predicateBytes(p)
  BY <1>3, Zenon DEF predicateBytes
<1> QED BY <1>1, <1>2, <1>3, <1>4, Zenon DEF value_constexpr

\* The comparisons, one by one.
LEMMA PredicatesAre ==
  /\ predicate_constexpr("compare_equal") = compare_equal_constexpr(type, lhs, rhs)
  /\ predicate_constexpr("compare_greater") = compare_greater_constexpr(type, lhs, rhs)
  /\ predicate_constexpr("compare_greater_equal") = compare_greater_equal_constexpr(type, lhs, rhs)
  /\ predicate_constexpr("compare_less") = compare_less_constexpr(type, lhs, rhs)
  /\ predicate_constexpr("compare_less_equal") = compare_less_equal_constexpr(type, lhs, rhs)
<1>1. predicate_constexpr("compare_equal") = compare_equal_constexpr(type, lhs, rhs)
  BY DEF predicate_constexpr
<1>2. predicate_constexpr("compare_greater") = compare_greater_constexpr(type, lhs, rhs)
  BY DEF predicate_constexpr
<1>3. predicate_constexpr("compare_greater_equal") = compare_greater_equal_constexpr(type, lhs, rhs)
  BY DEF predicate_constexpr
<1>4. predicate_constexpr("compare_less") = compare_less_constexpr(type, lhs, rhs)
  BY DEF predicate_constexpr
<1>5. predicate_constexpr("compare_less_equal") = compare_less_equal_constexpr(type, lhs, rhs)
  BY DEF predicate_constexpr
<1> QED BY <1>1, <1>2, <1>3, <1>4, <1>5

\* The other calls, one by one.
LEMMA EvaluationsAre ==
  ASSUME NEW c
  PROVE  /\ value_constexpr("select", c) = select_constexpr(type, predicate_constexpr(c), lhs, rhs)
         /\ value_constexpr("cmp_mask", c) = movemask_constexpr(predicateBytes(predicate_constexpr(c)))
         /\ value_constexpr("cmp_slim", c)
              = movemask_slim_constexpr(elementBytes, predicateBytes(predicate_constexpr(c)))
         /\ value_constexpr("min_position", c) = min_position_constexpr(type, lhs)
         /\ value_constexpr("max_position", c) = max_position_constexpr(type, lhs)
         /\ value_constexpr("shift_left", c) = shift_left_constexpr(type, lhs, c)
         /\ value_constexpr("shift_right", c) = shift_right_constexpr(type, lhs, c)
         /\ value_constexpr("shift_right_arithmetic", c) = shift_right_arithmetic_constexpr(type, lhs, c)
<1>1. value_constexpr("select", c) = select_constexpr(type, predicate_constexpr(c), lhs, rhs)
  BY DEF value_constexpr
<1>2. value_constexpr("cmp_mask", c) = movemask_constexpr(predicateBytes(predicate_constexpr(c)))
  BY DEF value_constexpr
<1>3. value_constexpr("cmp_slim", c)
        = movemask_slim_constexpr(elementBytes, predicateBytes(predicate_constexpr(c)))
  BY DEF value_constexpr
<1>4. value_constexpr("min_position", c) = min_position_constexpr(type, lhs)
  BY DEF value_constexpr
<1>5. value_constexpr("max_position", c) = max_position_constexpr(type, lhs)
  BY DEF value_constexpr
<1>6. value_constexpr("shift_left", c) = shift_left_constexpr(type, lhs, c)
  BY DEF value_constexpr
<1>7. value_constexpr("shift_right", c) = shift_right_constexpr(type, lhs, c)
  BY DEF value_constexpr
<1>8. value_constexpr("shift_right_arithmetic", c) = shift_right_arithmetic_constexpr(type, lhs, c)
  BY DEF value_constexpr
<1> QED BY <1>1, <1>2, <1>3, <1>4, <1>5, <1>6, <1>7, <1>8

\* A comparison's value is the predicate.
LEMMA ComparisonIs ==
  ASSUME NEW op \in Comparisons, NEW c
  PROVE  value_constexpr(op, c) = predicate_constexpr(op)
<1>1. CASE op = "compare_equal"
  BY <1>1 DEF value_constexpr
<1>2. CASE op = "compare_greater"
  BY <1>2 DEF value_constexpr
<1>3. CASE op = "compare_greater_equal"
  BY <1>3 DEF value_constexpr
<1>4. CASE op = "compare_less"
  BY <1>4 DEF value_constexpr
<1>5. CASE op = "compare_less_equal"
  BY <1>5 DEF value_constexpr
<1> QED BY <1>1, <1>2, <1>3, <1>4, <1>5, Zenon DEF Comparisons

\* The predicate of a comparison is a register of masks.
LEMMA PredicateMasks ==
  ASSUME OperandsFit, view = "values", NEW op \in Comparisons
  PROVE  predicate_constexpr(op) \in Masks(type.w, Count)
<1>1. /\ type \in Types /\ bits \in {128, 256}
      /\ lhs \in Register(type.w, Count) /\ rhs \in Register(type.w, Count)
  BY Zenon DEF OperandsFit
<1>2. Count \in Nat
  BY <1>1, CountIs
<1>3. /\ compare_equal_constexpr(type, lhs, rhs) \in Masks(type.w, Count)
      /\ compare_greater_constexpr(type, lhs, rhs) \in Masks(type.w, Count)
      /\ compare_greater_equal_constexpr(type, lhs, rhs) \in Masks(type.w, Count)
      /\ compare_less_constexpr(type, lhs, rhs) \in Masks(type.w, Count)
      /\ compare_less_equal_constexpr(type, lhs, rhs) \in Masks(type.w, Count)
  BY <1>1, <1>2, PredicatesAgree
<1> QED BY <1>3, PredicatesAre, Zenon DEF Comparisons

\* A call leaves what the compiler would have made of it.
LEMMA StepsAgree ==
  ASSUME OperandsFit, EvaluatedOnValues, Agrees(call.op, call.c, result), Next
  PROVE  Agrees(call'.op, call'.c, result') /\ EvaluatedOnValues'
<1>1. ASSUME NEW op, NEW c, NEW value, Returns(op, c, value)
      PROVE  call'.op = op /\ call'.c = c /\ result' = value /\ view' = view
  BY <1>1 DEF Returns, operands
<1>2. type \in Types /\ bits \in {128, 256}
  BY DEF OperandsFit
<1>3. ASSUME view = "values"
      PROVE  lhs \in Register(type.w, Count) /\ rhs \in Register(type.w, Count) /\ Count \in Nat
  BY <1>2, <1>3, CountIs DEF OperandsFit
<1>4. ASSUME NEW op, NEW c, view = "values", Returns(op, c, value_constexpr(op, c))
      PROVE  Agrees(call'.op, call'.c, result') /\ EvaluatedOnValues'
  <2>1. call'.op = op /\ call'.c = c /\ result' = value_constexpr(op, c) /\ view' = view
    BY <1>1, <1>4
  <2>2. Agrees(op, c, value_constexpr(op, c))
    BY Zenon DEF Agrees
  <2>3. Agrees(call'.op, call'.c, result')
    BY <2>1, <2>2, Zenon
  <2>4. view' = "values"
    BY <1>4, <2>1
  <2> QED BY <2>3, <2>4, Zenon DEF EvaluatedOnValues
<1>5. ASSUME NEW op, op \notin EvaluatedValues, NEW c, NEW value, Returns(op, c, value)
      PROVE  Agrees(call'.op, call'.c, result') /\ EvaluatedOnValues'
  BY <1>1, <1>5, Zenon DEF Agrees, EvaluatedOnValues
<1>6. ASSUME OnValues
      PROVE  /\ compare_equal(lhs, rhs) = value_constexpr("compare_equal", 0)
             /\ compare_greater(lhs, rhs) = value_constexpr("compare_greater", 0)
             /\ compare_greater_equal(lhs, rhs) = value_constexpr("compare_greater_equal", 0)
             /\ compare_less(lhs, rhs) = value_constexpr("compare_less", 0)
             /\ compare_less_equal(lhs, rhs) = value_constexpr("compare_less_equal", 0)
  <2>1. /\ lhs \in Register(type.w, Count) /\ rhs \in Register(type.w, Count) /\ Count \in Nat
    BY <1>3, <1>6, Zenon DEF OnValues
  <2>2. /\ compare_equal(lhs, rhs) = compare_equal_constexpr(type, lhs, rhs)
        /\ compare_greater(lhs, rhs) = compare_greater_constexpr(type, lhs, rhs)
        /\ compare_greater_equal(lhs, rhs) = compare_greater_equal_constexpr(type, lhs, rhs)
        /\ compare_less(lhs, rhs) = compare_less_constexpr(type, lhs, rhs)
        /\ compare_less_equal(lhs, rhs) = compare_less_equal_constexpr(type, lhs, rhs)
    BY <1>2, <2>1, PredicatesAgree
  <2>3. \A op \in Comparisons : value_constexpr(op, 0) = predicate_constexpr(op)
    BY ComparisonIs, Zenon
  <2> QED BY <2>2, <2>3, PredicatesAre, Zenon DEF Comparisons
<1>7. CASE \/ CompareEqual \/ CompareGreater \/ CompareGreaterEqual
           \/ CompareLess \/ CompareLessEqual
  BY <1>4, <1>6, <1>7, Zenon DEF OnValues, CompareEqual, CompareGreater, CompareGreaterEqual,
     CompareLess, CompareLessEqual
<1>8. CASE PassOn
  <2>1. PICK op \in Comparisons : op = call.op
    BY <1>8, Zenon DEF PassOn
  <2>2. /\ op \in EvaluatedValues /\ op # "shift_right_arithmetic"
    BY DEF EvaluatedValues, Comparisons
  <2>3. view = "values"
    BY <2>1, <2>2, Zenon DEF EvaluatedOnValues
  <2>4. result = predicate_constexpr(op)
    BY <2>1, <2>2, ComparisonIs, Zenon DEF Agrees
  <2>5. result \in Masks(type.w, Count)
    BY <2>3, <2>4, PredicateMasks
  <2>6. lhs \in Register(type.w, Count) /\ rhs \in Register(type.w, Count) /\ Count \in Nat
    BY <1>3, <2>3, Zenon
  <2>7. result \in Register(type.w, Count)
    BY <1>2, <2>5, TypeIs, MaskIs
  <2>8. select(result, lhs, rhs) = value_constexpr("select", call.op)
    <3>1. select(result, lhs, rhs) = select_constexpr(type, result, lhs, rhs)
      BY <1>2, <2>5, <2>6, SelectAgrees
    <3> QED BY <2>1, <2>4, <3>1, EvaluationsAre, Zenon
  <2>9. /\ movemask(8, predicateBytes(result)) = value_constexpr("cmp_mask", call.op)
        /\ movemask_slim(predicateBytes(result)) = value_constexpr("cmp_slim", call.op)
    <3>1. /\ movemask(8, predicateBytes(result)) = movemask_constexpr(predicateBytes(result))
          /\ movemask_slim(predicateBytes(result))
               = movemask_slim_constexpr(elementBytes, predicateBytes(result))
      BY <1>2, <2>7, MasksAgree
    <3> QED BY <2>1, <2>4, <3>1, EvaluationsAre, Zenon
  <2> QED BY <1>4, <1>8, <2>3, <2>8, <2>9, Zenon DEF PassOn
<1>9. CASE MinPosition
  <2>1. view = "values" /\ Returns("min_position", 0, min_position(lhs))
    BY <1>9, Zenon DEF MinPosition, OnValues
  <2>2. min_position(lhs) = value_constexpr("min_position", 0)
    BY <1>2, <1>3, <2>1, MinPositionAgrees, EvaluationsAre
  <2> QED BY <1>4, <2>1, <2>2, Zenon
<1>10. CASE MaxPosition
  <2>1. view = "values" /\ Returns("max_position", 0, max_position(lhs))
    BY <1>10, Zenon DEF MaxPosition, OnValues
  <2>2. max_position(lhs) = value_constexpr("max_position", 0)
    BY <1>2, <1>3, <2>1, MaxPositionAgrees, EvaluationsAre
  <2> QED BY <1>4, <2>1, <2>2, Zenon
<1>11. CASE Shift
  <2>1. view = "values"
    BY <1>11, Zenon DEF Shift, OnValues
  <2>2. PICK op \in {"shift_left", "shift_right", "shift_right_arithmetic"}, c \in 0 .. type.w + 1 :
          Returns(op, c, lanewise(type, op, lhs, lhs, c))
    BY <1>11, Zenon DEF Shift
  <2>3. c \in Nat
    BY <1>2, TypeIs
  <2>4. /\ lanewise(type, "shift_left", lhs, lhs, c) = shift_left_constexpr(type, lhs, c)
        /\ lanewise(type, "shift_right", lhs, lhs, c) = shift_right_constexpr(type, lhs, c)
        /\ type.s => lanewise(type, "shift_right_arithmetic", lhs, lhs, c)
                       = shift_right_arithmetic_constexpr(type, lhs, c)
    BY <1>2, <1>3, <2>1, <2>3, ShiftsAgree
  <2>5. \/ op = "shift_right_arithmetic" /\ ~type.s
        \/ lanewise(type, op, lhs, lhs, c) = value_constexpr(op, c)
    BY <2>4, EvaluationsAre, Zenon
  <2>6. CASE lanewise(type, op, lhs, lhs, c) = value_constexpr(op, c)
    BY <1>4, <2>1, <2>2, <2>6, Zenon
  <2>7. CASE op = "shift_right_arithmetic" /\ ~type.s
    BY <1>1, <2>1, <2>2, <2>7, Zenon DEF Agrees, EvaluatedOnValues
  <2> QED BY <2>5, <2>6, <2>7
<1>12. ASSUME NEW op \in LaneOperationNames \cup PairOperations \cup
                {"multiply_add_adjacent", "magnitude_checked", "unpack_lo", "unpack_hi", "shuffle",
                 "extract_slow", "insert_slow", "shuffle_32_slow", "blend_slow", "shuffle_lo_slow",
                 "shuffle_hi_slow", "shift_bytes_left", "shift_bytes_right", "shift_bytes_left_slow",
                 "shift_bytes_right_slow", "lower_half"},
              NEW c, NEW value, Returns(op, c, value)
       PROVE  Agrees(call'.op, call'.c, result') /\ EvaluatedOnValues'
  <2>1. op \notin EvaluatedValues
    BY DEF EvaluatedValues, Comparisons, LaneOperationNames, PairOperations
  <2> QED BY <1>5, <1>12, <2>1, Zenon
<1>13. CASE Arithmetic \/ Division \/ Unary
  BY <1>12, <1>13, Zenon DEF Arithmetic, Division, Unary, LaneOperationNames
<1>14. CASE Extremum \/ Saturating
  <2>1. PICK op, value : Returns(op, 0, value) /\ op \in LaneOperationNames
    BY <1>14, Zenon DEF Extremum, Saturating, LaneOperationNames
  <2> QED BY <1>12, <2>1, Zenon
<1>15. CASE AdjacentProducts \/ Horizontally
  <2>1. PICK op, value : Returns(op, 0, value) /\ op \in PairOperations \cup {"multiply_add_adjacent"}
    BY <1>15, Zenon DEF AdjacentProducts, Horizontally, PairOperations
  <2> QED BY <1>12, <2>1, Zenon
<1>16. CASE MagnitudeChecked \/ Unpack \/ Shuffle \/ LaneAccess
  BY <1>12, <1>16, Zenon DEF MagnitudeChecked, Unpack, Shuffle, LaneAccess
<1>17. CASE Controlled \/ ByteShift \/ LowerHalf
  BY <1>12, <1>17, Zenon DEF Controlled, ByteShift, LowerHalf
<1> QED BY <1>7, <1>8, <1>9, <1>10, <1>11, <1>13, <1>14, <1>15, <1>16, <1>17, Zenon DEF Next

\* Theorem: in every reachable state the result of the last call on values is what
\* the compiler would have made of it.
THEOREM RunTimeAlwaysAgreesOnValues == Spec => []RunTimeAgreesOnValues
<1>1. Init => EvaluatedOnValues /\ Agrees(call.op, call.c, result)
  <2> SUFFICES ASSUME Init
               PROVE  EvaluatedOnValues /\ Agrees(call.op, call.c, result)
    OBVIOUS
  <2>1. call.op = "none"
    BY DEF Init
  <2>2. call.op \notin EvaluatedValues
    BY <2>1 DEF EvaluatedValues, Comparisons
  <2> QED BY <2>2, Zenon DEF EvaluatedOnValues, Agrees
<1>2. OperandsFit /\ EvaluatedOnValues /\ Agrees(call.op, call.c, result) /\ [Next]_vars
        => EvaluatedOnValues' /\ Agrees(call.op, call.c, result)'
  <2> SUFFICES ASSUME OperandsFit, EvaluatedOnValues, Agrees(call.op, call.c, result), [Next]_vars
               PROVE  EvaluatedOnValues' /\ Agrees(call.op, call.c, result)'
    OBVIOUS
  <2>1. UNCHANGED operands
    BY OperandsStay
  <2>2. Agrees(call'.op, call'.c, result') /\ EvaluatedOnValues'
    <3>1. CASE Next
      BY <3>1, StepsAgree
    <3>2. CASE UNCHANGED vars
      <4>1. call' = call /\ result' = result /\ view' = view
        BY <3>2 DEF vars
      <4> QED BY <4>1, Zenon DEF EvaluatedOnValues
    <3> QED BY <3>1, <3>2
  <2>3. type' = type /\ \A op, c : value_constexpr(op, c)' = value_constexpr(op, c)
    BY <2>1, SameValues, Zenon DEF operands
  <2> QED BY <2>2, <2>3, Zenon DEF Agrees
<1>3. Agrees(call.op, call.c, result) => RunTimeAgreesOnValues
  BY Zenon DEF Agrees, RunTimeAgreesOnValues
<1> QED BY <1>1, <1>2, <1>3, OperandsAlwaysFit, PTL DEF Spec
===============================================================================
