------------------------------- MODULE LaneProofs -------------------------------
(***************************************************************************)
(* The operations of Api on numbers are exact: sums, differences,          *)
(* products, quotients, extrema, means, magnitudes, saturating operations, *)
(* operations on adjacent pairs and sums of adjacent products return in    *)
(* every lane what mathematics says the type can hold of it - for every    *)
(* integer type, both register widths, lanes of any width, and any         *)
(* operands the registers can hold, but for the two cases that             *)
(* ArithmeticIsExact leaves out.                                           *)
(*                                                                         *)
(* A call reads its operands and leaves them, so the invariant has two     *)
(* parts: the operands are registers of the type of the Api, and what was  *)
(* returned is exact.  The second follows of each call from the first:     *)
(* the tables of the specialisations say which function it reaches, and a  *)
(* lemma on that function says what is in its lanes.                       *)
(***************************************************************************)
EXTENDS LaneOperations, FiniteSetTheorems, TLAPS

Numbers == INSTANCE BmiProofs
       WITH W <- 2, IndexBits <- 2,
            native <- TRUE, source <- {}, rest <- {}, taken <- {}, steps <- 0

-------------------------------------------------------------------------------
(***************************************************************************)
(* Numbers.  The powers, remainders and sets of positions of the proofs    *)
(* about Bmi are cited through an instance of them; what is used does not  *)
(* depend on its word.                                                     *)
(***************************************************************************)

\* The instance is one Bmi allows.
LEMMA WordOfTwo == Numbers!BmiAssumption
BY DEF Numbers!BmiAssumption

\* Powers of two are positive; the next one is the double.
LEMMA Power ==
  ASSUME NEW k \in Nat
  PROVE  2 ^ k \in Nat /\ 2 ^ k > 0 /\ 2 ^ (k + 1) = 2 * 2 ^ k
BY WordOfTwo, Numbers!PowerType, Numbers!Double

\* The power of a sum.
LEMMA PowerSum ==
  ASSUME NEW a \in Nat, NEW b \in Nat
  PROVE  2 ^ (a + b) = 2 ^ a * 2 ^ b
<1> DEFINE S == {n \in Nat : 2 ^ (a + n) = 2 ^ a * 2 ^ n}
<1>1. 0 \in S
  <2>1. 2 ^ 0 = 1 /\ a + 0 = a
    OBVIOUS
  <2> QED BY <2>1, Power
<1>2. ASSUME NEW n \in Nat, n \in S
      PROVE  n + 1 \in S
  <2>1. 2 ^ ((a + n) + 1) = 2 * 2 ^ (a + n) /\ 2 ^ (n + 1) = 2 * 2 ^ n
    BY Power, a + n \in Nat
  <2>2. 2 ^ a \in Nat /\ 2 ^ n \in Nat /\ a + (n + 1) = (a + n) + 1
    BY Power
  <2>3. 2 * (2 ^ a * 2 ^ n) = 2 ^ a * (2 * 2 ^ n)
    BY <2>2
  <2> QED BY <1>2, <2>1, <2>2, <2>3
<1>3. Nat \subseteq S
  <2> HIDE DEF S
  <2> QED BY <1>1, <1>2, WordOfTwo, Numbers!SetInduction
<1> QED BY <1>3

\* What a lane of w bits can hold: twice the sign bit, and squared in twice the width.
LEMMA Base ==
  ASSUME NEW w \in Nat \ {0}
  PROVE  /\ 2 ^ w \in Nat /\ SignBit(w) \in Nat /\ SignBit(w) > 0
         /\ 2 ^ w = 2 * SignBit(w)
         /\ 2 ^ (2 * w) = 2 ^ w * 2 ^ w
         /\ SignBit(2 * w) = SignBit(w) * 2 ^ w
<1>1. w - 1 \in Nat /\ (w - 1) + 1 = w /\ w + w = 2 * w /\ (w - 1) + w = 2 * w - 1
  OBVIOUS
<1>2. 2 ^ w = 2 * 2 ^ (w - 1) /\ 2 ^ (w - 1) \in Nat /\ 2 ^ (w - 1) > 0 /\ 2 ^ w \in Nat
  BY <1>1, Power
<1>3. 2 ^ (w + w) = 2 ^ w * 2 ^ w /\ 2 ^ ((w - 1) + w) = 2 ^ (w - 1) * 2 ^ w
  BY <1>1, PowerSum
<1> QED BY <1>1, <1>2, <1>3 DEF SignBit

\* Quotient and remainder by a positive number.
LEMMA Divided ==
  ASSUME NEW P \in Nat, P > 0, NEW x \in Int
  PROVE  /\ x % P \in 0 .. P - 1
         /\ x \div P \in Int
         /\ x = (x % P) + (x \div P) * P
OBVIOUS

\* A number written with a remainder.
LEMMA Written ==
  ASSUME NEW P \in Nat, P > 0, NEW r \in 0 .. P - 1, NEW q \in Int
  PROVE  (r + q * P) % P = r /\ (r + q * P) \div P = q
OBVIOUS

\* Multiples of the modulus do not count.
LEMMA Congruent ==
  ASSUME NEW P \in Nat, P > 0, NEW x \in Int, NEW q \in Int
  PROVE  (x + q * P) % P = x % P /\ (x + q * P) \div P = x \div P + q
<1>1. PICK r \in 0 .. P - 1, d \in Int : r = x % P /\ d = x \div P /\ x = r + d * P
  BY Divided
<1>2. x + q * P = r + (d + q) * P
  BY <1>1
<1>3. (r + (d + q) * P) % P = r /\ (r + (d + q) * P) \div P = d + q
  BY <1>1, d + q \in Int, Written
<1> QED BY <1>1, <1>2, <1>3

\* A remainder of a remainder by a multiple of the modulus.
LEMMA Remainders ==
  ASSUME NEW P \in Nat, P > 0, NEW Q \in Nat, Q > 0, NEW x \in Int
  PROVE  (x % (P * Q)) % P = x % P
<1>1. P * Q \in Nat /\ P * Q > 0
  OBVIOUS
<1>2. PICK r \in Int, d \in Int : r = x % (P * Q) /\ d = x \div (P * Q) /\ x = r + d * (P * Q)
  BY <1>1, Divided
<1>3. r + d * (P * Q) = r + (d * Q) * P /\ d * Q \in Int
  OBVIOUS
<1>4. (r + (d * Q) * P) % P = r % P
  BY <1>2, <1>3, Congruent
<1> QED BY <1>2, <1>3, <1>4

\* A multiple taken out of a remainder.
LEMMA Scaled ==
  ASSUME NEW P \in Nat, P > 0, NEW Q \in Nat, Q > 0, NEW x \in Int
  PROVE  /\ (x * P) % (Q * P) = (x % Q) * P
         /\ ((x * P) % (Q * P)) \div P = x % Q
         /\ (x % (Q * P)) \div P = (x \div P) % Q
<1>1. Q * P \in Nat /\ Q * P > 0
  OBVIOUS
<1>2. PICK r \in 0 .. Q - 1, d \in Int : r = x % Q /\ d = x \div Q /\ x = r + d * Q
  BY Divided
<1>3. x * P = r * P + d * (Q * P) /\ r * P \in 0 .. Q * P - 1
  BY <1>2
<1>4. (r * P + d * (Q * P)) % (Q * P) = r * P
  BY <1>1, <1>2, <1>3, Written
<1>5. (r * P) \div P = r
  <2>1. (0 + r * P) \div P = r
    BY <1>2, 0 \in 0 .. P - 1, r \in Int, Written
  <2> QED BY <2>1, <1>2
<1>6. (x % (Q * P)) \div P = (x \div P) % Q
  <2>1. PICK s \in 0 .. P - 1, e \in Int : s = x % P /\ e = x \div P /\ x = s + e * P
    BY Divided
  <2>2. PICK t \in 0 .. Q - 1, f \in Int : t = e % Q /\ f = e \div Q /\ e = t + f * Q
    BY Divided, <2>1
  <2>3. x = (s + t * P) + f * (Q * P)
    BY <2>1, <2>2
  <2>4. s + t * P \in 0 .. Q * P - 1
    <3>1. t * P <= (Q - 1) * P /\ (Q - 1) * P = Q * P - P /\ t * P >= 0
      BY <2>2
    <3> QED BY <3>1, <2>1
  <2>5. ((s + t * P) + f * (Q * P)) % (Q * P) = s + t * P
    BY <1>1, <2>2, <2>4, Written
  <2>6. (s + t * P) \div P = t
    BY <2>1, <2>2, t \in Int, Written
  <2> QED BY <2>1, <2>2, <2>3, <2>5, <2>6
<1> QED BY <1>2, <1>3, <1>4, <1>5, <1>6

\* The numbers of a lane, and the values of the signed and the unsigned type.
Cells(w) == 0 .. 2 ^ w - 1

-------------------------------------------------------------------------------
(***************************************************************************)
(* The number in a lane and the value it stands for.                       *)
(***************************************************************************)

\* What is stored in a lane is a number of the lane, and stands for itself.
LEMMA LaneType ==
  ASSUME NEW w \in Nat, NEW i \in Int
  PROVE  /\ Lane(w, i) \in Cells(w)
         /\ i \in Cells(w) => Lane(w, i) = i
<1>1. 2 ^ w \in Nat /\ 2 ^ w > 0
  BY Power
<1> QED BY <1>1, Divided DEF Lane, Cells

\* The value of a lane differs from its number by a multiple of 2^w.
LEMMA ValueIs ==
  ASSUME NEW w \in Nat \ {0}, NEW s, NEW x \in Cells(w)
  PROVE  /\ Value(s, w, x) \in Int
         /\ \E c \in Int : Value(s, w, x) = x + c * 2 ^ w
<1>1. 2 ^ w \in Nat /\ x \in Int
  BY Base DEF Cells
<1>2. x = x + 0 * 2 ^ w /\ x - 2 ^ w = x + (-1) * 2 ^ w /\ x - 2 ^ w \in Int
  BY <1>1
<1>3. Value(s, w, x) = x \/ Value(s, w, x) = x - 2 ^ w
  BY DEF Value
<1>4. \E c \in Int : Value(s, w, x) = x + c * 2 ^ w
  BY <1>2, <1>3, 0 \in Int, -1 \in Int, Zenon
<1>5. Value(s, w, x) \in Int
  BY <1>1, <1>2, <1>3
<1> QED BY <1>4, <1>5

\* It is in the range of its type.
LEMMA ValueRange ==
  ASSUME NEW w \in Nat \ {0}, NEW x \in Cells(w)
  PROVE  /\ Value(FALSE, w, x) = x
         /\ Value(TRUE, w, x) = IF x >= SignBit(w) THEN x - 2 ^ w ELSE x
         /\ Value(TRUE, w, x) >= -SignBit(w) /\ Value(TRUE, w, x) < SignBit(w)
<1>1. 2 ^ w \in Nat /\ SignBit(w) \in Nat /\ 2 ^ w = 2 * SignBit(w) /\ x \in Nat /\ x < 2 ^ w
  BY Base DEF Cells
<1>2. CASE x >= SignBit(w)
  BY <1>1, <1>2 DEF Value
<1>3. CASE ~(x >= SignBit(w))
  BY <1>1, <1>3 DEF Value
<1> QED BY <1>2, <1>3, Zenon

\* The value of a number in the signed type of its width.
AsSigned(w, x) == Value(TRUE, w, x)

\* The same of signed values, without a constant for the kind of type.
LEMMA SignedIs ==
  ASSUME NEW w \in Nat \ {0}, NEW x \in Cells(w)
  PROVE  /\ AsSigned(w, x) = IF x >= SignBit(w) THEN x - 2 ^ w ELSE x
         /\ AsSigned(w, x) \in Int
         /\ AsSigned(w, x) >= -SignBit(w) /\ AsSigned(w, x) < SignBit(w)
<1>1. AsSigned(w, x) = IF x >= SignBit(w) THEN x - 2 ^ w ELSE x
  BY ValueRange, Zenon DEF AsSigned
<1>2. AsSigned(w, x) \in Int
  BY ValueIs, Zenon DEF AsSigned
<1>3. AsSigned(w, x) >= -SignBit(w) /\ AsSigned(w, x) < SignBit(w)
  BY ValueRange, Zenon DEF AsSigned
<1> QED BY <1>1, <1>2, <1>3

\* A lane keeps sums, differences and products of values, whatever their type.
LEMMA LaneOf ==
  ASSUME NEW w \in Nat \ {0}, NEW s, NEW x \in Cells(w), NEW y \in Cells(w)
  PROVE  /\ Lane(w, Value(s, w, x)) = x
         /\ Lane(w, -Value(s, w, x)) = Lane(w, -x)
         /\ Lane(w, Value(s, w, x) + Value(s, w, y)) = Lane(w, x + y)
         /\ Lane(w, Value(s, w, x) - Value(s, w, y)) = Lane(w, x - y)
         /\ Lane(w, Value(s, w, x) * Value(s, w, y)) = Lane(w, x * y)
<1> DEFINE P == 2 ^ w
<1>1. P \in Nat /\ P > 0 /\ x \in Int /\ y \in Int
  BY Base DEF Cells
<1>2. PICK c \in Int : Value(s, w, x) = x + c * P
  BY ValueIs, Zenon
<1>3. PICK d \in Int : Value(s, w, y) = y + d * P
  BY ValueIs, Zenon
<1>6. Lane(w, x) = x
  BY LaneType, <1>1
<1> HIDE DEF P
<1>4. /\ -(x + c * P) = -x + (-c) * P
      /\ (x + c * P) + (y + d * P) = (x + y) + (c + d) * P
      /\ (x + c * P) - (y + d * P) = (x - y) + (c - d) * P
      /\ (x + c * P) * (y + d * P) = (x * y) + (x * d + c * y + c * d * P) * P
  BY <1>1
<1>5. /\ -x \in Int /\ x + y \in Int /\ x - y \in Int /\ x * y \in Int
      /\ -c \in Int /\ c + d \in Int /\ c - d \in Int /\ x * d + c * y + c * d * P \in Int
  BY <1>1
<1>7. \A i, q \in Int : (i + q * P) % P = i % P
  BY <1>1, Congruent
<1>8. \A i \in Int : Lane(w, i) = i % P
  BY DEF Lane, P
<1>9. \A i, q \in Int : i + q * P \in Int /\ Lane(w, i + q * P) = Lane(w, i)
  BY <1>1, <1>7, <1>8
<1>10. PICK u \in Int : u = Value(s, w, x)
  BY ValueIs, Zenon
<1>11. PICK v \in Int : v = Value(s, w, y)
  BY ValueIs, Zenon
<1>12. u = x + c * P /\ v = y + d * P
  BY <1>2, <1>3, <1>10, <1>11, Zenon
<1>13. /\ Lane(w, x + c * P) = Lane(w, x)
       /\ Lane(w, -x + (-c) * P) = Lane(w, -x)
       /\ Lane(w, (x + y) + (c + d) * P) = Lane(w, x + y)
       /\ Lane(w, (x - y) + (c - d) * P) = Lane(w, x - y)
       /\ Lane(w, (x * y) + (x * d + c * y + c * d * P) * P) = Lane(w, x * y)
  BY <1>1, <1>5, <1>9, Zenon
<1>14. /\ Lane(w, u) = x
       /\ Lane(w, -u) = Lane(w, -x)
       /\ Lane(w, u + v) = Lane(w, x + y)
       /\ Lane(w, u - v) = Lane(w, x - y)
       /\ Lane(w, u * v) = Lane(w, x * y)
  BY <1>4, <1>6, <1>12, <1>13, Zenon
<1> QED BY <1>10, <1>11, <1>14, Zenon

\* A number that is out of the range of a type saturates to the nearest of it.
LEMMA SaturateType ==
  ASSUME NEW w \in Nat \ {0}, NEW s, NEW i \in Int
  PROVE  Saturate(s, w, i) \in Cells(w)
<1>1. 2 ^ w \in Nat /\ SignBit(w) \in Nat
  BY Base
<1>2. Lowest(s, w) \in Int /\ Highest(s, w) \in Int
  BY <1>1 DEF Lowest, Highest, Ones
<1>3. (CASE i < Lowest(s, w)  -> Lowest(s, w)
         [] i > Highest(s, w) -> Highest(s, w)
         [] OTHER             -> i) \in Int
  <2>1. CASE i < Lowest(s, w)
    BY <1>2, <2>1
  <2>2. CASE i > Highest(s, w)
    BY <1>2, <2>2
  <2>3. CASE ~(i < Lowest(s, w)) /\ ~(i > Highest(s, w))
    BY <1>2, <2>3
  <2> QED BY <2>1, <2>2, <2>3
<1> QED BY <1>3, LaneType DEF Saturate

\* How many there are.
LEMMA LaneCount ==
  ASSUME NEW n \in Nat, NEW v, DOMAIN v = First(n)
  PROVE  LanesOf(v) = n
<1>1. Cardinality(0 .. n - 1) = n
  BY FS_Interval, 0 \in Int, n - 1 \in Int
<1> QED BY <1>1 DEF LanesOf, First

Register(w, n) == [First(n) -> Cells(w)]

\* A lane of a register is a number of its width.
LEMMA LaneOfRegister ==
  ASSUME NEW w, NEW n \in Nat, NEW a \in Register(w, n)
  PROVE  /\ DOMAIN a = First(n)
         /\ LanesOf(a) = n
         /\ \A k \in First(n) : a[k] \in Cells(w)
<1>1. DOMAIN a = First(n) /\ \A k \in First(n) : a[k] \in Cells(w)
  BY DEF Register
<1> QED BY <1>1, LaneCount

-------------------------------------------------------------------------------
(***************************************************************************)
(* Numbers as sets of positions, for the operations on bits.               *)
(***************************************************************************)

\* The numbers of the proofs about Bmi are those of the lanes.
LEMMA NumSame ==
  ASSUME NEW s
  PROVE  Numbers!Num(s) = Num(s)
BY Zenon DEF Numbers!Num, Numbers!MapThenSumSet, Numbers!MapThenFoldSet, Num, MapThenSumSet,
   MapThenFoldSet

\* So is the set of the ones of a number.
LEMMA BinSame ==
  ASSUME NEW w, NEW n
  PROVE  Numbers!Bin(w, n) = Bin(w, n)
BY DEF Numbers!Bin, Bin, Numbers!Full, Full

\* And finiteness.
LEMMA FiniteSame ==
  ASSUME NEW S
  PROVE  Numbers!IsFiniteSet(S) = IsFiniteSet(S)
BY Zenon DEF Numbers!IsFiniteSet, IsFiniteSet

Positions(w) == SUBSET (0 .. w - 1)

\* A set of positions has a number; the number is written as those positions.
LEMMA NumCell ==
  ASSUME NEW w \in Nat, NEW s \in Positions(w)
  PROVE  Num(s) \in Cells(w) /\ Bin(w, Num(s)) = s
<1>1. s \in Numbers!Word(w)
  BY DEF Numbers!Word, Numbers!Full, Positions
<1>2. Numbers!Num(s) \in 0 .. 2 ^ w - 1
  BY <1>1, WordOfTwo, Numbers!NumBound
<1>3. Numbers!Bin(w, Numbers!Num(s) + 0 * 2 ^ w) = s
  BY <1>1, WordOfTwo, Numbers!BinNum, 0 \in Int, Zenon
<1>4. Numbers!Num(s) + 0 * 2 ^ w = Numbers!Num(s)
  BY <1>2, Power
<1>5. Numbers!Bin(w, Numbers!Num(s)) = s
  BY <1>3, <1>4, Zenon
<1>6. Num(s) \in 0 .. 2 ^ w - 1
  BY <1>2, NumSame, Zenon
<1>7. Bin(w, Num(s)) = s
  BY <1>5, NumSame, BinSame, Zenon
<1> QED BY <1>6, <1>7, Zenon DEF Cells

\* A number of a lane is the number of the positions it is written as.
LEMMA BinCell ==
  ASSUME NEW w \in Nat, NEW x \in Cells(w)
  PROVE  Bin(w, x) \in Positions(w) /\ Num(Bin(w, x)) = x
<1>1. Numbers!Num(Numbers!Bin(w, x)) = x
  BY WordOfTwo, Numbers!NumBin DEF Cells
<1>2. Bin(w, x) \in Positions(w)
  BY DEF Bin, Full, Positions
<1>3. Num(Bin(w, x)) = x
  BY <1>1, NumSame, BinSame, Zenon
<1> QED BY <1>2, <1>3

\* What is written with no ones, with all, with the lowest m, and with the others.
LEMMA BinMasks ==
  ASSUME NEW w \in Nat, NEW m \in 0 .. w
  PROVE  /\ Bin(w, 0) = {}
         /\ Bin(w, Ones(w)) = 0 .. w - 1
         /\ Bin(w, 2 ^ m - 1) = 0 .. m - 1
         /\ Bin(w, 2 ^ w - 2 ^ m) = m .. w - 1
<1>1. Num({}) = 0
  BY WordOfTwo, Numbers!NumEmpty, NumSame, Zenon
<1>2. Num(0 .. w - 1) = 2 ^ w - 1
  BY WordOfTwo, Numbers!NumBelow, NumSame
<1>3. Num(0 .. m - 1) = 2 ^ m - 1
  BY WordOfTwo, Numbers!NumBelow, NumSame
<1>4. Num(m .. w - 1) = 2 ^ w - 2 ^ m
  BY WordOfTwo, Numbers!NumRun, NumSame
<1>5. /\ {} \in Positions(w) /\ 0 .. w - 1 \in Positions(w)
      /\ 0 .. m - 1 \in Positions(w) /\ m .. w - 1 \in Positions(w)
  BY DEF Positions
<1>6. Bin(w, 0) = {}
  BY <1>1, <1>5, NumCell, Zenon
<1>7. Bin(w, Ones(w)) = 0 .. w - 1
  BY <1>2, <1>5, NumCell, Zenon DEF Ones
<1>8. Bin(w, 2 ^ m - 1) = 0 .. m - 1
  BY <1>3, <1>5, NumCell, Zenon
<1>9. Bin(w, 2 ^ w - 2 ^ m) = m .. w - 1
  BY <1>4, <1>5, NumCell, Zenon
<1> QED BY <1>6, <1>7, <1>8, <1>9

\* The sign bit is the top position.
LEMMA BinSign ==
  ASSUME NEW w \in Nat \ {0}
  PROVE  Bin(w, SignBit(w)) = {w - 1} /\ Num({w - 1}) = SignBit(w) /\ {w - 1} \in Positions(w)
<1>1. w - 1 \in Nat /\ w \in Nat
  OBVIOUS
<1>2. Num({w - 1}) = SignBit(w)
  BY <1>1, WordOfTwo, Numbers!NumOne, NumSame DEF SignBit
<1>3. {w - 1} \in Positions(w)
  BY <1>1 DEF Positions
<1> QED BY <1>1, <1>2, <1>3, NumCell

\* Sets of positions without a common one add.
LEMMA NumJoin ==
  ASSUME NEW w \in Nat, NEW s \in Positions(w), NEW t \in Positions(w), s \cap t = {}
  PROVE  Num(s \cup t) = Num(s) + Num(t)
<1>1. s \in SUBSET Nat /\ t \in SUBSET Nat /\ IsFiniteSet(0 .. w - 1)
  BY FS_Interval, 0 \in Int, w - 1 \in Int DEF Positions
<1>2. IsFiniteSet(s) /\ IsFiniteSet(t)
  BY <1>1, FS_Subset DEF Positions
<1>3. Numbers!IsFiniteSet(s) /\ Numbers!IsFiniteSet(t)
  BY <1>2, FiniteSame, Zenon
<1>4. Numbers!Num(s \cup t) = Numbers!Num(s) + Numbers!Num(t)
  BY <1>1, <1>3, WordOfTwo, Numbers!NumUnion, Zenon
<1> QED BY <1>4, NumSame, Zenon

\* A number split at position m: the remainder by 2^m is written below, the rest
\* from there.
LEMMA BinSplit ==
  ASSUME NEW w \in Nat, NEW m \in 0 .. w, NEW x \in Cells(w)
  PROVE  /\ Num(Bin(w, x) \cap 0 .. m - 1) = x % 2 ^ m
         /\ Num(Bin(w, x) \cap m .. w - 1) = x - (x % 2 ^ m)
<1> DEFINE s == Bin(w, x)
           lo == s \cap 0 .. m - 1
           hi == s \cap m .. w - 1
<1>1. s \in Positions(w) /\ Num(s) = x
  BY BinCell
<1>2. lo \in Positions(m) /\ lo \in Positions(w) /\ hi \in Positions(w) /\ lo \cap hi = {}
  BY DEF Positions
<1>3. lo \cup hi = s
  BY <1>1 DEF Positions
<1>4. Num(lo) + Num(hi) = x
  BY <1>1, <1>2, <1>3, NumJoin
<1>5. Num(lo) \in 0 .. 2 ^ m - 1 /\ Num(hi) \in Int
  BY <1>2, NumCell, m \in Nat DEF Cells
<1>6. PICK q \in Nat : Num(hi) = q * 2 ^ m
  <2>1. hi \in SUBSET Nat /\ IsFiniteSet(0 .. w - 1)
    BY FS_Interval, 0 \in Int, w - 1 \in Int
  <2>2. IsFiniteSet(hi)
    BY <1>2, <2>1, FS_Subset DEF Positions
  <2>3. Numbers!IsFiniteSet(hi)
    BY <2>2, FiniteSame, Zenon
  <2>4. \A b \in hi : b >= m
    OBVIOUS
  <2>5. \E q \in Nat : Numbers!Num(hi) = q * 2 ^ m
    <3> HIDE DEF hi
    <3> QED BY <2>1, <2>3, <2>4, WordOfTwo, Numbers!NumMultiple, m \in Nat
  <2> QED BY <2>5, NumSame, Zenon
<1> HIDE DEF lo, hi
<1>7. PICK P \in Nat : P = 2 ^ m /\ P > 0
  BY Power, m \in Nat
<1>8. x = Num(lo) + q * P
  BY <1>4, <1>6, <1>7, Zenon
<1>9. (Num(lo) + q * P) % P = Num(lo)
  BY <1>5, <1>7, q \in Int, Written
<1>10. x % P = Num(lo)
  BY <1>8, <1>9, Zenon
<1>11. Num(hi) = x - (x % P)
  BY <1>4, <1>5, <1>10
<1> QED BY <1>7, <1>10, <1>11, Zenon DEF lo, hi

\* The top position of a number is a one from the sign bit on.
LEMMA TopPosition ==
  ASSUME NEW w \in Nat \ {0}, NEW x \in Cells(w)
  PROVE  /\ w - 1 \in Bin(w, x) <=> x >= SignBit(w)
         /\ Num(Bin(w, x) \ {w - 1}) = IF x >= SignBit(w) THEN x - SignBit(w) ELSE x
<1> DEFINE s == Bin(w, x)
<1>0. w \in Nat /\ w - 1 \in 0 .. w /\ (w - 1) .. (w - 1) = {w - 1}
  OBVIOUS
<1>1. PICK S \in Nat : S = SignBit(w) /\ S > 0 /\ x \in 0 .. 2 * S - 1
  BY Base, Zenon DEF Cells
<1>2. s \in Positions(w)
  BY BinCell, <1>0
<1>3. s \ {w - 1} = s \cap 0 .. (w - 1) - 1 /\ s \cap (w - 1) .. (w - 1) = s \cap {w - 1}
  BY <1>0, <1>2 DEF Positions
<1>4. /\ Num(s \cap 0 .. (w - 1) - 1) = x % 2 ^ (w - 1)
      /\ Num(s \cap (w - 1) .. (w - 1)) = x - (x % 2 ^ (w - 1))
  BY <1>0, BinSplit, ZenonT(40)
<1>5. Num(s \ {w - 1}) = x % S /\ Num(s \cap {w - 1}) = x - (x % S)
  BY <1>1, <1>3, <1>4 DEF SignBit
<1>6. Num({w - 1}) = S /\ Num({}) = 0
  BY <1>1, BinSign, WordOfTwo, Numbers!NumEmpty, NumSame, Zenon
<1> HIDE DEF s
<1>7. CASE x >= S
  <2>1. x = (x - S) + 1 * S /\ x - S \in 0 .. S - 1
    BY <1>1, <1>7
  <2>2. ((x - S) + 1 * S) % S = x - S
    BY <1>1, <2>1, 1 \in Int, Written
  <2>3. x % S = x - S
    BY <2>1, <2>2, Zenon
  <2>4. x - (x % S) = S /\ S # 0
    BY <2>3, <1>1
  <2>5. s \cap {w - 1} # {}
    BY <1>5, <1>6, <2>4, Zenon
  <2> QED BY <1>1, <1>5, <1>7, <2>3, <2>5 DEF s
<1>8. CASE x < S
  <2>1. x = x + 0 * S /\ x \in 0 .. S - 1
    BY <1>1, <1>8
  <2>2. (x + 0 * S) % S = x
    BY <1>1, <2>1, 0 \in Int, Written
  <2>3. x % S = x
    BY <2>1, <2>2, Zenon
  <2>4. x - (x % S) = 0 /\ S # 0
    BY <2>3, <1>1
  <2>5. s \cap {w - 1} # {w - 1}
    BY <1>5, <1>6, <2>4, Zenon
  <2>6. w - 1 \notin s
    BY <2>5
  <2> QED BY <1>1, <1>5, <1>8, <2>3, <2>6 DEF s
<1> QED BY <1>1, <1>7, <1>8

\* Masks: all ones keep a number, zero clears it.
LEMMA MaskedBits ==
  ASSUME NEW w \in Nat, NEW x \in Cells(w)
  PROVE  /\ Num(Bin(w, x) \cap Bin(w, Ones(w))) = x
         /\ Num(Bin(w, Ones(w)) \cap Bin(w, x)) = x
         /\ Num(Bin(w, x) \cap Bin(w, 0)) = 0
         /\ Num(Bin(w, 0) \cap Bin(w, x)) = 0
         /\ Num(Bin(w, x) \cup Bin(w, 0)) = x
         /\ Num(Bin(w, 0) \cup Bin(w, x)) = x
         /\ Num(Bin(w, Ones(w)) \cup Bin(w, x)) = Ones(w)
         /\ Num(Bin(w, x) \cup Bin(w, Ones(w))) = Ones(w)
         /\ Num(Bin(w, x) \ Bin(w, Ones(w))) = 0
         /\ Num(Bin(w, x) \ Bin(w, 0)) = x
         /\ Num(Xor(Bin(w, x), Bin(w, 0))) = x
         /\ Num(Xor(Bin(w, x), Bin(w, Ones(w)))) = Ones(w) - x
<1> DEFINE s == Bin(w, x)
           all == 0 .. w - 1
<1>1. s \in Positions(w) /\ Num(s) = x
  BY BinCell
<1>2. Bin(w, 0) = {} /\ Bin(w, Ones(w)) = all
  BY BinMasks, 0 \in 0 .. w
<1>3. all \in Positions(w) /\ all \ s \in Positions(w)
  BY DEF Positions
<1>4. Num({}) = 0 /\ Num(all) = Ones(w)
  BY WordOfTwo, Numbers!NumEmpty, Numbers!NumBelow, NumSame DEF Ones
<1>5. Num(all \ s) = Ones(w) - x
  <2>1. s \cup (all \ s) = all /\ s \cap (all \ s) = {}
    BY <1>1 DEF Positions
  <2>2. Num(s \cup (all \ s)) = Num(s) + Num(all \ s)
    BY <1>1, <1>3, <2>1, NumJoin
  <2>3. Num(all \ s) \in Int /\ x \in Int
    BY <1>3, NumCell DEF Cells
  <2>4. Ones(w) = x + Num(all \ s)
    BY <1>1, <1>4, <2>1, <2>2, Zenon
  <2> HIDE DEF s, all
  <2> QED BY <2>3, <2>4
<1>6. /\ s \cap all = s /\ all \cap s = s /\ s \cap {} = {} /\ {} \cap s = {}
      /\ s \cup {} = s /\ {} \cup s = s /\ all \cup s = all /\ s \cup all = all
      /\ s \ all = {} /\ s \ {} = s
      /\ Xor(s, {}) = s /\ Xor(s, all) = all \ s
  BY <1>1 DEF Positions, Xor
<1> HIDE DEF s, all
<1> QED BY <1>1, <1>2, <1>4, <1>5, <1>6, Zenon DEF s

\* The sign bit flipped.
LEMMA FlippedSign ==
  ASSUME NEW w \in Nat \ {0}, NEW x \in Cells(w)
  PROVE  Num(Xor(Bin(w, x), Bin(w, SignBit(w))))
           = IF x >= SignBit(w) THEN x - SignBit(w) ELSE x + SignBit(w)
<1> DEFINE s == Bin(w, x)
<1>0. w \in Nat /\ x \in Nat /\ SignBit(w) \in Nat
  BY Base DEF Cells
<1>1. Bin(w, SignBit(w)) = {w - 1} /\ Num({w - 1}) = SignBit(w) /\ {w - 1} \in Positions(w)
  BY BinSign
<1>2. s \in Positions(w) /\ Num(s) = x
  BY BinCell, <1>0
<1>3. CASE x >= SignBit(w)
  <2>1. w - 1 \in s /\ Num(s \ {w - 1}) = x - SignBit(w)
    BY <1>3, TopPosition
  <2>2. Xor(s, {w - 1}) = s \ {w - 1}
    BY <2>1 DEF Xor
  <2> QED BY <1>1, <1>3, <2>1, <2>2
<1>4. CASE ~(x >= SignBit(w))
  <2>1. w - 1 \notin s
    BY <1>4, TopPosition
  <2>2. Xor(s, {w - 1}) = s \cup {w - 1} /\ s \cap {w - 1} = {}
    BY <2>1 DEF Xor
  <2>3. Num(s \cup {w - 1}) = x + SignBit(w)
    BY <1>0, <1>1, <1>2, <2>2, NumJoin
  <2> QED BY <1>1, <1>4, <2>2, <2>3
<1> QED BY <1>3, <1>4

-------------------------------------------------------------------------------
(***************************************************************************)
(* The instructions, lane by lane.                                         *)
(***************************************************************************)

\* Lane by lane: sums, differences and products of numbers.
LEMMA AddIs ==
  ASSUME NEW w \in Nat \ {0}, NEW n \in Nat, NEW a \in Register(w, n), NEW b \in Register(w, n)
  PROVE  /\ add(w, a, b) \in Register(w, n)
         /\ sub(w, a, b) \in Register(w, n)
         /\ mullo(w, a, b) \in Register(w, n)
         /\ \A k \in First(n) : add(w, a, b)[k] = Lane(w, a[k] + b[k])
         /\ \A k \in First(n) : sub(w, a, b)[k] = Lane(w, a[k] - b[k])
         /\ \A k \in First(n) : mullo(w, a, b)[k] = Lane(w, a[k] * b[k])
<1>1. DOMAIN a = First(n) /\ \A k \in First(n) : a[k] \in Int /\ b[k] \in Int
  BY LaneOfRegister DEF Cells
<1>2. /\ add(w, a, b) = [k \in First(n) |-> Lane(w, a[k] + b[k])]
      /\ sub(w, a, b) = [k \in First(n) |-> Lane(w, a[k] - b[k])]
      /\ mullo(w, a, b) = [k \in First(n) |-> Lane(w, a[k] * b[k])]
  BY <1>1 DEF add, sub, mullo, Zip, Value
<1>3. \A k \in First(n) : /\ Lane(w, a[k] + b[k]) \in Cells(w)
                          /\ Lane(w, a[k] - b[k]) \in Cells(w)
                          /\ Lane(w, a[k] * b[k]) \in Cells(w)
  BY <1>1, LaneType
<1> QED BY <1>2, <1>3 DEF Register

\* The masks of a comparison.
LEMMA TruthIs ==
  ASSUME NEW w \in Nat \ {0}, NEW h
  PROVE  /\ Truth(w, h) \in Cells(w)
         /\ h => Truth(w, h) = Ones(w) /\ Truth(w, h) >= SignBit(w) /\ Truth(w, h) # 0
         /\ ~h => Truth(w, h) = 0 /\ ~(Truth(w, h) >= SignBit(w))
<1>1. 2 ^ w \in Nat /\ SignBit(w) \in Nat /\ SignBit(w) > 0 /\ 2 ^ w = 2 * SignBit(w)
  BY Base
<1>2. CASE h
  BY <1>1, <1>2 DEF Truth, Ones, Cells
<1>3. CASE ~h
  BY <1>1, <1>3 DEF Truth, Ones, Cells
<1> QED BY <1>2, <1>3

\* The comparison the lanes have is that of the signed values.
LEMMA CmpgtIs ==
  ASSUME NEW w \in Nat \ {0}, NEW n \in Nat, NEW a \in Register(w, n), NEW b \in Register(w, n)
  PROVE  /\ cmpgt(w, a, b) \in Register(w, n)
         /\ \A k \in First(n) : cmpgt(w, a, b)[k] = Truth(w, AsSigned(w, a[k]) > AsSigned(w,
             b[k]))
<1>1. DOMAIN a = First(n)
  BY LaneOfRegister
<1>2. cmpgt(w, a, b) = [k \in First(n) |-> Truth(w, AsSigned(w, a[k]) > AsSigned(w, b[k]))]
  BY <1>1, Zenon DEF cmpgt, Zip, AsSigned
<1>3. \A k \in First(n) : Truth(w, AsSigned(w, a[k]) > AsSigned(w, b[k])) \in Cells(w)
  BY TruthIs
<1> QED BY <1>2, <1>3 DEF Register

\* A register with the same number in every lane.
LEMMA SetIs ==
  ASSUME NEW w \in Nat, NEW n \in Nat, NEW a \in Register(w, n), NEW x \in Cells(w)
  PROVE  set1(a, x) \in Register(w, n) /\ \A k \in First(n) : set1(a, x)[k] = x
BY LaneOfRegister DEF set1, Register

\* A mask lane with its top bit set selects the second register.
LEMMA BlendIs ==
  ASSUME NEW w \in Nat, NEW n \in Nat, NEW a \in Register(w, n), NEW b \in Register(w, n), NEW m
  PROVE  /\ blendv(w, a, b, m) \in Register(w, n)
         /\ \A k \in First(n) :
              blendv(w, a, b, m)[k] = IF m[k] >= SignBit(w) THEN b[k] ELSE a[k]
<1>1. blendv(w, a, b, m) = [k \in First(n) |-> IF m[k] >= SignBit(w) THEN b[k] ELSE a[k]]
  BY LaneOfRegister DEF blendv
<1>2. \A k \in First(n) : (IF m[k] >= SignBit(w) THEN b[k] ELSE a[k]) \in Cells(w)
  BY LaneOfRegister
<1> QED BY <1>1, <1>2 DEF Register

\* Shifts of the numbers in the lanes.
LEMMA ShiftIs ==
  ASSUME NEW w \in Nat \ {0}, NEW n \in Nat, NEW a \in Register(w, n), NEW c \in Nat
  PROVE  /\ slli(w, a, c) \in Register(w, n)
         /\ srli(w, a, c) \in Register(w, n)
         /\ \A k \in First(n) :
              /\ slli(w, a, c)[k] = IF c >= w THEN 0 ELSE Lane(w, a[k] * 2 ^ c)
              /\ srli(w, a, c)[k] = IF c >= w THEN 0 ELSE a[k] \div 2 ^ c
<1>1. DOMAIN a = First(n) /\ \A k \in First(n) : a[k] \in Cells(w) /\ a[k] \in Int
  BY LaneOfRegister DEF Cells
<1>2. 2 ^ c \in Nat /\ 2 ^ c > 0 /\ 0 \in Cells(w)
  <2>1. 2 ^ w \in Nat /\ 2 ^ w > 0
    BY Power, w \in Nat
  <2> QED BY <2>1, Power DEF Cells
<1>3. \A x \in Cells(w) : x \div 2 ^ c \in Cells(w) /\ Lane(w, x * 2 ^ c) \in Cells(w)
  <2> TAKE x \in Cells(w)
  <2>1. PICK P \in Nat : P = 2 ^ c /\ P > 0
    BY <1>2
  <2>2. x \in Nat /\ x * P \in Int
    BY <2>1 DEF Cells
  <2>3. PICK q \in Int : q = x \div P
    BY <2>1, <2>2, Divided
  <2>4. x % P \in 0 .. P - 1 /\ x = (x % P) + q * P
    BY <2>1, <2>2, <2>3, Divided
  <2>5. q >= 0
    <3>1. CASE q <= -1
      <4>1. q * P <= (-1) * P
        BY <2>1, <3>1
      <4> QED BY <2>1, <2>2, <2>4, <4>1
    <3> QED BY <3>1
  <2>6. q <= x
    <3>1. q <= q * P
      BY <2>1, <2>5
    <3> QED BY <2>2, <2>4, <3>1
  <2>7. q \in Cells(w)
    BY <2>2, <2>5, <2>6 DEF Cells
  <2> QED BY <2>1, <2>2, <2>3, <2>7, LaneType
<1>4. /\ slli(w, a, c) = [k \in First(n) |-> IF c >= w THEN 0 ELSE Lane(w, a[k] * 2 ^ c)]
      /\ srli(w, a, c) = [k \in First(n) |-> IF c >= w THEN 0 ELSE a[k] \div 2 ^ c]
  BY <1>1 DEF slli, srli
<1>5. \A k \in First(n) : /\ (IF c >= w THEN 0 ELSE Lane(w, a[k] * 2 ^ c)) \in Cells(w)
                          /\ (IF c >= w THEN 0 ELSE a[k] \div 2 ^ c) \in Cells(w)
  BY <1>1, <1>2, <1>3
<1> QED BY <1>4, <1>5 DEF Register

\* The lane with ones in given positions.
LEMMA OnesAtIs ==
  ASSUME NEW w \in Nat, NEW s \in Positions(w)
  PROVE  OnesAt(w, s) = Num(s)
<1>1. Num(s) \in Cells(w) /\ Bin(w, Num(s)) = s
  BY NumCell
<1>2. \A x \in Cells(w) : Bin(w, x) = s => x = Num(s)
  BY BinCell
<1>3. OnesAt(w, s) = CHOOSE x \in Cells(w) : Bin(w, x) = s
  BY DEF OnesAt, Ones, Cells
<1> QED BY <1>1, <1>2, <1>3, Zenon

\* Sets of positions have a number of the lane.
LEMMA BitsType ==
  ASSUME NEW w \in Nat, NEW x \in Cells(w), NEW y \in Cells(w)
  PROVE  /\ Num(Bin(w, x) \cap Bin(w, y)) \in Cells(w)
         /\ Num(Bin(w, x) \cup Bin(w, y)) \in Cells(w)
         /\ Num(Xor(Bin(w, x), Bin(w, y))) \in Cells(w)
         /\ Num(Bin(w, x) \ Bin(w, y)) \in Cells(w)
         /\ OnesAt(w, Bin(w, x) \cap Bin(w, y)) = Num(Bin(w, x) \cap Bin(w, y))
         /\ OnesAt(w, Bin(w, x) \cup Bin(w, y)) = Num(Bin(w, x) \cup Bin(w, y))
         /\ OnesAt(w, Xor(Bin(w, x), Bin(w, y))) = Num(Xor(Bin(w, x), Bin(w, y)))
         /\ OnesAt(w, Bin(w, x) \ Bin(w, y)) = Num(Bin(w, x) \ Bin(w, y))
<1>1. Bin(w, x) \in Positions(w) /\ Bin(w, y) \in Positions(w)
  BY BinCell
<1>2. /\ Bin(w, x) \cap Bin(w, y) \in Positions(w) /\ Bin(w, x) \cup Bin(w, y) \in Positions(w)
      /\ Xor(Bin(w, x), Bin(w, y)) \in Positions(w) /\ Bin(w, x) \ Bin(w, y) \in Positions(w)
  BY <1>1 DEF Positions, Xor
<1> QED BY <1>2, NumCell, OnesAtIs, Zenon

\* The bits that differ.
LEMMA XorIs ==
  ASSUME NEW w \in Nat, NEW n \in Nat, NEW a \in Register(w, n), NEW b \in Register(w, n)
  PROVE  /\ xor(w, a, b) \in Register(w, n)
         /\ \A k \in First(n) : xor(w, a, b)[k] = Num(Xor(Bin(w, a[k]), Bin(w, b[k])))
<1>1. DOMAIN a = First(n) /\ \A k \in First(n) : a[k] \in Cells(w) /\ b[k] \in Cells(w)
  BY LaneOfRegister
<1>2. xor(w, a, b) = [k \in First(n) |-> OnesAt(w, Xor(Bin(w, a[k]), Bin(w, b[k])))]
  BY <1>1, Zenon DEF xor
<1>3. \A k \in First(n) : /\ Num(Xor(Bin(w, a[k]), Bin(w, b[k]))) \in Cells(w)
                          /\ OnesAt(w, Xor(Bin(w, a[k]), Bin(w, b[k]))) = Num(Xor(Bin(w,
                              a[k]), Bin(w, b[k])))
  BY <1>1, BitsType, Zenon
<1>4. xor(w, a, b) = [k \in First(n) |-> Num(Xor(Bin(w, a[k]), Bin(w, b[k])))]
  BY <1>2, <1>3, Zenon
<1> QED BY <1>3, <1>4, Zenon DEF Register

-------------------------------------------------------------------------------
(***************************************************************************)
(* Lanes of other widths, and the products made of them.                   *)
(***************************************************************************)

\* The modulus of a lane by a name.
LEMMA Modulus ==
  ASSUME NEW w \in Nat \ {0}
  PROVE  \E P \in Nat : P = 2 ^ w /\ P > 0 /\ 2 ^ (2 * w) = P * P
<1>1. 2 ^ w \in Nat /\ 2 ^ w > 0 /\ 2 ^ (2 * w) = 2 ^ w * 2 ^ w
  BY Base
<1> QED BY <1>1, Zenon

\* A lane is the even or the odd one of a pair.
LEMMA Paired ==
  ASSUME NEW m \in Nat, NEW k \in First(2 * m)
  PROVE  /\ k \div 2 \in First(m)
         /\ k % 2 = 0 => k = 2 * (k \div 2)
         /\ k % 2 # 0 => k % 2 = 1 /\ k = 2 * (k \div 2) + 1
BY DEF First

\* And the two of pair j are its even and its odd one.
LEMMA Pairs ==
  ASSUME NEW m \in Nat, NEW j \in First(m)
  PROVE  /\ 2 * j \in First(2 * m) /\ 2 * j + 1 \in First(2 * m)
         /\ (2 * j) \div 2 = j /\ (2 * j) % 2 = 0
         /\ (2 * j + 1) \div 2 = j /\ (2 * j + 1) % 2 = 1
BY DEF First

\* Two numbers as one of twice the width, and back.
LEMMA TwoCells ==
  ASSUME NEW w \in Nat \ {0}, NEW x \in Cells(w), NEW y \in Cells(w)
  PROVE  /\ x + 2 ^ w * y \in Cells(2 * w)
         /\ (x + 2 ^ w * y) % 2 ^ w = x
         /\ (x + 2 ^ w * y) \div 2 ^ w = y
<1>1. PICK P \in Nat : P = 2 ^ w /\ P > 0 /\ 2 ^ (2 * w) = P * P
  BY Modulus, Zenon
<1>2. x \in 0 .. P - 1 /\ y \in 0 .. P - 1
  BY <1>1 DEF Cells
<1>3. x + P * y = x + y * P /\ x + y * P \in Int
  BY <1>1, <1>2
<1>4. (x + y * P) % P = x /\ (x + y * P) \div P = y
  BY <1>1, <1>2, y \in Int, Written
<1>5. x + y * P \in 0 .. P * P - 1
  <2>1. y * P <= (P - 1) * P /\ (P - 1) * P = P * P - P /\ y * P >= 0
    BY <1>1, <1>2
  <2> QED BY <1>2, <1>3, <2>1
<1> QED BY <1>1, <1>3, <1>4, <1>5 DEF Cells

\* A number of twice the width is two numbers.
LEMMA HalfCells ==
  ASSUME NEW w \in Nat \ {0}, NEW z \in Cells(2 * w)
  PROVE  /\ z % 2 ^ w \in Cells(w)
         /\ z \div 2 ^ w \in Cells(w)
         /\ z = (z % 2 ^ w) + 2 ^ w * (z \div 2 ^ w)
<1>1. PICK P \in Nat : P = 2 ^ w /\ P > 0 /\ 2 ^ (2 * w) = P * P
  BY Modulus, Zenon
<1>2. z \in Nat /\ z < P * P
  BY <1>1 DEF Cells
<1>3. PICK q \in Int, r \in 0 .. P - 1 : q = z \div P /\ r = z % P /\ z = r + q * P
  BY <1>1, <1>2, Divided
<1>4. q >= 0
  <2>1. CASE q <= -1
    <3>1. q * P <= (-1) * P
      BY <1>1, <2>1
    <3> QED BY <1>1, <1>2, <1>3, <3>1
  <2> QED BY <2>1
<1>5. q < P
  <2>1. CASE q >= P
    <3>1. q * P >= P * P
      BY <1>1, <2>1
    <3> QED BY <1>1, <1>2, <1>3, <3>1
  <2> QED BY <1>1, <2>1
<1>6. r + q * P = r + P * q
  BY <1>1
<1> QED BY <1>1, <1>3, <1>4, <1>5, <1>6 DEF Cells

\* The register seen in lanes of twice the width.
LEMMA WideIs ==
  ASSUME NEW w \in Nat \ {0}, NEW m \in Nat, NEW a \in Register(w, 2 * m)
  PROVE  /\ wide(w, a) \in Register(2 * w, m)
         /\ \A j \in First(m) : wide(w, a)[j] = a[2 * j] + 2 ^ w * a[2 * j + 1]
<1>1. LanesOf(a) \div 2 = m /\ \A j \in First(m) : a[2 * j]
          \in Cells(w) /\ a[2 * j + 1] \in Cells(w)
  <2>1. LanesOf(a) = 2 * m /\ \A k \in First(2 * m) : a[k] \in Cells(w)
    BY LaneOfRegister, 2 * m \in Nat
  <2> QED BY <2>1, Pairs
<1>2. wide(w, a) = [j \in First(m) |-> a[2 * j] + 2 ^ w * a[2 * j + 1]]
  BY <1>1 DEF wide
<1>3. \A j \in First(m) : a[2 * j] + 2 ^ w * a[2 * j + 1] \in Cells(2 * w)
  BY <1>1, TwoCells
<1> QED BY <1>2, <1>3 DEF Register

\* And in lanes of half the width.
LEMMA NarrowIs ==
  ASSUME NEW w \in Nat \ {0}, NEW m \in Nat, NEW v \in Register(2 * w, m)
  PROVE  /\ narrow(w, v) \in Register(w, 2 * m)
         /\ \A j \in First(m) : narrow(w, v)[2 * j] = v[j] % 2 ^ w
         /\ \A j \in First(m) : narrow(w, v)[2 * j + 1] = v[j] \div 2 ^ w
<1>1. LanesOf(v) = m /\ \A j \in First(m) : v[j] \in Cells(2 * w)
  BY LaneOfRegister
<1>2. narrow(w, v) = [k \in First(2 * m) |->
                        IF k % 2 = 0 THEN v[k \div 2] % 2 ^ w ELSE v[k \div 2] \div 2 ^ w]
  BY <1>1 DEF narrow
<1>3. \A k \in First(2 * m) :
        (IF k % 2 = 0 THEN v[k \div 2] % 2 ^ w ELSE v[k \div 2] \div 2 ^ w) \in Cells(w)
  <2>1. \A j \in First(m) : v[j] % 2 ^ w \in Cells(w) /\ v[j] \div 2 ^ w \in Cells(w)
    BY <1>1, HalfCells
  <2> QED BY <2>1, Paired
<1>4. narrow(w, v) \in Register(w, 2 * m)
  BY <1>2, <1>3 DEF Register
<1>5. \A j \in First(m) : narrow(w, v)[2 * j] = v[j] % 2 ^ w
  BY <1>2, Pairs
<1>6. \A j \in First(m) : narrow(w, v)[2 * j + 1] = v[j] \div 2 ^ w
  <2> TAKE j \in First(m)
  <2>1. 2 * j + 1 \in First(2 * m) /\ (2 * j + 1) \div 2 = j /\ ~((2 * j + 1) % 2 = 0)
    BY Pairs
  <2> HIDE DEF First
  <2> QED BY <1>2, <2>1
<1> QED BY <1>4, <1>5, <1>6

\* The mask of the even lanes.
LEMMA EvenIs ==
  ASSUME NEW w \in Nat \ {0}, NEW m \in Nat, NEW a \in Register(w, 2 * m), NEW j \in First(m)
  PROVE  EvenLanes(w, a)[2 * j] >= SignBit(w) /\ ~(EvenLanes(w, a)[2 * j + 1] >= SignBit(w))
<1>1. EvenLanes(w, a) = [k \in First(2 * m) |-> Truth(w, k % 2 = 0)]
  BY LaneOfRegister, 2 * m \in Nat DEF EvenLanes
<1>2. 2 * j \in First(2 * m) /\ 2 * j + 1 \in First(2 * m)
  BY Pairs
<1>3. EvenLanes(w, a)[2 * j] = Truth(w, TRUE)
  BY <1>1, <1>2, Pairs DEF Truth
<1>4. EvenLanes(w, a)[2 * j + 1] = Truth(w, FALSE)
  <2>1. ~((2 * j + 1) % 2 = 0)
    BY Pairs
  <2> QED BY <1>1, <1>2, <2>1 DEF Truth
<1>5. Truth(w, TRUE) >= SignBit(w) /\ ~(Truth(w, FALSE) >= SignBit(w))
  BY TruthIs, Zenon
<1> QED BY <1>3, <1>4, <1>5, Zenon

\* A lane differs from what is stored in it by a multiple of the modulus, and such a
\* multiple does not matter.
LEMMA LaneShift ==
  ASSUME NEW w \in Nat, NEW x \in Int
  PROVE  /\ \E q \in Int : Lane(w, x) = x + q * 2 ^ w
         /\ \A q \in Int : Lane(w, x + q * 2 ^ w) = Lane(w, x)
<1>1. PICK P \in Nat : P = 2 ^ w /\ P > 0
  BY Power
<1>2. PICK r \in 0 .. P - 1, d \in Int : r = x % P /\ d = x \div P /\ x = r + d * P
  BY <1>1, Divided
<1>3. r = x + (-d) * P /\ -d \in Int
  BY <1>1, <1>2
<1>4. \A q \in Int : (x + q * P) % P = x % P
  BY <1>1, Congruent
<1>5. Lane(w, x) = x + (-d) * P
  BY <1>1, <1>2, <1>3, Zenon DEF Lane
<1> QED BY <1>1, <1>3, <1>4, <1>5, Zenon DEF Lane

\* What is stored in twice the width keeps its lower half.
LEMMA LaneOfWide ==
  ASSUME NEW w \in Nat \ {0}, NEW x \in Int
  PROVE  /\ Lane(2 * w, x) % 2 ^ w = Lane(w, x)
         /\ Lane(2 * w, Lane(2 * w, x) * 2 ^ w) \div 2 ^ w = Lane(w, x)
         /\ Lane(2 * w, x) \in Int
<1>1. PICK P \in Nat : P = 2 ^ w /\ P > 0 /\ 2 ^ (2 * w) = P * P
  BY Modulus, Zenon
<1>2. (x % (P * P)) % P = x % P
  BY <1>1, Remainders
<1>3. PICK y \in Int : y = x % (P * P)
  <2>1. P * P \in Nat /\ P * P > 0
    BY <1>1
  <2> QED BY <2>1, Divided
<1>4. ((y * P) % (P * P)) \div P = y % P
  BY <1>1, Scaled
<1> QED BY <1>1, <1>2, <1>3, <1>4, Zenon DEF Lane

\* 8-bit products from 16-bit ones.
LEMMA MulEpi8Is ==
  ASSUME NEW w \in Nat \ {0}, NEW m \in Nat, NEW a \in Register(w, 2 * m),
             NEW b \in Register(w, 2 * m)
  PROVE  \A k \in First(2 * m) : mul_epi8(w, a, b)[k] = Lane(w, a[k] * b[k])
<1> DEFINE A == wide(w, a)
           B == wide(w, b)
           SA == srli(2 * w, A, w)
           SB == srli(2 * w, B, w)
           even == mullo(2 * w, A, B)
           product == mullo(2 * w, SA, SB)
           odd == slli(2 * w, product, w)
<1>w. 2 * w \in Nat \ {0} /\ ~(w >= 2 * w) /\ w \in Nat /\ 2 * m \in Nat
  OBVIOUS
<1>1. A \in Register(2 * w, m) /\ B \in Register(2 * w, m)
  BY WideIs
<1>2. SA \in Register(2 * w, m) /\ SB \in Register(2 * w, m)
  BY <1>1, <1>w, ShiftIs
<1>3. even \in Register(2 * w, m) /\ product \in Register(2 * w, m)
  BY <1>1, <1>2, <1>w, AddIs
<1>4. odd \in Register(2 * w, m)
  BY <1>3, <1>w, ShiftIs
<1>5. narrow(w, odd) \in Register(w, 2 * m) /\ narrow(w, even) \in Register(w, 2 * m)
  BY <1>3, <1>4, NarrowIs
<1>6. \A k \in First(2 * m) :
        mul_epi8(w, a, b)[k]
          = IF EvenLanes(w, a)[k] >= SignBit(w) THEN narrow(w, even)[k] ELSE narrow(w, odd)[k]
  <2>1. mul_epi8(w, a, b) = blendv(w, narrow(w, odd), narrow(w, even), EvenLanes(w, a))
    BY DEF mul_epi8
  <2> HIDE DEF even, odd
  <2> QED BY <1>5, <1>w, <2>1, BlendIs
<1>7. ASSUME NEW j \in First(m)
      PROVE  /\ narrow(w, even)[2 * j] = Lane(w, a[2 * j] * b[2 * j])
             /\ narrow(w, odd)[2 * j + 1] = Lane(w, a[2 * j + 1] * b[2 * j + 1])
  <2> HIDE DEF A, B, SA, SB, even, product, odd
  <2>1. 2 * j \in First(2 * m) /\ 2 * j + 1 \in First(2 * m)
    BY Pairs
  <2>2. PICK x, y \in Cells(w) : x = a[2 * j] /\ y = a[2 * j + 1]
    BY <2>1, <1>w, LaneOfRegister
  <2>3. PICK u, v \in Cells(w) : u = b[2 * j] /\ v = b[2 * j + 1]
    BY <2>1, <1>w, LaneOfRegister
  <2>4. A[j] = x + 2 ^ w * y /\ B[j] = u + 2 ^ w * v
    BY <2>2, <2>3, WideIs, Zenon DEF A, B
  <2>5. even[j] = Lane(2 * w, A[j] * B[j])
    BY <1>1, <1>w, AddIs DEF even
  <2>6. SA[j] = A[j] \div 2 ^ w /\ SB[j] = B[j] \div 2 ^ w
    BY <1>1, <1>w, ShiftIs DEF SA, SB
  <2>7. SA[j] = y /\ SB[j] = v
    <3>1. (x + 2 ^ w * y) \div 2 ^ w = y /\ (u + 2 ^ w * v) \div 2 ^ w = v
      BY TwoCells
    <3> QED BY <2>4, <2>6, <3>1, Zenon
  <2>8. product[j] = Lane(2 * w, y * v)
    BY <1>2, <1>w, <2>7, AddIs DEF product
  <2>9. odd[j] = Lane(2 * w, product[j] * 2 ^ w)
    BY <1>3, <1>w, ShiftIs DEF odd
  <2>10. x \in Int /\ y \in Int /\ u \in Int /\ v \in Int /\ x * u \in Int /\ y * v \in Int
    BY DEF Cells
  <2>11. odd[j] \div 2 ^ w = Lane(w, y * v)
    <3>1. Lane(2 * w, Lane(2 * w, y * v) * 2 ^ w) \div 2 ^ w = Lane(w, y * v)
      BY <2>10, LaneOfWide
    <3> QED BY <2>8, <2>9, <3>1, Zenon
  <2>12. even[j] % 2 ^ w = Lane(w, x * u)
    <3>1. PICK P \in Nat : P = 2 ^ w
      BY Base
    <3>2. (x + P * y) * (u + P * v) = x * u + (x * v + y * u + P * y * v) * P
      BY <2>10, <3>1
    <3>3. PICK q \in Int : q = x * v + y * u + P * y * v
      BY <2>10, <3>1
    <3>4. A[j] * B[j] = x * u + q * 2 ^ w /\ A[j] * B[j] \in Int
      <4>1. x * u + q * P \in Int
        BY <2>10, <3>1
      <4> QED BY <2>4, <3>1, <3>2, <3>3, <4>1, Zenon
    <3>5. Lane(w, A[j] * B[j]) = Lane(w, x * u)
      <4>1. Lane(w, x * u + q * 2 ^ w) = Lane(w, x * u)
        BY <2>10, <1>w, LaneShift
      <4> QED BY <3>4, <4>1, Zenon
    <3>6. Lane(2 * w, A[j] * B[j]) % 2 ^ w = Lane(w, A[j] * B[j])
      BY <3>4, LaneOfWide, Zenon
    <3> QED BY <2>5, <3>5, <3>6, Zenon
  <2>13. narrow(w, even)[2 * j] = even[j] % 2 ^ w /\ narrow(w,
             odd)[2 * j + 1] = odd[j] \div 2 ^ w
    BY <1>3, <1>4, NarrowIs, Zenon
  <2> QED BY <2>2, <2>3, <2>11, <2>12, <2>13, Zenon
<1> HIDE DEF even, odd
<1>8. ASSUME NEW k \in First(2 * m)
      PROVE  mul_epi8(w, a, b)[k] = Lane(w, a[k] * b[k])
  <2>1. k \div 2 \in First(m)
    BY Paired
  <2>2. CASE k % 2 = 0
    <3>1. k = 2 * (k \div 2)
      BY <2>2, Paired
    <3>2. EvenLanes(w, a)[k] >= SignBit(w)
      BY <2>1, <3>1, EvenIs, Zenon
    <3> QED BY <1>6, <1>7, <2>1, <3>1, <3>2, Zenon
  <2>3. CASE k % 2 # 0
    <3>1. k = 2 * (k \div 2) + 1
      BY <2>3, Paired
    <3>2. ~(EvenLanes(w, a)[k] >= SignBit(w))
      BY <2>1, <3>1, EvenIs, Zenon
    <3> QED BY <1>6, <1>7, <2>1, <3>1, <3>2, Zenon
  <2> QED BY <2>2, <2>3
<1> QED BY <1>8

\* Products of the even lanes, in lanes of twice the width.
LEMMA MulIs ==
  ASSUME NEW w \in Nat \ {0}, NEW s, NEW m \in Nat,
         NEW a \in Register(w, 2 * m), NEW b \in Register(w, 2 * m)
  PROVE  /\ mul(s, w, a, b) \in Register(2 * w, m)
         /\ \A j \in First(m) :
              mul(s, w, a, b)[j] = Lane(2 * w, Value(s, w, a[2 * j]) * Value(s, w, b[2 * j]))
<1>1. LanesOf(a) \div 2 = m /\ \A j \in First(m) : a[2 * j] \in Cells(w) /\ b[2 * j]
          \in Cells(w)
  <2>1. LanesOf(a) = 2 * m /\ \A k \in First(2 * m) : a[k] \in Cells(w) /\ b[k] \in Cells(w)
    BY LaneOfRegister, 2 * m \in Nat
  <2> QED BY <2>1, Pairs
<1>2. mul(s, w, a, b)
        = [j \in First(m) |-> Lane(2 * w, Value(s, w, a[2 * j]) * Value(s, w, b[2 * j]))]
  BY <1>1, Zenon DEF mul
<1>3. \A j \in First(m) :
        Value(s, w, a[2 * j]) \in Int /\ Value(s, w, b[2 * j]) \in Int
  BY <1>1, ValueIs
<1>4. \A x, y \in Int : Lane(2 * w, x * y) \in Cells(2 * w)
  BY LaneType, 2 * w \in Nat
<1>5. \A j \in First(m) :
        Lane(2 * w, Value(s, w, a[2 * j]) * Value(s, w, b[2 * j])) \in Cells(2 * w)
  BY <1>3, <1>4, Zenon
<1> QED BY <1>2, <1>5, Zenon DEF Register

\* The product of two numbers from their halves, modulo the square of what a half holds.
LEMMA HalfProducts ==
  ASSUME NEW h \in Nat \ {0}, NEW l \in Cells(h), NEW u \in Cells(h), NEW k \in Cells(h),
             NEW v \in Cells(h)
  PROVE  Lane(2 * h, Lane(2 * h, l * k)
                     + Lane(2 * h, Lane(2 * h, Lane(2 * h, u * k) + Lane(2 * h,
                         l * v)) * 2 ^ h))
           = Lane(2 * h, (l + 2 ^ h * u) * (k + 2 ^ h * v))
<1> DEFINE w == 2 * h
           cross == Lane(w, Lane(w, u * k) + Lane(w, l * v))
<1>w. w \in Nat
  OBVIOUS
<1>1. PICK B \in Nat : B = 2 ^ h /\ B > 0 /\ 2 ^ w = B * B
  BY Modulus, Zenon
<1>2. /\ l \in Int /\ u \in Int /\ k \in Int /\ v \in Int
      /\ u * k \in Int /\ l * v \in Int /\ l * k \in Int
  BY DEF Cells
<1> HIDE DEF w
<1>3. \A x \in Int : \E q \in Int : Lane(w, x) = x + q * (B * B)
  <2> TAKE x \in Int
  <2>1. \E q \in Int : Lane(w, x) = x + q * 2 ^ w
    BY <1>w, LaneShift
  <2> QED BY <1>1, <2>1, Zenon
<1>4. PICK q1 \in Int : Lane(w, u * k) = u * k + q1 * (B * B)
  BY <1>2, <1>3
<1>5. PICK q2 \in Int : Lane(w, l * v) = l * v + q2 * (B * B)
  BY <1>2, <1>3
<1>6. PICK c0 \in Int : c0 = (u * k + q1 * (B * B)) + (l * v + q2 * (B * B))
  BY <1>1, <1>2
<1>7. PICK q3 \in Int : cross = c0 + q3 * (B * B)
  BY <1>3, <1>4, <1>5, <1>6, Zenon
<1>8. PICK c1 \in Int : c1 = (c0 + q3 * (B * B)) * B
  BY <1>1
<1>9. PICK q4 \in Int : Lane(w, c1) = c1 + q4 * (B * B)
  BY <1>3
<1>10. PICK q5 \in Int : Lane(w, l * k) = l * k + q5 * (B * B)
  BY <1>2, <1>3
<1>11. Lane(w, cross * 2 ^ h) = c1 + q4 * (B * B)
  BY <1>1, <1>7, <1>8, <1>9, Zenon
<1>12. PICK q \in Int : q = q5 + q4 + (q1 + q2 + q3) * B - u * v
  BY <1>1, <1>2
<1>13. (l * k + q5 * (B * B)) + (c1 + q4 * (B * B)) = (l + B * u) * (k + B * v) + q * (B * B)
  <2>1. c1 = (u * k + l * v) * B + (q1 + q2 + q3) * B * (B * B)
    BY <1>1, <1>2, <1>6, <1>8
  <2>2. (l + B * u) * (k + B * v) = l * k + (u * k + l * v) * B + u * v * (B * B)
    BY <1>1, <1>2
  <2>3. q * (B * B) = q5 * (B * B) + q4 * (B * B) + (q1 + q2
            + q3) * B * (B * B) - u * v * (B * B)
    BY <1>1, <1>2, <1>12
  <2> QED BY <1>1, <1>2, <2>1, <2>2, <2>3
<1>14. Lane(w, (l + B * u) * (k + B * v) + q * (B * B)) = Lane(w, (l + B * u) * (k + B * v))
  <2>1. (l + B * u) * (k + B * v) \in Int
    BY <1>1, <1>2
  <2>2. Lane(w, (l + B * u) * (k + B * v) + q * 2 ^ w) = Lane(w, (l + B * u) * (k + B * v))
    BY <1>w, <2>1, LaneShift, Zenon
  <2> QED BY <1>1, <2>2, Zenon
<1>15. Lane(w, Lane(w, l * k) + Lane(w, cross * 2 ^ h)) = Lane(w, (l + B * u) * (k + B * v))
  BY <1>10, <1>11, <1>13, <1>14, Zenon
<1> QED BY <1>1, <1>15, Zenon DEF w

\* 64-bit products from the halves of the lanes.
LEMMA MulloEpi64Is ==
  ASSUME NEW w \in Nat \ {0}, w % 2 = 0, NEW n \in Nat,
         NEW a \in Register(w, n), NEW b \in Register(w, n)
  PROVE  /\ mullo_epi64(w, a, b) \in Register(w, n)
         /\ \A k \in First(n) : mullo_epi64(w, a, b)[k] = Lane(w, a[k] * b[k])
<1>1. PICK h \in Nat \ {0} : w = 2 * h /\ w \div 2 = h
  <2>1. w = 2 * (w \div 2) /\ w \div 2 \in Nat \ {0}
    OBVIOUS
  <2> QED BY <2>1, Zenon
<1> DEFINE low(v) == narrow(h, v)
           high(v) == low(srli(w, v, h))
           left == mul(FALSE, h, high(a), low(b))
           right == mul(FALSE, h, low(a), high(b))
           cross == add(w, left, right)
           lows == mul(FALSE, h, low(a), low(b))
           shifted == slli(w, cross, h)
<1>2. mullo_epi64(w, a, b) = add(w, lows, shifted)
  BY <1>1, Zenon DEF mullo_epi64
<1>w. h \in Nat /\ w \in Nat \ {0} /\ ~(h >= w) /\ 2 * n \in Nat
  BY <1>1
<1>3. ASSUME NEW v \in Register(w, n)
      PROVE  /\ low(v) \in Register(h, 2 * n)
             /\ high(v) \in Register(h, 2 * n)
             /\ \A k \in First(n) : low(v)[2 * k] = v[k] % 2 ^ h /\ high(v)[2 * k]
                 = v[k] \div 2 ^ h
  <2>1. v \in Register(2 * h, n)
    BY <1>1
  <2>2. srli(w, v, h) \in Register(2 * h, n) /\ \A k \in First(n) : srli(w, v,
            h)[k] = v[k] \div 2 ^ h
    BY <1>1, <1>w, ShiftIs
  <2>3. low(v) \in Register(h, 2 * n) /\ \A k \in First(n) : low(v)[2 * k] = v[k] % 2 ^ h
    BY <2>1, NarrowIs
  <2>4. high(v) \in Register(h, 2 * n) /\ \A k \in First(n) : high(v)[2 * k] = srli(w, v,
            h)[k] % 2 ^ h
    BY <2>2, NarrowIs
  <2>5. ASSUME NEW k \in First(n)
        PROVE  (v[k] \div 2 ^ h) % 2 ^ h = v[k] \div 2 ^ h
    <3>1. v[k] \div 2 ^ h \in Cells(h)
      BY <2>1, LaneOfRegister, HalfCells
    <3>2. Lane(h, v[k] \div 2 ^ h) = v[k] \div 2 ^ h
      <4>1. v[k] \div 2 ^ h \in Int
        BY <3>1 DEF Cells
      <4> QED BY <3>1, <4>1, <1>w, LaneType, Zenon
    <3> QED BY <3>2 DEF Lane
  <2> HIDE DEF low, high
  <2> QED BY <2>2, <2>3, <2>4, <2>5
<1> HIDE DEF low, high
<1>4. /\ lows \in Register(w, n) /\ left \in Register(w, n) /\ right \in Register(w, n)
      /\ \A k \in First(n) :
           /\ lows[k] = Lane(w, Value(FALSE, h, low(a)[2 * k]) * Value(FALSE, h, low(b)[2 * k]))
           /\ left[k] = Lane(w, Value(FALSE, h, high(a)[2 * k]) * Value(FALSE, h,
               low(b)[2 * k]))
           /\ right[k] = Lane(w, Value(FALSE, h, low(a)[2 * k]) * Value(FALSE, h,
               high(b)[2 * k]))
  <2>1. ASSUME NEW x \in Register(h, 2 * n), NEW y \in Register(h, 2 * n)
        PROVE  /\ mul(FALSE, h, x, y) \in Register(w, n)
               /\ \A k \in First(n) :
                    mul(FALSE, h, x, y)[k]
                      = Lane(w, Value(FALSE, h, x[2 * k]) * Value(FALSE, h, y[2 * k]))
    <3>1. PICK s : s = FALSE
      OBVIOUS
    <3>2. /\ mul(s, h, x, y) \in Register(2 * h, n)
          /\ \A k \in First(n) :
               mul(s, h, x, y)[k] = Lane(2 * h, Value(s, h, x[2 * k]) * Value(s, h, y[2 * k]))
      BY MulIs
    <3>3. /\ mul(s, h, x, y) \in Register(w, n)
          /\ \A k \in First(n) :
               mul(s, h, x, y)[k] = Lane(w, Value(s, h, x[2 * k]) * Value(s, h, y[2 * k]))
      BY <1>1, <3>2
    <3> QED BY <3>1, <3>3, Zenon
  <2>2. /\ low(a) \in Register(h, 2 * n) /\ low(b) \in Register(h, 2 * n)
        /\ high(a) \in Register(h, 2 * n) /\ high(b) \in Register(h, 2 * n)
    BY <1>3
  <2> QED BY <2>1, <2>2, Zenon
<1> HIDE DEF lows, left, right
<1>5. cross \in Register(w, n) /\ \A k \in First(n) : cross[k] = Lane(w, left[k] + right[k])
  BY <1>4, AddIs
<1> HIDE DEF cross
<1>6. shifted \in Register(w, n) /\ \A k \in First(n) : shifted[k] = Lane(w, cross[k] * 2 ^ h)
  <2>1. PICK c \in Register(w, n) : c = cross
    BY <1>5, Zenon
  <2>2. /\ slli(w, c, h) \in Register(w, n)
        /\ \A k \in First(n) : slli(w, c, h)[k] = IF h >= w THEN 0 ELSE Lane(w, c[k] * 2 ^ h)
    BY <1>w, ShiftIs
  <2> QED BY <1>w, <2>1, <2>2, Zenon DEF shifted
<1> HIDE DEF shifted
<1>7. /\ mullo_epi64(w, a, b) \in Register(w, n)
      /\ \A k \in First(n) : mullo_epi64(w, a, b)[k] = Lane(w, lows[k] + shifted[k])
  BY <1>2, <1>4, <1>6, AddIs
<1>8. ASSUME NEW k \in First(n)
      PROVE  mullo_epi64(w, a, b)[k] = Lane(w, a[k] * b[k])
  <2>1. a[k] \in Cells(2 * h) /\ b[k] \in Cells(2 * h)
    BY <1>1, LaneOfRegister
  <2>2. PICK l, u \in Cells(h) : l = a[k] % 2 ^ h /\ u = a[k] \div 2 ^ h /\ a[k] = l + 2 ^ h * u
    BY <2>1, HalfCells, ZenonT(40)
  <2>3. PICK p, q \in Cells(h) : p = b[k] % 2 ^ h /\ q = b[k] \div 2 ^ h /\ b[k] = p + 2 ^ h * q
    BY <2>1, HalfCells, ZenonT(40)
  <2>4. low(a)[2 * k] = l /\ high(a)[2 * k] = u /\ low(b)[2 * k] = p /\ high(b)[2 * k] = q
    BY <1>3, <2>2, <2>3
  <2>5. \A x \in Cells(h) : Value(FALSE, h, x) = x
    BY DEF Value
  <2>6. lows[k] = Lane(w, l * p) /\ left[k] = Lane(w, u * p) /\ right[k] = Lane(w, l * q)
    BY <1>4, <2>4, <2>5, Zenon
  <2>7. mullo_epi64(w, a, b)[k]
          = Lane(w, Lane(w, l * p) + Lane(w, Lane(w, Lane(w, u * p) + Lane(w, l * q)) * 2 ^ h))
    BY <1>5, <1>6, <1>7, <2>6, Zenon
  <2>8. Lane(2 * h, Lane(2 * h, l * p)
                    + Lane(2 * h, Lane(2 * h, Lane(2 * h, u * p) + Lane(2 * h, l * q)) * 2 ^ h))
          = Lane(2 * h, (l + 2 ^ h * u) * (p + 2 ^ h * q))
    BY HalfProducts
  <2> QED BY <1>1, <2>2, <2>3, <2>7, <2>8, Zenon
<1> QED BY <1>7, <1>8

-------------------------------------------------------------------------------
(***************************************************************************)
(* Saturation, quotients, extrema and magnitudes.                          *)
(***************************************************************************)

\* Saturating sums and differences of the values, of either type.
LEMMA SaturatingAre ==
  ASSUME NEW w \in Nat \ {0}, NEW s, NEW n \in Nat, NEW a \in Register(w, n),
             NEW b \in Register(w, n),
         NEW k \in First(n)
  PROVE  /\ adds(s, w, a, b)[k] = Saturate(s, w, Value(s, w, a[k]) + Value(s, w, b[k]))
         /\ subs(s, w, a, b)[k] = Saturate(s, w, Value(s, w, a[k]) - Value(s, w, b[k]))
<1>1. k \in DOMAIN a
  BY LaneOfRegister
<1> QED BY <1>1, Zenon DEF adds, subs, Zip

\* Quotients and remainders.
LEMMA DivRemAre ==
  ASSUME NEW w \in Nat \ {0}, NEW s, NEW n \in Nat, NEW a \in Register(w, n),
             NEW b \in Register(w, n),
         NEW k \in First(n)
  PROVE  /\ div(s, w, a, b)[k] = Lane(w, Quotient(Value(s, w, a[k]), Value(s, w, b[k])))
         /\ rem(s, w, a, b)[k] = Lane(w, Remainder(Value(s, w, a[k]), Value(s, w, b[k])))
<1>1. k \in DOMAIN a
  BY LaneOfRegister
<1> QED BY <1>1, Zenon DEF div, rem, Zip

\* The lesser and the greater.
LEMMA ExtremaAre ==
  ASSUME NEW w \in Nat \ {0}, NEW s, NEW n \in Nat, NEW a \in Register(w, n),
             NEW b \in Register(w, n),
         NEW k \in First(n)
  PROVE  /\ min(s, w, a, b)[k] = Lane(w, IF Value(s, w, a[k]) < Value(s, w,
             b[k]) THEN Value(s, w, a[k]) ELSE Value(s, w, b[k]))
         /\ max(s, w, a, b)[k] = Lane(w, IF Value(s, w, a[k]) < Value(s, w,
             b[k]) THEN Value(s, w, b[k]) ELSE Value(s, w, a[k]))
<1>1. k \in DOMAIN a /\ a[k] \in Cells(w) /\ b[k] \in Cells(w)
  BY LaneOfRegister
<1>2. PICK x, y \in Int : x = Value(s, w, a[k]) /\ y = Value(s, w, b[k])
  BY <1>1, ValueIs
<1>3. /\ min(s, w, a, b)[k] = Lane(w, IF x < y THEN x ELSE y)
      /\ max(s, w, a, b)[k] = Lane(w, IF x > y THEN x ELSE y)
  BY <1>1, <1>2, Zenon DEF min, max, Zip
<1>4. (IF x > y THEN x ELSE y) = IF x < y THEN y ELSE x
  OBVIOUS
<1> QED BY <1>2, <1>3, <1>4, Zenon

\* The rounded average of unsigned lanes.
LEMMA AvgIs ==
  ASSUME NEW w \in Nat \ {0}, NEW n \in Nat, NEW a \in Register(w, n), NEW b \in Register(w, n),
         NEW k \in First(n)
  PROVE  avg(w, a, b)[k] = (a[k] + b[k] + 1) \div 2
<1>1. k \in DOMAIN a
  BY LaneOfRegister
<1> QED BY <1>1 DEF avg, Zip, Value

\* The magnitude of signed lanes.
LEMMA AbsIs ==
  ASSUME NEW w \in Nat \ {0}, NEW n \in Nat, NEW a \in Register(w, n), NEW k \in First(n)
  PROVE  abs(w, a)[k] = Lane(w, Magnitude(Value(TRUE, w, a[k])))
<1>1. k \in DOMAIN a
  BY LaneOfRegister
<1> QED BY <1>1, Zenon DEF abs, Each, Magnitude

\* A change of sign, whatever the type.
LEMMA NegateIs ==
  ASSUME NEW w \in Nat \ {0}, NEW s, NEW n \in Nat, NEW a \in Register(w, n), NEW k \in First(n)
  PROVE  sub(w, set1(a, 0), a)[k] = Lane(w, -Value(s, w, a[k]))
<1>1. a[k] \in Cells(w) /\ a[k] \in Int
  BY LaneOfRegister DEF Cells
<1>2. 0 \in Cells(w)
  BY Base DEF Cells
<1>3. PICK z \in Register(w, n) : z = set1(a, 0) /\ z[k] = 0
  <2>1. set1(a, 0) \in Register(w, n) /\ set1(a, 0)[k] = 0
    BY <1>2, SetIs
  <2> QED BY <2>1, Zenon
<1>4. sub(w, set1(a, 0), a)[k] = Lane(w, 0 - a[k])
  <2>1. sub(w, z, a)[k] = Lane(w, z[k] - a[k])
    BY AddIs
  <2> QED BY <1>3, <2>1, Zenon
<1>5. 0 - a[k] = -a[k]
  BY <1>1
<1>6. Lane(w, -Value(s, w, a[k])) = Lane(w, -a[k])
  BY <1>1, LaneOf, ZenonT(40)
<1> QED BY <1>4, <1>5, <1>6, Zenon

\* The sign of 64-bit lanes, as a mask.
LEMMA SignMask ==
  ASSUME NEW w \in Nat \ {0}, NEW n \in Nat, NEW a \in Register(w, n)
  PROVE  /\ cmpgt(w, set1(a, 0), a) \in Register(w, n)
         /\ \A k \in First(n) : cmpgt(w, set1(a, 0), a)[k]
                                  = IF a[k] >= SignBit(w) THEN Ones(w) ELSE 0
<1>1. 0 \in Cells(w) /\ SignBit(w) \in Nat /\ SignBit(w) > 0 /\ 2 ^ w = 2 * SignBit(w)
  BY Base DEF Cells
<1>2. set1(a, 0) \in Register(w, n) /\ \A k \in First(n) : set1(a, 0)[k] = 0
  BY <1>1, SetIs
<1>3. cmpgt(w, set1(a, 0), a) \in Register(w, n)
  BY <1>2, CmpgtIs
<1>4. ASSUME NEW k \in First(n)
      PROVE  cmpgt(w, set1(a, 0), a)[k] = IF a[k] >= SignBit(w) THEN Ones(w) ELSE 0
  <2>1. cmpgt(w, set1(a, 0), a)[k]
          = Truth(w, AsSigned(w, set1(a, 0)[k]) > AsSigned(w, a[k]))
    BY <1>2, CmpgtIs
  <2>2. PICK x \in Cells(w) : x = a[k]
    BY LaneOfRegister
  <2>3. AsSigned(w, 0) = 0
    BY <1>1, SignedIs
  <2>4. AsSigned(w, x) = (IF x >= SignBit(w) THEN x - 2 ^ w ELSE x)
    BY SignedIs
  <2>8. x \in Nat /\ x < 2 * SignBit(w)
    BY <1>1 DEF Cells
  <2>5. PICK y \in Int : y = AsSigned(w, x)
    BY SignedIs
  <2>6. 0 > y <=> x >= SignBit(w)
    BY <1>1, <2>4, <2>5, <2>8
  <2>7. cmpgt(w, set1(a, 0), a)[k] = Truth(w, 0 > y)
    BY <1>2, <2>1, <2>2, <2>3, <2>5, Zenon
  <2> QED BY <2>2, <2>6, <2>7 DEF Truth
<1> QED BY <1>3, <1>4

\* The magnitude of 64-bit lanes.
LEMMA AbsEpi64Is ==
  ASSUME NEW w \in Nat \ {0}, NEW n \in Nat, NEW a \in Register(w, n), NEW k \in First(n)
  PROVE  abs_epi64(w, a)[k] = Lane(w, Magnitude(Value(TRUE, w, a[k])))
<1> DEFINE sign == cmpgt(w, set1(a, 0), a)
<1>w. w \in Nat
  OBVIOUS
<1>1. sign \in Register(w, n) /\ sign[k] = IF a[k] >= SignBit(w) THEN Ones(w) ELSE 0
  BY SignMask
<1>2. abs_epi64(w, a) = sub(w, xor(w, a, sign), sign)
  BY DEF abs_epi64
<1> HIDE DEF sign
<1>3. xor(w, a, sign) \in Register(w, n) /\ xor(w, a, sign)[k] = Num(Xor(Bin(w, a[k]), Bin(w,
          sign[k])))
  BY <1>1, <1>w, XorIs
<1>4. abs_epi64(w, a)[k] = Lane(w, xor(w, a, sign)[k] - sign[k])
  BY <1>1, <1>2, <1>3, AddIs
<1>5. PICK x \in Cells(w) : x = a[k]
  BY LaneOfRegister
<1>6. Num(Xor(Bin(w, x), Bin(w, 0))) = x /\ Num(Xor(Bin(w, x), Bin(w, Ones(w)))) = Ones(w) - x
  BY <1>w, MaskedBits
<1>7. SignBit(w) \in Nat /\ SignBit(w) > 0 /\ 2 ^ w = 2 * SignBit(w) /\ x \in Nat /\ x < 2 ^ w
  BY Base DEF Cells
<1>8. Value(TRUE, w, x) = IF x >= SignBit(w) THEN x - 2 ^ w ELSE x
  BY ValueRange
<1>9. CASE x >= SignBit(w)
  <2>1. sign[k] = Ones(w) /\ xor(w, a, sign)[k] = Ones(w) - x
    BY <1>1, <1>3, <1>5, <1>6, <1>9
  <2>2. Value(TRUE, w, x) = x - 2 ^ w
    BY <1>8, <1>9
  <2>3. Magnitude(x - 2 ^ w) = 2 ^ w - x
    BY <1>7 DEF Magnitude
  <2>4. (Ones(w) - x) - Ones(w) = -x /\ 2 ^ w - x = -x + 1 * 2 ^ w
    BY <1>7 DEF Ones
  <2>5. Lane(w, -x + 1 * 2 ^ w) = Lane(w, -x)
    BY <1>7, <1>w, LaneShift, -x \in Int, 1 \in Int
  <2> QED BY <1>4, <1>5, <2>1, <2>2, <2>3, <2>4, <2>5, Zenon
<1>10. CASE ~(x >= SignBit(w))
  <2>1. sign[k] = 0 /\ xor(w, a, sign)[k] = x
    BY <1>1, <1>3, <1>5, <1>6, <1>10
  <2>2. Value(TRUE, w, x) = x
    BY <1>8, <1>10
  <2>3. Magnitude(x) = x /\ x - 0 = x
    BY <1>7 DEF Magnitude
  <2> QED BY <1>4, <1>5, <2>1, <2>2, <2>3, Zenon
<1> QED BY <1>9, <1>10

\* The orders of 64-bit lanes: signed, and unsigned with the sign bits flipped.
LEMMA CmpgtEpu64Is ==
  ASSUME NEW w \in Nat \ {0}, NEW n \in Nat, NEW a \in Register(w, n), NEW b \in Register(w, n)
  PROVE  /\ cmpgt_epu64(w, a, b) \in Register(w, n)
         /\ \A k \in First(n) : cmpgt_epu64(w, a, b)[k] = Truth(w, a[k] > b[k])
<1> DEFINE flipped(v) == xor(w, v, set1(v, SignBit(w)))
<1>w. w \in Nat
  OBVIOUS
<1>1. SignBit(w) \in Nat /\ SignBit(w) > 0 /\ 2 ^ w = 2 * SignBit(w) /\ SignBit(w) \in Cells(w)
  BY Base DEF Cells
<1>2. ASSUME NEW v \in Register(w, n)
      PROVE  /\ flipped(v) \in Register(w, n)
             /\ \A k \in First(n) : AsSigned(w, flipped(v)[k]) = v[k] - SignBit(w)
  <2>1. set1(v, SignBit(w)) \in Register(w, n) /\ \A k \in First(n) : set1(v,
            SignBit(w))[k] = SignBit(w)
    BY <1>1, <1>w, SetIs
  <2>2. /\ flipped(v) \in Register(w, n)
        /\ \A k \in First(n) : flipped(v)[k] = Num(Xor(Bin(w, v[k]), Bin(w, set1(v,
            SignBit(w))[k])))
    BY <1>w, <2>1, XorIs
  <2> HIDE DEF flipped
  <2>3. ASSUME NEW k \in First(n)
        PROVE  AsSigned(w, flipped(v)[k]) = v[k] - SignBit(w)
    <3>1. PICK x \in Cells(w) : x = v[k]
      BY LaneOfRegister
    <3>2. flipped(v)[k] = Num(Xor(Bin(w, x), Bin(w, SignBit(w))))
      BY <2>1, <2>2, <3>1, Zenon
    <3>3. Num(Xor(Bin(w, x), Bin(w, SignBit(w))))
            = IF x >= SignBit(w) THEN x - SignBit(w) ELSE x + SignBit(w)
      BY FlippedSign
    <3>4. x \in Nat /\ x < 2 * SignBit(w)
      BY <1>1 DEF Cells
    <3>5. PICK y \in Cells(w) : y = flipped(v)[k]
      BY <2>2, LaneOfRegister
    <3>6. y = IF x >= SignBit(w) THEN x - SignBit(w) ELSE x + SignBit(w)
      BY <3>2, <3>3, <3>5, Zenon
    <3>7. AsSigned(w, y) = IF y >= SignBit(w) THEN y - 2 ^ w ELSE y
      BY SignedIs
    <3>8. AsSigned(w, y) = x - SignBit(w)
      BY <1>1, <3>4, <3>6, <3>7
    <3> QED BY <3>1, <3>5, <3>8, Zenon
  <2> QED BY <2>2, <2>3
<1>3. cmpgt_epu64(w, a, b) = cmpgt(w, flipped(a), flipped(b))
  BY DEF cmpgt_epu64
<1> HIDE DEF flipped
<1>4. /\ cmpgt_epu64(w, a, b) \in Register(w, n)
      /\ \A k \in First(n) : cmpgt_epu64(w, a, b)[k]
           = Truth(w, AsSigned(w, flipped(a)[k]) > AsSigned(w, flipped(b)[k]))
  BY <1>2, <1>3, CmpgtIs
<1>5. ASSUME NEW k \in First(n)
      PROVE  cmpgt_epu64(w, a, b)[k] = Truth(w, a[k] > b[k])
  <2>1. PICK x, y \in Int : x = a[k] /\ y = b[k]
    BY LaneOfRegister DEF Cells
  <2>2. cmpgt_epu64(w, a, b)[k] = Truth(w, x - SignBit(w) > y - SignBit(w))
    BY <1>2, <1>4, <2>1, Zenon
  <2>3. x - SignBit(w) > y - SignBit(w) <=> x > y
    BY <1>1
  <2> QED BY <2>1, <2>2, <2>3 DEF Truth
<1> QED BY <1>4, <1>5

\* What a selection by a greater-than mask leaves.
LEMMA LesserIs ==
  ASSUME NEW w \in Nat \ {0}, NEW n \in Nat, NEW a \in Register(w, n), NEW b \in Register(w,
             n), NEW k \in First(n)
  PROVE  /\ min_epi64(w, a, b)[k] = IF AsSigned(w, a[k]) > AsSigned(w, b[k]) THEN b[k] ELSE a[k]
         /\ max_epi64(w, a, b)[k] = IF AsSigned(w, a[k]) > AsSigned(w, b[k]) THEN a[k] ELSE b[k]
         /\ min_epu64(w, a, b)[k] = IF a[k] > b[k] THEN b[k] ELSE a[k]
         /\ max_epu64(w, a, b)[k] = IF a[k] > b[k] THEN a[k] ELSE b[k]
<1>w. w \in Nat
  OBVIOUS
<1> DEFINE sm == cmpgt(w, a, b)
           um == cmpgt_epu64(w, a, b)
<1>1. /\ min_epi64(w, a, b) = blendv(w, a, b, sm) /\ max_epi64(w, a, b) = blendv(w, b, a, sm)
      /\ min_epu64(w, a, b) = blendv(w, a, b, um) /\ max_epu64(w, a, b) = blendv(w, b, a, um)
  BY DEF min_epi64, max_epi64, min_epu64, max_epu64
<1>2. sm[k] = Truth(w, AsSigned(w, a[k]) > AsSigned(w, b[k]))
  BY CmpgtIs
<1>3. um[k] = Truth(w, a[k] > b[k])
  BY CmpgtEpu64Is
<1> HIDE DEF sm, um
<1>4. \A m : /\ blendv(w, a, b, m)[k] = IF m[k] >= SignBit(w) THEN b[k] ELSE a[k]
             /\ blendv(w, b, a, m)[k] = IF m[k] >= SignBit(w) THEN a[k] ELSE b[k]
  BY <1>w, BlendIs
<1>5. sm[k] >= SignBit(w) <=> AsSigned(w, a[k]) > AsSigned(w, b[k])
  BY <1>2, TruthIs
<1>6. um[k] >= SignBit(w) <=> a[k] > b[k]
  BY <1>3, TruthIs
<1> QED BY <1>1, <1>4, <1>5, <1>6, Zenon

\* The lesser and the greater of 64-bit lanes, by value.
LEMMA ExtremaEpi64 ==
  ASSUME NEW w \in Nat \ {0}, NEW n \in Nat, NEW a \in Register(w, n), NEW b \in Register(w, n),
         NEW k \in First(n), NEW x, NEW y, x = AsSigned(w, a[k]), y = AsSigned(w, b[k])
  PROVE  /\ min_epi64(w, a, b)[k] = Lane(w, IF x < y THEN x ELSE y)
         /\ max_epi64(w, a, b)[k] = Lane(w, IF x < y THEN y ELSE x)
<1>1. a[k] \in Cells(w) /\ b[k] \in Cells(w)
  BY LaneOfRegister
<1>2. Lane(w, x) = a[k] /\ Lane(w, y) = b[k]
  <2>1. \A z \in Cells(w) : Lane(w, AsSigned(w, z)) = z
    BY LaneOf, ZenonT(40) DEF AsSigned
  <2> QED BY <1>1, <2>1
<1>3. x \in Int /\ y \in Int
  BY <1>1, SignedIs
<1>4. /\ min_epi64(w, a, b)[k] = IF x > y THEN Lane(w, y) ELSE Lane(w, x)
      /\ max_epi64(w, a, b)[k] = IF x > y THEN Lane(w, x) ELSE Lane(w, y)
  BY <1>2, LesserIs
<1> QED BY <1>3, <1>4

\* The same of unsigned 64-bit lanes.
LEMMA ExtremaEpu64 ==
  ASSUME NEW w \in Nat \ {0}, NEW n \in Nat, NEW a \in Register(w, n), NEW b \in Register(w, n),
         NEW k \in First(n), NEW x, NEW y, x = a[k], y = b[k]
  PROVE  /\ min_epu64(w, a, b)[k] = Lane(w, IF x < y THEN x ELSE y)
         /\ max_epu64(w, a, b)[k] = Lane(w, IF x < y THEN y ELSE x)
<1>1. x \in Cells(w) /\ y \in Cells(w) /\ x \in Int /\ y \in Int
  BY LaneOfRegister DEF Cells
<1>2. Lane(w, x) = x /\ Lane(w, y) = y
  BY <1>1, LaneType
<1>4. /\ min_epu64(w, a, b)[k] = IF x > y THEN y ELSE x
      /\ max_epu64(w, a, b)[k] = IF x > y THEN x ELSE y
  BY LesserIs
<1> QED BY <1>1, <1>2, <1>4

-------------------------------------------------------------------------------
(***************************************************************************)
(* 256 bits as two halves.                                                 *)
(***************************************************************************)

\* The halves of a register.
LEMMA HalvesAre ==
  ASSUME NEW w, NEW n \in Nat, NEW a \in Register(w, 2 * n)
  PROVE  /\ lower(n, a) \in Register(w, n) /\ \A k \in First(n) : lower(n, a)[k] = a[k]
         /\ upper(n, a) \in Register(w, n) /\ \A k \in First(n) : upper(n, a)[k] = a[n + k]
<1>1. \A k \in First(2 * n) : a[k] \in Cells(w)
  BY LaneOfRegister, 2 * n \in Nat
<1>2. \A k \in First(n) : k \in First(2 * n) /\ n + k \in First(2 * n)
  BY DEF First
<1> QED BY <1>1, <1>2 DEF lower, upper, Register

\* A register joined from halves.
LEMMA JoinIs ==
  ASSUME NEW n \in Nat, NEW lo, NEW hi, NEW k \in First(2 * n)
  PROVE  /\ k \in First(n) => join(n, lo, hi)[k] = lo[k]
         /\ ~(k \in First(n)) => k - n \in First(n) /\ join(n, lo, hi)[k] = hi[k - n]
BY DEF join, First

\* 256 bits are divided in halves, like the complete register.
LEMMA DivisionIs ==
  ASSUME NEW w \in Nat \ {0}, NEW s, NEW n \in Nat, NEW a \in Register(w, 2 * n),
             NEW b \in Register(w, 2 * n),
         NEW k \in First(2 * n), NEW x, NEW y, x = Value(s, w, a[k]), y = Value(s, w, b[k])
  PROVE  /\ ext256_div(s, w, n, a, b)[k] = Lane(w, Quotient(x, y))
         /\ ext256_rem(s, w, n, a, b)[k] = Lane(w, Remainder(x, y))
<1>1. /\ ext256_div(s, w, n, a, b)
           = join(n, div(s, w, lower(n, a), lower(n, b)), div(s, w, upper(n, a), upper(n, b)))
      /\ ext256_rem(s, w, n, a, b)
           = join(n, rem(s, w, lower(n, a), lower(n, b)), rem(s, w, upper(n, a), upper(n, b)))
  BY Zenon DEF ext256_div, ext256_rem, Halves
<1>2. /\ lower(n, a) \in Register(w, n) /\ lower(n, b) \in Register(w, n)
      /\ upper(n, a) \in Register(w, n) /\ upper(n, b) \in Register(w, n)
      /\ \A j \in First(n) : /\ lower(n, a)[j] = a[j] /\ lower(n, b)[j] = b[j]
                             /\ upper(n, a)[j] = a[n + j] /\ upper(n, b)[j] = b[n + j]
  BY HalvesAre
<1> DEFINE la == lower(n, a)
           lb == lower(n, b)
           ua == upper(n, a)
           ub == upper(n, b)
<1> HIDE DEF la, lb, ua, ub
<1>3. ASSUME NEW j \in First(n)
      PROVE  /\ div(s, w, la, lb)[j] = Lane(w, Quotient(Value(s, w, la[j]), Value(s, w, lb[j])))
             /\ rem(s, w, la, lb)[j] = Lane(w, Remainder(Value(s, w, la[j]), Value(s, w,
                 lb[j])))
             /\ div(s, w, ua, ub)[j] = Lane(w, Quotient(Value(s, w, ua[j]), Value(s, w, ub[j])))
             /\ rem(s, w, ua, ub)[j] = Lane(w, Remainder(Value(s, w, ua[j]), Value(s, w,
                 ub[j])))
  <2>1. la \in Register(w, n) /\ lb \in Register(w, n) /\ ua \in Register(w,
            n) /\ ub \in Register(w, n)
    BY <1>2 DEF la, lb, ua, ub
  <2>2. ASSUME NEW u \in Register(w, n), NEW v \in Register(w, n)
        PROVE  /\ div(s, w, u, v)[j] = Lane(w, Quotient(Value(s, w, u[j]), Value(s, w, v[j])))
               /\ rem(s, w, u, v)[j] = Lane(w, Remainder(Value(s, w, u[j]), Value(s, w, v[j])))
    BY DivRemAre
  <2> QED BY <2>1, <2>2, Zenon
<1>4. CASE k \in First(n)
  <2>1. x = Value(s, w, la[k]) /\ y = Value(s, w, lb[k])
    BY <1>2, <1>4 DEF la, lb
  <2>2. div(s, w, la, lb)[k] = Lane(w, Quotient(x, y)) /\ rem(s, w, la, lb)[k] = Lane(w,
            Remainder(x, y))
    BY <1>3, <1>4, <2>1, Zenon
  <2> QED BY <1>1, <1>4, <2>2, JoinIs DEF la, lb, ua, ub
<1>5. CASE ~(k \in First(n))
  <2>0. PICK j \in First(n) : j = k - n /\ n + j = k
    BY <1>5 DEF First
  <2>1. x = Value(s, w, ua[j]) /\ y = Value(s, w, ub[j])
    BY <1>2, <2>0 DEF ua, ub
  <2>2. div(s, w, ua, ub)[j] = Lane(w, Quotient(x, y)) /\ rem(s, w, ua, ub)[j] = Lane(w,
            Remainder(x, y))
    BY <1>3, <2>1, Zenon
  <2> QED BY <1>1, <1>5, <2>0, <2>2, JoinIs DEF la, lb, ua, ub
<1> QED BY <1>4, <1>5

\* The remainder is what the quotient leaves.
LEMMA RemainderIs ==
  ASSUME NEW x \in Int, NEW y \in Int, y # 0
  PROVE  Remainder(x, y) = x - y * Quotient(x, y)
<1>1. PICK X \in Nat : X = Magnitude(x) /\ (x < 0 => x = -X) /\ (~(x < 0) => x = X)
  BY DEF Magnitude
<1>2. PICK Y \in Nat : Y = Magnitude(y) /\ (y < 0 => y = -Y) /\ (~(y < 0) => y = Y) /\ Y > 0
  BY DEF Magnitude
<1>3. PICK r \in 0 .. Y - 1, q \in Int : r = X % Y /\ q = X \div Y /\ X = r + q * Y
  <2>1. Y > 0
    BY <1>2
  <2> QED BY <2>1, Divided
<1>4. Remainder(x, y) = IF x < 0 THEN -r ELSE r
  BY <1>1, <1>2, <1>3, Zenon DEF Remainder
<1>5. Quotient(x, y) = IF (x < 0) = (y < 0) THEN q ELSE -q
  BY <1>1, <1>2, <1>3, Zenon DEF Quotient
<1>6. PICK z \in Int : z = q * Y
  OBVIOUS
<1>7. (-Y) * q = -z /\ Y * q = z /\ Y * (-q) = -z /\ (-Y) * (-q) = z
  <2>1. (-Y) * q = -(q * Y) /\ Y * q = q * Y /\ Y * (-q) = -(q * Y) /\ (-Y) * (-q) = q * Y
    OBVIOUS
  <2> QED BY <1>6, <2>1
<1>8. X = r + z
  BY <1>3, <1>6
<1>9. CASE x < 0 /\ y < 0
  <2>1. x = -X /\ y = -Y /\ Remainder(x, y) = -r /\ Quotient(x, y) = q
    BY <1>1, <1>2, <1>4, <1>5, <1>9
  <2>2. y * Quotient(x, y) = -z
    BY <2>1, <1>7, Zenon
  <2> QED BY <1>8, <2>1, <2>2
<1>10. CASE x < 0 /\ ~(y < 0)
  <2>1. x = -X /\ y = Y /\ Remainder(x, y) = -r /\ Quotient(x, y) = -q
    BY <1>1, <1>2, <1>4, <1>5, <1>10
  <2>2. y * Quotient(x, y) = -z
    BY <2>1, <1>7, Zenon
  <2> QED BY <1>8, <2>1, <2>2
<1>11. CASE ~(x < 0) /\ y < 0
  <2>1. x = X /\ y = -Y /\ Remainder(x, y) = r /\ Quotient(x, y) = -q
    BY <1>1, <1>2, <1>4, <1>5, <1>11
  <2>2. y * Quotient(x, y) = z
    BY <2>1, <1>7, Zenon
  <2> QED BY <1>8, <2>1, <2>2
<1>12. CASE ~(x < 0) /\ ~(y < 0)
  <2>1. x = X /\ y = Y /\ Remainder(x, y) = r /\ Quotient(x, y) = q
    BY <1>1, <1>2, <1>4, <1>5, <1>12
  <2>2. y * Quotient(x, y) = z
    BY <2>1, <1>7, Zenon
  <2> QED BY <1>8, <2>1, <2>2
<1> QED BY <1>9, <1>10, <1>11, <1>12

\* The first of the two adjacent lanes an operation on pairs combines into lane k.
Place(n, k) == (k - (k % n)) + 2 * (k % (n \div 2))

\* It is a lane, and so is the next.
LEMMA PlaceIs ==
  ASSUME NEW n \in {4, 8}, NEW N \in {n, 2 * n}, NEW k \in First(N)
  PROVE  Place(n, k) \in First(N) /\ Place(n, k) + 1 \in First(N)
<1>1. CASE n = 4 /\ N = 4
  BY <1>1 DEF Place, First
<1>2. CASE n = 4 /\ N = 8
  BY <1>2 DEF Place, First
<1>3. CASE n = 8 /\ N = 8
  BY <1>3 DEF Place, First
<1>4. CASE n = 8 /\ N = 16
  BY <1>4 DEF Place, First
<1> QED BY <1>1, <1>2, <1>3, <1>4

\* The numbers an operation on pairs combines into lane k.
LeftOf(n, a, b, k) == IF k % n < n \div 2 THEN a[Place(n, k)] ELSE b[Place(n, k)]
RightOf(n, a, b, k) == IF k % n < n \div 2 THEN a[Place(n, k) + 1] ELSE b[Place(n, k) + 1]

SaturateSigned(w, i) == Saturate(TRUE, w, i)

-------------------------------------------------------------------------------
(***************************************************************************)
(* Operations on adjacent pairs.                                           *)
(***************************************************************************)

\* Operations on adjacent pairs.
LEMMA HorizontalIs ==
  ASSUME NEW w, NEW n, NEW a, NEW b, NEW k \in DOMAIN a
  PROVE  /\ hadd(w, n, a, b)[k] = Lane(w, LeftOf(n, a, b, k) + RightOf(n, a, b, k))
         /\ hsub(w, n, a, b)[k] = Lane(w, LeftOf(n, a, b, k) - RightOf(n, a, b, k))
         /\ hadds(w, n, a, b)[k] = SaturateSigned(w, AsSigned(w, LeftOf(n, a, b,
             k)) + AsSigned(w, RightOf(n, a, b, k)))
         /\ hsubs(w, n, a, b)[k] = SaturateSigned(w, AsSigned(w, LeftOf(n, a, b,
             k)) - AsSigned(w, RightOf(n, a, b, k)))
<1>0. PICK x, y : x = LeftOf(n, a, b, k) /\ y = RightOf(n, a, b, k)
  OBVIOUS
<1>1. CASE k % n < n \div 2
  <2>1. x = a[Place(n, k)] /\ y = a[Place(n, k) + 1]
    BY <1>0, <1>1, Zenon DEF LeftOf, RightOf
  <2> QED BY <1>0, <1>1, <2>1, Zenon DEF hadd, hsub, hadds, hsubs, Horizontal, Place,
     AsSigned, SaturateSigned
<1>2. CASE ~(k % n < n \div 2)
  <2>1. x = b[Place(n, k)] /\ y = b[Place(n, k) + 1]
    BY <1>0, <1>2, Zenon DEF LeftOf, RightOf
  <2> QED BY <1>0, <1>2, <2>1, Zenon DEF hadd, hsub, hadds, hsubs, Horizontal, Place,
     AsSigned, SaturateSigned
<1> QED BY <1>1, <1>2, Zenon

\* They are numbers of a lane.
LEMMA PairsType ==
  ASSUME NEW w, NEW n \in {4, 8}, NEW N \in {n, 2 * n},
         NEW a \in Register(w, N), NEW b \in Register(w, N), NEW k \in First(N)
  PROVE  LeftOf(n, a, b, k) \in Cells(w) /\ RightOf(n, a, b, k) \in Cells(w)
<1>1. N \in Nat
  OBVIOUS
<1>2. Place(n, k) \in First(N) /\ Place(n, k) + 1 \in First(N)
  BY PlaceIs
<1>3. \A j \in First(N) : a[j] \in Cells(w) /\ b[j] \in Cells(w)
  BY <1>1, LaneOfRegister
<1> QED BY <1>2, <1>3, Zenon DEF LeftOf, RightOf

\* On the values of the lanes.
LEMMA PairsAre ==
  ASSUME NEW w \in Nat \ {0}, NEW s, NEW n \in {4, 8}, NEW N \in {n, 2 * n},
         NEW a \in Register(w, N), NEW b \in Register(w, N), NEW k \in First(N),
         NEW x, NEW y, x = LeftOf(n, a, b, k), y = RightOf(n, a, b, k)
  PROVE  /\ hadd(w, n, a, b)[k] = Lane(w, Value(s, w, x) + Value(s, w, y))
         /\ hsub(w, n, a, b)[k] = Lane(w, Value(s, w, x) - Value(s, w, y))
<1>1. k \in DOMAIN a
  <2>1. N \in Nat
    OBVIOUS
  <2> QED BY <2>1, LaneOfRegister
<1>2. hadd(w, n, a, b)[k] = Lane(w, x + y) /\ hsub(w, n, a, b)[k] = Lane(w, x - y)
  BY <1>1, HorizontalIs
<1>3. x \in Cells(w) /\ y \in Cells(w)
  BY PairsType, Zenon
<1>4. /\ Lane(w, Value(s, w, x) + Value(s, w, y)) = Lane(w, x + y)
      /\ Lane(w, Value(s, w, x) - Value(s, w, y)) = Lane(w, x - y)
  BY <1>3, LaneOf
<1> QED BY <1>2, <1>4, Zenon

\* What is in the range of a type does not saturate.
LEMMA SaturateInRange ==
  ASSUME NEW w \in Nat \ {0}, NEW x \in Cells(w)
  PROVE  Saturate(FALSE, w, x) = x
<1>1. x \in Nat /\ x <= Ones(w) /\ Lowest(FALSE, w) = 0 /\ Highest(FALSE,
          w) = Ones(w) /\ Ones(w) \in Int
  BY Base DEF Cells, Ones, Lowest, Highest
<1>2. ~(x < 0) /\ ~(x > Ones(w))
  BY <1>1
<1>3. Saturate(FALSE, w, x) = Lane(w, x)
  BY <1>1, <1>2, Zenon DEF Saturate
<1>4. Lane(w, x) = x
  BY <1>1, LaneType
<1> QED BY <1>3, <1>4

\* A number of w bits is positive in a signed type of twice the width.
LEMMA PositiveWhenWide ==
  ASSUME NEW w \in Nat \ {0}, NEW x \in Cells(w)
  PROVE  x \in Cells(2 * w) /\ Value(TRUE, 2 * w, x) = x
<1>1. PICK S \in Nat, P \in Nat : S = SignBit(w) /\ P = 2 ^ w /\ S > 0 /\ P = 2 * S
  BY Base
<1>2. 2 ^ (2 * w) = P * P /\ SignBit(2 * w) = S * P
  BY <1>1, Base
<1>3. P <= S * P /\ S * P <= P * P
  BY <1>1
<1>4. x \in Nat /\ x < P
  BY <1>1 DEF Cells
<1>5. x < S * P /\ x < P * P /\ S * P \in Nat /\ P * P \in Nat
  BY <1>1, <1>3, <1>4
<1> QED BY <1>2, <1>4, <1>5 DEF Cells, Value

\* Saturating sums and differences of pairs of unsigned 16-bit lanes, packed from
\* those of the even lanes with the odd ones moved down.
LEMMA OddDownIs ==
  ASSUME NEW t, t.w \in Nat \ {0}, NEW m \in Nat, NEW v \in Register(t.w, 2 * m)
  PROVE  /\ OddDown(t, v) \in Register(t.w, 2 * m)
         /\ \A j \in First(m) : OddDown(t, v)[2 * j] = v[2 * j + 1]
<1> DEFINE w == t.w
           A == wide(w, v)
           SA == srli(2 * w, A, w)
<1>w. 2 * w \in Nat \ {0} /\ ~(w >= 2 * w) /\ w \in Nat /\ w \in Nat \ {0}
  OBVIOUS
<1>1. OddDown(t, v) = narrow(w, SA)
  BY DEF OddDown
<1> HIDE DEF w
<1>2. A \in Register(2 * w, m) /\ \A j \in First(m) : A[j] = v[2 * j] + 2 ^ w * v[2 * j + 1]
  BY <1>w, WideIs DEF w
<1> HIDE DEF A
<1>3. SA \in Register(2 * w, m) /\ \A j \in First(m) : SA[j] = A[j] \div 2 ^ w
  BY <1>w, <1>2, ShiftIs
<1> HIDE DEF SA
<1>4. /\ narrow(w, SA) \in Register(w, 2 * m)
      /\ \A j \in First(m) : narrow(w, SA)[2 * j] = SA[j] % 2 ^ w
  BY <1>w, <1>3, NarrowIs
<1>5. ASSUME NEW j \in First(m)
      PROVE  narrow(w, SA)[2 * j] = v[2 * j + 1]
  <2>1. v[2 * j] \in Cells(w) /\ v[2 * j + 1] \in Cells(w)
    BY Pairs, LaneOfRegister, 2 * m \in Nat DEF w
  <2>2. PICK x, y \in Cells(w) : x = v[2 * j] /\ y = v[2 * j + 1]
    BY <2>1
  <2>3. (x + 2 ^ w * y) \div 2 ^ w = y
    BY <1>w, TwoCells
  <2>4. SA[j] = y
    BY <1>2, <1>3, <2>2, <2>3, Zenon
  <2>5. y % 2 ^ w = y
    <3>1. w \in Nat /\ y \in Int
      BY <1>w DEF Cells
    <3>2. Lane(w, y) = y
      BY <3>1, LaneType, Zenon
    <3> QED BY <3>2 DEF Lane
  <2> QED BY <1>4, <2>2, <2>4, <2>5, Zenon
<1> QED BY <1>1, <1>4, <1>5 DEF w

\* Where the lanes of a packed register of sixteen bits come from.
LEMMA PlaceOfEight ==
  ASSUME NEW M \in {4, 8}, NEW k \in First(2 * M)
  PROVE  \E i \in First(M) : /\ Place(8, k) = 2 * i
                             /\ k % 8 < 4 => i = (k \div 8) * 4 + (k % 8)
                             /\ ~(k % 8 < 4) => i = (k \div 8) * 4 + (k % 8) - 4
                             /\ k \div (2 * 4) = k \div 8 /\ k % (2 * 4) = k % 8
<1> DEFINE i == Place(8, k) \div 2
<1>1. CASE M = 4
  <2>1. i \in First(M) /\ Place(8, k) = 2 * i
    BY <1>1 DEF Place, First
  <2>2. /\ k % 8 < 4 => i = (k \div 8) * 4 + (k % 8)
        /\ ~(k % 8 < 4) => i = (k \div 8) * 4 + (k % 8) - 4
    BY <1>1 DEF Place, First
  <2> QED BY <2>1, <2>2
<1>2. CASE M = 8
  <2>1. i \in First(M) /\ Place(8, k) = 2 * i
    BY <1>2 DEF Place, First
  <2>2. /\ k % 8 < 4 => i = (k \div 8) * 4 + (k % 8)
        /\ ~(k % 8 < 4) => i = (k \div 8) * 4 + (k % 8) - 4
    BY <1>2 DEF Place, First
  <2> QED BY <2>1, <2>2
<1> QED BY <1>1, <1>2

\* A lane of a packed register is a lane of an operand, saturated.
LEMMA PacksIs ==
  ASSUME NEW s, NEW w \in Nat, NEW M \in {4, 8}, NEW a \in Register(2 * w, M), NEW b,
         NEW k \in First(2 * M), NEW i \in First(M), Place(8, k) = 2 * i
  PROVE  packs(s, w, 4, a, b)[k] = Saturate(s, w, AsSigned(2 * w,
             IF k % 8 < 4 THEN a[i] ELSE b[i]))
<1>1. LanesOf(a) = M
  <2>1. M \in Nat
    OBVIOUS
  <2> QED BY <2>1, LaneOfRegister
<1>2. PICK j \in First(M) : /\ Place(8, k) = 2 * j
                            /\ k % 8 < 4 => j = (k \div 8) * 4 + (k % 8)
                            /\ ~(k % 8 < 4) => j = (k \div 8) * 4 + (k % 8) - 4
                            /\ k \div (2 * 4) = k \div 8 /\ k % (2 * 4) = k % 8
  BY PlaceOfEight
<1>3. i = j
  BY <1>2 DEF First
<1>4. packs(s, w, 4, a, b)[k]
        = Saturate(s, w, AsSigned(2 * w, IF k % 8 < 4 THEN a[(k \div 8) * 4 + (k % 8)]
                                                      ELSE b[(k \div 8) * 4 + (k % 8) - 4]))
  BY <1>1, <1>2, Zenon DEF packs, AsSigned
<1>5. CASE k % 8 < 4
  BY <1>2, <1>3, <1>4, <1>5, Zenon
<1>6. CASE ~(k % 8 < 4)
  BY <1>2, <1>3, <1>4, <1>6, Zenon
<1> QED BY <1>5, <1>6, Zenon

\* The even lanes, packed: nothing saturates any more.
LEMMA PackPairsIs ==
  ASSUME NEW t, t.w \in Nat \ {0}, t.n = 8, NEW M \in {4, 8},
         NEW a \in Register(t.w, 2 * M), NEW b \in Register(t.w, 2 * M), NEW k \in First(2 * M)
  PROVE  pack_pairs(t, a, b)[k] = LeftOf(8, a, b, k)
<1> DEFINE w == t.w
           zeroed(v) == [j \in DOMAIN v |-> IF j % 2 = 1 THEN 0 ELSE v[j]]
           even(v) == wide(w, zeroed(v))
<1>w. w \in Nat \ {0} /\ w \in Nat /\ M \in Nat /\ 2 * M \in Nat /\ 8 \div 2 = 4
  OBVIOUS
<1>f. PICK u : u = FALSE
  BY Zenon
<1>1. pack_pairs(t, a, b) = packs(u, w, 4, even(a), even(b))
  BY <1>f, <1>w, Zenon DEF pack_pairs
<1> HIDE DEF w
<1>2. ASSUME NEW v \in Register(w, 2 * M)
      PROVE  even(v) \in Register(2 * w, M) /\ \A i \in First(M) : even(v)[i] = v[2 * i]
  <2>1. DOMAIN v = First(2 * M) /\ \A j \in First(2 * M) : v[j] \in Cells(w) /\ 0 \in Cells(w)
    BY <1>w, LaneOfRegister DEF Cells
  <2>2. zeroed(v) = [j \in First(2 * M) |-> IF j % 2 = 1 THEN 0 ELSE v[j]]
    BY <2>1
  <2>3. zeroed(v) \in Register(w, 2 * M)
    BY <2>1, <2>2 DEF Register
  <2>4. ASSUME NEW i \in First(M)
        PROVE  zeroed(v)[2 * i] = v[2 * i] /\ zeroed(v)[2 * i + 1] = 0
    <3>1. /\ 2 * i \in First(2 * M) /\ ~((2 * i) % 2 = 1)
          /\ 2 * i + 1 \in First(2 * M) /\ (2 * i + 1) % 2 = 1
      BY <1>w, Pairs
    <3> QED BY <2>2, <3>1, Zenon
  <2> HIDE DEF zeroed
  <2>5. /\ even(v) \in Register(2 * w, M)
        /\ \A i \in First(M) : even(v)[i] = zeroed(v)[2 * i] + 2 ^ w * zeroed(v)[2 * i + 1]
    BY <1>w, <2>3, WideIs
  <2>6. \A i \in First(M) : v[2 * i] + 2 ^ w * 0 = v[2 * i]
    <3> TAKE i \in First(M)
    <3>1. v[2 * i] \in Int
      BY <1>w, <2>1, Pairs DEF Cells
    <3>2. 2 ^ w \in Int
      BY <1>w, Base
    <3> QED BY <3>1, <3>2
  <2> QED BY <2>4, <2>5, <2>6, Zenon
<1>p. PICK i \in First(M) : Place(8, k) = 2 * i
  BY PlaceOfEight
<1>3. packs(u, w, 4, even(a), even(b))[k]
        = Saturate(u, w, AsSigned(2 * w, IF k % 8 < 4 THEN even(a)[i] ELSE even(b)[i]))
  <2>1. even(a) \in Register(2 * w, M)
    BY <1>2 DEF w
  <2>4. PICK y : y = even(b)
    BY Zenon
  <2>2. PICK x \in Register(2 * w, M) : x = even(a) /\ y = even(b)
    BY <2>1, <2>4, Zenon
  <2>3. packs(u, w, 4, x, y)[k] = Saturate(u, w, AsSigned(2 * w,
            IF k % 8 < 4 THEN x[i] ELSE y[i]))
    BY <1>w, <1>p, PacksIs
  <2> QED BY <2>2, <2>3, Zenon
<1>4. even(a)[i] = a[Place(8, k)] /\ even(b)[i] = b[Place(8, k)]
  BY <1>2, <1>p DEF w
<1>5. \A x \in Cells(w) : Saturate(u, w, AsSigned(2 * w, x)) = x
  BY <1>f, <1>w, SaturateInRange, PositiveWhenWide, Zenon DEF AsSigned
<1>6. a[Place(8, k)] \in Cells(w) /\ b[Place(8, k)] \in Cells(w)
  <2>1. 2 * i \in First(2 * M)
    BY <1>w, Pairs
  <2> QED BY <1>w, <1>p, <2>1, LaneOfRegister DEF w
<1> HIDE DEF even
<1>7. CASE k % 8 < 4
  BY <1>1, <1>3, <1>4, <1>5, <1>6, <1>7, <1>w, Zenon DEF LeftOf
<1>8. CASE ~(k % 8 < 4)
  BY <1>1, <1>3, <1>4, <1>5, <1>6, <1>8, <1>w, Zenon DEF LeftOf
<1> QED BY <1>7, <1>8, Zenon

\* Registers keep saturating sums and differences.
LEMMA SaturatingType ==
  ASSUME NEW w \in Nat \ {0}, NEW s, NEW n \in Nat, NEW a \in Register(w, n),
             NEW b \in Register(w, n)
  PROVE  adds(s, w, a, b) \in Register(w, n) /\ subs(s, w, a, b) \in Register(w, n)
<1>1. DOMAIN a = First(n) /\ \A k \in First(n) : a[k] \in Cells(w) /\ b[k] \in Cells(w)
  BY LaneOfRegister
<1>2. \A k \in First(n) :
        /\ Saturate(s, w, Value(s, w, a[k]) + Value(s, w, b[k])) \in Cells(w)
        /\ Saturate(s, w, Value(s, w, a[k]) - Value(s, w, b[k])) \in Cells(w)
  <2> TAKE k \in First(n)
  <2>1. PICK x, y \in Int : x = Value(s, w, a[k]) /\ y = Value(s, w, b[k])
    BY <1>1, ValueIs
  <2>2. Saturate(s, w, x + y) \in Cells(w) /\ Saturate(s, w, x - y) \in Cells(w)
    BY SaturateType, x + y \in Int, x - y \in Int
  <2> QED BY <2>1, <2>2, Zenon
<1>3. /\ adds(s, w, a, b) = [k \in First(n) |-> Saturate(s, w, Value(s, w, a[k]) + Value(s,
          w, b[k]))]
      /\ subs(s, w, a, b) = [k \in First(n) |-> Saturate(s, w, Value(s, w, a[k]) - Value(s,
          w, b[k]))]
  BY <1>1, Zenon DEF adds, subs, Zip
<1> QED BY <1>2, <1>3, Zenon DEF Register

\* Saturating sums and differences of pairs, of unsigned 16-bit lanes.
SaturateUnsigned(w, i) == Saturate(FALSE, w, i)

\* Unsigned 16-bit pairs: added in twice the width, and packed with saturation.
LEMMA PairsEpu16 ==
  ASSUME NEW t, t.w \in Nat \ {0}, t.n = 8, NEW M \in {4, 8},
         NEW a \in Register(t.w, 2 * M), NEW b \in Register(t.w, 2 * M), NEW k \in First(2 * M)
  PROVE  /\ hadd_saturated_epu16(t, a, b)[k]
              = SaturateUnsigned(t.w, LeftOf(8, a, b, k) + RightOf(8, a, b, k))
         /\ hsubtract_saturated_epu16(t, a, b)[k]
              = SaturateUnsigned(t.w, LeftOf(8, a, b, k) - RightOf(8, a, b, k))
<1>u. PICK u : u = FALSE
  BY Zenon
<1>w. PICK w \in Nat \ {0}, K \in Nat : w = t.w /\ K = 2 * M
  OBVIOUS
<1>a. a \in Register(w, K) /\ b \in Register(w, K)
  BY <1>w
<1>1. /\ hadd_saturated_epu16(t, a, b) = pack_pairs(t, adds(u, w, a, OddDown(t, a)), adds(u,
          w, b, OddDown(t, b)))
      /\ hsubtract_saturated_epu16(t, a, b) = pack_pairs(t, subs(u, w, a, OddDown(t, a)),
          subs(u, w, b, OddDown(t, b)))
  BY <1>u, <1>w, Zenon DEF hadd_saturated_epu16, hsubtract_saturated_epu16
<1>2. PICK c, d \in Register(w, K) :
         /\ c = OddDown(t, a) /\ d = OddDown(t, b)
         /\ \A j \in First(M) : c[2 * j] = a[2 * j + 1] /\ d[2 * j] = b[2 * j + 1]
  BY <1>w, OddDownIs
<1>3. PICK i \in First(M) : Place(8, k) = 2 * i
  BY PlaceOfEight
<1>4. PICK j \in First(K) : j = 2 * i
  BY <1>w, Pairs
<1>5. /\ adds(u, w, a, c) \in Register(w, K) /\ adds(u, w, b, d) \in Register(w, K)
      /\ subs(u, w, a, c) \in Register(w, K) /\ subs(u, w, b, d) \in Register(w, K)
  BY <1>a, SaturatingType
<1>6. /\ hadd_saturated_epu16(t, a, b)[k] = LeftOf(8, adds(u, w, a, c), adds(u, w, b, d), k)
      /\ hsubtract_saturated_epu16(t, a, b)[k] = LeftOf(8, subs(u, w, a, c), subs(u, w, b,
          d), k)
  <2>1. \A x, y \in Register(w, K) : pack_pairs(t, x, y)[k] = LeftOf(8, x, y, k)
    BY <1>w, PackPairsIs
  <2>2. /\ pack_pairs(t, adds(u, w, a, c), adds(u, w, b, d))[k] = LeftOf(8, adds(u, w, a, c),
            adds(u, w, b, d), k)
        /\ pack_pairs(t, subs(u, w, a, c), subs(u, w, b, d))[k] = LeftOf(8, subs(u, w, a, c),
            subs(u, w, b, d), k)
    BY <1>5, <2>1, Zenon
  <2> QED BY <1>1, <1>2, <2>2, Zenon
<1>7. ASSUME NEW x \in Register(w, K), NEW y \in Register(w, K)
      PROVE  /\ adds(u, w, x, y)[j] = Saturate(u, w, x[j] + y[j])
             /\ subs(u, w, x, y)[j] = Saturate(u, w, x[j] - y[j])
  <2>1. /\ adds(u, w, x, y)[j] = Saturate(u, w, Value(u, w, x[j]) + Value(u, w, y[j]))
        /\ subs(u, w, x, y)[j] = Saturate(u, w, Value(u, w, x[j]) - Value(u, w, y[j]))
    BY SaturatingAre
  <2>2. \A z : Value(u, w, z) = z
    BY <1>u, Zenon DEF Value
  <2> QED BY <2>1, <2>2, Zenon
<1>8. c[j] = a[2 * i + 1] /\ d[j] = b[2 * i + 1]
  BY <1>2, <1>4
<1>b. /\ adds(u, w, a, c)[j] = Saturate(u, w, a[j] + c[j])
      /\ subs(u, w, a, c)[j] = Saturate(u, w, a[j] - c[j])
      /\ adds(u, w, b, d)[j] = Saturate(u, w, b[j] + d[j])
      /\ subs(u, w, b, d)[j] = Saturate(u, w, b[j] - d[j])
  BY <1>a, <1>7
<1>9. CASE k % 8 < 8 \div 2
  <2>0. \A x : Saturate(u, w, x) = SaturateUnsigned(t.w, x)
    BY <1>u, <1>w, Zenon DEF SaturateUnsigned
  <2>1. LeftOf(8, a, b, k) = a[j] /\ RightOf(8, a, b, k) = a[2 * i + 1]
    BY <1>3, <1>4, <1>9, Zenon DEF LeftOf, RightOf
  <2>2. \A x, y : LeftOf(8, x, y, k) = x[j]
    BY <1>3, <1>4, <1>9, Zenon DEF LeftOf
  <2>3. hadd_saturated_epu16(t, a, b)[k] = Saturate(u, w, a[j] + c[j])
    BY <1>6, <1>b, <2>2
  <2>4. hsubtract_saturated_epu16(t, a, b)[k] = Saturate(u, w, a[j] - c[j])
    BY <1>6, <1>b, <2>2
  <2> QED BY <1>8, <2>0, <2>1, <2>3, <2>4, Zenon
<1>10. CASE ~(k % 8 < 8 \div 2)
  <2>0. \A x : Saturate(u, w, x) = SaturateUnsigned(t.w, x)
    BY <1>u, <1>w, Zenon DEF SaturateUnsigned
  <2>1. LeftOf(8, a, b, k) = b[j] /\ RightOf(8, a, b, k) = b[2 * i + 1]
    BY <1>3, <1>4, <1>10, Zenon DEF LeftOf, RightOf
  <2>2. \A x, y : LeftOf(8, x, y, k) = y[j]
    BY <1>3, <1>4, <1>10, Zenon DEF LeftOf
  <2>3. hadd_saturated_epu16(t, a, b)[k] = Saturate(u, w, b[j] + d[j])
    BY <1>6, <1>b, <2>2
  <2>4. hsubtract_saturated_epu16(t, a, b)[k] = Saturate(u, w, b[j] - d[j])
    BY <1>6, <1>b, <2>2
  <2> QED BY <1>8, <2>0, <2>1, <2>3, <2>4, Zenon
<1> QED BY <1>9, <1>10, Zenon

-------------------------------------------------------------------------------
(***************************************************************************)
(* Products in twice the width, and their saturation.                      *)
(***************************************************************************)

\* Values carried over to lanes of twice the width.
LEMMA CvtIs ==
  ASSUME NEW w \in Nat \ {0}, NEW s, NEW n \in Nat, NEW a \in Register(w, n)
  PROVE  /\ cvt(s, w, a) \in Register(2 * w, n)
         /\ \A k \in First(n) : cvt(s, w, a)[k] = Lane(2 * w, Value(s, w, a[k]))
<1>1. DOMAIN a = First(n) /\ \A k \in First(n) : a[k] \in Cells(w)
  BY LaneOfRegister
<1>2. cvt(s, w, a) = [k \in First(n) |-> Lane(2 * w, Value(s, w, a[k]))]
  BY <1>1, Zenon DEF cvt, Each
<1>3. \A k \in First(n) : Lane(2 * w, Value(s, w, a[k])) \in Cells(2 * w)
  BY <1>1, ValueIs, LaneType, 2 * w \in Nat
<1> QED BY <1>2, <1>3 DEF Register

\* Their products, the same in either order of extension and multiplication.
LEMMA WideProduct ==
  ASSUME NEW v \in Nat \ {0}, NEW x \in Int, NEW y \in Int
  PROVE  Lane(v, Lane(v, x) * Lane(v, y)) = Lane(v, x * y)
<1>0. v \in Nat
  OBVIOUS
<1>1. PICK P \in Nat : P = 2 ^ v /\ P > 0
  BY Base
<1>2. PICK p \in Int : Lane(v, x) = x + p * P
  BY <1>0, <1>1, LaneShift
<1>3. PICK q \in Int : Lane(v, y) = y + q * P
  BY <1>0, <1>1, LaneShift
<1>4. (x + p * P) * (y + q * P) = x * y + (x * q + p * y + p * q * P) * P
  OBVIOUS
<1>5. PICK r \in Int, z \in Int : r = x * q + p * y + p * q * P /\ z = x * y
  OBVIOUS
<1>6. Lane(v, z + r * P) = Lane(v, z)
  BY <1>0, <1>1, LaneShift
<1> QED BY <1>2, <1>3, <1>4, <1>5, <1>6, Zenon

\* A lane keeps the sum of what two lanes kept.
LEMMA WideSum ==
  ASSUME NEW v \in Nat, NEW x \in Int, NEW y \in Int
  PROVE  Lane(v, Lane(v, x) + Lane(v, y)) = Lane(v, x + y)
<1>1. PICK P \in Nat : P = 2 ^ v
  BY Power
<1>2. PICK p \in Int : Lane(v, x) = x + p * P
  BY <1>1, LaneShift
<1>3. PICK q \in Int : Lane(v, y) = y + q * P
  BY <1>1, LaneShift
<1>4. (x + p * P) + (y + q * P) = (x + y) + (p + q) * P
  OBVIOUS
<1>5. PICK r \in Int, z \in Int : r = p + q /\ z = x + y
  OBVIOUS
<1>6. Lane(v, z + r * P) = Lane(v, z)
  BY <1>1, LaneShift
<1> QED BY <1>2, <1>3, <1>4, <1>5, <1>6, Zenon

\* Values carried over and multiplied.
LEMMA CvtProduct ==
  ASSUME NEW w \in Nat \ {0}, NEW s, NEW n \in Nat, NEW a \in Register(w, n),
             NEW b \in Register(w, n)
  PROVE  /\ mullo(2 * w, cvt(s, w, a), cvt(s, w, b)) \in Register(2 * w, n)
         /\ \A k \in First(n) : mullo(2 * w, cvt(s, w, a), cvt(s, w, b))[k]
                                  = Lane(2 * w, Value(s, w, a[k]) * Value(s, w, b[k]))
<1> DEFINE A == cvt(s, w, a)
           B == cvt(s, w, b)
<1>w. 2 * w \in Nat \ {0}
  OBVIOUS
<1>1. /\ A \in Register(2 * w, n) /\ B \in Register(2 * w, n)
      /\ \A k \in First(n) : /\ A[k] = Lane(2 * w, Value(s, w, a[k]))
                             /\ B[k] = Lane(2 * w, Value(s, w, b[k]))
  BY CvtIs
<1> HIDE DEF A, B
<1>2. /\ mullo(2 * w, A, B) \in Register(2 * w, n)
      /\ \A k \in First(n) : mullo(2 * w, A, B)[k] = Lane(2 * w, A[k] * B[k])
  BY <1>w, <1>1, AddIs
<1>3. ASSUME NEW k \in First(n)
      PROVE  Lane(2 * w, A[k] * B[k]) = Lane(2 * w, Value(s, w, a[k]) * Value(s, w, b[k]))
  <2>1. PICK x, y \in Int : x = Value(s, w, a[k]) /\ y = Value(s, w, b[k])
    BY LaneOfRegister, ValueIs
  <2>2. Lane(2 * w, Lane(2 * w, x) * Lane(2 * w, y)) = Lane(2 * w, x * y)
    BY <1>w, WideProduct
  <2> QED BY <1>1, <2>1, <2>2, Zenon
<1> QED BY <1>2, <1>3, Zenon DEF A, B

\* A lane keeps a number in the signed range.
LEMMA SignedOfLane ==
  ASSUME NEW v \in Nat \ {0}, NEW z \in Int, z >= -SignBit(v), z < SignBit(v)
  PROVE  AsSigned(v, Lane(v, z)) = z
<1>0. v \in Nat
  OBVIOUS
<1>1. PICK S \in Nat, P \in Nat : S = SignBit(v) /\ P = 2 ^ v /\ S > 0 /\ P = 2 * S
  BY Base
<1>2. CASE z >= 0
  <2>1. z \in Cells(v) /\ ~(z >= S)
    BY <1>1, <1>2 DEF Cells
  <2>2. Lane(v, z) = z
    BY <1>0, <2>1, LaneType
  <2> QED BY <1>1, <2>1, <2>2, SignedIs
<1>3. CASE z < 0
  <2>1. PICK y \in Cells(v) : y = z + 1 * P /\ y >= S /\ y - P = z
    BY <1>1, <1>3 DEF Cells
  <2>2. Lane(v, y) = y
    BY <1>0, <2>1, LaneType DEF Cells
  <2>3. Lane(v, z + 1 * 2 ^ v) = Lane(v, z)
    BY <1>0, LaneShift, 1 \in Int
  <2>4. Lane(v, z) = y
    BY <1>1, <2>1, <2>2, <2>3, Zenon
  <2> QED BY <1>1, <2>1, <2>4, SignedIs
<1> QED BY <1>2, <1>3

\* The product of two signed values is far from the end of the signed range of
\* twice the width; that of unsigned ones is not negative.
LEMMA ProductRange ==
  ASSUME NEW w \in Nat \ {0}, NEW s \in BOOLEAN, NEW a \in Cells(w), NEW b \in Cells(w)
  PROVE  /\ Value(s, w, a) * Value(s, w, b) \in Int
         /\ Value(s, w, a) * Value(s, w, b) >= -SignBit(2 * w)
         /\ s => Value(s, w, a) * Value(s, w, b) < SignBit(2 * w)
<1>1. PICK S \in Nat, P \in Nat : S = SignBit(w) /\ P = 2 ^ w /\ S > 0 /\ P = 2 * S
  BY Base
<1>2. SignBit(2 * w) = S * P
  BY <1>1, Base
<1>3. CASE s
  <2>1. PICK x, y \in Int : /\ x = Value(s, w, a) /\ y = Value(s, w, b)
                            /\ x >= -S /\ x < S /\ y >= -S /\ y < S
    <3>1. PICK x, y \in Int : x = AsSigned(w, a) /\ y = AsSigned(w, b)
      BY SignedIs
    <3>2. x >= -S /\ x < S /\ y >= -S /\ y < S
      BY <1>1, <3>1, SignedIs
    <3>3. x = Value(s, w, a) /\ y = Value(s, w, b)
      BY <1>3, <3>1, Zenon DEF AsSigned
    <3> QED BY <3>2, <3>3, Zenon
  <2>2. x * y <= S * S /\ x * y >= -(S * S)
    <3>1. CASE x >= 0 /\ y >= 0
      <4>1. x * y <= S * y /\ S * y <= S * S /\ x * y >= 0 /\ S * S >= 0
        BY <2>1, <3>1
      <4> QED BY <4>1
    <3>2. CASE x >= 0 /\ y < 0
      <4>1. x * y >= S * y /\ S * y >= -(S * S) /\ x * y <= 0 /\ S * S >= 0
        BY <2>1, <3>2
      <4> QED BY <4>1
    <3>3. CASE x < 0 /\ y >= 0
      <4>1. x * y >= x * S /\ x * S >= -(S * S) /\ x * y <= 0 /\ S * S >= 0
        BY <2>1, <3>3
      <4> QED BY <4>1
    <3>4. CASE x < 0 /\ y < 0
      <4>1. x * y = (-x) * (-y) /\ (-x) * (-y) <= S * (-y) /\ S * (-y) <= S * S /\
                (-x) * (-y) >= 0
        BY <2>1, <3>4
      <4>2. S * S >= 0
        OBVIOUS
      <4> QED BY <4>1, <4>2
    <3> QED BY <3>1, <3>2, <3>3, <3>4
  <2>3. S * P = 2 * (S * S) /\ S * S > 0
    BY <1>1
  <2>4. PICK z \in Int, q \in Int : z = x * y /\ q = S * S
    OBVIOUS
  <2>5. z >= -(S * P) /\ z < S * P
    BY <2>2, <2>3, <2>4
  <2> QED BY <1>2, <2>1, <2>4, <2>5, Zenon
<1>4. CASE ~s
  <2>1. PICK x, y \in Nat : x = Value(s, w, a) /\ y = Value(s, w, b)
    <3>1. a \in Nat /\ b \in Nat
      BY DEF Cells
    <3>2. Value(s, w, a) = a /\ Value(s, w, b) = b
      BY <1>4, Zenon DEF Value
    <3> QED BY <3>1, <3>2, Zenon
  <2>2. PICK z \in Int, q \in Int : z = x * y /\ q = S * P
    OBVIOUS
  <2>3. x * y >= 0 /\ S * P >= 0
    OBVIOUS
  <2>4. z >= -q
    BY <2>2, <2>3
  <2> QED BY <1>2, <1>4, <2>1, <2>2, <2>4, Zenon
<1> QED BY <1>3, <1>4, Zenon

\* Saturating products of 16-bit lanes.
LEMMA Multiply128 ==
  ASSUME NEW t, t.w \in Nat \ {0}, t.n = 8, NEW a \in Register(t.w, 8),
             NEW b \in Register(t.w, 8),
         NEW k \in First(8), NEW z \in Int, z = Value(t.s, t.w, a[k]) * Value(t.s, t.w, b[k]),
         z >= -SignBit(2 * t.w), z < SignBit(2 * t.w)
  PROVE  multiply_saturated_128(t, a, b)[k] = Saturate(t.s, t.w, z)
<1>s. PICK s : s = t.s
  BY Zenon
<1>w. PICK w \in Nat \ {0} : w = t.w /\ s = t.s
  BY <1>s, Zenon
<1> DEFINE P(v, u) == mullo(2 * w, cvt(s, w, v), cvt(s, w, u))
<1>1. multiply_saturated_128(t, a, b) = packs(s, w, 4, P(lower(4, a), lower(4, b)),
          P(upper(4, a), upper(4, b)))
  <2>1. t.n \div 2 = 4
    OBVIOUS
  <2> QED BY <1>w, <2>1, Zenon DEF multiply_saturated_128
<1>2. a \in Register(w, 2 * 4) /\ b \in Register(w, 2 * 4)
  BY <1>w
<1>3. PICK la, lb, ua, ub \in Register(w, 4) :
        /\ la = lower(4, a) /\ lb = lower(4, b) /\ ua = upper(4, a) /\ ub = upper(4, b)
        /\ \A j \in First(4) : la[j] = a[j] /\ lb[j] = b[j] /\ ua[j] = a[4 + j] /\ ub[j]
            = b[4 + j]
  BY <1>2, HalvesAre, 4 \in Nat
<1>4. ASSUME NEW v \in Register(w, 4), NEW u \in Register(w, 4)
      PROVE  /\ P(v, u) \in Register(2 * w, 4)
             /\ \A j \in First(4) : P(v, u)[j] = Lane(2 * w, Value(s, w, v[j]) * Value(s, w,
                 u[j]))
  BY CvtProduct, 4 \in Nat
<1> HIDE DEF P
<1>5. PICK x, y \in Register(2 * w, 4) : x = P(la, lb) /\ y = P(ua, ub)
  BY <1>4
<1>6. multiply_saturated_128(t, a, b)[k] = packs(s, w, 4, x, y)[k]
  BY <1>1, <1>3, <1>5, Zenon
<1>7. PICK i \in First(4) : Place(8, k) = 2 * i /\ (k % 8 < 4 => i = k) /\ (~(k % 8 < 4) =>
          4 + i = k)
  <2>1. PICK i \in First(4) : Place(8, k) = 2 * i
    BY PlaceOfEight, 4 \in {4, 8}, k \in First(2 * 4)
  <2>2. (k % 8 < 4 => i = k) /\ (~(k % 8 < 4) => 4 + i = k)
    BY <2>1 DEF Place, First
  <2> QED BY <2>1, <2>2
<1>8. packs(s, w, 4, x, y)[k] = Saturate(s, w, AsSigned(2 * w,
          IF k % 8 < 4 THEN x[i] ELSE y[i]))
  <2>1. PICK M \in {4, 8} : M = 4
    OBVIOUS
  <2>2. x \in Register(2 * w, M) /\ k \in First(2 * M) /\ i \in First(M) /\ w \in Nat
    BY <2>1
  <2>3. Place(8, k) = 2 * i
    BY <1>7
  <2> QED BY <2>2, <2>3, PacksIs
<1>9. AsSigned(2 * w, Lane(2 * w, z)) = z
  BY <1>w, SignedOfLane, 2 * w \in Nat \ {0}
<1>10. CASE k % 8 < 4
  <2>1. x[i] = Lane(2 * w, Value(s, w, la[i]) * Value(s, w,
            lb[i])) /\ la[i] = a[k] /\ lb[i] = b[k]
    BY <1>3, <1>4, <1>5, <1>7, <1>10, Zenon
  <2>2. x[i] = Lane(2 * w, z)
    BY <1>w, <2>1, Zenon
  <2> QED BY <1>w, <1>6, <1>8, <1>9, <1>10, <2>2, Zenon
<1>11. CASE ~(k % 8 < 4)
  <2>1. y[i] = Lane(2 * w, Value(s, w, ua[i]) * Value(s, w,
            ub[i])) /\ ua[i] = a[4 + i] /\ ub[i] = b[4 + i]
    BY <1>3, <1>4, <1>5, Zenon
  <2>2. y[i] = Lane(2 * w, z)
    BY <1>w, <1>7, <1>11, <2>1, Zenon
  <2> QED BY <1>w, <1>6, <1>8, <1>9, <1>11, <2>2, Zenon
<1> QED BY <1>10, <1>11, Zenon

\* The same of the two halves of 256 bits, joined again.
LEMMA Multiply256 ==
  ASSUME NEW t, t.w \in Nat \ {0}, t.n = 8, NEW a \in Register(t.w, 16),
             NEW b \in Register(t.w, 16),
         NEW k \in First(16), NEW z \in Int, z = Value(t.s, t.w, a[k]) * Value(t.s, t.w, b[k]),
         z >= -SignBit(2 * t.w), z < SignBit(2 * t.w)
  PROVE  multiply_saturated_256(t, a, b)[k] = Saturate(t.s, t.w, z)
<1>s. PICK s : s = t.s
  BY Zenon
<1>w. PICK w \in Nat \ {0} : w = t.w /\ s = t.s
  BY <1>s, Zenon
<1>2. a \in Register(w, 2 * 8) /\ b \in Register(w, 2 * 8)
  BY <1>w
<1>3. PICK la, lb, ua, ub \in Register(w, 8) :
        /\ la = lower(8, a) /\ lb = lower(8, b) /\ ua = upper(8, a) /\ ub = upper(8, b)
        /\ \A j \in First(8) : la[j] = a[j] /\ lb[j] = b[j] /\ ua[j] = a[8 + j] /\ ub[j]
            = b[8 + j]
  BY <1>2, HalvesAre, 8 \in Nat
<1>1. multiply_saturated_256(t, a, b)
        = join(8, multiply_saturated_128(t, la, lb), multiply_saturated_128(t, ua, ub))
  BY <1>3, Zenon DEF multiply_saturated_256, Halves
<1>6. /\ k \in First(8) => join(8, multiply_saturated_128(t, la, lb),
          multiply_saturated_128(t, ua, ub))[k]
                               = multiply_saturated_128(t, la, lb)[k]
      /\ ~(k \in First(8)) => join(8, multiply_saturated_128(t, la, lb),
          multiply_saturated_128(t, ua, ub))[k]
                               = multiply_saturated_128(t, ua, ub)[k - 8]
  <2>1. PICK lo, hi : lo = multiply_saturated_128(t, la,
            lb) /\ hi = multiply_saturated_128(t, ua, ub)
    BY Zenon
  <2>2. /\ k \in First(8) => join(8, lo, hi)[k] = lo[k]
        /\ ~(k \in First(8)) => join(8, lo, hi)[k] = hi[k - 8]
    BY JoinIs, 8 \in Nat, k \in First(2 * 8)
  <2> QED BY <2>1, <2>2, Zenon
<1>4. CASE k \in First(8)
  <2>1. multiply_saturated_256(t, a, b)[k] = multiply_saturated_128(t, la, lb)[k]
    BY <1>1, <1>4, <1>6, Zenon
  <2>2. z = Value(t.s, t.w, la[k]) * Value(t.s, t.w, lb[k])
    BY <1>3, <1>4
  <2>3. multiply_saturated_128(t, la, lb)[k] = Saturate(t.s, t.w, z)
    BY <1>w, <1>4, <2>2, Multiply128
  <2> QED BY <2>1, <2>3
<1>5. CASE ~(k \in First(8))
  <2>0. PICK j \in First(8) : j = k - 8 /\ 8 + j = k
    BY <1>5 DEF First
  <2>1. multiply_saturated_256(t, a, b)[k] = multiply_saturated_128(t, ua, ub)[j]
    BY <1>1, <1>5, <1>6, <2>0, Zenon
  <2>2. z = Value(t.s, t.w, ua[j]) * Value(t.s, t.w, ub[j])
    BY <1>3, <2>0
  <2>3. multiply_saturated_128(t, ua, ub)[j] = Saturate(t.s, t.w, z)
    BY <1>w, <2>2, Multiply128
  <2> QED BY <2>1, <2>3
<1> QED BY <1>4, <1>5

\* The product of the numbers in lane k, and the sum of an adjacent pair of them.
Product(t, a, b, k) == Value(t.s, t.w, a[k]) * Value(t.s, t.w, b[k])
PairSum(t, a, b, k) == Product(t, a, b, 2 * k) + Product(t, a, b, 2 * k + 1)

\* Products are integers.
LEMMA ProductType ==
  ASSUME NEW t, t.w \in Nat \ {0}, NEW n \in Nat, NEW a \in Register(t.w, n),
             NEW b \in Register(t.w, n),
         NEW k \in First(n)
  PROVE  Product(t, a, b, k) \in Int
<1>1. a[k] \in Cells(t.w) /\ b[k] \in Cells(t.w)
  BY LaneOfRegister
<1>s. PICK s : s = t.s
  BY Zenon
<1>2. PICK w \in Nat \ {0} : w = t.w /\ s = t.s
  BY <1>s, Zenon
<1>3. Value(s, w, a[k]) \in Int /\ Value(s, w, b[k]) \in Int
  BY <1>1, <1>2, ValueIs
<1>4. PICK x \in Int, y \in Int : x = Value(t.s, t.w, a[k]) /\ y = Value(t.s, t.w, b[k])
  BY <1>2, <1>3, Zenon
<1>5. x * y \in Int
  OBVIOUS
<1> QED BY <1>4, <1>5, Zenon DEF Product

-------------------------------------------------------------------------------
(***************************************************************************)
(* Sums of adjacent products.                                              *)
(***************************************************************************)

\* Of signed 16-bit lanes one instruction makes the sums.
LEMMA MaddIs ==
  ASSUME NEW t, t.s = TRUE, NEW m \in Nat, NEW a \in Register(t.w, 2 * m), NEW b,
             NEW k \in First(m)
  PROVE  madd(t.w, a, b)[k] = Lane(2 * t.w, PairSum(t, a, b, k))
<1>1. LanesOf(a) \div 2 = m
  BY LaneOfRegister, 2 * m \in Nat
<1> QED BY <1>1, Zenon DEF madd, PairSum, Product

\* Of 32-bit ones the even products are added to the odd ones, shifted down.
LEMMA ShiftedDown ==
  ASSUME NEW w \in Nat \ {0}, NEW n \in {2, 4}, NEW N \in {n, 2 * n}, NEW v \in Register(w, N)
  PROVE  /\ bsrli(n, v, 1) \in Register(w, N)
         /\ \A k \in First(N) : k % 2 = 0 => bsrli(n, v, 1)[k] = v[k + 1]
<1>1. DOMAIN v = First(N) /\ \A k \in First(N) : v[k] \in Cells(w)
  BY LaneOfRegister, N \in Nat
<1>2. 0 \in Cells(w)
  BY Base DEF Cells
<1>3. bsrli(n, v, 1) = [k \in First(N) |-> IF (k % n) + 1 < n THEN v[k + 1] ELSE 0]
  BY <1>1, Zenon DEF bsrli
<1>4. ASSUME NEW k \in First(N), (k % n) + 1 < n
      PROVE  k + 1 \in First(N)
  <2>1. CASE n = 2
    BY <1>4, <2>1 DEF First
  <2>2. CASE n = 4
    BY <1>4, <2>2 DEF First
  <2> QED BY <2>1, <2>2
<1>5. ASSUME NEW k \in First(N), k % 2 = 0
      PROVE  (k % n) + 1 < n
  <2>1. CASE n = 2
    BY <1>5, <2>1 DEF First
  <2>2. CASE n = 4
    BY <1>5, <2>2 DEF First
  <2> QED BY <2>1, <2>2
<1> QED BY <1>1, <1>2, <1>3, <1>4, <1>5 DEF Register

\* So do the sums of adjacent products of 32-bit lanes.
LEMMA ByParity ==
  ASSUME NEW t, t.w \in Nat \ {0}, t.n = 4, NEW m \in {2, 4},
         NEW a \in Register(t.w, 2 * m), NEW b \in Register(t.w, 2 * m), NEW k \in First(m)
  PROVE  adjacent_by_parity(t, a, b)[k] = Lane(2 * t.w, PairSum(t, a, b, k))
<1>s. PICK s : s = t.s
  BY Zenon
<1>w. PICK w \in Nat \ {0} : w = t.w /\ s = t.s
  BY <1>s, Zenon
<1>n. PICK n, N : n \in {2, 4} /\ N \in {n, 2 * n} /\ n = 4 /\ N = 2 * m
  <2>1. 4 \in {2, 4} /\ 2 * m \in {4, 2 * 4}
    OBVIOUS
  <2> QED BY <2>1, Zenon
<1>1. PICK c, d \in Register(w, 2 * m) :
        /\ c = bsrli(4, a, 1) /\ d = bsrli(4, b, 1)
        /\ \A j \in First(2 * m) : j % 2 = 0 => c[j] = a[j + 1] /\ d[j] = b[j + 1]
  <2>1. a \in Register(w, N) /\ b \in Register(w, N)
    BY <1>w, <1>n
  <2>2. bsrli(n, a, 1) \in Register(w, N) /\ \A j \in First(N) : j % 2 = 0 =>
            bsrli(n, a, 1)[j] = a[j + 1]
    BY <1>n, <2>1, ShiftedDown
  <2>3. bsrli(n, b, 1) \in Register(w, N) /\ \A j \in First(N) : j % 2 = 0 =>
            bsrli(n, b, 1)[j] = b[j + 1]
    BY <1>n, <2>1, ShiftedDown
  <2> QED BY <1>n, <2>2, <2>3
<1>2. a \in Register(w, 2 * m) /\ b \in Register(w, 2 * m) /\ m \in Nat
  BY <1>w
<1>3. PICK e, o \in Register(2 * w, m) :
        /\ e = mul(s, w, a, b) /\ o = mul(s, w, c, d)
        /\ \A j \in First(m) : /\ e[j] = Lane(2 * w, Value(s, w, a[2 * j]) * Value(s, w,
                                   b[2 * j]))
                               /\ o[j] = Lane(2 * w, Value(s, w, c[2 * j]) * Value(s, w,
                                   d[2 * j]))
  <2>1. ASSUME NEW u \in Register(w, 2 * m), NEW v \in Register(w, 2 * m)
        PROVE  /\ mul(s, w, u, v) \in Register(2 * w, m)
               /\ \A j \in First(m) :
                    mul(s, w, u, v)[j] = Lane(2 * w, Value(s, w, u[2 * j]) * Value(s, w,
                        v[2 * j]))
    <3>1. PICK M \in Nat : M = m
      BY <1>2
    <3>2. u \in Register(w, 2 * M) /\ v \in Register(w, 2 * M)
      BY <3>1, Zenon
    <3>3. /\ mul(s, w, u, v) \in Register(2 * w, M)
          /\ \A j \in First(M) :
               mul(s, w, u, v)[j] = Lane(2 * w, Value(s, w, u[2 * j]) * Value(s, w, v[2 * j]))
      BY <3>2, MulIs
    <3> QED BY <3>1, <3>3, Zenon
  <2>2. /\ mul(s, w, a, b) \in Register(2 * w, m)
        /\ \A j \in First(m) :
             mul(s, w, a, b)[j] = Lane(2 * w, Value(s, w, a[2 * j]) * Value(s, w, b[2 * j]))
    BY <1>2, <2>1, Zenon
  <2>3. /\ mul(s, w, c, d) \in Register(2 * w, m)
        /\ \A j \in First(m) :
             mul(s, w, c, d)[j] = Lane(2 * w, Value(s, w, c[2 * j]) * Value(s, w, d[2 * j]))
    BY <2>1, Zenon
  <2> QED BY <2>2, <2>3, Zenon
<1>4. adjacent_by_parity(t, a, b) = add(2 * w, e, o)
  BY <1>w, <1>1, <1>3, Zenon DEF adjacent_by_parity
<1>5. add(2 * w, e, o)[k] = Lane(2 * w, e[k] + o[k])
  BY AddIs, 2 * w \in Nat \ {0}, m \in Nat
<1>6. c[2 * k] = a[2 * k + 1] /\ d[2 * k] = b[2 * k + 1]
  BY <1>1, Pairs, m \in Nat
<1>7. e[k] = Lane(2 * w, Product(t, a, b, 2 * k)) /\ o[k] = Lane(2 * w, Product(t, a, b,
          2 * k + 1))
  BY <1>w, <1>3, <1>6, Zenon DEF Product
<1>8. Product(t, a, b, 2 * k) \in Int /\ Product(t, a, b, 2 * k + 1) \in Int
  BY Pairs, ProductType, m \in Nat, 2 * m \in Nat
<1>9. PICK x, y \in Int : x = Product(t, a, b, 2 * k) /\ y = Product(t, a, b, 2 * k + 1)
  BY <1>8, Zenon
<1>10. Lane(2 * w, Lane(2 * w, x) + Lane(2 * w, y)) = Lane(2 * w, x + y)
  BY WideSum, 2 * w \in Nat
<1> QED BY <1>w, <1>4, <1>5, <1>7, <1>9, <1>10, Zenon DEF PairSum

\* Of 64-bit lanes the sum is truncated, and the other lane of the half cleared.
LEMMA AdjacentEpi64Is ==
  ASSUME NEW t, t.w \in Nat \ {0}, t.w % 2 = 0, t.n = 2, NEW m \in {1, 2},
         NEW a \in Register(t.w, 2 * m), NEW b \in Register(t.w, 2 * m), NEW k \in First(m)
  PROVE  /\ adjacent_epi64(t, a, b)[2 * k] = Lane(t.w, PairSum(t, a, b, k))
         /\ adjacent_epi64(t, a, b)[2 * k + 1] = 0
<1>s. PICK s : s = t.s
  BY Zenon
<1>w. PICK w \in Nat \ {0} : w = t.w /\ s = t.s
  BY <1>s, Zenon
<1>n. PICK n, N : n \in {2, 4} /\ N \in {n, 2 * n} /\ n = 2 /\ N = 2 * m /\ N \in Nat
  <2>1. 2 \in {2, 4} /\ 2 * m \in {2, 2 * 2} /\ 2 * m \in Nat
    OBVIOUS
  <2> QED BY <2>1, Zenon
<1>2. a \in Register(w, N) /\ b \in Register(w, N) /\ w % 2 = 0
  BY <1>w, <1>n
<1>3. PICK p \in Register(w, N) : p = mullo_epi64(w, a,
          b) /\ \A j \in First(N) : p[j] = Lane(w, a[j] * b[j])
  BY <1>2, <1>n, MulloEpi64Is
<1>4. PICK c \in Register(w, N) : c = bsrli(n, p, 1) /\ \A j \in First(N) : j % 2 = 0 =>
          c[j] = p[j + 1]
  BY <1>n, ShiftedDown
<1>5. PICK u \in Register(w, N) : u = add(w, p, c) /\ \A j \in First(N) : u[j] = Lane(w,
          p[j] + c[j])
  BY <1>n, AddIs
<1>6. adjacent_epi64(t, a, b) = [j \in First(N) |-> IF j % 2 = 0 THEN u[j] ELSE 0]
  <2>1. DOMAIN u = First(N)
    BY <1>n, LaneOfRegister
  <2>2. adjacent_epi64(t, a, b) = [j \in DOMAIN add(w, p, c) |-> IF j % 2 = 0 THEN add(w, p,
            c)[j] ELSE 0]
    BY <1>w, <1>n, <1>3, <1>4, Zenon DEF adjacent_epi64
  <2> QED BY <1>5, <2>1, <2>2, Zenon
<1>7. /\ 2 * k \in First(N) /\ 2 * k + 1 \in First(N)
      /\ (2 * k) % 2 = 0 /\ (2 * k + 1) % 2 # 0
  BY <1>n, Pairs, m \in Nat
<1>8. adjacent_epi64(t, a, b)[2 * k] = Lane(w, p[2 * k] + p[2 * k + 1])
  BY <1>4, <1>5, <1>6, <1>7
<1>9. adjacent_epi64(t, a, b)[2 * k + 1] = 0
  BY <1>6, <1>7
<1>10. ASSUME NEW j \in First(N)
       PROVE  p[j] = Lane(w, Product(t, a, b, j)) /\ Product(t, a, b, j) \in Int
  <2>1. a[j] \in Cells(w) /\ b[j] \in Cells(w)
    BY <1>2, <1>n, LaneOfRegister
  <2>2. Lane(w, Value(s, w, a[j]) * Value(s, w, b[j])) = Lane(w, a[j] * b[j])
    BY <2>1, LaneOf
  <2>3. Product(t, a, b, j) \in Int
    BY <1>n, ProductType
  <2> QED BY <1>w, <1>3, <2>2, <2>3, Zenon DEF Product
<1>11. PICK x, y \in Int : x = Product(t, a, b, 2 * k) /\ y = Product(t, a, b, 2 * k + 1)
  BY <1>7, <1>10, Zenon
<1>12. Lane(w, Lane(w, x) + Lane(w, y)) = Lane(w, x + y)
  BY WideSum
<1> QED BY <1>w, <1>7, <1>8, <1>9, <1>10, <1>11, <1>12, Zenon DEF PairSum

\* The products of the lanes from "first" on, in lanes of twice the width.
From(first, n, v) == [k \in First(n) |-> v[first + k]]
Extended(t, first, n, a, b) ==
  mullo(2 * t.w, cvt(t.s, t.w, From(first, n, a)), cvt(t.s, t.w, From(first, n, b)))

\* The products of n lanes from the first on, in twice the width.
LEMMA ExtendedIs ==
  ASSUME NEW t, t.w \in Nat \ {0}, NEW N \in Nat, NEW n \in Nat, NEW first \in Nat,
             first + n <= N,
         NEW a \in Register(t.w, N), NEW b \in Register(t.w, N)
  PROVE  /\ Extended(t, first, n, a, b) \in Register(2 * t.w, n)
         /\ \A j \in First(n) :
              Extended(t, first, n, a, b)[j] = Lane(2 * t.w, Product(t, a, b, first + j))
<1>s. PICK s : s = t.s
  BY Zenon
<1>w. PICK w \in Nat \ {0} : w = t.w /\ s = t.s
  BY <1>s, Zenon
<1>1. PICK c, d \in Register(w, n) :
        /\ c = From(first, n, a) /\ d = From(first, n, b)
        /\ \A j \in First(n) : c[j] = a[first + j] /\ d[j] = b[first + j]
  <2>1. ASSUME NEW v \in Register(w, N)
        PROVE  From(first, n, v) \in Register(w, n) /\ \A j \in First(n) : From(first, n,
                   v)[j] = v[first + j]
    BY DEF From, Register, First
  <2> QED BY <1>w, <2>1
<1>2. /\ mullo(2 * w, cvt(s, w, c), cvt(s, w, d)) \in Register(2 * w, n)
      /\ \A k \in First(n) : mullo(2 * w, cvt(s, w, c), cvt(s, w, d))[k]
                               = Lane(2 * w, Value(s, w, c[k]) * Value(s, w, d[k]))
  BY CvtProduct
<1> QED BY <1>w, <1>1, <1>2, Zenon DEF Extended, Product

\* Where the sums of pairs take their products from.
LEMMA PlaceOfPair ==
  ASSUME NEW m \in {4, 8}, NEW k \in First(m)
  PROVE  /\ k % m < m \div 2 => Place(m, k) = 2 * k /\ Place(m, k) \in First(m) /\ Place(m,
             k) + 1 \in First(m)
         /\ ~(k % m < m \div 2) =>
              m + Place(m, k) = 2 * k /\ Place(m, k) \in First(m) /\ Place(m,
                  k) + 1 \in First(m)
<1>1. CASE m = 4
  BY <1>1 DEF Place, First
<1>2. CASE m = 8
  BY <1>2 DEF Place, First
<1> QED BY <1>1, <1>2

\* The addition of two neighbouring products.
LEMMA SumOfPair ==
  ASSUME NEW t, t.w \in Nat \ {0}, NEW N \in Nat, NEW a \in Register(t.w, N),
             NEW b \in Register(t.w, N),
         NEW i \in First(N), NEW j \in First(N)
  PROVE  Lane(2 * t.w, Lane(2 * t.w, Product(t, a, b, i)) + Lane(2 * t.w, Product(t, a, b, j)))
           = Lane(2 * t.w, Product(t, a, b, i) + Product(t, a, b, j))
<1>1. PICK w \in Nat : w = 2 * t.w
  OBVIOUS
<1>2. PICK x \in Int, y \in Int : x = Product(t, a, b, i) /\ y = Product(t, a, b, j)
  <2>1. Product(t, a, b, i) \in Int /\ Product(t, a, b, j) \in Int
    BY ProductType
  <2> QED BY <2>1, Zenon
<1>3. Lane(w, Lane(w, x) + Lane(w, y)) = Lane(w, x + y)
  BY WideSum
<1> QED BY <1>1, <1>2, <1>3, Zenon

\* 128 bits: the halves of the register are extended.
LEMMA ByExtension128 ==
  ASSUME NEW t, t.w \in Nat \ {0}, NEW m \in {4, 8}, t.n = 2 * m,
         NEW a \in Register(t.w, 2 * m), NEW b \in Register(t.w, 2 * m), NEW k \in First(m)
  PROVE  adjacent_by_extension(t, a, b)[k] = Lane(2 * t.w, PairSum(t, a, b, k))
<1>1. PICK N \in Nat : N = 2 * m
  OBVIOUS
<1>2. a \in Register(t.w, N) /\ b \in Register(t.w,
          N) /\ 0 + m <= N /\ m + m <= N /\ m \in Nat /\ 0 \in Nat
  BY <1>1
<1>3. PICK x, y \in Register(2 * t.w, m) :
        /\ x = Extended(t, 0, m, a, b) /\ y = Extended(t, m, m, a, b)
        /\ \A j \in First(m) : x[j] = Lane(2 * t.w, Product(t, a, b, 0 + j))
        /\ \A j \in First(m) : y[j] = Lane(2 * t.w, Product(t, a, b, m + j))
  <2>1. /\ Extended(t, 0, m, a, b) \in Register(2 * t.w, m)
        /\ \A j \in First(m) : Extended(t, 0, m, a, b)[j] = Lane(2 * t.w, Product(t, a, b,
            0 + j))
    BY <1>2, ExtendedIs
  <2>2. /\ Extended(t, m, m, a, b) \in Register(2 * t.w, m)
        /\ \A j \in First(m) : Extended(t, m, m, a, b)[j] = Lane(2 * t.w, Product(t, a, b,
            m + j))
    BY <1>2, ExtendedIs
  <2> QED BY <2>1, <2>2, Zenon
<1>4. adjacent_by_extension(t, a, b) = hadd(2 * t.w, m, x, y)
  <2>1. ~IsWide(t, a)
    <3>1. LanesOf(a) = N
      BY <1>2, LaneOfRegister
    <3> QED BY <1>1, <3>1 DEF IsWide
  <2>2. t.n \div 2 = m
    OBVIOUS
  <2> QED BY <1>3, <2>1, <2>2, Zenon DEF adjacent_by_extension, Extended, From
<1>5. k \in DOMAIN x
  BY <1>2, LaneOfRegister
<1>6. hadd(2 * t.w, m, x, y)[k] = Lane(2 * t.w, LeftOf(m, x, y, k) + RightOf(m, x, y, k))
  <2>1. PICK v : v = 2 * t.w
    BY Zenon
  <2>2. hadd(v, m, x, y)[k] = Lane(v, LeftOf(m, x, y, k) + RightOf(m, x, y, k))
    BY <1>5, HorizontalIs
  <2> QED BY <2>1, <2>2, Zenon
<1>7. /\ LeftOf(m, x, y, k) = Lane(2 * t.w, Product(t, a, b, 2 * k))
      /\ RightOf(m, x, y, k) = Lane(2 * t.w, Product(t, a, b, 2 * k + 1))
  <2>1. PICK p \in Nat : p = Place(m, k) /\ p \in First(m) /\ p + 1 \in First(m)
    BY PlaceOfPair DEF First
  <2>2. CASE k % m < m \div 2
    <3>1. 0 + p = 2 * k /\ 0 + (p + 1) = 2 * k + 1
      BY <2>1, <2>2, PlaceOfPair
    <3> QED BY <1>3, <2>1, <2>2, <3>1, Zenon DEF LeftOf, RightOf
  <2>3. CASE ~(k % m < m \div 2)
    <3>1. m + p = 2 * k /\ m + (p + 1) = 2 * k + 1
      BY <2>1, <2>3, PlaceOfPair
    <3> QED BY <1>3, <2>1, <2>3, <3>1, Zenon DEF LeftOf, RightOf
  <2> QED BY <2>2, <2>3, Zenon
<1>8. 2 * k \in First(N) /\ 2 * k + 1 \in First(N)
  BY <1>1, <1>2, Pairs
<1>9. PICK i, j \in First(N) : i = 2 * k /\ j = 2 * k + 1
  BY <1>8
<1>10. Lane(2 * t.w, Lane(2 * t.w, Product(t, a, b, i)) + Lane(2 * t.w, Product(t, a, b, j)))
         = Lane(2 * t.w, Product(t, a, b, i) + Product(t, a, b, j))
  BY <1>2, SumOfPair
<1> QED BY <1>4, <1>6, <1>7, <1>9, <1>10, Zenon DEF PairSum

\* The lane of the interleaved sums that the permutation brings to lane k, and the
\* operand and the pair that lane was made from.
Source(m, k) ==
  CASE k \div (m \div 2) = 0 -> k
    [] k \div (m \div 2) = 1 -> k + m \div 2
    [] k \div (m \div 2) = 2 -> k - m \div 2
    [] k \div (m \div 2) = 3 -> k

\* The permutation of 64-bit groups that follows a horizontal addition.
LEMMA PermutedIs ==
  ASSUME NEW m \in {4, 8}, NEW h, DOMAIN h = First(2 * m), NEW k \in First(2 * m)
  PROVE  /\ permute4x64(h, <<0, 2, 1, 3>>)[k] = h[Source(m, k)]
         /\ Source(m, k) \in First(2 * m)
<1>1. LanesOf(h) = 2 * m
  BY LaneCount, 2 * m \in Nat
<1>2. PICK q \in {2, 4} : q = m \div 2 /\ q = (2 * m) \div 4 /\ m = 2 * q
  OBVIOUS
<1>3. permute4x64(h, <<0, 2, 1, 3>>)[k] = h[<<0, 2, 1, 3>>[(k \div q) + 1] * q + (k % q)]
  BY <1>1, <1>2, Zenon DEF permute4x64
<1>4. PICK b \in Int, r \in Int : b = k \div q /\ r = k % q
  BY <1>2 DEF First
<1>5. b \in 0 .. 3 /\ r \in 0 .. q - 1 /\ k = b * q + r
  <2>1. CASE q = 2
    BY <1>2, <1>4, <2>1 DEF First
  <2>2. CASE q = 4
    BY <1>2, <1>4, <2>2 DEF First
  <2> QED BY <2>1, <2>2
<1>6. <<0, 2, 1, 3>>[1] = 0 /\ <<0, 2, 1, 3>>[2] = 2 /\ <<0, 2, 1, 3>>[3] = 1 /\ <<0, 2, 1,
          3>>[4] = 3
  OBVIOUS
<1>7. Source(m, k) = CASE b = 0 -> k [] b = 1 -> k + q [] b = 2 -> k - q [] b = 3 -> k
  BY <1>2, <1>4, Zenon DEF Source
<1>8. CASE b = 0
  <2>1. <<0, 2, 1, 3>>[b + 1] * q + r = k /\ Source(m, k) = k
    BY <1>5, <1>6, <1>7, <1>8
  <2> QED BY <1>3, <1>4, <2>1, Zenon
<1>9. CASE b = 1
  <2>1. <<0, 2, 1, 3>>[b + 1] * q + r = k + q /\ Source(m, k) = k + q
    BY <1>5, <1>6, <1>7, <1>9
  <2>2. k + q \in First(2 * m)
    BY <1>2, <1>5, <1>9 DEF First
  <2> QED BY <1>3, <1>4, <2>1, <2>2, Zenon
<1>10. CASE b = 2
  <2>1. <<0, 2, 1, 3>>[b + 1] * q + r = k - q /\ Source(m, k) = k - q
    BY <1>5, <1>6, <1>7, <1>10
  <2>2. k - q \in First(2 * m)
    BY <1>2, <1>5, <1>10 DEF First
  <2> QED BY <1>3, <1>4, <2>1, <2>2, Zenon
<1>11. CASE b = 3
  <2>1. <<0, 2, 1, 3>>[b + 1] * q + r = k /\ Source(m, k) = k
    BY <1>5, <1>6, <1>7, <1>11
  <2> QED BY <1>3, <1>4, <2>1, Zenon
<1> QED BY <1>5, <1>8, <1>9, <1>10, <1>11

\* Which lanes of the operands of the horizontal addition lane Source(m, k) is the
\* sum of.
LEMMA PlaceOfSource ==
  ASSUME NEW m \in {4, 8}, NEW k \in First(2 * m), NEW p \in Nat, p = Source(m, k)
  PROVE  /\ Place(m, p) \in First(2 * m) /\ Place(m, p) + 1 \in First(2 * m)
         /\ p % m < m \div 2 => Place(m, p) = 2 * k
         /\ ~(p % m < m \div 2) => 2 * m + Place(m, p) = 2 * k
<1>1. CASE m = 4
  <2>1. k \div (m \div 2) = k \div 2 /\ m \div 2 = 2
    BY <1>1
  <2>2. k \div 2 \in 0 .. 3 /\ k = 2 * (k \div 2) + (k % 2) /\ (k % 2) \in 0 .. 1
    BY <1>1 DEF First
  <2>3. CASE k \div 2 = 0
    <3>1. p = k
      BY <2>1, <2>3 DEF Source
    <3> QED BY <1>1, <2>2, <2>3, <3>1 DEF Place, First
  <2>4. CASE k \div 2 = 1
    <3>1. p = k + 2
      BY <2>1, <2>4 DEF Source
    <3> QED BY <1>1, <2>2, <2>4, <3>1 DEF Place, First
  <2>5. CASE k \div 2 = 2
    <3>1. p = k - 2
      BY <2>1, <2>5 DEF Source
    <3> QED BY <1>1, <2>2, <2>5, <3>1 DEF Place, First
  <2>6. CASE k \div 2 = 3
    <3>1. p = k
      BY <2>1, <2>6 DEF Source
    <3> QED BY <1>1, <2>2, <2>6, <3>1 DEF Place, First
  <2> QED BY <2>2, <2>3, <2>4, <2>5, <2>6
<1>2. CASE m = 8
  <2>1. k \div (m \div 2) = k \div 4 /\ m \div 2 = 4
    BY <1>2
  <2>2. k \div 4 \in 0 .. 3 /\ k = 4 * (k \div 4) + (k % 4) /\ (k % 4) \in 0 .. 3
    BY <1>2 DEF First
  <2>3. CASE k \div 4 = 0
    <3>1. p = k
      BY <2>1, <2>3 DEF Source
    <3> QED BY <1>2, <2>2, <2>3, <3>1 DEF Place, First
  <2>4. CASE k \div 4 = 1
    <3>1. p = k + 4
      BY <2>1, <2>4 DEF Source
    <3> QED BY <1>2, <2>2, <2>4, <3>1 DEF Place, First
  <2>5. CASE k \div 4 = 2
    <3>1. p = k - 4
      BY <2>1, <2>5 DEF Source
    <3> QED BY <1>2, <2>2, <2>5, <3>1 DEF Place, First
  <2>6. CASE k \div 4 = 3
    <3>1. p = k
      BY <2>1, <2>6 DEF Source
    <3> QED BY <1>2, <2>2, <2>6, <3>1 DEF Place, First
  <2> QED BY <2>2, <2>3, <2>4, <2>5, <2>6
<1> QED BY <1>1, <1>2

\* 256 bits: the halves of both operands are extended to registers of their own.
LEMMA ByExtension256 ==
  ASSUME NEW t, t.w \in Nat \ {0}, NEW m \in {4, 8}, t.n = 2 * m,
         NEW a \in Register(t.w, 4 * m), NEW b \in Register(t.w, 4 * m), NEW k \in First(2 * m)
  PROVE  adjacent_by_extension(t, a, b)[k] = Lane(2 * t.w, PairSum(t, a, b, k))
<1>1. PICK N \in Nat, n \in Nat : N = 4 * m /\ n = 2 * m /\ N = 2 * n
  OBVIOUS
<1>2. a \in Register(t.w, N) /\ b \in Register(t.w, N) /\ 0 + n <= N /\ n + n <= N /\ 0 \in Nat
  BY <1>1
<1>3. PICK x, y \in Register(2 * t.w, n) :
        /\ x = Extended(t, 0, n, a, b) /\ y = Extended(t, n, n, a, b)
        /\ \A j \in First(n) : x[j] = Lane(2 * t.w, Product(t, a, b, 0 + j))
        /\ \A j \in First(n) : y[j] = Lane(2 * t.w, Product(t, a, b, n + j))
  <2>1. /\ Extended(t, 0, n, a, b) \in Register(2 * t.w, n)
        /\ \A j \in First(n) : Extended(t, 0, n, a, b)[j] = Lane(2 * t.w, Product(t, a, b,
            0 + j))
    BY <1>2, ExtendedIs
  <2>2. /\ Extended(t, n, n, a, b) \in Register(2 * t.w, n)
        /\ \A j \in First(n) : Extended(t, n, n, a, b)[j] = Lane(2 * t.w, Product(t, a, b,
            n + j))
    BY <1>2, ExtendedIs
  <2> QED BY <2>1, <2>2, Zenon
<1>4. PICK h : h = hadd(2 * t.w, m, x, y) /\ DOMAIN h = First(2 * m) /\ DOMAIN x = First(n)
  <2>1. DOMAIN x = First(n)
    BY LaneOfRegister
  <2>2. DOMAIN hadd(2 * t.w, m, x, y) = DOMAIN x
    BY Zenon DEF hadd, Horizontal
  <2> QED BY <1>1, <2>1, <2>2, Zenon
<1>5. adjacent_by_extension(t, a, b) = permute4x64(h, <<0, 2, 1, 3>>)
  <2>1. IsWide(t, a)
    <3>1. LanesOf(a) = N
      BY <1>2, LaneOfRegister
    <3> QED BY <1>1, <3>1 DEF IsWide
  <2>2. t.n \div 2 = m /\ t.n = n
    BY <1>1
  <2> QED BY <1>3, <1>4, <2>1, <2>2, Zenon DEF adjacent_by_extension, Extended, From
<1>6. PICK p \in Nat : p = Source(m, k) /\ p \in First(n) /\ adjacent_by_extension(t, a,
          b)[k] = h[p]
  <2>1. permute4x64(h, <<0, 2, 1, 3>>)[k] = h[Source(m, k)] /\ Source(m, k) \in First(2 * m)
    BY <1>4, PermutedIs
  <2>2. Source(m, k) \in Nat
    BY <2>1 DEF First
  <2> QED BY <1>1, <1>5, <2>1, <2>2, Zenon
<1>7. h[p] = Lane(2 * t.w, LeftOf(m, x, y, p) + RightOf(m, x, y, p))
  <2>1. PICK v : v = 2 * t.w
    BY Zenon
  <2>2. p \in DOMAIN x
    BY <1>4, <1>6, Zenon
  <2>3. hadd(v, m, x, y)[p] = Lane(v, LeftOf(m, x, y, p) + RightOf(m, x, y, p))
    BY <2>2, HorizontalIs
  <2> QED BY <1>4, <2>1, <2>3, Zenon
<1>8. /\ LeftOf(m, x, y, p) = Lane(2 * t.w, Product(t, a, b, 2 * k))
      /\ RightOf(m, x, y, p) = Lane(2 * t.w, Product(t, a, b, 2 * k + 1))
  <2>1. PICK c \in Nat : c = Place(m, p) /\ c \in First(n) /\ c + 1 \in First(n)
    BY <1>1, <1>6, PlaceOfSource DEF First
  <2>2. CASE p % m < m \div 2
    <3>1. 0 + c = 2 * k /\ 0 + (c + 1) = 2 * k + 1
      BY <1>6, <2>1, <2>2, PlaceOfSource
    <3> QED BY <1>3, <2>1, <2>2, <3>1, Zenon DEF LeftOf, RightOf
  <2>3. CASE ~(p % m < m \div 2)
    <3>1. n + c = 2 * k /\ n + (c + 1) = 2 * k + 1
      BY <1>1, <1>6, <2>1, <2>3, PlaceOfSource
    <3> QED BY <1>3, <2>1, <2>3, <3>1, Zenon DEF LeftOf, RightOf
  <2> QED BY <2>2, <2>3, Zenon
<1>9. PICK i, j \in First(N) : i = 2 * k /\ j = 2 * k + 1
  <2>1. k \in First(n) /\ 2 * n = N
    BY <1>1
  <2> QED BY <2>1, Pairs
<1>10. Lane(2 * t.w, Lane(2 * t.w, Product(t, a, b, i)) + Lane(2 * t.w, Product(t, a, b, j)))
         = Lane(2 * t.w, Product(t, a, b, i) + Product(t, a, b, j))
  BY <1>2, SumOfPair
<1> QED BY <1>6, <1>7, <1>8, <1>9, <1>10, Zenon DEF PairSum

-------------------------------------------------------------------------------
(***************************************************************************)
(* Which function a call reaches: the tables of the specialisations, by    *)
(* type and register width.                                                *)
(***************************************************************************)

\* No two element types are the same.
LEMMA TypesDiffer ==
  /\ int8 # uint8
  /\ int8 # int16
  /\ int8 # uint16
  /\ int8 # int32
  /\ int8 # uint32
  /\ int8 # int64
  /\ int8 # uint64
  /\ uint8 # int16
  /\ uint8 # uint16
  /\ uint8 # int32
  /\ uint8 # uint32
  /\ uint8 # int64
  /\ uint8 # uint64
  /\ int16 # uint16
  /\ int16 # int32
  /\ int16 # uint32
  /\ int16 # int64
  /\ int16 # uint64
  /\ uint16 # int32
  /\ uint16 # uint32
  /\ uint16 # int64
  /\ uint16 # uint64
  /\ int32 # uint32
  /\ int32 # int64
  /\ int32 # uint64
  /\ uint32 # int64
  /\ uint32 # uint64
  /\ int64 # uint64
<1>1. int8 # uint8
  BY Zenon DEF int8, uint8
<1>2. int8 # int16
  BY DEF int8, int16
<1>3. int8 # uint16
  BY DEF int8, uint16
<1>4. int8 # int32
  BY DEF int8, int32
<1>5. int8 # uint32
  BY DEF int8, uint32
<1>6. int8 # int64
  BY DEF int8, int64
<1>7. int8 # uint64
  BY DEF int8, uint64
<1>8. uint8 # int16
  BY DEF uint8, int16
<1>9. uint8 # uint16
  BY DEF uint8, uint16
<1>10. uint8 # int32
  BY DEF uint8, int32
<1>11. uint8 # uint32
  BY DEF uint8, uint32
<1>12. uint8 # int64
  BY DEF uint8, int64
<1>13. uint8 # uint64
  BY DEF uint8, uint64
<1>14. int16 # uint16
  BY Zenon DEF int16, uint16
<1>15. int16 # int32
  BY DEF int16, int32
<1>16. int16 # uint32
  BY DEF int16, uint32
<1>17. int16 # int64
  BY DEF int16, int64
<1>18. int16 # uint64
  BY DEF int16, uint64
<1>19. uint16 # int32
  BY DEF uint16, int32
<1>20. uint16 # uint32
  BY DEF uint16, uint32
<1>21. uint16 # int64
  BY DEF uint16, int64
<1>22. uint16 # uint64
  BY DEF uint16, uint64
<1>23. int32 # uint32
  BY Zenon DEF int32, uint32
<1>24. int32 # int64
  BY DEF int32, int64
<1>25. int32 # uint64
  BY DEF int32, uint64
<1>26. uint32 # int64
  BY DEF uint32, int64
<1>27. uint32 # uint64
  BY DEF uint32, uint64
<1>28. int64 # uint64
  BY Zenon DEF int64, uint64
<1> QED BY <1>1, <1>2, <1>3, <1>4, <1>5, <1>6, <1>7, <1>8, <1>9, <1>10, <1>11, <1>12, <1>13,
   <1>14, <1>15, <1>16, <1>17, <1>18, <1>19, <1>20, <1>21, <1>22, <1>23, <1>24, <1>25, <1>26,
   <1>27, <1>28, Zenon

\* The fields of the types.
LEMMA FieldsAre ==
  /\ int8.s = TRUE /\ int8.w = W8 /\ int8.n = 16
  /\ uint8.s = FALSE /\ uint8.w = W8 /\ uint8.n = 16
  /\ int16.s = TRUE /\ int16.w = W16 /\ int16.n = 8
  /\ uint16.s = FALSE /\ uint16.w = W16 /\ uint16.n = 8
  /\ int32.s = TRUE /\ int32.w = W32 /\ int32.n = 4
  /\ uint32.s = FALSE /\ uint32.w = W32 /\ uint32.n = 4
  /\ int64.s = TRUE /\ int64.w = W64 /\ int64.n = 2
  /\ uint64.s = FALSE /\ uint64.w = W64 /\ uint64.n = 2
BY Zenon DEF int8, uint8, int16, uint16, int32, uint32, int64, uint64

\* The specialisation that is used.
LEMMA ArithmeticTable ==
  ASSUME NEW op, NEW a, NEW b
  PROVE  /\ type = int8 => arithmetic(type, op, a, b)
            = IF bits = 128 THEN SimdImpl128_int8_arithmetic(op, a,
                b) ELSE SimdImpl256_int8_arithmetic(op, a, b)
         /\ type = uint8 => arithmetic(type, op, a, b)
            = IF bits = 128 THEN SimdImpl128_uint8_arithmetic(op, a,
                b) ELSE SimdImpl256_uint8_arithmetic(op, a, b)
         /\ type = int16 => arithmetic(type, op, a, b)
            = IF bits = 128 THEN SimdImpl128_int16_arithmetic(op, a,
                b) ELSE SimdImpl256_int16_arithmetic(op, a, b)
         /\ type = uint16 => arithmetic(type, op, a, b)
            = IF bits = 128 THEN SimdImpl128_uint16_arithmetic(op, a,
                b) ELSE SimdImpl256_uint16_arithmetic(op, a, b)
         /\ type = int32 => arithmetic(type, op, a, b)
            = IF bits = 128 THEN SimdImpl128_int32_arithmetic(op, a,
                b) ELSE SimdImpl256_int32_arithmetic(op, a, b)
         /\ type = uint32 => arithmetic(type, op, a, b)
            = IF bits = 128 THEN SimdImpl128_uint32_arithmetic(op, a,
                b) ELSE SimdImpl256_uint32_arithmetic(op, a, b)
         /\ type = int64 => arithmetic(type, op, a, b)
            = IF bits = 128 THEN SimdImpl128_int64_arithmetic(op, a,
                b) ELSE SimdImpl256_int64_arithmetic(op, a, b)
         /\ type = uint64 => arithmetic(type, op, a, b)
            = IF bits = 128 THEN SimdImpl128_uint64_arithmetic(op, a,
                b) ELSE SimdImpl256_uint64_arithmetic(op, a, b)
<1>1. ASSUME type = int8
      PROVE  arithmetic(type, op, a, b)
               = IF bits = 128 THEN SimdImpl128_int8_arithmetic(op, a,
                   b) ELSE SimdImpl256_int8_arithmetic(op, a, b)
  <2>1. type # uint8 /\ type # int16 /\ type # uint16 /\ type # int32 /\ type # uint32 /\
            type # int64 /\ type # uint64
    BY <1>1, TypesDiffer, Zenon
  <2> QED BY <1>1, <2>1, Zenon DEF arithmetic
<1>2. ASSUME type = uint8
      PROVE  arithmetic(type, op, a, b)
               = IF bits = 128 THEN SimdImpl128_uint8_arithmetic(op, a,
                   b) ELSE SimdImpl256_uint8_arithmetic(op, a, b)
  <2>1. type # int8 /\ type # int16 /\ type # uint16 /\ type # int32 /\ type # uint32 /\
            type # int64 /\ type # uint64
    BY <1>2, TypesDiffer, Zenon
  <2> QED BY <1>2, <2>1, Zenon DEF arithmetic
<1>3. ASSUME type = int16
      PROVE  arithmetic(type, op, a, b)
               = IF bits = 128 THEN SimdImpl128_int16_arithmetic(op, a,
                   b) ELSE SimdImpl256_int16_arithmetic(op, a, b)
  <2>1. type # int8 /\ type # uint8 /\ type # uint16 /\ type # int32 /\ type # uint32 /\
            type # int64 /\ type # uint64
    BY <1>3, TypesDiffer, Zenon
  <2> QED BY <1>3, <2>1, Zenon DEF arithmetic
<1>4. ASSUME type = uint16
      PROVE  arithmetic(type, op, a, b)
               = IF bits = 128 THEN SimdImpl128_uint16_arithmetic(op, a,
                   b) ELSE SimdImpl256_uint16_arithmetic(op, a, b)
  <2>1. type # int8 /\ type # uint8 /\ type # int16 /\ type # int32 /\ type # uint32 /\
            type # int64 /\ type # uint64
    BY <1>4, TypesDiffer, Zenon
  <2> QED BY <1>4, <2>1, Zenon DEF arithmetic
<1>5. ASSUME type = int32
      PROVE  arithmetic(type, op, a, b)
               = IF bits = 128 THEN SimdImpl128_int32_arithmetic(op, a,
                   b) ELSE SimdImpl256_int32_arithmetic(op, a, b)
  <2>1. type # int8 /\ type # uint8 /\ type # int16 /\ type # uint16 /\ type # uint32 /\
            type # int64 /\ type # uint64
    BY <1>5, TypesDiffer, Zenon
  <2> QED BY <1>5, <2>1, Zenon DEF arithmetic
<1>6. ASSUME type = uint32
      PROVE  arithmetic(type, op, a, b)
               = IF bits = 128 THEN SimdImpl128_uint32_arithmetic(op, a,
                   b) ELSE SimdImpl256_uint32_arithmetic(op, a, b)
  <2>1. type # int8 /\ type # uint8 /\ type # int16 /\ type # uint16 /\ type # int32 /\
            type # int64 /\ type # uint64
    BY <1>6, TypesDiffer, Zenon
  <2> QED BY <1>6, <2>1, Zenon DEF arithmetic
<1>7. ASSUME type = int64
      PROVE  arithmetic(type, op, a, b)
               = IF bits = 128 THEN SimdImpl128_int64_arithmetic(op, a,
                   b) ELSE SimdImpl256_int64_arithmetic(op, a, b)
  <2>1. type # int8 /\ type # uint8 /\ type # int16 /\ type # uint16 /\ type # int32 /\
            type # uint32 /\ type # uint64
    BY <1>7, TypesDiffer, Zenon
  <2> QED BY <1>7, <2>1, Zenon DEF arithmetic
<1>8. ASSUME type = uint64
      PROVE  arithmetic(type, op, a, b)
               = IF bits = 128 THEN SimdImpl128_uint64_arithmetic(op, a,
                   b) ELSE SimdImpl256_uint64_arithmetic(op, a, b)
  <2>1. type # int8 /\ type # uint8 /\ type # int16 /\ type # uint16 /\ type # int32 /\
            type # uint32 /\ type # int64
    BY <1>8, TypesDiffer, Zenon
  <2> QED BY <1>8, <2>1, Zenon DEF arithmetic
<1> QED BY <1>1, <1>2, <1>3, <1>4, <1>5, <1>6, <1>7, <1>8, Zenon

\* The same of the operations on single lanes.
LEMMA LanewiseTable ==
  ASSUME NEW op, NEW a, NEW b, NEW c
  PROVE  /\ type = int8 => lanewise(type, op, a, b, c)
            = IF bits = 128 THEN SimdImpl128_int8(op, a, b, c) ELSE SimdImpl256_int8(op, a,
                b, c)
         /\ type = uint8 => lanewise(type, op, a, b, c)
            = IF bits = 128 THEN SimdImpl128_uint8(op, a, b, c) ELSE SimdImpl256_uint8(op, a,
                b, c)
         /\ type = int16 => lanewise(type, op, a, b, c)
            = IF bits = 128 THEN SimdImpl128_int16(op, a, b, c) ELSE SimdImpl256_int16(op, a,
                b, c)
         /\ type = uint16 => lanewise(type, op, a, b, c)
            = IF bits = 128 THEN SimdImpl128_uint16(op, a, b, c) ELSE SimdImpl256_uint16(op,
                a, b, c)
         /\ type = int32 => lanewise(type, op, a, b, c)
            = IF bits = 128 THEN SimdImpl128_int32(op, a, b, c) ELSE SimdImpl256_int32(op, a,
                b, c)
         /\ type = uint32 => lanewise(type, op, a, b, c)
            = IF bits = 128 THEN SimdImpl128_uint32(op, a, b, c) ELSE SimdImpl256_uint32(op,
                a, b, c)
         /\ type = int64 => lanewise(type, op, a, b, c)
            = IF bits = 128 THEN SimdImpl128_int64(op, a, b, c) ELSE SimdImpl256_int64(op, a,
                b, c)
         /\ type = uint64 => lanewise(type, op, a, b, c)
            = IF bits = 128 THEN SimdImpl128_uint64(op, a, b, c) ELSE SimdImpl256_uint64(op,
                a, b, c)
<1>1. ASSUME type = int8
      PROVE  lanewise(type, op, a, b, c)
               = IF bits = 128 THEN SimdImpl128_int8(op, a, b, c) ELSE SimdImpl256_int8(op,
                   a, b, c)
  <2>1. type # uint8 /\ type # int16 /\ type # uint16 /\ type # int32 /\ type # uint32 /\
            type # int64 /\ type # uint64
    BY <1>1, TypesDiffer, Zenon
  <2> QED BY <1>1, <2>1, Zenon DEF lanewise
<1>2. ASSUME type = uint8
      PROVE  lanewise(type, op, a, b, c)
               = IF bits = 128 THEN SimdImpl128_uint8(op, a, b, c) ELSE SimdImpl256_uint8(op,
                   a, b, c)
  <2>1. type # int8 /\ type # int16 /\ type # uint16 /\ type # int32 /\ type # uint32 /\
            type # int64 /\ type # uint64
    BY <1>2, TypesDiffer, Zenon
  <2> QED BY <1>2, <2>1, Zenon DEF lanewise
<1>3. ASSUME type = int16
      PROVE  lanewise(type, op, a, b, c)
               = IF bits = 128 THEN SimdImpl128_int16(op, a, b, c) ELSE SimdImpl256_int16(op,
                   a, b, c)
  <2>1. type # int8 /\ type # uint8 /\ type # uint16 /\ type # int32 /\ type # uint32 /\
            type # int64 /\ type # uint64
    BY <1>3, TypesDiffer, Zenon
  <2> QED BY <1>3, <2>1, Zenon DEF lanewise
<1>4. ASSUME type = uint16
      PROVE  lanewise(type, op, a, b, c)
               = IF bits = 128 THEN SimdImpl128_uint16(op, a, b,
                   c) ELSE SimdImpl256_uint16(op, a, b, c)
  <2>1. type # int8 /\ type # uint8 /\ type # int16 /\ type # int32 /\ type # uint32 /\
            type # int64 /\ type # uint64
    BY <1>4, TypesDiffer, Zenon
  <2> QED BY <1>4, <2>1, Zenon DEF lanewise
<1>5. ASSUME type = int32
      PROVE  lanewise(type, op, a, b, c)
               = IF bits = 128 THEN SimdImpl128_int32(op, a, b, c) ELSE SimdImpl256_int32(op,
                   a, b, c)
  <2>1. type # int8 /\ type # uint8 /\ type # int16 /\ type # uint16 /\ type # uint32 /\
            type # int64 /\ type # uint64
    BY <1>5, TypesDiffer, Zenon
  <2> QED BY <1>5, <2>1, Zenon DEF lanewise
<1>6. ASSUME type = uint32
      PROVE  lanewise(type, op, a, b, c)
               = IF bits = 128 THEN SimdImpl128_uint32(op, a, b,
                   c) ELSE SimdImpl256_uint32(op, a, b, c)
  <2>1. type # int8 /\ type # uint8 /\ type # int16 /\ type # uint16 /\ type # int32 /\
            type # int64 /\ type # uint64
    BY <1>6, TypesDiffer, Zenon
  <2> QED BY <1>6, <2>1, Zenon DEF lanewise
<1>7. ASSUME type = int64
      PROVE  lanewise(type, op, a, b, c)
               = IF bits = 128 THEN SimdImpl128_int64(op, a, b, c) ELSE SimdImpl256_int64(op,
                   a, b, c)
  <2>1. type # int8 /\ type # uint8 /\ type # int16 /\ type # uint16 /\ type # int32 /\
            type # uint32 /\ type # uint64
    BY <1>7, TypesDiffer, Zenon
  <2> QED BY <1>7, <2>1, Zenon DEF lanewise
<1>8. ASSUME type = uint64
      PROVE  lanewise(type, op, a, b, c)
               = IF bits = 128 THEN SimdImpl128_uint64(op, a, b,
                   c) ELSE SimdImpl256_uint64(op, a, b, c)
  <2>1. type # int8 /\ type # uint8 /\ type # int16 /\ type # uint16 /\ type # int32 /\
            type # uint32 /\ type # int64
    BY <1>8, TypesDiffer, Zenon
  <2> QED BY <1>8, <2>1, Zenon DEF lanewise
<1> QED BY <1>1, <1>2, <1>3, <1>4, <1>5, <1>6, <1>7, <1>8, Zenon

\* The arithmetic of signed 8-bit lanes.
LEMMA Arithmetic_int8 ==
  ASSUME type = int8, NEW a, NEW b
  PROVE  /\ arithmetic(type, "add", a, b) = add(type.w, a, b)
         /\ arithmetic(type, "subtract", a, b) = sub(type.w, a, b)
         /\ arithmetic(type, "multiply", a, b) = mul_epi8(type.w, a, b)
         /\ arithmetic(type, "multiply_add_adjacent", a, b) = adjacent_by_extension(type, a, b)
         /\ arithmetic(type, "divide", a, b) = IF bits = 128 THEN div(type.s, type.w, a, b)
                    ELSE ext256_div(type.s, type.w, type.n, a, b)
         /\ arithmetic(type, "modulus", a, b) = IF bits = 128 THEN rem(type.s, type.w, a, b)
                    ELSE ext256_rem(type.s, type.w, type.n, a, b)
<1>0. type.s = TRUE /\ type.w = W8 /\ type.n = 16 /\ int8.s = TRUE /\ int8.w = W8 /\ int8.n = 16
  BY FieldsAre, Zenon
<1>1. \A op : arithmetic(type, op, a, b)
              = IF bits = 128 THEN SimdImpl128_int8_arithmetic(op, a, b)
                              ELSE SimdImpl256_int8_arithmetic(op, a, b)
  BY ArithmeticTable, Zenon
<1>2. arithmetic(type, "add", a, b) = add(type.w, a, b)
  BY <1>0, <1>1 DEF SimdImpl128_int8_arithmetic, SimdImpl256_int8_arithmetic, Instruction
<1>3. arithmetic(type, "subtract", a, b) = sub(type.w, a, b)
  BY <1>0, <1>1 DEF SimdImpl128_int8_arithmetic, SimdImpl256_int8_arithmetic, Instruction
<1>4. arithmetic(type, "multiply", a, b) = mul_epi8(type.w, a, b)
  BY <1>0, <1>1 DEF SimdImpl128_int8_arithmetic, SimdImpl256_int8_arithmetic, Instruction
<1>5. arithmetic(type, "multiply_add_adjacent", a, b) = adjacent_by_extension(type, a, b)
  BY <1>0, <1>1 DEF SimdImpl128_int8_arithmetic, SimdImpl256_int8_arithmetic, Instruction
<1>6. arithmetic(type, "divide", a, b) = IF bits = 128 THEN div(type.s, type.w, a, b)
                    ELSE ext256_div(type.s, type.w, type.n, a, b)
  <2>1. /\ SimdImpl128_int8_arithmetic("divide", a, b) = div(TRUE, W8, a, b)
        /\ SimdImpl256_int8_arithmetic("divide", a, b) = ext256_div(TRUE, W8, 16, a, b)
    BY Zenon DEF SimdImpl128_int8_arithmetic, SimdImpl256_int8_arithmetic
  <2> QED BY <1>0, <1>1, <2>1, Zenon
<1>7. arithmetic(type, "modulus", a, b) = IF bits = 128 THEN rem(type.s, type.w, a, b)
                    ELSE ext256_rem(type.s, type.w, type.n, a, b)
  <2>1. /\ SimdImpl128_int8_arithmetic("modulus", a, b) = rem(TRUE, W8, a, b)
        /\ SimdImpl256_int8_arithmetic("modulus", a, b) = ext256_rem(TRUE, W8, 16, a, b)
    BY Zenon DEF SimdImpl128_int8_arithmetic, SimdImpl256_int8_arithmetic
  <2> QED BY <1>0, <1>1, <2>1, Zenon
<1> QED BY <1>2, <1>3, <1>4, <1>5, <1>6, <1>7, Zenon

\* The arithmetic of unsigned 8-bit lanes.
LEMMA Arithmetic_uint8 ==
  ASSUME type = uint8, NEW a, NEW b
  PROVE  /\ arithmetic(type, "add", a, b) = add(type.w, a, b)
         /\ arithmetic(type, "subtract", a, b) = sub(type.w, a, b)
         /\ arithmetic(type, "multiply", a, b) = mul_epi8(type.w, a, b)
         /\ arithmetic(type, "multiply_add_adjacent", a, b) = adjacent_by_extension(type, a, b)
         /\ arithmetic(type, "divide", a, b) = IF bits = 128 THEN div(type.s, type.w, a, b)
                    ELSE ext256_div(type.s, type.w, type.n, a, b)
         /\ arithmetic(type, "modulus", a, b) = IF bits = 128 THEN rem(type.s, type.w, a, b)
                    ELSE ext256_rem(type.s, type.w, type.n, a, b)
<1>0. type.s = FALSE /\ type.w = W8 /\ type.n = 16 /\ uint8.s = FALSE /\ uint8.w
          = W8 /\ uint8.n = 16
  BY FieldsAre, Zenon
<1>1. \A op : arithmetic(type, op, a, b)
              = IF bits = 128 THEN SimdImpl128_uint8_arithmetic(op, a, b)
                              ELSE SimdImpl256_uint8_arithmetic(op, a, b)
  BY ArithmeticTable, Zenon
<1>2. arithmetic(type, "add", a, b) = add(type.w, a, b)
  BY <1>0, <1>1 DEF SimdImpl128_uint8_arithmetic, SimdImpl256_uint8_arithmetic, Instruction
<1>3. arithmetic(type, "subtract", a, b) = sub(type.w, a, b)
  BY <1>0, <1>1 DEF SimdImpl128_uint8_arithmetic, SimdImpl256_uint8_arithmetic, Instruction
<1>4. arithmetic(type, "multiply", a, b) = mul_epi8(type.w, a, b)
  BY <1>0, <1>1 DEF SimdImpl128_uint8_arithmetic, SimdImpl256_uint8_arithmetic, Instruction
<1>5. arithmetic(type, "multiply_add_adjacent", a, b) = adjacent_by_extension(type, a, b)
  BY <1>0, <1>1 DEF SimdImpl128_uint8_arithmetic, SimdImpl256_uint8_arithmetic, Instruction
<1>6. arithmetic(type, "divide", a, b) = IF bits = 128 THEN div(type.s, type.w, a, b)
                    ELSE ext256_div(type.s, type.w, type.n, a, b)
  <2>1. /\ SimdImpl128_uint8_arithmetic("divide", a, b) = div(FALSE, W8, a, b)
        /\ SimdImpl256_uint8_arithmetic("divide", a, b) = ext256_div(FALSE, W8, 16, a, b)
    BY Zenon DEF SimdImpl128_uint8_arithmetic, SimdImpl256_uint8_arithmetic
  <2> QED BY <1>0, <1>1, <2>1, Zenon
<1>7. arithmetic(type, "modulus", a, b) = IF bits = 128 THEN rem(type.s, type.w, a, b)
                    ELSE ext256_rem(type.s, type.w, type.n, a, b)
  <2>1. /\ SimdImpl128_uint8_arithmetic("modulus", a, b) = rem(FALSE, W8, a, b)
        /\ SimdImpl256_uint8_arithmetic("modulus", a, b) = ext256_rem(FALSE, W8, 16, a, b)
    BY Zenon DEF SimdImpl128_uint8_arithmetic, SimdImpl256_uint8_arithmetic
  <2> QED BY <1>0, <1>1, <2>1, Zenon
<1> QED BY <1>2, <1>3, <1>4, <1>5, <1>6, <1>7, Zenon

\* The arithmetic of signed 16-bit lanes.
LEMMA Arithmetic_int16 ==
  ASSUME type = int16, NEW a, NEW b
  PROVE  /\ arithmetic(type, "add", a, b) = add(type.w, a, b)
         /\ arithmetic(type, "subtract", a, b) = sub(type.w, a, b)
         /\ arithmetic(type, "multiply", a, b) = mullo(type.w, a, b)
         /\ arithmetic(type, "multiply_add_adjacent", a, b) = madd(type.w, a, b)
         /\ arithmetic(type, "divide", a, b) = IF bits = 128 THEN div(type.s, type.w, a, b)
                    ELSE ext256_div(type.s, type.w, type.n, a, b)
         /\ arithmetic(type, "modulus", a, b) = IF bits = 128 THEN rem(type.s, type.w, a, b)
                    ELSE ext256_rem(type.s, type.w, type.n, a, b)
<1>0. type.s = TRUE /\ type.w = W16 /\ type.n = 8 /\ int16.s = TRUE /\ int16.w
          = W16 /\ int16.n = 8
  BY FieldsAre, Zenon
<1>1. \A op : arithmetic(type, op, a, b)
              = IF bits = 128 THEN SimdImpl128_int16_arithmetic(op, a, b)
                              ELSE SimdImpl256_int16_arithmetic(op, a, b)
  BY ArithmeticTable, Zenon
<1>2. arithmetic(type, "add", a, b) = add(type.w, a, b)
  BY <1>0, <1>1 DEF SimdImpl128_int16_arithmetic, SimdImpl256_int16_arithmetic, Instruction
<1>3. arithmetic(type, "subtract", a, b) = sub(type.w, a, b)
  BY <1>0, <1>1 DEF SimdImpl128_int16_arithmetic, SimdImpl256_int16_arithmetic, Instruction
<1>4. arithmetic(type, "multiply", a, b) = mullo(type.w, a, b)
  BY <1>0, <1>1 DEF SimdImpl128_int16_arithmetic, SimdImpl256_int16_arithmetic, Instruction
<1>5. arithmetic(type, "multiply_add_adjacent", a, b) = madd(type.w, a, b)
  BY <1>0, <1>1 DEF SimdImpl128_int16_arithmetic, SimdImpl256_int16_arithmetic, Instruction
<1>6. arithmetic(type, "divide", a, b) = IF bits = 128 THEN div(type.s, type.w, a, b)
                    ELSE ext256_div(type.s, type.w, type.n, a, b)
  <2>1. /\ SimdImpl128_int16_arithmetic("divide", a, b) = div(TRUE, W16, a, b)
        /\ SimdImpl256_int16_arithmetic("divide", a, b) = ext256_div(TRUE, W16, 8, a, b)
    BY Zenon DEF SimdImpl128_int16_arithmetic, SimdImpl256_int16_arithmetic
  <2> QED BY <1>0, <1>1, <2>1, Zenon
<1>7. arithmetic(type, "modulus", a, b) = IF bits = 128 THEN rem(type.s, type.w, a, b)
                    ELSE ext256_rem(type.s, type.w, type.n, a, b)
  <2>1. /\ SimdImpl128_int16_arithmetic("modulus", a, b) = rem(TRUE, W16, a, b)
        /\ SimdImpl256_int16_arithmetic("modulus", a, b) = ext256_rem(TRUE, W16, 8, a, b)
    BY Zenon DEF SimdImpl128_int16_arithmetic, SimdImpl256_int16_arithmetic
  <2> QED BY <1>0, <1>1, <2>1, Zenon
<1> QED BY <1>2, <1>3, <1>4, <1>5, <1>6, <1>7, Zenon

\* The arithmetic of unsigned 16-bit lanes.
LEMMA Arithmetic_uint16 ==
  ASSUME type = uint16, NEW a, NEW b
  PROVE  /\ arithmetic(type, "add", a, b) = add(type.w, a, b)
         /\ arithmetic(type, "subtract", a, b) = sub(type.w, a, b)
         /\ arithmetic(type, "multiply", a, b) = mullo(type.w, a, b)
         /\ arithmetic(type, "multiply_add_adjacent", a, b) = adjacent_by_extension(type, a, b)
         /\ arithmetic(type, "divide", a, b) = IF bits = 128 THEN div(type.s, type.w, a, b)
                    ELSE ext256_div(type.s, type.w, type.n, a, b)
         /\ arithmetic(type, "modulus", a, b) = IF bits = 128 THEN rem(type.s, type.w, a, b)
                    ELSE ext256_rem(type.s, type.w, type.n, a, b)
<1>0. type.s = FALSE /\ type.w = W16 /\ type.n = 8 /\ uint16.s = FALSE /\ uint16.w
          = W16 /\ uint16.n = 8
  BY FieldsAre, Zenon
<1>1. \A op : arithmetic(type, op, a, b)
              = IF bits = 128 THEN SimdImpl128_uint16_arithmetic(op, a, b)
                              ELSE SimdImpl256_uint16_arithmetic(op, a, b)
  BY ArithmeticTable, Zenon
<1>2. arithmetic(type, "add", a, b) = add(type.w, a, b)
  BY <1>0, <1>1 DEF SimdImpl128_uint16_arithmetic, SimdImpl256_uint16_arithmetic, Instruction
<1>3. arithmetic(type, "subtract", a, b) = sub(type.w, a, b)
  BY <1>0, <1>1 DEF SimdImpl128_uint16_arithmetic, SimdImpl256_uint16_arithmetic, Instruction
<1>4. arithmetic(type, "multiply", a, b) = mullo(type.w, a, b)
  BY <1>0, <1>1 DEF SimdImpl128_uint16_arithmetic, SimdImpl256_uint16_arithmetic, Instruction
<1>5. arithmetic(type, "multiply_add_adjacent", a, b) = adjacent_by_extension(type, a, b)
  BY <1>0, <1>1 DEF SimdImpl128_uint16_arithmetic, SimdImpl256_uint16_arithmetic, Instruction
<1>6. arithmetic(type, "divide", a, b) = IF bits = 128 THEN div(type.s, type.w, a, b)
                    ELSE ext256_div(type.s, type.w, type.n, a, b)
  <2>1. /\ SimdImpl128_uint16_arithmetic("divide", a, b) = div(FALSE, W16, a, b)
        /\ SimdImpl256_uint16_arithmetic("divide", a, b) = ext256_div(FALSE, W16, 8, a, b)
    BY Zenon DEF SimdImpl128_uint16_arithmetic, SimdImpl256_uint16_arithmetic
  <2> QED BY <1>0, <1>1, <2>1, Zenon
<1>7. arithmetic(type, "modulus", a, b) = IF bits = 128 THEN rem(type.s, type.w, a, b)
                    ELSE ext256_rem(type.s, type.w, type.n, a, b)
  <2>1. /\ SimdImpl128_uint16_arithmetic("modulus", a, b) = rem(FALSE, W16, a, b)
        /\ SimdImpl256_uint16_arithmetic("modulus", a, b) = ext256_rem(FALSE, W16, 8, a, b)
    BY Zenon DEF SimdImpl128_uint16_arithmetic, SimdImpl256_uint16_arithmetic
  <2> QED BY <1>0, <1>1, <2>1, Zenon
<1> QED BY <1>2, <1>3, <1>4, <1>5, <1>6, <1>7, Zenon

\* The arithmetic of signed 32-bit lanes.
LEMMA Arithmetic_int32 ==
  ASSUME type = int32, NEW a, NEW b
  PROVE  /\ arithmetic(type, "add", a, b) = add(type.w, a, b)
         /\ arithmetic(type, "subtract", a, b) = sub(type.w, a, b)
         /\ arithmetic(type, "multiply", a, b) = mullo(type.w, a, b)
         /\ arithmetic(type, "multiply_add_adjacent", a, b) = adjacent_by_parity(type, a, b)
         /\ arithmetic(type, "divide", a, b) = IF bits = 128 THEN div(type.s, type.w, a, b)
                    ELSE ext256_div(type.s, type.w, type.n, a, b)
         /\ arithmetic(type, "modulus", a, b) = IF bits = 128 THEN rem(type.s, type.w, a, b)
                    ELSE ext256_rem(type.s, type.w, type.n, a, b)
<1>0. type.s = TRUE /\ type.w = W32 /\ type.n = 4 /\ int32.s = TRUE /\ int32.w
          = W32 /\ int32.n = 4
  BY FieldsAre, Zenon
<1>1. \A op : arithmetic(type, op, a, b)
              = IF bits = 128 THEN SimdImpl128_int32_arithmetic(op, a, b)
                              ELSE SimdImpl256_int32_arithmetic(op, a, b)
  BY ArithmeticTable, Zenon
<1>2. arithmetic(type, "add", a, b) = add(type.w, a, b)
  BY <1>0, <1>1 DEF SimdImpl128_int32_arithmetic, SimdImpl256_int32_arithmetic, Instruction
<1>3. arithmetic(type, "subtract", a, b) = sub(type.w, a, b)
  BY <1>0, <1>1 DEF SimdImpl128_int32_arithmetic, SimdImpl256_int32_arithmetic, Instruction
<1>4. arithmetic(type, "multiply", a, b) = mullo(type.w, a, b)
  BY <1>0, <1>1 DEF SimdImpl128_int32_arithmetic, SimdImpl256_int32_arithmetic, Instruction
<1>5. arithmetic(type, "multiply_add_adjacent", a, b) = adjacent_by_parity(type, a, b)
  BY <1>0, <1>1 DEF SimdImpl128_int32_arithmetic, SimdImpl256_int32_arithmetic, Instruction
<1>6. arithmetic(type, "divide", a, b) = IF bits = 128 THEN div(type.s, type.w, a, b)
                    ELSE ext256_div(type.s, type.w, type.n, a, b)
  <2>1. /\ SimdImpl128_int32_arithmetic("divide", a, b) = div(TRUE, W32, a, b)
        /\ SimdImpl256_int32_arithmetic("divide", a, b) = ext256_div(TRUE, W32, 4, a, b)
    BY Zenon DEF SimdImpl128_int32_arithmetic, SimdImpl256_int32_arithmetic
  <2> QED BY <1>0, <1>1, <2>1, Zenon
<1>7. arithmetic(type, "modulus", a, b) = IF bits = 128 THEN rem(type.s, type.w, a, b)
                    ELSE ext256_rem(type.s, type.w, type.n, a, b)
  <2>1. /\ SimdImpl128_int32_arithmetic("modulus", a, b) = rem(TRUE, W32, a, b)
        /\ SimdImpl256_int32_arithmetic("modulus", a, b) = ext256_rem(TRUE, W32, 4, a, b)
    BY Zenon DEF SimdImpl128_int32_arithmetic, SimdImpl256_int32_arithmetic
  <2> QED BY <1>0, <1>1, <2>1, Zenon
<1> QED BY <1>2, <1>3, <1>4, <1>5, <1>6, <1>7, Zenon

\* The arithmetic of unsigned 32-bit lanes.
LEMMA Arithmetic_uint32 ==
  ASSUME type = uint32, NEW a, NEW b
  PROVE  /\ arithmetic(type, "add", a, b) = add(type.w, a, b)
         /\ arithmetic(type, "subtract", a, b) = sub(type.w, a, b)
         /\ arithmetic(type, "multiply", a, b) = mullo(type.w, a, b)
         /\ arithmetic(type, "multiply_add_adjacent", a, b) = adjacent_by_parity(type, a, b)
         /\ arithmetic(type, "divide", a, b) = IF bits = 128 THEN div(type.s, type.w, a, b)
                    ELSE ext256_div(type.s, type.w, type.n, a, b)
         /\ arithmetic(type, "modulus", a, b) = IF bits = 128 THEN rem(type.s, type.w, a, b)
                    ELSE ext256_rem(type.s, type.w, type.n, a, b)
<1>0. type.s = FALSE /\ type.w = W32 /\ type.n = 4 /\ uint32.s = FALSE /\ uint32.w
          = W32 /\ uint32.n = 4
  BY FieldsAre, Zenon
<1>1. \A op : arithmetic(type, op, a, b)
              = IF bits = 128 THEN SimdImpl128_uint32_arithmetic(op, a, b)
                              ELSE SimdImpl256_uint32_arithmetic(op, a, b)
  BY ArithmeticTable, Zenon
<1>2. arithmetic(type, "add", a, b) = add(type.w, a, b)
  BY <1>0, <1>1 DEF SimdImpl128_uint32_arithmetic, SimdImpl256_uint32_arithmetic, Instruction
<1>3. arithmetic(type, "subtract", a, b) = sub(type.w, a, b)
  BY <1>0, <1>1 DEF SimdImpl128_uint32_arithmetic, SimdImpl256_uint32_arithmetic, Instruction
<1>4. arithmetic(type, "multiply", a, b) = mullo(type.w, a, b)
  BY <1>0, <1>1 DEF SimdImpl128_uint32_arithmetic, SimdImpl256_uint32_arithmetic, Instruction
<1>5. arithmetic(type, "multiply_add_adjacent", a, b) = adjacent_by_parity(type, a, b)
  BY <1>0, <1>1 DEF SimdImpl128_uint32_arithmetic, SimdImpl256_uint32_arithmetic, Instruction
<1>6. arithmetic(type, "divide", a, b) = IF bits = 128 THEN div(type.s, type.w, a, b)
                    ELSE ext256_div(type.s, type.w, type.n, a, b)
  <2>1. /\ SimdImpl128_uint32_arithmetic("divide", a, b) = div(FALSE, W32, a, b)
        /\ SimdImpl256_uint32_arithmetic("divide", a, b) = ext256_div(FALSE, W32, 4, a, b)
    BY Zenon DEF SimdImpl128_uint32_arithmetic, SimdImpl256_uint32_arithmetic
  <2> QED BY <1>0, <1>1, <2>1, Zenon
<1>7. arithmetic(type, "modulus", a, b) = IF bits = 128 THEN rem(type.s, type.w, a, b)
                    ELSE ext256_rem(type.s, type.w, type.n, a, b)
  <2>1. /\ SimdImpl128_uint32_arithmetic("modulus", a, b) = rem(FALSE, W32, a, b)
        /\ SimdImpl256_uint32_arithmetic("modulus", a, b) = ext256_rem(FALSE, W32, 4, a, b)
    BY Zenon DEF SimdImpl128_uint32_arithmetic, SimdImpl256_uint32_arithmetic
  <2> QED BY <1>0, <1>1, <2>1, Zenon
<1> QED BY <1>2, <1>3, <1>4, <1>5, <1>6, <1>7, Zenon

\* The arithmetic of signed 64-bit lanes.
LEMMA Arithmetic_int64 ==
  ASSUME type = int64, NEW a, NEW b
  PROVE  /\ arithmetic(type, "add", a, b) = add(type.w, a, b)
         /\ arithmetic(type, "subtract", a, b) = sub(type.w, a, b)
         /\ arithmetic(type, "multiply", a, b) = mullo_epi64(type.w, a, b)
         /\ arithmetic(type, "multiply_add_adjacent", a, b) = adjacent_epi64(type, a, b)
         /\ arithmetic(type, "divide", a, b) = IF bits = 128 THEN div(type.s, type.w, a, b)
                    ELSE ext256_div(type.s, type.w, type.n, a, b)
         /\ arithmetic(type, "modulus", a, b) = IF bits = 128 THEN rem(type.s, type.w, a, b)
                    ELSE ext256_rem(type.s, type.w, type.n, a, b)
<1>0. type.s = TRUE /\ type.w = W64 /\ type.n = 2 /\ int64.s = TRUE /\ int64.w
          = W64 /\ int64.n = 2
  BY FieldsAre, Zenon
<1>1. \A op : arithmetic(type, op, a, b)
              = IF bits = 128 THEN SimdImpl128_int64_arithmetic(op, a, b)
                              ELSE SimdImpl256_int64_arithmetic(op, a, b)
  BY ArithmeticTable, Zenon
<1>2. arithmetic(type, "add", a, b) = add(type.w, a, b)
  BY <1>0, <1>1 DEF SimdImpl128_int64_arithmetic, SimdImpl256_int64_arithmetic, Instruction
<1>3. arithmetic(type, "subtract", a, b) = sub(type.w, a, b)
  BY <1>0, <1>1 DEF SimdImpl128_int64_arithmetic, SimdImpl256_int64_arithmetic, Instruction
<1>4. arithmetic(type, "multiply", a, b) = mullo_epi64(type.w, a, b)
  BY <1>0, <1>1 DEF SimdImpl128_int64_arithmetic, SimdImpl256_int64_arithmetic, Instruction
<1>5. arithmetic(type, "multiply_add_adjacent", a, b) = adjacent_epi64(type, a, b)
  BY <1>0, <1>1 DEF SimdImpl128_int64_arithmetic, SimdImpl256_int64_arithmetic, Instruction
<1>6. arithmetic(type, "divide", a, b) = IF bits = 128 THEN div(type.s, type.w, a, b)
                    ELSE ext256_div(type.s, type.w, type.n, a, b)
  <2>1. /\ SimdImpl128_int64_arithmetic("divide", a, b) = div(TRUE, W64, a, b)
        /\ SimdImpl256_int64_arithmetic("divide", a, b) = ext256_div(TRUE, W64, 2, a, b)
    BY Zenon DEF SimdImpl128_int64_arithmetic, SimdImpl256_int64_arithmetic
  <2> QED BY <1>0, <1>1, <2>1, Zenon
<1>7. arithmetic(type, "modulus", a, b) = IF bits = 128 THEN rem(type.s, type.w, a, b)
                    ELSE ext256_rem(type.s, type.w, type.n, a, b)
  <2>1. /\ SimdImpl128_int64_arithmetic("modulus", a, b) = rem(TRUE, W64, a, b)
        /\ SimdImpl256_int64_arithmetic("modulus", a, b) = ext256_rem(TRUE, W64, 2, a, b)
    BY Zenon DEF SimdImpl128_int64_arithmetic, SimdImpl256_int64_arithmetic
  <2> QED BY <1>0, <1>1, <2>1, Zenon
<1> QED BY <1>2, <1>3, <1>4, <1>5, <1>6, <1>7, Zenon

\* The arithmetic of unsigned 64-bit lanes.
LEMMA Arithmetic_uint64 ==
  ASSUME type = uint64, NEW a, NEW b
  PROVE  /\ arithmetic(type, "add", a, b) = add(type.w, a, b)
         /\ arithmetic(type, "subtract", a, b) = sub(type.w, a, b)
         /\ arithmetic(type, "multiply", a, b) = mullo_epi64(type.w, a, b)
         /\ arithmetic(type, "multiply_add_adjacent", a, b) = adjacent_epi64(type, a, b)
         /\ arithmetic(type, "divide", a, b) = IF bits = 128 THEN div(type.s, type.w, a, b)
                    ELSE ext256_div(type.s, type.w, type.n, a, b)
         /\ arithmetic(type, "modulus", a, b) = IF bits = 128 THEN rem(type.s, type.w, a, b)
                    ELSE ext256_rem(type.s, type.w, type.n, a, b)
<1>0. type.s = FALSE /\ type.w = W64 /\ type.n = 2 /\ uint64.s = FALSE /\ uint64.w
          = W64 /\ uint64.n = 2
  BY FieldsAre, Zenon
<1>1. \A op : arithmetic(type, op, a, b)
              = IF bits = 128 THEN SimdImpl128_uint64_arithmetic(op, a, b)
                              ELSE SimdImpl256_uint64_arithmetic(op, a, b)
  BY ArithmeticTable, Zenon
<1>2. arithmetic(type, "add", a, b) = add(type.w, a, b)
  BY <1>0, <1>1 DEF SimdImpl128_uint64_arithmetic, SimdImpl256_uint64_arithmetic, Instruction
<1>3. arithmetic(type, "subtract", a, b) = sub(type.w, a, b)
  BY <1>0, <1>1 DEF SimdImpl128_uint64_arithmetic, SimdImpl256_uint64_arithmetic, Instruction
<1>4. arithmetic(type, "multiply", a, b) = mullo_epi64(type.w, a, b)
  BY <1>0, <1>1 DEF SimdImpl128_uint64_arithmetic, SimdImpl256_uint64_arithmetic, Instruction
<1>5. arithmetic(type, "multiply_add_adjacent", a, b) = adjacent_epi64(type, a, b)
  BY <1>0, <1>1 DEF SimdImpl128_uint64_arithmetic, SimdImpl256_uint64_arithmetic, Instruction
<1>6. arithmetic(type, "divide", a, b) = IF bits = 128 THEN div(type.s, type.w, a, b)
                    ELSE ext256_div(type.s, type.w, type.n, a, b)
  <2>1. /\ SimdImpl128_uint64_arithmetic("divide", a, b) = div(FALSE, W64, a, b)
        /\ SimdImpl256_uint64_arithmetic("divide", a, b) = ext256_div(FALSE, W64, 2, a, b)
    BY Zenon DEF SimdImpl128_uint64_arithmetic, SimdImpl256_uint64_arithmetic
  <2> QED BY <1>0, <1>1, <2>1, Zenon
<1>7. arithmetic(type, "modulus", a, b) = IF bits = 128 THEN rem(type.s, type.w, a, b)
                    ELSE ext256_rem(type.s, type.w, type.n, a, b)
  <2>1. /\ SimdImpl128_uint64_arithmetic("modulus", a, b) = rem(FALSE, W64, a, b)
        /\ SimdImpl256_uint64_arithmetic("modulus", a, b) = ext256_rem(FALSE, W64, 2, a, b)
    BY Zenon DEF SimdImpl128_uint64_arithmetic, SimdImpl256_uint64_arithmetic
  <2> QED BY <1>0, <1>1, <2>1, Zenon
<1> QED BY <1>2, <1>3, <1>4, <1>5, <1>6, <1>7, Zenon

\* The other operations of signed 8-bit lanes.
LEMMA Lanewise_int8 ==
  ASSUME type = int8, NEW a, NEW b, NEW c
  PROVE  /\ lanewise(type, "absolute", a, b, c) = abs(type.w, a)
         /\ lanewise(type, "negate", a, b, c) = sub(type.w, set1(a, 0), a)
         /\ lanewise(type, "min", a, b, c) = min(type.s, type.w, a, b)
         /\ lanewise(type, "max", a, b, c) = max(type.s, type.w, a, b)
         /\ lanewise(type, "shift_left", a, b, c) = slli_epx8(type.w, a, c)
         /\ lanewise(type, "shift_right", a, b, c) = srli_epx8(type.w, a, c)
         /\ lanewise(type, "shift_right_arithmetic", a, b, c) = srai_epx8(type.w, a, c)
         /\ lanewise(type, "add_saturated", a, b, c) = adds(type.s, type.w, a, b)
         /\ lanewise(type, "subtract_saturated", a, b, c) = subs(type.s, type.w, a, b)
         /\ lanewise(type, "cmpeq", a, b, c) = cmpeq(type.w, a, b)
         /\ lanewise(type, "cmpgt", a, b, c) = cmpgt(type.w, a, b)
<1>0. type.s = TRUE /\ type.w = W8 /\ type.n = 16 /\ int8.s = TRUE /\ int8.w = W8 /\ int8.n = 16
  BY FieldsAre, Zenon
<1>1. \A op : lanewise(type, op, a, b, c)
              = IF bits = 128 THEN SimdImpl128_int8(op, a, b, c)
                              ELSE SimdImpl256_int8(op, a, b, c)
  BY LanewiseTable, Zenon
<1>2. lanewise(type, "absolute", a, b, c) = abs(type.w, a)
  BY <1>0, <1>1 DEF SimdImpl128_int8, SimdImpl256_int8, Instruction, Emulated8
<1>3. lanewise(type, "negate", a, b, c) = sub(type.w, set1(a, 0), a)
  BY <1>0, <1>1 DEF SimdImpl128_int8, SimdImpl256_int8, Instruction, Emulated8
<1>4. lanewise(type, "min", a, b, c) = min(type.s, type.w, a, b)
  BY <1>0, <1>1 DEF SimdImpl128_int8, SimdImpl256_int8, Instruction, Emulated8
<1>5. lanewise(type, "max", a, b, c) = max(type.s, type.w, a, b)
  BY <1>0, <1>1 DEF SimdImpl128_int8, SimdImpl256_int8, Instruction, Emulated8
<1>6. lanewise(type, "shift_left", a, b, c) = slli_epx8(type.w, a, c)
  BY <1>0, <1>1 DEF SimdImpl128_int8, SimdImpl256_int8, Instruction, Emulated8
<1>7. lanewise(type, "shift_right", a, b, c) = srli_epx8(type.w, a, c)
  BY <1>0, <1>1 DEF SimdImpl128_int8, SimdImpl256_int8, Instruction, Emulated8
<1>8. lanewise(type, "shift_right_arithmetic", a, b, c) = srai_epx8(type.w, a, c)
  BY <1>0, <1>1 DEF SimdImpl128_int8, SimdImpl256_int8, Instruction, Emulated8
<1>9. lanewise(type, "add_saturated", a, b, c) = adds(type.s, type.w, a, b)
  BY <1>0, <1>1 DEF SimdImpl128_int8, SimdImpl256_int8, Instruction, Emulated8
<1>10. lanewise(type, "subtract_saturated", a, b, c) = subs(type.s, type.w, a, b)
  BY <1>0, <1>1 DEF SimdImpl128_int8, SimdImpl256_int8, Instruction, Emulated8
<1>11. lanewise(type, "cmpeq", a, b, c) = cmpeq(type.w, a, b)
  BY <1>0, <1>1 DEF SimdImpl128_int8, SimdImpl256_int8, Instruction, Emulated8
<1>12. lanewise(type, "cmpgt", a, b, c) = cmpgt(type.w, a, b)
  BY <1>0, <1>1 DEF SimdImpl128_int8, SimdImpl256_int8, Instruction, Emulated8
<1> QED BY <1>2, <1>3, <1>4, <1>5, <1>6, <1>7, <1>8, <1>9, <1>10, <1>11, <1>12, Zenon

\* The other operations of unsigned 8-bit lanes.
LEMMA Lanewise_uint8 ==
  ASSUME type = uint8, NEW a, NEW b, NEW c
  PROVE  /\ lanewise(type, "absolute", a, b, c) = abs(type.w, a)
         /\ lanewise(type, "negate", a, b, c) = sub(type.w, set1(a, 0), a)
         /\ lanewise(type, "min", a, b, c) = min(type.s, type.w, a, b)
         /\ lanewise(type, "max", a, b, c) = max(type.s, type.w, a, b)
         /\ lanewise(type, "avg", a, b, c) = avg(type.w, a, b)
         /\ lanewise(type, "shift_left", a, b, c) = slli_epx8(type.w, a, c)
         /\ lanewise(type, "shift_right", a, b, c) = srli_epx8(type.w, a, c)
         /\ lanewise(type, "shift_right_arithmetic", a, b, c) = srai_epx8(type.w, a, c)
         /\ lanewise(type, "add_saturated", a, b, c) = adds(type.s, type.w, a, b)
         /\ lanewise(type, "subtract_saturated", a, b, c) = subs(type.s, type.w, a, b)
         /\ lanewise(type, "cmpeq", a, b, c) = cmpeq(type.w, a, b)
         /\ lanewise(type, "cmpgt", a, b, c) = cmpgt_by_max(type.w, a, b)
<1>0. type.s = FALSE /\ type.w = W8 /\ type.n = 16 /\ uint8.s = FALSE /\ uint8.w
          = W8 /\ uint8.n = 16
  BY FieldsAre, Zenon
<1>1. \A op : lanewise(type, op, a, b, c)
              = IF bits = 128 THEN SimdImpl128_uint8(op, a, b, c)
                              ELSE SimdImpl256_uint8(op, a, b, c)
  BY LanewiseTable, Zenon
<1>2. lanewise(type, "absolute", a, b, c) = abs(type.w, a)
  BY <1>0, <1>1 DEF SimdImpl128_uint8, SimdImpl256_uint8, Instruction, Emulated8
<1>3. lanewise(type, "negate", a, b, c) = sub(type.w, set1(a, 0), a)
  BY <1>0, <1>1 DEF SimdImpl128_uint8, SimdImpl256_uint8, Instruction, Emulated8
<1>4. lanewise(type, "min", a, b, c) = min(type.s, type.w, a, b)
  BY <1>0, <1>1 DEF SimdImpl128_uint8, SimdImpl256_uint8, Instruction, Emulated8
<1>5. lanewise(type, "max", a, b, c) = max(type.s, type.w, a, b)
  BY <1>0, <1>1 DEF SimdImpl128_uint8, SimdImpl256_uint8, Instruction, Emulated8
<1>6. lanewise(type, "avg", a, b, c) = avg(type.w, a, b)
  BY <1>0, <1>1 DEF SimdImpl128_uint8, SimdImpl256_uint8, Instruction, Emulated8
<1>7. lanewise(type, "shift_left", a, b, c) = slli_epx8(type.w, a, c)
  BY <1>0, <1>1 DEF SimdImpl128_uint8, SimdImpl256_uint8, Instruction, Emulated8
<1>8. lanewise(type, "shift_right", a, b, c) = srli_epx8(type.w, a, c)
  BY <1>0, <1>1 DEF SimdImpl128_uint8, SimdImpl256_uint8, Instruction, Emulated8
<1>9. lanewise(type, "shift_right_arithmetic", a, b, c) = srai_epx8(type.w, a, c)
  BY <1>0, <1>1 DEF SimdImpl128_uint8, SimdImpl256_uint8, Instruction, Emulated8
<1>10. lanewise(type, "add_saturated", a, b, c) = adds(type.s, type.w, a, b)
  BY <1>0, <1>1 DEF SimdImpl128_uint8, SimdImpl256_uint8, Instruction, Emulated8
<1>11. lanewise(type, "subtract_saturated", a, b, c) = subs(type.s, type.w, a, b)
  BY <1>0, <1>1 DEF SimdImpl128_uint8, SimdImpl256_uint8, Instruction, Emulated8
<1>12. lanewise(type, "cmpeq", a, b, c) = cmpeq(type.w, a, b)
  BY <1>0, <1>1 DEF SimdImpl128_uint8, SimdImpl256_uint8, Instruction, Emulated8
<1>13. lanewise(type, "cmpgt", a, b, c) = cmpgt_by_max(type.w, a, b)
  BY <1>0, <1>1 DEF SimdImpl128_uint8, SimdImpl256_uint8, Instruction, Emulated8
<1> QED BY <1>2, <1>3, <1>4, <1>5, <1>6, <1>7, <1>8, <1>9, <1>10, <1>11, <1>12, <1>13, Zenon

\* The other operations of signed 16-bit lanes.
LEMMA Lanewise_int16 ==
  ASSUME type = int16, NEW a, NEW b, NEW c
  PROVE  /\ lanewise(type, "absolute", a, b, c) = abs(type.w, a)
         /\ lanewise(type, "negate", a, b, c) = sub(type.w, set1(a, 0), a)
         /\ lanewise(type, "min", a, b, c) = min(type.s, type.w, a, b)
         /\ lanewise(type, "max", a, b, c) = max(type.s, type.w, a, b)
         /\ lanewise(type, "shift_left", a, b, c) = slli(type.w, a, c)
         /\ lanewise(type, "shift_right", a, b, c) = srli(type.w, a, c)
         /\ lanewise(type, "shift_right_arithmetic", a, b, c) = srai(type.w, a, c)
         /\ lanewise(type, "add_saturated", a, b, c) = adds(type.s, type.w, a, b)
         /\ lanewise(type, "subtract_saturated", a, b, c) = subs(type.s, type.w, a, b)
         /\ lanewise(type, "multiply_saturated", a, b, c) = 
                    IF bits = 128 THEN multiply_saturated_128(type, a, b)
                    ELSE multiply_saturated_256(type, a, b)
         /\ lanewise(type, "add_horizontal", a, b, c) = hadd(type.w, type.n, a, b)
         /\ lanewise(type, "subtract_horizontal", a, b, c) = hsub(type.w, type.n, a, b)
         /\ lanewise(type, "hadd_saturated", a, b, c) = hadds(type.w, type.n, a, b)
         /\ lanewise(type, "hsubtract_saturated", a, b, c) = hsubs(type.w, type.n, a, b)
         /\ lanewise(type, "cmpeq", a, b, c) = cmpeq(type.w, a, b)
         /\ lanewise(type, "cmpgt", a, b, c) = cmpgt(type.w, a, b)
<1>0. type.s = TRUE /\ type.w = W16 /\ type.n = 8 /\ int16.s = TRUE /\ int16.w
          = W16 /\ int16.n = 8
  BY FieldsAre, Zenon
<1>1. \A op : lanewise(type, op, a, b, c)
              = IF bits = 128 THEN SimdImpl128_int16(op, a, b, c)
                              ELSE SimdImpl256_int16(op, a, b, c)
  BY LanewiseTable, Zenon
<1>2. lanewise(type, "absolute", a, b, c) = abs(type.w, a)
  BY <1>0, <1>1 DEF SimdImpl128_int16, SimdImpl256_int16, Instruction
<1>3. lanewise(type, "negate", a, b, c) = sub(type.w, set1(a, 0), a)
  BY <1>0, <1>1 DEF SimdImpl128_int16, SimdImpl256_int16, Instruction
<1>4. lanewise(type, "min", a, b, c) = min(type.s, type.w, a, b)
  BY <1>0, <1>1 DEF SimdImpl128_int16, SimdImpl256_int16, Instruction
<1>5. lanewise(type, "max", a, b, c) = max(type.s, type.w, a, b)
  BY <1>0, <1>1 DEF SimdImpl128_int16, SimdImpl256_int16, Instruction
<1>6. lanewise(type, "shift_left", a, b, c) = slli(type.w, a, c)
  BY <1>0, <1>1 DEF SimdImpl128_int16, SimdImpl256_int16, Instruction
<1>7. lanewise(type, "shift_right", a, b, c) = srli(type.w, a, c)
  BY <1>0, <1>1 DEF SimdImpl128_int16, SimdImpl256_int16, Instruction
<1>8. lanewise(type, "shift_right_arithmetic", a, b, c) = srai(type.w, a, c)
  BY <1>0, <1>1 DEF SimdImpl128_int16, SimdImpl256_int16, Instruction
<1>9. lanewise(type, "add_saturated", a, b, c) = adds(type.s, type.w, a, b)
  BY <1>0, <1>1 DEF SimdImpl128_int16, SimdImpl256_int16, Instruction
<1>10. lanewise(type, "subtract_saturated", a, b, c) = subs(type.s, type.w, a, b)
  BY <1>0, <1>1 DEF SimdImpl128_int16, SimdImpl256_int16, Instruction
<1>11. lanewise(type, "multiply_saturated", a, b, c) = 
                    IF bits = 128 THEN multiply_saturated_128(type, a, b)
                    ELSE multiply_saturated_256(type, a, b)
  BY <1>0, <1>1 DEF SimdImpl128_int16, SimdImpl256_int16, Instruction
<1>12. lanewise(type, "add_horizontal", a, b, c) = hadd(type.w, type.n, a, b)
  BY <1>0, <1>1 DEF SimdImpl128_int16, SimdImpl256_int16, Instruction
<1>13. lanewise(type, "subtract_horizontal", a, b, c) = hsub(type.w, type.n, a, b)
  BY <1>0, <1>1 DEF SimdImpl128_int16, SimdImpl256_int16, Instruction
<1>14. lanewise(type, "hadd_saturated", a, b, c) = hadds(type.w, type.n, a, b)
  BY <1>0, <1>1 DEF SimdImpl128_int16, SimdImpl256_int16, Instruction
<1>15. lanewise(type, "hsubtract_saturated", a, b, c) = hsubs(type.w, type.n, a, b)
  BY <1>0, <1>1 DEF SimdImpl128_int16, SimdImpl256_int16, Instruction
<1>16. lanewise(type, "cmpeq", a, b, c) = cmpeq(type.w, a, b)
  BY <1>0, <1>1 DEF SimdImpl128_int16, SimdImpl256_int16, Instruction
<1>17. lanewise(type, "cmpgt", a, b, c) = cmpgt(type.w, a, b)
  BY <1>0, <1>1 DEF SimdImpl128_int16, SimdImpl256_int16, Instruction
<1> QED BY <1>2, <1>3, <1>4, <1>5, <1>6, <1>7, <1>8, <1>9, <1>10, <1>11, <1>12, <1>13, <1>14,
   <1>15, <1>16, <1>17, Zenon

\* The other operations of unsigned 16-bit lanes.
LEMMA Lanewise_uint16 ==
  ASSUME type = uint16, NEW a, NEW b, NEW c
  PROVE  /\ lanewise(type, "absolute", a, b, c) = abs(type.w, a)
         /\ lanewise(type, "negate", a, b, c) = sub(type.w, set1(a, 0), a)
         /\ lanewise(type, "min", a, b, c) = min(type.s, type.w, a, b)
         /\ lanewise(type, "max", a, b, c) = max(type.s, type.w, a, b)
         /\ lanewise(type, "avg", a, b, c) = avg(type.w, a, b)
         /\ lanewise(type, "shift_left", a, b, c) = slli(type.w, a, c)
         /\ lanewise(type, "shift_right", a, b, c) = srli(type.w, a, c)
         /\ lanewise(type, "shift_right_arithmetic", a, b, c) = srai(type.w, a, c)
         /\ lanewise(type, "add_saturated", a, b, c) = adds(type.s, type.w, a, b)
         /\ lanewise(type, "subtract_saturated", a, b, c) = subs(type.s, type.w, a, b)
         /\ lanewise(type, "multiply_saturated", a, b, c) = 
                    IF bits = 128 THEN multiply_saturated_128(type, a, b)
                    ELSE multiply_saturated_256(type, a, b)
         /\ lanewise(type, "add_horizontal", a, b, c) = hadd(type.w, type.n, a, b)
         /\ lanewise(type, "subtract_horizontal", a, b, c) = hsub(type.w, type.n, a, b)
         /\ lanewise(type, "hadd_saturated", a, b, c) = hadd_saturated_epu16(type, a, b)
         /\ lanewise(type, "hsubtract_saturated", a, b, c) = hsubtract_saturated_epu16(type,
             a, b)
         /\ lanewise(type, "cmpeq", a, b, c) = cmpeq(type.w, a, b)
         /\ lanewise(type, "cmpgt", a, b, c) = IF bits = 128 THEN cmpgt_epu16(type.w, a, b)
                    ELSE cmpgt_by_max(type.w, a, b)
<1>0. type.s = FALSE /\ type.w = W16 /\ type.n = 8 /\ uint16.s = FALSE /\ uint16.w
          = W16 /\ uint16.n = 8
  BY FieldsAre, Zenon
<1>1. \A op : lanewise(type, op, a, b, c)
              = IF bits = 128 THEN SimdImpl128_uint16(op, a, b, c)
                              ELSE SimdImpl256_uint16(op, a, b, c)
  BY LanewiseTable, Zenon
<1>2. lanewise(type, "absolute", a, b, c) = abs(type.w, a)
  BY <1>0, <1>1 DEF SimdImpl128_uint16, SimdImpl256_uint16, Instruction
<1>3. lanewise(type, "negate", a, b, c) = sub(type.w, set1(a, 0), a)
  BY <1>0, <1>1 DEF SimdImpl128_uint16, SimdImpl256_uint16, Instruction
<1>4. lanewise(type, "min", a, b, c) = min(type.s, type.w, a, b)
  BY <1>0, <1>1 DEF SimdImpl128_uint16, SimdImpl256_uint16, Instruction
<1>5. lanewise(type, "max", a, b, c) = max(type.s, type.w, a, b)
  BY <1>0, <1>1 DEF SimdImpl128_uint16, SimdImpl256_uint16, Instruction
<1>6. lanewise(type, "avg", a, b, c) = avg(type.w, a, b)
  BY <1>0, <1>1 DEF SimdImpl128_uint16, SimdImpl256_uint16, Instruction
<1>7. lanewise(type, "shift_left", a, b, c) = slli(type.w, a, c)
  BY <1>0, <1>1 DEF SimdImpl128_uint16, SimdImpl256_uint16, Instruction
<1>8. lanewise(type, "shift_right", a, b, c) = srli(type.w, a, c)
  BY <1>0, <1>1 DEF SimdImpl128_uint16, SimdImpl256_uint16, Instruction
<1>9. lanewise(type, "shift_right_arithmetic", a, b, c) = srai(type.w, a, c)
  BY <1>0, <1>1 DEF SimdImpl128_uint16, SimdImpl256_uint16, Instruction
<1>10. lanewise(type, "add_saturated", a, b, c) = adds(type.s, type.w, a, b)
  BY <1>0, <1>1 DEF SimdImpl128_uint16, SimdImpl256_uint16, Instruction
<1>11. lanewise(type, "subtract_saturated", a, b, c) = subs(type.s, type.w, a, b)
  BY <1>0, <1>1 DEF SimdImpl128_uint16, SimdImpl256_uint16, Instruction
<1>12. lanewise(type, "multiply_saturated", a, b, c) = 
                    IF bits = 128 THEN multiply_saturated_128(type, a, b)
                    ELSE multiply_saturated_256(type, a, b)
  BY <1>0, <1>1 DEF SimdImpl128_uint16, SimdImpl256_uint16, Instruction
<1>13. lanewise(type, "add_horizontal", a, b, c) = hadd(type.w, type.n, a, b)
  BY <1>0, <1>1 DEF SimdImpl128_uint16, SimdImpl256_uint16, Instruction
<1>14. lanewise(type, "subtract_horizontal", a, b, c) = hsub(type.w, type.n, a, b)
  BY <1>0, <1>1 DEF SimdImpl128_uint16, SimdImpl256_uint16, Instruction
<1>15. lanewise(type, "hadd_saturated", a, b, c) = hadd_saturated_epu16(type, a, b)
  BY <1>0, <1>1 DEF SimdImpl128_uint16, SimdImpl256_uint16, Instruction
<1>16. lanewise(type, "hsubtract_saturated", a, b, c) = hsubtract_saturated_epu16(type, a, b)
  BY <1>0, <1>1 DEF SimdImpl128_uint16, SimdImpl256_uint16, Instruction
<1>17. lanewise(type, "cmpeq", a, b, c) = cmpeq(type.w, a, b)
  BY <1>0, <1>1 DEF SimdImpl128_uint16, SimdImpl256_uint16, Instruction
<1>18. lanewise(type, "cmpgt", a, b, c) = IF bits = 128 THEN cmpgt_epu16(type.w, a, b)
                    ELSE cmpgt_by_max(type.w, a, b)
  BY <1>0, <1>1 DEF SimdImpl128_uint16, SimdImpl256_uint16, Instruction
<1> QED BY <1>2, <1>3, <1>4, <1>5, <1>6, <1>7, <1>8, <1>9, <1>10, <1>11, <1>12, <1>13, <1>14,
   <1>15, <1>16, <1>17, <1>18, Zenon

\* The other operations of signed 32-bit lanes.
LEMMA Lanewise_int32 ==
  ASSUME type = int32, NEW a, NEW b, NEW c
  PROVE  /\ lanewise(type, "absolute", a, b, c) = abs(type.w, a)
         /\ lanewise(type, "negate", a, b, c) = sub(type.w, set1(a, 0), a)
         /\ lanewise(type, "min", a, b, c) = min(type.s, type.w, a, b)
         /\ lanewise(type, "max", a, b, c) = max(type.s, type.w, a, b)
         /\ lanewise(type, "shift_left", a, b, c) = slli(type.w, a, c)
         /\ lanewise(type, "shift_right", a, b, c) = srli(type.w, a, c)
         /\ lanewise(type, "shift_right_arithmetic", a, b, c) = srai(type.w, a, c)
         /\ lanewise(type, "add_horizontal", a, b, c) = hadd(type.w, type.n, a, b)
         /\ lanewise(type, "subtract_horizontal", a, b, c) = hsub(type.w, type.n, a, b)
         /\ lanewise(type, "cmpeq", a, b, c) = cmpeq(type.w, a, b)
         /\ lanewise(type, "cmpgt", a, b, c) = cmpgt(type.w, a, b)
<1>0. type.s = TRUE /\ type.w = W32 /\ type.n = 4 /\ int32.s = TRUE /\ int32.w
          = W32 /\ int32.n = 4
  BY FieldsAre, Zenon
<1>1. \A op : lanewise(type, op, a, b, c)
              = IF bits = 128 THEN SimdImpl128_int32(op, a, b, c)
                              ELSE SimdImpl256_int32(op, a, b, c)
  BY LanewiseTable, Zenon
<1>2. lanewise(type, "absolute", a, b, c) = abs(type.w, a)
  BY <1>0, <1>1 DEF SimdImpl128_int32, SimdImpl256_int32, Instruction
<1>3. lanewise(type, "negate", a, b, c) = sub(type.w, set1(a, 0), a)
  BY <1>0, <1>1 DEF SimdImpl128_int32, SimdImpl256_int32, Instruction
<1>4. lanewise(type, "min", a, b, c) = min(type.s, type.w, a, b)
  BY <1>0, <1>1 DEF SimdImpl128_int32, SimdImpl256_int32, Instruction
<1>5. lanewise(type, "max", a, b, c) = max(type.s, type.w, a, b)
  BY <1>0, <1>1 DEF SimdImpl128_int32, SimdImpl256_int32, Instruction
<1>6. lanewise(type, "shift_left", a, b, c) = slli(type.w, a, c)
  BY <1>0, <1>1 DEF SimdImpl128_int32, SimdImpl256_int32, Instruction
<1>7. lanewise(type, "shift_right", a, b, c) = srli(type.w, a, c)
  BY <1>0, <1>1 DEF SimdImpl128_int32, SimdImpl256_int32, Instruction
<1>8. lanewise(type, "shift_right_arithmetic", a, b, c) = srai(type.w, a, c)
  BY <1>0, <1>1 DEF SimdImpl128_int32, SimdImpl256_int32, Instruction
<1>9. lanewise(type, "add_horizontal", a, b, c) = hadd(type.w, type.n, a, b)
  BY <1>0, <1>1 DEF SimdImpl128_int32, SimdImpl256_int32, Instruction
<1>10. lanewise(type, "subtract_horizontal", a, b, c) = hsub(type.w, type.n, a, b)
  BY <1>0, <1>1 DEF SimdImpl128_int32, SimdImpl256_int32, Instruction
<1>11. lanewise(type, "cmpeq", a, b, c) = cmpeq(type.w, a, b)
  BY <1>0, <1>1 DEF SimdImpl128_int32, SimdImpl256_int32, Instruction
<1>12. lanewise(type, "cmpgt", a, b, c) = cmpgt(type.w, a, b)
  BY <1>0, <1>1 DEF SimdImpl128_int32, SimdImpl256_int32, Instruction
<1> QED BY <1>2, <1>3, <1>4, <1>5, <1>6, <1>7, <1>8, <1>9, <1>10, <1>11, <1>12, Zenon

\* The other operations of unsigned 32-bit lanes.
LEMMA Lanewise_uint32 ==
  ASSUME type = uint32, NEW a, NEW b, NEW c
  PROVE  /\ lanewise(type, "absolute", a, b, c) = abs(type.w, a)
         /\ lanewise(type, "negate", a, b, c) = sub(type.w, set1(a, 0), a)
         /\ lanewise(type, "min", a, b, c) = min(type.s, type.w, a, b)
         /\ lanewise(type, "max", a, b, c) = max(type.s, type.w, a, b)
         /\ lanewise(type, "shift_left", a, b, c) = slli(type.w, a, c)
         /\ lanewise(type, "shift_right", a, b, c) = srli(type.w, a, c)
         /\ lanewise(type, "shift_right_arithmetic", a, b, c) = srai(type.w, a, c)
         /\ lanewise(type, "add_horizontal", a, b, c) = hadd(type.w, type.n, a, b)
         /\ lanewise(type, "subtract_horizontal", a, b, c) = hsub(type.w, type.n, a, b)
         /\ lanewise(type, "cmpeq", a, b, c) = cmpeq(type.w, a, b)
         /\ lanewise(type, "cmpgt", a, b, c) = cmpgt_by_max(type.w, a, b)
<1>0. type.s = FALSE /\ type.w = W32 /\ type.n = 4 /\ uint32.s = FALSE /\ uint32.w
          = W32 /\ uint32.n = 4
  BY FieldsAre, Zenon
<1>1. \A op : lanewise(type, op, a, b, c)
              = IF bits = 128 THEN SimdImpl128_uint32(op, a, b, c)
                              ELSE SimdImpl256_uint32(op, a, b, c)
  BY LanewiseTable, Zenon
<1>2. lanewise(type, "absolute", a, b, c) = abs(type.w, a)
  BY <1>0, <1>1 DEF SimdImpl128_uint32, SimdImpl256_uint32, Instruction
<1>3. lanewise(type, "negate", a, b, c) = sub(type.w, set1(a, 0), a)
  BY <1>0, <1>1 DEF SimdImpl128_uint32, SimdImpl256_uint32, Instruction
<1>4. lanewise(type, "min", a, b, c) = min(type.s, type.w, a, b)
  BY <1>0, <1>1 DEF SimdImpl128_uint32, SimdImpl256_uint32, Instruction
<1>5. lanewise(type, "max", a, b, c) = max(type.s, type.w, a, b)
  BY <1>0, <1>1 DEF SimdImpl128_uint32, SimdImpl256_uint32, Instruction
<1>6. lanewise(type, "shift_left", a, b, c) = slli(type.w, a, c)
  BY <1>0, <1>1 DEF SimdImpl128_uint32, SimdImpl256_uint32, Instruction
<1>7. lanewise(type, "shift_right", a, b, c) = srli(type.w, a, c)
  BY <1>0, <1>1 DEF SimdImpl128_uint32, SimdImpl256_uint32, Instruction
<1>8. lanewise(type, "shift_right_arithmetic", a, b, c) = srai(type.w, a, c)
  BY <1>0, <1>1 DEF SimdImpl128_uint32, SimdImpl256_uint32, Instruction
<1>9. lanewise(type, "add_horizontal", a, b, c) = hadd(type.w, type.n, a, b)
  BY <1>0, <1>1 DEF SimdImpl128_uint32, SimdImpl256_uint32, Instruction
<1>10. lanewise(type, "subtract_horizontal", a, b, c) = hsub(type.w, type.n, a, b)
  BY <1>0, <1>1 DEF SimdImpl128_uint32, SimdImpl256_uint32, Instruction
<1>11. lanewise(type, "cmpeq", a, b, c) = cmpeq(type.w, a, b)
  BY <1>0, <1>1 DEF SimdImpl128_uint32, SimdImpl256_uint32, Instruction
<1>12. lanewise(type, "cmpgt", a, b, c) = cmpgt_by_max(type.w, a, b)
  BY <1>0, <1>1 DEF SimdImpl128_uint32, SimdImpl256_uint32, Instruction
<1> QED BY <1>2, <1>3, <1>4, <1>5, <1>6, <1>7, <1>8, <1>9, <1>10, <1>11, <1>12, Zenon

\* The other operations of signed 64-bit lanes.
LEMMA Lanewise_int64 ==
  ASSUME type = int64, NEW a, NEW b, NEW c
  PROVE  /\ lanewise(type, "absolute", a, b, c) = abs_epi64(type.w, a)
         /\ lanewise(type, "negate", a, b, c) = sub(type.w, set1(a, 0), a)
         /\ lanewise(type, "min", a, b, c) = min_epi64(type.w, a, b)
         /\ lanewise(type, "max", a, b, c) = max_epi64(type.w, a, b)
         /\ lanewise(type, "shift_left", a, b, c) = slli(type.w, a, c)
         /\ lanewise(type, "shift_right", a, b, c) = srli(type.w, a, c)
         /\ lanewise(type, "shift_right_arithmetic", a, b, c) = srai_epi64(type.w, a, c)
         /\ lanewise(type, "cmpeq", a, b, c) = cmpeq(type.w, a, b)
         /\ lanewise(type, "cmpgt", a, b, c) = cmpgt(type.w, a, b)
<1>0. type.s = TRUE /\ type.w = W64 /\ type.n = 2 /\ int64.s = TRUE /\ int64.w
          = W64 /\ int64.n = 2
  BY FieldsAre, Zenon
<1>1. \A op : lanewise(type, op, a, b, c)
              = IF bits = 128 THEN SimdImpl128_int64(op, a, b, c)
                              ELSE SimdImpl256_int64(op, a, b, c)
  BY LanewiseTable, Zenon
<1>2. lanewise(type, "absolute", a, b, c) = abs_epi64(type.w, a)
  BY <1>0, <1>1 DEF SimdImpl128_int64, SimdImpl256_int64, Instruction, Emulated64
<1>3. lanewise(type, "negate", a, b, c) = sub(type.w, set1(a, 0), a)
  BY <1>0, <1>1 DEF SimdImpl128_int64, SimdImpl256_int64, Instruction, Emulated64
<1>4. lanewise(type, "min", a, b, c) = min_epi64(type.w, a, b)
  BY <1>0, <1>1 DEF SimdImpl128_int64, SimdImpl256_int64, Instruction, Emulated64
<1>5. lanewise(type, "max", a, b, c) = max_epi64(type.w, a, b)
  BY <1>0, <1>1 DEF SimdImpl128_int64, SimdImpl256_int64, Instruction, Emulated64
<1>6. lanewise(type, "shift_left", a, b, c) = slli(type.w, a, c)
  BY <1>0, <1>1 DEF SimdImpl128_int64, SimdImpl256_int64, Instruction, Emulated64
<1>7. lanewise(type, "shift_right", a, b, c) = srli(type.w, a, c)
  BY <1>0, <1>1 DEF SimdImpl128_int64, SimdImpl256_int64, Instruction, Emulated64
<1>8. lanewise(type, "shift_right_arithmetic", a, b, c) = srai_epi64(type.w, a, c)
  BY <1>0, <1>1 DEF SimdImpl128_int64, SimdImpl256_int64, Instruction, Emulated64
<1>9. lanewise(type, "cmpeq", a, b, c) = cmpeq(type.w, a, b)
  BY <1>0, <1>1 DEF SimdImpl128_int64, SimdImpl256_int64, Instruction, Emulated64
<1>10. lanewise(type, "cmpgt", a, b, c) = cmpgt(type.w, a, b)
  BY <1>0, <1>1 DEF SimdImpl128_int64, SimdImpl256_int64, Instruction, Emulated64
<1> QED BY <1>2, <1>3, <1>4, <1>5, <1>6, <1>7, <1>8, <1>9, <1>10, Zenon

\* The other operations of unsigned 64-bit lanes.
LEMMA Lanewise_uint64 ==
  ASSUME type = uint64, NEW a, NEW b, NEW c
  PROVE  /\ lanewise(type, "absolute", a, b, c) = a
         /\ lanewise(type, "negate", a, b, c) = sub(type.w, set1(a, 0), a)
         /\ lanewise(type, "min", a, b, c) = min_epu64(type.w, a, b)
         /\ lanewise(type, "max", a, b, c) = max_epu64(type.w, a, b)
         /\ lanewise(type, "shift_left", a, b, c) = slli(type.w, a, c)
         /\ lanewise(type, "shift_right", a, b, c) = srli(type.w, a, c)
         /\ lanewise(type, "shift_right_arithmetic", a, b, c) = srai_epi64(type.w, a, c)
         /\ lanewise(type, "cmpeq", a, b, c) = cmpeq(type.w, a, b)
         /\ lanewise(type, "cmpgt", a, b, c) = cmpgt_epu64(type.w, a, b)
<1>0. type.s = FALSE /\ type.w = W64 /\ type.n = 2 /\ uint64.s = FALSE /\ uint64.w
          = W64 /\ uint64.n = 2
  BY FieldsAre, Zenon
<1>1. \A op : lanewise(type, op, a, b, c)
              = IF bits = 128 THEN SimdImpl128_uint64(op, a, b, c)
                              ELSE SimdImpl256_uint64(op, a, b, c)
  BY LanewiseTable, Zenon
<1>2. lanewise(type, "absolute", a, b, c) = a
  BY <1>0, <1>1 DEF SimdImpl128_uint64, SimdImpl256_uint64, Instruction, Emulated64
<1>3. lanewise(type, "negate", a, b, c) = sub(type.w, set1(a, 0), a)
  BY <1>0, <1>1 DEF SimdImpl128_uint64, SimdImpl256_uint64, Instruction, Emulated64
<1>4. lanewise(type, "min", a, b, c) = min_epu64(type.w, a, b)
  BY <1>0, <1>1 DEF SimdImpl128_uint64, SimdImpl256_uint64, Instruction, Emulated64
<1>5. lanewise(type, "max", a, b, c) = max_epu64(type.w, a, b)
  BY <1>0, <1>1 DEF SimdImpl128_uint64, SimdImpl256_uint64, Instruction, Emulated64
<1>6. lanewise(type, "shift_left", a, b, c) = slli(type.w, a, c)
  BY <1>0, <1>1 DEF SimdImpl128_uint64, SimdImpl256_uint64, Instruction, Emulated64
<1>7. lanewise(type, "shift_right", a, b, c) = srli(type.w, a, c)
  BY <1>0, <1>1 DEF SimdImpl128_uint64, SimdImpl256_uint64, Instruction, Emulated64
<1>8. lanewise(type, "shift_right_arithmetic", a, b, c) = srai_epi64(type.w, a, c)
  BY <1>0, <1>1 DEF SimdImpl128_uint64, SimdImpl256_uint64, Instruction, Emulated64
<1>9. lanewise(type, "cmpeq", a, b, c) = cmpeq(type.w, a, b)
  BY <1>0, <1>1 DEF SimdImpl128_uint64, SimdImpl256_uint64, Instruction, Emulated64
<1>10. lanewise(type, "cmpgt", a, b, c) = cmpgt_epu64(type.w, a, b)
  BY <1>0, <1>1 DEF SimdImpl128_uint64, SimdImpl256_uint64, Instruction, Emulated64
<1> QED BY <1>2, <1>3, <1>4, <1>5, <1>6, <1>7, <1>8, <1>9, <1>10, Zenon

\* An integer type: its lanes have a bit at least, and the widest an even number.
LEMMA TypeIs ==
  ASSUME type \in Types
  PROVE  /\ type.w \in Nat \ {0} /\ type.s \in BOOLEAN /\ type.n \in {2, 4, 8, 16}
         /\ type.n = 2 => type.w % 2 = 0
<1>1. {W8, W16, W32, W64} \subseteq Nat \ {0} /\ W64 % 2 = 0
  BY LaneAssumption

<1>2. CASE type = int8
  <2>1. type.w = W8 /\ type.n = 16 /\ type.s \in BOOLEAN
    BY <1>2, FieldsAre, Zenon
  <2>2. type.w \in Nat \ {0} /\ type.n \in {2, 4, 8, 16} /\ (type.n = 2 => type.w % 2 = 0)
    BY <1>1, <2>1
  <2> QED BY <2>1, <2>2, Zenon
<1>3. CASE type = uint8
  <2>1. type.w = W8 /\ type.n = 16 /\ type.s \in BOOLEAN
    BY <1>3, FieldsAre, Zenon
  <2>2. type.w \in Nat \ {0} /\ type.n \in {2, 4, 8, 16} /\ (type.n = 2 => type.w % 2 = 0)
    BY <1>1, <2>1
  <2> QED BY <2>1, <2>2, Zenon
<1>4. CASE type = int16
  <2>1. type.w = W16 /\ type.n = 8 /\ type.s \in BOOLEAN
    BY <1>4, FieldsAre, Zenon
  <2>2. type.w \in Nat \ {0} /\ type.n \in {2, 4, 8, 16} /\ (type.n = 2 => type.w % 2 = 0)
    BY <1>1, <2>1
  <2> QED BY <2>1, <2>2, Zenon
<1>5. CASE type = uint16
  <2>1. type.w = W16 /\ type.n = 8 /\ type.s \in BOOLEAN
    BY <1>5, FieldsAre, Zenon
  <2>2. type.w \in Nat \ {0} /\ type.n \in {2, 4, 8, 16} /\ (type.n = 2 => type.w % 2 = 0)
    BY <1>1, <2>1
  <2> QED BY <2>1, <2>2, Zenon
<1>6. CASE type = int32
  <2>1. type.w = W32 /\ type.n = 4 /\ type.s \in BOOLEAN
    BY <1>6, FieldsAre, Zenon
  <2>2. type.w \in Nat \ {0} /\ type.n \in {2, 4, 8, 16} /\ (type.n = 2 => type.w % 2 = 0)
    BY <1>1, <2>1
  <2> QED BY <2>1, <2>2, Zenon
<1>7. CASE type = uint32
  <2>1. type.w = W32 /\ type.n = 4 /\ type.s \in BOOLEAN
    BY <1>7, FieldsAre, Zenon
  <2>2. type.w \in Nat \ {0} /\ type.n \in {2, 4, 8, 16} /\ (type.n = 2 => type.w % 2 = 0)
    BY <1>1, <2>1
  <2> QED BY <2>1, <2>2, Zenon
<1>8. CASE type = int64
  <2>1. type.w = W64 /\ type.n = 2 /\ type.s \in BOOLEAN
    BY <1>8, FieldsAre, Zenon
  <2>2. type.w \in Nat \ {0} /\ type.n \in {2, 4, 8, 16} /\ (type.n = 2 => type.w % 2 = 0)
    BY <1>1, <2>1
  <2> QED BY <2>1, <2>2, Zenon
<1>9. CASE type = uint64
  <2>1. type.w = W64 /\ type.n = 2 /\ type.s \in BOOLEAN
    BY <1>9, FieldsAre, Zenon
  <2>2. type.w \in Nat \ {0} /\ type.n \in {2, 4, 8, 16} /\ (type.n = 2 => type.w % 2 = 0)
    BY <1>1, <2>1
  <2> QED BY <2>1, <2>2, Zenon
<1> QED BY <1>2, <1>3, <1>4, <1>5, <1>6, <1>7, <1>8, <1>9, Zenon DEF Types

\* What a call is, whatever the type.
LEMMA ArithmeticIs ==
  ASSUME type \in Types, NEW a, NEW b
  PROVE  /\ arithmetic(type, "add", a, b) = add(type.w, a, b)
         /\ arithmetic(type, "subtract", a, b) = sub(type.w, a, b)
         /\ type.n = 16 =>
              arithmetic(type, "multiply", a, b) = mul_epi8(type.w, a, b)
         /\ type.n = 2 =>
              arithmetic(type, "multiply", a, b) = mullo_epi64(type.w, a, b)
         /\ type.n \in {4, 8} =>
              arithmetic(type, "multiply", a, b) = mullo(type.w, a, b)
         /\ type.n = 16 =>
              arithmetic(type, "multiply_add_adjacent", a, b) = adjacent_by_extension(type,
                  a, b)
         /\ type.n = 8 /\ ~type.s =>
              arithmetic(type, "multiply_add_adjacent", a, b) = adjacent_by_extension(type,
                  a, b)
         /\ type.n = 8 /\ type.s =>
              arithmetic(type, "multiply_add_adjacent", a, b) = madd(type.w, a, b)
         /\ type.n = 4 =>
              arithmetic(type, "multiply_add_adjacent", a, b) = adjacent_by_parity(type, a, b)
         /\ type.n = 2 =>
              arithmetic(type, "multiply_add_adjacent", a, b) = adjacent_epi64(type, a, b)
         /\ arithmetic(type, "divide", a, b)
              = IF bits = 128 THEN div(type.s, type.w, a, b)
                   ELSE ext256_div(type.s, type.w, type.n, a, b)
         /\ arithmetic(type, "modulus", a, b)
              = IF bits = 128 THEN rem(type.s, type.w, a, b)
                   ELSE ext256_rem(type.s, type.w, type.n, a, b)
<1>1. CASE type = int8
  <2>1. type.s = TRUE /\ type.n = 16
    BY <1>1, FieldsAre, Zenon
  <2> QED BY <1>1, <2>1, Arithmetic_int8
<1>2. CASE type = uint8
  <2>1. type.s = FALSE /\ type.n = 16
    BY <1>2, FieldsAre, Zenon
  <2> QED BY <1>2, <2>1, Arithmetic_uint8
<1>3. CASE type = int16
  <2>1. type.s = TRUE /\ type.n = 8
    BY <1>3, FieldsAre, Zenon
  <2> QED BY <1>3, <2>1, Arithmetic_int16
<1>4. CASE type = uint16
  <2>1. type.s = FALSE /\ type.n = 8
    BY <1>4, FieldsAre, Zenon
  <2> QED BY <1>4, <2>1, Arithmetic_uint16
<1>5. CASE type = int32
  <2>1. type.s = TRUE /\ type.n = 4
    BY <1>5, FieldsAre, Zenon
  <2> QED BY <1>5, <2>1, Arithmetic_int32
<1>6. CASE type = uint32
  <2>1. type.s = FALSE /\ type.n = 4
    BY <1>6, FieldsAre, Zenon
  <2> QED BY <1>6, <2>1, Arithmetic_uint32
<1>7. CASE type = int64
  <2>1. type.s = TRUE /\ type.n = 2
    BY <1>7, FieldsAre, Zenon
  <2> QED BY <1>7, <2>1, Arithmetic_int64
<1>8. CASE type = uint64
  <2>1. type.s = FALSE /\ type.n = 2
    BY <1>8, FieldsAre, Zenon
  <2> QED BY <1>8, <2>1, Arithmetic_uint64
<1> QED BY <1>1, <1>2, <1>3, <1>4, <1>5, <1>6, <1>7, <1>8, Zenon DEF Types

\* The same of the operations on single lanes.
LEMMA LanewiseIs ==
  ASSUME type \in Types, NEW a, NEW b, NEW c
  PROVE  /\ type.n = 2 /\ type.s =>
              lanewise(type, "absolute", a, b, c) = abs_epi64(type.w, a)
         /\ type.n # 2 =>
              lanewise(type, "absolute", a, b, c) = abs(type.w, a)
         /\ lanewise(type, "negate", a, b, c) = sub(type.w, set1(a, 0), a)
         /\ type.n = 2 /\ type.s =>
              lanewise(type, "min", a, b, c) = min_epi64(type.w, a, b)
         /\ type.n = 2 /\ ~type.s =>
              lanewise(type, "min", a, b, c) = min_epu64(type.w, a, b)
         /\ type.n # 2 =>
              lanewise(type, "min", a, b, c) = min(type.s, type.w, a, b)
         /\ type.n = 2 /\ type.s =>
              lanewise(type, "max", a, b, c) = max_epi64(type.w, a, b)
         /\ type.n = 2 /\ ~type.s =>
              lanewise(type, "max", a, b, c) = max_epu64(type.w, a, b)
         /\ type.n # 2 =>
              lanewise(type, "max", a, b, c) = max(type.s, type.w, a, b)
         /\ type.n >= 8 /\ ~type.s =>
              lanewise(type, "avg", a, b, c) = avg(type.w, a, b)
         /\ type.n = 16 =>
              lanewise(type, "shift_left", a, b, c) = slli_epx8(type.w, a, c)
         /\ type.n # 16 =>
              lanewise(type, "shift_left", a, b, c) = slli(type.w, a, c)
         /\ type.n = 16 =>
              lanewise(type, "shift_right", a, b, c) = srli_epx8(type.w, a, c)
         /\ type.n # 16 =>
              lanewise(type, "shift_right", a, b, c) = srli(type.w, a, c)
         /\ type.n = 16 =>
              lanewise(type, "shift_right_arithmetic", a, b, c) = srai_epx8(type.w, a, c)
         /\ type.n = 2 =>
              lanewise(type, "shift_right_arithmetic", a, b, c) = srai_epi64(type.w, a, c)
         /\ type.n \in {4, 8} =>
              lanewise(type, "shift_right_arithmetic", a, b, c) = srai(type.w, a, c)
         /\ type.n >= 8 =>
              lanewise(type, "add_saturated", a, b, c) = adds(type.s, type.w, a, b)
         /\ type.n >= 8 =>
              lanewise(type, "subtract_saturated", a, b, c) = subs(type.s, type.w, a, b)
         /\ type.n = 8 =>
              lanewise(type, "multiply_saturated", a, b, c)
              = IF bits = 128 THEN multiply_saturated_128(type, a, b)
                   ELSE multiply_saturated_256(type, a, b)
         /\ type.n \in {4, 8} =>
              lanewise(type, "add_horizontal", a, b, c) = hadd(type.w, type.n, a, b)
         /\ type.n \in {4, 8} =>
              lanewise(type, "subtract_horizontal", a, b, c) = hsub(type.w, type.n, a, b)
         /\ type.n = 8 /\ type.s =>
              lanewise(type, "hadd_saturated", a, b, c) = hadds(type.w, type.n, a, b)
         /\ type.n = 8 /\ ~type.s =>
              lanewise(type, "hadd_saturated", a, b, c) = hadd_saturated_epu16(type, a, b)
         /\ type.n = 8 /\ type.s =>
              lanewise(type, "hsubtract_saturated", a, b, c) = hsubs(type.w, type.n, a, b)
         /\ type.n = 8 /\ ~type.s =>
              lanewise(type, "hsubtract_saturated", a, b,
                  c) = hsubtract_saturated_epu16(type, a, b)
         /\ lanewise(type, "cmpeq", a, b, c) = cmpeq(type.w, a, b)
         /\ type.s =>
              lanewise(type, "cmpgt", a, b, c) = cmpgt(type.w, a, b)
         /\ ~type.s /\ type.n = 2 =>
              lanewise(type, "cmpgt", a, b, c) = cmpgt_epu64(type.w, a, b)
         /\ ~type.s /\ type.n \in {4, 16} =>
              lanewise(type, "cmpgt", a, b, c) = cmpgt_by_max(type.w, a, b)
         /\ ~type.s /\ type.n = 8 =>
              lanewise(type, "cmpgt", a, b, c)
              = IF bits = 128 THEN cmpgt_epu16(type.w, a, b)
                   ELSE cmpgt_by_max(type.w, a, b)
<1>1. CASE type = int8
  <2>1. type.s = TRUE /\ type.n = 16
    BY <1>1, FieldsAre, Zenon
  <2> QED BY <1>1, <2>1, Lanewise_int8
<1>2. CASE type = uint8
  <2>1. type.s = FALSE /\ type.n = 16
    BY <1>2, FieldsAre, Zenon
  <2> QED BY <1>2, <2>1, Lanewise_uint8
<1>3. CASE type = int16
  <2>1. type.s = TRUE /\ type.n = 8
    BY <1>3, FieldsAre, Zenon
  <2> QED BY <1>3, <2>1, Lanewise_int16
<1>4. CASE type = uint16
  <2>1. type.s = FALSE /\ type.n = 8
    BY <1>4, FieldsAre, Zenon
  <2> QED BY <1>4, <2>1, Lanewise_uint16
<1>5. CASE type = int32
  <2>1. type.s = TRUE /\ type.n = 4
    BY <1>5, FieldsAre, Zenon
  <2> QED BY <1>5, <2>1, Lanewise_int32
<1>6. CASE type = uint32
  <2>1. type.s = FALSE /\ type.n = 4
    BY <1>6, FieldsAre, Zenon
  <2> QED BY <1>6, <2>1, Lanewise_uint32
<1>7. CASE type = int64
  <2>1. type.s = TRUE /\ type.n = 2
    BY <1>7, FieldsAre, Zenon
  <2> QED BY <1>7, <2>1, Lanewise_int64
<1>8. CASE type = uint64
  <2>1. type.s = FALSE /\ type.n = 2
    BY <1>8, FieldsAre, Zenon
  <2> QED BY <1>8, <2>1, Lanewise_uint64
<1> QED BY <1>1, <1>2, <1>3, <1>4, <1>5, <1>6, <1>7, <1>8, Zenon DEF Types

\* What is wanted of a lane, by operation.
LEMMA WantedIs ==
  ASSUME NEW x, NEW y
  PROVE  /\ Wanted("add", x, y) = Lane(type.w, x + y)
         /\ Wanted("subtract", x, y) = Lane(type.w, x - y)
         /\ Wanted("multiply", x, y) = Lane(type.w, x * y)
         /\ Wanted("divide", x, y) = Lane(type.w, Quotient(x, y))
         /\ Wanted("modulus", x, y) = Lane(type.w, x - y * Quotient(x, y))
         /\ Wanted("absolute", x, y) = Lane(type.w, Magnitude(x))
         /\ Wanted("negate", x, y) = Lane(type.w, -x)
         /\ Wanted("min", x, y) = Lane(type.w, IF x < y THEN x ELSE y)
         /\ Wanted("max", x, y) = Lane(type.w, IF x < y THEN y ELSE x)
         /\ Wanted("avg", x, y) = (x + y + 1) \div 2
         /\ Wanted("add_saturated", x, y) = Saturate(type.s, type.w, x + y)
         /\ Wanted("subtract_saturated", x, y) = Saturate(type.s, type.w, x - y)
         /\ Wanted("multiply_saturated", x, y) = Saturate(type.s, type.w, x * y)
         /\ Wanted("add_horizontal", x, y) = Lane(type.w, x + y)
         /\ Wanted("subtract_horizontal", x, y) = Lane(type.w, x - y)
         /\ Wanted("hadd_saturated", x, y) = Saturate(type.s, type.w, x + y)
         /\ Wanted("hsubtract_saturated", x, y) = Saturate(type.s, type.w, x - y)
BY DEF Wanted

\* The operands of a call on values are registers of lanes.
Count == type.n * (bits \div 128)

OperandsAreLanes ==
  /\ type \in Types /\ bits \in {128, 256}
  /\ lhs \in Register(type.w, Count) /\ rhs \in Register(type.w, Count)

\* The number of lanes by register width.
LEMMA CountIs ==
  ASSUME type \in Types, bits \in {128, 256}
  PROVE  /\ Count \in Nat
         /\ bits = 128 => Count = type.n
         /\ bits # 128 => Count = 2 * type.n
<1>1. type.n \in Nat
  BY TypeIs
<1>2. CASE bits = 128
  <2>1. bits \div 128 = 1
    BY <1>2
  <2> QED BY <1>1, <1>2, <2>1 DEF Count
<1>3. CASE bits = 256
  <2>1. bits \div 128 = 2
    BY <1>3
  <2> QED BY <1>1, <1>3, <2>1 DEF Count
<1> QED BY <1>2, <1>3

\* What operands of a call on values are.
LEMMA LanesAre ==
  ASSUME OperandsAreLanes
  PROVE  /\ DOMAIN lhs = First(Count) /\ DOMAIN rhs = First(Count)
         /\ LanesOf(lhs) = Count
         /\ \A k \in First(Count) : /\ lhs[k] \in Cells(type.w) /\ rhs[k] \in Cells(type.w)
                                    /\ number(lhs, k) \in Int /\ number(rhs, k) \in Int
<1>1. PICK N \in Nat : N = Count
  BY CountIs DEF OperandsAreLanes
<1>2. lhs \in Register(type.w, N) /\ rhs \in Register(type.w, N)
  BY <1>1 DEF OperandsAreLanes
<1>3. PICK w \in Nat \ {0} : w = type.w
  BY TypeIs DEF OperandsAreLanes
<1>4. DOMAIN lhs = First(N) /\ DOMAIN rhs = First(N) /\ LanesOf(lhs) = N
  BY <1>2, LaneOfRegister
<1>5. ASSUME NEW k \in First(N)
      PROVE  /\ lhs[k] \in Cells(w) /\ rhs[k] \in Cells(w)
             /\ number(lhs, k) \in Int /\ number(rhs, k) \in Int
  <2>1. lhs[k] \in Cells(w) /\ rhs[k] \in Cells(w)
    BY <1>2, <1>3, LaneOfRegister
  <2>2. PICK s : s = type.s
    BY Zenon
  <2>3. Value(s, w, lhs[k]) \in Int /\ Value(s, w, rhs[k]) \in Int
    BY <2>1, ValueIs
  <2> QED BY <1>3, <2>1, <2>2, <2>3, Zenon DEF number
<1> QED BY <1>1, <1>3, <1>4, <1>5

-------------------------------------------------------------------------------
(***************************************************************************)
(* What a call returns is what is wanted of it, for any operands.          *)
(***************************************************************************)

\* Sums, differences and products: what leaves the lane is cut off.
LEMMA SumExact ==
  ASSUME OperandsAreLanes, NEW k \in First(Count)
  PROVE  /\ arithmetic(type, "add", lhs, rhs)[k] = Wanted("add", number(lhs, k), number(rhs, k))
         /\ arithmetic(type, "subtract", lhs, rhs)[k] = Wanted("subtract", number(lhs, k),
             number(rhs, k))
         /\ arithmetic(type, "multiply", lhs, rhs)[k] = Wanted("multiply", number(lhs, k),
             number(rhs, k))
<1>s. PICK s : s = type.s
  BY Zenon
<1>w. PICK w \in Nat \ {0}, N \in Nat : w = type.w /\ N = Count /\ s = type.s
  BY <1>s, TypeIs, CountIs DEF OperandsAreLanes
<1>1. lhs \in Register(w, N) /\ rhs \in Register(w,
          N) /\ k \in First(N) /\ type \in Types /\ bits \in {128, 256}
  BY <1>w DEF OperandsAreLanes
<1>2. PICK a, b \in Cells(w) : a = lhs[k] /\ b = rhs[k]
  BY <1>w, LanesAre
<1>3. PICK x, y \in Int : x = number(lhs, k) /\ y = number(rhs, k)
  BY <1>w, LanesAre
<1>4. Lane(w, x + y) = Lane(w, a + b) /\ Lane(w, x - y) = Lane(w, a - b) /\ Lane(w,
          x * y) = Lane(w, a * b)
  <2>1. /\ Lane(w, Value(s, w, a) + Value(s, w, b)) = Lane(w, a + b)
        /\ Lane(w, Value(s, w, a) - Value(s, w, b)) = Lane(w, a - b)
        /\ Lane(w, Value(s, w, a) * Value(s, w, b)) = Lane(w, a * b)
    BY LaneOf
  <2>2. x = Value(s, w, a) /\ y = Value(s, w, b)
    BY <1>w, <1>2, <1>3, Zenon DEF number
  <2> QED BY <2>1, <2>2, Zenon
<1>5. add(w, lhs, rhs)[k] = Lane(w, a + b) /\ sub(w, lhs, rhs)[k] = Lane(w, a - b)
      /\ mullo(w, lhs, rhs)[k] = Lane(w, a * b)
  BY <1>1, <1>2, AddIs
<1>6. /\ Wanted("add", x, y) = Lane(w, x + y) /\ Wanted("subtract", x, y) = Lane(w, x - y)
      /\ Wanted("multiply", x, y) = Lane(w, x * y)
  BY <1>w, WantedIs
<1>7. arithmetic(type, "add", lhs, rhs) = add(w, lhs, rhs) /\ arithmetic(type, "subtract",
          lhs, rhs) = sub(w, lhs, rhs)
  BY <1>w, <1>1, ArithmeticIs
<1>8. arithmetic(type, "multiply", lhs, rhs)[k] = Lane(w, a * b)
  <2>1. type.n \in {2, 4, 8, 16} /\ (type.n = 2 => w % 2 = 0)
    BY <1>w, <1>1, TypeIs
  <2>2. CASE type.n = 16
    <3>1. arithmetic(type, "multiply", lhs, rhs) = mul_epi8(w, lhs, rhs)
      BY <1>w, <1>1, <2>2, ArithmeticIs
    <3>2. PICK m \in Nat : N = 2 * m
      BY <1>w, <1>1, <2>2, CountIs, 8 \in Nat, 16 \in Nat
    <3>3. lhs \in Register(w, 2 * m) /\ rhs \in Register(w, 2 * m) /\ k \in First(2 * m)
      BY <1>1, <3>2
    <3>4. mul_epi8(w, lhs, rhs)[k] = Lane(w, lhs[k] * rhs[k])
      BY <3>3, MulEpi8Is
    <3> QED BY <1>2, <3>1, <3>4, Zenon
  <2>3. CASE type.n = 2
    <3>1. arithmetic(type, "multiply", lhs, rhs) = mullo_epi64(w, lhs, rhs)
      BY <1>w, <1>1, <2>3, ArithmeticIs
    <3>2. mullo_epi64(w, lhs, rhs)[k] = Lane(w, lhs[k] * rhs[k])
      BY <1>1, <2>1, <2>3, MulloEpi64Is
    <3> QED BY <1>2, <3>1, <3>2, Zenon
  <2>4. CASE type.n \in {4, 8}
    <3>1. arithmetic(type, "multiply", lhs, rhs) = mullo(w, lhs, rhs)
      BY <1>w, <1>1, <2>4, ArithmeticIs
    <3> QED BY <1>5, <3>1, Zenon
  <2> QED BY <2>1, <2>2, <2>3, <2>4
<1> QED BY <1>3, <1>4, <1>5, <1>6, <1>7, <1>8, Zenon

\* Quotients and remainders of non-zero divisors: the lowest value by minus one
\* wraps where it is defined.
LEMMA NotZero ==
  ASSUME NEW w \in Nat \ {0}, NEW s, NEW b \in Cells(w), b # 0
  PROVE  Value(s, w, b) # 0
<1>1. b - 2 ^ w # 0
  BY Base DEF Cells
<1>2. CASE s /\ b >= SignBit(w)
  BY <1>1, <1>2, Zenon DEF Value
<1>3. CASE ~(s /\ b >= SignBit(w))
  BY <1>3, Zenon DEF Value
<1> QED BY <1>2, <1>3, Zenon

\* Quotients and remainders.
LEMMA DivisionExact ==
  ASSUME OperandsAreLanes, NEW k \in First(Count), rhs[k] # 0
  PROVE  /\ arithmetic(type, "divide", lhs, rhs)[k] = Wanted("divide", number(lhs, k),
             number(rhs, k))
         /\ arithmetic(type, "modulus", lhs, rhs)[k] = Wanted("modulus", number(lhs, k),
             number(rhs, k))
<1>s. PICK s : s = type.s
  BY Zenon
<1>w. PICK w \in Nat \ {0}, N \in Nat,
          n \in Nat : w = type.w /\ N = Count /\ n = type.n /\ s = type.s
  BY <1>s, TypeIs, CountIs DEF OperandsAreLanes
<1>1. lhs \in Register(w, N) /\ rhs \in Register(w,
          N) /\ k \in First(N) /\ type \in Types /\ bits \in {128, 256}
  BY <1>w DEF OperandsAreLanes
<1>2. PICK x, y \in Int : x = number(lhs, k) /\ y = number(rhs, k)
  BY <1>w, LanesAre
<1>3. x = Value(s, w, lhs[k]) /\ y = Value(s, w, rhs[k])
  BY <1>w, <1>2, Zenon DEF number
<1>4. y # 0
  <2>1. rhs[k] \in Cells(w)
    BY <1>w, LanesAre
  <2> QED BY <1>3, <2>1, NotZero, Zenon
<1>5. Remainder(x, y) = x - y * Quotient(x, y)
  BY <1>4, RemainderIs
<1>6. /\ Wanted("divide", x, y) = Lane(w, Quotient(x, y))
      /\ Wanted("modulus", x, y) = Lane(w, x - y * Quotient(x, y))
  BY <1>w, WantedIs
<1>7. /\ arithmetic(type, "divide", lhs, rhs) = IF bits = 128 THEN div(s, w, lhs,
          rhs) ELSE ext256_div(s, w, n, lhs, rhs)
      /\ arithmetic(type, "modulus", lhs, rhs) = IF bits = 128 THEN rem(s, w, lhs,
          rhs) ELSE ext256_rem(s, w, n, lhs, rhs)
  BY <1>w, <1>1, ArithmeticIs
<1>8. CASE bits = 128
  <2>1. /\ div(s, w, lhs, rhs)[k] = Lane(w, Quotient(Value(s, w, lhs[k]), Value(s, w, rhs[k])))
        /\ rem(s, w, lhs, rhs)[k] = Lane(w, Remainder(Value(s, w, lhs[k]), Value(s, w, rhs[k])))
    <3>1. lhs \in Register(w, N) /\ rhs \in Register(w, N) /\ k \in First(N)
      BY <1>1
    <3> QED BY <3>1, DivRemAre, SMTT(60)
  <2> QED BY <1>2, <1>3, <1>5, <1>6, <1>7, <1>8, <2>1, Zenon
<1>9. CASE bits # 128
  <2>1. N = 2 * n
    BY <1>w, <1>1, <1>9, CountIs
  <2>2. lhs \in Register(w, 2 * n) /\ rhs \in Register(w, 2 * n) /\ k \in First(2 * n)
    BY <1>1, <2>1
  <2>3. /\ ext256_div(s, w, n, lhs, rhs)[k] = Lane(w, Quotient(x, y))
        /\ ext256_rem(s, w, n, lhs, rhs)[k] = Lane(w, Remainder(x, y))
    BY <1>3, <2>2, DivisionIs
  <2> QED BY <1>2, <1>5, <1>6, <1>7, <1>9, <2>3, Zenon
<1> QED BY <1>8, <1>9

\* MagnitudeChecked of signed lanes, and opposites.
LEMMA UnaryExact ==
  ASSUME OperandsAreLanes, NEW k \in First(Count), NEW y
  PROVE  /\ type.s => lanewise(type, "absolute", lhs, lhs, 0)[k] = Wanted("absolute",
             number(lhs, k), y)
         /\ lanewise(type, "negate", lhs, lhs, 0)[k] = Wanted("negate", number(lhs, k), y)
<1>s. PICK s : s = type.s
  BY Zenon
<1>w. PICK w \in Nat \ {0}, N \in Nat : w = type.w /\ N = Count /\ s = type.s
  BY <1>s, TypeIs, CountIs DEF OperandsAreLanes
<1>1. lhs \in Register(w, N) /\ k \in First(N) /\ type \in Types
  BY <1>w DEF OperandsAreLanes
<1>2. PICK x \in Int : x = number(lhs, k) /\ x = Value(s, w, lhs[k])
  <2>1. number(lhs, k) \in Int
    BY <1>w, LanesAre
  <2>2. number(lhs, k) = Value(s, w, lhs[k])
    BY <1>w, Zenon DEF number
  <2> QED BY <2>1, <2>2, Zenon
<1>3. Wanted("absolute", x, y) = Lane(w, Magnitude(x)) /\ Wanted("negate", x, y) = Lane(w, -x)
  BY <1>w, WantedIs
<1>4. lanewise(type, "negate", lhs, lhs, 0)[k] = Lane(w, -x)
  <2>1. lanewise(type, "negate", lhs, lhs, 0) = sub(w, set1(lhs, 0), lhs)
    BY <1>w, <1>1, LanewiseIs
  <2>2. sub(w, set1(lhs, 0), lhs)[k] = Lane(w, -Value(s, w, lhs[k]))
    BY <1>1, NegateIs
  <2> QED BY <1>2, <2>1, <2>2, Zenon
<1>5. ASSUME type.s
      PROVE  lanewise(type, "absolute", lhs, lhs, 0)[k] = Lane(w, Magnitude(x))
  <2>1. x = Value(TRUE, w, lhs[k])
    <3>1. s = TRUE
      <4>1. type.s \in BOOLEAN
        BY <1>1, TypeIs
      <4> QED BY <1>w, <1>5, <4>1, Zenon
    <3> QED BY <1>2, <3>1, Zenon
  <2>2. CASE type.n = 2
    <3>1. lanewise(type, "absolute", lhs, lhs, 0) = abs_epi64(w, lhs)
      BY <1>w, <1>1, <1>5, <2>2, LanewiseIs
    <3>2. abs_epi64(w, lhs)[k] = Lane(w, Magnitude(Value(TRUE, w, lhs[k])))
      BY <1>1, AbsEpi64Is
    <3> QED BY <2>1, <3>1, <3>2, Zenon
  <2>3. CASE type.n # 2
    <3>1. lanewise(type, "absolute", lhs, lhs, 0) = abs(w, lhs)
      BY <1>w, <1>1, <2>3, LanewiseIs
    <3>2. abs(w, lhs)[k] = Lane(w, Magnitude(Value(TRUE, w, lhs[k])))
      BY <1>1, AbsIs
    <3> QED BY <2>1, <3>1, <3>2, Zenon
  <2> QED BY <2>2, <2>3, Zenon
<1> QED BY <1>2, <1>3, <1>4, <1>5, Zenon

\* The lesser, the greater and the mean.
LEMMA ExtremumExact ==
  ASSUME OperandsAreLanes, NEW k \in First(Count)
  PROVE  /\ lanewise(type, "min", lhs, rhs, 0)[k] = Wanted("min", number(lhs, k), number(rhs,
             k))
         /\ lanewise(type, "max", lhs, rhs, 0)[k] = Wanted("max", number(lhs, k), number(rhs,
             k))
         /\ type.n >= 8 /\ ~type.s =>
              lanewise(type, "avg", lhs, rhs, 0)[k] = Wanted("avg", number(lhs, k),
                  number(rhs, k))
<1>s. PICK s : s = type.s
  BY Zenon
<1>w. PICK w \in Nat \ {0}, N \in Nat : w = type.w /\ N = Count /\ s = type.s
  BY <1>s, TypeIs, CountIs DEF OperandsAreLanes
<1>1. lhs \in Register(w, N) /\ rhs \in Register(w, N) /\ k \in First(N) /\ type \in Types
  BY <1>w DEF OperandsAreLanes
<1>2. PICK x, y \in Int : x = number(lhs, k) /\ y = number(rhs, k)
  BY <1>w, LanesAre
<1>3. x = Value(s, w, lhs[k]) /\ y = Value(s, w, rhs[k])
  BY <1>w, <1>2, Zenon DEF number
<1>4. /\ Wanted("min", x, y) = Lane(w, IF x < y THEN x ELSE y)
      /\ Wanted("max", x, y) = Lane(w, IF x < y THEN y ELSE x)
      /\ Wanted("avg", x, y) = (x + y + 1) \div 2
  <2>1. /\ Wanted("min", x, y) = Lane(type.w, IF x < y THEN x ELSE y)
        /\ Wanted("max", x, y) = Lane(type.w, IF x < y THEN y ELSE x)
        /\ Wanted("avg", x, y) = (x + y + 1) \div 2
    BY DEF Wanted
  <2> QED BY <1>w, <2>1, Zenon
<1>5. /\ lanewise(type, "min", lhs, rhs, 0)[k] = Lane(w, IF x < y THEN x ELSE y)
      /\ lanewise(type, "max", lhs, rhs, 0)[k] = Lane(w, IF x < y THEN y ELSE x)
  <2>1. CASE type.n = 2 /\ type.s
    <3>1. lanewise(type, "min", lhs, rhs, 0) = min_epi64(w, lhs, rhs) /\ lanewise(type,
              "max", lhs, rhs, 0) = max_epi64(w, lhs, rhs)
      BY <1>w, <1>1, <2>1, LanewiseIs
    <3>2. x = AsSigned(w, lhs[k]) /\ y = AsSigned(w, rhs[k])
      <4>1. s = TRUE
        <5>1. type.s \in BOOLEAN
          BY <1>1, TypeIs
        <5> QED BY <1>w, <2>1, <5>1, Zenon
      <4> QED BY <1>3, <4>1, Zenon DEF AsSigned
    <3>3. /\ min_epi64(w, lhs, rhs)[k] = Lane(w, IF x < y THEN x ELSE y)
          /\ max_epi64(w, lhs, rhs)[k] = Lane(w, IF x < y THEN y ELSE x)
      BY <1>1, <3>2, ExtremaEpi64
    <3> QED BY <3>1, <3>3, Zenon
  <2>2. CASE type.n = 2 /\ ~type.s
    <3>1. lanewise(type, "min", lhs, rhs, 0) = min_epu64(w, lhs, rhs) /\ lanewise(type,
              "max", lhs, rhs, 0) = max_epu64(w, lhs, rhs)
      BY <1>w, <1>1, <2>2, LanewiseIs
    <3>2. x = lhs[k] /\ y = rhs[k]
      BY <1>w, <1>3, <2>2, Zenon DEF Value
    <3>3. /\ min_epu64(w, lhs, rhs)[k] = Lane(w, IF x < y THEN x ELSE y)
          /\ max_epu64(w, lhs, rhs)[k] = Lane(w, IF x < y THEN y ELSE x)
      BY <1>1, <3>2, ExtremaEpu64
    <3> QED BY <3>1, <3>3, Zenon
  <2>3. CASE type.n # 2
    <3>1. lanewise(type, "min", lhs, rhs, 0) = min(s, w, lhs, rhs) /\ lanewise(type, "max",
              lhs, rhs, 0) = max(s, w, lhs, rhs)
      BY <1>w, <1>1, <2>3, LanewiseIs
    <3>2. /\ min(s, w, lhs, rhs)[k] = Lane(w, IF Value(s, w, lhs[k]) < Value(s, w,
              rhs[k]) THEN Value(s, w, lhs[k]) ELSE Value(s, w, rhs[k]))
          /\ max(s, w, lhs, rhs)[k] = Lane(w, IF Value(s, w, lhs[k]) < Value(s, w,
              rhs[k]) THEN Value(s, w, rhs[k]) ELSE Value(s, w, lhs[k]))
      BY <1>1, ExtremaAre
    <3> QED BY <1>3, <3>1, <3>2, Zenon
  <2> QED BY <2>1, <2>2, <2>3, Zenon
<1>6. ASSUME type.n >= 8, ~type.s
      PROVE  lanewise(type, "avg", lhs, rhs, 0)[k] = (x + y + 1) \div 2
  <2>1. lanewise(type, "avg", lhs, rhs, 0) = avg(w, lhs, rhs)
    BY <1>w, <1>1, <1>6, LanewiseIs
  <2>2. x = lhs[k] /\ y = rhs[k]
    BY <1>w, <1>3, <1>6, Zenon DEF Value
  <2>3. avg(w, lhs, rhs)[k] = (lhs[k] + rhs[k] + 1) \div 2
    BY <1>1, AvgIs
  <2> QED BY <2>1, <2>2, <2>3, Zenon
<1> QED BY <1>2, <1>4, <1>5, <1>6, Zenon

\* Saturating sums, differences and products.
LEMMA SaturatingExact ==
  ASSUME OperandsAreLanes, type.n >= 8, NEW k \in First(Count)
  PROVE  /\ lanewise(type, "add_saturated", lhs, rhs, 0)[k]
              = Wanted("add_saturated", number(lhs, k), number(rhs, k))
         /\ lanewise(type, "subtract_saturated", lhs, rhs, 0)[k]
              = Wanted("subtract_saturated", number(lhs, k), number(rhs, k))
<1>s. PICK s : s = type.s
  BY Zenon
<1>w. PICK w \in Nat \ {0}, N \in Nat : w = type.w /\ N = Count /\ s = type.s
  BY <1>s, TypeIs, CountIs DEF OperandsAreLanes
<1>1. lhs \in Register(w, N) /\ rhs \in Register(w, N) /\ k \in First(N) /\ type \in Types
  BY <1>w DEF OperandsAreLanes
<1>2. PICK x, y : x = number(lhs, k) /\ y = number(rhs, k) /\ x = Value(s, w,
          lhs[k]) /\ y = Value(s, w, rhs[k])
  BY <1>w, Zenon DEF number
<1>3. /\ Wanted("add_saturated", x, y) = Saturate(s, w, x + y)
      /\ Wanted("subtract_saturated", x, y) = Saturate(s, w, x - y)
  BY <1>w, WantedIs
<1>4. /\ lanewise(type, "add_saturated", lhs, rhs, 0) = adds(s, w, lhs, rhs)
      /\ lanewise(type, "subtract_saturated", lhs, rhs, 0) = subs(s, w, lhs, rhs)
  BY <1>w, <1>1, LanewiseIs
<1>5. /\ adds(s, w, lhs, rhs)[k] = Saturate(s, w, Value(s, w, lhs[k]) + Value(s, w, rhs[k]))
      /\ subs(s, w, lhs, rhs)[k] = Saturate(s, w, Value(s, w, lhs[k]) - Value(s, w, rhs[k]))
  BY <1>1, SaturatingAre
<1> QED BY <1>2, <1>3, <1>4, <1>5, Zenon

\* An unsigned product of 2^(2w-1) and more is out: the instruction that packs takes
\* it for a negative number.
LEMMA MultiplySaturatedExact ==
  ASSUME OperandsAreLanes, type.n = 8, NEW k \in First(Count),
         type.s \/ ~(number(lhs, k) * number(rhs, k) >= SignBit(2 * type.w))
  PROVE  lanewise(type, "multiply_saturated", lhs, rhs, 0)[k]
           = Wanted("multiply_saturated", number(lhs, k), number(rhs, k))
<1>w. PICK w \in Nat \ {0}, N \in Nat, s \in BOOLEAN : w = type.w /\ N = Count /\ s = type.s
  BY TypeIs, CountIs DEF OperandsAreLanes
<1>1. lhs \in Register(w, N) /\ rhs \in Register(w,
          N) /\ k \in First(N) /\ type \in Types /\ bits \in {128, 256}
  BY <1>w DEF OperandsAreLanes
<1>2. PICK a, b \in Cells(w) : a = lhs[k] /\ b = rhs[k]
  BY <1>w, LanesAre
<1>3. PICK z : z = number(lhs, k) * number(rhs, k) /\ z = Value(s, w, a) * Value(s, w, b)
  BY <1>w, <1>2, Zenon DEF number
<1>4. z \in Int /\ z >= -SignBit(2 * w) /\ (s => z < SignBit(2 * w))
  BY <1>3, ProductRange, Zenon
<1>5. z < SignBit(2 * w)
  <2>1. CASE s
    BY <1>4, <2>1, Zenon
  <2>2. CASE ~s
    <3>1. ~(z >= SignBit(2 * w))
      BY <1>w, <1>3, <2>2, Zenon
    <3>2. SignBit(2 * w) \in Int
      BY Base, 2 * w \in Nat \ {0}
    <3> QED BY <1>4, <3>1, <3>2
  <2> QED BY <2>1, <2>2, Zenon
<1>6. Wanted("multiply_saturated", number(lhs, k), number(rhs, k)) = Saturate(type.s, type.w, z)
  <2>1. \A x, y : Wanted("multiply_saturated", x, y) = Saturate(type.s, type.w, x * y)
    BY WantedIs
  <2> QED BY <1>3, <2>1, Zenon
<1>7. lanewise(type, "multiply_saturated", lhs, rhs, 0)
        = IF bits = 128 THEN multiply_saturated_128(type, lhs,
            rhs) ELSE multiply_saturated_256(type, lhs, rhs)
  BY <1>1, LanewiseIs
<1>8. PICK t : t = type
  BY Zenon
<1>9. /\ t.w \in Nat \ {0} /\ t.n = 8 /\ z \in Int /\ z = Value(t.s, t.w,
          lhs[k]) * Value(t.s, t.w, rhs[k])
      /\ z >= -SignBit(2 * t.w) /\ z < SignBit(2 * t.w)
  BY <1>w, <1>2, <1>3, <1>4, <1>5, <1>8, Zenon
<1>10. CASE bits = 128
  <2>1. N = 8
    BY <1>w, <1>1, <1>10, CountIs
  <2>2. lhs \in Register(t.w, 8) /\ rhs \in Register(t.w, 8) /\ k \in First(8)
    BY <1>w, <1>1, <1>8, <2>1, Zenon
  <2>3. multiply_saturated_128(t, lhs, rhs)[k] = Saturate(t.s, t.w, z)
    BY <1>9, <2>2, Multiply128
  <2> QED BY <1>6, <1>7, <1>8, <1>10, <2>3, Zenon
<1>11. CASE bits # 128
  <2>1. N = 16
    BY <1>w, <1>1, <1>11, CountIs
  <2>2. lhs \in Register(t.w, 16) /\ rhs \in Register(t.w, 16) /\ k \in First(16)
    BY <1>w, <1>1, <1>8, <2>1, Zenon
  <2>3. multiply_saturated_256(t, lhs, rhs)[k] = Saturate(t.s, t.w, z)
    BY <1>9, <2>2, Multiply256
  <2> QED BY <1>6, <1>7, <1>8, <1>11, <2>3, Zenon
<1> QED BY <1>10, <1>11, Zenon

\* The two numbers a lane of a horizontal call is made of.
FirstOfPair(k) ==
  IF k % type.n < type.n \div 2 THEN number(lhs, Place(type.n, k)) ELSE number(rhs,
      Place(type.n, k))
SecondOfPair(k) ==
  IF k % type.n < type.n \div 2 THEN number(lhs, Place(type.n, k) + 1) ELSE number(rhs,
      Place(type.n, k) + 1)

\* The pair as lanes of the operands.
LEMMA PairIs ==
  ASSUME NEW k
  PROVE  /\ FirstOfPair(k) = Value(type.s, type.w, LeftOf(type.n, lhs, rhs, k))
         /\ SecondOfPair(k) = Value(type.s, type.w, RightOf(type.n, lhs, rhs, k))
<1>1. CASE k % type.n < type.n \div 2
  BY <1>1, Zenon DEF FirstOfPair, SecondOfPair, LeftOf, RightOf, number
<1>2. CASE ~(k % type.n < type.n \div 2)
  BY <1>2, Zenon DEF FirstOfPair, SecondOfPair, LeftOf, RightOf, number
<1> QED BY <1>1, <1>2, Zenon

\* Operations on adjacent pairs.
LEMMA HorizontalExact ==
  ASSUME OperandsAreLanes, type.n \in {4, 8}, NEW k \in First(Count)
  PROVE  /\ lanewise(type, "add_horizontal", lhs, rhs, 0)[k]
              = Wanted("add_horizontal", FirstOfPair(k), SecondOfPair(k))
         /\ lanewise(type, "subtract_horizontal", lhs, rhs, 0)[k]
              = Wanted("subtract_horizontal", FirstOfPair(k), SecondOfPair(k))
<1>s. PICK s : s = type.s
  BY Zenon
<1>w. PICK w \in Nat \ {0}, N \in Nat : w = type.w /\ N = Count /\ s = type.s
  BY <1>s, TypeIs, CountIs DEF OperandsAreLanes
<1>1. lhs \in Register(w, N) /\ rhs \in Register(w,
          N) /\ k \in First(N) /\ type \in Types /\ bits \in {128, 256}
  BY <1>w DEF OperandsAreLanes
<1>n. PICK n \in {4, 8} : n = type.n
  BY Zenon
<1>2. N \in {n, 2 * n}
  BY <1>w, <1>n, <1>1, CountIs
<1>3. PICK l, r : l = LeftOf(n, lhs, rhs, k) /\ r = RightOf(n, lhs, rhs, k)
  BY Zenon
<1>4. /\ hadd(w, n, lhs, rhs)[k] = Lane(w, Value(s, w, l) + Value(s, w, r))
      /\ hsub(w, n, lhs, rhs)[k] = Lane(w, Value(s, w, l) - Value(s, w, r))
  BY <1>1, <1>2, <1>3, PairsAre
<1>5. PICK x, y : x = FirstOfPair(k) /\ y = SecondOfPair(k) /\ x = Value(s, w,
          l) /\ y = Value(s, w, r)
  BY <1>w, <1>n, <1>3, PairIs, Zenon
<1>6. /\ Wanted("add_horizontal", x, y) = Lane(w, x + y)
      /\ Wanted("subtract_horizontal", x, y) = Lane(w, x - y)
  BY <1>w, WantedIs
<1>7. /\ lanewise(type, "add_horizontal", lhs, rhs, 0) = hadd(w, n, lhs, rhs)
      /\ lanewise(type, "subtract_horizontal", lhs, rhs, 0) = hsub(w, n, lhs, rhs)
  BY <1>w, <1>n, <1>1, LanewiseIs
<1> QED BY <1>4, <1>5, <1>6, <1>7, Zenon

\* The instructions that saturate are there for signed lanes only.
LEMMA SaturatedPairs ==
  ASSUME type \in Types, type.n = 8
  PROVE  /\ type.s => lanewise(type, "hadd_saturated", lhs, rhs, 0) = hadds(type.w, type.n,
             lhs, rhs)
         /\ type.s => lanewise(type, "hsubtract_saturated", lhs, rhs, 0) = hsubs(type.w,
             type.n, lhs, rhs)
         /\ ~type.s => lanewise(type, "hadd_saturated", lhs, rhs,
             0) = hadd_saturated_epu16(type, lhs, rhs)
         /\ ~type.s => lanewise(type, "hsubtract_saturated", lhs, rhs,
             0) = hsubtract_saturated_epu16(type, lhs, rhs)
<1>1. ASSUME type.s
      PROVE  lanewise(type, "hadd_saturated", lhs, rhs, 0) = hadds(type.w, type.n, lhs, rhs)
  BY <1>1, LanewiseIs, ZenonT(60)
<1>2. ASSUME type.s
      PROVE  lanewise(type, "hsubtract_saturated", lhs, rhs, 0) = hsubs(type.w, type.n, lhs,
                 rhs)
  BY <1>2, LanewiseIs, ZenonT(60)
<1>3. ASSUME ~type.s
      PROVE  lanewise(type, "hadd_saturated", lhs, rhs, 0) = hadd_saturated_epu16(type, lhs,
                 rhs)
  BY <1>3, LanewiseIs, ZenonT(60)
<1>4. ASSUME ~type.s
      PROVE  lanewise(type, "hsubtract_saturated", lhs, rhs,
                 0) = hsubtract_saturated_epu16(type, lhs, rhs)
  BY <1>4, LanewiseIs, ZenonT(60)
<1> QED BY <1>1, <1>2, <1>3, <1>4, Zenon

\* And the saturating ones.
LEMMA HorizontalSaturatedExact ==
  ASSUME OperandsAreLanes, type.n = 8, NEW k \in First(Count)
  PROVE  /\ lanewise(type, "hadd_saturated", lhs, rhs, 0)[k]
              = Wanted("hadd_saturated", FirstOfPair(k), SecondOfPair(k))
         /\ lanewise(type, "hsubtract_saturated", lhs, rhs, 0)[k]
              = Wanted("hsubtract_saturated", FirstOfPair(k), SecondOfPair(k))
<1>s. PICK s : s = type.s
  BY Zenon
<1>w. PICK w \in Nat \ {0}, N \in Nat : w = type.w /\ N = Count /\ s = type.s
  BY <1>s, TypeIs, CountIs DEF OperandsAreLanes
<1>1. lhs \in Register(w, N) /\ rhs \in Register(w,
          N) /\ k \in First(N) /\ type \in Types /\ bits \in {128, 256}
  BY <1>w DEF OperandsAreLanes
<1>2. PICK M \in {4, 8} : N = 2 * M
  BY <1>w, <1>1, CountIs
<1>3. PICK l, r : l = LeftOf(8, lhs, rhs, k) /\ r = RightOf(8, lhs, rhs, k)
  BY Zenon
<1>5. PICK x, y : x = FirstOfPair(k) /\ y = SecondOfPair(k) /\ x = Value(s, w,
          l) /\ y = Value(s, w, r)
  BY <1>w, <1>3, PairIs, Zenon
<1>6. /\ Wanted("hadd_saturated", x, y) = Saturate(s, w, x + y)
      /\ Wanted("hsubtract_saturated", x, y) = Saturate(s, w, x - y)
  BY <1>w, WantedIs
<1>8. CASE s
  <2>1. /\ lanewise(type, "hadd_saturated", lhs, rhs, 0) = hadds(w, 8, lhs, rhs)
        /\ lanewise(type, "hsubtract_saturated", lhs, rhs, 0) = hsubs(w, 8, lhs, rhs)
    <3>1. type.s
      BY <1>w, <1>8, Zenon
    <3>0. type \in Types
      BY <1>1
    <3>2. /\ lanewise(type, "hadd_saturated", lhs, rhs, 0) = hadds(type.w, type.n, lhs, rhs)
          /\ lanewise(type, "hsubtract_saturated", lhs, rhs, 0) = hsubs(type.w, type.n, lhs,
              rhs)
      BY <3>0, <3>1, SaturatedPairs, Zenon
    <3> QED BY <1>w, <3>2, Zenon
  <2>2. k \in DOMAIN lhs
    BY <1>1, LaneOfRegister
  <2>3. /\ hadds(w, 8, lhs, rhs)[k] = SaturateSigned(w, AsSigned(w, l) + AsSigned(w, r))
        /\ hsubs(w, 8, lhs, rhs)[k] = SaturateSigned(w, AsSigned(w, l) - AsSigned(w, r))
    BY <1>3, <2>2, HorizontalIs
  <2>4. s = TRUE
    BY <1>8, Zenon
  <2>5. x = AsSigned(w, l) /\ y = AsSigned(w, r)
    BY <1>5, <2>4, Zenon DEF AsSigned
  <2>6. /\ hadds(w, 8, lhs, rhs)[k] = Saturate(s, w, x + y)
        /\ hsubs(w, 8, lhs, rhs)[k] = Saturate(s, w, x - y)
    BY <2>3, <2>4, <2>5, Zenon DEF SaturateSigned
  <2> QED BY <1>5, <1>6, <2>1, <2>6, Zenon
<1>9. CASE ~s
  <2>1. /\ lanewise(type, "hadd_saturated", lhs, rhs, 0) = hadd_saturated_epu16(type, lhs, rhs)
        /\ lanewise(type, "hsubtract_saturated", lhs, rhs,
            0) = hsubtract_saturated_epu16(type, lhs, rhs)
    <3>0. type \in Types /\ ~type.s
      BY <1>w, <1>1, <1>9, Zenon
    <3> QED BY <3>0, SaturatedPairs, Zenon
  <2>2. PICK t : t = type
    BY Zenon
  <2>3. t.w \in Nat \ {0} /\ t.n = 8 /\ lhs \in Register(t.w, 2 * M) /\ rhs \in Register(t.w,
            2 * M) /\ k \in First(2 * M)
    BY <1>w, <1>1, <1>2, <2>2, Zenon
  <2>4. /\ hadd_saturated_epu16(t, lhs, rhs)[k]
             = Saturate(s, t.w, LeftOf(8, lhs, rhs, k) + RightOf(8, lhs, rhs, k))
        /\ hsubtract_saturated_epu16(t, lhs, rhs)[k]
             = Saturate(s, t.w, LeftOf(8, lhs, rhs, k) - RightOf(8, lhs, rhs, k))
    <3>1. s = FALSE
      <4>1. type.s \in BOOLEAN
        BY <1>1, TypeIs
      <4> QED BY <1>9, <1>w, <4>1, Zenon
    <3>2. /\ hadd_saturated_epu16(t, lhs, rhs)[k]
               = SaturateUnsigned(t.w, LeftOf(8, lhs, rhs, k) + RightOf(8, lhs, rhs, k))
          /\ hsubtract_saturated_epu16(t, lhs, rhs)[k]
               = SaturateUnsigned(t.w, LeftOf(8, lhs, rhs, k) - RightOf(8, lhs, rhs, k))
      BY <2>3, PairsEpu16
    <3> QED BY <3>1, <3>2, Zenon DEF SaturateUnsigned
  <2>5. x = l /\ y = r
    BY <1>5, <1>9, Zenon DEF Value
  <2> QED BY <1>w, <1>3, <1>5, <1>6, <2>1, <2>2, <2>4, <2>5, Zenon
<1> QED BY <1>8, <1>9, Zenon

\* Which function adds adjacent products, by type.
LEMMA AdjacentTable ==
  ASSUME type \in Types, NEW r, r = arithmetic(type, "multiply_add_adjacent", lhs, rhs)
  PROVE  /\ type.n = 2 => r = adjacent_epi64(type, lhs, rhs)
         /\ type.n = 4 => r = adjacent_by_parity(type, lhs, rhs)
         /\ type.n = 8 /\ type.s => r = madd(type.w, lhs, rhs)
         /\ type.n = 8 /\ ~type.s => r = adjacent_by_extension(type, lhs, rhs)
         /\ type.n = 16 => r = adjacent_by_extension(type, lhs, rhs)
<1>1. ASSUME type.n = 2
      PROVE  r = adjacent_epi64(type, lhs, rhs)
  BY <1>1, ArithmeticIs, ZenonT(60)
<1>2. ASSUME type.n = 4
      PROVE  r = adjacent_by_parity(type, lhs, rhs)
  BY <1>2, ArithmeticIs, ZenonT(60)
<1>3. ASSUME type.n = 8, type.s
      PROVE  r = madd(type.w, lhs, rhs)
  BY <1>3, ArithmeticIs, ZenonT(60)
<1>4. ASSUME type.n = 8, ~type.s
      PROVE  r = adjacent_by_extension(type, lhs, rhs)
  BY <1>4, ArithmeticIs, ZenonT(60)
<1>5. ASSUME type.n = 16
      PROVE  r = adjacent_by_extension(type, lhs, rhs)
  BY <1>5, ArithmeticIs, ZenonT(60)
<1> QED BY <1>1, <1>2, <1>3, <1>4, <1>5, Zenon

\* Adjacent products: a sum fills the lanes of both, or the lower of two 64-bit lanes.
LEMMA AdjacentExact ==
  ASSUME OperandsAreLanes, NEW k \in First(LanesOf(lhs) \div 2),
         NEW r, r = arithmetic(type, "multiply_add_adjacent", lhs, rhs)
  PROVE  /\ type.n = 2 => r[2 * k] = Lane(type.w, PairSum(type, lhs, rhs,
             k)) /\ r[2 * k + 1] = 0
         /\ type.n # 2 => r[k] = Lane(2 * type.w, PairSum(type, lhs, rhs, k))
<1>1. type \in Types /\ bits \in {128, 256}
  BY DEF OperandsAreLanes
<1>2. PICK N \in Nat : N = Count /\ LanesOf(lhs) = N /\ (bits = 128 =>
          N = type.n) /\ (bits # 128 => N = 2 * type.n)
  BY <1>1, CountIs, LanesAre
<1>3. lhs \in Register(type.w, N) /\ rhs \in Register(type.w, N) /\ k \in First(N \div 2)
  BY <1>2, Zenon DEF OperandsAreLanes
<1>4. PICK t : t = type
  BY Zenon
<1>5. t.w \in Nat \ {0} /\ t.n \in {2, 4, 8, 16} /\ (t.n = 2 => t.w % 2 = 0)
  BY <1>1, <1>4, TypeIs
<1>6. CASE t.n = 2
  <2>1. r = adjacent_epi64(t, lhs, rhs)
    BY <1>1, <1>4, <1>6, AdjacentTable, Zenon
  <2>2. PICK m \in {1, 2} : N = 2 * m /\ N \div 2 = m
    BY <1>2, <1>4, <1>6
  <2>3. lhs \in Register(t.w, 2 * m) /\ rhs \in Register(t.w,
            2 * m) /\ k \in First(m) /\ t.w % 2 = 0
    BY <1>3, <1>4, <1>5, <1>6, <2>2, Zenon
  <2>4. /\ adjacent_epi64(t, lhs, rhs)[2 * k] = Lane(t.w, PairSum(t, lhs, rhs, k))
        /\ adjacent_epi64(t, lhs, rhs)[2 * k + 1] = 0
    BY <1>5, <1>6, <2>3, AdjacentEpi64Is
  <2> QED BY <1>4, <1>6, <2>1, <2>4, Zenon
<1>7. CASE t.n = 4
  <2>1. r = adjacent_by_parity(t, lhs, rhs)
    BY <1>1, <1>4, <1>7, AdjacentTable, Zenon
  <2>2. PICK m \in {2, 4} : N = 2 * m /\ N \div 2 = m
    BY <1>2, <1>4, <1>7
  <2>3. lhs \in Register(t.w, 2 * m) /\ rhs \in Register(t.w, 2 * m) /\ k \in First(m)
    BY <1>3, <1>4, <2>2, Zenon
  <2>4. adjacent_by_parity(t, lhs, rhs)[k] = Lane(2 * t.w, PairSum(t, lhs, rhs, k))
    BY <1>5, <1>7, <2>3, ByParity
  <2> QED BY <1>4, <1>7, <2>1, <2>4
<1>8. ASSUME t.n \in {8, 16}, r = adjacent_by_extension(t, lhs, rhs)
      PROVE  r[k] = Lane(2 * t.w, PairSum(t, lhs, rhs, k))
  <2>1. PICK m \in {4, 8} : t.n = 2 * m
    BY <1>8
  <2>2. CASE bits = 128
    <3>1. N = 2 * m /\ N \div 2 = m
      BY <1>2, <1>4, <2>1, <2>2
    <3>2. lhs \in Register(t.w, 2 * m) /\ rhs \in Register(t.w, 2 * m) /\ k \in First(m)
      BY <1>3, <1>4, <3>1, Zenon
    <3>3. adjacent_by_extension(t, lhs, rhs)[k] = Lane(2 * t.w, PairSum(t, lhs, rhs, k))
      BY <1>5, <2>1, <3>2, ByExtension128
    <3> QED BY <1>8, <3>3, Zenon
  <2>3. CASE bits # 128
    <3>1. N = 4 * m /\ N \div 2 = 2 * m
      BY <1>2, <1>4, <2>1, <2>3
    <3>2. lhs \in Register(t.w, 4 * m) /\ rhs \in Register(t.w, 4 * m) /\ k \in First(2 * m)
      BY <1>3, <1>4, <3>1, Zenon
    <3>3. adjacent_by_extension(t, lhs, rhs)[k] = Lane(2 * t.w, PairSum(t, lhs, rhs, k))
      BY <1>5, <2>1, <3>2, ByExtension256
    <3> QED BY <1>8, <3>3, Zenon
  <2> QED BY <2>2, <2>3, Zenon
<1>9. CASE t.n = 16
  <2>1. r = adjacent_by_extension(t, lhs, rhs)
    BY <1>1, <1>4, <1>9, AdjacentTable, Zenon
  <2> QED BY <1>4, <1>8, <1>9, <2>1
<1>10. CASE t.n = 8
  <2>1. CASE type.s
    <3>1. r = madd(t.w, lhs, rhs)
      BY <1>1, <1>4, <1>10, <2>1, AdjacentTable, Zenon
    <3>2. PICK m \in Nat : N = 2 * m /\ N \div 2 = m
      BY <1>2, <1>4, <1>10, 4 \in Nat, 8 \in Nat
    <3>3. lhs \in Register(t.w, 2 * m) /\ k \in First(m)
      BY <1>3, <1>4, <3>2, Zenon
    <3>4. t.s = TRUE
      <4>1. type.s \in BOOLEAN
        BY <1>1, TypeIs
      <4> QED BY <1>4, <2>1, <4>1, Zenon
    <3>5. madd(t.w, lhs, rhs)[k] = Lane(2 * t.w, PairSum(t, lhs, rhs, k))
      BY <3>3, <3>4, MaddIs
    <3> QED BY <1>4, <1>10, <3>1, <3>5
  <2>2. CASE ~type.s
    <3>1. r = adjacent_by_extension(t, lhs, rhs)
      BY <1>1, <1>4, <1>10, <2>2, AdjacentTable, Zenon
    <3> QED BY <1>4, <1>8, <1>10, <3>1
  <2> QED BY <2>1, <2>2, Zenon
<1> QED BY <1>5, <1>6, <1>7, <1>9, <1>10

\* The numbers call op should leave in r.
Exact(op, r) ==
  /\ op \in LaneOperationNames /\ ~(op = "absolute" /\ ~type.s) =>
       \A k \in DOMAIN lhs :
         \/ op = "multiply_saturated" /\ ~type.s /\ number(lhs, k) * number(rhs,
             k) >= SignBit(2 * type.w)
         \/ r[k] = Wanted(op, number(lhs, k), number(rhs, k))
  /\ op \in PairOperations =>
      \A k \in DOMAIN lhs : r[k] = Wanted(op, FirstOfPair(k), SecondOfPair(k))
  /\ op = "multiply_add_adjacent" =>
       \A k \in First(LanesOf(lhs) \div 2) :
         /\ type.n = 2 => r[2 * k] = Lane(type.w, PairSum(type, lhs, rhs,
             k)) /\ r[2 * k + 1] = 0
         /\ type.n # 2 => r[k] = Lane(2 * type.w, PairSum(type, lhs, rhs, k))

-------------------------------------------------------------------------------
(***************************************************************************)
(* The invariants.                                                         *)
(***************************************************************************)

\* Then the invariant holds.
LEMMA ExactIs ==
  Exact(call.op, result) => ArithmeticIsExact
<1> SUFFICES ASSUME Exact(call.op, result)
    PROVE ArithmeticIsExact
  OBVIOUS
<1>1. ASSUME NEW k
      PROVE /\ (k - (k % type.n)) + 2 * (k % (type.n \div 2)) = Place(type.n, k)
            /\ PairSum(type, lhs, rhs, k) = number(lhs, 2 * k) * number(rhs,
                2 * k) + number(lhs, 2 * k + 1) * number(rhs, 2 * k + 1)
  BY Zenon DEF Place, PairSum, Product, number
<1>2. call.op \in LaneOperationNames /\ ~(call.op = "absolute" /\ ~type.s) =>
       \A k \in DOMAIN lhs :
         \/ call.op = "multiply_saturated" /\ ~type.s /\ number(lhs, k) * number(rhs,
             k) >= SignBit(2 * type.w)
         \/ result[k] = Wanted(call.op, number(lhs, k), number(rhs, k))
  BY Zenon DEF Exact
<1>3. call.op \in PairOperations =>
          \A k \in DOMAIN lhs : result[k] = Wanted(call.op, FirstOfPair(k), SecondOfPair(k))
  BY Zenon DEF Exact
<1>4. call.op = "multiply_add_adjacent" =>
       \A k \in First(LanesOf(lhs) \div 2) :
         /\ type.n = 2 => result[2 * k] = Lane(type.w, PairSum(type, lhs, rhs,
             k)) /\ result[2 * k + 1] = 0
         /\ type.n # 2 => result[k] = Lane(2 * type.w, PairSum(type, lhs, rhs, k))
  BY Zenon DEF Exact
<1> QED BY <1>1, <1>2, <1>3, <1>4 DEF ArithmeticIsExact, FirstOfPair, SecondOfPair

\* A call leaves the numbers of its operands and what is wanted of them.
LEMMA SameNumbers ==
  ASSUME UNCHANGED operands
  PROVE  \A v, k : number(v, k)' = number(v, k)
BY DEF operands, number

\* Nor is anything else wanted of them.
LEMMA SameWanted ==
  ASSUME UNCHANGED operands
  PROVE  \A op, x, y : Wanted(op, x, y)' = Wanted(op, x, y)
BY DEF operands, Wanted

\* Nor are their pairs others.
LEMMA SamePairs ==
  ASSUME UNCHANGED operands
  PROVE  \A k : FirstOfPair(k)' = FirstOfPair(k) /\ SecondOfPair(k)' = SecondOfPair(k)
BY DEF operands, FirstOfPair, SecondOfPair, number

\* A call leaves its operands, so that its result can be judged before it returns.
LEMMA SameExact ==
  ASSUME UNCHANGED operands, Exact(call'.op, result')
  PROVE Exact(call.op, result)'
<1>1. type' = type /\ lhs' = lhs /\ rhs' = rhs
  BY DEF operands
<1>2. /\ \A v, k : number(v, k)' = number(v, k)
      /\ \A op, x, y : Wanted(op, x, y)' = Wanted(op, x, y)
      /\ \A k : FirstOfPair(k)' = FirstOfPair(k) /\ SecondOfPair(k)' = SecondOfPair(k)
  BY SameNumbers, SameWanted, SamePairs
<1> QED BY <1>1, <1>2 DEF Exact

\* Of an operation lane by lane.
LEMMA LanesExact ==
  ASSUME OperandsAreLanes, NEW op \in LaneOperationNames, NEW r,
         \A k \in First(Count) :
            \/ op = "absolute" /\ ~type.s
            \/ op = "multiply_saturated" /\ ~type.s /\ number(lhs, k) * number(rhs,
                k) >= SignBit(2 * type.w)
            \/ r[k] = Wanted(op, number(lhs, k), number(rhs, k))
  PROVE  Exact(op, r)
<1>1. DOMAIN lhs = First(Count)
  BY LanesAre
<1>2. op \notin PairOperations /\ op # "multiply_add_adjacent"
  BY DEF LaneOperationNames, PairOperations
<1> QED BY <1>1, <1>2, Zenon DEF Exact

\* Of an operation on pairs.
LEMMA PairsExact ==
  ASSUME OperandsAreLanes, NEW op \in PairOperations, NEW r,
         \A k \in First(Count) : r[k] = Wanted(op, FirstOfPair(k), SecondOfPair(k))
  PROVE  Exact(op, r)
<1>1. DOMAIN lhs = First(Count)
  BY LanesAre
<1>2. op \notin LaneOperationNames /\ op # "multiply_add_adjacent"
  BY DEF LaneOperationNames, PairOperations
<1> QED BY <1>1, <1>2, Zenon DEF Exact

\* The sums of adjacent products are.
LEMMA ProductsExact ==
  ASSUME OperandsAreLanes
  PROVE  Exact("multiply_add_adjacent", arithmetic(type, "multiply_add_adjacent", lhs, rhs))
<1>1. PICK r : r = arithmetic(type, "multiply_add_adjacent", lhs, rhs)
  BY Zenon
<1>2. \A k \in First(LanesOf(lhs) \div 2) :
         /\ type.n = 2 => r[2 * k] = Lane(type.w, PairSum(type, lhs, rhs,
             k)) /\ r[2 * k + 1] = 0
         /\ type.n # 2 => r[k] = Lane(2 * type.w, PairSum(type, lhs, rhs, k))
  BY <1>1, AdjacentExact
<1>3. "multiply_add_adjacent" \notin LaneOperationNames /\
          "multiply_add_adjacent" \notin PairOperations
  BY DEF LaneOperationNames, PairOperations
<1> QED BY <1>1, <1>2, <1>3, Zenon DEF Exact

\* Nothing is claimed of an operation that is not on numbers.
LEMMA OthersExact ==
  ASSUME NEW op, NEW r, op \notin LaneOperationNames, op \notin PairOperations,
             op # "multiply_add_adjacent"
  PROVE  Exact(op, r)
BY Zenon DEF Exact

\* Sums, differences and products are.
LEMMA SumsExact ==
  ASSUME OperandsAreLanes, NEW op \in {"add", "subtract", "multiply"}
  PROVE  Exact(op, arithmetic(type, op, lhs, rhs))
<1>1. PICK r : r = arithmetic(type, op, lhs, rhs)
  BY Zenon
<1>2. op \in LaneOperationNames
  BY DEF LaneOperationNames
<1>3. ASSUME NEW k \in First(Count)
      PROVE  r[k] = Wanted(op, number(lhs, k), number(rhs, k))
  <2>1. /\ arithmetic(type, "add", lhs, rhs)[k] = Wanted("add", number(lhs, k), number(rhs, k))
        /\ arithmetic(type, "subtract", lhs, rhs)[k] = Wanted("subtract", number(lhs, k),
            number(rhs, k))
        /\ arithmetic(type, "multiply", lhs, rhs)[k] = Wanted("multiply", number(lhs, k),
            number(rhs, k))
    BY SumExact
  <2> QED BY <1>1, <2>1, Zenon
<1>4. Exact(op, r)
  BY <1>2, <1>3, LanesExact
<1> QED BY <1>1, <1>4, Zenon

\* Quotients and remainders are, of divisors other than zero.
LEMMA QuotientsExact ==
  ASSUME OperandsAreLanes, \A k \in DOMAIN rhs : rhs[k] # 0, NEW op \in {"divide", "modulus"}
  PROVE  Exact(op, arithmetic(type, op, lhs, rhs))
<1>1. PICK r : r = arithmetic(type, op, lhs, rhs)
  BY Zenon
<1>2. op \in LaneOperationNames
  BY DEF LaneOperationNames
<1>3. ASSUME NEW k \in First(Count)
      PROVE  r[k] = Wanted(op, number(lhs, k), number(rhs, k))
  <2>0. rhs[k] # 0
    BY LanesAre
  <2>1. /\ arithmetic(type, "divide", lhs, rhs)[k] = Wanted("divide", number(lhs, k),
            number(rhs, k))
        /\ arithmetic(type, "modulus", lhs, rhs)[k] = Wanted("modulus", number(lhs, k),
            number(rhs, k))
    BY <2>0, DivisionExact
  <2> QED BY <1>1, <2>1, Zenon
<1>4. Exact(op, r)
  BY <1>2, <1>3, LanesExact
<1> QED BY <1>1, <1>4, Zenon

\* MagnitudeChecked and opposites are.
LEMMA UnariesExact ==
  ASSUME OperandsAreLanes, NEW op \in {"absolute", "negate"}
  PROVE  Exact(op, lanewise(type, op, lhs, lhs, 0))
<1>1. PICK r : r = lanewise(type, op, lhs, lhs, 0)
  BY Zenon
<1>2. op \in LaneOperationNames
  BY DEF LaneOperationNames
<1>3. ASSUME NEW k \in First(Count)
      PROVE  (op = "absolute" /\ ~type.s) \/ r[k] = Wanted(op, number(lhs, k), number(rhs, k))
  <2>1. /\ type.s => lanewise(type, "absolute", lhs, lhs, 0)[k] = Wanted("absolute",
            number(lhs, k), number(rhs, k))
        /\ lanewise(type, "negate", lhs, lhs, 0)[k] = Wanted("negate", number(lhs, k),
            number(rhs, k))
    BY UnaryExact, Zenon
  <2> QED BY <1>1, <2>1, Zenon
<1>4. Exact(op, r)
  BY <1>2, <1>3, LanesExact
<1> QED BY <1>1, <1>4, Zenon

\* The lesser, the greater and the mean are.
LEMMA ExtremaExact ==
  ASSUME OperandsAreLanes,
         NEW op \in {"min", "max"} \cup (IF ~type.s /\ type.n >= 8 THEN {"avg"} ELSE {})
  PROVE  Exact(op, lanewise(type, op, lhs, rhs, 0))
<1>0. op \in {"min", "max"} \/ (op = "avg" /\ type.n >= 8 /\ ~type.s)
  BY Zenon
<1>1. PICK r : r = lanewise(type, op, lhs, rhs, 0)
  BY Zenon
<1>2. op \in LaneOperationNames
  BY <1>0 DEF LaneOperationNames
<1>3. ASSUME NEW k \in First(Count)
      PROVE  r[k] = Wanted(op, number(lhs, k), number(rhs, k))
  <2>1. /\ lanewise(type, "min", lhs, rhs, 0)[k] = Wanted("min", number(lhs, k), number(rhs, k))
        /\ lanewise(type, "max", lhs, rhs, 0)[k] = Wanted("max", number(lhs, k), number(rhs, k))
        /\ type.n >= 8 /\ ~type.s =>
             lanewise(type, "avg", lhs, rhs, 0)[k] = Wanted("avg", number(lhs, k),
                 number(rhs, k))
    BY ExtremumExact, Zenon
  <2> QED BY <1>0, <1>1, <2>1, Zenon
<1>4. Exact(op, r)
  BY <1>2, <1>3, LanesExact
<1> QED BY <1>1, <1>4, Zenon

\* Saturating operations are.
LEMMA SaturatedExact ==
  ASSUME OperandsAreLanes, type.n >= 8,
         NEW op \in {"add_saturated", "subtract_saturated"}
                      \cup (IF type.n = 8 THEN {"multiply_saturated"} ELSE {})
  PROVE  Exact(op, lanewise(type, op, lhs, rhs, 0))
<1>0. op \in {"add_saturated",
          "subtract_saturated"} \/ (op = "multiply_saturated" /\ type.n = 8)
  <2>1. CASE type.n = 8
    BY <2>1, Zenon
  <2>2. CASE type.n # 8
    BY <2>2, Zenon
  <2> QED BY <2>1, <2>2, Zenon
<1>1. PICK r : r = lanewise(type, op, lhs, rhs, 0)
  BY Zenon
<1>2. op \in LaneOperationNames
  BY <1>0 DEF LaneOperationNames
<1>3. ASSUME NEW k \in First(Count)
      PROVE  \/ op = "multiply_saturated" /\ ~type.s /\ number(lhs, k) * number(rhs,
                 k) >= SignBit(2 * type.w)
             \/ r[k] = Wanted(op, number(lhs, k), number(rhs, k))
  <2>1. /\ lanewise(type, "add_saturated", lhs, rhs, 0)[k]
             = Wanted("add_saturated", number(lhs, k), number(rhs, k))
        /\ lanewise(type, "subtract_saturated", lhs, rhs, 0)[k]
             = Wanted("subtract_saturated", number(lhs, k), number(rhs, k))
    BY SaturatingExact, Zenon
  <2>2. type.n = 8 /\ (type.s \/ ~(number(lhs, k) * number(rhs, k) >= SignBit(2 * type.w))) =>
          lanewise(type, "multiply_saturated", lhs, rhs, 0)[k]
            = Wanted("multiply_saturated", number(lhs, k), number(rhs, k))
    BY MultiplySaturatedExact, Zenon
  <2> QED BY <1>0, <1>1, <2>1, <2>2, Zenon
<1>4. Exact(op, r)
  BY <1>2, <1>3, LanesExact, Zenon
<1> QED BY <1>1, <1>4, Zenon

\* Operations on pairs are.
LEMMA HorizontalsExact ==
  ASSUME OperandsAreLanes, type.n \in {4, 8},
         NEW op \in {"add_horizontal", "subtract_horizontal"}
                      \cup (IF type.n = 8 THEN {"hadd_saturated",
                          "hsubtract_saturated"} ELSE {})
  PROVE  Exact(op, lanewise(type, op, lhs, rhs, 0))
<1>0. \/ op \in {"add_horizontal", "subtract_horizontal"}
      \/ op \in {"hadd_saturated", "hsubtract_saturated"} /\ type.n = 8
  <2>1. CASE type.n = 8
    BY <2>1, Zenon
  <2>2. CASE type.n # 8
    BY <2>2, Zenon
  <2> QED BY <2>1, <2>2, Zenon
<1>1. PICK r : r = lanewise(type, op, lhs, rhs, 0)
  BY Zenon
<1>2. op \in PairOperations
  BY <1>0 DEF PairOperations
<1>3. ASSUME NEW k \in First(Count)
      PROVE  r[k] = Wanted(op, FirstOfPair(k), SecondOfPair(k))
  <2>1. /\ lanewise(type, "add_horizontal", lhs, rhs, 0)[k]
             = Wanted("add_horizontal", FirstOfPair(k), SecondOfPair(k))
        /\ lanewise(type, "subtract_horizontal", lhs, rhs, 0)[k]
             = Wanted("subtract_horizontal", FirstOfPair(k), SecondOfPair(k))
    BY HorizontalExact, Zenon
  <2>2. type.n = 8 =>
        /\ lanewise(type, "hadd_saturated", lhs, rhs, 0)[k]
             = Wanted("hadd_saturated", FirstOfPair(k), SecondOfPair(k))
        /\ lanewise(type, "hsubtract_saturated", lhs, rhs, 0)[k]
             = Wanted("hsubtract_saturated", FirstOfPair(k), SecondOfPair(k))
    BY HorizontalSaturatedExact, Zenon
  <2> QED BY <1>0, <1>1, <2>1, <2>2, Zenon
<1>4. Exact(op, r)
  BY <1>2, <1>3, PairsExact, Zenon
<1> QED BY <1>1, <1>4, Zenon

\* The invariant: the operands of a call on values are registers of its type.
OperandsFit ==
  /\ type \in Types /\ bits \in {128, 256}
  /\ view \in {"values", "bytes"}
  /\ view = "values" => lhs \in Register(type.w, Count) /\ rhs \in Register(type.w, Count)
  /\ view = "bytes" => lhs = Tags(bits, 1) /\ rhs = Tags(bits, 65)

\* A pattern is a register, whatever its stride.
LEMMA PatternIs ==
  ASSUME type \in Types, bits \in {128, 256}, NEW x \in Values(type), NEW stride \in Int
  PROVE  Pattern(type, bits, x, stride) \in Register(type.w, Count)
<1>w. PICK w \in Nat \ {0}, n \in Nat : w = type.w /\ n = Count
  BY TypeIs, CountIs
<1>1. x \in Int
  BY <1>w DEF Values, First
<1>2. ASSUME NEW k \in First(n)
      PROVE  Lane(w, x + stride * ((k * (k + 1)) \div 2)) \in Cells(w)
  <2>1. k \in Int
    BY DEF First
  <2>2. PICK j \in Int : j = k * (k + 1)
    <3>1. k * (k + 1) \in Int
      BY <2>1
    <3> QED BY <3>1, Zenon
  <2>3. PICK i \in Int : i = stride * (j \div 2)
    <3>1. PICK h \in Int : h = j \div 2
      OBVIOUS
    <3>2. stride * h \in Int
      OBVIOUS
    <3> QED BY <3>1, <3>2, Zenon
  <2>4. Lane(w, x + i) \in Cells(w)
    <3>1. x + i \in Int
      BY <1>1
    <3> QED BY <3>1, LaneType
  <2> QED BY <2>2, <2>3, <2>4, Zenon
<1>3. lanes(type, bits) = First(n)
  BY <1>w, Zenon DEF lanes, Count
<1>4. Pattern(type, bits, x, stride) = [k \in First(n) |-> Lane(w,
          x + stride * ((k * (k + 1)) \div 2))]
  BY <1>w, <1>3 DEF Pattern
<1>5. [k \in First(n) |-> Lane(w, x + stride * ((k * (k + 1)) \div 2))] \in Register(w, n)
  BY <1>2 DEF Register
<1> QED BY <1>w, <1>4, <1>5

\* The first operands are patterns, or tags.
LEMMA OperandsStart == Init => OperandsFit
<1> SUFFICES ASSUME Init
             PROVE  OperandsFit
  OBVIOUS
<1>1. type \in Types /\ bits \in {128, 256}
  BY DEF Init
<1>2. ASSUME view = "values",
             NEW x \in Values(type), NEW y \in Values(type), NEW p \in LhsStrides,
                 NEW q \in RhsStrides,
             lhs = Pattern(type, bits, x, p), rhs = Pattern(type, bits, y, q)
      PROVE  OperandsFit
  <2>1. p \in Int /\ q \in Int
    BY StrideAssumption
  <2>2. lhs \in Register(type.w, Count) /\ rhs \in Register(type.w, Count)
    BY <1>1, <1>2, <2>1, PatternIs
  <2> QED BY <1>1, <1>2, <2>2, Zenon DEF OperandsFit
<1>3. ASSUME view = "bytes", lhs = Tags(bits, 1), rhs = Tags(bits, 65)
      PROVE  OperandsFit
  BY <1>1, <1>3, Zenon DEF OperandsFit
<1> QED BY <1>2, <1>3, Zenon DEF Init

\* Every call leaves the operands.
LEMMA OperandsStay == [Next]_vars => UNCHANGED operands
<1> SUFFICES ASSUME [Next]_vars
             PROVE  UNCHANGED operands
  OBVIOUS
<1>1. CASE UNCHANGED vars
  BY <1>1 DEF vars, operands
<1>2. ASSUME NEW op, NEW c, NEW value, Returns(op, c, value)
      PROVE  UNCHANGED operands
  BY <1>2, Zenon DEF Returns
<1>3. CASE Arithmetic \/ Division \/ Unary \/ Extremum \/ Shift \/ Saturating
  BY <1>2, <1>3, Zenon DEF Arithmetic, Division, Unary, Extremum, Shift, Saturating
<1>4. CASE \/ AdjacentProducts \/ Horizontally
           \/ CompareEqual \/ CompareGreater \/ CompareGreaterEqual
           \/ CompareLess \/ CompareLessEqual
  BY <1>2, <1>4, Zenon DEF AdjacentProducts, Horizontally, CompareEqual, CompareGreater,
     CompareGreaterEqual, CompareLess, CompareLessEqual
<1>5. CASE PassOn \/ MinPosition \/ MaxPosition \/ MagnitudeChecked
  BY <1>2, <1>5, Zenon DEF PassOn, MinPosition, MaxPosition, MagnitudeChecked
<1>6. CASE Unpack \/ Shuffle \/ LaneAccess
  BY <1>2, <1>6, Zenon DEF Unpack, Shuffle, LaneAccess
<1>7. CASE Controlled \/ ByteShift \/ LowerHalf
  BY <1>2, <1>7, Zenon DEF Controlled, ByteShift, LowerHalf
<1> QED BY <1>1, <1>3, <1>4, <1>5, <1>6, <1>7, Zenon DEF Next

\* The invariant is about the operands only.
LEMMA OperandsFitNext == OperandsFit /\ UNCHANGED operands => OperandsFit'
BY DEF OperandsFit, operands, Register, First, Cells, Count, Tags, Types

\* Theorem: in every reachable state the operands fit the Api in use.
THEOREM OperandsAlwaysFit == Spec => []OperandsFit
<1>1. OperandsFit /\ [Next]_vars => OperandsFit'
  BY OperandsStay, OperandsFitNext
<1> QED BY <1>1, OperandsStart, PTL DEF Spec

\* What a step leaves is exact.
LEMMA StepsExact ==
  ASSUME OperandsFit, Next
  PROVE  Exact(call'.op, result')
<1>1. ASSUME NEW op, NEW c, NEW value, Returns(op, c, value)
      PROVE  call'.op = op /\ result' = value
  BY <1>1 DEF Returns
<1>2. ASSUME OnValues
      PROVE  OperandsAreLanes
  BY <1>2, Zenon DEF OperandsFit, OperandsAreLanes, OnValues
<1>3. CASE Arithmetic
  BY <1>1, <1>2, <1>3, SumsExact, Zenon DEF Arithmetic
<1>4. CASE Division
  <2>1. OnValues /\ \A k \in DOMAIN rhs : rhs[k] # 0
    BY <1>4, Zenon DEF Division
  <2>2. PICK op \in {"divide", "modulus"} : Returns(op, 0, arithmetic(type, op, lhs, rhs))
    BY <1>4, Zenon DEF Division
  <2>3. Exact(op, arithmetic(type, op, lhs, rhs))
    BY <1>2, <2>1, QuotientsExact
  <2> QED BY <1>1, <2>2, <2>3, Zenon
<1>5. CASE Unary
  BY <1>1, <1>2, <1>5, UnariesExact, Zenon DEF Unary
<1>6. CASE Extremum
  BY <1>1, <1>2, <1>6, ExtremaExact, Zenon DEF Extremum
<1>7. CASE Saturating
  <2>1. OnValues /\ type.n >= 8
    BY <1>7, Zenon DEF Saturating
  <2>2. PICK op \in {"add_saturated", "subtract_saturated"}
                      \cup (IF type.n = 8 THEN {"multiply_saturated"} ELSE {}) :
          Returns(op, 0, lanewise(type, op, lhs, rhs, 0))
    BY <1>7, Zenon DEF Saturating
  <2>3. Exact(op, lanewise(type, op, lhs, rhs, 0))
    BY <1>2, <2>1, SaturatedExact
  <2> QED BY <1>1, <2>2, <2>3, Zenon
<1>8. CASE AdjacentProducts
  BY <1>1, <1>2, <1>8, ProductsExact, Zenon DEF AdjacentProducts
<1>9. CASE Horizontally
  BY <1>1, <1>2, <1>9, HorizontalsExact, Zenon DEF Horizontally
<1>10. ASSUME NEW op \in EvaluatedValues \cup {"magnitude_checked", "unpack_lo", "unpack_hi",
                  "shuffle",
                "extract_slow", "insert_slow", "shuffle_32_slow", "blend_slow",
                    "shuffle_lo_slow",
                "shuffle_hi_slow", "shift_bytes_left", "shift_bytes_right",
                    "shift_bytes_left_slow",
                "shift_bytes_right_slow", "lower_half"},
              NEW c, NEW value, Returns(op, c, value)
       PROVE  Exact(call'.op, result')
  <2>1. op \notin LaneOperationNames /\ op \notin PairOperations /\ op # "multiply_add_adjacent"
    BY DEF EvaluatedValues, Comparisons, LaneOperationNames, PairOperations
  <2> QED BY <1>1, <1>10, <2>1, OthersExact, Zenon
<1>11. CASE Shift
  <2>1. PICK op \in {"shift_left", "shift_right", "shift_right_arithmetic"},
            c \in 0 .. type.w + 1 :
          Returns(op, c, lanewise(type, op, lhs, lhs, c))
    BY <1>11, Zenon DEF Shift
  <2>2. op \in EvaluatedValues
    BY DEF EvaluatedValues
  <2> QED BY <1>10, <2>1, <2>2, Zenon
<1>12. CASE \/ CompareEqual \/ CompareGreater \/ CompareGreaterEqual
            \/ CompareLess \/ CompareLessEqual
  BY <1>10, <1>12, Zenon DEF CompareEqual, CompareGreater, CompareGreaterEqual, CompareLess,
     CompareLessEqual, EvaluatedValues, Comparisons
<1>13. CASE PassOn \/ MinPosition \/ MaxPosition \/ MagnitudeChecked
  BY <1>10, <1>13, Zenon DEF PassOn, MinPosition, MaxPosition, MagnitudeChecked, EvaluatedValues
<1>14. CASE Unpack \/ Shuffle \/ LaneAccess
  BY <1>10, <1>14, Zenon DEF Unpack, Shuffle, LaneAccess
<1>15. CASE Controlled \/ ByteShift \/ LowerHalf
  BY <1>10, <1>15, Zenon DEF Controlled, ByteShift, LowerHalf
<1> QED BY <1>3, <1>4, <1>5, <1>6, <1>7, <1>8, <1>9, <1>11, <1>12, <1>13, <1>14, <1>15, Zenon
   DEF Next

\* Theorem: every result of an operation on numbers is exact.
THEOREM ArithmeticAlwaysExact == Spec => []ArithmeticIsExact
<1>1. Init => Exact(call.op, result)
  <2> SUFFICES ASSUME Init
               PROVE  Exact(call.op, result)
    OBVIOUS
  <2>1. call.op = "none"
    BY DEF Init
  <2>2. call.op \notin LaneOperationNames /\ call.op \notin PairOperations /\
            call.op # "multiply_add_adjacent"
    BY <2>1 DEF LaneOperationNames, PairOperations
  <2> QED BY <2>2, OthersExact, Zenon
<1>2. OperandsFit /\ Exact(call.op, result) /\ [Next]_vars => Exact(call.op, result)'
  <2> SUFFICES ASSUME OperandsFit, Exact(call.op, result), [Next]_vars
               PROVE  Exact(call.op, result)'
    OBVIOUS
  <2>1. UNCHANGED operands
    BY OperandsStay
  <2>2. Exact(call'.op, result')
    <3>1. CASE Next
      BY <3>1, StepsExact
    <3>2. CASE UNCHANGED vars
      <4>1. call' = call /\ result' = result
        BY <3>2 DEF vars
      <4> QED BY <4>1, Zenon
    <3> QED BY <3>1, <3>2
  <2> QED BY <2>1, <2>2, SameExact
<1> QED BY <1>1, <1>2, OperandsAlwaysFit, ExactIs, PTL DEF Spec
===============================================================================
