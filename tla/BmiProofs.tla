------------------------------- MODULE BmiProofs ------------------------------
(***************************************************************************)
(* The helpers of Bmi.h keep their contracts and agree with the            *)
(* instructions they are replaced by, and a scan loses no bit, for words   *)
(* of every width.                                                         *)
(*                                                                         *)
(* A word is a set of positions; the proofs need its number. What they use *)
(* of 2^k is that it counts the subsets of 1 .. k; the number of a word    *)
(* is then the count of the pairs of a position and a set of smaller       *)
(* positions, and sums of numbers are unions of disjoint sets. Addition,   *)
(* subtraction and negation of words follow from where a carry or a        *)
(* borrow stops. An induction is over a set that is an element of a        *)
(* powerset, by the minimal element of what it leaves out.                 *)
(***************************************************************************)
EXTENDS Bmi, FiniteSetTheorems, FunctionTheorems, WellFoundedInduction, TLAPS

-------------------------------------------------------------------------------
(***************************************************************************)
(* Words and their numbers                                                 *)
(***************************************************************************)

\* 2^k counts the subsets of 1 .. k: the only handle the provers have on a power.
LEMMA PowerCounts ==
  ASSUME NEW k \in Nat
  PROVE  IsFiniteSet(SUBSET (1 .. k)) /\ Cardinality(SUBSET (1 .. k)) = 2 ^ k
<1>1. IsFiniteSet(1 .. k) /\ Cardinality(1 .. k) = k
  BY FS_Interval
<1> QED BY <1>1, FS_SUBSET

\* A power of two is a positive number.
LEMMA PowerType ==
  ASSUME NEW k \in Nat
  PROVE  2 ^ k \in Nat \ {0}
<1>3. {} \in SUBSET (1 .. k)
  OBVIOUS
<1> QED
  BY PowerCounts, <1>3, FS_CardinalityType, FS_EmptySet

\* The next power of two: the subsets with the new element are as many as those without.
LEMMA Double ==
  ASSUME NEW k \in Nat
  PROVE  2 ^ (k + 1) = 2 * 2 ^ k
<1> DEFINE A == SUBSET (1 .. k)
           B == {t \in SUBSET (1 .. k + 1) : k + 1 \in t}
           f == [t \in A |-> t \cup {k + 1}]
<1>1. IsFiniteSet(A) /\ Cardinality(A) = 2 ^ k
  BY PowerCounts
<1>2. IsFiniteSet(SUBSET (1 .. k + 1)) /\ Cardinality(SUBSET (1 .. k + 1)) = 2 ^ (k + 1)
  BY k + 1 \in Nat, PowerCounts
<1>3. f \in Bijection(A, B)
  <2>1. \A t \in A : t \cup {k + 1} \in B
    OBVIOUS
  <2>2. \A s, t \in A : s \cup {k + 1} = t \cup {k + 1} => s = t
    <3> SUFFICES ASSUME NEW s \in A, NEW t \in A, s \cup {k + 1} = t \cup {k + 1}
                 PROVE  s = t
      OBVIOUS
    <3>1. k + 1 \notin s /\ k + 1 \notin t
      OBVIOUS
    <3>2. s = (s \cup {k + 1}) \ {k + 1} /\ t = (t \cup {k + 1}) \ {k + 1}
      BY <3>1
    <3> QED BY <3>2
  <2>3. \A u \in B : \E t \in A : u = t \cup {k + 1}
    <3> TAKE u \in B
    <3>1. u \ {k + 1} \in A
      OBVIOUS
    <3>2. u = (u \ {k + 1}) \cup {k + 1}
      OBVIOUS
    <3> QED BY <3>1, <3>2
  <2>4. f \in Injection(A, B)
    BY <2>1, <2>2 DEF Injection, IsInjective
  <2>5. f \in Surjection(A, B)
    BY <2>1, <2>3 DEF Surjection
  <2> QED BY <2>4, <2>5 DEF Bijection
<1>4. IsFiniteSet(B) /\ Cardinality(B) = Cardinality(A)
  BY <1>1, <1>3, FS_Bijection DEF ExistsBijection
<1>5. SUBSET (1 .. k + 1) = A \cup B /\ A \cap B = {}
  <2>1. ASSUME NEW t \in SUBSET (1 .. k + 1), k + 1 \notin t
        PROVE  t \in A
    BY <2>1
  <2>2. ASSUME NEW t \in A
        PROVE  t \in SUBSET (1 .. k + 1) /\ t \notin B
    OBVIOUS
  <2> QED BY <2>1, <2>2
<1>6. Cardinality(A \cup B) = Cardinality(A) + Cardinality(B) - Cardinality(A \cap B)
  BY <1>1, <1>4, FS_Union
<1> HIDE DEF A, B
<1>7. Cardinality(A) \in Nat /\ Cardinality(A \cap B) = 0
  BY <1>1, <1>5, FS_CardinalityType, FS_EmptySet
<1>8. 2 ^ (k + 1) = Cardinality(A) + Cardinality(A) - 0
  BY <1>2, <1>4, <1>5, <1>6, <1>7
<1> QED
  BY <1>1, <1>7, <1>8

\* The iteration that Num folds a word with, written out.
Sum(S) ==
  CHOOSE iter : iter = [s \in SUBSET S |->
    IF s = {} THEN 0 ELSE LET x == CHOOSE x \in s : TRUE IN 2 ^ x + iter[s \ {x}]]

\* A position of s with a set of smaller numbers: 2^b pairs for position b.
Below(s) == {p \in s \X (SUBSET Nat) : p[2] \subseteq 0 .. p[1] - 1}

\* How many pairs a word has.
Count(s) == Cardinality(Below(s))

\* Num is the iteration Sum over the positions of the word.
LEMMA NumIsSum == \A s : Num(s) = Sum(s)[s]
BY DEF Num, MapThenSumSet, MapThenFoldSet, Sum

\* One position b stands for 2^b pairs: itself with a set of smaller numbers.
LEMMA BelowOne ==
  ASSUME NEW b \in Nat
  PROVE  IsFiniteSet(Below({b})) /\ Cardinality(Below({b})) = 2 ^ b
<1>0. IsFiniteSet(0 .. b - 1) /\ Cardinality(0 .. b - 1) = b
  BY FS_Interval
<1> DEFINE A == SUBSET (0 .. b - 1)
           B == Below({b})
           f == [t \in A |-> <<b, t>>]
<1>1. IsFiniteSet(A) /\ Cardinality(A) = 2 ^ b
  BY <1>0, FS_SUBSET
<1>2. f \in Bijection(A, B)
  <2>1. ASSUME NEW t \in A
        PROVE  <<b, t>> \in B
    <3>1. t \in SUBSET Nat /\ t \subseteq 0 .. b - 1
      OBVIOUS
    <3>2. <<b, t>> \in {b} \X (SUBSET Nat)
      BY <3>1
    <3> QED BY <3>1, <3>2 DEF Below
  <2>2. \A u \in B : \E t \in A : u = <<b, t>>
    BY DEF Below
  <2> HIDE DEF A, B
  <2>4. f \in Injection(A, B)
    BY <2>1 DEF Injection, IsInjective
  <2>5. f \in Surjection(A, B)
    BY <2>1, <2>2 DEF Surjection
  <2> QED BY <2>4, <2>5 DEF Bijection
<1> QED BY <1>1, <1>2, FS_Bijection DEF ExistsBijection

\* The pairs of two disjoint words are the pairs of one and the pairs of the other.
LEMMA BelowSplits ==
  ASSUME NEW s \in SUBSET Nat, NEW t \in SUBSET Nat, s \cap t = {}
  PROVE  Below(s \cup t) = Below(s) \cup Below(t) /\ Below(s) \cap Below(t) = {}
BY DEF Below

\* Induction over a set given as an element: no operator parameter is needed.
LEMMA SetInduction ==
  ASSUME NEW S, 0 \in S, \A n \in Nat : n \in S => n + 1 \in S
  PROVE  Nat \subseteq S
<1> DEFINE T == Nat \ S
           R == OpToRel(<, Nat)
<1> SUFFICES ASSUME T # {} PROVE FALSE
  OBVIOUS
<1>1. PICK n \in T : \A m \in T : ~(<<m, n>> \in R)
  BY WFMin, NatLessThanWellFounded
<1>2. n \in Nat /\ n # 0
  OBVIOUS
<1>3. n - 1 \in Nat /\ (n - 1) + 1 = n /\ n - 1 < n
  BY <1>2
<1>4. n - 1 \in T
  BY <1>3
<1>5. <<n - 1, n>> \in R
  BY <1>2, <1>3, Zenon DEF OpToRel
<1> QED BY <1>1, <1>4, <1>5

\* Induction over the subsets of a finite set: a set of them that holds the empty one
\* and, with a set, each of its enlargements by one element.
LEMMA SubsetInduction ==
  ASSUME NEW U, IsFiniteSet(U), NEW P \in SUBSET (SUBSET U), {} \in P,
         \A s \in SUBSET U : (\A x \in s : s \ {x} \in P) => s \in P
  PROVE  P = SUBSET U
<1> DEFINE S == {n \in Nat : \A s \in SUBSET U : Cardinality(s) = n => s \in P}
<1>1. 0 \in S
  BY FS_EmptySet, FS_Subset
<1>2. ASSUME NEW n \in Nat, n \in S
      PROVE  n + 1 \in S
  <2> SUFFICES ASSUME NEW s \in SUBSET U, Cardinality(s) = n + 1
               PROVE  s \in P
    OBVIOUS
  <2>1. IsFiniteSet(s) /\ s # {}
    BY FS_Subset, FS_EmptySet
  <2>2. ASSUME NEW x \in s
        PROVE  s \ {x} \in P
    <3>1. Cardinality(s \ {x}) = Cardinality(s) - 1
      BY <2>1, FS_RemoveElement
    <3>2. Cardinality(s \ {x}) = n /\ s \ {x} \in SUBSET U
      BY <3>1
    <3> QED BY <1>2, <3>2
  <2> QED BY <2>2
<1>3. Nat \subseteq S
  <2> HIDE DEF S
  <2> QED BY <1>1, <1>2, SetInduction
<1>4. ASSUME NEW s \in SUBSET U
      PROVE  s \in P
  BY <1>3, FS_Subset, FS_CardinalityType
<1> QED BY <1>4

\* The counts of two disjoint words add.
LEMMA CountSplits ==
  ASSUME NEW s \in SUBSET Nat, NEW t \in SUBSET Nat, s \cap t = {},
         IsFiniteSet(Below(s)), IsFiniteSet(Below(t))
  PROVE  IsFiniteSet(Below(s \cup t)) /\ Count(s \cup t) = Count(s) + Count(t)
<1>1. Below(s \cup t) = Below(s) \cup Below(t) /\ Below(s) \cap Below(t) = {}
  BY BelowSplits
<1>2. IsFiniteSet(Below(s) \cup Below(t))
      /\ Cardinality(Below(s) \cup Below(t)) =
           Cardinality(Below(s)) + Cardinality(Below(t)) - Cardinality(Below(s) \cap Below(t))
  BY FS_Union
<1>3. Cardinality(Below(s) \cap Below(t)) = 0
  BY <1>1, FS_EmptySet
<1>4. Cardinality(Below(s)) \in Nat /\ Cardinality(Below(t)) \in Nat
  BY FS_CardinalityType
<1>5. Cardinality(Below(s \cup t)) = Cardinality(Below(s)) + Cardinality(Below(t))
  <2>1. Cardinality(Below(s \cup t)) = Cardinality(Below(s) \cup Below(t))
    BY <1>1, Zenon
  <2>2. \A a, b \in Nat : a + b - 0 = a + b
    OBVIOUS
  <2> QED BY <1>2, <1>3, <1>4, <2>1, <2>2, Zenon
<1>6. IsFiniteSet(Below(s \cup t))
  BY <1>1, <1>2
<1> QED BY <1>5, <1>6 DEF Count

\* A finite word has finitely many pairs.
LEMMA BelowFinite ==
  ASSUME NEW s \in SUBSET Nat, IsFiniteSet(s)
  PROVE  IsFiniteSet(Below(s))
<1> DEFINE P == {t \in SUBSET s : IsFiniteSet(Below(t))}
<1>1. {} \in P
  <2>1. Below({}) = {}
    BY DEF Below
  <2> QED BY <2>1, FS_EmptySet
<1>2. ASSUME NEW t \in SUBSET s, NEW x \in t, t \ {x} \in P
      PROVE  t \in P
  <2>1. t = (t \ {x}) \cup {x} /\ x \in Nat
    OBVIOUS
  <2>2. (t \ {x}) \cap {x} = {} /\ t \ {x} \in SUBSET Nat /\ {x} \in SUBSET Nat
    BY <2>1
  <2>3. IsFiniteSet(Below((t \ {x}) \cup {x}))
    BY <1>2, <2>1, <2>2, BelowOne, CountSplits
  <2> QED BY <2>1, <2>3
<1>3. s \in P
  <2> HIDE DEF P
  <2>1. P \in SUBSET (SUBSET s)
    BY DEF P
  <2>2. \A t \in SUBSET s : (\A x \in t : t \ {x} \in P) => t \in P
    BY <1>1, <1>2
  <2>3. P = SUBSET s
    BY <1>1, <2>1, <2>2, SubsetInduction
  <2> QED BY <2>3
<1> QED BY <1>3

\* The count of a word without one of its positions is 2^x less.
LEMMA CountStep ==
  ASSUME NEW s \in SUBSET Nat, IsFiniteSet(s), NEW x \in s
  PROVE  Count(s) = 2 ^ x + Count(s \ {x})
<1>1. s = (s \ {x}) \cup {x} /\ (s \ {x}) \cap {x} = {} /\ x \in Nat
  OBVIOUS
<1>2. IsFiniteSet(Below(s \ {x})) /\ IsFiniteSet(Below({x})) /\ Count({x}) = 2 ^ x
  <2>1. IsFiniteSet(s \ {x})
    BY FS_RemoveElement
  <2> QED BY <1>1, <2>1, BelowFinite, BelowOne DEF Count
<1>3. Count((s \ {x}) \cup {x}) = Count(s \ {x}) + Count({x})
  BY <1>1, <1>2, CountSplits
<1>4. Count(s \ {x}) \in Nat
  BY <1>2, FS_CardinalityType DEF Count
<1> QED BY <1>1, <1>2, <1>3, <1>4, PowerType

\* The number of a word is the count of its pairs.
LEMMA NumIsCount ==
  ASSUME NEW s \in SUBSET Nat, IsFiniteSet(s)
  PROVE  Num(s) = Count(s)
<1> DEFINE Step(f, t) == IF t = {} THEN 0
                         ELSE LET x == CHOOSE x \in t : TRUE IN 2 ^ x + f[t \ {x}]
           G == [t \in SUBSET s |-> Count(t)]
           P == {t \in SUBSET s : Sum(s)[t] = Count(t)}
<1>1. ASSUME NEW t \in SUBSET s
      PROVE  IsFiniteSet(t) /\ t \in SUBSET Nat
  BY FS_Subset
<1>2. Count({}) = 0
  <2>1. Below({}) = {}
    BY DEF Below
  <2> QED BY <2>1, FS_EmptySet DEF Count
<1>3. \A t \in SUBSET s : G[t] = Step(G, t)
  <2> TAKE t \in SUBSET s
  <2>1. CASE t = {}
    BY <1>2, <2>1
  <2>2. CASE t # {}
    <3> DEFINE x == CHOOSE x \in t : TRUE
    <3>1. x \in t
      BY <2>2
    <3> HIDE DEF x
    <3>2. Count(t) = 2 ^ x + Count(t \ {x})
      BY <1>1, <3>1, CountStep
    <3>3. G[t] = Count(t) /\ G[t \ {x}] = Count(t \ {x})
      OBVIOUS
    <3> QED BY <2>2, <3>2, <3>3 DEF x
  <2> QED BY <2>1, <2>2
<1>4. G = [t \in SUBSET s |-> Step(G, t)]
  BY <1>3
<1>5. Sum(s) = [t \in SUBSET s |-> Step(Sum(s), t)]
  <2>1. \E f : f = [t \in SUBSET s |-> Step(f, t)]
    <3> HIDE DEF G
    <3> QED BY <1>4
  <2> QED BY <2>1, Zenon DEF Sum
<1>6. \A t \in SUBSET s : Sum(s)[t] = Step(Sum(s), t)
  <2> HIDE DEF Step
  <2> QED BY <1>5
<1>7. {} \in P
  BY <1>2, <1>6
<1>8. ASSUME NEW t \in SUBSET s, \A x \in t : t \ {x} \in P
      PROVE  t \in P
  <2>1. CASE t = {}
    BY <1>7, <2>1
  <2>2. CASE t # {}
    <3> DEFINE x == CHOOSE x \in t : TRUE
    <3>1. x \in t
      BY <2>2
    <3>2. Sum(s)[t] = 2 ^ x + Sum(s)[t \ {x}]
      BY <1>6, <2>2
    <3> HIDE DEF x
    <3>3. Count(t) = 2 ^ x + Count(t \ {x})
      BY <1>1, <3>1, CountStep
    <3> QED BY <1>8, <3>1, <3>2, <3>3
  <2> QED BY <2>1, <2>2
<1>9. s \in P
  <2> HIDE DEF P
  <2>1. P \in SUBSET (SUBSET s)
    BY DEF P
  <2>2. \A t \in SUBSET s : (\A x \in t : t \ {x} \in P) => t \in P
    BY <1>8
  <2>3. P = SUBSET s
    BY <1>7, <2>1, <2>2, SubsetInduction
  <2> QED BY <2>3
<1> QED BY <1>9, NumIsSum

\* The number of a word is a natural number.
LEMMA NumType ==
  ASSUME NEW s \in SUBSET Nat, IsFiniteSet(s)
  PROVE  Num(s) \in Nat
BY NumIsCount, BelowFinite, FS_CardinalityType DEF Count

\* The word with no ones is zero.
LEMMA NumEmpty == Num({}) = 0
<1>1. Below({}) = {}
  BY DEF Below
<1>2. Count({}) = 0
  BY <1>1, FS_EmptySet DEF Count
<1> QED BY <1>2, NumIsCount, FS_EmptySet

\* The word with one one is a power of two.
LEMMA NumOne ==
  ASSUME NEW b \in Nat
  PROVE  Num({b}) = 2 ^ b
BY NumIsCount, BelowOne, FS_Singleton DEF Count

\* The numbers of words without a common one add: an OR is a sum.
LEMMA NumUnion ==
  ASSUME NEW s \in SUBSET Nat, IsFiniteSet(s), NEW t \in SUBSET Nat, IsFiniteSet(t),
         s \cap t = {}
  PROVE  Num(s \cup t) = Num(s) + Num(t)
<1>1. IsFiniteSet(s \cup t) /\ s \cup t \in SUBSET Nat
  BY FS_Union
<1>2. Count(s \cup t) = Count(s) + Count(t)
  BY BelowFinite, CountSplits
<1> QED BY <1>1, <1>2, NumIsCount

\* The low k ones are 2^k - 1.
LEMMA NumBelow ==
  ASSUME NEW k \in Nat
  PROVE  Num(0 .. k - 1) = 2 ^ k - 1
<1> DEFINE S == {n \in Nat : Num(0 .. n - 1) = 2 ^ n - 1}
<1>1. 0 \in S
  <2>1. 0 .. 0 - 1 = {} /\ 2 ^ 0 = 1
    OBVIOUS
  <2> QED BY <2>1, NumEmpty
<1>2. ASSUME NEW n \in Nat, n \in S
      PROVE  n + 1 \in S
  <2>1. 0 .. (n + 1) - 1 = (0 .. n - 1) \cup {n} /\ (0 .. n - 1) \cap {n} = {}
    OBVIOUS
  <2>2. Num((0 .. n - 1) \cup {n}) = Num(0 .. n - 1) + Num({n})
    <3>1. IsFiniteSet(0 .. n - 1) /\ IsFiniteSet({n})
      BY 0 \in Int, n - 1 \in Int, FS_Interval, FS_Singleton
    <3>2. 0 .. n - 1 \in SUBSET Nat /\ {n} \in SUBSET Nat
      OBVIOUS
    <3> QED BY <2>1, <3>1, <3>2, NumUnion
  <2>3. Num(0 .. (n + 1) - 1) = (2 ^ n - 1) + 2 ^ n
    BY <1>2, <2>1, <2>2, NumOne
  <2>4. 2 ^ (n + 1) = 2 * 2 ^ n /\ 2 ^ n \in Nat
    BY Double, PowerType
  <2>5. (2 ^ n - 1) + 2 ^ n = 2 ^ (n + 1) - 1
    BY <2>4
  <2> QED BY <2>3, <2>5
<1>3. Nat \subseteq S
  <2> HIDE DEF S
  <2> QED BY <1>1, <1>2, SetInduction
<1> QED BY <1>3

\* A word is the sum of a part of it and the rest.
LEMMA NumMonotone ==
  ASSUME NEW t \in SUBSET Nat, IsFiniteSet(t), NEW s \in SUBSET t
  PROVE  Num(s) + Num(t \ s) = Num(t)
<1>1. s \cup (t \ s) = t /\ s \cap (t \ s) = {}
  OBVIOUS
<1>2. IsFiniteSet(s) /\ IsFiniteSet(t \ s)
  BY FS_Subset, t \ s \in SUBSET t
<1>3. Num(s \cup (t \ s)) = Num(s) + Num(t \ s)
  BY <1>1, <1>2, NumUnion, t \ s \in SUBSET Nat, s \in SUBSET Nat
<1> QED BY <1>1, <1>3

\* A power is a multiple of every smaller one.
LEMMA PowerMultiple ==
  ASSUME NEW k \in Nat, NEW x \in Nat, x >= k
  PROVE  \E q \in Nat : 2 ^ x = q * 2 ^ k
<1> DEFINE S == {n \in Nat : \E q \in Nat : 2 ^ (k + n) = q * 2 ^ k}
<1>0. 2 ^ k \in Nat
  BY PowerType
<1>1. 0 \in S
  <2>1. 2 ^ (k + 0) = 1 * 2 ^ k
    BY <1>0
  <2> QED BY <2>1
<1>2. ASSUME NEW n \in Nat, n \in S
      PROVE  n + 1 \in S
  <2>1. PICK q \in Nat : 2 ^ (k + n) = q * 2 ^ k
    BY <1>2
  <2>2. 2 ^ (k + (n + 1)) = 2 * 2 ^ (k + n)
    <3>1. 2 ^ ((k + n) + 1) = 2 * 2 ^ (k + n)
      BY k + n \in Nat, Double
    <3>2. (k + n) + 1 = k + (n + 1)
      OBVIOUS
    <3> QED BY <3>1, <3>2
  <2>3. 2 * (q * 2 ^ k) = (2 * q) * 2 ^ k
    BY <1>0
  <2>4. 2 ^ (k + (n + 1)) = (2 * q) * 2 ^ k /\ 2 * q \in Nat
    BY <2>1, <2>2, <2>3
  <2>5. \E p \in Nat : 2 ^ (k + (n + 1)) = p * 2 ^ k
    BY <2>4, Zenon
  <2> QED BY <2>5
<1>3. Nat \subseteq S
  <2> HIDE DEF S
  <2> QED BY <1>1, <1>2, SetInduction
<1>4. x - k \in Nat /\ k + (x - k) = x
  OBVIOUS
<1>5. x - k \in S
  BY <1>3, <1>4
<1> QED BY <1>4, <1>5

\* A word whose ones are all at k or above is a multiple of 2^k.
LEMMA NumMultiple ==
  ASSUME NEW k \in Nat, NEW s \in SUBSET Nat, IsFiniteSet(s), \A b \in s : b >= k
  PROVE  \E q \in Nat : Num(s) = q * 2 ^ k
<1> DEFINE P == {t \in SUBSET s : \E q \in Nat : Num(t) = q * 2 ^ k}
<1>0. 2 ^ k \in Nat
  BY PowerType
<1>1. {} \in P
  <2>1. Num({}) = 0 * 2 ^ k
    BY <1>0, NumEmpty
  <2> QED BY <2>1
<1>2. ASSUME NEW t \in SUBSET s, NEW x \in t, t \ {x} \in P
      PROVE  t \in P
  <2>1. PICK p \in Nat : Num(t \ {x}) = p * 2 ^ k
    BY <1>2
  <2>2. PICK q \in Nat : 2 ^ x = q * 2 ^ k
    BY PowerMultiple
  <2>3. Num(t) = Num({x}) + Num(t \ {x})
    BY NumMonotone, FS_Subset, {x} \in SUBSET t
  <2>4. Num(t) = q * 2 ^ k + p * 2 ^ k
    BY <2>1, <2>2, <2>3, NumOne
  <2>5. q * 2 ^ k + p * 2 ^ k = (q + p) * 2 ^ k
    BY <1>0
  <2> QED BY <2>4, <2>5, q + p \in Nat
<1>3. s \in P
  <2> HIDE DEF P
  <2>1. P \in SUBSET (SUBSET s)
    BY DEF P
  <2>2. \A t \in SUBSET s : (\A x \in t : t \ {x} \in P) => t \in P
    BY <1>1, <1>2
  <2>3. P = SUBSET s
    BY <1>1, <2>1, <2>2, SubsetInduction
  <2> QED BY <2>3
<1> QED BY <1>3

\* A word of any width is a finite set of natural positions.
LEMMA WordFacts ==
  ASSUME NEW w \in Int, NEW s \in SUBSET (0 .. w - 1)
  PROVE  s \in SUBSET Nat /\ IsFiniteSet(s)
<1>1. IsFiniteSet(0 .. w - 1)
  BY FS_Interval
<1>2. s \in SUBSET Nat
  OBVIOUS
<1> QED BY <1>1, <1>2, FS_Subset

\* Quotient of a number written in base P.
LEMMA DivPower ==
  ASSUME NEW P \in Nat \ {0}, NEW r \in 0 .. P - 1, NEW q \in Int
  PROVE  (r + q * P) \div P = q
OBVIOUS

\* Remainder of a number written in base two.
LEMMA Digit ==
  ASSUME NEW c \in {0,1}, NEW q \in Int
  PROVE  (c + 2 * q) % 2 = c
OBVIOUS

\* The quotient of a number of the form r + d * P + q * (2 * P) is odd when d is.
LEMMA DigitAt ==
  ASSUME NEW P \in Nat \ {0}, NEW r \in 0 .. P - 1, NEW d \in {0, 1}, NEW q \in Int
  PROVE  ((r + (d * P + q * (2 * P))) \div P) % 2 = d
<1>1. d * P + q * (2 * P) = (d + 2 * q) * P
  OBVIOUS
<1>2. d + 2 * q \in Int /\ d \in Int
  OBVIOUS
<1>3. (r + (d + 2 * q) * P) \div P = d + 2 * q
  BY <1>2, DivPower
<1>4. (d + 2 * q) % 2 = d
  BY Digit
<1> QED BY <1>1, <1>3, <1>4

\* A word is what its number, reduced modulo 2^w, is written as.
LEMMA BinNum ==
  ASSUME NEW w \in Nat, NEW s \in Word(w), NEW c \in Int
  PROVE  Bin(w, Num(s) + c * 2 ^ w) = s
<1>w. s \in SUBSET (0 .. w - 1)
  BY DEF Word, Full
<1>0. s \in SUBSET Nat /\ IsFiniteSet(s)
  BY <1>w, WordFacts
<1>1. ASSUME NEW b \in 0 .. w - 1
      PROVE  ((Num(s) + c * 2 ^ w) \div 2 ^ b) % 2 = IF b \in s THEN 1 ELSE 0
  <2> DEFINE low == s \cap 0 .. b - 1
             high == s \cap b + 1 .. w - 1
             bit == s \cap {b}
             d == IF b \in s THEN 1 ELSE 0
  <2>0. b \in Nat /\ b + 1 \in Nat /\ 2 ^ b \in Nat \ {0} /\ 2 ^ (b + 1) = 2 * 2 ^ b
    BY PowerType, Double
  <2>1. /\ \A x \in s : x \in low \/ x \in bit \/ x \in high
        /\ \A x \in low : x \notin bit /\ x \notin high
        /\ \A x \in bit : x \notin high
    BY <1>w, <1>0
  <2>2. s = low \cup (bit \cup high) /\ low \cap (bit \cup high) = {} /\ bit \cap high = {}
    BY <2>1
  <2>3. /\ low \in SUBSET Nat /\ bit \in SUBSET Nat /\ high \in SUBSET Nat
        /\ low \in SUBSET s /\ bit \in SUBSET s /\ high \in SUBSET s
    BY <1>0
  <2>4. IsFiniteSet(low) /\ IsFiniteSet(bit) /\ IsFiniteSet(high) /\ IsFiniteSet(bit \cup high)
    BY <1>0, <2>3, FS_Subset, FS_Union
  <2>5. Num(s) = Num(low) + (Num(bit) + Num(high))
    <3>1. Num(bit \cup high) = Num(bit) + Num(high)
      BY <2>2, <2>3, <2>4, NumUnion
    <3>2. Num(low \cup (bit \cup high)) = Num(low) + Num(bit \cup high)
      BY <2>2, <2>3, <2>4, NumUnion, bit \cup high \in SUBSET Nat
    <3> QED BY <2>2, <3>1, <3>2
  <2>6. Num(bit) = d * 2 ^ b
    <3>1. CASE b \in s
      <4>1. bit = {b} /\ d = 1
        BY <3>1
      <4> QED BY <2>0, <4>1, NumOne
    <3>2. CASE b \notin s
      <4>1. bit = {} /\ d = 0
        BY <3>2
      <4> QED BY <2>0, <4>1, NumEmpty
    <3> QED BY <3>1, <3>2
  <2>7. PICK q \in Nat : Num(high) = q * (2 * 2 ^ b)
    <3>1. \A x \in high : x >= b + 1
      OBVIOUS
    <3> HIDE DEF high
    <3>2. \E q \in Nat : Num(high) = q * 2 ^ (b + 1)
      BY <2>0, <2>3, <2>4, <3>1, NumMultiple
    <3> QED BY <2>0, <3>2
  <2>8. Num(low) \in 0 .. 2 ^ b - 1
    <3>1. IsFiniteSet(0 .. b - 1) /\ 0 .. b - 1 \in SUBSET Nat
      BY <2>0, FS_Interval
    <3>2. low \in SUBSET (0 .. b - 1) /\ (0 .. b - 1) \ low \in SUBSET (0 .. b - 1)
      OBVIOUS
    <3>3. Num(low) + Num((0 .. b - 1) \ low) = 2 ^ b - 1
      BY <2>0, <3>1, <3>2, NumMonotone, NumBelow
    <3>4. Num(low) \in Nat /\ Num((0 .. b - 1) \ low) \in Nat
      BY <3>1, <3>2, NumType, FS_Subset
    <3> QED BY <2>0, <3>3, <3>4
  <2>9. PICK p \in Nat : 2 ^ w = p * (2 * 2 ^ b)
    BY <2>0, PowerMultiple
  <2> HIDE DEF low, bit, high
  <2>10. d \in {0, 1} /\ q + c * p \in Int
    OBVIOUS
  <2>11. Num(s) + c * 2 ^ w = Num(low) + (d * 2 ^ b + (q + c * p) * (2 * 2 ^ b))
    <3> DEFINE T == 2 * 2 ^ b
    <3>1. T \in Nat /\ Num(low) \in Int /\ d * 2 ^ b \in Int
      BY <2>0, <2>8, <2>10
    <3> HIDE DEF T, d
    <3>2. c * (p * T) = (c * p) * T /\ (q + c * p) * T = q * T + (c * p) * T
      BY <3>1
    <3>3. c * p \in Int /\ q * T \in Int /\ (c * p) * T \in Int
      BY <3>1
    <3>4. Num(s) = Num(low) + (d * 2 ^ b + q * T)
      BY <2>5, <2>6, <2>7 DEF T
    <3>5. c * 2 ^ w = (c * p) * T
      BY <2>9, <3>2 DEF T
    <3>6. Num(s) + c * 2 ^ w = Num(low) + (d * 2 ^ b + (q + c * p) * T)
      <4>1. \A l, x, y, z \in Int : (l + (x + y)) + z = l + (x + (y + z))
        OBVIOUS
      <4> DEFINE x == d * 2 ^ b
                 y == q * T
                 z == (c * p) * T
      <4>3. x \in Int /\ y \in Int /\ z \in Int /\ Num(s) = Num(low) + (x + y) /\ c * 2 ^ w = z
        BY <3>1, <3>3, <3>4, <3>5
      <4> HIDE DEF x, y, z
      <4>4. Num(s) + c * 2 ^ w = Num(low) + (x + (y + z))
        BY <3>1, <4>1, <4>3
      <4>2. Num(s) + c * 2 ^ w = Num(low) + (d * 2 ^ b + (q * T + (c * p) * T))
        BY <4>4 DEF x, y, z
      <4> QED BY <3>2, <4>2, Zenon
    <3> QED BY <3>6 DEF T
  <2> HIDE DEF d
  <2>12. ((Num(low) + (d * 2 ^ b + (q + c * p) * (2 * 2 ^ b))) \div 2 ^ b) % 2 = d
    BY <2>0, <2>8, <2>10, DigitAt
  <2> QED BY <2>11, <2>12 DEF d
<1>2. \A b \in 0 .. w - 1 : ((Num(s) + c * 2 ^ w) \div 2 ^ b) % 2 = 1 <=> b \in s
  BY <1>1
<1> DEFINE N == Num(s) + c * 2 ^ w
<1> HIDE DEF N
<1>3. \A b \in 0 .. w - 1 : (N \div 2 ^ b) % 2 = 1 <=> b \in s
  BY <1>2 DEF N
<1>4. Bin(w, N) = s
  BY <1>w, <1>3 DEF Bin, Full
<1> QED
  BY <1>4 DEF N

-------------------------------------------------------------------------------
(***************************************************************************)
(* Carries and borrows                                                     *)
(***************************************************************************)
\* The words of any width.
Bits == {s \in SUBSET Nat : IsFiniteSet(s)}

\* A run of positions is a word.
LEMMA RunBits ==
  ASSUME NEW a \in Nat, NEW e \in Int
  PROVE  a .. e \in Bits
<1>1. IsFiniteSet(a .. e)
  BY FS_Interval
<1>2. a .. e \in SUBSET Nat
  OBVIOUS
<1> QED BY <1>1, <1>2 DEF Bits

\* A word of a given width is a word, and has a number.
LEMMA WordBits ==
  ASSUME NEW w \in Nat, NEW s \in Word(w)
  PROVE  s \in Bits /\ Num(s) \in Nat
<1>1. s \in SUBSET (0 .. w - 1)
  BY DEF Word, Full
<1>2. s \in SUBSET Nat /\ IsFiniteSet(s)
  BY <1>1, WordFacts
<1> QED BY <1>2, NumType DEF Bits

\* A part of a word is a word.
LEMMA PartOfBits ==
  ASSUME NEW t \in Bits, NEW s \in SUBSET t
  PROVE  s \in Bits
BY FS_Subset DEF Bits

\* Two words joined: a word, and a sum if they have no common one.
LEMMA BitsUnion ==
  ASSUME NEW s \in Bits, NEW t \in Bits
  PROVE  s \cup t \in Bits /\ Num(s) \in Nat /\ (s \cap t = {} => Num(s \cup t) = Num(s) + Num(t))
BY FS_Union, NumUnion, NumType DEF Bits

\* A part of a word taken away from it: a difference.
LEMMA BitsLess ==
  ASSUME NEW t \in Bits, NEW s \in SUBSET t
  PROVE  /\ Num(t \ s) = Num(t) - Num(s)
         /\ Num(s) \in Nat /\ Num(t) \in Nat /\ Num(t \ s) \in Nat
<1>1. s \in Bits /\ t \ s \in Bits
  BY PartOfBits, t \ s \in SUBSET t
<1>2. Num(s) + Num(t \ s) = Num(t)
  BY NumMonotone DEF Bits
<1>3. Num(s) \in Nat /\ Num(t) \in Nat /\ Num(t \ s) \in Nat
  BY <1>1, BitsUnion
<1> QED BY <1>2, <1>3

\* A run of ones from a to e - 1.
LEMMA NumRun ==
  ASSUME NEW a \in Nat, NEW e \in Nat, a <= e
  PROVE  Num(a .. e - 1) = 2 ^ e - 2 ^ a /\ 2 ^ e \in Nat /\ 2 ^ a \in Nat
<1>1. a .. e - 1 = (0 .. e - 1) \ (0 .. a - 1) /\ 0 .. a - 1 \in SUBSET (0 .. e - 1)
  OBVIOUS
<1>2. 0 .. e - 1 \in Bits
  BY RunBits, e - 1 \in Int, 0 \in Nat
<1>3. Num((0 .. e - 1) \ (0 .. a - 1)) = Num(0 .. e - 1) - Num(0 .. a - 1)
  BY <1>1, <1>2, BitsLess
<1>4. 2 ^ e \in Nat /\ 2 ^ a \in Nat
  BY PowerType
<1>5. Num(0 .. e - 1) = 2 ^ e - 1 /\ Num(0 .. a - 1) = 2 ^ a - 1
  BY NumBelow
<1>6. Num(a .. e - 1) = Num(0 .. e - 1) - Num(0 .. a - 1)
  BY <1>1, <1>3, Zenon
<1>7. (2 ^ e - 1) - (2 ^ a - 1) = 2 ^ e - 2 ^ a
  BY <1>4
<1> QED BY <1>4, <1>5, <1>6, <1>7, Zenon

\* A sum and a difference of words are the word whose number they equal modulo 2^w.
LEMMA PlusIs ==
  ASSUME NEW w \in Nat, NEW u \in Word(w), NEW s, NEW t,
         \/ Num(s) + Num(t) = Num(u)
         \/ Num(s) + Num(t) = Num(u) + 2 ^ w
  PROVE  Plus(w, s, t) = u
<1>1. Num(u) \in Nat /\ 2 ^ w \in Nat
  BY WordBits, PowerType
<1>2. Num(u) + 0 * 2 ^ w = Num(u) /\ Num(u) + 1 * 2 ^ w = Num(u) + 2 ^ w
  BY <1>1
<1>3. Bin(w, Num(u) + 0 * 2 ^ w) = u
  BY BinNum, 0 \in Int, Zenon
<1>4. Bin(w, Num(u) + 1 * 2 ^ w) = u
  BY BinNum, 1 \in Int, Zenon
<1> QED BY <1>2, <1>3, <1>4 DEF Plus

\* The difference of two words modulo 2^w, found by naming it.
LEMMA MinusIs ==
  ASSUME NEW w \in Nat, NEW u \in Word(w), NEW s, NEW t,
         \/ Num(s) - Num(t) = Num(u)
         \/ Num(s) - Num(t) = Num(u) - 2 ^ w
  PROVE  Minus(w, s, t) = u
<1>1. Num(u) \in Nat /\ 2 ^ w \in Nat
  BY WordBits, PowerType
<1>2. Num(u) + 0 * 2 ^ w = Num(u) /\ Num(u) + (-1) * 2 ^ w = Num(u) - 2 ^ w
  BY <1>1
<1>3. Bin(w, Num(u) + 0 * 2 ^ w) = u
  BY BinNum, 0 \in Int, Zenon
<1>4. Bin(w, Num(u) + (-1) * 2 ^ w) = u
  BY BinNum, -1 \in Int, Zenon
<1> QED BY <1>2, <1>3, <1>4 DEF Minus

\* Adding one bit turns the ones from it on into zeros and the zero above them into one;
\* it is lost where the ones reach the top.
LEMMA PlusBit ==
  ASSUME NEW w \in Nat, NEW s \in Word(w), NEW a \in 0 .. w - 1, NEW e \in a .. w,
         a .. e - 1 \subseteq s, e \notin s
  PROVE  Plus(w, s, {a}) = (s \ (a .. e - 1)) \cup ({e} \cap 0 .. w - 1)
<1> DEFINE r == a .. e - 1
           m == s \ r
           u == m \cup ({e} \cap 0 .. w - 1)
           P == 2 ^ w
<1>0. m \in Word(w) /\ u \in Word(w) /\ {e} \in Bits /\ e \notin m
  BY FS_Singleton DEF Word, Full, Bits
<1>1. Num(m) = Num(s) - Num(r) /\ Num(s) \in Nat /\ Num(m) \in Nat /\ m \in Bits
  BY <1>0, WordBits, BitsLess
<1>2. Num(r) = 2 ^ e - 2 ^ a /\ 2 ^ e \in Nat /\ 2 ^ a \in Nat
  BY NumRun
<1>3. Num({a}) = 2 ^ a /\ Num({e}) = 2 ^ e /\ P \in Nat
  BY NumOne, PowerType
<1>4. CASE e < w
  <2>1. u = m \cup {e} /\ m \cap {e} = {}
    BY <1>0, <1>4
  <2> HIDE DEF m, r, u, P
  <2>2. Num(u) = Num(m) + 2 ^ e
    BY <1>0, <1>1, <1>3, <2>1, BitsUnion
  <2>3. Num(s) + Num({a}) = Num(u)
    BY <1>1, <1>2, <1>3, <2>2
  <2>4. Plus(w, s, {a}) = u
    BY <1>0, <2>3, PlusIs
  <2> QED BY <2>4 DEF u, m, r
<1>5. CASE e = w
  <2>1. u = m /\ P = 2 ^ e
    BY <1>5
  <2> HIDE DEF m, r, u, P
  <2>2. Num(s) + Num({a}) = Num(u) + P
    BY <1>1, <1>2, <1>3, <2>1
  <2>3. Plus(w, s, {a}) = u
    BY <1>0, <2>2, PlusIs DEF P
  <2> QED BY <2>3 DEF u, m, r
<1>6. e < w \/ e = w
  OBVIOUS
<1> QED BY <1>4, <1>5, <1>6

\* Subtracting one bit borrows from the lowest one at or above it, or from above the word.
LEMMA MinusBit ==
  ASSUME NEW w \in Nat, NEW s \in Word(w), NEW a \in 0 .. w - 1, NEW e \in a .. w,
         (a .. e - 1) \cap s = {}, e < w => e \in s
  PROVE  Minus(w, s, {a}) = (s \ {e}) \cup (a .. e - 1)
<1> DEFINE r == a .. e - 1
           m == s \ {e}
           u == m \cup r
           P == 2 ^ w
<1>0. m \in Word(w) /\ r \in Word(w) /\ u \in Word(w) /\ m \cap r = {}
  BY DEF Word, Full
<1>1. m \in Bits /\ r \in Bits /\ s \in Bits /\ Num(m) \in Nat /\ Num(s) \in Nat
  BY <1>0, WordBits
<1>2. Num(r) = 2 ^ e - 2 ^ a /\ 2 ^ e \in Nat /\ 2 ^ a \in Nat
  BY NumRun
<1>3. Num({a}) = 2 ^ a /\ Num({e}) = 2 ^ e /\ P \in Nat
  BY NumOne, PowerType
<1>4. Num(u) = Num(m) + Num(r)
  <2> HIDE DEF m, r
  <2> QED BY <1>0, <1>1, BitsUnion
<1>5. CASE e < w
  <2>1. {e} \in SUBSET s
    BY <1>5
  <2>2. Num(m) = Num(s) - Num({e})
    BY <1>1, <2>1, BitsLess
  <2> HIDE DEF m, r, u, P
  <2>3. Num(s) - Num({a}) = Num(u)
    BY <1>1, <1>2, <1>3, <1>4, <2>2
  <2>4. Minus(w, s, {a}) = u
    BY <1>0, <2>3, MinusIs
  <2> QED BY <2>4 DEF m, r, u
<1>6. CASE e = w
  <2>1. e \notin s
    BY <1>6 DEF Word, Full
  <2>2. m = s /\ P = 2 ^ e
    BY <1>6, <2>1
  <2> HIDE DEF m, r, u, P
  <2>4. Num(s) - Num({a}) = Num(u) - P
    BY <1>1, <1>2, <1>3, <1>4, <2>2
  <2>5. Minus(w, s, {a}) = u
    BY <1>0, <2>4, MinusIs DEF P
  <2> QED BY <2>5 DEF m, r, u
<1>7. e < w \/ e = w
  OBVIOUS
<1> QED BY <1>5, <1>6, <1>7

\* The negative of a word keeps its lowest one and inverts what is above it.
LEMMA Negative ==
  ASSUME NEW w \in Nat, NEW s \in Word(w), NEW e \in 0 .. w,
         (0 .. e - 1) \cap s = {}, e < w => e \in s
  PROVE  Minus(w, {}, s) = ((e + 1 .. w - 1) \ s) \cup (s \cap {e})
<1> DEFINE F == 0 .. w - 1
           z == 0 .. e - 1
           G == F \ s
           m == G \ z
           P == 2 ^ w
<1>0. /\ z \subseteq G /\ s \subseteq F
      /\ m \in Word(w) /\ G \in Word(w) /\ F \in Word(w)
  BY DEF Word, Full
<1>1. Num(F) = P - 1 /\ Num(z) = 2 ^ e - 1 /\ 2 ^ e \in Nat /\ P \in Nat
  BY NumBelow, PowerType
<1>3. Num(G) = Num(F) - Num(s) /\ Num(s) \in Nat
  <2> HIDE DEF F
  <2> QED BY <1>0, WordBits, BitsLess
<1>4. Num(m) = Num(G) - Num(z) /\ Num(m) \in Nat
  <2> HIDE DEF G, z
  <2> QED BY <1>0, WordBits, BitsLess
<1>5. Num(m) = P - Num(s) - 2 ^ e
  <2> HIDE DEF m, P, F, G, z
  <2> QED BY <1>1, <1>3, <1>4
<1>6. CASE e < w
  <2>1. /\ m \cap {e} = {} /\ s \cap {e} = {e}
        /\ m \cup {e} \in Word(w) /\ {e} \in Word(w)
        /\ m = (e + 1 .. w - 1) \ s
    <3>1. e \in s /\ e \in F
      BY <1>6
    <3>2. m = (e + 1 .. w - 1) \ s
      BY <3>1
    <3>3. m \cap {e} = {} /\ s \cap {e} = {e}
      BY <3>1
    <3>4. m \cup {e} \in Word(w) /\ {e} \in Word(w)
      BY <3>1 DEF Word, Full
    <3> QED BY <3>2, <3>3, <3>4
  <2>2. m \in Bits /\ {e} \in Bits
    BY <1>0, <2>1, WordBits
  <2> HIDE DEF m, G, z, F, P
  <2>3. Num(m \cup {e}) = Num(m) + 2 ^ e
    BY <2>1, <2>2, BitsUnion, NumOne
  <2>4. Num({}) - Num(s) = Num(m \cup {e}) - P
    BY <1>1, <1>3, <1>5, <2>3, NumEmpty
  <2>5. Minus(w, {}, s) = m \cup {e}
    BY <2>1, <2>4, MinusIs DEF P
  <2> QED BY <2>1, <2>5
<1>7. CASE e = w
  <2>1. s = {} /\ (e + 1 .. w - 1) = {}
    BY <1>7 DEF Word, Full
  <2>2. Num({}) - Num({}) = Num({}) /\ {} \in Word(w)
    BY NumEmpty DEF Word
  <2>3. Minus(w, {}, {}) = {}
    BY <2>2, MinusIs
  <2> QED BY <2>1, <2>3
<1>8. e < w \/ e = w
  OBVIOUS
<1> QED BY <1>6, <1>7, <1>8

-------------------------------------------------------------------------------
(***************************************************************************)
(* The ends of a word and of its runs                                      *)
(***************************************************************************)
\* A set of natural numbers has a least one.
LEMMA NatMin ==
  ASSUME NEW S \in SUBSET Nat, S # {}
  PROVE  \E n \in S : \A m \in S : n <= m
<1> DEFINE R == OpToRel(<, Nat)
<1>1. PICK n \in S : \A m \in S : ~(<<m, n>> \in R)
  BY WFMin, NatLessThanWellFounded
<1>2. ASSUME NEW m \in S
      PROVE  n <= m
  <2>1. m < n => <<m, n>> \in R
    BY Zenon, m \in Nat, n \in Nat DEF OpToRel
  <2> HIDE DEF R
  <2> QED BY <1>1, <2>1
<1> QED BY <1>2

\* From any position there is a next one, or none up to the width.
LEMMA NextOne ==
  ASSUME NEW w \in Nat, NEW v \in Word(w), NEW a \in 0 .. w
  PROVE  \E e \in a .. w : (a .. e - 1) \cap v = {} /\ (e < w => e \in v)
<1> DEFINE S == {n \in a .. w : n = w \/ n \in v}
<1>1. S \in SUBSET Nat /\ w \in S
  OBVIOUS
<1>2. PICK e \in S : \A m \in S : e <= m
  <2> HIDE DEF S
  <2> QED BY <1>1, NatMin
<1>3. ASSUME NEW b \in a .. e - 1
      PROVE  b \notin v
  BY <1>2
<1> QED BY <1>2, <1>3

\* From any position there is a next zero, or none up to the width.
LEMMA NextZero ==
  ASSUME NEW w \in Nat, NEW v \in Word(w), NEW a \in 0 .. w
  PROVE  \E e \in a .. w : a .. e - 1 \subseteq v /\ e \notin v
<1> DEFINE S == {n \in a .. w : n \notin v}
<1>1. S \in SUBSET Nat /\ w \in S
  BY DEF Word, Full
<1>2. PICK e \in S : \A m \in S : e <= m
  <2> HIDE DEF S
  <2> QED BY <1>1, NatMin
<1>3. ASSUME NEW b \in a .. e - 1
      PROVE  b \in v
  BY <1>2
<1> QED BY <1>2, <1>3

\* The minimum of a set, found by naming it.
LEMMA MinIs ==
  ASSUME NEW s \in SUBSET Int, NEW e \in s, \A b \in s : e <= b
  PROVE  Min(s) = e
<1>1. Min(s) \in s /\ \A y \in s : Min(s) <= y
  <2>1. \E x \in s : \A y \in s : x <= y
    BY Zenon
  <2>2. \A x, y \in s : x >= y <=> y <= x
    OBVIOUS
  <2> QED BY <2>1, <2>2, Zenon DEF Min
<1>2. e <= Min(s) /\ Min(s) <= e /\ e \in Int /\ Min(s) \in Int
  BY <1>1
<1> QED BY <1>2

\* The maximum of a set, found by naming it.
LEMMA MaxIs ==
  ASSUME NEW s \in SUBSET Int, NEW e \in s, \A b \in s : b <= e
  PROVE  Max(s) = e
<1>1. Max(s) \in s /\ \A y \in s : y <= Max(s)
  <2>1. \E x \in s : \A y \in s : y <= x
    BY Zenon
  <2>2. \A x, y \in s : x >= y <=> y <= x
    OBVIOUS
  <2> QED BY <2>1, <2>2, Zenon DEF Max
<1>2. e <= Max(s) /\ Max(s) <= e /\ e \in Int /\ Max(s) \in Int
  BY <1>1
<1> QED BY <1>2

\* A word that is not zero has a highest one.
LEMMA WordMax ==
  ASSUME NEW w \in Nat, NEW v \in Word(w), v # {}
  PROVE  Max(v) \in v /\ \A b \in v : b <= Max(v)
<1> DEFINE S == {n \in 0 .. w : w - n \in v}
<1>0. v \in SUBSET (0 .. w - 1)
  BY DEF Word, Full
<1>1. S \in SUBSET Nat /\ S # {}
  <2>1. PICK b \in v : TRUE
    OBVIOUS
  <2>2. w - b \in 0 .. w /\ w - (w - b) = b
    BY <1>0
  <2>3. w - b \in S
    BY <2>2
  <2> QED BY <2>3
<1>2. PICK n \in S : \A m \in S : n <= m
  <2> HIDE DEF S
  <2> QED BY <1>1, NatMin
<1>3. ASSUME NEW b \in v
      PROVE  b <= w - n
  <2>1. w - b \in 0 .. w /\ w - (w - b) = b /\ b \in Int /\ n \in Int
    BY <1>0
  <2>2. w - b \in S
    BY <2>1
  <2>3. n <= w - b
    BY <1>2, <2>2
  <2> QED BY <2>1, <2>3
<1>4. w - n \in v
  BY <1>2
<1>5. Max(v) = w - n
  BY <1>0, <1>3, <1>4, MaxIs, v \in SUBSET Int
<1> QED BY <1>3, <1>4, <1>5

\* e is where the lowest one is, or the width.
LEMMA LowestIs ==
  ASSUME NEW w \in Nat, NEW v \in Word(w), NEW e \in 0 .. w,
         (0 .. e - 1) \cap v = {}, e < w => e \in v
  PROVE  /\ Lowest(v) = v \cap {e}
         /\ v = {} <=> e = w
         /\ v # {} => Min(v) = e
<1>0. v \in SUBSET (0 .. w - 1)
  BY DEF Word, Full
<1>1. CASE e < w
  <2>1. \A b \in v : e <= b
    BY <1>0
  <2>2. Min(v) = e /\ v # {}
    BY <1>0, <1>1, <2>1, MinIs, v \in SUBSET Int
  <2> QED BY <1>1, <2>2 DEF Lowest
<1>2. CASE e = w
  <2>1. v = {}
    BY <1>0, <1>2
  <2> QED BY <1>2, <2>1 DEF Lowest
<1>3. e < w \/ e = w
  OBVIOUS
<1> QED BY <1>1, <1>2, <1>3

-------------------------------------------------------------------------------
\* What BmiAssumption says of the width and of the index.
LEMMA Width == W \in Nat /\ W # 0 /\ IndexBits \in Nat /\ W < 2 ^ IndexBits
BY BmiAssumption

\* The three formulas of the lowest one are the instructions.
LEMMA LowestForms ==
  ASSUME NEW v \in Word(W)
  PROVE  /\ portable_blsi(v) = Lowest(v)
         /\ portable_blsr(v) = v \ Lowest(v)
         /\ portable_blsmsk(v) = BLSMSK(v)
<1>0. W \in Nat /\ 0 \in 0 .. W /\ 0 \in 0 .. W - 1 /\ v \in SUBSET (0 .. W - 1)
  BY Width DEF Word, Full
<1>1. PICK e \in 0 .. W : (0 .. e - 1) \cap v = {} /\ (e < W => e \in v)
  BY <1>0, NextOne
<1>2. Lowest(v) = v \cap {e} /\ (v = {} <=> e = W) /\ (v # {} => Min(v) = e)
  BY <1>0, <1>1, LowestIs
<1>3. Minus(W, {}, v) = ((e + 1 .. W - 1) \ v) \cup (v \cap {e})
  BY <1>0, <1>1, Negative
<1>4. Minus(W, v, {0}) = (v \ {e}) \cup (0 .. e - 1)
  BY <1>0, <1>1, MinusBit
<1>5. portable_blsi(v) = v \cap {e}
  BY <1>3 DEF portable_blsi, Zero
<1>6. portable_blsr(v) = v \ {e}
  BY <1>1, <1>4 DEF portable_blsr, One
<1>7. portable_blsmsk(v) = (v \cap {e}) \cup (0 .. e - 1)
  BY <1>1, <1>4 DEF portable_blsmsk, One, Xor
<1>8. BLSMSK(v) = (v \cap {e}) \cup (0 .. e - 1)
  <2>1. CASE v = {}
    BY <1>2, <2>1 DEF BLSMSK, AllOnes, Full
  <2>2. CASE v # {}
    <3>1. Min(v) = e /\ e # W
      BY <1>2, <2>2
    <3>3. e \in v /\ (e + 1) - 1 = e
      BY <1>0, <1>1, <3>1
    <3>2. BLSMSK(v) = 0 .. e
      BY <2>2, <3>1, <3>3 DEF BLSMSK, Full
    <3> QED BY <3>2, <3>3
  <2> QED BY <2>1, <2>2
<1> QED BY <1>2, <1>5, <1>6, <1>7, <1>8

\* Both forms of andn: the second operand without the first.
LEMMA AndnForm ==
  ASSUME NEW v, NEW m \in Word(W)
  PROVE  portable_andn(v, m) = m \ v
BY DEF portable_andn, Complement, Word

\* andn, with or without the instruction.
LEMMA AndnIs ==
  ASSUME NEW v, NEW m \in Word(W)
  PROVE  andn(v, m) = m \ v
BY AndnForm DEF andn

\* One shifted to a position of the word is that bit, and less one all bits below.
LEMMA BelowBit ==
  ASSUME NEW i \in 0 .. W - 1
  PROVE  Left(W, One, i) = {i} /\ Minus(W, {i}, One) = 0 .. i - 1
<1>0. W \in Nat /\ {i} \in Word(W) /\ 0 \in 0 .. W - 1 /\ i \in 0 .. W
  BY Width DEF Word, Full
<1>1. Left(W, One, i) = {i}
  BY <1>0 DEF Left, One, Full
<1>2. (0 .. i - 1) \cap {i} = {}
  OBVIOUS
<1>3. Minus(W, {i}, {0}) = ({i} \ {i}) \cup (0 .. i - 1)
  BY <1>0, <1>2, MinusBit
<1> QED BY <1>1, <1>3 DEF One

\* Both forms of bzhi: the positions below the index.
LEMMA BzhiForm ==
  ASSUME NEW v \in Word(W), NEW i \in 0 .. 2 ^ IndexBits - 1
  PROVE  /\ portable_bzhi(v, i) = {b \in v : b < i}
         /\ BZHI(v, i) = {b \in v : b < i}
<1>0. W \in Nat /\ v \in SUBSET (0 .. W - 1) /\ 2 ^ IndexBits \in Nat
  BY Width, PowerType DEF Word, Full
<1>1. i % 2 ^ IndexBits = i
  <2> DEFINE P == 2 ^ IndexBits
  <2> HIDE DEF P
  <2> SUFFICES ASSUME P \in Nat, i \in 0 .. P - 1 PROVE i % P = i
    BY <1>0 DEF P
  <2> QED OBVIOUS
<1>2. BZHI(v, i) = {b \in v : b < i}
  BY <1>1 DEF BZHI
<1>3. CASE i = 0
  <2>1. portable_bzhi(v, 0) = {}
    BY Width DEF portable_bzhi, Zero
  <2>2. ASSUME NEW b \in v
        PROVE  ~(b < 0)
    BY <1>0
  <2> QED BY <1>2, <1>3, <2>1, <2>2
<1>4. CASE i # 0 /\ i >= W
  <2>1. portable_bzhi(v, i) = v
    BY <1>4 DEF portable_bzhi
  <2>2. i \in Int /\ \A b \in v : b < i
    BY <1>0, <1>4
  <2> QED BY <1>2, <2>1, <2>2
<1>5. CASE i # 0 /\ ~(i >= W)
  <2>1. i \in 0 .. W - 1
    BY <1>0, <1>5
  <2>2. portable_bzhi(v, i) = v \cap Minus(W, Left(W, One, i), One)
    BY <1>5 DEF portable_bzhi
  <2>3. portable_bzhi(v, i) = v \cap (0 .. i - 1)
    BY <2>1, <2>2, BelowBit
  <2>4. v \cap (0 .. i - 1) = {b \in v : b < i}
    <3>1. \A b \in v : b \in 0 .. i - 1 <=> b < i
      BY <1>0, <2>1
    <3> QED BY <3>1
  <2> QED BY <2>3, <2>4, <1>2
<1> QED BY <1>2, <1>3, <1>4, <1>5

\* bzhi, with or without the instruction.
LEMMA BzhiIs ==
  ASSUME NEW v \in Word(W), NEW i \in 0 .. 2 ^ IndexBits - 1
  PROVE  bzhi(v, i) = {b \in v : b < i}
BY BzhiForm DEF bzhi

\* blsi, blsr and blsmsk, with or without the instructions.
LEMMA BlsIs ==
  ASSUME NEW v \in Word(W)
  PROVE  blsi(v) = Lowest(v) /\ blsr(v) = v \ Lowest(v) /\ blsmsk(v) = BLSMSK(v)
BY LowestForms DEF blsi, blsr, blsmsk

\* bit_width is one more than the highest one.
LEMMA BitWidthIs ==
  ASSUME NEW w \in Nat, NEW v \in Word(w), v # {}
  PROVE  BitWidth(v) = Max(v) + 1 /\ Max(v) \in v /\ \A b \in v : b <= Max(v)
<1>1. Max(v) \in v /\ (\A b \in v : b <= Max(v)) /\ v \in SUBSET (0 .. w - 1)
  BY WordMax DEF Word, Full
<1> DEFINE e == Max(v)
<1>2. e \in Nat
  BY <1>1, Max(v) \in 0 .. w - 1
<1> HIDE DEF e
<1>3. UNION {0 .. b : b \in v} = 0 .. e
  BY <1>1, <1>2 DEF e
<1>4. Cardinality(0 .. e) = e + 1
  BY <1>2, FS_Interval, 0 \in Int
<1> QED BY <1>1, <1>3, <1>4 DEF BitWidth, e

-------------------------------------------------------------------------------
(***************************************************************************)
(* Scans                                                                   *)
(***************************************************************************)
\* The invariant of the scan: the two properties, and where it starts from.
ScanInv ==
  /\ native \in BOOLEAN
  /\ source \in Word(W) /\ rest \in Word(W)
  /\ steps \in Nat
  /\ steps = 0 => rest = source
  /\ NoBitLostOrTwice
  /\ ScanEnds

\* A word is finite, has a population count, and its parts are words.
LEMMA WordFinite ==
  ASSUME NEW v \in Word(W)
  PROVE  IsFiniteSet(v) /\ Cardinality(v) \in Nat /\ \A s \in SUBSET v : s \in Word(W)
<1>1. v \in Bits
  BY Width, WordBits
<1>2. \A s \in SUBSET v : s \in Word(W)
  BY DEF Word
<1> QED BY <1>1, <1>2, FS_CardinalityType DEF Bits

\* A step that splits what is left, and hands out something.
LEMMA TakeKeeps ==
  ASSUME ScanInv, NEW left, NEW piece, Take(left, piece),
         left \cup piece = rest, left \cap piece = {}, piece # {}
  PROVE  ScanInv'
<1>1. /\ rest' = left /\ taken' = taken \cup piece /\ steps' = steps + 1
      /\ native' = native /\ source' = source
  BY DEF Take
<1>2. left \in SUBSET rest /\ left # rest
  OBVIOUS
<1>3. left \in Word(W)
  BY <1>2, WordFinite DEF ScanInv
<1>4. NoBitLostOrTwice'
  <2>1. rest \cup taken = source /\ rest \cap taken = {}
    BY DEF ScanInv, NoBitLostOrTwice
  <2>2. left \cup (taken \cup piece) = source
    BY <2>1
  <2>3. left \cap (taken \cup piece) = {}
    BY <2>1
  <2> QED BY <1>1, <2>2, <2>3 DEF NoBitLostOrTwice
<1>5. ScanEnds'
  <2>1. Cardinality(left) < Cardinality(rest)
    <3>1. IsFiniteSet(rest) /\ Cardinality(rest) \in Nat /\ Cardinality(left) \in Nat
      BY <1>3, WordFinite DEF ScanInv
    <3>2. Cardinality(left) <= Cardinality(rest) /\ Cardinality(left) # Cardinality(rest)
      BY <1>2, <3>1, FS_Subset
    <3> QED BY <3>1, <3>2
  <2>2. Cardinality(left) \in Nat /\ Cardinality(rest) \in Nat /\ Cardinality(source) \in Nat
    BY <1>3, WordFinite DEF ScanInv
  <2>3. steps \in Nat /\ steps + Cardinality(rest) <= Cardinality(source)
    BY DEF ScanInv, ScanEnds
  <2>4. (steps + 1) + Cardinality(left) <= Cardinality(source)
    BY <2>1, <2>2, <2>3
  <2> QED BY <1>1, <2>4 DEF ScanEnds
<1> QED
  <2>1. steps' \in Nat /\ steps' # 0
    BY <1>1 DEF ScanInv
  <2> QED BY <1>1, <1>3, <1>4, <1>5, <2>1 DEF ScanInv

\* Of a word that is not empty, the lowest one, the highest one, the rest of it.
LEMMA LowestPart ==
  ASSUME NEW v \in Word(W), v # {}
  PROVE  Lowest(v) \in SUBSET v /\ Lowest(v) # {}
<1>1. 0 \in 0 .. W /\ W \in Nat
  BY Width
<1>2. PICK e \in 0 .. W : (0 .. e - 1) \cap v = {} /\ (e < W => e \in v)
  BY <1>1, NextOne
<1>3. Lowest(v) = v \cap {e} /\ e # W
  BY <1>1, <1>2, LowestIs
<1>4. e \in v
  BY <1>1, <1>2, <1>3
<1> QED BY <1>3, <1>4

\* The highest one, isolated by bit_floor, and the word without it.
LEMMA HighestPart ==
  ASSUME NEW v \in Word(W), v # {}
  PROVE  /\ BitFloor(v) = {Max(v)} /\ Max(v) \in v
         /\ bmsr(v) = v \ {Max(v)}
<1>1. W \in Nat /\ v \in SUBSET (0 .. W - 1) /\ W < 2 ^ IndexBits /\ 2 ^ IndexBits \in Nat
  BY Width, PowerType DEF Word, Full
<1>2. BitWidth(v) = Max(v) + 1 /\ Max(v) \in v /\ (\A b \in v : b <= Max(v))
  BY <1>1, BitWidthIs
<1>3. Max(v) \in 0 .. W - 1
  BY <1>1, <1>2
<1>4. Max(v) \in 0 .. 2 ^ IndexBits - 1
  BY <1>1, <1>3
<1>5. Index(BitWidth(v) - 1) = Max(v)
  BY <1>2, <1>3 DEF Index
<1>6. bmsr(v) = {b \in v : b < Max(v)}
  BY <1>4, <1>5, BzhiIs DEF bmsr
<1>7. \A b \in v : b < Max(v) <=> b # Max(v)
  BY <1>1, <1>2, <1>3
<1> QED BY <1>2, <1>6, <1>7 DEF BitFloor

\* A run at the low end: a carry into it stops behind it.
LEMMA LowRunPart ==
  ASSUME NEW v \in Word(W), v # {}
  PROVE  \E b \in v : b \notin RunMask(v)
<1>1. W \in Nat /\ 0 \in 0 .. W - 1 /\ 0 \in 0 .. W /\ v \in SUBSET (0 .. W - 1)
  BY Width DEF Word, Full
<1>2. PICK a \in 0 .. W : (0 .. a - 1) \cap v = {} /\ (a < W => a \in v)
  BY <1>1, NextOne
<1>3. a # W
  BY <1>1, <1>2, LowestIs
<1>4. a \in v /\ a \in 0 .. W - 1
  BY <1>1, <1>2, <1>3
<1>5. Minus(W, v, {0}) = (v \ {a}) \cup (0 .. a - 1)
  BY <1>1, <1>2, MinusBit
<1> DEFINE u == v \cup (0 .. a - 1)
<1>6. v \cup Minus(W, v, {0}) = u
  BY <1>5
<1>7. u \in Word(W)
  BY <1>1, <1>4 DEF Word, Full
<1>8. PICK e \in 0 .. W : 0 .. e - 1 \subseteq u /\ e \notin u
  BY <1>1, <1>7, NextZero
<1>9. Plus(W, u, {0}) = (u \ (0 .. e - 1)) \cup ({e} \cap 0 .. W - 1)
  BY <1>1, <1>7, <1>8, PlusBit
<1>10. e > a
  BY <1>1, <1>4, <1>8
<1>11. a \notin RunMask(v)
  <2>1. RunMask(v) = Plus(W, u, {0})
    BY <1>6 DEF RunMask, One
  <2>2. a \in 0 .. e - 1 /\ a # e
    BY <1>4, <1>10
  <2> HIDE DEF u
  <2> QED BY <1>9, <2>1, <2>2
<1> QED BY <1>4, <1>11

\* The mask that stops below the start of the highest run.
LEMMA HighRunPart ==
  ASSUME NEW v \in Word(W), v # {}
  PROVE  \E b \in v : b \notin Minus(W, bmsi(ps_andn(v)), One)
<1>1. W \in Nat /\ 0 \in 0 .. W - 1 /\ 0 \in 0 .. W /\ v \in SUBSET (0 .. W - 1)
  BY Width DEF Word, Full
<1>2. PICK a \in 0 .. W : (0 .. a - 1) \cap v = {} /\ (a < W => a \in v)
  BY <1>1, NextOne
<1>3. a # W
  BY <1>1, <1>2, LowestIs
<1>4. a \in v /\ a \in 0 .. W - 1 /\ a - 1 \notin v
  BY <1>1, <1>2, <1>3
<1> DEFINE u == v \ Left(W, v, 1)
<1>5. ps_andn(v) = u /\ u \in Word(W)
  BY AndnIs, WordFinite DEF ps_andn
<1>6. a \in u
  <2>1. \A b \in v : b + 1 # a
    BY <1>1, <1>4
  <2> QED BY <1>4, <2>1 DEF Left
<1>7. bmsi(u) = {Max(u)} /\ Max(u) \in u
  BY <1>5, <1>6, HighestPart DEF bmsi
<1>8. Max(u) \in v /\ Max(u) \in 0 .. W - 1
  BY <1>1, <1>7
<1>9. Minus(W, {Max(u)}, One) = 0 .. Max(u) - 1
  BY <1>8, BelowBit
<1>10. Max(u) \notin 0 .. Max(u) - 1
  BY <1>8
<1> HIDE DEF u
<1> QED BY <1>5, <1>7, <1>8, <1>9, <1>10

\* The bit at or above a boundary.
LEMMA BoundaryPart ==
  ASSUME NEW v \in Word(W), NEW a \in 0 .. W - 1
  PROVE  blsioff(v, {a}) = Lowest({c \in v : c >= a})
<1>1. W \in Nat /\ v \in SUBSET (0 .. W - 1) /\ a \in 0 .. W
  BY Width DEF Word, Full
<1> DEFINE c == Complement(W, v)
           u == {b \in v : b >= a}
<1>2. c \in Word(W) /\ u \in Word(W)
  BY DEF Word, Full, Complement
<1>3. PICK e \in a .. W : (a .. e - 1) \cap v = {} /\ (e < W => e \in v)
  BY <1>1, NextOne
<1>4. a .. e - 1 \subseteq c /\ e \notin c /\ e \in 0 .. W
  BY <1>1, <1>3 DEF Complement, Full
<1>5. Plus(W, c, {a}) = (c \ (a .. e - 1)) \cup ({e} \cap 0 .. W - 1)
  BY <1>1, <1>2, <1>3, <1>4, PlusBit
<1>6. v \cap Plus(W, c, {a}) = v \cap {e}
  <2>1. v \cap c = {}
    BY DEF Complement
  <2> HIDE DEF c
  <2> QED BY <1>1, <1>5, <2>1
<1>7. (0 .. e - 1) \cap u = {} /\ (e < W => e \in u) /\ v \cap {e} = u \cap {e}
  BY <1>1, <1>3
<1>8. Lowest(u) = u \cap {e}
  <2> HIDE DEF u
  <2> QED BY <1>1, <1>2, <1>4, <1>7, LowestIs
<1> QED BY <1>6, <1>7, <1>8 DEF blsioff

\* Every call of the scan starts with the whole source.
LEMMA ScanInit == Init => ScanInv
<1> SUFFICES ASSUME Init
             PROVE  ScanInv
  OBVIOUS
<1>1. Cardinality(rest) \in Nat
  BY WordFinite DEF Init
<1> QED BY <1>1 DEF Init, ScanInv, NoBitLostOrTwice, ScanEnds

\* A step that keeps what a mask selects, or hands it out.
LEMMA SplitByMask ==
  ASSUME ScanInv, NEW mask,
         \/ Take(rest \cap mask, rest \ mask) /\ \E b \in rest : b \notin mask
         \/ Take(rest \ mask, rest \cap mask) /\ \E b \in rest : b \in mask
  PROVE  ScanInv'
<1> DEFINE inside == rest \cap mask
           outside == rest \ mask
<1>1. inside \cup outside = rest /\ inside \cap outside = {}
      /\ outside \cup inside = rest /\ outside \cap inside = {}
  OBVIOUS
<1>2. CASE Take(inside, outside) /\ \E b \in rest : b \notin mask
  <2>1. outside # {}
    BY <1>2
  <2> HIDE DEF inside, outside
  <2> QED BY <1>1, <1>2, <2>1, TakeKeeps
<1>3. CASE Take(outside, inside) /\ \E b \in rest : b \in mask
  <2>1. inside # {}
    BY <1>3
  <2> HIDE DEF inside, outside
  <2> QED BY <1>1, <1>3, <2>1, TakeKeeps
<1> QED BY <1>2, <1>3

\* Every round takes one of the ones that are left and keeps the account of the others.
LEMMA ScanNext == ScanInv /\ [Next]_vars => ScanInv'
<1> SUFFICES ASSUME ScanInv, [Next]_vars
             PROVE  ScanInv'
  OBVIOUS
<1>0. rest \in Word(W)
  BY DEF ScanInv
<1> DEFINE l == Lowest(rest)
           h == {Max(rest)}
<1>1. CASE TakeLowest
  <2>1. rest # {}
    BY <1>1 DEF TakeLowest, Take, Zero
  <2>2. l \in SUBSET rest /\ l # {}
    BY <1>0, <2>1, LowestPart
  <2>3. Take(Xor(rest, l), l)
    BY <1>0, <1>1, BlsIs DEF TakeLowest, blse
  <2> HIDE DEF l
  <2>4. Xor(rest, l) = rest \ l
    BY <2>2 DEF Xor
  <2>5. Xor(rest, l) \cup l = rest /\ Xor(rest, l) \cap l = {}
    BY <2>2, <2>4
  <2> QED BY <2>2, <2>3, <2>5, TakeKeeps
<1>2. CASE ResetLowest
  <2>1. rest # {}
    BY <1>2 DEF ResetLowest, Take, Zero
  <2>2. l \in SUBSET rest /\ l # {}
    BY <1>0, <2>1, LowestPart
  <2>3. Take(rest \ l, l)
    BY <1>0, <1>2, BlsIs DEF ResetLowest
  <2> HIDE DEF l
  <2>4. (rest \ l) \cup l = rest /\ (rest \ l) \cap l = {}
    BY <2>2
  <2> QED BY <2>2, <2>3, <2>4, TakeKeeps
<1>3. CASE TakeHighest
  <2>1. rest # {}
    BY <1>3 DEF TakeHighest, Take, Zero
  <2>2. BitFloor(rest) = h /\ h \in SUBSET rest /\ h # {}
    BY <1>0, <2>1, HighestPart
  <2>3. Take(Xor(rest, h), h)
    BY <1>3, <2>2 DEF TakeHighest, bmse
  <2> HIDE DEF h
  <2>4. Xor(rest, h) = rest \ h
    BY <2>2 DEF Xor
  <2>5. Xor(rest, h) \cup h = rest /\ Xor(rest, h) \cap h = {}
    BY <2>2, <2>4
  <2> QED BY <2>2, <2>3, <2>5, TakeKeeps
<1>4. CASE ResetHighest
  <2>1. rest # {}
    BY <1>4 DEF ResetHighest, Take, Zero
  <2>2. bmsi(rest) = h /\ h \in SUBSET rest /\ h # {} /\ bmsr(rest) = rest \ h
    BY <1>0, <2>1, HighestPart DEF bmsi
  <2>3. Take(rest \ h, h)
    BY <1>4, <2>2 DEF ResetHighest
  <2> HIDE DEF h
  <2>4. (rest \ h) \cup h = rest /\ (rest \ h) \cap h = {}
    BY <2>2
  <2> QED BY <2>2, <2>3, <2>4, TakeKeeps
<1>5. CASE TakeLowRun
  <2> DEFINE m == RunMask(rest)
  <2>1. Take(rest \cap m, rest \ m)
    BY <1>5 DEF TakeLowRun, consume_bit_sequence_right
  <2>2. \E b \in rest : b \notin m
    BY <1>0, <2>1, LowRunPart DEF Take, Zero
  <2> HIDE DEF m
  <2> QED BY <2>1, <2>2, SplitByMask
<1>6. CASE TakeHighRun
  <2> DEFINE m == Minus(W, bmsi(ps_andn(rest)), One)
  <2>1. Take(rest \cap m, rest \ m)
    BY <1>0, <1>6, AndnIs DEF TakeHighRun, consume_bit_sequence_left
  <2>2. \E b \in rest : b \notin m
    BY <1>0, <2>1, HighRunPart DEF Take, Zero
  <2> HIDE DEF m
  <2> QED BY <2>1, <2>2, SplitByMask
<1>7. ASSUME NEW start \in Full(W), Split(start)
      PROVE  ScanInv'
  <2> DEFINE u == {c \in rest : c >= start}
             t == blsioff(rest, {start})
  <2>1. u \in Word(W) /\ u \in SUBSET rest
    BY <1>0, WordFinite
  <2>2. t = Lowest(u) /\ t # {}
    BY <1>0, <1>7, BoundaryPart DEF Split, Zero, Full
  <2>3. u # {}
    BY <2>2 DEF Lowest
  <2> HIDE DEF u, t
  <2>4. t \in SUBSET u
    BY <2>1, <2>2, <2>3, LowestPart
  <2>5. t = {Min(u)} /\ Min(u) \in rest /\ Min(u) \in 0 .. W - 1
    BY <1>0, <2>1, <2>2, <2>3, <2>4 DEF Lowest, Word, Full
  <2> DEFINE e == Min(u)
             above == BLSMSK({e})
             below == Minus(W, {e}, One)
  <2> HIDE DEF e
  <2>6. e \in rest /\ e \in 0 .. W - 1 /\ t = {e}
    BY <2>5 DEF e
  <2>7. {e} \in Word(W) /\ Min({e}) = e /\ (e + 1) - 1 = e
    BY <2>6, MinIs, {e} \in SUBSET Int, \A b \in {e} : e <= b DEF Word, Full
  <2>8. above = 0 .. e /\ below = 0 .. e - 1
    BY <2>6, <2>7, BelowBit DEF BLSMSK, Full
  <2>9. CASE Take(extract_bits_higher_than(rest, t), clear_bits_higher_than(rest, t))
    <3>1. extract_bits_higher_than(rest, t) = rest \ above
      BY <1>0, <2>6, <2>7, BlsIs, AndnIs DEF extract_bits_higher_than
    <3>2. clear_bits_higher_than(rest, t) = rest \cap above
      BY <2>6, <2>7, BlsIs DEF clear_bits_higher_than
    <3>3. Take(rest \ above, rest \cap above)
      BY <2>9, <3>1, <3>2
    <3>4. \E b \in rest : b \in above
      BY <2>6, <2>8
    <3> HIDE DEF above
    <3> QED BY <3>3, <3>4, SplitByMask
  <2>10. CASE Take(extract_bits_lower_than(rest, t), clear_bits_lower_than(rest, t))
    <3>1. clear_bits_lower_than(rest, t) = rest \ below
      BY <1>0, <2>6, AndnIs DEF clear_bits_lower_than
    <3>2. extract_bits_lower_than(rest, t) = rest \cap below
      BY <2>6 DEF extract_bits_lower_than
    <3>3. Take(rest \cap below, rest \ below)
      BY <2>10, <3>1, <3>2
    <3>4. \E b \in rest : b \notin below
      BY <2>6, <2>8
    <3> HIDE DEF below
    <3> QED BY <3>3, <3>4, SplitByMask
  <2> QED BY <1>7, <2>9, <2>10 DEF Split, t
<1>8. CASE UNCHANGED vars
  BY <1>8 DEF vars, ScanInv, NoBitLostOrTwice, ScanEnds
<1> QED
  BY <1>1, <1>2, <1>3, <1>4, <1>5, <1>6, <1>7, <1>8 DEF Next

\* However a word is taken apart, in either form, no bit of it is lost and none is handed
\* out twice.
THEOREM ScanLosesNothing == Spec => []NoBitLostOrTwice
<1>1. ScanInv => NoBitLostOrTwice
  BY DEF ScanInv
<1> QED BY <1>1, ScanInit, ScanNext, PTL DEF Spec

\* Every scan ends within as many calls as the word has bits.
THEOREM ScanTerminates == Spec => []ScanEnds
<1>1. ScanInv => ScanEnds
  BY DEF ScanInv
<1> QED BY <1>1, ScanInit, ScanNext, PTL DEF Spec

-------------------------------------------------------------------------------
(***************************************************************************)
(* Deposit and extract                                                     *)
(***************************************************************************)
\* The positions of a mask below one of them, counted.
LEMMA RankFacts ==
  ASSUME NEW m \in Word(W), NEW k \in Nat
  PROVE  /\ Rank(k, m) \in Nat
         /\ Rank(k + 1, m) = IF k \in m THEN Rank(k, m) + 1 ELSE Rank(k, m)
         /\ k \in m => Rank(k, m) < Cardinality(m)
         /\ \A j \in m : j < k => Rank(j, m) < Rank(k, m)
<1> DEFINE Lower(i) == {j \in m : j < i}
<1>0. IsFiniteSet(m) /\ Cardinality(m) \in Nat /\ m \in SUBSET Nat
  BY WordFinite, Width DEF Word, Full
<1>1. \A i \in Nat : /\ Lower(i) \in SUBSET m /\ IsFiniteSet(Lower(i))
                     /\ Cardinality(Lower(i)) = Rank(i, m) /\ Rank(i, m) \in Nat
  <2> TAKE i \in Nat
  <2>1. Lower(i) \in SUBSET m
    OBVIOUS
  <2>2. Cardinality(Lower(i)) = Rank(i, m)
    BY DEF Rank
  <2> HIDE DEF Lower
  <2> QED BY <1>0, <2>1, <2>2, FS_Subset, FS_CardinalityType
<1>2. Rank(k + 1, m) = IF k \in m THEN Rank(k, m) + 1 ELSE Rank(k, m)
  <2>1. CASE k \in m
    <3>0. \A j \in m : j < k + 1 <=> j < k \/ j = k
      BY <1>0
    <3>1. Lower(k + 1) = Lower(k) \cup {k} /\ k \notin Lower(k)
      BY <3>0, <2>1, ~(k < k)
    <3>2. k + 1 \in Nat
      OBVIOUS
    <3> HIDE DEF Lower
    <3>3. Cardinality(Lower(k) \cup {k}) = Cardinality(Lower(k)) + 1
      BY <1>1, <3>1, FS_AddElement
    <3> QED BY <1>1, <2>1, <3>1, <3>2, <3>3
  <2>2. CASE k \notin m
    <3>0. \A j \in m : j < k + 1 <=> j < k
      BY <1>0, <2>2
    <3>1. Lower(k + 1) = Lower(k) /\ k + 1 \in Nat
      BY <3>0
    <3> HIDE DEF Lower
    <3> QED BY <1>1, <2>2, <3>1
  <2> QED BY <2>1, <2>2
<1>3. ASSUME k \in m
      PROVE  Rank(k, m) < Cardinality(m)
  <2>1. Lower(k) # m
    BY <1>3
  <2> HIDE DEF Lower
  <2>2. Cardinality(Lower(k)) <= Cardinality(m) /\ Cardinality(Lower(k)) # Cardinality(m)
    BY <1>0, <1>1, <2>1, FS_Subset
  <2> QED BY <1>0, <1>1, <2>2
<1>4. ASSUME NEW j \in m, j < k
      PROVE  Rank(j, m) < Rank(k, m)
  <2>1. j \in Nat /\ Lower(j) \in SUBSET Lower(k) /\ Lower(j) # Lower(k)
    <3>1. j \in Nat
      BY <1>0
    <3>2. j \in Lower(k) /\ j \notin Lower(j)
      BY <1>4, <3>1
    <3>3. Lower(j) \in SUBSET Lower(k)
      <4>1. \A i \in m : i < j => i < k
        BY <1>0, <1>4, <3>1
      <4> QED BY <4>1
    <3> QED BY <3>1, <3>2, <3>3
  <2> HIDE DEF Lower
  <2>2. Cardinality(Lower(j)) <= Cardinality(Lower(k))
        /\ Cardinality(Lower(j)) # Cardinality(Lower(k))
    BY <1>1, <2>1, FS_Subset
  <2> QED BY <1>1, <2>1, <2>2
<1> QED BY <1>1, <1>2, <1>3, <1>4

\* No position is below 0.
LEMMA RankZero ==
  ASSUME NEW m \in Word(W)
  PROVE  Rank(0, m) = 0
<1>1. \A j \in m : ~(j < 0)
  BY DEF Word, Full
<1>2. {j \in m : j < 0} = {}
  BY <1>1
<1> QED BY <1>2, FS_EmptySet DEF Rank

\* The positions of a mask are numbered from 0 without a gap.
LEMMA RankOnto ==
  ASSUME NEW m \in Word(W)
  PROVE  /\ \A j, k \in m : Rank(j, m) = Rank(k, m) => j = k
         /\ \A i \in 0 .. Cardinality(m) - 1 : \E k \in m : Rank(k, m) = i
         /\ \A k \in m : Rank(k, m) \in 0 .. Cardinality(m) - 1
<1> DEFINE n == Cardinality(m)
           f == [k \in m |-> Rank(k, m)]
<1>0. IsFiniteSet(m) /\ n \in Nat /\ m \in SUBSET Nat
  BY WordFinite, Width DEF Word, Full
<1>1. \A j, k \in m : Rank(j, m) = Rank(k, m) => j = k
  <2> TAKE j, k \in m
  <2>1. j \in Nat /\ k \in Nat
    BY <1>0
  <2>2. /\ Rank(j, m) \in Nat /\ Rank(k, m) \in Nat
        /\ j < k => Rank(j, m) < Rank(k, m)
        /\ k < j => Rank(k, m) < Rank(j, m)
    BY <2>1, RankFacts
  <2> QED BY <2>1, <2>2
<1>2. \A k \in m : Rank(k, m) \in 0 .. n - 1
  <2> TAKE k \in m
  <2>1. Rank(k, m) \in Nat /\ Rank(k, m) < n
    BY <1>0, RankFacts
  <2> QED BY <1>0, <2>1
<1>3. f \in Injection(m, 0 .. n - 1)
  BY <1>1, <1>2 DEF Injection, IsInjective
<1>4. IsFiniteSet(0 .. n - 1) /\ Cardinality(0 .. n - 1) = n
  <2> HIDE DEF n
  <2>1. 0 \in Int /\ n - 1 \in Int
    BY <1>0
  <2> QED BY <1>0, <2>1, FS_Interval
<1>5. f \in Surjection(m, 0 .. n - 1)
  <2> HIDE DEF f
  <2> QED BY <1>3, <1>4, FS_Injection
<1> QED BY <1>1, <1>2, <1>5 DEF Surjection

\* The loops, with what their body makes of the state before.
Deposit(value, mask, f, m) ==
  IF m = 0 THEN [result |-> Zero, at |-> 0]
  ELSE LET before == f[m - 1] IN
       IF (m - 1) \notin mask THEN before
       ELSE [result |-> IF before.at \in value THEN before.result \cup {m - 1}
                        ELSE before.result,
             at |-> before.at + 1]

Extract(value, mask, f, m) ==
  IF m = 0 THEN [result |-> Zero, at |-> 0]
  ELSE LET before == f[m - 1] IN
       IF (m - 1) \notin mask THEN before
       ELSE [result |-> IF (m - 1) \in value THEN before.result \cup {before.at}
                        ELSE before.result,
             at |-> before.at + 1]

Depositing(value, mask) ==
  CHOOSE f : f = [m \in 0 .. W |-> Deposit(value, mask, f, m)]

Extracting(value, mask) ==
  CHOOSE f : f = [m \in 0 .. W |-> Extract(value, mask, f, m)]

\* The loops of the model are the functions Depositing and Extracting at W.
LEMMA LoopsAre ==
  ASSUME NEW v, NEW m
  PROVE  /\ DepositLoop(v, m) = Depositing(v, m)[W]
         /\ ExtractLoop(v, m) = Extracting(v, m)[W]
BY DEF DepositLoop, Depositing, Deposit, ExtractLoop, Extracting, Extract

\* The state of a loop before bit k, in closed form.
Deposited(v, m, k) ==
  [result |-> {b \in m : b < k /\ Rank(b, m) \in v}, at |-> Rank(k, m)]

Extracted(v, m, k) ==
  [result |-> {Rank(b, m) : b \in {c \in v \cap m : c < k}}, at |-> Rank(k, m)]

\* One round of the deposit loop: position k - 1 of the result is decided.
LEMMA DepositStep ==
  ASSUME NEW v, NEW m \in Word(W), NEW k \in 1 .. W, NEW f, f[k - 1] = Deposited(v, m, k - 1)
  PROVE  Deposit(v, m, f, k) = Deposited(v, m, k)
<1> DEFINE j == k - 1
<1>0. j \in Nat /\ k = j + 1 /\ k # 0 /\ m \in SUBSET Int
  BY Width DEF Word, Full
<1> HIDE DEF j
<1>1. Rank(k, m) = IF j \in m THEN Rank(j, m) + 1 ELSE Rank(j, m)
  BY <1>0, RankFacts
<1>2. f[k - 1] = Deposited(v, m, j)
  BY <1>0 DEF j
<1>3. CASE j \notin m
  <2>1. \A b \in m : b < k <=> b < j
    BY <1>0, <1>3
  <2>2. Deposited(v, m, k) = Deposited(v, m, j)
    BY <1>1, <1>3, <2>1 DEF Deposited
  <2> QED BY <1>0, <1>2, <1>3, <2>2 DEF Deposit, j
<1>4. CASE j \in m
  <2>1. \A b \in m : b < k <=> b < j \/ b = j
    BY <1>0
  <2>2. {b \in m : b < k /\ Rank(b, m) \in v} =
          IF Rank(j, m) \in v THEN {b \in m : b < j /\ Rank(b, m) \in v} \cup {j}
          ELSE {b \in m : b < j /\ Rank(b, m) \in v}
    BY <1>4, <2>1
  <2>3. Deposit(v, m, f, k) =
          [result |-> IF Rank(j, m) \in v THEN {b \in m : b < j /\ Rank(b, m) \in v} \cup {j}
                      ELSE {b \in m : b < j /\ Rank(b, m) \in v},
           at |-> Rank(j, m) + 1]
    BY <1>0, <1>2, <1>4 DEF Deposit, Deposited, j
  <2> QED BY <1>1, <1>4, <2>2, <2>3 DEF Deposited
<1> QED BY <1>3, <1>4

\* One round of the extract loop: position k - 1 of the value is moved.
LEMMA ExtractStep ==
  ASSUME NEW v, NEW m \in Word(W), NEW k \in 1 .. W, NEW f, f[k - 1] = Extracted(v, m, k - 1)
  PROVE  Extract(v, m, f, k) = Extracted(v, m, k)
<1> DEFINE j == k - 1
           C(i) == {c \in v \cap m : c < i}
           R(i) == {Rank(b, m) : b \in C(i)}
<1>0. j \in Nat /\ k = j + 1 /\ k # 0 /\ m \in SUBSET Int
  BY Width DEF Word, Full
<1> HIDE DEF j
<1>1. Rank(k, m) = IF j \in m THEN Rank(j, m) + 1 ELSE Rank(j, m)
  BY <1>0, RankFacts
<1>2. f[k - 1] = [result |-> R(j), at |-> Rank(j, m)]
  BY <1>0 DEF j, Extracted
<1>3. Extracted(v, m, k) = [result |-> R(k), at |-> Rank(k, m)]
  BY DEF Extracted
<1>4. CASE j \notin m
  <2>0. \A c \in m : c < k <=> c < j
    BY <1>0, <1>4
  <2>1. C(k) = C(j)
    BY <2>0
  <2>2. Extract(v, m, f, k) = f[k - 1]
    BY <1>0, <1>4 DEF Extract, j
  <2> QED BY <1>1, <1>2, <1>3, <1>4, <2>1, <2>2
<1>5. CASE j \in m /\ j \notin v
  <2>0. \A c \in m : c \in v => (c < k <=> c < j)
    BY <1>0, <1>5
  <2>1. C(k) = C(j)
    BY <2>0
  <2>2. Extract(v, m, f, k) = [result |-> R(j), at |-> Rank(j, m) + 1]
    <3> HIDE DEF R
    <3> QED BY <1>0, <1>2, <1>5 DEF Extract, j
  <2> QED BY <1>1, <1>2, <1>3, <1>5, <2>1, <2>2
<1>6. CASE j \in m /\ j \in v
  <2>0. \A c \in m : c < k <=> c < j \/ c = j
    BY <1>0
  <2>1. C(k) = C(j) \cup {j}
    BY <2>0, <1>6
  <2>2. R(k) = R(j) \cup {Rank(j, m)}
    <3> HIDE DEF C
    <3> QED BY <2>1, Zenon
  <2>3. Extract(v, m, f, k) = [result |-> R(j) \cup {Rank(j, m)}, at |-> Rank(j, m) + 1]
    <3> HIDE DEF R, C
    <3>1. f[k - 1].result = R(j) /\ f[k - 1].at = Rank(j, m)
      BY <1>2
    <3>2. k - 1 \in m /\ k - 1 \in v /\ k # 0
      BY <1>0, <1>6 DEF j
    <3> QED BY <3>1, <3>2 DEF Extract
  <2> HIDE DEF R
  <2> QED BY <1>1, <1>2, <1>3, <1>6, <2>2, <2>3
<1> QED BY <1>4, <1>5, <1>6

\* What a loop computes: the function of its recursion is unique.
LEMMA DepositLoopIs ==
  ASSUME NEW v, NEW m \in Word(W)
  PROVE  DepositLoop(v, m) = Deposited(v, m, W)
<1> DEFINE G == [k \in 0 .. W |-> Deposited(v, m, k)]
           S == {k \in Nat : k <= W => Depositing(v, m)[k] = Deposited(v, m, k)}
<1>0. W \in Nat /\ m \in SUBSET Nat
  BY Width DEF Word, Full
<1>1. ASSUME NEW f
      PROVE  Deposit(v, m, f, 0) = Deposited(v, m, 0)
  <2>1. \A b \in m : ~(b < 0)
    BY <1>0
  <2>2. {b \in m : b < 0 /\ Rank(b, m) \in v} = {}
    BY <2>1
  <2> QED BY <2>2, RankZero DEF Deposit, Deposited, Zero
<1>2. \E f : f = [k \in 0 .. W |-> Deposit(v, m, f, k)]
  <2>1. ASSUME NEW k \in 0 .. W
        PROVE  Deposit(v, m, G, k) = Deposited(v, m, k)
    <3>1. CASE k = 0
      BY <1>1, <3>1
    <3>2. CASE k # 0
      <4>1. k \in 1 .. W /\ k - 1 \in 0 .. W
        BY <1>0, <3>2
      <4>2. G[k - 1] = Deposited(v, m, k - 1)
        BY <4>1
      <4> HIDE DEF G
      <4> QED BY <4>1, <4>2, DepositStep
    <3> QED BY <3>1, <3>2
  <2>2. G = [k \in 0 .. W |-> Deposit(v, m, G, k)]
    BY <2>1
  <2> HIDE DEF G
  <2> QED BY <2>2
<1>3. \A k \in 0 .. W : Depositing(v, m)[k] = Deposit(v, m, Depositing(v, m), k)
  <2>1. Depositing(v, m) = [k \in 0 .. W |-> Deposit(v, m, Depositing(v, m), k)]
    BY <1>2, Zenon DEF Depositing
  <2> QED BY <2>1
<1>4. 0 \in S
  BY <1>0, <1>1, <1>3
<1>5. ASSUME NEW k \in Nat, k \in S
      PROVE  k + 1 \in S
  <2> SUFFICES ASSUME k + 1 <= W
               PROVE  Depositing(v, m)[k + 1] = Deposited(v, m, k + 1)
    OBVIOUS
  <2>1. k + 1 \in 1 .. W /\ k + 1 \in 0 .. W /\ (k + 1) - 1 = k /\ k <= W
    BY <1>0
  <2>2. Depositing(v, m)[k] = Deposited(v, m, k)
    BY <1>5, <2>1
  <2> QED BY <1>3, <2>1, <2>2, DepositStep
<1>6. W \in S
  <2> HIDE DEF S
  <2> QED BY <1>0, <1>4, <1>5, SetInduction
<1> QED BY <1>0, <1>6, LoopsAre

\* The extract loop ends with the whole extract.
LEMMA ExtractLoopIs ==
  ASSUME NEW v, NEW m \in Word(W)
  PROVE  ExtractLoop(v, m) = Extracted(v, m, W)
<1> DEFINE G == [k \in 0 .. W |-> Extracted(v, m, k)]
           S == {k \in Nat : k <= W => Extracting(v, m)[k] = Extracted(v, m, k)}
<1>0. W \in Nat /\ m \in SUBSET Nat
  BY Width DEF Word, Full
<1>1. ASSUME NEW f
      PROVE  Extract(v, m, f, 0) = Extracted(v, m, 0)
  <2>1. \A c \in m : ~(c < 0)
    BY <1>0
  <2>2. {Rank(b, m) : b \in {c \in v \cap m : c < 0}} = {}
    BY <2>1
  <2> QED BY <2>2, RankZero DEF Extract, Extracted, Zero
<1>2. \E f : f = [k \in 0 .. W |-> Extract(v, m, f, k)]
  <2>1. ASSUME NEW k \in 0 .. W
        PROVE  Extract(v, m, G, k) = Extracted(v, m, k)
    <3>1. CASE k = 0
      BY <1>1, <3>1
    <3>2. CASE k # 0
      <4>1. k \in 1 .. W /\ k - 1 \in 0 .. W
        BY <1>0, <3>2
      <4>2. G[k - 1] = Extracted(v, m, k - 1)
        BY <4>1
      <4> HIDE DEF G
      <4> QED BY <4>1, <4>2, ExtractStep
    <3> QED BY <3>1, <3>2
  <2>2. G = [k \in 0 .. W |-> Extract(v, m, G, k)]
    BY <2>1
  <2> HIDE DEF G
  <2> QED BY <2>2
<1>3. \A k \in 0 .. W : Extracting(v, m)[k] = Extract(v, m, Extracting(v, m), k)
  <2>1. Extracting(v, m) = [k \in 0 .. W |-> Extract(v, m, Extracting(v, m), k)]
    BY <1>2, Zenon DEF Extracting
  <2> QED BY <2>1
<1>4. 0 \in S
  BY <1>0, <1>1, <1>3
<1>5. ASSUME NEW k \in Nat, k \in S
      PROVE  k + 1 \in S
  <2> SUFFICES ASSUME k + 1 <= W
               PROVE  Extracting(v, m)[k + 1] = Extracted(v, m, k + 1)
    OBVIOUS
  <2>1. k + 1 \in 1 .. W /\ k + 1 \in 0 .. W /\ (k + 1) - 1 = k /\ k <= W
    BY <1>0
  <2>2. Extracting(v, m)[k] = Extracted(v, m, k)
    BY <1>5, <2>1
  <2> QED BY <1>3, <2>1, <2>2, ExtractStep
<1>6. W \in S
  <2> HIDE DEF S
  <2> QED BY <1>0, <1>4, <1>5, SetInduction
<1> QED BY <1>0, <1>6, LoopsAre

\* The loops are the instructions.
LEMMA DepositForms ==
  ASSUME NEW v, NEW m \in Word(W)
  PROVE  portable_pdep(v, m) = PDEP(v, m) /\ portable_pext(v, m) = PEXT(v, m)
<1>1. \A b \in m : b < W
  BY Width DEF Word, Full
<1>2. {b \in m : b < W /\ Rank(b, m) \in v} = {b \in m : Rank(b, m) \in v}
  BY <1>1
<1>3. {c \in v \cap m : c < W} = v \cap m
  BY <1>1
<1>4. {Rank(b, m) : b \in {c \in v \cap m : c < W}} = {Rank(b, m) : b \in v \cap m}
  BY <1>3, Zenon
<1>5. DepositLoop(v, m).result = {b \in m : b < W /\ Rank(b, m) \in v}
  BY DepositLoopIs DEF Deposited
<1>6. ExtractLoop(v, m).result = {Rank(b, m) : b \in {c \in v \cap m : c < W}}
  BY ExtractLoopIs DEF Extracted
<1> QED BY <1>2, <1>4, <1>5, <1>6 DEF portable_pdep, PDEP, portable_pext, PEXT

\* pdep and pext, with or without the instructions.
LEMMA DepositIs ==
  ASSUME NEW v, NEW m \in Word(W)
  PROVE  pdep(v, m) = PDEP(v, m) /\ pext(v, m) = PEXT(v, m)
BY DepositForms DEF pdep, pext

\* What is deposited comes back, and what is extracted goes back where it was.
LEMMA ThereAndBack ==
  ASSUME NEW v \in SUBSET Int, NEW m \in Word(W)
  PROVE  /\ PEXT(PDEP(v, m), m) = v \cap Full(Cardinality(m))
         /\ PDEP(PEXT(v, m), m) = v \cap m
<1> DEFINE n == Cardinality(m)
<1>0. n \in Nat
  BY WordFinite
<1>1. /\ \A j, k \in m : Rank(j, m) = Rank(k, m) => j = k
      /\ \A i \in 0 .. n - 1 : \E k \in m : Rank(k, m) = i
      /\ \A k \in m : Rank(k, m) \in 0 .. n - 1
  BY RankOnto
<1> HIDE DEF n
<1>2. PEXT(PDEP(v, m), m) = v \cap 0 .. n - 1
  <2>1. PEXT(PDEP(v, m), m) = {Rank(k, m) : k \in {j \in m : Rank(j, m) \in v}}
    <3>1. {j \in m : Rank(j, m) \in v} \cap m = {j \in m : Rank(j, m) \in v}
      OBVIOUS
    <3> QED BY <3>1, Zenon DEF PEXT, PDEP
  <2>2. ASSUME NEW i \in {Rank(k, m) : k \in {j \in m : Rank(j, m) \in v}}
        PROVE  i \in v \cap 0 .. n - 1
    BY <1>1
  <2>3. ASSUME NEW i \in v \cap 0 .. n - 1
        PROVE  i \in {Rank(k, m) : k \in {j \in m : Rank(j, m) \in v}}
    <3>1. PICK k \in m : Rank(k, m) = i
      BY <1>1
    <3> QED BY <3>1
  <2> QED BY <2>1, <2>2, <2>3
<1>3. PDEP(PEXT(v, m), m) = v \cap m
  <2>1. ASSUME NEW j \in m
        PROVE  Rank(j, m) \in PEXT(v, m) <=> j \in v
    BY <1>1 DEF PEXT
  <2> QED BY <2>1 DEF PDEP
<1> QED BY <1>2, <1>3 DEF Full, n

\* The full word counts its width.
LEMMA FullCount == IsFiniteSet(Full(W)) /\ Cardinality(Full(W)) = W
<1>1. W \in Nat /\ 0 \in Int /\ W - 1 \in Int /\ ~(0 > W - 1) /\ (W - 1) - 0 + 1 = W
  BY Width
<1>2. IsFiniteSet(0 .. W - 1) /\ Cardinality(0 .. W - 1) = (W - 1) - 0 + 1
  BY <1>1, FS_Interval
<1> QED BY <1>1, <1>2 DEF Full

\* pdepl deposits the highest bits.
LEMMA DepositHigh ==
  ASSUME NEW v \in Word(W), NEW m \in Word(W)
  PROVE  pext(pdepl(v, m), m) = Right(v, W - Cardinality(m))
<1> DEFINE n == Cardinality(m)
           k == Cardinality(Complement(W, m)) % W
<1>0. W \in Nat /\ W # 0 /\ n \in Nat /\ v \in SUBSET (0 .. W - 1) /\ m \in SUBSET (0 .. W - 1)
      /\ IsFiniteSet(m)
  BY Width, WordFinite DEF Word, Full
<1>1. Cardinality(Complement(W, m)) = W - n
  <2>1. IsFiniteSet(0 .. W - 1) /\ Cardinality(0 .. W - 1) = W
    BY FullCount DEF Full
  <2>2. (0 .. W - 1) \cap m = m
    BY <1>0
  <2>3. Cardinality((0 .. W - 1) \ m) = W - n
    <3>1. Cardinality((0 .. W - 1) \ m)
            = Cardinality(0 .. W - 1) - Cardinality((0 .. W - 1) \cap m)
      BY <2>1, FS_Difference
    <3> QED BY <2>1, <2>2, <3>1
  <2> QED BY <2>3 DEF Complement, Full
<1>2. n <= W /\ (n = 0 => m = {})
  <2>1. IsFiniteSet(Complement(W, m))
    BY WordFinite DEF Complement, Word
  <2>2. W - n \in Nat
    BY <1>1, <2>1, FS_CardinalityType
  <2> QED BY <1>0, <2>2, FS_EmptySet
<1>3. pdepl(v, m) = PDEP(Right(v, k), m)
  BY DepositIs DEF pdepl
<1>4. pdepl(v, m) = PDEP(Right(v, k), m) /\ pext(pdepl(v, m), m) = PEXT(PDEP(Right(v, k), m), m)
  BY <1>3, DepositIs
<1>5. k \in Nat /\ Right(v, k) \in SUBSET Int
  <2>1. k \in Nat
    BY <1>0, <1>1, <1>2
  <2> HIDE DEF k
  <2> QED BY <1>0, <2>1 DEF Right
<1>6. pext(pdepl(v, m), m) = Right(v, k) \cap Full(n)
  BY <1>4, <1>5, ThereAndBack
<1>7. CASE n = 0
  <2>1. Full(n) = {} /\ W - n = W
    BY <1>0, <1>7 DEF Full
  <2>2. \A c \in v : ~(c >= W)
    BY <1>0
  <2>3. Right(v, W - n) = {}
    BY <2>1, <2>2 DEF Right
  <2> QED BY <1>6, <2>1, <2>3
<1>8. CASE n # 0
  <2>1. k = W - n
    BY <1>0, <1>1, <1>2, <1>8
  <2>2. Right(v, W - n) \subseteq 0 .. n - 1
    BY <1>0, <1>2 DEF Right
  <2> HIDE DEF k, n
  <2> QED BY <1>6, <2>1, <2>2 DEF Full, n
<1> QED BY <1>7, <1>8

\* Deposit and extract undo each other, in either form.
THEOREM DepositAndExtractInvert == Spec => []DepositExtractInverse
<1>1. ScanInv => DepositExtractInverse
  <2> SUFFICES ASSUME ScanInv, NEW m \in Word(W)
               PROVE  LET n == Cardinality(m) IN
                      /\ pext(pdep(rest, m), m) = rest \cap Full(n)
                      /\ pdep(pext(rest, m), m) = rest \cap m
                      /\ pext(pdepl(rest, m), m) = Right(rest, W - n)
    BY DEF DepositExtractInverse
  <2>1. rest \in Word(W) /\ rest \in SUBSET Int
    BY DEF ScanInv, Word, Full
  <2> QED BY <2>1, DepositIs, ThereAndBack, DepositHigh
<1> QED BY <1>1, ScanInit, ScanNext, PTL DEF Spec

-------------------------------------------------------------------------------
(***************************************************************************)
(* Words and products                                                      *)
(***************************************************************************)
\* One position is a word.
LEMMA OneBit ==
  ASSUME NEW b \in Nat
  PROVE  {b} \in Bits
<1>1. {b} \in SUBSET Nat
  OBVIOUS
<1> QED BY <1>1, FS_Singleton DEF Bits

\* Powers multiply by adding their exponents.
LEMMA PowerSum ==
  ASSUME NEW a \in Nat, NEW b \in Nat
  PROVE  2 ^ (a + b) = 2 ^ a * 2 ^ b
<1> DEFINE S == {n \in Nat : 2 ^ (a + n) = 2 ^ a * 2 ^ n}
<1>0. 2 ^ a \in Nat
  BY PowerType
<1>1. 0 \in S
  <2>1. a + 0 = a /\ 2 ^ 0 = 1 /\ 2 ^ a * 1 = 2 ^ a
    BY <1>0
  <2> QED BY <2>1
<1>2. ASSUME NEW n \in Nat, n \in S
      PROVE  n + 1 \in S
  <2>1. 2 ^ ((a + n) + 1) = 2 * 2 ^ (a + n) /\ 2 ^ (n + 1) = 2 * 2 ^ n /\ 2 ^ n \in Nat
    BY Double, PowerType, a + n \in Nat
  <2>2. (a + n) + 1 = a + (n + 1)
    OBVIOUS
  <2>3. 2 ^ (a + n) = 2 ^ a * 2 ^ n
    BY <1>2
  <2>4. \A x, y \in Nat : 2 * (x * y) = x * (2 * y)
    OBVIOUS
  <2>5. 2 ^ (a + (n + 1)) = 2 ^ a * 2 ^ (n + 1)
    BY <1>0, <2>1, <2>2, <2>3, <2>4
  <2> QED BY <2>5
<1>3. b \in S
  <2> HIDE DEF S
  <2> QED BY <1>1, <1>2, SetInduction
<1> QED BY <1>3

\* Moving the bits up by k multiplies by 2^k.
LEMMA NumShift ==
  ASSUME NEW s \in Bits, NEW k \in Nat
  PROVE  {b + k : b \in s} \in Bits /\ Num({b + k : b \in s}) = 2 ^ k * Num(s)
<1> DEFINE Up(t) == {b + k : b \in t}
           P == {t \in SUBSET s : Up(t) \in Bits /\ Num(Up(t)) = 2 ^ k * Num(t)}
<1>0. 2 ^ k \in Nat /\ s \in SUBSET Nat /\ IsFiniteSet(s)
  BY PowerType DEF Bits
<1>1. {} \in P
  <2>1. Up({}) = {} /\ {} \in Bits /\ Num({}) = 0 /\ 2 ^ k * 0 = 0
    BY <1>0, NumEmpty, FS_EmptySet DEF Bits
  <2> HIDE DEF Up
  <2> QED BY <2>1
<1>2. ASSUME NEW t \in SUBSET s, NEW x \in t, t \ {x} \in P
      PROVE  t \in P
  <2> DEFINE r == t \ {x}
  <2>1. x \in Nat /\ x + k \in Nat /\ t \in Bits /\ r \in Bits /\ {x} \in Bits /\ {x + k} \in Bits
    <3>1. t \in Bits
      BY PartOfBits
    <3>2. x \in Nat
      BY <1>0
    <3>3. r \in Bits
      BY <3>1, PartOfBits
    <3> QED BY <3>1, <3>2, <3>3, OneBit
  <2>2. Up(t) = Up(r) \cup {x + k}
    OBVIOUS
  <2>3. x + k \notin Up(r)
    BY <1>0
  <2>4. Up(r) \in Bits /\ Num(Up(r)) = 2 ^ k * Num(r)
    BY <1>2
  <2>5. r \cup {x} = t /\ r \cap {x} = {}
    OBVIOUS
  <2> HIDE DEF Up, r
  <2>6. Up(t) \in Bits /\ Num(Up(t)) = Num(Up(r)) + Num({x + k})
    <3>1. Up(r) \cap {x + k} = {}
      BY <2>3
    <3>2. /\ Up(r) \cup {x + k} \in Bits
          /\ Num(Up(r) \cup {x + k}) = Num(Up(r)) + Num({x + k})
      BY <2>1, <2>4, <3>1, BitsUnion
    <3> QED BY <2>2, <3>2
  <2>7. Num(t) = Num(r) + Num({x}) /\ Num(r) \in Nat
    BY <2>1, <2>5, BitsUnion
  <2>8. Num({x}) = 2 ^ x /\ Num({x + k}) = 2 ^ k * 2 ^ x /\ 2 ^ x \in Nat
    <3>1. 2 ^ (k + x) = 2 ^ k * 2 ^ x /\ k + x = x + k
      BY <2>1, PowerSum
    <3> QED BY <2>1, <3>1, NumOne, PowerType
  <2>9. \A p, y, z \in Nat : p * y + p * z = p * (y + z)
    OBVIOUS
  <2>10. Num(Up(t)) = 2 ^ k * Num(t)
    BY <1>0, <2>4, <2>6, <2>7, <2>8, <2>9
  <2> QED BY <2>6, <2>10
<1>3. s \in P
  <2> HIDE DEF P
  <2>1. P \in SUBSET (SUBSET s)
    BY DEF P
  <2>2. \A t \in SUBSET s : (\A x \in t : t \ {x} \in P) => t \in P
    BY <1>1, <1>2
  <2>3. P = SUBSET s
    BY <1>0, <1>1, <2>1, <2>2, SubsetInduction
  <2> QED BY <2>3
<1> QED BY <1>3

\* A word of width w is a number below 2^w.
LEMMA NumBound ==
  ASSUME NEW w \in Nat, NEW s \in Word(w)
  PROVE  Num(s) \in 0 .. 2 ^ w - 1
<1>1. Full(w) \in Word(w) /\ s \in SUBSET Full(w)
  BY DEF Word
<1>2. Num(Full(w)) = 2 ^ w - 1 /\ 2 ^ w \in Nat
  BY NumBelow, PowerType DEF Full
<1>3. Num(Full(w) \ s) = Num(Full(w)) - Num(s) /\ Num(s) \in Nat /\ Num(Full(w) \ s) \in Nat
  BY <1>1, WordBits, BitsLess
<1> QED BY <1>2, <1>3

\* A word by its low k bits and the rest.
LEMMA NumParts ==
  ASSUME NEW w \in Nat, NEW s \in Word(w), NEW k \in 0 .. w
  PROVE  /\ Num(s) = Num(s \cap Full(k)) + 2 ^ k * Num(Right(s, k))
         /\ s \cap Full(k) \in Word(k) /\ Right(s, k) \in Word(w - k)
<1> DEFINE low == s \cap Full(k)
           up == {b + k : b \in Right(s, k)}
<1>0. s \in SUBSET (0 .. w - 1) /\ s \in Bits
  BY WordBits DEF Word, Full
<1>1. Right(s, k) \in Word(w - k) /\ w - k \in Nat
  <2>1. ASSUME NEW b \in Right(s, k)
        PROVE  b \in 0 .. (w - k) - 1
    BY <1>0 DEF Right
  <2> QED BY <2>1 DEF Word, Full
<1>2. up = s \ low
  <2>1. ASSUME NEW b \in s \ low
        PROVE  b \in up
    <3>1. b - k \in Right(s, k) /\ (b - k) + k = b
      BY <1>0 DEF Right, Full
    <3> QED BY <3>1
  <2>2. ASSUME NEW b \in up
        PROVE  b \in s \ low
    BY <1>0 DEF Right, Full
  <2> QED BY <2>1, <2>2
<1>3. Num(up) = 2 ^ k * Num(Right(s, k))
  BY <1>1, WordBits, NumShift
<1>4. low \cup up = s /\ low \cap up = {}
  BY <1>2
<1>5. low \in Bits /\ up \in Bits
  <2> HIDE DEF low, up
  <2> QED BY <1>0, <1>4, PartOfBits
<1>6. Num(s) = Num(low) + Num(up)
  <2> HIDE DEF low, up
  <2> QED BY <1>4, <1>5, BitsUnion
<1>7. low \in Word(k)
  BY DEF Word
<1> QED BY <1>1, <1>3, <1>6, <1>7

\* Every number below 2^w is that of a word.
LEMMA NumSurjective ==
  ASSUME NEW w \in Nat, NEW n \in 0 .. 2 ^ w - 1
  PROVE  \E s \in Word(w) : Num(s) = n
<1> DEFINE S == {k \in Nat : \A i \in 0 .. 2 ^ k - 1 : \E s \in Word(k) : Num(s) = i}
<1>1. 0 \in S
  <2>1. 2 ^ 0 = 1 /\ {} \in Word(0) /\ Num({}) = 0
    BY NumEmpty DEF Word
  <2> QED BY <2>1
<1>2. ASSUME NEW k \in Nat, k \in S
      PROVE  k + 1 \in S
  <2> SUFFICES ASSUME NEW i \in 0 .. 2 ^ (k + 1) - 1
               PROVE  \E s \in Word(k + 1) : Num(s) = i
    OBVIOUS
  <2>1. 2 ^ (k + 1) = 2 * 2 ^ k /\ 2 ^ k \in Nat /\ i \in Nat
    BY Double, PowerType
  <2>2. CASE i < 2 ^ k
    <3>1. i \in 0 .. 2 ^ k - 1
      BY <2>1, <2>2
    <3>2. PICK s \in Word(k) : Num(s) = i
      BY <1>2, <3>1
    <3>3. s \in Word(k + 1)
      BY DEF Word, Full
    <3> QED BY <3>2, <3>3
  <2>3. CASE ~(i < 2 ^ k)
    <3>1. i - 2 ^ k \in 0 .. 2 ^ k - 1
      BY <2>1, <2>3
    <3>2. PICK s \in Word(k) : Num(s) = i - 2 ^ k
      BY <1>2, <3>1
    <3>3. s \cup {k} \in Word(k + 1) /\ {k} \in Word(k + 1) /\ s \in Word(k + 1) /\ s \cap {k} = {}
      BY DEF Word, Full
    <3>4. s \in Bits /\ {k} \in Bits /\ k + 1 \in Nat
      BY <3>3, WordBits
    <3>5. Num(s \cup {k}) = (i - 2 ^ k) + 2 ^ k
      BY <3>2, <3>3, <3>4, BitsUnion, NumOne
    <3>6. Num(s \cup {k}) = i
      BY <2>1, <3>5
    <3> QED BY <3>3, <3>6
  <2> QED BY <2>2, <2>3
<1>3. w \in S
  <2> HIDE DEF S
  <2> QED BY <1>1, <1>2, SetInduction
<1> QED BY <1>3

\* A number below 2^w is the number of its word.
LEMMA NumBin ==
  ASSUME NEW w \in Nat, NEW n \in 0 .. 2 ^ w - 1
  PROVE  Num(Bin(w, n)) = n
<1>1. PICK s \in Word(w) : Num(s) = n
  BY NumSurjective
<1>2. n + 0 * 2 ^ w = n
  BY PowerType
<1>3. Bin(w, Num(s) + 0 * 2 ^ w) = s
  BY BinNum, 0 \in Int, Zenon
<1> QED BY <1>1, <1>2, <1>3

\* What is written in w bits is a word of width w.
LEMMA BinWord ==
  ASSUME NEW w, NEW n
  PROVE  Bin(w, n) \in Word(w)
BY DEF Bin, Word

\* Sums and products that fit.
LEMMA PlusFits ==
  ASSUME NEW w \in Nat, NEW s, NEW t, NEW n \in 0 .. 2 ^ w - 1, Num(s) + Num(t) = n
  PROVE  Plus(w, s, t) \in Word(w) /\ Num(Plus(w, s, t)) = n
BY NumBin, BinWord DEF Plus

\* A product that fits its word is exact.
LEMMA TimesFits ==
  ASSUME NEW w \in Nat, NEW s, NEW t, NEW n \in 0 .. 2 ^ w - 1, Num(s) * Num(t) = n
  PROVE  Times(w, s, t) \in Word(w) /\ Num(Times(w, s, t)) = n
BY NumBin, BinWord DEF Times

\* Index and length are the two digits of a control word.
LEMMA ControlWord ==
  ASSUME NEW P \in Nat \ {0}, NEW i \in 0 .. P - 1, NEW q \in Nat
  PROVE  (i + P * q) % P = i /\ (i + P * q) \div P = q
<1>1. P * q = q * P
  OBVIOUS
<1>2. (i + q * P) \div P = q
  BY DivPower
<1>3. (i + q * P) % P = i
  OBVIOUS
<1> QED BY <1>1, <1>2, <1>3

\* A bit field, by its start and its length.
LEMMA BextrForm ==
  ASSUME NEW v \in Word(W), NEW start \in 0 .. 2 ^ IndexBits - 1,
         NEW len \in 0 .. 2 ^ IndexBits - 1
  PROVE  portable_bextr(v, start, len) = BEXTR(v, start, len)
<1> DEFINE P == 2 ^ IndexBits
<1>0. W \in Nat /\ W # 0 /\ v \in SUBSET (0 .. W - 1) /\ P \in Nat /\ start \in Nat /\ len \in Nat
  BY Width, PowerType DEF Word, Full
<1>1. start % P = start /\ len % P = len
  <2> HIDE DEF P
  <2>1. start \in 0 .. P - 1 /\ len \in 0 .. P - 1
    BY DEF P
  <2> QED BY <1>0, <2>1
<1> HIDE DEF P
<1>2. BEXTR(v, start, len) = Right(v, start) \cap (0 .. len - 1)
  BY <1>1 DEF BEXTR, Full, P
<1>3. \A b \in Right(v, start) : b \in Nat /\ b + start < W
  BY <1>0 DEF Right
<1>4. CASE len = 0 \/ start >= W
  <2>1. portable_bextr(v, start, len) = {}
    BY <1>4 DEF portable_bextr, Zero
  <2>2. \A b \in Right(v, start) : b \notin 0 .. len - 1
    BY <1>0, <1>3, <1>4
  <2> QED BY <1>2, <2>1, <2>2
<1>5. CASE ~(len = 0 \/ start >= W)
  <2> DEFINE count == IF len < W - start THEN len ELSE W - start
             shifted == Right(v, start)
  <2>1. count \in 1 .. W
    BY <1>0, <1>5
  <2>2. portable_bextr(v, start, len) =
          IF count = W THEN shifted
          ELSE shifted \cap Minus(W, Left(W, One, count), One)
    BY <1>5 DEF portable_bextr
  <2>3. \A b \in shifted : b \in 0 .. len - 1 <=> b \in 0 .. count - 1
    BY <1>0, <1>3, <1>5
  <2>4. CASE count = W
    <3>1. \A b \in shifted : b \in 0 .. count - 1
      BY <1>0, <1>3, <2>4
    <3> HIDE DEF count, shifted
    <3> QED BY <1>2, <2>2, <2>3, <2>4, <3>1 DEF shifted
  <2>5. CASE count # W
    <3> HIDE DEF count, shifted
    <3>1. count \in 0 .. W - 1
      BY <1>0, <2>1, <2>5
    <3>2. Minus(W, Left(W, One, count), One) = 0 .. count - 1
      BY <3>1, BelowBit
    <3> QED BY <1>2, <2>2, <2>3, <2>5, <3>2 DEF shifted
  <2> QED BY <2>4, <2>5
<1> QED BY <1>4, <1>5

\* bextr_control takes its index and its length out of the control word bextr would build.
LEMMA ControlForm ==
  ASSUME NEW v \in Word(W), NEW i \in 0 .. 2 ^ IndexBits - 1,
         NEW len \in 0 .. 2 ^ IndexBits - 1
  PROVE  bextr_control(v, i + 2 ^ IndexBits * (len + 2 ^ IndexBits)) = bextr(v, len, i)
<1> DEFINE P == 2 ^ IndexBits
           c == i + P * (len + P)
<1>0. P \in Nat \ {0} /\ i \in 0 .. P - 1 /\ len \in 0 .. P - 1
  BY Width, PowerType
<1> HIDE DEF P
<1>1. c % P = i /\ c \div P = len + P
  BY <1>0, ControlWord, len + P \in Nat
<1>2. (len + P) % P = len
  <2>1. (len + P * 1) % P = len
    BY <1>0, 1 \in Nat, ControlWord
  <2> QED BY <1>0, <2>1
<1>3. c % P = i /\ (c \div P) % P = len
  BY <1>1, <1>2
<1> HIDE DEF c
<1>4. bextr_control(v, c) = bextr(v, len, i)
  BY <1>3, Zenon DEF bextr_control, bextr, P
<1> QED BY <1>4 DEF c, P

-------------------------------------------------------------------------------
\* The schoolbook product: two digits base H by two, one cross product after the other.
LEMMA DigitProduct ==
  ASSUME NEW H \in Nat \ {0}, NEW x \in 0 .. H - 1, NEW y \in 0 .. H - 1
  PROVE  x * y \in Nat /\ x * y <= H * H - 2 * H + 1
<1>1. x * y \in Nat /\ x * (H - 1) \in Nat
  OBVIOUS
<1>2. x * y <= x * (H - 1)
  OBVIOUS
<1>3. x * (H - 1) <= (H - 1) * (H - 1)
  OBVIOUS
<1>4. (H - 1) * (H - 1) = H * H - 2 * H + 1
  OBVIOUS
<1>5. H * H \in Nat
  OBVIOUS
<1> QED BY <1>1, <1>2, <1>3, <1>4, <1>5

\* A product of two-digit numbers from its four cross products, with the carries of the code.
LEMMA Schoolbook ==
  ASSUME NEW H \in Nat, NEW a0 \in Nat, NEW a1 \in Nat, NEW b0 \in Nat, NEW b1 \in Nat,
         NEW p0 \in Nat, NEW p1 \in Nat, NEW m0 \in Nat, NEW m1 \in Nat,
         NEW l0 \in Nat, NEW l1 \in Nat,
         a0 * b0 = p0 + H * p1,
         a1 * b0 + p1 = m0 + H * m1,
         m0 + a0 * b1 = l0 + H * l1
  PROVE  (a0 + H * a1) * (b0 + H * b1) = (p0 + H * l0) + (H * H) * ((a1 * b1 + m1) + l1)
<1>1. (a0 + H * a1) * (b0 + H * b1)
        = a0 * b0 + H * (a1 * b0) + H * (a0 * b1) + (H * H) * (a1 * b1)
  OBVIOUS
<1> DEFINE x == a1 * b0
           y == a0 * b1
           z == a1 * b1
<1>2. x \in Nat /\ y \in Nat /\ z \in Nat
  OBVIOUS
<1> HIDE DEF x, y, z
<1>3. x = m0 + H * m1 - p1 /\ y = l0 + H * l1 - m0
  BY <1>2 DEF x, y
<1>4. (p0 + H * p1) + H * (m0 + H * m1 - p1) + H * (l0 + H * l1 - m0) + (H * H) * z
        = (p0 + H * l0) + (H * H) * ((z + m1) + l1)
  BY <1>2
<1> QED BY <1>1, <1>3, <1>4 DEF x, y, z

\* A word is its two halves.
LEMMA Halves ==
  ASSUME NEW h \in Nat, W = 2 * h, NEW s \in Word(W)
  PROVE  /\ Num(s) = Num(s \cap Full(h)) + 2 ^ h * Num(Right(s, h))
         /\ Num(s \cap Full(h)) \in 0 .. 2 ^ h - 1
         /\ Num(Right(s, h)) \in 0 .. 2 ^ h - 1
         /\ s \cap Full(h) \in Word(h)
<1>1. W \in Nat /\ h \in 0 .. W /\ W - h = h
  BY Width
<1>2. /\ Num(s) = Num(s \cap Full(h)) + 2 ^ h * Num(Right(s, h))
      /\ s \cap Full(h) \in Word(h) /\ Right(s, h) \in Word(h)
  BY <1>1, NumParts
<1> QED BY <1>2, NumBound

\* A half in the upper place.
Upper(t, h) == {b + h : b \in t}

\* A word of two halves is their number, and gives them back.
Joins(u, s, t, h) ==
  /\ u \in Word(2 * h)
  /\ Num(u) = Num(s) + 2 ^ h * Num(t)
  /\ u \cap Full(h) = s
  /\ Right(u, h) = t

\* The number of two halves put together, and of two words.
LEMMA JoinHalves ==
  ASSUME NEW h \in Nat, NEW s \in Word(h), NEW t \in Word(h)
  PROVE  Joins(s \cup Upper(t, h), s, t, h)
<1> DEFINE u == s \cup Upper(t, h)
           up == {b + h : b \in t}
<1>u. u = s \cup up
  BY DEF Upper
<1>0. s \in SUBSET (0 .. h - 1) /\ t \in SUBSET (0 .. h - 1) /\ s \in Bits /\ t \in Bits
  BY WordBits DEF Word, Full
<1>1. \A c \in up : c \in h .. 2 * h - 1
  BY <1>0
<1>2. u \in Word(2 * h)
  <2>1. \A b \in s : b \in 0 .. 2 * h - 1
    BY <1>0
  <2>2. \A b \in up : b \in 0 .. 2 * h - 1
    BY <1>1
  <2> HIDE DEF up
  <2>3. u = s \cup up
    BY <1>u
  <2> QED BY <2>1, <2>2, <2>3 DEF Word, Full
<1>3. u \cap Full(h) = s
  <2>1. \A b \in s : b \in 0 .. h - 1
    BY <1>0
  <2>2. \A b \in up : b \notin 0 .. h - 1
    BY <1>1
  <2> HIDE DEF up
  <2>3. u = s \cup up
    BY <1>u
  <2> QED BY <2>1, <2>2, <2>3 DEF Full
<1>4. Right(u, h) = t
  <2>1. ASSUME NEW b \in t
        PROVE  b \in Right(u, h)
    <3>1. b + h \in up /\ b + h >= h /\ (b + h) - h = b
      BY <1>0
    <3> QED BY <1>u, <3>1 DEF Right
  <2>2. ASSUME NEW b \in Right(u, h)
        PROVE  b \in t
    <3>1. PICK c \in u : c >= h /\ b = c - h
      BY DEF Right
    <3>2. c \in up
      BY <1>u, <1>0, <3>1
    <3>3. PICK d \in t : c = d + h
      BY <3>2
    <3> QED BY <1>0, <3>1, <3>3
  <2> QED BY <2>1, <2>2
<1>5. s \cap up = {}
  BY <1>0, <1>1
<1>6. up \in Bits /\ Num(up) = 2 ^ h * Num(t)
  BY <1>0, NumShift
<1>7. Num(u) = Num(s) + Num(up)
  <2>1. u = s \cup up
    BY <1>u
  <2> HIDE DEF up
  <2> QED BY <1>0, <1>5, <1>6, <2>1, BitsUnion
<1> HIDE DEF u, up
<1>8. Joins(u, s, t, h)
  BY <1>2, <1>3, <1>4, <1>6, <1>7 DEF Joins
<1> QED BY <1>8 DEF u

\* The low half shifted into the high half.
LEMMA HalfUp ==
  ASSUME NEW h \in Nat, W = 2 * h, NEW s \in Word(W)
  PROVE  Left(W, s, h) = Upper(s \cap Full(h), h)
BY DEF Left, Full, Word, Upper

\* The product by halves is the product.
LEMMA MulxForm ==
  ASSUME NEW lhs \in Word(W), NEW rhs \in Word(W)
  PROVE  portable_mulx(lhs, rhs) = MULX(lhs, rhs)
<1> DEFINE h == W \div 2
           B == 2 ^ h
           low(s) == s \cap Full(h)
           product == Times(W, low(lhs), low(rhs))
           cross == Times(W, Right(lhs, h), low(rhs))
           middle == Plus(W, cross, Right(product, h))
           cross2 == Times(W, low(lhs), Right(rhs, h))
           middleLow == Plus(W, low(middle), cross2)
           top == Times(W, Right(lhs, h), Right(rhs, h))
           top1 == Plus(W, top, Right(middle, h))
           high == Plus(W, top1, Right(middleLow, h))
           lowWord == Left(W, middleLow, h) \cup low(product)
<1>0. h \in Nat /\ W = 2 * h /\ W \in Nat
  BY BmiAssumption
<1>1. B \in Nat \ {0} /\ 2 ^ W = B * B
  <2>1. 2 ^ (h + h) = 2 ^ h * 2 ^ h /\ h + h = W
    BY <1>0, PowerSum
  <2> QED BY <1>0, <2>1, PowerType
<1> HIDE DEF h
<1> DEFINE a0 == Num(low(lhs))
           a1 == Num(Right(lhs, h))
           b0 == Num(low(rhs))
           b1 == Num(Right(rhs, h))
           p0 == Num(low(product))
           p1 == Num(Right(product, h))
           m0 == Num(low(middle))
           m1 == Num(Right(middle, h))
           l0 == Num(low(middleLow))
           l1 == Num(Right(middleLow, h))
           D == 0 .. B - 1
<1>2. /\ a0 \in D /\ a1 \in D /\ Num(lhs) = a0 + B * a1
      /\ b0 \in D /\ b1 \in D /\ Num(rhs) = b0 + B * b1
  BY <1>0, Halves
<1> HIDE DEF a0, a1, b0, b1
<1>3. /\ a0 * b0 \in Nat /\ a0 * b0 <= B * B - 2 * B + 1
      /\ a1 * b0 \in Nat /\ a1 * b0 <= B * B - 2 * B + 1
      /\ a0 * b1 \in Nat /\ a0 * b1 <= B * B - 2 * B + 1
      /\ a1 * b1 \in Nat /\ a1 * b1 <= B * B - 2 * B + 1
      /\ B * B \in Nat
  BY <1>1, <1>2, DigitProduct
<1> HIDE DEF B
<1>4. \A n \in Nat : n <= B * B - 1 => n \in 0 .. 2 ^ W - 1
  BY <1>1, <1>3
<1>5. product \in Word(W) /\ Num(product) = a0 * b0
  <2>1. a0 * b0 \in 0 .. 2 ^ W - 1
    BY <1>1, <1>3, <1>4
  <2> QED BY <1>0, <2>1, TimesFits DEF a0, b0
<1>6. p0 \in D /\ p1 \in D /\ a0 * b0 = p0 + B * p1
  <2> HIDE DEF product
  <2> QED BY <1>0, <1>5, Halves DEF B
<1>7. cross \in Word(W) /\ Num(cross) = a1 * b0
  <2>1. a1 * b0 \in 0 .. 2 ^ W - 1
    BY <1>1, <1>3, <1>4
  <2> QED BY <1>0, <2>1, TimesFits DEF a1, b0
<1> HIDE DEF p0, p1
<1>8. middle \in Word(W) /\ Num(middle) = a1 * b0 + p1
  <2>1. a1 * b0 + p1 \in 0 .. 2 ^ W - 1
    BY <1>1, <1>3, <1>4, <1>6
  <2>2. Num(cross) + Num(Right(product, h)) = a1 * b0 + p1
    BY <1>7 DEF p1
  <2> HIDE DEF cross, product
  <2> QED BY <1>0, <2>1, <2>2, PlusFits
<1>9. m0 \in D /\ m1 \in D /\ a1 * b0 + p1 = m0 + B * m1
  <2> HIDE DEF middle
  <2> QED BY <1>0, <1>8, Halves DEF B
<1>10. cross2 \in Word(W) /\ Num(cross2) = a0 * b1
  <2>1. a0 * b1 \in 0 .. 2 ^ W - 1
    BY <1>1, <1>3, <1>4
  <2> QED BY <1>0, <2>1, TimesFits DEF a0, b1
<1> HIDE DEF m0, m1
<1>11. middleLow \in Word(W) /\ Num(middleLow) = m0 + a0 * b1
  <2>1. m0 + a0 * b1 \in 0 .. 2 ^ W - 1
    BY <1>1, <1>3, <1>4, <1>9
  <2>2. Num(low(middle)) + Num(cross2) = m0 + a0 * b1
    BY <1>10 DEF m0
  <2> HIDE DEF middle, cross2
  <2> QED BY <1>0, <2>1, <2>2, PlusFits
<1>12. l0 \in D /\ l1 \in D /\ m0 + a0 * b1 = l0 + B * l1
  <2> HIDE DEF middleLow
  <2> QED BY <1>0, <1>11, Halves DEF B
<1>13. top \in Word(W) /\ Num(top) = a1 * b1
  <2>1. a1 * b1 \in 0 .. 2 ^ W - 1
    BY <1>1, <1>3, <1>4
  <2> QED BY <1>0, <2>1, TimesFits DEF a1, b1
<1> HIDE DEF l0, l1
<1>14. top1 \in Word(W) /\ Num(top1) = a1 * b1 + m1
  <2>1. a1 * b1 + m1 \in 0 .. 2 ^ W - 1
    BY <1>1, <1>3, <1>4, <1>9
  <2>2. Num(top) + Num(Right(middle, h)) = a1 * b1 + m1
    BY <1>13 DEF m1
  <2> HIDE DEF top, middle
  <2> QED BY <1>0, <2>1, <2>2, PlusFits
<1>15. high \in Word(W) /\ Num(high) = (a1 * b1 + m1) + l1
  <2>1. (a1 * b1 + m1) + l1 \in 0 .. 2 ^ W - 1
    BY <1>1, <1>3, <1>4, <1>9, <1>12
  <2>2. Num(top1) + Num(Right(middleLow, h)) = (a1 * b1 + m1) + l1
    BY <1>14 DEF l1
  <2> HIDE DEF top1, middleLow
  <2> QED BY <1>0, <2>1, <2>2, PlusFits
<1>16. lowWord \in Word(W) /\ Num(lowWord) = p0 + B * l0
  <2> DEFINE s == low(product)
             t == low(middleLow)
  <2>1. s \in Word(h) /\ t \in Word(h)
    <3> HIDE DEF product, middleLow
    <3> QED BY <1>0, <1>5, <1>11, Halves
  <2>2. Left(W, middleLow, h) = Upper(t, h)
    <3> HIDE DEF middleLow
    <3> QED BY <1>0, <1>11, HalfUp
  <2>3. lowWord = s \cup Upper(t, h)
    BY <2>2
  <2> HIDE DEF s, t, lowWord
  <2>4. lowWord \in Word(2 * h) /\ Num(lowWord) = Num(s) + 2 ^ h * Num(t)
    <3>1. h \in Nat
      BY <1>0
    <3>2. Joins(lowWord, s, t, h)
      BY <3>1, <2>1, <2>3, JoinHalves, Zenon
    <3> QED BY <3>2 DEF Joins
  <2>5. lowWord \in Word(W)
    BY <1>0, <2>4
  <2> QED BY <2>4, <2>5 DEF s, t, p0, l0, B
<1>17. Num(lhs) * Num(rhs) = (p0 + B * l0) + (B * B) * ((a1 * b1 + m1) + l1)
  <2>1. /\ B \in Nat /\ a0 \in Nat /\ a1 \in Nat /\ b0 \in Nat /\ b1 \in Nat
        /\ p0 \in Nat /\ p1 \in Nat /\ m0 \in Nat /\ m1 \in Nat /\ l0 \in Nat /\ l1 \in Nat
    BY <1>1, <1>2, <1>6, <1>9, <1>12
  <2> QED BY <1>2, <1>6, <1>9, <1>12, <2>1, Schoolbook
<1> HIDE DEF high, lowWord
<1> DEFINE u == lowWord \cup Upper(high, W)
<1>18. /\ u \in Word(2 * W) /\ Num(u) = Num(lowWord) + 2 ^ W * Num(high)
       /\ u \cap Full(W) = lowWord /\ Right(u, W) = high
  <2>1. Joins(u, lowWord, high, W)
    BY <1>0, <1>15, <1>16, JoinHalves, Zenon
  <2> HIDE DEF u
  <2> QED BY <2>1 DEF Joins
<1> HIDE DEF u
<1>19. Num(u) = Num(lhs) * Num(rhs)
  BY <1>1, <1>15, <1>16, <1>17, <1>18
<1>20. Bin(2 * W, Num(lhs) * Num(rhs)) = u
  <2>1. 2 * W \in Nat
    BY <1>0
  <2>2. Bin(2 * W, Num(u) + 0 * 2 ^ (2 * W)) = u
    BY <1>18, <2>1, BinNum, 0 \in Int, Zenon
  <2>3. Num(u) + 0 * 2 ^ (2 * W) = Num(u)
    BY <1>18, <2>1, WordBits, PowerType
  <2> QED BY <1>19, <2>2, <2>3
<1>21. MULX(lhs, rhs) = <<high, lowWord>>
  BY <1>18, <1>20 DEF MULX
<1>22. portable_mulx(lhs, rhs) = <<high, lowWord>>
  BY DEF portable_mulx, high, lowWord, h
<1> QED BY <1>21, <1>22

\* The instruction and the portable formula of every function agree.
THEOREM FormsAreEqual == Spec => []FormsAgree
<1>1. ScanInv => FormsAgree
  <2> SUFFICES ASSUME ScanInv, steps = 0
               PROVE  FormsAgree
    BY DEF FormsAgree
  <2>1. rest \in Word(W)
    BY DEF ScanInv
  <2>2. /\ portable_blsi(rest) = Lowest(rest)
        /\ portable_blsr(rest) = rest \ Lowest(rest)
        /\ portable_blsmsk(rest) = BLSMSK(rest)
    BY <2>1, LowestForms
  <2>3. \A m \in Word(W) : /\ portable_andn(rest, m) = m \ rest
                           /\ portable_mulx(rest, m) = MULX(rest, m)
                           /\ portable_pdep(rest, m) = PDEP(rest, m)
                           /\ portable_pext(rest, m) = PEXT(rest, m)
    BY <2>1, AndnForm, MulxForm, DepositForms
  <2>4. ASSUME NEW i \in 0 .. 2 ^ IndexBits - 1
        PROVE  portable_bzhi(rest, i) = BZHI(rest, i)
    BY <2>1, BzhiForm
  <2>5. ASSUME NEW i \in 0 .. 2 ^ IndexBits - 1, NEW len \in 0 .. 2 ^ IndexBits - 1
        PROVE  /\ portable_bextr(rest, i, len) = BEXTR(rest, i, len)
               /\ bextr_control(rest, i + 2 ^ IndexBits * (len + 2 ^ IndexBits)) =
                    bextr(rest, len, i)
    BY <2>1, BextrForm, ControlForm
  <2> QED BY <2>2, <2>3, <2>4, <2>5 DEF FormsAgree
<1> QED BY <1>1, ScanInit, ScanNext, PTL DEF Spec

-------------------------------------------------------------------------------
(***************************************************************************)
(* Contracts of the derived helpers                                        *)
(***************************************************************************)
\* Position 0 is a position of every word.
LEMMA Range0 == W \in Nat /\ 0 \in 0 .. W - 1 /\ 0 \in 0 .. W
BY Width

\* boolmask is all ones or zero.
LEMMA Masks == boolmask(TRUE) = AllOnes /\ boolmask(FALSE) = {}
<1>0. W \in Nat /\ AllOnes \in Word(W) /\ {} \in Word(W) /\ 2 ^ W \in Nat
  BY Width, PowerType DEF AllOnes, Word
<1>1. Num(AllOnes) = 2 ^ W - 1
  BY <1>0, NumBelow DEF AllOnes, Full
<1>2. Bin(W, Num(AllOnes) + (-1) * 2 ^ W) = AllOnes
  BY <1>0, BinNum, -1 \in Int, Zenon
<1>3. Num(AllOnes) + (-1) * 2 ^ W = -1
  BY <1>0, <1>1
<1>4. Bin(W, Num({}) + 0 * 2 ^ W) = {}
  BY <1>0, BinNum, 0 \in Int, Zenon
<1>5. Num({}) + 0 * 2 ^ W = -0
  BY <1>0, NumEmpty
<1> QED BY <1>2, <1>3, <1>4, <1>5 DEF boolmask

\* The complement of a word is a word.
LEMMA ComplementWord ==
  ASSUME NEW v
  PROVE  Complement(W, v) \in Word(W) /\ Complement(W, v) = AllOnes \ v
BY DEF Complement, Word, AllOnes

\* Adding and subtracting one, and the negative, by where the first zero and the first one are.
LEMMA FirstZero ==
  ASSUME NEW v \in Word(W)
  PROVE  \E e \in 0 .. W :
           /\ 0 .. e - 1 \subseteq v /\ e \notin v
           /\ Plus(W, v, One) = (v \ (0 .. e - 1)) \cup ({e} \cap 0 .. W - 1)
           /\ blsi(Complement(W, v)) = {e} \cap 0 .. W - 1
           /\ Minus(W, blsi(Complement(W, v)), One) = 0 .. e - 1
<1>0. W \in Nat /\ 0 \in 0 .. W - 1 /\ 0 \in 0 .. W
  BY Range0
<1>1. PICK e \in 0 .. W : 0 .. e - 1 \subseteq v /\ e \notin v
  BY <1>0, NextZero
<1>2. Plus(W, v, One) = (v \ (0 .. e - 1)) \cup ({e} \cap 0 .. W - 1)
  BY <1>0, <1>1, PlusBit DEF One
<1> DEFINE c == Complement(W, v)
           s == {e} \cap 0 .. W - 1
<1>3. c \in Word(W) /\ (0 .. e - 1) \cap c = {} /\ (e < W => e \in c) /\ c \in SUBSET (0 .. W - 1)
  BY <1>0, <1>1 DEF Complement, Word, Full
<1>4. blsi(c) = c \cap {e}
  <2> HIDE DEF c
  <2> QED BY <1>0, <1>3, LowestIs, BlsIs
<1>5. c \cap {e} = s
  <2>1. e \in 0 .. W - 1 => e \in c
    BY <1>0, <1>3
  <2> QED BY <1>3, <2>1
<1>6. s \in Word(W) /\ (0 .. e - 1) \cap s = {} /\ (e < W => e \in s) /\ s \ {e} = {}
  BY <1>0 DEF Word, Full
<1>7. Minus(W, s, {0}) = 0 .. e - 1
  <2>1. Minus(W, s, {0}) = (s \ {e}) \cup (0 .. e - 1)
    <3> HIDE DEF s
    <3> QED BY <1>0, <1>6, MinusBit
  <2> QED BY <1>6, <2>1
<1> QED BY <1>1, <1>2, <1>4, <1>5, <1>7 DEF One

\* A word up to its first one: its minimum, itself less one, its negative and its lowest one.
LEMMA FirstOne ==
  ASSUME NEW v \in Word(W)
  PROVE  \E e \in 0 .. W :
           /\ (0 .. e - 1) \cap v = {} /\ (e < W => e \in v) /\ (v = {} <=> e = W)
           /\ (v # {} => Min(v) = e /\ e \in v /\ e \in 0 .. W - 1)
           /\ Minus(W, v, One) = (v \ {e}) \cup (0 .. e - 1)
           /\ Minus(W, Zero, v) = ((e + 1 .. W - 1) \ v) \cup (v \cap {e})
           /\ blsi(v) = v \cap {e} /\ Lowest(v) = v \cap {e}
           /\ Minus(W, blsi(v), One) = 0 .. e - 1
<1>0. W \in Nat /\ 0 \in 0 .. W - 1 /\ 0 \in 0 .. W
  BY Range0
<1>1. PICK e \in 0 .. W : (0 .. e - 1) \cap v = {} /\ (e < W => e \in v)
  BY <1>0, NextOne
<1>2. Minus(W, v, One) = (v \ {e}) \cup (0 .. e - 1)
  BY <1>0, <1>1, MinusBit DEF One
<1>3. Minus(W, Zero, v) = ((e + 1 .. W - 1) \ v) \cup (v \cap {e})
  BY <1>0, <1>1, Negative DEF Zero
<1>4. Lowest(v) = v \cap {e} /\ (v = {} <=> e = W) /\ (v # {} => Min(v) = e)
  BY <1>0, <1>1, LowestIs
<1>5. blsi(v) = v \cap {e}
  BY <1>4, BlsIs
<1> DEFINE s == v \cap {e}
<1>6. s \in Word(W) /\ (0 .. e - 1) \cap s = {} /\ (e < W => e \in s) /\ s \ {e} = {}
  BY <1>0, <1>1 DEF Word
<1>7. Minus(W, s, {0}) = 0 .. e - 1
  <2>1. Minus(W, s, {0}) = (s \ {e}) \cup (0 .. e - 1)
    <3> HIDE DEF s
    <3> QED BY <1>0, <1>6, MinusBit
  <2> QED BY <1>6, <2>1
<1>8. v # {} => e \in v /\ e \in 0 .. W - 1
  BY <1>0, <1>1, <1>4
<1> QED BY <1>1, <1>2, <1>3, <1>4, <1>5, <1>7, <1>8 DEF One

\* The helpers that work from the low end.
LEMMA TrailingHold ==
  ASSUME rest \in Word(W)
  PROVE  TrailingContracts
<1>0. W \in Nat /\ rest \in SUBSET (0 .. W - 1) /\ AllOnes = 0 .. W - 1
  BY Width DEF Word, Full, AllOnes
<1>1. PICK z \in 0 .. W :
        /\ 0 .. z - 1 \subseteq rest /\ z \notin rest
        /\ Plus(W, rest, One) = (rest \ (0 .. z - 1)) \cup ({z} \cap 0 .. W - 1)
        /\ blsi(Complement(W, rest)) = {z} \cap 0 .. W - 1
        /\ Minus(W, blsi(Complement(W, rest)), One) = 0 .. z - 1
  BY FirstZero
<1>2. PICK e \in 0 .. W :
        /\ (0 .. e - 1) \cap rest = {} /\ (e < W => e \in rest) /\ (rest = {} <=> e = W)
        /\ (rest # {} => Min(rest) = e /\ e \in rest /\ e \in 0 .. W - 1)
        /\ Minus(W, rest, One) = (rest \ {e}) \cup (0 .. e - 1)
        /\ Minus(W, Zero, rest) = ((e + 1 .. W - 1) \ rest) \cup (rest \cap {e})
        /\ blsi(rest) = rest \cap {e} /\ Lowest(rest) = rest \cap {e}
        /\ Minus(W, blsi(rest), One) = 0 .. e - 1
  BY FirstOne
<1>3. TrailingOnes = 0 .. z - 1
  <2>1. ASSUME NEW b \in AllOnes
        PROVE  0 .. b \subseteq rest <=> b \in 0 .. z - 1
    <3>1. CASE b < z
      BY <1>0, <1>1, <3>1
    <3>2. CASE ~(b < z)
      <4>1. z \in 0 .. b
        BY <1>0, <3>2
      <4> QED BY <1>0, <1>1, <3>2, <4>1
    <3> QED BY <3>1, <3>2
  <2>2. \A b \in 0 .. z - 1 : b \in AllOnes
    BY <1>0
  <2> QED BY <2>1, <2>2 DEF TrailingOnes
<1>4. TrailingZeros = 0 .. e - 1
  <2>1. ASSUME NEW b \in AllOnes
        PROVE  (0 .. b) \cap rest = {} <=> b \in 0 .. e - 1
    <3>1. CASE b < e
      BY <1>0, <1>2, <3>1
    <3>2. CASE ~(b < e)
      <4>1. e \in 0 .. b /\ e \in rest
        BY <1>0, <1>2, <3>2
      <4> QED BY <1>0, <3>2, <4>1
    <3> QED BY <3>1, <3>2
  <2>2. \A b \in 0 .. e - 1 : b \in AllOnes
    BY <1>0
  <2> QED BY <2>1, <2>2 DEF TrailingZeros
<1>5. Lowest0 = {z} \cap 0 .. W - 1
  BY <1>1, ComplementWord, BlsIs DEF Lowest0
<1>6. flipr_unset(rest) = rest \cup Lowest0
  BY <1>1, <1>5 DEF flipr_unset
<1>7. maskr_unset(rest) = Lowest0
  BY <1>1, <1>5 DEF maskr_unset
<1>8. clear_trailing_ones(rest) = rest \ TrailingOnes
  BY <1>1, <1>3 DEF clear_trailing_ones
<1>9. flip_trailing_zeros(rest) = rest \cup TrailingZeros
  BY <1>2, <1>4 DEF flip_trailing_zeros
<1>10. mask_trailing_zeros(rest) = TrailingZeros
  BY <1>2, <1>4 DEF mask_trailing_zeros
<1>11. TrailingZeros \in SUBSET AllOnes
  BY DEF TrailingZeros
<1>12. mask_trailing_zeros_or_zero(rest) = IF rest = {} THEN {} ELSE TrailingZeros
  <2>1. CASE rest = {}
    <3>1. boolmask(rest # Zero) = {}
      BY <2>1, Masks DEF Zero
    <3> QED BY <2>1, <3>1 DEF mask_trailing_zeros_or_zero
  <2>2. CASE rest # {}
    <3>1. boolmask(rest # Zero) = AllOnes
      BY <2>2, Masks DEF Zero
    <3> QED BY <1>10, <1>11, <2>2, <3>1 DEF mask_trailing_zeros_or_zero
  <2> QED BY <2>1, <2>2
<1>13. Complement(W, ps_or(rest)) = TrailingZeros
  <2>1. ps_or(rest) = rest \cup ((e + 1 .. W - 1) \ rest)
    BY <1>2 DEF ps_or
  <2>2. ASSUME NEW b \in 0 .. W - 1
        PROVE  b \notin rest \cup ((e + 1 .. W - 1) \ rest) <=> b \in 0 .. e - 1
    <3>1. CASE b < e
      BY <1>2, <3>1
    <3>2. CASE b = e
      BY <1>0, <1>2, <3>2
    <3>3. CASE b > e
      BY <1>0, <3>3
    <3> QED BY <3>1, <3>2, <3>3
  <2>3. \A b \in 0 .. e - 1 : b \in 0 .. W - 1
    BY <1>0
  <2>4. Complement(W, ps_or(rest)) = 0 .. e - 1
    BY <1>0, <2>1, <2>2, <2>3 DEF Complement, Full
  <2> QED BY <1>4, <2>4
<1>14. mask_bits_lower_than_lsb(rest) = IF rest = {} THEN {} ELSE TrailingZeros
  <2>1. CASE rest = {}
    <3>1. boolmask(rest # Zero) = {}
      BY <2>1, Masks DEF Zero
    <3> QED BY <2>1, <3>1 DEF mask_bits_lower_than_lsb
  <2>2. CASE rest # {}
    <3>1. boolmask(rest # Zero) = AllOnes
      BY <2>2, Masks DEF Zero
    <3> QED BY <1>11, <1>13, <2>2, <3>1 DEF mask_bits_lower_than_lsb
  <2> QED BY <2>1, <2>2
<1>15. mask_bits_lower_than_lsb_or_all_ones(rest) = TrailingZeros
  BY <1>13 DEF mask_bits_lower_than_lsb_or_all_ones
<1>16. mask_trailing_ones(rest) = TrailingOnes
  BY <1>1, <1>3 DEF mask_trailing_ones
<1>17. maskl_trailing_one(rest) = {b \in TrailingOnes : b + 1 \in AllOnes \ rest}
  <2>1. maskl_trailing_one(rest) = Right({z} \cap 0 .. W - 1, 1)
    BY <1>1 DEF maskl_trailing_one
  <2>2. ASSUME NEW b \in Right({z} \cap 0 .. W - 1, 1)
        PROVE  b \in TrailingOnes /\ b + 1 \in AllOnes \ rest
    <3>1. z \in 0 .. W - 1 /\ z >= 1 /\ b = z - 1
      BY DEF Right
    <3> QED BY <1>0, <1>1, <1>3, <3>1
  <2>3. ASSUME NEW b \in TrailingOnes, b + 1 \in AllOnes \ rest
        PROVE  b \in Right({z} \cap 0 .. W - 1, 1)
    <3>1. b \in 0 .. z - 1 /\ b + 1 \in 0 .. W - 1 /\ b + 1 \notin 0 .. z - 1
      BY <1>0, <1>1, <1>3, <2>3
    <3>2. z = b + 1 /\ z >= 1 /\ b = z - 1 /\ z \in 0 .. W - 1
      BY <3>1
    <3> QED BY <3>2 DEF Right
  <2> QED BY <2>1, <2>2, <2>3
<1>18. left_collapse_trailing_bits(rest) =
         rest \ {b \in TrailingOnes : b + 1 \in TrailingOnes}
  <2>1. left_collapse_trailing_bits(rest) = rest \ Right(0 .. z - 1, 1)
    BY <1>3, <1>16, AndnIs DEF left_collapse_trailing_bits
  <2>2. ASSUME NEW b \in Right(0 .. z - 1, 1)
        PROVE  b \in TrailingOnes /\ b + 1 \in TrailingOnes
    <3>1. PICK c \in 0 .. z - 1 : c >= 1 /\ b = c - 1
      BY DEF Right
    <3> QED BY <1>3, <3>1
  <2>3. ASSUME NEW b \in TrailingOnes, b + 1 \in TrailingOnes
        PROVE  b \in Right(0 .. z - 1, 1)
    <3>1. b + 1 \in 0 .. z - 1 /\ b + 1 >= 1 /\ b = (b + 1) - 1
      BY <1>3, <2>3
    <3> QED BY <3>1 DEF Right
  <2> QED BY <2>1, <2>2, <2>3
<1> QED BY <1>6, <1>7, <1>8, <1>9, <1>10, <1>12, <1>14, <1>15, <1>16, <1>17, <1>18, <1>13
        DEF TrailingContracts

\* An index up to the width is an index the helpers take, and bzhi of all ones is the low run.
LEMMA WordIndex ==
  ASSUME NEW n \in 0 .. W
  PROVE  n \in 0 .. 2 ^ IndexBits - 1 /\ bzhi(AllOnes, n) = 0 .. n - 1
<1>0. W \in Nat /\ W < 2 ^ IndexBits /\ 2 ^ IndexBits \in Nat /\ AllOnes = 0 .. W - 1
  BY Width, PowerType DEF AllOnes, Full
<1>1. n \in 0 .. 2 ^ IndexBits - 1 /\ AllOnes \in Word(W)
  BY <1>0 DEF AllOnes, Word
<1>2. bzhi(AllOnes, n) = {b \in AllOnes : b < n}
  BY <1>1, BzhiIs
<1>3. \A b \in AllOnes : b < n <=> b \in 0 .. n - 1
  BY <1>0
<1>4. \A b \in 0 .. n - 1 : b \in AllOnes
  BY <1>0
<1> QED BY <1>1, <1>2, <1>3, <1>4

\* Everything from bit zero to the highest one.
LEMMA LastOne ==
  ASSUME NEW v \in Word(W)
  PROVE  \E n \in 0 .. W :
           /\ \A b \in v : b < n
           /\ n # 0 => n - 1 \in v /\ Max(v) = n - 1
           /\ v = {} <=> n = 0
           /\ BitWidth(v) = n
           /\ pp_or(v) = 0 .. n - 1
<1>0. W \in Nat /\ v \in SUBSET (0 .. W - 1)
  BY Width DEF Word, Full
<1>1. CASE v = {}
  <2>1. BitWidth(v) = 0
    BY <1>1, FS_EmptySet DEF BitWidth
  <2>2. pp_or(v) = 0 .. 0 - 1
    BY <1>0, <2>1, WordIndex, 0 \in 0 .. W DEF pp_or
  <2> QED BY <1>0, <1>1, <2>1, <2>2
<1>2. CASE v # {}
  <2>1. BitWidth(v) = Max(v) + 1 /\ Max(v) \in v /\ \A b \in v : b <= Max(v)
    BY <1>0, <1>2, BitWidthIs
  <2> DEFINE n == Max(v) + 1
  <2>2. n \in 0 .. W /\ n # 0 /\ n - 1 = Max(v) /\ \A b \in v : b < n
    <3>1. Max(v) \in 0 .. W - 1 /\ \A b \in v : b \in 0 .. W - 1
      BY <1>0, <2>1
    <3> QED BY <1>0, <2>1, <3>1
  <2>3. pp_or(v) = 0 .. n - 1
    BY <2>1, <2>2, WordIndex DEF pp_or
  <2> QED BY <1>2, <2>1, <2>2, <2>3
<1> QED BY <1>1, <1>2

\* The helpers that work from the high end.
LEMMA LeadingHold ==
  ASSUME rest \in Word(W)
  PROVE  LeadingContracts
<1>0. W \in Nat /\ rest \in SUBSET (0 .. W - 1) /\ AllOnes = 0 .. W - 1
  BY Width DEF Word, Full, AllOnes
<1> DEFINE c == Complement(W, rest)
<1>1. c \in Word(W) /\ c = (0 .. W - 1) \ rest
  BY <1>0, ComplementWord
<1>2. PICK n \in 0 .. W :
        /\ \A b \in rest : b < n
        /\ n # 0 => n - 1 \in rest /\ Max(rest) = n - 1
        /\ rest = {} <=> n = 0
        /\ BitWidth(rest) = n
        /\ pp_or(rest) = 0 .. n - 1
  BY LastOne
<1>3. PICK m \in 0 .. W :
        /\ \A b \in c : b < m
        /\ m # 0 => m - 1 \in c /\ Max(c) = m - 1
        /\ c = {} <=> m = 0
        /\ BitWidth(c) = m
        /\ pp_or(c) = 0 .. m - 1
  <2> HIDE DEF c
  <2> QED BY <1>1, LastOne
<1>4. LeadingZeros = (0 .. W - 1) \ (0 .. n - 1)
  <2>1. ASSUME NEW b \in AllOnes
        PROVE  (b .. W - 1) \cap rest = {} <=> b \notin 0 .. n - 1
    <3>1. CASE b < n
      <4>1. n - 1 \in b .. W - 1 /\ n - 1 \in rest
        BY <1>0, <1>2, <3>1
      <4> QED BY <1>0, <3>1, <4>1
    <3>2. CASE ~(b < n)
      BY <1>0, <1>2, <3>2
    <3> QED BY <3>1, <3>2
  <2> QED BY <1>0, <2>1 DEF LeadingZeros
<1>5. LeadingOnes = (0 .. W - 1) \ (0 .. m - 1)
  <2>1. ASSUME NEW b \in AllOnes
        PROVE  b .. W - 1 \subseteq rest <=> b \notin 0 .. m - 1
    <3>1. CASE b < m
      <4>1. m - 1 \in b .. W - 1 /\ m - 1 \notin rest
        BY <1>0, <1>1, <1>3, <3>1
      <4> QED BY <1>0, <3>1, <4>1
    <3>2. CASE ~(b < m)
      <4>1. ASSUME NEW d \in b .. W - 1
            PROVE  d \in rest
        <5>1. d \in 0 .. W - 1 /\ ~(d < m)
          BY <1>0, <3>2
        <5> QED BY <1>1, <1>3, <5>1
      <4> QED BY <1>0, <3>2, <4>1
    <3> QED BY <3>1, <3>2
  <2> QED BY <1>0, <2>1 DEF LeadingOnes
<1>6. mask_leading_zeros(rest) = LeadingZeros
  BY <1>2, <1>4 DEF mask_leading_zeros, Complement, Full
<1>7. mask_leading_ones(rest) = LeadingOnes
  BY <1>3, <1>5 DEF mask_leading_ones, Complement, Full
<1>8. clear_leading_ones(rest) = rest \ LeadingOnes
  <2>1. clear_leading_ones(rest) = (0 .. m - 1) \cap rest
    BY <1>3 DEF clear_leading_ones
  <2> QED BY <1>0, <1>5, <2>1
<1>9. pp_or(rest) = AllOnes \ LeadingZeros
  <2>1. \A b \in 0 .. n - 1 : b \in 0 .. W - 1
    BY <1>0
  <2> QED BY <1>0, <1>2, <1>4, <2>1
<1>10. PICK e \in 0 .. W :
        /\ (0 .. e - 1) \cap rest = {} /\ (e < W => e \in rest) /\ (rest = {} <=> e = W)
        /\ (rest # {} => Min(rest) = e /\ e \in rest /\ e \in 0 .. W - 1)
        /\ Minus(W, rest, One) = (rest \ {e}) \cup (0 .. e - 1)
        /\ Minus(W, Zero, rest) = ((e + 1 .. W - 1) \ rest) \cup (rest \cap {e})
        /\ blsi(rest) = rest \cap {e} /\ Lowest(rest) = rest \cap {e}
        /\ Minus(W, blsi(rest), One) = 0 .. e - 1
  BY FirstOne
<1>11. TrailingZeros = 0 .. e - 1
  <2>1. ASSUME NEW b \in AllOnes
        PROVE  (0 .. b) \cap rest = {} <=> b \in 0 .. e - 1
    <3>1. CASE b < e
      BY <1>0, <1>10, <3>1
    <3>2. CASE ~(b < e)
      <4>1. e \in 0 .. b /\ e \in rest
        BY <1>0, <1>10, <3>2
      <4> QED BY <1>0, <3>2, <4>1
    <3> QED BY <3>1, <3>2
  <2>2. \A b \in 0 .. e - 1 : b \in AllOnes
    BY <1>0
  <2> QED BY <2>1, <2>2 DEF TrailingZeros
<1>12. ps_or(rest) = AllOnes \ TrailingZeros
  <2>1. mask_bits_lower_than_lsb_or_all_ones(rest) = TrailingZeros
    BY TrailingHold DEF TrailingContracts
  <2>2. ps_or(rest) \in Word(W)
    <3>1. Minus(W, Zero, rest) \in Word(W)
      BY BinWord DEF Minus
    <3> QED BY <3>1 DEF ps_or, Word
  <2>3. TrailingZeros = (0 .. W - 1) \ ps_or(rest)
    BY <2>1 DEF mask_bits_lower_than_lsb_or_all_ones, Complement, Full
  <2> QED BY <1>0, <2>2, <2>3 DEF Word, Full
<1>13. pp_lsor(rest) = IF rest = {} THEN {} ELSE TrailingZeros \cup Lowest(rest)
  <2>1. CASE rest = {}
    <3>1. blsi(rest) = {} /\ {} \in Word(W)
      BY <1>10, <2>1 DEF Word
    <3>2. pp_lsor(rest) = pp_or({})
      BY <3>1 DEF pp_lsor, pp_or
    <3>3. pp_or({}) = {}
      <4>1. BitWidth({}) = 0
        BY FS_EmptySet DEF BitWidth
      <4>2. bzhi(AllOnes, 0) = 0 .. 0 - 1
        BY <1>0, WordIndex, 0 \in 0 .. W
      <4> QED BY <4>1, <4>2 DEF pp_or
    <3> QED BY <2>1, <3>2, <3>3
  <2>2. CASE rest # {}
    <3>1. blsi(rest) = {e} /\ {e} \in Word(W) /\ Lowest(rest) = {e}
      BY <1>10, <2>2 DEF Word, Full
    <3>2. PICK k \in 0 .. W :
            /\ \A b \in {e} : b < k
            /\ k # 0 => k - 1 \in {e} /\ Max({e}) = k - 1
            /\ {e} = {} <=> k = 0
            /\ BitWidth({e}) = k
            /\ pp_or({e}) = 0 .. k - 1
      BY <3>1, LastOne
    <3>3. k - 1 = e /\ k = e + 1
      BY <1>0, <3>2
    <3>4. pp_lsor(rest) = 0 .. e
      BY <3>1, <3>2, <3>3 DEF pp_lsor, pp_or
    <3>5. TrailingZeros \cup Lowest(rest) = 0 .. e
      <4>1. (0 .. e - 1) \cup {e} = 0 .. e
        OBVIOUS
      <4> QED BY <1>11, <3>1, <4>1
    <3> QED BY <2>2, <3>4, <3>5
  <2> QED BY <2>1, <2>2
<1>14. bmsmsk(rest) = pp_or(rest)
  BY DEF bmsmsk
<1> QED BY <1>6, <1>7, <1>8, <1>9, <1>12, <1>13, <1>14 DEF LeadingContracts

\* The stages that compare a bit with its neighbour.
LEMMA StageHold ==
  ASSUME rest \in Word(W)
  PROVE  StageContracts
<1>0. W \in Nat /\ rest \in SUBSET (0 .. W - 1) /\ AllOnes = 0 .. W - 1
  BY Width DEF Word, Full, AllOnes
<1> DEFINE r == Right(rest, 1)
           l == Left(W, rest, 1)
<1>1. ASSUME NEW b
      PROVE  b \in r <=> b \in 0 .. W - 1 /\ b + 1 \in rest
  <2>1. ASSUME b \in r
        PROVE  b \in 0 .. W - 1 /\ b + 1 \in rest
    BY <1>0, <2>1 DEF Right
  <2>2. ASSUME b \in 0 .. W - 1, b + 1 \in rest
        PROVE  b \in r
    <3>1. b + 1 >= 1 /\ b = (b + 1) - 1
      BY <2>2
    <3> QED BY <2>2, <3>1 DEF Right
  <2> QED BY <2>1, <2>2
<1>2. ASSUME NEW b
      PROVE  b \in l <=> b \in 0 .. W - 1 /\ b - 1 \in rest
  <2>1. ASSUME b \in l
        PROVE  b \in 0 .. W - 1 /\ b - 1 \in rest
    BY <1>0, <2>1 DEF Left, Full
  <2>2. ASSUME b \in 0 .. W - 1, b - 1 \in rest
        PROVE  b \in l
    <3>1. b = (b - 1) + 1
      BY <2>2
    <3> QED BY <2>2, <3>1 DEF Left, Full
  <2> QED BY <2>1, <2>2
<1>3. r \in Word(W) /\ l \in Word(W)
  <2> HIDE DEF r, l
  <2> QED BY <1>1, <1>2 DEF Word, Full
<1>4. /\ pp_xor(rest) = (r \ rest) \cup (rest \ r)
      /\ ps_xor(rest) = (l \ rest) \cup (rest \ l)
      /\ pp_and(rest) = rest \cap r
      /\ ps_and(rest) = rest \cap l
  BY DEF pp_xor, ps_xor, pp_and, ps_and, Xor
<1>5. /\ pp_andn(rest) = rest \ r
      /\ ps_andn(rest) = rest \ l
      /\ pp_andni(rest) = r \ rest
      /\ ps_andni(rest) = l \ rest
  BY <1>3, AndnIs DEF pp_andn, ps_andn, pp_andni, ps_andni
<1> HIDE DEF r, l
<1>6. \A b \in rest : b \in 0 .. W - 1
  BY <1>0
<1>7. (r \ rest) \cup (rest \ r) = {b \in AllOnes : (b \in rest) # (b + 1 \in rest)}
  <2>1. \A b \in AllOnes : b \in r <=> b + 1 \in rest
    BY <1>0, <1>1
  <2>2. r \in SUBSET AllOnes /\ rest \in SUBSET AllOnes
    BY <1>0, <1>3 DEF Word, Full
  <2> QED BY <2>1, <2>2
<1>8. (l \ rest) \cup (rest \ l) = {b \in AllOnes : (b \in rest) # (b - 1 \in rest)}
  <2>1. \A b \in AllOnes : b \in l <=> b - 1 \in rest
    BY <1>0, <1>2
  <2>2. l \in SUBSET AllOnes /\ rest \in SUBSET AllOnes
    BY <1>0, <1>3 DEF Word, Full
  <2> QED BY <2>1, <2>2
<1>9. /\ rest \cap r = {b \in rest : b + 1 \in rest}
      /\ rest \ r = {b \in rest : b + 1 \notin rest}
      /\ r \ rest = {b \in AllOnes \ rest : b + 1 \in rest}
  BY <1>0, <1>1, <1>6
<1>10. /\ rest \cap l = {b \in rest : b - 1 \in rest}
       /\ rest \ l = {b \in rest : b - 1 \notin rest}
       /\ l \ rest = {b \in AllOnes \ rest : b - 1 \in rest}
  BY <1>0, <1>2, <1>6
<1> QED BY <1>4, <1>5, <1>7, <1>8, <1>9, <1>10 DEF StageContracts

\* The lowest run: the ones from the lowest one up to the first zero above it.
LEMMA LowRunIs ==
  ASSUME NEW v \in Word(W), v # {}
  PROVE  \E a \in 0 .. W - 1, e \in 0 .. W :
           /\ a < e /\ Min(v) = a /\ a .. e - 1 \subseteq v /\ e \notin v
           /\ (0 .. a - 1) \cap v = {}
           /\ RunMask(v) = (v \ (a .. e - 1)) \cup ({e} \cap 0 .. W - 1)
<1>0. W \in Nat /\ v \in SUBSET (0 .. W - 1)
  BY Width DEF Word, Full
<1>1. PICK a \in 0 .. W :
        /\ (0 .. a - 1) \cap v = {} /\ (a < W => a \in v) /\ (v = {} <=> a = W)
        /\ (v # {} => Min(v) = a /\ a \in v /\ a \in 0 .. W - 1)
        /\ Minus(W, v, One) = (v \ {a}) \cup (0 .. a - 1)
        /\ Minus(W, Zero, v) = ((a + 1 .. W - 1) \ v) \cup (v \cap {a})
        /\ blsi(v) = v \cap {a} /\ Lowest(v) = v \cap {a}
        /\ Minus(W, blsi(v), One) = 0 .. a - 1
  BY FirstOne
<1>2. a \in v /\ a \in 0 .. W - 1 /\ Min(v) = a
  BY <1>1
<1> DEFINE u == v \cup (0 .. a - 1)
<1>3. u \in Word(W) /\ v \cup Minus(W, v, One) = u
  BY <1>0, <1>1, <1>2 DEF Word, Full
<1>4. PICK e \in 0 .. W :
        /\ 0 .. e - 1 \subseteq u /\ e \notin u
        /\ Plus(W, u, One) = (u \ (0 .. e - 1)) \cup ({e} \cap 0 .. W - 1)
        /\ blsi(Complement(W, u)) = {e} \cap 0 .. W - 1
        /\ Minus(W, blsi(Complement(W, u)), One) = 0 .. e - 1
  <2> HIDE DEF u
  <2> QED BY <1>3, FirstZero
<1>5. a < e /\ e \notin v
  BY <1>0, <1>2, <1>4
<1>6. ASSUME NEW b \in a .. e - 1
      PROVE  b \in v
  <2>1. b \in 0 .. e - 1 /\ b \notin 0 .. a - 1
    BY <1>2
  <2> QED BY <1>4, <2>1
<1>7. RunMask(v) = (u \ (0 .. e - 1)) \cup ({e} \cap 0 .. W - 1)
  BY <1>3, <1>4 DEF RunMask
<1>8. u \ (0 .. e - 1) = v \ (a .. e - 1)
  <2>1. \A b \in v : b \in 0 .. e - 1 <=> b \in a .. e - 1
    BY <1>0, <1>1, <1>2
  <2>2. \A b \in 0 .. a - 1 : b \in 0 .. e - 1
    BY <1>5
  <2> QED BY <2>1, <2>2
<1> QED BY <1>1, <1>2, <1>5, <1>6, <1>7, <1>8

\* The highest run: it starts at the highest one that has a zero below it.
LEMMA HighRunIs ==
  ASSUME NEW v \in Word(W), v # {}
  PROVE  \E m \in v :
           /\ \A b \in v : b < m => ~(b .. Max(v) \subseteq v)
           /\ \A b \in v : ~(b < m) => b .. Max(v) \subseteq v
           /\ Minus(W, bmsi(ps_andn(v)), One) = 0 .. m - 1
<1>0. W \in Nat /\ v \in SUBSET (0 .. W - 1)
  BY Width DEF Word, Full
<1>1. Max(v) \in v /\ \A b \in v : b <= Max(v)
  BY <1>0, WordMax
<1> DEFINE u == v \ Left(W, v, 1)
           t == Max(v)
<1>t. t \in v /\ t \in 0 .. W - 1 /\ \A b \in v : b <= t /\ b \in Nat
  <2>1. \A b \in v : b \in 0 .. W - 1 /\ b \in Nat
    BY <1>0
  <2> HIDE DEF t
  <2>2. t \in v /\ \A b \in v : b <= t
    BY <1>1 DEF t
  <2> QED BY <2>1, <2>2
<1> HIDE DEF t
<1>2. ps_andn(v) = u /\ u \in Word(W)
  BY AndnIs, WordFinite DEF ps_andn
<1>3. \A b \in v : b \in u <=> b - 1 \notin v
  <2>1. ASSUME NEW b \in v
        PROVE  b \in Left(W, v, 1) <=> b - 1 \in v
    <3>1. ASSUME b \in Left(W, v, 1)
          PROVE  b - 1 \in v
      BY <1>0, <3>1 DEF Left, Full
    <3>2. ASSUME b - 1 \in v
          PROVE  b \in Left(W, v, 1)
      <4>1. b = (b - 1) + 1 /\ b \in 0 .. W - 1
        BY <1>0
      <4> QED BY <3>2, <4>1 DEF Left, Full
    <3> QED BY <3>1, <3>2
  <2> QED BY <2>1
<1>4. u # {}
  <2>1. PICK e \in 0 .. W :
          /\ (0 .. e - 1) \cap v = {} /\ (e < W => e \in v) /\ (v = {} <=> e = W)
          /\ (v # {} => Min(v) = e /\ e \in v /\ e \in 0 .. W - 1)
          /\ Minus(W, v, One) = (v \ {e}) \cup (0 .. e - 1)
          /\ Minus(W, Zero, v) = ((e + 1 .. W - 1) \ v) \cup (v \cap {e})
          /\ blsi(v) = v \cap {e} /\ Lowest(v) = v \cap {e}
          /\ Minus(W, blsi(v), One) = 0 .. e - 1
    BY FirstOne
  <2>2. e \in v /\ e - 1 \notin v
    BY <1>0, <2>1
  <2>3. e \in u
    BY <1>3, <2>2
  <2> QED BY <2>3
<1> DEFINE m == Max(u)
<1>5. bmsi(u) = {m} /\ m \in u /\ \A b \in u : b <= m
  <2> HIDE DEF u
  <2> QED BY <1>0, <1>2, <1>4, HighestPart, WordMax DEF bmsi
<1> HIDE DEF m
<1>6. m \in v /\ m \in 0 .. W - 1 /\ m - 1 \notin v /\ m <= t
  BY <1>0, <1>3, <1>5, <1>t
<1>7. Minus(W, bmsi(ps_andn(v)), One) = 0 .. m - 1
  <2> HIDE DEF u
  <2> QED BY <1>2, <1>5, <1>6, BelowBit
<1>8. ASSUME NEW b \in v, b < m
      PROVE  ~(b .. t \subseteq v)
  <2>1. m - 1 \in b .. t
    BY <1>6, <1>8, <1>t
  <2> QED BY <1>6, <2>1
<1>9. ASSUME NEW b \in v, ~(b < m), NEW d \in b .. t
      PROVE  d \in v
  <2> SUFFICES ASSUME d \notin v PROVE FALSE
    OBVIOUS
  <2>1. d \in 0 .. W /\ d > m /\ d < t
    <3>1. b \in Nat /\ b >= m /\ d # b /\ d # t
      BY <1>9, <1>t, <1>6
    <3> QED BY <1>0, <1>t, <1>6, <3>1
  <2>2. PICK e \in d .. W : (d .. e - 1) \cap v = {} /\ (e < W => e \in v)
    BY <1>0, <2>1, NextOne
  <2>3. e <= t
    <3>1. t \in d .. W
      BY <1>0, <1>t, <2>1
    <3> QED BY <1>t, <2>2, <3>1
  <2>4. e \in v /\ e # d /\ e - 1 \in d .. e - 1
    BY <1>0, <1>t, <2>1, <2>2, <2>3
  <2>5. e \in u
    BY <1>3, <2>2, <2>4
  <2> QED BY <1>5, <1>6, <2>1, <2>2, <2>5
<1> QED BY <1>6, <1>7, <1>8, <1>9 DEF t

\* The helpers that take a run.
LEMMA RunHold ==
  ASSUME rest \in Word(W)
  PROVE  RunContracts
<1> SUFFICES ASSUME rest # {}
             PROVE  /\ clear_lowest_set_bits(rest) = rest \ LowRun
                    /\ clear_lowest_set_bits_out(rest) =
                         <<rest \ LowRun, LowRun \cup Left(W, {Max(LowRun)}, 1)>>
                    /\ consume_bit_sequence_right(rest) = <<rest \ LowRun, LowRun>>
                    /\ consume_bit_sequence_left(rest) = <<rest \ HighRun, HighRun>>
  BY DEF RunContracts
<1>0. W \in Nat /\ rest \in SUBSET (0 .. W - 1)
  BY Width DEF Word, Full
<1>1. PICK a \in 0 .. W - 1, e \in 0 .. W :
        /\ a < e /\ Min(rest) = a /\ a .. e - 1 \subseteq rest /\ e \notin rest
        /\ (0 .. a - 1) \cap rest = {}
        /\ RunMask(rest) = (rest \ (a .. e - 1)) \cup ({e} \cap 0 .. W - 1)
  BY LowRunIs
<1> DEFINE r == a .. e - 1
           x == {e} \cap 0 .. W - 1
<1>2. LowRun = r
  <2>1. ASSUME NEW b \in rest
        PROVE  a .. b \subseteq rest <=> b \in r
    <3>1. CASE b < e
      <4>1. b \in a .. e - 1 /\ \A d \in a .. b : d \in a .. e - 1
        BY <1>0, <1>1, <3>1
      <4> QED BY <1>1, <4>1
    <3>2. CASE ~(b < e)
      <4>1. e \in a .. b /\ b \notin r
        BY <1>0, <1>1, <3>2
      <4> QED BY <1>1, <4>1
    <3> QED BY <3>1, <3>2
  <2>2. r \in SUBSET rest
    BY <1>1
  <2> HIDE DEF r
  <2> QED BY <1>1, <2>1, <2>2 DEF LowRun
<1>3. RunMask(rest) = (rest \ r) \cup x /\ x \cap rest = {} /\ r \in SUBSET rest
  BY <1>1
<1>4. Max(LowRun) = e - 1
  <2>1. r \in SUBSET Int /\ e - 1 \in r /\ \A b \in r : b <= e - 1
    BY <1>1
  <2> HIDE DEF r
  <2> QED BY <1>2, <2>1, MaxIs
<1>5. Left(W, {Max(LowRun)}, 1) = x
  <2>1. (e - 1) + 1 = e
    OBVIOUS
  <2> QED BY <1>4, <2>1 DEF Left, Full
<1> HIDE DEF r, x
<1>6. rest \cap RunMask(rest) = rest \ r /\ rest \ RunMask(rest) = r
  BY <1>3
<1>7. Xor(rest, RunMask(rest)) = r \cup x
  BY <1>3 DEF Xor
<1>8. /\ clear_lowest_set_bits(rest) = rest \ LowRun
      /\ clear_lowest_set_bits_out(rest) =
           <<rest \ LowRun, LowRun \cup Left(W, {Max(LowRun)}, 1)>>
      /\ consume_bit_sequence_right(rest) = <<rest \ LowRun, LowRun>>
  BY <1>2, <1>5, <1>6, <1>7
     DEF clear_lowest_set_bits, clear_lowest_set_bits_out, consume_bit_sequence_right
<1>9. consume_bit_sequence_left(rest) = <<rest \ HighRun, HighRun>>
  <2>1. PICK m \in rest :
          /\ \A b \in rest : b < m => ~(b .. Max(rest) \subseteq rest)
          /\ \A b \in rest : ~(b < m) => b .. Max(rest) \subseteq rest
          /\ Minus(W, bmsi(ps_andn(rest)), One) = 0 .. m - 1
    BY HighRunIs
  <2>2. HighRun = {b \in rest : ~(b < m)}
    BY <2>1 DEF HighRun
  <2>3. \A b \in rest : b \in 0 .. m - 1 <=> b < m
    BY <1>0
  <2>4. rest \cap (0 .. m - 1) = rest \ HighRun
    BY <2>2, <2>3
  <2>5. andn(0 .. m - 1, rest) = HighRun
    <3>1. andn(0 .. m - 1, rest) = rest \ (0 .. m - 1)
      BY AndnIs
    <3> QED BY <2>2, <2>3, <3>1
  <2> QED BY <2>1, <2>4, <2>5 DEF consume_bit_sequence_left
<1> QED BY <1>8, <1>9

\* The helpers that split at a bit.
LEMMA BoundaryHold ==
  ASSUME rest \in Word(W)
  PROVE  BoundaryContracts
<1>0. W \in Nat /\ rest \in SUBSET (0 .. W - 1) /\ AllOnes = 0 .. W - 1 /\ AllOnes \in Word(W)
  BY Width DEF Word, Full, AllOnes
<1>1. ASSUME NEW b \in AllOnes
      PROVE  /\ blsioff(rest, {b}) = Lowest({c \in rest : c >= b})
             /\ clear_bits_lower_than(rest, {b}) = {c \in rest : c >= b}
             /\ clear_bits_higher_than(rest, {b}) = {c \in rest : c <= b}
             /\ extract_bits_lower_than(rest, {b}) = {c \in rest : c < b}
             /\ extract_bits_higher_than(rest, {b}) = {c \in rest : c > b}
  <2>0. b \in 0 .. W - 1 /\ {b} \in Word(W)
    BY <1>0 DEF Word, Full
  <2>1. blsioff(rest, {b}) = Lowest({c \in rest : c >= b})
    BY <2>0, BoundaryPart
  <2>2. Minus(W, {b}, One) = 0 .. b - 1
    BY <2>0, BelowBit
  <2>3. blsmsk({b}) = 0 .. b
    <3>1. Min({b}) = b
      BY <2>0, MinIs, {b} \in SUBSET Int, b \in {b}
    <3>2. (b + 1) - 1 = b
      BY <2>0
    <3> QED BY <2>0, <3>1, <3>2, BlsIs DEF BLSMSK, Full
  <2>4. \A c \in rest : /\ c \in 0 .. b - 1 <=> c < b
                        /\ c \notin 0 .. b - 1 <=> c >= b
                        /\ c \in 0 .. b <=> c <= b
                        /\ c \notin 0 .. b <=> c > b
    BY <1>0, <2>0
  <2>5. clear_bits_lower_than(rest, {b}) = rest \ (0 .. b - 1)
    BY <2>2, AndnIs DEF clear_bits_lower_than
  <2>6. extract_bits_higher_than(rest, {b}) = rest \ (0 .. b)
    BY <2>3, AndnIs DEF extract_bits_higher_than
  <2>7. /\ clear_bits_higher_than(rest, {b}) = (0 .. b) \cap rest
        /\ extract_bits_lower_than(rest, {b}) = rest \cap (0 .. b - 1)
    BY <2>2, <2>3 DEF clear_bits_higher_than, extract_bits_lower_than
  <2> QED BY <2>1, <2>4, <2>5, <2>6, <2>7
<1>2. ASSUME NEW i \in 0 .. 2 ^ IndexBits - 1
      PROVE  bzlo(rest, i) = {c \in rest : c >= i}
  <2>1. bzlo(rest, i) = rest \ {c \in AllOnes : c < i}
    BY <1>0, BzhiIs, AndnIs DEF bzlo
  <2>2. \A c \in rest : c \in AllOnes /\ (c >= i <=> ~(c < i))
    BY <1>0
  <2> QED BY <2>1, <2>2
<1>3. blsioff(rest, Zero) = Zero
  <2> DEFINE c == Complement(W, rest)
  <2>1. c \in Word(W) /\ c \cap rest = {}
    BY ComplementWord
  <2>2. Num(c) + Num({}) = Num(c)
    <3> HIDE DEF c
    <3> QED BY <1>0, <2>1, WordBits, NumEmpty
  <2>3. Plus(W, c, {}) = c
    <3> HIDE DEF c
    <3> QED BY <1>0, <2>1, <2>2, PlusIs
  <2> QED BY <2>1, <2>3 DEF blsioff, Zero
<1> QED BY <1>1, <1>2, <1>3 DEF BoundaryContracts

-------------------------------------------------------------------------------
(***************************************************************************)
(* Sums over a set                                                         *)
(***************************************************************************)
\* The element an iteration takes next.
First(s) == CHOOSE x \in s : TRUE

\* it sums f over the subsets of S, one element at a time.
Sums(it, S, f) ==
  it = [s \in SUBSET S |-> IF s = {} THEN 0 ELSE f[First(s)] + it[s \ {First(s)}]]

\* G sums f over the subsets of S in any order.
Adds(G, S, f) ==
  /\ G \in [SUBSET S -> Int]
  /\ G[{}] = 0
  /\ \A s \in SUBSET S : \A x \in s : G[s] = f[x] + G[s \ {x}]

\* Every function on a finite set can be summed, in any order.
LEMMA AddsExists ==
  ASSUME NEW S, IsFiniteSet(S), NEW f \in [S -> Int]
  PROVE  \E G : Adds(G, S, f)
<1> DEFINE P == {u \in SUBSET S : \E G : Adds(G, u, f)}
<1>1. {} \in P
  <2> DEFINE G == [s \in SUBSET {} |-> 0]
  <2>1. Adds(G, {}, f)
    BY DEF Adds
  <2> QED BY <2>1
<1>2. ASSUME NEW u \in SUBSET S, \A x \in u : u \ {x} \in P
      PROVE  u \in P
  <2>1. CASE u = {}
    BY <1>1, <2>1
  <2>2. CASE u # {}
    <3>1. PICK z \in u : TRUE
      BY <2>2
    <3>2. PICK H : Adds(H, u \ {z}, f)
      BY <1>2, <3>1
    <3> DEFINE G == [s \in SUBSET u |-> IF z \in s THEN f[z] + H[s \ {z}] ELSE H[s]]
    <3>3. \A s \in SUBSET u : s \ {z} \in SUBSET (u \ {z}) /\ (z \notin s => s \in SUBSET (u \ {z}))
      OBVIOUS
    <3>4. \A x \in u : f[x] \in Int
      OBVIOUS
    <3>5. \A s \in SUBSET u : G[s] = IF z \in s THEN f[z] + H[s \ {z}] ELSE H[s]
      OBVIOUS
    <3>6. \A s \in SUBSET (u \ {z}) : H[s] \in Int
      BY <3>2 DEF Adds
    <3>7. \A s \in SUBSET u : G[s] \in Int
      BY <3>1, <3>3, <3>4, <3>5, <3>6
    <3>8. G \in [SUBSET u -> Int]
      <4>1. G = [s \in SUBSET u |-> G[s]]
        OBVIOUS
      <4> HIDE DEF G
      <4> QED BY <3>7, <4>1
    <3>9. G[{}] = 0
      BY <3>2 DEF Adds
    <3>10. ASSUME NEW s \in SUBSET u, NEW x \in s
           PROVE  G[s] = f[x] + G[s \ {x}]
      <4>0. s \ {x} \in SUBSET u
        OBVIOUS
      <4>1. CASE z \notin s
        <5>1. G[s] = H[s] /\ G[s \ {x}] = H[s \ {x}] /\ s \in SUBSET (u \ {z})
          BY <3>3, <3>5, <4>0, <4>1
        <5>2. H[s] = f[x] + H[s \ {x}]
          BY <3>2, <5>1 DEF Adds
        <5> QED BY <5>1, <5>2
      <4>2. CASE z \in s /\ x = z
        <5>1. G[s] = f[z] + H[s \ {z}] /\ G[s \ {z}] = H[s \ {z}]
          BY <3>5, <4>0, <4>2
        <5> QED BY <4>2, <5>1
      <4>3. CASE z \in s /\ x # z
        <5>1. G[s] = f[z] + H[s \ {z}] /\ G[s \ {x}] = f[z] + H[(s \ {x}) \ {z}]
          BY <3>5, <4>0, <4>3
        <5>2. x \in s \ {z} /\ s \ {z} \in SUBSET (u \ {z})
          BY <3>3, <4>3
        <5>3. H[s \ {z}] = f[x] + H[(s \ {z}) \ {x}]
          BY <3>2, <5>2 DEF Adds
        <5>4. (s \ {z}) \ {x} = (s \ {x}) \ {z} /\ (s \ {z}) \ {x} \in SUBSET (u \ {z})
          OBVIOUS
        <5>5. f[z] \in Int /\ f[x] \in Int /\ H[(s \ {z}) \ {x}] \in Int
          BY <3>1, <3>4, <3>6, <5>4
        <5> DEFINE r == (s \ {z}) \ {x}
        <5>6. G[s] = f[z] + H[s \ {z}] /\ G[s \ {x}] = f[z] + H[r] /\ H[s \ {z}] = f[x] + H[r]
          BY <5>1, <5>3, <5>4
        <5>7. H[r] \in Int
          BY <5>5
        <5> HIDE DEF G, r
        <5> QED BY <5>5, <5>6, <5>7
      <4> QED BY <4>1, <4>2, <4>3
    <3> HIDE DEF G
    <3>11. Adds(G, u, f)
      BY <3>8, <3>9, <3>10 DEF Adds
    <3> QED BY <3>11
  <2> QED BY <2>1, <2>2
<1>3. S \in P
  <2> HIDE DEF P
  <2>1. P \in SUBSET (SUBSET S)
    BY DEF P
  <2>2. \A t \in SUBSET S : (\A x \in t : t \ {x} \in P) => t \in P
    BY <1>2
  <2>3. P = SUBSET S
    BY <1>1, <2>1, <2>2, SubsetInduction
  <2> QED BY <2>3
<1> QED BY <1>3

\* A sum in any order is the iteration, which takes the elements as CHOOSE gives them.
LEMMA AddsSums ==
  ASSUME NEW S, NEW f, NEW G, Adds(G, S, f)
  PROVE  Sums(G, S, f)
<1> DEFINE E == [s \in SUBSET S |-> IF s = {} THEN 0 ELSE f[First(s)] + G[s \ {First(s)}]]
<1>1. ASSUME NEW s \in SUBSET S
      PROVE  G[s] = E[s]
  <2>1. CASE s = {}
    BY <2>1 DEF Adds
  <2>2. CASE s # {}
    <3>1. First(s) \in s
      BY <2>2 DEF First
    <3>2. G[s] = f[First(s)] + G[s \ {First(s)}]
      BY <3>1 DEF Adds
    <3> QED BY <2>2, <3>2
  <2> QED BY <2>1, <2>2
<1>2. G = [s \in SUBSET S |-> G[s]] /\ E = [s \in SUBSET S |-> E[s]]
  BY DEF Adds
<1> HIDE DEF E
<1>3. G = E
  BY <1>1, <1>2
<1> QED BY <1>3 DEF Sums, E

\* There is one iteration.
LEMMA SumsAre ==
  ASSUME NEW S, IsFiniteSet(S), NEW f, NEW G, Adds(G, S, f), NEW it, Sums(it, S, f)
  PROVE  it = G
<1> DEFINE P == {s \in SUBSET S : it[s] = G[s]}
<1>1. \A s \in SUBSET S : it[s] = IF s = {} THEN 0 ELSE f[First(s)] + it[s \ {First(s)}]
  <2>1. it = [s \in SUBSET S |-> IF s = {} THEN 0 ELSE f[First(s)] + it[s \ {First(s)}]]
    BY DEF Sums
  <2> QED BY <2>1
<1>2. ASSUME NEW s \in SUBSET S, \A x \in s : s \ {x} \in P
      PROVE  s \in P
  <2>1. CASE s = {}
    BY <1>1, <2>1 DEF Adds
  <2>2. CASE s # {}
    <3>1. First(s) \in s
      BY <2>2 DEF First
    <3>2. G[s] = f[First(s)] + G[s \ {First(s)}]
      BY <3>1 DEF Adds
    <3>3. it[s \ {First(s)}] = G[s \ {First(s)}]
      BY <1>2, <3>1
    <3> QED BY <1>1, <2>2, <3>2, <3>3
  <2> QED BY <2>1, <2>2
<1>3. P = SUBSET S
  <2>1. {} \in P
    BY <1>1 DEF Adds
  <2>2. P \in SUBSET (SUBSET S)
    OBVIOUS
  <2>3. \A t \in SUBSET S : (\A x \in t : t \ {x} \in P) => t \in P
    BY <1>2
  <2> HIDE DEF P
  <2> QED BY <2>1, <2>2, <2>3, SubsetInduction
<1>4. \A s \in SUBSET S : it[s] = G[s]
  BY <1>3
<1>5. it = [s \in SUBSET S |-> it[s]] /\ G = [s \in SUBSET S |-> G[s]]
  <2>1. it = [s \in SUBSET S |-> IF s = {} THEN 0 ELSE f[First(s)] + it[s \ {First(s)}]]
    BY DEF Sums
  <2>2. it = [s \in SUBSET S |-> it[s]]
    BY <2>1
  <2>3. G = [s \in SUBSET S |-> G[s]]
    BY DEF Adds
  <2> QED BY <2>2, <2>3
<1> QED BY <1>4, <1>5

-------------------------------------------------------------------------------
(***************************************************************************)
(* The partial sums of the stages                                          *)
(***************************************************************************)
\* The iterations the folds of ArithmeticContracts are written with.
SumBLSMSK(S) ==
  CHOOSE it : it = [s \in SUBSET S |->
    IF s = {} THEN 0
    ELSE LET x == CHOOSE x \in s : TRUE IN 2 ^ x * (Staged(x) + 1) + it[s \ {x}]]

SumBLSI(S) ==
  CHOOSE it : it = [s \in SUBSET S |->
    IF s = {} THEN 0
    ELSE LET x == CHOOSE x \in s : TRUE IN (2 ^ x + (Staged(x) * 2 ^ x) \div 2) + it[s \ {x}]]

SumStages(v, S) ==
  CHOOSE it : it = [s \in SUBSET S |->
    IF s = {} THEN 0
    ELSE LET x == CHOOSE x \in s : TRUE IN Num(Left(W, Stage(v, x), x)) + it[s \ {x}]]

SumStagesLess(v, S) ==
  CHOOSE it : it = [s \in SUBSET S |->
    IF s = {} THEN 0
    ELSE LET x == CHOOSE x \in s : TRUE IN Num(Left(W, Stage(v, x), x - 1)) + it[s \ {x}]]

\* The folds of ArithmeticContracts are the iterations above.
LEMMA SumsWritten ==
  ASSUME NEW v
  PROVE  /\ MapThenSumSet(LAMBDA p : 2 ^ p * (Staged(p) + 1), v) = SumBLSMSK(v)[v]
         /\ MapThenSumSet(LAMBDA p : 2 ^ p + (Staged(p) * 2 ^ p) \div 2, v) = SumBLSI(v)[v]
         /\ MapThenSumSet(LAMBDA k : Num(Left(W, Stage(v, k), k)), 0 .. 4)
              = SumStages(v, 0 .. 4)[0 .. 4]
         /\ MapThenSumSet(LAMBDA k : Num(Left(W, Stage(v, k), k - 1)), 1 .. 4)
              = SumStagesLess(v, 1 .. 4)[1 .. 4]
<1>1. MapThenSumSet(LAMBDA p : 2 ^ p * (Staged(p) + 1), v) = SumBLSMSK(v)[v]
  BY DEF MapThenSumSet, MapThenFoldSet, SumBLSMSK
<1>2. MapThenSumSet(LAMBDA p : 2 ^ p + (Staged(p) * 2 ^ p) \div 2, v) = SumBLSI(v)[v]
  BY DEF MapThenSumSet, MapThenFoldSet, SumBLSI
<1>3. MapThenSumSet(LAMBDA k : Num(Left(W, Stage(v, k), k)), 0 .. 4)
              = SumStages(v, 0 .. 4)[0 .. 4]
  BY DEF MapThenSumSet, MapThenFoldSet, SumStages
<1>4. MapThenSumSet(LAMBDA k : Num(Left(W, Stage(v, k), k - 1)), 1 .. 4)
              = SumStagesLess(v, 1 .. 4)[1 .. 4]
  BY DEF MapThenSumSet, MapThenFoldSet, SumStagesLess
<1> QED BY <1>1, <1>2, <1>3, <1>4

\* The iteration SumBLSMSK is a sum in any order.
LEMMA SumBLSMSKIs ==
  ASSUME NEW S, IsFiniteSet(S), NEW f, \A x \in S : f[x] = 2 ^ x * (Staged(x) + 1),
         NEW G, Adds(G, S, f)
  PROVE  SumBLSMSK(S) = G
<1> DEFINE R(it) == it = [s \in SUBSET S |->
             IF s = {} THEN 0
             ELSE LET x == CHOOSE x \in s : TRUE IN 2 ^ x * (Staged(x) + 1) + it[s \ {x}]]
<1>1. ASSUME NEW it
      PROVE  R(it) <=> Sums(it, S, f)
  <2>1. ASSUME NEW s \in SUBSET S, s # {}
        PROVE  f[First(s)] = 2 ^ First(s) * (Staged(First(s)) + 1)
    BY <2>1 DEF First
  <2> QED BY <2>1 DEF First, Sums
<1> HIDE DEF R
<1>2. \E it : R(it)
  BY <1>1, AddsSums
<1>3. SumBLSMSK(S) = CHOOSE it : R(it)
  BY DEF SumBLSMSK, R
<1>4. R(SumBLSMSK(S))
  BY <1>2, <1>3, Zenon
<1> QED BY <1>1, <1>4, SumsAre

\* The iteration SumBLSI is a sum in any order.
LEMMA SumBLSIIs ==
  ASSUME NEW S, IsFiniteSet(S), NEW f, \A x \in S : f[x] = 2 ^ x + (Staged(x) * 2 ^ x) \div 2,
         NEW G, Adds(G, S, f)
  PROVE  SumBLSI(S) = G
<1> DEFINE R(it) == it = [s \in SUBSET S |->
             IF s = {} THEN 0
             ELSE LET x == CHOOSE x \in s : TRUE IN (2 ^ x + (Staged(x) * 2 ^ x) \div 2) + it[s \ {x}]]
<1>1. ASSUME NEW it
      PROVE  R(it) <=> Sums(it, S, f)
  <2>1. ASSUME NEW s \in SUBSET S, s # {}
        PROVE  f[First(s)] = 2 ^ First(s) + (Staged(First(s)) * 2 ^ First(s)) \div 2
    BY <2>1 DEF First
  <2> QED BY <2>1 DEF First, Sums
<1> HIDE DEF R
<1>2. \E it : R(it)
  BY <1>1, AddsSums
<1>3. SumBLSI(S) = CHOOSE it : R(it)
  BY DEF SumBLSI, R
<1>4. R(SumBLSI(S))
  BY <1>2, <1>3, Zenon
<1> QED BY <1>1, <1>4, SumsAre

\* The iteration SumStages is a sum in any order.
LEMMA SumStagesIs ==
  ASSUME NEW v, NEW S, IsFiniteSet(S), NEW f, \A x \in S : f[x] = Num(Left(W, Stage(v, x), x)),
         NEW G, Adds(G, S, f)
  PROVE  SumStages(v, S) = G
<1> DEFINE R(it) == it = [s \in SUBSET S |->
             IF s = {} THEN 0
             ELSE LET x == CHOOSE x \in s : TRUE IN Num(Left(W, Stage(v, x), x)) + it[s \ {x}]]
<1>1. ASSUME NEW it
      PROVE  R(it) <=> Sums(it, S, f)
  <2>1. ASSUME NEW s \in SUBSET S, s # {}
        PROVE  f[First(s)] = Num(Left(W, Stage(v, First(s)), First(s)))
    BY <2>1 DEF First
  <2> QED BY <2>1 DEF First, Sums
<1> HIDE DEF R
<1>2. \E it : R(it)
  BY <1>1, AddsSums
<1>3. SumStages(v, S) = CHOOSE it : R(it)
  BY DEF SumStages, R
<1>4. R(SumStages(v, S))
  BY <1>2, <1>3, Zenon
<1> QED BY <1>1, <1>4, SumsAre

\* The iteration SumStagesLess is a sum in any order.
LEMMA SumStagesLessIs ==
  ASSUME NEW v, NEW S, IsFiniteSet(S), NEW f, \A x \in S : f[x] = Num(Left(W, Stage(v, x), x - 1)),
         NEW G, Adds(G, S, f)
  PROVE  SumStagesLess(v, S) = G
<1> DEFINE R(it) == it = [s \in SUBSET S |->
             IF s = {} THEN 0
             ELSE LET x == CHOOSE x \in s : TRUE IN Num(Left(W, Stage(v, x), x - 1)) + it[s \ {x}]]
<1>1. ASSUME NEW it
      PROVE  R(it) <=> Sums(it, S, f)
  <2>1. ASSUME NEW s \in SUBSET S, s # {}
        PROVE  f[First(s)] = Num(Left(W, Stage(v, First(s)), First(s) - 1))
    BY <2>1 DEF First
  <2> QED BY <2>1 DEF First, Sums
<1> HIDE DEF R
<1>2. \E it : R(it)
  BY <1>1, AddsSums
<1>3. SumStagesLess(v, S) = CHOOSE it : R(it)
  BY DEF SumStagesLess, R
<1>4. R(SumStagesLess(v, S))
  BY <1>2, <1>3, Zenon
<1> QED BY <1>1, <1>4, SumsAre

\* A number is written modulo 2^w.
LEMMA BinMod ==
  ASSUME NEW w \in Nat, NEW n \in Int, NEW c \in Int
  PROVE  Bin(w, n + c * 2 ^ w) = Bin(w, n)
<1> DEFINE P == 2 ^ w
           r == n % P
           d == n \div P
<1>0. P \in Nat \ {0}
  BY PowerType
<1> HIDE DEF P
<1>1. r \in 0 .. P - 1 /\ d \in Int /\ n = r + d * P
  BY <1>0
<1> HIDE DEF r, d
<1>2. PICK s \in Word(w) : Num(s) = r
  BY <1>1, NumSurjective DEF P
<1>3. Bin(w, r + d * P) = s
  BY <1>1, <1>2, BinNum, Zenon DEF P
<1>4. Bin(w, r + (d + c) * P) = s
  <2>1. d + c \in Int
    BY <1>1
  <2> QED BY <1>2, <2>1, BinNum, Zenon DEF P
<1>5. r + (d + c) * P = n + c * P
  <2>1. (d + c) * P = d * P + c * P /\ d * P \in Int /\ c * P \in Int /\ r \in Int
    BY <1>0, <1>1
  <2> QED BY <1>1, <2>1
<1> QED BY <1>1, <1>3, <1>4, <1>5 DEF P

\* What a shift to the left keeps, and what it drops.
LEMMA NumLeft ==
  ASSUME NEW w \in Nat, NEW s \in Bits, NEW k \in Nat
  PROVE  \E q \in Nat : 2 ^ k * Num(s) = Num(Left(w, s, k)) + q * 2 ^ w
<1> DEFINE up == {b + k : b \in s}
           low == up \cap Full(w)
           high == up \ Full(w)
<1>1. up \in Bits /\ Num(up) = 2 ^ k * Num(s)
  BY NumShift
<1>2. low \in Bits /\ high \in Bits /\ low \cup high = up /\ low \cap high = {}
  <2> HIDE DEF up
  <2>1. low \in SUBSET up /\ high \in SUBSET up
    OBVIOUS
  <2>2. low \in Bits /\ high \in Bits
    <3> HIDE DEF low, high
    <3> QED BY <1>1, <2>1, PartOfBits
  <2> QED BY <2>2
<1>3. Num(up) = Num(low) + Num(high)
  <2> HIDE DEF low, high, up
  <2> QED BY <1>2, BitsUnion
<1>4. \A b \in high : b >= w
  BY <1>1 DEF Full, Bits
<1>5. PICK q \in Nat : Num(high) = q * 2 ^ w
  <2> HIDE DEF high
  <2> QED BY <1>2, <1>4, NumMultiple DEF Bits
<1>6. Left(w, s, k) = low
  BY DEF Left
<1> QED BY <1>1, <1>3, <1>5, <1>6

\* The powers of the five stages.
LEMMA SmallPowers == 2 ^ 0 = 1 /\ 2 ^ 1 = 2 /\ 2 ^ 2 = 4 /\ 2 ^ 3 = 8 /\ 2 ^ 4 = 16
<1>1. 2 ^ 0 = 1
  OBVIOUS
<1>2. 2 ^ (0 + 1) = 2 * 2 ^ 0
  BY Double, 0 \in Nat
<1>3. 2 ^ (1 + 1) = 2 * 2 ^ 1
  BY Double, 1 \in Nat
<1>4. 2 ^ (2 + 1) = 2 * 2 ^ 2
  BY Double, 2 \in Nat
<1>5. 2 ^ (3 + 1) = 2 * 2 ^ 3
  BY Double, 3 \in Nat
<1>6. 0 + 1 = 1 /\ 1 + 1 = 2 /\ 2 + 1 = 3 /\ 3 + 1 = 4
  OBVIOUS
<1> QED BY <1>1, <1>2, <1>3, <1>4, <1>5, <1>6

\* Is p under the mask of stage k.
Under(p, k) == IF p < 32 /\ (p \div 2 ^ k) % 2 = 1 THEN 1 ELSE 0

\* A position below 32 is the sum of its five binary digits, the digits the stage masks hold.
LEMMA StagedIs ==
  ASSUME NEW p \in Nat
  PROVE  Staged(p) = Under(p, 0) + 2 * Under(p, 1) + 4 * Under(p, 2) + 8 * Under(p, 3)
                       + 16 * Under(p, 4)
<1>1. CASE p < 32
  <2>1. p = ((p \div 1) % 2) + 2 * ((p \div 2) % 2) + 4 * ((p \div 4) % 2) + 8 * ((p \div 8) % 2)
              + 16 * ((p \div 16) % 2)
    BY <1>1
  <2>2. \A q \in Nat : (q % 2 = 1 \/ q % 2 = 0)
    OBVIOUS
  <2>3. \A q \in {1, 2, 4, 8, 16} : (p \div q) % 2 \in {0, 1}
    OBVIOUS
  <2>4. /\ Under(p, 0) = (p \div 1) % 2
        /\ Under(p, 1) = (p \div 2) % 2
        /\ Under(p, 2) = (p \div 4) % 2
        /\ Under(p, 3) = (p \div 8) % 2
        /\ Under(p, 4) = (p \div 16) % 2
    BY <1>1, <2>3, SmallPowers DEF Under
  <2> QED BY <1>1, <2>1, <2>4 DEF Staged
<1>2. CASE ~(p < 32)
  BY <1>2 DEF Staged, Under
<1> QED BY <1>1, <1>2

\* A stage without one position loses that position's term.
LEMMA StageStep ==
  ASSUME NEW t \in Bits, NEW x \in t, NEW k \in Nat
  PROVE  /\ Num(Stage(t, k)) = Under(x, k) * 2 ^ x + Num(Stage(t \ {x}, k))
         /\ Num(Stage(t, k)) \in Nat /\ Num(Stage(t \ {x}, k)) \in Nat
         /\ Stage(t, k) \in Bits
<1> DEFINE a == Stage(t, k)
           r == Stage(t \ {x}, k)
<1>0. x \in Nat /\ 2 ^ x \in Nat
  BY PowerType DEF Bits
<1>1. a \in SUBSET t /\ r \in SUBSET a
  BY DEF Stage
<1>2. a \in Bits /\ r \in Bits
  <2>1. a \in Bits
    <3> HIDE DEF a, r
    <3> QED BY <1>1, PartOfBits
  <2> HIDE DEF a, r
  <2> QED BY <1>1, <2>1, PartOfBits
<1>3. CASE Under(x, k) = 1
  <2>1. a = r \cup {x} /\ r \cap {x} = {}
    BY <1>3 DEF Under, Stage
  <2>2. {x} \in Bits /\ Num({x}) = 2 ^ x
    BY <1>0, OneBit, NumOne
  <2> HIDE DEF a, r
  <2>3. Num(a) = Num(r) + 2 ^ x /\ Num(a) \in Nat /\ Num(r) \in Nat
    <3>1. Num(r \cup {x}) = Num(r) + Num({x}) /\ Num(r) \in Nat
      BY <1>2, <2>1, <2>2, BitsUnion
    <3>2. Num(a) \in Nat
      BY <1>2, BitsUnion
    <3> QED BY <2>1, <2>2, <3>1, <3>2
  <2>4. Num(a) = 1 * 2 ^ x + Num(r)
    BY <1>0, <2>3
  <2> QED BY <1>2, <1>3, <2>3, <2>4 DEF a, r
<1>4. CASE Under(x, k) # 1
  <2>1. a = r /\ Under(x, k) = 0
    BY <1>4 DEF Under, Stage
  <2> HIDE DEF a, r
  <2>2. Num(a) \in Nat /\ Num(r) \in Nat
    BY <1>2, BitsUnion
  <2>3. Num(a) = 0 * 2 ^ x + Num(r)
    BY <1>0, <2>1, <2>2
  <2> QED BY <1>2, <2>1, <2>2, <2>3 DEF a, r
<1> QED BY <1>3, <1>4

\* The five stages of a word, each times the weight of its digit.
StageSum(t) ==
  Num(Stage(t, 0)) + 2 * Num(Stage(t, 1)) + 4 * Num(Stage(t, 2)) + 8 * Num(Stage(t, 3))
    + 16 * Num(Stage(t, 4))

\* The five stages together lose, with a position, the position times its power.
LEMMA StageSumStep ==
  ASSUME NEW t \in Bits, NEW x \in t
  PROVE  /\ StageSum(t) = Staged(x) * 2 ^ x + StageSum(t \ {x})
         /\ StageSum(t) \in Nat /\ StageSum(t \ {x}) \in Nat
<1> DEFINE U(k) == Under(x, k)
           A(k) == Num(Stage(t, k))
           R(k) == Num(Stage(t \ {x}, k))
           P == 2 ^ x
<1>0. P \in Nat /\ x \in Nat
  BY PowerType DEF Bits
<1>1. \A k \in 0 .. 4 : A(k) = U(k) * P + R(k) /\ A(k) \in Nat /\ R(k) \in Nat /\ U(k) \in {0, 1}
  <2> SUFFICES ASSUME NEW k \in 0 .. 4
               PROVE  A(k) = U(k) * P + R(k) /\ A(k) \in Nat /\ R(k) \in Nat /\ U(k) \in {0, 1}
    OBVIOUS
  <2>1. U(k) \in {0, 1}
    BY DEF Under
  <2>2. A(k) = U(k) * P + R(k) /\ A(k) \in Nat /\ R(k) \in Nat
    BY k \in Nat, StageStep
  <2> QED BY <2>1, <2>2
<1>2. Staged(x) = U(0) + 2 * U(1) + 4 * U(2) + 8 * U(3) + 16 * U(4)
  BY <1>0, StagedIs
<1>3. /\ StageSum(t) = A(0) + 2 * A(1) + 4 * A(2) + 8 * A(3) + 16 * A(4)
      /\ StageSum(t \ {x}) = R(0) + 2 * R(1) + 4 * R(2) + 8 * R(3) + 16 * R(4)
  BY DEF StageSum
<1> HIDE DEF U, A, R, P
<1>4. (U(0) + 2 * U(1) + 4 * U(2) + 8 * U(3) + 16 * U(4)) * P
        = U(0) * P + 2 * (U(1) * P) + 4 * (U(2) * P) + 8 * (U(3) * P) + 16 * (U(4) * P)
  BY <1>0, <1>1
<1>5. \A k \in 0 .. 4 : U(k) * P \in Nat
  BY <1>0, <1>1
<1>6. Staged(x) * P
        = U(0) * P + 2 * (U(1) * P) + 4 * (U(2) * P) + 8 * (U(3) * P) + 16 * (U(4) * P)
  BY <1>2, <1>4
<1>7. StageSum(t) \in Nat /\ StageSum(t \ {x}) \in Nat
  BY <1>1, <1>3
<1>8. StageSum(t) = Staged(x) * P + StageSum(t \ {x})
  <2> DEFINE V(k) == U(k) * P
  <2>1. \A k \in 0 .. 4 : V(k) \in Nat /\ A(k) = V(k) + R(k) /\ A(k) \in Nat /\ R(k) \in Nat
    BY <1>1, <1>5
  <2>2. Staged(x) * P = V(0) + 2 * V(1) + 4 * V(2) + 8 * V(3) + 16 * V(4)
    BY <1>6
  <2> HIDE DEF V
  <2> QED BY <1>3, <2>1, <2>2
<1> QED BY <1>7, <1>8 DEF P

\* No positions, no stages.
LEMMA StageSumEmpty == StageSum({}) = 0
<1>1. /\ Stage({}, 0) = {} /\ Stage({}, 1) = {} /\ Stage({}, 2) = {}
      /\ Stage({}, 3) = {} /\ Stage({}, 4) = {}
  BY DEF Stage
<1> QED BY <1>1, NumEmpty, SMT DEF StageSum

\* The five terms of a fold over the stages, and the four without the first.
LEMMA StageTerms ==
  ASSUME NEW f \in [0 .. 4 -> Int], NEW G, Adds(G, 0 .. 4, f)
  PROVE  G[0 .. 4] = f[0] + f[1] + f[2] + f[3] + f[4] /\ G[1 .. 4] = f[1] + f[2] + f[3] + f[4]
<1>1. /\ (0 .. 4) \ {0} = 1 .. 4 /\ (1 .. 4) \ {1} = 2 .. 4 /\ (2 .. 4) \ {2} = 3 .. 4
      /\ (3 .. 4) \ {3} = {4} /\ {4} \ {4} = {}
  OBVIOUS
<1>2. /\ 0 .. 4 \in SUBSET (0 .. 4) /\ 1 .. 4 \in SUBSET (0 .. 4) /\ 2 .. 4 \in SUBSET (0 .. 4)
      /\ 3 .. 4 \in SUBSET (0 .. 4) /\ {4} \in SUBSET (0 .. 4)
  OBVIOUS
<1>3. 0 \in 0 .. 4 /\ 1 \in 1 .. 4 /\ 2 \in 2 .. 4 /\ 3 \in 3 .. 4 /\ 4 \in {4}
  OBVIOUS
<1>4. /\ G[0 .. 4] = f[0] + G[1 .. 4] /\ G[1 .. 4] = f[1] + G[2 .. 4]
      /\ G[2 .. 4] = f[2] + G[3 .. 4] /\ G[3 .. 4] = f[3] + G[{4}] /\ G[{4}] = f[4] + G[{}]
      /\ G[{}] = 0
  <2>1. \A s \in SUBSET (0 .. 4) : \A x \in s : G[s] = f[x] + G[s \ {x}]
    BY DEF Adds
  <2>2. G[{}] = 0
    BY DEF Adds
  <2>3. G[0 .. 4] = f[0] + G[1 .. 4]
    <3>1. G[0 .. 4] = f[0] + G[(0 .. 4) \ {0}]
      BY <1>2, <1>3, <2>1, Zenon
    <3> QED BY <1>1, <3>1
  <2>4. G[1 .. 4] = f[1] + G[2 .. 4]
    <3>1. G[1 .. 4] = f[1] + G[(1 .. 4) \ {1}]
      BY <1>2, <1>3, <2>1, Zenon
    <3> QED BY <1>1, <3>1
  <2>5. G[2 .. 4] = f[2] + G[3 .. 4]
    <3>1. G[2 .. 4] = f[2] + G[(2 .. 4) \ {2}]
      BY <1>2, <1>3, <2>1, Zenon
    <3> QED BY <1>1, <3>1
  <2>6. G[3 .. 4] = f[3] + G[{4}]
    <3>1. G[3 .. 4] = f[3] + G[(3 .. 4) \ {3}]
      BY <1>2, <1>3, <2>1, Zenon
    <3> QED BY <1>1, <3>1
  <2>7. G[{4}] = f[4] + G[{}]
    <3>1. G[{4}] = f[4] + G[{4} \ {4}]
      BY <1>2, <1>3, <2>1, Zenon
    <3> QED BY <1>1, <3>1
  <2> QED BY <2>2, <2>3, <2>4, <2>5, <2>6, <2>7, Zenon
<1>5. f[0] \in Int /\ f[1] \in Int /\ f[2] \in Int /\ f[3] \in Int /\ f[4] \in Int
  OBVIOUS
<1> QED BY <1>4, <1>5

\* A sum in any order is a sum in any order of every part.
LEMMA AddsPart ==
  ASSUME NEW S, NEW f, NEW G, Adds(G, S, f), NEW T \in SUBSET S
  PROVE  Adds([s \in SUBSET T |-> G[s]], T, f)
<1> DEFINE H == [s \in SUBSET T |-> G[s]]
<1>1. H \in [SUBSET T -> Int]
  <2>1. \A s \in SUBSET T : G[s] \in Int
    BY DEF Adds
  <2> QED BY <2>1
<1>2. H[{}] = 0
  BY DEF Adds
<1>3. ASSUME NEW s \in SUBSET T, NEW x \in s
      PROVE  H[s] = f[x] + H[s \ {x}]
  <2>1. G[s] = f[x] + G[s \ {x}]
    BY DEF Adds
  <2>2. H[s] = G[s] /\ H[s \ {x}] = G[s \ {x}]
    OBVIOUS
  <2> QED BY <2>1, <2>2
<1> HIDE DEF H
<1>4. Adds(H, T, f)
  BY <1>1, <1>2, <1>3 DEF Adds
<1> QED BY <1>4 DEF H

\* A word and its parts as sets of positions.
LEMMA WordPart ==
  ASSUME NEW v \in Word(W)
  PROVE  /\ v \in Bits /\ v \in SUBSET Nat /\ IsFiniteSet(v) /\ v \in SUBSET v
         /\ \A t \in SUBSET v : t \in Bits
BY Width, WordBits, PartOfBits DEF Bits

\* The weights of the bits of v, summed.
LEMMA MaskSum ==
  ASSUME NEW v \in Word(W)
  PROVE  MapThenSumSet(LAMBDA p : 2 ^ p * (Staged(p) + 1), v) = Num(v) + StageSum(v)
<1> DEFINE f == [p \in v |-> 2 ^ p * (Staged(p) + 1)]
           G == [t \in SUBSET v |-> Num(t) + StageSum(t)]
<1>0. /\ v \in Bits /\ v \in SUBSET Nat /\ IsFiniteSet(v) /\ v \in SUBSET v
      /\ \A t \in SUBSET v : t \in Bits
  BY WordPart
<1>1. \A t \in SUBSET v : G[t] = Num(t) + StageSum(t)
  OBVIOUS
<1>2. G[{}] = 0
  BY <1>1, NumEmpty, StageSumEmpty, {} \in SUBSET v
<1>3. ASSUME NEW t \in SUBSET v, NEW x \in t
      PROVE  G[t] = f[x] + G[t \ {x}] /\ G[t] \in Int
  <2>0. t \in Bits /\ x \in Nat /\ t \ {x} \in SUBSET v /\ {x} \in SUBSET t
    BY <1>0
  <2>1. StageSum(t) = Staged(x) * 2 ^ x + StageSum(t \ {x}) /\ StageSum(t \ {x}) \in Nat
    BY <2>0, StageSumStep
  <2>2. Num(t \ {x}) = Num(t) - Num({x}) /\ Num(t) \in Nat /\ Num(t \ {x}) \in Nat
    BY <2>0, BitsLess
  <2>3. Num({x}) = 2 ^ x /\ 2 ^ x \in Nat /\ Staged(x) \in Nat
    BY <2>0, NumOne, PowerType DEF Staged
  <2>4. \A P, q \in Nat : P * (q + 1) = q * P + P /\ q * P \in Nat
    OBVIOUS
  <2>5. f[x] = 2 ^ x * (Staged(x) + 1)
    BY x \in v
  <2>6. f[x] = Staged(x) * 2 ^ x + 2 ^ x /\ Staged(x) * 2 ^ x \in Nat
    BY <2>3, <2>4, <2>5
  <2> DEFINE s == Staged(x) * 2 ^ x
  <2>7. f[x] = s + 2 ^ x /\ s \in Nat /\ StageSum(t) = s + StageSum(t \ {x})
    BY <2>1, <2>6
  <2> HIDE DEF s, f, G
  <2>8. G[t] = Num(t) + StageSum(t) /\ G[t \ {x}] = Num(t \ {x}) + StageSum(t \ {x})
    BY <1>1, <2>0
  <2> QED BY <2>1, <2>2, <2>3, <2>7, <2>8
<1>4. \A t \in SUBSET v : G[t] \in Int
  <2> HIDE DEF G
  <2>1. ASSUME NEW t \in SUBSET v
        PROVE  G[t] \in Int
    <3>1. CASE t = {}
      BY <1>2, <3>1
    <3>2. CASE t # {}
      BY <1>3, <3>2
    <3> QED BY <3>1, <3>2
  <2> QED BY <2>1
<1>5. G \in [SUBSET v -> Int]
  BY <1>1, <1>4
<1> HIDE DEF G
<1>6. Adds(G, v, f)
  BY <1>2, <1>3, <1>5 DEF Adds
<1>7. \A x \in v : f[x] = 2 ^ x * (Staged(x) + 1)
  OBVIOUS
<1> HIDE DEF f
<1>8. SumBLSMSK(v) = G
  BY <1>0, <1>6, <1>7, SumBLSMSKIs
<1> QED BY <1>0, <1>1, <1>8, SumsWritten

\* The same with half the weights; of stage 0, the half the shift to the right leaves.
HalfSum(t) ==
  Num(Right(Stage(t, 0), 1)) + Num(Stage(t, 1)) + 2 * Num(Stage(t, 2)) + 4 * Num(Stage(t, 3))
    + 8 * Num(Stage(t, 4))

\* The five stages are twice their halves: nothing is lost by the shift to the right.
LEMMA HalfOf ==
  ASSUME NEW t \in Word(W)
  PROVE  StageSum(t) = 2 * HalfSum(t) /\ HalfSum(t) \in Nat
<1> DEFINE s == Stage(t, 0)
<1>0. W \in Nat /\ 1 \in 0 .. W
  BY Width
<1>1. s \in Word(W) /\ \A k : Stage(t, k) \in Word(W)
  BY DEF Stage, Word
<1>2. Num(s) = Num(s \cap Full(1)) + 2 ^ 1 * Num(Right(s, 1)) /\ Right(s, 1) \in Word(W - 1)
  <2> HIDE DEF s
  <2> QED BY <1>0, <1>1, NumParts
<1>3. s \cap Full(1) = {}
  <2>1. ASSUME 0 \in s
        PROVE  FALSE
    <3>1. (0 \div 2 ^ 0) % 2 = 1
      BY <2>1 DEF Stage
    <3>2. (0 \div 1) % 2 = 0
      OBVIOUS
    <3> QED BY <3>1, <3>2, SmallPowers
  <2>2. Full(1) = {0}
    BY DEF Full
  <2> QED BY <2>1, <2>2
<1>4. Num(Right(s, 1)) \in Nat
  <2>1. W - 1 \in Nat
    BY <1>0
  <2> HIDE DEF s
  <2> QED BY <1>2, <2>1, WordBits
<1>5. Num(s) = 2 * Num(Right(s, 1))
  <2>1. Num(s \cap Full(1)) = 0
    BY <1>3, NumEmpty
  <2>2. Num(s) = 0 + 2 * Num(Right(s, 1))
    <3> HIDE DEF s
    <3> QED BY <1>2, <2>1, SmallPowers
  <2> HIDE DEF s
  <2> QED BY <1>4, <2>2
<1>6. /\ Num(Stage(t, 1)) \in Nat /\ Num(Stage(t, 2)) \in Nat /\ Num(Stage(t, 3)) \in Nat
      /\ Num(Stage(t, 4)) \in Nat
  BY <1>0, <1>1, WordBits
<1> HIDE DEF s
<1>7. /\ StageSum(t) = Num(s) + 2 * Num(Stage(t, 1)) + 4 * Num(Stage(t, 2))
                         + 8 * Num(Stage(t, 3)) + 16 * Num(Stage(t, 4))
      /\ HalfSum(t) = Num(Right(s, 1)) + Num(Stage(t, 1)) + 2 * Num(Stage(t, 2))
                        + 4 * Num(Stage(t, 3)) + 8 * Num(Stage(t, 4))
  BY DEF s, StageSum, HalfSum
<1> QED BY <1>4, <1>5, <1>6, <1>7

\* What ArithmeticContracts sums for the lowest ones is the word and the halves of its stages.
LEMMA LowestSum ==
  ASSUME NEW v \in Word(W)
  PROVE  MapThenSumSet(LAMBDA p : 2 ^ p + (Staged(p) * 2 ^ p) \div 2, v) = Num(v) + HalfSum(v)
<1> DEFINE f == [p \in v |-> 2 ^ p + (Staged(p) * 2 ^ p) \div 2]
           G == [t \in SUBSET v |-> Num(t) + HalfSum(t)]
<1>0. /\ v \in Bits /\ v \in SUBSET Nat /\ IsFiniteSet(v) /\ v \in SUBSET v
      /\ \A t \in SUBSET v : t \in Bits /\ t \in Word(W)
  BY WordPart, WordFinite
<1>1. \A t \in SUBSET v : G[t] = Num(t) + HalfSum(t)
  OBVIOUS
<1>2. G[{}] = 0
  <2>1. 0 = 2 * HalfSum({}) /\ HalfSum({}) \in Nat
    BY <1>0, HalfOf, StageSumEmpty, {} \in SUBSET v
  <2>2. HalfSum({}) = 0
    BY <2>1
  <2> QED BY <1>1, <2>2, NumEmpty, {} \in SUBSET v
<1>3. ASSUME NEW t \in SUBSET v, NEW x \in t
      PROVE  G[t] = f[x] + G[t \ {x}] /\ G[t] \in Int
  <2>0. /\ t \in Bits /\ x \in Nat /\ t \ {x} \in SUBSET v /\ {x} \in SUBSET t
        /\ t \in Word(W) /\ t \ {x} \in Word(W)
    BY <1>0
  <2>1. StageSum(t) = Staged(x) * 2 ^ x + StageSum(t \ {x})
    BY <2>0, StageSumStep
  <2>2. Num(t \ {x}) = Num(t) - Num({x}) /\ Num(t) \in Nat /\ Num(t \ {x}) \in Nat
    BY <2>0, BitsLess
  <2>3. Num({x}) = 2 ^ x /\ 2 ^ x \in Nat /\ Staged(x) \in Nat
    BY <2>0, NumOne, PowerType DEF Staged
  <2>4. /\ StageSum(t) = 2 * HalfSum(t) /\ StageSum(t \ {x}) = 2 * HalfSum(t \ {x})
        /\ HalfSum(t) \in Nat /\ HalfSum(t \ {x}) \in Nat
    BY <2>0, HalfOf
  <2> DEFINE s == Staged(x) * 2 ^ x
  <2>5. \A P, q \in Nat : q * P \in Nat
    OBVIOUS
  <2>6. s \in Nat /\ f[x] = 2 ^ x + s \div 2 /\ 2 * HalfSum(t) = s + 2 * HalfSum(t \ {x})
    <3>1. f[x] = 2 ^ x + s \div 2
      BY x \in v
    <3> HIDE DEF f
    <3> QED BY <2>1, <2>3, <2>4, <2>5, <3>1
  <2> HIDE DEF s, f, G
  <2>7. s \div 2 = HalfSum(t) - HalfSum(t \ {x})
    BY <2>4, <2>6
  <2>8. G[t] = Num(t) + HalfSum(t) /\ G[t \ {x}] = Num(t \ {x}) + HalfSum(t \ {x})
    BY <1>1, <2>0
  <2> QED BY <2>2, <2>3, <2>4, <2>6, <2>7, <2>8
<1>4. \A t \in SUBSET v : G[t] \in Int
  <2> HIDE DEF G
  <2>1. ASSUME NEW t \in SUBSET v
        PROVE  G[t] \in Int
    <3>1. CASE t = {}
      BY <1>2, <3>1
    <3>2. CASE t # {}
      BY <1>3, <3>2
    <3> QED BY <3>1, <3>2
  <2> QED BY <2>1
<1>5. G \in [SUBSET v -> Int]
  BY <1>1, <1>4
<1> HIDE DEF G
<1>6. Adds(G, v, f)
  BY <1>2, <1>3, <1>5 DEF Adds
<1>7. \A x \in v : f[x] = 2 ^ x + (Staged(x) * 2 ^ x) \div 2
  OBVIOUS
<1> HIDE DEF f
<1>8. SumBLSI(v) = G
  BY <1>0, <1>6, <1>7, SumBLSIIs
<1> QED BY <1>0, <1>1, <1>8, SumsWritten

\* The stages, truncated to the word, add up to the sums modulo 2^W.
LEMMA MaskFold ==
  ASSUME NEW v \in Word(W)
  PROVE  \E c \in Int :
           Num(v) + MapThenSumSet(LAMBDA k : Num(Left(W, Stage(v, k), k)), 0 .. 4)
             = (Num(v) + StageSum(v)) + c * 2 ^ W
<1> DEFINE f == [k \in 0 .. 4 |-> Num(Left(W, Stage(v, k), k))]
           N(k) == Num(Stage(v, k))
           P == 2 ^ W
<1>0. W \in Nat /\ P \in Nat /\ Num(v) \in Nat
  BY Width, PowerType, WordBits
<1>1. \A k : Stage(v, k) \in Word(W) /\ Stage(v, k) \in Bits /\ N(k) \in Nat
  <2>1. \A k : Stage(v, k) \in Word(W)
    BY DEF Stage, Word
  <2> QED BY <1>0, <2>1, WordBits
<1>2. ASSUME NEW k \in 0 .. 4
      PROVE  \E q \in Nat : 2 ^ k * N(k) = f[k] + q * P
  <2>1. f[k] = Num(Left(W, Stage(v, k), k)) /\ k \in Nat
    OBVIOUS
  <2>2. \E q \in Nat : 2 ^ k * N(k) = Num(Left(W, Stage(v, k), k)) + q * P
    <3> DEFINE s == Stage(v, k)
    <3>1. s \in Bits
      BY <1>1
    <3> HIDE DEF s
    <3>2. \E q \in Nat : 2 ^ k * Num(s) = Num(Left(W, s, k)) + q * 2 ^ W
      BY <1>0, <2>1, <3>1, NumLeft
    <3> QED BY <3>2 DEF s
  <2> QED BY <2>1, <2>2
<1>3. ASSUME NEW k \in 0 .. 4
      PROVE  f[k] \in Int
  <2>1. f[k] = Num(Left(W, Stage(v, k), k)) /\ Left(W, Stage(v, k), k) \in Word(W)
    BY DEF Left, Word
  <2> QED BY <1>0, <2>1, WordBits
<1>4. f \in [0 .. 4 -> Int]
  <2>1. f = [k \in 0 .. 4 |-> f[k]]
    OBVIOUS
  <2> HIDE DEF f
  <2> QED BY <1>3, <2>1
<1>5. \A k \in 0 .. 4 : f[k] = Num(Left(W, Stage(v, k), k))
  OBVIOUS
<1>6. IsFiniteSet(0 .. 4)
  BY FS_Interval, 0 \in Int, 4 \in Int
<1> HIDE DEF f, N, P
<1>7. PICK G : Adds(G, 0 .. 4, f)
  BY <1>4, <1>6, AddsExists
<1>8. SumStages(v, 0 .. 4) = G
  BY <1>5, <1>6, <1>7, SumStagesIs
<1>9. MapThenSumSet(LAMBDA k : Num(Left(W, Stage(v, k), k)), 0 .. 4)
        = f[0] + f[1] + f[2] + f[3] + f[4]
  BY <1>4, <1>7, <1>8, StageTerms, SumsWritten
<1>10. PICK q0 \in Nat : 2 ^ 0 * N(0) = f[0] + q0 * P
  BY <1>2
<1>11. PICK q1 \in Nat : 2 ^ 1 * N(1) = f[1] + q1 * P
  BY <1>2
<1>12. PICK q2 \in Nat : 2 ^ 2 * N(2) = f[2] + q2 * P
  BY <1>2
<1>13. PICK q3 \in Nat : 2 ^ 3 * N(3) = f[3] + q3 * P
  BY <1>2
<1>14. PICK q4 \in Nat : 2 ^ 4 * N(4) = f[4] + q4 * P
  BY <1>2
<1>15. StageSum(v) = N(0) + 2 * N(1) + 4 * N(2) + 8 * N(3) + 16 * N(4)
  BY DEF StageSum, N
<1> DEFINE c == -(q0 + q1 + q2 + q3 + q4)
<1>16. c * P = -(q0 * P) - q1 * P - q2 * P - q3 * P - q4 * P
  BY <1>0
<1>17. f[0] + f[1] + f[2] + f[3] + f[4] = StageSum(v) + c * P
  <2> DEFINE d0 == q0 * P
             d1 == q1 * P
             d2 == q2 * P
             d3 == q3 * P
             d4 == q4 * P
             e == c * P
  <2>1. /\ d0 \in Nat /\ d1 \in Nat /\ d2 \in Nat /\ d3 \in Nat /\ d4 \in Nat
        /\ e = -d0 - d1 - d2 - d3 - d4
    BY <1>0, <1>16
  <2>2. /\ 1 * N(0) = f[0] + d0 /\ 2 * N(1) = f[1] + d1 /\ 4 * N(2) = f[2] + d2
        /\ 8 * N(3) = f[3] + d3 /\ 16 * N(4) = f[4] + d4
    BY <1>10, <1>11, <1>12, <1>13, <1>14, SmallPowers
  <2>3. /\ N(0) \in Nat /\ N(1) \in Nat /\ N(2) \in Nat /\ N(3) \in Nat /\ N(4) \in Nat
        /\ f[0] \in Int /\ f[1] \in Int /\ f[2] \in Int /\ f[3] \in Int /\ f[4] \in Int
    BY <1>1, <1>3
  <2> HIDE DEF d0, d1, d2, d3, d4, e
  <2>4. f[0] + f[1] + f[2] + f[3] + f[4] = StageSum(v) + e
    BY <1>15, <2>1, <2>2, <2>3
  <2> QED BY <2>4 DEF e
<1>18. StageSum(v) \in Int /\ c \in Int /\ c * P \in Int
  BY <1>0, <1>1, <1>15
<1> HIDE DEF c
<1>19. Num(v) + (StageSum(v) + c * P) = (Num(v) + StageSum(v)) + c * P
  <2> DEFINE e == c * P
  <2>1. e \in Int
    BY <1>18
  <2> HIDE DEF e
  <2>2. Num(v) + (StageSum(v) + e) = (Num(v) + StageSum(v)) + e
    BY <1>0, <1>18, <2>1
  <2> QED BY <2>2 DEF e
<1> QED BY <1>9, <1>17, <1>18, <1>19 DEF P

\* What the code sums for the lowest ones, up to multiples of 2^W.
LEMMA LowestFold ==
  ASSUME NEW v \in Word(W)
  PROVE  \E c \in Int :
           Num(v) + Num(Right(Stage(v, 0), 1))
               + MapThenSumSet(LAMBDA k : Num(Left(W, Stage(v, k), k - 1)), 1 .. 4)
             = (Num(v) + HalfSum(v)) + c * 2 ^ W
<1> DEFINE f == [k \in 0 .. 4 |-> IF k = 0 THEN 0 ELSE Num(Left(W, Stage(v, k), k - 1))]
           N(k) == Num(Stage(v, k))
           h == Num(Right(Stage(v, 0), 1))
           P == 2 ^ W
<1>0. W \in Nat /\ P \in Nat /\ Num(v) \in Nat
  BY Width, PowerType, WordBits
<1>1. \A k : Stage(v, k) \in Word(W) /\ Stage(v, k) \in Bits /\ N(k) \in Nat
  <2>1. \A k : Stage(v, k) \in Word(W)
    BY DEF Stage, Word
  <2> QED BY <1>0, <2>1, WordBits
<1>h. h \in Nat
  <2> DEFINE s == Stage(v, 0)
  <2>1. s \in Word(W) /\ 1 \in 0 .. W /\ W - 1 \in Nat
    BY <1>1, Width
  <2> HIDE DEF s
  <2>2. Right(s, 1) \in Word(W - 1)
    BY <1>0, <2>1, NumParts
  <2>3. Num(Right(s, 1)) \in Nat
    BY <2>1, <2>2, WordBits
  <2> QED BY <2>3 DEF s
<1>2. ASSUME NEW k \in 1 .. 4
      PROVE  \E q \in Nat : 2 ^ (k - 1) * N(k) = f[k] + q * P
  <2>1. f[k] = Num(Left(W, Stage(v, k), k - 1)) /\ k - 1 \in Nat
    OBVIOUS
  <2>2. \E q \in Nat : 2 ^ (k - 1) * N(k) = Num(Left(W, Stage(v, k), k - 1)) + q * P
    <3> DEFINE s == Stage(v, k)
               j == k - 1
    <3>1. s \in Bits /\ j \in Nat
      BY <1>1
    <3> HIDE DEF s, j
    <3>2. \E q \in Nat : 2 ^ j * Num(s) = Num(Left(W, s, j)) + q * 2 ^ W
      BY <1>0, <3>1, NumLeft
    <3> QED BY <3>2 DEF s, j
  <2> QED BY <2>1, <2>2
<1>3. ASSUME NEW k \in 0 .. 4
      PROVE  f[k] \in Int
  <2>1. CASE k = 0
    BY <2>1
  <2>2. CASE k # 0
    <3>1. f[k] = Num(Left(W, Stage(v, k), k - 1)) /\ Left(W, Stage(v, k), k - 1) \in Word(W)
      BY <2>2 DEF Left, Word
    <3> QED BY <1>0, <3>1, WordBits
  <2> QED BY <2>1, <2>2
<1>4. f \in [0 .. 4 -> Int]
  <2>1. f = [k \in 0 .. 4 |-> f[k]]
    OBVIOUS
  <2> HIDE DEF f
  <2> QED BY <1>3, <2>1
<1>5. \A k \in 1 .. 4 : f[k] = Num(Left(W, Stage(v, k), k - 1))
  OBVIOUS
<1>6. IsFiniteSet(0 .. 4) /\ IsFiniteSet(1 .. 4) /\ 1 .. 4 \in SUBSET (0 .. 4)
  <2>1. IsFiniteSet(0 .. 4)
    BY FS_Interval, 0 \in Int, 4 \in Int
  <2>2. IsFiniteSet(1 .. 4)
    BY FS_Interval, 1 \in Int, 4 \in Int
  <2>3. 1 .. 4 \in SUBSET (0 .. 4)
    OBVIOUS
  <2> QED BY <2>1, <2>2, <2>3
<1> HIDE DEF f, N, P, h
<1>7. PICK G : Adds(G, 0 .. 4, f)
  BY <1>4, <1>6, AddsExists
<1> DEFINE H == [s \in SUBSET (1 .. 4) |-> G[s]]
<1>8. Adds(H, 1 .. 4, f) /\ H[1 .. 4] = G[1 .. 4]
  BY <1>6, <1>7, AddsPart
<1> HIDE DEF H
<1>9. SumStagesLess(v, 1 .. 4) = H
  BY <1>5, <1>6, <1>8, SumStagesLessIs
<1>10. MapThenSumSet(LAMBDA k : Num(Left(W, Stage(v, k), k - 1)), 1 .. 4)
         = f[1] + f[2] + f[3] + f[4]
  <2>1. G[1 .. 4] = f[1] + f[2] + f[3] + f[4]
    BY <1>4, <1>7, StageTerms
  <2>2. MapThenSumSet(LAMBDA k : Num(Left(W, Stage(v, k), k - 1)), 1 .. 4)
          = SumStagesLess(v, 1 .. 4)[1 .. 4]
    BY SumsWritten
  <2> QED BY <1>8, <1>9, <2>1, <2>2
<1>11. PICK q1 \in Nat : 2 ^ 0 * N(1) = f[1] + q1 * P
  BY <1>2, 1 \in 1 .. 4, 1 - 1 = 0
<1>12. PICK q2 \in Nat : 2 ^ 1 * N(2) = f[2] + q2 * P
  BY <1>2, 2 \in 1 .. 4, 2 - 1 = 1
<1>13. PICK q3 \in Nat : 2 ^ 2 * N(3) = f[3] + q3 * P
  BY <1>2, 3 \in 1 .. 4, 3 - 1 = 2
<1>14. PICK q4 \in Nat : 2 ^ 3 * N(4) = f[4] + q4 * P
  BY <1>2, 4 \in 1 .. 4, 4 - 1 = 3
<1>15. HalfSum(v) = h + N(1) + 2 * N(2) + 4 * N(3) + 8 * N(4)
  BY DEF HalfSum, N, h
<1> DEFINE c == -(q1 + q2 + q3 + q4)
<1>16. c * P = -(q1 * P) - q2 * P - q3 * P - q4 * P
  BY <1>0
<1>17. h + (f[1] + f[2] + f[3] + f[4]) = HalfSum(v) + c * P
  <2> DEFINE d1 == q1 * P
             d2 == q2 * P
             d3 == q3 * P
             d4 == q4 * P
             e == c * P
  <2>1. /\ d1 \in Nat /\ d2 \in Nat /\ d3 \in Nat /\ d4 \in Nat
        /\ e = -d1 - d2 - d3 - d4
    BY <1>0, <1>16
  <2>2. /\ 1 * N(1) = f[1] + d1 /\ 2 * N(2) = f[2] + d2
        /\ 4 * N(3) = f[3] + d3 /\ 8 * N(4) = f[4] + d4
    BY <1>11, <1>12, <1>13, <1>14, SmallPowers
  <2>3. /\ N(1) \in Nat /\ N(2) \in Nat /\ N(3) \in Nat /\ N(4) \in Nat
        /\ f[1] \in Int /\ f[2] \in Int /\ f[3] \in Int /\ f[4] \in Int
    BY <1>1, <1>3
  <2> HIDE DEF d1, d2, d3, d4, e
  <2>4. h + (f[1] + f[2] + f[3] + f[4]) = HalfSum(v) + e
    BY <1>h, <1>15, <2>1, <2>2, <2>3
  <2> QED BY <2>4 DEF e
<1>18. HalfSum(v) \in Int /\ c \in Int /\ c * P \in Int
  BY <1>0, <1>1, <1>h, <1>15
<1>f. f[1] + f[2] + f[3] + f[4] \in Int
  BY <1>3
<1> HIDE DEF c
<1>19. (Num(v) + h) + (f[1] + f[2] + f[3] + f[4]) = (Num(v) + HalfSum(v)) + c * P
  <2> DEFINE e == c * P
             g == f[1] + f[2] + f[3] + f[4]
  <2>1. e \in Int /\ g \in Int /\ h + g = HalfSum(v) + e
    BY <1>f, <1>17, <1>18
  <2> HIDE DEF e, g
  <2>2. (Num(v) + h) + g = (Num(v) + HalfSum(v)) + e
    BY <1>0, <1>h, <1>18, <2>1
  <2> QED BY <2>2 DEF e, g
<1> QED BY <1>10, <1>18, <1>19 DEF P, h

\* The staged formulas give every bit its weight.
LEMMA PartialSumsHold ==
  ASSUME NEW v \in Word(W)
  PROVE  /\ PartialSumBLSMSK(v) =
              Bin(W, MapThenSumSet(LAMBDA p : 2 ^ p * (Staged(p) + 1), v))
         /\ PartialSumBLSI(v) =
              Bin(W, MapThenSumSet(LAMBDA p : 2 ^ p + (Staged(p) * 2 ^ p) \div 2, v))
<1>0. W \in Nat /\ Num(v) \in Nat /\ HalfSum(v) \in Nat /\ StageSum(v) \in Int
  <2>1. W \in Nat /\ Num(v) \in Nat
    BY Width, WordBits
  <2>2. StageSum(v) = 2 * HalfSum(v) /\ HalfSum(v) \in Nat
    BY HalfOf
  <2> QED BY <2>1, <2>2
<1>1. PICK c \in Int :
        Num(v) + MapThenSumSet(LAMBDA k : Num(Left(W, Stage(v, k), k)), 0 .. 4)
          = (Num(v) + StageSum(v)) + c * 2 ^ W
  BY MaskFold
<1>2. Bin(W, (Num(v) + StageSum(v)) + c * 2 ^ W) = Bin(W, Num(v) + StageSum(v))
  <2> DEFINE n == Num(v) + StageSum(v)
  <2>1. n \in Int
    BY <1>0
  <2> HIDE DEF n
  <2>2. Bin(W, n + c * 2 ^ W) = Bin(W, n)
    BY <1>0, <2>1, BinMod
  <2> QED BY <2>2 DEF n
<1>3. PartialSumBLSMSK(v) = Bin(W, Num(v) + StageSum(v))
  BY <1>1, <1>2 DEF PartialSumBLSMSK
<1>4. PICK d \in Int :
        Num(v) + Num(Right(Stage(v, 0), 1))
            + MapThenSumSet(LAMBDA k : Num(Left(W, Stage(v, k), k - 1)), 1 .. 4)
          = (Num(v) + HalfSum(v)) + d * 2 ^ W
  BY LowestFold
<1>5. Bin(W, (Num(v) + HalfSum(v)) + d * 2 ^ W) = Bin(W, Num(v) + HalfSum(v))
  <2> DEFINE n == Num(v) + HalfSum(v)
  <2>1. n \in Int
    BY <1>0
  <2> HIDE DEF n
  <2>2. Bin(W, n + d * 2 ^ W) = Bin(W, n)
    BY <1>0, <2>1, BinMod
  <2> QED BY <2>2 DEF n
<1>6. PartialSumBLSI(v) = Bin(W, Num(v) + HalfSum(v))
  BY <1>4, <1>5 DEF PartialSumBLSI
<1> QED BY <1>3, <1>6, MaskSum, LowestSum

\* Different words are different numbers, of either type.
LEMMA NumInjective ==
  ASSUME NEW w \in Nat, NEW s \in Word(w), NEW t \in Word(w), Num(s) = Num(t)
  PROVE  s = t
<1>1. Bin(w, Num(s) + 0 * 2 ^ w) = s
  BY BinNum, 0 \in Int, Zenon
<1>2. Bin(w, Num(t) + 0 * 2 ^ w) = t
  BY BinNum, 0 \in Int, Zenon
<1> QED BY <1>1, <1>2

\* Where the sign bit is, by the number.
LEMMA TopBit ==
  ASSUME NEW s \in Word(W)
  PROVE  /\ Num(s) \in 0 .. 2 ^ W - 1
         /\ 2 ^ W = 2 * 2 ^ (W - 1) /\ 2 ^ (W - 1) \in Nat /\ 2 ^ W \in Nat
         /\ W - 1 \in s <=> Num(s) >= 2 ^ (W - 1)
<1> DEFINE k == W - 1
           H == 2 ^ k
<1>0. W \in Nat /\ k \in Nat /\ k + 1 = W
  BY Width
<1>1. 2 ^ (k + 1) = 2 * H /\ H \in Nat
  <2> HIDE DEF k
  <2> QED BY <1>0, Double, PowerType
<1>2. Num(s) \in 0 .. 2 ^ W - 1
  BY <1>0, NumBound
<1>3. s \in Bits
  BY <1>0, WordBits
<1>4. CASE k \in s
  <2>1. {k} \in SUBSET s /\ Num({k}) = H
    BY <1>0, <1>4, NumOne
  <2>2. Num(s \ {k}) = Num(s) - Num({k}) /\ Num(s \ {k}) \in Nat /\ Num(s) \in Nat
    <3> HIDE DEF k
    <3> QED BY <1>3, <2>1, BitsLess
  <2>3. Num(s) >= H
    BY <1>1, <2>1, <2>2
  <2> QED BY <1>0, <1>1, <1>2, <1>4, <2>3
<1>5. CASE k \notin s
  <2>1. s \in Word(k)
    BY <1>0, <1>5 DEF Word, Full
  <2>2. Num(s) \in 0 .. H - 1
    <3> HIDE DEF k
    <3> QED BY <1>0, <2>1, NumBound
  <2>3. ~(Num(s) >= H)
    BY <1>1, <2>2
  <2> QED BY <1>0, <1>1, <1>2, <1>5, <2>3
<1> QED BY <1>4, <1>5

\* Different words are different signed numbers.
LEMMA SignedInjective ==
  ASSUME NEW s \in Word(W), NEW t \in Word(W)
  PROVE  Signed(W, s) \in Int /\ (Signed(W, s) = Signed(W, t) => s = t)
<1>0. W \in Nat
  BY Width
<1> DEFINE P == 2 ^ W
           H == 2 ^ (W - 1)
<1>1. /\ Num(s) \in 0 .. P - 1 /\ P = 2 * H /\ H \in Nat
      /\ (W - 1 \in s <=> Num(s) >= H)
  BY TopBit
<1>2. Num(t) \in 0 .. P - 1 /\ (W - 1 \in t <=> Num(t) >= H)
  BY TopBit
<1>3. /\ Signed(W, s) = IF W - 1 \in s THEN Num(s) - P ELSE Num(s)
      /\ Signed(W, t) = IF W - 1 \in t THEN Num(t) - P ELSE Num(t)
  BY DEF Signed
<1> HIDE DEF P, H
<1>4. Signed(W, s) \in Int
  BY <1>1, <1>3
<1>5. Signed(W, s) = Signed(W, t) => Num(s) = Num(t)
  BY <1>1, <1>2, <1>3
<1> QED BY <1>0, <1>4, <1>5, NumInjective

\* The larger and the smaller of two words, by a mask.
LEMMA MaxMinHold ==
  ASSUME NEW s \in Word(W), NEW t \in Word(W), NEW signed \in BOOLEAN
  PROVE  /\ {max(signed, s, t), min(signed, s, t)} = {s, t}
         /\ ~Less(signed, max(signed, s, t), min(signed, s, t))
<1> DEFINE v(x) == IF signed THEN Signed(W, x) ELSE Num(x)
<1>1. v(s) \in Int /\ v(t) \in Int /\ (v(s) = v(t) => s = t)
  BY Width, WordBits, NumInjective, SignedInjective
<1>2. \A x, y : Less(signed, x, y) <=> v(x) < v(y)
  BY DEF Less
<1>3. \A x, y \in Word(W) : select(x, y, TRUE) = y /\ select(x, y, FALSE) = x
  <2> TAKE x, y \in Word(W)
  <2>1. Complement(W, AllOnes) = {} /\ Complement(W, {}) = AllOnes
    BY DEF Complement, AllOnes
  <2>2. select(x, y, TRUE) = ({} \cap x) \cup (y \cap AllOnes)
    BY <2>1, Masks DEF select
  <2>3. select(x, y, FALSE) = (AllOnes \cap x) \cup (y \cap {})
    BY <2>1, Masks DEF select
  <2> QED BY <2>2, <2>3 DEF AllOnes, Word
<1> HIDE DEF v
<1>4. CASE v(s) < v(t)
  <2>1. Less(signed, s, t) = TRUE /\ Less(signed, t, s) = FALSE
    BY <1>1, <1>2, <1>4 DEF Less
  <2>2. max(signed, s, t) = t /\ min(signed, s, t) = s
    BY <1>3, <2>1 DEF max, min
  <2> QED BY <2>1, <2>2
<1>5. CASE v(t) < v(s)
  <2>1. Less(signed, s, t) = FALSE /\ Less(signed, t, s) = TRUE
    BY <1>1, <1>2, <1>5 DEF Less
  <2>2. max(signed, s, t) = s /\ min(signed, s, t) = t
    BY <1>3, <2>1 DEF max, min
  <2> QED BY <2>1, <2>2
<1>6. CASE v(s) = v(t)
  <2>1. Less(signed, s, t) = FALSE /\ Less(signed, t, s) = FALSE /\ s = t
    BY <1>1, <1>2, <1>6 DEF Less
  <2>2. max(signed, s, t) = s /\ min(signed, s, t) = s
    BY <1>3, <2>1 DEF max, min
  <2> QED BY <2>1, <2>2
<1> QED BY <1>1, <1>4, <1>5, <1>6

\* The magnitude, of the lowest value too.
LEMMA AbsHolds ==
  ASSUME NEW v \in Word(W)
  PROVE  Signed(W, abs(v)) =
           IF Signed(W, v) >= 0 \/ Signed(W, v) = -(2 ^ (W - 1))
           THEN Signed(W, v) ELSE -Signed(W, v)
<1> DEFINE P == 2 ^ W
           H == 2 ^ (W - 1)
           sign == Right(v, W - 1)
           mask == Minus(W, Zero, sign)
<1>0. W \in Nat /\ W - 1 \in Nat /\ v \in SUBSET (0 .. W - 1) /\ 0 \in 0 .. W - 1
  BY Width DEF Word, Full
<1>1. Num(v) \in 0 .. P - 1 /\ P = 2 * H /\ H \in Nat /\ P \in Nat
      /\ (W - 1 \in v <=> Num(v) >= H)
  BY TopBit
<1>2. Signed(W, v) = IF W - 1 \in v THEN Num(v) - P ELSE Num(v)
  BY DEF Signed
<1>3. abs(v) = Plus(W, Xor(v, mask), sign)
  BY DEF abs
<1>4. CASE W - 1 \notin v
  <2>1. sign = {}
    BY <1>0, <1>4 DEF Right
  <2>2. Minus(W, {}, {}) = {}
    <3>1. {} \in Word(W) /\ Num({}) - Num({}) = Num({})
      BY NumEmpty DEF Word
    <3> QED BY <1>0, <3>1, MinusIs
  <2>3. mask = {}
    BY <2>1, <2>2 DEF Zero
  <2>4. Plus(W, v, {}) = v
    <3>1. Num(v) + Num({}) = Num(v)
      BY <1>1, NumEmpty
    <3> QED BY <1>0, <3>1, PlusIs
  <2>5. abs(v) = v
    BY <1>3, <2>1, <2>3, <2>4 DEF Xor
  <2>6. Signed(W, v) >= 0
    BY <1>1, <1>2, <1>4
  <2> QED BY <2>5, <2>6
<1>5. CASE W - 1 \in v
  <2>1. sign = {0}
    <3>1. \A b \in v : b >= W - 1 <=> b = W - 1
      BY <1>0
    <3>2. {c \in v : c >= W - 1} = {W - 1}
      BY <1>5, <3>1
    <3>3. (W - 1) - (W - 1) = 0
      BY <1>0
    <3> QED BY <3>2, <3>3 DEF Right
  <2>2. mask = AllOnes
    <3>1. {0} \in Word(W) /\ AllOnes \in Word(W)
      BY <1>0 DEF Word, Full, AllOnes
    <3>2. Num({}) = 0 /\ Num({0}) = 1 /\ Num(AllOnes) = P - 1
      <4>1. Num({0}) = 2 ^ 0
        BY NumOne, 0 \in Nat
      <4> QED BY <1>0, <4>1, NumEmpty, NumBelow, SmallPowers DEF AllOnes, Full
    <3>3. Num({}) - Num({0}) = Num(AllOnes) - 2 ^ W
      BY <1>1, <3>2
    <3>4. Minus(W, {}, {0}) = AllOnes
      BY <1>0, <3>1, <3>3, MinusIs
    <3> QED BY <2>1, <3>4 DEF Zero
  <2> DEFINE u == AllOnes \ v
             r == Plus(W, u, {0})
  <2>3. Xor(v, mask) = u
    BY <1>0, <2>2 DEF Xor, AllOnes, Full
  <2>4. abs(v) = r
    BY <1>3, <2>1, <2>3
  <2>5. Num(u) = (P - 1) - Num(v)
    <3>1. v \in SUBSET AllOnes /\ AllOnes \in Bits
      BY <1>0, WordBits DEF AllOnes, Full, Word
    <3>2. Num(AllOnes) = P - 1
      BY <1>0, NumBelow DEF AllOnes, Full
    <3> QED BY <3>1, <3>2, BitsLess
  <2>6. Num({0}) = 1
    <3>1. Num({0}) = 2 ^ 0
      BY NumOne, 0 \in Nat
    <3> QED BY <3>1, SmallPowers
  <2>7. r \in Word(W) /\ Num(r) = P - Num(v)
    <3> DEFINE n == P - Num(v)
    <3>1. n \in 0 .. 2 ^ W - 1 /\ Num(u) + Num({0}) = n
      <4> HIDE DEF u
      <4>1. n \in 0 .. P - 1 /\ Num(u) + Num({0}) = n
        <5> HIDE DEF P, H
        <5> QED BY <1>1, <1>5, <2>5, <2>6
      <4> QED BY <4>1
    <3> HIDE DEF u, n
    <3>2. r \in Word(W) /\ Num(r) = n
      BY <1>0, <3>1, PlusFits
    <3> QED BY <3>2 DEF n
  <2> HIDE DEF r
  <2>8. Signed(W, r) = (IF Num(r) >= H THEN Num(r) - P ELSE Num(r))
    <3>1. W - 1 \in r <=> Num(r) >= H
      BY <2>7, TopBit
    <3> QED BY <3>1 DEF Signed
  <2> HIDE DEF P, H
  <2>9. Signed(W, v) = Num(v) - P
    BY <1>2, <1>5
  <2>10. Signed(W, r) = (IF Signed(W, v) >= 0 \/ Signed(W, v) = -H
                         THEN Signed(W, v) ELSE -Signed(W, v))
    BY <1>1, <1>5, <2>7, <2>8, <2>9
  <2> QED BY <2>4, <2>10 DEF H
<1> QED BY <1>4, <1>5

\* Minimum, maximum, absolute value and the partial sums keep their contracts.
LEMMA ArithmeticHold ==
  ASSUME rest \in Word(W)
  PROVE  ArithmeticContracts
<1>1. Signed(W, abs(rest)) =
        LET v == Signed(W, rest) IN
        IF v >= 0 \/ v = -(2 ^ (W - 1)) THEN v ELSE -v
  BY AbsHolds
<1>2. \A m \in Word(W), signed \in BOOLEAN :
        /\ {max(signed, rest, m), min(signed, rest, m)} = {rest, m}
        /\ ~Less(signed, max(signed, rest, m), min(signed, rest, m))
  BY MaxMinHold
<1> QED BY <1>1, <1>2, PartialSumsHold DEF ArithmeticContracts

\* Every helper does at every word of every width what its contract says.
THEOREM ContractsAreKept == Spec => []ContractsHold
<1>1. ScanInv => ContractsHold
  BY TrailingHold, LeadingHold, RunHold, StageHold, BoundaryHold, ArithmeticHold
     DEF ScanInv, ContractsHold
<1> QED BY <1>1, ScanInit, ScanNext, PTL DEF Spec

===============================================================================
