-------------------------------- MODULE Words --------------------------------
(***************************************************************************)
(* Unsigned machine words.  A word of w bits is the set of the positions   *)
(* of its one-bits, a subset of 0..w-1: the bitwise operators of the code  *)
(* are then \cap, \cup and \, and its arithmetic is that of the numbers    *)
(* the sets stand for, modulo 2^w.                                         *)
(***************************************************************************)
EXTENDS Integers, FiniteSets, FiniteSetsExt

Full(w) == 0 .. w - 1

Word(w) == SUBSET Full(w)

\* The number a word stands for, and the word of a number: a negative one is
\* reduced modulo 2^w like any other, which is two's complement.
Num(s) == MapThenSumSet(LAMBDA b : 2 ^ b, s)

Bin(w, n) == {b \in Full(w) : (n \div 2 ^ b) % 2 = 1}

\* The number the same bits stand for in the signed type of that width.
Signed(w, s) == IF w - 1 \in s THEN Num(s) - 2 ^ w ELSE Num(s)

Complement(w, s) == Full(w) \ s

Xor(s, t) == (s \ t) \cup (t \ s)

\* value << k and value >> k on unsigned words, and >> on signed ones.
Left(w, s, k) == {b + k : b \in s} \cap Full(w)

Right(s, k) == {b - k : b \in {c \in s : c >= k}}

RightSigned(w, s, k) ==
  {b \in Full(w) : IF b + k < w THEN b + k \in s ELSE w - 1 \in s}

Plus(w, s, t) == Bin(w, Num(s) + Num(t))

Minus(w, s, t) == Bin(w, Num(s) - Num(t))

Times(w, s, t) == Bin(w, Num(s) * Num(t))

\* The functions of <bit>: popcount is Cardinality.  A width counts the positions
\* up to the highest one-bit.
BitWidth(s) == Cardinality(UNION {0 .. b : b \in s})

BitFloor(s) == IF s = {} THEN {} ELSE {Max(s)}
===============================================================================
