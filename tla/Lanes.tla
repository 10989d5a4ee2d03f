-------------------------------- MODULE Lanes --------------------------------
(***************************************************************************)
(* The instructions of the x86 vector units that the implementation is     *)
(* made of, lane by lane.  A register is a function from its lanes,        *)
(* 0 .. N-1, to naturals below 2^w; N lanes are one or two halves of n.    *)
(***************************************************************************)
EXTENDS Integers, FiniteSets, Words

Ones(w) == 2 ^ w - 1
SignBit(w) == 2 ^ (w - 1)

\* The number a lane stands for in a signed (s) or unsigned type, and the lane a
\* number is stored in.
Value(s, w, x) == IF s /\ x >= SignBit(w) THEN x - 2 ^ w ELSE x
Lane(w, i) == i % 2 ^ w

Lowest(s, w) == IF s THEN -SignBit(w) ELSE 0
Highest(s, w) == IF s THEN SignBit(w) - 1 ELSE Ones(w)

Saturate(s, w, i) ==
  Lane(w, CASE i < Lowest(s, w)  -> Lowest(s, w)
            [] i > Highest(s, w) -> Highest(s, w)
            [] OTHER             -> i)

LanesOf(v) == Cardinality(DOMAIN v)
First(n) == 0 .. n - 1

set1(v, x) == [k \in DOMAIN v |-> x]

\* Lane by lane on the values.
Each(Op(_), s, w, a) == [k \in DOMAIN a |-> Op(Value(s, w, a[k]))]
Zip(Op(_, _), s, w, a, b) ==
  [k \in DOMAIN a |-> Op(Value(s, w, a[k]), Value(s, w, b[k]))]

Truth(w, holds) == IF holds THEN Ones(w) ELSE 0

add(w, a, b) == Zip(LAMBDA x, y : Lane(w, x + y), FALSE, w, a, b)
sub(w, a, b) == Zip(LAMBDA x, y : Lane(w, x - y), FALSE, w, a, b)
mullo(w, a, b) == Zip(LAMBDA x, y : Lane(w, x * y), FALSE, w, a, b)
adds(s, w, a, b) == Zip(LAMBDA x, y : Saturate(s, w, x + y), s, w, a, b)
subs(s, w, a, b) == Zip(LAMBDA x, y : Saturate(s, w, x - y), s, w, a, b)
cmpeq(w, a, b) == Zip(LAMBDA x, y : Truth(w, x = y), FALSE, w, a, b)
cmpgt(w, a, b) == Zip(LAMBDA x, y : Truth(w, x > y), TRUE, w, a, b)
min(s, w, a, b) == Zip(LAMBDA x, y : Lane(w, IF x < y THEN x ELSE y), s, w, a, b)
max(s, w, a, b) == Zip(LAMBDA x, y : Lane(w, IF x > y THEN x ELSE y), s, w, a, b)
avg(w, a, b) == Zip(LAMBDA x, y : (x + y + 1) \div 2, FALSE, w, a, b)
abs(w, a) == Each(LAMBDA x : Lane(w, IF x < 0 THEN -x ELSE x), TRUE, w, a)

\* Bit by bit: on the positions of the ones, which tell the number.
OnesAt(w, positions) == CHOOSE x \in 0 .. Ones(w) : Bin(w, x) = positions

and(w, a, b) == [k \in DOMAIN a |-> OnesAt(w, Bin(w, a[k]) \cap Bin(w, b[k]))]
or(w, a, b) == [k \in DOMAIN a |-> OnesAt(w, Bin(w, a[k]) \cup Bin(w, b[k]))]
xor(w, a, b) == [k \in DOMAIN a |-> OnesAt(w, Xor(Bin(w, a[k]), Bin(w, b[k])))]
andnot(w, a, b) == [k \in DOMAIN a |-> OnesAt(w, Bin(w, b[k]) \ Bin(w, a[k]))]

\* A count of the lane's width or more leaves nothing, or the sign.
slli(w, a, c) == [k \in DOMAIN a |-> IF c >= w THEN 0 ELSE Lane(w, a[k] * 2 ^ c)]
srli(w, a, c) == [k \in DOMAIN a |-> IF c >= w THEN 0 ELSE a[k] \div 2 ^ c]
srai(w, a, c) ==
  LET shift == IF c >= w THEN w - 1 ELSE c
  IN  Each(LAMBDA x : Lane(w, x \div 2 ^ shift), TRUE, w, a)

\* The masks of the code are all ones or zero in a lane: its top bit decides.
blendv(w, a, b, mask) ==
  [k \in DOMAIN a |-> IF mask[k] >= SignBit(w) THEN b[k] ELSE a[k]]

-------------------------------------------------------------------------------
\* The same bits as lanes of twice and of half the width, and values carried over
\* to lanes of twice the width.

wide(w, a) ==
  [k \in First(LanesOf(a) \div 2) |-> a[2 * k] + 2 ^ w * a[2 * k + 1]]
narrow(w, a) ==
  [k \in First(2 * LanesOf(a)) |->
     IF k % 2 = 0 THEN a[k \div 2] % 2 ^ w ELSE a[k \div 2] \div 2 ^ w]

cvt(s, w, a) == Each(LAMBDA x : Lane(2 * w, x), s, w, a)
packs(s, w, n, a, b) ==
  [k \in First(2 * LanesOf(a)) |->
     LET h == k \div (2 * n)
         j == k % (2 * n)
     IN  Saturate(s, w, Value(TRUE, 2 * w, IF j < n THEN a[h * n + j] ELSE b[h * n + j - n]))]

\* The product of the even lanes, and the sum of adjacent products.
mul(s, w, a, b) ==
  [k \in First(LanesOf(a) \div 2) |->
     Lane(2 * w, Value(s, w, a[2 * k]) * Value(s, w, b[2 * k]))]
madd(w, a, b) ==
  [k \in First(LanesOf(a) \div 2) |->
     Lane(2 * w, Value(TRUE, w, a[2 * k]) * Value(TRUE, w, b[2 * k])
                 + Value(TRUE, w, a[2 * k + 1]) * Value(TRUE, w, b[2 * k + 1]))]

\* Adjacent pairs of a, then of b, in each half of n lanes.
Horizontal(Op(_, _), n, a, b) ==
  [k \in DOMAIN a |->
     LET first == (k - (k % n)) + 2 * (k % (n \div 2))
     IN  IF k % n < n \div 2 THEN Op(a[first], a[first + 1]) ELSE Op(b[first], b[first + 1])]
hadd(w, n, a, b) == Horizontal(LAMBDA x, y : Lane(w, x + y), n, a, b)
hsub(w, n, a, b) == Horizontal(LAMBDA x, y : Lane(w, x - y), n, a, b)
hadds(w, n, a, b) ==
  Horizontal(LAMBDA x, y : Saturate(TRUE, w, Value(TRUE, w, x) + Value(TRUE, w, y)), n, a, b)
hsubs(w, n, a, b) ==
  Horizontal(LAMBDA x, y : Saturate(TRUE, w, Value(TRUE, w, x) - Value(TRUE, w, y)), n, a, b)

-------------------------------------------------------------------------------
\* Moves.  What crosses the end of a half is lost; the selectors of a byte shuffle
\* count within the half, and one with its top bit set selects zero.

lower(n, v) == [k \in First(n) |-> v[k]]
upper(n, v) == [k \in First(n) |-> v[n + k]]
join(n, lo, hi) == [k \in First(2 * n) |-> IF k < n THEN lo[k] ELSE hi[k - n]]

bslli(n, v, c) ==
  [k \in DOMAIN v |-> IF k % n >= c THEN v[k - c] ELSE 0]
bsrli(n, v, c) ==
  [k \in DOMAIN v |-> IF (k % n) + c < n THEN v[k + c] ELSE 0]
alignr(n, hi, lo, c) ==
  [k \in DOMAIN hi |-> IF (k % n) + c < n THEN lo[k + c] ELSE hi[k + c - n]]

pshufb(n, v, control) ==
  [k \in DOMAIN v |-> IF control[k] >= 128 THEN 0 ELSE v[(k - (k % n)) + (control[k] % n)]]
permute4x64(v, order) ==
  LET q == LanesOf(v) \div 4 IN [k \in DOMAIN v |-> v[order[(k \div q) + 1] * q + (k % q)]]

\* The lanes whose top bit is set.
movemask(w, v) == {k \in DOMAIN v : v[k] >= SignBit(w)}
===============================================================================
