------------------------- MODULE MCPartialRegister -------------------------
(***************************************************************************)
(* Small partial registers: one group of four lanes, all but one active;   *)
(* two unsigned lanes of two bits, one active; four signed lanes of two    *)
(* bits, two active; two groups of two lanes, the high group half active.  *)
(***************************************************************************)
EXTENDS PartialRegister, FiniteSetsExt

Number(x) == SumSet({2 ^ i : i \in x})
Bitset(n, w) == {i \in 0 .. w - 1 : (n \div 2 ^ i) % 2 = 1}
LimitTo(n, w) == IF n > 2 ^ w - 1 THEN 2 ^ w - 1 ELSE IF n < 0 THEN 0 ELSE n

\* Unsigned lanes; the sign bit is the highest.  -0 is the sign bit alone.
LaneFunction(n, w, x, y) ==
  LET a == Number(x)
      b == Number(y)
  IN  CASE n = "add" -> Bitset((a + b) % 2 ^ w, w)
        [] n = "subtract" -> Bitset((a - b) % 2 ^ w, w)
        [] n = "multiply" -> Bitset((a * b) % 2 ^ w, w)
        [] n = "min" -> IF a <= b THEN x ELSE y
        [] n = "max" -> IF a >= b THEN x ELSE y
        [] n = "average" -> Bitset((a + b + 1) \div 2, w)
        [] n = "add_saturated" -> Bitset(LimitTo(a + b, w), w)
        [] n = "subtract_saturated" -> Bitset(LimitTo(a - b, w), w)
        [] n = "absolute" -> IF w - 1 \in x THEN Bitset(2 ^ w - a, w) ELSE x
        [] n = "sqrt" -> Bitset(CHOOSE r \in 0 .. a : r * r <= a /\ a < (r + 1) * (r + 1), w)
        [] n = "subtract_float" -> IF a = b THEN {w - 1} ELSE Bitset((a - b) % 2 ^ w, w)
        [] n = "negate" -> (x \ {w - 1}) \cup ({w - 1} \ x)
        [] n = "divide" -> IF b = 0 THEN {} ELSE Bitset(a \div b, w)
        [] n = "modulus" -> IF b = 0 THEN {} ELSE Bitset(a % b, w)

LaneTable ==
  [w \in 1 .. 2 |->
     [n \in Preserving \cup Disturbing \cup Dividing |->
        [x, y \in SUBSET (0 .. w - 1) |-> LaneFunction(n, w, x, y)]]]

MCLaneOp(w, n, x, y) == LaneTable[w][n][x, y]

\* Rotation, reversal and broadcast of the active lanes; a native register with
\* every pattern in its active lanes and all ones or zeros behind them.
Shape(g, gl, w, k, sign) ==
  LET active == 0 .. k - 1
      half == 0 .. gl \div 2 - 1
      all == 0 .. g * gl * w - 1
      live == 0 .. k * w - 1
  IN  [groups |-> g, group_lanes |-> gl, width |-> w, active |-> k, signed |-> sign,
       selectors |-> {[l \in active |-> (l + 1) % k], [l \in active |-> k - 1 - l],
                      [l \in active |-> k - 1]},
       half_selectors |-> {[l \in half |-> gl \div 2 - 1 - l], [l \in half |-> gl \div 2 - 1]},
       choices |-> {{}, {l \in 0 .. g * gl - 1 : l % 2 = 0}, 0 .. g * gl - 1},
       natives |-> {n \cup pad : n \in SUBSET live, pad \in {{}, all \ live}}]

MCShapes == {Shape(1, 4, 1, 3, FALSE), Shape(1, 2, 2, 1, FALSE), Shape(1, 4, 2, 2, TRUE),
             Shape(2, 2, 1, 3, FALSE)}
=============================================================================
