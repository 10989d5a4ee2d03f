----------------------------- MODULE WideInteger -----------------------------
(***************************************************************************)
(* What uint128_t promises: one unsigned integer of Width bits with the    *)
(* built-in types' arithmetic modulo 2^Width, shifts that are total, and   *)
(* the functions of <bit>.  A client calls, and the call returns: it       *)
(* replaces the integer or answers a question about it.                    *)
(***************************************************************************)
EXTENDS Words

CONSTANTS Width, IndexBits

VARIABLES
  value,      \* the integer
  call,       \* the call under way, or NoCall
  answer      \* of the last question, or NoAnswer

vars == <<value, call, answer>>

NoCall == [op |-> "none"]
NoAnswer == Width + 1

Sign(n) == IF n < 0 THEN -1 ELSE IF n > 0 THEN 1 ELSE 0

-------------------------------------------------------------------------------
\* The calls.

Arithmetic == {"add", "subtract", "abs_diff"}
Logic == {"and", "or", "xor"}
Steps == {"negate", "increment", "decrement"}
Powers == {"bit_ceil", "bit_floor"}
Shifts == {"shift_left", "shift_right"}
Questions == {"popcount", "countr_zero", "countr_one", "countl_zero", "countl_one",
              "bit_width", "has_single_bit"}
Comparisons == {"compare_scalar", "equals_scalar"}

Counts == -1 .. 2 * Width + 1
Indices == 0 .. 2 ^ IndexBits - 1
Scalars == -(2 ^ (Width \div 2 - 1)) .. 2 ^ (Width \div 2) - 1

Calls ==
  [op : Arithmetic \cup Logic \cup {"compare"}, rhs : Word(Width)]
  \cup [op : {"not"} \cup Steps \cup Powers \cup Questions]
  \cup [op : Shifts, count : Counts]
  \cup [op : {"create_mask"}, width : Counts]
  \cup [op : {"create_mask_at"}, width : 0 .. Width, offset : Counts]
  \cup [op : {"bextr"}, start : Indices, len : Indices]
  \cup [op : {"assign"} \cup Comparisons, scalar : Scalars]

-------------------------------------------------------------------------------
\* What they mean.

AtLeastZero(n) == IF n < 0 THEN 0 ELSE n

NewBits(v, c) ==
  CASE c.op = "and"            -> v \cap c.rhs
    [] c.op = "or"             -> v \cup c.rhs
    [] c.op = "xor"            -> Xor(v, c.rhs)
    [] c.op = "not"            -> Complement(Width, v)
    [] c.op = "shift_left"     -> Left(Width, v, AtLeastZero(c.count))
    [] c.op = "shift_right"    -> Right(v, AtLeastZero(c.count))
    [] c.op = "create_mask"    -> {b \in Full(Width) : b < c.width}
    [] c.op = "create_mask_at" -> Left(Width, Full(c.width), AtLeastZero(c.offset))
    [] c.op = "bextr"          -> {b \in Right(v, c.start) : b < c.len}

NewNumber(v, c) ==
  CASE c.op = "add"       -> Num(v) + Num(c.rhs)
    [] c.op = "subtract"  -> Num(v) - Num(c.rhs)
    [] c.op = "abs_diff"  -> IF Num(v) > Num(c.rhs) THEN Num(v) - Num(c.rhs)
                             ELSE Num(c.rhs) - Num(v)
    [] c.op = "negate"    -> -Num(v)
    [] c.op = "increment" -> Num(v) + 1
    [] c.op = "decrement" -> Num(v) - 1
    [] c.op = "bit_floor" -> Num(BitFloor(v))
    [] c.op = "bit_ceil"  ->       \* 2^Width, hence 0, when none fits
         CHOOSE p \in {2 ^ k : k \in 0 .. Width} :
           p >= Num(v) /\ (p = 1 \/ p \div 2 < Num(v))

TrailingZeros(v) == IF v = {} THEN Width ELSE Min(v)
LeadingZeros(v) == Width - BitWidth(v)

Answer(v, c) ==
  CASE c.op = "compare"        -> Sign(Num(v) - Num(c.rhs))
    [] c.op = "compare_scalar" -> Sign(Num(v) - c.scalar)
    [] c.op = "equals_scalar"  -> IF Num(v) = c.scalar THEN 1 ELSE 0
    [] c.op = "has_single_bit" -> IF \E b \in v : v = {b} THEN 1 ELSE 0
    [] c.op = "popcount"       -> Cardinality(v)
    [] c.op = "countr_zero"    -> TrailingZeros(v)
    [] c.op = "countr_one"     -> TrailingZeros(Full(Width) \ v)
    [] c.op = "countl_zero"    -> LeadingZeros(v)
    [] c.op = "countl_one"     -> LeadingZeros(Full(Width) \ v)
    [] c.op = "bit_width"      -> BitWidth(v)

BitCalls == Logic \cup Shifts \cup {"not", "create_mask", "create_mask_at", "bextr"}
NumberCalls == Arithmetic \cup Steps \cup Powers

-------------------------------------------------------------------------------

Init ==
  /\ value \in Word(Width)
  /\ call = NoCall
  /\ answer = NoAnswer

Call ==
  /\ call = NoCall
  /\ call' \in Calls
  /\ answer' = NoAnswer
  /\ UNCHANGED value

ReturnBits ==
  /\ call.op \in BitCalls
  /\ value' = NewBits(value, call)
  /\ call' = NoCall
  /\ UNCHANGED answer

ReturnNumber ==
  /\ call.op \in NumberCalls
  /\ value' = Bin(Width, NewNumber(value, call))
  /\ call' = NoCall
  /\ UNCHANGED answer

\* An integer of half the width is reduced modulo 2^(Width/2), not sign-extended.
ReturnAssigned ==
  /\ call.op = "assign"
  /\ value' = Bin(Width \div 2, call.scalar)
  /\ call' = NoCall
  /\ UNCHANGED answer

ReturnAnswer ==
  /\ call.op \in Questions \cup Comparisons \cup {"compare"}
  /\ answer' = Answer(value, call)
  /\ call' = NoCall
  /\ UNCHANGED value

Next == Call \/ ReturnBits \/ ReturnNumber \/ ReturnAssigned \/ ReturnAnswer

Spec == Init /\ [][Next]_vars
===============================================================================
