---------------------------- MODULE SpanTransform -----------------------------
(***************************************************************************)
(* Api::transform over spans of one memory, and the bitwise functions of   *)
(* SimdAlgo that are calls of it.  Whole registers are loaded, transformed *)
(* and stored in turn; the last, incomplete one goes through a staged,     *)
(* zero-filled copy.  Nothing keeps the spans from overlapping.            *)
(***************************************************************************)
EXTENDS Integers

CONSTANTS
  Size,          \* elements of the memory the spans are in
  Lanes128,      \* elements of a register of 128 bits
  Padding,          \* the element the staged copy is filled with
  Initial,       \* the memory before the call
  F(_, _)        \* what the callback does with one lane of each source

Lanes256 == 2 * Lanes128

ASSUME SpanAssumption ==
  /\ Size \in Nat
  /\ Lanes128 \in Nat \ {0}

Cells == 0 .. Size - 1

VARIABLES
  call,          \* its overload, length, spans and register width
  mem,
  done,          \* elements transformed so far
  returned

span_vars == <<call, mem, done, returned>>

-------------------------------------------------------------------------------
\* The calls.

\* ChooseSimd, and SimdImpl<count>: 256 bits as soon as one register is filled.
ChooseSimd(count) == IF count >= Lanes256 THEN Lanes256 ELSE Lanes128

AnyCall ==
  [overload : {"in_place", "unary", "binary", "bitwise"}, length : 0 .. Size,
   lanes : {Lanes128, Lanes256}, lhs : 0 .. Size, rhs : 0 .. Size, write : 0 .. Size]

Fits(s) == \A at \in {s.lhs, s.rhs, s.write} : at + s.length <= Size

\* An overload takes one source, two, or writes back to its source; here it
\* always has two and they may be the same.  BitwiseAnd, Or, Xor and AndNot are
\* binary transforms, BitwiseNot is a unary one, of spans of one size that choose
\* the width of the register.
OfOverload(s) ==
  CASE s.overload = "in_place" -> s.lhs = s.rhs /\ s.rhs = s.write
    [] s.overload = "unary"    -> s.lhs = s.rhs
    [] s.overload = "binary"   -> TRUE
    [] s.overload = "bitwise"  -> s.lanes = ChooseSimd(s.length)

Calls == {s \in AnyCall : Fits(s) /\ OfOverload(s)}

-------------------------------------------------------------------------------
\* One register: elements index .. index + count - 1 of the spans.

\* Mutant: both operands are taken from the first source.
FirstSourceTwice(index, count) ==
  [j \in 0 .. count - 1 |->
     F(mem[call.lhs + index + j], mem[call.lhs + index + j])]

\* Mutant: sources are loaded before an earlier register was stored.
LoadedAhead(index, count) ==
  [j \in 0 .. count - 1 |->
     F(Initial[call.lhs + index + j], Initial[call.rhs + index + j])]

Transformed(index, count) ==
  [j \in 0 .. count - 1 |->
     F(mem[call.lhs + index + j], mem[call.rhs + index + j])]

\* Mutant: the tail stores a whole register when the memory has room for it.
StoresTheRegister(index, count, result) ==
  LET last == IF call.write + index + call.lanes <= Size THEN call.lanes - 1 ELSE count - 1
  IN  [c \in Cells |->
         IF c - (call.write + index) \in 0 .. count - 1
         THEN result[c - (call.write + index)]
         ELSE IF c - (call.write + index) \in count .. last THEN F(Padding, Padding)
         ELSE mem[c]]

StoredBack(index, count, result) ==
  [c \in Cells |->
     IF c - (call.write + index) \in 0 .. count - 1
     THEN result[c - (call.write + index)]
     ELSE mem[c]]

Remaining == call.length - done

SpanInit ==
  /\ call \in Calls
  /\ mem = Initial
  /\ done = 0
  /\ returned = FALSE

\* Load, invoke, store: both sources are read before anything is written.
FullRegister ==
  /\ ~returned
  /\ Remaining >= call.lanes
  /\ mem' = StoredBack(done, call.lanes, Transformed(done, call.lanes))
  /\ done' = done + call.lanes
  /\ UNCHANGED <<call, returned>>

\* The remainder: as many elements are copied back as were staged.
StagedTail ==
  /\ ~returned
  /\ 0 < Remaining /\ Remaining < call.lanes
  /\ mem' = StoredBack(done, Remaining, Transformed(done, Remaining))
  /\ done' = call.length
  /\ UNCHANGED <<call, returned>>

Return ==
  /\ ~returned
  /\ Remaining = 0
  /\ returned' = TRUE
  /\ UNCHANGED <<call, mem, done>>

Step == FullRegister \/ StagedTail \/ Return

transform_in_place == call.overload = "in_place" /\ Step
transform_unary == call.overload = "unary" /\ Step
transform_binary == call.overload = "binary" /\ Step
Bitwise == call.overload = "bitwise" /\ Step

SpanNext == transform_in_place \/ transform_unary \/ transform_binary \/ Bitwise

SpanSpec == SpanInit /\ [][SpanNext]_span_vars

-------------------------------------------------------------------------------
\* What must hold.

SpanTypeOK ==
  /\ call \in Calls
  /\ done \in 0 .. call.length
  /\ returned \in BOOLEAN

\* The destination starts at or before the source, or behind its end: no element
\* is overwritten before it is read.
ReadBeforeWritten(source) ==
  call.write <= source \/ call.write >= source + call.length

\* Such a call - in particular in place - is the element-wise map of what the
\* memory held before it, whatever the length is modulo the register width.
MapsTheOriginal ==
  returned /\ ReadBeforeWritten(call.lhs) /\ ReadBeforeWritten(call.rhs) =>
    \A j \in 0 .. call.length - 1 :
      mem[call.write + j] = F(Initial[call.lhs + j], Initial[call.rhs + j])

\* Nothing outside the destination is ever written, by the padded lanes of the
\* last register least of all.
WritesItsSpanOnly ==
  \A c \in Cells : c \notin call.write .. call.write + call.length - 1 =>
    mem[c] = Initial[c]

\* The loop a caller would write, one element after the other.
ScalarLoop ==
  LET Source(at, before) ==
        IF at - call.write \in DOMAIN before THEN before[at - call.write] ELSE Initial[at]
      loop[n \in 0 .. call.length] ==
        IF n = 0 THEN [j \in {} |-> Padding]
        ELSE LET before == loop[n - 1] IN
             [j \in 0 .. n - 1 |->
                IF j < n - 1 THEN before[j]
                ELSE F(Source(call.lhs + j, before), Source(call.rhs + j, before))]
  IN  loop[call.length]

\* A destination that runs ahead of a source is the hazard: results are then read
\* back as operands.  The call does what the scalar loop does exactly when it runs
\* ahead by a whole register or more; closer, a register is loaded before the
\* results it should contain are stored.
ScalarParity ==
  returned /\ (\A s \in {call.lhs, call.rhs} :
                 ReadBeforeWritten(s) \/ call.write >= s + call.lanes) =>
    \A j \in 0 .. call.length - 1 : mem[call.write + j] = ScalarLoop[j]
===============================================================================
