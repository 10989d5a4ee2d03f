-------------------------- MODULE PackedTransform --------------------------
(***************************************************************************)
(* Api::transform_pack (include/SimdLib/Api.h): a callback turns each SIMD *)
(* register into lanes * bits result bits, and the loop streams them       *)
(* through one native word (pending) into the destination bytes.           *)
(*                                                                         *)
(* The data of a bit is where it comes from.  Bit n of the logical stream  *)
(* (lane results of element 0, then element 1, ...) is the token n; a      *)
(* result bit of a zero-filled tail lane has a token past the stream, a    *)
(* bit the callback leaves above its lanes * bits is Noise, a cleared bit  *)
(* is Zero, and an OR of two of these is Mixed.  Sizes and offsets are     *)
(* counted in bits, where the code counts most of them in bytes.           *)
(***************************************************************************)
EXTENDS Integers

CONSTANTS
  Shapes   (* The template instances: records of the parameters below.     *)

(***************************************************************************)
(* What one instance of the template fixes:                                *)
(*   acc     width of the 64-bit accumulator type (std::uint64_t)          *)
(*   word    width of native_word_t (std::uintptr_t)                       *)
(*   unit    width of write_t                                              *)
(*   digits  width of the callback's result_t                              *)
(*   bits    result_bit_width                                              *)
(*   lanes   element_count of the register                                 *)
(*   count   number of source elements                                     *)
(***************************************************************************)
RegisterBits(s) == s.lanes * s.bits
TotalBits(s) == s.count * s.bits
FlushedWords(s) == TotalBits(s) \div s.word
DestinationBits(s) == ((TotalBits(s) + s.unit - 1) \div s.unit) * s.unit
RemainingStorage(s) == DestinationBits(s) - FlushedWords(s) * s.word
FullBatches(s) == s.count \div s.lanes
TailCount(s) == s.count % s.lanes
Batches(s) == FullBatches(s) + (IF TailCount(s) # 0 THEN 1 ELSE 0)

(***************************************************************************)
(* The requires clause and the static_asserts of the template.             *)
(***************************************************************************)
ValidShape(s) ==
  /\ s \in [acc : Nat \ {0}, word : Nat \ {0}, unit : Nat \ {0}, digits : Nat \ {0},
            bits : Nat \ {0}, lanes : Nat \ {0}, count : Nat]
  /\ s.word <= s.acc
  /\ s.bits <= s.unit
  /\ RegisterBits(s) <= s.digits
  /\ s.digits <= s.acc
  /\ RemainingStorage(s) <= s.word

ASSUME ShapesAssumption == \A s \in Shapes : ValidShape(s)

Zero == -1
Noise == -2
Mixed == -3
Unwritten == -4

VARIABLES
  shape,             (* the instance that runs; never changes              *)
  phase,             (* "read" between batches, "append" in the while loop *)
  batch,             (* batches whose result has been appended             *)
  taken,             (* bits shifted out of remaining so far               *)
  result_bit_count,  (* bits of this result still to append                *)
  pending,           (* the native word being filled                       *)
  pending_bit_count,
  write_offset,      (* write_byte_offset                                  *)
  memory             (* the destination, and a guard word behind it        *)

vars == <<shape, phase, batch, taken, result_bit_count, pending,
          pending_bit_count, write_offset, memory>>

WordIndex(s) == 0 .. s.word - 1
MemoryIndex(s) == 0 .. DestinationBits(s) + s.word - 1
EmptyWord(s) == [i \in WordIndex(s) |-> Zero]

\* Bit j of what the callback returned for the current batch, zero-extended
\* to the accumulator.
ResultBit(j) ==
  IF j < RegisterBits(shape) THEN batch * RegisterBits(shape) + j
  ELSE IF j < shape.digits THEN Noise ELSE Zero

\* Bit i of remaining, after taken bits were shifted out.
RemainingBit(i) == ResultBit(taken + i)

\* Mutant: the shift by the full width is not named apart (on x86 it shifts by 0).
MaskWithoutFullWidthCase(n) == 0 .. (n % shape.acc) - 1

\* The bits a shift by n keeps below it: the code names n = acc apart, because
\* a shift by the full width is undefined.
ConsumedMask(n) == IF n = shape.acc THEN 0 .. shape.acc - 1 ELSE 0 .. n - 1

OrBit(a, b) == IF a = Zero THEN b ELSE IF b = Zero THEN a ELSE Mixed

\* Mutant: write_byte_offset is not added to the destination pointer.
StoredAtFirstWord(w, n) ==
  [p \in MemoryIndex(shape) |-> IF p \in 0 .. n - 1 THEN w[p] ELSE memory[p]]

\* std::memcpy of the first n bits of word w to the destination.
Stored(w, n) ==
  [p \in MemoryIndex(shape) |->
     IF p - write_offset \in 0 .. n - 1 THEN w[p - write_offset] ELSE memory[p]]

Init ==
  /\ shape \in Shapes
  /\ phase = "read"
  /\ batch = 0
  /\ taken = 0
  /\ result_bit_count = 0
  /\ pending = EmptyWord(shape)
  /\ pending_bit_count = 0
  /\ write_offset = 0
  /\ memory = [p \in MemoryIndex(shape) |-> Unwritten]

\* A full batch is loaded, the callback runs, and append is entered with n bits.
Invoke(n) ==
  /\ phase' = "append"
  /\ taken' = 0
  /\ result_bit_count' = n
  /\ UNCHANGED <<shape, batch, pending, pending_bit_count, write_offset, memory>>

TransformBatch ==
  /\ phase = "read"
  /\ batch < FullBatches(shape)
  /\ Invoke(RegisterBits(shape))

\* Mutant: the results of the zero-filled lanes are appended too.
TailKeepsPaddedLanes == RegisterBits(shape)

\* The last elements are staged in a zero-filled register; only the results of
\* the lanes that hold elements are appended.
TailBits == TailCount(shape) * shape.bits

TransformTail ==
  /\ phase = "read"
  /\ batch = FullBatches(shape)
  /\ TailCount(shape) # 0
  /\ Invoke(TailBits)

Available == shape.word - pending_bit_count

\* Mutant: the result is not split at the word boundary.
ConsumedWithoutMin == result_bit_count

Consumed == IF result_bit_count <= Available THEN result_bit_count ELSE Available

\* pending |= (remaining & consumed_mask) << pending_bit_count
Staged ==
  [i \in WordIndex(shape) |->
     IF i - pending_bit_count \in ConsumedMask(Consumed)
     THEN OrBit(pending[i], RemainingBit(i - pending_bit_count))
     ELSE pending[i]]

\* Mutant: an instance with one native word is taken for one with none.
FlushesFromSecondWord == FlushedWords(shape) > 1 /\ pending_bit_count + Consumed = shape.word

Flushes == FlushedWords(shape) # 0 /\ pending_bit_count + Consumed = shape.word

\* One iteration of the while loop of append, the flush of a full word included.
Append ==
  /\ phase = "append"
  /\ taken' = taken + Consumed
  /\ result_bit_count' = result_bit_count - Consumed
  /\ IF Flushes
     THEN /\ memory' = Stored(Staged, shape.word)
          /\ write_offset' = write_offset + shape.word
          /\ pending' = EmptyWord(shape)
          /\ pending_bit_count' = 0
     ELSE /\ pending' = Staged
          /\ pending_bit_count' = pending_bit_count + Consumed
          /\ UNCHANGED <<memory, write_offset>>
  /\ IF result_bit_count = Consumed
     THEN phase' = "read" /\ batch' = batch + 1
     ELSE UNCHANGED <<phase, batch>>
  /\ UNCHANGED shape

\* The last, possibly partial, word goes out with its zero padding.
Finish ==
  /\ phase = "read"
  /\ batch = Batches(shape)
  /\ phase' = "done"
  /\ memory' = IF RemainingStorage(shape) # 0
               THEN Stored(pending, RemainingStorage(shape)) ELSE memory
  /\ UNCHANGED <<shape, batch, taken, result_bit_count, pending,
                 pending_bit_count, write_offset>>

Next == TransformBatch \/ TransformTail \/ Append \/ Finish

\* The loop is sequential code: it is run until it returns.
Spec == Init /\ [][Next]_vars /\ WF_vars(Next)

-----------------------------------------------------------------------------
(***************************************************************************)
(* Correctness                                                             *)
(***************************************************************************)

Token == {Zero, Noise, Mixed, Unwritten} \cup Nat

\* Every variable has its type; the word never holds more bits than it is wide.
TypeOK ==
  /\ shape \in Shapes
  /\ phase \in {"read", "append", "done"}
  /\ batch \in 0 .. Batches(shape)
  /\ taken \in Nat
  /\ result_bit_count \in Nat
  /\ pending \in [WordIndex(shape) -> Token]
  /\ pending_bit_count \in 0 .. shape.word
  /\ write_offset \in Nat
  /\ memory \in [MemoryIndex(shape) -> Token]

\* At every point of the loop the bytes already stored, followed by the pending
\* bits, are exactly the first bits of the lane-result stream: none lost, none
\* doubled, none out of order across a word boundary, and no noise in the
\* unused part of the pending word (transform_pack, the append lambda).
StreamPrefix ==
  phase # "done" =>
    /\ \A p \in MemoryIndex(shape) : memory[p] = IF p < write_offset THEN p ELSE Unwritten
    /\ \A i \in WordIndex(shape) :
         pending[i] = IF i < pending_bit_count THEN write_offset + i ELSE Zero

\* When transform_pack returns, every destination bit was stored: bit p is lane
\* result bit p of the stream, the padding of the last unit is zero, nothing a
\* tail lane produced got in, and nothing was stored behind the destination
\* (tests/TestSupport.h checks the same with guard elements).
PackedExact ==
  phase = "done" =>
    \A p \in MemoryIndex(shape) :
      memory[p] = IF p < TotalBits(shape) THEN p
                  ELSE IF p < DestinationBits(shape) THEN Zero ELSE Unwritten

\* A stored destination bit is never stored again: the packer needs no
\* read-modify-write of the destination.
StoredOnce ==
  [][\A p \in MemoryIndex(shape) : memory[p] # Unwritten => memory'[p] = memory[p]]_vars

\* The while loop always consumes at least one bit, so the call returns for
\* every shape, including those whose word is never flushed inside the loop.
Returns == <>(phase = "done")

=============================================================================
