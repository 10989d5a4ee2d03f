---------------------------- MODULE TransformProofs ----------------------------
(***************************************************************************)
(* The two transforms of Api.  transform_pack writes exactly the stream of *)
(* lane results, for every instance of the template that its static_assert *)
(* declarations admit.  transform, for memories, spans and registers of    *)
(* every size and every callback: which part of memory is written, which   *)
(* overlaps are still the element-wise map, and which are the scalar loop. *)
(***************************************************************************)
EXTENDS PackedTransform, SpanTransform, WellFoundedInduction, TLAPS

\* The bits of the stream that were appended so far.
Appended ==
  IF phase = "append" THEN batch * RegisterBits(shape) + taken
  ELSE IF batch = Batches(shape) THEN TotalBits(shape)
  ELSE batch * RegisterBits(shape)

\* The bits append was entered with for the current batch.
BatchBits == IF batch < FullBatches(shape) THEN RegisterBits(shape) ELSE TailBits

\* The loop's bookkeeping: what is stored and what is pending adds up to what
\* was appended, words are stored whole, and a full word never stays pending.
Bookkeeping ==
  phase # "done" =>
    /\ write_offset + pending_bit_count = Appended
    /\ pending_bit_count < shape.word
    /\ Appended <= TotalBits(shape)
    /\ \E k \in Nat : write_offset = k * shape.word

InBatch ==
  phase = "append" =>
    /\ batch < Batches(shape)
    /\ result_bit_count > 0
    /\ taken + result_bit_count = BatchBits

\* The inductive invariant: StreamPrefix needs the bookkeeping to know where the
\* next bits go, PackedExact needs it to know that the last store completes the
\* destination.
LoopInv == TypeOK /\ Bookkeeping /\ InBatch /\ StreamPrefix /\ PackedExact

-----------------------------------------------------------------------------
(***************************************************************************)
(* Arithmetic of one instance                                              *)
(***************************************************************************)

\* Euclidean division, as the batch and word counts use it.
LEMMA Division ==
  ASSUME NEW n \in Nat, NEW d \in Nat \ {0}
  PROVE  /\ n \div d \in Nat
         /\ n % d \in 0 .. d - 1
         /\ n = (n \div d) * d + (n % d)
OBVIOUS

\* The words counted by a quotient are all a multiple of the word can hold.
LEMMA WholeWords ==
  ASSUME NEW n \in Nat, NEW d \in Nat \ {0}, NEW k \in Nat, NEW r \in 0 .. d - 1,
         n = k * d + r
  PROVE  n \div d = k
OBVIOUS

\* A product grows with its factor.
LEMMA ProductMonotonic ==
  ASSUME NEW a \in Nat, NEW b \in Nat, NEW c \in Nat, a <= b
  PROVE  a * c <= b * c
OBVIOUS

\* The batches cover the elements, and the destination covers the stream.
LEMMA ShapeArithmetic ==
  ASSUME NEW s, ValidShape(s)
  PROVE  /\ RegisterBits(s) \in Nat \ {0}
         /\ TotalBits(s) \in Nat
         /\ FullBatches(s) \in Nat
         /\ TailCount(s) \in 0 .. s.lanes - 1
         /\ TotalBits(s) = FullBatches(s) * RegisterBits(s) + TailCount(s) * s.bits
         /\ FlushedWords(s) \in Nat
         /\ TotalBits(s) - FlushedWords(s) * s.word \in 0 .. s.word - 1
         /\ DestinationBits(s) \in Nat
         /\ DestinationBits(s) >= TotalBits(s)
         /\ RemainingStorage(s) \in 0 .. s.word

<1> DEFINE T == TotalBits(s)
           L == RegisterBits(s)
<1>1. /\ s.lanes \in Nat \ {0} /\ s.bits \in Nat \ {0} /\ s.count \in Nat
      /\ s.word \in Nat \ {0} /\ s.unit \in Nat \ {0}
  BY DEF ValidShape
<1>2. L \in Nat \ {0} /\ T \in Nat
  BY <1>1 DEF RegisterBits, TotalBits
<1>3. /\ FullBatches(s) \in Nat
      /\ TailCount(s) \in 0 .. s.lanes - 1
      /\ s.count = FullBatches(s) * s.lanes + TailCount(s)
  BY <1>1, Division DEF FullBatches, TailCount
<1>4. T = FullBatches(s) * L + TailCount(s) * s.bits
  <2>1. T = (FullBatches(s) * s.lanes + TailCount(s)) * s.bits
    BY <1>3 DEF TotalBits
  <2>2. (FullBatches(s) * s.lanes + TailCount(s)) * s.bits
          = FullBatches(s) * (s.lanes * s.bits) + TailCount(s) * s.bits
    BY <1>1, <1>3
  <2> QED BY <2>1, <2>2 DEF RegisterBits
<1>5. /\ FlushedWords(s) \in Nat
      /\ T = FlushedWords(s) * s.word + (T % s.word)
      /\ T % s.word \in 0 .. s.word - 1
  BY <1>1, <1>2, Division DEF FlushedWords
<1>6. T - FlushedWords(s) * s.word \in 0 .. s.word - 1
  BY <1>1, <1>2, <1>5
<1>7. DestinationBits(s) \in Nat /\ DestinationBits(s) >= T
  <2> DEFINE m == T + s.unit - 1
             q == m \div s.unit
  <2>1. m \in Nat
    BY <1>1, <1>2
  <2>2. q \in Nat /\ m % s.unit \in 0 .. s.unit - 1 /\ m = q * s.unit + (m % s.unit)
    BY <1>1, <2>1, Division
  <2>3. q * s.unit \in Nat
    BY <1>1, <2>2
  <2>4. q * s.unit >= T
    BY <1>1, <1>2, <2>1, <2>2, <2>3
  <2> QED BY <2>3, <2>4 DEF DestinationBits
<1>8. RemainingStorage(s) \in 0 .. s.word
  <2>1. RemainingStorage(s) <= s.word
    BY DEF ValidShape
  <2>2. FlushedWords(s) * s.word \in Nat
    BY <1>1, <1>5
  <2> QED BY <1>1, <1>2, <1>6, <1>7, <2>1, <2>2 DEF RemainingStorage
<1> QED BY <1>2, <1>3, <1>4, <1>5, <1>6, <1>7, <1>8

-----------------------------------------------------------------------------
(***************************************************************************)
(* The loop keeps its invariant                                            *)
(***************************************************************************)

\* A batch that is still to be appended ends inside the stream, and the next
\* batch starts where it ends.
LEMMA BatchEnd ==
  ASSUME TypeOK, batch < Batches(shape)
  PROVE  /\ BatchBits \in Nat \ {0}
         /\ BatchBits <= RegisterBits(shape)
         /\ batch * RegisterBits(shape) \in Nat
         /\ batch * RegisterBits(shape) + BatchBits <= TotalBits(shape)
         /\ IF batch + 1 = Batches(shape)
            THEN batch * RegisterBits(shape) + BatchBits = TotalBits(shape)
            ELSE batch * RegisterBits(shape) + BatchBits = (batch + 1) * RegisterBits(shape)
<1> DEFINE L == RegisterBits(shape)
           Full == FullBatches(shape)
           B == TailCount(shape) * shape.bits
<1>1. ValidShape(shape)
  BY ShapesAssumption DEF TypeOK
<1>2. /\ L \in Nat \ {0} /\ Full \in Nat /\ TotalBits(shape) \in Nat
      /\ TailCount(shape) \in 0 .. shape.lanes - 1
      /\ TotalBits(shape) = Full * L + B
  BY <1>1, ShapeArithmetic
<1>3. shape.lanes \in Nat \ {0} /\ shape.bits \in Nat \ {0}
  BY <1>1 DEF ValidShape
<1>4. batch \in Nat
  BY <1>2 DEF TypeOK, Batches
<1>5. B \in Nat /\ (TailCount(shape) = 0 => B = 0)
  BY <1>2, <1>3
<1>6. TailCount(shape) # 0 => B # 0
  BY <1>2, <1>3
<1>7. B <= L
  BY <1>2, <1>3, ProductMonotonic DEF RegisterBits
<1>8. batch * L \in Nat /\ batch * L + L = (batch + 1) * L
  BY <1>2, <1>4
<1>9. CASE batch < Full
  <2>1. BatchBits = L
    BY <1>9 DEF BatchBits
  <2>2. (batch + 1) * L <= Full * L
    BY <1>2, <1>4, <1>9, ProductMonotonic
  <2>3. Full * L \in Nat /\ (batch + 1) * L \in Nat
    BY <1>2, <1>4
  <2>4. batch * L + L <= TotalBits(shape)
    BY <1>2, <1>5, <1>8, <2>2, <2>3
  <2>5. CASE batch + 1 = Batches(shape)
    <3>1. batch + 1 = Full /\ TailCount(shape) = 0
      BY <1>2, <1>4, <1>9, <2>5 DEF Batches
    <3> QED BY <1>2, <1>5, <1>8, <2>1, <2>4, <2>5, <3>1
  <2>6. CASE batch + 1 # Batches(shape)
    BY <1>2, <1>8, <2>1, <2>4, <2>6
  <2> QED BY <2>5, <2>6
<1>10. CASE ~(batch < Full)
  <2>1. batch = Full /\ TailCount(shape) # 0 /\ batch + 1 = Batches(shape)
    BY <1>2, <1>4, <1>10 DEF Batches
  <2>2. BatchBits = B
    BY <1>10 DEF BatchBits, TailBits
  <2> QED BY <1>2, <1>5, <1>6, <1>7, <1>8, <2>1, <2>2
<1> QED BY <1>9, <1>10

\* The loop starts with an empty word and an untouched destination.
LEMMA InitInvariant == Init => LoopInv
<1> SUFFICES ASSUME Init PROVE LoopInv
  OBVIOUS
<1>1. ValidShape(shape)
  BY ShapesAssumption DEF Init
<1>2. /\ RegisterBits(shape) \in Nat \ {0} /\ TotalBits(shape) \in Nat
      /\ FullBatches(shape) \in Nat /\ TailCount(shape) \in Nat
      /\ TotalBits(shape) = FullBatches(shape) * RegisterBits(shape)
                              + TailCount(shape) * shape.bits
      /\ DestinationBits(shape) \in Nat
      /\ shape.word \in Nat \ {0} /\ shape.bits \in Nat \ {0}
  BY <1>1, ShapeArithmetic DEF ValidShape
<1>3. Batches(shape) \in Nat
  BY <1>2 DEF Batches
<1>4. TypeOK
  BY <1>2, <1>3 DEF Init, TypeOK, EmptyWord, Token
<1>5. Appended = 0
  <2>1. CASE Batches(shape) = 0
    <3>1. FullBatches(shape) = 0 /\ TailCount(shape) = 0
      BY <1>2, <2>1 DEF Batches
    <3>2. TotalBits(shape) = 0
      BY <1>2, <3>1
    <3> QED BY <2>1, <3>2 DEF Init, Appended
  <2>2. CASE Batches(shape) # 0
    <3>1. Appended = 0 * RegisterBits(shape)
      BY <2>2 DEF Init, Appended
    <3> QED BY <1>2, <3>1
  <2> QED BY <2>1, <2>2
<1>6. Bookkeeping
  <2>1. 0 \in Nat /\ write_offset = 0 * shape.word
    BY <1>2 DEF Init
  <2>2. \E k \in Nat : write_offset = k * shape.word
    BY <2>1
  <2> QED BY <1>2, <1>5, <2>2 DEF Init, Bookkeeping
<1>7. InBatch /\ PackedExact
  BY DEF Init, InBatch, PackedExact
<1>8. StreamPrefix
  BY <1>2 DEF Init, StreamPrefix, MemoryIndex, WordIndex, EmptyWord
<1> QED BY <1>4, <1>6, <1>7, <1>8 DEF LoopInv

\* Loading a batch and calling the callback touches nothing of the stream.
LEMMA InvokeInvariant ==
  ASSUME LoopInv, TransformBatch \/ TransformTail
  PROVE  LoopInv'
<1>1. /\ phase = "read" /\ phase' = "append" /\ taken' = 0
      /\ result_bit_count' = BatchBits
      /\ batch < Batches(shape)
      /\ UNCHANGED <<shape, batch, pending, pending_bit_count, write_offset, memory>>
  <2>1. TailCount(shape) \in Nat /\ FullBatches(shape) \in Nat
    BY ShapeArithmetic, ShapesAssumption DEF LoopInv, TypeOK
  <2>2. batch \in Int
    BY <2>1 DEF LoopInv, TypeOK, Batches
  <2> QED BY <2>1, <2>2 DEF TransformBatch, TransformTail, Invoke, BatchBits, Batches
<1>2. /\ BatchBits \in Nat \ {0}
      /\ batch * RegisterBits(shape) \in Nat
  BY <1>1, BatchEnd DEF LoopInv
<1>3. TypeOK'
  BY <1>1, <1>2 DEF LoopInv, TypeOK, WordIndex, MemoryIndex, Batches
<1>4. Appended' = Appended
  <2>1. batch # Batches(shape)
    <3>1. batch \in Int /\ Batches(shape) \in Int
      BY <1>1, ShapeArithmetic, ShapesAssumption DEF LoopInv, TypeOK, Batches
    <3> QED BY <1>1, <3>1
  <2>2. Appended = batch * RegisterBits(shape)
    BY <1>1, <2>1 DEF Appended
  <2>3. Appended' = batch * RegisterBits(shape) + 0
    BY <1>1 DEF Appended
  <2> QED BY <1>2, <2>2, <2>3
<1>5. Bookkeeping'
  BY <1>1, <1>4 DEF LoopInv, Bookkeeping
<1>6. InBatch'
  <2>1. BatchBits' = BatchBits
    BY <1>1 DEF BatchBits, TailBits
  <2> QED BY <1>1, <1>2, <2>1 DEF InBatch
<1>7. StreamPrefix' /\ PackedExact'
  BY <1>1 DEF LoopInv, StreamPrefix, PackedExact, MemoryIndex, WordIndex
<1> QED BY <1>3, <1>5, <1>6, <1>7 DEF LoopInv

\* The mask of an iteration keeps exactly the consumed bits, full width or not.
LEMMA MaskKeepsConsumed ==
  ASSUME NEW n, n <= shape.acc
  PROVE  ConsumedMask(n) = 0 .. n - 1
BY DEF ConsumedMask

\* One iteration appends the next Consumed > 0 bits of the stream, in order,
\* behind the bits that are already pending.
LEMMA StagedBits ==
  ASSUME LoopInv, phase = "append"
  PROVE  /\ Consumed \in Nat \ {0}
         /\ Consumed <= result_bit_count
         /\ pending_bit_count + Consumed \in Nat
         /\ pending_bit_count + Consumed <= shape.word
         /\ Consumed # result_bit_count => pending_bit_count + Consumed = shape.word
         /\ Staged = [i \in WordIndex(shape) |->
                        IF i < pending_bit_count + Consumed THEN write_offset + i ELSE Zero]
<1> DEFINE L == RegisterBits(shape)
<1>1. ValidShape(shape)
  BY ShapesAssumption DEF LoopInv, TypeOK
<1>2. /\ shape.word \in Nat \ {0} /\ shape.acc \in Nat \ {0} /\ shape.word <= shape.acc
      /\ L \in Nat \ {0}
  BY <1>1, ShapeArithmetic DEF ValidShape
<1>3. /\ pending_bit_count \in Nat /\ pending_bit_count < shape.word
      /\ result_bit_count \in Nat \ {0} /\ taken \in Nat
      /\ taken + result_bit_count = BatchBits
      /\ write_offset \in Nat
      /\ batch < Batches(shape)
  BY <1>2 DEF LoopInv, TypeOK, Bookkeeping, InBatch
<1>4. /\ Consumed \in Nat \ {0} /\ Consumed <= result_bit_count
      /\ pending_bit_count + Consumed <= shape.word
      /\ Consumed # result_bit_count => pending_bit_count + Consumed = shape.word
  BY <1>2, <1>3 DEF Consumed, Available
<1>5. BatchBits <= L /\ BatchBits \in Nat /\ batch * L \in Nat
  BY <1>3, BatchEnd DEF LoopInv
<1>6. write_offset + pending_bit_count = batch * L + taken
  BY DEF LoopInv, Bookkeeping, Appended
<1>7. ConsumedMask(Consumed) = 0 .. Consumed - 1
  BY <1>2, <1>3, <1>4, MaskKeepsConsumed
<1>8. ASSUME NEW i \in WordIndex(shape)
      PROVE  (IF i - pending_bit_count \in ConsumedMask(Consumed)
              THEN OrBit(pending[i], RemainingBit(i - pending_bit_count)) ELSE pending[i])
             = IF i < pending_bit_count + Consumed THEN write_offset + i ELSE Zero
  <2>1. i \in Nat
    BY <1>2 DEF WordIndex
  <2>2. pending[i] = IF i < pending_bit_count THEN write_offset + i ELSE Zero
    BY DEF LoopInv, StreamPrefix
  <2>3. CASE i < pending_bit_count
    BY <1>3, <1>4, <1>7, <2>1, <2>2, <2>3
  <2>4. CASE i \in pending_bit_count .. pending_bit_count + Consumed - 1
    <3>1. i - pending_bit_count \in ConsumedMask(Consumed)
      BY <1>3, <1>4, <1>7, <2>1, <2>4
    <3>2. taken + (i - pending_bit_count) < L
      BY <1>2, <1>3, <1>4, <1>5, <2>1, <2>4
    <3>3. RemainingBit(i - pending_bit_count) = batch * L + (taken + (i - pending_bit_count))
      BY <3>2 DEF RemainingBit, ResultBit
    <3>4. batch * L + (taken + (i - pending_bit_count)) = write_offset + i
      BY <1>3, <1>5, <1>6, <2>1
    <3>5. pending[i] = Zero
      BY <1>3, <2>1, <2>2, <2>4
    <3>6. OrBit(pending[i], RemainingBit(i - pending_bit_count)) = write_offset + i
      BY <3>3, <3>4, <3>5 DEF OrBit
    <3> QED BY <1>3, <1>4, <2>1, <2>4, <3>1, <3>6
  <2>5. CASE i >= pending_bit_count + Consumed
    BY <1>3, <1>4, <1>7, <2>1, <2>2, <2>5
  <2> QED BY <1>3, <1>4, <2>1, <2>3, <2>4, <2>5
<1>9. Staged = [i \in WordIndex(shape) |->
                  IF i < pending_bit_count + Consumed THEN write_offset + i ELSE Zero]
  BY <1>8 DEF Staged
<1> QED BY <1>3, <1>4, <1>9

\* Append: the stream grows by the consumed bits, and a word that fills up is
\* stored behind the words already stored.
LEMMA AppendInvariant ==
  ASSUME LoopInv, Append
  PROVE  LoopInv'
<1> DEFINE L == RegisterBits(shape)
           C == Consumed
           P == pending_bit_count + Consumed
<1>1. /\ phase = "append" /\ shape' = shape
      /\ taken' = taken + C /\ result_bit_count' = result_bit_count - C
  BY DEF Append
<1>2. /\ C \in Nat \ {0} /\ C <= result_bit_count
      /\ P \in Nat /\ P <= shape.word
      /\ C # result_bit_count => P = shape.word
      /\ Staged = [i \in WordIndex(shape) |-> IF i < P THEN write_offset + i ELSE Zero]
  BY <1>1, StagedBits
<1>3. ValidShape(shape)
  BY ShapesAssumption DEF LoopInv, TypeOK
<1>4. /\ shape.word \in Nat \ {0} /\ L \in Nat \ {0} /\ TotalBits(shape) \in Nat
      /\ FullBatches(shape) \in Nat /\ TailCount(shape) \in Nat
      /\ FlushedWords(shape) \in Nat
      /\ TotalBits(shape) - FlushedWords(shape) * shape.word \in 0 .. shape.word - 1
      /\ DestinationBits(shape) \in Nat /\ DestinationBits(shape) >= TotalBits(shape)
  BY <1>3, ShapeArithmetic DEF ValidShape
<1>5. /\ write_offset \in Nat /\ pending_bit_count \in Nat /\ taken \in Nat
      /\ result_bit_count \in Nat /\ batch \in Nat
      /\ batch < Batches(shape) /\ Batches(shape) \in Nat
      /\ taken + result_bit_count = BatchBits
      /\ pending_bit_count < shape.word
      /\ write_offset + pending_bit_count = batch * L + taken
      /\ \E k \in Nat : write_offset = k * shape.word
  BY <1>1, <1>4 DEF LoopInv, TypeOK, InBatch, Bookkeeping, Appended, Batches
<1>6. /\ BatchBits \in Nat \ {0}
      /\ batch * L \in Nat
      /\ batch * L + BatchBits <= TotalBits(shape)
      /\ IF batch + 1 = Batches(shape)
         THEN batch * L + BatchBits = TotalBits(shape)
         ELSE batch * L + BatchBits = (batch + 1) * L
  BY <1>5, BatchEnd DEF LoopInv
<1>7. write_offset + P = batch * L + taken' /\ write_offset + P <= TotalBits(shape)
  <2>1. write_offset + P = batch * L + (taken + C)
    BY <1>2, <1>5, <1>6
  <2>2. taken + C <= BatchBits
    BY <1>2, <1>5, <1>6
  <2>3. batch * L + (taken + C) <= TotalBits(shape)
    BY <1>2, <1>4, <1>5, <1>6, <2>2
  <2> QED BY <1>1, <2>1, <2>3
<1>8. IF result_bit_count = C THEN phase' = "read" /\ batch' = batch + 1
      ELSE phase' = "append" /\ batch' = batch
  BY <1>1 DEF Append
<1>9. Appended' = write_offset + P
  <2>1. CASE result_bit_count = C
    <3>1. taken' = BatchBits
      BY <1>1, <1>2, <1>5, <2>1
    <3>2. Appended' = IF batch + 1 = Batches(shape) THEN TotalBits(shape) ELSE (batch + 1) * L
      BY <1>1, <1>8, <2>1 DEF Appended
    <3> QED BY <1>6, <1>7, <3>1, <3>2
  <2>2. CASE result_bit_count # C
    BY <1>1, <1>7, <1>8, <2>2 DEF Appended
  <2> QED BY <2>1, <2>2
<1>10. InBatch'
  <2>1. CASE result_bit_count = C
    BY <1>8, <2>1 DEF InBatch
  <2>2. CASE result_bit_count # C
    <3>1. BatchBits' = BatchBits
      BY <1>1, <1>8, <2>2 DEF BatchBits, TailBits
    <3> QED BY <1>1, <1>2, <1>5, <1>8, <2>2, <3>1 DEF InBatch
  <2> QED BY <2>1, <2>2
<1>11. PackedExact'
  BY <1>8 DEF PackedExact
<1>12. /\ batch' \in 0 .. Batches(shape) /\ phase' \in {"read", "append", "done"}
       /\ taken' \in Nat /\ result_bit_count' \in Nat
       /\ shape' \in Shapes
  <2>1. batch' \in 0 .. Batches(shape) /\ phase' \in {"read", "append", "done"}
    BY <1>5, <1>8
  <2>2. taken' \in Nat /\ result_bit_count' \in Nat
    BY <1>1, <1>2, <1>5
  <2> QED BY <1>1, <2>1, <2>2 DEF LoopInv, TypeOK
<1>13. CASE Flushes
  <2>1. /\ P = shape.word
        /\ memory' = Stored(Staged, shape.word)
        /\ write_offset' = write_offset + shape.word
        /\ pending' = EmptyWord(shape)
        /\ pending_bit_count' = 0
    BY <1>13 DEF Append, Flushes
  <2>2. write_offset + shape.word <= DestinationBits(shape)
    BY <1>4, <1>5, <1>7, <2>1
  <2>3. memory' = [p \in MemoryIndex(shape) |-> IF p < write_offset' THEN p ELSE Unwritten]
    <3>1. ASSUME NEW p \in MemoryIndex(shape)
          PROVE  (IF p - write_offset \in 0 .. shape.word - 1
                  THEN Staged[p - write_offset] ELSE memory[p])
                 = IF p < write_offset + shape.word THEN p ELSE Unwritten
      <4>1. p \in Nat
        BY <1>4 DEF MemoryIndex
      <4>2. memory[p] = IF p < write_offset THEN p ELSE Unwritten
        BY <1>1 DEF LoopInv, StreamPrefix
      <4>3. CASE p - write_offset \in 0 .. shape.word - 1
        <5>1. p - write_offset \in WordIndex(shape)
          BY <4>3 DEF WordIndex
        <5>2. Staged[p - write_offset] = p
          BY <1>2, <1>4, <1>5, <2>1, <4>1, <4>3, <5>1
        <5> QED BY <1>4, <1>5, <4>1, <4>3, <5>2
      <4>4. CASE ~(p - write_offset \in 0 .. shape.word - 1)
        BY <1>4, <1>5, <4>1, <4>2, <4>4
      <4> QED BY <4>3, <4>4
    <3> QED BY <2>1, <3>1 DEF Stored
  <2>4. TypeOK'
    <3>1. memory' \in [MemoryIndex(shape) -> Token]
      BY <1>4, <2>3 DEF Token, MemoryIndex
    <3>2. pending' \in [WordIndex(shape) -> Token]
      BY <2>1 DEF EmptyWord, Token
    <3>3. write_offset' \in Nat /\ pending_bit_count' \in 0 .. shape.word
      BY <1>4, <1>5, <2>1
    <3> QED BY <1>1, <1>12, <3>1, <3>2, <3>3 DEF TypeOK
  <2>5. Bookkeeping'
    <3>1. PICK k \in Nat : write_offset = k * shape.word
      BY <1>5
    <3>2. write_offset' = (k + 1) * shape.word /\ k + 1 \in Nat
      BY <1>4, <2>1, <3>1
    <3>3. \E j \in Nat : write_offset' = j * shape.word
      BY <3>2
    <3> QED BY <1>1, <1>4, <1>5, <1>7, <1>9, <2>1, <3>3 DEF Bookkeeping, TotalBits
  <2>6. StreamPrefix'
    <3>1. pending' = [i \in WordIndex(shape) |-> Zero] /\ pending_bit_count' = 0
      BY <2>1 DEF EmptyWord
    <3>2. \A i \in WordIndex(shape) : ~(i < 0)
      BY <1>4 DEF WordIndex
    <3> QED BY <1>1, <2>3, <3>1, <3>2 DEF StreamPrefix, MemoryIndex, WordIndex
  <2> QED BY <1>10, <1>11, <2>4, <2>5, <2>6 DEF LoopInv
<1>14. CASE ~Flushes
  <2>1. /\ memory' = memory /\ write_offset' = write_offset
        /\ pending' = Staged /\ pending_bit_count' = P
    BY <1>14 DEF Append
  <2>2. P < shape.word
    <3>1. CASE FlushedWords(shape) = 0
      BY <1>2, <1>4, <1>5, <1>7, <3>1
    <3>2. CASE FlushedWords(shape) # 0
      BY <1>2, <1>4, <1>14, <3>2 DEF Flushes
    <3> QED BY <3>1, <3>2
  <2>3. TypeOK'
    <3>1. pending' \in [WordIndex(shape) -> Token]
      <4>1. \A i \in WordIndex(shape) : write_offset + i \in Nat
        BY <1>4, <1>5 DEF WordIndex
      <4> QED BY <1>2, <2>1, <4>1 DEF Token
    <3>2. memory' \in [MemoryIndex(shape) -> Token]
      BY <2>1 DEF LoopInv, TypeOK
    <3>3. write_offset' \in Nat /\ pending_bit_count' \in 0 .. shape.word
      BY <1>2, <1>5, <2>1
    <3> QED BY <1>1, <1>12, <3>1, <3>2, <3>3 DEF TypeOK
  <2>4. Bookkeeping'
    BY <1>1, <1>5, <1>7, <1>9, <2>1, <2>2 DEF Bookkeeping, TotalBits
  <2>5. StreamPrefix'
    BY <1>1, <1>2, <2>1 DEF LoopInv, StreamPrefix, MemoryIndex, WordIndex
  <2> QED BY <1>10, <1>11, <2>3, <2>4, <2>5 DEF LoopInv
<1> QED BY <1>13, <1>14

\* Finish: the pending bits are the end of the stream, and the last store takes
\* exactly what is left of the destination.
LEMMA FinishInvariant ==
  ASSUME LoopInv, Finish
  PROVE  LoopInv'
<1> DEFINE R == RemainingStorage(shape)
<1>1. /\ phase = "read" /\ phase' = "done" /\ batch = Batches(shape)
      /\ UNCHANGED <<shape, batch, taken, result_bit_count, pending,
                     pending_bit_count, write_offset>>
      /\ memory' = IF R # 0 THEN Stored(pending, R) ELSE memory
  BY DEF Finish
<1>2. ValidShape(shape)
  BY ShapesAssumption DEF LoopInv, TypeOK
<1>3. /\ shape.word \in Nat \ {0} /\ TotalBits(shape) \in Nat
      /\ FlushedWords(shape) \in Nat
      /\ TotalBits(shape) - FlushedWords(shape) * shape.word \in 0 .. shape.word - 1
      /\ DestinationBits(shape) \in Nat /\ DestinationBits(shape) >= TotalBits(shape)
      /\ R \in 0 .. shape.word
      /\ R = DestinationBits(shape) - FlushedWords(shape) * shape.word
  BY <1>2, ShapeArithmetic DEF ValidShape, RemainingStorage
<1>4. /\ write_offset + pending_bit_count = TotalBits(shape)
      /\ pending_bit_count < shape.word
      /\ write_offset \in Nat /\ pending_bit_count \in Nat
      /\ \E k \in Nat : write_offset = k * shape.word
  BY <1>1, <1>3 DEF LoopInv, TypeOK, Bookkeeping, Appended
<1>5. write_offset = FlushedWords(shape) * shape.word
  <2>1. PICK k \in Nat : write_offset = k * shape.word
    BY <1>4
  <2>2. TotalBits(shape) = k * shape.word + pending_bit_count
    BY <1>3, <1>4, <2>1
  <2>3. pending_bit_count \in 0 .. shape.word - 1
    BY <1>3, <1>4
  <2>4. FlushedWords(shape) = k
    BY <1>3, <2>2, <2>3, WholeWords DEF FlushedWords
  <2> QED BY <2>1, <2>4
<1>6. DestinationBits(shape) = write_offset + R
  BY <1>3, <1>4, <1>5
<1>7. ASSUME NEW p \in MemoryIndex(shape)
      PROVE  memory'[p] = IF p < TotalBits(shape) THEN p
                          ELSE IF p < DestinationBits(shape) THEN Zero ELSE Unwritten
  <2>1. p \in Nat
    BY <1>3 DEF MemoryIndex
  <2>2. memory[p] = IF p < write_offset THEN p ELSE Unwritten
    BY <1>1 DEF LoopInv, StreamPrefix
  <2>3. memory'[p] = IF p - write_offset \in 0 .. R - 1 THEN pending[p - write_offset]
                     ELSE memory[p]
    <3>1. CASE R # 0
      BY <1>1, <3>1 DEF Stored
    <3>2. CASE R = 0
      BY <1>1, <1>4, <2>1, <3>2
    <3> QED BY <3>1, <3>2
  <2>4. CASE p - write_offset \in 0 .. R - 1
    <3>1. p - write_offset \in WordIndex(shape)
      BY <1>3, <2>4 DEF WordIndex
    <3>2. pending[p - write_offset] = IF p - write_offset < pending_bit_count
                                      THEN write_offset + (p - write_offset) ELSE Zero
      BY <1>1, <3>1 DEF LoopInv, StreamPrefix
    <3>3. p < DestinationBits(shape)
      BY <1>3, <1>4, <1>6, <2>1, <2>4
    <3>4. p - write_offset < pending_bit_count <=> p < TotalBits(shape)
      BY <1>3, <1>4, <2>1
    <3>5. write_offset + (p - write_offset) = p
      BY <1>4, <2>1
    <3> QED BY <2>3, <2>4, <3>2, <3>3, <3>4, <3>5
  <2>5. CASE ~(p - write_offset \in 0 .. R - 1)
    <3>1. p < write_offset \/ p >= DestinationBits(shape)
      BY <1>3, <1>4, <1>6, <2>1, <2>5
    <3> QED BY <1>3, <1>4, <2>1, <2>2, <2>3, <2>5, <3>1
  <2> QED BY <2>4, <2>5
<1>8. memory' = [p \in MemoryIndex(shape) |-> memory'[p]]
  <2>1. CASE R # 0
    BY <1>1, <2>1 DEF Stored
  <2>2. CASE R = 0
    BY <1>1, <2>2 DEF LoopInv, TypeOK
  <2> QED BY <2>1, <2>2
<1>9. memory' \in [MemoryIndex(shape) -> Token]
  <2>1. ASSUME NEW p \in MemoryIndex(shape) PROVE memory'[p] \in Token
    BY <1>3, <1>7 DEF MemoryIndex, Token
  <2> QED BY <1>8, <2>1
<1>10. TypeOK'
  BY <1>1, <1>9 DEF LoopInv, TypeOK
<1>11. PackedExact'
  BY <1>1, <1>7 DEF PackedExact, MemoryIndex
<1>12. Bookkeeping' /\ InBatch' /\ StreamPrefix'
  BY <1>1 DEF Bookkeeping, InBatch, StreamPrefix
<1> QED BY <1>10, <1>11, <1>12 DEF LoopInv

-----------------------------------------------------------------------------

\* The invariant holds throughout, whatever the instance of the template.
THEOREM LoopInvariant == Spec => []LoopInv
<1>1. Init => LoopInv
  BY InitInvariant
<1>2. LoopInv /\ [Next]_vars => LoopInv'
  <2> SUFFICES ASSUME LoopInv, [Next]_vars PROVE LoopInv'
    OBVIOUS
  <2>1. CASE TransformBatch \/ TransformTail
    BY <2>1, InvokeInvariant
  <2>2. CASE Append
    BY <2>2, AppendInvariant
  <2>3. CASE Finish
    BY <2>3, FinishInvariant
  <2>4. CASE UNCHANGED vars
    BY <2>4 DEF vars, LoopInv, TypeOK, Bookkeeping, InBatch, StreamPrefix, PackedExact,
                Appended, BatchBits, TailBits, Batches, MemoryIndex, WordIndex
  <2> QED BY <2>1, <2>2, <2>3, <2>4 DEF Next
<1> QED BY <1>1, <1>2, PTL DEF Spec

\* Type correctness: the pending word never holds more bits than it is wide.
THEOREM TypeCorrect == Spec => []TypeOK
<1>1. LoopInv => TypeOK
  BY DEF LoopInv
<1> QED BY <1>1, LoopInvariant, PTL

\* While the loop runs, the destination and the pending word hold a prefix of
\* the stream of lane results.
THEOREM StreamIsPrefix == Spec => []StreamPrefix
<1>1. LoopInv => StreamPrefix
  BY DEF LoopInv
<1> QED BY <1>1, LoopInvariant, PTL

\* When transform_pack returns the destination holds exactly the stream, zero
\* padding, and nothing behind it was touched.
THEOREM PackedCorrectly == Spec => []PackedExact
<1>1. LoopInv => PackedExact
  BY DEF LoopInv
<1> QED BY <1>1, LoopInvariant, PTL

\* No destination bit is stored twice.
THEOREM NeverStoredTwice == Spec => StoredOnce
<1>1. LoopInv /\ LoopInv' /\ [Next]_vars =>
        [\A p \in MemoryIndex(shape) : memory[p] # Unwritten => memory'[p] = memory[p]]_vars
  <2> SUFFICES ASSUME LoopInv, LoopInv', Next,
                      NEW p \in MemoryIndex(shape), memory[p] # Unwritten
               PROVE  memory'[p] = memory[p]
    OBVIOUS
  <2>1. CASE TransformBatch \/ TransformTail
    BY <2>1 DEF TransformBatch, TransformTail, Invoke
  <2>2. CASE Append \/ Finish
    <3>1. phase # "done" /\ shape' = shape
      BY <2>2 DEF Append, Finish
    <3>2. p \in Nat /\ write_offset \in Nat /\ write_offset' \in Nat
      BY ShapeArithmetic, ShapesAssumption DEF LoopInv, TypeOK, MemoryIndex, ValidShape
    <3>3. p < write_offset /\ memory[p] = p
      BY <3>1 DEF LoopInv, StreamPrefix
    <3>4. memory' = memory \/ \E w, n : memory' = Stored(w, n)
      BY <2>2 DEF Append, Finish
    <3>5. CASE memory' = memory
      BY <3>5
    <3>6. CASE \E w, n : memory' = Stored(w, n)
      <4>1. PICK w, n : memory' = Stored(w, n)
        BY <3>6
      <4>2. ~(p - write_offset \in 0 .. n - 1)
        BY <3>2, <3>3
      <4> QED BY <4>1, <4>2 DEF Stored
    <3> QED BY <3>4, <3>5, <3>6
  <2> QED BY <2>1, <2>2 DEF Next
<1> QED BY <1>1, LoopInvariant, PTL DEF Spec, StoredOnce

-------------------------------------------------------------------------------
(***************************************************************************)
(* transform over spans of one memory                                      *)
(***************************************************************************)
\* No source element is overwritten before it is read.
Safe == ReadBeforeWritten(call.lhs) /\ ReadBeforeWritten(call.rhs)

\* The part of the destination that is written holds the results ...
ResultsSoFar ==
  \A j \in 0 .. done - 1 :
    mem[call.write + j] = F(Initial[call.lhs + j], Initial[call.rhs + j])

\* ... and the part of the sources that is still to be read is as it was.
SourcesIntact ==
  \A j \in done .. call.length - 1 :
    /\ mem[call.lhs + j] = Initial[call.lhs + j]
    /\ mem[call.rhs + j] = Initial[call.rhs + j]

\* The inductive invariant: MapsTheOriginal needs what is still to be read.
SpanInv ==
  /\ SpanTypeOK
  /\ WritesItsSpanOnly
  /\ returned => done = call.length
  /\ Safe => ResultsSoFar /\ SourcesIntact

-------------------------------------------------------------------------------

\* Spans lie within the memory.
LEMMA CallFacts ==
  ASSUME NEW s \in Calls
  PROVE  /\ s.length \in Nat /\ s.lanes \in Nat \ {0}
         /\ s.lhs \in Nat /\ s.lhs + s.length <= Size
         /\ s.rhs \in Nat /\ s.rhs + s.length <= Size
         /\ s.write \in Nat /\ s.write + s.length <= Size
         /\ Size \in Nat
BY SpanAssumption DEF Calls, AnyCall, Fits, Lanes256

\* One register, complete or not: count elements from done on.
LEMMA StoreStep ==
  ASSUME SpanInv, NEW count \in Nat \ {0}, done + count <= call.length,
         mem' = StoredBack(done, count, Transformed(done, count)),
         done' = done + count, UNCHANGED <<call, returned>>, ~returned
  PROVE  SpanInv'
<1>1. /\ call \in Calls /\ done \in Nat /\ done <= call.length
      /\ call' = call /\ ~returned'
  BY CallFacts DEF SpanInv, SpanTypeOK
<1>2. /\ call.length \in Nat /\ call.lhs \in Nat /\ call.rhs \in Nat /\ call.write \in Nat
      /\ call.lhs + call.length <= Size /\ call.rhs + call.length <= Size
      /\ call.write + call.length <= Size /\ Size \in Nat
  BY <1>1, CallFacts
<1>3. ASSUME NEW j \in 0 .. count - 1
      PROVE  mem'[call.write + done + j] =
               F(mem[call.lhs + done + j], mem[call.rhs + done + j])
  <2>1. call.write + done + j \in Cells
    BY <1>1, <1>2 DEF Cells
  <2>2. (call.write + done + j) - (call.write + done) = j
    BY <1>1, <1>2
  <2>3. mem'[call.write + done + j] = Transformed(done, count)[j]
    BY <2>1, <2>2 DEF StoredBack
  <2> QED
    BY <2>3 DEF Transformed
<1>4. ASSUME NEW c \in Cells, c < call.write + done \/ c >= call.write + done + count
      PROVE  mem'[c] = mem[c]
  <2>1. c - (call.write + done) \notin 0 .. count - 1
    BY <1>1, <1>2, <1>4 DEF Cells
  <2> QED
    BY <2>1 DEF StoredBack
<1>5. SpanTypeOK'
  BY <1>1, <1>2 DEF SpanTypeOK, SpanInv
<1>6. WritesItsSpanOnly'
  <2> SUFFICES ASSUME NEW c \in Cells, c \notin call.write .. call.write + call.length - 1
               PROVE  mem'[c] = Initial[c]
    BY <1>1 DEF WritesItsSpanOnly
  <2>1. mem'[c] = mem[c]
    BY <1>1, <1>2, <1>4 DEF Cells
  <2> QED
    BY <2>1 DEF SpanInv, WritesItsSpanOnly
<1>7. ASSUME Safe
      PROVE  ResultsSoFar' /\ SourcesIntact'
  <2>1. ResultsSoFar /\ SourcesIntact
    BY <1>7 DEF SpanInv
  <2>2. ASSUME NEW j \in 0 .. done' - 1
        PROVE  mem'[call.write + j] = F(Initial[call.lhs + j], Initial[call.rhs + j])
    <3>1. CASE j < done
      <4>1. mem'[call.write + j] = mem[call.write + j]
        BY <1>1, <1>2, <1>4, <3>1 DEF Cells
      <4> QED
        BY <1>1, <2>1, <3>1, <4>1 DEF ResultsSoFar
    <3>2. CASE j >= done
      <4> DEFINE k == j - done
      <4>1. k \in 0 .. count - 1 /\ done + k = j
        BY <1>1, <3>2
      <4>2. mem'[call.write + done + k] = F(mem[call.lhs + done + k], mem[call.rhs + done + k])
        BY <1>3, <4>1
      <4>3. /\ call.write + done + k = call.write + j
            /\ call.lhs + done + k = call.lhs + j
            /\ call.rhs + done + k = call.rhs + j
        BY <1>1, <1>2, <4>1
      <4>4. j \in done .. call.length - 1
        BY <1>1, <1>2, <3>2
      <4> QED
        BY <2>1, <4>2, <4>3, <4>4 DEF SourcesIntact
    <3> QED
      BY <1>1, <3>1, <3>2
  <2>3. ASSUME NEW j \in done' .. call.length - 1,
               NEW at \in {call.lhs, call.rhs}
        PROVE  mem'[at + j] = Initial[at + j]
    <3>1. mem[at + j] = Initial[at + j]
      BY <1>1, <1>2, <2>1 DEF SourcesIntact
    <3>2. at + j \in Cells
      BY <1>1, <1>2 DEF Cells
    <3>3. at + j < call.write + done \/ at + j >= call.write + done + count
      <4>1. ReadBeforeWritten(at)
        BY <1>7 DEF Safe
      <4> QED
        BY <1>1, <1>2, <4>1 DEF ReadBeforeWritten
    <3> QED
      BY <1>4, <3>1, <3>2, <3>3
  <2> QED
    BY <1>1, <2>2, <2>3 DEF ResultsSoFar, SourcesIntact
<1>8. Safe' <=> Safe
  BY <1>1 DEF Safe, ReadBeforeWritten
<1> QED
  BY <1>1, <1>5, <1>6, <1>7, <1>8 DEF SpanInv

\* A call starts with nothing written.
LEMMA SpanStart == SpanInit => SpanInv
<1> SUFFICES ASSUME SpanInit
             PROVE  SpanInv
  OBVIOUS
<1>1. SpanTypeOK
  <2>1. call \in Calls /\ done = 0 /\ returned = FALSE
    BY DEF SpanInit
  <2>2. call.length \in Nat
    BY <2>1, CallFacts
  <2>3. done \in 0 .. call.length
    BY <2>1, <2>2
  <2>4. returned \in BOOLEAN
    BY <2>1
  <2> QED
    BY <2>1, <2>3, <2>4 DEF SpanTypeOK
<1>2. WritesItsSpanOnly
  BY DEF SpanInit, WritesItsSpanOnly
<1>3. ResultsSoFar /\ SourcesIntact
  BY DEF SpanInit, ResultsSoFar, SourcesIntact
<1> QED
  BY <1>1, <1>2, <1>3 DEF SpanInit, SpanInv

\* Every register, and the tail, extends what is written.
LEMMA SpanStep == SpanInv /\ [SpanNext]_span_vars => SpanInv'
<1> SUFFICES ASSUME SpanInv, [SpanNext]_span_vars
             PROVE  SpanInv'
  OBVIOUS
<1>1. /\ call.length \in Nat /\ call.lanes \in Nat \ {0} /\ done \in Nat
      /\ done <= call.length
  BY CallFacts DEF SpanInv, SpanTypeOK
<1>2. CASE FullRegister
  <2>1. done + call.lanes <= call.length
    BY <1>1, <1>2 DEF FullRegister, Remaining
  <2> QED
    BY <1>1, <1>2, <2>1, StoreStep DEF FullRegister
<1>3. CASE StagedTail
  <2> DEFINE count == Remaining
  <2>1. /\ count \in Nat \ {0} /\ done + count <= call.length
        /\ done + count = call.length
    BY <1>1, <1>3 DEF StagedTail, Remaining
  <2>2. /\ mem' = StoredBack(done, count, Transformed(done, count))
        /\ done' = done + count /\ UNCHANGED <<call, returned>> /\ ~returned
    BY <1>3, <2>1 DEF StagedTail
  <2> HIDE DEF count
  <2> QED
    BY <2>1, <2>2, StoreStep
<1>4. CASE Return
  <2>1. done = call.length /\ UNCHANGED <<call, mem, done>>
    BY <1>1, <1>4 DEF Return, Remaining
  <2> QED
    BY <1>4, <2>1
    DEF Return, SpanInv, SpanTypeOK, WritesItsSpanOnly, Safe, ReadBeforeWritten, ResultsSoFar,
        SourcesIntact
<1>5. CASE UNCHANGED span_vars
  BY <1>5
  DEF span_vars, SpanInv, SpanTypeOK, WritesItsSpanOnly, Safe, ReadBeforeWritten, ResultsSoFar,
      SourcesIntact
<1> QED
  BY <1>2, <1>3, <1>4, <1>5
  DEF SpanNext, Step, transform_in_place, transform_unary, transform_binary, Bitwise

\* The loop never counts past the span, for any length and register width.
THEOREM SpanTypeCorrect == SpanSpec => []SpanTypeOK
<1>1. SpanInv => SpanTypeOK
  BY DEF SpanInv
<1> QED
  BY <1>1, SpanStart, SpanStep, PTL DEF SpanSpec

\* transform stores nothing outside its destination: whatever the callback makes
\* of the padded lanes of the last register stays in the register.
THEOREM WritesOnlyItsSpan == SpanSpec => []WritesItsSpanOnly
<1>1. SpanInv => WritesItsSpanOnly
  BY DEF SpanInv
<1> QED
  BY <1>1, SpanStart, SpanStep, PTL DEF SpanSpec

\* For a destination at or before its sources, or clear of them, transform is the
\* element-wise map, for every callback F, length, alignment and register width.
THEOREM MapsItsSources == SpanSpec => []MapsTheOriginal
<1>1. SpanInv => MapsTheOriginal
  BY CallFacts DEF SpanInv, SpanTypeOK, MapsTheOriginal, Safe, ResultsSoFar
<1> QED
  BY <1>1, SpanStart, SpanStep, PTL DEF SpanSpec

-------------------------------------------------------------------------------
(***************************************************************************)
(* The scalar loop                                                         *)
(***************************************************************************)
\* Induction over a set: every natural number is in it.
LEMMA SetInduction ==
  ASSUME NEW S, 0 \in S, \A n \in Nat : n \in S => n + 1 \in S
  PROVE  Nat \subseteq S
<1> DEFINE T == Nat \ S
           R == OpToRel(<, Nat)
<1> SUFFICES ASSUME T # {} PROVE FALSE
  OBVIOUS
<1>1. PICK n \in T : \A m \in T : ~(<<m, n>> \in R)
  BY WFMin, NatLessThanWellFounded
<1>2. n \in Nat /\ n # 0
  OBVIOUS
<1>3. n - 1 \in Nat /\ (n - 1) + 1 = n /\ n - 1 < n
  BY <1>2
<1>4. n - 1 \in T
  BY <1>3
<1>5. <<n - 1, n>> \in R
  BY <1>2, <1>3, Zenon DEF OpToRel
<1> QED BY <1>1, <1>4, <1>5

\* An operand of the loop's next element: a result, where one is already stored.
Operand(s, at, before) ==
  IF at - s.write \in DOMAIN before THEN before[at - s.write] ELSE Initial[at]

\* The results of the first n elements from those before the last of them.
Extended(s, before, n) ==
  [j \in 0 .. n - 1 |->
     IF j < n - 1 THEN before[j]
     ELSE F(Operand(s, s.lhs + j, before), Operand(s, s.rhs + j, before))]

Results(s, loop, n) == IF n = 0 THEN [j \in {} |-> Padding] ELSE Extended(s, loop[n - 1], n)

\* ScalarLoop's recursive function.
Loop(s) == CHOOSE loop : loop = [n \in 0 .. s.length |-> Results(s, loop, n)]

\* The scalar loop is Loop at the length of the span.
LEMMA LoopIsScalarLoop == ScalarLoop = Loop(call)[call.length]
BY DEF ScalarLoop, Loop, Results, Extended, Operand

\* The recursion defines a function: one that is right up to n has a next element.
LEMMA LoopUnfolds ==
  ASSUME NEW s \in Calls
  PROVE  Loop(s) = [n \in 0 .. s.length |-> Results(s, Loop(s), n)]
<1> DEFINE IsLoop(g, n) == g = [i \in 0 .. n |-> Results(s, g, i)]
           S == {n \in Nat : \E g : IsLoop(g, n)}
<1>1. 0 \in S
  <2> DEFINE none == [j \in {} |-> Padding]
             g == [i \in 0 .. 0 |-> none]
  <2>1. \A i \in 0 .. 0 : Results(s, g, i) = none
    BY DEF Results
  <2> HIDE DEF none
  <2>2. IsLoop(g, 0)
    BY <2>1
  <2> QED BY <2>2
<1>2. ASSUME NEW n \in Nat, n \in S
      PROVE  n + 1 \in S
  <2>1. PICK g : IsLoop(g, n)
    BY <1>2
  <2> DEFINE h == [i \in 0 .. n + 1 |-> IF i <= n THEN g[i] ELSE Extended(s, g[n], n + 1)]
  <2>2. ASSUME NEW i \in 0 .. n + 1
        PROVE  h[i] = Results(s, h, i)
    <3>1. CASE i = 0
      BY <2>1, <3>1 DEF Results
    <3>2. CASE i # 0
      <4>1. i - 1 \in 0 .. n /\ i - 1 \in 0 .. n + 1 /\ i - 1 <= n
        BY <3>2
      <4>2. h[i - 1] = g[i - 1]
        BY <4>1
      <4>3. CASE i <= n
        <5>1. i \in 0 .. n /\ h[i] = g[i]
          BY <4>3
        <5>2. g[i] = Results(s, g, i)
          BY <2>1, <5>1
        <5> HIDE DEF h
        <5> QED BY <3>2, <4>2, <5>1, <5>2 DEF Results
      <4>4. CASE ~(i <= n)
        <5>1. i = n + 1 /\ i - 1 = n /\ h[i] = Extended(s, g[n], n + 1)
          BY <4>4
        <5> HIDE DEF h
        <5> QED BY <3>2, <4>2, <5>1 DEF Results
      <4> QED BY <4>3, <4>4
    <3> QED BY <3>1, <3>2
  <2>3. h = [i \in 0 .. n + 1 |-> h[i]]
    OBVIOUS
  <2> HIDE DEF h
  <2>4. IsLoop(h, n + 1)
    BY <2>2, <2>3
  <2> QED BY <2>4
<1> HIDE DEF S
<1>3. s.length \in S
  BY <1>1, <1>2, SetInduction, CallFacts
<1>4. \E g : g = [i \in 0 .. s.length |-> Results(s, g, i)]
  BY <1>3 DEF S
<1> QED BY <1>4, Zenon DEF Loop

\* A result that is stored stays.
LEMMA LoopGrows ==
  ASSUME NEW s \in Calls, NEW n \in 0 .. s.length
  PROVE  /\ DOMAIN Loop(s)[n] = 0 .. n - 1
         /\ \A j \in 0 .. n - 1 : Loop(s)[n][j] = Loop(s)[j + 1][j]
<1> DEFINE Grows(m) == /\ DOMAIN Loop(s)[m] = 0 .. m - 1
                       /\ \A j \in 0 .. m - 1 : Loop(s)[m][j] = Loop(s)[j + 1][j]
           S == {m \in Nat : m <= s.length => Grows(m)}
<1>1. s.length \in Nat
  BY CallFacts
<1>2. \A m \in 0 .. s.length : Loop(s)[m] = Results(s, Loop(s), m)
  <2>1. Loop(s) = [m \in 0 .. s.length |-> Results(s, Loop(s), m)]
    BY LoopUnfolds
  <2> QED BY <2>1
<1>3. 0 \in S
  <2>1. Loop(s)[0] = [j \in {} |-> Padding]
    BY <1>1, <1>2 DEF Results
  <2>2. DOMAIN Loop(s)[0] = {} /\ 0 .. 0 - 1 = {}
    BY <2>1
  <2> QED BY <2>2
<1>4. ASSUME NEW m \in Nat, m \in S
      PROVE  m + 1 \in S
  <2> SUFFICES ASSUME m + 1 <= s.length
               PROVE  Grows(m + 1)
    OBVIOUS
  <2>1. Grows(m)
    BY <1>1, <1>4
  <2>2. Loop(s)[m + 1] = Extended(s, Loop(s)[m], m + 1)
    <3>1. m + 1 \in 0 .. s.length /\ m + 1 # 0 /\ (m + 1) - 1 = m
      BY <1>1
    <3> QED BY <1>2, <3>1 DEF Results
  <2>3. DOMAIN Loop(s)[m + 1] = 0 .. (m + 1) - 1
    BY <2>2 DEF Extended
  <2>4. ASSUME NEW j \in 0 .. (m + 1) - 1
        PROVE  Loop(s)[m + 1][j] = Loop(s)[j + 1][j]
    <3>1. CASE j < m
      <4>1. j \in 0 .. m - 1 /\ j < (m + 1) - 1
        BY <3>1
      <4>2. Loop(s)[m + 1][j] = Loop(s)[m][j]
        BY <2>2, <4>1 DEF Extended
      <4> QED BY <2>1, <4>1, <4>2
    <3>2. CASE ~(j < m)
      <4>1. j = m
        BY <3>2
      <4> QED BY <4>1
    <3> QED BY <3>1, <3>2
  <2> QED BY <2>3, <2>4
<1>5. n \in S
  <2> HIDE DEF S
  <2> QED BY <1>1, <1>3, <1>4, SetInduction
<1> QED BY <1>1, <1>5

\* Element j of the loop reads results below j and the memory everywhere else.
LEMMA ScalarElement ==
  ASSUME NEW s \in Calls, NEW j \in 0 .. s.length - 1
  PROVE  LET Source(at) == IF at - s.write \in 0 .. j - 1
                           THEN Loop(s)[s.length][at - s.write] ELSE Initial[at]
         IN  Loop(s)[s.length][j] = F(Source(s.lhs + j), Source(s.rhs + j))
<1> DEFINE L == s.length
<1>1. L \in Nat /\ j \in Nat /\ j + 1 \in 0 .. L /\ j \in 0 .. L /\ L \in 0 .. L
  BY CallFacts
<1>2. \A i \in 0 .. j - 1 : Loop(s)[s.length][i] = Loop(s)[j][i]
  <2>1. ASSUME NEW i \in 0 .. j - 1
        PROVE  Loop(s)[L][i] = Loop(s)[j][i]
    <3>1. i \in 0 .. L - 1
      BY <1>1
    <3>2. Loop(s)[L][i] = Loop(s)[i + 1][i] /\ Loop(s)[j][i] = Loop(s)[i + 1][i]
      BY <1>1, <3>1, LoopGrows
    <3> QED BY <3>2
  <2> QED BY <2>1
<1>3. Loop(s)[s.length][j] = Loop(s)[j + 1][j]
  BY <1>1, LoopGrows
<1>4. Loop(s)[j + 1] = Extended(s, Loop(s)[j], j + 1)
  <2>1. Loop(s)[j + 1] = Results(s, Loop(s), j + 1)
    <3>1. Loop(s) = [n \in 0 .. L |-> Results(s, Loop(s), n)]
      BY LoopUnfolds
    <3> QED BY <1>1, <3>1
  <2>2. j + 1 # 0 /\ (j + 1) - 1 = j
    BY <1>1
  <2> QED BY <2>1, <2>2 DEF Results
<1>5. Loop(s)[j + 1][j] = F(Operand(s, s.lhs + j, Loop(s)[j]), Operand(s, s.rhs + j, Loop(s)[j]))
  <2>1. j \in 0 .. (j + 1) - 1 /\ ~(j < (j + 1) - 1)
    BY <1>1
  <2> QED BY <1>4, <2>1 DEF Extended
<1>6. DOMAIN Loop(s)[j] = 0 .. j - 1
  BY <1>1, LoopGrows
<1>7. \A at : Operand(s, at, Loop(s)[j]) =
                IF at - s.write \in 0 .. j - 1 THEN Loop(s)[s.length][at - s.write]
                ELSE Initial[at]
  BY <1>2, <1>6 DEF Operand
<1> QED BY <1>3, <1>5, <1>7

-------------------------------------------------------------------------------
(***************************************************************************)
(* Registers and the scalar loop                                           *)
(***************************************************************************)
\* Every source is read before it is overwritten, or the destination runs ahead of
\* it by a register or more.
Apart ==
  \A at \in {call.lhs, call.rhs} :
    ReadBeforeWritten(at) \/ call.write >= at + call.lanes

\* Only the part of the destination that has been passed is written.
RestUntouched ==
  \A c \in Cells : c \notin call.write .. call.write + done - 1 => mem[c] = Initial[c]

\* What is written is what the loop has written by then.
LoopSoFar == \A j \in 0 .. done - 1 : mem[call.write + j] = ScalarLoop[j]

ParityInv == SpanInv /\ RestUntouched /\ (Apart => LoopSoFar)

\* A register of count elements reads no result it is about to store.
LEMMA StoreParity ==
  ASSUME ParityInv, NEW count \in Nat \ {0}, count <= call.lanes,
         done + count <= call.length,
         mem' = StoredBack(done, count, Transformed(done, count)),
         done' = done + count, call' = call
  PROVE  RestUntouched' /\ (Apart' => LoopSoFar')
<1>1. /\ call \in Calls /\ done \in Nat /\ RestUntouched
  BY CallFacts DEF ParityInv, SpanInv, SpanTypeOK
<1>2. /\ call.length \in Nat /\ call.lhs \in Nat /\ call.rhs \in Nat /\ call.write \in Nat
      /\ call.lhs + call.length <= Size /\ call.rhs + call.length <= Size
      /\ call.write + call.length <= Size /\ Size \in Nat /\ call.lanes \in Nat
  BY <1>1, CallFacts
<1>3. ASSUME NEW k \in 0 .. count - 1
      PROVE  mem'[call.write + (done + k)] =
               F(mem[call.lhs + (done + k)], mem[call.rhs + (done + k)])
  <2>1. /\ call.write + (done + k) \in Cells
        /\ (call.write + (done + k)) - (call.write + done) = k
    BY <1>1, <1>2 DEF Cells
  <2>2. mem'[call.write + (done + k)] = Transformed(done, count)[k]
    BY <2>1 DEF StoredBack
  <2>3. /\ call.lhs + done + k = call.lhs + (done + k)
        /\ call.rhs + done + k = call.rhs + (done + k)
    BY <1>1, <1>2
  <2> QED BY <2>2, <2>3 DEF Transformed
<1>4. ASSUME NEW c \in Cells, c < call.write + done \/ c >= call.write + done + count
      PROVE  mem'[c] = mem[c]
  <2>1. c - (call.write + done) \notin 0 .. count - 1
    BY <1>1, <1>2, <1>4 DEF Cells
  <2> QED BY <2>1 DEF StoredBack
<1>5. RestUntouched'
  <2> SUFFICES ASSUME NEW c \in Cells, c \notin call.write .. call.write + done' - 1
               PROVE  mem'[c] = Initial[c]
    BY DEF RestUntouched
  <2>1. /\ c \notin call.write .. call.write + done - 1
        /\ c < call.write + done \/ c >= call.write + done + count
    BY <1>1, <1>2 DEF Cells
  <2> QED BY <1>1, <1>4, <2>1 DEF RestUntouched
<1>6. ScalarLoop = Loop(call)[call.length] /\ ScalarLoop' = Loop(call)[call.length]
  <2>1. (ScalarLoop = Loop(call)[call.length])'
    BY LoopIsScalarLoop DEF ScalarLoop, Loop, Results, Extended, Operand
  <2> QED BY <2>1, LoopIsScalarLoop
<1>7. ASSUME Apart
      PROVE  LoopSoFar'
  <2>1. LoopSoFar
    BY <1>7 DEF ParityInv
  <2>2. ASSUME NEW k \in 0 .. count - 1, NEW at \in {call.lhs, call.rhs}
        PROVE  mem[at + (done + k)] =
                 IF (at + (done + k)) - call.write \in 0 .. (done + k) - 1
                 THEN ScalarLoop[(at + (done + k)) - call.write] ELSE Initial[at + (done + k)]
    <3> DEFINE c == at + (done + k)
               i == c - call.write
    <3>1. /\ at \in Nat /\ at + call.length <= Size /\ c \in Cells /\ c \in Nat
          /\ i \in Int /\ call.write + i = c
      BY <1>1, <1>2 DEF Cells
    <3>2. ReadBeforeWritten(at) \/ call.write >= at + call.lanes
      BY <1>7 DEF Apart
    <3>3. CASE i \in 0 .. done - 1
      <4>1. i \in 0 .. (done + k) - 1
        BY <1>1, <3>3
      <4>2. mem[call.write + i] = ScalarLoop[i]
        BY <2>1, <3>3 DEF LoopSoFar
      <4>3. mem[c] = ScalarLoop[i]
        <5> HIDE DEF i
        <5> QED BY <3>1, <4>2
      <4> QED BY <4>1, <4>3
    <3>4. CASE i \notin 0 .. done - 1
      <4>1. i \notin 0 .. (done + k) - 1
        BY <1>1, <1>2, <3>1, <3>2, <3>4 DEF ReadBeforeWritten
      <4>2. c \notin call.write .. call.write + done - 1
        BY <1>1, <1>2, <3>1, <3>4
      <4>3. mem[c] = Initial[c]
        BY <1>1, <3>1, <4>2 DEF RestUntouched
      <4> QED BY <4>1, <4>3
    <3> QED BY <3>3, <3>4
  <2>3. ASSUME NEW j \in 0 .. done' - 1
        PROVE  mem'[call.write + j] = ScalarLoop[j]
    <3>1. CASE j < done
      <4>1. mem'[call.write + j] = mem[call.write + j]
        BY <1>1, <1>2, <1>4, <3>1 DEF Cells
      <4> QED BY <1>1, <2>1, <3>1, <4>1 DEF LoopSoFar
    <3>2. CASE j >= done
      <4> DEFINE k == j - done
      <4>1. k \in 0 .. count - 1 /\ done + k = j /\ j \in 0 .. call.length - 1
        BY <1>1, <1>2, <3>2
      <4> HIDE DEF k
      <4>2. mem'[call.write + j] = F(mem[call.lhs + j], mem[call.rhs + j])
        BY <1>3, <4>1
      <4> DEFINE Source(at) == IF at - call.write \in 0 .. j - 1
                               THEN ScalarLoop[at - call.write] ELSE Initial[at]
      <4>3. mem[call.lhs + j] = Source(call.lhs + j) /\ mem[call.rhs + j] = Source(call.rhs + j)
        BY <2>2, <4>1
      <4>4. ScalarLoop[j] = F(Source(call.lhs + j), Source(call.rhs + j))
        BY <1>1, <1>6, <4>1, ScalarElement
      <4> QED BY <4>2, <4>3, <4>4
    <3> QED BY <1>1, <3>1, <3>2
  <2> QED BY <1>6, <2>3 DEF LoopSoFar
<1>8. Apart' <=> Apart
  BY DEF Apart, ReadBeforeWritten
<1> QED BY <1>5, <1>7, <1>8

\* Every register, and the tail, agrees with the scalar loop so far.
LEMMA ParityStep == ParityInv /\ [SpanNext]_span_vars => ParityInv'
<1> SUFFICES ASSUME ParityInv, [SpanNext]_span_vars
             PROVE  ParityInv'
  OBVIOUS
<1>1. /\ call.length \in Nat /\ call.lanes \in Nat \ {0} /\ done \in Nat
      /\ done <= call.length
  BY CallFacts DEF ParityInv, SpanInv, SpanTypeOK
<1>2. SpanInv'
  BY SpanStep DEF ParityInv
<1>3. CASE FullRegister
  <2>1. done + call.lanes <= call.length
    BY <1>1, <1>3 DEF FullRegister, Remaining
  <2>2. RestUntouched' /\ (Apart' => LoopSoFar')
    BY <1>1, <1>3, <2>1, StoreParity DEF FullRegister
  <2> QED BY <1>2, <2>2 DEF ParityInv
<1>4. CASE StagedTail
  <2> DEFINE count == Remaining
  <2>1. /\ count \in Nat \ {0} /\ done + count = call.length /\ count <= call.lanes
        /\ done + count <= call.length
    BY <1>1, <1>4 DEF StagedTail, Remaining
  <2>2. /\ mem' = StoredBack(done, count, Transformed(done, count))
        /\ done' = done + count /\ call' = call
    BY <1>4, <2>1 DEF StagedTail
  <2> HIDE DEF count
  <2>3. RestUntouched' /\ (Apart' => LoopSoFar')
    BY <2>1, <2>2, StoreParity
  <2> QED BY <1>2, <2>3 DEF ParityInv
<1>5. CASE UNCHANGED <<call, mem, done>>
  <2>1. (ScalarLoop = Loop(call)[call.length])'
    BY DEF ScalarLoop, Loop, Results, Extended, Operand
  <2>2. ScalarLoop' = ScalarLoop
    BY <1>5, <2>1, LoopIsScalarLoop
  <2>3. RestUntouched'
    BY <1>5 DEF ParityInv, RestUntouched
  <2>4. Apart' => LoopSoFar'
    BY <1>5, <2>2 DEF ParityInv, Apart, ReadBeforeWritten, LoopSoFar
  <2> QED BY <1>2, <2>3, <2>4 DEF ParityInv
<1> QED
  BY <1>3, <1>4, <1>5
  DEF SpanNext, Step, Return, span_vars, transform_in_place,
       transform_unary, transform_binary, Bitwise

\* Where the destination runs ahead of a source, by a register or more, transform
\* still does what the scalar loop does, whose results it reads back: for every
\* callback, length, overlap and register width.
THEOREM DoesWhatTheLoopDoes == SpanSpec => []ScalarParity
<1>1. SpanInit => ParityInv
  <2> SUFFICES ASSUME SpanInit PROVE ParityInv
    OBVIOUS
  <2>1. RestUntouched /\ LoopSoFar
    BY DEF SpanInit, RestUntouched, LoopSoFar
  <2> QED BY <2>1, SpanStart DEF ParityInv
<1>2. ParityInv => ScalarParity
  <2> SUFFICES ASSUME ParityInv, returned, Apart,
                      NEW j \in 0 .. call.length - 1
               PROVE  mem[call.write + j] = ScalarLoop[j]
    BY Zenon DEF ScalarParity, Apart
  <2>1. done = call.length
    BY DEF ParityInv, SpanInv
  <2> QED BY <2>1 DEF ParityInv, LoopSoFar
<1> QED
  BY <1>1, <1>2, ParityStep, PTL DEF SpanSpec
===============================================================================
