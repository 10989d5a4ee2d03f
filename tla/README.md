# SimdLib, specified

SimdLib is a header-only C++20/23 library of SIMD registers (`include/SimdLib`)
and the pipeline that builds, validates and benchmarks it on a matrix of
compilers (`tools`, `containers`, `cmake`). This directory specifies the parts
of both whose correctness depends on sequences of steps: TLA+ modules, the TLC
runs that check them on small instances, and TLAPS proofs for all instances.

The library code is sequential; what is hard about it is representation (bits
and lanes that must stay zero although most operations never look at them),
boundaries (words, registers, tails, overlapping spans) and doubling: nearly every
operation exists two or more times - portable and with an instruction, for the
compiler and for run time, for 128 and for 256 bits - and a caller cannot tell
which one answered. The pipeline is concurrent and persistent: child processes
that exit when they like, deadlines, killed builds, source edits while a build
runs, and artifact trees that outlive all of it.

## The system and its parts

| Component | State it keeps | Operations | Interacts with | What makes it correct | Modules |
| --- | --- | --- | --- | --- | --- |
| `Api::transform_pack` (`Api.h` 1698-1799) | pending word, bit and byte counters, destination | batch, tail, append loop, final store | the callback | exactly the bit stream and zero padding is written, each bit once, nothing behind it; it returns | `PackedTransform`, `TransformProofs` |
| `PartialRegister`, `PartialRegisterMask` | one native register each | some 70 operations and observers | `Api` | inactive lanes are zero after every operation; no observer or divider sees them | `PartialRegister`, `PartialRegisterProofs` |
| Cell scheduler (`Run-ContainerMatrix.ps1`) | queues of pending and running cells, logs | start, poll, collect, cancel, clean up | docker clients, the clock | bounded, honest about failures, leaves nothing running, ends | `CellScheduler`, `ContainerProofs` |
| Validation cell (`container-entrypoint.sh`) | build tree, inventories, two manifests | build-validation, test, build-benchmarks, run-benchmarks | the source tree, later operations through the manifests | only executables of the current source are tested | `ValidationCell`, `ContainerProofs` |
| `Api::transform` over spans (`Api.h`) | destination | full registers, staged tail | the callback; bitwise functions of `SimdAlgo` | the element-wise result for the aliasing that is allowed, nothing outside the span | `SpanTransform`, `TransformProofs` |
| `UInt128` | two words | carries, shifts, masks, extraction, `<bit>` | `Bmi` | one 128-bit integer, in every build profile | `Words`, `WideInteger`, `UInt128`, `UInt128Proofs` |
| `Bmi` | none | bit algorithms and instructions | - | portable and hardware forms agree; a word taken apart loses no bit | `Words`, `Bmi`, `BmiProofs` |
| `SimdAlgo`, `SimdResample` | loop positions | compare, reduce, expand, bitwise | `Api` | early exits and tails | `BulkMasks`, `BulkMasksProofs` (and `PackedTransform`, `SpanTransform`) |
| `Api` element operations, `Implementations.h`, `Extensions.h` | registers | all lane operations on integers | instructions | each is its arithmetic in each lane, and what the compiler computes | `Lanes`, `LaneExtensions`, `LaneKernels`, `LaneMoves`, `LaneImplementations`, `ConstantEvaluation`, `LaneOperations`, `LaneProofs`, `EvaluationProofs` |
| `Register`, `RegisterMask`, `SimdVector` | one native value | wrappers, each one call of `Api` | `Api` | as the lane operations | not modelled |
| Receipts (`Build.ps1`, `Run-Tests.ps1`) | receipt files | write, assert | the cells' manifests | a test run is of the build its receipt names | not modelled |
| Child pipelines (`Pipeline.Common.psm1`) | child processes | start, wait, kill | scripts | every failure is reported, no child is left | not modelled |
| Native matrix (`Run-NativeMatrix.ps1`) | as a cell, per preset | as a cell | - | as a cell | not modelled |
| Concepts, configuration, formatting, code generation comparison, matrix data checks | none at run time | - | - | decided by the compiler, or text | not modelled |

`PROJECT.json` lists the components with their files, every hazard with its
line and the properties that guard it, and the source lines of every definition.

## The modules

### PackedTransform

One instance of the template per behaviour (`shape`). The *data* of a bit is
where it comes from: bit `n` of the logical stream is the token `n`, and `Noise`,
`Zero`, `Mixed`, `Unwritten` name what must not be confused with it. So
`PackedExact` is about positions, and any wrong shift or mask shows up.
`TransformBatch` and `TransformTail` are the two calls of the callback, `Append`
is one iteration of the `while` loop with its flush, `Finish` the final `memcpy`.
`phase` is the program counter. Sizes are in bits; the memory has one guard word
behind the destination.

### PartialRegister

A register is the set of its one-bits, over all *physical* lanes. Every action
computes on all of them, and masks the result only where the C++ calls
`normalize_native`. `LaneOp` is a constant: what a lane operation computes is not
what the invariant rests on, only that the operations the class leaves unmasked
map zero lanes to zero (`LaneOpAssumption`). Rearrangements, shifts, comparisons,
masks and the dot-product immediates are modelled bit by bit. Byte and bit shifts
of the whole register are one action, since a byte is scaled to a bit; a mask is
compared, combined or imported (`ImportMask`). The observers (equality, lane bits,
minimum and maximum position) and the declared lane counts of results of another
type (widened, combined, `lower_half`, `bit_cast`, `convert`) are operators over a
reachable state.

### CellScheduler

`Invoke-CellOperations` statement by statement: `Start`, `CheckDeadline`, `Poll`
(with its sleep), `Collect`, and the `finally` block as `Kill`, `CompleteRun`,
`ComposeDown`. Four kinds of exception are actions of their own: a start, the
writing of a log, a kill, the cleanup. A child is the docker client (`process`)
and its container (`containers`): killing the first does not stop the second.
`captured` is the `Captured` flag that keeps a failure from being replayed twice.

### ValidationCell

Each operation is a shell script under `set -e`; its steps are actions and a crash or
a failing command may come at any of them. A file that was built *is* the content of
the source it was built from, and so is a digest and an inventory entry. The hash of
`CMakeCache.txt` says less: `Configured(source, cache)` is what CMake makes of a
source and of the cache it finds, so an edit may leave the cache as it is, and an old
value may survive an edit. All that is assumed of it is that configuring again without
an edit changes nothing. `Edit` changes the source between any two steps, since the
checkout is mounted into the container. `RemoveManifest` at the start and
`WriteManifest` by rename at the end frame the build; `Validated` is what `test`
compares before it runs. Digests are taken in one step, although the script reads file
after file. One operation runs at a time in a cell. The admission to a test is about
the executables. `ctest` also runs a few `cmake -P` scripts from the source tree
(`RuntimeTests.cmake` 265-279, 361-365), which an edit after the validation may still
change; the properties say nothing of them.

### SpanTransform

A `call` is its overload, length, the places of its spans in one memory, and
the register width. `FullRegister` is one iteration of the loop - load, callback,
store - and `StagedTail` the copy through the zero-filled array, with as many
elements copied back as were staged. Elements are terms built from the initial
contents by a free `F`, so a result shows what it was computed from, and when it
was read. The bitwise functions of `SimdAlgo` are the overload `"bitwise"`.

### WideInteger and UInt128

`WideInteger` is the abstract specification: one unsigned integer of `Width` bits,
calls, and what each promises - arithmetic modulo `2^Width`, total shifts, the
functions of `<bit>`. `UInt128` is the class: two words of `H` bits, every
operator word by word with its carries, borrows, special counts (zero, one word,
two words and more) and the three build profiles (`optimized` with carry
intrinsics and vector logic, `portable`, `scalar`). It implements the abstract
specification under the mapping `value <- Joined(m_data)`, instantiated as `Wide`;
a call takes two steps in both, so the mapping is exact step for step. Words are
sets of bit positions (`Words`).

### Bmi

Each function in its portable formula and, where there is one, as the BMI1 or
BMI2 instruction; `native` says which a behaviour uses. The instructions are the
vendor's and are given by their definition. Actions are the loops callers write:
take the lowest bit, the lowest run, the highest run, a field of several bits,
until the word is empty. The stateless helpers are checked at every word. A word
has any even number of bits; the constants that are 32 bits wide in the code
whatever the word is (the stage masks of the partial sums) are so here, and
`Staged` says what that makes of a position behind them.

### BulkMasks

The SSE4.2 and the portable builds of `AnyEqual`, `AllEqual`, the three reductions
and `Expand`. Each register processed is an action, the partial one at the end
another; `Compare` is a `transform_pack` and so in `PackedTransform`.

### The lanes

Five layers, as in the code. `Lanes` has the instructions, external. Above it,
`LaneExtensions` is `Extensions.h` (8-bit lanes in pairs of 16, 64-bit products
from halves, unsigned orders from signed ones, shuffles by a run-time control),
`LaneKernels` and `LaneMoves` the compositions of `Implementations.h`, and
`LaneImplementations` its specialisations: a table of what each element type has
other than the instruction of its width. `ConstantEvaluation` is the other half of
`Api.h`, the loops a compiler runs in place of instructions. `LaneOperations` is
their composition: an element type and a width are chosen, two operands given, an
operation called, and the predicate a comparison leaves can go on into `select` or
the lane and byte masks. The root a checked magnitude starts from is computed as the
code computes it, with doubles: `Double` rounds to a significand of `Precision` bits
(53 in the code), and so do the sum of squares, the root and the addition of one half.
What the code then corrects (`magnitude_round_sqrt_u64`) and what it does not
(`magnitude_round_sqrt_u128`) shows in two properties, `MagnitudeIsExact` and
`WideMagnitudeIsClose`. An operation on *values* sees lanes of 3 or 4 bits, one
that only *moves* sees bytes with tags.

## The runs

| Run | Instance | Distinct states | Shows |
| --- | --- | --- | --- |
| `packed_transform` | scaled shapes: full-width results, widths that do not divide the word, batches that cross it, tails, single words | 1343 | `StreamPrefix`, `PackedExact`, `StoredOnce`, `Returns` |
| `partial_register` | two registers; one group of 4 lanes (3 active), 2 two-bit lanes (1), 4 signed two-bit lanes (2), two groups of 2 (3) | 2080 | `ZeroSuffix`, `CanonicalMask`, `ObserversSeeActiveLanes`, `NoZeroDivisor`, `ResultsFitTheirType` |
| `cell_scheduler` | 3 cells, 2 at a time, a deadline, up to 2 kinds of fault | 5764 | the safety properties and both liveness properties |
| `validation_cell` | 3 contents, one of which keeps the cache it finds, 2 test executables and a consumer, 2 crashes | 170697 | only current executables are tested or benchmarked |
| `validation_cell_revert` | the same, and an edit may restore an earlier content | - | a violation, see below |
| `span_transform` | a memory of 7, registers of 2 and 4 elements: every length, every overlap, every overload | 11995 | `MapsTheOriginal`, `WritesItsSpanOnly`, `ScalarParity` |
| `uint128` | words of 3 bits, extraction operands of 4, three profiles | 174600 | `ImplementsWideInteger` |
| `bmi` | words of 6 bits, indices of 4 bits, both forms | 1890 | `NoBitLostOrTwice`, `ScanEnds`, `FormsAgree`, `DepositExtractInverse`, `ContractsHold` |
| `bmi_index` | the same | - | a violation, see below |
| `bulk_masks` | bytes of 2 bits, registers of 2 and 4, spans up to 6 elements or 3 groups | 185064 | `ComparesItsElements`, `ReducesByPosition`, `ExpandsByPosition` |
| `lanes` | all eight integer types, both widths; lanes of 3 bits (64-bit lanes: 4), doubles of 3 significant bits | 458020 | `RunTimeAgreesOnValues`, `RunTimeAgreesOnMoves`, `ArithmeticIsExact`, `MagnitudeIsExact`, `WideMagnitudeIsClose` |
| `multiply_saturated` | the same | - | a violation, see below |

Why the bounds are enough: in `PackedTransform` the shapes have every relation of
word, register and unit that the `static_assert`s admit at least once, and the
proofs cover the rest. In `PartialRegister` both group counts, a lane of one and
of several bits, signed and unsigned lanes and every position of the boundary
within a group occur; from any native register every operation is applied to
every other value, and the proofs cover all shapes. Three cells on two places is
the least that has one waiting, one exiting and one that hangs; `MaxFaults` bounds
the *kinds* of faults, each may strike repeatedly. Three contents let the source
change twice under one build; two crashes interrupt a build and the one after it.

A memory of 7 holds a register of 4 with a tail, or three of 2 with one, ahead of a
source by less than, exactly and more than a register; the proofs cover every size. In
`UInt128` all 64 values of the integer occur; counts reach past twice the width,
starts and lengths past both words, and second operands and scalars include those that
carry through both words. In `Bmi` all 64 words occur, with two runs and gaps on
either side, and indices beyond the word. In `BulkMasks` every content of a full
register followed by every partial one occurs. In the lanes every pair of values meets
in lane 0, the lowest by minus one included, and the other lanes hold patterns with
equal, rising and falling values; three bits are the least that distinguish a sign, a
saturation and a wrap, and four let a 64-bit lane be split. A double of three bits can
hold neither every sum of squares nor every root, nor the largest value itself. Moves
use all 16 or 32 bytes at their real positions. What three bits cannot show is a
constant of the code that is wrong for the real width only; constants are written by
what they are for (`SignBit(w)`).

`CHECK_DEADLOCK FALSE` is set for the systems that end: a call of the library
returns, a scan reaches the empty word, the scheduler script exits. `PartialRegister`,
`UInt128` and `ValidationCell` never stop.

### Fairness

`PackedTransform` has weak fairness of its only process: a thread that is
scheduled runs. `CellScheduler` has weak fairness of `Script` only: the script is
one thread that is never blocked but by a child. Children and the clock have
none. So `EndsWithItsChildren` has the exits of the children as an explicit
premise, and `DeadlineEndsTheScript` has none: there the script must kill, and
the exceptions it names are real ones. After a failed start or log the script
waits for the remaining children without killing them, and if one hangs the
deadline no longer helps.

### Findings

`validation_cell_revert`: `docs/ContainerValidation.md` (187-189) says that
manifests bind an artifact to its source digest, "so tests reject stale source
inputs". `build-validation` computes the digest before it configures and builds,
and never compares it again. An edit during the build that is undone before
`test` leaves executables of the intermediate source that the validation admits.
Without such a reversal (`MayRevert = FALSE`) the claim holds, and is proved.

`bmi_index`: `docs/BmiContractMatrix.md` (10) says that `bzhi` returns the source
at an index at or above the width. The instruction reads eight bits of the index:
at 256 it clears the word, where the portable form keeps it. `FormsAgree` is
therefore about the indices that fit those bits.

`multiply_saturated`: `SimdVector.h` (552) says that integer overflow is clamped to
the type's largest value. The unsigned 16-bit product is formed in 32 bits and
packed by an instruction that takes its operand for signed, so a product from
`2^31` on becomes zero. `ArithmeticIsExact` leaves those products out.

Three more differences were met on the way. They have no run of their own; the
invariants leave the affected calls out, and say so:

* `Api::shift_right_arithmetic` of unsigned lanes shifts in zeros when the compiler
  evaluates it (`Api.h` 2335) and repeats the top bit at run time
  (`Implementations.h` 741 and its siblings).
* `absolute` of unsigned lanes of 8, 16 and 32 bits takes them for signed numbers;
  that of 64 bits returns its operand.
* `shuffle_lo` and `shuffle_hi` with a run-time control on 256-bit registers of
  32-bit lanes (`Implementations.h` 5588, 5885) move groups of 32 bits, while
  `docs/ImmediateControlRuntimeNaming.md` (17) speaks of 16-bit halves.

## The proofs

All by `tlapm` 1.4.5, for every value of the constants that satisfies the named
assumptions of the modules (`ShapesAssumption`, `LaneOpAssumption`,
`CellSchedulerAssumption`, `ValidationCellAssumption`, `SpanAssumption`,
`UInt128Assumption`, `BulkAssumption`, `BmiAssumption`, `LaneAssumption`,
`StrideAssumption`, `PrecisionAssumption`; TLC evaluates each on its instance).

* **TransformProofs**, of `PackedTransform`. `StreamPrefix` and `PackedExact` are not
  inductive by themselves. `LoopInv` adds `Bookkeeping` (stored plus pending bits are
  the appended ones, words are stored whole, a full word never stays pending) and
  `InBatch` (what `append` still has to do). The arithmetic of words, batches and
  units is stated once in lemmas; then each action keeps `LoopInv`. Theorems:
  `LoopInvariant`, `TypeCorrect`, `StreamIsPrefix`, `PackedCorrectly`,
  `NeverStoredTwice` (an action property).
* **PartialRegisterProofs.** `TypeOK /\ ZeroSuffix` is inductive. `WriteKeeps` reduces
  a step to "the bits it writes are active"; `InactiveLaneIsZero` and
  `ZeroLanesAreZeroSuffix` translate between bits and lanes. The interesting cases are
  the unmasked ones: lane-wise arithmetic, arithmetic right shifts, `shuffle`, dot
  products, and `unpack_high`, where lane `l` is shown to come from lane `l` or one
  behind it. `MaskInv` adds that the mask is canonical: a comparison is canonical once
  normalised or imported, and mask logic keeps it. What the observers answer follows
  from the two: the search for an extremum is shown to find the first of the least or
  greatest lanes, in the order `Less` of the type, and the filled lanes never to win.
  Theorems: `Invariant`, `TypeCorrect`, `SuffixStaysZero`, `MaskInvariant`,
  `MasksAreCanonical`, `DivisorsNeverZero`, `ResultsFit`, `ObserversAreRight`.
* **ContainerProofs**, of the validation cell (`ValidationInv`). Assumes
  `~MayRevert`. An edit makes the source different from all it ever was, so a digest
  that still equals the digest of the source proves that there was no edit since.
  The invariant says of every place a digest is kept - the running build, the
  benchmark build, both manifests - that if it is current, all that was built under
  it is of this source. One lemma per action, one step per conjunct. Theorems:
  `ValidationInvariant`, `ValidationTypeCorrect`, `TestsAreCurrent`,
  `BenchmarksAreCurrent`, `ManifestIsExact`.
* **ContainerProofs**, of the scheduler (`IInv`). What the script knows of its
  children is `$running`, so the invariant ties that list to the processes: whoever
  was started and has left the list has exited, is captured, and is in `$failed`
  exactly if it failed (`RunningIsExact`). The finally block does not touch the list;
  there, whoever was started and is not still to be visited has exited
  (`VisitsWaited`). `LoopIsDone` says that a loop left without an exception or a
  cancellation has nothing pending or running, which is what makes an outcome honest.
  An exit of a child, by itself or by a kill, is one lemma (`ExitPreserves`); every
  action of the script has its own. Theorems: `Invariant`, `TypeCorrect`,
  `ConcurrencyIsBounded`, `OutcomeHonest`, `NothingIsLeft`, `ReportedOnce`, for any
  number of cells, places and faults.
* **TransformProofs**, of `SpanTransform`. `SpanInv`: the elements before `done` are
  mapped, and every element of a source that is still to be read is the original one.
  The second part is what overlap endangers; `StoreStep` shows once, for a register
  and for the tail, that a store behind the reads keeps both. `ScalarParity` also
  allows a destination that runs ahead by a register or more, where results are read
  back as operands. `ParityInv` therefore says of all of memory that it is original
  (`RestUntouched`) or, where it is written, a result of that loop (`LoopSoFar`). That
  the loop of the property, a recursive function, is defined at all is shown first
  (`LoopUnfolds`), by induction over a set. Theorems: `SpanTypeCorrect`,
  `WritesOnlyItsSpan`, `MapsItsSources`, `DoesWhatTheLoopDoes`, for every memory, span
  and register width.
* **UInt128Proofs.** The whole refinement of `WideInteger`. For the calls that move
  or combine bits, `Joined` of two words is unfolded bit by bit: `InLeft`, `InRight`
  and `InFunnel` say where a bit of a shifted word, or of two words shifted together,
  comes from; the lemmas per call split on the count (zero, less than a word, a word
  and more, all of it), as the code does. For the calls that compute, two words are a
  number in base `2^H` (`JoinedNum`), with the lemmas on words and their numbers taken
  from `BmiProofs` by instance, at twice the width. `CarryExact` and `BorrowExact`
  show both forms of the carry - the builtin and the portable comparison - to be what
  the word does not hold, and the sum of two integers follows digit by digit. The
  powers `bit_ceil` and `bit_floor` and the counts rest on the highest and lowest one
  of the integer being that of one of its words (`TopOne`, `LowestOne`). Then every
  action is a step of `WideInteger` (`StepImplements`). Theorems: `TypeCorrect`
  and `TwoWordsAreOneInteger`, for every word width and profile.
* **BulkMasksProofs.** The three properties are not inductive. `BulkInv` adds
  `Passed` (an undecided comparison has met no deciding element) and `WholeGroups`
  (the span of a reduction is complete groups). Positions in groups, registers and
  tails are lemmas; the portable reduction, which looks a parity up by half bytes, is
  right because the bits its shift brings in from the neighbouring byte are masked
  off. Theorems: `Invariant`, `ComparisonsAreRight`, `ReductionsKeepPositions`,
  `ExpansionsKeepPositions`, for every byte and register width and span length.
* **BmiProofs.** The formulas of `Bmi.h` are arithmetic on words, and a word here is
  a set of positions, its number a fold. What the provers can use of `2^k` is that it
  counts the subsets of `1 .. k`; the number of a word is then shown to count the pairs
  of a position and a set of smaller positions, and sums of numbers are unions of
  disjoint sets. Where an induction is needed it is over a set that is itself an
  element (`SetInduction`, `SubsetInduction`), by the least element it leaves out, which
  needs no operator parameter. On this rest the carry and borrow lemmas (`PlusBit`,
  `MinusBit`, `Negative`: where an addition, a subtraction and a negation stop), the
  ends of runs (`FirstOne`, `FirstZero`, `LastOne`), the loops of `pdep` and `pext` in
  closed form (`Deposited`, `Extracted`), the schoolbook product of `mulx`, and the
  sums over stages, in any order (`AddsSums`). The invariant of the scans, `ScanInv`,
  is the two properties and where a scan starts. Theorems: `ScanLosesNothing`,
  `ScanTerminates`, `DepositAndExtractInvert`, `FormsAreEqual`, `ContractsAreKept`,
  for every even width. `bmi` runs on six bits; that the stage masks end at bit 32
  is seen only by the theorem.

* **LaneProofs.** A call reads its operands and leaves them, so the invariant is
  `OperandsFit` - the operands are registers of the type of the Api in use - together
  with `Exact(call.op, result)`, which says of every lane of a result what
  `ArithmeticIsExact` does. The tables of the specialisations come first
  (`Arithmetic_*`, `Lanewise_*`, and `ArithmeticIs`, `LanewiseIs` over all types): which
  function a call reaches for a type and register width. A lemma on each function then
  says what is in its lanes, from the instructions up: 8-bit products out of 16-bit
  ones (`MulEpi8Is`), 64-bit products out of halves (`MulloEpi64Is`), unsigned orders
  of 64-bit lanes out of signed ones (`CmpgtEpu64Is`), magnitudes by masks
  (`AbsEpi64Is`), saturating products and pairs in twice the width (`Multiply128`,
  `PairsEpu16`), adjacent products by extension, by parity and by permutation
  (`ByExtension128`, `ByParity`, `ByExtension256`). A lane as a set of bits, where an
  instruction works on bits, is related to its number by the lemmas of `BmiProofs`,
  cited through an instance. Theorems: `OperandsAlwaysFit`, `ArithmeticAlwaysExact`,
  for lanes of any width (64-bit ones an even width), all eight types and both
  registers. The proof uses of an operand only that it is a register, so the result
  is of all operands, not only of the patterns `Init` gives. It says nothing, as the
  property says nothing, of `absolute` of unsigned lanes of 8, 16 and 32 bits and of
  saturated products of unsigned 16-bit lanes that reach half of the double width.
* **EvaluationProofs.** What the compiler makes of a call (`ConstantEvaluation`) is
  what it returns at run time (`LaneImplementations`), for the operations whose two
  ways compute on values: comparisons, `select` and the lane and byte masks of what a
  comparison left, shifts by any count, and the positions of the extrema. 8-bit lanes
  are shifted in 16-bit ones, with what crosses into the neighbour masked off
  (`SlliEpx8Is`, `SraiEpx8Is`). The search for an extremum halves a register until one
  lane leads: two groups that meet are led by the first of the least lanes, provided
  the second lead must be strictly less (`LeadsMeet`). A predicate is passed on by a
  later call, so the invariant is the property itself, of the last call, with
  `EvaluatedOnValues`: that the predicate is the one of these operands, and so all ones
  or zero in every lane, follows. Theorem: `RunTimeAlwaysAgreesOnValues`, for all types,
  both registers, lanes of any width, any operands and any count.

Only model-checked:

* `RunTimeAgreesOnMoves`: many small tables of shuffles and immediates over bytes at
  fixed positions; on 16 and 32 bytes the run is exhaustive in the positions already.
* `MagnitudeIsExact` and `WideMagnitudeIsClose`: nearest doubles and roots, by
  `CHOOSE` over products, and sums over the lanes of a half, which are recursive in
  their definition.
* Liveness: `Returns`, `DeadlineEndsTheScript`, `EndsWithItsChildren` are beyond the
  prover.

## Not modelled, and why

* Floating point: lanes of `float` and `double`, `sqrt`, the unchecked
  `magnitude` and the conversions to and from them; rounding is the hardware's. The
  doubles a checked magnitude of integers goes through are modelled (`LaneKernels`).
* `sad`, `mpsadbw`, `maddubs` and the widening conversions: single instructions.
* `Register`, `RegisterMask` and `SimdVector`: each operation is one call of an
  `Api` operation of `LaneOperations`, on one native value. What a *partial*
  register adds is in `PartialRegister`.
* Hashing, limits and conversions of `UInt128`: one expression each.
* Loads and stores of a register as such; they are within `SpanTransform`,
  `PackedTransform` and `BulkMasks` where a boundary matters.
* `record-codegen` (a separate cell that writes no manifest),
  `inspect-environment` (no state) and `test-compiler-contracts` (`test` without
  the consumer); two operations at the same time on one cell directory, against
  which the scripts take no lock.
* Receipts, the unified child pipelines and the native matrix: see the plan.
* Concepts, macros, formatting, argument parsing and wording, CMake target
  declarations and the comparison of disassembly text: nothing of them runs
  concurrently or keeps state.

## Plan

What is left, the most important first:

1. `Receipts`: `Build.ps1` and `Run-Tests.ps1` over several cells, each an abstract
   validation cell; `ValidationCell` shown to implement that abstract cell, so that
   the receipt's guarantee composes.
2. `ChildOperations`: `Invoke-PipelineChildOperations`, with the same abstract
   "run children, report all failures" specification that `CellScheduler` implements.
3. Concurrent operations on one cell directory, as a variant of `ValidationCell`
   with two scripts.
