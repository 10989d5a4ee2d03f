--------------------------- MODULE ContainerProofs ---------------------------
(***************************************************************************)
(* The two halves of the container matrix: the scheduler that runs its     *)
(* cells, and a cell that is run.  They share no state, and neither half   *)
(* of this module uses a fact of the other.                                *)
(***************************************************************************)
EXTENDS CellScheduler, ValidationCell, FiniteSetTheorems, TLAPS

-----------------------------------------------------------------------------
(***************************************************************************)
(* The scheduler of the cells keeps its promises for any number of cells   *)
(* and places, and however many faults there are.                          *)
(*                                                                         *)
(* What it knows of the children is $running: whoever is alive is in it,   *)
(* and whoever was started and left it has exited and is captured.  The    *)
(* finally block does not touch that list; there, whoever was started and  *)
(* is not still to be visited has exited.                                  *)
(***************************************************************************)
Started == Range(allRuns)

\* A list of cells, each at most once.
IsList(s) == s \in Seq(Cells) /\ IsInjective(s)

Lists ==
  /\ IsList(pending) /\ IsList(running) /\ IsList(allRuns) /\ IsList(visiting)
  /\ IsList(failed)

\* The rest of the types.
Scalars ==
  /\ pc \in {"fill", "poll", "collect", "kill", "complete", "done"}
  /\ cancelled \in BOOLEAN /\ error \in BOOLEAN /\ expired \in BOOLEAN
  /\ completed \subseteq Cells /\ captured \subseteq Cells
  /\ outcome \in {"none", "passed", "failed", "cancelled", "error"}
  /\ process \in [Cells -> {"none", "alive", "zero", "nonzero"}]
  /\ containers \subseteq Cells
  /\ reported \in [Cells -> Nat]
  /\ faults \subseteq {"start", "log", "kill", "down"}

Trying == pc \in {"fill", "poll", "collect"}

\* Every cell is pending or started, unless its start failed.
Partition ==
  /\ Range(pending) \cap Started = {}
  /\ ~error => Range(pending) \cup Started = Cells
  /\ \A c \in Cells : process[c] = "none" <=> c \notin Started

\* $running is short, and what has left it is finished.
RunningIsExact ==
  /\ Range(running) \subseteq Started
  /\ Len(running) <= MaxParallel
  /\ \A c \in Started \ Range(running) : HasExited(c) /\ c \in captured
  /\ Range(failed) = {c \in Started \ Range(running) : process[c] = "nonzero"}

CompletedHaveExited ==
  pc = "collect" =>
    /\ completed # {}
    /\ completed \subseteq Range(running)
    /\ \A c \in completed : HasExited(c)

\* A loop that was left without an exception or a cancellation is finished.
LoopIsDone ==
  /\ Trying => ~error /\ ~cancelled
  /\ ~Trying /\ ~error /\ ~cancelled => pending = <<>> /\ running = <<>>

\* Each visit of the last foreach has waited for an exit and written the logs.
VisitsWaited ==
  /\ pc \in {"complete", "done"} =>
       /\ \A c \in Started \ Range(visiting) : HasExited(c)
       /\ "log" \notin faults => Started \ Range(visiting) \subseteq captured
  /\ pc = "done" => visiting = <<>>

CapturedOnce ==
  /\ \A c \in captured : HasExited(c)
  /\ \A c \in Cells :
       reported[c] = IF c \in captured /\ process[c] = "nonzero" THEN 1 ELSE 0

OutcomeOfTheEnd ==
  /\ outcome # "none" <=> pc = "done"
  /\ outcome \in {"passed", "failed"} => ~error /\ ~cancelled
  /\ outcome = "passed" => failed = <<>>
  /\ outcome = "failed" => failed # <<>>
  /\ pc = "done" /\ containers # {} => "down" \in faults

IInv ==
  /\ Lists /\ Scalars
  /\ Partition /\ RunningIsExact /\ CompletedHaveExited
  /\ LoopIsDone /\ VisitsWaited /\ CapturedOnce /\ OutcomeOfTheEnd

-------------------------------------------------------------------------------
(***************************************************************************)
(* Lists of cells                                                          *)
(***************************************************************************)

\* An empty list is one of no cells.
LEMMA EmptyList ==
  /\ IsList(<<>>)
  /\ Range(<<>>) = {}
  /\ \A s : IsList(s) /\ Range(s) = {} => s = <<>>
<1>1. IsList(<<>>) /\ Range(<<>>) = {}
  BY DEF IsList, IsInjective, Range
<1>2. ASSUME NEW s, IsList(s), s # <<>>
      PROVE  s[1] \in Range(s)
  BY <1>2 DEF IsList, Range
<1> QED
  BY <1>1, <1>2

\* The cells of a list are cells.
LEMMA ListOfCells ==
  ASSUME NEW s, IsList(s)
  PROVE  Range(s) \subseteq Cells
BY DEF IsList, Range

\* A cell that is new to a list may be appended.
LEMMA AppendList ==
  ASSUME NEW s, IsList(s), NEW c \in Cells, c \notin Range(s)
  PROVE  /\ IsList(Append(s, c))
         /\ Range(Append(s, c)) = Range(s) \cup {c}
         /\ Len(Append(s, c)) = Len(s) + 1
<1> DEFINE t == Append(s, c)
<1>1. t \in Seq(Cells) /\ Len(t) = Len(s) + 1 /\ DOMAIN t = 1 .. Len(s) + 1
  BY DEF IsList
<1>2. /\ \A k \in 1 .. Len(s) : t[k] = s[k]
      /\ t[Len(s) + 1] = c
  BY DEF IsList
<1>3. \A k \in 1 .. Len(s) : s[k] # c
  BY DEF IsList, Range
<1>4. IsInjective(t)
  BY <1>1, <1>2, <1>3 DEF IsList, IsInjective
<1>5. Range(t) = Range(s) \cup {c}
  <2>1. ASSUME NEW k \in DOMAIN t
        PROVE  t[k] \in Range(s) \cup {c}
    BY <1>1, <1>2 DEF IsList, Range
  <2>2. ASSUME NEW k \in DOMAIN s
        PROVE  s[k] \in Range(t)
    BY <1>1, <1>2 DEF IsList, Range
  <2>3. c \in Range(t)
    BY <1>1, <1>2 DEF IsList, Range
  <2> QED
    BY <2>1, <2>2, <2>3 DEF Range
<1> QED
  BY <1>1, <1>4, <1>5 DEF IsList

\* Taking the head of a list takes that cell and no other.
LEMMA TailList ==
  ASSUME NEW s, IsList(s), s # <<>>
  PROVE  /\ IsList(Tail(s))
         /\ Head(s) \in Range(s)
         /\ Range(Tail(s)) = Range(s) \ {Head(s)}
<1> DEFINE t == Tail(s)
<1>1. /\ t \in Seq(Cells) /\ Len(t) = Len(s) - 1 /\ DOMAIN t = 1 .. Len(s) - 1
      /\ \A k \in 1 .. Len(s) - 1 : t[k] = s[k + 1]
      /\ Len(s) \in Nat \ {0} /\ Head(s) = s[1]
  BY DEF IsList
<1>2. IsInjective(t)
  BY <1>1 DEF IsList, IsInjective
<1>3. Range(t) = Range(s) \ {Head(s)}
  <2>1. ASSUME NEW k \in DOMAIN t
        PROVE  t[k] \in Range(s) \ {Head(s)}
    BY <1>1 DEF IsList, IsInjective, Range
  <2>2. ASSUME NEW k \in DOMAIN s, s[k] # Head(s)
        PROVE  s[k] \in Range(t)
    <3>1. k - 1 \in DOMAIN t /\ t[k - 1] = s[k]
      BY <1>1, <2>2 DEF IsList
    <3> QED
      BY <3>1 DEF Range
  <2> QED
    BY <2>1, <2>2 DEF Range
<1>4. Head(s) \in Range(s)
  BY <1>1 DEF IsList, Range
<1> QED
  BY <1>1, <1>2, <1>3, <1>4 DEF IsList

\* So does removing at a position.
LEMMA RemoveList ==
  ASSUME NEW s, IsList(s), NEW i \in DOMAIN s
  PROVE  /\ IsList(RemoveAt(s, i))
         /\ Len(RemoveAt(s, i)) = Len(s) - 1
         /\ Range(RemoveAt(s, i)) = Range(s) \ {s[i]}
<1> DEFINE t == RemoveAt(s, i)
<1>1. s \in Seq(Cells) /\ DOMAIN s = 1 .. Len(s) /\ Len(s) \in Nat /\ i \in 1 .. Len(s)
  BY DEF IsList
<1>2. /\ t \in Seq(Cells) /\ Len(t) = Len(s) - 1 /\ DOMAIN t = 1 .. Len(s) - 1
      /\ \A k \in 1 .. Len(s) - 1 : t[k] = IF k < i THEN s[k] ELSE s[k + 1]
  <2> DEFINE front == SubSeq(s, 1, i - 1)
             back == SubSeq(s, i + 1, Len(s))
  <2>1. front \in Seq(Cells) /\ Len(front) = i - 1 /\ \A k \in 1 .. i - 1 : front[k] = s[k]
    BY <1>1
  <2>2. /\ back \in Seq(Cells) /\ Len(back) = Len(s) - i
        /\ \A k \in 1 .. Len(s) - i : back[k] = s[i + k]
    BY <1>1
  <2>3. t = front \o back
    BY DEF RemoveAt
  <2>4. /\ t \in Seq(Cells) /\ Len(t) = Len(front) + Len(back)
        /\ \A k \in 1 .. Len(front) + Len(back) :
             t[k] = IF k <= Len(front) THEN front[k] ELSE back[k - Len(front)]
    <3> HIDE DEF front, back
    <3> QED
      BY <2>1, <2>2, <2>3
  <2> HIDE DEF front, back, t
  <2>5. ASSUME NEW k \in 1 .. Len(s) - 1
        PROVE  t[k] = IF k < i THEN s[k] ELSE s[k + 1]
    <3>1. CASE k < i
      BY <1>1, <2>1, <2>2, <2>4, <3>1
    <3>2. CASE ~(k < i)
      <4>1. t[k] = back[k - (i - 1)]
        BY <1>1, <2>1, <2>2, <2>4, <3>2
      <4>2. k - (i - 1) \in 1 .. Len(s) - i /\ i + (k - (i - 1)) = k + 1
        BY <1>1, <3>2
      <4> QED
        BY <1>1, <2>2, <3>2, <4>1, <4>2
    <3> QED
      BY <3>1, <3>2
  <2>6. t \in Seq(Cells) /\ Len(t) = Len(s) - 1
    BY <1>1, <2>1, <2>2, <2>4
  <2>7. DOMAIN t = 1 .. Len(s) - 1
    BY <2>6
  <2>8. \A k \in 1 .. Len(s) - 1 : t[k] = IF k < i THEN s[k] ELSE s[k + 1]
    BY <2>5
  <2> QED
    BY <2>6, <2>7, <2>8
<1> HIDE DEF t
<1>3. IsInjective(t)
  <2> DEFINE from(k) == IF k < i THEN k ELSE k + 1
  <2>1. \A k \in DOMAIN t : from(k) \in DOMAIN s /\ t[k] = s[from(k)]
    BY <1>1, <1>2
  <2>2. \A j, k \in DOMAIN t : from(j) = from(k) => j = k
    BY <1>1, <1>2
  <2>3. \A j, k \in DOMAIN s : s[j] = s[k] => j = k
    BY DEF IsList, IsInjective
  <2> HIDE DEF from
  <2> QED
    BY <2>1, <2>2, <2>3 DEF IsInjective
<1>4. Range(t) = Range(s) \ {s[i]}
  <2>1. ASSUME NEW k \in DOMAIN t
        PROVE  t[k] \in Range(s) \ {s[i]}
    BY <1>1, <1>2 DEF IsList, IsInjective, Range
  <2>2. ASSUME NEW k \in DOMAIN s, s[k] # s[i]
        PROVE  s[k] \in Range(t)
    <3>1. CASE k < i
      BY <1>1, <1>2, <2>2, <3>1 DEF Range
    <3>2. CASE k > i
      <4>1. k - 1 \in DOMAIN t /\ t[k - 1] = s[k]
        BY <1>1, <1>2, <3>2
      <4> QED
        BY <4>1 DEF Range
    <3> QED
      BY <1>1, <2>2, <3>1, <3>2
  <2> QED
    BY <2>1, <2>2 DEF Range
<1> QED
  BY <1>2, <1>3, <1>4 DEF IsList, t

\* There is a next completed run when there is one at all.
LEMMA NextIsCompleted ==
  ASSUME IsList(running), completed # {}, completed \subseteq Range(running)
  PROVE  NextCompleted \in DOMAIN running /\ running[NextCompleted] \in completed
<1> DEFINE T == {i \in DOMAIN running : running[i] \in completed}
           R == OpToRel(<, Nat)
<1>1. T \subseteq Nat /\ T # {}
  BY DEF IsList, Range
<1>2. PICK x \in T : \A y \in T : ~(<<y, x>> \in R)
  BY <1>1, WFMin, NatLessThanWellFounded
<1>3. ASSUME NEW y \in T
      PROVE  x <= y
  <2>1. x \in Nat /\ y \in Nat
    BY <1>1
  <2>2. ~(y < x)
    <3>1. y < x => <<y, x>> \in R
      BY <2>1, Zenon DEF OpToRel
    <3> QED
      BY <1>2, <3>1
  <2> QED
    BY <2>1, <2>2
<1>4. NextCompleted \in T
  BY <1>3 DEF NextCompleted, Min
<1> QED
  BY <1>4

-------------------------------------------------------------------------------
(***************************************************************************)
(* The invariant                                                           *)
(***************************************************************************)

\* The script begins with every cell pending.
LEMMA InitInvariant == Init => IInv
<1> SUFFICES ASSUME Init PROVE IInv
  OBVIOUS
<1>1. IsList(CellArtifacts)
  BY CellSchedulerAssumption DEF IsList
<1>2. Lists
  BY <1>1, EmptyList DEF Init, Lists
<1>3. Range(running) = {} /\ Started = {} /\ Range(visiting) = {} /\ Range(failed) = {}
      /\ Len(running) = 0 /\ Range(pending) = Cells
  BY EmptyList DEF Init, Started, Cells
<1>4. Scalars
  BY DEF Init, Scalars
<1>5. Partition
  BY <1>3 DEF Init, Partition
<1>6. RunningIsExact
  BY <1>3, CellSchedulerAssumption DEF Init, RunningIsExact
<1>7. CompletedHaveExited /\ LoopIsDone /\ VisitsWaited
  BY DEF Init, CompletedHaveExited, LoopIsDone, VisitsWaited, Trying
<1>8. CapturedOnce /\ OutcomeOfTheEnd
  BY DEF Init, CapturedOnce, OutcomeOfTheEnd
<1> QED
  BY <1>2, <1>4, <1>5, <1>6, <1>7, <1>8 DEF IInv

\* The finally block begins with all of the runs to complete, or with a list of
\* the running ones to kill.
LEMMA FinallyBegins ==
  ASSUME EnterFinally, IsList(running'), IsList(allRuns'), cancelled' \in BOOLEAN
  PROVE  /\ IsList(visiting')
         /\ \/ cancelled' /\ pc' = "kill"
            \/ ~cancelled' /\ pc' = "complete" /\ visiting' = allRuns'
         /\ ~Trying'
BY DEF EnterFinally, Trying

\* Starting a cell moves it from the pending ones to the running ones.
LEMMA StartPreserves == IInv /\ Start => IInv'
<1> SUFFICES ASSUME IInv, Start PROVE IInv'
  OBVIOUS
<1> DEFINE c == Head(pending)
<1>1. /\ IsList(pending) /\ IsList(running) /\ IsList(allRuns) /\ pending # <<>>
      /\ Len(running) < MaxParallel
  BY DEF IInv, Lists, Start, MayStart
<1>2. c \in Range(pending) /\ IsList(pending') /\ Range(pending') = Range(pending) \ {c}
  BY <1>1, TailList DEF Start
<1>3. c \in Cells /\ c \notin Range(allRuns) /\ c \notin Range(running)
  BY <1>1, <1>2, ListOfCells DEF IInv, Partition, RunningIsExact, Started
<1>4. /\ IsList(running') /\ Range(running') = Range(running) \cup {c}
      /\ Len(running') = Len(running) + 1
  BY <1>1, <1>3, AppendList DEF Start
<1>5. IsList(allRuns') /\ Started' = Started \cup {c}
  BY <1>1, <1>3, AppendList DEF Start, Started
<1> HIDE DEF c
<1>6. /\ process' = [process EXCEPT ![c] = "alive"] /\ containers' = containers \cup {c}
      /\ UNCHANGED <<pc, completed, visiting, failed, cancelled, error, captured, outcome,
                     expired, reported, faults>>
      /\ pc = "fill"
  BY DEF Start, c
<1>7. /\ process \in [Cells -> {"none", "alive", "zero", "nonzero"}]
      /\ process[c] = "none" /\ process'[c] = "alive"
      /\ \A d \in Cells \ {c} : process'[d] = process[d]
  BY <1>3, <1>6 DEF IInv, Scalars, Partition, Started
<1>8. Started \subseteq Cells /\ Started' \ Range(running') = Started \ Range(running)
  BY <1>1, <1>3, <1>4, <1>5, ListOfCells DEF Started
<1>9. Lists'
  BY <1>2, <1>4, <1>5, <1>6 DEF IInv, Lists
<1>10. Scalars'
  BY <1>3, <1>6 DEF IInv, Scalars
<1>11. Partition'
  BY <1>2, <1>3, <1>5, <1>6, <1>7 DEF IInv, Partition, Started
<1>12. RunningIsExact'
  <2>1. Len(running') <= MaxParallel
    BY <1>1, <1>4, CellSchedulerAssumption DEF IsList
  <2>2. Range(running') \subseteq Started'
    BY <1>4, <1>5 DEF IInv, RunningIsExact
  <2>3. \A d \in Started \ Range(running) : d \in Cells \ {c}
    BY <1>3, <1>8 DEF Started
  <2> QED
    BY <1>6, <1>7, <1>8, <2>1, <2>2, <2>3 DEF IInv, RunningIsExact, HasExited
<1>13. CompletedHaveExited' /\ LoopIsDone' /\ VisitsWaited'
  BY <1>6 DEF IInv, CompletedHaveExited, LoopIsDone, VisitsWaited, Trying
<1>14. CapturedOnce'
  BY <1>6, <1>7 DEF IInv, CapturedOnce, HasExited, Scalars
<1>15. OutcomeOfTheEnd'
  BY <1>6 DEF IInv, OutcomeOfTheEnd
<1> QED
  BY <1>9, <1>10, <1>11, <1>12, <1>13, <1>14, <1>15 DEF IInv

\* A start that fails leaves its cell neither pending nor started, and an error.
LEMMA StartFailsPreserves == IInv /\ StartFails => IInv'
<1> SUFFICES ASSUME IInv, StartFails PROVE IInv'
  OBVIOUS
<1>1. IsList(pending') /\ Range(pending') \subseteq Range(pending)
  BY TailList DEF IInv, Lists, StartFails, MayStart
<1>2. /\ UNCHANGED <<running, allRuns, completed, failed, cancelled, captured, outcome,
                     process, containers, expired, reported>>
      /\ faults' = faults \cup {"start"} /\ error' = TRUE /\ EnterFinally
      /\ pc = "fill"
  BY DEF StartFails, Fault
<1>3. /\ IsList(visiting') /\ ~Trying'
      /\ \/ pc' = "kill"
         \/ pc' = "complete" /\ visiting' = allRuns'
  <2>1. IsList(running') /\ IsList(allRuns') /\ cancelled' \in BOOLEAN
    BY <1>2 DEF IInv, Lists, Scalars
  <2> QED
    BY <1>2, <2>1, FinallyBegins
<1>4. Lists' /\ Scalars'
  BY <1>1, <1>2, <1>3 DEF IInv, Lists, Scalars
<1>5. Partition' /\ RunningIsExact'
  BY <1>1, <1>2 DEF IInv, Partition, RunningIsExact, Started, HasExited
<1>6. CompletedHaveExited' /\ LoopIsDone' /\ VisitsWaited'
  BY <1>2, <1>3 DEF CompletedHaveExited, LoopIsDone, VisitsWaited, Trying, Started
<1>7. CapturedOnce' /\ OutcomeOfTheEnd'
  BY <1>2, <1>3 DEF IInv, CapturedOnce, OutcomeOfTheEnd, HasExited
<1> QED
  BY <1>4, <1>5, <1>6, <1>7 DEF IInv

\* The deadline cancels the loop, or the children are polled.
LEMMA CheckDeadlinePreserves == IInv /\ CheckDeadline => IInv'
<1> SUFFICES ASSUME IInv, CheckDeadline PROVE IInv'
  OBVIOUS
<1>1. /\ UNCHANGED <<pending, running, allRuns, completed, failed, error, captured, outcome,
                     process, containers, expired, reported, faults>>
      /\ cancelled' = expired /\ pc = "fill" /\ expired \in BOOLEAN
  BY DEF IInv, Scalars, CheckDeadline
<1>2. \/ ~cancelled' /\ pc' = "poll" /\ visiting' = visiting
      \/ cancelled' /\ pc' = "kill" /\ IsList(visiting')
  BY <1>1, FinallyBegins DEF IInv, Lists, CheckDeadline
<1>3. Lists' /\ Scalars'
  BY <1>1, <1>2 DEF IInv, Lists, Scalars
<1>4. Partition' /\ RunningIsExact'
  BY <1>1 DEF IInv, Partition, RunningIsExact, Started, HasExited
<1>5. CompletedHaveExited' /\ LoopIsDone' /\ VisitsWaited'
  BY <1>1, <1>2 DEF IInv, CompletedHaveExited, LoopIsDone, VisitsWaited, Trying
<1>6. CapturedOnce' /\ OutcomeOfTheEnd'
  BY <1>1, <1>2 DEF IInv, CapturedOnce, OutcomeOfTheEnd, HasExited
<1> QED
  BY <1>3, <1>4, <1>5, <1>6 DEF IInv

\* What the poll finds completed has exited.
LEMMA PollPreserves == IInv /\ Poll => IInv'
<1> SUFFICES ASSUME IInv, Poll PROVE IInv'
  OBVIOUS
<1>1. /\ UNCHANGED <<pending, running, allRuns, visiting, failed, cancelled, error, captured,
                     outcome, process, containers, expired, reported, faults>>
      /\ completed' = {c \in Range(running) : HasExited(c)} /\ pc = "poll"
      /\ pc' = IF completed' = {} THEN "fill" ELSE "collect"
  BY DEF Poll
<1>2. Range(running) \subseteq Cells
  BY ListOfCells DEF IInv, Lists
<1>3. Lists' /\ Scalars'
  BY <1>1, <1>2 DEF IInv, Lists, Scalars
<1>4. Partition' /\ RunningIsExact'
  BY <1>1 DEF IInv, Partition, RunningIsExact, Started, HasExited
<1>5. CompletedHaveExited' /\ LoopIsDone' /\ VisitsWaited'
  BY <1>1 DEF IInv, CompletedHaveExited, LoopIsDone, VisitsWaited, Trying, HasExited
<1>6. CapturedOnce' /\ OutcomeOfTheEnd'
  BY <1>1 DEF IInv, CapturedOnce, OutcomeOfTheEnd, HasExited
<1> QED
  BY <1>3, <1>4, <1>5, <1>6 DEF IInv

\* Collecting a run moves it from the running ones to the captured ones.
LEMMA CollectPreserves == IInv /\ Collect => IInv'
<1> SUFFICES ASSUME IInv, Collect PROVE IInv'
  OBVIOUS
<1> DEFINE i == NextCompleted
           c == running[i]
<1>1. /\ pc = "collect" /\ i \in DOMAIN running /\ c \in completed
      /\ IsList(running) /\ IsList(allRuns) /\ IsList(failed)
      /\ completed \subseteq Range(running)
  BY NextIsCompleted DEF IInv, Lists, CompletedHaveExited, Collect
<1>2. /\ IsList(running') /\ Len(running') = Len(running) - 1
      /\ Range(running') = Range(running) \ {c}
  BY <1>1, RemoveList DEF Collect, WithoutRun
<1>3. /\ captured' = captured \cup {c}
      /\ reported' = IF c \notin captured /\ process[c] = "nonzero"
                     THEN [reported EXCEPT ![c] = @ + 1] ELSE reported
      /\ failed' = IF process[c] = "nonzero" THEN Append(failed, c) ELSE failed
      /\ completed' = completed \ {c}
      /\ UNCHANGED <<pending, allRuns, cancelled, error, outcome, process, containers,
                     expired, faults>>
  BY DEF Collect, Complete, Failed
<1>4. \/ completed' # {} /\ pc' = "collect" /\ visiting' = visiting
      \/ completed' = {} /\ LoopAgain /\ pc' = "fill" /\ visiting' = visiting
      \/ completed' = {} /\ ~LoopAgain /\ EnterFinally
  BY <1>1 DEF Collect
<1> HIDE DEF i, c
<1>5. /\ c \in Cells /\ c \in Range(running) /\ c \in Started /\ HasExited(c)
      /\ Range(running) \subseteq Started /\ Started \subseteq Cells
  BY <1>1, ListOfCells DEF IInv, RunningIsExact, CompletedHaveExited, Started
<1>6. c \notin Range(failed)
  BY <1>5 DEF IInv, RunningIsExact
<1>7. /\ IsList(failed')
      /\ Range(failed') = Range(failed) \cup {d \in {c} : process[d] = "nonzero"}
  <2>1. CASE process[c] = "nonzero"
    <3>1. IsList(failed') /\ Range(failed') = Range(failed) \cup {c}
      BY <1>1, <1>3, <1>5, <1>6, <2>1, AppendList
    <3> QED
      BY <2>1, <3>1
  <2>2. CASE process[c] # "nonzero"
    BY <1>1, <1>3, <2>2
  <2> QED
    BY <2>1, <2>2
<1>8. ~Trying' => pending' = <<>> /\ running' = <<>>
  BY <1>3, <1>4 DEF LoopAgain, Trying
<1>9. /\ IsList(visiting')
      /\ \/ Trying' /\ pc' \in {"fill", "collect"}
         \/ ~Trying' /\ pc' = "kill" /\ cancelled'
         \/ ~Trying' /\ pc' = "complete" /\ visiting' = allRuns'
  <2>1. IsList(allRuns') /\ cancelled' \in BOOLEAN /\ IsList(visiting)
    BY <1>3 DEF IInv, Lists, Scalars
  <2>2. CASE EnterFinally
    BY <1>2, <2>1, <2>2, FinallyBegins
  <2>3. CASE ~EnterFinally
    BY <1>4, <2>1, <2>3 DEF Trying
  <2> QED
    BY <2>2, <2>3
<1>10. Lists'
  BY <1>2, <1>3, <1>7, <1>9 DEF IInv, Lists
<1>11. Scalars'
  BY <1>3, <1>5, <1>9 DEF IInv, Scalars
<1>12. Partition'
  BY <1>3 DEF IInv, Partition, Started
<1>13. RunningIsExact'
  <2>1. Len(running') <= MaxParallel
    BY <1>1, <1>2, CellSchedulerAssumption DEF IInv, RunningIsExact, IsList
  <2>2. Started' = Started
    BY <1>3 DEF Started
  <2>3. Started \ Range(running') = (Started \ Range(running)) \cup {c}
    BY <1>2, <1>5
  <2>4. Range(failed') = {d \in Started \ Range(running') : process[d] = "nonzero"}
    BY <1>7, <2>3 DEF IInv, RunningIsExact
  <2> QED
    BY <1>2, <1>3, <1>5, <2>1, <2>2, <2>3, <2>4 DEF IInv, RunningIsExact, HasExited
<1>14. CompletedHaveExited'
  BY <1>1, <1>2, <1>3, <1>4, <1>9 DEF IInv, CompletedHaveExited, HasExited, Trying, EnterFinally
<1>15. LoopIsDone' /\ VisitsWaited'
  BY <1>1, <1>3, <1>8, <1>9 DEF IInv, LoopIsDone, VisitsWaited, Trying, Started
<1>16. CapturedOnce'
  <2>1. \A d \in captured' : HasExited(d)'
    BY <1>3, <1>5 DEF IInv, CapturedOnce, HasExited
  <2>2. ASSUME NEW d \in Cells
        PROVE  reported'[d] = IF d \in captured' /\ process'[d] = "nonzero" THEN 1 ELSE 0
    BY <1>3, <1>5 DEF IInv, CapturedOnce, Scalars
  <2> QED
    BY <2>1, <2>2 DEF CapturedOnce
<1>17. OutcomeOfTheEnd'
  BY <1>1, <1>3, <1>9 DEF IInv, OutcomeOfTheEnd, Trying
<1> QED
  BY <1>10, <1>11, <1>12, <1>13, <1>14, <1>15, <1>16, <1>17 DEF IInv

\* A log that cannot be written leaves the run where it was.
LEMMA CollectFailsPreserves == IInv /\ CollectFails => IInv'
<1> SUFFICES ASSUME IInv, CollectFails PROVE IInv'
  OBVIOUS
<1>1. /\ UNCHANGED <<pending, running, allRuns, completed, failed, cancelled, captured,
                     outcome, process, containers, expired, reported>>
      /\ faults' = faults \cup {"log"} /\ error' = TRUE /\ EnterFinally
      /\ pc = "collect"
  BY DEF CollectFails, Fault
<1>2. /\ IsList(visiting') /\ ~Trying'
      /\ \/ pc' = "kill"
         \/ pc' = "complete" /\ visiting' = allRuns'
  <2>1. IsList(running') /\ IsList(allRuns') /\ cancelled' \in BOOLEAN
    BY <1>1 DEF IInv, Lists, Scalars
  <2> QED
    BY <1>1, <2>1, FinallyBegins
<1>3. Lists' /\ Scalars'
  BY <1>1, <1>2 DEF IInv, Lists, Scalars
<1>4. Partition' /\ RunningIsExact'
  BY <1>1 DEF IInv, Partition, RunningIsExact, Started, HasExited
<1>5. CompletedHaveExited' /\ LoopIsDone' /\ VisitsWaited'
  BY <1>1, <1>2 DEF CompletedHaveExited, LoopIsDone, VisitsWaited, Trying, Started
<1>6. CapturedOnce' /\ OutcomeOfTheEnd'
  BY <1>1, <1>2 DEF IInv, CapturedOnce, OutcomeOfTheEnd, HasExited
<1> QED
  BY <1>3, <1>4, <1>5, <1>6 DEF IInv

\* An exit, by itself or by a kill, disturbs nothing that relies on other exits.
LEMMA ExitPreserves ==
  ASSUME IInv, NEW c \in Cells, process[c] = "alive", NEW code \in {"zero", "nonzero"},
         process' = [process EXCEPT ![c] = code],
         UNCHANGED <<pc, pending, running, allRuns, completed, failed, cancelled, error,
                     captured, outcome, expired, reported, faults>>,
         containers' \subseteq containers,
         IsList(visiting'), pc # "kill" => visiting' = visiting
  PROVE  IInv'
<1>1. /\ process \in [Cells -> {"none", "alive", "zero", "nonzero"}]
      /\ process'[c] = code /\ code # "none" /\ code # "alive"
      /\ \A d \in Cells \ {c} : process'[d] = process[d]
      /\ \A d \in Cells : HasExited(d) => d # c
  BY DEF IInv, Scalars, HasExited
<1>2. \A d \in Cells : HasExited(d) => HasExited(d)' /\ process'[d] = process[d]
  BY <1>1 DEF HasExited
<1>3. Started \subseteq Cells /\ Started' = Started /\ c \in Started /\ c \in Range(running)
  <2>1. Started \subseteq Cells /\ Started' = Started
    BY ListOfCells DEF IInv, Lists, Started
  <2> QED
    BY <1>1, <2>1 DEF IInv, Partition, RunningIsExact
<1>4. Lists' /\ Scalars'
  BY <1>1 DEF IInv, Lists, Scalars
<1>5. Partition'
  BY <1>1, <1>3 DEF IInv, Partition
<1>6. RunningIsExact'
  BY <1>2, <1>3 DEF IInv, RunningIsExact
<1>7. CompletedHaveExited'
  BY <1>2 DEF IInv, Scalars, CompletedHaveExited
<1>8. LoopIsDone' /\ OutcomeOfTheEnd'
  BY DEF IInv, LoopIsDone, Trying, OutcomeOfTheEnd
<1>9. VisitsWaited'
  BY <1>2, <1>3 DEF IInv, VisitsWaited
<1>10. CapturedOnce'
  BY <1>1, <1>2 DEF IInv, CapturedOnce, Scalars
<1> QED
  BY <1>4, <1>5, <1>6, <1>7, <1>8, <1>9, <1>10 DEF IInv

\* A kill ends a client or fails; either way the next one is visited.
LEMMA KillPreserves == IInv /\ Kill => IInv'
<1> SUFFICES ASSUME IInv, Kill PROVE IInv'
  OBVIOUS
<1> DEFINE c == Head(visiting)
<1>1. /\ UNCHANGED <<pc, pending, running, allRuns, completed, failed, cancelled, error,
                     captured, outcome, containers, expired, reported>>
      /\ pc = "kill"
      /\ \/ /\ process[c] = "alive" /\ process' = [process EXCEPT ![c] = "nonzero"]
            /\ faults' = faults
         \/ process' = process /\ faults' \in {faults, faults \cup {"kill"}}
  BY DEF Kill, Fault
<1>2. c \in Cells /\ IsList(visiting')
  BY TailList, ListOfCells DEF IInv, Lists, Kill
<1> HIDE DEF c
<1>3. CASE process[c] = "alive" /\ process' = [process EXCEPT ![c] = "nonzero"]
           /\ faults' = faults
  BY <1>1, <1>2, <1>3, ExitPreserves
<1>4. CASE process' = process /\ faults' \in {faults, faults \cup {"kill"}}
  <2>1. Lists' /\ Scalars'
    BY <1>1, <1>2, <1>4 DEF IInv, Lists, Scalars
  <2>2. Partition' /\ RunningIsExact'
    BY <1>1, <1>4 DEF IInv, Partition, RunningIsExact, Started, HasExited
  <2>3. CompletedHaveExited' /\ LoopIsDone' /\ VisitsWaited'
    BY <1>1, <1>4 DEF IInv, CompletedHaveExited, LoopIsDone, VisitsWaited, Trying
  <2>4. CapturedOnce' /\ OutcomeOfTheEnd'
    BY <1>1, <1>4 DEF IInv, CapturedOnce, OutcomeOfTheEnd, HasExited
  <2> QED
    BY <2>1, <2>2, <2>3, <2>4 DEF IInv
<1> QED
  BY <1>1, <1>3, <1>4

\* After the kills every run is visited once more.
LEMMA KillsDonePreserves == IInv /\ KillsDone => IInv'
<1> SUFFICES ASSUME IInv, KillsDone PROVE IInv'
  OBVIOUS
<1>1. /\ UNCHANGED <<pending, running, allRuns, completed, failed, cancelled, error, captured,
                     outcome, process, containers, expired, reported, faults>>
      /\ pc = "kill" /\ pc' = "complete" /\ visiting' = allRuns
  BY DEF KillsDone
<1>2. Lists' /\ Scalars'
  BY <1>1 DEF IInv, Lists, Scalars
<1>3. Partition' /\ RunningIsExact'
  BY <1>1 DEF IInv, Partition, RunningIsExact, Started, HasExited
<1>4. CompletedHaveExited' /\ LoopIsDone' /\ VisitsWaited'
  BY <1>1 DEF IInv, CompletedHaveExited, LoopIsDone, VisitsWaited, Trying, Started
<1>5. CapturedOnce' /\ OutcomeOfTheEnd'
  BY <1>1 DEF IInv, CapturedOnce, OutcomeOfTheEnd, HasExited
<1> QED
  BY <1>2, <1>3, <1>4, <1>5 DEF IInv

\* A visit has waited for the exit, and has captured the run unless a log failed.
LEMMA CompleteRunPreserves == IInv /\ CompleteRun => IInv'
<1> SUFFICES ASSUME IInv, CompleteRun PROVE IInv'
  OBVIOUS
<1> DEFINE c == Head(visiting)
<1>1. /\ UNCHANGED <<pc, pending, running, allRuns, completed, failed, cancelled, error,
                     outcome, process, containers, expired>>
      /\ pc = "complete" /\ HasExited(c)
      /\ \/ /\ captured' = captured \cup {c} /\ faults' = faults
            /\ reported' = IF c \notin captured /\ process[c] = "nonzero"
                           THEN [reported EXCEPT ![c] = @ + 1] ELSE reported
         \/ /\ faults' = faults \cup {"log"}
            /\ captured' = captured /\ reported' = reported
  BY DEF CompleteRun, Complete, Fault
<1>2. c \in Cells /\ IsList(visiting') /\ Range(visiting') = Range(visiting) \ {c}
  BY TailList, ListOfCells DEF IInv, Lists, CompleteRun
<1> HIDE DEF c
<1>3. Lists'
  BY <1>1, <1>2 DEF IInv, Lists
<1>4. Scalars'
  <2>1. reported' \in [Cells -> Nat]
    BY <1>1, <1>2 DEF IInv, Scalars
  <2>2. captured' \subseteq Cells /\ faults' \subseteq {"start", "log", "kill", "down"}
    BY <1>1, <1>2 DEF IInv, Scalars
  <2> QED
    BY <1>1, <2>1, <2>2 DEF IInv, Scalars
<1>5. Partition' /\ RunningIsExact'
  BY <1>1 DEF IInv, Partition, RunningIsExact, Started, HasExited
<1>6. CompletedHaveExited' /\ LoopIsDone'
  BY <1>1 DEF IInv, CompletedHaveExited, LoopIsDone, Trying
<1>7. VisitsWaited'
  BY <1>1, <1>2 DEF IInv, VisitsWaited, Started, HasExited
<1>8. CapturedOnce'
  <2>1. \A d \in captured' : HasExited(d)'
    BY <1>1 DEF IInv, CapturedOnce, HasExited
  <2>2. ASSUME NEW d \in Cells
        PROVE  reported'[d] = IF d \in captured' /\ process'[d] = "nonzero" THEN 1 ELSE 0
    BY <1>1, <1>2 DEF IInv, CapturedOnce, Scalars
  <2> QED
    BY <2>1, <2>2 DEF CapturedOnce
<1>9. OutcomeOfTheEnd'
  BY <1>1 DEF IInv, OutcomeOfTheEnd
<1> QED
  BY <1>3, <1>4, <1>5, <1>6, <1>7, <1>8, <1>9 DEF IInv

\* The cleanup takes down every container, or fails, and settles the outcome.
LEMMA ComposeDownPreserves == IInv /\ ComposeDown => IInv'
<1> SUFFICES ASSUME IInv, ComposeDown PROVE IInv'
  OBVIOUS
<1>1. /\ UNCHANGED <<pending, running, allRuns, completed, visiting, failed, cancelled, error,
                     captured, process, expired, reported>>
      /\ pc = "complete" /\ visiting = <<>> /\ pc' = "done"
      /\ \/ containers' = {} /\ faults' = faults
         \/ containers' = containers /\ faults' = faults \cup {"down"}
      /\ outcome' = IF error THEN "error"
                    ELSE IF cancelled THEN "cancelled"
                    ELSE IF failed # <<>> THEN "failed" ELSE "passed"
  BY DEF ComposeDown, Fault
<1>2. Lists' /\ Scalars'
  BY <1>1 DEF IInv, Lists, Scalars
<1>3. Partition' /\ RunningIsExact'
  BY <1>1 DEF IInv, Partition, RunningIsExact, Started, HasExited
<1>4. CompletedHaveExited' /\ LoopIsDone' /\ VisitsWaited'
  BY <1>1 DEF IInv, CompletedHaveExited, LoopIsDone, VisitsWaited, Trying, Started, HasExited
<1>5. CapturedOnce'
  BY <1>1 DEF IInv, CapturedOnce, HasExited
<1>6. OutcomeOfTheEnd'
  BY <1>1 DEF IInv, OutcomeOfTheEnd
<1> QED
  BY <1>2, <1>3, <1>4, <1>5, <1>6 DEF IInv

\* Nothing of the invariant is about the time.
LEMMA DeadlinePreserves == IInv /\ DeadlinePasses => IInv'
BY DEF IInv, Lists, Scalars, Partition, RunningIsExact, CompletedHaveExited, LoopIsDone,
       VisitsWaited, CapturedOnce, OutcomeOfTheEnd, Trying, Started, HasExited,
       DeadlinePasses, script

-------------------------------------------------------------------------------
(***************************************************************************)
(* The theorems                                                            *)
(***************************************************************************)

\* Every step keeps the invariant, a stutter too.
LEMMA StepPreserves == IInv /\ [Next]_vars => IInv'
<1> SUFFICES ASSUME IInv, [Next]_vars PROVE IInv'
  OBVIOUS
<1>1. CASE Start
  BY <1>1, StartPreserves
<1>2. CASE StartFails
  BY <1>2, StartFailsPreserves
<1>3. CASE CheckDeadline
  BY <1>3, CheckDeadlinePreserves
<1>4. CASE Poll
  BY <1>4, PollPreserves
<1>5. CASE Collect
  BY <1>5, CollectPreserves
<1>6. CASE CollectFails
  BY <1>6, CollectFailsPreserves
<1>7. CASE Kill
  BY <1>7, KillPreserves
<1>8. CASE KillsDone
  BY <1>8, KillsDonePreserves
<1>9. CASE CompleteRun
  BY <1>9, CompleteRunPreserves
<1>10. CASE ComposeDown
  BY <1>10, ComposeDownPreserves
<1>11. CASE DeadlinePasses
  BY <1>11, DeadlinePreserves
<1>12. ASSUME NEW c \in Cells, ProcessExits(c)
       PROVE  IInv'
  <2>1. /\ process[c] = "alive" /\ containers' \subseteq containers
        /\ UNCHANGED <<pc, pending, running, allRuns, completed, visiting, failed, cancelled,
                       error, captured, outcome, expired, reported, faults>>
    BY <1>12 DEF ProcessExits, script
  <2>2. PICK code \in {"zero", "nonzero"} : process' = [process EXCEPT ![c] = code]
    BY <1>12 DEF ProcessExits
  <2>3. IsList(visiting')
    BY <2>1 DEF IInv, Lists
  <2> QED
    BY <2>1, <2>2, <2>3, ExitPreserves
<1>13. CASE UNCHANGED vars
  BY <1>13 DEF IInv, Lists, Scalars, Partition, RunningIsExact, CompletedHaveExited, LoopIsDone,
     VisitsWaited, CapturedOnce, OutcomeOfTheEnd, Trying, Started, HasExited, vars, script
<1> QED
  BY <1>1, <1>2, <1>3, <1>4, <1>5, <1>6, <1>7, <1>8, <1>9, <1>10, <1>11, <1>12, <1>13
     DEF Next, Script

\* The invariant is one of every behaviour.
THEOREM Invariant == Spec => []IInv
<1>1. Init => IInv
  BY InitInvariant
<1>2. IInv /\ [Next]_vars => IInv'
  BY StepPreserves
<1> QED
  BY <1>1, <1>2, PTL DEF Spec

\* The lists of the script are lists of different cells, whatever happens.
THEOREM TypeCorrect == Spec => []TypeOK
<1>1. IInv => TypeOK
  <2> SUFFICES ASSUME IInv PROVE TypeOK
    OBVIOUS
  <2>1. ASSUME NEW s \in {pending, running, allRuns, visiting, failed}
        PROVE  Range(s) \subseteq Cells /\ IsInjective(s)
    BY <2>1, ListOfCells DEF IInv, Lists, IsList
  <2> QED
    BY <2>1 DEF IInv, Scalars, TypeOK
<1> QED
  BY <1>1, Invariant, PTL

\* A list of n cells names at most n of them.
LEMMA ListCardinality ==
  ASSUME NEW s, IsList(s)
  PROVE  IsFiniteSet(Range(s)) /\ Cardinality(Range(s)) <= Len(s)
<1>1. Len(s) \in Nat /\ DOMAIN s = 1 .. Len(s)
  BY DEF IsList
<1>2. IsFiniteSet(1 .. Len(s)) /\ Cardinality(1 .. Len(s)) = Len(s)
  <2>1. /\ IsFiniteSet(1 .. Len(s))
        /\ Cardinality(1 .. Len(s)) = IF 1 > Len(s) THEN 0 ELSE Len(s) - 1 + 1
    BY <1>1, 1 \in Int, Len(s) \in Int, FS_Interval, Zenon
  <2> QED
    BY <1>1, <2>1
<1>3. s \in Surjection(1 .. Len(s), Range(s))
  <2>1. s \in [1 .. Len(s) -> Range(s)]
    BY <1>1 DEF IsList, Range
  <2>2. \A c \in Range(s) : \E k \in 1 .. Len(s) : s[k] = c
    BY <1>1 DEF Range
  <2> QED
    BY <2>1, <2>2 DEF Surjection
<1> QED
  BY <1>2, <1>3, FS_Surjection

\* At most MaxParallel clients are alive, for any number of cells: who is alive is
\* in $running, from which only an exited run is taken.
THEOREM ConcurrencyIsBounded == Spec => []BoundedConcurrency
<1>1. IInv => BoundedConcurrency
  <2> SUFFICES ASSUME IInv PROVE BoundedConcurrency
    OBVIOUS
  <2> DEFINE Alive == {c \in Cells : process[c] = "alive"}
  <2>1. Alive \subseteq Range(running)
    BY DEF IInv, Partition, RunningIsExact, HasExited
  <2>2. IsList(running) /\ Len(running) \in Nat /\ Len(running) <= MaxParallel
    BY DEF IInv, Lists, RunningIsExact, IsList
  <2>3. IsFiniteSet(Range(running)) /\ Cardinality(Range(running)) <= Len(running)
    BY <2>2, ListCardinality
  <2>4. /\ IsFiniteSet(Alive) /\ Cardinality(Alive) <= Cardinality(Range(running))
        /\ Cardinality(Alive) \in Nat /\ Cardinality(Range(running)) \in Nat
    BY <2>1, <2>3, FS_Subset, FS_CardinalityType
  <2>5. Cardinality(Alive) <= MaxParallel
    BY <2>2, <2>3, <2>4, CellSchedulerAssumption
  <2> QED
    BY <2>5 DEF BoundedConcurrency
<1> QED
  BY <1>1, Invariant, PTL

\* A run that passed or failed has run every cell to its exit, and names the cells
\* that failed: nothing is pending or running when the loop is left in good order.
THEOREM OutcomeHonest == Spec => []OutcomeIsHonest
<1>1. IInv => OutcomeIsHonest
  <2> SUFFICES ASSUME IInv, outcome \in {"passed", "failed"}
      PROVE  /\ \A c \in Cells : HasExited(c) /\ c \in captured
             /\ Range(failed) = {c \in Cells : process[c] = "nonzero"}
             /\ outcome = "passed" <=> \A c \in Cells : process[c] = "zero"
    BY DEF OutcomeIsHonest
  <2>1. pc = "done" /\ ~error /\ ~cancelled
    BY DEF IInv, OutcomeOfTheEnd
  <2>2. pending = <<>> /\ running = <<>>
    BY <2>1 DEF IInv, LoopIsDone, Trying
  <2>3. Started = Cells /\ Started \ Range(running) = Cells
    BY <2>1, <2>2, EmptyList DEF IInv, Partition
  <2>4. /\ \A c \in Cells : HasExited(c) /\ c \in captured
        /\ Range(failed) = {c \in Cells : process[c] = "nonzero"}
    BY <2>3 DEF IInv, RunningIsExact
  <2>5. outcome = "passed" <=> Range(failed) = {}
    BY EmptyList DEF IInv, OutcomeOfTheEnd, Lists
  <2> QED
    BY <2>4, <2>5 DEF HasExited
<1> QED
  BY <1>1, Invariant, PTL

\* No client outlives the script, and no container unless the cleanup failed.
THEOREM NothingIsLeft == Spec => []NothingOutlivesTheScript
<1>1. IInv => NothingOutlivesTheScript
  <2> SUFFICES ASSUME IInv, outcome # "none"
      PROVE  /\ \A c \in Cells : process[c] # "alive"
             /\ containers # {} => "down" \in faults
    BY DEF NothingOutlivesTheScript
  <2>1. pc = "done"
    BY DEF IInv, OutcomeOfTheEnd
  <2>2. Range(visiting) = {}
    BY <2>1, EmptyList DEF IInv, VisitsWaited
  <2>3. \A c \in Started : HasExited(c)
    BY <2>1, <2>2 DEF IInv, VisitsWaited
  <2> QED
    BY <2>1, <2>3 DEF IInv, Partition, HasExited, OutcomeOfTheEnd
<1> QED
  BY <1>1, Invariant, PTL

\* The output of a failed run is replayed once, by the loop or by the cleanup.
THEOREM ReportedOnce == Spec => []FailuresReportedOnce
<1>1. IInv => FailuresReportedOnce
  <2> SUFFICES ASSUME IInv PROVE FailuresReportedOnce
    OBVIOUS
  <2>1. /\ \A c \in Cells : reported[c] <= 1
        /\ \A c \in captured : reported[c] = 1 <=> process[c] = "nonzero"
    BY DEF IInv, CapturedOnce, Scalars
  <2>2. ASSUME outcome # "none", "log" \notin faults
        PROVE  captured = Range(allRuns)
    <3>1. Range(visiting) = {} /\ Started \subseteq captured
      BY <2>2, EmptyList DEF IInv, OutcomeOfTheEnd, VisitsWaited
    <3>2. captured \subseteq Started
      BY DEF IInv, CapturedOnce, Partition, Scalars, HasExited
    <3> QED
      BY <3>1, <3>2 DEF Started
  <2> QED
    BY <2>1, <2>2 DEF FailuresReportedOnce
<1> QED
  BY <1>1, Invariant, PTL

-----------------------------------------------------------------------------
(***************************************************************************)
(* A validation cell never tests stale executables, for any number of test *)
(* executables, contents of the source and crashes, provided no edit ever  *)
(* brings back an earlier content.                                         *)
(*                                                                         *)
(* The manifest binds a tree to a digest that was computed before the      *)
(* first step of the build.  Why is that enough?  Because an edit makes    *)
(* the source different from everything that was ever computed from it: if *)
(* a digest still equals the digest of the source, there has been no edit  *)
(* since it was taken, and all that was built in between is of this        *)
(* source.  The inductive invariant says this of every place a digest is   *)
(* kept: the running build, the running benchmark build, and the manifests.*)
(***************************************************************************)
Building == stage \in {"digest", "configure", "compile", "consumer", "manifest"}
BuildingBenchmarks ==
  stage \in {"benchmark digest", "benchmark reuse", "benchmark build", "benchmark manifest"}

\* The test executables that the running build has been through.
Built ==
  IF stage = "compile" THEN MainTests \ unbuilt
  ELSE IF stage = "consumer" THEN Tests \ unbuilt
  ELSE IF stage = "manifest" THEN Tests ELSE {}

\* Every content and digest that was kept was the source at some time.
KeptIsPast ==
  /\ source \in past
  /\ source_digest \in past \cup {Nothing}
  /\ \A m \in manifest : m.source_digest \in past
  /\ \A m \in benchmark_manifest : m.source_digest \in past

\* What is being built is described by no manifest.
NoManifestWhileBuilding ==
  /\ Building => manifest = {}
  /\ BuildingBenchmarks => benchmark_manifest = {}

DigestsKnown ==
  /\ stage \in {"idle", "digest", "configure", "compile", "consumer", "manifest", "testing",
             "benchmark digest", "benchmark reuse", "benchmark build", "benchmark manifest",
             "benchmarking"}
  /\ stage \in {"configure", "compile", "consumer", "manifest", "benchmark reuse",
             "benchmark build", "benchmark manifest"} => source_digest # Nothing
  /\ stage = "compile" => unbuilt \subseteq MainTests /\ cache # Nothing
  /\ stage = "consumer" => unbuilt \subseteq Consumers /\ cache # Nothing
  /\ stage = "manifest" => cache # Nothing
  /\ stage \in {"benchmark build", "benchmark manifest"} => cache # Nothing
  /\ \A t \in Built : binary[t] # Nothing

\* A running build whose digest is still the one of the source has built all it has
\* been through from this source.
BuildIsCurrent ==
  /\ stage \in {"compile", "consumer", "manifest"} /\ source_digest = source =>
       Configured(source, cache) = cache
  /\ source_digest = source => \A t \in Built : binary[t] = source
  /\ stage = "manifest" => inventory = binary
  /\ stage = "benchmark manifest" /\ source_digest = source => benchmarks = source

\* The same of a manifest.
ManifestIsCurrent ==
  /\ \A m \in manifest :
       /\ m.test_inventory = inventory /\ inventory = binary
       /\ cache # Nothing
       /\ m.source_digest = source =>
            /\ m.cmake_cache = cache /\ Configured(source, cache) = cache
            /\ \A t \in Tests : binary[t] = source
  /\ \A m \in benchmark_manifest : m.source_digest = source => benchmarks = source

\* What was admitted was current when it was admitted.
AdmittedIsCurrent == TestsRunCurrentSource /\ BenchmarksRunCurrentSource

ValidationInv ==
  /\ ValidationTypeOK
  /\ KeptIsPast
  /\ NoManifestWhileBuilding
  /\ DigestsKnown
  /\ BuildIsCurrent
  /\ ManifestIsCurrent
  /\ AdmittedIsCurrent

\* The old manifest is removed before anything is built.
LEMMA BuildStartKeeps == ASSUME ValidationInv, BuildStart PROVE ValidationInv'
<1> USE ValidationCellAssumption DEF ValidationInv, BuildStart, RemoveManifest, Goto
<1>1. ValidationTypeOK'
  BY DEF ValidationTypeOK, world, tree
<1>2. KeptIsPast' /\ NoManifestWhileBuilding'
  BY DEF KeptIsPast, NoManifestWhileBuilding, world, BuildingBenchmarks
<1>3. DigestsKnown'
  BY DEF DigestsKnown, Built
<1>4. BuildIsCurrent'
  BY DEF BuildIsCurrent, Built
<1>5. ManifestIsCurrent'
  BY DEF ManifestIsCurrent, world, tree
<1>6. AdmittedIsCurrent'
  BY DEF AdmittedIsCurrent, TestsRunCurrentSource, BenchmarksRunCurrentSource
<1> QED BY <1>1, <1>2, <1>3, <1>4, <1>5, <1>6

\* The digest is of the source; nothing has been built yet.
LEMMA BuildDigestKeeps == ASSUME ValidationInv, BuildDigest PROVE ValidationInv'
<1> USE ValidationCellAssumption DEF ValidationInv, BuildDigest, TakeDigest, Goto
<1>1. ValidationTypeOK'
  BY DEF ValidationTypeOK, world, tree, records
<1>2. KeptIsPast' /\ NoManifestWhileBuilding'
  BY DEF KeptIsPast, NoManifestWhileBuilding, world, records, Building, BuildingBenchmarks
<1>3. DigestsKnown'
  BY DEF DigestsKnown, ValidationTypeOK, Built
<1>4. BuildIsCurrent'
  BY DEF BuildIsCurrent, Built
<1>5. ManifestIsCurrent'
  BY DEF ManifestIsCurrent, world, tree, records
<1>6. AdmittedIsCurrent'
  BY DEF AdmittedIsCurrent, TestsRunCurrentSource, BenchmarksRunCurrentSource
<1> QED BY <1>1, <1>2, <1>3, <1>4, <1>5, <1>6

\* What CMake makes of the source as it is now it makes of it again.
LEMMA ConfiguredIsSettled ==
  ASSUME ValidationTypeOK
  PROVE  LET made == Configured(source, cache) IN
         made \in Caches /\ made # Nothing /\ Configured(source, made) = made
BY ValidationCellAssumption DEF ValidationTypeOK

\* The build tree is generated from the source as it is now.
LEMMA ConfigureKeeps == ASSUME ValidationInv, Configure PROVE ValidationInv'
<1> USE DEF ValidationInv, Configure, Goto, Fail
<1>0. /\ Configured(source, cache) \in Caches /\ Configured(source, cache) # Nothing
      /\ Configured(source, Configured(source, cache)) = Configured(source, cache)
  BY ConfiguredIsSettled
<1>1. ValidationTypeOK'
  BY <1>0 DEF ValidationTypeOK, world, records, Tests
<1>2. KeptIsPast' /\ NoManifestWhileBuilding'
  BY DEF KeptIsPast, NoManifestWhileBuilding, world, records, Building, BuildingBenchmarks
<1>3. DigestsKnown'
  BY <1>0 DEF DigestsKnown, ValidationTypeOK, Built
<1>4. BuildIsCurrent'
  BY <1>0 DEF BuildIsCurrent, world, Built
<1>5. ManifestIsCurrent'
  BY <1>0 DEF ManifestIsCurrent, ValidationTypeOK, world, records
<1>6. AdmittedIsCurrent'
  BY DEF AdmittedIsCurrent, TestsRunCurrentSource, BenchmarksRunCurrentSource
<1> QED BY <1>1, <1>2, <1>3, <1>4, <1>5, <1>6

\* One more executable is of the source as it is now; no manifest describes it.
LEMMA CompileKeeps == ASSUME ValidationInv, Compile PROVE ValidationInv'
<1> USE ValidationCellAssumption DEF ValidationInv, Compile, Fail
<1>1. ValidationTypeOK'
  <2>1. CASE /\ \E t \in unbuilt : /\ binary' = [binary EXCEPT ![t] = source]
                                /\ unbuilt' = unbuilt \ {t}
             /\ UNCHANGED <<stage, source_digest>>
    <3>1. binary' \in [Tests -> Contents \cup {Nothing}]
      BY <2>1 DEF ValidationTypeOK
    <3> QED BY <2>1, <3>1 DEF ValidationTypeOK, world, records
  <2>2. CASE Fail /\ UNCHANGED binary
    BY <2>2 DEF ValidationTypeOK, world, records
  <2> QED BY <2>1, <2>2
<1>2. KeptIsPast' /\ NoManifestWhileBuilding'
  BY DEF KeptIsPast, NoManifestWhileBuilding, world, records, Building, BuildingBenchmarks
<1>3. DigestsKnown'
  BY DEF DigestsKnown, ValidationTypeOK, Built, Tests
<1>4. BuildIsCurrent'
  BY DEF BuildIsCurrent, ValidationTypeOK, world, Built, Tests
<1>5. ManifestIsCurrent'
  BY DEF ManifestIsCurrent, NoManifestWhileBuilding, world, records, Building
<1>6. AdmittedIsCurrent'
  BY DEF AdmittedIsCurrent, TestsRunCurrentSource, BenchmarksRunCurrentSource
<1> QED BY <1>1, <1>2, <1>3, <1>4, <1>5, <1>6

\* The consumer's executables are next; the main ones stay built.
LEMMA MainBuiltKeeps == ASSUME ValidationInv, MainBuilt PROVE ValidationInv'
<1> USE ValidationCellAssumption DEF ValidationInv, MainBuilt, Goto
<1>1. ValidationTypeOK'
  BY DEF ValidationTypeOK, world, tree, records, Tests
<1>2. KeptIsPast' /\ NoManifestWhileBuilding'
  BY DEF KeptIsPast, NoManifestWhileBuilding, world, records, Building, BuildingBenchmarks
<1>3. DigestsKnown'
  BY DEF DigestsKnown, tree, Built, Tests
<1>4. BuildIsCurrent'
  BY DEF BuildIsCurrent, world, tree, Built, Tests
<1>5. ManifestIsCurrent'
  BY DEF ManifestIsCurrent, world, tree, records
<1>6. AdmittedIsCurrent'
  BY DEF AdmittedIsCurrent, TestsRunCurrentSource, BenchmarksRunCurrentSource
<1> QED BY <1>1, <1>2, <1>3, <1>4, <1>5, <1>6

\* The inventory becomes what the executables are, or the build fails without one.
LEMMA RecordInventoriesKeeps == ASSUME ValidationInv, RecordInventories PROVE ValidationInv'
<1> USE ValidationCellAssumption DEF ValidationInv, RecordInventories, Goto, Fail
<1>1. ValidationTypeOK'
  BY DEF ValidationTypeOK, world, tree
<1>2. KeptIsPast' /\ NoManifestWhileBuilding'
  BY DEF KeptIsPast, NoManifestWhileBuilding, world, Building, BuildingBenchmarks
<1>3. DigestsKnown'
  BY DEF DigestsKnown, tree, Built
<1>4. BuildIsCurrent'
  BY DEF BuildIsCurrent, world, tree, Built
<1>5. ManifestIsCurrent'
  BY DEF ManifestIsCurrent, ValidationTypeOK, world, tree
<1>6. AdmittedIsCurrent'
  BY DEF AdmittedIsCurrent, TestsRunCurrentSource, BenchmarksRunCurrentSource
<1> QED BY <1>1, <1>2, <1>3, <1>4, <1>5, <1>6

\* What the manifest says of the current source is what the build kept true of it.
LEMMA WriteManifestKeeps == ASSUME ValidationInv, WriteManifest PROVE ValidationInv'
<1> USE ValidationCellAssumption DEF ValidationInv, WriteManifest, ManifestDigest, Fail
<1>1. ValidationTypeOK'
  <2> DEFINE m == [source_digest |-> source_digest, cmake_cache |-> cache,
                   test_inventory |-> inventory]
  <2>1. inventory \in [Tests -> Contents]
    BY DEF ValidationTypeOK, DigestsKnown, Built, BuildIsCurrent
  <2>2. m \in [source_digest : Contents, cmake_cache : Caches,
               test_inventory : [Tests -> Contents]]
    BY <2>1 DEF ValidationTypeOK, DigestsKnown
  <2>3. manifest' = {m} OBVIOUS
  <2> HIDE DEF m
  <2> QED BY <2>2, <2>3 DEF ValidationTypeOK, world, tree
<1>2. KeptIsPast' /\ NoManifestWhileBuilding'
  <2>1. \A m \in manifest' : m.source_digest = source_digest OBVIOUS
  <2> QED BY <2>1 DEF KeptIsPast, NoManifestWhileBuilding, DigestsKnown, world, Building,
     BuildingBenchmarks
<1>3. DigestsKnown'
  BY DEF DigestsKnown, Built
<1>4. BuildIsCurrent'
  BY DEF BuildIsCurrent, Built
<1>5. ManifestIsCurrent'
  BY DEF ManifestIsCurrent, BuildIsCurrent, DigestsKnown, world, tree, Built
<1>6. AdmittedIsCurrent'
  BY DEF AdmittedIsCurrent, TestsRunCurrentSource, BenchmarksRunCurrentSource
<1> QED BY <1>1, <1>2, <1>3, <1>4, <1>5, <1>6

\* The validation admits executables the manifest vouches for.
LEMMA TestKeeps == ASSUME ValidationInv, Test PROVE ValidationInv'
<1> USE ValidationCellAssumption DEF ValidationInv, Test, MayTest, Validated, Goto
<1>1. ValidationTypeOK'
  BY DEF ValidationTypeOK, world, tree, records
<1>2. KeptIsPast' /\ NoManifestWhileBuilding'
  BY DEF KeptIsPast, NoManifestWhileBuilding, world, records, Building, BuildingBenchmarks
<1>3. DigestsKnown'
  BY DEF DigestsKnown, Built
<1>4. BuildIsCurrent'
  BY DEF BuildIsCurrent, Built
<1>5. ManifestIsCurrent'
  BY DEF ManifestIsCurrent, world, tree, records
<1>6. AdmittedIsCurrent'
  BY DEF AdmittedIsCurrent, TestsRunCurrentSource, BenchmarksRunCurrentSource,
     ManifestIsCurrent, tree
<1> QED BY <1>1, <1>2, <1>3, <1>4, <1>5, <1>6

\* The old benchmark manifest is removed first.
LEMMA BenchmarkStartKeeps == ASSUME ValidationInv, BenchmarkStart PROVE ValidationInv'
<1> USE ValidationCellAssumption DEF ValidationInv, BenchmarkStart, Goto
<1>1. ValidationTypeOK'
  BY DEF ValidationTypeOK, world, tree
<1>2. KeptIsPast' /\ NoManifestWhileBuilding'
  BY DEF KeptIsPast, NoManifestWhileBuilding, world, Building
<1>3. DigestsKnown'
  BY DEF DigestsKnown, Built
<1>4. BuildIsCurrent'
  BY DEF BuildIsCurrent, Built
<1>5. ManifestIsCurrent'
  BY DEF ManifestIsCurrent, world, tree
<1>6. AdmittedIsCurrent'
  BY DEF AdmittedIsCurrent, TestsRunCurrentSource, BenchmarksRunCurrentSource
<1> QED BY <1>1, <1>2, <1>3, <1>4, <1>5, <1>6

\* The digest is of the source; no benchmark has been built yet.
LEMMA BenchmarkDigestKeeps == ASSUME ValidationInv, BenchmarkDigest PROVE ValidationInv'
<1> USE ValidationCellAssumption DEF ValidationInv, BenchmarkDigest, Goto
<1>1. ValidationTypeOK'
  BY DEF ValidationTypeOK, world, tree, records
<1>2. KeptIsPast' /\ NoManifestWhileBuilding'
  BY DEF KeptIsPast, NoManifestWhileBuilding, world, records, Building, BuildingBenchmarks
<1>3. DigestsKnown'
  BY DEF DigestsKnown, ValidationTypeOK, Built
<1>4. BuildIsCurrent'
  BY DEF BuildIsCurrent, Built
<1>5. ManifestIsCurrent'
  BY DEF ManifestIsCurrent, world, tree, records
<1>6. AdmittedIsCurrent'
  BY DEF AdmittedIsCurrent, TestsRunCurrentSource, BenchmarksRunCurrentSource
<1> QED BY <1>1, <1>2, <1>3, <1>4, <1>5, <1>6

\* A validated configuration exists, or the operation fails.
LEMMA BenchmarkReuseKeeps == ASSUME ValidationInv, BenchmarkReuse PROVE ValidationInv'
<1> USE ValidationCellAssumption DEF ValidationInv, BenchmarkReuse, CanReuse, Goto, Fail
<1>1. ValidationTypeOK'
  BY DEF ValidationTypeOK, world, tree, records
<1>2. KeptIsPast' /\ NoManifestWhileBuilding'
  BY DEF KeptIsPast, NoManifestWhileBuilding, world, records, Building, BuildingBenchmarks
<1>3. DigestsKnown'
  BY DEF DigestsKnown, tree, Built, ManifestIsCurrent
<1>4. BuildIsCurrent'
  BY DEF BuildIsCurrent, Built
<1>5. ManifestIsCurrent'
  BY DEF ManifestIsCurrent, world, tree, records
<1>6. AdmittedIsCurrent'
  BY DEF AdmittedIsCurrent, TestsRunCurrentSource, BenchmarksRunCurrentSource
<1> QED BY <1>1, <1>2, <1>3, <1>4, <1>5, <1>6

\* The benchmarks are of the source as it is now; the executables are not touched.
LEMMA BenchmarkBuildKeeps == ASSUME ValidationInv, BenchmarkBuild PROVE ValidationInv'
<1> USE DEF ValidationInv, BenchmarkBuild, Goto, Fail
<1>0. /\ Configured(source, cache) \in Caches /\ Configured(source, cache) # Nothing
      /\ Configured(source, Configured(source, cache)) = Configured(source, cache)
  BY ConfiguredIsSettled
<1>1. ValidationTypeOK'
  BY <1>0 DEF ValidationTypeOK, world, records
<1>2. KeptIsPast' /\ NoManifestWhileBuilding'
  BY DEF KeptIsPast, NoManifestWhileBuilding, world, records, Building, BuildingBenchmarks
<1>3. DigestsKnown'
  BY <1>0 DEF DigestsKnown, ValidationTypeOK, Built
<1>4. BuildIsCurrent'
  BY <1>0 DEF BuildIsCurrent, world, Built
<1>5. ManifestIsCurrent'
  BY <1>0 DEF ManifestIsCurrent, ValidationTypeOK, world, records
<1>6. AdmittedIsCurrent'
  BY DEF AdmittedIsCurrent, TestsRunCurrentSource, BenchmarksRunCurrentSource
<1> QED BY <1>1, <1>2, <1>3, <1>4, <1>5, <1>6

\* The benchmark manifest takes over what the build kept true.
LEMMA WriteBenchmarkManifestKeeps ==
  ASSUME ValidationInv, WriteBenchmarkManifest PROVE ValidationInv'
<1> USE ValidationCellAssumption DEF ValidationInv, WriteBenchmarkManifest, ManifestDigest, Fail
<1>1. ValidationTypeOK'
  <2> DEFINE m == [source_digest |-> source_digest, cmake_cache |-> cache]
  <2>1. m \in [source_digest : Contents, cmake_cache : Caches]
    BY DEF ValidationTypeOK, DigestsKnown
  <2>2. benchmark_manifest' = {m} OBVIOUS
  <2> HIDE DEF m
  <2> QED BY <2>1, <2>2 DEF ValidationTypeOK, world, tree
<1>0. \A m \in benchmark_manifest' : m.source_digest = source_digest
  <2> DEFINE written == [source_digest |-> source_digest, cmake_cache |-> cache]
  <2>1. benchmark_manifest' = {written} OBVIOUS
  <2>2. written.source_digest = source_digest OBVIOUS
  <2> HIDE DEF written
  <2> QED BY <2>1, <2>2
<1>2. KeptIsPast' /\ NoManifestWhileBuilding'
  BY <1>0 DEF KeptIsPast, NoManifestWhileBuilding, DigestsKnown, world, Building,
     BuildingBenchmarks
<1>3. DigestsKnown'
  BY DEF DigestsKnown, Built
<1>4. BuildIsCurrent'
  BY DEF BuildIsCurrent, Built
<1>5. ManifestIsCurrent'
  BY <1>0 DEF ManifestIsCurrent, BuildIsCurrent, world, tree
<1>6. AdmittedIsCurrent'
  BY DEF AdmittedIsCurrent, TestsRunCurrentSource, BenchmarksRunCurrentSource
<1> QED BY <1>1, <1>2, <1>3, <1>4, <1>5, <1>6

\* The validation admits the benchmarks the manifest vouches for.
LEMMA RunBenchmarksKeeps == ASSUME ValidationInv, RunBenchmarks PROVE ValidationInv'
<1> USE ValidationCellAssumption DEF ValidationInv, RunBenchmarks, Goto
<1>1. ValidationTypeOK'
  BY DEF ValidationTypeOK, world, tree, records
<1>2. KeptIsPast' /\ NoManifestWhileBuilding'
  BY DEF KeptIsPast, NoManifestWhileBuilding, world, records, Building, BuildingBenchmarks
<1>3. DigestsKnown'
  BY DEF DigestsKnown, Built
<1>4. BuildIsCurrent'
  BY DEF BuildIsCurrent, Built
<1>5. ManifestIsCurrent'
  BY DEF ManifestIsCurrent, world, tree, records
<1>6. AdmittedIsCurrent'
  BY DEF AdmittedIsCurrent, TestsRunCurrentSource, BenchmarksRunCurrentSource,
     ManifestIsCurrent, tree
<1> QED BY <1>1, <1>2, <1>3, <1>4, <1>5, <1>6

\* Ending an operation makes no claim.
LEMMA FinishKeeps == ASSUME ValidationInv, Finish PROVE ValidationInv'
<1> USE ValidationCellAssumption DEF ValidationInv, Finish, Fail
<1>1. ValidationTypeOK'
  BY DEF ValidationTypeOK, world, tree, records
<1>2. KeptIsPast' /\ NoManifestWhileBuilding'
  BY DEF KeptIsPast, NoManifestWhileBuilding, world, records, Building, BuildingBenchmarks
<1>3. DigestsKnown'
  BY DEF DigestsKnown, Built
<1>4. BuildIsCurrent'
  BY DEF BuildIsCurrent, Built
<1>5. ManifestIsCurrent'
  BY DEF ManifestIsCurrent, world, tree, records
<1>6. AdmittedIsCurrent'
  BY DEF AdmittedIsCurrent, TestsRunCurrentSource, BenchmarksRunCurrentSource
<1> QED BY <1>1, <1>2, <1>3, <1>4, <1>5, <1>6

\* An edit is to a content no digest was ever taken of: every claim about the source
\* becomes vacuous.
LEMMA EditKeeps == ASSUME ValidationInv, Edit, ~MayRevert PROVE ValidationInv'
<1> USE ValidationCellAssumption DEF ValidationInv, Edit
<1>1. ValidationTypeOK'
  BY DEF ValidationTypeOK, tree, records
<1>2. KeptIsPast' /\ NoManifestWhileBuilding'
  BY DEF KeptIsPast, NoManifestWhileBuilding, records, Building, BuildingBenchmarks
<1>3. DigestsKnown'
  BY DEF DigestsKnown, tree, Built
<1>4. BuildIsCurrent'
  BY DEF BuildIsCurrent, KeptIsPast, tree, records
<1>5. ManifestIsCurrent'
  <2>1. source' \notin past OBVIOUS
  <2>2. /\ \A m \in manifest : m.source_digest # source'
        /\ \A m \in benchmark_manifest : m.source_digest # source'
    BY <2>1 DEF KeptIsPast
  <2> QED BY <2>2 DEF ManifestIsCurrent, tree, records
<1>6. AdmittedIsCurrent'
  BY DEF AdmittedIsCurrent, TestsRunCurrentSource, BenchmarksRunCurrentSource, tree
<1> QED BY <1>1, <1>2, <1>3, <1>4, <1>5, <1>6

\* A crash leaves the tree and the manifests as they are.
LEMMA CrashKeeps == ASSUME ValidationInv, Crash PROVE ValidationInv'
<1> USE ValidationCellAssumption DEF ValidationInv, Crash, Fail
<1>1. ValidationTypeOK'
  BY DEF ValidationTypeOK, tree, records
<1>2. KeptIsPast' /\ NoManifestWhileBuilding'
  BY DEF KeptIsPast, NoManifestWhileBuilding, records, Building, BuildingBenchmarks
<1>3. DigestsKnown'
  BY DEF DigestsKnown, Built
<1>4. BuildIsCurrent'
  BY DEF BuildIsCurrent, Built
<1>5. ManifestIsCurrent'
  BY DEF ManifestIsCurrent, tree, records
<1>6. AdmittedIsCurrent'
  BY DEF AdmittedIsCurrent, TestsRunCurrentSource, BenchmarksRunCurrentSource
<1> QED BY <1>1, <1>2, <1>3, <1>4, <1>5, <1>6

-----------------------------------------------------------------------------
\* Before the first operation nothing is built and no manifest claims anything.
LEMMA ValidationInitHolds == ValidationInit => ValidationInv
<1> SUFFICES ASSUME ValidationInit PROVE ValidationInv
  OBVIOUS
<1> USE ValidationCellAssumption DEF ValidationInit
<1>1. ValidationTypeOK
  BY DEF ValidationTypeOK
<1>2. KeptIsPast /\ NoManifestWhileBuilding /\ DigestsKnown
  BY DEF KeptIsPast, NoManifestWhileBuilding, DigestsKnown, Built
<1>3. BuildIsCurrent /\ ManifestIsCurrent /\ AdmittedIsCurrent
  BY DEF BuildIsCurrent, ManifestIsCurrent, AdmittedIsCurrent, TestsRunCurrentSource,
     BenchmarksRunCurrentSource
<1> QED BY <1>1, <1>2, <1>3 DEF ValidationInv

\* No step of the operations, the developer or the host breaks the invariant.
LEMMA ValidationNextKeeps ==
  ASSUME ~MayRevert, ValidationInv, [ValidationNext]_validation_vars
  PROVE  ValidationInv'
<1>1. CASE Operation
  BY <1>1, BuildStartKeeps, BuildDigestKeeps, ConfigureKeeps, CompileKeeps, MainBuiltKeeps,
     RecordInventoriesKeeps, WriteManifestKeeps, TestKeeps, BenchmarkStartKeeps,
     BenchmarkDigestKeeps, BenchmarkReuseKeeps, BenchmarkBuildKeeps,
     WriteBenchmarkManifestKeeps, RunBenchmarksKeeps, FinishKeeps DEF Operation
<1>2. CASE Edit
  BY <1>2, EditKeeps
<1>3. CASE Crash
  BY <1>3, CrashKeeps
<1>4. CASE UNCHANGED validation_vars
  <2> USE <1>4 DEF validation_vars, world, tree, records
  <2>1. ValidationTypeOK' /\ KeptIsPast' /\ NoManifestWhileBuilding' /\ DigestsKnown'
    BY DEF ValidationInv, ValidationTypeOK, KeptIsPast, NoManifestWhileBuilding,
       DigestsKnown, Building, BuildingBenchmarks, Built
  <2>2. BuildIsCurrent' /\ ManifestIsCurrent' /\ AdmittedIsCurrent'
    BY DEF ValidationInv, BuildIsCurrent, ManifestIsCurrent, AdmittedIsCurrent,
       TestsRunCurrentSource, BenchmarksRunCurrentSource, Built
  <2> QED BY <2>1, <2>2 DEF ValidationInv
<1> QED BY <1>1, <1>2, <1>3, <1>4 DEF ValidationNext

\* Whatever is interrupted, fails or is edited, the executables that run are those
\* of the source that was there when they were admitted, and a manifest describes
\* the tree that exists: containers/container-entrypoint.sh, when no edit restores
\* an earlier content.
THEOREM ValidationInvariant == ASSUME ~MayRevert PROVE ValidationSpec => []ValidationInv
<1>1. ValidationInit => ValidationInv
  BY ValidationInitHolds
<1>2. ValidationInv /\ [ValidationNext]_validation_vars => ValidationInv'
  BY ValidationNextKeeps
<1> QED BY <1>1, <1>2, PTL DEF ValidationSpec

\* The variables keep their types, and each manifest is one record or none.
THEOREM ValidationTypeCorrect == ASSUME ~MayRevert PROVE ValidationSpec => []ValidationTypeOK
<1>1. ValidationInv => ValidationTypeOK
  BY DEF ValidationInv
<1> QED BY <1>1, ValidationInvariant, PTL

\* Tests reject stale source inputs.
THEOREM TestsAreCurrent == ASSUME ~MayRevert PROVE ValidationSpec => []TestsRunCurrentSource
<1>1. ValidationInv => TestsRunCurrentSource
  BY DEF ValidationInv, AdmittedIsCurrent
<1> QED BY <1>1, ValidationInvariant, PTL

\* So do benchmark runs.
THEOREM BenchmarksAreCurrent ==
  ASSUME ~MayRevert PROVE ValidationSpec => []BenchmarksRunCurrentSource
<1>1. ValidationInv => BenchmarksRunCurrentSource
  BY DEF ValidationInv, AdmittedIsCurrent
<1> QED BY <1>1, ValidationInvariant, PTL

\* A manifest never outlives the executables it describes.
THEOREM ManifestIsExact == ASSUME ~MayRevert PROVE ValidationSpec => []ManifestDescribesTree
<1>1. ValidationInv => ManifestDescribesTree
  BY DEF ValidationInv, ManifestIsCurrent, ManifestDescribesTree
<1> QED BY <1>1, ValidationInvariant, PTL
=============================================================================
