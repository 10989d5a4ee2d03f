--------------------------- MODULE CellScheduler ---------------------------
(***************************************************************************)
(* Invoke-CellOperations of tools/Run-ContainerMatrix.ps1, with            *)
(* Start-CellOperation, Complete-CellOperation and the cleanup of the      *)
(* Compose project around it.  One operation runs in every cell of the     *)
(* matrix, at most MaxParallel at a time; each cell is a `docker compose   *)
(* run` client process and the container it attaches to.                   *)
(*                                                                         *)
(* The children exit when they like, or never; the deadline passes when it *)
(* likes; a start, the writing of a log, a kill and the final cleanup may  *)
(* each fail.  MaxFaults bounds the kinds of fault of one behaviour.       *)
(***************************************************************************)
EXTENDS Integers, FiniteSets, SequencesExt

CONSTANTS
  CellArtifacts,   (* The resolved cells, in the order of the matrix.       *)
  MaxParallel,     (* -MaxParallel                                          *)
  CancelAfter,     (* Whether -CancelAfterSeconds is positive.              *)
  MaxFaults        (* Bound on the kinds of fault of one behaviour.         *)

Cells == Range(CellArtifacts)

ASSUME CellSchedulerAssumption ==
  /\ CellArtifacts \in Seq(Cells) /\ IsInjective(CellArtifacts) /\ CellArtifacts # <<>>
  /\ MaxParallel \in Nat \ {0}
  /\ CancelAfter \in BOOLEAN
  /\ MaxFaults \in Nat

VARIABLES
  pc,         (* where the script is                                        *)
  pending,    (* $pending                                                   *)
  running,    (* $running                                                   *)
  allRuns,    (* $allRuns                                                   *)
  completed,  (* $completed, less what the foreach has been through         *)
  visiting,   (* what a foreach of the finally block has still to visit     *)
  failed,     (* $failed                                                    *)
  cancelled,  (* $cancelled                                                 *)
  error,      (* whether an exception is on its way out of the try block    *)
  captured,   (* the runs whose Captured flag is set                        *)
  outcome     (* how the script ended                                       *)

script == <<pc, pending, running, allRuns, completed, visiting, failed, cancelled, error,
            captured, outcome>>

VARIABLES
  process,    (* the client process of every cell                           *)
  containers, (* the cells whose container is up                            *)
  expired,    (* whether the deadline has passed                            *)
  reported,   (* how often the output of a failed run was replayed          *)
  faults      (* the kinds of fault so far                                  *)

vars == <<script, process, containers, expired, reported, faults>>

Init ==
  /\ pc = "fill"
  /\ pending = CellArtifacts
  /\ running = <<>> /\ allRuns = <<>> /\ completed = {} /\ visiting = <<>> /\ failed = <<>>
  /\ cancelled = FALSE /\ error = FALSE /\ captured = {} /\ outcome = "none"
  /\ process = [c \in Cells |-> "none"]
  /\ containers = {}
  /\ expired = FALSE
  /\ reported = [c \in Cells |-> 0]
  /\ faults = {}

HasExited(c) == process[c] \in {"zero", "nonzero"}
Fault(kind) ==
  /\ Cardinality(faults \cup {kind}) <= MaxFaults
  /\ faults' = faults \cup {kind}

\* Mutant: a run that was not cancelled has nothing left to wait for.
FinallyOnlyKills ==
  /\ pc' = IF cancelled' THEN "kill" ELSE "complete"
  /\ visiting' = IF cancelled' THEN running' ELSE <<>>

\* Mutant: the finally block waits for the running children without killing them.
FinallyOnlyWaits == pc' = "complete" /\ visiting' = allRuns'

\* The finally block, entered with the runs its first foreach visits.
EnterFinally ==
  /\ pc' = IF cancelled' THEN "kill" ELSE "complete"
  /\ visiting' = IF cancelled' THEN running' ELSE allRuns'

-----------------------------------------------------------------------------
(***************************************************************************)
(* The try block                                                           *)
(***************************************************************************)

\* Mutant: the bound is tested with -le.
OneTooMany == pending # <<>> /\ Len(running) <= MaxParallel

MayStart == pending # <<>> /\ Len(running) < MaxParallel

\* Start-CellOperation.
Start ==
  /\ pc = "fill" /\ MayStart
  /\ LET c == Head(pending) IN
       /\ process' = [process EXCEPT ![c] = "alive"]
       /\ containers' = containers \cup {c}
       /\ running' = Append(running, c)
       /\ allRuns' = Append(allRuns, c)
  /\ pending' = Tail(pending)
  /\ UNCHANGED <<pc, completed, visiting, failed, cancelled, error, captured, outcome,
                 expired, reported, faults>>

\* docker cannot be started: the exception leaves the loop.
StartFails ==
  /\ pc = "fill" /\ MayStart
  /\ Fault("start")
  /\ pending' = Tail(pending)
  /\ error' = TRUE
  /\ UNCHANGED <<running, allRuns, completed, failed, cancelled, captured, outcome,
                 process, containers, expired, reported>>
  /\ EnterFinally

\* No more may start: the deadline is looked at.
CheckDeadline ==
  /\ pc = "fill" /\ ~MayStart
  /\ cancelled' = expired
  /\ UNCHANGED <<pending, running, allRuns, completed, failed, error, captured, outcome,
                 process, containers, expired, reported, faults>>
  /\ IF expired THEN EnterFinally ELSE pc' = "poll" /\ UNCHANGED visiting

\* With nothing completed the script sleeps 100 ms and starts over.
Poll ==
  /\ pc = "poll"
  /\ completed' = {c \in Range(running) : HasExited(c)}
  /\ pc' = IF completed' = {} THEN "fill" ELSE "collect"
  /\ UNCHANGED <<pending, running, allRuns, visiting, failed, cancelled, error, captured,
                 outcome, process, containers, expired, reported, faults>>

\* Mutant: the output of a failed run is replayed by every call.
ReplayedEveryTime(c) ==
  /\ captured' = captured \cup {c}
  /\ reported' = IF process[c] = "nonzero" THEN [reported EXCEPT ![c] = @ + 1] ELSE reported

\* What Complete-CellOperation does with a run that has exited: both logs and the
\* replay of a failure are inside the Captured guard.
Complete(c) ==
  /\ captured' = captured \cup {c}
  /\ reported' = IF c \notin captured /\ process[c] = "nonzero"
                 THEN [reported EXCEPT ![c] = @ + 1] ELSE reported

Failed(c) == process[c] = "nonzero"

\* Mutant: the run stays in $running.
KeptRunning(i) == running

WithoutRun(i) == RemoveAt(running, i)

\* Mutant: the loop ends when nothing is pending.
OnlyWhilePending == pending # <<>>

\* Mutant: the loop looks at the children it began the iteration with.
RunningBefore == pending # <<>> \/ running # <<>>

LoopAgain == pending # <<>> \/ running' # <<>>

\* $completed has the order of $running.
NextCompleted == Min({i \in DOMAIN running : running[i] \in completed})

Collect ==
  /\ pc = "collect"
  /\ LET i == NextCompleted
         c == running[i]
     IN  /\ Complete(c)
         /\ running' = WithoutRun(i)
         /\ failed' = IF Failed(c) THEN Append(failed, c) ELSE failed
         /\ completed' = completed \ {c}
  /\ UNCHANGED <<pending, allRuns, cancelled, error, outcome, process, containers, expired,
                 faults>>
  /\ IF completed' # {} THEN UNCHANGED <<pc, visiting>>
     ELSE IF LoopAgain THEN pc' = "fill" /\ UNCHANGED visiting
     ELSE EnterFinally

\* A log cannot be written: the exception leaves the loop, and the runs that are
\* left are waited for but never killed.
CollectFails ==
  /\ pc = "collect"
  /\ running[NextCompleted] \notin captured
  /\ Fault("log")
  /\ error' = TRUE
  /\ UNCHANGED <<pending, running, allRuns, completed, failed, cancelled, captured, outcome,
                 process, containers, expired, reported>>
  /\ EnterFinally

-----------------------------------------------------------------------------
(***************************************************************************)
(* The finally block and the end                                           *)
(***************************************************************************)

\* Kill($true) ends the client, not the container it was attached to.
Kill ==
  /\ pc = "kill" /\ visiting # <<>>
  /\ LET c == Head(visiting) IN
       \/ /\ process' = IF process[c] = "alive" THEN [process EXCEPT ![c] = "nonzero"]
                        ELSE process
          /\ UNCHANGED faults
       \/ Fault("kill") /\ UNCHANGED process
  /\ visiting' = Tail(visiting)
  /\ UNCHANGED <<pc, pending, running, allRuns, completed, failed, cancelled, error, captured,
                 outcome, containers, expired, reported>>

KillsDone ==
  /\ pc = "kill" /\ visiting = <<>>
  /\ pc' = "complete" /\ visiting' = allRuns
  /\ UNCHANGED <<pending, running, allRuns, completed, failed, cancelled, error, captured,
                 outcome, process, containers, expired, reported, faults>>

\* Complete-CellOperation waits for the exit; a log that cannot be written is a
\* warning here.
CompleteRun ==
  /\ pc = "complete" /\ visiting # <<>>
  /\ LET c == Head(visiting) IN
       /\ HasExited(c)
       /\ \/ Complete(c) /\ UNCHANGED faults
          \/ c \notin captured /\ Fault("log") /\ UNCHANGED <<captured, reported>>
  /\ visiting' = Tail(visiting)
  /\ UNCHANGED <<pc, pending, running, allRuns, completed, failed, cancelled, error, outcome,
                 process, containers, expired>>

\* docker compose down --remove-orphans, then the exception or the message.
ComposeDown ==
  /\ pc = "complete" /\ visiting = <<>>
  /\ \/ containers' = {} /\ UNCHANGED faults
     \/ Fault("down") /\ UNCHANGED containers
  /\ pc' = "done"
  /\ outcome' = IF error THEN "error"
                ELSE IF cancelled THEN "cancelled"
                ELSE IF failed # <<>> THEN "failed" ELSE "passed"
  /\ UNCHANGED <<pending, running, allRuns, completed, visiting, failed, cancelled, error,
                 captured, process, expired, reported>>

Script ==
  \/ Start \/ StartFails \/ CheckDeadline \/ Poll \/ Collect \/ CollectFails
  \/ Kill \/ KillsDone \/ CompleteRun \/ ComposeDown

-----------------------------------------------------------------------------
(***************************************************************************)
(* The children and the clock                                              *)
(***************************************************************************)
ProcessExits(c) ==
  /\ process[c] = "alive"
  /\ \E code \in {"zero", "nonzero"} : process' = [process EXCEPT ![c] = code]
  /\ containers' = containers \ {c}
  /\ UNCHANGED <<script, expired, reported, faults>>

DeadlinePasses ==
  /\ CancelAfter /\ ~expired
  /\ expired' = TRUE
  /\ UNCHANGED <<script, process, containers, reported, faults>>

Next == Script \/ DeadlinePasses \/ \E c \in Cells : ProcessExits(c)

\* The script runs when it can; a child need not ever exit.
Spec == Init /\ [][Next]_vars /\ WF_vars(Script)

-----------------------------------------------------------------------------
TypeOK ==
  /\ pc \in {"fill", "poll", "collect", "kill", "complete", "done"}
  /\ \A s \in {pending, running, allRuns, visiting, failed} :
       Range(s) \subseteq Cells /\ IsInjective(s)
  /\ cancelled \in BOOLEAN /\ error \in BOOLEAN /\ expired \in BOOLEAN
  /\ completed \subseteq Cells /\ captured \subseteq Cells
  /\ outcome \in {"none", "passed", "failed", "cancelled", "error"}
  /\ process \in [Cells -> {"none", "alive", "zero", "nonzero"}]
  /\ containers \subseteq Cells
  /\ reported \in [Cells -> Nat]
  /\ faults \subseteq {"start", "log", "kill", "down"}

\* Concurrency is bounded (docs/ContainerValidation.md): between a start and the
\* exit of a child, however late the script notices it, at most MaxParallel
\* clients are alive.
BoundedConcurrency == Cardinality({c \in Cells : process[c] = "alive"}) <= MaxParallel

\* "A failure in one cell does not hide failures from the remaining cells"
\* (docs/ContainerValidation.md): a run that was neither cancelled nor aborted has
\* run every cell to its exit, and fails naming exactly the cells that failed.
OutcomeIsHonest ==
  outcome \in {"passed", "failed"} =>
    /\ \A c \in Cells : HasExited(c) /\ c \in captured
    /\ Range(failed) = {c \in Cells : process[c] = "nonzero"}
    /\ outcome = "passed" <=> \A c \in Cells : process[c] = "zero"

\* Whatever way the script ends, it has waited for every exit: no client outlives
\* it, and no container either unless the cleanup itself failed.
NothingOutlivesTheScript ==
  outcome # "none" =>
    /\ \A c \in Cells : process[c] # "alive"
    /\ containers # {} => "down" \in faults

\* The final cleanup cannot repeat the report of a failure that the loop made, nor
\* lose the one of a run the loop never collected.
FailuresReportedOnce ==
  /\ \A c \in Cells : reported[c] <= 1
  /\ outcome # "none" =>
       /\ \A c \in captured : reported[c] = 1 <=> process[c] = "nonzero"
       /\ "log" \notin faults => captured = Range(allRuns)

\* Once the deadline has passed the script ends even if the children hang, unless a
\* kill fails or an exception, which waits instead of killing, came first.
DeadlineEndsTheScript == expired ~> (outcome # "none" \/ error \/ "kill" \in faults)

\* If no child hangs the script ends, whatever goes wrong.
EndsWithItsChildren ==
  (\A c \in Cells : []<>(process[c] # "alive")) => <>(outcome # "none")
=============================================================================
