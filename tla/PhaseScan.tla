----------------------------- MODULE PhaseScan -----------------------------
(***************************************************************************)
(* A phase-based scan (tasks/phase_scan.py and the phase endpoints of      *)
(* ScanViewSet): its phases are run one at a time, each by a Celery task   *)
(* that leaves the scan paused for the user to go on, retry or skip, and   *)
(* completed when no phase is pending.                                     *)
(*                                                                         *)
(* An endpoint reads a row, decides and saves named columns of it; a task  *)
(* marks the scan and the phase running, works, and records both outcomes. *)
(* celery_task_id of a phase is written and never read.  The discovery     *)
(* phase can only fail: it unpacks three of the five results of            *)
(* discover_hosts.  The branch for _TaskCancelled is never taken, because  *)
(* Celery's task has no is_aborted.                                        *)
(***************************************************************************)
EXTENDS Naturals, FiniteSets

CONSTANTS
    Phase,       \* the scan's phases, numbered in their order
    Discovery,   \* the discovery phase, or NoPhase when it is not enabled
    NoPhase,
    Request,     \* requests of users
    Task         \* Celery tasks

\* init_phases refuses an empty list.
ASSUME PhaseAssumption == Phase \subseteq Nat /\ Phase # {} /\ IsFiniteSet(Phase) /\ NoPhase \notin Phase

VARIABLES
    scan,      \* Scan.status
    status,    \* PhaseRun.status of each phase
    request,   \* [at, phase]
    task,      \* [at, phase, left]; left: phases the last count found pending
    met,       \* history: two tasks were at work at once
    late,      \* history: a phase was made pending beside a task or after the end
    skipped    \* history: a phase was skipped with none left to run after it

vars == <<scan, status, request, task, met, late, skipped>>

PhaseStatus == {"pending", "running", "completed", "failed", "cancelled", "skipped"}
RequestStage == {"none", "run", "retry", "skip", "done"}
TaskStage == {"none", "queued", "marked", "working", "completed", "counted",
              "raised", "paused", "done", "crashed"}

Pending == {p \in Phase : status[p] = "pending"}
AtWork == {"marked", "working", "completed", "counted", "raised", "paused"}
Workers(p) == {t \in Task : task[t].at \in AtWork /\ task[t].phase = p}
Working == {t \in Task : task[t].at \in AtWork}
Move(t, s) == task' = [task EXCEPT ![t].at = s]

-----------------------------------------------------------------------------
(* Endpoints.                                                              *)

\* run_phase: the phase named in the request, or the first pending one.
ReadRun(r, p) ==
    /\ request[r].at = "none"
    /\ status[p] # "running"
    /\ request' = [request EXCEPT ![r] = [at |-> "run", phase |-> p]]
    /\ UNCHANGED <<scan, status, task, met, late, skipped>>

\* ... dispatches the task; the row is left as it is but for celery_task_id.
Dispatch(r, t) ==
    /\ request[r].at = "run"
    /\ task[t].at = "none"
    /\ task' = [task EXCEPT ![t] = [at |-> "queued", phase |-> request[r].phase, left |-> 0]]
    /\ request' = [request EXCEPT ![r].at = "done"]
    /\ UNCHANGED <<scan, status, met, late, skipped>>

\* retry_phase reads a failed or cancelled phase ...
ReadRetry(r, p) ==
    /\ request[r].at = "none"
    /\ status[p] \in {"failed", "cancelled"}
    /\ request' = [request EXCEPT ![r] = [at |-> "retry", phase |-> p]]
    /\ UNCHANGED <<scan, status, task, met, late, skipped>>

\* ... and makes it pending, whatever it is by now.
SaveRetry(r) ==
    /\ request[r].at = "retry"
    /\ status' = [status EXCEPT ![request[r].phase] = "pending"]
    /\ late' = (late \/ Working # {} \/ scan = "completed")
    /\ request' = [request EXCEPT ![r].at = "done"]
    /\ UNCHANGED <<scan, task, met, skipped>>

\* skip_phase reads a pending phase ...
ReadSkip(r, p) ==
    /\ request[r].at = "none"
    /\ status[p] = "pending"
    /\ request' = [request EXCEPT ![r] = [at |-> "skip", phase |-> p]]
    /\ UNCHANGED <<scan, status, task, met, late, skipped>>

\* ... and marks it skipped.  The scan is not looked at.
SaveSkip(r) ==
    /\ request[r].at = "skip"
    /\ status' = [status EXCEPT ![request[r].phase] = "skipped"]
    /\ skipped' = (skipped \/ Pending \subseteq {request[r].phase})
    /\ request' = [request EXCEPT ![r].at = "done"]
    /\ UNCHANGED <<scan, task, met, late>>

\* ScanViewSet.cancel of the scan: scan.celery_task_id names no phase task, so
\* nothing is revoked.
Cancel(r) ==
    /\ request[r].at = "none"
    /\ scan = "running"
    /\ scan' = "cancelled"
    /\ request' = [request EXCEPT ![r].at = "done"]
    /\ UNCHANGED <<status, task, met, late, skipped>>

-----------------------------------------------------------------------------
(* The task run_phase.                                                     *)

\* The scan is marked running ...
MarkScan(t) ==
    /\ task[t].at = "queued"
    /\ scan' = "running"
    /\ met' = (met \/ Working # {})
    /\ Move(t, "marked")
    /\ UNCHANGED <<status, request, late, skipped>>

\* ... then the phase.
MarkPhase(t) ==
    /\ task[t].at = "marked"
    /\ status' = [status EXCEPT ![task[t].phase] = "running"]
    /\ Move(t, "working")
    /\ UNCHANGED <<scan, request, met, late, skipped>>

\* Mutant: a cancel ends the task with neither branch taken.
OutcomesAborted(p) == {"completed", "raised", "cancelled"}

\* _execute_phase returns, or anything since the marks raises.
Outcomes(p) == IF p = Discovery THEN {"raised"} ELSE {"completed", "raised"}

Execute(t) ==
    /\ task[t].at = "working"
    /\ \E o \in Outcomes(task[t].phase) : Move(t, o)
    /\ UNCHANGED <<scan, status, request, met, late, skipped>>

\* Mutant: the phases are counted before this one is recorded.
CountWithSelf(t) ==
    /\ task[t].at = "completed"
    /\ status' = [status EXCEPT ![task[t].phase] = "completed"]
    /\ task' = [task EXCEPT ![t] = [@ EXCEPT !.at = "counted",
                  !.left = Cardinality({p \in Phase : status[p] \in {"pending", "running"}})]]
    /\ UNCHANGED <<scan, request, met, late, skipped>>

\* The phase is recorded completed, and the other pending phases are counted.
CompletePhase(t) ==
    /\ task[t].at = "completed"
    /\ status' = [status EXCEPT ![task[t].phase] = "completed"]
    /\ task' = [task EXCEPT ![t] = [@ EXCEPT !.at = "counted",
                  !.left = Cardinality(Pending \ {task[t].phase})]]
    /\ UNCHANGED <<scan, request, met, late, skipped>>

\* The scan is completed when none was pending, else paused.
Settle(t) ==
    /\ task[t].at = "counted"
    /\ scan' = IF task[t].left = 0 THEN "completed" ELSE "paused"
    /\ late' = (late \/ (task[t].left = 0 /\ Pending # {}))
    /\ Move(t, "done")
    /\ UNCHANGED <<status, request, met, skipped>>

\* Mutant: the scan is left as it is.
PauseNothing(t) ==
    /\ task[t].at = "raised"
    /\ Move(t, "paused")
    /\ UNCHANGED <<scan, status, request, met, late, skipped>>

\* An exception: the scan is paused ...
PauseScan(t) ==
    /\ task[t].at = "raised"
    /\ scan' = "paused"
    /\ Move(t, "paused")
    /\ UNCHANGED <<status, request, met, late, skipped>>

\* Mutant: only the scan is told.
FailQuietly(t) ==
    /\ task[t].at = "paused"
    /\ Move(t, "done")
    /\ UNCHANGED <<scan, status, request, met, late, skipped>>

\* ... and the phase failed.
FailPhase(t) ==
    /\ task[t].at = "paused"
    /\ status' = [status EXCEPT ![task[t].phase] = "failed"]
    /\ Move(t, "done")
    /\ UNCHANGED <<scan, request, met, late, skipped>>

\* The worker dies, or its hard time limit ends it.
Crash(t) ==
    /\ task[t].at \in AtWork
    /\ Move(t, "crashed")
    /\ UNCHANGED <<scan, status, request, met, late, skipped>>

-----------------------------------------------------------------------------
\* init_phases has created the rows and paused the scan.
Init ==
    /\ scan = "paused"
    /\ status = [p \in Phase |-> "pending"]
    /\ request = [r \in Request |-> [at |-> "none", phase |-> NoPhase]]
    /\ task = [t \in Task |-> [at |-> "none", phase |-> NoPhase, left |-> 0]]
    /\ met = FALSE
    /\ late = FALSE
    /\ skipped = FALSE

RequestStep(r) ==
    \/ SaveRetry(r) \/ SaveSkip(r) \/ Cancel(r)
    \/ \E p \in Phase : ReadRun(r, p) \/ ReadRetry(r, p) \/ ReadSkip(r, p)
    \/ \E t \in Task : Dispatch(r, t)

Work(t) ==
    \/ MarkScan(t) \/ MarkPhase(t) \/ Execute(t) \/ CompletePhase(t) \/ Settle(t)
    \/ PauseScan(t) \/ FailPhase(t)

Next == (\E r \in Request : RequestStep(r)) \/ (\E t \in Task : Work(t) \/ Crash(t))

Spec == Init /\ [][Next]_vars

\* The worker gets on with a task it has.
FairSpec == Spec /\ \A t \in Task : WF_vars(Work(t))

-----------------------------------------------------------------------------
(* Properties.                                                             *)

TypeOK ==
    /\ scan \in {"paused", "running", "completed", "cancelled"}
    /\ status \in [Phase -> PhaseStatus]
    /\ request \in [Request -> [at : RequestStage, phase : Phase \cup {NoPhase}]]
    /\ task \in [Task -> [at : TaskStage, phase : Phase \cup {NoPhase},
                          left : 0 .. Cardinality(Phase)]]
    /\ {met, late, skipped} \subseteq BOOLEAN

Crashed == {t \in Task : task[t].at = "crashed"}

\* A phase that says running has a task that will say otherwise, or one that
\* died: no retry, skip or second run leaves a phase running for ever.
RunningPhaseExplained ==
    \A p \in Phase : status[p] = "running" =>
        \E t \in Workers(p) \cup Crashed : task[t].phase = p

\* A task that counted the pending phases said what is so of the scan: completed,
\* and no phase is to run; or paused with nothing in progress, and one is pending
\* or can be retried.  Otherwise tasks crossed, a phase was made pending again
\* between the count and the save, or the last one was skipped, which completes
\* nothing.
OutcomeCounted ==
    /\ scan = "completed" /\ ~met /\ ~late => Pending = {}
    /\ scan = "paused" /\ ~met /\ ~skipped /\ Working = {} /\ Crashed = {} =>
         \E p \in Phase : status[p] \in {"pending", "failed", "cancelled"}

\* A scan does not say running for ever, unless a worker died.
RunningSettles == scan = "running" ~> (scan # "running" \/ Crashed # {})
=============================================================================
