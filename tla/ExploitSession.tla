--------------------------- MODULE ExploitSession ---------------------------
(***************************************************************************)
(* The wizard sessions that a user confirms step by step: MSF sessions     *)
(* (tasks/msf_exploit.py) and ADCS sessions (tasks/adcs_exploit.py).  A    *)
(* session is a row; each of its steps is run by a Celery task of its own, *)
(* sent when the session is created and whenever the user approves.  The   *)
(* task and the handler of an answer read the row, decide by its status,   *)
(* and write it back later, without a lock.                                *)
(*                                                                         *)
(* An answer and the task it sends are one thread of control here, named   *)
(* by the request.  Of the row, status and current_step are kept: commands,*)
(* output and overrides are left out, and so is what a step does.  The row *)
(* is not deleted.                                                         *)
(***************************************************************************)
EXTENDS Naturals, Sequences

CONSTANTS
    Request,     \* requests: the creation and the user's answers
    Creation,    \* the request that has created the session
    Kind,        \* "msf", "adcs"
    StepsOf      \* number of steps of a session of each kind

ASSUME RequestAssumption == Creation \in Request
ASSUME KindAssumption == Kind \subseteq {"msf", "adcs"}
ASSUME StepsAssumption == StepsOf \in [Kind -> Nat \ {0}]

VARIABLES
    kind,     \* which of the two the session is
    status,   \* column status
    step,     \* column current_step: the steps that are through
    at,       \* where each request, and the task it has sent, stands
    copy,     \* current_step in the instance the task holds
    tried,    \* history: the steps whose command was run, in that order
    untried,  \* history: the steps that a task went past without running their command
    overlap   \* history: two answers were being handled at the same time

row == <<status, step>>
history == <<tried, untried>>
vars == <<kind, status, step, at, copy, history, overlap>>

total == StepsOf[kind]

Status == {"running", "awaiting_confirm", "completed", "failed", "cancelled"}
Stage == {"none", "read", "saved", "queued", "got", "marked", "ran", "unrun",
          "ended", "refused", "crashed"}

\* r goes on to stage s.
To(r, s) == at' = [at EXCEPT ![r] = s]

-----------------------------------------------------------------------------
(* Answers.                                                                *)

\* Mutant: the handler forgets to look at the status.
ReadAnyway(r) ==
    /\ at[r] = "none"
    /\ To(r, "read")
    /\ overlap' = (overlap \/ \E q \in Request : at[q] = "read")
    /\ UNCHANGED <<kind, row, copy, history>>

\* The handler finds the session waiting; otherwise it answers 400.
Read(r) ==
    /\ at[r] = "none"
    /\ status = "awaiting_confirm"
    /\ To(r, "read")
    /\ overlap' = (overlap \/ \E q \in Request : at[q] = "read")
    /\ UNCHANGED <<kind, row, copy, history>>

\* save(update_fields=["status"])
Reject(r) ==
    /\ at[r] = "read"
    /\ status' = "cancelled"
    /\ To(r, "ended")
    /\ UNCHANGED <<kind, step, copy, history, overlap>>

Approve(r) ==
    /\ at[r] = "read"
    /\ status' = "running"
    /\ To(r, "saved")
    /\ UNCHANGED <<kind, step, copy, history, overlap>>

\* delay() sends the task, or raises when the broker cannot be reached.
Dispatch(r) ==
    /\ at[r] = "saved"
    /\ To(r, "queued") \/ To(r, "refused")
    /\ UNCHANGED <<kind, row, copy, history, overlap>>

-----------------------------------------------------------------------------
(* The task.                                                               *)

\* An MSF task leaves a session alone that is over, an ADCS task one that is
\* not running.
Skipped ==
    IF kind = "msf" THEN status \in {"cancelled", "completed", "failed"}
                    ELSE status # "running"

\* objects.get
Fetch(r) ==
    /\ at[r] = "queued"
    /\ IF Skipped THEN To(r, "ended") /\ copy' = copy
                  ELSE To(r, "got") /\ copy' = [copy EXCEPT ![r] = step]
    /\ UNCHANGED <<kind, row, history, overlap>>

\* No step is left: ADCS marks the session completed, MSF just returns.
NoStepLeft(r) ==
    /\ at[r] = "got"
    /\ copy[r] >= total
    /\ status' = IF kind = "msf" THEN status ELSE "completed"
    /\ To(r, "ended")
    /\ UNCHANGED <<kind, step, copy, history, overlap>>

\* Mutant: whether a step is left is not asked.
MarkUnchecked(r) ==
    /\ kind = "msf"
    /\ at[r] = "got"
    /\ status' = "running"
    /\ To(r, "marked")
    /\ UNCHANGED <<kind, step, copy, history, overlap>>

\* MSF: status = "running", save(update_fields=["status"]).
MarkRunning(r) ==
    /\ kind = "msf"
    /\ at[r] = "got"
    /\ copy[r] < total
    /\ status' = "running"
    /\ To(r, "marked")
    /\ UNCHANGED <<kind, step, copy, history, overlap>>

\* The task is about to run the command of the step it remembers as next.
AtCommand(r) == at[r] = (IF kind = "msf" THEN "marked" ELSE "got") /\ copy[r] < total

\* The command of the step is built and run.
Run(r) ==
    /\ AtCommand(r)
    /\ tried' = Append(tried, copy[r] + 1)
    /\ To(r, "ran")
    /\ UNCHANGED <<kind, row, copy, untried, overlap>>

\* No command is run: no directory, parameter or save for it (ADCS), no module or
\* no msfconsole (MSF).  An except clause notes the error as the step's output.
NotRun(r) ==
    /\ AtCommand(r)
    /\ untried' = untried \cup {copy[r] + 1}
    /\ To(r, "unrun")
    /\ UNCHANGED <<kind, row, copy, tried, overlap>>

\* Mutant: ADCS goes back to "running" when the next step is not destructive.
OutcomesUnasked(i) ==
    IF i + 1 = total
    THEN {"completed"} \cup (IF kind = "msf" THEN {"failed"} ELSE {})
    ELSE {"running"} \cup (IF kind = "msf" THEN {} ELSE {"failed"})

\* The status after the step with index i.  The first step of MSF only
\* reviews and reports its errors as output; the last step of ADCS completes
\* the session even when its command fails, as none of them is destructive.
Outcomes(i) ==
    IF i + 1 = total
    THEN {"completed"} \cup (IF kind = "msf" THEN {"failed"} ELSE {})
    ELSE {"awaiting_confirm"} \cup (IF kind = "msf" THEN {} ELSE {"failed"})

\* The same when no command was run: the review of MSF asks to go on all the same.
OutcomeUnrun(i) ==
    IF i + 1 = total THEN (IF kind = "msf" THEN "failed" ELSE "completed")
                     ELSE (IF kind = "msf" THEN "awaiting_confirm" ELSE "failed")

\* Mutant: current_step is incremented in the database.
FinishCounting(r) ==
    /\ at[r] \in {"ran", "unrun"}
    /\ step' = step + 1
    /\ status' \in IF at[r] = "ran" THEN Outcomes(copy[r]) ELSE {OutcomeUnrun(copy[r])}
    /\ To(r, "ended")
    /\ UNCHANGED <<kind, copy, history, overlap>>

\* status and current_step are saved with the output.
Finish(r) ==
    /\ at[r] \in {"ran", "unrun"}
    /\ step' = copy[r] + 1
    /\ status' \in IF at[r] = "ran" THEN Outcomes(copy[r]) ELSE {OutcomeUnrun(copy[r])}
    /\ To(r, "ended")
    /\ UNCHANGED <<kind, copy, history, overlap>>

\* An exception leaves the handler of an MSF step: status = "failed".
HandlerRaises(r) ==
    /\ kind = "msf"
    /\ at[r] \in {"marked", "ran", "unrun"}
    /\ status' = "failed"
    /\ To(r, "ended")
    /\ UNCHANGED <<kind, step, copy, history, overlap>>

\* The worker dies, or the database is away when the task saves.
Crash(r) ==
    /\ at[r] \in {"got", "marked", "ran", "unrun"}
    /\ To(r, "crashed")
    /\ UNCHANGED <<kind, row, copy, history, overlap>>

-----------------------------------------------------------------------------
\* create() has inserted the row and is about to send the first task.
Init ==
    /\ kind \in Kind
    /\ status = "running"
    /\ step = 0
    /\ at = [r \in Request |-> IF r = Creation THEN "saved" ELSE "none"]
    /\ copy = [r \in Request |-> 0]
    /\ tried = <<>> /\ untried = {}
    /\ overlap = FALSE

AnswerStep(r) == Reject(r) \/ Approve(r) \/ Dispatch(r)

TaskStep(r) ==
    \/ Fetch(r) \/ NoStepLeft(r) \/ MarkRunning(r)
    \/ Run(r) \/ NotRun(r) \/ Finish(r) \/ HandlerRaises(r)

Next == \E r \in Request : Read(r) \/ AnswerStep(r) \/ TaskStep(r) \/ Crash(r)

Spec == Init /\ [][Next]_vars

\* A request that has arrived is answered; a task that was sent is run, and
\* its command has a timeout.
FairSpec == Spec /\ \A r \in Request : WF_vars(AnswerStep(r) \/ TaskStep(r))

-----------------------------------------------------------------------------
(* Properties.                                                             *)

\* Every variable keeps its type.
TypeOK ==
    /\ kind \in Kind
    /\ status \in Status
    /\ step \in 0..total
    /\ at \in [Request -> Stage]
    /\ copy \in [Request -> 0..total]
    /\ \A r \in Request : at[r] \in {"marked", "ran", "unrun"} => copy[r] < total
    /\ tried \in Seq(1..total) /\ untried \subseteq 1..total
    /\ overlap \in BOOLEAN

Tried(n) == \E i \in DOMAIN tried : tried[i] = n

Settled(n) == Tried(n) \/ n \in untried

\* Whatever answers cross each other and whichever stale task saves last: a
\* step is run only after a task has dealt with the step before it, the session
\* counts no step and completes with none that no task has dealt with, and an
\* MSF session completes only when its last command was run.
StepsSettled ==
    /\ \A i \in DOMAIN tried : tried[i] > 1 =>
           (\E j \in 1..i-1 : tried[j] = tried[i] - 1) \/ tried[i] - 1 \in untried
    /\ \A n \in 1..step : Settled(n)
    /\ status = "completed" => \A n \in 1..total : Settled(n)
    /\ status = "completed" /\ kind = "msf" => Tried(total)

\* An ADCS session that asks its user to go on has run every step it counts,
\* unless two answers were handled at once.
GoesOnTried ==
    kind = "adcs" /\ status = "awaiting_confirm" /\ ~overlap => \A n \in 1..step : Tried(n)

\* Steps are dealt with in their order, and going on means that they were run.
StepsInOrder == StepsSettled /\ GoesOnTried

Live(r) == at[r] \in {"saved", "queued", "got", "marked", "ran", "unrun"}

\* The task was not sent, or it died.
Stopped(r) == at[r] \in {"refused", "crashed"}

\* A session says "running" only while a task is on its way or at work, unless
\* the task was stopped from outside, or an answer to an MSF session came
\* so late that no step was left for its task.
RunningExplained ==
    status = "running" =>
        \/ \E r \in Request : Live(r) \/ Stopped(r)
        \/ kind = "msf" /\ overlap

\* A session does not stay "running", under the same provisos.
SessionSettles ==
    status = "running" ~>
        \/ status # "running"
        \/ \E r \in Request : Stopped(r)
        \/ kind = "msf" /\ overlap

Steps == INSTANCE StepByStep

\* As long as no two answers are handled at the same time, every task and
\* every answer moves the session as StepByStep allows: nothing is run
\* twice, out of order, without the user's word or after the end.
OneStepAtATime ==
    Steps!StepInit /\ [][Steps!StepNext \/ overlap]_<<total, status, step, tried, untried>>
=============================================================================
