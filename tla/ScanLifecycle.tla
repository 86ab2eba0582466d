--------------------------- MODULE ScanLifecycle ---------------------------
(***************************************************************************)
(* The life of a Scan row of the portal: the handlers that launch, cancel, *)
(* retry and delete it (REST API, Telegram bot, Celery beat), the Celery   *)
(* tasks that execute it, and the beat job that enforces stop times.       *)
(*                                                                         *)
(* The database is MySQL in autocommit mode and no handler takes a lock or *)
(* opens a transaction, so every ORM call is a step of its own and every   *)
(* handler works on an instance it read earlier.  Django writes such an    *)
(* instance back in one of two ways:                                       *)
(*   - save() writes EVERY column from the instance, and inserts the row   *)
(*     again when it no longer exists;                                     *)
(*   - save(update_fields=[...]) writes the named columns, and raises      *)
(*     DatabaseError when the row no longer exists.                        *)
(* A row keeps the columns the handlers decide on: status, scan_type,      *)
(* celery_task_id and whether a deadline is recorded.  Counters and        *)
(* results are the subject of module ResultQueue; phase-based scans, which *)
(* these tasks never execute, are left to their own module.                *)
(***************************************************************************)
EXTENDS Naturals, FiniteSets

CONSTANTS
    Scan,            \* ids of scan rows (uuid7: an id is never used twice)
    Request,         \* ids of the requests the portal and the bot serve
    Task,            \* Celery task ids
    NoRow,           \* the row does not exist
    NoTask,          \* celery_task_id is empty
    ScanType,        \* the scan types considered
    Launches,        \* the launchers considered
    MaxAutoRetries   \* max_retries of run_discovery_scan

Status == {"pending", "running", "completed", "failed", "cancelled"}

\* What one row of scanner_scan holds.
Row == [status : Status, type : ScanType,
        task : Task \cup {NoTask}, deadline : BOOLEAN]

ASSUME RowAssumption == NoRow \notin Row
ASSUME TaskAssumption == NoTask \notin Task /\ NoRow \notin Task \cup {NoTask}
ASSUME TypeAssumption == ScanType \subseteq {"pipeline", "discovery"}
ASSUME RetryAssumption == MaxAutoRetries \in Nat

\* Who launches: POST /api/scans/ and the bot's new-scan handlers ("direct"),
\* the beat job check_scheduled_scans, and a schedule's two "run now" buttons.
ASSUME LaunchAssumption ==
    Launches \subseteq {"direct", "schedule", "run_now", "bot_now"}

\* Who cancels: the API, and the bot's /cancel command and cancel button.
Cancels == {"api_cancel", "bot_cancel"}

\* A request in progress: its operation, its scan, where it stands, the
\* instance of the row it holds, and the task it has sent.
Call == [op : Launches \cup Cancels \cup {"retry"}, scan : Scan,
         pc : {"created", "reset", "sent", "read"},
         copy : Row, task : Task \cup {NoTask}]

Executing == {"got", "working", "refreshed"}
Ended == {"completed", "failed", "crashed", "terminated", "discarded"}

\* A task that has been sent: the function it runs, the scan it was given,
\* how often Celery has re-sent it, and the instance it holds.
Job == [scan : Scan, kind : {"pipeline", "discovery"},
        tries : 0..MaxAutoRetries,
        pc : {"queued"} \cup Executing \cup Ended,
        copy : Row \cup {NoRow}]

VARIABLES
    row,       \* table scanner_scan
    created,   \* scans whose row has been inserted
    overdue,   \* scans whose stop time lies in the past
    call,      \* requests in progress
    served,    \* requests answered
    job,       \* tasks sent so far, and where they stand
    revokes,   \* control.revoke broadcasts on their way to the worker
    revoked,   \* task ids the worker has been told to discard
    sweep,     \* the rows enforce_scan_deadlines has read and not yet handled,
               \* of which it uses the celery_task_id
    late,      \* history: scans marked running when their task was over
    unsent     \* history: scans whose launcher failed before it sent a task

vars == <<row, created, overdue, call, served, job, revokes, revoked, sweep,
          late, unsent>>
requests == <<call, served>>
history == <<late, unsent>>

-----------------------------------------------------------------------------
(* Writing an instance back.                                               *)

\* Mutant: Scan.objects.update(...) without a filter writes every scan.
SaveAll(s, c) ==
    row' = [u \in Scan |-> IF u = s \/ row[u] # NoRow THEN c ELSE row[u]]

\* save(): all columns of the instance, inserting the row when it is gone.
Save(s, c) == row' = [row EXCEPT ![s] = c]

\* save(update_fields=["status"]) and DatabaseError for a missing row.
SaveStatus(s, st) ==
    row' = IF row[s] = NoRow THEN row ELSE [row EXCEPT ![s].status = st]

\* Mutants: the except branch logs and saves without touching the status; a
\* cancel is recorded as a failure.
FailureForgotten(c, st) == IF st = "failed" THEN c ELSE [c EXCEPT !.status = st]
CancelAsFailure(c, st) ==
    [c EXCEPT !.status = IF st = "cancelled" THEN "failed" ELSE st]

\* The instance with the status a handler sets before it saves.
WithStatus(c, st) == [c EXCEPT !.status = st]

\* A request that has just arrived, holding c.
Arrives(r) == r \in Request \ (DOMAIN call \cup served)
Serve(r, c) ==
    /\ call' = [q \in DOMAIN call \cup {r} |-> IF q = r THEN c ELSE call[q]]
    /\ served' = served

\* Request r goes on with c, or is answered.
Continue(r, c) == call' = [call EXCEPT ![r] = c] /\ served' = served
Answer(r) ==
    /\ call' = [q \in DOMAIN call \ {r} |-> call[q]]
    /\ served' = served \cup {r}

\* .delay(): a fresh task id and its message on the broker.
Send(t, s, k) ==
    job' = [u \in DOMAIN job \cup {t} |->
              IF u = t THEN [scan |-> s, kind |-> k, tries |-> 0,
                             pc |-> "queued", copy |-> NoRow]
                       ELSE job[u]]

\* A task that is over holds no instance any more.
Over(t, pc) == [job EXCEPT ![t].pc = pc, ![t].copy = NoRow]

\* Mutant: the message is published anew, so Celery's count starts over.
ResentAsNew(t) == [Over(t, "queued") EXCEPT ![t].tries = 0]

\* self.retry(): the same task id again, with one more retry on its count.
Resent(t) == [Over(t, "queued") EXCEPT ![t].tries = @ + 1]

\* Mutant: the guard "if scan.celery_task_id" is dropped.
RevokeUnguarded(t) == revokes' = revokes \cup {t}

\* control.revoke(celery_task_id, terminate=True), when there is an id.
Revoke(t) == revokes' = revokes \cup ({t} \ {NoTask})

-----------------------------------------------------------------------------
(* Launching a scan.                                                       *)

\* Scan.objects.create(status="pending").  A launch the view refuses (limit
\* of concurrent scans, bad name) changes nothing.
CreateScan(r, s) ==
    /\ Arrives(r)
    /\ s \notin created
    /\ created' = created \cup {s}
    /\ \E op \in Launches, k \in ScanType :
         LET new == [status |-> "pending", type |-> k,
                     task |-> NoTask, deadline |-> FALSE]
         IN  /\ Save(s, new)
             /\ Serve(r, [op |-> op, scan |-> s, pc |-> "created",
                          copy |-> new, task |-> NoTask])
    /\ UNCHANGED <<overdue, job, revokes, revoked, sweep, history>>

\* run_now copies the schedule's policy onto the instance and saves all of it.
ApplyPolicy(r) ==
    /\ r \in DOMAIN call
    /\ call[r].op = "run_now" /\ call[r].pc = "created"
    /\ Save(call[r].scan, call[r].copy)
    /\ Continue(r, [call[r] EXCEPT !.pc = "reset"])
    /\ UNCHANGED <<created, overdue, job, revokes, revoked, sweep, history>>

\* run_scan.delay / run_discovery_scan.delay, by scan_type; the bot's
\* run-now button always sends run_scan and returns without a second save.
SendTask(r, t) ==
    /\ r \in DOMAIN call
    /\ call[r].pc \in {"created", "reset"}
    /\ t \in Task \ DOMAIN job
    /\ IF call[r].op = "bot_now"
       THEN Send(t, call[r].scan, "pipeline") /\ Answer(r)
       ELSE /\ Send(t, call[r].scan, call[r].copy.type)
            /\ Continue(r, [call[r] EXCEPT !.task = t, !.pc = "sent"])
    /\ UNCHANGED <<row, created, overdue, revokes, revoked, sweep, history>>

\* Stop times are given by the two schedule launchers that save a deadline.
Deadlines(c) == IF c.op \in {"schedule", "run_now"} THEN BOOLEAN
                                                   ELSE {row[c.scan].deadline}

\* The launcher's (or retry's) second save, of celery_task_id and
\* status="running", and of the deadline; it raises when the row is gone.
MarkLaunched(r) ==
    /\ r \in DOMAIN call
    /\ call[r].pc = "sent"
    /\ Answer(r)
    /\ LET s == call[r].scan
           t == call[r].task
       IN  IF row[s] = NoRow
           THEN UNCHANGED <<row, late>>
           ELSE /\ \E stop \in Deadlines(call[r]) :
                     row' = [row EXCEPT ![s] = [@ EXCEPT !.status = "running",
                                                         !.task = t,
                                                         !.deadline = stop]]
                /\ late' = IF job[t].pc \in Ended THEN late \cup {s} ELSE late
    /\ UNCHANGED <<created, overdue, job, revokes, revoked, sweep, unsent>>

\* The request ends where it stands: .delay() or revoke() raises because the
\* broker is away, or the process serving it dies.  Nothing undoes what it has
\* saved: a scan created or reset stays "pending", no task is sent for it.
RequestFails(r) ==
    /\ r \in DOMAIN call
    /\ Answer(r)
    /\ unsent' = IF call[r].pc \in {"created", "reset"}
                 THEN unsent \cup {call[r].scan} ELSE unsent
    /\ UNCHANGED <<row, created, overdue, job, revokes, revoked, sweep, late>>

-----------------------------------------------------------------------------
(* Cancelling, retrying and deleting.                                      *)

\* The API and the bot's command act on a running scan only, the bot's
\* button on a running or pending one.
Cancellable(op) == IF op = "bot_cancel" THEN {"running", "pending"}
                                        ELSE {"running"}

\* The handler reads the row and finds a status it acts on.
ReadToCancel(r, s) ==
    /\ Arrives(r)
    /\ row[s] # NoRow
    /\ \E op \in Cancels :
         /\ row[s].status \in Cancellable(op)
         /\ Serve(r, [op |-> op, scan |-> s, pc |-> "read",
                      copy |-> row[s], task |-> NoTask])
    /\ UNCHANGED <<row, created, overdue, job, revokes, revoked, sweep, history>>

\* The API answers 200 with the row as it is when it finds another status.
CancelWithoutEffect(r, s) ==
    /\ Arrives(r)
    /\ row[s] # NoRow
    /\ row[s].status \notin Cancellable("api_cancel")
    /\ Answer(r)
    /\ UNCHANGED <<row, created, overdue, job, revokes, revoked, sweep, history>>

\* The handler revokes the task it has read and writes "cancelled": the API
\* the whole instance, the bot the status.  Broadcast and write are one step:
\* the broadcast has no effect before the worker receives it.
CancelScan(r) ==
    /\ r \in DOMAIN call
    /\ call[r].op \in Cancels /\ call[r].pc = "read"
    /\ Revoke(call[r].copy.task)
    /\ IF call[r].op = "api_cancel"
       THEN Save(call[r].scan, WithStatus(call[r].copy, "cancelled"))
       ELSE SaveStatus(call[r].scan, "cancelled")
    /\ Answer(r)
    /\ UNCHANGED <<created, overdue, job, revoked, sweep, history>>

\* retry reads a failed or cancelled scan ...
ReadToRetry(r, s) ==
    /\ Arrives(r)
    /\ row[s] # NoRow
    /\ row[s].status \in {"failed", "cancelled"}
    /\ Serve(r, [op |-> "retry", scan |-> s, pc |-> "read",
                 copy |-> row[s], task |-> NoTask])
    /\ UNCHANGED <<row, created, overdue, job, revokes, revoked, sweep, history>>

\* Mutant: the reset is saved and the request answered, nothing is sent.
ResetOnly(r) ==
    /\ r \in DOMAIN call
    /\ call[r].op = "retry" /\ call[r].pc = "read"
    /\ Save(call[r].scan, WithStatus(call[r].copy, "pending"))
    /\ Answer(r)
    /\ UNCHANGED <<created, overdue, job, revokes, revoked, sweep, history>>

\* ... and saves it as pending, all columns; SendTask and MarkLaunched follow.
ResetToPending(r) ==
    /\ r \in DOMAIN call
    /\ call[r].op = "retry" /\ call[r].pc = "read"
    /\ LET mine == WithStatus(call[r].copy, "pending")
       IN  /\ Save(call[r].scan, mine)
           /\ Continue(r, [call[r] EXCEPT !.pc = "reset", !.copy = mine])
    /\ UNCHANGED <<created, overdue, job, revokes, revoked, sweep, history>>

\* DELETE: the row goes in one transaction, whatever its status; no task is
\* revoked.
DeleteScan(r, s) ==
    /\ Arrives(r)
    /\ row[s] # NoRow
    /\ row' = [row EXCEPT ![s] = NoRow]
    /\ Answer(r)
    /\ UNCHANGED <<created, overdue, job, revokes, revoked, sweep, history>>

-----------------------------------------------------------------------------
(* The worker.  Tasks are acknowledged when they are received, so a task   *)
(* whose process dies is not delivered again.                              *)

\* The task is received and reads its row, outside the try block: when the
\* row is gone DoesNotExist ends it.  A revoked task is discarded unread.
Fetch(t) ==
    /\ t \in DOMAIN job
    /\ job[t].pc = "queued"
    /\ job' = IF t \in revoked \/ row[job[t].scan] = NoRow
              THEN Over(t, "discarded")
              ELSE [job EXCEPT ![t].pc = "got",
                               ![t].copy = row[job[t].scan]]
    /\ UNCHANGED <<row, created, overdue, requests, revokes, revoked, sweep, history>>

\* status, started_at and celery_task_id, saved with every other column.
MarkRunning(t) ==
    /\ t \in DOMAIN job
    /\ job[t].pc = "got"
    /\ LET mine == [job[t].copy EXCEPT !.status = "running", !.task = t]
       IN  /\ Save(job[t].scan, mine)
           /\ job' = [job EXCEPT ![t].pc = "working", ![t].copy = mine]
    /\ UNCHANGED <<created, overdue, requests, revokes, revoked, sweep, history>>

\* The pipeline is through: scan.refresh_from_db() ...
Refresh(t) ==
    /\ t \in DOMAIN job
    /\ job[t].pc = "working"
    /\ row[job[t].scan] # NoRow
    /\ job' = [job EXCEPT ![t].pc = "refreshed", ![t].copy = row[job[t].scan]]
    /\ UNCHANGED <<row, created, overdue, requests, revokes, revoked, sweep, history>>

\* ... and "completed", whatever status the refresh has found.
Complete(t) ==
    /\ t \in DOMAIN job
    /\ job[t].pc = "refreshed"
    /\ Save(job[t].scan, WithStatus(job[t].copy, "completed"))
    /\ job' = Over(t, "completed")
    /\ UNCHANGED <<created, overdue, requests, revokes, revoked, sweep, history>>

\* An exception inside the try block (SoftTimeLimitExceeded, a tool, the
\* database, DoesNotExist on refresh): "failed" is saved with the columns the
\* instance holds.  A discovery task is then re-sent under the same id.
Fail(t) ==
    /\ t \in DOMAIN job
    /\ job[t].pc \in {"working", "refreshed"}
    /\ Save(job[t].scan, WithStatus(job[t].copy, "failed"))
    /\ job' = IF job[t].kind = "discovery" /\ job[t].tries < MaxAutoRetries
              THEN Resent(t)
              ELSE Over(t, "failed")
    /\ UNCHANGED <<created, overdue, requests, revokes, revoked, sweep, history>>

\* The worker process dies: out of memory, hard time limit, a redeploy.
Crash(t) ==
    /\ t \in DOMAIN job
    /\ job[t].pc \in Executing
    /\ job' = Over(t, "crashed")
    /\ UNCHANGED <<row, created, overdue, requests, revokes, revoked, sweep, history>>

\* The worker receives a revoke: it remembers the id and, as terminate=True,
\* kills the process that executes the task.
ReceiveRevoke(t) ==
    /\ t \in revokes
    /\ revokes' = revokes \ {t}
    /\ revoked' = revoked \cup {t}
    /\ job' = IF job[t].pc \in Executing
              THEN Over(t, "terminated") ELSE job
    /\ UNCHANGED <<row, created, overdue, requests, sweep, history>>

\* A broadcast nobody listens to (the worker is restarting) is gone.
LoseRevoke(t) ==
    /\ t \in revokes
    /\ revokes' = revokes \ {t}
    /\ UNCHANGED <<row, created, overdue, requests, job, revoked, sweep, history>>

-----------------------------------------------------------------------------
(* Beat: enforce_scan_deadlines.                                           *)

\* A deadline lies in the future when a launcher saves it; nothing looks at
\* the clock of a scan that has none.
StopTimePasses(s) ==
    /\ s \notin overdue
    /\ row[s] # NoRow /\ row[s].deadline
    /\ overdue' = overdue \cup {s}
    /\ UNCHANGED <<row, created, requests, job, revokes, revoked, sweep, history>>

\* Mutant: a scan whose task has been revoked before is skipped.
NotYetRevoked(s) ==
    /\ row[s] # NoRow
    /\ row[s].status = "running" /\ row[s].deadline /\ s \in overdue
    /\ row[s].task \notin revoked

\* filter(status="running", deadline__lte=now)
IsOverdue(s) ==
    /\ row[s] # NoRow
    /\ row[s].status = "running" /\ row[s].deadline /\ s \in overdue

\* The queryset is evaluated once; the loop works on its instances.
ReadOverdue ==
    /\ \A s \in Scan : sweep[s] = NoRow
    /\ \E s \in Scan : IsOverdue(s)
    /\ sweep' = [s \in Scan |-> IF IsOverdue(s) THEN row[s].task ELSE NoRow]
    /\ UNCHANGED <<row, created, overdue, requests, job, revokes, revoked, history>>

\* One turn of the loop.  The save raises when the row is gone, and nothing
\* catches that: the scans not yet handled are left to the next run.
CancelOverdue(s) ==
    /\ sweep[s] # NoRow
    /\ Revoke(sweep[s])
    /\ SaveStatus(s, "cancelled")
    /\ sweep' = IF row[s] = NoRow THEN [u \in Scan |-> NoRow]
                                  ELSE [sweep EXCEPT ![s] = NoRow]
    /\ UNCHANGED <<created, overdue, requests, job, revoked, history>>

-----------------------------------------------------------------------------
Init ==
    /\ row = [s \in Scan |-> NoRow]
    /\ created = {}
    /\ overdue = {}
    /\ call = [r \in {} |-> {}]
    /\ served = {}
    /\ job = [t \in {} |-> {}]
    /\ revokes = {}
    /\ revoked = {}
    /\ sweep = [s \in Scan |-> NoRow]
    /\ late = {}
    /\ unsent = {}

RequestStep(r) ==
    \/ ApplyPolicy(r)
    \/ \E t \in Task : SendTask(r, t)
    \/ MarkLaunched(r)
    \/ CancelScan(r)
    \/ ResetToPending(r)

RequestArrives ==
    \E r \in Request, s \in Scan :
        \/ CreateScan(r, s)
        \/ ReadToCancel(r, s) \/ CancelWithoutEffect(r, s)
        \/ ReadToRetry(r, s)
        \/ DeleteScan(r, s)

TaskStep(t) ==
    Fetch(t) \/ MarkRunning(t) \/ Refresh(t) \/ Complete(t) \/ Fail(t)

SweepStep == ReadOverdue \/ \E s \in Scan : CancelOverdue(s)

Next ==
    \/ RequestArrives
    \/ \E r \in Request : RequestStep(r) \/ RequestFails(r)
    \/ \E t \in Task : TaskStep(t) \/ Crash(t) \/ ReceiveRevoke(t) \/ LoseRevoke(t)
    \/ \E s \in Scan : StopTimePasses(s)
    \/ SweepStep

\* A request in progress runs on unless it fails; a task the worker holds is
\* executed and is over at the latest when its hard time limit strikes; beat
\* comes round every minute.  Nobody has to send a request, and nothing has to crash.
Fairness ==
    /\ \A r \in Request : WF_vars(RequestStep(r))
    /\ \A t \in Task : WF_vars(TaskStep(t))
    /\ WF_vars(SweepStep)

Spec == Init /\ [][Next]_vars
FairSpec == Spec /\ Fairness

-----------------------------------------------------------------------------
(* Properties.                                                             *)

\* Every variable keeps its type, an executing task holds an instance, and a
\* launcher that is about to save a task id has sent that task.
TypeOK ==
    /\ row \in [Scan -> Row \cup {NoRow}]
    /\ created \subseteq Scan /\ overdue \subseteq Scan /\ late \subseteq Scan
    /\ unsent \subseteq Scan
    /\ call \in [DOMAIN call -> Call]
    /\ job \in [DOMAIN job -> Job]
    /\ DOMAIN call \subseteq Request /\ served \subseteq Request
    /\ DOMAIN job \subseteq Task
    /\ \A t \in DOMAIN job : job[t].pc \in Executing => job[t].copy \in Row
    /\ \A r \in DOMAIN call : call[r].pc = "sent" => call[r].task \in DOMAIN job
    /\ revokes \subseteq Task /\ revoked \subseteq Task
    /\ sweep \in [Scan -> Task \cup {NoTask, NoRow}]

\* As an id of a task of scan s, t is empty or names a task sent for s.
OwnTask(s, t) ==
    \/ t = NoTask
    \/ t \in DOMAIN job /\ job[t].scan = s

\* A scan's celery_task_id always names a task that was sent for this very
\* scan, and every revoke names a task that was sent: through all the stale
\* instances the handlers write back, a cancel never kills the task of another
\* scan.
TaskIdOwned ==
    /\ \A s \in Scan : row[s] # NoRow => OwnTask(s, row[s].task)
    /\ revokes \subseteq DOMAIN job

Live(s) == \E t \in DOMAIN job :
    job[t].scan = s /\ job[t].pc \in {"queued"} \cup Executing

\* Some request has written "pending" and is about to send the task.
BeingLaunched(s) == \E r \in DOMAIN call :
    call[r].scan = s /\ call[r].pc \in {"created", "reset"}

\* A task of s was stopped from outside: its process died, or a revoke
\* reached the worker.
Interrupted(s) == \E t \in DOMAIN job :
    job[t].scan = s /\ (job[t].pc = "crashed" \/ t \in revoked)

\* A scan that says "pending" is not forgotten: a request is still launching
\* it or a task for it is on its way, unless its task was stopped from outside
\* before it marked the row running, or its launcher failed between the insert
\* (or the reset) and the sending.  Nothing else leaves a pending scan behind.
PendingHasDriver ==
    \A s \in Scan : row[s] # NoRow /\ row[s].status = "pending" =>
        BeingLaunched(s) \/ Live(s) \/ Interrupted(s) \/ s \in unsent

\* A scan that says "running" with no task left to run it is the trace of one
\* of two things: a task that was stopped from outside, or a launcher that
\* wrote "running" after its task was over.  Nothing else strands a scan.
StuckRunningExplained ==
    \A s \in Scan : row[s] # NoRow /\ row[s].status = "running" =>
        Live(s) \/ Interrupted(s) \/ s \in late

\* A verdict is never invented: whatever stale instance was written, a scan
\* says "completed" only if one of its own tasks went all the way through, and
\* "failed" only if one of its own tasks raised.
OutcomeEarned ==
    \A s \in Scan : row[s] # NoRow =>
        /\ row[s].status = "completed" =>
             \E t \in DOMAIN job : job[t].scan = s /\ job[t].pc = "completed"
        /\ row[s].status = "failed" =>
             \E t \in DOMAIN job :
                 job[t].scan = s /\ (job[t].pc = "failed" \/ job[t].tries > 0)

\* Every task the broker accepts is over some day: run, discarded or killed.
EveryTaskEnds ==
    \A t \in Task :
        t \in DOMAIN job ~> t \in DOMAIN job /\ job[t].pc \in Ended

\* Whatever races and crashes left behind, a scan whose row carries a passed
\* deadline does not say "running" for ever: beat cancels it, and keeps at it
\* when a late launcher or a stale task writes "running" again.
OverdueScanStops ==
    \A s \in Scan :
        <>[](s \in overdue /\ row[s] # NoRow /\ row[s].status = "running"
             => ~row[s].deadline)

\* API.md: "Delete scan and all related hosts, findings, reports."  The row of
\* a deleted scan does not come back.
DeletedStaysDeleted ==
    [][\A s \in created : row[s] = NoRow => row'[s] = NoRow]_vars

\* API.md: "Cancel a running scan. Revokes the Celery task."  A scan that was
\* cancelled, the revoke of its task sent, is not completed by that task.
CancelSticks ==
    [][\A s \in Scan :
         /\ row[s] # NoRow /\ row[s].status = "cancelled"
         /\ row[s].task \in revokes \cup revoked
         /\ row'[s] # NoRow
         => row'[s].status # "completed"]_vars
=============================================================================
