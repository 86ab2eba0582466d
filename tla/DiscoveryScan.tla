---------------------------- MODULE DiscoveryScan ----------------------------
(***************************************************************************)
(* The host rows and the host counter of a discovery scan                  *)
(* (tasks/discovery.py).  Each execution of run_discovery_scan hands what  *)
(* a subnet has found to a writer thread of its own, waits for the thread  *)
(* for a while, and saves what discover_hosts returned; or it saves the    *)
(* instance it read at the start and asks Celery for another execution.    *)
(* A user may cancel or retry meanwhile.                                   *)
(*                                                                         *)
(* Of the scan's columns only status and hosts_count are here: the task id *)
(* and who owns it are in ScanLifecycle, and the columns the progress bar  *)
(* is drawn from (hosts_scanned, hosts_total) are left out.  The branches  *)
(* for _TaskCancelled are never taken: Celery's task has no is_aborted.    *)
(* Bound: one loss, a failed write or a drain that times out, in a         *)
(* behaviour; nothing is claimed of the counter after it.                  *)
(***************************************************************************)
EXTENDS Naturals, Sequences, FiniteSets

CONSTANTS
    Host,        \* addresses that may answer
    Executions,  \* bound: executions of the task
    MaxRetries,  \* max_retries of the task
    MaxSubnets   \* bound: subnets of the target that find something

Execution == 1 .. Executions

VARIABLES
    status,     \* Scan.status
    count,      \* Scan.hosts_count
    rows,       \* Host rows of the scan
    exec,       \* the executions
    thread,     \* the writer thread of each
    user,       \* the user's request
    listed,     \* history: what the last execution that completed returned
    again,      \* history: an execution found rows of another
    mixed,      \* history: two executions were at work at once
    lost        \* history: a write failed, or a thread was left behind

scan == <<status, count, rows>>
vars == <<scan, exec, thread, user, listed, again, mixed, lost>>

Stage == {"none", "queued", "finding", "draining", "stopping", "drained", "over"}
AtWork == {"finding", "draining", "stopping", "drained"}
Busy == {e \in Execution : exec[e].at \in AtWork}

All(hosts) == [kind |-> "all", hosts |-> hosts]
Delta(hosts) == [kind |-> "new", hosts |-> hosts]
Sentinel == [kind |-> "end", hosts |-> {}]

-----------------------------------------------------------------------------
(* The task.                                                               *)

Queued(retries) == [at |-> "queued", retries |-> retries, copy |-> 0, live |-> {},
                    subnets |-> 0, raised |-> FALSE]
Over == [Queued(0) EXCEPT !.at = "over"]
Ended == [at |-> "gone", queue |-> <<>>, stop |-> FALSE]

\* The instance is read and saved with status running; a new thread waits.
MarkRunning(e) ==
    /\ exec[e].at = "queued"
    /\ status' = "running"
    /\ exec' = [exec EXCEPT ![e] = [@ EXCEPT !.at = "finding", !.copy = count]]
    /\ thread' = [thread EXCEPT ![e] = [at |-> "idle", queue |-> <<>>, stop |-> FALSE]]
    /\ again' = (again \/ rows # {})
    /\ mixed' = (mixed \/ Busy # {})
    /\ UNCHANGED <<count, rows, user, listed, lost>>

Put(e, item) == thread' = [thread EXCEPT ![e].queue = Append(@, item)]

\* A subnet is done: what the set of live hosts has grown by meanwhile is put in
\* the queue, though another subnet may have reported it too.
ReportSubnet(e) ==
    /\ exec[e].at = "finding" /\ exec[e].subnets < MaxSubnets
    /\ \E new \in SUBSET Host \ {{}} :
          /\ exec' = [exec EXCEPT ![e] = [exec[e] EXCEPT !.live = @ \cup new, !.subnets = @ + 1]]
          /\ Put(e, Delta(new))
    /\ UNCHANGED <<scan, user, listed, again, mixed, lost>>

\* What the finally clause announces: live_ips is assigned by a return only.
Listed(found, raises) == IF raises THEN {} ELSE found

\* discover_hosts returns what it has, with the hosts found unreachable and, if
\* asked for, the silent ones; or something raises.  The finally clause announces
\* the list and ends the queue.
EndDiscovery(e) ==
    /\ exec[e].at = "finding"
    /\ \E more \in SUBSET Host, raises \in BOOLEAN :
         LET all == Listed(exec[e].live \cup more, raises) IN
         /\ exec' = [exec EXCEPT ![e] =
                       [@ EXCEPT !.at = "draining", !.raised = raises, !.live = all]]
         /\ thread' = [thread EXCEPT ![e].queue = @ \o <<All(all), Sentinel>>]
    /\ UNCHANGED <<scan, user, listed, again, mixed, lost>>

\* _thread.join(30) returns because the thread has ended ...
Joined(e) ==
    /\ exec[e].at \in {"draining", "stopping"} /\ thread[e].at = "gone"
    /\ exec' = [exec EXCEPT ![e].at = "drained"]
    /\ UNCHANGED <<scan, thread, user, listed, again, mixed, lost>>

\* ... or the time is over and the thread is told to stop ...
DrainTimesOut(e) ==
    /\ exec[e].at = "draining" /\ thread[e].at # "gone" /\ ~lost
    /\ thread' = [thread EXCEPT ![e].stop = TRUE]
    /\ exec' = [exec EXCEPT ![e].at = "stopping"]
    /\ lost' = TRUE
    /\ UNCHANGED <<scan, user, listed, again, mixed>>

\* ... and left behind after five more seconds.
LeaveBehind(e) ==
    /\ exec[e].at = "stopping"
    /\ exec' = [exec EXCEPT ![e].at = "drained"]
    /\ UNCHANGED <<scan, thread, user, listed, again, mixed, lost>>

\* The row is read again and saved with status completed and the length of the list.
Complete(e) ==
    /\ exec[e].at = "drained" /\ ~exec[e].raised
    /\ status' = "completed"
    /\ count' = Cardinality(exec[e].live)
    /\ listed' = exec[e].live
    /\ exec' = [exec EXCEPT ![e] = Over]
    /\ UNCHANGED <<rows, thread, user, again, mixed, lost>>

\* ... or that raises.
CompleteRaises(e) ==
    /\ exec[e].at = "drained" /\ ~exec[e].raised
    /\ exec' = [exec EXCEPT ![e].raised = TRUE]
    /\ UNCHANGED <<scan, thread, user, listed, again, mixed, lost>>

\* Executions are numbered in the order they are sent.
Free == {e \in Execution : exec[e].at = "none" /\ \A f \in 1 .. e - 1 : exec[f].at # "none"}

\* Mutant: the except clause reads the row again before it saves.
FailedAfresh(e) == count

\* The counter an except clause puts back: the one of the instance of the start.
Failed(e) == exec[e].copy

\* All columns of that instance are saved, failed; self.retry sends the task again,
\* and the Retry it raises is swallowed.
Fail(e) ==
    /\ exec[e].at = "drained" /\ exec[e].raised
    /\ status' = "failed"
    /\ count' = Failed(e)
    /\ IF exec[e].retries < MaxRetries
         THEN \E new \in Free : exec' = [exec EXCEPT ![e] = Over,
                                           ![new] = Queued(exec[e].retries + 1)]
         ELSE exec' = [exec EXCEPT ![e] = Over]
    /\ UNCHANGED <<rows, thread, user, listed, again, mixed, lost>>

\* A hard time limit, a revoke or a crash ends the process, thread and all.
Kill(e) ==
    /\ exec[e].at \in AtWork \cup {"queued"}
    /\ exec' = [exec EXCEPT ![e] = Over]
    /\ thread' = [thread EXCEPT ![e] = Ended]
    /\ UNCHANGED <<scan, user, listed, again, mixed, lost>>
-----------------------------------------------------------------------------
(* The writer thread, _progress_thread.                                    *)

Item(e) == Head(thread[e].queue)
Move(e, at) == thread' = [thread EXCEPT ![e].at = at]
Advance(e) == thread' = [thread EXCEPT ![e] = [thread[e] EXCEPT !.at = "idle", !.queue = Tail(@)]]

\* It takes the next item unless it was told to stop; the sentinel ends it.
Take(e) ==
    /\ thread[e].at = "idle"
    /\ \/ thread[e].stop /\ thread' = [thread EXCEPT ![e] = Ended]
       \/ /\ ~thread[e].stop /\ thread[e].queue # <<>>
          /\ IF Item(e) = Sentinel THEN thread' = [thread EXCEPT ![e] = Ended]
                                    ELSE Move(e, "rows")
    /\ UNCHANGED <<scan, exec, user, listed, again, mixed, lost>>

\* get_or_create of each host ...
WriteRows(e) ==
    /\ thread[e].at = "rows"
    /\ rows' = rows \cup Item(e).hosts
    /\ Move(e, "count")
    /\ UNCHANGED <<status, count, exec, user, listed, again, mixed, lost>>

\* ... then the counter: a delta is added to it, the list sets it.
WriteCount(e) ==
    /\ thread[e].at = "count"
    /\ count' = (IF Item(e).kind = "new" THEN count ELSE 0) + Cardinality(Item(e).hosts)
    /\ Advance(e)
    /\ UNCHANGED <<status, rows, exec, user, listed, again, mixed, lost>>

\* A write raises: the rest of the item is dropped and an error logged.
WriteFails(e) ==
    /\ thread[e].at \in {"rows", "count"} /\ ~lost
    /\ \E some \in SUBSET (Item(e).hosts \ IF thread[e].at = "rows" THEN {} ELSE rows) :
          rows' = rows \cup some
    /\ Advance(e)
    /\ lost' = TRUE
    /\ UNCHANGED <<status, count, exec, user, listed, again, mixed>>

-----------------------------------------------------------------------------
(* The user, through ScanViewSet: cancel and retry save all columns of an  *)
(* instance read before.                                                   *)

Read(what, from) ==
    /\ user.at = "none" /\ user.left > 0 /\ status \in from
    /\ user' = [at |-> what, copy |-> count, left |-> user.left - 1]
    /\ UNCHANGED <<scan, exec, thread, listed, again, mixed, lost>>

ReadCancel == Read("cancel", {"running"})
ReadRetry == Read("retry", {"failed", "cancelled"})

\* The revoke before it is a Kill, or comes to nothing.
SaveCancel ==
    /\ user.at = "cancel"
    /\ status' = "cancelled" /\ count' = user.copy
    /\ user' = [user EXCEPT !.at = "none"]
    /\ UNCHANGED <<rows, exec, thread, listed, again, mixed, lost>>

\* The row is pending and the task sent ...
SaveRetry ==
    /\ user.at = "retry"
    /\ status' = "pending" /\ count' = user.copy
    /\ \E new \in Free : exec' = [exec EXCEPT ![new] = Queued(0)]
    /\ user' = [user EXCEPT !.at = "launch"]
    /\ UNCHANGED <<rows, thread, listed, again, mixed, lost>>

\* ... then three columns saved, whatever the task has done by now.
SaveLaunched ==
    /\ user.at = "launch"
    /\ status' = "running"
    /\ user' = [user EXCEPT !.at = "none"]
    /\ UNCHANGED <<count, rows, exec, thread, listed, again, mixed, lost>>

-----------------------------------------------------------------------------
\* The scan was launched; the user makes at most one request for each execution.
Init ==
    /\ status = "pending" /\ count = 0 /\ rows = {}
    /\ exec = [e \in Execution |-> [Queued(0) EXCEPT !.at = IF e = 1 THEN "queued" ELSE "none"]]
    /\ thread = [e \in Execution |-> Ended]
    /\ user = [at |-> "none", copy |-> 0, left |-> Executions]
    /\ listed = {}
    /\ again = FALSE /\ mixed = FALSE /\ lost = FALSE

Task(e) ==
    \/ MarkRunning(e) \/ ReportSubnet(e) \/ EndDiscovery(e)
    \/ Joined(e) \/ DrainTimesOut(e) \/ LeaveBehind(e)
    \/ Complete(e) \/ CompleteRaises(e) \/ Fail(e)

Thread(e) == Take(e) \/ WriteRows(e) \/ WriteCount(e) \/ WriteFails(e)

User == ReadCancel \/ SaveCancel \/ ReadRetry \/ SaveRetry \/ SaveLaunched

Next == (\E e \in Execution : Task(e) \/ Thread(e) \/ Kill(e)) \/ User

Spec == Init /\ [][Next]_vars

-----------------------------------------------------------------------------
(* Properties.                                                             *)

TypeOK ==
    /\ status \in {"pending", "running", "completed", "failed", "cancelled"}
    /\ count \in Nat /\ rows \subseteq Host /\ listed \subseteq Host
    /\ exec \in [Execution -> [at : Stage, retries : 0 .. MaxRetries, copy : Nat,
                               live : SUBSET Host, subnets : 0 .. MaxSubnets,
                               raised : BOOLEAN]]
    /\ \A e \in Execution :
         /\ thread[e].at \in {"idle", "rows", "count", "gone"}
         /\ thread[e].stop \in BOOLEAN
         /\ \A i \in DOMAIN thread[e].queue : thread[e].queue[i].hosts \subseteq Host
    /\ user.at \in {"none", "cancel", "retry", "launch"}
    /\ {again, mixed, lost} \subseteq BOOLEAN

\* A completed scan has a row for every host of the list and counts that list,
\* unless a write failed, a thread was left behind, or executions met; without that, rows beyond
\* the list were there before.  A failed scan shows the counter its execution
\* started with, none the first time, however many rows its hosts have.
HostsExplained ==
    /\ status = "completed" /\ ~lost => listed \subseteq rows
    /\ status = "completed" /\ ~lost /\ ~mixed => count = Cardinality(listed)
    /\ status = "completed" /\ rows \ listed # {} => again \/ mixed \/ lost
    /\ status = "failed" /\ ~lost /\ ~mixed /\ ~again => count = 0
=============================================================================
