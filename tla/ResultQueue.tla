---------------------------- MODULE ResultQueue ----------------------------
(***************************************************************************)
(* How the results of a scan reach the database.  The task run_scan runs   *)
(* the pipeline; its callbacks put items on a queue, and a daemon thread   *)
(* of the same process takes them off and writes them.  When the pipeline  *)
(* is over the task waits 30 seconds for the thread, tells it to stop, and *)
(* goes on.  Meanwhile the portal may cancel or retry the scan, writing    *)
(* back every column of the row it read, the counters among them.          *)
(*                                                                         *)
(* What the pipeline promises is module ResultFeed.  A retry executes the  *)
(* scan again on the same rows, while the writer thread of an earlier      *)
(* execution may still be at work, and its main thread too, when the scan  *)
(* was cancelled and the revoke came late or never.  What one main thread  *)
(* holds are the variables of execution run; those of the others rest in   *)
(* others until their turn comes, at any step.  Every ORM call is a        *)
(* statement of its own.  Items that touch neither counters nor result     *)
(* rows (progress, host_phase, artifact), technologies and screenshots are *)
(* left out; severities are not told apart.                                *)
(***************************************************************************)
EXTENDS Integers, Sequences, FiniteSets, FiniteSetsExt

CONSTANTS
    Host,         \* addresses
    Ports,        \* open ports of a host, from one up: only such are delivered
    Findings,     \* findings of a host
    MaxRuns,      \* bound: executions of the scan
    MaxReports,   \* bound: on_subnet_complete calls of an execution
    MaxRequests   \* bound: requests the portal serves

ASSUME CountAssumption ==
    /\ Ports \in [Host -> Nat \ {0}]
    /\ Findings \in [Host -> Nat]
ASSUME BoundAssumption ==
    MaxRuns \in Nat \ {0} /\ MaxReports \in Nat /\ MaxRequests \in Nat

Run == 1..MaxRuns

\* Status and counters of the row in scanner_scan.
Row == [status : {"pending", "running", "completed", "failed", "cancelled"},
        hosts : Nat, ports : Nat, findings : Nat]

\* What the callbacks put on the queue.
Item == [kind : {"subnet_hosts", "discovery"}, hosts : SUBSET Host]
        \cup [kind : {"host_result"}, hosts : {{h} : h \in Host}]
        \cup [kind : {"sentinel"}, hosts : {{}}]
Sentinel == [kind |-> "sentinel", hosts |-> {}]

Step == {"polling", "getting", "hosts", "ports", "findings", "hung", "ended"}

Cause == {"item dropped", "drain timed out", "stale save", "executions met"}

VARIABLES
    row,         \* the row of the scan
    hostRows,    \* hosts with a row in scanner_host
    portRows,    \* rows of scanner_port, per host
    findingRows, \* rows of scanner_finding, per host
    feed, reported, targets, delivered,    \* of ResultFeed, execution run
    reports,     \* on_subnet_complete calls of execution run
    run,         \* the execution whose main thread has its turn
    main,        \* where its main thread stands
    raised,      \* its pipeline, or what follows it, has raised
    copy,        \* its instance of the row
    others,      \* what the main threads of other executions at work hold
    sent,        \* executions so far
    queue, stop, \* _progress_queue and _progress_stop of each execution
    writer,      \* the thread of each execution: step, item, rows to create
    portal,      \* the request of the portal in progress
    served,      \* requests of the portal so far
    causes       \* history: why counters and rows may disagree

tables == <<hostRows, portRows, findingRows>>
feedVars == <<feed, reported, targets, delivered>>
task == <<run, main, raised, copy>>
turns == <<others, sent>>
threads == <<queue, stop, writer>>
requests == <<portal, served>>
vars == <<row, tables, feedVars, reports, task, turns, threads, requests, causes>>

Feed == INSTANCE ResultFeed

\* A thread between two items; the item it has done is forgotten.
Idle == [step |-> "polling", item |-> Sentinel, left |-> 0]

\* A row as it is created; also what copy holds when the task holds none.
Fresh == [status |-> "pending", hosts |-> 0, ports |-> 0, findings |-> 0]

Counters(c) == <<c.hosts, c.ports, c.findings>>

\* A cause is put on record; executions that have met are cause enough.
Record(why) == causes' = IF "executions met" \in causes THEN causes ELSE causes \cup why

\* save() of the instance c, all columns.
Save(c) == row' = c /\ Record(IF Counters(c) = Counters(row) THEN {} ELSE {"stale save"})

-----------------------------------------------------------------------------
(* The main thread of execution run.                                       *)

\* Scan.objects.get
Fetch ==
    /\ main = "queued"
    /\ main' = "fetched"
    /\ copy' = row
    /\ UNCHANGED <<row, tables, feedVars, reports, turns, run, raised, threads, requests, causes>>

\* status = "running", save(), and the thread starts.
MarkRunning ==
    /\ main = "fetched"
    /\ main' = "feeding"
    /\ copy' = [copy EXCEPT !.status = "running"]
    /\ Save(copy')
    /\ UNCHANGED <<tables, feedVars, reports, turns, run, raised, threads, requests>>

\* put_nowait on the queue of the execution.
Put(item) == queue' = [queue EXCEPT ![run] = Append(@, item)]

OnSubnetComplete(batch) ==
    /\ main = "feeding"
    /\ reports < MaxReports
    /\ Feed!Report(batch)
    /\ reports' = reports + 1
    /\ Put([kind |-> "subnet_hosts", hosts |-> batch])
    /\ UNCHANGED <<row, tables, turns, task, stop, writer, requests, causes>>

OnDiscoveryComplete(hosts) ==
    /\ main = "feeding"
    /\ Feed!Announce(hosts)
    /\ Put([kind |-> "discovery", hosts |-> hosts])
    /\ UNCHANGED <<row, tables, reports, turns, task, stop, writer, requests, causes>>

OnHostComplete(h) ==
    /\ main = "feeding"
    /\ Feed!Deliver(h)
    /\ Put([kind |-> "host_result", hosts |-> {h}])
    /\ UNCHANGED <<row, tables, reports, turns, task, stop, writer, requests, causes>>

\* run_pipeline returns or raises; finally: put(None) and join.
EndFeed ==
    /\ main = "feeding"
    /\ Feed!End
    /\ raised' \in (IF feed = "discovering" THEN {TRUE} ELSE BOOLEAN)
    /\ main' = "draining"
    /\ Put(Sentinel)
    /\ UNCHANGED <<row, tables, reports, turns, run, copy, stop, writer, requests, causes>>

\* Mutants: the thread is not joined; it is joined without a timeout.
NotJoined ==
    /\ main = "draining"
    /\ main' = "reporting"
    /\ UNCHANGED <<row, tables, feedVars, reports, turns, run, raised, copy, threads, requests, causes>>
NeverTimesOut == FALSE /\ UNCHANGED vars

\* join(timeout=30) returns because the thread has ended.
Joined ==
    /\ main = "draining"
    /\ writer[run].step = "ended"
    /\ main' = "reporting"
    /\ UNCHANGED <<row, tables, feedVars, reports, turns, run, raised, copy, threads, requests, causes>>

\* The thread is alive after 30 seconds: _progress_stop.set(), and five seconds
\* later the task goes on whatever the thread does.
DrainTimesOut ==
    /\ main = "draining"
    /\ writer[run].step # "ended"
    /\ main' = "reporting"
    /\ stop' = [stop EXCEPT ![run] = TRUE]
    /\ Record({"drain timed out"})
    /\ UNCHANGED <<row, tables, feedVars, reports, turns, run, raised, copy, queue, writer, requests>>

\* Assets, exploit matches and reports are written: refresh_from_db.
Refresh ==
    /\ main = "reporting"
    /\ ~raised
    /\ main' = "refreshed"
    /\ copy' = row
    /\ UNCHANGED <<row, tables, feedVars, reports, turns, run, raised, threads, requests, causes>>

\* status = "completed", save().
Complete ==
    /\ main = "refreshed"
    /\ main' = "ended"
    /\ Save([copy EXCEPT !.status = "completed"])
    /\ copy' = Fresh
    /\ UNCHANGED <<tables, feedVars, reports, turns, run, raised, threads, requests>>

\* except: status = "failed", save(), with the instance as it is.
Fail ==
    /\ main = "refreshed" \/ main = "reporting"
    /\ main' = "ended"
    /\ Save([copy EXCEPT !.status = "failed"])
    /\ raised' = TRUE /\ copy' = Fresh
    /\ UNCHANGED <<tables, feedVars, reports, turns, run, threads, requests>>

\* The worker process dies, of a revoke with terminate or of a crash, and its
\* threads and queue with it.
Kill ==
    /\ main # "queued"
    /\ main # "ended" \/ writer[run].step # "ended"
    /\ main' = "ended"
    /\ writer' = [writer EXCEPT ![run] = [Idle EXCEPT !.step = "ended"]]
    /\ queue' = [queue EXCEPT ![run] = <<>>]
    /\ copy' = Fresh
    /\ Record({"item dropped"})
    /\ UNCHANGED <<row, tables, feedVars, reports, turns, run, raised, stop, requests>>

-----------------------------------------------------------------------------
(* Executions at work at once.                                             *)

\* What the main thread of execution run holds, and that of one just sent.
Held == [main |-> main, raised |-> raised, copy |-> copy, feed |-> feed, reported |-> reported,
         targets |-> targets, delivered |-> delivered, reports |-> reports]
Sent == [main |-> "queued", raised |-> FALSE, copy |-> Fresh, feed |-> "discovering",
         reported |-> {}, targets |-> {}, delivered |-> {}, reports |-> 0]

\* Execution run' holds c.
TakeUp(c) ==
    /\ main' = c.main /\ raised' = c.raised /\ copy' = c.copy
    /\ feed' = c.feed /\ reported' = c.reported /\ targets' = c.targets
    /\ delivered' = c.delivered /\ reports' = c.reports

\* The main thread of execution r goes on next; one that has ended never does.
Turn(r) ==
    /\ r \in DOMAIN others
    /\ run' = r /\ TakeUp(others[r])
    /\ others' = [q \in (DOMAIN others \ {r}) \cup (IF main = "ended" THEN {} ELSE {run}) |->
                     IF q = run THEN Held ELSE others[q]]
    /\ UNCHANGED <<row, tables, sent, threads, requests, causes>>

-----------------------------------------------------------------------------
(* The writer thread of execution r.                                       *)

To(r, step) == writer' = [writer EXCEPT ![r].step = step]
TheHost(r) == CHOOSE h \in writer[r].item.hosts : TRUE
OnlyThread == <<feedVars, reports, turns, task, stop, requests, causes>>

\* while not _progress_stop.is_set()
CheckStop(r) ==
    /\ writer[r].step = "polling"
    /\ To(r, IF stop[r] THEN "ended" ELSE "getting")
    /\ UNCHANGED <<row, tables, queue, OnlyThread>>

\* get(timeout=0.5) returns an item; the sentinel ends the thread.
Get(r) ==
    /\ writer[r].step = "getting"
    /\ queue[r] # <<>>
    /\ queue' = [queue EXCEPT ![r] = Tail(@)]
    /\ LET item == Head(queue[r])
       IN  writer' = [writer EXCEPT ![r] =
               [step |-> IF item.kind = "sentinel" THEN "ended" ELSE "hosts",
                item |-> item,
                left |-> IF item.kind = "host_result"
                         THEN Findings[CHOOSE h \in item.hosts : TRUE] ELSE 0]]
    /\ UNCHANGED <<row, tables, OnlyThread>>

\* Half a second without an item: _Empty.
GetNothing(r) ==
    /\ writer[r].step = "getting"
    /\ queue[r] = <<>>
    /\ To(r, "polling")
    /\ UNCHANGED <<row, tables, queue, OnlyThread>>

\* get_or_create and update_or_create of the hosts of the item.
WriteHosts(r) ==
    /\ writer[r].step = "hosts"
    /\ hostRows' = hostRows \cup writer[r].item.hosts
    /\ To(r, IF writer[r].item.kind = "host_result" THEN "ports" ELSE "findings")
    /\ UNCHANGED <<row, portRows, findingRows, queue, OnlyThread>>

\* Mutant: Port.objects.filter(host__scan_id=scan_id).delete().
ReplaceAllPorts(r) ==
    /\ writer[r].step = "ports"
    /\ portRows' = [h \in Host |-> IF h = TheHost(r) THEN Ports[h] ELSE 0]
    /\ To(r, "findings")
    /\ UNCHANGED <<row, hostRows, findingRows, queue, OnlyThread>>

\* The ports of an earlier execution are deleted and the new ones created.
ReplacePorts(r) ==
    /\ writer[r].step = "ports"
    /\ portRows' = [portRows EXCEPT ![TheHost(r)] = Ports[TheHost(r)]]
    /\ To(r, "findings")
    /\ UNCHANGED <<row, hostRows, findingRows, queue, OnlyThread>>

\* Mutant: one round too many.
WriteFindingUnguarded(r) ==
    /\ writer[r].step = "findings" /\ writer[r].item.kind = "host_result"
    /\ findingRows' = [findingRows EXCEPT ![TheHost(r)] = @ + 1]
    /\ writer' = [writer EXCEPT ![r].left = @ - 1]
    /\ UNCHANGED <<row, hostRows, portRows, queue, OnlyThread>>

\* A finding is created; findings of an earlier execution stay.
WriteFinding(r) ==
    /\ writer[r].step = "findings"
    /\ writer[r].left > 0
    /\ findingRows' = [findingRows EXCEPT ![TheHost(r)] = @ + 1]
    /\ writer' = [writer EXCEPT ![r].left = @ - 1]
    /\ UNCHANGED <<row, hostRows, portRows, queue, OnlyThread>>

\* Mutants: "discovery" adds to hosts_count as "subnet_hosts" does; the scan's
\* findings grow by the findings_count of the host, all executions included.
CountedAdding(item) ==
    IF item.kind = "host_result"
    THEN LET h == CHOOSE x \in item.hosts : TRUE
         IN  [row EXCEPT !.ports = @ + Ports[h], !.findings = @ + Findings[h]]
    ELSE [row EXCEPT !.hosts = @ + Cardinality(item.hosts)]
CountedByHost(item) ==
    IF item.kind = "host_result"
    THEN LET h == CHOOSE x \in item.hosts : TRUE
         IN  [row EXCEPT !.ports = @ + Ports[h], !.findings = @ + findingRows[h]]
    ELSE [row EXCEPT !.hosts = Cardinality(item.hosts)]

\* The counters of the row after the item: F() adds to what the row holds.
Counted(item) ==
    CASE item.kind = "subnet_hosts" -> [row EXCEPT !.hosts = @ + Cardinality(item.hosts)]
      [] item.kind = "discovery" -> [row EXCEPT !.hosts = Cardinality(item.hosts)]
      [] item.kind = "host_result" ->
           LET h == CHOOSE x \in item.hosts : TRUE
           IN  [row EXCEPT !.ports = @ + Ports[h], !.findings = @ + Findings[h]]

\* The last statement of an item.
Count(r) ==
    /\ writer[r].step = "findings"
    /\ writer[r].left = 0
    /\ row' = Counted(writer[r].item)
    /\ writer' = [writer EXCEPT ![r] = Idle]
    /\ UNCHANGED <<tables, queue, OnlyThread>>

Writing(r) == writer[r].step \in {"hosts", "ports", "findings"}

\* A statement fails: the rest of the item is dropped; the old ports may be gone.
WriteFails(r) ==
    /\ Writing(r)
    /\ \/ UNCHANGED portRows
       \/ writer[r].step = "ports" /\ portRows' = [portRows EXCEPT ![TheHost(r)] = 0]
    /\ writer' = [writer EXCEPT ![r] = Idle]
    /\ Record({"item dropped"})
    /\ UNCHANGED <<row, hostRows, findingRows, queue, feedVars, reports, turns, task, stop, requests>>

\* The database does not answer, and no timeout is set on the connection.
WriterHangs(r) ==
    /\ Writing(r)
    /\ writer' = [writer EXCEPT ![r] = [Idle EXCEPT !.step = "hung"]]
    /\ UNCHANGED <<row, tables, queue, OnlyThread>>

-----------------------------------------------------------------------------
(* The portal.                                                             *)

\* cancel of a running scan, retry of a failed or cancelled one: get_object.
ReadScan ==
    /\ portal = <<>>
    /\ served < MaxRequests
    /\ served' = served + 1
    /\ \/ row.status = "running" /\ portal' = <<[op |-> "cancel", copy |-> row]>>
       \/ row.status \in {"failed", "cancelled"} /\ portal' = <<[op |-> "retry", copy |-> row]>>
    /\ UNCHANGED <<row, tables, feedVars, reports, turns, task, threads, causes>>

\* cancel: revoke (see Kill), status = "cancelled", save().
SaveCancelled ==
    /\ portal # <<>> /\ portal[1].op = "cancel"
    /\ Save([portal[1].copy EXCEPT !.status = "cancelled"])
    /\ portal' = <<>>
    /\ UNCHANGED <<tables, feedVars, reports, turns, task, threads, served>>

\* retry: status = "pending", save(), and the task is sent again, whether or
\* not an earlier execution is at work.
SavePending ==
    /\ portal # <<>> /\ portal[1].op = "retry"
    /\ sent < MaxRuns
    /\ sent' = sent + 1
    /\ portal' = <<[portal[1] EXCEPT !.op = "mark"]>>
    /\ LET mine == [portal[1].copy EXCEPT !.status = "pending"]
       IN  IF main = "ended"
           THEN /\ Save(mine)
                /\ run' = sent' /\ TakeUp(Sent)
                /\ UNCHANGED others
           ELSE /\ row' = mine
                /\ causes' = {"executions met"}
                /\ others' = [r \in DOMAIN others \cup {sent'} |->
                                 IF r = sent' THEN Sent ELSE others[r]]
                /\ UNCHANGED <<feedVars, reports, task>>
    /\ UNCHANGED <<tables, threads, served>>

\* retry: save(update_fields=["celery_task_id", "status", "started_at"]).
MarkLaunched ==
    /\ portal # <<>> /\ portal[1].op = "mark"
    /\ row' = [row EXCEPT !.status = "running"]
    /\ portal' = <<>>
    /\ UNCHANGED <<tables, feedVars, reports, turns, task, threads, served, causes>>

-----------------------------------------------------------------------------
Init ==
    /\ row = Fresh
    /\ hostRows = {}
    /\ portRows = [h \in Host |-> 0] /\ findingRows = [h \in Host |-> 0]
    /\ Feed!FeedInit /\ reports = 0
    /\ run = 1 /\ main = "queued" /\ raised = FALSE /\ copy = row
    /\ others = [r \in {} |-> Sent] /\ sent = 1
    /\ queue = [r \in Run |-> <<>>] /\ stop = [r \in Run |-> FALSE]
    /\ writer = [r \in Run |-> Idle]
    /\ portal = <<>> /\ served = 0
    /\ causes = {}

FeedStep ==
    \/ \E hosts \in SUBSET Host : OnSubnetComplete(hosts) \/ OnDiscoveryComplete(hosts)
    \/ \E h \in Host : OnHostComplete(h)

\* What the main thread does sooner or later: the pipeline ends (Pipeline), its
\* join has a timeout, and what follows returns or raises.
MainStep == Fetch \/ MarkRunning \/ EndFeed \/ Joined \/ DrainTimesOut
            \/ Refresh \/ Complete \/ Fail

\* The thread of an execution exists once its main thread feeds it.
Started(r) ==
    /\ r <= sent
    /\ r = run => main \notin {"queued", "fetched"}
    /\ r \in DOMAIN others => others[r].main \notin {"queued", "fetched"}

WriterStep(r) ==
    /\ Started(r)
    /\ \/ CheckStop(r) \/ Get(r) \/ GetNothing(r)
       \/ WriteHosts(r) \/ ReplacePorts(r) \/ WriteFinding(r) \/ Count(r)

PortalStep == ReadScan \/ SaveCancelled \/ SavePending \/ MarkLaunched

Next ==
    \/ FeedStep \/ MainStep \/ Kill \/ PortalStep
    \/ \E r \in Run : Turn(r) \/ WriterStep(r) \/ WriteFails(r) \/ WriterHangs(r)

Spec == Init /\ [][Next]_vars

-----------------------------------------------------------------------------
(* Properties.                                                             *)

\* Every variable keeps its type.
TypeOK ==
    /\ row \in Row /\ copy \in Row
    /\ hostRows \subseteq Host
    /\ portRows \in [Host -> Nat] /\ findingRows \in [Host -> Nat]
    /\ Feed!FeedTypeOK /\ reports \in 0..MaxReports
    /\ run \in Run /\ raised \in BOOLEAN
    /\ main \in {"queued", "fetched", "feeding", "draining", "reporting", "refreshed", "ended"}
    /\ sent \in Run /\ DOMAIN others \subseteq 1..sent \ {run}
    /\ \A r \in DOMAIN others : others[r].main # "ended" /\ others[r].copy \in Row
    /\ queue \in [Run -> Seq(Item)] /\ stop \in [Run -> BOOLEAN]
    /\ writer \in [Run -> [step : Step, item : Item, left : Nat]]
    /\ served \in 0..MaxRequests
    /\ portal = <<>> \/ (portal[1].op \in {"cancel", "retry", "mark"} /\ portal[1].copy \in Row)
    /\ causes \subseteq Cause

Total(rows) == MapThenSumSet(LAMBDA h : rows[h], Host)

\* A completed scan shows the findings that are in the database, and after its
\* first execution the hosts and ports too, unless part of an item was dropped
\* (a statement failed, the process was killed), the thread was not done in
\* time, a counter was overwritten with an older value, or two executions were
\* at work at once.
CountsExplained ==
    row.status = "completed" /\ causes = {} =>
        /\ row.findings = Total(findingRows)
        /\ run = 1 => row.ports = Total(portRows) /\ row.hosts = Cardinality(hostRows)

\* The findings counter never promises a finding that is not there, whatever
\* was overwritten, repeated, dropped or killed.
FindingsNeverOvercounted == row.findings <= Total(findingRows)

\* When the scan is completed, everything the pipeline handed over is in the
\* database, unless part of an item was dropped, the thread was not done in time,
\* or two executions were at work at once.
ResultsPersisted ==
    row.status = "completed" /\ causes \subseteq {"stale save"} =>
       /\ targets \subseteq hostRows
       /\ \A h \in delivered : portRows[h] = Ports[h] /\ findingRows[h] >= Findings[h]

\* What a completed scan shows is stored and counted.
ResultsShown == ResultsPersisted /\ CountsExplained

\* The counters of a completed scan do not change any more, unless a thread was
\* given up or another execution is at work beside the one that completed it.
CompletedIsFinal ==
    [][row.status = "completed" /\ row'.status = "completed"
          /\ {"drain timed out", "executions met"} \cap causes' = {}
       => Counters(row') = Counters(row)]_vars

\* An execution ends, even if its thread hangs in the database.
RunEnds == main # "ended" ~> main = "ended"
=============================================================================
