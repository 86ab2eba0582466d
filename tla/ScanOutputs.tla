----------------------------- MODULE ScanOutputs -----------------------------
(***************************************************************************)
(* What a scan leaves once its pipeline has ended: rows of the asset       *)
(* inventory, which all scans share, report files, which all scans of one  *)
(* target share, and report rows (the end of run_scan, and                 *)
(* generate_report, in tasks/__init__.py).                                 *)
(*                                                                         *)
(* A scan may be run again after it failed or was cancelled, and its       *)
(* reports be generated again once it is completed.  A job is an execution *)
(* of either task.  Of its report is kept which ports are open, how many   *)
(* findings each has, and whether the host has a name, which stands for    *)
(* all texts of an asset.  Exploit matches are in ExploitMatching; deletes *)
(* and handlers that save old instances of a scan, in ScanLifecycle.       *)
(* Bound: one failure in a behaviour.                                      *)
(***************************************************************************)
EXTENDS Naturals, FiniteSets

CONSTANTS
    Scan,
    Target,      \* Scan.target of each
    Asset,       \* (ip, port, protocol) that may be open
    Format,      \* report formats: each has one file name
    Jobs,        \* bound: executions of the two tasks
    NoScan

VARIABLES
    status,      \* Scan.status
    depth,       \* how often Scan.output_dir has had the target appended
    asset,       \* the Asset rows
    file,        \* whose data each report file holds
    row,         \* the Report rows
    job,         \* the executions
    crossed,     \* history: two jobs were in _sync_assets at once
    known,       \* history: the assets that have had a name
    clashed,     \* history: the scans two jobs were at work for at once
    broken       \* history: the scans a job of which was cut short or lost a format

vars == <<status, depth, asset, file, row, job, crossed, known, clashed, broken>>

Job == 1 .. Jobs
NoAsset == [scan |-> NoScan, count |-> 0, seen |-> 0, name |-> FALSE]
Dir == {Target[s] : s \in Scan} \X (1 .. Jobs + 1)
AtWork == {"pipeline", "syncing", "saving", "rendering", "listing", "failing", "deleting"}
Busy(s) == {j \in Job : job[j].scan = s /\ job[j].at \in AtWork}
Syncing == {j \in Job : job[j].at \in {"syncing", "saving"}}
RowsOf(s) == {r \in row : r.scan = s}

Started(s, task, at, dir) ==
    [scan |-> s, task |-> task, at |-> at, dir |-> dir, now |-> 0,
     name |-> FALSE, open |-> {}, todo |-> {}, read |-> {}, formats |-> Format, made |-> {}]
Over(j) == job' = [job EXCEPT ![j] = [@ EXCEPT !.at = "over", !.read = {}, !.formats = {},
                                               !.made = {}]]
Idle == Started(NoScan, "none", "none", <<>>)

\* Jobs are numbered in the order they start.
Free == {j \in Job : job[j].at = "none" /\ \A i \in 1 .. j - 1 : job[i].at # "none"}
Start(j, new) ==
    /\ j \in Free
    /\ job' = [job EXCEPT ![j] = new]
    /\ clashed' = IF Busy(new.scan) = {} THEN clashed ELSE clashed \cup {new.scan}
To(j, at) == job' = [job EXCEPT ![j].at = at]

-----------------------------------------------------------------------------
(* run_scan up to the end of its pipeline.                                 *)

\* <base>/<target>; the base is what the execution before has left, so a scan that
\* is run again goes one level down.
Run(s, j) ==
    /\ status[s] \in {"pending", "failed", "cancelled"}
    /\ Start(j, Started(s, "run", "pipeline", <<Target[s], depth[s] + 1>>))
    /\ depth' = [depth EXCEPT ![s] = @ + 1]
    /\ status' = [status EXCEPT ![s] = "running"]
    /\ UNCHANGED <<asset, file, row, crossed, known, broken>>

\* A cancel, whose revoke is a Crash or comes to nothing.
Cancel(s) ==
    /\ status[s] = "running"
    /\ status' = [status EXCEPT ![s] = "cancelled"]
    /\ UNCHANGED <<depth, asset, file, row, job, crossed, known, clashed, broken>>

\* run_pipeline returns the report.  _sync_assets notes the time.
Report(j) ==
    /\ job[j].at = "pipeline"
    /\ \E open \in SUBSET Asset, name \in BOOLEAN :
          /\ name => open # {}
          /\ job' = [job EXCEPT ![j] =
                      [@ EXCEPT !.at = "syncing", !.open = open, !.todo = open, !.name = name,
                                !.now = 1 + Cardinality({i \in Job : job[i].now > 0})]]
    /\ crossed' = (crossed \/ Syncing # {})
    /\ UNCHANGED <<status, depth, asset, file, row, known, clashed, broken>>

-----------------------------------------------------------------------------
(* _sync_assets, one open port after the other.                            *)

\* What a job says of an asset; a name it has not seen is the one it has read.  To
\* tell them apart, each execution finds a number of its own.
Seen(j, read) ==
    [scan |-> job[j].scan, count |-> j, seen |-> job[j].now,
     name |-> job[j].name \/ read]

\* Mutant: last_scan is not set again.
SeenKeepingScan(j, a, read) == [Seen(j, read) EXCEPT !.scan = asset[a].scan]

\* asset.save() of all columns of the instance.
Saved(j, a, read) == Seen(j, read)

\* get_or_create creates the row with the values of this scan, or reads it ...
GetOrCreate(j, a) ==
    /\ job[j].at = "syncing" /\ a \in job[j].todo
    /\ IF asset[a] = NoAsset
         THEN /\ asset' = [asset EXCEPT ![a] = Seen(j, FALSE)]
              /\ job' = [job EXCEPT ![j].todo = @ \ {a}]
              /\ known' = IF job[j].name THEN known \cup {a} ELSE known
         ELSE /\ job' = [job EXCEPT ![j] = [@ EXCEPT !.at = "saving",
                                              !.read = {[asset |-> a, name |-> asset[a].name]}]]
              /\ UNCHANGED <<asset, known>>
    /\ UNCHANGED <<status, depth, file, row, crossed, clashed, broken>>

\* ... and it is saved with them.
SaveAsset(j) ==
    /\ job[j].at = "saving"
    /\ \E r \in job[j].read :
          /\ asset' = [asset EXCEPT ![r.asset] = Saved(j, r.asset, r.name)]
          /\ known' = IF asset'[r.asset].name THEN known \cup {r.asset} ELSE known
          /\ job' = [job EXCEPT ![j] = [job[j] EXCEPT !.at = "syncing",
                                          !.todo = @ \ {r.asset}, !.read = {}]]
    /\ UNCHANGED <<status, depth, file, row, crossed, clashed, broken>>

EndSync(j) ==
    /\ job[j].at = "syncing" /\ job[j].todo = {}
    /\ To(j, "rendering")
    /\ UNCHANGED <<status, depth, asset, file, row, crossed, known, clashed, broken>>

-----------------------------------------------------------------------------
(* generate_report up to its engine.                                       *)

\* regenerate_reports, or the bot, sends the task for a completed scan.  It reads
\* the scan's rows into a report for the directory of the last execution.
Regenerate(s, j) ==
    /\ status[s] = "completed"
    /\ Start(j, Started(s, "report", "deleting", <<Target[s], depth[s]>>))
    /\ UNCHANGED <<status, depth, asset, file, row, crossed, known, broken>>

\* Mutant: the rows of the generation before are kept.
KeepOldReports(j) ==
    /\ job[j].at = "deleting"
    /\ To(j, "rendering")
    /\ UNCHANGED <<status, depth, asset, file, row, crossed, known, clashed, broken>>

\* The rows of the generation before are deleted first.
DeleteOldReports(j) ==
    /\ job[j].at = "deleting"
    /\ row' = row \ RowsOf(job[j].scan)
    /\ To(j, "rendering")
    /\ UNCHANGED <<status, depth, asset, file, crossed, known, clashed, broken>>

-----------------------------------------------------------------------------
(* ReportEngine.generate, and the rows both tasks create for its files.    *)

\* A renderer writes its file over what is there, or raises, which is logged.
Render(j, f) ==
    /\ job[j].at = "rendering" /\ f \in job[j].formats
    /\ \/ /\ file' = [file EXCEPT ![<<job[j].dir, f>>] = job[j].scan]
          /\ job' = [job EXCEPT ![j] = [job[j] EXCEPT !.formats = @ \ {f}, !.made = @ \cup {f}]]
          /\ UNCHANGED broken
       \/ /\ broken = {}
          /\ job' = [job EXCEPT ![j].formats = @ \ {f}]
          /\ broken' = broken \cup {job[j].scan}
          /\ UNCHANGED file
    /\ UNCHANGED <<status, depth, asset, row, crossed, known, clashed>>

EndRender(j) ==
    /\ job[j].at = "rendering" /\ job[j].formats = {}
    /\ To(j, "listing")
    /\ UNCHANGED <<status, depth, asset, file, row, crossed, known, clashed, broken>>

CreateReport(j, f) ==
    /\ job[j].at = "listing" /\ f \in job[j].made
    /\ row' = row \cup {[scan |-> job[j].scan, format |-> f, dir |-> job[j].dir, by |-> j]}
    /\ job' = [job EXCEPT ![j].made = @ \ {f}]
    /\ UNCHANGED <<status, depth, asset, file, crossed, known, clashed, broken>>

\* run_scan completes the scan; generate_report only announces it.
Finish(j) ==
    /\ job[j].at = "listing" /\ job[j].made = {}
    /\ Over(j)
    /\ status' = IF job[j].task = "run" THEN [status EXCEPT ![job[j].scan] = "completed"] ELSE status
    /\ UNCHANGED <<depth, asset, file, row, crossed, known, clashed, broken>>

-----------------------------------------------------------------------------
(* Failures.                                                               *)

\* Anything raises: run_scan has an except clause, generate_report has none.
Raise(j) ==
    /\ job[j].at \in AtWork \ {"failing"} /\ broken = {}
    /\ IF job[j].task = "run" THEN To(j, "failing") ELSE Over(j)
    /\ broken' = broken \cup {job[j].scan}
    /\ UNCHANGED <<status, depth, asset, file, row, crossed, known, clashed>>

Fail(j) ==
    /\ job[j].at = "failing"
    /\ status' = [status EXCEPT ![job[j].scan] = "failed"]
    /\ Over(j)
    /\ UNCHANGED <<depth, asset, file, row, crossed, known, clashed, broken>>

\* The worker is killed.
Crash(j) ==
    /\ job[j].at \in AtWork /\ broken = {}
    /\ Over(j)
    /\ broken' = broken \cup {job[j].scan}
    /\ UNCHANGED <<status, depth, asset, file, row, crossed, known, clashed>>

-----------------------------------------------------------------------------
\* Nothing has happened, or one scan without open ports has been completed.
Init ==
    /\ \E before \in SUBSET Scan :
         /\ Cardinality(before) <= 1
         /\ status = [s \in Scan |-> IF s \in before THEN "completed" ELSE "pending"]
         /\ depth = [s \in Scan |-> IF s \in before THEN 1 ELSE 0]
         /\ row = [scan : before, format : Format, dir : {<<Target[s], 1>> : s \in before}, by : {0}]
         /\ file = [p \in Dir \X Format |->
                      IF \E r \in row : p = <<r.dir, r.format>>
                        THEN CHOOSE s \in before : TRUE ELSE NoScan]
    /\ asset = [a \in Asset |-> NoAsset]
    /\ job = [j \in Job |-> Idle]
    /\ crossed = FALSE /\ known = {} /\ clashed = {} /\ broken = {}

Work(j) ==
    \/ Report(j) \/ SaveAsset(j) \/ EndSync(j) \/ (\E a \in Asset : GetOrCreate(j, a))
    \/ DeleteOldReports(j) \/ EndRender(j) \/ Finish(j)
    \/ \E f \in Format : Render(j, f) \/ CreateReport(j, f)

Next ==
    \/ \E s \in Scan : Cancel(s) \/ \E j \in Job : Run(s, j) \/ Regenerate(s, j)
    \/ \E j \in Job : Work(j) \/ Raise(j) \/ Fail(j) \/ Crash(j)

Spec == Init /\ [][Next]_vars

-----------------------------------------------------------------------------
(* Properties.                                                             *)

TypeOK ==
    /\ status \in [Scan -> {"pending", "running", "completed", "failed", "cancelled"}]
    /\ depth \in [Scan -> 0 .. Jobs + 1]
    /\ asset \in [Asset -> [scan : Scan \cup {NoScan}, count : Nat, seen : 0 .. Jobs, name : BOOLEAN]]
    /\ file \in [Dir \X Format -> Scan \cup {NoScan}]
    /\ row \subseteq [scan : Scan, format : Format, dir : Dir, by : 0 .. Jobs]
    /\ \A j \in Job :
         /\ job[j].at \in AtWork \cup {"none", "over"}
         /\ job[j].todo \subseteq job[j].open /\ job[j].open \subseteq Asset
         /\ job[j].made \subseteq Format
    /\ known \subseteq Asset /\ clashed \cup broken \subseteq Scan /\ crossed \in BOOLEAN

\* An asset shows what one execution found there and names the scan of that
\* execution: the latest, with a name once one was known, unless two scans were
\* in _sync_assets at once.
AssetsExplained ==
    \A a \in Asset : asset[a] # NoAsset =>
      LET found == {j \in Job : a \in job[j].open \ job[j].todo} IN
      /\ \E j \in found : asset[a] = Seen(j, asset[a].name)
      /\ ~crossed => /\ a \in known => asset[a].name
                     /\ \A j \in found : job[j].now <= asset[a].seen

\* A report row names a file that holds the data of its scan, or of another scan
\* of the same target, which has overwritten it.  A completed scan that nothing
\* works for has one row for each format, unless a job of it was cut short, a
\* renderer failed, or two of its jobs met.
ReportsExplained ==
    /\ \A r \in row :
         LET owner == file[<<r.dir, r.format>>] IN
         owner # r.scan => \E j \in Job :
           job[j].scan = owner /\ Target[owner] = Target[r.scan]
    /\ \A s \in Scan \ (clashed \cup broken) :
         /\ \A q, r \in RowsOf(s) : q.format = r.format => q = r
         /\ status[s] = "completed" /\ Busy(s) = {} => {r.format : r \in RowsOf(s)} = Format
=============================================================================
