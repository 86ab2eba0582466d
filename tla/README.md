# Wire_Ghost: a verification development

Wire_Ghost scans networks. A Django portal stores scans in MySQL and sends each one
to a Celery worker; the worker runs an asyncio pipeline over nmap and some twenty
other tools; a thread of the worker writes what the pipeline finds back to the
portal's tables while it runs. Users follow it in the portal, through a Telegram bot
and through notices. This directory models the parts where these processes meet:
the life of a scan record, the pipeline's concurrency, the writing of results, the
sessions a user confirms step by step, scans run phase by phase, the jobs of the
scheduler, accounts and sign-in, and the bot's conversations. Paths below are
relative to the repository's root; `T` is `web_portal/scanner/tasks/__init__.py`, `V`
is `web_portal/scanner/views/__init__.py`, `O` and `P` are `orchestrator.py` and
`discovery.py` in `src/wireghost/pipeline/`; other files of `web_portal/scanner/` are
named without their directory.

## 1. Inventory

| Part | State | Operations | Hard behaviour | What makes it correct |
|---|---|---|---|---|
| Scan record (`models/__init__.py` 146-225) and the handlers of `V`, the bot and beat | `status`, `celery_task_id`, `deadline`, counters | create, cancel, retry, delete, run now; the task's own saves | every handler works on an instance it read earlier and `save()` writes all its columns; no transactions; revokes are broadcasts; workers die | a status has a cause, a cancel stays, a deleted row stays deleted, a task id is the scan's own |
| Celery tasks `run_scan`, `run_discovery_scan` | the instance, the queue, the thread | fetch, mark running, pipeline, refresh, complete, fail, retry by Celery | late writes against the portal's | every task ends, verdicts are earned |
| Pipeline `run_pipeline`, `discover_hosts` | `live_ips`, permits, `_host_phases`, the progress bar | one coroutine per subnet, then one per host, callbacks in between | a shared set across awaits, exceptions inside `gather` | no host is lost, results are complete, the bar moves forward, it ends |
| Tools of a host (`portscan.py`, `webdetect.py`, `vulnscan.py`, `cve_search.py`, ...) | files in the scan's directory, findings | run tools in nested `gather`s, parse, merge | missing and failing tools, files of an earlier scan | nothing a tool returned is lost or doubled |
| Progress thread of `run_scan` | queue, stop flag, rows of hosts, ports, findings, counters | put, get with timeout, the writes for an item, sentinel, join with timeout | a hanging database, a thread that outlives its task, a retry on the same rows | what was handed over is stored; counters agree with rows |
| Discovery task (`tasks/discovery.py`) | host rows, `hosts_count`, a queue and thread of its own | as above; a list at the end instead of results | the instance of the start is saved when it fails | rows and counter are those of the list |
| Assets, report files and rows, exploit matches (`T` 571-884, `msf_matcher.py`, `reports/engine.py`) | rows and files that scans share | sync, generate, regenerate, match | two scans of one target, failing renderers, reruns | a row or file is of the scan it names |
| Beat jobs: `enforce_scan_deadlines`, `check_scheduled_scans` | the schedules' `next_run`, `enabled` | cancel overdue scans, launch due ones | the job's own queryset is stale; `_calc_next_run` may raise; two jobs meet | an overdue scan stops; a schedule launches once per period |
| Phase-based scans (`tasks/phase_scan.py`, `V` 569-661) | one `PhaseRun` per phase, the scan's status | init, run, retry, skip a phase, cancel | check-then-dispatch, one scan status for several tasks | a running phase has a task; a scan is completed when no phase is left |
| MSF and ADCS sessions (`tasks/msf_exploit.py`, `adcs_exploit.py`, the `respond` handlers) | a session row: status, current step, steps | create, approve, reject; a task per step | two answers to one question; saves of stale instances; a dead worker; a step that fails, or leaves a server at work | steps dealt with in order, once each and as approved, and counted only then; a running session has a task |
| AD reconnaissance and sprays (`tasks/ad_recon.py`, `views/ad_recon.py`) | a session row, `tool_status`; a row per user and password | create, start, ten phases; spray | a task that cannot be sent; set-up, parsing and storing that raise; the soft time limit, which a phase may swallow; overlapping sprays | an outcome has a cause; a spray's row says success only of what nxc reported |
| Accounts (`auth_views.py`, `models/__init__.py` 60-140) | users, `SiteConfig.setup_complete`, API tokens | wizard, create, edit, delete, configure, reset, mint, revoke | check-then-insert, full saves of old rows, a window kept in a cache | one Owner; set-up in step with the Owner; a cap on tokens |
| Sign-in (`auth_views.py`, `authentication.py`) | sessions, challenges, codes, backup codes, links | log in, verify, resend, confirm, turn off, unlock | a challenge answered while the setting changes; a confirm that dies half-way | with the second factor on no session rests on a password alone, but for one that a confirm has still to end or died before ending |
| Telegram bot (`bot/`) | `telegram_chat_id`, a cache, `user_data` | link, unlink, commands, a dialogue for a new scan | three memories of one link | a scan is in the name of who was permitted to ask |
| Notices (`notifications.py`, `check_for_updates`, `telegrambot.py` 115-188) | the shared chat, own chats, the bot's copy, the mark of a release | notify, publish, relay, mark | a publication nobody hears, a chat changed meanwhile | a notice arrives on each of its ways, a release once |
| Admission (`V` 133-156) | the scans in progress | count, then create | check-then-act | the limits hold |
| Parsers, renderers, CLI, deployment, frontend, scripts | files | input and output | | text to text; left out |

How they interact. A request handler (or the bot, or beat) inserts a row, sends a
Celery task with the row's id, and writes the task's id and `running` into the row
afterwards. The task reads the row by its id, writes `running` itself, starts a
thread and calls `run_pipeline` with callbacks; a callback only puts an item on a
queue. The thread writes rows and counters through statements of its own. When the
pipeline is through, the task waits 30 seconds for the thread (5 more after it set
the stop flag), refreshes its instance, saves it as completed, syncs the assets,
generates reports and sends notices. Meanwhile every handler may write to the same
row; `enforce_scan_deadlines` does so every minute.

## 2. Modules

| Module | Models | State against code |
|---|---|---|
| `ScanLifecycle` | a scan's row and all who write it: launchers (`V` 127-231 and 1190-1245, `T` 914-973, the bot's three), cancel, retry, delete; `run_scan` and `run_discovery_scan` reduced to their saves; `enforce_scan_deadlines` | `row` is the table, `call` the requests in progress with the instance each holds, `job` the tasks with theirs, `revokes`/`revoked` the broadcasts and the worker's memory of them, `sweep` the queryset of the beat job |
| `Pipeline` | `discover_hosts` and `run_pipeline` | `live` is `live_ips`, `before` the `before_ips` of each coroutine, `work`/`at` a host's coroutine and `_host_phases`, `bar` the last percentage given to `on_progress` |
| `ResultFeed` | abstract: what the pipeline promises its caller (batches, targets, results, end) | `Pipeline` implements it (`CallbackOrder`); `ResultQueue` takes its actions for the callbacks |
| `HostTools` | the tools of one host under an image of the worker: which run, on what, what is believed, CVE search, `_dedup_findings` | `open`, `named`, `versions`, `endpoints`, `shots` are what phases hand on; `running` the tools of the current gathers; `left` the tools whose file an earlier scan left |
| `ResultQueue` | the queue, the thread and the tables behind one scan, over several executions, one after the other or at once; the portal's cancel and retry | `run` is the execution whose main thread takes the next step, `others` what those of the others hold (`Turn`); `queue`, `stop`, `writer` per execution as `_progress_queue`, `_progress_stop` and the thread's position; `hostRows`, `portRows`, `findingRows` the tables; `causes` is a history of what may make counters and rows disagree |
| `DiscoveryScan` | `run_discovery_scan` and its thread, cancel and retry | `exec`, `thread` per execution; `count` is `hosts_count`, `rows` the host rows, `listed` the list saved last |
| `ScanOutputs` | `_sync_assets`, `generate_report`, `regenerate_reports`, reruns | `asset`, `row`, `file` the shared rows and files; `job` an execution with its report and its memory |
| `ExploitMatching` | `match_exploits` and its rows | `results` in the order of the passes, `stored` the rows |
| `StepByStep` | abstract: what a session promises its user | steps through, steps tried, steps given up, status |
| `ExploitSession` | MSF and ADCS sessions: creation, answers (`V` 1308-1426, `views/ad_recon.py` 458-582) and the task of a step; implements `StepByStep` while answers do not cross (`OneStepAtATime`) | `status` and `step` are the row, `at` where each answer and the task it sends stands, `copy` the `current_step` of the task's instance; `tried`, `untried` and `overlap` are histories: the steps whose command was run, those that a task went past after an error before the command, and whether answers met |
| `StepChain` | the steps of the ADCS techniques, what becomes of a session when one fails, steps that start a server | `status` and `step` are the row, `ended` the status of each step that was run, `server` a server that its step has left at work |
| `PhaseScan` | phase endpoints and `run_phase_task` | `status` per `PhaseRun`, `request` with the row it read, `task` with its count of pending phases; `met`, `late`, `skipped` are histories |
| `Schedule` | `check_scheduled_scans`, `_calc_next_run`, edits, toggles | `row` a schedule, `todo` what a job has read, `now` half days; `close`, `odd` are histories |
| `ReconSession` | the request that creates a session and `ad_recon_task` | `status`, `users` and `saved` are the row, `stage` how far request and task are, `ts` the task's dictionary, `re` whether the name is bound, `soft` the limit; `cause` is a history: why the task raised |
| `PasswordSpray` | `run_spray`, `run_spray_task` | `rows` a row per user and password, `spray` a request and its task; `asked`, `hits`, `late` are histories: what nxc was given, what it reported, what was added behind a task |
| `Accounts` | set-up, users, configuration, tokens | `account` the table, `complete` and `open` set-up, `call` requests with what they read; `races` is a history |
| `SignIn` | sessions and the second factor of one account | `session` per browser, `challenge`, `setup` the cache entries; `confirm`, `found` how far a `mfa_confirm` is, `left` a history |
| `BotChat` | chats of the bot | `linked` the rows, `cached` 60 seconds, `known` and `asked` `user_data` |
| `Notices` | `notify`, `check_for_updates`, the bot's listener | `notice` a call with what it read, `got` what arrived where, `inbox` the pub/sub connection |
| `MC...` | the instances TLC checks; `MCAccess`, `MCJobs`, `MCTools` and `MCResults` put components that share no state side by side (see 3) | |
| `...Proofs` | theorems about the module they are named after; `AccessProofs`, `JobsProofs`, `ResultsProofs` and `ToolsProofs` about the components of the `MC` module of that name | |
| `FiniteSums` | facts about sums over finite sets, for the proofs about counters and the bar | |

One action is what happens between two points at which another process can act:
one ORM call in the lifecycle, the queue and the sessions (MySQL in autocommit mode),
one stretch between two awaits in the pipeline, one update in the bot, which
handles them one after the other. `Save` and `SaveStatus` are the two ways
Django writes an instance: all columns, inserting a row that is gone, or the named
ones, raising when it is gone.

Histories. Where the code lets two actors cross, the property does not claim that
they do not: a variable remembers the crossing (`causes`, `overlap`, `races`, `met`,
`odd`, `mixed`, ...), and the property says that nothing else can break it. Each is
set by the step that makes the crossing and read by properties only.

A definition marked "Mutant" in a comment is a variant of the one it precedes, with
a mistake one could make in that code. No specification uses it; putting it in the
place of the original must break the property it was written for. Those that no
run's list names (`KeepOldReports`, `AddLast`, `CountedAdding`, `LdapAnyCode`,
`NewByKey`, `NewsAlways`) break a conjunct of a property that another one stands for.

## 3. Runs

| Run | Instance | Shows |
|---|---|---|
| `ScanLifecycleSafety` | 2 scans, 3 requests, 2 tasks, all launchers, symmetry | types; a task id is the scan's own (`TaskIdOwned`); `pending`, `running`, `completed` and `failed` each have a cause (`PendingHasDriver`, `StuckRunningExplained`, `OutcomeEarned`) |
| `ScanLifecycleLiveness` | 1 discovery scan, 2 requests, 2 tasks, 1 retry by Celery | every accepted task ends; an overdue scan does not say running for ever |
| `ScanLifecycleDelete` | 1 scan | violated: a deleted row returns (finding 1) |
| `ScanLifecycleCancel` | 1 scan | violated: a scan cancelled while it ran is completed with the revoke of its task on the way (finding 2) |
| `PipelinePhases` | 2 overlapping subnets, 3 hosts, 2 permits each | no live host is lost between the deltas, results are complete, bar, order of callbacks (refinement of `ResultFeed`), end |
| `ResultQueueRetried` | `run_scan`: 1 host, 2 executions, 2 requests; `run_discovery_scan`: 2 executions, 1 retry by Celery, 2 subnets; outputs: 2 scans of 1 target, 2 jobs; matching: all inputs from a catalogue of 3 modules, 3 findings, 4 ports | after one another or at once, disagreeing counters have one of the named causes and findings are never over-counted (`CountersExplained`); assets, report rows, files and matches are of the execution they name (`OutputsExplained`); a completed scan's counters stay unless executions meet |
| `ResultQueueDrains` | 2 hosts, 1 execution, 1 cancel | what was handed over is stored and counted at completion (`ResultsShown`); the execution ends though the thread may hang |
| `ExploitSessionAnswers` | an MSF session (2 steps) or an ADCS session (3), the creation and 4 answers | steps in order and counted only when dealt with, whatever crosses, and, while answers do not cross, an ADCS session goes on only when each of them was run; a running session has a task or one of two named causes; it settles; one answer at a time implements `StepByStep` |
| `PortalAccess` | accounts: 3 users, 3 requests, cap 1; sign-in: 2 browsers; bot: 2 chats, 2 accounts | at most one Owner; set-up in step with the Owner; with the second factor on, no session that a password alone opened but those that a `mfa_confirm` has yet to end or died before ending; scans in the right name |
| `PortalJobs` | phases: discovery and a later one, 3 requests, 2 tasks; sprays: 2 of 2 users and 2 passwords; schedules: a daily and a monthly one, 2 jobs, 3 days; notices: 2, with 2 changes of the chats | running phases and outcomes explained; spray rows say success of what nxc reported, failed at most of what it was given, and are not left pending; one scan per period, one notice per release, each on both its ways; a scan run by phases settles |
| `WorkerTools` | one host with 2 ports under 7 images of the worker; the request and the ten phases of a reconnaissance session; the steps of all techniques | findings merged, findings of earlier scans only with a cause (`LeftoversExplained`); a complete reconnaissance session has all its tools on record, a failed one those of the phases before, and a cause; an ADCS session runs nothing after a failed step or beside a server left at work (`OutcomeExplained`); the first settles unless its task was not sent or died |
| `ReconSessionDegrades` | all of `ReconSession` | violated: a phase other than the gate aborts (finding 3) |

Side by side. Components that share no row, cache entry or file are put next to each
other in one instance, with a variable `part` that says which of them a behaviour
belongs to; a product of their states would only repeat each one's in every state of
the others. Their properties are stated where they belong and conjoined by the
`MC` module where they answer one question.

Deadlock checking is off everywhere: every model has a bounded number of requests
or ends with its scan, and a system with nothing left to do stands still.

Bounds, and why they are enough. Two tasks of one scan are what a retry needs to
overlap with its predecessor, and two scans what it takes to confuse their task
ids; three requests are a launch, a cancel and a retry. Two subnets that share an
address make every order of a host's discovery against the snapshots; with two
permits and three hosts one host waits. Two executions make an old thread race a
new task; a second retry would only repeat that. Counters are not capped: they are
bounded by the number of executions. When a scan is retried beside an execution
that goes on (`executions met`), `CountsExplained`, `ResultsPersisted` and
`CompletedIsFinal` say no more of it; the run goes on to check that findings are not
over-counted and that types hold. It has no subnet batches of `run_scan`, which
`ResultQueueDrains` has, and no statement that hangs for good; that run has.
Two answers carry the longer session through
its steps, and the two others cross them; the ADCS templates have two to four steps.
In `Accounts` three requests are a stale save, a reset and a second run of the
wizard; a cap of one token is reached at once. In `SignIn` and `BotChat` what
crosses are two browsers or two chats; the caps (one wrong password, one resend, one
code) are as small as lets one pass and the next be refused. `PhaseScan` needs two tasks
to cross and three requests to run, retry and skip. `Schedule` goes through a
daily schedule and one that `_calc_next_run` cannot place in the next month, over
days enough for a late job to meet the next. `HostTools` splits the optional tools
over seven images, each of which has tools that run beside each other; a second CVE
or port of a kind behaves as the first. `ReconSession` and `StepChain` have no
bound: their instances are the code's. The theorems of section 5 hold without these
bounds.

Findings, each the counterexample of one run:

1. `DeletedStaysDeleted`: DELETE revokes nothing, and the next full save of the
   task inserts the row again (`T`:566).
2. `CancelSticks`: completion overwrites `cancelled` while the revoke is on its way
   (`T`:539).
3. `OnlyTheGateAborts`: `ad_recon_task` imports `re` inside `if`s, which makes it a
   local of the whole function; phase 7 uses it unbound and fails the session
   (`tasks/ad_recon.py`:953), contrary to its docstring (356).

The models were written from these behaviours too, and have them, though no run is
about them alone. `run_scan` reads its row (`T`:28) and saves all of it (`T`:32): a
deadline that `check_scheduled_scans` stores in between is gone, which
`OverdueScanStops` therefore does not count as overdue. The delta of a subnet scan is
the growth of a shared set across an await with at least 256 permits, not only its
own (comments at `P`:239 and `P`:320). A host without open ports leaves its pipeline before
the call of `on_host_complete` (`O`:295), so that what the OS and SNMP probes said of
it reaches the report and not the tables (`O`:98). `_setup_window_expired` forgets
after 25 hours when set-up was first asked for, and the window that closed after 24
opens again (`auth_views.py` 806-817): `WindowReopens`.

Other facts of the code the models rest on, or that reading it for them showed:

* Bot and portal: a preferences form filled in before a chat was linked elsewhere
  puts the old link back; "Cancel" in the menu leaves the chosen type of a new scan in
  `user_data`, and the next text launches it; the index of a recent target is looked up
  in the list of then, not of now. A resend at the hourly cap replaces the code and
  sends nothing. The shared chat gets each notice twice, from `notify` and from the
  bot; the bot turns the chat into a number (`telegrambot.py`:144), which raises for
  the names `models/__init__.py`:409 gives as an example; it keeps the chat and token
  of its start; nothing publishes the `document_path` it looks for.
* Results: `discovery.py` keeps hosts of a failed scan, yet its `hosts_count` is that of
  the start; `hosts_scanned` counts subnets; `scan.output_dir` is nested one level
  deeper by every rerun; report files have fixed names, so scans of one target
  overwrite each other's, and a rerun keeps old report and match rows;
  `generate_report` declares a retry it never asks for and deletes rows before
  rendering. The key of a match and the index of ports ignore the protocol
  (`msf_matcher.py`:172), and a missing index file is remembered as empty.
* Tools: the rule of `_should_probe` is wider than its docstring (`webdetect.py`
  113-119); a CVE found for two versions goes to the one that is answered first; the
  directory of screenshots keeps old pictures; most tools parse their file whatever
  their exit code; the key that merges findings sees 60 letters of a title.
* Reconnaissance: `"signing:True"` is looked for in a text in small letters
  (`tasks/ad_recon.py`:1198); a missing tool of phase 6 is recorded as "not
  vulnerable"; a failed session does not save what it noted since its last save. When
  `delay` raises after the row was inserted (`views/ad_recon.py` 97-107) the session stays
  `pending`; a credential that cannot be decrypted (379), a report that is no dictionary
  (1006-1017, the `except` at 1035 has other errors) or a value the database refuses fails
  it; a soft limit inside the handler leaves it `running`.
  A later spray overwrites the successes of an earlier one.
* A step whose command could not even be built counts: ADCS swallows the error and
  advances, and as last step it completes the session (`adcs_exploit.py` 603-690);
  the review of MSF asks to go on without msfconsole or module (`msf_exploit.py`
  309-345).
* `mfa_confirm` has no transaction (`auth_views.py` 481-495): when it dies after the save
  of the setting, sessions that a password alone opened go on beside the second factor
  until the next confirm, and there are no backup codes.
* ADCS (read off the source, not modelled): `output_dir` is not among the columns saved,
  so every step works in a directory of its own and the restore step ("THIS IS CRITICAL", `adcs_exploit.py`:185) has no
  backup; a step that starts a server holds the worker until its 300 seconds are over.

## 4. Fairness

`ScanLifecycle`: weak fairness of every request in progress (a gunicorn thread runs
on, unless the request fails, `RequestFails`), of every task's own steps (a task is executed when it is its turn, and its
hard time limit ends it), of the deadline job (beat, every 60 seconds). No request
has to come, nothing has to crash, no revoke has to arrive.
`Pipeline`: weak fairness of every coroutine's step: each external tool has a
timeout, and a coroutine that waits for a permit is served when one is free (each
coroutine's fairness includes taking the permit). `ResultQueue`: weak fairness of
the main thread and of the writer threads, but a statement may hang for ever
(`WriterHangs`): the connection has no read timeout.
`ExploitSession`: weak fairness of every answer in progress and of every task sent
(each command has a timeout of 300 seconds); no answer has to come, and workers and
the broker may fail. `PhaseScan`: weak fairness of every task that was dispatched;
its worker may die. `ReconSession`: weak fairness of the request's dispatch and of the
task's steps; every tool has a timeout, and the task has a hard limit. The dispatch may
raise instead, and the task may raise or die at any of its steps.

What the runs of `ExploitSession` say about answers that cross: `OneStepAtATime`
and the last disjunct of `RunningExplained` stop at `overlap`, because two handlers
may both read `awaiting_confirm` before either saves. Then a step may be run twice,
an ADCS task may run the next step on a late approval, an MSF session may stay
`running` without a task, and a finishing task may overwrite a rejection.

## 5. Theorems

Every type invariant and every safety invariant that a run checks is a theorem, and so
are the action properties and the two refinements. Proof modules: `ScanLifecycleProofs`,
`PipelineProofs`, `ExploitSessionProofs` about the module they are named after;
`ResultsProofs`, `JobsProofs`, `AccessProofs` and `ToolsProofs` about the components
that `MCResults`, `MCJobs`, `MCAccess` and `MCTools` put side by side; `FiniteSums`
about the sums the counters and the percentage are.

What a theorem assumes is either an assumption of a component's module, which TLC
evaluates in its runs, or, where the component is only instantiated, the hypothesis of
the theorem: `Finite`, `Bounds`, `Leavings`, `Times`, `Limits`, `Names`. They say
that hosts, subnets or scans are finitely many, that a bound is a number (of ticks: two
at least), that a period is a month at most, that a mark for "none" is not one of the
things it is told from, and that who may launch scans has an account.

`ScanLifecycle`, for every set of scans, requests and tasks (`RowAssumption`,
`TaskAssumption`, `TypeAssumption`, `RetryAssumption`, `LaunchAssumption`: the ids of
rows and tasks are not the marks for "none", scan types and launchers are those
modelled).

* `TypeCorrect`: `Spec => []TypeOK`. The proof has one lemma per group of actions;
  `TypeOK` is inductive as it stands because it says also that an executing task
  holds an instance and that a launcher about to save a task id has sent the task.
* `TaskIdsOwned`: `Spec => []TaskIdOwned`. A row's task id is written from
  instances, so the inductive invariant `OwnInv` says of every place an instance can
  rest (rows, requests, tasks, the deadline job's list) that its task id is the
  scan's own, and of revokes that they were sent. A frame lemma (`OwnStable`) shows
  that owning is stable because a task never changes its scan (`Persist`).
* `PendingScansDriven`, `StuckScansExplained`, `OutcomesEarned`: the inductive
  invariant `StatusInv` adds to `OwnInv` what each pending or running row is accounted
  to by (a pending one also by a launcher that failed, `unsent`), that the instances of launchers say `pending`, and that every verdict has
  its task. Its steps follow from how an action may move `job` and `call`:
  each action is put in one of a few shapes first (the `...Moves` lemmas).

`Pipeline`, for all addresses, overlapping subnets and numbers of permits
(`AddressAssumption`, `PermitAssumption`; the two about the bar also `Finite`):

* `TypeCorrect` (all variables but the bar); `LiveHostsReported`: `Accounted` adds to
  `NoHostUnreported` that what a scan remembers, and what is reported, is live; so a
  host that becomes live is new to the very scan that found it.
* `ResultsOfWholePipelines`: a delivered host is a target and does not run any more.
* `KeepsCallbackOrder`: the refinement of `ResultFeed`. A subnet that reports nothing
  new and a host that delivers nothing are stutters; the announcement has all reported
  hosts because they are live.
* `BarTyped` (`Spec => []TypeOK`) and `BarForward` (`Spec => BarMovesForward`):
  `BarStands` says where the bar is: at the share of finished subnets, then at
  `Percentage`. What finished subnets add up to is at most discovery's weight, no
  host counts for less (`SumAtLeast`), so the bar does not fall when the hosts take
  over; a host that moves on changes one term of the sum (`SumUpdate`), upwards.

`FiniteSums`: `MapThenSumSet` is a recursive function on the subsets of the set.
That it has a solution, its type, the effect of one term and a lower bound are shown by
taking the least size at which they would fail (`AllNumbers`, `AllSubsets`), which
needs only that the numbers are well-founded, no induction rule.

`ResultQueue` (`QueueTypesHold`, `CompletedStaysAsItIs`, `DeliveredIsStored`;
any finite set of hosts, any ports, findings, executions and requests). `QueueInv` is
five invariants, each inductive given those before it:

* `QueueTyped`; `QueueOrder`: executions have met, or they are one at a time (`Serial`):
  threads of those that are over have ended, unless a drain timed out, and a row says
  completed only after its main thread has left the feed. That they have met stays on
  record, and nothing else leaves the record before (`CausesStay`);
* `FindingsCounted`: no instance of the row, in the table or in anybody's memory, counts
  more than is written and not on its way to the counter, which is why a stale save
  cannot over-count; and the row counts it all as long as no cause is on record;
* `ResultsKept`: whatever was announced or delivered is in the tables, in the queue or
  in the hands of the thread, as long as no more than stale saves is on record
  (`ResultsPersisted`, half of `ResultsShown`, at the end of the feed, when queue and hands are empty);
* `FirstRunRight`: in a first execution without a cause, the counters for hosts and
  ports are right up to what the items in the queue will add.

`MCResults` (`ResultsTyped`, `CountersAreExplained`, `OutputsAreExplained`; any
executions, retries and subnets of a discovery (`Bounds`), any jobs, scans, assets and
formats (`Leavings`)): from `QueueInv`, and

* `DiscInv`: a thread's queue holds what was found in the order it was found; an
  execution that is neither `mixed`, `lost` nor `again` knows every row there is;
* `OutInv`: an asset shows what one execution saw, the latest if none overlapped; a
  report's file is of a scan that ran for its target; and by the stage of its job
  (`Stands`) how many rows and files of which formats a scan has: `Rests` when none is at
  work;
* `MsfInv`: after `n` ports the matches are those of the findings and of the first `n`
  ports.

They hold for any targets of the scans and for any catalogue, findings, ports and
services of the matching, but for two ports at most in one scan: where ports share a
number two are enough to lose one in the other, and `ExploitMatching` starts with no more.

`ExploitSession`, for every set of requests and every number of steps
(`RequestAssumption`, `KindAssumption`, `StepsAssumption`):

* `TypeCorrect`: `TypeOK` is inductive because it says that a task at work has a step left.
* `StepsOrdered`: the strengthening `CopiesHonest` says that what a task remembers
  as through was dealt with, however stale its instance is; what is settled stays so.
  That an ADCS session goes on with run steps only comes from `AloneInv`.
* `ImplementsStepByStep`: until answers overlap, at most one request is busy and the
  row is as that request expects it (`AloneInv`); each step is then one of `StepByStep`, which tries the next step or gives it up.
* `RunningIsExplained`: from `AloneInv`, which shows that a task finds no step left
  only after an overlap.

`JobsProofs`. `PhaseScan`, for any phases, requests and tasks (`PhaseAssumption`: a
finite set that is not empty, as `init_phases` insists):

* `RunningPhaseHasTask`: the invariant says of the task not only that it is on
  record but that it has not yet made the save that takes `running` away.
* `OutcomeIsCounted`: the invariant follows a task from its count of pending phases to the
  save of the scan: until tasks have met, one is at work at most, and what it has
  counted is so unless `late` or `skipped` is on record.

The four together, for any sprays, users and passwords, schedules, periods and jobs
(`Times`: periods of 1 to 31 days, two ticks at least), chats, notices and changes (`Bounds`):

* `JobsTyped`; `SprayRowsAreExplained`, from `SprayInv`: which pairs a spray still has
  to try is told by its place in the list of users (`Listed`), and rows that say
  something were tried or added so (`Rewritten`).
* `HappensOnceEach`, from `BeatInv` and `NewsInv`. Runs fall on odd ticks, and unless
  `odd` is on record a schedule that has run and is in no job's hands is next due a
  period later; it is the arithmetic of `_calc_next_run` (`RunTicks`) that makes
  it so. A release is compared with the mark by one call at a time unless `unsure`,
  and what a call has sent is told by where it stands (`Delivered`).

`AccessProofs`. `Accounts`, for any users, requests and cap (`AccountsAssumption`):

* `TypeCorrect`, and `NoSecondOwner`, `SetupFollowsOwner`: one invariant, `Ownership`. It
  says of every request what it is about to write and whom (`Rows`: an Owner's row stays one,
  nobody else's becomes one but the wizard's own); that until two requests have passed the
  check together, the one that has passed it is alone with the Owner it writes
  (`OneOwner`); and that until a reset overtakes a request, what requests hold agrees
  with set-up (`InStep`).
* `TokensStayCapped`: a request that has counted is the only one of its user and has
  room for the token it will mint. `TokenCap` is proved and not among the run's properties.

`NoPasswordSession` (`SignIn`, any browsers and limits) is inductive with the types
of `mfa`, `session` and the confirms alone: it names the sessions that a confirm has
still to find (`enabled`), to end (`found`) or has left behind (`left`). `LaunchIsExplained` (`BotChat`, any chats and accounts,
under `Names`: the marks for nobody and for an empty entry are no accounts, and who may
launch has an account) rests on
`Remembers`: what is cached is the link, and who was rightly asked is still who the chat
is linked to, or the history says who has changed it. `AccessTyped` (under `Limits`,
`Names`), `AccessSecondFactor` and `AccessLaunchExplained` carry these over to the three
together: a behaviour of `MCAccess` is one of each component, as the others stand still.

`ToolsProofs`, for any ports, names, versions, findings and images of the worker:

* `ToolsTyped`; `NothingLostOrDoubled`, from `HostInv`: where the pipeline stands says
  which tools may be running (`Flow`); every key a tool has returned is in `found`
  from then on, and every CVE of NVD once only, since the second pass asks what the
  first did not (`Collected`); the merge keeps one finding of each key, which needs an
  argument about the least position in the order of findings.
* `LeftoversAreExplained`, from `HostInv` too: what is parsed of an earlier scan is of a
  tool that has left its file.
* `OutcomesAreExplained`: `ReconInv`: until something fails the session has noted exactly
  the phases behind it and the row has them (`Kept`), and each cause of failure leaves
  its own trace. `StepsInv`: until the session of steps has failed, all steps but a last
  one ended with 0 and no server was left.

Only model-checked: liveness (`EveryTaskEnds`, `OverdueScanStops`, `PipelineEnds`,
`RunEnds`, `SessionSettles`, `RunningSettles`), which is beyond the prover, and the
three runs that find a violation.

## 6. Not modelled

* Admission: `MAX_CONCURRENT_SCANS` and `MAX_QUEUED_SCANS` are counts taken before the
  insert without a lock. Two requests at the limit pass together, whatever follows; no
  other state depends on the number, so there is nothing to relate it to.
* The pool of four worker slots that the deadline job shares with the scans it is to
  stop: fairness of the job assumes that it gets one in the end.
* Parsers (`src/wireghost/parsers/`) and renderers (`reports/*_renderer.py`,
  `dashboard.py`): text to records and records to documents, character by character.
  `HostTools` and `ScanOutputs` have whether there is a file to parse and whether a renderer
  fails. `_partition_target` is arithmetic on addresses; `Pipeline` takes the subnets
  as given, overlaps included.
* Command line client: one request to the portal per command. Deployment engine: a
  sequential script over docker and ssh with nothing beside it; in reading it, `scp -p`
  is given a port (the flag for that is `-P`), and the result of the health check is
  not used.
* Update of feeds, tool health, container statistics, installer: cached answers of other
  services that no part above relies on.
* Passwords' rules, rate limits, CSRF and the table of roles: local to one request.
* The files, options and output of the commands of MSF and ADCS steps.
* Users' edits of assets and vulnerability rows, names, profiles and notes: columns no
  modelled handler reads back.
* Frontend, scripts, containers, migrations and tests; `docker-compose.yml` and
  `settings.py` were read for worker slots, time limits and database timeouts.

## 7. Plan

What would come next, in this order: `ExploitMatching` for any number of ports; the
refinement of a common "session with one task" by `ReconSession` and `ExploitSession`;
the worker's slots as a component that `ScanLifecycle`, `Schedule` and the deadline job
share; admission, should it come to hold a lock.
