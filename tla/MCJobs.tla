------------------------------- MODULE MCJobs -------------------------------
(***************************************************************************)
(* Background work that users can meet: the phases of a scan run one at a  *)
(* time, password sprays, scheduled scans, and notices.  The four share no *)
(* rows and are checked side by side: a behaviour belongs to one of them,  *)
(* "part".                                                                 *)
(***************************************************************************)
EXTENDS PhaseScan

CONSTANTS Users, Passwords, Sprays, Schedules, Daily, Period, Jobs, LastTick,
          Chat, Named, NoChat, Notices, Changes

\* Schedules run every day or, if not in Daily, every other day and by the month.
DaysBetween == [s \in Schedules |-> IF s \in Daily THEN 1 ELSE 2]

VARIABLES
    part,
    rows, spray, asked, hits, added,
    now, row, todo, launched, last, close, odd,
    shared, own, bot, inbox, notice, got, latest, marked, changes, excused, unsure

spraying == <<rows, spray, asked, hits, added>>
planning == <<now, row, todo, launched, last, close, odd>>
telling == <<shared, own, bot, inbox, notice, got, latest, marked, changes, excused, unsure>>

Sp == INSTANCE PasswordSpray WITH late <- added
Beat == INSTANCE Schedule WITH Monthly <- Schedules \ Daily
News == INSTANCE Notices

JobsInit ==
    /\ part \in {"phases", "sprays", "schedules", "notices"}
    /\ Init /\ Sp!Init /\ Beat!Init /\ News!Init
    /\ shared.chat \notin Named

Phases(A) == part = "phases" /\ A /\ UNCHANGED <<part, spraying, planning, telling>>

JobsNext ==
    \/ Phases(Next)
    \/ part = "sprays" /\ Sp!Next /\ UNCHANGED <<part, vars, planning, telling>>
    \/ part = "schedules" /\ Beat!Next /\ UNCHANGED <<part, vars, spraying, telling>>
    \/ part = "notices" /\ News!Next /\ UNCHANGED <<part, vars, spraying, planning>>

all == <<part, vars, spraying, planning, telling>>

\* The worker gets on with a task of a phase it has.
JobsSpec == JobsInit /\ [][JobsNext]_all /\ \A t \in Task : WF_all(Phases(Work(t)))

-----------------------------------------------------------------------------
\* Every variable of the four keeps its type.
JobsTypeOK == TypeOK /\ Sp!TypeOK /\ Beat!TypeOK /\ News!TypeOK

\* A row of a spray says success only of what nxc reported, and failed only of what
\* nxc was given, tried or not, or could not be given; while it is pending a request or
\* a task is on the way to rewrite it, or one died (run_spray, run_spray_task).
SprayRowsExplained == Sp!PendingSprayDriven /\ Sp!RowsEarned

\* What has a time or an occasion of its own happens once for it, but for the
\* reasons named there: a schedule's scan (check_scheduled_scans, _calc_next_run),
\* a release's notice (check_for_updates), and a notice on each of its two ways to
\* the shared chat (notify, the bot's listener).
OnceEach == Beat!OncePerPeriod /\ News!OncePerRelease /\ News!NoticesExplained
=============================================================================
