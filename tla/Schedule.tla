------------------------------ MODULE Schedule ------------------------------
(***************************************************************************)
(* Scheduled scans: check_scheduled_scans, which Celery beat sends every   *)
(* 60 s, _calc_next_run, and what users do to a schedule meanwhile.        *)
(*                                                                         *)
(* A job reads the schedules that are due, ordered by next_run, and for    *)
(* each launches a scan and then saves the next run.  It may start late,   *)
(* when the workers are busy, and then meets another one.                  *)
(*                                                                         *)
(* A day has two ticks: before a schedule's time of day, and from then on. *)
(***************************************************************************)
EXTENDS Naturals, FiniteSets

CONSTANTS
    Schedules,
    Period,      \* days between two runs
    Monthly,     \* schedules whose next month may lack today's date
    Jobs,        \* executions of check_scheduled_scans
    LastTick     \* bound of the model

VARIABLES
    now,
    row,       \* ScheduledScan: exists, enabled, next_run
    todo,      \* per job, what it has read and not done, with the next_run it read
    launched,  \* per job, the schedule whose scan it has launched and not saved
    last,      \* history: the next_run a schedule's last scan was launched for
    close,     \* history: schedules with two scans nearer to each other than a period
    odd        \* history: schedules something has happened to, named below

vars == <<now, row, todo, launched, last, close, odd>>

Ticks == 0 .. LastTick + 2 * 31
Row == [live : BOOLEAN, enabled : BOOLEAN, next : Ticks]
None == "none"
Never == 0

RunTick(t) == 2 * (t \div 2) + 1

\* Mutant: nothing is added when today's time has come.
CalcToday(s, t) == RunTick(t)

\* _calc_next_run: today's time if it is ahead, else a period after today.  It
\* reckons from the present, whenever the run was due.
Calc(s, t) == IF t < RunTick(t) THEN RunTick(t) ELSE RunTick(t) + 2 * Period[s]

Init ==
    /\ now = 2
    /\ row = [s \in Schedules |-> [live |-> TRUE, enabled |-> TRUE, next |-> Calc(s, now)]]
    /\ todo = [j \in Jobs |-> {}]
    /\ launched = [j \in Jobs |-> None]
    /\ last = [s \in Schedules |-> Never]
    /\ close = {} /\ odd = {}

Pass ==
    /\ now < LastTick
    /\ now' = now + 1
    /\ UNCHANGED <<row, todo, launched, last, close, odd>>

Busy(j) == todo[j] # {} \/ launched[j] # None
Due == {s \in Schedules : row[s].live /\ row[s].enabled /\ row[s].next # Never /\ row[s].next <= now}
Read(s) == \E j \in Jobs : launched[j] = s \/ \E x \in todo[j] : x[1] = s

Check(j) ==
    /\ ~Busy(j) /\ Due # {}
    /\ todo' = [todo EXCEPT ![j] = {<<s, row[s].next>> : s \in Due}]
    /\ odd' = odd \cup {s \in Due : Read(s)}                    \* two jobs have it
    /\ UNCHANGED <<now, row, launched, last, close>>

\* The scan of the first schedule left, whatever has become of that meanwhile.
LaunchNext(j) ==
    /\ launched[j] = None
    /\ \E x \in todo[j] :
         /\ \A y \in todo[j] : x[2] <= y[2]
         /\ launched' = [launched EXCEPT ![j] = x[1]]
         /\ todo' = [todo EXCEPT ![j] = @ \ {x}]
         /\ last' = [last EXCEPT ![x[1]] = x[2]]
         /\ close' = IF last[x[1]] # Never /\ x[2] < last[x[1]] + 2 * Period[x[1]]
                     THEN close \cup {x[1]} ELSE close
    /\ UNCHANGED <<now, row, odd>>

\* last_run and next_run are saved.
SaveNext(j) ==
    /\ launched[j] # None
    /\ row[launched[j]].live
    /\ row' = [row EXCEPT ![launched[j]].next = Calc(launched[j], now)]
    /\ launched' = [launched EXCEPT ![j] = None]
    /\ odd' = IF last[launched[j]] < now /\ now < RunTick(now)  \* it was due on another day
              THEN odd \cup {launched[j]} ELSE odd
    /\ UNCHANGED <<now, todo, last, close>>

\* The job dies, or raises: the next month has no such date, or the row that is saved
\* is gone.  What it had still to do is left to the next job, and so is the schedule
\* it has launched.
SaveFails(j) ==
    /\ launched[j] # None
    /\ ~row[launched[j]].live \/ (launched[j] \in Monthly /\ now >= RunTick(now))
    /\ launched' = [launched EXCEPT ![j] = None]
    /\ todo' = [todo EXCEPT ![j] = {}]
    /\ odd' = odd \cup {launched[j]}
    /\ UNCHANGED <<now, row, last, close>>

Die(j) ==
    /\ Busy(j)
    /\ launched' = [launched EXCEPT ![j] = None]
    /\ todo' = [todo EXCEPT ![j] = {}]
    /\ odd' = odd \cup ({launched[j]} \ {None})
    /\ UNCHANGED <<now, row, last, close>>

\* toggle, of the portal and of the bot, leaves next_run as it is.
Toggle(s) ==
    /\ row[s].live
    /\ row' = [row EXCEPT ![s].enabled = ~@]
    /\ UNCHANGED <<now, todo, launched, last, close, odd>>

\* The portal's form sends the next run along with what was edited.
Edit(s) ==
    /\ row[s].live
    /\ row' = [row EXCEPT ![s].next = Calc(s, now)]
    /\ odd' = odd \cup {s}
    /\ UNCHANGED <<now, todo, launched, last, close>>

Delete(s) ==
    /\ row[s].live
    /\ row' = [row EXCEPT ![s].live = FALSE]
    /\ UNCHANGED <<now, todo, launched, last, close, odd>>

Next ==
    \/ Pass
    \/ \E j \in Jobs : Check(j) \/ LaunchNext(j) \/ SaveNext(j) \/ SaveFails(j) \/ Die(j)
    \/ \E s \in Schedules : Toggle(s) \/ Edit(s) \/ Delete(s)

Spec == Init /\ [][Next]_vars

-----------------------------------------------------------------------------
(* Properties.                                                             *)

TypeOK ==
    /\ now \in 0 .. LastTick
    /\ row \in [Schedules -> Row]
    /\ \A j \in Jobs : todo[j] \subseteq Schedules \X Ticks
    /\ launched \in [Jobs -> Schedules \cup {None}]
    /\ last \in [Schedules -> Ticks]
    /\ close \subseteq Schedules /\ odd \subseteq Schedules

\* Two scans of a schedule are a period apart, unless two jobs had it at a time, a
\* job raised or died before it had saved the next run, the job came a day late, or
\* the schedule was edited.
OncePerPeriod == close \subseteq odd
=============================================================================
