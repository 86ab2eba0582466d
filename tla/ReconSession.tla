---------------------------- MODULE ReconSession ----------------------------
(***************************************************************************)
(* A reconnaissance session of a directory service (views/ad_recon.py,     *)
(* tasks/ad_recon.py): a request inserts its row and sends a Celery task,  *)
(* which takes it through ten phases.  A phase runs its tools, notes each  *)
(* in the dictionary ts, and saves ts in the session's row.                *)
(*                                                                         *)
(* A tool that is missing, times out or fails only leaves no output, and   *)
(* the connectivity check of phase 0 is the one gate.  But much else can   *)
(* raise: the credential and the directory made before the first phase,    *)
(* the parsing and storing of what tools left, the soft time limit, which  *)
(* Celery raises once wherever the task is, and the name re.  The task     *)
(* imports it in four places, each of them only when a tool of phase 2 or  *)
(* 3 has output, which makes it a local variable of the whole function,    *)
(* and phase 7 uses it.                                                    *)
(*                                                                         *)
(* The tools of a phase are noted together; of the rows that come of their *)
(* output there is only whether there are users.                           *)
(***************************************************************************)
EXTENDS Naturals, FiniteSets

VARIABLES
    auth,      \* the session has the scope authenticated and a usable credential
    status,    \* ADReconSession.status
    users,     \* the session has ADUser rows
    saved,     \* phases whose tools are in the row's tool_status
    ts,        \* phases whose tools are in the task's dictionary
    stage,     \* how far the task is, and ...
    phase,     \* ... in which of its phases
    re,        \* the local variable re has a value
    soft,      \* the soft time limit: "ahead", "raised" or "swallowed"
    cause      \* history: why the task raised

row == <<status, users, saved>>
vars == <<auth, status, users, saved, ts, stage, phase, re, soft, cause>>

Phases == 0 .. 9
Stage == {"asked", "refused", "queued", "prepare", "phases", "finalize", "except", "done", "dead"}
Cause == {"none", "setup", "unreachable", "error", "time", "unbound"}

At(p) == stage = "phases" /\ phase = p

\* Without a credential phases 2, 3, 6 and 7 run nothing.
Runs(p) == auth \/ p \notin {2, 3, 6, 7}

GoOn ==
    /\ phase' = IF phase = 9 THEN 9 ELSE phase + 1
    /\ stage' = IF phase = 9 THEN "finalize" ELSE "phases"
    /\ UNCHANGED <<auth, status, soft, cause>>

Raise(why) ==
    /\ stage' = "except" /\ cause' = why
    /\ UNCHANGED <<auth, status, phase, soft>>

\* ADReconSessionViewSet.create has inserted the row: an authenticated session has a
\* profile, whose password and hash may be empty.
Init ==
    /\ auth \in BOOLEAN
    /\ status = "pending"
    /\ users = FALSE
    /\ saved = {} /\ ts = {}
    /\ stage = "asked" /\ phase = 0
    /\ re = FALSE
    /\ soft = "ahead"
    /\ cause = "none"

Dispatch ==
    /\ stage = "asked"
    /\ stage' = "queued"
    /\ UNCHANGED <<auth, row, ts, phase, re, soft, cause>>

\* delay raises, or the request's process dies: nothing takes the row back.
DispatchRaises ==
    /\ stage = "asked"
    /\ stage' = "refused"
    /\ UNCHANGED <<auth, row, ts, phase, re, soft, cause>>

Start ==
    /\ stage = "queued"
    /\ status' = "running"
    /\ saved' = {}
    /\ stage' = "prepare"
    /\ UNCHANGED <<auth, users, ts, phase, re, soft, cause>>

\* The credential is decrypted and a directory made, inside the try; either may raise.
Prepare ==
    /\ stage = "prepare"
    /\ \/ stage' = "phases" /\ UNCHANGED <<auth, status, phase, soft, cause>>
       \/ Raise("setup")
    /\ UNCHANGED <<users, saved, ts, re>>

\* Mutant: a phase's tools are noted whatever the scope.
NoteAll == ts' = ts \cup {phase}

\* _record_tool, for every tool of the phase: also for one that is missing, fails
\* or times out, none of which raises.
Note == ts' = IF Runs(phase) THEN ts \cup {phase} ELSE ts

\* ... and a phase that runs something gives the row the dictionary.
Save == Note /\ saved' = IF Runs(phase) THEN saved \cup ts' ELSE saved

\* Phase 0 is recorded before it is judged.
Connectivity ==
    /\ At(0)
    /\ Save
    /\ GoOn \/ Raise("unreachable")
    /\ UNCHANGED <<users, re>>

\* Rows come from the files ldapdomaindump leaves in the task's directory, which
\* only its authenticated command line names.
ParsedUsers == users' \in {users, auth}

Ldap ==
    /\ At(1)
    /\ ParsedUsers
    /\ Save /\ GoOn
    /\ UNCHANGED re

\* laps, gpp_password and gpp_autologin import re when they have output, and so
\* does daclread.
PassiveHunting ==
    /\ At(2)
    /\ re' \in {re, auth}
    /\ Save /\ GoOn
    /\ UNCHANGED users

AttackSurface ==
    /\ At(3)
    /\ re' \in {re, re \/ auth}
    /\ Save /\ GoOn
    /\ UNCHANGED users

BloodHound == At(4) /\ Save /\ GoOn /\ UNCHANGED <<users, re>>

\* Without a credential kerbrute's entry waits for the next save, that of phase 8.
Harvest ==
    /\ At(5)
    /\ Note
    /\ saved' = IF auth THEN saved \cup ts' ELSE saved
    /\ GoOn
    /\ UNCHANGED <<users, re>>

Escalation == At(6) /\ Save /\ GoOn /\ UNCHANGED <<users, re>>

\* The output of adcs and of certipy-find, and certipy's report, are searched with
\* re.  When that raises, the phase's tools so far are in ts and not in the row.
Adcs ==
    /\ At(7)
    /\ \/ Save /\ GoOn
       \/ auth /\ ~re /\ Note /\ saved' = saved /\ Raise("unbound")
    /\ UNCHANGED <<users, re>>

Services == At(8) /\ Save /\ GoOn /\ UNCHANGED <<users, re>>

\* The capture's entry waits for the result.
Responder == At(9) /\ Note /\ GoOn /\ UNCHANGED <<users, saved, re>>

\* What the tools of a phase left cannot be parsed or stored: an entry that is no
\* dictionary, certipy's report for one, where only some errors are caught, a value
\* too long for its column, a database that is away.  What the phase has noted is in
\* ts and not in the row; its users may be stored.
PhaseRaises ==
    /\ stage = "phases" /\ Runs(phase)
    /\ Note /\ saved' = saved
    /\ users' \in {users, users \/ (phase = 1 /\ auth)}
    /\ Raise("error")
    /\ UNCHANGED re

\* ... and so with the last save.
FinalizeRaises ==
    /\ stage = "finalize"
    /\ Raise("error")
    /\ UNCHANGED <<users, saved, ts, re>>

\* Mutant: the last save leaves tool_status out.
FinalizeStatus ==
    /\ stage = "finalize"
    /\ status' = "complete"
    /\ stage' = "done"
    /\ UNCHANGED <<auth, users, saved, ts, phase, re, soft, cause>>

Finalize ==
    /\ stage = "finalize"
    /\ status' = "complete"
    /\ saved' = ts
    /\ stage' = "done"
    /\ UNCHANGED <<auth, users, ts, phase, re, soft, cause>>

\* Mutant: only RuntimeError, the gate's, is handled.
FailGateOnly ==
    /\ stage = "except"
    /\ status' = IF cause = "unreachable" THEN "failed" ELSE status
    /\ stage' = "done"
    /\ UNCHANGED <<auth, users, saved, ts, phase, re, soft, cause>>

\* except Exception: tool_status is not among the columns saved.
Fail ==
    /\ stage = "except"
    /\ status' = "failed"
    /\ stage' = "done"
    /\ UNCHANGED <<auth, users, saved, ts, phase, re, soft, cause>>

\* soft_time_limit, wherever the task is; inside the handler nothing catches it.
SoftLimit ==
    /\ soft = "ahead"
    /\ soft' = "raised"
    /\ \/ stage \in {"prepare", "phases", "finalize"} /\ stage' = "except" /\ cause' = "time"
       \/ stage = "except" /\ stage' = "dead" /\ cause' = cause
    /\ UNCHANGED <<auth, row, ts, phase, re>>

\* While phase 7 lists files or phase 9 asks for the default interface, an except
\* Exception of theirs takes it for another failure.
SoftLimitSwallowed ==
    /\ At(9) \/ (At(7) /\ auth)
    /\ soft = "ahead"
    /\ soft' = "swallowed"
    /\ UNCHANGED <<auth, row, ts, stage, phase, re, cause>>

\* time_limit, the worker dies, or a save raises that no handler is around: that of
\* Start, which comes before the try, and that of the handler itself.
TaskDies ==
    /\ stage \in {"queued", "prepare", "phases", "finalize", "except"}
    /\ stage' = "dead"
    /\ UNCHANGED <<auth, row, ts, phase, re, soft, cause>>

Progress ==
    \/ Dispatch \/ Start \/ Prepare
    \/ Connectivity \/ Ldap \/ PassiveHunting \/ AttackSurface \/ BloodHound
    \/ Harvest \/ Escalation \/ Adcs \/ Services \/ Responder \/ Finalize \/ Fail

Next ==
    \/ Progress
    \/ DispatchRaises \/ PhaseRaises \/ FinalizeRaises
    \/ SoftLimit \/ SoftLimitSwallowed \/ TaskDies

Spec == Init /\ [][Next]_vars

\* A worker gets on with the task: every tool has a timeout.
FairSpec == Spec /\ WF_vars(Progress)

-----------------------------------------------------------------------------
(* Properties.                                                             *)

\* An unauthenticated session notes no tool of the phases it skips.
TypeOK ==
    /\ auth \in BOOLEAN
    /\ status \in {"pending", "running", "complete", "failed"}
    /\ users \in BOOLEAN
    /\ saved \subseteq ts /\ ts \subseteq {p \in Phases : Runs(p)}
    /\ stage \in Stage /\ phase \in Phases
    /\ re \in BOOLEAN
    /\ soft \in {"ahead", "raised", "swallowed"}
    /\ cause \in Cause

\* The tools noted before the phase the task is in are in the row; only kerbrute's
\* entry may be missing.
Kept == \A p \in Phases : p < phase /\ Runs(p) => p \in saved \/ (p = 5 /\ ~auth)

\* A session is complete with an entry in the row for every tool of its scope, the
\* ones of the last phase and of the phases that save nothing included.  A session
\* that failed has the entries of the phases before the one that raised, and it
\* failed because nothing could be made ready for it, it was unreachable, a phase or
\* the last save could not parse or store something, it ran out of time, or it had
\* no output from the four tools that import re and some from phase 7.
OutcomeExplained ==
    /\ status = "complete" => saved = {p \in Phases : Runs(p)}
    /\ status = "failed" =>
         /\ Kept
         /\ \/ cause = "setup" /\ saved = {}
            \/ cause = "unreachable" /\ saved = {0}
            \/ cause = "error" /\ phase \notin saved
            \/ cause = "time" /\ soft = "raised"
            \/ cause = "unbound" /\ auth /\ ~re /\ 7 \notin saved

\* "All other phases degrade gracefully: a missing binary, timeout, or non-zero exit
\* ... does NOT abort the session."  What tools do not do or find aborts it at the
\* gate only; what they leave that nobody can read, the time of the whole session and
\* what comes before the first phase are not what is said there.
OnlyTheGateAborts ==
    status = "failed" => cause \in {"unreachable", "setup", "error", "time"}

\* A session does not stay pending or running for ever, unless its task could not be
\* sent, was killed, or could not write down that it starts or that it failed.
SessionSettles == <>(status \in {"complete", "failed"} \/ stage \in {"refused", "dead"})
=============================================================================
