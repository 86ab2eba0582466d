----------------------------- MODULE StepChain -----------------------------
(***************************************************************************)
(* The steps of an ADCS session, one after the other                       *)
(* (tasks/adcs_exploit.py).  Answers that cross and workers that die are   *)
(* in ExploitSession; here is what each technique asks for, what becomes   *)
(* of the session when a step fails, and the server that one step starts   *)
(* for the next.  Of a command is kept whether it starts a server and      *)
(* whether a failure of it would be destructive; what it is filled with,   *)
(* and the files it reads and writes, are left out.                        *)
(***************************************************************************)
EXTENDS Naturals, Sequences

VARIABLES
    technique,  \* ADCSExploitSession.esc_type
    status,     \* its status
    step,       \* its current_step
    server,     \* the server started by a step is at work
    ended       \* the status of each step that was run

vars == <<technique, status, step, server, ended>>

-----------------------------------------------------------------------------
(* STEP_TEMPLATES.                                                         *)

Plain == [destructive |-> FALSE, background |-> FALSE]
Destructive == [Plain EXCEPT !.destructive = TRUE]
Background == [Plain EXCEPT !.background = TRUE]

OnRequest == <<Plain, Plain>>
OnBehalf == <<Plain, Plain, Plain>>
OnTemplate == <<Destructive, Plain, Plain, Plain>>
OnIssue == <<Plain, Plain, Plain>>
OnRelay == <<Background, Plain, Plain>>

Chain == [t \in {1, 2, 3, 4, 6, 7, 8, 15} |->
            CASE t = 3 -> OnBehalf [] t = 4 -> OnTemplate [] t = 7 -> OnIssue
              [] t = 8 -> OnRelay  [] OTHER -> OnRequest]

\* The technique of a check; 17 is handled like 1, and some have none.
TechniqueOf(check) == IF check = 17 THEN 1 ELSE check

-----------------------------------------------------------------------------
Total == Len(Chain[technique])
Now == Chain[technique][step + 1]

\* Mutant: only what changes something stops the session.
StatusGoesOn(failed) ==
    CASE failed /\ Now.destructive -> "failed"
      [] step + 1 = Total -> "completed"
      [] OTHER -> "awaiting_confirm"

\* What becomes of the session: a destructive step that fails ends it, as does any
\* but the last.
StatusAfter(failed) ==
    CASE failed /\ Now.destructive -> "failed"
      [] step + 1 = Total -> "completed"
      [] failed -> "failed"
      [] OTHER -> "awaiting_confirm"

EndStep(failed) ==
    /\ status' = StatusAfter(failed)
    /\ step' = step + 1
    /\ ended' = Append(ended, IF failed THEN "failed" ELSE "completed")

\* The command ends in time, is stopped, or could not be run; a program that has done
\* nothing may end with 0 as well.
RunCommand ==
    /\ status = "running" /\ step < Total /\ ~Now.background
    /\ \E failed \in BOOLEAN : EndStep(failed)
    /\ UNCHANGED <<technique, server>>

\* A command that ends with & : the shell is through, but subprocess.run reads the
\* output until the server has ended; or the command could not be run ...
ServerEnds ==
    /\ status = "running" /\ step < Total /\ Now.background
    /\ \E failed \in BOOLEAN : EndStep(failed)
    /\ UNCHANGED <<technique, server>>

\* ... or 300 s are over, and the step has failed; the server works on.
ServerOutlivesStep ==
    /\ status = "running" /\ step < Total /\ Now.background
    /\ EndStep(TRUE)
    /\ server' = TRUE
    /\ UNCHANGED technique

Answer ==
    /\ status = "awaiting_confirm"
    /\ status' \in {"running", "cancelled"}
    /\ UNCHANGED <<technique, step, server, ended>>

Init ==
    /\ \E check \in 1 .. 17 :
         /\ TechniqueOf(check) \in DOMAIN Chain
         /\ technique = TechniqueOf(check)
    /\ status = "running" /\ step = 0 /\ server = FALSE /\ ended = <<>>

Next == RunCommand \/ ServerEnds \/ ServerOutlivesStep \/ Answer

Spec == Init /\ [][Next]_vars

-----------------------------------------------------------------------------
(* Properties.                                                             *)

TypeOK ==
    /\ technique \in DOMAIN Chain
    /\ status \in {"running", "awaiting_confirm", "completed", "failed", "cancelled"}
    /\ step \in 0 .. Total
    /\ status \in {"running", "awaiting_confirm"} => step < Total
    /\ server \in BOOLEAN
    /\ Len(ended) = step /\ \A i \in DOMAIN ended : ended[i] \in {"completed", "failed"}

\* Nothing is run after a step that failed, or beside a server that a step has left
\* at work: the session goes on, or waits for an answer, only when all steps so far
\* ended with 0.  It says failed for its one failed step, and completed when it has
\* run them all; then the last may have failed, if it is not destructive.
OutcomeExplained ==
    /\ \A n \in DOMAIN ended : ended[n] = "failed" =>
         /\ n = step
         /\ status = "failed" \/ (status = "completed" /\ ~Chain[technique][n].destructive)
    /\ server \/ status = "failed" => step > 0 /\ ended[step] = "failed" /\ status = "failed"
    /\ status = "completed" => step = Total
=============================================================================
