----------------------------- MODULE StepByStep -----------------------------
(***************************************************************************)
(* What a session that runs one step at a time promises its user: the      *)
(* steps are tried in their order and once each, or given up before they   *)
(* are tried, every step after the first only when the user has approved   *)
(* it, and a session that is over stays so.  Module ExploitSession         *)
(* implements this as long as its user gives one answer at a time.         *)
(***************************************************************************)
EXTENDS Naturals, Sequences

VARIABLES
    total,    \* number of steps
    status,   \* "running", "awaiting_confirm", "completed", "failed", "cancelled"
    step,     \* steps that are through
    tried,    \* the steps tried, in the order in which they were
    untried   \* the steps given up before they were tried

stepVars == <<total, status, step, tried, untried>>

StepInit ==
    /\ total \in Nat \ {0}
    /\ status = "running"
    /\ step = 0
    /\ tried = <<>> /\ untried = {}

Settled(n) == n \in untried \/ \E i \in DOMAIN tried : tried[i] = n

Due == status = "running" /\ step < total /\ ~Settled(step + 1)

\* The next step is tried.
Try ==
    /\ Due
    /\ tried' = Append(tried, step + 1)
    /\ UNCHANGED <<total, status, step, untried>>

\* It cannot be.
GiveUp ==
    /\ Due
    /\ untried' = untried \cup {step + 1}
    /\ UNCHANGED <<total, status, step, tried>>

\* The step just settled is through; the user is asked unless it was the last.
StepThrough ==
    /\ status = "running"
    /\ Settled(step + 1)
    /\ step' = step + 1
    /\ status' \in {"failed", IF step' = total THEN "completed" ELSE "awaiting_confirm"}
    /\ UNCHANGED <<total, tried, untried>>

\* A step breaks and is not counted as through.
StepBreaks ==
    /\ status = "running"
    /\ status' = "failed"
    /\ UNCHANGED <<total, step, tried, untried>>

ApproveNext ==
    /\ status = "awaiting_confirm"
    /\ status' = "running"
    /\ UNCHANGED <<total, step, tried, untried>>

RejectNext ==
    /\ status = "awaiting_confirm"
    /\ status' = "cancelled"
    /\ UNCHANGED <<total, step, tried, untried>>

StepNext == Try \/ GiveUp \/ StepThrough \/ StepBreaks \/ ApproveNext \/ RejectNext

StepSpec == StepInit /\ [][StepNext]_stepVars
=============================================================================
