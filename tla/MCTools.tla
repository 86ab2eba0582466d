------------------------------ MODULE MCTools ------------------------------
(***************************************************************************)
(* The tasks that run other programs: the pipeline of one host, a recon-   *)
(* naissance session, and the steps of an ADCS session.  They share no     *)
(* state and are checked side by side: a behaviour belongs to one, "part". *)
(***************************************************************************)
EXTENDS HostTools

\* What the two ports are called when nobody can tell.
UsualName == [p \in Ports |-> IF p = "443" THEN "https" ELSE "smb"]

VARIABLES
    part,
    auth, status, users, saved, ts, stage, phase, re, soft, cause,
    technique, wizard, through, server, ended

session == <<auth, status, users, saved, ts, stage, phase, re, soft, cause>>
steps == <<technique, wizard, through, server, ended>>

Recon == INSTANCE ReconSession
Step == INSTANCE StepChain WITH status <- wizard, step <- through

\* Where a part may start in several ways, the others see one of them.
ToolsInit ==
    /\ part \in {"host", "session", "steps"}
    /\ Init /\ Recon!Init /\ Step!Init
    /\ part # "session" => ~auth
    /\ part # "host" => left = {} /\ skips = {}
    /\ part # "steps" => technique = 1

ToolsNext ==
    \/ part = "host" /\ Next /\ UNCHANGED <<part, session, steps>>
    \/ part = "session" /\ Recon!Next /\ UNCHANGED <<part, vars, steps>>
    \/ part = "steps" /\ Step!Next /\ UNCHANGED <<part, vars, session>>

\* A worker gets on with the session: every tool has a timeout.
ToolsSpec ==
    /\ ToolsInit /\ [][ToolsNext]_<<part, vars, session, steps>>
    /\ WF_<<part, vars, session, steps>>(
         part = "session" /\ Recon!Progress /\ UNCHANGED <<part, vars, steps>>)

-----------------------------------------------------------------------------
\* Every variable of the three keeps its type.
ToolsTypeOK == TypeOK /\ Recon!TypeOK /\ Step!TypeOK

\* How a session has ended agrees with what is on record of it: with the tools noted
\* in the row and the cause of a failure (ad_recon_task), and with the steps that
\* were run (adcs_exploit_step).
OutcomeExplained == Recon!OutcomeExplained /\ Step!OutcomeExplained

\* A session does not stay pending or running for ever, but for the causes named
\* there (ADReconSessionViewSet.create, ad_recon_task).
SessionSettles == part = "session" => Recon!SessionSettles
=============================================================================
