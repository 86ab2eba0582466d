----------------------------- MODULE ToolsProofs -----------------------------
(***************************************************************************)
(* What is true of the tasks that run other programs for any ports, names, *)
(* findings and images of the worker: the reconnaissance session, the      *)
(* steps of an ADCS session, and the tools of one host.  Each part has an  *)
(* inductive invariant of its own; the theorems about the three together   *)
(* are at the end.                                                         *)
(***************************************************************************)
EXTENDS MCTools, Sequences, WellFoundedInduction, TLAPS

-----------------------------------------------------------------------------
(* A reconnaissance session.                                               *)

\* The phases of the session's scope, and those of them before p.
Scope == {p \in Recon!Phases : Recon!Runs(p)}
Behind(p) == {q \in Recon!Phases : q < p /\ Recon!Runs(q)}

\* While no failure is on record the task has noted exactly the phases behind it, and
\* always the row has those of them that saved something; a row that says complete has
\* all of the scope, and each cause leaves its own trace in the row: of what was made
\* ready nothing, unreachable the first phase alone, an error or an unbound name
\* nothing of the phase they came in.
ReconInv ==
    /\ Recon!TypeOK
    /\ stage \in {"asked", "refused", "queued", "prepare", "phases", "finalize"} => cause = "none"
    /\ stage # "done" => status \in {"pending", "running"}
    /\ stage \in {"asked", "queued", "prepare"} => saved = {} /\ ts = {} /\ phase = 0
    /\ stage = "phases" => ts = Behind(phase)
    /\ stage = "finalize" => ts = Scope /\ phase = 9 /\ 9 \notin saved
    /\ stage = "except" => cause # "none"
    /\ Recon!Kept
    /\ status = "complete" => saved = Scope
    /\ status = "failed" => cause # "none"
    /\ cause = "setup" => saved = {}
    /\ cause = "unreachable" => saved = {0}
    /\ cause = "error" => phase \notin saved
    /\ cause = "time" => soft = "raised"
    /\ cause = "unbound" => auth /\ ~re /\ 7 \notin saved

\* A session is created with nothing noted.
LEMMA ReconStarts == Recon!Init => ReconInv
<1> SUFFICES ASSUME Recon!Init PROVE ReconInv
  OBVIOUS
<1>1. Recon!TypeOK
  <2>1. phase \in Recon!Phases
    BY SMT DEF Recon!Init, Recon!Phases
  <2>2. saved \subseteq ts /\ ts \subseteq {p \in Recon!Phases : Recon!Runs(p)}
    BY DEF Recon!Init
  <2> QED  BY <2>1, <2>2 DEF Recon!Init, Recon!TypeOK, Recon!Stage, Recon!Cause
<1>2. Recon!Kept
  BY SMT DEF Recon!Init, Recon!Kept, Recon!Phases
<1> QED  BY <1>1, <1>2 DEF Recon!Init, ReconInv

\* The phases before the next one are those before this one, and this one if it
\* is of the scope; behind the last there is none.
LEMMA NextPhase ==
    ASSUME ReconInv, stage = "phases", Recon!Note
    PROVE  /\ phase # 9 => ts' = Behind(phase + 1)
           /\ phase = 9 => ts' = Scope
           /\ ts \subseteq ts' /\ ts' \subseteq Scope
<1>1. ts = Behind(phase) /\ phase \in 0 .. 9
  BY DEF ReconInv, Recon!TypeOK, Recon!Phases
<1>2. ts' = Behind(phase) \cup {q \in {phase} : Recon!Runs(q)}
  BY <1>1 DEF Recon!Note
<1>3. Behind(phase + 1) = Behind(phase) \cup {q \in {phase} : Recon!Runs(q)} \/ phase = 9
  BY <1>1, SMT DEF Behind, Recon!Phases
<1>4. phase = 9 => Scope = Behind(phase) \cup {q \in {phase} : Recon!Runs(q)}
  BY <1>1, SMT DEF Behind, Scope, Recon!Phases
<1>5. Behind(phase) \cup {q \in {phase} : Recon!Runs(q)} \subseteq Scope
  BY <1>1, SMT DEF Behind, Scope, Recon!Phases
<1> QED  BY <1>1, <1>2, <1>3, <1>4, <1>5

\* A phase that ends and raises nothing: if it has run something, the row gets what it
\* noted, but for the last phase and for one without a credential.
LEMMA PhaseEnds ==
    ASSUME ReconInv, stage = "phases", Recon!Note, Recon!GoOn,
           saved' \subseteq ts', saved \subseteq saved', users' \in BOOLEAN, re' \in BOOLEAN,
           Recon!Runs(phase) => phase \in saved' \/ phase = 9 \/ (phase = 5 /\ ~auth),
           phase = 9 => saved' = saved
    PROVE  ReconInv'
<1>1. cause = "none" /\ status \in {"pending", "running"} /\ phase \in 0 .. 9
  BY DEF ReconInv, Recon!TypeOK, Recon!Phases
<1>2. auth' = auth /\ status' = status /\ soft' = soft /\ cause' = cause
  BY DEF Recon!GoOn
<1>3. Scope' = Scope
  BY <1>2 DEF Scope, Recon!Runs
<1>4. phase # 9 => stage' = "phases" /\ phase' = phase + 1
  BY DEF Recon!GoOn
<1>5. phase = 9 => stage' = "finalize" /\ phase' = 9
  BY DEF Recon!GoOn
<1>6. phase # 9 => (Behind(phase))' = Behind(phase + 1)
  BY <1>2, <1>4 DEF Behind, Recon!Runs
<1>7. phase # 9 => ts' = (Behind(phase))'
  BY <1>6, NextPhase
<1>8. phase = 9 => ts' = Scope' /\ 9 \notin saved'
  <2>1. saved \subseteq Behind(phase)
    BY DEF ReconInv, Recon!TypeOK
  <2>2. 9 \notin Behind(9)
    BY SMT DEF Behind
  <2> QED  BY <1>3, <2>1, <2>2, NextPhase
<1>9. Recon!TypeOK'
  <2>1. ts' \subseteq {p \in Recon!Phases : Recon!Runs(p)}'
    BY <1>3, NextPhase DEF Scope
  <2>2. phase' \in Recon!Phases /\ stage' \in Recon!Stage
    BY <1>1, <1>4, <1>5, SMT DEF Recon!Phases, Recon!Stage
  <2> QED  BY <2>1, <2>2, <1>2 DEF ReconInv, Recon!TypeOK
<1>10. Recon!Kept'
  <2> SUFFICES ASSUME NEW p \in Recon!Phases, p < phase', Recon!Runs(p)'
               PROVE  p \in saved' \/ (p = 5 /\ ~auth')
    BY DEF Recon!Kept
  <2>1. Recon!Runs(p)
    BY <1>2 DEF Recon!Runs
  <2>2. p < phase \/ (p = phase /\ phase # 9)
    BY <1>1, <1>4, <1>5, SMT DEF Recon!Phases
  <2>3. p < phase => p \in saved \/ (p = 5 /\ ~auth)
    BY <2>1 DEF ReconInv, Recon!Kept
  <2> QED  BY <1>2, <2>1, <2>2, <2>3
<1> QED
  BY <1>1, <1>2, <1>4, <1>5, <1>7, <1>8, <1>9, <1>10 DEF ReconInv

\* A phase that raises: it has noted its tools, its row has some of them.
LEMMA RaisesInPhase ==
    ASSUME ReconInv, stage = "phases", Recon!Note, NEW why \in {"unreachable", "error", "unbound"},
           Recon!Raise(why), saved' \subseteq ts', saved \subseteq saved', users' \in BOOLEAN, re' = re,
           why = "unreachable" => saved' = {0},
           why = "error" => phase \notin saved',
           why = "unbound" => auth /\ ~re /\ 7 \notin saved'
    PROVE  ReconInv'
<1>1. cause = "none" /\ status \in {"pending", "running"} /\ phase \in 0 .. 9
  BY DEF ReconInv, Recon!TypeOK, Recon!Phases
<1>2. /\ auth' = auth /\ status' = status /\ soft' = soft /\ cause' = why /\ phase' = phase
      /\ stage' = "except"
  BY DEF Recon!Raise
<1>3. Recon!TypeOK'
  <2>1. ts' \subseteq {p \in Recon!Phases : Recon!Runs(p)}'
    BY <1>2, NextPhase DEF Scope, Recon!Runs
  <2>2. stage' \in Recon!Stage /\ cause' \in Recon!Cause
    BY <1>2 DEF Recon!Stage, Recon!Cause
  <2> QED  BY <2>1, <2>2, <1>2 DEF ReconInv, Recon!TypeOK
<1>4. Recon!Kept'
  BY <1>2 DEF ReconInv, Recon!Kept, Recon!Runs
<1> QED  BY <1>1, <1>2, <1>3, <1>4 DEF ReconInv

\* What changes neither the row's tools nor the phase leaves what was kept.
LEMMA KeptStays ==
    ASSUME Recon!Kept, auth' = auth, phase' = phase, saved \subseteq saved'
    PROVE  Recon!Kept' /\ Scope' = Scope /\ (Behind(phase))' = Behind(phase)
BY DEF Recon!Kept, Recon!Runs, Scope, Behind

\* Every step of the request, of the task, and of what stops them.
LEMMA ReconSteps == ReconInv /\ [Recon!Next]_session => ReconInv'
<1> SUFFICES ASSUME ReconInv, [Recon!Next]_session PROVE ReconInv'
  OBVIOUS
<1>0. Behind(0) = {}
  BY SMT DEF Behind, Recon!Phases
<1>1. CASE Recon!Dispatch \/ Recon!DispatchRaises
  <2>1. /\ UNCHANGED <<auth, status, users, saved, ts, phase, re, soft, cause>>
        /\ stage = "asked" /\ stage' \in {"queued", "refused"}
    BY <1>1 DEF Recon!Dispatch, Recon!DispatchRaises, Recon!row
  <2>2. Recon!Kept'
    BY <2>1, KeptStays DEF ReconInv
  <2>3. Recon!TypeOK'
    BY <2>1 DEF ReconInv, Recon!TypeOK, Recon!Stage, Recon!Runs
  <2> QED  BY <2>1, <2>2, <2>3 DEF ReconInv
<1>2. CASE Recon!Start
  <2>1. Recon!TypeOK'
    BY <1>2 DEF Recon!Start, ReconInv, Recon!TypeOK, Recon!Stage, Recon!Runs
  <2>2. Recon!Kept'
    BY <1>2, KeptStays DEF Recon!Start, ReconInv
  <2> QED  BY <1>2, <2>1, <2>2 DEF Recon!Start, ReconInv
<1>3. CASE Recon!Prepare
  <2>1. /\ UNCHANGED <<auth, status, users, saved, ts, phase, re, soft>>
        /\ stage = "prepare"
        /\ \/ stage' = "phases" /\ cause' = cause
           \/ stage' = "except" /\ cause' = "setup"
    BY <1>3 DEF Recon!Prepare, Recon!Raise
  <2>2. Recon!Kept' /\ (Behind(phase))' = Behind(phase)
    BY <2>1, KeptStays DEF ReconInv
  <2>3. Recon!TypeOK'
    BY <2>1 DEF ReconInv, Recon!TypeOK, Recon!Stage, Recon!Cause, Recon!Runs
  <2>4. phase = 0 /\ ts = {} /\ saved = {}
    BY <2>1 DEF ReconInv
  <2>5. ts' = (Behind(phase))'
    BY <1>0, <2>1, <2>2, <2>4
  <2> QED  BY <2>1, <2>2, <2>3, <2>4, <2>5 DEF ReconInv
<1>4. /\ auth \in BOOLEAN /\ users \in BOOLEAN /\ re \in BOOLEAN /\ saved \subseteq ts
      /\ stage = "phases" => ts = Behind(phase)
  BY DEF ReconInv, Recon!TypeOK
<1>5. ASSUME stage = "phases", Recon!Note, Recon!GoOn, phase # 9, Recon!Runs(phase),
             saved' = saved \cup ts', users' \in BOOLEAN, re' \in BOOLEAN
      PROVE  ReconInv'
  <2>1. saved' \subseteq ts' /\ saved \subseteq saved'
    BY <1>4, <1>5, NextPhase
  <2>2. phase \in saved'
    BY <1>5 DEF Recon!Note
  <2> QED  BY <1>5, <2>1, <2>2, PhaseEnds
<1>6. ASSUME stage = "phases", Recon!Note, Recon!GoOn, saved' = saved,
             ~Recon!Runs(phase) \/ phase = 9 \/ (phase = 5 /\ ~auth),
             users' \in BOOLEAN, re' \in BOOLEAN
      PROVE  ReconInv'
  <2>1. saved' \subseteq ts' /\ saved \subseteq saved'
    BY <1>4, <1>6, NextPhase
  <2> QED  BY <1>6, <2>1, PhaseEnds
<1>7. ASSUME stage = "phases", phase # 9, Recon!Save, Recon!GoOn, users' \in BOOLEAN, re' \in BOOLEAN
      PROVE  ReconInv'
  BY <1>5, <1>6, <1>7 DEF Recon!Save
<1>8. CASE Recon!Connectivity
  <2>1. stage = "phases" /\ phase = 0 /\ Recon!Save /\ users' = users /\ re' = re
    BY <1>8 DEF Recon!Connectivity, Recon!At
  <2>2. ASSUME Recon!Raise("unreachable") PROVE ReconInv'
    <3>1. Recon!Runs(0)
      BY SMT DEF Recon!Runs
    <3>2. Recon!Note /\ ts = {} /\ ts' = {0} /\ saved' = saved \cup ts'
      BY <1>0, <1>4, <2>1, <3>1 DEF Recon!Save, Recon!Note
    <3>3. saved' = {0}
      BY <1>4, <3>2
    <3> QED  BY <1>4, <2>1, <2>2, <3>2, <3>3, RaisesInPhase
  <2>3. ASSUME Recon!GoOn PROVE ReconInv'
    BY <1>4, <1>7, <2>1, <2>3
  <2> QED  BY <1>8, <2>2, <2>3 DEF Recon!Connectivity
<1>9. CASE Recon!Ldap
  BY <1>4, <1>7, <1>9 DEF Recon!Ldap, Recon!At, Recon!ParsedUsers
<1>10. CASE Recon!PassiveHunting
  BY <1>4, <1>7, <1>10 DEF Recon!PassiveHunting, Recon!At
<1>11. CASE Recon!AttackSurface
  BY <1>4, <1>7, <1>11 DEF Recon!AttackSurface, Recon!At
<1>12. CASE Recon!BloodHound \/ Recon!Escalation \/ Recon!Services
  BY <1>4, <1>7, <1>12 DEF Recon!BloodHound, Recon!Escalation, Recon!Services, Recon!At
<1>13. CASE Recon!Harvest
  <2>1. stage = "phases" /\ phase = 5 /\ Recon!Note /\ Recon!GoOn /\ users' = users /\ re' = re
        /\ saved' = IF auth THEN saved \cup ts' ELSE saved
    BY <1>13 DEF Recon!Harvest, Recon!At
  <2>2. Recon!Runs(phase)
    BY <2>1, SMT DEF Recon!Runs
  <2> QED  BY <1>4, <1>5, <1>6, <2>1, <2>2
<1>14. CASE Recon!Responder
  BY <1>4, <1>6, <1>14 DEF Recon!Responder, Recon!At
<1>15. CASE Recon!Adcs
  <2>1. stage = "phases" /\ phase = 7 /\ users' = users /\ re' = re
    BY <1>15 DEF Recon!Adcs, Recon!At
  <2>2. CASE Recon!Save /\ Recon!GoOn
    BY <1>4, <1>7, <2>1, <2>2
  <2>3. CASE auth /\ ~re /\ Recon!Note /\ saved' = saved /\ Recon!Raise("unbound")
    <3>1. 7 \notin Behind(7)
      BY SMT DEF Behind
    <3>2. saved' \subseteq ts' /\ saved \subseteq saved' /\ 7 \notin saved'
      BY <1>4, <2>1, <2>3, <3>1, NextPhase
    <3> QED  BY <1>4, <2>1, <2>3, <3>2, RaisesInPhase
  <2> QED  BY <1>15, <2>2, <2>3 DEF Recon!Adcs
<1>16. CASE Recon!PhaseRaises
  <2>1. stage = "phases" /\ Recon!Note /\ saved' = saved /\ Recon!Raise("error") /\ re' = re
    BY <1>16 DEF Recon!PhaseRaises
  <2>2. users' \in BOOLEAN
    BY <1>4, <1>16 DEF Recon!PhaseRaises
  <2>3. phase \notin Behind(phase)
    <3>1. phase \in 0 .. 9
      BY DEF ReconInv, Recon!TypeOK, Recon!Phases
    <3> QED  BY <3>1, SMT DEF Behind
  <2>4. saved' \subseteq ts' /\ saved \subseteq saved' /\ phase \notin saved'
    BY <1>4, <2>1, <2>3, NextPhase
  <2> QED  BY <2>1, <2>2, <2>4, RaisesInPhase
<1>17. CASE Recon!FinalizeRaises
  <2>1. /\ UNCHANGED <<auth, status, users, saved, ts, phase, re, soft>>
        /\ stage = "finalize" /\ stage' = "except" /\ cause' = "error"
    BY <1>17 DEF Recon!FinalizeRaises, Recon!Raise
  <2>2. Recon!Kept'
    BY <2>1, KeptStays DEF ReconInv
  <2>3. Recon!TypeOK'
    BY <2>1 DEF ReconInv, Recon!TypeOK, Recon!Stage, Recon!Cause, Recon!Runs
  <2>4. phase = 9 /\ 9 \notin saved /\ status \in {"pending", "running"}
    BY <2>1 DEF ReconInv
  <2> QED  BY <2>1, <2>2, <2>3, <2>4 DEF ReconInv
<1>18. CASE Recon!Finalize
  <2>1. /\ UNCHANGED <<auth, users, ts, phase, re, soft, cause>> /\ saved' = ts
        /\ stage = "finalize" /\ stage' = "done" /\ status' = "complete"
    BY <1>18 DEF Recon!Finalize
  <2>2. Recon!Kept' /\ Scope' = Scope
    BY <1>4, <2>1, KeptStays DEF ReconInv
  <2>3. cause = "none" /\ ts = Scope
    BY <2>1 DEF ReconInv
  <2>4. Recon!TypeOK'
    BY <2>1, <2>2 DEF ReconInv, Recon!TypeOK, Recon!Stage, Scope
  <2> QED  BY <2>1, <2>2, <2>3, <2>4 DEF ReconInv
<1>19. CASE Recon!Fail
  <2>1. /\ UNCHANGED <<auth, users, saved, ts, phase, re, soft, cause>>
        /\ stage = "except" /\ stage' = "done" /\ status' = "failed"
    BY <1>19 DEF Recon!Fail
  <2>2. Recon!Kept' /\ Scope' = Scope
    BY <2>1, KeptStays DEF ReconInv
  <2>3. Recon!TypeOK'
    BY <2>1, <2>2 DEF ReconInv, Recon!TypeOK, Recon!Stage, Scope
  <2> QED  BY <2>1, <2>2, <2>3 DEF ReconInv
<1>20. CASE Recon!SoftLimit
  <2>1. /\ UNCHANGED <<auth, status, users, saved, ts, phase, re>> /\ soft' = "raised"
        /\ \/ stage \in {"prepare", "phases", "finalize"} /\ stage' = "except" /\ cause' = "time"
           \/ stage = "except" /\ stage' = "dead" /\ cause' = cause
    BY <1>20 DEF Recon!SoftLimit, Recon!row
  <2>2. Recon!Kept' /\ Scope' = Scope
    BY <2>1, KeptStays DEF ReconInv
  <2>3. Recon!TypeOK'
    BY <2>1, <2>2 DEF ReconInv, Recon!TypeOK, Recon!Stage, Recon!Cause, Scope
  <2> QED  BY <2>1, <2>2, <2>3 DEF ReconInv
<1>21. CASE Recon!SoftLimitSwallowed
  <2>1. /\ UNCHANGED <<auth, status, users, saved, ts, stage, phase, re, cause>>
        /\ soft' = "swallowed" /\ stage = "phases"
    BY <1>21 DEF Recon!SoftLimitSwallowed, Recon!row, Recon!At
  <2>2. Recon!Kept' /\ Scope' = Scope /\ (Behind(phase))' = Behind(phase)
    BY <2>1, KeptStays DEF ReconInv
  <2>3. Recon!TypeOK'
    BY <2>1, <2>2 DEF ReconInv, Recon!TypeOK, Scope
  <2> QED  BY <2>1, <2>2, <2>3 DEF ReconInv
<1>22. CASE Recon!TaskDies
  <2>1. /\ UNCHANGED <<auth, status, users, saved, ts, phase, re, soft, cause>>
        /\ stage \in {"queued", "prepare", "phases", "finalize", "except"} /\ stage' = "dead"
    BY <1>22 DEF Recon!TaskDies, Recon!row
  <2>2. Recon!Kept' /\ Scope' = Scope
    BY <2>1, KeptStays DEF ReconInv
  <2>3. Recon!TypeOK'
    BY <2>1, <2>2 DEF ReconInv, Recon!TypeOK, Recon!Stage, Scope
  <2> QED  BY <2>1, <2>2, <2>3 DEF ReconInv
<1>23. CASE UNCHANGED session
  <2>1. UNCHANGED <<auth, status, users, saved, ts, stage, phase, re, soft, cause>>
    BY <1>23 DEF session
  <2>2. Recon!Kept' /\ Scope' = Scope /\ (Behind(phase))' = Behind(phase)
    BY <2>1, KeptStays DEF ReconInv
  <2>3. Recon!TypeOK'
    BY <2>1, <2>2 DEF ReconInv, Recon!TypeOK, Scope
  <2> QED  BY <2>1, <2>2, <2>3 DEF ReconInv
<1> QED
  BY <1>1, <1>2, <1>3, <1>8, <1>9, <1>10, <1>11, <1>12, <1>13, <1>14, <1>15, <1>16, <1>17, <1>18,
     <1>19, <1>20, <1>21, <1>22, <1>23 DEF Recon!Next, Recon!Progress

-----------------------------------------------------------------------------
(* The steps of an ADCS session.                                           *)

\* A technique has at least one step.
LEMMA ChainLength ==
    \A t \in DOMAIN Step!Chain : Len(Step!Chain[t]) \in Nat /\ Len(Step!Chain[t]) > 0
BY SMTT(60) DEF Step!Chain, Step!OnBehalf, Step!OnTemplate, Step!OnIssue, Step!OnRelay,
   Step!OnRequest, Step!Destructive, Step!Background, Step!Plain

\* What the templates have in common: a step that starts a server is never the last.
LEMMA Templates ==
    ASSUME NEW t \in DOMAIN Step!Chain, NEW n \in 1 .. Len(Step!Chain[t])
    PROVE  Step!Chain[t][n].background => n < Len(Step!Chain[t])
BY SMTT(60) DEF Step!Chain, Step!OnBehalf, Step!OnTemplate, Step!OnIssue, Step!OnRelay,
   Step!OnRequest, Step!Destructive, Step!Background, Step!Plain

\* What a session says of itself agrees with what its steps say.
StepsInv ==
    /\ Step!TypeOK
    /\ ended \in Seq({"completed", "failed"})
    /\ Step!OutcomeExplained

\* A session begins with its first step to run.
LEMMA StepsStart == Step!Init => StepsInv
<1> SUFFICES ASSUME Step!Init PROVE StepsInv
  OBVIOUS
<1>1. /\ technique \in DOMAIN Step!Chain /\ wizard = "running" /\ through = 0
      /\ server = FALSE /\ ended = <<>>
  BY DEF Step!Init
<1>2. \A t \in DOMAIN Step!Chain : Len(Step!Chain[t]) \in Nat /\ Len(Step!Chain[t]) > 0
  BY ChainLength
<1>3. Step!Total \in Nat /\ 0 < Step!Total
  BY <1>1, <1>2 DEF Step!Total
<1>4. through \in 0 .. Step!Total /\ Len(ended) = through
  BY <1>1, <1>3, SMT
<1>5. ended \in Seq({"completed", "failed"}) /\ DOMAIN ended = {}
  BY <1>1, SMT
<1> QED  BY <1>1, <1>3, <1>4, <1>5 DEF StepsInv, Step!TypeOK, Step!OutcomeExplained

\* A step that ends: it is the one behind all others, the only one that can have
\* failed, and it has told the session so.
LEMMA StepEnds ==
    ASSUME StepsInv, wizard = "running", through < Step!Total, technique' = technique,
           NEW failed \in BOOLEAN, Step!EndStep(failed),
           server' \in BOOLEAN,
           server' => failed /\ through + 1 # Step!Total
    PROVE  StepsInv'
<1>1. /\ technique \in DOMAIN Step!Chain /\ Step!Total \in Nat /\ through \in Nat
      /\ Len(ended) = through /\ ended \in Seq({"completed", "failed"})
  <2>1. technique \in DOMAIN Step!Chain /\ through \in 0 .. Step!Total
    BY DEF StepsInv, Step!TypeOK
  <2>2. \A t \in DOMAIN Step!Chain : Len(Step!Chain[t]) \in Nat
    BY ChainLength
  <2>3. Step!Total \in Nat
    BY <2>1, <2>2 DEF Step!Total
  <2> QED  BY <2>1, <2>3, SMT DEF StepsInv, Step!TypeOK
<1>2. Step!Total' = Step!Total /\ Step!Chain[technique'] = Step!Chain[technique]
  BY DEF Step!Total
<1>3. through' = through + 1 /\ wizard' = Step!StatusAfter(failed)
  BY DEF Step!EndStep
<1>4. through' \in 0 .. Step!Total /\ through' > 0
  BY <1>1, <1>3, SMT
<1>5. /\ ended' \in Seq({"completed", "failed"}) /\ Len(ended') = through'
      /\ DOMAIN ended' = 1 .. through'
      /\ ended'[through'] = IF failed THEN "failed" ELSE "completed"
      /\ \A n \in 1 .. through : ended'[n] = ended[n]
  <2>1. ended' = Append(ended, IF failed THEN "failed" ELSE "completed")
    BY DEF Step!EndStep
  <2> QED  BY <1>1, <1>3, <2>1, SMT
<1>6. \A n \in 1 .. through : ended[n] # "failed"
  <2>1. DOMAIN ended = 1 .. through
    BY <1>1
  <2> QED  BY <2>1 DEF StepsInv, Step!OutcomeExplained
<1>7. /\ wizard' \in {"running", "awaiting_confirm", "completed", "failed", "cancelled"}
      /\ wizard' \in {"running", "awaiting_confirm"} => through + 1 # Step!Total /\ ~failed
      /\ wizard' = "failed" => failed
      /\ failed /\ through + 1 # Step!Total => wizard' = "failed"
      /\ wizard' = "completed" => through + 1 = Step!Total /\ ~(failed /\ Step!Now.destructive)
      /\ failed => wizard' \in {"failed", "completed"}
  BY <1>3 DEF Step!StatusAfter
<1>8. wizard' \in {"running", "awaiting_confirm"} => through' < Step!Total
  BY <1>1, <1>3, <1>7, SMT
<1>9. Step!TypeOK'
  <2>1. \A i \in DOMAIN ended' : ended'[i] \in {"completed", "failed"}
    BY <1>5
  <2> QED  BY <1>1, <1>2, <1>4, <1>5, <1>7, <1>8, <2>1 DEF Step!TypeOK
<1>10. ASSUME NEW n \in DOMAIN ended', ended'[n] = "failed"
       PROVE  /\ n = through'
              /\ \/ wizard' = "failed"
                 \/ wizard' = "completed" /\ ~Step!Chain[technique'][n].destructive
  <2>1. n \in 1 .. through + 1
    BY <1>3, <1>5, <1>10
  <2>2. n = through + 1 \/ n \in 1 .. through
    BY <1>1, <2>1, SMT
  <2>3. n = through'
    BY <1>3, <1>5, <1>6, <1>10, <2>2
  <2>4. failed
    BY <1>5, <1>10, <2>3
  <2>5. wizard' = "completed" => ~Step!Chain[technique'][n].destructive
    BY <1>2, <1>3, <1>7, <2>3, <2>4 DEF Step!Now
  <2> QED  BY <1>7, <2>3, <2>4, <2>5
<1>11. server' \/ wizard' = "failed" => through' > 0 /\ ended'[through'] = "failed" /\ wizard' = "failed"
  BY <1>4, <1>5, <1>7
<1>12. wizard' = "completed" => through' = Step!Total'
  BY <1>2, <1>3, <1>7
<1>13. Step!OutcomeExplained'
  BY <1>10, <1>11, <1>12 DEF Step!OutcomeExplained
<1> QED  BY <1>5, <1>9, <1>13 DEF StepsInv

\* A session goes on, or waits, only when no step has failed and no server is left.
LEMMA StepsGoOn == StepsInv /\ [Step!Next]_steps => StepsInv'
<1> SUFFICES ASSUME StepsInv, [Step!Next]_steps PROVE StepsInv'
  OBVIOUS
<1>1. wizard = "running" => server = FALSE
  BY DEF StepsInv, Step!TypeOK, Step!OutcomeExplained
<1>2. ASSUME wizard = "running", through < Step!Total
      PROVE  Step!Now.background => through + 1 # Step!Total
  <2>1. technique \in DOMAIN Step!Chain /\ through \in 0 .. Step!Total
    BY DEF StepsInv, Step!TypeOK
  <2>2. Len(Step!Chain[technique]) \in Nat
    BY <2>1, ChainLength
  <2>3. through + 1 \in 1 .. Len(Step!Chain[technique])
    BY <1>2, <2>1, <2>2, SMT DEF Step!Total
  <2>4. Step!Chain[technique][through + 1].background => through + 1 < Len(Step!Chain[technique])
    BY <2>1, <2>3, Templates
  <2>5. through + 1 < Len(Step!Chain[technique]) => through + 1 # Len(Step!Chain[technique])
    BY <2>1, <2>2, SMT
  <2> QED  BY <2>4, <2>5 DEF Step!Now, Step!Total
<1>3. CASE Step!RunCommand \/ Step!ServerEnds
  <2>1. PICK failed \in BOOLEAN : Step!EndStep(failed)
    BY <1>3 DEF Step!RunCommand, Step!ServerEnds
  <2>2. wizard = "running" /\ through < Step!Total /\ technique' = technique /\ server' = server
    BY <1>3 DEF Step!RunCommand, Step!ServerEnds
  <2>3. server' = FALSE
    BY <1>1, <2>2
  <2> QED  BY <2>1, <2>2, <2>3, StepEnds
<1>4. CASE Step!ServerOutlivesStep
  <2>1. /\ wizard = "running" /\ through < Step!Total /\ technique' = technique /\ server' = TRUE
        /\ Step!EndStep(TRUE) /\ Step!Now.background
    BY <1>4 DEF Step!ServerOutlivesStep
  <2>2. through + 1 # Step!Total
    BY <1>2, <2>1
  <2> QED  BY <2>1, <2>2, StepEnds
<1>5. CASE Step!Answer
  <2>1. /\ wizard = "awaiting_confirm" /\ wizard' \in {"running", "cancelled"}
        /\ technique' = technique /\ through' = through /\ server' = server /\ ended' = ended
    BY <1>5 DEF Step!Answer
  <2>2. Step!Total' = Step!Total
    BY <2>1 DEF Step!Total
  <2>3. Step!TypeOK'
    BY <2>1, <2>2 DEF StepsInv, Step!TypeOK
  <2>4. ~server /\ \A n \in DOMAIN ended : ended[n] # "failed"
    BY <2>1 DEF StepsInv, Step!TypeOK, Step!OutcomeExplained
  <2>5. Step!OutcomeExplained'
    BY <2>1, <2>4 DEF Step!OutcomeExplained
  <2> QED  BY <2>1, <2>3, <2>5 DEF StepsInv
<1>6. CASE UNCHANGED steps
  <2>1. Step!Total' = Step!Total
    BY <1>6 DEF steps, Step!Total
  <2>2. Step!TypeOK'
    BY <1>6, <2>1 DEF steps, StepsInv, Step!TypeOK
  <2> QED  BY <1>6, <2>1, <2>2 DEF steps, StepsInv, Step!OutcomeExplained
<1> QED  BY <1>3, <1>4, <1>5, <1>6 DEF Step!Next

-----------------------------------------------------------------------------
(* What the tools of a host return.                                        *)

Versions == [port : Ports \cup {NoPort, Snmp}, old : BOOLEAN]

\* The tools that may take a file an earlier scan has left for their own.
Careless == {"nuclei", "nmap_vuln", "searchsploit", "nikto", "msf", "cms", "tls"}

\* A finding has its cause: it is of this scan, by a tool whose file was left, or an
\* answer about a version that came that way.
Explained(f) ==
    f.old => \/ f.by \in left \cap Careless
             \/ f.by = "nvd" /\ left \cap {"httpx", "msf", "cms", "tls"} # {}

\* What the host's own rows are; a version of an earlier scan came with httpx's file.
HostRows ==
    /\ open \subseteq Ports /\ named \in [Ports -> ServiceNames]
    /\ versions \subseteq Versions
    /\ \A v \in versions : v.port \in open \/ v.old
    /\ \A v \in versions : v.old => "httpx" \in left
    /\ endpoints \subseteq open

\* The tools by name.
LEMMA ToolNames ==
    /\ DOMAIN Tool = {"crawl", "nuclei", "nmap_vuln", "searchsploit", "getsploit", "nikto", "msf",
                      "cms", "service_enum", "smb", "netexec", "tls", "snmp", "nfs", "ldap"}
    /\ DOMAIN Rank = DOMAIN Tool \cup {"nvd"}
BY SMT DEF Tool, Rank

\* Which files each tool reads, and what it can be about: a port of the host, the
\* SNMP port, or none.
LEMMA ToolFacts ==
    ASSUME HostRows, NEW t \in DOMAIN Tool
    PROVE  /\ Tool[t].about \subseteq Ports \cup {NoPort, Snmp}
           /\ Tool[t].reads \in {"file", "spool"} => t \in Careless
<1> DEFINE All == Ports \cup {NoPort, Snmp}
<1>1. open \subseteq All /\ endpoints \subseteq All /\ VersionPorts \subseteq All
  BY DEF HostRows, Versions, VersionPorts
<1>2. \A names : Called(names) \subseteq All
  BY <1>1 DEF Called
<1>3. {} \subseteq All /\ {NoPort} \subseteq All /\ {Snmp} \subseteq All /\ open \cup VersionPorts \subseteq All
  BY <1>1
<1> HIDE DEF All
<1>4. Crawl.about \subseteq All /\ Crawl.reads = "answer"
  BY <1>3 DEF Crawl
<1>5. Nuclei.about \subseteq All /\ NmapVuln.about \subseteq All /\ Nikto.about \subseteq All /\ Cms.about \subseteq All
  BY <1>1 DEF Nuclei, NmapVuln, Nikto, Cms
<1>6. /\ Searchsploit.about \subseteq All
      /\ Getsploit.about \subseteq All /\ Getsploit.reads = "answer"
  BY <1>1, <1>3 DEF Searchsploit, Getsploit
<1>7. Msf.about \subseteq All /\ Sslscan.about \subseteq All
  BY <1>2 DEF Msf, Sslscan
<1>8. /\ ServiceEnum.about \subseteq All /\ ServiceEnum.reads = "answer"
      /\ Enum4linux.about \subseteq All /\ Enum4linux.reads = "answer"
      /\ Netexec.about \subseteq All /\ Netexec.reads = "answer"
      /\ Showmount.about \subseteq All /\ Showmount.reads = "answer"
      /\ LdapSearch.about \subseteq All /\ LdapSearch.reads = "answer"
  BY <1>2 DEF ServiceEnum, Enum4linux, Netexec, Showmount, LdapSearch
<1>9. SnmpWalk.about \subseteq All /\ SnmpWalk.reads = "answer"
  BY <1>3 DEF SnmpWalk
<1>10. CASE t \in Careless
  <2>1. Tool[t].about \subseteq All
    BY <1>5, <1>6, <1>7, <1>10 DEF Tool, Careless
  <2> QED  BY <1>10, <2>1 DEF All
<1>11. CASE t \notin Careless
  <2>1. t \in {"crawl", "getsploit", "service_enum", "smb", "netexec", "snmp", "nfs", "ldap"}
    BY <1>11, ToolNames DEF Careless
  <2>2. Tool[t].about \subseteq All /\ Tool[t].reads = "answer"
    BY <1>4, <1>6, <1>8, <1>9, <2>1 DEF Tool
  <2> QED  BY <2>2 DEF All
<1> QED  BY <1>10, <1>11

\* What a tool says is its own, about what it may be about, and has its cause.
LEMMA SaysFacts ==
    ASSUME HostRows, NEW t \in DOMAIN Tool, NEW findings \in Says(t)
    PROVE  \A f \in findings : f \in Findings /\ f.by = t /\ Explained(f)
<1>1. Tool[t].about \subseteq Ports \cup {NoPort, Snmp} /\ t \in DOMAIN Rank
  BY ToolFacts, ToolNames
<1>2. ASSUME NEW a \in Fresh(t), NEW f \in a
      PROVE  f \in Findings /\ f.by = t /\ f.old = FALSE
  <2>1. PICK v \in Vulns, p \in Tool[t].about : a = {Finding(v, p, t, FALSE)}
    BY <1>2 DEF Fresh, Finding
  <2>2. f = [vuln |-> v, port |-> p, by |-> t, old |-> FALSE] /\ p \in Ports \cup {NoPort, Snmp}
    BY <1>1, <1>2, <2>1 DEF Finding
  <2> QED  BY <1>1, <2>2 DEF Findings
<1>3. ASSUME NEW a \in Earlier(t), NEW f \in a
      PROVE  f \in Findings /\ f.by = t
  <2>1. PICK v \in Vulns, p \in Ports : a = {Finding(v, p, t, TRUE)}
    BY <1>3 DEF Earlier, Finding
  <2>2. f = [vuln |-> v, port |-> p, by |-> t, old |-> TRUE] /\ p \in Ports \cup {NoPort, Snmp}
    BY <1>1, <1>3, <2>1 DEF Finding
  <2> QED  BY <1>1, <2>2 DEF Findings
<1>4. ASSUME NEW a \in Fresh(t), NEW b \in Earlier(t) \cup {{}}, findings = a \cup b,
             t \in left, Tool[t].reads \in {"file", "spool"}
      PROVE  \A f \in findings : f \in Findings /\ f.by = t /\ Explained(f)
  <2>1. t \in left \cap Careless
    BY <1>4, ToolFacts
  <2> QED  BY <1>2, <1>3, <1>4, <2>1 DEF Explained
<1>5. ASSUME findings \in Fresh(t)
      PROVE  \A f \in findings : f \in Findings /\ f.by = t /\ Explained(f)
  BY <1>2, <1>5 DEF Explained
<1>6. CASE t \in left /\ Tool[t].reads = "spool"
  <2>1. PICK a \in Fresh(t), b \in Earlier(t) : findings = a \cup b
    BY <1>6 DEF Says
  <2> QED  BY <1>4, <1>6, <2>1
<1>7. CASE t \in left /\ Tool[t].reads = "file"
  <2>1. PICK a \in Fresh(t), b \in Earlier(t) \cup {{}} : findings = a \cup b
    BY <1>7 DEF Says
  <2> QED  BY <1>4, <1>7, <2>1
<1>8. CASE ~(t \in left /\ Tool[t].reads = "spool") /\ ~(t \in left /\ Tool[t].reads = "file")
  <2>1. findings \in Fresh(t)
    BY <1>8 DEF Says
  <2> QED  BY <1>5, <2>1
<1> QED  BY <1>6, <1>7, <1>8

\* NVD answers with CVEs, each once, about a version it was asked about.
LEMMA AnswersFacts ==
    ASSUME NEW asked \in SUBSET Versions, NEW nvd \in Answers(asked)
    PROVE  /\ \A f \in nvd : /\ f \in Findings /\ f.by = "nvd" /\ f.vuln \in CVEs
                             /\ \E v \in asked : f.old = v.old
           /\ \A f, g \in nvd : f.vuln = g.vuln => f = g
<1>0. PICK S \in SUBSET CVEs : nvd \in {{Finding(c, a[c].port, "nvd", a[c].old) : c \in S} : a \in [S -> asked]}
  BY DEF Answers, Query
<1>1. PICK a \in [S -> asked] : nvd = {Finding(c, a[c].port, "nvd", a[c].old) : c \in S}
  BY <1>0
<1>2. ASSUME NEW c \in S
      PROVE  LET f == Finding(c, a[c].port, "nvd", a[c].old) IN
               f \in Findings /\ f.by = "nvd" /\ f.vuln = c /\ f.old = a[c].old
  <2>1. a[c] \in asked /\ a[c].port \in Ports \cup {NoPort, Snmp} /\ a[c].old \in BOOLEAN
    BY <1>1, <1>2 DEF Versions
  <2>2. c \in Vulns /\ "nvd" \in DOMAIN Rank
    BY <1>1, VulnAssumption, ToolNames
  <2> QED  BY <2>1, <2>2 DEF Finding, Findings
<1>3. ASSUME NEW f \in nvd
      PROVE  /\ f \in Findings /\ f.by = "nvd" /\ f.vuln \in CVEs
             /\ \E v \in asked : f.old = v.old
  <2>1. PICK c \in S : f = Finding(c, a[c].port, "nvd", a[c].old)
    BY <1>1, <1>3
  <2> QED  BY <1>2, <2>1
<1>4. ASSUME NEW f \in nvd, NEW g \in nvd, f.vuln = g.vuln
      PROVE  f = g
  <2>1. PICK c \in S : f = Finding(c, a[c].port, "nvd", a[c].old)
    BY <1>1, <1>4
  <2>2. PICK d \in S : g = Finding(d, a[d].port, "nvd", a[d].old)
    BY <1>1, <1>4
  <2>3. c = d
    BY <1>2, <1>4, <2>1, <2>2
  <2> QED  BY <2>1, <2>2, <2>3
<1> QED  BY <1>3, <1>4

\* Each tool has a rank of its own.
LEMMA RankFacts ==
    /\ \A t \in DOMAIN Rank : Rank[t] \in Nat
    /\ \A t, u \in DOMAIN Rank : Rank[t] = Rank[u] => t = u
<1> DEFINE Who == <<"crawl", "nuclei", "nmap_vuln", "searchsploit", "getsploit", "nikto", "nvd", "msf",
                    "cms", "service_enum", "smb", "netexec", "tls", "snmp", "nfs", "ldap">>
<1>1. ASSUME NEW t \in DOMAIN Rank PROVE Rank[t] \in Nat /\ Who[Rank[t]] = t
  BY SMT DEF Rank
<1> HIDE DEF Who
<1> QED  BY <1>1

\* Deduplication keeps findings it is given, one for every key among them.
LEMMA DedupFacts ==
    ASSUME NEW F \in SUBSET Findings
    PROVE  /\ Dedup(F) \subseteq F
           /\ \A f \in F : \E g \in Dedup(F) : SameKey(f, g)
           /\ \A f, g \in Dedup(F) : SameKey(f, g) => f = g
<1>1. Dedup(F) \subseteq F
  BY DEF Dedup
<1> DEFINE Place(f) == 2 * Rank[f.by] + (IF f.old THEN 0 ELSE 1)
<1>2. \A f \in F : f.by \in DOMAIN Rank /\ f.old \in BOOLEAN /\ Rank[f.by] \in Nat
  BY RankFacts DEF Findings
<1>3. \A f \in F : Place(f) \in Nat
  BY <1>2, SMT
<1>4. ASSUME NEW f \in F, NEW g \in F, Before(g, f) PROVE Place(g) < Place(f)
  BY <1>2, <1>4, SMT DEF Before
<1>5. ASSUME NEW f \in F PROVE \E g \in Dedup(F) : SameKey(f, g)
  <2> DEFINE Keyed == {g \in F : SameKey(f, g)}
             Places == {Place(g) : g \in Keyed}
  <2>1. Places \subseteq Nat /\ Places # {}
    BY <1>3 DEF SameKey
  <2>2. PICK n \in Places : \A m \in Places : ~(m < n)
    <3>1. PICK n \in Places : \A m \in Places : <<m, n>> \notin OpToRel(<, Nat)
      BY <2>1, NatLessThanWellFounded, WFMin
    <3> QED  BY <3>1, <2>1 DEF OpToRel
  <2>3. PICK g \in Keyed : n = Place(g)
    BY <2>2
  <2>4. ASSUME NEW h \in F, SameKey(g, h), Before(h, g) PROVE FALSE
    <3>1. h \in Keyed
      BY <2>3, <2>4 DEF SameKey
    <3>2. Place(h) < Place(g)
      BY <1>4, <2>3, <2>4
    <3> QED  BY <2>2, <2>3, <3>1, <3>2
  <2>5. g \in Dedup(F)
    BY <2>3, <2>4 DEF Dedup
  <2> QED  BY <2>3, <2>5
<1>6. ASSUME NEW f \in Dedup(F), NEW g \in Dedup(F), SameKey(f, g) PROVE f = g
  <2>1. ~Before(f, g) /\ ~Before(g, f) /\ f \in F /\ g \in F
    <3>1. SameKey(g, f)
      BY <1>6 DEF SameKey
    <3> QED  BY <1>1, <1>6, <3>1 DEF Dedup
  <2>2. Rank[f.by] = Rank[g.by]
    BY <1>2, <2>1, SMT DEF Before
  <2>3. f.by = g.by
    BY <1>2, <2>1, <2>2, RankFacts
  <2>4. f.old = g.old
    BY <1>2, <2>1, <2>3 DEF Before
  <2>5. f \in Findings /\ g \in Findings
    BY <2>1
  <2> QED  BY <1>6, <2>3, <2>4, <2>5 DEF SameKey, Findings
<1> QED  BY <1>1, <1>5, <1>6

-----------------------------------------------------------------------------
(* The pipeline of a host.                                                 *)

Gathers == {"webcrawl", "vulnscan", "enumeration"}
Detecting == {"portscan", "analyze", "fingerprint", "webdetect", "technologies", "snmp"}

\* How far the pipeline is, and what then runs: nothing outside the gathers, NVD's
\* first pass in one of them, pictures only of endpoints.
Flow ==
    /\ enabled \in Images /\ left \subseteq enabled
    /\ step \in Detecting \cup Gathers \cup {"done", "raised"}
    /\ scanner \in 1 .. 4 /\ (step = "portscan" => scanner \in 1 .. 3)
    /\ running \subseteq enabled \cup {"nvd"}
    /\ step \notin Gathers => running = {}
    /\ "nvd" \in running => step = "vulnscan"
    /\ "screenshot" \in running => endpoints # {}
    /\ shots \subseteq endpoints
    /\ step \in Detecting => shots = {}
    /\ step = "portscan" => versions = {} /\ endpoints = {}

\* What has been found so far: nothing a tool returned is lost, what NVD answered with
\* is there, its first pass put each CVE there once, and everything has its cause.
Collected ==
    /\ found \subseteq Findings /\ result \subseteq Findings /\ answered \subseteq CVEs
    /\ found \subseteq returned /\ returned \subseteq Findings
    /\ step \in Detecting => found = {} /\ answered = {}
    /\ step # "done" => /\ returned \subseteq found /\ result = {}
                        /\ \A c \in answered : \E f \in found : f.vuln = c
    /\ step = "webcrawl" \/ "nvd" \in running => \A f \in found : f.by # "nvd"
    /\ \A f, g \in found : f.by = "nvd" /\ g.by = "nvd" /\ f.vuln = g.vuln => f = g
    /\ \A f \in found : Explained(f)

HostInv == HostRows /\ Flow /\ Collected /\ FindingsMerged /\ LeftoversExplained

\* The invariant has the type invariant in it.
LEMMA HostTyped == HostInv => TypeOK
BY DEF HostInv, HostRows, Flow, Collected, TypeOK, Detecting, Gathers

\* A pipeline begins with nothing but what an earlier scan has left.
LEMMA HostStarts == Init => HostInv
<1> SUFFICES ASSUME Init PROVE HostInv
  OBVIOUS
<1>1. HostRows
  BY ServiceAssumption DEF Init, HostRows
<1>2. Flow
  <2>0. 1 \in 1 .. 4 /\ 1 \in 1 .. 3
    BY SMT
  <2>1. scanner \in 1 .. 4 /\ scanner \in 1 .. 3
    BY <2>0 DEF Init
  <2> QED  BY <2>1 DEF Init, Flow, Detecting, Gathers
<1>3. Collected
  BY DEF Init, Collected
<1>4. FindingsMerged /\ LeftoversExplained
  BY DEF Init, FindingsMerged, LeftoversExplained
<1> QED  BY <1>1, <1>2, <1>3, <1>4 DEF HostInv

\* Findings keep their cause: what is left stays.
LEMMA StillExplained == left' = left => \A f : Explained(f)' <=> Explained(f)
BY DEF Explained

\* Steps that return nothing and end nothing leave what was collected alone.
LEMMA NothingCollected ==
    ASSUME HostInv, left' = left, UNCHANGED <<found, returned, answered, result>>,
           step \notin {"done"}, step' # "done", step' \in Detecting => step \in Detecting,
           step' = "webcrawl" => step \in Detecting \cup {"webcrawl"},
           "nvd" \in running' => "nvd" \in running \/ step = "webcrawl"
    PROVE  Collected' /\ FindingsMerged' /\ LeftoversExplained'
<1>1. Collected'
  <2>1. step' = "webcrawl" => \A f \in found : f.by # "nvd"
    BY DEF HostInv, Collected
  <2>2. "nvd" \in running' => \A f \in found : f.by # "nvd"
    BY DEF HostInv, Collected
  <2> QED  BY <2>1, <2>2, StillExplained DEF HostInv, Collected
<1>2. FindingsMerged'
  BY DEF FindingsMerged
<1>3. LeftoversExplained'
  BY DEF HostInv, Collected, LeftoversExplained
<1> QED  BY <1>1, <1>2, <1>3

\* The steps before the gathers: they set the rows of the host.
LEMMA DetectingSteps ==
    ASSUME HostInv, NEW s \in Detecting \cup {"webcrawl"}, step \in Detecting,
           Going(s), HostRows', UNCHANGED <<found, returned, answered, result>>,
           scanner' \in 1 .. 4, s = "portscan" => scanner' \in 1 .. 3,
           s # "webcrawl" => running' = {}, running' \subseteq enabled, "nvd" \notin running',
           "screenshot" \in running' => endpoints' # {}, shots' = shots,
           s = "portscan" => step = "portscan" /\ versions' = versions /\ endpoints' = endpoints
    PROVE  HostInv'
<1>1. enabled' = enabled /\ left' = left /\ step' = s
  BY DEF Going
<1>2. Flow'
  BY <1>1 DEF HostInv, Flow, Detecting, Gathers
<1>3. Collected' /\ FindingsMerged' /\ LeftoversExplained'
  BY <1>1, NothingCollected DEF Detecting
<1> QED  BY <1>2, <1>3 DEF HostInv

\* Each scanner in turn; the host's rows are still empty but for its ports.
LEMMA PortScanKeeps == ASSUME HostInv, NEW ports \in SUBSET Ports, PortScan(ports) PROVE HostInv'
<1> DEFINE s == IF ports # {} THEN "analyze" ELSE IF scanner = 3 THEN "snmp" ELSE "portscan"
<1>1. /\ step = "portscan" /\ scanner' = scanner + 1 /\ open' = ports /\ Going(s)
      /\ versions' = versions /\ endpoints' = endpoints /\ shots' = shots
      /\ UNCHANGED <<running, found, returned, answered, result>>
  BY DEF PortScan, Quiet
<1>2. running = {} /\ versions = {} /\ endpoints = {} /\ scanner \in 1 .. 3
  BY <1>1 DEF HostInv, Flow, Gathers
<1>3. scanner' \in 1 .. 4 /\ (s = "portscan" => scanner' \in 1 .. 3)
  BY <1>1, <1>2, SMT
<1>4. named' \in [Ports -> ServiceNames]
  <2>1. /\ WellKnown \in [Ports -> ServiceNames] /\ "" \in ServiceNames
        /\ named \in [Ports -> ServiceNames]
    BY ServiceAssumption DEF HostInv, HostRows
  <2>2. named' = IF scanner = 1 THEN [p \in Ports |-> IF p \in ports THEN WellKnown[p] ELSE ""] ELSE named
    BY DEF PortScan
  <2> QED  BY <2>1, <2>2
<1>5. HostRows'
  BY <1>1, <1>2, <1>4 DEF HostRows
<1>6. s \in Detecting /\ step \in Detecting /\ s # "webcrawl"
  BY <1>1 DEF Detecting
<1> HIDE DEF s
<1> QED  BY <1>1, <1>2, <1>3, <1>5, <1>6, DetectingSteps

\* Names from -sV and fingerprintx: those given replace those known, and a version is of
\* an open port.
LEMMA NamesKept ==
    ASSUME HostInv, NEW names \in Naming, NEW products, DOMAIN names \subseteq open,
           products \subseteq DOMAIN names, open' = open, endpoints' = endpoints, left' = left,
           named' = [p \in Ports |-> IF p \in DOMAIN names THEN names[p] ELSE named[p]],
           versions' \subseteq versions \cup {Version(p, FALSE) : p \in products}
    PROVE  HostRows'
<1>1. HostRows
  BY DEF HostInv
<1>2. \A p \in DOMAIN names : names[p] \in ServiceNames
  <2>1. PICK S \in SUBSET open : names \in [S -> ServiceNames \ {""}]
    BY DEF Naming
  <2> QED  BY <2>1
<1>3. named' \in [Ports -> ServiceNames]
  BY <1>1, <1>2 DEF HostRows
<1>4. ASSUME NEW v \in versions'
      PROVE  v \in Versions /\ (v.port \in open \/ v.old) /\ (v.old => "httpx" \in left)
  <2>1. CASE v \in versions
    BY <1>1, <2>1 DEF HostRows
  <2>2. CASE v \notin versions
    <3>1. PICK p \in products : v = Version(p, FALSE)
      BY <1>4, <2>2 DEF Version
    <3>2. v = [port |-> p, old |-> FALSE] /\ p \in open /\ p \in Ports
      BY <1>1, <3>1 DEF Version, HostRows
    <3> QED  BY <3>2 DEF Versions
  <2> QED  BY <2>1, <2>2
<1> QED  BY <1>1, <1>3, <1>4 DEF HostRows

\* The name of a version scan.
LEMMA AnalyzeKeeps ==
    ASSUME HostInv, NEW names \in Naming, NEW products, AnalyzeServices(names, products)
    PROVE  HostInv'
<1>1. /\ step = "analyze" /\ Going("fingerprint") /\ UNCHANGED <<scanner, open, endpoints, shots>>
      /\ UNCHANGED <<running, found, returned, answered, result>>
  BY DEF AnalyzeServices, Quiet
<1>2. running = {} /\ scanner \in 1 .. 4
  BY <1>1 DEF HostInv, Flow, Gathers
<1>3. HostRows'
  BY <1>1, NamesKept DEF AnalyzeServices, Going
<1>4. "fingerprint" \in Detecting /\ step \in Detecting
  BY <1>1 DEF Detecting
<1> QED  BY <1>1, <1>2, <1>3, <1>4, DetectingSteps

\* Fingerprints only add to it.
LEMMA FingerprintsKeep ==
    ASSUME HostInv, NEW names \in Naming, NEW products, MergeFingerprints(names, products)
    PROVE  HostInv'
<1>1. /\ step = "fingerprint" /\ Going("webdetect") /\ UNCHANGED <<scanner, open, endpoints, shots>>
      /\ UNCHANGED <<running, found, returned, answered, result>>
  BY DEF MergeFingerprints, Quiet
<1>2. running = {} /\ scanner \in 1 .. 4
  BY <1>1 DEF HostInv, Flow, Gathers
<1>3. HostRows'
  <2>1. DOMAIN names \subseteq open
    BY DEF MergeFingerprints
  <2> QED  BY <1>1, <2>1, NamesKept DEF MergeFingerprints, Going
<1>4. "webdetect" \in Detecting /\ step \in Detecting
  BY <1>1 DEF Detecting
<1> QED  BY <1>1, <1>2, <1>3, <1>4, DetectingSteps

\* Endpoints are open ports.
LEMMA ProbeKeeps == ASSUME HostInv, NEW ports \in SUBSET Ports, Probe(ports) PROVE HostInv'
<1>1. /\ step = "webdetect" /\ Going("technologies") /\ UNCHANGED <<scanner, open, named, versions, shots>>
      /\ UNCHANGED <<running, found, returned, answered, result>>
      /\ ports \subseteq open /\ endpoints' = ports
  BY DEF Probe, Quiet, Candidates
<1>2. running = {} /\ scanner \in 1 .. 4
  BY <1>1 DEF HostInv, Flow, Gathers
<1>3. HostRows'
  BY <1>1 DEF HostInv, HostRows, Going
<1>4. "technologies" \in Detecting /\ step \in Detecting
  BY <1>1 DEF Detecting
<1> QED  BY <1>1, <1>2, <1>3, <1>4, DetectingSteps

\* What a gather starts is installed, but for NVD.
LEMMA StartedFacts ==
    ASSUME NEW group PROVE Started(group) \subseteq group /\ Started(group) \subseteq enabled \cup {"nvd"}
BY DEF Started

\* A version from httpx is of an endpoint, or of a file that was left.
LEMMA TechnologiesKeep ==
    ASSUME HostInv, NEW ports \in SUBSET Ports, NEW old \in BOOLEAN, DetectTechnologies(ports, old)
    PROVE  HostInv'
<1>1. /\ step = "technologies" /\ Going("webcrawl") /\ UNCHANGED <<scanner, open, named, endpoints, shots>>
      /\ UNCHANGED <<found, returned, answered, result>>
      /\ IF old THEN "httpx" \in left ELSE ports \subseteq endpoints
      /\ versions' = versions \cup {Version(p, old) : p \in ports}
      /\ running' = IF "webcrawl" \in skips \/ endpoints = {} THEN {} ELSE Started(CrawlGroup)
  BY DEF DetectTechnologies
<1>2. scanner \in 1 .. 4 /\ HostRows
  BY <1>1 DEF HostInv, Flow
<1>3. HostRows'
  <2>1. ASSUME NEW v \in versions'
        PROVE  v \in Versions /\ (v.port \in open \/ v.old) /\ (v.old => "httpx" \in left)
    <3>1. CASE v \in versions
      BY <1>2, <3>1 DEF HostRows
    <3>2. CASE v \notin versions
      <4>1. PICK p \in ports : v = Version(p, old)
        BY <1>1, <2>1, <3>2 DEF Version
      <4>2. v = [port |-> p, old |-> old] /\ p \in Ports
        BY <4>1 DEF Version
      <4>3. v \in Versions /\ v.port = p /\ v.old = old
        BY <4>2 DEF Versions
      <4>4. old = FALSE => p \in open
        BY <1>1, <1>2 DEF HostRows
      <4> QED  BY <1>1, <4>3, <4>4
    <3> QED  BY <3>1, <3>2
  <2>2. left' = left
    BY <1>1 DEF Going
  <2> QED  BY <1>1, <1>2, <2>1, <2>2 DEF HostRows
<1>4. running' \subseteq enabled /\ "nvd" \notin running' /\ ("screenshot" \in running' => endpoints' # {})
  BY <1>1, StartedFacts DEF CrawlGroup
<1>5. "webcrawl" \in Detecting \cup {"webcrawl"} /\ step \in Detecting
  BY <1>1 DEF Detecting
<1> QED  BY <1>1, <1>2, <1>3, <1>4, <1>5, DetectingSteps

\* Steps of a gather leave the host's rows alone and are part of that gather.
LEMMA GatherSteps ==
    ASSUME HostInv, step \in Gathers, step' \in Gathers \cup {"raised"},
           UNCHANGED <<enabled, skips, left, scanner, open, named, versions, endpoints, result>>,
           running' \subseteq enabled \cup {"nvd"}, step' = "raised" => running' = {},
           "nvd" \in running' => step' = "vulnscan",
           "screenshot" \in running' => "screenshot" \in running, shots' \subseteq endpoints,
           Collected'
    PROVE  HostInv'
<1>1. HostRows'
  BY DEF HostInv, HostRows
<1>2. Flow'
  BY DEF HostInv, Flow, Detecting, Gathers
<1>3. FindingsMerged'
  BY DEF FindingsMerged, Gathers
<1>4. LeftoversExplained'
  BY DEF HostInv, LeftoversExplained
<1> QED  BY <1>1, <1>2, <1>3, <1>4 DEF HostInv

\* Something runs only in a gather.
LEMMA InGather == ASSUME HostInv, NEW t \in running PROVE step \in Gathers /\ (t = "nvd" => step = "vulnscan")
BY DEF HostInv, Flow

\* A tool's findings join the others, and its name leaves those that run.
LEMMA ReturnsKeep ==
    ASSUME HostInv, NEW t \in running, NEW findings, Returns(t, findings),
           \A f \in findings : f \in Findings /\ f.by = t /\ Explained(f),
           t = "nvd" => \A f, g \in findings : f.vuln = g.vuln => f = g,
           answered' \subseteq CVEs, shots' \subseteq endpoints,
           \A c \in answered' : c \in answered \/ \E f \in findings : f.vuln = c
    PROVE  HostInv'
<1>1. /\ running' = running \ {t} /\ found' = found \cup findings /\ returned' = returned \cup findings
      /\ UNCHANGED <<enabled, skips, left, step, scanner, open, named, versions, endpoints, result>>
  BY DEF Returns
<1>2. step \in Gathers /\ step # "done" /\ step \notin Detecting /\ (t = "nvd" => step = "vulnscan")
  BY InGather DEF Gathers, Detecting
<1>3. Collected
  BY DEF HostInv
<1>4. Collected'
  <2>1. /\ found' \subseteq Findings /\ result' \subseteq Findings /\ answered' \subseteq CVEs
        /\ found' \subseteq returned' /\ returned' \subseteq Findings
    BY <1>1, <1>3 DEF Collected
  <2>2. returned' \subseteq found' /\ result' = {} /\ \A c \in answered' : \E f \in found' : f.vuln = c
    BY <1>1, <1>2, <1>3 DEF Collected
  <2>3. step' = "webcrawl" \/ "nvd" \in running' => \A f \in found' : f.by # "nvd"
    BY <1>1, <1>2, <1>3 DEF Collected
  <2>4. ASSUME NEW f \in found', NEW g \in found', f.by = "nvd", g.by = "nvd", f.vuln = g.vuln
        PROVE  f = g
    <3>1. CASE t = "nvd"
      BY <1>1, <1>3, <2>4, <3>1 DEF Collected
    <3>2. CASE t # "nvd"
      BY <1>1, <1>3, <2>4, <3>2 DEF Collected
    <3> QED  BY <3>1, <3>2
  <2>5. \A f \in found' : Explained(f)'
    BY <1>1, <1>3, StillExplained DEF Collected
  <2> QED  BY <1>1, <1>2, <2>1, <2>2, <2>3, <2>4, <2>5 DEF Collected
<1>5. running \subseteq enabled \cup {"nvd"} /\ ("nvd" \in running => step = "vulnscan")
  BY DEF HostInv, Flow
<1>6. step' # "raised"
  BY <1>1, <1>2 DEF Gathers
<1> QED  BY <1>1, <1>2, <1>4, <1>5, <1>6, GatherSteps

\* A tool, gowitness and NVD's first pass: what they return is their own.
LEMMA FinishKeeps == ASSUME HostInv, NEW t \in running, Finish(t) PROVE HostInv'
<1>1. t \in DOMAIN Tool /\ t # "nvd" /\ shots' = shots /\ answered' = answered
  BY ToolNames DEF Finish
<1>2. PICK findings \in Says(t) : Returns(t, findings)
  BY DEF Finish
<1>3. \A f \in findings : f \in Findings /\ f.by = t /\ Explained(f)
  BY <1>1, SaysFacts DEF HostInv
<1>4. answered \subseteq CVEs /\ shots \subseteq endpoints
  BY DEF HostInv, Flow, Collected
<1> QED  BY <1>1, <1>2, <1>3, <1>4, ReturnsKeep

\* gowitness returns pictures and no finding.
LEMMA ScreenshotKeeps == ASSUME HostInv, NEW taken \in SUBSET Ports, Screenshot(taken) PROVE HostInv'
<1>1. /\ "screenshot" \in running /\ taken \subseteq endpoints /\ answered' = answered
      /\ Returns("screenshot", {})
      /\ shots' = taken \cup IF "screenshot" \in left THEN {CHOOSE p \in endpoints : TRUE} ELSE {}
  BY DEF Screenshot
<1>2. endpoints # {} /\ answered \subseteq CVEs
  BY <1>1 DEF HostInv, Flow, Collected
<1>3. (CHOOSE p \in endpoints : TRUE) \in endpoints
  BY <1>2
<1>4. shots' \subseteq endpoints
  BY <1>1, <1>3
<1> QED  BY <1>1, <1>2, <1>4, ReturnsKeep

\* NVD's first pass runs once, and asks about versions on record.
LEMMA FirstPassKeeps ==
    ASSUME HostInv, NEW findings \in Answers(versions), FirstPass(findings) PROVE HostInv'
<1>1. /\ "nvd" \in running /\ answered' = answered \cup {f.vuln : f \in findings}
      /\ Returns("nvd", findings) /\ shots' = shots
  BY DEF FirstPass
<1>2. versions \in SUBSET Versions /\ \A v \in versions : v.old => "httpx" \in left
  BY DEF HostInv, HostRows
<1>3. /\ \A f \in findings : /\ f \in Findings /\ f.by = "nvd" /\ f.vuln \in CVEs
                             /\ \E v \in versions : f.old = v.old
      /\ \A f, g \in findings : f.vuln = g.vuln => f = g
  BY <1>2, AnswersFacts
<1>4. \A f \in findings : Explained(f)
  BY <1>2, <1>3 DEF Explained
<1>5. answered \subseteq CVEs /\ shots \subseteq endpoints
  BY DEF HostInv, Flow, Collected
<1>6. answered' \subseteq CVEs /\ \A c \in answered' : c \in answered \/ \E f \in findings : f.vuln = c
  BY <1>1, <1>3, <1>5
<1> QED  BY <1>1, <1>3, <1>4, <1>5, <1>6, ReturnsKeep

\* An exception stays with its tool; the next gather begins with what was found.
LEMMA GathersKeep ==
    ASSUME HostInv, (\E t \in running : ToolRaises(t)) \/ StartVulns \/ StartEnumeration PROVE HostInv'
<1> USE DEF Gathers
<1>1. ASSUME NEW t \in running, ToolRaises(t) PROVE HostInv'
  <2>1. /\ running' = running \ {t}
        /\ UNCHANGED <<enabled, skips, left, step, scanner, open, named, versions, endpoints, shots>>
        /\ UNCHANGED <<found, returned, answered, result>>
    BY <1>1 DEF ToolRaises, host
  <2>2. step \in Gathers
    BY InGather
  <2>3. Collected'
    BY <2>1, <2>2, NothingCollected DEF Detecting
  <2>4. /\ running \subseteq enabled \cup {"nvd"} /\ ("nvd" \in running => step = "vulnscan")
        /\ shots \subseteq endpoints
    BY DEF HostInv, Flow
  <2> QED  BY <2>1, <2>2, <2>3, <2>4, GatherSteps
<1>2. CASE StartVulns
  <2>1. /\ step = "webcrawl" /\ step' = "vulnscan" /\ running' \in {{}, Started(VulnGroup)}
        /\ UNCHANGED <<enabled, skips, left, scanner, open, named, versions, endpoints, shots>>
        /\ UNCHANGED <<found, returned, answered, result>>
    BY <1>2 DEF StartVulns, Going, host
  <2>2. running' \subseteq enabled \cup {"nvd"} /\ "screenshot" \notin running'
    BY <2>1, StartedFacts DEF VulnGroup
  <2>3. Collected'
    BY <2>1, NothingCollected DEF Detecting
  <2>4. shots \subseteq endpoints
    BY DEF HostInv, Flow
  <2> QED  BY <2>1, <2>2, <2>3, <2>4, GatherSteps
<1>3. CASE StartEnumeration
  <2>1. /\ step = "vulnscan" /\ step' = "enumeration" /\ running' \in {{}, Started(EnumGroup)}
        /\ UNCHANGED <<enabled, skips, left, scanner, open, named, versions, endpoints, shots>>
        /\ UNCHANGED <<found, returned, answered, result>>
    BY <1>3 DEF StartEnumeration, Going, host
  <2>2. running' \subseteq enabled \cup {"nvd"} /\ "screenshot" \notin running' /\ "nvd" \notin running'
    BY <2>1, StartedFacts DEF EnumGroup
  <2>3. Collected'
    BY <2>1, <2>2, NothingCollected DEF Detecting
  <2>4. shots \subseteq endpoints
    BY DEF HostInv, Flow
  <2> QED  BY <2>1, <2>2, <2>3, <2>4, GatherSteps
<1> QED  BY <1>1, <1>2, <1>3

\* The pipeline ends, with a result or without: nothing runs any more.
LEMMA EndKeeps ==
    ASSUME HostInv, NEW s \in {"done", "raised"}, running = {}, Going(s),
           UNCHANGED <<scanner, open, named, versions, endpoints, shots, running, found>>,
           Collected', FindingsMerged', LeftoversExplained'
    PROVE  HostInv'
<1>1. HostRows'
  BY DEF HostInv, HostRows, Going
<1>2. Flow'
  BY DEF HostInv, Flow, Going, Detecting, Gathers
<1> QED  BY <1>1, <1>2 DEF HostInv

\* A host without open ports has what SNMP says, at most one finding of this scan.
LEMMA ClosedKeeps == ASSUME HostInv, NEW findings \in Fresh("snmp"), Closed(findings) PROVE HostInv'
<1>1. /\ step = "snmp" /\ result' = findings /\ returned' = findings /\ Going("done")
      /\ UNCHANGED <<scanner, open, named, versions, endpoints, shots, running, found, answered>>
  BY DEF Closed, host
<1>2. found = {} /\ answered = {} /\ running = {}
  BY <1>1 DEF HostInv, Flow, Collected, Detecting, Gathers
<1>3. "snmp" \in DOMAIN Tool /\ Tool["snmp"].reads = "answer"
  BY ToolNames DEF Tool, SnmpWalk
<1>4. findings \in Says("snmp")
  BY <1>3 DEF Says
<1>5. \A f \in findings : f \in Findings /\ f.by = "snmp" /\ Explained(f)
  BY <1>3, <1>4, SaysFacts DEF HostInv
<1>6. \A f, g \in findings : f = g
  <2>1. CASE findings = {}
    BY <2>1
  <2>2. CASE findings # {}
    <3>1. PICK v \in Vulns, p \in Tool["snmp"].about : findings = {Finding(v, p, "snmp", FALSE)}
      BY <2>2 DEF Fresh, Finding
    <3> QED  BY <3>1
  <2> QED  BY <2>1, <2>2
<1>7. step' = "done" /\ left' = left
  BY <1>1 DEF Going
<1>8. Collected'
  BY <1>1, <1>2, <1>5, <1>7 DEF Collected, Detecting
<1>9. FindingsMerged'
  BY <1>1, <1>2, <1>5, <1>6 DEF FindingsMerged, SameKey
<1>10. LeftoversExplained'
  BY <1>1, <1>5, <1>7 DEF LeftoversExplained, Explained, Careless
<1> QED  BY <1>1, <1>2, <1>8, <1>9, <1>10, EndKeeps

\* The second pass asks about versions on record and those in the findings of careless
\* tools: what is old of it has its cause.
LEMMA AskedFacts ==
    ASSUME HostInv, NEW said \in Telling
    PROVE  /\ Asked(said) \in SUBSET Versions
           /\ \A v \in Asked(said) : v.old => left \cap {"httpx", "msf", "cms", "tls"} # {}
<1>1. found \in SUBSET Findings /\ (\A f \in found : Explained(f))
  BY DEF HostInv, Collected
<1>2. \A f \in said : f \in found /\ f.by \in Bannered
  <2>1. Dedup(found) \subseteq found
    BY <1>1, DedupFacts
  <2> QED  BY <2>1 DEF Telling
<1>3. versions \subseteq Versions /\ (\A v \in versions : v.old => "httpx" \in left)
  BY DEF HostInv, HostRows
<1>4. ASSUME NEW v \in Asked(said)
      PROVE  v \in Versions /\ (v.old => left \cap {"httpx", "msf", "cms", "tls"} # {})
  <2>1. CASE v \in versions
    BY <1>3, <2>1
  <2>2. CASE v \notin versions
    <3>1. PICK f \in said : v = Version(f.port, f.old)
      BY <1>4, <2>2 DEF Asked
    <3>2. f \in Findings /\ Explained(f) /\ f.by \in Bannered
      BY <1>1, <1>2
    <3>3. v \in Versions /\ v.old = f.old
      BY <3>1, <3>2 DEF Version, Versions, Findings
    <3>4. Bannered \cap Careless \subseteq {"msf", "cms", "tls"} /\ "nvd" \notin Bannered
      BY DEF Bannered, Careless
    <3>5. f.old => left \cap {"httpx", "msf", "cms", "tls"} # {}
      BY <3>2, <3>4 DEF Explained
    <3> QED  BY <3>3, <3>5
  <2> QED  BY <2>1, <2>2
<1> QED  BY <1>4

\* What the second pass returns: what was found, one for each key, and the CVEs that no
\* finding is about, each once.
LEMMA SecondPassKeeps ==
    ASSUME HostInv, NEW said \in Telling, NEW nvd \in Answers(Asked(said)), SecondPass(said, nvd)
    PROVE  HostInv'
<1> DEFINE kept == Dedup(found)
<1>1. /\ step = "enumeration" /\ running = {} /\ answered' = answered \cup {f.vuln : f \in nvd}
      /\ result' = kept \cup New(nvd, kept) /\ Going("done")
      /\ UNCHANGED <<scanner, open, named, versions, endpoints, shots, running, found, returned>>
  BY DEF SecondPass, host
<1>2. step' = "done" /\ left' = left
  BY <1>1 DEF Going
<1>3. /\ found \in SUBSET Findings /\ returned \subseteq found /\ answered \subseteq CVEs
      /\ \A c \in answered : \E f \in found : f.vuln = c
      /\ \A f, g \in found : f.by = "nvd" /\ g.by = "nvd" /\ f.vuln = g.vuln => f = g
      /\ \A f \in found : Explained(f)
  BY <1>1 DEF HostInv, Collected
<1>4. /\ kept \subseteq found
      /\ \A f \in found : \E g \in kept : SameKey(f, g)
      /\ \A f, g \in kept : SameKey(f, g) => f = g
  BY <1>3, DedupFacts
<1>5. /\ Asked(said) \in SUBSET Versions
      /\ \A v \in Asked(said) : v.old => left \cap {"httpx", "msf", "cms", "tls"} # {}
  BY AskedFacts
<1>6. /\ \A f \in nvd : f \in Findings /\ f.by = "nvd" /\ f.vuln \in CVEs /\ Explained(f)
      /\ \A f, g \in nvd : f.vuln = g.vuln => f = g
  <2>1. \A f \in nvd : /\ f \in Findings /\ f.by = "nvd" /\ f.vuln \in CVEs
                       /\ \E v \in Asked(said) : f.old = v.old
    BY <1>5, AnswersFacts
  <2>2. \A f, g \in nvd : f.vuln = g.vuln => f = g
    BY <1>5, AnswersFacts
  <2>3. \A f \in nvd : Explained(f)
    BY <1>5, <2>1 DEF Explained
  <2> QED  BY <2>1, <2>2, <2>3
<1> DEFINE fresh == New(nvd, kept)
<1>7. /\ fresh \subseteq nvd
      /\ \A f \in fresh : \A g \in kept : f.vuln # g.vuln
      /\ \A f \in nvd : f \in fresh \/ \E g \in kept : f.vuln = g.vuln
  BY DEF New
<1> HIDE DEF kept, fresh
<1>8. result' = kept \cup fresh
  BY <1>1 DEF fresh, kept
<1>9. Collected'
  <2>1. result' \subseteq Findings /\ answered' \subseteq CVEs
    BY <1>1, <1>3, <1>4, <1>6, <1>7, <1>8
  <2>2. returned' \subseteq Findings /\ found' \subseteq returned' /\ found' = found
    BY <1>1 DEF HostInv, Collected
  <2> QED  BY <1>1, <1>2, <1>3, <2>1, <2>2, StillExplained DEF Collected, Detecting
<1>10. FindingsMerged'
  <2>1. ASSUME NEW f \in returned PROVE \E g \in result' : SameKey(f, g)
    BY <1>3, <1>4, <1>8
  <2>2. ASSUME NEW c \in answered' PROVE \E g \in result' : g.vuln = c
    <3>1. CASE c \in answered
      BY <1>3, <1>4, <1>8, <3>1 DEF SameKey
    <3>2. CASE \E f \in nvd : c = f.vuln
      BY <1>7, <1>8, <3>2
    <3> QED  BY <1>1, <3>1, <3>2
  <2>3. ASSUME NEW f \in result', NEW g \in result', SameKey(f, g) PROVE f = g
    BY <1>4, <1>6, <1>7, <1>8, <2>3 DEF SameKey
  <2>4. ASSUME NEW f \in result', NEW g \in result', f.by = "nvd", g.by = "nvd", f.vuln = g.vuln
        PROVE  f = g
    BY <1>3, <1>4, <1>6, <1>7, <1>8, <2>4
  <2>5. \A f \in returned' : \E g \in result' : SameKey(f, g)
    BY <1>1, <2>1
  <2>6. \A f, g \in result' : SameKey(f, g) => f = g
    BY <2>3
  <2> QED  BY <2>2, <2>4, <2>5, <2>6 DEF FindingsMerged, SameKey
<1>11. LeftoversExplained'
  <2>1. \A f \in result' : Explained(f)
    BY <1>3, <1>4, <1>6, <1>7, <1>8
  <2> QED  BY <1>2, <2>1 DEF LeftoversExplained, Explained, Careless
<1> QED  BY <1>1, <1>9, <1>10, <1>11, EndKeeps

\* An exception outside the gathers: there is no result.
LEMMA RaisedKeeps == ASSUME HostInv, HostRaises PROVE HostInv'
<1>1. /\ step \notin {"done", "raised"} /\ running = {} /\ Going("raised")
      /\ UNCHANGED <<scanner, open, named, versions, endpoints, shots>>
      /\ UNCHANGED <<running, found, returned, answered, result>>
  BY DEF HostRaises, host, Quiet
<1>2. left' = left /\ step' = "raised"
  BY <1>1 DEF Going
<1>3. Collected' /\ FindingsMerged' /\ LeftoversExplained'
  BY <1>1, <1>2, NothingCollected DEF Detecting
<1> QED  BY <1>1, <1>3, EndKeeps

\* Every step of a host's pipeline.
LEMMA HostSteps == HostInv /\ [Next]_vars => HostInv'
<1> SUFFICES ASSUME HostInv, [Next]_vars PROVE HostInv'
  OBVIOUS
<1>1. CASE Next
  <2>1. \/ \E ports \in SUBSET Ports : PortScan(ports) \/ Probe(ports) \/ Screenshot(ports)
        \/ \E names \in Naming, products \in SUBSET open :
             AnalyzeServices(names, products) \/ MergeFingerprints(names, products)
        \/ \E ports \in SUBSET Ports, old \in BOOLEAN : DetectTechnologies(ports, old)
        \/ \E t \in running : Finish(t)
        \/ (\E t \in running : ToolRaises(t)) \/ StartVulns \/ StartEnumeration
        \/ \E findings \in Answers(versions) : FirstPass(findings)
        \/ \E findings \in Fresh("snmp") : Closed(findings)
        \/ \E said \in Telling : \E nvd \in Answers(Asked(said)) : SecondPass(said, nvd)
        \/ HostRaises
    BY <1>1 DEF Next
  <2>2. CASE \E ports \in SUBSET Ports : PortScan(ports) \/ Probe(ports) \/ Screenshot(ports)
    BY <2>2, PortScanKeeps, ProbeKeeps, ScreenshotKeeps
  <2>3. CASE \E names \in Naming, products \in SUBSET open :
               AnalyzeServices(names, products) \/ MergeFingerprints(names, products)
    BY <2>3, AnalyzeKeeps, FingerprintsKeep
  <2>4. CASE \E ports \in SUBSET Ports, old \in BOOLEAN : DetectTechnologies(ports, old)
    BY <2>4, TechnologiesKeep
  <2>5. CASE \E t \in running : Finish(t)
    BY <2>5, FinishKeeps
  <2>6. CASE (\E t \in running : ToolRaises(t)) \/ StartVulns \/ StartEnumeration
    BY <2>6, GathersKeep
  <2>7. CASE \E findings \in Answers(versions) : FirstPass(findings)
    BY <2>7, FirstPassKeeps
  <2>8. CASE \E findings \in Fresh("snmp") : Closed(findings)
    BY <2>8, ClosedKeeps
  <2>9. CASE \E said \in Telling : \E nvd \in Answers(Asked(said)) : SecondPass(said, nvd)
    BY <2>9, SecondPassKeeps
  <2>10. CASE HostRaises
    BY <2>10, RaisedKeeps
  <2> QED  BY <2>1, <2>2, <2>3, <2>4, <2>5, <2>6, <2>7, <2>8, <2>9, <2>10
<1>2. CASE UNCHANGED vars
  <2>1. /\ UNCHANGED <<enabled, skips, left, step, scanner, open, named, versions, endpoints, shots>>
        /\ UNCHANGED <<running, found, returned, answered, result>>
    BY <1>2 DEF vars, host
  <2>2. HostRows'
    BY <2>1 DEF HostInv, HostRows
  <2>3. Flow'
    BY <2>1 DEF HostInv, Flow
  <2>4. Collected'
    BY <2>1, StillExplained DEF HostInv, Collected
  <2>5. FindingsMerged' /\ LeftoversExplained'
    BY <2>1 DEF HostInv, FindingsMerged, LeftoversExplained
  <2> QED  BY <2>2, <2>3, <2>4, <2>5 DEF HostInv
<1> QED  BY <1>1, <1>2

-----------------------------------------------------------------------------
(* The three side by side.                                                 *)

ToolsInv == HostInv /\ ReconInv /\ StepsInv

\* The invariants of the three, as long as each part goes on by itself.
LEMMA ToolsInvariant == ToolsSpec => []ToolsInv
<1>1. ToolsInit => ToolsInv
  BY HostStarts, ReconStarts, StepsStart DEF ToolsInit, ToolsInv
<1>2. ToolsInv /\ [ToolsNext]_<<part, vars, session, steps>> => ToolsInv'
  <2> SUFFICES ASSUME ToolsInv, [ToolsNext]_<<part, vars, session, steps>> PROVE ToolsInv'
    OBVIOUS
  <2>1. [Next]_vars /\ [Recon!Next]_session /\ [Step!Next]_steps
    BY DEF ToolsNext
  <2> QED  BY <2>1, HostSteps, ReconSteps, StepsGoOn DEF ToolsInv
<1> QED  BY <1>1, <1>2, PTL DEF ToolsSpec

\* The type invariant of the tasks that run other programs, for any ports, names,
\* findings and images of the worker.
THEOREM ToolsTyped == ToolsSpec => []ToolsTypeOK
<1>1. ToolsInv => ToolsTypeOK
  BY HostTyped DEF ToolsInv, ToolsTypeOK, ReconInv, StepsInv
<1> QED  BY <1>1, ToolsInvariant, PTL

\* _host_pipeline loses and doubles nothing: when it returns, its result has every
\* key that a tool returned, whatever other tool raised, and every CVE that NVD
\* answered with in either pass; no key twice, and no CVE twice by NVD.
THEOREM NothingLostOrDoubled == ToolsSpec => []FindingsMerged
<1>1. ToolsInv => FindingsMerged
  BY DEF ToolsInv, HostInv
<1> QED  BY <1>1, ToolsInvariant, PTL

\* A finding of an earlier scan is in a host's result only with a cause on record: a
\* tool that takes its file whatever its exit code, or NVD asked about such a finding.
THEOREM LeftoversAreExplained == ToolsSpec => []LeftoversExplained
<1>1. ToolsInv => LeftoversExplained
  BY DEF ToolsInv, HostInv
<1> QED  BY <1>1, ToolsInvariant, PTL

\* A reconnaissance session is complete with all the tools of its scope in its row; one
\* that failed has those of the phases before it failed, and a cause for which there is
\* a trace.  The steps of an ADCS session go on only when none has failed and no server
\* is left at work, and the session is completed only after the last.
THEOREM OutcomesAreExplained == ToolsSpec => []OutcomeExplained
<1>1. ReconInv => Recon!OutcomeExplained
  <2> SUFFICES ASSUME ReconInv PROVE Recon!OutcomeExplained
    OBVIOUS
  <2>1. cause \in {"none", "setup", "unreachable", "error", "time", "unbound"}
    BY DEF ReconInv, Recon!TypeOK, Recon!Cause
  <2> QED  BY <2>1 DEF ReconInv, Recon!OutcomeExplained, Scope
<1>2. StepsInv => Step!OutcomeExplained
  BY DEF StepsInv
<1>3. ToolsInv => OutcomeExplained
  BY <1>1, <1>2 DEF ToolsInv, OutcomeExplained
<1> QED  BY <1>3, ToolsInvariant, PTL
=============================================================================
