------------------------------ MODULE JobsProofs ------------------------------
(***************************************************************************)
(* Proofs about background work, for any number of phases, users, sched-   *)
(* ules, jobs and notices: about PhaseScan, its types, that a phase that   *)
(* says running has a task to say otherwise, and what the count of the     *)
(* pending phases is worth; about PasswordSpray, that success is what nxc  *)
(* said, and failed at least what it was asked; about Schedule, that scans *)
(* are a period apart; about Notices, that a release is announced once and *)
(* a notice sent on both its ways, each but for the reasons on record.     *)
(* They end with the invariants of the four side by side.                  *)
(***************************************************************************)
EXTENDS MCJobs, SequenceTheorems, FiniteSetTheorems, TLAPS

-----------------------------------------------------------------------------
(* Types.  A request and a task that are on their way name a phase.        *)

WithPhase ==
    /\ \A r \in Request : request[r].at \in {"run", "retry", "skip"} => request[r].phase \in Phase
    /\ \A t \in Task : task[t].at # "none" => task[t].phase \in Phase

Typed == TypeOK /\ WithPhase

\* The number of pending phases is a number of phases.
LEMMA PendingCount ==
    ASSUME NEW S \in SUBSET Phase
    PROVE  Cardinality(S) \in 0 .. Cardinality(Phase)
<1>1. IsFiniteSet(Phase)
    BY PhaseAssumption
<1>2. IsFiniteSet(S) /\ Cardinality(S) <= Cardinality(Phase)
    BY <1>1, FS_Subset
<1>3. Cardinality(S) \in Nat /\ Cardinality(Phase) \in Nat
    BY <1>1, <1>2, FS_CardinalityType
<1> QED
    BY <1>2, <1>3

\* The invariant holds initially.
LEMMA InitTyped == Init => Typed
<1> SUFFICES ASSUME Init PROVE Typed
    OBVIOUS
<1>1. 0 \in 0 .. Cardinality(Phase)
    BY PendingCount, FS_EmptySet
<1>2. request \in [Request -> [at : RequestStage, phase : Phase \cup {NoPhase}]]
    BY DEF Init, RequestStage
<1>3. task \in [Task -> [at : TaskStage, phase : Phase \cup {NoPhase},
                         left : 0 .. Cardinality(Phase)]]
    BY <1>1 DEF Init, TaskStage
<1>4. WithPhase
    BY DEF Init, WithPhase
<1>5. status \in [Phase -> PhaseStatus] /\ scan = "paused" /\ {met, late, skipped} \subseteq BOOLEAN
    BY DEF Init, PhaseStatus
<1> QED
    BY <1>2, <1>3, <1>4, <1>5 DEF Typed, TypeOK

\* A request's step keeps it.
LEMMA RequestTyped ==
    ASSUME Typed, NEW r \in Request, RequestStep(r)
    PROVE  Typed'
<1> USE DEF Typed, TypeOK, WithPhase, RequestStage, PhaseStatus
<1>1. CASE \E p \in Phase : ReadRun(r, p) \/ ReadRetry(r, p) \/ ReadSkip(r, p)
    BY <1>1 DEF ReadRun, ReadRetry, ReadSkip
<1>2. CASE SaveRetry(r)
    BY <1>2 DEF SaveRetry
<1>3. CASE SaveSkip(r)
    BY <1>3 DEF SaveSkip
<1>4. CASE Cancel(r)
    BY <1>4 DEF Cancel
<1>5. ASSUME NEW t \in Task, Dispatch(r, t)
      PROVE  Typed'
    <2>1. 0 \in 0 .. Cardinality(Phase)
        BY PendingCount, FS_EmptySet
    <2>2. request[r].phase \in Phase
        BY <1>5 DEF Dispatch
    <2>3. task' = [task EXCEPT ![t] = [at |-> "queued", phase |-> request[r].phase, left |-> 0]]
        BY <1>5 DEF Dispatch
    <2>4. task' \in [Task -> [at : TaskStage, phase : Phase \cup {NoPhase},
                              left : 0 .. Cardinality(Phase)]]
        BY <2>1, <2>2, <2>3 DEF TaskStage
    <2>5. \A u \in Task : task'[u].at # "none" => task'[u].phase \in Phase
        BY <2>2, <2>3
    <2>6. /\ request' \in [Request -> [at : RequestStage, phase : Phase \cup {NoPhase}]]
          /\ \A q \in Request : request'[q].at \in {"run", "retry", "skip"} => request'[q].phase \in Phase
        BY <1>5 DEF Dispatch
    <2> QED
        BY <1>5, <2>4, <2>5, <2>6 DEF Dispatch
<1> QED
    BY <1>1, <1>2, <1>3, <1>4, <1>5 DEF RequestStep

\* A task that moves on stays typed.
LEMMA MoveTyped ==
    ASSUME Typed, NEW t \in Task, NEW s \in TaskStage, Move(t, s), task[t].at # "none"
    PROVE  /\ task' \in [Task -> [at : TaskStage, phase : Phase \cup {NoPhase},
                                  left : 0 .. Cardinality(Phase)]]
           /\ \A u \in Task : task'[u].at # "none" => task'[u].phase \in Phase
           /\ task[t].phase \in Phase
BY DEF Move, Typed, TypeOK, WithPhase

\* A task's step keeps it.
LEMMA WorkTyped ==
    ASSUME Typed, NEW t \in Task, Work(t) \/ Crash(t)
    PROVE  Typed'
<1> USE DEF Typed, TypeOK, PhaseStatus
<1>n. UNCHANGED request => \A q \in Request : request'[q].at \in {"run", "retry", "skip"} => request'[q].phase \in Phase
    BY DEF WithPhase
<1>1. CASE MarkScan(t)
    BY <1>1, <1>n, MoveTyped, "marked" \in TaskStage DEF MarkScan, WithPhase, TaskStage
<1>2. CASE MarkPhase(t)
    BY <1>2, <1>n, MoveTyped, "working" \in TaskStage DEF MarkPhase, WithPhase, TaskStage
<1>3. CASE Execute(t)
    BY <1>3, <1>n, MoveTyped, "completed" \in TaskStage, "raised" \in TaskStage
       DEF Execute, Outcomes, WithPhase, TaskStage
<1>4. CASE CompletePhase(t)
    <2>1. Cardinality(Pending \ {task[t].phase}) \in 0 .. Cardinality(Phase)
        BY PendingCount, Pending \ {task[t].phase} \in SUBSET Phase DEF Pending
    <2> DEFINE n == Cardinality(Pending \ {task[t].phase})
    <2>2. task' = [task EXCEPT ![t] = [@ EXCEPT !.at = "counted", !.left = n]]
        BY <1>4 DEF CompletePhase
    <2>3. n \in 0 .. Cardinality(Phase)
        BY <2>1
    <2> HIDE DEF n
    <2>4. task' \in [Task -> [at : TaskStage, phase : Phase \cup {NoPhase},
                              left : 0 .. Cardinality(Phase)]]
        BY <2>2, <2>3 DEF TaskStage
    <2>5. task[t].phase \in Phase
        BY <1>4 DEF CompletePhase, WithPhase
    <2>6. \A u \in Task : task'[u].at # "none" => task'[u].phase \in Phase
        BY <2>2, <2>5 DEF WithPhase
    <2> QED
        BY <1>4, <1>n, <2>4, <2>6 DEF CompletePhase, WithPhase
<1>5. CASE Settle(t)
    BY <1>5, <1>n, MoveTyped, "done" \in TaskStage DEF Settle, WithPhase, TaskStage
<1>6. CASE PauseScan(t)
    BY <1>6, <1>n, MoveTyped, "paused" \in TaskStage DEF PauseScan, WithPhase, TaskStage
<1>7. CASE FailPhase(t)
    BY <1>7, <1>n, MoveTyped, "done" \in TaskStage DEF FailPhase, WithPhase, TaskStage
<1>8. CASE Crash(t)
    BY <1>8, <1>n, MoveTyped, "crashed" \in TaskStage DEF Crash, WithPhase, TaskStage, AtWork
<1> QED
    BY <1>1, <1>2, <1>3, <1>4, <1>5, <1>6, <1>7, <1>8 DEF Work

\* Every step keeps it.
LEMMA NextTyped == Typed /\ [Next]_vars => Typed'
<1> SUFFICES ASSUME Typed, [Next]_vars PROVE Typed'
    OBVIOUS
<1>1. CASE UNCHANGED vars
    BY <1>1 DEF Typed, TypeOK, WithPhase, vars
<1> QED
    BY <1>1, RequestTyped, WorkTyped DEF Next

\* Every variable keeps its type, whatever requests and tasks do to the rows.
THEOREM TypeCorrect == Spec => []TypeOK
<1>1. Typed => TypeOK
    BY DEF Typed
<1> QED
    BY <1>1, InitTyped, NextTyped, PTL DEF Spec

-----------------------------------------------------------------------------
(* A phase that says running.                                              *)

\* The task that wrote it last has not yet recorded the outcome: it is not only on
\* record but before the save that takes "running" away, or dead.
Before == {"working", "completed", "raised", "paused", "crashed"}
Driven == \A p \in Phase : status[p] = "running" =>
            \E t \in Task : task[t].phase = p /\ task[t].at \in Before

\* A request keeps it: none writes "running", none touches a task that has started.
LEMMA RequestDriven ==
    ASSUME Typed, Driven, NEW r \in Request, RequestStep(r)
    PROVE  Driven'
<1> USE DEF Typed, TypeOK, Driven, Before
<1>1. CASE \E p \in Phase : ReadRun(r, p) \/ ReadRetry(r, p) \/ ReadSkip(r, p)
    BY <1>1 DEF ReadRun, ReadRetry, ReadSkip
<1>2. CASE SaveRetry(r)
    BY <1>2 DEF SaveRetry
<1>3. CASE SaveSkip(r)
    BY <1>3 DEF SaveSkip
<1>4. CASE Cancel(r)
    BY <1>4 DEF Cancel
<1>5. ASSUME NEW t \in Task, Dispatch(r, t)
      PROVE  Driven'
    <2>1. \A u \in Task : u # t => task'[u] = task[u]
        BY <1>5 DEF Dispatch
    <2>2. task[t].at = "none" /\ status' = status
        BY <1>5 DEF Dispatch
    <2> QED
        BY <2>1, <2>2
<1> QED
    BY <1>1, <1>2, <1>3, <1>4, <1>5 DEF RequestStep

\* A task keeps it: it leaves these stages only with the save of the outcome.
LEMMA WorkDriven ==
    ASSUME Typed, Driven, NEW t \in Task, Work(t) \/ Crash(t)
    PROVE  Driven'
<1> USE DEF Typed, TypeOK, Driven, Before, Move
<1>1. CASE MarkScan(t)
    BY <1>1 DEF MarkScan
<1>2. CASE MarkPhase(t)
    BY <1>2 DEF MarkPhase
<1>3. CASE Execute(t)
    BY <1>3 DEF Execute, Outcomes
<1>4. CASE CompletePhase(t)
    <2>1. status' = [status EXCEPT ![task[t].phase] = "completed"]
        BY <1>4 DEF CompletePhase
    <2>2. \A u \in Task : u # t => task'[u] = task[u]
        BY <1>4 DEF CompletePhase
    <2> QED
        BY <2>1, <2>2
<1>5. CASE Settle(t)
    BY <1>5 DEF Settle
<1>6. CASE PauseScan(t)
    BY <1>6 DEF PauseScan
<1>7. CASE FailPhase(t)
    BY <1>7 DEF FailPhase
<1>8. CASE Crash(t)
    BY <1>8 DEF Crash
<1> QED
    BY <1>1, <1>2, <1>3, <1>4, <1>5, <1>6, <1>7, <1>8 DEF Work

\* No retry, skip or second run leaves a phase running without a task that will say
\* otherwise, or one that died (run_phase).
THEOREM RunningPhaseHasTask == Spec => []RunningPhaseExplained
<1>1. Init => Driven
    BY DEF Init, Driven
<1>2. Typed /\ Driven /\ [Next]_vars => Driven'
    <2> SUFFICES ASSUME Typed, Driven, [Next]_vars PROVE Driven'
        OBVIOUS
    <2>1. CASE UNCHANGED vars
        BY <2>1 DEF Driven, vars
    <2> QED
        BY <2>1, RequestDriven, WorkDriven DEF Next
<1>3. Driven => RunningPhaseExplained
    BY DEF Driven, Before, RunningPhaseExplained, Workers, AtWork, Crashed
<1> QED
    BY <1>1, <1>2, <1>3, InitTyped, NextTyped, PTL DEF Spec

-----------------------------------------------------------------------------
(* What the count of the pending phases is worth.                          *)

Left == \E p \in Phase : status[p] \in {"pending", "failed", "cancelled"}

\* As long as tasks do not meet, one is at work at most; a count that found phases
\* is still right when it is used; and a scan at rest and paused has one to go on
\* with.
Counts ==
    /\ ~met => \A t, u \in Working : t = u
    /\ ~met /\ ~skipped =>
         \A t \in Task : task[t].at = "counted" /\ task[t].left # 0 => Pending # {}
    /\ scan = "completed" /\ ~met /\ ~late => Pending = {}
    /\ scan = "paused" /\ ~met /\ ~skipped /\ Working = {} /\ Crashed = {} => Left

\* A step of a request, which starts no task, keeps it.
LEMMA RequestCounts ==
    ASSUME Typed, Counts, NEW r \in Request, RequestStep(r)
    PROVE  Counts'
<1> USE DEF Typed, TypeOK, WithPhase, Counts, Left, Working, AtWork, Crashed, Pending
<1>1. CASE \E p \in Phase : ReadRun(r, p) \/ ReadRetry(r, p) \/ ReadSkip(r, p)
    BY <1>1 DEF ReadRun, ReadRetry, ReadSkip
<1>2. CASE SaveRetry(r)
    <2>1. request[r].phase \in Phase /\ status'[request[r].phase] = "pending"
        BY <1>2 DEF SaveRetry
    <2>2. Pending' # {} /\ Left' /\ Working' = Working /\ Crashed' = Crashed
        BY <1>2, <2>1 DEF SaveRetry
    <2>3. ~late' => scan' # "completed"
        BY <1>2 DEF SaveRetry
    <2>4. met' = met /\ task' = task
        BY <1>2 DEF SaveRetry
    <2> QED
        BY <2>2, <2>3, <2>4
<1>3. CASE SaveSkip(r)
    <2> DEFINE p == request[r].phase
    <2>1. /\ status' = [status EXCEPT ![p] = "skipped"]
          /\ skipped' = (skipped \/ Pending \subseteq {p})
          /\ UNCHANGED <<scan, task, met, late>> /\ p \in Phase
        BY <1>3 DEF SaveSkip
    <2> HIDE DEF p
    <2>2. Pending' = Pending \ {p}
        BY <2>1
    <2>3. ~skipped' => ~skipped /\ Pending' # {}
        BY <2>1, <2>2
    <2>4. Pending' # {} => Left'
        OBVIOUS
    <2>5. Working' = Working /\ Crashed' = Crashed /\ Pending' \subseteq Pending
        BY <2>1, <2>2
    <2> QED
        BY <2>1, <2>3, <2>4, <2>5
<1>4. CASE Cancel(r)
    BY <1>4 DEF Cancel
<1>5. ASSUME NEW t \in Task, Dispatch(r, t)
      PROVE  Counts'
    <2>1. \A u \in Task : u # t => task'[u] = task[u]
        BY <1>5 DEF Dispatch
    <2>2. task[t].at = "none" /\ task'[t].at = "queued"
        BY <1>5 DEF Dispatch
    <2>3. Working' = Working /\ Crashed' = Crashed
        BY <2>1, <2>2
    <2>4. UNCHANGED <<scan, status, met, late, skipped>>
        BY <1>5 DEF Dispatch
    <2> QED
        BY <2>1, <2>2, <2>3, <2>4
<1> QED
    BY <1>1, <1>2, <1>3, <1>4, <1>5 DEF RequestStep

\* So does a step of a task: beside it there is no other at work, or they have met.
LEMMA WorkCounts ==
    ASSUME Typed, Counts, NEW t \in Task, Work(t) \/ Crash(t)
    PROVE  Counts'
<1> USE DEF Typed, TypeOK, Counts, Working, AtWork, Crashed, Move
<1>1. CASE MarkScan(t)
    <2>1. \A u \in Task : u # t => task'[u] = task[u]
        BY <1>1 DEF MarkScan
    <2>2. task'[t].at = "marked" /\ scan' = "running" /\ ~met' => (~met /\ Working = {})
        BY <1>1 DEF MarkScan
    <2>3. scan' = "running" /\ task'[t].at = "marked" /\ UNCHANGED <<status, late, skipped>>
        BY <1>1 DEF MarkScan
    <2> QED
        BY <2>1, <2>2, <2>3 DEF Pending
<1>w. ASSUME ~MarkScan(t)
      PROVE  /\ \A u \in Task : u # t => task'[u] = task[u]
             /\ UNCHANGED <<met, skipped>>
             /\ t \in Working /\ Working' \subseteq Working
             /\ Working' = {} \/ t \in Working' \/ met \/ Working' # {}
    BY <1>w DEF Work, MarkPhase, Execute, Outcomes, CompletePhase, Settle, PauseScan, FailPhase, Crash
<1>a. ASSUME ~MarkScan(t), ~met
      PROVE  Working = {t} /\ Working' \subseteq {t}
    BY <1>a, <1>w
<1>2. CASE MarkPhase(t)
    <2>1. task[t].at = "marked" /\ task'[t].at = "working" /\ UNCHANGED <<scan, late>>
        BY <1>2 DEF MarkPhase
    <2>2. Pending' \subseteq Pending
        BY <1>2 DEF MarkPhase, Pending, PhaseStatus
    <2>3. ~MarkScan(t) /\ t \in Working'
        BY <2>1 DEF MarkScan
    <2> QED
        BY <1>a, <1>w, <2>1, <2>2, <2>3
<1>3. CASE Execute(t)
    <2>1. /\ task[t].at = "working" /\ task'[t].at \in {"completed", "raised"}
          /\ UNCHANGED <<scan, status, late>>
        BY <1>3 DEF Execute, Outcomes
    <2>2. ~MarkScan(t) /\ t \in Working' /\ Pending' = Pending
        BY <2>1 DEF MarkScan, Pending
    <2> QED
        BY <1>a, <1>w, <2>1, <2>2
<1>4. CASE CompletePhase(t)
    <2> DEFINE n == Cardinality(Pending \ {task[t].phase})
    <2>1. /\ task[t].at = "completed" /\ UNCHANGED <<scan, late>>
          /\ status' = [status EXCEPT ![task[t].phase] = "completed"]
          /\ task' = [task EXCEPT ![t] = [@ EXCEPT !.at = "counted", !.left = n]]
        BY <1>4 DEF CompletePhase
    <2>2. Pending' = Pending \ {task[t].phase}
        BY <2>1 DEF Pending
    <2>3. n # 0 => Pending' # {}
        BY <2>2, FS_EmptySet
    <2> HIDE DEF n
    <2>4. task'[t].at = "counted" /\ task'[t].left = n
        BY <2>1
    <2>5. ~MarkScan(t) /\ t \in Working'
        BY <2>1, <2>4 DEF MarkScan
    <2>6. ~met' /\ ~skipped' =>
            \A u \in Task : task'[u].at = "counted" /\ task'[u].left # 0 => Pending' # {}
        BY <1>a, <1>w, <2>3, <2>4, <2>5
    <2>7. ~met' => \A u, v \in Working' : u = v
        BY <1>a, <1>w, <2>5
    <2>8. scan' = "completed" /\ ~met' /\ ~late' => Pending' = {}
        BY <1>w, <2>1, <2>2, <2>5
    <2> QED
        BY <2>5, <2>6, <2>7, <2>8
<1>5. CASE Settle(t)
    <2>1. /\ task[t].at = "counted" /\ task'[t].at = "done" /\ status' = status
          /\ scan' = IF task[t].left = 0 THEN "completed" ELSE "paused"
          /\ late' = (late \/ (task[t].left = 0 /\ Pending # {}))
        BY <1>5 DEF Settle
    <2>2. ~MarkScan(t) /\ Pending' = Pending /\ (Pending # {} => Left')
        BY <2>1 DEF MarkScan, Pending, Left
    <2>3. scan' = "paused" /\ ~met' /\ ~skipped' => Left'
        BY <1>w, <2>1, <2>2
    <2>4. scan' = "completed" /\ ~late' => Pending' = {}
        BY <2>1, <2>2
    <2>5. ~met' /\ ~skipped' =>
            \A u \in Task : task'[u].at = "counted" /\ task'[u].left # 0 => Pending' # {}
        BY <1>w, <2>1, <2>2
    <2> QED
        BY <1>w, <2>2, <2>3, <2>4, <2>5
<1>6. CASE PauseScan(t)
    <2>1. /\ task[t].at = "raised" /\ task'[t].at = "paused" /\ scan' = "paused"
          /\ UNCHANGED <<status, late>>
        BY <1>6 DEF PauseScan
    <2>2. ~MarkScan(t) /\ t \in Working' /\ Pending' = Pending
        BY <2>1 DEF MarkScan, Pending
    <2> QED
        BY <1>a, <1>w, <2>1, <2>2
<1>7. CASE FailPhase(t)
    <2>1. /\ task[t].at = "paused" /\ task'[t].at = "done" /\ UNCHANGED <<scan, late>>
          /\ status' = [status EXCEPT ![task[t].phase] = "failed"]
        BY <1>7 DEF FailPhase
    <2>2. task[t].phase \in Phase
        BY <2>1 DEF WithPhase
    <2>3. Left' /\ Pending' \subseteq Pending /\ ~MarkScan(t)
        BY <2>1, <2>2 DEF Left, Pending, MarkScan
    <2>4. ~met' => Working' = {}
        BY <1>a, <1>w, <2>1, <2>3
    <2>5. ~met' => \A u \in Task : task'[u].at # "counted"
        BY <2>4
    <2> QED
        BY <1>w, <2>1, <2>3, <2>4, <2>5
<1>8. CASE Crash(t)
    <2>1. /\ task[t].at \in AtWork /\ task'[t].at = "crashed" /\ UNCHANGED <<scan, status, late>>
        BY <1>8 DEF Crash
    <2>2. t \in Crashed' /\ ~MarkScan(t) /\ Pending' = Pending
        BY <2>1 DEF MarkScan, Pending
    <2> QED
        BY <1>w, <2>1, <2>2
<1> QED
    BY <1>1, <1>2, <1>3, <1>4, <1>5, <1>6, <1>7, <1>8 DEF Work

\* A task that counted the pending phases said what is so of the scan, unless tasks
\* crossed, a phase was made pending again in between, or the last one was skipped
\* (run_phase, retry_phase, skip_phase).
THEOREM OutcomeIsCounted == Spec => []OutcomeCounted
<1>1. Init => Counts
    <2> SUFFICES ASSUME Init PROVE Counts
        OBVIOUS
    <2>1. \A t \in Task : task[t].at = "none"
        BY DEF Init
    <2>2. Working = {}
        BY <2>1 DEF Working, AtWork
    <2>3. Left
        BY PhaseAssumption DEF Init, Left
    <2>4. scan = "paused"
        BY DEF Init
    <2> QED
        BY <2>1, <2>2, <2>3, <2>4 DEF Counts
<1>2. Typed /\ Counts /\ [Next]_vars => Counts'
    <2> SUFFICES ASSUME Typed, Counts, [Next]_vars PROVE Counts'
        OBVIOUS
    <2>1. CASE UNCHANGED vars
        BY <2>1 DEF Counts, Left, Pending, Working, Crashed, vars
    <2> QED
        BY <2>1, RequestCounts, WorkCounts DEF Next
<1>3. Counts => OutcomeCounted
    BY DEF Counts, Left, OutcomeCounted
<1> QED
    BY <1>1, <1>2, <1>3, InitTyped, NextTyped, PTL DEF Spec

-----------------------------------------------------------------------------
(* Sprays.                                                                 *)

SprayRow == [at : Sp!Stage, users : SUBSET Users, todo : SUBSET Sp!Pairs,
             passwords : SUBSET Passwords, won : SUBSET Sp!Pairs,
             locked : SUBSET Users, left : SUBSET Users]

\* Only a task that updates has something reported, and users left.
SprayTyped ==
    /\ Sp!TypeOK /\ spray \in [Sprays -> SprayRow]
    /\ \A s \in Sprays : spray[s].at # "updating" => spray[s].won = {} /\ spray[s].left = {}

\* A task that listed the pending rows has the password of every row of its users,
\* but for those added behind its back; once it has run, all rows of its users were
\* asked for or added so.
Listed(s) ==
    /\ spray[s].at = "listed" =>
         \A x \in Sp!Pairs : x[1] \in spray[s].users /\ rows[x] = "pending" =>
           x[2] \in spray[s].passwords \/ x \in added
    /\ spray[s].at = "updating" =>
         /\ spray[s].won \subseteq hits
         /\ \A x \in Sp!Pairs : x[1] \in spray[s].users /\ rows[x] # "none" =>
              x \in asked \cup added

\* Rows that were rewritten were asked for, or added so.
Rewritten ==
    \A x \in Sp!Pairs : rows[x] \notin {"none", "pending"} => x \in asked \cup added

SprayInv ==
    /\ SprayTyped
    /\ Sp!PendingSprayDriven /\ Sp!RowsEarned
    /\ \A s \in Sprays : Listed(s)
    /\ Rewritten

\* A pair is a user and a password.
LEMMA PairParts ==
    ASSUME NEW x \in Sp!Pairs
    PROVE  x[1] \in Users /\ x[2] \in Passwords /\ x = <<x[1], x[2]>>
BY DEF Sp!Pairs

\* One who has ended has nothing left but its users.
LEMMA EndedRow ==
    ASSUME NEW row2 \in SprayRow, NEW how \in {"done", "dead"}
    PROVE  /\ Sp!Ended(how, row2) \in SprayRow
           /\ Sp!Ended(how, row2).at = how
           /\ Sp!Ended(how, row2).users = row2.users
           /\ Sp!Ended(how, row2).todo = {} /\ Sp!Ended(how, row2).won = {}
           /\ Sp!Ended(how, row2).left = {}
BY DEF SprayRow, Sp!Ended, Sp!Idle, Sp!Stage

\* A request or a task that goes on, and leaves the rows and the history alone, keeps
\* the invariant if its new row keeps what is said of it.
LEMMA SprayMoves ==
    ASSUME SprayInv, NEW s \in Sprays, NEW new \in SprayRow,
           spray' = [spray EXCEPT ![s] = new],
           UNCHANGED <<rows, asked, hits, added>>,
           new.at # "updating", new.won = {}, new.left = {},
           new.todo \subseteq new.users \X Passwords,
           new.at = "listed" =>
             \A x \in Sp!Pairs : x[1] \in new.users /\ rows[x] = "pending" =>
               x[2] \in new.passwords \/ x \in added,
           spray[s].at \in {"new", "done"} \/ new.at \in {"creating", "queued", "listed", "dead"}
             \/ Sp!Pending = {},
           spray[s].at \in {"new", "done"} \/ new.users = spray[s].users
    PROVE  SprayInv'
<1>1. spray \in [Sprays -> SprayRow]
    BY DEF SprayInv, SprayTyped
<1>2. spray' \in [Sprays -> SprayRow] /\ spray'[s] = new /\ \A q \in Sprays : q # s => spray'[q] = spray[q]
    BY <1>1
<1>3. SprayTyped'
    <2>1. \A q \in Sprays : /\ spray'[q].at \in Sp!Stage
                            /\ spray'[q].todo \subseteq spray'[q].users \X Passwords
                            /\ spray'[q].won \subseteq spray'[q].users \X spray'[q].passwords
                            /\ spray'[q].left \subseteq spray'[q].users
        BY <1>2 DEF SprayInv, SprayTyped, Sp!TypeOK, SprayRow
    <2>2. \A q \in Sprays : spray'[q].at # "updating" => spray'[q].won = {} /\ spray'[q].left = {}
        BY <1>2 DEF SprayInv, SprayTyped
    <2> QED
        BY <1>2, <2>1, <2>2 DEF SprayInv, SprayTyped, Sp!TypeOK
<1>4. Sp!PendingSprayDriven'
    <2> SUFFICES ASSUME NEW x \in Sp!Pairs, rows[x] = "pending"
                 PROVE  \E q \in Sprays :
                          /\ x[1] \in spray'[q].users
                          /\ \/ spray'[q].at \in {"creating", "queued", "listed", "dead"}
                             \/ spray'[q].at = "updating" /\ x[1] \in spray'[q].left
        BY DEF Sp!PendingSprayDriven
    <2>1. PICK q \in Sprays :
            /\ x[1] \in spray[q].users
            /\ \/ spray[q].at \in {"creating", "queued", "listed", "dead"}
               \/ spray[q].at = "updating" /\ x[1] \in spray[q].left
        BY DEF SprayInv, Sp!PendingSprayDriven
    <2>2. x \in Sp!Pending
        BY DEF Sp!Pending
    <2> QED
        BY <1>2, <2>1, <2>2
<1>5. \A q \in Sprays : Listed(q)'
    BY <1>2 DEF SprayInv, Listed
<1> QED
    BY <1>3, <1>4, <1>5 DEF SprayInv, Sp!RowsEarned, Rewritten

\* A request, before it adds rows; a task that is sent and takes its passwords; and
\* one that dies.
LEMMA SprayMoveSteps ==
    ASSUME SprayInv, NEW s \in Sprays,
           \/ \E us \in SUBSET Users, ps \in SUBSET Passwords : Sp!Ask(s, us, ps)
           \/ Sp!Dispatch(s) \/ Sp!List(s) \/ Sp!Die(s)
    PROVE  SprayInv'
<1>1. spray[s] \in SprayRow
    BY DEF SprayInv, SprayTyped
<1>2. ASSUME NEW us \in SUBSET Users, NEW ps \in SUBSET Passwords, Sp!Ask(s, us, ps)
      PROVE  SprayInv'
    <2> DEFINE new == [spray[s] EXCEPT !.at = "creating", !.users = us, !.todo = us \X ps]
    <2>1. spray' = [spray EXCEPT ![s] = new] /\ UNCHANGED <<rows, asked, hits, added>> /\ spray[s].at = "new"
        BY <1>2 DEF Sp!Ask
    <2>2. us \X ps \in SUBSET Sp!Pairs /\ us \X ps \subseteq us \X Passwords
        BY DEF Sp!Pairs
    <2>3. new \in SprayRow /\ new.at = "creating" /\ new.users = us /\ new.todo = us \X ps
          /\ new.won = spray[s].won /\ new.left = spray[s].left
        BY <1>1, <2>2 DEF SprayRow, Sp!Stage
    <2>4. spray[s].won = {} /\ spray[s].left = {}
        BY <2>1 DEF SprayInv, SprayTyped
    <2> HIDE DEF new
    <2> QED
        BY <2>1, <2>2, <2>3, <2>4, SprayMoves
<1>3. CASE Sp!Dispatch(s)
    <2> DEFINE new == [spray[s] EXCEPT !.at = "queued"]
    <2>1. spray' = [spray EXCEPT ![s] = new] /\ UNCHANGED <<rows, asked, hits, added>>
          /\ spray[s].at = "creating"
        BY <1>1, <1>3 DEF Sp!Dispatch, SprayRow
    <2>2. new \in SprayRow /\ new.at = "queued" /\ new.users = spray[s].users /\ new.todo = spray[s].todo
          /\ new.won = spray[s].won /\ new.left = spray[s].left
        BY <1>1 DEF SprayRow, Sp!Stage
    <2>3. spray[s].won = {} /\ spray[s].left = {} /\ spray[s].todo \subseteq spray[s].users \X Passwords
        BY <2>1 DEF SprayInv, SprayTyped, Sp!TypeOK
    <2> HIDE DEF new
    <2> QED
        BY <2>1, <2>2, <2>3, SprayMoves
<1>4. CASE Sp!List(s) /\ Sp!Pending = {}
    <2>1. spray' = [spray EXCEPT ![s] = Sp!Ended("done", spray[s])]
          /\ UNCHANGED <<rows, asked, hits, added>>
        BY <1>4 DEF Sp!List
    <2> QED
        BY <1>1, <1>4, <2>1, EndedRow, SprayMoves
<1>5. CASE Sp!List(s) /\ Sp!Pending # {}
    <2> DEFINE ps == {x[2] : x \in Sp!Pending}
               new == [spray[s] EXCEPT !.at = "listed", !.passwords = ps]
    <2>1. spray' = [spray EXCEPT ![s] = new] /\ UNCHANGED <<rows, asked, hits, added>>
          /\ spray[s].at = "queued"
        BY <1>5 DEF Sp!List
    <2>2. ps \in SUBSET Passwords
        BY PairParts DEF Sp!Pending
    <2>3. \A x \in Sp!Pairs : rows[x] = "pending" => x[2] \in ps
        BY DEF Sp!Pending
    <2> HIDE DEF ps
    <2>4. new \in SprayRow /\ new.at = "listed" /\ new.users = spray[s].users /\ new.todo = spray[s].todo
          /\ new.won = spray[s].won /\ new.left = spray[s].left /\ new.passwords = ps
        BY <1>1, <2>2 DEF SprayRow, Sp!Stage
    <2>5. spray[s].won = {} /\ spray[s].left = {} /\ spray[s].todo \subseteq spray[s].users \X Passwords
        BY <2>1 DEF SprayInv, SprayTyped, Sp!TypeOK
    <2> HIDE DEF new
    <2> QED
        BY <2>1, <2>3, <2>4, <2>5, SprayMoves
<1>6. CASE Sp!Die(s)
    <2>1. spray' = [spray EXCEPT ![s] = Sp!Ended("dead", spray[s])]
          /\ UNCHANGED <<rows, asked, hits, added>>
        BY <1>6 DEF Sp!Die
    <2> QED
        BY <1>1, <2>1, EndedRow, SprayMoves
<1> QED
    BY <1>2, <1>3, <1>4, <1>5, <1>6

\* A row that is added is driven by the request that adds it; if a task has read the
\* rows of its user, it is on record.
LEMMA AddRowStep ==
    ASSUME SprayInv, NEW s \in Sprays, NEW x \in Sp!Pairs, Sp!AddRow(s, x)
    PROVE  SprayInv'
<1> DEFINE new == [spray[s] EXCEPT !.todo = @ \ {x}]
<1>1. spray[s] \in SprayRow /\ rows \in [Sp!Pairs -> Sp!Status] /\ spray \in [Sprays -> SprayRow]
    BY DEF SprayInv, SprayTyped, Sp!TypeOK
<1>2. /\ spray' = [spray EXCEPT ![s] = new]
      /\ spray[s].at = "creating" /\ x \in spray[s].todo
      /\ rows' = IF rows[x] = "none" THEN [rows EXCEPT ![x] = "pending"] ELSE rows
      /\ added' = IF rows[x] = "none" /\ Sp!Read(x[1]) THEN added \cup {x} ELSE added
      /\ UNCHANGED <<asked, hits>>
    BY <1>1 DEF Sp!AddRow, SprayRow
<1>3. /\ new \in SprayRow /\ new.at = "creating" /\ new.users = spray[s].users
      /\ new.todo = spray[s].todo \ {x}
      /\ new.won = spray[s].won /\ new.left = spray[s].left /\ new.passwords = spray[s].passwords
    BY <1>1, <1>2 DEF SprayRow
<1> HIDE DEF new
<1>4. /\ spray' \in [Sprays -> SprayRow] /\ spray'[s] = new
      /\ \A q \in Sprays : q # s => spray'[q] = spray[q]
    BY <1>1, <1>2, <1>3
<1>5. /\ rows' \in [Sp!Pairs -> Sp!Status]
      /\ \A y \in Sp!Pairs : rows'[y] = rows[y] \/ (y = x /\ rows[y] = "none" /\ rows'[y] = "pending")
    BY <1>1, <1>2 DEF Sp!Status
<1>6. x[1] \in spray[s].users
    BY <1>2 DEF SprayInv, SprayTyped, Sp!TypeOK
<1>7. added \subseteq added' /\ added' \subseteq Sp!Pairs
    BY <1>2 DEF SprayInv, SprayTyped, Sp!TypeOK
<1>8. SprayTyped'
    <2>1. \A q \in Sprays : /\ spray'[q].at \in Sp!Stage
                            /\ spray'[q].todo \subseteq spray'[q].users \X Passwords
                            /\ spray'[q].won \subseteq spray'[q].users \X spray'[q].passwords
                            /\ spray'[q].left \subseteq spray'[q].users
        BY <1>3, <1>4 DEF SprayInv, SprayTyped, Sp!TypeOK, SprayRow
    <2>2. \A q \in Sprays : spray'[q].at # "updating" => spray'[q].won = {} /\ spray'[q].left = {}
        BY <1>2, <1>3, <1>4 DEF SprayInv, SprayTyped
    <2> QED
        BY <1>2, <1>4, <1>5, <1>7, <2>1, <2>2 DEF SprayInv, SprayTyped, Sp!TypeOK
<1>9. Sp!PendingSprayDriven'
    <2> SUFFICES ASSUME NEW y \in Sp!Pairs, rows'[y] = "pending"
                 PROVE  \E q \in Sprays :
                          /\ y[1] \in spray'[q].users
                          /\ \/ spray'[q].at \in {"creating", "queued", "listed", "dead"}
                             \/ spray'[q].at = "updating" /\ y[1] \in spray'[q].left
        BY DEF Sp!PendingSprayDriven
    <2>1. CASE y = x
        BY <1>3, <1>4, <1>6, <2>1
    <2>2. CASE rows[y] = "pending"
        <3>1. PICK q \in Sprays :
                /\ y[1] \in spray[q].users
                /\ \/ spray[q].at \in {"creating", "queued", "listed", "dead"}
                   \/ spray[q].at = "updating" /\ y[1] \in spray[q].left
            BY <2>2 DEF SprayInv, Sp!PendingSprayDriven
        <3> QED
            BY <1>2, <1>3, <1>4, <3>1
    <2> QED
        BY <1>5, <2>1, <2>2
<1>10. Sp!RowsEarned' /\ Rewritten'
    BY <1>2, <1>5, <1>7 DEF SprayInv, Sp!RowsEarned, Rewritten
<1>11. ASSUME NEW q \in Sprays
       PROVE  Listed(q)'
    <2>1. CASE q = s
        BY <1>3, <1>4, <2>1 DEF Listed
    <2>2. CASE q # s /\ rows[x] = "none" /\ spray[q].at \in {"listed", "updating"} /\ x[1] \in spray[q].users
        <3>1. x \in added'
            BY <1>2, <2>2 DEF Sp!Read
        <3> QED
            BY <1>2, <1>4, <1>5, <1>7, <2>2, <3>1 DEF SprayInv, Listed
    <2>3. CASE q # s /\ ~(rows[x] = "none" /\ spray[q].at \in {"listed", "updating"} /\ x[1] \in spray[q].users)
        BY <1>2, <1>4, <1>5, <1>7, <2>3 DEF SprayInv, Listed
    <2> QED
        BY <2>1, <2>2, <2>3
<1> QED
    BY <1>8, <1>9, <1>10, <1>11 DEF SprayInv

\* nxc has run: all rows of its users were asked for, but for those added since.
LEMMA RunStep ==
    ASSUME SprayInv, NEW s \in Sprays, NEW w \in SUBSET Sp!Pairs, NEW l \in SUBSET Users,
           Sp!Spray(s, w, l)
    PROVE  SprayInv'
<1> DEFINE new == [spray[s] EXCEPT !.at = "updating", !.won = w, !.locked = l, !.left = spray[s].users]
<1>1. spray[s] \in SprayRow /\ rows \in [Sp!Pairs -> Sp!Status] /\ spray \in [Sprays -> SprayRow]
    BY DEF SprayInv, SprayTyped, Sp!TypeOK
<1>2. /\ spray' = [spray EXCEPT ![s] = new]
      /\ spray[s].at = "listed" /\ w \subseteq spray[s].users \X spray[s].passwords
      /\ asked' = asked \cup (spray[s].users \X spray[s].passwords)
      /\ hits' = hits \cup w
      /\ UNCHANGED <<rows, added>>
    BY DEF Sp!Spray
<1>3. /\ new \in SprayRow /\ new.at = "updating" /\ new.users = spray[s].users
      /\ new.todo = spray[s].todo
      /\ new.won = w /\ new.left = spray[s].users /\ new.passwords = spray[s].passwords
    BY <1>1 DEF SprayRow, Sp!Stage
<1> HIDE DEF new
<1>4. /\ spray' \in [Sprays -> SprayRow] /\ spray'[s] = new
      /\ \A q \in Sprays : q # s => spray'[q] = spray[q]
    BY <1>1, <1>2, <1>3
<1>5. asked' \subseteq Sp!Pairs /\ hits' \subseteq Sp!Pairs
    BY <1>1, <1>2 DEF SprayInv, SprayTyped, Sp!TypeOK, SprayRow, Sp!Pairs
<1>6. SprayTyped'
    <2>1. \A q \in Sprays : /\ spray'[q].at \in Sp!Stage
                            /\ spray'[q].todo \subseteq spray'[q].users \X Passwords
                            /\ spray'[q].won \subseteq spray'[q].users \X spray'[q].passwords
                            /\ spray'[q].left \subseteq spray'[q].users
        BY <1>2, <1>3, <1>4 DEF SprayInv, SprayTyped, Sp!TypeOK, SprayRow
    <2>2. \A q \in Sprays : spray'[q].at # "updating" => spray'[q].won = {} /\ spray'[q].left = {}
        BY <1>3, <1>4 DEF SprayInv, SprayTyped
    <2> QED
        BY <1>2, <1>4, <1>5, <2>1, <2>2 DEF SprayInv, SprayTyped, Sp!TypeOK
<1>7. Sp!PendingSprayDriven'
    <2> SUFFICES ASSUME NEW y \in Sp!Pairs, rows[y] = "pending"
                 PROVE  \E q \in Sprays :
                          /\ y[1] \in spray'[q].users
                          /\ \/ spray'[q].at \in {"creating", "queued", "listed", "dead"}
                             \/ spray'[q].at = "updating" /\ y[1] \in spray'[q].left
        BY <1>2 DEF Sp!PendingSprayDriven
    <2>1. PICK q \in Sprays :
            /\ y[1] \in spray[q].users
            /\ \/ spray[q].at \in {"creating", "queued", "listed", "dead"}
               \/ spray[q].at = "updating" /\ y[1] \in spray[q].left
        BY DEF SprayInv, Sp!PendingSprayDriven
    <2> QED
        BY <1>3, <1>4, <2>1
<1>8. Sp!RowsEarned' /\ Rewritten'
    BY <1>2 DEF SprayInv, Sp!RowsEarned, Rewritten
<1>9. \A x \in Sp!Pairs : x[1] \in spray[s].users /\ rows[x] # "none" => x \in asked' \cup added
    <2> SUFFICES ASSUME NEW x \in Sp!Pairs, x[1] \in spray[s].users, rows[x] # "none"
                 PROVE  x \in asked' \cup added
        OBVIOUS
    <2>1. CASE rows[x] = "pending"
        <3>1. x[2] \in spray[s].passwords \/ x \in added
            BY <1>2, <2>1 DEF SprayInv, Listed
        <3>2. x = <<x[1], x[2]>>
            BY PairParts
        <3>3. x[2] \in spray[s].passwords => x \in spray[s].users \X spray[s].passwords
            BY <3>2
        <3> QED
            BY <1>2, <3>1, <3>3
    <2>2. CASE rows[x] # "pending"
        BY <1>2, <2>2 DEF SprayInv, Rewritten
    <2> QED
        BY <2>1, <2>2
<1>10. ASSUME NEW q \in Sprays
       PROVE  Listed(q)'
    <2>1. CASE q = s
        BY <1>2, <1>3, <1>4, <1>9, <2>1 DEF Listed
    <2>2. CASE q # s
        BY <1>2, <1>4, <2>2 DEF SprayInv, Listed
    <2> QED
        BY <2>1, <2>2
<1> QED
    BY <1>6, <1>7, <1>8, <1>10 DEF SprayInv

\* A user's rows are rewritten: none stays pending, each as nxc reported.
LEMMA UpdateStep ==
    ASSUME SprayInv, NEW s \in Sprays, NEW u \in Users, Sp!Update(s, u)
    PROVE  SprayInv'
<1> DEFINE new == IF spray[s].left = {u} THEN Sp!Ended("done", spray[s])
                  ELSE [spray[s] EXCEPT !.left = spray[s].left \ {u}]
<1>1. spray[s] \in SprayRow /\ rows \in [Sp!Pairs -> Sp!Status] /\ spray \in [Sprays -> SprayRow]
    BY DEF SprayInv, SprayTyped, Sp!TypeOK
<1>2. /\ spray' = [spray EXCEPT ![s] = new]
      /\ spray[s].at = "updating" /\ u \in spray[s].left
      /\ rows' = [x \in Sp!Pairs |-> IF x[1] = u /\ rows[x] # "none" THEN Sp!Verdict(s, x) ELSE rows[x]]
      /\ UNCHANGED <<asked, hits, added>>
    <2>1. spray' = [spray EXCEPT ![s] = new]
        BY DEF Sp!Update
    <2> QED
        BY <2>1 DEF Sp!Update
<1>3. /\ new \in SprayRow /\ new.users = spray[s].users
      /\ new.left = spray[s].left \ {u} /\ new.todo \subseteq spray[s].todo
      /\ new.at \in {"updating", "done"}
      /\ new.at = "updating" => new.won = spray[s].won /\ new.passwords = spray[s].passwords
      /\ new.at = "done" => new.won = {} /\ new.left = {}
    <2>1. CASE spray[s].left = {u}
        BY <1>1, <2>1, EndedRow
    <2>2. CASE spray[s].left # {u}
        <3>1. new = [spray[s] EXCEPT !.left = spray[s].left \ {u}]
            BY <2>2
        <3> QED
            BY <1>1, <1>2, <3>1 DEF SprayRow
    <2> QED
        BY <2>1, <2>2
<1> HIDE DEF new
<1>4. /\ spray' \in [Sprays -> SprayRow] /\ spray'[s] = new
      /\ \A q \in Sprays : q # s => spray'[q] = spray[q]
    BY <1>1, <1>2, <1>3
<1>5. \A x \in Sp!Pairs : Sp!Verdict(s, x) \in {"success", "failed", "locked"}
                          /\ (Sp!Verdict(s, x) = "success" => x \in spray[s].won)
    BY DEF Sp!Verdict
<1>6. u \in spray[s].users
    BY <1>2 DEF SprayInv, SprayTyped, Sp!TypeOK
<1>7. rows' \in [Sp!Pairs -> Sp!Status]
    BY <1>1, <1>2, <1>5 DEF Sp!Status
<1>8. \A x \in Sp!Pairs :
        \/ rows'[x] = rows[x] /\ (x[1] = u => rows[x] = "none")
        \/ /\ x[1] = u /\ rows[x] # "none" /\ rows'[x] \in {"success", "failed", "locked"}
           /\ rows'[x] = "success" => x \in spray[s].won
    BY <1>2, <1>5
<1>9. SprayTyped'
    <2>1. \A q \in Sprays : /\ spray'[q].at \in Sp!Stage
                            /\ spray'[q].todo \subseteq spray'[q].users \X Passwords
                            /\ spray'[q].won \subseteq spray'[q].users \X spray'[q].passwords
                            /\ spray'[q].left \subseteq spray'[q].users
        BY <1>3, <1>4 DEF SprayInv, SprayTyped, Sp!TypeOK, SprayRow
    <2>2. \A q \in Sprays : spray'[q].at # "updating" => spray'[q].won = {} /\ spray'[q].left = {}
        BY <1>3, <1>4 DEF SprayInv, SprayTyped
    <2> QED
        BY <1>2, <1>4, <1>7, <2>1, <2>2 DEF SprayInv, SprayTyped, Sp!TypeOK
<1>10. Sp!PendingSprayDriven'
    <2> SUFFICES ASSUME NEW y \in Sp!Pairs, rows'[y] = "pending"
                 PROVE  \E q \in Sprays :
                          /\ y[1] \in spray'[q].users
                          /\ \/ spray'[q].at \in {"creating", "queued", "listed", "dead"}
                             \/ spray'[q].at = "updating" /\ y[1] \in spray'[q].left
        BY DEF Sp!PendingSprayDriven
    <2>1. rows[y] = "pending" /\ y[1] # u
        BY <1>8
    <2>2. PICK q \in Sprays :
            /\ y[1] \in spray[q].users
            /\ \/ spray[q].at \in {"creating", "queued", "listed", "dead"}
               \/ spray[q].at = "updating" /\ y[1] \in spray[q].left
        BY <2>1 DEF SprayInv, Sp!PendingSprayDriven
    <2>3. q = s => y[1] \in new.left /\ new.at = "updating"
        BY <1>2, <1>3, <2>1, <2>2
    <2> QED
        BY <1>3, <1>4, <2>2, <2>3
<1>11. \A x \in Sp!Pairs : x[1] = u /\ rows[x] # "none" => x \in asked \cup added
    BY <1>2, <1>6 DEF SprayInv, Listed
<1>12. spray[s].won \subseteq hits
    BY <1>2 DEF SprayInv, Listed
<1>13. Rewritten'
    BY <1>2, <1>8, <1>11 DEF SprayInv, Rewritten
<1>14. Sp!RowsEarned'
    BY <1>2, <1>8, <1>11, <1>12 DEF SprayInv, Sp!RowsEarned
<1>15. ASSUME NEW q \in Sprays
       PROVE  Listed(q)'
    <2>1. CASE q = s
        BY <1>2, <1>3, <1>4, <1>8, <2>1 DEF SprayInv, Listed
    <2>2. CASE q # s
        BY <1>2, <1>4, <1>8, <2>2 DEF SprayInv, Listed
    <2> QED
        BY <2>1, <2>2
<1> QED
    BY <1>9, <1>10, <1>13, <1>14, <1>15 DEF SprayInv

\* So every step keeps it.
LEMMA SprayNext == SprayInv /\ [Sp!Next]_Sp!vars => SprayInv'
<1> SUFFICES ASSUME SprayInv, [Sp!Next]_Sp!vars PROVE SprayInv'
    OBVIOUS
<1>1. CASE UNCHANGED Sp!vars
    BY <1>1 DEF Sp!vars, SprayInv, SprayTyped, Sp!TypeOK, Sp!PendingSprayDriven, Sp!RowsEarned, Listed, Rewritten
<1> QED
    BY <1>1, SprayMoveSteps, AddRowStep, RunStep, UpdateStep DEF Sp!Next

\* It holds before the first request.
LEMMA SprayInit == Sp!Init => SprayInv
<1> SUFFICES ASSUME Sp!Init PROVE SprayInv
    OBVIOUS
<1>1. Sp!Idle \in SprayRow /\ Sp!Idle.at = "new" /\ Sp!Idle.users = {} /\ Sp!Idle.todo = {}
      /\ Sp!Idle.won = {} /\ Sp!Idle.left = {}
    BY DEF Sp!Idle, SprayRow, Sp!Stage
<1>2. spray \in [Sprays -> SprayRow] /\ \A s \in Sprays : spray[s] = Sp!Idle
    BY <1>1 DEF Sp!Init
<1>3. rows \in [Sp!Pairs -> Sp!Status] /\ \A x \in Sp!Pairs : rows[x] = "none"
    BY DEF Sp!Init, Sp!Status
<1>4. SprayTyped
    BY <1>1, <1>2, <1>3 DEF Sp!Init, SprayTyped, Sp!TypeOK, SprayRow
<1> QED
    BY <1>1, <1>2, <1>3, <1>4 DEF SprayInv, Sp!PendingSprayDriven, Sp!RowsEarned, Listed, Rewritten

\* A row of a spray says what nxc said of its pair; while it is pending a request or a
\* task is on the way to rewrite it, or one died (run_spray, run_spray_task).
LEMMA SpraysExplained == Sp!Spec => [](Sp!TypeOK /\ Sp!PendingSprayDriven /\ Sp!RowsEarned)
<1>1. SprayInv => Sp!TypeOK /\ Sp!PendingSprayDriven /\ Sp!RowsEarned
    BY DEF SprayInv, SprayTyped
<1> QED
    BY <1>1, SprayInit, SprayNext, PTL DEF Sp!Spec


-----------------------------------------------------------------------------
(* Scheduled scans.                                                        *)

\* No schedule is called what stands for none; a period is a month at most; the
\* model's days reach over Init.
Times ==
    /\ Beat!None \notin Schedules /\ Period \in [Schedules -> 1 .. 31]
    /\ LastTick \in Nat /\ LastTick >= 2

\* A run is due at its time of day, an odd tick.
Odd(t) == t = Beat!RunTick(t)

\* A job has the schedule: it has still to launch its scan, or to save its next run.
Todo(j, s) == \E x \in todo[j] : x[1] = s
Holds(j, s) == launched[j] = s \/ Todo(j, s)

\* What is so of a schedule nothing has happened to.  One job at most has it, and
\* once; what the job has read is still the next run; that is a period after the
\* last unless the job has launched it, and then the last is not ahead.
Regular(s) ==
    /\ \A i, j \in Jobs : Holds(i, s) /\ Holds(j, s) => i = j
    /\ \A j \in Jobs : ~(launched[j] = s /\ Todo(j, s))
    /\ \A j \in Jobs : \A x \in todo[j] : x[1] = s => x[2] = row[s].next
    /\ last[s] # Beat!Never /\ (\A j \in Jobs : launched[j] # s) =>
         row[s].next >= last[s] + 2 * Period[s]
    /\ last[s] # Beat!Never => last[s] <= now

BeatInv ==
    /\ Beat!TypeOK /\ todo \in [Jobs -> SUBSET (Schedules \X Beat!Ticks)]
    /\ \A s \in Schedules : Odd(row[s].next) /\ (last[s] # Beat!Never => Odd(last[s]))
    /\ \A j \in Jobs : \A x \in todo[j] : Odd(x[2]) /\ x[2] # Beat!Never /\ x[2] <= now
    /\ \A j \in Jobs : launched[j] # Beat!None => last[launched[j]] # Beat!Never
    /\ \A s \in Schedules : s \notin odd => Regular(s)
    /\ Beat!OncePerPeriod

\* Today's time is an odd tick, now or the next; a period on it is one as well.
LEMMA RunTicks ==
    ASSUME NEW t \in Nat
    PROVE  /\ Beat!RunTick(t) \in Nat /\ Odd(Beat!RunTick(t))
           /\ Beat!RunTick(t) \in {t, t + 1} /\ Beat!RunTick(t) # 0
           /\ \A k \in Nat : Odd(Beat!RunTick(t) + 2 * k)
BY DEF Beat!RunTick, Odd

\* The next run is reckoned from today, is ahead, and by a period if today's is over.
LEMMA CalcAhead ==
    ASSUME Times, NEW s \in Schedules, NEW t \in 0 .. LastTick
    PROVE  /\ Beat!Calc(s, t) \in Beat!Ticks /\ Odd(Beat!Calc(s, t))
           /\ ~(t < Beat!RunTick(t)) => Beat!Calc(s, t) = t + 2 * Period[s]
           /\ Period[s] \in 1 .. 31
<1>1. Period[s] \in 1 .. 31
    BY DEF Times
<1>2. t \in Nat /\ LastTick \in Nat
    BY DEF Times
<1>3. /\ Beat!RunTick(t) \in Nat /\ Odd(Beat!RunTick(t)) /\ Beat!RunTick(t) \in {t, t + 1}
      /\ Odd(Beat!RunTick(t) + 2 * Period[s])
    <2>1. Period[s] \in Nat
        BY <1>1
    <2> QED
        BY <1>2, <2>1, RunTicks
<1>4. Beat!Calc(s, t) = IF t < Beat!RunTick(t) THEN Beat!RunTick(t) ELSE Beat!RunTick(t) + 2 * Period[s]
    BY DEF Beat!Calc
<1>5. Odd(Beat!Calc(s, t))
    BY <1>3, <1>4
<1>6. Beat!Calc(s, t) \in Beat!Ticks
    BY <1>1, <1>2, <1>3, <1>4 DEF Beat!Ticks
<1>7. ~(t < Beat!RunTick(t)) => Beat!RunTick(t) = t
    BY <1>2, <1>3
<1> QED
    BY <1>1, <1>4, <1>5, <1>6, <1>7

\* It holds when the schedules are made.
LEMMA BeatInit ==
    ASSUME Times, Beat!Init
    PROVE  BeatInv
<1>1. now = 2 /\ now \in 0 .. LastTick
    BY DEF Beat!Init, Times
<1>2. row = [s \in Schedules |-> [live |-> TRUE, enabled |-> TRUE, next |-> Beat!Calc(s, now)]]
    BY DEF Beat!Init
<1>3. \A s \in Schedules : Beat!Calc(s, now) \in Beat!Ticks /\ Odd(Beat!Calc(s, now))
    BY <1>1, CalcAhead
<1>4. row \in [Schedules -> Beat!Row] /\ \A s \in Schedules : Odd(row[s].next)
    BY <1>2, <1>3 DEF Beat!Row
<1>5. 0 \in Beat!Ticks
    BY DEF Beat!Ticks, Times
<1>6. Beat!TypeOK /\ todo \in [Jobs -> SUBSET (Schedules \X Beat!Ticks)]
    BY <1>1, <1>4, <1>5 DEF Beat!Init, Beat!TypeOK, Beat!Never
<1> QED
    BY <1>4, <1>6 DEF Beat!Init, BeatInv, Regular, Holds, Todo, Beat!OncePerPeriod, Times

\* What users do to a schedule, and time: a schedule that is not edited keeps its next
\* run, and the last run does not move.
LEMMA UserKeepsRegular ==
    ASSUME Times, BeatInv,
           Beat!Pass \/ \E s \in Schedules : Beat!Toggle(s) \/ Beat!Edit(s) \/ Beat!Delete(s)
    PROVE  BeatInv'
<1> USE DEF BeatInv, Beat!TypeOK
<1>0. now \in Nat /\ \A s \in Schedules : row[s] \in Beat!Row /\ last[s] \in Nat
    BY DEF Times, Beat!Ticks
<1>1. CASE Beat!Pass
    <2>1. now' \in 0 .. LastTick /\ now' \in Nat /\ now <= now' /\ UNCHANGED <<row, todo, launched, last, close, odd>>
        BY <1>1, <1>0 DEF Beat!Pass, Times
    <2>2. \A s \in Schedules : last[s] # Beat!Never /\ last[s] <= now => last[s] <= now'
        BY <1>0, <2>1
    <2>3. \A s \in Schedules : s \notin odd => Regular(s)'
        BY <2>1, <2>2 DEF Regular, Holds, Todo
    <2>4. \A j \in Jobs : \A x \in todo[j] : x[2] \in Nat
        BY DEF Beat!Ticks, Times
    <2>5. \A j \in Jobs : \A x \in todo[j] : Odd(x[2]) /\ x[2] # Beat!Never /\ x[2] <= now'
        BY <1>0, <2>1, <2>4
    <2> QED
        BY <2>1, <2>3, <2>5 DEF Odd, Beat!RunTick, Beat!OncePerPeriod
<1>2. ASSUME NEW s \in Schedules, Beat!Toggle(s) \/ Beat!Delete(s)
      PROVE  BeatInv'
    <2>1. UNCHANGED <<now, todo, launched, last, close, odd>>
        BY <1>2 DEF Beat!Toggle, Beat!Delete
    <2>2. row' \in [Schedules -> Beat!Row] /\ \A q \in Schedules : row'[q].next = row[q].next
        <3>1. CASE Beat!Delete(s)
            BY <1>0, <3>1 DEF Beat!Delete, Beat!Row
        <3>2. CASE Beat!Toggle(s)
            <4> DEFINE on == ~row[s].enabled
            <4>1. on \in BOOLEAN
                OBVIOUS
            <4>2. row' = [row EXCEPT ![s].enabled = on]
                BY <3>2 DEF Beat!Toggle
            <4> HIDE DEF on
            <4> QED
                BY <1>0, <4>1, <4>2 DEF Beat!Row
        <3> QED
            BY <1>2, <3>1, <3>2
    <2>3. \A q \in Schedules : q \notin odd => Regular(q)'
        BY <2>1, <2>2 DEF Regular, Holds, Todo
    <2> QED
        BY <2>1, <2>2, <2>3 DEF Odd, Beat!RunTick, Beat!OncePerPeriod
<1>3. ASSUME NEW s \in Schedules, Beat!Edit(s)
      PROVE  BeatInv'
    <2>1. UNCHANGED <<now, todo, launched, last, close>> /\ odd' = odd \cup {s}
        BY <1>3 DEF Beat!Edit
    <2>2. row' = [row EXCEPT ![s].next = Beat!Calc(s, now)]
        BY <1>3 DEF Beat!Edit
    <2>3. Beat!Calc(s, now) \in Beat!Ticks /\ Odd(Beat!Calc(s, now))
        BY CalcAhead
    <2>4. row' \in [Schedules -> Beat!Row] /\ row'[s].next = Beat!Calc(s, now)
          /\ \A q \in Schedules : q # s => row'[q] = row[q]
        BY <1>0, <2>2, <2>3 DEF Beat!Row
    <2>5. \A q \in Schedules : q \notin odd' => Regular(q)'
        BY <2>1, <2>4 DEF Regular, Holds, Todo
    <2>6. \A q \in Schedules : Odd(row'[q].next)
        BY <2>3, <2>4
    <2> QED
        BY <2>1, <2>4, <2>5, <2>6 DEF Odd, Beat!RunTick, Beat!OncePerPeriod
<1> QED
    BY <1>1, <1>2, <1>3

\* A job reads what is due: a schedule another one has is on record.
LEMMA CheckStep ==
    ASSUME Times, BeatInv, NEW j \in Jobs, Beat!Check(j)
    PROVE  BeatInv'
<1> USE DEF BeatInv, Beat!TypeOK
<1>1. /\ todo' = [todo EXCEPT ![j] = {<<s, row[s].next>> : s \in Beat!Due}]
      /\ odd' = odd \cup {s \in Beat!Due : Beat!Read(s)}
      /\ UNCHANGED <<now, row, launched, last, close>>
      /\ ~Beat!Busy(j)
    BY DEF Beat!Check
<1>2. Beat!Due \subseteq Schedules
    BY DEF Beat!Due
<1>3. \A s \in Beat!Due : row[s].next \in Beat!Ticks /\ row[s].next # Beat!Never /\ row[s].next <= now
    BY <1>2 DEF Beat!Due, Beat!Row
<1>4. {<<s, row[s].next>> : s \in Beat!Due} \in SUBSET (Schedules \X Beat!Ticks)
    BY <1>2, <1>3
<1>5. todo' \in [Jobs -> SUBSET (Schedules \X Beat!Ticks)]
      /\ todo'[j] = {<<s, row[s].next>> : s \in Beat!Due}
      /\ \A i \in Jobs : i # j => todo'[i] = todo[i]
    BY <1>1, <1>4
<1>6. \A x \in todo'[j] : x[1] \in Beat!Due /\ x[2] = row[x[1]].next
    BY <1>5
<1>7. \A i \in Jobs : \A x \in todo'[i] : Odd(x[2]) /\ x[2] # Beat!Never /\ x[2] <= now
    BY <1>2, <1>3, <1>5, <1>6
<1>8. ASSUME NEW s \in Schedules, s \notin odd'
      PROVE  Regular(s)'
    <2>1. s \notin odd /\ Regular(s)
        BY <1>1, <1>8
    <2>2. launched[j] # s
        BY <1>1, <1>8 DEF Beat!Busy, Times
    <2>3. \A i \in Jobs : i # j => (Todo(i, s)' <=> Todo(i, s)) /\ (Holds(i, s)' <=> Holds(i, s))
        BY <1>1, <1>5 DEF Todo, Holds
    <2>4. CASE s \in Beat!Due
        <3>1. ~Beat!Read(s)
            BY <1>1, <1>8, <2>4
        <3>2. \A i \in Jobs : ~Holds(i, s)
            BY <3>1 DEF Beat!Read, Holds, Todo
        <3>3. \A i \in Jobs : Holds(i, s)' => i = j
            BY <2>3, <3>2
        <3>4. \A i \in Jobs : launched[i] # s
            BY <3>2 DEF Holds
        <3>5. \A i \in Jobs : \A x \in todo'[i] : x[1] = s => x[2] = row[s].next
            BY <1>5, <1>6, <2>1 DEF Regular
        <3> QED
            BY <1>1, <2>1, <3>3, <3>4, <3>5 DEF Regular
    <2>5. CASE s \notin Beat!Due
        <3>1. ~Todo(j, s)'
            BY <1>6, <2>5 DEF Todo
        <3>2. ~Holds(j, s)'
            BY <1>1, <2>2, <3>1 DEF Holds
        <3>3. \A i \in Jobs : (Holds(i, s)' => Holds(i, s)) /\ (Todo(i, s)' => Todo(i, s))
            BY <2>3, <3>1, <3>2
        <3>4. \A i \in Jobs : \A x \in todo'[i] : x[1] = s => x[2] = row[s].next
            BY <1>5, <1>6, <2>1, <2>5 DEF Regular
        <3> QED
            BY <1>1, <2>1, <3>3, <3>4 DEF Regular
    <2> QED
        BY <2>4, <2>5
<1> QED
    BY <1>1, <1>5, <1>7, <1>8, <1>2 DEF Odd, Beat!RunTick, Beat!OncePerPeriod

\* A job launches the scan of a schedule: the run it has read is still the next, and a
\* period after the last.
LEMMA LaunchStep ==
    ASSUME Times, BeatInv, NEW j \in Jobs, Beat!LaunchNext(j)
    PROVE  BeatInv'
<1> USE DEF BeatInv, Beat!TypeOK
<1>1. PICK x \in todo[j] :
        /\ launched' = [launched EXCEPT ![j] = x[1]]
        /\ todo' = [todo EXCEPT ![j] = @ \ {x}]
        /\ last' = [last EXCEPT ![x[1]] = x[2]]
        /\ close' = IF last[x[1]] # Beat!Never /\ x[2] < last[x[1]] + 2 * Period[x[1]]
                    THEN close \cup {x[1]} ELSE close
    BY DEF Beat!LaunchNext
<1>2. launched[j] = Beat!None /\ UNCHANGED <<now, row, odd>>
    BY DEF Beat!LaunchNext
<1>3. x[1] \in Schedules /\ x[2] \in Beat!Ticks /\ x[2] \in Nat
      /\ Odd(x[2]) /\ x[2] # Beat!Never /\ x[2] <= now
    BY DEF Beat!Ticks, Times
<1>4. todo' \in [Jobs -> SUBSET (Schedules \X Beat!Ticks)]
      /\ todo'[j] = todo[j] \ {x} /\ \A i \in Jobs : i # j => todo'[i] = todo[i]
    BY <1>1
<1>5. launched' \in [Jobs -> Schedules \cup {Beat!None}]
      /\ launched'[j] = x[1] /\ \A i \in Jobs : i # j => launched'[i] = launched[i]
    BY <1>1, <1>3
<1>6. last' \in [Schedules -> Beat!Ticks] /\ last'[x[1]] = x[2]
      /\ \A s \in Schedules : s # x[1] => last'[s] = last[s]
    BY <1>1, <1>3
<1>7. Holds(j, x[1]) /\ Todo(j, x[1])
    BY DEF Holds, Todo
<1>8. \A i \in Jobs, s \in Schedules : Holds(i, s)' => Holds(i, s) \/ (i = j /\ s = x[1])
    BY <1>4, <1>5 DEF Holds, Todo
<1>9. ASSUME NEW s \in Schedules, s \notin odd
      PROVE  Regular(s)'
    <2>1. Regular(s)
        BY <1>9
    <2>2. \A i, k \in Jobs : Holds(i, s)' /\ Holds(k, s)' => i = k
        BY <1>7, <1>8, <2>1 DEF Regular
    <2>3. \A i \in Jobs : ~(launched'[i] = s /\ Todo(i, s)')
        <3> SUFFICES ASSUME NEW i \in Jobs, launched'[i] = s, NEW y \in todo'[i], y[1] = s
                     PROVE  FALSE
            BY DEF Todo
        <3>1. y \in todo[i]
            BY <1>4
        <3>2. CASE i = j
            <4>1. s = x[1] /\ y # x
                BY <1>4, <1>5, <3>2
            <4>2. x[2] = row[s].next /\ y[2] = row[s].next
                BY <2>1, <3>1, <3>2, <4>1 DEF Regular
            <4>3. x = <<x[1], x[2]>> /\ y = <<y[1], y[2]>>
                BY <3>1, <3>2
            <4> QED
                BY <4>1, <4>2, <4>3
        <3>3. CASE i # j
            BY <1>5, <2>1, <3>1, <3>3 DEF Regular, Todo
        <3> QED
            BY <3>2, <3>3
    <2>4. \A i \in Jobs : \A y \in todo'[i] : y[1] = s => y[2] = row[s].next
        BY <1>4, <2>1 DEF Regular
    <2>5. last'[s] # Beat!Never => last'[s] <= now
        BY <1>3, <1>6, <2>1 DEF Regular
    <2>6. (\A i \in Jobs : launched'[i] # s) => s # x[1] /\ \A i \in Jobs : launched[i] # s
        BY <1>2, <1>5, <1>9 DEF Times
    <2>7. last'[s] # Beat!Never /\ (\A i \in Jobs : launched'[i] # s) =>
            row[s].next >= last'[s] + 2 * Period[s]
        BY <1>6, <2>1, <2>6 DEF Regular
    <2> QED
        BY <1>2, <2>2, <2>3, <2>4, <2>5, <2>7 DEF Regular
<1>10. x[1] \notin odd => close' = close
    <2> SUFFICES ASSUME x[1] \notin odd, last[x[1]] # Beat!Never
                 PROVE  ~(x[2] < last[x[1]] + 2 * Period[x[1]])
        BY <1>1
    <2>1. Regular(x[1]) /\ x[2] = row[x[1]].next
        BY <1>3 DEF Regular
    <2>2. \A i \in Jobs : launched[i] # x[1]
        <3> SUFFICES ASSUME NEW i \in Jobs, launched[i] = x[1]
                     PROVE  FALSE
            OBVIOUS
        <3>1. Holds(i, x[1])
            BY DEF Holds
        <3> QED
            BY <1>7, <2>1, <3>1 DEF Regular
    <2>3. row[x[1]].next >= last[x[1]] + 2 * Period[x[1]]
        BY <2>1, <2>2 DEF Regular
    <2>4. last[x[1]] \in Nat /\ Period[x[1]] \in Nat
        BY <1>3 DEF Beat!Ticks, Times
    <2> QED
        BY <1>3, <2>1, <2>3, <2>4
<1>11. close' \subseteq odd /\ close' \subseteq Schedules
    BY <1>1, <1>3, <1>10 DEF Beat!OncePerPeriod
<1>12. \A s \in Schedules : last'[s] # Beat!Never => Odd(last'[s])
    BY <1>3, <1>6
<1>13. \A i \in Jobs : launched'[i] # Beat!None => last'[launched'[i]] # Beat!Never
    BY <1>3, <1>5, <1>6
<1>14. \A i \in Jobs : \A y \in todo'[i] : Odd(y[2]) /\ y[2] # Beat!Never /\ y[2] <= now
    BY <1>4
<1> QED
    BY <1>2, <1>4, <1>5, <1>6, <1>9, <1>11, <1>12, <1>13, <1>14 DEF Odd, Beat!RunTick, Beat!OncePerPeriod

\* A job saves the next run: it is a period after the last, or that was due on another
\* day, which is on record.
LEMMA SaveStep ==
    ASSUME Times, BeatInv, NEW j \in Jobs, Beat!SaveNext(j)
    PROVE  BeatInv'
<1> USE DEF BeatInv, Beat!TypeOK
<1> DEFINE u == launched[j]
<1>1. /\ u # Beat!None /\ u \in Schedules
      /\ row' = [row EXCEPT ![u].next = Beat!Calc(u, now)]
      /\ launched' = [launched EXCEPT ![j] = Beat!None]
      /\ odd' = IF last[u] < now /\ now < Beat!RunTick(now) THEN odd \cup {u} ELSE odd
      /\ UNCHANGED <<now, todo, last, close>>
    BY DEF Beat!SaveNext
<1>2. last[u] # Beat!Never
    BY <1>1
<1> HIDE DEF u
<1>3. Beat!Calc(u, now) \in Beat!Ticks /\ Odd(Beat!Calc(u, now))
      /\ (~(now < Beat!RunTick(now)) => Beat!Calc(u, now) = now + 2 * Period[u])
      /\ Period[u] \in 1 .. 31
    BY <1>1, CalcAhead
<1>4. row' \in [Schedules -> Beat!Row] /\ row'[u].next = Beat!Calc(u, now)
      /\ \A s \in Schedules : s # u => row'[s] = row[s]
    BY <1>1, <1>3 DEF Beat!Row
<1>5. launched' \in [Jobs -> Schedules \cup {Beat!None}] /\ launched'[j] = Beat!None
      /\ \A i \in Jobs : i # j => launched'[i] = launched[i]
    BY <1>1
<1>6. launched[j] = u
    BY DEF u
<1>7. Holds(j, u)
    BY <1>6 DEF Holds
<1>8. now \in Nat /\ last[u] \in Nat /\ Odd(last[u])
    BY <1>1, <1>2 DEF Beat!Ticks, Times
<1>9. ASSUME NEW s \in Schedules, s \notin odd'
      PROVE  Regular(s)'
    <2>1. s \notin odd /\ Regular(s)
        BY <1>1, <1>9
    <2>2. \A i \in Jobs : (Holds(i, s)' => Holds(i, s)) /\ (Todo(i, s)' <=> Todo(i, s))
        BY <1>1, <1>5, <1>9 DEF Holds, Todo, Times
    <2>3. \A i \in Jobs : launched'[i] = s => launched[i] = s
        BY <1>5, <1>9 DEF Times
    <2>4. CASE s = u
        <3>1. \A i \in Jobs : ~Todo(i, s)
            <4> SUFFICES ASSUME NEW i \in Jobs, Todo(i, s)
                         PROVE  FALSE
                OBVIOUS
            <4>1. Holds(i, s)
                BY DEF Holds
            <4>2. i = j
                BY <1>7, <2>1, <2>4, <4>1 DEF Regular
            <4> QED
                BY <1>6, <2>1, <2>4, <4>2 DEF Regular
        <3>2. last[s] <= now
            BY <1>2, <2>1, <2>4 DEF Regular
        <3>3. ~(now < Beat!RunTick(now))
            <4>1. CASE last[u] < now
                BY <1>1, <1>9, <2>4, <4>1
            <4>2. CASE last[u] = now
                <5>1. now = Beat!RunTick(now)
                    BY <1>8, <4>2 DEF Odd
                <5> QED
                    BY <1>8, <5>1
            <4> QED
                BY <1>8, <2>4, <3>2, <4>1, <4>2
        <3>4. row'[s].next >= last[s] + 2 * Period[s]
            BY <1>3, <1>4, <1>8, <2>4, <3>2, <3>3
        <3>5. \A i \in Jobs : \A y \in todo[i] : y[1] # s
            BY <3>1 DEF Todo
        <3> QED
            BY <1>1, <2>1, <2>2, <2>3, <3>2, <3>4, <3>5 DEF Regular
    <2>5. CASE s # u
        <3>1. \A i \in Jobs : launched[i] = s => launched'[i] = s
            BY <1>5, <1>6, <2>5
        <3> QED
            BY <1>1, <1>4, <2>1, <2>2, <2>3, <2>5, <3>1 DEF Regular
    <2> QED
        BY <2>4, <2>5
<1>10. \A s \in Schedules : Odd(row'[s].next)
    BY <1>3, <1>4
<1>11. odd \subseteq odd' /\ odd' \subseteq Schedules
    BY <1>1
<1> QED
    BY <1>1, <1>4, <1>5, <1>9, <1>10, <1>11 DEF Odd, Beat!RunTick, Beat!OncePerPeriod

\* A job that raises or dies drops what it has; a schedule it had launched is on record.
LEMMA DropStep ==
    ASSUME Times, BeatInv, NEW j \in Jobs, Beat!SaveFails(j) \/ Beat!Die(j)
    PROVE  BeatInv'
<1> USE DEF BeatInv, Beat!TypeOK
<1>1. /\ launched' = [launched EXCEPT ![j] = Beat!None]
      /\ todo' = [todo EXCEPT ![j] = {}]
      /\ odd' = odd \cup ({launched[j]} \ {Beat!None})
      /\ UNCHANGED <<now, row, last, close>>
    BY DEF Beat!SaveFails, Beat!Die
<1>2. todo' \in [Jobs -> SUBSET (Schedules \X Beat!Ticks)] /\ todo'[j] = {}
      /\ \A i \in Jobs : i # j => todo'[i] = todo[i]
    BY <1>1
<1>3. launched' \in [Jobs -> Schedules \cup {Beat!None}] /\ launched'[j] = Beat!None
      /\ \A i \in Jobs : i # j => launched'[i] = launched[i]
    BY <1>1
<1>4. odd' \subseteq Schedules
    BY <1>1
<1>5. ASSUME NEW s \in Schedules, s \notin odd'
      PROVE  Regular(s)'
    <2>1. s \notin odd /\ Regular(s) /\ launched[j] # s
        BY <1>1, <1>5 DEF Times
    <2>2. \A i \in Jobs : (Holds(i, s)' => Holds(i, s)) /\ (Todo(i, s)' => Todo(i, s))
        BY <1>2, <1>3, <1>5 DEF Holds, Todo, Times
    <2>3. \A i \in Jobs : launched'[i] = s <=> launched[i] = s
        BY <1>3, <1>5, <2>1 DEF Times
    <2>4. \A i \in Jobs : \A y \in todo'[i] : y[1] = s => y[2] = row[s].next
        BY <1>2, <2>1 DEF Regular
    <2> QED
        BY <1>1, <2>1, <2>2, <2>3, <2>4 DEF Regular
<1> QED
    BY <1>1, <1>2, <1>3, <1>4, <1>5 DEF Odd, Beat!RunTick, Beat!OncePerPeriod

\* Every step keeps it.
LEMMA BeatNext ==
    ASSUME Times, BeatInv, [Beat!Next]_Beat!vars
    PROVE  BeatInv'
<1>1. CASE UNCHANGED Beat!vars
    BY <1>1 DEF Beat!vars, BeatInv, Beat!TypeOK, Regular, Holds, Todo, Odd, Beat!RunTick, Beat!OncePerPeriod
<1> QED
    BY <1>1, UserKeepsRegular, CheckStep, LaunchStep, SaveStep, DropStep DEF Beat!Next

\* Two scans of a schedule are a period apart, unless two jobs had it at a time, a job
\* raised or died before it had saved the next run, the job came a day late, or the
\* schedule was edited (check_scheduled_scans, _calc_next_run).
LEMMA SchedulesRegular ==
    ASSUME Times
    PROVE  Beat!Spec => [](Beat!TypeOK /\ Beat!OncePerPeriod)
<1>1. Beat!Init => BeatInv
    BY BeatInit
<1>2. BeatInv /\ [Beat!Next]_Beat!vars => BeatInv'
    BY BeatNext
<1>3. BeatInv => Beat!TypeOK /\ Beat!OncePerPeriod
    BY DEF BeatInv
<1> QED
    BY <1>1, <1>2, <1>3, PTL DEF Beat!Spec


-----------------------------------------------------------------------------
(* Notices.                                                                *)

Stages == {"none", "asked", "shared", "creator", "publish", "marking", "over"}
Call == [at : Stages, kind : {"scan", "release"}, chat : Chat \cup {NoChat}, rev : Nat, release : Nat]
Message == [way : {"direct", "own", "bot"}, chat : Chat, rev : 0 .. Changes]

\* Bounds are numbers, and no chat is called what stands for none.
Bounds == Changes \in Nat /\ Notices \in Nat /\ NoChat \notin Chat

NewsTyped ==
    /\ shared \in [chat : Chat \cup {NoChat}, rev : Nat] /\ own \in Chat \cup {NoChat}
    /\ bot \in [up : BOOLEAN, listens : BOOLEAN, chat : Chat \cup {NoChat}, rev : Nat]
    /\ inbox \in Seq(News!Notice)
    /\ notice \in [News!Notice -> Call]
    /\ got \in [News!Notice -> SUBSET Message]
    /\ latest \in Nat /\ marked \in 0 .. latest /\ changes \in 0 .. Changes
    /\ excused \subseteq News!Notice /\ unsure \in BOOLEAN
    /\ bot.listens \/ inbox = <<>>
    /\ shared.rev <= changes

\* Who holds a chat, and as of which change of the shared one: the configuration, the
\* bot, a call of notify, and what was sent but to creators.
Tag(c, v) ==
    \/ shared.chat = c /\ shared.rev = v
    \/ bot.chat = c /\ bot.rev = v
    \/ \E n \in News!Notice : notice[n].chat = c /\ notice[n].rev = v
    \/ \E n \in News!Notice : \E g \in got[n] : g.way # "own" /\ g.chat = c /\ g.rev = v

\* None is ahead of the configuration, and a change made one chat the shared one.
Tagged ==
    /\ bot.rev <= shared.rev
    /\ \A n \in News!Notice : notice[n].rev <= shared.rev /\ \A g \in got[n] : g.rev <= shared.rev
    /\ \A c, d \in Chat, v \in Nat : Tag(c, v) /\ Tag(d, v) => c = d

\* What a call has sent by the time it is there.
Delivered(n) ==
    n \notin excused /\ notice[n].chat # NoChat =>
      /\ notice[n].at \in {"creator", "publish", "marking", "over"} =>
           [way |-> "direct", chat |-> notice[n].chat, rev |-> notice[n].rev] \in got[n]
      /\ notice[n].at \in {"marking", "over"} =>
           \/ \E i \in DOMAIN inbox : inbox[i] = n
           \/ \E g \in got[n] : g.way = "bot"

\* While nothing is unsure, releases are announced in their order and one at a time:
\* the entry names the last one that is through.
InOrder ==
    /\ \A n \in News!Notice :
         /\ notice[n].at = "none" => notice[n].kind = "scan"
         /\ notice[n].at = "marking" => notice[n].kind = "release"
         /\ notice[n].kind = "release" => notice[n].release <= latest /\ notice[n].release > 0
         /\ notice[n].kind = "release" /\ notice[n].at = "over" /\ ~unsure => notice[n].release <= marked
         /\ n \in News!Checking /\ ~unsure => notice[n].release > marked
    /\ ~unsure => \A m, n \in News!Checking : m = n

NewsInv ==
    /\ NewsTyped /\ Tagged
    /\ \A n \in News!Notice : Delivered(n)
    /\ InOrder /\ News!OncePerRelease

\* A call that moves on is as it was but for where it stands.
LEMMA CallMoves ==
    ASSUME NewsTyped, NEW n \in News!Notice, NEW s \in Stages, News!At(n, s)
    PROVE  /\ notice' \in [News!Notice -> Call]
           /\ notice'[n].at = s /\ notice'[n].kind = notice[n].kind /\ notice'[n].chat = notice[n].chat
           /\ notice'[n].rev = notice[n].rev /\ notice'[n].release = notice[n].release
           /\ \A m \in News!Notice : m # n => notice'[m] = notice[m]
BY DEF NewsTyped, Call, News!At

\* The order of the releases is kept by calls that go on, whatever they send.
LEMMA OrderKept ==
    ASSUME NewsTyped, InOrder, News!OncePerRelease, NEW n \in News!Notice,
           \A m \in News!Notice : m # n => notice'[m] = notice[m],
           notice'[n].kind = notice[n].kind, notice'[n].release = notice[n].release,
           notice'[n].at # "none", notice'[n].at = "marking" => notice[n].kind = "release",
           notice'[n].at = "over" => notice[n].kind = "scan",
           notice[n].at # "over",
           UNCHANGED <<latest, marked, unsure>>
    PROVE  InOrder' /\ News!OncePerRelease'
<1>1. News!Checking' \subseteq News!Checking
    BY DEF News!Checking, InOrder
<1>2. \A m \in News!Notice : notice'[m].kind = notice[m].kind /\ notice'[m].release = notice[m].release
    OBVIOUS
<1>3. \A m \in News!Notice : notice'[m].kind = "release" /\ notice'[m].at = "over" => notice[m].at = "over"
    OBVIOUS
<1> QED
    BY <1>1, <1>2, <1>3 DEF InOrder, News!OncePerRelease

\* It is kept by what touches no call.
LEMMA OrderIdle ==
    ASSUME InOrder, News!OncePerRelease, UNCHANGED <<notice, latest, marked, unsure>>
    PROVE  InOrder' /\ News!OncePerRelease'
BY DEF InOrder, News!OncePerRelease, News!Checking

\* Tags that only get fewer stay in step.
LEMMA TagsKept ==
    ASSUME Tagged, shared' = shared, bot'.rev <= shared.rev,
           \A m \in News!Notice : notice'[m].rev <= shared.rev /\ \A g \in got'[m] : g.rev <= shared.rev,
           \A c \in Chat, v \in Nat : Tag(c, v)' => Tag(c, v)
    PROVE  Tagged'
BY DEF Tagged

\* A message is of its call's revision, to a chat.
LEMMA SentTyped ==
    ASSUME NewsTyped, Bounds, NEW n \in News!Notice, NEW w \in {"direct", "own", "bot"}, NEW c \in Chat,
           NEW v \in Nat, v <= shared.rev, News!Sent(n, w, c, v)
    PROVE  /\ got' \in [News!Notice -> SUBSET Message]
           /\ got'[n] = got[n] \cup {[way |-> w, chat |-> c, rev |-> v]}
           /\ \A m \in News!Notice : m # n => got'[m] = got[m]
<1> DEFINE g == [way |-> w, chat |-> c, rev |-> v]
<1>1. v \in 0 .. Changes
    BY DEF NewsTyped, Bounds
<1>2. g \in Message
    BY <1>1 DEF Message
<1>3. got' = [got EXCEPT ![n] = got[n] \cup {g}]
    BY DEF News!Sent
<1> HIDE DEF g
<1>4. got' \in [News!Notice -> SUBSET Message] /\ got'[n] = got[n] \cup {g}
      /\ \A m \in News!Notice : m # n => got'[m] = got[m]
    BY <1>2, <1>3 DEF NewsTyped
<1> QED
    BY <1>4 DEF g

\* What send_telegram leaves: the message is sent, or its loss is on record, or both.
LEMMA SendLeaves ==
    ASSUME NewsTyped, Bounds, Tagged, NEW n \in News!Notice, NEW w \in {"direct", "own"},
           NEW c \in Chat \cup {NoChat}, News!Send(n, w, c)
    PROVE  /\ got' \in [News!Notice -> SUBSET Message]
           /\ \A m \in News!Notice : m # n => got'[m] = got[m]
           /\ got[n] \subseteq got'[n]
           /\ \A g \in got'[n] \ got[n] : g = [way |-> w, chat |-> c, rev |-> notice[n].rev] /\ c \in Chat
           /\ excused \subseteq excused' /\ excused' \subseteq excused \cup {n}
           /\ c # NoChat /\ n \notin excused' => [way |-> w, chat |-> c, rev |-> notice[n].rev] \in got'[n]
<1>1. notice[n].rev \in Nat /\ notice[n].rev <= shared.rev
    BY DEF NewsTyped, Call, Tagged
<1>2. CASE c = NoChat
    BY <1>2 DEF News!Send, NewsTyped
<1>3. CASE c # NoChat /\ News!Sent(n, w, c, notice[n].rev)
    <2>1. excused' = excused \/ excused' = excused \cup {n}
        BY <1>3 DEF News!Send, News!Lose
    <2> QED
        BY <1>1, <1>3, <2>1, SentTyped
<1>4. CASE c # NoChat /\ ~News!Sent(n, w, c, notice[n].rev)
    BY <1>4 DEF News!Send, News!Lose, NewsTyped
<1> QED
    BY <1>2, <1>3, <1>4


\* What a call has delivered stays so while the others go on.
LEMMA DeliveredKept ==
    ASSUME NEW n \in News!Notice, Delivered(n), notice'[n] = notice[n], got[n] \subseteq got'[n],
           excused \subseteq excused',
           \A i \in DOMAIN inbox : inbox[i] = n => \E k \in DOMAIN inbox' : inbox'[k] = n
    PROVE  Delivered(n)'
BY DEF Delivered

\* A call begins: it stands for no chat yet.
LEMMA BeginStep ==
    ASSUME Bounds, NewsInv, NEW n \in News!Notice, News!ScanEnds(n) \/ News!CheckForUpdates(n)
    PROVE  NewsInv'
<1> USE DEF NewsInv
<1>1. CASE News!ScanEnds(n)
    <2>0. News!At(n, "asked") /\ notice[n].at = "none"
          /\ UNCHANGED <<shared, own, bot, inbox, got, latest, marked, changes, excused, unsure>>
        BY <1>1 DEF News!ScanEnds, News!IsNext
    <2>1. /\ notice' \in [News!Notice -> Call]
          /\ notice'[n].at = "asked" /\ notice'[n].kind = notice[n].kind /\ notice'[n].chat = notice[n].chat
          /\ notice'[n].rev = notice[n].rev /\ notice'[n].release = notice[n].release
          /\ \A m \in News!Notice : m # n => notice'[m] = notice[m]
        BY <2>0, CallMoves DEF Stages
    <2>2. NewsTyped'
        BY <2>0, <2>1 DEF NewsTyped
    <2>3. \A m \in News!Notice : notice'[m].chat = notice[m].chat /\ notice'[m].rev = notice[m].rev
        BY <2>1
    <2>4. \A c \in Chat, v \in Nat : Tag(c, v)' => Tag(c, v)
        BY <2>0, <2>3 DEF Tag
    <2>5. Tagged'
        BY <2>0, <2>3, <2>4, TagsKept DEF Tagged
    <2>6. \A m \in News!Notice : Delivered(m)'
        BY <2>0, <2>1 DEF Delivered
    <2>7. InOrder' /\ News!OncePerRelease'
        BY <2>0, <2>1, OrderKept
    <2> QED
        BY <2>2, <2>5, <2>6, <2>7
<1>2. CASE News!CheckForUpdates(n)
    <2> DEFINE new == [News!Idle EXCEPT !.at = "asked", !.kind = "release", !.release = latest]
    <2>0. /\ notice[n].at = "none" /\ latest > 0 /\ marked # latest
          /\ notice' = [notice EXCEPT ![n] = new]
          /\ unsure' = (unsure \/ News!Checking # {})
          /\ UNCHANGED <<shared, own, bot, inbox, got, latest, marked, changes, excused>>
        BY <1>2 DEF News!CheckForUpdates, News!IsNext, News!News
    <2>1. new \in Call /\ new.at = "asked" /\ new.kind = "release" /\ new.chat = NoChat /\ new.rev = 0
          /\ new.release = latest
        <3>1. News!Idle \in Call /\ News!Idle.chat = NoChat /\ News!Idle.rev = 0
            BY DEF News!Idle, Call, Stages
        <3> QED
            BY <3>1 DEF Call, Stages, NewsTyped
    <2> HIDE DEF new
    <2>2. notice' \in [News!Notice -> Call] /\ notice'[n] = new
          /\ \A m \in News!Notice : m # n => notice'[m] = notice[m]
        BY <2>0, <2>1 DEF NewsTyped
    <2>3. NewsTyped'
        BY <2>0, <2>2 DEF NewsTyped
    <2>4. \A c \in Chat, v \in Nat : Tag(c, v)' => Tag(c, v)
        BY <2>0, <2>1, <2>2 DEF Tag, Bounds
    <2>5. \A m \in News!Notice : notice'[m].rev <= shared.rev
        BY <2>1, <2>2 DEF Tagged, NewsTyped
    <2>6. Tagged'
        BY <2>0, <2>4, <2>5, TagsKept DEF Tagged
    <2>7. \A m \in News!Notice : Delivered(m)'
        BY <2>0, <2>1, <2>2 DEF Delivered
    <2>8. News!Checking' \subseteq News!Checking \cup {n}
        BY <2>2 DEF News!Checking
    <2>9. \A m \in News!Notice : m # n /\ notice[m].kind = "release" /\ ~unsure' =>
            ~unsure /\ notice[m].at = "over" /\ notice[m].release <= marked
        BY <2>0 DEF News!Checking, InOrder, NewsTyped
    <2>10. latest \in Nat /\ marked \in Nat /\ marked < latest
           /\ \A m \in News!Notice : notice[m].release \in Nat
        BY <2>0 DEF NewsTyped, Call
    <2>11. ~unsure' => News!Checking = {}
        BY <2>0
    <2>12. News!OncePerRelease'
        BY <2>0, <2>1, <2>2, <2>9, <2>10 DEF News!OncePerRelease
    <2>13. InOrder'
        <3>1. \A m \in News!Notice :
                /\ notice'[m].at = "none" => notice'[m].kind = "scan"
                /\ notice'[m].at = "marking" => notice'[m].kind = "release"
                /\ notice'[m].kind = "release" => notice'[m].release <= latest /\ notice'[m].release > 0
            BY <2>0, <2>1, <2>2, <2>10 DEF InOrder
        <3>2. \A m \in News!Notice :
                notice'[m].kind = "release" /\ notice'[m].at = "over" /\ ~unsure' => notice'[m].release <= marked
            BY <2>1, <2>2, <2>9
        <3>3. \A m \in News!Checking' : ~unsure' => m = n /\ notice'[m].release > marked
            BY <2>1, <2>2, <2>8, <2>10, <2>11
        <3> QED
            BY <2>0, <3>1, <3>2, <3>3 DEF InOrder
    <2> QED
        BY <2>3, <2>6, <2>7, <2>12, <2>13
<1> QED
    BY <1>1, <1>2

\* A release that is marked is the only one in progress, and later than those before.
LEMMA MarkStep ==
    ASSUME Bounds, NewsInv, NEW n \in News!Notice, News!Mark(n)
    PROVE  NewsInv'
<1> USE DEF NewsInv
<1>0. /\ News!At(n, "over") /\ notice[n].at = "marking" /\ marked' = notice[n].release
      /\ UNCHANGED <<shared, own, bot, inbox, got, latest, changes, excused, unsure>>
    BY DEF News!Mark
<1>1. /\ notice' \in [News!Notice -> Call]
      /\ notice'[n].at = "over" /\ notice'[n].kind = notice[n].kind /\ notice'[n].chat = notice[n].chat
      /\ notice'[n].rev = notice[n].rev /\ notice'[n].release = notice[n].release
      /\ \A m \in News!Notice : m # n => notice'[m] = notice[m]
    BY <1>0, CallMoves DEF Stages
<1>2. notice[n].kind = "release" /\ n \in News!Checking
    BY <1>0 DEF InOrder, News!Checking
<1>3. \A m \in News!Notice : notice[m].release \in Nat
    BY DEF NewsTyped, Call
<1>4. marked' \in 0 .. latest
    BY <1>0, <1>2, <1>3 DEF InOrder, NewsTyped
<1>5. NewsTyped'
    BY <1>0, <1>1, <1>4 DEF NewsTyped
<1>6. \A m \in News!Notice : notice'[m].chat = notice[m].chat /\ notice'[m].rev = notice[m].rev
    BY <1>1
<1>7. \A c \in Chat, v \in Nat : Tag(c, v)' => Tag(c, v)
    BY <1>0, <1>6 DEF Tag
<1>8. Tagged'
    BY <1>0, <1>6, <1>7, TagsKept DEF Tagged
<1>9. \A m \in News!Notice : Delivered(m)'
    BY <1>0, <1>1 DEF Delivered
<1>10. News!Checking' = News!Checking \ {n}
    BY <1>0, <1>1 DEF News!Checking
<1>11. ~unsure => marked < marked' /\ \A m \in News!Checking : m = n
    BY <1>0, <1>2 DEF InOrder
<1>12. News!OncePerRelease'
    BY <1>0, <1>1 DEF News!OncePerRelease
<1>13. InOrder'
    <2>1. \A m \in News!Notice :
            /\ notice'[m].at = "none" => notice'[m].kind = "scan"
            /\ notice'[m].at = "marking" => notice'[m].kind = "release"
            /\ notice'[m].kind = "release" => notice'[m].release <= latest /\ notice'[m].release > 0
        BY <1>1 DEF InOrder
    <2>2. ASSUME NEW m \in News!Notice, notice'[m].kind = "release", notice'[m].at = "over", ~unsure
          PROVE  notice'[m].release <= marked'
        <3>1. CASE m = n
            BY <1>0, <1>1, <1>3, <3>1
        <3>2. CASE m # n
            <4>1. notice[m].release <= marked
                BY <1>1, <2>2, <3>2 DEF InOrder
            <4> QED
                BY <1>0, <1>1, <1>3, <1>11, <2>2, <3>2, <4>1 DEF NewsTyped
        <3> QED
            BY <3>1, <3>2
    <2>3. ~unsure => News!Checking' = {}
        BY <1>10, <1>11
    <2> QED
        BY <1>0, <2>1, <2>2, <2>3 DEF InOrder
<1> QED
    BY <1>5, <1>8, <1>9, <1>12, <1>13

\* A call takes the shared chat, or ends without.
LEMMA ReadStep ==
    ASSUME Bounds, NewsInv, NEW n \in News!Notice, News!ReadConfig(n)
    PROVE  NewsInv'
<1> USE DEF NewsInv
<1>0. notice[n].at = "asked" /\ UNCHANGED <<shared, own, bot, inbox, got, latest, marked, changes, unsure>>
    BY DEF News!ReadConfig
<1> DEFINE new == [notice[n] EXCEPT !.at = "shared", !.chat = shared.chat, !.rev = shared.rev]
<1>1. CASE notice' = [notice EXCEPT ![n] = new] /\ UNCHANGED excused
    <2>1. new \in Call /\ new.at = "shared" /\ new.kind = notice[n].kind /\ new.chat = shared.chat
          /\ new.rev = shared.rev /\ new.release = notice[n].release
        BY DEF NewsTyped, Call, Stages
    <2> HIDE DEF new
    <2>2. notice' \in [News!Notice -> Call] /\ notice'[n] = new
          /\ \A m \in News!Notice : m # n => notice'[m] = notice[m]
        BY <1>1, <2>1 DEF NewsTyped
    <2>3. NewsTyped'
        BY <1>0, <1>1, <2>2 DEF NewsTyped
    <2>4. \A c \in Chat, v \in Nat : Tag(c, v)' => Tag(c, v)
        BY <1>0, <2>1, <2>2 DEF Tag
    <2>5. \A m \in News!Notice : notice'[m].rev <= shared.rev
        BY <2>1, <2>2 DEF Tagged, NewsTyped
    <2>6. Tagged'
        BY <1>0, <2>4, <2>5, TagsKept DEF Tagged
    <2>7. \A m \in News!Notice : Delivered(m)'
        BY <1>0, <1>1, <2>1, <2>2 DEF Delivered
    <2>8. InOrder' /\ News!OncePerRelease'
        BY <1>0, <2>1, <2>2, OrderKept
    <2> QED
        BY <2>3, <2>6, <2>7, <2>8
<1>2. CASE News!At(n, News!Returned(n)) /\ News!Lose(n)
    <2>0. News!Returned(n) \in Stages /\ News!Returned(n) \in {"over", "marking"}
          /\ (News!Returned(n) = "marking" <=> notice[n].kind = "release")
        BY DEF News!Returned, Stages, NewsTyped, Call
    <2>1. /\ notice' \in [News!Notice -> Call]
          /\ notice'[n].at = News!Returned(n) /\ notice'[n].kind = notice[n].kind
          /\ notice'[n].chat = notice[n].chat
          /\ notice'[n].rev = notice[n].rev /\ notice'[n].release = notice[n].release
          /\ \A m \in News!Notice : m # n => notice'[m] = notice[m]
        BY <1>2, <2>0, CallMoves
    <2>2. excused' = excused \cup {n}
        BY <1>2 DEF News!Lose
    <2>3. NewsTyped'
        BY <1>0, <2>1, <2>2 DEF NewsTyped
    <2>4. \A m \in News!Notice : notice'[m].chat = notice[m].chat /\ notice'[m].rev = notice[m].rev
        BY <2>1
    <2>5. \A c \in Chat, v \in Nat : Tag(c, v)' => Tag(c, v)
        BY <1>0, <2>4 DEF Tag
    <2>6. Tagged'
        BY <1>0, <2>4, <2>5, TagsKept DEF Tagged
    <2>7. \A m \in News!Notice : Delivered(m)'
        BY <1>0, <2>1, <2>2 DEF Delivered
    <2>8. notice[n].kind \in {"scan", "release"}
        BY DEF NewsTyped, Call
    <2>9. InOrder' /\ News!OncePerRelease'
        BY <1>0, <2>0, <2>1, <2>8, OrderKept
    <2> QED
        BY <2>3, <2>6, <2>7, <2>9
<1> QED
    BY <1>1, <1>2 DEF News!ReadConfig

\* What is sent to the shared chat is tagged as the call is; what is sent to a creator
\* is no tag.
LEMMA SendStep ==
    ASSUME Bounds, NewsInv, NEW n \in News!Notice, News!SendShared(n) \/ News!SendToCreator(n)
    PROVE  NewsInv'
<1> USE DEF NewsInv
<1> DEFINE way == IF notice[n].at = "shared" THEN "direct" ELSE "own"
           to == IF notice[n].at = "shared" THEN notice[n].chat ELSE own
           next == IF notice[n].at = "shared" /\ notice[n].kind = "scan" THEN "creator" ELSE "publish"
<1>0. /\ notice[n].at \in {"shared", "creator"}
      /\ News!Send(n, way, to) /\ News!At(n, next)
      /\ UNCHANGED <<shared, own, bot, inbox, latest, marked, changes, unsure>>
    BY DEF News!SendShared, News!SendToCreator
<1>1. way \in {"direct", "own"} /\ to \in Chat \cup {NoChat} /\ next \in {"creator", "publish"}
      /\ next \in Stages
    BY DEF NewsTyped, Call, Stages
<1>w. (way = "direct" => to = notice[n].chat /\ notice[n].at = "shared") /\ (way = "own" => notice[n].at = "creator")
    BY <1>0
<1> HIDE DEF way, to, next
<1>2. /\ notice' \in [News!Notice -> Call]
      /\ notice'[n].at = next /\ notice'[n].kind = notice[n].kind /\ notice'[n].chat = notice[n].chat
      /\ notice'[n].rev = notice[n].rev /\ notice'[n].release = notice[n].release
      /\ \A m \in News!Notice : m # n => notice'[m] = notice[m]
    BY <1>0, <1>1, CallMoves
<1>3. /\ got' \in [News!Notice -> SUBSET Message]
      /\ \A m \in News!Notice : m # n => got'[m] = got[m]
      /\ got[n] \subseteq got'[n]
      /\ \A g \in got'[n] \ got[n] : g = [way |-> way, chat |-> to, rev |-> notice[n].rev] /\ to \in Chat
      /\ excused \subseteq excused' /\ excused' \subseteq excused \cup {n}
      /\ to # NoChat /\ n \notin excused' => [way |-> way, chat |-> to, rev |-> notice[n].rev] \in got'[n]
    BY <1>0, <1>1, SendLeaves
<1>4. NewsTyped'
    BY <1>0, <1>2, <1>3 DEF NewsTyped
<1>5. \A m \in News!Notice : notice'[m].chat = notice[m].chat /\ notice'[m].rev = notice[m].rev
    BY <1>2
<1>6. \A g \in got'[n] \ got[n] : g.way = way /\ g.chat = to /\ g.rev = notice[n].rev
    BY <1>3
<1>7. \A c \in Chat, v \in Nat : Tag(c, v)' => Tag(c, v)
    <2> SUFFICES ASSUME NEW c \in Chat, NEW v \in Nat, Tag(c, v)'
                 PROVE  Tag(c, v)
        OBVIOUS
    <2>1. ASSUME NEW m \in News!Notice, NEW g \in got'[m], g.way # "own", g.chat = c, g.rev = v
          PROVE  Tag(c, v)
        <3>1. CASE g \in got[m]
            BY <2>1, <3>1 DEF Tag
        <3>2. CASE g \notin got[m]
            <4>1. m = n /\ g.way = way /\ g.chat = to /\ g.rev = notice[n].rev
                BY <1>3, <1>6, <2>1, <3>2
            <4>2. way = "direct" /\ to = notice[n].chat
                BY <1>1, <1>w, <2>1, <4>1
            <4> QED
                BY <2>1, <4>1, <4>2 DEF Tag
        <3> QED
            BY <3>1, <3>2
    <2> QED
        BY <1>0, <1>5, <2>1 DEF Tag
<1>8. \A m \in News!Notice : \A g \in got'[m] : g.rev <= shared.rev
    BY <1>3, <1>6 DEF Tagged
<1>9. Tagged'
    BY <1>0, <1>5, <1>7, <1>8, TagsKept DEF Tagged
<1>10. \A m \in News!Notice : Delivered(m)'
    <2>1. ASSUME NEW m \in News!Notice, m # n
          PROVE  Delivered(m)'
        BY <1>0, <1>2, <1>3, <2>1, DeliveredKept
    <2>2. Delivered(n)'
        <3> SUFFICES ASSUME n \notin excused', notice'[n].chat # NoChat
                     PROVE  [way |-> "direct", chat |-> notice'[n].chat, rev |-> notice'[n].rev] \in got'[n]
            BY <1>1, <1>2 DEF Delivered
        <3>1. CASE way = "direct"
            BY <1>2, <1>3, <1>w, <3>1
        <3>2. CASE way = "own"
            BY <1>2, <1>3, <1>w, <3>2 DEF Delivered
        <3> QED
            BY <1>1, <3>1, <3>2
    <2> QED
        BY <2>1, <2>2
<1>11. InOrder' /\ News!OncePerRelease'
    BY <1>0, <1>1, <1>2, OrderKept
<1> QED
    BY <1>4, <1>9, <1>10, <1>11

\* A call that ends publishes, or loses what it had still to send.
LEMMA EndStep ==
    ASSUME Bounds, NewsInv, NEW n \in News!Notice, News!Publish(n) \/ News!Crash(n)
    PROVE  NewsInv'
<1> USE DEF NewsInv
<1>k. notice[n].kind \in {"scan", "release"}
    BY DEF NewsTyped, Call
<1>1. CASE News!Publish(n)
    <2>0. /\ notice[n].at = "publish" /\ News!At(n, News!Returned(n))
          /\ UNCHANGED <<shared, own, bot, got, latest, marked, changes, unsure>>
          /\ \/ bot.listens /\ inbox' = Append(inbox, n) /\ UNCHANGED excused
             \/ UNCHANGED inbox /\ excused' = excused \cup {n}
        BY <1>1 DEF News!Publish, News!Lose
    <2>1. News!Returned(n) \in Stages /\ News!Returned(n) \in {"over", "marking"}
          /\ (News!Returned(n) = "marking" <=> notice[n].kind = "release")
        BY <1>k DEF News!Returned, Stages
    <2>2. /\ notice' \in [News!Notice -> Call]
          /\ notice'[n].at = News!Returned(n) /\ notice'[n].kind = notice[n].kind
          /\ notice'[n].chat = notice[n].chat
          /\ notice'[n].rev = notice[n].rev /\ notice'[n].release = notice[n].release
          /\ \A m \in News!Notice : m # n => notice'[m] = notice[m]
        BY <2>0, <2>1, CallMoves
    <2>3. /\ inbox' \in Seq(News!Notice) /\ excused \subseteq excused' /\ excused' \subseteq News!Notice
          /\ bot.listens \/ inbox' = <<>>
          /\ \A i \in DOMAIN inbox : i \in DOMAIN inbox' /\ inbox'[i] = inbox[i]
          /\ n \notin excused' => \E i \in DOMAIN inbox' : inbox'[i] = n
        <3>1. inbox \in Seq(News!Notice) /\ excused \subseteq News!Notice /\ (bot.listens \/ inbox = <<>>)
            BY DEF NewsTyped
        <3>2. CASE bot.listens /\ inbox' = Append(inbox, n) /\ UNCHANGED excused
            <4>1. Len(inbox) \in Nat /\ DOMAIN inbox = 1 .. Len(inbox)
                BY <3>1
            <4>2. DOMAIN inbox' = 1 .. Len(inbox) + 1 /\ inbox'[Len(inbox) + 1] = n
                  /\ \A i \in 1 .. Len(inbox) : inbox'[i] = inbox[i]
                BY <3>1, <3>2
            <4> QED
                BY <3>1, <3>2, <4>1, <4>2
        <3>3. CASE UNCHANGED inbox /\ excused' = excused \cup {n}
            BY <3>1, <3>3
        <3> QED
            BY <2>0, <3>2, <3>3
    <2>4. NewsTyped'
        BY <2>0, <2>2, <2>3 DEF NewsTyped
    <2>5. \A m \in News!Notice : notice'[m].chat = notice[m].chat /\ notice'[m].rev = notice[m].rev
        BY <2>2
    <2>6. \A c \in Chat, v \in Nat : Tag(c, v)' => Tag(c, v)
        BY <2>0, <2>5 DEF Tag
    <2>7. Tagged'
        BY <2>0, <2>5, <2>6, TagsKept DEF Tagged
    <2>8. \A m \in News!Notice : m # n => Delivered(m)'
        BY <2>0, <2>2, <2>3, DeliveredKept
    <2>9. Delivered(n)'
        BY <2>0, <2>2, <2>3 DEF Delivered
    <2>10. InOrder' /\ News!OncePerRelease'
        BY <1>k, <2>0, <2>1, <2>2, OrderKept
    <2> QED
        BY <2>4, <2>7, <2>8, <2>9, <2>10
<1>2. CASE News!Crash(n)
    <2>0. /\ notice[n].at \notin {"none", "over"} /\ News!At(n, "over")
          /\ excused' = excused \cup {n} /\ unsure' = (unsure \/ notice[n].kind = "release")
          /\ UNCHANGED <<shared, own, bot, inbox, got, latest, marked, changes>>
        BY <1>2 DEF News!Crash, News!Lose
    <2>1. /\ notice' \in [News!Notice -> Call]
          /\ notice'[n].at = "over" /\ notice'[n].kind = notice[n].kind /\ notice'[n].chat = notice[n].chat
          /\ notice'[n].rev = notice[n].rev /\ notice'[n].release = notice[n].release
          /\ \A m \in News!Notice : m # n => notice'[m] = notice[m]
        BY <2>0, CallMoves DEF Stages
    <2>2. NewsTyped'
        BY <2>0, <2>1 DEF NewsTyped
    <2>3. \A m \in News!Notice : notice'[m].chat = notice[m].chat /\ notice'[m].rev = notice[m].rev
        BY <2>1
    <2>4. \A c \in Chat, v \in Nat : Tag(c, v)' => Tag(c, v)
        BY <2>0, <2>3 DEF Tag
    <2>5. Tagged'
        BY <2>0, <2>3, <2>4, TagsKept DEF Tagged
    <2>6. \A m \in News!Notice : m # n => Delivered(m)'
        BY <2>0, <2>1, DeliveredKept
    <2>7. Delivered(n)'
        BY <2>0 DEF Delivered
    <2>8. InOrder' /\ News!OncePerRelease'
        <3>1. CASE notice[n].kind = "scan"
            <4>1. unsure' = unsure
                BY <2>0, <3>1 DEF NewsTyped
            <4> QED
                BY <2>0, <2>1, <3>1, <4>1, OrderKept
        <3>2. CASE notice[n].kind = "release"
            <4>1. unsure'
                BY <2>0, <3>2
            <4> QED
                BY <2>0, <2>1, <4>1 DEF InOrder, News!OncePerRelease
        <3> QED
            BY <1>k, <3>1, <3>2
    <2> QED
        BY <2>2, <2>5, <2>6, <2>7, <2>8
<1> QED
    BY <1>1, <1>2

\* The bot reads the chat when it starts; what it has received and not sent is on record
\* when it stops.
LEMMA BotStep ==
    ASSUME Bounds, NewsInv, News!Start \/ News!Stop \/ News!Reconnect
    PROVE  NewsInv'
<1> USE DEF NewsInv
<1>1. /\ UNCHANGED <<shared, own, notice, got, latest, marked, changes, unsure>>
      /\ bot' \in [up : BOOLEAN, listens : BOOLEAN, chat : Chat \cup {NoChat}, rev : Nat]
      /\ \/ bot'.chat = bot.chat /\ bot'.rev = bot.rev
         \/ bot'.chat = shared.chat /\ bot'.rev = shared.rev
    <2>1. CASE News!Start
        BY <2>1 DEF News!Start, NewsTyped
    <2>2. CASE News!Stop
        BY <2>2 DEF News!Stop, NewsTyped
    <2>3. CASE News!Reconnect
        BY <2>3 DEF News!Reconnect, NewsTyped
    <2> QED
        BY <2>1, <2>2, <2>3
<1>2. /\ excused \subseteq excused' /\ excused' \subseteq News!Notice
      /\ inbox' \in Seq(News!Notice) /\ (bot'.listens \/ inbox' = <<>>)
      /\ \A i \in DOMAIN inbox : inbox[i] \in excused' \/ inbox' = inbox
    <2>1. CASE News!Start \/ News!Reconnect
        BY <2>1 DEF News!Start, News!Reconnect, NewsTyped
    <2>2. CASE News!Stop
        <3>1. inbox' = <<>> /\ excused' = excused \cup {inbox[i] : i \in DOMAIN inbox}
            BY <2>2 DEF News!Stop
        <3>2. \A i \in DOMAIN inbox : inbox[i] \in News!Notice
            BY DEF NewsTyped
        <3>3. inbox' \in Seq(News!Notice)
            BY <3>1
        <3> QED
            BY <3>1, <3>2, <3>3 DEF NewsTyped
    <2> QED
        BY <2>1, <2>2
<1>3. NewsTyped'
    BY <1>1, <1>2 DEF NewsTyped
<1>4. \A c \in Chat, v \in Nat : Tag(c, v)' => Tag(c, v)
    BY <1>1 DEF Tag
<1>5. bot'.rev <= shared.rev
    BY <1>1 DEF Tagged, NewsTyped
<1>6. Tagged'
    BY <1>1, <1>4, <1>5, TagsKept DEF Tagged
<1>7. \A n \in News!Notice : Delivered(n)'
    BY <1>1, <1>2 DEF Delivered
<1>8. InOrder' /\ News!OncePerRelease'
    BY <1>1, OrderIdle
<1> QED
    BY <1>3, <1>6, <1>7, <1>8

\* The bot sends the first message it has received to the chat it has read, or loses it.
LEMMA RelayStep ==
    ASSUME Bounds, NewsInv, News!Relay
    PROVE  NewsInv'
<1> USE DEF NewsInv
<1>n. inbox # <<>> /\ inbox \in Seq(News!Notice)
    BY DEF News!Relay, NewsTyped
<1>h. PICK n \in News!Notice : n = Head(inbox)
    BY <1>n
<1>0. /\ inbox # <<>> /\ inbox' = Tail(inbox)
      /\ \/ /\ bot.chat \notin {NoChat}
            /\ News!Sent(n, "bot", bot.chat, bot.rev) /\ UNCHANGED excused
         \/ News!Lose(n) /\ UNCHANGED got
      /\ UNCHANGED <<shared, own, bot, notice, latest, marked, changes, unsure>>
    BY <1>h DEF News!Relay
<1>1. inbox \in Seq(News!Notice) /\ bot.chat \in Chat \cup {NoChat} /\ bot.rev \in Nat
    BY DEF NewsTyped
<1>2. n \in News!Notice /\ n = inbox[1] /\ inbox' \in Seq(News!Notice)
      /\ Len(inbox) \in Nat /\ Len(inbox) > 0 /\ DOMAIN inbox = 1 .. Len(inbox)
      /\ DOMAIN inbox' = 1 .. Len(inbox) - 1 /\ \A i \in DOMAIN inbox' : inbox'[i] = inbox[i + 1]
    BY <1>0, <1>1, <1>h
<1>3. \A i \in DOMAIN inbox : inbox[i] # n => \E k \in DOMAIN inbox' : inbox'[k] = inbox[i]
    <2> SUFFICES ASSUME NEW i \in DOMAIN inbox, inbox[i] # n
                 PROVE  \E k \in DOMAIN inbox' : inbox'[k] = inbox[i]
        OBVIOUS
    <2>1. i # 1 /\ i \in 1 .. Len(inbox)
        BY <1>2
    <2>2. i - 1 \in DOMAIN inbox' /\ inbox'[i - 1] = inbox[i]
        BY <1>2, <2>1
    <2> QED
        BY <2>2
<1>4. bot.rev <= shared.rev
    BY DEF Tagged
<1>5. CASE bot.chat # NoChat /\ News!Sent(n, "bot", bot.chat, bot.rev) /\ UNCHANGED excused
    <2> DEFINE g == [way |-> "bot", chat |-> bot.chat, rev |-> bot.rev]
    <2>1. /\ got' \in [News!Notice -> SUBSET Message]
          /\ got'[n] = got[n] \cup {g}
          /\ \A m \in News!Notice : m # n => got'[m] = got[m]
        BY <1>1, <1>2, <1>4, <1>5, SentTyped
    <2>2. g.way = "bot" /\ g.chat = bot.chat /\ g.rev = bot.rev
        OBVIOUS
    <2> HIDE DEF g
    <2>3. NewsTyped'
        BY <1>0, <1>2, <1>5, <2>1 DEF NewsTyped
    <2>4. \A c \in Chat, v \in Nat : Tag(c, v)' => Tag(c, v)
        BY <1>0, <2>1, <2>2 DEF Tag
    <2>5. \A m \in News!Notice : \A h \in got'[m] : h.rev <= shared.rev
        BY <1>4, <2>1, <2>2 DEF Tagged
    <2>6. Tagged'
        BY <1>0, <1>4, <2>4, <2>5, TagsKept DEF Tagged
    <2>7. \A m \in News!Notice : m # n => Delivered(m)'
        BY <1>0, <1>3, <1>5, <2>1, DeliveredKept
    <2>8. Delivered(n)'
        BY <1>0, <1>2, <1>5, <2>1, <2>2 DEF Delivered
    <2> QED
        BY <1>0, <2>3, <2>6, <2>7, <2>8, OrderIdle
<1>6. CASE News!Lose(n) /\ UNCHANGED got
    <2>1. excused' = excused \cup {n}
        BY <1>6 DEF News!Lose
    <2>2. NewsTyped'
        BY <1>0, <1>2, <1>6, <2>1 DEF NewsTyped
    <2>3. \A c \in Chat, v \in Nat : Tag(c, v)' => Tag(c, v)
        BY <1>0, <1>6 DEF Tag
    <2>4. Tagged'
        BY <1>0, <1>4, <1>6, <2>3, TagsKept DEF Tagged
    <2>5. \A m \in News!Notice : m # n => Delivered(m)'
        BY <1>0, <1>3, <1>6, <2>1, DeliveredKept
    <2>6. Delivered(n)'
        BY <2>1 DEF Delivered
    <2> QED
        BY <1>0, <2>2, <2>4, <2>5, <2>6, OrderIdle
<1> QED
    BY <1>0, <1>5, <1>6

\* The shared chat is changed to one that nobody holds as of this change.
LEMMA OutsideStep ==
    ASSUME Bounds, NewsInv, News!SetShared \/ News!SetOwn \/ News!Release \/ News!Forget
    PROVE  NewsInv'
<1> USE DEF NewsInv
<1>0. /\ changes < Changes /\ changes' = changes + 1
      /\ UNCHANGED <<bot, inbox, notice, got, excused>>
    BY DEF News!SetShared, News!SetOwn, News!Release, News!Forget, News!Changed
<1>1. changes' \in 0 .. Changes /\ changes \in Nat /\ shared.rev \in Nat /\ shared.rev <= changes
    BY <1>0 DEF NewsTyped, Bounds
<1>2. \A n \in News!Notice : Delivered(n)'
    BY <1>0 DEF Delivered
<1>3. CASE News!SetShared
    <2>1. PICK c \in (Chat \cup {NoChat}) \ {shared.chat} : shared' = [chat |-> c, rev |-> shared.rev + 1]
        BY <1>3 DEF News!SetShared
    <2>2. UNCHANGED <<own, latest, marked, unsure>>
        BY <1>3 DEF News!SetShared
    <2>3. shared' \in [chat : Chat \cup {NoChat}, rev : Nat] /\ shared'.chat = c /\ shared'.rev = shared.rev + 1
        BY <1>1, <2>1
    <2>4. shared'.rev <= changes'
        BY <1>0, <1>1, <2>3
    <2>5. NewsTyped'
        BY <1>0, <1>1, <2>2, <2>3, <2>4 DEF NewsTyped
    <2>6. \A d \in Chat, v \in Nat : Tag(d, v)' => (Tag(d, v) /\ v <= shared.rev) \/ (d = c /\ v = shared.rev + 1)
        BY <1>0, <2>3 DEF Tag, Tagged
    <2>7. \A d, e \in Chat, v \in Nat : Tag(d, v)' /\ Tag(e, v)' => d = e
        BY <1>1, <2>6 DEF Tagged
    <2>8. bot.rev <= shared'.rev /\ \A n \in News!Notice : notice[n].rev <= shared'.rev
        BY <1>1, <2>3 DEF Tagged, NewsTyped, Call
    <2>9. \A n \in News!Notice : \A g \in got[n] : g.rev <= shared'.rev
        <3> SUFFICES ASSUME NEW n \in News!Notice, NEW g \in got[n]
                     PROVE  g.rev <= shared'.rev
            OBVIOUS
        <3>1. g.rev \in 0 .. Changes /\ g.rev <= shared.rev
            BY DEF NewsTyped, Message, Tagged
        <3> QED
            BY <1>1, <2>3, <3>1 DEF Bounds
    <2>10. Tagged'
        BY <1>0, <2>7, <2>8, <2>9 DEF Tagged
    <2> QED
        BY <1>0, <1>2, <2>2, <2>5, <2>10, OrderIdle
<1>4. CASE News!SetOwn
    <2>1. UNCHANGED <<shared, latest, marked, unsure>> /\ own' \in Chat \cup {NoChat}
        BY <1>4 DEF News!SetOwn
    <2>2. NewsTyped'
        BY <1>0, <1>1, <2>1 DEF NewsTyped
    <2>3. \A c \in Chat, v \in Nat : Tag(c, v)' => Tag(c, v)
        BY <1>0, <2>1 DEF Tag
    <2>4. Tagged'
        BY <1>0, <2>1, <2>3, TagsKept DEF Tagged
    <2> QED
        BY <1>0, <1>2, <2>1, <2>2, <2>4, OrderIdle
<1>5. CASE News!Release \/ News!Forget
    <2>1. UNCHANGED <<shared, own>>
          /\ \/ latest' = latest + 1 /\ UNCHANGED <<marked, unsure>>
             \/ marked' = 0 /\ unsure' = TRUE /\ UNCHANGED latest
        BY <1>5 DEF News!Release, News!Forget
    <2>2. latest \in Nat /\ marked \in 0 .. latest
        BY DEF NewsTyped
    <2>3. latest' \in Nat /\ marked' \in 0 .. latest' /\ latest <= latest'
        BY <2>1, <2>2
    <2>u. unsure' \in BOOLEAN
        BY <2>1 DEF NewsTyped
    <2>4. NewsTyped'
        BY <1>0, <1>1, <2>1, <2>3, <2>u DEF NewsTyped
    <2>5. \A c \in Chat, v \in Nat : Tag(c, v)' => Tag(c, v)
        BY <1>0, <2>1 DEF Tag
    <2>6. Tagged'
        BY <1>0, <2>1, <2>5, TagsKept DEF Tagged
    <2>7. News!Checking' = News!Checking
        BY <1>0 DEF News!Checking
    <2>8. \A n \in News!Notice : notice[n].release \in Nat
        BY DEF NewsTyped, Call
    <2>9. \A n \in News!Notice : notice[n].kind = "release" => notice[n].release <= latest'
        BY <2>2, <2>3, <2>8 DEF InOrder
    <2>10. InOrder'
        BY <1>0, <2>1, <2>7, <2>9 DEF InOrder
    <2>11. News!OncePerRelease'
        BY <1>0, <2>1 DEF News!OncePerRelease
    <2> QED
        BY <1>2, <2>4, <2>6, <2>10, <2>11
<1> QED
    BY <1>3, <1>4, <1>5

\* Every step keeps it.
LEMMA NewsNext ==
    ASSUME Bounds, NewsInv, [News!Next]_News!vars
    PROVE  NewsInv'
<1>1. CASE UNCHANGED News!vars
    <2> USE DEF NewsInv
    <2>0. UNCHANGED <<shared, own, bot, inbox, notice, got, latest, marked, changes, excused, unsure>>
        BY <1>1 DEF News!vars
    <2>1. NewsTyped'
        BY <2>0 DEF NewsTyped
    <2>2. \A c \in Chat, v \in Nat : Tag(c, v)' => Tag(c, v)
        BY <2>0 DEF Tag
    <2>3. Tagged'
        BY <2>0, <2>2, TagsKept DEF Tagged
    <2>4. \A n \in News!Notice : Delivered(n)'
        BY <2>0 DEF Delivered
    <2> QED
        BY <2>0, <2>1, <2>3, <2>4, OrderIdle
<1> QED
    BY <1>1, BeginStep, MarkStep, ReadStep, SendStep, EndStep, BotStep, RelayStep, OutsideStep DEF News!Next

\* It holds before the first notice.
LEMMA NewsInit ==
    ASSUME Bounds, News!Init
    PROVE  NewsInv
<1>1. News!Idle \in Call /\ News!Idle.at = "none" /\ News!Idle.kind = "scan" /\ News!Idle.chat = NoChat
      /\ News!Idle.rev = 0
    BY DEF News!Idle, Call, Stages
<1>2. notice \in [News!Notice -> Call] /\ \A n \in News!Notice : notice[n] = News!Idle /\ got[n] = {}
    BY <1>1 DEF News!Init
<1>3. got \in [News!Notice -> SUBSET Message]
    BY DEF News!Init
<1>4. shared.rev = 0 /\ bot.rev = 0 /\ bot.chat = NoChat /\ shared.chat \in Chat
    BY DEF News!Init
<1>5. NewsTyped
    <2>1. shared \in [chat : Chat \cup {NoChat}, rev : Nat] /\ own \in Chat \cup {NoChat}
        BY DEF News!Init
    <2>2. bot \in [up : BOOLEAN, listens : BOOLEAN, chat : Chat \cup {NoChat}, rev : Nat]
        BY DEF News!Init
    <2>3. inbox \in Seq(News!Notice) /\ inbox = <<>>
        BY DEF News!Init
    <2> QED
        <3>1. latest = 0 /\ marked \in 0 .. latest /\ excused = {} /\ unsure = FALSE
            BY DEF News!Init
        <3>2. changes \in 0 .. Changes /\ shared.rev <= changes
            BY <1>4 DEF News!Init, Bounds
        <3> QED
            BY <1>2, <1>3, <2>1, <2>2, <2>3, <3>1, <3>2 DEF NewsTyped
<1>6. Tagged
    BY <1>1, <1>2, <1>4 DEF Tagged, Tag, Bounds
<1>7. InOrder /\ News!OncePerRelease
    BY <1>1, <1>2 DEF InOrder, News!OncePerRelease, News!Checking
<1>8. \A n \in News!Notice : Delivered(n)
    BY <1>1, <1>2 DEF Delivered
<1> QED
    BY <1>5, <1>6, <1>7, <1>8 DEF NewsInv

\* A notice that lost nothing reaches the shared chat on both its ways, one chat as of
\* one change; a release is announced once, unless it is on record why not (notify, the
\* bot's listener, check_for_updates).
LEMMA NoticesInOrder ==
    ASSUME Bounds
    PROVE  News!Spec => [](News!TypeOK /\ News!NoticesExplained /\ News!OncePerRelease)
<1>1. News!Init => NewsInv
    BY NewsInit
<1>2. NewsInv /\ [News!Next]_News!vars => NewsInv'
    BY NewsNext
<1>3. NewsInv => News!TypeOK /\ News!NoticesExplained /\ News!OncePerRelease
    <2> SUFFICES ASSUME NewsInv
                 PROVE  News!TypeOK /\ News!NoticesExplained /\ News!OncePerRelease
        OBVIOUS
    <2>1. News!TypeOK
        BY DEF NewsInv, NewsTyped, News!TypeOK, Call, Stages, Message
    <2>2. \A n \in News!Notice : \A x, y \in {g \in got[n] : g.way # "own"} : x.chat # y.chat => x.rev # y.rev
        <3> SUFFICES ASSUME NEW n \in News!Notice, NEW x \in got[n], NEW y \in got[n],
                            x.way # "own", y.way # "own", x.rev = y.rev
                     PROVE  x.chat = y.chat
            OBVIOUS
        <3>1. x \in Message /\ y \in Message
            BY DEF NewsInv, NewsTyped
        <3>2. x.chat \in Chat /\ y.chat \in Chat /\ x.rev \in Nat
            BY <3>1 DEF Message, Bounds
        <3>3. Tag(x.chat, x.rev) /\ Tag(y.chat, x.rev)
            BY DEF Tag
        <3> QED
            BY <3>2, <3>3 DEF NewsInv, Tagged
    <2>3. News!NoticesExplained
        BY <2>2 DEF NewsInv, Delivered, News!NoticesExplained
    <2> QED
        BY <2>1, <2>3 DEF NewsInv
<1> QED
    BY <1>1, <1>2, <1>3, PTL DEF News!Spec


-----------------------------------------------------------------------------
(* The four side by side: a step of one leaves the others as they are.     *)

\* A behaviour of the four is one of the phases, ...
LEMMA PhasesAside == JobsSpec => Spec
<1>1. JobsInit => Init
    BY DEF JobsInit
<1>2. [JobsNext]_all => [Next]_vars
    BY DEF JobsNext, all, Phases
<1> QED
    BY <1>1, <1>2, PTL DEF JobsSpec, Spec

\* ... one of the sprays, ...
LEMMA SpraysAside == JobsSpec => Sp!Spec
<1>1. JobsInit => Sp!Init
    BY DEF JobsInit
<1>2. [JobsNext]_all => [Sp!Next]_Sp!vars
    BY DEF JobsNext, all, Phases, spraying, Sp!vars
<1> QED
    BY <1>1, <1>2, PTL DEF JobsSpec, Sp!Spec

\* ... one of the schedules, ...
LEMMA SchedulesAside == JobsSpec => Beat!Spec
<1>1. JobsInit => Beat!Init
    BY DEF JobsInit
<1>2. [JobsNext]_all => [Beat!Next]_Beat!vars
    BY DEF JobsNext, all, Phases, planning, Beat!vars
<1> QED
    BY <1>1, <1>2, PTL DEF JobsSpec, Beat!Spec

\* ... and one of the notices.
LEMMA NoticesAside == JobsSpec => News!Spec
<1>1. JobsInit => News!Init
    BY DEF JobsInit
<1>2. [JobsNext]_all => [News!Next]_News!vars
    BY DEF JobsNext, all, Phases, telling, News!vars
<1> QED
    BY <1>1, <1>2, PTL DEF JobsSpec, News!Spec

\* Every variable of the four keeps its type.
THEOREM JobsTyped ==
    ASSUME Times, Bounds
    PROVE  JobsSpec => []JobsTypeOK
<1>1. Sp!Spec => []Sp!TypeOK
    BY SpraysExplained, PTL
<1>2. Beat!Spec => []Beat!TypeOK
    BY SchedulesRegular, PTL
<1>3. News!Spec => []News!TypeOK
    BY NoticesInOrder, PTL
<1> QED
    BY <1>1, <1>2, <1>3, TypeCorrect, PhasesAside, SpraysAside, SchedulesAside, NoticesAside, PTL
    DEF JobsTypeOK

\* A row of a spray says what nxc said of its pair; while it is pending a request or a
\* task is on the way to rewrite it, or one died (run_spray, run_spray_task).
THEOREM SprayRowsAreExplained == JobsSpec => []SprayRowsExplained
BY SpraysExplained, SpraysAside, PTL DEF SprayRowsExplained

\* What has a time or an occasion of its own happens once for it: a schedule's scan in a
\* period, a release's notice, and a notice on each of its two ways to the shared chat,
\* but for the reasons on record (check_scheduled_scans, check_for_updates, notify).
THEOREM HappensOnceEach ==
    ASSUME Times, Bounds
    PROVE  JobsSpec => []OnceEach
BY SchedulesRegular, NoticesInOrder, SchedulesAside, NoticesAside, PTL DEF OnceEach
=============================================================================
