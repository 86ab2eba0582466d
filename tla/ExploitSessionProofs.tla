----------------------- MODULE ExploitSessionProofs -----------------------
(***************************************************************************)
(* Proofs about ExploitSession: its types, the order of the steps under    *)
(* any crossing of answers, the cause of a running session, and that it    *)
(* implements StepByStep as long as answers do not cross.                  *)
(***************************************************************************)
EXTENDS ExploitSession, TLAPS

\* Every session has a positive number of steps.
LEMMA TotalType == ASSUME kind \in Kind PROVE total \in Nat \ {0}
BY StepsAssumption DEF total

-----------------------------------------------------------------------------
(* Types.                                                                  *)

\* The type invariant holds initially.
LEMMA InitType == Init => TypeOK
<1> SUFFICES ASSUME Init PROVE TypeOK
    OBVIOUS
<1>1. total \in Nat \ {0}
    BY TotalType DEF Init
<1>2. tried \in Seq(1..total) /\ untried \subseteq 1..total
    BY <1>1 DEF Init
<1>3. /\ at \in [Request -> Stage]
      /\ \A r \in Request : at[r] \notin {"marked", "ran", "unrun"}
    BY DEF Init, Stage
<1>4. copy \in [Request -> 0..total]
    BY <1>1 DEF Init
<1>5. kind \in Kind /\ status \in Status /\ step \in 0..total
    BY <1>1 DEF Init, Status
<1>6. overlap \in BOOLEAN
    BY DEF Init
<1> QED
    BY <1>2, <1>3, <1>4, <1>5, <1>6 DEF TypeOK

\* An answer keeps the types.
LEMMA AnswerType ==
    ASSUME TypeOK, NEW r \in Request, Read(r) \/ AnswerStep(r)
    PROVE  TypeOK'
<1> USE TotalType DEF TypeOK, Status, Stage, To, row, history, total
<1>1. CASE Read(r)
    BY <1>1 DEF Read
<1>2. CASE Reject(r)
    BY <1>2 DEF Reject
<1>3. CASE Approve(r)
    BY <1>3 DEF Approve
<1>4. CASE Dispatch(r)
    BY <1>4 DEF Dispatch
<1> QED
    BY <1>1, <1>2, <1>3, <1>4 DEF AnswerStep

\* The task keeps the types: it never runs or saves past the last step.
LEMMA TaskType ==
    ASSUME TypeOK, NEW r \in Request, TaskStep(r) \/ Crash(r)
    PROVE  TypeOK'
<1> total \in Nat \ {0}
    BY TotalType DEF TypeOK
<1> USE DEF TypeOK, Status, Stage, To, row, history, total
<1>1. CASE Fetch(r)
    BY <1>1 DEF Fetch
<1>2. CASE NoStepLeft(r)
    BY <1>2 DEF NoStepLeft
<1>3. CASE MarkRunning(r)
    BY <1>3 DEF MarkRunning
<1>4. CASE Run(r)
  <2>1. copy[r] + 1 \in 1..total
    BY <1>4 DEF Run, AtCommand
  <2>2. tried' \in Seq(1..total)
    BY <1>4, <2>1 DEF Run
  <2> QED
    BY <1>4, <2>2 DEF Run, AtCommand
<1>5. CASE Finish(r)
    BY <1>5 DEF Finish, Outcomes, OutcomeUnrun
<1>6. CASE HandlerRaises(r)
    BY <1>6 DEF HandlerRaises
<1>7. CASE Crash(r)
    BY <1>7 DEF Crash
<1>8. CASE NotRun(r)
  <2>1. copy[r] + 1 \in 1..total
    BY <1>8 DEF NotRun, AtCommand
  <2> QED
    BY <1>8, <2>1 DEF NotRun, AtCommand
<1> QED
    BY <1>1, <1>2, <1>3, <1>4, <1>5, <1>6, <1>7, <1>8 DEF TaskStep

\* No step leaves the types.
LEMMA NextType == TypeOK /\ [Next]_vars => TypeOK'
<1> SUFFICES ASSUME TypeOK, [Next]_vars PROVE TypeOK'
    OBVIOUS
<1>1. CASE Next
    BY <1>1, AnswerType, TaskType DEF Next
<1>2. CASE UNCHANGED vars
    BY <1>2 DEF vars, row, history, TypeOK, total
<1> QED
    BY <1>1, <1>2

\* Every variable keeps its type, for every set of requests and every number
\* of steps; no task works on a step past the last (msf_exploit.py 454,
\* adcs_exploit.py 596).
THEOREM TypeCorrect == Spec => []TypeOK
BY InitType, NextType, PTL DEF Spec

-----------------------------------------------------------------------------
(* The history.                                                            *)

\* Only running a step and going past one write the history, and each settles
\* the step after those that its task remembers.
LEMMA HistoryStep ==
    ASSUME TypeOK, [Next]_vars
    PROVE  \/ history' = history
           \/ \E r \in Request : Run(r) \/ NotRun(r)
BY DEF Next, vars, row, Read, AnswerStep, Reject, Approve, Dispatch,
    TaskStep, Fetch, NoStepLeft, MarkRunning, Finish, HandlerRaises, Crash

\* A step that has run is the last of the history, and the others are where
\* they were.
LEMMA RunAppends ==
    ASSUME TypeOK, NEW r \in Request, Run(r)
    PROVE  /\ DOMAIN tried' = 1..Len(tried) + 1
           /\ tried'[Len(tried) + 1] = copy[r] + 1
           /\ \A i \in DOMAIN tried : tried'[i] = tried[i]
           /\ DOMAIN tried = 1..Len(tried)
           /\ Len(tried) \in Nat
BY TotalType DEF Run, AtCommand, TypeOK

\* Running a step settles that step and no other.
LEMMA RunSettles ==
    ASSUME TypeOK, NEW r \in Request, Run(r)
    PROVE  /\ \A n : Tried(n)' <=> Tried(n) \/ n = copy[r] + 1
           /\ \A n : Settled(n)' <=> Settled(n) \/ n = copy[r] + 1
<1>1. \A n : Tried(n)' <=> Tried(n) \/ n = copy[r] + 1
    BY RunAppends DEF Tried
<1>2. untried' = untried
    BY DEF Run
<1> QED
    BY <1>1, <1>2 DEF Settled

\* Going past a step settles that step and no other.
LEMMA NotRunSettles ==
    ASSUME TypeOK, NEW r \in Request, NotRun(r)
    PROVE  /\ \A n : Tried(n)' <=> Tried(n)
           /\ \A n : Settled(n)' <=> Settled(n) \/ n = copy[r] + 1
BY DEF NotRun, Tried, Settled

\* Without either, what is settled is what was.
LEMMA SameSettled ==
    ASSUME history' = history
    PROVE  /\ \A n : Tried(n)' <=> Tried(n)
           /\ \A n : Settled(n)' <=> Settled(n)
BY DEF history, Tried, Settled

\* What was tried or settled stays so.
LEMMA SettledStable ==
    ASSUME TypeOK, [Next]_vars
    PROVE  /\ \A n : Tried(n) => Tried(n)'
           /\ \A n : Settled(n) => Settled(n)'
BY HistoryStep, RunSettles, NotRunSettles, SameSettled

-----------------------------------------------------------------------------
(* The order of the steps.                                                 *)

\* What a task remembers as through was dealt with, and so was the step that
\* it has just run, or gone past, itself.
CopiesHonest ==
    \A r \in Request :
        /\ at[r] \in {"got", "marked", "ran", "unrun"} => \A n \in 1..copy[r] : Settled(n)
        /\ at[r] = "ran" => Tried(copy[r] + 1)
        /\ at[r] = "unrun" => copy[r] + 1 \in untried

OrderInv == TypeOK /\ StepsSettled /\ CopiesHonest

\* The first conjunct of StepsSettled is kept: a task runs the step after
\* those it remembers, and they were dealt with.
LEMMA OrderKept ==
    ASSUME OrderInv, TypeOK', [Next]_vars
    PROVE  (\A i \in DOMAIN tried : tried[i] > 1 =>
               (\E j \in 1..i-1 : tried[j] = tried[i] - 1) \/ tried[i] - 1 \in untried)'
<1>a. TypeOK /\ StepsSettled /\ CopiesHonest
    BY DEF OrderInv
<1>1. CASE tried' = tried /\ untried \subseteq untried'
    BY <1>1, <1>a DEF StepsSettled
<1>2. ASSUME NEW r \in Request, Run(r)
      PROVE  \A i \in DOMAIN tried' : tried'[i] > 1 =>
                 (\E j \in 1..i-1 : tried'[j] = tried'[i] - 1) \/ tried'[i] - 1 \in untried'
  <2> SUFFICES ASSUME NEW i \in DOMAIN tried', tried'[i] > 1, tried'[i] - 1 \notin untried
               PROVE  \E j \in 1..i-1 : tried'[j] = tried'[i] - 1
    BY <1>2 DEF Run
  <2>1. CASE i \in DOMAIN tried
    <3>1. PICK j \in 1..i-1 : tried[j] = tried[i] - 1
      BY <1>2, <2>1, <1>a, RunAppends DEF StepsSettled
    <3> QED
      BY <1>2, <2>1, <1>a, <3>1, RunAppends
  <2>2. CASE i = Len(tried) + 1
    <3>1. copy[r] \in Nat /\ copy[r] \in 1..copy[r] /\ tried'[i] - 1 = copy[r]
      BY <1>2, <2>2, <1>a, RunAppends, TotalType DEF TypeOK
    <3>2. Settled(copy[r])
      BY <1>2, <1>a, <3>1 DEF CopiesHonest, Run, AtCommand
    <3>3. PICK j \in DOMAIN tried : tried[j] = copy[r]
      BY <3>1, <3>2 DEF Settled, Tried
    <3> QED
      BY <1>2, <2>2, <1>a, <3>1, <3>3, RunAppends
  <2> QED
    BY <1>2, <2>1, <2>2, <1>a, RunAppends
<1>3. CASE \E r \in Request : NotRun(r)
    BY <1>1, <1>3 DEF NotRun
<1>4. CASE history' = history
    BY <1>1, <1>4 DEF history
<1> QED
    BY <1>2, <1>3, <1>4, <1>a, HistoryStep

\* A step counted as through, or by a completed session, was dealt with: counts
\* are written from a task that has just done so, and an MSF task completes the
\* session only after its command.
LEMMA CountKept ==
    ASSUME OrderInv, TypeOK', [Next]_vars
    PROVE  /\ (\A n \in 1..step : Settled(n))'
           /\ (status = "completed" => \A n \in 1..total : Settled(n))'
           /\ (status = "completed" /\ kind = "msf" => \A n \in {total} : Tried(n))'
<1>a. TypeOK /\ StepsSettled /\ CopiesHonest
    BY DEF OrderInv
<1>b. (\A n : Tried(n) => Tried(n)') /\ \A n : Settled(n) => Settled(n)'
    BY <1>a, SettledStable
<1>c. total \in Nat \ {0}
    BY <1>a, TotalType DEF TypeOK
<1>1. ASSUME NEW r \in Request, Finish(r)
      PROVE  /\ \A n \in 1..step' : Settled(n)
             /\ status' = "completed" => \A n \in 1..total : Settled(n)
             /\ status' = "completed" /\ kind = "msf" => Tried(total)
  <2>1. /\ copy[r] \in 0..total
        /\ copy[r] < total
        /\ step' = copy[r] + 1
    BY <1>1, <1>a DEF Finish, TypeOK
  <2>2. Settled(copy[r] + 1)
    BY <1>1, <1>a DEF Finish, CopiesHonest, Settled
  <2>3. \A n \in 1..copy[r] : Settled(n)
    BY <1>1, <1>a DEF Finish, CopiesHonest
  <2>4. \A n \in 1..copy[r] + 1 : n = copy[r] + 1 \/ n \in 1..copy[r]
    BY <2>1, <1>c
  <2>5. status' = "completed" => copy[r] + 1 = total
    BY <1>1 DEF Finish, Outcomes, OutcomeUnrun
  <2>6. status' = "completed" /\ kind = "msf" => at[r] = "ran"
    BY <1>1 DEF Finish, OutcomeUnrun
  <2>7. at[r] = "ran" => Tried(copy[r] + 1)
    BY <1>a DEF CopiesHonest
  <2> QED
    BY <2>1, <2>2, <2>3, <2>4, <2>5, <2>6, <2>7
<1>2. ASSUME NEW r \in Request, NoStepLeft(r)
      PROVE  \A n \in 1..total : Settled(n)
    BY <1>2, <1>a, <1>c DEF NoStepLeft, CopiesHonest, TypeOK
<1>3. kind' = kind /\ total' = total
    BY DEF total, Next, vars, row, Read, AnswerStep, Reject, Approve, Dispatch,
        TaskStep, Fetch, NoStepLeft, MarkRunning, Run, NotRun, Finish, HandlerRaises, Crash
<1>4. CASE \E r \in Request : Finish(r)
    BY <1>1, <1>3, <1>4, <1>b
<1>5. CASE \E r \in Request : NoStepLeft(r)
    BY <1>2, <1>3, <1>5, <1>a, <1>b DEF NoStepLeft, StepsSettled
<1>6. CASE step' = step /\ (status' = "completed" => status = "completed")
    BY <1>3, <1>6, <1>a, <1>b DEF StepsSettled
<1> QED
    BY <1>4, <1>5, <1>6 DEF Next, vars, row, Read, AnswerStep, Reject, Approve, Dispatch,
        TaskStep, Fetch, MarkRunning, Run, NotRun, HandlerRaises, Crash

\* What tasks remember stays honest: a fetch takes what the row counts.
LEMMA CopiesKept ==
    ASSUME OrderInv, TypeOK', [Next]_vars
    PROVE  CopiesHonest'
<1>a. TypeOK /\ StepsSettled /\ CopiesHonest
    BY DEF OrderInv
<1>b. (\A n : Tried(n) => Tried(n)') /\ \A n : Settled(n) => Settled(n)'
    BY <1>a, SettledStable
<1>c. untried \subseteq untried'
    BY <1>a, HistoryStep DEF history, Run, NotRun
<1>h. ASSUME NEW q \in Request
      PROVE  /\ at[q] \in {"got", "marked", "ran", "unrun"} => \A n \in 1..copy[q] : Settled(n)
             /\ at[q] = "ran" => \A n \in {copy[q] + 1} : Tried(n)
             /\ at[q] = "unrun" => copy[q] + 1 \in untried
    BY <1>a DEF CopiesHonest
<1> SUFFICES ASSUME NEW q \in Request
             PROVE  /\ at'[q] \in {"got", "marked", "ran", "unrun"} =>
                           \A n \in 1..copy'[q] : Settled(n)'
                    /\ at'[q] = "ran" => \A n \in {copy'[q] + 1} : Tried(n)'
                    /\ at'[q] = "unrun" => copy'[q] + 1 \in untried'
    BY DEF CopiesHonest
<1>1. ASSUME NEW r \in Request, Fetch(r)
      PROVE  \/ at'[q] = at[q] /\ copy'[q] = copy[q]
             \/ at'[q] = "ended"
             \/ at'[q] = "got" /\ copy'[q] = step
    BY <1>1, <1>a DEF Fetch, To, TypeOK
<1>2. ASSUME NEW r \in Request, Run(r)
      PROVE  /\ copy' = copy
             /\ \/ at'[q] = at[q]
                \/ q = r /\ at'[q] = "ran" /\ at[q] \in {"got", "marked"}
    BY <1>2, <1>a DEF Run, AtCommand, To, TypeOK
<1>3. ASSUME NEW r \in Request, NotRun(r)
      PROVE  /\ copy' = copy
             /\ \/ at'[q] = at[q]
                \/ q = r /\ at'[q] = "unrun" /\ at[q] \in {"got", "marked"}
             /\ untried' = untried \cup {copy[r] + 1}
    BY <1>3, <1>a DEF NotRun, AtCommand, To, TypeOK
<1>4. CASE \E r \in Request : Fetch(r)
    BY <1>1, <1>4, <1>a, <1>b, <1>c, <1>h DEF StepsSettled
<1>5. ASSUME NEW r \in Request, Run(r)
      PROVE  /\ at'[q] \in {"got", "marked", "ran", "unrun"} =>
                    \A n \in 1..copy'[q] : Settled(n)'
             /\ at'[q] = "ran" => \A n \in {copy'[q] + 1} : Tried(n)'
             /\ at'[q] = "unrun" => copy'[q] + 1 \in untried'
  <2>1. \A n : n = copy[r] + 1 => Tried(n)'
    BY <1>5, <1>a, RunSettles
  <2> QED
    BY <1>2, <1>5, <2>1, <1>b, <1>c, <1>h
<1>6. CASE \E r \in Request : NotRun(r)
    BY <1>3, <1>6, <1>b, <1>c, <1>h
<1>7. ASSUME NEW r \in Request,
             \/ Read(r) \/ AnswerStep(r) \/ NoStepLeft(r) \/ MarkRunning(r)
             \/ Finish(r) \/ HandlerRaises(r) \/ Crash(r)
      PROVE  /\ copy' = copy
             /\ at'[q] \in {"got", "marked", "ran", "unrun"} =>
                    /\ at[q] \in {"got", "marked", "ran", "unrun"}
                    /\ at'[q] \in {"ran", "unrun"} => at[q] = at'[q]
    BY <1>7, <1>a DEF TypeOK, To, Read, AnswerStep, Reject, Approve, Dispatch,
        NoStepLeft, MarkRunning, Finish, HandlerRaises, Crash
<1>8. CASE \E r \in Request :
             \/ Read(r) \/ AnswerStep(r) \/ NoStepLeft(r) \/ MarkRunning(r)
             \/ Finish(r) \/ HandlerRaises(r) \/ Crash(r)
    BY <1>7, <1>8, <1>b, <1>c, <1>h
<1>9. CASE UNCHANGED vars
  <2>1. at' = at /\ copy' = copy
    BY <1>9 DEF vars
  <2> QED
    BY <2>1, <1>b, <1>c, <1>h
<1> QED
    BY <1>4, <1>5, <1>6, <1>8, <1>9 DEF Next, TaskStep

\* The order is inductive with the types and what the tasks remember.
LEMMA NextOrder == OrderInv /\ [Next]_vars => OrderInv'
<1> SUFFICES ASSUME OrderInv, [Next]_vars PROVE OrderInv'
    OBVIOUS
<1>1. TypeOK'
    BY NextType DEF OrderInv
<1>2. StepsSettled'
    BY <1>1, OrderKept, CountKept DEF StepsSettled
<1> QED
    BY <1>1, <1>2, CopiesKept DEF OrderInv

\* The history is empty when a session starts.
LEMMA InitOrder == Init => OrderInv
<1> SUFFICES ASSUME Init PROVE OrderInv
    OBVIOUS
<1>1. StepsSettled
    BY DEF Init, StepsSettled, Settled, Tried
<1>2. CopiesHonest
    BY DEF Init, CopiesHonest, Settled, Tried
<1> QED
    BY <1>1, <1>2, InitType DEF OrderInv

-----------------------------------------------------------------------------
(* One answer at a time.                                                   *)

\* Requests that may still move the session.
Busy(r) == at[r] \in {"read", "saved", "queued", "got", "marked", "ran", "unrun"}

\* At most one request is busy.
OneBusy == \A q, r \in Request : Busy(q) /\ Busy(r) => q = r

\* No step after those counted is dealt with.
Ahead == step < total /\ \A n \in 1..total : Settled(n) => n <= step

\* The next step is, and none after it.
Dealt == \A n \in 1..total : (n = step + 1 => Settled(n)) /\ (Settled(n) => n <= step + 1)

\* An ADCS session that goes on has gone past no step.
NonePassed == kind = "adcs" => untried = {}

\* Where the session is when no request is busy but one may come.
Waiting == status = "awaiting_confirm" /\ Ahead /\ NonePassed

\* The session's state is the one that the busy request expects.
Expected(r) ==
    /\ at[r] = "read" => Waiting
    /\ at[r] \in {"saved", "queued", "got", "marked"} =>
           status = "running" /\ Ahead /\ NonePassed
    /\ at[r] \in {"got", "marked", "ran", "unrun"} => copy[r] = step
    /\ at[r] \in {"ran", "unrun"} => status = "running" /\ Dealt
    /\ at[r] = "ran" => NonePassed

Alone ==
    /\ OneBusy
    /\ \A r \in Request : Expected(r)
    /\ status = "awaiting_confirm" =>
           Waiting /\ \A r \in Request : Busy(r) => at[r] = "read"

\* Alone holds until answers overlap.
AloneInv == TypeOK /\ (~overlap => Alone)

\* The session starts with the creation as its one busy request.
LEMMA InitAlone == Init => AloneInv
<1> SUFFICES ASSUME Init PROVE AloneInv
    OBVIOUS
<1>1. total \in Nat \ {0}
    BY TotalType DEF Init
<1>2. OneBusy
    BY DEF Init, OneBusy, Busy
<1>3. ASSUME NEW r \in Request PROVE Expected(r)
  <2>1. at[r] \in {"none", "saved"}
    BY DEF Init
  <2>2. status = "running" /\ Ahead /\ NonePassed
    BY <1>1 DEF Init, Ahead, NonePassed, Settled, Tried
  <2> QED
    BY <2>1, <2>2 DEF Expected
<1>4. status # "awaiting_confirm"
    BY DEF Init
<1> QED
    BY <1>2, <1>3, <1>4, InitType DEF AloneInv, Alone

\* An answer that does not overlap another is the only busy request, and so is
\* a task: r alone may move, and its move fits.
LEMMA AloneKept ==
    ASSUME AloneInv, TypeOK', [Next]_vars, ~overlap'
    PROVE  Alone'
<1>a. TypeOK /\ total \in Nat \ {0}
    BY TotalType DEF AloneInv, TypeOK
<1>b. ~overlap /\ Alone
    BY DEF AloneInv, Next, vars, row, Read, AnswerStep, Reject, Approve, Dispatch,
        TaskStep, Fetch, NoStepLeft, MarkRunning, Run, NotRun, Finish, HandlerRaises, Crash,
        TypeOK
<1>c. kind' = kind /\ total' = total
    BY DEF total, Next, vars, row, Read, AnswerStep, Reject, Approve, Dispatch,
        TaskStep, Fetch, NoStepLeft, MarkRunning, Run, NotRun, Finish, HandlerRaises, Crash
<1>d. history' = history /\ step' = step =>
          (Ahead => Ahead') /\ (Dealt => Dealt') /\ (NonePassed => NonePassed')
    BY <1>c, SameSettled DEF Ahead, Dealt, NonePassed, history
<1>1. CASE UNCHANGED vars
  <2>1. at' = at /\ copy' = copy /\ status' = status /\ history' = history /\ step' = step
    BY <1>1 DEF vars, row
  <2> QED
    BY <2>1, <1>b, <1>d DEF Alone, OneBusy, Busy, Expected, Waiting
<1>2. ASSUME NEW r \in Request, Read(r) PROVE Alone'
  <2>1. \A q \in Request : ~Busy(q)
    BY <1>2, <1>a, <1>b DEF Read, Alone, Busy, TypeOK
  <2>2. \A q \in Request : Busy(q)' => q = r
    BY <1>2, <1>a, <2>1 DEF Read, To, Busy, TypeOK
  <2>3. Waiting'
    BY <1>2, <1>b, <1>d DEF Read, row, Alone, Waiting
  <2>4. at'[r] = "read"
    BY <1>2, <1>a DEF Read, To, TypeOK
  <2> QED
    BY <2>2, <2>3, <2>4 DEF Alone, OneBusy, Expected, Busy
<1>3. ASSUME NEW r \in Request, AnswerStep(r) \/ TaskStep(r) \/ Crash(r)
      PROVE  Alone'
  <2>1. Busy(r) /\ \A q \in Request : Busy(q) => q = r
    BY <1>3, <1>b DEF AnswerStep, Reject, Approve, Dispatch, TaskStep, Fetch, NoStepLeft,
        MarkRunning, Run, NotRun, AtCommand, Finish, HandlerRaises, Crash, Busy, Alone, OneBusy
  <2>2. \A q \in Request : q # r => at'[q] = at[q] /\ copy'[q] = copy[q]
    BY <1>3, <1>a DEF AnswerStep, Reject, Approve, Dispatch, TaskStep, Fetch, NoStepLeft,
        MarkRunning, Run, NotRun, Finish, HandlerRaises, Crash, To, TypeOK
  <2>3. \A q \in Request : Busy(q)' => q = r
    BY <2>1, <2>2 DEF Busy
  <2>4. OneBusy' /\ \A q \in Request \ {r} : Expected(q)'
    BY <2>3 DEF OneBusy, Expected, Busy
  <2>5. Expected(r)
    BY <1>b DEF Alone
  <2>6. Expected(r)' /\ (status' = "awaiting_confirm" => Waiting' /\ (Busy(r)' => at'[r] = "read"))
    <3> USE <1>a, <1>b, <1>d, <2>5 DEF Expected, Waiting, Busy, To, TypeOK, Alone
    <3>1. CASE Reject(r)
      BY <3>1 DEF Reject
    <3>2. CASE Approve(r)
      BY <3>2 DEF Approve
    <3>3. CASE Dispatch(r)
      BY <3>3 DEF Dispatch, row
    <3>4. CASE Fetch(r)
      BY <3>4 DEF Fetch, row
    <3>5. CASE NoStepLeft(r)
      BY <3>5 DEF NoStepLeft, Ahead
    <3>6. CASE MarkRunning(r)
      BY <3>6 DEF MarkRunning
    <3>7. CASE Run(r)
      <4>1. copy[r] = step /\ step' = step /\ untried' = untried /\ Ahead /\ NonePassed
        BY <3>7 DEF Run, AtCommand, row
      <4>2. \A n : Settled(n)' <=> Settled(n) \/ n = step + 1
        BY <3>7, <4>1, RunSettles
      <4>3. Dealt'
        BY ONLY <1>a, <1>c, <4>1, <4>2 DEF Ahead, Dealt, TypeOK
      <4>4. NonePassed'
        BY ONLY <1>c, <4>1 DEF NonePassed
      <4> QED
        BY <3>7, <4>3, <4>4 DEF Run, AtCommand, row
    <3>8. CASE NotRun(r)
      <4>1. copy[r] = step /\ step' = step /\ Ahead
        BY <3>8 DEF NotRun, AtCommand, row
      <4>2. \A n : Settled(n)' <=> Settled(n) \/ n = step + 1
        BY <3>8, <4>1, NotRunSettles
      <4>3. Dealt'
        BY ONLY <1>a, <1>c, <4>1, <4>2 DEF Ahead, Dealt, TypeOK
      <4> QED
        BY <3>8, <4>3 DEF NotRun, AtCommand, row
    <3>9. CASE Finish(r)
      <4>1. step' = step + 1 /\ history' = history /\ Dealt
        BY <3>9 DEF Finish
      <4>2. step + 1 < total => Ahead'
        BY <4>1, <1>c, SameSettled DEF Ahead, Dealt
      <4>3. status' = "awaiting_confirm" => step + 1 < total /\ NonePassed
        BY <3>9 DEF Finish, Outcomes, OutcomeUnrun, NonePassed
      <4>4. NonePassed => NonePassed'
        BY <4>1, <1>c DEF NonePassed, history
      <4> QED
        BY <3>9, <4>2, <4>3, <4>4 DEF Finish
    <3>10. CASE HandlerRaises(r)
      BY <3>10 DEF HandlerRaises
    <3>11. CASE Crash(r)
      BY <3>11 DEF Crash, row
    <3> QED
      BY <1>3, <3>1, <3>2, <3>3, <3>4, <3>5, <3>6, <3>7, <3>8, <3>9, <3>10, <3>11
          DEF AnswerStep, TaskStep
  <2> QED
    BY <2>3, <2>4, <2>6 DEF Alone
<1> QED
    BY <1>1, <1>2, <1>3 DEF Next

\* AloneInv is inductive.
LEMMA NextAlone == AloneInv /\ [Next]_vars => AloneInv'
<1> SUFFICES ASSUME AloneInv, [Next]_vars PROVE AloneInv'
    OBVIOUS
<1>1. TypeOK'
    BY NextType DEF AloneInv
<1> QED
    BY <1>1, AloneKept DEF AloneInv

\* Steps are dealt with in their order and counted only then, whichever answers
\* cross and whichever task of a double approval saves last (adcs_exploit.py
\* 594, 680; msf_exploit.py 453, 417); and an ADCS session whose answers do not
\* cross asks its user to go on only when it has run every step it counts
\* (adcs_exploit.py 676-690).
THEOREM StepsOrdered == Spec => []StepsInOrder
<1>1. Init => OrderInv /\ AloneInv
    BY InitOrder, InitAlone
<1>2. OrderInv /\ AloneInv /\ [Next]_vars => (OrderInv /\ AloneInv)'
    BY NextOrder, NextAlone
<1>3. OrderInv /\ AloneInv => StepsInOrder
  <2>1. OrderInv /\ AloneInv => GoesOnTried
    BY DEF OrderInv, StepsSettled, AloneInv, Alone, Waiting, NonePassed, GoesOnTried, Settled
  <2> QED
    BY <2>1 DEF OrderInv, StepsInOrder
<1> QED
    BY <1>1, <1>2, <1>3, PTL DEF Spec

\* A step of the session is a step of StepByStep, or none.
LEMMA StepImplements ==
    ASSUME AloneInv, [Next]_vars
    PROVE  [Steps!StepNext \/ overlap]_<<total, status, step, tried, untried>>
<1> SUFFICES ASSUME ~overlap
             PROVE  [Steps!StepNext]_<<total, status, step, tried, untried>>
    OBVIOUS
<1>a. TypeOK /\ Alone /\ total \in Nat \ {0}
    BY TotalType DEF AloneInv, TypeOK
<1>1. CASE UNCHANGED vars
    BY <1>1 DEF vars, row, history, total
<1>2. ASSUME NEW r \in Request,
             Read(r) \/ AnswerStep(r) \/ TaskStep(r) \/ Crash(r)
      PROVE  [Steps!StepNext]_<<total, status, step, tried, untried>>
  <2>1. Expected(r)
    BY <1>a DEF Alone
  <2> USE <1>a, <2>1 DEF Expected, row, history, total, TypeOK, Steps!StepNext
  <2>2. CASE Read(r) \/ Dispatch(r) \/ Fetch(r) \/ Crash(r)
    BY <2>2 DEF Read, Dispatch, Fetch, Crash
  <2>3. CASE Reject(r)
    BY <2>3 DEF Reject, Waiting, Steps!RejectNext
  <2>4. CASE Approve(r)
    BY <2>4 DEF Approve, Waiting, Steps!ApproveNext
  <2>5. CASE NoStepLeft(r)
    BY <2>5 DEF NoStepLeft, Ahead
  <2>6. CASE MarkRunning(r)
    BY <2>6 DEF MarkRunning
  <2>7. CASE Run(r) \/ NotRun(r)
    <3>1. status = "running" /\ copy[r] = step /\ Ahead
      BY <2>7 DEF Run, NotRun, AtCommand
    <3>2. step < total /\ ~Settled(step + 1)
      BY <3>1 DEF Ahead
    <3>3. Steps!Due
      BY <3>1, <3>2 DEF Settled, Tried, Steps!Due, Steps!Settled
    <3>4. \/ tried' = Append(tried, step + 1) /\ untried' = untried
          \/ untried' = untried \cup {step + 1} /\ tried' = tried
      BY <2>7, <3>1 DEF Run, NotRun
    <3>5. kind' = kind /\ status' = status /\ step' = step
      BY <2>7 DEF Run, NotRun
    <3> QED
      BY <3>3, <3>4, <3>5 DEF Steps!Try, Steps!GiveUp
  <2>8. CASE Finish(r)
    <3>1. status = "running" /\ step' = step + 1 /\ step < total /\ Dealt
      BY <2>8 DEF Finish
    <3>2. Steps!Settled(step + 1)
      BY <3>1 DEF Dealt, Settled, Tried, Steps!Settled
    <3>3. status' \in {"failed", IF step' = total THEN "completed" ELSE "awaiting_confirm"}
      BY <2>8, <3>1 DEF Finish, Outcomes, OutcomeUnrun
    <3>4. kind' = kind /\ tried' = tried /\ untried' = untried
      BY <2>8 DEF Finish
    <3> QED
      BY <3>1, <3>2, <3>3, <3>4 DEF Steps!StepThrough
  <2>9. CASE HandlerRaises(r)
    BY <2>9 DEF HandlerRaises, Steps!StepBreaks
  <2> QED
    BY <1>2, <2>2, <2>3, <2>4, <2>5, <2>6, <2>7, <2>8, <2>9 DEF AnswerStep, TaskStep
<1> QED
    BY <1>1, <1>2 DEF Next

\* As long as no two answers are handled at once, a session implements
\* StepByStep, steps that could not be tried included, for every number of steps
\* and of answers (msf_exploit.py 433-486, adcs_exploit.py 568-690 and the
\* respond handlers).
THEOREM ImplementsStepByStep == Spec => OneStepAtATime
<1>1. Init => Steps!StepInit
    BY TotalType DEF Init, Steps!StepInit
<1> QED
    BY <1>1, InitAlone, NextAlone, StepImplements, PTL DEF Spec, OneStepAtATime

-----------------------------------------------------------------------------
(* A running session has a cause.                                          *)

ExplainedInv == AloneInv /\ RunningExplained

\* Whoever stops working on a running session writes another status, was
\* stopped from outside, or came too late.
LEMMA ExplainedKept ==
    ASSUME ExplainedInv, [Next]_vars
    PROVE  RunningExplained'
<1>a. AloneInv /\ TypeOK /\ RunningExplained /\ total \in Nat \ {0}
    BY TotalType DEF ExplainedInv, AloneInv, TypeOK
<1> USE DEF Live, Stopped
<1>1. CASE UNCHANGED vars
    BY <1>1, <1>a DEF vars, row, RunningExplained
<1>2. ASSUME NEW r \in Request,
             Read(r) \/ AnswerStep(r) \/ TaskStep(r) \/ Crash(r)
      PROVE  RunningExplained'
  <2>1. \A q \in Request : q # r => at'[q] = at[q]
    BY <1>2, <1>a DEF Read, AnswerStep, Reject, Approve, Dispatch, TaskStep, Fetch,
        NoStepLeft, MarkRunning, Run, NotRun, Finish, HandlerRaises, Crash, To, TypeOK
  <2>2. kind' = kind /\ (overlap => overlap')
    BY <1>2, <1>a DEF Read, AnswerStep, Reject, Approve, Dispatch, TaskStep, Fetch,
        NoStepLeft, MarkRunning, Run, NotRun, Finish, HandlerRaises, Crash, row, TypeOK
  <2>3. CASE Live(r)' \/ Stopped(r)'
    BY <2>3 DEF RunningExplained
  <2>4. CASE status' # "running"
    BY <2>4 DEF RunningExplained
  <2>5. CASE status' = status /\ ~Live(r) /\ ~Stopped(r)
    BY <2>1, <2>2, <2>5, <1>a DEF RunningExplained
  <2>6. CASE Read(r)
    BY <2>5, <2>6, <1>a DEF Read, row
  <2>7. CASE AnswerStep(r) \/ Crash(r)
    BY <2>3, <2>4, <2>7, <1>a DEF AnswerStep, Reject, Approve, Dispatch, Crash, To, TypeOK
  <2>8. CASE Fetch(r)
    BY <2>3, <2>4, <2>8, <1>a DEF Fetch, Skipped, To, row, TypeOK
  <2>9. CASE NoStepLeft(r)
    <3>1. overlap
      BY <2>9, <1>a DEF NoStepLeft, AloneInv, Alone, Expected, Ahead, TypeOK
    <3>2. kind = "msf" \/ status' = "completed"
      BY <2>9 DEF NoStepLeft
    <3> QED
      BY <2>2, <2>4, <3>1, <3>2 DEF RunningExplained
  <2>10. CASE MarkRunning(r) \/ Run(r) \/ NotRun(r)
    BY <2>3, <2>10, <1>a DEF MarkRunning, Run, NotRun, To, TypeOK
  <2>11. CASE Finish(r) \/ HandlerRaises(r)
    BY <2>4, <2>11 DEF Finish, Outcomes, OutcomeUnrun, HandlerRaises
  <2> QED
    BY <1>2, <2>6, <2>7, <2>8, <2>9, <2>10, <2>11 DEF TaskStep
<1> QED
    BY <1>1, <1>2 DEF Next

\* A session that says "running" has a task on its way or at work, or one
\* that was stopped from outside; an MSF session may also have been answered
\* twice at once (msf_exploit.py 454 returns without a save).
THEOREM RunningIsExplained == Spec => []RunningExplained
<1>1. Init => ExplainedInv
  <2>1. Init => RunningExplained
    BY RequestAssumption DEF Init, RunningExplained, Live
  <2> QED
    BY <2>1, InitAlone DEF ExplainedInv
<1>2. ExplainedInv /\ [Next]_vars => ExplainedInv'
    BY NextAlone, ExplainedKept DEF ExplainedInv
<1>3. ExplainedInv => RunningExplained
    BY DEF ExplainedInv
<1> QED
    BY <1>1, <1>2, <1>3, PTL DEF Spec
=============================================================================
