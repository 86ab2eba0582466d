----------------------- MODULE ScanLifecycleProofs -----------------------
(***************************************************************************)
(* Proofs about ScanLifecycle, for any number of scans, requests, tasks    *)
(* and automatic retries: types, the ownership of task ids and the         *)
(* persistence of tasks, and from these what the status of a scan means    *)
(* (PendingHasDriver, StuckRunningExplained and OutcomeEarned).            *)
(***************************************************************************)
EXTENDS ScanLifecycle, TLAPS

-----------------------------------------------------------------------------
(* What the helpers do to the types.                                       *)

\* A row with another status is a row with that status.
LEMMA WithStatusRow ==
    ASSUME NEW c \in Row, NEW st \in Status
    PROVE  /\ WithStatus(c, st) \in Row
           /\ WithStatus(c, st).status = st
           /\ WithStatus(c, st).task = c.task
           /\ WithStatus(c, st).deadline = c.deadline
           /\ WithStatus(c, st).type = c.type
  BY DEF WithStatus, Row

\* Serving a request adds it to the requests in progress.
LEMMA ServeAdds ==
    ASSUME call \in [DOMAIN call -> Call], DOMAIN call \subseteq Request,
           NEW r \in Request, NEW c \in Call, Serve(r, c)
    PROVE  /\ DOMAIN call' = DOMAIN call \cup {r}
           /\ call' \in [DOMAIN call' -> Call]
           /\ call'[r] = c
           /\ \A q \in DOMAIN call \ {r} : call'[q] = call[q]
           /\ served' = served
  BY DEF Serve

\* Going on with a request changes that request only.
LEMMA ContinueChanges ==
    ASSUME call \in [DOMAIN call -> Call], DOMAIN call \subseteq Request,
           NEW r \in DOMAIN call, NEW c \in Call, Continue(r, c)
    PROVE  /\ DOMAIN call' = DOMAIN call
           /\ call' \in [DOMAIN call' -> Call]
           /\ call'[r] = c
           /\ \A q \in DOMAIN call \ {r} : call'[q] = call[q]
           /\ served' = served
  BY DEF Continue

\* Answering a request takes it out of the requests in progress.
LEMMA AnswerRemoves ==
    ASSUME call \in [DOMAIN call -> Call], DOMAIN call \subseteq Request,
           served \subseteq Request, NEW r \in Request, Answer(r)
    PROVE  /\ DOMAIN call' = DOMAIN call \ {r}
           /\ call' \in [DOMAIN call' -> Call]
           /\ \A q \in DOMAIN call' : call'[q] = call[q]
           /\ served' \subseteq Request
  BY DEF Answer

\* Sending a fresh task adds it, queued, for its scan.
LEMMA SendAdds ==
    ASSUME job \in [DOMAIN job -> Job], DOMAIN job \subseteq Task,
           NEW t \in Task \ DOMAIN job, NEW s \in Scan,
           NEW k \in {"pipeline", "discovery"}, Send(t, s, k)
    PROVE  /\ DOMAIN job' = DOMAIN job \cup {t}
           /\ job' \in [DOMAIN job' -> Job]
           /\ job'[t].scan = s /\ job'[t].pc = "queued" /\ job'[t].copy = NoRow
           /\ job'[t].tries = 0
           /\ \A u \in DOMAIN job : job'[u] = job[u]
  <1>1. 0 \in 0..MaxAutoRetries
    BY RetryAssumption
  <1>2. [scan |-> s, kind |-> k, tries |-> 0, pc |-> "queued", copy |-> NoRow] \in Job
    BY <1>1 DEF Job
  <1> QED
    BY <1>2 DEF Send

\* A task that is over is the same task without an instance.
LEMMA OverChanges ==
    ASSUME job \in [DOMAIN job -> Job], NEW t \in DOMAIN job,
           NEW pc \in {"queued"} \cup Ended
    PROVE  /\ DOMAIN Over(t, pc) = DOMAIN job
           /\ Over(t, pc) \in [DOMAIN job -> Job]
           /\ Over(t, pc)[t].scan = job[t].scan
           /\ Over(t, pc)[t].tries = job[t].tries
           /\ Over(t, pc)[t].pc = pc /\ Over(t, pc)[t].copy = NoRow
           /\ \A u \in DOMAIN job \ {t} : Over(t, pc)[u] = job[u]
  BY DEF Over, Job, Executing, Ended

-----------------------------------------------------------------------------
(* Type correctness.                                                       *)

\* The initial state is type-correct.
LEMMA TypeInit == Init => TypeOK
  BY DEF Init, TypeOK

\* Sending the task of a request keeps the types.
LEMMA TypeSend ==
    ASSUME TypeOK, NEW r \in Request, NEW t \in Task, SendTask(r, t)
    PROVE  TypeOK'
  <1> USE DEF TypeOK, history
  <1>1. r \in DOMAIN call /\ call[r] \in Call /\ call[r].scan \in Scan
        /\ call[r].copy.type \in {"pipeline", "discovery"}
    BY TypeAssumption DEF SendTask, Call, Row
  <1>2. PICK k \in {"pipeline", "discovery"} : Send(t, call[r].scan, k)
    BY <1>1 DEF SendTask
  <1>3. /\ DOMAIN job' = DOMAIN job \cup {t}
        /\ job' \in [DOMAIN job' -> Job]
        /\ job'[t].pc = "queued"
        /\ \A u \in DOMAIN job : job'[u] = job[u]
    <2> DEFINE s0 == call[r].scan
    <2>1. t \in Task \ DOMAIN job
      BY DEF SendTask
    <2>2. s0 \in Scan /\ Send(t, s0, k) /\ k \in {"pipeline", "discovery"}
      BY <1>1, <1>2
    <2>3. job \in [DOMAIN job -> Job] /\ DOMAIN job \subseteq Task
      OBVIOUS
    <2> HIDE DEF s0, TypeOK
    <2> QED
      BY <2>1, <2>2, <2>3, SendAdds
  <1>4. /\ call' \in [DOMAIN call' -> Call]
        /\ DOMAIN call' \subseteq Request /\ served' \subseteq Request
        /\ \A q \in DOMAIN call' : call'[q].pc = "sent" =>
             \/ q \in DOMAIN call /\ call'[q] = call[q]
             \/ call'[q].task = t
    <2>1. CASE call[r].op = "bot_now"
      BY <2>1, AnswerRemoves DEF SendTask
    <2>2. CASE call[r].op # "bot_now"
      <3> DEFINE c == [call[r] EXCEPT !.task = t, !.pc = "sent"]
      <3>1. c \in Call /\ c.task = t
        BY <1>1 DEF Call
      <3>2. Continue(r, c)
        BY <2>2 DEF SendTask
      <3> HIDE DEF c
      <3> QED
        BY <1>1, <3>1, <3>2, ContinueChanges
    <2> QED
      BY <2>1, <2>2
  <1> QED
    BY <1>3, <1>4 DEF SendTask, Executing

\* Launching a scan keeps the types.
LEMMA TypeLaunch ==
    ASSUME TypeOK, NEW r \in Request,
           \/ \E s \in Scan : CreateScan(r, s)
           \/ ApplyPolicy(r)
           \/ \E t \in Task : SendTask(r, t)
           \/ MarkLaunched(r)
    PROVE  TypeOK'
  <1> USE DEF TypeOK, history
  <1>1. ASSUME NEW s \in Scan, CreateScan(r, s)
        PROVE  TypeOK'
    <2>1. PICK op \in Launches, k \in ScanType :
            LET new == [status |-> "pending", type |-> k,
                        task |-> NoTask, deadline |-> FALSE]
            IN  /\ Save(s, new)
                /\ Serve(r, [op |-> op, scan |-> s, pc |-> "created",
                             copy |-> new, task |-> NoTask])
      BY <1>1 DEF CreateScan
    <2> DEFINE new == [status |-> "pending", type |-> k,
                       task |-> NoTask, deadline |-> FALSE]
    <2> DEFINE c == [op |-> op, scan |-> s, pc |-> "created",
                     copy |-> new, task |-> NoTask]
    <2>2. new \in Row
      BY DEF Row, Status
    <2>3. c \in Call
      BY <2>2 DEF Call
    <2>4. /\ DOMAIN call' = DOMAIN call \cup {r}
          /\ call' \in [DOMAIN call' -> Call]
          /\ call'[r].pc = "created"
          /\ \A q \in DOMAIN call \ {r} : call'[q] = call[q]
          /\ served' = served
      <3> HIDE DEF new
      <3>1. Serve(r, c)
        BY <2>1 DEF new
      <3>2. c.pc = "created"
        OBVIOUS
      <3> HIDE DEF c
      <3> QED
        BY <2>3, <3>1, <3>2, ServeAdds
    <2>5. row' \in [Scan -> Row \cup {NoRow}]
      BY <2>1, <2>2 DEF Save
    <2> QED
      BY <1>1, <2>4, <2>5 DEF CreateScan
  <1>2. CASE ApplyPolicy(r)
    <2> DEFINE c == [call[r] EXCEPT !.pc = "reset"]
    <2>1. r \in DOMAIN call /\ call[r] \in Call
      BY <1>2 DEF ApplyPolicy
    <2>2. c \in Call /\ c.pc = "reset"
      BY <2>1 DEF Call
    <2>3. Continue(r, c)
      BY <1>2 DEF ApplyPolicy
    <2> HIDE DEF c
    <2>4. /\ DOMAIN call' = DOMAIN call
          /\ call' \in [DOMAIN call' -> Call]
          /\ call'[r] = c
          /\ \A q \in DOMAIN call \ {r} : call'[q] = call[q]
          /\ served' = served
      BY <2>1, <2>2, <2>3, ContinueChanges
    <2>5. row' \in [Scan -> Row \cup {NoRow}]
      BY <1>2, <2>1 DEF ApplyPolicy, Save, Call
    <2> QED
      BY <1>2, <2>2, <2>4, <2>5 DEF ApplyPolicy
  <1>3. ASSUME NEW t \in Task, SendTask(r, t)
        PROVE  TypeOK'
    BY <1>3, TypeSend
  <1>4. CASE MarkLaunched(r)
    <2> DEFINE s0 == call[r].scan
    <2>1. r \in DOMAIN call /\ s0 \in Scan /\ call[r].task \in Task
      BY <1>4 DEF MarkLaunched, Call
    <2>2. row' \in [Scan -> Row \cup {NoRow}] /\ late' \subseteq Scan
      <3>1. CASE row[s0] = NoRow
        BY <1>4, <3>1 DEF MarkLaunched
      <3>2. CASE row[s0] # NoRow
        <4>1. row[s0] \in Row
          BY <2>1, <3>2
        <4>2. Deadlines(call[r]) \subseteq BOOLEAN
          BY <4>1 DEF Deadlines, Row
        <4>3. \A stop \in BOOLEAN :
                [row[s0] EXCEPT !.status = "running", !.task = call[r].task,
                                !.deadline = stop] \in Row
          BY <2>1, <4>1 DEF Row, Status
        <4>4. PICK stop \in BOOLEAN :
                row' = [row EXCEPT ![s0] = [@ EXCEPT !.status = "running",
                                                     !.task = call[r].task,
                                                     !.deadline = stop]]
          BY <1>4, <3>2, <4>2 DEF MarkLaunched
        <4>5. row' \in [Scan -> Row \cup {NoRow}]
          BY <2>1, <4>3, <4>4
        <4> QED
          BY <1>4, <2>1, <3>2, <4>5 DEF MarkLaunched
      <3> QED
        BY <3>1, <3>2
    <2> QED
      BY <1>4, <2>2, AnswerRemoves DEF MarkLaunched
  <1> QED
    BY <1>1, <1>2, <1>3, <1>4

\* Cancelling, retrying and deleting keeps the types.
LEMMA TypeChange ==
    ASSUME TypeOK, NEW r \in Request,
           \/ CancelScan(r)
           \/ ResetToPending(r)
           \/ \E s \in Scan : \/ ReadToCancel(r, s) \/ CancelWithoutEffect(r, s)
                             \/ ReadToRetry(r, s) \/ DeleteScan(r, s)
    PROVE  TypeOK'
  <1> USE DEF TypeOK, history
  <1>1. ASSUME NEW s \in Scan, ReadToCancel(r, s)
        PROVE  TypeOK'
    <2>1. PICK op \in Cancels :
            Serve(r, [op |-> op, scan |-> s, pc |-> "read",
                      copy |-> row[s], task |-> NoTask])
      BY <1>1 DEF ReadToCancel
    <2> DEFINE c == [op |-> op, scan |-> s, pc |-> "read",
                     copy |-> row[s], task |-> NoTask]
    <2>2. c \in Call /\ c.pc # "sent"
      BY <1>1 DEF ReadToCancel, Call
    <2>3. Serve(r, c)
      BY <2>1
    <2> HIDE DEF c
    <2>4. /\ call' \in [DOMAIN call' -> Call]
          /\ DOMAIN call' \subseteq Request /\ served' = served
          /\ \A q \in DOMAIN call' : call'[q].pc = "sent" =>
               q \in DOMAIN call /\ call'[q] = call[q]
      BY <2>2, <2>3, ServeAdds
    <2> QED
      BY <1>1, <2>4 DEF ReadToCancel
  <1>2. ASSUME NEW s \in Scan, CancelWithoutEffect(r, s)
        PROVE  TypeOK'
    BY <1>2, AnswerRemoves DEF CancelWithoutEffect
  <1>3. CASE CancelScan(r)
    <2>1. r \in DOMAIN call /\ call[r].scan \in Scan /\ call[r].copy \in Row
      BY <1>3 DEF CancelScan, Call
    <2>2. WithStatus(call[r].copy, "cancelled") \in Row
      BY <2>1, WithStatusRow DEF Status
    <2>3. row' \in [Scan -> Row \cup {NoRow}]
      <3>1. \A x \in Row : [x EXCEPT !.status = "cancelled"] \in Row
        BY DEF Row, Status
      <3> QED
        BY <1>3, <2>1, <2>2, <3>1 DEF CancelScan, Save, SaveStatus
    <2>4. revokes' \subseteq Task
      BY <1>3, <2>1 DEF CancelScan, Revoke, Row
    <2> QED
      BY <1>3, <2>3, <2>4, AnswerRemoves DEF CancelScan
  <1>4. ASSUME NEW s \in Scan, ReadToRetry(r, s)
        PROVE  TypeOK'
    <2> DEFINE c == [op |-> "retry", scan |-> s, pc |-> "read",
                     copy |-> row[s], task |-> NoTask]
    <2>1. c \in Call /\ c.pc # "sent"
      BY <1>4 DEF ReadToRetry, Call
    <2>2. Serve(r, c)
      BY <1>4 DEF ReadToRetry
    <2> HIDE DEF c
    <2>3. /\ call' \in [DOMAIN call' -> Call]
          /\ DOMAIN call' \subseteq Request /\ served' = served
          /\ \A q \in DOMAIN call' : call'[q].pc = "sent" =>
               q \in DOMAIN call /\ call'[q] = call[q]
      BY <2>1, <2>2, ServeAdds
    <2> QED
      BY <1>4, <2>3 DEF ReadToRetry
  <1>5. CASE ResetToPending(r)
    <2> DEFINE mine == WithStatus(call[r].copy, "pending")
    <2> DEFINE c == [call[r] EXCEPT !.pc = "reset", !.copy = mine]
    <2>1. r \in DOMAIN call /\ call[r] \in Call /\ call[r].copy \in Row
          /\ call[r].scan \in Scan
      BY <1>5 DEF ResetToPending, Call
    <2>2. mine \in Row
      BY <2>1, WithStatusRow DEF Status
    <2>3. Continue(r, c) /\ Save(call[r].scan, mine)
      BY <1>5 DEF ResetToPending
    <2> HIDE DEF mine
    <2>4. c \in Call /\ c.pc = "reset"
      BY <2>1, <2>2 DEF Call
    <2> HIDE DEF c
    <2>5. /\ DOMAIN call' = DOMAIN call
          /\ call' \in [DOMAIN call' -> Call]
          /\ call'[r] = c
          /\ \A q \in DOMAIN call \ {r} : call'[q] = call[q]
          /\ served' = served
      BY <2>1, <2>3, <2>4, ContinueChanges
    <2>6. row' \in [Scan -> Row \cup {NoRow}]
      BY <2>1, <2>2, <2>3 DEF Save
    <2> QED
      BY <1>5, <2>4, <2>5, <2>6 DEF ResetToPending
  <1>6. ASSUME NEW s \in Scan, DeleteScan(r, s)
        PROVE  TypeOK'
    BY <1>6, AnswerRemoves DEF DeleteScan
  <1> QED
    BY <1>1, <1>2, <1>3, <1>4, <1>5, <1>6

\* What the worker does keeps the types.
LEMMA TypeWorker ==
    ASSUME TypeOK, NEW t \in Task,
           TaskStep(t) \/ Crash(t) \/ ReceiveRevoke(t) \/ LoseRevoke(t)
    PROVE  TypeOK'
  <1> USE DEF TypeOK, requests, history
  <1>1. CASE Fetch(t)
    <2>1. t \in DOMAIN job /\ job[t] \in Job /\ job[t].scan \in Scan
      BY <1>1 DEF Fetch, Job
    <2>2. CASE t \in revoked \/ row[job[t].scan] = NoRow
      <3>1. /\ DOMAIN job' = DOMAIN job /\ job' \in [DOMAIN job -> Job]
            /\ \A u \in DOMAIN job \ {t} : job'[u] = job[u]
            /\ job'[t].pc = "discarded"
        BY <1>1, <2>1, <2>2, OverChanges DEF Fetch, Ended
      <3> QED
        BY <1>1, <3>1 DEF Fetch, Executing
    <2>3. CASE ~(t \in revoked \/ row[job[t].scan] = NoRow)
      <3>1. row[job[t].scan] \in Row
        BY <2>1, <2>3
      <3>2. [job[t] EXCEPT !.pc = "got", !.copy = row[job[t].scan]] \in Job
        BY <2>1, <3>1 DEF Job, Executing
      <3>3. job' = [job EXCEPT ![t].pc = "got", ![t].copy = row[job[t].scan]]
        BY <1>1, <2>3 DEF Fetch
      <3>4. DOMAIN job' = DOMAIN job /\ job' \in [DOMAIN job -> Job]
        BY <2>1, <3>2, <3>3
      <3>5. \A u \in DOMAIN job' : job'[u].pc \in Executing => job'[u].copy \in Row
        BY <2>1, <3>1, <3>3, <3>4 DEF Job
      <3> QED
        BY <1>1, <3>4, <3>5 DEF Fetch
    <2> QED
      BY <2>2, <2>3
  <1>2. CASE MarkRunning(t)
    <2> DEFINE mine == [job[t].copy EXCEPT !.status = "running", !.task = t]
    <2>1. t \in DOMAIN job /\ job[t] \in Job /\ job[t].scan \in Scan
          /\ job[t].copy \in Row
      BY <1>2 DEF MarkRunning, Job, Executing
    <2>2. mine \in Row
      BY <2>1 DEF Row, Status
    <2>3. /\ Save(job[t].scan, mine)
          /\ job' = [job EXCEPT ![t].pc = "working", ![t].copy = mine]
      BY <1>2 DEF MarkRunning
    <2> HIDE DEF mine
    <2>4. [job[t] EXCEPT !.pc = "working", !.copy = mine] \in Job
      BY <2>1, <2>2 DEF Job, Executing
    <2>5. DOMAIN job' = DOMAIN job /\ job' \in [DOMAIN job -> Job]
      BY <2>1, <2>3, <2>4
    <2>6. \A u \in DOMAIN job' : job'[u].pc \in Executing => job'[u].copy \in Row
      BY <2>1, <2>2, <2>3, <2>5 DEF Job
    <2>7. row' \in [Scan -> Row \cup {NoRow}]
      BY <2>1, <2>2, <2>3 DEF Save
    <2> QED
      BY <1>2, <2>5, <2>6, <2>7 DEF MarkRunning
  <1>3. CASE Refresh(t)
    <2>1. t \in DOMAIN job /\ job[t] \in Job /\ row[job[t].scan] \in Row
      BY <1>3 DEF Refresh, Job
    <2>2. [job[t] EXCEPT !.pc = "refreshed", !.copy = row[job[t].scan]] \in Job
      BY <2>1 DEF Job, Executing
    <2>3. job' = [job EXCEPT ![t].pc = "refreshed", ![t].copy = row[job[t].scan]]
      BY <1>3 DEF Refresh
    <2>4. DOMAIN job' = DOMAIN job /\ job' \in [DOMAIN job -> Job]
      BY <2>1, <2>2, <2>3
    <2>5. \A u \in DOMAIN job' : job'[u].pc \in Executing => job'[u].copy \in Row
      BY <2>1, <2>3, <2>4 DEF Job
    <2> QED
      BY <1>3, <2>4, <2>5 DEF Refresh
  <1>4. CASE Complete(t)
    <2>1. t \in DOMAIN job /\ job[t].scan \in Scan /\ job[t].copy \in Row
      BY <1>4 DEF Complete, Job, Executing
    <2>2. WithStatus(job[t].copy, "completed") \in Row
      BY <2>1, WithStatusRow DEF Status
    <2>3. row' \in [Scan -> Row \cup {NoRow}]
      BY <1>4, <2>1, <2>2 DEF Complete, Save
    <2> QED
      BY <1>4, <2>1, <2>3, OverChanges DEF Complete, Ended, Executing
  <1>5. CASE Fail(t)
    <2>1. t \in DOMAIN job /\ job[t].scan \in Scan /\ job[t].copy \in Row
      BY <1>5 DEF Fail, Job, Executing
    <2>2. WithStatus(job[t].copy, "failed") \in Row
      BY <2>1, WithStatusRow DEF Status
    <2>3. row' \in [Scan -> Row \cup {NoRow}]
      BY <1>5, <2>1, <2>2 DEF Fail, Save
    <2>4. /\ DOMAIN job' = DOMAIN job /\ job' \in [DOMAIN job -> Job]
          /\ job'[t].pc \notin Executing
          /\ \A u \in DOMAIN job \ {t} : job'[u] = job[u]
      <3>1. CASE job[t].kind = "discovery" /\ job[t].tries < MaxAutoRetries
        <4> DEFINE over == Over(t, "queued")
        <4>1. /\ DOMAIN over = DOMAIN job /\ over \in [DOMAIN job -> Job]
              /\ over[t].tries = job[t].tries /\ over[t].pc = "queued"
              /\ \A u \in DOMAIN job \ {t} : over[u] = job[u]
          BY <2>1, OverChanges
        <4>2. job' = [over EXCEPT ![t].tries = @ + 1]
          BY <1>5, <3>1 DEF Fail, Resent
        <4> HIDE DEF over
        <4>3. over[t].tries + 1 \in 0..MaxAutoRetries
          BY <2>1, <3>1, <4>1, RetryAssumption DEF Job
        <4>4. [over[t] EXCEPT !.tries = @ + 1] \in Job
          BY <2>1, <4>1, <4>3 DEF Job
        <4>5. job' = [over EXCEPT ![t] = [over[t] EXCEPT !.tries = @ + 1]]
          BY <2>1, <4>1, <4>2
        <4>6. over[t].pc = [over[t] EXCEPT !.tries = @ + 1].pc
          BY <2>1, <4>1 DEF Job
        <4> QED
          BY <2>1, <4>1, <4>4, <4>5, <4>6 DEF Executing
      <3>2. CASE ~(job[t].kind = "discovery" /\ job[t].tries < MaxAutoRetries)
        BY <1>5, <2>1, <3>2, OverChanges DEF Fail, Ended, Executing
      <3> QED
        BY <3>1, <3>2
    <2> QED
      BY <1>5, <2>3, <2>4 DEF Fail
  <1>6. CASE Crash(t)
    BY <1>6, OverChanges DEF Crash, Ended, Executing
  <1>7. CASE ReceiveRevoke(t)
    <2>1. CASE t \in DOMAIN job
      <3>1. /\ DOMAIN job' = DOMAIN job /\ job' \in [DOMAIN job -> Job]
            /\ \A u \in DOMAIN job \ {t} : job'[u] = job[u]
            /\ job'[t] = job[t] \/ job'[t].pc = "terminated"
        BY <1>7, <2>1, OverChanges DEF ReceiveRevoke, Ended
      <3> QED
        BY <1>7, <2>1, <3>1 DEF ReceiveRevoke, Executing
    <2>2. CASE t \notin DOMAIN job
      <3>1. job' = job
        BY <1>7, <2>2 DEF ReceiveRevoke, Over
      <3> QED
        BY <1>7, <3>1 DEF ReceiveRevoke
    <2> QED
      BY <2>1, <2>2
  <1>8. CASE LoseRevoke(t)
    BY <1>8 DEF LoseRevoke
  <1> QED
    BY <1>1, <1>2, <1>3, <1>4, <1>5, <1>6, <1>7, <1>8 DEF TaskStep
\* What beat and the clock do keeps the types.
LEMMA TypeBeat ==
    ASSUME TypeOK,
           ReadOverdue \/ \E s \in Scan : StopTimePasses(s) \/ CancelOverdue(s)
    PROVE  TypeOK'
  <1> USE DEF TypeOK, requests, history
  <1>1. ASSUME NEW s \in Scan, StopTimePasses(s)
        PROVE  TypeOK'
    BY <1>1 DEF StopTimePasses
  <1>2. CASE ReadOverdue
    <2>1. \A u \in Scan : row[u] \in Row => row[u].task \in Task \cup {NoTask}
      BY DEF Row
    <2>2. sweep' \in [Scan -> Task \cup {NoTask, NoRow}]
      BY <1>2, <2>1 DEF ReadOverdue, IsOverdue
    <2> QED
      BY <1>2, <2>2 DEF ReadOverdue
  <1>3. ASSUME NEW s \in Scan, CancelOverdue(s)
        PROVE  TypeOK'
    <2>1. row' \in [Scan -> Row \cup {NoRow}]
      <3>1. \A x \in Row : [x EXCEPT !.status = "cancelled"] \in Row
        BY DEF Row, Status
      <3> QED
        BY <1>3, <3>1 DEF CancelOverdue, SaveStatus
    <2>2. revokes' \subseteq Task /\ sweep' \in [Scan -> Task \cup {NoTask, NoRow}]
      BY <1>3 DEF CancelOverdue, Revoke
    <2> QED
      BY <1>3, <2>1, <2>2 DEF CancelOverdue
  <1> QED
    BY <1>1, <1>2, <1>3

\* Every step keeps the types.
LEMMA TypeNext == TypeOK /\ [Next]_vars => TypeOK'
  <1> SUFFICES ASSUME TypeOK, [Next]_vars
               PROVE  TypeOK'
    OBVIOUS
  <1>1. CASE RequestArrives
    BY <1>1, TypeLaunch, TypeChange DEF RequestArrives
  <1>2. ASSUME NEW r \in Request, RequestStep(r)
        PROVE  TypeOK'
    BY <1>2, TypeLaunch, TypeChange DEF RequestStep
  <1>3. ASSUME NEW t \in Task,
               TaskStep(t) \/ Crash(t) \/ ReceiveRevoke(t) \/ LoseRevoke(t)
        PROVE  TypeOK'
    BY <1>3, TypeWorker
  <1>4. ASSUME NEW s \in Scan, StopTimePasses(s)
        PROVE  TypeOK'
    BY <1>4, TypeBeat
  <1>5. CASE SweepStep
    BY <1>5, TypeBeat DEF SweepStep
  <1>6. CASE UNCHANGED vars
    BY <1>6 DEF TypeOK, vars
  <1>7. ASSUME NEW r \in Request, RequestFails(r)
        PROVE  TypeOK'
    <2>1. unsent' \subseteq Scan
      BY <1>7 DEF RequestFails, TypeOK, Call
    <2> QED
      BY <1>7, <2>1, AnswerRemoves DEF RequestFails, TypeOK
  <1> QED
    BY <1>1, <1>2, <1>3, <1>4, <1>5, <1>6, <1>7 DEF Next

\* TypeOK holds in every reachable state.
THEOREM TypeCorrect == Spec => []TypeOK
  BY TypeInit, TypeNext, PTL DEF Spec
-----------------------------------------------------------------------------
(* Tasks persist: a task that was sent keeps its scan, its retries are     *)
(* only counted up, and once over it stays over.                           *)

Persist ==
    \A t \in DOMAIN job :
        /\ t \in DOMAIN job'
        /\ job'[t].scan = job[t].scan
        /\ job'[t].tries >= job[t].tries
        /\ job[t].pc \in Ended => job'[t].pc = job[t].pc

\* A step that moves task t alone, from a place where it is not over, and
\* keeps its scan and its retries or adds to them, lets every task persist.
LEMMA PersistMove ==
    ASSUME TypeOK, NEW t \in DOMAIN job, job[t].pc \notin Ended,
           DOMAIN job' = DOMAIN job,
           \A u \in DOMAIN job \ {t} : job'[u] = job[u],
           job'[t].scan = job[t].scan, job'[t].tries >= job[t].tries
    PROVE  Persist
  <1>1. \A u \in DOMAIN job : job[u].tries \in Nat
    BY RetryAssumption DEF TypeOK, Job
  <1> QED
    BY <1>1 DEF Persist

\* A step that leaves the tasks alone lets them persist.
LEMMA PersistSame == TypeOK /\ job' = job => Persist
  <1>1. TypeOK => \A u \in DOMAIN job : job[u].tries \in Nat
    BY RetryAssumption DEF TypeOK, Job
  <1> QED
    BY <1>1 DEF Persist

\* Where a task goes when the worker fetches it, and that nothing else moves.
LEMMA FetchMoves ==
    ASSUME TypeOK, NEW t \in Task, Fetch(t)
    PROVE  /\ t \in DOMAIN job /\ job[t].pc = "queued" /\ job[t].scan \in Scan
           /\ DOMAIN job' = DOMAIN job
           /\ \A u \in DOMAIN job \ {t} : job'[u] = job[u]
           /\ job'[t].scan = job[t].scan /\ job'[t].tries = job[t].tries
           /\ \/ /\ t \in revoked \/ row[job[t].scan] = NoRow
                 /\ job'[t].pc = "discarded" /\ job'[t].copy = NoRow
              \/ /\ row[job[t].scan] # NoRow
                 /\ job'[t].pc = "got" /\ job'[t].copy = row[job[t].scan]
  <1>1. t \in DOMAIN job /\ job[t] \in Job /\ job[t].pc = "queued"
    BY DEF Fetch, TypeOK
  <1>2. job[t].scan \in Scan
    BY <1>1 DEF Job
  <1>3. CASE t \in revoked \/ row[job[t].scan] = NoRow
    <2>1. job' = Over(t, "discarded")
      BY <1>3 DEF Fetch
    <2> QED
      BY <1>1, <1>2, <1>3, <2>1, OverChanges DEF TypeOK, Ended
  <1>4. CASE ~(t \in revoked \/ row[job[t].scan] = NoRow)
    <2>1. job' = [job EXCEPT ![t].pc = "got", ![t].copy = row[job[t].scan]]
      BY <1>4 DEF Fetch
    <2> QED
      BY <1>1, <1>2, <1>4, <2>1 DEF Job, TypeOK
  <1> QED
    BY <1>3, <1>4

\* Marking the row running.
LEMMA MarkRunningMoves ==
    ASSUME TypeOK, NEW t \in Task, MarkRunning(t)
    PROVE  /\ t \in DOMAIN job /\ job[t].pc = "got" /\ job[t].scan \in Scan
           /\ job[t].copy \in Row
           /\ DOMAIN job' = DOMAIN job
           /\ \A u \in DOMAIN job \ {t} : job'[u] = job[u]
           /\ job'[t].scan = job[t].scan /\ job'[t].tries = job[t].tries
           /\ job'[t].pc = "working"
           /\ job'[t].copy.task = t
           /\ job'[t].copy.status = "running"
           /\ row' = [row EXCEPT ![job[t].scan] = job'[t].copy]
  <1> DEFINE mine == [job[t].copy EXCEPT !.status = "running", !.task = t]
  <1>1. t \in DOMAIN job /\ job[t] \in Job /\ job[t].pc = "got"
    BY DEF MarkRunning, TypeOK
  <1>2. job[t].scan \in Scan /\ job[t].copy \in Row
    BY <1>1 DEF Job, TypeOK, Executing
  <1>3. mine.task = t /\ mine.status = "running"
    BY <1>2 DEF Row
  <1>4. /\ row' = [row EXCEPT ![job[t].scan] = mine]
        /\ job' = [job EXCEPT ![t].pc = "working", ![t].copy = mine]
    BY DEF MarkRunning, Save
  <1> HIDE DEF mine
  <1> QED
    BY <1>1, <1>2, <1>3, <1>4 DEF Job, TypeOK

\* Refreshing the instance.
LEMMA RefreshMoves ==
    ASSUME TypeOK, NEW t \in Task, Refresh(t)
    PROVE  /\ t \in DOMAIN job /\ job[t].pc = "working" /\ job[t].scan \in Scan
           /\ row[job[t].scan] # NoRow
           /\ DOMAIN job' = DOMAIN job
           /\ \A u \in DOMAIN job \ {t} : job'[u] = job[u]
           /\ job'[t].scan = job[t].scan /\ job'[t].tries = job[t].tries
           /\ job'[t].pc = "refreshed" /\ job'[t].copy = row[job[t].scan]
  BY DEF Refresh, TypeOK, Job

\* Completing.
LEMMA CompleteMoves ==
    ASSUME TypeOK, NEW t \in Task, Complete(t)
    PROVE  /\ t \in DOMAIN job /\ job[t].pc = "refreshed" /\ job[t].scan \in Scan
           /\ job[t].copy \in Row
           /\ DOMAIN job' = DOMAIN job
           /\ \A u \in DOMAIN job \ {t} : job'[u] = job[u]
           /\ job'[t].scan = job[t].scan /\ job'[t].tries = job[t].tries
           /\ job'[t].pc = "completed" /\ job'[t].copy = NoRow
           /\ row' = [row EXCEPT ![job[t].scan] = WithStatus(job[t].copy, "completed")]
  <1>1. t \in DOMAIN job /\ job[t] \in Job /\ job[t].pc = "refreshed"
    BY DEF Complete, TypeOK
  <1>2. job[t].scan \in Scan /\ job[t].copy \in Row
    BY <1>1 DEF Job, TypeOK, Executing
  <1> QED
    BY <1>1, <1>2, OverChanges DEF Complete, Save, TypeOK, Ended

\* Failing: the task is over, or queued again with one more retry.
LEMMA FailMoves ==
    ASSUME TypeOK, NEW t \in Task, Fail(t)
    PROVE  /\ t \in DOMAIN job /\ job[t].pc \in {"working", "refreshed"}
           /\ job[t].scan \in Scan /\ job[t].copy \in Row
           /\ DOMAIN job' = DOMAIN job
           /\ \A u \in DOMAIN job \ {t} : job'[u] = job[u]
           /\ job'[t].scan = job[t].scan /\ job'[t].copy = NoRow
           /\ \/ job'[t].pc = "queued" /\ job'[t].tries = job[t].tries + 1
              \/ job'[t].pc = "failed" /\ job'[t].tries = job[t].tries
           /\ row' = [row EXCEPT ![job[t].scan] = WithStatus(job[t].copy, "failed")]
  <1>1. t \in DOMAIN job /\ job[t] \in Job /\ job[t].pc \in {"working", "refreshed"}
    BY DEF Fail, TypeOK
  <1>2. job[t].scan \in Scan /\ job[t].copy \in Row
    BY <1>1 DEF Job, TypeOK, Executing
  <1>3. row' = [row EXCEPT ![job[t].scan] = WithStatus(job[t].copy, "failed")]
    BY DEF Fail, Save
  <1>4. CASE job[t].kind = "discovery" /\ job[t].tries < MaxAutoRetries
    <2> DEFINE over == Over(t, "queued")
    <2>1. /\ DOMAIN over = DOMAIN job /\ over \in [DOMAIN job -> Job]
          /\ over[t].tries = job[t].tries /\ over[t].pc = "queued"
          /\ over[t].scan = job[t].scan /\ over[t].copy = NoRow
          /\ \A u \in DOMAIN job \ {t} : over[u] = job[u]
      BY <1>1, OverChanges DEF TypeOK
    <2>2. job' = [over EXCEPT ![t].tries = @ + 1]
      BY <1>4 DEF Fail, Resent
    <2> HIDE DEF over
    <2> QED
      BY <1>1, <1>2, <1>3, <2>1, <2>2 DEF Job
  <1>5. CASE ~(job[t].kind = "discovery" /\ job[t].tries < MaxAutoRetries)
    BY <1>1, <1>2, <1>3, <1>5, OverChanges DEF Fail, Ended, TypeOK
  <1> QED
    BY <1>4, <1>5

\* A crash, or the delivery of a revoke, ends an executing task.
LEMMA StopMoves ==
    ASSUME TypeOK, NEW t \in Task, Crash(t) \/ ReceiveRevoke(t)
    PROVE  \/ job' = job /\ t \in revoked'
           \/ /\ t \in DOMAIN job /\ job[t].pc \in Executing
              /\ DOMAIN job' = DOMAIN job
              /\ \A u \in DOMAIN job \ {t} : job'[u] = job[u]
              /\ job'[t].scan = job[t].scan /\ job'[t].tries = job[t].tries
              /\ job'[t].copy = NoRow
              /\ \/ job'[t].pc = "crashed"
                 \/ job'[t].pc = "terminated" /\ t \in revoked'
  <1>1. CASE Crash(t)
    BY <1>1, OverChanges DEF Crash, TypeOK, Ended
  <1>2. CASE ReceiveRevoke(t) /\ t \in DOMAIN job
    BY <1>2, OverChanges DEF ReceiveRevoke, TypeOK, Ended
  <1>3. CASE ReceiveRevoke(t) /\ t \notin DOMAIN job
    BY <1>3 DEF ReceiveRevoke, Over, TypeOK
  <1> QED
    BY <1>1, <1>2, <1>3
\* Sending a task is the only way to add one.
LEMMA SendMoves ==
    ASSUME TypeOK, NEW r \in Request, NEW t \in Task, SendTask(r, t)
    PROVE  /\ r \in DOMAIN call /\ call[r].pc \in {"created", "reset"}
           /\ call[r].scan \in Scan
           /\ t \notin DOMAIN job
           /\ DOMAIN job' = DOMAIN job \cup {t}
           /\ \A u \in DOMAIN job : job'[u] = job[u]
           /\ job'[t].scan = call[r].scan /\ job'[t].pc = "queued"
           /\ job'[t].copy = NoRow /\ job'[t].tries = 0
           /\ \A q \in DOMAIN call \ {r} : q \in DOMAIN call' /\ call'[q] = call[q]
           /\ \A q \in DOMAIN call' : q \in DOMAIN call
           /\ r \in DOMAIN call' => /\ call'[r].scan = call[r].scan
                                    /\ call'[r].copy = call[r].copy
                                    /\ call'[r].task = t /\ call'[r].pc = "sent"
  <1>1. /\ r \in DOMAIN call /\ call[r] \in Call /\ call[r].scan \in Scan
        /\ call[r].pc \in {"created", "reset"}
        /\ call[r].copy.type \in {"pipeline", "discovery"}
    BY TypeAssumption DEF SendTask, Call, Row, TypeOK
  <1>2. PICK k \in {"pipeline", "discovery"} : Send(t, call[r].scan, k)
    BY <1>1 DEF SendTask
  <1>3. /\ t \notin DOMAIN job
        /\ DOMAIN job' = DOMAIN job \cup {t}
        /\ \A u \in DOMAIN job : job'[u] = job[u]
        /\ job'[t].scan = call[r].scan /\ job'[t].pc = "queued"
        /\ job'[t].copy = NoRow /\ job'[t].tries = 0
    <2> DEFINE s0 == call[r].scan
    <2>1. t \in Task \ DOMAIN job
      BY DEF SendTask
    <2>2. s0 \in Scan /\ Send(t, s0, k) /\ k \in {"pipeline", "discovery"}
      BY <1>1, <1>2
    <2>3. job \in [DOMAIN job -> Job] /\ DOMAIN job \subseteq Task
      BY DEF TypeOK
    <2> HIDE DEF s0
    <2>4. /\ DOMAIN job' = DOMAIN job \cup {t}
          /\ job'[t].scan = s0 /\ job'[t].pc = "queued"
          /\ job'[t].copy = NoRow /\ job'[t].tries = 0
          /\ \A u \in DOMAIN job : job'[u] = job[u]
      BY <2>1, <2>2, <2>3, SendAdds
    <2> QED
      BY <2>1, <2>4 DEF s0
  <1>4. CASE call[r].op = "bot_now"
    <2>1. Answer(r)
      BY <1>4 DEF SendTask
    <2> QED
      BY <1>1, <1>3, <2>1, AnswerRemoves DEF TypeOK
  <1>5. CASE call[r].op # "bot_now"
    <2> DEFINE c == [call[r] EXCEPT !.task = t, !.pc = "sent"]
    <2>1. /\ c \in Call /\ c.task = t /\ c.pc = "sent"
          /\ c.scan = call[r].scan /\ c.copy = call[r].copy
      BY <1>1 DEF Call
    <2>2. Continue(r, c)
      BY <1>5 DEF SendTask
    <2> HIDE DEF c
    <2>3. /\ DOMAIN call' = DOMAIN call
          /\ call'[r] = c
          /\ \A q \in DOMAIN call \ {r} : call'[q] = call[q]
      BY <1>1, <2>1, <2>2, ContinueChanges DEF TypeOK
    <2> QED
      BY <1>1, <1>3, <2>1, <2>3
  <1> QED
    BY <1>4, <1>5

\* Every step lets every task persist.
LEMMA PersistNext == TypeOK /\ [Next]_vars => Persist
  <1> SUFFICES ASSUME TypeOK, [Next]_vars
               PROVE  Persist
    OBVIOUS
  <1>1. CASE RequestArrives
    <2>1. job' = job
      BY <1>1 DEF RequestArrives, CreateScan, ReadToCancel,
                  CancelWithoutEffect, ReadToRetry, DeleteScan
    <2> QED
      BY <2>1, PersistSame
  <1>2. ASSUME NEW r \in Request, RequestStep(r)
        PROVE  Persist
    <2>1. ASSUME NEW t \in Task, SendTask(r, t)
          PROVE  Persist
      <3>1. \A u \in DOMAIN job : job[u].tries \in Nat
        BY RetryAssumption DEF TypeOK, Job
      <3>2. \A u \in DOMAIN job : u \in DOMAIN job' /\ job'[u] = job[u]
        BY <2>1, SendMoves
      <3> QED
        BY <3>1, <3>2 DEF Persist
    <2>2. CASE ~\E t \in Task : SendTask(r, t)
      <3>1. job' = job
        BY <1>2, <2>2 DEF RequestStep, ApplyPolicy, MarkLaunched, CancelScan,
                          ResetToPending
      <3> QED
        BY <3>1, PersistSame
    <2> QED
      BY <2>1, <2>2
  <1>3. ASSUME NEW t \in Task,
               TaskStep(t) \/ Crash(t) \/ ReceiveRevoke(t) \/ LoseRevoke(t)
        PROVE  Persist
    <2>1. \A u \in DOMAIN job : job[u].tries \in Nat
      BY RetryAssumption DEF TypeOK, Job
    <2>2. CASE Fetch(t)
      BY <2>1, <2>2, FetchMoves, PersistMove DEF Ended
    <2>3. CASE MarkRunning(t)
      BY <2>1, <2>3, MarkRunningMoves, PersistMove DEF Ended
    <2>4. CASE Refresh(t)
      BY <2>1, <2>4, RefreshMoves, PersistMove DEF Ended
    <2>5. CASE Complete(t)
      BY <2>1, <2>5, CompleteMoves, PersistMove DEF Ended
    <2>6. CASE Fail(t)
      BY <2>1, <2>6, FailMoves, PersistMove DEF Ended
    <2>7. CASE Crash(t) \/ ReceiveRevoke(t)
      BY <2>1, <2>7, StopMoves, PersistMove, PersistSame DEF Ended, Executing
    <2>8. CASE LoseRevoke(t)
      BY <2>8, PersistSame DEF LoseRevoke
    <2> QED
      BY <1>3, <2>2, <2>3, <2>4, <2>5, <2>6, <2>7, <2>8 DEF TaskStep
  <1>4. ASSUME NEW s \in Scan, StopTimePasses(s)
        PROVE  Persist
    BY <1>4, PersistSame DEF StopTimePasses
  <1>5. CASE SweepStep
    BY <1>5, PersistSame DEF SweepStep, ReadOverdue, CancelOverdue
  <1>6. CASE UNCHANGED vars
    BY <1>6, PersistSame DEF vars
  <1>7. ASSUME NEW r \in Request, RequestFails(r)
        PROVE  Persist
    BY <1>7, PersistSame DEF RequestFails
  <1> QED
    BY <1>1, <1>2, <1>3, <1>4, <1>5, <1>6, <1>7 DEF Next
-----------------------------------------------------------------------------
(* Ownership of task ids.  TaskIdOwned alone is not inductive: a handler   *)
(* writes back what it read, so the instances in memory must be owned too. *)

RowsOwn == \A s \in Scan : row[s] # NoRow => OwnTask(s, row[s].task)
CallsOwn ==
    \A r \in DOMAIN call :
        /\ OwnTask(call[r].scan, call[r].copy.task)
        /\ call[r].pc = "sent" => OwnTask(call[r].scan, call[r].task)
JobsOwn ==
    \A t \in DOMAIN job :
        job[t].copy # NoRow => OwnTask(job[t].scan, job[t].copy.task)
SweepOwns == \A s \in Scan : sweep[s] # NoRow => OwnTask(s, sweep[s])
RevokesSent == revokes \subseteq DOMAIN job

OwnInv == TypeOK /\ RowsOwn /\ CallsOwn /\ JobsOwn /\ SweepOwns /\ RevokesSent

\* Initially nothing names a task.
LEMMA OwnInit == Init => OwnInv
  <1> SUFFICES ASSUME Init PROVE OwnInv
    OBVIOUS
  <1>1. TypeOK
    BY TypeInit
  <1> QED
    BY <1>1 DEF Init, OwnInv, RowsOwn, CallsOwn, JobsOwn, SweepOwns, RevokesSent

\* What a task id owned before a step is owned after it.
LEMMA OwnStable ==
    ASSUME Persist, NEW s, NEW t, OwnTask(s, t)
    PROVE  t = NoTask \/ (t \in DOMAIN job' /\ job'[t].scan = s)
  BY DEF Persist, OwnTask

\* The parts a step leaves alone stay owned.
LEMMA OwnFrame ==
    ASSUME OwnInv, Persist
    PROVE  /\ row' = row => RowsOwn'
           /\ call' = call => CallsOwn'
           /\ (\A r \in DOMAIN call' : r \in DOMAIN call /\ call'[r] = call[r])
                => CallsOwn'
           /\ job' = job => JobsOwn'
           /\ sweep' = sweep => SweepOwns'
           /\ revokes' \subseteq revokes => RevokesSent'
  <1>1. row' = row => RowsOwn'
    BY DEF OwnInv, RowsOwn, OwnTask, Persist
  <1>2. (\A r \in DOMAIN call' : r \in DOMAIN call /\ call'[r] = call[r])
          => CallsOwn'
    BY DEF OwnInv, CallsOwn, OwnTask, Persist
  <1>3. job' = job => JobsOwn'
    BY DEF OwnInv, JobsOwn, OwnTask, Persist
  <1>4. sweep' = sweep => SweepOwns'
    BY DEF OwnInv, SweepOwns, OwnTask, Persist
  <1>5. revokes' \subseteq revokes => RevokesSent'
    BY DEF OwnInv, RevokesSent, Persist
  <1>6. call' = call => \A r \in DOMAIN call' : r \in DOMAIN call /\ call'[r] = call[r]
    OBVIOUS
  <1> QED
    BY <1>1, <1>2, <1>3, <1>4, <1>5, <1>6

\* Saving an owned instance keeps the rows owned.
LEMMA OwnSave ==
    ASSUME OwnInv, Persist, NEW s \in Scan, NEW c \in Row,
           OwnTask(s, c.task), row' = [row EXCEPT ![s] = c]
    PROVE  RowsOwn'
  <1>1. row \in [Scan -> Row \cup {NoRow}]
    BY DEF OwnInv, TypeOK
  <1>2. \A u \in Scan : row'[u] = IF u = s THEN c ELSE row[u]
    BY <1>1
  <1> QED
    BY <1>1, <1>2 DEF OwnInv, RowsOwn, OwnTask, Persist

\* A request that arrives with an owned instance keeps the requests owned.
LEMMA OwnServe ==
    ASSUME OwnInv, Persist, NEW r \in Request, NEW c \in Call, Serve(r, c),
           OwnTask(c.scan, c.copy.task), c.pc # "sent"
    PROVE  CallsOwn'
  <1>1. /\ DOMAIN call' = DOMAIN call \cup {r} /\ call'[r] = c
        /\ \A q \in DOMAIN call \ {r} : call'[q] = call[q]
    BY ServeAdds DEF OwnInv, TypeOK
  <1> QED
    BY <1>1 DEF OwnInv, CallsOwn, OwnTask, Persist

\* Answering a request keeps the requests owned.
LEMMA OwnAnswer ==
    ASSUME OwnInv, Persist, NEW r \in Request, Answer(r)
    PROVE  CallsOwn'
  BY OwnFrame, AnswerRemoves DEF OwnInv, TypeOK

\* Requests that arrive keep everything owned.
LEMMA OwnArrives ==
    ASSUME OwnInv, Persist, TypeOK', NEW r \in Request, NEW s \in Scan,
           \/ CreateScan(r, s) \/ ReadToCancel(r, s)
           \/ CancelWithoutEffect(r, s) \/ ReadToRetry(r, s) \/ DeleteScan(r, s)
    PROVE  OwnInv'
  <1> USE DEF OwnInv
  <1>1. CASE CreateScan(r, s)
    <2>1. PICK op \in Launches, k \in ScanType :
            LET new == [status |-> "pending", type |-> k,
                        task |-> NoTask, deadline |-> FALSE]
            IN  /\ Save(s, new)
                /\ Serve(r, [op |-> op, scan |-> s, pc |-> "created",
                             copy |-> new, task |-> NoTask])
      BY <1>1 DEF CreateScan
    <2> DEFINE new == [status |-> "pending", type |-> k,
                       task |-> NoTask, deadline |-> FALSE]
    <2>2. new \in Row /\ OwnTask(s, new.task)
      BY <2>1 DEF Row, Status, OwnTask
    <2>3. Save(s, new) /\ Serve(r, [op |-> op, scan |-> s, pc |-> "created",
                                    copy |-> new, task |-> NoTask])
      BY <2>1
    <2> HIDE DEF new
    <2> DEFINE c == [op |-> op, scan |-> s, pc |-> "created",
                     copy |-> new, task |-> NoTask]
    <2>4. c \in Call /\ OwnTask(c.scan, c.copy.task) /\ c.pc # "sent"
      BY <2>2 DEF Call
    <2>5. Serve(r, c)
      BY <2>3
    <2> HIDE DEF c
    <2>6. CallsOwn'
      BY <2>4, <2>5, OwnServe
    <2>7. RowsOwn'
      BY <2>2, <2>3, OwnSave DEF Save
    <2> QED
      BY <1>1, <2>6, <2>7, OwnFrame DEF CreateScan
  <1>2. CASE ReadToCancel(r, s)
    <2>1. PICK op \in Cancels :
            Serve(r, [op |-> op, scan |-> s, pc |-> "read",
                      copy |-> row[s], task |-> NoTask])
      BY <1>2 DEF ReadToCancel
    <2> DEFINE c == [op |-> op, scan |-> s, pc |-> "read",
                     copy |-> row[s], task |-> NoTask]
    <2>2. c \in Call /\ c.pc # "sent" /\ OwnTask(c.scan, c.copy.task)
      BY <1>2 DEF ReadToCancel, Call, TypeOK, RowsOwn
    <2>3. Serve(r, c)
      BY <2>1
    <2> HIDE DEF c
    <2>4. CallsOwn'
      BY <2>2, <2>3, OwnServe
    <2> QED
      BY <1>2, <2>4, OwnFrame DEF ReadToCancel
  <1>3. CASE CancelWithoutEffect(r, s)
    BY <1>3, OwnAnswer, OwnFrame DEF CancelWithoutEffect
  <1>4. CASE ReadToRetry(r, s)
    <2> DEFINE c == [op |-> "retry", scan |-> s, pc |-> "read",
                     copy |-> row[s], task |-> NoTask]
    <2>1. c \in Call /\ c.pc # "sent" /\ OwnTask(c.scan, c.copy.task)
      BY <1>4 DEF ReadToRetry, Call, TypeOK, RowsOwn
    <2>2. Serve(r, c)
      BY <1>4 DEF ReadToRetry
    <2> HIDE DEF c
    <2>3. CallsOwn'
      BY <2>1, <2>2, OwnServe
    <2> QED
      BY <1>4, <2>3, OwnFrame DEF ReadToRetry
  <1>5. CASE DeleteScan(r, s)
    <2>1. RowsOwn'
      BY <1>5 DEF DeleteScan, RowsOwn, OwnTask, TypeOK
    <2> QED
      BY <1>5, <2>1, OwnAnswer, OwnFrame DEF DeleteScan
  <1> QED
    BY <1>1, <1>2, <1>3, <1>4, <1>5
\* The steps of a request in progress keep everything owned.
LEMMA OwnRequest ==
    ASSUME OwnInv, Persist, TypeOK', NEW r \in Request, RequestStep(r)
    PROVE  OwnInv'
  <1> USE DEF OwnInv
  <1>1. CASE ApplyPolicy(r)
    <2> DEFINE c == [call[r] EXCEPT !.pc = "reset"]
    <2>1. /\ r \in DOMAIN call /\ call[r] \in Call
          /\ call[r].scan \in Scan /\ call[r].copy \in Row
      BY <1>1 DEF ApplyPolicy, TypeOK, Call
    <2>2. c \in Call /\ c.pc = "reset" /\ c.scan = call[r].scan /\ c.copy = call[r].copy
      BY <2>1 DEF Call
    <2>3. Continue(r, c)
      BY <1>1 DEF ApplyPolicy
    <2> HIDE DEF c
    <2>4. /\ DOMAIN call' = DOMAIN call /\ call'[r] = c
          /\ \A q \in DOMAIN call \ {r} : call'[q] = call[q]
      BY <2>1, <2>2, <2>3, ContinueChanges DEF TypeOK
    <2>5. OwnTask(call[r].scan, call[r].copy.task)
      BY <2>1 DEF CallsOwn
    <2>6. CallsOwn'
      BY <2>2, <2>4, <2>5 DEF CallsOwn, OwnTask, Persist
    <2>7. RowsOwn'
      BY <1>1, <2>1, <2>5, OwnSave DEF ApplyPolicy, Save
    <2> QED
      BY <1>1, <2>6, <2>7, OwnFrame DEF ApplyPolicy
  <1>2. ASSUME NEW t \in Task, SendTask(r, t)
        PROVE  OwnInv'
    <2>1. CallsOwn'
      <3>1. /\ DOMAIN job' = DOMAIN job \cup {t}
            /\ job'[t].scan = call[r].scan
            /\ r \in DOMAIN call
            /\ \A q \in DOMAIN call \ {r} : q \in DOMAIN call' /\ call'[q] = call[q]
            /\ \A q \in DOMAIN call' : q \in DOMAIN call
            /\ r \in DOMAIN call' => /\ call'[r].scan = call[r].scan
                                     /\ call'[r].copy = call[r].copy
                                     /\ call'[r].task = t
        BY <1>2, SendMoves
      <3>2. ASSUME NEW q \in DOMAIN call', q # r
            PROVE  /\ OwnTask(call[q].scan, call[q].copy.task)
                   /\ call[q].pc = "sent" => OwnTask(call[q].scan, call[q].task)
                   /\ call'[q] = call[q]
        BY <3>1, <3>2 DEF CallsOwn
      <3>3. OwnTask(call[r].scan, call[r].copy.task)
        BY <3>1 DEF CallsOwn
      <3>4. ASSUME NEW q \in DOMAIN call'
            PROVE  /\ OwnTask(call[q].scan, call[q].copy.task)'
                   /\ (call[q].pc = "sent" => OwnTask(call[q].scan, call[q].task))'
        <4>1. CASE q = r
          BY <3>1, <3>3, <4>1 DEF OwnTask, Persist
        <4>2. CASE q # r
          BY <3>1, <3>2, <4>2 DEF OwnTask, Persist
        <4> QED
          BY <4>1, <4>2
      <3> QED
        BY <3>4 DEF CallsOwn
    <2>2. JobsOwn'
      <3>1. /\ DOMAIN job' = DOMAIN job \cup {t}
            /\ \A u \in DOMAIN job : job'[u] = job[u]
            /\ job'[t].copy = NoRow
        BY <1>2, SendMoves
      <3> QED
        BY <3>1 DEF JobsOwn, OwnTask
    <2> QED
      BY <1>2, <2>1, <2>2, OwnFrame DEF SendTask
  <1>3. CASE MarkLaunched(r)
    <2> DEFINE s == call[r].scan
    <2>1. /\ r \in DOMAIN call /\ s \in Scan /\ call[r].task \in Task
          /\ OwnTask(s, call[r].task)
      BY <1>3 DEF MarkLaunched, TypeOK, Call, CallsOwn
    <2>2. row' = row \/ \E c \in Row : c.task = call[r].task /\ row' = [row EXCEPT ![s] = c]
      <3>1. CASE row[s] = NoRow
        BY <1>3, <3>1 DEF MarkLaunched
      <3>2. CASE row[s] # NoRow
        <4>1. row[s] \in Row
          BY <2>1, <3>2 DEF TypeOK
        <4>2. Deadlines(call[r]) \subseteq BOOLEAN
          BY <4>1 DEF Deadlines, Row
        <4>3. PICK stop \in BOOLEAN :
                row' = [row EXCEPT ![s] = [@ EXCEPT !.status = "running",
                                                    !.task = call[r].task,
                                                    !.deadline = stop]]
          BY <1>3, <3>2, <4>2 DEF MarkLaunched
        <4> DEFINE c == [row[s] EXCEPT !.status = "running",
                                       !.task = call[r].task,
                                       !.deadline = stop]
        <4>4. c \in Row /\ c.task = call[r].task
          BY <2>1, <4>1 DEF Row, Status
        <4>5. row' = [row EXCEPT ![s] = c]
          BY <4>3
        <4> QED
          BY <4>4, <4>5
      <3> QED
        BY <3>1, <3>2
    <2>3. RowsOwn'
      BY <2>1, <2>2, OwnSave, OwnFrame
    <2> QED
      BY <1>3, <2>3, OwnAnswer, OwnFrame DEF MarkLaunched
  <1>4. CASE CancelScan(r)
    <2>1. /\ r \in DOMAIN call /\ call[r].scan \in Scan /\ call[r].copy \in Row
          /\ OwnTask(call[r].scan, call[r].copy.task)
      BY <1>4 DEF CancelScan, TypeOK, Call, CallsOwn
    <2> DEFINE c == WithStatus(call[r].copy, "cancelled")
    <2>2. c \in Row /\ c.task = call[r].copy.task
      BY <2>1, WithStatusRow DEF Status
    <2>3. RowsOwn'
      <3>1. CASE row' = [row EXCEPT ![call[r].scan] = c]
        <4> HIDE DEF c
        <4> QED
          BY <2>1, <2>2, <3>1, OwnSave
      <3>2. CASE SaveStatus(call[r].scan, "cancelled")
        BY <2>1, <3>2 DEF SaveStatus, RowsOwn, OwnTask, Persist, TypeOK, Row
      <3> QED
        BY <1>4, <3>1, <3>2 DEF CancelScan, Save
    <2>4. RevokesSent'
      BY <1>4, <2>1 DEF CancelScan, Revoke, RevokesSent, OwnTask
    <2> QED
      BY <1>4, <2>3, <2>4, OwnAnswer, OwnFrame DEF CancelScan
  <1>5. CASE ResetToPending(r)
    <2> DEFINE mine == WithStatus(call[r].copy, "pending")
    <2> DEFINE c == [call[r] EXCEPT !.pc = "reset", !.copy = mine]
    <2>1. /\ r \in DOMAIN call /\ call[r] \in Call /\ call[r].copy \in Row
          /\ call[r].scan \in Scan /\ OwnTask(call[r].scan, call[r].copy.task)
      BY <1>5 DEF ResetToPending, Call, TypeOK, CallsOwn
    <2>2. mine \in Row /\ mine.task = call[r].copy.task
      BY <2>1, WithStatusRow DEF Status
    <2>3. Continue(r, c) /\ row' = [row EXCEPT ![call[r].scan] = mine]
      BY <1>5 DEF ResetToPending, Save
    <2> HIDE DEF mine
    <2>4. c \in Call /\ c.pc = "reset" /\ c.scan = call[r].scan /\ c.copy = mine
      BY <2>1, <2>2 DEF Call
    <2> HIDE DEF c
    <2>5. /\ DOMAIN call' = DOMAIN call /\ call'[r] = c
          /\ \A q \in DOMAIN call \ {r} : call'[q] = call[q]
      BY <2>1, <2>3, <2>4, ContinueChanges DEF TypeOK
    <2>6. CallsOwn'
      BY <2>1, <2>2, <2>4, <2>5 DEF CallsOwn, OwnTask, Persist
    <2>7. RowsOwn'
      BY <2>1, <2>2, <2>3, OwnSave
    <2> QED
      BY <1>5, <2>6, <2>7, OwnFrame DEF ResetToPending
  <1> QED
    BY <1>1, <1>2, <1>3, <1>4, <1>5 DEF RequestStep

\* What the worker does keeps everything owned.
LEMMA OwnWorker ==
    ASSUME OwnInv, Persist, TypeOK', NEW t \in Task,
           TaskStep(t) \/ Crash(t) \/ ReceiveRevoke(t) \/ LoseRevoke(t)
    PROVE  OwnInv'
  <1> USE DEF OwnInv, requests
  <1>1. CASE Fetch(t)
    <2>1. JobsOwn'
      BY <1>1, FetchMoves DEF JobsOwn, RowsOwn, OwnTask, Persist
    <2> QED
      BY <1>1, <2>1, OwnFrame DEF Fetch
  <1>2. CASE MarkRunning(t)
    <2>1. /\ t \in DOMAIN job /\ job[t].scan \in Scan
          /\ DOMAIN job' = DOMAIN job
          /\ \A u \in DOMAIN job \ {t} : job'[u] = job[u]
          /\ job'[t].scan = job[t].scan
          /\ job'[t].copy.task = t
          /\ row' = [row EXCEPT ![job[t].scan] = job'[t].copy]
      BY <1>2, MarkRunningMoves
    <2>2. JobsOwn'
      BY <2>1 DEF JobsOwn, OwnTask
    <2>3. RowsOwn'
      BY <2>1 DEF RowsOwn, OwnTask, TypeOK
    <2> QED
      BY <1>2, <2>2, <2>3, OwnFrame DEF MarkRunning
  <1>3. CASE Refresh(t)
    <2>1. JobsOwn'
      BY <1>3, RefreshMoves DEF JobsOwn, RowsOwn, OwnTask, Persist
    <2> QED
      BY <1>3, <2>1, OwnFrame DEF Refresh
  <1>4. ASSUME NEW st \in Status,
               /\ t \in DOMAIN job /\ job[t].scan \in Scan /\ job[t].copy \in Row
               /\ DOMAIN job' = DOMAIN job
               /\ \A u \in DOMAIN job \ {t} : job'[u] = job[u]
               /\ job'[t].scan = job[t].scan /\ job'[t].copy = NoRow
               /\ row' = [row EXCEPT ![job[t].scan] = WithStatus(job[t].copy, st)]
        PROVE  JobsOwn' /\ RowsOwn'
    <2> DEFINE c == WithStatus(job[t].copy, st)
    <2>1. c \in Row /\ c.task = job[t].copy.task
      BY <1>4, WithStatusRow
    <2>2. OwnTask(job[t].scan, c.task)
      BY <1>4, <2>1, RowAssumption DEF JobsOwn
    <2> HIDE DEF c
    <2>3. RowsOwn'
      BY <1>4, <2>1, <2>2, OwnSave DEF c
    <2>4. JobsOwn'
      BY <1>4 DEF JobsOwn, OwnTask
    <2> QED
      BY <2>3, <2>4
  <1>5. CASE Complete(t)
    <2>1. "completed" \in Status
      BY DEF Status
    <2>2. JobsOwn' /\ RowsOwn'
      BY <1>4, <1>5, <2>1, CompleteMoves
    <2> QED
      BY <1>5, <2>2, OwnFrame DEF Complete
  <1>6. CASE Fail(t)
    <2>1. "failed" \in Status
      BY DEF Status
    <2>2. JobsOwn' /\ RowsOwn'
      BY <1>4, <1>6, <2>1, FailMoves
    <2> QED
      BY <1>6, <2>2, OwnFrame DEF Fail
  <1>7. CASE Crash(t) \/ ReceiveRevoke(t)
    <2>1. JobsOwn'
      BY <1>7, StopMoves, OwnFrame DEF JobsOwn, OwnTask
    <2> QED
      BY <1>7, <2>1, OwnFrame DEF Crash, ReceiveRevoke
  <1>8. CASE LoseRevoke(t)
    BY <1>8, OwnFrame DEF LoseRevoke
  <1> QED
    BY <1>1, <1>2, <1>3, <1>5, <1>6, <1>7, <1>8 DEF TaskStep

\* What beat and the clock do keeps everything owned.
LEMMA OwnBeat ==
    ASSUME OwnInv, Persist, TypeOK',
           ReadOverdue \/ \E s \in Scan : StopTimePasses(s) \/ CancelOverdue(s)
    PROVE  OwnInv'
  <1> USE DEF OwnInv, requests
  <1>1. ASSUME NEW s \in Scan, StopTimePasses(s)
        PROVE  OwnInv'
    BY <1>1, OwnFrame DEF StopTimePasses
  <1>2. CASE ReadOverdue
    <2>1. SweepOwns'
      BY <1>2 DEF ReadOverdue, IsOverdue, SweepOwns, RowsOwn, OwnTask
    <2> QED
      BY <1>2, <2>1, OwnFrame DEF ReadOverdue
  <1>3. ASSUME NEW s \in Scan, CancelOverdue(s)
        PROVE  OwnInv'
    <2>1. RowsOwn'
      BY <1>3 DEF CancelOverdue, SaveStatus, RowsOwn, OwnTask, TypeOK, Row
    <2>2. SweepOwns'
      BY <1>3 DEF CancelOverdue, SweepOwns, OwnTask, TypeOK
    <2>3. RevokesSent'
      BY <1>3 DEF CancelOverdue, Revoke, RevokesSent, SweepOwns, OwnTask
    <2> QED
      BY <1>3, <2>1, <2>2, <2>3, OwnFrame DEF CancelOverdue
  <1> QED
    BY <1>1, <1>2, <1>3

\* Every step keeps everything owned.
LEMMA OwnNext == OwnInv /\ [Next]_vars => OwnInv'
  <1> SUFFICES ASSUME OwnInv, [Next]_vars
               PROVE  OwnInv'
    OBVIOUS
  <1>1. Persist /\ TypeOK'
    BY PersistNext, TypeNext DEF OwnInv
  <1>2. CASE RequestArrives
    BY <1>1, <1>2, OwnArrives DEF RequestArrives
  <1>3. ASSUME NEW r \in Request, RequestStep(r)
        PROVE  OwnInv'
    BY <1>1, <1>3, OwnRequest
  <1>4. ASSUME NEW t \in Task,
               TaskStep(t) \/ Crash(t) \/ ReceiveRevoke(t) \/ LoseRevoke(t)
        PROVE  OwnInv'
    BY <1>1, <1>4, OwnWorker
  <1>5. CASE SweepStep \/ \E s \in Scan : StopTimePasses(s)
    BY <1>1, <1>5, OwnBeat DEF SweepStep
  <1>6. CASE UNCHANGED vars
    BY <1>1, <1>6, OwnFrame DEF vars, OwnInv
  <1>7. ASSUME NEW r \in Request, RequestFails(r)
        PROVE  OwnInv'
    BY <1>1, <1>7, OwnAnswer, OwnFrame DEF RequestFails, OwnInv
  <1> QED
    BY <1>2, <1>3, <1>4, <1>5, <1>6, <1>7 DEF Next

\* A cancel never hits the task of another scan: whatever stale instances the
\* handlers write back, celery_task_id names a task sent for this very scan.
THEOREM TaskIdsOwned == Spec => []TaskIdOwned
  <1>1. OwnInv => TaskIdOwned
    BY DEF OwnInv, RowsOwn, RevokesSent, TaskIdOwned
  <1> QED
    BY <1>1, OwnInit, OwnNext, PTL DEF Spec

-----------------------------------------------------------------------------
(* What the status of a scan means.                                        *)

\* The one fact about instances in memory these invariants need: a launcher or
\* a retry that has not sent its task yet holds a pending scan.
LaunchingPending ==
    \A r \in DOMAIN call :
        call[r].pc \in {"created", "reset"} => call[r].copy.status = "pending"

\* A running task of s, or the sign that one was stopped from outside.
Accounted(s) == Live(s) \/ Interrupted(s)

-----------------------------------------------------------------------------
(* Accounted is kept as long as the scan says it is pending or running.    *)

\* A task stopped from outside stays so.
LEMMA InterruptedKept ==
    ASSUME Persist, revoked \subseteq revoked', NEW s, Interrupted(s)
    PROVE  Interrupted(s)'
  BY DEF Persist, Interrupted, Ended

\* A step that leaves the tasks alone leaves them accounted for.
LEMMA AccountedSame ==
    ASSUME job' = job, revoked \subseteq revoked', NEW s, Accounted(s)
    PROVE  Accounted(s)'
  BY DEF Accounted, Live, Interrupted

\* A task that is moved on by the worker is live or interrupted afterwards,
\* unless it has just written another status into the row, or has found no row.
LEMMA AccountedWorker ==
    ASSUME OwnInv, Persist, NEW t \in Task, NEW s \in Scan,
           TaskStep(t) \/ Crash(t) \/ ReceiveRevoke(t) \/ LoseRevoke(t),
           row[s] # NoRow, row'[s] # NoRow,
           row'[s].status \in {"pending", "running"},
           Accounted(s)
    PROVE  Accounted(s)'
  <1> USE DEF OwnInv
  <1>1. revoked \subseteq revoked'
    BY DEF TaskStep, Fetch, MarkRunning, Refresh, Complete, Fail, Crash,
           ReceiveRevoke, LoseRevoke
  <1>2. CASE Interrupted(s)
    BY <1>1, <1>2, InterruptedKept DEF Accounted
  <1>3. ASSUME NEW u \in DOMAIN job, u # t, job[u].scan = s,
               job[u].pc \in {"queued"} \cup Executing,
               \A v \in DOMAIN job \ {t} : v \in DOMAIN job' /\ job'[v] = job[v]
        PROVE  Accounted(s)'
    BY <1>3 DEF Accounted, Live
  <1>4. CASE Live(s)
    <2>1. PICK u \in DOMAIN job : job[u].scan = s
                                  /\ job[u].pc \in {"queued"} \cup Executing
      BY <1>4 DEF Live
    <2>2. CASE Fetch(t)
      <3>1. CASE u = t
        BY <2>1, <2>2, <3>1, FetchMoves
           DEF Accounted, Live, Interrupted, Executing, Fetch
      <3>2. CASE u # t
        BY <1>3, <2>1, <2>2, <3>2, FetchMoves
      <3> QED
        BY <3>1, <3>2
    <2>3. CASE MarkRunning(t)
      <3>1. CASE u = t
        BY <2>1, <2>3, <3>1, MarkRunningMoves DEF Accounted, Live, Executing
      <3>2. CASE u # t
        BY <1>3, <2>1, <2>3, <3>2, MarkRunningMoves
      <3> QED
        BY <3>1, <3>2
    <2>4. CASE Refresh(t)
      <3>1. CASE u = t
        BY <2>1, <2>4, <3>1, RefreshMoves DEF Accounted, Live, Executing
      <3>2. CASE u # t
        BY <1>3, <2>1, <2>4, <3>2, RefreshMoves
      <3> QED
        BY <3>1, <3>2
    <2>5. CASE Complete(t)
      <3>1. CASE u = t
        <4>1. row' = [row EXCEPT ![s] = WithStatus(job[t].copy, "completed")]
              /\ job[t].copy \in Row
          BY <2>1, <2>5, <3>1, CompleteMoves
        <4>2. row'[s].status = "completed"
          BY <4>1, WithStatusRow DEF Status, TypeOK
        <4> QED
          BY <4>2
      <3>2. CASE u # t
        BY <1>3, <2>1, <2>5, <3>2, CompleteMoves
      <3> QED
        BY <3>1, <3>2
    <2>6. CASE Fail(t)
      <3>1. CASE u = t
        <4>1. row' = [row EXCEPT ![s] = WithStatus(job[t].copy, "failed")]
              /\ job[t].copy \in Row
          BY <2>1, <2>6, <3>1, FailMoves
        <4>2. row'[s].status = "failed"
          BY <4>1, WithStatusRow DEF Status, TypeOK
        <4> QED
          BY <4>2
      <3>2. CASE u # t
        BY <1>3, <2>1, <2>6, <3>2, FailMoves
      <3> QED
        BY <3>1, <3>2
    <2>7. CASE Crash(t) \/ ReceiveRevoke(t)
      <3>1. CASE job' = job
        BY <1>1, <1>4, <3>1, AccountedSame DEF Accounted
      <3>2. CASE job' # job /\ u = t
        BY <2>1, <2>7, <3>2, StopMoves DEF Accounted, Interrupted
      <3>3. CASE job' # job /\ u # t
        BY <1>3, <2>1, <2>7, <3>3, StopMoves
      <3> QED
        BY <3>1, <3>2, <3>3
    <2>8. CASE LoseRevoke(t)
      BY <1>1, <1>4, <2>8, AccountedSame DEF LoseRevoke, Accounted
    <2> QED
      BY <2>2, <2>3, <2>4, <2>5, <2>6, <2>7, <2>8 DEF TaskStep
  <1> QED
    BY <1>2, <1>4 DEF Accounted

\* The same for every step.
LEMMA AccountedNext ==
    ASSUME OwnInv, [Next]_vars, NEW s \in Scan,
           row[s] # NoRow, row'[s] # NoRow,
           row'[s].status \in {"pending", "running"},
           Accounted(s)
    PROVE  Accounted(s)'
  <1>1. Persist
    BY PersistNext DEF OwnInv
  <1>2. CASE RequestArrives
    <2>1. job' = job /\ revoked' = revoked
      BY <1>2 DEF RequestArrives, CreateScan, ReadToCancel,
                  CancelWithoutEffect, ReadToRetry, DeleteScan
    <2> QED
      BY <2>1, AccountedSame
  <1>3. ASSUME NEW r \in Request, RequestStep(r)
        PROVE  Accounted(s)'
    <2>1. ASSUME NEW t \in Task, SendTask(r, t)
          PROVE  Accounted(s)'
      <3>1. \A u \in DOMAIN job : u \in DOMAIN job' /\ job'[u] = job[u]
        BY <2>1, SendMoves DEF OwnInv
      <3>2. revoked' = revoked
        BY <2>1 DEF SendTask
      <3> QED
        BY <3>1, <3>2 DEF Accounted, Live, Interrupted
    <2>2. CASE ~\E t \in Task : SendTask(r, t)
      <3>1. job' = job /\ revoked' = revoked
        BY <1>3, <2>2 DEF RequestStep, ApplyPolicy, MarkLaunched, CancelScan,
                          ResetToPending
      <3> QED
        BY <3>1, AccountedSame
    <2> QED
      BY <2>1, <2>2
  <1>4. ASSUME NEW t \in Task,
               TaskStep(t) \/ Crash(t) \/ ReceiveRevoke(t) \/ LoseRevoke(t)
        PROVE  Accounted(s)'
    BY <1>1, <1>4, AccountedWorker
  <1>5. CASE SweepStep \/ (\E u \in Scan : StopTimePasses(u)) \/ UNCHANGED vars
    <2>1. job' = job /\ revoked' = revoked
      BY <1>5 DEF SweepStep, ReadOverdue, CancelOverdue, StopTimePasses, vars
    <2> QED
      BY <2>1, AccountedSame
  <1>6. ASSUME NEW r \in Request, RequestFails(r)
        PROVE  Accounted(s)'
    BY <1>6, AccountedSame DEF RequestFails
  <1> QED
    BY <1>2, <1>3, <1>4, <1>5, <1>6 DEF Next

-----------------------------------------------------------------------------
(* What the request handlers that write the row do to it and to the        *)
(* requests in progress.                                                   *)

\* Creating a scan writes a pending row, and the launch is in progress.
LEMMA CreateMoves ==
    ASSUME TypeOK, NEW r \in Request, NEW s \in Scan, CreateScan(r, s)
    PROVE  /\ \A u \in Scan \ {s} : row'[u] = row[u]
           /\ row'[s].status = "pending"
           /\ r \in DOMAIN call'
           /\ call'[r].scan = s /\ call'[r].pc = "created"
           /\ call'[r].copy.status = "pending"
           /\ \A q \in DOMAIN call : q \in DOMAIN call' /\ call'[q] = call[q]
           /\ \A q \in DOMAIN call' : q = r \/ q \in DOMAIN call
  <1>1. PICK op \in Launches, k \in ScanType :
          LET new == [status |-> "pending", type |-> k,
                      task |-> NoTask, deadline |-> FALSE]
          IN  /\ Save(s, new)
              /\ Serve(r, [op |-> op, scan |-> s, pc |-> "created",
                           copy |-> new, task |-> NoTask])
    BY DEF CreateScan
  <1> DEFINE new == [status |-> "pending", type |-> k,
                     task |-> NoTask, deadline |-> FALSE]
             c == [op |-> op, scan |-> s, pc |-> "created",
                   copy |-> new, task |-> NoTask]
  <1>2. new \in Row /\ new.status = "pending"
    BY <1>1, TypeAssumption DEF Row, Status
  <1>3. Save(s, new) /\ Serve(r, c)
    BY <1>1
  <1> HIDE DEF new
  <1>4. c \in Call /\ c.scan = s /\ c.pc = "created" /\ c.copy = new
    BY <1>1, <1>2 DEF Call
  <1> HIDE DEF c
  <1>5. r \notin DOMAIN call
    BY DEF CreateScan, Arrives
  <1>6. /\ DOMAIN call' = DOMAIN call \cup {r} /\ call'[r] = c
        /\ \A q \in DOMAIN call \ {r} : call'[q] = call[q]
    BY <1>3, <1>4, ServeAdds DEF TypeOK
  <1>7. /\ \A u \in Scan \ {s} : row'[u] = row[u]
        /\ row'[s] = new
    BY <1>3 DEF Save, TypeOK
  <1> QED
    BY <1>2, <1>4, <1>5, <1>6, <1>7

\* Applying the policy writes back the instance, and the launch goes on.
LEMMA ApplyMoves ==
    ASSUME TypeOK, NEW r \in Request, ApplyPolicy(r)
    PROVE  /\ r \in DOMAIN call /\ call[r].pc = "created"
           /\ call[r].scan \in Scan /\ call[r].copy \in Row
           /\ row' = [row EXCEPT ![call[r].scan] = call[r].copy]
           /\ DOMAIN call' = DOMAIN call
           /\ call'[r].scan = call[r].scan /\ call'[r].pc = "reset"
           /\ call'[r].copy = call[r].copy
           /\ \A q \in DOMAIN call \ {r} : call'[q] = call[q]
  <1> DEFINE c == [call[r] EXCEPT !.pc = "reset"]
  <1>1. /\ r \in DOMAIN call /\ call[r] \in Call /\ call[r].pc = "created"
        /\ call[r].scan \in Scan /\ call[r].copy \in Row
    BY DEF ApplyPolicy, TypeOK, Call
  <1>2. c \in Call /\ c.pc = "reset" /\ c.scan = call[r].scan /\ c.copy = call[r].copy
    BY <1>1 DEF Call
  <1>3. Continue(r, c) /\ row' = [row EXCEPT ![call[r].scan] = call[r].copy]
    BY DEF ApplyPolicy, Save
  <1> HIDE DEF c
  <1>4. /\ DOMAIN call' = DOMAIN call /\ call'[r] = c
        /\ \A q \in DOMAIN call \ {r} : call'[q] = call[q]
    BY <1>1, <1>2, <1>3, ContinueChanges DEF TypeOK
  <1> QED
    BY <1>1, <1>2, <1>3, <1>4

\* A retry writes a pending row, and its launch is in progress.
LEMMA ResetMoves ==
    ASSUME TypeOK, NEW r \in Request, ResetToPending(r)
    PROVE  /\ r \in DOMAIN call /\ call[r].pc = "read" /\ call[r].scan \in Scan
           /\ \A u \in Scan \ {call[r].scan} : row'[u] = row[u]
           /\ row'[call[r].scan].status = "pending"
           /\ DOMAIN call' = DOMAIN call
           /\ call'[r].scan = call[r].scan /\ call'[r].pc = "reset"
           /\ call'[r].copy.status = "pending"
           /\ \A q \in DOMAIN call \ {r} : call'[q] = call[q]
  <1> DEFINE mine == WithStatus(call[r].copy, "pending")
             c == [call[r] EXCEPT !.pc = "reset", !.copy = mine]
  <1>1. /\ r \in DOMAIN call /\ call[r] \in Call /\ call[r].pc = "read"
        /\ call[r].scan \in Scan /\ call[r].copy \in Row
    BY DEF ResetToPending, TypeOK, Call
  <1>2. mine \in Row /\ mine.status = "pending"
    BY <1>1, WithStatusRow DEF Status
  <1>3. Continue(r, c) /\ row' = [row EXCEPT ![call[r].scan] = mine]
    BY DEF ResetToPending, Save
  <1> HIDE DEF mine
  <1>4. c \in Call /\ c.pc = "reset" /\ c.scan = call[r].scan /\ c.copy = mine
    BY <1>1, <1>2 DEF Call
  <1> HIDE DEF c
  <1>5. /\ DOMAIN call' = DOMAIN call /\ call'[r] = c
        /\ \A q \in DOMAIN call \ {r} : call'[q] = call[q]
    BY <1>1, <1>3, <1>4, ContinueChanges DEF TypeOK
  <1>6. /\ \A u \in Scan \ {call[r].scan} : row'[u] = row[u]
        /\ row'[call[r].scan] = mine
    BY <1>1, <1>3 DEF TypeOK
  <1> QED
    BY <1>1, <1>2, <1>4, <1>5, <1>6

\* The launcher's second save leaves a missing row alone and marks any other
\* running; when its task is over, that is on record.
LEMMA LaunchMoves ==
    ASSUME TypeOK, NEW r \in Request, MarkLaunched(r)
    PROVE  /\ r \in DOMAIN call /\ call[r].pc = "sent" /\ call[r].scan \in Scan
           /\ call[r].task \in DOMAIN job
           /\ \A u \in Scan \ {call[r].scan} : row'[u] = row[u]
           /\ row'[call[r].scan] # NoRow =>
                /\ row'[call[r].scan].status = "running"
                /\ job[call[r].task].pc \in Ended => call[r].scan \in late'
           /\ job' = job
  <1> DEFINE s == call[r].scan
  <1>1. /\ r \in DOMAIN call /\ call[r].pc = "sent" /\ s \in Scan
        /\ call[r].task \in Task /\ call[r].task \in DOMAIN job
    BY TaskAssumption DEF MarkLaunched, TypeOK, Call
  <1>2. CASE row[s] = NoRow
    BY <1>1, <1>2 DEF MarkLaunched, TypeOK
  <1>3. CASE row[s] # NoRow
    <2>1. row[s] \in Row
      BY <1>1, <1>3 DEF TypeOK
    <2>2. Deadlines(call[r]) \subseteq BOOLEAN
      BY <2>1 DEF Deadlines, Row
    <2>3. PICK stop \in BOOLEAN :
            row' = [row EXCEPT ![s] = [@ EXCEPT !.status = "running",
                                                !.task = call[r].task,
                                                !.deadline = stop]]
      BY <1>3, <2>2 DEF MarkLaunched
    <2> DEFINE c == [row[s] EXCEPT !.status = "running",
                                   !.task = call[r].task,
                                   !.deadline = stop]
    <2>4. c \in Row /\ c.status = "running"
      BY <1>1, <2>1, <2>3 DEF Row, Status
    <2>5. row' = [row EXCEPT ![s] = c]
      BY <2>3
    <2> HIDE DEF c
    <2>6. row'[s] = c /\ \A u \in Scan \ {s} : row'[u] = row[u]
      BY <1>1, <2>5 DEF TypeOK
    <2>7. job[call[r].task].pc \in Ended => s \in late'
      BY <1>3 DEF MarkLaunched
    <2>8. job' = job
      BY DEF MarkLaunched
    <2> QED
      BY <1>1, <2>4, <2>6, <2>7, <2>8
  <1> QED
    BY <1>2, <1>3

\* A cancel changes one row, to "cancelled".
LEMMA CancelMoves ==
    ASSUME TypeOK, NEW r \in Request, CancelScan(r)
    PROVE  /\ r \in DOMAIN call /\ call[r].pc = "read" /\ call[r].scan \in Scan
           /\ \A u \in Scan \ {call[r].scan} : row'[u] = row[u]
           /\ row'[call[r].scan] # NoRow =>
                row'[call[r].scan].status = "cancelled"
  <1>1. /\ r \in DOMAIN call /\ call[r].pc = "read"
        /\ call[r].scan \in Scan /\ call[r].copy \in Row
    BY DEF CancelScan, TypeOK, Call
  <1> DEFINE c == WithStatus(call[r].copy, "cancelled")
  <1>2. c \in Row /\ c.status = "cancelled"
    BY <1>1, WithStatusRow DEF Status
  <1>3. CASE row' = [row EXCEPT ![call[r].scan] = c]
    <2> HIDE DEF c
    <2> QED
      BY <1>1, <1>2, <1>3 DEF TypeOK
  <1>4. CASE SaveStatus(call[r].scan, "cancelled")
    BY <1>1, <1>4 DEF SaveStatus, TypeOK, Row
  <1> QED
    BY <1>3, <1>4 DEF CancelScan, Save

-----------------------------------------------------------------------------
(* Launches in progress hold pending instances.                            *)

\* Initially no request is in progress, and every step keeps the fact.
LEMMA LaunchingInit == Init => LaunchingPending
  BY DEF Init, LaunchingPending

LEMMA LaunchingNext ==
    ASSUME TypeOK, LaunchingPending, [Next]_vars
    PROVE  LaunchingPending'
  <1> USE DEF LaunchingPending
  <1>1. ASSUME \A q \in DOMAIN call' : q \in DOMAIN call /\ call'[q] = call[q]
        PROVE  LaunchingPending'
    BY <1>1
  <1>2. ASSUME NEW r \in Request, NEW s \in Scan, CreateScan(r, s)
        PROVE  LaunchingPending'
    BY <1>2, CreateMoves
  <1>3. ASSUME NEW r \in Request, NEW c \in Call, Serve(r, c), c.pc = "read"
        PROVE  LaunchingPending'
    <2>1. /\ DOMAIN call' = DOMAIN call \cup {r} /\ call'[r] = c
          /\ \A q \in DOMAIN call \ {r} : call'[q] = call[q]
      BY <1>3, ServeAdds DEF TypeOK
    <2> QED
      BY <1>3, <2>1
  <1>4. ASSUME NEW r \in Request, Answer(r)
        PROVE  LaunchingPending'
    BY <1>1, <1>4, AnswerRemoves DEF TypeOK
  <1>5. ASSUME NEW r \in Request, NEW s \in Scan, ReadToCancel(r, s)
        PROVE  LaunchingPending'
    <2>1. PICK op \in Cancels :
            Serve(r, [op |-> op, scan |-> s, pc |-> "read",
                      copy |-> row[s], task |-> NoTask])
      BY <1>5 DEF ReadToCancel
    <2> DEFINE c == [op |-> op, scan |-> s, pc |-> "read",
                     copy |-> row[s], task |-> NoTask]
    <2>2. c \in Call /\ c.pc = "read"
      BY <1>5 DEF ReadToCancel, Call, TypeOK
    <2>3. Serve(r, c)
      BY <2>1
    <2> HIDE DEF c
    <2> QED
      BY <1>3, <2>2, <2>3
  <1>6. ASSUME NEW r \in Request, NEW s \in Scan, ReadToRetry(r, s)
        PROVE  LaunchingPending'
    <2> DEFINE c == [op |-> "retry", scan |-> s, pc |-> "read",
                     copy |-> row[s], task |-> NoTask]
    <2>1. c \in Call /\ c.pc = "read" /\ Serve(r, c)
      BY <1>6 DEF ReadToRetry, Call, TypeOK
    <2> HIDE DEF c
    <2> QED
      BY <1>3, <2>1
  <1>7. CASE RequestArrives
    BY <1>2, <1>4, <1>5, <1>6, <1>7
       DEF RequestArrives, CancelWithoutEffect, DeleteScan
  <1>8. ASSUME NEW r \in Request, RequestStep(r)
        PROVE  LaunchingPending'
    <2>1. CASE ApplyPolicy(r)
      BY <2>1, ApplyMoves
    <2>2. ASSUME NEW t \in Task, SendTask(r, t)
          PROVE  LaunchingPending'
      <3>1. /\ \A q \in DOMAIN call \ {r} : call'[q] = call[q]
            /\ \A q \in DOMAIN call' : q \in DOMAIN call
            /\ r \in DOMAIN call' => call'[r].pc = "sent"
        BY <2>2, SendMoves
      <3> QED
        BY <3>1
    <2>3. CASE ResetToPending(r)
      BY <2>3, ResetMoves
    <2>4. CASE MarkLaunched(r) \/ CancelScan(r)
      BY <1>4, <2>4 DEF MarkLaunched, CancelScan
    <2> QED
      BY <1>8, <2>1, <2>2, <2>3, <2>4 DEF RequestStep
  <1>9. ASSUME NEW t \in Task,
               TaskStep(t) \/ Crash(t) \/ ReceiveRevoke(t) \/ LoseRevoke(t)
        PROVE  LaunchingPending'
    <2>1. call' = call
      BY <1>9 DEF TaskStep, Fetch, MarkRunning, Refresh, Complete, Fail, Crash,
                  ReceiveRevoke, LoseRevoke, requests
    <2> QED
      BY <1>1, <2>1
  <1>10. CASE SweepStep \/ (\E u \in Scan : StopTimePasses(u)) \/ UNCHANGED vars
    <2>1. call' = call
      BY <1>10 DEF SweepStep, ReadOverdue, CancelOverdue, StopTimePasses, vars,
                   requests
    <2> QED
      BY <1>1, <2>1
  <1>11. ASSUME NEW r \in Request, RequestFails(r)
         PROVE  LaunchingPending'
    BY <1>4, <1>11 DEF RequestFails
  <1> QED
    BY <1>7, <1>8, <1>9, <1>10, <1>11 DEF Next

-----------------------------------------------------------------------------
(* Who writes which status.                                                *)

\* What a step may leave in an existing row: the row it found, or a status
\* together with the evidence for it.
Evidenced(s) ==
    \/ row'[s] = row[s]
    \/ row'[s].status = "cancelled"
    \/ row'[s].status = "pending" /\ BeingLaunched(s)'
    \/ row'[s].status = "running" /\ (Live(s)' \/ s \in late')
    \/ /\ row'[s].status = "completed"
       /\ \E t \in DOMAIN job' : job'[t].scan = s /\ job'[t].pc = "completed"
    \/ /\ row'[s].status = "failed"
       /\ \E t \in DOMAIN job' : job'[t].scan = s
                                 /\ (job'[t].pc = "failed" \/ job'[t].tries > 0)

\* The requests that arrive write no status but "pending", for a new scan.
LEMMA EvidenceArrives ==
    ASSUME TypeOK, RequestArrives, NEW s \in Scan, row'[s] # NoRow
    PROVE  Evidenced(s)
  <1>1. ASSUME NEW r \in Request, NEW u \in Scan, CreateScan(r, u)
        PROVE  Evidenced(s)
    BY <1>1, CreateMoves DEF Evidenced, BeingLaunched
  <1>2. ASSUME NEW r \in Request, NEW u \in Scan, DeleteScan(r, u)
        PROVE  Evidenced(s)
    BY <1>2 DEF DeleteScan, TypeOK, Evidenced
  <1> QED
    BY <1>1, <1>2 DEF RequestArrives, ReadToCancel, CancelWithoutEffect,
                      ReadToRetry, Evidenced

\* A launch in progress writes "pending"; a launcher's second save writes
\* "running", for a task that is live, or over and then on record.
LEMMA EvidenceRequest ==
    ASSUME OwnInv, LaunchingPending, NEW r \in Request, RequestStep(r),
           NEW s \in Scan, row'[s] # NoRow
    PROVE  Evidenced(s)
  <1> USE DEF OwnInv
  <1>1. CASE ApplyPolicy(r)
    <2>1. /\ r \in DOMAIN call' /\ call[r].scan \in Scan
          /\ call'[r].scan = call[r].scan /\ call'[r].pc = "reset"
          /\ call[r].copy.status = "pending"
          /\ row' = [row EXCEPT ![call[r].scan] = call[r].copy]
      BY <1>1, ApplyMoves DEF LaunchingPending
    <2>2. CASE call[r].scan = s
      BY <2>1, <2>2 DEF Evidenced, BeingLaunched, TypeOK
    <2>3. CASE call[r].scan # s
      BY <2>1, <2>3 DEF Evidenced, TypeOK
    <2> QED
      BY <2>2, <2>3
  <1>2. ASSUME NEW t \in Task, SendTask(r, t)
        PROVE  Evidenced(s)
    BY <1>2 DEF SendTask, Evidenced
  <1>3. CASE MarkLaunched(r)
    <2>1. CASE call[r].scan # s
      BY <1>3, <2>1, LaunchMoves DEF Evidenced
    <2>2. CASE call[r].scan = s
      <3>1. /\ r \in DOMAIN call /\ call[r].pc = "sent"
            /\ call[r].task \in DOMAIN job /\ job' = job
            /\ row'[s].status = "running"
            /\ job[call[r].task].pc \in Ended => s \in late'
        BY <1>3, <2>2, LaunchMoves
      <3>2. job[call[r].task].scan = s
        BY <2>2, <3>1, TaskAssumption DEF CallsOwn, OwnTask, TypeOK
      <3>3. job[call[r].task].pc \in {"queued"} \cup Executing \cup Ended
        BY <3>1 DEF TypeOK, Job
      <3>4. Live(s)' \/ s \in late'
        BY <3>1, <3>2, <3>3 DEF Live
      <3> QED
        BY <3>1, <3>4 DEF Evidenced
    <2> QED
      BY <2>1, <2>2
  <1>4. CASE CancelScan(r)
    BY <1>4, CancelMoves DEF Evidenced
  <1>5. CASE ResetToPending(r)
    BY <1>5, ResetMoves DEF Evidenced, BeingLaunched
  <1> QED
    BY <1>1, <1>2, <1>3, <1>4, <1>5 DEF RequestStep

\* A task writes the status that says where it stands.
LEMMA EvidenceWorker ==
    ASSUME TypeOK, NEW t \in Task,
           TaskStep(t) \/ Crash(t) \/ ReceiveRevoke(t) \/ LoseRevoke(t),
           NEW s \in Scan, row'[s] # NoRow
    PROVE  Evidenced(s)
  <1>1. CASE MarkRunning(t)
    <2>1. CASE job[t].scan = s
      BY <1>1, <2>1, MarkRunningMoves DEF Evidenced, Live, Executing, TypeOK
    <2>2. CASE job[t].scan # s
      BY <1>1, <2>2, MarkRunningMoves DEF Evidenced, TypeOK
    <2> QED
      BY <2>1, <2>2
  <1>2. CASE Complete(t)
    <2>1. CASE job[t].scan = s
      <3>1. /\ t \in DOMAIN job' /\ job'[t].scan = s /\ job'[t].pc = "completed"
            /\ row'[s] = WithStatus(job[t].copy, "completed")
            /\ job[t].copy \in Row
        BY <1>2, <2>1, CompleteMoves DEF TypeOK
      <3>2. row'[s].status = "completed"
        BY <3>1, WithStatusRow DEF Status
      <3> QED
        BY <3>1, <3>2 DEF Evidenced
    <2>2. CASE job[t].scan # s
      BY <1>2, <2>2, CompleteMoves DEF Evidenced, TypeOK
    <2> QED
      BY <2>1, <2>2
  <1>3. CASE Fail(t)
    <2>1. CASE job[t].scan = s
      <3>1. /\ t \in DOMAIN job' /\ job'[t].scan = s
            /\ row'[s] = WithStatus(job[t].copy, "failed")
            /\ job[t].copy \in Row
            /\ \/ job'[t].pc = "queued" /\ job'[t].tries = job[t].tries + 1
               \/ job'[t].pc = "failed"
        BY <1>3, <2>1, FailMoves DEF TypeOK
      <3>2. job[t].tries \in Nat
        BY <1>3, FailMoves, RetryAssumption DEF TypeOK, Job
      <3>3. job'[t].pc = "failed" \/ job'[t].tries > 0
        BY <3>1, <3>2
      <3>4. row'[s].status = "failed"
        BY <3>1, WithStatusRow DEF Status
      <3> QED
        BY <3>1, <3>3, <3>4 DEF Evidenced
    <2>2. CASE job[t].scan # s
      BY <1>3, <2>2, FailMoves DEF Evidenced, TypeOK
    <2> QED
      BY <2>1, <2>2
  <1>4. CASE row' = row
    BY <1>4 DEF Evidenced
  <1> QED
    BY <1>1, <1>2, <1>3, <1>4
       DEF TaskStep, Fetch, Refresh, Crash, ReceiveRevoke, LoseRevoke

\* Every step leaves evidence for the status of every row.
LEMMA EvidenceNext ==
    ASSUME OwnInv, LaunchingPending, [Next]_vars, NEW s \in Scan, row'[s] # NoRow
    PROVE  Evidenced(s)
  <1>1. TypeOK
    BY DEF OwnInv
  <1>2. CASE RequestArrives
    BY <1>1, <1>2, EvidenceArrives
  <1>3. ASSUME NEW r \in Request, RequestStep(r)
        PROVE  Evidenced(s)
    BY <1>3, EvidenceRequest
  <1>4. ASSUME NEW t \in Task,
               TaskStep(t) \/ Crash(t) \/ ReceiveRevoke(t) \/ LoseRevoke(t)
        PROVE  Evidenced(s)
    BY <1>1, <1>4, EvidenceWorker
  <1>5. ASSUME NEW u \in Scan, CancelOverdue(u)
        PROVE  Evidenced(s)
    BY <1>1, <1>5 DEF CancelOverdue, SaveStatus, TypeOK, Row, Evidenced
  <1>6. CASE row' = row
    BY <1>6 DEF Evidenced
  <1> QED
    BY <1>2, <1>3, <1>4, <1>5, <1>6
       DEF Next, RequestFails, SweepStep, ReadOverdue, StopTimePasses, vars

-----------------------------------------------------------------------------
(* The three invariants.                                                   *)

StatusInv ==
    OwnInv /\ LaunchingPending
    /\ PendingHasDriver /\ StuckRunningExplained /\ OutcomeEarned

\* A launch in progress goes on, or sends its task, or fails on record.
LEMMA LaunchGoesOn ==
    ASSUME OwnInv, [Next]_vars, NEW s \in Scan, BeingLaunched(s)
    PROVE  \/ BeingLaunched(s)'
           \/ Live(s)'
           \/ s \in unsent'
  <1> USE DEF OwnInv
  <1>1. PICK q \in DOMAIN call :
          call[q].scan = s /\ call[q].pc \in {"created", "reset"}
    BY DEF BeingLaunched
  <1>0. q \in Request
    BY <1>1 DEF TypeOK
  <1>2. ASSUME q \in DOMAIN call', call'[q].scan = s,
               call'[q].pc \in {"created", "reset"}
        PROVE  BeingLaunched(s)'
    BY <1>2 DEF BeingLaunched
  <1>3. ASSUME NEW r \in Request \ DOMAIN call, NEW c, Serve(r, c)
        PROVE  BeingLaunched(s)'
    BY <1>1, <1>2, <1>3 DEF Serve
  <1>4. CASE RequestArrives
    <2>1. ASSUME NEW r \in Request, NEW u \in Scan,
                 CancelWithoutEffect(r, u) \/ DeleteScan(r, u)
          PROVE  BeingLaunched(s)'
      <3>1. r \notin DOMAIN call /\ Answer(r)
        BY <2>1 DEF CancelWithoutEffect, DeleteScan, Arrives
      <3> QED
        BY <1>1, <1>2, <3>1 DEF Answer
    <2>2. ASSUME NEW r \in Request, NEW u \in Scan,
                 CreateScan(r, u) \/ ReadToCancel(r, u) \/ ReadToRetry(r, u)
          PROVE  BeingLaunched(s)'
      BY <1>3, <2>2 DEF CreateScan, ReadToCancel, ReadToRetry, Arrives
    <2> QED
      BY <1>4, <2>1, <2>2 DEF RequestArrives
  <1>5. ASSUME NEW r \in Request, RequestStep(r), r # q
        PROVE  BeingLaunched(s)'
    <2>1. CASE ApplyPolicy(r)
      BY <1>1, <1>2, <1>5, <2>1, ApplyMoves
    <2>2. ASSUME NEW t \in Task, SendTask(r, t)
          PROVE  BeingLaunched(s)'
      <3>1. q \in DOMAIN call' /\ call'[q] = call[q]
        BY <1>1, <1>5, <2>2, SendMoves
      <3> QED
        BY <1>1, <1>2, <3>1
    <2>3. CASE MarkLaunched(r) \/ CancelScan(r)
      BY <1>1, <1>2, <1>5, <2>3 DEF MarkLaunched, CancelScan, Answer
    <2>4. CASE ResetToPending(r)
      BY <1>1, <1>2, <1>5, <2>4, ResetMoves
    <2> QED
      BY <1>5, <2>1, <2>2, <2>3, <2>4 DEF RequestStep
  <1>6. CASE RequestStep(q)
    <2>1. CASE ApplyPolicy(q)
      BY <1>0, <1>1, <1>2, <2>1, ApplyMoves
    <2>2. ASSUME NEW t \in Task, SendTask(q, t)
          PROVE  Live(s)'
      <3>1. t \in DOMAIN job' /\ job'[t].scan = s /\ job'[t].pc = "queued"
        BY <1>0, <1>1, <2>2, SendMoves
      <3> QED
        BY <3>1 DEF Live
    <2>3. CASE MarkLaunched(q) \/ CancelScan(q) \/ ResetToPending(q)
      BY <1>1, <2>3 DEF MarkLaunched, CancelScan, ResetToPending
    <2> QED
      BY <1>6, <2>1, <2>2, <2>3 DEF RequestStep
  <1>7. CASE call' = call
    BY <1>1, <1>2, <1>7
  <1>8. ASSUME NEW t \in Task,
               TaskStep(t) \/ Crash(t) \/ ReceiveRevoke(t) \/ LoseRevoke(t)
        PROVE  call' = call
    BY <1>8 DEF TaskStep, Fetch, MarkRunning, Refresh, Complete, Fail, Crash,
                ReceiveRevoke, LoseRevoke, requests
  <1>9. CASE SweepStep \/ (\E u \in Scan : StopTimePasses(u)) \/ UNCHANGED vars
    BY <1>7, <1>9 DEF SweepStep, ReadOverdue, CancelOverdue, StopTimePasses,
                      vars, requests
  <1>10. ASSUME NEW r \in Request, RequestFails(r)
         PROVE  BeingLaunched(s)' \/ s \in unsent'
    <2>1. CASE r = q
      BY <1>1, <1>10, <2>1 DEF RequestFails
    <2>2. CASE r # q
      BY <1>1, <1>2, <1>10, <2>2 DEF RequestFails, Answer
    <2> QED
      BY <2>1, <2>2
  <1> QED
    BY <1>4, <1>5, <1>6, <1>7, <1>8, <1>9, <1>10 DEF Next

\* What is on record about late and failed launchers stays on record.
LEMMA HistoryKept ==
    [Next]_vars => late \subseteq late' /\ unsent \subseteq unsent'
  BY DEF Next, vars, history, RequestArrives, RequestStep, TaskStep, SweepStep,
         RequestFails,
         CreateScan, ApplyPolicy, SendTask, MarkLaunched, ReadToCancel,
         CancelWithoutEffect, CancelScan, ReadToRetry, ResetToPending,
         DeleteScan, Fetch, MarkRunning, Refresh, Complete, Fail, Crash,
         ReceiveRevoke, LoseRevoke, StopTimePasses, ReadOverdue, CancelOverdue

\* Initially there is no row.
LEMMA StatusInit == Init => StatusInv
  <1> SUFFICES ASSUME Init PROVE StatusInv
    OBVIOUS
  <1>1. \A s \in Scan : row[s] = NoRow
    BY DEF Init
  <1> QED
    BY <1>1, OwnInit, LaunchingInit
       DEF StatusInv, PendingHasDriver, StuckRunningExplained, OutcomeEarned

\* Every step keeps the invariant.
LEMMA StatusNext == StatusInv /\ [Next]_vars => StatusInv'
  <1> SUFFICES ASSUME StatusInv, [Next]_vars
               PROVE  StatusInv'
    OBVIOUS
  <1> USE DEF StatusInv
  <1>1. OwnInv' /\ LaunchingPending' /\ Persist
    BY OwnNext, LaunchingNext, PersistNext DEF OwnInv
  <1>2. \A s \in Scan : row'[s] # NoRow => Evidenced(s)
    BY EvidenceNext
  <1>3. PendingHasDriver'
    <2> SUFFICES ASSUME NEW s \in Scan, row'[s] # NoRow,
                        row'[s].status = "pending"
                 PROVE  BeingLaunched(s)' \/ Accounted(s)' \/ s \in unsent'
      BY DEF PendingHasDriver, Accounted
    <2>1. row'[s] = row[s] \/ BeingLaunched(s)'
      BY <1>2 DEF Evidenced
    <2>2. CASE row'[s] = row[s] /\ Accounted(s)
      BY <2>2, AccountedNext
    <2>3. CASE row'[s] = row[s] /\ BeingLaunched(s)
      BY <2>3, LaunchGoesOn DEF Accounted
    <2>4. CASE s \in unsent
      BY <2>4, HistoryKept
    <2> QED
      BY <2>1, <2>2, <2>3, <2>4 DEF PendingHasDriver, Accounted
  <1>4. StuckRunningExplained'
    <2> SUFFICES ASSUME NEW s \in Scan, row'[s] # NoRow,
                        row'[s].status = "running"
                 PROVE  Accounted(s)' \/ s \in late'
      BY DEF StuckRunningExplained, Accounted
    <2>1. row'[s] = row[s] \/ Live(s)' \/ s \in late'
      BY <1>2 DEF Evidenced
    <2>2. CASE row'[s] = row[s] /\ Accounted(s)
      BY <2>2, AccountedNext
    <2>3. CASE s \in late
      BY <2>3, HistoryKept
    <2> QED
      BY <2>1, <2>2, <2>3 DEF StuckRunningExplained, Accounted
  <1>5. OutcomeEarned'
    <2> SUFFICES ASSUME NEW s \in Scan, row'[s] # NoRow
                 PROVE  /\ row'[s].status = "completed" =>
                             \E t \in DOMAIN job' :
                               job'[t].scan = s /\ job'[t].pc = "completed"
                        /\ row'[s].status = "failed" =>
                             \E t \in DOMAIN job' : job'[t].scan = s
                               /\ (job'[t].pc = "failed" \/ job'[t].tries > 0)
      BY DEF OutcomeEarned
    <2>1. CASE row'[s] = row[s]
      <3>1. \A t \in DOMAIN job : /\ job[t].tries \in Nat
                                  /\ t \in DOMAIN job' => job'[t].tries \in Nat
        BY <1>1, RetryAssumption DEF OwnInv, TypeOK, Job
      <3>2. \A t \in DOMAIN job :
              /\ t \in DOMAIN job' /\ job'[t].scan = job[t].scan
              /\ job[t].pc \in {"completed", "failed"} => job'[t].pc = job[t].pc
              /\ job[t].tries > 0 => job'[t].tries > 0
        BY <1>1, <3>1 DEF Persist, Ended
      <3> QED
        BY <2>1, <3>2 DEF OutcomeEarned
    <2> QED
      BY <1>2, <2>1 DEF Evidenced
  <1> QED
    BY <1>1, <1>3, <1>4, <1>5

\* A pending scan is still being launched, or a task for it is on its way,
\* unless its task was stopped from outside or its launcher failed before it
\* sent one - for any number of scans, requests and tasks.
THEOREM PendingScansDriven == Spec => []PendingHasDriver
  <1>1. StatusInv => PendingHasDriver
    BY DEF StatusInv
  <1> QED
    BY <1>1, StatusInit, StatusNext, PTL DEF Spec

\* A running scan without a task is the trace of a task stopped from outside
\* or of a launcher that wrote "running" too late.
THEOREM StuckScansExplained == Spec => []StuckRunningExplained
  <1>1. StatusInv => StuckRunningExplained
    BY DEF StatusInv
  <1> QED
    BY <1>1, StatusInit, StatusNext, PTL DEF Spec

\* A scan says "completed" or "failed" only if a task of its own has earned it.
THEOREM OutcomesEarned == Spec => []OutcomeEarned
  <1>1. StatusInv => OutcomeEarned
    BY DEF StatusInv
  <1> QED
    BY <1>1, StatusInit, StatusNext, PTL DEF Spec
=============================================================================
