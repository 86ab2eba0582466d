---------------------------- MODULE ResultsProofs ----------------------------
(***************************************************************************)
(* What is true of the results of a scan for any hosts, counts, scans,     *)
(* assets and formats, and any number of executions, reports and requests: *)
(* the tables run_scan fills, those run_discovery_scan fills, what both    *)
(* leave in tables and directories, and the exploits matched with them.    *)
(*                                                                         *)
(* Counters are sums over the hosts of a scan (FiniteSums).  Each of the   *)
(* four parts has an inductive invariant of its own; the theorems about    *)
(* the four are at the end.                                                *)
(***************************************************************************)
EXTENDS MCResults, FiniteSums, SequenceTheorems

-----------------------------------------------------------------------------
(* The results of a scan: what every variable holds.                       *)

\* A scan has finitely many addresses.
Finite == IsFiniteSet(Host)

Request == [op : {"cancel", "retry", "mark"}, copy : Row]

RowsTyped ==
    /\ row \in Row /\ copy \in Row
    /\ portal \in {<<>>} \cup {<<p>> : p \in Request}
    /\ served \in 0 .. MaxRequests /\ causes \subseteq Cause
    /\ hostRows \subseteq Host
    /\ portRows \in [Host -> Nat] /\ findingRows \in [Host -> Nat]

MainTyped ==
    /\ Feed!FeedTypeOK /\ reports \in 0 .. MaxReports
    /\ feed = "discovering" => targets = {} /\ delivered = {}
    /\ run \in Run /\ raised \in BOOLEAN
    /\ main \in {"queued", "fetched", "feeding", "draining", "reporting", "refreshed", "ended"}

\* A thread at work has an item that is not the sentinel, and only a host's result
\* has findings left to write.
AtItem(w) ==
    w.step \in {"hosts", "ports", "findings"} =>
      /\ w.item.kind # "sentinel"
      /\ w.step = "ports" => w.item.kind = "host_result"
      /\ w.item.kind # "host_result" => w.left = 0
      /\ w.item.kind = "host_result" =>
           LET due == Findings[CHOOSE h \in w.item.hosts : TRUE] IN
             w.left <= due /\ (w.step # "findings" => w.left = due)

Thread == [step : Step, item : Item, left : Nat]

ThreadsTyped ==
    /\ queue \in [Run -> Seq(Item)] /\ stop \in [Run -> BOOLEAN]
    /\ writer \in [Run -> Thread]
    /\ \A r \in Run : AtItem(writer[r])

AtTurn == RowsTyped /\ MainTyped /\ ThreadsTyped

\* What a main thread holds that waits for its turn.
Waiting == [main : {"queued", "fetched", "feeding", "draining", "reporting", "refreshed"},
            raised : BOOLEAN, copy : Row, feed : {"discovering", "scanning", "ended"},
            reported : SUBSET Host, targets : SUBSET Host, delivered : SUBSET Host,
            reports : 0 .. MaxReports]
Waits(c) ==
    /\ c \in Waiting /\ c.delivered \subseteq c.targets
    /\ c.feed = "discovering" => c.targets = {} /\ c.delivered = {}

TurnsTyped ==
    /\ sent \in Run /\ run \in 1 .. sent /\ DOMAIN others \subseteq 1 .. sent \ {run}
    /\ \A r \in DOMAIN others : Waits(others[r])

QueueTyped == AtTurn /\ TurnsTyped

\* The items and what is in them.
LEMMA ItemFacts ==
    /\ \A it \in Item : /\ it.kind \in {"subnet_hosts", "discovery", "host_result", "sentinel"}
                        /\ it.hosts \subseteq Host
                        /\ it.kind = "host_result" => \E h \in Host : it.hosts = {h}
    /\ \A hs \in SUBSET Host, k \in {"subnet_hosts", "discovery"} : [kind |-> k, hosts |-> hs] \in Item
    /\ \A h \in Host : [kind |-> "host_result", hosts |-> {h}] \in Item
    /\ Sentinel \in Item /\ Sentinel.kind = "sentinel"
BY DEF Item, Sentinel

\* The host of a result in hand.
LEMMA HostInHand ==
    ASSUME ThreadsTyped, NEW r \in Run, writer[r].item.kind = "host_result"
    PROVE  TheHost(r) \in Host /\ writer[r].item.hosts = {TheHost(r)}
<1>1. writer[r].item \in Item
  BY DEF ThreadsTyped, Thread
<1>2. PICK h \in Host : writer[r].item.hosts = {h}
  BY <1>1, ItemFacts
<1> QED  BY <1>2 DEF TheHost

\* Rows whose status is written.
LEMMA StatusSet ==
    ASSUME NEW c \in Row, NEW s \in {"pending", "running", "completed", "failed", "cancelled"}
    PROVE  LET d == [c EXCEPT !.status = s] IN
             /\ d \in Row /\ d.status = s
             /\ d.hosts = c.hosts /\ d.ports = c.ports /\ d.findings = c.findings
             /\ Counters(d) = Counters(c)
BY DEF Row, Counters

\* A row as it is created.
LEMMA FreshRow == Fresh \in Row /\ Fresh.findings = 0 /\ Fresh.status = "pending"
BY DEF Fresh, Row

\* A thread between items.
LEMMA IdleThread ==
    ASSUME NEW s \in Step, s \notin {"hosts", "ports", "findings"}
    PROVE  LET w == [Idle EXCEPT !.step = s] IN
             w \in Thread /\ AtItem(w) /\ w.step = s /\ w.item = Sentinel
<1>1. Sentinel \in Item /\ 0 \in Nat
  BY ItemFacts
<1> HIDE DEF Sentinel
<1>2. [Idle EXCEPT !.step = s] = [step |-> s, item |-> Sentinel, left |-> 0]
  BY DEF Idle
<1> QED  BY <1>1, <1>2 DEF Thread, AtItem

\* A save of an instance.
LEMMA SaveFacts ==
    ASSUME causes \subseteq Cause, NEW c \in Row, Save(c)
    PROVE  /\ row' = c /\ causes' \subseteq Cause /\ causes \subseteq causes'
           /\ causes' \cap {"stale save", "executions met"} = {} => Counters(c) = Counters(row)
           /\ causes' \subseteq causes \cup {"stale save"}
BY DEF Save, Record, Cause

\* A save with another status: the counters are those of the instance.
LEMMA SavedStatus ==
    ASSUME causes \subseteq Cause, NEW c \in Row,
           NEW s \in {"pending", "running", "completed", "failed", "cancelled"},
           Save([c EXCEPT !.status = s])
    PROVE  /\ row'.status = s /\ row' \in Row
           /\ row'.hosts = c.hosts /\ row'.ports = c.ports /\ row'.findings = c.findings
           /\ causes' \subseteq Cause /\ causes \subseteq causes' /\ causes' \subseteq causes \cup {"stale save"}
           /\ causes' \cap {"stale save", "executions met"} = {} => Counters(c) = Counters(row)
<1> DEFINE d == [c EXCEPT !.status = s]
<1>1. /\ d \in Row /\ d.status = s /\ d.hosts = c.hosts /\ d.ports = c.ports /\ d.findings = c.findings
      /\ Counters(d) = Counters(c)
  BY StatusSet
<1>2. Save(d)
  OBVIOUS
<1> HIDE DEF d
<1> QED  BY <1>1, <1>2, SaveFacts

\* A put appends to the queue of the current execution.
LEMMA PutFacts ==
    ASSUME ThreadsTyped, run \in Run, NEW it \in Item, Put(it)
    PROVE  /\ queue' \in [Run -> Seq(Item)]
           /\ queue'[run] = Append(queue[run], it)
           /\ \A r \in Run \ {run} : queue'[r] = queue[r]
BY DEF ThreadsTyped, Put

\* One thread changes.
LEMMA ThreadFacts ==
    ASSUME ThreadsTyped, NEW r \in Run, NEW w \in Thread, AtItem(w), writer' = [writer EXCEPT ![r] = w]
    PROVE  /\ writer' \in [Run -> Thread] /\ \A q \in Run : AtItem(writer'[q])
           /\ writer'[r] = w /\ \A q \in Run \ {r} : writer'[q] = writer[q]
BY DEF ThreadsTyped

\* One thread goes to another step of its item.
LEMMA ToFacts ==
    ASSUME ThreadsTyped, NEW r \in Run, NEW s \in Step, To(r, s),
           LET w == [step |-> s, item |-> writer[r].item, left |-> writer[r].left] IN AtItem(w)
    PROVE  /\ writer' \in [Run -> Thread] /\ \A q \in Run : AtItem(writer'[q])
           /\ writer'[r] = [step |-> s, item |-> writer[r].item, left |-> writer[r].left]
           /\ \A q \in Run \ {r} : writer'[q] = writer[q]
<1> DEFINE w == [step |-> s, item |-> writer[r].item, left |-> writer[r].left]
<1>1. writer[r] \in Thread /\ writer \in [Run -> Thread]
  BY DEF ThreadsTyped
<1>2. [writer[r] EXCEPT !.step = s] = w /\ w \in Thread
  BY <1>1 DEF Thread
<1>3. writer' = [writer EXCEPT ![r] = w]
  BY <1>1, <1>2 DEF To
<1>4. AtItem(w)
  OBVIOUS
<1> HIDE DEF w
<1> QED  BY <1>2, <1>3, <1>4, ThreadFacts DEF w

\* What an item does to the counters: each adds what it is about, or sets the hosts.
LEMMA CountedRow ==
    ASSUME Finite, row \in Row, NEW it \in Item, it.kind # "sentinel"
    PROVE  /\ Counted(it) \in Row /\ Counted(it).status = row.status
           /\ it.kind = "host_result" =>
                LET h == CHOOSE x \in it.hosts : TRUE IN
                /\ Counted(it).hosts = row.hosts /\ Counted(it).ports = row.ports + Ports[h]
                /\ Counted(it).findings = row.findings + Findings[h]
           /\ it.kind = "discovery" => Counted(it).hosts = Cardinality(it.hosts)
           /\ it.kind # "host_result" =>
                Counted(it).ports = row.ports /\ Counted(it).findings = row.findings
<1>1. /\ it.kind \in {"subnet_hosts", "discovery", "host_result", "sentinel"}
      /\ it.hosts \subseteq Host /\ (it.kind = "host_result" => \E h \in Host : it.hosts = {h})
  BY ItemFacts
<1>2. Cardinality(it.hosts) \in Nat
  BY <1>1, FS_Subset, FS_CardinalityType DEF Finite
<1>3. row.hosts \in Nat /\ row.ports \in Nat /\ row.findings \in Nat
  BY DEF Row
<1>4. CASE it.kind = "subnet_hosts"
  <2>1. Counted(it) = [row EXCEPT !.hosts = row.hosts + Cardinality(it.hosts)]
    BY <1>4 DEF Counted
  <2>2. row.hosts + Cardinality(it.hosts) \in Nat
    BY <1>2, <1>3
  <2> QED  BY <1>4, <2>1, <2>2 DEF Row
<1>5. CASE it.kind = "discovery"
  <2>1. Counted(it) = [row EXCEPT !.hosts = Cardinality(it.hosts)]
    BY <1>5 DEF Counted
  <2> QED  BY <1>2, <1>5, <2>1 DEF Row
<1>6. CASE it.kind = "host_result"
  <2> DEFINE h == CHOOSE x \in it.hosts : TRUE
  <2>1. h \in Host
    BY <1>1, <1>6
  <2> HIDE DEF h
  <2>2. Counted(it) = [row EXCEPT !.ports = row.ports + Ports[h], !.findings = row.findings + Findings[h]]
    BY <1>6 DEF Counted, h
  <2>3. row.ports + Ports[h] \in Nat /\ row.findings + Findings[h] \in Nat
    BY <1>3, <2>1, CountAssumption
  <2> QED  BY <1>6, <2>2, <2>3 DEF Row, h
<1> QED  BY <1>1, <1>4, <1>5, <1>6

\* A scan begins with empty tables and an empty queue.
LEMMA QueueStarts == Init => QueueTyped
<1> SUFFICES ASSUME Init PROVE QueueTyped
  OBVIOUS
<1>0. 1 \in Run /\ 0 \in 0 .. MaxReports /\ 0 \in 0 .. MaxRequests /\ 0 \in Nat
  BY BoundAssumption, SMT DEF Run
<1>1. RowsTyped
  BY <1>0, FreshRow DEF Init, RowsTyped
<1>2. MainTyped
  BY <1>0 DEF Init, MainTyped, Feed!FeedInit, Feed!FeedTypeOK
<1>3. Idle \in Thread /\ AtItem(Idle)
  <2>1. Sentinel \in Item /\ 0 \in Nat
    BY ItemFacts
  <2> HIDE DEF Sentinel
  <2> QED  BY <2>1 DEF Idle, Thread, Step, AtItem
<1>4. ThreadsTyped
  <2> HIDE DEF Idle
  <2>1. queue \in [Run -> Seq(Item)] /\ stop \in [Run -> BOOLEAN] /\ writer \in [Run -> Thread]
    BY <1>3 DEF Init
  <2>2. \A r \in Run : writer[r] = Idle
    BY DEF Init
  <2> QED  BY <1>3, <2>1, <2>2 DEF ThreadsTyped
<1>5. TurnsTyped
  <2>1. run = 1 /\ sent = 1 /\ DOMAIN others = {}
    BY DEF Init
  <2> QED  BY <1>0, <2>1 DEF TurnsTyped
<1> QED  BY <1>1, <1>2, <1>4, <1>5 DEF QueueTyped, AtTurn

\* Steps of the main thread: they save rows, put items on its queue, or wait.
LEMMA MainTypes ==
    ASSUME QueueTyped, MainStep \/ FeedStep
    PROVE  AtTurn'
<1> USE DEF QueueTyped, AtTurn
<1>1. run \in Run /\ row \in Row /\ copy \in Row /\ causes \subseteq Cause
  BY DEF MainTyped, RowsTyped
<1>2. CASE Fetch
  <2>1. RowsTyped'
    BY <1>2 DEF Fetch, RowsTyped, tables, requests
  <2>2. MainTyped'
    BY <1>2 DEF Fetch, MainTyped, feedVars, Feed!FeedTypeOK
  <2>3. ThreadsTyped'
    BY <1>2 DEF Fetch, ThreadsTyped, threads
  <2> QED  BY <2>1, <2>2, <2>3
<1>3. CASE MarkRunning
  <2>1. copy' = [copy EXCEPT !.status = "running"] /\ copy' \in Row
    BY <1>1, <1>3, StatusSet DEF MarkRunning
  <2>2. row' = copy' /\ causes' \subseteq Cause
    BY <1>1, <1>3, <2>1, SaveFacts DEF MarkRunning
  <2>3. RowsTyped'
    BY <1>3, <2>1, <2>2 DEF MarkRunning, RowsTyped, tables, requests
  <2>4. MainTyped'
    BY <1>3 DEF MarkRunning, MainTyped, feedVars, Feed!FeedTypeOK
  <2>5. ThreadsTyped'
    BY <1>3 DEF MarkRunning, ThreadsTyped, threads
  <2> QED  BY <2>3, <2>4, <2>5
<1>4. ASSUME NEW it \in Item, Put(it), UNCHANGED <<row, tables, copy, stop, writer, requests, causes>>,
             MainTyped'
      PROVE  AtTurn'
  <2>1. RowsTyped'
    BY <1>4 DEF RowsTyped, tables, requests
  <2>2. ThreadsTyped'
    BY <1>1, <1>4, PutFacts DEF ThreadsTyped
  <2> QED  BY <1>4, <2>1, <2>2
<1>5. ASSUME NEW hs \in SUBSET Host, OnSubnetComplete(hs) PROVE AtTurn'
  <2>1. [kind |-> "subnet_hosts", hosts |-> hs] \in Item
    BY ItemFacts
  <2>2. reports' \in 0 .. MaxReports
    BY <1>5, BoundAssumption, SMT DEF OnSubnetComplete, MainTyped
  <2>3. Feed!FeedTypeOK'
    BY <1>5 DEF OnSubnetComplete, Feed!Report, MainTyped, Feed!FeedTypeOK
  <2>4. MainTyped'
    BY <1>5, <2>2, <2>3 DEF OnSubnetComplete, Feed!Report, MainTyped, task
  <2> QED  BY <1>4, <1>5, <2>1, <2>4 DEF OnSubnetComplete, task
<1>6. ASSUME NEW hs \in SUBSET Host, OnDiscoveryComplete(hs) PROVE AtTurn'
  <2>1. [kind |-> "discovery", hosts |-> hs] \in Item
    BY ItemFacts
  <2>2. delivered = {}
    BY <1>6 DEF MainTyped, OnDiscoveryComplete, Feed!Announce
  <2>3. Feed!FeedTypeOK'
    BY <1>6, <2>2 DEF OnDiscoveryComplete, Feed!Announce, MainTyped, Feed!FeedTypeOK
  <2>4. MainTyped'
    BY <1>6, <2>3 DEF OnDiscoveryComplete, Feed!Announce, MainTyped, task
  <2> QED  BY <1>4, <1>6, <2>1, <2>4 DEF OnDiscoveryComplete, task
<1>7. ASSUME NEW h \in Host, OnHostComplete(h) PROVE AtTurn'
  <2>1. [kind |-> "host_result", hosts |-> {h}] \in Item
    BY ItemFacts
  <2>3. Feed!FeedTypeOK'
    BY <1>7 DEF OnHostComplete, Feed!Deliver, MainTyped, Feed!FeedTypeOK
  <2>4. MainTyped'
    BY <1>7, <2>3 DEF OnHostComplete, Feed!Deliver, MainTyped, task
  <2> QED  BY <1>4, <1>7, <2>1, <2>4 DEF OnHostComplete, task
<1>8. CASE EndFeed
  <2>1. Sentinel \in Item
    BY ItemFacts
  <2>3. Feed!FeedTypeOK'
    BY <1>8 DEF EndFeed, Feed!End, MainTyped, Feed!FeedTypeOK
  <2>4. raised' \in BOOLEAN
    BY <1>8 DEF EndFeed
  <2>5. MainTyped'
    BY <1>8, <2>3, <2>4 DEF EndFeed, Feed!End, MainTyped
  <2> QED  BY <1>4, <1>8, <2>1, <2>5 DEF EndFeed
<1>9. CASE Joined
  <2>1. RowsTyped'
    BY <1>9 DEF Joined, RowsTyped, tables, requests
  <2>2. MainTyped'
    BY <1>9 DEF Joined, MainTyped, feedVars, Feed!FeedTypeOK
  <2>3. ThreadsTyped'
    BY <1>9 DEF Joined, ThreadsTyped, threads
  <2> QED  BY <2>1, <2>2, <2>3
<1>10. CASE DrainTimesOut
  <2>1. RowsTyped'
    BY <1>10 DEF DrainTimesOut, Record, RowsTyped, tables, requests, Cause
  <2>2. MainTyped'
    BY <1>10 DEF DrainTimesOut, MainTyped, feedVars, Feed!FeedTypeOK
  <2>3. ThreadsTyped'
    BY <1>10 DEF DrainTimesOut, ThreadsTyped
  <2> QED  BY <2>1, <2>2, <2>3
<1>11. CASE Refresh
  <2>1. RowsTyped'
    BY <1>11 DEF Refresh, RowsTyped, tables, requests
  <2>2. MainTyped'
    BY <1>11 DEF Refresh, MainTyped, feedVars, Feed!FeedTypeOK
  <2>3. ThreadsTyped'
    BY <1>11 DEF Refresh, ThreadsTyped, threads
  <2> QED  BY <2>1, <2>2, <2>3
<1>12. ASSUME NEW s \in {"completed", "failed"}, Save([copy EXCEPT !.status = s]), copy' = Fresh,
              main' = "ended", raised' \in BOOLEAN, UNCHANGED <<tables, feedVars, reports, run, threads, requests>>
       PROVE  AtTurn'
  <2> DEFINE d == [copy EXCEPT !.status = s]
  <2>1. d \in Row
    BY <1>1, StatusSet
  <2>2. Save(d)
    BY <1>12
  <2> HIDE DEF d
  <2>3. row' = d /\ causes' \subseteq Cause
    BY <1>1, <2>1, <2>2, SaveFacts
  <2>4. copy' \in Row
    BY <1>12, FreshRow
  <2>5. RowsTyped'
    BY <1>12, <2>1, <2>3, <2>4 DEF RowsTyped, tables, requests
  <2>6. MainTyped'
    BY <1>12 DEF MainTyped, feedVars, Feed!FeedTypeOK
  <2>7. ThreadsTyped'
    BY <1>12 DEF ThreadsTyped, threads
  <2> QED  BY <2>5, <2>6, <2>7
<1>13. CASE Complete
  BY <1>12, <1>13 DEF Complete, MainTyped
<1>14. CASE Fail
  BY <1>12, <1>14 DEF Fail
<1> QED
  BY <1>2, <1>3, <1>5, <1>6, <1>7, <1>8, <1>9, <1>10, <1>11, <1>13, <1>14 DEF MainStep, FeedStep

\* Steps of the threads.
LEMMA ThreadTypes ==
    ASSUME Finite, QueueTyped, NEW r \in Run, WriterStep(r) \/ WriteFails(r) \/ WriterHangs(r)
    PROVE  AtTurn'
<1> USE DEF QueueTyped, AtTurn
<1>1. /\ writer \in [Run -> Thread] /\ writer[r] \in Thread /\ AtItem(writer[r])
      /\ writer[r].item \in Item /\ writer[r].left \in Nat /\ queue[r] \in Seq(Item)
  BY DEF ThreadsTyped, Thread
<1>2. writer[r].item.kind = "host_result" => TheHost(r) \in Host
  BY HostInHand
<1>3. ASSUME UNCHANGED <<feedVars, reports, task, stop, requests>>, causes' \subseteq Cause,
             row' \in Row, hostRows' \subseteq Host, portRows' \in [Host -> Nat],
             findingRows' \in [Host -> Nat], queue' \in [Run -> Seq(Item)],
             writer' \in [Run -> Thread], \A q \in Run : AtItem(writer'[q])
      PROVE  AtTurn'
  <2>1. RowsTyped'
    BY <1>3 DEF RowsTyped, task, requests
  <2>2. MainTyped'
    BY <1>3 DEF MainTyped, feedVars, Feed!FeedTypeOK, task
  <2>3. ThreadsTyped'
    BY <1>3 DEF ThreadsTyped
  <2> QED  BY <2>1, <2>2, <2>3
<1>4. /\ causes \subseteq Cause /\ row \in Row /\ hostRows \subseteq Host /\ portRows \in [Host -> Nat]
      /\ findingRows \in [Host -> Nat] /\ queue \in [Run -> Seq(Item)]
  BY DEF RowsTyped, ThreadsTyped
<1>5. CASE CheckStop(r)
  <2>1. PICK s \in {"ended", "getting"} : To(r, s)
    BY <1>5 DEF CheckStop
  <2>2. /\ writer' \in [Run -> Thread] /\ \A q \in Run : AtItem(writer'[q])
    BY <2>1, ToFacts DEF Step, AtItem
  <2> QED  BY <1>3, <1>4, <1>5, <2>2 DEF CheckStop, tables, OnlyThread
<1>6. CASE Get(r)
  <2>1. /\ queue[r] # <<>> /\ queue' = [queue EXCEPT ![r] = Tail(queue[r])]
        /\ UNCHANGED <<row, tables, OnlyThread>>
    BY <1>6 DEF Get
  <2>2. Head(queue[r]) \in Item /\ Tail(queue[r]) \in Seq(Item)
    BY <1>1, <2>1
  <2> DEFINE it == Head(queue[r])
             w == [step |-> IF it.kind = "sentinel" THEN "ended" ELSE "hosts", item |-> it,
                   left |-> IF it.kind = "host_result"
                            THEN Findings[CHOOSE h \in it.hosts : TRUE] ELSE 0]
  <2>3. writer' = [writer EXCEPT ![r] = w]
    BY <1>6 DEF Get
  <2> HIDE DEF it
  <2>4. it \in Item /\ (it.kind = "host_result" => \E h \in Host : it.hosts = {h})
    BY <2>2, ItemFacts DEF it
  <2>5. it.kind = "host_result" => Findings[CHOOSE h \in it.hosts : TRUE] \in Nat
    BY <2>4, CountAssumption
  <2>6. w.step \in Step /\ w.item \in Item /\ w.left \in Nat
    BY <2>4, <2>5 DEF Step
  <2>7. w \in Thread
    BY <2>6 DEF Thread
  <2>8. AtItem(w)
    BY <2>5 DEF AtItem
  <2> HIDE DEF w
  <2>9. writer' \in [Run -> Thread] /\ \A q \in Run : AtItem(writer'[q])
    BY <2>3, <2>7, <2>8, ThreadFacts
  <2>10. queue' \in [Run -> Seq(Item)]
    BY <1>4, <2>1, <2>2
  <2> QED  BY <1>3, <1>4, <2>1, <2>9, <2>10 DEF tables, OnlyThread
<1>7. CASE GetNothing(r)
  <2>1. To(r, "polling")
    BY <1>7 DEF GetNothing
  <2>2. /\ writer' \in [Run -> Thread] /\ \A q \in Run : AtItem(writer'[q])
    BY <2>1, ToFacts DEF Step, AtItem
  <2> QED  BY <1>3, <1>4, <1>7, <2>2 DEF GetNothing, tables, OnlyThread
<1>8. CASE WriteHosts(r)
  <2>1. PICK s \in {"ports", "findings"} :
          To(r, s) /\ (s = "ports" => writer[r].item.kind = "host_result")
    BY <1>8 DEF WriteHosts
  <2>2. writer[r].step = "hosts"
    BY <1>8 DEF WriteHosts
  <2> DEFINE w == [step |-> s, item |-> writer[r].item, left |-> writer[r].left]
  <2>3. AtItem(w)
    BY <1>1, <2>1, <2>2 DEF AtItem
  <2>4. /\ writer' \in [Run -> Thread] /\ \A q \in Run : AtItem(writer'[q])
    BY <2>1, <2>3, ToFacts DEF Step
  <2>5. writer[r].item.hosts \subseteq Host
    BY <1>1, ItemFacts
  <2>6. hostRows' \subseteq Host
    BY <1>4, <1>8, <2>5 DEF WriteHosts
  <2> QED  BY <1>3, <1>4, <1>8, <2>4, <2>6 DEF WriteHosts, OnlyThread
<1>9. CASE ReplacePorts(r)
  <2>1. To(r, "findings") /\ writer[r].step = "ports"
    BY <1>9 DEF ReplacePorts
  <2> DEFINE w == [step |-> "findings", item |-> writer[r].item, left |-> writer[r].left]
  <2>2. AtItem(w)
    BY <1>1, <2>1 DEF AtItem
  <2>3. /\ writer' \in [Run -> Thread] /\ \A q \in Run : AtItem(writer'[q])
    BY <2>1, <2>2, ToFacts DEF Step
  <2>4. TheHost(r) \in Host
    BY <1>1, <1>2, <2>1 DEF AtItem
  <2>5. portRows' \in [Host -> Nat]
    BY <1>4, <1>9, <2>4, CountAssumption DEF ReplacePorts
  <2> QED  BY <1>3, <1>4, <1>9, <2>3, <2>5 DEF ReplacePorts, OnlyThread
<1>10. CASE WriteFinding(r)
  <2>1. /\ writer[r].step = "findings" /\ writer[r].left > 0
        /\ findingRows' = [findingRows EXCEPT ![TheHost(r)] = findingRows[TheHost(r)] + 1]
        /\ writer' = [writer EXCEPT ![r].left = writer[r].left - 1]
    BY <1>1, <1>10 DEF WriteFinding
  <2> DEFINE w == [step |-> "findings", item |-> writer[r].item, left |-> writer[r].left - 1]
  <2>2. writer[r].left - 1 \in Nat /\ "findings" \in Step
    BY <1>1, <2>1 DEF Step
  <2>3. w \in Thread
    BY <1>1, <2>2 DEF Thread
  <2>4. writer[r].item.kind = "host_result"
    BY <1>1, <2>1 DEF AtItem
  <2>5. Findings[TheHost(r)] \in Nat
    BY <1>2, <2>4, CountAssumption
  <2>6. writer[r].left <= Findings[TheHost(r)]
    BY <1>1, <2>1, <2>4 DEF AtItem, TheHost
  <2>7. writer[r].left - 1 <= Findings[TheHost(r)]
    BY <1>1, <2>5, <2>6
  <2>8. AtItem(w)
    BY <2>4, <2>7 DEF AtItem, TheHost
  <2>9. writer' = [writer EXCEPT ![r] = w]
    <3>1. [writer[r] EXCEPT !.left = writer[r].left - 1] = w
      BY <1>1, <2>1 DEF Thread
    <3> QED  BY <1>1, <2>1, <3>1
  <2> HIDE DEF w
  <2>10. writer' \in [Run -> Thread] /\ \A q \in Run : AtItem(writer'[q])
    BY <2>3, <2>8, <2>9, ThreadFacts
  <2>11. findingRows' \in [Host -> Nat]
    BY <1>2, <1>4, <2>1, <2>4
  <2> QED  BY <1>3, <1>4, <1>10, <2>10, <2>11 DEF WriteFinding, OnlyThread
<1>11. Idle \in Thread /\ AtItem(Idle) /\ [Idle EXCEPT !.step = "hung"] \in Thread
       /\ AtItem([Idle EXCEPT !.step = "hung"])
  <2>1. [Idle EXCEPT !.step = "polling"] = Idle
    BY DEF Idle
  <2> QED  BY <2>1, IdleThread DEF Step
<1>12. CASE Count(r)
  <2>1. writer' = [writer EXCEPT ![r] = Idle] /\ row' = Counted(writer[r].item) /\ writer[r].step = "findings"
    BY <1>12 DEF Count
  <2>2. writer' \in [Run -> Thread] /\ \A q \in Run : AtItem(writer'[q])
    BY <1>11, <2>1, ThreadFacts
  <2>3. row' \in Row
    BY <1>1, <1>4, <2>1, CountedRow DEF AtItem
  <2> QED  BY <1>3, <1>4, <1>12, <2>2, <2>3 DEF Count, tables, OnlyThread
<1>13. CASE WriteFails(r)
  <2>1. writer' = [writer EXCEPT ![r] = Idle] /\ causes' \subseteq causes \cup {"item dropped"}
    BY <1>13 DEF WriteFails, Record
  <2>2. writer' \in [Run -> Thread] /\ \A q \in Run : AtItem(writer'[q])
    BY <1>11, <2>1, ThreadFacts
  <2>3. portRows' \in [Host -> Nat]
    <3>1. UNCHANGED portRows \/ portRows' = [portRows EXCEPT ![TheHost(r)] = 0]
      BY <1>13 DEF WriteFails
    <3>2. CASE portRows' = [portRows EXCEPT ![TheHost(r)] = 0]
      BY <1>4, <3>2
    <3> QED  BY <1>4, <3>1, <3>2
  <2>4. causes' \subseteq Cause
    BY <1>4, <2>1 DEF Cause
  <2> QED  BY <1>3, <1>4, <1>13, <2>2, <2>3, <2>4 DEF WriteFails
<1>14. CASE WriterHangs(r)
  <2>1. writer' = [writer EXCEPT ![r] = [Idle EXCEPT !.step = "hung"]]
    BY <1>14 DEF WriterHangs
  <2>2. writer' \in [Run -> Thread] /\ \A q \in Run : AtItem(writer'[q])
    <3> DEFINE w == [Idle EXCEPT !.step = "hung"]
    <3>1. w \in Thread /\ AtItem(w) /\ writer' = [writer EXCEPT ![r] = w]
      BY <1>11, <2>1
    <3> HIDE DEF w
    <3> QED  BY <3>1, ThreadFacts
  <2> QED  BY <1>3, <1>4, <1>14, <2>2 DEF WriterHangs, tables, OnlyThread
<1> QED
  BY <1>5, <1>6, <1>7, <1>8, <1>9, <1>10, <1>12, <1>13, <1>14 DEF WriterStep

\* What the main thread of an execution just sent holds.
LEMMA SentWaits == Waits(Sent)
<1>1. 0 \in 0 .. MaxReports
  BY BoundAssumption, SMT
<1> QED  BY <1>1, FreshRow DEF Waits, Waiting, Sent

\* The process dies; the portal reads and saves; another main thread has its turn.
LEMMA OtherTypes ==
    ASSUME QueueTyped, Kill \/ PortalStep \/ \E r \in Run : Turn(r)
    PROVE  AtTurn'
<1> USE DEF QueueTyped, AtTurn
<1>1. CASE Kill
  <2> DEFINE w == [Idle EXCEPT !.step = "ended"]
  <2>1. w \in Thread /\ AtItem(w)
    BY IdleThread DEF Step
  <2>2. writer' = [writer EXCEPT ![run] = w] /\ queue' = [queue EXCEPT ![run] = <<>>]
    BY <1>1 DEF Kill
  <2> HIDE DEF w
  <2>3. run \in Run
    BY DEF MainTyped
  <2>4. writer' \in [Run -> Thread] /\ \A q \in Run : AtItem(writer'[q])
    BY <2>1, <2>2, <2>3, ThreadFacts
  <2>5. queue' \in [Run -> Seq(Item)]
    BY <2>2, <2>3 DEF ThreadsTyped
  <2>6. ThreadsTyped'
    BY <1>1, <2>4, <2>5 DEF Kill, ThreadsTyped
  <2>7. RowsTyped'
    BY <1>1, FreshRow DEF Kill, Record, RowsTyped, tables, requests, Cause
  <2>8. MainTyped'
    BY <1>1 DEF Kill, MainTyped, feedVars, Feed!FeedTypeOK
  <2> QED  BY <2>6, <2>7, <2>8
<1>2. served' = served + 1 /\ served < MaxRequests => served' \in 0 .. MaxRequests
  BY BoundAssumption, SMT DEF RowsTyped
<1>3. row \in Row /\ causes \subseteq Cause
  BY DEF RowsTyped
<1>4. CASE ReadScan
  <2>1. PICK p \in Request : portal' = <<p>>
    <3>1. PICK op \in {"cancel", "retry"} : portal' = <<[op |-> op, copy |-> row]>>
      BY <1>4 DEF ReadScan
    <3>2. [op |-> op, copy |-> row] \in Request
      BY <1>3 DEF Request
    <3> QED  BY <3>1, <3>2
  <2>2. RowsTyped'
    BY <1>2, <1>4, <2>1 DEF ReadScan, RowsTyped, tables, task
  <2>3. MainTyped'
    BY <1>4 DEF ReadScan, MainTyped, feedVars, Feed!FeedTypeOK, task
  <2>4. ThreadsTyped'
    BY <1>4 DEF ReadScan, ThreadsTyped, threads
  <2> QED  BY <2>2, <2>3, <2>4
<1>5. ASSUME portal # <<>> PROVE portal \in {<<p>> : p \in Request} /\ portal[1] \in Request /\ portal[1].copy \in Row
  <2>1. PICK p \in Request : portal = <<p>>
    BY <1>5 DEF RowsTyped
  <2> QED  BY <2>1 DEF Request
<1>6. ASSUME portal # <<>>, NEW s \in {"cancelled", "pending"}, Save([portal[1].copy EXCEPT !.status = s])
      PROVE  row' \in Row /\ causes' \subseteq Cause
  <2> DEFINE d == [portal[1].copy EXCEPT !.status = s]
  <2>1. d \in Row
    BY <1>5, <1>6, StatusSet
  <2>2. Save(d)
    BY <1>6
  <2> HIDE DEF d
  <2> QED  BY <1>3, <2>1, <2>2, SaveFacts
<1>7. CASE SaveCancelled
  <2>1. row' \in Row /\ causes' \subseteq Cause
    BY <1>6, <1>7 DEF SaveCancelled
  <2>2. RowsTyped'
    BY <1>7, <2>1 DEF SaveCancelled, RowsTyped, tables, task
  <2>3. MainTyped'
    BY <1>7 DEF SaveCancelled, MainTyped, feedVars, Feed!FeedTypeOK, task
  <2>4. ThreadsTyped'
    BY <1>7 DEF SaveCancelled, ThreadsTyped, threads
  <2> QED  BY <2>2, <2>3, <2>4
<1>10. ASSUME NEW c, Waits(c), TakeUp(c), run' \in Run PROVE MainTyped' /\ copy' \in Row
  BY <1>10 DEF Waits, Waiting, TakeUp, MainTyped, Feed!FeedTypeOK
<1>11. Waits(Sent)
  BY SentWaits
<1>8. CASE SavePending
  <2> DEFINE mine == [portal[1].copy EXCEPT !.status = "pending"]
  <2>1. row' \in Row /\ causes' \subseteq Cause
    <3>1. CASE main = "ended"
      BY <1>6, <1>8, <3>1 DEF SavePending
    <3>2. CASE main # "ended"
      <4>1. row' = mine /\ causes' = {"executions met"} /\ portal # <<>>
        BY <1>8, <3>2 DEF SavePending
      <4> QED  BY <1>5, <4>1, StatusSet DEF Cause
    <3> QED  BY <3>1, <3>2
  <2>2. PICK p \in Request : portal' = <<p>>
    <3> DEFINE p == [op |-> "mark", copy |-> portal[1].copy]
    <3>1. portal[1] \in Request
      BY <1>5, <1>8 DEF SavePending
    <3>2. [portal[1] EXCEPT !.op = "mark"] = p /\ p \in Request
      BY <3>1 DEF Request
    <3> HIDE DEF p
    <3> QED  BY <1>8, <3>2 DEF SavePending
  <2>3. sent' \in Run
    <3>1. sent' = sent + 1 /\ sent < MaxRuns
      BY <1>8 DEF SavePending
    <3> QED  BY <3>1, BoundAssumption, SMT DEF TurnsTyped, Run
  <2>4. MainTyped' /\ copy' \in Row
    <3>1. CASE main = "ended"
      <4>1. run' = sent' /\ TakeUp(Sent)
        BY <1>8, <3>1 DEF SavePending
      <4> QED  BY <1>10, <1>11, <2>3, <4>1
    <3>2. CASE main # "ended"
      <4>1. UNCHANGED <<feedVars, reports, task>>
        BY <1>8, <3>2 DEF SavePending
      <4> QED  BY <4>1 DEF MainTyped, RowsTyped, feedVars, task, Feed!FeedTypeOK
    <3> QED  BY <3>1, <3>2
  <2>5. RowsTyped'
    BY <1>8, <2>1, <2>2, <2>4 DEF SavePending, RowsTyped, tables
  <2>6. ThreadsTyped'
    BY <1>8 DEF SavePending, ThreadsTyped, threads
  <2> QED  BY <2>4, <2>5, <2>6
<1>9. CASE MarkLaunched
  <2>1. row' \in Row
    BY <1>3, <1>9, StatusSet DEF MarkLaunched
  <2>2. RowsTyped'
    BY <1>9, <2>1 DEF MarkLaunched, RowsTyped, tables, task
  <2>3. MainTyped'
    BY <1>9 DEF MarkLaunched, MainTyped, feedVars, Feed!FeedTypeOK, task
  <2>4. ThreadsTyped'
    BY <1>9 DEF MarkLaunched, ThreadsTyped, threads
  <2> QED  BY <2>2, <2>3, <2>4
<1>12. ASSUME NEW r, Turn(r) PROVE AtTurn'
  <2>1. /\ r \in DOMAIN others /\ run' = r /\ TakeUp(others[r])
        /\ UNCHANGED <<row, tables, threads, requests, causes>>
    BY <1>12 DEF Turn
  <2>2. Waits(others[r]) /\ r \in Run
    BY <2>1, BoundAssumption, SMT DEF TurnsTyped, Run
  <2>3. MainTyped' /\ copy' \in Row
    BY <1>10, <2>1, <2>2
  <2>4. RowsTyped' /\ ThreadsTyped'
    BY <2>1, <2>3 DEF RowsTyped, ThreadsTyped, tables, threads, requests
  <2> QED  BY <2>3, <2>4
<1> QED  BY <1>1, <1>4, <1>7, <1>8, <1>9, <1>12 DEF PortalStep

\* Main threads that wait hold what they held.
LEMMA TurnTypes == ASSUME QueueTyped, [Next]_vars PROVE TurnsTyped'
<1> USE DEF QueueTyped
<1>1. CASE UNCHANGED <<run, turns>>
  BY <1>1 DEF TurnsTyped, turns
<1>2. sent \in Nat /\ run \in Nat /\ 1 <= run /\ run <= sent
  BY BoundAssumption, SMT DEF TurnsTyped, Run
<1>3. CASE SavePending
  <2>1. sent' = sent + 1 /\ sent' \in Run
    <3>1. sent' = sent + 1 /\ sent < MaxRuns
      BY <1>3 DEF SavePending
    <3> QED  BY <1>2, <3>1, BoundAssumption, SMT DEF Run
  <2>2. CASE main = "ended"
    <3>1. run' = sent' /\ others' = others
      BY <1>3, <2>2 DEF SavePending
    <3>2. run' \in 1 .. sent' /\ \A n \in 1 .. sent \ {run} : n \in 1 .. sent' \ {run'}
      BY <1>2, <2>1, <3>1
    <3> QED  BY <2>1, <3>1, <3>2 DEF TurnsTyped
  <2>3. CASE main # "ended"
    <3>1. /\ run' = run
          /\ others' = [r \in DOMAIN others \cup {sent'} |-> IF r = sent' THEN Sent ELSE others[r]]
      BY <1>3, <2>3 DEF SavePending, task
    <3>2. run' \in 1 .. sent' /\ \A n \in 1 .. sent \ {run} : n \in 1 .. sent' \ {run'}
      BY <1>2, <2>1, <3>1
    <3>3. sent' \in 1 .. sent' \ {run'}
      BY <1>2, <2>1, <3>1
    <3>4. DOMAIN others' \subseteq 1 .. sent' \ {run'}
      BY <3>1, <3>2, <3>3 DEF TurnsTyped
    <3>5. \A r \in DOMAIN others' : Waits(others'[r])
      <4> HIDE DEF Sent
      <4> QED  BY <3>1, SentWaits DEF TurnsTyped
    <3> QED  BY <2>1, <3>2, <3>4, <3>5 DEF TurnsTyped
  <2> QED  BY <2>2, <2>3
<1>4. ASSUME NEW r \in Run, Turn(r) PROVE TurnsTyped'
  <2> DEFINE still == (DOMAIN others \ {r}) \cup (IF main = "ended" THEN {} ELSE {run})
  <2>1. /\ r \in DOMAIN others /\ run' = r /\ sent' = sent
        /\ others' = [n \in still |-> IF n = run THEN Held ELSE others[n]]
    BY <1>4 DEF Turn
  <2>2. r \in 1 .. sent /\ r # run
    BY <2>1 DEF TurnsTyped
  <2>3. still \subseteq 1 .. sent \ {r}
    BY <2>2 DEF TurnsTyped
  <2>4. main # "ended" => Waits(Held)
    BY DEF AtTurn, MainTyped, RowsTyped, Feed!FeedTypeOK, Waits, Waiting, Held
  <2>5. \A n \in DOMAIN others' : Waits(others'[n])
    <3> HIDE DEF Held
    <3> SUFFICES ASSUME NEW n \in still PROVE Waits(others'[n])
      BY <2>1
    <3>1. CASE n = run
      BY <2>1, <2>4, <3>1 DEF TurnsTyped
    <3>2. CASE n # run
      BY <2>1, <3>2 DEF TurnsTyped
    <3> QED  BY <3>1, <3>2
  <2>6. DOMAIN others' = still
    BY <2>1
  <2> HIDE DEF still
  <2> QED  BY <2>1, <2>2, <2>3, <2>5, <2>6 DEF TurnsTyped
<1>5. Next => UNCHANGED <<run, turns>> \/ SavePending \/ \E r \in Run : Turn(r)
  BY DEF Next, FeedStep, OnSubnetComplete, OnDiscoveryComplete, OnHostComplete, MainStep, Fetch,
         MarkRunning, EndFeed, Joined, DrainTimesOut, Refresh, Complete, Fail, Kill, PortalStep, ReadScan,
         SaveCancelled, MarkLaunched, WriterStep, CheckStop, Get, GetNothing, WriteHosts, ReplacePorts,
         WriteFinding, Count, WriteFails, WriterHangs, OnlyThread, task
<1>6. UNCHANGED vars => UNCHANGED <<run, turns>>
  BY DEF vars, task
<1> QED  BY <1>1, <1>3, <1>4, <1>5, <1>6

\* Every step keeps the types.
LEMMA QueueTypes == ASSUME Finite, QueueTyped, [Next]_vars PROVE QueueTyped'
<1>1. TurnsTyped'
  BY TurnTypes
<1>2. CASE Next
  <2>1. AtTurn'
    BY <1>2, MainTypes, ThreadTypes, OtherTypes DEF Next
  <2> QED  BY <1>1, <2>1 DEF QueueTyped
<1>3. CASE UNCHANGED vars
  <2>1. RowsTyped'
    BY <1>3 DEF QueueTyped, AtTurn, RowsTyped, vars, tables, task, requests
  <2>2. MainTyped'
    BY <1>3 DEF QueueTyped, AtTurn, MainTyped, vars, feedVars, Feed!FeedTypeOK, task
  <2>3. ThreadsTyped'
    BY <1>3 DEF QueueTyped, AtTurn, ThreadsTyped, vars, threads
  <2> QED  BY <1>1, <2>1, <2>2, <2>3 DEF QueueTyped, AtTurn
<1> QED  BY <1>2, <1>3

\* The type invariant.
LEMMA QueueTypeOK == QueueTyped => TypeOK
<1> SUFFICES ASSUME QueueTyped PROVE TypeOK
  OBVIOUS
<1>1. portal = <<>> \/ (portal[1].op \in {"cancel", "retry", "mark"} /\ portal[1].copy \in Row)
  BY DEF QueueTyped, AtTurn, RowsTyped, Request
<1>2. /\ sent \in Run /\ DOMAIN others \subseteq 1 .. sent \ {run}
      /\ \A r \in DOMAIN others : others[r].main # "ended" /\ others[r].copy \in Row
  BY DEF QueueTyped, TurnsTyped, Waits, Waiting
<1> QED  BY <1>1, <1>2 DEF QueueTyped, AtTurn, RowsTyped, MainTyped, ThreadsTyped, Thread, TypeOK

-----------------------------------------------------------------------------
(* Who is at work.                                                         *)

Behind == {"reporting", "refreshed", "ended"}

\* Two executions have been at work at once.
Met == "executions met" \in causes

\* One at a time: the thread of an execution that has not started is idle; unless one was given up,
\* those of earlier executions have ended, and so has the current one's once the main
\* thread is past the drain.  A row says completed only after its main thread has
\* ended, of a feed that went through.
Serial ==
    /\ DOMAIN others = {} /\ sent = run
    /\ \A r \in Run : ~Started(r) => writer[r] = Idle /\ queue[r] = <<>>
    /\ "drain timed out" \notin causes =>
         /\ \A r \in Run : r < run => writer[r].step = "ended"
         /\ main \in Behind => writer[run].step = "ended"
         /\ \A r \in Run : stop[r] = FALSE
    /\ main = "refreshed" => ~raised
    /\ main \in {"draining", "reporting", "refreshed"} => feed = "ended"
    /\ row.status = "completed" => main = "ended" /\ ~raised /\ feed = "ended"

\* Executions are one at a time until it is on record that they are not.
QueueOrder == Met \/ Serial

\* One at a time, the thread of every earlier execution has started.
LEMMA StartedThen ==
    ASSUME QueueTyped, DOMAIN others = {}, sent = run
    PROVE  \A r \in Run : Started(r) <=> r < run \/ (r = run /\ main \notin {"queued", "fetched"})
<1>1. run \in Nat /\ Run \subseteq Nat
  BY DEF QueueTyped, AtTurn, MainTyped, Run
<1>2. \A r \in Run : Started(r) <=> r <= run /\ (r = run => main \notin {"queued", "fetched"})
  BY DEF Started
<1>3. \A r \in Run : r <= run <=> (r < run \/ r = run)
  BY <1>1
<1>4. \A r \in Run : ~(r < r)
  BY <1>1
<1> QED  BY <1>2, <1>3, <1>4

\* What is on record stays on record while executions have not met; then that stays.
LEMMA CausesStay ==
    ASSUME [Next]_vars
    PROVE  (Met => Met') /\ (~Met' => causes \subseteq causes')
<1>1. CASE UNCHANGED causes
  BY <1>1 DEF Met
<1>2. ASSUME NEW why, Record(why) PROVE (Met => Met') /\ (~Met' => causes \subseteq causes')
  BY <1>2 DEF Record, Met
<1>3. ASSUME NEW c, Save(c) PROVE (Met => Met') /\ (~Met' => causes \subseteq causes')
  BY <1>2, <1>3 DEF Save
<1>4. CASE SavePending
  <2>1. causes' = {"executions met"} \/ Save([portal[1].copy EXCEPT !.status = "pending"])
    BY <1>4 DEF SavePending
  <2> QED  BY <1>3, <2>1 DEF Met
<1>5. CASE MarkRunning \/ Complete \/ Fail \/ SaveCancelled
  BY <1>3, <1>5 DEF MarkRunning, Complete, Fail, SaveCancelled
<1>6. CASE DrainTimesOut \/ Kill \/ \E r \in Run : WriteFails(r)
  BY <1>2, <1>6 DEF DrainTimesOut, Kill, WriteFails
<1>7. \/ UNCHANGED causes \/ SavePending \/ MarkRunning \/ Complete \/ Fail \/ SaveCancelled
      \/ DrainTimesOut \/ Kill \/ \E r \in Run : WriteFails(r)
  BY DEF Next, FeedStep, OnSubnetComplete, OnDiscoveryComplete, OnHostComplete, MainStep, Fetch, EndFeed,
         Joined, Refresh, PortalStep, ReadScan, MarkLaunched, Turn, WriterStep, CheckStop, Get, GetNothing,
         WriteHosts, ReplacePorts, WriteFinding, Count, WriterHangs, OnlyThread, vars
<1> QED  BY <1>1, <1>4, <1>5, <1>6, <1>7

\* One at a time, no main thread waits for its turn.
LEMMA NoTurn == ASSUME Serial, NEW r, Turn(r) PROVE FALSE
BY DEF Serial, Turn

\* Nothing is started at first.
LEMMA OrderStarts == Init => QueueOrder
<1> SUFFICES ASSUME Init PROVE Serial
  BY DEF QueueOrder
<1>1. \A r \in Run : writer[r] = Idle /\ queue[r] = <<>> /\ stop[r] = FALSE
  BY DEF Init
<1>2. run = 1 /\ sent = run /\ DOMAIN others = {} /\ main = "queued" /\ \A r \in Run : ~(r < run)
  BY BoundAssumption, SMT DEF Init, Run
<1>3. row.status = "pending"
  BY FreshRow DEF Init
<1> HIDE DEF Idle
<1> QED  BY <1>1, <1>2, <1>3 DEF Serial, Behind

\* The thread a step of a thread is of: it has started and not ended.
LEMMA AtWork ==
    ASSUME QueueTyped, QueueOrder, NEW r \in Run, WriterStep(r) \/ WriteFails(r) \/ WriterHangs(r)
    PROVE  /\ ~Met => Started(r)
           /\ writer[r].step # "ended"
           /\ ~Met /\ "drain timed out" \notin causes => r = run /\ main \notin Behind
           /\ UNCHANGED <<feedVars, reports, turns, task, stop, requests>> /\ causes \subseteq causes'
           /\ \A q \in Run \ {r} : writer'[q] = writer[q] /\ queue'[q] = queue[q]
<1>1. writer[r].step # "ended"
  BY DEF WriterStep, WriteFails, WriterHangs, CheckStop, Get, GetNothing, WriteHosts, ReplacePorts,
         WriteFinding, Count, Writing
<1>2. ASSUME ~Met PROVE Started(r)
  <2>1. CASE WriterStep(r)
    BY <2>1 DEF WriterStep
  <2>2. CASE Writing(r)
    <3>1. writer[r] # Idle
      BY <2>2 DEF Writing, Idle
    <3> HIDE DEF Idle
    <3> QED  BY <1>2, <3>1 DEF QueueOrder, Serial
  <2> QED  BY <2>1, <2>2 DEF WriteFails, WriterHangs
<1>4. ASSUME ~Met, "drain timed out" \notin causes PROVE r = run /\ main \notin Behind
  <2>1. r < run \/ r = run
    BY <1>2, <1>4, StartedThen DEF QueueOrder, Serial
  <2> QED  BY <1>1, <1>4, <2>1 DEF QueueOrder, Serial
<1>5. UNCHANGED <<feedVars, reports, turns, task, stop, requests>> /\ causes \subseteq causes'
  BY DEF WriterStep, WriteFails, WriterHangs, CheckStop, Get, GetNothing, WriteHosts, ReplacePorts,
         WriteFinding, Count, Record, OnlyThread
<1>6. writer \in [Run -> Thread] /\ queue \in [Run -> Seq(Item)]
  BY DEF QueueTyped, AtTurn, ThreadsTyped
<1>7. \A q \in Run \ {r} : writer'[q] = writer[q]
  <2>1. \E w : writer' = [writer EXCEPT ![r] = w]
    BY DEF WriterStep, WriteFails, WriterHangs, CheckStop, Get, GetNothing, WriteHosts, ReplacePorts,
           WriteFinding, Count, To
  <2> QED  BY <1>6, <2>1
<1>8. \A q \in Run \ {r} : queue'[q] = queue[q]
  <2>1. queue' = queue \/ \E s : queue' = [queue EXCEPT ![r] = s]
    BY DEF WriterStep, WriteFails, WriterHangs, CheckStop, Get, GetNothing, WriteHosts, ReplacePorts,
           WriteFinding, Count
  <2> QED  BY <1>6, <2>1
<1> QED  BY <1>1, <1>2, <1>4, <1>5, <1>7, <1>8

\* What only threads change leaves the order alone.
LEMMA ThreadOrder ==
    ASSUME Finite, QueueTyped, Serial, ~Met, NEW r \in Run, WriterStep(r) \/ WriteFails(r) \/ WriterHangs(r)
    PROVE  Serial'
<1>1. /\ Started(r) /\ writer[r].step # "ended"
      /\ "drain timed out" \notin causes => r = run /\ main \notin Behind
      /\ UNCHANGED <<feed, run, main, raised, turns, stop>> /\ causes \subseteq causes'
      /\ \A q \in Run \ {r} : writer'[q] = writer[q] /\ queue'[q] = queue[q]
  BY AtWork DEF QueueOrder, feedVars, task
<1>2. row'.status = row.status
  <2>1. row' = row \/ Count(r)
    BY DEF WriterStep, WriteFails, WriterHangs, CheckStop, Get, GetNothing, WriteHosts, ReplacePorts,
           WriteFinding
  <2>2. ASSUME Count(r) PROVE row'.status = row.status
    <3>1. writer[r].item \in Item /\ writer[r].item.kind # "sentinel" /\ row \in Row
      BY <2>2 DEF Count, QueueTyped, AtTurn, RowsTyped, ThreadsTyped, AtItem, Thread
    <3> QED  BY <2>2, <3>1, CountedRow DEF Count
  <2> QED  BY <2>1, <2>2
<1>3. \A q \in Run : Started(q)' = Started(q)
  BY <1>1 DEF Started, turns
<1>4. \A q \in Run : ~Started(q)' => writer'[q] = Idle /\ queue'[q] = <<>>
  <2> HIDE DEF Idle
  <2> QED  BY <1>1, <1>3 DEF Serial
<1>5. run \in Run
  BY DEF QueueTyped, AtTurn, MainTyped
<1>6. "drain timed out" \notin causes' =>
         /\ \A q \in Run : q < run => writer'[q].step = "ended"
         /\ main \in Behind => writer'[run].step = "ended"
         /\ \A q \in Run : stop[q] = FALSE
  <2>1. \A n \in Run : ~(n < n)
    BY BoundAssumption, SMT DEF Run
  <2> QED  BY <1>1, <1>5, <2>1 DEF Serial
<1> QED  BY <1>1, <1>2, <1>4, <1>6 DEF Serial, turns

\* The others' steps, by what they do to the main thread.
LEMMA OtherOrder ==
    ASSUME QueueTyped, Serial, ~Met', MainStep \/ FeedStep \/ Kill \/ PortalStep
    PROVE  Serial'
<1> USE DEF QueueTyped, AtTurn
<1>1. /\ run \in Run /\ writer \in [Run -> Thread] /\ queue \in [Run -> Seq(Item)]
      /\ row \in Row /\ copy \in Row /\ causes \subseteq Cause
  BY DEF MainTyped, ThreadsTyped, RowsTyped
<1>2. ASSUME UNCHANGED <<feed, run, turns, writer, stop>>, causes \subseteq causes',
             \A q \in Run : queue'[q] = queue[q] \/ q = run,
             main = "queued" => main' \in {"queued", "fetched"} /\ queue' = queue,
             main = "fetched" => main' \in {"fetched", "feeding"} /\ queue' = queue,
             main \notin {"queued", "fetched"} => main' \notin {"queued", "fetched"},
             main' \in Behind /\ main \notin Behind =>
               writer[run].step = "ended" \/ "drain timed out" \in causes',
             main' = "refreshed" => ~raised',
             main' \in {"draining", "reporting", "refreshed"} => feed = "ended",
             row'.status = "completed" => main' = "ended" /\ ~raised' /\ feed = "ended"
      PROVE  Serial'
  <2>1. \A q \in Run : ~Started(q)' => ~Started(q) /\ queue'[q] = queue[q]
    <3>1. \A q \in Run : Started(q) <=> q <= run /\ (q = run => main \notin {"queued", "fetched"})
      BY DEF Started, Serial
    <3>2. \A q \in Run : Started(q)' <=> q <= run /\ (q = run => main' \notin {"queued", "fetched"})
      BY <1>2 DEF Started, Serial, turns
    <3>3. \A q \in Run : ~Started(q)' => ~Started(q)
      BY <1>2, <3>1, <3>2
    <3>4. main \notin {"queued", "fetched"} => Started(run)'
      <4>1. run <= run
        BY <1>1, BoundAssumption, SMT DEF Run
      <4>2. main' \notin {"queued", "fetched"} => Started(run)'
        <5>1. \A q \in Run : main' \notin {"queued", "fetched"} /\ q <= run => Started(q)'
          BY <3>2
        <5> QED  BY <1>1, <1>2, <4>1, <5>1
      <4> QED  BY <1>2, <4>2
    <3>5. \A q \in Run : ~Started(q)' => queue'[q] = queue[q]
      BY <1>2, <3>4
    <3> QED  BY <3>3, <3>5
  <2>2. \A q \in Run : ~Started(q)' => writer'[q] = Idle /\ queue'[q] = <<>>
    <3> HIDE DEF Idle
    <3> QED  BY <1>2, <2>1 DEF Serial
  <2>3. "drain timed out" \notin causes' =>
         /\ \A r \in Run : r < run' => writer'[r].step = "ended"
         /\ main' \in Behind => writer'[run'].step = "ended"
         /\ \A r \in Run : stop'[r] = FALSE
    BY <1>2 DEF Serial
  <2> QED  BY <1>2, <2>2, <2>3 DEF Serial, turns
<1>3. \A c \in Row, s \in {"pending", "running", "completed", "failed", "cancelled"} :
        Save([c EXCEPT !.status = s]) => row'.status = s /\ causes \subseteq causes'
  BY <1>1, SavedStatus
<1>4. CASE Fetch
  BY <1>2, <1>4 DEF Fetch, threads, feedVars, Serial, Behind
<1>5. CASE MarkRunning
  <2>1. Save([copy EXCEPT !.status = "running"])
    BY <1>5 DEF MarkRunning
  <2>2. row'.status = "running" /\ causes \subseteq causes'
    BY <1>1, <1>3, <2>1
  <2> QED  BY <1>2, <1>5, <2>2 DEF MarkRunning, threads, feedVars, Serial, Behind
<1>6. ASSUME main = "feeding", NEW it \in Item, Put(it)
      PROVE  /\ \A q \in Run : queue'[q] = queue[q] \/ q = run
             /\ \A q \in Run : Started(q) <=> q < run \/ q = run
  BY <1>1, <1>6, StartedThen DEF Put, Serial
<1>7. ASSUME main = "feeding", NEW it \in Item, Put(it), UNCHANGED <<row, task, turns, stop, writer, causes>>,
             feed' # "ended"
      PROVE  Serial'
  <2>1. \A q \in Run : Started(q)' <=> Started(q)
    BY <1>7 DEF Started, task, turns
  <2>2. \A q \in Run : ~Started(q) => writer'[q] = Idle /\ queue'[q] = <<>>
    <3> HIDE DEF Idle
    <3> QED  BY <1>6, <1>7 DEF Serial
  <2>3. row'.status # "completed"
    BY <1>7 DEF Serial
  <2> QED  BY <1>7, <2>1, <2>2, <2>3 DEF Serial, Behind, task, turns
<1>8. ASSUME NEW hs \in SUBSET Host, OnSubnetComplete(hs) \/ OnDiscoveryComplete(hs) PROVE Serial'
  <2>1. [kind |-> "subnet_hosts", hosts |-> hs] \in Item /\ [kind |-> "discovery", hosts |-> hs] \in Item
    BY ItemFacts
  <2> QED
    BY <1>7, <1>8, <2>1
       DEF OnSubnetComplete, OnDiscoveryComplete, Feed!Report, Feed!Announce, tables, task
<1>9. ASSUME NEW h \in Host, OnHostComplete(h) PROVE Serial'
  <2>1. [kind |-> "host_result", hosts |-> {h}] \in Item
    BY ItemFacts
  <2> QED  BY <1>7, <1>9, <2>1 DEF OnHostComplete, Feed!Deliver, tables, task
<1>10. CASE EndFeed
  <2>1. /\ main = "feeding" /\ main' = "draining" /\ feed' = "ended" /\ Put(Sentinel)
        /\ UNCHANGED <<row, run, turns, stop, writer, causes>>
    BY <1>10 DEF EndFeed, Feed!End
  <2>2. Sentinel \in Item
    BY ItemFacts
  <2>3. \A q \in Run : Started(q)' <=> Started(q)
    BY <2>1 DEF Started, turns
  <2>4. \A q \in Run : ~Started(q) => writer'[q] = Idle /\ queue'[q] = <<>>
    <3> HIDE DEF Idle
    <3> QED  BY <1>6, <2>1, <2>2 DEF Serial
  <2>5. row'.status # "completed"
    BY <2>1 DEF Serial
  <2> QED  BY <2>1, <2>3, <2>4, <2>5 DEF Serial, Behind, turns
<1>11. CASE Joined
  BY <1>2, <1>11 DEF Joined, threads, feedVars, Serial, Behind
<1>12. CASE DrainTimesOut
  <2>1. /\ main = "draining" /\ main' = "reporting" /\ "drain timed out" \in causes'
        /\ UNCHANGED <<row, feed, run, raised, turns, queue, writer>>
    BY <1>12 DEF DrainTimesOut, Record, Met, feedVars
  <2>2. \A q \in Run : Started(q)' <=> Started(q)
    BY <2>1 DEF Started, turns
  <2>3. row'.status # "completed"
    BY <2>1 DEF Serial
  <2> HIDE DEF Idle
  <2> QED  BY <2>1, <2>2, <2>3 DEF Serial, Behind, turns
<1>13. CASE Refresh
  BY <1>2, <1>13 DEF Refresh, threads, feedVars, Serial, Behind
<1>14. CASE Complete
  <2>1. row'.status = "completed" /\ causes \subseteq causes'
    BY <1>1, <1>3, <1>14 DEF Complete
  <2> QED  BY <1>2, <1>14, <2>1 DEF Complete, threads, feedVars, Serial, Behind
<1>15. CASE Fail
  <2>1. row'.status = "failed" /\ causes \subseteq causes'
    BY <1>1, <1>3, <1>15 DEF Fail
  <2> QED  BY <1>2, <1>15, <2>1 DEF Fail, threads, feedVars, Serial, Behind
<1>16. CASE Kill
  <2>1. /\ main # "queued" /\ main' = "ended" /\ causes \subseteq causes'
        /\ writer' = [writer EXCEPT ![run] = [Idle EXCEPT !.step = "ended"]]
        /\ queue' = [queue EXCEPT ![run] = <<>>]
        /\ UNCHANGED <<row, feed, run, raised, turns, stop>>
    BY <1>16 DEF Kill, Record, feedVars
  <2>2. writer'[run].step = "ended" /\ \A q \in Run \ {run} : writer'[q] = writer[q] /\ queue'[q] = queue[q]
    <3>1. [Idle EXCEPT !.step = "ended"].step = "ended"
      BY DEF Idle
    <3> HIDE DEF Idle
    <3> QED  BY <1>1, <2>1, <3>1
  <2>3. \A q \in Run : ~Started(q)' => ~Started(q) /\ q # run
    <3>1. \A q \in Run : Started(q) <=> q <= run /\ (q = run => main \notin {"queued", "fetched"})
      BY DEF Started, Serial
    <3>2. \A q \in Run : Started(q)' <=> q <= run
      BY <2>1 DEF Started, Serial, turns
    <3>3. run <= run
      BY <1>1, BoundAssumption, SMT DEF Run
    <3> QED  BY <3>1, <3>2, <3>3
  <2>4. \A q \in Run : ~Started(q)' => writer'[q] = Idle /\ queue'[q] = <<>>
    <3> HIDE DEF Idle
    <3> QED  BY <2>2, <2>3 DEF Serial
  <2>5. \A n \in Run : ~(n < n)
    BY BoundAssumption, SMT DEF Run
  <2>6. "drain timed out" \notin causes' =>
         /\ \A r \in Run : r < run' => writer'[r].step = "ended"
         /\ main' \in Behind => writer'[run'].step = "ended"
         /\ \A r \in Run : stop'[r] = FALSE
    BY <1>1, <2>1, <2>2, <2>5 DEF Serial
  <2>7. row'.status = "completed" => main' = "ended" /\ ~raised' /\ feed' = "ended"
    BY <2>1 DEF Serial
  <2> QED  BY <2>1, <2>4, <2>6, <2>7 DEF Serial, turns
<1>17. portal # <<>> => portal[1] \in Request /\ portal[1].copy \in Row
  <2> SUFFICES ASSUME portal # <<>> PROVE portal[1] \in Request /\ portal[1].copy \in Row
    OBVIOUS
  <2>1. PICK p \in Request : portal = <<p>>
    BY DEF RowsTyped
  <2> QED  BY <2>1 DEF Request
<1>18. CASE ReadScan
  BY <1>2, <1>18 DEF ReadScan, threads, feedVars, task, Serial, Behind
<1>19. CASE SaveCancelled
  <2>1. row'.status = "cancelled" /\ causes \subseteq causes'
    BY <1>3, <1>17, <1>19 DEF SaveCancelled
  <2> QED  BY <1>2, <1>19, <2>1 DEF SaveCancelled, threads, feedVars, task, Serial, Behind
<1>20. CASE MarkLaunched
  <2>1. row'.status = "running"
    BY <1>1, <1>20, StatusSet DEF MarkLaunched
  <2> QED  BY <1>2, <1>20, <2>1 DEF MarkLaunched, threads, feedVars, task, Serial, Behind
<1>21. CASE SavePending
  <2>1. /\ main = "ended" /\ sent' = run + 1 /\ run' = sent' /\ main' = "queued" /\ raised' = FALSE
        /\ UNCHANGED <<queue, stop, writer, others>> /\ portal # <<>>
        /\ Save([portal[1].copy EXCEPT !.status = "pending"])
    <3>1. causes' # {"executions met"}
      BY DEF Met
    <3>2. main = "ended"
      BY <1>21, <3>1 DEF SavePending
    <3> QED  BY <1>21, <3>2 DEF SavePending, threads, TakeUp, Sent, Serial
  <2>2. row'.status = "pending" /\ causes \subseteq causes'
    BY <1>3, <1>17, <2>1
  <2>3. \A q \in Run : q < run + 1 <=> q < run \/ q = run
    BY <1>1, BoundAssumption, SMT DEF Run
  <2>4. \A q \in Run : ~Started(q)' => ~Started(q)
    <3>1. \A q \in Run : q <= run + 1 <=> q < run \/ q = run \/ q = run + 1
      BY <1>1, BoundAssumption, SMT DEF Run
    <3>2. \A q \in Run : Started(q)' <=> q <= run + 1 /\ q # run + 1
      BY <2>1 DEF Started, Serial
    <3>3. \A q \in Run : q = run + 1 => ~(q < run \/ q = run)
      BY <1>1, BoundAssumption, SMT DEF Run
    <3> QED  BY <3>1, <3>2, <3>3, StartedThen DEF Serial
  <2>5. \A q \in Run : ~Started(q)' => writer'[q] = Idle /\ queue'[q] = <<>>
    <3> HIDE DEF Idle
    <3> QED  BY <2>1, <2>4 DEF Serial
  <2>6. "drain timed out" \notin causes' =>
         /\ \A r \in Run : r < run' => writer'[r].step = "ended"
         /\ \A r \in Run : stop'[r] = FALSE
    BY <2>1, <2>2, <2>3 DEF Serial, Behind
  <2> QED  BY <2>1, <2>2, <2>5, <2>6 DEF Serial, Behind
<1> QED
  BY <1>4, <1>5, <1>8, <1>9, <1>10, <1>11, <1>12, <1>13, <1>14, <1>15, <1>16, <1>18, <1>19, <1>20,
     <1>21 DEF MainStep, FeedStep, PortalStep

\* Every step keeps the order.
LEMMA QueueOrders == ASSUME Finite, QueueTyped, QueueOrder, [Next]_vars PROVE QueueOrder'
<1> SUFFICES ASSUME ~Met' PROVE Serial'
  BY DEF QueueOrder
<1>1. Serial /\ ~Met
  BY CausesStay DEF QueueOrder
<1>2. CASE Next
  BY <1>1, <1>2, ThreadOrder, OtherOrder, NoTurn DEF Next
<1>3. CASE UNCHANGED vars
  <2> HIDE DEF Idle
  <2> QED
    BY <1>1, <1>3 DEF Serial, vars, feedVars, task, turns, threads, Started
<1> QED  BY <1>2, <1>3

\* A completed scan's counters change only at the hands of a thread given up.
LEMMA FinalStep ==
    ASSUME Finite, QueueTyped, QueueOrder, Next, row.status = "completed", row'.status = "completed",
           {"drain timed out", "executions met"} \cap causes' = {}
    PROVE  row' = row
<1>0. ~Met /\ ~Met' /\ Serial /\ "drain timed out" \notin causes
  <2>1. ~Met' /\ "drain timed out" \notin causes'
    BY DEF Met
  <2> QED  BY <2>1, CausesStay DEF QueueOrder
<1>1. main = "ended" /\ row \in Row
  BY <1>0 DEF Serial, QueueTyped, AtTurn, RowsTyped
<1>2. ASSUME NEW r \in Run, Turn(r) \/ WriterStep(r) \/ WriteFails(r) \/ WriterHangs(r) PROVE FALSE
  BY <1>0, <1>1, <1>2, AtWork, NoTurn DEF Behind
<1>3. ASSUME FeedStep \/ MainStep \/ Kill \/ ReadScan PROVE row' = row
  BY <1>1, <1>3 DEF FeedStep, OnSubnetComplete, OnDiscoveryComplete, OnHostComplete, MainStep, Fetch,
                    MarkRunning, EndFeed, Joined, DrainTimesOut, Refresh, Complete, Fail, Kill, ReadScan
<1>4. ASSUME SaveCancelled \/ SavePending \/ MarkLaunched PROVE FALSE
  <2>1. portal # <<>> => portal[1].copy \in Row
    <3> SUFFICES ASSUME portal # <<>> PROVE portal[1].copy \in Row
      OBVIOUS
    <3>1. PICK p \in Request : portal = <<p>>
      BY DEF QueueTyped, AtTurn, RowsTyped
    <3> QED  BY <3>1 DEF Request
  <2>2. MarkLaunched => row'.status = "running"
    BY <1>1, StatusSet DEF MarkLaunched
  <2>3. causes \subseteq Cause
    BY DEF QueueTyped, AtTurn, RowsTyped
  <2>4. SaveCancelled => row'.status = "cancelled"
    BY <2>1, <2>3, SavedStatus DEF SaveCancelled
  <2>5. SavePending => row'.status = "pending"
    BY <1>1, <2>1, <2>3, SavedStatus DEF SavePending
  <2> QED  BY <1>4, <2>2, <2>4, <2>5
<1> QED  BY <1>2, <1>3, <1>4 DEF Next, PortalStep

-----------------------------------------------------------------------------
(* The findings counter.                                                   *)

\* The findings of an item, and how many of them a thread has written and not counted.
Due(it) == IF it.kind = "host_result" THEN Findings[CHOOSE h \in it.hosts : TRUE] ELSE 0
Written(w) == IF w.step \in {"hosts", "ports", "findings"} THEN Due(w.item) - w.left ELSE 0
Uncounted == [r \in Run |-> Written(writer[r])]
Pending == SumOver(Uncounted, Run)

Copies == {others[r].copy : r \in DOMAIN others}
Instances == {row, copy} \cup Copies \cup (IF portal = <<>> THEN {} ELSE {portal[1].copy})

\* No instance of the row counts more findings than are written and not on their way to
\* the counter; the row itself counts all the others, unless a cause is on record or a
\* thread hangs.
FindingsCounted ==
    /\ \A c \in Instances : c.findings + Pending <= Total(findingRows)
    /\ causes = {} /\ (\A r \in Run : writer[r].step # "hung") =>
         row.findings + Pending = Total(findingRows)

\* What a thread has written of its item is as much as the item has at most.
LEMMA WrittenFacts ==
    ASSUME NEW w \in Thread, AtItem(w)
    PROVE  /\ Due(w.item) \in Nat /\ Written(w) \in Nat
           /\ w.step \notin {"hosts", "ports", "findings"} => Written(w) = 0
           /\ w.step \in {"hosts", "ports"} => Written(w) = 0
           /\ w.step = "findings" => Written(w) = Due(w.item) - w.left
<1> DEFINE h == CHOOSE h \in w.item.hosts : TRUE
<1>1. /\ w.left \in Nat /\ w.item \in Item
  BY DEF Thread
<1>2. w.item.kind = "host_result" => Due(w.item) = Findings[h] /\ h \in Host
  <2>1. w.item.kind = "host_result" => \E x \in Host : w.item.hosts = {x}
    BY <1>1, ItemFacts
  <2> QED  BY <2>1 DEF Due
<1>3. w.item.kind # "host_result" => Due(w.item) = 0
  BY DEF Due
<1>4. w.item.kind = "host_result" /\ w.step \in {"hosts", "ports", "findings"} =>
        w.left <= Findings[h] /\ (w.step # "findings" => w.left = Findings[h])
  BY DEF AtItem
<1>5. w.item.kind # "host_result" /\ w.step \in {"hosts", "ports", "findings"} => w.left = 0
  BY DEF AtItem
<1> HIDE DEF h
<1>6. Due(w.item) \in Nat
  BY <1>2, <1>3, CountAssumption
<1> QED  BY <1>1, <1>2, <1>3, <1>4, <1>5, <1>6 DEF Written

\* The executions are finitely many.
LEMMA RunsFinite == IsFiniteSet(Run)
BY FS_Interval, BoundAssumption DEF Run

\* The sum of what is written and not counted.
LEMMA PendingType ==
    ASSUME ThreadsTyped
    PROVE  /\ Pending \in Int /\ Pending >= 0
           /\ (\A r \in Run : writer[r].step \notin {"hosts", "ports", "findings"}) => Pending = 0
<1>1. \A r \in Run : writer[r] \in Thread /\ AtItem(writer[r])
  BY DEF ThreadsTyped
<1>2. Uncounted \in [Run -> Int] /\ \A r \in Run : Uncounted[r] >= 0
  BY <1>1, WrittenFacts DEF Uncounted
<1>3. (\A r \in Run : writer[r].step \notin {"hosts", "ports", "findings"}) => \A r \in Run : Uncounted[r] = 0
  BY <1>1, WrittenFacts DEF Uncounted
<1> QED  BY <1>2, <1>3, RunsFinite, SumType DEF Pending

\* When one thread moves, the sum moves with what it has written.
LEMMA PendingMoves ==
    ASSUME ThreadsTyped, ThreadsTyped', NEW r \in Run, \A q \in Run \ {r} : writer'[q] = writer[q]
    PROVE  Pending' = Pending + Written(writer'[r]) - Written(writer[r])
<1>1. \A q \in Run : Written(writer[q]) \in Nat
  BY WrittenFacts DEF ThreadsTyped
<1>2. \A q \in Run : Written(writer'[q]) \in Nat
  BY WrittenFacts DEF ThreadsTyped
<1>3. Uncounted' = [q \in Run |-> Written(writer'[q])]
  BY DEF Uncounted, Written, Due
<1>4. Uncounted' = [Uncounted EXCEPT ![r] = Written(writer'[r])]
  BY <1>3 DEF Uncounted
<1>5. Uncounted \in [Run -> Int] /\ Uncounted[r] = Written(writer[r]) /\ Written(writer'[r]) \in Int
  BY <1>1, <1>2 DEF Uncounted
<1>6. SumOver([Uncounted EXCEPT ![r] = Written(writer'[r])], Run)
        = SumOver(Uncounted, Run) + Written(writer'[r]) - Uncounted[r]
  BY <1>5, RunsFinite, SumUpdate
<1>7. Pending' = SumOver(Uncounted', Run)
  BY DEF Pending, Run
<1> QED  BY <1>4, <1>5, <1>6, <1>7 DEF Pending

\* The total when the rows of one host change, and when no row does.
LEMMA TotalFacts ==
    ASSUME Finite, NEW f \in [Host -> Nat]
    PROVE  /\ Total(f) \in Int /\ Total(f) >= 0
           /\ (\A h \in Host : f[h] = 0) => Total(f) = 0
           /\ \A h \in Host, v \in Nat : Total([f EXCEPT ![h] = v]) = Total(f) + v - f[h]
<1>1. f \in [Host -> Int] /\ (\A h \in Host : f[h] >= 0) /\ Nat \subseteq Int
  OBVIOUS
<1>2. Total(f) = SumOver(f, Host)
  BY DEF Total, SumOver
<1>3. ASSUME NEW h \in Host, NEW v \in Nat
      PROVE  Total([f EXCEPT ![h] = v]) = SumOver([f EXCEPT ![h] = v], Host)
  BY DEF Total, SumOver
<1>4. ASSUME NEW h \in Host, NEW v \in Nat
      PROVE  Total([f EXCEPT ![h] = v]) = Total(f) + v - f[h]
  <2>1. v \in Int
    OBVIOUS
  <2>2. SumOver([f EXCEPT ![h] = v], Host) = SumOver(f, Host) + v - f[h]
    BY <1>1, <2>1, SumUpdate DEF Finite
  <2> QED  BY <1>2, <1>3, <2>2
<1>5. /\ SumOver(f, Host) \in Int
      /\ (\A h \in Host : f[h] = 0) => SumOver(f, Host) = 0
      /\ (\A h \in Host : f[h] >= 0) => SumOver(f, Host) >= 0
  BY <1>1, SumType DEF Finite
<1> QED  BY <1>1, <1>2, <1>4, <1>5

\* The instances are rows, and what is pending is a number, in the next state as in this.
InstancesTyped == \A c \in Instances : c.findings \in Nat
PendingTyped == Pending \in Int
\* Each instance is a row, and so are its counters.
LEMMA InstancesAreRows ==
    ASSUME RowsTyped, TurnsTyped
    PROVE  /\ \A c \in Instances : c \in Row /\ c.findings \in Nat /\ c.ports \in Nat /\ c.hosts \in Nat
           /\ portal # <<>> => portal[1].copy \in Instances
           /\ row \in Instances /\ copy \in Instances
<1>1. portal # <<>> => portal[1].copy \in Row
  <2> SUFFICES ASSUME portal # <<>> PROVE portal[1].copy \in Row
    OBVIOUS
  <2>1. PICK p \in Request : portal = <<p>>
    BY DEF RowsTyped
  <2> QED  BY <2>1 DEF Request
<1>4. Copies \subseteq Row
  BY DEF Copies, TurnsTyped, Waits, Waiting
<1>2. \A c \in Instances : c \in Row
  BY <1>1, <1>4 DEF Instances, RowsTyped
<1>3. \A c \in Row : c.findings \in Nat /\ c.ports \in Nat /\ c.hosts \in Nat
  BY DEF Row
<1> QED  BY <1>2, <1>3 DEF Instances

\* Both hold whenever the types do.
LEMMA TypedAlways == (RowsTyped /\ TurnsTyped => InstancesTyped) /\ (ThreadsTyped => PendingTyped)
BY InstancesAreRows, PendingType DEF InstancesTyped, PendingTyped

\* The findings stay counted when every instance is as far behind as one was, and the
\* row as far as it was.
LEMMA FindingsStay ==
    ASSUME Finite, QueueTyped, QueueTyped', FindingsCounted,
           \A c \in Instances' : \E b \in Instances :
             c.findings + Pending' - Total(findingRows') <= b.findings + Pending - Total(findingRows),
           causes' = {} /\ (\A r \in Run : writer'[r].step # "hung") =>
             /\ causes = {} /\ \A r \in Run : writer[r].step # "hung"
             /\ row'.findings + Pending' - Total(findingRows') = row.findings + Pending - Total(findingRows)
    PROVE  FindingsCounted'
<1>1. /\ Total(findingRows) \in Int /\ Total(findingRows') \in Int
  BY TotalFacts DEF QueueTyped, AtTurn, RowsTyped
<1>2. /\ Pending \in Int /\ Pending' \in Int
  <2>1. ThreadsTyped' => PendingTyped'
    BY TypedAlways, PTL
  <2> QED  BY <2>1, TypedAlways DEF QueueTyped, AtTurn, PendingTyped
<1>3. \A c \in Instances : c.findings \in Nat
  BY InstancesAreRows DEF QueueTyped, AtTurn
<1>4. \A c \in Instances' : c.findings \in Nat
  <2>1. RowsTyped' /\ TurnsTyped' => InstancesTyped'
    BY TypedAlways, PTL
  <2> QED  BY <2>1 DEF QueueTyped, AtTurn, InstancesTyped
<1>5. ASSUME NEW c \in Instances' PROVE c.findings + Pending' <= Total(findingRows')
  <2>1. PICK b \in Instances :
          c.findings + Pending' - Total(findingRows') <= b.findings + Pending - Total(findingRows)
    OBVIOUS
  <2>2. b.findings + Pending <= Total(findingRows)
    BY DEF FindingsCounted
  <2> QED  BY <1>1, <1>2, <1>3, <1>4, <2>1, <2>2
<1>6. row \in Instances /\ row' \in Instances'
  BY DEF Instances
<1>7. causes' = {} /\ (\A r \in Run : writer'[r].step # "hung") =>
        row'.findings + Pending' = Total(findingRows')
  <2> SUFFICES ASSUME causes' = {}, \A r \in Run : writer'[r].step # "hung"
      PROVE  row'.findings + Pending' = Total(findingRows')
    OBVIOUS
  <2>1. row.findings + Pending = Total(findingRows)
    BY DEF FindingsCounted
  <2>2. row'.findings + Pending' - Total(findingRows') = row.findings + Pending - Total(findingRows)
    OBVIOUS
  <2>3. row.findings \in Nat /\ row'.findings \in Nat
    BY <1>3, <1>4, <1>6
  <2> QED  BY <1>1, <1>2, <2>1, <2>2, <2>3
<1> QED  BY <1>5, <1>7 DEF FindingsCounted, Run

\* Steps other than the threads' move no finding.
LEMMA OthersCount ==
    ASSUME Finite, QueueTyped, QueueTyped', FindingsCounted, MainStep \/ FeedStep \/ Kill \/ PortalStep
    PROVE  FindingsCounted'
<1>1. /\ causes \subseteq Cause /\ row \in Row /\ copy \in Row /\ run \in Run
      /\ row \in Instances /\ copy \in Instances
      /\ portal # <<>> => portal[1].copy \in Instances /\ portal[1].copy \in Row
      /\ \A c \in Instances : c.findings \in Nat
  BY InstancesAreRows DEF QueueTyped, AtTurn, RowsTyped, MainTyped
<1>2. Total(findingRows) \in Int /\ Total(findingRows') \in Int
  BY TotalFacts DEF QueueTyped, AtTurn, RowsTyped
<1>3. Pending \in Int /\ Pending >= 0
  BY PendingType DEF QueueTyped, AtTurn
<1>17. others' = others => Copies' = Copies
  BY DEF Copies
<1>4. ASSUME writer' = writer, findingRows' = findingRows,
             \A c \in Instances' : c.findings = 0 \/ \E b \in Instances : c.findings = b.findings,
             causes' = {} => causes = {} /\ row'.findings = row.findings
      PROVE  FindingsCounted'
  <2>1. Pending' = Pending
    BY <1>4 DEF Pending, Uncounted, Written, Due, Run
  <2>2. Total(findingRows') = Total(findingRows)
    BY <1>4
  <2>3. \A c \in Instances' : \E b \in Instances :
          c.findings + Pending' - Total(findingRows') <= b.findings + Pending - Total(findingRows)
    <3> TAKE c \in Instances'
    <3>1. PICK b \in Instances : c.findings <= b.findings
      BY <1>1, <1>4
    <3>2. c.findings \in Nat
      BY <1>1, <1>4
    <3> QED  BY <1>1, <1>2, <1>3, <2>1, <2>2, <3>1, <3>2
  <2>4. causes' = {} /\ (\A r \in Run : writer'[r].step # "hung") =>
          /\ causes = {} /\ \A r \in Run : writer[r].step # "hung"
          /\ row'.findings + Pending' - Total(findingRows') = row.findings + Pending - Total(findingRows)
    BY <1>4, <2>1, <2>2
  <2> QED  BY <2>3, <2>4, FindingsStay
<1>5. Fresh.findings = 0
  BY FreshRow
<1>6. ASSUME NEW c \in Row, NEW s \in {"pending", "running", "completed", "failed", "cancelled"},
             c \in Instances, Save([c EXCEPT !.status = s])
      PROVE  /\ row'.findings = c.findings
             /\ causes' = {} => causes = {} /\ row'.findings = row.findings
  <2>1. /\ row'.findings = c.findings /\ causes \subseteq causes'
        /\ causes' \cap {"stale save", "executions met"} = {} => Counters(c) = Counters(row)
    BY <1>1, <1>6, SavedStatus
  <2>2. causes' = {} => causes' \cap {"stale save", "executions met"} = {} /\ causes = {}
    BY <2>1
  <2> QED  BY <2>1, <2>2 DEF Counters
<1>7. CASE Fetch
  <2>1. Instances' \subseteq Instances
    BY <1>7, <1>17 DEF Fetch, Instances, requests, turns
  <2> QED  BY <1>4, <1>7, <2>1 DEF Fetch, tables, threads
<1>8. CASE MarkRunning
  <2>1. row'.findings = copy.findings /\ (causes' = {} => causes = {} /\ row'.findings = row.findings)
    BY <1>1, <1>6, <1>8 DEF MarkRunning
  <2>2. copy'.findings = copy.findings
    BY <1>1, <1>8, StatusSet DEF MarkRunning
  <2>3. \A c \in Instances' : \E b \in Instances : c.findings = b.findings
    BY <1>1, <1>8, <1>17, <2>1, <2>2 DEF MarkRunning, Instances, requests, turns
  <2> QED  BY <1>4, <1>8, <2>1, <2>3 DEF MarkRunning, tables, threads
<1>9. CASE FeedStep \/ EndFeed \/ Joined \/ DrainTimesOut
  <2>1. /\ writer' = writer /\ findingRows' = findingRows /\ UNCHANGED <<row, copy, others, portal>>
        /\ causes \subseteq causes'
    BY <1>9 DEF Record, turns, FeedStep, OnSubnetComplete, OnDiscoveryComplete, OnHostComplete, EndFeed, Joined,
                DrainTimesOut, tables, threads, task, requests
  <2>2. Instances' = Instances
    BY <1>17, <2>1 DEF Instances
  <2> QED  BY <1>4, <2>1, <2>2
<1>10. CASE Refresh
  <2>1. Instances' \subseteq Instances
    BY <1>10, <1>17 DEF Refresh, Instances, requests, turns
  <2> QED  BY <1>4, <1>10, <2>1 DEF Refresh, tables, threads
<1>11. CASE Complete \/ Fail
  <2>1. PICK s \in {"completed", "failed"} : Save([copy EXCEPT !.status = s])
    BY <1>11 DEF Complete, Fail
  <2>2. row'.findings = copy.findings /\ (causes' = {} => causes = {} /\ row'.findings = row.findings)
    BY <1>1, <1>6, <2>1
  <2>3. \A c \in Instances' : c.findings = 0 \/ \E b \in Instances : c.findings = b.findings
    <3> HIDE DEF Fresh
    <3> QED  BY <1>1, <1>5, <1>11, <1>17, <2>2 DEF Complete, Fail, Instances, requests, turns
  <2> QED  BY <1>4, <1>11, <2>2, <2>3 DEF Complete, Fail, tables, threads
<1>12. CASE Kill
  <2> DEFINE w == [Idle EXCEPT !.step = "ended"]
  <2>1. w.step = "ended" /\ w \in Thread /\ AtItem(w)
    BY IdleThread DEF Step
  <2>2. writer' = [writer EXCEPT ![run] = w] /\ causes' # {} /\ findingRows' = findingRows
        /\ UNCHANGED <<row, others, portal>> /\ copy' = Fresh
    BY <1>12 DEF Kill, Record, tables, requests, turns
  <2> HIDE DEF w, Fresh
  <2>3. writer'[run] = w /\ \A q \in Run \ {run} : writer'[q] = writer[q]
    BY <1>1, <2>2 DEF QueueTyped, AtTurn, ThreadsTyped
  <2>4. Written(w) = 0 /\ Written(writer[run]) \in Nat
    BY <1>1, <2>1, WrittenFacts DEF QueueTyped, AtTurn, ThreadsTyped
  <2>5. Pending' <= Pending /\ Pending' \in Int
    <3>1. Pending' = Pending + Written(writer'[run]) - Written(writer[run])
      BY <1>1, <2>3, PendingMoves DEF QueueTyped, AtTurn
    <3> QED  BY <1>3, <2>3, <2>4, <3>1
  <2>6. \A c \in Instances' : \E b \in Instances : c.findings = 0 \/ c.findings = b.findings
    BY <1>1, <1>5, <1>17, <2>2 DEF Instances
  <2>7. \A c \in Instances' : \E b \in Instances :
          c.findings + Pending' - Total(findingRows') <= b.findings + Pending - Total(findingRows)
    <3> TAKE c \in Instances'
    <3>1. PICK b \in Instances : c.findings <= b.findings
      BY <1>1, <2>6
    <3>2. c.findings \in Nat
      BY <1>1, <2>6
    <3>3. Total(findingRows') = Total(findingRows)
      BY <2>2
    <3> QED  BY <1>1, <1>2, <1>3, <2>5, <3>1, <3>2, <3>3
  <2> QED  BY <2>2, <2>7, FindingsStay
<1>13. CASE ReadScan
  <2>1. Instances' \subseteq Instances
    <3>1. row' = row /\ copy' = copy /\ others' = others /\ portal'[1].copy = row
      BY <1>13 DEF ReadScan, task, turns
    <3> QED  BY <1>17, <3>1 DEF Instances
  <2> QED  BY <1>4, <1>13, <2>1 DEF ReadScan, tables, threads
<1>14. CASE SaveCancelled
  <2>1. portal # <<>> /\ Save([portal[1].copy EXCEPT !.status = "cancelled"]) /\ portal' = <<>>
        /\ UNCHANGED <<copy, others, writer, findingRows>>
    BY <1>14 DEF SaveCancelled, task, threads, tables, turns
  <2>2. row'.findings = portal[1].copy.findings
        /\ (causes' = {} => causes = {} /\ row'.findings = row.findings)
    BY <1>1, <1>6, <2>1
  <2>3. \A c \in Instances' : \E b \in Instances : c.findings = b.findings
    BY <1>1, <1>17, <2>1, <2>2 DEF Instances
  <2> QED  BY <1>4, <2>1, <2>2, <2>3
<1>16. CASE SavePending
  <2> DEFINE mine == [portal[1].copy EXCEPT !.status = "pending"]
  <2>1. portal # <<>> /\ writer' = writer /\ findingRows' = findingRows
    BY <1>16 DEF SavePending, threads, tables
  <2>2. PICK p \in Request : portal = <<p>>
    BY <2>1 DEF QueueTyped, AtTurn, RowsTyped
  <2>3. portal' # <<>> /\ portal'[1].copy = portal[1].copy
    <3>1. [p EXCEPT !.op = "mark"].copy = p.copy
      BY DEF Request
    <3>2. portal' = <<[p EXCEPT !.op = "mark"]>>
      BY <1>16, <2>2 DEF SavePending
    <3> QED  BY <2>2, <3>1, <3>2
  <2>4. mine.findings = portal[1].copy.findings
    BY <1>1, <2>1, StatusSet
  <2>5. CASE main = "ended"
    <3>1. Save(mine) /\ TakeUp(Sent) /\ others' = others
      BY <1>16, <2>5 DEF SavePending
    <3>2. row'.findings = portal[1].copy.findings
          /\ (causes' = {} => causes = {} /\ row'.findings = row.findings)
      BY <1>1, <1>6, <2>1, <3>1
    <3>3. copy' = Fresh
      BY <3>1 DEF TakeUp, Sent
    <3>4. \A c \in Instances' : c.findings = 0 \/ \E b \in Instances : c.findings = b.findings
      <4> HIDE DEF Fresh
      <4> QED  BY <1>1, <1>5, <1>17, <2>1, <2>3, <3>1, <3>2, <3>3 DEF Instances
    <3> QED  BY <1>4, <2>1, <3>2, <3>4
  <2>6. CASE main # "ended"
    <3>1. /\ row' = mine /\ causes' = {"executions met"} /\ copy' = copy
          /\ others' = [r \in DOMAIN others \cup {sent'} |-> IF r = sent' THEN Sent ELSE others[r]]
      BY <1>16, <2>6 DEF SavePending, task
    <3>2. Sent.copy = Fresh
      BY DEF Sent
    <3>3. Copies' \subseteq Copies \cup {Fresh}
      <4> HIDE DEF Sent, Fresh
      <4> QED  BY <3>1, <3>2 DEF Copies
    <3>4. \A c \in Instances' : c.findings = 0 \/ \E b \in Instances : c.findings = b.findings
      <4> HIDE DEF Fresh, mine
      <4> QED  BY <1>1, <1>5, <2>1, <2>3, <2>4, <3>1, <3>3 DEF Instances
    <3> QED  BY <1>4, <2>1, <3>1, <3>4
  <2> QED  BY <2>5, <2>6
<1>15. CASE MarkLaunched
  <2>1. row'.findings = row.findings
    BY <1>1, <1>15, StatusSet DEF MarkLaunched
  <2>2. /\ portal' = <<>> /\ others' = others
        /\ copy' = copy /\ writer' = writer /\ findingRows' = findingRows /\ causes' = causes
    BY <1>15 DEF MarkLaunched, task, threads, tables, turns
  <2>3. \A c \in Instances' : \E b \in Instances : c.findings = b.findings
    BY <1>1, <1>17, <2>1, <2>2 DEF Instances
  <2> QED  BY <1>4, <2>1, <2>2, <2>3
<1> QED
  BY <1>7, <1>8, <1>9, <1>10, <1>11, <1>12, <1>13, <1>14, <1>15, <1>16 DEF MainStep, PortalStep

\* A thread's steps: a finding is on its way to the counter from its row to its count.
LEMMA ThreadsCount ==
    ASSUME Finite, QueueTyped, QueueTyped', QueueOrder, FindingsCounted, NEW r \in Run,
           WriterStep(r) \/ WriteFails(r) \/ WriterHangs(r)
    PROVE  FindingsCounted'
<1>1. /\ causes \subseteq Cause /\ row \in Row /\ row \in Instances
      /\ \A c \in Instances : c.findings \in Nat
      /\ findingRows \in [Host -> Nat]
  BY InstancesAreRows DEF QueueTyped, AtTurn, RowsTyped
<1>2. Total(findingRows) \in Int /\ Total(findingRows') \in Int
  BY TotalFacts DEF QueueTyped, AtTurn, RowsTyped
<1>3. Pending \in Int
  BY PendingType DEF QueueTyped, AtTurn
<1>4. /\ \A q \in Run \ {r} : writer'[q] = writer[q]
      /\ copy' = copy /\ others' = others /\ portal' = portal /\ causes \subseteq causes'
  BY AtWork DEF task, turns, requests
<1>5. /\ writer[r] \in Thread /\ writer'[r] \in Thread /\ AtItem(writer[r]) /\ AtItem(writer'[r])
      /\ writer \in [Run -> Thread] /\ writer[r].left \in Nat /\ writer[r].item \in Item
  BY DEF QueueTyped, AtTurn, ThreadsTyped, Thread
<1>6. Written(writer[r]) \in Nat /\ Written(writer'[r]) \in Nat
  BY <1>5, WrittenFacts
<1>7. Pending' = Pending + Written(writer'[r]) - Written(writer[r])
  BY <1>4, PendingMoves DEF QueueTyped, AtTurn
<1>8. Instances' \subseteq {row'} \cup Instances
  BY <1>4 DEF Instances, Copies
<1>9. ASSUME row' = row, Written(writer'[r]) - Written(writer[r]) <= Total(findingRows') - Total(findingRows),
             \/ /\ Written(writer'[r]) - Written(writer[r]) = Total(findingRows') - Total(findingRows)
                /\ writer[r].step # "hung"
             \/ causes' # {}
             \/ writer'[r].step = "hung"
      PROVE  FindingsCounted'
  <2>1. \A c \in Instances' : \E b \in Instances :
          c.findings + Pending' - Total(findingRows') <= b.findings + Pending - Total(findingRows)
    <3> TAKE c \in Instances'
    <3>1. c \in Instances
      BY <1>1, <1>8, <1>9
    <3>2. c.findings \in Nat
      BY <1>1, <3>1
    <3>3. c.findings + Pending' - Total(findingRows') <= c.findings + Pending - Total(findingRows)
      BY <1>2, <1>3, <1>6, <1>7, <1>9, <3>2
    <3> QED  BY <3>1, <3>3
  <2>2. causes' = {} /\ (\A q \in Run : writer'[q].step # "hung") =>
          /\ causes = {} /\ \A q \in Run : writer[q].step # "hung"
          /\ row'.findings + Pending' - Total(findingRows') = row.findings + Pending - Total(findingRows)
    <3> SUFFICES ASSUME causes' = {}, \A q \in Run : writer'[q].step # "hung"
        PROVE  /\ causes = {} /\ \A q \in Run : writer[q].step # "hung"
               /\ row'.findings + Pending' - Total(findingRows') = row.findings + Pending - Total(findingRows)
      OBVIOUS
    <3>1. /\ Written(writer'[r]) - Written(writer[r]) = Total(findingRows') - Total(findingRows)
          /\ writer[r].step # "hung"
      BY <1>9
    <3>2. row.findings \in Nat
      BY <1>1
    <3>3. row'.findings + Pending' - Total(findingRows') = row.findings + Pending - Total(findingRows)
      BY <1>2, <1>3, <1>6, <1>7, <1>9, <3>1, <3>2
    <3>4. \A q \in Run : writer[q].step # "hung"
      BY <1>4, <3>1
    <3> QED  BY <1>4, <3>3, <3>4
  <2> QED  BY <2>1, <2>2, FindingsStay
<1>10. ASSUME NEW s \in Step, To(r, s),
              LET w == [step |-> s, item |-> writer[r].item, left |-> writer[r].left] IN AtItem(w)
       PROVE  writer'[r] = [step |-> s, item |-> writer[r].item, left |-> writer[r].left]
  BY <1>10, ToFacts DEF QueueTyped, AtTurn
<1>11. ASSUME findingRows' = findingRows PROVE Total(findingRows') = Total(findingRows)
  BY <1>11
<1>12. CASE CheckStop(r) \/ GetNothing(r)
  <2>1. PICK s \in {"ended", "getting", "polling"} : To(r, s)
    BY <1>12 DEF CheckStop, GetNothing
  <2>2. writer'[r] = [step |-> s, item |-> writer[r].item, left |-> writer[r].left]
    BY <1>10, <2>1 DEF Step, AtItem
  <2>3. Written(writer'[r]) = 0 /\ Written(writer[r]) = 0 /\ writer[r].step # "hung"
    BY <1>5, <1>12, <2>2, WrittenFacts DEF CheckStop, GetNothing
  <2>4. row' = row /\ findingRows' = findingRows
    BY <1>12 DEF CheckStop, GetNothing, tables
  <2> QED  BY <1>2, <1>9, <1>11, <2>3, <2>4
<1>13. CASE Get(r)
  <2>1. row' = row /\ findingRows' = findingRows /\ writer[r].step = "getting"
    BY <1>13 DEF Get, tables
  <2>2. writer'[r].step \in {"ended", "hosts"}
    BY <1>5, <1>13 DEF Get
  <2>3. Written(writer'[r]) = 0 /\ Written(writer[r]) = 0
    BY <1>5, <2>1, <2>2, WrittenFacts
  <2> QED  BY <1>2, <1>9, <1>11, <2>1, <2>3
<1>14. CASE WriteHosts(r) \/ ReplacePorts(r)
  <2>1. /\ row' = row /\ findingRows' = findingRows /\ writer[r].step \in {"hosts", "ports"}
    BY <1>14 DEF WriteHosts, ReplacePorts
  <2>2. PICK s \in {"ports", "findings"} : To(r, s) /\ (s = "ports" => writer[r].item.kind = "host_result")
    BY <1>14 DEF WriteHosts, ReplacePorts
  <2>3. LET w == [step |-> s, item |-> writer[r].item, left |-> writer[r].left] IN AtItem(w)
    BY <1>5, <2>1, <2>2 DEF AtItem
  <2>4. writer'[r] = [step |-> s, item |-> writer[r].item, left |-> writer[r].left]
    BY <1>10, <2>2, <2>3 DEF Step
  <2>5. writer[r].left = Due(writer[r].item)
    BY <1>5, <2>1 DEF AtItem, Due
  <2>6. Written(writer[r]) = 0
    BY <1>5, <2>1, WrittenFacts
  <2>7. Written(writer'[r]) = 0
    <3>1. CASE s = "ports"
      BY <1>5, <2>4, <3>1, WrittenFacts
    <3>2. CASE s = "findings"
      BY <1>5, <2>4, <2>5, <3>2, WrittenFacts
    <3> QED  BY <2>2, <3>1, <3>2
  <2> QED  BY <1>2, <1>9, <1>11, <2>1, <2>6, <2>7
<1>15. CASE WriteFinding(r)
  <2>1. /\ writer[r].step = "findings" /\ writer[r].left > 0 /\ row' = row
        /\ findingRows' = [findingRows EXCEPT ![TheHost(r)] = findingRows[TheHost(r)] + 1]
        /\ writer' = [writer EXCEPT ![r].left = writer[r].left - 1]
    BY <1>1, <1>5, <1>15 DEF WriteFinding
  <2>2. writer[r].item.kind = "host_result"
    BY <1>5, <2>1 DEF AtItem
  <2>3. TheHost(r) \in Host
    BY <2>2, HostInHand DEF QueueTyped, AtTurn
  <2>4. Total(findingRows') = Total(findingRows) + 1
    <3> DEFINE h == TheHost(r)
    <3>1. findingRows[h] + 1 \in Nat /\ findingRows[h] \in Nat /\ h \in Host
      BY <1>1, <2>3
    <3> HIDE DEF h
    <3>2. Total([findingRows EXCEPT ![h] = findingRows[h] + 1])
            = Total(findingRows) + (findingRows[h] + 1) - findingRows[h]
      BY <1>1, <3>1, TotalFacts
    <3>3. findingRows' = [findingRows EXCEPT ![h] = findingRows[h] + 1]
      BY <2>1 DEF h
    <3> QED  BY <1>2, <3>1, <3>2, <3>3
  <2>5. writer'[r].step = "findings" /\ writer'[r].item = writer[r].item
        /\ writer'[r].left = writer[r].left - 1
    <3>1. writer'[r] = [writer[r] EXCEPT !.left = writer[r].left - 1]
      BY <1>5, <2>1
    <3> QED  BY <1>5, <2>1, <3>1 DEF Thread
  <2>6. /\ Written(writer[r]) = Due(writer[r].item) - writer[r].left
        /\ Written(writer'[r]) = Due(writer[r].item) - (writer[r].left - 1)
        /\ Due(writer[r].item) \in Nat
    BY <1>5, <2>1, <2>5, WrittenFacts
  <2>7. Written(writer'[r]) - Written(writer[r]) = 1
    BY <1>5, <2>6
  <2> QED  BY <1>2, <1>9, <2>1, <2>4, <2>7
<1>16. Idle \in Thread /\ Idle.step = "polling" /\ [Idle EXCEPT !.step = "hung"].step = "hung"
       /\ [Idle EXCEPT !.step = "polling"] = Idle
  BY IdleThread DEF Idle, Step
<1>17. CASE WriteFails(r) \/ WriterHangs(r)
  <2>1. writer[r].step \in {"hosts", "ports", "findings"} /\ row' = row /\ findingRows' = findingRows
    BY <1>17 DEF WriteFails, WriterHangs, Writing, tables
  <2>2. writer'[r].step \in {"polling", "hung"} /\ (writer'[r].step = "hung" \/ causes' # {})
    <3> HIDE DEF Idle
    <3> QED  BY <1>5, <1>16, <1>17 DEF WriteFails, WriterHangs, Record
  <2>3. Written(writer'[r]) = 0
    BY <1>5, <2>2, WrittenFacts
  <2>4. Written(writer'[r]) - Written(writer[r]) <= Total(findingRows') - Total(findingRows)
    BY <1>2, <1>6, <1>11, <2>1, <2>3
  <2> QED  BY <1>9, <2>1, <2>2, <2>4
<1>18. CASE Count(r)
  <2>1. /\ writer[r].step = "findings" /\ writer[r].left = 0 /\ findingRows' = findingRows
        /\ row' = Counted(writer[r].item) /\ writer' = [writer EXCEPT ![r] = Idle]
    BY <1>18 DEF Count, tables
  <2>2. writer'[r].step = "polling"
    <3> HIDE DEF Idle
    <3> QED  BY <1>5, <1>16, <2>1
  <2>3. Written(writer'[r]) = 0 /\ Written(writer[r]) = Due(writer[r].item)
    BY <1>5, <2>1, <2>2, WrittenFacts
  <2>4. row'.findings = row.findings + Due(writer[r].item)
    <3>1. writer[r].item.kind # "sentinel"
      BY <1>5, <2>1 DEF AtItem
    <3>2. writer[r].item.kind = "host_result" => row'.findings = row.findings + Due(writer[r].item)
      BY <1>1, <1>5, <2>1, <3>1, CountedRow DEF Due
    <3>3. writer[r].item.kind # "host_result" => row'.findings = row.findings
      BY <1>1, <1>5, <2>1, <3>1, CountedRow
    <3>4. writer[r].item.kind # "host_result" => Due(writer[r].item) = 0
      BY DEF Due
    <3> QED  BY <1>1, <3>2, <3>3, <3>4
  <2>5. Total(findingRows') = Total(findingRows)
    BY <2>1
  <2>6. row'.findings + Pending' - Total(findingRows') = row.findings + Pending - Total(findingRows)
    BY <1>1, <1>2, <1>3, <1>6, <1>7, <2>3, <2>4, <2>5
  <2>7. \A c \in Instances' : \E b \in Instances :
          c.findings + Pending' - Total(findingRows') <= b.findings + Pending - Total(findingRows)
    <3> TAKE c \in Instances'
    <3>1. CASE c = row'
      <4>1. row'.findings \in Nat
        BY <1>1, <1>6, <2>3, <2>4
      <4> QED  BY <1>1, <1>2, <1>3, <1>6, <1>7, <2>3, <2>6, <3>1, <4>1
    <3>2. CASE c \in Instances
      <4>1. c.findings \in Nat
        BY <1>1, <3>2
      <4>2. c.findings + Pending' - Total(findingRows') <= c.findings + Pending - Total(findingRows)
        BY <1>2, <1>3, <1>6, <1>7, <2>3, <2>5, <4>1
      <4> QED  BY <3>2, <4>2
    <3> QED  BY <1>8, <3>1, <3>2
  <2>8. causes' = {} /\ (\A q \in Run : writer'[q].step # "hung") =>
          /\ causes = {} /\ \A q \in Run : writer[q].step # "hung"
    BY <1>4, <2>1
  <2> QED  BY <2>6, <2>7, <2>8, FindingsStay
<1> QED
  BY <1>12, <1>13, <1>14, <1>15, <1>17, <1>18 DEF WriterStep

\* Every step keeps the findings counted.
LEMMA FindingsCount ==
    ASSUME Finite, QueueTyped, QueueTyped', QueueOrder, FindingsCounted, [Next]_vars
    PROVE  FindingsCounted'
<1>1. CASE UNCHANGED <<row, writer, findingRows, causes>> /\ Instances' \subseteq Instances
  <2>1. Pending' = Pending /\ Total(findingRows') = Total(findingRows)
    BY <1>1 DEF Pending, Uncounted, Written, Due, Run
  <2> QED  BY <1>1, <2>1 DEF FindingsCounted, Run
<1>2. CASE UNCHANGED vars
  <2>1. UNCHANGED <<row, copy, others, portal, writer, findingRows, causes>>
    BY <1>2 DEF vars, tables, task, turns, threads, requests
  <2>2. Instances' = Instances
    BY <2>1 DEF Instances, Copies
  <2> QED  BY <1>1, <2>1, <2>2
<1>3. ASSUME NEW r \in Run, Turn(r) PROVE FindingsCounted'
  <2> DEFINE still == (DOMAIN others \ {r}) \cup (IF main = "ended" THEN {} ELSE {run})
  <2>1. /\ r \in DOMAIN others /\ copy' = others[r].copy
        /\ UNCHANGED <<row, portal, writer, findingRows, causes>>
        /\ others' = [n \in still |-> IF n = run THEN Held ELSE others[n]]
    BY <1>3 DEF Turn, TakeUp, tables, threads, requests
  <2>2. Held.copy = copy
    BY DEF Held
  <2>3. Copies' \subseteq Copies \cup {copy}
    <3> HIDE DEF Held
    <3>1. \A n \in DOMAIN others' : others'[n].copy \in Copies \cup {copy}
      BY <2>1, <2>2 DEF Copies
    <3> QED  BY <3>1 DEF Copies
  <2>4. Instances' \subseteq Instances
    <3>1. copy' \in Copies
      BY <2>1 DEF Copies
    <3> QED  BY <2>1, <2>3, <3>1 DEF Instances
  <2> QED  BY <1>1, <2>1, <2>4
<1> QED  BY <1>2, <1>3, OthersCount, ThreadsCount DEF Next

\* A scan begins with no finding, written or counted.
LEMMA FindingsStart == ASSUME Finite, Init, QueueTyped PROVE FindingsCounted
<1>1. Pending = 0
  <2>1. \A r \in Run : writer[r].step = "polling"
    BY DEF Init, Idle
  <2> QED  BY <2>1, PendingType DEF QueueTyped, AtTurn
<1>2. Total(findingRows) = 0
  <2>1. findingRows \in [Host -> Nat] /\ \A h \in Host : findingRows[h] = 0
    BY DEF Init
  <2> QED  BY <2>1, TotalFacts
<1>3. \A c \in Instances : c.findings = 0
  <2>1. Copies = {}
    <3> HIDE DEF Sent
    <3> QED  BY DEF Init, Copies
  <2> HIDE DEF Fresh
  <2> QED  BY <2>1, FreshRow DEF Init, Instances
<1> QED  BY <1>1, <1>2, <1>3 DEF FindingsCounted, Instances

\* What the counters of findings promise.
LEMMA FindingsPromise ==
    ASSUME Finite, QueueTyped, QueueOrder, FindingsCounted
    PROVE  /\ FindingsNeverOvercounted
           /\ row.status = "completed" /\ causes = {} => row.findings = Total(findingRows)
<1>1. /\ row.findings \in Nat /\ row \in Instances
      /\ Pending \in Int /\ Pending >= 0 /\ Total(findingRows) \in Int
  BY InstancesAreRows, PendingType, TotalFacts DEF QueueTyped, AtTurn, RowsTyped
<1>2. FindingsNeverOvercounted
  <2>1. row.findings + Pending <= Total(findingRows)
    BY <1>1 DEF FindingsCounted
  <2> QED  BY <1>1, <2>1 DEF FindingsNeverOvercounted
<1>3. ASSUME row.status = "completed", causes = {} PROVE row.findings = Total(findingRows)
  <2>0. Serial
    BY <1>3 DEF QueueOrder, Met
  <2>1. main = "ended" /\ \A r \in Run : (r < run \/ r = run) => writer[r].step = "ended"
    BY <1>3, <2>0 DEF Serial, Behind
  <2>2. \A r \in Run : writer[r].step \in {"ended", "polling"}
    <3>0. Idle.step = "polling"
      BY DEF Idle
    <3> HIDE DEF Idle
    <3>1. \A r \in Run : ~Started(r) => writer[r].step = "polling"
      BY <2>0, <3>0 DEF Serial
    <3>2. \A r \in Run : Started(r) => r < run \/ r = run
      BY <2>0, StartedThen DEF Serial
    <3> QED  BY <2>1, <3>1, <3>2
  <2>3. Pending = 0
    BY <2>2, PendingType DEF QueueTyped, AtTurn
  <2>4. row.findings + Pending = Total(findingRows)
    BY <1>3, <2>2 DEF FindingsCounted
  <2> QED  BY <1>1, <2>3, <2>4
<1> QED  BY <1>2, <1>3

-----------------------------------------------------------------------------
(* What the pipeline handed over is written, queued or in hand.            *)

\* Nothing was dropped and no thread was given up.
Calm == causes \subseteq {"stale save"}

Feeding == main \in {"queued", "fetched", "feeding"}

\* An item of this kind about these hosts is in the queue; the sentinel is at its end.
Queued(q, kind, hs) == \E i \in 1 .. Len(q) : q[i].kind = kind /\ q[i].hosts = hs
SentinelLast(q) == \A i \in 1 .. Len(q) : q[i].kind = "sentinel" => i = Len(q)
NoSentinel(q) == \A i \in 1 .. Len(q) : q[i].kind # "sentinel"

Done(h) == portRows[h] = Ports[h] /\ findingRows[h] >= Findings[h]

\* The result of h in the hands of the thread w: what it is past is written.
InHand(w, h) ==
    /\ w.step \in {"hosts", "ports", "findings"}
    /\ w.item.kind = "host_result" /\ w.item.hosts = {h}
    /\ w.step = "findings" => portRows[h] = Ports[h] /\ findingRows[h] + w.left >= Findings[h]

\* The queue and the thread of the current execution.
Kept ==
    LET q == queue[run]
        w == writer[run]
    IN  /\ SentinelLast(q) /\ (Feeding => NoSentinel(q))
        /\ w.step = "ended" => q = <<>> /\ ~Feeding
        /\ w.step # "hung" =>
             /\ \A h \in delivered : Done(h) \/ Queued(q, "host_result", {h}) \/ InHand(w, h)
             /\ \/ targets \subseteq hostRows
                \/ Queued(q, "discovery", targets)
                \/ w.step = "hosts" /\ w.item.kind = "discovery" /\ w.item.hosts = targets

ResultsKept == Calm => Kept

\* What Append and Tail do to what is queued.
LEMMA AppendFacts ==
    ASSUME NEW q \in Seq(Item), NEW it \in Item
    PROVE  /\ \A kind, hs : Queued(q, kind, hs) => Queued(Append(q, it), kind, hs)
           /\ Queued(Append(q, it), it.kind, it.hosts)
           /\ NoSentinel(q) => SentinelLast(Append(q, it))
           /\ NoSentinel(q) /\ it.kind # "sentinel" => NoSentinel(Append(q, it))
<1>1. /\ Len(Append(q, it)) = Len(q) + 1 /\ Len(q) \in Nat
      /\ \A i \in 1 .. Len(q) : Append(q, it)[i] = q[i]
      /\ Append(q, it)[Len(q) + 1] = it
  OBVIOUS
<1> DEFINE p == Append(q, it)
<1> HIDE DEF p
<1>2. \A i \in 1 .. Len(p) : i \in 1 .. Len(q) \/ i = Len(p)
  BY <1>1 DEF p
<1>3. \A i \in 1 .. Len(q) : i \in 1 .. Len(p)
  BY <1>1 DEF p
<1>4. Len(p) \in 1 .. Len(p) /\ p[Len(p)] = it
  BY <1>1 DEF p
<1>5. \A i \in 1 .. Len(q) : p[i] = q[i]
  BY <1>1 DEF p
<1>6. \A kind, hs : Queued(q, kind, hs) => Queued(p, kind, hs)
  BY <1>3, <1>5 DEF Queued
<1>7. Queued(p, it.kind, it.hosts)
  BY <1>4 DEF Queued
<1>8. NoSentinel(q) => SentinelLast(p)
  BY <1>2, <1>5 DEF NoSentinel, SentinelLast
<1>9. NoSentinel(q) /\ it.kind # "sentinel" => NoSentinel(p)
  BY <1>2, <1>4, <1>5 DEF NoSentinel
<1> QED  BY <1>6, <1>7, <1>8, <1>9 DEF p

\* Taking the first item away.
LEMMA TailFacts ==
    ASSUME NEW q \in Seq(Item), q # <<>>
    PROVE  /\ \A kind, hs : Queued(q, kind, hs) =>
                Queued(Tail(q), kind, hs) \/ (Head(q).kind = kind /\ Head(q).hosts = hs)
           /\ Head(q) \in Item
           /\ SentinelLast(q) => SentinelLast(Tail(q)) /\ (Head(q).kind = "sentinel" => Tail(q) = <<>>)
           /\ NoSentinel(q) => NoSentinel(Tail(q)) /\ Head(q).kind # "sentinel"
<1>1. /\ Len(Tail(q)) = Len(q) - 1 /\ Len(q) \in Nat /\ Len(q) >= 1 /\ Head(q) = q[1] /\ Head(q) \in Item
      /\ \A i \in 1 .. Len(q) - 1 : Tail(q)[i] = q[i + 1]
      /\ Tail(q) \in Seq(Item)
  OBVIOUS
<1> DEFINE p == Tail(q)
<1> HIDE DEF p
<1>2. \A i \in 1 .. Len(q) : i = 1 \/ (i - 1 \in 1 .. Len(p) /\ p[i - 1] = q[i])
  <2> TAKE i \in 1 .. Len(q)
  <2>1. i # 1 => i - 1 \in 1 .. Len(q) - 1 /\ (i - 1) + 1 = i
    BY <1>1
  <2> QED  BY <1>1, <2>1 DEF p
<1>3. \A i \in 1 .. Len(p) : i + 1 \in 1 .. Len(q) /\ p[i] = q[i + 1] /\ (i + 1 = Len(q) => i = Len(p))
  <2> DEFINE n == Len(q)
  <2>1. n \in Nat /\ Len(p) = n - 1 /\ \A i \in 1 .. n - 1 : p[i] = q[i + 1]
    BY <1>1 DEF p
  <2> HIDE DEF n
  <2>2. \A i \in 1 .. n - 1 : i + 1 \in 1 .. n /\ (i + 1 = n => i = n - 1)
    BY <2>1
  <2> QED  BY <2>1, <2>2 DEF n
<1>4. 1 \in 1 .. Len(q) /\ (1 = Len(q) => p = <<>>)
  BY <1>1 DEF p
<1>5. \A kind, hs : Queued(q, kind, hs) => Queued(p, kind, hs) \/ (Head(q).kind = kind /\ Head(q).hosts = hs)
  BY <1>1, <1>2 DEF Queued
<1>6. SentinelLast(q) => SentinelLast(p)
  BY <1>3 DEF SentinelLast
<1>7. SentinelLast(q) /\ Head(q).kind = "sentinel" => p = <<>>
  BY <1>1, <1>4 DEF SentinelLast
<1>8. NoSentinel(q) => NoSentinel(p) /\ Head(q).kind # "sentinel"
  BY <1>1, <1>3, <1>4 DEF NoSentinel
<1> QED  BY <1>1, <1>5, <1>6, <1>7, <1>8 DEF p

\* An empty queue.
LEMMA EmptyFacts == SentinelLast(<<>>) /\ NoSentinel(<<>>) /\ \A kind, hs : ~Queued(<<>>, kind, hs)
BY DEF SentinelLast, NoSentinel, Queued

\* Steps that leave the thread at work and the tables alone.
LEMMA OthersKeep ==
    ASSUME QueueTyped, QueueOrder, ResultsKept, MainStep \/ FeedStep \/ Kill \/ PortalStep
    PROVE  ResultsKept'
<1> SUFFICES ASSUME Calm' PROVE Kept'
  BY DEF ResultsKept
<1>1. /\ run \in Run /\ causes \subseteq Cause /\ queue \in [Run -> Seq(Item)] /\ writer \in [Run -> Thread]
      /\ row \in Row /\ copy \in Row /\ (portal # <<>> => portal[1].copy \in Row)
  BY InstancesAreRows DEF QueueTyped, AtTurn, RowsTyped, MainTyped, ThreadsTyped, Instances
<1>17. Serial /\ ~Met /\ ~Met' /\ causes \subseteq causes'
  <2>1. Next
    BY DEF Next
  <2>2. ~Met'
    BY DEF Calm, Met
  <2> QED  BY <2>1, <2>2, CausesStay DEF QueueOrder
<1>2. causes \subseteq causes' => Kept
  BY DEF ResultsKept, Calm
<1>3. ASSUME causes \subseteq causes', UNCHANGED <<tables, targets, delivered, writer, queue, run>>,
             main' \in {"queued", "fetched", "feeding"} => Feeding
      PROVE  Kept'
  <2>1. Kept
    BY <1>2, <1>3
  <2>2. Feeding' => Feeding
    BY <1>3 DEF Feeding
  <2>3. \A h : Done(h)' = Done(h)
    BY <1>3 DEF Done, tables
  <2>4. \A h : InHand(writer[run], h)' = InHand(writer[run], h)
    BY <1>3 DEF InHand, tables
  <2> QED  BY <1>3, <2>1, <2>2, <2>3, <2>4 DEF Kept, tables
<1>4. ASSUME NEW c \in Row, NEW s \in {"pending", "running", "completed", "failed", "cancelled"},
             Save([c EXCEPT !.status = s])
      PROVE  causes \subseteq causes'
  BY <1>1, <1>4, SavedStatus
<1>5. CASE Fetch \/ Joined \/ Refresh
  BY <1>3, <1>5 DEF Fetch, Joined, Refresh, feedVars, threads, Feeding
<1>6. CASE MarkRunning
  BY <1>1, <1>3, <1>4, <1>6 DEF MarkRunning, feedVars, threads, Feeding
<1>7. CASE Complete \/ Fail
  <2>1. causes \subseteq causes'
    BY <1>1, <1>4, <1>7 DEF Complete, Fail
  <2> QED  BY <1>3, <1>7, <2>1 DEF Complete, Fail, feedVars, threads, Feeding
<1>8. CASE DrainTimesOut \/ Kill
  <2>1. "drain timed out" \in causes' \/ "item dropped" \in causes'
    BY <1>8, <1>17 DEF DrainTimesOut, Kill, Record, Met
  <2> QED  BY <2>1 DEF Calm
<1>9. CASE ReadScan \/ MarkLaunched
  BY <1>3, <1>9 DEF ReadScan, MarkLaunched, feedVars, task, threads, Feeding
<1>10. CASE SaveCancelled
  BY <1>1, <1>3, <1>4, <1>10 DEF SaveCancelled, feedVars, task, threads, Feeding
<1>11. ASSUME NEW it \in Item, Put(it), main = "feeding", UNCHANGED <<tables, run, writer, causes>>,
              it.kind = "sentinel" => main' = "draining", it.kind # "sentinel" => main' = "feeding",
              \A h \in delivered' : h \in delivered \/ (it.kind = "host_result" /\ it.hosts = {h}),
              targets' = targets \/ (it.kind = "discovery" /\ it.hosts = targets')
       PROVE  Kept'
  <2> DEFINE q == queue[run]
             w == writer[run]
  <2>1. q \in Seq(Item) /\ queue'[run'] = Append(q, it) /\ writer'[run'] = w
    BY <1>1, <1>11, PutFacts DEF QueueTyped, AtTurn
  <2>2. Kept
    BY <1>2, <1>11
  <2>3. Feeding /\ (Feeding' => it.kind # "sentinel")
    BY <1>11 DEF Feeding
  <2>4. w.step # "ended" /\ NoSentinel(q)
    BY <2>2, <2>3 DEF Kept
  <2>5. SentinelLast(Append(q, it)) /\ (Feeding' => NoSentinel(Append(q, it)))
    BY <2>1, <2>3, <2>4, AppendFacts
  <2>6. \A h : Done(h)' = Done(h)
    BY <1>11 DEF Done, tables
  <2>7. ASSUME w.step # "hung", NEW h \in delivered'
        PROVE  Done(h)' \/ Queued(Append(q, it), "host_result", {h}) \/ InHand(writer[run], h)'
    <3>1. CASE h \in delivered
      <4>1. Done(h) \/ Queued(q, "host_result", {h}) \/ InHand(w, h)
        BY <2>2, <2>7, <3>1 DEF Kept
      <4>2. InHand(w, h) => InHand(writer[run], h)'
        BY <1>11 DEF InHand, tables
      <4> QED  BY <2>1, <2>6, <4>1, <4>2, AppendFacts
    <3>2. CASE it.kind = "host_result" /\ it.hosts = {h}
      BY <2>1, <3>2, AppendFacts
    <3> QED  BY <1>11, <3>1, <3>2
  <2>8. ASSUME w.step # "hung"
        PROVE  \/ targets' \subseteq hostRows'
               \/ Queued(Append(q, it), "discovery", targets')
               \/ w.step = "hosts" /\ w.item.kind = "discovery" /\ w.item.hosts = targets'
    <3>1. CASE targets' = targets
      BY <1>11, <2>1, <2>2, <2>8, <3>1, AppendFacts DEF Kept, tables
    <3>2. CASE it.kind = "discovery" /\ it.hosts = targets'
      BY <2>1, <3>2, AppendFacts
    <3> QED  BY <1>11, <3>1, <3>2
  <2> QED  BY <2>1, <2>4, <2>5, <2>7, <2>8 DEF Kept
<1>12. ASSUME NEW hs \in SUBSET Host, OnSubnetComplete(hs) PROVE Kept'
  <2> DEFINE it == [kind |-> "subnet_hosts", hosts |-> hs]
  <2>1. it \in Item /\ it.kind = "subnet_hosts" /\ Put(it)
    BY <1>12, ItemFacts DEF OnSubnetComplete
  <2> HIDE DEF it
  <2> QED  BY <1>11, <1>12, <2>1 DEF OnSubnetComplete, Feed!Report, task, tables
<1>13. ASSUME NEW hs \in SUBSET Host, OnDiscoveryComplete(hs) PROVE Kept'
  <2> DEFINE it == [kind |-> "discovery", hosts |-> hs]
  <2>1. it \in Item /\ it.kind = "discovery" /\ it.hosts = hs /\ Put(it)
    BY <1>13, ItemFacts DEF OnDiscoveryComplete
  <2> HIDE DEF it
  <2> QED  BY <1>11, <1>13, <2>1 DEF OnDiscoveryComplete, Feed!Announce, task, tables
<1>14. ASSUME NEW h \in Host, OnHostComplete(h) PROVE Kept'
  <2> DEFINE it == [kind |-> "host_result", hosts |-> {h}]
  <2>1. it \in Item /\ it.kind = "host_result" /\ it.hosts = {h} /\ Put(it)
    BY <1>14, ItemFacts DEF OnHostComplete
  <2> HIDE DEF it
  <2> QED  BY <1>11, <1>14, <2>1 DEF OnHostComplete, Feed!Deliver, task, tables
<1>15. CASE EndFeed
  <2>1. Sentinel \in Item /\ Sentinel.kind = "sentinel"
    BY ItemFacts
  <2> HIDE DEF Sentinel
  <2> QED  BY <1>11, <1>15, <2>1 DEF EndFeed, Feed!End, tables
<1>16. CASE SavePending
  <2>0. main = "ended"
    <3>1. causes' # {"executions met"}
      BY <1>17 DEF Met
    <3> QED  BY <1>16, <3>1 DEF SavePending
  <2>1. /\ run' = run + 1 /\ delivered' = {} /\ targets' = {} /\ queue' = queue /\ writer' = writer
        /\ run < MaxRuns
    BY <1>16, <1>17, <2>0 DEF SavePending, Serial, TakeUp, Sent, threads
  <2>2. run' \in Run /\ ~(run' < run) /\ run' # run
    BY <1>1, <2>1, BoundAssumption, SMT DEF Run
  <2>3. writer'[run'] = Idle /\ queue'[run'] = <<>>
    <3> HIDE DEF Idle
    <3>1. ~Started(run')
      BY <1>17, <2>2, StartedThen DEF Serial
    <3> QED  BY <1>17, <2>1, <2>2, <3>1 DEF Serial
  <2>4. Idle.step = "polling"
    BY DEF Idle
  <2> HIDE DEF Idle
  <2> QED  BY <2>1, <2>3, <2>4, EmptyFacts DEF Kept
<1> QED
  BY <1>5, <1>6, <1>7, <1>8, <1>9, <1>10, <1>12, <1>13, <1>14, <1>15, <1>16 DEF MainStep, FeedStep, PortalStep

\* Steps of the thread at work.
LEMMA ThreadsKeep ==
    ASSUME QueueTyped, QueueOrder, ResultsKept, NEW r \in Run,
           WriterStep(r) \/ WriteFails(r) \/ WriterHangs(r)
    PROVE  ResultsKept'
<1> SUFFICES ASSUME Calm' PROVE Kept'
  BY DEF ResultsKept
<1> DEFINE q == queue[run]
           w == writer[run]
<1>1. /\ causes \subseteq causes' /\ r = run /\ run \in Run /\ ~stop[run]
      /\ UNCHANGED <<main, run, delivered, targets>>
      /\ w \in Thread /\ AtItem(w) /\ writer \in [Run -> Thread] /\ queue \in [Run -> Seq(Item)]
      /\ q \in Seq(Item)
  <2>1. causes \subseteq causes' /\ UNCHANGED <<feedVars, task>>
    BY AtWork
  <2>2. "drain timed out" \notin causes /\ ~Met
    BY <2>1 DEF Calm, Met
  <2>3. r = run /\ ~stop[run]
    BY <2>2, AtWork DEF QueueOrder, Serial
  <2> QED  BY <2>1, <2>3 DEF feedVars, task, QueueTyped, AtTurn, MainTyped, ThreadsTyped
<1>2. Kept
  BY <1>1 DEF ResultsKept, Calm
<1>3. Feeding' = Feeding
  BY <1>1 DEF Feeding
<1>4. /\ hostRows \subseteq Host /\ portRows \in [Host -> Nat] /\ findingRows \in [Host -> Nat]
      /\ w.item \in Item /\ w.left \in Nat
      /\ delivered \subseteq Host
  BY <1>1 DEF QueueTyped, AtTurn, RowsTyped, MainTyped, Feed!FeedTypeOK, Thread
<1>5. ASSUME queue' = queue, writer'[run].step \notin {"ended", "hung"}, w.step \notin {"ended", "hung"},
             hostRows \subseteq hostRows', \A h \in Host : Done(h) => Done(h)',
             \A h \in Host : InHand(w, h) => Done(h)' \/ InHand(writer[run], h)',
             w.step = "hosts" /\ w.item.kind = "discovery" /\ w.item.hosts = targets => targets \subseteq hostRows'
      PROVE  Kept'
  <2>1. ASSUME NEW h \in delivered
        PROVE  Done(h)' \/ Queued(q, "host_result", {h}) \/ InHand(writer[run], h)'
    BY <1>2, <1>4, <1>5, <2>1 DEF Kept
  <2>2. targets \subseteq hostRows' \/ Queued(q, "discovery", targets)
    BY <1>2, <1>5 DEF Kept
  <2> QED  BY <1>1, <1>2, <1>3, <1>5, <2>1, <2>2 DEF Kept
<1>6. ASSUME UNCHANGED tables PROVE \A h : Done(h)' = Done(h)
  BY <1>6 DEF Done, tables
<1>7. ASSUME NEW s \in Step, To(r, s),
             LET v == [step |-> s, item |-> w.item, left |-> w.left] IN AtItem(v)
      PROVE  writer'[run].step = s /\ writer'[run].item = w.item /\ writer'[run].left = w.left
  BY <1>1, <1>7, ToFacts DEF QueueTyped, AtTurn
<1>8. CASE CheckStop(r) \/ GetNothing(r)
  <2>1. PICK s \in {"getting", "polling"} : To(r, s)
    BY <1>1, <1>8 DEF CheckStop, GetNothing
  <2>2. writer'[run].step = s
    BY <1>7, <2>1 DEF Step, AtItem
  <2>3. w.step \in {"polling", "getting"} /\ queue' = queue /\ UNCHANGED tables
    BY <1>1, <1>8 DEF CheckStop, GetNothing
  <2>4. \A h \in Host : ~InHand(w, h)
    BY <2>3 DEF InHand
  <2> QED  BY <1>5, <1>6, <2>2, <2>3, <2>4 DEF tables
<1>9. CASE Get(r)
  <2>1. /\ w.step = "getting" /\ q # <<>> /\ queue'[run] = Tail(q) /\ UNCHANGED tables
    BY <1>1, <1>9 DEF Get
  <2> DEFINE it == Head(q)
  <2>2. /\ writer'[run].step = (IF it.kind = "sentinel" THEN "ended" ELSE "hosts")
        /\ writer'[run].item = it
    BY <1>1, <1>9 DEF Get
  <2>3. /\ it \in Item /\ SentinelLast(Tail(q)) /\ (it.kind = "sentinel" => Tail(q) = <<>>)
        /\ NoSentinel(q) => NoSentinel(Tail(q)) /\ it.kind # "sentinel"
        /\ \A kind, hs : Queued(q, kind, hs) =>
                Queued(Tail(q), kind, hs) \/ (it.kind = kind /\ it.hosts = hs)
    <3>1. SentinelLast(q)
      BY <1>2 DEF Kept
    <3> QED  BY <1>1, <2>1, <3>1, TailFacts
  <2> HIDE DEF it
  <2>4. ASSUME NEW h \in delivered
        PROVE  Done(h)' \/ Queued(Tail(q), "host_result", {h}) \/ InHand(writer[run], h)'
    <3>1. Done(h) \/ Queued(q, "host_result", {h})
      BY <1>2, <2>1 DEF Kept, InHand
    <3>2. CASE it.kind = "host_result" /\ it.hosts = {h}
      BY <1>1, <2>2, <3>2 DEF InHand
    <3> QED  BY <1>6, <2>1, <2>3, <3>1, <3>2
  <2>5. \/ targets \subseteq hostRows'
        \/ Queued(Tail(q), "discovery", targets)
        \/ writer'[run].step = "hosts" /\ writer'[run].item.kind = "discovery" /\ writer'[run].item.hosts = targets
    <3>1. targets \subseteq hostRows \/ Queued(q, "discovery", targets)
      BY <1>2, <2>1 DEF Kept
    <3>2. CASE it.kind = "discovery" /\ it.hosts = targets
      BY <2>2, <3>2
    <3> QED  BY <2>1, <2>3, <3>1, <3>2 DEF tables
  <2>6. writer'[run].step = "ended" => Tail(q) = <<>> /\ ~Feeding
    BY <1>2, <2>2, <2>3 DEF Kept
  <2>7. Feeding => NoSentinel(Tail(q))
    BY <1>2, <2>3 DEF Kept
  <2> QED  BY <1>1, <1>3, <2>1, <2>3, <2>4, <2>5, <2>6, <2>7 DEF Kept
<1>10. \A h \in Host : InHand(w, h) => TheHost(run) = h
  BY DEF InHand, TheHost
<1>11. CASE WriteHosts(r)
  <2>1. PICK s \in {"ports", "findings"} : To(r, s) /\ (s = "ports" <=> w.item.kind = "host_result")
    BY <1>1, <1>11 DEF WriteHosts
  <2>2. w.step = "hosts" /\ queue' = queue /\ portRows' = portRows /\ findingRows' = findingRows
        /\ hostRows' = hostRows \cup w.item.hosts
    BY <1>1, <1>11 DEF WriteHosts
  <2>3. LET v == [step |-> s, item |-> w.item, left |-> w.left] IN AtItem(v)
    BY <1>1, <2>1, <2>2 DEF AtItem
  <2>4. writer'[run].step = s /\ writer'[run].item = w.item /\ writer'[run].left = w.left
    BY <1>7, <2>1, <2>3 DEF Step
  <2>5. \A h \in Host : Done(h)' = Done(h)
    BY <2>2 DEF Done
  <2>6. \A h \in Host : InHand(w, h) => InHand(writer[run], h)'
    BY <1>1, <2>1, <2>4 DEF InHand
  <2> QED  BY <1>5, <2>1, <2>2, <2>4, <2>5, <2>6
<1>12. CASE ReplacePorts(r)
  <2>1. To(r, "findings") /\ w.step = "ports" /\ queue' = queue /\ findingRows' = findingRows
        /\ hostRows' = hostRows /\ portRows' = [portRows EXCEPT ![TheHost(run)] = Ports[TheHost(run)]]
    BY <1>1, <1>12 DEF ReplacePorts
  <2>2. LET v == [step |-> "findings", item |-> w.item, left |-> w.left] IN AtItem(v)
    BY <1>1, <2>1 DEF AtItem
  <2>3. writer'[run].step = "findings" /\ writer'[run].item = w.item /\ writer'[run].left = w.left
    BY <1>7, <2>1, <2>2 DEF Step
  <2>4. \A h \in Host : Done(h) => Done(h)'
    BY <1>4, <2>1 DEF Done
  <2>5. \A h \in Host : InHand(w, h) => InHand(writer[run], h)'
    <3> SUFFICES ASSUME NEW h \in Host, InHand(w, h) PROVE InHand(writer[run], h)'
      OBVIOUS
    <3>1. TheHost(run) = h
      BY <1>10
    <3>2. portRows'[h] = Ports[h]
      BY <1>4, <2>1, <3>1
    <3>3. w.left = Findings[h]
      BY <1>1, <2>1, <3>1 DEF AtItem, InHand, TheHost
    <3>4. findingRows'[h] + w.left >= Findings[h]
      <4>1. findingRows[h] \in Nat /\ Findings[h] \in Nat
        BY <1>4, CountAssumption
      <4> QED  BY <2>1, <3>3, <4>1
    <3> QED  BY <1>1, <2>3, <3>2, <3>4 DEF InHand
  <2> QED  BY <1>5, <2>1, <2>3, <2>4, <2>5
<1>13. CASE WriteFinding(r)
  <2>1. /\ w.step = "findings" /\ w.left > 0 /\ queue' = queue /\ UNCHANGED <<hostRows, portRows>>
        /\ findingRows' = [findingRows EXCEPT ![TheHost(run)] = findingRows[TheHost(run)] + 1]
        /\ writer' = [writer EXCEPT ![run].left = w.left - 1]
    BY <1>1, <1>4, <1>13 DEF WriteFinding
  <2>2. writer'[run].step = "findings" /\ writer'[run].item = w.item /\ writer'[run].left = w.left - 1
    <3>1. writer'[run] = [w EXCEPT !.left = w.left - 1]
      BY <1>1, <2>1
    <3> QED  BY <1>1, <2>1, <3>1 DEF Thread
  <2>3. \A h \in Host : /\ findingRows[h] \in Nat /\ Findings[h] \in Nat
                        /\ h = TheHost(run) => findingRows'[h] = findingRows[h] + 1
                        /\ h # TheHost(run) => findingRows'[h] = findingRows[h]
    BY <1>4, <2>1, CountAssumption
  <2>4. \A h \in Host : Done(h) => Done(h)'
    BY <2>1, <2>3 DEF Done
  <2>5. \A h \in Host : InHand(w, h) => InHand(writer[run], h)'
    <3> SUFFICES ASSUME NEW h \in Host, InHand(w, h) PROVE InHand(writer[run], h)'
      OBVIOUS
    <3>1. findingRows'[h] = findingRows[h] + 1
      BY <1>10, <2>3
    <3>2. findingRows[h] + w.left >= Findings[h] /\ portRows[h] = Ports[h]
      BY <2>1 DEF InHand
    <3>3. findingRows'[h] + (w.left - 1) >= Findings[h]
      BY <1>4, <2>3, <3>1, <3>2
    <3> QED  BY <1>1, <2>1, <2>2, <3>2, <3>3 DEF InHand
  <2> QED  BY <1>5, <2>1, <2>2, <2>4, <2>5
<1>14. Idle.step = "polling" /\ [Idle EXCEPT !.step = "hung"].step = "hung"
  BY DEF Idle
<1>15. CASE Count(r)
  <2>1. /\ w.step = "findings" /\ w.left = 0 /\ queue' = queue /\ UNCHANGED tables
        /\ writer' = [writer EXCEPT ![run] = Idle]
    BY <1>1, <1>15 DEF Count
  <2>2. writer'[run].step = "polling"
    <3> HIDE DEF Idle
    <3> QED  BY <1>1, <1>14, <2>1
  <2>3. \A h \in Host : InHand(w, h) => Done(h)
    <3> SUFFICES ASSUME NEW h \in Host, InHand(w, h) PROVE Done(h)
      OBVIOUS
    <3>1. findingRows[h] \in Nat
      BY <1>4
    <3>2. portRows[h] = Ports[h] /\ findingRows[h] + 0 >= Findings[h]
      BY <2>1 DEF InHand
    <3> QED  BY <3>1, <3>2 DEF Done
  <2> QED  BY <1>5, <1>6, <2>1, <2>2, <2>3 DEF tables
<1>16. CASE WriteFails(r)
  <2>1. "item dropped" \in causes' \/ "executions met" \in causes'
    BY <1>16 DEF WriteFails, Record
  <2> QED  BY <2>1 DEF Calm
<1>17. CASE WriterHangs(r)
  <2>1. /\ writer' = [writer EXCEPT ![run] = [Idle EXCEPT !.step = "hung"]] /\ queue' = queue
    BY <1>1, <1>17 DEF WriterHangs
  <2>2. writer'[run].step = "hung"
    <3> HIDE DEF Idle
    <3> QED  BY <1>1, <1>14, <2>1
  <2> QED  BY <1>1, <1>2, <1>3, <2>1, <2>2 DEF Kept
<1> QED
  BY <1>8, <1>9, <1>11, <1>12, <1>13, <1>15, <1>16, <1>17 DEF WriterStep

\* Every step keeps what was handed over.
LEMMA ResultsKeep == ASSUME QueueTyped, QueueOrder, ResultsKept, [Next]_vars PROVE ResultsKept'
<1>1. CASE Next
  <2>1. ASSUME NEW r \in Run, Turn(r) PROVE ResultsKept'
    <3>1. Met' \/ Serial
      BY CausesStay DEF QueueOrder
    <3> QED  BY <2>1, <3>1, NoTurn DEF ResultsKept, Calm, Met
  <2> QED  BY <1>1, <2>1, OthersKeep, ThreadsKeep DEF Next
<1>2. CASE UNCHANGED vars
  <2>1. UNCHANGED <<hostRows, portRows, findingRows, targets, delivered, writer, queue, run, main, causes>>
    BY <1>2 DEF vars, tables, task, threads, feedVars
  <2>2. \A h : Done(h)' = Done(h)
    BY <2>1 DEF Done
  <2>3. \A h : InHand(writer[run], h)' = InHand(writer[run], h)
    BY <2>1 DEF InHand
  <2> QED  BY <2>1, <2>2, <2>3 DEF ResultsKept, Calm, Kept, Feeding
<1> QED  BY <1>1, <1>2

\* Nothing is handed over at first.
LEMMA KeptStarts == ASSUME Init PROVE ResultsKept
<1>1. run \in Run /\ queue[run] = <<>> /\ writer[run] = Idle /\ delivered = {} /\ targets = {}
  <2>1. 1 \in Run
    BY BoundAssumption, SMT DEF Run
  <2> HIDE DEF Idle
  <2> QED  BY <2>1 DEF Init, Feed!FeedInit
<1>2. Idle.step = "polling"
  BY DEF Idle
<1> HIDE DEF Idle
<1> QED  BY <1>1, <1>2, EmptyFacts DEF ResultsKept, Kept

\* All of it is in the tables when the scan is completed.
LEMMA KeptPromise == ASSUME QueueTyped, QueueOrder, ResultsKept PROVE ResultsPersisted
<1> SUFFICES ASSUME row.status = "completed", causes \subseteq {"stale save"}
    PROVE  /\ targets \subseteq hostRows
           /\ \A h \in delivered : portRows[h] = Ports[h] /\ findingRows[h] >= Findings[h]
  BY DEF ResultsPersisted
<1>1. writer[run].step = "ended" /\ Kept
  BY DEF QueueOrder, Met, Serial, Behind, ResultsKept, Calm
<1>2. queue[run] = <<>>
  BY <1>1 DEF Kept
<1> QED  BY <1>1, <1>2, EmptyFacts DEF Kept, InHand, Done

-----------------------------------------------------------------------------
(* Hosts and ports of a first execution.                                   *)

Result(h) == [kind |-> "host_result", hosts |-> {h}]

\* The items of a queue; a host's result is there once, and no subnet behind a discovery.
ItemsOf(q) == {q[i] : i \in 1 .. Len(q)}
Orderly(q) ==
    \A i, j \in 1 .. Len(q) : i < j =>
      /\ q[i].kind = "host_result" => q[j] # q[i]
      /\ q[i].kind = "discovery" => q[j].kind # "subnet_hosts"

\* The item a thread has in hand, and the one whose ports it has not replaced yet.
Working(w) == IF w.step \in {"hosts", "ports", "findings"} THEN {w.item} ELSE {}
Ahead(w) == IF w.step \in {"hosts", "ports"} THEN {w.item} ELSE {}

\* Ports that are written and not yet counted.
InFlight(w) ==
    IF w.step = "findings" /\ w.item.kind = "host_result"
    THEN Ports[CHOOSE h \in w.item.hosts : TRUE] ELSE 0

\* on_discovery_complete was called, as it is in every feed that goes through.
Announced == feed = "scanning" \/ (feed = "ended" /\ ~raised)

ItemsRight(q, w) ==
    /\ Orderly(q)
    /\ \A it \in ItemsOf(q) \cup Working(w) :
         /\ it.hosts \subseteq reported \cup targets
         /\ it.kind = "discovery" => it.hosts = targets /\ feed # "discovering"
    /\ \A it \in Working(w) : it.kind = "discovery" => \A x \in ItemsOf(q) : x.kind # "subnet_hosts"

PortsRight(q, w) ==
    /\ \A it \in Ahead(w) : it.kind = "host_result" => it \notin ItemsOf(q)
    /\ \A h \in Host : Result(h) \in ItemsOf(q) \cup Ahead(w) => h \in delivered /\ portRows[h] = 0
    /\ \A h \in Host \ delivered : portRows[h] = 0
    /\ row.ports + InFlight(w) = Total(portRows)

HostsRight(q, w) ==
    /\ hostRows \subseteq reported \cup targets
    /\ Announced =>
         /\ reported \subseteq targets
         /\ \/ \E it \in ItemsOf(q) \cup Working(w) : it.kind = "discovery"
            \/ /\ row.hosts = Cardinality(targets)
               /\ \A it \in ItemsOf(q) \cup Working(w) : it.kind # "subnet_hosts"

\* All of it holds in the first execution while no cause is on record and the thread
\* does not hang.
Right ==
    LET q == queue[run]
        w == writer[run]
    IN  ItemsRight(q, w) /\ PortsRight(q, w) /\ HostsRight(q, w)
First1 == run = 1 /\ causes = {} /\ writer[run].step # "hung"
FirstRunRight == First1 => Right

\* What a put adds to the items.
LEMMA PutItems ==
    ASSUME NEW q \in Seq(Item), NEW it \in Item
    PROVE  /\ ItemsOf(Append(q, it)) = ItemsOf(q) \cup {it}
           /\ /\ Orderly(q)
              /\ it.kind = "host_result" => it \notin ItemsOf(q)
              /\ it.kind = "subnet_hosts" => \A x \in ItemsOf(q) : x.kind # "discovery"
              => Orderly(Append(q, it))
<1> DEFINE n == Len(q)
           p == Append(q, it)
<1>1. n \in Nat /\ Len(p) = n + 1 /\ (\A i \in 1 .. n : p[i] = q[i]) /\ p[n + 1] = it
  OBVIOUS
<1>2. ItemsOf(q) = {q[i] : i \in 1 .. n} /\ ItemsOf(p) = {p[i] : i \in 1 .. Len(p)}
  BY DEF ItemsOf
<1>3. Orderly(q) <=> \A i, j \in 1 .. n : i < j =>
        (q[i].kind = "host_result" => q[j] # q[i]) /\ (q[i].kind = "discovery" => q[j].kind # "subnet_hosts")
  BY DEF Orderly
<1> HIDE DEF n, p
<1>4. 1 .. Len(p) = (1 .. n) \cup {n + 1} /\ \A i \in 1 .. n : i < n + 1 /\ ~(n + 1 < i) /\ ~(n + 1 < n + 1)
  BY <1>1
<1>5. ItemsOf(p) = ItemsOf(q) \cup {it}
  BY <1>1, <1>2, <1>4
<1>6. ASSUME Orderly(q), it.kind = "host_result" => it \notin ItemsOf(q),
             it.kind = "subnet_hosts" => \A x \in ItemsOf(q) : x.kind # "discovery",
             NEW i \in 1 .. Len(p), NEW j \in 1 .. Len(p), i < j
      PROVE  (p[i].kind = "host_result" => p[j] # p[i]) /\ (p[i].kind = "discovery" => p[j].kind # "subnet_hosts")
  <2>1. i \in 1 .. n /\ (j \in 1 .. n \/ j = n + 1)
    BY <1>1, <1>4, <1>6
  <2>2. p[i] = q[i] /\ q[i] \in ItemsOf(q)
    BY <1>1, <1>2, <2>1
  <2>3. CASE j \in 1 .. n
    BY <1>1, <1>3, <1>6, <2>1, <2>2, <2>3
  <2>4. CASE j = n + 1
    BY <1>1, <1>6, <2>2, <2>4
  <2> QED  BY <2>1, <2>3, <2>4
<1>7. Orderly(p) <=> \A i, j \in 1 .. Len(p) : i < j =>
        (p[i].kind = "host_result" => p[j] # p[i]) /\ (p[i].kind = "discovery" => p[j].kind # "subnet_hosts")
  BY DEF Orderly
<1> QED  BY <1>5, <1>6, <1>7 DEF p

\* What a get takes.
LEMMA GetItems ==
    ASSUME NEW q \in Seq(Item), q # <<>>
    PROVE  /\ ItemsOf(q) = ItemsOf(Tail(q)) \cup {Head(q)}
           /\ Orderly(q) =>
                /\ Orderly(Tail(q))
                /\ Head(q).kind = "host_result" => Head(q) \notin ItemsOf(Tail(q))
                /\ Head(q).kind = "discovery" => \A x \in ItemsOf(Tail(q)) : x.kind # "subnet_hosts"
<1> DEFINE n == Len(q)
           p == Tail(q)
<1>1. n \in Nat /\ n >= 1 /\ Len(p) = n - 1 /\ (\A i \in 1 .. n - 1 : p[i] = q[i + 1]) /\ Head(q) = q[1]
  OBVIOUS
<1>2. ItemsOf(q) = {q[i] : i \in 1 .. n} /\ ItemsOf(p) = {p[i] : i \in 1 .. Len(p)}
  BY DEF ItemsOf
<1>3. Orderly(q) <=> \A i, j \in 1 .. n : i < j =>
        (q[i].kind = "host_result" => q[j] # q[i]) /\ (q[i].kind = "discovery" => q[j].kind # "subnet_hosts")
  BY DEF Orderly
<1>4. Orderly(p) <=> \A i, j \in 1 .. Len(p) : i < j =>
        (p[i].kind = "host_result" => p[j] # p[i]) /\ (p[i].kind = "discovery" => p[j].kind # "subnet_hosts")
  BY DEF Orderly
<1> HIDE DEF n, p
<1>5. /\ \A i \in 1 .. n - 1 : i + 1 \in 1 .. n /\ 1 < i + 1
      /\ \A i \in 1 .. n : i = 1 \/ (i - 1 \in 1 .. n - 1 /\ (i - 1) + 1 = i)
      /\ \A i, j \in 1 .. n - 1 : i < j => i + 1 < j + 1
      /\ 1 \in 1 .. n
  BY <1>1
<1>6. ItemsOf(q) = ItemsOf(p) \cup {Head(q)}
  <2>1. \A x \in ItemsOf(q) : x \in ItemsOf(p) \/ x = Head(q)
    <3> TAKE x \in ItemsOf(q)
    <3>1. PICK i \in 1 .. n : x = q[i]
      BY <1>2
    <3>2. i # 1 => i - 1 \in 1 .. Len(p) /\ p[i - 1] = q[i]
      BY <1>1, <1>5
    <3> QED  BY <1>1, <1>2, <3>1, <3>2
  <2>2. \A x \in ItemsOf(p) : x \in ItemsOf(q)
    BY <1>1, <1>2, <1>5
  <2> QED  BY <1>1, <1>2, <1>5, <2>1, <2>2
<1>7. ASSUME Orderly(q)
      PROVE  /\ Orderly(p)
             /\ Head(q).kind = "host_result" => Head(q) \notin ItemsOf(p)
             /\ Head(q).kind = "discovery" => \A x \in ItemsOf(p) : x.kind # "subnet_hosts"
  <2>1. Orderly(p)
    <3>1. ASSUME NEW i \in 1 .. Len(p), NEW j \in 1 .. Len(p), i < j
          PROVE  (p[i].kind = "host_result" => p[j] # p[i]) /\ (p[i].kind = "discovery" => p[j].kind # "subnet_hosts")
      <4>1. i \in 1 .. n - 1 /\ j \in 1 .. n - 1
        BY <1>1
      <4>2. p[i] = q[i + 1] /\ p[j] = q[j + 1] /\ i + 1 \in 1 .. n /\ j + 1 \in 1 .. n /\ i + 1 < j + 1
        BY <1>1, <1>5, <3>1, <4>1
      <4> QED  BY <1>3, <1>7, <4>2
    <3> QED  BY <1>4, <3>1
  <2>2. \A x \in ItemsOf(p) : \E j \in 1 .. n : 1 < j /\ x = q[j]
    BY <1>1, <1>2, <1>5
  <2> QED  BY <1>1, <1>3, <1>5, <1>7, <2>1, <2>2
<1> QED  BY <1>6, <1>7 DEF p

\* An empty queue has no items.
LEMMA NoItems == ItemsOf(<<>>) = {} /\ Orderly(<<>>)
BY DEF ItemsOf, Orderly

\* The three parts stay right when what they are about stays.
LEMMA RightStays ==
    ASSUME run \in Run, Right, UNCHANGED <<tables, feed, reported, targets, delivered, writer, queue, run>>,
           raised' = raised \/ raised' = TRUE, row'.hosts = row.hosts, row'.ports = row.ports
    PROVE  Right'
<1>1. Announced' => Announced
  BY DEF Announced
<1>2. ItemsRight(queue[run], writer[run])'
  BY DEF Right, ItemsRight
<1>3. PortsRight(queue[run], writer[run])'
  BY DEF Right, PortsRight, tables
<1>4. HostsRight(queue[run], writer[run])'
  BY <1>1 DEF Right, HostsRight, tables
<1> QED  BY <1>2, <1>3, <1>4 DEF Right

\* The steps of the pipeline put items in their order.
LEMMA FeedRight ==
    ASSUME QueueTyped, Right, FeedStep \/ EndFeed
    PROVE  Right'
<1>1. PICK q : q = queue[run]
  OBVIOUS
<1>2. PICK w : w = writer[run]
  OBVIOUS
<1>3. /\ run \in Run /\ q \in Seq(Item) /\ feed \in {"discovering", "scanning", "ended"}
      /\ feed = "discovering" => targets = {} /\ delivered = {}
  BY <1>1 DEF QueueTyped, AtTurn, MainTyped, ThreadsTyped, Feed!FeedTypeOK
<1>4. ItemsRight(q, w) /\ PortsRight(q, w) /\ HostsRight(q, w)
  BY <1>1, <1>2 DEF Right
<1>5. \A h \in Host : Result(h) \in Item /\ Result(h).kind = "host_result" /\ Result(h).hosts = {h}
  BY ItemFacts DEF Result
<1>6. feed = "discovering" => \A x \in ItemsOf(q) \cup Working(w) : x.kind # "discovery"
  BY <1>4 DEF ItemsRight
<1>7. ASSUME NEW it \in Item, Put(it), it.kind = "host_result" => it \notin ItemsOf(q),
             it.kind = "subnet_hosts" => \A x \in ItemsOf(q) : x.kind # "discovery"
      PROVE  /\ ItemsOf(queue'[run]) = ItemsOf(q) \cup {it}
             /\ Orderly(queue'[run])
  <2>1. queue'[run] = Append(q, it)
    BY <1>1, <1>3, <1>7, PutFacts DEF QueueTyped, AtTurn
  <2>2. Orderly(q)
    BY <1>4 DEF ItemsRight
  <2> QED  BY <1>3, <1>7, <2>1, <2>2, PutItems
<1>8. ASSUME NEW hs \in SUBSET Host, OnSubnetComplete(hs) PROVE Right'
  <2> DEFINE it == [kind |-> "subnet_hosts", hosts |-> hs]
  <2>1. it \in Item /\ it.kind = "subnet_hosts" /\ it.hosts = hs /\ Put(it)
    BY <1>8, ItemFacts DEF OnSubnetComplete
  <2>2. /\ feed = "discovering" /\ reported' = reported \cup hs
        /\ UNCHANGED <<row, tables, feed, targets, delivered, run, raised, writer>>
    BY <1>8 DEF OnSubnetComplete, Feed!Report, task
  <2> HIDE DEF it
  <2>3. ItemsOf(queue'[run]) = ItemsOf(q) \cup {it} /\ Orderly(queue'[run]) /\ writer'[run] = w
    BY <1>2, <1>6, <1>7, <2>1, <2>2
  <2>4. \A h \in Host : it # Result(h)
    BY <1>5, <2>1
  <2>5. ItemsRight(queue[run], writer[run])'
    BY <1>4, <1>6, <2>1, <2>2, <2>3 DEF ItemsRight
  <2>6. PortsRight(queue[run], writer[run])'
    BY <1>4, <2>1, <2>2, <2>3, <2>4 DEF PortsRight, tables
  <2>7. ~Announced' /\ hostRows' \subseteq reported' \cup targets'
    BY <1>4, <2>2 DEF Announced, HostsRight, tables
  <2> QED  BY <2>5, <2>6, <2>7 DEF Right, HostsRight
<1>9. ASSUME NEW hs \in SUBSET Host, OnDiscoveryComplete(hs) PROVE Right'
  <2> DEFINE it == [kind |-> "discovery", hosts |-> hs]
  <2>1. it \in Item /\ it.kind = "discovery" /\ it.hosts = hs /\ Put(it)
    BY <1>9, ItemFacts DEF OnDiscoveryComplete
  <2>2. /\ feed = "discovering" /\ reported \subseteq hs /\ feed' = "scanning" /\ targets' = hs
        /\ UNCHANGED <<row, tables, reported, delivered, run, raised, writer>>
    BY <1>9 DEF OnDiscoveryComplete, Feed!Announce, task
  <2> HIDE DEF it
  <2>3. ItemsOf(queue'[run]) = ItemsOf(q) \cup {it} /\ Orderly(queue'[run]) /\ writer'[run] = w
    BY <1>2, <1>7, <2>1, <2>2
  <2>4. \A h \in Host : it # Result(h)
    BY <1>5, <2>1
  <2>5. reported \cup targets \subseteq hs
    BY <1>3, <2>2
  <2>6. ItemsRight(queue[run], writer[run])'
    BY <1>4, <1>6, <2>1, <2>2, <2>3, <2>5 DEF ItemsRight
  <2>7. PortsRight(queue[run], writer[run])'
    BY <1>4, <2>1, <2>2, <2>3, <2>4 DEF PortsRight, tables
  <2>8. HostsRight(queue[run], writer[run])'
    BY <1>4, <2>1, <2>2, <2>3, <2>5 DEF HostsRight, tables
  <2> QED  BY <2>6, <2>7, <2>8 DEF Right
<1>10. ASSUME NEW h \in Host, OnHostComplete(h) PROVE Right'
  <2> DEFINE it == Result(h)
  <2>1. it \in Item /\ it.kind = "host_result" /\ it.hosts = {h} /\ Put(it)
    BY <1>5, <1>10 DEF OnHostComplete, Result
  <2>2. /\ feed = "scanning" /\ h \in targets \ delivered /\ delivered' = delivered \cup {h}
        /\ UNCHANGED <<row, tables, feed, reported, targets, run, raised, writer>>
    BY <1>10 DEF OnHostComplete, Feed!Deliver, task
  <2>3. it \notin ItemsOf(q) \cup Ahead(w) /\ portRows[h] = 0
    BY <1>4, <2>2 DEF PortsRight
  <2>4. \A g \in Host : it = Result(g) => g = h
    BY <1>5
  <2> HIDE DEF it
  <2>5. ItemsOf(queue'[run]) = ItemsOf(q) \cup {it} /\ Orderly(queue'[run]) /\ writer'[run] = w
    BY <1>2, <1>7, <2>1, <2>2, <2>3
  <2>6. ItemsRight(queue[run], writer[run])'
    BY <1>4, <2>1, <2>2, <2>5 DEF ItemsRight
  <2>7. PortsRight(queue[run], writer[run])'
    BY <1>4, <2>1, <2>2, <2>3, <2>4, <2>5 DEF PortsRight, tables
  <2>8. HostsRight(queue[run], writer[run])'
    BY <1>4, <2>1, <2>2, <2>5 DEF HostsRight, tables, Announced
  <2> QED  BY <2>6, <2>7, <2>8 DEF Right
<1>11. CASE EndFeed
  <2>1. Sentinel \in Item /\ Sentinel.kind = "sentinel" /\ Sentinel.hosts = {}
    BY ItemFacts DEF Sentinel
  <2>2. /\ Put(Sentinel) /\ feed' = "ended" /\ feed # "ended" /\ (feed = "discovering" => raised' = TRUE)
        /\ UNCHANGED <<row, tables, reported, targets, delivered, run, writer>>
    BY <1>11 DEF EndFeed, Feed!End
  <2>3. \A h \in Host : Sentinel # Result(h)
    BY <1>5, <2>1
  <2> HIDE DEF Sentinel
  <2>4. ItemsOf(queue'[run]) = ItemsOf(q) \cup {Sentinel} /\ Orderly(queue'[run]) /\ writer'[run] = w
    BY <1>2, <1>7, <2>1, <2>2
  <2>5. ItemsRight(queue[run], writer[run])'
    BY <1>4, <2>1, <2>2, <2>4 DEF ItemsRight
  <2>6. PortsRight(queue[run], writer[run])'
    BY <1>4, <2>1, <2>2, <2>3, <2>4 DEF PortsRight, tables
  <2>7. Announced' => Announced
    BY <1>3, <2>2 DEF Announced
  <2>8. HostsRight(queue[run], writer[run])'
    BY <1>4, <2>1, <2>2, <2>4, <2>7 DEF HostsRight, tables
  <2> QED  BY <2>5, <2>6, <2>8 DEF Right
<1> QED  BY <1>8, <1>9, <1>10, <1>11 DEF FeedStep

\* All steps but the threads'.
LEMMA OthersRight ==
    ASSUME QueueTyped, FirstRunRight, MainStep \/ FeedStep \/ Kill \/ PortalStep
    PROVE  FirstRunRight'
<1> SUFFICES ASSUME First1' PROVE Right'
  BY DEF FirstRunRight
<1>1. /\ run \in Run /\ run \in Nat /\ causes \subseteq Cause /\ row \in Row /\ copy \in Row
      /\ (portal # <<>> => portal[1].copy \in Row)
  BY InstancesAreRows DEF QueueTyped, AtTurn, RowsTyped, MainTyped, Instances, Run
<1>2. run' = 1 /\ causes' = {} /\ writer'[run'].step # "hung"
  BY DEF First1
<1>3. ASSUME run' = run, writer' = writer, causes \subseteq causes' PROVE Right
  <2>1. causes = {}
    BY <1>2, <1>3
  <2> QED  BY <1>2, <1>3, <2>1 DEF First1, FirstRunRight
<1>4. ASSUME NEW c \in Row, NEW s \in {"pending", "running", "completed", "failed", "cancelled"},
             Save([c EXCEPT !.status = s])
      PROVE  causes \subseteq causes' /\ row'.hosts = row.hosts /\ row'.ports = row.ports
  <2>1. /\ row'.hosts = c.hosts /\ row'.ports = c.ports /\ causes \subseteq causes'
        /\ causes' \cap {"stale save", "executions met"} = {} => Counters(c) = Counters(row)
    BY <1>1, <1>4, SavedStatus
  <2>2. Counters(c) = Counters(row)
    BY <1>2, <2>1
  <2> QED  BY <2>1, <2>2 DEF Counters
<1>5. ASSUME causes \subseteq causes', row'.hosts = row.hosts, row'.ports = row.ports,
             raised' = raised \/ raised' = TRUE,
             UNCHANGED <<tables, feed, reported, targets, delivered, writer, queue, run>>
      PROVE  Right'
  BY <1>1, <1>3, <1>5, RightStays
<1>6. CASE Fetch \/ Joined \/ Refresh
  BY <1>5, <1>6 DEF Fetch, Joined, Refresh, feedVars, threads
<1>7. CASE MarkRunning
  <2>1. causes \subseteq causes' /\ row'.hosts = row.hosts /\ row'.ports = row.ports
    BY <1>1, <1>4, <1>7 DEF MarkRunning
  <2> QED  BY <1>5, <1>7, <2>1 DEF MarkRunning, feedVars, threads
<1>8. CASE Complete \/ Fail
  <2>1. causes \subseteq causes' /\ row'.hosts = row.hosts /\ row'.ports = row.ports
    BY <1>1, <1>4, <1>8 DEF Complete, Fail
  <2> QED  BY <1>5, <1>8, <2>1 DEF Complete, Fail, feedVars, threads
<1>9. CASE DrainTimesOut \/ Kill
  BY <1>2, <1>9 DEF DrainTimesOut, Kill, Record
<1>10. CASE FeedStep \/ EndFeed
  <2>1. UNCHANGED <<run, writer, causes>>
    BY <1>10 DEF FeedStep, OnSubnetComplete, OnDiscoveryComplete, OnHostComplete, EndFeed, task
  <2>2. Right
    BY <1>3, <2>1
  <2> QED  BY <1>10, <2>2, FeedRight
<1>11. CASE ReadScan
  BY <1>5, <1>11 DEF ReadScan, feedVars, task, threads
<1>12. CASE MarkLaunched
  <2>1. row'.hosts = row.hosts /\ row'.ports = row.ports
    BY <1>1, <1>12, StatusSet DEF MarkLaunched
  <2> QED  BY <1>5, <1>12, <2>1 DEF MarkLaunched, feedVars, task, threads
<1>13. CASE SaveCancelled
  <2>1. causes \subseteq causes' /\ row'.hosts = row.hosts /\ row'.ports = row.ports
    BY <1>1, <1>4, <1>13 DEF SaveCancelled
  <2> QED  BY <1>5, <1>13, <2>1 DEF SaveCancelled, feedVars, task, threads
<1>14. CASE SavePending
  <2>1. sent' = sent + 1 /\ (main # "ended" => causes' = {"executions met"}) /\ (main = "ended" => run' = sent')
    BY <1>14 DEF SavePending
  <2>2. sent \in Nat /\ sent >= 1
    BY BoundAssumption, SMT DEF QueueTyped, TurnsTyped, Run
  <2>3. run' = sent + 1
    BY <1>2, <2>1
  <2> QED  BY <1>2, <2>2, <2>3
<1> QED
  BY <1>6, <1>7, <1>8, <1>9, <1>10, <1>11, <1>12, <1>13, <1>14 DEF MainStep, PortalStep

\* The thread takes the items in their order and counts what it has written.
LEMMA ThreadsRight ==
    ASSUME Finite, QueueTyped, QueueOrder, FirstRunRight, NEW r \in Run,
           WriterStep(r) \/ WriteFails(r) \/ WriterHangs(r)
    PROVE  FirstRunRight'
<1> SUFFICES ASSUME First1' PROVE Right'
  BY DEF FirstRunRight
<1>1. PICK q : q = queue[run]
  OBVIOUS
<1>2. PICK w : w = writer[run]
  OBVIOUS
<1>3. PICK v : v = writer'[run]
  OBVIOUS
<1>4. /\ causes = {} /\ r = run /\ run = 1 /\ ~stop[run] /\ v.step # "hung" /\ causes' = {}
      /\ UNCHANGED <<run, feed, reported, targets, delivered, raised>>
      /\ w \in Thread /\ AtItem(w)
      /\ q \in Seq(Item)
  <2>1. causes \subseteq causes' /\ UNCHANGED <<feedVars, task>>
    BY AtWork
  <2>2. causes' = {} /\ run' = 1 /\ writer'[run'].step # "hung"
    BY DEF First1
  <2>3. r = run /\ ~stop[run]
    BY <2>1, <2>2, AtWork DEF QueueOrder, Met, Serial
  <2> QED
    BY <1>1, <1>2, <1>3, <2>1, <2>2, <2>3 DEF feedVars, task, QueueTyped, AtTurn, ThreadsTyped
<1>5. writer \in [Run -> Thread] /\ run \in Run /\ queue \in [Run -> Seq(Item)]
  BY DEF QueueTyped, AtTurn, ThreadsTyped, MainTyped
<1>6. w.step # "hung"
  <2>1. writer[r].step # "hung"
    BY DEF WriterStep, WriteFails, WriterHangs, CheckStop, Get, GetNothing, WriteHosts, ReplacePorts,
           WriteFinding, Count, Writing
  <2> QED  BY <1>2, <1>4, <2>1
<1>7. ItemsRight(q, w) /\ PortsRight(q, w) /\ HostsRight(q, w)
  BY <1>1, <1>2, <1>4, <1>6 DEF FirstRunRight, First1, Right
<1>8. Announced' = Announced
  BY <1>4 DEF Announced
<1>9. /\ row \in Row /\ row.ports \in Nat /\ row.hosts \in Nat /\ hostRows \subseteq Host
      /\ portRows \in [Host -> Nat] /\ Total(portRows) \in Int
      /\ w.item \in Item /\ w.left \in Nat
  BY <1>4, InstancesAreRows, TotalFacts DEF QueueTyped, AtTurn, RowsTyped, Thread
<1>10. ASSUME queue'[run] = q, row' = row, UNCHANGED portRows,
              Working(v) = Working(w), Ahead(v) \subseteq Ahead(w), InFlight(v) = InFlight(w),
              hostRows' \subseteq hostRows \cup reported \cup targets
       PROVE  Right'
  <2>1. ItemsRight(queue[run], writer[run])'
    BY <1>3, <1>4, <1>7, <1>10 DEF ItemsRight
  <2>2. PortsRight(queue[run], writer[run])'
    BY <1>3, <1>4, <1>7, <1>10 DEF PortsRight
  <2>3. HostsRight(queue[run], writer[run])'
    BY <1>3, <1>4, <1>7, <1>8, <1>10 DEF HostsRight
  <2> QED  BY <2>1, <2>2, <2>3 DEF Right
<1>11. ASSUME NEW s \in Step, To(r, s),
              LET u == [step |-> s, item |-> w.item, left |-> w.left] IN AtItem(u)
       PROVE  v.step = s /\ v.item = w.item /\ v.left = w.left
  BY <1>2, <1>3, <1>4, <1>11, ToFacts DEF QueueTyped, AtTurn
<1>12. CASE CheckStop(r) \/ GetNothing(r)
  <2>1. PICK s \in {"getting", "polling"} : To(r, s)
    BY <1>4, <1>12 DEF CheckStop, GetNothing
  <2>2. v.step = s
    BY <1>11, <2>1 DEF Step, AtItem
  <2>3. w.step \in {"polling", "getting"} /\ queue' = queue /\ row' = row /\ UNCHANGED tables
    BY <1>2, <1>4, <1>12 DEF CheckStop, GetNothing
  <2>4. Working(v) = {} /\ Working(w) = {} /\ Ahead(v) = {} /\ InFlight(v) = 0 /\ InFlight(w) = 0
    BY <2>2, <2>3 DEF Working, Ahead, InFlight
  <2> QED  BY <1>1, <1>10, <2>3, <2>4 DEF tables
<1>13. CASE Get(r)
  <2>1. /\ w.step = "getting" /\ q # <<>> /\ queue'[run] = Tail(q) /\ row' = row /\ UNCHANGED tables
    BY <1>1, <1>2, <1>4, <1>5, <1>13 DEF Get
  <2>2. PICK it : it = Head(q)
    OBVIOUS
  <2>3. /\ v.step = (IF it.kind = "sentinel" THEN "ended" ELSE "hosts") /\ v.item = it
    BY <1>1, <1>3, <1>4, <1>5, <1>13, <2>2 DEF Get
  <2>4. /\ ItemsOf(q) = ItemsOf(Tail(q)) \cup {it}
        /\ Orderly(Tail(q))
        /\ it.kind = "host_result" => it \notin ItemsOf(Tail(q))
        /\ it.kind = "discovery" => \A x \in ItemsOf(Tail(q)) : x.kind # "subnet_hosts"
    BY <1>4, <1>7, <2>1, <2>2, GetItems DEF ItemsRight
  <2>5. /\ Working(w) = {} /\ Ahead(w) = {} /\ InFlight(w) = 0 /\ InFlight(v) = 0
        /\ Ahead(v) = Working(v) /\ Working(v) = IF it.kind = "sentinel" THEN {} ELSE {it}
    BY <2>1, <2>3 DEF Working, Ahead, InFlight
  <2>6. ItemsRight(queue[run], writer[run])'
    BY <1>3, <1>4, <1>7, <2>1, <2>4, <2>5 DEF ItemsRight
  <2>7. PortsRight(queue[run], writer[run])'
    BY <1>3, <1>4, <1>7, <2>1, <2>4, <2>5 DEF PortsRight, tables
  <2>8. HostsRight(queue[run], writer[run])'
    BY <1>3, <1>4, <1>7, <1>8, <2>1, <2>4, <2>5 DEF HostsRight, tables
  <2> QED  BY <2>6, <2>7, <2>8 DEF Right
<1>14. CASE WriteHosts(r)
  <2>1. PICK s \in {"ports", "findings"} : To(r, s) /\ (s = "ports" <=> w.item.kind = "host_result")
    BY <1>2, <1>4, <1>14 DEF WriteHosts
  <2>2. w.step = "hosts" /\ queue' = queue /\ row' = row /\ portRows' = portRows
        /\ hostRows' = hostRows \cup w.item.hosts
    BY <1>2, <1>4, <1>14 DEF WriteHosts
  <2>3. LET u == [step |-> s, item |-> w.item, left |-> w.left] IN AtItem(u)
    BY <1>4, <2>1, <2>2 DEF AtItem
  <2>4. v.step = s /\ v.item = w.item
    BY <1>11, <2>1, <2>3 DEF Step
  <2>5. Working(v) = Working(w) /\ Working(w) = {w.item} /\ Ahead(v) \subseteq Ahead(w)
        /\ InFlight(v) = 0 /\ InFlight(w) = 0
    BY <2>1, <2>2, <2>4 DEF Working, Ahead, InFlight
  <2>6. w.item.hosts \subseteq reported \cup targets
    BY <1>7, <2>5 DEF ItemsRight
  <2> QED  BY <1>1, <1>10, <2>2, <2>5, <2>6
<1>15. CASE ReplacePorts(r)
  <2>1. To(r, "findings") /\ w.step = "ports" /\ queue' = queue /\ row' = row /\ hostRows' = hostRows
        /\ portRows' = [portRows EXCEPT ![TheHost(run)] = Ports[TheHost(run)]]
    BY <1>2, <1>4, <1>15 DEF ReplacePorts
  <2>2. w.item.kind = "host_result" /\ LET u == [step |-> "findings", item |-> w.item, left |-> w.left] IN AtItem(u)
    BY <1>4, <2>1 DEF AtItem
  <2>3. v.step = "findings" /\ v.item = w.item
    BY <1>11, <2>1, <2>2 DEF Step
  <2>4. PICK h \in Host : w.item = Result(h) /\ TheHost(run) = h /\ (CHOOSE x \in w.item.hosts : TRUE) = h
    <3>1. PICK h \in Host : w.item.hosts = {h}
      BY <1>9, <2>2, ItemFacts
    <3>2. w.item = Result(h)
      BY <1>9, <2>2, <3>1 DEF Item, Result
    <3> QED  BY <1>2, <3>1, <3>2 DEF TheHost
  <2>5. /\ Working(v) = {w.item} /\ Working(w) = {w.item} /\ Ahead(w) = {w.item} /\ Ahead(v) = {}
        /\ InFlight(w) = 0 /\ InFlight(v) = Ports[h]
    BY <2>1, <2>2, <2>3, <2>4 DEF Working, Ahead, InFlight
  <2>6. h \in delivered /\ portRows[h] = 0 /\ Result(h) \notin ItemsOf(q)
    BY <1>7, <2>2, <2>4, <2>5 DEF PortsRight
  <2>7. Total(portRows') = Total(portRows) + Ports[h]
    <3>1. Ports[h] \in Nat
      BY CountAssumption
    <3>2. Total([portRows EXCEPT ![h] = Ports[h]]) = Total(portRows) + Ports[h] - portRows[h]
      BY <1>9, <3>1, TotalFacts
    <3> QED  BY <1>9, <2>1, <2>4, <2>6, <3>1, <3>2
  <2>8. ItemsRight(queue[run], writer[run])'
    BY <1>1, <1>3, <1>4, <1>7, <2>1, <2>5 DEF ItemsRight
  <2>9. PortsRight(queue[run], writer[run])'
    <3>1. row'.ports + InFlight(v) = Total(portRows')
      <4>1. row.ports + 0 = Total(portRows)
        BY <1>7, <2>5 DEF PortsRight
      <4> QED  BY <1>9, <2>1, <2>5, <2>7, <4>1
    <3>2. \A g \in Host : g # h => portRows'[g] = portRows[g]
      BY <1>9, <2>1, <2>4
    <3>3. \A g \in Host : Result(g) \in ItemsOf(q) => g \in delivered /\ portRows'[g] = 0
      BY <1>7, <2>6, <3>2 DEF PortsRight
    <3>4. \A g \in Host \ delivered : portRows'[g] = 0
      BY <1>7, <2>6, <3>2 DEF PortsRight
    <3> QED  BY <1>1, <1>3, <1>4, <2>1, <2>5, <3>1, <3>3, <3>4 DEF PortsRight
  <2>10. HostsRight(queue[run], writer[run])'
    BY <1>1, <1>3, <1>4, <1>7, <1>8, <2>1, <2>5 DEF HostsRight
  <2> QED  BY <2>8, <2>9, <2>10 DEF Right
<1>16. CASE WriteFinding(r)
  <2>1. /\ w.step = "findings" /\ queue' = queue /\ row' = row /\ UNCHANGED <<hostRows, portRows>>
        /\ writer' = [writer EXCEPT ![run].left = w.left - 1]
    BY <1>2, <1>4, <1>5, <1>9, <1>16 DEF WriteFinding
  <2>2. v.step = "findings" /\ v.item = w.item
    <3>1. v = [w EXCEPT !.left = w.left - 1]
      BY <1>2, <1>3, <1>5, <2>1
    <3> QED  BY <1>4, <2>1, <3>1 DEF Thread
  <2>3. Working(v) = Working(w) /\ Ahead(v) = Ahead(w) /\ InFlight(v) = InFlight(w)
    BY <2>1, <2>2 DEF Working, Ahead, InFlight
  <2> QED  BY <1>1, <1>10, <2>1, <2>3
<1>17. CASE Count(r)
  <2>1. /\ w.step = "findings" /\ w.left = 0 /\ queue' = queue /\ UNCHANGED tables
        /\ writer' = [writer EXCEPT ![run] = Idle] /\ row' = Counted(w.item)
    BY <1>2, <1>4, <1>17 DEF Count
  <2>2. v.step = "polling"
    <3>1. Idle.step = "polling"
      BY DEF Idle
    <3> HIDE DEF Idle
    <3> QED  BY <1>3, <1>5, <2>1, <3>1
  <2>3. /\ Working(v) = {} /\ Ahead(v) = {} /\ InFlight(v) = 0 /\ Working(w) = {w.item}
    BY <2>1, <2>2 DEF Working, Ahead, InFlight
  <2>4. w.item.kind # "sentinel"
    BY <1>4, <2>1 DEF AtItem
  <2>5. row'.ports = row.ports + InFlight(w)
    <3>1. CASE w.item.kind = "host_result"
      BY <1>9, <2>1, <2>4, <3>1, CountedRow DEF InFlight
    <3>2. CASE w.item.kind # "host_result"
      <4>1. InFlight(w) = 0 /\ row'.ports = row.ports
        BY <1>9, <2>1, <2>4, <3>2, CountedRow DEF InFlight
      <4> QED  BY <1>9, <4>1
    <3> QED  BY <3>1, <3>2
  <2>6. ItemsRight(queue[run], writer[run])'
    BY <1>1, <1>3, <1>4, <1>7, <2>1, <2>3 DEF ItemsRight
  <2>7. PortsRight(queue[run], writer[run])'
    <3>1. row'.ports + InFlight(v) = Total(portRows)
      <4>1. row.ports + InFlight(w) = Total(portRows)
        BY <1>7 DEF PortsRight
      <4> QED  BY <1>9, <2>3, <2>5, <4>1
    <3> QED  BY <1>1, <1>3, <1>4, <1>7, <2>1, <2>3, <3>1 DEF PortsRight, tables
  <2>8. ASSUME Announced
        PROVE  \/ \E it \in ItemsOf(q) : it.kind = "discovery"
               \/ /\ row'.hosts = Cardinality(targets)
                  /\ \A it \in ItemsOf(q) : it.kind # "subnet_hosts"
    <3>1. w.item.kind \in {"subnet_hosts", "discovery", "host_result", "sentinel"}
      BY <1>9, ItemFacts
    <3>2. CASE w.item.kind = "discovery"
      <4>1. row'.hosts = Cardinality(w.item.hosts) /\ w.item.hosts = targets
        BY <1>7, <1>9, <2>1, <2>3, <2>4, <3>2, CountedRow DEF ItemsRight
      <4> QED  BY <1>7, <2>3, <3>2, <4>1 DEF ItemsRight
    <3>3. CASE w.item.kind = "host_result"
      <4>1. row'.hosts = row.hosts
        BY <1>9, <2>1, <2>4, <3>3, CountedRow
      <4> QED  BY <1>7, <2>3, <2>8, <3>3, <4>1 DEF HostsRight
    <3>4. CASE w.item.kind = "subnet_hosts"
      BY <1>7, <2>3, <2>8, <3>4 DEF HostsRight
    <3> QED  BY <2>4, <3>1, <3>2, <3>3, <3>4
  <2>9. HostsRight(queue[run], writer[run])'
    BY <1>1, <1>3, <1>4, <1>7, <1>8, <2>1, <2>3, <2>8 DEF HostsRight, tables
  <2> QED  BY <2>6, <2>7, <2>9 DEF Right
<1>18. CASE WriteFails(r)
  BY <1>4, <1>18 DEF WriteFails, Record
<1>19. CASE WriterHangs(r)
  <2>1. [Idle EXCEPT !.step = "hung"].step = "hung"
    BY DEF Idle
  <2> HIDE DEF Idle
  <2>2. v.step = "hung"
    BY <1>3, <1>4, <1>5, <1>19, <2>1 DEF WriterHangs
  <2> QED  BY <1>4, <2>2
<1> QED
  BY <1>12, <1>13, <1>14, <1>15, <1>16, <1>17, <1>18, <1>19 DEF WriterStep

\* Every step keeps the first execution right.
LEMMA FirstRunStays ==
    ASSUME Finite, QueueTyped, QueueOrder, FirstRunRight, [Next]_vars PROVE FirstRunRight'
<1>1. CASE Next
  <2>1. ASSUME NEW r \in Run, Turn(r), First1' PROVE FALSE
    <3>1. causes = {}
      BY <2>1 DEF Turn, First1
    <3> QED  BY <2>1, <3>1, NoTurn DEF QueueOrder, Met
  <2> QED  BY <1>1, <2>1, OthersRight, ThreadsRight DEF Next, FirstRunRight
<1>2. CASE UNCHANGED vars
  <2>1. UNCHANGED <<row, tables, feed, reported, targets, delivered, raised, writer, queue, run, causes>>
    BY <1>2 DEF vars, task, threads, feedVars
  <2>2. First1' => First1 /\ Right
    BY <2>1 DEF First1, FirstRunRight
  <2>3. run \in Run
    BY DEF QueueTyped, AtTurn, MainTyped
  <2>4. Right => Right'
    BY <2>1, <2>3, RightStays
  <2> QED  BY <2>2, <2>4 DEF FirstRunRight
<1> QED  BY <1>1, <1>2

\* A first execution begins with nothing in the tables and nothing counted.
LEMMA FirstRunStarts == ASSUME Finite, Init PROVE FirstRunRight
<1>1. run \in Run /\ queue[run] = <<>> /\ writer[run] = Idle /\ delivered = {} /\ targets = {}
      /\ reported = {} /\ feed = "discovering" /\ hostRows = {} /\ row = Fresh
      /\ portRows \in [Host -> Nat] /\ \A h \in Host : portRows[h] = 0
  <2>1. 1 \in Run
    BY BoundAssumption, SMT DEF Run
  <2> HIDE DEF Idle, Fresh
  <2> QED  BY <2>1 DEF Init, Feed!FeedInit
<1>2. Idle.step = "polling" /\ Fresh.ports = 0
  BY DEF Idle, Fresh
<1> HIDE DEF Idle, Fresh
<1>3. Working(Idle) = {} /\ Ahead(Idle) = {} /\ InFlight(Idle) = 0
  BY <1>2 DEF Working, Ahead, InFlight
<1>4. Total(portRows) = 0
  BY <1>1, TotalFacts
<1>5. ItemsRight(<<>>, Idle)
  BY <1>3, NoItems DEF ItemsRight
<1>6. PortsRight(<<>>, Idle)
  BY <1>1, <1>2, <1>3, <1>4, NoItems DEF PortsRight
<1>7. HostsRight(<<>>, Idle)
  BY <1>1, <1>3, NoItems DEF HostsRight, Announced
<1> QED  BY <1>1, <1>5, <1>6, <1>7 DEF FirstRunRight, Right

\* What the counters of a completed scan promise.
LEMMA CountsPromise ==
    ASSUME Finite, QueueTyped, QueueOrder, FindingsCounted, ResultsKept, FirstRunRight
    PROVE  CountsExplained
<1> SUFFICES ASSUME row.status = "completed", causes = {}
    PROVE  /\ row.findings = Total(findingRows)
           /\ run = 1 => row.ports = Total(portRows) /\ row.hosts = Cardinality(hostRows)
  BY DEF CountsExplained
<1>1. row.findings = Total(findingRows)
  BY FindingsPromise
<1>2. writer[run].step = "ended" /\ ~raised /\ feed = "ended" /\ Kept
  BY DEF QueueOrder, Met, Serial, Behind, ResultsKept, Calm
<1>3. queue[run] = <<>>
  BY <1>2 DEF Kept
<1>4. Working(writer[run]) = {} /\ InFlight(writer[run]) = 0
  BY <1>2 DEF Working, InFlight
<1>5. targets \subseteq hostRows
  BY <1>2, <1>3, EmptyFacts DEF Kept
<1>6. ASSUME run = 1 PROVE row.ports = Total(portRows) /\ row.hosts = Cardinality(hostRows)
  <2>1. Right
    BY <1>2, <1>6 DEF FirstRunRight, First1
  <2>2. row.ports + 0 = Total(portRows)
    BY <1>4, <2>1 DEF Right, PortsRight
  <2>3. row.ports \in Nat
    BY InstancesAreRows DEF QueueTyped, AtTurn
  <2>4. HostsRight(<<>>, writer[run])
    BY <1>3, <2>1 DEF Right
  <2>5. hostRows \subseteq targets /\ row.hosts = Cardinality(targets)
    BY <1>2, <1>4, <2>4, NoItems DEF HostsRight, Announced
  <2>6. hostRows = targets
    BY <1>5, <2>5
  <2> QED  BY <2>2, <2>3, <2>5, <2>6
<1> QED  BY <1>1, <1>6

-----------------------------------------------------------------------------
(* A discovery scan: what every variable holds.                            *)

\* A scan has finitely many addresses; the bounds are numbers.
Bounds == {Executions, MaxRetries, MaxSubnets} \subseteq Nat

DItem == [kind : {"all", "new"}, hosts : SUBSET Host] \cup {Disc!Sentinel}
DThread == [at : {"idle", "rows", "count", "gone"}, queue : Seq(DItem), stop : BOOLEAN]
DExec == [at : Disc!Stage, retries : 0 .. MaxRetries, copy : Nat, live : SUBSET Host,
          subnets : 0 .. MaxSubnets, raised : BOOLEAN]
DUser == [at : {"none", "cancel", "retry", "launch"}, copy : Nat, left : Int]

DiscTyped ==
    /\ status \in {"pending", "running", "completed", "failed", "cancelled"}
    /\ count \in Nat /\ rows \subseteq Host /\ listed \subseteq Host
    /\ exec \in [Disc!Execution -> DExec] /\ thread \in [Disc!Execution -> DThread]
    /\ user \in DUser
    /\ again \in BOOLEAN /\ mixed \in BOOLEAN /\ lost \in BOOLEAN

\* An item is in hand while it is written, and its hosts have rows when it is counted.
Shape(t, R) ==
    /\ t.at \in {"rows", "count"} => t.queue # <<>> /\ Head(t.queue).kind # "end"
    /\ t.at = "count" => Head(t.queue).hosts \subseteq R

NoEnd(q) == \A i \in 1 .. Len(q) : q[i].kind # "end"

\* A queue that ends: the list is the last item of it, or has its rows.
Closed(q, live, R) ==
    /\ q # <<>> /\ q[Len(q)] = Disc!Sentinel
    /\ \A i \in 1 .. Len(q) - 1 : q[i].kind # "end"
    /\ live \subseteq R \/ (Len(q) >= 2 /\ q[Len(q) - 1].hosts = live)

\* A thread that is not left behind lives as long as its execution waits for it, and
\* when it has ended every host of the list has its row.
Drains(x, t, R) ==
    /\ x.at # "stopping" /\ (x.at = "finding" => t.at # "gone")
    /\ t.at # "gone" => x.at \in {"finding", "draining"} /\ ~t.stop
    /\ x.at = "finding" => NoEnd(t.queue)
    /\ x.at = "draining" /\ t.at # "gone" => Closed(t.queue, x.live, R)
    /\ x.at = "drained" \/ (x.at = "draining" /\ t.at = "gone") => x.live \subseteq R

\* An execution that found no rows and is alone has found all there are.
Alone(x, t, R) ==
    x.at \in Disc!AtWork /\ ~x.raised =>
      R \subseteq x.live /\ \A i \in 1 .. Len(t.queue) : t.queue[i].hosts \subseteq x.live

DiscOrder ==
    /\ \A e \in Disc!Execution : /\ Shape(thread[e], rows)
                                 /\ exec[e].at \in {"queued", "finding"} => ~exec[e].raised
    /\ ~lost => \A e \in Disc!Execution : Drains(exec[e], thread[e], rows)
    /\ ~mixed => /\ \A e, f \in Disc!Busy : e = f
                 /\ status \in {"completed", "failed"} => Disc!Busy = {}
    /\ ~lost /\ ~mixed /\ ~again => \A e \in Disc!Execution : Alone(exec[e], thread[e], rows)
    /\ ~lost /\ ~again => \A e \in Disc!Execution : exec[e].copy = 0
    /\ rows = {} => ~again /\ (~lost => count = 0 /\ user.copy = 0)

DiscInv == DiscTyped /\ DiscOrder /\ Disc!HostsExplained

\* The records the task and the thread are set to.
LEMMA DiscRecords ==
    ASSUME Bounds
    PROVE  /\ \A n \in 0 .. MaxRetries : Disc!Queued(n) \in DExec /\ Disc!Queued(n).at = "queued" /\ Disc!Queued(n).copy = 0
           /\ Disc!Over \in DExec /\ Disc!Over.at = "over" /\ Disc!Over.copy = 0
           /\ Disc!Ended \in DThread /\ Disc!Ended.at = "gone" /\ Disc!Ended.queue = <<>>
           /\ Disc!Sentinel \in DItem /\ Disc!Sentinel.kind = "end" /\ Disc!Sentinel.hosts = {}
           /\ \A it \in DItem : it.hosts \in SUBSET Host /\ (it.kind = "end" => it = Disc!Sentinel)
           /\ \A hs \in SUBSET Host : /\ Disc!All(hs) \in DItem /\ Disc!All(hs).kind = "all" /\ Disc!All(hs).hosts = hs
                                      /\ Disc!Delta(hs) \in DItem /\ Disc!Delta(hs).kind = "new" /\ Disc!Delta(hs).hosts = hs
           /\ 0 \in 0 .. MaxRetries /\ 0 \in Nat /\ 0 \in 0 .. MaxSubnets
<1>1. 0 \in 0 .. MaxRetries /\ 0 \in Nat /\ 0 \in 0 .. MaxSubnets
  BY SMT DEF Bounds
<1>2. \A n \in 0 .. MaxRetries : Disc!Queued(n) \in DExec /\ Disc!Queued(n).at = "queued" /\ Disc!Queued(n).copy = 0
  BY <1>1 DEF Disc!Queued, DExec, Disc!Stage
<1>3. Disc!Over \in DExec /\ Disc!Over.at = "over" /\ Disc!Over.copy = 0
  BY <1>1 DEF Disc!Over, Disc!Queued, DExec, Disc!Stage
<1>4. Disc!Ended \in DThread /\ Disc!Ended.at = "gone" /\ Disc!Ended.queue = <<>>
  BY DEF Disc!Ended, DThread
<1>5. Disc!Sentinel \in DItem /\ Disc!Sentinel.kind = "end" /\ Disc!Sentinel.hosts = {}
  BY DEF Disc!Sentinel, DItem
<1>6. \A hs \in SUBSET Host : /\ Disc!All(hs) \in DItem /\ Disc!All(hs).kind = "all" /\ Disc!All(hs).hosts = hs
                              /\ Disc!Delta(hs) \in DItem /\ Disc!Delta(hs).kind = "new" /\ Disc!Delta(hs).hosts = hs
  BY DEF Disc!All, Disc!Delta, DItem
<1>7. \A it \in DItem : it.hosts \in SUBSET Host /\ (it.kind = "end" => it = Disc!Sentinel)
  BY <1>5 DEF DItem
<1> QED  BY <1>1, <1>2, <1>3, <1>4, <1>5, <1>6, <1>7

\* More rows take nothing back.
LEMMA MoreRows ==
    ASSUME NEW x, NEW t, NEW R, NEW S, R \subseteq S
    PROVE  (Shape(t, R) => Shape(t, S)) /\ (Drains(x, t, R) => Drains(x, t, S))
BY DEF Shape, Drains, Closed

\* Queues: putting an item, putting the list and the end, taking the first away.
LEMMA DiscQueues ==
    ASSUME NEW q \in Seq(DItem)
    PROVE  /\ \A it \in DItem : /\ Append(q, it) \in Seq(DItem) /\ Append(q, it) # <<>>
                                /\ q # <<>> => Head(Append(q, it)) = Head(q)
                                /\ NoEnd(q) /\ it.kind # "end" => NoEnd(Append(q, it))
                                /\ \A L : (\A i \in 1 .. Len(q) : q[i].hosts \subseteq L) /\ it.hosts \subseteq L =>
                                            \A i \in 1 .. Len(Append(q, it)) : Append(q, it)[i].hosts \subseteq L
           /\ q # <<>> => /\ Tail(q) \in Seq(DItem) /\ Head(q) \in DItem
                          /\ Head(q) = q[1] /\ Len(q) >= 1
                          /\ NoEnd(q) => NoEnd(Tail(q)) /\ Head(q).kind # "end"
                          /\ \A L : (\A i \in 1 .. Len(q) : q[i].hosts \subseteq L) =>
                               Head(q).hosts \subseteq L /\ \A i \in 1 .. Len(Tail(q)) : Tail(q)[i].hosts \subseteq L
<1> DEFINE n == Len(q)
<1>1. ASSUME NEW it \in DItem
      PROVE  /\ Append(q, it) \in Seq(DItem) /\ Append(q, it) # <<>>
             /\ q # <<>> => Head(Append(q, it)) = Head(q)
             /\ NoEnd(q) /\ it.kind # "end" => NoEnd(Append(q, it))
             /\ \A L : (\A i \in 1 .. Len(q) : q[i].hosts \subseteq L) /\ it.hosts \subseteq L =>
                         \A i \in 1 .. Len(Append(q, it)) : Append(q, it)[i].hosts \subseteq L
  <2> DEFINE p == Append(q, it)
  <2>1. /\ n \in Nat /\ Len(p) = n + 1 /\ (\A i \in 1 .. n : p[i] = q[i]) /\ p[n + 1] = it
        /\ p \in Seq(DItem) /\ p # <<>> /\ (q # <<>> => Head(p) = Head(q))
    OBVIOUS
  <2>2. NoEnd(p) <=> \A i \in 1 .. Len(p) : p[i].kind # "end"
    BY DEF NoEnd
  <2>3. NoEnd(q) <=> \A i \in 1 .. n : q[i].kind # "end"
    BY DEF NoEnd
  <2> HIDE DEF n, p
  <2>4. \A i \in 1 .. Len(p) : i \in 1 .. n \/ i = n + 1
    BY <2>1
  <2> QED  BY <2>1, <2>2, <2>3, <2>4 DEF n, p
<1>2. ASSUME q # <<>>
      PROVE  /\ Tail(q) \in Seq(DItem) /\ Head(q) \in DItem
             /\ Head(q) = q[1] /\ Len(q) >= 1
             /\ NoEnd(q) => NoEnd(Tail(q)) /\ Head(q).kind # "end"
             /\ \A L : (\A i \in 1 .. Len(q) : q[i].hosts \subseteq L) =>
                  Head(q).hosts \subseteq L /\ \A i \in 1 .. Len(Tail(q)) : Tail(q)[i].hosts \subseteq L
  <2> DEFINE p == Tail(q)
  <2>1. /\ n \in Nat /\ n >= 1 /\ Len(p) = n - 1 /\ (\A i \in 1 .. n - 1 : p[i] = q[i + 1]) /\ Head(q) = q[1]
        /\ p \in Seq(DItem) /\ Head(q) \in DItem
    BY <1>2
  <2>2. NoEnd(p) <=> \A i \in 1 .. Len(p) : p[i].kind # "end"
    BY DEF NoEnd
  <2>3. NoEnd(q) <=> \A i \in 1 .. n : q[i].kind # "end"
    BY DEF NoEnd
  <2> HIDE DEF n, p
  <2>4. (\A i \in 1 .. n - 1 : i + 1 \in 1 .. n) /\ 1 \in 1 .. n
    BY <2>1
  <2> QED  BY <2>1, <2>2, <2>3, <2>4 DEF n, p
<1> QED  BY <1>1, <1>2

\* The list and the sentinel close a queue without an end; taking items leaves it closed.
LEMMA ClosedQueues ==
    ASSUME NEW q \in Seq(DItem), NEW live, NEW R
    PROVE  /\ \A it \in DItem, s \in DItem :
                NoEnd(q) /\ it.kind # "end" /\ it.hosts = live /\ s = Disc!Sentinel =>
                  Closed(Append(Append(q, it), s), live, R)
           /\ Closed(q, live, R) =>
                /\ q # <<>>
                /\ Head(q).kind = "end" => live \subseteq R
                /\ Head(q).kind # "end" /\ Head(q).hosts \subseteq R => Closed(Tail(q), live, R)
<1> DEFINE n == Len(q)
<1>0. n \in Nat
  OBVIOUS
<1>1. ASSUME NEW it \in DItem, NEW s \in DItem, NoEnd(q), it.kind # "end", it.hosts = live, s = Disc!Sentinel
      PROVE  Closed(Append(Append(q, it), s), live, R)
  <2> DEFINE p == Append(Append(q, it), s)
  <2>1. /\ Len(p) = n + 2 /\ (\A i \in 1 .. n : p[i] = q[i]) /\ p[n + 1] = it /\ p[n + 2] = s /\ p # <<>>
    OBVIOUS
  <2>2. \A i \in 1 .. n : q[i].kind # "end"
    BY <1>1 DEF NoEnd
  <2> HIDE DEF n, p
  <2>3. \A i \in 1 .. Len(p) - 1 : i \in 1 .. n \/ i = n + 1
    BY <1>0, <2>1
  <2>4. Len(p) >= 2 /\ Len(p) - 1 = n + 1
    BY <1>0, <2>1
  <2>5. Closed(p, live, R)
    BY <1>1, <2>1, <2>2, <2>3, <2>4 DEF Closed
  <2> QED  BY <2>5 DEF p
<1>2. ASSUME Closed(q, live, R)
      PROVE  /\ q # <<>>
             /\ Head(q).kind = "end" => live \subseteq R
             /\ Head(q).kind # "end" /\ Head(q).hosts \subseteq R => Closed(Tail(q), live, R)
  <2> DEFINE p == Tail(q)
  <2>1. q # <<>>
    BY <1>2 DEF Closed
  <2>8. /\ Len(q) >= 1 /\ Len(p) = Len(q) - 1 /\ (\A i \in 1 .. Len(q) - 1 : p[i] = q[i + 1])
        /\ Head(q) = q[1]
    BY <2>1
  <2>2. /\ n >= 1 /\ Len(p) = n - 1 /\ (\A i \in 1 .. n - 1 : p[i] = q[i + 1]) /\ Head(q) = q[1]
    BY <2>8
  <2>9. n >= 2 => p # <<>>
    <3>1. Len(<<>>) = 0
      OBVIOUS
    <3>2. p = <<>> => Len(p) = 0
      BY <3>1
    <3> HIDE DEF n, p
    <3> QED  BY <1>0, <2>2, <3>2
  <2>3. /\ q[n] = Disc!Sentinel /\ (\A i \in 1 .. n - 1 : q[i].kind # "end")
        /\ live \subseteq R \/ (n >= 2 /\ q[n - 1].hosts = live)
    BY <1>2 DEF Closed
  <2>4. Disc!Sentinel.kind = "end"
    BY DEF Disc!Sentinel
  <2> HIDE DEF n, p
  <2>5. n >= 2 => 1 \in 1 .. n - 1
    BY <1>0, <2>2
  <2>6. Head(q).kind = "end" => live \subseteq R
    BY <2>2, <2>3, <2>5
  <2>7. ASSUME Head(q).kind # "end", Head(q).hosts \subseteq R PROVE Closed(p, live, R)
    <3>1. n >= 2
      BY <1>0, <2>2, <2>3, <2>4, <2>7
    <3>2. Len(p) \in 1 .. n - 1 /\ Len(p) + 1 = n
      BY <1>0, <2>2, <3>1
    <3>3. p[Len(p)] = Disc!Sentinel
      BY <2>2, <2>3, <3>2
    <3>4. \A i \in 1 .. Len(p) - 1 : i \in 1 .. n - 1 /\ i + 1 \in 1 .. n - 1
      BY <1>0, <2>2
    <3>5. \A i \in 1 .. Len(p) - 1 : p[i].kind # "end"
      BY <2>2, <2>3, <3>4
    <3>6. live \subseteq R \/ (Len(p) >= 2 /\ p[Len(p) - 1].hosts = live)
      <4>1. CASE n >= 3
        <5>1. Len(p) >= 2 /\ Len(p) - 1 \in 1 .. n - 1 /\ (Len(p) - 1) + 1 = n - 1
          BY <1>0, <2>2, <4>1
        <5>2. p[Len(p) - 1] = q[n - 1]
          BY <2>2, <5>1
        <5> QED  BY <2>3, <5>1, <5>2
      <4>2. CASE n = 2
        <5>1. n - 1 = 1
          BY <4>2
        <5> QED  BY <2>2, <2>3, <2>7, <5>1
      <4> QED  BY <1>0, <3>1, <4>1, <4>2
    <3> QED  BY <2>9, <3>1, <3>3, <3>5, <3>6 DEF Closed
  <2> QED  BY <2>1, <2>6, <2>7 DEF p
<1> QED  BY <1>1, <1>2

\* At first one execution is queued, and nothing is found.
LEMMA DiscStarts ==
    ASSUME Bounds, Disc!Init
    PROVE  DiscInv
<1>1. /\ status = "pending" /\ count = 0 /\ rows = {} /\ listed = {}
      /\ exec = [e \in Disc!Execution |-> [Disc!Queued(0) EXCEPT !.at = IF e = 1 THEN "queued" ELSE "none"]]
      /\ thread = [e \in Disc!Execution |-> Disc!Ended]
      /\ user = [at |-> "none", copy |-> 0, left |-> Executions]
      /\ again = FALSE /\ mixed = FALSE /\ lost = FALSE
  BY DEF Disc!Init
<1>2. ASSUME NEW e \in Disc!Execution
      PROVE  /\ exec[e] \in DExec /\ exec[e].at \in {"queued", "none"} /\ exec[e].copy = 0 /\ exec[e].raised = FALSE
             /\ thread[e] \in DThread /\ thread[e].at = "gone" /\ thread[e].queue = <<>>
  <2>1. exec[e] = [Disc!Queued(0) EXCEPT !.at = IF e = 1 THEN "queued" ELSE "none"]
    BY <1>1
  <2>2. exec[e] \in DExec /\ exec[e].at \in {"queued", "none"} /\ exec[e].copy = 0 /\ exec[e].raised = FALSE
    BY <2>1, DiscRecords DEF Disc!Queued, DExec, Disc!Stage
  <2> QED  BY <1>1, <2>2, DiscRecords
<1>3. exec \in [Disc!Execution -> DExec] /\ thread \in [Disc!Execution -> DThread]
  BY <1>1, <1>2
<1>4. user \in DUser /\ user.copy = 0
  BY <1>1 DEF DUser, Bounds
<1>5. DiscTyped
  BY <1>1, <1>3, <1>4 DEF DiscTyped
<1>6. \A e \in Disc!Execution : e \notin Disc!Busy
  BY <1>2 DEF Disc!Busy, Disc!AtWork
<1>7. \A e \in Disc!Execution : Shape(thread[e], rows) /\ Drains(exec[e], thread[e], rows) /\ Alone(exec[e], thread[e], rows)
  BY <1>2 DEF Shape, Drains, Alone, Disc!AtWork
<1>8. \A e, f \in Disc!Busy : e = f
  BY <1>6 DEF Disc!Busy
<1>9. DiscOrder
  BY <1>1, <1>2, <1>4, <1>7, <1>8 DEF DiscOrder
<1>10. Disc!HostsExplained
  BY <1>1 DEF Disc!HostsExplained
<1> QED  BY <1>5, <1>9, <1>10 DEF DiscInv

\* One execution, and its thread, have changed.
DiscMoves(e, x, t) ==
    /\ exec' \in [Disc!Execution -> DExec] /\ thread' \in [Disc!Execution -> DThread]
    /\ exec'[e] = x /\ thread'[e] = t
    /\ \A f \in Disc!Execution : f # e => exec'[f] = exec[f] /\ thread'[f] = thread[f]
    /\ \A f \in Disc!Execution : f # e => (f \in Disc!Busy <=> f \in Disc!Busy')
    /\ e \in Disc!Busy <=> exec[e].at \in Disc!AtWork
    /\ e \in Disc!Busy' <=> x.at \in Disc!AtWork
    /\ Disc!Busy \subseteq Disc!Execution /\ Disc!Busy' \subseteq Disc!Execution

\* A step that sets these two changes no other.
LEMMA DiscUpdate ==
    ASSUME DiscTyped, NEW e \in Disc!Execution, NEW x \in DExec, NEW t \in DThread,
           exec' = [exec EXCEPT ![e] = x], thread' = [thread EXCEPT ![e] = t]
    PROVE  DiscMoves(e, x, t)
BY DEF DiscMoves, DiscTyped, Disc!Busy

\* An execution starts: the rows it finds are of another, and so is the counter it reads.
LEMMA DiscMarks ==
    ASSUME Bounds, DiscInv, NEW e \in Disc!Execution, Disc!MarkRunning(e)
    PROVE  DiscInv'
<1> DEFINE x == [exec[e] EXCEPT !.at = "finding", !.copy = count]
           t == [at |-> "idle", queue |-> <<>>, stop |-> FALSE]
<1>1. /\ exec[e].at = "queued" /\ status' = "running"
      /\ exec' = [exec EXCEPT ![e] = x] /\ thread' = [thread EXCEPT ![e] = t]
      /\ again' = (again \/ rows # {}) /\ mixed' = (mixed \/ Disc!Busy # {})
      /\ count' = count /\ rows' = rows /\ user' = user /\ listed' = listed /\ lost' = lost
  BY DEF Disc!MarkRunning
<1>2. DiscTyped /\ DiscOrder /\ Disc!HostsExplained
  BY DEF DiscInv
<1>3. exec[e] \in DExec /\ count \in Nat
  BY <1>2 DEF DiscTyped
<1>4. x \in DExec /\ x.at = "finding" /\ x.copy = count /\ x.live = exec[e].live /\ x.raised = exec[e].raised
  BY <1>3 DEF DExec, Disc!Stage
<1>5. t \in DThread /\ t.at = "idle" /\ t.queue = <<>> /\ t.stop = FALSE
  BY DEF DThread
<1> HIDE DEF x, t
<1>6. DiscMoves(e, x, t)
  BY <1>1, <1>2, <1>4, <1>5, DiscUpdate
<1>7. DiscTyped'
  BY <1>1, <1>2, <1>6 DEF DiscTyped, DiscMoves
<1>8. Shape(t, rows) /\ Drains(x, t, rows) /\ (rows = {} => Alone(x, t, rows))
  BY <1>4, <1>5 DEF Shape, Drains, Alone, NoEnd
<1>9. ~exec[e].raised
  BY <1>1, <1>2 DEF DiscOrder
<1>10. DiscOrder'
  <2>1. \A f \in Disc!Execution : /\ Shape(thread'[f], rows')
                                  /\ exec'[f].at \in {"queued", "finding"} => ~exec'[f].raised
    BY <1>1, <1>2, <1>4, <1>6, <1>8, <1>9 DEF DiscOrder, DiscMoves
  <2>2. ~lost' => \A f \in Disc!Execution : Drains(exec'[f], thread'[f], rows')
    BY <1>1, <1>2, <1>6, <1>8 DEF DiscOrder, DiscMoves
  <2>3. ~mixed' => Disc!Busy = {} /\ \A f \in Disc!Busy' : f = e
    BY <1>1, <1>6 DEF DiscMoves
  <2>4. ~lost' /\ ~mixed' /\ ~again' => \A f \in Disc!Execution : Alone(exec'[f], thread'[f], rows')
    <3> SUFFICES ASSUME ~lost', ~mixed', ~again', NEW f \in Disc!Execution PROVE Alone(exec'[f], thread'[f], rows')
      OBVIOUS
    <3>1. ~lost /\ ~mixed /\ ~again /\ rows = {}
      BY <1>1
    <3>2. CASE f = e
      BY <1>1, <1>6, <1>8, <3>1, <3>2 DEF DiscMoves
    <3>3. CASE f # e
      BY <1>1, <1>2, <1>6, <3>1, <3>3 DEF DiscOrder, DiscMoves
    <3> QED  BY <3>2, <3>3
  <2>5. ~lost' /\ ~again' => \A f \in Disc!Execution : exec'[f].copy = 0
    BY <1>1, <1>2, <1>4, <1>6 DEF DiscOrder, DiscMoves
  <2>6. rows' = {} => ~again' /\ (~lost' => count' = 0 /\ user'.copy = 0)
    BY <1>1, <1>2 DEF DiscOrder
  <2> QED  BY <1>1, <2>1, <2>2, <2>3, <2>4, <2>5, <2>6 DEF DiscOrder
<1>11. Disc!HostsExplained'
  BY <1>1 DEF Disc!HostsExplained
<1> QED  BY <1>7, <1>10, <1>11 DEF DiscInv

\* A step of one execution or its thread that writes nothing: what it has to keep.
LEMMA DiscLocal ==
    ASSUME DiscInv, NEW e \in Disc!Execution, NEW x \in DExec, NEW t \in DThread,
           DiscMoves(e, x, t), Disc!scan' = Disc!scan, user' = user, listed' = listed,
           again' = again, mixed' = mixed, lost' \in BOOLEAN, lost => lost',
           Shape(t, rows), x.at \in {"queued", "finding"} => ~x.raised,
           ~lost' => Drains(x, t, rows), x.at \in Disc!AtWork => exec[e].at \in Disc!AtWork,
           ~lost' /\ ~mixed /\ ~again => Alone(x, t, rows),
           x.copy = exec[e].copy \/ x.copy = 0
    PROVE  DiscInv'
<1>1. status' = status /\ count' = count /\ rows' = rows
  BY DEF Disc!scan
<1>2. DiscTyped /\ DiscOrder /\ Disc!HostsExplained
  BY DEF DiscInv
<1>3. DiscTyped'
  BY <1>1, <1>2 DEF DiscTyped, DiscMoves
<1>4. Disc!Busy' \subseteq Disc!Busy
  BY DEF DiscMoves
<1>5. DiscOrder'
  <2>1. \A f \in Disc!Execution : /\ Shape(thread'[f], rows')
                                  /\ exec'[f].at \in {"queued", "finding"} => ~exec'[f].raised
    BY <1>1, <1>2 DEF DiscOrder, DiscMoves
  <2>2. ~lost' => \A f \in Disc!Execution : Drains(exec'[f], thread'[f], rows')
    BY <1>1, <1>2 DEF DiscOrder, DiscMoves
  <2>3. ~mixed' => /\ \A f, g \in Disc!Busy' : f = g
                   /\ status' \in {"completed", "failed"} => Disc!Busy' = {}
    BY <1>1, <1>2, <1>4 DEF DiscOrder
  <2>4. ~lost' /\ ~mixed' /\ ~again' => \A f \in Disc!Execution : Alone(exec'[f], thread'[f], rows')
    BY <1>1, <1>2 DEF DiscOrder, DiscMoves
  <2>5. ~lost' /\ ~again' => \A f \in Disc!Execution : exec'[f].copy = 0
    BY <1>1, <1>2 DEF DiscOrder, DiscMoves
  <2>6. rows' = {} => ~again' /\ (~lost' => count' = 0 /\ user'.copy = 0)
    BY <1>1, <1>2 DEF DiscOrder
  <2> QED  BY <2>1, <2>2, <2>3, <2>4, <2>5, <2>6 DEF DiscOrder
<1>6. Disc!HostsExplained'
  BY <1>1, <1>2 DEF Disc!HostsExplained
<1> QED  BY <1>3, <1>5, <1>6 DEF DiscInv

\* What the invariant says of one execution, and that it may be set to itself.
LEMMA DiscOne ==
    ASSUME DiscInv, NEW e \in Disc!Execution
    PROVE  /\ exec[e] \in DExec /\ thread[e] \in DThread /\ lost \in BOOLEAN
           /\ Shape(thread[e], rows)
           /\ exec[e].at \in {"queued", "finding"} => ~exec[e].raised
           /\ ~lost => Drains(exec[e], thread[e], rows)
           /\ ~lost /\ ~mixed /\ ~again => Alone(exec[e], thread[e], rows)
           /\ exec = [exec EXCEPT ![e] = exec[e]] /\ thread = [thread EXCEPT ![e] = thread[e]]
           /\ DiscTyped
BY DEF DiscInv, DiscTyped, DiscOrder

\* A subnet is reported: what it found is in the list and in the queue.
LEMMA DiscReports ==
    ASSUME Bounds, DiscInv, NEW e \in Disc!Execution, Disc!ReportSubnet(e)
    PROVE  DiscInv'
<1>1. PICK new \in SUBSET Host \ {{}} :
           /\ exec' = [exec EXCEPT ![e] = [exec[e] EXCEPT !.live = @ \cup new, !.subnets = @ + 1]]
           /\ Disc!Put(e, Disc!Delta(new))
  BY DEF Disc!ReportSubnet
<1> DEFINE x == [exec[e] EXCEPT !.live = @ \cup new, !.subnets = @ + 1]
           it == Disc!Delta(new)
           t == [thread[e] EXCEPT !.queue = Append(@, it)]
<1>2. /\ exec[e].at = "finding" /\ exec[e].subnets < MaxSubnets
      /\ exec' = [exec EXCEPT ![e] = x] /\ thread' = [thread EXCEPT ![e] = t]
      /\ Disc!scan' = Disc!scan /\ user' = user /\ listed' = listed
      /\ again' = again /\ mixed' = mixed /\ lost' = lost
  BY <1>1 DEF Disc!ReportSubnet, Disc!Put
<1>3. /\ exec[e] \in DExec /\ thread[e] \in DThread /\ lost \in BOOLEAN
      /\ Shape(thread[e], rows) /\ ~exec[e].raised
      /\ ~lost => Drains(exec[e], thread[e], rows)
      /\ ~lost /\ ~mixed /\ ~again => Alone(exec[e], thread[e], rows)
      /\ DiscTyped
  BY <1>2, DiscOne
<1>4. /\ x.at = "finding" /\ x.copy = exec[e].copy /\ x.live = exec[e].live \cup new
      /\ x.raised = exec[e].raised /\ x.subnets = exec[e].subnets + 1 /\ x.retries = exec[e].retries
  BY <1>2, <1>3 DEF DExec
<1>5. exec[e].subnets + 1 \in 0 .. MaxSubnets
  <2>1. exec[e].subnets \in 0 .. MaxSubnets /\ MaxSubnets \in Nat
    BY <1>3 DEF DExec, Bounds
  <2> QED  BY <1>2, <2>1
<1>6. x \in DExec
  BY <1>3, <1>4, <1>5 DEF DExec, Disc!Stage
<1>7. it \in DItem /\ it.kind = "new" /\ it.hosts = new
  BY DiscRecords
<1>8. thread[e].queue \in Seq(DItem)
  BY <1>3 DEF DThread
<1> HIDE DEF it
<1>9. /\ Append(thread[e].queue, it) \in Seq(DItem) /\ Append(thread[e].queue, it) # <<>>
      /\ thread[e].queue # <<>> => Head(Append(thread[e].queue, it)) = Head(thread[e].queue)
      /\ NoEnd(thread[e].queue) /\ it.kind # "end" => NoEnd(Append(thread[e].queue, it))
      /\ \A L : (\A i \in 1 .. Len(thread[e].queue) : thread[e].queue[i].hosts \subseteq L) /\ it.hosts \subseteq L =>
           \A i \in 1 .. Len(Append(thread[e].queue, it)) : Append(thread[e].queue, it)[i].hosts \subseteq L
  BY <1>7, <1>8, DiscQueues
<1>10. t \in DThread /\ t.at = thread[e].at /\ t.stop = thread[e].stop /\ t.queue = Append(thread[e].queue, it)
  BY <1>3, <1>9 DEF DThread
<1> HIDE DEF x, t
<1>11. DiscMoves(e, x, t)
  BY <1>2, <1>3, <1>6, <1>10, DiscUpdate
<1>12. Shape(t, rows)
  BY <1>3, <1>9, <1>10 DEF Shape
<1>13. ~lost => Drains(x, t, rows)
  BY <1>2, <1>3, <1>4, <1>7, <1>9, <1>10 DEF Drains
<1>14. ~lost /\ ~mixed /\ ~again => Alone(x, t, rows)
  <2> SUFFICES ASSUME ~lost, ~mixed, ~again, x.at \in Disc!AtWork, ~x.raised
               PROVE  rows \subseteq x.live /\ \A i \in 1 .. Len(t.queue) : t.queue[i].hosts \subseteq x.live
    BY DEF Alone
  <2>1. rows \subseteq exec[e].live /\ \A i \in 1 .. Len(thread[e].queue) : thread[e].queue[i].hosts \subseteq exec[e].live
    BY <1>2, <1>3, <1>4 DEF Alone, Disc!AtWork
  <2>2. exec[e].live \subseteq x.live /\ it.hosts \subseteq x.live
    BY <1>4, <1>7
  <2>3. \A i \in 1 .. Len(thread[e].queue) : thread[e].queue[i].hosts \subseteq x.live
    BY <2>1, <2>2
  <2> QED  BY <1>9, <1>10, <2>1, <2>2, <2>3
<1> QED  BY <1>2, <1>3, <1>4, <1>6, <1>10, <1>11, <1>12, <1>13, <1>14, DiscLocal DEF Disc!AtWork

\* The search ends: the list, if there is one, has all that was reported.
LEMMA DiscEnds ==
    ASSUME Bounds, DiscInv, NEW e \in Disc!Execution, Disc!EndDiscovery(e)
    PROVE  DiscInv'
<1>1. PICK more \in SUBSET Host, raises \in BOOLEAN :
         LET all == Disc!Listed(exec[e].live \cup more, raises) IN
         /\ exec' = [exec EXCEPT ![e] =
                       [@ EXCEPT !.at = "draining", !.raised = raises, !.live = all]]
         /\ thread' = [thread EXCEPT ![e].queue = @ \o <<Disc!All(all), Disc!Sentinel>>]
  BY DEF Disc!EndDiscovery
<1> DEFINE all == Disc!Listed(exec[e].live \cup more, raises)
           q == thread[e].queue
           it == Disc!All(all)
           s == Disc!Sentinel
           p == Append(Append(q, it), s)
           x == [exec[e] EXCEPT !.at = "draining", !.raised = raises, !.live = all]
           t == [thread[e] EXCEPT !.queue = p]
<1>2. /\ exec[e] \in DExec /\ thread[e] \in DThread /\ lost \in BOOLEAN
      /\ Shape(thread[e], rows)
      /\ exec[e].at \in {"queued", "finding"} => ~exec[e].raised
      /\ ~lost => Drains(exec[e], thread[e], rows)
      /\ ~lost /\ ~mixed /\ ~again => Alone(exec[e], thread[e], rows)
      /\ DiscTyped
  BY DiscOne
<1>3. exec[e].live \in SUBSET Host /\ q \in Seq(DItem)
  BY <1>2 DEF DExec, DThread
<1>4. all \in SUBSET Host /\ (raises \/ all = exec[e].live \cup more)
  BY <1>3 DEF Disc!Listed
<1> HIDE DEF all
<1>5. it \in DItem /\ it.kind = "all" /\ it.hosts = all /\ s \in DItem /\ s.kind = "end" /\ s.hosts = {}
  BY <1>4, DiscRecords
<1>6. q \o <<it, s>> = p
  <2> HIDE DEF q, it, s
  <2>1. <<it>> \in Seq(DItem) /\ <<s>> \in Seq(DItem)
    BY <1>5
  <2>2. Append(q, it) \in Seq(DItem) /\ Append(q, it) = q \o <<it>>
    BY <1>3, <1>5, AppendProperties, AppendIsConcat
  <2>3. p = Append(q, it) \o <<s>>
    BY <1>5, <2>2, AppendIsConcat
  <2>4. (q \o <<it>>) \o <<s>> = q \o (<<it>> \o <<s>>)
    BY <1>3, <2>1, ConcatAssociative
  <2>5. <<it>> \o <<s>> = <<it, s>>
    <3> DEFINE u == <<it>> \o <<s>>  v == <<it, s>>
    <3>1. u \in Seq(DItem) /\ Len(u) = 2 /\ u[1] = it /\ u[2] = s
      BY <2>1
    <3>2. v \in Seq(DItem) /\ Len(v) = 2 /\ v[1] = it /\ v[2] = s
      BY <1>5
    <3> HIDE DEF u, v
    <3>3. \A i \in 1 .. Len(u) : u[i] = v[i]
      BY <3>1, <3>2
    <3>4. u = v
      BY <3>1, <3>2, <3>3, SeqEqual
    <3> QED  BY <3>4 DEF u, v
  <2> QED  BY <2>2, <2>3, <2>4, <2>5
<1>7. /\ exec[e].at = "finding"
      /\ exec' = [exec EXCEPT ![e] = x] /\ thread' = [thread EXCEPT ![e] = t]
      /\ Disc!scan' = Disc!scan /\ user' = user /\ listed' = listed
      /\ again' = again /\ mixed' = mixed /\ lost' = lost
  BY <1>1, <1>6 DEF Disc!EndDiscovery, all
<1>8. x \in DExec /\ x.at = "draining" /\ x.copy = exec[e].copy /\ x.live = all /\ x.raised = raises
  BY <1>2, <1>4 DEF DExec, Disc!Stage
<1> HIDE DEF it, s, q
<1>9. /\ Append(q, it) \in Seq(DItem) /\ Append(q, it) # <<>> /\ (q # <<>> => Head(Append(q, it)) = Head(q))
      /\ \A L : (\A i \in 1 .. Len(q) : q[i].hosts \subseteq L) /\ it.hosts \subseteq L =>
           \A i \in 1 .. Len(Append(q, it)) : Append(q, it)[i].hosts \subseteq L
  BY <1>3, <1>5, DiscQueues
<1>10. /\ p \in Seq(DItem) /\ p # <<>> /\ Head(p) = Head(Append(q, it))
       /\ \A L : (\A i \in 1 .. Len(Append(q, it)) : Append(q, it)[i].hosts \subseteq L) /\ s.hosts \subseteq L =>
            \A i \in 1 .. Len(p) : p[i].hosts \subseteq L
  BY <1>5, <1>9, DiscQueues
<1>11. NoEnd(q) => Closed(p, all, rows)
  BY <1>3, <1>5, ClosedQueues DEF s
<1> HIDE DEF p
<1>12. t \in DThread /\ t.at = thread[e].at /\ t.stop = thread[e].stop /\ t.queue = p
  BY <1>2, <1>10 DEF DThread
<1> HIDE DEF x, t
<1>13. DiscMoves(e, x, t)
  BY <1>2, <1>7, <1>8, <1>12, DiscUpdate
<1>14. Shape(t, rows)
  BY <1>2, <1>9, <1>10, <1>12 DEF Shape, q
<1>15. ~lost => Drains(x, t, rows)
  BY <1>2, <1>7, <1>8, <1>11, <1>12 DEF Drains, q
<1>16. ~lost /\ ~mixed /\ ~again => Alone(x, t, rows)
  <2> SUFFICES ASSUME ~lost, ~mixed, ~again, x.at \in Disc!AtWork, ~x.raised
               PROVE  rows \subseteq x.live /\ \A i \in 1 .. Len(t.queue) : t.queue[i].hosts \subseteq x.live
    BY DEF Alone
  <2>1. rows \subseteq exec[e].live /\ \A i \in 1 .. Len(q) : q[i].hosts \subseteq exec[e].live
    BY <1>2, <1>7 DEF Alone, Disc!AtWork, q
  <2>2. exec[e].live \subseteq x.live /\ it.hosts \subseteq x.live /\ s.hosts \subseteq x.live
    BY <1>4, <1>5, <1>8
  <2>3. \A i \in 1 .. Len(q) : q[i].hosts \subseteq x.live
    BY <2>1, <2>2
  <2>4. \A i \in 1 .. Len(Append(q, it)) : Append(q, it)[i].hosts \subseteq x.live
    BY <1>9, <2>2, <2>3
  <2>5. \A i \in 1 .. Len(p) : p[i].hosts \subseteq x.live
    BY <1>10, <2>2, <2>4
  <2> QED  BY <1>12, <2>1, <2>2, <2>5
<1> QED  BY <1>2, <1>7, <1>8, <1>12, <1>13, <1>14, <1>15, <1>16, DiscLocal DEF Disc!AtWork

\* The thread is waited for, left behind, or what follows raises; the process may end.
LEMMA DiscWaits ==
    ASSUME Bounds, DiscInv, NEW e \in Disc!Execution,
           \/ Disc!Joined(e) \/ Disc!DrainTimesOut(e) \/ Disc!LeaveBehind(e)
           \/ Disc!CompleteRaises(e) \/ Disc!Kill(e)
    PROVE  DiscInv'
<1>1. /\ exec[e] \in DExec /\ thread[e] \in DThread /\ lost \in BOOLEAN
      /\ Shape(thread[e], rows)
      /\ exec[e].at \in {"queued", "finding"} => ~exec[e].raised
      /\ ~lost => Drains(exec[e], thread[e], rows)
      /\ ~lost /\ ~mixed /\ ~again => Alone(exec[e], thread[e], rows)
      /\ exec = [exec EXCEPT ![e] = exec[e]] /\ thread = [thread EXCEPT ![e] = thread[e]]
      /\ DiscTyped
  BY DiscOne
<1> DEFINE drained == [exec[e] EXCEPT !.at = "drained"]
           stopping == [exec[e] EXCEPT !.at = "stopping"]
           failing == [exec[e] EXCEPT !.raised = TRUE]
           told == [thread[e] EXCEPT !.stop = TRUE]
<1>2. drained \in DExec /\ drained.at = "drained" /\ drained.copy = exec[e].copy /\ drained.live = exec[e].live
      /\ drained.raised = exec[e].raised
  BY <1>1 DEF DExec, Disc!Stage
<1>3. stopping \in DExec /\ stopping.at = "stopping" /\ stopping.copy = exec[e].copy
  BY <1>1 DEF DExec, Disc!Stage
<1>4. failing \in DExec /\ failing.at = exec[e].at /\ failing.copy = exec[e].copy /\ failing.live = exec[e].live
      /\ failing.raised = TRUE
  BY <1>1 DEF DExec, Disc!Stage
<1>5. told \in DThread /\ told.at = thread[e].at /\ told.queue = thread[e].queue
  BY <1>1 DEF DThread
<1>6. Shape(told, rows)
  BY <1>1, <1>5 DEF Shape
<1>7. ASSUME Disc!Joined(e) \/ Disc!LeaveBehind(e) PROVE DiscInv'
  <2>1. /\ exec[e].at \in {"draining", "stopping"} /\ (thread[e].at = "gone" \/ exec[e].at = "stopping")
        /\ exec' = [exec EXCEPT ![e] = drained] /\ thread' = [thread EXCEPT ![e] = thread[e]]
        /\ Disc!scan' = Disc!scan /\ user' = user /\ listed' = listed
        /\ again' = again /\ mixed' = mixed /\ lost' = lost
    BY <1>1, <1>7 DEF Disc!Joined, Disc!LeaveBehind
  <2> HIDE DEF drained
  <2>2. DiscMoves(e, drained, thread[e])
    BY <1>1, <1>2, <2>1, DiscUpdate
  <2>3. ~lost => Drains(drained, thread[e], rows)
    BY <1>1, <1>2, <2>1 DEF Drains
  <2>4. ~lost /\ ~mixed /\ ~again => Alone(drained, thread[e], rows)
    BY <1>1, <1>2, <2>1 DEF Alone, Disc!AtWork
  <2> QED  BY <1>1, <1>2, <2>1, <2>2, <2>3, <2>4, DiscLocal DEF Disc!AtWork
<1>8. ASSUME Disc!DrainTimesOut(e) PROVE DiscInv'
  <2>1. /\ exec[e].at = "draining" /\ lost' = TRUE
        /\ exec' = [exec EXCEPT ![e] = stopping] /\ thread' = [thread EXCEPT ![e] = told]
        /\ Disc!scan' = Disc!scan /\ user' = user /\ listed' = listed
        /\ again' = again /\ mixed' = mixed
    BY <1>8 DEF Disc!DrainTimesOut
  <2> HIDE DEF stopping, told
  <2>2. DiscMoves(e, stopping, told)
    BY <1>1, <1>3, <1>5, <2>1, DiscUpdate
  <2> QED  BY <1>1, <1>3, <1>5, <1>6, <2>1, <2>2, DiscLocal DEF Disc!AtWork
<1>9. ASSUME Disc!CompleteRaises(e) PROVE DiscInv'
  <2>1. /\ exec[e].at = "drained" /\ lost' = lost
        /\ exec' = [exec EXCEPT ![e] = failing] /\ thread' = [thread EXCEPT ![e] = thread[e]]
        /\ Disc!scan' = Disc!scan /\ user' = user /\ listed' = listed
        /\ again' = again /\ mixed' = mixed
    BY <1>1, <1>9 DEF Disc!CompleteRaises
  <2> HIDE DEF failing
  <2>2. DiscMoves(e, failing, thread[e])
    BY <1>1, <1>4, <2>1, DiscUpdate
  <2>3. ~lost => Drains(failing, thread[e], rows)
    BY <1>1, <1>4, <2>1 DEF Drains
  <2>4. Alone(failing, thread[e], rows)
    BY <1>4 DEF Alone
  <2> QED  BY <1>1, <1>4, <2>1, <2>2, <2>3, <2>4, DiscLocal
<1>10. ASSUME Disc!Kill(e) PROVE DiscInv'
  <2>1. /\ lost' = lost
        /\ exec' = [exec EXCEPT ![e] = Disc!Over] /\ thread' = [thread EXCEPT ![e] = Disc!Ended]
        /\ Disc!scan' = Disc!scan /\ user' = user /\ listed' = listed
        /\ again' = again /\ mixed' = mixed
    BY <1>10 DEF Disc!Kill
  <2>2. /\ Disc!Over \in DExec /\ Disc!Over.at = "over" /\ Disc!Over.copy = 0
        /\ Disc!Ended \in DThread /\ Disc!Ended.at = "gone"
    BY DiscRecords
  <2>3. DiscMoves(e, Disc!Over, Disc!Ended)
    BY <1>1, <2>1, <2>2, DiscUpdate
  <2>4. Shape(Disc!Ended, rows) /\ Drains(Disc!Over, Disc!Ended, rows) /\ Alone(Disc!Over, Disc!Ended, rows)
    BY <2>2 DEF Shape, Drains, Alone, Disc!AtWork
  <2> QED  BY <1>1, <2>1, <2>2, <2>3, <2>4, DiscLocal DEF Disc!AtWork
<1> QED  BY <1>7, <1>8, <1>9, <1>10

\* The thread takes an item, or ends: then the list has its rows.
LEMMA DiscTakes ==
    ASSUME Bounds, DiscInv, NEW e \in Disc!Execution, Disc!Take(e)
    PROVE  DiscInv'
<1>1. /\ exec[e] \in DExec /\ thread[e] \in DThread /\ lost \in BOOLEAN
      /\ Shape(thread[e], rows)
      /\ exec[e].at \in {"queued", "finding"} => ~exec[e].raised
      /\ ~lost => Drains(exec[e], thread[e], rows)
      /\ ~lost /\ ~mixed /\ ~again => Alone(exec[e], thread[e], rows)
      /\ exec = [exec EXCEPT ![e] = exec[e]] /\ DiscTyped
  BY DiscOne
<1> DEFINE q == thread[e].queue
           t == [thread[e] EXCEPT !.at = "rows"]
<1>2. q \in Seq(DItem)
  BY <1>1 DEF DThread
<1>3. /\ thread[e].at = "idle" /\ lost' = lost
      /\ exec' = [exec EXCEPT ![e] = exec[e]]
      /\ Disc!scan' = Disc!scan /\ user' = user /\ listed' = listed
      /\ again' = again /\ mixed' = mixed
      /\ \/ thread[e].stop /\ thread' = [thread EXCEPT ![e] = Disc!Ended]
         \/ /\ ~thread[e].stop /\ q # <<>> /\ Head(q) = Disc!Sentinel /\ thread' = [thread EXCEPT ![e] = Disc!Ended]
         \/ /\ ~thread[e].stop /\ q # <<>> /\ Head(q) # Disc!Sentinel /\ thread' = [thread EXCEPT ![e] = t]
  BY <1>1 DEF Disc!Take, Disc!Item, Disc!Move
<1>4. CASE thread[e].stop \/ (q # <<>> /\ Head(q) = Disc!Sentinel)
  <2>1. Disc!Ended \in DThread /\ Disc!Ended.at = "gone" /\ Disc!Ended.queue = <<>> /\ Disc!Sentinel.kind = "end"
    BY DiscRecords
  <2>2. thread' = [thread EXCEPT ![e] = Disc!Ended]
    BY <1>3, <1>4
  <2>3. DiscMoves(e, exec[e], Disc!Ended)
    BY <1>1, <1>3, <2>1, <2>2, DiscUpdate
  <2>4. Shape(Disc!Ended, rows) /\ (Alone(exec[e], thread[e], rows) => Alone(exec[e], Disc!Ended, rows))
    BY <2>1 DEF Shape, Alone
  <2>5. ~lost => Drains(exec[e], Disc!Ended, rows)
    <3> SUFFICES ASSUME ~lost PROVE Drains(exec[e], Disc!Ended, rows)
      OBVIOUS
    <3>1. exec[e].at \in {"finding", "draining"} /\ ~thread[e].stop
      BY <1>1, <1>3 DEF Drains
    <3>2. exec[e].at = "finding" => NoEnd(q)
      BY <1>1, <1>3 DEF Drains
    <3>3. ~NoEnd(q)
      BY <1>2, <1>4, <2>1, <3>1, DiscQueues
    <3>4. exec[e].at = "draining" /\ Closed(q, exec[e].live, rows)
      BY <1>1, <1>3, <3>1, <3>2, <3>3 DEF Drains
    <3>5. exec[e].live \subseteq rows
      BY <1>2, <1>4, <2>1, <3>1, <3>4, ClosedQueues
    <3> QED  BY <2>1, <3>4, <3>5 DEF Drains
  <2> QED  BY <1>1, <1>3, <2>1, <2>3, <2>4, <2>5, DiscLocal
<1>5. CASE ~thread[e].stop /\ q # <<>> /\ Head(q) # Disc!Sentinel
  <2>1. thread' = [thread EXCEPT ![e] = t]
    BY <1>3, <1>5
  <2>2. t \in DThread /\ t.at = "rows" /\ t.queue = q /\ t.stop = thread[e].stop
    BY <1>1 DEF DThread
  <2>3. Head(q) \in DItem
    BY <1>2, <1>5, DiscQueues
  <2>4. Head(q).kind # "end"
    BY <1>5, <2>3, DiscRecords
  <2> HIDE DEF t
  <2>5. DiscMoves(e, exec[e], t)
    BY <1>1, <1>3, <2>1, <2>2, DiscUpdate
  <2>6. Shape(t, rows)
    BY <1>5, <2>2, <2>4 DEF Shape
  <2>7. ~lost => Drains(exec[e], t, rows)
    BY <1>1, <1>3, <2>2 DEF Drains
  <2>8. Alone(exec[e], thread[e], rows) => Alone(exec[e], t, rows)
    BY <2>2 DEF Alone
  <2> QED  BY <1>1, <1>3, <2>2, <2>5, <2>6, <2>7, <2>8, DiscLocal
<1> QED  BY <1>3, <1>4, <1>5

\* Both modules count alike.
LEMMA SameSize == \A S : Disc!Cardinality(S) = Cardinality(S)
BY DEF Disc!Cardinality, Cardinality

\* A set of addresses has a size, and none is counted as none.
LEMMA HostSets ==
    ASSUME Finite, NEW S \in SUBSET Host
    PROVE  Cardinality(S) \in Nat /\ (S = {} => Cardinality(S) = 0)
BY FS_Subset, FS_CardinalityType, FS_EmptySet DEF Finite

\* The list is saved: without losses every host of it has its row.
LEMMA DiscCompletes ==
    ASSUME Bounds, Finite, DiscInv, NEW e \in Disc!Execution, Disc!Complete(e)
    PROVE  DiscInv'
<1>1. /\ exec[e] \in DExec /\ thread[e] \in DThread /\ lost \in BOOLEAN
      /\ Shape(thread[e], rows)
      /\ ~lost => Drains(exec[e], thread[e], rows)
      /\ ~lost /\ ~mixed /\ ~again => Alone(exec[e], thread[e], rows)
      /\ thread = [thread EXCEPT ![e] = thread[e]]
      /\ DiscTyped
  BY DiscOne
<1>2. DiscOrder
  BY DEF DiscInv
<1>3. /\ exec[e].at = "drained" /\ ~exec[e].raised
      /\ status' = "completed" /\ count' = Cardinality(exec[e].live) /\ listed' = exec[e].live
      /\ exec' = [exec EXCEPT ![e] = Disc!Over] /\ thread' = thread
      /\ rows' = rows /\ user' = user /\ again' = again /\ mixed' = mixed /\ lost' = lost
  BY SameSize DEF Disc!Complete
<1>4. Disc!Over \in DExec /\ Disc!Over.at = "over" /\ Disc!Over.copy = 0
  BY DiscRecords
<1>5. DiscMoves(e, Disc!Over, thread[e])
  BY <1>1, <1>3, <1>4, DiscUpdate
<1>6. exec[e].live \in SUBSET Host
  BY <1>1 DEF DExec
<1>7. count' \in Nat /\ (exec[e].live = {} => count' = 0)
  BY <1>3, <1>6, HostSets
<1>8. DiscTyped'
  BY <1>1, <1>3, <1>5, <1>6, <1>7 DEF DiscTyped, DiscMoves
<1>9. ~lost => exec[e].live \subseteq rows /\ thread[e].at = "gone"
  BY <1>1, <1>3 DEF Drains
<1>10. e \in Disc!Busy /\ ~(e \in Disc!Busy')
  BY <1>3, <1>4, <1>5 DEF DiscMoves, Disc!AtWork
<1>11. ~mixed => Disc!Busy' = {}
  BY <1>2, <1>5, <1>10 DEF DiscOrder, DiscMoves
<1>12. DiscOrder'
  <2>1. \A f \in Disc!Execution : /\ Shape(thread'[f], rows')
                                  /\ exec'[f].at \in {"queued", "finding"} => ~exec'[f].raised
    BY <1>1, <1>2, <1>3, <1>4, <1>5 DEF DiscOrder, DiscMoves
  <2>2. ~lost' => \A f \in Disc!Execution : Drains(exec'[f], thread'[f], rows')
    <3>1. ~lost => Drains(Disc!Over, thread[e], rows)
      BY <1>4, <1>9 DEF Drains
    <3> QED  BY <1>2, <1>3, <1>5, <3>1 DEF DiscOrder, DiscMoves
  <2>3. ~mixed' => /\ \A f, g \in Disc!Busy' : f = g
                   /\ status' \in {"completed", "failed"} => Disc!Busy' = {}
    BY <1>3, <1>11
  <2>4. ~lost' /\ ~mixed' /\ ~again' => \A f \in Disc!Execution : Alone(exec'[f], thread'[f], rows')
    <3>1. Alone(Disc!Over, thread[e], rows)
      BY <1>4 DEF Alone, Disc!AtWork
    <3> QED  BY <1>2, <1>3, <1>5, <3>1 DEF DiscOrder, DiscMoves
  <2>5. ~lost' /\ ~again' => \A f \in Disc!Execution : exec'[f].copy = 0
    BY <1>2, <1>3, <1>4, <1>5 DEF DiscOrder, DiscMoves
  <2>6. rows' = {} => ~again' /\ (~lost' => count' = 0 /\ user'.copy = 0)
    BY <1>2, <1>3, <1>7, <1>9 DEF DiscOrder
  <2> QED  BY <2>1, <2>2, <2>3, <2>4, <2>5, <2>6 DEF DiscOrder
<1>13. ~lost /\ ~mixed /\ ~again => rows \subseteq exec[e].live
  BY <1>1, <1>3 DEF Alone, Disc!AtWork
<1>14. Disc!HostsExplained'
  <2>1. listed' = exec[e].live /\ count' = Cardinality(listed') /\ status' # "failed"
    BY <1>3
  <2>2. ~lost' => listed' \subseteq rows'
    BY <1>3, <1>9, <2>1
  <2>3. rows' \ listed' # {} => again' \/ mixed' \/ lost'
    BY <1>3, <1>13, <2>1
  <2> QED  BY <2>1, <2>2, <2>3, SameSize DEF Disc!HostsExplained
<1> QED  BY <1>8, <1>12, <1>14 DEF DiscInv

\* A task is sent: the first execution that was not.
LEMMA DiscFree ==
    ASSUME DiscInv, NEW new \in Disc!Free
    PROVE  /\ new \in Disc!Execution /\ exec[new].at = "none"
           /\ ~lost => thread[new].at = "gone"
BY DEF DiscInv, DiscOrder, Drains, Disc!Free

\* The failure is saved: with the counter of the start, and what follows it is queued.
LEMMA DiscFails ==
    ASSUME Bounds, DiscInv, NEW e \in Disc!Execution, Disc!Fail(e)
    PROVE  DiscInv'
<1>1. /\ exec[e] \in DExec /\ thread[e] \in DThread /\ lost \in BOOLEAN
      /\ ~lost => Drains(exec[e], thread[e], rows)
      /\ DiscTyped
  BY DiscOne
<1>2. DiscOrder /\ Disc!HostsExplained
  BY DEF DiscInv
<1>3. /\ exec[e].at = "drained"
      /\ status' = "failed" /\ count' = exec[e].copy
      /\ rows' = rows /\ thread' = thread /\ user' = user /\ listed' = listed
      /\ again' = again /\ mixed' = mixed /\ lost' = lost
  BY DEF Disc!Fail, Disc!Failed
<1>4. /\ Disc!Over \in DExec /\ Disc!Over.at = "over" /\ Disc!Over.copy = 0
      /\ \A n \in 0 .. MaxRetries : Disc!Queued(n) \in DExec /\ Disc!Queued(n).at = "queued" /\ Disc!Queued(n).copy = 0
  BY DiscRecords
<1>5. \A n : Disc!Queued(n).raised = FALSE
  BY DEF Disc!Queued
<1>6. /\ exec' \in [Disc!Execution -> DExec] /\ exec'[e].at = "over" /\ exec'[e].copy = 0
      /\ \A f \in Disc!Execution : f # e =>
           \/ exec'[f] = exec[f]
           \/ /\ exec'[f].at = "queued" /\ exec'[f].copy = 0 /\ exec'[f].raised = FALSE
              /\ ~lost => thread[f].at = "gone"
  <2>1. CASE exec[e].retries < MaxRetries
    <3>1. PICK new \in Disc!Free : exec' = [exec EXCEPT ![e] = Disc!Over, ![new] = Disc!Queued(exec[e].retries + 1)]
      BY <2>1 DEF Disc!Fail
    <3>2. exec[e].retries + 1 \in 0 .. MaxRetries
      <4>1. exec[e].retries \in 0 .. MaxRetries /\ MaxRetries \in Nat
        BY <1>1 DEF DExec, Bounds
      <4> QED  BY <2>1, <4>1
    <3> DEFINE y == Disc!Queued(exec[e].retries + 1)
    <3>3. y \in DExec /\ y.at = "queued" /\ y.copy = 0 /\ y.raised = FALSE
      BY <1>4, <1>5, <3>2
    <3> HIDE DEF y
    <3>4. new \in Disc!Execution /\ exec[new].at = "none" /\ (~lost => thread[new].at = "gone")
      BY DiscFree
    <3>5. new # e
      BY <1>3, <3>4
    <3>6. exec' = [exec EXCEPT ![e] = Disc!Over, ![new] = y]
      BY <3>1 DEF y
    <3>7. exec \in [Disc!Execution -> DExec]
      BY <1>1 DEF DiscTyped
    <3>8. exec' \in [Disc!Execution -> DExec] /\ exec'[e] = Disc!Over /\ exec'[new] = y
      BY <1>4, <3>3, <3>4, <3>5, <3>6, <3>7
    <3>9. \A f \in Disc!Execution : f # e /\ f # new => exec'[f] = exec[f]
      BY <3>4, <3>6, <3>7
    <3> QED  BY <1>4, <3>3, <3>4, <3>8, <3>9
  <2>2. CASE ~(exec[e].retries < MaxRetries)
    <3>1. exec' = [exec EXCEPT ![e] = Disc!Over]
      BY <2>2 DEF Disc!Fail
    <3> QED  BY <1>1, <1>4, <3>1 DEF DiscTyped
  <2> QED  BY <2>1, <2>2
<1>7. exec[e].copy \in Nat
  BY <1>1 DEF DExec
<1>8. DiscTyped'
  BY <1>1, <1>3, <1>6, <1>7 DEF DiscTyped
<1>9. /\ Disc!Busy' \subseteq Disc!Busy /\ e \in Disc!Busy /\ ~(e \in Disc!Busy')
  BY <1>3, <1>6 DEF Disc!Busy, Disc!AtWork
<1>10. ~mixed => Disc!Busy' = {}
  BY <1>2, <1>9 DEF DiscOrder
<1>11. \A f \in Disc!Execution : /\ exec'[f].at \in {"queued", "finding"} => ~exec'[f].raised
                                 /\ exec'[f] = exec[f] \/ (exec'[f].at \in {"queued", "over"} /\ exec'[f].copy = 0)
  BY <1>2, <1>6 DEF DiscOrder
<1>12. DiscOrder'
  <2>1. \A f \in Disc!Execution : /\ Shape(thread'[f], rows')
                                  /\ exec'[f].at \in {"queued", "finding"} => ~exec'[f].raised
    BY <1>2, <1>3, <1>11 DEF DiscOrder
  <2>2. ~lost' => \A f \in Disc!Execution : Drains(exec'[f], thread'[f], rows')
    <3> SUFFICES ASSUME ~lost', NEW f \in Disc!Execution PROVE Drains(exec'[f], thread'[f], rows')
      OBVIOUS
    <3>1. Drains(exec[f], thread[f], rows) /\ Drains(exec[e], thread[e], rows)
      BY <1>2, <1>3 DEF DiscOrder
    <3>2. thread[e].at = "gone"
      BY <1>3, <3>1 DEF Drains
    <3>3. CASE f = e
      BY <1>3, <1>6, <3>2, <3>3 DEF Drains
    <3>4. CASE f # e
      BY <1>3, <1>6, <3>1, <3>4 DEF Drains
    <3> QED  BY <3>3, <3>4
  <2>3. ~mixed' => /\ \A f, g \in Disc!Busy' : f = g
                   /\ status' \in {"completed", "failed"} => Disc!Busy' = {}
    BY <1>3, <1>10
  <2>4. ~lost' /\ ~mixed' /\ ~again' => \A f \in Disc!Execution : Alone(exec'[f], thread'[f], rows')
    <3> SUFFICES ASSUME ~lost', ~mixed', ~again', NEW f \in Disc!Execution PROVE Alone(exec'[f], thread'[f], rows')
      OBVIOUS
    <3>1. Alone(exec[f], thread[f], rows)
      BY <1>2, <1>3 DEF DiscOrder
    <3>2. exec'[f].at \in {"queued", "over"} => Alone(exec'[f], thread'[f], rows')
      BY DEF Alone, Disc!AtWork
    <3> QED  BY <1>3, <1>11, <3>1, <3>2
  <2>5. ~lost' /\ ~again' => \A f \in Disc!Execution : exec'[f].copy = 0
    BY <1>2, <1>3, <1>11 DEF DiscOrder
  <2>6. rows' = {} => ~again' /\ (~lost' => count' = 0 /\ user'.copy = 0)
    BY <1>2, <1>3 DEF DiscOrder
  <2> QED  BY <2>1, <2>2, <2>3, <2>4, <2>5, <2>6 DEF DiscOrder
<1>13. Disc!HostsExplained'
  BY <1>2, <1>3 DEF Disc!HostsExplained, DiscOrder
<1> QED  BY <1>8, <1>12, <1>13 DEF DiscInv

\* Without losses a thread that writes has its execution waiting for it.
LEMMA DiscWriter ==
    ASSUME DiscInv, NEW e \in Disc!Execution, thread[e].at \in {"rows", "count"}
    PROVE  /\ thread[e].queue \in Seq(DItem) /\ thread[e].queue # <<>>
           /\ Head(thread[e].queue) \in DItem /\ Head(thread[e].queue).kind # "end"
           /\ Head(thread[e].queue).hosts \subseteq Host
           /\ ~lost => e \in Disc!Busy
           /\ ~lost /\ ~mixed => status \notin {"completed", "failed"}
           /\ \A f \in Disc!Execution : ~lost /\ ~mixed /\ f # e => exec[f].at \notin Disc!AtWork
<1>1. /\ thread[e] \in DThread /\ Shape(thread[e], rows) /\ (~lost => Drains(exec[e], thread[e], rows))
  BY DiscOne
<1>2. thread[e].queue \in Seq(DItem) /\ thread[e].queue # <<>> /\ Head(thread[e].queue).kind # "end"
  BY <1>1 DEF Shape, DThread
<1>3. Head(thread[e].queue) \in DItem
  BY <1>2, DiscQueues
<1>4. Head(thread[e].queue).hosts \subseteq Host
  BY <1>3 DEF DItem, Disc!Sentinel
<1>5. ~lost => e \in Disc!Busy
  BY <1>1 DEF Drains, Disc!Busy, Disc!AtWork
<1>6. ~mixed => /\ \A f, g \in Disc!Busy : f = g
                /\ status \in {"completed", "failed"} => Disc!Busy = {}
  BY DEF DiscInv, DiscOrder
<1>7. \A f \in Disc!Execution : ~lost /\ ~mixed /\ f # e => exec[f].at \notin Disc!AtWork
  BY <1>5, <1>6 DEF Disc!Busy
<1> QED  BY <1>2, <1>3, <1>4, <1>5, <1>6, <1>7

\* The rows of an item are written: the execution that reported them knows of them.
LEMMA DiscWritesRows ==
    ASSUME Bounds, DiscInv, NEW e \in Disc!Execution, Disc!WriteRows(e)
    PROVE  DiscInv'
<1> DEFINE q == thread[e].queue
           new == Head(q).hosts
           t == [thread[e] EXCEPT !.at = "count"]
<1>1. /\ exec[e] \in DExec /\ thread[e] \in DThread /\ lost \in BOOLEAN
      /\ Shape(thread[e], rows)
      /\ ~lost => Drains(exec[e], thread[e], rows)
      /\ ~lost /\ ~mixed /\ ~again => Alone(exec[e], thread[e], rows)
      /\ exec = [exec EXCEPT ![e] = exec[e]] /\ DiscTyped
  BY DiscOne
<1>2. DiscOrder /\ Disc!HostsExplained
  BY DEF DiscInv
<1>3. /\ thread[e].at = "rows" /\ rows' = rows \cup new
      /\ exec' = [exec EXCEPT ![e] = exec[e]] /\ thread' = [thread EXCEPT ![e] = t]
      /\ status' = status /\ count' = count /\ user' = user /\ listed' = listed
      /\ again' = again /\ mixed' = mixed /\ lost' = lost
  BY <1>1 DEF Disc!WriteRows, Disc!Item, Disc!Move
<1>4. /\ q \in Seq(DItem) /\ q # <<>> /\ Head(q).kind # "end" /\ new \subseteq Host
      /\ ~lost => e \in Disc!Busy
      /\ ~lost /\ ~mixed => status \notin {"completed", "failed"}
      /\ \A f \in Disc!Execution : ~lost /\ ~mixed /\ f # e => exec[f].at \notin Disc!AtWork
  BY <1>3, DiscWriter
<1>5. t \in DThread /\ t.at = "count" /\ t.queue = q /\ t.stop = thread[e].stop
  BY <1>1 DEF DThread
<1> HIDE DEF t
<1>6. DiscMoves(e, exec[e], t)
  BY <1>1, <1>3, <1>5, DiscUpdate
<1>7. DiscTyped'
  BY <1>1, <1>3, <1>4, <1>6 DEF DiscTyped, DiscMoves
<1>8. Disc!Busy' = Disc!Busy
  BY <1>6 DEF DiscMoves
<1>9. Shape(t, rows') /\ (~lost => Drains(exec[e], t, rows'))
  <2>1. Shape(t, rows')
    BY <1>3, <1>4, <1>5 DEF Shape
  <2>2. ~lost => Drains(exec[e], t, rows)
    BY <1>1, <1>3, <1>5 DEF Drains
  <2> QED  BY <1>3, <2>1, <2>2, MoreRows
<1>10. DiscOrder'
  <2>1. \A f \in Disc!Execution : /\ Shape(thread'[f], rows')
                                  /\ exec'[f].at \in {"queued", "finding"} => ~exec'[f].raised
    <3>1. \A f \in Disc!Execution : Shape(thread[f], rows')
      <4>1. rows \subseteq rows'
        BY <1>3
      <4> QED  BY <1>2, <4>1, MoreRows DEF DiscOrder
    <3> QED  BY <1>2, <1>6, <1>9, <3>1 DEF DiscOrder, DiscMoves
  <2>2. ~lost' => \A f \in Disc!Execution : Drains(exec'[f], thread'[f], rows')
    <3>1. ~lost => \A f \in Disc!Execution : Drains(exec[f], thread[f], rows')
      BY <1>2, <1>3, MoreRows DEF DiscOrder
    <3> QED  BY <1>3, <1>6, <1>9, <3>1 DEF DiscMoves
  <2>3. ~mixed' => /\ \A f, g \in Disc!Busy' : f = g
                   /\ status' \in {"completed", "failed"} => Disc!Busy' = {}
    BY <1>2, <1>3, <1>8 DEF DiscOrder
  <2>4. ~lost' /\ ~mixed' /\ ~again' => \A f \in Disc!Execution : Alone(exec'[f], thread'[f], rows')
    <3> SUFFICES ASSUME ~lost', ~mixed', ~again', NEW f \in Disc!Execution PROVE Alone(exec'[f], thread'[f], rows')
      OBVIOUS
    <3>1. CASE f = e
      <4> SUFFICES ASSUME exec[e].at \in Disc!AtWork, ~exec[e].raised
                   PROVE  rows' \subseteq exec[e].live /\ \A i \in 1 .. Len(q) : q[i].hosts \subseteq exec[e].live
        BY <1>5, <1>6, <3>1 DEF Alone, DiscMoves
      <4>1. rows \subseteq exec[e].live /\ \A i \in 1 .. Len(q) : q[i].hosts \subseteq exec[e].live
        BY <1>1, <1>3 DEF Alone
      <4>2. new \subseteq exec[e].live
        BY <1>4, <4>1, DiscQueues
      <4> QED  BY <1>3, <4>1, <4>2
    <3>2. CASE f # e
      BY <1>3, <1>4, <1>6, <3>2 DEF Alone, DiscMoves
    <3> QED  BY <3>1, <3>2
  <2>5. ~lost' /\ ~again' => \A f \in Disc!Execution : exec'[f].copy = 0
    BY <1>2, <1>3, <1>6 DEF DiscOrder, DiscMoves
  <2>6. rows' = {} => ~again' /\ (~lost' => count' = 0 /\ user'.copy = 0)
    BY <1>2, <1>3 DEF DiscOrder
  <2> QED  BY <2>1, <2>2, <2>3, <2>4, <2>5, <2>6 DEF DiscOrder
<1>11. Disc!HostsExplained'
  BY <1>2, <1>3, <1>4 DEF Disc!HostsExplained
<1> QED  BY <1>7, <1>10, <1>11 DEF DiscInv

\* The item is done with: what is left of a thread.
LEMMA DiscAdvances ==
    ASSUME DiscInv, NEW e \in Disc!Execution, thread[e].at \in {"rows", "count"}, Disc!Advance(e)
    PROVE  \E t \in DThread :
             /\ thread' = [thread EXCEPT ![e] = t] /\ Shape(t, rows)
             /\ ~lost /\ thread[e].at = "count" => Drains(exec[e], t, rows)
             /\ Alone(exec[e], thread[e], rows) => Alone(exec[e], t, rows)
<1> DEFINE q == thread[e].queue
           t == [thread[e] EXCEPT !.at = "idle", !.queue = Tail(@)]
<1>1. /\ exec[e] \in DExec /\ thread[e] \in DThread
      /\ Shape(thread[e], rows) /\ (~lost => Drains(exec[e], thread[e], rows))
  BY DiscOne
<1>2. q \in Seq(DItem) /\ q # <<>> /\ Head(q).kind # "end"
  BY DiscWriter
<1>3. /\ Tail(q) \in Seq(DItem)
      /\ NoEnd(q) => NoEnd(Tail(q))
      /\ \A L : (\A i \in 1 .. Len(q) : q[i].hosts \subseteq L) =>
           \A i \in 1 .. Len(Tail(q)) : Tail(q)[i].hosts \subseteq L
      /\ Closed(q, exec[e].live, rows) /\ Head(q).hosts \subseteq rows => Closed(Tail(q), exec[e].live, rows)
  BY <1>2, DiscQueues, ClosedQueues
<1>4. t \in DThread /\ t.at = "idle" /\ t.queue = Tail(q) /\ t.stop = thread[e].stop
  BY <1>1, <1>3 DEF DThread
<1>5. thread' = [thread EXCEPT ![e] = t]
  BY DEF Disc!Advance
<1> HIDE DEF t, q
<1>6. Shape(t, rows)
  BY <1>4 DEF Shape
<1>7. ~lost /\ thread[e].at = "count" => Drains(exec[e], t, rows)
  BY <1>1, <1>3, <1>4 DEF Drains, Shape, q
<1>8. Alone(exec[e], thread[e], rows) => Alone(exec[e], t, rows)
  BY <1>3, <1>4 DEF Alone, q
<1> QED  BY <1>4, <1>5, <1>6, <1>7, <1>8

\* The counter follows.
LEMMA DiscWritesCount ==
    ASSUME Bounds, Finite, DiscInv, NEW e \in Disc!Execution, Disc!WriteCount(e)
    PROVE  DiscInv'
<1> DEFINE q == thread[e].queue
<1>1. /\ exec[e] \in DExec /\ thread[e] \in DThread /\ lost \in BOOLEAN
      /\ Shape(thread[e], rows)
      /\ ~lost /\ ~mixed /\ ~again => Alone(exec[e], thread[e], rows)
      /\ exec = [exec EXCEPT ![e] = exec[e]] /\ DiscTyped
  BY DiscOne
<1>2. DiscOrder /\ Disc!HostsExplained
  BY DEF DiscInv
<1>3. /\ thread[e].at = "count" /\ Disc!Advance(e)
      /\ count' = (IF Head(q).kind = "new" THEN count ELSE 0) + Cardinality(Head(q).hosts)
      /\ exec' = [exec EXCEPT ![e] = exec[e]]
      /\ status' = status /\ rows' = rows /\ user' = user /\ listed' = listed
      /\ again' = again /\ mixed' = mixed /\ lost' = lost
  BY <1>1, SameSize DEF Disc!WriteCount, Disc!Item
<1>4. PICK t \in DThread :
             /\ thread' = [thread EXCEPT ![e] = t] /\ Shape(t, rows)
             /\ ~lost /\ thread[e].at = "count" => Drains(exec[e], t, rows)
             /\ Alone(exec[e], thread[e], rows) => Alone(exec[e], t, rows)
  BY <1>3, DiscAdvances
<1>5. /\ Head(q).hosts \subseteq Host /\ Head(q).hosts \subseteq rows
      /\ ~lost /\ ~mixed => status \notin {"completed", "failed"}
  BY <1>1, <1>3, DiscWriter DEF Shape
<1>6. Cardinality(Head(q).hosts) \in Nat /\ (Head(q).hosts = {} => Cardinality(Head(q).hosts) = 0)
  BY <1>5, HostSets
<1>7. count \in Nat
  BY <1>1 DEF DiscTyped
<1>8. count' \in Nat /\ (rows = {} /\ count = 0 => count' = 0)
  <2> DEFINE c == Cardinality(Head(q).hosts)
  <2>1. count' = count + c \/ count' = 0 + c
    BY <1>3
  <2>2. rows = {} => c = 0
    BY <1>5, <1>6
  <2>3. c \in Nat
    BY <1>6
  <2> HIDE DEF c
  <2> QED  BY <1>7, <2>1, <2>2, <2>3
<1>9. DiscMoves(e, exec[e], t)
  BY <1>1, <1>3, <1>4, DiscUpdate
<1>10. DiscTyped'
  BY <1>1, <1>3, <1>8, <1>9 DEF DiscTyped, DiscMoves
<1>11. Disc!Busy' = Disc!Busy
  BY <1>9 DEF DiscMoves
<1>12. DiscOrder'
  <2>1. \A f \in Disc!Execution : /\ Shape(thread'[f], rows')
                                  /\ exec'[f].at \in {"queued", "finding"} => ~exec'[f].raised
    BY <1>2, <1>3, <1>4, <1>9 DEF DiscOrder, DiscMoves
  <2>2. ~lost' => \A f \in Disc!Execution : Drains(exec'[f], thread'[f], rows')
    BY <1>2, <1>3, <1>4, <1>9 DEF DiscOrder, DiscMoves
  <2>3. ~mixed' => /\ \A f, g \in Disc!Busy' : f = g
                   /\ status' \in {"completed", "failed"} => Disc!Busy' = {}
    BY <1>2, <1>3, <1>11 DEF DiscOrder
  <2>4. ~lost' /\ ~mixed' /\ ~again' => \A f \in Disc!Execution : Alone(exec'[f], thread'[f], rows')
    BY <1>1, <1>2, <1>3, <1>4, <1>9 DEF DiscOrder, DiscMoves
  <2>5. ~lost' /\ ~again' => \A f \in Disc!Execution : exec'[f].copy = 0
    BY <1>2, <1>3, <1>9 DEF DiscOrder, DiscMoves
  <2>6. rows' = {} => ~again' /\ (~lost' => count' = 0 /\ user'.copy = 0)
    BY <1>2, <1>3, <1>8 DEF DiscOrder
  <2> QED  BY <2>1, <2>2, <2>3, <2>4, <2>5, <2>6 DEF DiscOrder
<1>13. Disc!HostsExplained'
  BY <1>2, <1>3, <1>5 DEF Disc!HostsExplained
<1> QED  BY <1>10, <1>12, <1>13 DEF DiscInv

\* A write fails: some of the rows are there, and the loss is on record.
LEMMA DiscWriteFails ==
    ASSUME Bounds, DiscInv, NEW e \in Disc!Execution, Disc!WriteFails(e)
    PROVE  DiscInv'
<1>1. /\ exec[e] \in DExec /\ thread[e] \in DThread
      /\ exec = [exec EXCEPT ![e] = exec[e]] /\ DiscTyped
  BY DiscOne
<1>2. DiscOrder /\ Disc!HostsExplained
  BY DEF DiscInv
<1>3. /\ thread[e].at \in {"rows", "count"} /\ Disc!Advance(e) /\ lost' = TRUE
      /\ exec' = [exec EXCEPT ![e] = exec[e]]
      /\ status' = status /\ count' = count /\ user' = user /\ listed' = listed
      /\ again' = again /\ mixed' = mixed
      /\ \E some \in SUBSET (Head(thread[e].queue).hosts \ IF thread[e].at = "rows" THEN {} ELSE rows) : rows' = rows \cup some
  BY <1>1 DEF Disc!WriteFails, Disc!Item
<1>4. PICK t \in DThread : thread' = [thread EXCEPT ![e] = t] /\ Shape(t, rows)
  BY <1>3, DiscAdvances
<1>5. rows \subseteq rows' /\ rows' \subseteq Host
  BY <1>1, <1>3, DiscWriter DEF DiscTyped
<1>6. DiscMoves(e, exec[e], t)
  BY <1>1, <1>3, <1>4, DiscUpdate
<1>7. DiscTyped'
  BY <1>1, <1>3, <1>5, <1>6 DEF DiscTyped, DiscMoves
<1>8. Disc!Busy' = Disc!Busy
  BY <1>6 DEF DiscMoves
<1>9. DiscOrder'
  <2>1. \A f \in Disc!Execution : /\ Shape(thread'[f], rows')
                                  /\ exec'[f].at \in {"queued", "finding"} => ~exec'[f].raised
    <3>1. \A f \in Disc!Execution : Shape(thread[f], rows')
      BY <1>2, <1>5, MoreRows DEF DiscOrder
    <3>2. Shape(t, rows')
      BY <1>4, <1>5, MoreRows
    <3> QED  BY <1>2, <1>6, <3>1, <3>2 DEF DiscOrder, DiscMoves
  <2>2. ~mixed' => /\ \A f, g \in Disc!Busy' : f = g
                   /\ status' \in {"completed", "failed"} => Disc!Busy' = {}
    BY <1>2, <1>3, <1>8 DEF DiscOrder
  <2>3. rows' = {} => ~again'
    BY <1>2, <1>3, <1>5 DEF DiscOrder
  <2> QED  BY <1>3, <2>1, <2>2, <2>3 DEF DiscOrder
<1>10. Disc!HostsExplained'
  BY <1>3 DEF Disc!HostsExplained
<1> QED  BY <1>7, <1>9, <1>10 DEF DiscInv

\* A request of the user touches no rows; a retry queues an execution.
LEMMA DiscAsked ==
    ASSUME Bounds, DiscInv, Disc!User
    PROVE  DiscInv'
<1>1. DiscTyped /\ DiscOrder /\ Disc!HostsExplained
  BY DEF DiscInv
<1>2. user \in DUser /\ count \in Nat /\ exec \in [Disc!Execution -> DExec]
  BY <1>1 DEF DiscTyped
<1>3. user.copy \in Nat /\ user.left \in Int
  BY <1>2 DEF DUser
<1>4. /\ status' \in {"pending", "running", "completed", "failed", "cancelled"}
      /\ status' \in {"completed", "failed"} => status' = status /\ count' = count
      /\ count' \in {count, user.copy}
      /\ user' \in DUser /\ user'.copy \in {count, user.copy}
      /\ rows' = rows /\ thread' = thread /\ listed' = listed
      /\ again' = again /\ mixed' = mixed /\ lost' = lost
  <2>1. ASSUME NEW what \in {"cancel", "retry"}, NEW from, Disc!Read(what, from)
        PROVE  /\ user' \in DUser /\ user'.copy = count /\ status' = status /\ count' = count
               /\ rows' = rows /\ thread' = thread /\ listed' = listed
               /\ again' = again /\ mixed' = mixed /\ lost' = lost
    <3>1. user.left - 1 \in Int
      BY <1>3
    <3>2. user' = [at |-> what, copy |-> count, left |-> user.left - 1]
      BY <2>1 DEF Disc!Read
    <3>3. user' \in DUser /\ user'.copy = count
      BY <1>2, <3>1, <3>2 DEF DUser
    <3> QED  BY <2>1, <3>3 DEF Disc!Read, Disc!scan
  <2>2. \A where \in {"none", "launch"} : [user EXCEPT !.at = where] \in DUser /\ [user EXCEPT !.at = where].copy = user.copy
    BY <1>2 DEF DUser
  <2>3. CASE Disc!ReadCancel \/ Disc!ReadRetry
    BY <1>1, <2>1, <2>3 DEF Disc!ReadCancel, Disc!ReadRetry, DiscTyped
  <2>4. CASE Disc!SaveCancel
    BY <2>2, <2>4 DEF Disc!SaveCancel
  <2>5. CASE Disc!SaveRetry
    BY <2>2, <2>5 DEF Disc!SaveRetry
  <2>6. CASE Disc!SaveLaunched
    BY <2>2, <2>6 DEF Disc!SaveLaunched
  <2> QED  BY <2>3, <2>4, <2>5, <2>6 DEF Disc!User
<1>5. /\ exec' \in [Disc!Execution -> DExec]
      /\ \A f \in Disc!Execution :
           \/ exec'[f] = exec[f]
           \/ /\ exec'[f].at = "queued" /\ exec'[f].copy = 0 /\ exec'[f].raised = FALSE
              /\ exec[f].at = "none" /\ (~lost => thread[f].at = "gone")
  <2>1. CASE Disc!SaveRetry
    <3>1. PICK new \in Disc!Free : exec' = [exec EXCEPT ![new] = Disc!Queued(0)]
      BY <2>1 DEF Disc!SaveRetry
    <3>2. Disc!Queued(0) \in DExec /\ Disc!Queued(0).at = "queued" /\ Disc!Queued(0).copy = 0
      BY DiscRecords
    <3>3. Disc!Queued(0).raised = FALSE
      BY DEF Disc!Queued
    <3> DEFINE y == Disc!Queued(0)
    <3> HIDE DEF y
    <3>4. exec' = [exec EXCEPT ![new] = y] /\ y \in DExec /\ y.at = "queued" /\ y.copy = 0 /\ y.raised = FALSE
      BY <3>1, <3>2, <3>3 DEF y
    <3>5. new \in Disc!Execution /\ exec[new].at = "none" /\ (~lost => thread[new].at = "gone")
      BY DiscFree
    <3> QED  BY <1>2, <3>4, <3>5
  <2>2. CASE ~Disc!SaveRetry
    <3>1. exec' = exec
      BY <2>2 DEF Disc!User, Disc!ReadCancel, Disc!ReadRetry, Disc!Read, Disc!SaveCancel, Disc!SaveLaunched
    <3> QED  BY <1>2, <3>1
  <2> QED  BY <2>1, <2>2
<1>6. DiscTyped'
  BY <1>1, <1>2, <1>3, <1>4, <1>5 DEF DiscTyped
<1>7. Disc!Busy' = Disc!Busy
  BY <1>5 DEF Disc!Busy, Disc!AtWork
<1>8. DiscOrder'
  <2>1. \A f \in Disc!Execution : /\ Shape(thread'[f], rows')
                                  /\ exec'[f].at \in {"queued", "finding"} => ~exec'[f].raised
    BY <1>1, <1>4, <1>5 DEF DiscOrder
  <2>2. ~lost' => \A f \in Disc!Execution : Drains(exec'[f], thread'[f], rows')
    <3> SUFFICES ASSUME ~lost', NEW f \in Disc!Execution PROVE Drains(exec'[f], thread'[f], rows')
      OBVIOUS
    <3>1. Drains(exec[f], thread[f], rows)
      BY <1>1, <1>4 DEF DiscOrder
    <3> QED  BY <1>4, <1>5, <3>1 DEF Drains
  <2>3. ~mixed' => /\ \A f, g \in Disc!Busy' : f = g
                   /\ status' \in {"completed", "failed"} => Disc!Busy' = {}
    BY <1>1, <1>4, <1>7 DEF DiscOrder
  <2>4. ~lost' /\ ~mixed' /\ ~again' => \A f \in Disc!Execution : Alone(exec'[f], thread'[f], rows')
    <3> SUFFICES ASSUME ~lost', ~mixed', ~again', NEW f \in Disc!Execution PROVE Alone(exec'[f], thread'[f], rows')
      OBVIOUS
    <3>1. Alone(exec[f], thread[f], rows)
      BY <1>1, <1>4 DEF DiscOrder
    <3> QED  BY <1>4, <1>5, <3>1 DEF Alone, Disc!AtWork
  <2>5. ~lost' /\ ~again' => \A f \in Disc!Execution : exec'[f].copy = 0
    BY <1>1, <1>4, <1>5 DEF DiscOrder
  <2>6. rows' = {} => ~again' /\ (~lost' => count' = 0 /\ user'.copy = 0)
    BY <1>1, <1>4 DEF DiscOrder
  <2> QED  BY <2>1, <2>2, <2>3, <2>4, <2>5, <2>6 DEF DiscOrder
<1>9. Disc!HostsExplained'
  BY <1>1, <1>4 DEF Disc!HostsExplained
<1> QED  BY <1>6, <1>8, <1>9 DEF DiscInv

\* Every step keeps the invariant.
LEMMA DiscKeeps ==
    ASSUME Bounds, Finite, DiscInv, [Disc!Next]_(Disc!vars)
    PROVE  DiscInv'
<1>1. CASE Disc!Next
  <2>1. ASSUME NEW e \in Disc!Execution, Disc!Task(e) \/ Disc!Thread(e) \/ Disc!Kill(e) PROVE DiscInv'
    BY <2>1, DiscMarks, DiscReports, DiscEnds, DiscWaits, DiscTakes, DiscCompletes, DiscFails,
       DiscWritesRows, DiscWritesCount, DiscWriteFails DEF Disc!Task, Disc!Thread
  <2> QED  BY <1>1, <2>1, DiscAsked DEF Disc!Next
<1>2. CASE UNCHANGED Disc!vars
  <2>1. /\ status' = status /\ count' = count /\ rows' = rows /\ exec' = exec /\ thread' = thread
        /\ user' = user /\ listed' = listed /\ again' = again /\ mixed' = mixed /\ lost' = lost
    BY <1>2 DEF Disc!vars, Disc!scan
  <2>2. Disc!Busy' = Disc!Busy
    BY <2>1 DEF Disc!Busy
  <2>3. DiscTyped' /\ Disc!HostsExplained'
    BY <2>1 DEF DiscInv, DiscTyped, Disc!HostsExplained
  <2>4. DiscOrder'
    BY <2>1, <2>2 DEF DiscInv, DiscOrder
  <2> QED  BY <2>3, <2>4 DEF DiscInv
<1> QED  BY <1>1, <1>2

\* What is typed above is typed there.
LEMMA DiscTypes == DiscTyped => Disc!TypeOK
<1> SUFFICES ASSUME DiscTyped PROVE Disc!TypeOK
  OBVIOUS
<1>1. exec \in [Disc!Execution -> DExec] /\ user \in DUser
  BY DEF DiscTyped
<1>2. ASSUME NEW e \in Disc!Execution
      PROVE  /\ thread[e].at \in {"idle", "rows", "count", "gone"} /\ thread[e].stop \in BOOLEAN
             /\ \A i \in DOMAIN thread[e].queue : thread[e].queue[i].hosts \subseteq Host
  <2>1. thread[e] \in DThread
    BY DEF DiscTyped
  <2>2. thread[e].queue \in Seq(DItem)
    BY <2>1 DEF DThread
  <2>3. \A i \in DOMAIN thread[e].queue : thread[e].queue[i] \in DItem
    BY <2>2
  <2>4. \A it \in DItem : it.hosts \subseteq Host
    BY DEF DItem, Disc!Sentinel
  <2> QED  BY <2>1, <2>3, <2>4 DEF DThread
<1> QED  BY <1>1, <1>2 DEF DiscTyped, Disc!TypeOK, DExec, DUser

-----------------------------------------------------------------------------
(* The matching: every key is there once, for a reason.                    *)

Unique(rs) == \A r, x \in rs : r.key = x.key => r = x
Highs == UNION {Msf!High(f) : f \in findings}

\* What a match may be after n ports.
Sure(r, n) ==
    \/ r.confidence = "high" /\ r.key \in Highs
    \/ /\ r.confidence = "medium" /\ r.key \notin Highs
       /\ \E i \in 1 .. n : r.key \in Msf!Medium(ports[i])
    \/ /\ r.confidence = "low" /\ r.key \notin Highs
       /\ \E i \in 1 .. n : r.key \in Msf!Low(ports[i]) /\ r.key \notin Msf!Medium(ports[i])

Has(rs, keys) == \A k \in keys : \E r \in rs : r.key = k

Matched(rs, n) ==
    /\ Unique(rs) /\ Has(rs, Highs)
    /\ \A r \in rs : Sure(r, n)
    /\ \A i \in 1 .. n : Has(rs, Msf!Medium(ports[i])) /\ Has(rs, Msf!Low(ports[i]))

Rows(rs) == {[key |-> r.key, confidence |-> r.confidence,
              port |-> Msf!PortId(r.key.host, r.key.port)] : r \in {x \in rs : x.key.host \in hosts}}

MsfInv ==
    /\ ports \in Seq(PortRows) /\ Len(ports) \in 0 .. 2
    /\ at \in 0 .. Len(ports) + 2
    /\ IF at = 0 THEN results = {}
       ELSE IF at \in 1 .. Len(ports) THEN Matched(results, at - 1) ELSE Matched(results, Len(ports))
    /\ stored = IF at = Len(ports) + 2 THEN Rows(results) ELSE {}

\* What is added is new, and what was there stays.
LEMMA AddFacts ==
    ASSUME NEW rs, NEW keys, NEW c
    PROVE  /\ rs \subseteq Msf!Add(rs, keys, c) /\ Has(Msf!Add(rs, keys, c), keys)
           /\ \A r \in Msf!Add(rs, keys, c) :
                r \in rs \/ (r.key \in keys /\ r.confidence = c /\ \A x \in rs : x.key # r.key)
           /\ Unique(rs) => Unique(Msf!Add(rs, keys, c))
<1> DEFINE new == {[key |-> k, confidence |-> c] : k \in keys \ {r.key : r \in rs}}
<1>1. Msf!Add(rs, keys, c) = rs \cup new
  BY DEF Msf!Add
<1>2. \A r \in new : r.key \in keys /\ r.confidence = c /\ \A x \in rs : x.key # r.key
  OBVIOUS
<1>3. \A r, x \in new : r.key = x.key => r = x
  OBVIOUS
<1>4. \A k \in keys : (\E r \in rs : r.key = k) \/ (\E r \in new : r.key = k)
  <2> SUFFICES ASSUME NEW k \in keys, ~\E r \in rs : r.key = k PROVE \E r \in new : r.key = k
    OBVIOUS
  <2>1. [key |-> k, confidence |-> c] \in new /\ [key |-> k, confidence |-> c].key = k
    OBVIOUS
  <2> QED  BY <2>1
<1> HIDE DEF new
<1>5. Unique(rs) => Unique(rs \cup new)
  BY <1>2, <1>3 DEF Unique
<1> QED  BY <1>1, <1>2, <1>4, <1>5 DEF Has

\* The id of a port is the number of one of the ports, or none.
LEMMA PortIds ==
    ASSUME Len(ports) \in 0 .. 2, ports \in Seq(PortRows), NEW host, NEW number
    PROVE  /\ Msf!PortId(host, number) \in 0 .. Len(ports)
           /\ \A i \in 1 .. Len(ports) : ports[i].host = host /\ ports[i].number = number =>
                /\ Msf!PortId(host, number) \in 1 .. Len(ports)
                /\ ports[Msf!PortId(host, number)].host = host /\ ports[Msf!PortId(host, number)].number = number
<1> DEFINE same == {i \in DOMAIN ports : ports[i].host = host /\ ports[i].number = number}
           Last(i) == i \in same /\ \A j \in same : j <= i
<1>1. Msf!PortId(host, number) = IF same = {} THEN 0 ELSE CHOOSE i \in same : \A j \in same : j <= i
  BY DEF Msf!PortId
<1>2. DOMAIN ports = 1 .. Len(ports)
  OBVIOUS
<1>3. same \subseteq 1 .. Len(ports) /\ \A i \in same : ports[i].host = host /\ ports[i].number = number
  BY <1>2
<1>4. \A i \in 1 .. Len(ports) : ports[i].host = host /\ ports[i].number = number => i \in same
  BY <1>2
<1> HIDE DEF same
<1>5. \A i \in same : i \in {1, 2}
  BY <1>3
<1>6. same # {} => \E i \in same : \A j \in same : j <= i
  <2>1. CASE 2 \in same
    BY <1>5, <2>1
  <2>2. CASE 2 \notin same
    <3>1. \A i \in same : i = 1
      BY <1>5, <2>2
    <3> QED  BY <3>1
  <2> QED  BY <2>1, <2>2
<1>7. same # {} => Msf!PortId(host, number) \in same
  BY <1>1, <1>6
<1>8. same = {} => Msf!PortId(host, number) = 0
  BY <1>1
<1>9. 0 \in 0 .. Len(ports) /\ \A i \in 1 .. Len(ports) : i \in 0 .. Len(ports)
  OBVIOUS
<1>10. Msf!PortId(host, number) \in 0 .. Len(ports)
  BY <1>3, <1>7, <1>8, <1>9
<1>11. ASSUME NEW i \in 1 .. Len(ports), ports[i].host = host, ports[i].number = number
       PROVE  Msf!PortId(host, number) \in same
  BY <1>4, <1>7, <1>11
<1> QED  BY <1>3, <1>10, <1>11

\* The passes: of the findings, and of each port.
LEMMA MsfStarts == ASSUME Msf!Init PROVE MsfInv
<1>1. at = 0 /\ results = {} /\ stored = {}
  BY DEF Msf!Init
<1>2. ports \in {<<>>} \cup {<<p>> : p \in PortRows} \cup {<<p, q>> : p \in PortRows, q \in PortRows}
  BY DEF Msf!Init
<1>3. ports \in Seq(PortRows) /\ Len(ports) \in 0 .. 2
  <2>1. CASE ports = <<>>
    BY <2>1
  <2>2. ASSUME NEW p \in PortRows, ports = <<p>> PROVE ports \in Seq(PortRows) /\ Len(ports) \in 0 .. 2
    BY <2>2
  <2>3. ASSUME NEW p \in PortRows, NEW q \in PortRows, ports = <<p, q>> PROVE ports \in Seq(PortRows) /\ Len(ports) \in 0 .. 2
    BY <2>3
  <2> QED  BY <1>2, <2>1, <2>2, <2>3
<1>4. Len(ports) \in Nat /\ 0 # Len(ports) + 2 /\ 0 \in 0 .. Len(ports) + 2
  BY <1>3
<1> QED  BY <1>1, <1>3, <1>4 DEF MsfInv

\* The results of the findings are the best there are.
LEMMA FindingsMatch ==
    ASSUME NEW rs, rs = Msf!Add({}, Highs, "high")
    PROVE  Matched(rs, 0)
<1>1. /\ Has(rs, Highs) /\ (Unique({}) => Unique(rs))
      /\ \A r \in rs : r \in {} \/ (r.key \in Highs /\ r.confidence = "high")
  BY AddFacts
<1>2. Unique({})
  BY DEF Unique
<1>3. \A r \in rs : Sure(r, 0)
  BY <1>1 DEF Sure
<1>4. \A i \in 1 .. 0 : FALSE
  OBVIOUS
<1> QED  BY <1>1, <1>2, <1>3, <1>4 DEF Matched

\* One port more.
LEMMA PortMatch ==
    ASSUME NEW n \in Nat, n >= 1, NEW rs, NEW new, Matched(rs, n - 1),
           new = Msf!Add(Msf!Add(rs, Msf!Medium(ports[n]), "medium"), Msf!Low(ports[n]), "low")
    PROVE  Matched(new, n)
<1> DEFINE M == Msf!Medium(ports[n])
           L == Msf!Low(ports[n])
           mid == Msf!Add(rs, M, "medium")
<1>1. /\ rs \subseteq mid /\ Has(mid, M) /\ (Unique(rs) => Unique(mid))
      /\ \A r \in mid : r \in rs \/ (r.key \in M /\ r.confidence = "medium" /\ \A x \in rs : x.key # r.key)
  BY AddFacts
<1>2. new = Msf!Add(mid, L, "low")
  OBVIOUS
<1> HIDE DEF mid
<1>3. /\ mid \subseteq new /\ Has(new, L) /\ (Unique(mid) => Unique(new))
      /\ \A r \in new : r \in mid \/ (r.key \in L /\ r.confidence = "low" /\ \A x \in mid : x.key # r.key)
  BY <1>2, AddFacts
<1>4. /\ Unique(rs) /\ Has(rs, Highs)
      /\ \A r \in rs : Sure(r, n - 1)
      /\ \A i \in 1 .. n - 1 : Has(rs, Msf!Medium(ports[i])) /\ Has(rs, Msf!Low(ports[i]))
  BY DEF Matched
<1>5. Unique(new)
  BY <1>1, <1>3, <1>4
<1>6. Has(new, Highs) /\ Has(new, M) /\ Has(new, L)
  BY <1>1, <1>3, <1>4 DEF Has
<1>7. (\A i \in 1 .. n - 1 : i \in 1 .. n) /\ n \in 1 .. n /\ (\A i \in 1 .. n : i \in 1 .. n - 1 \/ i = n)
  OBVIOUS
<1>8. \A i \in 1 .. n : Has(new, Msf!Medium(ports[i])) /\ Has(new, Msf!Low(ports[i]))
  <2> SUFFICES ASSUME NEW i \in 1 .. n PROVE Has(new, Msf!Medium(ports[i])) /\ Has(new, Msf!Low(ports[i]))
    OBVIOUS
  <2>1. CASE i = n
    BY <1>6, <2>1
  <2>2. CASE i \in 1 .. n - 1
    BY <1>1, <1>3, <1>4, <2>2 DEF Has
  <2> QED  BY <1>7, <2>1, <2>2
<1>9. ASSUME NEW r \in new PROVE Sure(r, n)
  <2>1. CASE r \in rs
    BY <1>4, <1>7, <2>1 DEF Sure
  <2>2. CASE r \in mid /\ r \notin rs
    <3>1. r.key \in M /\ r.confidence = "medium" /\ \A x \in rs : x.key # r.key
      BY <1>1, <2>2
    <3>2. r.key \notin Highs
      BY <1>4, <3>1 DEF Has
    <3> QED  BY <1>7, <3>1, <3>2 DEF Sure
  <2>3. CASE r \notin mid
    <3>1. r.key \in L /\ r.confidence = "low" /\ \A x \in mid : x.key # r.key
      BY <1>3, <2>3
    <3>2. r.key \notin Highs /\ r.key \notin M
      BY <1>1, <1>4, <3>1 DEF Has
    <3> QED  BY <1>7, <3>1, <3>2 DEF Sure
  <2> QED  BY <2>1, <2>2, <2>3
<1> QED  BY <1>5, <1>6, <1>8, <1>9 DEF Matched

\* The same matches, of the same findings and ports.
LEMMA MatchesStay ==
    ASSUME findings' = findings, ports' = ports, hosts' = hosts, NEW rs, NEW n
    PROVE  Matched(rs, n)' <=> Matched(rs, n)
<1>1. Highs' = Highs
  BY DEF Highs
<1>2. \A r \in rs : Sure(r, n)' <=> Sure(r, n)
  BY <1>1 DEF Sure
<1> QED  BY <1>1, <1>2 DEF Matched

\* Every pass keeps the invariant.
LEMMA MsfKeeps ==
    ASSUME MsfInv, [Msf!Next]_(Msf!vars)
    PROVE  MsfInv'
<1> DEFINE len == Len(ports)
<1>1. /\ ports \in Seq(PortRows) /\ len \in 0 .. 2 /\ at \in 0 .. len + 2
      /\ IF at = 0 THEN results = {}
         ELSE IF at \in 1 .. len THEN Matched(results, at - 1) ELSE Matched(results, len)
      /\ stored = IF at = len + 2 THEN Rows(results) ELSE {}
  BY DEF MsfInv
<1>2. CASE Msf!MatchFindings
  <2>1. /\ at = 0 /\ at' = 1 /\ results' = Msf!Add({}, Highs, "high")
        /\ findings' = findings /\ ports' = ports /\ hosts' = hosts /\ stored' = stored
    BY <1>2 DEF Msf!MatchFindings, Highs
  <2>2. Matched(results', 0)
    BY <2>1, FindingsMatch
  <2> PICK rs : rs = results'
    OBVIOUS
  <2>3. Matched(rs, 0)'
    BY <2>1, <2>2, MatchesStay
  <2>4. /\ 1 \in 0 .. len + 2 /\ 0 # len + 2 /\ 1 # len + 2 /\ 1 - 1 = 0
        /\ (1 \in 1 .. len \/ len = 0)
    BY <1>1
  <2>5. stored' = {}
    BY <1>1, <2>1, <2>4
  <2> QED  BY <1>1, <2>1, <2>3, <2>4, <2>5 DEF MsfInv
<1>3. CASE Msf!MatchPort
  <2>1. /\ at \in DOMAIN ports /\ at' = at + 1
        /\ results' = Msf!Add(Msf!Add(results, Msf!Medium(ports[at]), "medium"), Msf!Low(ports[at]), "low")
        /\ findings' = findings /\ ports' = ports /\ hosts' = hosts /\ stored' = stored
    BY <1>3 DEF Msf!MatchPort
  <2>2. at \in 1 .. len
    BY <1>1, <2>1
  <2>3. /\ at \in Nat /\ at >= 1 /\ at # 0 /\ at + 1 \in 0 .. len + 2 /\ at + 1 # 0 /\ (at + 1) - 1 = at
        /\ at # len + 2 /\ at + 1 # len + 2 /\ (at + 1 \in 1 .. len \/ at = len)
    BY <1>1, <2>2
  <2>4. Matched(results, at - 1)
    BY <1>1, <2>2, <2>3
  <2>5. Matched(results', at)
    <3> PICK n \in Nat : n = at
      BY <2>3
    <3> PICK rs, new : rs = results /\ new = results'
      OBVIOUS
    <3>1. Matched(new, n)
      BY <2>1, <2>3, <2>4, PortMatch
    <3> QED  BY <3>1
  <2> PICK rs, n : rs = results' /\ n = at
    OBVIOUS
  <2>6. Matched(rs, n)'
    BY <2>1, <2>5, MatchesStay
  <2>7. stored' = {}
    BY <1>1, <2>1, <2>3
  <2>8. at' = n + 1 /\ at' - 1 = n
    BY <2>1, <2>3
  <2> QED  BY <1>1, <2>1, <2>3, <2>6, <2>7, <2>8 DEF MsfInv
<1>4. CASE Msf!Store
  <2>1. /\ at = len + 1 /\ at' = at + 1 /\ stored' = Rows(results)
        /\ findings' = findings /\ ports' = ports /\ hosts' = hosts /\ results' = results
    BY <1>4 DEF Msf!Store, Rows
  <2>2. /\ at # 0 /\ at \notin 1 .. len /\ at + 1 = len + 2 /\ at + 1 \in 0 .. len + 2
        /\ at + 1 # 0 /\ at + 1 \notin 1 .. len
    BY <1>1, <2>1
  <2>3. Matched(results, len)
    BY <1>1, <2>2
  <2> PICK rs, n : rs = results /\ n = len
    OBVIOUS
  <2>4. Matched(rs, n)'
    BY <2>1, <2>3, MatchesStay
  <2>5. Rows(results)' = Rows(results)
    BY <2>1 DEF Rows, Msf!PortId
  <2> QED  BY <1>1, <2>1, <2>2, <2>4, <2>5 DEF MsfInv
<1>5. CASE UNCHANGED Msf!vars
  <2>1. /\ findings' = findings /\ ports' = ports /\ hosts' = hosts /\ at' = at /\ results' = results /\ stored' = stored
    BY <1>5 DEF Msf!vars
  <2>2. \A n : Matched(results, n)' <=> Matched(results, n)
    BY <2>1 DEF Matched, Sure, Highs
  <2>3. Rows(results)' = Rows(results)
    BY <2>1 DEF Rows, Msf!PortId
  <2> QED  BY <1>1, <2>1, <2>2, <2>3 DEF MsfInv
<1> QED  BY <1>2, <1>3, <1>4, <1>5 DEF Msf!Next

\* A key of a port names its host and its number.
LEMMA PortKeys ==
    ASSUME NEW p, NEW k \in Msf!Medium(p) \cup Msf!Low(p)
    PROVE  k.host = p.host /\ k.port = p.number
BY DEF Msf!Medium, Msf!Low, Msf!Key

\* The rows are those of the results, each with the port its key names.
LEMMA MsfTypes == MsfInv => Msf!TypeOK
<1> SUFFICES ASSUME MsfInv PROVE Msf!TypeOK
  OBVIOUS
<1>1. /\ ports \in Seq(PortRows) /\ Len(ports) \in 0 .. 2 /\ at \in 0 .. Len(ports) + 2
      /\ IF at = 0 THEN results = {}
         ELSE IF at \in 1 .. Len(ports) THEN Matched(results, at - 1) ELSE Matched(results, Len(ports))
      /\ stored = IF at = Len(ports) + 2 THEN Rows(results) ELSE {}
  BY DEF MsfInv
<1>2. \A r \in results : r.confidence \in {"high", "medium", "low"}
  <2>1. results = {} \/ \E n : Matched(results, n)
    BY <1>1
  <2> QED  BY <2>1 DEF Matched, Sure
<1>3. \A r \in stored : r.key \in {x.key : x \in results} /\ r.port \in 0 .. Len(ports)
  <2>1. \A host, number : Msf!PortId(host, number) \in 0 .. Len(ports)
    BY <1>1, PortIds
  <2>2. stored \subseteq Rows(results)
    BY <1>1
  <2>3. \A r \in Rows(results) : r.key \in {x.key : x \in results} /\ r.port \in 0 .. Len(ports)
    BY <2>1 DEF Rows
  <2> QED  BY <2>2, <2>3
<1> QED  BY <1>1, <1>2, <1>3 DEF Msf!TypeOK

\* At the end every module that fits is there, with its best reason and its port.
LEMMA MatchesPromise == MsfInv => Msf!MatchesExplained
<1> DEFINE len == Len(ports)
           Shared(k) == \E i, j \in DOMAIN ports : i # j /\ ports[i].number = ports[j].number
                                               /\ ports[i].host = ports[j].host
                                               /\ k.port = ports[i].number
           keys == UNION ({Msf!High(f) : f \in findings} \cup
                         {Msf!Medium(ports[i]) \cup Msf!Low(ports[i]) : i \in DOMAIN ports})
<1> SUFFICES ASSUME MsfInv, at = len + 2, NEW k \in keys, k.host \in hosts
             PROVE  \E r \in stored :
                      /\ r.key = k /\ \A x \in stored : x.key = k => x = r
                      /\ r.confidence = Msf!Best(Msf!Reasons(k)) \/ Shared(k)
                      /\ r.confidence # "high" /\ ~Shared(k) =>
                           k \in Msf!Medium(ports[r.port]) \cup Msf!Low(ports[r.port])
  BY DEF Msf!MatchesExplained
<1>1. ports \in Seq(PortRows) /\ len \in 0 .. 2 /\ DOMAIN ports = 1 .. len
  BY DEF MsfInv
<1>2. at # 0 /\ at \notin 1 .. len
  BY <1>1
<1>3. Matched(results, len) /\ stored = Rows(results)
  BY <1>2 DEF MsfInv
<1>4. k \in Highs \/ \E i \in 1 .. len : k \in Msf!Medium(ports[i]) \cup Msf!Low(ports[i])
  BY <1>1 DEF Highs
<1> HIDE DEF keys
<1>5. PICK m \in results : m.key = k
  BY <1>3, <1>4 DEF Matched, Has
<1>6. Sure(m, len) /\ \A x \in results : x.key = k => x = m
  BY <1>3, <1>5 DEF Matched, Unique
<1> DEFINE r == [key |-> m.key, confidence |-> m.confidence, port |-> Msf!PortId(m.key.host, m.key.port)]
<1>7. r \in stored /\ r.key = k /\ r.confidence = m.confidence /\ r.port = Msf!PortId(k.host, k.port)
  BY <1>3, <1>5 DEF Rows
<1>8. ASSUME NEW x \in stored, x.key = k PROVE x = r
  <2>1. PICK y \in results : x = [key |-> y.key, confidence |-> y.confidence, port |-> Msf!PortId(y.key.host, y.key.port)]
    BY <1>3 DEF Rows
  <2>2. y.key = k
    BY <1>8, <2>1
  <2>3. y = m
    BY <1>6, <2>2
  <2> QED  BY <2>1, <2>3
<1> HIDE DEF r
<1>9. /\ "high" \in Msf!Reasons(k) <=> k \in Highs
      /\ "medium" \in Msf!Reasons(k) <=> \E i \in 1 .. len : k \in Msf!Medium(ports[i])
  BY <1>1 DEF Msf!Reasons, Highs
<1>10. \A i, j \in 1 .. len :
         k \in Msf!Medium(ports[i]) \cup Msf!Low(ports[i]) /\ k \in Msf!Medium(ports[j]) \cup Msf!Low(ports[j]) /\ i # j => Shared(k)
  BY <1>1, PortKeys
<1>11. r.confidence = Msf!Best(Msf!Reasons(k)) \/ Shared(k)
  <2>1. CASE m.confidence = "high"
    BY <1>5, <1>6, <1>7, <1>9, <2>1 DEF Sure, Msf!Best
  <2>2. CASE m.confidence = "medium"
    BY <1>5, <1>6, <1>7, <1>9, <2>2 DEF Sure, Msf!Best
  <2>3. CASE m.confidence = "low"
    <3>1. k \notin Highs
      BY <1>5, <1>6, <2>3 DEF Sure
    <3>2. PICK i \in 1 .. len : k \in Msf!Low(ports[i]) /\ k \notin Msf!Medium(ports[i])
      BY <1>5, <1>6, <2>3 DEF Sure
    <3>3. ASSUME NEW j \in 1 .. len, k \in Msf!Medium(ports[j]) PROVE Shared(k)
      BY <1>10, <3>2, <3>3
    <3> HIDE DEF Shared
    <3> QED  BY <1>7, <1>9, <2>3, <3>1, <3>3 DEF Msf!Best
  <2> QED  BY <1>6, <2>1, <2>2, <2>3 DEF Sure
<1>12. ASSUME r.confidence # "high", ~Shared(k)
       PROVE  k \in Msf!Medium(ports[r.port]) \cup Msf!Low(ports[r.port])
  <2>1. PICK i \in 1 .. len : k \in Msf!Medium(ports[i]) \cup Msf!Low(ports[i])
    BY <1>5, <1>6, <1>7, <1>12 DEF Sure
  <2>2. k.host = ports[i].host /\ k.port = ports[i].number
    BY <2>1, PortKeys
  <2>3. /\ r.port \in 1 .. len /\ ports[r.port].host = k.host /\ ports[r.port].number = k.port
    BY <1>1, <1>7, <2>2, PortIds
  <2>4. r.port = i
    BY <1>1, <1>12, <2>2, <2>3
  <2> QED  BY <2>1, <2>4
<1> QED  BY <1>7, <1>8, <1>11, <1>12

-----------------------------------------------------------------------------
(* What scans leave behind: types, and what a job is at each stage.        *)

\* Jobs are counted, there are finitely many scans, and "no scan" is none of them.
Leavings == Jobs \in Nat /\ IsFiniteSet(Scan) /\ NoScan \notin Scan

OJob == [scan : Scan \cup {NoScan}, task : {"none", "run", "report"}, at : Out!AtWork \cup {"none", "over"},
         dir : Out!Dir \cup {<<>>}, now : 0 .. Jobs, name : BOOLEAN, open : SUBSET Asset,
         todo : SUBSET Asset, read : SUBSET [asset : Asset, name : BOOLEAN],
         formats : SUBSET Format, made : SUBSET Format]
OAsset == [scan : Scan \cup {NoScan}, count : Nat, seen : 0 .. Jobs, name : BOOLEAN]
ORow == [scan : Scan, format : Format, dir : Out!Dir, by : 0 .. Jobs]

\* What a job has, by where it is.
JobStands(x) ==
    /\ x.at = "none" => x.scan = NoScan /\ x.made = {}
    /\ x.at # "none" => x.scan \in Scan /\ x.dir \in Out!Dir /\ x.dir[1] = Target[x.scan] /\ x.task # "none"
    /\ x.at \in {"none", "pipeline", "deleting"} => x.open = {} /\ x.todo = {} /\ x.now = 0
    /\ x.todo \subseteq x.open
    /\ x.at = "saving" => \E a \in x.todo, n \in BOOLEAN : x.read = {[asset |-> a, name |-> n]}

OutTyped ==
    /\ outcome \in [Scan -> {"pending", "running", "completed", "failed", "cancelled"}]
    /\ depth \in [Scan -> Nat] /\ asset \in [Asset -> OAsset]
    /\ file \in [Out!Dir \X Format -> Scan \cup {NoScan}] /\ reportRows \subseteq ORow
    /\ job \in [Out!Job -> OJob]
    /\ known \subseteq Asset /\ clashed \subseteq Scan /\ broken \subseteq Scan /\ crossed \in BOOLEAN

Begun == {j \in Out!Job : job[j].at # "none"}
Noted == {j \in Out!Job : job[j].now > 0}

OutCounted ==
    /\ \A j \in Out!Job : /\ JobStands(job[j]) /\ job[j].now <= Cardinality(Noted)
                          /\ job[j].at # "none" => depth[job[j].scan] >= 1
    /\ \A s \in Scan : /\ depth[s] <= 1 + Cardinality(Begun)
                       /\ outcome[s] # "pending" => depth[s] >= 1

-----------------------------------------------------------------------------
(* Assets.                                                                 *)

\* An asset shows what one execution found; without overlap the latest, its name kept.
OutAssets ==
    /\ \A a \in Asset : asset[a] # Out!NoAsset =>
         \E j \in Out!Job : a \in job[j].open \ job[j].todo /\ asset[a] = Out!Seen(j, asset[a].name)
    /\ \A a \in Asset, j \in Out!Job : a \in job[j].open \ job[j].todo => asset[a] # Out!NoAsset
    /\ ~crossed =>
         /\ \A a \in known : asset[a].name
         /\ \A a \in Asset, j \in Out!Job : a \in job[j].open \ job[j].todo => job[j].now <= asset[a].seen
         /\ \A j \in Out!Syncing : /\ \A i \in Out!Syncing : i = j
                                   /\ \A i \in Out!Job : job[i].now <= job[j].now
                                   /\ job[j].at = "saving" =>
                                        \A r \in job[j].read : r.name = asset[r.asset].name

-----------------------------------------------------------------------------
(* Report files and rows.                                                  *)

\* A file is of a scan that has run, or of the one its row names.
Ran(o) == o \in Scan /\ \E j \in Out!Job : job[j].scan = o

OutFiles ==
    /\ \A d \in Out!Dir, f \in Format : file[<<d, f>>] \in Scan => Target[file[<<d, f>>]] = d[1]
    /\ \A r \in reportRows : /\ r.dir[1] = Target[r.scan]
                             /\ file[<<r.dir, r.format>>] = r.scan \/ Ran(file[<<r.dir, r.format>>])
    /\ \A j \in Out!Job : \A f \in job[j].made : Ran(file[<<job[j].dir, f>>])

Formats(R) == {r.format : r \in R}
Single(R) == \A q, r \in R : q.format = r.format => q = r

\* How far a job that was neither cut short nor met by another has got.
Stands(x, st, R) ==
    /\ x.at \in {"pipeline", "syncing", "saving"} =>
         x.task = "run" /\ R = {} /\ x.formats = Format /\ x.made = {}
    /\ x.at = "deleting" => x.task = "report" /\ x.formats = Format /\ x.made = {}
    /\ x.at = "rendering" => R = {} /\ x.formats \cup x.made = Format
    /\ x.at = "listing" => Formats(R) \cup x.made = Format /\ \A r \in R : r.format \notin x.made
    /\ x.at # "failing"
    /\ x.task = "run" => st \in {"running", "cancelled"}
    /\ x.task = "report" => st = "completed"

\* A scan that nothing works for has no reports yet, or all of them.
Rests(st, R) == (st = "pending" /\ R = {}) \/ (st = "completed" /\ Formats(R) = Format)

ScanStands(s) ==
    /\ Single(Out!RowsOf(s))
    /\ \A i, j \in Out!Busy(s) : i = j
    /\ \A j \in Out!Busy(s) : Stands(job[j], outcome[s], Out!RowsOf(s))
    /\ Out!Busy(s) = {} => Rests(outcome[s], Out!RowsOf(s))

OutReports == \A s \in Scan \ (clashed \cup broken) : ScanStands(s)

OutInv == OutTyped /\ OutCounted /\ OutAssets /\ OutFiles /\ OutReports

\* Both modules count alike.
LEMMA OutSizes == \A S : Out!Cardinality(S) = Cardinality(S)
BY DEF Out!Cardinality, Cardinality

\* One job has changed.
OutMoves(j, x) ==
    /\ job' \in [Out!Job -> OJob] /\ job'[j] = x
    /\ \A i \in Out!Job : i # j => job'[i] = job[i]
    /\ \A s : /\ \A i \in Out!Job : i # j => (i \in Out!Busy(s) <=> i \in Out!Busy(s)')
              /\ j \in Out!Busy(s) <=> job[j].scan = s /\ job[j].at \in Out!AtWork
              /\ j \in Out!Busy(s)' <=> x.scan = s /\ x.at \in Out!AtWork
              /\ Out!Busy(s) \subseteq Out!Job /\ Out!Busy(s)' \subseteq Out!Job

\* A step that sets one job changes no other.
LEMMA OutUpdate ==
    ASSUME OutTyped, NEW j \in Out!Job, NEW x \in OJob, job' = [job EXCEPT ![j] = x]
    PROVE  OutMoves(j, x)
BY DEF OutMoves, OutTyped, Out!Busy

\* A job starts, notes the time once, or goes on.
LEMMA OutCounts ==
    ASSUME Leavings, OutTyped, OutCounted, NEW j \in Out!Job, NEW x \in OJob, OutMoves(j, x),
           JobStands(x), x.at # "none", depth'[x.scan] >= 1,
           x.now = job[j].now \/ (job[j].now = 0 /\ x.now = 1 + Cardinality(Noted)),
           \A s \in Scan : \/ depth'[s] = depth[s]
                           \/ depth'[s] = depth[s] + 1 /\ job[j].at = "none",
           \A s \in Scan : depth'[s] >= depth[s] /\ (outcome'[s] # "pending" => outcome[s] # "pending" \/ depth'[s] >= 1)
    PROVE  OutCounted'
<1>1. IsFiniteSet(Out!Job) /\ Begun \subseteq Out!Job /\ Noted \subseteq Out!Job
  <2>1. IsFiniteSet(1 .. Jobs)
    BY FS_Interval DEF Leavings
  <2> QED  BY <2>1 DEF Out!Job, Begun, Noted
<1>2. IsFiniteSet(Begun) /\ IsFiniteSet(Noted) /\ Cardinality(Begun) \in Nat /\ Cardinality(Noted) \in Nat
  BY <1>1, FS_Subset, FS_CardinalityType
<1>3. Begun' = Begun \cup {j}
  BY DEF Begun, OutMoves
<1>4. /\ Cardinality(Begun') \in Nat /\ Cardinality(Begun') >= Cardinality(Begun)
      /\ job[j].at = "none" => Cardinality(Begun') = Cardinality(Begun) + 1
  <2>1. Cardinality(Begun') = IF j \in Begun THEN Cardinality(Begun) ELSE Cardinality(Begun) + 1
    BY <1>2, <1>3, FS_AddElement
  <2>2. job[j].at = "none" => j \notin Begun
    BY DEF Begun
  <2> QED  BY <1>2, <2>1, <2>2
<1>5. \A i \in Out!Job : job[i].now \in Nat /\ JobStands(job[i]) /\ job[i].now <= Cardinality(Noted)
  BY DEF OutTyped, OJob, OutCounted, Leavings
<1>6. Cardinality(Noted') \in Nat /\ Cardinality(Noted') >= Cardinality(Noted) /\ x.now <= Cardinality(Noted')
  <2>1. CASE x.now = job[j].now
    <3>1. Noted' = Noted
      BY <2>1 DEF Noted, OutMoves
    <3> QED  BY <1>2, <1>5, <2>1, <3>1
  <2>2. CASE job[j].now = 0 /\ x.now = 1 + Cardinality(Noted)
    <3>1. x.now > 0
      BY <1>2, <2>2
    <3>2. Noted' = Noted \cup {j} /\ j \notin Noted
      BY <2>2, <3>1 DEF Noted, OutMoves
    <3>3. Cardinality(Noted') = Cardinality(Noted) + 1
      BY <1>2, <3>2, FS_AddElement
    <3> QED  BY <1>2, <2>2, <3>3
  <2> QED  BY <2>1, <2>2
<1>7. \A i \in Out!Job : JobStands(job'[i]) /\ job'[i].now <= Cardinality(Noted')
  <2> SUFFICES ASSUME NEW i \in Out!Job PROVE JobStands(job'[i]) /\ job'[i].now <= Cardinality(Noted')
    OBVIOUS
  <2>1. CASE i = j
    BY <1>6, <2>1 DEF OutMoves
  <2>2. CASE i # j
    <3>1. job'[i] = job[i]
      BY <2>2 DEF OutMoves
    <3> QED  BY <1>2, <1>5, <1>6, <3>1
  <2> QED  BY <2>1, <2>2
<1>8. ASSUME NEW s \in Scan
      PROVE  depth'[s] <= 1 + Cardinality(Begun') /\ (outcome'[s] # "pending" => depth'[s] >= 1)
  <2>1. depth[s] \in Nat /\ depth[s] <= 1 + Cardinality(Begun) /\ (outcome[s] # "pending" => depth[s] >= 1)
    BY DEF OutTyped, OutCounted
  <2> DEFINE b == Cardinality(Begun)  c == Cardinality(Begun')
  <2>2. b \in Nat /\ c \in Nat /\ c >= b /\ (job[j].at = "none" => c = b + 1)
    BY <1>2, <1>4
  <2>3. depth'[s] = depth[s] \/ (depth'[s] = depth[s] + 1 /\ job[j].at = "none")
    OBVIOUS
  <2>4. depth[s] <= 1 + b
    BY <2>1
  <2> HIDE DEF b, c
  <2>5. depth'[s] <= 1 + c
    BY <2>1, <2>2, <2>3, <2>4
  <2>6. outcome'[s] # "pending" => depth'[s] >= 1
    BY <2>1
  <2> QED  BY <2>5, <2>6 DEF c
<1>9. ASSUME NEW i \in Out!Job, job'[i].at # "none" PROVE depth'[job'[i].scan] >= 1
  <2>1. CASE i = j
    BY <2>1 DEF OutMoves
  <2>2. CASE i # j
    <3>1. job'[i] = job[i]
      BY <2>2 DEF OutMoves
    <3>2. depth[job[i].scan] >= 1 /\ job[i].scan \in Scan
      BY <1>9, <3>1 DEF OutCounted, JobStands
    <3>3. depth[job[i].scan] \in Nat /\ depth'[job[i].scan] >= depth[job[i].scan]
         /\ (depth'[job[i].scan] = depth[job[i].scan] \/ depth'[job[i].scan] = depth[job[i].scan] + 1)
      BY <3>2 DEF OutTyped
    <3> QED  BY <3>1, <3>2, <3>3
  <2> QED  BY <2>1, <2>2
<1> QED  BY <1>7, <1>8, <1>9 DEF OutCounted

\* A step that neither notes the time nor writes an asset.
LEMMA AssetsStay ==
    ASSUME OutTyped, OutAssets, NEW j \in Out!Job, NEW x \in OJob, OutMoves(j, x),
           asset' = asset, known' = known, crossed' = crossed,
           x.open = job[j].open, x.todo = job[j].todo, x.now = job[j].now,
           x.open # {} => x.scan = job[j].scan /\ x.name = job[j].name,
           x.at \in {"syncing", "saving"} => x.at = job[j].at /\ x.read = job[j].read
    PROVE  OutAssets'
<1>1. \A i \in Out!Job : job'[i].open = job[i].open /\ job'[i].todo = job[i].todo /\ job'[i].now = job[i].now
  BY DEF OutMoves
<1>2. \A i \in Out!Job : job'[i].open # {} => job'[i].scan = job[i].scan /\ job'[i].name = job[i].name
  BY DEF OutMoves
<1>3. \A i \in Out!Syncing' : i \in Out!Syncing /\ job'[i].at = job[i].at /\ job'[i].read = job[i].read
  BY DEF OutMoves, Out!Syncing
<1>4. ASSUME NEW a \in Asset, asset'[a] # Out!NoAsset
      PROVE  \E i \in Out!Job : a \in job'[i].open \ job'[i].todo /\ (asset[a] = Out!Seen(i, asset[a].name))'
  <2>1. PICK i \in Out!Job : a \in job[i].open \ job[i].todo /\ asset[a] = Out!Seen(i, asset[a].name)
    BY <1>4 DEF OutAssets
  <2>2. (asset[a] = Out!Seen(i, asset[a].name))'
    BY <1>1, <1>2, <2>1 DEF Out!Seen
  <2> QED  BY <1>1, <2>1, <2>2
<1>5. \A a \in Asset, i \in Out!Job : a \in job'[i].open \ job'[i].todo => asset'[a] # Out!NoAsset
  BY <1>1 DEF OutAssets
<1>6. ~crossed' =>
         /\ \A a \in known' : asset'[a].name
         /\ \A a \in Asset, i \in Out!Job : a \in job'[i].open \ job'[i].todo => job'[i].now <= asset'[a].seen
  BY <1>1 DEF OutAssets
<1>7. ~crossed' =>
         \A i \in Out!Syncing' : /\ \A k \in Out!Syncing' : k = i
                                 /\ \A k \in Out!Job : job'[k].now <= job'[i].now
                                 /\ job'[i].at = "saving" =>
                                        \A r \in job'[i].read : r.name = asset'[r.asset].name
  <2> SUFFICES ASSUME ~crossed, NEW i \in Out!Syncing'
               PROVE  /\ \A k \in Out!Syncing' : k = i
                      /\ \A k \in Out!Job : job'[k].now <= job'[i].now
                      /\ job'[i].at = "saving" => \A r \in job'[i].read : r.name = asset'[r.asset].name
    OBVIOUS
  <2>1. i \in Out!Syncing /\ i \in Out!Job /\ job'[i].at = job[i].at /\ job'[i].read = job[i].read
    BY <1>3 DEF Out!Syncing
  <2>2. /\ \A k \in Out!Syncing : k = i
        /\ \A k \in Out!Job : job[k].now <= job[i].now
        /\ job[i].at = "saving" => \A r \in job[i].read : r.name = asset[r.asset].name
    BY <2>1 DEF OutAssets
  <2> QED  BY <1>1, <1>3, <2>1, <2>2
<1> QED  BY <1>4, <1>5, <1>6, <1>7 DEF OutAssets

\* A step that writes no file and no report row.
LEMMA FilesStay ==
    ASSUME OutTyped, OutFiles, NEW j \in Out!Job, NEW x \in OJob, OutMoves(j, x),
           file' = file, reportRows' \subseteq reportRows,
           job[j].scan \in Scan => x.scan = job[j].scan,
           x.made \subseteq job[j].made, x.made # {} => x.dir = job[j].dir
    PROVE  OutFiles'
<1>1. \A o : Ran(o) => Ran(o)'
  BY DEF Ran, OutMoves
<1>2. \A d \in Out!Dir, f \in Format : file'[<<d, f>>] \in Scan => Target[file'[<<d, f>>]] = d[1]
  BY DEF OutFiles
<1>3. \A r \in reportRows' : /\ r.dir[1] = Target[r.scan]
                             /\ file'[<<r.dir, r.format>>] = r.scan \/ Ran(file[<<r.dir, r.format>>])'
  BY <1>1 DEF OutFiles
<1>4. \A i \in Out!Job : \A f \in job'[i].made : Ran(file[<<job[i].dir, f>>])'
  BY <1>1 DEF OutFiles, OutMoves
<1> QED  BY <1>2, <1>3, <1>4 DEF OutFiles

\* A step of a job touches the rows and the status of its own scan at most.
LEMMA ScansStand ==
    ASSUME OutTyped, OutReports, NEW j \in Out!Job, NEW x \in OJob, OutMoves(j, x),
           x.scan \in Scan, job[j].scan \in {x.scan, NoScan}, NoScan \notin Scan,
           clashed \subseteq clashed', broken \subseteq broken',
           \A s \in Scan : s # x.scan => outcome'[s] = outcome[s] /\ Out!RowsOf(s)' = Out!RowsOf(s),
           x.scan \notin clashed' \cup broken' =>
             /\ (job[j].at \in Out!AtWork /\ job[j].scan = x.scan) \/ Out!Busy(x.scan) = {}
             /\ Single(Out!RowsOf(x.scan)')
             /\ x.at \in Out!AtWork => Stands(x, outcome'[x.scan], Out!RowsOf(x.scan)')
             /\ x.at \notin Out!AtWork => Rests(outcome'[x.scan], Out!RowsOf(x.scan)')
    PROVE  OutReports'
<1> SUFFICES ASSUME NEW s \in Scan, s \notin clashed' \cup broken' PROVE ScanStands(s)'
  BY DEF OutReports
<1>1. ScanStands(s)
  BY DEF OutReports
<1>2. CASE s # x.scan
  <2>1. outcome'[s] = outcome[s] /\ Out!RowsOf(s)' = Out!RowsOf(s)
    BY <1>2
  <2>2. j \notin Out!Busy(s) /\ j \notin Out!Busy(s)'
    BY <1>2 DEF OutMoves
  <2>3. Out!Busy(s)' = Out!Busy(s)
    BY <2>2 DEF OutMoves
  <2>4. \A i \in Out!Busy(s) : job'[i] = job[i]
    BY <2>2 DEF OutMoves
  <2> QED  BY <1>1, <2>1, <2>3, <2>4 DEF ScanStands
<1>3. CASE s = x.scan
  <2>1. /\ (job[j].at \in Out!AtWork /\ job[j].scan = s) \/ Out!Busy(s) = {}
        /\ Single(Out!RowsOf(s)')
        /\ x.at \in Out!AtWork => Stands(x, outcome'[s], Out!RowsOf(s)')
        /\ x.at \notin Out!AtWork => Rests(outcome'[s], Out!RowsOf(s)')
    BY <1>3
  <2>2. \A i \in Out!Busy(s) : i = j
    BY <1>1, <2>1 DEF OutMoves, ScanStands
  <2>3. \A i \in Out!Busy(s)' : i = j
    BY <2>2 DEF OutMoves
  <2>4. j \in Out!Busy(s)' <=> x.at \in Out!AtWork
    BY <1>3 DEF OutMoves
  <2>5. \A i \in Out!Busy(s)' : Stands(job'[i], outcome'[s], Out!RowsOf(s)')
    BY <2>1, <2>3, <2>4 DEF OutMoves
  <2>6. Out!Busy(s)' = {} => Rests(outcome'[s], Out!RowsOf(s)')
    BY <2>1, <2>4
  <2> QED  BY <2>1, <2>3, <2>5, <2>6 DEF ScanStands
<1> QED  BY <1>2, <1>3

\* What the invariant says of one job.
LEMMA OutOne ==
    ASSUME OutInv, NEW j \in Out!Job
    PROVE  /\ OutTyped /\ OutCounted /\ OutAssets /\ OutFiles /\ OutReports
           /\ job[j] \in OJob /\ JobStands(job[j])
           /\ job[j].at \in Out!AtWork => job[j].scan \in Scan /\ job[j].task \in {"run", "report"} /\ job[j].at # "none"
BY DEF OutInv, OutTyped, OutCounted, JobStands, OJob, Out!AtWork

\* There are as many jobs as there may be, and each notes the time once.
LEMMA JobsFit ==
    ASSUME Leavings
    PROVE  /\ Cardinality(Begun) \in Nat /\ Cardinality(Begun) <= Jobs
           /\ Cardinality(Noted) \in Nat /\ Cardinality(Noted) <= Jobs
           /\ \A j \in Out!Job : job[j].at = "none" => Cardinality(Begun) + 1 <= Jobs
           /\ \A j \in Out!Job : job[j].now = 0 => Cardinality(Noted) + 1 <= Jobs
<1>1. Jobs \in Nat
  BY DEF Leavings
<1>2. IsFiniteSet(1 .. Jobs) /\ Cardinality(1 .. Jobs) = Jobs
  BY <1>1, FS_Interval
<1>3. IsFiniteSet(Out!Job) /\ Cardinality(Out!Job) = Jobs
  BY <1>2 DEF Out!Job
<1>4. ASSUME NEW S \in SUBSET Out!Job
      PROVE  /\ Cardinality(S) \in Nat /\ Cardinality(S) <= Jobs
             /\ \A j \in Out!Job : j \notin S => Cardinality(S) + 1 <= Jobs
  <2>1. IsFiniteSet(S) /\ Cardinality(S) \in Nat /\ Cardinality(S) <= Jobs
    BY <1>3, FS_Subset, FS_CardinalityType
  <2>2. ASSUME NEW j \in Out!Job, j \notin S PROVE Cardinality(S) + 1 <= Jobs
    <3>1. Cardinality(S \cup {j}) = Cardinality(S) + 1
      BY <2>1, <2>2, FS_AddElement
    <3>2. S \cup {j} \in SUBSET Out!Job
      OBVIOUS
    <3>3. Cardinality(S \cup {j}) <= Jobs
      BY <1>3, <3>2, FS_Subset
    <3> QED  BY <3>1, <3>3
  <2> QED  BY <2>1, <2>2
<1>5. Begun \in SUBSET Out!Job /\ \A j \in Out!Job : job[j].at = "none" => j \notin Begun
  BY DEF Begun
<1>6. Noted \in SUBSET Out!Job /\ \A j \in Out!Job : job[j].now = 0 => j \notin Noted
  BY DEF Noted
<1> QED  BY <1>4, <1>5, <1>6

\* A job that starts.
LEMMA OutStarted ==
    ASSUME NEW s \in Scan, NEW kind \in {"run", "report"}, NEW where \in {"pipeline", "deleting"}, NEW dir \in Out!Dir,
           dir[1] = Target[s], Leavings,
           NEW x, x = Out!Started(s, kind, where, dir)
    PROVE  /\ x \in OJob /\ JobStands(x) /\ x.scan = s /\ x.task = kind /\ x.at = where /\ x.now = 0
           /\ x.open = {} /\ x.todo = {} /\ x.formats = Format /\ x.made = {}
           /\ x.at \in Out!AtWork
<1>1. 0 \in 0 .. Jobs
  BY DEF Leavings
<1>2. /\ x.scan = s /\ x.task = kind /\ x.at = where /\ x.now = 0 /\ x.dir = dir
      /\ x.open = {} /\ x.todo = {} /\ x.formats = Format /\ x.made = {}
  BY DEF Out!Started
<1>3. x \in OJob
  BY <1>1 DEF Out!Started, OJob, Out!AtWork
<1>4. JobStands(x)
  BY <1>2 DEF JobStands
<1> QED  BY <1>2, <1>3, <1>4 DEF Out!AtWork

\* Where executions write: a level per execution.
LEMMA OutDirs ==
    ASSUME Leavings, NEW s \in Scan, NEW n \in Nat, n >= 1, n <= Jobs + 1
    PROVE  <<Target[s], n>> \in Out!Dir /\ <<Target[s], n>>[1] = Target[s]
<1>1. n \in 1 .. Jobs + 1
  BY DEF Leavings
<1> QED  BY <1>1 DEF Out!Dir

\* run_scan starts: if nothing else works for the scan it has no reports.
LEMMA OutRuns ==
    ASSUME Leavings, OutInv, NEW s \in Scan, NEW j \in Out!Job, Out!Run(s, j)
    PROVE  OutInv'
<1> DEFINE x == Out!Started(s, "run", "pipeline", <<Target[s], depth[s] + 1>>)
<1>1. /\ OutTyped /\ OutCounted /\ OutAssets /\ OutFiles /\ OutReports
      /\ job[j] \in OJob /\ JobStands(job[j])
  BY OutOne
<1>2. /\ job[j].at = "none" /\ outcome[s] \in {"pending", "failed", "cancelled"}
      /\ job' = [job EXCEPT ![j] = x]
      /\ clashed' = IF Out!Busy(x.scan) = {} THEN clashed ELSE clashed \cup {x.scan}
      /\ depth' = [depth EXCEPT ![s] = @ + 1]
      /\ outcome' = [outcome EXCEPT ![s] = "running"]
      /\ asset' = asset /\ file' = file /\ reportRows' = reportRows /\ crossed' = crossed /\ known' = known /\ broken' = broken
  BY DEF Out!Run, Out!Start, Out!Free
<1>3. depth[s] \in Nat /\ depth[s] <= 1 + Cardinality(Begun)
  BY <1>1 DEF OutTyped, OutCounted
<1>4. depth[s] + 1 \in Nat /\ depth[s] + 1 >= 1 /\ depth[s] + 1 <= Jobs + 1
  BY <1>2, <1>3, JobsFit DEF Leavings
<1>5. <<Target[s], depth[s] + 1>> \in Out!Dir /\ <<Target[s], depth[s] + 1>>[1] = Target[s]
  BY <1>4, OutDirs
<1>6. /\ x \in OJob /\ JobStands(x) /\ x.scan = s /\ x.task = "run" /\ x.at = "pipeline" /\ x.now = 0
      /\ x.open = {} /\ x.todo = {} /\ x.formats = Format /\ x.made = {}
      /\ x.at \in Out!AtWork
  BY <1>5, OutStarted
<1> HIDE DEF x
<1>7. OutMoves(j, x)
  BY <1>1, <1>2, <1>6, OutUpdate
<1>8. job[j].scan = NoScan /\ job[j].made = {} /\ job[j].open = {} /\ job[j].todo = {} /\ job[j].now = 0
  BY <1>1, <1>2 DEF JobStands
<1>9. OutTyped'
  BY <1>1, <1>2, <1>4, <1>6, <1>7 DEF OutTyped, OutMoves
<1>10. OutCounted'
  <2>1. \A t \in Scan : /\ depth'[t] = depth[t] \/ (depth'[t] = depth[t] + 1 /\ job[j].at = "none")
                        /\ depth'[t] >= depth[t]
                        /\ outcome'[t] # "pending" => outcome[t] # "pending" \/ depth'[t] >= 1
    <3> SUFFICES ASSUME NEW t \in Scan
                 PROVE  /\ depth'[t] = depth[t] \/ (depth'[t] = depth[t] + 1 /\ job[j].at = "none")
                        /\ depth'[t] >= depth[t]
                        /\ outcome'[t] # "pending" => outcome[t] # "pending" \/ depth'[t] >= 1
      OBVIOUS
    <3>1. depth[t] \in Nat /\ depth[s] \in Nat
      BY <1>1 DEF OutTyped
    <3>2. IF t = s THEN depth'[t] = depth[s] + 1 ELSE depth'[t] = depth[t] /\ outcome'[t] = outcome[t]
      BY <1>1, <1>2 DEF OutTyped
    <3> QED  BY <1>2, <3>1, <3>2
  <2>2. depth'[s] >= 1
    BY <1>1, <1>2, <1>4 DEF OutTyped
  <2> QED  BY <1>1, <1>6, <1>7, <1>8, <2>1, <2>2, OutCounts
<1>11. OutAssets'
  BY <1>1, <1>2, <1>6, <1>7, <1>8, AssetsStay
<1>12. OutFiles'
  BY <1>1, <1>2, <1>6, <1>7, <1>8, FilesStay DEF Leavings
<1>13. OutReports'
  <2>1. \A t \in Scan : t # s => outcome'[t] = outcome[t] /\ Out!RowsOf(t)' = Out!RowsOf(t)
    BY <1>1, <1>2 DEF OutTyped, Out!RowsOf
  <2>2. outcome'[s] = "running" /\ Out!RowsOf(s)' = Out!RowsOf(s)
    BY <1>1, <1>2 DEF OutTyped, Out!RowsOf
  <2>3. ASSUME s \notin clashed' \cup broken'
        PROVE  Out!Busy(s) = {} /\ Single(Out!RowsOf(s)') /\ Stands(x, outcome'[s], Out!RowsOf(s)')
    <3>1. s \notin clashed \cup broken /\ Out!Busy(s) = {}
      BY <1>2, <1>6, <2>3
    <3>2. ScanStands(s)
      BY <1>1, <3>1 DEF OutReports
    <3>3. Out!RowsOf(s) = {}
      BY <1>2, <3>1, <3>2 DEF ScanStands, Rests
    <3> QED  BY <1>6, <2>2, <3>1, <3>3 DEF Single, Stands
  <2>4. clashed \subseteq clashed' /\ broken \subseteq broken'
    BY <1>2
  <2> QED  BY <1>1, <1>6, <1>7, <1>8, <2>1, <2>3, <2>4, ScansStand DEF Leavings
<1> QED  BY <1>9, <1>10, <1>11, <1>12, <1>13 DEF OutInv

\* generate_report starts, in the directory of the last execution.
LEMMA OutRegenerates ==
    ASSUME Leavings, OutInv, NEW s \in Scan, NEW j \in Out!Job, Out!Regenerate(s, j)
    PROVE  OutInv'
<1> DEFINE x == Out!Started(s, "report", "deleting", <<Target[s], depth[s]>>)
<1>1. /\ OutTyped /\ OutCounted /\ OutAssets /\ OutFiles /\ OutReports
      /\ job[j] \in OJob /\ JobStands(job[j])
  BY OutOne
<1>2. /\ job[j].at = "none" /\ outcome[s] = "completed"
      /\ job' = [job EXCEPT ![j] = x]
      /\ clashed' = IF Out!Busy(x.scan) = {} THEN clashed ELSE clashed \cup {x.scan}
      /\ depth' = depth /\ outcome' = outcome
      /\ asset' = asset /\ file' = file /\ reportRows' = reportRows /\ crossed' = crossed /\ known' = known /\ broken' = broken
  BY DEF Out!Regenerate, Out!Start, Out!Free
<1>3. depth[s] \in Nat /\ depth[s] <= 1 + Cardinality(Begun) /\ depth[s] >= 1
  BY <1>1, <1>2 DEF OutTyped, OutCounted
<1>4. depth[s] <= Jobs + 1
  BY <1>3, JobsFit DEF Leavings
<1>5. <<Target[s], depth[s]>> \in Out!Dir /\ <<Target[s], depth[s]>>[1] = Target[s]
  BY <1>3, <1>4, OutDirs
<1>6. /\ x \in OJob /\ JobStands(x) /\ x.scan = s /\ x.task = "report" /\ x.at = "deleting" /\ x.now = 0
      /\ x.open = {} /\ x.todo = {} /\ x.formats = Format /\ x.made = {}
      /\ x.at \in Out!AtWork
  BY <1>5, OutStarted
<1> HIDE DEF x
<1>7. OutMoves(j, x)
  BY <1>1, <1>2, <1>6, OutUpdate
<1>8. job[j].scan = NoScan /\ job[j].made = {} /\ job[j].open = {} /\ job[j].todo = {} /\ job[j].now = 0
  BY <1>1, <1>2 DEF JobStands
<1>9. OutTyped'
  BY <1>1, <1>2, <1>6, <1>7 DEF OutTyped, OutMoves
<1>10. OutCounted'
  <2>1. \A t \in Scan : depth'[t] = depth[t] /\ depth'[t] >= depth[t] /\ outcome'[t] = outcome[t]
    BY <1>1, <1>2 DEF OutTyped
  <2> QED  BY <1>1, <1>3, <1>6, <1>7, <1>8, <2>1, OutCounts
<1>11. OutAssets'
  BY <1>1, <1>2, <1>6, <1>7, <1>8, AssetsStay
<1>12. OutFiles'
  BY <1>1, <1>2, <1>6, <1>7, <1>8, FilesStay DEF Leavings
<1>13. OutReports'
  <2>1. \A t \in Scan : outcome'[t] = outcome[t] /\ Out!RowsOf(t)' = Out!RowsOf(t)
    BY <1>2 DEF Out!RowsOf
  <2>3. ASSUME s \notin clashed' \cup broken'
        PROVE  Out!Busy(s) = {} /\ Single(Out!RowsOf(s)') /\ Stands(x, outcome'[s], Out!RowsOf(s)')
    <3>1. s \notin clashed \cup broken /\ Out!Busy(s) = {}
      BY <1>2, <1>6, <2>3
    <3>2. ScanStands(s)
      BY <1>1, <3>1 DEF OutReports
    <3> QED  BY <1>2, <1>6, <2>1, <3>1, <3>2 DEF ScanStands, Stands
  <2>4. clashed \subseteq clashed' /\ broken \subseteq broken'
    BY <1>2
  <2> QED  BY <1>1, <1>6, <1>7, <1>8, <2>1, <2>3, <2>4, ScansStand DEF Leavings
<1> QED  BY <1>9, <1>10, <1>11, <1>12, <1>13 DEF OutInv

\* A user's cancel, of a scan that runs.
LEMMA OutCancels ==
    ASSUME Leavings, OutInv, NEW s \in Scan, Out!Cancel(s)
    PROVE  OutInv'
<1>1. OutTyped /\ OutCounted /\ OutAssets /\ OutFiles /\ OutReports
  BY DEF OutInv
<1>2. /\ outcome[s] = "running" /\ outcome' = [outcome EXCEPT ![s] = "cancelled"]
      /\ depth' = depth /\ asset' = asset /\ file' = file /\ reportRows' = reportRows /\ job' = job
      /\ crossed' = crossed /\ known' = known /\ clashed' = clashed /\ broken' = broken
  BY DEF Out!Cancel
<1>3. \A t \in Scan : IF t = s THEN outcome'[t] = "cancelled" ELSE outcome'[t] = outcome[t]
  BY <1>1, <1>2 DEF OutTyped
<1>4. OutTyped'
  BY <1>1, <1>2 DEF OutTyped
<1>5. OutCounted'
  <2>1. Begun' = Begun /\ Noted' = Noted
    BY <1>2 DEF Begun, Noted
  <2>2. \A t \in Scan : outcome'[t] # "pending" => outcome[t] # "pending"
    BY <1>2, <1>3
  <2> QED  BY <1>1, <1>2, <2>1, <2>2 DEF OutCounted
<1>6. OutAssets'
  BY <1>1, <1>2 DEF OutAssets, Out!Seen, Out!Syncing
<1>7. OutFiles'
  BY <1>1, <1>2 DEF OutFiles, Ran
<1>8. OutReports'
  <2> SUFFICES ASSUME NEW t \in Scan, t \notin clashed \cup broken PROVE ScanStands(t)'
    BY <1>2 DEF OutReports
  <2>1. ScanStands(t) /\ Out!RowsOf(t)' = Out!RowsOf(t) /\ Out!Busy(t)' = Out!Busy(t)
    BY <1>1, <1>2 DEF OutReports, Out!RowsOf, Out!Busy
  <2>2. \A i \in Out!Busy(t) : Stands(job[i], outcome[t], Out!RowsOf(t)) => Stands(job[i], outcome'[t], Out!RowsOf(t))
    BY <1>2, <1>3 DEF Stands
  <2>3. Rests(outcome[t], Out!RowsOf(t)) => Rests(outcome'[t], Out!RowsOf(t))
    BY <1>2, <1>3 DEF Rests
  <2> QED  BY <1>2, <2>1, <2>2, <2>3 DEF ScanStands
<1> QED  BY <1>4, <1>5, <1>6, <1>7, <1>8 DEF OutInv

\* A job goes on, or is over: it writes no asset and no file.
LEMMA OutGoesOn ==
    ASSUME Leavings, OutInv, NEW j \in Out!Job, NEW x \in OJob, job[j].at \in Out!AtWork, JobStands(x),
           job' = [job EXCEPT ![j] = x], x.at \in {"rendering", "listing", "failing", "over"},
           x.scan = job[j].scan, x.dir = job[j].dir, x.now = job[j].now, x.name = job[j].name,
           x.open = job[j].open, x.todo = job[j].todo, x.made \subseteq job[j].made,
           depth' = depth, asset' = asset, file' = file, crossed' = crossed, known' = known, clashed' = clashed,
           reportRows' \subseteq reportRows, broken \subseteq broken', broken' \subseteq Scan,
           outcome' \in [Scan -> {"pending", "running", "completed", "failed", "cancelled"}],
           \A t \in Scan : outcome'[t] = "pending" => outcome[t] = "pending",
           \A t \in Scan : outcome'[t] # "pending" /\ outcome[t] = "pending" => t = x.scan,
           \A t \in Scan : t # x.scan => outcome'[t] = outcome[t] /\ Out!RowsOf(t)' = Out!RowsOf(t),
           x.scan \notin clashed \cup broken' /\ Single(Out!RowsOf(x.scan))
             /\ Stands(job[j], outcome[x.scan], Out!RowsOf(x.scan)) =>
               /\ Single(Out!RowsOf(x.scan)')
               /\ x.at # "over" => Stands(x, outcome'[x.scan], Out!RowsOf(x.scan)')
               /\ x.at = "over" => Rests(outcome'[x.scan], Out!RowsOf(x.scan)')
    PROVE  OutInv'
<1>1. /\ OutTyped /\ OutCounted /\ OutAssets /\ OutFiles /\ OutReports
      /\ job[j] \in OJob /\ JobStands(job[j]) /\ job[j].scan \in Scan
  BY OutOne
<1>2. OutMoves(j, x)
  BY <1>1, OutUpdate
<1>3. OutTyped'
  BY <1>1, <1>2 DEF OutTyped, OutMoves
<1>4. x.at \notin {"none", "syncing", "saving"} /\ (x.at \in Out!AtWork <=> x.at # "over")
  BY DEF Out!AtWork
<1>5. \A t \in Scan : depth'[t] = depth[t] /\ depth'[t] >= depth[t]
  BY <1>1 DEF OutTyped
<1>11. depth[x.scan] >= 1
  BY <1>1 DEF OutCounted, Out!AtWork
<1>6. ASSUME NEW t \in Scan, outcome'[t] # "pending" PROVE outcome[t] # "pending" \/ depth'[t] >= 1
  <2>1. job[j].at # "none"
    BY DEF Out!AtWork
  <2>2. CASE outcome[t] # "pending"
    BY <2>2
  <2>3. CASE outcome[t] = "pending"
    <3>1. t = x.scan
      BY <1>6, <2>3
    <3> QED  BY <1>11, <3>1
  <2> QED  BY <2>2, <2>3
<1>7. OutCounted'
  BY <1>1, <1>2, <1>4, <1>5, <1>6, <1>11, OutCounts
<1>8. OutAssets'
  BY <1>1, <1>2, <1>4, AssetsStay
<1>9. OutFiles'
  BY <1>1, <1>2, FilesStay
<1>10. OutReports'
  <2>1. ASSUME x.scan \notin clashed' \cup broken'
        PROVE  Single(Out!RowsOf(x.scan)) /\ Stands(job[j], outcome[x.scan], Out!RowsOf(x.scan))
    <3>1. ScanStands(x.scan)
      BY <1>1, <2>1 DEF OutReports
    <3>2. j \in Out!Busy(x.scan)
      BY <1>2 DEF OutMoves
    <3> QED  BY <3>1, <3>2 DEF ScanStands
  <2> QED  BY <1>1, <1>2, <1>4, <2>1, ScansStand DEF Leavings
<1> QED  BY <1>3, <1>7, <1>8, <1>9, <1>10 DEF OutInv

\* A job at another place, or over.
LEMMA OutPlaces ==
    ASSUME Leavings, OutInv, NEW j \in Out!Job, job[j].at \in Out!AtWork, NEW x,
           \/ \E where \in {"rendering", "listing", "failing"} : x = [job[j] EXCEPT !.at = where]
           \/ x = [job[j] EXCEPT !.at = "over", !.read = {}, !.formats = {}, !.made = {}]
    PROVE  /\ x \in OJob /\ JobStands(x) /\ x.at \in {"rendering", "listing", "failing", "over"}
           /\ x.scan = job[j].scan /\ x.dir = job[j].dir /\ x.now = job[j].now /\ x.name = job[j].name
           /\ x.open = job[j].open /\ x.todo = job[j].todo /\ x.made \subseteq job[j].made /\ x.task = job[j].task
           /\ x.at # "over" => x.made = job[j].made /\ x.formats = job[j].formats
<1>1. job[j] \in OJob /\ JobStands(job[j]) /\ job[j].at # "none"
  BY OutOne
<1>2. ASSUME NEW where \in {"rendering", "listing", "failing"}, x = [job[j] EXCEPT !.at = where]
      PROVE  /\ x \in OJob /\ x.at = where
             /\ x.scan = job[j].scan /\ x.dir = job[j].dir /\ x.now = job[j].now /\ x.name = job[j].name
             /\ x.open = job[j].open /\ x.todo = job[j].todo /\ x.made = job[j].made /\ x.task = job[j].task
             /\ x.formats = job[j].formats
  BY <1>1, <1>2 DEF OJob, Out!AtWork
<1>3. ASSUME x = [job[j] EXCEPT !.at = "over", !.read = {}, !.formats = {}, !.made = {}]
      PROVE  /\ x \in OJob /\ x.at = "over"
             /\ x.scan = job[j].scan /\ x.dir = job[j].dir /\ x.now = job[j].now /\ x.name = job[j].name
             /\ x.open = job[j].open /\ x.todo = job[j].todo /\ x.made \subseteq job[j].made /\ x.task = job[j].task
  BY <1>1, <1>3 DEF OJob, Out!AtWork
<1>4. /\ x \in OJob /\ x.at \in {"rendering", "listing", "failing", "over"}
      /\ x.scan = job[j].scan /\ x.dir = job[j].dir /\ x.now = job[j].now /\ x.name = job[j].name
      /\ x.open = job[j].open /\ x.todo = job[j].todo /\ x.made \subseteq job[j].made /\ x.task = job[j].task
      /\ x.at # "over" => x.made = job[j].made /\ x.formats = job[j].formats
  BY <1>2, <1>3
<1>5. JobStands(x)
  BY <1>1, <1>4 DEF JobStands
<1> QED  BY <1>4, <1>5

\* The ends of the stages, and of the jobs.
LEMMA OutStages ==
    ASSUME Leavings, OutInv, NEW j \in Out!Job,
           \/ Out!EndSync(j) \/ Out!DeleteOldReports(j) \/ Out!EndRender(j) \/ Out!Finish(j)
           \/ Out!Raise(j) \/ Out!Fail(j) \/ Out!Crash(j)
    PROVE  OutInv'
<1>1. job[j].at \in Out!AtWork
  BY DEF Out!EndSync, Out!DeleteOldReports, Out!EndRender, Out!Finish, Out!Raise, Out!Fail, Out!Crash, Out!AtWork
<1>2. /\ OutTyped /\ job[j] \in OJob /\ JobStands(job[j]) /\ job[j].scan \in Scan /\ job[j].task \in {"run", "report"}
  BY <1>1, OutOne
<1>3. /\ outcome \in [Scan -> {"pending", "running", "completed", "failed", "cancelled"}] /\ broken \subseteq Scan
  BY <1>2 DEF OutTyped
<1> PICK s \in Scan : s = job[j].scan
  BY <1>2
<1> PICK over : over = [job[j] EXCEPT !.at = "over", !.read = {}, !.formats = {}, !.made = {}]
  OBVIOUS
<1>4. ASSUME Out!EndSync(j) \/ Out!EndRender(j) \/ Out!DeleteOldReports(j) PROVE OutInv'
  <2> DEFINE where == IF Out!EndRender(j) THEN "listing" ELSE "rendering"
             x == [job[j] EXCEPT !.at = where]
  <2>1. /\ job' = [job EXCEPT ![j] = x] /\ outcome' = outcome
        /\ depth' = depth /\ asset' = asset /\ file' = file /\ crossed' = crossed /\ known' = known
        /\ clashed' = clashed /\ broken' = broken
    BY <1>4 DEF Out!EndSync, Out!EndRender, Out!DeleteOldReports, Out!To
  <2>2. /\ x \in OJob /\ JobStands(x) /\ x.at \in {"rendering", "listing", "failing", "over"}
        /\ x.scan = s /\ x.dir = job[j].dir /\ x.now = job[j].now /\ x.name = job[j].name
        /\ x.open = job[j].open /\ x.todo = job[j].todo /\ x.made \subseteq job[j].made /\ x.task = job[j].task
        /\ x.at # "over" => x.made = job[j].made /\ x.formats = job[j].formats
    <3>1. where \in {"rendering", "listing", "failing"} /\ x = [job[j] EXCEPT !.at = where]
      OBVIOUS
    <3> HIDE DEF x, where
    <3> QED  BY <1>1, <3>1, OutPlaces
  <2>3. x.at = where
    BY <1>2 DEF OJob
  <2> HIDE DEF x
  <2>4. /\ reportRows' \subseteq reportRows
        /\ IF Out!DeleteOldReports(j) THEN Out!RowsOf(s)' = {} ELSE Out!RowsOf(s)' = Out!RowsOf(s)
        /\ \A t \in Scan : t # s => Out!RowsOf(t)' = Out!RowsOf(t)
    <3>1. IF Out!DeleteOldReports(j) THEN reportRows' = reportRows \ Out!RowsOf(s) ELSE reportRows' = reportRows
      BY <1>4 DEF Out!EndSync, Out!EndRender, Out!DeleteOldReports
    <3> QED  BY <3>1 DEF Out!RowsOf
  <2>5. ASSUME Single(Out!RowsOf(s)), Stands(job[j], outcome[s], Out!RowsOf(s))
        PROVE  Single(Out!RowsOf(s)') /\ x.at # "over" /\ Stands(x, outcome'[s], Out!RowsOf(s)')
    <3>1. Single(Out!RowsOf(s)')
      BY <2>4, <2>5 DEF Single
    <3>2. CASE Out!EndSync(j)
      <4>1. job[j].at = "syncing" /\ job[j].at \notin {"deleting", "rendering"}
        BY <3>2 DEF Out!EndSync
      <4>2. x.at = "rendering" /\ Out!RowsOf(s)' = Out!RowsOf(s)
        BY <2>3, <2>4, <4>1 DEF Out!EndRender, Out!DeleteOldReports
      <4> QED  BY <2>1, <2>2, <2>5, <3>1, <4>1, <4>2 DEF Stands
    <3>3. CASE Out!DeleteOldReports(j)
      <4>1. job[j].at = "deleting" /\ job[j].at # "rendering"
        BY <3>3 DEF Out!DeleteOldReports
      <4>2. x.at = "rendering" /\ Out!RowsOf(s)' = {}
        BY <2>3, <2>4, <3>3, <4>1 DEF Out!EndRender
      <4> QED  BY <2>1, <2>2, <2>5, <3>1, <4>1, <4>2 DEF Stands
    <3>4. CASE Out!EndRender(j)
      <4>1. job[j].at = "rendering" /\ job[j].at # "deleting" /\ job[j].formats = {}
        BY <3>4 DEF Out!EndRender
      <4>2. x.at = "listing" /\ Out!RowsOf(s)' = Out!RowsOf(s)
        BY <2>3, <2>4, <3>4, <4>1 DEF Out!DeleteOldReports
      <4>3. Out!RowsOf(s) = {} /\ job[j].made = Format
        BY <2>5, <4>1 DEF Stands
      <4> QED  BY <2>1, <2>2, <2>5, <3>1, <4>1, <4>2, <4>3 DEF Stands, Formats
    <3> QED  BY <1>4, <3>2, <3>3, <3>4
  <2>6. \A t \in Scan : outcome'[t] = outcome[t]
    BY <2>1
  <2> QED  BY <1>1, <1>3, <2>1, <2>2, <2>4, <2>5, <2>6, OutGoesOn
<1>5. /\ over \in OJob /\ JobStands(over) /\ over.at \in {"rendering", "listing", "failing", "over"}
      /\ over.scan = s /\ over.dir = job[j].dir /\ over.now = job[j].now /\ over.name = job[j].name
      /\ over.open = job[j].open /\ over.todo = job[j].todo /\ over.made \subseteq job[j].made
  <2>1. \/ \E where \in {"rendering", "listing", "failing"} : over = [job[j] EXCEPT !.at = where]
        \/ over = [job[j] EXCEPT !.at = "over", !.read = {}, !.formats = {}, !.made = {}]
    OBVIOUS
  <2>2. /\ over \in OJob /\ JobStands(over) /\ over.at \in {"rendering", "listing", "failing", "over"}
        /\ over.scan = job[j].scan /\ over.dir = job[j].dir /\ over.now = job[j].now /\ over.name = job[j].name
        /\ over.open = job[j].open /\ over.todo = job[j].todo /\ over.made \subseteq job[j].made
    BY ONLY <1>1, <2>1, OutPlaces, Leavings, OutInv, j \in Out!Job
  <2> QED  BY <2>2
<1>6. over.at = "over"
  BY <1>2 DEF OJob
<1>7. ASSUME Out!Finish(j) \/ Out!Fail(j) PROVE OutInv'
  <2>1. /\ job' = [job EXCEPT ![j] = over]
        /\ depth' = depth /\ asset' = asset /\ file' = file /\ crossed' = crossed /\ known' = known
        /\ clashed' = clashed /\ broken' = broken /\ reportRows' = reportRows
        /\ IF Out!Fail(j) THEN job[j].at = "failing" ELSE job[j].at = "listing" /\ job[j].made = {}
        /\ outcome' = IF Out!Fail(j) THEN [outcome EXCEPT ![s] = "failed"]
                      ELSE IF job[j].task = "run" THEN [outcome EXCEPT ![s] = "completed"] ELSE outcome
    BY <1>7 DEF Out!Finish, Out!Fail, Out!Over
  <2>2. \A t \in Scan : Out!RowsOf(t)' = Out!RowsOf(t)
    BY <2>1 DEF Out!RowsOf
  <2>3. /\ outcome' \in [Scan -> {"pending", "running", "completed", "failed", "cancelled"}]
        /\ \A t \in Scan : t # s => outcome'[t] = outcome[t]
        /\ outcome'[s] = IF Out!Fail(j) THEN "failed" ELSE IF job[j].task = "run" THEN "completed" ELSE outcome[s]
    BY <1>2, <1>3, <2>1
  <2>4. ASSUME Single(Out!RowsOf(s)), Stands(job[j], outcome[s], Out!RowsOf(s))
        PROVE  Single(Out!RowsOf(s)') /\ Rests(outcome'[s], Out!RowsOf(s)')
    <3>1. ~Out!Fail(j) /\ job[j].at = "listing" /\ job[j].made = {}
      BY <2>1, <2>4 DEF Stands
    <3>2. Formats(Out!RowsOf(s)) = Format /\ outcome'[s] = "completed"
      BY <1>2, <2>3, <2>4, <3>1 DEF Stands
    <3> QED  BY <1>2, <2>2, <2>4, <3>2 DEF Rests
  <2>6. \A t \in Scan : /\ outcome'[t] = "pending" => outcome[t] = "pending"
                        /\ outcome'[t] # "pending" /\ outcome[t] = "pending" => t = s
    BY <2>3
  <2>7. /\ \A t \in Scan : t # over.scan => outcome'[t] = outcome[t] /\ Out!RowsOf(t)' = Out!RowsOf(t)
        /\ \A t \in Scan : outcome'[t] # "pending" /\ outcome[t] = "pending" => t = over.scan
        /\ broken' \subseteq Scan /\ broken \subseteq broken' /\ reportRows' \subseteq reportRows
    BY <1>3, <1>5, <2>1, <2>2, <2>3, <2>6
  <2>8. Single(Out!RowsOf(over.scan)) /\ Stands(job[j], outcome[over.scan], Out!RowsOf(over.scan)) =>
               /\ Single(Out!RowsOf(over.scan)') /\ Rests(outcome'[over.scan], Out!RowsOf(over.scan)')
    <3>1. over.scan = s
      BY <1>5
    <3> QED  BY <2>4, <3>1
  <2>9. over.scan = job[j].scan /\ over.at = "over" /\ Leavings /\ OutInv /\ j \in Out!Job
    BY <1>5, <1>6
  <2> QED  BY ONLY <1>1, <1>5, <2>1, <2>3, <2>6, <2>7, <2>8, <2>9, OutGoesOn
<1>8. ASSUME Out!Raise(j) \/ Out!Crash(j) PROVE OutInv'
  <2> DEFINE x == IF Out!Raise(j) /\ job[j].task = "run" THEN [job[j] EXCEPT !.at = "failing"] ELSE over
  <2>1. /\ job' = [job EXCEPT ![j] = x]
        /\ depth' = depth /\ asset' = asset /\ file' = file /\ crossed' = crossed /\ known' = known
        /\ clashed' = clashed /\ broken' = broken \cup {s} /\ reportRows' = reportRows /\ outcome' = outcome
    <3>1. CASE Out!Raise(j)
      BY <3>1 DEF Out!Raise, Out!Over, Out!To
    <3>2. CASE ~Out!Raise(j)
      BY <1>8, <3>2 DEF Out!Crash, Out!Over
    <3> QED  BY <3>1, <3>2
  <2>2. /\ x \in OJob /\ JobStands(x) /\ x.at \in {"rendering", "listing", "failing", "over"}
        /\ x.scan = s /\ x.dir = job[j].dir /\ x.now = job[j].now /\ x.name = job[j].name
        /\ x.open = job[j].open /\ x.todo = job[j].todo /\ x.made \subseteq job[j].made
    <3>1. \/ \E where \in {"rendering", "listing", "failing"} : x = [job[j] EXCEPT !.at = where]
          \/ x = [job[j] EXCEPT !.at = "over", !.read = {}, !.formats = {}, !.made = {}]
      OBVIOUS
    <3> HIDE DEF x
    <3> QED  BY <1>1, <3>1, OutPlaces
  <2> HIDE DEF x
  <2>3. \A t \in Scan : Out!RowsOf(t)' = Out!RowsOf(t)
    BY <2>1 DEF Out!RowsOf
  <2>4. \A t \in Scan : outcome'[t] = outcome[t]
    BY <2>1
  <2>5. broken' \subseteq Scan /\ broken \subseteq broken' /\ x.scan \in broken'
    BY <1>2, <1>3, <2>1, <2>2
  <2> QED  BY <1>1, <1>3, <2>1, <2>2, <2>3, <2>4, <2>5, OutGoesOn
<1> QED  BY <1>4, <1>7, <1>8

\* What a job that was neither cut short nor met by another knows of its scan.
LEMMA OutOwn ==
    ASSUME OutInv, NEW j \in Out!Job, job[j].at \in Out!AtWork, NEW s, s = job[j].scan, s \notin clashed \cup broken
    PROVE  Single(Out!RowsOf(s)) /\ Stands(job[j], outcome[s], Out!RowsOf(s))
<1>1. s \in Scan /\ OutReports /\ OutTyped
  BY OutOne
<1>2. ScanStands(s)
  BY <1>1 DEF OutReports
<1>3. j \in Out!Busy(s)
  BY DEF Out!Busy
<1> QED  BY <1>2, <1>3 DEF ScanStands

\* Up to the end of _sync_assets a scan has no reports.
LEMMA SyncStands ==
    ASSUME Leavings, OutInv, NEW j \in Out!Job, NEW x \in OJob, OutMoves(j, x),
           job[j].at \in {"pipeline", "syncing", "saving"}, x.at \in {"syncing", "saving"},
           x.scan = job[j].scan, x.task = job[j].task, x.formats = job[j].formats, x.made = job[j].made,
           outcome' = outcome, reportRows' = reportRows, clashed' = clashed, broken' = broken
    PROVE  OutReports'
<1>1. OutTyped /\ OutReports /\ x.scan \in Scan
  BY OutOne DEF Out!AtWork
<1>2. \A t \in Scan : outcome'[t] = outcome[t] /\ Out!RowsOf(t)' = Out!RowsOf(t)
  BY DEF Out!RowsOf
<1>3. x.at \in Out!AtWork /\ job[j].at \in Out!AtWork
  BY DEF Out!AtWork
<1>4. ASSUME x.scan \notin clashed' \cup broken'
      PROVE  Single(Out!RowsOf(x.scan)') /\ Stands(x, outcome'[x.scan], Out!RowsOf(x.scan)')
  <2>1. Single(Out!RowsOf(x.scan)) /\ Stands(job[j], outcome[x.scan], Out!RowsOf(x.scan))
    BY <1>3, <1>4, OutOwn
  <2>2. Stands(x, outcome[x.scan], Out!RowsOf(x.scan))
    BY <2>1 DEF Stands
  <2> QED  BY <1>1, <1>2, <2>1, <2>2
<1> QED  BY <1>1, <1>2, <1>3, <1>4, ScansStand DEF Leavings

\* The pipeline has returned: the time noted is the latest.
LEMMA OutReportsBack ==
    ASSUME Leavings, OutInv, NEW j \in Out!Job, Out!Report(j)
    PROVE  OutInv'
<1>1. /\ OutTyped /\ OutCounted /\ OutAssets /\ OutFiles /\ OutReports
      /\ job[j] \in OJob /\ JobStands(job[j])
  BY OutOne
<1>2. PICK open \in SUBSET Asset, name \in BOOLEAN :
          job' = [job EXCEPT ![j] =
                      [@ EXCEPT !.at = "syncing", !.open = open, !.todo = open, !.name = name,
                                !.now = 1 + Out!Cardinality({i \in Out!Job : job[i].now > 0})]]
  BY DEF Out!Report
<1>3. Out!Cardinality({i \in Out!Job : job[i].now > 0}) = Cardinality(Noted)
  BY OutSizes DEF Noted
<1> PICK x : x = [job[j] EXCEPT !.at = "syncing", !.open = open, !.todo = open, !.name = name, !.now = 1 + Cardinality(Noted)]
  OBVIOUS
<1>4. /\ job' = [job EXCEPT ![j] = x] /\ job[j].at = "pipeline"
      /\ crossed' = (crossed \/ Out!Syncing # {})
      /\ outcome' = outcome /\ depth' = depth /\ asset' = asset /\ file' = file /\ reportRows' = reportRows
      /\ known' = known /\ clashed' = clashed /\ broken' = broken
  BY <1>2, <1>3 DEF Out!Report
<1>5. job[j].now = 0 /\ job[j].open = {} /\ job[j].todo = {} /\ job[j].scan \in Scan
  BY <1>1, <1>4 DEF JobStands
<1>6. Cardinality(Noted) \in Nat /\ Cardinality(Noted) + 1 <= Jobs /\ 1 + Cardinality(Noted) \in 0 .. Jobs
  <2>1. Cardinality(Noted) \in Nat /\ Cardinality(Noted) + 1 <= Jobs /\ Jobs \in Nat
    BY <1>5, JobsFit DEF Leavings
  <2> QED  BY <2>1
<1>7. /\ x \in OJob /\ x.at = "syncing" /\ x.open = open /\ x.todo = open /\ x.now = 1 + Cardinality(Noted)
      /\ x.scan = job[j].scan /\ x.dir = job[j].dir /\ x.task = job[j].task
      /\ x.formats = job[j].formats /\ x.made = job[j].made
  BY <1>1, <1>6 DEF OJob, Out!AtWork
<1>8. JobStands(x)
  BY <1>1, <1>4, <1>7 DEF JobStands
<1>9. OutMoves(j, x)
  BY <1>1, <1>4, <1>7, OutUpdate
<1>10. OutTyped'
  BY <1>1, <1>4, <1>9 DEF OutTyped, OutMoves
<1>11. OutCounted'
  <2>1. /\ \A t \in Scan : depth'[t] = depth[t] /\ depth'[t] >= depth[t] /\ outcome'[t] = outcome[t]
        /\ depth'[x.scan] >= 1
    BY <1>1, <1>4, <1>5, <1>7 DEF OutTyped, OutCounted
  <2> QED  BY <1>1, <1>5, <1>7, <1>8, <1>9, <2>1, OutCounts
<1>12. OutAssets'
  <2>1. \A i \in Out!Job, a \in Asset : a \in job[i].open \ job[i].todo <=> a \in job'[i].open \ job'[i].todo
    <3>1. job[j].open \ job[j].todo = {} /\ job'[j].open \ job'[j].todo = {}
      BY <1>5, <1>7, <1>9 DEF OutMoves
    <3>2. \A i \in Out!Job : i # j => job'[i] = job[i]
      BY <1>9 DEF OutMoves
    <3> QED  BY <3>1, <3>2
  <2>2. \A i \in Out!Job, a \in Asset : a \in job[i].open \ job[i].todo => job'[i] = job[i]
    BY <1>5, <1>9 DEF OutMoves
  <2>3. ASSUME NEW a \in Asset, asset'[a] # Out!NoAsset
        PROVE  \E i \in Out!Job : a \in job'[i].open \ job'[i].todo /\ (asset[a] = Out!Seen(i, asset[a].name))'
    <3>1. PICK i \in Out!Job : a \in job[i].open \ job[i].todo /\ asset[a] = Out!Seen(i, asset[a].name)
      BY <1>1, <1>4, <2>3 DEF OutAssets
    <3>2. (asset[a] = Out!Seen(i, asset[a].name))'
      BY <1>4, <2>2, <3>1 DEF Out!Seen
    <3> QED  BY <2>1, <3>1, <3>2
  <2>4. ASSUME ~crossed' PROVE ~crossed /\ Out!Syncing = {} /\ Out!Syncing' = {j}
    <3>1. ~crossed /\ Out!Syncing = {}
      BY <1>4, <2>4
    <3>2. \A i \in Out!Job : i # j => job'[i] = job[i] /\ job[i].at \notin {"syncing", "saving"}
      BY <1>9, <3>1 DEF Out!Syncing, OutMoves
    <3>3. job'[j].at = "syncing"
      BY <1>7, <1>9 DEF OutMoves
    <3>4. \A i : i \in Out!Syncing' <=> i = j
      BY <3>2, <3>3 DEF Out!Syncing
    <3> QED  BY <3>1, <3>4
  <2>5. ~crossed' => \A a \in Asset, i \in Out!Job : a \in job'[i].open \ job'[i].todo => job'[i].now <= asset'[a].seen
    BY <1>1, <1>4, <2>1, <2>2, <2>4 DEF OutAssets
  <2>6. \A i \in Out!Job : job'[i].now <= job'[j].now
    <3> SUFFICES ASSUME NEW i \in Out!Job PROVE job'[i].now <= job'[j].now
      OBVIOUS
    <3>1. job'[j].now = 1 + Cardinality(Noted) /\ job[i].now <= Cardinality(Noted) /\ job[i].now \in Nat
      BY <1>1, <1>7, <1>9 DEF OutMoves, OutCounted, OutTyped, OJob, Leavings
    <3>2. job'[i].now = job[i].now \/ job'[i].now = job'[j].now
      BY <1>9 DEF OutMoves
    <3> QED  BY <1>6, <3>1, <3>2
  <2>7. ~crossed' => \A i \in Out!Syncing' : /\ \A k \in Out!Syncing' : k = i
                                             /\ \A k \in Out!Job : job'[k].now <= job'[i].now
                                             /\ job'[i].at # "saving"
    BY <1>7, <1>9, <2>4, <2>6 DEF OutMoves
  <2>8. \A a \in Asset, i \in Out!Job : a \in job'[i].open \ job'[i].todo => asset'[a] # Out!NoAsset
    BY <1>1, <1>4, <2>1 DEF OutAssets
  <2>9. ~crossed' => \A a \in known' : asset'[a].name
    BY <1>1, <1>4, <2>4 DEF OutAssets
  <2> QED  BY <2>3, <2>5, <2>7, <2>8, <2>9 DEF OutAssets
<1>13. OutFiles'
  BY <1>1, <1>4, <1>7, <1>9, FilesStay
<1>14. OutReports'
  BY <1>4, <1>7, <1>9, SyncStands
<1> QED  BY <1>10, <1>11, <1>12, <1>13, <1>14 DEF OutInv

\* One asset is written, with what the job has found and what it has read.
LEMMA AssetWritten ==
    ASSUME Leavings, OutInv, NEW j \in Out!Job, NEW x \in OJob, OutMoves(j, x),
           NEW a \in job[j].todo, NEW n \in BOOLEAN,
           job[j].at \in {"syncing", "saving"}, x.at = "syncing",
           x.scan = job[j].scan, x.name = job[j].name, x.now = job[j].now, x.open = job[j].open,
           x.todo = job[j].todo \ {a},
           asset' = [asset EXCEPT ![a] = Out!Seen(j, n)],
           known' = IF job[j].name \/ n THEN known \cup {a} ELSE known, crossed' = crossed,
           ~crossed /\ a \in known => n
    PROVE  OutAssets' /\ asset' \in [Asset -> OAsset] /\ known' \subseteq Asset
<1>1. /\ OutTyped /\ OutCounted /\ OutAssets /\ job[j] \in OJob /\ JobStands(job[j]) /\ job[j].scan \in Scan
  BY OutOne DEF Out!AtWork
<1>2. a \in Asset /\ a \in x.open /\ job[j].open \subseteq Asset /\ job[j].todo \subseteq job[j].open
  BY <1>1 DEF OJob, JobStands
<1>3. asset \in [Asset -> OAsset] /\ known \subseteq Asset
  BY <1>1 DEF OutTyped
<1>4. /\ Out!Seen(j, n) = [scan |-> job[j].scan, count |-> j, seen |-> job[j].now, name |-> job[j].name \/ n]
      /\ Out!Seen(j, n) \in OAsset /\ Out!Seen(j, n) # Out!NoAsset
      /\ Out!Seen(j, n).name = (job[j].name \/ n) /\ Out!Seen(j, n).seen = job[j].now
  <2>1. Out!Seen(j, n) = [scan |-> job[j].scan, count |-> j, seen |-> job[j].now, name |-> job[j].name \/ n]
    BY DEF Out!Seen
  <2>2. j \in Nat /\ job[j].now \in 0 .. Jobs /\ job[j].name \in BOOLEAN /\ (job[j].name \/ n) \in BOOLEAN
    BY <1>1 DEF Out!Job, OJob, Leavings
  <2>3. Out!NoAsset.scan = NoScan
    BY DEF Out!NoAsset
  <2>4. Out!Seen(j, n).scan = job[j].scan
    BY <2>1
  <2> QED  BY <1>1, <2>1, <2>2, <2>3, <2>4 DEF OAsset, Leavings
<1>5. asset'[a] = Out!Seen(j, n) /\ \A b \in Asset : b # a => asset'[b] = asset[b]
  BY <1>2, <1>3
<1>6. asset' \in [Asset -> OAsset] /\ known' \subseteq Asset
  BY <1>2, <1>3, <1>4
<1>7. \A i \in Out!Job : /\ job'[i].scan = job[i].scan /\ job'[i].name = job[i].name /\ job'[i].now = job[i].now
                         /\ job'[i].open = job[i].open
                         /\ i # j => job'[i] = job[i]
  BY DEF OutMoves
<1>8. \A b \in Asset, i \in Out!Job :
         /\ b \in job[i].open \ job[i].todo => b \in job'[i].open \ job'[i].todo
         /\ b \in job'[i].open \ job'[i].todo => b \in job[i].open \ job[i].todo \/ (b = a /\ i = j)
  <2>1. job'[j].open = job[j].open /\ job'[j].todo = job[j].todo \ {a}
    BY DEF OutMoves
  <2> QED  BY <1>7, <2>1
<1>9. a \in job'[j].open \ job'[j].todo
  BY <1>2 DEF OutMoves
<1>10. \A i \in Out!Job : \A m : Out!Seen(i, m)' = Out!Seen(i, m)
  BY <1>7 DEF Out!Seen
<1>11. ASSUME NEW b \in Asset, asset'[b] # Out!NoAsset
       PROVE  \E i \in Out!Job : b \in job'[i].open \ job'[i].todo /\ (asset[b] = Out!Seen(i, asset[b].name))'
  <2>1. CASE b = a
    <3> PICK m : m = (job[j].name \/ n)
      OBVIOUS
    <3>1. Out!Seen(j, m) = Out!Seen(j, n)
      <4>1. Out!Seen(j, m) = [scan |-> job[j].scan, count |-> j, seen |-> job[j].now, name |-> job[j].name \/ m]
        BY DEF Out!Seen
      <4>2. (job[j].name \/ m) = (job[j].name \/ n)
        OBVIOUS
      <4> QED  BY <1>4, <4>1, <4>2
    <3>2. asset'[a] = Out!Seen(j, m) /\ asset'[a].name = m
      BY <1>4, <1>5, <3>1
    <3>3. Out!Seen(j, m)' = Out!Seen(j, m)
      BY <1>10
    <3>4. (asset[a] = Out!Seen(j, asset[a].name))'
      BY <3>2, <3>3
    <3> QED  BY <1>9, <2>1, <3>4
  <2>2. CASE b # a
    <3>1. asset'[b] = asset[b]
      BY <1>5, <2>2
    <3>2. PICK i \in Out!Job : b \in job[i].open \ job[i].todo /\ asset[b] = Out!Seen(i, asset[b].name)
      BY <1>1, <1>11, <3>1 DEF OutAssets
    <3> PICK m : m = asset[b].name
      OBVIOUS
    <3>3. asset'[b] = Out!Seen(i, m) /\ asset'[b].name = m /\ Out!Seen(i, m)' = Out!Seen(i, m)
      BY <1>10, <3>1, <3>2
    <3>4. (asset[b] = Out!Seen(i, asset[b].name))'
      BY <3>3
    <3> QED  BY <1>8, <3>2, <3>4
  <2> QED  BY <2>1, <2>2
<1>12. \A b \in Asset, i \in Out!Job : b \in job'[i].open \ job'[i].todo => asset'[b] # Out!NoAsset
  BY <1>1, <1>4, <1>5, <1>8 DEF OutAssets
<1>13. j \in Out!Syncing
  BY DEF Out!Syncing
<1>14. ASSUME ~crossed
       PROVE  /\ \A i \in Out!Syncing : i = j
              /\ \A i \in Out!Job : job[i].now <= job[j].now
  BY <1>1, <1>13, <1>14 DEF OutAssets
<1>15. ASSUME ~crossed, NEW b \in known' PROVE asset'[b].name
  <2>1. CASE b = a
    <3>1. b \in known => n
      BY <1>15, <2>1
    <3>2. job[j].name \/ n
      BY <1>15, <2>1, <3>1
    <3> QED  BY <1>4, <1>5, <2>1, <3>2
  <2>2. CASE b # a
    <3>1. b \in known /\ b \in Asset
      BY <1>3, <1>6, <1>15, <2>2
    <3> QED  BY <1>1, <1>5, <1>15, <2>2, <3>1 DEF OutAssets
  <2> QED  BY <2>1, <2>2
<1>16. ASSUME ~crossed, NEW b \in Asset, NEW i \in Out!Job, b \in job'[i].open \ job'[i].todo
       PROVE  job'[i].now <= asset'[b].seen
  <2>1. CASE b = a
    BY <1>4, <1>5, <1>7, <1>14, <1>16, <2>1
  <2>2. CASE b # a
    <3>1. b \in job[i].open \ job[i].todo
      BY <1>8, <1>16, <2>2
    <3> QED  BY <1>1, <1>5, <1>7, <1>16, <2>2, <3>1 DEF OutAssets
  <2> QED  BY <2>1, <2>2
<1>17. ASSUME ~crossed, NEW i \in Out!Syncing'
       PROVE  /\ \A k \in Out!Syncing' : k = i
              /\ \A k \in Out!Job : job'[k].now <= job'[i].now
              /\ job'[i].at # "saving"
  <2>1. \A k \in Out!Syncing' : k = j
    BY <1>7, <1>14, <1>17 DEF Out!Syncing
  <2>2. job'[j].at = "syncing"
    BY DEF OutMoves
  <2> QED  BY <1>7, <1>14, <1>17, <2>1, <2>2
<1>18. OutAssets'
  BY <1>11, <1>12, <1>15, <1>16, <1>17 DEF OutAssets
<1> QED  BY <1>6, <1>18

\* A step of _sync_assets keeps everything but the assets.
LEMMA SyncKeeps ==
    ASSUME Leavings, OutInv, NEW j \in Out!Job, NEW x \in OJob, OutMoves(j, x), JobStands(x),
           job[j].at \in {"syncing", "saving"}, x.at \in {"syncing", "saving"},
           x.scan = job[j].scan, x.task = job[j].task, x.dir = job[j].dir, x.now = job[j].now,
           x.formats = job[j].formats, x.made = job[j].made,
           outcome' = outcome, depth' = depth, file' = file, reportRows' = reportRows,
           crossed' = crossed, clashed' = clashed, broken' = broken,
           OutAssets' /\ asset' \in [Asset -> OAsset] /\ known' \subseteq Asset
    PROVE  OutInv'
<1>1. /\ OutTyped /\ OutCounted /\ OutFiles /\ OutReports /\ JobStands(job[j]) /\ job[j].scan \in Scan
  BY OutOne DEF Out!AtWork
<1>2. OutTyped'
  BY <1>1 DEF OutTyped, OutMoves
<1>3. OutCounted'
  <2>1. /\ \A t \in Scan : depth'[t] = depth[t] /\ depth'[t] >= depth[t] /\ outcome'[t] = outcome[t]
        /\ depth'[x.scan] >= 1
    BY <1>1 DEF OutTyped, OutCounted
  <2> QED  BY <1>1, <2>1, OutCounts
<1>4. OutFiles'
  BY <1>1, FilesStay
<1>5. OutReports'
  BY SyncStands
<1> QED  BY <1>2, <1>3, <1>4, <1>5 DEF OutInv

\* get_or_create: a new row has no name to lose, an old one is read.
LEMMA OutGets ==
    ASSUME Leavings, OutInv, NEW j \in Out!Job, NEW a \in Asset, Out!GetOrCreate(j, a)
    PROVE  OutInv'
<1>1. /\ OutTyped /\ OutCounted /\ OutAssets /\ OutFiles /\ OutReports
      /\ job[j] \in OJob /\ JobStands(job[j])
  BY OutOne
<1>2. /\ job[j].at = "syncing" /\ a \in job[j].todo
      /\ outcome' = outcome /\ depth' = depth /\ file' = file /\ reportRows' = reportRows
      /\ crossed' = crossed /\ clashed' = clashed /\ broken' = broken
  BY DEF Out!GetOrCreate
<1>3. asset[a] \in OAsset /\ known \subseteq Asset /\ asset[a].name \in BOOLEAN
  BY <1>1 DEF OutTyped, OAsset
<1>4. CASE asset[a] = Out!NoAsset
  <2> PICK x : x = [job[j] EXCEPT !.todo = job[j].todo \ {a}]
    OBVIOUS
  <2>1. /\ job' = [job EXCEPT ![j] = x] /\ asset' = [asset EXCEPT ![a] = Out!Seen(j, FALSE)]
        /\ known' = IF job[j].name THEN known \cup {a} ELSE known
    BY <1>1, <1>4 DEF Out!GetOrCreate, OutTyped
  <2>2. /\ x \in OJob /\ x.at = job[j].at /\ x.todo = job[j].todo \ {a} /\ x.open = job[j].open
        /\ x.scan = job[j].scan /\ x.task = job[j].task /\ x.dir = job[j].dir /\ x.now = job[j].now
        /\ x.formats = job[j].formats /\ x.made = job[j].made /\ x.name = job[j].name
    BY <1>1 DEF OJob
  <2>3. JobStands(x)
    BY <1>1, <1>2, <2>2 DEF JobStands
  <2>4. OutMoves(j, x)
    BY <1>1, <2>1, <2>2, OutUpdate
  <2>5. ~crossed /\ a \in known => FALSE
    <3>1. Out!NoAsset.name = FALSE
      BY DEF Out!NoAsset
    <3> QED  BY <1>1, <1>4, <3>1 DEF OutAssets
  <2>6. job[j].name \in BOOLEAN
    BY <1>1 DEF OJob
  <2> PICK n \in BOOLEAN : n = FALSE
    OBVIOUS
  <2>7. /\ asset' = [asset EXCEPT ![a] = Out!Seen(j, n)] /\ (~crossed /\ a \in known => n)
        /\ known' = IF job[j].name \/ n THEN known \cup {a} ELSE known
    BY <2>1, <2>5, <2>6
  <2>8. OutAssets' /\ asset' \in [Asset -> OAsset] /\ known' \subseteq Asset
    BY <1>2, <2>2, <2>4, <2>7, AssetWritten
  <2> QED  BY <1>2, <2>2, <2>3, <2>4, <2>8, SyncKeeps
<1>5. CASE asset[a] # Out!NoAsset
  <2> PICK x : x = [job[j] EXCEPT !.at = "saving", !.read = {[asset |-> a, name |-> asset[a].name]}]
    OBVIOUS
  <2>1. job' = [job EXCEPT ![j] = x] /\ asset' = asset /\ known' = known
    BY <1>1, <1>5 DEF Out!GetOrCreate, OutTyped
  <2>2. /\ x \in OJob /\ x.at = "saving" /\ x.read = {[asset |-> a, name |-> asset[a].name]}
        /\ x.todo = job[j].todo /\ x.open = job[j].open
        /\ x.scan = job[j].scan /\ x.task = job[j].task /\ x.dir = job[j].dir /\ x.now = job[j].now
        /\ x.formats = job[j].formats /\ x.made = job[j].made /\ x.name = job[j].name
    <3> PICK seen : seen = {[asset |-> a, name |-> asset[a].name]}
      OBVIOUS
    <3>1. seen \in SUBSET [asset : Asset, name : BOOLEAN]
      BY <1>3
    <3>2. "saving" \in Out!AtWork
      BY DEF Out!AtWork
    <3>3. x = [job[j] EXCEPT !.at = "saving", !.read = seen]
      OBVIOUS
    <3>4. x \in OJob
      BY <1>1, <3>1, <3>2, <3>3 DEF OJob
    <3> QED  BY <1>1, <3>3, <3>4 DEF OJob
  <2>3. JobStands(x)
    BY <1>1, <1>2, <1>3, <2>2 DEF JobStands
  <2>4. OutMoves(j, x)
    BY <1>1, <2>1, <2>2, OutUpdate
  <2>5. \A i \in Out!Job : /\ job'[i].scan = job[i].scan /\ job'[i].name = job[i].name /\ job'[i].now = job[i].now
                           /\ job'[i].open = job[i].open /\ job'[i].todo = job[i].todo
                           /\ i # j => job'[i] = job[i]
    BY <2>2, <2>4 DEF OutMoves
  <2>6. ASSUME NEW b \in Asset, asset'[b] # Out!NoAsset
        PROVE  \E i \in Out!Job : b \in job'[i].open \ job'[i].todo /\ (asset[b] = Out!Seen(i, asset[b].name))'
    <3>1. PICK i \in Out!Job : b \in job[i].open \ job[i].todo /\ asset[b] = Out!Seen(i, asset[b].name)
      BY <1>1, <2>1, <2>6 DEF OutAssets
    <3>2. (asset[b] = Out!Seen(i, asset[b].name))'
      BY <2>1, <2>5, <3>1 DEF Out!Seen
    <3> QED  BY <2>5, <3>1, <3>2
  <2>7. \A b \in Asset, i \in Out!Job : b \in job'[i].open \ job'[i].todo => asset'[b] # Out!NoAsset
    BY <1>1, <2>1, <2>5 DEF OutAssets
  <2>8. ~crossed' =>
          /\ \A b \in known' : asset'[b].name
          /\ \A b \in Asset, i \in Out!Job : b \in job'[i].open \ job'[i].todo => job'[i].now <= asset'[b].seen
    BY <1>1, <1>2, <2>1, <2>5 DEF OutAssets
  <2>9. ASSUME ~crossed, NEW i \in Out!Syncing'
        PROVE  /\ \A k \in Out!Syncing' : k = i
               /\ \A k \in Out!Job : job'[k].now <= job'[i].now
               /\ job'[i].at = "saving" => \A r \in job'[i].read : r.name = asset'[r.asset].name
    <3>1. j \in Out!Syncing
      BY <1>2 DEF Out!Syncing
    <3>2. (\A k \in Out!Syncing : k = j) /\ \A k \in Out!Job : job[k].now <= job[j].now
      BY <1>1, <2>9, <3>1 DEF OutAssets
    <3>3. \A k \in Out!Syncing' : k = j
      BY <2>5, <3>2 DEF Out!Syncing
    <3>4. \A r \in job'[j].read : r.name = asset'[r.asset].name
      BY <2>1, <2>2, <2>4 DEF OutMoves
    <3> QED  BY <2>5, <2>9, <3>2, <3>3, <3>4
  <2>10. OutAssets'
    BY <1>2, <2>6, <2>7, <2>8, <2>9 DEF OutAssets
  <2>11. asset' \in [Asset -> OAsset] /\ known' \subseteq Asset
    BY <1>1, <2>1 DEF OutTyped
  <2> QED  BY <1>2, <2>2, <2>3, <2>4, <2>10, <2>11, SyncKeeps
<1> QED  BY <1>4, <1>5

\* The asset read is saved.
LEMMA OutSaves ==
    ASSUME Leavings, OutInv, NEW j \in Out!Job, Out!SaveAsset(j)
    PROVE  OutInv'
<1>1. /\ OutTyped /\ OutCounted /\ OutAssets /\ OutFiles /\ OutReports
      /\ job[j] \in OJob /\ JobStands(job[j])
  BY OutOne
<1>2. /\ job[j].at = "saving"
      /\ outcome' = outcome /\ depth' = depth /\ file' = file /\ reportRows' = reportRows
      /\ crossed' = crossed /\ clashed' = clashed /\ broken' = broken
  BY DEF Out!SaveAsset
<1>3. PICK r \in job[j].read :
          /\ asset' = [asset EXCEPT ![r.asset] = Out!Saved(j, r.asset, r.name)]
          /\ known' = IF asset'[r.asset].name THEN known \cup {r.asset} ELSE known
          /\ job' = [job EXCEPT ![j] = [job[j] EXCEPT !.at = "syncing",
                                          !.todo = @ \ {r.asset}, !.read = {}]]
  BY DEF Out!SaveAsset
<1>4. r.asset \in job[j].todo /\ r.name \in BOOLEAN
  <2>1. PICK b \in job[j].todo, m \in BOOLEAN : job[j].read = {[asset |-> b, name |-> m]}
    BY <1>1, <1>2 DEF JobStands
  <2> QED  BY <1>3, <2>1
<1> PICK a : a = r.asset
  OBVIOUS
<1> PICK n : n = r.name
  OBVIOUS
<1> PICK x : x = [job[j] EXCEPT !.at = "syncing", !.todo = job[j].todo \ {a}, !.read = {}]
  OBVIOUS
<1>5. a \in job[j].todo /\ n \in BOOLEAN /\ a \in Asset
  BY <1>1, <1>4 DEF OJob
<1>6. asset' = [asset EXCEPT ![a] = Out!Seen(j, n)] /\ job' = [job EXCEPT ![j] = x]
  BY <1>3 DEF Out!Saved
<1>7. known' = IF job[j].name \/ n THEN known \cup {a} ELSE known
  <2>1. asset'[a] = Out!Seen(j, n)
    BY <1>1, <1>5, <1>6 DEF OutTyped
  <2>2. asset'[a].name = (job[j].name \/ n)
    BY <2>1 DEF Out!Seen
  <2> QED  BY <1>3, <2>2
<1>8. /\ x \in OJob /\ x.at = "syncing" /\ x.todo = job[j].todo \ {a} /\ x.open = job[j].open
      /\ x.scan = job[j].scan /\ x.task = job[j].task /\ x.dir = job[j].dir /\ x.now = job[j].now
      /\ x.formats = job[j].formats /\ x.made = job[j].made /\ x.name = job[j].name
  BY <1>1 DEF OJob, Out!AtWork
<1>9. JobStands(x)
  BY <1>1, <1>2, <1>8 DEF JobStands
<1>10. OutMoves(j, x)
  BY <1>1, <1>6, <1>8, OutUpdate
<1>11. ~crossed /\ a \in known => n
  <2>1. j \in Out!Syncing
    BY <1>2 DEF Out!Syncing
  <2>2. ~crossed => n = asset[a].name
    BY <1>1, <1>2, <1>3, <2>1 DEF OutAssets
  <2> QED  BY <1>1, <2>2 DEF OutAssets
<1>12. OutAssets' /\ asset' \in [Asset -> OAsset] /\ known' \subseteq Asset
  BY <1>2, <1>5, <1>6, <1>7, <1>8, <1>10, <1>11, AssetWritten
<1> QED  BY <1>2, <1>8, <1>9, <1>10, <1>12, SyncKeeps

\* A step that neither starts a job nor writes an asset or a status.
LEMMA WorkKeeps ==
    ASSUME Leavings, OutInv, NEW j \in Out!Job, NEW x \in OJob, OutMoves(j, x), JobStands(x),
           job[j].at \in {"rendering", "listing"}, x.at = job[j].at,
           x.scan = job[j].scan, x.name = job[j].name, x.now = job[j].now, x.open = job[j].open, x.todo = job[j].todo,
           outcome' = outcome, depth' = depth, asset' = asset, crossed' = crossed, known' = known, clashed' = clashed,
           file' \in [Out!Dir \X Format -> Scan \cup {NoScan}], reportRows' \subseteq ORow, broken' \subseteq Scan
    PROVE  OutTyped' /\ OutCounted' /\ OutAssets'
<1>1. OutTyped /\ OutCounted /\ OutAssets /\ job[j].scan \in Scan
  BY OutOne DEF Out!AtWork
<1>2. OutTyped'
  BY <1>1 DEF OutTyped, OutMoves
<1>3. OutCounted'
  <2>1. /\ \A t \in Scan : depth'[t] = depth[t] /\ depth'[t] >= depth[t] /\ outcome'[t] = outcome[t]
        /\ depth'[x.scan] >= 1
    BY <1>1 DEF OutTyped, OutCounted
  <2> QED  BY <1>1, <2>1, OutCounts
<1>4. OutAssets'
  BY <1>1, AssetsStay
<1> QED  BY <1>2, <1>3, <1>4

\* A renderer writes its file, or fails.
LEMMA OutRenders ==
    ASSUME Leavings, OutInv, NEW j \in Out!Job, NEW f \in Format, Out!Render(j, f)
    PROVE  OutInv'
<1>1. /\ OutTyped /\ OutCounted /\ OutAssets /\ OutFiles /\ OutReports
      /\ job[j] \in OJob /\ JobStands(job[j]) /\ job[j].scan \in Scan
  BY OutOne DEF Out!Render, Out!AtWork
<1>2. /\ job[j].at = "rendering" /\ f \in job[j].formats
      /\ outcome' = outcome /\ depth' = depth /\ asset' = asset /\ reportRows' = reportRows
      /\ crossed' = crossed /\ known' = known /\ clashed' = clashed
  BY DEF Out!Render
<1> PICK s \in Scan : s = job[j].scan
  BY <1>1
<1> PICK dir : dir = job[j].dir
  OBVIOUS
<1>3. dir \in Out!Dir /\ dir[1] = Target[s] /\ file \in [Out!Dir \X Format -> Scan \cup {NoScan}] /\ broken \subseteq Scan
  BY <1>1, <1>2 DEF JobStands, OutTyped
<1>4. reportRows \subseteq ORow
  BY <1>1 DEF OutTyped
<1>5. \A t \in Scan : outcome'[t] = outcome[t] /\ Out!RowsOf(t)' = Out!RowsOf(t)
  BY <1>2 DEF Out!RowsOf
<1>6. CASE /\ file' = [file EXCEPT ![<<job[j].dir, f>>] = job[j].scan]
           /\ job' = [job EXCEPT ![j] = [job[j] EXCEPT !.formats = @ \ {f}, !.made = @ \cup {f}]]
           /\ broken' = broken
  <2> PICK x : x = [job[j] EXCEPT !.formats = job[j].formats \ {f}, !.made = job[j].made \cup {f}]
    OBVIOUS
  <2>1. job' = [job EXCEPT ![j] = x] /\ file' = [file EXCEPT ![<<dir, f>>] = s]
    BY <1>6
  <2>2. /\ x \in OJob /\ x.at = job[j].at /\ x.formats = job[j].formats \ {f} /\ x.made = job[j].made \cup {f}
        /\ x.scan = s /\ x.task = job[j].task /\ x.dir = dir /\ x.name = job[j].name /\ x.now = job[j].now
        /\ x.open = job[j].open /\ x.todo = job[j].todo /\ x.read = job[j].read
    BY <1>1 DEF OJob
  <2>3. JobStands(x)
    BY <1>1, <1>2, <2>2 DEF JobStands
  <2>4. OutMoves(j, x)
    BY <1>1, <2>1, <2>2, OutUpdate
  <2>5. /\ file' \in [Out!Dir \X Format -> Scan \cup {NoScan}]
        /\ \A d \in Out!Dir, g \in Format :
             file'[<<d, g>>] = IF d = dir /\ g = f THEN s ELSE file[<<d, g>>]
    <3> PICK p : p = <<dir, f>>
      OBVIOUS
    <3>1. p \in Out!Dir \X Format
      BY <1>3
    <3>2. /\ file' \in [Out!Dir \X Format -> Scan \cup {NoScan}]
          /\ \A q \in Out!Dir \X Format : file'[q] = IF q = p THEN s ELSE file[q]
      BY <1>3, <2>1, <3>1
    <3>3. \A d \in Out!Dir, g \in Format : <<d, g>> \in Out!Dir \X Format /\ (<<d, g>> = p <=> d = dir /\ g = f)
      OBVIOUS
    <3> QED  BY <3>2, <3>3
  <2>6. OutTyped' /\ OutCounted' /\ OutAssets'
    <3>1. /\ file' \in [Out!Dir \X Format -> Scan \cup {NoScan}] /\ reportRows' \subseteq ORow /\ broken' \subseteq Scan
          /\ x.scan = job[j].scan
      BY <1>2, <1>3, <1>4, <1>6, <2>2, <2>5
    <3> QED  BY <1>2, <2>2, <2>3, <2>4, <3>1, WorkKeeps
  <2>7. OutFiles'
    <3>1. \A o : Ran(o) => Ran(o)'
      BY <2>2, <2>4 DEF Ran, OutMoves
    <3>2. Ran(s)'
      BY <2>2, <2>4 DEF Ran, OutMoves
    <3>3. \A d \in Out!Dir, g \in Format : file'[<<d, g>>] = file[<<d, g>>] \/ file'[<<d, g>>] = s
      BY <2>5
    <3>4. \A d \in Out!Dir, g \in Format : Ran(file[<<d, g>>]) => Ran(file[<<d, g>>])'
      BY <3>1, <3>2, <3>3
    <3>5. \A d \in Out!Dir, g \in Format : file'[<<d, g>>] \in Scan => Target[file'[<<d, g>>]] = d[1]
      BY <1>1, <1>3, <2>5 DEF OutFiles
    <3>6. ASSUME NEW r \in reportRows'
          PROVE  /\ r.dir[1] = Target[r.scan]
                 /\ file'[<<r.dir, r.format>>] = r.scan \/ Ran(file[<<r.dir, r.format>>])'
      <4>1. r.dir \in Out!Dir /\ r.format \in Format /\ r \in reportRows
        BY <1>2, <1>4, <3>6 DEF ORow
      <4>2. r.dir[1] = Target[r.scan] /\ (file[<<r.dir, r.format>>] = r.scan \/ Ran(file[<<r.dir, r.format>>]))
        BY <1>1, <4>1 DEF OutFiles
      <4>3. CASE Ran(file[<<r.dir, r.format>>])
        BY <3>4, <4>1, <4>2, <4>3
      <4>4. CASE file[<<r.dir, r.format>>] = r.scan
        <5>1. file'[<<r.dir, r.format>>] = r.scan \/ file'[<<r.dir, r.format>>] = s
          BY <3>3, <4>1, <4>4
        <5> QED  BY <3>2, <4>2, <5>1
      <4> QED  BY <4>2, <4>3, <4>4
    <3>7. ASSUME NEW i \in Out!Job, NEW g \in job'[i].made PROVE Ran(file[<<job[i].dir, g>>])'
      <4>1. CASE i = j /\ g = f
        <5>1. job'[i].dir = dir
          BY <2>2, <2>4, <4>1 DEF OutMoves
        <5>2. file'[<<dir, f>>] = s
          BY <1>3, <2>5
        <5> QED  BY <3>2, <4>1, <5>1, <5>2
      <4>2. CASE ~(i = j /\ g = f)
        <5>1. g \in job[i].made /\ job'[i].dir = job[i].dir
          BY <2>2, <2>4, <3>7, <4>2 DEF OutMoves
        <5>2. job[i].dir \in Out!Dir /\ g \in Format
          <6>1. job[i] \in OJob /\ JobStands(job[i])
            BY OutOne
          <6> QED  BY <5>1, <6>1 DEF OJob, JobStands
        <5>3. Ran(file[<<job[i].dir, g>>])
          BY <1>1, <5>1 DEF OutFiles
        <5> QED  BY <3>4, <5>1, <5>2, <5>3
      <4> QED  BY <4>1, <4>2
    <3> QED  BY <3>5, <3>6, <3>7 DEF OutFiles
  <2>8. OutReports'
    <3>1. ASSUME s \notin clashed' \cup broken'
          PROVE  Single(Out!RowsOf(s)') /\ Stands(x, outcome'[s], Out!RowsOf(s)')
      <4>1. Single(Out!RowsOf(s)) /\ Stands(job[j], outcome[s], Out!RowsOf(s))
        BY <1>2, <1>6, <3>1, OutOwn DEF Out!AtWork
      <4>2. Stands(x, outcome[s], Out!RowsOf(s))
        BY <1>2, <2>2, <4>1 DEF Stands
      <4> QED  BY <1>5, <4>1, <4>2
    <3>2. x.at \in Out!AtWork /\ job[j].at \in Out!AtWork
      BY <1>2, <2>2 DEF Out!AtWork
    <3> QED  BY <1>1, <1>2, <1>5, <1>6, <2>2, <2>4, <3>1, <3>2, ScansStand DEF Leavings
  <2> QED  BY <2>6, <2>7, <2>8 DEF OutInv
<1>7. CASE /\ job' = [job EXCEPT ![j].formats = @ \ {f}] /\ broken' = broken \cup {job[j].scan} /\ file' = file
  <2> PICK x : x = [job[j] EXCEPT !.formats = job[j].formats \ {f}]
    OBVIOUS
  <2>1. job' = [job EXCEPT ![j] = x]
    BY <1>1, <1>7 DEF OutTyped
  <2>2. /\ x \in OJob /\ x.at = job[j].at /\ x.made = job[j].made
        /\ x.scan = s /\ x.task = job[j].task /\ x.dir = dir /\ x.name = job[j].name /\ x.now = job[j].now
        /\ x.open = job[j].open /\ x.todo = job[j].todo /\ x.read = job[j].read
    BY <1>1 DEF OJob
  <2>3. JobStands(x)
    BY <1>1, <1>2, <2>2 DEF JobStands
  <2>4. OutMoves(j, x)
    BY <1>1, <2>1, <2>2, OutUpdate
  <2>5. broken' \subseteq Scan /\ broken \subseteq broken' /\ s \in broken'
    BY <1>3, <1>7
  <2>6. OutTyped' /\ OutCounted' /\ OutAssets'
    BY <1>2, <1>3, <1>4, <1>7, <2>2, <2>3, <2>4, <2>5, WorkKeeps
  <2>7. OutFiles'
    BY <1>1, <1>2, <1>7, <2>2, <2>4, FilesStay
  <2>8. OutReports'
    BY <1>1, <1>2, <1>5, <2>2, <2>4, <2>5, ScansStand DEF Leavings
  <2> QED  BY <2>6, <2>7, <2>8 DEF OutInv
<1> QED  BY <1>6, <1>7 DEF Out!Render

\* A report row is created for a file.
LEMMA OutLists ==
    ASSUME Leavings, OutInv, NEW j \in Out!Job, NEW f \in Format, Out!CreateReport(j, f)
    PROVE  OutInv'
<1>1. /\ OutTyped /\ OutCounted /\ OutAssets /\ OutFiles /\ OutReports
      /\ job[j] \in OJob /\ JobStands(job[j]) /\ job[j].scan \in Scan
  BY OutOne DEF Out!CreateReport, Out!AtWork
<1> PICK s \in Scan : s = job[j].scan
  BY <1>1
<1> PICK dir : dir = job[j].dir
  OBVIOUS
<1> PICK new : new = [scan |-> s, format |-> f, dir |-> dir, by |-> j]
  OBVIOUS
<1> PICK x : x = [job[j] EXCEPT !.made = job[j].made \ {f}]
  OBVIOUS
<1>2. /\ job[j].at = "listing" /\ f \in job[j].made
      /\ reportRows' = reportRows \cup {new}
      /\ outcome' = outcome /\ depth' = depth /\ asset' = asset /\ file' = file
      /\ crossed' = crossed /\ known' = known /\ clashed' = clashed /\ broken' = broken
  BY DEF Out!CreateReport
<1>3. job' = [job EXCEPT ![j] = x]
  BY <1>1 DEF Out!CreateReport, OutTyped
<1>4. /\ x \in OJob /\ x.at = job[j].at /\ x.made = job[j].made \ {f} /\ x.formats = job[j].formats
      /\ x.scan = s /\ x.task = job[j].task /\ x.dir = dir /\ x.name = job[j].name /\ x.now = job[j].now
      /\ x.open = job[j].open /\ x.todo = job[j].todo /\ x.read = job[j].read
  BY <1>1 DEF OJob
<1>5. JobStands(x)
  BY <1>1, <1>2, <1>4 DEF JobStands
<1>6. OutMoves(j, x)
  BY <1>1, <1>3, <1>4, OutUpdate
<1>7. new \in ORow /\ new.scan = s /\ new.format = f /\ new.dir = dir /\ dir[1] = Target[s]
  <2>1. dir \in Out!Dir /\ dir[1] = Target[s]
    BY <1>1, <1>2 DEF JobStands
  <2>2. j \in 0 .. Jobs
    BY DEF Out!Job, Leavings
  <2> QED  BY <2>1, <2>2 DEF ORow
<1>8. /\ file' \in [Out!Dir \X Format -> Scan \cup {NoScan}] /\ reportRows' \subseteq ORow /\ broken' \subseteq Scan
  BY <1>1, <1>2, <1>7 DEF OutTyped
<1>9. OutTyped' /\ OutCounted' /\ OutAssets'
  BY <1>2, <1>4, <1>5, <1>6, <1>8, WorkKeeps
<1>10. OutFiles'
  <2>1. \A o : Ran(o) => Ran(o)'
    BY <1>4, <1>6 DEF Ran, OutMoves
  <2>2. Ran(file[<<dir, f>>])
    BY <1>1, <1>2 DEF OutFiles
  <2>3. \A d \in Out!Dir, g \in Format : file'[<<d, g>>] \in Scan => Target[file'[<<d, g>>]] = d[1]
    BY <1>1, <1>2 DEF OutFiles
  <2>4. ASSUME NEW r \in reportRows'
        PROVE  /\ r.dir[1] = Target[r.scan]
               /\ file'[<<r.dir, r.format>>] = r.scan \/ Ran(file[<<r.dir, r.format>>])'
    <3>1. CASE r \in reportRows
      BY <1>1, <1>2, <2>1, <3>1 DEF OutFiles
    <3>2. CASE r = new
      BY <1>2, <1>7, <2>1, <2>2, <3>2
    <3> QED  BY <1>2, <2>4, <3>1, <3>2
  <2>5. ASSUME NEW i \in Out!Job, NEW g \in job'[i].made PROVE Ran(file[<<job[i].dir, g>>])'
    <3>1. g \in job[i].made /\ job'[i].dir = job[i].dir
      BY <1>4, <1>6, <2>5 DEF OutMoves
    <3>2. Ran(file[<<job[i].dir, g>>])
      BY <1>1, <3>1 DEF OutFiles
    <3> QED  BY <1>2, <2>1, <3>1, <3>2
  <2> QED  BY <2>3, <2>4, <2>5 DEF OutFiles
<1>11. OutReports'
  <2>1. \A t \in Scan : t # s => outcome'[t] = outcome[t] /\ Out!RowsOf(t)' = Out!RowsOf(t)
    BY <1>2, <1>7 DEF Out!RowsOf
  <2>2. Out!RowsOf(s)' = Out!RowsOf(s) \cup {new} /\ outcome'[s] = outcome[s]
    BY <1>2, <1>7 DEF Out!RowsOf
  <2>3. ASSUME s \notin clashed' \cup broken'
        PROVE  Single(Out!RowsOf(s)') /\ Stands(x, outcome'[s], Out!RowsOf(s)')
    <3> PICK R : R = Out!RowsOf(s)
      OBVIOUS
    <3>1. Single(R) /\ Stands(job[j], outcome[s], R)
      BY <1>2, <2>3, OutOwn DEF Out!AtWork
    <3>2. Formats(R) \cup job[j].made = Format /\ \A r \in R : r.format \notin job[j].made
      BY <1>2, <3>1 DEF Stands
    <3>3. Single(R \cup {new})
      BY <1>2, <1>7, <3>1, <3>2 DEF Single
    <3>4. Formats(R \cup {new}) \cup x.made = Format
      <4>1. Formats(R \cup {new}) = Formats(R) \cup {f}
        BY <1>7 DEF Formats
      <4> QED  BY <1>2, <1>4, <3>2, <4>1
    <3>5. \A r \in R \cup {new} : r.format \notin x.made
      BY <1>4, <1>7, <3>2
    <3>6. Stands(x, outcome[s], R \cup {new})
      BY <1>2, <1>4, <3>1, <3>4, <3>5 DEF Stands
    <3> QED  BY <2>2, <3>3, <3>6
  <2>4. x.at \in Out!AtWork /\ job[j].at \in Out!AtWork
    BY <1>2, <1>4 DEF Out!AtWork
  <2> QED  BY <1>1, <1>2, <1>4, <1>6, <2>1, <2>3, <2>4, ScansStand DEF Leavings
<1> QED  BY <1>9, <1>10, <1>11 DEF OutInv

\* Nothing has happened, or one scan without open ports has been completed.
LEMMA OutStarts ==
    ASSUME Leavings, Out!Init
    PROVE  OutInv
<1>1. PICK before \in SUBSET Scan :
         /\ Out!Cardinality(before) <= 1
         /\ outcome = [s \in Scan |-> IF s \in before THEN "completed" ELSE "pending"]
         /\ depth = [s \in Scan |-> IF s \in before THEN 1 ELSE 0]
         /\ reportRows = [scan : before, format : Format, dir : {<<Target[s], 1>> : s \in before}, by : {0}]
         /\ file = [p \in Out!Dir \X Format |->
                      IF \E r \in reportRows : p = <<r.dir, r.format>>
                        THEN CHOOSE s \in before : TRUE ELSE NoScan]
  BY DEF Out!Init
<1>2. /\ asset = [a \in Asset |-> Out!NoAsset] /\ job = [j \in Out!Job |-> Out!Idle]
      /\ crossed = FALSE /\ known = {} /\ clashed = {} /\ broken = {}
  BY DEF Out!Init
<1>3. Jobs \in Nat /\ NoScan \notin Scan
  BY DEF Leavings
<1>4. \A s, t \in before : s = t
  <2>1. IsFiniteSet(before) /\ Cardinality(before) <= 1
    BY <1>1, OutSizes, FS_Subset DEF Leavings
  <2> SUFFICES ASSUME NEW s \in before, NEW t \in before, s # t PROVE FALSE
    OBVIOUS
  <2>2. IsFiniteSet({s}) /\ Cardinality({s}) = 1
    BY FS_Singleton
  <2>3. Cardinality({s} \cup {t}) = 2
    BY <2>2, FS_AddElement
  <2>4. {s} \cup {t} \subseteq before
    OBVIOUS
  <2>5. Cardinality({s} \cup {t}) <= Cardinality(before)
    BY <2>1, <2>4, FS_Subset
  <2>6. Cardinality(before) \in Nat
    BY <2>1, FS_CardinalityType
  <2> QED  BY <2>1, <2>3, <2>5, <2>6
<1>5. \A s \in Scan : <<Target[s], 1>> \in Out!Dir /\ <<Target[s], 1>>[1] = Target[s]
  BY <1>3, OutDirs
<1>6. ASSUME NEW r \in reportRows
      PROVE  /\ r.scan \in before /\ r.dir = <<Target[r.scan], 1>> /\ r \in ORow
             /\ file[<<r.dir, r.format>>] = r.scan
  <2>1. r.scan \in before /\ r.format \in Format /\ r.by = 0
        /\ \E s \in before : r.dir = <<Target[s], 1>>
    BY <1>1
  <2>2. r.dir = <<Target[r.scan], 1>>
    BY <1>4, <2>1
  <2>3. r \in ORow
    <3>1. 0 \in 0 .. Jobs
      BY <1>3
    <3>2. {<<Target[s], 1>> : s \in before} \subseteq Out!Dir
      BY <1>5
    <3> QED  BY <1>1, <3>1, <3>2 DEF ORow
  <2>4. (CHOOSE s \in before : TRUE) = r.scan
    BY <1>4, <2>1
  <2> PICK p : p = <<r.dir, r.format>>
    OBVIOUS
  <2>5. p \in Out!Dir \X Format
    BY <1>5, <2>1, <2>2
  <2>6. file[p] = r.scan
    BY <1>1, <1>6, <2>4, <2>5
  <2> QED  BY <2>1, <2>2, <2>3, <2>6
<1>7. /\ Out!Idle \in OJob /\ JobStands(Out!Idle) /\ Out!Idle.at = "none" /\ Out!Idle.now = 0
      /\ Out!Idle.open = {} /\ Out!Idle.todo = {} /\ Out!Idle.made = {} /\ Out!Idle.scan = NoScan
  <2>1. 0 \in 0 .. Jobs
    BY <1>3
  <2>2. /\ Out!Idle.at = "none" /\ Out!Idle.now = 0 /\ Out!Idle.scan = NoScan
        /\ Out!Idle.open = {} /\ Out!Idle.todo = {} /\ Out!Idle.made = {}
    BY DEF Out!Idle, Out!Started
  <2>3. Out!Idle \in OJob
    BY <2>1 DEF Out!Idle, Out!Started, OJob
  <2> QED  BY <2>2, <2>3 DEF JobStands
<1>8. \A j \in Out!Job : job[j] = Out!Idle
  BY <1>2
<1>9. Out!NoAsset \in OAsset
  <2>1. 0 \in 0 .. Jobs
    BY <1>3
  <2> QED  BY <2>1 DEF OAsset, Out!NoAsset
<1>10. file \in [Out!Dir \X Format -> Scan \cup {NoScan}] /\ \A p \in Out!Dir \X Format : file[p] \in before \cup {NoScan}
  <2>1. ASSUME NEW r \in reportRows PROVE (CHOOSE s \in before : TRUE) \in before
    BY <1>6, <2>1
  <2>2. ASSUME NEW p \in Out!Dir \X Format PROVE file[p] \in before \cup {NoScan}
    <3>1. CASE \E r \in reportRows : p = <<r.dir, r.format>>
      BY <1>1, <2>1, <3>1
    <3>2. CASE ~\E r \in reportRows : p = <<r.dir, r.format>>
      BY <1>1, <3>2
    <3> QED  BY <3>1, <3>2
  <2>3. file \in [Out!Dir \X Format -> before \cup {NoScan}]
    BY <1>1, <2>2
  <2> QED  BY <2>2, <2>3
<1>11. OutTyped
  BY <1>1, <1>2, <1>6, <1>7, <1>9, <1>10 DEF OutTyped
<1>12. OutCounted
  <2>1. Cardinality(Begun) \in Nat /\ Cardinality(Noted) \in Nat
    BY JobsFit
  <2>2. \A s \in Scan : depth[s] \in {0, 1} /\ (outcome[s] # "pending" => depth[s] = 1)
    BY <1>1
  <2>3. \A j \in Out!Job : job[j].now <= Cardinality(Noted)
    BY <1>7, <1>8, <2>1
  <2>4. \A s \in Scan : depth[s] <= 1 + Cardinality(Begun)
    BY <2>1, <2>2
  <2> QED  BY <1>7, <1>8, <2>2, <2>3, <2>4 DEF OutCounted
<1>13. OutAssets
  <2>1. Out!Syncing = {}
    BY <1>7, <1>8 DEF Out!Syncing
  <2>2. \A a \in Asset : asset[a] = Out!NoAsset
    BY <1>2
  <2> QED  BY <1>2, <1>7, <1>8, <2>1, <2>2 DEF OutAssets
<1>14. OutFiles
  <2>1. ASSUME NEW d \in Out!Dir, NEW f \in Format, file[<<d, f>>] \in Scan
        PROVE  Target[file[<<d, f>>]] = d[1]
    <3> PICK p : p = <<d, f>>
      OBVIOUS
    <3>1. p \in Out!Dir \X Format /\ file[p] # NoScan
      BY <1>3, <2>1
    <3>2. PICK r \in reportRows : p = <<r.dir, r.format>>
      BY <1>1, <3>1
    <3>3. file[p] = r.scan /\ d = <<Target[r.scan], 1>>
      BY <1>6, <3>2
    <3> QED  BY <3>3
  <2>2. \A r \in reportRows : r.dir[1] = Target[r.scan]
    BY <1>5, <1>6
  <2> QED  BY <1>6, <1>7, <1>8, <2>1, <2>2 DEF OutFiles
<1>15. OutReports
  <2> SUFFICES ASSUME NEW s \in Scan PROVE ScanStands(s)
    BY DEF OutReports
  <2>1. Out!Busy(s) = {}
    BY <1>7, <1>8 DEF Out!Busy, Out!AtWork
  <2>2. Single(Out!RowsOf(s))
    <3> SUFFICES ASSUME NEW q \in reportRows, NEW r \in reportRows, q.format = r.format PROVE q = r
      BY DEF Single, Out!RowsOf
    <3>1. q.scan = r.scan /\ q.dir = r.dir /\ q.by = r.by
      BY <1>1, <1>4, <1>6
    <3>2. q \in ORow /\ r \in ORow
      BY <1>6
    <3> QED  BY <3>1, <3>2 DEF ORow
  <2>3. CASE s \in before
    <3>1. outcome[s] = "completed"
      BY <1>1, <2>3
    <3>2. ASSUME NEW f \in Format PROVE f \in Formats(Out!RowsOf(s))
      <4> PICK r : r = [scan |-> s, format |-> f, dir |-> <<Target[s], 1>>, by |-> 0]
        OBVIOUS
      <4>1. r \in reportRows /\ r.scan = s /\ r.format = f
        BY <1>1, <2>3
      <4> QED  BY <4>1 DEF Formats, Out!RowsOf
    <3>3. Formats(Out!RowsOf(s)) \subseteq Format
      BY <1>6 DEF Formats, Out!RowsOf, ORow
    <3> QED  BY <2>1, <2>2, <3>1, <3>2, <3>3 DEF ScanStands, Rests
  <2>4. CASE s \notin before
    <3>1. outcome[s] = "pending"
      BY <1>1, <2>4
    <3>2. Out!RowsOf(s) = {}
      BY <1>6, <2>4 DEF Out!RowsOf
    <3> QED  BY <2>1, <2>2, <3>1, <3>2 DEF ScanStands, Rests
  <2> QED  BY <2>3, <2>4
<1> QED  BY <1>11, <1>12, <1>13, <1>14, <1>15 DEF OutInv

\* Nothing of it has changed.
LEMMA OutStays ==
    ASSUME OutInv, UNCHANGED Out!vars
    PROVE  OutInv'
<1>1. /\ outcome' = outcome /\ depth' = depth /\ asset' = asset /\ file' = file /\ reportRows' = reportRows
      /\ job' = job /\ crossed' = crossed /\ known' = known /\ clashed' = clashed /\ broken' = broken
  BY DEF Out!vars
<1>2. OutTyped'
  BY <1>1 DEF OutInv, OutTyped
<1>3. OutCounted'
  BY <1>1 DEF OutInv, OutCounted, Begun, Noted
<1>4. OutAssets'
  BY <1>1 DEF OutInv, OutAssets, Out!Seen, Out!Syncing
<1>5. OutFiles'
  BY <1>1 DEF OutInv, OutFiles, Ran
<1>6. OutReports'
  <2>1. \A t \in Scan : Out!RowsOf(t)' = Out!RowsOf(t) /\ Out!Busy(t)' = Out!Busy(t)
    BY <1>1 DEF Out!RowsOf, Out!Busy
  <2>2. \A t \in Scan : ScanStands(t) => ScanStands(t)'
    BY <1>1, <2>1 DEF ScanStands
  <2> QED  BY <1>1, <2>2 DEF OutInv, OutReports
<1> QED  BY <1>2, <1>3, <1>4, <1>5, <1>6 DEF OutInv

\* Every step keeps the invariant.
LEMMA OutKeeps ==
    ASSUME Leavings, OutInv, [Out!Next]_(Out!vars)
    PROVE  OutInv'
<1>1. CASE \E s \in Scan : Out!Cancel(s) \/ \E j \in Out!Job : Out!Run(s, j) \/ Out!Regenerate(s, j)
  BY <1>1, OutCancels, OutRuns, OutRegenerates
<1>2. ASSUME NEW j \in Out!Job, Out!Work(j) PROVE OutInv'
  <2>1. CASE Out!Report(j)
    BY <2>1, OutReportsBack
  <2>2. CASE Out!SaveAsset(j)
    BY <2>2, OutSaves
  <2>3. CASE Out!EndSync(j) \/ Out!DeleteOldReports(j) \/ Out!EndRender(j) \/ Out!Finish(j)
    BY <2>3, OutStages
  <2>4. CASE \E a \in Asset : Out!GetOrCreate(j, a)
    BY <2>4, OutGets
  <2>5. CASE \E f \in Format : Out!Render(j, f) \/ Out!CreateReport(j, f)
    BY <2>5, OutRenders, OutLists
  <2> QED  BY <1>2, <2>1, <2>2, <2>3, <2>4, <2>5 DEF Out!Work
<1>3. ASSUME NEW j \in Out!Job, Out!Raise(j) \/ Out!Fail(j) \/ Out!Crash(j) PROVE OutInv'
  BY <1>3, OutStages
<1>4. CASE UNCHANGED Out!vars
  BY <1>4, OutStays
<1> QED  BY <1>1, <1>2, <1>3, <1>4 DEF Out!Next

\* The invariant gives the types the runs check.
LEMMA OutTypes ==
    ASSUME Leavings, OutInv
    PROVE  Out!TypeOK
<1>1. OutTyped /\ OutCounted
  BY DEF OutInv
<1>2. depth \in [Scan -> 0 .. Jobs + 1]
  <2>1. ASSUME NEW s \in Scan PROVE depth[s] \in 0 .. Jobs + 1
    <3>1. depth[s] \in Nat /\ depth[s] <= 1 + Cardinality(Begun)
      BY <1>1 DEF OutTyped, OutCounted
    <3>2. Cardinality(Begun) \in Nat /\ Cardinality(Begun) <= Jobs /\ Jobs \in Nat
      BY JobsFit DEF Leavings
    <3> QED  BY <3>1, <3>2
  <2> QED  BY <1>1, <2>1 DEF OutTyped
<1>3. \A j \in Out!Job :
         /\ job[j].at \in Out!AtWork \cup {"none", "over"}
         /\ job[j].todo \subseteq job[j].open /\ job[j].open \subseteq Asset
         /\ job[j].made \subseteq Format
  BY <1>1 DEF OutTyped, OutCounted, OJob, JobStands
<1> QED  BY <1>1, <1>2, <1>3 DEF OutTyped, OAsset, ORow, Out!TypeOK

\* An asset shows what one execution found there.
LEMMA AssetsPromise ==
    ASSUME OutInv
    PROVE  Out!AssetsExplained
<1>1. OutAssets
  BY DEF OutInv
<1> SUFFICES ASSUME NEW a \in Asset, asset[a] # Out!NoAsset
             PROVE  LET found == {j \in Out!Job : a \in job[j].open \ job[j].todo} IN
                      /\ \E j \in found : asset[a] = Out!Seen(j, asset[a].name)
                      /\ ~crossed => /\ a \in known => asset[a].name
                                     /\ \A j \in found : job[j].now <= asset[a].seen
  BY DEF Out!AssetsExplained
<1> DEFINE found == {j \in Out!Job : a \in job[j].open \ job[j].todo}
<1>2. \E j \in found : asset[a] = Out!Seen(j, asset[a].name)
  BY <1>1 DEF OutAssets
<1>3. ~crossed => (a \in known => asset[a].name) /\ \A j \in found : job[j].now <= asset[a].seen
  BY <1>1 DEF OutAssets
<1> QED  BY <1>2, <1>3

\* A report row names a file of its scan, or of another of the same target.
LEMMA ReportsPromise ==
    ASSUME Leavings, OutInv
    PROVE  Out!ReportsExplained
<1>1. OutTyped /\ OutFiles /\ OutReports
  BY DEF OutInv
<1>2. ASSUME NEW r \in reportRows, file[<<r.dir, r.format>>] # r.scan
      PROVE  \E j \in Out!Job : /\ job[j].scan = file[<<r.dir, r.format>>]
                                /\ Target[file[<<r.dir, r.format>>]] = Target[r.scan]
  <2>1. r.dir \in Out!Dir /\ r.format \in Format
    BY <1>1 DEF OutTyped, ORow
  <2>2. Ran(file[<<r.dir, r.format>>]) /\ r.dir[1] = Target[r.scan]
    BY <1>1, <1>2 DEF OutFiles
  <2>3. Target[file[<<r.dir, r.format>>]] = r.dir[1]
    BY <1>1, <2>1, <2>2 DEF OutFiles, Ran
  <2> QED  BY <2>2, <2>3 DEF Ran
<1>3. ASSUME NEW s \in Scan \ (clashed \cup broken)
      PROVE  /\ \A q, r \in Out!RowsOf(s) : q.format = r.format => q = r
             /\ outcome[s] = "completed" /\ Out!Busy(s) = {} => {r.format : r \in Out!RowsOf(s)} = Format
  BY <1>1 DEF OutReports, ScanStands, Single, Rests, Formats
<1> QED  BY <1>2, <1>3 DEF Out!ReportsExplained

-----------------------------------------------------------------------------
(* The results of a scan, for every behaviour of run_scan.                 *)

QueueInv == QueueTyped /\ QueueOrder /\ FindingsCounted /\ ResultsKept /\ FirstRunRight

\* The five parts of the invariant hold together.
LEMMA QueueInvariant == ASSUME Finite PROVE Spec => []QueueInv
<1>1. Init => QueueInv
  BY QueueStarts, OrderStarts, FindingsStart, KeptStarts, FirstRunStarts DEF QueueInv
<1>2. QueueInv /\ [Next]_vars => QueueInv'
  <2> SUFFICES ASSUME QueueInv, [Next]_vars PROVE QueueInv'
    OBVIOUS
  <2>1. QueueTyped /\ QueueOrder /\ FindingsCounted /\ ResultsKept /\ FirstRunRight
    BY DEF QueueInv
  <2>2. QueueTyped'
    BY <2>1, QueueTypes
  <2>3. QueueOrder' /\ ResultsKept' /\ FirstRunRight'
    BY <2>1, QueueOrders, ResultsKeep, FirstRunStays
  <2>4. FindingsCounted'
    BY <2>1, <2>2, FindingsCount
  <2> QED  BY <2>2, <2>3, <2>4 DEF QueueInv
<1> QED  BY <1>1, <1>2, PTL DEF Spec

\* The type invariant of the results of run_scan: its thread, its queues, the rows and
\* every instance of the scan.
THEOREM QueueTypesHold == ASSUME Finite PROVE Spec => []TypeOK
<1>1. QueueInv => TypeOK
  BY QueueTypeOK DEF QueueInv
<1> QED  BY <1>1, QueueInvariant, PTL

\* The counters of a completed scan do not change any more, unless a drain of its
\* queue had timed out or another execution is at work beside the one that completed
\* it (the end of run_scan; the retry view, which asks for the status only).
THEOREM CompletedStaysAsItIs == ASSUME Finite PROVE Spec => CompletedIsFinal
<1>1. QueueInv /\ [Next]_vars =>
        [row.status = "completed" /\ row'.status = "completed"
           /\ {"drain timed out", "executions met"} \cap causes' = {}
           => Counters(row') = Counters(row)]_vars
  <2> SUFFICES ASSUME QueueInv, Next, row.status = "completed", row'.status = "completed",
                      {"drain timed out", "executions met"} \cap causes' = {}
               PROVE  Counters(row') = Counters(row)
    OBVIOUS
  <2>1. row' = row
    BY FinalStep DEF QueueInv
  <2> QED  BY <2>1
<1> QED  BY <1>1, QueueInvariant, PTL DEF Spec, CompletedIsFinal

\* When a scan is completed, what its pipeline handed over is in the tables, and what
\* its counters say is there, unless a cause named in the properties is on record: an
\* item dropped, a drain that timed out, an older counter saved, executions at once
\* (run_scan, its writer thread, the cancel and retry views).
THEOREM DeliveredIsStored == ASSUME Finite PROVE Spec => []ResultsShown
<1>1. QueueInv => ResultsShown
  BY KeptPromise, CountsPromise DEF QueueInv, ResultsShown
<1> QED  BY <1>1, QueueInvariant, PTL

-----------------------------------------------------------------------------
(* The four side by side.                                                  *)

\* Each part goes on by itself.
LEMMA PartsGoOn ==
    ASSUME [ResultsNext]_<<part, vars, discovering, leaving, matching>>
    PROVE  [Next]_vars /\ [Disc!Next]_(Disc!vars) /\ [Out!Next]_(Out!vars) /\ [Msf!Next]_(Msf!vars)
<1>1. /\ UNCHANGED discovering => UNCHANGED Disc!vars
      /\ UNCHANGED leaving => UNCHANGED Out!vars
      /\ UNCHANGED matching => UNCHANGED Msf!vars
  <2>1. UNCHANGED discovering => UNCHANGED Disc!vars
    BY DEF discovering, Disc!vars, Disc!scan
  <2>2. UNCHANGED leaving => UNCHANGED Out!vars
    BY DEF leaving, Out!vars
  <2>3. UNCHANGED matching => UNCHANGED Msf!vars
    BY DEF matching, Msf!vars
  <2> QED  BY <2>1, <2>2, <2>3
<1>2. \/ QueueNext /\ UNCHANGED <<discovering, leaving, matching>>
      \/ Disc!Next /\ UNCHANGED <<vars, leaving, matching>>
      \/ Out!Next /\ UNCHANGED <<vars, discovering, matching>>
      \/ Msf!Next /\ UNCHANGED <<vars, discovering, leaving>>
      \/ UNCHANGED <<vars, discovering, leaving, matching>>
  BY DEF ResultsNext
<1>3. QueueNext => Next
  BY DEF QueueNext, Next
<1> QED  BY <1>1, <1>2, <1>3

\* Their invariants.
LEMMA ResultsInvariant ==
    ASSUME Finite, Bounds, Leavings
    PROVE  ResultsSpec => [](QueueInv /\ DiscInv /\ OutInv /\ MsfInv)
<1>1. ResultsSpec => []QueueInv
  <2>1. ResultsInit => Init
    BY DEF ResultsInit
  <2>2. [ResultsNext]_<<part, vars, discovering, leaving, matching>> => [Next]_vars
    BY PartsGoOn
  <2>3. ResultsSpec => Spec
    BY <2>1, <2>2, PTL DEF ResultsSpec, Spec
  <2> QED  BY <2>3, QueueInvariant, PTL
<1>2. ResultsInit => DiscInv /\ OutInv /\ MsfInv
  BY DiscStarts, OutStarts, MsfStarts DEF ResultsInit
<1>3. DiscInv /\ OutInv /\ MsfInv /\ [ResultsNext]_<<part, vars, discovering, leaving, matching>>
        => DiscInv' /\ OutInv' /\ MsfInv'
  <2> SUFFICES ASSUME DiscInv, OutInv, MsfInv, [ResultsNext]_<<part, vars, discovering, leaving, matching>>
               PROVE  DiscInv' /\ OutInv' /\ MsfInv'
    OBVIOUS
  <2>1. [Disc!Next]_(Disc!vars) /\ [Out!Next]_(Out!vars) /\ [Msf!Next]_(Msf!vars)
    BY PartsGoOn
  <2> QED  BY <2>1, DiscKeeps, OutKeeps, MsfKeeps
<1> QED  BY <1>1, <1>2, <1>3, PTL DEF ResultsSpec

\* The type invariant of the four, for any hosts, scans, assets and formats.
THEOREM ResultsTyped ==
    ASSUME Finite, Bounds, Leavings
    PROVE  ResultsSpec => []ResultsTypeOK
<1>1. QueueInv /\ DiscInv /\ OutInv /\ MsfInv => ResultsTypeOK
  <2>1. QueueInv => TypeOK
    BY QueueTypeOK DEF QueueInv
  <2>2. DiscInv => Disc!TypeOK
    BY DiscTypes DEF DiscInv
  <2>3. OutInv => Out!TypeOK
    BY OutTypes
  <2> QED  BY <2>1, <2>2, <2>3, MsfTypes DEF ResultsTypeOK
<1> QED  BY <1>1, ResultsInvariant, PTL

\* The counters of a scan that has ended agree with its rows, or one of the causes
\* named there is on record, and findings are never over-counted (run_scan,
\* run_discovery_scan, and the writer thread of either).
THEOREM CountersAreExplained ==
    ASSUME Finite, Bounds, Leavings
    PROVE  ResultsSpec => []CountersExplained
<1>1. QueueInv /\ DiscInv => CountersExplained
  <2> SUFFICES ASSUME QueueInv, DiscInv PROVE CountersExplained
    OBVIOUS
  <2>1. CountsExplained /\ FindingsNeverOvercounted
    BY CountsPromise, FindingsPromise DEF QueueInv
  <2> QED  BY <2>1 DEF CountersExplained, DiscInv
<1> QED  BY <1>1, ResultsInvariant, PTL

\* Assets, report rows and exploit matches are those of the execution they name,
\* and complete (_sync_assets, generate_report, match_exploits).
THEOREM OutputsAreExplained ==
    ASSUME Finite, Bounds, Leavings
    PROVE  ResultsSpec => []OutputsExplained
<1>1. OutInv /\ MsfInv => OutputsExplained
  BY AssetsPromise, ReportsPromise, MatchesPromise DEF OutputsExplained
<1> QED  BY <1>1, ResultsInvariant, PTL
=============================================================================
