--------------------------- MODULE PipelineProofs ---------------------------
(***************************************************************************)
(* Proofs about Pipeline, for any addresses, subnets and numbers of        *)
(* permits: hosts in work keep their types, no live host goes unreported,  *)
(* results are complete, the callbacks come in the order ResultFeed        *)
(* promises, and the progress bar, a share of finished subnets and then a  *)
(* mean over the hosts, stays within its range and never moves back.       *)
(***************************************************************************)
EXTENDS Pipeline, FiniteSums

-----------------------------------------------------------------------------
(* Types, those of the bar apart.                                          *)

Typed ==
    /\ stage \in {"discovering", "scanning", "returned", "raised"}
    /\ subnet \in [Subnet -> {"waiting", "scanning", "done", "failed"}]
    /\ before \in [Subnet -> SUBSET Host]
    /\ live \subseteq Host /\ unreachable \subseteq Host /\ reported \subseteq Host
    /\ targets \subseteq Host /\ delivered \subseteq Host /\ closed \subseteq Host
    /\ at \in [Host -> Phase]
    /\ work \in [Host -> {"waiting", "running", "returned", "raised"}]

\* At first nothing is known.
LEMMA InitTyped == Init => Typed
BY DEF Init, Typed, Phase

\* A host that enters a phase stands at it, and the others where they stood.
LEMMA AdvanceMoves ==
    ASSUME Typed, NEW h \in Host, NEW phase \in Phase, Advance(h, phase)
    PROVE  /\ at' \in [Host -> Phase] /\ at'[h] = phase
           /\ \A g \in Host : g # h => at'[g] = at[g]
BY DEF Advance, Typed

\* The subnet scans.
LEMMA DiscoveryTyped ==
    ASSUME Typed, NEW n \in Subnet,
           \/ SubnetStep(n)
           \/ \E found \in SUBSET Host : ToolFinds(n, found)
           \/ \E h \in Host : ToolFindsFiltered(n, h)
    PROVE  Typed'
<1>1. CASE StartSubnet(n)
    BY <1>1 DEF StartSubnet, Typed, hosts
<1>2. CASE FinishSubnet(n)
    <2>1. New(n) \subseteq Host
        BY DEF New, Typed
    <2> QED
        BY <1>2, <2>1 DEF FinishSubnet, Typed, hosts
<1>3. CASE SubnetRaises(n)
    BY <1>3 DEF SubnetRaises, Typed, hosts
<1>4. ASSUME NEW found \in SUBSET Host, ToolFinds(n, found) PROVE Typed'
    BY <1>4 DEF ToolFinds, Typed, hosts
<1>5. ASSUME NEW h \in Host, ToolFindsFiltered(n, h) PROVE Typed'
    BY <1>5 DEF ToolFindsFiltered, Typed, hosts
<1> QED
    BY <1>1, <1>2, <1>3, <1>4, <1>5 DEF SubnetStep

\* The coroutines of the hosts.
LEMMA HostTyped ==
    ASSUME Typed, NEW h \in Host, HostStep(h)
    PROVE  Typed'
<1>1. CASE EnterPipeline(h)
    <2>1. at' \in [Host -> Phase]
        BY <1>1, AdvanceMoves DEF EnterPipeline, Phase
    <2> QED
        BY <1>1, <2>1 DEF EnterPipeline, Typed, discovery
<1>2. CASE FindClosed(h)
    <2>1. at' \in [Host -> Phase]
        BY <1>2, AdvanceMoves DEF FindClosed, Phase
    <2> QED
        BY <1>2, <2>1 DEF FindClosed, Typed, discovery
<1>3. CASE NextPhase(h)
    <2>1. \E phase \in Phase : Advance(h, phase)
        BY <1>3 DEF NextPhase, Phase
    <2>2. at' \in [Host -> Phase]
        BY <2>1, AdvanceMoves
    <2> QED
        BY <1>3, <2>2 DEF NextPhase, Typed, discovery
<1>4. CASE FinishHost(h)
    BY <1>4 DEF FinishHost, Typed, discovery
<1>5. CASE HostRaises(h)
    BY <1>5 DEF HostRaises, Typed, discovery
<1> QED
    BY <1>1, <1>2, <1>3, <1>4, <1>5 DEF HostStep

\* What is scanned are addresses.
LEMMA EffectiveTyped ==
    ASSUME Typed, NEW scanUnresponsive \in BOOLEAN
    PROVE  Effective(scanUnresponsive) \subseteq Host
<1>1. UNION {AddressesOf[n] : n \in Subnet} \subseteq Host
    BY AddressAssumption
<1> QED
    BY <1>1 DEF Effective, Typed

\* Every step keeps the types.
LEMMA NextTyped == Typed /\ [Next]_vars => Typed'
<1> SUFFICES ASSUME Typed, [Next]_vars PROVE Typed'
    OBVIOUS
<1>1. CASE UNCHANGED vars
    BY <1>1 DEF Typed, vars, hosts, discovery
<1>2. CASE FinishDiscovery
    <2>1. targets' \subseteq Host
        BY <1>2, EffectiveTyped DEF FinishDiscovery
    <2> QED
        BY <1>2, <2>1 DEF FinishDiscovery, Typed, hosts
<1>3. CASE FinishPipeline \/ Raise
    BY <1>3 DEF FinishPipeline, Raise, Typed, hosts, discovery
<1> QED
    BY <1>1, <1>2, <1>3, DiscoveryTyped, HostTyped DEF Next

\* The state of the subnet scans and of the hosts keeps its type.
THEOREM TypeCorrect == Spec => []Typed
BY InitTyped, NextTyped, PTL DEF Spec

-----------------------------------------------------------------------------
(* Discovery.                                                              *)

Unsettled == Scanning \cup Failed

\* While discovery runs: what is reported is live, what a scan remembers was live
\* when it began, and what is live is reported or in the delta of an unsettled scan.
Accounted == stage = "discovering" =>
    /\ reported \subseteq live
    /\ \A n \in Subnet : before[n] \subseteq live
    /\ \A h \in live : h \in reported \/ \E n \in Unsettled : h \in New(n)

\* The steps of one subnet scan keep the account.
LEMMA DiscoveryAccounted ==
    ASSUME Typed, Accounted, NEW n \in Subnet,
           \/ SubnetStep(n)
           \/ \E found \in SUBSET Host : ToolFinds(n, found)
           \/ \E h \in Host : ToolFindsFiltered(n, h)
    PROVE  Accounted'
<1>0. /\ stage = "discovering" /\ stage' = stage
      /\ reported \subseteq live /\ \A m \in Subnet : before[m] \subseteq live
      /\ \A h \in live : h \in reported \/ \E m \in Unsettled : h \in New(m)
    BY DEF Accounted, SubnetStep, StartSubnet, FinishSubnet, SubnetRaises, ToolFinds, ToolFindsFiltered
<1>1. CASE StartSubnet(n)
    <2>1. /\ n \notin Unsettled /\ Unsettled' = Unsettled \cup {n}
          /\ \A m \in Unsettled : before'[m] = before[m]
          /\ live' = live /\ reported' = reported
        BY <1>1 DEF StartSubnet, Typed, Unsettled, Scanning, Failed
    <2>2. \A m \in Subnet : before'[m] \subseteq live
        BY <1>0, <1>1 DEF StartSubnet, Typed
    <2>3. \A m \in Unsettled : m \in Unsettled' /\ New(m)' = New(m)
        BY <2>1 DEF New
    <2> QED
        BY <1>0, <2>1, <2>2, <2>3 DEF Accounted
<1>2. CASE FinishSubnet(n)
    <2>1. /\ Unsettled' = Unsettled \ {n} /\ before' = before /\ live' = live
          /\ reported' = reported \cup New(n)
        BY <1>2 DEF FinishSubnet, Typed, Unsettled, Scanning, Failed
    <2>2. \A m \in Subnet : New(m)' = New(m)
        BY <2>1 DEF New
    <2>3. New(n) \subseteq live
        BY DEF New
    <2>4. Unsettled \subseteq Subnet
        BY DEF Unsettled, Scanning, Failed
    <2>5. ASSUME NEW h \in live', h \notin reported' PROVE \E m \in Unsettled' : h \in New(m)'
        <3>1. PICK m \in Unsettled : h \in New(m)
            BY <1>0, <2>1, <2>5
        <3>2. m # n
            BY <2>1, <2>5, <3>1
        <3> QED
            BY <2>1, <2>2, <2>4, <3>1, <3>2
    <2> QED
        BY <1>0, <2>1, <2>3, <2>5 DEF Accounted
<1>3. CASE SubnetRaises(n)
    <2>1. /\ Unsettled' = Unsettled /\ before' = before /\ live' = live /\ reported' = reported
        BY <1>3 DEF SubnetRaises, Typed, Unsettled, Scanning, Failed
    <2>2. \A m \in Subnet : New(m)' = New(m)
        BY <2>1 DEF New
    <2>3. Unsettled \subseteq Subnet
        BY DEF Unsettled, Scanning, Failed
    <2> QED
        BY <1>0, <2>1, <2>2, <2>3 DEF Accounted
<1>4. ASSUME NEW found \in SUBSET Host, ToolFinds(n, found) PROVE Accounted'
    <2>1. /\ n \in Unsettled /\ live' = live \cup found
          /\ Unsettled' = Unsettled /\ before' = before /\ reported' = reported
        BY <1>4 DEF ToolFinds, Unsettled, Scanning, Failed
    <2>2. \A m \in Subnet : New(m) \subseteq New(m)'
        BY <2>1 DEF New
    <2>3. Unsettled \subseteq Subnet
        BY DEF Unsettled, Scanning, Failed
    <2>4. ASSUME NEW h \in live', h \notin reported' PROVE \E m \in Unsettled' : h \in New(m)'
        <3>1. CASE h \in live
            BY <1>0, <2>1, <2>2, <2>3, <2>4, <3>1
        <3>2. CASE h \notin live
            <4>1. h \in live' \ before'[n]
                BY <1>0, <2>1, <3>2
            <4>2. h \in New(n)'
                BY <4>1 DEF New
            <4> QED
                BY <2>1, <4>2
        <3> QED
            BY <3>1, <3>2
    <2> QED
        BY <1>0, <2>1, <2>4 DEF Accounted
<1>5. ASSUME NEW h \in Host, ToolFindsFiltered(n, h) PROVE Accounted'
    <2>1. UNCHANGED <<subnet, before, live, reported>>
        BY <1>5 DEF ToolFindsFiltered
    <2> QED
        BY <1>0, <2>1 DEF Accounted, Unsettled, Scanning, Failed, New
<1> QED
    BY <1>1, <1>2, <1>3, <1>4, <1>5 DEF SubnetStep

\* Every step keeps the account.
LEMMA NextAccounted == Typed /\ Accounted /\ [Next]_vars => Accounted'
<1> SUFFICES ASSUME Typed, Accounted, [Next]_vars PROVE Accounted'
    OBVIOUS
<1>1. CASE UNCHANGED vars
    BY <1>1 DEF Accounted, Unsettled, Scanning, Failed, New, vars, discovery
<1>2. FinishDiscovery \/ FinishPipeline \/ Raise => stage' # "discovering"
    BY DEF FinishDiscovery, FinishPipeline, Raise
<1>3. ASSUME NEW h \in Host, HostStep(h) PROVE stage' # "discovering"
    BY <1>3 DEF HostStep, EnterPipeline, FindClosed, NextPhase, FinishHost, HostRaises
<1>4. stage' # "discovering" => Accounted'
    BY DEF Accounted
<1> QED
    BY <1>1, <1>2, <1>3, <1>4, DiscoveryAccounted DEF Next

\* At first nothing is live.
LEMMA InitAccounted == Init => Accounted
BY DEF Init, Accounted

\* No live host goes unreported, although all subnet scans add to one set and each
\* reports what has appeared since it began: the last to see it new has it.
THEOREM LiveHostsReported == Spec => []NoHostUnreported
<1>1. Accounted => NoHostUnreported
    BY DEF Accounted, NoHostUnreported, Unsettled
<1> QED
    BY <1>1, InitTyped, NextTyped, InitAccounted, NextAccounted, PTL DEF Spec

-----------------------------------------------------------------------------
(* The results, and the order of the callbacks.                            *)

\* A delivered host is a target whose pipeline is over.
Delivered == \A h \in delivered :
    h \in targets /\ stage # "discovering" /\ work[h] = "returned" /\ at[h] = "enumeration"

\* At first nothing is delivered.
LEMMA InitDelivered == Init => Delivered
BY DEF Init, Delivered

\* Only a running host moves, and a delivered one does not run.
LEMMA HostDelivered ==
    ASSUME Typed, Delivered, NEW h \in Host, HostStep(h)
    PROVE  Delivered'
<1>1. targets' = targets /\ stage' = stage /\ stage = "scanning"
    BY DEF HostStep, EnterPipeline, FindClosed, NextPhase, FinishHost, HostRaises, discovery
<1>2. CASE FinishHost(h)
    <2>1. /\ h \in targets /\ at' = at /\ at[h] = "enumeration" /\ work'[h] = "returned"
          /\ \A g \in Host : g # h => work'[g] = work[g]
          /\ delivered' \subseteq delivered \cup {h}
        BY <1>2 DEF FinishHost, Running, Typed
    <2> QED
        BY <1>1, <2>1 DEF Delivered, Typed
<1>3. CASE ~FinishHost(h)
    <2>1. /\ delivered' = delivered /\ h \notin delivered
          /\ \A g \in Host : g # h => work'[g] = work[g]
        BY <1>3 DEF HostStep, EnterPipeline, FindClosed, NextPhase, HostRaises, Delivered, Typed, Running
    <2>2. \A g \in Host : g # h => at'[g] = at[g]
        <3>1. at' = at \/ \E phase \in Phase : Advance(h, phase)
            BY <1>3 DEF HostStep, EnterPipeline, FindClosed, NextPhase, HostRaises, Phase
        <3> QED
            BY <3>1, AdvanceMoves
    <2> QED
        BY <1>1, <2>1, <2>2 DEF Delivered, Typed
<1> QED
    BY <1>2, <1>3

\* Every step keeps results complete.
LEMMA NextDelivered == Typed /\ Delivered /\ [Next]_vars => Delivered'
<1> SUFFICES ASSUME Typed, Delivered, [Next]_vars PROVE Delivered'
    OBVIOUS
<1>1. CASE UNCHANGED vars
    BY <1>1 DEF Delivered, vars, hosts
<1>2. ASSUME NEW n \in Subnet,
             \/ SubnetStep(n)
             \/ \E found \in SUBSET Host : ToolFinds(n, found)
             \/ \E h \in Host : ToolFindsFiltered(n, h)
      PROVE  Delivered'
    BY <1>2 DEF SubnetStep, StartSubnet, FinishSubnet, SubnetRaises, ToolFinds, ToolFindsFiltered,
                Delivered, hosts
<1>3. CASE FinishDiscovery
    BY <1>3 DEF FinishDiscovery, Delivered, hosts
<1>4. CASE FinishPipeline \/ Raise
    BY <1>4 DEF FinishPipeline, Raise, Delivered, hosts
<1> QED
    BY <1>1, <1>2, <1>3, <1>4, HostDelivered DEF Next

\* A result is handed over only for a host whose own pipeline ran to its end.
THEOREM ResultsOfWholePipelines == Spec => []ResultsAreComplete
<1>1. Delivered => ResultsAreComplete
    BY DEF Delivered, ResultsAreComplete
<1> QED
    BY <1>1, InitTyped, NextTyped, InitDelivered, NextDelivered, PTL DEF Spec

\* A step of discovery reports a batch, or is no callback at all.
LEMMA DiscoveryCallback ==
    ASSUME Typed, NEW n \in Subnet,
           \/ SubnetStep(n)
           \/ \E found \in SUBSET Host : ToolFinds(n, found)
           \/ \E h \in Host : ToolFindsFiltered(n, h)
    PROVE  [Feed!FeedNext]_Feed!feedVars
<1>1. stage = "discovering" /\ stage' = stage /\ targets' = targets /\ delivered' = delivered
    BY DEF SubnetStep, StartSubnet, FinishSubnet, SubnetRaises, ToolFinds, ToolFindsFiltered, hosts
<1>2. CASE FinishSubnet(n) /\ New(n) # {}
    <2>1. New(n) \in SUBSET Host /\ reported' = reported \cup New(n)
        BY <1>2 DEF FinishSubnet, New, Typed
    <2>2. Feed!Report(New(n))
        BY <1>1, <1>2, <2>1 DEF Feed!Report
    <2> QED
        BY <2>1, <2>2 DEF Feed!FeedNext
<1>3. CASE ~(FinishSubnet(n) /\ New(n) # {})
    <2>1. reported' = reported
        BY <1>3 DEF SubnetStep, StartSubnet, FinishSubnet, SubnetRaises, ToolFinds, ToolFindsFiltered
    <2> QED
        BY <1>1, <2>1 DEF Feed!feedVars
<1> QED
    BY <1>2, <1>3

\* A step of a host delivers its result, or is no callback at all.
LEMMA HostCallback ==
    ASSUME Typed, NEW h \in Host, HostStep(h)
    PROVE  [Feed!FeedNext]_Feed!feedVars
<1>1. stage = "scanning" /\ stage' = stage /\ targets' = targets /\ reported' = reported
    BY DEF HostStep, EnterPipeline, FindClosed, NextPhase, FinishHost, HostRaises, discovery
<1>2. CASE delivered' = delivered
    BY <1>1, <1>2 DEF Feed!feedVars
<1>3. CASE delivered' # delivered
    <2>1. h \in targets \ delivered /\ delivered' = delivered \cup {h}
        BY <1>3 DEF HostStep, EnterPipeline, FindClosed, NextPhase, FinishHost, HostRaises, Running
    <2>2. Feed!Deliver(h)
        BY <1>1, <2>1 DEF Feed!Deliver
    <2> QED
        BY <2>2 DEF Feed!FeedNext
<1> QED
    BY <1>2, <1>3

\* The end of discovery announces all that was reported.
LEMMA Announcement ==
    ASSUME Typed, Accounted, FinishDiscovery
    PROVE  [Feed!FeedNext]_Feed!feedVars
<1>1. /\ stage = "discovering" /\ stage' = "scanning"
      /\ reported' = reported /\ delivered' = delivered
    BY DEF FinishDiscovery, hosts
<1>2. PICK scanUnresponsive \in BOOLEAN : targets' = Effective(scanUnresponsive)
    BY DEF FinishDiscovery
<1>3. targets' \in SUBSET Host
    BY <1>2, EffectiveTyped
<1>4. reported \subseteq targets'
    BY <1>1, <1>2 DEF Effective, Accounted
<1>5. Feed!Announce(targets')
    BY <1>1, <1>4 DEF Feed!Announce
<1> QED
    BY <1>3, <1>5 DEF Feed!FeedNext

\* Every step of the pipeline is a step of its promise, or none of its caller's
\* business.
LEMMA CallbackStep == Typed /\ Accounted /\ [Next]_vars => [Feed!FeedNext]_Feed!feedVars
<1> SUFFICES ASSUME Typed, Accounted, [Next]_vars PROVE [Feed!FeedNext]_Feed!feedVars
    OBVIOUS
<1>1. CASE UNCHANGED vars
    BY <1>1 DEF vars, discovery, hosts, Feed!feedVars
<1>2. CASE FinishPipeline \/ Raise
    <2>1. /\ stage \in {"discovering", "scanning"} /\ stage' \in {"returned", "raised"}
          /\ UNCHANGED <<reported, targets, delivered>>
        BY <1>2 DEF FinishPipeline, Raise, discovery, hosts
    <2>2. Feed!End
        BY <2>1 DEF Feed!End
    <2> QED
        BY <2>2 DEF Feed!FeedNext
<1> QED
    BY <1>1, <1>2, DiscoveryCallback, HostCallback, Announcement DEF Next

\* The pipeline keeps its promise to the task that persists the results: batches
\* while discovery runs, then the targets, all reported hosts among them, then each
\* result at most once, then the end.
THEOREM KeepsCallbackOrder == Spec => CallbackOrder
<1>1. Init => Feed!FeedInit
    BY DEF Init, Feed!FeedInit
<1> QED
    BY <1>1, InitTyped, NextTyped, InitAccounted, NextAccounted, CallbackStep, PTL
       DEF Spec, CallbackOrder, Feed!FeedSpec

-----------------------------------------------------------------------------
(* The progress bar.                                                       *)

\* A target has finitely many addresses, and its parts are finitely many.
Finite == IsFiniteSet(Host) /\ IsFiniteSet(Subnet)

\* Division leaves a rest.
LEMMA Division ==
    ASSUME NEW a \in Nat, NEW n \in Nat, n > 0
    PROVE  \E q \in Int, r \in 0..(n - 1) : a = n * q + r /\ a \div n = q
BY SMT

\* Whole shares of a larger sum are not fewer.
LEMMA ShareGrows ==
    ASSUME NEW a \in Nat, NEW b \in Nat, a <= b, NEW n \in Nat, n > 0
    PROVE  a \div n \in Nat /\ b \div n \in Nat /\ a \div n <= b \div n
<1>1. PICK q \in Int, i \in 0..(n - 1) : a = n * q + i /\ a \div n = q
    BY Division
<1>2. PICK r \in Int, k \in 0..(n - 1) : b = n * r + k /\ b \div n = r
    BY Division
<1>3. i \in Int /\ k \in Int /\ i >= 0 /\ i < n /\ k >= 0 /\ k < n
    OBVIOUS
<1>4. q >= 0
    BY <1>1, <1>3, Z3
<1>5. r >= 0
    BY <1>2, <1>3, Z3
<1>6. q <= r
    <2> SUFFICES ASSUME q >= r + 1 PROVE FALSE
        OBVIOUS
    <2>1. n * q >= n * (r + 1)
        BY Z3
    <2>2. n * (r + 1) = n * r + n
        OBVIOUS
    <2> QED
        BY <1>1, <1>2, <1>3, <2>1, <2>2
<1> QED
    BY <1>1, <1>2, <1>4, <1>5, <1>6

\* A share of at least w for each of n is w at least.
LEMMA ShareAtLeast ==
    ASSUME NEW a \in Nat, NEW n \in Nat, n > 0, NEW w \in Nat
    PROVE  /\ a \div n \in Nat
           /\ a >= w * n => a \div n >= w
           /\ a <= w * n => a \div n <= w
<1>1. w * n \in Nat /\ (w * n) \div n = w
    BY Z3
<1> QED  BY <1>1, ShareGrows

\* The sum that Percentage divides.
Points(p, all) == SumOver([h \in all |-> Weight[p[h]]], all)

\* Percentage divides the sum of the weights of the hosts' phases.
LEMMA PercentageOfPoints ==
    ASSUME NEW all, NEW p
    PROVE  Percentage(p, all) = IF Points(p, all) \div Cardinality(all) < 99
                                THEN Points(p, all) \div Cardinality(all) ELSE 99
<1> DEFINE f == [h \in all |-> Weight[p[h]]]
<1>1. MapThenSumSet(LAMBDA h : Weight[p[h]], all) = SumOver(f, all)
    <2> DEFINE F(i) == [s \in SUBSET all |-> IF s = {} THEN 0 ELSE Weight[p[First(s)]] + i[s \ {First(s)}]]
               G(i) == [s \in SUBSET all |-> IF s = {} THEN 0 ELSE f[First(s)] + i[s \ {First(s)}]]
               A == CHOOSE i : i = F(i)
               B == CHOOSE i : i = G(i)
    <2>1. \A s \in SUBSET all : s # {} => First(s) \in all
        BY DEF First
    <2>2. \A i : F(i) = G(i)
        BY <2>1
    <2>3. A = B
        <3> HIDE DEF F, G
        <3> QED
            BY <2>2, Zenon
    <2>4. MapThenSumSet(LAMBDA h : Weight[p[h]], all) = A[all]
        BY DEF MapThenSumSet, MapThenFoldSet, First
    <2>5. SumOver(f, all) = B[all]
        BY DEF SumOver, MapThenSumSet, MapThenFoldSet, First
    <2> QED
        BY <2>3, <2>4, <2>5
<1> QED
    BY <1>1 DEF Percentage, Points

\* The weights are numbers, discovery's is the least, and the phases weigh more and more.
LEMMA Weights ==
    /\ \A phase \in Phase : Weight[phase] \in Nat /\ Weight[phase] >= 9
    /\ Weight["discovery"] = 9
    /\ Weight["discovery"] <= Weight["portscan"] /\ Weight["portscan"] <= Weight["enumeration"]
    /\ Weight["portscan"] <= Weight["webdetect"] /\ Weight["webdetect"] <= Weight["webcrawl"]
    /\ Weight["webcrawl"] <= Weight["vulnscan"] /\ Weight["vulnscan"] <= Weight["enumeration"]
BY DEF Weight, Phase

\* Each host brings discovery's weight at least.
LEMMA PointsType ==
    ASSUME Finite, NEW all \in SUBSET Host, all # {}, NEW p \in [Host -> Phase]
    PROVE  /\ IsFiniteSet(all) /\ Cardinality(all) \in Nat /\ Cardinality(all) > 0
           /\ [h \in all |-> Weight[p[h]]] \in [all -> Int]
           /\ Points(p, all) \in Nat /\ Points(p, all) >= 9 * Cardinality(all)
<1>1. IsFiniteSet(all)
    BY FS_Subset DEF Finite
<1>2. Cardinality(all) \in Nat /\ Cardinality(all) > 0
    BY <1>1, FS_CardinalityType, FS_EmptySet
<1> DEFINE f == [h \in all |-> Weight[p[h]]]
<1>3. \A h \in all : f[h] \in Nat /\ f[h] >= 9
    BY Weights
<1>4. f \in [all -> Int]
    BY <1>3
<1> HIDE DEF f
<1>5. SumOver(f, all) \in Int /\ SumOver(f, all) >= 9 * Cardinality(all)
    BY <1>1, <1>3, <1>4, SumType, SumAtLeast
<1> QED
    BY <1>1, <1>2, <1>4, <1>5 DEF Points, f

\* The hosts move the bar from discovery's share on, and never to its end.
LEMMA PercentageRange ==
    ASSUME Finite, NEW all \in SUBSET Host, all # {}, NEW p \in [Host -> Phase]
    PROVE  Percentage(p, all) \in 9..99
<1> DEFINE points == Points(p, all)
           n == Cardinality(all)
<1>1. points \in Nat /\ n \in Nat /\ n > 0 /\ points >= 9 * n
    BY PointsType
<1>2. Percentage(p, all) = IF points \div n < 99 THEN points \div n ELSE 99
    BY PercentageOfPoints
<1> HIDE DEF points, n
<1>3. points \div n \in Nat /\ points \div n >= 9
    BY <1>1, ShareAtLeast
<1> QED
    BY <1>2, <1>3

\* A host that enters a heavier phase does not move the bar back.
LEMMA PercentageGrows ==
    ASSUME Finite, NEW all \in SUBSET Host, NEW p \in [Host -> Phase],
           NEW h \in all, NEW phase \in Phase, Weight[p[h]] <= Weight[phase]
    PROVE  Percentage([p EXCEPT ![h] = phase], all) >= Percentage(p, all)
<1> DEFINE q == [p EXCEPT ![h] = phase]
           f == [g \in all |-> Weight[p[g]]]
           n == Cardinality(all)
<1>1. q \in [Host -> Phase]
    OBVIOUS
<1>2. [g \in all |-> Weight[q[g]]] = [f EXCEPT ![h] = Weight[phase]]
    OBVIOUS
<1>3. IsFiniteSet(all) /\ f \in [all -> Int] /\ Weight[phase] \in Int /\ f[h] = Weight[p[h]]
    BY PointsType, Weights
<1>4. Points(q, all) = SumOver(f, all) + Weight[phase] - f[h]
    <2>1. Points(q, all) = SumOver([f EXCEPT ![h] = Weight[phase]], all)
        BY <1>2 DEF Points
    <2> HIDE DEF f
    <2> QED
        BY <1>3, <2>1, SumUpdate
<1>5. Points(p, all) \in Nat /\ Points(q, all) \in Nat /\ n \in Nat /\ n > 0
    BY <1>1, PointsType
<1>6. Points(p, all) = SumOver(f, all)
    BY DEF Points
<1>7. /\ Percentage(p, all) = IF Points(p, all) \div n < 99 THEN Points(p, all) \div n ELSE 99
      /\ Percentage(q, all) = IF Points(q, all) \div n < 99 THEN Points(q, all) \div n ELSE 99
    BY PercentageOfPoints
<1>8. Weight[p[h]] \in Nat /\ Weight[phase] \in Nat
    BY Weights
<1> HIDE DEF f, q, n
<1>9. Points(p, all) <= Points(q, all)
    BY <1>3, <1>4, <1>5, <1>6, <1>8
<1>10. /\ Points(p, all) \div n \in Nat /\ Points(q, all) \div n \in Nat
       /\ Points(p, all) \div n <= Points(q, all) \div n
    BY <1>5, <1>9, ShareGrows
<1>11. Percentage(q, all) >= Percentage(p, all)
    BY <1>7, <1>10
<1> QED
    BY <1>11 DEF q

\* Where the bar stands: at the share of finished subnets while discovery runs, at
\* the share of the hosts' phases from then on.
BarStands ==
    /\ \A h \in Host : work[h] = "waiting" => at[h] = "discovery"
    /\ stage = "discovering" => /\ \A h \in Host : work[h] = "waiting"
                                /\ bar \in 0..9
                                /\ Subnet # {} => bar = (Cardinality(Done) * 9) \div Cardinality(Subnet)
    /\ stage = "scanning" /\ targets # {} => bar = Percentage(at, targets)
    /\ bar \in 0..99

\* At first it is at its beginning.
LEMMA InitBar == Finite /\ Init => BarStands
<1> SUFFICES ASSUME Finite, Init PROVE BarStands
    OBVIOUS
<1>1. Subnet # {} => 0 = (Cardinality(Done) * 9) \div Cardinality(Subnet)
    <2>1. Done = {}
        BY DEF Init, Done
    <2>2. Cardinality(Done) = 0
        BY <2>1, FS_EmptySet
    <2>3. Cardinality(Subnet) \in Nat /\ (Subnet # {} => Cardinality(Subnet) > 0)
        BY FS_CardinalityType, FS_EmptySet DEF Finite
    <2>4. \A n \in Nat : n > 0 => 0 \div n = 0
        BY ShareAtLeast
    <2>5. Cardinality(Done) * 9 = 0
        BY <2>2
    <2> QED
        BY <2>3, <2>4, <2>5
<1> QED
    BY <1>1 DEF Init, BarStands

\* A subnet that is done adds its share, and all of them make discovery's weight.
LEMMA FinishSubnetBar ==
    ASSUME Finite, Typed, BarStands, NEW n \in Subnet, FinishSubnet(n)
    PROVE  BarStands' /\ bar' >= bar
<1> DEFINE done == Cardinality(Done)
           all == Cardinality(Subnet)
<1>1. Done' = Done \cup {n} /\ n \notin Done /\ Done' \subseteq Subnet
    BY DEF FinishSubnet, Done, Scanning, Typed
<1>2. IsFiniteSet(Done) /\ IsFiniteSet(Subnet)
    BY FS_Subset DEF Finite, Done
<1>3. Cardinality(Done') = done + 1 /\ done \in Nat
    BY <1>1, <1>2, FS_AddElement, FS_CardinalityType
<1>4. all \in Nat /\ all > 0 /\ done + 1 <= all
    BY <1>1, <1>2, <1>3, FS_CardinalityType, FS_EmptySet, FS_Subset
<1>5. bar = (done * 9) \div all /\ bar' = ((done + 1) * 9) \div all
    BY Weights DEF FinishSubnet, BarStands
<1>6. /\ stage' = "discovering" /\ work' = work /\ at' = at
      /\ \A h \in Host : work[h] = "waiting" /\ at[h] = "discovery"
    BY DEF FinishSubnet, BarStands, hosts
<1>7. bar' = (Cardinality(Done') * 9) \div all
    BY <1>3, <1>5
<1> HIDE DEF done, all
<1>8. done * 9 \in Nat /\ (done + 1) * 9 \in Nat /\ done * 9 <= (done + 1) * 9 /\ (done + 1) * 9 <= 9 * all
    BY <1>3, <1>4
<1>9. bar \in Nat /\ bar' \in Nat /\ bar <= bar'
    BY <1>4, <1>5, <1>8, ShareGrows
<1>10. bar' <= 9
    BY <1>4, <1>5, <1>8, ShareAtLeast
<1>11. bar' \in 0..9 /\ bar' \in 0..99
    BY <1>9, <1>10
<1> QED
    BY <1>6, <1>7, <1>9, <1>11 DEF BarStands, all

\* The steps of one subnet scan move the bar forward, or leave it alone.
LEMMA DiscoveryBar ==
    ASSUME Finite, Typed, BarStands, NEW n \in Subnet,
           \/ SubnetStep(n)
           \/ \E found \in SUBSET Host : ToolFinds(n, found)
           \/ \E h \in Host : ToolFindsFiltered(n, h)
    PROVE  BarStands' /\ bar' >= bar
<1>1. CASE FinishSubnet(n)
    BY <1>1, FinishSubnetBar
<1>2. CASE ~FinishSubnet(n)
    <2>1. stage = "discovering" /\ UNCHANGED <<stage, work, at, bar>>
        BY <1>2 DEF SubnetStep, StartSubnet, SubnetRaises, ToolFinds, ToolFindsFiltered, hosts
    <2>2. Done' = Done
        BY <1>2 DEF SubnetStep, StartSubnet, SubnetRaises, ToolFinds, ToolFindsFiltered, Typed, Done, Scanning
    <2>3. bar \in 0..99
        BY DEF BarStands
    <2> QED
        BY <2>1, <2>2, <2>3 DEF BarStands
<1> QED
    BY <1>1, <1>2

\* A host that moves on moves the bar forward, whatever the others do.
LEMMA HostBar ==
    ASSUME Finite, Typed, BarStands, NEW h \in Host, HostStep(h)
    PROVE  BarStands' /\ bar' >= bar
<1>1. /\ stage = "scanning" /\ stage' = stage /\ targets' = targets /\ h \in targets
      /\ targets \in SUBSET Host /\ at \in [Host -> Phase]
    BY DEF HostStep, EnterPipeline, FindClosed, NextPhase, FinishHost, HostRaises, Running, discovery, Typed
<1>2. bar = Percentage(at, targets) /\ bar \in 0..99
    BY <1>1 DEF BarStands
<1>3. /\ work'[h] # "waiting"
      /\ \A g \in Host : g # h => work'[g] = work[g]
    BY DEF HostStep, EnterPipeline, FindClosed, NextPhase, FinishHost, HostRaises, Running, Typed
<1>4. CASE \E phase \in Phase : Weight[at[h]] <= Weight[phase] /\ Advance(h, phase)
    <2>1. PICK phase \in Phase : Weight[at[h]] <= Weight[phase] /\ Advance(h, phase)
        BY <1>4
    <2>2. at' = [at EXCEPT ![h] = phase] /\ bar' = Percentage(at', targets)
        BY <2>1 DEF Advance
    <2>3. bar' >= bar
        BY <1>1, <1>2, <2>1, <2>2, PercentageGrows
    <2>4. at' \in [Host -> Phase]
        BY <1>1, <2>2
    <2>5. bar' \in 0..99
        <3>1. Percentage(at', targets) \in 9..99
            BY <1>1, <2>4, PercentageRange
        <3> QED
            BY <2>2, <3>1
    <2>6. \A g \in Host : work'[g] = "waiting" => at'[g] = "discovery"
        BY <1>1, <1>3, <2>2 DEF BarStands
    <2> QED
        BY <1>1, <2>2, <2>3, <2>5, <2>6 DEF BarStands
<1>5. CASE at' = at /\ bar' = bar
    <2>1. \A g \in Host : work'[g] = "waiting" => at'[g] = "discovery"
        BY <1>3, <1>5 DEF BarStands
    <2> QED
        BY <1>1, <1>2, <1>5, <2>1 DEF BarStands
<1>6. CASE EnterPipeline(h)
    <2>1. at[h] = "discovery" /\ Advance(h, "portscan") /\ "portscan" \in Phase
        BY <1>6 DEF EnterPipeline, BarStands, Phase
    <2> QED
        BY <1>4, <2>1, Weights
<1>7. CASE FindClosed(h)
    <2>1. at[h] = "portscan" /\ Advance(h, "enumeration") /\ "enumeration" \in Phase
        BY <1>7 DEF FindClosed, Phase
    <2> QED
        BY <1>4, <2>1, Weights
<1>8. CASE NextPhase(h)
    <2>1. {"webdetect", "webcrawl", "vulnscan", "enumeration"} \subseteq Phase
        BY DEF Phase
    <2> QED
        BY <1>4, <1>8, <2>1, Weights DEF NextPhase
<1>9. CASE FinishHost(h) \/ HostRaises(h)
    BY <1>5, <1>9 DEF FinishHost, HostRaises
<1> QED
    BY <1>6, <1>7, <1>8, <1>9 DEF HostStep

\* With the end of discovery the hosts take over, where the subnets left the bar or
\* further on.
LEMMA FinishDiscoveryBar ==
    ASSUME Finite, Typed, BarStands, FinishDiscovery
    PROVE  BarStands' /\ bar' >= bar
<1>1. /\ stage = "discovering" /\ stage' = "scanning" /\ work' = work /\ at' = at
      /\ bar' = IF targets' = {} THEN bar ELSE Percentage(at, targets')
    BY DEF FinishDiscovery, hosts
<1>2. bar \in 0..9
    BY <1>1 DEF BarStands
<1>3. targets' \in SUBSET Host
    BY EffectiveTyped DEF FinishDiscovery
<1>4. at \in [Host -> Phase]
    BY DEF Typed
<1>5. targets' # {} => Percentage(at, targets') \in 9..99
    BY <1>3, <1>4, PercentageRange
<1>6. bar' \in 0..99 /\ bar' >= bar
    BY <1>1, <1>2, <1>5
<1> QED
    BY <1>1, <1>6 DEF BarStands

\* Every step keeps the bar where it should be, and but for the last one none moves it
\* back.
LEMMA NextBar ==
    ASSUME Finite, Typed, BarStands, [Next]_vars
    PROVE  BarStands' /\ (stage' # "returned" => bar' >= bar)
<1>1. bar \in 0..99
    BY DEF BarStands
<1>2. CASE UNCHANGED vars
    BY <1>1, <1>2 DEF vars, discovery, hosts, BarStands, Done
<1>3. CASE FinishPipeline
    <2>1. stage' = "returned" /\ work' = work /\ at' = at /\ bar' \in 0..99
        BY <1>1, <1>3 DEF FinishPipeline, hosts
    <2> QED
        BY <2>1 DEF BarStands
<1>4. CASE Raise
    BY <1>1, <1>4 DEF Raise, hosts, BarStands
<1> QED
    BY <1>2, <1>3, <1>4, DiscoveryBar, HostBar, FinishDiscoveryBar DEF Next

\* Every variable keeps its type: the bar stays between 0 and 99, whatever the number
\* of subnets and hosts.
THEOREM BarTyped == ASSUME Finite PROVE Spec => []TypeOK
<1>1. Typed /\ BarStands => TypeOK
    BY DEF Typed, BarStands, TypeOK
<1>2. Init => Typed /\ BarStands
    BY InitTyped, InitBar
<1>3. Typed /\ BarStands /\ [Next]_vars => Typed' /\ BarStands'
    BY NextTyped, NextBar
<1> QED
    BY <1>1, <1>2, <1>3, PTL DEF Spec

\* The bar moves forward only, until the pipeline returns.
THEOREM BarForward == ASSUME Finite PROVE Spec => BarMovesForward
<1>1. Init => Typed /\ BarStands
    BY InitTyped, InitBar
<1>2. Typed /\ BarStands /\ [Next]_vars => Typed' /\ BarStands'
    BY NextTyped, NextBar
<1>3. Typed /\ BarStands /\ [Next]_vars => [stage' # "returned" => bar' >= bar]_vars
    BY NextBar
<1> QED
    BY <1>1, <1>2, <1>3, PTL DEF Spec, BarMovesForward
=============================================================================
