------------------------------ MODULE Pipeline ------------------------------
(***************************************************************************)
(* run_pipeline: host discovery, subnet by subnet, and then one pipeline   *)
(* per host.  Everything runs on one asyncio loop: a coroutine gives way   *)
(* only where it awaits a tool, so what it does between two awaits is one  *)
(* action here, callbacks included.  Every tool call has a timeout.        *)
(*                                                                         *)
(* What a tool finds is a choice.  Findings, artifacts and the phase       *)
(* label of the progress bar are left out; the scan type decides only      *)
(* whether a phase calls its tools, never whether it is entered.           *)
(***************************************************************************)
EXTENDS Integers, FiniteSets, FiniteSetsExt

CONSTANTS
    Host,            \* addresses
    Subnet,          \* what _partition_target makes of the target
    AddressesOf,     \* the addresses of a subnet; subnets may overlap
    Permits,         \* discovery_parallelism, 256 or more
    Parallelism      \* config.parallelism: hosts in work at the same time

ASSUME AddressAssumption == AddressesOf \in [Subnet -> SUBSET Host]
ASSUME PermitAssumption == Permits \in Nat \ {0} /\ Parallelism \in Nat \ {0}

Phase == {"discovery", "portscan", "webdetect", "webcrawl", "vulnscan", "enumeration"}

\* _PHASE_WEIGHTS
Weight == [discovery |-> 9, portscan |-> 27, webdetect |-> 46,
           webcrawl |-> 58, vulnscan |-> 67, enumeration |-> 77]

VARIABLES
    stage,       \* "discovering", "scanning", "returned" or "raised"
    subnet,      \* where each subnet scan stands
    before,      \* before_ips of each subnet scan
    live,        \* live_ips, shared by the subnet scans
    unreachable, \* fping_unreachable, shared likewise
    reported,    \* hosts handed to on_subnet_complete
    targets,     \* the list discover_hosts returns
    delivered,   \* hosts handed to on_host_complete
    at,          \* _host_phases
    work,        \* where each host's coroutine stands
    closed,      \* hosts found to have no open port
    bar          \* the percentage last handed to on_progress

discovery == <<subnet, before, live, unreachable, reported>>
hosts == <<delivered, at, work, closed>>
vars == <<stage, discovery, targets, hosts, bar>>

-----------------------------------------------------------------------------
(* discover_hosts.                                                         *)

\* Once the pipeline has raised, asyncio.run cancels the coroutines.
Scanning == {n \in Subnet : subnet[n] = "scanning"}
Done == {n \in Subnet : subnet[n] = "done"}
Failed == {n \in Subnet : subnet[n] = "failed"}

\* Mutant: before_ips is one variable of all the subnet scans.
SharedSnapshot(n) ==
    /\ stage = "discovering"
    /\ subnet[n] = "waiting"
    /\ Cardinality(Scanning) < Permits
    /\ subnet' = [subnet EXCEPT ![n] = "scanning"]
    /\ before' = [m \in Subnet |-> live]
    /\ UNCHANGED <<stage, live, unreachable, reported, targets, hosts, bar>>

\* The coroutine gets a permit and remembers what is live already.
StartSubnet(n) ==
    /\ stage = "discovering"
    /\ subnet[n] = "waiting"
    /\ Cardinality(Scanning) < Permits
    /\ subnet' = [subnet EXCEPT ![n] = "scanning"]
    /\ before' = [before EXCEPT ![n] = live]
    /\ UNCHANGED <<stage, live, unreachable, reported, targets, hosts, bar>>

\* nmap, fping or an ARP tool answers; a tool that fails finds nothing.
ToolFinds(n, found) ==
    /\ stage = "discovering"
    /\ n \in Scanning
    /\ found \subseteq AddressesOf[n]
    /\ ~(found \subseteq live)
    /\ live' = live \cup found
    /\ UNCHANGED <<stage, subnet, before, unreachable, reported, targets, hosts, bar>>

\* fping: the gateway calls h unreachable, so h exists.
ToolFindsFiltered(n, h) ==
    /\ stage = "discovering"
    /\ n \in Scanning
    /\ h \in AddressesOf[n] \ unreachable
    /\ unreachable' = unreachable \cup {h}
    /\ UNCHANGED <<stage, subnet, before, live, reported, targets, hosts, bar>>

\* new_ips: what has become live since the scan of n began.
New(n) == live \ before[n]

\* Mutant: the share of finished subnets is not scaled to discovery's weight.
FinishSubnetUnscaled(n) ==
    /\ stage = "discovering"
    /\ n \in Scanning
    /\ subnet' = [subnet EXCEPT ![n] = "done"]
    /\ reported' = reported \cup New(n)
    /\ bar' = ((Cardinality(Done) + 1) * 100) \div Cardinality(Subnet)
    /\ UNCHANGED <<stage, before, live, unreachable, targets, hosts>>

\* All tools of n are through: the delta goes to on_subnet_complete unless it
\* is empty, the share of finished subnets to on_progress.
FinishSubnet(n) ==
    /\ stage = "discovering"
    /\ n \in Scanning
    /\ subnet' = [subnet EXCEPT ![n] = "done"]
    /\ reported' = reported \cup New(n)
    /\ bar' = ((Cardinality(Done) + 1) * Weight["discovery"]) \div Cardinality(Subnet)
    /\ UNCHANGED <<stage, before, live, unreachable, targets, hosts>>

\* An exception ends the scan of n (a soft time limit that strikes while its
\* coroutine runs); gather keeps it from the others, nothing is reported.
SubnetRaises(n) ==
    /\ stage = "discovering"
    /\ n \in Scanning
    /\ subnet' = [subnet EXCEPT ![n] = "failed"]
    /\ UNCHANGED <<stage, before, live, unreachable, reported, targets, hosts, bar>>

\* Mutant: live_ips is replaced by the unreachable addresses, not extended.
EffectiveReplaced(scanUnresponsive) ==
    (IF unreachable \ live # {} THEN unreachable \ live ELSE live)
        \cup (IF scanUnresponsive THEN UNION {AddressesOf[n] : n \in Subnet} \ live ELSE {})

\* What is scanned: the hosts that answered or are known to the gateway, and
\* with config.scan_unresponsive every other address of the target.
Effective(scanUnresponsive) ==
    live \cup unreachable
         \cup (IF scanUnresponsive THEN UNION {AddressesOf[n] : n \in Subnet} ELSE {})

-----------------------------------------------------------------------------
(* The per-host pipelines.                                                 *)

\* weighted_pct of _compute_progress when the hosts stand at phase p.
Percentage(p, all) ==
    LET sum == MapThenSumSet(LAMBDA h : Weight[p[h]], all)
    IN  IF sum \div Cardinality(all) < 99 THEN sum \div Cardinality(all) ELSE 99

\* Every subnet scan has ended: on_discovery_complete, and the pipelines start.
\* The local variables of discover_hosts are gone.
FinishDiscovery ==
    /\ stage = "discovering"
    /\ Done \cup Failed = Subnet
    /\ \E scanUnresponsive \in BOOLEAN : targets' = Effective(scanUnresponsive)
    /\ live' = {} /\ unreachable' = {}
    /\ subnet' = [n \in Subnet |-> "done"] /\ before' = [n \in Subnet |-> {}]
    /\ stage' = "scanning"
    /\ bar' = IF targets' = {} THEN bar ELSE Percentage(at, targets')
    /\ UNCHANGED <<reported, hosts>>

Running == {h \in targets : work[h] = "running"}

\* Mutant: a host that raised keeps its permit.
PermitKept == Cardinality({h \in targets : work[h] \in {"running", "raised"}}) < Parallelism

\* The semaphore has a permit left; leaving the pipeline gives it back.
PermitFree == Cardinality(Running) < Parallelism

\* Mutant: a host leaves _host_phases with its last phase and counts as new.
AdvanceFromStart(h, phase) ==
    /\ at' = [at EXCEPT ![h] = IF phase = "enumeration" THEN "discovery" ELSE phase]
    /\ bar' = Percentage(at', targets)

\* _advance_host_phase: never awaits anything while it holds its lock.
Advance(h, phase) ==
    /\ at' = [at EXCEPT ![h] = phase]
    /\ bar' = Percentage(at', targets)

\* The coroutine of h gets a permit and starts the port scan.
EnterPipeline(h) ==
    /\ stage = "scanning"
    /\ h \in targets
    /\ work[h] = "waiting"
    /\ PermitFree
    /\ work' = [work EXCEPT ![h] = "running"]
    /\ Advance(h, "portscan")
    /\ UNCHANGED <<stage, discovery, targets, delivered, closed>>

\* No open port: the phases are walked through in one go, and only the SNMP
\* probe remains.
FindClosed(h) ==
    /\ stage = "scanning"
    /\ h \in Running
    /\ at[h] = "portscan"
    /\ closed' = closed \cup {h}
    /\ Advance(h, "enumeration")
    /\ UNCHANGED <<stage, discovery, targets, delivered, work>>

\* The tools of a phase are through, and the host enters the next one.
NextPhase(h) ==
    /\ stage = "scanning"
    /\ h \in Running
    /\ \/ at[h] = "portscan" /\ Advance(h, "webdetect")
       \/ at[h] = "webdetect" /\ Advance(h, "webcrawl")
       \/ at[h] = "webcrawl" /\ Advance(h, "vulnscan")
       \/ at[h] = "vulnscan" /\ Advance(h, "enumeration")
    /\ UNCHANGED <<stage, discovery, targets, delivered, work, closed>>

\* Mutant: the result of a host is handed over before its last phase is.
FinishHostEarly(h) ==
    /\ stage = "scanning"
    /\ h \in Running
    /\ delivered' = delivered \cup {h}
    /\ work' = [work EXCEPT ![h] = IF at[h] = "enumeration" THEN "returned" ELSE @]
    /\ UNCHANGED <<stage, discovery, targets, at, closed, bar>>

\* The last phase is through.  on_host_complete is called for a host with open
\* ports; the early return for the others skips it.
FinishHost(h) ==
    /\ stage = "scanning"
    /\ h \in Running
    /\ at[h] = "enumeration"
    /\ work' = [work EXCEPT ![h] = "returned"]
    /\ delivered' = IF h \in closed THEN delivered ELSE delivered \cup {h}
    /\ UNCHANGED <<stage, discovery, targets, at, closed, bar>>

\* An exception ends the pipeline of h; gather keeps it from the others.
HostRaises(h) ==
    /\ stage = "scanning"
    /\ h \in Running
    /\ work' = [work EXCEPT ![h] = "raised"]
    /\ UNCHANGED <<stage, discovery, targets, delivered, at, closed, bar>>

\* gather is through: on_progress("reports", 0, 0), the report files, return.
\* With no target the pipeline returns an empty report at once.
FinishPipeline ==
    /\ stage = "scanning"
    /\ \A h \in targets : work[h] \in {"returned", "raised"}
    /\ stage' = "returned"
    /\ bar' = IF targets = {} THEN bar ELSE 0
    /\ UNCHANGED <<discovery, targets, hosts>>

\* A missing tool, a file that cannot be written, a soft time limit that
\* strikes the loop itself.
Raise ==
    /\ stage \in {"discovering", "scanning"}
    /\ stage' = "raised"
    /\ UNCHANGED <<discovery, targets, hosts, bar>>

-----------------------------------------------------------------------------
Init ==
    /\ stage = "discovering"
    /\ subnet = [n \in Subnet |-> "waiting"]
    /\ before = [n \in Subnet |-> {}]
    /\ live = {} /\ unreachable = {} /\ reported = {}
    /\ targets = {} /\ delivered = {}
    /\ at = [h \in Host |-> "discovery"]
    /\ work = [h \in Host |-> "waiting"]
    /\ closed = {}
    /\ bar = 0

SubnetStep(n) == StartSubnet(n) \/ FinishSubnet(n) \/ SubnetRaises(n)

HostStep(h) ==
    EnterPipeline(h) \/ FindClosed(h) \/ NextPhase(h) \/ FinishHost(h) \/ HostRaises(h)

Next ==
    \/ \E n \in Subnet :
         \/ SubnetStep(n)
         \/ \E found \in SUBSET Host : ToolFinds(n, found)
         \/ \E h \in Host : ToolFindsFiltered(n, h)
    \/ FinishDiscovery
    \/ \E h \in Host : HostStep(h)
    \/ FinishPipeline
    \/ Raise

\* Tools time out and coroutines that hold a permit run on.
Fairness ==
    /\ \A n \in Subnet : WF_vars(SubnetStep(n))
    /\ \A h \in Host : WF_vars(HostStep(h))
    /\ WF_vars(FinishDiscovery \/ FinishPipeline)

Spec == Init /\ [][Next]_vars
FairSpec == Spec /\ Fairness

-----------------------------------------------------------------------------
(* Properties.                                                             *)

\* Every variable keeps its type.
TypeOK ==
    /\ stage \in {"discovering", "scanning", "returned", "raised"}
    /\ subnet \in [Subnet -> {"waiting", "scanning", "done", "failed"}]
    /\ before \in [Subnet -> SUBSET Host]
    /\ live \subseteq Host /\ unreachable \subseteq Host /\ reported \subseteq Host
    /\ targets \subseteq Host /\ delivered \subseteq Host /\ closed \subseteq Host
    /\ at \in [Host -> Phase]
    /\ work \in [Host -> {"waiting", "running", "returned", "raised"}]
    /\ bar \in 0..99

\* No host that answers is missing from the incremental reports: although the
\* subnet scans add to one shared set, a live host has been reported or is in
\* the delta of a scan that is still to report, or that failed.
NoHostUnreported ==
    stage = "discovering" =>
        \A h \in live : h \in reported
                        \/ \E n \in Scanning \cup Failed : h \in New(n)

\* A result is handed over only for a host whose own pipeline ran to its end.
ResultsAreComplete ==
    \A h \in delivered : work[h] = "returned" /\ at[h] = "enumeration"

\* As long as hosts are in work the bar moves forward only, and hosts move it
\* whatever the others do.
BarMovesForward == [][stage' # "returned" => bar' >= bar]_vars

\* Whatever raises or finds nothing, the pipeline comes to its end.
PipelineEnds == <>(stage \in {"returned", "raised"})

\* The callbacks come as the task that persists the results expects them.
Feed == INSTANCE ResultFeed WITH
    feed <- CASE stage = "discovering" -> "discovering"
              [] stage = "scanning" -> "scanning"
              [] OTHER -> "ended"
CallbackOrder == Feed!FeedSpec
=============================================================================
