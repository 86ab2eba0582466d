----------------------------- MODULE MCResults -----------------------------
(***************************************************************************)
(* How what a scan has found gets into tables and files: the results of    *)
(* run_scan, those of run_discovery_scan, what both leave in tables and    *)
(* directories that scans share, and the exploits matched with them.  The  *)
(* four are checked side by side: a behaviour belongs to one, "part".      *)
(***************************************************************************)
EXTENDS ResultQueue

CONSTANTS
    Executions, MaxRetries, MaxSubnets,             \* discovery
    Target, Scan, Asset, Format, Jobs, NoScan,      \* outputs
    Catalogue, CveFindings, PortRows, LowServices   \* matching

\* Hosts with one open port and one finding.
OneEach == [h \in Host |-> 1]

\* All scans are of one target, and share its directory.
OneTarget == [s \in Scan |-> "target"]

\* A module for a CVE, one for that and for a product, a service and another port, and
\* one without a CVE; the CVE found on a port, without one, and on a host that may have
\* no row; and two ports that share a number.
ThreeModules == {
    [id |-> "by_cve", type |-> "auxiliary", cves |-> {"cve"}, tokens |-> {}, rport |-> 53,
     autofilter |-> {}, services |-> {}],
    [id |-> "by_name", type |-> "exploit", cves |-> {"cve"}, tokens |-> {"bind"}, rport |-> 53,
     autofilter |-> {22}, services |-> {"ssh", "dns", "http"}],
    [id |-> "scanner", type |-> "auxiliary", cves |-> {}, tokens |-> {"bind"}, rport |-> 53,
     autofilter |-> {}, services |-> {"dns"}]}
ThreeFindings == {[cves |-> {"cve"}, host |-> "a", port |-> p] : p \in {0, 53}}
                 \cup {[cves |-> {"cve"}, host |-> "b", port |-> 22]}
FourPorts == {
    [host |-> "a", number |-> 53, protocol |-> "tcp", tokens |-> {"bind"}, service |-> "http"],
    [host |-> "a", number |-> 53, protocol |-> "udp", tokens |-> {}, service |-> "dns"],
    [host |-> "b", number |-> 22, protocol |-> "tcp", tokens |-> {"bind"}, service |-> "ssh"],
    [host |-> "b", number |-> 53, protocol |-> "tcp", tokens |-> {"bind"}, service |-> "dns"]}

VARIABLES
    part,
    status, count, rows, exec, thread, user, listed, again, mixed, lost,
    outcome, depth, asset, file, reportRows, job, crossed, known, clashed, broken,
    findings, ports, hosts, at, results, stored

discovering == <<status, count, rows, exec, thread, user, listed, again, mixed, lost>>
leaving == <<outcome, depth, asset, file, reportRows, job, crossed, known, clashed, broken>>
matching == <<findings, ports, hosts, at, results, stored>>

Disc == INSTANCE DiscoveryScan
Out == INSTANCE ScanOutputs WITH status <- outcome, row <- reportRows
Msf == INSTANCE ExploitMatching WITH Findings <- CveFindings

\* Where a part may start in several ways, the others see one of them.
ResultsInit ==
    /\ part \in {"results", "discovery", "outputs", "matching"}
    /\ Init /\ Disc!Init /\ Out!Init /\ Msf!Init
    /\ part # "outputs" => reportRows = {}
    /\ part # "matching" => findings = {} /\ ports = <<>> /\ hosts = {}

\* A statement that hangs (WriterHangs) is one that takes as long as it takes: the
\* thread stays at it.  ResultQueueDrains has such statements for good.
QueueNext ==
    \/ FeedStep \/ MainStep \/ Kill \/ PortalStep
    \/ \E r \in Run : Turn(r) \/ WriterStep(r) \/ WriteFails(r)

ResultsNext ==
    \/ part = "results" /\ QueueNext /\ UNCHANGED <<part, discovering, leaving, matching>>
    \/ part = "discovery" /\ Disc!Next /\ UNCHANGED <<part, vars, leaving, matching>>
    \/ part = "outputs" /\ Out!Next /\ UNCHANGED <<part, vars, discovering, matching>>
    \/ part = "matching" /\ Msf!Next /\ UNCHANGED <<part, vars, discovering, leaving>>

ResultsSpec ==
    ResultsInit /\ [][ResultsNext]_<<part, vars, discovering, leaving, matching>>

-----------------------------------------------------------------------------
\* Every variable of the four keeps its type.
ResultsTypeOK == TypeOK /\ Disc!TypeOK /\ Out!TypeOK /\ Msf!TypeOK

\* The counters of a scan that has ended agree with its rows, or one of the causes
\* named there is on record, and findings are never over-counted (run_scan,
\* run_discovery_scan, and the writer thread of either).
CountersExplained == CountsExplained /\ FindingsNeverOvercounted /\ Disc!HostsExplained

\* Assets, report rows and exploit matches are those of the execution they name,
\* and complete (_sync_assets, generate_report, match_exploits).
OutputsExplained == Out!AssetsExplained /\ Out!ReportsExplained /\ Msf!MatchesExplained
=============================================================================
