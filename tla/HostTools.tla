------------------------------ MODULE HostTools ------------------------------
(***************************************************************************)
(* _host_pipeline on one host, tool by tool: which tool runs on what, which *)
(* output each believes, and how the findings are put together.  A scan of *)
(* the same target writes into the directories of the scan before it, so a *)
(* tool that fails may leave an earlier scan's file where it is looked for. *)
(*                                                                         *)
(* What a tool says is a choice: the text it prints, and which of several  *)
(* severities and titles a parser makes of it, are left out.  A finding is *)
(* about a CVE, or about a title, of which deduplication sees 60 letters.  *)
(* A URL counts as the port it is on.                                      *)
(***************************************************************************)
EXTENDS Naturals, FiniteSets

CONSTANTS
    Ports,       \* the ports of the host that may be open
    ServiceNames, \* names of services, and the empty one of a port without a name
    WellKnown,   \* _WELL_KNOWN_PORTS
    Vulns,       \* what findings are about ...
    CVEs,        \* ... those among them that have a CVE number
    Images       \* which tools are installed and not switched off

ASSUME ServiceAssumption == "" \in ServiceNames /\ WellKnown \in [Ports -> ServiceNames]
ASSUME VulnAssumption == CVEs \subseteq Vulns

VARIABLES
    enabled,     \* one of Images
    skips,       \* _SCAN_TYPE_SKIP_PHASES of the scan type
    left,        \* tools whose output file an earlier scan has left
    step,        \* how far _host_pipeline is
    scanner,     \* which of _SCANNERS is next
    open,        \* host.open_ports
    named,       \* Port.service.name
    versions,    \* products with a version: on ports, and from web technologies
    endpoints,   \* host.web_endpoints
    shots,       \* host.screenshots
    running,     \* the tools awaited by the gather the host is at
    found,       \* the findings returned so far ...
    returned,    \* ... and with those a failing gather has thrown away (history)
    answered,    \* the CVEs NVD has answered with (history)
    result       \* what _host_pipeline returns

host == <<open, named, versions, endpoints, shots>>
vars == <<enabled, skips, left, step, scanner, host, running, found, returned, answered, result>>

NoPort == "none"
Snmp == "161"
Finding(v, p, t, o) == [vuln |-> v, port |-> p, by |-> t, old |-> o]
Version(p, o) == [port |-> p, old |-> o]

\* Port.service_name
Name(p) == IF named[p] # "" THEN named[p] ELSE WellKnown[p]
Called(names) == {p \in open : Name(p) \in names}
VersionPorts == {v.port : v \in versions}

-----------------------------------------------------------------------------
(* The tools: what the findings of each are about, and what it reads.      *)
(*   "answer"  what the process prints, or only that of an exit code 0     *)
(*   "file"    an output file, whatever the exit code                      *)
(*   "spool"   an output file that the tool appends to                     *)

Crawl == [about |-> IF endpoints = {} THEN {} ELSE {NoPort}, reads |-> "answer"]
Nuclei == [about |-> endpoints, reads |-> "file"]
NmapVuln == [about |-> open, reads |-> "file"]

\* The file is the port scan's.
Searchsploit == [about |-> open \cup VersionPorts, reads |-> "file"]
Getsploit == [about |-> VersionPorts, reads |-> "answer"]
Nikto == [about |-> endpoints, reads |-> "file"]
Msf == [about |-> Called(ServiceNames \ {""}), reads |-> "spool"]

\* wpscan, on the endpoints that look like WordPress.
Cms == [about |-> endpoints, reads |-> "file"]
ServiceEnum == [about |-> Called({"ssh", "smb", "ldap"}), reads |-> "answer"]
Enum4linux == [about |-> Called({"smb"}), reads |-> "answer"]
Netexec == [about |-> Called({"smb"}), reads |-> "answer"]
Sslscan == [about |-> Called({"https"}), reads |-> "file"]
SnmpWalk == [about |-> {Snmp}, reads |-> "answer"]
Showmount == [about |-> Called({"nfs"}), reads |-> "answer"]

\* Mutant: a file is parsed whatever the exit code, as the other tools do.
LdapAnyCode == [about |-> Called({"ldap"}), reads |-> "file"]

LdapSearch == [about |-> Called({"ldap"}), reads |-> "answer"]

Tool ==
    [crawl |-> Crawl,
     nuclei |-> Nuclei, nmap_vuln |-> NmapVuln, searchsploit |-> Searchsploit,
     getsploit |-> Getsploit, nikto |-> Nikto, msf |-> Msf,
     cms |-> Cms, service_enum |-> ServiceEnum, smb |-> Enum4linux, netexec |-> Netexec,
     tls |-> Sslscan, snmp |-> SnmpWalk, nfs |-> Showmount, ldap |-> LdapSearch]

\* The order in which the findings are put together; the gathers have these parts.
CrawlGroup == {"crawl", "screenshot"}
VulnGroup == {"nuclei", "nmap_vuln", "searchsploit", "getsploit", "nikto", "nvd", "msf"}
EnumGroup == {"cms", "service_enum", "smb", "netexec", "tls", "snmp", "nfs", "ldap"}
Rank == [crawl |-> 1, nuclei |-> 2, nmap_vuln |-> 3, searchsploit |-> 4, getsploit |-> 5,
         nikto |-> 6, nvd |-> 7, msf |-> 8, cms |-> 9, service_enum |-> 10, smb |-> 11,
         netexec |-> 12, tls |-> 13, snmp |-> 14, nfs |-> 15, ldap |-> 16]

\* Those whose files an earlier scan has left may be taken for this one's.
Leaving == {t \in DOMAIN Tool : Tool[t].reads # "answer"} \cup {"httpx", "screenshot"}

\* Those that return without running anything are not waited for.
Started(group) ==
    {t \in group \cap enabled : t \in DOMAIN Tool => Tool[t].about # {}}
        \cup (group \cap {"nvd"})

Fresh(t) == {{}} \cup {{Finding(v, p, t, FALSE)} : v \in Vulns, p \in Tool[t].about}
Earlier(t) == {{Finding(v, p, t, TRUE)} : v \in Vulns, p \in Ports}

\* What t may return.  A tool that fails may leave alone a file of an earlier scan, or
\* of several, one per port or batch, some.
Says(t) ==
    CASE t \in left /\ Tool[t].reads = "spool" -> {a \cup b : a \in Fresh(t), b \in Earlier(t)}
      [] t \in left /\ Tool[t].reads = "file" ->
           {a \cup b : a \in Fresh(t), b \in Earlier(t) \cup {{}}}
      [] OTHER -> Fresh(t)

\* The CVEs NVD knows for the versions; a query that fails has none.
Query == SUBSET CVEs

\* _search_version, for each version: a CVE is of the version that has it first.
Answers(asked) ==
    UNION {{{Finding(c, a[c].port, "nvd", a[c].old) : c \in S} : a \in [S -> asked]} : S \in Query}

-----------------------------------------------------------------------------
Init ==
    /\ enabled \in Images
    /\ skips \in {{}, {"enumeration"}, {"webdetect", "webcrawl", "vulnscan"},
                  {"webdetect", "webcrawl", "vulnscan", "enumeration"}}
    /\ step = "portscan" /\ scanner = 1
    /\ open = {} /\ named = [p \in Ports |-> ""] /\ versions = {}
    /\ endpoints = {} /\ shots = {}
    /\ running = {} /\ found = {} /\ returned = {} /\ answered = {} /\ result = {}
    /\ left \in SUBSET (enabled \cap Leaving)

Going(s) == step' = s /\ UNCHANGED <<enabled, skips, left>>
Quiet == UNCHANGED <<running, found, returned, answered, result>>

\* scan_host: nmap, naabu, masscan, each when the one before has found nothing.  All
\* read their file only with exit code 0.  nmap names ports by its own table.
PortScan(ports) ==
    /\ step = "portscan"
    /\ scanner' = scanner + 1
    /\ open' = ports
    /\ ports # {} => scanner = 1 \/ <<"nmap", "naabu", "masscan">>[scanner] \in enabled
    /\ named' = IF scanner = 1 THEN [p \in Ports |-> IF p \in ports THEN WellKnown[p] ELSE ""]
                ELSE named
    /\ Going(IF ports # {} THEN "analyze" ELSE IF scanner = 3 THEN "snmp" ELSE "portscan")
    /\ UNCHANGED <<versions, endpoints, shots>> /\ Quiet

\* nmap -sV on the open ports.  Where it fails or has no name all stays as it is.
AnalyzeServices(names, products) ==
    /\ step = "analyze"
    /\ DOMAIN names \subseteq open /\ products \subseteq DOMAIN names
    /\ named' = [p \in Ports |-> IF p \in DOMAIN names THEN names[p] ELSE named[p]]
    /\ versions' = {Version(p, FALSE) : p \in products}
    /\ Going("fingerprint")
    /\ UNCHANGED <<scanner, open, endpoints, shots>> /\ Quiet

\* fingerprintx names ports that nmap has no name for.
MergeFingerprints(names, products) ==
    /\ step = "fingerprint"
    /\ DOMAIN names \subseteq {p \in open : named[p] = ""} /\ products \subseteq DOMAIN names
    /\ DOMAIN names # {} => "fingerprintx" \in enabled
    /\ named' = [p \in Ports |-> IF p \in DOMAIN names THEN names[p] ELSE named[p]]
    /\ versions' = versions \cup {Version(p, FALSE) : p \in products}
    /\ Going("webdetect")
    /\ UNCHANGED <<scanner, open, endpoints, shots>> /\ Quiet

NonWeb == {"ssh", "smb", "ldap", "nfs"}

\* _should_probe: the name may be the well-known one of a port nobody could name.
Candidates == {p \in open : Name(p) \notin NonWeb}

Probe(answering) ==
    /\ step = "webdetect"
    /\ answering \subseteq IF step \in skips THEN {} ELSE Candidates
    /\ endpoints' = answering
    /\ Going("technologies")
    /\ UNCHANGED <<scanner, open, named, versions, shots>> /\ Quiet

\* httpx: its file is read whatever the exit code.
DetectTechnologies(ports, old) ==
    /\ step = "technologies"
    /\ ports # {} => endpoints # {} /\ "httpx" \in enabled
    /\ IF old THEN "httpx" \in left ELSE ports \subseteq endpoints
    /\ versions' = versions \cup {Version(p, old) : p \in ports}
    /\ running' = IF "webcrawl" \in skips \/ endpoints = {} THEN {} ELSE Started(CrawlGroup)
    /\ Going("webcrawl")
    /\ UNCHANGED <<scanner, open, named, endpoints, shots, found, returned, answered, result>>

-----------------------------------------------------------------------------
(* The gathers.                                                            *)

Returns(t, findings) ==
    /\ running' = running \ {t}
    /\ found' = found \cup findings
    /\ returned' = returned \cup findings
    /\ UNCHANGED <<enabled, skips, left, step, scanner, open, named, versions, endpoints, result>>

Finish(t) ==
    /\ t \in running \cap DOMAIN Tool
    /\ \E findings \in Says(t) : Returns(t, findings)
    /\ UNCHANGED <<shots, answered>>

\* gowitness: all pictures in its directory, one an earlier scan left included; a
\* name that fits no URL goes to the first.
Screenshot(taken) ==
    /\ "screenshot" \in running
    /\ taken \subseteq endpoints
    /\ shots' = taken \cup IF "screenshot" \in left THEN {CHOOSE p \in endpoints : TRUE} ELSE {}
    /\ Returns("screenshot", {})
    /\ UNCHANGED answered

\* scan_cve_search(host, [], config)
FirstPass(findings) ==
    /\ "nvd" \in running
    /\ findings \in Answers(versions)
    /\ answered' = answered \cup {f.vuln : f \in findings}
    /\ Returns("nvd", findings)
    /\ UNCHANGED shots

\* Mutant: gather without return_exceptions.
RaiseAndCancel(t) ==
    /\ t \in running
    /\ running' = {}
    /\ found' = {f \in found : f.by \notin IF t \in VulnGroup THEN VulnGroup ELSE EnumGroup}
    /\ UNCHANGED <<enabled, skips, left, step, scanner, host, returned, answered, result>>

\* gather with return_exceptions: the exception is logged, the others go on.
ToolRaises(t) ==
    /\ t \in running
    /\ running' = running \ {t}
    /\ UNCHANGED <<enabled, skips, left, step, scanner, host, found, returned, answered, result>>

StartVulns ==
    /\ step = "webcrawl" /\ running = {}
    /\ running' = IF "vulnscan" \in skips THEN {} ELSE Started(VulnGroup)
    /\ Going("vulnscan")
    /\ UNCHANGED <<scanner, host, found, returned, answered, result>>

StartEnumeration ==
    /\ step = "vulnscan" /\ running = {}
    /\ running' = IF "enumeration" \in skips THEN {} ELSE Started(EnumGroup)
    /\ Going("enumeration")
    /\ UNCHANGED <<scanner, host, found, returned, answered, result>>

\* A host without open ports: SNMP, and nothing of what follows.
Closed(findings) ==
    /\ step = "snmp"
    /\ findings \in IF "snmp" \in enabled THEN Fresh("snmp") ELSE {{}}
    /\ result' = findings
    /\ returned' = findings
    /\ Going("done")
    /\ UNCHANGED <<scanner, host, running, found, answered>>

SameKey(f, g) == f.vuln = g.vuln /\ f.port = g.port

Before(f, g) == Rank[f.by] < Rank[g.by] \/ (f.by = g.by /\ f.old /\ ~g.old)

\* _dedup_findings: the first of each key.
Dedup(findings) == {f \in findings : ~\E g \in findings : SameKey(f, g) /\ Before(g, f)}

\* The tools whose findings _extract_versions_from_findings reads.
Bannered == {"msf", "service_enum", "cms", "smb", "netexec", "snmp", "tls", "ldap"}

\* Mutant: an answer is dropped only when the same port has the CVE.
NewByKey(nvd, findings) == {f \in nvd : ~\E g \in findings : SameKey(f, g)}

\* existing_cves
New(nvd, findings) == {f \in nvd : f.vuln \notin {g.vuln : g \in findings}}

\* The findings with a version in their text, as far as the patterns know it.
Telling == SUBSET {f \in Dedup(found) : f.by \in Bannered}

\* collect_all_versions
Asked(said) == versions \cup {Version(f.port, f.old) : f \in said}

\* The second pass of NVD, which ends the pipeline.
SecondPass(said, nvd) ==
    /\ step = "enumeration" /\ running = {}
    /\ nvd \in Answers(Asked(said))
    /\ answered' = answered \cup {f.vuln : f \in nvd}
    /\ result' = Dedup(found) \cup New(nvd, Dedup(found))
    /\ Going("done")
    /\ UNCHANGED <<scanner, host, running, found, returned>>

\* An exception outside the gathers: run_pipeline logs it, the host has no result.
HostRaises ==
    /\ step \notin {"done", "raised"} /\ running = {}
    /\ Going("raised")
    /\ UNCHANGED <<scanner, host>> /\ Quiet

Naming == UNION {[S -> ServiceNames \ {""}] : S \in SUBSET open}

Next ==
    \/ \E ports \in SUBSET Ports : PortScan(ports) \/ Probe(ports) \/ Screenshot(ports)
    \/ \E names \in Naming, products \in SUBSET open :
         AnalyzeServices(names, products) \/ MergeFingerprints(names, products)
    \/ \E ports \in SUBSET Ports, old \in BOOLEAN : DetectTechnologies(ports, old)
    \/ \E t \in running : Finish(t) \/ ToolRaises(t)
    \/ \E findings \in Answers(versions) : FirstPass(findings)
    \/ StartVulns \/ StartEnumeration
    \/ \E findings \in Fresh("snmp") : Closed(findings)
    \/ \E said \in Telling : \E nvd \in Answers(Asked(said)) : SecondPass(said, nvd)
    \/ HostRaises

Spec == Init /\ [][Next]_vars

-----------------------------------------------------------------------------
(* Properties.                                                             *)

Findings == [vuln : Vulns, port : Ports \cup {NoPort, Snmp}, by : DOMAIN Rank, old : BOOLEAN]

TypeOK ==
    /\ enabled \in Images /\ left \subseteq enabled
    /\ step \in {"portscan", "analyze", "fingerprint", "webdetect", "technologies", "webcrawl",
                 "vulnscan", "enumeration", "snmp", "done", "raised"}
    /\ scanner \in 1 .. 4
    /\ open \subseteq Ports /\ named \in [Ports -> ServiceNames]
    /\ \A v \in versions : v.port \in open \/ v.old
    /\ endpoints \subseteq open /\ shots \subseteq endpoints
    /\ running \subseteq enabled \cup {"nvd"}
    /\ found \subseteq returned /\ returned \subseteq Findings /\ result \subseteq Findings
    /\ answered \subseteq CVEs

\* When a host's pipeline returns, what each tool that returned has found is in the
\* result under its key, whatever other tool raised, and so is each CVE that NVD has
\* answered with, in either pass; no key is there twice, and no CVE twice by NVD
\* (asyncio.gather in _host_pipeline and scan_host_vulns, _dedup_findings,
\* existing_cves).
FindingsMerged ==
    step = "done" =>
      /\ \A f \in returned : \E g \in result : SameKey(f, g)
      /\ \A c \in answered : \E g \in result : g.vuln = c
      /\ \A f, g \in result : SameKey(f, g) => f = g
      /\ \A f, g \in result : f.by = "nvd" /\ g.by = "nvd" /\ f.vuln = g.vuln => f = g

\* A finding of an earlier scan is in the result only by a tool that takes its file
\* whatever its exit code, and whose file the earlier scan has left; or by NVD, asked
\* about a version that came that way.
LeftoversExplained ==
    \A f \in result : f.old =>
      \/ f.by \in left \cap {"nuclei", "nmap_vuln", "searchsploit", "nikto", "msf", "cms", "tls"}
      \/ f.by = "nvd" /\ left \cap {"httpx", "msf", "cms", "tls"} # {}
=============================================================================
