--------------------------- MODULE ExploitMatching ---------------------------
(***************************************************************************)
(* match_exploits (msf_matcher.py) and the rows run_scan makes of what it  *)
(* returns: which Metasploit modules fit the findings and the ports of a   *)
(* scan, with which confidence.  What has been added first stays, so the   *)
(* order of the passes is what decides on the confidence.                  *)
(*                                                                         *)
(* Texts that are looked for in other texts are sets of tokens here.  The  *)
(* rows of earlier executions of the scan stay; these here are the new.    *)
(***************************************************************************)
EXTENDS Naturals, Sequences

CONSTANTS
    Catalogue,    \* modules: [id, type, cves, tokens, rport, autofilter, services]
    Findings,     \* findings a scan may have: [cves, host, port], port 0 for none
    PortRows,     \* ports it may have: [host, number, protocol, tokens, service]
    LowServices   \* LOW_MATCH_SERVICES

VARIABLES
    findings,  \* the scan's findings
    ports,     \* its ports, in the order of the query
    hosts,     \* its hosts
    at,        \* "findings", the index of a port, or "stored"
    results,   \* what _add has added
    stored     \* the new ExploitMatch rows

vars == <<findings, ports, hosts, at, results, stored>>

\* _build_indexes: exploits, and auxiliary modules that name a CVE.
Indexed ==
    {m \in Catalogue : m.type = "exploit" \/ (m.type = "auxiliary" /\ m.cves # {})}

Key(m, host, port) == [module |-> m.id, host |-> host, port |-> port]

-----------------------------------------------------------------------------
(* The three passes: which keys each adds.                                 *)

High(f) == {Key(m, f.host, f.port) : m \in {x \in Indexed : x.cves \cap f.cves # {}}}

\* A token of the product is one of the module, and the port its default port.
Medium(p) ==
    {Key(m, p.host, p.number) :
       m \in {x \in Indexed : x.tokens \cap p.tokens # {} /\ x.rport = p.number}}

\* The port is one the module is known for, and the service in its full name.
Low(p) ==
    {Key(m, p.host, p.number) :
       m \in {x \in Indexed : /\ p.service \in LowServices \cap x.services
                                /\ p.number \in {x.rport} \cup x.autofilter}}

\* Mutant: what is there already is replaced.
AddLast(rs, keys, confidence) ==
    {r \in rs : r.key \notin keys} \cup {[key |-> k, confidence |-> confidence] : k \in keys}

\* _add: a key that has been seen is left as it is.
Add(rs, keys, confidence) ==
    rs \cup {[key |-> k, confidence |-> confidence] : k \in keys \ {r.key : r \in rs}}

MatchFindings ==
    /\ at = 0
    /\ results' = Add({}, UNION {High(f) : f \in findings}, "high")
    /\ at' = 1
    /\ UNCHANGED <<findings, ports, hosts, stored>>

MatchPort ==
    /\ at \in DOMAIN ports
    /\ results' = Add(Add(results, Medium(ports[at]), "medium"), Low(ports[at]), "low")
    /\ at' = at + 1
    /\ UNCHANGED <<findings, ports, hosts, stored>>

-----------------------------------------------------------------------------
\* ip_to_ports: of two ports with one number the later one, whatever its protocol.
PortId(host, number) ==
    LET same == {i \in DOMAIN ports : ports[i].host = host /\ ports[i].number = number} IN
    IF same = {} THEN 0 ELSE CHOOSE i \in same : \A j \in same : j <= i

\* bulk_create; a match on a host the scan has no row for is left out.
Store ==
    /\ at = Len(ports) + 1
    /\ stored' = {[key |-> r.key, confidence |-> r.confidence,
                   port |-> PortId(r.key.host, r.key.port)] :
                     r \in {x \in results : x.key.host \in hosts}}
    /\ at' = at + 1
    /\ UNCHANGED <<findings, ports, hosts, results>>

Init ==
    /\ findings \in SUBSET Findings
    /\ ports \in {<<>>} \cup {<<p>> : p \in PortRows}
                 \cup {<<p, q>> : p \in PortRows, q \in PortRows}
    /\ Len(ports) = 2 => ports[1] # ports[2]
    /\ hosts \in SUBSET {f.host : f \in Findings}
    /\ \A i \in DOMAIN ports : ports[i].host \in hosts
    /\ at = 0 /\ results = {} /\ stored = {}

Next == MatchFindings \/ MatchPort \/ Store

Spec == Init /\ [][Next]_vars

-----------------------------------------------------------------------------
(* Properties.                                                             *)

\* How sure of a key the findings and the ports can make one.
Reasons(k) ==
    {c \in {"high", "medium", "low"} :
       \/ c = "high" /\ \E f \in findings : k \in High(f)
       \/ c = "medium" /\ \E i \in DOMAIN ports : k \in Medium(ports[i])
       \/ c = "low" /\ \E i \in DOMAIN ports : k \in Low(ports[i])}
Best(cs) == IF "high" \in cs THEN "high" ELSE IF "medium" \in cs THEN "medium" ELSE "low"

TypeOK ==
    /\ at \in 0 .. Len(ports) + 2
    /\ \A r \in results : r.confidence \in {"high", "medium", "low"}
    /\ \A r \in stored : r.key \in {x.key : x \in results} /\ r.port \in 0 .. Len(ports)

\* Each module that fits is stored once, with the best reason there is for it, and
\* with a port there is a reason on; but a key knows no protocol, and where two
\* ports share a number either may be lost in the other.
MatchesExplained ==
    at = Len(ports) + 2 =>
      LET shared(k) == \E i, j \in DOMAIN ports : i # j /\ ports[i].number = ports[j].number
                                               /\ ports[i].host = ports[j].host
                                               /\ k.port = ports[i].number
          keys == UNION ({High(f) : f \in findings} \cup
                         {Medium(ports[i]) \cup Low(ports[i]) : i \in DOMAIN ports})
      IN \A k \in {x \in keys : x.host \in hosts} :
           \E r \in stored :
             /\ r.key = k /\ \A x \in stored : x.key = k => x = r
             /\ r.confidence = Best(Reasons(k)) \/ shared(k)
             /\ r.confidence # "high" /\ ~shared(k) =>
                  k \in Medium(ports[r.port]) \cup Low(ports[r.port])
=============================================================================
