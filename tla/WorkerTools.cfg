\* Seven worker images with two or three optional tools each, two ports, one CVE and
\* one other title; both scopes of a session with all that may raise or die; all techniques.
SPECIFICATION ToolsSpec
CONSTANTS
    Ports = {"443", "445"}
    ServiceNames = {"", "https", "smb", "ldap"}
    Vulns = {c1, t1}
    CVEs = {c1}
    Images = {{"nuclei", "ldap"}, {"nikto", "httpx", "netexec"}, {"msf", "tls"},
              {"searchsploit", "cms", "naabu"}, {"nmap_vuln", "snmp", "fingerprintx"},
              {"crawl", "screenshot", "service_enum", "masscan"}, {"getsploit", "smb"}}
    WellKnown <- UsualName
INVARIANTS ToolsTypeOK FindingsMerged LeftoversExplained OutcomeExplained
PROPERTIES SessionSettles
CHECK_DEADLOCK FALSE
