\* One host in two executions of run_scan, and in two of run_discovery_scan with two
\* subnets; two jobs of two scans of one target; all inputs of the matching.
SPECIFICATION ResultsSpec
CONSTANTS
    Host = {h1}
    Ports <- OneEach
    Findings <- OneEach
    MaxRuns = 2
    MaxReports = 0
    MaxRequests = 2
    Executions = 2
    MaxRetries = 1
    MaxSubnets = 2
    Scan = {s1, s2}
    Asset = {a1}
    Format = {"html"}
    Jobs = 2
    NoScan = NoScan
    Target <- OneTarget
    Catalogue <- ThreeModules
    CveFindings <- ThreeFindings
    PortRows <- FourPorts
    LowServices = {"dns", "ssh"}
INVARIANTS ResultsTypeOK CountersExplained OutputsExplained
PROPERTIES CompletedIsFinal
CHECK_DEADLOCK FALSE
