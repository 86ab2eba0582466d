SPECIFICATION OnceSpec
CONSTANTS
    h1 = h1
    h2 = h2
    Host = {h1, h2}
    Ports <- OneEach
    Findings <- OneEach
    MaxRuns = 1
    MaxReports = 2
    MaxRequests = 1
INVARIANTS ResultsShown
PROPERTIES RunEnds
CHECK_DEADLOCK FALSE
