SPECIFICATION FairSpec
CONSTANTS
    h1 = h1
    h2 = h2
    h3 = h3
    s1 = s1
    s2 = s2
    Host = {h1, h2, h3}
    Subnet = {s1, s2}
    AddressesOf <- Addresses
    Permits = 2
    Parallelism = 2
CHECK_DEADLOCK FALSE
INVARIANTS TypeOK NoHostUnreported ResultsAreComplete
PROPERTIES BarMovesForward CallbackOrder PipelineEnds
