\* Two scans with or without a stop time, three requests, two tasks: is a
\* cancel confined to its own scan, and does a status tell the truth?
CONSTANTS
    Scan = {s1, s2}
    Request = {r1, r2, r3}
    Task = {t1, t2}
    NoRow = NoRow
    NoTask = NoTask
    ScanType = {"pipeline"}
    Launches = {"direct", "schedule", "run_now", "bot_now"}
    MaxAutoRetries = 0
SPECIFICATION Spec
SYMMETRY Symmetry
INVARIANTS TypeOK TaskIdOwned PendingHasDriver StuckRunningExplained OutcomeEarned
CHECK_DEADLOCK FALSE
