\* One scan with or without a stop time, two requests, two tasks, under the
\* fairness of the worker, the request handlers and beat.
CONSTANTS
    Scan = {s1}
    Request = {r1, r2}
    Task = {t1, t2}
    NoRow = NoRow
    NoTask = NoTask
    ScanType = {"discovery"}
    Launches = {"schedule", "bot_now"}
    MaxAutoRetries = 1
SPECIFICATION FairSpec
PROPERTIES EveryTaskEnds OverdueScanStops
CHECK_DEADLOCK FALSE
