\* A task or a launcher overwrites a cancel.
CONSTANTS
    Scan = {s1}
    Request = {r1, r2}
    Task = {t1, t2}
    NoRow = NoRow
    NoTask = NoTask
    ScanType = {"pipeline"}
    Launches = {"direct"}
    MaxAutoRetries = 0
SPECIFICATION Spec
PROPERTY CancelSticks
CHECK_DEADLOCK FALSE
