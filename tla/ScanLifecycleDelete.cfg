\* A task still at work writes a deleted scan back.
CONSTANTS
    Scan = {s1}
    Request = {r1, r2}
    Task = {t1, t2}
    NoRow = NoRow
    NoTask = NoTask
    ScanType = {"pipeline"}
    Launches = {"direct"}
    MaxAutoRetries = 0
SPECIFICATION Spec
PROPERTY DeletedStaysDeleted
CHECK_DEADLOCK FALSE
