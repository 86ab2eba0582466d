\* Discovery and one later phase, three requests and two tasks; two sprays of two
\* users with two passwords; a daily and a monthly schedule over two days and a half;
\* two notices on their way to a chat given by number or by name.
SPECIFICATION JobsSpec
CONSTANTS
    Phase = {1, 2}
    Discovery = 1
    NoPhase = 0
    Request = {r1, r2, r3}
    Task = {t1, t2}
    Users = {u1, u2}
    Passwords = {p1, p2}
    Sprays = {1, 2}
    Schedules = {"a", "b"}
    Daily = {"a"}
    Period <- DaysBetween
    Jobs = {1, 2}
    LastTick = 5
    Chat = {"team", "@team"}
    Named = {"@team"}
    NoChat = "none"
    Notices = 2
    Changes = 2
INVARIANTS JobsTypeOK RunningPhaseExplained OutcomeCounted SprayRowsExplained OnceEach
PROPERTIES RunningSettles
CHECK_DEADLOCK FALSE
