\* Both kinds of sessions, the creation and four answers in any order.
SPECIFICATION FairSpec
CONSTANTS
    c = c
    r1 = r1
    r2 = r2
    r3 = r3
    r4 = r4
    Request = {c, r1, r2, r3, r4}
    Creation = c
    Kind = {"msf", "adcs"}
    StepsOf <- Lengths
INVARIANTS TypeOK StepsInOrder RunningExplained
PROPERTIES SessionSettles OneStepAtATime
CHECK_DEADLOCK FALSE
