\* What the task's docstring promises of every phase but the first.
SPECIFICATION FairSpec
INVARIANT OnlyTheGateAborts
CHECK_DEADLOCK FALSE
