SPECIFICATION FairSpec
CONSTANTS
    Waiters = {w1,w2}
    WithPubSub = {w2}
    Bounded = {w2}
    MaxFaults = 5
CHECK_DEADLOCK FALSE
INVARIANT TypeOK
INVARIANT WaitersSeeOutcome
PROPERTY Reported
PROPERTY WaitersEnd
