SPECIFICATION FairSpec
CONSTANTS
    c1 = c1
    c2 = c2
    a = a
    b = b
    Callers = {c1, c2}
    Channels = {a, b}
    Consumers = {w1, w2}
    Uses <- OwnChannels
    Nobody = Nobody
    Connector = Connector
    None = None
    Keep = Keep
    CapAttempt = 2
    MaxFaults = 2
    MaxCalls = 4
CHECK_DEADLOCK FALSE
INVARIANT TypeOK
INVARIANT SubscriptionsKept
INVARIANT SendsExclusive
INVARIANT ConnIsServed
INVARIANT OneLateDial
PROPERTY Reconnects
PROPERTY StopsAfterClose
