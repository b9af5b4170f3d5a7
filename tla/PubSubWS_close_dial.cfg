SPECIFICATION Spec
CONSTANTS
    c1 = c1
    c2 = c2
    a = a
    b = b
    Callers = {c1}
    Channels = {a}
    Consumers = {w1}
    Uses <- SharedChannels
    Nobody = Nobody
    Connector = Connector
    None = None
    Keep = Keep
    CapAttempt = 2
    MaxFaults = 1
    MaxCalls = 1
CHECK_DEADLOCK FALSE
INVARIANT ClosedIsDisconnected
