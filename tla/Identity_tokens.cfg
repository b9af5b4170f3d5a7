SPECIFICATION MCSpec
CONSTANTS
    NoKey = NoKey
    k1 = k1
    k2 = k2
    api = api
    NoCaller = NoCaller
    Keys <- MCKeys
    Tokens <- MCTokens
    Routes <- MCRoutes
    Envs <- MCEnvs
    Cores <- MCCores
    Requests = {r1}
    Skew = 2
    RefreshBefore = 1
    FetchRetry = 1
    MaxNow = 4
    MaxFailures = 1
    MaxChanges = 2
    Callers = {g1, g2}
    Life = 3
    MaxExpiry = 8
    MaxDelay = 1
    Drift = 2
    MaxClock = 9
INVARIANTS SentInTime
PROPERTIES
    OnlyVouched
    NotRefused
    PolicyHolds
    KeyArrives
    NeverOlder
