SPECIFICATION MCSpec
CONSTANTS
    Parts = {"key", "files", "migrations", "shell", "lock", "group", "upstream"}
    Absent = Absent
    Partial = Partial
    app = app
    peer = peer
    core = core
    s1 = s1
    s2 = s2
    s3 = s3
    s4 = s4
    Procs = {app, peer, core}
    Secrets = {s1, s2, s3, s4}
    EnvKey <- MCEnvKey
    Checking = {peer}
    News = {i1, i2}
    Runs = {r1, r2}
    Foreign <- MCForeign
    MaxSecond = 2
    MaxLost = 1
    Pieces <- MCPieces
    MaxPieces = 2
    MaxStatements = 2
    MaxErrors = 1
    Clients = {c1, c2}
    NoOwner = NoOwner
    LockTTL = 4
    MaxDelay = 1
    MinLeft = 2
    Workers = {w1, w2}
    MaxSeq = 2
    MaxSize = 1
    ByAge = TRUE
    ReclaimAfter = 6
    WorkTime = 5
    MaxFaults = 2
    AttemptsAsked = {0, 1, 2, 4}
INVARIANTS
    Readable
    CheckedNeverMint
    VersionsDistinct
    RunCompletes
    SplitsBack
    ShellRuns
    LockExclusive
    OneAtATime
    GetEndsWell
PROPERTIES
    KeyKept
    LockFreed
    AllProcessed
CHECK_DEADLOCK FALSE
