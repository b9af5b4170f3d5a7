SPECIFICATION Spec
CONSTANTS
    Users = {u1, u2}
    Conns = {c1, c2}
    None = None
    MaxStmts = 2
    MaxFaults = 1
CHECK_DEADLOCK FALSE
INVARIANT TypeOK
INVARIANT AckedApplied
INVARIANT OwnStatements
PROPERTY AtomicSpec
