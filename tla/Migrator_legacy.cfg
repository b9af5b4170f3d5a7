SPECIFICATION FairSpec
CONSTANTS
    n1 = n1
    n2 = n2
    n3 = n3
    Nodes = {n1, n2, n3}
    Script <- MixedScript
    Version <- MixedVersion
    Known <- MixedKnown
    Inherited <- UpToThree
    MaxFaults = 2
CHECK_DEADLOCK FALSE
INVARIANT TypeOK
INVARIANT RecordedInPlace
INVARIANT DoneMeansApplied
PROPERTY HealthyNodesFinish
