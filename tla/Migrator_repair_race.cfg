SPECIFICATION Spec
CONSTANTS
    n1 = n1
    n2 = n2
    n3 = n3
    Nodes = {n1, n2}
    Script <- BackfillScript
    Version <- PlainVersion
    Known <- PlainKnown
    Inherited <- SchemaOnly
    MaxFaults = 0
CHECK_DEADLOCK FALSE
INVARIANT AtMostOnce
