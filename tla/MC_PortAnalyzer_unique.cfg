\* Phase 3 name uniqueness, with up to two continuous assignments.
CONSTANTS
    a = a
    b = b
    c = c
    Parent = "top"
    Others = {"q"}
    CONSTEXPR = CONSTEXPR
    OTHEREXPR = OTHEREXPR
    SortedPartitions <- MCSortedPartitions
    Nets <- MCNets
    Designs <- MCDesignsTwoAssigns
SPECIFICATION Spec
SYMMETRY MCSymmetry
INVARIANT
    UniqueRemoteNames
\* analyze() returns: its final state has no successor.
CHECK_DEADLOCK FALSE
