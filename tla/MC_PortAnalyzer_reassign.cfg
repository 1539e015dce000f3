\* Two procedural assignments, possibly to one net: the sources a partition
\* input reads through the parent's assignments.
CONSTANTS
    a = a
    b = b
    c = c
    Parent = "top"
    Others = {"q"}
    CONSTEXPR = CONSTEXPR
    OTHEREXPR = OTHEREXPR
    SortedPartitions <- MCSortedPartitions
    Nets <- MCNets
    Designs <- MCDesignsReassign
SPECIFICATION Spec
SYMMETRY MCSymmetry
INVARIANT
    InputSeesAllSources
\* analyze() returns: its final state has no successor.
CHECK_DEADLOCK FALSE
