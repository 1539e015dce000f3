\* A partition input driven by an input port of the parent.
CONSTANTS
    a = a
    b = b
    c = c
    Parent = "top"
    Others = {"q"}
    CONSTEXPR = CONSTEXPR
    OTHEREXPR = OTHEREXPR
    SortedPartitions <- MCSortedPartitions
    Nets <- MCNets
    Designs <- MCDesigns
SPECIFICATION Spec
SYMMETRY MCSymmetry
INVARIANT
    ParentInputDrives
\* analyze() returns: its final state has no successor.
CHECK_DEADLOCK FALSE
