\* Partner rule for an inout partition port.
CONSTANTS
    a = a
    b = b
    c = c
    Parent = "top"
    Others = {"q"}
    CONSTEXPR = CONSTEXPR
    OTHEREXPR = OTHEREXPR
    SortedPartitions <- MCSortedPartitions
    Nets <- MCNets
    Designs <- MCDesignsInout
SPECIFICATION Spec
SYMMETRY MCSymmetry
INVARIANT
    InoutPortsTalk
\* analyze() returns: its final state has no successor.
CHECK_DEADLOCK FALSE
