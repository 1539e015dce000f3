\* Agreement of the two ends of a partition-to-partition link.
CONSTANTS
    a = a
    b = b
    c = c
    Parent = "top"
    Others = {"q"}
    CONSTEXPR = CONSTEXPR
    OTHEREXPR = OTHEREXPR
    SortedPartitions <- MCSortedPartitions
    Nets <- MCNets
    Designs <- MCDesigns
SPECIFICATION Spec
SYMMETRY MCSymmetry
INVARIANT
    PartnerSymmetric
\* analyze() returns: its final state has no successor.
CHECK_DEADLOCK FALSE
