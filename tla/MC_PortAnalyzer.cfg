\* Consistency of the report and wire-chain resolution over MCDesigns (at
\* most one parent port and one assignment) and MCDesignsTwoAssigns (two
\* continuous assignments: two-hop chains and alias cycles): two partitions
\* with an input and an output port and one ordinary instance, three nets.
CONSTANTS
    a = a
    b = b
    c = c
    Parent = "top"
    Others = {"q"}
    CONSTEXPR = CONSTEXPR
    OTHEREXPR = OTHEREXPR
    SortedPartitions <- MCSortedPartitions
    Nets <- MCNets
    Designs <- MCSafetyDesigns
SPECIFICATION Spec
SYMMETRY MCSymmetry
INVARIANTS
    TypeOK
    ResolvedIsTerminal
    EndpointConservation
\* analyze() returns: its final state has no successor.
CHECK_DEADLOCK FALSE
