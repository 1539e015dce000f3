\* The members of the generated message structs, over the two-port designs
\* and the fan-out designs whose partner names Phase 3 renames.
CONSTANTS
    a = a
    b = b
    c = c
    Parent = "top"
    Others = {"q"}
    CONSTEXPR = CONSTEXPR
    OTHEREXPR = OTHEREXPR
    SortedPartitions <- MCSortedPartitions
    Nets <- MCNets
    Designs <- MCPipelineDesignsAll
    Builds = {FALSE}
    Widths <- MCWidths
\* The generator as shipped: EXCLUDE_RANK_ZERO is commented out.
SPECIFICATION PipelineSpec
SYMMETRY MCSymmetry
INVARIANTS
    StructFieldsArePorts
\* The pass ends once metro_mpi.cpp is written.
CHECK_DEADLOCK FALSE
