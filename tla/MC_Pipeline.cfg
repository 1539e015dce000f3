\* The analyzer's report fed to the MPI code generator, built as shipped
\* (EXCLUDE_RANK_ZERO undefined) and with the flag, over every design of
\* MCPipelineDesigns and of the fan-out designs MCPipelineDesignsFanout.
CONSTANTS
    a = a
    b = b
    c = c
    Parent = "top"
    Others = {"q"}
    CONSTEXPR = CONSTEXPR
    OTHEREXPR = OTHEREXPR
    SortedPartitions <- MCSortedPartitions
    Nets <- MCNets
    Designs <- MCPipelineDesignsAll
    Builds = {FALSE, TRUE}
    Widths <- MCWidths
SPECIFICATION PipelineSpec
SYMMETRY MCSymmetry
INVARIANTS
    WiresLinkedOnce
    LinksFlowOutToIn
    MessageLayoutMatches
\* The pass ends once metro_mpi.cpp is written.
CHECK_DEADLOCK FALSE
