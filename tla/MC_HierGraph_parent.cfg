\* findAndPrintPartitionPorts stops when the chosen group sits directly
\* under the top module.
CONSTANTS
    Libs <- MCLibs
    Digest <- MCDigest
SPECIFICATION Spec
INVARIANT
    AnalyzerRunsWhenFound
\* findAndPrintPartitionPorts returns: its final state has no successor.
CHECK_DEADLOCK FALSE
