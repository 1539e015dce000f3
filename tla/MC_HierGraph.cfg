\* The finder over every design of MCLibs: weights, the partition's source
\* files, and the refinement of the selection contract (HierSelect),
\* termination included.
CONSTANTS
    Libs <- MCLibs
    Digest <- MCDigest
SPECIFICATION Spec
INVARIANTS
    TypeOK
    WeightIsLeafCount
    PartitionFilesComplete
PROPERTY
    RefinesHierSelect
\* findAndPrintPartitionPorts returns: its final state has no successor.
CHECK_DEADLOCK FALSE
