\* Rewrite of the parent file over every arrangement and layout of
\* MCParentTexts.
CONSTANTS
    OrigName = "Mod"
    NL = "\n"
    Partitions <- MCPartitions
    PortRanks <- MCPortRanks
    ParentTexts <- MCParentTexts
SPECIFICATION Spec
INVARIANT
    RewriteComplete
\* generateAndModifyFiles returns once the parent is written or cannot be read.
CHECK_DEADLOCK FALSE
