\* The Makefile written for every file list and argString of the model.
CONSTANTS
    SP <- MCSP
    TAB <- MCTAB
    BS <- MCBS
    NL <- MCNL
    FileLists <- MCFileLists
    ArgStrings <- MCArgStrings
    CFlags <- MCCFlags
    LdLibs <- MCLdLibs
SPECIFICATION Spec
INVARIANT
    MakefileVariablesHoldInputs
\* emit returns once the rules are written.
CHECK_DEADLOCK FALSE
