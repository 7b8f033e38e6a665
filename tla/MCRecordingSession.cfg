\* A record command over small directories, with I/O failures at every step.
SPECIFICATION Spec
CONSTANTS
    File <- MCFile
    FnName <- MCFnName
    Main = "main"
    Inputs <- MCInputs
INVARIANTS
    TypeOK
    FailureLeavesErrorTrace
    CompleteBundlesReadable
    StepsKeepTheirFile
    EarlierFilesWin
PROPERTIES
    ImplementsOutcome
    Exits
