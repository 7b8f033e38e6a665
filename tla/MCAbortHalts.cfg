\* A finalize abort in an assignment or a return goes unnoticed.
SPECIFICATION Spec
CONSTANTS
    FnName <- MCFnName
    Name <- MCName
    Line <- MCLine
    Programs <- MCPrograms
    MaxInt = 3
    Unknown = Unknown
    Main = "main"
INVARIANT
    FinalizeAbortForcesUnknown
