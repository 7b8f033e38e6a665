\* The sync changes immutable bindings made in a loop.
SPECIFICATION Spec
CONSTANTS
    FnName <- MCFnName
    Name <- MCName
    Line <- MCLine
    Programs <- MCLoopPrograms
    MaxInt = 3
    Unknown = Unknown
    Main = "main"
INVARIANT
    ImmutableBindingsUnaffected
