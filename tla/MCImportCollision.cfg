\* An import that declares a name of the source takes over its steps.
SPECIFICATION Spec
CONSTANTS
    File <- MCFile
    FnName <- MCFnName
    Main = "main"
    Inputs <- MCInputs
INVARIANT
    LocalFunctionsKeepSource
