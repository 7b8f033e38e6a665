\* A division that overflows panics instead of failing.
SPECIFICATION Spec
CONSTANTS
    Programs <- MCPrograms
    FnName <- MCFnName
    Mapping <- MCMapping
    Reg <- MCReg
    PrePopulated <- MCPrePopulated
    Half = 4
INVARIANT
    FailuresAreErrors
