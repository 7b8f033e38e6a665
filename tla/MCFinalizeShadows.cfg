\* A finalize block takes the place of the transition of its name.
SPECIFICATION Spec
CONSTANTS
    Programs <- MCDeployed
    FnName <- MCFnName
    Mapping <- MCMapping
    Reg <- MCReg
    PrePopulated <- MCPrePopulated
    Half = 4
INVARIANT
    ExecutesTheFunction
