\* The interpreter in its three uses: results, mappings and finalize events.
SPECIFICATION Spec
CONSTANTS
    Programs <- MCPrograms
    FnName <- MCFnName
    Mapping <- MCMapping
    Reg <- MCReg
    PrePopulated <- MCPrePopulated
    Half = 4
INVARIANTS
    TypeOK
    ReadsSeeLastWrite
    ResultsAreLastReturns
    FinalizeEventsNest
    FinalizeListsRegisters
PROPERTIES
    Terminates
