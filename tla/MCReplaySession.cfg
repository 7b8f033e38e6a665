\* Replays of deployed programs, up to the exit status.
SPECIFICATION ReplaySpec
CONSTANTS
    Configs <- MCConfigs
    Programs <- MCPrograms
    FnName <- MCFnName
    Mapping <- MCMapping
    Reg <- MCReg
    PrePopulated <- MCPrePopulated
    Half = 4
INVARIANTS
    ReplayTypeOK
    TraceShowsTheExecution
    CompleteReplayReadable
    EarlyFailureLeavesNothing
    RegistersShownWhereSet
PROPERTIES
    ReplayImplementsOutcome
    ReplayExits
