\* Source-level recording: every program of the menu, safety and liveness.
SPECIFICATION Spec
CONSTANTS
    FnName <- MCFnName
    Name <- MCName
    Line <- MCLine
    Programs <- MCPrograms
    MaxInt = 3
    Unknown = Unknown
    Main = "main"
INVARIANTS
    TypeOK
    SubCallsPlaced
    NoSubCallLeftBehind
    EmissionFollowsExecution
    BindingsCarryFinalValue
    EventsExactlyOnce
    AbortHaltsCall
    EntryPointsRecorded
PROPERTIES
    ImplementsStream
    Terminates
