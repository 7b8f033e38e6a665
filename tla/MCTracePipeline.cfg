\* The pipeline from a source to its emission.
SPECIFICATION PipelineSpec
CONSTANTS
    Sources <- MCSources
    Programs <- MCPrograms
    FnName <- MCFnName
    Mapping <- MCMapping
    Reg <- MCReg
    PrePopulated <- MCPrePopulated
    Half = 8
    Half64 = 8
    Size <- MCSize
INVARIANTS
    PipelineTypeOK
    ParsersFindTheFunctions
    StatementsWhereWritten
    RecordParsersAgree
    FallbackAgreesWithSource
    SourceMapExact
    UnreportedValuesExact
    LegacyWalkNests
    DialectSelfConsistent
PROPERTY
    Finishes
