\* The bodies of if statements.
SPECIFICATION PipelineSpec
CONSTANTS
    Sources <- MCSources
    Programs <- MCPrograms
    FnName <- MCFnName
    Mapping <- MCMapping
    Reg <- MCReg
    PrePopulated <- MCPrePopulated
    Half = 8
    Half64 = 8
    Size <- MCSize
INVARIANT
    IfBodiesSkipped
