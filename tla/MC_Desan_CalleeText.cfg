CONSTANTS
    Params       <- MCParams
    Globals      <- MCGlobals
    SanGlobals   <- MCSanGlobals
    SanCallees   <- MCSanCallees
    PlainCallees <- MCDefinedCallees
    MaxInstrs    <- MCMaxInstrs
    Programs     <- MCCallingPrograms
SPECIFICATION Spec
INVARIANT ExtractionMatchesReference
