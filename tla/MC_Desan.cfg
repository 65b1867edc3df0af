CONSTANTS
    Params       <- MCParams
    Globals      <- MCGlobals
    SanGlobals   <- MCSanGlobals
    SanCallees   <- MCSanCallees
    PlainCallees <- MCPlainCallees
    MaxInstrs    <- MCMaxInstrs
    Programs     <- MCPrograms
SPECIFICATION Spec
INVARIANT TypeOK
INVARIANT AnalysisMatchesReference
INVARIANT RewriteKeepsRetained
