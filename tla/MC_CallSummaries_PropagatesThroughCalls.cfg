CONSTANTS
    Programs <- MCPrograms
    Externals <- MCExternals
    AliasOf <- MCAliasOf
    Params <- MCParams
    Globals <- MCGlobals
SPECIFICATION Spec
INVARIANT PropagatesThroughCalls
