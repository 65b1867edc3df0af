CONSTANTS
    Inputs <- MCInputs
    MaxCalls <- MCMaxCalls
SPECIFICATION Spec
INVARIANT TypeOK
INVARIANT FirstRankingMatchesReference
