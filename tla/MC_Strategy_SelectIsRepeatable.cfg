CONSTANTS
    Inputs <- MCInputs
    MaxCalls <- MCMaxCalls
SPECIFICATION Spec
INVARIANT SelectIsRepeatable
