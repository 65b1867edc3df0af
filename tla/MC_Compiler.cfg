CONSTANTS
    Projects <- MCProjects
    SplitModes = {TRUE, FALSE}
    CppModes = {TRUE, FALSE}
    Requests <- MCRequests
    Entries = {"pipeline", "compiler", "run"}
    MaxRuns = 2
SPECIFICATION Spec
INVARIANT TypeOK
PROPERTY ImplementsBuild
