CONSTANTS
    Projects <- MCSingleSourceProjects
    SplitModes = {FALSE}
    CppModes = {TRUE, FALSE}
    Requests <- MCDefaultRequest
    Entries = {"pipeline"}
    MaxRuns = 1
SPECIFICATION Spec
INVARIANT EveryProjectBuildsWhole
