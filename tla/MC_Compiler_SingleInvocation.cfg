CONSTANTS
    Projects <- MCProjects
    SplitModes = {FALSE}
    CppModes = {TRUE, FALSE}
    Requests <- MCNoSanitizer
    Entries <- MCSplitFalseEntries
    MaxRuns = 1
SPECIFICATION Spec
INVARIANT EveryProjectBuildsWhole
