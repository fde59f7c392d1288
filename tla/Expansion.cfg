SPECIFICATION Spec
CONSTANTS
    MaxJobs = 4
    MaxChunks = 2
    CacheLimit = 1
    Titles = {"a", "b"}
    ParamNames = {"1", "x"}
    maxDepth = 2
    MaxText = 2
    MaxParams = 3
    MaxTarget = 4
    Expansions <- MCExpansions
    MaxAttributes = 2
    MaxExpanded = 2
INVARIANTS OwnContent WholeInWrapper NoEndlessInclusion AsWritten
PROPERTIES EverythingEnds
CHECK_DEADLOCK FALSE
