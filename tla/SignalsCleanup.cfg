CONSTANTS
    Sources = {a1}
    Computeds = {c1}
    Effects = {e1}
    MaxRuns = 2
    MaxDepth = 2
SPECIFICATION SgSpec
PROPERTIES CleanupIsCalled
CHECK_DEADLOCK FALSE
