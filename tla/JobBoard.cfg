SPECIFICATION BoardFairSpec
CONSTANTS
    p = p
    q = q
    i = i
    j = j
    Projects = {p, q}
    NoProject = NoProject
    Jobs = {i, j}
    ProjectOf <- MCProjectOf
    MaxCalls = 2
CHECK_DEADLOCK FALSE
INVARIANTS
    CancelsSettle
PROPERTIES
    NeverRegresses
    EndsAreShown
