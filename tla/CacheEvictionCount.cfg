\* A list of one cell and two routes, with space to spare.
CONSTANTS
    Requests = {q1, q2}
    Keys = {k1, k2}
    Rules <- LastingRules
    Sizes = {1}
    Capacity = 2
    MaxCacheFiles = 1
    MaxTime = 0
    None = None
SPECIFICATION Spec
PROPERTY EvictionsAreCounted
