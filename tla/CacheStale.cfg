\* A request that waits while another fetches a resource with a short life.
CONSTANTS
    Requests = {q1, q2}
    Keys = {k1}
    Rules <- AgeingRules
    Sizes = {1}
    Capacity = 1
    MaxCacheFiles = 1
    MaxTime = 1
    None = None
SPECIFICATION Spec
INVARIANT NeverServedStale
