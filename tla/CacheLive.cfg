\* Three requests under the fairness of the runtime, for two routes; to keep one
\* resource the cache has to evict the other.
CONSTANTS
    Requests = {q1, q2, q3}
    Keys = {k1, k2}
    Rules <- LastingRules
    Sizes = {1}
    Capacity = 1
    MaxCacheFiles = 2
    MaxTime = 0
    None = None
SPECIFICATION FairSpec
PROPERTIES Answered SilenceIsLocal
