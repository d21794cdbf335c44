\* Four requests for a host that is asked for with its port, cached and never
\* cached.
CONSTANTS
    Requests = {q1, q2, q3, q4}
    Keys <- SomeKeys
    Rules <- SomeRules
    Sizes = {1}
    Capacity = 1
    MaxCacheFiles = 1
    MaxTime = 0
    None = None
    config <- SomeConfig
    Matching <- SomeMatching
    Top = Top
    NotSet = NotSet
    Headers <- HeadersWithPort
SPECIFICATION ServerSpec
SYMMETRY Symmetry
INVARIANT SomeMetricAsDocumented
