\* Two requests for two paths of three hosts, or of none, that are cached for a
\* second, for ever, never, or switched off.
CONSTANTS
    Requests = {q1, q2}
    Keys <- SomeKeys
    Rules <- SomeRules
    Sizes = {1}
    Capacity = 1
    MaxCacheFiles = 1
    MaxTime = 1
    None = None
    config <- SomeConfig
    Matching <- SomeMatching
    Top = Top
    NotSet = NotSet
    Headers <- SomeHeaders
SPECIFICATION ServerSpec
SYMMETRY Symmetry
INVARIANTS ServerTypeOK OwnUpstream HostDecides StatusTellsOutcome
