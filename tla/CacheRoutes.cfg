\* A path whose resources expire after two ticks of the clock, or never, next to
\* one of each kind that bypasses the list.
CONSTANTS
    Requests = {q1, q2, q3}
    Keys <- RoutedKeys
    Rules <- RoutedRules
    Sizes = {1}
    Capacity = 1
    MaxCacheFiles = 1
    MaxTime = 2
    None = None
SPECIFICATION Spec
SYMMETRY RequestSymmetry
INVARIANTS SingleFlight HeldStaysLive BoundedStaleness CountedByRuleAndCell
PROPERTIES ImplementsService
