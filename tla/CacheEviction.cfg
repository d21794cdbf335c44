\* Three routes kept for ever, a list of two and room for two bytes: resources
\* leave for want of a place in the list or of space, and one can fit, fill
\* the capacity, or be larger than all of it.
CONSTANTS
    Requests = {q1, q2, q3}
    Keys = {k1, k2, k3}
    Rules <- LastingRules
    Sizes = {1, 2, 3}
    Capacity = 2
    MaxCacheFiles = 2
    MaxTime = 0
    None = None
SPECIFICATION Spec
SYMMETRY Symmetry
INVARIANTS
    TypeOK Conservation CacheFits GaugesExact ListWellFormed StructureInv
PROPERTIES
    UsesLedger
