SPECIFICATION Spec
CONSTANTS
    a = a
    b = b
    c = c
    d = d
    e = e
    flat = flat
    mixed = mixed
    deep = deep
    pair = pair
    none = none
    Upstreams = {a, b, c, d, e, flat, mixed, deep, pair, none}
    Children <- Lists
    Buckets = {a, d, e}
    Prefixed = {d}
    Depth <- Nesting
    Roots = {flat}
    NoUpstream = NoUpstream
    NoReply = NoReply
INVARIANT OnlySuccessIsValid
