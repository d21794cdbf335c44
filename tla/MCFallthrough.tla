--------------------------- MODULE MCFallthrough ---------------------------
EXTENDS Fallthrough, TLC

CONSTANTS a, b, c, d, e, flat, mixed, deep, pair, none

\* A flat list, one with lists first and last in it, a list of lists and one
\* that is empty.
Lists ==
    flat :> <<a, b, c>> @@ pair :> <<d, e>> @@ none :> <<>>
    @@ mixed :> <<pair, a, none, b, flat>>
    @@ deep :> <<none, mixed, c>>

Nesting ==
    [u \in Upstreams |-> CASE u = deep -> 3 [] u = mixed -> 2
                           [] u \in {flat, pair, none} -> 1 [] OTHER -> 0]
=============================================================================
