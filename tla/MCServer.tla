------------------------------ MODULE MCServer ------------------------------
(* An instance of Server for TLC. *)
EXTENDS Server, TLC

Time(n) == [max_age |-> [kind |-> "time", time |-> n]]
V6 == <<"[", "", "1]">>
Enabled(n) == [disabled |-> FALSE] @@ Time(n)
Disabled == [disabled |-> TRUE]

\* A host with routes of its own, one of them switched off; one without, whose
\* name is an IPv6 address; and one with the name of the top-level cache, which
\* keeps for ever what that keeps for a second.  Of the top-level routes one is
\* never cached.
SomeConfig ==
    [cache |-> Time(1),
     routes |-> "/api/*" :> Enabled(0),
     hosts |-> <<"a">> :> [cache |-> NotSet,
                           routes |-> "/*" :> Disabled @@ "/assets/*" :> Enabled(1)]
            @@ V6 :> [cache |-> NotSet, routes |-> NotSet]
            @@ <<"**">> :> [cache |-> [max_age |-> [kind |-> "forever"]], routes |-> NotSet]]

\* path-tree prefers the longer prefix.
SomeMatching ==
    "asset" :> <<"/assets/*", "/*">> @@ "api" :> <<"/api/*", "/*">>

Port == <<"80">>
SomeHeaders ==
    {Header(<<"a">>, <<>>), Header(<<"a">>, Port), Header(V6, <<>>), Header(V6, Port),
     Header(<<"**">>, <<>>), NoHeader, BadHeader}
HeadersWithPort == {Header(V6, Port)}

SomeKeys == {CacheKey(c, p) : c \in Caches, p \in Paths}
SomeRules ==
    [k \in SomeKeys |-> {Rule(c, k[2]) : c \in {d \in Caches : HostKey(d) = k[1]}}]

Symmetry == Permutations(Requests)
=============================================================================
