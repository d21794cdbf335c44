------------------------------ MODULE Routing ------------------------------
(***************************************************************************)
(* Which cache and which rule a request meets: the configuration of        *)
(* src/config.rs as main of src/main.rs and CacheRoutes of src/cache.rs    *)
(* use it, and the host of a request as src/app.rs reads it.               *)
(*                                                                         *)
(* A host name and the text of a Host header are the sequence of their     *)
(* parts between colons: <<"a">> is "a", <<"a", "80">> is "a:80" and       *)
(* <<"[", "", "1]">> is "[::1]".  Nothing reserves a name: a configured    *)
(* host may be called "**".                                                *)
(***************************************************************************)
EXTENDS Integers, Sequences, SequencesExt

CONSTANTS
    config,    \* the configuration
    Matching,  \* Matching[p]: the patterns that match path p, best one first
    Top,       \* the top-level cache
    NotSet

Paths == DOMAIN Matching

\* CacheConfigMaxAge: a number or a duration, or a word.
MaxAges == [kind : {"time"}, time : Int] \cup [kind : {"forever", "never"}]

ASSUME RoutingAssumption ==
    /\ DOMAIN config.hosts \subseteq Seq(STRING)
    /\ Top \notin DOMAIN config.hosts /\ NotSet \notin DOMAIN config.hosts \cup {Top}
    /\ \A h \in DOMAIN config.hosts :
          config.hosts[h].cache \in [max_age : MaxAges] \cup {NotSet}
    /\ config.cache \in [max_age : MaxAges]

-----------------------------------------------------------------------------
(* Rules.                                                                  *)

Forever == [policy |-> "forever", max_age |-> 1]

\* The rules for the kinds of max_age; a time of zero or less is "never".
MaxAgeRule(m) ==
    CASE m.kind = "forever" -> Forever
      [] m.kind = "never"   -> [policy |-> "never", max_age |-> 1]
      [] m.kind = "time"    ->
            IF m.time > 0 THEN [policy |-> "for", max_age |-> m.time]
                          ELSE [policy |-> "never", max_age |-> 1]

\* A route that does not set max_age has the default, whatever the host has.
RouteRule(route) ==
    IF route.disabled THEN [policy |-> "disabled", max_age |-> 1]
    ELSE MaxAgeRule(route.max_age)

-----------------------------------------------------------------------------
(* Caches.                                                                 *)

\* The caches there can be.  A table holds those that have an upstream: main
\* skips the other hosts, with their settings.
Caches == DOMAIN config.hosts \cup {Top}
Tables == SUBSET Caches \ {{}}

\* The name main gives the top-level cache, and the label of what has no host.
Default == <<"**">>

\* host_key: what tells the entries of one cache from those of another.
HostKey(c) == IF c = Top THEN Default ELSE c

\* What a host sets takes the place of the top-level setting as a whole.
Setting(c, field) ==
    IF c # Top /\ config.hosts[c][field] # NotSet
    THEN config.hosts[c][field] ELSE config[field]

\* PathTree::find among the routes of cache c.
Pattern(c, p) ==
    LET found == SelectSeq(Matching[p], LAMBDA x : x \in DOMAIN Setting(c, "routes"))
    IN  IF found = <<>> THEN NotSet ELSE Head(found)

\* CacheRoutes::match_route
Rule(c, p) ==
    IF Pattern(c, p) = NotSet THEN MaxAgeRule(Setting(c, "cache").max_age)
    ELSE RouteRule(Setting(c, "routes")[Pattern(c, p)])

-----------------------------------------------------------------------------
(* Requests.                                                               *)

\* A Host header: the host and the port that its sender means, the port <<>> if
\* it is left out; or that there is none; or that it is refused because there
\* are two of it or it is no text.
Header(name, port) == [kind |-> "host", name |-> name, port |-> port]
NoHeader == [kind |-> "none"]
BadHeader == [kind |-> "bad"]

\* What the code has of it: the text, in which nothing tells name from port.
Text(header) == header.name \o header.port

\* Mutant of WithoutPort: the text is the name.
WithPort(text) == text

\* rsplit_once(':')
WithoutPort(text) == IF Len(text) > 1 THEN Front(text) ELSE text

\* cache_for_host: the cache of that host, else the top-level one if there is.
CacheForHost(table, h) ==
    IF h \in table THEN h ELSE IF Top \in table THEN Top ELSE NotSet

CacheFor(table, header) ==
    CacheForHost(table,
        IF header.kind = "host" THEN WithoutPort(Text(header)) ELSE NotSet)

\* filtered_host_and_path: the middleware looks for the whole text.
LabelCache(table, header) ==
    CacheForHost(table, IF header.kind = "host" THEN Text(header) ELSE NotSet)

\* The labels that a request gets from the cache found for it: the host, and the
\* pattern of its route if it has one.
HostLabel(c) == IF c \in DOMAIN config.hosts THEN c ELSE Default
PathLabel(c, p) == IF c = NotSet THEN NotSet ELSE Pattern(c, p)
=============================================================================
