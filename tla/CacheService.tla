---------------------------- MODULE CacheService ----------------------------
(***************************************************************************)
(* What a cache promises: a request is answered with a resource that some  *)
(* request for the same key got from the upstream, and one that is fresh   *)
(* enough; or it is not answered with a resource at all.  Nothing is said  *)
(* of lists, cells, files and bytes.                                       *)
(***************************************************************************)
EXTENDS Naturals

CONSTANTS Requests, Keys, Rules, None

VARIABLES
    clock,
    key,        \* key[q]: what q is for
    rule,       \* rule[q]: how long its resource may be kept
    started,    \* started[q]: when q arrived
    published,  \* published[r]: when what r got was there to be shared
    result      \* result[q]: the request that got what q is answered with

vars == <<clock, key, rule, started, published, result>>

Init ==
    /\ clock = 0
    /\ key = [q \in Requests |-> None]
    /\ rule = [q \in Requests |-> None]
    /\ started = [q \in Requests |-> 0]
    /\ published = [q \in Requests |-> None]
    /\ result = [q \in Requests |-> None]

Tick == clock' > clock /\ UNCHANGED <<key, rule, started, published, result>>

Arrive(q) ==
    /\ key[q] = None
    /\ \E k \in Keys : \E r \in Rules[k] :
          key' = [key EXCEPT ![q] = k] /\ rule' = [rule EXCEPT ![q] = r]
    /\ started' = [started EXCEPT ![q] = clock]
    /\ UNCHANGED <<clock, published, result>>

\* Only a request for something that is cached fetches for others too.
Fetch(q) ==
    /\ key[q] # None /\ rule[q].policy \in {"for", "forever"}
    /\ published[q] = None /\ result[q] = None
    /\ published' = [published EXCEPT ![q] = clock]
    /\ UNCHANGED <<clock, key, rule, started, result>>

\* Not expired when q arrived, or fetched while q waited.
Fresh(r, q) ==
    \/ rule[r].policy = "forever"
    \/ started[r] + rule[r].max_age > started[q]
    \/ published[r] >= started[q]

Serve(q, r) ==
    /\ result[q] = None
    /\ key[q] # None /\ rule[q].policy \in {"for", "forever"}
    /\ published[r] # None /\ key[r] = key[q] /\ Fresh(r, q)
    /\ result' = [result EXCEPT ![q] = r]
    /\ UNCHANGED <<clock, key, rule, started, published>>

\* A resource that is never cached goes to the request that got it.
Proxy(q) ==
    /\ result[q] = None
    /\ key[q] # None /\ rule[q].policy = "never"
    /\ result' = [result EXCEPT ![q] = q]
    /\ UNCHANGED <<clock, key, rule, started, published>>

Next ==
    \/ Tick
    \/ \E q \in Requests :
          Arrive(q) \/ Fetch(q) \/ Proxy(q) \/ \E r \in Requests : Serve(q, r)

Spec == Init /\ [][Next]_vars
=============================================================================
