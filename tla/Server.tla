------------------------------- MODULE Server -------------------------------
(***************************************************************************)
(* A request's way through src/app.rs and the middleware of src/main.rs,   *)
(* and the caches of all hosts on one storage: Cache, with the keys and    *)
(* rules that Routing gives its requests.                                  *)
(***************************************************************************)
EXTENDS Cache, Routing

CONSTANTS Headers  \* Host headers that clients send

\* Mutant of CacheKey: the path alone is the key.
PathKey(c, p) == <<Default, p>>

\* CachedResourceKey: the host_key of the cache, and the path.
CacheKey(c, p) == <<HostKey(c), p>>

ASSUME ServerAssumption ==
    /\ Keys = {CacheKey(c, p) : c \in Caches, p \in Paths}
    /\ Rules = [k \in Keys |-> {Rule(c, k[2]) : c \in {d \in Caches : HostKey(d) = k[1]}}]
    /\ None \notin Headers
    /\ \A h \in Headers : h.kind = "host" =>
          /\ h.name \in Seq(STRING) \ {<<>>}
          /\ h.port \in Seq(STRING) /\ Len(h.port) \in {0, 1}

VARIABLES
    table,   \* AppState: the caches, by host
    header,  \* header[q]: the Host header of q
    cache,   \* cache[q]: the Cache that get_resource calls for q
    status   \* status[q]: the status of the response to q

serverVars == <<vars, table, header, cache, status>>

ServerTypeOK ==
    /\ table \in Tables
    /\ header \in [Requests -> Headers \cup {None}]
    /\ cache \in [Requests -> Caches \cup {NotSet}]
    /\ status \in [Requests -> {200, 400, 404, 405, 500, None}]

ServerInit ==
    /\ Init
    /\ table \in Tables
    /\ header = [q \in Requests |-> None]
    /\ cache = [q \in Requests |-> NotSet]
    /\ status = [q \in Requests |-> None]

\* Mutant of StatusOf: whatever goes wrong, the resource is not there.
StatusAlways404(a) ==
    CASE a = "body" -> 200
      [] a \in {"not_found", "error", "file_error"} -> 404
      [] OTHER -> None

\* Mutant of StatusOf: an upstream's failure is passed on as one of a gateway.
StatusBadGateway(a) ==
    CASE a = "body" -> 200
      [] a = "not_found" -> 404
      [] a \in {"error", "file_error"} -> 502
      [] OTHER -> None

\* into_response of what Cache::get came to.
StatusOf(a) ==
    CASE a = "body" -> 200
      [] a = "not_found" -> 404
      [] a \in {"error", "file_error"} -> 500
      [] OTHER -> None

IsNew(q) == pc[q] = "idle" /\ header[q] = None

\* get_resource is called and calls Cache::get.
Receive(q) ==
    /\ IsNew(q)
    /\ \E h \in Headers, p \in Paths :
          LET c == CacheFor(table, h) IN
          /\ h.kind # "bad" /\ c # NotSet
          /\ Arrive(q)
          /\ key'[q] = CacheKey(c, p) /\ rule'[q] = Rule(c, p)
          /\ header' = [header EXCEPT ![q] = h]
          /\ cache' = [cache EXCEPT ![q] = c]
    /\ status' = [status EXCEPT ![q] = StatusOf(answer'[q])]
    /\ UNCHANGED table

\* No GET or HEAD, a bad Host header, or no cache for the host.
Refuse(q) ==
    /\ IsNew(q)
    /\ \E h \in Headers :
          /\ header' = [header EXCEPT ![q] = h]
          /\ \/ status' = [status EXCEPT ![q] = 405]
             \/ h.kind = "bad" /\ status' = [status EXCEPT ![q] = 400]
             \/ /\ h.kind # "bad" /\ CacheFor(table, h) = NotSet
                /\ status' = [status EXCEPT ![q] = 404]
    /\ UNCHANGED <<vars, table, cache>>

\* Cache::get goes on; when it has come to something, so has the request.
Proceed(q) ==
    /\ Step(q) \/ StreamEnd(q) \/ Cancel(q)
    /\ status' = [status EXCEPT ![q] = StatusOf(answer'[q])]
    /\ UNCHANGED <<table, header, cache>>

\* Every request has been dealt with: the server waits for more.
ServerQuiet ==
    /\ \A q \in Requests : pc[q] = "done" \/ status[q] # None
    /\ UNCHANGED serverVars

ServerNext ==
    \/ \E q \in Requests : Receive(q) \/ Refuse(q) \/ Proceed(q)
    \/ Tick /\ UNCHANGED <<table, header, cache, status>>
    \/ ServerQuiet

ServerSpec == ServerInit /\ [][ServerNext]_serverVars

-----------------------------------------------------------------------------
(* Properties.                                                             *)

\* Hosts share list, files and capacity, but never an answer: what a client
\* gets was fetched for its own path from the upstream of its own host.  The one
\* exception is a host called "**" next to the top-level cache, which has that
\* name too: these two answer from each other's files, and no others do
\* (cache.rs:167-170, 198, app.rs:59-74, main.rs:55).
OwnUpstream ==
    \A q \in Requests : served[q] # None =>
        /\ \/ cache[served[q]] = cache[q]
           \/ {cache[served[q]], cache[q]} = {Top, Default}
        /\ key[served[q]][2] = key[q][2]

\* The host a header names: the one that is meant, whether its port is given or
\* not, but for a name with colons of its own and no port, an IPv6 address, whose
\* last part is taken for the port.
NamedHost(h) == IF h.port = <<>> /\ Len(h.name) > 1 THEN Front(h.name) ELSE h.name

\* The host that a header names decides: its cache answers if it has one, else
\* the top-level one, and a request is turned away for want of a cache only
\* when there is neither (config.rs:16-20, app.rs:44-65, 152-157).
HostDecides ==
    \A q \in Requests :
        LET own == {c \in table :
                       header[q] # None /\ header[q].kind = "host" /\ c = NamedHost(header[q])}
        IN  /\ cache[q] # NotSet => cache[q] \in (IF own = {} THEN {Top} ELSE own)
            /\ status[q] = 404 /\ cache[q] = NotSet => own = {} /\ Top \notin table

\* What the client is told is what the cache did: 200 for a resource that was
\* counted as hit, miss or never; 404 for nothing found, never for a failure;
\* and a refusal leaves the cache as it is (app.rs:66-81, 140-164).
StatusTellsOutcome ==
    \A q \in Requests :
        /\ status[q] = 200 => served[q] # None \/ counted[q] = {"never"}
        /\ status[q] = 404 /\ key[q] # None => answer[q] = "not_found"
        /\ status[q] \in {400, 405} => key[q] = None
        /\ key[q] # None /\ answer[q] \notin {"pending", "dropped"} => status[q] # None

-----------------------------------------------------------------------------
(* What the documentation says, and the code does not do.                  *)

\* What is said of request q and
\*   "labels": config.rs:16-17, a Host header matches "ignoring the port number";
\*   "hit", "miss", "never": README.md:48-52, requests that were served;
\*   "not_found", "error": README.md:54-55, requests for which the upstream has no
\*     such resource, or no successful response.
Told(metric, q) ==
    CASE metric = "labels" -> cache[q] # NotSet =>
            LET c == LabelCache(table, header[q]) IN
            /\ HostLabel(c) = HostLabel(cache[q])
            /\ PathLabel(c, key[q][2]) = PathLabel(cache[q], key[q][2])
      [] metric \in {"hit", "miss", "never"} ->
            metric \in counted[q] => answer[q] \in {"pending", "dropped", "body"}
      [] metric \in {"not_found", "error"} ->
            answer[q] = metric => counted[q] \cap {metric, "unrouted"} # {}

\* At least one of these is as documented.  A state that violates this shows that
\* none is, each at some request.
SomeMetricAsDocumented ==
    \E metric \in {"labels", "hit", "miss", "never", "not_found", "error"} :
        \A q \in Requests : Told(metric, q)
=============================================================================
