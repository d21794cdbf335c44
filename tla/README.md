# Specifications of server3

server3 is an HTTP reverse proxy that keeps the resources it fetches in
temporary files. These TLA+ modules describe what it does when many requests
meet: how the cache shares one upstream call, one list of entries and one budget
of disk space between them, which cache and rule a request meets, how a cached
file reaches the clients, what a chain of upstreams answers, and how the process
starts and ends. TLC checks the modules on small instances; TLAPS proves the
central properties for every value of the constants.

Paths below are relative to the repository; `cache.rs` and the like are in
`src/src/`.

## 1. The system

| component | state | operations | interacts with |
|---|---|---|---|
| **Cache** (`cache.rs:86-272, 443-538`) | LRU list of `Arc<OnceCell<Arc<CachedResource>>>` under an async mutex; per cell a permit and a value; a temporary file per resource; counters and gauges | `Cache::get`: rule, lookup, wait or initialize, evict, publish, answer; drop of a resource | calls the upstream, the capacity pool, the blocking pool; called by the HTTP handler |
| **Disk capacity pool** (`cache.rs:606-721`) | one `AtomicU64` of free bytes; a number of bytes per reservation | `reserve`, `reserve_up_to`, `return_to_pool` (on drop) | called by the cache, from any thread |
| **Bodies** (`cache.rs:540-577`, `response.rs`) | offset and buffer of a reader thread, a channel of one chunk, the body the connection polls | duplicate the file, read, send, poll, drop | tokio's blocking pool, the connection, the end of the process |
| **Upstreams** (`upstream.rs`, `upstream/`) | configuration only | `get`: found, not found, error | HTTP and S3 clients; a fallthrough calls other upstreams |
| **Route rules** (`cache.rs:297-435`) | routes and a default rule per host | `match_route`, conversions from the configuration | the `path-tree` crate |
| **HTTP handler** (`app.rs`, `main.rs:217-246`) | table of caches by host | choose the cache, build the response, label the metrics | axum; the caches, which share one storage |
| **Storage set-up** (`cache.rs:24-84`) | file descriptor limits | compute `max_cache_files`, raise the limit | operating system |
| **Process** (`main.rs`) | two servers, a signal handler, the table of upstreams | start, `select!`, stop | tokio, the operating system |

What makes it hard:

- **Cells outlive their place in the list.** An entry leaves the list because it
  is popped for space, because the full `LruCache` drops it, or because it has
  expired; requests may be filling it or answering from it at that moment. Its
  file and its bytes of the pool go with the last `Arc`, in whatever task drops
  that.
- **One fetch for many requests.** `OnceCell::get_or_try_init` gives one request
  the permit; if it fails or its client leaves, the next one goes on. If the
  upstream keeps silent, nobody goes on.
- **Space is reserved after the file is written**, first without the list's
  mutex and then, evicting, with it. A resource may evict its own cell, and may
  get fewer bytes than it has.
- **Expiry** is decided with the arrival times of two different requests.
- **A request can be dropped at every await**, when its client disconnects.
- **The pool** is a lock-free counter under load / compare_exchange loops, whose
  destructor path would panic on overflow.
- **All hosts share one storage**; only the key keeps their resources apart.
- **A body holds a thread** of a bounded pool while its client reads, stalls or
  the process is about to end.
- **Start-up computes with limits it changes**, and unwraps the sums.
- **A signal** may come before anybody waits for it.
- **Metrics** claim to count all this.

What correctness means, by component: the pool neither loses nor duplicates
bytes and cannot panic; what is cached fits the capacity; a reservation belongs
to a live resource; requests for a key share a fetch; a resource does not vanish
under a request that answers from it; an answer has a bounded age and comes from
the request's own host and path; outcome counters and statuses follow from
what happened; every request gets an answer, and a silent upstream holds up only the
requests for the same key; a client gets the bytes of the file in order, or
notices that it did not; threads come back; a fallthrough keeps the promise of
`config.rs:118-120` however it is nested; the descriptors suffice for the
cache that was created; nothing listens before everything is built; a signal
ends the process.

## 2. Modules

| module | models | role |
|---|---|---|
| `ByteTotals` | | sums of byte counts, without recursion |
| `ByteTotalsTheorems` | | lemmas about those sums |
| `CapacityLedger` | the pool as its callers see it | abstract specification, each call one step |
| `CapacityPool` | `cache.rs:606-721` | the compare_exchange code; implements `CapacityLedger` |
| `CapacityPoolProofs` | | proofs |
| `CacheService` | `Cache::get` as its callers see it | abstract specification, without list, cells and files |
| `Cache` | `cache.rs:143-272, 370-538, 593-604` | the cache; implements `CacheService`, and the users' side of `CapacityLedger` |
| `CacheProofs` | | the inductive invariant and what follows from it; the list and the sharing of upstream calls |
| `CacheServiceProofs` | | proofs about the age of answers, the two refinements, and the metrics |
| `Routing` | `cache.rs:297-435`, `main.rs:48-83`, `app.rs:17-70, 109-126` | which cache and rule a request meets: pure operators over a configuration |
| `Server` | `app.rs`, `main.rs:217-246` | the handler, composed with `Cache` and `Routing` |
| `ServerProofs` | | the server uses the cache as `Cache` says; proofs of its own properties |
| `BodyStream` | `cache.rs:540-577`, `response.rs`, `main.rs:155-169` | from a cached file to the clients, and the end of the runtime |
| `BodyStreamProofs` | | proofs |
| `UpstreamOrder` | `config.rs:118-120` | abstract specification of a fallthrough |
| `Fallthrough` | `upstream/`, `main.rs:248-259` | nested fallthroughs over HTTP and S3 upstreams; implements `UpstreamOrder` |
| `FallthroughProofs` | | proofs |
| `Startup` | `cache.rs:24-84`, `main.rs:22-203` | storage set-up, upstreams, the two servers, signals, `select!` |
| `StartupProofs` | | proofs |
| `MC...` | | definitions the configurations use |

Operators whose comment begins "Mutant of" are the way a plausible mistake would
change the definition after them. No specification uses them; they show that
each property depends on the code it is about.

### CapacityPool

A thread's position is given by `op` (the method it is in) and `seen` (the value
it loaded, or `NotLoaded`). `Load` and the `Swap...` actions are the two atomic
accesses of each loop; between them all other threads may run. Loads return
the current value: there is one atomic location, and the code takes every
decision through a compare_exchange on it. `U64Max` stands for the largest u64;
the `expect` at 698-700 is a guard, and `NeverOverflows` says that it never
stops a thread.

### Cache

One element of `Requests` is one call of `Cache::get`; it also names the cell
and the resource the call may create, as `init_id` does in the code. `pc` has one
value for each point where other tasks can act:

| `pc` | the request is |
|---|---|
| `idle` | not yet there |
| `lookup` | waiting for the list's mutex (185) |
| `proxy` | asking the upstream, never cached (175) |
| `cell` | waiting for the permit or the value of its cell (195) |
| `fetch`, `copy` | asking the upstream (197), writing the file (451-458) |
| `reserve` | at the first attempt to reserve (464) |
| `want_lock` | waiting for the mutex in order to evict (473) |
| `evict`, `retry`, `up_to` | in the loop, holding the mutex (477, 464, 483) |
| `publish` | in possession of its reservation (511) |
| `clone` | duplicating the file (257) |
| `stream`, `done` | answered; reading, or finished |

`lru` is the list of cells, least recently used first; a cell's key is that of
the request which made it. The `Arc`s of a cell are its occurrence in `lru` and
the requests with `cellOf` pointing to it; `Release(c)` is the drop of the last
one, and is part of every action that removes one. `evicted`, `counted`,
`diskFiles` and `diskBytes` are the metrics. `published` and `served` record
history for the properties; `answer` is the result of the call. A request
meets one of the `Rules` of its key: two caches of one name, the top-level one and
that of a host called `**`, can have different rules for one key.

In `CacheService` a request arrives, may fetch for everybody, and is served with
what some request for the same key fetched, if that is fresh enough. The
refinement mapping keeps the clock, keys and times of `Cache`, and takes for
`result` the request whose resource is served (`Result`): everything between
the arrival and the answer but the publication is a stutter.

To the pool a request is an owner, and `PoolCall` the method it is in. A refused
`reserve` that evicts something and tries again is one call of the ledger that
takes longer; it is refused there when nothing is left to evict, or when the
request goes for the mutex first. `CapacityPool` implements the same ledger
from below, so that the cache can take each of its calls as one step.

Not in the model: the names of routes and hosts (a key stands for a host and a
path, and `Rules` gives the rules that may be found for it; `Server` fills both
in), headers, the
byte counters that go with the outcome counters, the timestamp for a response
header. The panic at 172 (a duration too long for an `Instant`) and panics of
libraries are left out. `request_count` is incremented on every call and tells
nothing.

### Routing and Server

A host name, and the text of a Host header, is the sequence of its parts between
colons, so that `rsplit_once(':')` is `Front`. A header of the model knows which
of its parts its sender means for the port (`Header(name, port)`); the code sees
only the `Text`. `Rule(c, p)` gives the rule of cache `c` for path `p`: a host's
routes and cache settings replace the top-level ones as a whole, and a route
without `max_age` is kept for ever, whatever the host sets. Which patterns match a
path, and which first, is the constant `Matching`. `HostKey` is the name by which
the storage knows a cache: the host, and `**` for the top-level one (`Top`), which a
host may be called too.

`Server` extends `Cache` with the table of caches, and for each request its Host
header, the cache that is called for it and the status of its response.
`ServerAssumption` says that the keys of `Cache` are pairs of a cache's name and a
path, and that their rules are those of `Routing`. `Receive` is `get_resource` up
to its call of `Cache::get`; `Refuse` is what never gets there (405, 400, 404);
`Proceed` is a step of `Cache`, after which the status follows from the answer. The
table is any nonempty subset of the configured caches: `main` leaves out hosts
without an upstream. `LabelCache`, `HostLabel` and `PathLabel` are what the
middleware makes of a header.

### BodyStream

A request asks for a duplicate of the file, which is a job of the blocking pool,
and then for a reader, which is another. Jobs start in the order they were
queued when one of `Threads` is free; a reader keeps its thread until the end of
the file or until its client is gone. A read returns between one byte and
`BufferSize` bytes, or fails. A chunk records where in the file it came from, so
that order and gaps are visible. The connection takes the size hint as the
length of the response: it stops when it has that many bytes, and an error from
the body breaks the response off. A client may leave, or stall: keep the
connection and read nothing more. When `main` returns, the runtime drops the
tasks one by one, throws queued jobs away, and is down when the last thread has
come back.

### Fallthrough

The calls of `FallthroughUpstream::get` in progress are a sequence, the
outermost first; each has its position in its list and its `first_error`.
The other upstreams send one request and interpret a class of responses:
`HttpReply` and `S3Reply` are the two `get`s, with the empty key of a bucket
without a prefix. `Accepted` is what they take for a resource, a 3xx that reqwest
does not follow among it. The refinement mapping sends a nested configuration to the
flat list of its leaves (`Leaves`). That configurations are trees, which a value of
`UpstreamConfig` is by construction, is `FallthroughAssumption`: an upstream of a list
is nested less deep than the list (`Depth`, which only the proofs use).

### Startup

`CacheStorage::new` is an action for each of its outcomes, in arithmetic whose
largest number is `U64Max`; then upstreams are built one at a time, the top-level
one first. In the stage `serve` the two servers bind, the task of the signal
handlers installs first that of SIGTERM and then that of SIGINT, and the first of
the three to end ends the process. `Refuse`
stands for all the errors before that which tell the model nothing (unreadable
configuration, a recorder or client that cannot be created). A signal without its
handler kills.

## 3. Runs

| run | instance | checks | states |
|---|---|---|---|
| `CapacityPool` | 3 threads, 3 bytes, requests of 0, 1, 2 and 4; fairness | `TypeOK` `Conservation` `NeverOverflows` `ImplementsLedger` `LockFree` | 43,484 |
| `CacheEviction` | 3 requests, 3 keys kept for ever, list of 2, 2 bytes, files of 1 to 3 | `TypeOK` `Conservation` `CacheFits` `GaugesExact` `ListWellFormed` `StructureInv` `UsesLedger` | 216,644 |
| `CacheRoutes` | 3 requests, a key with an expiring and a lasting rule, a never cached and a disabled route, 3 instants | `SingleFlight` `HeldStaysLive` `BoundedStaleness` `CountedByRuleAndCell` `ImplementsService` | 708,171 |
| `CacheLive` | 3 requests, 2 keys, 1 byte; fairness | `Answered` `SilenceIsLocal` | 169,511 |
| `Server` | 2 requests, 7 Host headers, every table of 4 caches, 2 paths | `ServerTypeOK` `OwnUpstream` `HostDecides` `StatusTellsOutcome` | 640,088 |
| `BodyStream` | 2 responses, 1 thread, a long and an empty file, reads of 1 or 2; fairness | `TypeOK` `BytesInOrder` `NeverTruncated` `Backpressure` `ThreadsComeBack` `BodiesEnd` `StopsForGood` | 11,253 |
| `Fallthrough` | 4 configurations, flat, mixed, two levels deep, empty; HTTP and S3, with and without a prefix | `TypeOK` `ResultIsJustified` `ImplementsOrder` | 458,122 |
| `Startup` | numbers of three bits, 45 settings, 9 limits, one host; fairness | `TypeOK` `DescriptorsSuffice` `PanicsExplained` `ListensWithFullTable` `ExitExplained` `ServesOrEnds` `SignalEnds` | 44,752 |
| `CacheEvictionCount` | a list of one, two routes | `EvictionsAreCounted`: violated | |
| `CacheStale` | a wait across the expiry | `NeverServedStale`: violated | |
| `Metrics` | the configuration of `Server`, 4 requests at one instant | `SomeMetricAsDocumented`: violated | |
| `Redirects` | one list of HTTP and S3 upstreams | `OnlySuccessIsValid`: violated | |

**Bounds.** Three requests are one that fills a cell, one that waits for it and
one that evicts or replaces it meanwhile; with three, a cell in the list, a cell
out of it and a request between them exist for the same key. Capacity and sizes
are chosen so that a resource can fit, fill the capacity exactly, fit after an
eviction, or be larger than everything. A list of one or two is full after the
first requests; with `MaxCacheFiles = 1` instead of 2 `CacheLive` passes too
(179,063 states). In `CacheRoutes` the clock has three instants and a resource
of the expiring rule lives for two of them, which lets it be published late,
expire during a wait and be replaced, while a request with the other rule fills
the same cell for ever. In `CapacityPool` the largest request equals `U64Max`
and exceeds the capacity. In `Server` two requests meet in one cell or replace
each other's, and the headers include a name with and without a port, an IPv6
address with and without one, the name `**`, none and a bad one. In `Metrics`
four requests are as many as it takes for each metric to be wrong at one of
them. In `BodyStream` the long file is longer than what the channel and the
reader hold together (`Backpressure` is reached), and there are fewer threads
than responses; readers share nothing but the pool. In `Fallthrough` lists come
first and last in lists, and one is empty. In `Startup` the settings include
zero, values that fit, and values whose sums exceed the limits, the list or a
u64. Each request runs once; a client's second request is another element.
`MaxTime` bounds the clock, nothing else is bounded. Symmetry is used in runs
without liveness: keys in `CacheEviction` have the same rule, and requests are
alike everywhere.

**Fairness.** `Cache!FairSpec` has weak fairness for the steps of each request
that has arrived, up to its answer, unless it waits for the upstream: the
tokio runtime polls every woken task, and its mutex and the semaphore inside a
`OnceCell` queue their waiters in order. Weak fairness is enough because one
request at a time evicts, with a list that only gets shorter meanwhile. That
the upstream answers or fails in the end is an assumption about the world, and
`UpstreamAnswers` states it where it is needed: `Answered` assumes it, as it does
hold with the optional timeouts of `upstream/http.rs:19-29`; `SilenceIsLocal` does
not, and says who waits without it. Arrivals, the ends of bodies and
disconnections are not fair. The two properties speak of `AnyRequest`, one chosen
request; the specification treats all alike. `CapacityPool!FairSpec` lets threads
inside a method run; callers need not call or drop. `BodyStream!FairSpec` lets
threads and connections run, clients take what they are sent unless they stall
or leave, and the runtime carry out its shutdown once that has begun; a client
that stalls may keep a thread for ever, for the server sets no timeout on
writing, and the liveness properties say so (`SomeoneStalls`), except
`StopsForGood`, which holds all the same. `Startup!FairSpec` lets `main` and the
servers go on; signals need not come.

## 4. Findings

Each of these is a run in which TLC shows the behaviour; the quotations are in
`PROJECT.json`.

- `eviction_count` misses the evictions by a full list, of which the README
  speaks in its description of the cache.
- A request that waits for a cell can be answered from a resource that had
  already expired when the request arrived. `BoundedStaleness` is what does hold.
- Most metrics do not count what the README says of them. `Metrics` finds one
  behaviour with a counterexample to each: `hit_count` and `miss_count` go up
  before the file is duplicated, and stay so when that fails and the client gets a
  500; `never_count` goes up before the upstream is asked, and an upstream that
  fails or has nothing is then in neither `error_count` nor `not_found_count`; and the
  labels of the request metrics take the Host header with its port, so that a
  request for `a:80` is answered by the cache of `a` and counted for the top level.
  `CountedByRuleAndCell` is what the counters of the cache do count: one per
  answered request, chosen by its rule and by who filled its cell.
- A 3xx response without a `Location`, or a 304, is taken for the resource, where
  the README has only 2xx valid and redirects followed. `ResultIsJustified` says
  what does hold of a result, with such a response among what is `Accepted`.

Noticed while modelling, and part of the models as it is: an IPv6 address
without a port as Host header loses its last part, so that it is answered by the
top-level cache or by a host that is called like the rest, and not by its own
(`NamedHost`, by which `HostDecides` goes); a host called `**` and the top-level
cache answer from each other's files, which `OwnUpstream` states as its one
exception and which no text of the repository rules out; a host without an
upstream is skipped with all its settings
(`main.rs:71-73`); a route without `max_age` does not take its host's; a resource
larger than the cache is counted as a miss although it is not kept; more files
than `max_cache_files` can be open while slow requests fill cells that have left
the list.

## 5. Proofs

**The pool** (`CapacityPoolProofs`), assuming `PoolAssumption`: finitely many
threads, `Capacity <= U64Max`, sizes within a u64. `Conservation` alone is not
inductive: a compare_exchange stores what was computed from `seen`. `PoolInv` adds
`CallsAreConsistent` (which threads hold and want bytes) and `SeenIsSafe` (what a
thread can have loaded). A value seen by a thread that returns bytes is
bounded because its own reservation is still outside of `available`
(`ReservedIsBounded`). From it: `PoolTypeCorrect`, `PoolConserves`,
`PoolNeverOverflows` and the refinement `PoolImplementsLedger`, whose steps map to
a call of the ledger at the successful compare_exchange and stutter otherwise.

**The cache** (`CacheProofs`), assuming `CacheAssumption`: finitely many requests
(each makes one resource) and a list with room for at least one cell. The
inductive invariant is `Inv == TypeOK /\ Conservation /\ StructureInv`. For
`Conservation`, one has to know that a resource sits in a single cell
(`ValuesAreOwned`), so that its bytes come back once, and that a request which
gets bytes holds none (`NoReservationLeaks`). For `CacheFits`, what is in the list
has all of its bytes (`ListIsReserved`): `reserve_up_to` is called only when the
list is empty and locked (`MutexIsExclusive`), so that a request which may get
less than it needs has no cell in the list. `PermitsAreExclusive` and
`CellsAreFresh` carry the rest. The proof groups the actions by what they do
to the shared state (a request moves, lets go, takes a cell, inserts one, gets
bytes, publishes, evicts) and has one lemma for each group.

Results: `CacheInvariance`, `CacheTypeCorrect`, `CacheStructure`,
`CacheConservesCapacity`, `CacheLeaksNoReservation`, `CacheHoldsWhatItServes`,
`CacheStaysWithinCapacity`.

**The list** (`CacheProofs`), on top of `Inv`: `ListInv == Inv /\ ListWellFormed`
is inductive, because a key is named only at arrival, when the request's own cell
cannot be in the list (`CellsAreFresh`), and every other change of the list is a
removal followed at most by the insertion of a cell of a key that is not left in it.
`SingleFlight` then follows from the state alone: two requests for a key whose
cells are both in the list have the same cell (`KeysAgree`), and its permit has
one holder (`PermitsAreExclusive`). Results: `ListInvariance`,
`CacheListWellFormed`, `CacheSingleFlight`.

**The service** (`CacheServiceProofs`), on top of `Inv`: `ServiceInv` says that
whatever a request finds in the cell it holds was not expired at its arrival or
is younger than that (`CellsAreFreshEnough`), and that this goes over to its answer
(`AnswersAreFresh`). It is inductive because a cell is taken either with something
fresh in it (`LookupHit`) or empty, and what is put in an empty cell is published
now. `CacheBoundsStaleness` follows; and so does the refinement
`CacheImplementsService`, where `Arrive`, `Publish`, `CloneOk` and `ProxyReply` map
to the four steps of `CacheService` and everything else to a stutter.

**The cache and the pool** (`CacheServiceProofs`): `CacheUsesLedger` says that
`CapacityLedger` is also what the cache makes of the pool. It needs that a request
asks with the size of a body (`SizesAreBodies`), that one which has not got its
reservation holds nothing (`NothingHeld`, from `NoReservationLeaks`), and that only
the holder of the mutex can see the list change while it evicts. One lemma is
about attempts to reserve (`AttemptRefines`), one about what the drop of a resource
gives back (`ReleaseReturns`), one about steps that begin a call (`CallBegins`); all
other steps stutter. With `PoolImplementsLedger` the ledger is proved from both
sides: the compare_exchange code behaves as the ledger, and the cache lives with
nothing else.

**The metrics** (`CacheServiceProofs`): `CountsInv` ties the counters a request
has incremented to where it is, and needs `PermitsAreExclusive` to know that a
request which fills a cell reads its own resource there. `CacheCountsOutcomes`
follows: rule and cell decide the counter, which the failure of an upstream that
is never cached, or of the duplication of a file, no longer changes.
`GaugesExact` is inductive with `Inv`: a drop takes from the gauges what its
publication added, since a resource sits in one cell, is published once and
keeps its size (`CacheGaugesExact`).

**The server** (`ServerProofs`), assuming also `RoutingAssumption` and
`ServerAssumption`: every behaviour of `Server` is one of `Cache`
(`ServerUsesCache`), so that all of the above holds of the server, for any
configuration. `Addressed` ties the cache, the key and the status of a request to
its header and answer, and with `AnswersAreFresh` gives `ServerKeepsHostsApart`: no
client gets what was fetched for another path, or another host unless that has
the name of the top-level cache. It takes no assumption about names: two caches have
one `HostKey` only if they are `Top` and the host `**`. `ServerFollowsHost` is about any
names and ports, also names that contain colons: `NameOfText` says what
`rsplit_once` leaves of each text. `ServerTellsOutcome` is about statuses.

**Start-up** (`StartupProofs`), for integers of any width, any settings and
limits, hosts and servers: `IInv` consists of the types, the stages and the
four safety properties. The arithmetic is in `StorageArithmetic`: if the minimum
does not exceed the hard limit, the difference at `cache.rs:62` is not negative
and what the cache may open fits with what is set aside. Results:
`StartupTypeCorrect`, `StartupDescriptorsSuffice`, `StartupPanicsExplained`,
`StartupListensWithFullTable`, `StartupExitExplained`.

**Bodies** (`BodyStreamProofs`), assuming `BodyAssumption`: finitely many responses,
at least one thread, reads of at least one byte, and marks that are not chunks.
`IInv` adds to the types one `ResponseInv` for each response. Its centre is
`Gapless`: what the channel and the reader hold is, in this order, exactly what
lies between the bytes the client has and the place the reader has got to. The
channel has at most one chunk, because `Send` waits for it to be empty. A reader
that is over has read the whole file, unless its client is gone or the process
is about to go: a failed read ends in the client's hands first. Results:
`BodyTypeCorrect`, `BodyKeepsOrder`, `BodyIsNeverCut`, `BodyHoldsTwoChunks`.

**Fallthroughs** (`FallthroughProofs`), assuming `FallthroughAssumption`: finitely many
upstreams, nested in trees of any shape. `Leaves` is a recursive function, and
what it computes is an induction on the depth; the induction is done with a set
(`InductionUpTo`: of the numbers that a set misses there would be no last one) and
gives `LeavesUnfold`, the recursion equation, and `FlattenSeqParts`, the place of
each list in the list they are flattened to. `Place(f)` has the places of the
upstreams of `f` in its flat list, and `At(root, p, u)` says that the flat list of `u` is
the part after `p` of that of the root. `ImplementsOrder` is not inductive: it speaks of
one list, the code of a stack of calls. `IInv` says that the calls in progress are
a path in the tree, each at its place in the root's list (`Nested`); that all
upstreams before the innermost one's place have been asked, in order and in
vain, and that each `first_error` is the first of its part of the replies
(`Replied`); what an accepted answer, and a call that is over, have come to (`Succeeded`,
`Exhausting`); and what the replies say of what was heard (`Heard`). `FirstErrorJoin`
is the reason why the nesting does not matter: the first error of two parts is
that of the first one which has any. Results: `FallthroughTypeCorrect`,
`FallthroughInvariant`, `FallthroughResultJustified`, `FallthroughImplementsOrder`.

**Only model-checked:** the liveness properties, which with fairness and ENABLED
are out of the prover's reach: `LockFree`, `Answered`, `SilenceIsLocal`,
`ThreadsComeBack`, `BodiesEnd`, `StopsForGood`, `ServesOrEnds`, `SignalEnds`. Every
safety property of the passing runs is proved. The four violated ones are
shown by TLC's counterexamples.

## 6. Not modelled

- The metrics exporter: the set-up of a library and its rendering; its upkeep
  loop is an action of `Startup`.
- Matching of paths against patterns, inside the `path-tree` crate, and which of
  two patterns of the same shape survives (`cache.rs:326`, in the order of a
  `HashMap`): `Routing` takes the ranking as a constant.
- Parsing of the configuration (serde, figment), logging.
- Redirects, connection pools and timeouts of reqwest, retries and credentials
  of the S3 SDK: the models have their outcomes, and an upstream that keeps
  silent.
- The optional `server3-` headers of a response (outcome, expiry, node name), which
  the server itself never reads.
- The clamping of the limits on macOS inside the `rlimit` crate.
- The panic of a `max_age` beyond the range of `Instant` (`cache.rs:172`), which
  ends one request before it touches anything.
- The test-support crate, which is a harness.

## 7. Plan

- `Cache` with `BodyStream`: descriptors held by bodies of evicted resources,
  against the reserve of `min_non_cache_files` that `Startup` sets aside.
- The safety part of `Answered` for any number of requests: that waiting has no
  cycle, because the holder of the list's mutex waits for nobody, the holder of a
  permit for the upstream or the mutex, and everybody else for one of these.
