------------------------------- MODULE Cache -------------------------------
(***************************************************************************)
(* CacheStorage and Cache::get of src/cache.rs: concurrent requests that   *)
(* share an LRU list of once-initialized cells, a pool of disk capacity    *)
(* and the temporary files that hold the cached resources.                 *)
(*                                                                         *)
(* A request runs Cache::get once.  It names what it creates: the cell it  *)
(* puts in the list at lookup and the resource it fetches (whose `id` is   *)
(* the request's own init_id) both carry the name of the request.          *)
(*                                                                         *)
(* A step runs from one point where other tasks or threads can act to the  *)
(* next: an await, the release of the list's mutex, a pool operation.  A   *)
(* pool operation is one step here; CapacityPool shows that its code       *)
(* behaves as if it were.                                                  *)
(***************************************************************************)
EXTENDS Integers, Sequences, SequencesExt, FiniteSets, ByteTotals

CONSTANTS
    Requests,
    Keys,           \* CachedResourceKeys: a host and a path
    Rules,          \* Rules[k]: what match_route may find for the key; two
                    \* caches of the same name may differ
    Sizes,          \* sizes of upstream bodies, in bytes
    Capacity,       \* max_disk_capacity
    MaxCacheFiles,  \* capacity of the LruCache
    MaxTime,        \* bound on the clock
    None

Policies == {"for", "forever", "never", "disabled"}

\* CacheRouteRule, with the duration of a "for" rule.
CacheRouteRules == [policy : Policies, max_age : Nat \ {0}]

ASSUME CacheAssumption ==
    /\ IsFiniteSet(Requests) /\ None \notin Requests \cup Keys /\ None \notin Nat
    /\ Rules \in [Keys -> SUBSET CacheRouteRules]
    /\ Sizes \subseteq Nat /\ Capacity \in Nat
    /\ MaxCacheFiles \in Nat \ {0} /\ MaxTime \in Nat

VARIABLES
    clock,      \* Instant::now()
    pc,         \* pc[q]: where request q is
    key,        \* key[q]: its cache_key
    rule,       \* rule[q]: its rule
    started,    \* started[q]: its `now`
    cellOf,     \* cellOf[q]: the Arc<OnceCell> it holds
    value,      \* value[c]: the resource in cell c
    lru,        \* cached_resources, least recently used cell first
    size,       \* size[q]: bytes q has written to its temporary file
    available,  \* the pool's available_capacity
    reserved,   \* reserved[r]: bytes of the pool that resource r holds
    published,  \* published[r]: when r was put in its cell
    answer,     \* answer[q]: what the call of q came to
    served,     \* served[q]: the resource whose file q's body reads
    counted,    \* counted[q]: outcome counters q has incremented
    evicted,    \* resources added to cache_eviction_count
    diskFiles,  \* the gauge cache_disk_file_count
    diskBytes   \* the gauge cache_disk_bytes

pool == <<available, reserved>>
gauges == <<diskFiles, diskBytes>>
replies == <<answer, served>>
store == <<value, available, reserved, diskFiles, diskBytes>>
request == <<key, rule, started>>
vars == <<clock, pc, request, cellOf, store, lru, size, published, replies,
          counted, evicted>>

\* Requests inside the closure given to get_or_try_init: each has the
\* permit of its cell.
Initializing == {"fetch", "copy", "reserve", "want_lock", "evict", "retry",
                 "up_to", "publish"}

\* Requests that hold the mutex of cached_resources across steps.
Evicting == {"evict", "retry", "up_to"}

Outcomes == {"miss", "hit", "never", "error", "not_found", "unrouted"}

Answers == {"body", "not_found", "error", "file_error", "dropped"}

TypeOK ==
    /\ clock \in 0..MaxTime
    /\ pc \in [Requests -> {"idle", "lookup", "proxy", "cell", "clone", "stream",
                           "done"} \cup Initializing]
    /\ key \in [Requests -> Keys \cup {None}]
    /\ rule \in [Requests -> CacheRouteRules \cup {None}]
    /\ started \in [Requests -> 0..MaxTime]
    /\ cellOf \in [Requests -> Requests \cup {None}]
    /\ value \in [Requests -> Requests \cup {None}]
    /\ lru \in Seq(Requests)
    /\ size \in [Requests -> Nat]
    /\ available \in Nat
    /\ reserved \in [Requests -> Nat]
    /\ published \in [Requests -> 0..MaxTime \cup {None}]
    /\ answer \in [Requests -> Answers \cup {"pending"}]
    /\ served \in [Requests -> Requests \cup {None}]
    /\ counted \in [Requests -> SUBSET Outcomes]
    /\ evicted \subseteq Requests
    /\ diskFiles \in Int /\ diskBytes \in Int

Init ==
    /\ clock = 0
    /\ pc = [q \in Requests |-> "idle"]
    /\ key = [q \in Requests |-> None]
    /\ rule = [q \in Requests |-> None]
    /\ started = [q \in Requests |-> 0]
    /\ cellOf = [q \in Requests |-> None]
    /\ value = [c \in Requests |-> None]
    /\ lru = <<>>
    /\ size = [q \in Requests |-> 0]
    /\ available = Capacity
    /\ reserved = [r \in Requests |-> 0]
    /\ published = [r \in Requests |-> None]
    /\ answer = [q \in Requests |-> "pending"]
    /\ served = [q \in Requests |-> None]
    /\ counted = [q \in Requests |-> {}]
    /\ evicted = {}
    /\ diskFiles = 0 /\ diskBytes = 0

-----------------------------------------------------------------------------
(* What a step is made of.                                                 *)

ListIsFree == \A p \in Requests : pc[p] \notin Evicting

\* Mutant of Expired: a resource lives from its publication on.
ExpiredSincePublished(r, now) ==
    /\ rule[r].policy = "for"
    /\ published[r] + rule[r].max_age <= now

\* CachedResource::is_expired, with the expires_at that the request which
\* fetched r computed from its own `now`.
Expired(r, now) ==
    /\ rule[r].policy = "for"
    /\ started[r] + rule[r].max_age <= now

\* Mutant of Release: the evicted resource goes although requests hold its cell.
ReleaseNow(c) ==
    LET r == value[c] IN
    IF c \in ToSet(lru') \/ r = None
    THEN UNCHANGED store
    ELSE /\ value' = [value EXCEPT ![c] = None]
         /\ available' = available + reserved[r]
         /\ reserved' = [reserved EXCEPT ![r] = 0]
         /\ diskFiles' = diskFiles - 1
         /\ diskBytes' = diskBytes - size[r]

\* Mutant of Release: nothing is done when the resource is dropped.
ReleaseForgets(c) ==
    /\ IF c \in ToSet(lru') \/ \E p \in Requests : cellOf'[p] = c
       THEN UNCHANGED value
       ELSE value' = [value EXCEPT ![c] = None]
    /\ UNCHANGED <<available, reserved, diskFiles, diskBytes>>

\* Mutant of Release: the file's size goes back to the pool, and not what was
\* reserved for it.
ReleaseSize(c) ==
    LET r == value[c] IN
    IF c \in ToSet(lru') \/ r = None \/ \E p \in Requests : cellOf'[p] = c
    THEN UNCHANGED store
    ELSE /\ value' = [value EXCEPT ![c] = None]
         /\ available' = available + size[r]
         /\ reserved' = [reserved EXCEPT ![r] = 0]
         /\ diskFiles' = diskFiles - 1
         /\ diskBytes' = diskBytes - size[r]

\* This step may have dropped the last Arc to cell c: then the resource in it
\* is dropped too, its file closed and its reservation returned.
Release(c) ==
    IF c \in ToSet(lru') \/ \E p \in Requests : cellOf'[p] = c
    THEN UNCHANGED store
    ELSE LET r == value[c] IN
         IF r = None
         THEN UNCHANGED store
         ELSE /\ value' = [value EXCEPT ![c] = None]
              /\ available' = available + reserved[r]
              /\ reserved' = [reserved EXCEPT ![r] = 0]
              /\ diskFiles' = diskFiles - 1
              /\ diskBytes' = diskBytes - size[r]

\* Mutant of HitOrMiss: the branches are swapped.
MissOrHit(q, r) == IF r = q THEN "hit" ELSE "miss"

\* Cache::get compares the id in the cell with its own init_id.
HitOrMiss(q, r) == IF r = q THEN "miss" ELSE "hit"

Goto(q, label) == pc' = [pc EXCEPT ![q] = label]

Count(q, outcome) == counted' = [counted EXCEPT ![q] = @ \cup {outcome}]

Answer(q, a) == answer' = [answer EXCEPT ![q] = a]

\* q's call ends with an error, with nothing, or because its future is
\* dropped: it lets go of its cell, and of the cell's permit.
GiveUp(q, a) ==
    /\ Goto(q, "done") /\ Answer(q, a)
    /\ cellOf' = [cellOf EXCEPT ![q] = None]
    /\ IF cellOf[q] = None
       THEN UNCHANGED <<store, lru>>
       ELSE UNCHANGED lru /\ Release(cellOf[q])
    /\ UNCHANGED <<clock, request, size, published, served, evicted>>

-----------------------------------------------------------------------------
(* Cache::get, to the lookup.                                              *)

Arrive(q) ==
    /\ pc[q] = "idle"
    /\ \E k \in Keys : \E r \in Rules[k] :
          /\ key' = [key EXCEPT ![q] = k]
          /\ rule' = [rule EXCEPT ![q] = r]
          /\ started' = [started EXCEPT ![q] = clock]
          /\ CASE r.policy = "disabled" ->
                    Goto(q, "done") /\ Count(q, "unrouted") /\ Answer(q, "not_found")
               [] r.policy = "never" ->
                    Goto(q, "proxy") /\ Count(q, "never") /\ UNCHANGED answer
               [] OTHER ->
                    Goto(q, "lookup") /\ UNCHANGED <<counted, answer>>
    /\ UNCHANGED <<clock, cellOf, store, lru, size, published, served, evicted>>

\* The upstream answers a request that is never cached: a body to pass on,
\* "not found" or an error.
ProxyReply(q) ==
    /\ pc[q] = "proxy"
    /\ \E a \in {"body", "not_found", "error"} : GiveUp(q, a)
    /\ UNCHANGED counted

CanLookup(q) == pc[q] = "lookup" /\ ListIsFree

\* Where q's key is in the list, if it is there (get_or_insert_mut_ref).
Places(q) == {i \in DOMAIN lru : key[lru[i]] = key[q]}

\* The list with its i-th cell taken out and cell c most recently used.
Reuse(i, c) == Append(RemoveAt(lru, i), c)

\* Mutant of LookupHit: no check of the expiry.
LookupAny(q) ==
    /\ CanLookup(q)
    /\ \E i \in Places(q) :
          LET c == lru[i] IN
          /\ value[c] # None
          /\ lru' = Reuse(i, c)
          /\ cellOf' = [cellOf EXCEPT ![q] = c]
          /\ Count(q, HitOrMiss(q, value[c]))
    /\ Goto(q, "clone")
    /\ UNCHANGED <<clock, request, store, size, published, replies, evicted>>

\* A cell with a resource that is not expired: q is answered from it, and the
\* cell becomes the most recently used one.
LookupHit(q) ==
    /\ CanLookup(q)
    /\ \E i \in Places(q) :
          LET c == lru[i] IN
          /\ value[c] # None /\ ~Expired(value[c], started[q])
          /\ lru' = Reuse(i, c)
          /\ cellOf' = [cellOf EXCEPT ![q] = c]
          /\ Count(q, HitOrMiss(q, value[c]))
    /\ Goto(q, "clone")
    /\ UNCHANGED <<clock, request, store, size, published, replies, evicted>>

\* A cell another request may be filling.
LookupPending(q) ==
    /\ CanLookup(q)
    /\ \E i \in Places(q) :
          LET c == lru[i] IN
          /\ value[c] = None
          /\ lru' = Reuse(i, c)
          /\ cellOf' = [cellOf EXCEPT ![q] = c]
    /\ Goto(q, "cell")
    /\ UNCHANGED <<clock, request, store, size, published, replies, counted, evicted>>

\* A cell whose resource has expired is replaced by an empty one.
LookupExpired(q) ==
    /\ CanLookup(q)
    /\ \E i \in Places(q) :
          LET c == lru[i] IN
          /\ value[c] # None /\ Expired(value[c], started[q])
          /\ lru' = Reuse(i, q)
          /\ cellOf' = [cellOf EXCEPT ![q] = q]
          /\ Release(c)
    /\ Goto(q, "cell")
    /\ UNCHANGED <<clock, request, size, published, replies, counted, evicted>>

\* Mutant of LookupAbsent: the list is full one cell too late.
InsertLate(q) ==
    /\ CanLookup(q) /\ Places(q) = {}
    /\ cellOf' = [cellOf EXCEPT ![q] = q]
    /\ IF Len(lru) <= MaxCacheFiles
       THEN lru' = Append(lru, q) /\ UNCHANGED store
       ELSE lru' = Append(Tail(lru), q) /\ Release(Head(lru))
    /\ Goto(q, "cell")
    /\ UNCHANGED <<clock, request, size, published, replies, counted, evicted>>

\* An empty cell is inserted; a full LruCache drops its least recently used
\* entry by itself.
LookupAbsent(q) ==
    /\ CanLookup(q) /\ Places(q) = {}
    /\ cellOf' = [cellOf EXCEPT ![q] = q]
    /\ IF Len(lru) < MaxCacheFiles
       THEN lru' = Append(lru, q) /\ UNCHANGED store
       ELSE lru' = Append(Tail(lru), q) /\ Release(Head(lru))
    /\ Goto(q, "cell")
    /\ UNCHANGED <<clock, request, size, published, replies, counted, evicted>>

-----------------------------------------------------------------------------
(* get_or_try_init.                                                        *)

\* The cell was filled while q was waiting for it.
ReadCell(q) ==
    /\ pc[q] = "cell" /\ value[cellOf[q]] # None
    /\ Count(q, HitOrMiss(q, value[cellOf[q]]))
    /\ Goto(q, "clone")
    /\ UNCHANGED <<clock, request, cellOf, store, lru, size, published, replies, evicted>>

\* Mutant of BeginInit: the cell has no permit.
BeginFreely(q) ==
    /\ pc[q] = "cell" /\ value[cellOf[q]] = None
    /\ Goto(q, "fetch")
    /\ UNCHANGED <<clock, request, cellOf, store, lru, size, published, replies,
                   counted, evicted>>

\* Mutant of BeginInit: one permit for all the cells.
BeginAlone(q) ==
    /\ pc[q] = "cell" /\ value[cellOf[q]] = None
    /\ \A p \in Requests : pc[p] \notin Initializing
    /\ Goto(q, "fetch")
    /\ UNCHANGED <<clock, request, cellOf, store, lru, size, published, replies,
                   counted, evicted>>

\* q gets the cell's permit and calls the upstream.
BeginInit(q) ==
    /\ pc[q] = "cell" /\ value[cellOf[q]] = None
    /\ \A p \in Requests : pc[p] \in Initializing => cellOf[p] # cellOf[q]
    /\ Goto(q, "fetch")
    /\ UNCHANGED <<clock, request, cellOf, store, lru, size, published, replies,
                   counted, evicted>>

FetchOk(q) ==
    /\ pc[q] = "fetch"
    /\ Goto(q, "copy")
    /\ UNCHANGED <<clock, request, cellOf, store, lru, size, published, replies,
                   counted, evicted>>

\* The upstream has no such resource, or cannot be asked.  The next waiter
\* for the cell tries again.
FetchFail(q) ==
    /\ pc[q] = "fetch"
    /\ \E outcome \in {"not_found", "error"} :
          Count(q, outcome) /\ GiveUp(q, outcome)

\* The body is in the temporary file.
CopyDone(q) ==
    /\ pc[q] = "copy"
    /\ \E n \in Sizes : size' = [size EXCEPT ![q] = n]
    /\ Goto(q, "reserve")
    /\ UNCHANGED <<clock, request, cellOf, store, lru, published, replies,
                   counted, evicted>>

\* No temporary file, or the body breaks off, or the file cannot be written.
CopyFail(q) ==
    /\ pc[q] = "copy"
    /\ Count(q, "error")
    /\ GiveUp(q, "error")

-----------------------------------------------------------------------------
(* create_cached_resource: capacity for the file.                          *)

Grant(q, n) ==
    /\ available' = available - n
    /\ reserved' = [reserved EXCEPT ![q] = n]
    /\ Goto(q, "publish")

\* pool.reserve(size); when it is refused, q goes to `otherwise`.
TryReserve(q, otherwise) ==
    /\ IF size[q] <= available
       THEN Grant(q, size[q])
       ELSE Goto(q, otherwise) /\ UNCHANGED pool
    /\ UNCHANGED <<clock, request, cellOf, value, gauges, lru, size, published,
                   replies, counted, evicted>>

\* The first attempt is made without the list's mutex.
Reserve(q) == pc[q] = "reserve" /\ TryReserve(q, "want_lock")

TakeLock(q) ==
    /\ pc[q] = "want_lock" /\ ListIsFree
    /\ Goto(q, "evict")
    /\ UNCHANGED <<clock, request, cellOf, store, lru, size, published, replies,
                   counted, evicted>>

\* Mutant of Evict: the least recently used entry is looked at, and stays.
PeekLru(q) ==
    /\ pc[q] = "evict" /\ lru # <<>>
    /\ evicted' = evicted \cup ({value[Head(lru)]} \ {None})
    /\ Goto(q, "retry")
    /\ UNCHANGED <<clock, request, cellOf, store, lru, size, published, replies,
                   counted>>

\* pop_lru, the eviction counters, and the drop of the popped cell.
Evict(q) ==
    /\ pc[q] = "evict" /\ lru # <<>>
    /\ LET c == Head(lru) IN
          /\ lru' = Tail(lru)
          /\ evicted' = evicted \cup ({value[c]} \ {None})
          /\ UNCHANGED cellOf
          /\ Release(c)
    /\ Goto(q, "retry")
    /\ UNCHANGED <<clock, request, size, published, replies, counted>>

\* Later attempts are made with the mutex held; success lets it go.
Retry(q) == pc[q] = "retry" /\ TryReserve(q, "evict")

\* Mutant of NothingToEvict: q settles for less while there is more to evict.
StopEvicting(q) ==
    /\ pc[q] = "evict"
    /\ Goto(q, "up_to")
    /\ UNCHANGED <<clock, request, cellOf, store, lru, size, published, replies,
                   counted, evicted>>

NothingToEvict(q) ==
    /\ pc[q] = "evict" /\ lru = <<>>
    /\ Goto(q, "up_to")
    /\ UNCHANGED <<clock, request, cellOf, store, lru, size, published, replies,
                   counted, evicted>>

\* Mutant of ReserveUpTo: no limit to what there is.
ReserveAll(q) ==
    /\ pc[q] = "up_to"
    /\ Grant(q, size[q])
    /\ UNCHANGED <<clock, request, cellOf, value, gauges, lru, size, published,
                   replies, counted, evicted>>

\* The file is written already: take what there is and carry on.
ReserveUpTo(q) ==
    /\ pc[q] = "up_to"
    /\ Grant(q, IF size[q] <= available THEN size[q] ELSE available)
    /\ UNCHANGED <<clock, request, cellOf, value, gauges, lru, size, published,
                   replies, counted, evicted>>

-----------------------------------------------------------------------------
(* The resource is complete.                                               *)

\* The gauges, the CachedResource, the cell's value, and back in Cache::get
\* the outcome.
Publish(q) ==
    /\ pc[q] = "publish"
    /\ value' = [value EXCEPT ![cellOf[q]] = q]
    /\ diskFiles' = diskFiles + 1
    /\ diskBytes' = diskBytes + size[q]
    /\ published' = [published EXCEPT ![q] = clock]
    /\ Count(q, HitOrMiss(q, q))
    /\ Goto(q, "clone")
    /\ UNCHANGED <<clock, request, cellOf, pool, lru, size, replies, evicted>>

\* body_from_cached_resource duplicates the file; the response is returned
\* and q's Arcs are dropped.  From here on the body reads the duplicate.
CloneOk(q) ==
    /\ pc[q] = "clone"
    /\ Goto(q, "stream") /\ Answer(q, "body")
    /\ served' = [served EXCEPT ![q] = value[cellOf[q]]]
    /\ cellOf' = [cellOf EXCEPT ![q] = None]
    /\ UNCHANGED lru /\ Release(cellOf[q])
    /\ UNCHANGED <<clock, request, size, published, counted, evicted>>

\* No file descriptor is left: an error, after the outcome was counted.
CloneFail(q) ==
    /\ pc[q] = "clone"
    /\ GiveUp(q, "file_error") /\ UNCHANGED counted

\* The reader reaches the end of the file, or its client is gone.
StreamEnd(q) ==
    /\ pc[q] = "stream"
    /\ Goto(q, "done")
    /\ UNCHANGED <<clock, request, cellOf, store, lru, size, published, replies,
                   counted, evicted>>

\* The client goes away and the request's future is dropped at an await.
Cancel(q) ==
    /\ pc[q] \in {"lookup", "proxy", "cell", "fetch", "copy", "want_lock", "clone"}
    /\ GiveUp(q, "dropped") /\ UNCHANGED counted

Tick ==
    /\ clock < MaxTime
    /\ clock' = clock + 1
    /\ UNCHANGED <<pc, request, cellOf, store, lru, size, published, replies,
                   counted, evicted>>

\* Every request has been dealt with: the server waits for more.
Quiet ==
    /\ \A q \in Requests : pc[q] = "done"
    /\ UNCHANGED vars

\* The steps of a request that has arrived, up to its answer.
Step(q) ==
    \/ ProxyReply(q)
    \/ LookupHit(q) \/ LookupPending(q) \/ LookupExpired(q) \/ LookupAbsent(q)
    \/ ReadCell(q) \/ BeginInit(q) \/ FetchOk(q) \/ FetchFail(q)
    \/ CopyDone(q) \/ CopyFail(q)
    \/ Reserve(q) \/ TakeLock(q) \/ Evict(q) \/ Retry(q) \/ NothingToEvict(q)
    \/ ReserveUpTo(q) \/ Publish(q) \/ CloneOk(q) \/ CloneFail(q)

Next ==
    \/ \E q \in Requests : Arrive(q) \/ Step(q) \/ StreamEnd(q) \/ Cancel(q)
    \/ Tick
    \/ Quiet

Spec == Init /\ [][Next]_vars

\* Requests that the upstream keeps waiting: for its answer, or for the body.
AtUpstream == {"proxy", "fetch", "copy"}

\* The runtime keeps polling a request that has arrived.  Nobody has to arrive,
\* to read, or to leave, and an upstream may keep silent.
FairSpec == Spec /\ \A q \in Requests : WF_vars(Step(q) /\ pc[q] \notin AtUpstream)

\* It answers or fails in the end, as it does with the timeouts configured.
UpstreamAnswers == \A q \in Requests : WF_vars(Step(q) /\ pc[q] \in AtUpstream)

-----------------------------------------------------------------------------
(* The inductive invariant, in parts.                                      *)

\* A request holds a cell from the lookup until it answers.
CellsAreHeld ==
    \A q \in Requests :
        cellOf[q] # None <=> pc[q] \in {"cell", "clone"} \cup Initializing

\* A cell does not exist before the lookup of the request that makes it.
CellsAreFresh ==
    \A c \in Requests : pc[c] \in {"idle", "lookup", "proxy"} =>
        /\ value[c] = None /\ c \notin ToSet(lru)
        /\ \A p \in Requests : cellOf[p] # c

\* A resource lives in one cell, one that the list or a request refers to, and
\* its request is past publishing it.
ValuesAreOwned ==
    /\ \A c \in Requests : value[c] # None =>
          /\ pc[value[c]] \in {"clone", "stream", "done"}
          /\ c \in ToSet(lru) \/ \E p \in Requests : cellOf[p] = c
    /\ \A c, d \in Requests : value[c] # None /\ value[c] = value[d] => c = d

\* The permit of a cell has one holder, and only while the cell is empty.
PermitsAreExclusive ==
    \A q \in Requests : pc[q] \in Initializing =>
        /\ value[cellOf[q]] = None
        /\ \A p \in Requests : pc[p] \in Initializing /\ cellOf[p] = cellOf[q] => p = q

\* One request at a time holds the mutex of the list; it asks for less than
\* its size only when it has emptied the list.
MutexIsExclusive ==
    /\ \A p, q \in Requests : pc[p] \in Evicting /\ pc[q] \in Evicting => p = q
    /\ \A q \in Requests : pc[q] = "up_to" => lru = <<>>

\* What is in the list, or about to be filled while in the list, has all of
\* its bytes reserved.
ListIsReserved ==
    /\ \A c \in ToSet(lru) : value[c] # None => reserved[value[c]] = size[value[c]]
    /\ \A q \in Requests : pc[q] = "publish" /\ cellOf[q] \in ToSet(lru) =>
          reserved[q] = size[q]

\* Cells hold resources of their own key, and requests cells of theirs.
KeysAgree ==
    \A c \in Requests :
        /\ value[c] # None => key[value[c]] = key[c]
        /\ cellOf[c] # None => key[cellOf[c]] = key[c]

-----------------------------------------------------------------------------
(* Properties.                                                             *)

\* The resources that exist, and those the cache would answer from.
Live == {value[c] : c \in Requests} \ {None}
Cached == {value[c] : c \in ToSet(lru)} \ {None}

\* Bytes of the pool are neither lost nor handed out twice, whichever way
\* resources are replaced, evicted, dropped late or never completed: every
\* reservation comes back with the last Arc (cache.rs:460-509, 599-604, 717).
Conservation == available + TotalBytes(reserved, Requests) = Capacity

\* The files of the cached resources fit in max_disk_capacity, although a
\* resource may be given less than its size (reserve_up_to, cache.rs:483):
\* only after its own cell has been popped.
CacheFits == TotalBytes(size, Cached) <= Capacity

\* A reservation is held by a live resource or by one about to be published;
\* errors, evictions and dropped futures leave none behind (cache.rs:590).
NoReservationLeaks ==
    \A r \in Requests : reserved[r] > 0 => r \in Live \/ pc[r] = "publish"

\* The pool's method that a request is in, as the pool's users see it: `reserve`
\* is repeated while there is more to evict.
PoolCall ==
    [q \in Requests |->
        IF pc[q] = "up_to" THEN "reserve_up_to"
        ELSE IF pc[q] \in {"reserve", "retry"} \/ (pc[q] = "evict" /\ lru # <<>>)
        THEN "reserve" ELSE "none"]

PoolWant == [q \in Requests |-> IF PoolCall[q] = "none" THEN 0 ELSE size[q]]

Ledger == INSTANCE CapacityLedger WITH
    Owners <- Requests, op <- PoolCall, want <- PoolWant

\* The cache uses the pool that CapacityPool implements, and as one may: it
\* asks with the size of a body, for what holds nothing yet, and gives each
\* reservation back once and whole (cache.rs:460-509, 599-604).
UsesLedger == Ledger!Spec

\* The disk gauges count the live resources and their bytes, each once, from
\* cache.rs:511-512 to the drop at 599-604.
GaugesExact ==
    /\ diskFiles = Cardinality(Live)
    /\ diskBytes = TotalBytes(size, Live)

\* The list has one cell per key and at most max_cache_files of them, through
\* promotion, replacement, insertion and eviction (cache.rs:184-194, 477).
ListWellFormed ==
    /\ Len(lru) <= MaxCacheFiles
    /\ \A i, j \in 1..Len(lru) : i # j => key[lru[i]] # key[lru[j]]

\* Requests for one key share one upstream call: two of them fetch at once
\* only when the cell of one has left the list (cache.rs:195-227).
SingleFlight ==
    \A p, q \in Requests :
        /\ p # q /\ key[p] = key[q]
        /\ pc[p] \in Initializing /\ pc[q] \in Initializing
        => /\ cellOf[p] # cellOf[q]
           /\ ~ {cellOf[p], cellOf[q]} \subseteq ToSet(lru)

\* A resource that a request is about to answer from cannot be dropped under
\* it by an eviction or a replacement, and is the one asked for
\* (cache.rs:193, 242, 257).
HeldStaysLive ==
    \A q \in Requests : pc[q] = "clone" =>
        /\ value[cellOf[q]] # None
        /\ key[value[cellOf[q]]] = key[q]

\* What the proofs rest on.
StructureInv ==
    /\ CellsAreHeld /\ CellsAreFresh /\ ValuesAreOwned /\ PermitsAreExclusive
    /\ MutexIsExclusive /\ NoReservationLeaks /\ ListIsReserved /\ KeysAgree
    /\ HeldStaysLive

\* How old an answer can be: a resource that was not expired when the request
\* arrived, or one that was fetched while it waited (cache.rs:189, 594).
BoundedStaleness ==
    \A q \in Requests : served[q] # None =>
        \/ ~Expired(served[q], started[q])
        \/ published[served[q]] >= started[q]

\* The request that got what q is answered with: q itself if it is not shared.
Result ==
    [q \in Requests |-> IF answer[q] # "body" THEN None
                        ELSE IF served[q] = None THEN q ELSE served[q]]

Service == INSTANCE CacheService WITH result <- Result

\* The list, the cells and the waiting for them, eviction and replacement are
\* invisible: a request is answered with what some request for the same key
\* got from the upstream, and with nothing staler than said above
\* (cache.rs:143-272).
ImplementsService == Service!Spec

\* Each answered request is in one outcome counter, chosen by its rule and by
\* who filled the cell: "never" whatever came of it, the upstream's failure, a
\* miss for the request that published what it read, and else a hit.  A file
\* that cannot be duplicated is counted as the miss or the hit that it was not
\* (cache.rs:165-181, 229-257).
CountedByRuleAndCell ==
    \A q \in Requests : answer[q] \notin {"pending", "dropped"} =>
        \/ rule[q].policy = "disabled" /\ counted[q] = {"unrouted"}
        \/ rule[q].policy = "never" /\ counted[q] = {"never"}
        \/ /\ rule[q].policy \in {"for", "forever"}
           /\ \/ answer[q] \in {"error", "not_found"} /\ counted[q] = {answer[q]}
              \/ /\ answer[q] \in {"body", "file_error"}
                 /\ counted[q] = IF published[q] # None THEN {"miss"} ELSE {"hit"}

\* The requests are interchangeable: what holds for any one holds for each.
AnyRequest == CHOOSE q \in Requests : TRUE

\* Every request that arrives is answered or dropped, if the upstream answers:
\* waiting for the permit of a cell, for the mutex and for space to be evicted
\* all come to an end (cache.rs:184-227, 462-509).
Answered == UpstreamAnswers => pc[AnyRequest] # "idle" ~> answer[AnyRequest] # "pending"

\* q is at the upstream, or waits for the cell of a request for its key that is.
AwaitsUpstream(q) ==
    \/ pc[q] \in AtUpstream
    \/ /\ pc[q] = "cell"
       /\ \E p \in Requests : cellOf[p] = cellOf[q] /\ pc[p] \in {"fetch", "copy"}

\* A silent upstream keeps none waiting but the requests for the same key: it
\* never holds up the list, its mutex or the eviction of what others fetched
\* (cache.rs:185, 195-199, 458, 473; upstream/http.rs:19-29).
SilenceIsLocal ==
    pc[AnyRequest] # "idle" ~> (answer[AnyRequest] # "pending") \/ AwaitsUpstream(AnyRequest)

-----------------------------------------------------------------------------
(* What the documentation says, and the code does not do.                  *)

\* README.md:56, eviction_count: "resources evicted from the cache".
EvictionsAreCounted ==
    [][\A c \in ToSet(lru) :
          /\ value[c] # None
          /\ \A d \in ToSet(lru') : key[d] # key[c]
          => value[c] \in evicted']_vars

\* config.rs:207-208, max_age: "how long a cached resource is valid before
\* it's considered stale and needs to be refetched".
NeverServedStale ==
    \A q \in Requests : served[q] # None => ~Expired(served[q], started[q])
=============================================================================
