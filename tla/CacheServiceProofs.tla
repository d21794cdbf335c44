------------------------ MODULE CacheServiceProofs ------------------------
(***************************************************************************)
(* Proofs about what Cache does for its callers, from the invariant of     *)
(* CacheProofs: how old an answer can be, that Cache implements            *)
(* CacheService, and that the counters and gauges tell the truth.          *)
(***************************************************************************)
EXTENDS CacheProofs, FiniteSetTheorems

Lasting == {"for", "forever"}

\* Where a request is on its way to a shared resource.
Sharing == {"lookup", "cell", "clone"} \cup Initializing

\* r was not expired when q arrived, or was fetched after that.
FreshFor(r, q) == ~Expired(r, started[q]) \/ published[r] >= started[q]

\* A call has no answer before it ends, and its rule decides its way.
CallsProceed ==
    \A q \in Requests :
        /\ pc[q] = "idle" <=> key[q] = None
        /\ key[q] # None => rule[q] \in CacheRouteRules
        /\ pc[q] \notin {"stream", "done"} => answer[q] = "pending" /\ served[q] = None
        /\ pc[q] = "proxy" => rule[q].policy = "never"
        /\ pc[q] \in Sharing => rule[q].policy \in Lasting
        /\ started[q] <= clock

\* What is in a cell was published, and only by a request past publishing.
CellsArePublished ==
    /\ \A r \in Requests : published[r] # None =>
          pc[r] \in {"clone", "stream", "done"} /\ rule[r].policy \in Lasting
    /\ \A c \in Requests : value[c] # None => published[value[c]] # None

\* A request that holds a cell finds nothing stale in it.
CellsAreFreshEnough ==
    \A q \in Requests : cellOf[q] # None =>
        (value[cellOf[q]] # None => FreshFor(value[cellOf[q]], q))

\* Nor has it been answered with something stale, or of another key.
AnswersAreFresh ==
    \A q \in Requests : served[q] # None =>
        /\ published[served[q]] # None /\ key[served[q]] = key[q]
        /\ FreshFor(served[q], q)

ServiceInv ==
    CallsProceed /\ CellsArePublished /\ CellsAreFreshEnough /\ AnswersAreFresh
-----------------------------------------------------------------------------
(* The invariant.                                                          *)

\* The drop of a cell empties it at most.
LEMMA ReleaseEmpties ==
    ASSUME TypeOK, NEW c \in Requests, Release(c)
    PROVE  \A d \in Requests : value'[d] = value[d] \/ value'[d] = None
<1>1. value' = value \/ value' = [value EXCEPT ![c] = None]
  BY DEF Release, store
<1> QED
  BY <1>1 DEF TypeOK

\* A request goes from pc[q] to l, on its way to an answer or to its end; it
\* may let go of its cell, or take one with nothing in it that is stale.
Proceeds(q, l) ==
    /\ pc[q] # "idle" /\ l \in Sharing \cup {"stream", "done"}
    /\ pc' = [pc EXCEPT ![q] = l]
    /\ l \in Sharing => pc[q] \in Sharing /\ UNCHANGED replies
    /\ pc[q] \in {"clone", "stream", "done"} => l \in {"clone", "stream", "done"}
    /\ UNCHANGED <<clock, request, published>>
    /\ \A p \in Requests : p # q => answer'[p] = answer[p] /\ served'[p] = served[p]
    /\ served'[q] = served[q] \/ (pc[q] = "clone" /\ served'[q] = value[cellOf[q]])
    /\ \A c \in Requests : value'[c] = value[c] \/ value'[c] = None
    /\ \A p \in Requests :
          \/ cellOf'[p] \in {cellOf[p], None}
          \/ value'[cellOf'[p]] = None
          \/ ~Expired(value'[cellOf'[p]], started[p])

\* Such a request keeps the invariant.
LEMMA ProceedsStep ==
    ASSUME Inv, ServiceInv, TypeOK', NEW q \in Requests, NEW l, Proceeds(q, l)
    PROVE  ServiceInv'
<1> USE DEF Inv, ServiceInv
<1>1. /\ pc'[q] = l /\ \A p \in Requests : p # q => pc'[p] = pc[p]
      /\ pc' \in [Requests -> {"idle", "lookup", "proxy", "cell", "clone", "stream",
                               "done"} \cup Initializing]
  BY DEF Proceeds, TypeOK
<1>2. /\ clock' = clock /\ key' = key /\ rule' = rule /\ started' = started
      /\ published' = published
  BY DEF Proceeds, request
<1>3. l \notin {"idle", "proxy"} /\ "stream" \notin Sharing /\ "done" \notin Sharing
  BY DEF Proceeds, Sharing, Initializing
<1>4. \A p \in Requests : pc'[p] \notin {"stream", "done"} =>
          answer'[p] = answer[p] /\ served'[p] = served[p]
  BY <1>1 DEF Proceeds, replies
<1>5. \A p \in Requests : pc'[p] \notin {"stream", "done"} => pc[p] \notin {"stream", "done"}
  BY <1>1, <1>3 DEF Proceeds
<1>6. CallsProceed'
  <2>1. \A p \in Requests : pc'[p] = "idle" <=> key'[p] = None
    BY <1>1, <1>2, <1>3 DEF CallsProceed, Proceeds
  <2>2. \A p \in Requests : pc'[p] \notin {"stream", "done"} =>
            answer'[p] = "pending" /\ served'[p] = None
    BY <1>4, <1>5 DEF CallsProceed
  <2>3. \A p \in Requests : pc'[p] = "proxy" => rule'[p].policy = "never"
    BY <1>1, <1>2, <1>3 DEF CallsProceed
  <2>4. \A p \in Requests : pc'[p] \in Sharing => rule'[p].policy \in Lasting
    BY <1>1, <1>2 DEF CallsProceed, Proceeds
  <2>5. \A p \in Requests :
            started'[p] <= clock' /\ (key'[p] # None => rule'[p] \in CacheRouteRules)
    BY <1>2 DEF CallsProceed
  <2> QED
    BY <2>1, <2>2, <2>3, <2>4, <2>5 DEF CallsProceed
<1>7. CellsArePublished'
  <2>1. \A r \in Requests : published'[r] # None =>
            pc'[r] \in {"clone", "stream", "done"} /\ rule'[r].policy \in Lasting
    BY <1>1, <1>2 DEF CellsArePublished, Proceeds
  <2>2. \A c \in Requests : value'[c] # None => published'[value'[c]] # None
    BY <1>2 DEF CellsArePublished, Proceeds
  <2> QED
    BY <2>1, <2>2 DEF CellsArePublished
<1>8. CellsAreFreshEnough'
  <2> SUFFICES ASSUME NEW p \in Requests, cellOf'[p] # None,
                      value'[cellOf'[p]] # None
               PROVE  FreshFor(value'[cellOf'[p]], p)
    BY <1>2 DEF CellsAreFreshEnough, FreshFor, Expired
  <2>1. cellOf'[p] \in Requests
    BY DEF TypeOK
  <2>2. CASE cellOf'[p] = cellOf[p]
    <3>1. value'[cellOf[p]] = value[cellOf[p]]
      BY <2>1, <2>2 DEF Proceeds
    <3> QED
      BY <2>2, <3>1 DEF CellsAreFreshEnough
  <2>3. CASE ~Expired(value'[cellOf'[p]], started[p])
    BY <2>3 DEF FreshFor
  <2> QED
    BY <2>2, <2>3 DEF Proceeds
<1>9. AnswersAreFresh'
  <2> SUFFICES ASSUME NEW p \in Requests, served'[p] # None
               PROVE  /\ published[served'[p]] # None
                      /\ key[served'[p]] = key[p]
                      /\ FreshFor(served'[p], p)
    BY <1>2 DEF AnswersAreFresh, FreshFor, Expired
  <2>1. CASE served'[p] = served[p]
    BY <2>1 DEF AnswersAreFresh
  <2>2. CASE p = q /\ pc[q] = "clone" /\ served'[q] = value[cellOf[q]]
    <3>1. cellOf[q] \in Requests /\ cellOf[q] # None
      BY <2>2, HoldsCell
    <3>2. value[cellOf[q]] # None /\ key[value[cellOf[q]]] = key[q]
      BY <2>2 DEF StructureInv, HeldStaysLive
    <3> QED
      BY <2>2, <3>1, <3>2 DEF CellsArePublished, CellsAreFreshEnough
  <2> QED
    BY <2>1, <2>2 DEF Proceeds
<1> QED
  BY <1>6, <1>7, <1>8, <1>9

\* A request arrives for a key, and the key's rule decides its way.
LEMMA ArriveWays ==
    ASSUME NEW q \in Requests, Arrive(q)
    PROVE  \E k \in Keys : \E r \in Rules[k] :
              /\ key' = [key EXCEPT ![q] = k]
              /\ rule' = [rule EXCEPT ![q] = r]
              /\ started' = [started EXCEPT ![q] = clock]
              /\ r \in CacheRouteRules
              /\ \/ /\ r.policy = "disabled"
                    /\ Goto(q, "done") /\ Count(q, "unrouted") /\ Answer(q, "not_found")
                 \/ /\ r.policy = "never"
                    /\ Goto(q, "proxy") /\ Count(q, "never") /\ UNCHANGED answer
                 \/ /\ r.policy \in Lasting
                    /\ Goto(q, "lookup") /\ UNCHANGED <<counted, answer>>
<1>1. PICK k \in Keys, r \in CacheRouteRules :
          /\ r \in Rules[k]
          /\ key' = [key EXCEPT ![q] = k]
          /\ rule' = [rule EXCEPT ![q] = r]
          /\ started' = [started EXCEPT ![q] = clock]
          /\ CASE r.policy = "disabled" ->
                    Goto(q, "done") /\ Count(q, "unrouted") /\ Answer(q, "not_found")
               [] r.policy = "never" ->
                    Goto(q, "proxy") /\ Count(q, "never") /\ UNCHANGED answer
               [] OTHER ->
                    Goto(q, "lookup") /\ UNCHANGED <<counted, answer>>
  BY CacheAssumption DEF Arrive
<1>2. r.policy \in {"for", "forever", "never", "disabled"}
  BY DEF CacheRouteRules, Policies
<1>3. CASE r.policy = "disabled"
  BY <1>1, <1>2, <1>3
<1>4. CASE r.policy = "never"
  BY <1>1, <1>2, <1>4
<1>5. CASE r.policy \in {"for", "forever"}
  BY <1>1, <1>2, <1>5 DEF Lasting
<1> QED
  BY <1>2, <1>3, <1>4, <1>5

\* The arrival of a request.
LEMMA ArriveKeepsService ==
    ASSUME Inv, ServiceInv, NEW q \in Requests, Arrive(q)
    PROVE  ServiceInv'
<1> USE DEF Inv, ServiceInv
<1>1. /\ pc[q] = "idle" /\ key[q] = None
      /\ UNCHANGED <<clock, cellOf, value, published, served>>
  BY DEF Arrive, CallsProceed, store
<1>2. PICK k \in Keys, u \in CacheRouteRules :
          /\ key' = [key EXCEPT ![q] = k]
          /\ rule' = [rule EXCEPT ![q] = u]
          /\ started' = [started EXCEPT ![q] = clock]
          /\ \/ Goto(q, "done") /\ Answer(q, "not_found")
             \/ u.policy = "never" /\ Goto(q, "proxy") /\ UNCHANGED answer
             \/ u.policy \in Lasting /\ Goto(q, "lookup") /\ UNCHANGED answer
  BY ArriveWays
<1>3. /\ key'[q] = k /\ rule'[q] = u /\ started'[q] = clock /\ k # None /\ clock \in Nat
      /\ \A p \in Requests : p # q =>
            key'[p] = key[p] /\ rule'[p] = rule[p] /\ started'[p] = started[p]
  BY <1>2, CacheAssumption DEF TypeOK
<1>4. /\ \A p \in Requests : p # q => pc'[p] = pc[p] /\ answer'[p] = answer[p]
      /\ \/ pc'[q] = "done"
         \/ pc'[q] = "proxy" /\ u.policy = "never" /\ answer'[q] = answer[q]
         \/ pc'[q] = "lookup" /\ u.policy \in Lasting /\ answer'[q] = answer[q]
  BY <1>2 DEF Goto, Answer, TypeOK
<1>5. "done" \notin Sharing /\ "proxy" \notin Sharing
  BY DEF Sharing, Initializing
<1>6. CallsProceed'
  <2> SUFFICES ASSUME NEW p \in Requests
               PROVE  /\ pc'[p] = "idle" <=> key'[p] = None
                      /\ key'[p] # None => rule'[p] \in CacheRouteRules
                      /\ pc'[p] \notin {"stream", "done"} =>
                            answer'[p] = "pending" /\ served'[p] = None
                      /\ pc'[p] = "proxy" => rule'[p].policy = "never"
                      /\ pc'[p] \in Sharing => rule'[p].policy \in Lasting
                      /\ started'[p] <= clock'
    BY DEF CallsProceed
  <2>1. CASE p = q
    BY <1>1, <1>3, <1>4, <1>5, <2>1 DEF CallsProceed
  <2>2. CASE p # q
    BY <1>1, <1>3, <1>4, <2>2 DEF CallsProceed
  <2> QED
    BY <2>1, <2>2
<1>7. \A r \in Requests : published[r] # None => r # q
  BY <1>1 DEF CellsArePublished
<1>8. CellsArePublished'
  BY <1>1, <1>3, <1>4, <1>7 DEF CellsArePublished
<1>9. ASSUME NEW r \in Requests, NEW p \in Requests, p # q,
             published[r] # None, FreshFor(r, p)
      PROVE  FreshFor(r, p)'
  BY <1>1, <1>3, <1>7, <1>9 DEF FreshFor, Expired
<1>10. CellsAreFreshEnough'
  <2> SUFFICES ASSUME NEW p \in Requests, cellOf[p] # None,
                      NEW r \in Requests, value[cellOf[p]] = r, r # None
               PROVE  FreshFor(r, p)'
    BY <1>1 DEF CellsAreFreshEnough, FreshFor, Expired, TypeOK
  <2>1. p # q
    BY <1>1 DEF StructureInv, CellsAreHeld, Initializing
  <2>2. cellOf[p] \in Requests
    BY DEF TypeOK
  <2>3. published[r] # None /\ FreshFor(r, p)
    BY <2>2 DEF CellsArePublished, CellsAreFreshEnough
  <2> QED
    BY <1>9, <2>1, <2>3
<1>11. AnswersAreFresh'
  <2> SUFFICES ASSUME NEW p \in Requests, NEW r \in Requests, served[p] = r, r # None
               PROVE  published[r] # None /\ key'[r] = key'[p] /\ FreshFor(r, p)'
    BY <1>1 DEF AnswersAreFresh, FreshFor, Expired, TypeOK
  <2>1. p # q
    BY <1>1 DEF CallsProceed
  <2>2. published[r] # None /\ FreshFor(r, p) /\ key[r] = key[p]
    BY DEF AnswersAreFresh
  <2> QED
    BY <1>3, <1>7, <1>9, <2>1, <2>2
<1> QED
  BY <1>6, <1>8, <1>10, <1>11

\* Publishing a resource: it is new to everybody who waits for the cell.
LEMMA PublishKeepsService ==
    ASSUME Inv, ServiceInv, TypeOK', NEW q \in Requests, Publish(q)
    PROVE  ServiceInv'
<1> USE DEF Inv, ServiceInv
<1>1. /\ pc[q] = "publish" /\ pc' = [pc EXCEPT ![q] = "clone"]
      /\ value' = [value EXCEPT ![cellOf[q]] = q]
      /\ published' = [published EXCEPT ![q] = clock]
      /\ UNCHANGED <<clock, key, rule, started, cellOf, answer, served>>
  BY DEF Publish, Goto, request, replies
<1>2. cellOf[q] \in Requests /\ cellOf[q] # None
  BY <1>1, HoldsCell DEF Initializing
<1>3. /\ pc'[q] = "clone" /\ \A p \in Requests : p # q => pc'[p] = pc[p]
      /\ value'[cellOf[q]] = q
      /\ \A c \in Requests : c # cellOf[q] => value'[c] = value[c]
      /\ published'[q] = clock /\ \A r \in Requests : r # q => published'[r] = published[r]
      /\ clock \in Nat /\ clock # None
  <2>1. clock \in Nat /\ clock # None
    BY CacheAssumption DEF TypeOK
  <2> QED
    BY <1>1, <1>2, <2>1 DEF TypeOK
<1>4. CallsProceed'
  <2>1. "publish" \in Sharing /\ "clone" \in Sharing
    BY DEF Sharing, Initializing
  <2> QED
    BY <1>1, <1>3, <2>1 DEF CallsProceed
<1>5. \A c \in Requests : value[c] # None => value[c] \in Requests /\ value[c] # q
  BY <1>1, ValuesArePublished
<1>6. CellsArePublished'
  <2>1. "publish" \in Sharing
    BY DEF Sharing, Initializing
  <2> QED
    BY <1>1, <1>3, <1>5, <2>1 DEF CellsArePublished, CallsProceed
<1>7. ASSUME NEW r \in Requests, NEW p \in Requests, r # q, FreshFor(r, p)
      PROVE  FreshFor(r, p)'
  BY <1>1, <1>3, <1>7 DEF FreshFor, Expired
<1>8. CellsAreFreshEnough'
  <2> SUFFICES ASSUME NEW p \in Requests, cellOf[p] # None,
                      NEW r \in Requests, value'[cellOf[p]] = r, r # None
               PROVE  FreshFor(r, p)'
    <3>1. cellOf' = cellOf
      BY <1>1
    <3>2. /\ value' \in [Requests -> Requests \cup {None}]
          /\ cellOf \in [Requests -> Requests \cup {None}]
      BY DEF TypeOK
    <3> QED
      BY <3>1, <3>2 DEF CellsAreFreshEnough, FreshFor, Expired
  <2>1. cellOf[p] \in Requests
    BY DEF TypeOK
  <2>2. CASE cellOf[p] = cellOf[q]
    <3>1. r = q /\ published'[q] >= started'[p]
      BY <1>1, <1>3, <2>2 DEF CallsProceed, TypeOK
    <3> QED
      BY <3>1 DEF FreshFor
  <2>3. CASE cellOf[p] # cellOf[q]
    <3>1. value'[cellOf[p]] = value[cellOf[p]]
      BY <1>3, <2>1, <2>3
    <3> QED
      BY <1>5, <1>7, <2>1, <3>1 DEF CellsAreFreshEnough
  <2> QED
    BY <2>2, <2>3
<1>9. AnswersAreFresh'
  <2> SUFFICES ASSUME NEW p \in Requests, NEW r \in Requests, served[p] = r, r # None
               PROVE  published'[r] # None /\ key[r] = key[p] /\ FreshFor(r, p)'
    <3>1. served' = served /\ key' = key /\ served \in [Requests -> Requests \cup {None}]
      BY <1>1 DEF TypeOK
    <3> QED
      BY <3>1 DEF AnswersAreFresh, FreshFor, Expired
  <2>1. published[r] # None
    BY DEF AnswersAreFresh
  <2>2. r # q
    BY <1>1, <2>1 DEF CellsArePublished
  <2> QED
    BY <1>3, <1>7, <2>1, <2>2 DEF AnswersAreFresh
<1> QED
  BY <1>4, <1>6, <1>8, <1>9

\* A request that gives up is answered with no resource of the cache.
LEMMA GiveUpProceeds ==
    ASSUME Inv, ServiceInv, NEW q \in Requests, NEW a, GiveUp(q, a), pc[q] # "idle"
    PROVE  Proceeds(q, "done")
<1> USE DEF Inv, ServiceInv
<1>1. /\ pc' = [pc EXCEPT ![q] = "done"] /\ answer' = [answer EXCEPT ![q] = a]
      /\ cellOf' = [cellOf EXCEPT ![q] = None]
      /\ UNCHANGED <<clock, request, published, served>>
  BY DEF GiveUp, Goto, Answer
<1>2. \A c \in Requests : value'[c] = value[c] \/ value'[c] = None
  <2>1. CASE cellOf[q] = None
    BY <2>1 DEF GiveUp, store
  <2>2. CASE cellOf[q] # None
    BY <2>2, ReleaseEmpties DEF GiveUp, TypeOK
  <2> QED
    BY <2>1, <2>2
<1>3. \A p \in Requests : cellOf'[p] \in {cellOf[p], None}
  BY <1>1 DEF TypeOK
<1>4. \A p \in Requests : p # q => answer'[p] = answer[p] /\ served'[p] = served[p]
  BY <1>1 DEF TypeOK
<1>5. "done" \notin Sharing
  BY DEF Sharing, Initializing
<1> QED
  BY <1>1, <1>2, <1>3, <1>4, <1>5 DEF Proceeds

\* A request that finds its cell in the list, or puts it there.
LEMMA LookupProceeds ==
    ASSUME Inv, ServiceInv, TypeOK', NEW q \in Requests,
           LookupHit(q) \/ LookupPending(q) \/ LookupExpired(q) \/ LookupAbsent(q)
    PROVE  Proceeds(q, pc'[q])
<1> USE DEF Inv, ServiceInv
<1>1. /\ pc[q] = "lookup" /\ UNCHANGED <<clock, request, published, replies>>
      /\ pc' = [pc EXCEPT ![q] = "cell"] \/ pc' = [pc EXCEPT ![q] = "clone"]
  BY DEF LookupHit, LookupPending, LookupExpired, LookupAbsent, CanLookup, Goto
<1>2. \A i \in Places(q) : lru[i] \in Requests
  BY DEF Places, TypeOK
<1>3. value[q] = None
  BY <1>1 DEF StructureInv, CellsAreFresh
<1>4. \A c \in Requests : value'[c] = value[c] \/ value'[c] = None
  <2>1. CASE LookupHit(q) \/ LookupPending(q)
    BY <2>1 DEF LookupHit, LookupPending, store
  <2>2. CASE LookupExpired(q)
    BY <1>2, <2>2, ReleaseEmpties DEF LookupExpired
  <2>3. CASE LookupAbsent(q)
    <3>1. CASE Len(lru) < MaxCacheFiles
      BY <2>3, <3>1 DEF LookupAbsent, store
    <3>2. CASE ~ (Len(lru) < MaxCacheFiles)
      <4>1. lru # <<>>
        BY <3>2, CacheAssumption
      <4>2. Head(lru) \in Requests /\ Release(Head(lru))
        BY <2>3, <3>2, <4>1, TailList DEF LookupAbsent, TypeOK
      <4> QED
        BY <4>2, ReleaseEmpties
    <3> QED
      BY <3>1, <3>2
  <2> QED
    BY <2>1, <2>2, <2>3
<1>5. \A p \in Requests : p # q => cellOf'[p] = cellOf[p]
  BY DEF LookupHit, LookupPending, LookupExpired, LookupAbsent, TypeOK
<1>6. value'[cellOf'[q]] = None \/ ~Expired(value'[cellOf'[q]], started[q])
  <2>1. CASE LookupHit(q)
    BY <1>2, <2>1 DEF LookupHit, store, TypeOK
  <2>2. CASE LookupPending(q)
    BY <1>2, <2>2 DEF LookupPending, store, TypeOK
  <2>3. CASE LookupExpired(q) \/ LookupAbsent(q)
    <3>1. cellOf'[q] = q
      BY <2>3 DEF LookupExpired, LookupAbsent, TypeOK
    <3> QED
      BY <1>3, <1>4, <3>1
  <2> QED
    BY <2>1, <2>2, <2>3
<1>7. pc' = [pc EXCEPT ![q] = pc'[q]] /\ pc'[q] \in {"cell", "clone"}
  BY <1>1 DEF TypeOK
<1>8. {"lookup", "cell", "clone"} \subseteq Sharing
  BY DEF Sharing
<1> QED
  BY <1>1, <1>4, <1>5, <1>6, <1>7, <1>8 DEF Proceeds, replies

\* The steps from the cell to the resource, which touch no cell but by evicting.
LEMMA MovesProceeds ==
    ASSUME Inv, ServiceInv, NEW q \in Requests,
           \/ ReadCell(q) \/ BeginInit(q) \/ FetchOk(q) \/ CopyDone(q) \/ Reserve(q)
           \/ TakeLock(q) \/ Evict(q) \/ Retry(q) \/ NothingToEvict(q)
           \/ ReserveUpTo(q) \/ StreamEnd(q)
    PROVE  Proceeds(q, pc'[q])
<1> USE DEF Inv, ServiceInv
<1>1. \E l \in Sharing \cup {"done"} :
          /\ pc' = [pc EXCEPT ![q] = l]
          /\ l = "done" => pc[q] = "stream"
          /\ l # "done" => pc[q] \in Sharing \ {"clone"}
  BY DEF ReadCell, BeginInit, FetchOk, CopyDone, Reserve, TakeLock, Evict, Retry,
     NothingToEvict, ReserveUpTo, StreamEnd, TryReserve, Grant, Goto, Sharing, Initializing
<1>2. UNCHANGED <<clock, request, published, replies, cellOf>>
  BY DEF ReadCell, BeginInit, FetchOk, CopyDone, Reserve, TakeLock, Evict, Retry,
     NothingToEvict, ReserveUpTo, StreamEnd, TryReserve
<1>3. \A c \in Requests : value'[c] = value[c] \/ value'[c] = None
  <2>1. CASE Evict(q)
    BY <2>1, ReleaseEmpties, TailList DEF Evict, TypeOK
  <2>2. CASE ~ Evict(q)
    BY <2>2 DEF ReadCell, BeginInit, FetchOk, CopyDone, Reserve, TakeLock, Retry,
       NothingToEvict, ReserveUpTo, StreamEnd, TryReserve, store
  <2> QED
    BY <2>1, <2>2
<1>4. PICK l \in Sharing \cup {"done"} :
          /\ pc' = [pc EXCEPT ![q] = l] /\ pc'[q] = l
          /\ l = "done" => pc[q] = "stream"
          /\ l # "done" => pc[q] \in Sharing \ {"clone"}
  BY <1>1 DEF TypeOK
<1>5. /\ "idle" \notin Sharing /\ "stream" \notin Sharing /\ "done" \notin Sharing
  BY DEF Sharing, Initializing
<1> QED
  BY <1>2, <1>3, <1>4, <1>5 DEF Proceeds, replies

\* The response of a request that holds a resource.
LEMMA CloneProceeds ==
    ASSUME Inv, ServiceInv, NEW q \in Requests, CloneOk(q)
    PROVE  Proceeds(q, "stream")
<1> USE DEF Inv, ServiceInv
<1>1. /\ pc[q] = "clone" /\ pc' = [pc EXCEPT ![q] = "stream"]
      /\ answer' = [answer EXCEPT ![q] = "body"]
      /\ served' = [served EXCEPT ![q] = value[cellOf[q]]]
      /\ cellOf' = [cellOf EXCEPT ![q] = None]
      /\ Release(cellOf[q])
      /\ UNCHANGED <<clock, request, published>>
  BY DEF CloneOk, Goto, Answer
<1>2. \A c \in Requests : value'[c] = value[c] \/ value'[c] = None
  BY <1>1, HoldsCell, ReleaseEmpties
<1>3. \A p \in Requests : cellOf'[p] \in {cellOf[p], None}
  BY <1>1 DEF TypeOK
<1>4. /\ \A p \in Requests : p # q => answer'[p] = answer[p] /\ served'[p] = served[p]
      /\ served'[q] = value[cellOf[q]]
  BY <1>1 DEF TypeOK
<1>5. "stream" \notin Sharing
  BY DEF Sharing, Initializing
<1> QED
  BY <1>1, <1>2, <1>3, <1>4, <1>5 DEF Proceeds

\* Every step keeps the invariant.
LEMMA ServiceStep ==
    ASSUME Inv, ServiceInv, [Next]_vars
    PROVE  ServiceInv'
<1>1. TypeOK'
  BY TypeStep
<1>2. CASE UNCHANGED vars
  BY <1>2 DEF vars, store, request, replies, ServiceInv, CallsProceed, CellsArePublished,
     CellsAreFreshEnough, AnswersAreFresh, FreshFor, Expired
<1>3. CASE Tick
  <2>1. /\ UNCHANGED <<pc, request, cellOf, store, published, replies>>
        /\ \A q \in Requests : started[q] <= clock => started[q] <= clock'
    BY <1>1, <1>3 DEF Tick, Inv, TypeOK
  <2> QED
    BY <2>1 DEF store, request, replies, ServiceInv, CallsProceed, CellsArePublished,
       CellsAreFreshEnough, AnswersAreFresh, FreshFor, Expired
<1> SUFFICES ASSUME NEW q \in Requests,
                    Arrive(q) \/ Step(q) \/ StreamEnd(q) \/ Cancel(q)
             PROVE  ServiceInv'
  BY <1>2, <1>3 DEF Next, Quiet
<1>4. CASE Arrive(q)
  BY <1>4, ArriveKeepsService
<1>5. CASE Publish(q)
  BY <1>1, <1>5, PublishKeepsService
<1>6. CASE ProxyReply(q) \/ FetchFail(q) \/ CopyFail(q) \/ CloneFail(q) \/ Cancel(q)
  <2>1. pc[q] # "idle" /\ \E a : GiveUp(q, a)
    BY <1>6 DEF ProxyReply, FetchFail, CopyFail, CloneFail, Cancel
  <2> QED
    BY <1>1, <2>1, GiveUpProceeds, ProceedsStep
<1>7. CASE LookupHit(q) \/ LookupPending(q) \/ LookupExpired(q) \/ LookupAbsent(q)
  BY <1>1, <1>7, LookupProceeds, ProceedsStep
<1>8. CASE \/ ReadCell(q) \/ BeginInit(q) \/ FetchOk(q) \/ CopyDone(q) \/ Reserve(q)
           \/ TakeLock(q) \/ Evict(q) \/ Retry(q) \/ NothingToEvict(q)
           \/ ReserveUpTo(q) \/ StreamEnd(q)
  BY <1>1, <1>8, MovesProceeds, ProceedsStep
<1>9. CASE CloneOk(q)
  BY <1>1, <1>9, CloneProceeds, ProceedsStep
<1> QED
  BY <1>4, <1>5, <1>6, <1>7, <1>8, <1>9 DEF Step

-----------------------------------------------------------------------------
(* What follows.                                                           *)

\* The invariant holds of an empty cache.
LEMMA ServiceInit ==
    ASSUME Init
    PROVE  Inv /\ ServiceInv
<1>1. Inv
  BY InvInit
<1>2. "idle" \notin Sharing
  BY DEF Sharing, Initializing
<1>3. ServiceInv
  BY <1>2 DEF Init, ServiceInv, CallsProceed, CellsArePublished, CellsAreFreshEnough,
     AnswersAreFresh
<1> QED
  BY <1>1, <1>3

\* It holds in every reachable state.
THEOREM ServiceInvariance == Spec => [](Inv /\ ServiceInv)
<1>1. Init => Inv /\ ServiceInv
  BY ServiceInit
<1>2. Inv /\ ServiceInv /\ [Next]_vars => (Inv /\ ServiceInv)'
  BY InvStep, ServiceStep
<1> QED
  BY <1>1, <1>2, PTL DEF Spec

\* How old an answer can be: a resource that was not expired when the request
\* arrived, or one that was fetched while it waited (cache.rs:189, 594).
THEOREM CacheBoundsStaleness == Spec => []BoundedStaleness
<1>1. ServiceInv => BoundedStaleness
  BY DEF ServiceInv, AnswersAreFresh, FreshFor, BoundedStaleness
<1> QED
  BY <1>1, ServiceInvariance, PTL

-----------------------------------------------------------------------------
(* The refinement.                                                         *)

\* A call that ends, with nothing but what its rule and its cell gave it.
LEMMA EndsAsPromised ==
    ASSUME Inv, ServiceInv, TypeOK', NEW q \in Requests,
           pc[q] \notin {"stream", "done"},
           UNCHANGED <<clock, request, published>>,
           \A p \in Requests : p # q => answer'[p] = answer[p] /\ served'[p] = served[p],
           \/ answer'[q] # "body"
           \/ answer'[q] = "body" /\ served'[q] = None /\ rule[q].policy = "never"
           \/ /\ answer'[q] = "body" /\ served'[q] # None
              /\ published[served'[q]] # None /\ key[served'[q]] = key[q]
              /\ FreshFor(served'[q], q) /\ rule[q].policy \in Lasting,
           key[q] # None
    PROVE  [Service!Next]_Service!vars
<1> USE DEF Inv, ServiceInv
<1>1. answer[q] = "pending"
  BY DEF CallsProceed
<1>2. /\ Result[q] = None
      /\ Result'[q] = IF answer'[q] # "body" THEN None
                      ELSE IF served'[q] = None THEN q ELSE served'[q]
      /\ \A p \in Requests : p # q => Result'[p] = Result[p]
      /\ DOMAIN Result = Requests /\ DOMAIN Result' = Requests
  BY <1>1 DEF Result
<1>3. /\ clock' = clock /\ key' = key /\ rule' = rule /\ started' = started
      /\ published' = published
  BY DEF request
<1>4. Result' = [Result EXCEPT ![q] = Result'[q]]
  BY <1>2 DEF Result
<1>5. CASE answer'[q] # "body"
  <2>1. Result' = Result
    BY <1>2, <1>5 DEF Result
  <2> QED
    BY <1>3, <2>1 DEF Service!vars
<1>6. CASE answer'[q] = "body" /\ served'[q] = None
  <2>1. Service!Proxy(q)
    BY <1>2, <1>3, <1>4, <1>6 DEF Service!Proxy, Lasting
  <2> QED
    BY <2>1 DEF Service!Next
<1>7. CASE answer'[q] = "body" /\ served'[q] # None
  <2>1. served'[q] \in Requests
    BY <1>7 DEF TypeOK
  <2>2. Service!Fresh(served'[q], q)
    <3>1. /\ published[served'[q]] \in Nat /\ started[q] \in Nat
          /\ started[served'[q]] \in Nat
      BY <1>7, <2>1 DEF TypeOK
    <3>2. PICK r \in Requests : r = served'[q]
      BY <2>1
    <3>3. /\ rule[r].policy \in Lasting /\ rule[r] \in CacheRouteRules
          /\ FreshFor(r, q)
      BY <1>7, <3>2 DEF CellsArePublished, CallsProceed
    <3> QED
      BY <3>1, <3>2, <3>3
         DEF Service!Fresh, FreshFor, Expired, Lasting, CacheRouteRules
  <2>3. Service!Serve(q, served'[q])
    BY <1>2, <1>3, <1>4, <1>7, <2>2 DEF Service!Serve, Lasting
  <2> QED
    BY <2>1, <2>3 DEF Service!Next
<1> QED
  BY <1>5, <1>6, <1>7

\* Every step of the cache is one of the service, or none that a caller notices.
LEMMA ServiceRefines ==
    ASSUME Inv, ServiceInv, [Next]_vars
    PROVE  [Service!Next]_Service!vars
<1> USE DEF Inv, ServiceInv
<1>1. TypeOK'
  BY TypeStep
<1>2. ASSUME UNCHANGED <<clock, key, rule, started, published, answer, served>>
      PROVE  [Service!Next]_Service!vars
  BY <1>2 DEF Service!vars, Result
<1>3. CASE UNCHANGED vars \/ Quiet
  BY <1>2, <1>3 DEF vars, Quiet, request, replies
<1>4. CASE Tick
  <2>1. Service!Tick
    BY <1>4 DEF Tick, Service!Tick, Result, request, replies, TypeOK
  <2> QED
    BY <2>1 DEF Service!Next
<1> SUFFICES ASSUME NEW q \in Requests,
                    Arrive(q) \/ Step(q) \/ StreamEnd(q) \/ Cancel(q)
             PROVE  [Service!Next]_Service!vars
  BY <1>3, <1>4 DEF Next
<1>5. CASE Arrive(q)
  <2>1. key[q] = None /\ answer[q] = "pending" /\ UNCHANGED <<clock, published, served>>
    BY <1>5 DEF Arrive, CallsProceed
  <2>2. /\ started' = [started EXCEPT ![q] = clock]
        /\ \E k \in Keys : \E r \in Rules[k] :
              key' = [key EXCEPT ![q] = k] /\ rule' = [rule EXCEPT ![q] = r]
    BY <1>5 DEF Arrive
  <2>3. answer' \in {answer, [answer EXCEPT ![q] = "not_found"]}
    BY <1>5, ArriveWays DEF Answer
  <2>4. \A p \in Requests : answer'[p] = "body" <=> answer[p] = "body"
    BY <2>1, <2>3 DEF TypeOK
  <2>5. Result' = Result
    BY <2>1, <2>4 DEF Result
  <2>6. Service!Arrive(q)
    BY <2>1, <2>2, <2>5 DEF Service!Arrive
  <2> QED
    BY <2>6 DEF Service!Next
<1>6. CASE Publish(q)
  <2>1. /\ pc[q] = "publish" /\ published' = [published EXCEPT ![q] = clock]
        /\ UNCHANGED <<clock, key, rule, started, answer, served>>
    BY <1>6 DEF Publish, request, replies
  <2>2. "publish" \in Sharing
    BY DEF Sharing, Initializing
  <2>3. /\ key[q] # None /\ rule[q].policy \in Lasting /\ published[q] = None
        /\ answer[q] = "pending"
    BY <2>1, <2>2 DEF CallsProceed, CellsArePublished
  <2>4. Result' = Result /\ Result[q] = None
    BY <2>1, <2>3 DEF Result
  <2>5. Service!Fetch(q)
    BY <2>1, <2>3, <2>4 DEF Service!Fetch, Lasting
  <2> QED
    BY <2>5 DEF Service!Next
<1>7. ASSUME NEW a, GiveUp(q, a), pc[q] \notin {"idle", "stream", "done"},
             a # "body" \/ pc[q] = "proxy"
      PROVE  [Service!Next]_Service!vars
  <2>1. /\ answer' = [answer EXCEPT ![q] = a]
        /\ UNCHANGED <<clock, request, published, served>>
    BY <1>7 DEF GiveUp, Answer
  <2>2. answer'[q] = a /\ \A p \in Requests : p # q => answer'[p] = answer[p]
    BY <2>1 DEF TypeOK
  <2>3. key[q] # None /\ served[q] = None
    BY <1>7 DEF CallsProceed
  <2>4. a # "body" \/ rule[q].policy = "never"
    BY <1>7 DEF CallsProceed
  <2> QED
    BY <1>1, <1>7, <2>1, <2>2, <2>3, <2>4, EndsAsPromised
<1>8. CASE ProxyReply(q) \/ FetchFail(q) \/ CopyFail(q) \/ CloneFail(q) \/ Cancel(q)
  BY <1>7, <1>8 DEF ProxyReply, FetchFail, CopyFail, CloneFail, Cancel
<1>9. CASE LookupHit(q) \/ LookupPending(q) \/ LookupExpired(q) \/ LookupAbsent(q)
  BY <1>2, <1>9 DEF LookupHit, LookupPending, LookupExpired, LookupAbsent, request, replies
<1>10. CASE \/ ReadCell(q) \/ BeginInit(q) \/ FetchOk(q) \/ CopyDone(q) \/ Reserve(q)
            \/ TakeLock(q) \/ Evict(q) \/ Retry(q) \/ NothingToEvict(q)
            \/ ReserveUpTo(q) \/ StreamEnd(q)
  BY <1>2, <1>10 DEF ReadCell, BeginInit, FetchOk, CopyDone, Reserve, TakeLock, Evict,
     Retry, NothingToEvict, ReserveUpTo, StreamEnd, TryReserve, request, replies
<1>11. CASE CloneOk(q)
  <2>1. /\ pc[q] = "clone"
        /\ answer' = [answer EXCEPT ![q] = "body"]
        /\ served' = [served EXCEPT ![q] = value[cellOf[q]]]
        /\ UNCHANGED <<clock, request, published>>
    BY <1>11 DEF CloneOk, Answer
  <2>2. /\ answer'[q] = "body" /\ served'[q] = value[cellOf[q]]
        /\ \A p \in Requests : p # q => answer'[p] = answer[p] /\ served'[p] = served[p]
    BY <2>1 DEF TypeOK
  <2>3. /\ cellOf[q] \in Requests /\ cellOf[q] # None
        /\ value[cellOf[q]] # None /\ key[value[cellOf[q]]] = key[q]
    BY <2>1, HoldsCell DEF StructureInv, HeldStaysLive
  <2>4. published[value[cellOf[q]]] # None /\ FreshFor(value[cellOf[q]], q)
    BY <2>3 DEF CellsArePublished, CellsAreFreshEnough
  <2>5. key[q] # None /\ rule[q].policy \in Lasting
    BY <2>1 DEF CallsProceed, Sharing
  <2> QED
    BY <1>1, <2>1, <2>2, <2>3, <2>4, <2>5, EndsAsPromised
<1> QED
  BY <1>5, <1>6, <1>8, <1>9, <1>10, <1>11 DEF Step

\* The list, the cells and the waiting for them, eviction and replacement are
\* invisible to the callers of the cache (cache.rs:143-272).
THEOREM CacheImplementsService == Spec => ImplementsService
<1>1. Init => Service!Init
  BY DEF Init, Service!Init, Result
<1>2. Inv /\ ServiceInv /\ [Next]_vars => [Service!Next]_Service!vars
  BY ServiceRefines
<1> QED
  BY <1>1, <1>2, ServiceInvariance, PTL DEF Spec, ImplementsService, Service!Spec

-----------------------------------------------------------------------------
(* The outcome counters.                                                   *)

\* What q has been counted as, and what it is answered with.
Tally(q) ==
    /\ pc[q] \in {"idle", "lookup", "cell"} \cup Initializing => counted[q] = {}
    /\ pc[q] = "proxy" => counted[q] = {"never"}
    /\ pc[q] = "clone" => counted[q] = {IF published[q] = None THEN "hit" ELSE "miss"}
    /\ answer[q] \notin {"pending", "dropped"} =>
          \/ rule[q].policy = "disabled" /\ counted[q] = {"unrouted"}
          \/ rule[q].policy = "never" /\ counted[q] = {"never"}
          \/ /\ rule[q].policy \in {"for", "forever"}
             /\ \/ answer[q] \in {"error", "not_found"} /\ counted[q] = {answer[q]}
                \/ /\ answer[q] \in {"body", "file_error"}
                   /\ counted[q] = IF published[q] # None THEN {"miss"} ELSE {"hit"}

CountsInv == \A q \in Requests : Tally(q)

\* A request counts its own outcome.
LEMMA OthersKeepCounts ==
    ASSUME Inv, NEW q \in Requests,
           Arrive(q) \/ Step(q) \/ StreamEnd(q) \/ Cancel(q)
    PROVE  \A p \in Requests : p # q => counted'[p] = counted[p]
<1> USE DEF Inv
<1>1. counted' = counted \/ \E o : counted' = [counted EXCEPT ![q] = @ \cup {o}]
  <2>1. CASE Arrive(q)
    BY <2>1, ArriveWays DEF Count
  <2>2. CASE ~ Arrive(q)
    BY <2>2 DEF Step, ProxyReply, LookupHit, LookupPending, LookupExpired, LookupAbsent,
       ReadCell, BeginInit, FetchOk, FetchFail, CopyDone, CopyFail, Reserve, TakeLock,
       Evict, Retry, NothingToEvict, ReserveUpTo, TryReserve, Publish, CloneOk,
       CloneFail, StreamEnd, Cancel, Count
  <2> QED
    BY <2>1, <2>2
<1> QED
  BY <1>1 DEF TypeOK

\* No rule changes after the arrival.
LEMMA RulesStay ==
    ASSUME NEW q \in Requests, Step(q) \/ StreamEnd(q) \/ Cancel(q)
    PROVE  rule' = rule
  BY DEF Step, ProxyReply, LookupHit, LookupPending, LookupExpired, LookupAbsent, ReadCell,
     BeginInit, FetchOk, FetchFail, CopyDone, CopyFail, Reserve, TakeLock, Evict, Retry,
     NothingToEvict, ReserveUpTo, TryReserve, Publish, CloneOk, CloneFail, StreamEnd,
     Cancel, GiveUp, request

\* A step of q is no business of the others.
LEMMA OthersKeepTheirTally ==
    ASSUME Inv, CountsInv, NEW q \in Requests,
           Arrive(q) \/ Step(q) \/ StreamEnd(q) \/ Cancel(q)
    PROVE  \A p \in Requests : p # q => Tally(p)'
<1> USE DEF Inv
<1>1. ASSUME NEW a, GiveUp(q, a)
      PROVE  \A p \in Requests : p # q =>
                 pc'[p] = pc[p] /\ answer'[p] = answer[p] /\ published'[p] = published[p]
  BY <1>1 DEF GiveUp, Goto, Answer, TypeOK
<1>2. \A p \in Requests : p # q =>
          pc'[p] = pc[p] /\ answer'[p] = answer[p] /\ published'[p] = published[p]
  <2>1. CASE Arrive(q)
    BY <2>1, ArriveWays DEF Arrive, Goto, Answer, TypeOK
  <2>2. CASE ProxyReply(q) \/ FetchFail(q) \/ CopyFail(q) \/ CloneFail(q) \/ Cancel(q)
    BY <1>1, <2>2 DEF ProxyReply, FetchFail, CopyFail, CloneFail, Cancel
  <2>3. CASE LookupHit(q) \/ LookupPending(q) \/ LookupExpired(q) \/ LookupAbsent(q)
    BY <2>3 DEF LookupHit, LookupPending, LookupExpired, LookupAbsent, Goto, replies, TypeOK
  <2>4. CASE \/ ReadCell(q) \/ BeginInit(q) \/ FetchOk(q) \/ CopyDone(q) \/ TakeLock(q)
             \/ Evict(q) \/ NothingToEvict(q) \/ StreamEnd(q)
    BY <2>4 DEF ReadCell, BeginInit, FetchOk, CopyDone, TakeLock, Evict, NothingToEvict,
       StreamEnd, Goto, replies, TypeOK
  <2>5. CASE Reserve(q) \/ Retry(q) \/ ReserveUpTo(q)
    BY <2>5 DEF Reserve, Retry, ReserveUpTo, TryReserve, Grant, Goto, replies, TypeOK
  <2>6. CASE Publish(q) \/ CloneOk(q)
    BY <2>6 DEF Publish, CloneOk, Goto, Answer, replies, TypeOK
  <2> QED
    BY <2>1, <2>2, <2>3, <2>4, <2>5, <2>6 DEF Step
<1>3. \A p \in Requests : p # q => counted'[p] = counted[p]
  BY OthersKeepCounts
<1>4. \A p \in Requests : p # q => rule'[p] = rule[p]
  <2>1. CASE Arrive(q)
    BY <2>1, ArriveWays DEF TypeOK
  <2>2. CASE ~ Arrive(q)
    BY <2>2, RulesStay
  <2> QED
    BY <2>1, <2>2
<1> QED
  BY <1>2, <1>3, <1>4 DEF CountsInv, Tally

\* q's own step keeps its tally, or settles it.
LEMMA OwnTally ==
    ASSUME Inv, ServiceInv, CountsInv, TypeOK', NEW q \in Requests,
           Arrive(q) \/ Step(q) \/ StreamEnd(q) \/ Cancel(q)
    PROVE  Tally(q)'
<1> USE DEF Inv, ServiceInv
<1>1. /\ Tally(q) /\ counted \in [Requests -> SUBSET Outcomes]
      /\ pc \in [Requests -> {"idle", "lookup", "proxy", "cell", "clone", "stream",
                              "done"} \cup Initializing]
      /\ answer \in [Requests -> Answers \cup {"pending"}]
  BY DEF CountsInv, TypeOK
<1>2. pc[q] \notin {"stream", "done"} => answer[q] = "pending"
  BY DEF CallsProceed
<1>3. published[q] # None => pc[q] \in {"clone", "stream", "done"}
  BY DEF CellsArePublished
<1>4. \A c \in Requests : value[c] # None /\ pc[q] \in {"lookup", "cell"} =>
          HitOrMiss(q, value[c]) = "hit"
  BY ValuesArePublished DEF HitOrMiss
<1>17. /\ pc[q] = "proxy" => rule[q].policy = "never"
       /\ pc[q] \in {"clone"} \cup Initializing => rule[q].policy \in {"for", "forever"}
  BY DEF CallsProceed, Sharing, Lasting
<1>18. Step(q) \/ StreamEnd(q) \/ Cancel(q) => rule' = rule
  BY RulesStay
<1>5. CASE Arrive(q)
  <2>1. /\ pc[q] = "idle" /\ counted[q] = {} /\ published' = published
        /\ answer[q] = "pending"
    BY <1>1, <1>2, <1>5 DEF Arrive, Tally
  <2>2. \/ /\ pc'[q] = "done" /\ counted'[q] = {"unrouted"} /\ answer'[q] = "not_found"
           /\ rule'[q].policy = "disabled"
        \/ pc'[q] = "proxy" /\ counted'[q] = {"never"} /\ answer'[q] = answer[q]
        \/ pc'[q] = "lookup" /\ counted'[q] = {} /\ answer'[q] = answer[q]
    BY <1>1, <1>5, <2>1, ArriveWays DEF Goto, Count, Answer, TypeOK
  <2> QED
    BY <2>1, <2>2 DEF Tally, Initializing, Outcomes
<1>6. ASSUME NEW a \in Answers, GiveUp(q, a)
      PROVE  pc'[q] = "done" /\ answer'[q] = a /\ published' = published
  BY <1>1, <1>6 DEF GiveUp, Goto, Answer
<1>7. CASE ProxyReply(q)
  <2>1. counted'[q] = {"never"} /\ pc'[q] = "done" /\ rule'[q].policy = "never"
    BY <1>1, <1>6, <1>7, <1>17, <1>18 DEF ProxyReply, Tally, Answers, Step
  <2> QED
    BY <2>1 DEF Tally, Initializing, Outcomes
<1>8. CASE FetchFail(q) \/ CopyFail(q)
  <2>1. counted[q] = {}
    BY <1>1, <1>8 DEF FetchFail, CopyFail, Tally, Initializing
  <2>2. PICK a \in {"not_found", "error"} : Count(q, a) /\ GiveUp(q, a)
    BY <1>8 DEF FetchFail, CopyFail
  <2>3. counted'[q] = {a} /\ pc'[q] = "done" /\ answer'[q] = a
    BY <1>1, <1>6, <2>1, <2>2 DEF Count, Answers
  <2>4. rule'[q].policy \in {"for", "forever"}
    BY <1>8, <1>17, <1>18 DEF FetchFail, CopyFail, Initializing, Step
  <2> QED
    BY <2>3, <2>4 DEF Tally, Initializing
<1>9. CASE CloneFail(q)
  <2>1. /\ counted'[q] = {IF published'[q] = None THEN "hit" ELSE "miss"}
        /\ pc'[q] = "done" /\ answer'[q] = "file_error"
    BY <1>1, <1>6, <1>9 DEF CloneFail, Tally, Answers
  <2>2. rule'[q].policy \in {"for", "forever"}
    BY <1>9, <1>17, <1>18 DEF CloneFail, Step
  <2> QED
    BY <2>1, <2>2 DEF Tally, Initializing
<1>10. CASE Cancel(q)
  <2>1. pc'[q] = "done" /\ answer'[q] = "dropped"
    BY <1>6, <1>10 DEF Cancel, Answers
  <2> QED
    BY <2>1 DEF Tally, Initializing
<1>11. CASE LookupHit(q)
  <2>1. PICK i \in Places(q) : value[lru[i]] # None /\ Count(q, HitOrMiss(q, value[lru[i]]))
    BY <1>11 DEF LookupHit
  <2>2. pc[q] = "lookup" /\ pc'[q] = "clone" /\ published' = published /\ answer' = answer
    BY <1>1, <1>11 DEF LookupHit, CanLookup, Goto, replies
  <2>3. lru[i] \in Requests
    BY DEF Places, TypeOK
  <2>4. counted[q] = {} /\ counted'[q] = {"hit"} /\ answer'[q] = "pending"
    BY <1>1, <1>2, <1>4, <2>1, <2>2, <2>3 DEF Count, Tally
  <2>5. published'[q] = None
    BY <1>3, <2>2
  <2> QED
    BY <2>2, <2>4, <2>5 DEF Tally, Initializing
<1>12. CASE ReadCell(q)
  <2>1. /\ pc[q] = "cell" /\ pc'[q] = "clone" /\ published' = published /\ answer' = answer
        /\ value[cellOf[q]] # None /\ Count(q, HitOrMiss(q, value[cellOf[q]]))
    BY <1>1, <1>12 DEF ReadCell, Goto, replies
  <2>2. cellOf[q] \in Requests
    BY <2>1, HoldsCell
  <2>3. counted[q] = {} /\ counted'[q] = {"hit"} /\ answer'[q] = "pending"
    BY <1>1, <1>2, <1>4, <2>1, <2>2 DEF Count, Tally
  <2>4. published'[q] = None
    BY <1>3, <2>1
  <2> QED
    BY <2>1, <2>3, <2>4 DEF Tally, Initializing
<1>13. CASE Publish(q)
  <2>1. /\ pc[q] = "publish" /\ pc'[q] = "clone" /\ answer' = answer
        /\ published' = [published EXCEPT ![q] = clock] /\ Count(q, HitOrMiss(q, q))
    BY <1>1, <1>13 DEF Publish, Goto, replies
  <2>2. published'[q] # None /\ Count(q, "miss")
    BY <2>1, CacheAssumption DEF HitOrMiss, TypeOK
  <2>3. counted[q] = {} /\ counted'[q] = {"miss"} /\ answer'[q] = "pending"
    BY <1>1, <1>2, <2>1, <2>2 DEF Count, Tally, Initializing
  <2> QED
    BY <2>1, <2>2, <2>3 DEF Tally, Initializing
<1>14. CASE CloneOk(q)
  <2>1. /\ pc[q] = "clone" /\ pc'[q] = "stream" /\ answer'[q] = "body"
        /\ counted' = counted /\ published' = published
    BY <1>1, <1>14 DEF CloneOk, Goto, Answer
  <2>2. rule'[q].policy \in {"for", "forever"}
    BY <1>14, <1>17, <1>18 DEF CloneOk, Step
  <2> QED
    BY <1>1, <2>1, <2>2 DEF Tally, Initializing
<1>15. CASE StreamEnd(q)
  <2>1. /\ pc'[q] = "done" /\ counted' = counted /\ published' = published
        /\ answer' = answer
    BY <1>1, <1>15 DEF StreamEnd, Goto, replies
  <2> QED
    BY <1>1, <1>15, <1>18, <2>1 DEF Tally, Initializing
<1>16. CASE \/ LookupPending(q) \/ LookupExpired(q) \/ LookupAbsent(q)
            \/ BeginInit(q) \/ FetchOk(q) \/ CopyDone(q) \/ Reserve(q) \/ TakeLock(q)
            \/ Evict(q) \/ Retry(q) \/ NothingToEvict(q) \/ ReserveUpTo(q)
  <2>1. /\ pc[q] \in {"lookup", "cell"} \cup Initializing
        /\ pc'[q] \in {"cell"} \cup Initializing
        /\ counted' = counted /\ answer' = answer
    BY <1>1, <1>16 DEF LookupPending, LookupExpired, LookupAbsent, CanLookup, BeginInit,
       FetchOk, CopyDone, Reserve, TakeLock, Evict, Retry, NothingToEvict, ReserveUpTo,
       TryReserve, Grant, Goto, replies, Initializing
  <2>2. counted[q] = {} /\ answer[q] = "pending"
    BY <1>1, <1>2, <2>1 DEF Tally, Initializing
  <2> QED
    BY <2>1, <2>2 DEF Tally, Initializing
<1> QED
  BY <1>5, <1>7, <1>8, <1>9, <1>10, <1>11, <1>12, <1>13, <1>14, <1>15, <1>16 DEF Step

\* Every step keeps all tallies.
LEMMA CountsStep ==
    ASSUME Inv, ServiceInv, CountsInv, [Next]_vars
    PROVE  CountsInv'
<1>1. TypeOK'
  BY TypeStep
<1>2. CASE UNCHANGED vars \/ Tick \/ Quiet
  BY <1>2 DEF vars, Tick, Quiet, request, replies, CountsInv, Tally
<1>3. ASSUME NEW q \in Requests, Arrive(q) \/ Step(q) \/ StreamEnd(q) \/ Cancel(q)
      PROVE  CountsInv'
  BY <1>1, <1>3, OthersKeepTheirTally, OwnTally DEF CountsInv
<1> QED
  BY <1>2, <1>3 DEF Next

\* The tallies are right in every reachable state.
THEOREM CountsInvariance == Spec => []CountsInv
<1>1. Init => CountsInv
  BY DEF Init, CountsInv, Tally, Initializing
<1>2. Inv /\ ServiceInv /\ CountsInv /\ [Next]_vars => CountsInv'
  BY CountsStep
<1> QED
  BY <1>1, <1>2, ServiceInvariance, PTL DEF Spec

\* Each answered request is in one outcome counter, which its rule and its cell
\* choose: "never" or "unrouted" by the rule alone, and else the upstream's
\* failure, or a miss or a hit even if the file then fails
\* (cache.rs:165-181, 229-257).
THEOREM CacheCountsOutcomes == Spec => []CountedByRuleAndCell
<1>1. CountsInv => CountedByRuleAndCell
  BY DEF CountsInv, Tally, CountedByRuleAndCell
<1> QED
  BY <1>1, CountsInvariance, PTL

-----------------------------------------------------------------------------
(* The gauges of the disk.                                                 *)

\* There are finitely many resources, and none is "no resource".
LEMMA LiveType ==
    ASSUME TypeOK
    PROVE  /\ Live \subseteq Requests /\ IsFiniteSet(Live) /\ None \notin Live
           /\ \A r : r \in Live <=> r # None /\ \E c \in Requests : value[c] = r
           /\ Cardinality(Live) \in Nat
<1>1. /\ Live \subseteq Requests /\ None \notin Live
      /\ \A r : r \in Live <=> r # None /\ \E c \in Requests : value[c] = r
  BY DEF Live, TypeOK
<1>2. IsFiniteSet(Live)
  BY <1>1, CacheAssumption, FS_Subset
<1> QED
  BY <1>1, <1>2, FS_CardinalityType

\* One resource more, and the gauges go up by it.
LEMMA GaugesGrow ==
    ASSUME NEW S \in SUBSET Requests, NEW f \in [Requests -> Nat], NEW r \in Requests \ S
    PROVE  /\ Cardinality(S \cup {r}) = Cardinality(S) + 1
           /\ TotalBytes(f, S \cup {r}) = TotalBytes(f, S) + f[r]
           /\ Cardinality(S) \in Nat /\ TotalBytes(f, S) \in Nat
<1> DEFINE T == S \cup {r}
<1>1. IsFiniteSet(S) /\ IsFiniteSet(T)
  BY CacheAssumption, FS_Subset, FS_AddElement
<1>2. Cardinality(T) = Cardinality(S) + 1 /\ Cardinality(S) \in Nat
  BY <1>1, FS_AddElement, FS_CardinalityType
<1>3. \A s \in T : f[s] \in Nat
  OBVIOUS
<1>4. TotalBytes(f, T) = TotalBytes(f, T \ {r}) + f[r]
  BY <1>1, <1>3, TotalSplit
<1>5. T \ {r} = S
  OBVIOUS
<1>6. TotalBytes(f, S) \in Nat
  BY <1>1, TotalType
<1> QED
  BY <1>2, <1>4, <1>5, <1>6

\* The drop of a cell takes its resource off the gauges, if it drops one.
LEMMA ReleaseGauges ==
    ASSUME Inv, GaugesExact, NEW c \in Requests, Release(c), size' = size
    PROVE  GaugesExact'
<1> USE DEF Inv
<1>1. CASE UNCHANGED store
  BY <1>1 DEF store, GaugesExact, Live
<1>2. CASE ~ UNCHANGED store
  <2> DEFINE r == value[c]
             S == Live'
  <2>1. /\ r # None
        /\ value' = [value EXCEPT ![c] = None]
        /\ diskFiles' = diskFiles - 1 /\ diskBytes' = diskBytes - size[r]
    BY <1>2 DEF Release
  <2>2. r \in Requests /\ size \in [Requests -> Nat]
    BY <2>1 DEF TypeOK
  <2>3. /\ value'[c] = None /\ \A d \in Requests : d # c => value'[d] = value[d]
    BY <2>1 DEF TypeOK
  <2>4. \A d \in Requests : d # c => value[d] # r
    BY <2>1 DEF StructureInv, ValuesAreOwned
  <2>5. S = {value'[d] : d \in Requests} \ {None}
    BY DEF Live
  <2>6. S \subseteq Requests /\ r \notin S /\ S \cup {r} = Live
    <3>1. \A s : s \in S => s \in Live /\ s # r
      BY <2>3, <2>4, <2>5, LiveType
    <3>2. \A s : s \in Live /\ s # r => s \in S
      BY <2>3, <2>5, LiveType
    <3>3. r \in Live /\ Live \subseteq Requests
      BY <2>1, LiveType
    <3> QED
      BY <3>1, <3>2, <3>3
  <2> HIDE DEF r, S
  <2>7. /\ Cardinality(Live) = Cardinality(S) + 1 /\ Cardinality(S) \in Nat
        /\ TotalBytes(size, Live) = TotalBytes(size, S) + size[r]
        /\ TotalBytes(size, S) \in Nat /\ size[r] \in Nat
    BY <2>2, <2>6, GaugesGrow
  <2>8. diskFiles' = Cardinality(S) /\ diskBytes' = TotalBytes(size, S)
    BY <2>1, <2>7 DEF GaugesExact
  <2> QED
    BY <2>8 DEF GaugesExact, S
<1> QED
  BY <1>1, <1>2

\* A step that leaves the cells and the gauges alone, and the sizes of what is
\* in the cells.
LEMMA KeepGauges ==
    ASSUME TypeOK, GaugesExact, UNCHANGED <<value, gauges>>,
           \A r \in Live : size'[r] = size[r]
    PROVE  GaugesExact'
<1>1. Live' = Live
  BY DEF Live
<1>2. TotalBytes(size', Live) = TotalBytes(size, Live)
  BY TotalSame
<1> QED
  BY <1>1, <1>2 DEF GaugesExact, gauges

\* A new resource comes on the gauges.
LEMMA PublishGauges ==
    ASSUME Inv, GaugesExact, NEW q \in Requests, Publish(q)
    PROVE  GaugesExact'
<1> USE DEF Inv
<1> DEFINE S == Live'
<1>1. /\ pc[q] = "publish" /\ value' = [value EXCEPT ![cellOf[q]] = q]
      /\ diskFiles' = diskFiles + 1 /\ diskBytes' = diskBytes + size[q] /\ size' = size
  BY DEF Publish
<1>2. /\ cellOf[q] \in Requests /\ value[cellOf[q]] = None
  BY <1>1, HoldsCell DEF StructureInv, PermitsAreExclusive, Initializing
<1>3. /\ value'[cellOf[q]] = q
      /\ \A d \in Requests : d # cellOf[q] => value'[d] = value[d]
  BY <1>1, <1>2 DEF TypeOK
<1>4. S = {value'[d] : d \in Requests} \ {None}
  BY DEF Live
<1>5. Live \subseteq Requests /\ q \notin Live /\ q # None
  BY <1>1, ValuesArePublished, LiveType, CacheAssumption
<1>6. S = Live \cup {q}
  <2>1. \A s : s \in S => s \in Live \cup {q}
    BY <1>2, <1>3, <1>4, LiveType
  <2>2. \A s : s \in Live \cup {q} => s \in S
    BY <1>2, <1>3, <1>4, <1>5, LiveType
  <2> QED
    BY <2>1, <2>2
<1>7. size \in [Requests -> Nat]
  BY DEF TypeOK
<1> HIDE DEF S, Inv
<1>8. /\ Cardinality(Live \cup {q}) = Cardinality(Live) + 1
      /\ TotalBytes(size, Live \cup {q}) = TotalBytes(size, Live) + size[q]
  BY <1>5, <1>7, GaugesGrow
<1> QED
  BY <1>1, <1>6, <1>8 DEF GaugesExact, S

\* Every step keeps the gauges exact.
LEMMA GaugesStep ==
    ASSUME Inv, GaugesExact, [Next]_vars
    PROVE  GaugesExact'
<1> USE DEF Inv
<1>1. ASSUME UNCHANGED <<value, gauges, size>> PROVE GaugesExact'
  BY <1>1, KeepGauges
<1>2. CASE UNCHANGED vars \/ Tick \/ Quiet
  BY <1>1, <1>2 DEF vars, Tick, Quiet, store, gauges
<1> SUFFICES ASSUME NEW q \in Requests,
                    Arrive(q) \/ Step(q) \/ StreamEnd(q) \/ Cancel(q)
             PROVE  GaugesExact'
  BY <1>2 DEF Next
<1>3. ASSUME NEW a, GiveUp(q, a) PROVE GaugesExact'
  <2>1. CASE cellOf[q] = None
    BY <1>1, <1>3, <2>1 DEF GiveUp, store, gauges
  <2>2. CASE cellOf[q] # None
    BY <1>3, <2>2, ReleaseGauges DEF GiveUp, TypeOK
  <2> QED
    BY <2>1, <2>2
<1>4. CASE ProxyReply(q) \/ FetchFail(q) \/ CopyFail(q) \/ CloneFail(q) \/ Cancel(q)
  BY <1>3, <1>4 DEF ProxyReply, FetchFail, CopyFail, CloneFail, Cancel
<1>5. CASE \/ Arrive(q) \/ LookupHit(q) \/ LookupPending(q) \/ ReadCell(q) \/ BeginInit(q)
           \/ FetchOk(q) \/ Reserve(q) \/ TakeLock(q) \/ Retry(q) \/ NothingToEvict(q)
           \/ ReserveUpTo(q) \/ StreamEnd(q)
  BY <1>1, <1>5 DEF Arrive, LookupHit, LookupPending, ReadCell, BeginInit, FetchOk, Reserve,
     TakeLock, Retry, NothingToEvict, ReserveUpTo, StreamEnd, TryReserve, store, gauges
<1>6. CASE CopyDone(q)
  <2>1. /\ pc[q] = "copy" /\ UNCHANGED <<value, gauges>>
        /\ \E n \in Sizes : size' = [size EXCEPT ![q] = n]
    BY <1>6 DEF CopyDone, store, gauges
  <2>2. q \notin Live
    BY <2>1, ValuesArePublished, LiveType
  <2> QED
    BY <2>1, <2>2, KeepGauges, LiveType DEF TypeOK
<1>7. CASE LookupExpired(q)
  <2>1. \A i \in Places(q) : lru[i] \in Requests
    BY DEF Places, TypeOK
  <2> QED
    BY <1>7, <2>1, ReleaseGauges DEF LookupExpired
<1>8. CASE LookupAbsent(q)
  <2>1. CASE Len(lru) < MaxCacheFiles
    BY <1>1, <1>8, <2>1 DEF LookupAbsent, store, gauges
  <2>2. CASE ~ (Len(lru) < MaxCacheFiles)
    <3>1. lru # <<>>
      BY <2>2, CacheAssumption
    <3>2. Head(lru) \in Requests /\ Release(Head(lru)) /\ size' = size
      BY <1>8, <2>2, <3>1, TailList DEF LookupAbsent, TypeOK
    <3> QED
      BY <3>2, ReleaseGauges
  <2> QED
    BY <2>1, <2>2
<1>9. CASE Evict(q)
  BY <1>9, ReleaseGauges, TailList DEF Evict, TypeOK
<1>10. CASE Publish(q)
  BY <1>10, PublishGauges
<1>11. CASE CloneOk(q)
  <2>1. cellOf[q] \in Requests /\ Release(cellOf[q]) /\ size' = size
    BY <1>11, HoldsCell DEF CloneOk
  <2> QED
    BY <2>1, ReleaseGauges
<1> QED
  BY <1>4, <1>5, <1>6, <1>7, <1>8, <1>9, <1>10, <1>11 DEF Step

\* The disk gauges count the live resources and their bytes, each once, from
\* cache.rs:511-512 to the drop at 599-604.
THEOREM CacheGaugesExact == Spec => []GaugesExact
<1>1. Init => GaugesExact
  <2> SUFFICES ASSUME Init PROVE GaugesExact
    OBVIOUS
  <2>1. Live = {}
    BY DEF Init, Live
  <2>2. TotalBytes(size, {}) = 0
    BY TotalZero
  <2> QED
    BY <2>1, <2>2, FS_EmptySet DEF Init, GaugesExact
<1>2. Inv /\ GaugesExact /\ [Next]_vars => GaugesExact'
  BY GaugesStep
<1> QED
  BY <1>1, <1>2, CacheInvariance, PTL DEF Spec

-----------------------------------------------------------------------------
(* The pool, as the cache uses it.                                         *)

\* Where a request has written its file and has no reservation for it.
Unreserved == {"reserve", "want_lock", "evict", "retry", "up_to"}

\* A request asks the pool for the size of a body.
SizesAreBodies == \A q \in Requests : pc[q] \in Unreserved => size[q] \in Sizes

\* Only the copying of the body decides the size.
LEMMA SizesStep ==
    ASSUME Inv, SizesAreBodies, [Next]_vars
    PROVE  SizesAreBodies'
<1> USE DEF Inv
<1>1. CASE UNCHANGED vars \/ Tick \/ Quiet
  BY <1>1 DEF vars, Tick, Quiet, SizesAreBodies
<1> SUFFICES ASSUME NEW q \in Requests,
                    Arrive(q) \/ Step(q) \/ StreamEnd(q) \/ Cancel(q)
             PROVE  SizesAreBodies'
  BY <1>1 DEF Next
<1>2. ASSUME NEW l, pc' = [pc EXCEPT ![q] = l], size' = size,
             l \in Unreserved => pc[q] \in Unreserved
      PROVE  SizesAreBodies'
  BY <1>2 DEF TypeOK, SizesAreBodies
<1>3. CASE Arrive(q)
  <2>1. size' = size /\ \E l : l \notin Unreserved /\ pc' = [pc EXCEPT ![q] = l]
    BY <1>3, ArriveWays DEF Arrive, Goto, Unreserved
  <2> QED
    BY <1>2, <2>1
<1>4. ASSUME NEW a, GiveUp(q, a) PROVE SizesAreBodies'
  BY <1>2, <1>4 DEF GiveUp, Goto, Unreserved
<1>5. CASE ProxyReply(q) \/ FetchFail(q) \/ CopyFail(q) \/ CloneFail(q) \/ Cancel(q)
  BY <1>4, <1>5 DEF ProxyReply, FetchFail, CopyFail, CloneFail, Cancel
<1>6. CASE \/ LookupHit(q) \/ LookupPending(q) \/ LookupExpired(q) \/ LookupAbsent(q)
           \/ ReadCell(q) \/ BeginInit(q) \/ FetchOk(q) \/ Publish(q) \/ CloneOk(q) \/ StreamEnd(q)
  <2>1. size' = size /\ \E l : l \notin Unreserved /\ pc' = [pc EXCEPT ![q] = l]
    BY <1>6 DEF LookupHit, LookupPending, LookupExpired, LookupAbsent, ReadCell, BeginInit,
       FetchOk, Publish, CloneOk, StreamEnd, Goto, Unreserved
  <2> QED
    BY <1>2, <2>1
<1>7. CASE Reserve(q) \/ TakeLock(q) \/ Evict(q) \/ Retry(q) \/ NothingToEvict(q) \/ ReserveUpTo(q)
  <2>1. pc[q] \in Unreserved /\ size' = size /\ \E l : pc' = [pc EXCEPT ![q] = l]
    BY <1>7 DEF Reserve, TakeLock, Evict, Retry, NothingToEvict, ReserveUpTo, TryReserve,
       Grant, Goto, Unreserved
  <2> QED
    BY <1>2, <2>1
<1>8. CASE CopyDone(q)
  BY <1>8 DEF CopyDone, Goto, TypeOK, SizesAreBodies
<1> QED
  BY <1>3, <1>5, <1>6, <1>7, <1>8 DEF Step

\* A step of q that leaves the list alone, or that takes the mutex, leaves the
\* calls of the others where they are.
LEMMA OthersKeepCalls ==
    ASSUME Inv, TypeOK', NEW q \in Requests,
           \A p \in Requests : p # q => pc'[p] = pc[p] /\ size'[p] = size[p],
           lru' = lru \/ \A p \in Requests : p # q => pc[p] # "evict"
    PROVE  \A p \in Requests : p # q => PoolCall'[p] = PoolCall[p] /\ PoolWant'[p] = PoolWant[p]
  BY DEF PoolCall, PoolWant

\* If they are, nothing but the call of q changes.
LEMMA CallsChange ==
    ASSUME NEW q \in Requests,
           \A p \in Requests : p # q => PoolCall'[p] = PoolCall[p] /\ PoolWant'[p] = PoolWant[p]
    PROVE  /\ PoolCall' = [PoolCall EXCEPT ![q] = PoolCall'[q]]
           /\ PoolWant' = [PoolWant EXCEPT ![q] = PoolWant'[q]]
           /\ PoolCall'[q] = PoolCall[q] => PoolCall' = PoolCall
           /\ PoolWant'[q] = PoolWant[q] => PoolWant' = PoolWant
<1>1. /\ PoolCall = [p \in Requests |-> PoolCall[p]] /\ PoolWant = [p \in Requests |-> PoolWant[p]]
      /\ PoolCall' = [p \in Requests |-> PoolCall'[p]] /\ PoolWant' = [p \in Requests |-> PoolWant'[p]]
  BY DEF PoolCall, PoolWant
<1> HIDE DEF PoolCall, PoolWant
<1> QED
  BY <1>1

\* A request that has not got a reservation yet holds no bytes.
LEMMA NothingHeld ==
    ASSUME Inv, NEW q \in Requests, pc[q] \in Unreserved \cup {"copy"}
    PROVE  reserved[q] = 0
<1>1. q \notin Live
  BY ValuesArePublished DEF Live, Unreserved
<1>2. ~ (reserved[q] > 0)
  BY <1>1 DEF Inv, StructureInv, NoReservationLeaks, Unreserved
<1> QED
  BY <1>2 DEF Inv, TypeOK

\* The drop of a resource gives its reservation back, if it has bytes.
LEMMA ReleaseReturns ==
    ASSUME Inv, NEW c \in Requests, UNCHANGED store \/ Release(c),
           PoolCall' = PoolCall, PoolWant' = PoolWant
    PROVE  [Ledger!Next]_(Ledger!vars)
<1> USE DEF Inv
<1>1. CASE UNCHANGED store
  BY <1>1 DEF store, Ledger!vars
<1>2. CASE ~ UNCHANGED store
  <2> DEFINE r == value[c]
  <2>1. /\ r # None
        /\ available' = available + reserved[r] /\ reserved' = [reserved EXCEPT ![r] = 0]
    BY <1>2 DEF Release
  <2>2. r \in Requests /\ reserved \in [Requests -> Nat] /\ available \in Nat
    BY <2>1 DEF TypeOK
  <2> HIDE DEF r
  <2>3. CASE reserved[r] > 0
    BY <2>1, <2>2, <2>3 DEF Ledger!Next, Ledger!Return
  <2>4. CASE reserved[r] = 0
    <3>1. available' = available /\ reserved' = reserved
      BY <2>1, <2>2, <2>4
    <3> QED
      BY <3>1 DEF Ledger!vars
  <2> QED
    BY <2>2, <2>3, <2>4
<1> QED
  BY <1>1, <1>2

\* A request begins a call of the pool.
LEMMA CallBegins ==
    ASSUME Inv, TypeOK', NEW q \in Requests,
           \A p \in Requests : p # q => PoolCall'[p] = PoolCall[p] /\ PoolWant'[p] = PoolWant[p],
           PoolCall[q] = "none", PoolCall'[q] \in {"reserve", "reserve_up_to"},
           pc[q] \in Unreserved \cup {"copy"}, size'[q] \in Sizes, UNCHANGED pool
    PROVE  [Ledger!Next]_(Ledger!vars)
<1>1. /\ PoolCall' = [PoolCall EXCEPT ![q] = PoolCall'[q]]
      /\ PoolWant' = [PoolWant EXCEPT ![q] = size'[q]]
  <2>1. PoolWant'[q] = size'[q]
    BY DEF PoolWant
  <2> QED
    BY <2>1, CallsChange
<1>2. reserved[q] = 0
  BY NothingHeld
<1>3. Ledger!Call(q)
  BY <1>1, <1>2 DEF Ledger!Call, Ledger!Calls, pool
<1> QED
  BY <1>3 DEF Ledger!Next

\* An attempt to reserve is one call of the pool, or goes on with the last one.
LEMMA AttemptRefines ==
    ASSUME Inv, TypeOK', NEW q \in Requests, Reserve(q) \/ Retry(q) \/ ReserveUpTo(q)
    PROVE  [Ledger!Next]_(Ledger!vars)
<1> USE DEF Inv
<1>1. pc[q] \in {"reserve", "retry", "up_to"} /\ UNCHANGED <<lru, size>>
  BY DEF Reserve, Retry, ReserveUpTo, TryReserve
<1>2. ASSUME NEW l, pc' = [pc EXCEPT ![q] = l]
      PROVE  /\ pc'[q] = l
             /\ PoolCall' = [PoolCall EXCEPT ![q] = PoolCall'[q]]
             /\ PoolWant' = [PoolWant EXCEPT ![q] = PoolWant'[q]]
             /\ PoolCall'[q] = PoolCall[q] => PoolCall' = PoolCall
             /\ PoolWant'[q] = PoolWant[q] => PoolWant' = PoolWant
  <2>1. pc'[q] = l /\ \A p \in Requests : p # q => pc'[p] = pc[p] /\ size'[p] = size[p]
    BY <1>1, <1>2 DEF TypeOK
  <2>2. \A p \in Requests : p # q => PoolCall'[p] = PoolCall[p] /\ PoolWant'[p] = PoolWant[p]
    BY <1>1, <2>1, OthersKeepCalls
  <2> QED
    BY <2>1, <2>2, CallsChange
<1>3. PoolWant[q] = size[q] /\ size[q] \in Nat /\ available \in Nat
  BY <1>1 DEF PoolWant, PoolCall, TypeOK
<1>4. ASSUME NEW n, Grant(q, n), n = IF size[q] <= available THEN size[q] ELSE available,
             pc[q] # "up_to" => size[q] <= available
      PROVE  [Ledger!Next]_(Ledger!vars)
  <2>1. PoolCall'[q] = "none" /\ PoolWant'[q] = 0
    BY <1>2, <1>4 DEF Grant, Goto, PoolCall, PoolWant
  <2>2. Ledger!Ends(q, n)
    BY <1>2, <1>4, <2>1 DEF Grant, Goto, Ledger!Ends
  <2>3. CASE pc[q] = "up_to"
    <3>1. PoolCall[q] = "reserve_up_to"
      BY <2>3 DEF PoolCall
    <3> QED
      BY <1>3, <1>4, <2>2, <3>1 DEF Ledger!Next, Ledger!GrantUpTo
  <2>4. CASE pc[q] # "up_to"
    <3>1. PoolCall[q] = "reserve"
      BY <1>1, <2>4 DEF PoolCall
    <3> QED
      BY <1>3, <1>4, <2>2, <2>4, <3>1 DEF Ledger!Next, Ledger!Grant
  <2> QED
    BY <2>3, <2>4
<1>5. ASSUME NEW l, Goto(q, l), UNCHANGED pool, ~ (size[q] <= available),
             \/ pc[q] = "reserve" /\ l = "want_lock"
             \/ pc[q] = "retry" /\ l = "evict"
      PROVE  [Ledger!Next]_(Ledger!vars)
  <2>1. PoolCall[q] = "reserve"
    BY <1>5 DEF PoolCall
  <2>2. CASE l = "evict" /\ lru # <<>>
    <3>1. PoolCall'[q] = "reserve" /\ PoolWant'[q] = size[q]
      BY <1>1, <1>2, <1>5, <2>2 DEF Goto, PoolCall, PoolWant
    <3> QED
      BY <1>2, <1>3, <1>5, <2>1, <3>1 DEF Goto, pool, Ledger!vars
  <2>3. CASE ~ (l = "evict" /\ lru # <<>>)
    <3>1. PoolCall'[q] = "none" /\ PoolWant'[q] = 0
      BY <1>1, <1>2, <1>5, <2>3 DEF Goto, PoolCall, PoolWant
    <3>2. reserved' = [reserved EXCEPT ![q] = 0] /\ available' = available - 0
      <4>1. reserved[q] = 0
        BY <1>1, NothingHeld DEF Unreserved
      <4> QED
        BY <1>3, <1>5, <4>1 DEF pool, TypeOK
    <3>3. Ledger!Ends(q, 0)
      BY <1>2, <1>5, <3>1, <3>2 DEF Goto, Ledger!Ends
    <3>4. Ledger!Refuse(q)
      BY <1>3, <1>5, <2>1, <3>3 DEF Ledger!Refuse
    <3> QED
      BY <3>4 DEF Ledger!Next
  <2> QED
    BY <2>2, <2>3
<1>6. CASE Reserve(q) \/ Retry(q)
  BY <1>4, <1>5, <1>6 DEF Reserve, Retry, TryReserve
<1>7. CASE ReserveUpTo(q)
  BY <1>4, <1>7 DEF ReserveUpTo
<1> QED
  BY <1>6, <1>7

\* Every step of the cache is a call of the pool, one step of one, or none.
LEMMA LedgerStep ==
    ASSUME Inv, SizesAreBodies, [Next]_vars
    PROVE  [Ledger!Next]_(Ledger!vars)
<1> USE DEF Inv
<1>1. TypeOK'
  BY TypeStep
<1>2. CASE UNCHANGED vars \/ Tick \/ Quiet
  BY <1>2 DEF vars, Tick, Quiet, store, PoolCall, PoolWant, Ledger!vars
<1> SUFFICES ASSUME NEW q \in Requests,
                    Arrive(q) \/ Step(q) \/ StreamEnd(q) \/ Cancel(q)
             PROVE  [Ledger!Next]_(Ledger!vars)
  BY <1>2 DEF Next
\* A step that is no call: q is in none before and after it.
<1>3. ASSUME NEW l, pc' = [pc EXCEPT ![q] = l], size' = size, NEW c \in Requests,
             UNCHANGED store \/ Release(c), lru' = lru \/ ListIsFree,
             pc[q] \notin Unreserved \ {"want_lock"}, l \notin Unreserved \ {"want_lock"}
      PROVE  [Ledger!Next]_(Ledger!vars)
  <2>1. pc'[q] = l /\ \A p \in Requests : p # q => pc'[p] = pc[p] /\ size'[p] = size[p]
    BY <1>3 DEF TypeOK
  <2>2. lru' = lru \/ \A p \in Requests : p # q => pc[p] # "evict"
    BY <1>3 DEF ListIsFree, Evicting
  <2>3. \A p \in Requests : p # q => PoolCall'[p] = PoolCall[p] /\ PoolWant'[p] = PoolWant[p]
    BY <1>1, <2>1, <2>2, OthersKeepCalls
  <2>4. /\ PoolCall[q] = "none" /\ PoolWant[q] = 0
        /\ PoolCall'[q] = "none" /\ PoolWant'[q] = 0
    BY <1>3, <2>1 DEF PoolCall, PoolWant, Unreserved
  <2>5. PoolCall' = PoolCall /\ PoolWant' = PoolWant
    BY <2>3, <2>4, CallsChange
  <2> QED
    BY <1>3, <2>5, ReleaseReturns
<1>4. CASE Arrive(q)
  <2>1. /\ UNCHANGED <<size, store, lru>> /\ pc[q] = "idle"
        /\ \E l : l \notin Unreserved /\ pc' = [pc EXCEPT ![q] = l]
    BY <1>4, ArriveWays DEF Arrive, Goto, Unreserved
  <2>2. PICK l : l \notin Unreserved /\ pc' = [pc EXCEPT ![q] = l]
    BY <2>1
  <2>3. pc[q] \notin Unreserved \ {"want_lock"}
    BY <2>1 DEF Unreserved
  <2> QED
    BY <1>3, <2>1, <2>2, <2>3
<1>5. ASSUME NEW a, GiveUp(q, a), pc[q] \notin Unreserved \ {"want_lock"}
      PROVE  [Ledger!Next]_(Ledger!vars)
  <2>1. /\ pc' = [pc EXCEPT ![q] = "done"] /\ UNCHANGED <<size, lru>>
        /\ UNCHANGED store \/ (cellOf[q] # None /\ Release(cellOf[q]))
    BY <1>5 DEF GiveUp, Goto
  <2>2. cellOf[q] # None => cellOf[q] \in Requests
    BY DEF TypeOK
  <2>3. "done" \notin Unreserved \ {"want_lock"}
    BY DEF Unreserved
  <2> QED
    BY <1>3, <1>5, <2>1, <2>2, <2>3
<1>6. CASE ProxyReply(q) \/ FetchFail(q) \/ CopyFail(q) \/ CloneFail(q) \/ Cancel(q)
  BY <1>5, <1>6 DEF ProxyReply, FetchFail, CopyFail, CloneFail, Cancel, Unreserved
<1>7. CASE \/ LookupHit(q) \/ LookupPending(q) \/ ReadCell(q) \/ BeginInit(q) \/ FetchOk(q)
           \/ StreamEnd(q)
  <2>1. /\ size' = size /\ UNCHANGED store /\ (lru' = lru \/ ListIsFree)
        /\ pc[q] \in {"lookup", "cell", "fetch", "stream"}
        /\ \E l \in {"clone", "cell", "fetch", "copy", "done"} : pc' = [pc EXCEPT ![q] = l]
    BY <1>7 DEF LookupHit, LookupPending, CanLookup, ReadCell, BeginInit, FetchOk, StreamEnd, Goto
  <2>2. PICK l \in {"clone", "cell", "fetch", "copy", "done"} : pc' = [pc EXCEPT ![q] = l]
    BY <2>1
  <2>3. /\ l \notin Unreserved \ {"want_lock"}
        /\ pc[q] \notin Unreserved \ {"want_lock"}
    BY <2>1 DEF Unreserved
  <2> QED
    BY <1>3, <2>1, <2>2, <2>3
<1>8. CASE LookupExpired(q) \/ LookupAbsent(q)
  <2>1. /\ size' = size /\ ListIsFree /\ pc[q] = "lookup" /\ pc' = [pc EXCEPT ![q] = "cell"]
    BY <1>8 DEF LookupExpired, LookupAbsent, CanLookup, Goto
  <2>2. \E c \in Requests : UNCHANGED store \/ Release(c)
    <3>1. \A i \in Places(q) : lru[i] \in Requests
      BY DEF Places, TypeOK
    <3>2. CASE LookupExpired(q)
      BY <3>1, <3>2 DEF LookupExpired
    <3>3. CASE LookupAbsent(q) /\ Len(lru) < MaxCacheFiles
      BY <3>3 DEF LookupAbsent
    <3>4. CASE LookupAbsent(q) /\ ~ (Len(lru) < MaxCacheFiles)
      <4>1. lru # <<>>
        BY <3>4, CacheAssumption
      <4>2. Head(lru) \in Requests /\ Release(Head(lru))
        BY <3>4, <4>1, TailList DEF LookupAbsent, TypeOK
      <4> QED
        BY <4>2
    <3> QED
      BY <1>8, <3>2, <3>3, <3>4
  <2>3. PICK c \in Requests : UNCHANGED store \/ Release(c)
    BY <2>2
  <2>4. /\ "cell" \notin Unreserved \ {"want_lock"}
        /\ pc[q] \notin Unreserved \ {"want_lock"}
    BY <2>1 DEF Unreserved
  <2> QED
    BY <1>3, <2>1, <2>3, <2>4
<1>9. CASE CloneOk(q)
  <2>1. /\ size' = size /\ lru' = lru /\ pc[q] = "clone" /\ pc' = [pc EXCEPT ![q] = "stream"]
        /\ cellOf[q] \in Requests /\ Release(cellOf[q])
    BY <1>9, HoldsCell DEF CloneOk, Goto
  <2>2. /\ "stream" \notin Unreserved \ {"want_lock"}
        /\ pc[q] \notin Unreserved \ {"want_lock"}
    BY <2>1 DEF Unreserved
  <2> QED
    BY <1>3, <2>1, <2>2
<1>10. CASE Publish(q)
  <2>1. /\ UNCHANGED pool /\ lru' = lru /\ size' = size
        /\ pc[q] = "publish" /\ pc' = [pc EXCEPT ![q] = "clone"]
    BY <1>10 DEF Publish, Goto
  <2>2. PoolCall' = PoolCall /\ PoolWant' = PoolWant
    BY <2>1 DEF PoolCall, PoolWant, TypeOK
  <2> QED
    BY <2>1, <2>2 DEF pool, Ledger!vars
<1>11. CASE CopyDone(q)
  <2>1. /\ UNCHANGED <<pool, lru>> /\ pc[q] = "copy" /\ pc' = [pc EXCEPT ![q] = "reserve"]
        /\ \E n \in Sizes : size' = [size EXCEPT ![q] = n]
    BY <1>11 DEF CopyDone, Goto, store, pool
  <2>2. /\ pc'[q] = "reserve" /\ size'[q] \in Sizes
        /\ \A p \in Requests : p # q => pc'[p] = pc[p] /\ size'[p] = size[p]
    BY <2>1 DEF TypeOK
  <2>3. \A p \in Requests : p # q => PoolCall'[p] = PoolCall[p] /\ PoolWant'[p] = PoolWant[p]
    BY <1>1, <2>1, <2>2, OthersKeepCalls
  <2>4. PoolCall[q] = "none" /\ PoolCall'[q] = "reserve"
    BY <2>1, <2>2 DEF PoolCall
  <2> QED
    BY <1>1, <2>1, <2>2, <2>3, <2>4, CallBegins
<1>12. CASE TakeLock(q) \/ NothingToEvict(q)
  <2>1. /\ UNCHANGED <<pool, store, lru, size>> /\ pc[q] \in Unreserved
        /\ \/ pc[q] = "want_lock" /\ pc' = [pc EXCEPT ![q] = "evict"]
           \/ pc[q] = "evict" /\ lru = <<>> /\ pc' = [pc EXCEPT ![q] = "up_to"]
    BY <1>12 DEF TakeLock, NothingToEvict, Goto, store, pool, Unreserved
  <2>2. /\ size'[q] \in Sizes
        /\ \A p \in Requests : p # q => pc'[p] = pc[p] /\ size'[p] = size[p]
    BY <2>1 DEF TypeOK, SizesAreBodies
  <2>3. \A p \in Requests : p # q => PoolCall'[p] = PoolCall[p] /\ PoolWant'[p] = PoolWant[p]
    BY <1>1, <2>1, <2>2, OthersKeepCalls
  <2>4. /\ PoolCall[q] = "none"
        /\ PoolCall'[q] \in {"reserve", "reserve_up_to"} \/ PoolCall'[q] = "none"
    BY <2>1 DEF PoolCall, TypeOK
  <2>5. CASE PoolCall'[q] \in {"reserve", "reserve_up_to"}
    BY <1>1, <2>1, <2>2, <2>3, <2>4, <2>5, CallBegins
  <2>6. CASE PoolCall'[q] = "none"
    <3>1. PoolWant'[q] = 0 /\ PoolWant[q] = 0
      BY <2>4, <2>6 DEF PoolWant
    <3>2. PoolCall' = PoolCall /\ PoolWant' = PoolWant
      BY <2>3, <2>4, <2>6, <3>1, CallsChange
    <3> QED
      BY <2>1, <3>2 DEF pool, Ledger!vars
  <2> QED
    BY <2>4, <2>5, <2>6
<1>13. CASE Evict(q)
  <2>1. /\ pc[q] = "evict" /\ lru # <<>> /\ pc' = [pc EXCEPT ![q] = "retry"] /\ size' = size
        /\ Head(lru) \in Requests /\ Release(Head(lru))
    BY <1>13, TailList DEF Evict, Goto, TypeOK
  <2>2. /\ pc'[q] = "retry"
        /\ \A p \in Requests : p # q => pc'[p] = pc[p] /\ size'[p] = size[p] /\ pc[p] # "evict"
    BY <2>1 DEF TypeOK, StructureInv, MutexIsExclusive, Evicting
  <2>3. \A p \in Requests : p # q => PoolCall'[p] = PoolCall[p] /\ PoolWant'[p] = PoolWant[p]
    BY <1>1, <2>2, OthersKeepCalls
  <2>4. PoolCall[q] = "reserve" /\ PoolCall'[q] = "reserve" /\ PoolWant'[q] = PoolWant[q]
    BY <2>1, <2>2 DEF PoolCall, PoolWant
  <2>5. PoolCall' = PoolCall /\ PoolWant' = PoolWant
    BY <2>3, <2>4, CallsChange
  <2> QED
    BY <2>1, <2>5, ReleaseReturns
<1>14. CASE Reserve(q) \/ Retry(q) \/ ReserveUpTo(q)
  BY <1>1, <1>14, AttemptRefines
<1> QED
  BY <1>4, <1>6, <1>7, <1>8, <1>9, <1>10, <1>11, <1>12, <1>13, <1>14 DEF Step

\* The cache uses the pool that CapacityPool implements, and as one may
\* (cache.rs:460-509, 599-604).
THEOREM CacheUsesLedger == Spec => UsesLedger
<1>1. Init => Ledger!Init /\ SizesAreBodies
  BY DEF Init, Ledger!Init, PoolCall, PoolWant, SizesAreBodies, Unreserved
<1>2. Inv /\ SizesAreBodies /\ [Next]_vars => SizesAreBodies'
  BY SizesStep
<1>3. Inv /\ SizesAreBodies /\ [Next]_vars => [Ledger!Next]_(Ledger!vars)
  BY LedgerStep
<1> QED
  BY <1>1, <1>2, <1>3, CacheInvariance, PTL DEF Spec, UsesLedger, Ledger!Spec
=============================================================================
