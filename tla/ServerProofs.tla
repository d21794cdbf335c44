--------------------------- MODULE ServerProofs ---------------------------
(***************************************************************************)
(* Proofs about Server, for any configuration, table of caches and Host    *)
(* headers: its requests use the cache as Cache says, so that what is      *)
(* proved of Cache holds of it, and each gets what is meant for it.        *)
(***************************************************************************)
EXTENDS Server, CacheServiceProofs, SequenceTheorems

Refused == {400, 404, 405, None}

\* A request that was let in calls the cache for its header, has the key of this
\* cache and its path, and the status that follows from its answer; any other has
\* no status or a refusal, and one for want of a cache if there is none.
Addressed ==
    \A q \in Requests :
        IF key[q] = None
        THEN /\ status[q] \in Refused /\ cache[q] = NotSet
             /\ status[q] = 404 =>
                   /\ header[q] \in Headers /\ header[q].kind # "bad"
                   /\ CacheFor(table, header[q]) = NotSet
        ELSE /\ header[q] \in Headers /\ header[q].kind # "bad"
             /\ cache[q] = CacheFor(table, header[q]) /\ cache[q] \in table
             /\ \E p \in Paths : key[q] = CacheKey(cache[q], p)
             /\ status[q] = StatusOf(answer[q])

\* A body comes from a resource, or from upstream for what is never cached.
BodiesHaveSources ==
    \A q \in Requests :
        answer[q] = "body" => served[q] # None \/ counted[q] = {"never"}

CacheInv == Inv /\ ServiceInv /\ CountsInv

ServerInv == ServerTypeOK /\ Addressed /\ BodiesHaveSources

-----------------------------------------------------------------------------
(* The server uses the cache as Cache says.                                *)

LEMMA ServerSteps ==
    ASSUME [ServerNext]_serverVars
    PROVE  [Next]_vars
<1>1. ASSUME NEW q \in Requests, Receive(q) \/ Refuse(q) \/ Proceed(q)
      PROVE  [Next]_vars
  BY <1>1 DEF Receive, Refuse, Proceed, Next
<1>2. CASE Tick \/ ServerQuiet \/ UNCHANGED serverVars
  BY <1>2 DEF Next, ServerQuiet, serverVars
<1> QED
  BY <1>1, <1>2 DEF ServerNext

\* Every behaviour of the server is one of the cache, whose keys Routing makes.
THEOREM ServerUsesCache == ServerSpec => Spec
<1>1. ServerInit => Init
  BY DEF ServerInit
<1>2. [ServerNext]_serverVars => [Next]_vars
  BY ServerSteps
<1> QED
  BY <1>1, <1>2, PTL DEF ServerSpec, Spec

-----------------------------------------------------------------------------
(* What a request's step does to it and to the others.                     *)

LEMMA AnswersStayPut ==
    ASSUME Inv, ServiceInv, NEW q \in Requests, Step(q) \/ StreamEnd(q) \/ Cancel(q)
    PROVE  /\ key' = key /\ key[q] # None
           /\ \A p \in Requests : p # q =>
                 answer'[p] = answer[p] /\ served'[p] = served[p]
           /\ answer'[q] = "body" =>
                 \/ answer[q] = "body" /\ served'[q] = served[q] /\ counted' = counted
                 \/ pc[q] = "proxy" /\ counted' = counted
                 \/ served'[q] # None
<1> USE DEF Inv, ServiceInv
<1>1. pc[q] # "idle" => key[q] # None
  BY DEF CallsProceed
<1>2. CASE ProxyReply(q)
  BY <1>1, <1>2 DEF ProxyReply, GiveUp, Answer, request, TypeOK
<1>3. CASE FetchFail(q) \/ CopyFail(q) \/ CloneFail(q) \/ Cancel(q)
  <2>1. PICK a \in Answers \ {"body"} : GiveUp(q, a) /\ pc[q] # "idle"
    BY <1>3 DEF FetchFail, CopyFail, CloneFail, Cancel, Answers
  <2> QED
    BY <1>1, <2>1 DEF GiveUp, Answer, request, TypeOK
<1>4. CASE CloneOk(q)
  <2>1. value[cellOf[q]] # None
    BY <1>4 DEF CloneOk, StructureInv, HeldStaysLive
  <2> QED
    BY <1>1, <1>4, <2>1 DEF CloneOk, Answer, request, TypeOK
<1>5. CASE StreamEnd(q)
  BY <1>1, <1>5 DEF StreamEnd, request, replies
<1>6. CASE \/ LookupHit(q) \/ LookupPending(q) \/ LookupExpired(q) \/ LookupAbsent(q)
           \/ ReadCell(q) \/ BeginInit(q) \/ FetchOk(q) \/ CopyDone(q) \/ Reserve(q)
           \/ TakeLock(q) \/ Evict(q) \/ Retry(q) \/ NothingToEvict(q) \/ ReserveUpTo(q)
           \/ Publish(q)
  <2>1. UNCHANGED <<request, replies>>
    BY <1>6 DEF LookupHit, LookupPending, LookupExpired, LookupAbsent, ReadCell, BeginInit,
       FetchOk, CopyDone, Reserve, TakeLock, Evict, Retry, NothingToEvict, ReserveUpTo,
       TryReserve, Publish
  <2>2. pc[q] \in {"lookup", "cell"} \cup Initializing
    BY <1>6 DEF LookupHit, LookupPending, LookupExpired, LookupAbsent, CanLookup, ReadCell,
       BeginInit, FetchOk, CopyDone, Reserve, TakeLock, Evict, Retry, NothingToEvict,
       ReserveUpTo, TryReserve, Publish, Initializing
  <2>3. pc[q] # "idle" /\ answer[q] = "pending"
    BY <2>2 DEF CallsProceed, Initializing
  <2> QED
    BY <1>1, <2>1, <2>3 DEF request, replies
<1> QED
  BY <1>2, <1>3, <1>4, <1>5, <1>6 DEF Step

\* A cache that is found for a header is in the table.
LEMMA CacheIsFound ==
    ASSUME NEW h, CacheFor(table, h) # NotSet
    PROVE  CacheFor(table, h) \in table
  BY DEF CacheFor, CacheForHost

\* To leave out the last part of a text with one more part gives back the text.
LEMMA FrontOfConcat ==
    ASSUME NEW S, NEW s \in Seq(S), s # <<>>, NEW t \in Seq(S), Len(t) = 1
    PROVE  Len(s \o t) > 1 /\ Front(s \o t) = s /\ t # <<>>
<1>1. Len(s) \in Nat /\ Len(s) # 0
  BY EmptySeq
<1>2. Len(s \o t) = Len(s) + Len(t) /\ s \o t \in Seq(S)
  BY ConcatProperties
<1>3. Len(s \o t) - 1 = Len(s) /\ Len(s \o t) > 1
  BY <1>1, <1>2
<1>4. SubSeq(s \o t, 1, Len(s)) = s
  BY SubSeqOfConcat1, SubSeqFull, <1>1
<1>5. Front(s \o t) = s
  BY <1>3, <1>4 DEF Front
<1>6. t # <<>>
  <2>1. Len(<<>>) = 0
    OBVIOUS
  <2> QED
    BY <2>1
<1> QED
  BY <1>3, <1>5, <1>6

\* What the code takes for the host of a header is the one it names.
LEMMA NameOfText ==
    ASSUME NEW h \in Headers, h.kind = "host"
    PROVE  WithoutPort(Text(h)) = NamedHost(h)
<1>1. PICK name, port : name = h.name /\ port = h.port
  OBVIOUS
<1>2. name \in Seq(STRING) /\ name # <<>> /\ port \in Seq(STRING) /\ Len(port) \in {0, 1}
  BY <1>1, ServerAssumption
<1>3. WithoutPort(name \o port) =
          IF port = <<>> /\ Len(name) > 1 THEN Front(name) ELSE name
  <2>1. CASE port = <<>>
    <3>1. name \o <<>> = name
      BY <1>2, ConcatEmptySeq
    <3> QED
      BY <2>1, <3>1 DEF WithoutPort
  <2>2. CASE Len(port) = 1
    BY <1>2, <2>2, FrontOfConcat DEF WithoutPort
  <2>3. Len(port) = 0 => port = <<>>
    BY <1>2, EmptySeq
  <2> QED
    BY <1>2, <2>1, <2>2, <2>3
<1> QED
  BY <1>1, <1>3 DEF Text, NamedHost

\* The status of any answer there can be.
LEMMA StatusType ==
    ASSUME NEW a \in Answers \cup {"pending"}
    PROVE  /\ StatusOf(a) \in {200, 404, 500, None}
           /\ StatusOf(a) = 200 => a = "body"
           /\ StatusOf(a) = 404 => a = "not_found"
           /\ StatusOf(a) = None => a \in {"pending", "dropped"}
  BY CacheAssumption DEF StatusOf, Answers

\* A request that is let in is addressed, and the others stay as they are.
LEMMA ReceiveStep ==
    ASSUME CacheInv, TypeOK', ServerInv, NEW q \in Requests, Receive(q)
    PROVE  ServerInv'
<1> USE DEF CacheInv, ServerInv, Inv
<1>1. PICK h \in Headers, p \in Paths :
          /\ h.kind # "bad" /\ CacheFor(table, h) # NotSet /\ Arrive(q)
          /\ key'[q] = CacheKey(CacheFor(table, h), p)
          /\ header' = [header EXCEPT ![q] = h]
          /\ cache' = [cache EXCEPT ![q] = CacheFor(table, h)]
  BY DEF Receive
<1> DEFINE c == CacheFor(table, h)
<1>9. c \in table /\ c \in Caches
  BY <1>1, CacheIsFound DEF ServerTypeOK, Tables
<1>2. /\ table' = table /\ status' = [status EXCEPT ![q] = StatusOf(answer'[q])]
      /\ served' = served
  BY <1>1 DEF Receive, Arrive
<1>3. /\ header'[q] = h /\ status'[q] = StatusOf(answer'[q]) /\ cache'[q] = c
      /\ \A r \in Requests : r # q =>
            header'[r] = header[r] /\ status'[r] = status[r] /\ cache'[r] = cache[r]
  BY <1>1, <1>2 DEF ServerTypeOK
<1>4. answer'[q] \in {"pending", "not_found"}
  <2>1. answer[q] = "pending"
    BY <1>1 DEF Arrive, ServiceInv, CallsProceed
  <2>2. (answer' = answer) \/ answer' = [answer EXCEPT ![q] = "not_found"]
    BY <1>1, ArriveWays DEF Answer
  <2> QED
    BY <2>1, <2>2 DEF TypeOK
<1>5. /\ \A r \in Requests : r # q =>
            key'[r] = key[r] /\ answer'[r] = answer[r] /\ counted'[r] = counted[r]
      /\ key'[q] # None
  <2>1. PICK k \in Keys :
            /\ key' = [key EXCEPT ![q] = k]
            /\ (answer' = answer) \/ answer' = [answer EXCEPT ![q] = "not_found"]
    BY <1>1, ArriveWays DEF Answer
  <2>2. k # None /\ \A r \in Requests : r # q => counted'[r] = counted[r]
    BY <1>1, CacheAssumption, OthersKeepCounts
  <2> QED
    BY <2>1, <2>2 DEF TypeOK
<1>6. ServerTypeOK'
  <2>1. status'[q] \in {200, 404, 500, None}
    BY <1>3, <1>4, StatusType DEF Answers
  <2> QED
    BY <1>1, <1>2, <1>3, <1>9, <2>1 DEF ServerTypeOK
<1>7. Addressed'
  BY <1>1, <1>2, <1>3, <1>5, <1>9 DEF Addressed
<1>8. BodiesHaveSources'
  BY <1>2, <1>4, <1>5 DEF BodiesHaveSources
<1> QED
  BY <1>6, <1>7, <1>8

\* A request that is refused does not reach the cache.
LEMMA RefuseStep ==
    ASSUME CacheInv, ServerInv, NEW q \in Requests, Refuse(q)
    PROVE  ServerInv'
<1>1. PICK h \in Headers :
          /\ header' = [header EXCEPT ![q] = h]
          /\ \/ status' = [status EXCEPT ![q] = 405]
             \/ h.kind = "bad" /\ status' = [status EXCEPT ![q] = 400]
             \/ /\ h.kind # "bad" /\ CacheFor(table, h) = NotSet
                /\ status' = [status EXCEPT ![q] = 404]
  BY DEF Refuse
<1>2. UNCHANGED <<vars, table, cache>> /\ key[q] = None
  <2>1. UNCHANGED <<vars, table, cache>> /\ pc[q] = "idle"
    BY DEF Refuse, IsNew
  <2> QED
    BY <2>1 DEF CacheInv, ServiceInv, CallsProceed
<1> USE DEF ServerInv
<1>3. UNCHANGED <<table, cache, key, answer, served, counted>>
  BY <1>2 DEF vars, request, replies
<1>4. /\ status'[q] \in {400, 404, 405} /\ header'[q] = h
      /\ status'[q] = 404 => h.kind # "bad" /\ CacheFor(table, h) = NotSet
      /\ \A r \in Requests : r # q => header'[r] = header[r] /\ status'[r] = status[r]
  BY <1>1 DEF ServerTypeOK
<1>5. ServerTypeOK'
  BY <1>1, <1>3 DEF ServerTypeOK
<1>6. Addressed'
  BY <1>2, <1>3, <1>4 DEF Addressed, Refused
<1>7. BodiesHaveSources'
  BY <1>3 DEF BodiesHaveSources
<1> QED
  BY <1>5, <1>6, <1>7

\* While a request goes on, its status follows its answer.
LEMMA ProceedStep ==
    ASSUME CacheInv, TypeOK', ServerInv, NEW q \in Requests, Proceed(q)
    PROVE  ServerInv'
<1> USE DEF CacheInv, ServerInv, Inv
<1>1. /\ UNCHANGED <<table, header, cache>>
      /\ Step(q) \/ StreamEnd(q) \/ Cancel(q)
      /\ status' = [status EXCEPT ![q] = StatusOf(answer'[q])]
  BY DEF Proceed
<1>2. /\ key' = key /\ key[q] # None
      /\ \A p \in Requests : p # q => answer'[p] = answer[p] /\ served'[p] = served[p]
      /\ answer'[q] = "body" =>
            \/ answer[q] = "body" /\ served'[q] = served[q] /\ counted' = counted
            \/ pc[q] = "proxy" /\ counted' = counted
            \/ served'[q] # None
  BY <1>1, AnswersStayPut
<1>3. /\ status'[q] = StatusOf(answer'[q])
      /\ \A r \in Requests : r # q => status'[r] = status[r]
  BY <1>1 DEF ServerTypeOK
<1>4. ServerTypeOK'
  <2>1. status'[q] \in {200, 404, 500, None}
    BY <1>3, StatusType DEF TypeOK
  <2> QED
    BY <1>1, <2>1 DEF ServerTypeOK
<1>5. Addressed'
  BY <1>1, <1>2, <1>3 DEF Addressed
<1>6. BodiesHaveSources'
  <2> SUFFICES ASSUME NEW r \in Requests, answer'[r] = "body"
               PROVE  served'[r] # None \/ counted'[r] = {"never"}
    BY DEF BodiesHaveSources
  <2>1. CASE r = q
    BY <1>2, <2>1 DEF BodiesHaveSources, CountsInv, Tally
  <2>2. CASE r # q
    BY <1>1, <1>2, <2>2, OthersKeepCounts DEF BodiesHaveSources
  <2> QED
    BY <2>1, <2>2
<1> QED
  BY <1>4, <1>5, <1>6

\* Every step keeps the invariant.
LEMMA ServerInvStep ==
    ASSUME CacheInv, TypeOK', ServerInv, [ServerNext]_serverVars
    PROVE  ServerInv'
<1> USE DEF ServerInv
<1>1. CASE UNCHANGED serverVars \/ ServerQuiet \/ (Tick /\ UNCHANGED <<table, header, cache, status>>)
  <2>1. UNCHANGED <<table, header, cache, status, key, answer, served, counted>>
    BY <1>1 DEF serverVars, ServerQuiet, Tick, vars, request, replies
  <2> QED
    BY <2>1 DEF ServerTypeOK, Addressed, BodiesHaveSources
<1>2. CASE \E q \in Requests : Receive(q) \/ Refuse(q) \/ Proceed(q)
  BY <1>2, ReceiveStep, RefuseStep, ProceedStep
<1> QED
  BY <1>1, <1>2 DEF ServerNext

\* The invariants of the cache and of the server hold in every reachable state.
THEOREM ServerInvariance == ServerSpec => [](CacheInv /\ ServerInv)
<1>1. ServerSpec => []CacheInv
  BY ServerUsesCache, ServiceInvariance, CountsInvariance, PTL DEF CacheInv
<1>2. ServerInit => ServerInv
  BY CacheAssumption DEF ServerInit, Init, ServerInv, ServerTypeOK, Addressed, Refused,
     BodiesHaveSources
<1>3. ASSUME CacheInv, CacheInv', ServerInv, [ServerNext]_serverVars
      PROVE  ServerInv'
  <2>1. TypeOK'
    BY <1>3 DEF CacheInv, Inv
  <2> QED
    BY <1>3, <2>1, ServerInvStep
<1> QED
  BY <1>1, <1>2, <1>3, PTL DEF ServerSpec

-----------------------------------------------------------------------------
(* What follows.                                                           *)

\* The variables of the server keep their types.
THEOREM ServerTypeCorrect == ServerSpec => []ServerTypeOK
  BY ServerInvariance, PTL DEF ServerInv

\* For any configuration, no client is answered with what was fetched for another
\* path or another host, and only a host called "**" and the top-level cache, which
\* have one name, answer from each other's files
\* (app.rs:59-74, cache.rs:167-170, 198, main.rs:55).
THEOREM ServerKeepsHostsApart == ServerSpec => []OwnUpstream
<1>1. CacheInv /\ ServerInv => OwnUpstream
  <2> SUFFICES ASSUME CacheInv, ServerInv, NEW q \in Requests, served[q] # None
               PROVE  /\ \/ cache[served[q]] = cache[q]
                         \/ {cache[served[q]], cache[q]} = {Top, Default}
                      /\ key[served[q]][2] = key[q][2]
    BY DEF OwnUpstream
  <2>1. PICK r \in Requests : served[q] = r
    BY DEF CacheInv, Inv, TypeOK
  <2>2. key[r] = key[q] /\ key[q] # None
    BY <2>1 DEF CacheInv, ServiceInv, AnswersAreFresh, CallsProceed
  <2>3. HostKey(cache[r]) = HostKey(cache[q])
    BY <2>2 DEF ServerInv, Addressed, CacheKey
  <2>4. cache[r] = cache[q] \/ {cache[r], cache[q]} = {Top, Default}
    BY <2>3 DEF HostKey
  <2> QED
    BY <2>1, <2>2, <2>4
<1> QED
  BY <1>1, ServerInvariance, PTL

\* For any configuration, host names, ports and tables, a request gets to the
\* cache of the host its header names, or to the top-level one if that host has
\* none, and is turned away only if neither is there
\* (config.rs:16-20, app.rs:44-65, 152-157).
THEOREM ServerFollowsHost == ServerSpec => []HostDecides
<1>1. ServerInv => HostDecides
  <2> SUFFICES ASSUME ServerInv, NEW q \in Requests, NEW own,
                      own = {c \in table : /\ header[q] # None /\ header[q].kind = "host"
                                           /\ c = NamedHost(header[q])}
               PROVE  /\ cache[q] # NotSet => cache[q] \in (IF own = {} THEN {Top} ELSE own)
                      /\ status[q] = 404 /\ cache[q] = NotSet => own = {} /\ Top \notin table
    BY DEF HostDecides
  <2>1. NotSet \notin table
    BY RoutingAssumption DEF ServerInv, ServerTypeOK, Tables, Caches
  <2>2. ASSUME header[q] \in Headers, header[q] # None
        PROVE  CacheFor(table, header[q]) =
                   IF own # {} THEN NamedHost(header[q])
                   ELSE IF Top \in table THEN Top ELSE NotSet
    <3>1. CASE header[q].kind = "host"
      <4>1. WithoutPort(Text(header[q])) = NamedHost(header[q])
        BY <2>2, <3>1, NameOfText
      <4>2. own # {} <=> NamedHost(header[q]) \in table
        BY <2>2, <3>1
      <4> QED
        BY <3>1, <4>1, <4>2 DEF CacheFor, CacheForHost
    <3>2. CASE header[q].kind # "host"
      <4>1. own = {}
        BY <3>2
      <4> QED
        BY <2>1, <3>2, <4>1 DEF CacheFor, CacheForHost
    <3> QED
      BY <3>1, <3>2
  <2>5. ASSUME header[q] \in Headers, header[q] # None, CacheFor(table, header[q]) = NotSet
        PROVE  own = {} /\ Top \notin table
    <3>1. CASE own = {}
      BY <2>1, <2>2, <2>5, <3>1 DEF Caches
    <3>2. CASE own # {}
      <4>1. NamedHost(header[q]) \in table
        BY <3>2
      <4> QED
        BY <2>1, <2>2, <2>5, <3>2, <4>1
    <3> QED
      BY <3>1, <3>2
  <2>6. CASE key[q] = None
    BY <2>5, <2>6, ServerAssumption DEF ServerInv, Addressed
  <2>7. CASE key[q] # None
    <3>1. /\ header[q] \in Headers /\ cache[q] = CacheFor(table, header[q])
          /\ cache[q] \in table /\ header[q] # None
      BY <2>7, ServerAssumption DEF ServerInv, Addressed
    <3>2. CASE own = {}
      BY <2>1, <2>2, <3>1, <3>2
    <3>3. CASE own # {}
      <4>1. NamedHost(header[q]) \in own
        BY <3>3
      <4>2. CacheFor(table, header[q]) = NamedHost(header[q])
        BY <2>2, <3>1, <3>3
      <4>3. cache[q] \in own /\ cache[q] # NotSet
        BY <2>1, <3>1, <4>1, <4>2
      <4> QED
        BY <3>3, <4>3
    <3> QED
      BY <2>1, <3>1, <3>2, <3>3
  <2> QED
    BY <2>6, <2>7
<1> QED
  BY <1>1, ServerInvariance, PTL

\* The status a client is told follows from what the cache did for it
\* (app.rs:66-81, 140-164).
THEOREM ServerTellsOutcome == ServerSpec => []StatusTellsOutcome
<1>1. CacheInv /\ ServerInv => StatusTellsOutcome
  <2> SUFFICES ASSUME CacheInv, ServerInv, NEW q \in Requests
               PROVE  /\ status[q] = 200 => served[q] # None \/ counted[q] = {"never"}
                      /\ status[q] = 404 /\ key[q] # None => answer[q] = "not_found"
                      /\ status[q] \in {400, 405} => key[q] = None
                      /\ key[q] # None /\ answer[q] \notin {"pending", "dropped"} =>
                            status[q] # None
    BY DEF StatusTellsOutcome
  <2>1. answer[q] \in Answers \cup {"pending"}
    BY DEF CacheInv, Inv, TypeOK
  <2>2. CASE key[q] = None
    <3>1. status[q] \in Refused /\ status[q] # 200
      BY <2>2, CacheAssumption DEF ServerInv, Addressed, Refused
    <3> QED
      BY <2>2, <3>1
  <2>3. CASE key[q] # None
    <3>1. status[q] = StatusOf(answer[q])
      BY <2>3 DEF ServerInv, Addressed
    <3>2. status[q] \notin {400, 405}
      BY <2>1, <3>1, StatusType, CacheAssumption
    <3> QED
      BY <2>1, <3>1, <3>2, StatusType DEF ServerInv, BodiesHaveSources
  <2> QED
    BY <2>2, <2>3
<1> QED
  BY <1>1, ServerInvariance, PTL
=============================================================================
