-------------------------- MODULE BodyStreamProofs --------------------------
(***************************************************************************)
(* Proofs that the clients of BodyStream get the bytes of the file: for    *)
(* any number of responses and threads, files of any length and any size   *)
(* of the buffer.                                                          *)
(***************************************************************************)
EXTENDS BodyStream, Integers, SequenceTheorems, TLAPS

\* What the channel of r holds, and how many bytes a piece has.
InChannel(r) == IF channel[r] = <<>> THEN NoChunk ELSE channel[r][1]
Held(x) == IF x \in Chunks THEN x.len ELSE 0

\* The pieces under way fill the gap between what the client of r has and
\* where its reader is.
Gapless(r) ==
    /\ InChannel(r) \in Chunks => InChannel(r).at = received[r]
    /\ chunk[r] \in Chunks => chunk[r].at = received[r] + Held(InChannel(r))
    /\ offset[r] = received[r] + Held(InChannel(r)) + Held(chunk[r])

\* Before the response of r there is nothing, and no reader.
Untouched(r) ==
    /\ offset[r] = 0 /\ received[r] = 0 /\ chunk[r] = NoChunk /\ channel[r] = <<>>
    /\ job[r] # "read"

\* How job, response and client of r go together.  The reader of a response
\* that is under way is over only when the file is, or the process.
ResponseInv(r) ==
    /\ Len(channel[r]) <= 1
    /\ client[r] \in {"away", "waiting"} => Untouched(r)
    /\ job[r] = "cloned" => client[r] = "waiting"
    /\ Attached(r) => job[r] \in {"read", "over"} /\ Gapless(r)
    /\ Attached(r) /\ job[r] = "over" /\ runtime = "up" =>
          chunk[r] = NoChunk /\ offset[r] = Size[r]
    /\ client[r] = "truncated" => runtime # "up"
    /\ client[r] = "complete" => received[r] = Size[r]

IInv == TypeOK /\ \A r \in Requests : ResponseInv(r)

-----------------------------------------------------------------------------
(* Types.                                                                  *)

\* A chunk is neither of the two marks.
LEMMA ChunkType ==
    /\ NoChunk \notin Chunks /\ Failure \notin Chunks /\ NoChunk # Failure
    /\ \A c \in Chunks : c.at \in Nat /\ c.len \in Nat /\ c.len >= 1 /\ c.len <= BufferSize
  BY BodyAssumption DEF Chunks

\* A client whose response ends, and an empty channel.
LEMMA DropType ==
    ASSUME TypeOK, NEW r \in Requests, Drop(r, client'[r]),
           client'[r] \in {"complete", "truncated", "failed", "gone", "cut"}
    PROVE  /\ client' \in [Requests -> {"away", "waiting", "reading", "stalled",
                                        "complete", "truncated", "failed", "gone", "cut"}]
           /\ channel' \in [Requests -> Seq(Chunks \cup {Failure})]
<1>1. <<>> \in Seq(Chunks \cup {Failure})
  OBVIOUS
<1> QED
  BY <1>1 DEF TypeOK, Drop, Set

\* Every step keeps the types.
LEMMA TypeStep ==
    ASSUME TypeOK, [Next]_vars
    PROVE  TypeOK'
<1> USE BodyAssumption DEF TypeOK
<1>1. CASE UNCHANGED vars \/ Gone \/ Stop \/ Down
  BY <1>1 DEF vars, pool, Gone, Stop, Down
<1>2. CASE Start
  <2>1. Head(queue) \in Requests /\ Tail(queue) \in Seq(Requests)
    BY <1>2 DEF Start
  <2> QED
    BY <1>2, <2>1 DEF Start
<1>3. CASE DropJob
  <2>1. Head(queue) \in Requests /\ Tail(queue) \in Seq(Requests)
    BY <1>3 DEF DropJob
  <2> QED
    BY <1>3, <2>1 DEF DropJob, Set
<1> SUFFICES ASSUME NEW r \in Requests,
                    \/ Ask(r) \/ Server(r) \/ Client(r) \/ Leave(r) \/ Stall(r)
                    \/ DropTask(r)
             PROVE  TypeOK'
  BY <1>1, <1>2, <1>3 DEF Next, Shutdown
<1>4. CASE Ask(r) \/ Respond(r) \/ Stall(r)
  <2>1. CASE Stall(r)
    BY <2>1 DEF Stall, Set, pool
  <2>2. ASSUME NEW kind \in {"clone", "read"}, Enqueue(r, kind)
        PROVE  /\ queue' \in Seq(Requests)
               /\ job' \in [Requests -> {"none", "clone", "cloned", "read", "over"}]
    BY <2>2 DEF Enqueue, Set
  <2>3. CASE Ask(r)
    BY <2>2, <2>3 DEF Ask, Set
  <2>4. CASE Respond(r)
    BY <2>2, <2>4 DEF Respond, Set
  <2> QED
    BY <1>4, <2>1, <2>3, <2>4
<1>5. CASE CloneDone(r) \/ CloneFails(r)
  BY <1>5 DEF CloneDone, CloneFails, Finish, Set
<1>6. CASE ReadChunk(r)
  <2>1. PICK len \in 1..BufferSize :
            /\ offset[r] + len <= Size[r]
            /\ chunk' = [chunk EXCEPT ![r] = [at |-> offset[r], len |-> len]]
            /\ offset' = [offset EXCEPT ![r] = offset[r] + len]
    BY <1>6 DEF ReadChunk, Set
  <2>2. [at |-> offset[r], len |-> len] \in Chunks /\ offset[r] + len \in Nat
    BY DEF Chunks
  <2> QED
    BY <1>6, <2>1, <2>2 DEF ReadChunk, pool
<1>7. CASE ReadFails(r) \/ ReadEnd(r) \/ SendFails(r)
  BY <1>7 DEF ReadFails, ReadEnd, SendFails, Finish, Set, pool
<1>8. CASE Send(r)
  <2>1. <<chunk[r]>> \in Seq(Chunks \cup {Failure})
    BY <1>8 DEF Send
  <2> QED
    BY <1>8, <2>1 DEF Send, Set, pool
<1>9. CASE PollChunk(r)
  <2>1. /\ Head(channel[r]) \in Chunks
        /\ Tail(channel[r]) \in Seq(Chunks \cup {Failure})
    BY <1>9 DEF PollChunk
  <2>2. received[r] + Head(channel[r]).len \in Nat
    BY <2>1, ChunkType
  <2>3. received' \in [Requests -> Nat] /\ UNCHANGED <<runtime, pool, offset, chunk>>
    BY <1>9, <2>2 DEF PollChunk, Set
  <2>4. CASE received'[r] < Size[r]
    BY <1>9, <2>1, <2>3, <2>4 DEF PollChunk, Set, pool
  <2>5. CASE ~ (received'[r] < Size[r])
    <3>1. Drop(r, client'[r]) /\ client'[r] \in {"complete"}
      BY <1>9, <2>5 DEF PollChunk, Drop, Set
    <3> QED
      BY <2>3, <3>1, DropType DEF pool
  <2> QED
    BY <2>4, <2>5
<1>10. CASE PollFailure(r) \/ PollEnd(r)
  <2>1. /\ Drop(r, client'[r])
        /\ client'[r] \in {"complete", "truncated", "failed"}
        /\ UNCHANGED <<runtime, pool, offset, chunk, received>>
    BY <1>10 DEF PollFailure, PollEnd, Drop, Set
  <2> QED
    BY <2>1, DropType DEF pool
<1>11. CASE Leave(r) \/ DropTask(r)
  <2>1. PICK state \in {"gone", "cut"} : Abandon(r, state)
    BY <1>11 DEF Leave, DropTask
  <2>2. Drop(r, client'[r]) /\ client'[r] \in {"gone", "cut"}
    BY <2>1 DEF Abandon, Drop, Set
  <2> QED
    BY <2>1, <2>2, DropType DEF Abandon, Set
<1> QED
  BY <1>4, <1>5, <1>6, <1>7, <1>8, <1>9, <1>10, <1>11 DEF Server, Client

-----------------------------------------------------------------------------
(* The invariant.                                                          *)

\* Nothing happens to the response of r, except that the process may stop.
LEMMA KeepResponse ==
    ASSUME NEW r \in Requests, ResponseInv(r),
           client'[r] = client[r], job'[r] = job[r], offset'[r] = offset[r],
           chunk'[r] = chunk[r], channel'[r] = channel[r], received'[r] = received[r],
           runtime' = runtime \/ runtime' # "up"
    PROVE  ResponseInv(r)'
  BY DEF ResponseInv, Untouched, Gapless, InChannel, Attached

\* What an action of q touches is q's.
LEMMA OthersKeepTheirs ==
    ASSUME TypeOK, NEW q \in Requests, NEW r \in Requests, r # q,
           \/ Ask(q) \/ Server(q) \/ Client(q) \/ Leave(q) \/ Stall(q) \/ DropTask(q)
    PROVE  /\ client'[r] = client[r] /\ job'[r] = job[r] /\ offset'[r] = offset[r]
           /\ chunk'[r] = chunk[r] /\ channel'[r] = channel[r]
           /\ received'[r] = received[r] /\ runtime' = runtime
<1> USE DEF TypeOK, Set, pool
<1>1. CASE Ask(q) \/ Stall(q) \/ Respond(q)
  BY <1>1 DEF Ask, Stall, Respond, Enqueue
<1>2. CASE CloneDone(q) \/ CloneFails(q)
  BY <1>2 DEF CloneDone, CloneFails, Finish
<1>3. CASE ReadChunk(q)
  BY <1>3 DEF ReadChunk
<1>4. CASE ReadFails(q) \/ ReadEnd(q)
  BY <1>4 DEF ReadFails, ReadEnd, Finish
<1>5. CASE Send(q) \/ SendFails(q)
  BY <1>5 DEF Send, SendFails, Finish
<1>6. CASE PollChunk(q)
  BY <1>6 DEF PollChunk, Drop
<1>7. CASE PollFailure(q) \/ PollEnd(q)
  BY <1>7 DEF PollFailure, PollEnd, Drop
<1>8. CASE Leave(q) \/ DropTask(q)
  BY <1>8 DEF Leave, DropTask, Abandon, Drop
<1> QED
  BY <1>1, <1>2, <1>3, <1>4, <1>5, <1>6, <1>7, <1>8 DEF Server, Client

\* The request, the duplicate and the response.
LEMMA RespondStep ==
    ASSUME IInv, NEW r \in Requests, Ask(r) \/ CloneDone(r) \/ CloneFails(r) \/ Respond(r)
    PROVE  ResponseInv(r)'
<1> USE DEF IInv, TypeOK, Set
<1>1. ResponseInv(r)
  OBVIOUS
<1>2. CASE Ask(r)
  <2>1. /\ client[r] = "away" /\ client'[r] = "waiting" /\ job'[r] = "clone"
        /\ UNCHANGED <<offset, chunk, channel, received, runtime>>
    BY <1>2 DEF Ask, Enqueue
  <2> QED
    BY <1>1, <2>1 DEF ResponseInv, Untouched, Attached
<1>3. CASE CloneDone(r) \/ CloneFails(r)
  <2>1. /\ job[r] = "clone" /\ client'[r] \in {client[r], "failed"}
        /\ \/ job'[r] = "cloned" /\ client[r] = "waiting" /\ client' = client
           \/ job'[r] = "over"
        /\ UNCHANGED <<offset, chunk, channel, received, runtime>>
    BY <1>3 DEF CloneDone, CloneFails, Finish, Has
  <2> QED
    BY <1>1, <2>1 DEF ResponseInv, Untouched, Attached
<1>4. CASE Respond(r)
  <2>1. /\ job[r] = "cloned" /\ client'[r] = "reading" /\ job'[r] = "read"
        /\ UNCHANGED <<offset, chunk, channel, received, runtime>>
    BY <1>4 DEF Respond, Enqueue
  <2>2. Untouched(r)
    BY <1>1, <2>1 DEF ResponseInv
  <2>3. Gapless(r)'
    BY <2>1, <2>2, ChunkType DEF Untouched, Gapless, InChannel, Held
  <2> QED
    BY <1>1, <2>1, <2>2, <2>3 DEF ResponseInv, Untouched, Attached
<1> QED
  BY <1>2, <1>3, <1>4

\* The reader reads.
LEMMA ReadStep ==
    ASSUME IInv, NEW r \in Requests, ReadChunk(r) \/ ReadFails(r) \/ ReadEnd(r)
    PROVE  ResponseInv(r)'
<1> USE DEF IInv, TypeOK, Set
<1>1. ResponseInv(r) /\ job[r] = "read" /\ chunk[r] = NoChunk
  BY DEF ReadChunk, ReadFails, ReadEnd, Has
<1>2. client[r] \notin {"away", "waiting"}
  BY <1>1 DEF ResponseInv, Untouched
<1>3. UNCHANGED <<client, channel, received, runtime>>
  BY DEF ReadChunk, ReadFails, ReadEnd
<1>4. CASE ReadChunk(r)
  <2>1. PICK len \in 1..BufferSize :
            /\ chunk' = [chunk EXCEPT ![r] = [at |-> offset[r], len |-> len]]
            /\ offset' = [offset EXCEPT ![r] = offset[r] + len] /\ job' = job
    BY <1>4 DEF ReadChunk, pool
  <2> DEFINE c == [at |-> offset[r], len |-> len]
  <2>2. c \in Chunks /\ c.at = offset[r] /\ c.len = len /\ len \in Nat
    BY BodyAssumption DEF Chunks
  <2>3. chunk'[r] = c /\ offset'[r] = offset[r] + len
    BY <2>1
  <2> HIDE DEF c
  <2>4. Attached(r) => Gapless(r)'
    <3> SUFFICES ASSUME Attached(r) PROVE Gapless(r)'
      OBVIOUS
    <3>1. Gapless(r) /\ Held(chunk[r]) = 0 /\ Held(chunk'[r]) = len
      BY <1>1, <2>2, <2>3, ChunkType DEF ResponseInv, Held
    <3>2. InChannel(r)' = InChannel(r) /\ Held(InChannel(r)) \in Nat
      BY <1>3, ChunkType DEF InChannel, Held
    <3> QED
      BY <1>3, <2>2, <2>3, <3>1, <3>2 DEF Gapless
  <2> QED
    BY <1>1, <1>2, <1>3, <2>1, <2>4 DEF ResponseInv, Attached
<1>5. CASE ReadFails(r)
  <2>1. chunk'[r] = Failure /\ UNCHANGED <<offset, job>>
    BY <1>5 DEF ReadFails, pool
  <2>2. Attached(r) => Gapless(r)'
    BY <1>1, <1>3, <2>1, ChunkType DEF ResponseInv, Gapless, InChannel, Held
  <2> QED
    BY <1>1, <1>2, <1>3, <2>1, <2>2 DEF ResponseInv, Attached
<1>6. CASE ReadEnd(r)
  <2>1. job'[r] = "over" /\ offset[r] = Size[r] /\ UNCHANGED <<offset, chunk>>
    BY <1>6 DEF ReadEnd, Finish
  <2>2. Attached(r) => Gapless(r)'
    BY <1>1, <1>3, <2>1 DEF ResponseInv, Gapless, InChannel
  <2> QED
    BY <1>1, <1>2, <1>3, <2>1, <2>2 DEF ResponseInv, Attached
<1> QED
  BY <1>4, <1>5, <1>6

\* The reader sends, or finds that nobody listens.
LEMMA SendStep ==
    ASSUME IInv, NEW r \in Requests, Send(r) \/ SendFails(r)
    PROVE  ResponseInv(r)'
<1> USE DEF IInv, TypeOK, Set
<1>1. ResponseInv(r) /\ job[r] = "read" /\ chunk[r] # NoChunk
  BY DEF Send, SendFails, Has
<1>2. client[r] \notin {"away", "waiting"}
  BY <1>1 DEF ResponseInv, Untouched
<1>3. UNCHANGED <<client, offset, received, runtime>>
  BY DEF Send, SendFails
<1>4. CASE Send(r)
  <2>1. /\ channel[r] = <<>> /\ channel'[r] = <<chunk[r]>>
        /\ chunk'[r] = NoChunk /\ job' = job
    BY <1>4 DEF Send, pool
  <2>2. InChannel(r) = NoChunk /\ InChannel(r)' = chunk[r] /\ Len(channel'[r]) = 1
    BY <2>1 DEF InChannel
  <2>3. Attached(r) => Gapless(r)'
    <3> SUFFICES ASSUME Attached(r) PROVE Gapless(r)'
      OBVIOUS
    <3>1. Gapless(r) /\ Held(NoChunk) = 0 /\ Held(chunk[r]) \in Nat
      BY <1>1, ChunkType DEF ResponseInv, Held
    <3> QED
      BY <1>3, <2>1, <2>2, <3>1, ChunkType DEF Gapless
  <2> QED
    BY <1>1, <1>2, <1>3, <2>1, <2>2, <2>3 DEF ResponseInv, Attached
<1>5. CASE SendFails(r)
  <2>1. ~ Attached(r) /\ job'[r] = "over" /\ UNCHANGED channel
    BY <1>5 DEF SendFails, Finish
  <2> QED
    BY <1>1, <1>2, <1>3, <2>1 DEF ResponseInv, Attached
<1> QED
  BY <1>4, <1>5

\* The connection polls the body.
LEMMA PollStep ==
    ASSUME IInv, NEW r \in Requests, PollChunk(r) \/ PollFailure(r) \/ PollEnd(r)
    PROVE  ResponseInv(r)'
<1> USE DEF IInv, TypeOK, Set
<1>1. ResponseInv(r) /\ client[r] = "reading"
  BY DEF PollChunk, PollFailure, PollEnd
<1>2. /\ Attached(r) /\ Gapless(r) /\ job[r] # "cloned"
      /\ Held(InChannel(r)) \in Nat /\ Held(chunk[r]) \in Nat
  BY <1>1, ChunkType DEF ResponseInv, Attached, Held
<1>3. UNCHANGED <<job, offset, chunk, runtime>>
  BY DEF PollChunk, PollFailure, PollEnd, pool
<1>4. CASE PollChunk(r)
  <2> DEFINE c == channel[r][1]
  <2>1. /\ channel[r] = <<c>> /\ c \in Chunks
    BY <1>1, <1>4 DEF PollChunk, ResponseInv
  <2>2. InChannel(r) = c /\ Held(InChannel(r)) = c.len
    BY <2>1 DEF InChannel, Held
  <2>3. received'[r] = received[r] + c.len
    BY <1>4, <2>1 DEF PollChunk
  <2>4. /\ received[r] \in Nat /\ offset[r] \in Nat /\ Size[r] \in Nat /\ c.len \in Nat
        /\ offset[r] <= Size[r] /\ offset[r] = received[r] + c.len + Held(chunk[r])
    BY <1>2, <2>1, <2>2, ChunkType, BodyAssumption DEF Gapless
  <2>5. CASE received'[r] < Size[r]
    <3>1. channel'[r] = <<>> /\ client' = client
      BY <1>4, <2>1, <2>5 DEF PollChunk
    <3>2. InChannel(r)' = NoChunk /\ Held(NoChunk) = 0
      BY <3>1, ChunkType DEF InChannel, Held
    <3>3. Gapless(r)'
      BY <1>2, <1>3, <2>2, <2>3, <2>4, <3>2, ChunkType DEF Gapless
    <3> QED
      BY <1>1, <1>2, <1>3, <3>1, <3>3 DEF ResponseInv, Attached
  <2>6. CASE ~ (received'[r] < Size[r])
    <3>1. channel'[r] = <<>> /\ client'[r] = "complete"
      BY <1>4, <2>6 DEF PollChunk, Drop
    <3>2. received'[r] = Size[r]
      BY <1>2, <2>3, <2>4, <2>6
    <3> QED
      BY <1>2, <1>3, <3>1, <3>2 DEF ResponseInv, Attached
  <2> QED
    BY <2>5, <2>6
<1>5. CASE PollFailure(r)
  <2>1. channel'[r] = <<>> /\ client'[r] = "failed"
    BY <1>5 DEF PollFailure, Drop
  <2> QED
    BY <1>2, <1>3, <2>1 DEF ResponseInv, Attached
<1>6. CASE PollEnd(r)
  <2>1. /\ channel[r] = <<>> /\ channel'[r] = <<>> /\ job[r] = "over" /\ received' = received
        /\ client'[r] = IF received[r] = Size[r] THEN "complete" ELSE "truncated"
    BY <1>6 DEF PollEnd, Drop
  <2>2. runtime = "up" => received[r] = Size[r]
    <3>1. Held(InChannel(r)) = 0 /\ Held(NoChunk) = 0
      BY <2>1, ChunkType DEF InChannel, Held
    <3> QED
      BY <1>1, <1>2, <2>1, <3>1 DEF ResponseInv, Gapless
  <2> QED
    BY <1>2, <1>3, <2>1, <2>2 DEF ResponseInv, Attached
<1> QED
  BY <1>4, <1>5, <1>6

\* The client leaves or stalls, or the runtime drops its task.
LEMMA LeaveStep ==
    ASSUME IInv, NEW r \in Requests, Leave(r) \/ Stall(r) \/ DropTask(r)
    PROVE  ResponseInv(r)'
<1> USE DEF IInv, TypeOK, Set
<1>1. ResponseInv(r)
  OBVIOUS
<1>2. CASE Stall(r)
  <2>1. /\ client[r] = "reading" /\ client'[r] = "stalled"
        /\ UNCHANGED <<job, offset, chunk, channel, received, runtime>>
    BY <1>2 DEF Stall, pool
  <2> QED
    BY <1>1, <2>1 DEF ResponseInv, Gapless, InChannel, Attached
<1>3. CASE Leave(r) \/ DropTask(r)
  <2>1. /\ client'[r] \in {"gone", "cut"} /\ channel'[r] = <<>> /\ job'[r] # "cloned"
    BY <1>3 DEF Leave, DropTask, Abandon, Drop
  <2> QED
    BY <2>1 DEF ResponseInv, Attached
<1> QED
  BY <1>2, <1>3

\* The pool throws a job away: the process is about to end.
LEMMA DropJobStep ==
    ASSUME IInv, NEW r \in Requests, DropJob
    PROVE  ResponseInv(r)'
<1> USE DEF IInv, TypeOK, Set
<1>1. /\ ResponseInv(r) /\ runtime = "stopping" /\ Head(queue) \in Requests
      /\ UNCHANGED <<runtime, offset, chunk, channel, received>>
  BY DEF DropJob
<1>2. CASE r = Head(queue)
  <2>1. /\ job'[r] = "over"
        /\ client'[r] = IF client[r] = "waiting" THEN "failed" ELSE client[r]
    BY <1>1, <1>2 DEF DropJob
  <2> QED
    BY <1>1, <2>1 DEF ResponseInv, Untouched, Gapless, InChannel, Attached
<1>3. CASE r # Head(queue)
  <2>1. job'[r] = job[r] /\ client'[r] = client[r]
    BY <1>1, <1>3 DEF DropJob
  <2> QED
    BY <1>1, <2>1, KeepResponse
<1> QED
  BY <1>2, <1>3

\* Every step keeps the invariant.
LEMMA InvStep ==
    ASSUME IInv, [Next]_vars
    PROVE  IInv'
<1>1. TypeOK'
  BY TypeStep DEF IInv
<1> SUFFICES ASSUME NEW r \in Requests PROVE ResponseInv(r)'
  BY <1>1 DEF IInv
<1>2. ResponseInv(r) /\ TypeOK
  BY DEF IInv
<1>3. CASE UNCHANGED vars \/ Gone \/ Stop \/ Down \/ Start
  <2>1. /\ UNCHANGED <<client, job, offset, chunk, channel, received>>
        /\ runtime' = runtime \/ runtime' # "up"
    BY <1>3 DEF vars, pool, Gone, Stop, Down, Start
  <2> QED
    BY <1>2, <2>1, KeepResponse
<1>4. CASE DropJob
  BY <1>4, DropJobStep
<1>5. ASSUME NEW q \in Requests,
             \/ Ask(q) \/ Server(q) \/ Client(q) \/ Leave(q) \/ Stall(q) \/ DropTask(q)
      PROVE  ResponseInv(r)'
  <2>1. CASE q # r
    BY <1>2, <1>5, <2>1, OthersKeepTheirs, KeepResponse
  <2>2. CASE q = r
    BY <1>5, <2>2, RespondStep, ReadStep, SendStep, PollStep, LeaveStep DEF Server, Client
  <2> QED
    BY <2>1, <2>2
<1> QED
  BY <1>3, <1>4, <1>5 DEF Next, Shutdown

\* The inductive invariant holds in every reachable state.
THEOREM BodyInvariance == Spec => []IInv
<1>1. Init => IInv
  <2> SUFFICES ASSUME Init PROVE IInv
    OBVIOUS
  <2>1. TypeOK
    BY BodyAssumption DEF Init, TypeOK
  <2>2. \A r \in Requests : ResponseInv(r)
    BY DEF Init, ResponseInv, Untouched, Attached
  <2> QED
    BY <2>1, <2>2 DEF IInv
<1>2. IInv /\ [Next]_vars => IInv'
  BY InvStep
<1> QED
  BY <1>1, <1>2, PTL DEF Spec

-----------------------------------------------------------------------------
(* What follows.                                                           *)

\* The types of the model hold in every reachable state.
THEOREM BodyTypeCorrect == Spec => []TypeOK
  BY BodyInvariance, PTL DEF IInv

\* A chunk sent after at most one other.
LEMMA OneInLine ==
  ASSUME NEW S, NEW s \in Seq(S), NEW x, Len(s) <= 1, s # <<>>
  PROVE  /\ Len(s) = 1
         /\ Len(s \o <<x>>) = 2 /\ (s \o <<x>>)[1] = s[1] /\ (s \o <<x>>)[2] = x
<1>1. Len(s) = 1
  <2>1. Len(s) \in Nat /\ (Len(s) = 0 => s = <<>>)
    OBVIOUS
  <2> QED
    BY <2>1
<1>2. s \in Seq(S \cup {x}) /\ <<x>> \in Seq(S \cup {x})
  OBVIOUS
<1>3. Len(<<x>>) = 1 /\ <<x>>[1] = x
  OBVIOUS
<1>4. /\ Len(s \o <<x>>) = 2
      /\ \A i \in 1 .. 2 : (s \o <<x>>)[i] = IF i <= 1 THEN s[i] ELSE <<x>>[i - 1]
  BY <1>1, <1>2, <1>3, ConcatProperties
<1>5. (s \o <<x>>)[1] = s[1] /\ (s \o <<x>>)[2] = <<x>>[1]
  BY <1>4
<1> QED
  BY <1>1, <1>3, <1>4, <1>5

\* The bytes of a file get to each client in their order, none twice and none
\* left out, for files and buffers of any size (cache.rs:547-567).
THEOREM BodyKeepsOrder == Spec => []BytesInOrder
<1>1. ASSUME IInv, NEW r \in Requests, Attached(r)
      PROVE  LET sent == channel[r] \o <<chunk[r]>>
                 pieces == {i \in DOMAIN sent : sent[i] \notin {NoChunk, Failure}}
                 end(i) == sent[i].at + sent[i].len
             IN  /\ received[r] <= offset[r]
                 /\ \A i \in pieces : received[r] <= sent[i].at /\ end(i) <= offset[r]
                 /\ \A i, j \in pieces : i < j => end(i) <= sent[j].at
                 /\ \A n \in received[r] .. offset[r] - 1 :
                       \E i \in pieces : sent[i].at <= n /\ n < end(i)
  <2> DEFINE sent == channel[r] \o <<chunk[r]>>
             pieces == {i \in DOMAIN sent : sent[i] \notin {NoChunk, Failure}}
             end(i) == sent[i].at + sent[i].len
             first == InChannel(r)
             last == chunk[r]
  <2>1. /\ Gapless(r) /\ Len(channel[r]) <= 1 /\ channel[r] \in Seq(Chunks \cup {Failure})
        /\ received[r] \in Nat /\ offset[r] \in Nat /\ last \in Chunks \cup {Failure, NoChunk}
    BY <1>1 DEF IInv, ResponseInv, TypeOK
  <2>2. \/ DOMAIN sent = {1} /\ sent[1] = last /\ first = NoChunk
        \/ DOMAIN sent = {1, 2} /\ sent[1] = first /\ sent[2] = last
    <3>1. CASE channel[r] = <<>>
      BY <2>1, <3>1 DEF InChannel
    <3>2. CASE channel[r] # <<>>
      <4>1. /\ Len(channel[r]) = 1
            /\ Len(sent) = 2 /\ sent[1] = channel[r][1] /\ sent[2] = last
        BY <2>1, <3>2, OneInLine
      <4>2. DOMAIN sent = 1 .. Len(sent)
        BY <2>1
      <4> QED
        BY <3>2, <4>1, <4>2 DEF InChannel
    <3> QED
      BY <3>1, <3>2
  <2>3. first \in Chunks \cup {Failure, NoChunk}
    BY <2>1 DEF InChannel
  <2>4. \A x \in Chunks \cup {Failure, NoChunk} :
            IF x \in {NoChunk, Failure} THEN x \notin Chunks /\ Held(x) = 0
            ELSE /\ x \in Chunks /\ x.at \in Nat /\ x.len \in Nat /\ x.len >= 1
                 /\ Held(x) = x.len
    BY ChunkType DEF Held
  <2>5. /\ first \in Chunks => first.at = received[r]
        /\ last \in Chunks => last.at = received[r] + Held(first)
        /\ offset[r] = received[r] + Held(first) + Held(last)
    BY <2>1 DEF Gapless
  <2>6. received[r] <= offset[r]
    BY <2>1, <2>3, <2>4, <2>5
  <2>7. \A i : i \in pieces <=> i \in DOMAIN sent /\ sent[i] \notin {NoChunk, Failure}
    OBVIOUS
  <2> HIDE DEF sent, pieces, first, last
  <2>8. ASSUME NEW i \in pieces
        PROVE  received[r] <= sent[i].at /\ end(i) <= offset[r]
    <3>1. i \in DOMAIN sent /\ sent[i] \notin {NoChunk, Failure}
      BY <2>7
    <3>2. Held(first) \in Nat /\ Held(last) \in Nat
      BY <2>1, <2>3, <2>4
    <3>3. CASE sent[i] = first
      BY <2>1, <2>3, <2>4, <2>5, <3>1, <3>2, <3>3
    <3>4. CASE sent[i] = last
      BY <2>1, <2>4, <2>5, <3>1, <3>2, <3>4
    <3> QED
      BY <2>2, <3>1, <3>3, <3>4
  <2>9. \A i, j \in pieces : i < j => end(i) <= sent[j].at
    BY <2>1, <2>2, <2>3, <2>4, <2>5, <2>7
  <2>10. ASSUME NEW n \in received[r] .. offset[r] - 1
         PROVE  \E i \in pieces : sent[i].at <= n /\ n < end(i)
    <3>1. n \in Int /\ received[r] <= n /\ n < offset[r]
      BY <2>1
    <3>2. CASE n < received[r] + Held(first)
      <4>1. first \in Chunks /\ first \notin {NoChunk, Failure}
        BY <2>1, <2>3, <2>4, <3>1, <3>2
      <4>2. 1 \in pieces /\ sent[1] = first
        BY <2>2, <2>7, <4>1
      <4> QED
        BY <2>1, <2>4, <2>5, <3>1, <3>2, <4>1, <4>2
    <3>3. CASE ~ (n < received[r] + Held(first))
      <4>1. last \in Chunks /\ last \notin {NoChunk, Failure}
        BY <2>1, <2>3, <2>4, <2>5, <3>1, <3>3
      <4>2. PICK i \in pieces : sent[i] = last
        BY <2>2, <2>7, <4>1
      <4> QED
        BY <2>1, <2>3, <2>4, <2>5, <3>1, <3>3, <4>1, <4>2
    <3> QED
      BY <3>2, <3>3
  <2> QED
    BY <2>6, <2>8, <2>9, <2>10 DEF sent, pieces
<1>2. IInv => BytesInOrder
  BY <1>1 DEF BytesInOrder
<1> QED
  BY <1>2, BodyInvariance, PTL

\* No client that stays takes part of a file for the whole, as long as the
\* process does not stop (cache.rs:552, 573).
THEOREM BodyIsNeverCut == Spec => []NeverTruncated
<1>1. IInv => NeverTruncated
  BY DEF IInv, ResponseInv, NeverTruncated
<1> QED
  BY <1>1, BodyInvariance, PTL

\* The server holds two chunks at most of what a client has not taken, however
\* long the file is (cache.rs:543, 561).
THEOREM BodyHoldsTwoChunks == Spec => []Backpressure
<1>1. ASSUME IInv PROVE Backpressure
  <2> SUFFICES ASSUME NEW r \in Requests, Attached(r)
               PROVE  offset[r] - received[r] <= 2 * BufferSize
    BY DEF Backpressure
  <2>1. Gapless(r) /\ received[r] \in Nat /\ offset[r] \in Nat
    BY <1>1 DEF IInv, ResponseInv, TypeOK
  <2>2. \A x : Held(x) \in Nat /\ Held(x) <= BufferSize
    BY ChunkType, BodyAssumption DEF Held
  <2> QED
    BY <2>1, <2>2, BodyAssumption DEF Gapless
<1> QED
  BY <1>1, BodyInvariance, PTL
=============================================================================
