----------------------------- MODULE BodyStream -----------------------------
(***************************************************************************)
(* body_from_cached_resource of src/cache.rs and the bodies of             *)
(* src/response.rs: how the file of a cached resource gets to the clients. *)
(*                                                                         *)
(* Every answer duplicates the descriptor of the file and reads the file   *)
(* from beginning to end on a thread of the runtime's blocking pool.  The  *)
(* thread and the connection that sends the body are joined by a channel   *)
(* with room for one chunk.  The pool has a limited number of threads, and *)
(* a thread is held for as long as its client takes.                       *)
(*                                                                         *)
(* When main of src/main.rs returns, the runtime drops the tasks of the    *)
(* server, wherever they are, and then waits for the threads: jobs of the  *)
(* blocking pool cannot be interrupted.                                    *)
(***************************************************************************)
EXTENDS Naturals, Sequences, FiniteSets

CONSTANTS
    Requests,   \* requests about to be answered from a cached file
    Size,       \* Size[r]: CachedResource::size, the length of that file
    BufferSize, \* the most bytes one read returns
    Threads,    \* the most threads of the blocking pool
    NoChunk,
    Failure     \* the error of a failed read, sent instead of a chunk

ASSUME BodyAssumption ==
    /\ IsFiniteSet(Requests) /\ Size \in [Requests -> Nat]
    /\ BufferSize \in Nat \ {0} /\ Threads \in Nat \ {0}
    /\ NoChunk # Failure
    /\ {NoChunk, Failure} \cap [at : Nat, len : 1..BufferSize] = {}

VARIABLES
    queue,      \* jobs waiting for a thread, by their request
    running,    \* requests whose job has a thread
    job,        \* job[r]: what the job of r is
    offset,     \* offset[r]: where the reader of r reads next
    chunk,      \* chunk[r]: what the reader of r is sending
    channel,    \* channel[r]: chunks sent and not yet received
    received,   \* received[r]: bytes the client of r has
    client,     \* client[r]: how the client of r fares
    runtime     \* the tokio runtime, from its start to the end of its Drop

vars == <<queue, running, job, offset, chunk, channel, received, client, runtime>>
pool == <<queue, running, job>>

Chunks == [at : Nat, len : 1..BufferSize]

TypeOK ==
    /\ queue \in Seq(Requests) /\ running \subseteq Requests
    /\ job \in [Requests -> {"none", "clone", "cloned", "read", "over"}]
    /\ offset \in [Requests -> Nat] /\ \A r \in Requests : offset[r] <= Size[r]
    /\ chunk \in [Requests -> Chunks \cup {NoChunk, Failure}]
    /\ channel \in [Requests -> Seq(Chunks \cup {Failure})]
    /\ received \in [Requests -> Nat]
    /\ client \in [Requests -> {"away", "waiting", "reading", "stalled",
                                "complete", "truncated", "failed", "gone", "cut"}]
    /\ runtime \in {"up", "stopping", "down"}

Init ==
    /\ queue = <<>> /\ running = {}
    /\ job = [r \in Requests |-> "none"]
    /\ offset = [r \in Requests |-> 0]
    /\ chunk = [r \in Requests |-> NoChunk]
    /\ channel = [r \in Requests |-> <<>>]
    /\ received = [r \in Requests |-> 0]
    /\ client = [r \in Requests |-> "away"]
    /\ runtime = "up"

Set(f, r, x) == f' = [f EXCEPT ![r] = x]

-----------------------------------------------------------------------------
(* The blocking pool: jobs get threads in the order they came.             *)

Enqueue(r, kind) == queue' = Append(queue, r) /\ Set(job, r, kind)

Start ==
    /\ queue # <<>> /\ Cardinality(running) < Threads
    /\ queue' = Tail(queue)
    /\ running' = running \cup {Head(queue)}
    /\ UNCHANGED <<runtime, job, offset, chunk, channel, received, client>>

\* The job of r ends, and its thread is free.
Finish(r, state) ==
    /\ running' = running \ {r} /\ Set(job, r, state)
    /\ UNCHANGED queue

Has(r, kind) == r \in running /\ job[r] = kind

\* The response of r, and the receiver its body owns, exist.
Attached(r) == client[r] \in {"reading", "stalled"}

-----------------------------------------------------------------------------
(* try_clone, which runs on the pool too.                                  *)

Ask(r) ==
    /\ client[r] = "away" /\ runtime = "up"
    /\ Set(client, r, "waiting")
    /\ Enqueue(r, "clone")
    /\ UNCHANGED <<runtime, running, offset, chunk, channel, received>>

\* The duplicate goes to whoever is still waiting for it.
CloneDone(r) ==
    /\ Has(r, "clone")
    /\ Finish(r, IF client[r] = "waiting" THEN "cloned" ELSE "over")
    /\ UNCHANGED <<runtime, offset, chunk, channel, received, client>>

CloneFails(r) ==
    /\ Has(r, "clone")
    /\ Finish(r, "over")
    /\ Set(client, r, IF client[r] = "waiting" THEN "failed" ELSE client[r])
    /\ UNCHANGED <<runtime, offset, chunk, channel, received>>

\* The reader is spawned and the response is returned.
Respond(r) ==
    /\ job[r] = "cloned"
    /\ Enqueue(r, "read")
    /\ Set(client, r, "reading")
    /\ UNCHANGED <<runtime, running, offset, chunk, channel, received>>

-----------------------------------------------------------------------------
(* The reader.                                                             *)

\* Mutant of ReadChunk: a read may go past the end of the file.
ReadPastEnd(r) ==
    /\ Has(r, "read") /\ chunk[r] = NoChunk
    /\ \E len \in 1..BufferSize :
          /\ Set(chunk, r, [at |-> offset[r], len |-> len])
          /\ Set(offset, r, offset[r] + len)
    /\ UNCHANGED <<runtime, pool, channel, received, client>>

\* Mutant of ReadChunk: the offset grows by the length of the buffer.
ReadWholeBuffers(r) ==
    /\ Has(r, "read") /\ chunk[r] = NoChunk
    /\ \E len \in 1..BufferSize :
          /\ offset[r] + len <= Size[r]
          /\ Set(chunk, r, [at |-> offset[r], len |-> len])
          /\ Set(offset, r, IF offset[r] + BufferSize <= Size[r]
                            THEN offset[r] + BufferSize ELSE Size[r])
    /\ UNCHANGED <<runtime, pool, channel, received, client>>

\* read_at returns as many bytes as it likes, up to the end of the file.
ReadChunk(r) ==
    /\ Has(r, "read") /\ chunk[r] = NoChunk
    /\ \E len \in 1..BufferSize :
          /\ offset[r] + len <= Size[r]
          /\ Set(chunk, r, [at |-> offset[r], len |-> len])
          /\ Set(offset, r, offset[r] + len)
    /\ UNCHANGED <<runtime, pool, channel, received, client>>

\* Mutant of ReadFails: the reader ends without a word.
ReadGivesUp(r) ==
    /\ Has(r, "read") /\ chunk[r] = NoChunk
    /\ Finish(r, "over")
    /\ UNCHANGED <<runtime, offset, chunk, channel, received, client>>

ReadFails(r) ==
    /\ Has(r, "read") /\ chunk[r] = NoChunk
    /\ Set(chunk, r, Failure)
    /\ UNCHANGED <<runtime, pool, offset, channel, received, client>>

\* No bytes are left: the reader ends, and with it the sending side.
ReadEnd(r) ==
    /\ Has(r, "read") /\ chunk[r] = NoChunk /\ offset[r] = Size[r]
    /\ Finish(r, "over")
    /\ UNCHANGED <<runtime, offset, chunk, channel, received, client>>

\* Mutant of Send: the channel takes whatever comes.
SendUnbounded(r) ==
    /\ Has(r, "read") /\ chunk[r] # NoChunk
    /\ Attached(r)
    /\ Set(channel, r, Append(channel[r], chunk[r]))
    /\ Set(chunk, r, NoChunk)
    /\ UNCHANGED <<runtime, pool, offset, received, client>>

\* Mutant of Send: an error is kept from the client, and the read repeated.
SendChunksOnly(r) ==
    /\ Has(r, "read") /\ chunk[r] # NoChunk
    /\ Attached(r) /\ channel[r] = <<>>
    /\ Set(channel, r, IF chunk[r] = Failure THEN <<>> ELSE <<chunk[r]>>)
    /\ Set(chunk, r, NoChunk)
    /\ UNCHANGED <<runtime, pool, offset, received, client>>

\* blocking_send waits for room.
Send(r) ==
    /\ Has(r, "read") /\ chunk[r] # NoChunk
    /\ Attached(r) /\ channel[r] = <<>>
    /\ Set(channel, r, <<chunk[r]>>)
    /\ Set(chunk, r, NoChunk)
    /\ UNCHANGED <<runtime, pool, offset, received, client>>

\* Mutant of SendFails: the reader reads on for nobody.
SendIgnored(r) ==
    /\ Has(r, "read") /\ chunk[r] # NoChunk /\ ~Attached(r)
    /\ Set(chunk, r, NoChunk)
    /\ UNCHANGED <<runtime, pool, offset, channel, received, client>>

\* blocking_send finds that the body was dropped: the reader ends.
SendFails(r) ==
    /\ Has(r, "read") /\ chunk[r] # NoChunk /\ ~Attached(r)
    /\ Finish(r, "over")
    /\ Set(chunk, r, NoChunk)
    /\ UNCHANGED <<runtime, offset, channel, received, client>>

-----------------------------------------------------------------------------
(* The connection polls the body: its size hint is the size of the file,   *)
(* and an error breaks the response off.                                   *)

\* The body is dropped, and what is in the channel with it.
Drop(r, state) == Set(client, r, state) /\ Set(channel, r, <<>>)

PollChunk(r) ==
    /\ client[r] = "reading" /\ channel[r] # <<>> /\ Head(channel[r]) # Failure
    /\ Set(received, r, received[r] + Head(channel[r]).len)
    /\ IF received'[r] < Size[r]
       THEN Set(channel, r, Tail(channel[r])) /\ UNCHANGED client
       ELSE Drop(r, "complete")
    /\ UNCHANGED <<runtime, pool, offset, chunk>>

PollFailure(r) ==
    /\ client[r] = "reading" /\ channel[r] # <<>> /\ Head(channel[r]) = Failure
    /\ Drop(r, "failed")
    /\ UNCHANGED <<runtime, pool, offset, chunk, received>>

\* The stream ends: the channel is empty and its sender is gone.
PollEnd(r) ==
    /\ client[r] = "reading" /\ channel[r] = <<>> /\ job[r] = "over"
    /\ Drop(r, IF received[r] = Size[r] THEN "complete" ELSE "truncated")
    /\ UNCHANGED <<runtime, pool, offset, chunk, received>>

\* The task of r's connection ends.  A job that is queued or has a thread
\* stays; a duplicate nobody has taken yet is closed.
Abandon(r, state) ==
    /\ client[r] = "waiting" \/ Attached(r)
    /\ Drop(r, state)
    /\ Set(job, r, IF job[r] = "cloned" THEN "over" ELSE job[r])
    /\ UNCHANGED <<runtime, queue, running, offset, chunk, received>>

\* The client closes the connection.
Leave(r) == Abandon(r, "gone")

\* The client reads no more, but keeps the connection open: there is no
\* timeout for that.
Stall(r) ==
    /\ client[r] = "reading"
    /\ Set(client, r, "stalled")
    /\ UNCHANGED <<runtime, pool, offset, chunk, channel, received>>

Server(r) ==
    \/ CloneDone(r) \/ CloneFails(r) \/ Respond(r)
    \/ ReadChunk(r) \/ ReadFails(r) \/ ReadEnd(r) \/ Send(r) \/ SendFails(r)

Client(r) == PollChunk(r) \/ PollFailure(r) \/ PollEnd(r)

-----------------------------------------------------------------------------
(* The end of the process.                                                 *)

\* main returns, because of a signal or because a server failed.
Stop ==
    /\ runtime = "up"
    /\ runtime' = "stopping"
    /\ UNCHANGED <<pool, offset, chunk, channel, received, client>>

\* Mutant of DropTask: what is being sent is sent to the end.
DropWaiting(r) ==
    /\ runtime = "stopping" /\ client[r] = "waiting"
    /\ Abandon(r, "cut")

\* The runtime drops a task; with a response not yet whole, its connection
\* closes.
DropTask(r) == runtime = "stopping" /\ Abandon(r, "cut")

\* The pool throws away a job that has no thread yet, or still runs it.
DropJob ==
    /\ runtime = "stopping" /\ queue # <<>>
    /\ LET r == Head(queue) IN
          /\ Set(job, r, "over")
          /\ Set(client, r, IF client[r] = "waiting" THEN "failed" ELSE client[r])
    /\ queue' = Tail(queue)
    /\ UNCHANGED <<runtime, running, offset, chunk, channel, received>>

\* The runtime is gone, and the process with it, when every task was dropped
\* and every thread has come back.
Down ==
    /\ runtime = "stopping" /\ queue = <<>> /\ running = {}
    /\ \A r \in Requests : client[r] # "waiting" /\ ~Attached(r)
    /\ runtime' = "down"
    /\ UNCHANGED <<pool, offset, chunk, channel, received, client>>

\* Nothing is left.
Gone == runtime = "down" /\ UNCHANGED vars

Shutdown == DropJob \/ Down \/ \E r \in Requests : DropTask(r)

Next ==
    \/ Start
    \/ \E r \in Requests : Ask(r) \/ Server(r) \/ Client(r) \/ Leave(r) \/ Stall(r)
    \/ Stop \/ Shutdown
    \/ Gone

Spec == Init /\ [][Next]_vars

\* Threads and tasks run on; a client that is sent something takes it, unless
\* it leaves or stalls.  Nobody has to do that or to stop the process.
FairSpec ==
    /\ Spec
    /\ WF_vars(Start) /\ WF_vars(Shutdown)
    /\ \A r \in Requests : WF_vars(Server(r)) /\ WF_vars(Client(r))

-----------------------------------------------------------------------------
(* Properties.                                                             *)

\* A client gets the bytes of the file in their order, none twice and none
\* left out, however short the reads and whichever of them fail, and whatever
\* the other readers of the file do: what it has not received yet of what was
\* read is under way, piece after piece (cache.rs:547-567).
BytesInOrder ==
    \A r \in Requests : Attached(r) =>
        LET sent == channel[r] \o <<chunk[r]>>
            pieces == {i \in DOMAIN sent : sent[i] \notin {NoChunk, Failure}}
            end(i) == sent[i].at + sent[i].len
        IN  /\ received[r] <= offset[r]
            /\ \A i \in pieces : received[r] <= sent[i].at /\ end(i) <= offset[r]
            /\ \A i, j \in pieces : i < j => end(i) <= sent[j].at
            /\ \A n \in received[r] .. offset[r] - 1 :
                  \E i \in pieces : sent[i].at <= n /\ n < end(i)

\* A response whose client stays is whole or visibly broken off: the reader
\* never ends the stream short of the length announced, unless the process is
\* about to go and its connections with it (cache.rs:552, 573).
NeverTruncated ==
    \A r \in Requests :
        /\ client[r] = "truncated" => runtime # "up"
        /\ client[r] = "complete" => received[r] = Size[r]

\* A slow client makes the server hold two chunks at most: one in the channel
\* and one the reader waits to send (cache.rs:543, 561).
Backpressure ==
    \A r \in Requests : Attached(r) =>
        offset[r] - received[r] <= 2 * BufferSize

SomeoneStalls == \E r \in Requests : client[r] = "stalled"

\* Every thread of the pool comes back: a reader ends when its file does or
\* when its client is gone, also when it waits for room.  Only a client that
\* stalls can keep a thread (cache.rs:552, 565).
ThreadsComeBack == \A r \in Requests : r \in running ~> r \notin running \/ SomeoneStalls

\* Every client that asks is answered, though more of them than there are
\* threads ask at once: nobody waits in the queue for ever, unless somebody
\* stalls (cache.rs:544-546).
BodiesEnd ==
    \A r \in Requests :
        client[r] = "waiting" ~> client[r] \notin {"waiting", "reading"} \/ SomeoneStalls

\* A process that is told to stop does stop, although its runtime waits for
\* threads that cannot be interrupted and clients that stall hold them:
\* dropping the tasks wakes the readers (main.rs:155-169, cache.rs:561-568).
StopsForGood == runtime = "stopping" ~> runtime = "down"
=============================================================================
