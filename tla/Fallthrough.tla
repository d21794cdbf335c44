---------------------------- MODULE Fallthrough ----------------------------
(***************************************************************************)
(* Upstream::get of FallthroughUpstream, HttpUpstream and S3Upstream in    *)
(* src/upstream.  The upstreams of a fallthrough may be fallthroughs       *)
(* themselves, as build_upstream of src/main.rs makes them from a nested   *)
(* configuration; the others send one request and interpret what comes of  *)
(* it.                                                                     *)
(***************************************************************************)
EXTENDS Naturals, Sequences, FiniteSets, SequencesExt

CONSTANTS
    Upstreams,  \* every configured upstream
    Children,   \* Children[f]: the list of fallthrough f
    Buckets,    \* the S3 upstreams; those that are left are HTTP upstreams
    Prefixed,   \* S3 upstreams with a prefix
    Roots,      \* the fallthroughs a Cache may have for its upstream
    Depth,      \* Depth[u]: how deep fallthroughs are nested in u
    NoUpstream, NoReply

VARIABLES
    root,   \* the upstream that is asked
    bare,   \* the path asked for is nothing but slashes
    calls,  \* the calls of FallthroughUpstream::get in progress, outermost first
    reply,  \* what the last call that returned came to
    heard,  \* what came of the requests that were sent, in order
    asked,  \* replies of the upstreams that are no fallthroughs, in order
    result  \* what the call to root came to

vars == <<root, bare, calls, reply, heard, asked, result>>

Fallthroughs == DOMAIN Children

Found(u) == [kind |-> "found", from |-> u]
Failed(u) == [kind |-> "error", from |-> u]
NotFound == [kind |-> "not_found", from |-> NoUpstream]
Replies == [kind : {"found", "error", "not_found"}, from : Upstreams \cup {NoUpstream}]

\* A configuration is a tree: a list does not contain itself.
ASSUME FallthroughAssumption ==
    /\ Roots \subseteq Fallthroughs /\ Fallthroughs \subseteq Upstreams
    /\ \A f \in Fallthroughs : Children[f] \in Seq(Upstreams)
    /\ Prefixed \subseteq Buckets /\ Buckets \subseteq Upstreams \ Fallthroughs
    /\ NoUpstream \notin Upstreams /\ NoReply \notin Replies
    /\ IsFiniteSet(Upstreams) /\ Depth \in [Upstreams -> 0..Cardinality(Upstreams)]
    /\ \A f \in Fallthroughs : \A i \in DOMAIN Children[f] :
          Depth[Children[f][i]] < Depth[f]

\* The class of the final response of a server, redirects followed; the answers
\* of S3; and requests that come to no response, or have no URL.  What is taken
\* for a resource includes a 3xx that cannot be followed: one without a Location,
\* or "not modified".
Accepted == {"2xx", "3xx", "object"}
Absences == {"404", "no_such_key"}
Failures == {"4xx", "5xx", "s3_error", "no_response", "no_url"}

\* A call: its upstream, how many of its list it is done with, and first_error.
Calls == [of : Fallthroughs, done : Nat, first_error : Replies \cup {NoReply}]

TypeOK ==
    /\ root \in Roots /\ calls \in Seq(Calls)
    /\ reply \in Replies \cup {NoReply} /\ result \in Replies \cup {NoReply}
    /\ asked \in Seq(Replies) /\ heard \in Seq(Accepted \cup Absences \cup Failures)
    /\ bare \in BOOLEAN

Begin(f) == [of |-> f, done |-> 0, first_error |-> NoReply]

Init ==
    /\ root \in Roots /\ calls = <<Begin(root)>>
    /\ bare \in BOOLEAN /\ heard = <<>>
    /\ reply = NoReply /\ asked = <<>> /\ result = NoReply

call == Last(calls)
HasNext == call.done < Len(Children[call.of])
Upcoming == Children[call.of][call.done + 1]

\* The innermost call awaits its next upstream.
Enter ==
    /\ calls # <<>> /\ reply = NoReply /\ HasNext
    /\ Upcoming \in Fallthroughs
    /\ calls' = Append(calls, Begin(Upcoming))
    /\ UNCHANGED <<root, bare, reply, heard, asked, result>>

\* Mutant of HttpReply: error_for_status comes first.
HttpReplyStrict(u, response) ==
    IF response \in {"2xx", "3xx"} THEN Found(u) ELSE Failed(u)

\* Only 404 is "not found"; error_for_status lets everything below 400 pass.
HttpReply(u, response) ==
    CASE response = "404" -> NotFound
      [] response \in {"2xx", "3xx"} -> Found(u)
      [] OTHER -> Failed(u)

S3Reply(u, response) ==
    CASE response = "object" -> Found(u)
      [] response = "no_such_key" -> NotFound
      [] OTHER -> Failed(u)

Reply(r) == reply' = r /\ asked' = Append(asked, r)
Hear(response) == heard' = Append(heard, response)

\* A server is sent a request, if its URL can be joined with the path.
AskHttp(u) ==
    /\ u \notin Fallthroughs \cup Buckets
    /\ \E response \in {"2xx", "3xx", "404", "4xx", "5xx", "no_response", "no_url"} :
          Reply(HttpReply(u, response)) /\ Hear(response)

\* A bucket is not asked for an object without a name.
AskS3(u) ==
    /\ u \in Buckets
    /\ IF bare /\ u \notin Prefixed
       THEN Reply(NotFound) /\ UNCHANGED heard
       ELSE \E response \in {"object", "no_such_key", "s3_error", "no_response"} :
               Reply(S3Reply(u, response)) /\ Hear(response)

Ask ==
    /\ calls # <<>> /\ reply = NoReply /\ HasNext
    /\ AskHttp(Upcoming) \/ AskS3(Upcoming)
    /\ UNCHANGED <<root, bare, calls, result>>

\* A success is returned at once.
Return ==
    /\ calls # <<>> /\ reply # NoReply /\ reply.kind = "found"
    /\ calls' = Front(calls)
    /\ UNCHANGED <<root, bare, reply, heard, asked, result>>

\* Mutant of Continue: the last error replaces the ones before.
ContinueKeepingLast ==
    /\ calls # <<>> /\ reply # NoReply /\ reply.kind # "found"
    /\ LET keep == reply.kind = "error" IN
       calls' = [calls EXCEPT ![Len(calls)].done = @ + 1,
                              ![Len(calls)].first_error = IF keep THEN reply ELSE @]
    /\ reply' = NoReply
    /\ UNCHANGED <<root, bare, heard, asked, result>>

\* Mutant of Continue: the list is walked the other way.
ContinueBackwards ==
    /\ calls # <<>> /\ reply # NoReply /\ reply.kind # "found"
    /\ calls' = [calls EXCEPT ![Len(calls)].done = @ - 1]
    /\ reply' = NoReply
    /\ UNCHANGED <<root, bare, heard, asked, result>>

\* Otherwise the call goes on with its list; it keeps the first error.
Continue ==
    /\ calls # <<>> /\ reply # NoReply /\ reply.kind # "found"
    /\ LET keep == reply.kind = "error" /\ call.first_error = NoReply IN
       calls' = [calls EXCEPT ![Len(calls)].done = @ + 1,
                              ![Len(calls)].first_error = IF keep THEN reply ELSE @]
    /\ reply' = NoReply
    /\ UNCHANGED <<root, bare, heard, asked, result>>

\* The list is exhausted.
Exhausted ==
    /\ calls # <<>> /\ reply = NoReply /\ ~ HasNext
    /\ reply' = IF call.first_error # NoReply THEN call.first_error ELSE NotFound
    /\ calls' = Front(calls)
    /\ UNCHANGED <<root, bare, heard, asked, result>>

\* The outermost call has returned.
Done ==
    /\ calls = <<>> /\ result = NoReply
    /\ result' = reply
    /\ UNCHANGED <<root, bare, calls, reply, heard, asked>>

\* The call is over.
Over == result # NoReply /\ UNCHANGED vars

Next == Enter \/ Ask \/ Return \/ Continue \/ Exhausted \/ Done \/ Over

Spec == Init /\ [][Next]_vars

-----------------------------------------------------------------------------
(* Properties.                                                             *)

\* The upstreams under one, depth first.
Leaves[u \in Upstreams] ==
    IF u \in Fallthroughs
    THEN FlattenSeq([i \in DOMAIN Children[u] |-> Leaves[Children[u][i]]])
    ELSE <<u>>

Promise == INSTANCE UpstreamOrder WITH order <- Leaves[root]

\* However fallthroughs are nested, and an error in an inner one notwithstanding,
\* the result is what config.rs:118-120 says of one flat list, and no upstream
\* is asked out of turn, twice or after a success (fallthrough.rs:18-35).
ImplementsOrder == Promise!Spec

\* The result follows from what was heard.  One that is found is the last thing
\* heard and the first that is accepted, whatever failed before it; "not found"
\* means that nothing failed, so that a failure never passes for absence; an
\* error, that something failed and nothing was accepted.  That a 3xx that is not
\* followed is accepted too is what the code does, and not what its
\* documentation says (fallthrough.rs:18-36, http.rs:50-54, s3.rs:71-82).
ResultIsJustified ==
    result # NoReply =>
        LET said == ToSet(heard) IN
        CASE result.kind = "found" ->
                /\ Last(heard) \in Accepted
                /\ ToSet(Front(heard)) \cap Accepted = {}
          [] result.kind = "not_found" -> said \subseteq Absences
          [] result.kind = "error" ->
                /\ said \cap Accepted = {} /\ said \cap Failures # {}

-----------------------------------------------------------------------------
(* What the documentation says, and the code does not do.                  *)

\* README.md:18: "Only successful (2xx) responses are considered valid", and
\* redirects are followed "instead of being returned".
OnlySuccessIsValid ==
    result # NoReply /\ result.kind = "found" => Last(heard) \in {"2xx", "object"}
=============================================================================
