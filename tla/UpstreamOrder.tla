--------------------------- MODULE UpstreamOrder ---------------------------
(***************************************************************************)
(* What a fallthrough promises (src/config.rs, UpstreamConfig): its        *)
(* upstreams are tried one after the other, the first success is the       *)
(* result, and without one the result is an error if any of them failed,   *)
(* and "not found" otherwise.                                              *)
(***************************************************************************)
EXTENDS Naturals, Sequences

CONSTANTS NoUpstream, NoReply

VARIABLES
    order,  \* the upstreams, in the order to try them
    asked,  \* the replies so far, in the order they came
    result  \* the reply of the fallthrough

vars == <<order, asked, result>>

\* Ok(Some(_)), Ok(None) or Err(_), and the upstream it comes from.
Found(u) == [kind |-> "found", from |-> u]
Failed(u) == [kind |-> "error", from |-> u]
NotFound == [kind |-> "not_found", from |-> NoUpstream]

Init == asked = <<>> /\ result = NoReply

Ask ==
    /\ result = NoReply /\ Len(asked) < Len(order)
    /\ \A i \in DOMAIN asked : asked[i].kind # "found"
    /\ LET u == order[Len(asked) + 1] IN
       \E reply \in {Found(u), Failed(u), NotFound} : asked' = Append(asked, reply)
    /\ UNCHANGED <<order, result>>

Conclude ==
    /\ result = NoReply
    /\ \/ /\ asked # <<>> /\ asked[Len(asked)].kind = "found"
          /\ result' = asked[Len(asked)]
       \/ /\ Len(asked) = Len(order)
          /\ \A i \in DOMAIN asked : asked[i].kind = "not_found"
          /\ result' = NotFound
       \/ /\ Len(asked) = Len(order)
          /\ \A i \in DOMAIN asked : asked[i].kind # "found"
          /\ \E i \in DOMAIN asked :
                /\ asked[i].kind = "error"
                /\ \A j \in 1..i - 1 : asked[j].kind = "not_found"
                /\ result' = asked[i]
    /\ UNCHANGED <<order, asked>>

Spec == Init /\ [][Ask \/ Conclude]_vars
=============================================================================
