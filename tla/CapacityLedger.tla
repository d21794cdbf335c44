-------------------------- MODULE CapacityLedger --------------------------
(***************************************************************************)
(* What the disk capacity pool of src/cache.rs promises its users: each    *)
(* call takes effect in one step.  `reserve` gets all the bytes it asks    *)
(* for or is refused because they are not there, `reserve_up_to` gets as   *)
(* many as there are, and a dropped reservation gives its bytes back.      *)
(*                                                                         *)
(* CapacityPool, the compare-and-swap code, implements this specification. *)
(***************************************************************************)
EXTENDS Naturals

CONSTANTS
    Owners,     \* whoever holds a reservation
    Capacity,   \* bytes in the pool at the start
    Sizes       \* sizes a call may ask for

VARIABLES
    available,  \* bytes nobody holds
    reserved,   \* reserved[o]: bytes held by o
    op,         \* op[o]: the call o has in progress, if any
    want        \* want[o]: the size that call asks for

vars == <<available, reserved, op, want>>

Calls == {"reserve", "reserve_up_to"}

Init ==
    /\ available = Capacity
    /\ reserved = [o \in Owners |-> 0]
    /\ op = [o \in Owners |-> "none"]
    /\ want = [o \in Owners |-> 0]

\* Every way in which a call may end: o then holds n bytes.
Ends(o, n) ==
    /\ available' = available - n
    /\ reserved' = [reserved EXCEPT ![o] = n]
    /\ op' = [op EXCEPT ![o] = "none"]
    /\ want' = [want EXCEPT ![o] = 0]

Call(o) ==
    /\ op[o] = "none" /\ reserved[o] = 0
    /\ \E call \in Calls, n \in Sizes :
          /\ op' = [op EXCEPT ![o] = call]
          /\ want' = [want EXCEPT ![o] = n]
    /\ UNCHANGED <<available, reserved>>

Grant(o) ==
    /\ op[o] = "reserve" /\ want[o] <= available
    /\ Ends(o, want[o])

Refuse(o) ==
    /\ op[o] = "reserve" /\ want[o] > available
    /\ Ends(o, 0)

GrantUpTo(o) ==
    /\ op[o] = "reserve_up_to"
    /\ Ends(o, IF want[o] <= available THEN want[o] ELSE available)

Return(o) ==
    /\ reserved[o] > 0
    /\ available' = available + reserved[o]
    /\ reserved' = [reserved EXCEPT ![o] = 0]
    /\ UNCHANGED <<op, want>>

Next ==
    \E o \in Owners : Call(o) \/ Grant(o) \/ Refuse(o) \/ GrantUpTo(o) \/ Return(o)

Spec == Init /\ [][Next]_vars
=============================================================================
