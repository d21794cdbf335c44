--------------------------- MODULE CapacityPool ---------------------------
(***************************************************************************)
(* CacheCapacityPool and CacheCapacityReservation of src/cache.rs: a count *)
(* of free bytes in one AtomicU64, taken from and given back to by many    *)
(* threads with load / compute / compare_exchange loops.                   *)
(*                                                                         *)
(* Each load and each compare_exchange is a step of its own, so that any   *)
(* number of other threads may act between them.  A load returns the       *)
(* current value: the atomic is one location, and its cache-coherent reads *)
(* are taken to be up to date.                                             *)
(***************************************************************************)
EXTENDS Naturals, FiniteSets, ByteTotals

CONSTANTS
    Threads,    \* threads that use the pool, each with at most one reservation
    Capacity,   \* max_disk_capacity, in bytes
    Sizes,      \* sizes a caller may ask for
    U64Max,     \* the largest value of a u64
    NotLoaded   \* `seen` before the load

ASSUME PoolAssumption ==
    /\ IsFiniteSet(Threads)
    /\ Capacity \in Nat /\ U64Max \in Nat /\ Capacity <= U64Max
    /\ Sizes \subseteq 0..U64Max
    /\ NotLoaded \notin Nat

VARIABLES
    available,  \* available_capacity, the AtomicU64
    reserved,   \* reserved[t]: CacheCapacityReservation.reserved, 0 for none
    op,         \* op[t]: the method t is inside of
    want,       \* want[t]: its `size` argument
    seen        \* seen[t]: available_capacity / current_capacity, its local copy

vars == <<available, reserved, op, want, seen>>

Calls == {"reserve", "reserve_up_to"}

TypeOK ==
    /\ available \in Nat
    /\ reserved \in [Threads -> Nat]
    /\ op \in [Threads -> Calls \cup {"none", "return_to_pool"}]
    /\ want \in [Threads -> 0..U64Max]
    /\ seen \in [Threads -> Nat \cup {NotLoaded}]

\* CacheCapacityPool::new
Init ==
    /\ available = Capacity
    /\ reserved = [t \in Threads |-> 0]
    /\ op = [t \in Threads |-> "none"]
    /\ want = [t \in Threads |-> 0]
    /\ seen = [t \in Threads |-> NotLoaded]

-----------------------------------------------------------------------------
SaturatingSub(m, n) == IF n <= m THEN m - n ELSE 0

\* The method returns and t holds n bytes.
Returns(t, n) ==
    /\ reserved' = [reserved EXCEPT ![t] = n]
    /\ op' = [op EXCEPT ![t] = "none"]
    /\ want' = [want EXCEPT ![t] = 0]
    /\ seen' = [seen EXCEPT ![t] = NotLoaded]

\* Mutant of CompareExchange: a store that does not compare.
Store(t, new, n) == available' = new /\ Returns(t, n)

\* Mutant of CompareExchange: another turn of the loop without another load.
CompareStale(t, new, n) ==
    \/ /\ available = seen[t]
       /\ available' = new
       /\ Returns(t, n)
    \/ available # seen[t] /\ UNCHANGED vars

\* compare_exchange(seen[t], new) and, if it succeeds, the method's return
\* with n bytes; if it fails, another turn of the loop.
CompareExchange(t, new, n) ==
    \/ /\ available = seen[t]
       /\ available' = new
       /\ Returns(t, n)
    \/ /\ available # seen[t]
       /\ seen' = [seen EXCEPT ![t] = NotLoaded]
       /\ UNCHANGED <<available, reserved, op, want>>

Call(t) ==
    /\ op[t] = "none" /\ reserved[t] = 0
    /\ \E call \in Calls, n \in Sizes :
          /\ op' = [op EXCEPT ![t] = call]
          /\ want' = [want EXCEPT ![t] = n]
    /\ UNCHANGED <<available, reserved, seen>>

\* Asking for nothing returns an empty reservation without touching the pool.
ReserveNothing(t) ==
    /\ op[t] \in Calls /\ want[t] = 0
    /\ Returns(t, 0)
    /\ UNCHANGED available

\* reserve: `checked_sub(size)?` gives up when the loaded value is too small.
RefuseReserve(t) ==
    /\ op[t] = "reserve" /\ want[t] > 0 /\ seen[t] = NotLoaded
    /\ available < want[t]
    /\ Returns(t, 0)
    /\ UNCHANGED available

\* Mutant of Load: the difference is not checked.
LoadUnchecked(t) ==
    /\ seen[t] = NotLoaded
    /\ op[t] # "none" /\ (want[t] > 0 \/ op[t] = "return_to_pool")
    /\ seen' = [seen EXCEPT ![t] = available]
    /\ UNCHANGED <<available, reserved, op, want>>

Load(t) ==
    /\ seen[t] = NotLoaded
    /\ \/ op[t] = "reserve" /\ want[t] > 0 /\ available >= want[t]
       \/ op[t] = "reserve_up_to" /\ want[t] > 0
       \/ op[t] = "return_to_pool"
    /\ seen' = [seen EXCEPT ![t] = available]
    /\ UNCHANGED <<available, reserved, op, want>>

SwapReserve(t) ==
    /\ op[t] = "reserve" /\ seen[t] # NotLoaded
    /\ CompareExchange(t, seen[t] - want[t], want[t])

SwapReserveUpTo(t) ==
    LET remaining == SaturatingSub(seen[t], want[t]) IN
    /\ op[t] = "reserve_up_to" /\ seen[t] # NotLoaded
    /\ CompareExchange(t, remaining, seen[t] - remaining)

\* Drop for CacheCapacityReservation; one that holds nothing returns at once.
Drop(t) ==
    /\ op[t] = "none" /\ reserved[t] > 0
    /\ op' = [op EXCEPT ![t] = "return_to_pool"]
    /\ UNCHANGED <<available, reserved, want, seen>>

\* `checked_add(..).expect("disk pool capacity overflowed")` is the second
\* guard: a thread it stops has panicked.  NeverOverflows says none does.
SwapReturn(t) ==
    /\ op[t] = "return_to_pool" /\ seen[t] # NotLoaded
    /\ seen[t] + reserved[t] <= U64Max
    /\ CompareExchange(t, seen[t] + reserved[t], 0)

\* The steps of a method once called.
Step(t) ==
    \/ ReserveNothing(t) \/ RefuseReserve(t) \/ Load(t)
    \/ SwapReserve(t) \/ SwapReserveUpTo(t) \/ SwapReturn(t)

Next == \E t \in Threads : Call(t) \/ Drop(t) \/ Step(t)

Spec == Init /\ [][Next]_vars

\* A thread inside a method keeps running: the loops hold no lock and wait for
\* nobody.  Nothing makes a caller call, or drop what it holds.
FairSpec == Spec /\ \A t \in Threads : WF_vars(Step(t))

-----------------------------------------------------------------------------
(* Properties.                                                             *)

\* No byte of the pool is lost, and none is handed out twice, however the
\* loads and the compare_exchanges of the threads interleave (reserve,
\* reserve_up_to and return_to_pool, cache.rs:619-714).
Conservation == available + TotalBytes(reserved, Threads) = Capacity

\* `checked_sub` finds at the compare_exchange what it found at the load, and
\* the `expect` of return_to_pool never fires, although both work on a value
\* that may be out of date by then (cache.rs:631, 671, 698-700).
NeverOverflows ==
    \A t \in Threads : seen[t] # NotLoaded =>
        /\ op[t] = "reserve" => want[t] <= seen[t]
        /\ op[t] = "return_to_pool" => seen[t] + reserved[t] <= U64Max

\* The loops take effect as if each method ran in one step: the pool
\* implements the ledger.
Ledger == INSTANCE CapacityLedger
    WITH Owners <- Threads,
         op <- [t \in Threads |-> IF op[t] = "return_to_pool" THEN "none" ELSE op[t]]

ImplementsLedger == Ledger!Spec

\* The loops are lock-free: as long as calls are in progress, calls return.
\* (One given thread may lose every compare_exchange to the others.)
LockFree ==
    \/ <>[](\A t \in Threads : op[t] = "none")
    \/ []<><<\E t \in Threads : op[t] # "none" /\ op'[t] = "none">>_vars
=============================================================================
