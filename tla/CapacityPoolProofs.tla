------------------------ MODULE CapacityPoolProofs ------------------------
(***************************************************************************)
(* Proofs about CapacityPool, for any number of threads and any sizes.     *)
(*                                                                         *)
(* A compare_exchange that succeeds finds in `available` the very value it *)
(* computed with, so what matters is which values `seen` may have: enough  *)
(* for the caller of reserve, and, for a thread that gives bytes back, so  *)
(* little that the sum stays within the capacity.                          *)
(***************************************************************************)
EXTENDS CapacityPool, ByteTotalsTheorems

\* A thread holds nothing while it asks, something while it gives back, and
\* wants nothing when it is not asking; between
\* calls it has loaded nothing.
CallsAreConsistent ==
    \A t \in Threads :
        /\ op[t] \in Calls => reserved[t] = 0
        /\ op[t] = "return_to_pool" => reserved[t] > 0
        /\ op[t] \notin Calls => want[t] = 0
        /\ op[t] = "none" => seen[t] = NotLoaded

\* What a thread can have loaded.
SeenIsSafe ==
    \A t \in Threads : seen[t] # NotLoaded =>
        /\ op[t] = "reserve" => want[t] <= seen[t]
        /\ op[t] = "return_to_pool" => seen[t] + reserved[t] <= Capacity

PoolInv == TypeOK /\ Conservation /\ CallsAreConsistent /\ SeenIsSafe

\* The reservation of one thread is part of what is not available.
LEMMA ReservedIsBounded ==
    ASSUME PoolInv, NEW t \in Threads
    PROVE  available + reserved[t] <= Capacity
<1>1. TotalBytes(reserved, Threads)
        = TotalBytes(reserved, Threads \ {t}) + reserved[t]
  BY PoolAssumption, TotalSplit DEF PoolInv, TypeOK
<1>2. TotalBytes(reserved, Threads \ {t}) \in Nat
  BY PoolAssumption, FS_RemoveElement, TotalType DEF PoolInv, TypeOK
<1> QED
  BY <1>1, <1>2, PoolAssumption DEF PoolInv, TypeOK, Conservation

\* Moving bytes between `available` and one reservation keeps the sum.
LEMMA TransferConserves ==
    ASSUME PoolInv, NEW t \in Threads, NEW n \in Nat,
           available' \in Nat,
           available' + n = available + reserved[t],
           reserved' = [reserved EXCEPT ![t] = n]
    PROVE  Conservation'
<1>1. reserved \in [Threads -> Nat]
  BY DEF PoolInv, TypeOK
<1>2. TotalBytes([reserved EXCEPT ![t] = n], Threads)
        = TotalBytes(reserved, Threads) - reserved[t] + n
  <2>1. IsFiniteSet(Threads)
    BY PoolAssumption
  <2> QED
    BY <1>1, <2>1, TotalExcept, Zenon
<1>3. TotalBytes(reserved, Threads) \in Nat
  BY <1>1, PoolAssumption, TotalType
<1> QED
  BY <1>1, <1>2, <1>3 DEF PoolInv, TypeOK, Conservation

\* The invariant holds of a full pool.
LEMMA PoolInvInit == Init => PoolInv
<1> SUFFICES ASSUME Init PROVE PoolInv
  OBVIOUS
<1>1. TotalBytes(reserved, Threads) = 0
  BY TotalZero DEF Init
<1> QED
  BY <1>1, PoolAssumption
     DEF Init, PoolInv, TypeOK, Conservation, CallsAreConsistent, SeenIsSafe

\* Every step of the pool's users keeps the invariant.
LEMMA PoolInvStep == PoolInv /\ [Next]_vars => PoolInv'
<1> SUFFICES ASSUME PoolInv, [Next]_vars PROVE PoolInv'
  OBVIOUS
<1> USE PoolAssumption
<1>1. ASSUME NEW t \in Threads, Call(t) PROVE PoolInv'
  <2>1. TypeOK'
    BY <1>1 DEF PoolInv, TypeOK, Call, Calls
  <2>2. CallsAreConsistent'
    BY <1>1 DEF PoolInv, TypeOK, CallsAreConsistent, Call, Calls
  <2>3. SeenIsSafe'
    BY <1>1 DEF PoolInv, TypeOK, CallsAreConsistent, SeenIsSafe, Call, Calls
  <2>4. Conservation'
    BY <1>1 DEF PoolInv, Conservation, Call
  <2> QED
    BY <2>1, <2>2, <2>3, <2>4 DEF PoolInv
<1>2. ASSUME NEW t \in Threads, ReserveNothing(t) \/ RefuseReserve(t)
      PROVE  PoolInv'
  <2>1. reserved' = reserved /\ available' = available
    BY <1>2 DEF PoolInv, TypeOK, CallsAreConsistent, ReserveNothing, RefuseReserve,
                Returns, Calls
  <2>2. TypeOK' /\ CallsAreConsistent' /\ SeenIsSafe'
    BY <1>2, <2>1 DEF PoolInv, TypeOK, CallsAreConsistent, SeenIsSafe, ReserveNothing,
                RefuseReserve, Returns, Calls
  <2>3. Conservation'
    BY <2>1 DEF PoolInv, Conservation
  <2> QED
    BY <2>2, <2>3 DEF PoolInv
<1>3. ASSUME NEW t \in Threads, Load(t) PROVE PoolInv'
  <2>1. TypeOK' /\ CallsAreConsistent'
    BY <1>3 DEF PoolInv, TypeOK, CallsAreConsistent, Load, Calls
  <2>2. SeenIsSafe'
    BY <1>3, ReservedIsBounded DEF PoolInv, TypeOK, SeenIsSafe, Load
  <2>3. Conservation'
    BY <1>3 DEF PoolInv, Conservation, Load
  <2> QED
    BY <2>1, <2>2, <2>3 DEF PoolInv
<1>4. ASSUME NEW t \in Threads, Drop(t) PROVE PoolInv'
  <2>1. TypeOK'
    BY <1>4 DEF PoolInv, TypeOK, Drop, Calls
  <2>2. CallsAreConsistent'
    BY <1>4 DEF PoolInv, TypeOK, CallsAreConsistent, Drop, Calls
  <2>3. SeenIsSafe'
    BY <1>4 DEF PoolInv, TypeOK, CallsAreConsistent, SeenIsSafe, Drop, Calls
  <2>4. Conservation'
    BY <1>4 DEF PoolInv, Conservation, Drop
  <2> QED
    BY <2>1, <2>2, <2>3, <2>4 DEF PoolInv
<1>5. ASSUME NEW t \in Threads, NEW new \in Nat, NEW n \in Nat,
             CompareExchange(t, new, n), new + n = seen[t] + reserved[t],
             op[t] \in Calls \/ n = 0
      PROVE  PoolInv'
  \* every compare_exchange of the code is of this form
  <2>1. TypeOK' /\ CallsAreConsistent' /\ SeenIsSafe'
    BY <1>5 DEF PoolInv, TypeOK, CallsAreConsistent, SeenIsSafe, CompareExchange,
                Returns, Calls
  <2>2. CASE available = seen[t]
    BY <1>5, <2>1, <2>2, TransferConserves DEF CompareExchange, Returns, PoolInv
  <2>3. CASE available # seen[t]
    BY <1>5, <2>1, <2>3 DEF CompareExchange, PoolInv, Conservation
  <2> QED
    BY <2>2, <2>3
<1>6. ASSUME NEW t \in Threads, SwapReserve(t) PROVE PoolInv'
  <2>1. /\ seen[t] - want[t] \in Nat /\ want[t] \in Nat
        /\ op[t] \in Calls /\ reserved[t] = 0
    BY <1>6 DEF PoolInv, TypeOK, CallsAreConsistent, SeenIsSafe, SwapReserve, Calls
  <2>2. (seen[t] - want[t]) + want[t] = seen[t] + reserved[t]
    BY <1>6, <2>1 DEF PoolInv, TypeOK, SwapReserve
  <2> QED
    BY <1>5, <1>6, <2>1, <2>2 DEF SwapReserve
<1>7. ASSUME NEW t \in Threads, SwapReserveUpTo(t) PROVE PoolInv'
  <2> DEFINE remaining == SaturatingSub(seen[t], want[t])
  <2>1. /\ remaining \in Nat /\ seen[t] - remaining \in Nat
        /\ op[t] \in Calls /\ reserved[t] = 0
    BY <1>7 DEF PoolInv, TypeOK, CallsAreConsistent, SwapReserveUpTo, Calls, SaturatingSub
  <2>2. remaining + (seen[t] - remaining) = seen[t] + reserved[t]
    BY <1>7, <2>1 DEF PoolInv, TypeOK, SwapReserveUpTo
  <2> QED
    BY <1>5, <1>7, <2>1, <2>2 DEF SwapReserveUpTo
<1>8. ASSUME NEW t \in Threads, SwapReturn(t) PROVE PoolInv'
  <2>1. seen[t] + reserved[t] \in Nat
    BY <1>8 DEF PoolInv, TypeOK, SwapReturn
  <2> QED
    BY <1>5, <1>8, <2>1 DEF SwapReturn
<1>9. CASE UNCHANGED vars
  BY <1>9 DEF vars, PoolInv, TypeOK, Conservation, CallsAreConsistent, SeenIsSafe
<1> QED
  BY <1>1, <1>2, <1>3, <1>4, <1>6, <1>7, <1>8, <1>9 DEF Next, Step

\* The inductive invariant holds in every reachable state.
THEOREM PoolInvariance == Spec => []PoolInv
  BY PoolInvInit, PoolInvStep, PTL DEF Spec

\* The variables of the pool keep their types (cache.rs:606-614, 681-685).
THEOREM PoolTypeCorrect == Spec => []TypeOK
<1>1. PoolInv => TypeOK
  BY DEF PoolInv
<1> QED
  BY <1>1, PoolInvariance, PTL

\* The bytes of the pool are conserved, for any threads (cache.rs:619-714).
THEOREM PoolConserves == Spec => []Conservation
<1>1. PoolInv => Conservation
  BY DEF PoolInv
<1> QED
  BY <1>1, PoolInvariance, PTL

\* No subtraction or addition of the pool leaves the range of a u64, so the
\* unwrap at cache.rs:671 and the expect at 698-700 never panic.
THEOREM PoolNeverOverflows == Spec => []NeverOverflows
<1>1. PoolInv => NeverOverflows
  BY PoolAssumption DEF PoolInv, TypeOK, SeenIsSafe, NeverOverflows
<1> QED
  BY <1>1, PoolInvariance, PTL

-----------------------------------------------------------------------------
\* A full pool is a full ledger.
LEMMA LedgerInit == Init => Ledger!Init
  BY DEF Init, Ledger!Init

\* Every step of the pool is a step of the ledger, or changes nothing it shows.
LEMMA LedgerStep == PoolInv /\ [Next]_vars => [Ledger!Next]_(Ledger!vars)
<1> SUFFICES ASSUME PoolInv, [Next]_vars PROVE [Ledger!Next]_(Ledger!vars)
  OBVIOUS
<1> USE PoolAssumption
<1> DEFINE method == [t \in Threads |-> IF op[t] = "return_to_pool" THEN "none" ELSE op[t]]
<1>1. ASSUME NEW t \in Threads, Call(t) PROVE Ledger!Call(t)
  <2>1. op \in [Threads -> Calls \cup {"none", "return_to_pool"}]
    BY DEF PoolInv, TypeOK
  <2>2. PICK call \in Calls, n \in Sizes :
            op' = [op EXCEPT ![t] = call] /\ want' = [want EXCEPT ![t] = n]
    BY <1>1 DEF Call
  <2>3. method' = [method EXCEPT ![t] = call]
    BY <2>1, <2>2 DEF Calls
  <2>4. method[t] = "none"
    BY <1>1 DEF Call
  <2> QED
    BY <1>1, <2>2, <2>3, <2>4 DEF Call, Calls, Ledger!Call, Ledger!Calls
<1>2. ASSUME NEW t \in Threads, op' = [op EXCEPT ![t] = "none"]
      PROVE  method' = [method EXCEPT ![t] = "none"]
  <2>1. op \in [Threads -> Calls \cup {"none", "return_to_pool"}]
    BY DEF PoolInv, TypeOK
  <2> QED
    BY <1>2, <2>1
<1>3. ASSUME NEW t \in Threads, ReserveNothing(t)
      PROVE  Ledger!Grant(t) \/ Ledger!GrantUpTo(t)
  <2>1. /\ want[t] = 0 /\ available \in Nat
        /\ available' = available /\ reserved' = [reserved EXCEPT ![t] = 0]
        /\ want' = [want EXCEPT ![t] = 0]
    BY <1>3 DEF ReserveNothing, Returns, PoolInv, TypeOK
  <2>2. method' = [method EXCEPT ![t] = "none"]
    BY <1>2, <1>3 DEF ReserveNothing, Returns
  <2>3. method[t] \in Calls
    BY <1>3 DEF ReserveNothing, Calls
  <2> QED
    BY <2>1, <2>2, <2>3 DEF Calls, Ledger!Grant, Ledger!GrantUpTo, Ledger!Ends
<1>4. ASSUME NEW t \in Threads, RefuseReserve(t) PROVE Ledger!Refuse(t)
  <2>1. /\ want[t] > available /\ available \in Nat
        /\ available' = available /\ reserved' = [reserved EXCEPT ![t] = 0]
        /\ want' = [want EXCEPT ![t] = 0]
    BY <1>4 DEF RefuseReserve, Returns, PoolInv, TypeOK
  <2>2. method' = [method EXCEPT ![t] = "none"]
    BY <1>2, <1>4 DEF RefuseReserve, Returns
  <2>3. method[t] = "reserve"
    BY <1>4 DEF RefuseReserve
  <2> QED
    BY <2>1, <2>2, <2>3 DEF Ledger!Refuse, Ledger!Ends
<1>5. ASSUME NEW t \in Threads, Load(t) \/ Drop(t) PROVE UNCHANGED Ledger!vars
  BY <1>5 DEF Load, Drop, Ledger!vars, PoolInv, TypeOK
<1>6. ASSUME NEW t \in Threads, NEW new, NEW n, CompareExchange(t, new, n),
             available # seen[t]
      PROVE  UNCHANGED Ledger!vars
  BY <1>6 DEF CompareExchange, Ledger!vars
<1>7. ASSUME NEW t \in Threads, SwapReserve(t), available = seen[t]
      PROVE  Ledger!Grant(t)
  <2>1. /\ want[t] \in Nat /\ want[t] <= available
        /\ available' = available - want[t]
        /\ reserved' = [reserved EXCEPT ![t] = want[t]]
        /\ want' = [want EXCEPT ![t] = 0]
    BY <1>7 DEF SwapReserve, CompareExchange, Returns, PoolInv, TypeOK, SeenIsSafe
  <2>2. method' = [method EXCEPT ![t] = "none"]
    BY <1>2, <1>7 DEF SwapReserve, CompareExchange, Returns
  <2>3. method[t] = "reserve"
    BY <1>7 DEF SwapReserve
  <2> QED
    BY <2>1, <2>2, <2>3 DEF Ledger!Grant, Ledger!Ends
<1>8. ASSUME NEW t \in Threads, SwapReserveUpTo(t), available = seen[t]
      PROVE  Ledger!GrantUpTo(t)
  <2> DEFINE got == IF want[t] <= available THEN want[t] ELSE available
  <2>1. /\ available' = available - got
        /\ reserved' = [reserved EXCEPT ![t] = got]
        /\ want' = [want EXCEPT ![t] = 0]
    BY <1>8 DEF SwapReserveUpTo, CompareExchange, Returns, SaturatingSub, PoolInv, TypeOK
  <2>2. method' = [method EXCEPT ![t] = "none"]
    BY <1>2, <1>8 DEF SwapReserveUpTo, CompareExchange, Returns
  <2>3. method[t] = "reserve_up_to"
    BY <1>8 DEF SwapReserveUpTo
  <2> QED
    BY <2>1, <2>2, <2>3 DEF Ledger!GrantUpTo, Ledger!Ends
<1>9. ASSUME NEW t \in Threads, SwapReturn(t), available = seen[t]
      PROVE  Ledger!Return(t)
  <2>1. reserved[t] > 0 /\ want[t] = 0
    BY <1>9 DEF SwapReturn, PoolInv, CallsAreConsistent, Calls
  <2>2. /\ available' = available + reserved[t]
        /\ reserved' = [reserved EXCEPT ![t] = 0]
        /\ want' = want
    BY <1>9, <2>1 DEF SwapReturn, CompareExchange, Returns, PoolInv, TypeOK
  <2>3. op[t] = "return_to_pool" /\ op' = [op EXCEPT ![t] = "none"]
    BY <1>9 DEF SwapReturn, CompareExchange, Returns
  <2>4. method' = method
    BY <2>3 DEF PoolInv, TypeOK
  <2> QED
    BY <2>1, <2>2, <2>4 DEF Ledger!Return
<1>10. CASE UNCHANGED vars
  BY <1>10 DEF vars, Ledger!vars
<1>11. ASSUME NEW t \in Threads, SwapReserve(t) \/ SwapReserveUpTo(t) \/ SwapReturn(t),
              available # seen[t]
       PROVE  UNCHANGED Ledger!vars
  BY <1>6, <1>11 DEF SwapReserve, SwapReserveUpTo, SwapReturn
<1> QED
  BY <1>1, <1>3, <1>4, <1>5, <1>7, <1>8, <1>9, <1>10, <1>11
     DEF Next, Step, Ledger!Next

\* The compare-and-swap loops implement the pool whose calls are single steps
\* (cache.rs:606-721).
THEOREM PoolImplementsLedger == Spec => ImplementsLedger
  BY LedgerInit, LedgerStep, PoolInvariance, PTL DEF Spec, ImplementsLedger, Ledger!Spec
=============================================================================
