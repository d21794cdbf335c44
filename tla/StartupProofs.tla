--------------------------- MODULE StartupProofs ---------------------------
(***************************************************************************)
(* Proofs about module Startup: for all settings and limits, all hosts and *)
(* any number of servers, and for integers of any width.                   *)
(***************************************************************************)
EXTENDS Startup, TLAPS

\* What ties the files of the cache and the servers to the stage of main.
StageInv ==
    /\ stage = "config" => files = None /\ table = {}
    /\ stage = "build" => bound = {} /\ handlers = {} /\ signalled = {}
    /\ stage = "config" => bound = {} /\ handlers = {} /\ signalled = {}
    /\ stage = "serve" => table = configured /\ table # {}

\* The inductive invariant: the types, the stages and the safety properties.
IInv ==
    /\ TypeOK /\ StageInv
    /\ DescriptorsSuffice /\ PanicsExplained /\ ListensWithFullTable /\ ExitExplained

\* The sums of CacheStorage::new are numbers, and the minimum is one at least
\* unless the settings say zero (cache.rs:28-38).
LEMMA LeastFilesType ==
    ASSUME NEW s \in Settings
    PROVE  /\ LeastFiles(s) \in Nat
           /\ MinSoftLimit(s) \in Nat
           /\ s.max_cache_files = None => LeastFiles(s) >= s.min_cache_files
<1>1. /\ U64Max \in Nat /\ None \notin Nat
      /\ s.max_cache_files \in U64 \cup {None} /\ s.min_cache_files \in U64
      /\ s.min_non_cache_files \in U64
  BY StartupAssumption DEF Settings
<1> QED BY <1>1 DEF LeastFiles, MinSoftLimit, U64

\* When the hard limit is high enough, the soft limit in force is as well, and
\* it holds the files of the cache and those set aside (cache.rs:45-63).
LEMMA StorageArithmetic ==
    ASSUME NEW s \in Settings, NEW l \in Limits,
           MinSoftLimit(s) <= l.hard,
           MaxCacheFiles(s, l) \in 1..MaxEntries
    PROVE  /\ MaxCacheFiles(s, l) \in U64
           /\ [l EXCEPT !.soft = SoftLimit(s, l)] \in Limits
           /\ MaxCacheFiles(s, l) + s.min_non_cache_files <= SoftLimit(s, l)
           /\ s.max_cache_files = None => MaxCacheFiles(s, l) >= s.min_cache_files
<1>1. /\ U64Max \in Nat /\ None \notin Nat /\ MaxEntries \in U64
      /\ s.max_cache_files \in U64 \cup {None} /\ s.min_cache_files \in U64
      /\ s.min_non_cache_files \in U64
      /\ l \in [soft : U64, hard : U64] /\ l.soft <= l.hard
  BY StartupAssumption DEF Settings, Limits
<1>2. /\ LeastFiles(s) \in Nat /\ MinSoftLimit(s) \in Nat
      /\ s.max_cache_files = None => LeastFiles(s) >= s.min_cache_files
  BY LeastFilesType
<1>3. /\ SoftLimit(s, l) \in U64 /\ SoftLimit(s, l) <= l.hard
      /\ MinSoftLimit(s) <= SoftLimit(s, l)
  BY <1>1, <1>2 DEF SoftLimit, U64
<1>4. MaxCacheFiles(s, l) \in U64
  BY <1>1 DEF U64
<1>5. [l EXCEPT !.soft = SoftLimit(s, l)] \in Limits
  BY <1>1, <1>3 DEF Limits
<1>6. LeastFiles(s) <= MaxCacheFiles(s, l)
  <2>1. CASE s.max_cache_files # None
    BY <2>1, <1>1 DEF LeastFiles, MaxCacheFiles, U64
  <2>2. CASE s.max_cache_files = None
    BY <2>2, <1>1, <1>2, <1>3 DEF MinSoftLimit, MaxCacheFiles, U64
  <2> QED BY <2>1, <2>2
<1>7. MaxCacheFiles(s, l) + s.min_non_cache_files <= SoftLimit(s, l)
  <2>1. CASE s.max_cache_files # None
    BY <2>1, <1>1, <1>3 DEF LeastFiles, MaxCacheFiles, MinSoftLimit, U64
  <2>2. CASE s.max_cache_files = None
    BY <2>2, <1>1, <1>3 DEF MaxCacheFiles, U64
  <2> QED BY <2>1, <2>2
<1> QED BY <1>1, <1>2, <1>4, <1>5, <1>6, <1>7 DEF U64

LEMMA StartupInit == Init => IInv
BY StartupAssumption DEF Init, IInv, TypeOK, StageInv, DescriptorsSuffice,
   PanicsExplained, ListensWithFullTable, ExitExplained, Over, U64

-----------------------------------------------------------------------------
(* One lemma per step that changes more than the stage.                    *)

LEMMA CreateStorageKeeps == IInv /\ CreateStorage => IInv'
<1> SUFFICES ASSUME IInv, CreateStorage PROVE IInv'
  OBVIOUS
<1>1. /\ settings \in Settings /\ limits \in Limits /\ stage = "config"
      /\ MinSoftLimit(settings) <= limits.hard
      /\ MaxCacheFiles(settings, limits) \in 1..MaxEntries
      /\ files' = MaxCacheFiles(settings, limits)
      /\ limits' = [limits EXCEPT !.soft = SoftLimit(settings, limits)]
      /\ stage' = "build"
      /\ UNCHANGED <<settings, configured, table, shared, bound, handlers, signalled>>
  BY DEF IInv, TypeOK, CreateStorage, LimitsSuffice, upstreams, serving
<1>2. /\ files' \in U64 /\ limits' \in Limits
      /\ files' + settings.min_non_cache_files <= SoftLimit(settings, limits)
      /\ settings.max_cache_files = None => files' >= settings.min_cache_files
  BY <1>1, StorageArithmetic
<1>3. limits'.soft = SoftLimit(settings, limits) /\ limits'.soft <= limits'.hard
  BY <1>1, <1>2 DEF Limits
<1>4. TypeOK'
  BY <1>1, <1>2 DEF IInv, TypeOK
<1>5. DescriptorsSuffice'
  BY <1>1, <1>2, <1>3 DEF DescriptorsSuffice, MaxCacheFiles
<1>6. /\ StageInv' /\ PanicsExplained' /\ ListensWithFullTable' /\ ExitExplained'
  BY <1>1 DEF IInv, StageInv, PanicsExplained, ListensWithFullTable, ExitExplained
<1> QED BY <1>4, <1>5, <1>6 DEF IInv

\* The steps at whose end the process has panicked.
LEMMA PanicKeeps == IInv /\ (SumOverflows \/ CapacityImpossible) => IInv'
<1> SUFFICES ASSUME IInv, SumOverflows \/ CapacityImpossible PROVE IInv'
  OBVIOUS
<1>1. /\ stage = "config" /\ stage' = "panic"
      /\ settings \in Settings /\ limits \in Limits
      /\ UNCHANGED <<settings, limits, files, configured, table, shared, bound,
                     handlers, signalled>>
  BY DEF IInv, TypeOK, SumOverflows, CapacityImpossible, LimitsSuffice, Exit,
         storage, upstreams, serving
<1>2. \/ settings.max_cache_files = 0
      \/ MinSoftLimit(settings) > U64Max
      \/ MaxCacheFiles(settings, limits) > MaxEntries
  <2>1. CASE SumOverflows
    BY <2>1 DEF SumOverflows
  <2>2. CASE CapacityImpossible
    <3>1. /\ U64Max \in Nat /\ None \notin Nat /\ MaxEntries \in Nat
          /\ settings.max_cache_files \in U64 \cup {None}
          /\ settings.min_cache_files \in U64 /\ settings.min_non_cache_files \in U64
          /\ limits.soft \in U64 /\ limits.hard \in U64
      BY <1>1, StartupAssumption DEF Settings, Limits, U64
    <3>2. MaxCacheFiles(settings, limits) \notin 1..MaxEntries
      BY <2>2 DEF CapacityImpossible
    <3>3. CASE settings.max_cache_files # None
      BY <3>1, <3>2, <3>3 DEF MaxCacheFiles, U64
    <3>4. CASE settings.max_cache_files = None
      <4>1. /\ SoftLimit(settings, limits) \in Nat
            /\ SoftLimit(settings, limits) >= MinSoftLimit(settings)
        BY <1>1, <3>1, LeastFilesType DEF SoftLimit, U64
      <4>2. LeastFiles(settings) >= 1 /\ LeastFiles(settings) \in Nat
        BY <3>1, <3>4 DEF LeastFiles, U64
      <4>3. /\ MaxCacheFiles(settings, limits) \in Nat
            /\ MaxCacheFiles(settings, limits) >= 1
        BY <3>1, <3>4, <4>1, <4>2 DEF MaxCacheFiles, MinSoftLimit, U64
      <4> QED BY <3>1, <3>2, <4>3
    <3> QED BY <3>3, <3>4
  <2> QED BY <2>1, <2>2
<1> QED
  BY <1>1, <1>2 DEF IInv, TypeOK, StageInv, DescriptorsSuffice, PanicsExplained,
     ListensWithFullTable, ExitExplained, Over, MinSoftLimit, LeastFiles,
     MaxCacheFiles, SoftLimit

\* The steps at whose end main has returned.
LEMMA ReturnKeeps ==
    IInv /\ (LimitTooLow \/ Refuse \/ HandlerFails \/ ShutDown
             \/ \E s \in Servers : BindFails(s)) => IInv'
<1> SUFFICES ASSUME IInv,
                    LimitTooLow \/ Refuse \/ HandlerFails \/ ShutDown
                    \/ \E s \in Servers : BindFails(s)
             PROVE  IInv'
  OBVIOUS
<1>1. /\ UNCHANGED <<settings, limits, files, configured, table, shared, bound,
                     handlers, signalled>>
      /\ \/ stage' = "error"
         \/ stage' = "ok" /\ handlers \cap signalled # {} /\ stage = "serve"
  BY DEF LimitTooLow, Refuse, HandlerFails, ShutDown, BindFails, Exit,
         storage, upstreams, serving
<1> QED
  BY <1>1 DEF IInv, TypeOK, StageInv, DescriptorsSuffice, PanicsExplained,
     ListensWithFullTable, ExitExplained, Over

\* The steps of the stages "build" and "serve" that go on.
LEMMA ServingKeeps ==
    IInv /\ (Serve \/ (\E g \in Signals : InstallHandler(g) \/ Signal(g))
             \/ (\E u \in configured : Build(u))
             \/ \E s \in Servers : Bind(s)) => IInv'
<1> SUFFICES ASSUME IInv,
                    Serve \/ (\E g \in Signals : InstallHandler(g) \/ Signal(g))
                    \/ (\E u \in configured : Build(u))
                    \/ \E s \in Servers : Bind(s)
             PROVE  IInv'
  OBVIOUS
<1>0. UNCHANGED <<settings, limits, files, configured>>
  BY DEF Serve, InstallHandler, Signal, Build, Bind, storage, upstreams
<1>1. DescriptorsSuffice'
  BY <1>0 DEF IInv, DescriptorsSuffice
<1>2. CASE Serve
  BY <1>0, <1>1, <1>2 DEF IInv, TypeOK, StageInv, PanicsExplained, upstreams, serving,
     ListensWithFullTable, ExitExplained, Over, Serve, Exit
<1>3. CASE \E g \in Signals : InstallHandler(g)
  BY <1>0, <1>1, <1>3 DEF IInv, TypeOK, StageInv, PanicsExplained, upstreams,
     ListensWithFullTable, ExitExplained, Over, InstallHandler
<1>4. CASE \E g \in Signals : Signal(g)
  BY <1>0, <1>1, <1>4 DEF IInv, TypeOK, StageInv, PanicsExplained, upstreams,
     ListensWithFullTable, ExitExplained, Over, Signal
<1>5. CASE \E u \in configured : Build(u)
  BY <1>0, <1>1, <1>5 DEF IInv, TypeOK, StageInv, PanicsExplained, serving,
     ListensWithFullTable, ExitExplained, Over, Build
<1>6. CASE \E s \in Servers : Bind(s)
  BY <1>0, <1>1, <1>6 DEF IInv, TypeOK, StageInv, PanicsExplained, upstreams,
     ListensWithFullTable, ExitExplained, Over, Bind
<1> QED BY <1>2, <1>3, <1>4, <1>5, <1>6

LEMMA StartupNext == IInv /\ [Next]_vars => IInv'
<1> SUFFICES ASSUME IInv, [Next]_vars PROVE IInv'
  OBVIOUS
<1>1. CASE UNCHANGED vars
  BY <1>1 DEF IInv, TypeOK, StageInv, DescriptorsSuffice, PanicsExplained,
     ListensWithFullTable, ExitExplained, vars
<1>2. CASE Next
  BY <1>1, <1>2, CreateStorageKeeps, PanicKeeps, ReturnKeeps, ServingKeeps
  DEF Next, Main, Ended, Upkeep
<1> QED BY <1>1, <1>2

-----------------------------------------------------------------------------
(* Theorems.                                                               *)

\* The inductive invariant of start-up.
THEOREM StartupInvariance == Spec => []IInv
BY StartupInit, StartupNext, PTL DEF Spec

\* Variables keep their types; the soft limit never passes the hard one.
THEOREM StartupTypeCorrect == Spec => []TypeOK
BY StartupInvariance, PTL DEF IInv

\* The descriptors suffice for the cache and for what is set aside, for all
\* settings and limits (cache.rs:26-63).
THEOREM StartupDescriptorsSuffice == Spec => []DescriptorsSuffice
BY StartupInvariance, PTL DEF IInv

\* The unwraps of CacheStorage::new fail for no other settings than those that
\* cannot be meant (cache.rs:30-38, 62-63, 81).
THEOREM StartupPanicsExplained == Spec => []PanicsExplained
BY StartupInvariance, PTL DEF IInv

\* No server listens before the table of upstreams is whole (main.rs:52-93).
THEOREM StartupListensWithFullTable == Spec => []ListensWithFullTable
BY StartupInvariance, PTL DEF IInv

\* main succeeds only when it was told to stop (main.rs:155-203).
THEOREM StartupExitExplained == Spec => []ExitExplained
BY StartupInvariance, PTL DEF IInv
=============================================================================
