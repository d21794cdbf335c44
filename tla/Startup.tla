------------------------------ MODULE Startup ------------------------------
(***************************************************************************)
(* main of src/main.rs and CacheStorage::new of src/cache.rs: from the     *)
(* settings to two listening servers, and to the end of the process.       *)
(*                                                                         *)
(* The number of files the cache may keep open is worked out from the      *)
(* settings and the process's limits on descriptors, in 64-bit arithmetic. *)
(* Then the upstreams are built one by one, and at last one task waits for *)
(* whichever comes first: the end of a server, or a signal, which another  *)
(* task has to catch.                                                      *)
(***************************************************************************)
EXTENDS Naturals

CONSTANTS
    U64Max,      \* the largest u64
    MaxEntries,  \* the most entries an LruCache can be created with
    None,
    Choices,     \* storage settings tried
    LimitChoices,\* limits tried
    Default,     \* the top-level upstream
    Hosts,       \* the hosts of the configuration
    Servers      \* the server for clients and the one for metrics

U64 == 0..U64Max
Settings == [max_cache_files : U64 \cup {None}, min_cache_files : U64,
             min_non_cache_files : U64]
Limits == {l \in [soft : U64, hard : U64] : l.soft <= l.hard}

ASSUME StartupAssumption ==
    /\ U64Max \in Nat /\ MaxEntries \in U64 /\ None \notin Nat
    /\ Choices \subseteq Settings /\ LimitChoices \subseteq Limits

VARIABLES
    settings,    \* StorageConfig
    limits,      \* the NOFILE limits of the process
    files,       \* the capacity of cached_resources
    configured,  \* the upstreams of the configuration
    table,       \* those that were built
    shared,      \* both servers are to bind one address
    bound,       \* the servers that listen
    handlers,    \* the signals whose handlers are installed
    signalled,   \* the signals that were sent
    stage        \* where main is, or how the process ended

vars == <<settings, limits, files, configured, table, shared, bound, handlers,
          signalled, stage>>
storage == <<settings, limits, files>>
upstreams == <<configured, table>>
serving == <<shared, bound, handlers, signalled>>

Signals == {"SIGTERM", "SIGINT"}
Over == {"ok", "error", "panic", "killed"}
Exit(how) == stage' = how

TypeOK ==
    /\ settings \in Settings /\ limits \in Limits /\ files \in U64 \cup {None}
    /\ configured \subseteq Hosts \cup {Default} /\ table \subseteq configured
    /\ shared \in BOOLEAN /\ handlers \subseteq Signals /\ signalled \subseteq Signals
    /\ bound \subseteq Servers
    /\ stage \in {"config", "build", "serve"} \cup Over

Init ==
    /\ settings \in Choices /\ limits \in LimitChoices /\ files = None
    /\ configured \in SUBSET (Hosts \cup {Default}) /\ table = {}
    /\ shared \in BOOLEAN /\ bound = {}
    /\ handlers = {} /\ signalled = {}
    /\ stage = "config"

-----------------------------------------------------------------------------
(* CacheStorage::new.                                                      *)

\* Mutant of LeastFiles: zero files is a minimum like any other.
LeastFilesOrNone(s) ==
    IF s.max_cache_files = None THEN s.min_cache_files ELSE s.max_cache_files

LeastFiles(s) ==
    IF s.max_cache_files # None THEN s.max_cache_files
    ELSE IF s.min_cache_files = 0 THEN 1 ELSE s.min_cache_files

MinSoftLimit(s) == LeastFiles(s) + s.min_non_cache_files

\* Mutant of SoftLimit: the limit is left as it is.
SoftLimitUnraised(s, l) == l.soft

\* increase_nofile_limit sets what it is asked for.
SoftLimit(s, l) == IF l.soft < MinSoftLimit(s) THEN MinSoftLimit(s) ELSE l.soft

MaxCacheFiles(s, l) ==
    IF s.max_cache_files # None THEN s.max_cache_files
    ELSE SoftLimit(s, l) - s.min_non_cache_files

\* checked_add(..).unwrap()
SumOverflows ==
    /\ stage = "config" /\ MinSoftLimit(settings) > U64Max
    /\ Exit("panic")
    /\ UNCHANGED <<storage, upstreams, serving>>

\* ensure!
LimitTooLow ==
    /\ stage = "config" /\ MinSoftLimit(settings) \in (limits.hard + 1)..U64Max
    /\ Exit("error")
    /\ UNCHANGED <<storage, upstreams, serving>>

\* Mutant of LimitsSuffice: the hard limit is not looked at.
LimitsIgnored == stage = "config"

LimitsSuffice == stage = "config" /\ MinSoftLimit(settings) <= limits.hard

\* No NonZeroUsize, or more than LruCache::new can allocate.
CapacityImpossible ==
    /\ LimitsSuffice /\ MaxCacheFiles(settings, limits) \notin 1..MaxEntries
    /\ Exit("panic")
    /\ UNCHANGED <<storage, upstreams, serving>>

CreateStorage ==
    /\ LimitsSuffice /\ MaxCacheFiles(settings, limits) \in 1..MaxEntries
    /\ limits' = [limits EXCEPT !.soft = SoftLimit(settings, limits)]
    /\ files' = MaxCacheFiles(settings, limits)
    /\ stage' = "build"
    /\ UNCHANGED <<settings, upstreams, serving>>

-----------------------------------------------------------------------------
(* main.                                                                   *)

\* Mutant of Build: one upstream is enough to go on.
BuildSome(u) ==
    /\ stage = "build" /\ u \in configured \ table
    /\ \/ table' = table \cup {u} /\ UNCHANGED stage
       \/ table # {} /\ UNCHANGED table /\ stage' = "serve"
    /\ UNCHANGED <<storage, configured, serving>>

\* The top-level upstream is built first, the hosts in the order of a HashMap.
Build(u) ==
    /\ stage = "build" /\ u \in configured \ table
    /\ Default \in configured \ table => u = Default
    /\ table' = table \cup {u}
    /\ UNCHANGED <<storage, configured, serving, stage>>

\* Everything before the servers that returns an error: the configuration,
\* the recorder of the metrics, the limits, a client of an upstream.
Refuse ==
    /\ stage \in {"config", "build"}
    /\ Exit("error")
    /\ UNCHANGED <<storage, upstreams, serving>>

\* All are built, and there is one to ask.
Serve ==
    /\ stage = "build" /\ table = configured
    /\ IF configured = {} THEN Exit("error") ELSE stage' = "serve"
    /\ UNCHANGED <<storage, upstreams, serving>>

Taken(s) == shared /\ bound \ {s} # {}

Bind(s) ==
    /\ stage = "serve" /\ s \notin bound /\ ~Taken(s)
    /\ bound' = bound \cup {s}
    /\ UNCHANGED <<storage, upstreams, shared, handlers, signalled, stage>>

\* Mutant of BindFails: the other server goes on.
BindGivesUp(s) ==
    /\ stage = "serve" /\ s \notin bound
    /\ UNCHANGED vars

\* Mutant of BindFails: the result of the server is dropped.
BindFailsQuietly(s) ==
    /\ stage = "serve" /\ s \notin bound
    /\ Exit("ok")
    /\ UNCHANGED <<storage, upstreams, serving>>

\* select! ends with the first server that does.
BindFails(s) ==
    /\ stage = "serve" /\ s \notin bound
    /\ Exit("error")
    /\ UNCHANGED <<storage, upstreams, serving>>

\* The task of shutdown_signal: select! polls ctrl_c, which then installs its
\* handler, when that of SIGTERM is there.
InstallHandler(g) ==
    /\ stage = "serve" /\ g \notin handlers
    /\ g = "SIGTERM" \/ "SIGTERM" \in handlers
    /\ handlers' = handlers \cup {g}
    /\ UNCHANGED <<storage, upstreams, shared, bound, signalled, stage>>

HandlerFails ==
    /\ stage = "serve" /\ handlers # Signals
    /\ Exit("error")
    /\ UNCHANGED <<storage, upstreams, serving>>

\* Without its handler a signal ends the process.
Signal(g) ==
    /\ stage \notin Over /\ g \notin signalled
    /\ signalled' = signalled \cup {g}
    /\ stage' = IF g \in handlers THEN stage ELSE "killed"
    /\ UNCHANGED <<storage, upstreams, shared, bound, handlers>>

\* Mutant of ShutDown: signals are waited for only until the servers listen.
ShutDownEarly ==
    /\ stage = "serve" /\ handlers \cap signalled # {} /\ bound # Servers
    /\ Exit("ok")
    /\ UNCHANGED <<storage, upstreams, serving>>

ShutDown ==
    /\ stage = "serve" /\ handlers \cap signalled # {}
    /\ Exit("ok")
    /\ UNCHANGED <<storage, upstreams, serving>>

\* The loop that keeps the recorder of the metrics in order never ends.
Upkeep == stage = "serve" /\ UNCHANGED vars

Ended == stage \in Over /\ UNCHANGED vars

Main ==
    \/ SumOverflows \/ LimitTooLow \/ CapacityImpossible \/ CreateStorage
    \/ Serve \/ HandlerFails \/ ShutDown \/ Refuse
    \/ \E u \in configured : Build(u)
    \/ \E g \in Signals : InstallHandler(g)

Next ==
    \/ Main \/ Upkeep \/ Ended
    \/ \E g \in Signals : Signal(g)
    \/ \E s \in Servers : Bind(s) \/ BindFails(s)

Spec == Init /\ [][Next]_vars

\* main and the tasks it waits for run on; signals need not come.
FairSpec ==
    /\ Spec
    /\ WF_vars(Main) /\ WF_vars(\E s \in Servers : Bind(s) \/ BindFails(s))

-----------------------------------------------------------------------------
(* Properties.                                                             *)

\* A cache that was created and the descriptors set aside for everything else
\* fit in the limit in force, and the cache has the room the settings ask for
\* (cache.rs:26-63).
DescriptorsSuffice ==
    files # None =>
        /\ files \in 1..MaxEntries
        /\ files + settings.min_non_cache_files <= limits.soft
        /\ limits.soft <= limits.hard
        /\ IF settings.max_cache_files # None THEN files = settings.max_cache_files
           ELSE files >= settings.min_cache_files

\* Of the unwraps of CacheStorage::new only three can fail: on a sum that is no
\* u64, on max_cache_files = 0, and on more files than a list can be created
\* for; never because a difference is negative or the default is zero
\* (cache.rs:30-38, 62-63, 81).
PanicsExplained ==
    stage = "panic" =>
        \/ settings.max_cache_files = 0
        \/ MinSoftLimit(settings) > U64Max
        \/ MaxCacheFiles(settings, limits) > MaxEntries

\* No server listens before every configured upstream is built, and with no
\* upstream none ever does (main.rs:52-93).
ListensWithFullTable == bound # {} => table = configured /\ table # {}

\* The process succeeds only if it was told to stop; and once it serves, a
\* signal ends it in good order or before its handler is there, SIGINT also while
\* SIGTERM has one (main.rs:155-203).
ExitExplained ==
    /\ stage = "ok" => handlers \cap signalled # {} /\ table = configured
    /\ stage = "killed" => signalled \ handlers # {}
    /\ stage = "serve" => signalled \subseteq handlers

\* The process ends or listens on both addresses, never on one for good, also
\* if they are the same (main.rs:139-166).
ServesOrEnds == stage = "config" ~> stage \in Over \/ bound = Servers

\* A signal ends the process, whenever it comes (main.rs:153-203).
SignalEnds == signalled # {} ~> stage \in Over
=============================================================================
