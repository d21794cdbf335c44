----------------------------- MODULE MCStartup -----------------------------
EXTENDS Startup, TLC

CONSTANTS app, metrics, host

\* Zero, values that fit, and values whose sums exceed the limits or a u64.
SomeSettings ==
    [max_cache_files : {None, 0, 2, 6, 7}, min_cache_files : {0, 2, 7},
     min_non_cache_files : {0, 1, 3}]

SomeLimits ==
    {l \in [soft : {0, 1, 3, 7}, hard : {1, 4, 7}] : l.soft <= l.hard}
=============================================================================
