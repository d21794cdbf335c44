\* Three threads race for a pool of 3 bytes, and call and drop for ever: each
\* pair of calls can fill it, a call can ask for more than there is, and every
\* compare_exchange can lose.
CONSTANTS
    Threads = {t1, t2, t3}
    Capacity = 3
    Sizes = {0, 1, 2, 4}
    U64Max = 4
    NotLoaded = NotLoaded
SPECIFICATION FairSpec
INVARIANTS TypeOK Conservation NeverOverflows
PROPERTIES ImplementsLedger LockFree
