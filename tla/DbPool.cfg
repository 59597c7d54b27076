CONSTANTS
    Threads = {t1, t2, t3}
    Conns = {c1, c2, c3, c4}
    NoConn = NoConn
    MaxSize = 2
    ReapsIdle = TRUE
SPECIFICATION FairSpec
INVARIANTS
    TypeOK
    Accounting
    OneHolder
    NoLostWakeup
PROPERTIES
    KeepsPromise
    AcquireReturns
    CloseDrains
