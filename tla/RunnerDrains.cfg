SPECIFICATION FairSpec

CONSTANTS
    t1 = t1
    t2 = t2
    noTransfer = noTransfer
    NoTransfer = noTransfer
    Transfers = {t1, t2}
    TaskIds = {1, 2}
    Failures = {"network", "internal"}
    MaxReports = 2
    PoolSize = 2

INVARIANT EndedMovesNothing
PROPERTY ImplementsDaemon
PROPERTY EveryEndIsTold

CHECK_DEADLOCK FALSE
