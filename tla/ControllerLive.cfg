SPECIFICATION FairSpec

CONSTANTS
    t1 = t1
    t2 = t2
    t3 = t3
    f1 = f1
    f2 = f2
    h1 = h1
    h2 = h2
    e1 = e1
    noTransfer = noTransfer
    noFileset = noFileset
    NoTransfer = noTransfer
    NoFileset = noFileset
    Transfers = {t1, t2, t3}
    Filesets = {f1}
    Handlers = {h1}
    EventHandlers = {e1}
    TaskIds = {1, 2, 3, 4, 5, 6}
    Failures = {"network", "tool_error"}
    RetryCount = 1
    RetryOn = {"network"}
    Ops = {"warm", "flush", "release"}
    Env = {"unreachable"}
    MaxReports = 0
    MaxCrashes = 0

INVARIANT OneMoverPerFileset
PROPERTY NothingDeletedUnderMovers
PROPERTY EveryReportIsTaken
PROPERTY TransfersSettle
PROPERTY FilesetsSettle
PROPERTY FlushReleases

ACTION_CONSTRAINT InOrder

CHECK_DEADLOCK FALSE
