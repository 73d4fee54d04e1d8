SPECIFICATION Spec

CONSTANTS
    t1 = t1
    t2 = t2
    t3 = t3
    f1 = f1
    f2 = f2
    h1 = h1
    h2 = h2
    e1 = e1
    noTransfer = noTransfer
    noFileset = noFileset
    NoTransfer = noTransfer
    NoFileset = noFileset
    Transfers = {t1, t2}
    Filesets = {f1}
    Handlers = {h1}
    EventHandlers = {e1}
    TaskIds = {1, 2}
    Failures = {"network"}
    RetryCount = 1
    RetryOn = {"network"}
    Ops = {"create", "warm", "refresh", "flush", "release", "cancel"}
    Env = {"lost_event", "reordered_event", "refusal", "unreachable"}
    MaxReports = 0
    MaxCrashes = 0

SYMMETRY Symmetric

INVARIANT OneTaskPerTransfer
INVARIANT TaskNamesOwnWork
PROPERTY NoEndIsMissed
PROPERTY ReleasedIsLeftAlone
 
PROPERTY BusyForAReason

CHECK_DEADLOCK FALSE
