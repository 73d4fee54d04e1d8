SPECIFICATION Spec

CONSTANTS
    t1 = t1
    t2 = t2
    t3 = t3
    f1 = f1
    f2 = f2
    h1 = h1
    h2 = h2
    e1 = e1
    noTransfer = noTransfer
    noFileset = noFileset
    NoTransfer = noTransfer
    NoFileset = noFileset
    Transfers = {t1, t2}
    Filesets = {f1}
    Handlers = {h1}
    EventHandlers = {e1}
    TaskIds = {1, 2}
    Failures = {"network", "tool_error"}
    RetryCount = 1
    RetryOn = {"network", "daemon_unreachable"}
    Ops = {"create", "warm", "flush", "release"}
    Env = {"controller_crash", "daemon_restart", "lost_event"}
    MaxReports = 0
    MaxCrashes = 2

SYMMETRY Symmetric

INVARIANT InFlightHasTask
INVARIANT AttemptsBounded
INVARIANT ReleasedIsDeleted

CHECK_DEADLOCK FALSE
