SPECIFICATION Spec

CONSTANTS
    t1 = t1
    t2 = t2
    t3 = t3
    f1 = f1
    f2 = f2
    h1 = h1
    h2 = h2
    e1 = e1
    noTransfer = noTransfer
    noFileset = noFileset
    NoTransfer = noTransfer
    NoFileset = noFileset
    Transfers = {t1, t2}
    Filesets = {f1}
    Handlers = {h1}
    EventHandlers = {e1}
    TaskIds = {1, 2}
    Failures = {"network", "tool_error"}
    RetryCount = 1
    RetryOn = {"network"}
    Ops = {"create", "warm", "flush", "release"}
    Env = {"controller_crash", "unreachable", "lost_reply"}
    MaxReports = 2
    MaxCrashes = 2

SYMMETRY Symmetric

INVARIANT SucceededIsTrue

CHECK_DEADLOCK FALSE
