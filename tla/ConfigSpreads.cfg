SPECIFICATION FairSpec

CONSTANTS
    small = small
    large = large
    broken = broken
    d1 = d1
    d2 = d2
    noDocument = noDocument
    torn = torn
    NoDocument = noDocument
    Torn = torn
    PerStorage <- PerStorageMC
    Daemons = {d1}
    Texts = {small, large, broken}
    Sound = {small, large}
    PoolSize = 1
    MaxRevision = 4
    Env = {"unreachable", "daemon_stop", "controller_restart", "disk_full"}
    MaxStops = 2

INVARIANT RevisionIdentifies
INVARIANT RecordedIsHeld
PROPERTY NeverBackwards
PROPERTY DaemonsCatchUp

CHECK_DEADLOCK FALSE
