SPECIFICATION FairSpec

CONSTANTS
    home = home
    flash = flash
    spare = spare
    d1 = d1
    d2 = d2
    d3 = d3
    w1 = w1
    w2 = w2
    w3 = w3
    b1 = b1
    site = site
    noDocument = noDocument
    noDaemon = noDaemon
    NoDocument = noDocument
    NoDaemon = noDaemon
    Documents <- DocumentsMC
    Start <- Near
    Transfers = {w1, w2, b1}
    Route <- RouteMC
    Flushes = {b1}
    Storages = {home, flash, spare}
    Daemons = {d1, d2, d3}
    Declarations <- DeclarationsMC
    MaxRestarts = 1
    MaxTasks = 2

INVARIANT LandsAtTarget
INVARIANT OwnWorkOnly
PROPERTY ForgetsOnlyOverLost
PROPERTY StartedSomeDay

CHECK_DEADLOCK FALSE
