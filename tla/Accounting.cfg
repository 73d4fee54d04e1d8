SPECIFICATION Spec

CONSTANTS
    w1 = w1
    w2 = w2
    alice = alice
    flash = flash
    route = route
    site = site
    noTime = noTime
    Transfers = {w1, w2}
    Users = {alice}
    About <- AboutMC
    LocationOf <- LocationOfMC
    Size <- SizeMC
    PointsPerGib = 16
    Retention = 0
    PerSecond = 2
    PerDay = 2
    PerHalfLife = 1
    MaxNow = 2
    NoTime = noTime
    Env = {"uncharged"}

SYMMETRY Symmetric

INVARIANT OwesOnlyForWork
PROPERTY ReportsStay
PROPERTY DecayIsLazy

CHECK_DEADLOCK FALSE
