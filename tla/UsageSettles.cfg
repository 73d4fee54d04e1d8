SPECIFICATION UsageFairSpec

CONSTANTS
    u1 = u1
    s1 = s1
    n1 = n1
    n2 = n2
    f1 = f1
    f2 = f2
    h1 = h1
    h2 = h2
    nobody = nobody
    noFileset = noFileset
    everywhere = everywhere
    unset = unset
    Nobody = nobody
    NoFileset = noFileset
    Users = {u1}
    Storages = {s1}
    OutputNames = {n1}
    CachedNames = {n2}
    Filesets = {f1, f2}
    Handlers = {h1}
    Sizes = {1, 2}
    UserLimit = 2
    TotalLimit = 2
    Settable = {}
    Everywhere = everywhere
    Unset = unset
    Usable = 4
    MaxFilesets = 2
    Ops = {"create", "warm", "resize", "release"}
    Amounts = {0, 2}
    Env = {"unprepared"}

INVARIANT NothingStaysReserved
PROPERTY RecordsFollow
PROPERTY FlagsFollow

CHECK_DEADLOCK FALSE
