SPECIFICATION Spec

CONSTANTS
    u1 = u1
    u2 = u2
    s1 = s1
    n1 = n1
    n2 = n2
    n3 = n3
    f1 = f1
    f2 = f2
    f3 = f3
    h1 = h1
    h2 = h2
    nobody = nobody
    noFileset = noFileset
    everywhere = everywhere
    unset = unset
    Nobody = nobody
    NoFileset = noFileset
    Users = {u1}
    Storages = {s1}
    OutputNames = {n1}
    CachedNames = {n2, n3}
    Filesets = {f1, f2, f3}
    Handlers = {h1, h2}
    Sizes = {1, 2, 3}
    UserLimit = 3
    TotalLimit = 4
    Settable <- SettableMC
    Everywhere = everywhere
    Unset = unset
    Usable = 4
    MaxFilesets = 2
    Ops = {"create", "warm", "resize", "release", "limit", "crash"}

SYMMETRY Symmetric

PROPERTY NeverPastLimits
INVARIANT CountWithinLimit
INVARIANT AdmittedNameIsFree

CHECK_DEADLOCK FALSE
