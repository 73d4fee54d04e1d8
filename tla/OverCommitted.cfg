SPECIFICATION Spec

CONSTANTS
    u1 = u1
    u2 = u2
    s1 = s1
    n1 = n1
    n2 = n2
    n3 = n3
    f1 = f1
    f2 = f2
    f3 = f3
    h1 = h1
    h2 = h2
    nobody = nobody
    noFileset = noFileset
    everywhere = everywhere
    unset = unset
    Nobody = nobody
    NoFileset = noFileset
    Users = {u1, u2}
    Storages = {s1}
    OutputNames = {n1}
    CachedNames = {}
    Filesets = {f1, f2}
    Handlers = {h1, h2}
    Sizes = {2}
    UserLimit = 2
    TotalLimit = 3
    Settable = {}
    Everywhere = everywhere
    Unset = unset
    Usable = 3
    MaxFilesets = 2
    Ops = {"create"}

SYMMETRY Symmetric

INVARIANT StorageWithinCapacity

CHECK_DEADLOCK FALSE
