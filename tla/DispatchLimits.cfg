SPECIFICATION Spec

CONSTANTS
    w1 = w1
    w2 = w2
    w3 = w3
    b1 = b1
    r1 = r1
    alice = alice
    bob = bob
    carol = carol
    home = home
    scratch = scratch
    flash = flash
    Movers = {w1, w2, w3, b1}
    Flushes = {b1}
    Releases = {r1}
    Users = {alice, bob, carol}
    Storages = {home, scratch, flash}
    Drainable = {scratch}
    Standings <- StandingsMC
    UserOf <- UserOfMC
    SourceOf <- SourceOfMC
    TargetOf <- TargetOfMC
    Number <- NumberMC
    QueueLimit = 1
    Global = 3
    PerStorage = 2
    PerUser = 1
    PerRoute = 2
    Aggregate = 8
    MaxShare = 8
    MinShare = 1

INVARIANT LimitsHold
INVARIANT NobodyIsOvertaken
INVARIANT QueueIsBounded
INVARIANT SharesAreHarmonic

CHECK_DEADLOCK FALSE
