SPECIFICATION ViewSpec
CONSTANTS
    Devices = {r1}
    Samples <- CalmAndSpike
    Reported = {"DOWN"}
    Windows <- TwoWindows
    Faults = {"crash", "commit", "junk"}
    Junk = Junk
    None = None
    MaxEvents <- TwoAndOne
    MaxRestarts = 1
    MaxRejoins = 1
INVARIANTS
    TypeOK
    ProjectionDurable
    ProjectionCaughtUp
    WindowsExact
    SpikesFilteredWithoutRedelivery
    ViewLagsAtMostOne
