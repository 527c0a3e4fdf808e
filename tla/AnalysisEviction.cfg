SPECIFICATION Spec
CONSTANTS
    Devices = {r1}
    Samples <- CalmAndSpike
    Reported = {"DOWN"}
    Windows <- OneWindow
    Faults = {"commit"}
    Junk = Junk
    None = None
    MaxEvents <- TwoTelemetry
    MaxRestarts = 0
    MaxRejoins = 1
INVARIANTS
    StrictEviction
