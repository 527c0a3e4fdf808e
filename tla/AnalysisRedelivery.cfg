SPECIFICATION Spec
CONSTANTS
    Devices = {r1}
    Samples <- OnlySpikes
    Reported = {"DOWN"}
    Windows <- OneWindow
    Faults = {"commit"}
    Junk = Junk
    None = None
    MaxEvents <- OneTelemetry
    MaxRestarts = 0
    MaxRejoins = 1
INVARIANTS
    SpikesFiltered
