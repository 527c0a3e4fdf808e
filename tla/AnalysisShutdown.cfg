SPECIFICATION Spec
CONSTANTS
    Devices = {r1}
    Samples <- OnlySpikes
    Reported = {"HEALTHY", "DOWN"}
    Windows <- OneWindow
    Faults = {"shutdown"}
    Junk = Junk
    None = None
    MaxEvents <- OneAndTwo
    MaxRestarts = 1
    MaxRejoins = 0
INVARIANTS
    HealthKeyMostRecent
