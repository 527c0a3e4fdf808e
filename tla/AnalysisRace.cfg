SPECIFICATION Spec
CONSTANTS
    Devices = {r1}
    Samples <- OnlySpikes
    Reported = {"HEALTHY", "DOWN"}
    Windows <- OneWindow
    Faults = {}
    Junk = Junk
    None = None
    MaxEvents <- OneAndTwo
    MaxRestarts = 0
    MaxRejoins = 0
INVARIANTS
    OutageReported
