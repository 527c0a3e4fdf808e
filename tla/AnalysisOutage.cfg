SPECIFICATION PipelineSpec
CONSTANTS
    Devices = {r1}
    Samples <- OnlySpikes
    Reported = {"HEALTHY", "DOWN"}
    Windows <- OneWindow
    Faults = {"storage", "fetch", "shutdown", "crash"}
    Junk = Junk
    None = None
    Unknown = Unknown
    MaxEvents <- TwoHealth
    MaxRestarts = 1
    MaxRejoins = 0
    MaxFeedRestarts = 1
PROPERTIES
    EventuallyConsumed
    ShutdownCompletes
    OutageShown
    ShownOnceConsumed
