SPECIFICATION ViewSpec
CONSTANTS
    Devices = {r1}
    Readings <- RankedReadings
    FailureThreshold = 3
    MaxRetries = 1
    Conditions = {"flaky"}
    Failures = {"unreachable", "fatal"}
    PublishOutcomes = {"acked", "lost", "unacked"}
    None = None
INVARIANTS
    DownExactlyAtThreshold
    StoresAgreeWhenIdle
    UpImpliesTelemetry
    ScoreBands
    ScoresRank
PROPERTIES
    ImplementsFeed
