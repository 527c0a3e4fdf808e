SPECIFICATION FairSpec
CONSTANTS
    Devices = {r1}
    Readings <- TwoReadings
    FailureThreshold = 2
    MaxRetries = 1
    Conditions = {"good", "flaky", "dead"}
    Failures = {"unavailable", "unreachable", "fatal"}
    PublishOutcomes = {"acked"}
    None = None
INVARIANTS
    TypeOK
    RetriesExhausted
    HealthTopicCurrent
    TelemetryTopicCurrent
PROPERTIES
    ImplementsFairFeed
    OutageDetected
    RecoveryDetected
    ShutdownCompletes
