SPECIFICATION ServingSpec
CONSTANTS
    Devices = {r1, r2}
    Readings <- OneReading
    FailureThreshold = 1
    MaxRetries = 0
    Conditions = {"flaky"}
    Failures = {"unreachable"}
    PublishOutcomes = {"acked"}
    None = None
PROPERTIES
    GaugesSettle
