SPECIFICATION Spec
CONSTANTS
    Devices = {r1}
    Readings <- OneReading
    FailureThreshold = 3
    MaxRetries = 0
    Conditions = {"flaky"}
    Failures = {"unreachable"}
    PublishOutcomes = {"acked"}
    None = None
INVARIANTS
    DownOnlyAfterDeviceFailures
