SPECIFICATION FairSpec
CONSTANTS
    Devices = {r1, r2}
    Requests = {q1, q2}
INVARIANTS
    TypeOK
    FailureHolds
    LoneScrapeAddsUp
PROPERTIES
    GaugesSettle
