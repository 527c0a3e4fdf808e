SPECIFICATION FairSpec
CONSTANTS
    Producers = {p1, p2}
    Capacity = 2
    MaxMessages = 5
    Nobody = Nobody
INVARIANTS
    TypeOK
    NeverSendsOnClosed
PROPERTIES
    ReturnsUnlessJammed
    HandledUnlessStopped
CHECK_DEADLOCK FALSE
