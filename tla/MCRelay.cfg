SPECIFICATION FairSpec
CONSTANTS
    NEvents = 3
    Evidence = {3}
    Job = {j1, j2}
    Nobody = Nobody
    BatchSize = 2
    Retention = 1
    MaxTime = 3
    MaxFailures = 1
INVARIANTS TypeOK PassedEventsWerePublished RedeliveryOnlyAfterFailure
PROPERTIES CursorNeverMovesBack VisibleEventsArePublished
CHECK_DEADLOCK FALSE
