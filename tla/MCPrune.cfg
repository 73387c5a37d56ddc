SPECIFICATION Spec
CONSTANTS
    NEvents = 2
    Evidence = {}
    Job = {j1, j2}
    Nobody = Nobody
    BatchSize = 2
    Retention = 1
    MaxTime = 3
    MaxFailures = 1
INVARIANT PrunedEventsWerePublished
CHECK_DEADLOCK FALSE
