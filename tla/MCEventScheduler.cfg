SPECIFICATION FairSpec
CONSTANTS
    Schedules <- Scenarios
    Personas = {"p"}
    Delivery = {d1, d2}
    MaxAttempts = 2
    MaxDeaths = 1
    MaxRequests = 2
INVARIANTS TypeOK SucceededMeansDone FailedInVainOnlyWhenDisturbed ChargedOnce
PROPERTIES CanceledIsFinal EveryTaskEnds
CHECK_DEADLOCK FALSE
