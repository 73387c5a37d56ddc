SPECIFICATION FraudSpec
CONSTANTS
    Call = {c1, c2}
    Rrn = {n1, n2}
    PayKey = {k1}
    Amount = {1}
    Clearing = {1, 2}
    InitialLimit = 1
    Raised = {2}
    InitialDeposit = 1
    MaxHolds = 2
    MaxCalls = 5
    MaxAlerts = 2
PROPERTY ApprovedWithinLimit
CHECK_DEADLOCK FALSE
