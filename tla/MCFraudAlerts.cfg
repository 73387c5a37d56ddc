SPECIFICATION FraudSpec
CONSTANTS
    Call = {c1, c2}
    Rrn = {n1, n2}
    PayKey = {k1}
    Amount = {1}
    Clearing = {1, 2}
    InitialLimit = 1
    Raised = {2}
    InitialDeposit = 1
    MaxHolds = 2
    MaxCalls = 6
    MaxAlerts = 2
SYMMETRY Interchangeable
INVARIANTS TypeOK PostedOnce OneOpenAlert ReleasedOnce
PROPERTIES BalanceMovesWithJournal CreditIsTrue
CHECK_DEADLOCK FALSE
