SPECIFICATION Spec
CONSTANTS
    Call = {c1, c2}
    Rrn = {n1, n2}
    PayKey = {k1}
    Amount = {1, 2}
    Clearing = {1, 2}
    InitialLimit = 2
    Raised = {3}
    InitialDeposit = 1
    MaxHolds = 2
    MaxCalls = 5
INVARIANT BalanceMatchesJournal
CHECK_DEADLOCK FALSE
