SPECIFICATION Spec
CONSTANTS
    r1 = r1
    r2 = r2
    a1 = a1
    a2 = a2
    NoRequest = NoRequest
    Requests = {r1, r2}
    Accounts = {a1, a2}
    Servers <- MCServers
    MaxLimit = 2
    MaxGen = 4
INVARIANTS PermitsConserved CallsWithinLimits OneVoice OneProducer WaiterShares CancelIsFinal OperationsEnd NoDeadlock
PROPERTIES RequestIsBounded EveryRequestAnswered
CHECK_DEADLOCK FALSE
