SPECIFICATION Spec
CONSTANTS
  Worker = {w1, w2}
  Job = {j1}
  Research = {j1}
  NoJob = NoJob
  Attempts = 2
  MaxAttempts <- SameMaxAttempts
  MaxCrashes = 1
  MaxFaults = 1
INVARIANTS
  LeaseHeldByNewestClaim
  SucceededAttemptHasResult
  ExecutingJobInHand
PROPERTIES
  LeaseRenewedByOwner
