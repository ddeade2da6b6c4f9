SPECIFICATION Spec
CONSTANTS
  Worker = {w1}
  Job = {j1, j2}
  Research = {j2}
  NoJob = NoJob
  Attempts = 2
  MaxAttempts <- SameMaxAttempts
  MaxCrashes = 2
  MaxFaults = 1
INVARIANTS
  ResultIffSucceeded
  RetryDeadlineIffWaiting
  CancelIsSticky
  RequestPersisted
  AttemptBudget
  ResultBacked
PROPERTIES
  ResultIsFinal
  ImplementsLifecycle
