SPECIFICATION FairSpec
CONSTANTS
  Worker = {w1}
  Job = {j1}
  Research = {}
  NoJob = NoJob
  Attempts = 1
  MaxAttempts <- SameMaxAttempts
  MaxCrashes = 0
  MaxFaults = 0
PROPERTIES
  CancelCompletes
