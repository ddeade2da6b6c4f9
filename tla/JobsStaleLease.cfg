SPECIFICATION FairSpec
CONSTANTS
  Worker = {w1}
  Job = {j1}
  Research = {}
  NoJob = NoJob
  Attempts = 2
  MaxAttempts <- SameMaxAttempts
  MaxCrashes = 1
  MaxFaults = 0
PROPERTIES
  StaleLeaseIsSwept
