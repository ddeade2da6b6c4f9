SPECIFICATION FairSpec
CONSTANTS
  Worker = {w1}
  Job = {j1, j2}
  Research = {j2}
  NoJob = NoJob
  Attempts = 2
  MaxAttempts <- SameMaxAttempts
  MaxCrashes = 1
  MaxFaults = 0
PROPERTIES
  SubmittedJobsSettle
  WaitingJobsResume
  IdleCancelCompletes
