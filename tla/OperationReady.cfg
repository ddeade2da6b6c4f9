SPECIFICATION Spec
CONSTANTS
  Account = {a1, a2}
  Canceller = {c1}
  Runner = runner
  None = None
  MaxRuns = 2
CHECK_DEADLOCK FALSE
INVARIANTS
  ReadyMeansStoppable
