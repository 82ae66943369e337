CONSTANTS
  Threads = {t1}
  PhaseIds = {9, 10}
  StartPhase = "verify"
  RetryBudget = 2
  MaxRequests = 3
  MaxCrashes = 1
  MaxScans = 0
  MaxFaults = 0
SPECIFICATION Spec
CHECK_DEADLOCK FALSE
PROPERTY ResumeReactivates
