CONSTANTS
  Threads = {t1}
  PhaseIds = {1, 2, 3}
  StartPhase = "init"
  RetryBudget = 3
  MaxRequests = 4
  MaxCrashes = 1
  MaxScans = 0
  MaxFaults = 0
SPECIFICATION FairSpec
CHECK_DEADLOCK FALSE
PROPERTY RunningSettles
