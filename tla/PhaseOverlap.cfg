CONSTANTS
  Threads = {t1, t2}
  PhaseIds = {8, 9, 10}
  StartPhase = "apply"
  RetryBudget = 2
  MaxRequests = 3
  MaxCrashes = 0
  MaxScans = 1
  MaxFaults = 1
SPECIFICATION Spec
SYMMETRY ThreadSymmetry
CHECK_DEADLOCK FALSE
INVARIANTS FinishedIsAdvanced CompletedIsVerified
PROPERTY ImplementsLifecycle
