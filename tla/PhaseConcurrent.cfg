CONSTANTS
  Threads = {t1, t2}
  PhaseIds = {9, 10}
  StartPhase = "verify"
  RetryBudget = 2
  MaxRequests = 3
  MaxCrashes = 1
  MaxScans = 1
  MaxFaults = 1
SPECIFICATION Spec
SYMMETRY ThreadSymmetry
CHECK_DEADLOCK FALSE
INVARIANTS AttemptHistory EnvelopeIffSettled CompletionFindsRow CompletedHasOutbox
PROPERTY HistoryKept
