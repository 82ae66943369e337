SPECIFICATION FairSpec
CONSTANTS
  g1 = g1  g2 = g2  g3 = g3
  t1 = t1  t2 = t2  t3 = t3
  Executors = {e1}
  Groups = {g1, g2, g3}
  Tasks = {t1, t2, t3}
  GroupOf <- OneEach
  RowSeq <- RowsOneEach
  Plans <- DagPlans
  MaxParallelGroups = 2
  MaxParallelImplements = 2
  MaxSlots = 2
  Others = {}
  Threshold = 2
  Fallback = FALSE
  MaxExecutes = 1
  MaxCrashes = 0
  MaxFaults = 0
  MaxAttempts = 2
INVARIANTS
  SignalKept
  StartsAfterDeps
PROPERTIES
  ExecuteReturns
CHECK_DEADLOCK FALSE
