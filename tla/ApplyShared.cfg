SPECIFICATION Spec
CONSTANTS
  g1 = g1  g2 = g2  g3 = g3
  t1 = t1  t2 = t2  t3 = t3
  Executors = {e1, e2}
  Groups = {g1}
  Tasks = {t1}
  GroupOf <- OneGroup
  RowSeq <- RowsOneGroup
  Plans <- SharedPlans
  MaxParallelGroups = 2
  MaxParallelImplements = 2
  MaxSlots = 2
  Others = {o1}
  Threshold = 1
  Fallback = TRUE
  MaxExecutes = 2
  MaxCrashes = 1
  MaxFaults = 1
  MaxAttempts = 2
INVARIANTS
  OutcomesEarned
PROPERTIES
  SlotsImplemented
CHECK_DEADLOCK FALSE
