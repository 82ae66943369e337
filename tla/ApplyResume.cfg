SPECIFICATION Spec
CONSTANTS
  g1 = g1  g2 = g2  g3 = g3
  t1 = t1  t2 = t2  t3 = t3
  Executors = {e1}
  Groups = {g1, g2}
  Tasks = {t1, t2, t3}
  GroupOf <- TwoAndOne
  RowSeq <- RowsTwoAndOne
  Plans <- ResumePlans
  MaxParallelGroups = 2
  MaxParallelImplements = 2
  MaxSlots = 3
  Others = {}
  Threshold = 2
  Fallback = TRUE
  MaxExecutes = 3
  MaxCrashes = 1
  MaxFaults = 0
  MaxAttempts = 2
INVARIANTS
  CompletedIsDone
  DoneIsComplete
PROPERTIES
  TasksKept
CHECK_DEADLOCK FALSE
