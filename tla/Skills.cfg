SPECIFICATION Spec
CONSTANTS
  s1 = s1
  s2 = s2
  c1 = c1
  Skills = {s1, s2}
  Seeds = {s1}
  SkillOrder <- MCSkillOrder
  InitRows <- MCInitRows
  InitAudit <- MCInitAudit
  Changes = {c1}
  Usage <- MCUsage
  InitSum = 1
  MaxSum = 2
  Requests = {q1, q2}
  MaxCommands = 2
  MaxEvents = 2
  MaxFaults = 1
INVARIANTS
  ActiveWasValidated
  FirstRevertCounted
  MetricsAdditive
PROPERTIES
  RevertIsIdempotent
CHECK_DEADLOCK FALSE
