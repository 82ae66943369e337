SPECIFICATION FairSpec
CONSTANTS
  Events = {v1, v2}
  Publishers = {p1, p2}
  Clients = {c1}
  BufferSize = 1
  MaxConnects = 2
  MaxFaults = 1
INVARIANTS
  NothingSlipsThrough
  WrittenOnce
PROPERTIES
  SubscriberReleased
CHECK_DEADLOCK FALSE
