SPECIFICATION FairSpec
CONSTANTS
  Events = {w1, w2}
  Relays = {r1, r2}
  BatchLimit = 1
  MaxFailures = 2
  MaxStops = 1
INVARIANTS
  DeliveredWasReceived
  NoUseAfterClose
PROPERTIES
  NeverDropped
  AtLeastOnce
CHECK_DEADLOCK FALSE
