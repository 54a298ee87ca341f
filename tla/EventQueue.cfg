SPECIFICATION QueueFairSpec
CONSTANTS
  e1 = e1
  e2 = e2
  e3 = e3
  e4 = e4
  e5 = e5
  Events <- FiveEvents
  MaxSize = 2
  Concurrency = 2
INVARIANTS
  QueueInv
PROPERTIES
  DropsOnlyWhenFull
  AcceptedFinishes
CHECK_DEADLOCK FALSE
