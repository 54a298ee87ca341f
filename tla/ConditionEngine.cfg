SPECIFICATION EngineSpec
CONSTANTS
  short = short
  long = long
  activity = activity
  w1 = w1
  m1 = m1
  s1 = s1
  s2 = s2
  Nothing = Nothing
  Conds <- ThreeConds
  Def <- ThreeDefs
  Events <- TwoEvents
  DefaultCooldown = 2
  FireCacheMax = 2
  WindowMax = 3
  KeepFor = 3
  MaxEvents = 4
  MaxNow = 3
  MaxChanges = 2
INVARIANTS
  OncePerEvent
  ThresholdBacked
PROPERTIES
  CooldownKept
CHECK_DEADLOCK FALSE
