SPECIFICATION EngineSpec
CONSTANTS
  short = short
  long = long
  activity = activity
  w1 = w1
  m1 = m1
  s1 = s1
  s2 = s2
  Nothing = Nothing
  Conds <- OneBurst
  Def <- BurstDef
  Events <- TwoEvents
  DefaultCooldown = 2
  FireCacheMax = 6
  WindowMax = 6
  KeepFor = 3
  MaxEvents = 5
  MaxNow = 2
  MaxChanges = 0
INVARIANTS
  EdgeTriggered
CHECK_DEADLOCK FALSE
