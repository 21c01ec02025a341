SPECIFICATION Spec
CONSTANTS
  c1 = c1
  c2 = c2
  Sessions = {s1, s2}
  Configs = {c1}
  NoConfig = NoConfig
  TimeOf <- MCTimeOf
  LastSlot = 2
  LastDay = 2
  Overnight = FALSE
  MaxChanges = 0
  MaxManual = 1
  MaxFaults = 0
  MaxCrashes = 0
PROPERTIES
  DailyRun
CHECK_DEADLOCK FALSE
