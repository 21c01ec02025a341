SPECIFICATION Spec
CONSTANTS
  c1 = c1
  c2 = c2
  Sessions = {s1, s2}
  Configs = {c1, c2}
  NoConfig = NoConfig
  TimeOf <- MCTimeOf
  LastSlot = 2
  LastDay = 2
  Overnight = TRUE
  MaxChanges = 1
  MaxManual = 1
  MaxFaults = 2
  MaxCrashes = 1
INVARIANTS
  TypeOK LockExcludes
PROPERTIES
  Settles DailyRunUndisturbed
CHECK_DEADLOCK FALSE
