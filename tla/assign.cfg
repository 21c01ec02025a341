SPECIFICATION Spec
CONSTANTS
  Leads = {l1}
  Counselors = {c1, c2}
  Managers = {}
  NoUser = NoUser
  Statuses = {"cnr"}
  Terminal = {}
  Timed = {"cnr"}
  NoStatus = NoStatus
  OldDue <- MCOldDue
  PendingDue <- MCPendingDue
  NewDue <- MCNewDue
  Workers = {w1}
  NoWorker = NoWorker
  Limit = 1
  FollowupChoices = {}
  ScheduleChoices = {}
  RequestKeys = {k1}
  Meetings = {}
  Stages = {}
  MaxTime = 1
  MaxGeneration = 4
  MaxAssignments = 2
  MaxRemarks = 1
  MaxRequests = 1
  MaxFaults = 0
SYMMETRY MCSymmetry
INVARIANTS
  KeysUnique NewWorkOnce DueRowsProgress RetryNeverConflicts
PROPERTIES
  GenerationsIdentify
CHECK_DEADLOCK FALSE
