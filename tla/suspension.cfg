SPECIFICATION Spec
CONSTANTS
  Leads = {l1}
  Counselors = {c1, c2}
  Managers = {}
  NoUser = NoUser
  Statuses = {"cnr", "converted"}
  Terminal = {"converted"}
  Timed = {"cnr"}
  NoStatus = NoStatus
  OldDue <- MCOldDue
  PendingDue <- MCPendingDue
  NewDue <- MCNewDue
  Workers = {w1}
  NoWorker = NoWorker
  Limit = 1
  FollowupChoices = {1}
  ScheduleChoices = {}
  RequestKeys = {k1}
  Meetings = {}
  Stages = {}
  MaxTime = 2
  MaxGeneration = 4
  MaxAssignments = 2
  MaxRemarks = 2
  MaxRequests = 0
  MaxFaults = 0
INVARIANT SuspensionHasFollowup
CHECK_DEADLOCK FALSE
