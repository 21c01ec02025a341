SPECIFICATION Spec
CONSTANTS
  Leads = {l1}
  Counselors = {c1, c2}
  Managers = {m1}
  NoUser = NoUser
  Statuses = {"cnr", "converted"}
  Terminal = {"converted"}
  Timed = {"cnr"}
  NoStatus = NoStatus
  OldDue <- MCOldDue
  PendingDue <- MCPendingDue
  NewDue <- MCNewDue
  Workers = {w1}
  NoWorker = NoWorker
  Limit = 1
  FollowupChoices = {1}
  ScheduleChoices = {}
  RequestKeys = {k1}
  Meetings = {}
  Stages = {}
  MaxTime = 2
  MaxGeneration = 6
  MaxAssignments = 2
  MaxRemarks = 0
  MaxRequests = 0
  MaxFaults = 0
PROPERTY ClosedLeadLeavesNew
CHECK_DEADLOCK FALSE
