SPECIFICATION Spec
CONSTANTS
  Leads = {l1}
  Counselors = {c1}
  Managers = {m1}
  NoUser = NoUser
  Statuses = {"cnr", "converted"}
  Terminal = {"converted"}
  Timed = {"cnr"}
  NoStatus = NoStatus
  OldDue <- MCOldDue
  PendingDue <- MCPendingDue
  NewDue <- MCNewDue
  Workers = {w1}
  NoWorker = NoWorker
  Limit = 1
  FollowupChoices = {1}
  ScheduleChoices = {1}
  RequestKeys = {k1}
  Meetings = {"m"}
  Stages = {TRUE}
  MaxTime = 2
  MaxGeneration = 4
  MaxAssignments = 1
  MaxRemarks = 2
  MaxRequests = 0
  MaxFaults = 0
INVARIANTS
  TypeOK TableChecks TerminalNeverAges
PROPERTIES
  QueueSpec
CHECK_DEADLOCK FALSE
