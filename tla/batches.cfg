SPECIFICATION FairSpec
CONSTANTS
  Leads = {l1, l2}
  Counselors = {c1}
  Managers = {}
  NoUser = NoUser
  Statuses = {"cnr"}
  Terminal = {}
  Timed = {"cnr"}
  NoStatus = NoStatus
  OldDue <- MCOldDue
  PendingDue <- MCPendingDue
  NewDue <- MCNewDue
  Workers = {w1, w2}
  NoWorker = NoWorker
  Limit = 1
  FollowupChoices = {}
  ScheduleChoices = {}
  RequestKeys = {k1}
  Meetings = {}
  Stages = {}
  MaxTime = 1
  MaxGeneration = 1
  MaxAssignments = 2
  MaxRemarks = 1
  MaxRequests = 0
  MaxFaults = 1
PROPERTIES
  AgingIsCurrent DueLeadsAge AssignedLeadsEnrol
CHECK_DEADLOCK FALSE
