SPECIFICATION Spec
CONSTANTS
  u1 = u1
  nobody = nobody
  boss = boss
  s1 = s1
  api = api
  Users = {u1}
  NoUser = nobody
  Boss <- Superior
  Screens = {s1}
  Versionless = {api}
  Managers = {s1}
  MaxPlans = 2
  MaxAttempts = 3
  MaxActions = 2
  MaxFollowups = 2
  MaxFaults = 1
  Remarks = {"cnr", "not_interested"}
  Levels = {"cold_lead", "follow_up_required"}
  Events = {"tte_attended"}
  NextTypes = {"follow_up"}
  MeetingKinds = {"followup"}
INVARIANTS
  TypeOK
  OneNextAction
  RetryPlanSound
  VersionProtects
PROPERTIES
  HistoryKept
  HeldByRetry
  PendingOnce
  Journey
  NextActionComes
  LatenessNoticed
  OverdueAnnounced
  OwnerFollows
CHECK_DEADLOCK FALSE
