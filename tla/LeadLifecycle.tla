---------------------------- MODULE LeadLifecycle ----------------------------
(***************************************************************************)
(* Lifecycle V2 of one lead (lifecycleService.js) with its retry plans     *)
(* (CallAttempts), the handlers that call both, and the deadline job       *)
(* (lifecycleDeadlineJob.js).                                              *)
(*                                                                         *)
(* Every command locks the lead, so a command is one action; the job works *)
(* from a list it has read earlier and does not lock the lead.  Deadlines  *)
(* are kept as one bit, past: actionOverdueCondition holds.  The version   *)
(* of the state is what screens have read: it is current for a screen as   *)
(* long as nobody has raised it since (fresh).                             *)
(***************************************************************************)
EXTENDS CallAttempts

CONSTANTS
  Users,          \* counselors a lead is assigned to
  NoUser,
  Boss,           \* report_to_id of a counselor
  Screens,        \* open panels, each of a user with the rights to the lead
  Versionless,    \* clients whose commands carry no expected_version
  Managers,       \* the panels and clients of managers and administrators
  MaxActions,     \* bound: actions the lead's users create; the job may create one more
  MaxFollowups,   \* stageFollowupMaxAttempts
  Remarks,        \* statuses of remarks that are made
  Levels,         \* lead categories that are saved
  Events,         \* activities that are recorded
  NextTypes,      \* types of next actions that screens select
  MeetingKinds,   \* what a saved personal meeting says
  MaxFaults       \* bound: ticks of the job that fail

ASSUME BossAssumption == DOMAIN Boss = Users
ASSUME UserAssumption == NoUser \notin Users
ASSUME ClientsAssumption == Screens \cap Versionless = {}
ASSUME ManagersAssumption == Managers \subseteq Screens \cup Versionless
ASSUME ActionsAssumption == MaxActions \in Nat
ASSUME FollowupsAssumption == MaxFollowups \in Nat \ {0}
ASSUME FaultsAssumption == MaxFaults \in Nat

VARIABLES
  owner,      \* leads.assigned_to_user_id
  state,      \* lead_lifecycle_state; before the row exists, what ensureState would insert
  action,     \* lead_actions, in the order of their creation
  plans,      \* lead_call_attempt_sequences with their attempts
  converted,  \* the event of the lead's conversion row exists
  screen,     \* the state a panel has read
  job,        \* the tick: what is next, the lead is on its list, overdue actions to announce
  faults      \* history: failed ticks

vars == <<owner, state, action, plans, converted, screen, job, faults>>

Actions == 1..(MaxActions + 1)
NoAction == 0    \* current_primary_action_id NULL
\* offer: tte, personal_meeting and quotation, between which no rule tells.
Stages == {"new", "response", "common_meeting", "offer"}
Terminals == {"none", "converted", "cold"}
ActiveStatus == {"scheduled", "in_progress", "paused", "overdue"}
ActionTypes ==
  {"first_contact", "responded_next_action", "common_meeting", "common_meeting_outcome",
   "recontact", "tte", "tte_outcome", "personal_meeting", "personal_meeting_outcome",
   "quotation", "callback", "follow_up", "manager_escalation", "lifecycle_review", "other"}
ASSUME NextTypesAssumption == NextTypes \subseteq ActionTypes
CommonTypes == {"common_meeting", "common_meeting_outcome"}
Bosses == {Boss[u] : u \in Users}

\* notice: whether pending_started was recorded of the action ("started")
\* and its notification created ("sent").
UnusedAction ==
  [status |-> "unused", type |-> "other", past |-> FALSE, attempt |-> 0, owner |-> NoUser, notice |-> "none"]
NotRead == [fresh |-> FALSE, row |-> [exists |-> FALSE, stage |-> "new", terminal |-> "none", current |-> NoAction]]
Idle == [pc |-> "idle", listed |-> FALSE, told |-> {}]

Init ==
  /\ owner \in Users \cup {NoUser}
  /\ state \in [exists : {FALSE}, stage : {"new", "response"}, terminal : {"none", "cold"}, current : {NoAction}]
  /\ action = [a \in Actions |-> UnusedAction]
  /\ plans = [s \in Plans |-> UnusedPlan]
  /\ converted = FALSE
  /\ screen = [s \in Screens |-> NotRead]
  /\ job = Idle
  /\ faults = 0

-----------------------------------------------------------------------------
(* Actions of the journey.                                                 *)

IsActive(a) == action[a].status \in ActiveStatus
Ensured(row) == [row EXCEPT !.exists = TRUE]

\* version = version + 1: what screens have read is out of date.
Raised == [s \in Screens |-> IF screen[s].fresh THEN NotRead ELSE screen[s]]

\* completed or cancelled: of an action that has ended no more is kept.
Ended == [UnusedAction EXCEPT !.status = "ended"]

CancelPrimary(acts) ==
  [a \in Actions |-> IF acts[a].status \in ActiveStatus THEN Ended ELSE acts[a]]

Responsible(type, user) ==
  IF type = "manager_escalation" /\ user \in Users /\ Boss[user] # NoUser THEN Boss[user] ELSE user

NewAction(type, attempt) ==
  [status |-> "scheduled", type |-> type, past |-> FALSE, attempt |-> attempt,
   owner |-> Responsible(type, owner), notice |-> "none"]

NextId == {a \in Actions : action[a].status = "unused" /\ \A b \in 1..(a - 1) : action[b].status # "unused"}
NextForUsers == NextId \cap 1..MaxActions

\* Mutant: the action that was active stays.
WithPrimaryBeside(acts, a, new) == [acts EXCEPT ![a] = new]

\* createPrimaryAction: the action that was active makes way.
WithPrimary(acts, a, new) == [CancelPrimary(acts) EXCEPT ![a] = new]

EndPlans(p) == [s \in Plans |-> IF p[s].status = "active" THEN Closed(p[s]) ELSE CancelFuture(p[s])]

\* Mutant: the plan goes on.
CloseJourneyKeepPlan(row, p, terminal) ==
  /\ action' = CancelPrimary(action)
  /\ plans' = p
  /\ state' = [row EXCEPT !.terminal = terminal, !.current = NoAction]
  /\ screen' = Raised

\* What every way of closing a journey does, given the lead's row and plans.
CloseJourney(row, p, terminal) ==
  /\ action' = CancelPrimary(action)
  /\ plans' = EndPlans(p)
  /\ state' = [row EXCEPT !.terminal = terminal, !.current = NoAction]
  /\ screen' = Raised

\* The journey goes on with a new primary action.
\* Mutant: the version is not raised.
MoveToSilently(a, row, stage, type, attempt) ==
  /\ action' = WithPrimary(action, a, NewAction(type, attempt))
  /\ state' = [row EXCEPT !.stage = stage, !.current = a]
  /\ UNCHANGED screen

MoveTo(a, row, stage, type, attempt) ==
  /\ action' = WithPrimary(action, a, NewAction(type, attempt))
  /\ state' = [row EXCEPT !.stage = stage, !.current = a]
  /\ screen' = Raised

MoveOn(row, stage, type, attempt) ==
  \E a \in NextForUsers : MoveTo(a, row, stage, type, attempt)

-----------------------------------------------------------------------------
(* Remarks: syncLegacyRemark and the handlers around it.                   *)

CommonMeetingRemarks == {"communication_completed", "respond_hi"}
SessionRemarks == {"session_730_attend", "yes_after_730_session"}
GeneralRemarks == {"interested", "custom_remark", "ni"}
CallIssues == Retryable \cup {"ni", "in"}
ClosingRemarks == {"converted", "not_interested", "in"}

StageAfter(status, stage) ==
  CASE status \in CommonMeetingRemarks \cup SessionRemarks -> "common_meeting"
    [] status = "interested" /\ stage \in {"new", "response"} -> "response"
    [] OTHER -> stage

FollowupType(status) == IF status = "callback_requested" THEN "callback" ELSE "follow_up"

RemarkAction(status) ==
  CASE status \in CommonMeetingRemarks \cup {"session_730_attend"} -> "common_meeting_outcome"
    [] status \in {"callback_requested", "follow_up"} -> FollowupType(status)
    [] OTHER -> "lifecycle_review"

ReplacesCurrent(status) ==
  status \in CommonMeetingRemarks \cup SessionRemarks \cup GeneralRemarks \cup {"callback_requested", "follow_up"}

\* An action is paused for the plan that has begun, and put back when a
\* later remark finds it paused without one.
Pause(acts, a) ==
  [b \in Actions |-> IF b = a /\ acts[b].status \in ActiveStatus THEN [acts[b] EXCEPT !.status = "paused"] ELSE acts[b]]

\* Mutants: the action stays paused; it is scheduled anew although late.
PutBackNever(acts, a) == acts
PutBackScheduled(acts, a) ==
  [b \in Actions |-> IF b = a /\ acts[b].status = "paused" THEN [acts[b] EXCEPT !.status = "scheduled"] ELSE acts[b]]

PutBack(acts, a) ==
  [b \in Actions |->
     IF b = a /\ acts[b].status = "paused"
     THEN [acts[b] EXCEPT !.status = IF acts[b].past THEN "overdue" ELSE "scheduled"] ELSE acts[b]]

SyncRemark(row, p, status) ==
  LET held == status \in Retryable /\ ActivePlans(p) # {}
      makes == /\ ~held
               /\ ReplacesCurrent(status) \/ (row.current = NoAction /\ status \in CallIssues)
  IN \/ /\ status \in ClosingRemarks
        /\ CloseJourney(row, p, IF status = "converted" THEN "converted" ELSE "cold")
     \/ /\ status \notin ClosingRemarks
        /\ plans' = p
        /\ \/ row.terminal # "none" /\ state' = row /\ UNCHANGED <<action, screen>>
           \/ /\ row.terminal = "none"
              /\ makes
              /\ MoveOn(row, StageAfter(status, row.stage), RemarkAction(status), 0)
           \/ /\ row.terminal = "none"
              /\ ~makes
              /\ action' = IF held THEN Pause(action, row.current) ELSE PutBack(action, row.current)
              /\ state' = [row EXCEPT !.stage = StageAfter(status, row.stage)]
              /\ screen' = Raised

\* createLeadInteraction writes the call status first, so that ensureState,
\* if it has to insert the row, sees it.
Interacted(status) ==
  IF state.exists THEN {state}
  ELSE {[state EXCEPT !.stage = IF @ = "new" THEN "response" ELSE @, !.terminal = t] :
          t \in CASE status = "converted" -> {"converted"}
                  [] status = "not_interested" -> {"cold"}
                  [] OTHER -> {state.terminal, "none"}}

Rest == UNCHANGED <<owner, converted, job, faults>>

\* POST workflow/remark; the outcome of the call may be left out.
WorkflowRemark(status, called, confirmed) ==
  /\ \E row \in Interacted(status) :
       \E p \in IF called THEN Reconciled(plans, status, confirmed) ELSE {plans} :
         SyncRemark(Ensured(row), p, status)
  /\ Rest

\* The same with attempt_mode unscheduled_call.
ExtraCall(status) ==
  /\ status \in Retryable
  /\ ExtraCallAllowed(plans)
  /\ \E row \in Interacted(status) : SyncRemark(Ensured(row), plans, status)
  /\ Rest

\* POST call-attempts/:id/complete on the attempt that is due; on another
\* one it changes nothing.
CompleteAttempt(outcome) ==
  LET status == IF outcome = "call_received" THEN "communication_completed" ELSE outcome IN
  /\ \E row \in Interacted(status), p \in Advanced(plans, outcome) : SyncRemark(Ensured(row), p, status)
  /\ Rest

\* addRemark and bulkAddRemarks: plans follow the remark, the lifecycle is
\* not told.
PlainRemark(status) ==
  /\ plans' \in CASE status \in Retryable -> Reconciled(plans, status, FALSE)
                  [] status \in CancellingCall -> {CancelledPlans(plans)}
                  [] OTHER -> {plans}
  /\ state' \in Interacted(status)
  /\ UNCHANGED <<action, screen>>
  /\ Rest

\* POST workflow/conversion.  The key of the event is the id of the lead's
\* one conversion row.
Conversion ==
  LET row == Ensured(IF state.exists THEN state ELSE [state EXCEPT !.terminal = "converted"])
      p == CancelledPlans(plans)
  IN /\ \/ ~converted /\ CloseJourney(row, p, "converted")
        \/ converted /\ state' = row /\ plans' = p /\ UNCHANGED <<action, screen>>
     /\ converted' = TRUE
     /\ UNCHANGED <<owner, job, faults>>

-----------------------------------------------------------------------------
(* Lead categories and personal meetings.                                  *)

ColdLevels == {"cold_lead", "cold_partner", "cold_trader", "not_interested", "lost"}
FollowupLevels == {"follow_up_required", "followup_partner", "followup_trader"}
LevelAction(level) ==
  CASE level = "callback_requested" -> "callback"
    [] level \in FollowupLevels -> "follow_up"
    [] OTHER -> "lifecycle_review"

\* syncLegacyLeadLevel: no new action while a plan is active.
SaveLevel(level) ==
  LET row == Ensured(state) IN
  /\ \/ level \in {"converted", "closed"} /\ CloseJourney(row, plans, "converted")
     \/ level \in ColdLevels /\ CloseJourney(row, plans, "cold")
     \/ /\ level \notin ColdLevels \cup {"converted", "closed"}
        /\ UNCHANGED plans
        /\ \/ row.terminal # "none" /\ state' = row /\ UNCHANGED <<action, screen>>
           \/ /\ row.terminal = "none"
              /\ ActivePlans(plans) = {}
              /\ MoveOn(row, row.stage, LevelAction(level), 0)
           \/ /\ row.terminal = "none"
              /\ ActivePlans(plans) # {}
              /\ state' = row
              /\ screen' = Raised
              /\ UNCHANGED action
  /\ Rest

MeetingAction(kind) ==
  CASE kind \in {"next_meeting", "scheduled"} -> "personal_meeting"
    [] kind = "followup" -> "follow_up"
    [] OTHER -> "lifecycle_review"

\* syncLegacyPersonalMeeting; the same meeting saved again is a duplicate
\* and changes nothing.
PersonalMeeting(kind) ==
  LET row == Ensured(state) IN
  /\ \/ row.terminal # "none" /\ state' = row /\ UNCHANGED <<action, plans, screen>>
     \/ /\ row.terminal = "none"
        /\ kind = "converted"
        /\ CloseJourney([row EXCEPT !.stage = "offer"], plans, "converted")
     \/ /\ row.terminal = "none"
        /\ kind # "converted"
        /\ MoveOn(row, "offer", MeetingAction(kind), IF kind = "followup" THEN 1 ELSE 0)
        /\ UNCHANGED plans
  /\ Rest

-----------------------------------------------------------------------------
(* Commands of the lifecycle panel and of other clients of its routes.  A  *)
(* retry of one that has succeeded is answered from its event and changes  *)
(* nothing.                                                                *)

\* GET lifecycle, which inserts the row if there is none.
Read(s) ==
  /\ state' = Ensured(state)
  /\ screen' = [screen EXCEPT ![s] = [fresh |-> TRUE, row |-> state']]
  /\ UNCHANGED <<action, plans>>
  /\ Rest

\* validateExpectedVersion: without a version nothing is compared.
Accepted(s) == s \in Versionless \/ (s \in Screens /\ screen[s].fresh)

NoNext == [type |-> "none", attempt |-> 0]

\* normalizeNextAction: what the client selects, or nothing.
Selected(stage) ==
  {NoNext} \cup
  UNION {CASE type = "common_meeting" -> {[type |-> "common_meeting_outcome", attempt |-> 0]}
           [] type = "follow_up" /\ stage = "offer" ->
                {[type |-> type, attempt |-> n] : n \in 1..MaxFollowups}
           [] OTHER -> {[type |-> type, attempt |-> 0]} : type \in NextTypes}

StageForEvent(event, stage) ==
  CASE event \in {"responded", "communication_completed"} -> "response"
    [] event \in {"common_meeting_scheduled", "common_meeting_attended", "common_meeting_missed"} -> "common_meeting"
    [] event \in {"tte_scheduled", "tte_attended", "tte_missed", "tte_completed",
                  "personal_meeting_scheduled", "personal_meeting_attended", "personal_meeting_missed",
                  "personal_meeting_completed", "quotation_sent"} -> "offer"
    [] OTHER -> stage

EventDefault(event, next) ==
  CASE next = NoNext /\ event \in {"responded", "communication_completed"} ->
         [type |-> "common_meeting_outcome", attempt |-> 0]
    [] next = NoNext /\ event = "common_meeting_missed" -> [type |-> "recontact", attempt |-> 0]
    [] OTHER -> next

NeedsNext(event) ==
  event \in {"common_meeting_attended", "tte_completed", "personal_meeting_completed", "quotation_sent"}

RecordEvent(s, event) ==
  LET row == Ensured(state) IN
  /\ Accepted(s)
  /\ row.terminal = "none"
  /\ \E selected \in Selected(row.stage) :
       LET next == EventDefault(event, selected)
           stage == IF next.type \in CommonTypes THEN "common_meeting" ELSE StageForEvent(event, row.stage)
       IN \/ next # NoNext /\ MoveOn(row, stage, next.type, next.attempt)
          \/ /\ next = NoNext
             /\ ~NeedsNext(event)
             /\ row.current # NoAction \/ ActivePlans(plans) # {}
             /\ action' = IF event \in {"tte_attended", "personal_meeting_attended"}
                          THEN [a \in Actions |->
                                  IF a = row.current /\ action[a].status \in {"scheduled", "overdue"}
                                  THEN [action[a] EXCEPT !.status = "in_progress"] ELSE action[a]]
                          ELSE action
             /\ state' = [row EXCEPT !.stage = stage]
             /\ screen' = Raised
  /\ UNCHANGED plans
  /\ Rest

\* Mutant: one follow-up more.
FollowupPolicyLong(act, next) ==
  LET attempt == IF act.attempt = 0 THEN 1 ELSE act.attempt IN
  CASE act.type # "follow_up" -> next
    [] act.type = "follow_up" /\ attempt > MaxFollowups -> [type |-> "manager_escalation", attempt |-> 0]
    [] act.type = "follow_up" /\ attempt <= MaxFollowups /\ next.type = "follow_up" ->
         [next EXCEPT !.attempt = attempt + 1]
    [] OTHER -> next

\* applyStageFollowupPolicy, for an action without a counter the first one.
FollowupPolicy(act, next) ==
  LET attempt == IF act.attempt = 0 THEN 1 ELSE act.attempt IN
  CASE act.type # "follow_up" -> next
    [] act.type = "follow_up" /\ attempt >= MaxFollowups -> [type |-> "manager_escalation", attempt |-> 0]
    [] act.type = "follow_up" /\ attempt < MaxFollowups /\ next.type = "follow_up" ->
         [next EXCEPT !.attempt = attempt + 1]
    [] OTHER -> next

StageActions == {"tte", "tte_outcome", "personal_meeting", "personal_meeting_outcome", "quotation"}

CompleteAction(s, a, event, done) ==
  LET row == Ensured(state)
      act == action[a]
      stage == StageForEvent(event, row.stage)
  IN /\ Accepted(s)
     /\ act.status \in ActiveStatus \ {"paused"}
     /\ act.type = "manager_escalation" => s \in Managers
     /\ \E selected \in Selected(stage) :
          LET given == IF act.type \in CommonTypes /\ selected = NoNext /\ event = "common_meeting_missed"
                       THEN [type |-> "recontact", attempt |-> 0] ELSE selected
              next == FollowupPolicy(act, given)
          IN /\ (done \/ act.type \in StageActions) => given # NoNext
             /\ next # NoNext
             /\ \E b \in NextForUsers :
                  /\ action' = WithPrimary([action EXCEPT ![a] = Ended], b,
                                           NewAction(next.type, next.attempt))
                  /\ state' = [row EXCEPT !.stage = stage, !.current = b]
             /\ screen' = Raised
     /\ UNCHANGED plans
     /\ Rest

Close(s, terminal) ==
  /\ Accepted(s)
  /\ CloseJourney(Ensured(state), plans, terminal)
  /\ Rest

\* The panel reopens a journey at the stage it was closed in.
Reopen(s) ==
  LET row == Ensured(state) IN
  /\ s \in Managers
  /\ Accepted(s)
  /\ row.terminal # "none"
  /\ \E next \in Selected(row.stage) \ {NoNext} :
       MoveOn([row EXCEPT !.terminal = "none"], row.stage, next.type, next.attempt)
  /\ UNCHANGED plans
  /\ Rest

\* An assignment changes hands outside the lifecycle.
Assign(u) ==
  /\ owner' = u
  /\ UNCHANGED <<state, action, plans, converted, screen, job, faults>>

-----------------------------------------------------------------------------
(* The deadline job: one tick after the other, each in five steps.  Old    *)
(* rows that repairLegacyMeetingDeadlines looks for are not in the model.  *)

At(pc) == job.pc = pc
Others == UNCHANGED <<owner, plans, converted>>

\* Mutants: of every action of the lead; of scheduled actions only.
RealignAll ==
  /\ At("idle")
  /\ action' = [a \in Actions |-> [action[a] EXCEPT !.owner = Responsible(action[a].type, owner)]]
  /\ job' = [job EXCEPT !.pc = "list"]
  /\ UNCHANGED <<state, screen, faults>>
  /\ Others

RealignScheduled ==
  /\ At("idle")
  /\ action' = [a \in Actions |->
       IF action[a].status = "scheduled"
       THEN [action[a] EXCEPT !.owner = Responsible(action[a].type, owner)] ELSE action[a]]
  /\ job' = [job EXCEPT !.pc = "list"]
  /\ UNCHANGED <<state, screen, faults>>
  /\ Others

\* realignActionOwners
Realign ==
  /\ At("idle")
  /\ action' = [a \in Actions |->
       IF IsActive(a) THEN [action[a] EXCEPT !.owner = Responsible(action[a].type, owner)] ELSE action[a]]
  /\ job' = [job EXCEPT !.pc = "list"]
  /\ UNCHANGED <<state, screen, faults>>
  /\ Others

\* Mutant: the query joins the state row.
ListMissingKnown ==
  /\ At("list")
  /\ job' = [job EXCEPT !.pc = "create",
                        !.listed = /\ owner # NoUser
                                   /\ state.exists
                                   /\ state.terminal = "none"
                                   /\ \A a \in Actions : ~IsActive(a)
                                   /\ ActivePlans(plans) = {}]
  /\ UNCHANGED <<state, action, screen, faults>>
  /\ Others

\* The query of materializeMissingActions.
ListMissing ==
  /\ At("list")
  /\ job' = [job EXCEPT !.pc = "create",
                        !.listed = /\ owner # NoUser
                                   /\ state.terminal = "none"
                                   /\ \A a \in Actions : ~IsActive(a)
                                   /\ ActivePlans(plans) = {}]
  /\ UNCHANGED <<state, action, screen, faults>>
  /\ Others

\* Its transaction for the lead, if that was on the list.
Materialize ==
  /\ At("create")
  /\ job' = [job EXCEPT !.pc = "mark", !.listed = FALSE]
  /\ LET row == Ensured(state) IN
     \/ ~job.listed /\ UNCHANGED <<state, action, screen>>
     \/ /\ job.listed
        /\ (\E a \in Actions : IsActive(a)) \/ row.terminal # "none"
        /\ state' = row
        /\ UNCHANGED <<action, screen>>
     \/ /\ job.listed
        /\ \A a \in Actions : ~IsActive(a)
        /\ row.terminal = "none"
        /\ \E a \in NextId :
             MoveTo(a, row, row.stage, IF row.stage = "new" THEN "first_contact" ELSE "lifecycle_review", 0)
  /\ UNCHANGED faults
  /\ Others

Overdue(a) == action[a].status = "scheduled" /\ action[a].past

\* Mutant: only actions somebody is responsible for.
MarkOverdueOwned ==
  /\ At("mark")
  /\ LET late == {a \in Actions : Overdue(a) /\ action[a].owner # NoUser} IN
     /\ action' = [a \in Actions |->
          IF a \in late THEN [action[a] EXCEPT !.status = "overdue", !.notice = "started"] ELSE action[a]]
     /\ job' = [job EXCEPT !.pc = "tell", !.told = late]
  /\ UNCHANGED <<state, screen, faults>>
  /\ Others

\* markOverdue up to its commit; nobody is told of what nobody is
\* responsible for.
MarkOverdue ==
  /\ At("mark")
  /\ LET late == {a \in Actions : Overdue(a)} IN
     /\ action' = [a \in Actions |->
          IF a \in late THEN [action[a] EXCEPT !.status = "overdue", !.notice = "started"] ELSE action[a]]
     /\ job' = [job EXCEPT !.pc = "tell",
                         !.told = {a \in late : action[a].owner # NoUser \/ owner # NoUser}]
  /\ UNCHANGED <<state, screen, faults>>
  /\ Others

\* Mutant: only of actions that are still overdue.
AnnounceOverdue ==
  /\ At("tell")
  /\ action' = [a \in Actions |->
       IF a \in job.told /\ action[a].status = "overdue" THEN [action[a] EXCEPT !.notice = "sent"] ELSE action[a]]
  /\ job' = Idle
  /\ UNCHANGED <<state, screen, faults>>
  /\ Others

\* The notifications, also of actions that have ended meanwhile; their key
\* allows one for each action.
Announce ==
  /\ At("tell")
  /\ action' = [a \in Actions |->
       IF a \in job.told /\ IsActive(a) THEN [action[a] EXCEPT !.notice = "sent"] ELSE action[a]]
  /\ job' = Idle
  /\ UNCHANGED <<state, screen, faults>>
  /\ Others

\* A tick that fails or dies in the middle, or skips an action that is
\* locked, is over; the next one starts from the beginning.
TickFails ==
  /\ ~At("idle")
  /\ faults < MaxFaults
  /\ faults' = faults + 1
  /\ job' = Idle
  /\ UNCHANGED <<state, action, screen>>
  /\ Others

-----------------------------------------------------------------------------
(* Time.                                                                   *)

DeadlinePasses(a) ==
  /\ IsActive(a)
  /\ ~action[a].past
  /\ action' = [action EXCEPT ![a].past = TRUE]
  /\ UNCHANGED <<state, plans, screen>>
  /\ Rest

AttemptFallsDue(s) ==
  /\ s \in ActivePlans(plans)
  /\ ~plans[s].due
  /\ plans' = [plans EXCEPT ![s].due = TRUE]
  /\ UNCHANGED <<state, action, screen>>
  /\ Rest

-----------------------------------------------------------------------------
Counselor ==
  \/ \E status \in Remarks : \E called, confirmed \in BOOLEAN : WorkflowRemark(status, called, confirmed)
  \/ \E status \in Remarks : ExtraCall(status) \/ PlainRemark(status)
  \/ \E outcome \in Outcomes \cap (Remarks \cup {"call_received"}) : CompleteAttempt(outcome)
  \/ Conversion
  \/ \E level \in Levels : SaveLevel(level)
  \/ \E kind \in MeetingKinds : PersonalMeeting(kind)

Panel ==
  \/ \E s \in Screens : Read(s)
  \/ \E s \in Screens \cup Versionless :
    \/ \E event \in Events : RecordEvent(s, event)
    \/ \E a \in Actions, event \in Events \cup {"none"}, done \in BOOLEAN : CompleteAction(s, a, event, done)
    \/ \E terminal \in Terminals \ {"none"} : Close(s, terminal)
    \/ Reopen(s)

Tick == Realign \/ ListMissing \/ Materialize \/ MarkOverdue \/ Announce

Time == (\E a \in Actions : DeadlinePasses(a)) \/ (\E s \in Plans : AttemptFallsDue(s))

Next == Counselor \/ Panel \/ (\E u \in Users \cup {NoUser} : Assign(u)) \/ Tick \/ TickFails \/ Time

Spec == Init /\ [][Next]_vars /\ WF_vars(Tick)

-----------------------------------------------------------------------------
ActionRecord ==
  [status : {"unused", "ended"} \cup ActiveStatus, type : ActionTypes, past : BOOLEAN,
   attempt : 0..MaxFollowups, owner : Users \cup {NoUser} \cup Bosses, notice : {"none", "started", "sent"}]
StateRecord ==
  [exists : BOOLEAN, stage : Stages, terminal : Terminals, current : Actions \cup {NoAction}]

\* The rows of the lead, of its actions and plans, of the panels and of the
\* job have the columns the code gives them.
TypeOK ==
  /\ owner \in Users \cup {NoUser}
  /\ state \in StateRecord
  /\ action \in [Actions -> ActionRecord]
  /\ plans \in [Plans -> Plan]
  /\ converted \in BOOLEAN
  /\ screen \in [Screens -> [fresh : BOOLEAN, row : StateRecord]]
  /\ job \in [pc : {"idle", "list", "create", "mark", "tell"}, listed : BOOLEAN, told : SUBSET Actions]
  /\ faults \in 0..MaxFaults

\* A lead has one next action at most, and its state row points to it: every
\* handler that creates, replaces, pauses or ends an action agrees with
\* current_primary_action_id, so the partial unique index of migration 073
\* never refuses a command, and a closed journey has none.
OneNextAction ==
  /\ \A a \in Actions : IsActive(a) => a = state.current
  /\ state.current # NoAction => IsActive(state.current) /\ state.terminal = "none" /\ state.exists

\* Whatever remarks, calls, commands and closings come together, a lead has
\* one active plan at most (the index of migration 069), its attempts follow
\* one another without a gap, the active one waits for exactly one attempt
\* and an ended one for none.
RetryPlanSound ==
  /\ \A s \in Plans : PlanSound(plans[s])
  /\ \A r, s \in ActivePlans(plans) : r = s

\* An action is paused only while a plan is there that will put it back: it
\* is paused for an active plan, and who ends the plan puts it back or
\* replaces it, except for handlers that do not tell the lifecycle.
Untold == (\E status \in Remarks : PlainRemark(status)) \/ (converted /\ Conversion)

HeldByRetry ==
  [][\A a \in Actions :
       action'[a].status = "paused" /\ ActivePlans(plans') = {} =>
         action[a].status = "paused" /\ (ActivePlans(plans) = {} \/ Untold)]_vars

\* expected_version protects what a panel shows: whatever changes the state
\* row raises its version, commands without a version included, so a panel
\* whose version is accepted has read the row as it is.
VersionProtects == \A s \in Screens : screen[s].fresh => screen[s].row = state

\* What has ended stays as it ended: no handler reopens or rewrites an action
\* that was completed or cancelled or a plan that is over, nor cancels
\* attempts of one.
HistoryKept ==
  [][/\ \A a \in Actions : action[a].status = "ended" => action'[a] = action[a]
     /\ \A s \in Plans : plans[s].status = "ended" => plans'[s] = plans[s]]_vars

\* An action becomes pending once: nothing that pauses it, puts it back or
\* works on it lets the job start another cycle and notify again.
PendingOnce ==
  [][\A a \in Actions :
       /\ a \in job'.told \ job.told => action[a].notice = "none"
       /\ IsActive(a) /\ IsActive(a)' /\ action[a].notice = "sent" => action'[a].notice = "sent"]_vars

-----------------------------------------------------------------------------
\* The job gives every open lead of a counselor a next action.
NextActionComes ==
  (owner # NoUser /\ state.terminal = "none" /\ state.current = NoAction) ~>
    (state.current # NoAction \/ state.terminal # "none" \/ ActivePlans(plans) # {} \/ owner = NoUser)

\* A deadline that passes is noticed.
LatenessNoticed == (\E a \in Actions : Overdue(a)) ~> (\A a \in Actions : ~Overdue(a))

\* While the lead is somebody's, and unless a tick fails between its commit
\* and the notifications, that user hears of an action that has become
\* overdue.
Unheard == \E a \in Actions : action[a].notice = "started"
OverdueAnnounced == [](owner # NoUser) => (Unheard ~> (~Unheard \/ faults > 0))

\* An action follows the lead to its new owner, and an escalation to the
\* new owner's superior.
Misowned == \E a \in Actions : IsActive(a) /\ action[a].owner # Responsible(action[a].type, owner)
OwnerFollows == Misowned ~> ~Misowned

Phase ==
  CASE ~state.exists -> "unknown"
    [] state.exists /\ state.terminal # "none" -> "closed"
    [] state.exists /\ state.terminal = "none" /\ state.current = NoAction -> "unplanned"
    [] OTHER -> [scheduled |-> "planned", overdue |-> "late", in_progress |-> "working",
                 paused |-> "held"][action[state.current].status]
Tries ==
  IF ActivePlans(plans) = {} THEN 0 ELSE CHOOSE n \in Numbers : \E s \in ActivePlans(plans) : n \in Scheduled(plans[s])

Abstract == INSTANCE LeadJourney WITH
  phase <- Phase, step <- Cardinality({a \in Actions : action[a].status # "unused"}),
  tries <- Tries, MaxTries <- MaxAttempts

\* The handlers, the panels and the job together keep what LeadJourney
\* promises.
Journey == Abstract!Spec
=============================================================================
