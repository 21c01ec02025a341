------------------------ MODULE LeadLifecycle_proofs ------------------------
(***************************************************************************)
(* Theorems about LeadLifecycle, for any number of counselors, panels,     *)
(* actions, plans and attempts.                                            *)
(*                                                                         *)
(* Every step changes the journey in one of three ways: it plans a new     *)
(* action, closes the journey, or works on the action there is (Shape).    *)
(* Each action of the specification is shown to be of one of these shapes, *)
(* and the theorems argue by the shapes.                                   *)
(***************************************************************************)
EXTENDS LeadLifecycle, CallAttempts_proofs, FiniteSetTheorems

\* A panel whose version is accepted has read a row that exists.
PanelsCurrent == \A s \in Screens : screen[s].fresh => screen[s].row = state /\ state.exists

\* What has been announced is past, and is not waiting for its time again.
Noticed(x) == x.notice # "none" => x.past /\ x.status \in ActiveStatus \ {"scheduled"}

\* The actions the job is about to announce have been marked.
ToldMarked == \A a \in job.told : action[a].notice # "none" \/ action[a].status = "ended"

JourneyInv ==
  /\ TypeOK
  /\ OneNextAction
  /\ PlansSound(plans)
  /\ PanelsCurrent
  /\ \A a \in Actions : Noticed(action[a])
  /\ ToldMarked

-----------------------------------------------------------------------------
(* The shapes of a step. *)

\* An action as it is created.
IsNew(x) == x \in ActionRecord /\ x.status = "scheduled" /\ x.notice = "none"

\* A new action takes the place of the one that was active.
Planned ==
  /\ \E a \in NextId, new \in ActionRecord :
       /\ IsNew(new)
       /\ action' = [b \in Actions |-> IF b = a THEN new ELSE IF IsActive(b) THEN Ended ELSE action[b]]
       /\ state' \in StateRecord /\ state'.exists /\ state'.terminal = "none" /\ state'.current = a
  /\ screen' = Raised
  /\ PlanStep(plans, plans')

\* The journey is closed, and the retry plan with it.
Closes ==
  /\ action' = CancelPrimary(action)
  /\ state' \in StateRecord /\ state'.exists /\ state'.terminal # "none" /\ state'.current = NoAction
  /\ screen' = Raised
  /\ \E p : PlanStep(plans, p) /\ plans' = EndPlans(p)

\* How an active action may go on.
GoesOn(x, y) ==
  /\ y.status \in ActiveStatus /\ y.type = x.type
  /\ x.notice = "sent" => y.notice = "sent"
  /\ x.notice # "none" => y.notice # "none"
  /\ Noticed(y)
  /\ \/ y.status = x.status
     \/ x.status = "scheduled" /\ y.status = "overdue" /\ plans' = plans
     \/ x.status \in {"scheduled", "overdue"} /\ y.status = "in_progress" /\ plans' = plans
     \/ y.status = "paused" /\ ActivePlans(plans') # {}
     \/ x.status = "paused" /\ y.status \in {"scheduled", "overdue"}

Works ==
  /\ action' \in [Actions -> ActionRecord]
  /\ \A a \in Actions : IF IsActive(a) THEN GoesOn(action[a], action'[a]) ELSE action'[a] = action[a]
  /\ state' \in StateRecord /\ state'.current = state.current
  /\ state.exists => state'.exists /\ state'.terminal = state.terminal
  /\ screen' \in [Screens -> [fresh : BOOLEAN, row : StateRecord]]
  /\ PanelsCurrent'
  /\ PlanStep(plans, plans')
  /\ ActivePlans(plans) # {} /\ ActivePlans(plans') = {} /\ ~Untold =>
       \A a \in Actions : action'[a].status # "paused"

\* The rest of the state, and what the job takes up to announce.
Aside ==
  /\ owner' \in Users \cup {NoUser} /\ converted' \in BOOLEAN /\ faults' \in 0..MaxFaults
  /\ job' \in [pc : {"idle", "list", "create", "mark", "tell"}, listed : BOOLEAN, told : SUBSET Actions]
  /\ \/ job'.told \subseteq job.told
     \/ \A a \in job'.told : action[a].status = "scheduled" /\ action'[a].notice = "started"

Shape == Planned \/ Closes \/ Works

-----------------------------------------------------------------------------
(* Records. *)

LEMMA Constants ==
  /\ NoAction \notin Actions
  /\ \A a \in Actions : a \in Int
  /\ UnusedAction \in ActionRecord /\ Ended \in ActionRecord /\ Ended.status = "ended" /\ Ended.notice = "none"
  /\ NotRead \in [fresh : BOOLEAN, row : StateRecord] /\ ~NotRead.fresh
<1>1. NoAction \notin Actions /\ \A a \in Actions : a \in Int
  BY ActionsAssumption DEF NoAction, Actions
<1>2. 0 \in 0..MaxFollowups
  BY FollowupsAssumption
<1>3. UnusedAction \in ActionRecord /\ Ended \in ActionRecord /\ Ended.status = "ended" /\ Ended.notice = "none"
  BY <1>2 DEF UnusedAction, Ended, ActionRecord, ActionTypes
<1>4. NotRead \in [fresh : BOOLEAN, row : StateRecord] /\ ~NotRead.fresh
  BY DEF NotRead, StateRecord, Stages, Terminals
<1>. QED BY <1>1, <1>3, <1>4

LEMMA RaisedType ==
  ASSUME TypeOK
  PROVE  /\ Raised \in [Screens -> [fresh : BOOLEAN, row : StateRecord]]
         /\ \A s \in Screens : ~Raised[s].fresh
BY Constants DEF TypeOK, Raised

\* Responsible names a user, nobody, or somebody's superior.
LEMMA ResponsibleType ==
  ASSUME NEW type, NEW user \in Users \cup {NoUser}
  PROVE  Responsible(type, user) \in Users \cup {NoUser} \cup Bosses
BY DEF Responsible, Bosses

LEMMA NewActionType ==
  ASSUME TypeOK, NEW type \in ActionTypes, NEW attempt \in 0..MaxFollowups
  PROVE  NewAction(type, attempt) \in ActionRecord /\ IsNew(NewAction(type, attempt))
BY ResponsibleType DEF TypeOK, NewAction, IsNew, ActionRecord, ActiveStatus

\* What a client selects is a next action.
LEMMA SelectedType ==
  ASSUME NEW stage, NEW selected \in Selected(stage), selected # NoNext
  PROVE  /\ selected.type \in ActionTypes /\ selected.attempt \in 0..MaxFollowups
         /\ selected = [type |-> selected.type, attempt |-> selected.attempt]
<1>1. PICK type \in NextTypes :
        selected \in (CASE type = "common_meeting" -> {[type |-> "common_meeting_outcome", attempt |-> 0]}
                        [] type = "follow_up" /\ stage = "offer" -> {[type |-> type, attempt |-> n] : n \in 1..MaxFollowups}
                        [] OTHER -> {[type |-> type, attempt |-> 0]})
  BY DEF Selected
<1>2. type \in ActionTypes /\ "common_meeting_outcome" \in ActionTypes /\ 0 \in 0..MaxFollowups
  BY NextTypesAssumption, FollowupsAssumption DEF ActionTypes
<1>3. \A n \in 1..MaxFollowups : n \in 0..MaxFollowups
  BY FollowupsAssumption
<1>. QED BY <1>1, <1>2, <1>3

\* The row that a handler works with is the lead's, or one it has inserted.
Base(row) ==
  /\ row \in StateRecord /\ row.exists
  /\ row.current = state.current
  /\ state.exists => row = state

LEMMA BaseRows ==
  ASSUME TypeOK, OneNextAction
  PROVE  /\ Base(Ensured(state))
         /\ \A status : \A row \in Interacted(status) : Base(Ensured(row))
         /\ \A status : \A row \in Interacted(status) :
              row \in StateRecord /\ row.current = state.current /\ (state.exists => row = state)
<1>1. \A row \in StateRecord :
        Ensured(row) \in StateRecord /\ Ensured(row).exists /\ Ensured(row).current = row.current
          /\ (row.exists => Ensured(row) = row)
  BY DEF Ensured, StateRecord
<1>2. state \in StateRecord
  BY DEF TypeOK
<1>3. ASSUME NEW status, NEW row \in Interacted(status)
      PROVE  row \in StateRecord /\ row.current = state.current /\ (state.exists => row = state)
  <2>1. CASE state.exists
    BY <1>2, <1>3, <2>1 DEF Interacted
  <2>2. CASE ~state.exists
    <3>1. PICK t \in CASE status = "converted" -> {"converted"}
                       [] status = "not_interested" -> {"cold"}
                       [] OTHER -> {state.terminal, "none"} :
            row = [state EXCEPT !.stage = IF state.stage = "new" THEN "response" ELSE state.stage, !.terminal = t]
      BY <1>3, <2>2 DEF Interacted
    <3>2. t \in Terminals
      BY <1>2 DEF StateRecord, Terminals
    <3>3. (IF state.stage = "new" THEN "response" ELSE state.stage) \in Stages
      BY <1>2 DEF StateRecord, Stages
    <3>. QED BY <1>2, <2>2, <3>1, <3>2, <3>3 DEF StateRecord
  <2>. QED BY <2>1, <2>2
<1>. QED BY <1>1, <1>2, <1>3 DEF Base

-----------------------------------------------------------------------------
(* The three ways. *)

\* A new primary action, also when the one that was current has been
\* completed just before.
LEMMA PrimaryType ==
  ASSUME TypeOK, NEW a \in NextId, NEW new \in ActionRecord,
         NEW acts, \/ acts = action
                   \/ \E c \in Actions : IsActive(c) /\ acts = [action EXCEPT ![c] = Ended]
  PROVE  WithPrimary(acts, a, new)
           = [b \in Actions |-> IF b = a THEN new ELSE IF IsActive(b) THEN Ended ELSE action[b]]
<1>1. a \in Actions
  BY DEF NextId
<1>2. CancelPrimary(acts) = [b \in Actions |-> IF IsActive(b) THEN Ended ELSE action[b]]
  <2>1. CASE acts = action
    BY <2>1 DEF CancelPrimary, IsActive
  <2>2. CASE \E c \in Actions : IsActive(c) /\ acts = [action EXCEPT ![c] = Ended]
    <3>1. PICK c \in Actions : IsActive(c) /\ acts = [action EXCEPT ![c] = Ended]
      BY <2>2
    <3>2. \A b \in Actions : acts[b] = IF b = c THEN Ended ELSE action[b]
      BY <3>1 DEF TypeOK
    <3>3. Ended.status \notin ActiveStatus
      BY Constants DEF ActiveStatus
    <3>. QED BY <3>1, <3>2, <3>3 DEF CancelPrimary, IsActive
  <2>. QED BY <2>1, <2>2
<1>. QED BY <1>1, <1>2 DEF WithPrimary

LEMMA MoveToShape ==
  ASSUME TypeOK, NEW a \in NextId, NEW row \in StateRecord, row.exists, row.terminal = "none",
         NEW stage \in Stages, NEW type \in ActionTypes, NEW attempt \in 0..MaxFollowups,
         MoveTo(a, row, stage, type, attempt), PlanStep(plans, plans')
  PROVE  Planned
<1>1. a \in Actions
  BY DEF NextId
<1>. DEFINE new == NewAction(type, attempt)
<1>2. new \in ActionRecord /\ IsNew(new)
  BY NewActionType
<1>3. action' = [b \in Actions |-> IF b = a THEN new ELSE IF IsActive(b) THEN Ended ELSE action[b]]
  BY <1>2, PrimaryType DEF MoveTo
<1>4. state' \in StateRecord /\ state'.exists /\ state'.terminal = "none" /\ state'.current = a
  BY <1>1 DEF MoveTo, StateRecord
<1>. HIDE DEF new
<1>. QED BY <1>2, <1>3, <1>4 DEF Planned, MoveTo

LEMMA MoveOnShape ==
  ASSUME TypeOK, NEW row \in StateRecord, row.exists, row.terminal = "none",
         NEW stage \in Stages, NEW type \in ActionTypes, NEW attempt \in 0..MaxFollowups,
         MoveOn(row, stage, type, attempt), PlanStep(plans, plans')
  PROVE  Planned
BY MoveToShape DEF MoveOn, NextForUsers

LEMMA CloseShape ==
  ASSUME NEW row \in StateRecord, row.exists, NEW p, PlanStep(plans, p),
         NEW terminal \in Terminals \ {"none"}, CloseJourney(row, p, terminal)
  PROVE  Closes
<1>1. state' \in StateRecord /\ state'.exists /\ state'.terminal # "none" /\ state'.current = NoAction
  BY DEF CloseJourney, StateRecord
<1>. QED BY <1>1 DEF Closes, CloseJourney

\* An action that is left as it is goes on.
LEMMA StaysGoesOn ==
  ASSUME NEW a \in Actions, IsActive(a), Noticed(action[a])
  PROVE  GoesOn(action[a], action[a])
BY DEF GoesOn, IsActive

\* The action is left alone, and the row keeps what has been read of it, or
\* is raised.
LEMMA UntouchedShape ==
  ASSUME JourneyInv, UNCHANGED action, NEW row, Base(row), PlanStep(plans, plans'),
         \/ state' = row /\ UNCHANGED screen
         \/ /\ state' \in StateRecord /\ state'.exists /\ state'.terminal = row.terminal
            /\ state'.current = row.current /\ screen' = Raised,
         \/ ActivePlans(plans) = {} \/ ActivePlans(plans') # {} \/ Untold \/ row.current = NoAction
  PROVE  Works
<1>1. action' \in [Actions -> ActionRecord]
  BY DEF JourneyInv, TypeOK
<1>2. \A a \in Actions : IF IsActive(a) THEN GoesOn(action[a], action'[a]) ELSE action'[a] = action[a]
  BY StaysGoesOn DEF JourneyInv
<1>3. /\ state' \in StateRecord /\ state'.current = state.current
      /\ state.exists => state'.exists /\ state'.terminal = state.terminal
  BY DEF Base
<1>4. screen' \in [Screens -> [fresh : BOOLEAN, row : StateRecord]] /\ PanelsCurrent'
  <2>1. CASE state' = row /\ UNCHANGED screen
    BY <2>1 DEF JourneyInv, TypeOK, PanelsCurrent, Base
  <2>2. CASE screen' = Raised
    BY <2>2, RaisedType DEF JourneyInv, PanelsCurrent
  <2>. QED BY <2>1, <2>2
<1>5. ASSUME ActivePlans(plans) # {}, ActivePlans(plans') = {}, ~Untold, NEW a \in Actions
      PROVE  action'[a].status # "paused"
  <2>1. ~IsActive(a)
    BY <1>5, Constants DEF JourneyInv, OneNextAction, Base
  <2>. QED BY <2>1 DEF IsActive, ActiveStatus
<1>. QED BY <1>1, <1>2, <1>3, <1>4, <1>5 DEF Works

\* A remark.
LEMMA SyncShape ==
  ASSUME JourneyInv, NEW row, Base(row), NEW p, PlanStep(plans, p), NEW status, SyncRemark(row, p, status)
  PROVE  Shape
<1>1. row \in StateRecord /\ row.exists /\ row.current = state.current /\ TypeOK
  BY DEF Base, JourneyInv
<1>. DEFINE held == status \in Retryable /\ ActivePlans(p) # {}
            makes == /\ ~held
                     /\ ReplacesCurrent(status) \/ (row.current = NoAction /\ status \in CallIssues)
            stage == StageAfter(status, row.stage)
<1>2. stage \in Stages /\ RemarkAction(status) \in ActionTypes /\ 0 \in 0..MaxFollowups
  <2>1. stage \in Stages
    BY <1>1 DEF StageAfter, Stages, StateRecord
  <2>2. RemarkAction(status) \in ActionTypes
    BY DEF RemarkAction, ActionTypes, FollowupType
  <2>. QED BY <2>1, <2>2, FollowupsAssumption
<1>3. CASE status \in ClosingRemarks /\ CloseJourney(row, p, IF status = "converted" THEN "converted" ELSE "cold")
  <2>1. (IF status = "converted" THEN "converted" ELSE "cold") \in Terminals \ {"none"}
    BY DEF Terminals
  <2>. QED BY <1>1, <1>3, <2>1, CloseShape DEF Shape
<1>4. CASE plans' = p /\ row.terminal # "none" /\ state' = row /\ UNCHANGED <<action, screen>>
  <2>1. row.current = NoAction
    BY <1>4 DEF Base, JourneyInv, OneNextAction
  <2>. QED BY <1>4, <2>1, UntouchedShape DEF Shape
<1>5. CASE plans' = p /\ row.terminal = "none" /\ MoveOn(row, stage, RemarkAction(status), 0)
  BY <1>1, <1>2, <1>5, MoveOnShape DEF Shape
<1>6. CASE /\ plans' = p /\ row.terminal = "none" /\ ~makes
           /\ action' = IF held THEN Pause(action, row.current) ELSE PutBack(action, row.current)
           /\ state' = [row EXCEPT !.stage = stage]
           /\ screen' = Raised
  <2>1. action' \in [Actions -> ActionRecord]
    BY <1>1, <1>6 DEF Pause, PutBack, TypeOK, ActionRecord, ActiveStatus
  <2>2. ASSUME NEW a \in Actions
        PROVE  IF IsActive(a) THEN GoesOn(action[a], action'[a]) ELSE action'[a] = action[a]
    <3>1. Noticed(action[a]) /\ action[a] \in ActionRecord
      BY <1>1 DEF JourneyInv, TypeOK
    <3>2. CASE held
      BY <1>6, <3>1, <3>2 DEF Pause, GoesOn, Noticed, IsActive, ActiveStatus, ActionRecord
    <3>3. CASE ~held
      BY <1>6, <3>1, <3>3 DEF PutBack, GoesOn, Noticed, IsActive, ActiveStatus, ActionRecord
    <3>. QED BY <3>2, <3>3
  <2>3. state' \in StateRecord /\ state'.current = state.current /\ state'.exists /\ state'.terminal = row.terminal
    BY <1>1, <1>2, <1>6 DEF StateRecord
  <2>4. state.exists => state'.terminal = state.terminal
    BY <2>3 DEF Base
  <2>5. screen' \in [Screens -> [fresh : BOOLEAN, row : StateRecord]] /\ PanelsCurrent'
    BY <1>1, <1>6, RaisedType DEF PanelsCurrent
  <2>6. ASSUME ActivePlans(plans') = {}, NEW a \in Actions PROVE action'[a].status # "paused"
    <3>1. ~held
      BY <1>6, <2>6
    <3>2. IsActive(a) => a = row.current
      BY <1>1 DEF JourneyInv, OneNextAction
    <3>3. action[a] \in ActionRecord
      BY <1>1 DEF TypeOK
    <3>. QED BY <1>6, <3>1, <3>2, <3>3 DEF PutBack, IsActive, ActiveStatus, ActionRecord
  <2>. QED BY <1>6, <2>1, <2>2, <2>3, <2>4, <2>5, <2>6 DEF Works, Shape
<1>. QED BY <1>3, <1>4, <1>5, <1>6 DEF SyncRemark

-----------------------------------------------------------------------------
(* The actions of the specification, one after the other. *)

LEMMA RestAside == ASSUME TypeOK, Rest PROVE Aside
BY DEF TypeOK, Rest, Aside

LEMMA NoPlanStep == ASSUME UNCHANGED plans PROVE PlanStep(plans, plans') /\ PlanStep(plans, plans)
BY DEF PlanStep

LEMMA WorkflowRemarkShape ==
  ASSUME JourneyInv, NEW status, NEW called \in BOOLEAN, NEW confirmed \in BOOLEAN,
         WorkflowRemark(status, called, confirmed)
  PROVE  Shape /\ Aside
<1>1. PICK row \in Interacted(status),
           p \in IF called THEN Reconciled(plans, status, confirmed) ELSE {plans} :
        SyncRemark(Ensured(row), p, status)
  BY DEF WorkflowRemark
<1>2. PlanStep(plans, p)
  <2>1. CASE called
    BY <2>1, ReconciledStep
  <2>2. CASE ~called
    BY <2>2 DEF PlanStep
  <2>. QED BY <2>1, <2>2
<1>3. Base(Ensured(row))
  BY BaseRows DEF JourneyInv
<1>. QED BY <1>1, <1>2, <1>3, SyncShape, RestAside DEF WorkflowRemark, JourneyInv

LEMMA ExtraCallShape ==
  ASSUME JourneyInv, NEW status, ExtraCall(status)
  PROVE  Shape /\ Aside
<1>1. PICK row \in Interacted(status) : SyncRemark(Ensured(row), plans, status)
  BY DEF ExtraCall
<1>2. PlanStep(plans, plans) /\ Base(Ensured(row))
  BY BaseRows DEF JourneyInv, PlanStep
<1>. QED BY <1>1, <1>2, SyncShape, RestAside DEF ExtraCall, JourneyInv

LEMMA CompleteAttemptShape ==
  ASSUME JourneyInv, NEW outcome \in Outcomes, CompleteAttempt(outcome)
  PROVE  Shape /\ Aside
<1>. DEFINE status == IF outcome = "call_received" THEN "communication_completed" ELSE outcome
<1>1. PICK row \in Interacted(status), p \in Advanced(plans, outcome) : SyncRemark(Ensured(row), p, status)
  BY DEF CompleteAttempt
<1>2. PlanStep(plans, p) /\ Base(Ensured(row))
  BY BaseRows DEF JourneyInv, PlanStep
<1>. QED BY <1>1, <1>2, SyncShape, RestAside DEF CompleteAttempt, JourneyInv

\* A remark the lifecycle is not told of.  Only this one and a repeated
\* conversion may end a plan that an action is paused for.
LEMMA PlainRemarkShape ==
  ASSUME JourneyInv, NEW status \in Remarks, PlainRemark(status)
  PROVE  Shape /\ Aside
<1>1. PlanStep(plans, plans')
  <2>1. CASE plans' \in Reconciled(plans, status, FALSE)
    BY <2>1, ReconciledStep
  <2>2. CASE plans' \in {CancelledPlans(plans), plans}
    BY <2>2 DEF PlanStep
  <2>3. plans' \in Reconciled(plans, status, FALSE) \/ plans' \in {CancelledPlans(plans), plans}
    BY DEF PlainRemark
  <2>. QED BY <2>1, <2>2, <2>3
<1>2. state' \in StateRecord /\ state'.current = state.current /\ (state.exists => state' = state)
  BY BaseRows DEF PlainRemark, JourneyInv
<1>3. action' = action /\ screen' = screen /\ Untold
  BY DEF PlainRemark, Untold
<1>4. \A a \in Actions : IF IsActive(a) THEN GoesOn(action[a], action'[a]) ELSE action'[a] = action[a]
  BY <1>3, StaysGoesOn DEF JourneyInv
<1>5. screen' \in [Screens -> [fresh : BOOLEAN, row : StateRecord]] /\ PanelsCurrent'
  BY <1>2, <1>3 DEF JourneyInv, TypeOK, PanelsCurrent
<1>6. action' \in [Actions -> ActionRecord]
  BY <1>3 DEF JourneyInv, TypeOK
<1>7. Works
  BY <1>1, <1>2, <1>3, <1>4, <1>5, <1>6 DEF Works
<1>. QED BY <1>7, RestAside DEF PlainRemark, JourneyInv, Shape

LEMMA ConversionShape ==
  ASSUME JourneyInv, Conversion
  PROVE  Shape /\ Aside
<1>. DEFINE r == IF state.exists THEN state ELSE [state EXCEPT !.terminal = "converted"]
            p == CancelledPlans(plans)
<1>1. Base(Ensured(r))
  <2>1. CASE state.exists
    BY <2>1, BaseRows DEF JourneyInv
  <2>2. CASE ~state.exists
    <3>1. [state EXCEPT !.terminal = "converted"] \in StateRecord
      BY DEF JourneyInv, TypeOK, StateRecord, Terminals
    <3>. QED BY <2>2, <3>1 DEF Base, Ensured, StateRecord
  <2>. QED BY <2>1, <2>2
<1>2. PlanStep(plans, p)
  BY DEF PlanStep
<1>3. CASE CloseJourney(Ensured(r), p, "converted")
  <2>1. "converted" \in Terminals \ {"none"}
    BY DEF Terminals
  <2>. QED BY <1>1, <1>2, <1>3, <2>1, CloseShape DEF Base, Shape, Conversion, Aside, JourneyInv, TypeOK
<1>4. CASE converted /\ state' = Ensured(r) /\ plans' = p /\ UNCHANGED <<action, screen>>
  <2>1. Untold
    BY <1>4 DEF Untold
  <2>2. Works
    BY <1>1, <1>2, <1>4, <2>1, UntouchedShape
  <2>. QED BY <2>2 DEF Shape, Conversion, Aside, JourneyInv, TypeOK
<1>. QED BY <1>3, <1>4 DEF Conversion

LEMMA SaveLevelShape ==
  ASSUME JourneyInv, NEW level, SaveLevel(level)
  PROVE  Shape /\ Aside
<1>0. Aside
  BY RestAside DEF SaveLevel, JourneyInv
<1>1. PICK row : row = Ensured(state) /\ Base(row) /\ row \in StateRecord /\ row.exists /\ TypeOK
  BY BaseRows DEF JourneyInv, Base
<1>2. PlanStep(plans, plans) /\ "converted" \in Terminals \ {"none"} /\ "cold" \in Terminals \ {"none"}
  BY DEF PlanStep, Terminals
<1>3. row.stage \in Stages /\ LevelAction(level) \in ActionTypes /\ 0 \in 0..MaxFollowups
  BY <1>1, FollowupsAssumption DEF StateRecord, LevelAction, ActionTypes
<1>4. CASE CloseJourney(row, plans, "converted") \/ CloseJourney(row, plans, "cold")
  BY <1>0, <1>1, <1>2, <1>4, CloseShape DEF Shape
<1>5. CASE UNCHANGED plans /\ row.terminal # "none" /\ state' = row /\ UNCHANGED <<action, screen>>
  BY <1>0, <1>1, <1>5, UntouchedShape, NoPlanStep DEF Shape
<1>6. CASE UNCHANGED plans /\ row.terminal = "none" /\ MoveOn(row, row.stage, LevelAction(level), 0)
  BY <1>0, <1>1, <1>3, <1>6, MoveOnShape, NoPlanStep DEF Shape
<1>7. CASE UNCHANGED plans /\ state' = row /\ screen' = Raised /\ UNCHANGED action
  BY <1>0, <1>1, <1>7, UntouchedShape, NoPlanStep DEF Shape
<1>8. Shape
  BY <1>1, <1>4, <1>5, <1>6, <1>7 DEF SaveLevel
<1>. QED BY <1>0, <1>8

LEMMA PersonalMeetingShape ==
  ASSUME JourneyInv, NEW kind, PersonalMeeting(kind)
  PROVE  Shape /\ Aside
<1>0. Aside
  BY RestAside DEF PersonalMeeting, JourneyInv
<1>1. PICK row : row = Ensured(state) /\ Base(row) /\ row \in StateRecord /\ row.exists /\ TypeOK
  BY BaseRows DEF JourneyInv, Base
<1>. DEFINE row2 == [row EXCEPT !.stage = "offer"]
            attempt == IF kind = "followup" THEN 1 ELSE 0
<1>2. PlanStep(plans, plans) /\ "converted" \in Terminals \ {"none"} /\ "offer" \in Stages
  BY DEF PlanStep, Terminals, Stages
<1>3. row2 \in StateRecord /\ row2.exists
  BY <1>1, <1>2 DEF StateRecord
<1>4. MeetingAction(kind) \in ActionTypes /\ attempt \in 0..MaxFollowups
  BY FollowupsAssumption DEF MeetingAction, ActionTypes
<1>5. CASE UNCHANGED plans /\ row.terminal # "none" /\ state' = row /\ UNCHANGED <<action, screen>>
  BY <1>0, <1>1, <1>5, UntouchedShape, NoPlanStep DEF Shape
<1>6. CASE CloseJourney(row2, plans, "converted")
  BY <1>0, <1>2, <1>3, <1>6, CloseShape DEF Shape
<1>7. CASE UNCHANGED plans /\ row.terminal = "none" /\ MoveOn(row, "offer", MeetingAction(kind), attempt)
  BY <1>0, <1>1, <1>2, <1>4, <1>7, MoveOnShape, NoPlanStep DEF Shape
<1>8. Shape
  BY <1>1, <1>5, <1>6, <1>7 DEF PersonalMeeting
<1>. QED BY <1>0, <1>8

LEMMA ReadShape ==
  ASSUME JourneyInv, NEW s \in Screens, Read(s)
  PROVE  Shape /\ Aside
<1>1. Aside
  BY RestAside DEF Read, JourneyInv
<1>2. Base(Ensured(state)) /\ state' = Ensured(state) /\ action' = action
  BY BaseRows DEF JourneyInv, Read
<1>3. PlanStep(plans, plans') /\ plans' = plans
  BY NoPlanStep DEF Read
<1>4. \A a \in Actions : IF IsActive(a) THEN GoesOn(action[a], action'[a]) ELSE action'[a] = action[a]
  BY <1>2, StaysGoesOn DEF JourneyInv
<1>5. screen' \in [Screens -> [fresh : BOOLEAN, row : StateRecord]] /\ PanelsCurrent'
  <2>1. state' \in StateRecord /\ state'.exists /\ (state.exists => state' = state)
    BY <1>2 DEF Base
  <2>2. screen' = [screen EXCEPT ![s] = [fresh |-> TRUE, row |-> state']]
    BY DEF Read
  <2>3. screen' \in [Screens -> [fresh : BOOLEAN, row : StateRecord]]
    BY <2>1, <2>2 DEF JourneyInv, TypeOK
  <2>4. \A t \in Screens : screen'[t] = IF t = s THEN [fresh |-> TRUE, row |-> state'] ELSE screen[t]
    BY <2>2 DEF JourneyInv, TypeOK
  <2>5. ASSUME NEW t \in Screens, screen'[t].fresh PROVE screen'[t].row = state'
    BY <2>1, <2>4, <2>5 DEF JourneyInv, PanelsCurrent
  <2>. QED BY <2>1, <2>3, <2>5 DEF PanelsCurrent
<1>6. Works
  BY <1>2, <1>3, <1>4, <1>5 DEF Works, Base, JourneyInv, TypeOK
<1>. QED BY <1>1, <1>6 DEF Shape

LEMMA RecordEventShape ==
  ASSUME JourneyInv, NEW s, NEW event, RecordEvent(s, event)
  PROVE  Shape /\ Aside
<1>0. Aside /\ TypeOK /\ state \in StateRecord
  BY RestAside DEF RecordEvent, JourneyInv, TypeOK
<1>1. PICK row : row = Ensured(state)
  OBVIOUS
<1>1a. row \in StateRecord /\ row.exists /\ row.current = state.current /\ row.terminal = state.terminal
  BY <1>0, <1>1 DEF Ensured, StateRecord
<1>1b. row.terminal = "none" /\ UNCHANGED plans
  BY <1>1 DEF RecordEvent
<1>2. PICK selected \in Selected(row.stage) :
       LET next == EventDefault(event, selected)
           stage == IF next.type \in CommonTypes THEN "common_meeting" ELSE StageForEvent(event, row.stage)
       IN \/ next # NoNext /\ MoveOn(row, stage, next.type, next.attempt)
          \/ /\ next = NoNext
             /\ action' = IF event \in {"tte_attended", "personal_meeting_attended"}
                          THEN [a \in Actions |->
                                  IF a = row.current /\ action[a].status \in {"scheduled", "overdue"}
                                  THEN [action[a] EXCEPT !.status = "in_progress"] ELSE action[a]]
                          ELSE action
             /\ state' = [row EXCEPT !.stage = stage]
             /\ screen' = Raised
  BY <1>1 DEF RecordEvent
<1>. DEFINE next == EventDefault(event, selected)
            stage == IF next.type \in CommonTypes THEN "common_meeting" ELSE StageForEvent(event, row.stage)
<1>3. stage \in Stages
  <2>1. StageForEvent(event, row.stage) \in Stages
    BY <1>1a DEF StageForEvent, Stages, StateRecord
  <2>. QED BY <2>1 DEF Stages
<1>4. next # NoNext => next.type \in ActionTypes /\ next.attempt \in 0..MaxFollowups
  <2>1. CASE selected # NoNext
    <3>1. selected.type \in ActionTypes /\ selected.attempt \in 0..MaxFollowups
      BY <2>1, SelectedType
    <3>2. next = selected
      BY <2>1 DEF EventDefault
    <3>. QED BY <3>1, <3>2
  <2>2. CASE selected = NoNext
    BY <2>2, FollowupsAssumption DEF EventDefault, ActionTypes
  <2>. QED BY <2>1, <2>2
<1>. HIDE DEF stage, next
<1>5. CASE next # NoNext /\ MoveOn(row, stage, next.type, next.attempt)
  <2>1. PlanStep(plans, plans')
    BY <1>1b, NoPlanStep
  <2>2. PICK st, type, attempt : st = stage /\ type = next.type /\ attempt = next.attempt
    OBVIOUS
  <2>3. Planned
    BY <1>0, <1>1a, <1>1b, <1>3, <1>4, <1>5, <2>1, <2>2, MoveOnShape
  <2>. QED BY <1>0, <2>3 DEF Shape
<1>6. CASE /\ action' = IF event \in {"tte_attended", "personal_meeting_attended"}
                        THEN [a \in Actions |->
                                IF a = row.current /\ action[a].status \in {"scheduled", "overdue"}
                                THEN [action[a] EXCEPT !.status = "in_progress"] ELSE action[a]]
                        ELSE action
           /\ state' = [row EXCEPT !.stage = stage]
           /\ screen' = Raised
  <2>1. action' \in [Actions -> ActionRecord]
    BY <1>0, <1>6 DEF TypeOK, ActionRecord, ActiveStatus
  <2>2. ASSUME NEW a \in Actions
        PROVE  IF IsActive(a) THEN GoesOn(action[a], action'[a]) ELSE action'[a] = action[a]
    <3>1. Noticed(action[a]) /\ action[a] \in ActionRecord /\ plans' = plans
      BY <1>0, <1>1b DEF JourneyInv, TypeOK
    <3>2. CASE action'[a] = action[a]
      BY <3>1, <3>2, StaysGoesOn
    <3>3. CASE action'[a] = [action[a] EXCEPT !.status = "in_progress"] /\ action[a].status \in {"scheduled", "overdue"}
      BY <3>1, <3>3 DEF GoesOn, Noticed, IsActive, ActiveStatus, ActionRecord
    <3>. QED BY <1>0, <1>6, <3>2, <3>3 DEF TypeOK
  <2>3. state' \in StateRecord /\ state'.current = state.current /\ state'.exists /\ state'.terminal = state.terminal
    BY <1>1a, <1>3, <1>6 DEF StateRecord
  <2>4. screen' \in [Screens -> [fresh : BOOLEAN, row : StateRecord]] /\ PanelsCurrent'
    BY <1>0, <1>6, RaisedType DEF PanelsCurrent
  <2>5. PlanStep(plans, plans') /\ plans' = plans
    BY <1>1b, NoPlanStep
  <2>. QED BY <1>0, <2>1, <2>2, <2>3, <2>4, <2>5 DEF Works, Shape
<1>. QED BY <1>2, <1>5, <1>6 DEF next, stage

\* What the panel says of the next action survives the follow-up policy.
LEMMA PolicyType ==
  ASSUME NEW x \in ActionRecord, NEW given, given # NoNext =>
           given.type \in ActionTypes /\ given.attempt \in 0..MaxFollowups /\ given = [type |-> given.type, attempt |-> given.attempt],
         FollowupPolicy(x, given) # NoNext
  PROVE  FollowupPolicy(x, given).type \in ActionTypes /\ FollowupPolicy(x, given).attempt \in 0..MaxFollowups
<1>. DEFINE attempt == IF x.attempt = 0 THEN 1 ELSE x.attempt
<1>1. attempt \in 1..MaxFollowups
  BY FollowupsAssumption DEF ActionRecord
<1>2. "manager_escalation" \in ActionTypes /\ 0 \in 0..MaxFollowups
  BY FollowupsAssumption DEF ActionTypes
<1>. HIDE DEF attempt
<1>3. CASE x.type # "follow_up"
  BY <1>3 DEF FollowupPolicy
<1>4. CASE x.type = "follow_up" /\ attempt >= MaxFollowups
  <2>1. FollowupPolicy(x, given) = [type |-> "manager_escalation", attempt |-> 0]
    BY <1>1, <1>4, FollowupsAssumption DEF FollowupPolicy, attempt
  <2>. QED BY <1>2, <2>1
<1>5. CASE x.type = "follow_up" /\ attempt < MaxFollowups
  <2>1. CASE given.type = "follow_up" /\ given # NoNext
    <3>1. FollowupPolicy(x, given) = [given EXCEPT !.attempt = attempt + 1]
      BY <1>5, <2>1, <1>1, FollowupsAssumption DEF FollowupPolicy, attempt
    <3>2. attempt + 1 \in 0..MaxFollowups
      BY <1>1, <1>5, FollowupsAssumption
    <3>. QED BY <2>1, <3>1, <3>2
  <2>2. CASE given.type # "follow_up"
    <3>1. FollowupPolicy(x, given) = given
      BY <1>1, <1>5, <2>2, FollowupsAssumption DEF FollowupPolicy, attempt
    <3>. QED BY <3>1
  <2>3. NoNext.type # "follow_up"
    BY DEF NoNext
  <2>. QED BY <2>1, <2>2, <2>3
<1>. QED BY <1>1, <1>3, <1>4, <1>5, FollowupsAssumption

LEMMA CompleteActionShape ==
  ASSUME JourneyInv, NEW s, NEW a \in Actions, NEW event, NEW done \in BOOLEAN,
         CompleteAction(s, a, event, done)
  PROVE  Shape /\ Aside
<1>0. Aside /\ TypeOK /\ state \in StateRecord /\ action[a] \in ActionRecord
  BY RestAside DEF CompleteAction, JourneyInv, TypeOK
<1>1. IsActive(a) /\ state.exists /\ state.terminal = "none" /\ UNCHANGED plans /\ screen' = Raised
  <2>1. IsActive(a) /\ UNCHANGED plans /\ screen' = Raised
    BY DEF CompleteAction, IsActive
  <2>2. state.terminal = "none" /\ state.exists
    BY <2>1, Constants DEF JourneyInv, OneNextAction
  <2>. QED BY <2>1, <2>2
<1>1a. PICK row : row = Ensured(state) /\ row \in StateRecord /\ row.exists /\ row.terminal = "none"
  BY <1>0, <1>1 DEF Ensured, StateRecord
<1>. DEFINE stage == StageForEvent(event, row.stage)
            given(selected) ==
              IF action[a].type \in CommonTypes /\ selected = NoNext /\ event = "common_meeting_missed"
              THEN [type |-> "recontact", attempt |-> 0] ELSE selected
            next(selected) == FollowupPolicy(action[a], given(selected))
<1>2. PICK selected \in Selected(stage), b \in NextForUsers :
        /\ next(selected) # NoNext
        /\ action' = WithPrimary([action EXCEPT ![a] = Ended], b,
                                 NewAction(next(selected).type, next(selected).attempt))
        /\ state' = [row EXCEPT !.stage = stage, !.current = b]
  BY <1>1a DEF CompleteAction
<1>3. stage \in Stages
  BY <1>1a DEF StageForEvent, Stages, StateRecord
<1>4. PICK g, n : g = given(selected) /\ n = next(selected)
  OBVIOUS
<1>5. g # NoNext => g.type \in ActionTypes /\ g.attempt \in 0..MaxFollowups /\ g = [type |-> g.type, attempt |-> g.attempt]
  <2>1. CASE g = selected
    BY <2>1, SelectedType
  <2>2. CASE g = [type |-> "recontact", attempt |-> 0]
    BY <2>2, FollowupsAssumption DEF ActionTypes
  <2>. QED BY <1>4, <2>1, <2>2
<1>6. n.type \in ActionTypes /\ n.attempt \in 0..MaxFollowups
  <2>1. n = FollowupPolicy(action[a], g) /\ n # NoNext
    BY <1>2, <1>4
  <2>. QED BY <1>0, <1>5, <2>1, PolicyType
<1>7. b \in NextId /\ b \in Actions
  BY DEF NextForUsers, NextId
<1>8. PICK new : new = NewAction(n.type, n.attempt) /\ new \in ActionRecord /\ IsNew(new)
  BY <1>0, <1>6, NewActionType
<1>9. PICK acts : acts = [action EXCEPT ![a] = Ended]
  OBVIOUS
<1>10. action' = [c \in Actions |-> IF c = b THEN new ELSE IF IsActive(c) THEN Ended ELSE action[c]]
  <2>1. action' = WithPrimary(acts, b, new)
    BY <1>2, <1>4, <1>8, <1>9
  <2>. QED BY <1>0, <1>1, <1>7, <1>8, <1>9, <2>1, PrimaryType
<1>11. state' \in StateRecord /\ state'.exists /\ state'.terminal = "none" /\ state'.current = b
  BY <1>1a, <1>2, <1>3, <1>7 DEF StateRecord
<1>12. Planned
  BY <1>1, <1>7, <1>8, <1>10, <1>11, NoPlanStep DEF Planned
<1>. QED BY <1>0, <1>12 DEF Shape

LEMMA ClosePanelShape ==
  ASSUME JourneyInv, NEW s, NEW terminal \in Terminals \ {"none"}, Close(s, terminal)
  PROVE  Shape /\ Aside
<1>1. Aside
  BY RestAside DEF Close, JourneyInv
<1>2. PICK row : row = Ensured(state) /\ row \in StateRecord /\ row.exists
  BY BaseRows DEF JourneyInv, Base
<1>3. PlanStep(plans, plans) /\ CloseJourney(row, plans, terminal)
  BY <1>2 DEF PlanStep, Close
<1>4. Closes
  BY <1>2, <1>3, CloseShape
<1>. QED BY <1>1, <1>4 DEF Shape

LEMMA ReopenShape ==
  ASSUME JourneyInv, NEW s, Reopen(s)
  PROVE  Shape /\ Aside
<1>1. Aside /\ TypeOK /\ state \in StateRecord
  BY RestAside DEF Reopen, JourneyInv, TypeOK
<1>1a. PICK read : read = Ensured(state) /\ read \in StateRecord /\ read.exists
  BY BaseRows DEF JourneyInv, Base
<1>2. PICK next \in Selected(read.stage) \ {NoNext} :
        MoveOn([read EXCEPT !.terminal = "none"], read.stage, next.type, next.attempt)
  BY <1>1a DEF Reopen
<1>3. next.type \in ActionTypes /\ next.attempt \in 0..MaxFollowups
  BY SelectedType
<1>4. PICK row, stage : row = [read EXCEPT !.terminal = "none"] /\ stage = read.stage
  OBVIOUS
<1>5. row \in StateRecord /\ row.exists /\ row.terminal = "none" /\ stage \in Stages
  BY <1>1a, <1>4 DEF StateRecord, Terminals
<1>6. Planned
  BY <1>1, <1>2, <1>3, <1>4, <1>5, MoveOnShape, NoPlanStep DEF Reopen
<1>. QED BY <1>1, <1>6 DEF Shape

-----------------------------------------------------------------------------
\* A step that leaves row, plans and panels alone.
LEMMA ActionsOnly ==
  ASSUME JourneyInv, UNCHANGED <<state, plans, screen>>, action' \in [Actions -> ActionRecord],
         \A a \in Actions : IF IsActive(a) THEN GoesOn(action[a], action'[a]) ELSE action'[a] = action[a]
  PROVE  Works
BY NoPlanStep DEF JourneyInv, TypeOK, PanelsCurrent, Works

LEMMA NothingShape ==
  ASSUME JourneyInv, UNCHANGED <<state, plans, screen, action>>
  PROVE  Works
<1>1. \A a \in Actions : IF IsActive(a) THEN GoesOn(action[a], action'[a]) ELSE action'[a] = action[a]
  BY StaysGoesOn DEF JourneyInv
<1>. QED BY <1>1, ActionsOnly DEF JourneyInv, TypeOK

LEMMA AssignShape ==
  ASSUME JourneyInv, NEW u \in Users \cup {NoUser}, Assign(u)
  PROVE  Shape /\ Aside
BY NothingShape DEF Assign, Shape, Aside, JourneyInv, TypeOK

LEMMA RealignShape ==
  ASSUME JourneyInv, Realign
  PROVE  Shape /\ Aside
<1>1. Aside
  BY DEF Realign, Others, Aside, JourneyInv, TypeOK
<1>2. \A a \in Actions : Responsible(action[a].type, owner) \in Users \cup {NoUser} \cup Bosses
  BY ResponsibleType DEF JourneyInv, TypeOK
<1>3. \A a \in Actions : action'[a] =
        IF IsActive(a) THEN [action[a] EXCEPT !.owner = Responsible(action[a].type, owner)] ELSE action[a]
  BY DEF Realign
<1>4. action' \in [Actions -> ActionRecord]
  BY <1>2 DEF Realign, JourneyInv, TypeOK, ActionRecord
<1>5. ASSUME NEW a \in Actions, IsActive(a) PROVE GoesOn(action[a], action'[a])
  <2>1. action[a] \in ActionRecord /\ Noticed(action[a])
    BY DEF JourneyInv, TypeOK
  <2>2. PICK x, u : x = action[a] /\ action'[a] = [x EXCEPT !.owner = u]
    BY <1>3, <1>5
  <2>3. action'[a].status = x.status /\ action'[a].type = x.type /\ action'[a].notice = x.notice /\ action'[a].past = x.past
    BY <2>1, <2>2 DEF ActionRecord
  <2>. QED BY <1>5, <2>1, <2>2, <2>3 DEF GoesOn, Noticed, IsActive
<1>6. Works
  BY <1>3, <1>4, <1>5, ActionsOnly DEF Realign, Others
<1>. QED BY <1>1, <1>6 DEF Shape

LEMMA ListMissingShape ==
  ASSUME JourneyInv, ListMissing
  PROVE  Shape /\ Aside
BY NothingShape DEF ListMissing, Others, Shape, Aside, JourneyInv, TypeOK

LEMMA MaterializeShape ==
  ASSUME JourneyInv, Materialize
  PROVE  Shape /\ Aside
<1>1. Aside
  BY DEF Materialize, Others, Aside, JourneyInv, TypeOK
<1>2. PICK row : row = Ensured(state) /\ Base(row) /\ row \in StateRecord /\ row.exists /\ TypeOK
  BY BaseRows DEF JourneyInv, Base
<1>3. CASE UNCHANGED <<state, action, screen>>
  BY <1>1, <1>3, NothingShape DEF Materialize, Others, Shape
<1>4. CASE state' = row /\ UNCHANGED <<action, screen>>
  BY <1>1, <1>2, <1>4, UntouchedShape, NoPlanStep DEF Materialize, Others, Shape
<1>5. ASSUME row.terminal = "none", NEW a \in NextId,
             MoveTo(a, row, row.stage, IF row.stage = "new" THEN "first_contact" ELSE "lifecycle_review", 0)
      PROVE  Shape
  <2>1. PICK stage, type : stage = row.stage /\ type = IF row.stage = "new" THEN "first_contact" ELSE "lifecycle_review"
    OBVIOUS
  <2>2. stage \in Stages /\ type \in ActionTypes /\ 0 \in 0..MaxFollowups
    BY <1>2, <2>1, FollowupsAssumption DEF StateRecord, ActionTypes
  <2>3. PlanStep(plans, plans')
    BY NoPlanStep DEF Materialize, Others
  <2>. QED BY <1>2, <1>5, <2>1, <2>2, <2>3, MoveToShape DEF Shape
<1>. QED BY <1>1, <1>2, <1>3, <1>4, <1>5 DEF Materialize

LEMMA MarkOverdueShape ==
  ASSUME JourneyInv, MarkOverdue
  PROVE  Shape /\ Aside
<1>1. \A a \in Actions : action'[a] =
        IF Overdue(a) THEN [action[a] EXCEPT !.status = "overdue", !.notice = "started"] ELSE action[a]
  BY DEF MarkOverdue
<1>2. action' \in [Actions -> ActionRecord]
  <2>1. \A x \in ActionRecord : [x EXCEPT !.status = "overdue", !.notice = "started"] \in ActionRecord
    BY DEF ActionRecord, ActiveStatus
  <2>2. \A a \in Actions : action[a] \in ActionRecord
    BY DEF JourneyInv, TypeOK
  <2>3. action' = [a \in Actions |->
          IF Overdue(a) THEN [action[a] EXCEPT !.status = "overdue", !.notice = "started"] ELSE action[a]]
    BY DEF MarkOverdue
  <2>4. \A a \in Actions : action'[a] \in ActionRecord
    BY <1>1, <2>1, <2>2
  <2>. QED BY <2>3, <2>4
<1>3. ASSUME NEW a \in Actions
      PROVE  IF IsActive(a) THEN GoesOn(action[a], action'[a]) ELSE action'[a] = action[a]
  <2>1. action[a] \in ActionRecord /\ Noticed(action[a]) /\ plans' = plans
    BY DEF JourneyInv, TypeOK, MarkOverdue, Others
  <2>2. CASE Overdue(a)
    <3>1. action'[a] = [action[a] EXCEPT !.status = "overdue", !.notice = "started"]
      BY <1>1, <2>2
    <3>2. action'[a].status = "overdue" /\ action'[a].notice = "started" /\ action'[a].past /\ action'[a].type = action[a].type
      BY <2>1, <2>2, <3>1 DEF ActionRecord, Overdue
    <3>3. action[a].status = "scheduled" /\ action[a].notice = "none"
      BY <2>1, <2>2 DEF Overdue, Noticed
    <3>. QED BY <2>1, <3>2, <3>3 DEF GoesOn, Noticed, IsActive, ActiveStatus
  <2>3. CASE ~Overdue(a)
    BY <1>1, <2>1, <2>3, StaysGoesOn
  <2>. QED BY <2>2, <2>3
<1>4. Works
  BY <1>2, <1>3, ActionsOnly DEF MarkOverdue, Others
<1>5. \A a \in job'.told : action[a].status = "scheduled" /\ action'[a].notice = "started"
  <2>1. \A a \in job'.told : a \in Actions /\ Overdue(a)
    BY DEF MarkOverdue, JourneyInv, TypeOK
  <2>. QED BY <1>1, <2>1 DEF Overdue, JourneyInv, TypeOK, ActionRecord
<1>6. job' \in [pc : {"idle", "list", "create", "mark", "tell"}, listed : BOOLEAN, told : SUBSET Actions]
  BY DEF MarkOverdue, JourneyInv, TypeOK
<1>7. Aside
  BY <1>5, <1>6 DEF MarkOverdue, Others, Aside, JourneyInv, TypeOK
<1>. QED BY <1>4, <1>7 DEF Shape

LEMMA IdleType ==
  Idle \in [pc : {"idle", "list", "create", "mark", "tell"}, listed : BOOLEAN, told : SUBSET Actions] /\ Idle.told = {}
BY DEF Idle

LEMMA AnnounceShape ==
  ASSUME JourneyInv, Announce
  PROVE  Shape /\ Aside
<1>1. Aside
  BY IdleType DEF Announce, Others, Aside, JourneyInv, TypeOK
<1>2. action' \in [Actions -> ActionRecord]
  BY DEF Announce, JourneyInv, TypeOK, ActionRecord
<1>3. ASSUME NEW a \in Actions
      PROVE  IF IsActive(a) THEN GoesOn(action[a], action'[a]) ELSE action'[a] = action[a]
  <2>1. action[a] \in ActionRecord /\ Noticed(action[a]) /\ plans' = plans
    BY DEF JourneyInv, TypeOK, Announce, Others
  <2>2. CASE a \in job.told /\ IsActive(a)
    <3>1. action'[a] = [action[a] EXCEPT !.notice = "sent"]
      BY <2>2 DEF Announce
    <3>2. action[a].notice # "none"
      BY <2>2 DEF JourneyInv, ToldMarked, IsActive, ActiveStatus
    <3>. QED BY <2>1, <2>2, <3>1, <3>2 DEF GoesOn, Noticed, IsActive, ActionRecord
  <2>3. CASE ~(a \in job.told /\ IsActive(a))
    <3>1. action'[a] = action[a]
      BY <2>3 DEF Announce
    <3>. QED BY <2>1, <3>1, StaysGoesOn
  <2>. QED BY <2>2, <2>3
<1>4. Works
  BY <1>2, <1>3, ActionsOnly DEF Announce, Others
<1>. QED BY <1>1, <1>4 DEF Shape

LEMMA TickFailsShape ==
  ASSUME JourneyInv, TickFails
  PROVE  Shape /\ Aside
<1>1. faults' \in 0..MaxFaults
  BY FaultsAssumption DEF TickFails, JourneyInv, TypeOK
<1>. QED BY <1>1, NothingShape, IdleType DEF TickFails, Others, Shape, Aside, JourneyInv, TypeOK

LEMMA DeadlinePassesShape ==
  ASSUME JourneyInv, NEW b \in Actions, DeadlinePasses(b)
  PROVE  Shape /\ Aside
<1>1. Aside
  BY RestAside DEF DeadlinePasses, JourneyInv
<1>2. action' \in [Actions -> ActionRecord]
  BY DEF DeadlinePasses, JourneyInv, TypeOK, ActionRecord
<1>3. ASSUME NEW a \in Actions
      PROVE  IF IsActive(a) THEN GoesOn(action[a], action'[a]) ELSE action'[a] = action[a]
  <2>1. action[a] \in ActionRecord /\ Noticed(action[a])
    BY DEF JourneyInv, TypeOK
  <2>2. CASE a = b
    <3>1. action'[a] = [action[a] EXCEPT !.past = TRUE] /\ IsActive(a)
      BY <2>2 DEF DeadlinePasses, JourneyInv, TypeOK
    <3>. QED BY <2>1, <3>1 DEF GoesOn, Noticed, IsActive, ActionRecord
  <2>3. CASE a # b
    <3>1. action'[a] = action[a]
      BY <2>3 DEF DeadlinePasses, JourneyInv, TypeOK
    <3>. QED BY <2>1, <3>1, StaysGoesOn
  <2>. QED BY <2>2, <2>3
<1>4. Works
  BY <1>2, <1>3, ActionsOnly DEF DeadlinePasses
<1>. QED BY <1>1, <1>4 DEF Shape

LEMMA AttemptFallsDueShape ==
  ASSUME JourneyInv, NEW s \in Plans, AttemptFallsDue(s)
  PROVE  Shape /\ Aside
<1>1. Aside
  BY RestAside DEF AttemptFallsDue, JourneyInv
<1>2. PlanStep(plans, plans') /\ s \in ActivePlans(plans) /\ plans' = [plans EXCEPT ![s].due = TRUE]
  BY DEF AttemptFallsDue, PlanStep
<1>3. ActivePlans(plans') # {}
  <2>1. s \in Plans /\ plans[s] \in Plan /\ plans[s].status = "active" /\ plans \in [Plans -> Plan]
    BY <1>2 DEF JourneyInv, PlansSound, ActivePlans
  <2>2. plans'[s] = [plans[s] EXCEPT !.due = TRUE]
    BY <1>2, <2>1
  <2>3. plans'[s].status = "active"
    BY <2>1, <2>2 DEF Plan
  <2>. QED BY <2>1, <2>3 DEF ActivePlans
<1>4. \A a \in Actions : IF IsActive(a) THEN GoesOn(action[a], action'[a]) ELSE action'[a] = action[a]
  BY StaysGoesOn DEF AttemptFallsDue, JourneyInv
<1>5. Works
  BY <1>2, <1>3, <1>4 DEF AttemptFallsDue, Works, JourneyInv, TypeOK, PanelsCurrent
<1>. QED BY <1>1, <1>5 DEF Shape

-----------------------------------------------------------------------------
(* The invariant. *)

LEMMA NextShape ==
  ASSUME JourneyInv, Next
  PROVE  Shape /\ Aside
<1>1. CASE Counselor
  BY <1>1, WorkflowRemarkShape, ExtraCallShape, PlainRemarkShape, CompleteAttemptShape, ConversionShape,
     SaveLevelShape, PersonalMeetingShape DEF Counselor
<1>2. CASE Panel
  BY <1>2, ReadShape, RecordEventShape, CompleteActionShape, ClosePanelShape, ReopenShape DEF Panel
<1>3. CASE \E u \in Users \cup {NoUser} : Assign(u)
  BY <1>3, AssignShape
<1>4. CASE Tick
  BY <1>4, RealignShape, ListMissingShape, MaterializeShape, MarkOverdueShape, AnnounceShape DEF Tick
<1>5. CASE TickFails
  BY <1>5, TickFailsShape
<1>6. CASE Time
  BY <1>6, DeadlinePassesShape, AttemptFallsDueShape DEF Time
<1>. QED BY <1>1, <1>2, <1>3, <1>4, <1>5, <1>6 DEF Next

\* To sound plans closing a journey does what cancelling does.
LEMMA EndPlansCancel ==
  ASSUME NEW p, PlansSound(p)
  PROVE  EndPlans(p) = CancelledPlans(p)
<1>1. ASSUME NEW s \in Plans, p[s].status # "active" PROVE CancelFuture(p[s]) = p[s]
  <2>1. p[s] \in {UnusedPlan, EndedPlan}
    BY <1>1, ActiveWaits DEF PlansSound, Sound
  <2>. QED BY <2>1, CancelInactive
<1>. QED BY <1>1 DEF EndPlans, CancelledPlans

\* What closing leaves of the plans.
LEMMA ClosedPlans ==
  ASSUME JourneyInv, Closes
  PROVE  /\ PlansSound(plans') /\ ActivePlans(plans') = {}
         /\ \A s \in Plans : plans[s].status = "ended" => plans'[s] = plans[s]
<1>1. PICK p : PlanStep(plans, p) /\ plans' = EndPlans(p)
  BY DEF Closes
<1>2. PlansSound(p) /\ \A s \in Plans : plans[s].status = "ended" => p[s] = plans[s]
  BY <1>1, StepSound DEF JourneyInv
<1>3. plans' = CancelledPlans(p)
  BY <1>1, <1>2, EndPlansCancel
<1>4. /\ PlansSound(plans') /\ ActivePlans(plans') = {}
      /\ \A s \in Plans : plans'[s] = IF p[s].status = "active" THEN EndedPlan ELSE p[s]
  BY <1>2, <1>3, CancelledSound
<1>. QED BY <1>2, <1>4

\* The plans after any step.
LEMMA PlansAfter ==
  ASSUME JourneyInv, Shape
  PROVE  /\ PlansSound(plans')
         /\ \A s \in Plans : plans[s].status = "ended" => plans'[s] = plans[s]
<1>1. CASE Closes
  BY <1>1, ClosedPlans
<1>2. CASE PlanStep(plans, plans')
  BY <1>2, StepSound DEF JourneyInv
<1>. QED BY <1>1, <1>2 DEF Shape, Planned, Works

\* The actions after any step: what has ended stays, what has been told stays told.
LEMMA ActionsAfter ==
  ASSUME JourneyInv, Shape
  PROVE  /\ action' \in [Actions -> ActionRecord]
         /\ \A a \in Actions :
              /\ Noticed(action[a])'
              /\ action[a].status = "ended" => action'[a] = action[a]
              /\ action[a].notice # "none" => action'[a].notice # "none" \/ action'[a].status = "ended"
              /\ IsActive(a) /\ IsActive(a)' /\ action[a].notice = "sent" => action'[a].notice = "sent"
<1>0. /\ action \in [Actions -> ActionRecord]
      /\ \A a \in Actions : Noticed(action[a])
      /\ Ended \in ActionRecord /\ Ended.status = "ended" /\ Ended.notice = "none"
  BY Constants DEF JourneyInv, TypeOK
<1>1. CASE Planned
  <2>1. PICK b \in NextId, new \in ActionRecord :
          /\ IsNew(new)
          /\ action' = [a \in Actions |-> IF a = b THEN new ELSE IF IsActive(a) THEN Ended ELSE action[a]]
    BY <1>1 DEF Planned
  <2>2. b \in Actions /\ action[b].status = "unused"
    BY DEF NextId
  <2>3. action' \in [Actions -> ActionRecord]
    BY <1>0, <2>1
  <2>4. \A a \in Actions : action'[a] = IF a = b THEN new ELSE IF IsActive(a) THEN Ended ELSE action[a]
    BY <2>1
  <2>. QED BY <1>0, <2>1, <2>2, <2>3, <2>4 DEF Noticed, IsNew, IsActive, ActiveStatus
<1>2. CASE Closes
  <2>1. action' = [a \in Actions |-> IF IsActive(a) THEN Ended ELSE action[a]]
    BY <1>2 DEF Closes, CancelPrimary, IsActive
  <2>. QED BY <1>0, <2>1 DEF Noticed, IsActive, ActiveStatus
<1>3. CASE Works
  BY <1>0, <1>3 DEF Works, GoesOn, Noticed, IsActive, ActiveStatus
<1>. QED BY <1>1, <1>2, <1>3 DEF Shape

LEMMA JourneyStep ==
  ASSUME JourneyInv, Shape, Aside
  PROVE  JourneyInv'
<1>1. state' \in StateRecord /\ screen' \in [Screens -> [fresh : BOOLEAN, row : StateRecord]] /\ PanelsCurrent'
  <2>1. CASE screen' = Raised
    BY <2>1, RaisedType DEF JourneyInv, PanelsCurrent, Shape, Planned, Closes, Works
  <2>2. CASE Works
    BY <2>2 DEF Works
  <2>. QED BY <2>1, <2>2 DEF Shape, Planned, Closes
<1>2. TypeOK'
  BY <1>1, PlansAfter, ActionsAfter DEF TypeOK, Aside, PlansSound
<1>3. OneNextAction'
  <2>0. Ended.status \notin ActiveStatus /\ NoAction \notin Actions
    BY Constants DEF ActiveStatus
  <2>1. CASE Planned
    <3>1. PICK b \in NextId, new \in ActionRecord :
            /\ IsNew(new)
            /\ action' = [a \in Actions |-> IF a = b THEN new ELSE IF IsActive(a) THEN Ended ELSE action[a]]
            /\ state'.exists /\ state'.terminal = "none" /\ state'.current = b
      BY <2>1 DEF Planned
    <3>2. b \in Actions
      BY DEF NextId
    <3>. QED BY <2>0, <3>1, <3>2 DEF OneNextAction, IsActive, IsNew, ActiveStatus
  <2>2. CASE Closes
    BY <2>0, <2>2 DEF OneNextAction, Closes, CancelPrimary, IsActive
  <2>3. CASE Works
    <3>1. \A a \in Actions : IsActive(a)' <=> IsActive(a)
      BY <2>3 DEF Works, GoesOn, IsActive
    <3>2. state'.current = state.current /\ (state.exists => state'.exists /\ state'.terminal = state.terminal)
      BY <2>3 DEF Works
    <3>3. state.current \in Actions \cup {NoAction}
      BY DEF JourneyInv, TypeOK, StateRecord
    <3>. QED BY <3>1, <3>2, <3>3 DEF OneNextAction, JourneyInv
  <2>. QED BY <2>1, <2>2, <2>3 DEF Shape
<1>4. ToldMarked'
  <2>1. job'.told \subseteq Actions /\ job.told \subseteq Actions
    BY <1>2 DEF TypeOK, JourneyInv
  <2>2. CASE job'.told \subseteq job.told
    BY <2>1, <2>2, ActionsAfter DEF JourneyInv, ToldMarked
  <2>3. CASE \A a \in job'.told : action'[a].notice = "started"
    BY <2>3 DEF ToldMarked
  <2>. QED BY <2>2, <2>3 DEF Aside
<1>5. \A a \in Actions : Noticed(action[a])'
  BY ActionsAfter
<1>. QED BY <1>1, <1>2, <1>3, <1>4, <1>5, PlansAfter DEF JourneyInv

LEMMA JourneyInit == Init => JourneyInv
<1>. SUFFICES ASSUME Init PROVE JourneyInv
  OBVIOUS
<1>1. TypeOK
  <2>1. state \in StateRecord
    BY DEF Init, StateRecord, Stages, Terminals
  <2>2. action \in [Actions -> ActionRecord] /\ plans \in [Plans -> Plan]
    BY Constants, PlainPlans DEF Init
  <2>3. screen \in [Screens -> [fresh : BOOLEAN, row : StateRecord]]
    BY Constants DEF Init
  <2>4. job \in [pc : {"idle", "list", "create", "mark", "tell"}, listed : BOOLEAN, told : SUBSET Actions]
    BY IdleType DEF Init
  <2>5. owner \in Users \cup {NoUser} /\ converted \in BOOLEAN
    BY DEF Init
  <2>6. faults \in 0..MaxFaults
    BY FaultsAssumption DEF Init
  <2>. QED BY <2>1, <2>2, <2>3, <2>4, <2>5, <2>6 DEF TypeOK
<1>2. \A a \in Actions : action[a] = UnusedAction /\ ~IsActive(a)
  BY DEF Init, UnusedAction, IsActive, ActiveStatus
<1>3. OneNextAction
  BY <1>2 DEF Init, OneNextAction
<1>4. PlansSound(plans)
  BY PlainPlans DEF Init, PlansSound, Sound, ActivePlans, UnusedPlan
<1>5. PanelsCurrent
  BY Constants DEF Init, PanelsCurrent
<1>6. ToldMarked /\ \A a \in Actions : Noticed(action[a])
  BY <1>2 DEF Init, ToldMarked, Idle, Noticed, UnusedAction
<1>. QED BY <1>1, <1>3, <1>4, <1>5, <1>6 DEF JourneyInv

LEMMA JourneyStutter == JourneyInv /\ UNCHANGED vars => JourneyInv'
BY DEF vars, JourneyInv, TypeOK, OneNextAction, PanelsCurrent, Noticed, ToldMarked, IsActive

\* The rows of the lead agree with each other in every reachable state.
THEOREM JourneyInvariant == Spec => []JourneyInv
<1>1. JourneyInv /\ [Next]_vars => JourneyInv'
  BY NextShape, JourneyStep, JourneyStutter
<1>. QED BY <1>1, JourneyInit, PTL DEF Spec

\* The columns have their types.
THEOREM TypeCorrect == Spec => []TypeOK
<1>1. JourneyInv => TypeOK
  BY DEF JourneyInv
<1>. QED BY <1>1, JourneyInvariant, PTL

\* A lead has one next action at most, the state row points to it, and a
\* closed journey has none, whatever handlers, panels and the job do.
THEOREM OneNextActionHolds == Spec => []OneNextAction
<1>1. JourneyInv => OneNextAction
  BY DEF JourneyInv
<1>. QED BY <1>1, JourneyInvariant, PTL

\* One plan is active at most; it has gone through its attempts one by one
\* and waits for exactly the next; one that has ended waits for none.
THEOREM RetryPlanSoundHolds == Spec => []RetryPlanSound
<1>1. JourneyInv => RetryPlanSound
  BY PlansSoundIs DEF JourneyInv, RetryPlanSound, PlansSound
<1>. QED BY <1>1, JourneyInvariant, PTL

\* A panel whose version is accepted shows the row as it is.
THEOREM VersionProtectsHolds == Spec => []VersionProtects
<1>1. JourneyInv => VersionProtects
  BY DEF JourneyInv, VersionProtects, PanelsCurrent
<1>. QED BY <1>1, JourneyInvariant, PTL

-----------------------------------------------------------------------------
(* What no step does. *)

\* No step rewrites an action or a plan that has ended.
THEOREM HistoryKeptHolds == Spec => HistoryKept
<1>1. JourneyInv /\ [Next]_vars =>
        [/\ \A a \in Actions : action[a].status = "ended" => action'[a] = action[a]
         /\ \A s \in Plans : plans[s].status = "ended" => plans'[s] = plans[s]]_vars
  BY NextShape, ActionsAfter, PlansAfter
<1>. QED BY <1>1, JourneyInvariant, PTL DEF Spec, HistoryKept

\* The job announces an action once.
THEOREM PendingOnceHolds == Spec => PendingOnce
<1>1. ASSUME JourneyInv, Next, NEW a \in Actions
      PROVE  /\ a \in job'.told \ job.told => action[a].notice = "none"
             /\ IsActive(a) /\ IsActive(a)' /\ action[a].notice = "sent" => action'[a].notice = "sent"
  <2>1. Shape /\ Aside
    BY <1>1, NextShape
  <2>2. a \in job'.told \ job.told => action[a].status = "scheduled"
    BY <2>1 DEF Aside
  <2>3. Noticed(action[a])
    BY <1>1 DEF JourneyInv
  <2>. QED BY <1>1, <2>1, <2>2, <2>3, ActionsAfter DEF Noticed
<1>2. JourneyInv /\ [Next]_vars =>
        [\A a \in Actions :
           /\ a \in job'.told \ job.told => action[a].notice = "none"
           /\ IsActive(a) /\ IsActive(a)' /\ action[a].notice = "sent" => action'[a].notice = "sent"]_vars
  BY <1>1
<1>. QED BY <1>2, JourneyInvariant, PTL DEF Spec, PendingOnce

\* An action that is paused has a plan to wait for, unless the plan has been
\* ended by a handler that does not tell the lifecycle.
THEOREM HeldByRetryHolds == Spec => HeldByRetry
<1>1. ASSUME JourneyInv, Next, NEW a \in Actions, action'[a].status = "paused", ActivePlans(plans') = {}
      PROVE  action[a].status = "paused" /\ (ActivePlans(plans) = {} \/ Untold)
  <2>1. Shape
    BY <1>1, NextShape
  <2>2. ~Planned
    <3>. SUFFICES ASSUME Planned PROVE FALSE
      OBVIOUS
    <3>1. PICK b \in NextId, new \in ActionRecord :
            /\ IsNew(new)
            /\ action' = [c \in Actions |-> IF c = b THEN new ELSE IF IsActive(c) THEN Ended ELSE action[c]]
      BY DEF Planned
    <3>. QED BY <1>1, <3>1, Constants DEF IsNew, IsActive, ActiveStatus
  <2>3. ~Closes
    BY <1>1, Constants DEF Closes, CancelPrimary, ActiveStatus
  <2>4. Works
    BY <2>1, <2>2, <2>3 DEF Shape
  <2>5. ActivePlans(plans) = {} \/ Untold
    BY <1>1, <2>4 DEF Works
  <2>6. CASE ~IsActive(a)
    BY <1>1, <2>4, <2>5, <2>6 DEF Works
  <2>7. CASE IsActive(a)
    <3>1. GoesOn(action[a], action'[a])
      BY <2>4, <2>7 DEF Works
    <3>. QED BY <1>1, <2>5, <3>1 DEF GoesOn
  <2>. QED BY <2>6, <2>7
<1>2. JourneyInv /\ [Next]_vars =>
        [\A a \in Actions :
           action'[a].status = "paused" /\ ActivePlans(plans') = {} =>
             action[a].status = "paused" /\ (ActivePlans(plans) = {} \/ Untold)]_vars
  BY <1>1
<1>. QED BY <1>2, JourneyInvariant, PTL DEF Spec, HeldByRetry

-----------------------------------------------------------------------------
(* The lifecycle implements LeadJourney.                                   *)

Count == Cardinality({a \in Actions : action[a].status # "unused"})

\* Each new action is one step more.
LEMMA CountStep ==
  ASSUME JourneyInv, Shape
  PROVE  /\ Count \in Nat
         /\ Planned => Count' = Count + 1
         /\ Closes \/ Works => Count' = Count
<1>. DEFINE used == {a \in Actions : action[a].status # "unused"}
<1>1. IsFiniteSet(Actions)
  BY FS_Interval, ActionsAssumption DEF Actions
<1>2. IsFiniteSet(used) /\ Cardinality(used) \in Nat
  BY <1>1, FS_Subset, FS_CardinalityType
<1>3. ASSUME Planned PROVE Count' = Count + 1
  <2>1. PICK b \in NextId, new \in ActionRecord :
          /\ IsNew(new)
          /\ action' = [a \in Actions |-> IF a = b THEN new ELSE IF IsActive(a) THEN Ended ELSE action[a]]
    BY <1>3 DEF Planned
  <2>2. b \in Actions /\ b \notin used
    BY DEF NextId
  <2>3. used' = used \cup {b}
    BY <2>1, <2>2, Constants DEF IsNew, IsActive, ActiveStatus
  <2>. HIDE DEF used
  <2>4. Cardinality(used \cup {b}) = Cardinality(used) + 1
    BY <1>2, <2>2, FS_AddElement
  <2>. QED BY <2>3, <2>4 DEF Count, used
<1>4. ASSUME Closes PROVE Count' = Count
  <2>1. used' = used
    BY <1>4, Constants DEF Closes, CancelPrimary, IsActive, ActiveStatus
  <2>. QED BY <2>1 DEF Count
<1>5. ASSUME Works PROVE Count' = Count
  <2>1. used' = used
    BY <1>5 DEF Works, GoesOn, IsActive, ActiveStatus
  <2>. QED BY <2>1 DEF Count
<1>. QED BY <1>2, <1>3, <1>4, <1>5 DEF Count

\* The attempt that is waited for moves on by one, or the plan ends.
LEMMA TriesStep ==
  ASSUME JourneyInv, PlanStep(plans, plans')
  PROVE  Abstract!RetryMoves /\ (ActivePlans(plans') # {} => Tries' > 0)
<1>1. Tries = TriesOf(plans) /\ Tries' = TriesOf(plans')
  BY DEF Tries, TriesOf
<1>2. PlansSound(plans) /\ PlansSound(plans')
  BY StepSound DEF JourneyInv
<1>3. ActivePlans(plans') # {} => TriesOf(plans') > 0
  <2>1. (TriesOf(plans') = 0 <=> ActivePlans(plans') = {}) /\ TriesOf(plans') \in 0..MaxAttempts
    BY <1>2, TriesPositive
  <2>. QED BY <2>1, AttemptsAssumption
<1>4. \/ TriesOf(plans') = TriesOf(plans)
      \/ TriesOf(plans) = 0 /\ TriesOf(plans') = 2
      \/ TriesOf(plans) > 0 /\ TriesOf(plans) < MaxAttempts /\ TriesOf(plans') = TriesOf(plans) + 1
      \/ TriesOf(plans') = 0
  BY StepSound DEF JourneyInv
<1>. QED BY <1>1, <1>3, <1>4 DEF Abstract!RetryMoves

LEMMA PhaseIs ==
  /\ ~state.exists => Phase = "unknown"
  /\ state.exists /\ state.terminal # "none" => Phase = "closed"
  /\ state.exists /\ state.terminal = "none" /\ state.current = NoAction => Phase = "unplanned"
  /\ state.exists /\ state.terminal = "none" /\ state.current # NoAction =>
       /\ action[state.current].status = "scheduled" => Phase = "planned"
       /\ action[state.current].status = "overdue" => Phase = "late"
       /\ action[state.current].status = "in_progress" => Phase = "working"
       /\ action[state.current].status = "paused" => Phase = "held"
BY DEF Phase

\* A new action is the abstract step Plan.
LEMMA PlannedIs ==
  ASSUME JourneyInv, Planned
  PROVE  Abstract!Plan
<1>1. PICK b \in NextId, new \in ActionRecord :
        /\ IsNew(new)
        /\ action' = [a \in Actions |-> IF a = b THEN new ELSE IF IsActive(a) THEN Ended ELSE action[a]]
        /\ state'.exists /\ state'.terminal = "none" /\ state'.current = b
  BY DEF Planned
<1>2. b \in Actions /\ b # NoAction
  BY Constants DEF NextId
<1>3. action'[b].status = "scheduled"
  BY <1>1, <1>2 DEF IsNew
<1>4. Phase' = "planned"
  BY <1>1, <1>2, <1>3 DEF Phase
<1>5. Count' = Count + 1
  BY CountStep DEF Shape
<1>6. Abstract!RetryMoves
  BY TriesStep DEF Planned
<1>. QED BY <1>4, <1>5, <1>6 DEF Abstract!Plan, Count

\* Closing is the abstract step Close.
LEMMA ClosesIs ==
  ASSUME JourneyInv, Closes
  PROVE  Abstract!Close
<1>1. Phase' = "closed"
  BY DEF Closes, Phase
<1>2. Tries' = 0
  BY ClosedPlans DEF Tries
<1>3. Count' = Count
  BY CountStep DEF Shape
<1>. QED BY <1>1, <1>2, <1>3 DEF Abstract!Close, Count

\* Work on an action is one of the others, or none.
LEMMA WorksIs ==
  ASSUME JourneyInv, Works
  PROVE  Abstract!Next \/ UNCHANGED <<Phase, Count, Tries>>
<1>1. Count' = Count /\ Abstract!RetryMoves /\ (ActivePlans(plans') # {} => Tries' > 0)
  BY CountStep, TriesStep DEF Shape, Works
<1>2. state'.current = state.current /\ (state.exists => state'.exists /\ state'.terminal = state.terminal)
  BY DEF Works
<1>3. Phase' = Phase => Abstract!Next
  BY <1>1 DEF Abstract!Next, Abstract!Retry, Count
<1>4. CASE ~state.exists
  <2>1. state'.current = NoAction /\ Phase = "unknown"
    BY <1>2, <1>4 DEF JourneyInv, OneNextAction, Phase
  <2>2. Phase' \in {"unknown", "unplanned", "closed"}
    BY <2>1 DEF Phase
  <2>3. CASE Phase' = "unknown"
    BY <1>3, <2>1, <2>3
  <2>4. CASE Phase' \in {"unplanned", "closed"}
    BY <1>1, <2>1, <2>4 DEF Abstract!Next, Abstract!Look, Count
  <2>. QED BY <2>2, <2>3, <2>4
<1>5. CASE state.exists /\ (state.terminal # "none" \/ state.current = NoAction)
  <2>1. Phase' = Phase
    BY <1>2, <1>5 DEF Phase
  <2>. QED BY <1>3, <2>1
<1>6. CASE state.exists /\ state.terminal = "none" /\ state.current # NoAction
  <2>. DEFINE x == action[state.current] y == action'[state.current]
  <2>1. /\ state.current \in Actions /\ IsActive(state.current)
        /\ GoesOn(x, y) /\ x.status \in ActiveStatus /\ y.status \in ActiveStatus
    BY <1>6 DEF JourneyInv, OneNextAction, TypeOK, StateRecord, Works, GoesOn, IsActive
  <2>2. /\ x.status = "scheduled" => Phase = "planned"
        /\ x.status = "overdue" => Phase = "late"
        /\ x.status = "in_progress" => Phase = "working"
        /\ x.status = "paused" => Phase = "held"
    BY <1>6, PhaseIs
  <2>3. /\ y.status = "scheduled" => Phase' = "planned"
        /\ y.status = "overdue" => Phase' = "late"
        /\ y.status = "in_progress" => Phase' = "working"
        /\ y.status = "paused" => Phase' = "held"
    BY <1>2, <1>6 DEF Phase
  <2>4. CASE y.status = x.status
    BY <1>3, <2>1, <2>2, <2>3, <2>4 DEF ActiveStatus
  <2>5. CASE x.status = "scheduled" /\ y.status = "overdue" /\ plans' = plans
    BY <1>1, <2>2, <2>3, <2>5 DEF Abstract!Next, Abstract!GetLate, Count, Tries
  <2>6. CASE x.status \in {"scheduled", "overdue"} /\ y.status = "in_progress" /\ plans' = plans
    BY <1>1, <2>2, <2>3, <2>6 DEF Abstract!Next, Abstract!Work, Count, Tries
  <2>7. CASE y.status = "paused" /\ ActivePlans(plans') # {}
    BY <1>1, <2>1, <2>2, <2>3, <2>7 DEF ActiveStatus, Abstract!Next, Abstract!Hold, Abstract!Waiting, Count
  <2>8. CASE x.status = "paused" /\ y.status \in {"scheduled", "overdue"}
    BY <1>1, <2>2, <2>3, <2>8 DEF Abstract!Next, Abstract!Resume, Count
  <2>9. \/ y.status = x.status
        \/ x.status = "scheduled" /\ y.status = "overdue" /\ plans' = plans
        \/ x.status \in {"scheduled", "overdue"} /\ y.status = "in_progress" /\ plans' = plans
        \/ y.status = "paused" /\ ActivePlans(plans') # {}
        \/ x.status = "paused" /\ y.status \in {"scheduled", "overdue"}
    BY <2>1 DEF GoesOn
  <2>. QED BY <2>4, <2>5, <2>6, <2>7, <2>8, <2>9
<1>. QED BY <1>4, <1>5, <1>6

\* An open journey that has a next step keeps having one until it is closed;
\* it is held only for a retry plan, and plans go through their attempts one
\* by one: every handler, the panel and the job keep what LeadJourney says.
THEOREM JourneyImplements == Spec => Journey
<1>1. Init => Abstract!Init
  <2>. SUFFICES ASSUME Init PROVE Abstract!Init
    OBVIOUS
  <2>1. Phase = "unknown"
    BY DEF Init, Phase
  <2>2. {a \in Actions : action[a].status # "unused"} = {}
    BY DEF Init, UnusedAction
  <2>3. Cardinality({a \in Actions : action[a].status # "unused"}) = 0
    BY <2>2, FS_EmptySet
  <2>4. Tries = 0
    BY DEF Init, Tries, ActivePlans, UnusedPlan
  <2>. QED BY <2>1, <2>3, <2>4 DEF Abstract!Init
<1>2. JourneyInv /\ [Next]_vars => [Abstract!Next]_Abstract!vars
  <2>1. ASSUME JourneyInv, Next PROVE [Abstract!Next]_Abstract!vars
    <3>1. Shape
      BY <2>1, NextShape
    <3>2. CASE Planned
      BY <2>1, <3>2, PlannedIs DEF Abstract!Next
    <3>3. CASE Closes
      BY <2>1, <3>3, ClosesIs DEF Abstract!Next
    <3>4. CASE Works
      BY <2>1, <3>4, WorksIs DEF Abstract!vars, Count
    <3>. QED BY <3>1, <3>2, <3>3, <3>4 DEF Shape
  <2>2. ASSUME UNCHANGED vars PROVE UNCHANGED Abstract!vars
    BY <2>2 DEF vars, Abstract!vars, Phase, Tries
  <2>. QED BY <2>1, <2>2
<1>. QED BY <1>1, <1>2, JourneyInvariant, PTL DEF Spec, Journey, Abstract!Spec
=============================================================================
