----------------------- MODULE CounselorWorkflow_proofs -----------------------
(* Proofs about CounselorWorkflow for every value of its constants.         *)
EXTENDS CounselorWorkflow, TLAPS

-----------------------------------------------------------------------------
(* Types of what the helpers return. *)

\* A remark with a primary status leaves a well-formed row.
LEMMA JourneyType ==
  ASSUME NEW s \in StateRow, NEW p \in Statuses, NEW b \in BOOLEAN, now \in 0..MaxTime
  PROVE  Journey(s, p, b) \in StateRow
<1>1. JourneyDeadlines(p, now).old \in Clock /\ JourneyDeadlines(p, now).pending \in Clock
  BY PolicyAssumption DEF JourneyDeadlines, Clock, NoTime
<1>2. s.gen + 1 \in Nat
  BY DEF StateRow
<1>. QED BY <1>1, <1>2 DEF Journey, StateRow, Queues

\* So does an invalidation ...
LEMMA InvalidatedType ==
  ASSUME NEW s \in StateRow, NEW b \in BOOLEAN
  PROVE  Invalidated(s, b) \in StateRow
<1>1. s.gen + 1 \in Nat
  BY DEF StateRow
<1>. QED BY <1>1 DEF Invalidated, StateRow, Queues, Clock

\* ... and so any remark.
LEMMA AfterRemarkType ==
  ASSUME NEW s \in StateRow, NEW p \in Statuses \cup {NoStatus}, NEW b \in BOOLEAN,
         now \in 0..MaxTime
  PROVE  AfterRemark(s, p, b) \in StateRow
BY JourneyType, InvalidatedType DEF AfterRemark

\* Enrolment leaves a well-formed row.
LEMMA EnsureStateType ==
  ASSUME TypeOK, NEW l \in Leads, NEW ld \in LeadRow
  PROVE  EnsureState(l, ld) \in StateRow
<1>1. state[l] \in StateRow /\ state[l].gen + 1 \in Nat /\ history[l].id \in Nat
  BY DEF TypeOK, StateRow, HistoryRow
<1>2. NewDue(ld.at) \in Clock /\ ld.owner \in Counselors \cup {NoUser} /\ ld.asg \in Nat
  BY PolicyAssumption DEF LeadRow, Clock
<1>3. EnrolledNew(l, ld) \in StateRow
  BY <1>1, <1>2 DEF EnrolledNew, StateRow, Queues, Clock
<1>4. EnrolledAwaiting(l, ld) \in StateRow
  BY <1>1, <1>2 DEF EnrolledAwaiting, StateRow, Queues, Clock
<1>. QED BY <1>1, <1>3, <1>4 DEF EnsureState

\* A replacement of the deadlines leaves a well-formed row.
LEMMA ScheduledType ==
  ASSUME NEW s \in StateRow, NEW o \in Clock, NEW p \in Clock
  PROVE  [s EXCEPT !.gen = @ + 1, !.oldAt = o, !.pendAt = p] \in StateRow
<1>1. s.gen + 1 \in Nat
  BY DEF StateRow
<1>. QED BY <1>1 DEF StateRow

\* A deadline that fires leaves a well-formed row.
LEMMA AgedType ==
  ASSUME NEW s \in StateRow, NEW kind \in {"old", "pending"}
  PROVE  Aged(s, kind) \in StateRow
BY DEF Aged, StateRow, Queues, Clock

\* A row is reconciled or ages, never both.
LEMMA ReconcilesExcludesTransitions ==
  ASSUME NEW row PROVE ~(Reconciles(row) /\ Transitions(row))
BY DEF Transitions

-----------------------------------------------------------------------------
(* Type correctness. *)

\* What a remark, through whatever adapter it comes, does to lead and state.
LEMMA ApplyRemarkType ==
  ASSUME TypeOK, NEW l \in Leads, NEW ld \in LeadRow, NEW final \in LeadRow,
         NEW u, NEW p \in Statuses \cup {NoStatus}, NEW key, NEW hash,
         NEW followup \in Clock,
         ApplyRemark(l, ld, final, u, p, key, hash, followup)
  PROVE  /\ lead' \in [Leads -> LeadRow] /\ state' \in [Leads -> StateRow]
         /\ DOMAIN events' = Leads
<1>. USE DEF NoTime
<1>. DEFINE works == WorksDueFollowup(ld, p)
            cleared == IF works THEN [ld EXCEPT !.next = NoTime] ELSE ld
            suspended == cleared.next # NoTime \/ (~works /\ followup # NoTime)
            after == AfterRemark(EnsureState(l, cleared), p, suspended)
            left == IF works THEN [final EXCEPT !.next = NoTime] ELSE final
<1>1. cleared \in LeadRow /\ left \in LeadRow
  BY DEF LeadRow, Clock
<1>2. EnsureState(l, cleared) \in StateRow
  BY <1>1, EnsureStateType
<1>3. suspended \in BOOLEAN
  BY DEF WorksDueFollowup
<1>4. now \in 0..MaxTime
  BY DEF TypeOK
<1>5. after \in StateRow
  BY <1>2, <1>3, <1>4, AfterRemarkType
<1>6. /\ lead' = [lead EXCEPT ![l] = left]
      /\ state' = [state EXCEPT ![l] = after]
  BY DEF ApplyRemark
<1>7. DOMAIN events' = Leads
  BY DEF ApplyRemark, TypeOK
<1>. QED BY <1>1, <1>5, <1>6, <1>7 DEF TypeOK

\* The adapters keep the types of lead, row and events.
LEMMA ObserveRemarkType ==
  ASSUME TypeOK, NEW l \in Leads, NEW ld \in LeadRow, NEW final \in LeadRow,
         NEW u, NEW p \in Statuses \cup {NoStatus}, NEW key, NEW followup \in Clock,
         ObserveRemark(l, ld, final, u, p, key, followup)
  PROVE  /\ lead' \in [Leads -> LeadRow] /\ state' \in [Leads -> StateRow]
         /\ DOMAIN events' = Leads
<1>1. CASE Observed(l, ld, u) /\ key \notin KeysOf(l)
  BY <1>1, ApplyRemarkType DEF ObserveRemark
<1>2. CASE ~(Observed(l, ld, u) /\ key \notin KeysOf(l))
  <2>1. lead' = [lead EXCEPT ![l] = final] /\ state' = state /\ events' = events
    BY <1>2 DEF ObserveRemark, rowVars
  <2>. QED BY <2>1 DEF TypeOK
<1>. QED BY <1>1, <1>2

\* A lead that is closed stays well-formed.
LEMMA ClosedOffType ==
  ASSUME NEW ld \in LeadRow PROVE ClosedOff(ld) \in LeadRow
BY DEF ClosedOff, LeadRow, Clock

\* Every variable keeps its type.
THEOREM TypeCorrect == Spec => []TypeOK
<1>. USE DEF NoTime
<1>1. Init => TypeOK
  <2>. SUFFICES ASSUME Init PROVE TypeOK
    OBVIOUS
  <2>1. lead \in [Leads -> LeadRow]
    BY BoundAssumption DEF Init, LeadRow, Clock
  <2>2. NoHistory \in HistoryRow /\ NoRow \in StateRow
    BY DEF NoHistory, HistoryRow, NoRow, StateRow, Queues, Clock
  <2>3. history \in [Leads -> HistoryRow] /\ state \in [Leads -> StateRow]
    BY <2>2 DEF Init
  <2>4. remarks \in [Leads -> SUBSET Remark] /\ requests \in SUBSET Request
    BY DEF Init
  <2>5. worker \in [Workers -> [phase : {"idle", "enroll", "process"},
                               leads : SUBSET Leads, rows : SUBSET DueRow]]
    BY DEF Init, Idle
  <2>. QED BY <2>1, <2>3, <2>4, <2>5, BoundAssumption DEF Init, TypeOK
<1>2. TypeOK /\ [Next]_vars => TypeOK'
  <2>. SUFFICES ASSUME TypeOK, [Next]_vars PROVE TypeOK'
    OBVIOUS
  <2>. USE BoundAssumption
  <2>. DEFINE WorkerRow == [phase : {"idle", "enroll", "process"},
                            leads : SUBSET Leads, rows : SUBSET DueRow]
  <2>0. /\ now \in 0..MaxTime
        /\ \A l \in Leads : /\ lead[l] \in LeadRow /\ history[l] \in HistoryRow
                             /\ state[l] \in StateRow /\ remarks[l] \subseteq Remark
        /\ \A w \in Workers : worker[w] \in WorkerRow
    BY DEF TypeOK
  <2>1. CASE UNCHANGED vars
    BY <2>1 DEF TypeOK, vars, leadVars, rowVars, clientVars, workerVars
  <2>2. CASE Tick
    BY <2>2 DEF Tick, TypeOK, leadVars, rowVars, clientVars, workerVars
  <2>3. ASSUME NEW u \in Counselors, NEW l \in Leads, NEW k \in RequestKeys,
               NEW p \in Statuses, NEW f \in FollowupChoices \cup {Keep, NoTime},
               Submit(u, l, k, p, f)
        PROVE  TypeOK'
    <3>1. [user |-> u, lead |-> l, key |-> k, primary |-> p, followup |-> f,
           expected |-> state[l].gen] \in Request
      BY <2>0 DEF Request, Clock, StateRow
    <3>. QED BY <2>3, <3>1 DEF Submit, TypeOK, leadVars, rowVars, workerVars
  <2>4. ASSUME NEW q \in requests, RecordRemark(q) PROVE TypeOK'
    <3>0. q \in Request
      BY DEF TypeOK
    <3>1. CASE Refused(q)
      BY <3>1 DEF Refused, TypeOK, leadVars, rowVars, workerVars
    <3>2. CASE Saved(q)
      <4>. DEFINE l == q.lead
                  effective == IF q.followup = Keep THEN lead[l].next ELSE q.followup
                  ld == [lead[l] EXCEPT !.next = effective]
      <4>1. l \in Leads /\ q.primary \in Statuses /\ q.user \in Counselors
        BY <3>0 DEF Request
      <4>2. effective \in Clock
        BY <2>0, <3>0, <4>1 DEF Request, LeadRow
      <4>3. ld \in LeadRow
        BY <2>0, <4>1, <4>2 DEF LeadRow
      <4>4. lead' \in [Leads -> LeadRow] /\ state' \in [Leads -> StateRow] /\ DOMAIN events' = Leads
        BY <3>2, <4>1, <4>2, <4>3, ApplyRemarkType DEF Saved
      <4>5. remarkSeq' \in 0..MaxRemarks
        BY <3>2 DEF Saved, TypeOK
      <4>6. remarks' \in [Leads -> SUBSET Remark]
        <5>1. [id |-> remarkSeq + 1, by |-> q.user, asg |-> lead[l].asg] \in Remark
          BY <2>0, <4>1 DEF Remark, Actors, TypeOK, LeadRow
        <5>. QED BY <3>2, <4>1, <5>1 DEF Saved, TypeOK
      <4>. QED BY <3>2, <4>4, <4>5, <4>6 DEF Saved, TypeOK, workerVars
    <3>. QED BY <2>4, <3>1, <3>2 DEF RecordRemark
  <2>5. ASSUME NEW l \in Leads, NEW u \in Actors, NEW p \in Statuses \cup {NoStatus},
               NEW f \in FollowupChoices \cup {NoTime}, NEW closed \in BOOLEAN,
               NEW closing \in BOOLEAN, LegacyRemark(l, u, p, f, closed, closing)
        PROVE  TypeOK'
    <3>. DEFINE ld == [lead[l] EXCEPT !.closed = closed, !.next = IF f = NoTime THEN @ ELSE f]
                final == IF closing THEN ClosedOff(ld) ELSE ld
    <3>0. ld \in LeadRow /\ f \in Clock
      BY <2>0 DEF LeadRow, Clock
    <3>1. ld \in LeadRow /\ final \in LeadRow /\ f \in Clock
      BY <3>0, ClosedOffType
    <3>2. lead' \in [Leads -> LeadRow] /\ state' \in [Leads -> StateRow] /\ DOMAIN events' = Leads
      BY <2>5, <3>1, ObserveRemarkType DEF LegacyRemark
    <3>3. remarkSeq' \in 0..MaxRemarks
      BY <2>5 DEF LegacyRemark, TypeOK
    <3>4. remarks' \in [Leads -> SUBSET Remark]
      <4>1. [id |-> remarkSeq + 1, by |-> u, asg |-> lead[l].asg] \in Remark
        BY <2>0 DEF Remark, TypeOK, LeadRow
      <4>. QED BY <2>5, <4>1 DEF LegacyRemark, TypeOK
    <3>. QED BY <2>5, <3>2, <3>3, <3>4 DEF LegacyRemark, TypeOK, clientVars, workerVars
  <2>6. ASSUME NEW l \in Leads, NEW u \in Actors, NEW p \in Timed \cup {NoStatus},
               NEW f \in FollowupChoices \cup {NoTime}, NEW closed \in {lead[l].closed, FALSE},
               CallAttempt(l, u, p, f, closed)
        PROVE  TypeOK'
    <3>1. /\ lead[l] \in LeadRow /\ [lead[l] EXCEPT !.closed = closed] \in LeadRow
          /\ f \in Clock /\ p \in Statuses \cup {NoStatus}
      BY <2>0, StatusAssumption DEF LeadRow, Clock
    <3>2. lead' \in [Leads -> LeadRow] /\ state' \in [Leads -> StateRow] /\ DOMAIN events' = Leads
      BY <2>6, <3>1, ObserveRemarkType DEF CallAttempt
    <3>3. remarkSeq' \in 0..MaxRemarks
      BY <2>6 DEF CallAttempt, TypeOK
    <3>. QED BY <2>6, <3>2, <3>3 DEF CallAttempt, TypeOK, clientVars, workerVars
  <2>7. ASSUME NEW l \in Leads, NEW u \in Actors, Conversion(l, u) PROVE TypeOK'
    <3>1. PICK next \in {lead[l].next, NoTime} :
            LET ld == [lead[l] EXCEPT !.closed = TRUE, !.next = next] IN
            ObserveRemark(l, ld, ld, u, NoStatus, <<"conversion", 0, 0>>, NoTime)
      BY <2>7 DEF Conversion
    <3>2. [lead[l] EXCEPT !.closed = TRUE, !.next = next] \in LeadRow /\ NoTime \in Clock
      BY <2>0 DEF LeadRow, Clock
    <3>3. lead' \in [Leads -> LeadRow] /\ state' \in [Leads -> StateRow] /\ DOMAIN events' = Leads
      BY <3>1, <3>2, ObserveRemarkType
    <3>. QED BY <2>7, <3>3 DEF Conversion, TypeOK, clientVars, workerVars
  <2>8. ASSUME NEW l \in Leads, NEW u \in Actors, ImportNote(l, u) PROVE TypeOK'
    <3>1. [id |-> remarkSeq + 1, by |-> u, asg |-> lead[l].asg] \in Remark
      BY <2>0 DEF Remark, TypeOK, LeadRow
    <3>2. remarks' \in [Leads -> SUBSET Remark] /\ remarkSeq' \in 0..MaxRemarks
      BY <2>8, <3>1 DEF ImportNote, TypeOK
    <3>. QED BY <2>8, <3>2 DEF ImportNote, TypeOK, leadVars, rowVars, clientVars, workerVars
  <2>a. ASSUME NEW l \in Leads, NEW u \in Actors, NEW closing \in BOOLEAN,
               LegacyLevel(l, u, closing)
        PROVE  TypeOK'
    <3>. DEFINE final == IF closing THEN ClosedOff(lead[l]) ELSE lead[l]
    <3>1. lead[l] \in LeadRow /\ final \in LeadRow /\ NoTime \in Clock
      BY <2>0, ClosedOffType DEF Clock
    <3>2. lead' \in [Leads -> LeadRow] /\ state' \in [Leads -> StateRow] /\ DOMAIN events' = Leads
      BY <2>a, <3>1, ObserveRemarkType DEF LegacyLevel
    <3>3. remarkSeq' \in 0..MaxRemarks
      BY <2>a DEF LegacyLevel, TypeOK
    <3>. QED BY <2>a, <3>2, <3>3 DEF LegacyLevel, TypeOK, clientVars, workerVars
  <2>b. ASSUME NEW l \in Leads, NEW closed \in Stages, ChangeStage(l, closed) PROVE TypeOK'
    <3>1. [lead[l] EXCEPT !.closed = closed] \in LeadRow
      BY <2>0, BoundAssumption DEF LeadRow
    <3>2. lead' \in [Leads -> LeadRow]
      BY <2>b, <3>1 DEF ChangeStage, TypeOK
    <3>. QED BY <2>b, <3>2 DEF ChangeStage, TypeOK, rowVars, clientVars, workerVars
  <2>c. ASSUME NEW l \in Leads, NEW next \in Clock, NEW final \in LeadRow, NEW key,
               Invalidate(l, next, final, key)
        PROVE  TypeOK'
    <3>2. Invalidated(state[l], next # NoTime) \in StateRow
      BY <2>0, InvalidatedType
    <3>3. lead' \in [Leads -> LeadRow] /\ state' \in [Leads -> StateRow] /\ DOMAIN events' = Leads
      BY <2>c, <3>2 DEF Invalidate, TypeOK, rowVars
    <3>. QED BY <2>c, <3>3 DEF Invalidate, TypeOK, clientVars, workerVars
  <2>d. ASSUME NEW l \in Leads, NEW m \in Meetings, NEW closing \in BOOLEAN,
               SaveMeeting(l, m, closing)
        PROVE  TypeOK'
    <3>. DEFINE closedOff == ClosedOff(lead[l])
                final == [closedOff EXCEPT !.met = @ \cup {m}]
    <3>1. closedOff \in LeadRow /\ lead[l] \in LeadRow /\ lead[l].next \in Clock
      BY <2>0, ClosedOffType DEF LeadRow
    <3>. HIDE DEF closedOff
    <3>2. final \in LeadRow
      BY <3>1 DEF LeadRow
    <3>3. Invalidate(l, lead[l].next, IF closing THEN final ELSE lead[l], <<"meeting", m, 0>>)
      BY <2>d DEF SaveMeeting, closedOff
    <3>. HIDE DEF final
    <3>. QED BY <2>c, <3>1, <3>2, <3>3
  <2>9. ASSUME NEW l \in Leads, NEW closed \in BOOLEAN, NEW next \in Clock,
               InvalidateLegacy(l, closed, next)
        PROVE  TypeOK'
    <3>1. [lead[l] EXCEPT !.closed = closed, !.next = next] \in LeadRow
      BY <2>0 DEF LeadRow
    <3>. QED BY <2>9, <2>c, <3>1 DEF InvalidateLegacy
  <2>10. ASSUME NEW l \in Leads, NEW o \in ScheduleChoices \cup {NoTime},
                NEW p \in ScheduleChoices \cup {NoTime}, Schedule(l, o, p)
         PROVE  TypeOK'
    <3>1. [state[l] EXCEPT !.gen = @ + 1, !.oldAt = o, !.pendAt = p] \in StateRow
      <4>1. o \in Clock /\ p \in Clock
        BY DEF Clock
      <4>. QED BY <2>0, <4>1, ScheduledType
    <3>2. state' \in [Leads -> StateRow]
      BY <2>10, <3>1 DEF Schedule, TypeOK
    <3>. QED BY <2>10, <3>2 DEF Schedule, TypeOK, leadVars, clientVars, workerVars
  <2>11. ASSUME NEW l \in Leads, Handlers(l) PROVE TypeOK'
    <3>1. lead[l].closed \in BOOLEAN /\ lead[l].next \in Clock
      BY <2>0 DEF LeadRow
    <3>2. CASE CloseLifecycle(l) \/ ProgressLifecycle(l)
      BY <2>9, <3>1, <3>2 DEF CloseLifecycle, ProgressLifecycle, Clock
    <3>3. CASE \E f \in FollowupChoices : ReopenLifecycle(l, f)
      BY <2>9, <3>3 DEF ReopenLifecycle, Clock
    <3>4. CASE \E u \in Actors, p \in Statuses \cup {NoStatus},
                 f \in FollowupChoices \cup {NoTime}, closed, closing \in BOOLEAN :
                 LegacyRemark(l, u, p, f, closed, closing)
      BY <2>5, <3>4
    <3>5. CASE \E u \in Actors, p \in Timed \cup {NoStatus},
                 f \in FollowupChoices \cup {NoTime}, closed \in {lead[l].closed, FALSE} :
                 CallAttempt(l, u, p, f, closed)
      BY <2>6, <3>5
    <3>6. CASE \E u \in Actors : Conversion(l, u) \/ ImportNote(l, u)
      BY <2>7, <2>8, <3>6
    <3>7. CASE \E o, p \in ScheduleChoices \cup {NoTime} : Schedule(l, o, p)
      BY <2>10, <3>7
    <3>8. CASE \/ \E u \in Actors, closing \in BOOLEAN : LegacyLevel(l, u, closing)
               \/ \E m \in Meetings, closing \in BOOLEAN : SaveMeeting(l, m, closing)
               \/ \E closed \in Stages : ChangeStage(l, closed)
      BY <2>a, <2>b, <2>d, <3>8
    <3>. QED BY <2>11, <3>2, <3>3, <3>4, <3>5, <3>6, <3>7, <3>8 DEF Handlers
  <2>12. ASSUME NEW l \in Leads, Assignments(l) PROVE TypeOK'
    <3>0. /\ lead[l] \in LeadRow /\ serial \in 0..MaxAssignments
          /\ lead \in [Leads -> LeadRow] /\ history \in [Leads -> HistoryRow]
          /\ NoHistory \in HistoryRow
      BY DEF TypeOK, NoHistory, HistoryRow
    <3>1. ASSUME NEW u \in Counselors, Reassign(l, u) \/ AssignPooled(l, u) PROVE TypeOK'
      <4>1. serial' \in 0..MaxAssignments /\ serial + 1 \in Nat
        BY <3>0, <3>1 DEF Reassign, AssignPooled
      <4>2. [lead[l] EXCEPT !.owner = u, !.asg = serial + 1, !.at = now] \in LeadRow
        BY <2>0, <3>0, <4>1 DEF LeadRow
      <4>3. lead' = [lead EXCEPT ![l] = [lead[l] EXCEPT !.owner = u, !.asg = serial + 1, !.at = now]]
        BY <3>0, <3>1 DEF Reassign, AssignPooled
      <4>4. lead' \in [Leads -> LeadRow]
        BY <3>0, <4>2, <4>3
      <4>5. history' \in [Leads -> HistoryRow]
        BY <3>0, <3>1, <4>1 DEF Reassign, AssignPooled, HistoryRow
      <4>. QED BY <3>1, <4>1, <4>4, <4>5
              DEF Reassign, AssignPooled, TypeOK, rowVars, clientVars, workerVars
    <3>2. CASE InsertHistory(l)
      <4>1. serial' \in 0..MaxAssignments /\ serial + 1 \in Nat
        BY <3>0, <3>2 DEF InsertHistory
      <4>2. history' \in [Leads -> HistoryRow]
        BY <3>0, <3>2, <4>1 DEF InsertHistory, HistoryRow
      <4>. QED BY <3>2, <4>1, <4>2 DEF InsertHistory, TypeOK, rowVars, clientVars, workerVars
    <3>3. CASE Unassign(l)
      <4>1. [lead[l] EXCEPT !.owner = NoUser, !.asg = 0, !.at = 0] \in LeadRow
        <5>1. 0 \in 0..MaxTime /\ 0 \in Nat
          OBVIOUS
        <5>. QED BY <3>0, <5>1 DEF LeadRow
      <4>2. lead' = [lead EXCEPT ![l] = [lead[l] EXCEPT !.owner = NoUser, !.asg = 0, !.at = 0]]
        BY <3>0, <3>3 DEF Unassign
      <4>3. lead' \in [Leads -> LeadRow] /\ history' \in [Leads -> HistoryRow]
        BY <3>0, <3>3, <4>1, <4>2 DEF Unassign
      <4>. QED BY <3>3, <4>3 DEF Unassign, TypeOK, rowVars, clientVars, workerVars
    <3>. QED BY <2>12, <3>1, <3>2, <3>3 DEF Assignments
  <2>13. ASSUME NEW w \in Workers, StartTick(w) PROVE TypeOK'
    <3>1. PICK ls \in Batch({l \in Leads : Unenrolled(l)}, [l \in Leads |-> lead[l].asg]) :
            worker' = [worker EXCEPT ![w] = [phase |-> "enroll", leads |-> ls, rows |-> {}]]
      BY <2>13 DEF StartTick
    <3>2. ls \subseteq Leads
      BY DEF Batch
    <3>3. [phase |-> "enroll", leads |-> ls, rows |-> {}] \in WorkerRow
      BY <3>2
    <3>. QED BY <2>13, <3>1, <3>3 DEF StartTick, TypeOK, leadVars, rowVars, clientVars
  <2>14. ASSUME NEW w \in Workers, NEW l \in worker[w].leads, EnrollLead(w, l) PROVE TypeOK'
    <3>1. l \in Leads /\ [worker[w] EXCEPT !.leads = @ \ {l}] \in WorkerRow
      BY <2>0
    <3>2. EnsureState(l, lead[l]) \in StateRow
      BY <2>0, <3>1, EnsureStateType
    <3>3. state' \in [Leads -> StateRow] /\ DOMAIN events' = Leads
      BY <2>14, <3>1, <3>2 DEF EnrollLead, TypeOK, rowVars
    <3>4. worker' \in [Workers -> WorkerRow]
      BY <2>14, <3>1 DEF EnrollLead, TypeOK
    <3>. QED BY <2>14, <3>3, <3>4 DEF EnrollLead, TypeOK, leadVars, clientVars
  <2>15. ASSUME NEW w \in Workers, ReadDueRows(w) PROVE TypeOK'
    <3>1. PICK ls \in Batch({l \in Leads : Selected(l)}, [l \in Leads |-> DueAt(state[l])]) :
            worker' = [worker EXCEPT ![w] =
              [phase |-> "process", leads |-> {}, rows |-> {RowOf(l) : l \in ls}]]
      BY <2>15 DEF ReadDueRows
    <3>2. ASSUME NEW l \in ls PROVE RowOf(l) \in DueRow
      <4>1. l \in Leads /\ Selected(l)
        BY DEF Batch
      <4>2. DueAt(state[l]) \in Nat
        BY <2>0, <4>1 DEF Selected, DueAt, StateRow, Clock
      <4>. QED BY <2>0, <4>1, <4>2 DEF RowOf, DueRow, StateRow
    <3>3. {RowOf(l) : l \in ls} \subseteq DueRow
      BY <3>2
    <3>4. [phase |-> "process", leads |-> {}, rows |-> {RowOf(l) : l \in ls}] \in WorkerRow
      BY <3>3
    <3>. QED BY <2>15, <3>1, <3>4 DEF ReadDueRows, TypeOK, leadVars, rowVars, clientVars
  <2>16. ASSUME NEW w \in Workers, NEW row \in worker[w].rows, ProcessRow(w, row) PROVE TypeOK'
    <3>. DEFINE l == row.lead
    <3>1. /\ row \in DueRow /\ l \in Leads
          /\ [worker[w] EXCEPT !.rows = @ \ {row}] \in WorkerRow
      BY <2>0 DEF DueRow
    <3>2. worker' \in [Workers -> WorkerRow]
      BY <2>16, <3>1 DEF ProcessRow, Dropped, TypeOK
    <3>3. lead' \in [Leads -> LeadRow] /\ state' \in [Leads -> StateRow] /\ DOMAIN events' = Leads
      <4>1. CASE Reconciles(row)
        <5>1. ObserveRemark(l, lead[l], lead[l], lead[l].owner, NoStatus,
                            <<"remark", NewestRemark(l).id, 0>>, NoTime)
          BY <2>16, <4>1, ReconcilesExcludesTransitions DEF ProcessRow
        <5>2. lead[l] \in LeadRow /\ NoTime \in Clock
          BY <2>0, <3>1 DEF Clock
        <5>. QED BY <3>1, <5>1, <5>2, ObserveRemarkType
      <4>2. CASE Transitions(row)
        <5>1. lead' = lead /\ state' = [state EXCEPT ![l] = Aged(state[l], row.kind)]
          BY <2>16, <4>2, ReconcilesExcludesTransitions DEF ProcessRow
        <5>2. Aged(state[l], row.kind) \in StateRow
          BY <2>0, <3>1, AgedType DEF DueRow
        <5>3. DOMAIN events' = Leads
          BY <2>16, <4>2, ReconcilesExcludesTransitions DEF ProcessRow, TypeOK
        <5>. QED BY <3>1, <5>1, <5>2, <5>3 DEF TypeOK
      <4>3. CASE ~Reconciles(row) /\ ~Transitions(row)
        BY <2>16, <4>3 DEF ProcessRow, TypeOK, rowVars
      <4>. QED BY <4>1, <4>2, <4>3
    <3>. QED BY <2>16, <3>2, <3>3 DEF ProcessRow, TypeOK, clientVars
  <2>17. ASSUME NEW w \in Workers, FinishTick(w) \/ Faults(w) PROVE TypeOK'
    <3>1. Idle \in WorkerRow
      BY DEF Idle
    <3>2. CASE FinishTick(w)
      BY <2>17, <3>1, <3>2 DEF FinishTick, TypeOK, leadVars, rowVars, clientVars
    <3>3. CASE RowFails(w)
      <4>1. ASSUME NEW l \in worker[w].leads
            PROVE  [worker EXCEPT ![w].leads = @ \ {l}] \in [Workers -> WorkerRow]
        <5>1. [worker[w] EXCEPT !.leads = @ \ {l}] \in WorkerRow
          BY <2>0
        <5>. QED BY <5>1 DEF TypeOK
      <4>2. ASSUME NEW row \in worker[w].rows
            PROVE  [worker EXCEPT ![w].rows = @ \ {row}] \in [Workers -> WorkerRow]
        <5>1. [worker[w] EXCEPT !.rows = @ \ {row}] \in WorkerRow
          BY <2>0
        <5>. QED BY <5>1 DEF TypeOK
      <4>3. worker' \in [Workers -> WorkerRow]
        BY <3>3, <4>1, <4>2, Zenon DEF RowFails
      <4>4. faults' \in 0..MaxFaults
        BY <3>3 DEF RowFails, Fault, TypeOK
      <4>. QED BY <3>3, <4>3, <4>4 DEF RowFails, TypeOK, leadVars, rowVars, clientVars
    <3>4. CASE Crash(w)
      BY <3>1, <3>4 DEF Crash, Fault, TypeOK, leadVars, rowVars, clientVars
    <3>5. CASE LoseLock(w)
      BY <3>5 DEF LoseLock, Fault, TypeOK, leadVars, rowVars, clientVars
    <3>. QED BY <2>17, <3>2, <3>3, <3>4, <3>5 DEF Faults
  <2>. QED
    BY <2>1, <2>2, <2>3, <2>4, <2>11, <2>12, <2>13, <2>14, <2>15, <2>16, <2>17
    DEF Next, Clients, WorkerStep
<1>. QED BY <1>1, <1>2, PTL DEF Spec

-----------------------------------------------------------------------------
(* The ways a step may change the row of a lead.  Every property of the row   *)
(* is proved from this case distinction.                                    *)

Touches(l, row, new) ==
  /\ state' = [state EXCEPT ![l] = row]
  /\ events' = [events EXCEPT ![l] = @ \cup new]

\* ld is the lead with its current assignment.
Assigned(l, ld) ==
  ld \in LeadRow /\ ld.owner # NoUser /\ ld.owner = lead[l].owner /\ ld.asg = lead[l].asg

Enrolled(l) ==
  \E ld : Assigned(l, ld) /\ Touches(l, EnsureState(l, ld), EnsureEvents(l, ld))

\* The key of a remark's event is not yet taken.  One that names a lead_remarks
\* row names the newest, or one written in the same step.
WorkKinds == {"request", "remark", "attempt", "conversion", "level"}
NamesNewest(l, key) ==
  /\ CounselorRemarks(l, lead[l]) # {} /\ remarks' = remarks
  /\ key[2] = NewestRemark(l).id
NamesWritten(l, key) == \E r \in remarks'[l] : r.id = key[2] /\ r.asg = lead[l].asg
FreshKey(l, key) ==
  /\ key \notin KeysOf(l) /\ key[1] \in WorkKinds
  /\ key[1] = "remark" => NamesNewest(l, key) \/ NamesWritten(l, key)

Worked(l) ==
  \E ld, u, key, hash : \E p \in Statuses \cup {NoStatus}, b \in BOOLEAN :
    LET after == AfterRemark(EnsureState(l, ld), p, b) IN
    /\ Assigned(l, ld) /\ FreshKey(l, key)
    /\ Touches(l, after, EnsureEvents(l, ld) \cup {RemarkEvent(l, ld, u, p, key, hash, after)})

LegacyChanged(l) ==
  \E key : \E b \in BOOLEAN :
    LET after == Invalidated(state[l], b) IN
    /\ state[l].gen > 0 /\ key \notin KeysOf(l) /\ key[1] \in {"legacy", "meeting"}
    /\ Touches(l, after, {Event(after, "legacy_changed", key, "none", <<>>)})

Scheduled(l) ==
  \E key : \E o, p \in Clock :
    LET after == [state[l] EXCEPT !.gen = @ + 1, !.oldAt = o, !.pendAt = p] IN
    /\ state[l].gen > 0 /\ ~state[l].awaiting /\ state[l].primary \notin Terminal
    /\ o # NoTime => state[l].active /\ state[l].primary # NoStatus /\ state[l].queue # "old"
    /\ state[l].queue # "pending"
    /\ o # NoTime /\ p # NoTime => o <= p
    /\ key = <<"schedule", after.gen, 0>>
    /\ Touches(l, after, {Event(after, "scheduled", key, "none", <<>>)})

AgedBy(l) ==
  \E row \in DueRow :
    LET after == Aged(state[l], row.kind) IN
    /\ row.lead = l /\ Transitions(row)
    /\ Touches(l, after, {Event(after, "entered", DeadlineKey(row), "none", <<>>)})

RowStep(l) == Enrolled(l) \/ Worked(l) \/ LegacyChanged(l) \/ Scheduled(l) \/ AgedBy(l)
RowChange == UNCHANGED rowVars \/ \E l \in Leads : RowStep(l)

\* Touching one row changes this row and its events, and no other.
LEMMA Touched ==
  ASSUME TypeOK, NEW l \in Leads, NEW row, NEW new, Touches(l, row, new)
  PROVE  /\ state'[l] = row /\ events'[l] = events[l] \cup new
         /\ \A m \in Leads \ {l} : state'[m] = state[m] /\ events'[m] = events[m]
BY DEF Touches, TypeOK

\* A remark works on the row ...
LEMMA ApplyRemarkRow ==
  ASSUME TypeOK, NEW l \in Leads, NEW ld, Assigned(l, ld), NEW final,
         NEW u, NEW p \in Statuses \cup {NoStatus}, NEW key, FreshKey(l, key), NEW hash,
         NEW followup \in Clock,
         ApplyRemark(l, ld, final, u, p, key, hash, followup)
  PROVE  Worked(l)
<1>. DEFINE works == WorksDueFollowup(ld, p)
            cleared == IF works THEN [ld EXCEPT !.next = NoTime] ELSE ld
            suspended == cleared.next # NoTime \/ (~works /\ followup # NoTime)
            after == AfterRemark(EnsureState(l, cleared), p, suspended)
<1>1. Assigned(l, cleared)
  BY DEF Assigned, LeadRow, Clock
<1>2. suspended \in BOOLEAN
  BY DEF WorksDueFollowup
<1>3. Touches(l, after, EnsureEvents(l, cleared)
                          \cup {RemarkEvent(l, cleared, u, p, key, hash, after)})
  <2>1. /\ state' = [state EXCEPT ![l] = after]
        /\ events' = [events EXCEPT ![l] = @ \cup EnsureEvents(l, cleared)
                         \cup {RemarkEvent(l, cleared, u, p, key, hash, after)}]
    BY DEF ApplyRemark
  <2>2. events[l] \cup EnsureEvents(l, cleared) \cup {RemarkEvent(l, cleared, u, p, key, hash, after)}
        = events[l] \cup (EnsureEvents(l, cleared)
                          \cup {RemarkEvent(l, cleared, u, p, key, hash, after)})
    OBVIOUS
  <2>. HIDE DEF after, cleared
  <2>. QED BY <2>1, <2>2 DEF Touches
<1>. QED BY <1>1, <1>2, <1>3 DEF Worked

\* ... and an adapter works on it or leaves it alone.
LEMMA ObserveRemarkRow ==
  ASSUME TypeOK, NEW l \in Leads, NEW ld \in LeadRow,
         ld.owner = lead[l].owner, ld.asg = lead[l].asg, NEW final,
         NEW u, NEW p \in Statuses \cup {NoStatus}, NEW key, NEW followup \in Clock,
         key \notin KeysOf(l) => FreshKey(l, key),
         ObserveRemark(l, ld, final, u, p, key, followup)
  PROVE  UNCHANGED rowVars \/ Worked(l)
<1>1. CASE Observed(l, ld, u) /\ key \notin KeysOf(l)
  <2>1. Assigned(l, ld)
    BY <1>1 DEF Observed, Assigned
  <2>. QED BY <1>1, <2>1, ApplyRemarkRow DEF ObserveRemark
<1>2. CASE ~(Observed(l, ld, u) /\ key \notin KeysOf(l))
  BY <1>2 DEF ObserveRemark
<1>. QED BY <1>1, <1>2

\* Every step of the system changes at most one row, in one of these ways.
LEMMA RowSteps ==
  ASSUME TypeOK, [Next]_vars
  PROVE  RowChange
<1>. USE DEF NoTime, RowChange, RowStep
<1>0. /\ \A l \in Leads : lead[l] \in LeadRow /\ state[l] \in StateRow
      /\ \A w \in Workers : worker[w].leads \subseteq Leads /\ worker[w].rows \subseteq DueRow
  BY DEF TypeOK
<1>1. CASE UNCHANGED vars \/ Tick \/ \E w \in Workers : Faults(w)
  BY <1>1 DEF vars, Tick, Faults, RowFails, Crash, LoseLock, rowVars
<1>3. CASE Clients
  <2>1. CASE \E q \in requests : Saved(q)
    <3>1. PICK q \in requests : Saved(q)
      BY <2>1
    <3>. DEFINE effective == IF q.followup = Keep THEN lead[q.lead].next ELSE q.followup
                ld == [lead[q.lead] EXCEPT !.next = effective]
    <3>2. q \in Request /\ q.lead \in Leads /\ q.primary \in Statuses /\ q.user \in Counselors
      BY DEF TypeOK, Request
    <3>3. effective \in Clock
      BY <1>0, <3>2 DEF Request, LeadRow
    <3>4. ld \in LeadRow /\ ld.owner = lead[q.lead].owner /\ ld.asg = lead[q.lead].asg
      BY <1>0, <3>2, <3>3 DEF LeadRow
    <3>5. ld.owner # NoUser
      BY <3>1, <3>2, <3>4, UserAssumption DEF Saved
    <3>6. FreshKey(q.lead, RequestKey(q))
      BY <3>1 DEF Saved, Prior, KeysOf, FreshKey, RequestKey, WorkKinds
    <3>7. Worked(q.lead)
      BY <3>1, <3>2, <3>3, <3>4, <3>5, <3>6, ApplyRemarkRow DEF Saved, Assigned
    <3>. QED BY <3>2, <3>7
  <2>2. CASE ~ \E q \in requests : Saved(q)
    BY <1>3, <2>2 DEF Clients, Submit, RecordRemark, Refused, rowVars
  <2>. QED BY <2>1, <2>2
<1>4. ASSUME NEW l \in Leads, Handlers(l) PROVE RowChange
  <2>1. ASSUME NEW u \in Actors, NEW p \in Statuses \cup {NoStatus},
               NEW f \in FollowupChoices \cup {NoTime}, NEW closed \in BOOLEAN,
               NEW closing \in BOOLEAN, LegacyRemark(l, u, p, f, closed, closing)
        PROVE  RowChange
    <3>. DEFINE ld == [lead[l] EXCEPT !.closed = closed, !.next = IF f = NoTime THEN @ ELSE f]
    <3>1. ld \in LeadRow /\ f \in Clock /\ ld.owner = lead[l].owner /\ ld.asg = lead[l].asg
      BY <1>0, BoundAssumption DEF LeadRow, Clock
    <3>. DEFINE key == <<"remark", remarkSeq + 1, 0>>
    <3>2. [id |-> remarkSeq + 1, by |-> u, asg |-> lead[l].asg] \in remarks'[l]
      BY <2>1 DEF LegacyRemark, TypeOK
    <3>3. key[1] = "remark" /\ key[2] = remarkSeq + 1
      OBVIOUS
    <3>. HIDE DEF key
    <3>4. NamesWritten(l, key)
      BY <3>2, <3>3 DEF NamesWritten
    <3>5. key \notin KeysOf(l) => FreshKey(l, key)
      BY <3>3, <3>4 DEF FreshKey, WorkKinds
    <3>6. \E final : ObserveRemark(l, ld, final, u, p, key, f)
      BY <2>1 DEF LegacyRemark, key
    <3>. HIDE DEF ld
    <3>. QED BY <3>1, <3>5, <3>6, ObserveRemarkRow
  <2>2. ASSUME NEW u \in Actors, NEW p \in Timed \cup {NoStatus},
               NEW f \in FollowupChoices \cup {NoTime}, NEW closed,
               CallAttempt(l, u, p, f, closed)
        PROVE  RowChange
    <3>1. f \in Clock /\ p \in Statuses \cup {NoStatus}
      BY BoundAssumption, StatusAssumption DEF Clock
    <3>2. LET key == <<"attempt", remarkSeq + 1, 0>> IN key \notin KeysOf(l) => FreshKey(l, key)
      BY DEF FreshKey, WorkKinds
    <3>. QED BY <1>0, <2>2, <3>1, <3>2, ObserveRemarkRow DEF CallAttempt
  <2>3. ASSUME NEW u \in Actors, Conversion(l, u) PROVE RowChange
    <3>1. PICK next \in {lead[l].next, NoTime} :
            LET ld == [lead[l] EXCEPT !.closed = TRUE, !.next = next] IN
            ObserveRemark(l, ld, ld, u, NoStatus, <<"conversion", 0, 0>>, NoTime)
      BY <2>3 DEF Conversion
    <3>. DEFINE ld == [lead[l] EXCEPT !.closed = TRUE, !.next = next]
    <3>2. ld \in LeadRow /\ NoTime \in Clock /\ ld.owner = lead[l].owner /\ ld.asg = lead[l].asg
      BY <1>0 DEF LeadRow, Clock
    <3>3. LET key == <<"conversion", 0, 0>> IN key \notin KeysOf(l) => FreshKey(l, key)
      BY DEF FreshKey, WorkKinds
    <3>. QED BY <3>1, <3>2, <3>3, ObserveRemarkRow
  <2>a. ASSUME NEW u \in Actors, NEW closing \in BOOLEAN, LegacyLevel(l, u, closing)
        PROVE  RowChange
    <3>1. LET key == <<"level", remarkSeq + 1, 0>> IN key \notin KeysOf(l) => FreshKey(l, key)
      BY DEF FreshKey, WorkKinds
    <3>2. NoTime \in Clock
      BY DEF Clock
    <3>3. \E final : ObserveRemark(l, lead[l], final, u, NoStatus, <<"level", remarkSeq + 1, 0>>, NoTime)
      BY <2>a DEF LegacyLevel
    <3>. QED BY <1>0, <3>1, <3>2, <3>3, ObserveRemarkRow
  <2>b. ASSUME NEW next, NEW final, NEW key, key[1] \in {"legacy", "meeting"},
               Invalidate(l, next, final, key)
        PROVE  RowChange
    <3>1. CASE ~UNCHANGED rowVars
      <4>. DEFINE after == Invalidated(state[l], next # NoTime)
      <4>1. state[l].gen > 0 /\ key \notin KeysOf(l) /\ (next # NoTime) \in BOOLEAN
        BY <2>b, <3>1 DEF Invalidate
      <4>2. Touches(l, after, {Event(after, "legacy_changed", key, "none", <<>>)})
        BY <2>b, <3>1 DEF Invalidate, Touches
      <4>3. LegacyChanged(l)
        BY <2>b, <4>1, <4>2 DEF LegacyChanged
      <4>. QED BY <4>3
    <3>. QED BY <3>1
  <2>c. ASSUME NEW m, NEW closing, SaveMeeting(l, m, closing) PROVE RowChange
    <3>1. <<"meeting", m, 0>>[1] = "meeting"
      OBVIOUS
    <3>2. \E final : Invalidate(l, lead[l].next, final, <<"meeting", m, 0>>)
      BY <2>c DEF SaveMeeting
    <3>. QED BY <2>b, <3>1, <3>2
  <2>4. ASSUME NEW closed, NEW next, InvalidateLegacy(l, closed, next) PROVE RowChange
    <3>1. <<"legacy", state[l].gen + 1, 0>>[1] = "legacy"
      OBVIOUS
    <3>2. \E final : Invalidate(l, next, final, <<"legacy", state[l].gen + 1, 0>>)
      BY <2>4 DEF InvalidateLegacy
    <3>. QED BY <2>b, <3>1, <3>2
  <2>5. ASSUME NEW o \in ScheduleChoices \cup {NoTime}, NEW p \in ScheduleChoices \cup {NoTime},
               Schedule(l, o, p)
        PROVE  RowChange
    <3>. DEFINE after == [state[l] EXCEPT !.gen = @ + 1, !.oldAt = o, !.pendAt = p]
    <3>1. o \in Clock /\ p \in Clock
      BY BoundAssumption DEF Clock
    <3>2. Touches(l, after, {Event(after, "scheduled", <<"schedule", after.gen, 0>>, "none", <<>>)})
      BY <2>5 DEF Schedule, Touches
    <3>3. Scheduled(l)
      BY <2>5, <3>1, <3>2 DEF Schedule, Scheduled, MatchesAssignment
    <3>. QED BY <3>3
  <2>6. CASE \E u \in Actors, p \in Statuses \cup {NoStatus},
               f \in FollowupChoices \cup {NoTime}, closed, closing \in BOOLEAN :
               LegacyRemark(l, u, p, f, closed, closing)
    BY <2>1, <2>6
  <2>7. CASE \E u \in Actors, p \in Timed \cup {NoStatus},
               f \in FollowupChoices \cup {NoTime}, closed \in {lead[l].closed, FALSE} :
               CallAttempt(l, u, p, f, closed)
    BY <2>2, <2>7
  <2>8. CASE \E u \in Actors : Conversion(l, u) \/ ImportNote(l, u)
    BY <2>3, <2>8 DEF ImportNote, rowVars
  <2>9. CASE \/ CloseLifecycle(l) \/ ProgressLifecycle(l)
             \/ \E f \in FollowupChoices : ReopenLifecycle(l, f)
    BY <2>4, <2>9 DEF CloseLifecycle, ProgressLifecycle, ReopenLifecycle
  <2>10. CASE \E o, p \in ScheduleChoices \cup {NoTime} : Schedule(l, o, p)
    BY <2>5, <2>10
  <2>11. CASE \/ \E u \in Actors, closing \in BOOLEAN : LegacyLevel(l, u, closing)
              \/ \E m \in Meetings, closing \in BOOLEAN : SaveMeeting(l, m, closing)
    BY <2>a, <2>c, <2>11
  <2>12. CASE \E closed \in Stages : ChangeStage(l, closed)
    BY <2>12 DEF ChangeStage
  <2>. QED BY <1>4, <2>6, <2>7, <2>8, <2>9, <2>10, <2>11, <2>12 DEF Handlers
<1>5. ASSUME NEW l \in Leads, Assignments(l) PROVE RowChange
  BY <1>5 DEF Assignments, Reassign, AssignPooled, InsertHistory, Unassign, rowVars
<1>6. ASSUME NEW w \in Workers, WorkerStep(w) PROVE RowChange
  <2>1. CASE StartTick(w) \/ ReadDueRows(w) \/ FinishTick(w)
    BY <2>1 DEF StartTick, ReadDueRows, FinishTick, rowVars
  <2>2. ASSUME NEW l \in worker[w].leads, EnrollLead(w, l) PROVE RowChange
    <3>1. CASE ~UNCHANGED rowVars
      <4>1. /\ l \in Leads /\ lead[l].owner \in Counselors
            /\ Touches(l, EnsureState(l, lead[l]), EnsureEvents(l, lead[l]))
        BY <1>0, <2>2, <3>1 DEF EnrollLead, Touches
      <4>2. Assigned(l, lead[l])
        BY <1>0, <4>1, UserAssumption DEF Assigned
      <4>3. Enrolled(l)
        BY <4>1, <4>2 DEF Enrolled
      <4>. QED BY <4>1, <4>3
    <3>. QED BY <3>1
  <2>3. ASSUME NEW row \in worker[w].rows, ProcessRow(w, row) PROVE RowChange
    <3>. DEFINE l == row.lead
    <3>1. row \in DueRow /\ l \in Leads
      BY <1>0 DEF DueRow
    <3>2. CASE Reconciles(row)
      <4>1. ObserveRemark(l, lead[l], lead[l], lead[l].owner, NoStatus,
                          <<"remark", NewestRemark(l).id, 0>>, NoTime)
        BY <2>3, <3>2, ReconcilesExcludesTransitions DEF ProcessRow
      <4>2. lead[l] \in LeadRow /\ NoTime \in Clock
        BY <1>0, <3>1 DEF Clock
      <4>. DEFINE key == <<"remark", NewestRemark(l).id, 0>>
      <4>3. key[1] = "remark" /\ key[2] = NewestRemark(l).id
        OBVIOUS
      <4>4. CounselorRemarks(l, lead[l]) # {} /\ remarks' = remarks
        BY <2>3, <3>2 DEF Reconciles, ProcessRow
      <4>. HIDE DEF key
      <4>5. NamesNewest(l, key)
        BY <4>3, <4>4 DEF NamesNewest
      <4>6. key \notin KeysOf(l) => FreshKey(l, key)
        BY <4>3, <4>5 DEF FreshKey, WorkKinds
      <4>7. ObserveRemark(l, lead[l], lead[l], lead[l].owner, NoStatus, key, NoTime)
        BY <4>1 DEF key
      <4>. QED BY <3>1, <4>2, <4>6, <4>7, ObserveRemarkRow
    <3>3. CASE Transitions(row)
      <4>1. Touches(l, Aged(state[l], row.kind),
                    {Event(Aged(state[l], row.kind), "entered", DeadlineKey(row), "none", <<>>)})
        BY <2>3, <3>3, ReconcilesExcludesTransitions DEF ProcessRow, Touches
      <4>2. AgedBy(l)
        BY <3>1, <3>3, <4>1 DEF AgedBy
      <4>. QED BY <3>1, <4>2
    <3>4. CASE ~Reconciles(row) /\ ~Transitions(row)
      BY <2>3, <3>4 DEF ProcessRow
    <3>. QED BY <3>2, <3>3, <3>4
  <2>. QED BY <1>6, <2>1, <2>2, <2>3 DEF WorkerStep
<1>. QED BY <1>1, <1>3, <1>4, <1>5, <1>6 DEF Next

-----------------------------------------------------------------------------
(* Invariants of the row. *)

\* The inductive invariant of a row: the CHECK constraints, no deadline after a
\* terminal status, and a deadline for Old only while the lead is in no queue.
RowInv(s) ==
  /\ RowChecks(s)
  /\ s.primary \in Terminal => s.oldAt = NoTime /\ s.pendAt = NoTime
  /\ s.oldAt # NoTime => s.queue = "none"

\* Enrolment keeps the invariant of the row.
LEMMA EnsureStateInv ==
  ASSUME TypeOK, NEW l \in Leads, NEW ld \in LeadRow, RowInv(state[l])
  PROVE  RowInv(EnsureState(l, ld))
<1>1. RowInv(EnrolledNew(l, ld))
  BY StatusAssumption DEF RowInv, RowChecks, EnrolledNew, NoTime
<1>2. RowInv(EnrolledAwaiting(l, ld))
  BY DEF RowInv, RowChecks, EnrolledAwaiting, NoTime
<1>. QED BY <1>1, <1>2 DEF EnsureState

\* A remark establishes it, whatever the row was.
LEMMA AfterRemarkInv ==
  ASSUME NEW s \in StateRow, NEW p \in Statuses \cup {NoStatus}, NEW b \in BOOLEAN,
         now \in 0..MaxTime
  PROVE  RowInv(AfterRemark(s, p, b))
<1>1. RowInv(Invalidated(s, b))
  BY DEF RowInv, RowChecks, Invalidated, StateRow, NoTime
<1>2. ASSUME p # NoStatus PROVE RowInv(Journey(s, p, b))
  <2>1. CASE p \in Timed
    <3>1. /\ JourneyDeadlines(p, now).old = OldDue(p, now)
          /\ JourneyDeadlines(p, now).pending = PendingDue(p, now)
      BY <2>1 DEF JourneyDeadlines
    <3>2. p \notin Terminal /\ OldDue(p, now) <= PendingDue(p, now)
      BY <2>1, PolicyAssumption, StatusAssumption
    <3>. QED BY <1>2, <3>1, <3>2 DEF RowInv, RowChecks, Journey, StateRow
  <2>2. CASE p \notin Timed
    <3>1. /\ JourneyDeadlines(p, now).old = NoTime
          /\ JourneyDeadlines(p, now).pending = NoTime
      BY <2>2 DEF JourneyDeadlines
    <3>. QED BY <1>2, <3>1 DEF RowInv, RowChecks, Journey, StateRow
  <2>. QED BY <2>1, <2>2
<1>. QED BY <1>1, <1>2 DEF AfterRemark

\* Every change of a row keeps its invariant.
LEMMA RowStepInv ==
  ASSUME TypeOK, NEW l \in Leads, RowInv(state[l]), RowStep(l)
  PROVE  RowInv(state'[l])
<1>0. state[l] \in StateRow /\ now \in 0..MaxTime
  BY DEF TypeOK
<1>1. CASE Enrolled(l)
  <2>1. PICK ld \in LeadRow : Touches(l, EnsureState(l, ld), EnsureEvents(l, ld))
    BY <1>1 DEF Enrolled, Assigned
  <2>. QED BY <2>1, Touched, EnsureStateInv
<1>2. CASE Worked(l)
  <2>1. PICK ld \in LeadRow, p \in Statuses \cup {NoStatus}, b \in BOOLEAN :
          \E new : Touches(l, AfterRemark(EnsureState(l, ld), p, b), new)
    BY <1>2 DEF Worked, Assigned
  <2>. QED BY <1>0, <2>1, Touched, EnsureStateType, AfterRemarkInv
<1>3. CASE LegacyChanged(l)
  <2>1. PICK b \in BOOLEAN : \E new : Touches(l, Invalidated(state[l], b), new)
    BY <1>3 DEF LegacyChanged
  <2>2. state'[l] = Invalidated(state[l], b)
    BY <2>1, Touched
  <2>. QED BY <1>0, <2>2 DEF RowInv, RowChecks, Invalidated, StateRow, NoTime
<1>4. CASE Scheduled(l)
  <2>1. PICK o \in Clock, p \in Clock :
          /\ ~state[l].awaiting /\ state[l].primary \notin Terminal
          /\ o # NoTime => state[l].active /\ state[l].primary # NoStatus /\ state[l].queue # "old"
          /\ state[l].queue # "pending"
          /\ o # NoTime /\ p # NoTime => o <= p
          /\ \E new : Touches(l, [state[l] EXCEPT !.gen = @ + 1, !.oldAt = o, !.pendAt = p], new)
    BY <1>4 DEF Scheduled
  <2>2. state'[l] = [state[l] EXCEPT !.gen = @ + 1, !.oldAt = o, !.pendAt = p]
    BY <2>1, Touched
  <2>3. state[l].queue \in Queues
    BY <1>0 DEF StateRow
  <2>4. o # NoTime => state[l].queue = "none"
    BY <2>1, <2>3 DEF Queues, RowInv, RowChecks
  <2>. QED BY <1>0, <2>1, <2>2, <2>4 DEF RowInv, RowChecks, StateRow
<1>5. CASE AgedBy(l)
  <2>1. PICK row \in DueRow : /\ row.lead = l /\ Transitions(row)
                                   /\ \E new : Touches(l, Aged(state[l], row.kind), new)
    BY <1>5 DEF AgedBy
  <2>2. /\ ~state[l].awaiting /\ state[l].primary \notin Terminal
        /\ row.kind = "old" => state[l].active /\ state[l].primary # NoStatus
        /\ row.kind \in {"old", "pending"}
    BY <2>1 DEF Transitions, Actionable, DueRow
  <2>3. state'[l] = Aged(state[l], row.kind)
    BY <2>1, Touched
  <2>. QED BY <1>0, <2>2, <2>3 DEF RowInv, RowChecks, Aged, StateRow, NoTime
<1>. QED BY <1>1, <1>2, <1>3, <1>4, <1>5 DEF RowStep

\* Rows of other leads are left alone.
LEMMA OtherRows ==
  ASSUME TypeOK, NEW l \in Leads, RowStep(l)
  PROVE  \A m \in Leads \ {l} : state'[m] = state[m] /\ events'[m] = events[m]
<1>1. PICK row, new : Touches(l, row, new)
  BY DEF RowStep, Enrolled, Worked, LegacyChanged, Scheduled, AgedBy
<1>. QED BY <1>1, Touched

\* The invariant of the row holds in every reachable state.
THEOREM RowInvariant == Spec => [](\A l \in Leads : RowInv(state[l]))
<1>. DEFINE Inv == \A l \in Leads : RowInv(state[l])
<1>1. Init => Inv
  <2>1. RowInv(NoRow)
    BY DEF RowInv, RowChecks, NoRow, NoTime
  <2>. QED BY <2>1 DEF Init
<1>2. TypeOK /\ Inv /\ [Next]_vars => Inv'
  <2>. SUFFICES ASSUME TypeOK, Inv, [Next]_vars PROVE Inv'
    OBVIOUS
  <2>1. CASE UNCHANGED rowVars
    BY <2>1 DEF rowVars
  <2>2. CASE \E l \in Leads : RowStep(l)
    BY <2>2, RowStepInv, OtherRows
  <2>. QED BY <2>1, <2>2, RowSteps DEF RowChange
<1>. QED BY <1>1, <1>2, TypeCorrect, PTL DEF Spec

\* No CHECK constraint of the table rejects a write.
THEOREM TableChecksHold == Spec => []TableChecks
<1>1. (\A l \in Leads : RowInv(state[l])) => TableChecks
  BY DEF RowInv, TableChecks
<1>. QED BY <1>1, RowInvariant, PTL

\* A lead in a terminal status keeps no deadline.
THEOREM TerminalNeverAgesHolds == Spec => []TerminalNeverAges
<1>1. (\A l \in Leads : RowInv(state[l])) => TerminalNeverAges
  BY DEF RowInv, TerminalNeverAges
<1>. QED BY <1>1, RowInvariant, PTL

-----------------------------------------------------------------------------
(* Aging happens by what is true when it is written. *)

\* A row turns Old or Pending only when its deadline has passed, without a
\* follow-up, in the current assignment, and New only when nobody worked it.
THEOREM AgingIsCurrentHolds == Spec => AgingIsCurrent
<1>. DEFINE Current(l) ==
       state'[l].queue \in {"old", "pending"} /\ state'[l].queue # state[l].queue =>
         LET due == IF state'[l].queue = "old" THEN state[l].oldAt ELSE state[l].pendAt IN
         /\ due # NoTime /\ due <= now
         /\ state'[l].queue = "pending" => state[l].oldAt = NoTime
         /\ lead[l].next = NoTime /\ ~state[l].override
         /\ MatchesAssignment(state[l], lead[l])
         /\ state[l].queue = "new" => CounselorRemarks(l, lead[l]) = {}
<1>1. ASSUME TypeOK, NEW l \in Leads, RowStep(l) PROVE Current(l)
  <2>0. state[l] \in StateRow /\ now \in 0..MaxTime
    BY <1>1 DEF TypeOK
  <2>1. CASE Enrolled(l)
    <3>1. PICK ld, new : Touches(l, EnsureState(l, ld), new)
      BY <2>1 DEF Enrolled
    <3>2. state'[l] = EnsureState(l, ld)
      BY <1>1, <3>1, Touched
    <3>. QED BY <3>2 DEF EnsureState, EnrolledNew, EnrolledAwaiting
  <2>2. CASE Worked(l)
    <3>1. PICK ld \in LeadRow, p \in Statuses \cup {NoStatus}, b \in BOOLEAN :
            \E new : Touches(l, AfterRemark(EnsureState(l, ld), p, b), new)
      BY <2>2 DEF Worked, Assigned
    <3>2. EnsureState(l, ld) \in StateRow
      BY <1>1, EnsureStateType
    <3>3. state'[l] = AfterRemark(EnsureState(l, ld), p, b)
      BY <1>1, <3>1, Touched
    <3>4. state'[l].queue = "none"
      BY <3>2, <3>3 DEF AfterRemark, Journey, Invalidated, StateRow
    <3>. QED BY <3>4
  <2>3. CASE LegacyChanged(l)
    <3>1. PICK b, new : Touches(l, Invalidated(state[l], b), new)
      BY <2>3 DEF LegacyChanged
    <3>2. state'[l] = Invalidated(state[l], b)
      BY <1>1, <3>1, Touched
    <3>. QED BY <2>0, <3>2 DEF Invalidated, StateRow
  <2>4. CASE Scheduled(l)
    <3>1. PICK o, p, new : Touches(l, [state[l] EXCEPT !.gen = @ + 1, !.oldAt = o, !.pendAt = p], new)
      BY <2>4 DEF Scheduled
    <3>2. state'[l] = [state[l] EXCEPT !.gen = @ + 1, !.oldAt = o, !.pendAt = p]
      BY <1>1, <3>1, Touched
    <3>. QED BY <2>0, <3>2 DEF StateRow
  <2>5. CASE AgedBy(l)
    <3>1. PICK row \in DueRow : /\ row.lead = l /\ Transitions(row)
                                     /\ \E new : Touches(l, Aged(state[l], row.kind), new)
      BY <2>5 DEF AgedBy
    <3>2. state'[l] = Aged(state[l], row.kind)
      BY <1>1, <3>1, Touched
    <3>3. state'[l].queue = row.kind /\ row.kind \in {"old", "pending"} /\ row.due \in Nat
      BY <2>0, <3>2 DEF Aged, StateRow, DueRow
    <3>4. /\ Actionable(row) /\ ~Reconciles(row)
          /\ row.kind = "pending" => state[l].oldAt = NoTime
      BY <3>1 DEF Transitions
    <3>5. state[l].queue = "new" => CounselorRemarks(l, lead[l]) = {}
      BY <3>1, <3>4 DEF Reconciles
    <3>6. /\ (IF row.kind = "old" THEN state[l].oldAt ELSE state[l].pendAt) = row.due
          /\ row.due <= now
          /\ lead[l].next = NoTime /\ ~state[l].override
          /\ MatchesAssignment(state[l], lead[l])
      BY <3>1, <3>4 DEF Actionable
    <3>. QED BY <3>3, <3>4, <3>5, <3>6 DEF NoTime
  <2>. QED BY <1>1, <2>1, <2>2, <2>3, <2>4, <2>5 DEF RowStep
<1>2. TypeOK /\ [Next]_vars => [\A l \in Leads : Current(l)]_vars
  <2>. SUFFICES ASSUME TypeOK, [Next]_vars PROVE \A m \in Leads : Current(m)
    OBVIOUS
  <2>1. CASE UNCHANGED rowVars
    BY <2>1 DEF rowVars
  <2>2. CASE \E l \in Leads : RowStep(l)
    <3>1. PICK l \in Leads : RowStep(l)
      BY <2>2
    <3>2. Current(l) /\ \A m \in Leads \ {l} : state'[m].queue = state[m].queue
      BY <1>1, <3>1, OtherRows
    <3>. QED BY <3>2
  <2>. QED BY <2>1, <2>2, RowSteps DEF RowChange
<1>. QED BY <1>2, TypeCorrect, PTL DEF Spec, AgingIsCurrent

-----------------------------------------------------------------------------
(* A generation identifies the row up to its aging. *)

\* Enrolment keeps the row, or raises its generation.
LEMMA EnsureStateGeneration ==
  ASSUME TypeOK, NEW l \in Leads, NEW ld \in LeadRow
  PROVE  \/ EnsureState(l, ld) = state[l]
         \/ EnsureState(l, ld).gen = state[l].gen + 1
BY DEF EnsureState, EnrolledNew, EnrolledAwaiting

\* The generation of a row never falls, it rises with every change but aging,
\* and no event is lost.
THEOREM GenerationsIdentifyHolds == Spec => GenerationsIdentify
<1>. DEFINE Identified(l) ==
       /\ state'[l].gen >= state[l].gen
       /\ state'[l].gen = state[l].gen =>
            \/ state'[l] = state[l]
            \/ \E kind \in {"old", "pending"} : state'[l] = Aged(state[l], kind)
       /\ events[l] \subseteq events'[l]
<1>1. ASSUME TypeOK, NEW l \in Leads, RowStep(l) PROVE Identified(l)
  <2>0. state[l] \in StateRow /\ state[l].gen \in Nat
    BY <1>1 DEF TypeOK, StateRow
  <2>6. ASSUME state'[l].gen \in Nat, state'[l].gen > state[l].gen,
               events[l] \subseteq events'[l]
        PROVE  Identified(l)
    BY <2>0, <2>6
  <2>1. CASE Enrolled(l)
    <3>1. PICK ld \in LeadRow : \E new : Touches(l, EnsureState(l, ld), new)
      BY <2>1 DEF Enrolled, Assigned
    <3>. QED BY <1>1, <2>0, <3>1, Touched, EnsureStateGeneration
  <2>2. CASE Worked(l)
    <3>1. PICK ld \in LeadRow, p \in Statuses \cup {NoStatus}, b \in BOOLEAN :
            \E new : Touches(l, AfterRemark(EnsureState(l, ld), p, b), new)
      BY <2>2 DEF Worked, Assigned
    <3>2. EnsureState(l, ld) \in StateRow
      BY <1>1, EnsureStateType
    <3>3. AfterRemark(EnsureState(l, ld), p, b).gen = EnsureState(l, ld).gen + 1
      BY <3>2 DEF AfterRemark, Journey, Invalidated, StateRow
    <3>4. /\ AfterRemark(EnsureState(l, ld), p, b).gen \in Nat
          /\ AfterRemark(EnsureState(l, ld), p, b).gen > state[l].gen
      BY <1>1, <2>0, <3>3, EnsureStateGeneration
    <3>5. /\ state'[l] = AfterRemark(EnsureState(l, ld), p, b)
          /\ events[l] \subseteq events'[l]
      BY <1>1, <3>1, Touched
    <3>. HIDE DEF Identified
    <3>. QED BY <2>6, <3>4, <3>5
  <2>3. CASE LegacyChanged(l)
    <3>1. PICK b, new : Touches(l, Invalidated(state[l], b), new)
      BY <2>3 DEF LegacyChanged
    <3>2. Invalidated(state[l], b).gen = state[l].gen + 1
      BY <2>0 DEF Invalidated, StateRow
    <3>3. state'[l] = Invalidated(state[l], b) /\ events[l] \subseteq events'[l]
      BY <1>1, <3>1, Touched
    <3>. HIDE DEF Identified
    <3>. QED BY <2>0, <2>6, <3>2, <3>3
  <2>4. CASE Scheduled(l)
    <3>1. PICK o, p, new : Touches(l, [state[l] EXCEPT !.gen = @ + 1, !.oldAt = o, !.pendAt = p], new)
      BY <2>4 DEF Scheduled
    <3>2. [state[l] EXCEPT !.gen = @ + 1, !.oldAt = o, !.pendAt = p].gen = state[l].gen + 1
      BY <2>0 DEF StateRow
    <3>3. /\ state'[l] = [state[l] EXCEPT !.gen = @ + 1, !.oldAt = o, !.pendAt = p]
          /\ events[l] \subseteq events'[l]
      BY <1>1, <3>1, Touched
    <3>. HIDE DEF Identified
    <3>. QED BY <2>0, <2>6, <3>2, <3>3
  <2>5. CASE AgedBy(l)
    <3>1. PICK kind \in {"old", "pending"} : \E new : Touches(l, Aged(state[l], kind), new)
      BY <2>5 DEF AgedBy, DueRow
    <3>2. Aged(state[l], kind).gen = state[l].gen
      BY <2>0 DEF Aged, StateRow
    <3>. QED BY <1>1, <2>0, <3>1, <3>2, Touched
  <2>. QED BY <1>1, <2>1, <2>2, <2>3, <2>4, <2>5 DEF RowStep
<1>2. TypeOK /\ [Next]_vars => [\A l \in Leads : Identified(l)]_vars
  <2>. SUFFICES ASSUME TypeOK, [Next]_vars PROVE \A m \in Leads : Identified(m)
    OBVIOUS
  <2>0. \A m \in Leads : state[m].gen \in Nat
    BY DEF TypeOK, StateRow
  <2>1. ASSUME NEW m \in Leads, state'[m] = state[m], events'[m] = events[m]
        PROVE  Identified(m)
    BY <2>0, <2>1
  <2>2. CASE UNCHANGED rowVars
    BY <2>1, <2>2 DEF rowVars
  <2>3. CASE \E l \in Leads : RowStep(l)
    <3>1. PICK l \in Leads : RowStep(l)
      BY <2>3
    <3>2. Identified(l)
      BY <1>1, <3>1
    <3>3. \A m \in Leads \ {l} : Identified(m)
      BY <2>1, <3>1, OtherRows
    <3>. HIDE DEF Identified
    <3>. QED BY <3>2, <3>3
  <2>. QED BY <2>2, <2>3, RowSteps DEF RowChange
<1>. QED BY <1>2, TypeCorrect, PTL DEF Spec, GenerationsIdentify
-----------------------------------------------------------------------------
(* The policies that set the deadlines: what PolicyAssumption takes for    *)
(* granted.  Leaves name SMT: Zenon does not take numbers of this size.    *)

Policies == INSTANCE DeadlinePolicies

\* A time is a midnight and a time of day ...
LEMMA DayParts ==
  ASSUME NEW t \in Nat
  PROVE  /\ Policies!TimeOfDay(t) \in Nat /\ Policies!TimeOfDay(t) < Policies!Day
         /\ Policies!Midnight(t) \in Nat
         /\ t = Policies!Midnight(t) + Policies!TimeOfDay(t)
<1>1. t % 86400000 \in Int /\ t % 86400000 >= 0
  BY SMT
<1>2. t % 86400000 < 86400000
  BY SMT
<1>3. t % 86400000 <= t
  BY SMT
<1>. QED BY SMT, <1>1, <1>2, <1>3 DEF Policies!TimeOfDay, Policies!Midnight, Policies!Day,
            Policies!Hour, Policies!Minute

\* ... and a later time is later on the same day, or on a later day.
LEMMA DaysInOrder ==
  ASSUME NEW t \in Nat, NEW u \in Nat, t <= u
  PROVE  \/ /\ Policies!Midnight(t) = Policies!Midnight(u)
            /\ Policies!TimeOfDay(t) <= Policies!TimeOfDay(u)
         \/ Policies!Midnight(t) + Policies!Day <= Policies!Midnight(u)
BY SMT DEF Policies!TimeOfDay, Policies!Midnight, Policies!Day, Policies!Hour, Policies!Minute

\* The same in numbers.
LEMMA OrderedDays ==
  ASSUME NEW t \in Nat, NEW u \in Nat, t <= u
  PROVE  LET mt == Policies!Midnight(t)
             mu == Policies!Midnight(u)
             dt == Policies!TimeOfDay(t)
             du == Policies!TimeOfDay(u)
         IN  /\ mt \in Nat /\ mu \in Nat /\ dt \in Nat /\ du \in Nat
             /\ dt < 86400000 /\ du < 86400000
             /\ (mt = mu /\ dt <= du) \/ mt + 86400000 <= mu
<1>1. Policies!Day = 86400000
  BY SMT DEF Policies!Day, Policies!Hour, Policies!Minute
<1>2. /\ Policies!Midnight(t) \in Nat /\ Policies!TimeOfDay(t) \in Nat
      /\ Policies!TimeOfDay(t) < 86400000
  BY SMT, <1>1, DayParts
<1>3. /\ Policies!Midnight(u) \in Nat /\ Policies!TimeOfDay(u) \in Nat
      /\ Policies!TimeOfDay(u) < 86400000
  BY SMT, <1>1, DayParts
<1>4. \/ /\ Policies!Midnight(t) = Policies!Midnight(u)
         /\ Policies!TimeOfDay(t) <= Policies!TimeOfDay(u)
      \/ Policies!Midnight(t) + 86400000 <= Policies!Midnight(u)
  BY SMT, <1>1, DaysInOrder
<1>. QED BY SMT, <1>2, <1>3, <1>4

LEMMA OfficeValue ==
  ASSUME NEW t \in Nat
  PROVE  Policies!OfficeDeadline(t) =
           LET m == Policies!Midnight(t)
               d == Policies!TimeOfDay(t)
           IN  IF d < 32400000 THEN m + 36000000
               ELSE IF d <= 61200000 THEN m + d + 7200000 ELSE m + 122400000
BY SMT, DayParts DEF Policies!OfficeDeadline, Policies!InOffice, Policies!Day, Policies!Hour,
   Policies!Minute

LEMMA CutoffValue ==
  ASSUME NEW t \in Nat
  PROVE  Policies!NextRespondedCutoff(t) =
           LET m == Policies!Midnight(t)
               d == Policies!TimeOfDay(t)
           IN  IF d <= 77400000 THEN m + 77400000 ELSE m + 163800000
BY SMT, DayParts DEF Policies!NextRespondedCutoff, Policies!Cutoff, Policies!Day, Policies!Hour,
   Policies!Minute

\* The deadline of New and NR work lies ahead, by 17 hours at most, and keeps the order
\* of what was begun.
LEMMA OfficeAhead ==
  ASSUME NEW t \in Nat
  PROVE  /\ Policies!OfficeDeadline(t) \in Nat
         /\ t < Policies!OfficeDeadline(t)
         /\ Policies!OfficeDeadline(t) <= t + 17 * Policies!Hour
<1>1. /\ Policies!Hour = 3600000 /\ Policies!Day = 86400000
      /\ Policies!TimeOfDay(t) < 86400000
  BY SMT, DayParts DEF Policies!Hour, Policies!Minute, Policies!Day
<1>. DEFINE m == Policies!Midnight(t)
            d == Policies!TimeOfDay(t)
<1>2. m \in Nat /\ d \in Nat /\ t = m + d /\ d < 86400000
  BY SMT, <1>1, DayParts
<1>3. Policies!OfficeDeadline(t) =
        IF d < 32400000 THEN m + 36000000
        ELSE IF d <= 61200000 THEN m + d + 7200000 ELSE m + 122400000
  BY SMT, OfficeValue
<1>. HIDE DEF m, d
<1>. QED BY SMT, <1>1, <1>2, <1>3

LEMMA OfficeMonotone ==
  ASSUME NEW t \in Nat, NEW u \in Nat, t <= u
  PROVE  Policies!OfficeDeadline(t) <= Policies!OfficeDeadline(u)
<1>. DEFINE mt == Policies!Midnight(t)
            mu == Policies!Midnight(u)
            dt == Policies!TimeOfDay(t)
            du == Policies!TimeOfDay(u)
<1>1. /\ mt \in Nat /\ mu \in Nat /\ dt \in Nat /\ du \in Nat
      /\ dt < 86400000 /\ du < 86400000
      /\ (mt = mu /\ dt <= du) \/ mt + 86400000 <= mu
  BY SMT, OrderedDays
<1>2. Policies!OfficeDeadline(t) =
        IF dt < 32400000 THEN mt + 36000000
        ELSE IF dt <= 61200000 THEN mt + dt + 7200000 ELSE mt + 122400000
  BY SMT, OfficeValue
<1>3. Policies!OfficeDeadline(u) =
        IF du < 32400000 THEN mu + 36000000
        ELSE IF du <= 61200000 THEN mu + du + 7200000 ELSE mu + 122400000
  BY SMT, OfficeValue
<1>. HIDE DEF mt, mu, dt, du
<1>. QED BY SMT, <1>1, <1>2, <1>3

\* So does the cutoff, by less than a day.
LEMMA CutoffAhead ==
  ASSUME NEW t \in Nat
  PROVE  /\ Policies!NextRespondedCutoff(t) \in Nat
         /\ t <= Policies!NextRespondedCutoff(t)
         /\ Policies!NextRespondedCutoff(t) < t + Policies!Day
<1>1. /\ Policies!Hour = 3600000 /\ Policies!Day = 86400000
      /\ Policies!TimeOfDay(t) < 86400000
  BY SMT, DayParts DEF Policies!Hour, Policies!Minute, Policies!Day
<1>. DEFINE m == Policies!Midnight(t)
            d == Policies!TimeOfDay(t)
<1>2. m \in Nat /\ d \in Nat /\ t = m + d /\ d < 86400000
  BY SMT, <1>1, DayParts
<1>3. Policies!NextRespondedCutoff(t) = IF d <= 77400000 THEN m + 77400000 ELSE m + 163800000
  BY SMT, CutoffValue
<1>. HIDE DEF m, d
<1>. QED BY SMT, <1>1, <1>2, <1>3

LEMMA CutoffMonotone ==
  ASSUME NEW t \in Nat, NEW u \in Nat, t <= u
  PROVE  Policies!NextRespondedCutoff(t) <= Policies!NextRespondedCutoff(u)
<1>. DEFINE mt == Policies!Midnight(t)
            mu == Policies!Midnight(u)
            dt == Policies!TimeOfDay(t)
            du == Policies!TimeOfDay(u)
<1>1. /\ mt \in Nat /\ mu \in Nat /\ dt \in Nat /\ du \in Nat
      /\ dt < 86400000 /\ du < 86400000
      /\ (mt = mu /\ dt <= du) \/ mt + 86400000 <= mu
  BY SMT, OrderedDays
<1>2. Policies!NextRespondedCutoff(t) =
        IF dt <= 77400000 THEN mt + 77400000 ELSE mt + 163800000
  BY SMT, CutoffValue
<1>3. Policies!NextRespondedCutoff(u) =
        IF du <= 77400000 THEN mu + 77400000 ELSE mu + 163800000
  BY SMT, CutoffValue
<1>. HIDE DEF mt, mu, dt, du
<1>. QED BY SMT, <1>1, <1>2, <1>3

LEMMA DurationTypes ==
  ASSUME NEW s \in DOMAIN Policies!Durations
  PROVE  /\ Policies!Durations[s][1] \in 1..18
         /\ Policies!Durations[s][2] \in 1..20
         /\ Policies!Durations[s][1] + Policies!Durations[s][2] <= 35
BY SMT DEF Policies!Durations

\* PolicyAssumption holds of counselorWorkflowPolicies.js, with OfficeDeadline for NewDue
\* and the two deadlines of journeyDeadlines for OldDue and PendingDue: they lie ahead, Old
\* strictly before Pending, and no journey takes longer than 44 hours to get there.
THEOREM PoliciesMeetAssumption ==
  ASSUME NEW t \in Nat
  PROVE  /\ Policies!OfficeDeadline(t) \in Nat /\ Policies!OfficeDeadline(t) > t
         /\ \A s \in Policies!TimedStatuses :
              /\ Policies!OldDeadline(s, t) \in Nat /\ Policies!PendingDeadline(s, t) \in Nat
              /\ t <= Policies!OldDeadline(s, t)
              /\ Policies!OldDeadline(s, t) < Policies!PendingDeadline(s, t)
              /\ Policies!PendingDeadline(s, t) <= t + 44 * Policies!Hour
<1>1. ASSUME NEW s \in Policies!TimedStatuses
      PROVE  /\ Policies!OldDeadline(s, t) \in Nat /\ t <= Policies!OldDeadline(s, t)
             /\ Policies!HoursInOld(s) \in 1..22
             /\ Policies!OldDeadline(s, t) + Policies!HoursInOld(s) * 3600000 <= t + 158400000
  <2>1. Policies!Hour = 3600000 /\ Policies!Day = 86400000
    BY SMT DEF Policies!Hour, Policies!Minute, Policies!Day
  <2>2. CASE s \in Policies!NrStatuses
    BY SMT, <2>1, <2>2, OfficeAhead DEF Policies!OldDeadline, Policies!HoursInOld
  <2>3. CASE s \notin Policies!NrStatuses /\ s \in Policies!RetryableIssues
    BY SMT, <2>1, <2>3 DEF Policies!OldDeadline, Policies!HoursInOld
  <2>4. CASE s \notin Policies!NrStatuses \cup Policies!RetryableIssues /\ s = "respond_hi"
    BY SMT, <2>1, <2>4, CutoffAhead DEF Policies!OldDeadline, Policies!HoursInOld
  <2>5. CASE s \notin Policies!NrStatuses \cup Policies!RetryableIssues /\ s # "respond_hi"
    <3>1. s \in DOMAIN Policies!Durations
      BY SMT, <2>5 DEF Policies!TimedStatuses
    <3>2. /\ Policies!OldDeadline(s, t) = t + Policies!Durations[s][1] * 3600000
          /\ Policies!HoursInOld(s) = Policies!Durations[s][2]
      BY SMT, <2>1, <2>5 DEF Policies!OldDeadline, Policies!HoursInOld
    <3>. QED BY SMT, <3>1, <3>2, DurationTypes
  <2>. QED BY SMT, <2>2, <2>3, <2>4, <2>5
<1>2. Policies!Hour = 3600000
  BY SMT DEF Policies!Hour, Policies!Minute
<1>. QED BY SMT, <1>1, <1>2, OfficeAhead DEF Policies!PendingDeadline

\* What was begun earlier is never due later: New leads, Old leads and Pending leads come
\* up in the order in which they were assigned or worked.
THEOREM DeadlinesKeepOrder ==
  ASSUME NEW t \in Nat, NEW u \in Nat, t <= u
  PROVE  /\ Policies!OfficeDeadline(t) <= Policies!OfficeDeadline(u)
         /\ \A s \in Policies!TimedStatuses :
              /\ Policies!OldDeadline(s, t) <= Policies!OldDeadline(s, u)
              /\ Policies!PendingDeadline(s, t) <= Policies!PendingDeadline(s, u)
<1>1. Policies!Hour = 3600000
  BY SMT DEF Policies!Hour, Policies!Minute
<1>2. ASSUME NEW s \in Policies!TimedStatuses
      PROVE  /\ Policies!OldDeadline(s, t) <= Policies!OldDeadline(s, u)
             /\ Policies!HoursInOld(s) \in Nat
  BY SMT, <1>1, OfficeMonotone, CutoffMonotone, DurationTypes
     DEF Policies!OldDeadline, Policies!HoursInOld, Policies!TimedStatuses
<1>. QED BY SMT, <1>1, <1>2, OfficeMonotone, PoliciesMeetAssumption DEF Policies!PendingDeadline
=============================================================================
