------------------------ MODULE CounselorQueue_proofs ------------------------
(***************************************************************************)
(* CounselorWorkflow implements LeadQueue, for every value of the          *)
(* constants.  The invariant says what the mapping needs to know: how far  *)
(* the assignment of the row may lag behind that of the lead, and which    *)
(* assignments the responses were credited to.  Then what the events of a  *)
(* lead say: their keys are apart, a repeated request finds its event, and *)
(* a due row has none that would keep the worker from it.                  *)
(***************************************************************************)
EXTENDS CounselorWorkflow_proofs

CreditedEvents(l) == {e \in events[l] : e.source = "new"}

AssignmentInv(l) ==
  /\ lead[l].asg <= serial /\ state[l].asg <= serial
  /\ lead[l].owner # NoUser /\ state[l].gen > 0 =>
       /\ state[l].asg <= lead[l].asg
       /\ state[l].asg = lead[l].asg => state[l].owner = lead[l].owner

CreditInv(l) ==
  /\ \A e \in CreditedEvents(l) :
       /\ e.asg \in Nat /\ e.asg <= state[l].asg
       /\ e.asg = state[l].asg => state[l].queue # "new"
  /\ state[l].gen = 0 => CreditedEvents(l) = {}

QueueInv == \A l \in Leads : AssignmentInv(l) /\ CreditInv(l)

-----------------------------------------------------------------------------
(* How a step may change the assignment of a lead: not at all while a row     *)
(* changes; by a new serial number; or to nobody.                           *)

SameAssignment(l) == lead'[l].owner = lead[l].owner /\ lead'[l].asg = lead[l].asg
NewAssignment(l) == lead'[l].asg = serial + 1 /\ serial' = serial + 1
NoAssignment(l) == lead'[l].owner = NoUser /\ lead'[l].asg = 0

AssignmentChange ==
  \/ serial' = serial /\ \A l \in Leads : SameAssignment(l)
  \/ /\ UNCHANGED rowVars /\ serial' \in {serial, serial + 1}
     /\ \A l \in Leads : SameAssignment(l) \/ NewAssignment(l) \/ NoAssignment(l)

\* A remark leaves owner and assignment of every lead alone.
LEMMA ApplyRemarkAssignment ==
  ASSUME TypeOK, NEW l \in Leads, NEW ld, NEW final \in LeadRow,
         final.owner = lead[l].owner, final.asg = lead[l].asg,
         NEW u, NEW p, NEW key, NEW hash, NEW followup,
         ApplyRemark(l, ld, final, u, p, key, hash, followup)
  PROVE  \A m \in Leads : SameAssignment(m)
<1>. DEFINE works == WorksDueFollowup(ld, p)
            left == IF works THEN [final EXCEPT !.next = NoTime] ELSE final
<1>1. lead' = [lead EXCEPT ![l] = left]
  BY DEF ApplyRemark
<1>2. left.owner = lead[l].owner /\ left.asg = lead[l].asg
  BY DEF LeadRow
<1>. HIDE DEF left
<1>. QED BY <1>1, <1>2 DEF SameAssignment, TypeOK

\* So does a remark that comes through an adapter.
LEMMA ObserveRemarkAssignment ==
  ASSUME TypeOK, NEW l \in Leads, NEW ld, NEW final \in LeadRow,
         final.owner = lead[l].owner, final.asg = lead[l].asg,
         NEW u, NEW p, NEW key, NEW followup,
         ObserveRemark(l, ld, final, u, p, key, followup)
  PROVE  \A m \in Leads : SameAssignment(m)
<1>1. CASE Observed(l, ld, u) /\ key \notin KeysOf(l)
  BY <1>1, ApplyRemarkAssignment DEF ObserveRemark
<1>2. CASE ~(Observed(l, ld, u) /\ key \notin KeysOf(l))
  BY <1>2 DEF ObserveRemark, SameAssignment, TypeOK
<1>. QED BY <1>1, <1>2

\* Closing a lead changes nothing but its status and its follow-up.
LEMMA ClosedOffRow ==
  ASSUME NEW ld \in LeadRow
  PROVE  /\ ClosedOff(ld) \in LeadRow
         /\ ClosedOff(ld).owner = ld.owner /\ ClosedOff(ld).asg = ld.asg
         /\ ClosedOff(ld).closed /\ ClosedOff(ld).next = NoTime
BY DEF ClosedOff, LeadRow, Clock

\* Every step changes assignments in one of these ways.
LEMMA AssignmentSteps ==
  ASSUME TypeOK, [Next]_vars
  PROVE  AssignmentChange
<1>. USE DEF NoTime
<1>0. /\ \A l \in Leads : lead[l] \in LeadRow
      /\ \A w \in Workers : worker[w].rows \subseteq DueRow
  BY DEF TypeOK
<1>1. ASSUME UNCHANGED <<lead, serial>> PROVE AssignmentChange
  BY <1>1 DEF AssignmentChange, SameAssignment
<1>2. ASSUME serial' = serial, \A l \in Leads : SameAssignment(l) PROVE AssignmentChange
  BY <1>2 DEF AssignmentChange
<1>3. CASE UNCHANGED vars \/ Tick \/ \E w \in Workers : Faults(w)
  BY <1>1, <1>3 DEF vars, Tick, Faults, RowFails, Crash, LoseLock, leadVars
<1>4. CASE Clients
  <2>1. ASSUME NEW q \in requests, Saved(q) PROVE AssignmentChange
    <3>. DEFINE effective == IF q.followup = Keep THEN lead[q.lead].next ELSE q.followup
                ld == [lead[q.lead] EXCEPT !.next = effective]
    <3>1. q \in Request /\ q.lead \in Leads
      BY DEF TypeOK, Request
    <3>2. effective \in Clock
      BY <1>0, <3>1 DEF Request, LeadRow
    <3>3. ld \in LeadRow /\ ld.owner = lead[q.lead].owner /\ ld.asg = lead[q.lead].asg
      BY <1>0, <3>1, <3>2 DEF LeadRow
    <3>4. \A m \in Leads : SameAssignment(m)
      BY <2>1, <3>1, <3>3, ApplyRemarkAssignment DEF Saved
    <3>. QED BY <1>2, <2>1, <3>4 DEF Saved
  <2>2. CASE ~ \E q \in requests : Saved(q)
    BY <1>1, <1>4, <2>2 DEF Clients, Submit, RecordRemark, Refused, leadVars
  <2>. QED BY <2>1, <2>2
<1>5. ASSUME NEW l \in Leads, Handlers(l) PROVE AssignmentChange
  <2>1. ASSUME NEW u \in Actors, NEW p \in Statuses \cup {NoStatus},
               NEW f \in FollowupChoices \cup {NoTime}, NEW closed \in BOOLEAN,
               NEW closing \in BOOLEAN, LegacyRemark(l, u, p, f, closed, closing)
        PROVE  AssignmentChange
    <3>. DEFINE ld == [lead[l] EXCEPT !.closed = closed, !.next = IF f = NoTime THEN @ ELSE f]
                final == IF closing THEN ClosedOff(ld) ELSE ld
    <3>1. final \in LeadRow /\ final.owner = lead[l].owner /\ final.asg = lead[l].asg
      <4>1. ld \in LeadRow /\ ld.owner = lead[l].owner /\ ld.asg = lead[l].asg
        BY <1>0, BoundAssumption DEF LeadRow, Clock
      <4>. HIDE DEF ld
      <4>. QED BY <4>1, ClosedOffRow
    <3>2. ObserveRemark(l, ld, final, u, p, <<"remark", remarkSeq + 1, 0>>, f)
      BY <2>1 DEF LegacyRemark
    <3>3. \A m \in Leads : SameAssignment(m)
      BY <3>1, <3>2, ObserveRemarkAssignment
    <3>. QED BY <1>2, <2>1, <3>3 DEF LegacyRemark
  <2>2. ASSUME NEW u \in Actors, NEW p, NEW f, NEW closed \in {lead[l].closed, FALSE},
               CallAttempt(l, u, p, f, closed)
        PROVE  AssignmentChange
    <3>. DEFINE final == [lead[l] EXCEPT !.closed = closed]
    <3>1. final \in LeadRow /\ final.owner = lead[l].owner /\ final.asg = lead[l].asg
      BY <1>0 DEF LeadRow
    <3>2. \A m \in Leads : SameAssignment(m)
      BY <2>2, <3>1, ObserveRemarkAssignment DEF CallAttempt
    <3>. QED BY <1>2, <2>2, <3>2 DEF CallAttempt
  <2>3. ASSUME NEW u \in Actors, Conversion(l, u) PROVE AssignmentChange
    <3>1. PICK next \in {lead[l].next, NoTime} :
            LET ld == [lead[l] EXCEPT !.closed = TRUE, !.next = next] IN
            ObserveRemark(l, ld, ld, u, NoStatus, <<"conversion", 0, 0>>, NoTime)
      BY <2>3 DEF Conversion
    <3>. DEFINE ld == [lead[l] EXCEPT !.closed = TRUE, !.next = next]
    <3>2. ld \in LeadRow /\ ld.owner = lead[l].owner /\ ld.asg = lead[l].asg
      BY <1>0 DEF LeadRow, Clock
    <3>3. \A m \in Leads : SameAssignment(m)
      BY <3>1, <3>2, ObserveRemarkAssignment
    <3>. QED BY <1>2, <2>3, <3>3 DEF Conversion
  <2>a. ASSUME NEW final, final.owner = lead[l].owner, final.asg = lead[l].asg,
               lead' = [lead EXCEPT ![l] = final], serial' = serial
        PROVE  AssignmentChange
    <3>1. \A m \in Leads : SameAssignment(m)
      BY <2>a DEF SameAssignment, TypeOK
    <3>. QED BY <1>2, <2>a, <3>1
  <2>b. ASSUME NEW u, NEW closing, LegacyLevel(l, u, closing) PROVE AssignmentChange
    <3>. DEFINE final == IF closing THEN ClosedOff(lead[l]) ELSE lead[l]
    <3>1. final \in LeadRow /\ final.owner = lead[l].owner /\ final.asg = lead[l].asg
      BY <1>0, ClosedOffRow
    <3>2. ObserveRemark(l, lead[l], final, u, NoStatus, <<"level", remarkSeq + 1, 0>>, NoTime)
      BY <2>b DEF LegacyLevel
    <3>3. \A m \in Leads : SameAssignment(m)
      BY <3>1, <3>2, ObserveRemarkAssignment
    <3>. QED BY <1>2, <2>b, <3>3 DEF LegacyLevel
  <2>c. ASSUME NEW m, NEW closing, SaveMeeting(l, m, closing) PROVE AssignmentChange
    <3>. DEFINE closedOff == ClosedOff(lead[l])
                final == IF closing THEN [closedOff EXCEPT !.met = @ \cup {m}] ELSE lead[l]
    <3>1. closedOff \in LeadRow /\ closedOff.owner = lead[l].owner /\ closedOff.asg = lead[l].asg
      BY <1>0, ClosedOffRow
    <3>2. lead' = [lead EXCEPT ![l] = final] /\ serial' = serial
      BY <2>c DEF SaveMeeting, Invalidate
    <3>. HIDE DEF closedOff
    <3>3. final.owner = lead[l].owner /\ final.asg = lead[l].asg
      BY <3>1 DEF LeadRow
    <3>. HIDE DEF final
    <3>. QED BY <2>a, <3>2, <3>3
  <2>d. ASSUME NEW closed, ChangeStage(l, closed) PROVE AssignmentChange
    <3>1. lead' = [lead EXCEPT ![l] = [lead[l] EXCEPT !.closed = closed]] /\ serial' = serial
      BY <2>d DEF ChangeStage, TypeOK
    <3>2. \A m \in Leads : SameAssignment(m)
      BY <1>0, <3>1 DEF SameAssignment, LeadRow, TypeOK
    <3>. QED BY <1>2, <3>1, <3>2
  <2>4. ASSUME NEW closed, NEW next, InvalidateLegacy(l, closed, next) PROVE AssignmentChange
    <3>1. lead' = [lead EXCEPT ![l] = [lead[l] EXCEPT !.closed = closed, !.next = next]]
      BY <2>4 DEF InvalidateLegacy, Invalidate
    <3>2. \A m \in Leads : SameAssignment(m)
      BY <1>0, <3>1 DEF SameAssignment, LeadRow, TypeOK
    <3>. QED BY <1>2, <2>4, <3>2 DEF InvalidateLegacy, Invalidate
  <2>5. CASE \/ CloseLifecycle(l) \/ ProgressLifecycle(l)
             \/ \E f \in FollowupChoices : ReopenLifecycle(l, f)
    BY <2>4, <2>5 DEF CloseLifecycle, ProgressLifecycle, ReopenLifecycle
  <2>6. CASE \E u \in Actors, p \in Statuses \cup {NoStatus},
               f \in FollowupChoices \cup {NoTime}, closed, closing \in BOOLEAN :
               LegacyRemark(l, u, p, f, closed, closing)
    BY <2>1, <2>6
  <2>7. CASE \E u \in Actors, p \in Timed \cup {NoStatus},
               f \in FollowupChoices \cup {NoTime}, closed \in {lead[l].closed, FALSE} :
               CallAttempt(l, u, p, f, closed)
    BY <2>2, <2>7
  <2>8. CASE \E u \in Actors : Conversion(l, u) \/ ImportNote(l, u)
    BY <1>1, <2>3, <2>8 DEF ImportNote, leadVars
  <2>9. CASE \E o, p \in ScheduleChoices \cup {NoTime} : Schedule(l, o, p)
    BY <1>1, <2>9 DEF Schedule, leadVars
  <2>10. CASE \/ \E u \in Actors, closing \in BOOLEAN : LegacyLevel(l, u, closing)
              \/ \E m \in Meetings, closing \in BOOLEAN : SaveMeeting(l, m, closing)
              \/ \E closed \in Stages : ChangeStage(l, closed)
    BY <2>b, <2>c, <2>d, <2>10
  <2>. QED BY <1>5, <2>5, <2>6, <2>7, <2>8, <2>9, <2>10 DEF Handlers
<1>6. ASSUME NEW l \in Leads, Assignments(l) PROVE AssignmentChange
  <2>1. ASSUME NEW u \in Counselors, Reassign(l, u) \/ AssignPooled(l, u) PROVE AssignmentChange
    <3>1. /\ lead' = [lead EXCEPT ![l].owner = u, ![l].asg = serial + 1, ![l].at = now]
          /\ serial' = serial + 1 /\ UNCHANGED rowVars
      BY <2>1 DEF Reassign, AssignPooled
    <3>2. NewAssignment(l) /\ \A m \in Leads \ {l} : SameAssignment(m)
      BY <1>0, <3>1 DEF NewAssignment, SameAssignment, LeadRow, TypeOK
    <3>. QED BY <3>1, <3>2 DEF AssignmentChange
  <2>2. CASE InsertHistory(l)
    BY <2>2 DEF InsertHistory, AssignmentChange, SameAssignment
  <2>3. CASE Unassign(l)
    <3>1. /\ lead' = [lead EXCEPT ![l].owner = NoUser, ![l].asg = 0, ![l].at = 0]
          /\ serial' = serial /\ UNCHANGED rowVars
      BY <2>3 DEF Unassign
    <3>2. NoAssignment(l) /\ \A m \in Leads \ {l} : SameAssignment(m)
      BY <1>0, <3>1 DEF NoAssignment, SameAssignment, LeadRow, TypeOK
    <3>. QED BY <3>1, <3>2 DEF AssignmentChange
  <2>. QED BY <1>6, <2>1, <2>2, <2>3 DEF Assignments
<1>7. ASSUME NEW w \in Workers, WorkerStep(w) PROVE AssignmentChange
  <2>1. CASE \/ StartTick(w) \/ ReadDueRows(w) \/ FinishTick(w)
             \/ \E l \in worker[w].leads : EnrollLead(w, l)
    BY <1>1, <2>1 DEF StartTick, ReadDueRows, FinishTick, EnrollLead, leadVars
  <2>2. ASSUME NEW row \in worker[w].rows, ProcessRow(w, row) PROVE AssignmentChange
    <3>. DEFINE l == row.lead
    <3>1. l \in Leads /\ lead[l] \in LeadRow
      BY <1>0 DEF DueRow
    <3>2. CASE Reconciles(row)
      <4>1. ObserveRemark(l, lead[l], lead[l], lead[l].owner, NoStatus,
                          <<"remark", NewestRemark(l).id, 0>>, NoTime)
        BY <2>2, <3>2, ReconcilesExcludesTransitions DEF ProcessRow
      <4>2. \A m \in Leads : SameAssignment(m)
        BY <3>1, <4>1, ObserveRemarkAssignment
      <4>. QED BY <1>2, <2>2, <4>2 DEF ProcessRow
    <3>3. CASE ~Reconciles(row)
      BY <1>1, <2>2, <3>3 DEF ProcessRow
    <3>. QED BY <3>2, <3>3
  <2>. QED BY <1>7, <2>1, <2>2 DEF WorkerStep
<1>. QED BY <1>3, <1>4, <1>5, <1>6, <1>7 DEF Next

-----------------------------------------------------------------------------
(* What enrolment and a remark do to the assignment and to the credits. *)

\* The row is enrolled in the current assignment; a row that was not yet is
\* behind it.
LEMMA EnsureStateAssignment ==
  ASSUME TypeOK, NEW l \in Leads, AssignmentInv(l), NEW ld, Assigned(l, ld)
  PROVE  /\ EnsureState(l, ld).asg = lead[l].asg
         /\ EnsureState(l, ld).owner = lead[l].owner
         /\ EnsureState(l, ld).gen \in Nat /\ EnsureState(l, ld).gen > 0
         /\ MatchesAssignment(state[l], ld) => EnsureState(l, ld) = state[l]
         /\ ~MatchesAssignment(state[l], ld) /\ state[l].gen > 0 =>
              state[l].asg < lead[l].asg
<1>1. /\ state[l].gen \in Nat /\ state[l].asg \in Nat
      /\ ld.asg \in Nat /\ ld.asg = lead[l].asg /\ ld.owner = lead[l].owner
  BY DEF TypeOK, StateRow, Assigned, LeadRow
<1>2. CASE MatchesAssignment(state[l], ld)
  BY <1>1, <1>2 DEF EnsureState, MatchesAssignment
<1>3. CASE ~MatchesAssignment(state[l], ld)
  <2>1. /\ EnsureState(l, ld).asg = ld.asg /\ EnsureState(l, ld).owner = ld.owner
        /\ EnsureState(l, ld).gen = state[l].gen + 1
    BY <1>3 DEF EnsureState, EnrolledNew, EnrolledAwaiting
  <2>2. state[l].gen > 0 => state[l].asg <= lead[l].asg /\ state[l].asg # lead[l].asg
    BY <1>1, <1>3 DEF AssignmentInv, MatchesAssignment, Assigned
  <2>. QED BY <1>1, <1>3, <2>1, <2>2
<1>. QED BY <1>2, <1>3

\* The credits of a lead grow by the credited ones of its new events.
LEMMA CreditedTouched ==
  ASSUME TypeOK, NEW l \in Leads, NEW row, NEW new, Touches(l, row, new)
  PROVE  CreditedEvents(l)' = CreditedEvents(l) \cup {e \in new : e.source = "new"}
BY Touched DEF CreditedEvents

\* An event without a work source credits nothing.
LEMMA TouchedUncredited ==
  ASSUME TypeOK, NEW l \in Leads, NEW row, NEW s, NEW type, NEW key, NEW hash,
         Touches(l, row, {Event(s, type, key, "none", hash)})
  PROVE  state'[l] = row /\ CreditedEvents(l)' = CreditedEvents(l)
<1>1. Event(s, type, key, "none", hash).source = "none"
  BY DEF Event
<1>2. {e \in {Event(s, type, key, "none", hash)} : e.source = "new"} = {}
  BY <1>1
<1>3. CreditedEvents(l)' = CreditedEvents(l)
                \cup {e \in {Event(s, type, key, "none", hash)} : e.source = "new"}
  BY CreditedTouched
<1>. HIDE DEF CreditedEvents
<1>. QED BY <1>2, <1>3, Touched

\* Enrolment credits nothing.
LEMMA EnsureEventsUncredited ==
  ASSUME NEW l, NEW ld
  PROVE  {e \in EnsureEvents(l, ld) : e.source = "new"} = {}
BY DEF EnsureEvents, Event

\* A remark is credited when the counselor answers a lead that is New, or that
\* the remark itself enrols as New.
LEMMA RemarkCredits ==
  ASSUME TypeOK, NEW l \in Leads, NEW ld \in LeadRow, NEW u, NEW p \in Statuses \cup {NoStatus},
         NEW b \in BOOLEAN, NEW key, NEW hash
  PROVE  LET after == AfterRemark(EnsureState(l, ld), p, b)
             new == EnsureEvents(l, ld) \cup {RemarkEvent(l, ld, u, p, key, hash, after)}
         IN
         /\ after.queue = "none"
         /\ after.asg = EnsureState(l, ld).asg /\ after.owner = EnsureState(l, ld).owner
         /\ after.gen = EnsureState(l, ld).gen + 1
         /\ \A e \in {d \in new : d.source = "new"} :
              e.asg = after.asg /\ EnsureState(l, ld).queue = "new"
<1>. DEFINE after == AfterRemark(EnsureState(l, ld), p, b)
            new == EnsureEvents(l, ld) \cup {RemarkEvent(l, ld, u, p, key, hash, after)}
<1>1. EnsureState(l, ld) \in StateRow
  BY EnsureStateType
<1>2. /\ after.queue = "none"
      /\ after.asg = EnsureState(l, ld).asg /\ after.owner = EnsureState(l, ld).owner
      /\ after.gen = EnsureState(l, ld).gen + 1
  BY <1>1 DEF AfterRemark, Journey, Invalidated, StateRow
<1>3. ASSUME NEW e \in new, e.source = "new"
      PROVE  e.asg = after.asg /\ EnsureState(l, ld).queue = "new"
  <2>1. e = RemarkEvent(l, ld, u, p, key, hash, after)
    BY <1>3, EnsureEventsUncredited
  <2>2. e.source = (IF u = ld.owner THEN WorkSource(EnsureState(l, ld).queue) ELSE "none")
    BY <2>1 DEF RemarkEvent, Event
  <2>3. WorkSource(EnsureState(l, ld).queue) = "new"
    BY <1>3, <2>2
  <2>4. EnsureState(l, ld).queue \in Queues
    BY <1>1 DEF StateRow
  <2>5. EnsureState(l, ld).queue = "new"
    BY <2>3, <2>4 DEF WorkSource, Queues
  <2>. QED BY <2>1, <2>5 DEF RemarkEvent, Event
<1>. QED BY <1>2, <1>3

-----------------------------------------------------------------------------
(* The invariant is inductive. *)

\* A step of the row keeps the invariant of its lead.
LEMMA RowStepCredit ==
  ASSUME TypeOK, NEW l \in Leads, AssignmentInv(l), CreditInv(l), RowStep(l),
         SameAssignment(l), serial' = serial
  PROVE  AssignmentInv(l)' /\ CreditInv(l)'
<1>0. /\ state[l] \in StateRow /\ state[l].gen \in Nat /\ state[l].asg \in Nat
      /\ lead[l].asg \in Nat /\ serial \in Nat
      /\ lead'[l].asg = lead[l].asg /\ lead'[l].owner = lead[l].owner
  BY BoundAssumption DEF TypeOK, StateRow, LeadRow, SameAssignment
\* An enrolment or a remark puts the row in the current assignment.
<1>1. ASSUME state'[l].asg = lead[l].asg, state'[l].owner = lead[l].owner
      PROVE  AssignmentInv(l)'
  BY <1>0, <1>1 DEF AssignmentInv
\* Any other step leaves its assignment alone, and credits nothing.
<1>2. ASSUME state[l].gen > 0, state'[l].asg = state[l].asg, state'[l].owner = state[l].owner,
             state'[l].gen >= state[l].gen, state'[l].gen \in Nat,
             CreditedEvents(l)' = CreditedEvents(l),
             state[l].queue # "new" => state'[l].queue # "new"
      PROVE  AssignmentInv(l)' /\ CreditInv(l)'
  <2>1. AssignmentInv(l)'
    BY <1>0, <1>2 DEF AssignmentInv
  <2>2. CreditInv(l)'
    BY <1>0, <1>2 DEF CreditInv
  <2>. QED BY <2>1, <2>2
<1>3. CASE Enrolled(l)
  <2>1. PICK ld : Assigned(l, ld) /\ Touches(l, EnsureState(l, ld), EnsureEvents(l, ld))
    BY <1>3 DEF Enrolled
  <2>2. CreditedEvents(l)' = CreditedEvents(l)
    BY <2>1, CreditedTouched, EnsureEventsUncredited
  <2>3. state'[l] = EnsureState(l, ld)
    BY <2>1, Touched
  <2>. HIDE DEF CreditedEvents
  <2>4. CreditInv(l)'
    <3>1. CASE MatchesAssignment(state[l], ld)
      BY <2>1, <2>2, <2>3, <3>1, EnsureStateAssignment DEF CreditInv
    <3>2. CASE ~MatchesAssignment(state[l], ld)
      <4>1. ASSUME NEW e \in CreditedEvents(l)
            PROVE  e.asg \in Nat /\ e.asg <= lead[l].asg /\ e.asg # lead[l].asg
        BY <1>0, <2>1, <3>2, EnsureStateAssignment DEF CreditInv
      <4>. QED BY <2>1, <2>2, <2>3, <4>1, EnsureStateAssignment DEF CreditInv
    <3>. QED BY <3>1, <3>2
  <2>. QED BY <1>1, <2>1, <2>3, <2>4, EnsureStateAssignment
<1>4. CASE Worked(l)
  <2>1. PICK ld, u, key, hash : \E p \in Statuses \cup {NoStatus}, b \in BOOLEAN :
          LET after == AfterRemark(EnsureState(l, ld), p, b) IN
          /\ Assigned(l, ld)
          /\ Touches(l, after, EnsureEvents(l, ld)
                                 \cup {RemarkEvent(l, ld, u, p, key, hash, after)})
    BY <1>4 DEF Worked
  <2>2. PICK p \in Statuses \cup {NoStatus}, b \in BOOLEAN :
          LET after == AfterRemark(EnsureState(l, ld), p, b) IN
          /\ Assigned(l, ld)
          /\ Touches(l, after, EnsureEvents(l, ld)
                                 \cup {RemarkEvent(l, ld, u, p, key, hash, after)})
    BY <2>1
  <2>. DEFINE after == AfterRemark(EnsureState(l, ld), p, b)
              new == EnsureEvents(l, ld) \cup {RemarkEvent(l, ld, u, p, key, hash, after)}
  <2>3. Assigned(l, ld) /\ ld \in LeadRow /\ Touches(l, after, new)
    BY <2>2 DEF Assigned
  <2>4. /\ after.queue = "none"
        /\ after.asg = lead[l].asg /\ after.owner = lead[l].owner
        /\ after.gen \in Nat /\ after.gen > 0
        /\ \A e \in {d \in new : d.source = "new"} : e.asg = after.asg
    <3>1. /\ EnsureState(l, ld).asg = lead[l].asg /\ EnsureState(l, ld).owner = lead[l].owner
          /\ EnsureState(l, ld).gen \in Nat /\ EnsureState(l, ld).gen > 0
      BY <2>3, EnsureStateAssignment
    <3>2. /\ after.queue = "none"
          /\ after.asg = EnsureState(l, ld).asg /\ after.owner = EnsureState(l, ld).owner
          /\ after.gen = EnsureState(l, ld).gen + 1
          /\ \A e \in {d \in new : d.source = "new"} : e.asg = after.asg
      BY <2>3, RemarkCredits
    <3>. HIDE DEF after, new
    <3>. QED BY <3>1, <3>2
  <2>5. state'[l] = after /\ CreditedEvents(l)' = CreditedEvents(l) \cup {d \in new : d.source = "new"}
    BY <2>3, Touched, CreditedTouched
  <2>6. ASSUME NEW e \in CreditedEvents(l) PROVE e.asg \in Nat /\ e.asg <= lead[l].asg
    BY <1>0, <2>3, EnsureStateAssignment DEF CreditInv, MatchesAssignment, Assigned
  <2>. HIDE DEF after, new, CreditedEvents
  <2>7. CreditInv(l)'
    BY <1>0, <2>4, <2>5, <2>6 DEF CreditInv
  <2>. QED BY <1>1, <2>4, <2>5, <2>7
<1>5. CASE LegacyChanged(l)
  <2>1. PICK key : \E b \in BOOLEAN :
          LET after == Invalidated(state[l], b) IN
          state[l].gen > 0 /\ Touches(l, after, {Event(after, "legacy_changed", key, "none", <<>>)})
    BY <1>5 DEF LegacyChanged
  <2>2. PICK b \in BOOLEAN :
          LET after == Invalidated(state[l], b) IN
          state[l].gen > 0 /\ Touches(l, after, {Event(after, "legacy_changed", key, "none", <<>>)})
    BY <2>1
  <2>3. state'[l] = Invalidated(state[l], b) /\ CreditedEvents(l)' = CreditedEvents(l)
    BY <2>2, TouchedUncredited
  <2>. HIDE DEF CreditedEvents
  <2>. QED BY <1>0, <1>2, <2>2, <2>3 DEF Invalidated, StateRow
<1>6. CASE Scheduled(l)
  <2>1. PICK key : \E o, p \in Clock :
          LET after == [state[l] EXCEPT !.gen = @ + 1, !.oldAt = o, !.pendAt = p] IN
          state[l].gen > 0 /\ Touches(l, after, {Event(after, "scheduled", key, "none", <<>>)})
    BY <1>6 DEF Scheduled
  <2>2. PICK o \in Clock, p \in Clock :
          LET after == [state[l] EXCEPT !.gen = @ + 1, !.oldAt = o, !.pendAt = p] IN
          state[l].gen > 0 /\ Touches(l, after, {Event(after, "scheduled", key, "none", <<>>)})
    BY <2>1
  <2>3. /\ state'[l] = [state[l] EXCEPT !.gen = @ + 1, !.oldAt = o, !.pendAt = p]
        /\ CreditedEvents(l)' = CreditedEvents(l)
    BY <2>2, TouchedUncredited
  <2>. HIDE DEF CreditedEvents
  <2>. QED BY <1>0, <1>2, <2>2, <2>3 DEF StateRow
<1>7. CASE AgedBy(l)
  <2>1. PICK row \in DueRow :
          LET after == Aged(state[l], row.kind) IN
          /\ row.lead = l /\ Transitions(row)
          /\ Touches(l, after, {Event(after, "entered", DeadlineKey(row), "none", <<>>)})
    BY <1>7 DEF AgedBy
  <2>2. state[l].gen > 0
    BY <2>1 DEF Transitions, Actionable, MatchesAssignment
  <2>3. state'[l] = Aged(state[l], row.kind) /\ CreditedEvents(l)' = CreditedEvents(l)
    BY <2>1, TouchedUncredited
  <2>4. row.kind # "new"
    BY DEF DueRow
  <2>. HIDE DEF CreditedEvents
  <2>. QED BY <1>0, <1>2, <2>2, <2>3, <2>4 DEF Aged, StateRow
<1>. QED BY <1>3, <1>4, <1>5, <1>6, <1>7 DEF RowStep

\* While the row stays, the assignment only moves ahead of it.
LEMMA SameRowCredit ==
  ASSUME TypeOK, NEW l \in Leads, AssignmentInv(l), CreditInv(l),
         state'[l] = state[l], events'[l] = events[l],
         serial' \in {serial, serial + 1},
         SameAssignment(l) \/ NewAssignment(l) \/ NoAssignment(l)
  PROVE  AssignmentInv(l)' /\ CreditInv(l)'
<1>1. /\ state[l].asg \in Nat /\ lead[l].asg \in Nat /\ serial \in Nat
  BY BoundAssumption DEF TypeOK, StateRow, LeadRow
<1>2. AssignmentInv(l)'
  BY <1>1 DEF AssignmentInv, SameAssignment, NewAssignment, NoAssignment
<1>3. CreditInv(l)'
  BY DEF CreditInv, CreditedEvents
<1>. QED BY <1>2, <1>3

\* How far the row may lag behind the assignment, and what it was credited for.
THEOREM QueueInvariant == Spec => []QueueInv
<1>1. Init => QueueInv
  <2>. SUFFICES ASSUME Init, NEW l \in Leads PROVE AssignmentInv(l) /\ CreditInv(l)
    BY DEF QueueInv
  <2>1. AssignmentInv(l)
    BY DEF Init, AssignmentInv, NoRow
  <2>2. CreditInv(l)
    BY DEF Init, CreditInv, CreditedEvents
  <2>. QED BY <2>1, <2>2
<1>2. TypeOK /\ QueueInv /\ [Next]_vars => QueueInv'
  <2>. SUFFICES ASSUME TypeOK, QueueInv, [Next]_vars, NEW m \in Leads
                PROVE  AssignmentInv(m)' /\ CreditInv(m)'
    BY DEF QueueInv
  <2>0. AssignmentChange /\ RowChange /\ AssignmentInv(m) /\ CreditInv(m)
    BY AssignmentSteps, RowSteps DEF QueueInv
  <2>1. CASE UNCHANGED rowVars
    <3>1. state'[m] = state[m] /\ events'[m] = events[m] /\ serial' \in {serial, serial + 1}
      BY <2>0, <2>1 DEF AssignmentChange, rowVars
    <3>2. SameAssignment(m) \/ NewAssignment(m) \/ NoAssignment(m)
      BY <2>0 DEF AssignmentChange
    <3>. QED BY <2>0, <3>1, <3>2, SameRowCredit
  <2>2. CASE ~UNCHANGED rowVars
    <3>1. PICK l \in Leads : RowStep(l)
      BY <2>0, <2>2 DEF RowChange
    <3>2. serial' = serial /\ SameAssignment(m)
      BY <2>0, <2>2 DEF AssignmentChange
    <3>3. CASE m = l
      BY <2>0, <3>1, <3>2, <3>3, RowStepCredit
    <3>4. CASE m # l
      <4>1. state'[m] = state[m] /\ events'[m] = events[m]
        BY <3>1, <3>4, OtherRows
      <4>. QED BY <2>0, <3>2, <4>1, SameRowCredit
    <3>. QED BY <3>3, <3>4
  <2>. QED BY <2>1, <2>2
<1>. QED BY <1>1, <1>2, TypeCorrect, PTL DEF Spec

-----------------------------------------------------------------------------
(* A response to New is credited once. *)

CreditsOf(l) == {e.asg : e \in CreditedEvents(l)}

\* At most one credit is added, for an assignment that had none.
LEMMA NewCredit ==
  ASSUME TypeOK, NEW l \in Leads, AssignmentInv(l), CreditInv(l), RowStep(l)
  PROVE  \/ CreditedEvents(l)' = CreditedEvents(l)
         \/ \E e : /\ CreditedEvents(l)' = CreditedEvents(l) \cup {e}
                   /\ e.asg \notin CreditsOf(l)
<1>1. CASE Worked(l)
  <2>1. PICK ld, u, key, hash : \E p \in Statuses \cup {NoStatus}, b \in BOOLEAN :
          LET after == AfterRemark(EnsureState(l, ld), p, b) IN
          /\ Assigned(l, ld)
          /\ Touches(l, after, EnsureEvents(l, ld)
                                 \cup {RemarkEvent(l, ld, u, p, key, hash, after)})
    BY <1>1 DEF Worked
  <2>2. PICK p \in Statuses \cup {NoStatus}, b \in BOOLEAN :
          LET after == AfterRemark(EnsureState(l, ld), p, b) IN
          /\ Assigned(l, ld)
          /\ Touches(l, after, EnsureEvents(l, ld)
                                 \cup {RemarkEvent(l, ld, u, p, key, hash, after)})
    BY <2>1
  <2>. DEFINE after == AfterRemark(EnsureState(l, ld), p, b)
              event == RemarkEvent(l, ld, u, p, key, hash, after)
              fresh == {d \in EnsureEvents(l, ld) \cup {event} : d.source = "new"}
  <2>3. Assigned(l, ld) /\ ld \in LeadRow
        /\ Touches(l, after, EnsureEvents(l, ld) \cup {event})
    BY <2>2 DEF Assigned
  <2>4. CreditedEvents(l)' = CreditedEvents(l) \cup fresh
    BY <2>3, CreditedTouched
  <2>5. fresh \subseteq {event}
    BY EnsureEventsUncredited
  <2>6. /\ after.asg = EnsureState(l, ld).asg
        /\ \A e \in fresh : e.asg = after.asg /\ EnsureState(l, ld).queue = "new"
    BY <2>3, RemarkCredits
  <2>7. CASE fresh = {}
    BY <2>4, <2>7
  <2>8. CASE fresh # {}
    <3>1. fresh = {event}
      BY <2>5, <2>8
    <3>. HIDE DEF fresh, event, after
    <3>2. event.asg = EnsureState(l, ld).asg /\ EnsureState(l, ld).queue = "new"
      BY <2>6, <3>1
    <3>3. /\ EnsureState(l, ld).asg = lead[l].asg
          /\ MatchesAssignment(state[l], ld) => EnsureState(l, ld) = state[l]
          /\ ~MatchesAssignment(state[l], ld) /\ state[l].gen > 0 => state[l].asg < lead[l].asg
      BY <2>3, EnsureStateAssignment
    <3>4. MatchesAssignment(state[l], ld) => state[l].asg = lead[l].asg
      BY <2>3 DEF MatchesAssignment, Assigned
    <3>5. state[l].gen \in Nat /\ state[l].asg \in Nat /\ lead[l].asg \in Nat
      BY DEF TypeOK, StateRow, LeadRow
    <3>6. event.asg \notin CreditsOf(l)
      BY <3>2, <3>3, <3>4, <3>5 DEF CreditInv, CreditsOf
    <3>. QED BY <2>4, <3>1, <3>6
  <2>. QED BY <2>7, <2>8
<1>2. CASE Enrolled(l)
  BY <1>2, CreditedTouched, EnsureEventsUncredited DEF Enrolled
<1>3. CASE LegacyChanged(l) \/ Scheduled(l) \/ AgedBy(l)
  <2>1. PICK row, s, type, key : Touches(l, row, {Event(s, type, key, "none", <<>>)})
    BY <1>3, Zenon DEF LegacyChanged, Scheduled, AgedBy
  <2>. QED BY <2>1, TouchedUncredited
<1>. QED BY <1>1, <1>2, <1>3 DEF RowStep

\* In one assignment a counselor is credited with at most one response to New.
THEOREM NewWorkOnceHolds == Spec => []NewWorkOnce
<1>. DEFINE Once(l) == \A d, e \in CreditedEvents(l) : d.asg = e.asg => d = e
            Inv == \A l \in Leads : Once(l)
<1>1. Init => Inv
  BY DEF Init, CreditedEvents
<1>2. TypeOK /\ QueueInv /\ Inv /\ [Next]_vars => Inv'
  <2>. SUFFICES ASSUME TypeOK, QueueInv, Inv, [Next]_vars, NEW m \in Leads PROVE Once(m)'
    OBVIOUS
  <2>1. ASSUME state'[m] = state[m], events'[m] = events[m] PROVE Once(m)'
    BY <2>1 DEF CreditedEvents
  <2>2. ASSUME RowStep(m) PROVE Once(m)'
    <3>. HIDE DEF CreditedEvents
    <3>. QED BY <2>2, NewCredit DEF QueueInv, CreditsOf
  <2>3. CASE UNCHANGED rowVars
    BY <2>1, <2>3 DEF rowVars
  <2>4. ASSUME NEW l \in Leads, RowStep(l), m # l PROVE Once(m)'
    BY <2>1, <2>4, OtherRows
  <2>. QED BY <2>2, <2>3, <2>4, RowSteps DEF RowChange
<1>3. Inv => NewWorkOnce
  BY DEF NewWorkOnce, CreditedEvents
<1>. QED BY <1>1, <1>2, <1>3, TypeCorrect, QueueInvariant, PTL DEF Spec

-----------------------------------------------------------------------------
(* The refinement. *)

EpochOf(l) == IF state[l].gen = 0 THEN -1 ELSE state[l].asg

Phases == [l \in Leads |-> PhaseOf(state[l])]
EpochsOf == [l \in Leads |-> EpochOf(l)]
Credits == [l \in Leads |-> CreditsOf(l)]

\* The step of one row is the step of one lead of the abstract queue.
LEMMA AbstractUpdate ==
  ASSUME TypeOK, NEW l \in Leads, RowStep(l)
  PROVE  /\ Phases' = [Phases EXCEPT ![l] = PhaseOf(state'[l])]
         /\ EpochsOf' = [EpochsOf EXCEPT ![l] = EpochOf(l)']
         /\ Credits' = [Credits EXCEPT ![l] = CreditsOf(l)']
<1>1. ASSUME NEW m \in Leads, m # l
      PROVE  /\ PhaseOf(state'[m]) = PhaseOf(state[m]) /\ EpochOf(m)' = EpochOf(m)
             /\ CreditsOf(m)' = CreditsOf(m)
  <2>1. state'[m] = state[m] /\ events'[m] = events[m]
    BY <1>1, OtherRows
  <2>2. EpochOf(m)' = EpochOf(m)
    BY <2>1 DEF EpochOf
  <2>3. CreditsOf(m)' = CreditsOf(m)
    BY <2>1 DEF CreditsOf, CreditedEvents
  <2>. QED BY <2>1, <2>2, <2>3
<1>. QED BY <1>1, Zenon DEF Phases, EpochsOf, Credits

\* An enrolment as New opens the epoch.
LEMMA QueueOpen ==
  ASSUME TypeOK, NEW l \in Leads, RowStep(l), NEW e,
         e > EpochOf(l), PhaseOf(state'[l]) = "new", EpochOf(l)' = e,
         CreditsOf(l)' = CreditsOf(l)
  PROVE  Queue!Open(l, e)
<1>1. /\ Phases' = [Phases EXCEPT ![l] = "new"] /\ EpochsOf' = [EpochsOf EXCEPT ![l] = e]
      /\ Credits' = Credits /\ e > EpochsOf[l]
  BY AbstractUpdate DEF EpochsOf, Credits
<1>. QED BY <1>1, Zenon DEF Queue!Open, Phases, EpochsOf, Credits, EpochOf, CreditsOf, CreditedEvents

\* A credited remark is the response to New.
LEMMA QueueRespond ==
  ASSUME TypeOK, NEW l \in Leads, RowStep(l), NEW e, NEW p,
         \/ e = EpochOf(l) /\ PhaseOf(state[l]) = "new"
         \/ e > EpochOf(l),
         e \notin CreditsOf(l), PhaseOf(state'[l]) = p, EpochOf(l)' = e,
         CreditsOf(l)' = CreditsOf(l) \cup {e}
  PROVE  Queue!Respond(l, e, p)
<1>1. /\ Phases' = [Phases EXCEPT ![l] = p] /\ EpochsOf' = [EpochsOf EXCEPT ![l] = e]
      /\ Credits' = [Credits EXCEPT ![l] = @ \cup {e}]
      /\ (e = EpochsOf[l] /\ Phases[l] = "new") \/ e > EpochsOf[l]
      /\ e \notin Credits[l]
  BY AbstractUpdate DEF EpochsOf, Credits, Phases
<1>. QED BY <1>1, Zenon DEF Queue!Respond, Phases, EpochsOf, Credits, EpochOf, CreditsOf, CreditedEvents

\* Other work, an enrolment that awaits a remark, a lifecycle change.
LEMMA QueueContinue ==
  ASSUME TypeOK, NEW l \in Leads, RowStep(l), NEW e, NEW p,
         e >= EpochOf(l), PhaseOf(state'[l]) = p, EpochOf(l)' = e,
         CreditsOf(l)' = CreditsOf(l)
  PROVE  Queue!Continue(l, e, p)
<1>1. /\ Phases' = [Phases EXCEPT ![l] = p] /\ EpochsOf' = [EpochsOf EXCEPT ![l] = e]
      /\ Credits' = Credits /\ e >= EpochsOf[l]
  BY AbstractUpdate DEF EpochsOf, Credits
<1>. QED BY <1>1, Zenon DEF Queue!Continue, Phases, EpochsOf, Credits, EpochOf, CreditsOf, CreditedEvents

\* A deadline that fires.
LEMMA QueueAge ==
  ASSUME TypeOK, NEW l \in Leads, RowStep(l),
         \/ PhaseOf(state[l]) = "journey" /\ PhaseOf(state'[l]) = "old"
         \/ PhaseOf(state[l]) \in {"new", "journey", "old"} /\ PhaseOf(state'[l]) = "pending",
         EpochOf(l)' = EpochOf(l), CreditsOf(l)' = CreditsOf(l)
  PROVE  Queue!Age(l)
<1>1. /\ EpochsOf' = EpochsOf /\ Credits' = Credits
      /\ \/ Phases[l] = "journey" /\ Phases' = [Phases EXCEPT ![l] = "old"]
         \/ /\ Phases[l] \in {"new", "journey", "old"}
            /\ Phases' = [Phases EXCEPT ![l] = "pending"]
  BY AbstractUpdate DEF EpochsOf, Credits, Phases
<1>. QED BY <1>1, Zenon DEF Queue!Age, Phases, EpochsOf, Credits, EpochOf, CreditsOf, CreditedEvents

\* A step that moves the lead to no other phase or epoch.
LEMMA QueueStutter ==
  ASSUME TypeOK, NEW l \in Leads, RowStep(l), PhaseOf(state'[l]) = PhaseOf(state[l]),
         EpochOf(l)' = EpochOf(l), CreditsOf(l)' = CreditsOf(l)
  PROVE  UNCHANGED Queue!vars
<1>1. Phases' = Phases /\ EpochsOf' = EpochsOf /\ Credits' = Credits
  BY AbstractUpdate DEF EpochsOf, Credits, Phases
<1>. QED BY <1>1, Zenon DEF Queue!vars, Phases, EpochsOf, Credits, EpochOf, CreditsOf, CreditedEvents

\* A step of a row is a step of the abstract queue, or leaves it unchanged.
LEMMA QueueStep ==
  ASSUME TypeOK, QueueInv, NEW l \in Leads, RowStep(l)
  PROVE  Queue!Next \/ UNCHANGED Queue!vars
<1>0. /\ state[l] \in StateRow /\ state[l].gen \in Nat /\ state[l].asg \in Nat
      /\ lead[l].asg \in 0..MaxAssignments /\ state[l].asg \in 0..MaxAssignments
      /\ AssignmentInv(l) /\ CreditInv(l)
  BY BoundAssumption DEF TypeOK, StateRow, LeadRow, QueueInv, AssignmentInv
<1>. PICK asg \in 0..MaxAssignments : asg = lead[l].asg
  BY <1>0
<1>1. ASSUME NEW e \in 0..MaxAssignments, NEW p \in Queue!Settled,
             Queue!Open(l, e) \/ Queue!Respond(l, e, p) \/ Queue!Continue(l, e, p) \/ Queue!Age(l)
      PROVE  Queue!Next
  BY <1>1 DEF Queue!Next
<1>2. CASE Enrolled(l)
  <2>1. PICK ld : Assigned(l, ld) /\ Touches(l, EnsureState(l, ld), EnsureEvents(l, ld))
    BY <1>2 DEF Enrolled
  <2>2. state'[l] = EnsureState(l, ld) /\ CreditsOf(l)' = CreditsOf(l)
    <3>1. CreditedEvents(l)' = CreditedEvents(l)
      BY <2>1, CreditedTouched, EnsureEventsUncredited
    <3>2. CreditsOf(l)' = CreditsOf(l)
      BY <3>1 DEF CreditsOf
    <3>. QED BY <2>1, <3>2, Touched
  <2>3. CASE MatchesAssignment(state[l], ld)
    <3>1. state'[l] = state[l]
      BY <1>0, <2>1, <2>2, <2>3, EnsureStateAssignment
    <3>2. EpochOf(l)' = EpochOf(l)
      BY <3>1 DEF EpochOf
    <3>. QED BY <2>2, <3>1, <3>2, QueueStutter
  <2>4. CASE ~MatchesAssignment(state[l], ld)
    <3>1. /\ state'[l].gen > 0 /\ state'[l].gen \in Nat /\ state'[l].asg = asg
          /\ state[l].gen > 0 => state[l].asg < asg
      BY <1>0, <2>1, <2>2, <2>4, EnsureStateAssignment
    <3>2. EpochOf(l)' = asg /\ asg > EpochOf(l)
      BY <1>0, <3>1 DEF EpochOf
    <3>3. state'[l] = EnrolledNew(l, ld) \/ state'[l] = EnrolledAwaiting(l, ld)
      BY <2>2, <2>4 DEF EnsureState
    <3>4. CASE state'[l] = EnrolledNew(l, ld)
      <4>1. PhaseOf(state'[l]) = "new"
        BY <3>1, <3>4 DEF PhaseOf, EnrolledNew
      <4>2. Queue!Open(l, asg)
        BY <2>2, <3>2, <4>1, QueueOpen
      <4>. QED BY <1>0, <1>1, <4>2 DEF Queue!Settled
    <3>5. CASE state'[l] = EnrolledAwaiting(l, ld)
      <4>1. PhaseOf(state'[l]) = "awaiting"
        BY <3>1, <3>5 DEF PhaseOf, EnrolledAwaiting
      <4>2. asg >= EpochOf(l)
        BY <1>0, <3>2 DEF EpochOf
      <4>3. Queue!Continue(l, asg, "awaiting")
        BY <2>2, <3>2, <4>1, <4>2, QueueContinue
      <4>. QED BY <1>0, <1>1, <4>3 DEF Queue!Settled
    <3>. QED BY <3>3, <3>4, <3>5
  <2>. QED BY <2>3, <2>4
<1>3. CASE LegacyChanged(l)
  <2>1. PICK key : \E b \in BOOLEAN :
          LET after == Invalidated(state[l], b) IN
          state[l].gen > 0 /\ Touches(l, after, {Event(after, "legacy_changed", key, "none", <<>>)})
    BY <1>3 DEF LegacyChanged
  <2>2. PICK b \in BOOLEAN :
          LET after == Invalidated(state[l], b) IN
          state[l].gen > 0 /\ Touches(l, after, {Event(after, "legacy_changed", key, "none", <<>>)})
    BY <2>1
  <2>3. state'[l] = Invalidated(state[l], b) /\ CreditedEvents(l)' = CreditedEvents(l)
    BY <2>2, TouchedUncredited
  <2>4. /\ state'[l].gen = state[l].gen + 1 /\ state'[l].asg = state[l].asg
        /\ state'[l].queue = "none" /\ state'[l].awaiting
    BY <1>0, <2>3 DEF Invalidated, StateRow
  <2>5. PhaseOf(state'[l]) = "awaiting"
    BY <1>0, <2>4 DEF PhaseOf
  <2>6. EpochOf(l)' = state[l].asg /\ state[l].asg >= EpochOf(l)
    BY <1>0, <2>2, <2>4 DEF EpochOf
  <2>7. CreditsOf(l)' = CreditsOf(l)
    BY <2>3 DEF CreditsOf
  <2>8. Queue!Continue(l, state[l].asg, "awaiting")
    BY <2>5, <2>6, <2>7, QueueContinue
  <2>. QED BY <1>0, <1>1, <2>8 DEF Queue!Settled
<1>4. CASE Scheduled(l)
  <2>1. PICK key : \E o, p \in Clock :
          LET after == [state[l] EXCEPT !.gen = @ + 1, !.oldAt = o, !.pendAt = p] IN
          state[l].gen > 0 /\ Touches(l, after, {Event(after, "scheduled", key, "none", <<>>)})
    BY <1>4 DEF Scheduled
  <2>2. PICK o \in Clock, p \in Clock :
          LET after == [state[l] EXCEPT !.gen = @ + 1, !.oldAt = o, !.pendAt = p] IN
          state[l].gen > 0 /\ Touches(l, after, {Event(after, "scheduled", key, "none", <<>>)})
    BY <2>1
  <2>3. /\ state'[l] = [state[l] EXCEPT !.gen = @ + 1, !.oldAt = o, !.pendAt = p]
        /\ CreditedEvents(l)' = CreditedEvents(l)
    BY <2>2, TouchedUncredited
  <2>4. /\ state'[l].gen = state[l].gen + 1 /\ state'[l].asg = state[l].asg
        /\ state'[l].queue = state[l].queue /\ state'[l].awaiting = state[l].awaiting
        /\ state'[l].primary = state[l].primary
    BY <1>0, <2>3 DEF StateRow
  <2>5. PhaseOf(state'[l]) = PhaseOf(state[l]) /\ EpochOf(l)' = EpochOf(l)
    BY <1>0, <2>2, <2>4 DEF PhaseOf, EpochOf
  <2>6. CreditsOf(l)' = CreditsOf(l)
    BY <2>3 DEF CreditsOf
  <2>. QED BY <2>5, <2>6, QueueStutter
<1>5. CASE AgedBy(l)
  <2>1. PICK row \in DueRow :
          LET after == Aged(state[l], row.kind) IN
          /\ row.lead = l /\ Transitions(row)
          /\ Touches(l, after, {Event(after, "entered", DeadlineKey(row), "none", <<>>)})
    BY <1>5 DEF AgedBy
  <2>2. /\ state[l].gen > 0 /\ ~state[l].awaiting /\ state[l].primary \notin Terminal
        /\ row.kind = "old" => state[l].queue = "none"
        /\ row.kind \in {"old", "pending"}
    BY <2>1 DEF Transitions, Actionable, MatchesAssignment, DueRow
  <2>3. state'[l] = Aged(state[l], row.kind) /\ CreditedEvents(l)' = CreditedEvents(l)
    BY <2>1, TouchedUncredited
  <2>4. /\ state'[l].gen = state[l].gen /\ state'[l].asg = state[l].asg
        /\ state'[l].queue = row.kind
    BY <1>0, <2>3 DEF Aged, StateRow
  <2>5. EpochOf(l)' = EpochOf(l)
    BY <2>4 DEF EpochOf
  <2>6. CreditsOf(l)' = CreditsOf(l)
    BY <2>3 DEF CreditsOf
  <2>7. PhaseOf(state'[l]) = row.kind
    BY <2>2, <2>4 DEF PhaseOf
  <2>8. PhaseOf(state[l]) = (IF state[l].queue = "none" THEN "journey" ELSE state[l].queue)
    BY <2>2 DEF PhaseOf
  <2>9. state[l].queue \in {"none", "new", "old", "pending"}
    BY <1>0 DEF StateRow, Queues
  <2>10. CASE state[l].queue = "pending" /\ row.kind = "pending"
    BY <2>5, <2>6, <2>7, <2>8, <2>10, QueueStutter
  <2>11. CASE ~(state[l].queue = "pending" /\ row.kind = "pending")
    <3>1. Queue!Age(l)
      BY <2>2, <2>5, <2>6, <2>7, <2>8, <2>9, <2>11, QueueAge
    <3>. QED BY <1>0, <1>1, <3>1 DEF Queue!Settled
  <2>. QED BY <2>10, <2>11
<1>6. CASE Worked(l)
  <2>1. PICK ld, u, key, hash : \E p \in Statuses \cup {NoStatus}, b \in BOOLEAN :
          LET after == AfterRemark(EnsureState(l, ld), p, b) IN
          /\ Assigned(l, ld)
          /\ Touches(l, after, EnsureEvents(l, ld)
                                 \cup {RemarkEvent(l, ld, u, p, key, hash, after)})
    BY <1>6 DEF Worked
  <2>2. PICK p \in Statuses \cup {NoStatus}, b \in BOOLEAN :
          LET after == AfterRemark(EnsureState(l, ld), p, b) IN
          /\ Assigned(l, ld)
          /\ Touches(l, after, EnsureEvents(l, ld)
                                 \cup {RemarkEvent(l, ld, u, p, key, hash, after)})
    BY <2>1
  <2>. DEFINE after == AfterRemark(EnsureState(l, ld), p, b)
              new == EnsureEvents(l, ld) \cup {RemarkEvent(l, ld, u, p, key, hash, after)}
              fresh == {d \in new : d.source = "new"}
  <2>3. Assigned(l, ld) /\ ld \in LeadRow /\ Touches(l, after, new)
    BY <2>2 DEF Assigned
  <2>4. state'[l] = after /\ CreditedEvents(l)' = CreditedEvents(l) \cup fresh
    BY <2>3, Touched, CreditedTouched
  <2>5. /\ after.queue = "none" /\ after.asg = EnsureState(l, ld).asg
        /\ after.gen = EnsureState(l, ld).gen + 1
        /\ \A e \in fresh : e.asg = after.asg /\ EnsureState(l, ld).queue = "new"
    BY <2>3, RemarkCredits
  <2>6. /\ EnsureState(l, ld).asg = asg
        /\ EnsureState(l, ld).gen \in Nat /\ EnsureState(l, ld).gen > 0
        /\ MatchesAssignment(state[l], ld) => EnsureState(l, ld) = state[l]
        /\ ~MatchesAssignment(state[l], ld) /\ state[l].gen > 0 => state[l].asg < asg
    BY <1>0, <2>3, EnsureStateAssignment
  <2>7. MatchesAssignment(state[l], ld) => state[l].gen > 0 /\ state[l].asg = asg
    BY <2>3 DEF MatchesAssignment, Assigned
  <2>. HIDE DEF after, new, fresh
  <2>8. PICK phase \in Queue!Settled : phase = PhaseOf(state'[l])
    BY <2>4, <2>5, <2>6 DEF PhaseOf, Queue!Settled
  <2>9. EpochOf(l)' = asg /\ asg >= EpochOf(l)
    BY <1>0, <2>4, <2>5, <2>6, <2>7 DEF EpochOf
  <2>10. CASE fresh = {}
    <3>1. CreditsOf(l)' = CreditsOf(l)
      BY <2>4, <2>10 DEF CreditsOf
    <3>2. Queue!Continue(l, asg, phase)
      BY <2>8, <2>9, <3>1, QueueContinue
    <3>. QED BY <1>1, <3>2
  <2>11. CASE fresh # {}
    <3>1. EnsureState(l, ld).queue = "new" /\ \A e \in fresh : e.asg = asg
      BY <2>5, <2>6, <2>11
    <3>2. CreditsOf(l)' = CreditsOf(l) \cup {asg}
      BY <2>4, <2>11, <3>1 DEF CreditsOf
    <3>3. asg \notin CreditsOf(l)
      BY <1>0, <2>6, <2>7, <3>1 DEF CreditInv, CreditsOf
    <3>4. (asg = EpochOf(l) /\ PhaseOf(state[l]) = "new") \/ asg > EpochOf(l)
      BY <1>0, <2>6, <2>7, <3>1 DEF EpochOf, PhaseOf
    <3>5. Queue!Respond(l, asg, phase)
      BY <2>8, <2>9, <3>2, <3>3, <3>4, QueueRespond
    <3>. QED BY <1>1, <3>5
  <2>. QED BY <2>10, <2>11
<1>. QED BY <1>2, <1>6, <1>3, <1>4, <1>5 DEF RowStep

\* The workflow implements the abstract queue of LeadQueue.
THEOREM QueueImplements == Spec => QueueSpec
<1>1. Init => Queue!Init
  <2>. SUFFICES ASSUME Init PROVE Queue!Init
    OBVIOUS
  <2>1. \A l \in Leads : /\ PhaseOf(state[l]) = "none" /\ state[l].gen = 0
                         /\ {e.asg : e \in {d \in events[l] : d.source = "new"}} = {}
    BY DEF Init, NoRow, PhaseOf
  <2>. QED BY <2>1 DEF Queue!Init
<1>2. TypeOK /\ QueueInv /\ [Next]_vars => [Queue!Next]_(Queue!vars)
  <2>. SUFFICES ASSUME TypeOK, QueueInv, [Next]_vars
                PROVE  Queue!Next \/ UNCHANGED Queue!vars
    OBVIOUS
  <2>1. CASE UNCHANGED rowVars
    BY <2>1 DEF rowVars, Queue!vars, PhaseOf
  <2>2. CASE \E l \in Leads : RowStep(l)
    BY <2>2, QueueStep
  <2>. QED BY <2>1, <2>2, RowSteps DEF RowChange
<1>. QED BY <1>1, <1>2, TypeCorrect, QueueInvariant, PTL DEF Spec, QueueSpec, Queue!Spec
-----------------------------------------------------------------------------
(* The events of a lead: their keys, and the remarks they stand for.         *)

GenerationKinds == {"assignment", "schedule", "deadline"}

\* A key that carries a generation carries one the row has reached, and the
\* deadline it names in the current generation is gone from the row.
KeyInv(l) ==
  /\ \A d, e \in events[l] : d.key = e.key => d = e
  /\ \A e \in events[l] : e.key[1] \in GenerationKinds =>
       e.key[2] \in Nat /\ e.key[2] <= state[l].gen
  /\ \A e \in events[l] : e.key[1] = "deadline" /\ e.key[2] = state[l].gen =>
       /\ state[l].oldAt = NoTime
       /\ e.key[3] = "pending" => state[l].pendAt = NoTime

\* Events that are added under new keys keep the invariant.
LEMMA KeysAdded ==
  ASSUME NEW l \in Leads, KeyInv(l), NEW new, events'[l] = events[l] \cup new,
         state[l].gen \in Nat, state'[l].gen \in Nat, state'[l].gen >= state[l].gen,
         \A d, e \in new : d.key = e.key => d = e,
         \A e \in new : e.key \notin KeysOf(l),
         \A e \in new : e.key[1] \in GenerationKinds =>
           e.key[2] \in Nat /\ e.key[2] <= state'[l].gen,
         \A e \in new : e.key[1] = "deadline" /\ e.key[2] = state'[l].gen =>
           /\ state'[l].oldAt = NoTime
           /\ e.key[3] = "pending" => state'[l].pendAt = NoTime,
         state'[l].gen = state[l].gen =>
           /\ state[l].oldAt = NoTime => state'[l].oldAt = NoTime
           /\ state[l].pendAt = NoTime => state'[l].pendAt = NoTime
  PROVE  KeyInv(l)'
<1>1. \A d, e \in events'[l] : d.key = e.key => d = e
  BY DEF KeyInv, KeysOf
<1>2. \A e \in events'[l] : e.key[1] \in GenerationKinds =>
        e.key[2] \in Nat /\ e.key[2] <= state'[l].gen
  BY DEF KeyInv
<1>3. \A e \in events'[l] : e.key[1] = "deadline" /\ e.key[2] = state'[l].gen =>
        /\ state'[l].oldAt = NoTime
        /\ e.key[3] = "pending" => state'[l].pendAt = NoTime
  <2>1. "deadline" \in GenerationKinds
    BY DEF GenerationKinds
  <2>. QED BY <2>1 DEF KeyInv
<1>. QED BY <1>1, <1>2, <1>3 DEF KeyInv

\* A key of a generation still to come is free.
LEMMA LaterKeyIsFree ==
  ASSUME NEW l \in Leads, KeyInv(l), state[l].gen \in Nat,
         NEW key, key[1] \in GenerationKinds, key[2] \in Nat, key[2] > state[l].gen
  PROVE  key \notin KeysOf(l)
BY DEF KeyInv, KeysOf

\* The event of an enrolment, if there is one, has a free key.
LEMMA EnrolmentKeys ==
  ASSUME TypeOK, NEW l \in Leads, KeyInv(l), NEW ld
  PROVE  /\ \A e \in EnsureEvents(l, ld) :
              /\ e.key \notin KeysOf(l) /\ e.key[1] = "assignment"
              /\ e.key[2] = EnsureState(l, ld).gen
         /\ \A d, e \in EnsureEvents(l, ld) : d = e
         /\ EnsureState(l, ld).gen \in {state[l].gen, state[l].gen + 1}
         /\ MatchesAssignment(state[l], ld) => EnsureEvents(l, ld) = {}
<1>0. state[l].gen \in Nat
  BY DEF TypeOK, StateRow
<1>1. CASE MatchesAssignment(state[l], ld)
  BY <1>0, <1>1 DEF EnsureEvents, EnsureState
<1>2. CASE ~MatchesAssignment(state[l], ld)
  <2>. DEFINE key == <<"assignment", EnsureState(l, ld).gen, history[l].id>>
  <2>1. EnsureState(l, ld).gen = state[l].gen + 1
    BY <1>2 DEF EnsureState, EnrolledNew, EnrolledAwaiting
  <2>2. key[1] = "assignment" /\ key[2] = EnsureState(l, ld).gen
    OBVIOUS
  <2>3. EnsureEvents(l, ld) = {Event(EnsureState(l, ld), "assigned", key, "none", <<>>)}
    BY <1>2 DEF EnsureEvents
  <2>. HIDE DEF key
  <2>4. key \notin KeysOf(l)
    BY <1>0, <2>1, <2>2, LaterKeyIsFree DEF GenerationKinds
  <2>5. \A e \in EnsureEvents(l, ld) : e.key = key
    BY <2>3 DEF Event
  <2>. QED BY <1>2, <2>1, <2>2, <2>3, <2>4, <2>5
<1>. QED BY <1>1, <1>2

\* An event with one free key, of the generation the row has reached.
LEMMA OneKeyAdded ==
  ASSUME TypeOK, NEW l \in Leads, KeyInv(l), NEW row, NEW s, NEW type, NEW key, NEW source,
         NEW hash, Touches(l, row, {Event(s, type, key, source, hash)}),
         key \notin KeysOf(l), row.gen \in Nat, row.gen >= state[l].gen,
         key[1] \in GenerationKinds => key[2] = row.gen,
         key[1] = "deadline" => /\ row.oldAt = NoTime
                                /\ key[3] = "pending" => row.pendAt = NoTime,
         row.gen = state[l].gen =>
           /\ state[l].oldAt = NoTime => row.oldAt = NoTime
           /\ state[l].pendAt = NoTime => row.pendAt = NoTime
  PROVE  KeyInv(l)'
<1>. DEFINE new == {Event(s, type, key, source, hash)}
<1>1. \A e \in new : e.key = key
  BY DEF Event
<1>2. \A d, e \in new : d = e
  OBVIOUS
<1>3. state'[l] = row /\ events'[l] = events[l] \cup new
  BY Touched
<1>4. state[l].gen \in Nat
  BY DEF TypeOK, StateRow
<1>. HIDE DEF new
<1>. QED BY <1>1, <1>2, <1>3, <1>4, KeysAdded

\* Every change of a row keeps the keys of its events apart.
LEMMA RowStepKeys ==
  ASSUME TypeOK, NEW l \in Leads, KeyInv(l), RowStep(l)
  PROVE  KeyInv(l)'
<1>0. state[l] \in StateRow /\ state[l].gen \in Nat
  BY DEF TypeOK, StateRow
<1>1. CASE Enrolled(l)
  <2>1. PICK ld : Touches(l, EnsureState(l, ld), EnsureEvents(l, ld))
    BY <1>1 DEF Enrolled
  <2>2. state'[l] = EnsureState(l, ld) /\ events'[l] = events[l] \cup EnsureEvents(l, ld)
    BY <2>1, Touched
  <2>3. state'[l] = state[l] \/ state'[l].gen = state[l].gen + 1
    BY <2>2 DEF EnsureState, EnrolledNew, EnrolledAwaiting
  <2>4. \A e \in EnsureEvents(l, ld) :
          e.key \notin KeysOf(l) /\ e.key[1] = "assignment" /\ e.key[2] = state'[l].gen
    BY <2>2, EnrolmentKeys
  <2>5. \A d, e \in EnsureEvents(l, ld) : d = e
    BY EnrolmentKeys
  <2>. QED BY <1>0, <2>2, <2>3, <2>4, <2>5, KeysAdded
<1>2. CASE Worked(l)
  <2>1. PICK ld, u, key, hash : \E p \in Statuses \cup {NoStatus}, b \in BOOLEAN :
          LET after == AfterRemark(EnsureState(l, ld), p, b) IN
          /\ Assigned(l, ld) /\ FreshKey(l, key)
          /\ Touches(l, after, EnsureEvents(l, ld)
                                 \cup {RemarkEvent(l, ld, u, p, key, hash, after)})
    BY <1>2 DEF Worked
  <2>2. PICK p \in Statuses \cup {NoStatus}, b \in BOOLEAN :
          LET after == AfterRemark(EnsureState(l, ld), p, b) IN
          /\ Assigned(l, ld) /\ FreshKey(l, key)
          /\ Touches(l, after, EnsureEvents(l, ld)
                                 \cup {RemarkEvent(l, ld, u, p, key, hash, after)})
    BY <2>1
  <2>. DEFINE after == AfterRemark(EnsureState(l, ld), p, b)
              remark == RemarkEvent(l, ld, u, p, key, hash, after)
              new == EnsureEvents(l, ld) \cup {remark}
  <2>3. remark.key = key
    BY DEF RemarkEvent, Event
  <2>4. key \notin KeysOf(l) /\ key[1] \in WorkKinds
    BY <2>2 DEF FreshKey
  <2>5. "assignment" \notin WorkKinds /\ WorkKinds \cap GenerationKinds = {}
        /\ "deadline" \in GenerationKinds
    BY DEF WorkKinds, GenerationKinds
  <2>6. after.gen = EnsureState(l, ld).gen + 1
    BY <2>2, RemarkCredits DEF Assigned
  <2>7. state'[l] = after /\ events'[l] = events[l] \cup new
    BY <2>2, Touched
  <2>. HIDE DEF after, remark
  <2>8. state'[l].gen \in Nat /\ state'[l].gen > state[l].gen
        /\ EnsureState(l, ld).gen \in Nat /\ EnsureState(l, ld).gen <= state'[l].gen
    BY <1>0, <2>6, <2>7, EnrolmentKeys
  <2>9. \A e \in new : \/ e = remark
                       \/ /\ e.key \notin KeysOf(l) /\ e.key[1] = "assignment"
                          /\ e.key[2] = EnsureState(l, ld).gen
    BY EnrolmentKeys
  <2>10. \A d, e \in new : d.key = e.key => d = e
    <3>1. \A d, e \in EnsureEvents(l, ld) : d = e
      BY EnrolmentKeys
    <3>2. \A e \in EnsureEvents(l, ld) : e.key # key
      BY <2>4, <2>5, EnrolmentKeys
    <3>. QED BY <2>3, <3>1, <3>2
  <2>11. \A e \in new : e.key \notin KeysOf(l)
    BY <2>3, <2>4, <2>9
  <2>12. \A e \in new : e.key[1] \in GenerationKinds =>
           e.key[2] \in Nat /\ e.key[2] <= state'[l].gen
    BY <2>3, <2>4, <2>5, <2>8, <2>9
  <2>13. \A e \in new : e.key[1] # "deadline"
    BY <2>3, <2>4, <2>5, <2>9
  <2>. HIDE DEF new
  <2>. QED BY <1>0, <2>7, <2>8, <2>10, <2>11, <2>12, <2>13, KeysAdded
<1>3. CASE LegacyChanged(l)
  <2>0. PICK key : \E b \in BOOLEAN :
          LET after == Invalidated(state[l], b) IN
          /\ key \notin KeysOf(l) /\ key[1] \in {"legacy", "meeting"}
          /\ Touches(l, after, {Event(after, "legacy_changed", key, "none", <<>>)})
    BY <1>3 DEF LegacyChanged
  <2>1. PICK b \in BOOLEAN :
          LET after == Invalidated(state[l], b) IN
          /\ key \notin KeysOf(l) /\ key[1] \in {"legacy", "meeting"}
          /\ Touches(l, after, {Event(after, "legacy_changed", key, "none", <<>>)})
    BY <2>0
  <2>. DEFINE after == Invalidated(state[l], b)
  <2>2. after.gen = state[l].gen + 1
    BY <1>0 DEF Invalidated, StateRow
  <2>3. Touches(l, after, {Event(after, "legacy_changed", key, "none", <<>>)})
    BY <2>1
  <2>. HIDE DEF after
  <2>4. key \notin KeysOf(l) /\ key[1] \notin GenerationKinds /\ key[1] # "deadline"
    BY <2>1 DEF GenerationKinds
  <2>. QED BY <1>0, <2>2, <2>3, <2>4, OneKeyAdded
<1>4. CASE Scheduled(l)
  <2>0. PICK key : \E o, p \in Clock :
          LET after == [state[l] EXCEPT !.gen = @ + 1, !.oldAt = o, !.pendAt = p] IN
          /\ key = <<"schedule", after.gen, 0>>
          /\ Touches(l, after, {Event(after, "scheduled", key, "none", <<>>)})
    BY <1>4 DEF Scheduled
  <2>1. PICK o \in Clock, p \in Clock :
          LET after == [state[l] EXCEPT !.gen = @ + 1, !.oldAt = o, !.pendAt = p] IN
          /\ key = <<"schedule", after.gen, 0>>
          /\ Touches(l, after, {Event(after, "scheduled", key, "none", <<>>)})
    BY <2>0
  <2>. DEFINE after == [state[l] EXCEPT !.gen = @ + 1, !.oldAt = o, !.pendAt = p]
  <2>2. after.gen = state[l].gen + 1
    BY <1>0 DEF StateRow
  <2>3. key[1] = "schedule" /\ key[2] = after.gen
        /\ Touches(l, after, {Event(after, "scheduled", key, "none", <<>>)})
    BY <2>1
  <2>. HIDE DEF after
  <2>4. key \notin KeysOf(l)
    BY <1>0, <2>2, <2>3, LaterKeyIsFree DEF GenerationKinds
  <2>. QED BY <1>0, <2>2, <2>3, <2>4, OneKeyAdded
<1>5. CASE AgedBy(l)
  <2>1. PICK row \in DueRow :
          LET after == Aged(state[l], row.kind) IN
          /\ row.lead = l /\ Transitions(row)
          /\ Touches(l, after, {Event(after, "entered", DeadlineKey(row), "none", <<>>)})
    BY <1>5 DEF AgedBy
  <2>. DEFINE after == Aged(state[l], row.kind)
              key == DeadlineKey(row)
  <2>2. key \notin KeysOf(l) /\ row.gen = state[l].gen
    BY <2>1 DEF Transitions, Actionable
  <2>3. key[2] = row.gen /\ key[3] = row.kind
    BY DEF DeadlineKey
  <2>4. /\ after.gen = state[l].gen /\ after.oldAt = NoTime
        /\ row.kind = "pending" => after.pendAt = NoTime
        /\ state[l].pendAt = NoTime => after.pendAt = NoTime
    BY <1>0 DEF Aged, StateRow
  <2>5. Touches(l, after, {Event(after, "entered", key, "none", <<>>)})
    BY <2>1
  <2>. HIDE DEF after, key
  <2>. QED BY <1>0, <2>2, <2>3, <2>4, <2>5, OneKeyAdded
<1>. QED BY <1>1, <1>2, <1>3, <1>4, <1>5 DEF RowStep

\* The key invariant holds in every reachable state ...
LEMMA KeyInvariant == Spec => [](\A l \in Leads : KeyInv(l))
<1>. DEFINE Inv == \A l \in Leads : KeyInv(l)
<1>1. Init => Inv
  BY DEF Init, KeyInv
<1>2. TypeOK /\ Inv /\ [Next]_vars => Inv'
  <2>. SUFFICES ASSUME TypeOK, Inv, [Next]_vars, NEW m \in Leads PROVE KeyInv(m)'
    OBVIOUS
  <2>1. ASSUME state'[m] = state[m], events'[m] = events[m] PROVE KeyInv(m)'
    BY <2>1 DEF KeyInv
  <2>2. CASE UNCHANGED rowVars
    BY <2>1, <2>2 DEF rowVars
  <2>3. CASE RowStep(m)
    BY <2>3, RowStepKeys
  <2>4. ASSUME NEW l \in Leads, RowStep(l), m # l PROVE KeyInv(m)'
    BY <2>1, <2>4, OtherRows
  <2>. QED BY <2>2, <2>3, <2>4, RowSteps DEF RowChange
<1>. QED BY <1>1, <1>2, TypeCorrect, PTL DEF Spec

\* ... so no insert of an event ever collides with UNIQUE (lead_id,
\* idempotency_key): no two events of a lead share a key.
THEOREM KeysUniqueHolds == Spec => []KeysUnique
<1>1. (\A l \in Leads : KeyInv(l)) => KeysUnique
  BY DEF KeyInv, KeysUnique
<1>. QED BY <1>1, KeyInvariant, PTL

-----------------------------------------------------------------------------
(* What the clients were answered. *)

\* A request names a generation its lead had; a saved one left its event, a
\* conflicting one was made for a generation gone by or for another's key.
ReplyInv ==
  /\ \A q \in requests : q.expected <= state[q.lead].gen
  /\ \A r \in replies :
       /\ r.request \in requests
       /\ r.result = "saved" =>
            \E e \in Prior(r.request) : e.hash = RequestHash(r.request)
       /\ r.result = "generation_conflict" => r.request.expected < state[r.request.lead].gen
       /\ r.result = "key_conflict" =>
            \E e \in Prior(r.request) : e.hash # RequestHash(r.request)

RetryInv == ReplyInv /\ RetryNeverConflicts

\* Repeating a request that was saved is never answered with a conflict.
THEOREM RetryNeverConflictsHolds == Spec => []RetryNeverConflicts
<1>. DEFINE Grows == \A l \in Leads :
       /\ state'[l].gen >= state[l].gen
       /\ state'[l].gen = state[l].gen =>
            \/ state'[l] = state[l]
            \/ \E kind \in {"old", "pending"} : state'[l] = Aged(state[l], kind)
       /\ events[l] \subseteq events'[l]
     Keys == \A l \in Leads : KeyInv(l)
<1>1. Init => RetryInv
  BY DEF Init, RetryInv, ReplyInv, RetryNeverConflicts
<1>2. TypeOK /\ TypeOK' /\ Keys /\ RetryInv /\ [Next]_vars /\ [Grows]_vars => RetryInv'
  <2>. SUFFICES ASSUME TypeOK, TypeOK', Keys, RetryInv, [Next]_vars, [Grows]_vars
                PROVE  RetryInv'
    OBVIOUS
  <2>0. /\ \A l \in Leads : /\ state[l].gen \in Nat /\ state'[l].gen \in Nat
                            /\ state'[l].gen >= state[l].gen /\ events[l] \subseteq events'[l]
        /\ \A q \in requests : q \in Request /\ q.lead \in Leads /\ q.expected \in Nat
    <3>1. \A l \in Leads : state[l].gen \in Nat /\ state'[l].gen \in Nat
      BY DEF TypeOK, StateRow
    <3>2. CASE UNCHANGED vars
      BY <3>1, <3>2 DEF vars, rowVars, TypeOK, Request
    <3>3. CASE Grows
      BY <3>1, <3>3 DEF TypeOK, Request
    <3>. QED BY <3>2, <3>3
  \* What a reply says of its request goes on to hold.
  <2>1. ASSUME NEW r \in replies
        PROVE  /\ Prior(r.request) \subseteq Prior(r.request)'
               /\ r.result = "generation_conflict" =>
                    r.request.expected < state'[r.request.lead].gen
    BY <2>0 DEF Prior, RetryInv, ReplyInv, RequestKey
  <2>2. ASSUME requests' = requests PROVE \A q \in requests' : q.expected <= state'[q.lead].gen
    BY <2>0, <2>2 DEF RetryInv, ReplyInv
  <2>3. CASE UNCHANGED clientVars
    <3>1. replies' = replies /\ requests' = requests
      BY <2>3 DEF clientVars
    <3>2. ReplyInv'
      BY <2>1, <2>2, <3>1 DEF RetryInv, ReplyInv, RequestHash
    <3>. QED BY <3>1, <3>2 DEF RetryInv, RetryNeverConflicts
  <2>4. ASSUME NEW u \in Counselors, NEW l \in Leads, NEW k \in RequestKeys,
               NEW p \in Statuses, NEW f \in FollowupChoices \cup {Keep, NoTime},
               Submit(u, l, k, p, f)
        PROVE  RetryInv'
    <3>1. replies' = replies /\ state' = state /\ requests \subseteq requests'
      BY <2>4 DEF Submit, rowVars
    <3>2. \A q \in requests' : q.expected <= state'[q.lead].gen
      BY <2>0, <2>4, <3>1 DEF Submit, RetryInv, ReplyInv
    <3>3. ReplyInv'
      BY <2>1, <3>1, <3>2 DEF RetryInv, ReplyInv, RequestHash
    <3>. QED BY <3>1, <3>3 DEF RetryInv, RetryNeverConflicts
  \* One more reply, about a request q.
  <2>5. ASSUME NEW q \in requests, NEW result, Answered(q, result), requests' = requests,
               result = "saved" => /\ \E e \in Prior(q)' : e.hash = RequestHash(q)
                                   /\ Prior(q) = {} /\ q.expected = state[q.lead].gen,
               result = "generation_conflict" =>
                 Prior(q) = {} /\ q.expected < state[q.lead].gen,
               result = "key_conflict" => \E e \in Prior(q) : e.hash # RequestHash(q)
        PROVE  RetryInv'
    <3>1. replies' = replies \cup {[request |-> q, result |-> result]}
      BY <2>5 DEF Answered
    <3>2. Prior(q) \subseteq Prior(q)' /\ q.expected < state[q.lead].gen => q.expected < state'[q.lead].gen
      BY <2>0, <2>5 DEF Prior, RequestKey
    <3>3. Prior(q) \subseteq Prior(q)'
      BY <2>0 DEF Prior, RequestKey
    <3>4. \A d, e \in Prior(q) : d = e
      BY <2>0 DEF KeyInv, Prior
    <3>5. ReplyInv'
      <4>1. ASSUME NEW r \in replies'
            PROVE  /\ r.request \in requests'
                   /\ r.result = "saved" =>
                        \E e \in Prior(r.request)' : e.hash = RequestHash(r.request)
                   /\ r.result = "generation_conflict" =>
                        r.request.expected < state'[r.request.lead].gen
                   /\ r.result = "key_conflict" =>
                        \E e \in Prior(r.request)' : e.hash # RequestHash(r.request)
        <5>1. CASE r \in replies
          BY <2>1, <2>5, <5>1 DEF RetryInv, ReplyInv
        <5>2. CASE r = [request |-> q, result |-> result]
          BY <2>5, <3>2, <3>3, <5>2
        <5>. QED BY <3>1, <5>1, <5>2
      <4>. QED BY <2>2, <2>5, <4>1 DEF ReplyInv, RequestHash
    <3>6. RetryNeverConflicts'
      <4>1. ASSUME NEW r \in replies, r.request = q, r.result = "saved"
            PROVE  result \notin {"generation_conflict", "key_conflict"}
        BY <2>5, <3>4, <4>1 DEF RetryInv, ReplyInv
      <4>2. ASSUME NEW c \in replies, c.request = q, result = "saved"
            PROVE  c.result \notin {"generation_conflict", "key_conflict"}
        BY <2>0, <2>5, <4>2 DEF RetryInv, ReplyInv
      <4>. QED BY <3>1, <4>1, <4>2 DEF RetryInv, RetryNeverConflicts
    <3>. QED BY <3>5, <3>6 DEF RetryInv
  <2>6. ASSUME NEW q \in requests, Refused(q) PROVE RetryInv'
    <3>1. PICK refusal \in {"forbidden", "key_conflict", "duplicate", "generation_conflict"} :
            /\ Answered(q, refusal) /\ requests' = requests
            /\ refusal = "key_conflict" => \E e \in Prior(q) : e.hash # RequestHash(q)
            /\ refusal = "generation_conflict" => Prior(q) = {} /\ q.expected # state[q.lead].gen
      BY <2>6 DEF Refused
    <3>2. refusal = "generation_conflict" => q.expected < state[q.lead].gen
      BY <2>0, <3>1 DEF RetryInv, ReplyInv
    <3>. QED BY <2>5, <3>1, <3>2
  <2>7. ASSUME NEW q \in requests, Saved(q) PROVE RetryInv'
    <3>. DEFINE l == q.lead
                effective == IF q.followup = Keep THEN lead[l].next ELSE q.followup
                ld == [lead[l] EXCEPT !.next = effective]
    <3>1. /\ ApplyRemark(l, ld, ld, q.user, q.primary, RequestKey(q), RequestHash(q), effective)
          /\ Answered(q, "saved") /\ requests' = requests
          /\ Prior(q) = {} /\ q.expected = state[l].gen
      BY <2>7 DEF Saved
    <3>2. PICK cleared, after :
            events' = [events EXCEPT ![l] = @ \cup EnsureEvents(l, cleared)
              \cup {RemarkEvent(l, cleared, q.user, q.primary, RequestKey(q), RequestHash(q), after)}]
      BY <3>1 DEF ApplyRemark
    <3>. DEFINE remark == RemarkEvent(l, cleared, q.user, q.primary, RequestKey(q), RequestHash(q), after)
    <3>3. remark \in events'[l]
      BY <2>0, <3>2 DEF TypeOK
    <3>4. remark.key = RequestKey(q) /\ remark.hash = RequestHash(q)
      BY DEF RemarkEvent, Event
    <3>. HIDE DEF remark
    <3>5. \E e \in Prior(q)' : e.hash = RequestHash(q)
      BY <3>3, <3>4 DEF Prior, RequestKey
    <3>. QED BY <2>5, <3>1, <3>5
  <2>8. CASE UNCHANGED vars \/ Tick \/ \E w \in Workers : WorkerStep(w) \/ Faults(w)
    BY <2>3, <2>8 DEF vars, Tick, WorkerStep, Faults, StartTick, EnrollLead, ReadDueRows,
       ProcessRow, FinishTick, RowFails, Crash, LoseLock
  <2>9. CASE \E l \in Leads : Handlers(l)
    <3>1. ASSUME NEW l, NEW u, NEW p, NEW f, NEW closed, NEW closing,
                 LegacyRemark(l, u, p, f, closed, closing)
          PROVE  UNCHANGED clientVars
      BY <3>1 DEF LegacyRemark
    <3>2. ASSUME NEW l, NEW u, NEW p, NEW f, NEW closed, CallAttempt(l, u, p, f, closed)
          PROVE  UNCHANGED clientVars
      BY <3>2 DEF CallAttempt
    <3>3. ASSUME NEW l, NEW u, Conversion(l, u) \/ ImportNote(l, u) PROVE UNCHANGED clientVars
      BY <3>3 DEF Conversion, ImportNote
    <3>4. ASSUME NEW l, NEW next, NEW final, NEW key, Invalidate(l, next, final, key)
          PROVE  UNCHANGED clientVars
      BY <3>4 DEF Invalidate
    <3>7. ASSUME NEW l, NEW u, NEW closing, LegacyLevel(l, u, closing) PROVE UNCHANGED clientVars
      BY <3>7 DEF LegacyLevel
    <3>8. ASSUME NEW l, NEW closed, ChangeStage(l, closed) PROVE UNCHANGED clientVars
      BY <3>8 DEF ChangeStage
    <3>5. ASSUME NEW l, NEW o, NEW p, Schedule(l, o, p) PROVE UNCHANGED clientVars
      BY <3>5 DEF Schedule
    <3>6. UNCHANGED clientVars
      BY <2>9, <3>1, <3>2, <3>3, <3>4, <3>5, <3>7, <3>8
      DEF Handlers, SaveMeeting, CloseLifecycle, ReopenLifecycle, ProgressLifecycle, InvalidateLegacy
    <3>. QED BY <2>3, <3>6
  <2>10. CASE \E l \in Leads : Assignments(l)
    BY <2>3, <2>10 DEF Assignments, Reassign, AssignPooled, InsertHistory, Unassign
  <2>. QED BY <2>4, <2>6, <2>7, <2>8, <2>9, <2>10 DEF Next, Clients, RecordRemark
<1>3. RetryInv => RetryNeverConflicts
  BY DEF RetryInv
<1>. QED BY <1>1, <1>2, <1>3, TypeCorrect, KeyInvariant, GenerationsIdentifyHolds, PTL
        DEF Spec, GenerationsIdentify
-----------------------------------------------------------------------------
(* Due rows make progress: what the events say of the remarks.               *)

\* Work on the current assignment took the lead out of New.
WorkInv(l) ==
  /\ state[l].gen = 0 => events[l] = {}
  /\ \A e \in events[l] : e.key[1] \in WorkKinds =>
       /\ e.asg \in Nat /\ e.asg <= state[l].asg
       /\ e.asg = state[l].asg => state[l].queue # "new"

\* An event that names a remark carries the assignment of the remark.
NamedInv(l) ==
  \A e \in events[l] : e.key[1] = "remark" =>
    \E r \in remarks[l] : r.id = e.key[2] /\ r.asg = e.asg

\* Remarks have ids of their own, and there is a newest one by each author.
RemarksBy(l, u, asg) == {r \in remarks[l] : r.by = u /\ r.asg = asg}
RemarkInv(l) ==
  /\ \A r \in remarks[l] : r.id <= remarkSeq
  /\ \A r, o \in remarks[l] : r.id = o.id => r = o
  /\ \A u, asg : RemarksBy(l, u, asg) # {} =>
       \E r \in RemarksBy(l, u, asg) : \A o \in RemarksBy(l, u, asg) : o.id <= r.id

\* The newest remark exists.
LEMMA NewestExists ==
  ASSUME NEW l \in Leads, RemarkInv(l), CounselorRemarks(l, lead[l]) # {}
  PROVE  NewestRemark(l) \in remarks[l] /\ NewestRemark(l).asg = lead[l].asg
<1>. DEFINE S == CounselorRemarks(l, lead[l])
<1>1. S = RemarksBy(l, lead[l].owner, lead[l].asg)
  BY DEF CounselorRemarks, RemarksBy
<1>2. \E r \in S : \A o \in S : o.id <= r.id
  BY <1>1 DEF RemarkInv
<1>3. NewestRemark(l) \in S
  BY <1>2 DEF NewestRemark
<1>. QED BY <1>3 DEF CounselorRemarks

\* Remarks are only added, each with the next id.
RemarkAdded(l) ==
  /\ remarkSeq' = remarkSeq + 1
  /\ \E u, asg : remarks'[l] =
       remarks[l] \cup {[id |-> remarkSeq + 1, by |-> u, asg |-> asg]}
RemarkSteps ==
  /\ remarkSeq' \in {remarkSeq, remarkSeq + 1}
  /\ \A l \in Leads : remarks'[l] = remarks[l] \/ RemarkAdded(l)

LEMMA RemarksGrow ==
  ASSUME TypeOK, [Next]_vars
  PROVE  RemarkSteps
<1>1. ASSUME remarks' = remarks, remarkSeq' \in {remarkSeq, remarkSeq + 1} PROVE RemarkSteps
  BY <1>1 DEF RemarkSteps
<1>2. ASSUME NEW l, NEW u, NEW asg, remarkSeq' = remarkSeq + 1,
             remarks' = [remarks EXCEPT ![l] =
               @ \cup {[id |-> remarkSeq + 1, by |-> u, asg |-> asg]}]
      PROVE  RemarkSteps
  <2>1. \A m \in Leads \ {l} : remarks'[m] = remarks[m]
    BY <1>2 DEF TypeOK
  <2>2. l \in Leads => remarks'[l] = remarks[l] \cup {[id |-> remarkSeq + 1, by |-> u, asg |-> asg]}
    BY <1>2 DEF TypeOK
  <2>3. l \in Leads => RemarkAdded(l)
    BY <1>2, <2>2 DEF RemarkAdded
  <2>. QED BY <1>2, <2>1, <2>3 DEF RemarkSteps
<1>3. CASE UNCHANGED vars \/ Tick \/ \E w \in Workers : WorkerStep(w) \/ Faults(w)
  BY <1>1, <1>3 DEF vars, Tick, WorkerStep, Faults, StartTick, EnrollLead, ReadDueRows,
     ProcessRow, FinishTick, RowFails, Crash, LoseLock
<1>4. CASE Clients
  <2>1. ASSUME NEW q, Saved(q) PROVE RemarkSteps
    BY <1>2, <2>1 DEF Saved
  <2>2. ASSUME NEW q, Refused(q) PROVE RemarkSteps
    BY <1>1, <2>2 DEF Refused
  <2>. QED BY <1>1, <1>4, <2>1, <2>2 DEF Clients, RecordRemark, Submit
<1>5. CASE \E l \in Leads : Handlers(l)
  <2>1. ASSUME NEW l, NEW u, NEW p, NEW f, NEW closed, NEW closing,
               LegacyRemark(l, u, p, f, closed, closing)
        PROVE  RemarkSteps
    BY <1>2, <2>1 DEF LegacyRemark
  <2>2. ASSUME NEW l, NEW u, NEW p, NEW f, NEW closed, CallAttempt(l, u, p, f, closed)
        PROVE  RemarkSteps
    BY <1>1, <2>2 DEF CallAttempt
  <2>3. ASSUME NEW l, NEW u, Conversion(l, u) PROVE RemarkSteps
    BY <1>1, <2>3 DEF Conversion
  <2>4. ASSUME NEW l, NEW u, ImportNote(l, u) PROVE RemarkSteps
    BY <1>2, <2>4 DEF ImportNote
  <2>5. ASSUME NEW l, NEW next, NEW final, NEW key, Invalidate(l, next, final, key)
        PROVE  RemarkSteps
    BY <1>1, <2>5 DEF Invalidate
  <2>7. ASSUME NEW l, NEW u, NEW closing, LegacyLevel(l, u, closing) PROVE RemarkSteps
    BY <1>1, <2>7 DEF LegacyLevel
  <2>8. ASSUME NEW l, NEW closed, ChangeStage(l, closed) PROVE RemarkSteps
    BY <1>1, <2>8 DEF ChangeStage
  <2>6. ASSUME NEW l, NEW o, NEW p, Schedule(l, o, p) PROVE RemarkSteps
    BY <1>1, <2>6 DEF Schedule
  <2>. QED BY <1>5, <2>1, <2>2, <2>3, <2>4, <2>5, <2>6, <2>7, <2>8
          DEF Handlers, SaveMeeting, CloseLifecycle, ReopenLifecycle, ProgressLifecycle,
              InvalidateLegacy
<1>6. CASE \E l \in Leads : Assignments(l)
  BY <1>1, <1>6 DEF Assignments, Reassign, AssignPooled, InsertHistory, Unassign
<1>. QED BY <1>3, <1>4, <1>5, <1>6 DEF Next

\* A remark added keeps ids apart, and is the newest of its author.
LEMMA RemarkAddedInv ==
  ASSUME TypeOK, NEW l \in Leads, RemarkInv(l), RemarkSteps
  PROVE  RemarkInv(l)' /\ remarks[l] \subseteq remarks'[l]
<1>0. remarkSeq \in Nat /\ \A r \in remarks[l] : r.id \in Nat
  BY BoundAssumption DEF TypeOK, Remark
<1>1. CASE remarks'[l] = remarks[l]
  <2>1. \A u, asg : RemarksBy(l, u, asg)' = RemarksBy(l, u, asg)
    BY <1>1 DEF RemarksBy
  <2>2. \A r \in remarks'[l] : r.id <= remarkSeq'
    BY <1>0, <1>1 DEF RemarkInv, RemarkSteps
  <2>. HIDE DEF RemarksBy
  <2>. QED BY <1>1, <2>1, <2>2 DEF RemarkInv
<1>2. CASE RemarkAdded(l)
  <2>1. PICK v, a : remarks'[l] = remarks[l] \cup {[id |-> remarkSeq + 1, by |-> v, asg |-> a]}
    BY <1>2 DEF RemarkAdded
  <2>. DEFINE r == [id |-> remarkSeq + 1, by |-> v, asg |-> a]
  <2>2. /\ remarks'[l] = remarks[l] \cup {r} /\ r.id = remarkSeq + 1 /\ remarkSeq' = remarkSeq + 1
        /\ r.by = v /\ r.asg = a
    BY <1>2, <2>1 DEF RemarkAdded
  <2>. HIDE DEF r
  <2>3. \A o \in remarks[l] : o.id < r.id
    BY <1>0, <2>2 DEF RemarkInv
  <2>4. ASSUME NEW u, NEW asg, RemarksBy(l, u, asg)' # {}
        PROVE  \E n \in RemarksBy(l, u, asg)' : \A o \in RemarksBy(l, u, asg)' : o.id <= n.id
    <3>1. CASE u = v /\ asg = a
      <4>1. r \in RemarksBy(l, u, asg)' /\ \A o \in RemarksBy(l, u, asg)' : o.id <= r.id
        BY <1>0, <2>2, <2>3, <3>1 DEF RemarksBy
      <4>. QED BY <4>1
    <3>2. CASE ~(u = v /\ asg = a)
      <4>1. RemarksBy(l, u, asg)' = RemarksBy(l, u, asg)
        BY <2>2, <3>2 DEF RemarksBy
      <4>. HIDE DEF RemarksBy
      <4>. QED BY <2>4, <4>1 DEF RemarkInv
    <3>. QED BY <3>1, <3>2
  <2>5. \A o \in remarks'[l] : o.id <= remarkSeq'
    BY <1>0, <2>2 DEF RemarkInv
  <2>6. \A n, o \in remarks'[l] : n.id = o.id => n = o
    BY <1>0, <2>2, <2>3 DEF RemarkInv
  <2>. QED BY <2>2, <2>4, <2>5, <2>6 DEF RemarkInv
<1>. QED BY <1>1, <1>2 DEF RemarkSteps

\* What a row's change adds about remarks: at most one event, of the current
\* assignment, and it takes the lead out of New.
LEMMA NewWorkEvents ==
  ASSUME TypeOK, NEW l \in Leads, AssignmentInv(l), RemarkInv(l), RowStep(l)
  PROVE  /\ state'[l].gen \in Nat /\ state'[l].gen > 0
         /\ \/ state[l].gen = 0 \/ state[l].asg < state'[l].asg
            \/ /\ state'[l].asg = state[l].asg
               /\ state[l].queue # "new" => state'[l].queue # "new"
         /\ \E new : /\ events'[l] = events[l] \cup new
                     /\ \A e \in new : e.key[1] \in WorkKinds =>
                          /\ e.asg = lead[l].asg /\ e.asg = state'[l].asg
                          /\ state'[l].queue = "none"
                          /\ e.key[1] = "remark" =>
                               \E r \in remarks[l] \cup remarks'[l] :
                                 r.id = e.key[2] /\ r.asg = e.asg
<1>. DEFINE Moved == \/ state[l].gen = 0 \/ state[l].asg < state'[l].asg
                     \/ /\ state'[l].asg = state[l].asg
                        /\ state[l].queue # "new" => state'[l].queue # "new"
            Stands(e) == /\ e.asg = lead[l].asg /\ e.asg = state'[l].asg
                         /\ state'[l].queue = "none"
                         /\ e.key[1] = "remark" =>
                              \E r \in remarks[l] \cup remarks'[l] :
                                r.id = e.key[2] /\ r.asg = e.asg
            Goal == /\ state'[l].gen \in Nat /\ state'[l].gen > 0 /\ Moved
                    /\ \E new : /\ events'[l] = events[l] \cup new
                                /\ \A e \in new : e.key[1] \in WorkKinds => Stands(e)
<1>. SUFFICES Goal
  OBVIOUS
<1>0. state[l] \in StateRow /\ state[l].gen \in Nat /\ state[l].asg \in Nat
  BY DEF TypeOK, StateRow
<1>1. \A ld : EnsureEvents(l, ld) # {} => \A e \in EnsureEvents(l, ld) : e.key[1] = "assignment"
  BY DEF EnsureEvents, Event
<1>2. "assignment" \notin WorkKinds /\ "legacy" \notin WorkKinds /\ "meeting" \notin WorkKinds
      /\ "schedule" \notin WorkKinds /\ "deadline" \notin WorkKinds
  BY DEF WorkKinds
\* Events that are not about remarks.
<1>3. ASSUME NEW row, NEW s, NEW type, NEW key, NEW hash, key[1] \notin WorkKinds,
             Touches(l, row, {Event(s, type, key, "none", hash)}),
             row.gen \in Nat, row.gen > 0, row.asg = state[l].asg,
             state[l].queue # "new" => row.queue # "new"
      PROVE  Goal
  <2>1. state'[l] = row /\ events'[l] = events[l] \cup {Event(s, type, key, "none", hash)}
    BY <1>3, Touched
  <2>2. Event(s, type, key, "none", hash).key = key
    BY DEF Event
  <2>. QED BY <1>3, <2>1, <2>2
<1>4. CASE Enrolled(l)
  <2>1. PICK ld : Assigned(l, ld) /\ Touches(l, EnsureState(l, ld), EnsureEvents(l, ld))
    BY <1>4 DEF Enrolled
  <2>2. state'[l] = EnsureState(l, ld) /\ events'[l] = events[l] \cup EnsureEvents(l, ld)
    BY <2>1, Touched
  <2>3. state'[l].gen \in Nat /\ state'[l].gen > 0 /\ Moved
    <3>1. CASE MatchesAssignment(state[l], ld)
      <4>1. state'[l] = state[l] /\ state'[l].gen > 0
        BY <2>1, <2>2, <3>1, EnsureStateAssignment
      <4>. QED BY <1>0, <4>1
    <3>2. CASE ~MatchesAssignment(state[l], ld)
      BY <1>0, <2>1, <2>2, <3>2, EnsureStateAssignment
    <3>. QED BY <3>1, <3>2
  <2>4. \A e \in EnsureEvents(l, ld) : e.key[1] \in WorkKinds => Stands(e)
    BY <1>1, <1>2
  <2>. HIDE DEF Moved, Stands
  <2>. QED BY <2>2, <2>3, <2>4
<1>5. CASE Worked(l)
  <2>1. PICK ld, u, key, hash : \E p \in Statuses \cup {NoStatus}, b \in BOOLEAN :
          LET after == AfterRemark(EnsureState(l, ld), p, b) IN
          /\ Assigned(l, ld) /\ FreshKey(l, key)
          /\ Touches(l, after, EnsureEvents(l, ld)
                                 \cup {RemarkEvent(l, ld, u, p, key, hash, after)})
    BY <1>5 DEF Worked
  <2>2. PICK p \in Statuses \cup {NoStatus}, b \in BOOLEAN :
          LET after == AfterRemark(EnsureState(l, ld), p, b) IN
          /\ Assigned(l, ld) /\ FreshKey(l, key)
          /\ Touches(l, after, EnsureEvents(l, ld)
                                 \cup {RemarkEvent(l, ld, u, p, key, hash, after)})
    BY <2>1
  <2>. DEFINE after == AfterRemark(EnsureState(l, ld), p, b)
              remark == RemarkEvent(l, ld, u, p, key, hash, after)
  <2>3. remark.key = key /\ remark.asg = after.asg
    BY DEF RemarkEvent, Event
  <2>4. /\ after.queue = "none" /\ after.asg = EnsureState(l, ld).asg
        /\ after.gen = EnsureState(l, ld).gen + 1
    BY <2>2, RemarkCredits DEF Assigned
  <2>5. /\ EnsureState(l, ld).asg = lead[l].asg
        /\ EnsureState(l, ld).gen \in Nat /\ EnsureState(l, ld).gen > 0
        /\ MatchesAssignment(state[l], ld) => EnsureState(l, ld) = state[l]
        /\ ~MatchesAssignment(state[l], ld) /\ state[l].gen > 0 => state[l].asg < lead[l].asg
    BY <2>2, EnsureStateAssignment
  <2>6. state'[l] = after /\ events'[l] = events[l] \cup (EnsureEvents(l, ld) \cup {remark})
    BY <2>2, Touched
  <2>. HIDE DEF after, remark
  <2>7. state'[l].gen \in Nat /\ state'[l].gen > 0 /\ Moved
    BY <1>0, <2>4, <2>5, <2>6
  <2>8. Stands(remark)
    <3>1. key[1] = "remark" =>
            \E r \in remarks[l] \cup remarks'[l] : r.id = key[2] /\ r.asg = lead[l].asg
      BY <2>2, NewestExists DEF FreshKey, NamesNewest, NamesWritten
    <3>. QED BY <2>3, <2>4, <2>5, <2>6, <3>1
  <2>9. \A e \in EnsureEvents(l, ld) \cup {remark} : e.key[1] \in WorkKinds => Stands(e)
    BY <1>1, <1>2, <2>8
  <2>. HIDE DEF Moved, Stands
  <2>. QED BY <2>6, <2>7, <2>9
<1>6. CASE LegacyChanged(l)
  <2>1. PICK key : \E b \in BOOLEAN :
          LET after == Invalidated(state[l], b) IN
          /\ state[l].gen > 0 /\ key[1] \in {"legacy", "meeting"}
          /\ Touches(l, after, {Event(after, "legacy_changed", key, "none", <<>>)})
    BY <1>6 DEF LegacyChanged
  <2>2. PICK b \in BOOLEAN :
          LET after == Invalidated(state[l], b) IN
          /\ state[l].gen > 0 /\ key[1] \in {"legacy", "meeting"}
          /\ Touches(l, after, {Event(after, "legacy_changed", key, "none", <<>>)})
    BY <2>1
  <2>. DEFINE after == Invalidated(state[l], b)
  <2>3. after.gen = state[l].gen + 1 /\ after.asg = state[l].asg /\ after.queue = "none"
    BY <1>0 DEF Invalidated, StateRow
  <2>4. Touches(l, after, {Event(after, "legacy_changed", key, "none", <<>>)})
    BY <2>2
  <2>5. key[1] \notin WorkKinds
    BY <1>2, <2>2
  <2>. HIDE DEF after, Goal
  <2>. QED BY <1>0, <1>3, <2>2, <2>3, <2>4, <2>5
<1>7. CASE Scheduled(l)
  <2>1. PICK key : \E o, p \in Clock :
          LET after == [state[l] EXCEPT !.gen = @ + 1, !.oldAt = o, !.pendAt = p] IN
          /\ key = <<"schedule", after.gen, 0>>
          /\ Touches(l, after, {Event(after, "scheduled", key, "none", <<>>)})
    BY <1>7 DEF Scheduled
  <2>2. PICK o \in Clock, p \in Clock :
          LET after == [state[l] EXCEPT !.gen = @ + 1, !.oldAt = o, !.pendAt = p] IN
          /\ key = <<"schedule", after.gen, 0>>
          /\ Touches(l, after, {Event(after, "scheduled", key, "none", <<>>)})
    BY <2>1
  <2>. DEFINE after == [state[l] EXCEPT !.gen = @ + 1, !.oldAt = o, !.pendAt = p]
  <2>3. after.gen = state[l].gen + 1 /\ after.asg = state[l].asg /\ after.queue = state[l].queue
    BY <1>0 DEF StateRow
  <2>4. key[1] = "schedule" /\ Touches(l, after, {Event(after, "scheduled", key, "none", <<>>)})
    BY <2>2
  <2>. HIDE DEF after, Goal
  <2>. QED BY <1>0, <1>2, <1>3, <2>3, <2>4
<1>8. CASE AgedBy(l)
  <2>1. PICK row \in DueRow :
          LET after == Aged(state[l], row.kind) IN
          /\ row.lead = l /\ Transitions(row)
          /\ Touches(l, after, {Event(after, "entered", DeadlineKey(row), "none", <<>>)})
    BY <1>8 DEF AgedBy
  <2>. DEFINE after == Aged(state[l], row.kind)
              key == DeadlineKey(row)
  <2>2. state[l].gen > 0 /\ row.kind # "new"
    BY <2>1 DEF Transitions, Actionable, MatchesAssignment, DueRow
  <2>3. after.gen = state[l].gen /\ after.asg = state[l].asg /\ after.queue = row.kind
    BY <1>0 DEF Aged, StateRow
  <2>4. key[1] = "deadline" /\ Touches(l, after, {Event(after, "entered", key, "none", <<>>)})
    BY <2>1 DEF DeadlineKey
  <2>. HIDE DEF after, key, Goal
  <2>. QED BY <1>0, <1>2, <1>3, <2>2, <2>3, <2>4
<1>. QED BY <1>4, <1>5, <1>6, <1>7, <1>8 DEF RowStep

\* What the events say of the remarks holds in every reachable state.
NoteInv(l) == WorkInv(l) /\ NamedInv(l) /\ RemarkInv(l)

LEMMA NoteInvariant == Spec => [](\A l \in Leads : NoteInv(l))
<1>. DEFINE Inv == \A l \in Leads : NoteInv(l)
<1>1. Init => Inv
  BY DEF Init, NoteInv, WorkInv, NamedInv, RemarkInv, RemarksBy
<1>2. TypeOK /\ TypeOK' /\ QueueInv /\ Inv /\ [Next]_vars => Inv'
  <2>. SUFFICES ASSUME TypeOK, TypeOK', QueueInv, Inv, [Next]_vars, NEW m \in Leads PROVE NoteInv(m)'
    OBVIOUS
  <2>0. /\ RemarkInv(m)' /\ remarks[m] \subseteq remarks'[m]
        /\ WorkInv(m) /\ NamedInv(m) /\ RemarkInv(m) /\ AssignmentInv(m)
    BY RemarksGrow, RemarkAddedInv DEF NoteInv, QueueInv
  <2>1. ASSUME state'[m] = state[m], events'[m] = events[m] PROVE NoteInv(m)'
    <3>1. WorkInv(m)'
      BY <2>0, <2>1 DEF WorkInv
    <3>2. NamedInv(m)'
      BY <2>0, <2>1 DEF NamedInv
    <3>. QED BY <2>0, <3>1, <3>2 DEF NoteInv
  <2>2. CASE UNCHANGED rowVars
    BY <2>1, <2>2 DEF rowVars
  <2>3. CASE RowStep(m)
    <3>0. state[m].asg \in Nat /\ lead[m].asg \in Nat /\ state[m].gen \in Nat
      BY DEF TypeOK, StateRow, LeadRow
    <3>1. PICK new :
            /\ events'[m] = events[m] \cup new
            /\ \A e \in new : e.key[1] \in WorkKinds =>
                 /\ e.asg = lead[m].asg /\ e.asg = state'[m].asg
                 /\ state'[m].queue = "none"
                 /\ e.key[1] = "remark" =>
                      \E r \in remarks[m] \cup remarks'[m] : r.id = e.key[2] /\ r.asg = e.asg
      BY <2>0, <2>3, NewWorkEvents
    <3>2. /\ state'[m].gen \in Nat /\ state'[m].gen > 0
          /\ \/ state[m].gen = 0 \/ state[m].asg < state'[m].asg
             \/ /\ state'[m].asg = state[m].asg
                /\ state[m].queue # "new" => state'[m].queue # "new"
      BY <2>0, <2>3, NewWorkEvents
    <3>3. state'[m].asg \in Nat
      BY DEF TypeOK, StateRow
    <3>4. WorkInv(m)'
      BY <2>0, <3>0, <3>1, <3>2, <3>3 DEF WorkInv
    <3>5. NamedInv(m)'
      <4>1. "remark" \in WorkKinds
        BY DEF WorkKinds
      <4>. QED BY <2>0, <3>1, <4>1 DEF NamedInv
    <3>. QED BY <2>0, <3>4, <3>5 DEF NoteInv
  <2>4. ASSUME NEW l \in Leads, RowStep(l), m # l PROVE NoteInv(m)'
    BY <2>1, <2>4, OtherRows
  <2>. QED BY <2>2, <2>3, <2>4, RowSteps DEF RowChange
<1>. QED BY <1>1, <1>2, TypeCorrect, QueueInvariant, PTL DEF Spec

\* A row that the batch query selects ages, or is taken out of New by an unseen
\* note: the query never selects a row that the worker then skips.
THEOREM DueRowsProgressHolds == Spec => []DueRowsProgress
<1>1. /\ TypeOK
      /\ (\A l \in Leads : RowInv(state[l])) /\ (\A l \in Leads : KeyInv(l))
      /\ (\A l \in Leads : NoteInv(l))
      => DueRowsProgress
  <2>. SUFFICES ASSUME TypeOK, NEW l \in Leads, RowInv(state[l]), KeyInv(l), NoteInv(l), Selected(l)
                PROVE  \/ Transitions(RowOf(l))
                       \/ /\ Reconciles(RowOf(l))
                          /\ <<"remark", NewestRemark(l).id, 0>> \notin KeysOf(l)
    BY DEF DueRowsProgress
  <2>. DEFINE s == state[l]
              row == RowOf(l)
  <2>0. s \in StateRow /\ s.gen \in Nat
    BY DEF TypeOK, StateRow
  <2>1. /\ row.lead = l /\ row.gen = s.gen /\ row.due = DueAt(s)
        /\ row.kind = IF s.oldAt # NoTime THEN "old" ELSE "pending"
    BY DEF RowOf
  <2>2. Actionable(row)
    BY <2>1 DEF Selected, Actionable, DueAt, RowInv
  <2>3. CASE Reconciles(row)
    <3>1. s.queue = "new" /\ CounselorRemarks(l, lead[l]) # {} /\ s.asg = lead[l].asg
      BY <2>1, <2>2, <2>3 DEF Reconciles, Actionable, MatchesAssignment
    <3>2. NewestRemark(l) \in remarks[l] /\ NewestRemark(l).asg = lead[l].asg
      BY <3>1, NewestExists DEF NoteInv
    <3>. DEFINE key == <<"remark", NewestRemark(l).id, 0>>
    <3>3. key[1] = "remark" /\ key[2] = NewestRemark(l).id
      OBVIOUS
    <3>. HIDE DEF key
    <3>4. ASSUME NEW e \in events[l], e.key = key PROVE FALSE
      <4>1. PICK r \in remarks[l] : r.id = NewestRemark(l).id /\ r.asg = e.asg
        BY <3>3, <3>4 DEF NoteInv, NamedInv
      <4>2. e.asg = s.asg
        BY <3>1, <3>2, <4>1 DEF NoteInv, RemarkInv
      <4>3. e.key[1] \in WorkKinds
        BY <3>3, <3>4 DEF WorkKinds
      <4>. QED BY <3>1, <4>2, <4>3 DEF NoteInv, WorkInv
    <3>5. key \notin KeysOf(l)
      BY <3>4 DEF KeysOf
    <3>. QED BY <2>3, <3>5 DEF key
  <2>4. CASE ~Reconciles(row)
    <3>1. row.kind = "old" => s.active /\ s.primary # NoStatus /\ s.queue = "none"
      BY <2>1 DEF RowInv, RowChecks
    <3>2. DeadlineKey(row) \notin KeysOf(l)
      <4>. DEFINE key == DeadlineKey(row)
      <4>1. key[1] = "deadline" /\ key[2] = s.gen /\ key[3] = row.kind
        BY <2>1 DEF DeadlineKey
      <4>. HIDE DEF key
      <4>2. ASSUME NEW e \in events[l], e.key = key PROVE FALSE
        BY <2>1, <4>1, <4>2 DEF KeyInv, Selected, DueAt
      <4>. QED BY <4>2 DEF KeysOf, key
    <3>3. row.kind = "pending" => s.oldAt = NoTime
      BY <2>1
    <3>. HIDE DEF row
    <3>. QED BY <2>1, <2>2, <2>4, <3>1, <3>2, <3>3 DEF Transitions, row
  <2>. QED BY <2>3, <2>4
<1>. QED BY <1>1, TypeCorrect, RowInvariant, KeyInvariant, NoteInvariant, PTL

-----------------------------------------------------------------------------
(* Why the two claims of the code that fail do fail: what a step would have   *)
(* to be to leave a closed lead New, or a journey suspended for nothing.      *)

\* A row is enrolled for somebody.
OwnedRow(l) == state[l].gen > 0 => state[l].owner # NoUser

LEMMA RowStepOwned ==
  ASSUME TypeOK, NEW l \in Leads, AssignmentInv(l), OwnedRow(l), RowStep(l)
  PROVE  OwnedRow(l)'
<1>0. state[l] \in StateRow
  BY DEF TypeOK
<1>1. ASSUME NEW ld, Assigned(l, ld) PROVE EnsureState(l, ld).owner # NoUser
  BY <1>1, EnsureStateAssignment DEF Assigned
<1>2. CASE Enrolled(l)
  BY <1>1, <1>2, Touched DEF Enrolled, OwnedRow
<1>3. CASE Worked(l)
  <2>1. PICK ld, u, key, hash : \E p \in Statuses \cup {NoStatus}, b \in BOOLEAN :
          LET after == AfterRemark(EnsureState(l, ld), p, b) IN
          /\ Assigned(l, ld)
          /\ Touches(l, after, EnsureEvents(l, ld)
                                 \cup {RemarkEvent(l, ld, u, p, key, hash, after)})
    BY <1>3 DEF Worked
  <2>2. PICK p \in Statuses \cup {NoStatus}, b \in BOOLEAN :
          state'[l] = AfterRemark(EnsureState(l, ld), p, b)
    BY <2>1, Touched
  <2>3. Assigned(l, ld) /\ ld \in LeadRow
    BY <2>1 DEF Assigned
  <2>4. AfterRemark(EnsureState(l, ld), p, b).owner = EnsureState(l, ld).owner
    BY <2>3, RemarkCredits
  <2>. QED BY <1>1, <2>2, <2>3, <2>4 DEF OwnedRow
<1>4. CASE LegacyChanged(l)
  <2>1. PICK b \in BOOLEAN : state[l].gen > 0 /\ state'[l] = Invalidated(state[l], b)
    BY <1>4, Touched DEF LegacyChanged
  <2>. QED BY <1>0, <2>1 DEF Invalidated, StateRow, OwnedRow
<1>5. CASE Scheduled(l)
  <2>1. PICK key : \E o, p \in Clock :
          LET after == [state[l] EXCEPT !.gen = @ + 1, !.oldAt = o, !.pendAt = p] IN
          state[l].gen > 0 /\ Touches(l, after, {Event(after, "scheduled", key, "none", <<>>)})
    BY <1>5 DEF Scheduled
  <2>2. PICK o \in Clock, p \in Clock :
          LET after == [state[l] EXCEPT !.gen = @ + 1, !.oldAt = o, !.pendAt = p] IN
          state[l].gen > 0 /\ Touches(l, after, {Event(after, "scheduled", key, "none", <<>>)})
    BY <2>1
  <2>3. state'[l] = [state[l] EXCEPT !.gen = @ + 1, !.oldAt = o, !.pendAt = p]
    BY <2>2, Touched
  <2>. QED BY <1>0, <2>2, <2>3 DEF StateRow, OwnedRow
<1>6. CASE AgedBy(l)
  <2>1. PICK kind : state'[l] = Aged(state[l], kind)
    BY <1>6, Touched DEF AgedBy
  <2>. QED BY <1>0, <2>1 DEF Aged, StateRow, OwnedRow
<1>. QED BY <1>2, <1>3, <1>4, <1>5, <1>6 DEF RowStep

LEMMA OwnedInvariant == Spec => [](\A l \in Leads : OwnedRow(l))
<1>. DEFINE Inv == \A l \in Leads : OwnedRow(l)
<1>1. Init => Inv
  BY DEF Init, OwnedRow, NoRow
<1>2. TypeOK /\ QueueInv /\ Inv /\ [Next]_vars => Inv'
  <2>. SUFFICES ASSUME TypeOK, QueueInv, Inv, [Next]_vars, NEW m \in Leads PROVE OwnedRow(m)'
    OBVIOUS
  <2>1. ASSUME state'[m] = state[m] PROVE OwnedRow(m)'
    BY <2>1 DEF OwnedRow
  <2>2. ASSUME NEW l \in Leads, RowStep(l) PROVE OwnedRow(m)'
    BY <2>1, <2>2, RowStepOwned, OtherRows DEF QueueInv
  <2>. QED BY <2>1, <2>2, RowSteps DEF RowChange, rowVars
<1>. QED BY <1>1, <1>2, TypeCorrect, QueueInvariant, PTL DEF Spec

AttemptAdded(l) == \E e \in events'[l] \ events[l] : e.key = <<"attempt", remarkSeq', 0>>

\* A step of a lead: nothing goes wrong but by these.
Harmless(l) ==
  /\ ClosedNew(l)' =>
       \/ ClosedNew(l)
       \/ state'[l] = state[l] /\ events'[l] = events[l] /\ ~lead[l].closed
  /\ LostFollowup(l)' => LostFollowup(l) \/ AttemptAdded(l) \/ lead'[l].closed

\* A step that leaves lead and row alone, or the row without a matching assignment.
LEMMA Unchanged ==
  ASSUME NEW l, lead'[l] = lead[l], state'[l] = state[l]
  PROVE  Harmless(l)
BY DEF Harmless, ClosedNew, LostFollowup, MatchesAssignment

LEMMA Unmatched ==
  ASSUME NEW l, ~MatchesAssignment(state'[l], lead'[l])
  PROVE  Harmless(l)
BY DEF Harmless, ClosedNew, LostFollowup, MatchesAssignment

\* A step that leaves the row alone, and takes the follow-up only from a lead it closes.
LEMMA RowAlone ==
  ASSUME NEW l, state'[l] = state[l], events'[l] = events[l],
         lead'[l].owner = lead[l].owner, lead'[l].asg = lead[l].asg,
         lead'[l].next = lead[l].next \/ lead'[l].next # NoTime \/ lead'[l].closed
  PROVE  Harmless(l)
<1>1. MatchesAssignment(state'[l], lead'[l]) <=> MatchesAssignment(state[l], lead[l])
  BY DEF MatchesAssignment
<1>2. ClosedNew(l)' /\ lead[l].closed => ClosedNew(l)
  BY <1>1 DEF ClosedNew
<1>3. LostFollowup(l)' /\ ~lead'[l].closed => LostFollowup(l)
  BY <1>1 DEF LostFollowup
<1>. QED BY <1>2, <1>3 DEF Harmless

\* A remark that is applied takes the lead out of New, and suspends the journey for
\* a follow-up that is on the lead, or that it was told of.
LEMMA RemarkApplied ==
  ASSUME TypeOK, NEW l \in Leads, NEW ld \in LeadRow, ld.owner # NoUser,
         ld.owner = lead[l].owner, ld.asg = lead[l].asg, NEW final \in LeadRow,
         NEW u, NEW p \in Statuses \cup {NoStatus}, NEW key, NEW hash, NEW followup,
         ApplyRemark(l, ld, final, u, p, key, hash, followup)
  PROVE  /\ state'[l].queue = "none"
         /\ p = NoStatus => state'[l].awaiting
         /\ p # NoStatus /\ state'[l].override =>
              /\ p \notin Terminal /\ lead'[l].next = final.next
              /\ ld.next # NoTime \/ followup # NoTime
         /\ final.closed => lead'[l].closed
         /\ \E e \in events'[l] : e.key = key
         /\ \A m \in Leads \ {l} : lead'[m] = lead[m] /\ state'[m] = state[m]
<1>. DEFINE works == WorksDueFollowup(ld, p)
            cleared == IF works THEN [ld EXCEPT !.next = NoTime] ELSE ld
            suspended == cleared.next # NoTime \/ (~works /\ followup # NoTime)
            before == EnsureState(l, cleared)
            after == AfterRemark(before, p, suspended)
<1>1. /\ lead' = [lead EXCEPT ![l] = IF works THEN [final EXCEPT !.next = NoTime] ELSE final]
      /\ state' = [state EXCEPT ![l] = after]
      /\ events' = [events EXCEPT ![l] =
           @ \cup EnsureEvents(l, cleared) \cup {RemarkEvent(l, cleared, u, p, key, hash, after)}]
  BY DEF ApplyRemark
<1>2. cleared \in LeadRow
  BY DEF LeadRow, Clock
<1>3. before \in StateRow
  BY <1>2, EnsureStateType
<1>4. suspended => ~works /\ (ld.next # NoTime \/ followup # NoTime)
  BY DEF LeadRow
<1>5. suspended \in BOOLEAN
  BY DEF WorksDueFollowup
<1>6. /\ after.queue = "none" /\ (p = NoStatus => after.awaiting)
      /\ p # NoStatus /\ after.override => p \notin Terminal /\ suspended
  <2>. HIDE DEF before, suspended
  <2>. QED BY <1>3, <1>5 DEF AfterRemark, Journey, Invalidated, StateRow
<1>7. state'[l] = after /\ \A m \in Leads \ {l} : lead'[m] = lead[m] /\ state'[m] = state[m]
  <2>. HIDE DEF after, works
  <2>. QED BY <1>1 DEF TypeOK
<1>8. ~works => lead'[l] = final
  BY <1>1 DEF TypeOK
<1>10. lead'[l].closed = final.closed
  <2>1. lead'[l] = IF works THEN [final EXCEPT !.next = NoTime] ELSE final
    BY <1>1 DEF TypeOK
  <2>. HIDE DEF works
  <2>. QED BY <2>1 DEF LeadRow
<1>9. \E e \in events'[l] : e.key = key
  <2>1. RemarkEvent(l, cleared, u, p, key, hash, after) \in events'[l]
    <3>. HIDE DEF after, cleared
    <3>. QED BY <1>1 DEF TypeOK
  <2>2. RemarkEvent(l, cleared, u, p, key, hash, after).key = key
    BY DEF RemarkEvent, Event
  <2>. QED BY <2>1, <2>2
<1>. HIDE DEF after, suspended, works
<1>. QED BY <1>4, <1>6, <1>7, <1>8, <1>9, <1>10

\* createLeadInteraction and createLeadCallLog: what is applied suspends for what is on
\* the lead, unless the lead is closed afterwards.
LEMMA LegacyHarmless ==
  ASSUME TypeOK, NEW l \in Leads,
         NEW u \in Actors, NEW p \in Statuses \cup {NoStatus},
         NEW f \in FollowupChoices \cup {NoTime}, NEW closed \in BOOLEAN, NEW closing \in BOOLEAN,
         LegacyRemark(l, u, p, f, closed, closing)
  PROVE  \A m \in Leads : Harmless(m)
<1>. DEFINE ld == [lead[l] EXCEPT !.closed = closed, !.next = IF f = NoTime THEN @ ELSE f]
            final == IF closing THEN ClosedOff(ld) ELSE ld
            key == <<"remark", remarkSeq + 1, 0>>
<1>0. lead[l] \in LeadRow
  BY DEF TypeOK
<1>1. /\ ld \in LeadRow /\ ld.owner = lead[l].owner /\ ld.asg = lead[l].asg
      /\ ld.next = IF f = NoTime THEN lead[l].next ELSE f
  BY <1>0, BoundAssumption DEF LeadRow, Clock
<1>2. ObserveRemark(l, ld, final, u, p, key, f)
  BY DEF LegacyRemark
<1>. HIDE DEF ld
<1>3. /\ final \in LeadRow /\ final.owner = lead[l].owner /\ final.asg = lead[l].asg
      /\ final.closed \/ final.next = ld.next
  BY <1>1, ClosedOffRow
<1>. HIDE DEF final, key
<1>5. CASE Observed(l, ld, u) /\ key \notin KeysOf(l)
  <2>1. ApplyRemark(l, ld, final, u, p, key, <<>>, f) /\ ld.owner # NoUser
    BY <1>2, <1>5 DEF ObserveRemark, Observed
  <2>2. /\ state'[l].queue = "none"
        /\ p = NoStatus => state'[l].awaiting
        /\ p # NoStatus /\ state'[l].override =>
             /\ p \notin Terminal /\ lead'[l].next = final.next
             /\ ld.next # NoTime \/ f # NoTime
        /\ final.closed => lead'[l].closed
        /\ \A m \in Leads \ {l} : lead'[m] = lead[m] /\ state'[m] = state[m]
    BY <1>1, <1>3, <2>1, RemarkApplied
  <2>3. p # NoStatus /\ state'[l].override => lead'[l].next # NoTime \/ lead'[l].closed
    BY <1>1, <1>3, <2>2
  <2>4. Harmless(l)
    BY <2>2, <2>3 DEF Harmless, ClosedNew, LostFollowup
  <2>. QED BY <2>2, <2>4, Unchanged
<1>6. CASE ~(Observed(l, ld, u) /\ key \notin KeysOf(l))
  <2>1. lead' = [lead EXCEPT ![l] = final] /\ UNCHANGED rowVars
    BY <1>2, <1>6 DEF ObserveRemark
  <2>2. /\ lead'[l] = final /\ state'[l] = state[l] /\ events'[l] = events[l]
        /\ \A m \in Leads \ {l} : lead'[m] = lead[m] /\ state'[m] = state[m]
    BY <2>1 DEF TypeOK, rowVars
  <2>3. Harmless(l)
    BY <1>1, <1>3, <2>2, RowAlone
  <2>. QED BY <2>2, <2>3, Unchanged
<1>. QED BY <1>5, <1>6

\* syncLegacyLeadLevel: what is applied awaits a status.
LEMMA LevelHarmless ==
  ASSUME TypeOK, NEW l \in Leads, NEW u \in Actors, NEW closing \in BOOLEAN,
         LegacyLevel(l, u, closing)
  PROVE  \A m \in Leads : Harmless(m)
<1>. DEFINE final == IF closing THEN ClosedOff(lead[l]) ELSE lead[l]
            key == <<"level", remarkSeq + 1, 0>>
<1>1. lead[l] \in LeadRow
  BY DEF TypeOK
<1>2. /\ final \in LeadRow /\ final.owner = lead[l].owner /\ final.asg = lead[l].asg
      /\ final.closed \/ final.next = lead[l].next
  BY <1>1, ClosedOffRow
<1>3. ObserveRemark(l, lead[l], final, u, NoStatus, key, NoTime)
  BY DEF LegacyLevel
<1>. HIDE DEF final, key
<1>4. CASE Observed(l, lead[l], u) /\ key \notin KeysOf(l)
  <2>1. ApplyRemark(l, lead[l], final, u, NoStatus, key, <<>>, NoTime) /\ lead[l].owner # NoUser
    BY <1>3, <1>4 DEF ObserveRemark, Observed
  <2>2. /\ state'[l].queue = "none" /\ state'[l].awaiting
        /\ \A m \in Leads \ {l} : lead'[m] = lead[m] /\ state'[m] = state[m]
    BY <1>1, <1>2, <2>1, RemarkApplied
  <2>3. Harmless(l)
    BY <2>2 DEF Harmless, ClosedNew, LostFollowup
  <2>. QED BY <2>2, <2>3, Unchanged
<1>5. CASE ~(Observed(l, lead[l], u) /\ key \notin KeysOf(l))
  <2>1. lead' = [lead EXCEPT ![l] = final] /\ UNCHANGED rowVars
    BY <1>3, <1>5 DEF ObserveRemark
  <2>2. /\ lead'[l] = final /\ state'[l] = state[l] /\ events'[l] = events[l]
        /\ \A m \in Leads \ {l} : lead'[m] = lead[m] /\ state'[m] = state[m]
    BY <2>1 DEF TypeOK, rowVars
  <2>3. Harmless(l)
    BY <1>2, <2>2, RowAlone
  <2>. QED BY <2>2, <2>3, Unchanged
<1>. QED BY <1>4, <1>5

\* completeScheduledAttempt: it may lose the follow-up, and adds its event then.
LEMMA AttemptHarmless ==
  ASSUME TypeOK, NEW l \in Leads,
         NEW u \in Actors, NEW p \in Timed \cup {NoStatus}, NEW f \in FollowupChoices \cup {NoTime},
         NEW closed \in {lead[l].closed, FALSE}, CallAttempt(l, u, p, f, closed)
  PROVE  \A m \in Leads : Harmless(m)
<1>. DEFINE final == [lead[l] EXCEPT !.closed = closed]
            key == <<"attempt", remarkSeq + 1, 0>>
<1>0. lead[l] \in LeadRow /\ p \in Statuses \cup {NoStatus}
  BY StatusAssumption DEF TypeOK
<1>1. /\ final \in LeadRow /\ final.owner = lead[l].owner /\ final.asg = lead[l].asg
      /\ final.closed = closed /\ final.next = lead[l].next
  BY <1>0 DEF LeadRow
<1>2. ObserveRemark(l, lead[l], final, u, p, key, f) /\ remarkSeq' = remarkSeq + 1
  BY DEF CallAttempt
<1>3. CASE Observed(l, lead[l], u) /\ key \notin KeysOf(l)
  <2>1. ApplyRemark(l, lead[l], final, u, p, key, <<>>, f) /\ lead[l].owner # NoUser
    BY <1>2, <1>3 DEF ObserveRemark, Observed
  <2>2. key = <<"attempt", remarkSeq', 0>>
    BY <1>2
  <2>. HIDE DEF final, key
  <2>3. /\ state'[l].queue = "none"
        /\ \E e \in events'[l] : e.key = key
        /\ \A m \in Leads \ {l} : lead'[m] = lead[m] /\ state'[m] = state[m]
    BY <1>0, <1>1, <2>1, RemarkApplied
  <2>4. AttemptAdded(l)
    BY <1>3, <2>2, <2>3 DEF AttemptAdded, KeysOf
  <2>5. Harmless(l)
    BY <2>3, <2>4 DEF Harmless, ClosedNew
  <2>. QED BY <2>3, <2>5, Unchanged
<1>4. CASE ~(Observed(l, lead[l], u) /\ key \notin KeysOf(l))
  <2>1. lead' = [lead EXCEPT ![l] = final] /\ UNCHANGED rowVars
    BY <1>2, <1>4 DEF ObserveRemark
  <2>2. /\ lead'[l] = final /\ state'[l] = state[l] /\ events'[l] = events[l]
        /\ \A m \in Leads \ {l} : lead'[m] = lead[m] /\ state'[m] = state[m]
    BY <2>1 DEF TypeOK, rowVars
  <2>. HIDE DEF final, key
  <2>3. Harmless(l)
    BY <1>1, <2>2, RowAlone
  <2>. QED BY <2>2, <2>3, Unchanged
<1>. QED BY <1>3, <1>4

\* POST workflow/conversion: applied, or taken for a duplicate.
LEMMA ConversionHarmless ==
  ASSUME TypeOK, NEW l \in Leads, NEW u \in Actors, Conversion(l, u)
  PROVE  \A m \in Leads : Harmless(m)
<1>. DEFINE key == <<"conversion", 0, 0>>
<1>1. PICK next \in {lead[l].next, NoTime} :
        LET ld == [lead[l] EXCEPT !.closed = TRUE, !.next = next] IN
        ObserveRemark(l, ld, ld, u, NoStatus, key, NoTime)
  BY DEF Conversion
<1>. DEFINE ld == [lead[l] EXCEPT !.closed = TRUE, !.next = next]
<1>2. ObserveRemark(l, ld, ld, u, NoStatus, key, NoTime)
  BY <1>1
<1>3. /\ ld \in LeadRow /\ ld.owner = lead[l].owner /\ ld.asg = lead[l].asg
      /\ ld.closed
  <2>1. lead[l] \in LeadRow
    BY DEF TypeOK
  <2>. QED BY <2>1 DEF LeadRow, Clock
<1>. HIDE DEF ld, key
<1>4. CASE Observed(l, ld, u) /\ key \notin KeysOf(l)
  <2>1. ApplyRemark(l, ld, ld, u, NoStatus, key, <<>>, NoTime) /\ ld.owner # NoUser
    BY <1>2, <1>4 DEF ObserveRemark, Observed
  <2>2. /\ state'[l].queue = "none" /\ state'[l].awaiting
        /\ \A m \in Leads \ {l} : lead'[m] = lead[m] /\ state'[m] = state[m]
    BY <1>3, <2>1, RemarkApplied
  <2>3. Harmless(l)
    BY <2>2 DEF Harmless, ClosedNew, LostFollowup
  <2>. QED BY <2>2, <2>3, Unchanged
<1>5. CASE ~(Observed(l, ld, u) /\ key \notin KeysOf(l))
  <2>1. lead' = [lead EXCEPT ![l] = ld] /\ UNCHANGED rowVars
    BY <1>2, <1>5 DEF ObserveRemark
  <2>2. /\ lead'[l] = ld /\ state'[l] = state[l] /\ events'[l] = events[l]
        /\ \A m \in Leads \ {l} : lead'[m] = lead[m] /\ state'[m] = state[m]
    BY <2>1 DEF TypeOK, rowVars
  <2>3. Harmless(l)
    BY <1>3, <2>2, RowAlone
  <2>. QED BY <2>2, <2>3, Unchanged
<1>. QED BY <1>4, <1>5

\* recordRemark: the follow-up it suspends for is the one it stores.
LEMMA SavedHarmless ==
  ASSUME TypeOK, NEW q \in requests, Saved(q)
  PROVE  \A m \in Leads : Harmless(m)
<1>. DEFINE l == q.lead
            effective == IF q.followup = Keep THEN lead[l].next ELSE q.followup
            ld == [lead[l] EXCEPT !.next = effective]
<1>1. q \in Request /\ l \in Leads /\ q.primary \in Statuses /\ q.user \in Counselors
  BY DEF TypeOK, Request
<1>2. lead[l] \in LeadRow /\ effective \in Clock
  BY <1>1 DEF TypeOK, Request, LeadRow
<1>3. /\ ld \in LeadRow /\ ld.owner = lead[l].owner /\ ld.asg = lead[l].asg
      /\ ld.next = effective
  BY <1>2 DEF LeadRow
<1>4. ld.owner # NoUser /\ q.primary # NoStatus
  BY <1>1, <1>3, UserAssumption, StatusAssumption DEF Saved
<1>5. ApplyRemark(l, ld, ld, q.user, q.primary, RequestKey(q), RequestHash(q), effective)
  BY DEF Saved
<1>. HIDE DEF ld, effective, l
<1>6. /\ state'[l].queue = "none"
      /\ q.primary # NoStatus /\ state'[l].override =>
           lead'[l].next = ld.next /\ (ld.next # NoTime \/ effective # NoTime)
      /\ \A m \in Leads \ {l} : lead'[m] = lead[m] /\ state'[m] = state[m]
  BY <1>1, <1>3, <1>4, <1>5, RemarkApplied
<1>7. Harmless(l)
  BY <1>3, <1>4, <1>6 DEF Harmless, ClosedNew, LostFollowup
<1>. QED BY <1>6, <1>7, Unchanged

\* invalidateLegacy: what is applied awaits a status; what is not leaves the row alone.
LEMMA InvalidateHarmless ==
  ASSUME TypeOK, NEW l \in Leads, NEW next, NEW key, NEW final,
         final.owner = lead[l].owner, final.asg = lead[l].asg,
         final.closed \/ final.next = lead[l].next \/ final.next # NoTime,
         Invalidate(l, next, final, key)
  PROVE  \A m \in Leads : Harmless(m)
<1>. DEFINE after == Invalidated(state[l], next # NoTime)
<1>1. /\ lead'[l] = final /\ \A m \in Leads \ {l} : lead'[m] = lead[m]
      /\ state[l] \in StateRow
  BY DEF Invalidate, TypeOK
<1>2. CASE ~UNCHANGED rowVars
  <2>1. state' = [state EXCEPT ![l] = after]
    BY <1>2 DEF Invalidate
  <2>2. after.queue = "none" /\ after.awaiting
    BY <1>1 DEF Invalidated, StateRow
  <2>. HIDE DEF after
  <2>3. state'[l].queue = "none" /\ state'[l].awaiting /\ \A m \in Leads \ {l} : state'[m] = state[m]
    BY <2>1, <2>2 DEF TypeOK
  <2>4. Harmless(l)
    BY <2>3 DEF Harmless, ClosedNew, LostFollowup
  <2>. QED BY <1>1, <2>3, <2>4, Unchanged
<1>3. CASE UNCHANGED rowVars
  <2>1. Harmless(l)
    BY <1>1, <1>3, RowAlone DEF rowVars
  <2>. QED BY <1>1, <1>3, <2>1, Unchanged DEF rowVars
<1>. QED BY <1>2, <1>3

\* Lifecycle commands: a follow-up is taken from a lead that is closed.
LEMMA CommandHarmless ==
  ASSUME TypeOK, NEW l \in Leads, NEW closed \in BOOLEAN, NEW next \in Clock,
         closed \/ next = lead[l].next \/ next # NoTime,
         InvalidateLegacy(l, closed, next)
  PROVE  \A m \in Leads : Harmless(m)
<1>. DEFINE final == [lead[l] EXCEPT !.closed = closed, !.next = next]
<1>1. /\ final.owner = lead[l].owner /\ final.asg = lead[l].asg
      /\ final.closed = closed /\ final.next = next
  BY DEF TypeOK, LeadRow
<1>2. \E key : Invalidate(l, next, final, key)
  BY DEF InvalidateLegacy
<1>. HIDE DEF final
<1>. QED BY <1>1, <1>2, InvalidateHarmless

\* syncLegacyPersonalMeeting.
LEMMA MeetingHarmless ==
  ASSUME TypeOK, NEW l \in Leads, NEW m \in Meetings, NEW closing \in BOOLEAN,
         SaveMeeting(l, m, closing)
  PROVE  \A n \in Leads : Harmless(n)
<1>. DEFINE closedOff == ClosedOff(lead[l])
            final == IF closing THEN [closedOff EXCEPT !.met = @ \cup {m}] ELSE lead[l]
            key == <<"meeting", m, 0>>
<1>1. /\ closedOff \in LeadRow /\ closedOff.owner = lead[l].owner
      /\ closedOff.asg = lead[l].asg /\ closedOff.closed
  BY ClosedOffRow DEF TypeOK
<1>2. Invalidate(l, lead[l].next, final, key)
  BY DEF SaveMeeting
<1>. HIDE DEF closedOff, key
<1>3. /\ final.owner = lead[l].owner /\ final.asg = lead[l].asg
      /\ final.closed \/ final.next = lead[l].next
  BY <1>1 DEF LeadRow
<1>. HIDE DEF final
<1>. QED BY <1>2, <1>3, InvalidateHarmless

\* A stage that is written past the adapters.
LEMMA StageHarmless ==
  ASSUME TypeOK, NEW l \in Leads, NEW closed, ChangeStage(l, closed)
  PROVE  \A m \in Leads : Harmless(m)
<1>1. /\ lead'[l].owner = lead[l].owner /\ lead'[l].asg = lead[l].asg
      /\ lead'[l].next = lead[l].next
      /\ \A m \in Leads \ {l} : lead'[m] = lead[m]
  BY DEF ChangeStage, TypeOK, LeadRow
<1>2. state' = state /\ events' = events
  BY DEF ChangeStage, rowVars
<1>3. Harmless(l)
  BY <1>1, <1>2, RowAlone
<1>. QED BY <1>1, <1>2, <1>3, Unchanged

LEMMA ScheduleHarmless ==
  ASSUME TypeOK, NEW l \in Leads, NEW o, NEW p, Schedule(l, o, p)
  PROVE  \A m \in Leads : Harmless(m)
<1>1. state[l] \in StateRow /\ lead' = lead
  BY DEF TypeOK, Schedule, leadVars
<1>2. MatchesAssignment(state[l], lead[l])
  BY DEF Schedule
<1>3. /\ state'[l] = [state[l] EXCEPT !.gen = @ + 1, !.oldAt = o, !.pendAt = p]
      /\ \A m \in Leads \ {l} : state'[m] = state[m]
  BY DEF Schedule, TypeOK
<1>4. /\ state'[l].queue = state[l].queue /\ state'[l].override = state[l].override
      /\ state'[l].awaiting = state[l].awaiting
  BY <1>1, <1>3 DEF StateRow
<1>5. Harmless(l)
  BY <1>1, <1>2, <1>4 DEF Harmless, ClosedNew, LostFollowup
<1>. QED BY <1>1, <1>3, <1>5, Unchanged

\* A new assignment leaves the row behind.
LEMMA AssignmentHarmless ==
  ASSUME TypeOK, NEW l \in Leads, AssignmentInv(l), OwnedRow(l), Assignments(l)
  PROVE  \A m \in Leads : Harmless(m)
<1>0. /\ state[l].asg \in Nat /\ serial \in Nat /\ state[l].asg <= serial
      /\ UNCHANGED rowVars
  <2>1. state[l] \in StateRow /\ serial \in 0..MaxAssignments
    BY DEF TypeOK
  <2>2. state[l].asg \in Nat
    BY <2>1, BoundAssumption DEF StateRow
  <2>3. serial \in Nat
    BY <2>1, BoundAssumption
  <2>4. state[l].asg <= serial
    BY DEF AssignmentInv
  <2>5. ASSUME NEW u, Reassign(l, u) \/ AssignPooled(l, u) PROVE UNCHANGED rowVars
    BY <2>5 DEF Reassign, AssignPooled
  <2>6. InsertHistory(l) \/ Unassign(l) => UNCHANGED rowVars
    BY DEF InsertHistory, Unassign
  <2>7. UNCHANGED rowVars
    BY <2>5, <2>6 DEF Assignments
  <2>. QED BY <2>2, <2>3, <2>4, <2>7
<1>1. ASSUME NEW u, Reassign(l, u) \/ AssignPooled(l, u) PROVE \A m \in Leads : Harmless(m)
  <2>1. lead'[l].asg = serial + 1 /\ \A m \in Leads \ {l} : lead'[m] = lead[m]
    BY <1>1 DEF Reassign, AssignPooled, TypeOK, LeadRow
  <2>2. ~MatchesAssignment(state'[l], lead'[l])
    BY <1>0, <2>1 DEF rowVars, MatchesAssignment
  <2>. QED BY <1>0, <2>1, <2>2, Unchanged, Unmatched DEF rowVars
<1>2. CASE InsertHistory(l)
  BY <1>0, <1>2, Unchanged DEF InsertHistory, rowVars
<1>3. CASE Unassign(l)
  <2>1. lead'[l].owner = NoUser /\ \A m \in Leads \ {l} : lead'[m] = lead[m]
    BY <1>3 DEF Unassign, TypeOK, LeadRow
  <2>2. ~MatchesAssignment(state'[l], lead'[l])
    BY <1>0, <2>1 DEF rowVars, MatchesAssignment, OwnedRow
  <2>. QED BY <1>0, <2>1, <2>2, Unchanged, Unmatched DEF rowVars
<1>. QED BY <1>1, <1>2, <1>3 DEF Assignments

\* The worker enrols no closed lead as New, and suspends for what is on the lead.
LEMMA WorkerHarmless ==
  ASSUME TypeOK, NEW w \in Workers, WorkerStep(w)
  PROVE  \A m \in Leads : Harmless(m)
<1>0. /\ \A l \in Leads : lead[l] \in LeadRow /\ state[l] \in StateRow
      /\ worker[w].leads \subseteq Leads /\ worker[w].rows \subseteq DueRow
  BY DEF TypeOK
<1>1. CASE StartTick(w) \/ ReadDueRows(w) \/ FinishTick(w)
  BY <1>1, Unchanged DEF StartTick, ReadDueRows, FinishTick, leadVars, rowVars
<1>2. ASSUME NEW l \in worker[w].leads, EnrollLead(w, l) PROVE \A m \in Leads : Harmless(m)
  <2>1. lead' = lead /\ l \in Leads
    BY <1>0, <1>2 DEF EnrollLead, leadVars
  <2>2. CASE UNCHANGED rowVars
    BY <2>1, <2>2, Unchanged DEF rowVars
  <2>3. CASE ~UNCHANGED rowVars
    <3>1. state' = [state EXCEPT ![l] = EnsureState(l, lead[l])]
      BY <1>2, <2>3 DEF EnrollLead
    <3>2. state'[l] = EnsureState(l, lead[l]) /\ \A m \in Leads \ {l} : state'[m] = state[m]
      BY <2>1, <3>1 DEF TypeOK
    <3>3. CASE MatchesAssignment(state[l], lead[l])
      BY <2>1, <3>2, <3>3, Unchanged DEF EnsureState
    <3>4. CASE ~MatchesAssignment(state[l], lead[l])
      <4>1. CASE IsNew(l, lead[l])
        <5>0. state'[l] = EnrolledNew(l, lead[l])
          BY <3>2, <3>4, <4>1 DEF EnsureState
        <5>1. ~lead[l].closed /\ state'[l].override = (lead[l].next # NoTime)
          BY <4>1, <5>0 DEF EnrolledNew, IsNew
        <5>2. Harmless(l)
          BY <2>1, <5>1 DEF Harmless, ClosedNew, LostFollowup
        <5>. QED BY <2>1, <3>2, <5>2, Unchanged
      <4>2. CASE ~IsNew(l, lead[l])
        <5>1. state'[l].queue = "none" /\ state'[l].awaiting
          BY <3>2, <3>4, <4>2 DEF EnsureState, EnrolledAwaiting
        <5>2. Harmless(l)
          BY <5>1 DEF Harmless, ClosedNew, LostFollowup
        <5>. QED BY <2>1, <3>2, <5>2, Unchanged
      <4>. QED BY <4>1, <4>2
    <3>. QED BY <3>3, <3>4
  <2>. QED BY <2>2, <2>3
<1>3. ASSUME NEW row \in worker[w].rows, ProcessRow(w, row) PROVE \A m \in Leads : Harmless(m)
  <2>. DEFINE l == row.lead
  <2>1. row \in DueRow /\ l \in Leads /\ row.kind # "new"
    BY <1>0 DEF DueRow
  <2>2. CASE Reconciles(row)
    <3>. DEFINE key == <<"remark", NewestRemark(l).id, 0>>
    <3>1. ObserveRemark(l, lead[l], lead[l], lead[l].owner, NoStatus, key, NoTime)
      BY <1>3, <2>2, ReconcilesExcludesTransitions DEF ProcessRow
    <3>. HIDE DEF key
    <3>2. CASE Observed(l, lead[l], lead[l].owner) /\ key \notin KeysOf(l)
      <4>1. ApplyRemark(l, lead[l], lead[l], lead[l].owner, NoStatus, key, <<>>, NoTime)
            /\ lead[l].owner # NoUser
        BY <3>1, <3>2 DEF ObserveRemark, Observed
      <4>2. /\ state'[l].queue = "none" /\ state'[l].awaiting
            /\ \A m \in Leads \ {l} : lead'[m] = lead[m] /\ state'[m] = state[m]
        BY <1>0, <2>1, <4>1, RemarkApplied
      <4>3. Harmless(l)
        BY <4>2 DEF Harmless, ClosedNew, LostFollowup
      <4>. QED BY <4>2, <4>3, Unchanged
    <3>3. CASE ~(Observed(l, lead[l], lead[l].owner) /\ key \notin KeysOf(l))
      <4>1. lead' = [lead EXCEPT ![l] = lead[l]] /\ UNCHANGED rowVars
        BY <3>1, <3>3 DEF ObserveRemark
      <4>. QED BY <4>1, Unchanged DEF TypeOK, rowVars
    <3>. QED BY <3>2, <3>3
  <2>3. CASE Transitions(row)
    <3>1. lead' = lead /\ state' = [state EXCEPT ![l] = Aged(state[l], row.kind)]
      BY <1>3, <2>3, ReconcilesExcludesTransitions DEF ProcessRow
    <3>2. state'[l] = Aged(state[l], row.kind) /\ \A m \in Leads \ {l} : state'[m] = state[m]
      BY <2>1, <3>1 DEF TypeOK
    <3>3. /\ state'[l].queue # "new" /\ state'[l].override = state[l].override
          /\ state'[l].awaiting = state[l].awaiting /\ state'[l].gen = state[l].gen
          /\ state'[l].owner = state[l].owner /\ state'[l].asg = state[l].asg
      BY <1>0, <2>1, <3>2 DEF Aged, StateRow
    <3>4. Harmless(l)
      BY <3>1, <3>3 DEF Harmless, ClosedNew, LostFollowup, MatchesAssignment
    <3>. QED BY <3>1, <3>2, <3>4, Unchanged
  <2>4. CASE ~Reconciles(row) /\ ~Transitions(row)
    <3>1. UNCHANGED <<lead, rowVars>>
      BY <1>3, <2>4 DEF ProcessRow
    <3>. QED BY <3>1, Unchanged DEF rowVars
  <2>. QED BY <2>2, <2>3, <2>4
<1>. QED BY <1>1, <1>2, <1>3 DEF WorkerStep

\* No step does anything worse.
LEMMA StepsHarmless ==
  ASSUME TypeOK, QueueInv, \A l \in Leads : OwnedRow(l), [Next]_vars
  PROVE  \A m \in Leads : Harmless(m)
<1>1. ASSUME UNCHANGED <<lead, state>> PROVE \A m \in Leads : Harmless(m)
  BY <1>1, Unchanged
<1>2. CASE UNCHANGED vars \/ Tick \/ \E w \in Workers : Faults(w)
  BY <1>1, <1>2 DEF vars, Tick, Faults, RowFails, Crash, LoseLock, leadVars, rowVars
<1>3. CASE Clients
  <2>1. CASE \E q \in requests : Saved(q)
    BY <2>1, SavedHarmless
  <2>2. CASE ~ \E q \in requests : Saved(q)
    BY <1>1, <1>3, <2>2 DEF Clients, Submit, RecordRemark, Refused, leadVars, rowVars
  <2>. QED BY <2>1, <2>2
<1>4. ASSUME NEW l \in Leads, Handlers(l) PROVE \A m \in Leads : Harmless(m)
  <2>0. lead[l] \in LeadRow /\ lead[l].closed \in BOOLEAN /\ lead[l].next \in Clock
    BY DEF TypeOK, LeadRow
  <2>1. CASE \E u \in Actors, p \in Statuses \cup {NoStatus},
               f \in FollowupChoices \cup {NoTime}, closed, closing \in BOOLEAN :
               LegacyRemark(l, u, p, f, closed, closing)
    BY <2>1, LegacyHarmless
  <2>2. CASE \E u \in Actors, p \in Timed \cup {NoStatus},
               f \in FollowupChoices \cup {NoTime}, closed \in {lead[l].closed, FALSE} :
               CallAttempt(l, u, p, f, closed)
    BY <2>2, AttemptHarmless
  <2>3. CASE \E u \in Actors : Conversion(l, u) \/ ImportNote(l, u)
    BY <1>1, <2>3, ConversionHarmless DEF ImportNote, leadVars, rowVars
  <2>4. CASE \/ CloseLifecycle(l) \/ ProgressLifecycle(l)
             \/ \E f \in FollowupChoices : ReopenLifecycle(l, f)
    <3>1. NoTime \in Clock /\ \A f \in FollowupChoices : f \in Clock /\ f # NoTime
      BY BoundAssumption DEF Clock, NoTime
    <3>. QED BY <2>0, <2>4, <3>1, CommandHarmless
         DEF CloseLifecycle, ProgressLifecycle, ReopenLifecycle
  <2>5. CASE \E o, p \in ScheduleChoices \cup {NoTime} : Schedule(l, o, p)
    BY <2>5, ScheduleHarmless
  <2>6. CASE \/ \E u \in Actors, closing \in BOOLEAN : LegacyLevel(l, u, closing)
             \/ \E m \in Meetings, closing \in BOOLEAN : SaveMeeting(l, m, closing)
             \/ \E closed \in Stages : ChangeStage(l, closed)
    BY <2>6, LevelHarmless, MeetingHarmless, StageHarmless
  <2>. QED BY <1>4, <2>1, <2>2, <2>3, <2>4, <2>5, <2>6 DEF Handlers
<1>5. CASE \E l \in Leads : Assignments(l)
  BY <1>5, AssignmentHarmless DEF QueueInv
<1>6. CASE \E w \in Workers : WorkerStep(w)
  BY <1>6, WorkerHarmless
<1>. QED BY <1>2, <1>3, <1>4, <1>5, <1>6 DEF Next

\* A closed lead becomes New only by a step that the workflow does not record: row and
\* events are left alone, and the lead was open before.
THEOREM ClosedNewUnrecordedHolds == Spec => ClosedNewUnrecorded
<1>. DEFINE Unrecorded == \A l \in Leads : ClosedNew(l)' /\ ~ClosedNew(l) =>
       /\ state'[l] = state[l] /\ events'[l] = events[l]
       /\ ~lead[l].closed
     Owned == \A l \in Leads : OwnedRow(l)
<1>1. TypeOK /\ QueueInv /\ Owned /\ [Next]_vars => [Unrecorded]_vars
  <2>. SUFFICES ASSUME TypeOK, QueueInv, Owned, [Next]_vars PROVE Unrecorded
    OBVIOUS
  <2>1. \A m \in Leads : Harmless(m)
    BY StepsHarmless
  <2>. QED BY <2>1 DEF Harmless
<1>. HIDE DEF Owned
<1>2. Spec => []Owned
  BY OwnedInvariant DEF Owned
<1>. QED BY <1>1, <1>2, TypeCorrect, QueueInvariant, PTL DEF Spec, ClosedNewUnrecorded

\* A step that leaves the lead open takes the follow-up of its journey from it in one
\* way: it is a call attempt.
THEOREM OnlyAttemptsLoseFollowupHolds == Spec => OnlyAttemptsLoseFollowup
<1>. DEFINE Kept == \A l \in Leads : LostFollowup(l)' /\ ~LostFollowup(l) /\ ~lead'[l].closed =>
       \E e \in events'[l] \ events[l] : e.key = <<"attempt", remarkSeq', 0>>
     Owned == \A l \in Leads : OwnedRow(l)
<1>1. TypeOK /\ QueueInv /\ Owned /\ [Next]_vars => [Kept]_vars
  <2>. SUFFICES ASSUME TypeOK, QueueInv, Owned, [Next]_vars PROVE Kept
    OBVIOUS
  <2>1. \A m \in Leads : Harmless(m)
    BY StepsHarmless
  <2>. QED BY <2>1 DEF Harmless, AttemptAdded
<1>. HIDE DEF Owned
<1>2. Spec => []Owned
  BY OwnedInvariant DEF Owned
<1>. QED BY <1>1, <1>2, TypeCorrect, QueueInvariant, PTL DEF Spec, OnlyAttemptsLoseFollowup
=============================================================================
