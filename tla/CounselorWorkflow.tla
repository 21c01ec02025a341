-------------------------- MODULE CounselorWorkflow --------------------------
(***************************************************************************)
(* The counselor workflow of the CRM backend: for every lead a New/Old/    *)
(* Pending queue position and the deadlines that age it                    *)
(* (services/counselorWorkflowService.js, tables of migration 074).        *)
(*                                                                         *)
(* Every command runs in one database transaction that first locks the     *)
(* lead's row (lockLead, SELECT ... FOR UPDATE), so a command on one lead  *)
(* is one step.  Concurrency is between the commands and the background    *)
(* worker: the worker reads a list of due rows, and handles each of them   *)
(* later in a transaction of its own.                                      *)
(*                                                                         *)
(* assigned_at is unique to the microsecond and is compared for equality,  *)
(* so it is modelled by the serial number of the assignment ("asg", 0 for  *)
(* an assignment older than the rollout cutoff or none); the hour it       *)
(* falls in, from which deadlines are computed, is "at".                   *)
(***************************************************************************)
EXTENDS Integers, FiniteSets

CONSTANTS
  Leads, Counselors, Managers, NoUser,
  Statuses,            \* primary statuses a counselor may select
  Terminal,            \* TERMINAL: converted, cold, not_interested
  Timed,               \* statuses with an aging policy
  NoStatus,
  OldDue(_, _),        \* (status, start) -> move_to_old_at of journeyDeadlines
  PendingDue(_, _),    \* (status, start) -> move_to_pending_at
  NewDue(_),           \* assigned_at -> move_to_pending_at of a New lead
  Workers, NoWorker,   \* backend processes that run the worker
  Limit,               \* rows per worker batch
  FollowupChoices, ScheduleChoices, RequestKeys,
  Meetings,            \* personal meetings of a lead, as somebody may save them
  Stages,              \* what a bulk action or a pull may write: closing or open stages
  MaxTime, MaxGeneration, MaxAssignments, MaxRemarks, MaxRequests, MaxFaults

NoTime == -1
Keep == -2             \* a request that carries no next_followup_at

ASSUME UserAssumption ==
  /\ NoUser \notin Counselors \cup Managers
  /\ Counselors \cap Managers = {}
ASSUME StatusAssumption ==
  /\ NoStatus \notin Statuses
  /\ Terminal \subseteq Statuses
  /\ Timed \subseteq Statuses \ Terminal
\* What the policies guarantee: deadlines lie ahead, and Old comes before Pending.
ASSUME PolicyAssumption ==
  /\ \A t \in 0..MaxTime : NewDue(t) \in Nat /\ NewDue(t) > t
  /\ \A s \in Timed, t \in 0..MaxTime :
       /\ OldDue(s, t) \in Nat /\ PendingDue(s, t) \in Nat
       /\ t <= OldDue(s, t) /\ OldDue(s, t) <= PendingDue(s, t)
ASSUME BoundAssumption ==
  /\ MaxTime \in Nat /\ MaxGeneration \in Nat /\ MaxAssignments \in Nat
  /\ MaxRemarks \in Nat /\ MaxRequests \in Nat /\ MaxFaults \in Nat
  /\ FollowupChoices \subseteq Nat /\ ScheduleChoices \subseteq Nat
  /\ Stages \subseteq BOOLEAN
  /\ NoWorker \notin Workers /\ Limit \in Nat \ {0}

VARIABLES
  now,        \* the clock
  lead,       \* rows of leads: owner, assignment, next_followup_at, closed;
              \* met: meetings by which the lifecycle has closed the lead
  history,    \* newest open lead_assignments row of the lead
  state,      \* rows of counselor_workflow_state; generation 0 is "no row"
  events,     \* rows of counselor_workflow_events
  remarks,    \* rows of lead_remarks
  serial,     \* last assignment / history serial given out
  remarkSeq,  \* last remark id given out
  requests,   \* versioned requests the clients have sent
  replies,    \* what they were answered
  worker,     \* per process: phase and the rows it read
  advisory,   \* holder of the advisory lock (74001,1)
  faults      \* crashes and failed transactions so far

leadVars == <<lead, history, serial>>
rowVars == <<state, events>>
clientVars == <<requests, replies>>
workerVars == <<worker, advisory, faults>>
vars == <<now, leadVars, rowVars, remarks, remarkSeq, clientVars, workerVars>>

Actors == Counselors \cup Managers
Queues == {"none", "new", "old", "pending"}
Clock == Nat \cup {NoTime}
LeadRow == [owner : Counselors \cup {NoUser}, asg : Nat, at : 0..MaxTime,
            next : Clock, closed : BOOLEAN, met : SUBSET Meetings]
HistoryRow == [id : Nat, asg : Nat]
StateRow == [gen : Nat, primary : Statuses \cup {NoStatus}, active : BOOLEAN,
             queue : Queues, owner : Counselors \cup {NoUser}, asg : Nat,
             row : Nat, oldAt : Clock, pendAt : Clock,
             override : BOOLEAN, awaiting : BOOLEAN]
DueRow == [lead : Leads, gen : Nat, kind : {"old", "pending"}, due : Nat]
Remark == [id : Nat, by : Actors, asg : Nat]
Request == [user : Counselors, lead : Leads, key : RequestKeys,
            primary : Statuses, followup : Clock \cup {Keep}, expected : Nat]

NoRow == [gen |-> 0, primary |-> NoStatus, active |-> FALSE, queue |-> "none",
          owner |-> NoUser, asg |-> 0, row |-> 0, oldAt |-> NoTime,
          pendAt |-> NoTime, override |-> FALSE, awaiting |-> FALSE]
NoHistory == [id |-> 0, asg |-> 0]
Idle == [phase |-> "idle", leads |-> {}, rows |-> {}]

-----------------------------------------------------------------------------
(* Reading and enrolling the state row. *)

MatchesAssignment(s, ld) == s.gen > 0 /\ s.owner = ld.owner /\ s.asg = ld.asg

\* counselorRemark: a remark by the owner since the current assignment.
CounselorRemarks(l, ld) == {r \in remarks[l] : r.by = ld.owner /\ r.asg = ld.asg}

\* A history row written in the transaction of the assignment carries the same
\* timestamp; one that the previous enrolment already used is not fresh.
FreshAssignment(l, ld) ==
  history[l].id # 0 /\ history[l].asg = ld.asg /\ history[l].id # state[l].row

IsNew(l, ld) ==
  /\ ld.asg > 0
  /\ state[l].gen = 0 \/ FreshAssignment(l, ld)
  /\ CounselorRemarks(l, ld) = {}
  /\ ~ld.closed

EnrolledNew(l, ld) ==
  [gen |-> state[l].gen + 1, primary |-> NoStatus, active |-> FALSE,
   queue |-> "new", owner |-> ld.owner, asg |-> ld.asg, row |-> history[l].id,
   oldAt |-> NoTime, pendAt |-> NewDue(ld.at),
   override |-> ld.next # NoTime, awaiting |-> FALSE]

EnrolledAwaiting(l, ld) ==
  [gen |-> state[l].gen + 1, primary |-> state[l].primary, active |-> FALSE,
   queue |-> "none", owner |-> ld.owner, asg |-> ld.asg, row |-> history[l].id,
   oldAt |-> NoTime, pendAt |-> NoTime,
   override |-> ld.next # NoTime, awaiting |-> TRUE]

\* Mutants of EnsureState: the generation restarts with the assignment; the row
\* is kept when a lead comes back to its counselor.
EnsureStateRestart(l, ld) ==
  IF MatchesAssignment(state[l], ld) THEN state[l]
  ELSE [EnrolledAwaiting(l, ld) EXCEPT !.gen = 1]
EnsureStateKeepOwner(l, ld) ==
  IF state[l].gen > 0 /\ state[l].owner = ld.owner THEN state[l]
  ELSE IF IsNew(l, ld) THEN EnrolledNew(l, ld) ELSE EnrolledAwaiting(l, ld)

EnsureState(l, ld) ==
  IF MatchesAssignment(state[l], ld) THEN state[l]
  ELSE IF IsNew(l, ld) THEN EnrolledNew(l, ld) ELSE EnrolledAwaiting(l, ld)

Event(s, type, key, source, hash) ==
  [key |-> key, type |-> type, gen |-> s.gen, asg |-> s.asg,
   source |-> source, hash |-> hash]

\* Mutant: the key of the event leaves the generation out.
EnsureEventsByHistory(l, ld) ==
  IF MatchesAssignment(state[l], ld) THEN {}
  ELSE {Event(EnsureState(l, ld), "assigned", <<"assignment", 0, history[l].id>>, "none", <<>>)}

EnsureEvents(l, ld) ==
  IF MatchesAssignment(state[l], ld) THEN {}
  ELSE {Event(EnsureState(l, ld), "assigned",
              <<"assignment", EnsureState(l, ld).gen, history[l].id>>, "none", <<>>)}

KeysOf(l) == {e.key : e \in events[l]}

-----------------------------------------------------------------------------
(* applyRemark: the state after a remark.  An explicit primary starts a     *)
(* journey; a legacy remark waits for one.                                  *)

WorkSource(queue) ==
  CASE queue = "new" -> "new" [] queue \in {"old", "pending"} -> "old"
    [] OTHER -> "none"

JourneyDeadlines(p, t) ==
  IF p \in Timed THEN [old |-> OldDue(p, t), pending |-> PendingDue(p, t)]
  ELSE [old |-> NoTime, pending |-> NoTime]

Journey(prior, p, followup) ==
  [prior EXCEPT !.gen = @ + 1, !.primary = p, !.active = TRUE, !.queue = "none",
                !.awaiting = FALSE,
                !.oldAt = JourneyDeadlines(p, now).old,
                !.pendAt = JourneyDeadlines(p, now).pending,
                !.override = IF p \in Terminal THEN FALSE ELSE followup]

\* Mutant: awaiting is stored as a queue of its own.
InvalidatedAsQueue(prior, followup) ==
  [prior EXCEPT !.gen = @ + 1, !.active = FALSE, !.queue = "awaiting",
                !.oldAt = NoTime, !.pendAt = NoTime, !.override = followup]

Invalidated(prior, followup) ==
  [prior EXCEPT !.gen = @ + 1, !.active = FALSE, !.queue = "none",
                !.awaiting = TRUE, !.oldAt = NoTime, !.pendAt = NoTime,
                !.override = followup]

\* Mutants of AfterRemark: the queue, or the old deadlines, survive a remark.
AfterRemarkKeepQueue(prior, p, followup) ==
  IF p = NoStatus THEN Invalidated(prior, followup)
  ELSE [Journey(prior, p, followup) EXCEPT !.queue = prior.queue]
AfterRemarkKeepDeadline(prior, p, followup) ==
  IF p = NoStatus THEN Invalidated(prior, followup)
  ELSE IF p \in Timed THEN Journey(prior, p, followup)
  ELSE [Journey(prior, p, followup) EXCEPT !.oldAt = prior.oldAt, !.pendAt = prior.pendAt]
AfterRemark(prior, p, followup) ==
  IF p = NoStatus THEN Invalidated(prior, followup) ELSE Journey(prior, p, followup)

RemarkEvent(l, ld, u, p, key, hash, after) ==
  Event(after, IF p = NoStatus THEN "legacy_observed" ELSE "remark_saved", key,
        IF u = ld.owner THEN WorkSource(EnsureState(l, ld).queue) ELSE "none", hash)

\* Working a due follow-up clears it; a future one keeps priority.
WorksDueFollowup(ld, p) == p # NoStatus /\ ld.next # NoTime /\ ld.next <= now

\* ld is the lead as the workflow reads it, final the lead as the handler leaves it.
ApplyRemark(l, ld, final, u, p, key, hash, followup) ==
  LET works == WorksDueFollowup(ld, p)
      cleared == IF works THEN [ld EXCEPT !.next = NoTime] ELSE ld
      suspended == cleared.next # NoTime \/ (~works /\ followup # NoTime)
      after == AfterRemark(EnsureState(l, cleared), p, suspended)
  IN /\ lead' = [lead EXCEPT ![l] =
          IF works THEN [final EXCEPT !.next = NoTime] ELSE final]
     /\ state' = [state EXCEPT ![l] = after]
     /\ events' = [events EXCEPT ![l] =
          @ \cup EnsureEvents(l, cleared)
            \cup {RemarkEvent(l, cleared, u, p, key, hash, after)}]

\* A command adds at most one enrolment and one remark to the generation.
HasRoom(l) == state[l].gen + 2 <= MaxGeneration

-----------------------------------------------------------------------------
(* recordRemark: the versioned request of the new clients. *)

Submit(u, l, k, p, f) ==
  /\ Cardinality(requests) < MaxRequests
  /\ requests' = requests \cup
       {[user |-> u, lead |-> l, key |-> k, primary |-> p, followup |-> f,
         expected |-> state[l].gen]}
  /\ UNCHANGED <<now, leadVars, rowVars, remarks, remarkSeq, replies, workerVars>>

RequestKey(q) == <<"request", q.user, q.key>>
RequestHash(q) == <<q.primary, q.followup>>
Prior(q) == {e \in events[q.lead] : e.key = RequestKey(q)}
Answered(q, result) == replies' = replies \cup {[request |-> q, result |-> result]}

\* Mutant: the generation is compared before the key is looked up.
RefusedVersionFirst(q) ==
  LET refusal ==
        IF lead[q.lead].owner # q.user THEN "forbidden"
        ELSE IF q.expected # state[q.lead].gen THEN "generation_conflict"
        ELSE IF Prior(q) # {} THEN "duplicate" ELSE "none"
  IN /\ refusal # "none"
     /\ Answered(q, refusal)
     /\ UNCHANGED <<now, leadVars, rowVars, remarks, remarkSeq, requests, workerVars>>

Refused(q) ==
  LET refusal ==
        IF lead[q.lead].owner # q.user THEN "forbidden"
        ELSE IF \E e \in Prior(q) : e.hash # RequestHash(q) THEN "key_conflict"
        ELSE IF Prior(q) # {} THEN "duplicate"
        ELSE IF q.expected # state[q.lead].gen THEN "generation_conflict"
        ELSE "none"
  IN /\ refusal # "none"
     /\ Answered(q, refusal)
     /\ UNCHANGED <<now, leadVars, rowVars, remarks, remarkSeq, requests, workerVars>>

Saved(q) ==
  LET l == q.lead
      effective == IF q.followup = Keep THEN lead[l].next ELSE q.followup
  IN /\ lead[l].owner = q.user
     /\ Prior(q) = {}
     /\ q.expected = state[l].gen
     /\ HasRoom(l) /\ remarkSeq < MaxRemarks
     /\ remarkSeq' = remarkSeq + 1
     /\ remarks' = [remarks EXCEPT ![l] =
          @ \cup {[id |-> remarkSeq + 1, by |-> q.user, asg |-> lead[l].asg]}]
     /\ LET ld == [lead[l] EXCEPT !.next = effective] IN
        ApplyRemark(l, ld, ld, q.user, q.primary, RequestKey(q), RequestHash(q), effective)
     /\ Answered(q, "saved")
     /\ UNCHANGED <<now, history, serial, requests, workerVars>>

\* A request is handled as often as the client sends it.
RecordRemark(q) == Saved(q) \/ Refused(q)

-----------------------------------------------------------------------------
(* observeRemark and invalidateLegacy: the adapters of the older handlers,   *)
(* called in the handler's transaction after it changed the lead.           *)

\* Another actor's note on an open New lead, or on an unmanaged lead, is not
\* counselor work and leaves the state alone.
Observed(l, ld, u) ==
  /\ ld.owner # NoUser
  /\ u = ld.owner \/ (state[l].gen > 0 /\ ~(state[l].queue = "new" /\ ~ld.closed))

ObserveRemark(l, ld, final, u, p, key, followup) ==
  IF Observed(l, ld, u) /\ key \notin KeysOf(l)
  THEN ApplyRemark(l, ld, final, u, p, key, <<>>, followup)
  ELSE lead' = [lead EXCEPT ![l] = final] /\ UNCHANGED rowVars

\* What the lifecycle makes of a lead it closes.
ClosedOff(ld) == [ld EXCEPT !.closed = TRUE, !.next = NoTime]

\* createLeadInteraction and createLeadCallLog: a note, a follow-up, a stage or a
\* call status, which may close the lead.  An explicit primary is accepted from the
\* assigned counselor only.  When the workflow has observed the remark,
\* syncLegacyRemark closes the lead if the first status of the request, which need
\* not be the primary one, tells it to.
LegacyRemark(l, u, p, f, closed, closing) ==
  LET ld == [lead[l] EXCEPT !.closed = closed, !.next = IF f = NoTime THEN @ ELSE f]
      final == IF closing THEN ClosedOff(ld) ELSE ld
  IN /\ HasRoom(l) /\ remarkSeq < MaxRemarks
     /\ p # NoStatus => u = lead[l].owner
     /\ remarkSeq' = remarkSeq + 1
     /\ remarks' = [remarks EXCEPT ![l] =
          @ \cup {[id |-> remarkSeq + 1, by |-> u, asg |-> lead[l].asg]}]
     /\ ObserveRemark(l, ld, final, u, p, <<"remark", remarkSeq + 1, 0>>, f)
     /\ UNCHANGED <<now, history, serial, clientVars, workerVars>>

\* syncLegacyLeadLevel: observed under the id of its history row, then closed.
LegacyLevel(l, u, closing) ==
  /\ HasRoom(l) /\ remarkSeq < MaxRemarks
  /\ remarkSeq' = remarkSeq + 1
  /\ ObserveRemark(l, lead[l], IF closing THEN ClosedOff(lead[l]) ELSE lead[l], u, NoStatus,
                   <<"level", remarkSeq + 1, 0>>, NoTime)
  /\ UNCHANGED <<now, history, serial, remarks, clientVars, workerVars>>

\* completeScheduledAttempt with a retryable outcome: the follow-up of the
\* request reaches the workflow, leads.next_followup_at is not written.  The new
\* call status may undo an earlier closing one.
CallAttempt(l, u, p, f, closed) ==
  /\ HasRoom(l) /\ remarkSeq < MaxRemarks
  /\ IF u \in Counselors THEN p \in Timed /\ u = lead[l].owner ELSE p = NoStatus
  /\ remarkSeq' = remarkSeq + 1
  /\ ObserveRemark(l, lead[l], [lead[l] EXCEPT !.closed = closed], u, p,
                   <<"attempt", remarkSeq + 1, 0>>, f)
  /\ UNCHANGED <<now, history, serial, remarks, clientVars, workerVars>>

\* POST workflow/conversion: lead_conversion holds one row per lead, so its id,
\* and with it the key, is the same for every conversion of the lead.  The
\* lifecycle's own sync clears the follow-up the first time.
Conversion(l, u) ==
  /\ HasRoom(l)
  /\ \E next \in {lead[l].next, NoTime} :
       LET ld == [lead[l] EXCEPT !.closed = TRUE, !.next = next] IN
       ObserveRemark(l, ld, ld, u, NoStatus, <<"conversion", 0, 0>>, NoTime)
  /\ UNCHANGED <<now, history, serial, remarks, remarkSeq, clientVars, workerVars>>

\* Written past the adapters: the stage by a bulk action or by a sheet's pull, which
\* inserts the counselor's note in a statement of its own.
ChangeStage(l, closed) ==
  /\ lead' = [lead EXCEPT ![l].closed = closed]
  /\ UNCHANGED <<now, history, serial, rowVars, remarks, remarkSeq, clientVars, workerVars>>

ImportNote(l, u) ==
  /\ remarkSeq < MaxRemarks
  /\ remarkSeq' = remarkSeq + 1
  /\ remarks' = [remarks EXCEPT ![l] =
       @ \cup {[id |-> remarkSeq + 1, by |-> u, asg |-> lead[l].asg]}]
  /\ UNCHANGED <<now, leadVars, rowVars, clientVars, workerVars>>

\* A managed row is invalidated, once for each origin; next is the follow-up as the
\* workflow reads it, final the lead as the handler leaves it.
Invalidate(l, next, final, key) ==
  LET after == Invalidated(state[l], next # NoTime)
  IN /\ HasRoom(l)
     /\ lead' = [lead EXCEPT ![l] = final]
     /\ IF lead[l].owner # NoUser /\ state[l].gen > 0 /\ key \notin KeysOf(l)
        THEN /\ state' = [state EXCEPT ![l] = after]
             /\ events' = [events EXCEPT ![l] =
                  @ \cup {Event(after, "legacy_changed", key, "none", <<>>)}]
        ELSE UNCHANGED rowVars
     /\ UNCHANGED <<now, history, serial, remarks, remarkSeq, clientVars, workerVars>>

\* syncLegacyPersonalMeeting: the origin is what is saved of the meeting.  The
\* lifecycle is closed afterwards, once for each meeting: the first time it is open
\* and managed, which need not be the first time the meeting is saved.
SaveMeeting(l, m, closing) ==
  LET final == [ClosedOff(lead[l]) EXCEPT !.met = @ \cup {m}] IN
  /\ closing => m \notin lead[l].met
  /\ Invalidate(l, lead[l].next, IF closing THEN final ELSE lead[l], <<"meeting", m, 0>>)

\* Lifecycle commands (record, complete, close, reopen): the lead's fields, then
\* invalidateLegacy with an origin of its own.
InvalidateLegacy(l, closed, next) ==
  Invalidate(l, next, [lead[l] EXCEPT !.closed = closed, !.next = next],
             <<"legacy", state[l].gen + 1, 0>>)

\* The lifecycle's own terminal state is not kept here, so a reopening, which
\* always comes with a follow-up, may come at any time.
CloseLifecycle(l) == InvalidateLegacy(l, TRUE, NoTime)
ReopenLifecycle(l, f) == InvalidateLegacy(l, FALSE, f)
ProgressLifecycle(l) == InvalidateLegacy(l, lead[l].closed, lead[l].next)

-----------------------------------------------------------------------------
(* schedule: replacement of the deadlines. *)

Schedule(l, oldAt, pendAt) ==
  LET s == state[l]
      after == [s EXCEPT !.gen = @ + 1, !.oldAt = oldAt, !.pendAt = pendAt]
  IN /\ HasRoom(l)
     /\ lead[l].owner # NoUser
     /\ MatchesAssignment(s, lead[l]) /\ ~s.awaiting /\ s.primary \notin Terminal
     /\ oldAt # NoTime => s.active /\ s.primary # NoStatus /\ s.queue # "old"
     /\ s.queue # "pending"
     /\ oldAt # NoTime /\ pendAt # NoTime => oldAt <= pendAt
     /\ state' = [state EXCEPT ![l] = after]
     /\ events' = [events EXCEPT ![l] =
          @ \cup {Event(after, "scheduled", <<"schedule", after.gen, 0>>, "none", <<>>)}]
     /\ UNCHANGED <<now, leadVars, remarks, remarkSeq, clientVars, workerVars>>

-----------------------------------------------------------------------------
(* Assignment, as the distribution services perform it. *)

\* One transaction writes the lead and the history row with the same NOW().
Reassign(l, u) ==
  /\ serial < MaxAssignments
  /\ serial' = serial + 1
  /\ lead' = [lead EXCEPT ![l].owner = u, ![l].asg = serial + 1, ![l].at = now]
  /\ history' = [history EXCEPT ![l] = [id |-> serial + 1, asg |-> serial + 1]]
  /\ UNCHANGED <<now, rowVars, remarks, remarkSeq, clientVars, workerVars>>

\* Handlers that run each statement on its own: the check that the lead is free
\* (it may no longer be), then the lead ...
AssignPooled(l, u) ==
  /\ serial < MaxAssignments
  /\ serial' = serial + 1
  /\ lead' = [lead EXCEPT ![l].owner = u, ![l].asg = serial + 1, ![l].at = now]
  /\ history' = [history EXCEPT ![l] = NoHistory]
  /\ UNCHANGED <<now, rowVars, remarks, remarkSeq, clientVars, workerVars>>

\* ... then the history row, with a timestamp of its own, unless they crash.
InsertHistory(l) ==
  /\ serial < MaxAssignments
  /\ lead[l].asg > 0 /\ history[l] = NoHistory
  /\ serial' = serial + 1
  /\ history' = [history EXCEPT ![l] = [id |-> serial + 1, asg |-> 0]]
  /\ UNCHANGED <<now, lead, rowVars, remarks, remarkSeq, clientVars, workerVars>>

Unassign(l) ==
  /\ lead[l].owner # NoUser
  /\ lead' = [lead EXCEPT ![l].owner = NoUser, ![l].asg = 0, ![l].at = 0]
  /\ history' = [history EXCEPT ![l] = NoHistory]
  /\ UNCHANGED <<now, serial, rowVars, remarks, remarkSeq, clientVars, workerVars>>

-----------------------------------------------------------------------------
(* The worker: tick, tickBatch, processDeadline.                            *)

Unenrolled(l) ==
  /\ lead[l].owner \in Counselors
  /\ lead[l].asg > 0
  /\ ~MatchesAssignment(state[l], lead[l])

DueAt(s) == IF s.oldAt # NoTime THEN s.oldAt ELSE s.pendAt

\* The WHERE clause of the batch query.
Selected(l) ==
  LET s == state[l] IN
  /\ ~s.override /\ ~s.awaiting
  /\ lead[l].next = NoTime /\ lead[l].owner \in Counselors
  /\ MatchesAssignment(s, lead[l])
  /\ DueAt(s) # NoTime /\ DueAt(s) <= now

RowOf(l) ==
  [lead |-> l, gen |-> state[l].gen,
   kind |-> IF state[l].oldAt # NoTime THEN "old" ELSE "pending",
   due |-> DueAt(state[l])]

\* ORDER BY key LIMIT Limit.
Batch(S, key) ==
  {T \in SUBSET S :
     /\ Cardinality(T) = IF Cardinality(S) < Limit THEN Cardinality(S) ELSE Limit
     /\ \A x \in T, y \in S \ T : key[x] <= key[y]}

\* pg_try_advisory_xact_lock, and the first query of the batch.
StartTick(w) ==
  /\ worker[w] = Idle /\ advisory = NoWorker
  /\ advisory' = w
  /\ \E ls \in Batch({l \in Leads : Unenrolled(l)}, [l \in Leads |-> lead[l].asg]) :
       worker' = [worker EXCEPT ![w] = [phase |-> "enroll", leads |-> ls, rows |-> {}]]
  /\ UNCHANGED <<now, leadVars, rowVars, remarks, remarkSeq, clientVars, faults>>

\* Enrolment re-reads the lead under its lock.
EnrollLead(w, l) ==
  /\ worker[w].phase = "enroll" /\ l \in worker[w].leads
  /\ worker' = [worker EXCEPT ![w].leads = @ \ {l}]
  /\ IF lead[l].owner \in Counselors /\ lead[l].asg > 0
     THEN /\ state' = [state EXCEPT ![l] = EnsureState(l, lead[l])]
          /\ events' = [events EXCEPT ![l] = @ \cup EnsureEvents(l, lead[l])]
     ELSE UNCHANGED rowVars
  /\ UNCHANGED <<now, leadVars, remarks, remarkSeq, clientVars, advisory, faults>>

ReadDueRows(w) ==
  /\ worker[w].phase = "enroll" /\ worker[w].leads = {}
  /\ \E ls \in Batch({l \in Leads : Selected(l)}, [l \in Leads |-> DueAt(state[l])]) :
       worker' = [worker EXCEPT ![w] =
         [phase |-> "process", leads |-> {}, rows |-> {RowOf(l) : l \in ls}]]
  /\ UNCHANGED <<now, leadVars, rowVars, remarks, remarkSeq, clientVars, advisory, faults>>

\* The row still describes a due deadline of the current assignment.
Actionable(row) ==
  LET s == state[row.lead]
      ld == lead[row.lead]
  IN /\ ~s.override /\ ld.next = NoTime
     /\ s.gen = row.gen /\ MatchesAssignment(s, ld)
     /\ ld.owner \in Counselors
     /\ ~s.awaiting /\ s.primary \notin Terminal
     /\ (IF row.kind = "old" THEN s.oldAt ELSE s.pendAt) = row.due
     /\ row.due <= now

DeadlineKey(row) == <<"deadline", row.gen, row.kind, row.due>>

NewestRemark(l) ==
  CHOOSE r \in CounselorRemarks(l, lead[l]) :
    \A o \in CounselorRemarks(l, lead[l]) : o.id <= r.id

\* Mutant: untouched New is not rechecked under the lead lock.
ReconcilesNever(row) == FALSE

\* A note that was written past the adapters: New must not time out.
Reconciles(row) ==
  /\ Actionable(row) /\ state[row.lead].queue = "new"
  /\ CounselorRemarks(row.lead, lead[row.lead]) # {}

Transitions(row) ==
  LET s == state[row.lead] IN
  /\ Actionable(row) /\ ~Reconciles(row)
  /\ row.kind = "pending" => s.oldAt = NoTime
  /\ row.kind = "old" => s.active /\ s.primary # NoStatus /\ s.queue = "none"
  /\ DeadlineKey(row) \notin KeysOf(row.lead)

\* Mutants: the deadline that fired stays in the row; Pending stays an active
\* journey.
AgedStale(s, kind) == [s EXCEPT !.queue = kind, !.active = (kind = "old")]
AgedActive(s, kind) ==
  [s EXCEPT !.queue = kind, !.active = TRUE, !.oldAt = NoTime,
            !.pendAt = IF kind = "pending" THEN NoTime ELSE @]

Aged(s, kind) ==
  [s EXCEPT !.queue = kind, !.active = (kind = "old"), !.oldAt = NoTime,
            !.pendAt = IF kind = "pending" THEN NoTime ELSE @]

Dropped(w, row) ==
  /\ worker[w].phase = "process" /\ row \in worker[w].rows
  /\ worker' = [worker EXCEPT ![w].rows = @ \ {row}]

ProcessRow(w, row) ==
  /\ Dropped(w, row)
  /\ LET l == row.lead
         after == Aged(state[l], row.kind)
     IN CASE Reconciles(row) ->
               ObserveRemark(l, lead[l], lead[l], lead[l].owner, NoStatus,
                             <<"remark", NewestRemark(l).id, 0>>, NoTime)
          [] Transitions(row) ->
               /\ state' = [state EXCEPT ![l] = after]
               /\ events' = [events EXCEPT ![l] = @ \cup
                    {Event(after, "entered", DeadlineKey(row), "none", <<>>)}]
               /\ UNCHANGED lead
          [] OTHER -> UNCHANGED <<lead, rowVars>>
  /\ UNCHANGED <<now, history, serial, remarks, remarkSeq, clientVars, advisory, faults>>

\* Mutant: the advisory lock is not released.
FinishTickKeepLock(w) ==
  /\ worker[w].phase = "process" /\ worker[w].rows = {}
  /\ worker' = [worker EXCEPT ![w] = Idle]
  /\ UNCHANGED <<now, leadVars, rowVars, remarks, remarkSeq, clientVars, advisory, faults>>

FinishTick(w) ==
  /\ worker[w].phase = "process" /\ worker[w].rows = {}
  /\ worker' = [worker EXCEPT ![w] = Idle]
  /\ advisory' = IF advisory = w THEN NoWorker ELSE advisory
  /\ UNCHANGED <<now, leadVars, rowVars, remarks, remarkSeq, clientVars, faults>>

Fault == faults < MaxFaults /\ faults' = faults + 1

\* A row's transaction rolls back; the batch goes on with the next row.
RowFails(w) ==
  /\ Fault
  /\ \/ \E l \in worker[w].leads : worker' = [worker EXCEPT ![w].leads = @ \ {l}]
     \/ \E row \in worker[w].rows : worker' = [worker EXCEPT ![w].rows = @ \ {row}]
  /\ UNCHANGED <<now, leadVars, rowVars, remarks, remarkSeq, clientVars, advisory>>

\* The process dies; its advisory lock goes with its connection.
Crash(w) ==
  /\ Fault /\ worker[w] # Idle
  /\ worker' = [worker EXCEPT ![w] = Idle]
  /\ advisory' = IF advisory = w THEN NoWorker ELSE advisory
  /\ UNCHANGED <<now, leadVars, rowVars, remarks, remarkSeq, clientVars>>

\* The coordinator's connection is lost while the batch, which runs on other
\* connections, continues: two batches may overlap.
LoseLock(w) ==
  /\ Fault /\ advisory = w
  /\ advisory' = NoWorker
  /\ UNCHANGED <<now, leadVars, rowVars, remarks, remarkSeq, clientVars, worker>>

Tick ==
  /\ now < MaxTime
  /\ now' = now + 1
  /\ UNCHANGED <<leadVars, rowVars, remarks, remarkSeq, clientVars, workerVars>>

-----------------------------------------------------------------------------
(* The specification. *)

Init ==
  /\ now = 0
  /\ lead \in [Leads -> [owner : Counselors \cup {NoUser}, asg : {0}, at : {0},
                         next : {NoTime}, closed : BOOLEAN, met : {{}}]]
  /\ history = [l \in Leads |-> NoHistory] /\ serial = 0
  /\ state = [l \in Leads |-> NoRow] /\ events = [l \in Leads |-> {}]
  /\ remarks = [l \in Leads |-> {}] /\ remarkSeq = 0
  /\ requests = {} /\ replies = {}
  /\ worker = [w \in Workers |-> Idle] /\ advisory = NoWorker /\ faults = 0

Clients ==
  \/ \E u \in Counselors, l \in Leads, k \in RequestKeys, p \in Statuses,
        f \in FollowupChoices \cup {Keep, NoTime} : Submit(u, l, k, p, f)
  \/ \E q \in requests : RecordRemark(q)

Handlers(l) ==
  \/ \E u \in Actors, p \in Statuses \cup {NoStatus},
        f \in FollowupChoices \cup {NoTime}, closed, closing \in BOOLEAN :
       LegacyRemark(l, u, p, f, closed, closing)
  \/ \E u \in Actors, p \in Timed \cup {NoStatus}, f \in FollowupChoices \cup {NoTime},
        closed \in {lead[l].closed, FALSE} :
       CallAttempt(l, u, p, f, closed)
  \/ \E u \in Actors, closing \in BOOLEAN : LegacyLevel(l, u, closing)
  \/ \E m \in Meetings, closing \in BOOLEAN : SaveMeeting(l, m, closing)
  \/ \E u \in Actors : Conversion(l, u) \/ ImportNote(l, u)
  \/ \E closed \in Stages : ChangeStage(l, closed)
  \/ CloseLifecycle(l)
  \/ \E f \in FollowupChoices : ReopenLifecycle(l, f)
  \/ ProgressLifecycle(l)
  \/ \E o, p \in ScheduleChoices \cup {NoTime} : Schedule(l, o, p)

Assignments(l) ==
  \/ \E u \in Counselors : Reassign(l, u) \/ AssignPooled(l, u)
  \/ InsertHistory(l)
  \/ Unassign(l)

WorkerStep(w) ==
  \/ StartTick(w)
  \/ \E l \in worker[w].leads : EnrollLead(w, l)
  \/ ReadDueRows(w)
  \/ \E row \in worker[w].rows : ProcessRow(w, row)
  \/ FinishTick(w)

Faults(w) == RowFails(w) \/ Crash(w) \/ LoseLock(w)

Next ==
  \/ Tick
  \/ Clients
  \/ \E l \in Leads : Handlers(l) \/ Assignments(l)
  \/ \E w \in Workers : WorkerStep(w) \/ Faults(w)

Spec == Init /\ [][Next]_vars

\* The job runs on a timer in every process and its batch always runs to its
\* end; nothing obliges a client or a manager to do anything.
Fairness == \A w \in Workers : WF_vars(WorkerStep(w))
FairSpec == Spec /\ Fairness

-----------------------------------------------------------------------------
(* Correctness.                                                             *)

\* Every variable has its type.
TypeOK ==
  /\ now \in 0..MaxTime
  /\ lead \in [Leads -> LeadRow]
  /\ history \in [Leads -> HistoryRow]
  /\ state \in [Leads -> StateRow]
  /\ DOMAIN events = Leads
  /\ remarks \in [Leads -> SUBSET Remark]
  /\ serial \in 0..MaxAssignments /\ remarkSeq \in 0..MaxRemarks
  /\ requests \in SUBSET Request
  /\ worker \in [Workers -> [phase : {"idle", "enroll", "process"},
                             leads : SUBSET Leads, rows : SUBSET DueRow]]
  /\ advisory \in Workers \cup {NoWorker} /\ faults \in 0..MaxFaults

\* The CHECK constraints of counselor_workflow_state.
RowChecks(s) ==
  /\ s.active => s.primary # NoStatus
  /\ s.queue = "old" => s.active
  /\ s.queue = "pending" => ~s.active
  /\ s.queue = "new" => s.primary = NoStatus /\ ~s.active
  /\ s.awaiting => /\ s.queue = "none" /\ ~s.active
                   /\ s.oldAt = NoTime /\ s.pendAt = NoTime
  /\ s.oldAt # NoTime => s.primary # NoStatus /\ s.active
  /\ s.oldAt # NoTime /\ s.pendAt # NoTime => s.oldAt <= s.pendAt

\* No CHECK constraint of the table ever rejects a write, so no command and no
\* worker step fails on one: queue, activity, primary and deadlines stay
\* consistent in whatever order remarks, schedules, reassignments and timeouts
\* arrive.
TableChecks == \A l \in Leads : RowChecks(state[l])

\* A journey that ended in a terminal status keeps no deadline from an earlier
\* status: it can never turn Old or Pending again.
TerminalNeverAges ==
  \A l \in Leads : state[l].primary \in Terminal =>
    state[l].oldAt = NoTime /\ state[l].pendAt = NoTime

\* UNIQUE (lead_id, idempotency_key) never rejects an event that a command is
\* about to write: no two events of a lead share a key.
KeysUnique ==
  \A l \in Leads : \A d, e \in events[l] : d.key = e.key => d = e

\* A counselor is credited with the response to a New lead at most once in each
\* assignment, whatever mix of old and new endpoints the work comes through.
NewWorkOnce ==
  \A l \in Leads : \A d, e \in events[l] :
    d.source = "new" /\ e.source = "new" /\ d.asg = e.asg => d = e

\* A row that the batch query selects can be acted on: it ages, or is taken out
\* of New by an unseen note.  No row is selected and skipped batch after batch,
\* where LIMIT would let it shut out the rows behind it.
DueRowsProgress ==
  \A l \in Leads : Selected(l) =>
    \/ Transitions(RowOf(l))
    \/ /\ Reconciles(RowOf(l))
       /\ <<"remark", NewestRemark(l).id, 0>> \notin KeysOf(l)

\* Repeating a request that was saved is safe: it is answered as a duplicate (or
\* refused to a counselor who lost the lead), never as a conflict, although the
\* generation has moved on.
RetryNeverConflicts ==
  \A r \in replies : r.result = "saved" =>
    ~ \E c \in replies : /\ c.request = r.request
                         /\ c.result \in {"generation_conflict", "key_conflict"}

\* A generation, once seen by a client, names the row up to its aging: every
\* other change of the row raises it, it never goes back (not even when the lead
\* is assigned anew), and no event is lost.
GenerationsIdentify ==
  [][\A l \in Leads :
       /\ state'[l].gen >= state[l].gen
       /\ state'[l].gen = state[l].gen =>
            \/ state'[l] = state[l]
            \/ \E kind \in {"old", "pending"} : state'[l] = Aged(state[l], kind)
       /\ events[l] \subseteq events'[l]]_vars

\* The worker ages a lead by what is true when it writes, not when it read the
\* batch: the deadline has passed, Old is recorded before Pending, there is no
\* follow-up, the assignment is the current one, and nobody worked a New lead.
AgingIsCurrent ==
  [][\A l \in Leads :
       state'[l].queue \in {"old", "pending"} /\ state'[l].queue # state[l].queue =>
         LET due == IF state'[l].queue = "old" THEN state[l].oldAt ELSE state[l].pendAt IN
         /\ due # NoTime /\ due <= now
         /\ state'[l].queue = "pending" => state[l].oldAt = NoTime
         /\ lead[l].next = NoTime /\ ~state[l].override
         /\ MatchesAssignment(state[l], lead[l])
         /\ state[l].queue = "new" => CounselorRemarks(l, lead[l]) = {}]_vars

\* A lead that is due does not stay due: some process's worker gets to it.
DueLeadsAge == \A l \in Leads : Selected(l) ~> ~Selected(l)

\* A lead assigned to a counselor is enrolled, or taken from the counselor.
AssignedLeadsEnrol == \A l \in Leads : Unenrolled(l) ~> ~Unenrolled(l)

\* The abstract queue of LeadQueue.
PhaseOf(s) ==
  CASE s.gen = 0 -> "none"
    [] s.gen # 0 /\ s.queue # "none" -> s.queue
    [] s.gen # 0 /\ s.queue = "none" /\ s.awaiting -> "awaiting"
    [] OTHER -> IF s.primary \in Terminal THEN "closed" ELSE "journey"

Queue == INSTANCE LeadQueue WITH
  Epochs <- 0..MaxAssignments,
  phase <- [l \in Leads |-> PhaseOf(state[l])],
  epoch <- [l \in Leads |-> IF state[l].gen = 0 THEN -1 ELSE state[l].asg],
  credited <- [l \in Leads |-> {e.asg : e \in {d \in events[l] : d.source = "new"}}]

\* The workflow implements the abstract queue.
QueueSpec == Queue!Spec

\* A managed lead that is closed, and New.
ClosedNew(l) ==
  lead[l].closed /\ MatchesAssignment(state[l], lead[l]) /\ state[l].queue = "new"

\* "Terminal legacy changes still invalidate New rather than leaving it to
\* expire": a lead is not New when it has been converted.
ClosedLeadLeavesNew ==
  [][\A l \in Leads, u \in Actors : Conversion(l, u) => ~ClosedNew(l)']_vars

\* No step that the workflow records leaves a closed lead New.  All the ways there
\* are steps it does not record: it is not asked (ChangeStage), it is asked before
\* the lead is closed (remarks and levels of somebody else), or it takes the
\* question for one that it has answered (repeated conversions and meetings).
ClosedNewUnrecorded ==
  [][\A l \in Leads : ClosedNew(l)' /\ ~ClosedNew(l) =>
       /\ state'[l] = state[l] /\ events'[l] = events[l]
       /\ ~lead[l].closed]_vars

\* "next_followup_at reuses leads.next_followup_at": a journey suspended for a
\* follow-up has that follow-up on its lead, where the Follow-up view finds it.
LostFollowup(l) ==
  /\ state[l].override /\ ~state[l].awaiting
  /\ MatchesAssignment(state[l], lead[l])
  /\ lead[l].next = NoTime
SuspensionHasFollowup == \A l \in Leads : LostFollowup(l) => lead[l].closed

\* A lead that a step leaves open loses the follow-up of its journey in one way: a
\* call attempt passes a follow-up on without storing it.  (Steps that close the
\* lead can clear the follow-up when the workflow has looked.)
OnlyAttemptsLoseFollowup ==
  [][\A l \in Leads : LostFollowup(l)' /\ ~LostFollowup(l) /\ ~lead'[l].closed =>
       \E e \in events'[l] \ events[l] : e.key = <<"attempt", remarkSeq', 0>>]_vars
=============================================================================
