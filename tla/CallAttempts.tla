---------------------------- MODULE CallAttempts ----------------------------
(***************************************************************************)
(* Retry plans of a lead (leadCallAttemptService.js): a call that was not  *)
(* answered opens a sequence; its attempts follow one another, each locked *)
(* until its time, until one gets through, another remark ends the plan or *)
(* the last attempt closes it.                                             *)
(*                                                                         *)
(* A plan's rows are a value: the operators below are what each function   *)
(* of the service makes of it, and the modules that extend this one apply  *)
(* them inside the transactions that call the service.  Of a scheduled     *)
(* attempt's time only whether it has come is kept (due); a time that has  *)
(* passed already when it is computed is one that passes at once.          *)
(***************************************************************************)
EXTENDS Integers, FiniteSets

CONSTANTS
  MaxPlans,      \* sequences the lead may have, one after the other
  MaxAttempts    \* MAX_ATTEMPTS_PER_SEQUENCE

ASSUME PlansAssumption == MaxPlans \in Nat
ASSUME AttemptsAssumption == MaxAttempts \in Nat /\ MaxAttempts >= 2

Plans == 1..MaxPlans
Numbers == 1..MaxAttempts

\* ended: completed, cancelled or cold_closed.  Of a plan that has ended only
\* attempts that are still scheduled would be of interest.
PlanStatus == {"unused", "active", "ended"}
AttemptStatus == {"none", "scheduled", "completed"}

Retryable == {"cnr", "recall", "busy", "cb", "rnr", "cw", "nn", "so", "nc", "call_cut_busy"}

\* Statuses of Step 1 that end a plan (SEQUENCE_CANCELLING_WORKFLOW_STATUSES;
\* the ones of the later workflow behave like "interested").
Cancelling ==
  {"communication_completed", "respond_hi", "session_730_attend", "yes_after_730_session",
   "interested", "converted", "not_interested", "callback_requested", "follow_up", "in", "ni"}

\* Statuses of a manual remark that do (SEQUENCE_CANCELLING_CALL_STATUSES).
CancellingCall ==
  (Cancelling \ {"ni"}) \cup {"invalid_number", "wrong_number", "language_barrier"}

Outcomes == Retryable \cup {"call_received", "in", "not_interested", "callback_requested", "follow_up"}

UnusedPlan ==
  [status |-> "unused", due |-> FALSE, attempt |-> [n \in Numbers |-> "none"]]

ActivePlans(plans) == {s \in Plans : plans[s].status = "active"}
Scheduled(plan) == {n \in Numbers : plan.attempt[n] = "scheduled"}

CancelFuture(plan) ==
  [plan EXCEPT !.attempt = [n \in Numbers |-> IF @[n] = "scheduled" THEN "none" ELSE @[n]],
               !.due = FALSE]

\* What becomes of the attempts is lost with the plan.
Forget(plan) ==
  [plan EXCEPT !.attempt = [n \in Numbers |-> IF @[n] = "scheduled" THEN @[n] ELSE "none"]]

Closed(plan) == [Forget(CancelFuture(plan)) EXCEPT !.status = "ended"]

\* Past the last attempt calculateNextCallTime has no time to offer.
ScheduleNext(plan, n) ==
  IF n >= MaxAttempts THEN plan ELSE [plan EXCEPT !.attempt[n + 1] = "scheduled"]

\* startAttemptSequenceFromRemark, the lead having no active sequence: the
\* call that was just made is the first attempt.
Opened ==
  ScheduleNext([UnusedPlan EXCEPT !.status = "active", !.attempt[1] = "completed"], 1)

NextPlan(plans) == {s \in Plans : plans[s].status = "unused" /\ \A r \in 1..(s - 1) : plans[r].status # "unused"}

Started(plans) == {[plans EXCEPT ![s] = Opened] : s \in NextPlan(plans)}

\* completeScheduledAttempt, once the attempt is found to be scheduled and
\* not locked.
Completed(plan, n, outcome) ==
  LET done == [plan EXCEPT !.attempt[n] = "completed", !.due = FALSE] IN
  IF outcome \in Retryable /\ n < MaxAttempts THEN ScheduleNext(done, n) ELSE Closed(done)

\* Attempts that may be completed now: the first needs no waiting.
Open(plan) == {n \in Scheduled(plan) : n = 1 \/ plan.due}

Advanced(plans, outcome) ==
  UNION {{[plans EXCEPT ![s] = Completed(@, n, outcome)] : n \in Open(plans[s])} :
           s \in ActivePlans(plans)}

\* cancelLeadActiveAttemptSequences; without an active sequence nothing.
CancelledPlans(plans) ==
  [s \in Plans |-> IF plans[s].status = "active" THEN Closed(plans[s]) ELSE plans[s]]

\* Mutant: every call that is not answered opens a plan.
ReconciledAnew(plans, status, confirmed) ==
  CASE status \in Retryable -> Started(plans)
    [] status \in Cancelling ->
         IF ActivePlans(plans) # {} /\ ~confirmed THEN {} ELSE {CancelledPlans(plans)}
    [] OTHER -> {plans}

\* reconcileWorkflowRemarkWithCallAttempts: what the plans may become; none
\* if the request is refused (attempt locked, confirmation missing).
Reconciled(plans, status, confirmed) ==
  CASE status \in Retryable /\ ActivePlans(plans) = {} -> Started(plans)
    [] status \in Retryable /\ ActivePlans(plans) # {} ->
         IF \E s \in ActivePlans(plans) : Scheduled(plans[s]) = {} THEN {plans} ELSE Advanced(plans, status)
    [] status \in Cancelling ->
         IF ActivePlans(plans) # {} /\ ~confirmed THEN {} ELSE {CancelledPlans(plans)}
    [] OTHER -> {plans}

\* assertUnscheduledCallAllowed: an extra call while the next attempt is
\* still locked.
ExtraCallAllowed(plans) ==
  \E s \in ActivePlans(plans) : Scheduled(plans[s]) # {} /\ ~plans[s].due

Plan ==
  [status : PlanStatus, due : BOOLEAN, attempt : [Numbers -> AttemptStatus]]

\* A plan's attempts are completed one after the other; while it is active
\* exactly the next one is scheduled, and afterwards none is.
PlanSound(plan) ==
  \/ plan = UnusedPlan
  \/ plan = [UnusedPlan EXCEPT !.status = "ended"]
  \/ /\ plan.status = "active"
     /\ \E n \in 2..MaxAttempts :
          \A i \in Numbers :
            plan.attempt[i] = (IF i < n THEN "completed" ELSE IF i = n THEN "scheduled" ELSE "none")
=============================================================================
