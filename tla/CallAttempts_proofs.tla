------------------------- MODULE CallAttempts_proofs -------------------------
(***************************************************************************)
(* Lemmas about the operators of CallAttempts: whatever the service does   *)
(* to a lead's plans, each of them stays sound and one at most is active.  *)
(* Theorems about the times of the calls of a plan are at the end.         *)
(***************************************************************************)
EXTENDS CallAttempts, TLAPS

\* PlanSound, with the attempt that an active plan waits for.
WaitsFor(plan, n) ==
  /\ plan \in Plan
  /\ plan.status = "active"
  /\ n \in 2..MaxAttempts
  /\ \A i \in Numbers :
       plan.attempt[i] = (IF i < n THEN "completed" ELSE IF i = n THEN "scheduled" ELSE "none")

EndedPlan == [UnusedPlan EXCEPT !.status = "ended"]

Sound(plan) == plan = UnusedPlan \/ plan = EndedPlan \/ \E n \in 2..MaxAttempts : WaitsFor(plan, n)

PlansSound(plans) ==
  /\ plans \in [Plans -> Plan]
  /\ \A s \in Plans : Sound(plans[s])
  /\ \A r, s \in ActivePlans(plans) : r = s

\* What the services make of a lead's plans.
PlanStep(old, new) ==
  \/ new = old
  \/ ActivePlans(old) = {} /\ new \in Started(old)
  \/ \E outcome \in Outcomes : new \in Advanced(old, outcome)
  \/ new = CancelledPlans(old)
  \/ \E s \in ActivePlans(old) : new = [old EXCEPT ![s].due = TRUE]

\* The attempt that the lead's plan waits for.
TriesOf(plans) ==
  IF ActivePlans(plans) = {} THEN 0
  ELSE CHOOSE n \in Numbers : \E s \in ActivePlans(plans) : n \in Scheduled(plans[s])

LEMMA PlainPlans == UnusedPlan \in Plan /\ EndedPlan \in Plan
BY DEF UnusedPlan, EndedPlan, Plan, PlanStatus, AttemptStatus

\* An active plan waits for one attempt.
LEMMA OneScheduled ==
  ASSUME NEW plan, NEW n, WaitsFor(plan, n)
  PROVE  Scheduled(plan) = {n} /\ plan # UnusedPlan /\ plan # EndedPlan /\ n \in Numbers
<1>1. n \in Numbers
  BY AttemptsAssumption DEF WaitsFor, Numbers
<1>2. Scheduled(plan) = {n}
  BY <1>1, AttemptsAssumption DEF WaitsFor, Numbers, Scheduled
<1>. QED BY <1>1, <1>2 DEF WaitsFor, UnusedPlan, EndedPlan

\* Cancelling a plan that is not active changes nothing.
LEMMA CancelInactive ==
  ASSUME NEW plan \in {UnusedPlan, EndedPlan}
  PROVE  CancelFuture(plan) = plan /\ Scheduled(plan) = {}
<1>1. plan.attempt = [n \in Numbers |-> "none"] /\ plan.due = FALSE
  BY DEF UnusedPlan, EndedPlan
<1>2. [n \in Numbers |-> IF plan.attempt[n] = "scheduled" THEN "none" ELSE plan.attempt[n]]
        = plan.attempt
  BY <1>1
<1>3. [plan EXCEPT !.attempt = plan.attempt, !.due = FALSE] = plan
  BY <1>1 DEF UnusedPlan, EndedPlan
<1>. QED BY <1>1, <1>2, <1>3 DEF CancelFuture, Scheduled

\* A plan is its columns, and changing one leaves the others.
LEMMA SamePlan ==
  ASSUME NEW p \in Plan, NEW q \in Plan, p.status = q.status, p.due = q.due, p.attempt = q.attempt
  PROVE  p = q
BY DEF Plan

LEMMA NewAttempts ==
  ASSUME NEW p \in Plan, NEW f \in [Numbers -> AttemptStatus], NEW q, q = [p EXCEPT !.attempt = f]
  PROVE  q \in Plan /\ q.status = p.status /\ q.due = p.due /\ q.attempt = f
BY DEF Plan

LEMMA NewStatus ==
  ASSUME NEW p \in Plan, NEW st \in PlanStatus, NEW q, q = [p EXCEPT !.status = st]
  PROVE  q \in Plan /\ q.status = st /\ q.due = p.due /\ q.attempt = p.attempt
BY DEF Plan

\* A plan that is closed leaves no attempt behind.
LEMMA ClosedPlan ==
  ASSUME NEW plan \in Plan
  PROVE  Closed(plan) = EndedPlan
<1>. DEFINE f == [n \in Numbers |-> IF plan.attempt[n] = "scheduled" THEN "none" ELSE plan.attempt[n]]
            none == [n \in Numbers |-> "none"]
            x == CancelFuture(plan)
            y == Forget(x)
<1>1. f \in [Numbers -> AttemptStatus] /\ none \in [Numbers -> AttemptStatus]
  BY DEF Plan, AttemptStatus
<1>2. x = [plan EXCEPT !.attempt = f, !.due = FALSE]
  BY DEF CancelFuture
<1>. HIDE DEF x, f
<1>3. x \in Plan /\ x.due = FALSE /\ x.attempt = f
  BY <1>1, <1>2 DEF Plan
<1>. USE DEF f
<1>4. [n \in Numbers |-> IF x.attempt[n] = "scheduled" THEN x.attempt[n] ELSE "none"] = none
  BY <1>3
<1>5. y = [x EXCEPT !.attempt = none]
  BY <1>4 DEF Forget
<1>. HIDE DEF x, y
<1>6. y \in Plan /\ y.due = FALSE /\ y.attempt = none
  BY <1>1, <1>3, <1>5, NewAttempts
<1>7. Closed(plan) = [y EXCEPT !.status = "ended"]
  BY DEF Closed, x, y
<1>8. /\ Closed(plan) \in Plan /\ Closed(plan).status = "ended"
      /\ Closed(plan).due = FALSE /\ Closed(plan).attempt = none
  BY <1>6, <1>7, NewStatus DEF PlanStatus
<1>9. EndedPlan.status = "ended" /\ EndedPlan.due = FALSE /\ EndedPlan.attempt = none
  BY DEF EndedPlan, UnusedPlan
<1>. HIDE DEF none
<1>. QED BY <1>8, <1>9, PlainPlans, SamePlan

\* A new plan waits for its second attempt.
LEMMA OpenedPlan == WaitsFor(Opened, 2)
<1>. DEFINE f == [[n \in Numbers |-> "none"] EXCEPT ![1] = "completed"]
            g == [f EXCEPT ![2] = "scheduled"]
<1>. DEFINE x == [UnusedPlan EXCEPT !.status = "active", !.attempt[1] = "completed"]
<1>1. x = [UnusedPlan EXCEPT !.status = "active", !.attempt = f]
  BY DEF UnusedPlan
<1>2. Opened = [x EXCEPT !.attempt = [x.attempt EXCEPT ![2] = "scheduled"]]
  BY AttemptsAssumption DEF Opened, ScheduleNext
<1>3. 1 \in Numbers /\ 2 \in Numbers /\ 2 \in 2..MaxAttempts
  BY AttemptsAssumption DEF Numbers
<1>4. f \in [Numbers -> AttemptStatus] /\ g \in [Numbers -> AttemptStatus]
  BY <1>3 DEF AttemptStatus
<1>. HIDE DEF x
<1>6. x \in Plan /\ x.status = "active" /\ x.attempt = f
  <2>. HIDE DEF f
  <2>. QED BY <1>1, <1>4, PlainPlans DEF Plan, PlanStatus
<1>7. Opened = [x EXCEPT !.attempt = g]
  BY <1>2, <1>6
<1>8. Opened \in Plan /\ Opened.status = "active" /\ Opened.attempt = g
  BY <1>4, <1>6, <1>7, NewAttempts
<1>5. \A i \in Numbers : g[i] = (IF i < 2 THEN "completed" ELSE IF i = 2 THEN "scheduled" ELSE "none")
  BY <1>3, AttemptsAssumption DEF Numbers
<1>. HIDE DEF g
<1>. QED BY <1>3, <1>5, <1>8 DEF WaitsFor

\* The attempt a plan waits for ends it, or the plan waits for the next.
LEMMA CompletedPlan ==
  ASSUME NEW plan, NEW n, WaitsFor(plan, n), NEW outcome
  PROVE  \/ Completed(plan, n, outcome) = EndedPlan
         \/ WaitsFor(Completed(plan, n, outcome), n + 1)
<1>. DEFINE done == [plan EXCEPT !.attempt[n] = "completed", !.due = FALSE]
            f == [plan.attempt EXCEPT ![n] = "completed"]
            g == [f EXCEPT ![n + 1] = "scheduled"]
<1>1. n \in Numbers
  BY OneScheduled
<1>2. f \in [Numbers -> AttemptStatus] /\ plan \in Plan
  BY <1>1 DEF WaitsFor, Plan, AttemptStatus
<1>3. done \in Plan /\ done.status = "active" /\ done.attempt = f
  <2>1. done = [plan EXCEPT !.attempt = f, !.due = FALSE]
    OBVIOUS
  <2>2. plan.status = "active"
    BY DEF WaitsFor
  <2>. HIDE DEF done, f
  <2>. QED BY <2>1, <2>2, <1>2 DEF Plan
<1>. HIDE DEF done
<1>4. CASE outcome \in Retryable /\ n < MaxAttempts
  <2>. DEFINE x == Completed(plan, n, outcome)
  <2>1. x = [done EXCEPT !.attempt = [done.attempt EXCEPT ![n + 1] = "scheduled"]]
    BY <1>4, <1>1, AttemptsAssumption DEF Completed, ScheduleNext, Numbers, done
  <2>5. x = [done EXCEPT !.attempt = g]
    BY <2>1, <1>3
  <2>2. n + 1 \in Numbers /\ n + 1 \in 2..MaxAttempts
    BY <1>1, <1>4, AttemptsAssumption DEF Numbers
  <2>3. g \in [Numbers -> AttemptStatus]
    BY <1>2, <2>2 DEF AttemptStatus
  <2>4. \A i \in Numbers :
          g[i] = (IF i < n + 1 THEN "completed" ELSE IF i = n + 1 THEN "scheduled" ELSE "none")
    <3>. SUFFICES ASSUME NEW i \in Numbers
                  PROVE g[i] = (IF i < n + 1 THEN "completed" ELSE IF i = n + 1 THEN "scheduled" ELSE "none")
      OBVIOUS
    <3>1. g[i] = IF i = n + 1 THEN "scheduled" ELSE IF i = n THEN "completed" ELSE plan.attempt[i]
      BY <1>2, <2>2, <1>1 DEF Plan
    <3>2. plan.attempt[i] = (IF i < n THEN "completed" ELSE IF i = n THEN "scheduled" ELSE "none")
      BY DEF WaitsFor
    <3>. QED BY <3>1, <3>2, <1>1, AttemptsAssumption DEF Numbers
  <2>. HIDE DEF x, g
  <2>6. x \in Plan /\ x.status = "active" /\ x.attempt = g
    BY <1>3, <2>3, <2>5, NewAttempts
  <2>. QED BY <2>2, <2>4, <2>6 DEF WaitsFor, x
<1>5. CASE ~(outcome \in Retryable /\ n < MaxAttempts)
  BY <1>3, <1>5, ClosedPlan DEF Completed, done
<1>. QED BY <1>4, <1>5

\* A sound plan is active if it waits for something.
LEMMA ActiveWaits ==
  ASSUME NEW plan, Sound(plan)
  PROVE  plan.status = "active" <=> \E n \in 2..MaxAttempts : WaitsFor(plan, n)
BY DEF Sound, WaitsFor, UnusedPlan, EndedPlan

-----------------------------------------------------------------------------
\* Starting a plan when none is active.
LEMMA StartedSound ==
  ASSUME NEW old, PlansSound(old), ActivePlans(old) = {}, NEW new \in Started(old)
  PROVE  /\ PlansSound(new)
         /\ \E s \in Plans : /\ old[s].status = "unused" /\ new = [old EXCEPT ![s] = Opened]
                             /\ ActivePlans(new) = {s} /\ WaitsFor(new[s], 2)
<1>1. PICK s \in Plans : old[s].status = "unused" /\ new = [old EXCEPT ![s] = Opened]
  BY DEF Started, NextPlan
<1>2. WaitsFor(Opened, 2)
  BY OpenedPlan
<1>3. new \in [Plans -> Plan] /\ new[s] = Opened /\ \A r \in Plans \ {s} : new[r] = old[r]
  BY <1>1, <1>2 DEF PlansSound, WaitsFor
<1>4. ActivePlans(new) = {s}
  BY <1>2, <1>3 DEF ActivePlans, WaitsFor
<1>5. \A r \in Plans : Sound(new[r])
  BY <1>2, <1>3 DEF PlansSound, Sound, WaitsFor
<1>. QED BY <1>1, <1>2, <1>3, <1>4, <1>5 DEF PlansSound

\* Completing the attempt that is waited for.
LEMMA AdvancedSound ==
  ASSUME NEW old, PlansSound(old), NEW outcome, NEW new \in Advanced(old, outcome)
  PROVE  /\ PlansSound(new)
         /\ \E s \in Plans, n \in 2..MaxAttempts :
              /\ ActivePlans(old) = {s} /\ WaitsFor(old[s], n)
              /\ \A r \in Plans \ {s} : new[r] = old[r]
              /\ \/ ActivePlans(new) = {} /\ new[s] = EndedPlan
                 \/ ActivePlans(new) = {s} /\ WaitsFor(new[s], n + 1)
<1>1. PICK s \in ActivePlans(old) :
        \E n \in Open(old[s]) : new = [old EXCEPT ![s] = Completed(old[s], n, outcome)]
  BY DEF Advanced
<1>2. PICK n \in Open(old[s]) : new = [old EXCEPT ![s] = Completed(old[s], n, outcome)]
  BY <1>1
<1>3. s \in Plans /\ ActivePlans(old) = {s} /\ Sound(old[s]) /\ old[s].status = "active"
  BY <1>1 DEF PlansSound, ActivePlans
<1>4. WaitsFor(old[s], n) /\ n \in 2..MaxAttempts
  <2>1. PICK k \in 2..MaxAttempts : WaitsFor(old[s], k)
    BY <1>3, ActiveWaits
  <2>2. n \in Scheduled(old[s])
    BY <1>2 DEF Open
  <2>. QED BY <2>1, <2>2, OneScheduled
<1>5. DEFINE x == Completed(old[s], n, outcome)
<1>6. x = EndedPlan \/ WaitsFor(x, n + 1)
  BY <1>4, CompletedPlan
<1>7. x \in Plan
  BY <1>6, PlainPlans DEF WaitsFor
<1>8. new \in [Plans -> Plan] /\ new[s] = x /\ \A r \in Plans \ {s} : new[r] = old[r]
  BY <1>2, <1>3, <1>7 DEF PlansSound
<1>9. (x = EndedPlan => ActivePlans(new) = {}) /\ (WaitsFor(x, n + 1) => ActivePlans(new) = {s})
  BY <1>3, <1>8 DEF ActivePlans, WaitsFor, EndedPlan, UnusedPlan
<1>10. \A r \in Plans : Sound(new[r])
  BY <1>6, <1>8 DEF PlansSound, Sound, WaitsFor
<1>. HIDE DEF x
<1>. QED BY <1>3, <1>4, <1>6, <1>8, <1>9, <1>10 DEF PlansSound

\* Cancelling, which is all that closing a journey does to sound plans.
LEMMA CancelledSound ==
  ASSUME NEW old, PlansSound(old)
  PROVE  /\ PlansSound(CancelledPlans(old)) /\ ActivePlans(CancelledPlans(old)) = {}
         /\ \A s \in Plans : CancelledPlans(old)[s] = IF old[s].status = "active" THEN EndedPlan ELSE old[s]
<1>. DEFINE new == CancelledPlans(old)
<1>1. \A s \in Plans : new[s] = IF old[s].status = "active" THEN EndedPlan ELSE old[s]
  BY ClosedPlan DEF CancelledPlans, PlansSound
<1>2. new \in [Plans -> Plan]
  BY ClosedPlan, PlainPlans DEF CancelledPlans, PlansSound
<1>3. ActivePlans(new) = {}
  BY <1>1 DEF ActivePlans, EndedPlan, UnusedPlan
<1>4. \A s \in Plans : Sound(new[s])
  BY <1>1 DEF PlansSound, Sound
<1>. HIDE DEF new
<1>. QED BY <1>1, <1>2, <1>3, <1>4 DEF PlansSound, new

\* The time of an attempt comes.
LEMMA DueSound ==
  ASSUME NEW old, PlansSound(old), NEW s \in ActivePlans(old), NEW new, new = [old EXCEPT ![s].due = TRUE]
  PROVE  /\ PlansSound(new) /\ ActivePlans(new) = {s} /\ ActivePlans(old) = {s}
         /\ \A r \in Plans \ {s} : new[r] = old[r]
         /\ \A n \in 2..MaxAttempts : WaitsFor(old[s], n) => WaitsFor(new[s], n)
<1>1. s \in Plans /\ old[s] \in Plan /\ old[s].status = "active"
  BY DEF ActivePlans, PlansSound
<1>. DEFINE x == [old[s] EXCEPT !.due = TRUE]
<1>2. x \in Plan /\ x.status = "active" /\ x.attempt = old[s].attempt
  BY <1>1 DEF Plan
<1>. HIDE DEF x
<1>3. new = [old EXCEPT ![s] = x]
  BY DEF x
<1>4. new \in [Plans -> Plan] /\ new[s] = x /\ \A r \in Plans \ {s} : new[r] = old[r]
  BY <1>1, <1>2, <1>3 DEF PlansSound
<1>5. ActivePlans(old) = {s}
  BY DEF PlansSound
<1>6. ActivePlans(new) = {s}
  BY <1>1, <1>2, <1>4, <1>5 DEF ActivePlans
<1>7. \A n \in 2..MaxAttempts : WaitsFor(old[s], n) => WaitsFor(new[s], n)
  BY <1>2, <1>4 DEF WaitsFor
<1>8. \E n \in 2..MaxAttempts : WaitsFor(old[s], n)
  BY <1>1, ActiveWaits DEF PlansSound
<1>9. \A r \in Plans : Sound(new[r])
  BY <1>4, <1>7, <1>8 DEF PlansSound, Sound
<1>. QED BY <1>4, <1>5, <1>6, <1>7, <1>9 DEF PlansSound

LEMMA TriesIs ==
  ASSUME NEW plans, NEW s, ActivePlans(plans) = {s}, NEW n, WaitsFor(plans[s], n)
  PROVE  TriesOf(plans) = n
<1>1. Scheduled(plans[s]) = {n} /\ n \in Numbers
  BY OneScheduled
<1>. QED BY <1>1 DEF TriesOf

\* What every step keeps of the plans, and how it moves the attempt that is
\* waited for.
LEMMA StepSound ==
  ASSUME NEW old, NEW new, PlansSound(old), PlanStep(old, new)
  PROVE  /\ PlansSound(new)
         /\ \A s \in Plans : old[s].status = "ended" => new[s] = old[s]
         /\ \/ TriesOf(new) = TriesOf(old)
            \/ TriesOf(old) = 0 /\ TriesOf(new) = 2
            \/ TriesOf(old) > 0 /\ TriesOf(old) < MaxAttempts /\ TriesOf(new) = TriesOf(old) + 1
            \/ TriesOf(new) = 0
<1>1. CASE new = old
  BY <1>1
<1>2. CASE ActivePlans(old) = {} /\ new \in Started(old)
  <2>1. PICK s \in Plans : /\ old[s].status = "unused" /\ new = [old EXCEPT ![s] = Opened]
                           /\ ActivePlans(new) = {s} /\ WaitsFor(new[s], 2)
    BY <1>2, StartedSound
  <2>2. TriesOf(old) = 0 /\ TriesOf(new) = 2
    BY <1>2, <2>1, TriesIs DEF TriesOf
  <2>3. \A r \in Plans : old[r].status = "ended" => new[r] = old[r]
    BY <2>1 DEF PlansSound
  <2>. QED BY <1>2, <2>2, <2>3, StartedSound
<1>3. ASSUME NEW outcome \in Outcomes, new \in Advanced(old, outcome)
      PROVE  /\ PlansSound(new) /\ \A s \in Plans : old[s].status = "ended" => new[s] = old[s]
             /\ \/ TriesOf(old) > 0 /\ TriesOf(old) < MaxAttempts /\ TriesOf(new) = TriesOf(old) + 1
                \/ TriesOf(new) = 0
  <2>1. PICK s \in Plans, n \in 2..MaxAttempts :
              /\ ActivePlans(old) = {s} /\ WaitsFor(old[s], n)
              /\ \A r \in Plans \ {s} : new[r] = old[r]
              /\ \/ ActivePlans(new) = {} /\ new[s] = EndedPlan
                 \/ ActivePlans(new) = {s} /\ WaitsFor(new[s], n + 1)
    BY <1>3, AdvancedSound
  <2>2. old[s].status = "active"
    BY <2>1 DEF ActivePlans
  <2>3. TriesOf(old) = n
    BY <2>1, TriesIs
  <2>4. CASE ActivePlans(new) = {}
    BY <1>3, <2>1, <2>2, <2>4, AdvancedSound DEF TriesOf
  <2>5. CASE ActivePlans(new) = {s} /\ WaitsFor(new[s], n + 1)
    <3>1. TriesOf(new) = n + 1 /\ n + 1 \in 2..MaxAttempts
      BY <2>5, TriesIs DEF WaitsFor
    <3>2. n > 0 /\ n < MaxAttempts
      BY <3>1, AttemptsAssumption
    <3>. QED BY <1>3, <2>1, <2>2, <2>3, <3>1, <3>2, AdvancedSound
  <2>. QED BY <2>1, <2>4, <2>5
<1>4. CASE new = CancelledPlans(old)
  BY <1>4, CancelledSound DEF TriesOf
<1>5. ASSUME NEW s \in ActivePlans(old), new = [old EXCEPT ![s].due = TRUE]
      PROVE  /\ PlansSound(new) /\ \A r \in Plans : old[r].status = "ended" => new[r] = old[r]
             /\ TriesOf(new) = TriesOf(old)
  <2>1. s \in Plans /\ old[s].status = "active"
    BY DEF ActivePlans
  <2>2. PICK n \in 2..MaxAttempts : WaitsFor(old[s], n)
    BY <2>1, ActiveWaits DEF PlansSound
  <2>3. /\ ActivePlans(new) = {s} /\ ActivePlans(old) = {s} /\ WaitsFor(new[s], n)
        /\ \A r \in Plans \ {s} : new[r] = old[r]
    <3>1. ActivePlans(new) = {s} /\ ActivePlans(old) = {s}
      BY <1>5, DueSound
    <3>3. \A r \in Plans \ {s} : new[r] = old[r]
      BY <1>5 DEF PlansSound
    <3>2. \A k \in 2..MaxAttempts : WaitsFor(old[s], k) => WaitsFor(new[s], k)
      BY <1>5, DueSound
    <3>. QED BY <2>2, <3>1, <3>2, <3>3
  <2>4. TriesOf(old) = n /\ TriesOf(new) = n
    BY <2>2, <2>3, TriesIs
  <2>. QED BY <1>5, <2>1, <2>3, <2>4, DueSound
<1>. QED BY <1>1, <1>2, <1>3, <1>4, <1>5 DEF PlanStep

\* While a plan is active it waits for an attempt.
LEMMA TriesPositive ==
  ASSUME NEW plans, PlansSound(plans)
  PROVE  (TriesOf(plans) = 0 <=> ActivePlans(plans) = {}) /\ TriesOf(plans) \in 0..MaxAttempts
<1>1. CASE ActivePlans(plans) = {}
  BY <1>1, AttemptsAssumption DEF TriesOf
<1>2. ASSUME NEW s \in ActivePlans(plans) PROVE TriesOf(plans) \in 2..MaxAttempts
  <2>1. s \in Plans /\ plans[s].status = "active" /\ ActivePlans(plans) = {s}
    BY DEF ActivePlans, PlansSound
  <2>2. PICK n \in 2..MaxAttempts : WaitsFor(plans[s], n)
    BY <2>1, ActiveWaits DEF PlansSound
  <2>. QED BY <2>1, <2>2, TriesIs
<1>. QED BY <1>1, <1>2, AttemptsAssumption

\* A remark's reconciliation is one of the steps.
LEMMA ReconciledStep ==
  ASSUME NEW plans, NEW status, NEW confirmed \in BOOLEAN, NEW new \in Reconciled(plans, status, confirmed)
  PROVE  PlanStep(plans, new)
BY DEF Reconciled, PlanStep, Outcomes

\* The soundness of the specification is the one of this module.
LEMMA PlansSoundIs ==
  ASSUME NEW plans \in [Plans -> Plan]
  PROVE  PlansSound(plans) <=> /\ \A s \in Plans : PlanSound(plans[s])
                               /\ \A r, s \in ActivePlans(plans) : r = s
BY DEF PlansSound, Sound, PlanSound, WaitsFor, EndedPlan
-----------------------------------------------------------------------------
(* When the next call of a plan is due (calculateNextCallTime).            *)
(* Leaves name SMT: Zenon does not take numbers of this size.              *)

Policies == INSTANCE DeadlinePolicies

\* A time is a midnight and a time of day ...
LEMMA DayParts ==
  ASSUME NEW t \in Nat
  PROVE  /\ Policies!TimeOfDay(t) \in Nat /\ Policies!TimeOfDay(t) < Policies!Day
         /\ Policies!Midnight(t) \in Nat
         /\ t = Policies!Midnight(t) + Policies!TimeOfDay(t)
<1>1. t % 86400000 \in Int /\ t % 86400000 >= 0
  BY SMT
<1>2. t % 86400000 < 86400000
  BY SMT
<1>3. t % 86400000 <= t
  BY SMT
<1>. QED BY SMT, <1>1, <1>2, <1>3 DEF Policies!TimeOfDay, Policies!Midnight, Policies!Day,
            Policies!Hour, Policies!Minute

\* ... and a later time is later on the same day, or on a later day.
LEMMA DaysInOrder ==
  ASSUME NEW t \in Nat, NEW u \in Nat, t <= u
  PROVE  \/ /\ Policies!Midnight(t) = Policies!Midnight(u)
            /\ Policies!TimeOfDay(t) <= Policies!TimeOfDay(u)
         \/ Policies!Midnight(t) + Policies!Day <= Policies!Midnight(u)
BY SMT DEF Policies!TimeOfDay, Policies!Midnight, Policies!Day, Policies!Hour, Policies!Minute

\* What stands at a time of day.
LEMMA TimeOn ==
  ASSUME NEW t \in Nat, NEW x \in Nat, x < Policies!Day
  PROVE  /\ Policies!TimeOfDay(Policies!Midnight(t) + x) = x
         /\ Policies!TimeOfDay(Policies!Midnight(t) + Policies!Day + x) = x
BY SMT DEF Policies!TimeOfDay, Policies!Midnight, Policies!Day, Policies!Hour, Policies!Minute

LEMMA SnapValue ==
  ASSUME NEW t \in Nat
  PROVE  Policies!SnapIntoBusinessHours(t) =
           LET m == Policies!Midnight(t)
               d == Policies!TimeOfDay(t)
           IN  IF d < 32400000 THEN m + 32400000
               ELSE IF d < 68400000 THEN m + d ELSE m + 118800000
BY SMT, DayParts DEF Policies!SnapIntoBusinessHours, Policies!InBusinessHours, Policies!Day,
   Policies!Hour, Policies!Minute

\* A time is put off to business hours, by 14 hours at most ...
LEMMA SnapSound ==
  ASSUME NEW t \in Nat
  PROVE  LET s == Policies!SnapIntoBusinessHours(t) IN
         s \in Nat /\ t <= s /\ s <= t + 14 * Policies!Hour /\ Policies!InBusinessHours(s)
<1>0. /\ Policies!Hour = 3600000 /\ Policies!Day = 86400000
      /\ Policies!TimeOfDay(t) \in Nat /\ Policies!Midnight(t) \in Nat
      /\ t = Policies!Midnight(t) + Policies!TimeOfDay(t)
      /\ Policies!TimeOfDay(t) < 86400000
  BY SMT, DayParts DEF Policies!Hour, Policies!Minute, Policies!Day
<1>1. /\ Policies!SnapIntoBusinessHours(t) \in Nat /\ t <= Policies!SnapIntoBusinessHours(t)
      /\ Policies!SnapIntoBusinessHours(t) <= t + 14 * Policies!Hour
  BY SMT, <1>0, SnapValue
<1>2. CASE Policies!InBusinessHours(t)
  BY SMT, <1>1, <1>2 DEF Policies!SnapIntoBusinessHours
<1>3. CASE ~Policies!InBusinessHours(t)
  <2>1. \/ Policies!SnapIntoBusinessHours(t) = Policies!Midnight(t) + 9 * Policies!Hour
        \/ Policies!SnapIntoBusinessHours(t) = Policies!Midnight(t) + Policies!Day + 9 * Policies!Hour
    BY SMT, <1>0, <1>3 DEF Policies!SnapIntoBusinessHours
  <2>2. 9 * Policies!Hour \in Nat /\ 9 * Policies!Hour < Policies!Day
    BY SMT, <1>0
  <2>3. Policies!TimeOfDay(Policies!SnapIntoBusinessHours(t)) = 9 * Policies!Hour
    BY SMT, <2>1, <2>2, TimeOn
  <2>. QED BY SMT, <1>0, <1>1, <2>3 DEF Policies!InBusinessHours
<1>. QED BY SMT, <1>2, <1>3

\* ... and keeps its place.
LEMMA SnapMonotone ==
  ASSUME NEW t \in Nat, NEW u \in Nat, t <= u
  PROVE  Policies!SnapIntoBusinessHours(t) <= Policies!SnapIntoBusinessHours(u)
<1>. DEFINE mt == Policies!Midnight(t)
            mu == Policies!Midnight(u)
            dt == Policies!TimeOfDay(t)
            du == Policies!TimeOfDay(u)
<1>1. /\ mt \in Nat /\ mu \in Nat /\ dt \in Nat /\ du \in Nat
      /\ dt < 86400000 /\ du < 86400000
      /\ (mt = mu /\ dt <= du) \/ mt + 86400000 <= mu
  BY SMT, DayParts, DaysInOrder DEF Policies!Day, Policies!Hour, Policies!Minute
<1>2. Policies!SnapIntoBusinessHours(t) =
        IF dt < 32400000 THEN mt + 32400000
        ELSE IF dt < 68400000 THEN mt + dt ELSE mt + 118800000
  BY SMT, SnapValue
<1>3. Policies!SnapIntoBusinessHours(u) =
        IF du < 32400000 THEN mu + 32400000
        ELSE IF du < 68400000 THEN mu + du ELSE mu + 118800000
  BY SMT, SnapValue
<1>. HIDE DEF mt, mu, dt, du
<1>. QED BY SMT, <1>1, <1>2, <1>3

\* To the minute: less than a minute earlier, and in the same order.
LEMMA ToTheMinute ==
  ASSUME NEW t \in Nat
  PROVE  /\ t - (t % Policies!Minute) \in Nat
         /\ t - (t % Policies!Minute) <= t
         /\ t - (t % Policies!Minute) > t - Policies!Minute
         /\ \A u \in Nat : t <= u => t - (t % Policies!Minute) <= u - (u % Policies!Minute)
<1>0. Policies!Minute = 60000
  BY SMT DEF Policies!Minute
<1>1. t % 60000 \in Int /\ t % 60000 >= 0
  BY SMT
<1>2. t % 60000 < 60000
  BY SMT
<1>3. t % 60000 <= t
  BY SMT
<1>4. ASSUME NEW u \in Nat, t <= u PROVE t - (t % 60000) <= u - (u % 60000)
  BY SMT, <1>4
<1>. QED BY SMT, <1>0, <1>1, <1>2, <1>3, <1>4

LEMMA RetryDelays ==
  ASSUME NEW issue \in DOMAIN Policies!RetryDelay
  PROVE  Policies!RetryDelay[issue] \in 30..180
BY SMT DEF Policies!RetryDelay

\* The three ways to the next call.
Recovery(t) == t - (t % Policies!Minute) + 10 * Policies!Day
Eleven(t) == Policies!Midnight(t) + Policies!Day + 11 * Policies!Hour
Later(issue, t) == t + Policies!RetryDelay[issue] * Policies!Minute

LEMMA NextCallValue ==
  ASSUME NEW issue \in DOMAIN Policies!RetryDelay, NEW n \in 1..3, NEW t, NEW followup
  PROVE  Policies!CalculateNextCallTime(issue, n, t, followup) =
           IF issue = "recall" /\ followup # Policies!NoTime
           THEN Policies!SnapIntoBusinessHours(followup)
           ELSE IF n = 3 THEN Policies!SnapIntoBusinessHours(Recovery(t))
           ELSE IF n = 2 /\ issue = "cnr" THEN Eleven(t)
           ELSE Policies!SnapIntoBusinessHours(Later(issue, t))
BY SMT DEF Policies!CalculateNextCallTime, Policies!MaxAttemptsPerSequence, Policies!ScheduleFinalRecoveryAttempt,
   Policies!ScheduleNextBusinessDayAt, Recovery, Eleven, Later

LEMMA RecoveryAhead ==
  ASSUME NEW t \in Nat
  PROVE  /\ Recovery(t) \in Nat /\ t < Recovery(t) /\ Recovery(t) <= t + 10 * Policies!Day
         /\ \A u \in Nat : t <= u => Recovery(t) <= Recovery(u)
<1>1. /\ Policies!Day = 86400000 /\ Policies!Minute = 60000
      /\ \A u \in Nat : u - (u % Policies!Minute) \in Nat
  BY SMT, ToTheMinute DEF Policies!Hour, Policies!Minute, Policies!Day
<1>. QED BY SMT, <1>1, ToTheMinute DEF Recovery

LEMMA ElevenAhead ==
  ASSUME NEW t \in Nat
  PROVE  /\ Eleven(t) \in Nat /\ t < Eleven(t) /\ Eleven(t) <= t + 2 * Policies!Day
         /\ Policies!InBusinessHours(Eleven(t))
         /\ \A u \in Nat : t <= u => Eleven(t) <= Eleven(u)
<1>1. /\ Policies!Hour = 3600000 /\ Policies!Day = 86400000
      /\ 11 * Policies!Hour \in Nat /\ 11 * Policies!Hour < Policies!Day
  BY SMT DEF Policies!Hour, Policies!Minute, Policies!Day
<1>2. Eleven(t) \in Nat /\ t < Eleven(t) /\ Eleven(t) <= t + 2 * Policies!Day
  BY SMT, <1>1, DayParts DEF Eleven
<1>3. Policies!TimeOfDay(Eleven(t)) = 11 * Policies!Hour
  BY SMT, <1>1, TimeOn DEF Eleven
<1>4. Policies!InBusinessHours(Eleven(t))
  BY SMT, <1>1, <1>3 DEF Policies!InBusinessHours
<1>5. ASSUME NEW u \in Nat, t <= u PROVE Eleven(t) <= Eleven(u)
  <2>1. /\ Policies!Midnight(t) \in Nat /\ Policies!Midnight(u) \in Nat
        /\ Policies!Day \in Nat /\ 11 * Policies!Hour \in Nat
    BY SMT, <1>1, <1>5, DayParts
  <2>2. Policies!Midnight(t) <= Policies!Midnight(u)
    BY SMT, <1>5, <2>1, DaysInOrder
  <2>. QED BY SMT, <2>1, <2>2 DEF Eleven
<1>. QED BY SMT, <1>2, <1>4, <1>5

LEMMA LaterAhead ==
  ASSUME NEW issue \in DOMAIN Policies!RetryDelay, NEW t \in Nat
  PROVE  /\ Later(issue, t) \in Nat /\ t < Later(issue, t)
         /\ Later(issue, t) <= t + 3 * Policies!Hour
         /\ \A u \in Nat : t <= u => Later(issue, t) <= Later(issue, u)
BY SMT, RetryDelays DEF Later, Policies!Hour, Policies!Minute

\* The next call of a plan falls into business hours. It comes after the attempt that led
\* to it, within eleven days; one agreed on with the lead is never moved forward, and put
\* off by less than a day.
THEOREM NextCallInHours ==
  ASSUME NEW issue \in DOMAIN Policies!RetryDelay, NEW n \in 1..3, NEW t \in Nat,
         NEW followup \in Nat \cup {Policies!NoTime}
  PROVE  LET next == Policies!CalculateNextCallTime(issue, n, t, followup) IN
         /\ next \in Nat /\ Policies!InBusinessHours(next)
         /\ IF issue = "recall" /\ followup # Policies!NoTime
            THEN followup <= next /\ next < followup + Policies!Day
            ELSE t < next /\ next < t + 11 * Policies!Day
<1>. DEFINE next == Policies!CalculateNextCallTime(issue, n, t, followup)
            Agreed == issue = "recall" /\ followup # Policies!NoTime
<1>0. Policies!Hour = 3600000 /\ Policies!Day = 86400000
  BY SMT DEF Policies!Hour, Policies!Minute, Policies!Day
<1>1. CASE Agreed
  <2>1. next = Policies!SnapIntoBusinessHours(followup) /\ followup \in Nat
    BY SMT, <1>1, NextCallValue
  <2>. HIDE DEF next
  <2>2. /\ next \in Nat /\ Policies!InBusinessHours(next)
        /\ followup <= next /\ next < followup + Policies!Day
    BY SMT, <1>0, <2>1, SnapSound
  <2>. QED BY SMT, <1>1, <2>2 DEF next
<1>2. ASSUME ~Agreed, NEW x \in Nat, next = Policies!SnapIntoBusinessHours(x),
             t < x, x <= t + 10 * Policies!Day
      PROVE  /\ next \in Nat /\ Policies!InBusinessHours(next)
             /\ t < next /\ next < t + 11 * Policies!Day
  <2>. HIDE DEF next
  <2>. QED BY SMT, <1>0, <1>2, SnapSound
<1>3. CASE ~Agreed /\ n = 3
  BY SMT, <1>2, <1>3, NextCallValue, RecoveryAhead
<1>4. CASE ~Agreed /\ n # 3 /\ n = 2 /\ issue = "cnr"
  <2>1. next = Eleven(t)
    BY SMT, <1>4, NextCallValue
  <2>. HIDE DEF next
  <2>2. /\ next \in Nat /\ Policies!InBusinessHours(next)
        /\ t < next /\ next < t + 11 * Policies!Day
    BY SMT, <1>0, <2>1, ElevenAhead
  <2>. QED BY SMT, <1>4, <2>2 DEF next
<1>5. CASE ~Agreed /\ n # 3 /\ ~(n = 2 /\ issue = "cnr")
  <2>1. next = Policies!SnapIntoBusinessHours(Later(issue, t))
    BY SMT, <1>5, NextCallValue
  <2>2. Later(issue, t) \in Nat /\ t < Later(issue, t) /\ Later(issue, t) <= t + 10 * Policies!Day
    BY SMT, <1>0, LaterAhead
  <2>. QED BY SMT, <1>2, <1>5, <2>1, <2>2
<1>. QED BY SMT, <1>1, <1>3, <1>4, <1>5

\* Of two plans at the same point, the one that was tried earlier is called again no later
\* than the other.
THEOREM NextCallsKeepOrder ==
  ASSUME NEW issue \in DOMAIN Policies!RetryDelay, NEW n \in 1..3,
         NEW t \in Nat, NEW u \in Nat, t <= u
  PROVE  Policies!CalculateNextCallTime(issue, n, t, Policies!NoTime)
           <= Policies!CalculateNextCallTime(issue, n, u, Policies!NoTime)
<1>1. CASE n = 3
  BY SMT, <1>1, NextCallValue, RecoveryAhead, SnapMonotone
<1>2. CASE n # 3 /\ n = 2 /\ issue = "cnr"
  BY SMT, <1>2, NextCallValue, ElevenAhead
<1>3. CASE n # 3 /\ ~(n = 2 /\ issue = "cnr")
  BY SMT, <1>3, NextCallValue, LaterAhead, SnapMonotone
<1>. QED BY SMT, <1>1, <1>2, <1>3
=============================================================================
