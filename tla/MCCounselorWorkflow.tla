------------------------- MODULE MCCounselorWorkflow -------------------------
(* Instances of CounselorWorkflow for TLC.                                  *)
EXTENDS CounselorWorkflow, TLC

\* A timed status ages to Old after one unit of time and to Pending after two,
\* New to Pending after one.
MCOldDue(s, t) == t + 1
MCPendingDue(s, t) == t + 2
MCNewDue(t) == t + 1

\* The deadlines of the code about the hours that its policies name: each case of the
\* repository's tests of counselorWorkflowPolicies.js, and the order of deadlines.
Policies == INSTANCE DeadlinePolicies
OnDay(day, hour, ms) == day * Policies!Day + hour * Policies!Hour + ms
Boundaries == {OnDay(day, hour, ms) : day \in 0..1, hour \in {9, 10, 17, 18}, ms \in {-1, 0, 1}}
                \cup {Policies!Cutoff + ms : ms \in {-1, 0, 1}}

ASSUME DeadlinesAsTested ==
  /\ Policies!OfficeDeadline(OnDay(0, 9, 0)) = OnDay(0, 11, 0)
  /\ Policies!OfficeDeadline(OnDay(0, 17, 0)) = OnDay(0, 19, 0)
  /\ Policies!OfficeDeadline(OnDay(0, 17, 1)) = OnDay(1, 10, 0)
  /\ Policies!OfficeDeadline(OnDay(0, 9, -1)) = OnDay(0, 10, 0)
  /\ Policies!OldDeadline("respond_hi", Policies!Cutoff) = Policies!Cutoff
  /\ Policies!OldDeadline("respond_hi", Policies!Cutoff + 1) = Policies!Cutoff + Policies!Day
  /\ Policies!PendingDeadline("cnr", OnDay(0, 23, 0)) = OnDay(1, 23, 0)
  /\ Policies!PendingDeadline("nrac", OnDay(0, 18, 0)) = OnDay(2, 0, 0)

ASSUME DeadlinesInOrder ==
  \A s \in Policies!TimedStatuses, t, u \in Boundaries :
    /\ t <= Policies!OldDeadline(s, t)
    /\ Policies!OldDeadline(s, t) < Policies!PendingDeadline(s, t)
    /\ Policies!PendingDeadline(s, t) <= t + 44 * Policies!Hour
    /\ t <= u => Policies!OldDeadline(s, t) <= Policies!OldDeadline(s, u)

MCSymmetry == Permutations(Counselors)
=============================================================================
