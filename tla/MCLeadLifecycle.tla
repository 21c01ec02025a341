--------------------------- MODULE MCLeadLifecycle ---------------------------
(***************************************************************************)
(* Instance of LeadLifecycle for TLC.                                      *)
(***************************************************************************)
EXTENDS LeadLifecycle, TLC

CONSTANTS u1, nobody, boss, s1, api

Superior == (u1 :> boss)

\* The times of the next call in the cases of the repository's tests of
\* leadCallAttemptService.js, and about the business hours.
Policies == INSTANCE DeadlinePolicies
OnDay(day, hour, minute) == day * Policies!Day + hour * Policies!Hour + minute * Policies!Minute
Boundaries == {OnDay(0, hour, 0) + ms : hour \in {6, 9, 11, 16, 18, 19}, ms \in {-1, 0, 1}}

ASSUME NextCallsAsTested ==
  LET Next1(issue, n, t) == Policies!CalculateNextCallTime(issue, n, t, Policies!NoTime) IN
  /\ Next1("cnr", 1, OnDay(0, 14, 0)) = OnDay(0, 17, 0)
  /\ Next1("cnr", 2, OnDay(0, 17, 0)) = OnDay(1, 11, 0)
  /\ Next1("cnr", 1, OnDay(0, 18, 30)) = OnDay(1, 9, 0)
  /\ Next1("busy", 1, OnDay(0, 14, 0)) = OnDay(0, 14, 30)
  /\ Next1("cnr", 3, OnDay(0, 11, 2)) = OnDay(10, 11, 2)
  /\ Next1("cnr", 4, OnDay(0, 11, 2)) = Policies!NoTime

ASSUME NextCallsInHours ==
  \A issue \in DOMAIN Policies!RetryDelay, n \in 1..3, t \in Boundaries,
     followup \in Boundaries \cup {Policies!NoTime} :
    LET next == Policies!CalculateNextCallTime(issue, n, t, followup) IN
    /\ Policies!InBusinessHours(next)
    /\ issue # "recall" \/ followup = Policies!NoTime => t < next
=============================================================================
