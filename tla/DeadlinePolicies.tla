--------------------------- MODULE DeadlinePolicies ---------------------------
(***************************************************************************)
(* When work falls due: the deadlines of a counselor's journeys            *)
(* (counselorWorkflowPolicies.js) and the time of the next call of a retry *)
(* plan (calculateNextCallTime of leadCallAttemptService.js).  Times are   *)
(* milliseconds of the business clock, which is 05:30 ahead of UTC all     *)
(* year, counted from a midnight.                                          *)
(***************************************************************************)
EXTENDS Integers

Minute == 60000
Hour == 60 * Minute
Day == 24 * Hour

NoTime == -1

TimeOfDay(t) == t % Day
Midnight(t) == t - TimeOfDay(t)

-----------------------------------------------------------------------------
(* Journeys. *)

RetryableIssues == {"cnr", "recall", "busy", "cb", "rnr", "cw", "nn", "so", "nc",
                    "call_cut_busy", "switched_off"}
NrStatuses == {"nrac", "nracm", "nrapm", "nraf", "nraq"}

\* Hours in the journey, then in Old.
Durations ==
  [communication_completed |-> <<1, 20>>, common_meeting |-> <<15, 20>>, dim |-> <<15, 20>>,
   personal_meeting |-> <<1, 5>>, quotation |-> <<1, 5>>, follow_up |-> <<18, 6>>,
   hot |-> <<6, 18>>, warm |-> <<6, 18>>, process_incomplete |-> <<6, 18>>]

TimedStatuses == RetryableIssues \cup NrStatuses \cup DOMAIN Durations \cup {"respond_hi"}

Cutoff == 21 * Hour + 30 * Minute
NextRespondedCutoff(t) ==
  IF TimeOfDay(t) <= Cutoff THEN Midnight(t) + Cutoff ELSE Midnight(t) + Cutoff + Day

InOffice(t) == 9 * Hour <= TimeOfDay(t) /\ TimeOfDay(t) <= 17 * Hour
OfficeDeadline(t) ==
  IF InOffice(t) THEN t + 2 * Hour
  ELSE Midnight(t) + 10 * Hour + IF TimeOfDay(t) > 17 * Hour THEN Day ELSE 0

\* move_to_old_at and move_to_pending_at of journeyDeadlines.
OldDeadline(s, t) ==
  IF s \in NrStatuses THEN OfficeDeadline(t)
  ELSE IF s \in RetryableIssues THEN t + 2 * Hour
  ELSE IF s = "respond_hi" THEN NextRespondedCutoff(t)
  ELSE t + Durations[s][1] * Hour

HoursInOld(s) ==
  IF s \in NrStatuses THEN 14
  ELSE IF s \in RetryableIssues THEN 22
  ELSE IF s = "respond_hi" THEN 20
  ELSE Durations[s][2]

PendingDeadline(s, t) == OldDeadline(s, t) + HoursInOld(s) * Hour

-----------------------------------------------------------------------------
(* Retry plans. *)

MaxAttemptsPerSequence == 4

\* Minutes from one attempt to the next.
RetryDelay ==
  [recall |-> 180, cnr |-> 180, busy |-> 30, cb |-> 30, cw |-> 30, call_cut_busy |-> 45,
   rnr |-> 150, nn |-> 120, so |-> 180, nc |-> 120]

InBusinessHours(t) == 9 * Hour <= TimeOfDay(t) /\ TimeOfDay(t) < 19 * Hour
SnapIntoBusinessHours(t) ==
  IF InBusinessHours(t) THEN t
  ELSE Midnight(t) + 9 * Hour + IF TimeOfDay(t) < 9 * Hour THEN 0 ELSE Day

ScheduleNextBusinessDayAt(t, clock) == Midnight(t) + Day + clock

\* Ten days later, to the minute.
ScheduleFinalRecoveryAttempt(t) == SnapIntoBusinessHours(t - (t % Minute) + 10 * Day)

\* The time of the attempt after number n, which was made at time t; followup is the
\* one that was agreed on, if any.
CalculateNextCallTime(issue, n, t, followup) ==
  IF issue \notin DOMAIN RetryDelay \/ n >= MaxAttemptsPerSequence THEN NoTime
  ELSE IF issue = "recall" /\ followup # NoTime THEN SnapIntoBusinessHours(followup)
  ELSE IF n = 3 THEN ScheduleFinalRecoveryAttempt(t)
  ELSE IF n = 2 /\ issue = "cnr" THEN ScheduleNextBusinessDayAt(t, 11 * Hour)
  ELSE SnapIntoBusinessHours(t + RetryDelay[issue] * Minute)
=============================================================================
