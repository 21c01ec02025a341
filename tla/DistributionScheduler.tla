------------------------- MODULE DistributionScheduler -------------------------
(***************************************************************************)
(* The daily distribution of the saved leads (services/                    *)
(* distributionScheduler.js).  A timer fires every minute and does not     *)
(* wait for the run it has started, administrators start runs by hand, and *)
(* all of them share rows of distribution_settings: the configuration, the *)
(* time and signature of the last run, and a lock.  Every query is a       *)
(* transaction of its own, so that a run is a sequence of steps.           *)
(*                                                                         *)
(* A configuration stands for what scheduledRunSignature puts together     *)
(* (time, time zone, number of leads); the time of day is a slot.          *)
(***************************************************************************)
EXTENDS Integers, FiniteSets

CONSTANTS
  Sessions,      \* runs that may be under way at a time
  Configs, NoConfig,
  TimeOf,        \* scheduled_assignment_time of a configuration
  LastSlot, LastDay,
  Overnight,     \* whether a run may last past midnight
  MaxChanges,    \* bounds: changes of the settings,
  MaxManual,     \* runs started by hand,
  MaxFaults,     \* queries that fail,
  MaxCrashes     \* ends of the process

ASSUME SchedulerAssumption ==
  /\ NoConfig \notin Configs
  /\ LastSlot \in Nat /\ LastDay \in Nat \ {0}
  /\ TimeOf \in [Configs -> 0..LastSlot]
  /\ Overnight \in BOOLEAN
  /\ MaxChanges \in Nat /\ MaxManual \in Nat /\ MaxFaults \in Nat /\ MaxCrashes \in Nat

VARIABLES
  enabled,    \* auto_assign_enabled
  config,     \* the configuration stored
  lock,       \* is_distribution_running
  releases,   \* queries that free the lock, under way although their run has failed
  stamp,      \* last_scheduled_run_at (its day) and last_scheduled_run_signature
  clock,      \* day and slot
  run,        \* the runs under way
  served,     \* whether the saved leads were distributed on schedule today
  disturbed,  \* what has happened to the lock or the stamp that a run did not expect
  spent       \* of the bounds

vars == <<enabled, config, lock, releases, stamp, clock, run, served, disturbed, spent>>

Places == {"idle", "due", "locked", "assigned", "stamped", "signed", "failed"}
Disturbances == {"manual", "disabled", "overnight", "crash", "release"}

Run == [pc : Places, manual : BOOLEAN, config : Configs \cup {NoConfig}]
Idle == [pc |-> "idle", manual |-> FALSE, config |-> NoConfig]

TypeOK ==
  /\ enabled \in BOOLEAN /\ config \in Configs /\ lock \in BOOLEAN
  /\ stamp \in [day : 0..LastDay, config : Configs \cup {NoConfig}]
  /\ clock \in [day : 1..LastDay, slot : 0..LastSlot]
  /\ run \in [Sessions -> Run]
  /\ served \in BOOLEAN /\ disturbed \subseteq Disturbances
  /\ spent \in [changes : 0..MaxChanges, manual : 0..MaxManual,
                faults : 0..MaxFaults, crashes : 0..MaxCrashes]
  /\ releases \in 0..spent.faults

Init ==
  /\ enabled = TRUE /\ config \in Configs /\ lock = FALSE /\ releases = 0
  /\ stamp = [day |-> 0, config |-> NoConfig]
  /\ clock = [day |-> 1, slot |-> 0]
  /\ run = [s \in Sessions |-> Idle]
  /\ served = FALSE /\ disturbed = {}
  /\ spent = [changes |-> 0, manual |-> 0, faults |-> 0, crashes |-> 0]

settings == <<enabled, config>>

At(s, pc) == run[s].pc = pc
Goto(s, pc) == run' = [run EXCEPT ![s].pc = pc]
Finish(s) == run' = [run EXCEPT ![s] = Idle]
Fault == spent.faults < MaxFaults /\ spent' = [spent EXCEPT !.faults = @ + 1]

\* Sessions that have taken the lock and not given it back.
Holds(s) == run[s].pc \in {"locked", "assigned", "stamped", "signed", "failed"}

-----------------------------------------------------------------------------
(* runScheduledDistribution *)

\* shouldRunNow: the time has come, and not (ranToday with the same signature).
Due ==
  /\ enabled
  /\ clock.slot >= TimeOf[config]
  /\ ~(stamp.day = clock.day /\ stamp.config = config)

\* The settings are read once; the lock is another query.  A check is made by the
\* timer and by POST /settings/distribution/run-now.
Check(s) ==
  /\ At(s, "idle") /\ Due
  /\ run' = [run EXCEPT ![s] = [pc |-> "due", manual |-> FALSE, config |-> config]]
  /\ UNCHANGED <<settings, lock, releases, stamp, clock, served, disturbed, spent>>

RunNow(s) ==  \* POST /admin/distribution/run-now
  /\ At(s, "idle") /\ spent.manual < MaxManual
  /\ run' = [run EXCEPT ![s] = [pc |-> "due", manual |-> TRUE, config |-> config]]
  /\ spent' = [spent EXCEPT !.manual = @ + 1]
  /\ UNCHANGED <<settings, lock, releases, stamp, clock, served, disturbed>>

\* Mutant: the lock is written without a look at its value.
AcquireAlways(s) ==
  /\ At(s, "due") /\ lock' = TRUE /\ Goto(s, "locked")
  /\ UNCHANGED <<settings, releases, stamp, clock, served, disturbed, spent>>

Acquire(s) ==
  /\ At(s, "due")
  /\ IF lock THEN Finish(s) /\ UNCHANGED lock
     ELSE Goto(s, "locked") /\ lock' = TRUE
  /\ UNCHANGED <<settings, releases, stamp, clock, served, disturbed, spent>>

\* runAutoAssignment commits.  It reads auto_assign_enabled again, and a scheduled
\* run that finds it off has assigned nothing and goes on all the same.
Distribute(s) ==
  /\ At(s, "locked") /\ Goto(s, "assigned")
  /\ served' = (served \/ (enabled /\ ~run[s].manual))
  /\ disturbed' = disturbed \cup (IF enabled \/ run[s].manual THEN {} ELSE {"disabled"})
  /\ UNCHANGED <<settings, lock, releases, stamp, clock, spent>>

\* Mutant: the day is taken from another time zone.
StampDayElsewhere(s) ==
  /\ At(s, "assigned")
  /\ stamp' = [stamp EXCEPT !.day = clock.day + 1]
  /\ Goto(s, IF run[s].manual THEN "signed" ELSE "stamped")
  /\ UNCHANGED <<settings, lock, releases, clock, served, disturbed, spent>>

StampDay(s) ==
  /\ At(s, "assigned")
  /\ stamp' = [stamp EXCEPT !.day = clock.day]
  /\ Goto(s, IF run[s].manual THEN "signed" ELSE "stamped")
  /\ disturbed' = disturbed \cup (IF run[s].manual THEN {"manual"} ELSE {})
  /\ UNCHANGED <<settings, lock, releases, clock, served, spent>>

\* Mutant: the signature is not stored.
StampNoSignature(s) ==
  /\ At(s, "stamped") /\ Goto(s, "signed")
  /\ UNCHANGED <<settings, lock, releases, stamp, clock, served, disturbed, spent>>

StampSignature(s) ==
  /\ At(s, "stamped") /\ Goto(s, "signed")
  /\ stamp' = [stamp EXCEPT !.config = run[s].config]
  /\ UNCHANGED <<settings, lock, releases, clock, served, disturbed, spent>>

Release(s) ==  \* releaseRunLock after a run
  /\ At(s, "signed") /\ lock' = FALSE /\ Finish(s)
  /\ UNCHANGED <<settings, releases, stamp, clock, served, disturbed, spent>>

\* releaseRunLock sends three queries at a time and fails with the first that
\* does; the one that frees the lock may still be under way.
ReleaseFails == releases' = releases + 1 /\ disturbed' = disturbed \cup {"release"}

Fail(s) ==  \* a query of the run
  /\ run[s].pc \in {"locked", "assigned", "stamped", "signed"} /\ Fault /\ Goto(s, "failed")
  /\ \/ UNCHANGED <<releases, disturbed>>
     \/ At(s, "signed") /\ ReleaseFails
  /\ UNCHANGED <<settings, lock, stamp, clock, served>>

LateRelease ==
  /\ releases > 0 /\ releases' = releases - 1
  /\ lock' = FALSE
  /\ UNCHANGED <<settings, stamp, clock, run, served, disturbed, spent>>

\* Mutant: a run that has failed keeps the lock.
RecoverKeepLock(s) ==
  /\ At(s, "failed") /\ Finish(s)
  /\ UNCHANGED <<settings, lock, releases, stamp, clock, served, disturbed, spent>>

Recover(s) ==  \* the catch block: releaseRunLock again
  /\ At(s, "failed") /\ lock' = FALSE /\ Finish(s)
  /\ UNCHANGED <<settings, releases, stamp, clock, served, disturbed, spent>>

RecoverFails(s) ==
  /\ At(s, "failed") /\ Fault /\ Finish(s)
  /\ \/ disturbed' = disturbed \cup {"release"} /\ UNCHANGED releases
     \/ ReleaseFails
  /\ UNCHANGED <<settings, lock, stamp, clock, served>>

-----------------------------------------------------------------------------
(* What goes on around a run. *)

Change ==  \* PATCH /admin/assignment/settings, PATCH /settings/distribution
  /\ spent.changes < MaxChanges
  /\ spent' = [spent EXCEPT !.changes = @ + 1]
  /\ \/ enabled' = ~enabled /\ UNCHANGED config
     \/ config' \in Configs \ {config} /\ UNCHANGED enabled
  /\ UNCHANGED <<lock, releases, stamp, clock, run, served, disturbed>>

\* The process ends and is started again; nothing resets the lock.  A query it
\* has sent may still be carried out.
Crash ==
  /\ spent.crashes < MaxCrashes
  /\ spent' = [spent EXCEPT !.crashes = @ + 1]
  /\ run' = [s \in Sessions |-> Idle]
  /\ disturbed' = disturbed \cup (IF lock THEN {"crash"} ELSE {})
  /\ UNCHANGED <<settings, lock, releases, stamp, clock, served>>

NextSlot ==
  /\ clock.slot < LastSlot
  /\ clock' = [clock EXCEPT !.slot = @ + 1]
  /\ UNCHANGED <<settings, lock, releases, stamp, run, served, disturbed, spent>>

NextDay ==
  /\ clock.day < LastDay /\ clock.slot = LastSlot
  /\ Overnight \/ \A s \in Sessions : At(s, "idle")
  /\ clock' = [day |-> clock.day + 1, slot |-> 0]
  /\ served' = FALSE
  /\ disturbed' = disturbed \cup
       (IF \A s \in Sessions : At(s, "idle") THEN {} ELSE {"overnight"})
  /\ UNCHANGED <<settings, lock, releases, stamp, run, spent>>

-----------------------------------------------------------------------------

Step(s) ==
  \/ Acquire(s) \/ Distribute(s) \/ StampDay(s) \/ StampSignature(s)
  \/ Release(s) \/ Recover(s)

Timer == \E s \in Sessions : Check(s)

Next ==
  \/ Timer
  \/ \E s \in Sessions : RunNow(s) \/ Step(s) \/ Fail(s) \/ RecoverFails(s)
  \/ LateRelease \/ Change \/ Crash \/ NextSlot \/ NextDay

\* The timer fires every minute, a run goes on as long as its process does, and
\* time passes.
Fairness ==
  /\ WF_vars(Timer) /\ WF_vars(NextSlot) /\ WF_vars(NextDay)
  /\ \A s \in Sessions : WF_vars(Step(s))

Spec == Init /\ [][Next]_vars /\ Fairness

-----------------------------------------------------------------------------
(* Properties. *)

\* The lock of migration 049: two runs are never under way at a time, unless the
\* release of the lock has failed (it is then released a second time, at once and
\* perhaps late, although another run may have taken it).
LockExcludes ==
  "release" \notin disturbed =>
    \A s, t \in Sessions : Holds(s) /\ Holds(t) => s = t

\* A scheduled run that is over is not repeated for ever: once the settings are
\* left alone, the stamp and the signature it leaves end the day's runs, in
\* whatever order overlapping runs have written them.
Settles == <>[](\A s \in Sessions : ~At(s, "assigned"))

Scheduled(d) == clock.day = d /\ enabled /\ clock.slot >= TimeOf[config]

\* On a day that nothing has disturbed the saved leads are distributed, also if
\* queries fail on the way and runs overlap.
DailyRunUndisturbed ==
  \A d \in 1..LastDay :
    Scheduled(d) ~> served \/ ~Scheduled(d) \/ disturbed # {}

\* "Saved leads are assigned once per day at the configured IST time."
DailyRun == \A d \in 1..LastDay : Scheduled(d) ~> served \/ ~Scheduled(d)
=============================================================================
