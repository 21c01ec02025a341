---------------------- MODULE DistributionScheduler_proofs ----------------------
(* Theorems about DistributionScheduler, for any number of runs, days and       *)
(* changes.                                                                      *)
EXTENDS DistributionScheduler, TLAPS

USE DEF Run, Idle, Places, Disturbances

\* A session that moves on, or ends, leaves well-formed sessions.
LEMMA RunType ==
  ASSUME TypeOK, NEW s \in Sessions, Finish(s) \/ \E pc \in Places : Goto(s, pc)
  PROVE  run' \in [Sessions -> Run]
<1>1. CASE Finish(s)
  BY <1>1 DEF Finish, TypeOK
<1>2. ASSUME NEW pc \in Places, Goto(s, pc) PROVE run' \in [Sessions -> Run]
  BY <1>2 DEF Goto, TypeOK
<1> QED BY <1>1, <1>2

\* Every reachable state is of its type.
THEOREM TypeCorrect == Spec => []TypeOK
<1>1. Init => TypeOK
  <2> SUFFICES ASSUME Init PROVE TypeOK
    OBVIOUS
  <2>1. 0 \in 0..LastDay /\ 1 \in 1..LastDay /\ 0 \in 0..LastSlot
    BY SchedulerAssumption
  <2>2. Idle \in Run
    OBVIOUS
  <2>3. /\ 0 \in 0..MaxChanges /\ 0 \in 0..MaxManual
        /\ 0 \in 0..MaxFaults /\ 0 \in 0..MaxCrashes
    BY SchedulerAssumption
  <2>4. 0 \in 0..0
    OBVIOUS
  <2> QED BY <2>1, <2>2, <2>3, <2>4 DEF Init, TypeOK
<1>2. TypeOK /\ [Next]_vars => TypeOK'
  <2> SUFFICES ASSUME TypeOK, [Next]_vars PROVE TypeOK'
    OBVIOUS
  <2> USE DEF TypeOK, At, Goto, Finish, settings
  <2>1. CASE Timer
    <3>1. PICK s \in Sessions : Check(s)
      BY <2>1 DEF Timer
    <3> QED BY <3>1 DEF Check
  <2>2. ASSUME NEW s \in Sessions, RunNow(s) PROVE TypeOK'
    <3>1. spent.manual + 1 \in 0..MaxManual
      BY <2>2, SchedulerAssumption DEF RunNow
    <3> QED BY <2>2, <3>1 DEF RunNow
  <2>3. ASSUME NEW s \in Sessions, Step(s) PROVE TypeOK'
    <3>1. CASE Acquire(s)
      <4>1. Finish(s) \/ \E pc \in Places : Goto(s, pc)
        BY <3>1 DEF Acquire
      <4>2. lock' \in BOOLEAN
        BY <3>1 DEF Acquire
      <4> QED BY <3>1, <4>1, <4>2, RunType DEF Acquire
    <3>2. CASE Distribute(s)
      <4>1. run' \in [Sessions -> Run] /\ disturbed' \subseteq Disturbances
        BY <3>2 DEF Distribute
      <4>2. served' \in BOOLEAN
        BY <3>2 DEF Distribute
      <4> QED BY <3>2, <4>1, <4>2 DEF Distribute
    <3>3. CASE StampDay(s)
      <4>1. clock.day \in 0..LastDay
        OBVIOUS
      <4>2. run' \in [Sessions -> Run] /\ disturbed' \subseteq Disturbances
        BY <3>3 DEF StampDay
      <4> QED BY <3>3, <4>1, <4>2 DEF StampDay
    <3>4. CASE StampSignature(s)  BY <3>4 DEF StampSignature
    <3>5. CASE Release(s)         BY <3>5 DEF Release
    <3>6. CASE Recover(s)         BY <3>6 DEF Recover
    <3> QED BY <2>3, <3>1, <3>2, <3>3, <3>4, <3>5, <3>6 DEF Step
  <2>4. ASSUME NEW s \in Sessions, Fail(s) \/ RecoverFails(s) PROVE TypeOK'
    <3>1. spent.faults < MaxFaults /\ spent' = [spent EXCEPT !.faults = @ + 1]
      BY <2>4 DEF Fail, RecoverFails, Fault
    <3>2. spent.faults + 1 \in 0..MaxFaults
      BY <3>1, SchedulerAssumption
    <3>3. spent' \in [changes : 0..MaxChanges, manual : 0..MaxManual,
                     faults : 0..MaxFaults, crashes : 0..MaxCrashes]
      BY <3>1, <3>2
    <3>4. Finish(s) \/ \E pc \in Places : Goto(s, pc)
      BY <2>4 DEF Fail, RecoverFails
    <3>5. releases' = releases \/ releases' = releases + 1
      BY <2>4 DEF Fail, RecoverFails, ReleaseFails
    <3>6. spent'.faults = spent.faults + 1
      BY <3>1
    <3>7. releases' \in 0..spent'.faults
      BY <3>5, <3>6, SchedulerAssumption
    <3>8. disturbed' \subseteq Disturbances
      BY <2>4 DEF Fail, RecoverFails, ReleaseFails
    <3> QED BY <2>4, <3>3, <3>4, <3>7, <3>8, RunType DEF Fail, RecoverFails
  <2>5. CASE Change
    <3>1. spent.changes + 1 \in 0..MaxChanges
      BY <2>5, SchedulerAssumption DEF Change
    <3>2. enabled' \in BOOLEAN /\ config' \in Configs
      BY <2>5 DEF Change
    <3>3. spent' \in [changes : 0..MaxChanges, manual : 0..MaxManual,
                     faults : 0..MaxFaults, crashes : 0..MaxCrashes]
      BY <2>5, <3>1 DEF Change
    <3> QED BY <2>5, <3>2, <3>3 DEF Change
  <2>6. CASE Crash
    <3>1. spent.crashes + 1 \in 0..MaxCrashes
      BY <2>6, SchedulerAssumption DEF Crash
    <3>2. run' \in [Sessions -> Run] /\ disturbed' \subseteq Disturbances
      BY <2>6 DEF Crash
    <3> QED BY <2>6, <3>1, <3>2 DEF Crash
  <2>7. CASE NextSlot
    <3>1. clock.slot + 1 \in 0..LastSlot
      BY <2>7, SchedulerAssumption DEF NextSlot
    <3> QED BY <2>7, <3>1 DEF NextSlot
  <2>8. CASE NextDay
    <3>1. clock.day + 1 \in 1..LastDay /\ 0 \in 0..LastSlot
      BY <2>8, SchedulerAssumption DEF NextDay
    <3>2. disturbed' \subseteq Disturbances
      BY <2>8 DEF NextDay
    <3> QED BY <2>8, <3>1, <3>2 DEF NextDay
  <2>9. CASE LateRelease
    <3>1. releases - 1 \in 0..spent.faults
      BY <2>9, SchedulerAssumption DEF LateRelease
    <3> QED BY <2>9, <3>1 DEF LateRelease
  <2>10. CASE UNCHANGED vars
    BY <2>10 DEF vars
  <2> QED BY <2>1, <2>2, <2>3, <2>4, <2>5, <2>6, <2>7, <2>8, <2>9, <2>10 DEF Next
<1> QED BY <1>1, <1>2, PTL DEF Spec

-----------------------------------------------------------------------------

\* The inductive form of LockExcludes: who holds the lock has set it, and no late
\* release is about to free it.
LockInv ==
  "release" \notin disturbed =>
    /\ releases = 0
    /\ \A s \in Sessions : Holds(s) => lock /\ \A t \in Sessions : Holds(t) => s = t

\* The lock works for any number of runs: until a release fails, two of them are
\* never under way at a time, also over crashes, failures and midnight.
THEOREM LockExcludesHolds == Spec => []LockExcludes
<1>1. Init => LockInv
  BY DEF Init, LockInv, Holds
<1>2. TypeOK /\ LockInv /\ [Next]_vars => LockInv'
  <2> SUFFICES ASSUME TypeOK, LockInv, [Next]_vars, "release" \notin disturbed'
               PROVE /\ releases' = 0
                     /\ \A s \in Sessions : Holds(s)' =>
                          lock' /\ \A t \in Sessions : Holds(t)' => s = t
    BY DEF LockInv
  <2> USE DEF TypeOK, At, Goto, Finish
  <2>1. "release" \notin disturbed /\ run \in [Sessions -> Run]
    BY DEF Next, Timer, Step, Check, RunNow, Acquire, Distribute, StampDay,
           StampSignature, Release, Recover, Fail, RecoverFails, ReleaseFails,
           LateRelease, Change, Crash, NextSlot, NextDay, vars
  <2>2. releases = 0 /\ ~LateRelease
    BY <2>1 DEF LockInv, LateRelease
  <2>2a. releases' = releases
    BY <2>2 DEF Next, Timer, Step, Check, RunNow, Acquire, Distribute, StampDay,
           StampSignature, Release, Recover, Fail, RecoverFails, ReleaseFails,
           Change, Crash, NextSlot, NextDay, vars
  <2>2b. \A s \in Sessions : Holds(s) => lock /\ \A t \in Sessions : Holds(t) => s = t
    BY <2>1 DEF LockInv
  <2>3. ASSUME NEW s \in Sessions, Check(s) \/ RunNow(s)
        PROVE  \A t \in Sessions : Holds(t)' => Holds(t) /\ lock' = lock
    BY <2>1, <2>3 DEF Check, RunNow, Holds
  <2>4. ASSUME NEW s \in Sessions, Acquire(s)
        PROVE  \A t \in Sessions : Holds(t)' => lock' /\ (~lock => t = s) /\ (lock => Holds(t))
    BY <2>1, <2>2b, <2>4 DEF Acquire, Holds
  <2>5. ASSUME NEW s \in Sessions,
               Distribute(s) \/ StampDay(s) \/ StampSignature(s) \/ Fail(s)
        PROVE  \A t \in Sessions : Holds(t)' => Holds(t) /\ lock' = lock
    BY <2>1, <2>5 DEF Distribute, StampDay, StampSignature, Fail, Fault, ReleaseFails, Holds
  <2>6. ASSUME NEW s \in Sessions, Release(s) \/ Recover(s)
        PROVE  \A t \in Sessions : Holds(t)' => Holds(t) /\ t # s /\ Holds(s)
    BY <2>1, <2>6 DEF Release, Recover, Holds
  <2>7. ASSUME NEW s \in Sessions, RecoverFails(s)
        PROVE  FALSE
    BY <2>7 DEF RecoverFails, ReleaseFails
  <2>8. CASE Change \/ Crash \/ NextSlot \/ NextDay \/ UNCHANGED vars
    <3>1. \A t \in Sessions : Holds(t)' => Holds(t) /\ lock' = lock
      BY <2>8 DEF Change, Crash, NextSlot, NextDay, vars, Holds, settings
    <3> QED BY <2>2, <2>2a, <2>2b, <3>1
  <2> QED
    BY <2>2, <2>2a, <2>2b, <2>3, <2>4, <2>5, <2>6, <2>7, <2>8 DEF Next, Timer, Step
<1>3. LockInv => LockExcludes
  BY DEF LockInv, LockExcludes
<1> QED BY <1>1, <1>2, <1>3, TypeCorrect, PTL DEF Spec
=============================================================================
