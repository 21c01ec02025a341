--------------------------- MODULE SheetSync_proofs ---------------------------
(***************************************************************************)
(* Proofs about SheetSync, for any number of leads and workers.            *)
(***************************************************************************)
EXTENDS SheetSync, TLAPS

\* What is known of a worker by the place it is in.
SoundAt(w) ==
  /\ pc[w] = "idle" => job[w] # "one"
  /\ pc[w] \in {"claimed", "done"} => tries[w] > 0
  /\ tries[w] > 0 \/ job[w] = "one" \/ pc[w] = "record" => at[w] \in Leads
  /\ job[w] # "one" => tries[w] = 0
  /\ pc[w] \in {"pull", "leads", "rows", "record"} => job[w] = "pull"
  /\ pc[w] = "record" => at[w] \in todo[w]
  /\ pc[w] \in {"rows", "record"} => \A l \in todo[w] : cells[w][l] # NoRow
WorkerSound == \A w \in Workers : SoundAt(w)

WorkerTypes ==
  /\ pc \in [Workers -> {"idle", "claimed", "ready", "asking", "done"} \cup Inside]
  /\ job \in [Workers -> Jobs]
  /\ at \in [Workers -> Leads \cup {NoLead}] /\ tries \in [Workers -> 0..MaxTries]
  /\ snap \in [Workers -> [Leads -> [value : Cells, stamp : Nat]]]
  /\ cells \in [Workers -> [Leads -> Cells \cup {NoRow}]]
  /\ todo \in [Workers -> SUBSET Leads] /\ touched \in [Workers -> BOOLEAN]
QueueTypes ==
  pending \in [Leads -> 0..(MaxTries - 1) \cup {NoEvent}] /\ owed \subseteq Leads
LeadRow == [value : Values, stamp : Nat, newest : Nat, late : BOOLEAN, by : {"crm", "sheet"}]
LeadTypes == lead \in [Leads -> LeadRow]
SheetTypes == sheet \in [Leads -> Cells \cup {NoRow}]
RowTypes == row \in [Leads -> [pushed : Cells \cup {NoRow}, seen : Nat]]
Spent == [edits : 0..MaxEdits, typed : 0..MaxTyped, late : 0..MaxFaults, faults : 0..MaxFaults]
RestTypes ==
  /\ lock \in {"free", "held", "old"}
  /\ spent \in Spent

TypeInv ==
  WorkerTypes /\ WorkerSound /\ QueueTypes /\ LeadTypes /\ SheetTypes /\ RowTypes /\ RestTypes

USE DEF MaxTries

LEMMA TypeInvIsTyped == TypeInv => TypeOK
BY DEF TypeInv, TypeOK, WorkerTypes, WorkerSound, SoundAt, QueueTypes, LeadTypes, LeadRow,
   SheetTypes, RowTypes, RestTypes, Spent, Outside

LEMMA ReadTypes ==
  ASSUME LeadTypes
  PROVE  Read \in [Leads -> [value : Cells, stamp : Nat]]
BY DEF LeadTypes, LeadRow, Read, Cells

LEMMA ResetTypes ==
  /\ NotRead \in [Leads -> [value : Cells, stamp : Nat]]
  /\ Empty \in [Leads -> Cells \cup {NoRow}]
BY DEF NotRead, Empty, Cells

LEMMA FinishTypes ==
  ASSUME WorkerTypes, WorkerSound, NEW w \in Workers, Finish(w)
  PROVE  WorkerTypes' /\ WorkerSound'
<1> USE ResetTypes DEF Finish, Forget, GoTo
<1>1. WorkerTypes'
  BY DEF WorkerTypes, Jobs
<1>2. \A v \in Workers \ {w} : /\ pc'[v] = pc[v] /\ job'[v] = job[v] /\ at'[v] = at[v] /\ tries'[v] = tries[v]
                               /\ cells'[v] = cells[v] /\ todo'[v] = todo[v]
  BY DEF WorkerTypes
<1>3. pc'[w] = "idle" /\ job'[w] = "push" /\ at'[w] = NoLead /\ tries'[w] = 0
  BY DEF WorkerTypes
<1>4. WorkerSound'
  BY <1>2, <1>3 DEF WorkerSound, SoundAt
<1> QED BY <1>1, <1>4

LEMMA EndSyncTypes ==
  ASSUME WorkerTypes, WorkerSound, NEW w \in Workers, EndSync(w)
  PROVE  WorkerTypes' /\ WorkerSound'
<1>1. CASE tries[w] = 0
  BY <1>1, FinishTypes DEF EndSync
<1>2. CASE tries[w] # 0
  <2>a. GoTo(w, "done") /\ Forget(w) /\ UNCHANGED <<job, at, tries, touched>>
    BY <1>2 DEF EndSync
  <2>b. tries[w] \in 0..MaxTries
    BY DEF WorkerTypes
  <2>c. tries[w] > 0
    BY <1>2, <2>b DEF MaxTries
  <2>1. GoTo(w, "done") /\ Forget(w) /\ UNCHANGED <<job, at, tries, touched>> /\ tries[w] > 0
    BY <2>a, <2>c
  <2> USE DEF GoTo, Forget
  <2>2. WorkerTypes'
    BY <2>1, ResetTypes DEF WorkerTypes
  <2>3. \A v \in Workers \ {w} : /\ pc'[v] = pc[v] /\ job'[v] = job[v] /\ at'[v] = at[v] /\ tries'[v] = tries[v]
                                 /\ cells'[v] = cells[v] /\ todo'[v] = todo[v]
    BY <2>1 DEF WorkerTypes
  <2>4. SoundAt(w)'
    BY <2>1 DEF WorkerTypes, WorkerSound, SoundAt
  <2> QED BY <2>2, <2>3, <2>4 DEF WorkerSound, SoundAt
<1> QED BY <1>1, <1>2

LEMMA SpentTypes ==
  ASSUME RestTypes
  PROVE  /\ spent.edits \in Nat /\ spent.typed \in Nat /\ spent.late \in Nat /\ spent.faults \in Nat
         /\ spent.edits < MaxEdits => \A n \in {0, 1} :
              (n = 1 => MayFail) => [spent EXCEPT !.edits = @ + 1, !.late = @ + n] \in Spent
         /\ spent.typed < MaxTyped => [spent EXCEPT !.typed = @ + 1] \in Spent
         /\ MayFail => [spent EXCEPT !.faults = @ + 1] \in Spent
         /\ \A n \in {0, 1} : (n = 1 => MayFail) => [spent EXCEPT !.late = @ + n] \in Spent
<1>1. /\ spent \in Spent /\ spent.edits \in 0..MaxEdits /\ spent.typed \in 0..MaxTyped
      /\ spent.late \in 0..MaxFaults /\ spent.faults \in 0..MaxFaults
  BY DEF RestTypes, Spent
<1>2. \A m \in 0..MaxEdits, n \in 0..MaxFaults : [spent EXCEPT !.edits = m, !.late = n] \in Spent
  BY <1>1 DEF Spent
<1>3. \A n \in 0..MaxTyped : [spent EXCEPT !.typed = n] \in Spent
  BY <1>1 DEF Spent
<1>4. \A n \in 0..MaxFaults : [spent EXCEPT !.faults = n] \in Spent /\ [spent EXCEPT !.late = n] \in Spent
  BY <1>1 DEF Spent
<1>5. /\ spent.edits < MaxEdits => spent.edits + 1 \in 0..MaxEdits
      /\ spent.typed < MaxTyped => spent.typed + 1 \in 0..MaxTyped
      /\ MayFail => spent.faults + 1 \in 0..MaxFaults /\ spent.late + 1 \in 0..MaxFaults
      /\ spent.late + 0 \in 0..MaxFaults
  BY <1>1, BoundsAssumption DEF MayFail
<1>6. \A n \in {0, 1} : (n = 1 => MayFail) => spent.late + n \in 0..MaxFaults
  BY <1>5
<1>7. spent.edits \in Nat /\ spent.typed \in Nat /\ spent.late \in Nat /\ spent.faults \in Nat
  BY <1>1, BoundsAssumption
<1> QED BY <1>2, <1>3, <1>4, <1>5, <1>6, <1>7

\* A write gives a lead a row of its type, and is counted if its stamp is late.
LEMMA StampedTypes ==
  ASSUME LeadTypes, NEW l \in Leads, NEW v \in Values, NEW t \in Stamps(l), NEW who \in {"crm", "sheet"}
  PROVE  /\ Stamped(l, v, t, who) \in LeadRow /\ t \in Nat
         /\ Late(l, t) \in {0, 1} /\ (Late(l, t) = 1 => MayFail)
<1>1. lead[l] \in LeadRow /\ lead[l].newest \in Nat /\ lead[l].by \in {"crm", "sheet"}
  BY DEF LeadTypes, LeadRow
<1>2. t \in Nat /\ (t > lead[l].newest \/ MayFail)
  BY <1>1 DEF Stamps
<1>3. Stamped(l, v, t, who) \in LeadRow
  BY <1>1, <1>2 DEF Stamped, LeadRow
<1> QED BY <1>2, <1>3 DEF Late

LEMMA WrittenTypes ==
  ASSUME WorkerTypes, SheetTypes, NEW w \in Workers, sheet' = Written(w)
  PROVE  SheetTypes'
<1>1. \A l \in Leads : snap[w][l].value \in Cells /\ sheet[l] \in Cells \cup {NoRow}
  BY DEF WorkerTypes, SheetTypes
<1> QED BY <1>1 DEF SheetTypes, Written

LEMMA TakeOffTypes ==
  ASSUME WorkerTypes, NEW w \in Workers, NEW l \in Leads, NEW p \in Inside, TakeOff(w, l, p)
  PROVE  /\ pc' \in [Workers -> {"idle", "claimed", "ready", "asking", "done"} \cup Inside]
         /\ snap' \in [Workers -> [Leads -> [value : Cells, stamp : Nat]]]
         /\ cells' \in [Workers -> [Leads -> Cells \cup {NoRow}]]
         /\ todo' \in [Workers -> SUBSET Leads]
         /\ \A v \in Workers \ {w} :
              pc'[v] = pc[v] /\ cells'[v] = cells[v] /\ todo'[v] = todo[v] /\ snap'[v] = snap[v]
         /\ \/ pc'[w] = "leave"
            \/ pc'[w] = p /\ todo'[w] \subseteq todo[w] /\ cells'[w] = cells[w] /\ snap'[w] = snap[w]
<1>1. CASE todo[w] = {l}
  BY <1>1, ResetTypes DEF TakeOff, Return, Forget, GoTo, WorkerTypes, Inside
<1>2. CASE todo[w] # {l}
  <2>1. todo[w] \ {l} \in SUBSET Leads
    BY DEF WorkerTypes
  <2> QED BY <1>2, <2>1 DEF TakeOff, GoTo, WorkerTypes
<1> QED BY <1>1, <1>2

LEMMA RequestTypes ==
  ASSUME TypeInv, NEW w \in Workers, NEW kind, Request(w, kind)
  PROVE  TypeInv'
<1> USE DEF TypeInv
<1>1. WorkerTypes'
  BY ReadTypes, ResetTypes DEF Request, GoTo, WorkerTypes, Jobs, Inside
<1>2. WorkerSound'
  <2>1. \A v \in Workers \ {w} : /\ pc'[v] = pc[v] /\ job'[v] = job[v] /\ at'[v] = at[v] /\ tries'[v] = tries[v]
                                 /\ cells'[v] = cells[v] /\ todo'[v] = todo[v]
    BY DEF Request, GoTo, WorkerTypes
  <2>2. SoundAt(w)'
    BY DEF Request, GoTo, WorkerTypes, WorkerSound, SoundAt
  <2> QED BY <2>1, <2>2 DEF WorkerSound, SoundAt
<1>3. QueueTypes' /\ LeadTypes' /\ SheetTypes' /\ RowTypes' /\ RestTypes'
  BY DEF Request, GoTo, QueueTypes, LeadTypes, SheetTypes, RowTypes, RestTypes, data, queue
<1> QED BY <1>1, <1>2, <1>3

LEMMA PushAssignedTypes ==
  ASSUME TypeInv, NEW w \in Workers, NEW l \in Leads, PushAssigned(w, l)
  PROVE  TypeInv'
<1> USE DEF TypeInv
<1>1. WorkerTypes'
  BY ReadTypes, ResetTypes DEF PushAssigned, GoTo, WorkerTypes, Jobs, Inside
<1>2. WorkerSound'
  BY DEF PushAssigned, GoTo, WorkerTypes, WorkerSound, SoundAt
<1>3. QueueTypes' /\ LeadTypes' /\ SheetTypes' /\ RowTypes' /\ RestTypes'
  BY DEF PushAssigned, GoTo, QueueTypes, LeadTypes, SheetTypes, RowTypes, RestTypes, data, queue
<1> QED BY <1>1, <1>2, <1>3

LEMMA ClaimTypes ==
  ASSUME TypeInv, NEW w \in Workers, NEW l \in Leads, Claim(w, l)
  PROVE  TypeInv'
<1> USE DEF TypeInv
<1>0. pending[l] + 1 \in 1..MaxTries
  BY DEF Claim, QueueTypes
<1>1. WorkerTypes'
  BY <1>0 DEF Claim, GoTo, WorkerTypes, Jobs
<1>2. WorkerSound'
  <2>1. \A v \in Workers \ {w} : /\ pc'[v] = pc[v] /\ job'[v] = job[v] /\ at'[v] = at[v] /\ tries'[v] = tries[v]
                                 /\ cells'[v] = cells[v] /\ todo'[v] = todo[v]
    BY <1>0 DEF Claim, GoTo, WorkerTypes
  <2>2. SoundAt(w)'
    BY <1>0 DEF Claim, GoTo, WorkerTypes, WorkerSound, SoundAt
  <2> QED BY <2>1, <2>2 DEF WorkerSound, SoundAt
<1>3. QueueTypes' /\ LeadTypes' /\ SheetTypes' /\ RowTypes' /\ RestTypes'
  BY DEF Claim, GoTo, QueueTypes, LeadTypes, SheetTypes, RowTypes, RestTypes, data, queue
<1> QED BY <1>1, <1>2, <1>3

LEMMA ReadLeadTypes ==
  ASSUME TypeInv, NEW w \in Workers, ReadLead(w)
  PROVE  TypeInv'
<1> USE DEF TypeInv
<1>1. WorkerTypes'
  BY ReadTypes, ResetTypes DEF ReadLead, GoTo, WorkerTypes, Jobs, Inside
<1>2. WorkerSound'
  BY DEF ReadLead, GoTo, WorkerTypes, WorkerSound, SoundAt
<1>3. QueueTypes' /\ LeadTypes' /\ SheetTypes' /\ RowTypes' /\ RestTypes'
  BY DEF ReadLead, GoTo, QueueTypes, LeadTypes, SheetTypes, RowTypes, RestTypes, data, queue
<1> QED BY <1>1, <1>2, <1>3

LEMMA TakeLockTypes ==
  ASSUME TypeInv, NEW w \in Workers, pc[w] = "asking", TakeLock(w)
  PROVE  TypeInv'
<1> USE DEF TypeInv
<1>1. WorkerTypes'
  <2>1. job[w] = "one" => {at[w]} \in SUBSET Leads
    BY DEF TakeLock, GoTo, WorkerSound, SoundAt
  <2> QED BY <2>1 DEF TakeLock, GoTo, WorkerTypes, Jobs, Inside
<1>2. WorkerSound'
  <2>1. \A v \in Workers \ {w} : /\ pc'[v] = pc[v] /\ job'[v] = job[v] /\ at'[v] = at[v] /\ tries'[v] = tries[v]
                                 /\ cells'[v] = cells[v] /\ todo'[v] = todo[v]
    BY DEF TakeLock, GoTo, WorkerTypes
  <2>2. SoundAt(w)'
    BY DEF TakeLock, GoTo, WorkerTypes, WorkerSound, SoundAt, Jobs
  <2> QED BY <2>1, <2>2 DEF WorkerSound, SoundAt
<1>3. QueueTypes' /\ LeadTypes' /\ SheetTypes' /\ RowTypes' /\ RestTypes'
  BY DEF TakeLock, GoTo, QueueTypes, LeadTypes, SheetTypes, RowTypes, RestTypes, data, queue
<1> QED BY <1>1, <1>2, <1>3

LEMMA FailTypes ==
  ASSUME TypeInv, NEW w \in Workers, Fail(w)
  PROVE  TypeInv'
<1> USE DEF TypeInv
<1>1. WorkerTypes'
  BY ReadTypes, ResetTypes DEF Fail, GoTo, Return, Forget, WorkerTypes, Jobs, Inside
<1>2. WorkerSound'
  BY DEF Fail, GoTo, Return, Forget, WorkerTypes, WorkerSound, SoundAt
<1>3. QueueTypes' /\ LeadTypes' /\ SheetTypes' /\ RowTypes' /\ RestTypes'
  BY DEF Fail, GoTo, Return, Forget, QueueTypes, LeadTypes, SheetTypes, RowTypes, RestTypes, data, queue
<1> QED BY <1>1, <1>2, <1>3

LEMMA LoseAnswerTypes ==
  ASSUME TypeInv, NEW w \in Workers, LoseAnswer(w)
  PROVE  TypeInv'
<1> USE DEF TypeInv
<1>1. WorkerTypes'
  BY ReadTypes, ResetTypes DEF LoseAnswer, GoTo, Return, Forget, WorkerTypes, Jobs, Inside
<1>2. WorkerSound'
  BY DEF LoseAnswer, GoTo, Return, Forget, WorkerTypes, WorkerSound, SoundAt
<1>3. QueueTypes' /\ LeadTypes' /\ SheetTypes' /\ RowTypes' /\ RestTypes'
  <2>1. RestTypes'
    BY SpentTypes DEF LoseAnswer, RestTypes
  <2> QED BY <2>1 DEF LoseAnswer, QueueTypes, LeadTypes, SheetTypes, RowTypes, queue, data
<1> QED BY <1>1, <1>2, <1>3

LEMMA ReadLeadsTypes ==
  ASSUME TypeInv, NEW w \in Workers, ReadLeads(w)
  PROVE  TypeInv'
<1> USE DEF TypeInv
<1>1. WorkerTypes'
  BY ReadTypes, ResetTypes DEF ReadLeads, GoTo, WorkerTypes, Jobs, Inside
<1>2. WorkerSound'
  BY DEF ReadLeads, GoTo, WorkerTypes, WorkerSound, SoundAt
<1>3. QueueTypes' /\ LeadTypes' /\ SheetTypes' /\ RowTypes' /\ RestTypes'
  BY DEF ReadLeads, GoTo, QueueTypes, LeadTypes, SheetTypes, RowTypes, RestTypes, data, queue
<1> QED BY <1>1, <1>2, <1>3

LEMMA WriteTypes ==
  ASSUME TypeInv, NEW w \in Workers, Write(w)
  PROVE  TypeInv'
<1> USE DEF TypeInv
<1>1. WorkerTypes'
  BY ReadTypes, ResetTypes DEF Write, GoTo, WorkerTypes, Jobs, Inside
<1>2. WorkerSound'
  BY DEF Write, GoTo, WorkerTypes, WorkerSound, SoundAt
<1>3. QueueTypes' /\ LeadTypes' /\ SheetTypes' /\ RowTypes' /\ RestTypes'
  BY WrittenTypes DEF Write, QueueTypes, LeadTypes, RowTypes, RestTypes, queue
<1> QED BY <1>1, <1>2, <1>3

LEMMA SaveRowTypes ==
  ASSUME TypeInv, NEW w \in Workers, NEW l \in Leads, SaveRow(w, l)
  PROVE  TypeInv'
<1> USE DEF TypeInv
<1>1. WorkerTypes'
  BY TakeOffTypes DEF SaveRow, GoTo, RowState, WorkerTypes, Inside
<1>2. WorkerSound'
  <2>1. \A v \in Workers \ {w} : /\ pc'[v] = pc[v] /\ job'[v] = job[v] /\ at'[v] = at[v] /\ tries'[v] = tries[v]
                                 /\ cells'[v] = cells[v] /\ todo'[v] = todo[v]
    BY TakeOffTypes DEF SaveRow, GoTo, RowState, Inside, WorkerTypes
  <2>2. SoundAt(w)'
    BY TakeOffTypes DEF SaveRow, GoTo, RowState, Inside, WorkerTypes, WorkerSound, SoundAt, Inside
  <2> QED BY <2>1, <2>2 DEF WorkerSound, SoundAt
<1>3. QueueTypes' /\ LeadTypes' /\ SheetTypes' /\ RowTypes' /\ RestTypes'
  BY DEF SaveRow, GoTo, RowState, QueueTypes, LeadTypes, SheetTypes, RowTypes, RestTypes, data, queue, WorkerTypes
<1> QED BY <1>1, <1>2, <1>3

LEMMA ReadSheetTypes ==
  ASSUME TypeInv, NEW w \in Workers, ReadSheet(w)
  PROVE  TypeInv'
<1> USE DEF TypeInv
<1>1. WorkerTypes'
  BY ReadTypes, ResetTypes DEF ReadSheet, GoTo, WorkerTypes, Jobs, Inside, SheetTypes
<1>2. WorkerSound'
  BY DEF ReadSheet, GoTo, WorkerTypes, WorkerSound, SoundAt, SheetTypes
<1>3. QueueTypes' /\ LeadTypes' /\ SheetTypes' /\ RowTypes' /\ RestTypes'
  BY DEF ReadSheet, GoTo, QueueTypes, LeadTypes, SheetTypes, RowTypes, RestTypes, data, queue
<1> QED BY <1>1, <1>2, <1>3

LEMMA ReadForPullTypes ==
  ASSUME TypeInv, NEW w \in Workers, ReadForPull(w)
  PROVE  TypeInv'
<1> USE DEF TypeInv
<1>1. WorkerTypes'
  <2>1. {l \in Leads : cells[w][l] # NoRow} \in SUBSET Leads
    OBVIOUS
  <2>2. CASE cells[w] = Empty
    BY <2>2, ResetTypes DEF ReadForPull, GoTo, Return, Forget, WorkerTypes, Inside
  <2>3. CASE cells[w] # Empty
    BY <2>1, <2>3, ReadTypes DEF ReadForPull, GoTo, Return, Forget, WorkerTypes, Inside
  <2> QED BY <2>2, <2>3
<1>2. WorkerSound'
  BY DEF ReadForPull, GoTo, Return, Forget, WorkerTypes, WorkerSound, SoundAt
<1>3. QueueTypes' /\ LeadTypes' /\ SheetTypes' /\ RowTypes' /\ RestTypes'
  BY DEF ReadForPull, GoTo, Return, Forget, QueueTypes, LeadTypes, SheetTypes, RowTypes, RestTypes, data, queue
<1> QED BY <1>1, <1>2, <1>3

LEMMA PassRowTypes ==
  ASSUME TypeInv, NEW w \in Workers, NEW l \in Leads, PassRow(w, l)
  PROVE  TypeInv'
<1> USE DEF TypeInv
<1>1. WorkerTypes'
  BY TakeOffTypes DEF PassRow, GoTo, WorkerTypes, Inside
<1>2. WorkerSound'
  <2>1. \A v \in Workers \ {w} : /\ pc'[v] = pc[v] /\ job'[v] = job[v] /\ at'[v] = at[v] /\ tries'[v] = tries[v]
                                 /\ cells'[v] = cells[v] /\ todo'[v] = todo[v]
    BY TakeOffTypes DEF PassRow, GoTo, Inside, WorkerTypes
  <2>2. SoundAt(w)'
    BY TakeOffTypes DEF PassRow, GoTo, Inside, WorkerTypes, WorkerSound, SoundAt
  <2> QED BY <2>1, <2>2 DEF WorkerSound, SoundAt
<1>3. QueueTypes' /\ LeadTypes' /\ SheetTypes' /\ RowTypes' /\ RestTypes'
  BY DEF PassRow, GoTo, QueueTypes, LeadTypes, SheetTypes, RowTypes, RestTypes, data, queue
<1> QED BY <1>1, <1>2, <1>3

LEMMA ApplyRowTypes ==
  ASSUME TypeInv, NEW w \in Workers, NEW l \in Leads, ApplyRow(w, l)
  PROVE  TypeInv'
<1> USE DEF TypeInv
<1>1. WorkerTypes'
  BY DEF ApplyRow, GoTo, WorkerTypes, Inside
<1>2. WorkerSound'
  BY DEF ApplyRow, GoTo, WorkerTypes, WorkerSound, SoundAt
<1>3. PICK t \in Stamps(l) :
        /\ lead' = [lead EXCEPT ![l] = Pulled(w, l, t)]
        /\ spent' = [spent EXCEPT !.late = @ + Late(l, t)]
  BY DEF ApplyRow
<1>4. Merged[lead[l].value, cells[w][l], row[l].pushed] \in Values
  <2>1. /\ cells[w][l] \in Cells \cup {NoRow} /\ cells[w][l] # NoRow
        /\ row[l].pushed \in Cells \cup {NoRow} /\ row[l].pushed # NoRow
    BY DEF ApplyRow, SheetChanged, WorkerTypes, WorkerSound, SoundAt, RowTypes
  <2>2. lead[l].value \in Values
    BY DEF LeadTypes, LeadRow
  <2> QED BY <2>1, <2>2, MergedAssumption DEF Cells
<1>5. Pulled(w, l, t) \in LeadRow /\ Late(l, t) \in {0, 1} /\ (Late(l, t) = 1 => MayFail)
  BY <1>4, StampedTypes DEF Pulled
<1>6. LeadTypes'
  BY <1>3, <1>5 DEF LeadTypes
<1>7. spent' \in Spent
  BY <1>3, <1>5, SpentTypes
<1>8. QueueTypes' /\ SheetTypes' /\ RowTypes' /\ RestTypes'
  BY <1>7 DEF ApplyRow, QueueTypes, SheetTypes, RowTypes, RestTypes, queue
<1> QED BY <1>1, <1>2, <1>6, <1>8

LEMMA RecordRowTypes ==
  ASSUME TypeInv, NEW w \in Workers, RecordRow(w)
  PROVE  TypeInv'
<1> USE DEF TypeInv
<1>0. at[w] \in Leads
  BY DEF RecordRow, WorkerSound, SoundAt
<1>1. WorkerTypes'
  BY <1>0, TakeOffTypes DEF RecordRow, GoTo, WorkerTypes, WorkerSound, SoundAt, Inside
<1>2. WorkerSound'
  <2>1. \A v \in Workers \ {w} : /\ pc'[v] = pc[v] /\ job'[v] = job[v] /\ at'[v] = at[v] /\ tries'[v] = tries[v]
                                 /\ cells'[v] = cells[v] /\ todo'[v] = todo[v]
    BY <1>0, TakeOffTypes DEF RecordRow, GoTo, Inside, WorkerTypes
  <2>2. SoundAt(w)'
    <3>1. job[w] = "pull" /\ tries[w] = 0 /\ \A l \in todo[w] : cells[w][l] # NoRow
      BY DEF RecordRow, WorkerSound, SoundAt
    <3>2. job' = job /\ tries' = tries
      BY DEF RecordRow
    <3>3. \/ pc'[w] = "leave"
          \/ pc'[w] = "rows" /\ todo'[w] \subseteq todo[w] /\ cells'[w] = cells[w]
      BY <1>0, TakeOffTypes DEF RecordRow, Inside
    <3> QED BY <3>1, <3>2, <3>3 DEF SoundAt
  <2> QED BY <2>1, <2>2 DEF WorkerSound, SoundAt
<1>3. QueueTypes' /\ LeadTypes' /\ SheetTypes' /\ RowTypes' /\ RestTypes'
  BY <1>0 DEF RecordRow, GoTo, QueueTypes, LeadTypes, SheetTypes, RowTypes, RestTypes, data, queue, WorkerTypes, WorkerSound
<1> QED BY <1>1, <1>2, <1>3

LEMMA RecordFailsTypes ==
  ASSUME TypeInv, NEW w \in Workers, RecordFails(w)
  PROVE  TypeInv'
<1> USE DEF TypeInv
<1>0. at[w] \in Leads
  BY DEF RecordFails, WorkerSound, SoundAt
<1>1. WorkerTypes'
  BY <1>0, TakeOffTypes DEF RecordFails, GoTo, WorkerTypes, WorkerSound, SoundAt, Inside
<1>2. WorkerSound'
  <2>1. \A v \in Workers \ {w} : /\ pc'[v] = pc[v] /\ job'[v] = job[v] /\ at'[v] = at[v] /\ tries'[v] = tries[v]
                                 /\ cells'[v] = cells[v] /\ todo'[v] = todo[v]
    BY <1>0, TakeOffTypes DEF RecordFails, GoTo, Inside, WorkerTypes
  <2>2. SoundAt(w)'
    <3>1. job[w] = "pull" /\ tries[w] = 0 /\ \A l \in todo[w] : cells[w][l] # NoRow
      BY DEF RecordFails, WorkerSound, SoundAt
    <3>2. job' = job /\ tries' = tries
      BY DEF RecordFails
    <3>3. \/ pc'[w] = "leave"
          \/ pc'[w] = "rows" /\ todo'[w] \subseteq todo[w] /\ cells'[w] = cells[w]
      BY <1>0, TakeOffTypes DEF RecordFails, Inside
    <3> QED BY <3>1, <3>2, <3>3 DEF SoundAt
  <2> QED BY <2>1, <2>2 DEF WorkerSound, SoundAt
<1>3. QueueTypes' /\ LeadTypes' /\ SheetTypes' /\ RowTypes' /\ RestTypes'
  <2>1. RestTypes'
    BY SpentTypes DEF RecordFails, RestTypes
  <2> QED BY <2>1 DEF RecordFails, QueueTypes, LeadTypes, SheetTypes, RowTypes, queue, data
<1> QED BY <1>1, <1>2, <1>3

LEMMA FinishKeeps ==
  ASSUME TypeInv, NEW w \in Workers, Finish(w), QueueTypes', LeadTypes', SheetTypes', RowTypes', RestTypes'
  PROVE  TypeInv'
BY FinishTypes DEF TypeInv

LEMMA EventFailsTypes ==
  ASSUME TypeInv, NEW w \in Workers, EventFails(w)
  PROVE  TypeInv'
<1>1. at[w] \in Leads /\ tries[w] \in 1..MaxTries
  BY DEF TypeInv, EventFails, WorkerSound, SoundAt, WorkerTypes
<1>2. QueueTypes'
  BY <1>1 DEF TypeInv, EventFails, Requeue, GiveUp, QueueTypes, queue
<1> QED
  BY <1>2, FinishKeeps DEF TypeInv, EventFails, LeadTypes, SheetTypes, RowTypes, RestTypes, data

LEMMA CompleteTypes ==
  ASSUME TypeInv, NEW w \in Workers, Complete(w)
  PROVE  TypeInv'
<1>1. QueueTypes'
  BY DEF TypeInv, Complete, GiveUp, QueueTypes
<1> QED
  BY <1>1, FinishKeeps DEF TypeInv, Complete, LeadTypes, SheetTypes, RowTypes, RestTypes, data

LEMMA EndSyncKeeps ==
  ASSUME TypeInv, NEW w \in Workers, EndSync(w), QueueTypes', LeadTypes', SheetTypes', RowTypes', RestTypes'
  PROVE  TypeInv'
BY EndSyncTypes DEF TypeInv

LEMMA LockTypes ==
  ASSUME TypeInv, NEW w \in Workers, Ask(w) \/ Refuse(w) \/ Leave(w)
  PROVE  TypeInv'
<1>1. QueueTypes' /\ LeadTypes' /\ SheetTypes' /\ RowTypes' /\ RestTypes'
  <2>1. QueueTypes' /\ LeadTypes' /\ SheetTypes' /\ RowTypes'
    BY DEF TypeInv, Ask, Refuse, Leave, QueueTypes, LeadTypes, SheetTypes, RowTypes, data, queue
  <2>2. RestTypes'
    BY SpentTypes DEF TypeInv, Ask, Refuse, Leave, RestTypes
  <2> QED BY <2>1, <2>2
<1>2. CASE EndSync(w)
  BY <1>1, <1>2, EndSyncKeeps
<1>3. CASE ~ EndSync(w) /\ Ask(w)
  BY <1>1, <1>3 DEF TypeInv, Ask, GoTo, WorkerTypes, WorkerSound, SoundAt
<1>4. CASE ~ EndSync(w) /\ Leave(w)
  <2>1. WorkerTypes'
    BY <1>4 DEF TypeInv, Leave, GoTo, WorkerTypes, Jobs
  <2>2. \A v \in Workers \ {w} : /\ pc'[v] = pc[v] /\ job'[v] = job[v] /\ at'[v] = at[v] /\ tries'[v] = tries[v]
                                 /\ cells'[v] = cells[v] /\ todo'[v] = todo[v]
    BY <1>4 DEF TypeInv, Leave, GoTo, WorkerTypes
  <2>3. SoundAt(w)'
    BY <1>4 DEF TypeInv, Leave, GoTo, WorkerTypes, WorkerSound, SoundAt
  <2>4. WorkerSound'
    BY <2>2, <2>3 DEF TypeInv, WorkerSound, SoundAt
  <2> QED BY <1>1, <2>1, <2>4 DEF TypeInv
<1> QED BY <1>2, <1>3, <1>4 DEF Refuse

LEMMA CrashTypes ==
  ASSUME TypeInv, Crash
  PROVE  TypeInv'
<1> USE DEF TypeInv
<1>1. WorkerTypes'
  BY ResetTypes DEF Crash, WorkerTypes, Jobs
<1>2. WorkerSound'
  BY DEF Crash, WorkerSound, SoundAt
<1>3. QueueTypes'
  BY DEF Crash, GiveUp, QueueTypes
<1>4. RestTypes'
  BY SpentTypes DEF Crash, RestTypes
<1> QED BY <1>1, <1>2, <1>3, <1>4 DEF Crash, LeadTypes, SheetTypes, RowTypes, data

LEMMA WorldTypes ==
  ASSUME TypeInv,
         \/ \E l \in Leads, v \in Edited, enqueued \in BOOLEAN :
              \E t \in Stamps(l) : EditLead(l, v, t, enqueued)
         \/ \E l \in Leads, c \in Typed : TypeCell(l, c)
         \/ Age
  PROVE  TypeInv'
<1> USE DEF TypeInv
<1>1. ASSUME NEW l \in Leads, NEW v \in Edited, NEW enqueued \in BOOLEAN, NEW t \in Stamps(l),
             EditLead(l, v, t, enqueued)
      PROVE  TypeInv'
  <2>0. /\ Stamped(l, v, t, "crm") \in LeadRow
        /\ Late(l, t) \in {0, 1} /\ (Late(l, t) = 1 => MayFail)
    BY ValuesAssumption, StampedTypes
  <2>1. QueueTypes'
    <3>1. CASE enqueued
      <4>1. pending' = [pending EXCEPT ![l] = IF @ = NoEvent THEN 0 ELSE @] /\ owed' = owed \cup {l}
        BY <1>1, <3>1 DEF EditLead, Enqueue
      <4> QED BY <4>1 DEF QueueTypes, MaxTries
    <3>2. CASE ~ enqueued
      BY <1>1, <3>2 DEF EditLead, QueueTypes, queue
    <3> QED BY <3>1, <3>2
  <2>2. LeadTypes'
    BY <1>1, <2>0 DEF EditLead, LeadTypes
  <2>3. RestTypes'
    BY <1>1, <2>0, SpentTypes DEF EditLead, RestTypes
  <2>4. WorkerTypes' /\ WorkerSound' /\ SheetTypes' /\ RowTypes'
    BY <1>1 DEF EditLead, WorkerTypes, WorkerSound, SoundAt, SheetTypes, RowTypes, worker
  <2> QED BY <2>1, <2>2, <2>3, <2>4
<1>2. ASSUME NEW l \in Leads, NEW c \in Typed, TypeCell(l, c)
      PROVE  TypeInv'
  <2>1. SheetTypes'
    BY <1>2, ValuesAssumption DEF TypeCell, SheetTypes, Cells
  <2>2. RestTypes'
    BY <1>2, SpentTypes DEF TypeCell, RestTypes
  <2> QED BY <1>2, <2>1, <2>2 DEF TypeCell, WorkerTypes, WorkerSound, SoundAt, QueueTypes, LeadTypes, RowTypes, worker, queue
<1>3. CASE Age
  BY <1>3 DEF Age, WorkerTypes, WorkerSound, SoundAt, QueueTypes, LeadTypes, SheetTypes, RowTypes, RestTypes, worker, queue, data
<1> QED BY <1>1, <1>2, <1>3

LEMMA TypeInit == Init => TypeInv
<1> SUFFICES ASSUME Init PROVE TypeInv
  OBVIOUS
<1>1. WorkerTypes /\ WorkerSound
  BY ResetTypes DEF Init, WorkerTypes, WorkerSound, SoundAt, Jobs
<1>2. QueueTypes
  BY DEF Init, QueueTypes, MaxTries
<1>a. RestTypes
  BY BoundsAssumption DEF Init, RestTypes, Spent
<1>b. LeadTypes
  <2>1. [value : Stored, stamp : {0}, newest : {0}, late : {FALSE}, by : {"sheet"}] \subseteq LeadRow
    <3>1. Stored \subseteq Values /\ {0} \subseteq Nat /\ {FALSE} \subseteq BOOLEAN
      BY ValuesAssumption
    <3> QED BY <3>1 DEF LeadRow
  <2> QED BY <2>1 DEF Init, LeadTypes
<1>3. SheetTypes /\ RowTypes
  BY ValuesAssumption DEF Init, SheetTypes, RowTypes, Cells
<1> QED BY <1>1, <1>2, <1>3, <1>a, <1>b DEF TypeInv

LEMMA TypeStep ==
  ASSUME TypeInv, [Next]_vars
  PROVE  TypeInv'
<1>1. ASSUME NEW w \in Workers, Step(w)
      PROVE  TypeInv'
  BY <1>1, ReadLeadTypes, EventFailsTypes, CompleteTypes, LockTypes, TakeLockTypes, FailTypes, LoseAnswerTypes, ReadLeadsTypes,
     WriteTypes, SaveRowTypes, ReadSheetTypes, ReadForPullTypes, PassRowTypes, ApplyRowTypes, RecordRowTypes,
     RecordFailsTypes
  DEF Step, Acquire
<1>2. CASE UNCHANGED vars
  BY <1>2 DEF vars, TypeInv, WorkerTypes, WorkerSound, SoundAt, QueueTypes, LeadTypes, SheetTypes, RowTypes, RestTypes,
     worker, queue, data
<1> QED BY <1>1, <1>2, RequestTypes, PushAssignedTypes, ClaimTypes, WorldTypes, CrashTypes DEF Next

\* Every reachable state is of its type.
THEOREM TypeCorrect == Spec => []TypeOK
<1>1. TypeInv /\ [Next]_vars => TypeInv'
  BY TypeStep
<1>2. Spec => []TypeInv
  BY <1>1, TypeInit, PTL DEF Spec
<1> QED BY <1>2, TypeInvIsTyped, PTL

-----------------------------------------------------------------------------
\* Only w moves, and every step of w is one of three kinds: outside the lock,
\* taking it, or inside.
LEMMA Moves ==
  ASSUME TypeInv, NEW w \in Workers, Step(w)
  PROVE  /\ \A v \in Workers \ {w} :
              pc'[v] = pc[v] /\ at'[v] = at[v] /\ job'[v] = job[v] /\ snap'[v] = snap[v]
         /\ \A v \in Workers \ {w} : cells'[v] = cells[v] /\ todo'[v] = todo[v]
         /\ \/ pc[w] \notin Inside /\ pc'[w] \notin Inside /\ lock' = lock
            \/ lock # "held" /\ lock' = "held"
            \/ pc[w] \in Inside /\ (lock' = lock \/ pc'[w] \notin Inside)
<1> USE DEF TypeInv, WorkerTypes, GoTo
<1>1. CASE ReadLead(w) \/ EventFails(w) \/ Complete(w) \/ Ask(w) \/ Refuse(w)
  BY <1>1 DEF ReadLead, EventFails, Complete, Ask, Refuse, EndSync, Finish, Forget, Inside
<1>2. CASE Acquire(w)
  BY <1>2 DEF Acquire, Lockable, TakeLock
<1>3. CASE Leave(w)
  BY <1>3 DEF Leave, EndSync, Finish, Forget, Inside
<1>4. CASE Fail(w) \/ LoseAnswer(w) \/ ReadLeads(w) \/ Write(w) \/ ReadSheet(w)
  BY <1>4 DEF Fail, LoseAnswer, ReadLeads, Write, ReadSheet, Return, Forget, Inside
<1>5. CASE ReadForPull(w)
  BY <1>5 DEF ReadForPull, Return, Forget, Inside
<1>6. ASSUME NEW l \in Leads, SaveRow(w, l)
      PROVE  /\ pc[w] \in Inside /\ lock' = lock
             /\ \A v \in Workers \ {w} :
                  /\ pc'[v] = pc[v] /\ at'[v] = at[v] /\ job'[v] = job[v] /\ snap'[v] = snap[v]
                  /\ cells'[v] = cells[v] /\ todo'[v] = todo[v]
  BY <1>6, TakeOffTypes DEF SaveRow, Inside
<1>7. ASSUME NEW l \in Leads, PassRow(w, l)
      PROVE  /\ pc[w] \in Inside /\ lock' = lock
             /\ \A v \in Workers \ {w} :
                  /\ pc'[v] = pc[v] /\ at'[v] = at[v] /\ job'[v] = job[v] /\ snap'[v] = snap[v]
                  /\ cells'[v] = cells[v] /\ todo'[v] = todo[v]
  BY <1>7, TakeOffTypes DEF PassRow, Inside
<1>8. ASSUME NEW l \in Leads, ApplyRow(w, l)
      PROVE  /\ pc[w] \in Inside /\ lock' = lock
             /\ \A v \in Workers \ {w} :
                  /\ pc'[v] = pc[v] /\ at'[v] = at[v] /\ job'[v] = job[v] /\ snap'[v] = snap[v]
                  /\ cells'[v] = cells[v] /\ todo'[v] = todo[v]
  BY <1>8 DEF ApplyRow, Inside
<1>9. CASE RecordRow(w) \/ RecordFails(w)
  <2>1. at[w] \in Leads
    BY <1>9 DEF RecordRow, RecordFails, WorkerSound, SoundAt
  <2> QED BY <1>9, <2>1, TakeOffTypes DEF RecordRow, RecordFails, Inside
<1> QED BY <1>1, <1>2, <1>3, <1>4, <1>5, <1>6, <1>7, <1>8, <1>9 DEF Step

\* The lock is the database's while somebody is inside.
LockInv == OneSync /\ \A w \in Workers : pc[w] \in Inside => lock = "held"

LEMMA LockInit == Init => LockInv
BY DEF Init, LockInv, OneSync, Inside

LEMMA LockStep ==
  ASSUME TypeInv, LockInv, [Next]_vars
  PROVE  LockInv'
<1> USE DEF LockInv, OneSync
<1>1. ASSUME NEW w \in Workers, Step(w)
      PROVE  LockInv'
  BY <1>1, Moves
<1>2. CASE \E w \in Workers, kind \in {"push", "pull"} : Request(w, kind)
  BY <1>2 DEF Request, GoTo, TypeInv, WorkerTypes, Inside
<1>3. CASE \E w \in Workers, l \in Leads : PushAssigned(w, l) \/ Claim(w, l)
  BY <1>3 DEF PushAssigned, Claim, GoTo, TypeInv, WorkerTypes, Inside
<1>4. CASE Crash
  BY <1>4 DEF Crash, Inside
<1>5. CASE Age
  BY <1>5 DEF Age, Running, worker
<1>6. CASE \/ \E l \in Leads, v \in Edited, enqueued \in BOOLEAN :
                \E t \in Stamps(l) : EditLead(l, v, t, enqueued)
           \/ \E l \in Leads, c \in Typed : TypeCell(l, c)
  BY <1>6 DEF EditLead, TypeCell, worker
<1>7. CASE UNCHANGED vars
  BY <1>7 DEF vars, worker
<1> QED BY <1>1, <1>2, <1>3, <1>4, <1>5, <1>6, <1>7 DEF Next

\* Synchronisations of the sheet exclude each other, over crashes and locks
\* that are taken over, for any number of workers.
THEOREM OneSyncHolds == Spec => []OneSync
<1>1. (TypeInv /\ LockInv) /\ [Next]_vars => (TypeInv /\ LockInv)'
  BY TypeStep, LockStep
<1>2. Spec => [](TypeInv /\ LockInv)
  BY <1>1, TypeInit, LockInit, PTL DEF Spec
<1>3. LockInv => OneSync
  BY DEF LockInv
<1> QED BY <1>2, <1>3, PTL

-----------------------------------------------------------------------------
LEMMA QueueStep ==
  ASSUME TypeInv, NoEditForgotten, [Next]_vars
  PROVE  NoEditForgotten'
<1> USE DEF NoEditForgotten
<1>1. ASSUME NEW w \in Workers, Step(w)
      PROVE  NoEditForgotten'
  <2>1. CASE ReadLead(w)
    BY <2>1 DEF ReadLead, GoTo, TypeInv, WorkerTypes
  <2>2. CASE EventFails(w) \/ Complete(w)
    <3>1. at[w] \in Leads /\ owed \subseteq Leads
      BY <2>2 DEF EventFails, Complete, TypeInv, QueueTypes, WorkerTypes, WorkerSound, SoundAt
    <3>2. /\ owed' \subseteq owed
          /\ \A l \in Leads : pending[l] # NoEvent => pending'[l] # NoEvent
          /\ pc[w] = "claimed" /\ at[w] \in owed' => pending'[at[w]] # NoEvent
      <4>1. CASE Complete(w)
        BY <3>1, <4>1 DEF Complete, GiveUp
      <4>2. CASE EventFails(w)
        <5>1. tries[w] \in Nat /\ NoEvent \notin Nat
          BY LeadsAssumption DEF TypeInv, WorkerTypes
        <5>2. CASE Requeue(at[w], tries[w])
          BY <3>1, <5>1, <5>2 DEF Requeue, GiveUp, queue, TypeInv, QueueTypes
        <5>3. CASE GiveUp({at[w]}) /\ UNCHANGED pending
          BY <3>1, <5>3 DEF GiveUp
        <5> QED BY <4>2, <5>2, <5>3 DEF EventFails
      <4> QED BY <2>2, <4>1, <4>2
    <3>3. \A v \in Workers : pc[v] = "claimed" /\ v # w => pc'[v] = "claimed" /\ at'[v] = at[v]
      BY <2>2 DEF EventFails, Complete, Finish, GoTo, TypeInv, WorkerTypes
    <3> QED BY <3>1, <3>2, <3>3
  <2>3. CASE ~ ReadLead(w) /\ ~ EventFails(w) /\ ~ Complete(w)
    <3>1. pc[w] # "claimed" /\ UNCHANGED queue
      BY <1>1, <2>3 DEF Step, Ask, Acquire, TakeLock, Refuse, Leave, Fail, LoseAnswer, ReadLeads, Write, SaveRow,
         ReadSheet, ReadForPull, PassRow, ApplyRow, RecordRow, RecordFails
    <3>2. \A v \in Workers : pc[v] = "claimed" => pc'[v] = "claimed" /\ at'[v] = at[v]
      BY <1>1, <3>1, Moves
    <3> QED BY <3>1, <3>2 DEF queue
  <2> QED BY <2>1, <2>2, <2>3
<1>2. CASE \E w \in Workers, kind \in {"push", "pull"} : Request(w, kind)
  BY <1>2 DEF Request, GoTo, TypeInv, WorkerTypes, queue
<1>3. ASSUME NEW w \in Workers, NEW l \in Leads, PushAssigned(w, l)
      PROVE  NoEditForgotten'
  BY <1>3 DEF PushAssigned, GoTo, TypeInv, WorkerTypes, queue
<1>4. ASSUME NEW w \in Workers, NEW l \in Leads, Claim(w, l)
      PROVE  NoEditForgotten'
  <2>1. pc'[w] = "claimed" /\ at'[w] = l
    BY <1>4 DEF Claim, GoTo, TypeInv, WorkerTypes
  <2>2. \A v \in Workers : pc[v] = "claimed" => pc'[v] = "claimed" /\ at'[v] = at[v]
    BY <1>4 DEF Claim, GoTo, TypeInv, WorkerTypes
  <2>3. /\ owed' = owed /\ owed \subseteq Leads
        /\ \A k \in Leads \ {l} : pending'[k] = pending[k]
    BY <1>4 DEF Claim, TypeInv, QueueTypes
  <2> QED BY <2>1, <2>2, <2>3
<1>5. CASE Crash
  <2>1. \A w \in Workers : pc[w] = "claimed" => tries[w] > 0
    BY DEF TypeInv, WorkerSound, SoundAt
  <2>2. pending' = pending /\ owed \subseteq Leads
    BY <1>5 DEF Crash, TypeInv, QueueTypes
  <2>3. \A l \in owed' : /\ l \in owed
                         /\ pending[l] # NoEvent \/ ~ \E w \in Workers : tries[w] > 0 /\ at[w] = l
    BY <1>5, <2>2 DEF Crash, GiveUp
  <2> QED BY <2>1, <2>2, <2>3
<1>6. ASSUME NEW l \in Leads, NEW v \in Edited, NEW enqueued \in BOOLEAN, NEW t \in Stamps(l),
             EditLead(l, v, t, enqueued)
      PROVE  NoEditForgotten'
  <2>1. CASE ~ enqueued
    BY <1>6, <2>1 DEF EditLead, queue, worker
  <2>2. CASE enqueued
    <3>1. /\ pending'[l] # NoEvent /\ \A k \in Leads \ {l} : pending'[k] = pending[k]
          /\ owed' = owed \cup {l} /\ owed \subseteq Leads
      BY <1>6, <2>2, LeadsAssumption DEF EditLead, Enqueue, TypeInv, QueueTypes
    <3>2. pc' = pc /\ at' = at
      BY <1>6 DEF EditLead, worker
    <3> QED BY <3>1, <3>2
  <2> QED BY <2>1, <2>2
<1>7. CASE Age \/ (\E l \in Leads, c \in Typed : TypeCell(l, c)) \/ UNCHANGED vars
  BY <1>7 DEF Age, TypeCell, vars, queue, worker
<1> QED BY <1>1, <1>2, <1>3, <1>4, <1>5, <1>6, <1>7 DEF Next

\* A queued change waits for an attempt to read it or for the end of its event,
\* for any number of leads, events and workers.
THEOREM NoEditForgottenHolds == Spec => []NoEditForgotten
<1>1. Init => NoEditForgotten
  BY LeadsAssumption DEF Init, NoEditForgotten
<1>2. (TypeInv /\ NoEditForgotten) /\ [Next]_vars => (TypeInv /\ NoEditForgotten)'
  BY TypeStep, QueueStep
<1>3. Spec => [](TypeInv /\ NoEditForgotten)
  BY <1>1, <1>2, TypeInit, PTL DEF Spec
<1> QED BY <1>3, PTL

-----------------------------------------------------------------------------
\* What a worker has read of the leads, and is still going to use.
HasRead(w) ==
  pc[w] \in {"write", "save", "rows", "record"} \/ (pc[w] \in {"ready", "asking"} /\ job[w] = "one")

\* A write that is on time carries the newest updated_at of its lead.
StampSound ==
  \A l \in Leads :
    /\ lead[l].stamp <= lead[l].newest
    /\ ~ lead[l].late => lead[l].stamp = lead[l].newest

\* What was read has an updated_at the lead has had; if it is that of a lead
\* whose last write was on time, it is that write.
SnapSound ==
  \A w \in Workers, l \in Leads : HasRead(w) =>
    /\ snap[w][l].stamp <= lead[l].newest
    /\ ~ lead[l].late /\ snap[w][l].stamp = lead[l].stamp => snap[w][l].value = lead[l].value

\* A change that was on time and has not been pushed is later than what the
\* push has seen.
SeenSound ==
  \A l \in Leads :
    /\ row[l].seen <= lead[l].newest
    /\ ~ lead[l].late /\ lead[l].by = "crm" /\ lead[l].value # row[l].pushed =>
         row[l].seen < lead[l].stamp

\* Between a pull's two updates.
RecordSound ==
  \A w \in Workers : pc[w] = "record" /\ ~ lead[at[w]].late => row[at[w]].seen < lead[at[w]].stamp

Untouched == spent.typed = 0 /\ spent.faults = 0

\* Nobody has typed, and no write was cut off: the sheet is what was pushed
\* last, and that is stored, or is about to be by whoever holds the lock.
SheetSound ==
  Untouched =>
    /\ \A w \in Workers : pc[w] \in {"leads", "rows", "record"} => cells[w] = sheet
    /\ \A w \in Workers : pc[w] = "save" => \A l \in todo[w] : sheet[l] = snap[w][l].value
    /\ \A l \in Leads : row[l].pushed = sheet[l] \/ \E w \in Workers : pc[w] = "save" /\ l \in todo[w]

SyncInv == TypeInv /\ LockInv /\ StampSound /\ SnapSound /\ SeenSound /\ RecordSound /\ SheetSound

Rewritten(l) ==
  /\ lead[l].newest <= lead'[l].newest /\ lead'[l].stamp <= lead'[l].newest
  /\ ~ lead'[l].late => lead'[l].stamp = lead'[l].newest /\ lead'[l].stamp > lead[l].newest

\* A step changes a lead only with its stamp, which is newer than all before
\* or marks the lead as late.
LEMMA LeadMoves ==
  ASSUME TypeInv, [Next]_vars
  PROVE  \A l \in Leads : lead'[l] = lead[l] \/ Rewritten(l)
<1>0. ASSUME NEW k \in Leads, NEW v, NEW who, NEW t \in Stamps(k),
             lead' = [lead EXCEPT ![k] = Stamped(k, v, t, who)]
      PROVE  \A l \in Leads : lead'[l] = lead[l] \/ Rewritten(l)
  <2>1. lead[k].newest \in Nat /\ DOMAIN lead = Leads
    BY DEF TypeInv, LeadTypes, LeadRow
  <2>2. t \in Nat
    BY <2>1 DEF Stamps
  <2>3. /\ lead'[k].stamp = t /\ lead'[k].late = (t <= lead[k].newest)
        /\ lead'[k].newest = IF t > lead[k].newest THEN t ELSE lead[k].newest
    BY <1>0, <2>1 DEF Stamped
  <2>4. Rewritten(k)
    <3>1. CASE t > lead[k].newest
      BY <2>1, <2>2, <2>3, <3>1 DEF Rewritten
    <3>2. CASE t <= lead[k].newest
      <4>1. lead'[k].late
        BY <2>3, <3>2, Zenon
      <4>2. lead'[k].stamp = t /\ lead'[k].newest = lead[k].newest
        BY <2>1, <2>2, <2>3, <3>2
      <4> QED BY <2>1, <2>2, <3>2, <4>1, <4>2 DEF Rewritten
    <3> QED BY <2>1, <2>2, <3>1, <3>2
  <2>5. \A l \in Leads \ {k} : lead'[l] = lead[l]
    BY <1>0, <2>1
  <2> QED BY <2>4, <2>5
<1>1. ASSUME NEW k \in Leads, NEW v \in Edited, NEW enqueued \in BOOLEAN, NEW t \in Stamps(k),
             EditLead(k, v, t, enqueued)
      PROVE  \A l \in Leads : lead'[l] = lead[l] \/ Rewritten(l)
  BY <1>0, <1>1 DEF EditLead
<1>2. ASSUME NEW w \in Workers, NEW k \in Leads, ApplyRow(w, k)
      PROVE  \A l \in Leads : lead'[l] = lead[l] \/ Rewritten(l)
  <2>1. PICK t \in Stamps(k) : lead' = [lead EXCEPT ![k] = Pulled(w, k, t)]
    BY <1>2 DEF ApplyRow
  <2> QED BY <1>0, <2>1 DEF Pulled
<1>3. \/ lead' = lead
      \/ \E w \in Workers, k \in Leads : ApplyRow(w, k)
      \/ \E l \in Leads, v \in Edited, enqueued \in BOOLEAN :
           \E t \in Stamps(l) : EditLead(l, v, t, enqueued)
  BY DEF Next, Step, Request, PushAssigned, Claim, TypeCell, Age, Crash, ReadLead, EventFails, Complete, Ask, Acquire,
     TakeLock, Refuse, Leave, Fail, LoseAnswer, ReadLeads, Write, SaveRow, ReadSheet, ReadForPull, PassRow, RecordRow,
     RecordFails, data, vars
<1> QED BY <1>1, <1>2, <1>3

LEMMA StampStep ==
  ASSUME TypeInv, StampSound, [Next]_vars
  PROVE  StampSound'
<1> SUFFICES ASSUME NEW l \in Leads
             PROVE  /\ lead'[l].stamp <= lead'[l].newest
                    /\ ~ lead'[l].late => lead'[l].stamp = lead'[l].newest
  BY DEF StampSound
<1>1. CASE lead'[l] = lead[l]
  BY <1>1 DEF StampSound
<1>2. CASE Rewritten(l)
  BY <1>2 DEF Rewritten
<1> QED BY <1>1, <1>2, LeadMoves

\* A worker that is going to use what it has read had read it before, or reads it now.
LEMMA SnapMoves ==
  ASSUME TypeInv, NEW w \in Workers, Step(w), HasRead(w)'
  PROVE  (HasRead(w) /\ snap'[w] = snap[w]) \/ (snap'[w] = Read /\ lead' = lead)
<1> USE DEF TypeInv, WorkerTypes, GoTo, HasRead
<1>1. CASE ReadLead(w) \/ ReadLeads(w)
  BY <1>1 DEF ReadLead, ReadLeads, data
<1>2. CASE EventFails(w) \/ Complete(w) \/ Ask(w) \/ Refuse(w)
  BY <1>2 DEF EventFails, Complete, Ask, Refuse, EndSync, Finish, Forget
<1>3. CASE Acquire(w)
  BY <1>3 DEF Acquire, TakeLock, Jobs
<1>4. CASE Leave(w)
  BY <1>4 DEF Leave, EndSync, Finish, Forget
<1>5. CASE Fail(w) \/ LoseAnswer(w) \/ Write(w) \/ ReadSheet(w)
  BY <1>5 DEF Fail, LoseAnswer, Write, ReadSheet, Return, Forget
<1>6. CASE ReadForPull(w)
  BY <1>6 DEF ReadForPull, Return, Forget, data
<1>7. ASSUME NEW l \in Leads, SaveRow(w, l) \/ PassRow(w, l)
      PROVE  HasRead(w) /\ snap'[w] = snap[w]
  BY <1>7, TakeOffTypes DEF SaveRow, PassRow, Inside
<1>8. ASSUME NEW l \in Leads, ApplyRow(w, l)
      PROVE  HasRead(w) /\ snap'[w] = snap[w]
  BY <1>8 DEF ApplyRow
<1>9. CASE RecordRow(w) \/ RecordFails(w)
  <2>1. at[w] \in Leads
    BY <1>9 DEF RecordRow, RecordFails, WorkerSound, SoundAt
  <2> QED BY <1>9, <2>1, TakeOffTypes DEF RecordRow, RecordFails, Inside
<1> QED BY <1>1, <1>2, <1>3, <1>4, <1>5, <1>6, <1>7, <1>8, <1>9 DEF Step

LEMMA SnapStep ==
  ASSUME TypeInv, StampSound, SnapSound, [Next]_vars
  PROVE  SnapSound'
<1> SUFFICES ASSUME NEW v \in Workers, HasRead(v)', NEW l \in Leads
             PROVE  /\ snap'[v][l].stamp <= lead'[l].newest
                    /\ ~ lead'[l].late /\ snap'[v][l].stamp = lead'[l].stamp =>
                         snap'[v][l].value = lead'[l].value
  BY DEF SnapSound
<1>1. \/ HasRead(v) /\ snap'[v] = snap[v]
      \/ snap'[v] = Read /\ lead' = lead
  <2>1. ASSUME NEW w \in Workers, Step(w)
        PROVE  \/ HasRead(v) /\ snap'[v] = snap[v]
               \/ snap'[v] = Read /\ lead' = lead
    BY <2>1, Moves, SnapMoves DEF HasRead
  <2>2. CASE \E w \in Workers, kind \in {"push", "pull"} : Request(w, kind)
    BY <2>2 DEF Request, GoTo, HasRead, TypeInv, WorkerTypes
  <2>3. CASE \E w \in Workers, k \in Leads : PushAssigned(w, k) \/ Claim(w, k)
    BY <2>3 DEF PushAssigned, Claim, GoTo, HasRead, TypeInv, WorkerTypes, data
  <2>4. CASE Crash
    BY <2>4 DEF Crash, HasRead
  <2>5. CASE worker' = worker
    BY <2>5 DEF worker, HasRead
  <2> QED BY <2>1, <2>2, <2>3, <2>4, <2>5 DEF Next, EditLead, TypeCell, Age, vars
<1>2. CASE HasRead(v) /\ snap'[v] = snap[v]
  <2>1. /\ snap[v][l].stamp <= lead[l].newest
        /\ ~ lead[l].late /\ snap[v][l].stamp = lead[l].stamp => snap[v][l].value = lead[l].value
    BY <1>2 DEF SnapSound
  <2>2. snap[v][l].stamp \in Nat /\ lead[l].newest \in Nat /\ lead'[l].newest \in Nat /\ lead'[l].stamp \in Nat
    BY TypeStep DEF TypeInv, WorkerTypes, LeadTypes, LeadRow
  <2>3. CASE lead'[l] = lead[l]
    BY <1>2, <2>1, <2>3
  <2>4. CASE Rewritten(l)
    BY <1>2, <2>1, <2>2, <2>4 DEF Rewritten
  <2> QED BY <2>3, <2>4, LeadMoves
<1>3. CASE snap'[v] = Read /\ lead' = lead
  <2>1. snap'[v][l].stamp = lead'[l].stamp /\ snap'[v][l].value = lead'[l].value
    BY <1>3 DEF Read
  <2>2. lead'[l].stamp <= lead'[l].newest
    BY <1>3 DEF StampSound
  <2> QED BY <2>1, <2>2
<1> QED BY <1>1, <1>2, <1>3

\* The row states change only inside the lock.
LEMMA RowMoves ==
  ASSUME TypeInv, [Next]_vars
  PROVE  \/ row' = row
         \/ \E w \in Workers, l \in Leads : SaveRow(w, l)
         \/ \E w \in Workers : RecordRow(w)
BY DEF Next, Step, EditLead, Request, PushAssigned, Claim, TypeCell, Age, Crash, ReadLead, EventFails, Complete, Ask,
   Acquire, TakeLock, Refuse, Leave, Fail, LoseAnswer, ReadLeads, Write, ReadSheet, ReadForPull, PassRow, ApplyRow,
   RecordFails, data, vars

LEMMA SeenStep ==
  ASSUME TypeInv, StampSound, SnapSound, SeenSound, RecordSound, [Next]_vars
  PROVE  SeenSound'
<1> DEFINE Goal(l) ==
      /\ row'[l].seen <= lead'[l].newest
      /\ ~ lead'[l].late /\ lead'[l].by = "crm" /\ lead'[l].value # row'[l].pushed =>
           row'[l].seen < lead'[l].stamp
<1> SUFFICES ASSUME NEW l \in Leads
             PROVE  Goal(l)
  BY DEF SeenSound
<1>1. /\ row[l].seen <= lead[l].newest
      /\ ~ lead[l].late /\ lead[l].by = "crm" /\ lead[l].value # row[l].pushed => row[l].seen < lead[l].stamp
  BY DEF SeenSound
<1>0. /\ row[l].seen \in Nat /\ lead[l].newest \in Nat /\ lead[l].stamp \in Nat
      /\ lead'[l].newest \in Nat /\ lead'[l].stamp \in Nat
  BY TypeStep DEF TypeInv, RowTypes, LeadTypes, LeadRow
<1>2. CASE row' = row
  <2>1. CASE lead'[l] = lead[l]
    BY <1>1, <1>2, <2>1
  <2>2. CASE Rewritten(l)
    BY <1>0, <1>1, <1>2, <2>2 DEF Rewritten
  <2> QED BY <2>1, <2>2, LeadMoves
<1>3. ASSUME NEW w \in Workers, NEW k \in Leads, SaveRow(w, k)
      PROVE  Goal(l)
  <2>1. /\ snap[w][k].stamp <= lead[k].newest
        /\ ~ lead[k].late /\ snap[w][k].stamp = lead[k].stamp => snap[w][k].value = lead[k].value
        /\ snap[w][k].stamp \in Nat
    BY <1>3 DEF SaveRow, SnapSound, HasRead, TypeInv, WorkerTypes
  <2>2. /\ row'[k] = [pushed |-> snap[w][k].value, seen |-> snap[w][k].stamp] /\ lead' = lead
        /\ k # l => row'[l] = row[l]
    BY <1>3 DEF SaveRow, RowState, TypeInv, RowTypes
  <2>3. CASE k = l
    <3>1. ~ lead[l].late => lead[l].stamp = lead[l].newest
      BY DEF StampSound
    <3>2. row'[l].seen <= lead'[l].newest
      BY <2>1, <2>2, <2>3
    <3>3. ASSUME ~ lead'[l].late, lead'[l].by = "crm", lead'[l].value # row'[l].pushed
          PROVE  row'[l].seen < lead'[l].stamp
      <4>1. row'[l].seen = snap[w][l].stamp /\ row'[l].pushed = snap[w][l].value /\ lead' = lead
        BY <2>2, <2>3
      <4>2. snap[w][l].stamp # lead[l].stamp
        BY <2>1, <2>3, <3>3, <4>1
      <4>3. lead[l].stamp = lead[l].newest
        BY <3>1, <3>3, <4>1
      <4> QED BY <1>0, <2>1, <2>3, <4>1, <4>2, <4>3
    <3> QED BY <3>2, <3>3
  <2>4. CASE k # l
    BY <1>1, <2>2, <2>4
  <2> QED BY <2>3, <2>4
<1>4. ASSUME NEW w \in Workers, RecordRow(w)
      PROVE  Goal(l)
  <2>1. at[w] \in Leads /\ (~ lead[at[w]].late => row[at[w]].seen < lead[at[w]].stamp)
    BY <1>4 DEF RecordRow, RecordSound, TypeInv, WorkerSound, SoundAt
  <2>2. /\ row'[at[w]].seen = row[at[w]].seen /\ lead' = lead
        /\ at[w] # l => row'[l] = row[l]
    BY <1>4, <2>1 DEF RecordRow, TypeInv, RowTypes
  <2> QED BY <1>1, <2>1, <2>2
<1> QED BY <1>2, <1>3, <1>4, RowMoves

LEMMA RecordStep ==
  ASSUME TypeInv, LockInv, SeenSound, RecordSound, [Next]_vars
  PROVE  RecordSound'
<1> SUFFICES ASSUME NEW v \in Workers, pc'[v] = "record", ~ lead'[at'[v]].late
             PROVE  row'[at'[v]].seen < lead'[at'[v]].stamp
  BY DEF RecordSound
<1>0. ~ RecordRow(v) /\ ~ RecordFails(v) /\ \A l \in Leads : ~ SaveRow(v, l) /\ ~ PassRow(v, l)
  BY TakeOffTypes DEF RecordRow, RecordFails, SaveRow, PassRow, TypeInv, WorkerSound, SoundAt, Inside
<1>1. \/ pc[v] = "record" /\ at'[v] = at[v]
      \/ \E l \in Leads : ApplyRow(v, l)
  <2>1. ASSUME NEW w \in Workers, Step(w), v # w
        PROVE  pc[v] = "record" /\ at'[v] = at[v]
    BY <2>1, Moves
  <2>2. ASSUME Step(v)
        PROVE  \E l \in Leads : ApplyRow(v, l)
    BY <2>2, <1>0 DEF Step, ReadLead, EventFails, Complete, Ask, Acquire, TakeLock, Refuse, Leave, Fail, LoseAnswer,
       ReadLeads, Write, ReadSheet, ReadForPull, EndSync, Finish, Return, GoTo, TypeInv, WorkerTypes, Jobs
  <2>3. CASE \E w \in Workers, kind \in {"push", "pull"} : Request(w, kind)
    BY <2>3 DEF Request, GoTo, TypeInv, WorkerTypes
  <2>4. CASE \E w \in Workers, k \in Leads : PushAssigned(w, k) \/ Claim(w, k)
    BY <2>4 DEF PushAssigned, Claim, GoTo, TypeInv, WorkerTypes
  <2>5. CASE Crash
    BY <2>5 DEF Crash
  <2>6. CASE worker' = worker
    BY <2>6 DEF worker
  <2> QED BY <2>1, <2>2, <2>3, <2>4, <2>5, <2>6 DEF Next, EditLead, TypeCell, Age, vars
<1>2. CASE pc[v] = "record" /\ at'[v] = at[v]
  <2>1. at[v] \in Leads /\ (~ lead[at[v]].late => row[at[v]].seen < lead[at[v]].stamp)
    BY <1>2 DEF RecordSound, TypeInv, WorkerSound, SoundAt
  <2>2. row' = row
    <3>1. \A w \in Workers, l \in Leads : ~ SaveRow(w, l)
      BY <1>2 DEF SaveRow, LockInv, OneSync, Inside
    <3>2. \A w \in Workers : ~ RecordRow(w)
      BY <1>0, <1>2 DEF RecordRow, LockInv, OneSync, Inside
    <3> QED BY <3>1, <3>2, RowMoves
  <2>3. CASE lead'[at[v]] = lead[at[v]]
    BY <1>2, <2>1, <2>2, <2>3
  <2>4. CASE Rewritten(at[v])
    <3>1. /\ row[at[v]].seen \in Nat /\ lead[at[v]].newest \in Nat /\ lead'[at[v]].stamp \in Nat
          /\ row[at[v]].seen <= lead[at[v]].newest
      BY <2>1, TypeStep DEF TypeInv, RowTypes, LeadTypes, LeadRow, SeenSound
    <3>2. ~ lead'[at[v]].late
      BY <1>2
    <3> QED BY <1>2, <2>2, <2>4, <3>1, <3>2 DEF Rewritten
  <2> QED BY <2>1, <2>3, <2>4, LeadMoves
<1>3. ASSUME NEW l \in Leads, ApplyRow(v, l)
      PROVE  row'[at'[v]].seen < lead'[at'[v]].stamp
  <2>1. at'[v] = l /\ row' = row
    BY <1>3 DEF ApplyRow, TypeInv, WorkerTypes
  <2>2. PICK t \in Stamps(l) : lead' = [lead EXCEPT ![l] = Pulled(v, l, t)]
    BY <1>3 DEF ApplyRow
  <2>3. lead'[l].stamp = t /\ lead'[l].late = (t <= lead[l].newest)
    BY <2>2 DEF Pulled, Stamped, TypeInv, LeadTypes
  <2>4. row[l].seen \in Nat /\ lead[l].newest \in Nat /\ row[l].seen <= lead[l].newest
    BY DEF SeenSound, TypeInv, RowTypes, LeadTypes, LeadRow
  <2>5. t \in Nat
    BY <2>4 DEF Stamps
  <2>6. ~ (t <= lead[l].newest)
    BY <2>1, <2>3
  <2> QED BY <2>1, <2>3, <2>4, <2>5, <2>6
<1> QED BY <1>1, <1>2, <1>3

LEMMA SheetStep ==
  ASSUME TypeInv, LockInv, SheetSound, [Next]_vars
  PROVE  SheetSound'
<1> SUFFICES ASSUME Untouched'
             PROVE  /\ \A w \in Workers : pc'[w] \in {"leads", "rows", "record"} => cells'[w] = sheet'
                    /\ \A w \in Workers : pc'[w] = "save" => \A l \in todo'[w] : sheet'[l] = snap'[w][l].value
                    /\ \A l \in Leads : \/ row'[l].pushed = sheet'[l]
                                        \/ \E w \in Workers : pc'[w] = "save" /\ l \in todo'[w]
  BY DEF SheetSound
<1>1. Untouched /\ ~ Crash /\ (\A w \in Workers : ~ LoseAnswer(w) /\ ~ RecordFails(w)) /\ (\A l \in Leads, c \in Typed : ~ TypeCell(l, c))
  <2>0. spent'.typed = 0 /\ spent'.faults = 0 /\ spent \in Spent
    BY DEF Untouched, TypeInv, RestTypes
  <2>1. spent.typed \in Nat /\ spent.faults \in Nat
    BY <2>0, BoundsAssumption DEF Spent
  <2>2. ~ Crash /\ (\A w \in Workers : ~ LoseAnswer(w) /\ ~ RecordFails(w)) /\ (\A l \in Leads, c \in Typed : ~ TypeCell(l, c))
    BY <2>0, <2>1 DEF Crash, LoseAnswer, RecordFails, TypeCell, Spent
  <2>3. \A w \in Workers : Leave(w) => spent' = spent
    BY <2>0, <2>1 DEF Leave, Spent
  <2>4. ASSUME NEW w \in Workers, NEW l \in Leads, ApplyRow(w, l)
        PROVE  spent'.typed = spent.typed /\ spent'.faults = spent.faults
    BY <2>0, <2>4 DEF ApplyRow, Spent
  <2>5. ASSUME NEW l \in Leads, NEW v \in Edited, NEW enqueued \in BOOLEAN, NEW t \in Stamps(l),
               EditLead(l, v, t, enqueued)
        PROVE  spent'.typed = spent.typed /\ spent'.faults = spent.faults
    BY <2>0, <2>5 DEF EditLead, Spent
  <2>6. \/ spent' = spent
        \/ \E w \in Workers, l \in Leads : ApplyRow(w, l)
        \/ \E l \in Leads, v \in Edited, enqueued \in BOOLEAN :
             \E t \in Stamps(l) : EditLead(l, v, t, enqueued)
    BY <2>2, <2>3 DEF Next, Step, Request, PushAssigned, Claim, Age, ReadLead, EventFails, Complete, Ask, Acquire,
       TakeLock, Refuse, Fail, ReadLeads, Write, SaveRow, ReadSheet, ReadForPull, PassRow, RecordRow, vars
  <2>7. spent'.typed = spent.typed /\ spent'.faults = spent.faults
    BY <2>4, <2>5, <2>6
  <2> QED BY <2>0, <2>2, <2>7 DEF Untouched
<1>2. /\ \A w \in Workers : pc[w] \in {"leads", "rows", "record"} => cells[w] = sheet
      /\ \A w \in Workers : pc[w] = "save" => \A l \in todo[w] : sheet[l] = snap[w][l].value
      /\ \A l \in Leads : row[l].pushed = sheet[l] \/ \E w \in Workers : pc[w] = "save" /\ l \in todo[w]
  BY <1>1 DEF SheetSound
<1> DEFINE Goal ==
      /\ \A w \in Workers : pc'[w] \in {"leads", "rows", "record"} => cells'[w] = sheet'
      /\ \A w \in Workers : pc'[w] = "save" => \A l \in todo'[w] : sheet'[l] = snap'[w][l].value
      /\ \A l \in Leads : \/ row'[l].pushed = sheet'[l]
                          \/ \E w \in Workers : pc'[w] = "save" /\ l \in todo'[w]
<1>3. ASSUME NEW w \in Workers, sheet' = sheet, row' = row,
             \A v \in Workers \ {w} : pc'[v] = pc[v] /\ cells'[v] = cells[v] /\ todo'[v] = todo[v] /\ snap'[v] = snap[v],
             pc[w] # "save", pc'[w] # "save",
             pc'[w] \in {"leads", "rows", "record"} => cells'[w] = sheet
      PROVE  Goal
  BY <1>2, <1>3
<1>4. ASSUME NEW w \in Workers, Step(w)
      PROVE  Goal
  <2>1. \A v \in Workers \ {w} : pc'[v] = pc[v] /\ cells'[v] = cells[v] /\ todo'[v] = todo[v] /\ snap'[v] = snap[v]
    BY <1>4, Moves
  <2>0. \A l \in Leads, p \in {"rows", "save"} : TakeOff(w, l, p) =>
          pc'[w] = "leave" \/ (pc'[w] = p /\ cells'[w] = cells[w])
    <3> SUFFICES ASSUME NEW l \in Leads, NEW p \in {"rows", "save"}, TakeOff(w, l, p)
                 PROVE  pc'[w] = "leave" \/ (pc'[w] = p /\ cells'[w] = cells[w])
      OBVIOUS
    <3>1. pc \in [Workers -> {"idle", "claimed", "ready", "asking", "done"} \cup Inside] /\ p \in Inside
      BY DEF TypeInv, WorkerTypes, Inside
    <3> QED BY <3>1 DEF TakeOff, Return, GoTo
  <2> USE DEF TypeInv, WorkerTypes, GoTo
  <2>2. CASE ReadLead(w) \/ EventFails(w) \/ Complete(w) \/ Ask(w) \/ Refuse(w)
    BY <1>3, <2>1, <2>2 DEF ReadLead, EventFails, Complete, Ask, Refuse, EndSync, Finish, data
  <2>3. CASE Acquire(w)
    BY <1>3, <2>1, <2>3 DEF Acquire, TakeLock, Jobs, data
  <2>4. CASE Leave(w)
    BY <1>3, <2>1, <2>4 DEF Leave, EndSync, Finish, data
  <2>5. CASE Fail(w) \/ ReadLeads(w)
    BY <1>3, <2>1, <2>5 DEF Fail, ReadLeads, Return, data
  <2>6. CASE ReadSheet(w)
    BY <1>3, <2>1, <2>6 DEF ReadSheet, data
  <2>7. CASE ReadForPull(w)
    <3>1. pc[w] = "leads" /\ cells[w] = sheet /\ sheet' = sheet /\ row' = row
      BY <1>2, <2>7 DEF ReadForPull, data
    <3>2. pc'[w] = "leave" \/ (pc'[w] = "rows" /\ cells' = cells)
      <4>1. CASE cells[w] = Empty
        BY <2>7, <4>1 DEF ReadForPull, Return
      <4>2. CASE cells[w] # Empty
        BY <2>7, <4>2 DEF ReadForPull
      <4> QED BY <4>1, <4>2
    <3> QED BY <1>3, <2>1, <3>1, <3>2
  <2>8. ASSUME NEW l \in Leads, PassRow(w, l)
        PROVE  Goal
    <3>1. pc[w] = "rows" /\ sheet' = sheet /\ row' = row
      BY <2>8 DEF PassRow, data
    <3>2. pc'[w] = "leave" \/ (pc'[w] = "rows" /\ cells'[w] = cells[w])
      BY <2>0, <2>8 DEF PassRow
    <3> QED BY <1>2, <1>3, <2>1, <3>1, <3>2
  <2>9. ASSUME NEW l \in Leads, ApplyRow(w, l)
        PROVE  Goal
    BY <1>2, <1>3, <2>1, <2>9 DEF ApplyRow
  <2>10. CASE RecordRow(w)
    <3>1. pc[w] = "record" /\ sheet' = sheet /\ cells[w] = sheet /\ at[w] \in Leads
      BY <1>2, <2>10 DEF RecordRow, WorkerSound, SoundAt
    <3>2. pc'[w] = "leave" \/ (pc'[w] = "rows" /\ cells'[w] = cells[w])
      BY <2>0, <2>10, <3>1 DEF RecordRow
    <3>3. row'[at[w]].pushed = sheet[at[w]] /\ \A l \in Leads \ {at[w]} : row'[l] = row[l]
      BY <2>10, <3>1 DEF RecordRow, RowTypes
    <3>4. \A v \in Workers : pc[v] # "save" /\ pc'[v] # "save"
      BY <2>1, <3>1, <3>2 DEF LockInv, OneSync, Inside
    <3>5. \A l \in Leads : row'[l].pushed = sheet[l]
      BY <1>2, <3>3, <3>4
    <3>6. \A v \in Workers : pc'[v] \in {"leads", "rows", "record"} => cells'[v] = sheet
      BY <1>2, <2>1, <3>1, <3>2
    <3> QED BY <3>1, <3>4, <3>5, <3>6
  <2>11. CASE Write(w)
    <3>1. /\ pc[w] = "write" /\ pc'[w] = "save" /\ row' = row /\ snap' = snap /\ todo' = todo /\ todo[w] \subseteq Leads
          /\ \A l \in Leads : sheet'[l] = IF l \in todo[w] THEN snap[w][l].value ELSE sheet[l]
      BY <2>11 DEF Write, Written
    <3>2. \A v \in Workers : pc[v] \in Inside => v = w
      BY <3>1 DEF LockInv, OneSync, Inside
    <3>3. \A v \in Workers \ {w} : pc'[v] \notin Inside
      BY <2>1, <3>2
    <3>4. \A v \in Workers : pc[v] # "save"
      BY <3>1, <3>2 DEF Inside
    <3>5. \A l \in Leads : row[l].pushed = sheet[l]
      BY <1>2, <3>4
    <3> QED BY <3>1, <3>3, <3>5 DEF Inside
  <2>12. ASSUME NEW k \in Leads, SaveRow(w, k)
         PROVE  Goal
    <3>1. /\ pc[w] = "save" /\ k \in todo[w] /\ sheet' = sheet
          /\ row'[k].pushed = snap[w][k].value /\ \A l \in Leads \ {k} : row'[l] = row[l]
      BY <2>12 DEF SaveRow, RowState, RowTypes
    <3>2. \/ pc'[w] = "leave" /\ todo[w] = {k}
          \/ pc'[w] = "save" /\ todo'[w] = todo[w] \ {k} /\ snap'[w] = snap[w]
      BY <2>12, <3>1 DEF SaveRow, TakeOff, Return
    <3>3. \A v \in Workers : pc[v] \in Inside => v = w
      BY <3>1 DEF LockInv, OneSync, Inside
    <3>4. \A v \in Workers \ {w} : pc'[v] \notin Inside
      BY <2>1, <3>3
    <3>5. \A l \in Leads : row[l].pushed = sheet[l] \/ l \in todo[w]
      BY <1>2, <3>3 DEF Inside
    <3>6. \A v \in Workers : pc'[v] \notin {"leads", "rows", "record"}
      BY <3>2, <3>4 DEF Inside
    <3>7. \A l \in todo[w] : sheet[l] = snap[w][l].value
      BY <1>2, <3>1
    <3>8. \A v \in Workers : pc'[v] = "save" => v = w /\ todo'[w] = todo[w] \ {k} /\ snap'[w] = snap[w]
      BY <3>2, <3>4 DEF Inside
    <3>9. \A l \in Leads : row'[l].pushed = sheet[l] \/ (pc'[w] = "save" /\ l \in todo'[w])
      BY <3>1, <3>2, <3>5, <3>7
    <3> QED BY <3>1, <3>6, <3>7, <3>8, <3>9
  <2> QED BY <1>1, <1>4, <2>2, <2>3, <2>4, <2>5, <2>6, <2>7, <2>8, <2>9, <2>10, <2>11, <2>12 DEF Step
<1>5. CASE \E w \in Workers, kind \in {"push", "pull"} : Request(w, kind)
  BY <1>3, <1>5 DEF Request, GoTo, TypeInv, WorkerTypes, data
<1>6. CASE \E w \in Workers, k \in Leads : PushAssigned(w, k) \/ Claim(w, k)
  BY <1>3, <1>6 DEF PushAssigned, Claim, GoTo, TypeInv, WorkerTypes, data
<1>7. CASE worker' = worker /\ sheet' = sheet /\ row' = row
  BY <1>2, <1>7 DEF worker
<1> QED BY <1>1, <1>4, <1>5, <1>6, <1>7 DEF Next, EditLead, Age, vars, data

LEMMA SyncStep == SyncInv /\ [Next]_vars => SyncInv'
BY TypeStep, LockStep, StampStep, SnapStep, SeenStep, RecordStep, SheetStep DEF SyncInv

LEMMA SyncInit == Init => SyncInv
<1> SUFFICES ASSUME Init PROVE SyncInv
  OBVIOUS
<1>1. TypeInv /\ LockInv
  BY TypeInit, LockInit
<1>a. ASSUME NEW l \in Leads
      PROVE  lead[l].stamp = 0 /\ lead[l].newest = 0
  BY DEF Init
<1>2. StampSound
  BY <1>a DEF StampSound
<1>5. SnapSound /\ RecordSound
  BY DEF Init, SnapSound, RecordSound, HasRead
<1>3. SeenSound
  <2>1. ASSUME NEW l \in Leads
        PROVE  row[l].seen = 0 /\ lead[l].newest = 0 /\ lead[l].by = "sheet"
    BY DEF Init
  <2> QED BY <2>1 DEF SeenSound
<1>4. SheetSound
  <2>1. \A l \in Leads : row[l].pushed = sheet[l]
    BY DEF Init
  <2>2. \A w \in Workers : pc[w] = "idle"
    BY DEF Init
  <2> QED BY <2>1, <2>2 DEF SheetSound
<1> QED BY <1>1, <1>2, <1>3, <1>4, <1>5 DEF SyncInv

\* A pull replaces no unpushed change of the CRM that it could have seen and that
\* was on time, and changes nothing at all before somebody has typed or a write was cut off.
THEOREM CrmPrevailsHolds == Spec => CrmPrevails
<1> DEFINE Prevails ==
      \A w \in Workers, l \in Leads :
        ApplyRow(w, l) /\ lead'[l].value # lead[l].value =>
          /\ spent.typed > 0 \/ spent.faults > 0
          /\ \/ lead[l].by = "sheet"
             \/ lead[l].value = row[l].pushed
             \/ snap[w][l].stamp # lead[l].stamp
             \/ lead[l].late
<1>1. SyncInv => Prevails
  <2> SUFFICES ASSUME SyncInv, NEW w \in Workers, NEW l \in Leads, ApplyRow(w, l)
               PROVE  /\ spent.typed > 0 \/ spent.faults > 0
                      /\ \/ lead[l].by = "sheet"
                         \/ lead[l].value = row[l].pushed
                         \/ snap[w][l].stamp # lead[l].stamp
                         \/ lead[l].late
    OBVIOUS
  <2> USE DEF SyncInv
  <2>1. pc[w] = "rows" /\ SheetChanged(w, l) /\ ~ CrmChanged(w, l)
    BY DEF ApplyRow
  <2>2. spent.typed > 0 \/ spent.faults > 0
    <3> SUFFICES ASSUME Untouched PROVE FALSE
      BY SpentTypes DEF Untouched, TypeInv
    <3>1. cells[w] = sheet
      BY <2>1 DEF SheetSound
    <3>2. row[l].pushed = sheet[l]
      BY <2>1 DEF SheetSound, LockInv, OneSync, Inside
    <3> QED BY <2>1, <3>1, <3>2 DEF SheetChanged
  <2>3. ASSUME lead[l].by # "sheet", lead[l].value # row[l].pushed, snap[w][l].stamp = lead[l].stamp,
               ~ lead[l].late
        PROVE  FALSE
    <3>1. row[l].seen < lead[l].stamp
      BY <2>3 DEF SeenSound, TypeInv, LeadTypes, LeadRow
    <3>2. snap[w][l].value = lead[l].value
      BY <2>1, <2>3 DEF SnapSound, HasRead
    <3> QED BY <2>1, <2>3, <3>1, <3>2 DEF CrmChanged, TypeInv, LeadTypes, LeadRow, RowTypes
  <2> QED BY <2>2, <2>3
<1>2. SyncInv /\ [Next]_vars => [Prevails]_vars
  BY <1>1
<1>3. Spec => [][Prevails]_vars
  BY <1>2, SyncInit, SyncStep, PTL DEF Spec
<1> QED BY <1>3 DEF CrmPrevails

=============================================================================
