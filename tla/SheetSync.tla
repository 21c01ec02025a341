------------------------------ MODULE SheetSync ------------------------------
(***************************************************************************)
(* The personal Google Sheet of one user (userGoogleSheetsService.js):     *)
(* pushes of all leads, pushes of one lead, pulls of what the user has     *)
(* typed into the sheet, the queue of edited leads, and the lock that      *)
(* keeps synchronisations of the sheet apart.                              *)
(*                                                                         *)
(* A worker is a request or a tick of googleSheetSyncJob.js between its    *)
(* awaits; all workers run in one Node process, and a crash ends them all. *)
(* The editable columns of a lead are one value, and so is their hash.     *)
(* They do not come back from the sheet as they went there: dates are      *)
(* written for the reader and parsed by Date, empty cells change nothing,  *)
(* a note becomes a remark.  Merged is whatever the columns are then.      *)
(***************************************************************************)
EXTENDS Naturals, FiniteSets

CONSTANTS
  Leads,         \* leads that belong into this sheet
  Values,        \* contents of the editable columns of a lead
  Stored,        \* values leads have at first
  Edited,        \* values they are given inside the CRM
  Typed,         \* what the user types into the sheet
  Blank,         \* cells left empty
  Merged,        \* columns of a lead after a pull, by columns, cells and last push
  NoRow,
  NoEvent,       \* no pending row in the queue
  NoLead,
  Workers,
  MaxEdits,      \* bound: changes of leads inside the CRM
  MaxTyped,      \* bound: changes in the sheet by its user
  MaxFaults      \* bound: ends of the process, lost answers and row states,
                 \* failed releases, late writes of leads

ASSUME LeadsAssumption == NoLead \notin Leads /\ NoEvent \notin Nat
ASSUME CellsAssumption == Blank # NoRow /\ Values \cap {Blank, NoRow} = {}
ASSUME ValuesAssumption == Stored \cup Edited \subseteq Values /\ Typed \subseteq Values \cup {Blank}
ASSUME MergedAssumption == Merged \in [Values \X (Values \cup {Blank}) \X (Values \cup {Blank}) -> Values]
ASSUME BoundsAssumption == MaxEdits \in Nat /\ MaxTyped \in Nat /\ MaxFaults \in Nat

VARIABLES
  lead,     \* leads: the value and updated_at; history: its newest updated_at,
            \* whether the last write was no newer, who changed the value last
  sheet,    \* the sheet
  row,      \* user_google_sheet_row_sync_state: last_pushed_hash, last_crm_updated_at
  pending,  \* attempts of the pending event of a lead
  owed,     \* history: queued changes that no attempt has read, until their
            \* event is given up
  lock,     \* sync_started_at: NULL, of the last 15 minutes, or older
  pc, job,  \* of a worker: what is next, and in what
  at,       \* of a worker: the lead of its event or of the row it is in
  tries,    \* of a worker: attempts of its event, which is in processing
  snap,     \* of a worker: the leads it has read
  cells,    \* of a worker: the sheet it has read
  todo,     \* of a worker: leads or rows ahead
  touched,  \* of a worker: the pull has changed leads
  spent     \* history: edits, typed cells, late writes and faults

worker == <<pc, job, at, tries, snap, cells, todo, touched>>
queue == <<pending, owed>>
data == <<lead, sheet, row>>
vars == <<data, queue, lock, worker, spent>>

Cells == Values \cup {Blank}
MaxTries == 3
Jobs == {"push", "pull", "one"}
\* The awaits of an operation without the lock and with it.
Outside == {"idle", "claimed", "ready", "asking", "done"}
Inside == {"pull", "leads", "rows", "record", "read", "write", "save", "leave"}
Empty == [l \in Leads |-> NoRow]
NotRead == [l \in Leads |-> [value |-> Blank, stamp |-> 0]]
Read == [l \in Leads |-> [value |-> lead[l].value, stamp |-> lead[l].stamp]]

\* A lead is in the sheet as it is in the CRM, or is new and waits for its push.
Init ==
  /\ lead \in [Leads -> [value : Stored, stamp : {0}, newest : {0}, late : {FALSE}, by : {"sheet"}]]
  /\ sheet \in [Leads -> Values \cup {NoRow}]
  /\ \A l \in Leads : sheet[l] \in {lead[l].value, NoRow}
  /\ row = [l \in Leads |-> [pushed |-> sheet[l], seen |-> 0]]
  /\ pending = [l \in Leads |-> IF sheet[l] = NoRow THEN 0 ELSE NoEvent]
  /\ owed = {l \in Leads : sheet[l] = NoRow}
  /\ lock = "free"
  /\ pc = [w \in Workers |-> "idle"] /\ job = [w \in Workers |-> "push"]
  /\ at = [w \in Workers |-> NoLead] /\ tries = [w \in Workers |-> 0]
  /\ snap = [w \in Workers |-> NotRead] /\ cells = [w \in Workers |-> Empty]
  /\ todo = [w \in Workers |-> {}] /\ touched = [w \in Workers |-> FALSE]
  /\ spent = [edits |-> 0, typed |-> 0, late |-> 0, faults |-> 0]

-----------------------------------------------------------------------------
(* Operators.                                                              *)

\* runningSyncs has the connection.
Running == \E w \in Workers : pc[w] \in Inside

\* Mutant: enqueueLeadSync finds the event that is in processing, too.
EnqueueUnlessQueued(l) ==
  /\ pending' = IF \E w \in Workers : tries[w] > 0 /\ at[w] = l THEN pending
                ELSE [pending EXCEPT ![l] = IF @ = NoEvent THEN 0 ELSE @]
  /\ owed' = owed \cup {l}

\* enqueueLeadSync: one pending event per lead, which keeps its attempts.
Enqueue(l) ==
  /\ pending' = [pending EXCEPT ![l] = IF @ = NoEvent THEN 0 ELSE @]
  /\ owed' = owed \cup {l}

\* An event that is failed, left in processing for good, or completed by the
\* master sheet's half alone.  A newer one of the lead still brings its changes.
GiveUp(S) == owed' = owed \ {l \in S : pending[l] = NoEvent}

\* Mutant: attempts > 3 for attempts >= 3.
RequeueOnceMore(l, n) ==
  IF pending[l] # NoEvent THEN UNCHANGED queue
  ELSE IF n > MaxTries THEN GiveUp({l}) /\ UNCHANGED pending
  ELSE pending' = [pending EXCEPT ![l] = n] /\ UNCHANGED owed

\* The status an event gets when it has failed.  While a newer event of the
\* lead is pending, the index of migration 051 refuses a second pending one
\* and the event is left in processing.
Requeue(l, n) ==
  IF pending[l] # NoEvent THEN UNCHANGED queue
  ELSE IF n >= MaxTries THEN GiveUp({l}) /\ UNCHANGED pending
  ELSE pending' = [pending EXCEPT ![l] = n] /\ UNCHANGED owed

\* A write of a lead.  NOW() is the time its transaction began, and JavaScript
\* compares milliseconds: stamp t may be no newer than those before, and stays
\* as it is when only a remark, from which columns are derived, is inserted.
Stamped(l, v, t, who) ==
  [value |-> v, stamp |-> t, newest |-> IF t > lead[l].newest THEN t ELSE lead[l].newest,
   late |-> t <= lead[l].newest, by |-> IF v = lead[l].value THEN lead[l].by ELSE who]
MayFail == spent.faults + spent.late < MaxFaults
Stamps(l) == IF MayFail THEN 0..(lead[l].newest + 1) ELSE {lead[l].newest + 1}
Late(l, t) == IF t > lead[l].newest THEN 0 ELSE 1

\* pullConnection: what it finds in a row whose state it knows.
SheetChanged(w, l) == row[l].pushed \notin {NoRow, cells[w][l]}
CrmChanged(w, l) == snap[w][l].stamp > row[l].seen /\ snap[w][l].value # row[l].pushed

Pulled(w, l, t) == Stamped(l, Merged[lead[l].value, cells[w][l], row[l].pushed], t, "sheet")

\* batchUpsertTarget: the sheet with the rows of the leads that are pushed.
Written(w) == [l \in Leads |-> IF l \in todo[w] THEN snap[w][l].value ELSE sheet[l]]
\* Mutant: last_crm_updated_at is the lead's updated_at when the row is saved.
RowStateNow(w, l) == [pushed |-> snap[w][l].value, seen |-> lead[l].stamp]

\* saveRowState: what is stored about such a row.
RowState(w, l) == [pushed |-> snap[w][l].value, seen |-> snap[w][l].stamp]

\* A worker goes on; forgets what it has read and is about to release the
\* lock; has dealt with a lead; is done.
GoTo(w, p) == pc' = [pc EXCEPT ![w] = p]
Forget(w) ==
  /\ snap' = [snap EXCEPT ![w] = NotRead] /\ cells' = [cells EXCEPT ![w] = Empty]
  /\ todo' = [todo EXCEPT ![w] = {}]
Return(w) == GoTo(w, "leave") /\ Forget(w)
TakeOff(w, l, p) ==
  IF todo[w] = {l} THEN Return(w)
  ELSE /\ todo' = [todo EXCEPT ![w] = @ \ {l}]
       /\ GoTo(w, p) /\ UNCHANGED <<snap, cells>>
Finish(w) ==
  /\ GoTo(w, "idle") /\ Forget(w)
  /\ job' = [job EXCEPT ![w] = "push"] /\ touched' = [touched EXCEPT ![w] = FALSE]
  /\ at' = [at EXCEPT ![w] = NoLead] /\ tries' = [tries EXCEPT ![w] = 0]
\* The personal sheets are dealt with; an event is still to be completed.
EndSync(w) ==
  IF tries[w] = 0 THEN Finish(w)
  ELSE GoTo(w, "done") /\ Forget(w) /\ UNCHANGED <<job, at, tries, touched>>

-----------------------------------------------------------------------------
(* What everybody else does: the CRM's users, the sheet's user, time.      *)

\* A lead is changed by one of the handlers of the CRM, or only touched
\* (set_updated_at).  Most handlers enqueue it afterwards; a failing
\* enqueueLeadSync is logged.
EditLead(l, v, t, enqueued) ==
  /\ spent.edits < MaxEdits
  /\ spent' = [spent EXCEPT !.edits = @ + 1, !.late = @ + Late(l, t)]
  /\ lead' = [lead EXCEPT ![l] = Stamped(l, v, t, "crm")]
  /\ IF enqueued THEN Enqueue(l) ELSE UNCHANGED queue
  /\ UNCHANGED <<sheet, row, lock, worker>>

TypeCell(l, c) ==
  /\ spent.typed < MaxTyped
  /\ sheet[l] # NoRow
  /\ spent' = [spent EXCEPT !.typed = @ + 1]
  /\ sheet' = [sheet EXCEPT ![l] = c]
  /\ UNCHANGED <<lead, row, queue, lock, worker>>

\* The lock is older than 15 minutes.  No operation runs for that long:
\* only a lock that a crash or a failed release has left grows old.
Age ==
  /\ lock = "held" /\ ~ Running
  /\ lock' = "old"
  /\ UNCHANGED <<data, queue, worker, spent>>

\* The process ends.  An event in processing stays there, and so does the lock.
Crash ==
  /\ MayFail
  /\ spent' = [spent EXCEPT !.faults = @ + 1]
  /\ GiveUp({at[w] : w \in {x \in Workers : tries[x] > 0}})
  /\ pc' = [w \in Workers |-> "idle"] /\ job' = [w \in Workers |-> "push"]
  /\ at' = [w \in Workers |-> NoLead] /\ tries' = [w \in Workers |-> 0]
  /\ snap' = [w \in Workers |-> NotRead] /\ cells' = [w \in Workers |-> Empty]
  /\ todo' = [w \in Workers |-> {}] /\ touched' = [w \in Workers |-> FALSE]
  /\ UNCHANGED <<data, pending, lock>>

-----------------------------------------------------------------------------
(* The beginnings: requests, the two parts of a tick, the queue.           *)

\* syncNow, pullSync, twoWaySync and their administrators' forms; the pull of
\* runAutoPullCycle.
Request(w, kind) ==
  /\ pc[w] = "idle" /\ kind \in {"push", "pull"}
  /\ GoTo(w, "ready") /\ job' = [job EXCEPT ![w] = kind]
  /\ UNCHANGED <<data, queue, lock, at, tries, snap, cells, todo, touched, spent>>

\* syncAssignedLeadsToSheets: pushLeadToPersonalSheets reads the lead first.
PushAssigned(w, l) ==
  /\ pc[w] = "idle"
  /\ GoTo(w, "ready") /\ job' = [job EXCEPT ![w] = "one"]
  /\ at' = [at EXCEPT ![w] = l]
  /\ snap' = [snap EXCEPT ![w] = Read]
  /\ UNCHANGED <<data, queue, lock, tries, cells, todo, touched, spent>>

\* claimPendingSyncEvent, of whichever event is oldest.
Claim(w, l) ==
  /\ pc[w] = "idle" /\ pending[l] # NoEvent
  /\ pending' = [pending EXCEPT ![l] = NoEvent]
  /\ tries' = [tries EXCEPT ![w] = pending[l] + 1]
  /\ at' = [at EXCEPT ![w] = l]
  /\ GoTo(w, "claimed") /\ job' = [job EXCEPT ![w] = "one"]
  /\ UNCHANGED <<data, owed, lock, snap, cells, todo, touched, spent>>

ReadLead(w) ==
  /\ pc[w] = "claimed"
  /\ snap' = [snap EXCEPT ![w] = Read]
  /\ owed' = owed \ {at[w]}
  /\ GoTo(w, "ready")
  /\ UNCHANGED <<data, pending, lock, job, at, tries, cells, todo, touched, spent>>

\* Both halves reject, before the lead is read or after, or the event cannot be
\* completed.  The UPDATE that puts it back can fail as well.
EventFails(w) ==
  /\ tries[w] > 0 /\ pc[w] \in {"claimed", "ready", "done"}
  /\ \/ Requeue(at[w], tries[w])
     \/ GiveUp({at[w]}) /\ UNCHANGED pending
  /\ Finish(w)
  /\ UNCHANGED <<data, lock, spent>>

\* One half is enough.  updateMasterLeadRow fulfils without a look at the lead
\* when no master sheet is set up: an event whose lead nobody could read for
\* the personal sheets is completed then.
Complete(w) ==
  /\ tries[w] > 0 /\ pc[w] \in {"claimed", "ready", "done"}
  /\ IF pc[w] = "claimed" THEN GiveUp({at[w]}) ELSE UNCHANGED owed
  /\ Finish(w)
  /\ UNCHANGED <<data, pending, lock, spent>>

-----------------------------------------------------------------------------
(* The lock (withSyncLock).                                                *)

\* Refused: a request answers with the error; for an event it is logged.
Ask(w) ==
  /\ pc[w] = "ready"
  /\ IF Running THEN EndSync(w)
     ELSE GoTo(w, "asking") /\ UNCHANGED <<job, at, tries, snap, cells, todo, touched>>
  /\ UNCHANGED <<data, queue, lock, spent>>

\* Mutant: an old lock is never taken over.
LockableIfNull == lock = "free"

Lockable == lock # "held"

TakeLock(w) ==
  /\ lock' = "held"
  /\ GoTo(w, CASE job[w] = "push" -> "read" [] job[w] = "pull" -> "pull" [] job[w] = "one" -> "write")
  /\ todo' = [todo EXCEPT ![w] = IF job[w] = "one" THEN {at[w]} ELSE {}]
  /\ UNCHANGED <<data, queue, job, at, tries, snap, cells, touched, spent>>

\* Mutant: only runningSyncs is asked.
AcquireAlways(w) == pc[w] = "asking" /\ TakeLock(w)

Acquire(w) == pc[w] = "asking" /\ Lockable /\ TakeLock(w)

Refuse(w) ==
  /\ pc[w] = "asking" /\ ~ Lockable
  /\ EndSync(w)
  /\ UNCHANGED <<data, queue, lock, spent>>

\* A pull that has changed leads is followed by a push.  When the UPDATE that
\* frees the lock fails, nobody is told.
Leave(w) ==
  /\ pc[w] = "leave"
  /\ \/ lock' = "free" /\ UNCHANGED spent
     \/ /\ MayFail
        /\ spent' = [spent EXCEPT !.faults = @ + 1]
        /\ UNCHANGED lock
  /\ IF job[w] = "pull" /\ touched[w]
     THEN /\ GoTo(w, "ready") /\ job' = [job EXCEPT ![w] = "push"]
          /\ touched' = [touched EXCEPT ![w] = FALSE]
          /\ UNCHANGED <<at, tries, snap, cells, todo>>
     ELSE EndSync(w)
  /\ UNCHANGED <<data, queue>>

\* A call of the Sheets API or a query fails.
Fail(w) ==
  /\ pc[w] \in {"read", "write", "pull", "leads"}
  /\ Return(w)
  /\ UNCHANGED <<data, queue, lock, job, at, tries, touched, spent>>

\* Google has written the rows, but the answer does not arrive, or the state
\* of a row cannot be saved.
LoseAnswer(w) ==
  /\ pc[w] = "save" /\ MayFail
  /\ spent' = [spent EXCEPT !.faults = @ + 1]
  /\ Return(w)
  /\ UNCHANGED <<data, queue, lock, job, at, tries, touched>>

-----------------------------------------------------------------------------
(* Push: syncConnection, pushLeadToConnection, batchUpsertTarget.          *)

ReadLeads(w) ==
  /\ pc[w] = "read"
  /\ snap' = [snap EXCEPT ![w] = Read]
  /\ todo' = [todo EXCEPT ![w] = Leads]
  /\ GoTo(w, "write")
  /\ UNCHANGED <<data, queue, lock, job, at, tries, cells, touched, spent>>

Write(w) ==
  /\ pc[w] = "write"
  /\ sheet' = Written(w)
  /\ GoTo(w, "save")
  /\ UNCHANGED <<lead, row, queue, lock, job, at, tries, snap, cells, todo, touched, spent>>

\* saveRowState, lead by lead.
SaveRow(w, l) ==
  /\ pc[w] = "save" /\ l \in todo[w]
  /\ row' = [row EXCEPT ![l] = RowState(w, l)]
  /\ TakeOff(w, l, "save")
  /\ UNCHANGED <<lead, sheet, queue, lock, job, at, tries, touched, spent>>

-----------------------------------------------------------------------------
(* Pull: pullConnection.                                                   *)

ReadSheet(w) ==
  /\ pc[w] = "pull"
  /\ cells' = [cells EXCEPT ![w] = sheet]
  /\ GoTo(w, "leads")
  /\ UNCHANGED <<data, queue, lock, job, at, tries, snap, todo, touched, spent>>

ReadForPull(w) ==
  /\ pc[w] = "leads"
  /\ IF cells[w] = Empty THEN Return(w)
     ELSE /\ GoTo(w, "rows")
          /\ snap' = [snap EXCEPT ![w] = Read]
          /\ todo' = [todo EXCEPT ![w] = {l \in Leads : cells[w][l] # NoRow}]
          /\ UNCHANGED cells
  /\ UNCHANGED <<data, queue, lock, job, at, tries, touched, spent>>

\* The row is as it was pushed, or has never been; both sides have changed;
\* normalizeEditableValues refuses the cells; or the update failed.
PassRow(w, l) ==
  /\ pc[w] = "rows" /\ l \in todo[w]
  /\ TakeOff(w, l, "rows")
  /\ UNCHANGED <<data, queue, lock, job, at, tries, touched, spent>>

ApplyRow(w, l) ==
  /\ pc[w] = "rows" /\ l \in todo[w] /\ SheetChanged(w, l) /\ ~ CrmChanged(w, l)
  /\ \E t \in Stamps(l) :
       /\ lead' = [lead EXCEPT ![l] = Pulled(w, l, t)]
       /\ spent' = [spent EXCEPT !.late = @ + Late(l, t)]
  /\ at' = [at EXCEPT ![w] = l]
  /\ GoTo(w, "record")
  /\ UNCHANGED <<sheet, row, queue, lock, job, tries, snap, cells, todo, touched>>

RecordRow(w) ==
  /\ pc[w] = "record"
  /\ row' = [row EXCEPT ![at[w]] = [pushed |-> cells[w][at[w]], seen |-> row[at[w]].seen]]
  /\ TakeOff(w, at[w], "rows")
  /\ touched' = [touched EXCEPT ![w] = TRUE]
  /\ at' = [at EXCEPT ![w] = NoLead]
  /\ UNCHANGED <<lead, sheet, queue, lock, job, tries, spent>>

\* The lead is updated, but its remark or the state of its row is not.
RecordFails(w) ==
  /\ pc[w] = "record" /\ MayFail
  /\ spent' = [spent EXCEPT !.faults = @ + 1]
  /\ TakeOff(w, at[w], "rows")
  /\ at' = [at EXCEPT ![w] = NoLead]
  /\ UNCHANGED <<data, queue, lock, job, tries, touched>>

-----------------------------------------------------------------------------
Step(w) ==
  \/ ReadLead(w) \/ EventFails(w) \/ Complete(w)
  \/ Ask(w) \/ Acquire(w) \/ Refuse(w) \/ Leave(w) \/ Fail(w) \/ LoseAnswer(w)
  \/ ReadLeads(w) \/ Write(w) \/ (\E l \in Leads : SaveRow(w, l))
  \/ ReadSheet(w) \/ ReadForPull(w)
  \/ (\E l \in Leads : PassRow(w, l) \/ ApplyRow(w, l))
  \/ RecordRow(w) \/ RecordFails(w)

AutoPull == \E w \in Workers : Request(w, "pull")

Next ==
  \/ \E l \in Leads, v \in Edited, enqueued \in BOOLEAN :
       \E t \in Stamps(l) : EditLead(l, v, t, enqueued)
  \/ \E l \in Leads, c \in Typed : TypeCell(l, c)
  \/ Age \/ Crash
  \/ \E w \in Workers, kind \in {"push", "pull"} : Request(w, kind)
  \/ \E w \in Workers, l \in Leads : PushAssigned(w, l) \/ Claim(w, l)
  \/ \E w \in Workers : Step(w)

\* Queries and calls return or fail, time passes, and the tick of every 90
\* seconds pulls as long as the connection is enabled.
Fairness ==
  /\ \A w \in Workers : WF_vars(Step(w))
  /\ WF_vars(Age)
  /\ WF_vars(AutoPull)

Spec == Init /\ [][Next]_vars /\ Fairness

-----------------------------------------------------------------------------
(* Properties.                                                             *)

\* Every variable is of its type; a worker with an event has its lead.
TypeOK ==
  /\ lead \in [Leads -> [value : Values, stamp : Nat, newest : Nat, late : BOOLEAN, by : {"crm", "sheet"}]]
  /\ sheet \in [Leads -> Cells \cup {NoRow}]
  /\ row \in [Leads -> [pushed : Cells \cup {NoRow}, seen : Nat]]
  /\ pending \in [Leads -> 0..(MaxTries - 1) \cup {NoEvent}] /\ owed \subseteq Leads
  /\ lock \in {"free", "held", "old"}
  /\ pc \in [Workers -> Outside \cup Inside]
  /\ job \in [Workers -> Jobs]
  /\ at \in [Workers -> Leads \cup {NoLead}] /\ tries \in [Workers -> 0..MaxTries]
  /\ snap \in [Workers -> [Leads -> [value : Cells, stamp : Nat]]]
  /\ cells \in [Workers -> [Leads -> Cells \cup {NoRow}]]
  /\ todo \in [Workers -> SUBSET Leads] /\ touched \in [Workers -> BOOLEAN]
  /\ spent \in [edits : 0..MaxEdits, typed : 0..MaxTyped, late : 0..MaxFaults, faults : 0..MaxFaults]
  /\ \A w \in Workers : tries[w] > 0 => at[w] \in Leads

\* No two workers read and write the sheet and its row states at the same
\* time, through faults, expired locks, refused requests and failing calls
\* (withSyncLock: the lock in the database decides between two requests that
\* have both found runningSyncs empty).
OneSync == \A v, w \in Workers : pc[v] \in Inside /\ pc[w] \in Inside => v = w

\* A change that was enqueued waits until an attempt has read the lead for the
\* personal sheets: its event is pending, or with a worker that is still to
\* read.  Four ends of the latest event are the only exceptions: three failures,
\* a crash, a status that could not be written, and a lead that only the master
\* sheet's half has dealt with.  That holds for a change made while an older
\* event of the lead is in processing, fails, or is put back (enqueueLeadSync,
\* processPendingSyncEvents).  Whether what was read reaches the sheet is another
\* matter: the event of a push that the lock refuses is completed.
NoEditForgotten ==
  \A l \in owed :
    \/ pending[l] # NoEvent
    \/ \E w \in Workers : pc[w] = "claimed" /\ at[w] = l

\* "CRM remains source of truth" (pullConnection): a pull changes a lead only
\* when somebody has typed into the sheet, or a fault has left the sheet and
\* the state of a row apart; and it does not replace a value that was changed in
\* the CRM and has not been pushed since.  Two kinds of changes are not safe:
\* those made after the pull has read the leads, and those with an updated_at
\* that is no newer than an earlier one, as a transaction that began first and
\* ended last gives them.
CrmPrevails ==
  [][\A w \in Workers, l \in Leads :
       ApplyRow(w, l) /\ lead'[l].value # lead[l].value =>
         /\ spent.typed > 0 \/ spent.faults > 0
         /\ \/ lead[l].by = "sheet"
            \/ lead[l].value = row[l].pushed
            \/ snap[w][l].stamp # lead[l].stamp
            \/ lead[l].late]_vars

\* The lock is always released again, by its holder or, after a crash, by a
\* later pull that takes it over (the 15 minutes of withSyncLock).
LockFreed == lock # "free" ~> lock = "free"
=============================================================================
