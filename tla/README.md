# Verification of the CRM backend

TLA+ modules, TLC configurations and TLAPS proofs for the backend of the
DigitalAdbird CRM (`src/backend`): the counselor workflow, the lifecycle of a
lead with its retry plans, the assignment of leads, the daily distribution and
the synchronisation with personal Google Sheets. Source paths below are relative to
`src/backend/src/` unless they start with `src/`.

    tlc -config journeys.cfg MCCounselorWorkflow       # and so on, see "Runs"
    tlapm CounselorWorkflow_proofs.tla

## 1. The system

One Node/Express process over one PostgreSQL database. The database holds all
state that lasts; the process holds timers, sockets and caches. Commands come in
as HTTP requests, webhooks and timer ticks, and nearly all of them are a few SQL
statements. Some run in one transaction with row locks (`withTransaction`,
`SELECT ... FOR UPDATE`), others run each statement on its own. Production runs
one instance (`src/ecosystem.config.js`, `instances: 1`), but the timers do not
wait for what they started, requests overlap, and `max_memory_restart` may end
the process at any await. The workflow's worker takes an advisory lock to be
safe with several processes, and is modelled with several.

### Components

| Component | State | Operations | Works with | What makes it correct |
|---|---|---|---|---|
| Counselor workflow (`services/counselorWorkflowService.js`) | `counselor_workflow_state`, `counselor_workflow_events` | versioned remark, adapters for older handlers, schedule, worker batch | called inside the transactions of notes, calls, attempts, lifecycle; reads `leads`, `lead_assignments`, `lead_remarks` | queue, journey and deadlines agree; aging is right when it is written; work is credited once; retries are safe; due leads age |
| Lead assignment (`services/leadAssignmentEngine.js`) | `leads.assigned_to_user_id`, `lead_assignments`, `lead_requests` | approve, fulfil, distribute, assign, reassign, unassign | started by new leads, the scheduler, approvals, managers | nobody's lead is taken over; counts and history agree; caps and shares are kept |
| Request distribution (`services/requestDistributionEngine.js`) | `lead_requests`, `rm_lead_requests`, pools (`leads.pool_rm_id`) | strict rotation, fulfilment of a manager's request | competes with the assignment engine for leads and requests | every waiting request has its turn in every round; no lead is counted twice |
| Distribution scheduler (`services/distributionScheduler.js`) | rows of `distribution_settings` | timer, run now, lock, stamp | starts the assignment engine | runs exclude each other; one distribution a day, and not none |
| Lifecycle V2 (`services/lifecycleService.js`, `jobs/lifecycleDeadlineJob.js`) | `lead_lifecycle_state`, `lead_actions`, `lead_lifecycle_events` | record, complete, close, reopen; job: realign, materialise, mark overdue | calls the counselor workflow; cancelled by attempts and remarks | at most one active primary action, none on a closed lead; an action that is due gets overdue once |
| Call attempts (`services/leadCallAttemptService.js`) | sequences and attempts | start, complete, cancel, reassign | lifecycle, workflow, remarks | one active sequence per lead, at most four attempts, none after closing |
| Pools and partner requests (`routes/index.js`) | `pool_rm_id`, `partner_lead_requests` | assign from pool, assign for a partner, take back | same leads as the assignment engine, without its locks | same promises as lead assignment |
| Google Sheets (`services/userGoogleSheetsService.js`, `jobs/googleSheetSyncJob.js`) | connection with its lock, row states, queue of edited leads | push, pull, conflict detection, retry | after assignments and edits; a tick every 90 seconds | one synchronisation at a time; a queued edit is read or its event is known to have ended; an older row of the sheet does not replace a newer value of the CRM |
| Meta leads | `leads.meta_lead_id`, cursors, webhook log | webhook, pull | creates leads, starts fulfilment | a lead arrives once, whichever way comes first |
| Meetings, Wasp, chat, OTP and reset tokens, tickets, notifications | one or two tables each | claim and send, inbound/outbound message, issue and use a code | timers, outside services | sent once, used once, status only goes forward |
| Reports, user administration, frontend, deployment | - | reads, record keeping, configuration | - | not a matter of interleaving |

### What is hard

- The workflow's worker reads due rows in one query and writes them later, one
  transaction each, while counselors work the same leads. Its advisory lock is
  on another connection than its work.
- An assignment is changed by a dozen handlers that do not know the workflow;
  every command must notice. Some of them write lead and history row in separate
  statements.
- Clients retry; older and newer endpoints record the same work; idempotency
  keys are derived from row ids.
- Distribution, fulfilment, rotation and managers take leads from one stock, in
  transactions of many statements that may roll back. Each run works with counts
  it has read at its start.
- The scheduler decides by a stamp and a signature that overlapping runs write
  in separate queries, under a lock that is a row in a table and survives the
  process.
- Nine handlers touch a lead's next action and its retry plan, some of them one
  without the other. The deadline job reads without the lead's lock and writes
  later.
- A sheet and the CRM are changed by different people; what was pushed last is
  stored after the push, in another system, and decides later whose value is
  newer.

`PROJECT.json` lists the hazards one by one, at their lines, with the properties
that cover them, or the reason why none does.

## 2. Modules

| Module | What it is |
|---|---|
| `CounselorWorkflow` | the counselor workflow, the handlers that call it or write past it, assignments and the worker |
| `LeadQueue` | its abstract specification: what it promises about a lead's queue |
| `DeadlinePolicies` | pure operators: the deadlines of journeys and the times of retry calls |
| `CounselorWorkflow_proofs` | types, row invariant, aging, generations, the deadline policies |
| `CounselorQueue_proofs` | credit for New work, keys, retries, refinement of `LeadQueue`, causes of findings 1 and 2 |
| `LeadAssignment` | who gets a lead: requests, runs, rotation, managers |
| `LeadAllocation` | its abstract specification: hand-outs of free leads, all at once |
| `LeadAssignment_proofs` | types, history, nothing is taken over |
| `LeadRequests_proofs` | counts of requests, turns of the rotation, fair shares, refinement of `LeadAllocation`, causes of findings 3 and 4 |
| `DistributionScheduler` | the daily run, query by query |
| `DistributionScheduler_proofs` | types, the lock |
| `CallAttempts` | retry plans: what each function of the service makes of a lead's sequences |
| `LeadLifecycle` | Lifecycle V2 of a lead, composed with its retry plans, the handlers that call both, and the deadline job |
| `LeadJourney` | its abstract specification: one next step after the other until the journey is closed |
| `CallAttempts_proofs` | what the operators on plans keep, and the times of retry calls |
| `LeadLifecycle_proofs` | types, the journey's invariant, history, announcements, refinement of `LeadJourney` |
| `SheetSync` | a personal Google Sheet: pushes, pulls, queue and lock |
| `SheetSync_proofs` | types, the lock, the queue, who prevails |
| `MCCounselorWorkflow`, `MCLeadAssignment`, `MCDistributionScheduler`, `MCLeadLifecycle`, `MCSheetSync` | values of the constants for TLC |

### CounselorWorkflow

A command locks its lead first (`lockLead`), so a command on one lead is one
action; what interleaves is commands and the worker's steps.

| In the model | In the code |
|---|---|
| `lead` | `leads`: owner, `assigned_at`, `next_followup_at`, closed (won, lost, dropped); `met` is the keys `legacy-pm:...` of the lifecycle's events |
| `history` | newest open `lead_assignments` row |
| `state`, `events` | `counselor_workflow_state`, `counselor_workflow_events` |
| `requests`, `replies` | what clients have sent to `recordRemark`, any number of times |
| `worker`, `advisory` | what a process's `tickBatch` holds in memory; `pg_try_advisory_xact_lock` |
| `EnsureState`, `EnsureEvents` | `ensureState` |
| `ApplyRemark`, `AfterRemark` | `applyRemark` |
| `Saved`, `Refused` | `recordRemark` with its key, hash and generation checks, in their order |
| `LegacyRemark`, `LegacyLevel`, `CallAttempt`, `Conversion` | the handlers around `observeRemark`: notes and call logs, levels, a retryable attempt, conversion |
| `ImportNote`, `ChangeStage` | what is written past the workflow: a note of a sheet's pull, a stage by a bulk action or a pull |
| `SaveMeeting`, `CloseLifecycle`, `ReopenLifecycle`, `ProgressLifecycle` | personal meetings and lifecycle commands, through `invalidateLegacy` |
| `Schedule` | `schedule`, exported and so far without a caller in the repository |
| `Reassign`, `AssignPooled`, `InsertHistory`, `Unassign` | assignment in one transaction, and statement by statement |
| `StartTick` ... `FinishTick` | `tick`, the two queries of `tickBatch`, one transaction per lead or row |
| `RowFails`, `Crash`, `LoseLock` | a rolled back row, the end of a process, the loss of the coordinator's connection |

`observeRemark` is asked before `syncLegacyRemark` and `syncLegacyLeadLevel` close
the lead and clear its follow-up, so `ObserveRemark` takes the lead as it is looked at
(`ld`) and as the handler leaves it (`final`). A closing remark or level of somebody
who is not the owner is therefore taken for a note on an open New lead, and leaves
the closed lead New; the closing status of a request may also be another than the
primary one.

Abstractions. `assigned_at` is compared for equality only, so it is the serial
number of the assignment, and `at` is the hour deadlines are computed from. A
lead assigned before the rollout cutoff has number 0. Every counselor takes part
in the rollout. Deadlines are operators of which `PolicyAssumption` says what
`counselorWorkflowPolicies.js` guarantees: they lie ahead, and Old comes before
Pending. `PoliciesMeetAssumption` proves that of the policies themselves. Of the older open history rows of a lead only the newest is kept.

### LeadQueue

Per lead a phase (none, new, journey, old, pending, awaiting, closed), the
assignment it belongs to, and the assignments whose first response has been
credited. New is entered at the start of an assignment only; credit is given
once; closed and waiting leads do not age; assignments do not go back.
`CounselorWorkflow!Queue` is the refinement mapping: the phase comes from
`state`, the credits from `events`.

### LeadAssignment

A `session` is a running transaction of `runAutoAssignment`,
`fulfillApprovedRequests` or `distributeRoundRobin`: what it has locked (`seen`,
`scanned`), what it is about to write (`taken`, `marked`), and the member loads
it read (`load`), and where a rotation is (`queue`, `turn`, `progress`,
`rotations`; `missed` is history). `Commit` writes it all, `Rollback` (a failing statement or the
end of the process) nothing. `FOR UPDATE SKIP LOCKED` is `Locked` and `Held`;
operations whose first statement takes the only lock they need are one action.
A request has both its counters, `fulfilled_quantity` and `leads_assigned`, and
`delivered` counts the history rows written for it.

A rotation walks its queue as the code does: the request at the index gets a lead
and the index moves on (`Rotate`), or the request is filled and spliced out and
the index stays (`TurnAfter`), or no lead of its category is free or unlocked and
the index moves on all the same (`PassOver`). A round ends at the end of the
queue (`NextRound`); the rotation ends with an empty queue, after a round without
progress, or after `MaxRounds`. `Fits` is the leads of a request's category.

`AutoReassign` gives a lead to any member: the candidates of
`runAutoReassignment` are read before the leads and not checked again.

Left out: ranking of high performers, assignment windows, worked and closed leads, the row lock of the
round-robin pointer (it only makes runs wait), and the other takers of leads
named in the plan.

### LeadAllocation

What `LeadAssignment` promises to somebody who sees neither transactions nor locks:
a distribution, a fulfilment and a rotation are each one step, which gives away
leads that are free in that state and in no pool, to the members whose requests
they are for, and no more than a request is owed in that state (`Distribute`); a
rotation gives a request at most what it asks for (`Rotate`; in which order and
whom it passes over shows in `StrictRotation` only); a request is promised something once, and
not while a rotation serves it (`Promise`). `Manage` is what managers do: any
lead, to anybody, changing no request. A step that changes owners only can
therefore always be read as a `Manage`; that a transaction takes nothing over is
`NoTakeover`. Runs that deliver for requests cannot be explained in this way.

`LeadAssignment!Allocation` is the refinement mapping: `promised` and `received`
are `approved_quantity` and `fulfilled_quantity`, `dealt` is what rotations have
delivered, and `round` is what an open rotation has locked. The mapping sees
nothing of what a session has read or is about to write, so the refinement says
that stale readings, `SKIP LOCKED` and rollbacks never show in the outcome.

### DeadlinePolicies

Operators without state, in milliseconds of the business clock (+05:30, no
summer time, so that conversions to and from UTC cancel out): `officeDeadline`,
`nextRespondedCutoff` and `journeyDeadlines` of `counselorWorkflowPolicies.js`,
`snapIntoBusinessHours` and `calculateNextCallTime` of
`leadCallAttemptService.js`. `CounselorWorkflow` and `LeadLifecycle` use small
numbers and bits instead, so no run computes them; TLC evaluates them as
assumptions of `MCCounselorWorkflow` and `MCLeadLifecycle`, on cases of the
repository's tests and about each hour the policies name, and the theorems hold
for every time. Two policies are at odds, and neither refers to the other: a call
issue is Old after two hours, but the retry of `cnr`, `recall`, `so` and `rnr`
comes after 150 or 180 minutes at the earliest (an agreed recall apart), when the
lead has gone to Old.

### DistributionScheduler

One action per query of `runScheduledDistribution`: check the settings, take the
lock, distribute, stamp the day, stamp the signature, release, and the catch
block, which releases again. A configuration stands for what the signature puts
together; the time of day is a slot. `served` and `disturbed` are history: was
today's distribution carried out, and which event that a run does not expect has
touched lock or stamp (a run by hand, distribution disabled in the middle, a run
past midnight, a crash with the lock held, a failed release). `releaseRunLock` sends
three queries at a time and rejects with the first that fails; `releases` counts
those that were sent by a release that has failed and may still free the lock,
perhaps after another run has taken it (`LateRelease`).

### LeadLifecycle, CallAttempts and LeadJourney

`CallAttempts` has no variables: a plan's rows are a value, its operators are
what the functions of `leadCallAttemptService.js` make of it, and
`LeadLifecycle`, which extends it, applies them inside the transactions that call
the service. Every command locks the lead first and is one action; the deadline
job works from what it has read, transaction by transaction.

| In the model | In the code |
|---|---|
| `state` | `lead_lifecycle_state`; before the row exists, what `ensureState` would insert |
| `action` | `lead_actions`, with the overdue event (`notice`) |
| `plans` | `lead_call_attempt_sequences` and `lead_call_attempts` |
| `screen` | what an open panel has read; `fresh` is "its `expected_version` would be accepted" |
| `Versionless` | clients that send no `expected_version`: `validateExpectedVersion` lets their commands pass, whatever they have read |
| `job` | a tick: the lead is on the list without actions, actions to announce |
| `WorkflowRemark`, `ExtraCall`, `CompleteAttempt`, `PlainRemark`, `Conversion` | the handlers in `routes/index.js` and `leadController.js`, through `SyncRemark` (`syncLegacyRemark`) |
| `SaveLevel`, `PersonalMeeting` | `syncLegacyLeadLevel`, `syncLegacyPersonalMeeting` |
| `Read`, `RecordEvent`, `CompleteAction`, `Close`, `Reopen` | the commands of `routes/lifecycle.js` |
| `Assign` | any handler that gives the lead to a counselor or takes it back |
| `Realign`, `ListMissing`, `Materialize`, `MarkOverdue`, `Announce`, `TickFails` | `tick` of `lifecycleDeadlineJob.js` |
| `DeadlinePasses`, `AttemptFallsDue` | the clock |

Abstractions. One lead: neither commands nor the job relate two leads. Deadlines
and retry times are bits (has it come?). The version counts up and is compared
for equality, so a panel's is either current or not. Of ended actions and plans
only that they have ended is kept. The stages `tte`, `personal_meeting` and
`quotation`, between which no rule of the service tells, are `offer`. A remark
has one status. Commands that an idempotency key recognises as repeated change
nothing and are stutters. V2 is on for every counselor. An action's
`originating_action_id`, summaries, priorities and policies that only set times
are left out.

What the model shows beside its properties, and a reader of the code should
know. An action that was paused for a plan stays paused for good if the plan is
ended by `addRemark`, `bulkAddRemarks` or a repeated conversion, which do not
call the lifecycle (`Untold` in `HeldByRetry`); the job does not list such a lead
and the action cannot be completed before a remark replaces it. A remark `cnr` on
a closed lead starts a new plan. The fourth attempt closes its sequence cold
without closing the journey. A remark or activity that creates the next action
also cancels a manager's escalation. An action whose deadline passes while it is
paused comes back as overdue without an event.

`LeadJourney` has a phase (unknown, unplanned, planned, late, working, held,
closed), the number of next steps there have been and the attempt the retry plan
waits for. A step is replaced by the next, never dropped; it is held only when a
plan is there; a plan goes through its attempts one by one and ends with the
journey. `Abstract` in `LeadLifecycle` is the refinement mapping.

### SheetSync

A worker is a request or a tick between its awaits. All workers run in one
process, so `Running` (`runningSyncs`) is what the others are doing, and `Crash`
ends them all; the lock in the database and the queue survive.

| In the model | In the code |
|---|---|
| `lead` | the editable columns of a lead and `updated_at`; history: the newest `updated_at` there was, whether the last write was no newer (`late`), who changed the value last (`by`) |
| `sheet` | the editable cells of the lead's row |
| `row` | `user_google_sheet_row_sync_state`: `last_pushed_hash`, `last_crm_updated_at` |
| `pending`, `tries` | `google_sheet_pending_sync_events` by status: pending with its attempts, in processing |
| `owed` | history: queued changes no attempt has read, until their latest event has ended |
| `lock` | `sync_started_at`: NULL, recent, older than 15 minutes |
| `Enqueue`, `Claim`, `ReadLead`, `EventFails`, `Complete`, `Requeue` | `enqueueLeadSync`, `processPendingSyncEvents` |
| `Ask`, `Acquire`, `Refuse`, `Leave`, `Age` | `withSyncLock` and its two checks |
| `ReadLeads`, `Write`, `SaveRow`, `LoseAnswer` | `syncConnection`, `pushLeadToConnection`, `batchUpsertTarget` |
| `ReadSheet`, `ReadForPull`, `PassRow`, `ApplyRow`, `RecordRow`, `RecordFails` | `pullConnection`, row by row |
| `EditLead`, `TypeCell` | the CRM's handlers, with or without `enqueueLeadSync`; the sheet's user |

Abstractions. One connection with one tab and one row per lead; which leads
belong into the sheet is fixed. The editable columns are one value, which is its
own hash. They do not come back from the sheet as they went: dates are written in
the reader's form and parsed by `Date` (day and month change places, or the row
is refused), empty cells change nothing, a note becomes a remark from which
columns are derived. `Merged` is the columns after a pull, for any columns, cells
and last push; the theorems hold for every such function, and the run's has a
date that comes back as another. Event claims come in any order.

An event has two halves, the master sheet and the personal sheets. It is put back
only if both fail (`EventFails`), before the lead is read or after it. If one
succeeds it is completed (`Complete`), and the master sheet's half succeeds without
a look at the lead when no master sheet is set up. A push that the lock refuses
completes its event as well.

`updated_at` is the time a transaction began, so a write may carry a stamp that is
no newer than an earlier one (`Stamps`); a write that only inserts a remark leaves
the lead's stamp as it was. Such late writes count as faults of the instance
(`MaxFaults`), as do crashes, lost answers and lock releases that fail, which
`withSyncLock` swallows (`Leave`).

Sync status, logs, last error, cooldown (which only refuses to begin), the limits
of 25 and 5 and remarks inserted by a pull are left out. No operation runs for 15
minutes: `Age` happens to a lock whose holder is gone. An operation that did
outlive its lock would release the lock of its successor, since the `finally`
clause does not ask whose lock it is.

What the run shows beside its properties: a lost answer or a crash between the
write to Google and `saveRowState` makes the next pull take the CRM's own older
value for a typed one (`CrmPrevails` allows it after a fault only); an edit made
while a pull is between its reading of the leads and its UPDATE, or with a late
stamp, is overwritten without a conflict (both excepted in `CrmPrevails`); and an
edit whose event was completed by the master sheet's half alone waits for the
next push of its lead (excepted in `NoEditForgotten`).

## 3. Runs

| Run | Instance | Shows |
|---|---|---|
| `journeys` | 1 lead, 1 counselor, 1 manager, a timed and a terminal status, 1 meeting, stages written past the workflow, 1 worker, 2 remarks, 4 generations | `TypeOK`; `TableChecks`: no CHECK constraint of migration 074 ever rejects a write; `TerminalNeverAges`; `QueueSpec`: the workflow implements `LeadQueue` |
| `assign` | 1 lead, 2 counselors (symmetric), 2 assignments, 1 client request | `KeysUnique`, `NewWorkOnce`, `DueRowsProgress`, `RetryNeverConflicts`, `GenerationsIdentify` |
| `batches` | 2 leads, 2 workers, limit 1, one fault, one remark | `AgingIsCurrent`: what the worker writes is true when it writes it, with overlapping batches and a note imported past the adapters; `DueLeadsAge`, `AssignedLeadsEnrol` under fairness |
| `conversion` | violation | `ClosedLeadLeavesNew`, finding 1 |
| `suspension` | violation | `SuspensionHasFollowup`, finding 2 |
| `pool` | 2 leads, 2 members (one with a cap, unequal weights, one changing availability), 2 requests (one of one lead and for one lead of the two, one of two leads), scheduler and administrator | `TypeOK`, `FulfilmentCounts`, `OpenRowNamesOwner`, `NoTakeover`, `StrictRotation`, `FairShares`; `AllocationSpec`: the whole implements `LeadAllocation` |
| `cap` | violation | `HardCap`, finding 3 |
| `delivery` | violation | `LeadsAssignedCounts`, finding 4 |
| `schedule` | 2 runs, 2 days, 2 configurations, two failing queries, which may leave a release under way, one each of change, manual run and crash | `TypeOK`, `LockExcludes`, `Settles`, `DailyRunUndisturbed` |
| `missed` | violation: one manual run | `DailyRun`, finding 5 |
| `lifecycle` | 1 lead, 1 counselor with a superior, 1 manager's panel and a client without versions, 2 + 1 actions, 2 plans of 3 attempts, remarks that retry and close, 2 categories, 1 activity, 1 meeting, one failing tick | `TypeOK`; `OneNextAction`; `RetryPlanSound`; `VersionProtects`; `HistoryKept`; `HeldByRetry`; `PendingOnce`; `Journey`: the whole implements `LeadJourney`; `NextActionComes`, `LatenessNoticed`, `OverdueAnnounced`, `OwnerFollows` under fairness |
| `sheets` | 1 lead, 2 workers, one edit, one typed cell (a date that comes back as another, or a blank), one crash, lost answer, lost row state, failed release or late write | `TypeOK`; `OneSync`; `NoEditForgotten`; `CrmPrevails`; `LockFreed` under fairness |

Distinct states: journeys 2.2 million, assign 7.0 million, batches 0.7 million,
pool 2.7 million, schedule 0.9 million, lifecycle 0.4 million, sheets 1.8
million; no run takes more than about three minutes with two workers. Every property of a passing run has a
mutant in `PROJECT.json`: a small change of the code's model under which the run
finds the property violated.

Bounds. Rows of the workflow do not look at other leads except through the batch
limit, so one lead is enough for what concerns a lead, and two with a limit of
one for the batch. Two assignments and two counselors give leads that come back
to their first owner; four generations let a lead be enrolled, worked, aged and
worked again; times up to two pass both deadlines of a journey. In `pool` two
leads are fewer than the three that the two requests ask for, so that runs fail
to get what they want and requests are met in part. The first request asks for one
lead, and only one lead fits it: it is filled and spliced out in front of the other,
or passed over while the other is served, which is how an index can go wrong. The scheduler needs a second
day: a stamp of yesterday with the current signature is what decides the runs of
finding 5. In `lifecycle` two actions of users and one of the job let an action be
replaced by a command and by the job; two plans let one end and the next begin;
three attempts have a first, a middle and a last one. In `sheets` the three values
tell the original, the edited and the typed one apart, and a fourth is what a date
becomes on its way back; two workers are enough for
a race for the lock, and one fault for each way sheet and row state part; rows of
different leads meet only in the loops over them, which the proofs cover for any
number. The counters stop most models when they are used up, so deadlock checking
is off there; `LeadAssignment` needs no counters, and `SheetSync` goes on with
requests and ticks.

Symmetry is used in `assign` (counselors), which checks no liveness.

Fairness. `CounselorWorkflow`: weak fairness of each worker's steps. The timer
fires every minute in every process (`jobs/lifecycleDeadlineJob.js`) and a batch
that has begun runs to its end; nothing obliges a client, a manager or the clock.
`DistributionScheduler`: weak fairness of the timer's check, of the steps of a
run, and of time. `LeadLifecycle`: weak fairness of the deadline job's tick, which
the timer starts every minute; nothing obliges users, panels or the clock.
`SheetSync`: a query or a call to Google returns or fails (steps of a worker),
time passes (`Age`), and the tick pulls every 90 seconds as long as the
connection is enabled (`AutoPull`). `LeadAssignment` states safety only: its
transactions may be rolled back for ever.

### Findings

1. `conversion`. The idempotency key of a conversion is the id of an upserted
   row, the same for every conversion of a lead, so the second conversion (after
   reopening and reassignment) is dropped as a duplicate and the closed lead
   stays New until the timeout moves it to Pending. The run checks conversions
   only; the other steps after which a closed lead is New are those of
   `ClosedNewUnrecorded` below.
2. `suspension`. A call attempt with a follow-up suspends the journey, but the
   follow-up is not stored on the lead; the Follow-up view never shows it and the
   worker skips it.
3. `cap`. The daily cap, "a hard blocker", is compared with a count that is read
   once per run.
4. `delivery`. A request served by the rotation and approved afterwards gets its
   whole quantity again, and `leads_assigned` is overwritten.
5. `missed`. A run by hand stamps the day without the signature; if yesterday's
   scheduled run stored the same signature, today's run is skipped.

## 4. Proofs

The theorems hold for all values of the constants that satisfy the `ASSUME`s of
the modules, so for any number of leads, users, workers, runs, and any bounds.

`CounselorWorkflow_proofs`
- `TypeCorrect`: `[]TypeOK`, one step per action.
- `RowInvariant`: every row satisfies `RowInv`. The CHECK constraints are not
  inductive: the worker ages a row to Old by its `oldAt`, and Pending clears
  activity while `oldAt` must be gone by then. `RowInv` adds that a terminal row
  has no deadline and that a row with `oldAt` is in no queue. `RowSteps` reduces
  `Next` to the five ways a row changes (enrolled, worked, changed from outside,
  scheduled, aged), and each later theorem argues by them.
- `TableChecksHold`, `TerminalNeverAgesHolds`: from `RowInv`.
- `AgingIsCurrentHolds`, `GenerationsIdentifyHolds`: the action properties. Only
  the worker's step ages a row, under `Actionable`; every other change raises the
  generation.
- `PoliciesMeetAssumption`: the policies satisfy `PolicyAssumption`, the one
  assumption of these modules that is about code; Old comes strictly before
  Pending, and Pending within 44 hours of the start of any journey.
- `DeadlinesKeepOrder`: across office hours, cutoff and midnight, what began earlier
  is never due later. Both argue by the midnight and the time of day
  (`DayParts`, `DaysInOrder`); their leaves name SMT, since the numbers of a day's
  milliseconds are beyond Zenon.

`CounselorQueue_proofs`
- `QueueInvariant`: the row's assignment never is ahead of the lead's, an equal
  assignment has the same owner, and responses are credited to assignments up to
  the row's, to the row's own only after it has left New. Without the second part
  enrolment could open an assignment as New that has been credited.
- `NewWorkOnceHolds`: by `NewCredit`, a step credits only an assignment that has
  no credit yet.
- `QueueImplements`: `Spec => QueueSpec`; each of the five ways maps to a step of
  `LeadQueue` or to a stutter.

- `KeysUniqueHolds`: by `KeyInv`. A remark's key is looked up first (`FreshKey`);
  the keys that are not looked up carry a generation, and no event carries a
  generation the row has not reached (`LaterKeyIsFree`).
- `RetryNeverConflictsHolds`: by `ReplyInv` with `KeyInv` and the growth of events
  and generations: a saved request has left its event, a generation conflict was
  answered for a generation gone by, so neither can follow the other.
- `ClosedNewUnrecordedHolds`: around finding 1. A step after which a closed lead is New,
  and was not before, has left row and events as they were and has closed an open
  lead. So whatever the workflow records takes the lead out of New; what it
  does not record are stages written past it (`ChangeStage`), remarks and levels of
  others than the owner, for which it is asked before the lead is closed, and keys
  that come again, of conversions and of meetings.
- `OnlyAttemptsLoseFollowupHolds`: around finding 2. A step that leaves its lead open
  makes a journey suspended without its follow-up in one way, a recorded call
  attempt. Steps that close the lead (remarks, levels, conversions, meetings) may
  clear the follow-up after the workflow has looked; nothing is said of them.
- `DueRowsProgressHolds`: by `RowInv`, `KeyInv` and `NoteInv`. In the row's
  generation a deadline that has an event is gone from the row; an event that
  names a remark carries the remark's assignment, and work on the row's assignment
  took it out of New. `RemarkInv` also carries that a newest remark exists, which
  grows with the remarks and so needs no induction over them.

`DistributionScheduler_proofs`
- `TypeCorrect`, and `LockExcludesHolds` by `LockInv`: until a release has
  failed, whoever holds the lock is alone and the row says so.

`LeadAssignment_proofs`
- `TypeCorrect`: `TypeInv` says exactly what a session contains, and that it
  serves only requests it has locked.
- `OpenRowNamesOwnerHolds`, `NoTakeoverHolds`: by `LocksInv`, a lead belongs to
  one transaction at most, and to no user as long as it does. Neither property is
  inductive without it: a commit would write over an owner it has not seen. A step
  either locks free leads (`Grabs`), leaves locked ones alone (`SparesLocked`) or
  commits.

`LeadRequests_proofs`
- `FulfilmentCountsHolds`: by `RequestsInv`. What a session has read of a locked
  request is still true, sessions lock different requests, and what one is about
  to give is no more than the request still needs; so a commit, which writes what
  it computed from an old reading, adds the right number.
- `StrictRotationHolds`: that every waiting request has had a turn in every round, and
  none two in one, is not inductive without the index. `InStep` says that the requests
  in front of the index have had their turn of this round, those behind it have not,
  and each has had one in all rounds before; a splice keeps that because the index
  stays. What a turn is worth is another matter: one that finds no lead is counted
  in `missed`, and by those a request may fall behind any number of leads.
- `FairSharesHolds`: inductive for each session with `RequestsInv`; the deal goes to
  a member that is behind no other, so one more lead keeps the difference within
  one share. `FairShares` compares
  products with weights, by cross-multiplication as the code's comparison does.
- `AllocationImplements`: `Spec => AllocationSpec`. A commit is the one step that
  shows, and it writes what it decided from old readings; `LocksInv` says that its
  leads are still free, `RequestsInv` that what it read of its requests is still
  true, and `AllotInv` that what it is about to write adds up: the counters of a
  request with what was delivered (`CounterInv`), the leads a session has taken
  with what it counted for each request (`GrantsInv`) and for each member
  (`CapInv`). All other steps of a session stutter or open and abandon a rotation.
- `WithinPromiseHolds`: from the same invariants. TLC's instance has no pools, so
  that no pool lead is handed out is shown by the theorems alone.
- `CapByCurrentCountHolds`, `OnlyRotationUncountedHolds`: why the claims of
  findings 3 and 4 fail. A run passes a cap only
  if its count of the member's leads has fallen behind; `leads_assigned` is wrong
  only for a request approved after a rotation served it, and lacks exactly what
  the rotation delivered.

`CallAttempts_proofs`
- A function of the service makes sound plans of sound plans, moves at most one
  attempt on, and leaves ended plans alone.
- `NextCallInHours`: the next call falls into business hours, after the attempt
  before it and within eleven days; an agreed time is put off by less than a day.
- `NextCallsKeepOrder`: of two plans at one point the one tried earlier is called
  again no later.

`LeadLifecycle_proofs`
- `JourneyInvariant`: `[]JourneyInv`. The safety properties are not inductive one
  by one: a panel's version protects what it shows only if the row exists
  (`PanelsCurrent`: otherwise `ensureState` would create it under the panel), an
  action is announced once only if what has been announced is past and not
  scheduled again (`Noticed`), and the list the job announces from must name
  marked actions (`ToldMarked`). `NextShape` reduces the twenty actions of `Next`
  to the few shapes in which rows change (a journey is planned anew, closed,
  goes on), and the invariant and all later theorems argue by shapes.
- `TypeCorrect`, `OneNextActionHolds`, `RetryPlanSoundHolds`,
  `VersionProtectsHolds` follow from it; `HistoryKeptHolds`, `PendingOnceHolds`
  and `HeldByRetryHolds` are action properties by the shapes.
- `JourneyImplements`: `Spec => Journey`; each shape maps to steps of
  `LeadJourney` or to a stutter.

`SheetSync_proofs`
- `TypeCorrect`: `TypeInv` says what a worker holds in each phase.
- `OneSyncHolds`: by `LockInv`, whoever is inside holds the database's lock.
- `NoEditForgottenHolds`: by cases of who touches the queue. It speaks of reading
  only: that what was read reaches the sheet is not claimed, nor is it true of a push
  that the lock refuses.
- `CrmPrevailsHolds`: by `SyncInv`. No stamp is newer than the newest, and a lead's own
  is the newest unless its last write was late (`StampSound`). A row state never knows more of a lead than a
  worker has read (`SnapSound`), a CRM value that differs from what was pushed is
  newer than the row state or was late (`SeenSound`, `RecordSound` for the moment between a
  pull's two updates), and as long as nobody has typed and nothing has failed,
  sheet and row states differ only while a push is saving them (`SheetSound`).

All safety properties of the passing runs are proved, and the three abstract
specifications of safety in full. `ClosedNewUnrecorded`,
`OnlyAttemptsLoseFollowup`, `CapByCurrentCount` and `OnlyRotationUncounted` are
theorems, not properties of runs: TLC has found no violation of them on the
instances above. Model-checked only: the
liveness properties (`DueLeadsAge`, `AssignedLeadsEnrol`, `Settles`,
`DailyRunUndisturbed`, `NextActionComes`, `LatenessNoticed`, `OverdueAnnounced`,
`OwnerFollows`, `LockFreed`), which are out of the prover's reach. No module uses a
RECURSIVE operator.

## 5. Not modelled

- Pools of managers and partner requests (`routes/index.js`): they take leads
  without the locks and checks that `LeadAssignment`'s properties rest on; see
  the hazards.
- Of Lifecycle V2: `repairLegacyMeetingDeadlines`, which repairs rows of older
  releases (it sets `scheduled_at` to NULL in a column that is NOT NULL), settings,
  the pilot's switch, workspace queries; of the row locks only that commands
  exclude each other, so not the order in which job and commands take them.
- Times inside the state machines: deadlines and retry times are small numbers or
  bits there; `DeadlinePolicies` has the computations.
- Of Google Sheets: connecting, setting up tabs, settings, the import of sheets,
  leads that move between tabs or between sheets, and rows the user sorts or
  deletes while a push is between reading row numbers and writing.
- Meta synchronisation, meetings, Wasp, chat, authentication, notifications,
  tickets: not begun. They claim rows by single statements, and their other side
  is an outside service.
- Reports, read-only queries, the frontend, deployment, delivery by outside
  services and the SQL of single-statement handlers: they have no protocol to
  check.

`PROJECT.json` gives the reason for each part. About two thirds of the repository's
lines are the frontend, reports and read queries, so the modules, which follow the
concurrent core of the backend, stand for a small share of its lines.

## 6. Plan

Done: `CounselorWorkflow` with `LeadQueue`, `LeadAssignment` with
`LeadAllocation`, `DistributionScheduler`, `LeadLifecycle` with `CallAttempts` and
`LeadJourney`, `DeadlinePolicies`, `SheetSync`, each with proofs. Left, in the order
of their weight:

1. The further takers of leads as actions of `LeadAssignment`, with what they
   break as findings.
2. The order of row locks in lifecycle commands and deadline job.
3. An abstract specification of `SheetSync`, in which pushes and pulls are single
   steps, and of the scheduler's day.
4. Meta synchronisation (one person by webhook and pull), meeting reminders,
   one-time codes.
