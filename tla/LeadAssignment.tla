---------------------------- MODULE LeadAssignment ----------------------------
(***************************************************************************)
(* Who gets a lead (services/leadAssignmentEngine.js): the automatic       *)
(* distribution, the fulfilment of approved lead requests, the strict      *)
(* rotation over pending requests (services/requestDistributionEngine.js)  *)
(* and the managers' assignment, reassignment and unassignment.            *)
(*                                                                         *)
(* The distributing operations are database transactions of several        *)
(* statements.  What such a session has locked and what it is about to     *)
(* write is its own until it commits: rows and leads are locked by         *)
(* SELECT ... FOR UPDATE SKIP LOCKED, every other writer waits for the     *)
(* lock, every other reader sees the committed value.  An operation whose  *)
(* first statement takes the only lock it needs is one step.  The UPDATE   *)
(* of a lead repeats "assigned_to_user_id IS NULL", which under the lock   *)
(* never fails.                                                            *)
(*                                                                         *)
(* Every lead of the model is assignable (not closed, not locked by a      *)
(* caller), assigned today and not worked, the settings switch both the    *)
(* distribution and the fulfilment on, and the ORDER BY of a query is any  *)
(* order.                                                                  *)
(***************************************************************************)
EXTENDS Integers, Sequences, FiniteSets, SequencesExt

CONSTANTS
  Leads, Members, NoUser,
  Pooled,         \* leads in the pool of a relationship manager (pool_rm_id)
  Requests, NoRequest,
  Requester,      \* the user of each request
  Quantity,       \* the quantity it asks for
  Fits,           \* the leads of its category, all if it names none
  Approvable,     \* quantities an administrator may approve
  Cap, Weight,    \* daily_lead_cap (0: none) and distribution_weight
  Sessions,       \* transactions that may run at a time
  Timer,          \* the one of them that the scheduler starts
  Limits,         \* limits a run may be started with
  Limit,          \* the limit of the scheduler
  MaxRounds,      \* rounds after which a rotation gives up
  Unreliable      \* members whose availability changes

ASSUME UserAssumption == NoUser \notin Members /\ NoRequest \notin Requests
ASSUME RequestAssumption ==
  /\ Pooled \subseteq Leads
  /\ Requester \in [Requests -> Members]
  /\ Quantity \in [Requests -> Nat \ {0}]
  /\ Fits \in [Requests -> SUBSET Leads]
  /\ Approvable \subseteq Nat \ {0}
  /\ Cap \in [Members -> Nat] /\ Weight \in [Members -> Nat \ {0}]
ASSUME RunAssumption ==
  /\ Timer \in Sessions /\ Limit \in Limits /\ Limits \subseteq Nat \ {0}
  /\ MaxRounds \in Nat /\ Unreliable \subseteq Members
  /\ IsFiniteSet(Leads) /\ IsFiniteSet(Requests)

VARIABLES
  owner,      \* leads.assigned_to_user_id
  rows,       \* users of the open rows of lead_assignments of each lead, oldest first
  delivered,  \* number of rows inserted for each request, by fulfilment and rotation
  request,    \* lead_requests
  available,  \* members that may be assigned leads
  session     \* the running transactions

vars == <<owner, rows, delivered, request, available, session>>

Statuses == {"none", "pending", "approved", "partially_fulfilled", "fulfilled", "closed"}

RequestRow == [status : Statuses, approved : Nat,
               fulfilled : Nat,   \* fulfilled_quantity
               done : Nat]        \* leads_assigned
Delivery == [fulfilment : Nat, rotation : Nat]
\* A grant without a request is one of the automatic distribution.
Grant == [user : Members, request : Requests \cup {NoRequest}]

Runs == {"idle", "requests", "share", "rotate"}
IsPartial(f, S, T) == DOMAIN f \subseteq S /\ f \in [DOMAIN f -> T]

IsSession(x) ==
  /\ x.run \in Runs /\ x.auto \in BOOLEAN
  /\ IsPartial(x.seen, Requests, RequestRow)  \* requests locked, as they were read
  /\ x.todo \subseteq Requests               \* of which are to be served
  /\ x.marked \subseteq Requests             \* of which have been served
  /\ x.left \in Nat                          \* of the limit
  /\ IsPartial(x.load, Members, Nat)         \* members that may get leads, today_count
  /\ x.scanned \subseteq Leads               \* leads locked, not yet given
  /\ IsPartial(x.taken, Leads, Grant)        \* leads locked and given
  /\ x.queue \in Seq(Requests)              \* of a rotation: requests that need leads,
  /\ x.turn \in Nat                         \*   the index of the one in turn,
  /\ x.progress \in BOOLEAN                 \*   progressThisRound,
  /\ x.rotations \in Nat                    \*   rounds completed,
  /\ x.missed \in [Requests -> Nat]         \*   turns that found no lead

Nothing == [x \in {} |-> x]
Idle == [run |-> "idle", auto |-> FALSE, seen |-> Nothing, todo |-> {}, marked |-> {},
         left |-> 0, load |-> Nothing, scanned |-> {}, taken |-> Nothing,
         queue |-> <<>>, turn |-> 1, progress |-> FALSE, rotations |-> 0,
         missed |-> [r \in Requests |-> 0]]

TypeOK ==
  /\ owner \in [Leads -> Members \cup {NoUser}]
  /\ rows \in [Leads -> Seq(Members)]
  /\ delivered \in [Requests -> Delivery]
  /\ request \in [Requests -> RequestRow]
  /\ available \subseteq Members
  /\ \A s \in Sessions : IsSession(session[s])

-----------------------------------------------------------------------------
(* Locks and choices. *)

\* Mutant: the leads of a run are locked only once they are given.
LockedLate(l) == \E s \in Sessions : l \in DOMAIN session[s].taken
Locked(l) == \E s \in Sessions : l \in session[s].scanned \cup DOMAIN session[s].taken
Held(r) == \E s \in Sessions : r \in DOMAIN session[s].seen

Least(a, b) == IF a < b THEN a ELSE b

\* The answers of a query over S with LIMIT n.
Picks(S, n) == {P \in SUBSET S : Cardinality(P) = Least(n, Cardinality(S))}

\* pickAssignableLeads; the rotation does not look at the pools.
Assignable == {l \in Leads \ Pooled : owner[l] = NoUser /\ ~Locked(l)}
Unowned == {l \in Leads : owner[l] = NoUser /\ ~Locked(l)}

OwnedBy(m) == {l \in Leads : owner[l] = m}
Given(s, r) == {l \in DOMAIN session[s].taken : session[s].taken[l].request = r}
Shared(s, m) == {l \in DOMAIN session[s].taken :
                   session[s].taken[l] = [user |-> m, request |-> NoRequest]}
GrantedTo(s, m) == {l \in DOMAIN session[s].taken : session[s].taken[l].user = m}

Open(q) ==
  q.status \in {"approved", "partially_fulfilled"} /\ q.approved > q.fulfilled

GrantFor(r) == [user |-> Requester[r], request |-> r]
Extend(f, S, g) == [x \in DOMAIN f \cup S |-> IF x \in S THEN g ELSE f[x]]

-----------------------------------------------------------------------------
(* Requests of members and their approval. *)

Init ==
  /\ owner = [l \in Leads |-> NoUser]
  /\ rows = [l \in Leads |-> <<>>]
  /\ delivered = [r \in Requests |-> [fulfilment |-> 0, rotation |-> 0]]
  /\ request = [r \in Requests |-> [status |-> "none", approved |-> 0, fulfilled |-> 0, done |-> 0]]
  /\ available = Members
  /\ session = [s \in Sessions |-> Idle]

\* POST /lead-requests.  Its checks for another pending request and for unworked
\* leads are queries before the INSERT; concurrent submissions may pass them.
Submit(r) ==
  /\ request[r].status = "none" /\ Requester[r] \in available
  /\ request' = [request EXCEPT ![r].status = "pending"]
  /\ UNCHANGED <<owner, rows, delivered, available, session>>

\* approveLeadRequest; the fulfilment it then starts is a BeginRun.
Approve(r) ==
  /\ request[r].status = "pending" /\ ~Held(r)
  /\ \E q \in Approvable :
       request' = [request EXCEPT ![r].status = "approved", ![r].approved = q]
  /\ UNCHANGED <<owner, rows, delivered, available, session>>

Resolve(r) ==  \* POST /lead-requests/:id/reject, DELETE /lead-requests/:id
  /\ request[r].status = "pending" /\ ~Held(r)
  /\ request' = [request EXCEPT ![r].status = "closed"]
  /\ UNCHANGED <<owner, rows, delivered, available, session>>

SetAvailable(m) ==
  /\ m \in Unreliable
  /\ available' = IF m \in available THEN available \ {m} ELSE available \cup {m}
  /\ UNCHANGED <<owner, rows, delivered, request, session>>

-----------------------------------------------------------------------------
(* fulfillApprovedRequestsInTransaction, alone or as the first part of        *)
(* runAutoAssignment.                                                        *)

\* Mutant: the requests are read without a lock.
LockableUnlocked == {r \in Requests : Open(request[r])}
Lockable == {r \in Requests : Open(request[r]) /\ ~Held(r)}

BeginRun(s, limit, auto) ==
  /\ session[s].run = "idle"
  /\ \E R \in Picks(Lockable, limit) :
       session' = [session EXCEPT ![s] =
         [Idle EXCEPT !.run = "requests", !.auto = auto, !.left = limit,
                      !.seen = [r \in R |-> request[r]],
                      !.todo = {r \in R : Requester[r] \in available}]]
  /\ UNCHANGED <<owner, rows, delivered, request, available>>

\* Mutant: the limit of the run is ignored.
NeedUnlimited(s, r) == session[s].seen[r].approved - session[s].seen[r].fulfilled
Need(s, r) ==
  Least(session[s].seen[r].approved - session[s].seen[r].fulfilled, session[s].left)

ServeRequest(s, r) ==
  /\ session[s].run = "requests" /\ r \in session[s].todo /\ session[s].left > 0
  /\ \E P \in Picks(Assignable \cap Fits[r], Need(s, r)) :
       session' = [session EXCEPT
         ![s].todo = @ \ {r},
         ![s].marked = @ \cup {r},
         ![s].left = @ - Cardinality(P),
         ![s].taken = Extend(@, P, GrantFor(r))]
  /\ UNCHANGED <<owner, rows, delivered, request, available>>

Served(s) == session[s].run = "requests" /\ (session[s].todo = {} \/ session[s].left = 0)

-----------------------------------------------------------------------------
(* The rest of runAutoAssignment: the members and their load are read once,  *)
(* and the leads are dealt out by the load including this run's.             *)

Load(s, m) == Cardinality(OwnedBy(m)) + Cardinality(GrantedTo(s, m))
UnderCap(m, n) == Cap[m] = 0 \/ n < Cap[m]

ReadMembers(s) ==
  /\ Served(s) /\ session[s].auto
  /\ LET M == {m \in available : UnderCap(m, Load(s, m))} IN
     \E P \in Picks(Assignable, IF M = {} THEN 0 ELSE session[s].left) :
       session' = [session EXCEPT ![s].run = "share",
                                  ![s].load = [m \in M |-> Load(s, m)],
                                  ![s].scanned = P]
  /\ UNCHANGED <<owner, rows, delivered, request, available>>

InRun(s, m) == Cardinality(Shared(s, m))
Today(s, m) == session[s].load[m] + InRun(s, m)
Eligible(s) == {m \in DOMAIN session[s].load : UnderCap(m, Today(s, m))}

\* compareMemberDistributionLoad; pending_count equals today_count here.
Lighter(s, m, n) ==
  LET run == InRun(s, m) * Weight[n] - InRun(s, n) * Weight[m]
      today == Today(s, m) * Weight[n] - Today(s, n) * Weight[m]
  IN run < 0 \/ (run = 0 /\ today < 0)

\* Mutant: the first member with capacity left.
PickMemberFirst(s) == Eligible(s)
\* pickBalancedMember; ties go around by rr_state, whose row lock is left out: it
\* can only make one run wait for another.
PickMember(s) == {m \in Eligible(s) : \A n \in Eligible(s) : ~Lighter(s, n, m)}

ShareLead(s, l, m) ==
  /\ session[s].run = "share" /\ l \in session[s].scanned /\ m \in PickMember(s)
  /\ session' = [session EXCEPT
       ![s].scanned = @ \ {l},
       ![s].taken = Extend(@, {l}, [user |-> m, request |-> NoRequest])]
  /\ UNCHANGED <<owner, rows, delivered, request, available>>

-----------------------------------------------------------------------------
(* distributeRoundRobin: round after round, each request in the queue has a  *)
(* turn, and one lead if there is one for it that nobody has locked.         *)

\* Mutant: approved requests take part, too.
RotatingApproved ==
  {r \in Requests : request[r].status \in {"pending", "approved"} /\ Requester[r] \in available}
Rotating == {r \in Requests : request[r].status = "pending" /\ Requester[r] \in available}

BeginRotation(s) ==
  /\ session[s].run = "idle"
  /\ Rotating # {} /\ \A r \in Rotating : ~Held(r)
  /\ \E q \in SetToSeqs({r \in Rotating : request[r].done < Quantity[r]}) :
       session' = [session EXCEPT ![s] =
         [Idle EXCEPT !.run = "rotate", !.seen = [r \in Rotating |-> request[r]],
                      !.queue = q]]
  /\ UNCHANGED <<owner, rows, delivered, request, available>>

InTurn(s, r) ==
  /\ session[s].run = "rotate" /\ session[s].turn \in DOMAIN session[s].queue
  /\ r = session[s].queue[session[s].turn]

Filled(s, r) == session[s].seen[r].done + Cardinality(Given(s, r)) + 1 = Quantity[r]

\* Mutant: the index moves on although the next request has slid into its place.
TurnAfterSplice(i, filled) == i + 1
TurnAfter(i, filled) == IF filled THEN i ELSE i + 1

Rotate(s, r, l) ==
  /\ InTurn(s, r) /\ l \in Unowned \cap Fits[r]
  /\ session' = [session EXCEPT
       ![s].taken = Extend(@, {l}, GrantFor(r)),
       ![s].queue = IF Filled(s, r) THEN RemoveAt(@, session[s].turn) ELSE @,
       ![s].turn = TurnAfter(@, Filled(s, r)),
       ![s].progress = TRUE]
  /\ UNCHANGED <<owner, rows, delivered, request, available>>

\* No lead of its category is free, or other transactions have locked them: i++.
PassOver(s, r) ==
  /\ InTurn(s, r) /\ Unowned \cap Fits[r] = {}
  /\ session' = [session EXCEPT ![s].turn = @ + 1, ![s].missed[r] = @ + 1]
  /\ UNCHANGED <<owner, rows, delivered, request, available>>

RoundOver(s) == session[s].run = "rotate" /\ session[s].turn > Len(session[s].queue)
GivesUp(s) == ~session[s].progress \/ session[s].rotations + 1 > MaxRounds

NextRound(s) ==
  /\ RoundOver(s) /\ session[s].queue # <<>> /\ ~GivesUp(s)
  /\ session' = [session EXCEPT ![s].turn = 1, ![s].progress = FALSE, ![s].rotations = @ + 1]
  /\ UNCHANGED <<owner, rows, delivered, request, available>>

-----------------------------------------------------------------------------
(* The end of a transaction. *)

Finished(s) ==
  \/ Served(s) /\ ~session[s].auto
  \/ session[s].run = "share" /\ (session[s].scanned = {} \/ Eligible(s) = {})
  \/ RoundOver(s) /\ (session[s].queue = <<>> \/ GivesUp(s))

\* markRequestAfterFulfillment
Marked(q, n) ==
  [q EXCEPT !.fulfilled = q.fulfilled + n, !.done = q.fulfilled + n,
            !.status = IF q.fulfilled + n >= q.approved THEN "fulfilled"
                       ELSE IF q.fulfilled + n > 0 THEN "partially_fulfilled" ELSE "approved"]

Rotated(r, q, n) ==
  [q EXCEPT !.done = q.done + n,
            !.status = IF q.done + n = Quantity[r] THEN "fulfilled" ELSE q.status]

Written(s, r) ==
  LET q == session[s].seen[r]
      n == Cardinality(Given(s, r))
  IN IF r \in session[s].marked THEN Marked(q, n)
     ELSE IF session[s].run = "rotate" /\ n > 0 THEN Rotated(r, q, n)
     ELSE request[r]

Counted(s, r) ==
  LET n == Cardinality(Given(s, r)) IN
  IF session[s].run = "rotate" THEN [delivered[r] EXCEPT !.rotation = @ + n]
  ELSE [delivered[r] EXCEPT !.fulfilment = @ + n]

Commit(s) ==
  /\ Finished(s)
  /\ owner' = [l \in Leads |-> IF l \in DOMAIN session[s].taken
                               THEN session[s].taken[l].user ELSE owner[l]]
  /\ rows' = [l \in Leads |-> IF l \in DOMAIN session[s].taken
                              THEN Append(rows[l], session[s].taken[l].user) ELSE rows[l]]
  /\ delivered' = [r \in Requests |-> Counted(s, r)]
  /\ request' = [r \in Requests |-> IF r \in DOMAIN session[s].seen
                                    THEN Written(s, r) ELSE request[r]]
  /\ session' = [session EXCEPT ![s] = Idle]
  /\ UNCHANGED available

\* A statement fails, the connection is lost or the process dies.
Rollback(s) ==
  /\ session[s].run # "idle"
  /\ session' = [session EXCEPT ![s] = Idle]
  /\ UNCHANGED <<owner, rows, delivered, request, available>>

-----------------------------------------------------------------------------
(* assignLeadToMember, assignLeadsBulk, runAutoReassignment and the bulk     *)
(* action "unassign".  The open rows of the lead are closed first.           *)

Assign(l, m) ==
  /\ m \in available /\ owner[l] = NoUser /\ ~Locked(l)
  /\ owner' = [owner EXCEPT ![l] = m]
  /\ rows' = [rows EXCEPT ![l] = <<m>>]
  /\ UNCHANGED <<delivered, request, available, session>>

Reassign(l, m) ==
  /\ m \in available /\ ~Locked(l)
  /\ owner' = [owner EXCEPT ![l] = m]
  /\ rows' = [rows EXCEPT ![l] = <<m>>]
  /\ UNCHANGED <<delivered, request, available, session>>

\* The candidates are read before the leads and checked no more: each member has
\* been available and within the cap at some time, and may still be a candidate.
AutoReassign(f) ==
  /\ DOMAIN f # {}
  /\ \A l \in DOMAIN f : owner[l] # NoUser /\ ~Locked(l) /\ f[l] # owner[l]
  /\ owner' = [l \in Leads |-> IF l \in DOMAIN f THEN f[l] ELSE owner[l]]
  /\ rows' = [l \in Leads |-> IF l \in DOMAIN f THEN <<f[l]>>
                              ELSE rows[l]]
  /\ UNCHANGED <<delivered, request, available, session>>

\* Mutant: the row of the assignment stays open.
UnassignKeepRow(l) ==
  /\ owner[l] # NoUser /\ ~Locked(l)
  /\ owner' = [owner EXCEPT ![l] = NoUser]
  /\ UNCHANGED <<rows, delivered, request, available, session>>

Unassign(l) ==
  /\ owner[l] # NoUser /\ ~Locked(l)
  /\ owner' = [owner EXCEPT ![l] = NoUser]
  /\ rows' = [rows EXCEPT ![l] = <<>>]
  /\ UNCHANGED <<delivered, request, available, session>>

-----------------------------------------------------------------------------

Step(s) ==
  \/ \E r \in Requests : ServeRequest(s, r)
  \/ ReadMembers(s)
  \/ \E l \in Leads, m \in Members : ShareLead(s, l, m)
  \/ \E r \in Requests, l \in Leads : Rotate(s, r, l)
  \/ \E r \in Requests : PassOver(s, r)
  \/ NextRound(s)
  \/ Commit(s)

Begin(s) ==
  IF s = Timer THEN BeginRun(s, Limit, TRUE)
  ELSE \/ \E limit \in Limits, auto \in BOOLEAN : BeginRun(s, limit, auto)
       \/ BeginRotation(s)

Client ==
  \/ \E r \in Requests : Submit(r) \/ Approve(r) \/ Resolve(r)
  \/ \E m \in Members : SetAvailable(m)

Manager ==
  \/ \E l \in Leads, m \in Members : Assign(l, m) \/ Reassign(l, m)
  \/ \E D \in SUBSET Leads : \E f \in [D -> Members] : AutoReassign(f)
  \/ \E l \in Leads : Unassign(l)

Next ==
  \/ Client \/ Manager
  \/ \E s \in Sessions : Begin(s) \/ Step(s) \/ Rollback(s)

Spec == Init /\ [][Next]_vars

-----------------------------------------------------------------------------
(* Properties. *)

\* A request's fulfilled_quantity is the number of leads the fulfilment has
\* delivered for it, however runs overlap or fail; it never exceeds the approved
\* quantity, and the status says how far it is (markRequestAfterFulfillment).
FulfilmentCounts ==
  \A r \in Requests :
    LET q == request[r] IN
    /\ q.fulfilled = delivered[r].fulfilment
    /\ q.fulfilled <= q.approved
    /\ q.status = "partially_fulfilled" => q.fulfilled \in 1..(q.approved - 1)

\* A lead with an owner has one open row in lead_assignments and that names the
\* owner, a lead without one has none: assignment history and lead agree.
OpenRowNamesOwner ==
  \A l \in Leads :
    rows[l] = IF owner[l] = NoUser THEN <<>> ELSE <<owner[l]>>

\* What a transaction has taken stays free until it gives it away: distribution,
\* fulfilment and rotation never take a lead over that another one, or a manager,
\* has given in the meantime.
NoTakeover ==
  [][\A s \in Sessions : \A l \in DOMAIN session[s].taken :
       owner'[l] # owner[l] =>
         owner[l] = NoUser /\ owner'[l] = session[s].taken[l].user]_vars

\* "STRICT round-robin": a request that still needs leads has had one turn in every
\* round, however many requests are filled and taken out of the queue before it, and
\* none has had two turns in one.  So a request is ahead of one that still waits by one
\* lead at most, and by those turns of the latter that found no lead to be had.
Turns(s, r) == Cardinality(Given(s, r)) + session[s].missed[r]
StrictRotation ==
  \A s \in Sessions : session[s].run = "rotate" =>
    /\ \A i \in DOMAIN session[s].queue :
         session[s].rotations <= Turns(s, session[s].queue[i])
    /\ \A r \in DOMAIN session[s].seen : Turns(s, r) <= session[s].rotations + 1

\* Within a run of the distribution a member that may still get leads is at most
\* one share behind any other, by weight (compareMemberDistributionLoad).
FairShares ==
  \A s \in Sessions : session[s].run = "share" =>
    \A m \in Eligible(s), n \in DOMAIN session[s].load :
      (InRun(s, n) - 1) * Weight[m] <= InRun(s, m) * Weight[n]

\* The abstract allocation of LeadAllocation.
Promised == [r \in Requests |-> request[r].approved]
Received == [r \in Requests |-> request[r].fulfilled]
Dealt == [r \in Requests |-> delivered[r].rotation]
Round == [s \in Sessions |-> IF session[s].run = "rotate" THEN DOMAIN session[s].seen ELSE {}]

Allocation == INSTANCE LeadAllocation WITH
  Amounts <- Approvable, Rounds <- Sessions,
  promised <- Promised, received <- Received, dealt <- Dealt, round <- Round

\* However transactions overlap, fail and work from what they have read: each one
\* that commits is one hand-out of free leads, within what requests are owed when
\* it commits.
AllocationSpec == Allocation!Spec

\* "This is a hard blocker. Auto distribution will stop assigning new leads to
\* this member after the daily cap is reached."
HardCap ==
  [][\A s \in Sessions, l \in Leads, m \in Members :
       (Cap[m] # 0 /\ l \in Shared(s, m) /\ owner'[l] # owner[l])
       => Cardinality({k \in Leads : owner'[k] = m}) <= Cap[m]]_vars

\* The reason why it does not hold, and the only one: the run's count of the member's
\* leads (memberEffectiveTodayCount) has fallen behind.
CapByCurrentCount ==
  [][\A s \in Sessions, l \in Leads, m \in Members :
       /\ Cap[m] # 0 /\ l \in Shared(s, m) /\ owner'[l] # owner[l]
       /\ Load(s, m) <= Today(s, m)
       => Cardinality({k \in Leads : owner'[k] = m}) <= Cap[m]]_vars

\* leads_assigned: "how many leads were actually assigned".
LeadsAssignedCounts ==
  \A r \in Requests :
    request[r].done = delivered[r].fulfilment + delivered[r].rotation

\* What is lost, and when: all that the rotation delivered, once the request has been
\* approved after it; nothing is ever counted twice.
OnlyRotationUncounted ==
  \A r \in Requests :
    LET d == delivered[r] IN
    request[r].done # d.fulfilment + d.rotation =>
      request[r].done = d.fulfilment /\ d.rotation > 0 /\ request[r].approved > 0
==============================================================================
