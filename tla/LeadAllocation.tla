---------------------------- MODULE LeadAllocation ----------------------------
(***************************************************************************)
(* What the assignment of leads promises, without transactions, locks or   *)
(* what one of them has read: leads are given away all at once, out of     *)
(* those that are free at that moment, and what a request gets is within   *)
(* what it is still owed at that moment.                                   *)
(***************************************************************************)
EXTENDS Integers, FiniteSets

CONSTANTS
  Leads, Members, NoUser,
  Pooled,      \* leads kept for somebody, which no distribution gives away
  Requests, NoRequest, Requester,
  Quantity,    \* what a request asks for
  Amounts,     \* what it may be promised
  Rounds       \* rotations that may be under way

VARIABLES
  owner,       \* who has the lead
  promised,    \* what the request was promised when it was approved, 0 before
  received,    \* what it has got of that
  dealt,       \* what rotations gave it while it was waiting for approval
  round        \* the requests that a rotation serves, {} if there is none

vars == <<owner, promised, received, dealt, round>>

Free == {l \in Leads : owner[l] = NoUser}
Turning == UNION {round[s] : s \in Rounds}

\* A hand-out gives lead l to the member to[l] on account of the request for[l],
\* if any.
HandOut(to) == owner' = [l \in Leads |-> IF l \in DOMAIN to THEN to[l] ELSE owner[l]]

Addressed(to, for) ==
  \A l \in DOMAIN for : for[l] # NoRequest => to[l] = Requester[for[l]]

Part(for, r) == {l \in DOMAIN for : for[l] = r}
Size(for, r) == Cardinality(Part(for, r))

Init ==
  /\ owner = [l \in Leads |-> NoUser]
  /\ promised = [r \in Requests |-> 0]
  /\ received = [r \in Requests |-> 0]
  /\ dealt = [r \in Requests |-> 0]
  /\ round = [s \in Rounds |-> {}]

\* A request is promised something once, and not while a rotation serves it.
Promise(r, n) ==
  /\ promised[r] = 0 /\ r \notin Turning
  /\ promised' = [promised EXCEPT ![r] = n]
  /\ UNCHANGED <<owner, received, dealt, round>>

\* Distribution and fulfilment: no lead of a pool, and no more than is owed.
Distribute(to, for) ==
  /\ DOMAIN for \cap Pooled = {}
  /\ Addressed(to, for)
  /\ \A r \in Requests : Part(for, r) # {} => received[r] + Size(for, r) <= promised[r]
  /\ received' = [r \in Requests |-> received[r] + Size(for, r)]
  /\ UNCHANGED <<promised, dealt, round>>

\* A rotation takes on requests that have been promised nothing; it may fail.
Open(s, R) ==
  /\ round[s] = {} /\ R \cap Turning = {}
  /\ \A r \in R : promised[r] = 0
  /\ round' = [round EXCEPT ![s] = R]
  /\ UNCHANGED <<owner, promised, received, dealt>>

Abandon(s) ==
  /\ round' = [round EXCEPT ![s] = {}]
  /\ UNCHANGED <<owner, promised, received, dealt>>

\* When it ends, none of its requests has got more than it asks for.
Rotate(s, to, for) ==
  /\ for \in [DOMAIN for -> round[s]]
  /\ Addressed(to, for)
  /\ \A r \in round[s] : Part(for, r) # {} => dealt[r] + Size(for, r) <= Quantity[r]
  /\ dealt' = [r \in Requests |-> dealt[r] + Size(for, r)]
  /\ round' = [round EXCEPT ![s] = {}]
  /\ UNCHANGED <<promised, received>>

\* Managers assign leads, move them and take them back, one or many.
Manage(to) ==
  /\ HandOut(to)
  /\ UNCHANGED <<promised, received, dealt, round>>

Next ==
  \/ \E D \in SUBSET Leads : \E to \in [D -> Members \cup {NoUser}] : Manage(to)
  \/ \E r \in Requests, n \in Amounts : Promise(r, n)
  \/ \E s \in Rounds : Abandon(s) \/ \E R \in SUBSET Requests : Open(s, R)
  \/ \E D \in SUBSET Free : \E to \in [D -> Members] :
       /\ HandOut(to)
       /\ \E for \in [D -> Requests \cup {NoRequest}] :
            Distribute(to, for) \/ \E s \in Rounds : Rotate(s, to, for)

Spec == Init /\ [][Next]_vars

\* No request gets more than it was promised, nor more than it asked for before it
\* was promised anything, and a rotation serves no request that was.
WithinPromise ==
  /\ \A r \in Requests : received[r] <= promised[r] /\ dealt[r] <= Quantity[r]
  /\ \A r \in Turning : promised[r] = 0
=============================================================================
