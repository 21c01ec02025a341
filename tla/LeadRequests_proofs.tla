------------------------- MODULE LeadRequests_proofs -------------------------
(***************************************************************************)
(* The counts of LeadAssignment, for every value of the constants: what a  *)
(* request has been given, and what a run gives to whom.                   *)
(***************************************************************************)
EXTENDS LeadAssignment_proofs

\* What a transaction knows of the requests it has locked stays true, and what it
\* is about to give them is within what they still need.
SessionInv(s) ==
  LET x == session[s] IN
  /\ x.scanned \cap DOMAIN x.taken = {}
  /\ x.marked \subseteq DOMAIN x.seen \ x.todo
  /\ \A r \in DOMAIN x.seen : x.seen[r] = request[r]
  /\ x.run = "rotate" =>
       x.marked = {} /\ \A r \in DOMAIN x.seen : request[r].status = "pending"
  /\ x.run # "rotate" =>
       /\ \A r \in DOMAIN x.seen : Open(request[r])
       /\ \A r \in Requests : Given(s, r) # {} => r \in x.marked
       /\ \A r \in DOMAIN x.seen :
            Cardinality(Given(s, r)) <= request[r].approved - request[r].fulfilled

SeenApart ==
  \A s, t \in Sessions : s # t => DOMAIN session[s].seen \cap DOMAIN session[t].seen = {}

RequestsInv ==
  /\ FulfilmentCounts
  /\ \A r \in Requests : request[r].status \in {"none", "pending"} => request[r].fulfilled = 0
  /\ \A s \in Sessions : SessionInv(s)
  /\ SeenApart

-----------------------------------------------------------------------------

\* What a session gives to a request, when it takes the leads P for g.
LEMMA GivenExtend ==
  ASSUME NEW s, NEW P, NEW g,
         session'[s].taken = Extend(session[s].taken, P, g)
  PROVE  \A q : Given(s, q)' = IF q = g.request THEN Given(s, q) \cup P ELSE Given(s, q) \ P
<1>. SUFFICES ASSUME NEW q
              PROVE  Given(s, q)' = IF q = g.request THEN Given(s, q) \cup P ELSE Given(s, q) \ P
  OBVIOUS
<1>1. Given(s, q)' = {l \in DOMAIN session'[s].taken : session'[s].taken[l].request = q}
  BY DEF Given
<1>2. /\ DOMAIN session'[s].taken = DOMAIN session[s].taken \cup P
      /\ \A l \in DOMAIN session'[s].taken :
           session'[s].taken[l] = IF l \in P THEN g ELSE session[s].taken[l]
  BY DEF Extend
<1>. QED BY <1>1, <1>2 DEF Given

\* The sets of leads of a session are finite.
LEMMA GivenFinite ==
  ASSUME TypeInv, NEW s \in Sessions
  PROVE  /\ Mine(s) \subseteq Leads
         /\ \A S : S \subseteq Mine(s) => IsFiniteSet(S) /\ Cardinality(S) \in Nat
         /\ \A r : Given(s, r) \subseteq Mine(s)
         /\ \A m : Shared(s, m) \subseteq Mine(s)
<1>1. Mine(s) \subseteq Leads
  BY PartialElim DEF TypeInv, SessionRow, Mine
<1>2. \A S : S \subseteq Leads => IsFiniteSet(S) /\ Cardinality(S) \in Nat
  BY RunAssumption, FS_Subset, FS_CardinalityType
<1>. QED BY <1>1, <1>2 DEF Given, Shared, Mine

-----------------------------------------------------------------------------
(* Steps of a session before its commit. *)

\* It changes itself, keeps its own invariant and locks no request of another.
Works(s) ==
  /\ UNCHANGED <<request, delivered>>
  /\ \A t \in Sessions \ {s} : session'[t] = session[t]
  /\ SessionInv(s)'
  /\ \A t \in Sessions \ {s} : DOMAIN session'[s].seen \cap DOMAIN session[t].seen = {}

LEMMA WorksInv ==
  ASSUME RequestsInv, NEW s \in Sessions, Works(s)
  PROVE  RequestsInv'
<1>1. \A t \in Sessions \ {s} : SessionInv(t)'
  <2>. SUFFICES ASSUME NEW t \in Sessions \ {s} PROVE SessionInv(t)'
    OBVIOUS
  <2>1. session'[t] = session[t] /\ request' = request /\ SessionInv(t)
    BY DEF Works, RequestsInv
  <2>2. \A r : Given(t, r)' = Given(t, r)
    BY <2>1 DEF Given
  <2>3. \A r : Open(request'[r]) <=> Open(request[r])
    BY <2>1
  <2>. QED BY <2>1, <2>2, <2>3 DEF SessionInv
<1>2. SeenApart'
  BY DEF Works, RequestsInv, SeenApart
<1>3. FulfilmentCounts'
  BY DEF Works, RequestsInv, FulfilmentCounts
<1>. QED BY <1>1, <1>2, <1>3 DEF Works, RequestsInv

\* A session that has given nothing yet.
LEMMA FreshInv ==
  ASSUME NEW s \in Sessions,
         session'[s].scanned = {}, session'[s].taken = Nothing, session'[s].marked = {},
         session'[s].todo \subseteq DOMAIN session'[s].seen,
         request' \in [Requests -> RequestRow], DOMAIN session'[s].seen \subseteq Requests,
         \A r \in DOMAIN session'[s].seen :
           /\ session'[s].seen[r] = request'[r]
           /\ IF session'[s].run = "rotate" THEN request'[r].status = "pending"
              ELSE Open(request'[r])
  PROVE  SessionInv(s)'
<1>1. \A r : Given(s, r)' = {}
  BY DEF Given, Nothing
<1>2. Cardinality({}) = 0
  BY FS_EmptySet
<1>3. \A r \in Requests : Open(request'[r]) => 0 <= request'[r].approved - request'[r].fulfilled
  BY DEF Open, RequestRow
<1>. QED BY <1>1, <1>2, <1>3 DEF SessionInv, Nothing

\* What a rotation starts with.
LEMMA BeginRotationIs ==
  ASSUME session \in [Sessions -> SessionRow], NEW s \in Sessions, BeginRotation(s)
  PROVE  /\ session'[s].scanned = {} /\ session'[s].taken = Nothing /\ session'[s].marked = {}
         /\ session'[s].seen = [r \in Rotating |-> request[r]] /\ session'[s].run = "rotate"
         /\ session'[s].todo = {} /\ session'[s].turn = 1 /\ session'[s].rotations = 0
         /\ session'[s].missed = [r \in Requests |-> 0]
         /\ session'[s].queue \in SetToSeqs({r \in Rotating : request[r].done < Quantity[r]})
         /\ \A t \in Sessions \ {s} : session'[t] = session[t]
<1>1. PICK q \in SetToSeqs({r \in Rotating : request[r].done < Quantity[r]}) :
        session' = [session EXCEPT ![s] =
          [Idle EXCEPT !.run = "rotate", !.seen = [r \in Rotating |-> request[r]],
                       !.queue = q]]
  BY DEF BeginRotation
<1>2. /\ session'[s] = [Idle EXCEPT !.run = "rotate", !.queue = q,
                                     !.seen = [r \in Rotating |-> request[r]]]
      /\ \A t \in Sessions \ {s} : session'[t] = session[t]
  BY <1>1
<1>. QED BY <1>2 DEF Idle

LEMMA BeginWorks ==
  ASSUME TypeInv, RequestsInv, NEW s \in Sessions, Begin(s) \/ Rollback(s)
  PROVE  Works(s)
<1>0. session \in [Sessions -> SessionRow] /\ request \in [Requests -> RequestRow]
  BY DEF TypeInv
<1>1. ASSUME NEW limit, NEW auto, BeginRun(s, limit, auto) PROVE Works(s)
  <2>1. PICK R \in Picks(Lockable, limit) :
          session' = [session EXCEPT ![s] =
            [Idle EXCEPT !.run = "requests", !.auto = auto, !.left = limit,
                         !.seen = [r \in R |-> request[r]],
                         !.todo = {r \in R : Requester[r] \in available}]]
    BY <1>1 DEF BeginRun
  <2>2. \A r \in R : r \in Requests /\ Open(request[r]) /\ ~Held(r)
    BY DEF Picks, Lockable
  <2>3. /\ session'[s].scanned = {} /\ session'[s].taken = Nothing /\ session'[s].marked = {}
        /\ session'[s].seen = [r \in R |-> request[r]] /\ session'[s].run = "requests"
        /\ session'[s].todo \subseteq R
    BY <1>0, <2>1 DEF Idle
  <2>4. UNCHANGED <<request, delivered>> /\ \A t \in Sessions \ {s} : session'[t] = session[t]
    BY <1>0, <1>1, <2>1 DEF BeginRun
  <2>5. SessionInv(s)'
    BY <1>0, <2>2, <2>3, <2>4, FreshInv
  <2>. QED BY <2>2, <2>3, <2>4, <2>5 DEF Works, Held
<1>2. CASE BeginRotation(s)
  <2>1. /\ session'[s].scanned = {} /\ session'[s].taken = Nothing /\ session'[s].marked = {}
        /\ session'[s].seen = [r \in Rotating |-> request[r]] /\ session'[s].run = "rotate"
        /\ session'[s].todo \subseteq Rotating
    BY <1>0, <1>2, BeginRotationIs
  <2>2. \A r \in Rotating : r \in Requests /\ request[r].status = "pending" /\ ~Held(r)
    BY <1>2 DEF BeginRotation, Rotating
  <2>3. UNCHANGED <<request, delivered>> /\ \A t \in Sessions \ {s} : session'[t] = session[t]
    BY <1>0, <1>2 DEF BeginRotation
  <2>4. SessionInv(s)'
    BY <1>0, <2>1, <2>2, <2>3, FreshInv
  <2>. QED BY <2>1, <2>2, <2>3, <2>4 DEF Works, Held
<1>3. CASE Rollback(s)
  <2>1. session'[s] = Idle /\ UNCHANGED <<request, delivered>>
    BY <1>0, <1>3 DEF Rollback
  <2>2. \A t \in Sessions \ {s} : session'[t] = session[t]
    BY <1>0, <1>3 DEF Rollback
  <2>3. /\ session'[s].scanned = {} /\ session'[s].taken = Nothing /\ session'[s].marked = {}
        /\ session'[s].todo = {} /\ DOMAIN session'[s].seen = {}
    BY <2>1 DEF Idle, Nothing
  <2>4. SessionInv(s)'
    BY <1>0, <2>1, <2>3, FreshInv
  <2>. QED BY <2>1, <2>2, <2>3, <2>4 DEF Works
<1>. QED BY <1>1, <1>2, <1>3 DEF Begin

\* A step that leaves the locked requests of its session alone.
SameSeen(s) ==
  /\ UNCHANGED <<request, delivered>>
  /\ \A t \in Sessions \ {s} : session'[t] = session[t]
  /\ session'[s].seen = session[s].seen

LEMMA SameSeenWorks ==
  ASSUME RequestsInv, NEW s \in Sessions, SameSeen(s), SessionInv(s)'
  PROVE  Works(s)
BY DEF SameSeen, Works, RequestsInv, SeenApart

LEMMA ServeRequestWorks ==
  ASSUME TypeInv, RequestsInv, NEW s \in Sessions, NEW r \in Requests, ServeRequest(s, r)
  PROVE  Works(s)
<1>. DEFINE x == session[s]
<1>0. x \in SessionRow /\ request \in [Requests -> RequestRow] /\ SessionInv(s)
  BY DEF TypeInv, RequestsInv
<1>1. PICK P \in Picks(Assignable \cap Fits[r], Need(s, r)) :
        session' = [session EXCEPT
          ![s].todo = @ \ {r}, ![s].marked = @ \cup {r},
          ![s].left = @ - Cardinality(P),
          ![s].taken = Extend(@, P, GrantFor(r))]
  BY DEF ServeRequest
<1>2. /\ session'[s].run = "requests" /\ session'[s].seen = x.seen
      /\ session'[s].scanned = x.scanned /\ session'[s].todo = x.todo \ {r}
      /\ session'[s].marked = x.marked \cup {r}
      /\ session'[s].taken = Extend(x.taken, P, GrantFor(r))
  BY <1>0, <1>1 DEF TypeInv, SessionRow, ServeRequest
<1>3. SameSeen(s)
  BY <1>0, <1>1, <1>2 DEF TypeInv, ServeRequest, SameSeen
<1>4. r \in x.todo /\ r \in DOMAIN x.seen /\ x.run = "requests"
  BY DEF ServeRequest, TypeInv
<1>5. Given(s, r) = {} /\ x.seen[r] = request[r]
  BY <1>0, <1>4 DEF SessionInv
<1>6. P \subseteq Leads /\ Cardinality(P) \in Nat /\ P \cap Mine(s) = {}
      /\ Cardinality(P) <= request[r].approved - request[r].fulfilled
  <2>1. Assignable \cap Fits[r] \subseteq Leads /\ IsFiniteSet(Assignable \cap Fits[r])
    BY RunAssumption, FS_Subset DEF Assignable
  <2>2. x.left \in Nat /\ request[r].approved \in Nat /\ request[r].fulfilled \in Nat
    BY <1>0 DEF SessionRow, RequestRow
  <2>3. Need(s, r) \in Int /\ Need(s, r) <= request[r].approved - request[r].fulfilled
    BY <1>5, <2>2 DEF Need, Least
  <2>4. P \in SUBSET (Assignable \cap Fits[r]) /\ Cardinality(P) \in Nat /\ Cardinality(P) <= Need(s, r)
    BY <2>1, <2>3, PicksBound
  <2>5. P \cap Mine(s) = {}
    BY <2>4, LockedMine DEF Assignable
  <2>. QED BY <2>1, <2>2, <2>3, <2>4, <2>5
<1>7. \A q \in Requests : Given(s, q)' = IF q = r THEN P ELSE Given(s, q)
  <2>0. GrantFor(r).request = r
    BY DEF GrantFor
  <2>1. \A q : Given(s, q)' = IF q = r THEN Given(s, q) \cup P ELSE Given(s, q) \ P
    BY <1>2, <2>0, GivenExtend
  <2>2. \A q : Given(s, q) \cap P = {}
    BY <1>6, GivenFinite
  <2>. QED BY <1>5, <2>1, <2>2
<1>8. session'[s].scanned \cap DOMAIN session'[s].taken = {}
  BY <1>0, <1>2, <1>6 DEF Extend, SessionInv, Mine
<1>9. UNCHANGED request /\ \A q : Open(request'[q]) <=> Open(request[q])
  BY DEF ServeRequest
<1>10. DOMAIN x.seen \subseteq Requests
  BY <1>0, PartialElim DEF SessionRow
<1>11. SessionInv(s)'
  BY <1>0, <1>2, <1>4, <1>6, <1>7, <1>8, <1>9, <1>10 DEF SessionInv
<1>. QED BY <1>3, <1>11, SameSeenWorks

LEMMA ReadMembersWorks ==
  ASSUME TypeInv, RequestsInv, NEW s \in Sessions, ReadMembers(s)
  PROVE  Works(s)
<1>0. session[s] \in SessionRow /\ SessionInv(s) /\ session[s].run = "requests"
  BY DEF TypeInv, RequestsInv, ReadMembers, Served
<1>1. PICK n, f : \E P \in Picks(Assignable, n) :
        session' = [session EXCEPT ![s].run = "share", ![s].load = f, ![s].scanned = P]
  BY DEF ReadMembers
<1>2. PICK P \in Picks(Assignable, n) :
        session' = [session EXCEPT ![s].run = "share", ![s].load = f, ![s].scanned = P]
  BY <1>1
<1>3. /\ session'[s].run = "share" /\ session'[s].seen = session[s].seen
      /\ session'[s].scanned = P /\ session'[s].todo = session[s].todo
      /\ session'[s].marked = session[s].marked /\ session'[s].taken = session[s].taken
  BY <1>0, <1>2 DEF TypeInv, SessionRow
<1>4. P \cap DOMAIN session[s].taken = {}
  BY LockedMine DEF Picks, Assignable, Mine
<1>5. \A q : Given(s, q)' = Given(s, q)
  BY <1>3 DEF Given
<1>6. UNCHANGED request /\ \A q : Open(request'[q]) <=> Open(request[q])
  BY DEF ReadMembers
<1>7. SessionInv(s)'
  BY <1>0, <1>3, <1>4, <1>5, <1>6 DEF SessionInv
<1>8. SameSeen(s)
  BY <1>2, <1>3 DEF TypeInv, ReadMembers, SameSeen
<1>. QED BY <1>7, <1>8, SameSeenWorks

LEMMA ShareLeadWorks ==
  ASSUME TypeInv, RequestsInv, NEW s \in Sessions, NEW l \in Leads, NEW m \in Members,
         ShareLead(s, l, m)
  PROVE  Works(s)
<1>0. session[s] \in SessionRow /\ SessionInv(s) /\ session[s].run = "share"
  BY DEF TypeInv, RequestsInv, ShareLead
<1>1. /\ session'[s].run = "share" /\ session'[s].seen = session[s].seen
      /\ session'[s].scanned = session[s].scanned \ {l} /\ session'[s].todo = session[s].todo
      /\ session'[s].marked = session[s].marked
      /\ session'[s].taken = Extend(session[s].taken, {l}, [user |-> m, request |-> NoRequest])
  BY <1>0 DEF TypeInv, SessionRow, ShareLead
<1>2. l \notin DOMAIN session[s].taken
  BY <1>0 DEF ShareLead, SessionInv
<1>3. \A q \in Requests : Given(s, q)' = Given(s, q)
  <2>1. \A q \in Requests : q # NoRequest
    BY UserAssumption
  <2>2. \A q : Given(s, q)' = IF q = NoRequest THEN Given(s, q) \cup {l} ELSE Given(s, q) \ {l}
    BY <1>1, GivenExtend
  <2>. QED BY <1>2, <2>1, <2>2 DEF Given
<1>4. session'[s].scanned \cap DOMAIN session'[s].taken = {}
  BY <1>0, <1>1 DEF Extend, SessionInv
<1>5. UNCHANGED request /\ \A q : Open(request'[q]) <=> Open(request[q])
  BY DEF ShareLead
<1>6. DOMAIN session[s].seen \subseteq Requests
  BY <1>0, PartialElim DEF SessionRow
<1>7. SessionInv(s)'
  BY <1>0, <1>1, <1>3, <1>4, <1>5, <1>6 DEF SessionInv
<1>8. SameSeen(s)
  BY <1>1 DEF TypeInv, ShareLead, SameSeen
<1>. QED BY <1>7, <1>8, SameSeenWorks

LEMMA RotateWorks ==
  ASSUME TypeInv, RequestsInv, NEW s \in Sessions, NEW r \in Requests, NEW l \in Leads,
         Rotate(s, r, l)
  PROVE  Works(s)
<1>0. session[s] \in SessionRow /\ SessionInv(s) /\ session[s].run = "rotate"
  BY DEF TypeInv, RequestsInv, Rotate, InTurn
<1>1. /\ session'[s].run = "rotate" /\ session'[s].seen = session[s].seen
      /\ session'[s].scanned = session[s].scanned
      /\ session'[s].marked = session[s].marked /\ session'[s].todo = session[s].todo
      /\ session'[s].taken = Extend(session[s].taken, {l}, GrantFor(r))
  BY <1>0 DEF TypeInv, SessionRow, Rotate
<1>2. l \notin Mine(s)
  BY LockedMine DEF Rotate, Unowned
<1>3. session'[s].scanned \cap DOMAIN session'[s].taken = {}
  BY <1>0, <1>1, <1>2 DEF Extend, SessionInv, Mine
<1>4. UNCHANGED request
  BY DEF Rotate
<1>5. SessionInv(s)'
  BY <1>0, <1>1, <1>3, <1>4 DEF SessionInv
<1>6. SameSeen(s)
  BY <1>1 DEF TypeInv, Rotate, SameSeen
<1>. QED BY <1>5, <1>6, SameSeenWorks

\* A turn without a lead, and the end of a round, change nothing but the walk.
Walks(s) == (\E r \in Requests : PassOver(s, r)) \/ NextRound(s)

LEMMA WalksIs ==
  ASSUME TypeInv, NEW s \in Sessions, Walks(s)
  PROVE  /\ session[s].run = "rotate" /\ session'[s].run = "rotate"
         /\ session'[s].seen = session[s].seen /\ session'[s].todo = session[s].todo
         /\ session'[s].marked = session[s].marked /\ session'[s].load = session[s].load
         /\ session'[s].scanned = session[s].scanned /\ session'[s].taken = session[s].taken
         /\ session'[s].queue = session[s].queue
         /\ \A t \in Sessions \ {s} : session'[t] = session[t]
         /\ UNCHANGED <<owner, rows, delivered, request, available>>
<1>0. session \in [Sessions -> SessionRow] /\ session[s] \in SessionRow
  BY DEF TypeInv
<1>1. ASSUME NEW r \in Requests, PassOver(s, r)
      PROVE  \E m, n : session' = [session EXCEPT ![s].turn = n, ![s].missed = m]
  BY <1>0, <1>1 DEF PassOver, SessionRow
<1>2. ASSUME NextRound(s)
      PROVE  \E n : session' = [session EXCEPT ![s].turn = 1, ![s].progress = FALSE,
                                               ![s].rotations = n]
  BY <1>0, <1>2 DEF NextRound, SessionRow
<1>3. session[s].run = "rotate" /\ UNCHANGED <<owner, rows, delivered, request, available>>
  BY DEF Walks, PassOver, NextRound, InTurn, RoundOver
<1>4. CASE \E r \in Requests : PassOver(s, r)
  <2>1. PICK m, n : session' = [session EXCEPT ![s].turn = n, ![s].missed = m]
    BY <1>1, <1>4
  <2>. QED BY <1>0, <1>3, <2>1 DEF SessionRow
<1>5. CASE NextRound(s)
  <2>1. PICK n : session' = [session EXCEPT ![s].turn = 1, ![s].progress = FALSE,
                                            ![s].rotations = n]
    BY <1>2, <1>5
  <2>. QED BY <1>0, <1>3, <2>1 DEF SessionRow
<1>. QED BY <1>4, <1>5 DEF Walks

LEMMA WalksWorks ==
  ASSUME TypeInv, RequestsInv, NEW s \in Sessions, Walks(s)
  PROVE  Works(s)
<1>1. SessionInv(s)
  BY DEF RequestsInv
<1>2. \A r : Given(s, r)' = Given(s, r)
  BY WalksIs DEF Given
<1>3. SessionInv(s)'
  BY <1>1, <1>2, WalksIs DEF SessionInv
<1>. QED BY <1>3, WalksIs, SameSeenWorks DEF SameSeen

-----------------------------------------------------------------------------
(* The commit, and the steps that change requests. *)

\* A request of which a session gives leads away is one it has locked.
LEMMA GivenSeen ==
  ASSUME TypeInv, RequestsInv, NEW s \in Sessions, session[s].run # "rotate"
  PROVE  /\ \A r \in Requests : r \notin session[s].marked => Cardinality(Given(s, r)) = 0
         /\ session[s].marked \subseteq DOMAIN session[s].seen
<1>1. SessionInv(s)
  BY DEF RequestsInv
<1>2. \A r \in Requests : r \notin session[s].marked => Given(s, r) = {}
  BY <1>1 DEF SessionInv
<1>. QED BY <1>1, <1>2, FS_EmptySet DEF SessionInv

LEMMA CommitCounts ==
  ASSUME TypeInv, RequestsInv, NEW s \in Sessions, Commit(s), NEW r \in Requests
  PROVE  LET q == request'[r] IN
         /\ q.fulfilled = delivered'[r].fulfilment
         /\ q.fulfilled <= q.approved
         /\ q.status = "partially_fulfilled" => q.fulfilled \in 1..(q.approved - 1)
         /\ q.status \in {"none", "pending"} => q.fulfilled = 0
         /\ r \notin DOMAIN session[s].seen => q = request[r]
<1>. DEFINE x == session[s]
            n == Cardinality(Given(s, r))
<1>0. x \in SessionRow /\ SessionInv(s) /\ n \in Nat
  BY Counts DEF TypeInv, RequestsInv
<1>1. request[r] \in RequestRow /\ delivered[r] \in Delivery
  BY DEF TypeInv
<1>2. /\ request[r].fulfilled = delivered[r].fulfilment
      /\ request[r].fulfilled <= request[r].approved
      /\ request[r].status = "partially_fulfilled" =>
           request[r].fulfilled \in 1..(request[r].approved - 1)
      /\ request[r].status \in {"none", "pending"} => request[r].fulfilled = 0
  BY DEF RequestsInv, FulfilmentCounts
<1>3. /\ delivered'[r] = Counted(s, r)
      /\ request'[r] = IF r \in DOMAIN x.seen THEN Written(s, r) ELSE request[r]
  BY DEF Commit
<1>4. CASE x.run # "rotate" /\ r \notin x.marked
  <2>1. n = 0 /\ Written(s, r) = request[r]
    BY <1>4, GivenSeen DEF Written
  <2>2. delivered'[r].fulfilment = delivered[r].fulfilment
    BY <1>1, <1>3, <1>4, <2>1 DEF Counted, Delivery
  <2>3. request'[r] = request[r]
    BY <1>3, <2>1
  <2>. QED BY <1>2, <2>2, <2>3
<1>5. CASE x.run # "rotate" /\ r \in x.marked
  <2>1. r \in DOMAIN x.seen /\ x.seen[r] = request[r]
    BY <1>0, <1>5, GivenSeen DEF SessionInv
  <2>2. n <= request[r].approved - request[r].fulfilled
    BY <1>0, <1>5, <2>1 DEF SessionInv
  <2>3. request'[r] = Marked(request[r], n)
    BY <1>3, <1>5, <2>1 DEF Written
  <2>4. delivered'[r].fulfilment = delivered[r].fulfilment + n
    BY <1>1, <1>3, <1>5 DEF Counted, Delivery
  <2>5. request[r].approved \in Nat /\ request[r].fulfilled \in Nat
    BY <1>1 DEF RequestRow
  <2>. DEFINE done == request[r].fulfilled + n
  <2>6. /\ request'[r].fulfilled = done /\ request'[r].approved = request[r].approved
        /\ request'[r].status = IF done >= request[r].approved THEN "fulfilled"
                                ELSE IF done > 0 THEN "partially_fulfilled" ELSE "approved"
    BY <1>1, <2>3 DEF Marked, RequestRow
  <2>. QED BY <1>0, <1>2, <2>1, <2>2, <2>4, <2>5, <2>6
<1>6. CASE x.run = "rotate"
  <2>1. delivered'[r].fulfilment = delivered[r].fulfilment
    BY <1>1, <1>3, <1>6 DEF Counted, Delivery
  <2>2. CASE r \notin DOMAIN x.seen \/ n = 0
    <3>1. r \notin x.marked
      BY <1>0, <1>6 DEF SessionInv
    <3>2. request'[r] = request[r]
      BY <1>3, <2>2, <3>1 DEF Written
    <3>. QED BY <1>2, <2>1, <3>2
  <2>3. CASE r \in DOMAIN x.seen /\ n # 0
    <3>1. r \notin x.marked /\ x.seen[r] = request[r] /\ request[r].status = "pending"
      BY <1>0, <1>6, <2>3 DEF SessionInv
    <3>2. request'[r] = Rotated(r, request[r], n)
      BY <1>0, <1>3, <1>6, <2>3, <3>1 DEF Written
    <3>3. /\ request'[r].fulfilled = request[r].fulfilled
          /\ request'[r].approved = request[r].approved
          /\ request'[r].status \in {"fulfilled", "pending"}
      BY <1>1, <3>1, <3>2 DEF Rotated, RequestRow
    <3>. QED BY <1>2, <2>1, <2>3, <3>1, <3>3
  <2>. QED BY <2>2, <2>3
<1>. QED BY <1>4, <1>5, <1>6

\* A session does not notice changes of requests that it has not locked.
LEMMA OthersInv ==
  ASSUME RequestsInv, NEW t \in Sessions, session'[t] = session[t],
         \A r \in DOMAIN session[t].seen : request'[r] = request[r]
  PROVE  SessionInv(t)'
<1>1. SessionInv(t)
  BY DEF RequestsInv
<1>2. \A r : Given(t, r)' = Given(t, r)
  BY DEF Given
<1>3. \A r \in DOMAIN session[t].seen : Open(request'[r]) <=> Open(request[r])
  OBVIOUS
<1>. QED BY <1>1, <1>2, <1>3 DEF SessionInv

LEMMA CommitRequests ==
  ASSUME TypeInv, RequestsInv, NEW s \in Sessions, Commit(s)
  PROVE  RequestsInv'
<1>0. session'[s] = Idle /\ \A t \in Sessions \ {s} : session'[t] = session[t]
  BY DEF Commit, TypeInv
<1>1. /\ session'[s].scanned = {} /\ session'[s].taken = Nothing /\ session'[s].marked = {}
      /\ session'[s].todo = {} /\ DOMAIN session'[s].seen = {}
  BY <1>0 DEF Idle, Nothing
<1>2. SessionInv(s)'
  BY <1>1, CommitType, FreshInv DEF TypeInv
<1>3. \A t \in Sessions \ {s} : SessionInv(t)'
  <2>. SUFFICES ASSUME NEW t \in Sessions \ {s} PROVE SessionInv(t)'
    OBVIOUS
  <2>1. \A r \in DOMAIN session[t].seen : r \in Requests /\ r \notin DOMAIN session[s].seen
    BY PartialElim DEF RequestsInv, SeenApart, TypeInv, SessionRow
  <2>. QED BY <1>0, <2>1, CommitCounts, OthersInv
<1>4. SeenApart'
  BY <1>0, <1>1 DEF SeenApart, RequestsInv
<1>5. FulfilmentCounts' /\ \A r \in Requests :
        request'[r].status \in {"none", "pending"} => request'[r].fulfilled = 0
  BY CommitCounts DEF FulfilmentCounts
<1>. QED BY <1>2, <1>3, <1>4, <1>5 DEF RequestsInv

LEMMA ClientRequests ==
  ASSUME TypeInv, RequestsInv, Client
  PROVE  RequestsInv'
<1>. USE DEF TypeInv
<1>1. ASSUME NEW r \in Requests, ~Held(r), UNCHANGED <<delivered, session>>,
             request' \in [Requests -> RequestRow],
             \A q \in Requests \ {r} : request'[q] = request[q],
             request[r].fulfilled = 0, request'[r].fulfilled = 0,
             request'[r].status # "partially_fulfilled"
      PROVE  RequestsInv'
  <2>1. \A t \in Sessions : DOMAIN session[t].seen \subseteq Requests /\ r \notin DOMAIN session[t].seen
    BY <1>1, PartialElim DEF Held, SessionRow
  <2>2. \A t \in Sessions : SessionInv(t)'
    BY <1>1, <2>1, OthersInv
  <2>3. SeenApart'
    BY <1>1 DEF RequestsInv, SeenApart
  <2>4. FulfilmentCounts'
    <3>1. /\ request'[r].fulfilled = delivered'[r].fulfilment
          /\ request'[r].fulfilled <= request'[r].approved
      BY <1>1 DEF RequestsInv, FulfilmentCounts, RequestRow
    <3>2. \A q \in Requests \ {r} : request'[q] = request[q] /\ delivered'[q] = delivered[q]
      BY <1>1
    <3>. QED BY <1>1, <3>1, <3>2 DEF RequestsInv, FulfilmentCounts
  <2>. QED BY <1>1, <2>2, <2>3, <2>4 DEF RequestsInv
<1>2. ASSUME NEW r \in Requests, Submit(r) PROVE RequestsInv'
  <2>1. ~Held(r)
    <3>1. \A s \in Sessions : r \in DOMAIN session[s].seen =>
            request[r].status \in {"pending", "approved", "partially_fulfilled"}
      BY DEF RequestsInv, SessionInv, Open
    <3>. QED BY <1>2, <3>1 DEF Submit, Held
  <2>2. request' \in [Requests -> RequestRow]
    BY <1>2, ClientType DEF Client
  <2>3. request[r].fulfilled = 0
    BY <1>2 DEF Submit, RequestsInv
  <2>. QED BY <1>1, <1>2, <2>1, <2>2, <2>3 DEF Submit, RequestRow
<1>3. ASSUME NEW r \in Requests, Approve(r) \/ Resolve(r) PROVE RequestsInv'
  <2>1. request' \in [Requests -> RequestRow]
    BY <1>3, ClientType DEF Client
  <2>2. request[r].fulfilled = 0
    BY <1>3 DEF Approve, Resolve, RequestsInv
  <2>3. ~Held(r) /\ UNCHANGED <<delivered, session>>
    BY <1>3 DEF Approve, Resolve
  <2>4. /\ \A q \in Requests \ {r} : request'[q] = request[q]
        /\ request'[r].fulfilled = request[r].fulfilled
        /\ request'[r].status # "partially_fulfilled"
    <3>1. CASE Resolve(r)
      BY <3>1 DEF Resolve, RequestRow
    <3>2. CASE Approve(r)
      <4>1. PICK q : request' = [request EXCEPT ![r].status = "approved", ![r].approved = q]
        BY <3>2 DEF Approve
      <4>. QED BY <4>1 DEF RequestRow
    <3>. QED BY <1>3, <3>1, <3>2
  <2>. QED BY <1>1, <2>1, <2>2, <2>3, <2>4
<1>4. ASSUME NEW m \in Members, SetAvailable(m) PROVE RequestsInv'
  BY <1>4 DEF SetAvailable, RequestsInv, FulfilmentCounts, SeenApart, SessionInv, Given, Open
<1>. QED BY <1>2, <1>3, <1>4 DEF Client

LEMMA RequestsInvHolds == Spec => []RequestsInv
<1>1. Init => RequestsInv
  BY DEF Init, RequestsInv, FulfilmentCounts, SeenApart, SessionInv, Given, Idle, Nothing
<1>2. TypeInv /\ RequestsInv /\ [Next]_vars => RequestsInv'
  <2>. SUFFICES ASSUME TypeInv, RequestsInv, [Next]_vars PROVE RequestsInv'
    OBVIOUS
  <2>1. ASSUME UNCHANGED <<delivered, request, session>> PROVE RequestsInv'
    <3>1. \A t \in Sessions : SessionInv(t)'
      BY <2>1, OthersInv
    <3>2. SeenApart' /\ FulfilmentCounts'
      BY <2>1 DEF RequestsInv, SeenApart, FulfilmentCounts
    <3>. QED BY <2>1, <3>1, <3>2 DEF RequestsInv
  <2>2. CASE Client
    BY <2>2, ClientRequests
  <2>3. CASE Manager
    BY <2>1, <2>3 DEF Manager, Assign, Reassign, AutoReassign, Unassign
  <2>4. ASSUME NEW s \in Sessions, Begin(s) \/ Rollback(s) PROVE RequestsInv'
    BY <2>4, BeginWorks, WorksInv
  <2>5. ASSUME NEW s \in Sessions, Step(s) PROVE RequestsInv'
    BY <2>5, ServeRequestWorks, ReadMembersWorks, ShareLeadWorks, RotateWorks, WalksWorks,
       WorksInv, CommitRequests DEF Step, Walks
  <2>6. CASE UNCHANGED vars
    BY <2>1, <2>6 DEF vars
  <2>. QED BY <2>2, <2>3, <2>4, <2>5, <2>6 DEF Next
<1>. QED BY <1>1, <1>2, TypeInvHolds, PTL DEF Spec

\* The fulfilment counts what it delivers and delivers no more than was approved,
\* for any number of overlapping, failing and repeated runs.
THEOREM FulfilmentCountsHolds == Spec => []FulfilmentCounts
<1>1. RequestsInv => FulfilmentCounts
  BY DEF RequestsInv
<1>. QED BY <1>1, RequestsInvHolds, PTL

-----------------------------------------------------------------------------
(* The rotation passes nobody by, the distribution is fair.                  *)

\* The queue holds each waiting request once; those before the index have had their
\* turn of this round, the one at the index and those behind it have not.
InStep(queue, turn, n, T) ==
  /\ \A i, j \in DOMAIN queue : i # j => queue[i] # queue[j]
  /\ \A i \in DOMAIN queue :
       queue[i] \in DOMAIN T /\ T[queue[i]] = n + (IF i < turn THEN 1 ELSE 0)
  /\ \A r \in DOMAIN T : T[r] <= n + 1

TurnsOf(s) == [r \in DOMAIN session[s].seen |-> Turns(s, r)]

Strict(s) ==
  session[s].run = "rotate" =>
    InStep(session[s].queue, session[s].turn, session[s].rotations, TurnsOf(s))

\* Until a run reads the members it has dealt out nothing.
Fair(s) ==
  /\ session[s].run = "requests" => \A m : Shared(s, m) = {}
  /\ session[s].run = "share" =>
       \A m \in Eligible(s), n \in DOMAIN session[s].load :
         (InRun(s, n) - 1) * Weight[m] <= InRun(s, m) * Weight[n]

LEMMA SharedExtend ==
  ASSUME NEW s, NEW P, NEW g,
         session'[s].taken = Extend(session[s].taken, P, g)
  PROVE  \A m : Shared(s, m)' = IF g = [user |-> m, request |-> NoRequest]
                               THEN Shared(s, m) \cup P ELSE Shared(s, m) \ P
<1>. SUFFICES ASSUME NEW m
              PROVE  Shared(s, m)' = IF g = [user |-> m, request |-> NoRequest]
                                     THEN Shared(s, m) \cup P ELSE Shared(s, m) \ P
  OBVIOUS
<1>. DEFINE share == [user |-> m, request |-> NoRequest]
<1>1. /\ Shared(s, m) = {l \in DOMAIN session[s].taken : session[s].taken[l] = share}
      /\ Shared(s, m)' = {l \in DOMAIN session'[s].taken : session'[s].taken[l] = share}
  BY DEF Shared
<1>2. /\ DOMAIN session'[s].taken = DOMAIN session[s].taken \cup P
      /\ \A l \in DOMAIN session'[s].taken :
           session'[s].taken[l] = IF l \in P THEN g ELSE session[s].taken[l]
  BY DEF Extend
<1>. HIDE DEF share
<1>. QED BY <1>1, <1>2 DEF share

\* Whoever had the turn has had one more; the next one is behind it in the queue, or
\* has slid into its place.
LEMMA TurnTaken ==
  ASSUME NEW S, NEW queue \in Seq(S), NEW turn \in DOMAIN queue, NEW n \in Nat,
         NEW D, NEW T \in [D -> Nat], NEW U \in [D -> Nat], InStep(queue, turn, n, T),
         \A q \in D : U[q] = IF q = queue[turn] THEN T[q] + 1 ELSE T[q]
  PROVE  InStep(queue, turn + 1, n, U) /\ InStep(RemoveAt(queue, turn), turn, n, U)
<1>0. /\ \A i, j \in DOMAIN queue : i # j => queue[i] # queue[j]
      /\ \A i \in DOMAIN queue : queue[i] \in D /\ T[queue[i]] = n + (IF i < turn THEN 1 ELSE 0)
      /\ \A q \in D : T[q] \in Nat /\ T[q] <= n + 1
  BY DEF InStep
<1>1. turn \in Nat /\ DOMAIN queue \subseteq Nat /\ T[queue[turn]] = n
  BY <1>0
<1>2. \A q \in D : U[q] <= n + 1
  BY <1>0, <1>1
<1>3. \A i \in DOMAIN queue : /\ queue[i] \in D
                              /\ U[queue[i]] = IF i = turn THEN n + 1
                                               ELSE n + (IF i < turn THEN 1 ELSE 0)
  BY <1>0, <1>1
<1>4. InStep(queue, turn + 1, n, U)
  <2>1. \A i \in DOMAIN queue : i < turn + 1 <=> i = turn \/ i < turn
    BY <1>1
  <2>2. \A i \in DOMAIN queue : queue[i] \in D /\ U[queue[i]] = n + (IF i < turn + 1 THEN 1 ELSE 0)
    BY <1>3, <2>1
  <2>. QED BY <1>0, <1>2, <2>2 DEF InStep
<1>5. InStep(RemoveAt(queue, turn), turn, n, U)
  <2>. DEFINE rest == RemoveAt(queue, turn)
              p(i) == IF i < turn THEN i ELSE i + 1
  <2>1. Len(queue) \in Nat /\ turn \in 1..Len(queue) /\ DOMAIN queue = 1..Len(queue)
    OBVIOUS
  <2>2. DOMAIN rest = 1..(Len(queue) - 1) /\ \A i \in DOMAIN rest : rest[i] = queue[p(i)]
    <3>1. rest \in Seq(S) /\ Len(rest) = Len(queue) - 1
      BY Spliced
    <3>2. DOMAIN rest = 1..(Len(queue) - 1)
      BY <3>1
    <3>3. \A j \in 1..(Len(queue) - 1) : rest[j] = IF j < turn THEN queue[j] ELSE queue[j + 1]
      BY Spliced
    <3>. QED BY <3>2, <3>3
  <2>3. \A i \in DOMAIN rest : p(i) \in DOMAIN queue /\ p(i) # turn /\ (p(i) < turn <=> i < turn)
    BY <2>1, <2>2
  <2>4. \A i, j \in DOMAIN rest : i # j => p(i) # p(j)
    BY <2>1, <2>2
  <2>. HIDE DEF rest, p
  <2>5. \A i, j \in DOMAIN rest : i # j => rest[i] # rest[j]
    BY <1>0, <2>2, <2>3, <2>4
  <2>6. \A i \in DOMAIN rest : rest[i] \in D /\ U[rest[i]] = n + (IF i < turn THEN 1 ELSE 0)
    BY <1>3, <2>2, <2>3
  <2>7. InStep(rest, turn, n, U)
    BY <1>2, <2>5, <2>6 DEF InStep
  <2>. QED BY <2>7 DEF rest
<1>. QED BY <1>4, <1>5

\* When all have had their turn the next round finds them as the last one did.
LEMMA RoundTaken ==
  ASSUME NEW S, NEW queue \in Seq(S), NEW turn \in Nat, turn > Len(queue), NEW n \in Nat,
         NEW D, NEW T \in [D -> Nat], InStep(queue, turn, n, T)
  PROVE  InStep(queue, 1, n + 1, T)
<1>1. \A i \in DOMAIN queue : i \in Nat /\ i < turn /\ ~(i < 1)
  OBVIOUS
<1>2. \A i \in DOMAIN queue : queue[i] \in D /\ T[queue[i]] = (n + 1) + (IF i < 1 THEN 1 ELSE 0)
  BY <1>1 DEF InStep
<1>3. \A q \in D : T[q] <= (n + 1) + 1
  BY DEF InStep
<1>. QED BY <1>2, <1>3 DEF InStep

LEMMA TurnsCount ==
  ASSUME TypeInv, NEW s \in Sessions
  PROVE  TurnsOf(s) \in [DOMAIN session[s].seen -> Nat]
<1>1. DOMAIN session[s].seen \subseteq Requests /\ session[s].missed \in [Requests -> Nat]
  BY PartialElim DEF TypeInv, SessionRow
<1>. QED BY <1>1, GivenFinite DEF TurnsOf, Turns

\* The request in turn has one turn more.
LEMMA OneMoreTurn ==
  ASSUME TypeInv, NEW s \in Sessions, NEW r \in Requests,
         PassOver(s, r) \/ \E l \in Leads : Rotate(s, r, l)
  PROVE  \A q \in Requests : Turns(s, q)' = IF q = r THEN Turns(s, q) + 1 ELSE Turns(s, q)
<1>0. session[s] \in SessionRow
  BY DEF TypeInv
<1>. SUFFICES ASSUME NEW q \in Requests
              PROVE  Turns(s, q)' = IF q = r THEN Turns(s, q) + 1 ELSE Turns(s, q)
  OBVIOUS
<1>1. session[s].missed \in [Requests -> Nat]
  BY <1>0 DEF SessionRow
<1>2. IsFiniteSet(Given(s, q)) /\ Cardinality(Given(s, q)) \in Nat
  BY GivenFinite
<1>3. CASE PassOver(s, r)
  <2>1. session'[s].taken = session[s].taken
    BY <1>3, WalksIs DEF Walks
  <2>2. session'[s].missed[q] = IF q = r THEN session[s].missed[q] + 1 ELSE session[s].missed[q]
    BY <1>0, <1>1, <1>3 DEF PassOver, TypeInv
  <2>3. Given(s, q)' = Given(s, q)
    BY <2>1 DEF Given
  <2>. QED BY <1>1, <1>2, <2>2, <2>3 DEF Turns
<1>4. ASSUME NEW l \in Leads, Rotate(s, r, l)
      PROVE  Turns(s, q)' = IF q = r THEN Turns(s, q) + 1 ELSE Turns(s, q)
  <2>1. /\ session'[s].missed = session[s].missed
        /\ session'[s].taken = Extend(session[s].taken, {l}, GrantFor(r))
    BY <1>0, <1>4 DEF Rotate, TypeInv, SessionRow
  <2>2. GrantFor(r).request = r
    BY DEF GrantFor
  <2>3. Given(s, q)' = IF q = r THEN Given(s, q) \cup {l} ELSE Given(s, q) \ {l}
    BY <2>1, <2>2, GivenExtend
  <2>4. l \notin Given(s, q)
    BY <1>4, LockedMine, GivenFinite DEF Rotate, Unowned
  <2>5. Cardinality(Given(s, q) \cup {l}) = Cardinality(Given(s, q)) + 1
    BY <1>2, <2>4, FS_AddElement
  <2>6. Cardinality(Given(s, q)') = IF q = r THEN Cardinality(Given(s, q)) + 1
                                    ELSE Cardinality(Given(s, q))
    BY <2>3, <2>4, <2>5
  <2>. QED BY <1>1, <1>2, <2>1, <2>6 DEF Turns
<1>. QED BY <1>3, <1>4

\* A turn, with a lead or without, or the end of a round keeps the walk in order.
LEMMA TurnStrict ==
  ASSUME TypeInv, TypeInv', NEW s \in Sessions, NEW r \in Requests, Strict(s),
         PassOver(s, r) \/ \E l \in Leads : Rotate(s, r, l)
  PROVE  Strict(s)'
<1>. DEFINE x == session[s]
            y == session'[s]
<1>0. /\ x \in SessionRow /\ x.run = "rotate" /\ x.queue \in Seq(Requests)
      /\ x.turn \in DOMAIN x.queue /\ r = x.queue[x.turn] /\ x.rotations \in Nat
      /\ DOMAIN x.seen \subseteq Requests
  <2>1. x.run = "rotate" /\ x.turn \in DOMAIN x.queue /\ r = x.queue[x.turn]
    BY DEF PassOver, Rotate, InTurn
  <2>2. x \in SessionRow
    BY DEF TypeInv
  <2>3. x.queue \in Seq(Requests) /\ x.rotations \in Nat /\ x.seen \in Partial(Requests, RequestRow)
    BY <2>2 DEF SessionRow
  <2>4. DOMAIN x.seen \subseteq Requests
    BY <2>3, PartialElim
  <2>. QED BY <2>1, <2>2, <2>3, <2>4
<1>1. /\ y.seen = x.seen /\ y.rotations = x.rotations
      /\ \/ y.queue = x.queue /\ y.turn = x.turn + 1
         \/ y.queue = RemoveAt(x.queue, x.turn) /\ y.turn = x.turn
  <2>1. CASE PassOver(s, r)
    BY <1>0, <2>1 DEF PassOver, TypeInv, SessionRow
  <2>2. ASSUME NEW l \in Leads, Rotate(s, r, l)
        PROVE  /\ y.seen = x.seen /\ y.rotations = x.rotations
               /\ y.queue = IF Filled(s, r) THEN RemoveAt(x.queue, x.turn) ELSE x.queue
               /\ y.turn = IF Filled(s, r) THEN x.turn ELSE x.turn + 1
    BY <1>0, <2>2 DEF Rotate, TypeInv, SessionRow, TurnAfter
  <2>. QED BY <2>1, <2>2
<1>2. \A q \in DOMAIN x.seen :
        TurnsOf(s)'[q] = IF q = x.queue[x.turn] THEN TurnsOf(s)[q] + 1 ELSE TurnsOf(s)[q]
  <2>1. \A q \in DOMAIN x.seen : TurnsOf(s)[q] = Turns(s, q) /\ TurnsOf(s)'[q] = Turns(s, q)'
    BY <1>1 DEF TurnsOf
  <2>. QED BY <1>0, <2>1, OneMoreTurn
<1>3. TurnsOf(s) \in [DOMAIN x.seen -> Nat] /\ TurnsOf(s)' \in [DOMAIN x.seen -> Nat]
  <2>1. TurnsOf(s) \in [DOMAIN x.seen -> Nat]
    BY TurnsCount
  <2>2. TurnsOf(s)' = [q \in DOMAIN x.seen |-> TurnsOf(s)'[q]]
    BY <1>1 DEF TurnsOf
  <2>3. \A q \in DOMAIN x.seen : TurnsOf(s)'[q] \in Nat
    BY <1>2, <2>1
  <2>. QED BY <2>1, <2>2, <2>3
<1>4. InStep(x.queue, x.turn, x.rotations, TurnsOf(s))
  BY <1>0 DEF Strict
<1>5. /\ InStep(x.queue, x.turn + 1, x.rotations, TurnsOf(s)')
      /\ InStep(RemoveAt(x.queue, x.turn), x.turn, x.rotations, TurnsOf(s)')
  BY <1>0, <1>2, <1>3, <1>4, TurnTaken
<1>6. InStep(y.queue, y.turn, y.rotations, TurnsOf(s)')
  BY <1>1, <1>5
<1>. QED BY <1>6 DEF Strict

LEMMA NextRoundStrict ==
  ASSUME TypeInv, NEW s \in Sessions, NextRound(s), Strict(s)
  PROVE  Strict(s)'
<1>. DEFINE x == session[s]
            y == session'[s]
<1>0. /\ x \in SessionRow /\ x.run = "rotate" /\ x.queue \in Seq(Requests)
      /\ x.turn \in Nat /\ x.rotations \in Nat /\ x.turn > Len(x.queue)
  BY DEF TypeInv, SessionRow, NextRound, RoundOver
<1>1. y.rotations = x.rotations + 1 /\ y.turn = 1 /\ y.missed = x.missed
  BY <1>0 DEF NextRound, TypeInv, SessionRow
<1>2. y.seen = x.seen /\ y.queue = x.queue /\ y.taken = x.taken
  BY WalksIs DEF Walks
<1>3. TurnsOf(s)' = TurnsOf(s)
  BY <1>1, <1>2 DEF TurnsOf, Turns, Given
<1>4. InStep(x.queue, 1, x.rotations + 1, TurnsOf(s))
  BY <1>0, TurnsCount, RoundTaken DEF Strict
<1>5. InStep(y.queue, y.turn, y.rotations, TurnsOf(s)')
  BY <1>1, <1>2, <1>3, <1>4
<1>. QED BY <1>5 DEF Strict

\* The lead a run deals out goes to a member that no other is lighter than.
LEMMA ShareLeadFair ==
  ASSUME TypeInv, NEW s \in Sessions, SessionInv(s), NEW l \in Leads, NEW k \in Members,
         ShareLead(s, l, k), Fair(s)
  PROVE  Fair(s)'
<1>0. session[s] \in SessionRow /\ session[s].run = "share"
  BY DEF TypeInv, ShareLead
<1>1. /\ session'[s].run = "share" /\ session'[s].load = session[s].load
      /\ session'[s].taken = Extend(session[s].taken, {l}, [user |-> k, request |-> NoRequest])
  BY <1>0 DEF TypeInv, SessionRow, ShareLead
<1>2. l \notin DOMAIN session[s].taken
  BY DEF ShareLead, SessionInv
<1>3. \A m : InRun(s, m) \in Nat /\ InRun(s, m)' = IF m = k THEN InRun(s, m) + 1 ELSE InRun(s, m)
  <2>. SUFFICES ASSUME NEW m
                PROVE  InRun(s, m) \in Nat /\ InRun(s, m)' = IF m = k THEN InRun(s, m) + 1 ELSE InRun(s, m)
    OBVIOUS
  <2>1. IsFiniteSet(Shared(s, m)) /\ Cardinality(Shared(s, m)) \in Nat
    BY GivenFinite
  <2>2. l \notin Shared(s, m)
    BY <1>2 DEF Shared
  <2>3. [user |-> k, request |-> NoRequest] = [user |-> m, request |-> NoRequest] <=> m = k
    OBVIOUS
  <2>4. Shared(s, m)' = IF m = k THEN Shared(s, m) \cup {l} ELSE Shared(s, m) \ {l}
    BY <1>1, <2>3, SharedExtend
  <2>5. Cardinality(Shared(s, m) \cup {l}) = Cardinality(Shared(s, m)) + 1
    BY <2>1, <2>2, FS_AddElement
  <2>6. Shared(s, m) \ {l} = Shared(s, m)
    BY <2>2
  <2>. QED BY <2>1, <2>4, <2>5, <2>6 DEF InRun
<1>4. session[s].load \in [DOMAIN session[s].load -> Nat] /\ DOMAIN session[s].load \subseteq Members
  BY <1>0, PartialElim DEF SessionRow
<1>5. Eligible(s)' \subseteq Eligible(s) /\ Eligible(s) \subseteq Members
  <2>1. \A m \in DOMAIN session[s].load : /\ Today(s, m) \in Nat /\ Today(s, m)' \in Nat
                                          /\ Today(s, m) <= Today(s, m)'
    BY <1>1, <1>3, <1>4 DEF Today
  <2>2. \A m \in DOMAIN session[s].load : UnderCap(m, Today(s, m)') => UnderCap(m, Today(s, m))
    BY <1>4, <2>1, RequestAssumption DEF UnderCap
  <2>. QED BY <1>1, <1>4, <2>2 DEF Eligible, UnderCap
<1>6. k \in Eligible(s) /\ \A m \in Eligible(s) : InRun(s, k) * Weight[m] <= InRun(s, m) * Weight[k]
  <2>1. k \in Eligible(s) /\ \A m \in Eligible(s) : ~Lighter(s, m, k)
    BY DEF ShareLead, PickMember
  <2>2. \A m \in Eligible(s) : InRun(s, k) * Weight[m] \in Int /\ InRun(s, m) * Weight[k] \in Int
    BY <1>3, <1>5, RequestAssumption
  <2>. QED BY <2>1, <2>2 DEF Lighter
<1>. SUFFICES ASSUME NEW m \in Eligible(s), NEW n \in DOMAIN session[s].load
              PROVE  (InRun(s, n)' - 1) * Weight[m] <= InRun(s, m)' * Weight[n]
  BY <1>1, <1>5 DEF Fair
<1>7. Weight[m] \in Nat /\ Weight[n] \in Nat
  BY <1>4, <1>5, RequestAssumption
<1>8. \A a, w \in Nat : a * w <= (a + 1) * w
  OBVIOUS
<1>9. (InRun(s, n) - 1) * Weight[m] <= InRun(s, m) * Weight[n]
  BY <1>0 DEF Fair
<1>10. CASE n = k
  <2>1. (InRun(s, n)' - 1) * Weight[m] = InRun(s, k) * Weight[m]
    BY <1>3, <1>10
  <2>2. InRun(s, k) * Weight[m] <= InRun(s, m) * Weight[k]
    BY <1>6
  <2>3. CASE m = k
    <3>1. InRun(s, m)' * Weight[n] = (InRun(s, k) + 1) * Weight[k]
      BY <1>3, <1>10, <2>3
    <3>2. InRun(s, k) * Weight[k] <= (InRun(s, k) + 1) * Weight[k]
      BY <1>3, <1>7, <1>8, <2>3
    <3>. QED BY <2>1, <2>3, <3>1, <3>2
  <2>4. CASE m # k
    BY <1>3, <1>10, <2>1, <2>2, <2>4
  <2>. QED BY <2>3, <2>4
<1>11. CASE n # k /\ m = k
  <2>1. InRun(s, k) * Weight[n] <= (InRun(s, k) + 1) * Weight[n]
    BY <1>3, <1>7, <1>8
  <2>2. /\ (InRun(s, n)' - 1) * Weight[m] = (InRun(s, n) - 1) * Weight[m]
        /\ InRun(s, m)' * Weight[n] = (InRun(s, k) + 1) * Weight[n]
    BY <1>3, <1>11
  <2>3. /\ (InRun(s, n) - 1) * Weight[m] \in Int /\ InRun(s, k) * Weight[n] \in Int
        /\ (InRun(s, k) + 1) * Weight[n] \in Int
    BY <1>3, <1>7
  <2>. QED BY <1>9, <1>11, <2>1, <2>2, <2>3
<1>12. CASE n # k /\ m # k
  BY <1>3, <1>9, <1>12
<1>. QED BY <1>10, <1>11, <1>12

LEMMA ReadMembersFair ==
  ASSUME TypeInv, NEW s \in Sessions, ReadMembers(s), Fair(s)
  PROVE  Fair(s)'
<1>0. session[s] \in SessionRow /\ session[s].run = "requests"
  BY DEF TypeInv, ReadMembers, Served
<1>1. PICK P, f :
        session' = [session EXCEPT ![s].run = "share", ![s].load = f, ![s].scanned = P]
  BY DEF ReadMembers
<1>2. session'[s].run = "share" /\ session'[s].taken = session[s].taken
  BY <1>0, <1>1 DEF TypeInv, SessionRow
<1>3. \A m : Shared(s, m)' = {}
  BY <1>0, <1>2 DEF Fair, Shared
<1>4. \A m : InRun(s, m)' = 0
  BY <1>3, FS_EmptySet DEF InRun
<1>5. session'[s] \in SessionRow
  BY ReadMembersType, MovesType DEF TypeInv
<1>6. Eligible(s)' \subseteq DOMAIN session'[s].load /\ DOMAIN session'[s].load \subseteq Members
  BY <1>5, PartialElim DEF Eligible, SessionRow
<1>7. \A m \in Members : Weight[m] \in Nat
  BY RequestAssumption
<1>8. \A v, w \in Nat : (0 - 1) * v <= 0 * w
  OBVIOUS
<1>. QED BY <1>2, <1>4, <1>6, <1>7, <1>8 DEF Fair

LEMMA ServeRequestFair ==
  ASSUME TypeInv, NEW s \in Sessions, NEW r \in Requests, ServeRequest(s, r), Fair(s)
  PROVE  Fair(s)'
<1>0. session[s] \in SessionRow /\ session[s].run = "requests"
  BY DEF TypeInv, ServeRequest
<1>1. PICK P : session' = [session EXCEPT
                  ![s].todo = @ \ {r}, ![s].marked = @ \cup {r},
                  ![s].left = @ - Cardinality(P),
                  ![s].taken = Extend(@, P, GrantFor(r))]
  BY DEF ServeRequest
<1>2. session'[s].run = "requests" /\ session'[s].taken = Extend(session[s].taken, P, GrantFor(r))
  BY <1>0, <1>1 DEF TypeInv, SessionRow
<1>3. \A m : GrantFor(r) # [user |-> m, request |-> NoRequest]
  BY UserAssumption DEF GrantFor
<1>4. \A m : Shared(s, m)' = Shared(s, m) \ P
  BY <1>2, <1>3, SharedExtend
<1>. QED BY <1>0, <1>2, <1>4 DEF Fair

\* A session that does nothing stays as fair and strict as it was.
LEMMA SameSession ==
  ASSUME NEW s \in Sessions, session'[s] = session[s]
  PROVE  (Strict(s) => Strict(s)') /\ (Fair(s) => Fair(s)')
<1>1. \A r : Given(s, r)' = Given(s, r)
  BY DEF Given
<1>2. \A m : Shared(s, m)' = Shared(s, m)
  BY DEF Shared
<1>3. Eligible(s)' = Eligible(s) /\ \A m : InRun(s, m)' = InRun(s, m)
  BY <1>2 DEF Eligible, Today, InRun
<1>4. TurnsOf(s)' = TurnsOf(s)
  BY <1>1 DEF Turns, TurnsOf
<1>5. Strict(s) => Strict(s)'
  BY <1>4 DEF Strict
<1>6. Fair(s) => Fair(s)'
  BY <1>2, <1>3 DEF Fair
<1>. QED BY <1>5, <1>6

LEMMA BeginFair ==
  ASSUME TypeInv, NEW s \in Sessions, Begin(s) \/ Rollback(s) \/ Commit(s)
  PROVE  Strict(s)' /\ Fair(s)'
<1>0. session \in [Sessions -> SessionRow]
  BY DEF TypeInv
<1>1. \/ session'[s].taken = Nothing /\ session'[s].run \in {"idle", "requests"}
      \/ BeginRotation(s)
  <2>1. CASE Rollback(s) \/ Commit(s)
    BY <1>0, <2>1 DEF Rollback, Commit, Idle
  <2>2. ASSUME NEW limit, NEW auto, BeginRun(s, limit, auto)
        PROVE  session'[s].taken = Nothing /\ session'[s].run = "requests"
    BY <1>0, <2>2 DEF BeginRun, Idle
  <2>. QED BY <2>1, <2>2 DEF Begin
<1>2. session'[s].taken = Nothing
  BY <1>0, <1>1, BeginRotationIs
<1>3. \A m : Shared(s, m)' = {} /\ Given(s, m)' = {}
  BY <1>2 DEF Shared, Given, Nothing
<1>4. CASE session'[s].run \in {"idle", "requests"}
  BY <1>3, <1>4 DEF Strict, Fair
<1>5. CASE BeginRotation(s)
  <2>. DEFINE y == session'[s]
  <2>1. /\ y.run = "rotate" /\ y.turn = 1 /\ y.rotations = 0 /\ DOMAIN y.seen = Rotating
        /\ y.missed = [r \in Requests |-> 0]
        /\ y.queue \in SetToSeqs({r \in Rotating : request[r].done < Quantity[r]})
    BY <1>0, <1>5, BeginRotationIs
  <2>2. /\ y.queue \in Seq(Requests)
        /\ \A i \in DOMAIN y.queue : y.queue[i] \in Rotating
        /\ \A i, j \in DOMAIN y.queue : i # j => y.queue[i] # y.queue[j]
    BY <2>1, RotatingSeq
  <2>3. Rotating \subseteq Requests
    BY DEF Rotating
  <2>4. TurnsOf(s)' = [r \in Rotating |-> 0]
    <3>1. \A r \in Rotating : y.missed[r] = 0
      BY <2>1, <2>3
    <3>2. \A r : Cardinality(Given(s, r)') = 0
      BY <1>3, FS_EmptySet
    <3>. QED BY <2>1, <3>1, <3>2 DEF TurnsOf, Turns
  <2>5. \A i \in DOMAIN y.queue : ~(i < 1)
    BY <2>2
  <2>6. InStep(y.queue, 1, 0, [r \in Rotating |-> 0])
    BY <2>2, <2>5 DEF InStep
  <2>7. Strict(s)'
    BY <2>1, <2>4, <2>6 DEF Strict
  <2>. QED BY <2>1, <2>7 DEF Fair
<1>. QED BY <1>1, <1>4, <1>5

LEMMA DealInvHolds == Spec => [](\A s \in Sessions : Strict(s) /\ Fair(s))
<1>. DEFINE DealInv == \A s \in Sessions : Strict(s) /\ Fair(s)
<1>1. Init => DealInv
  BY DEF Init, Strict, Fair, Idle
<1>2. TypeInv /\ TypeInv' /\ RequestsInv /\ DealInv /\ [Next]_vars => DealInv'
  <2>. SUFFICES ASSUME TypeInv, TypeInv', RequestsInv, DealInv, [Next]_vars PROVE DealInv'
    OBVIOUS
  <2>1. ASSUME UNCHANGED session PROVE DealInv'
    BY <2>1, SameSession
  <2>2. ASSUME NEW s \in Sessions, Strict(s)', Fair(s)',
               \A t \in Sessions \ {s} : session'[t] = session[t]
        PROVE  DealInv'
    BY <2>2, SameSession
  <2>3. CASE Client
    BY <2>1, <2>3 DEF Client, Submit, Approve, Resolve, SetAvailable
  <2>4. CASE Manager
    BY <2>1, <2>4 DEF Manager, Assign, Reassign, AutoReassign, Unassign
  <2>5. ASSUME NEW s \in Sessions, Begin(s) \/ Step(s) \/ Rollback(s) PROVE DealInv'
    <3>1. SessionInv(s)
      BY DEF RequestsInv
    <3>2. Strict(s)' /\ Fair(s)'
      <4>1. CASE Begin(s) \/ Rollback(s) \/ Commit(s)
        BY <4>1, BeginFair
      <4>2. CASE ReadMembers(s)
        <5>0. PICK P, f :
                session' = [session EXCEPT ![s].run = "share", ![s].load = f, ![s].scanned = P]
          BY <4>2 DEF ReadMembers
        <5>1. session'[s].run = "share"
          BY <5>0 DEF TypeInv, SessionRow
        <5>. QED BY <4>2, <5>1, ReadMembersFair DEF Strict
      <4>3. ASSUME NEW r \in Requests, ServeRequest(s, r) PROVE Strict(s)' /\ Fair(s)'
        <5>1. session'[s].run = "requests"
          BY <4>3 DEF ServeRequest, TypeInv, SessionRow
        <5>. QED BY <4>3, <5>1, ServeRequestFair DEF Strict
      <4>4. ASSUME NEW l \in Leads, NEW m \in Members, ShareLead(s, l, m)
            PROVE  Strict(s)' /\ Fair(s)'
        <5>1. session'[s].run = "share"
          BY <4>4 DEF ShareLead, TypeInv, SessionRow
        <5>. QED BY <3>1, <4>4, <5>1, ShareLeadFair DEF Strict
      <4>5. ASSUME NEW r \in Requests, NEW l \in Leads, Rotate(s, r, l)
            PROVE  Strict(s)' /\ Fair(s)'
        <5>1. session'[s].run = "rotate"
          BY <4>5 DEF Rotate, InTurn, TypeInv, SessionRow
        <5>. QED BY <4>5, <5>1, TurnStrict DEF Fair
      <4>6. CASE Walks(s)
        <5>1. session'[s].run = "rotate"
          BY <4>6, WalksIs
        <5>2. Strict(s)'
          BY <4>6, TurnStrict, NextRoundStrict DEF Walks
        <5>. QED BY <5>1, <5>2 DEF Fair
      <4>. QED BY <2>5, <4>1, <4>2, <4>3, <4>4, <4>5, <4>6 DEF Step, Walks
    <3>3. \A t \in Sessions \ {s} : session'[t] = session[t]
      <4>1. CASE Commit(s)
        BY <4>1 DEF Commit, TypeInv
      <4>2. CASE Works(s)
        BY <4>2 DEF Works
      <4>3. Begin(s) \/ Rollback(s) => Works(s)
        BY BeginWorks
      <4>4. \A r \in Requests : ServeRequest(s, r) => Works(s)
        BY ServeRequestWorks
      <4>5. ReadMembers(s) => Works(s)
        BY ReadMembersWorks
      <4>6. \A l \in Leads, m \in Members : ShareLead(s, l, m) => Works(s)
        BY ShareLeadWorks
      <4>7. \A r \in Requests, l \in Leads : Rotate(s, r, l) => Works(s)
        BY RotateWorks
      <4>8. Walks(s) => Works(s)
        BY WalksWorks
      <4>. QED BY <2>5, <4>1, <4>2, <4>3, <4>4, <4>5, <4>6, <4>7, <4>8 DEF Step, Walks
    <3>. QED BY <2>2, <3>2, <3>3
  <2>6. CASE UNCHANGED vars
    BY <2>1, <2>6 DEF vars
  <2>. QED BY <2>3, <2>4, <2>5, <2>6 DEF Next
<1>. QED BY <1>1, <1>2, TypeInvHolds, RequestsInvHolds, PTL DEF Spec

\* Each round of a rotation gives each request that still waits one turn, whatever is
\* spliced out of the queue.
THEOREM StrictRotationHolds == Spec => []StrictRotation
<1>. DEFINE DealInv == \A s \in Sessions : Strict(s) /\ Fair(s)
<1>1. TypeInv /\ DealInv => StrictRotation
  <2>. SUFFICES ASSUME TypeInv, DealInv, NEW s \in Sessions, session[s].run = "rotate"
                PROVE  /\ \A i \in DOMAIN session[s].queue :
                            session[s].rotations <= Turns(s, session[s].queue[i])
                       /\ \A r \in DOMAIN session[s].seen :
                            Turns(s, r) <= session[s].rotations + 1
    BY DEF StrictRotation
  <2>1. session[s].rotations \in Nat
    BY DEF TypeInv, SessionRow
  <2>2. InStep(session[s].queue, session[s].turn, session[s].rotations, TurnsOf(s))
    BY DEF Strict
  <2>3. \A r \in DOMAIN session[s].seen :
          TurnsOf(s)[r] = Turns(s, r) /\ TurnsOf(s)[r] <= session[s].rotations + 1
    BY <2>2 DEF InStep, TurnsOf
  <2>4. TurnsOf(s) \in [DOMAIN session[s].seen -> Nat]
    BY TurnsCount
  <2>5. \A i \in DOMAIN session[s].queue :
          /\ session[s].queue[i] \in DOMAIN session[s].seen
          /\ \/ TurnsOf(s)[session[s].queue[i]] = session[s].rotations + 1
             \/ TurnsOf(s)[session[s].queue[i]] = session[s].rotations
    BY <2>1, <2>2, <2>4 DEF InStep
  <2>6. \A i \in DOMAIN session[s].queue : session[s].rotations <= Turns(s, session[s].queue[i])
    BY <2>1, <2>3, <2>5
  <2>. QED BY <2>3, <2>6
<1>. QED BY <1>1, TypeInvHolds, DealInvHolds, PTL

\* Within a run nobody who may still get leads falls behind by more than a share.
THEOREM FairSharesHolds == Spec => []FairShares
<1>1. (\A s \in Sessions : Strict(s) /\ Fair(s)) => FairShares
  BY DEF Fair, FairShares
<1>. QED BY <1>1, DealInvHolds, PTL

-----------------------------------------------------------------------------
(* What a session is about to give, and to whom.                            *)

DealtIn(s, r) == session[s].seen[r].done + Cardinality(Given(s, r))

\* A lead taken for a request is for the one who made it; only a rotation takes
\* leads from a pool, it takes them for the requests it has locked, and those in its
\* queue are the ones that do not have what they ask for.
GrantsInv(s) ==
  LET x == session[s] IN
  /\ \A l \in DOMAIN x.taken : x.taken[l].request # NoRequest =>
       x.taken[l].user = Requester[x.taken[l].request]
  /\ x.run # "rotate" => Mine(s) \cap Pooled = {}
  /\ x.run = "rotate" =>
       /\ \A l \in DOMAIN x.taken : x.taken[l].request \in DOMAIN x.seen
       /\ \A i \in DOMAIN x.queue :
            x.queue[i] \in DOMAIN x.seen /\ DealtIn(s, x.queue[i]) < Quantity[x.queue[i]]
       /\ \A r \in DOMAIN x.seen : Given(s, r) # {} => DealtIn(s, r) <= Quantity[r]

\* By its own count a run keeps every member within the cap.
CapInv(s) ==
  /\ session[s].run # "share" => \A m \in Members : Shared(s, m) = {}
  /\ session[s].run = "share" => \A m \in Members :
       /\ Shared(s, m) # {} => m \in DOMAIN session[s].load
       /\ m \in DOMAIN session[s].load /\ Cap[m] # 0 => Today(s, m) <= Cap[m]

\* The two counters of a request, and what each path has delivered.
CounterInv(q, d, n) ==
  /\ q.status \in {"none", "pending"} => q.approved = 0
  /\ q.approved = 0 => q.done = d.rotation
  /\ q.done \in {d.fulfilment, d.fulfilment + d.rotation}
  /\ d.rotation <= n

AllotInv ==
  /\ \A r \in Requests : CounterInv(request[r], delivered[r], Quantity[r])
  /\ \A s \in Sessions : GrantsInv(s) /\ CapInv(s)

LEMMA SameAllot ==
  ASSUME NEW t \in Sessions, session'[t] = session[t], GrantsInv(t), CapInv(t)
  PROVE  GrantsInv(t)' /\ CapInv(t)'
<1>1. \A r : Given(t, r)' = Given(t, r) /\ Shared(t, r)' = Shared(t, r)
  BY DEF Given, Shared
<1>2. Mine(t)' = Mine(t)
  BY DEF Mine
<1>3. \A r : DealtIn(t, r)' = DealtIn(t, r) /\ Today(t, r)' = Today(t, r)
  BY <1>1 DEF DealtIn, Today, InRun
<1>. QED BY <1>1, <1>2, <1>3 DEF GrantsInv, CapInv

\* A session changes itself only.
LEMMA SessionAllot ==
  ASSUME AllotInv, NEW s \in Sessions, UNCHANGED <<request, delivered>>,
         \A t \in Sessions \ {s} : session'[t] = session[t],
         GrantsInv(s)', CapInv(s)'
  PROVE  AllotInv'
<1>1. \A t \in Sessions \ {s} : GrantsInv(t)' /\ CapInv(t)'
  BY SameAllot DEF AllotInv
<1>. QED BY <1>1 DEF AllotInv

\* A session that has taken nothing yet.
LEMMA FreshAllot ==
  ASSUME NEW s \in Sessions, session'[s] \in SessionRow,
         session'[s].scanned = {}, session'[s].taken = Nothing, session'[s].run # "share",
         session'[s].run = "rotate" =>
           \A i \in DOMAIN session'[s].queue : LET r == session'[s].queue[i] IN
             r \in DOMAIN session'[s].seen /\ session'[s].seen[r].done < Quantity[r]
  PROVE  GrantsInv(s)' /\ CapInv(s)'
<1>1. \A r : Given(s, r)' = {} /\ Shared(s, r)' = {}
  BY DEF Given, Shared, Nothing
<1>2. Mine(s)' = {} /\ DOMAIN session'[s].taken = {}
  BY DEF Mine, Nothing
<1>3. \A r \in DOMAIN session'[s].seen : DealtIn(s, r)' = session'[s].seen[r].done
  <2>1. \A r \in DOMAIN session'[s].seen : session'[s].seen[r] \in RequestRow
    BY PartialElim DEF SessionRow
  <2>2. \A r \in DOMAIN session'[s].seen : session'[s].seen[r].done \in Nat
    BY <2>1 DEF RequestRow
  <2>3. \A r : DealtIn(s, r)' = session'[s].seen[r].done + 0
    BY <1>1, FS_EmptySet DEF DealtIn
  <2>. QED BY <2>2, <2>3
<1>. QED BY <1>1, <1>2, <1>3 DEF GrantsInv, CapInv

LEMMA BeginAllot ==
  ASSUME TypeInv, TypeInv', AllotInv, NEW s \in Sessions, Begin(s) \/ Rollback(s)
  PROVE  AllotInv'
<1>0. session \in [Sessions -> SessionRow] /\ session'[s] \in SessionRow
  BY DEF TypeInv
<1>1. UNCHANGED <<request, delivered>> /\ \A t \in Sessions \ {s} : session'[t] = session[t]
  BY <1>0 DEF Begin, BeginRun, BeginRotation, Rollback
<1>2. GrantsInv(s)' /\ CapInv(s)'
  <2>1. ASSUME NEW limit, NEW auto, BeginRun(s, limit, auto) PROVE GrantsInv(s)' /\ CapInv(s)'
    <3>1. PICK R, T : session' = [session EXCEPT ![s] =
              [Idle EXCEPT !.run = "requests", !.auto = auto, !.left = limit,
                           !.seen = R, !.todo = T]]
      BY <2>1 DEF BeginRun
    <3>2. session'[s].scanned = {} /\ session'[s].taken = Nothing /\ session'[s].run = "requests"
      BY <1>0, <3>1 DEF Idle
    <3>. QED BY <1>0, <3>2, FreshAllot
  <2>2. CASE BeginRotation(s)
    <3>1. /\ session'[s].scanned = {} /\ session'[s].taken = Nothing
          /\ session'[s].run = "rotate"
          /\ session'[s].seen = [r \in Rotating |-> request[r]]
          /\ session'[s].queue \in SetToSeqs({r \in Rotating : request[r].done < Quantity[r]})
      BY <1>0, <2>2, BeginRotationIs
    <3>2. \A i \in DOMAIN session'[s].queue : LET r == session'[s].queue[i] IN
            r \in DOMAIN session'[s].seen /\ session'[s].seen[r].done < Quantity[r]
      BY <3>1, RotatingSeq
    <3>. QED BY <1>0, <3>1, <3>2, FreshAllot
  <2>3. CASE Rollback(s)
    <3>1. session'[s].scanned = {} /\ session'[s].taken = Nothing /\ session'[s].run = "idle"
      BY <1>0, <2>3 DEF Rollback, Idle
    <3>. QED BY <1>0, <3>1, FreshAllot
  <2>. QED BY <2>1, <2>2, <2>3 DEF Begin
<1>. QED BY <1>1, <1>2, SessionAllot

LEMMA ServeRequestAllot ==
  ASSUME TypeInv, AllotInv, NEW s \in Sessions, NEW r \in Requests, ServeRequest(s, r)
  PROVE  AllotInv'
<1>0. /\ session \in [Sessions -> SessionRow] /\ session[s] \in SessionRow
      /\ session[s].run = "requests" /\ GrantsInv(s) /\ CapInv(s)
  BY DEF TypeInv, ServeRequest, AllotInv
<1>1. PICK P \in Picks(Assignable \cap Fits[r], Need(s, r)) :
        session' = [session EXCEPT
          ![s].todo = @ \ {r}, ![s].marked = @ \cup {r},
          ![s].left = @ - Cardinality(P),
          ![s].taken = Extend(@, P, GrantFor(r))]
  BY DEF ServeRequest
<1>2. /\ session'[s].run = "requests" /\ session'[s].scanned = session[s].scanned
      /\ session'[s].taken = Extend(session[s].taken, P, GrantFor(r))
  BY <1>0, <1>1 DEF SessionRow
<1>3. P \cap Pooled = {}
  BY DEF Picks, Assignable
<1>4. \A m : Shared(s, m)' = Shared(s, m) \ P
  <2>1. \A m : GrantFor(r) # [user |-> m, request |-> NoRequest]
    BY UserAssumption DEF GrantFor
  <2>. QED BY <1>2, <2>1, SharedExtend
<1>5. CapInv(s)'
  BY <1>0, <1>2, <1>4 DEF CapInv
<1>6. GrantsInv(s)'
  BY <1>0, <1>2, <1>3 DEF GrantsInv, Mine, Extend, GrantFor
<1>7. UNCHANGED <<request, delivered>> /\ \A t \in Sessions \ {s} : session'[t] = session[t]
  BY <1>0, <1>1 DEF ServeRequest
<1>. QED BY <1>5, <1>6, <1>7, SessionAllot

LEMMA ReadMembersAllot ==
  ASSUME TypeInv, AllotInv, NEW s \in Sessions, ReadMembers(s)
  PROVE  AllotInv'
<1>. DEFINE M == {m \in available : UnderCap(m, Load(s, m))}
            n == IF M = {} THEN 0 ELSE session[s].left
<1>0. /\ session \in [Sessions -> SessionRow] /\ session[s] \in SessionRow
      /\ session[s].run = "requests" /\ GrantsInv(s) /\ CapInv(s)
  BY DEF TypeInv, ReadMembers, Served, AllotInv
<1>1. PICK P \in Picks(Assignable, n) :
        session' = [session EXCEPT ![s].run = "share",
                                   ![s].load = [m \in M |-> Load(s, m)],
                                   ![s].scanned = P]
  BY DEF ReadMembers
<1>2. /\ session'[s].run = "share" /\ session'[s].scanned = P
      /\ session'[s].load = [m \in M |-> Load(s, m)]
      /\ session'[s].taken = session[s].taken
  BY <1>0, <1>1 DEF SessionRow
<1>3. P \cap Pooled = {}
  BY DEF Picks, Assignable
<1>4. \A m \in Members : Shared(s, m)' = {}
  BY <1>0, <1>2 DEF CapInv, Shared
<1>5. \A m \in M : Cap[m] # 0 => Today(s, m)' <= Cap[m]
  <2>. SUFFICES ASSUME NEW m \in M, Cap[m] # 0 PROVE Today(s, m)' <= Cap[m]
    OBVIOUS
  <2>1. m \in Members /\ Load(s, m) < Cap[m] /\ Load(s, m) \in Nat /\ Cap[m] \in Nat
    BY Counts, RequestAssumption DEF UnderCap, TypeInv, Load
  <2>2. Today(s, m)' = session'[s].load[m] + Cardinality(Shared(s, m)')
    BY DEF Today, InRun
  <2>3. session'[s].load[m] = Load(s, m)
    BY <1>2
  <2>4. Cardinality(Shared(s, m)') = 0
    BY <1>4, <2>1, FS_EmptySet
  <2>. QED BY <2>1, <2>2, <2>3, <2>4
<1>6. DOMAIN session'[s].load = M
  BY <1>2
<1>7. CapInv(s)'
  <2>. HIDE DEF M
  <2>. QED BY <1>2, <1>4, <1>5, <1>6 DEF CapInv
<1>8. GrantsInv(s)'
  BY <1>0, <1>2, <1>3 DEF GrantsInv, Mine
<1>9. UNCHANGED <<request, delivered>> /\ \A t \in Sessions \ {s} : session'[t] = session[t]
  BY <1>0, <1>1 DEF ReadMembers
<1>. QED BY <1>7, <1>8, <1>9, SessionAllot

LEMMA ShareLeadAllot ==
  ASSUME TypeInv, RequestsInv, AllotInv, NEW s \in Sessions, NEW l \in Leads, NEW k \in Members,
         ShareLead(s, l, k)
  PROVE  AllotInv'
<1>0. /\ session \in [Sessions -> SessionRow] /\ session[s] \in SessionRow
      /\ session[s].run = "share" /\ GrantsInv(s) /\ CapInv(s) /\ l \in session[s].scanned
  BY DEF TypeInv, ShareLead, AllotInv
<1>1. /\ session'[s].run = "share" /\ session'[s].load = session[s].load
      /\ session'[s].scanned = session[s].scanned \ {l}
      /\ session'[s].taken = Extend(session[s].taken, {l}, [user |-> k, request |-> NoRequest])
  BY <1>0 DEF SessionRow, ShareLead
<1>2. l \notin DOMAIN session[s].taken
  BY <1>0 DEF RequestsInv, SessionInv
<1>3. k \in Eligible(s)
  BY DEF ShareLead, PickMember
<1>4. \A m : Shared(s, m)' = IF m = k THEN Shared(s, m) \cup {l} ELSE Shared(s, m)
  <2>. DEFINE g == [user |-> k, request |-> NoRequest]
  <2>1. session'[s].taken = Extend(session[s].taken, {l}, g)
    BY <1>1
  <2>2. \A m : l \notin Shared(s, m)
    BY <1>2 DEF Shared
  <2>3. \A m : g = [user |-> m, request |-> NoRequest] <=> m = k
    OBVIOUS
  <2>. HIDE DEF g
  <2>4. \A m : Shared(s, m)' = IF g = [user |-> m, request |-> NoRequest]
                               THEN Shared(s, m) \cup {l} ELSE Shared(s, m) \ {l}
    BY <2>1, SharedExtend
  <2>. QED BY <2>2, <2>3, <2>4
<1>5. k \in DOMAIN session[s].load /\ (Cap[k] # 0 => Today(s, k)' <= Cap[k])
  <2>1. k \in DOMAIN session[s].load /\ UnderCap(k, Today(s, k))
    BY <1>3 DEF Eligible
  <2>2. IsFiniteSet(Shared(s, k)) /\ Cardinality(Shared(s, k)) \in Nat /\ l \notin Shared(s, k)
    BY <1>2, GivenFinite DEF Shared
  <2>3. InRun(s, k) \in Nat /\ InRun(s, k)' = InRun(s, k) + 1
    BY <1>4, <2>2, FS_AddElement DEF InRun
  <2>4. session[s].load[k] \in Nat
    BY <1>0, <2>1, PartialElim DEF SessionRow
  <2>5. Today(s, k) \in Nat /\ Today(s, k)' = Today(s, k) + 1
    BY <1>1, <2>3, <2>4 DEF Today
  <2>. QED BY <2>1, <2>5, RequestAssumption DEF UnderCap
<1>6. \A m : m # k => Today(s, m)' = Today(s, m)
  BY <1>1, <1>4 DEF Today, InRun
<1>7. CapInv(s)'
  BY <1>0, <1>1, <1>4, <1>5, <1>6 DEF CapInv
<1>8. GrantsInv(s)'
  BY <1>0, <1>1 DEF GrantsInv, Mine, Extend
<1>9. UNCHANGED <<request, delivered>> /\ \A t \in Sessions \ {s} : session'[t] = session[t]
  BY <1>0 DEF ShareLead
<1>. QED BY <1>7, <1>8, <1>9, SessionAllot

LEMMA RotateAllot ==
  ASSUME TypeInv, AllotInv, NEW s \in Sessions, Strict(s), NEW r \in Requests, NEW l \in Leads,
         Rotate(s, r, l)
  PROVE  AllotInv'
<1>0. /\ session \in [Sessions -> SessionRow] /\ session[s] \in SessionRow
      /\ session[s].run = "rotate" /\ GrantsInv(s) /\ CapInv(s)
      /\ session[s].queue \in Seq(Requests) /\ session[s].turn \in DOMAIN session[s].queue
      /\ r = session[s].queue[session[s].turn]
      /\ DOMAIN session[s].seen \subseteq Requests
  BY PartialElim DEF TypeInv, Rotate, InTurn, AllotInv, SessionRow
<1>1. /\ session'[s].run = "rotate" /\ session'[s].seen = session[s].seen
      /\ session'[s].taken = Extend(session[s].taken, {l}, GrantFor(r))
      /\ session'[s].queue = IF DealtIn(s, r) + 1 = Quantity[r]
                             THEN RemoveAt(session[s].queue, session[s].turn)
                             ELSE session[s].queue
  BY <1>0 DEF SessionRow, Rotate, Filled, DealtIn
<1>2. l \notin Mine(s)
  BY LockedMine DEF Rotate, Unowned
<1>3. \A q : Given(s, q)' = IF q = r THEN Given(s, q) \cup {l} ELSE Given(s, q)
  <2>1. GrantFor(r).request = r /\ session'[s].taken = Extend(session[s].taken, {l}, GrantFor(r))
    BY <1>1 DEF GrantFor
  <2>2. \A q : Given(s, q)' = IF q = r THEN Given(s, q) \cup {l} ELSE Given(s, q) \ {l}
    BY <2>1, GivenExtend
  <2>3. \A q : l \notin Given(s, q)
    BY <1>2 DEF Given, Mine
  <2>. QED BY <2>2, <2>3
<1>4. \A q \in DOMAIN session[s].seen :
        DealtIn(s, q) \in Nat /\ DealtIn(s, q)' = IF q = r THEN DealtIn(s, q) + 1 ELSE DealtIn(s, q)
  <2>. SUFFICES ASSUME NEW q \in DOMAIN session[s].seen
                PROVE  /\ DealtIn(s, q) \in Nat
                       /\ DealtIn(s, q)' = IF q = r THEN DealtIn(s, q) + 1 ELSE DealtIn(s, q)
    OBVIOUS
  <2>1. session[s].seen[q].done \in Nat /\ session'[s].seen[q].done = session[s].seen[q].done
    <3>1. session[s].seen[q] \in RequestRow
      BY <1>0, PartialElim DEF SessionRow
    <3>. QED BY <1>1, <3>1 DEF RequestRow
  <2>2. IsFiniteSet(Given(s, q)) /\ Cardinality(Given(s, q)) \in Nat /\ l \notin Given(s, q)
    BY <1>2, GivenFinite
  <2>3. Cardinality(Given(s, q) \cup {l}) = Cardinality(Given(s, q)) + 1
    BY <2>2, FS_AddElement
  <2>4. Cardinality(Given(s, q)') =
          IF q = r THEN Cardinality(Given(s, q)) + 1 ELSE Cardinality(Given(s, q))
    BY <1>3, <2>3
  <2>5. DealtIn(s, q)' = session'[s].seen[q].done + Cardinality(Given(s, q)')
    BY DEF DealtIn
  <2>. QED BY <2>1, <2>2, <2>4, <2>5 DEF DealtIn
<1>5. r \in DOMAIN session[s].seen /\ DealtIn(s, r) < Quantity[r] /\ Quantity[r] \in Nat
  BY <1>0, RequestAssumption DEF GrantsInv
<1>6. \A m : Shared(s, m)' = Shared(s, m) \ {l}
  <2>1. \A m : GrantFor(r) # [user |-> m, request |-> NoRequest]
    BY UserAssumption DEF GrantFor
  <2>. QED BY <1>1, <2>1, SharedExtend
<1>7. CapInv(s)'
  BY <1>0, <1>1, <1>6 DEF CapInv
<1>8. GrantsInv(s)'
  <2>1. \A k \in DOMAIN session'[s].taken :
          /\ session'[s].taken[k].request \in DOMAIN session[s].seen
          /\ session'[s].taken[k].request # NoRequest =>
               session'[s].taken[k].user = Requester[session'[s].taken[k].request]
    <3>. SUFFICES ASSUME NEW k \in DOMAIN session'[s].taken
                  PROVE  /\ session'[s].taken[k].request \in DOMAIN session[s].seen
                         /\ session'[s].taken[k].request # NoRequest =>
                              session'[s].taken[k].user = Requester[session'[s].taken[k].request]
      OBVIOUS
    <3>1. CASE k = l
      BY <1>1, <1>5, <3>1 DEF Extend, GrantFor
    <3>2. CASE k # l
      <4>1. k \in DOMAIN session[s].taken /\ session'[s].taken[k] = session[s].taken[k]
        BY <1>1, <3>2 DEF Extend
      <4>. QED BY <1>0, <4>1 DEF GrantsInv
    <3>. QED BY <3>1, <3>2
  <2>2. \A q \in DOMAIN session[s].seen : Given(s, q)' # {} => DealtIn(s, q)' <= Quantity[q]
    <3>. SUFFICES ASSUME NEW q \in DOMAIN session[s].seen, Given(s, q)' # {}
                  PROVE  DealtIn(s, q)' <= Quantity[q]
      OBVIOUS
    <3>1. CASE q = r
      BY <1>4, <1>5, <3>1
    <3>2. CASE q # r
      BY <1>0, <1>3, <1>4, <3>2 DEF GrantsInv
    <3>. QED BY <3>1, <3>2
  <2>3. ASSUME NEW i \in DOMAIN session'[s].queue
        PROVE  \E k \in DOMAIN session[s].queue :
                 /\ session'[s].queue[i] = session[s].queue[k]
                 /\ session[s].queue[k] = r => DealtIn(s, r) + 1 < Quantity[r]
    <3>1. CASE DealtIn(s, r) + 1 = Quantity[r]
      <4>. DEFINE k == IF i < session[s].turn THEN i ELSE i + 1
      <4>1. session'[s].queue = RemoveAt(session[s].queue, session[s].turn)
        BY <1>1, <3>1
      <4>2. DOMAIN session'[s].queue = 1..(Len(session[s].queue) - 1)
        BY <1>0, <4>1, Spliced
      <4>3. /\ k \in DOMAIN session[s].queue /\ k # session[s].turn
            /\ session'[s].queue[i] = session[s].queue[k]
        <5>1. /\ session[s].turn \in Nat /\ Len(session[s].queue) \in Nat
              /\ DOMAIN session[s].queue = 1..Len(session[s].queue)
          BY <1>0
        <5>2. \A j \in 1..(Len(session[s].queue) - 1) :
                RemoveAt(session[s].queue, session[s].turn)[j] =
                  IF j < session[s].turn THEN session[s].queue[j] ELSE session[s].queue[j + 1]
          BY <1>0, Spliced
        <5>3. session'[s].queue[i] =
                IF i < session[s].turn THEN session[s].queue[i] ELSE session[s].queue[i + 1]
          BY <4>1, <4>2, <5>2
        <5>4. i \in 1..(Len(session[s].queue) - 1)
          BY <4>2
        <5>. QED BY <5>1, <5>3, <5>4
      <4>4. session[s].queue[k] # r
        <5>1. \A a, b \in DOMAIN session[s].queue :
                a # b => session[s].queue[a] # session[s].queue[b]
          BY <1>0 DEF Strict, InStep
        <5>. HIDE DEF k
        <5>. QED BY <1>0, <4>3, <5>1
      <4>. HIDE DEF k
      <4>. QED BY <4>3, <4>4
    <3>2. CASE DealtIn(s, r) + 1 # Quantity[r]
      BY <1>1, <1>4, <1>5, <3>2
    <3>. QED BY <3>1, <3>2
  <2>4. ASSUME NEW q \in Requests, NEW i \in DOMAIN session'[s].queue,
               q = session'[s].queue[i]
        PROVE  q \in DOMAIN session[s].seen /\ DealtIn(s, q)' < Quantity[q]
    BY <1>0, <1>4, <2>3, <2>4 DEF GrantsInv
  <2>5. \A i \in DOMAIN session'[s].queue : session'[s].queue[i] \in Requests
    BY <1>0, <2>3
  <2>. QED BY <1>1, <2>1, <2>2, <2>4, <2>5 DEF GrantsInv
<1>9. UNCHANGED <<request, delivered>> /\ \A t \in Sessions \ {s} : session'[t] = session[t]
  BY <1>0 DEF Rotate
<1>. QED BY <1>7, <1>8, <1>9, SessionAllot

LEMMA WalksAllot ==
  ASSUME TypeInv, AllotInv, NEW s \in Sessions, Walks(s)
  PROVE  AllotInv'
<1>1. GrantsInv(s) /\ CapInv(s)
  BY DEF AllotInv
<1>2. \A r : Given(s, r)' = Given(s, r) /\ Shared(s, r)' = Shared(s, r)
  BY WalksIs DEF Given, Shared
<1>3. Mine(s)' = Mine(s) /\ \A r : DealtIn(s, r)' = DealtIn(s, r)
  BY <1>2, WalksIs DEF Mine, DealtIn
<1>4. GrantsInv(s)'
  BY <1>1, <1>2, <1>3, WalksIs DEF GrantsInv
<1>5. CapInv(s)'
  BY <1>1, <1>2, WalksIs DEF CapInv
<1>. QED BY <1>4, <1>5, WalksIs, SessionAllot

\* A rotation gives leads only to the requests it has locked.
LEMMA GivenLocked ==
  ASSUME NEW s \in Sessions, GrantsInv(s), session[s].run = "rotate",
         NEW r, r \notin DOMAIN session[s].seen
  PROVE  Given(s, r) = {}
BY DEF GrantsInv, Given

LEMMA CommitCounters ==
  ASSUME TypeInv, RequestsInv, AllotInv, NEW s \in Sessions, Commit(s), NEW r \in Requests
  PROVE  CounterInv(request'[r], delivered'[r], Quantity[r])
<1>. DEFINE x == session[s]
            n == Cardinality(Given(s, r))
            q == request[r]
            d == delivered[r]
<1>0. n \in Nat /\ SessionInv(s) /\ GrantsInv(s) /\ CounterInv(q, d, Quantity[r])
  BY Counts DEF RequestsInv, AllotInv
<1>1. /\ q \in RequestRow /\ d \in Delivery
      /\ q.approved \in Nat /\ q.fulfilled \in Nat /\ q.done \in Nat
      /\ d.fulfilment \in Nat /\ d.rotation \in Nat
  BY DEF TypeInv, RequestRow, Delivery
<1>2. q.fulfilled = d.fulfilment /\ (q.status \in {"none", "pending"} => q.fulfilled = 0)
  BY DEF RequestsInv, FulfilmentCounts
<1>3. /\ delivered'[r] = Counted(s, r)
      /\ request'[r] = IF r \in DOMAIN x.seen THEN Written(s, r) ELSE q
  BY DEF Commit
<1>4. CASE x.run # "rotate" /\ r \notin x.marked
  <2>1. n = 0 /\ Written(s, r) = q
    BY <1>4, GivenSeen DEF Written
  <2>2. delivered'[r] = [d EXCEPT !.fulfilment = @ + n]
    BY <1>3, <1>4 DEF Counted
  <2>3. delivered'[r].fulfilment = d.fulfilment /\ delivered'[r].rotation = d.rotation
    BY <1>1, <2>1, <2>2 DEF Delivery
  <2>4. request'[r] = q
    BY <1>3, <2>1
  <2>. QED BY <1>0, <2>3, <2>4 DEF CounterInv
<1>5. CASE x.run # "rotate" /\ r \in x.marked
  <2>1. r \in DOMAIN x.seen /\ x.seen[r] = q /\ Open(q)
    BY <1>0, <1>5, GivenSeen DEF SessionInv
  <2>2. request'[r] = Marked(q, n)
    BY <1>3, <1>5, <2>1 DEF Written
  <2>3. /\ request'[r].done = q.fulfilled + n /\ request'[r].approved = q.approved
        /\ request'[r].status \in {"fulfilled", "partially_fulfilled", "approved"}
    BY <1>1, <2>2 DEF Marked, RequestRow
  <2>4. delivered'[r] = [d EXCEPT !.fulfilment = @ + n]
    BY <1>3, <1>5 DEF Counted
  <2>5. delivered'[r].fulfilment = d.fulfilment + n /\ delivered'[r].rotation = d.rotation
    BY <1>1, <2>4 DEF Delivery
  <2>6. q.approved > 0
    BY <1>1, <2>1 DEF Open
  <2>. QED BY <1>0, <1>2, <2>3, <2>5, <2>6 DEF CounterInv
<1>6. CASE x.run = "rotate"
  <2>1. delivered'[r] = [d EXCEPT !.rotation = @ + n]
    BY <1>3, <1>6 DEF Counted
  <2>2. delivered'[r].fulfilment = d.fulfilment /\ delivered'[r].rotation = d.rotation + n
    BY <1>1, <2>1 DEF Delivery
  <2>3. CASE r \notin DOMAIN x.seen \/ n = 0
    <3>1. n = 0
      BY <1>0, <1>6, <2>3, GivenLocked, FS_EmptySet
    <3>2. r \notin x.marked
      BY <1>0, <1>6 DEF SessionInv
    <3>3. request'[r] = q
      BY <1>3, <3>1, <3>2 DEF Written
    <3>. QED BY <1>0, <1>1, <2>2, <3>1, <3>3 DEF CounterInv
  <2>4. CASE r \in DOMAIN x.seen /\ n # 0
    <3>1. r \notin x.marked /\ x.seen[r] = q /\ q.status = "pending"
      BY <1>0, <1>6, <2>4 DEF SessionInv
    <3>2. request'[r] = Rotated(r, q, n)
      BY <1>0, <1>3, <1>6, <2>4, <3>1 DEF Written
    <3>3. request'[r].done = q.done + n /\ request'[r].approved = q.approved
      BY <1>1, <3>2 DEF Rotated, RequestRow
    <3>4. q.approved = 0 /\ q.done = d.rotation /\ d.fulfilment = 0
      BY <1>0, <1>2, <3>1 DEF CounterInv
    <3>5. d.rotation + n <= Quantity[r]
      <4>1. Given(s, r) # {}
        BY <2>4, FS_EmptySet
      <4>2. DealtIn(s, r) = d.rotation + n
        BY <3>1, <3>4 DEF DealtIn
      <4>3. \A p \in DOMAIN x.seen : Given(s, p) # {} => DealtIn(s, p) <= Quantity[p]
        BY <1>0, <1>6 DEF GrantsInv
      <4>. QED BY <2>4, <4>1, <4>2, <4>3
    <3>6. n \in Nat
      BY Counts
    <3>. QED BY <1>1, <2>2, <3>3, <3>4, <3>5, <3>6 DEF CounterInv
  <2>. QED BY <2>3, <2>4
<1>. QED BY <1>4, <1>5, <1>6

LEMMA CommitAllot ==
  ASSUME TypeInv, TypeInv', RequestsInv, AllotInv, NEW s \in Sessions, Commit(s)
  PROVE  AllotInv'
<1>1. session'[s] = Idle /\ \A t \in Sessions \ {s} : session'[t] = session[t]
  BY DEF Commit, TypeInv
<1>2. GrantsInv(s)' /\ CapInv(s)'
  <2>1. /\ session'[s].scanned = {} /\ session'[s].taken = Nothing
        /\ session'[s].run = "idle"
    BY <1>1 DEF Idle
  <2>. QED BY <2>1, FreshAllot DEF TypeInv
<1>3. \A t \in Sessions \ {s} : GrantsInv(t)' /\ CapInv(t)'
  BY <1>1, SameAllot DEF AllotInv
<1>. QED BY <1>2, <1>3, CommitCounters DEF AllotInv

LEMMA ClientAllot ==
  ASSUME TypeInv, AllotInv, Client
  PROVE  AllotInv'
<1>1. \A s \in Sessions : session'[s] = session[s]
  BY DEF Client, Submit, Approve, Resolve, SetAvailable
<1>2. \A s \in Sessions : GrantsInv(s)' /\ CapInv(s)'
  BY <1>1, SameAllot DEF AllotInv
<1>3. delivered' = delivered
  BY DEF Client, Submit, Approve, Resolve, SetAvailable
<1>4. \A r \in Requests : CounterInv(request'[r], delivered[r], Quantity[r])
  <2>0. \A r \in Requests : CounterInv(request[r], delivered[r], Quantity[r])
    BY DEF AllotInv
  <2>1. ASSUME NEW r \in Requests, Submit(r) \/ Approve(r) \/ Resolve(r)
        PROVE  /\ \A q \in Requests \ {r} : request'[q] = request[q]
               /\ CounterInv(request'[r], delivered[r], Quantity[r])
    <3>1. CASE Submit(r) \/ Resolve(r)
      BY <2>0, <3>1 DEF Submit, Resolve, CounterInv, TypeInv, RequestRow
    <3>2. CASE Approve(r)
      <4>1. PICK n \in Approvable :
              request' = [request EXCEPT ![r].status = "approved", ![r].approved = n]
        BY <3>2 DEF Approve
      <4>2. n # 0
        BY RequestAssumption
      <4>. QED BY <2>0, <4>1, <4>2 DEF CounterInv, TypeInv, RequestRow
    <3>. QED BY <2>1, <3>1, <3>2
  <2>2. CASE \E m \in Members : SetAvailable(m)
    BY <2>0, <2>2 DEF SetAvailable
  <2>. QED BY <2>0, <2>1, <2>2 DEF Client
<1>. QED BY <1>2, <1>3, <1>4 DEF AllotInv

LEMMA AllotInvHolds == Spec => []AllotInv
<1>1. Init => AllotInv
  BY RequestAssumption DEF Init, AllotInv, GrantsInv, CapInv, CounterInv, Mine, Shared, Idle, Nothing
<1>. DEFINE DealInv == \A s \in Sessions : Strict(s) /\ Fair(s)
<1>2. TypeInv /\ TypeInv' /\ RequestsInv /\ DealInv /\ AllotInv /\ [Next]_vars => AllotInv'
  <2>. SUFFICES ASSUME TypeInv, TypeInv', RequestsInv, DealInv, AllotInv, [Next]_vars
                PROVE  AllotInv'
    OBVIOUS
  <2>1. ASSUME UNCHANGED <<delivered, request, session>> PROVE AllotInv'
    BY <2>1, SameAllot DEF AllotInv
  <2>2. CASE Client
    BY <2>2, ClientAllot
  <2>3. CASE Manager
    BY <2>1, <2>3 DEF Manager, Assign, Reassign, AutoReassign, Unassign
  <2>4. ASSUME NEW s \in Sessions, Begin(s) \/ Rollback(s) PROVE AllotInv'
    BY <2>4, BeginAllot
  <2>5. ASSUME NEW s \in Sessions, Step(s) PROVE AllotInv'
    BY <2>5, ServeRequestAllot, ReadMembersAllot, ShareLeadAllot, RotateAllot, WalksAllot,
       CommitAllot DEF Step, Walks
  <2>6. CASE UNCHANGED vars
    BY <2>1, <2>6 DEF vars
  <2>. QED BY <2>2, <2>3, <2>4, <2>5, <2>6 DEF Next
<1>. QED BY <1>1, <1>2, TypeInvHolds, RequestsInvHolds, DealInvHolds, PTL DEF Spec

-----------------------------------------------------------------------------
(* Why the two claims of the code that fail do fail.                        *)

\* leads_assigned forgets what rotations delivered, all of it and only when the
\* request has been approved since, and never counts a lead twice.
THEOREM OnlyRotationUncountedHolds == Spec => []OnlyRotationUncounted
<1>1. TypeInv /\ RequestsInv /\ AllotInv => OnlyRotationUncounted
  <2>. SUFFICES ASSUME TypeInv, RequestsInv, AllotInv, NEW r \in Requests,
                       request[r].done # delivered[r].fulfilment + delivered[r].rotation
                PROVE  /\ request[r].done = delivered[r].fulfilment
                       /\ delivered[r].rotation > 0 /\ request[r].approved > 0
    BY DEF OnlyRotationUncounted
  <2>1. CounterInv(request[r], delivered[r], Quantity[r])
    BY DEF AllotInv
  <2>2. request[r].fulfilled = delivered[r].fulfilment /\ request[r].fulfilled <= request[r].approved
    BY DEF RequestsInv, FulfilmentCounts
  <2>3. /\ request[r].approved \in Nat /\ request[r].fulfilled \in Nat
        /\ delivered[r].fulfilment \in Nat /\ delivered[r].rotation \in Nat
    BY DEF TypeInv, RequestRow, Delivery
  <2>. QED BY <2>1, <2>2, <2>3 DEF CounterInv
<1>. QED BY <1>1, TypeInvHolds, RequestsInvHolds, AllotInvHolds, PTL

\* A lead that a session has taken changes hands when that session commits only.
LEMMA OnlyItsCommit ==
  ASSUME TypeInv, OwnerInv, [Next]_vars,
         NEW s \in Sessions, NEW l \in DOMAIN session[s].taken, owner'[l] # owner[l]
  PROVE  Commit(s)
<1>1. l \in Mine(s) /\ Locked(l) /\ l \in Leads
  BY LockedMine, PartialElim DEF Mine, TypeInv, SessionRow
<1>2. PICK t \in Sessions : Commit(t)
  BY <1>1, Kinds DEF SparesLocked, Grabs
<1>3. l \in Mine(t)
  BY <1>1, <1>2, CommitInv DEF Mine
<1>4. t = s
  BY <1>1, <1>3 DEF OwnerInv, LocksInv
<1>. QED BY <1>2, <1>4

\* What a member has after a commit.
LEMMA CommitLoad ==
  ASSUME TypeInv, NEW s \in Sessions, NEW m \in Members, Commit(s)
  PROVE  /\ Cardinality({k \in Leads : owner'[k] = m}) \in Nat
         /\ Load(s, m) \in Nat
         /\ Cardinality({k \in Leads : owner'[k] = m}) <= Load(s, m)
<1>. DEFINE A == OwnedBy(m)
            B == GrantedTo(s, m)
            C == {k \in Leads : owner'[k] = m}
<1>1. B \subseteq Leads
  BY PartialElim DEF GrantedTo, TypeInv, SessionRow
<1>2. IsFiniteSet(A) /\ IsFiniteSet(B) /\ IsFiniteSet(C)
  <2>1. A \subseteq Leads /\ C \subseteq Leads
    BY DEF OwnedBy
  <2>. QED BY <1>1, <2>1, RunAssumption, FS_Subset
<1>3. C \subseteq A \cup B
  BY DEF Commit, OwnedBy, GrantedTo
<1>4. IsFiniteSet(A \cup B) /\ IsFiniteSet(A \cap B)
  BY <1>2, FS_Union, FS_Intersection
<1>5. Cardinality(C) <= Cardinality(A \cup B)
  BY <1>3, <1>4, FS_Subset
<1>6. Cardinality(A \cup B) = Cardinality(A) + Cardinality(B) - Cardinality(A \cap B)
  BY <1>2, FS_Union
<1>7. /\ Cardinality(A) \in Nat /\ Cardinality(B) \in Nat /\ Cardinality(C) \in Nat
      /\ Cardinality(A \cap B) \in Nat /\ Cardinality(A \cup B) \in Nat
  BY <1>2, <1>4, FS_CardinalityType
<1>. QED BY <1>5, <1>6, <1>7 DEF Load

\* The daily cap holds as far as the run's own count of the member's leads does.
THEOREM CapByCurrentCountHolds == Spec => CapByCurrentCount
<1>. DEFINE Kept == \A s \in Sessions, l \in Leads, m \in Members :
                      /\ Cap[m] # 0 /\ l \in Shared(s, m) /\ owner'[l] # owner[l]
                      /\ Load(s, m) <= Today(s, m)
                      => Cardinality({k \in Leads : owner'[k] = m}) <= Cap[m]
<1>1. TypeInv /\ OwnerInv /\ AllotInv /\ [Next]_vars => [Kept]_vars
  <2>. SUFFICES ASSUME TypeInv, OwnerInv, AllotInv, [Next]_vars,
                       NEW s \in Sessions, NEW l \in Leads, NEW m \in Members,
                       Cap[m] # 0, l \in Shared(s, m), owner'[l] # owner[l],
                       Load(s, m) <= Today(s, m)
                PROVE  Cardinality({k \in Leads : owner'[k] = m}) <= Cap[m]
    OBVIOUS
  <2>1. Commit(s)
    BY OnlyItsCommit DEF Shared
  <2>2. CapInv(s)
    BY DEF AllotInv
  <2>3. session[s].run = "share"
    BY <2>2 DEF CapInv
  <2>4. Today(s, m) <= Cap[m] /\ m \in DOMAIN session[s].load
    BY <2>2, <2>3 DEF CapInv
  <2>5. Today(s, m) \in Nat
    <3>1. session[s].load[m] \in Nat
      BY <2>4, PartialElim DEF TypeInv, SessionRow
    <3>2. InRun(s, m) \in Nat
      BY GivenFinite DEF InRun
    <3>. QED BY <3>1, <3>2 DEF Today
  <2>6. Cap[m] \in Nat
    BY RequestAssumption
  <2>. QED BY <2>1, <2>4, <2>5, <2>6, CommitLoad
<1>. QED BY <1>1, TypeInvHolds, OwnerInvHolds, AllotInvHolds, PTL DEF Spec, CapByCurrentCount

-----------------------------------------------------------------------------
(* The assignment implements the allocation.                                *)

\* What requests get is within what they were promised, and a rotation serves none
\* that was promised anything.
THEOREM WithinPromiseHolds == Spec => []Allocation!WithinPromise
<1>1. TypeInv /\ RequestsInv /\ AllotInv => Allocation!WithinPromise
  <2>. SUFFICES ASSUME TypeInv, RequestsInv, AllotInv PROVE Allocation!WithinPromise
    OBVIOUS
  <2>1. \A r \in Requests :
          request[r].fulfilled <= request[r].approved /\ delivered[r].rotation <= Quantity[r]
    BY DEF RequestsInv, FulfilmentCounts, AllotInv, CounterInv
  <2>2. ASSUME NEW r \in Allocation!Turning PROVE r \in Requests /\ request[r].approved = 0
    <3>1. PICK s \in Sessions : session[s].run = "rotate" /\ r \in DOMAIN session[s].seen
      BY DEF Allocation!Turning, Round
    <3>2. r \in Requests
      BY <3>1, PartialElim DEF TypeInv, SessionRow
    <3>3. SessionInv(s)
      BY DEF RequestsInv
    <3>4. request[r].status = "pending"
      BY <3>1, <3>3 DEF SessionInv
    <3>. QED BY <3>2, <3>4 DEF AllotInv, CounterInv
  <2>. QED BY <2>1, <2>2 DEF Allocation!WithinPromise, Promised, Received, Dealt
<1>. QED BY <1>1, TypeInvHolds, RequestsInvHolds, AllotInvHolds, PTL

\* What the abstract allocation sees of a step.
SameRequests ==
  \A r \in Requests : /\ request'[r].approved = request[r].approved
                      /\ request'[r].fulfilled = request[r].fulfilled

LEMMA SameCounts ==
  ASSUME SameRequests
  PROVE  UNCHANGED <<Promised, Received>>
BY DEF SameRequests, Promised, Received

\* Members' and administrators' steps: a promise, or nothing.
LEMMA ClientAllocates ==
  ASSUME TypeInv, AllotInv, Client
  PROVE  Allocation!Next \/ UNCHANGED Allocation!vars
<1>1. UNCHANGED <<owner, Dealt, Round>>
  BY DEF Client, Submit, Approve, Resolve, SetAvailable, Dealt, Round
<1>2. ASSUME NEW r \in Requests, Submit(r) \/ Resolve(r) PROVE UNCHANGED Allocation!vars
  <2>1. SameRequests
    <3>1. \A q \in Requests : request[q] \in RequestRow
      BY DEF TypeInv
    <3>2. PICK st : request' = [request EXCEPT ![r].status = st]
      BY <1>2 DEF Submit, Resolve
    <3>3. /\ request'[r] = [request[r] EXCEPT !.status = st]
          /\ \A q \in Requests \ {r} : request'[q] = request[q]
      BY <3>2 DEF TypeInv
    <3>. QED BY <3>1, <3>3 DEF SameRequests, RequestRow
  <2>. QED BY <1>1, <2>1, SameCounts DEF Allocation!vars
<1>3. ASSUME NEW m \in Members, SetAvailable(m) PROVE UNCHANGED Allocation!vars
  <2>1. SameRequests
    BY <1>3 DEF SetAvailable, SameRequests
  <2>. QED BY <1>1, <2>1, SameCounts DEF Allocation!vars
<1>4. ASSUME NEW r \in Requests, Approve(r) PROVE Allocation!Next
  <2>1. PICK n \in Approvable :
          request' = [request EXCEPT ![r].status = "approved", ![r].approved = n]
    BY <1>4 DEF Approve
  <2>2. request[r].status = "pending" /\ ~Held(r)
    BY <1>4 DEF Approve
  <2>3. Promised[r] = 0
    BY <2>2 DEF AllotInv, CounterInv, Promised
  <2>4. r \notin Allocation!Turning
    BY <2>2 DEF Allocation!Turning, Round, Held
  <2>5. Promised' = [Promised EXCEPT ![r] = n]
    BY <2>1 DEF Promised, TypeInv, RequestRow
  <2>6. Received' = Received
    BY <2>1 DEF Received, TypeInv, RequestRow
  <2>7. Allocation!Promise(r, n)
    BY <1>1, <2>3, <2>4, <2>5, <2>6 DEF Allocation!Promise
  <2>. QED BY <2>7 DEF Allocation!Next
<1>. QED BY <1>2, <1>3, <1>4 DEF Client

\* Managers' steps: any hand-out.
LEMMA ManagerAllocates ==
  ASSUME TypeInv', Manager
  PROVE  Allocation!Next
<1>1. owner' \in [Leads -> Members \cup {NoUser}]
  BY DEF TypeInv
<1>2. UNCHANGED <<request, delivered, session>>
  BY DEF Manager, Assign, Reassign, AutoReassign, Unassign
<1>3. Allocation!Manage(owner')
  BY <1>1, <1>2
     DEF Allocation!Manage, Allocation!HandOut, Promised, Received, Dealt, Round
<1>. QED BY <1>1, <1>3 DEF Allocation!Next

\* The steps of a session before it commits: a rotation begins or fails, or nothing.
RoundOf(s) == IF session[s].run = "rotate" THEN DOMAIN session[s].seen ELSE {}

LEMMA RoundSteps ==
  ASSUME TypeInv, NEW s \in Sessions, \A t \in Sessions \ {s} : session'[t] = session[t]
  PROVE  /\ RoundOf(s)' = RoundOf(s) => Round' = Round
         /\ Round' = [Round EXCEPT ![s] = RoundOf(s)']
BY DEF Round, RoundOf

LEMMA BeginAllocates ==
  ASSUME TypeInv, RequestsInv, AllotInv, NEW s \in Sessions, Begin(s) \/ Rollback(s)
  PROVE  Allocation!Next \/ UNCHANGED Allocation!vars
<1>0. session \in [Sessions -> SessionRow]
  BY DEF TypeInv
<1>1. UNCHANGED <<owner, Promised, Received, Dealt>>
  BY DEF Begin, BeginRun, BeginRotation, Rollback, Promised, Received, Dealt
<1>2. \A t \in Sessions \ {s} : session'[t] = session[t]
  BY <1>0 DEF Begin, BeginRun, BeginRotation, Rollback
<1>3. ASSUME NEW limit, NEW auto, BeginRun(s, limit, auto) PROVE UNCHANGED Allocation!vars
  <2>1. session[s].run = "idle" /\ session'[s].run = "requests"
    BY <1>0, <1>3 DEF BeginRun, Idle
  <2>2. RoundOf(s)' = RoundOf(s)
    BY <2>1 DEF RoundOf
  <2>. QED BY <1>1, <1>2, <2>2, RoundSteps DEF Allocation!vars
<1>4. CASE BeginRotation(s)
  <2>1. session[s].run = "idle" /\ \A r \in Rotating : ~Held(r)
    BY <1>4 DEF BeginRotation
  <2>2. session'[s].run = "rotate" /\ DOMAIN session'[s].seen = Rotating
    BY <1>0, <1>4 DEF BeginRotation, Idle
  <2>3. Round' = [Round EXCEPT ![s] = Rotating]
    BY <1>2, <2>2, RoundSteps DEF RoundOf
  <2>4. Round[s] = {} /\ Rotating \cap Allocation!Turning = {}
    BY <2>1 DEF Round, Allocation!Turning, Held
  <2>5. Rotating \in SUBSET Requests /\ \A r \in Rotating : Promised[r] = 0
    BY DEF Rotating, AllotInv, CounterInv, Promised
  <2>6. Allocation!Open(s, Rotating)
    BY <1>1, <2>3, <2>4, <2>5 DEF Allocation!Open
  <2>. QED BY <2>5, <2>6 DEF Allocation!Next
<1>5. CASE Rollback(s)
  <2>1. session'[s].run = "idle"
    BY <1>0, <1>5 DEF Rollback, Idle
  <2>2. Round' = [Round EXCEPT ![s] = {}]
    BY <1>2, <2>1, RoundSteps DEF RoundOf
  <2>3. Allocation!Abandon(s)
    BY <1>1, <2>2 DEF Allocation!Abandon
  <2>. QED BY <2>3 DEF Allocation!Next
<1>. QED BY <1>3, <1>4, <1>5 DEF Begin

LEMMA WorkAllocates ==
  ASSUME TypeInv, NEW s \in Sessions, Step(s), ~Commit(s)
  PROVE  UNCHANGED Allocation!vars
<1>0. session \in [Sessions -> SessionRow] /\ session[s] \in SessionRow
  BY DEF TypeInv
<1>1. UNCHANGED <<owner, Promised, Received, Dealt>>
  BY DEF Step, ServeRequest, ReadMembers, ShareLead, Rotate, PassOver, NextRound,
         Promised, Received, Dealt
<1>2. \A t \in Sessions \ {s} : session'[t] = session[t]
  BY <1>0 DEF Step, ServeRequest, ReadMembers, ShareLead, Rotate, PassOver, NextRound
<1>3. RoundOf(s)' = RoundOf(s)
  <2>1. ASSUME NEW r \in Requests, ServeRequest(s, r)
        PROVE  session[s].run # "rotate" /\ session'[s].run # "rotate"
    BY <1>0, <2>1 DEF ServeRequest, SessionRow
  <2>2. ASSUME ReadMembers(s)
        PROVE  session[s].run # "rotate" /\ session'[s].run # "rotate"
    <3>1. PICK n, f : \E P \in Picks(Assignable, n) :
            session' = [session EXCEPT ![s].run = "share", ![s].load = f, ![s].scanned = P]
      BY <2>2 DEF ReadMembers
    <3>2. session[s].run = "requests"
      BY <2>2 DEF ReadMembers, Served
    <3>. QED BY <1>0, <3>1, <3>2 DEF SessionRow
  <2>3. ASSUME NEW l \in Leads, NEW m \in Members, ShareLead(s, l, m)
        PROVE  session[s].run # "rotate" /\ session'[s].run # "rotate"
    BY <1>0, <2>3 DEF ShareLead, SessionRow
  <2>4. ASSUME NEW r \in Requests, NEW l \in Leads, Rotate(s, r, l)
        PROVE  session'[s].run = session[s].run /\ session'[s].seen = session[s].seen
    BY <1>0, <2>4 DEF Rotate, SessionRow
  <2>5. ASSUME Walks(s)
        PROVE  session'[s].run = session[s].run /\ session'[s].seen = session[s].seen
    BY <2>5, WalksIs
  <2>. QED BY <2>1, <2>2, <2>3, <2>4, <2>5 DEF Step, Walks, RoundOf
<1>. QED BY <1>1, <1>2, <1>3, RoundSteps DEF Allocation!vars

\* What a commit adds to the counts of a request.
LEMMA CommitMoves ==
  ASSUME TypeInv, RequestsInv, AllotInv, NEW s \in Sessions, Commit(s), NEW r \in Requests
  PROVE  /\ request'[r].approved = request[r].approved
         /\ session[s].run # "rotate" =>
              /\ request'[r].fulfilled = request[r].fulfilled + Cardinality(Given(s, r))
              /\ delivered'[r].rotation = delivered[r].rotation
         /\ session[s].run = "rotate" =>
              /\ request'[r].fulfilled = request[r].fulfilled
              /\ delivered'[r].rotation = delivered[r].rotation + Cardinality(Given(s, r))
<1>. DEFINE x == session[s]
            n == Cardinality(Given(s, r))
            q == request[r]
            d == delivered[r]
<1>1. /\ q \in RequestRow /\ d \in Delivery
      /\ q.fulfilled \in Nat /\ q.done \in Nat /\ d.fulfilment \in Nat /\ d.rotation \in Nat
  BY DEF TypeInv, RequestRow, Delivery
<1>2. n \in Nat
  BY Counts
<1>3. /\ delivered'[r] = Counted(s, r)
      /\ request'[r] = IF r \in DOMAIN x.seen THEN Written(s, r) ELSE q
  BY DEF Commit
<1>4. request'[r].approved = q.approved
  <2>1. SessionInv(s)
    BY DEF RequestsInv
  <2>2. r \in DOMAIN x.seen => x.seen[r] = q
    BY <2>1 DEF SessionInv
  <2>3. Marked(q, n).approved = q.approved /\ Rotated(r, q, n).approved = q.approved
    BY <1>1 DEF Marked, Rotated, RequestRow
  <2>. QED BY <1>3, <2>2, <2>3 DEF Written
<1>5. q.fulfilled = d.fulfilment /\ request'[r].fulfilled = delivered'[r].fulfilment
  BY CommitCounts DEF RequestsInv, FulfilmentCounts
<1>6. CASE x.run = "rotate"
  <2>1. delivered'[r] = [d EXCEPT !.rotation = @ + n]
    BY <1>3, <1>6 DEF Counted
  <2>. QED BY <1>1, <1>4, <1>5, <1>6, <2>1 DEF Delivery
<1>7. CASE x.run # "rotate"
  <2>1. delivered'[r] = [d EXCEPT !.fulfilment = @ + n]
    BY <1>3, <1>7 DEF Counted
  <2>. QED BY <1>1, <1>4, <1>5, <1>7, <2>1 DEF Delivery
<1>. QED BY <1>6, <1>7

\* The abstract specification counts with a FiniteSets of its own.
LEMMA SameCardinality == \A S : Allocation!Cardinality(S) = Cardinality(S)
BY DEF Cardinality, Allocation!Cardinality

\* A commit hands out what its session has taken, all of it free and as it is owed now.
Owners(s) == [l \in DOMAIN session[s].taken |-> session[s].taken[l].user]
Accounts(s) == [l \in DOMAIN session[s].taken |-> session[s].taken[l].request]

LEMMA CommitHandsOut ==
  ASSUME TypeInv, OwnerInv, AllotInv, NEW s \in Sessions, Commit(s)
  PROVE  /\ DOMAIN session[s].taken \in SUBSET Allocation!Free
         /\ Owners(s) \in [DOMAIN session[s].taken -> Members]
         /\ Accounts(s) \in [DOMAIN session[s].taken -> Requests \cup {NoRequest}]
         /\ Allocation!HandOut(Owners(s))
         /\ Allocation!Addressed(Owners(s), Accounts(s))
         /\ \A r : Allocation!Part(Accounts(s), r) = Given(s, r)
<1>. DEFINE D == DOMAIN session[s].taken
<1>1. D \subseteq Leads /\ session[s].taken \in [D -> Grant]
  BY PartialElim DEF TypeInv, SessionRow
<1>2. \A l \in D : owner[l] = NoUser
  BY DEF OwnerInv, LocksInv, Mine
<1>3. D \in SUBSET Allocation!Free
  BY <1>1, <1>2 DEF Allocation!Free
<1>4. \A l \in D : session[s].taken[l].user \in Members
                   /\ session[s].taken[l].request \in Requests \cup {NoRequest}
  BY <1>1 DEF Grant
<1>5. Owners(s) \in [D -> Members] /\ Accounts(s) \in [D -> Requests \cup {NoRequest}]
  BY <1>4 DEF Owners, Accounts
<1>6. Allocation!HandOut(Owners(s))
  BY DEF Commit, Allocation!HandOut, Owners
<1>7. Allocation!Addressed(Owners(s), Accounts(s))
  <2>1. GrantsInv(s)
    BY DEF AllotInv
  <2>. QED BY <2>1 DEF GrantsInv, Allocation!Addressed, Owners, Accounts
<1>8. \A r : Allocation!Part(Accounts(s), r) = Given(s, r)
  BY DEF Allocation!Part, Accounts, Given
<1>. QED BY <1>3, <1>5, <1>6, <1>7, <1>8

LEMMA DistributionCommits ==
  ASSUME TypeInv, OwnerInv, RequestsInv, AllotInv, NEW s \in Sessions, Commit(s),
         session[s].run # "rotate"
  PROVE  Allocation!Distribute(Owners(s), Accounts(s))
<1>1. /\ Allocation!Addressed(Owners(s), Accounts(s))
      /\ \A r : Allocation!Part(Accounts(s), r) = Given(s, r)
  BY CommitHandsOut
<1>2. \A r : Allocation!Size(Accounts(s), r) = Cardinality(Given(s, r))
  BY <1>1, SameCardinality DEF Allocation!Size
<1>3. DOMAIN Accounts(s) \cap Pooled = {}
  <2>1. GrantsInv(s)
    BY DEF AllotInv
  <2>. QED BY <2>1 DEF GrantsInv, Mine, Accounts
<1>4. ASSUME NEW r \in Requests, Given(s, r) # {}
      PROVE  Received[r] + Cardinality(Given(s, r)) <= Promised[r]
  <2>1. SessionInv(s)
    BY DEF RequestsInv
  <2>2. r \in DOMAIN session[s].seen
    BY <1>4, <2>1 DEF SessionInv
  <2>3. Cardinality(Given(s, r)) <= request[r].approved - request[r].fulfilled
    BY <2>1, <2>2 DEF SessionInv
  <2>4. /\ Cardinality(Given(s, r)) \in Nat
        /\ request[r].approved \in Nat /\ request[r].fulfilled \in Nat
    BY Counts DEF TypeInv, RequestRow
  <2>. QED BY <2>3, <2>4 DEF Received, Promised
<1>5. Received' = [r \in Requests |-> Received[r] + Cardinality(Given(s, r))]
  BY CommitMoves DEF Received
<1>6. Promised' = Promised /\ Dealt' = Dealt
  BY CommitMoves DEF Promised, Dealt
<1>7. Round' = Round
  BY DEF Commit, TypeInv, Round, Idle
<1>. QED BY <1>1, <1>2, <1>3, <1>4, <1>5, <1>6, <1>7 DEF Allocation!Distribute

LEMMA RotationCommits ==
  ASSUME TypeInv, OwnerInv, RequestsInv, AllotInv, NEW s \in Sessions, Commit(s),
         session[s].run = "rotate"
  PROVE  Allocation!Rotate(s, Owners(s), Accounts(s))
<1>1. /\ Allocation!Addressed(Owners(s), Accounts(s))
      /\ \A r : Allocation!Part(Accounts(s), r) = Given(s, r)
  BY CommitHandsOut
<1>2. \A r : Allocation!Size(Accounts(s), r) = Cardinality(Given(s, r))
  BY <1>1, SameCardinality DEF Allocation!Size
<1>3. GrantsInv(s) /\ SessionInv(s)
  BY DEF AllotInv, RequestsInv
<1>4. Round[s] = DOMAIN session[s].seen
  BY DEF Round
<1>5. Accounts(s) \in [DOMAIN Accounts(s) -> Round[s]]
  <2>1. \A l \in DOMAIN session[s].taken : session[s].taken[l].request \in DOMAIN session[s].seen
    BY <1>3 DEF GrantsInv
  <2>. QED BY <1>4, <2>1 DEF Accounts
<1>6. ASSUME NEW r \in Round[s]
      PROVE  Dealt[r] + Cardinality(Given(s, r)) = DealtIn(s, r)
  <2>1. r \in DOMAIN session[s].seen /\ r \in Requests
    BY <1>4, PartialElim DEF TypeInv, SessionRow
  <2>2. session[s].seen[r] = request[r] /\ request[r].status = "pending"
    BY <1>3, <2>1 DEF SessionInv
  <2>3. request[r].done = delivered[r].rotation
    BY <2>1, <2>2 DEF AllotInv, CounterInv
  <2>. QED BY <2>1, <2>2, <2>3 DEF Dealt, DealtIn
<1>7. \A r \in Round[s] : Given(s, r) # {} => DealtIn(s, r) <= Quantity[r]
  BY <1>3, <1>4 DEF GrantsInv
<1>8. Dealt' = [r \in Requests |-> Dealt[r] + Cardinality(Given(s, r))]
  BY CommitMoves DEF Dealt
<1>9. Promised' = Promised /\ Received' = Received
  BY CommitMoves DEF Promised, Received
<1>10. Round' = [Round EXCEPT ![s] = {}]
  BY DEF Commit, TypeInv, Round, Idle
<1>. QED BY <1>1, <1>2, <1>5, <1>6, <1>7, <1>8, <1>9, <1>10 DEF Allocation!Rotate

LEMMA CommitAllocates ==
  ASSUME TypeInv, OwnerInv, RequestsInv, AllotInv, NEW s \in Sessions, Commit(s)
  PROVE  Allocation!Next
<1>1. \/ Allocation!Distribute(Owners(s), Accounts(s))
      \/ Allocation!Rotate(s, Owners(s), Accounts(s))
  BY DistributionCommits, RotationCommits
<1>. QED BY <1>1, CommitHandsOut DEF Allocation!Next

\* Transactions that overlap, fail and work from what they have read amount to
\* hand-outs that happen all at once.
THEOREM AllocationImplements == Spec => AllocationSpec
<1>1. Init => Allocation!Init
  BY DEF Init, Idle, Allocation!Init, Promised, Received, Dealt, Round
<1>2. TypeInv /\ TypeInv' /\ OwnerInv /\ RequestsInv /\ AllotInv /\ [Next]_vars =>
        [Allocation!Next]_(Allocation!vars)
  <2>. SUFFICES ASSUME TypeInv, TypeInv', OwnerInv, RequestsInv, AllotInv, [Next]_vars
                PROVE  Allocation!Next \/ UNCHANGED Allocation!vars
    OBVIOUS
  <2>1. CASE Client
    BY <2>1, ClientAllocates
  <2>2. CASE Manager
    BY <2>2, ManagerAllocates
  <2>3. ASSUME NEW s \in Sessions, Begin(s) \/ Rollback(s)
        PROVE  Allocation!Next \/ UNCHANGED Allocation!vars
    BY <2>3, BeginAllocates
  <2>4. ASSUME NEW s \in Sessions, Step(s)
        PROVE  Allocation!Next \/ UNCHANGED Allocation!vars
    BY <2>4, WorkAllocates, CommitAllocates
  <2>5. CASE UNCHANGED vars
    BY <2>5 DEF vars, Allocation!vars, Promised, Received, Dealt, Round
  <2>. QED BY <2>1, <2>2, <2>3, <2>4, <2>5 DEF Next
<1>. QED BY <1>1, <1>2, TypeInvHolds, OwnerInvHolds, RequestsInvHolds, AllotInvHolds,
            PTL DEF Spec, Allocation!Spec, AllocationSpec
=============================================================================
