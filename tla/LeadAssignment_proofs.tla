------------------------ MODULE LeadAssignment_proofs ------------------------
(***************************************************************************)
(* Types of LeadAssignment, and that its transactions never take a lead    *)
(* from an owner, for every value of the constants.                        *)
(***************************************************************************)
EXTENDS LeadAssignment, FiniteSetTheorems, TLAPS

Partial(S, T) == UNION {[D -> T] : D \in SUBSET S}

SessionRow == [run : Runs, auto : BOOLEAN, seen : Partial(Requests, RequestRow),
               todo : SUBSET Requests, marked : SUBSET Requests, left : Nat,
               load : Partial(Members, Nat), scanned : SUBSET Leads,
               taken : Partial(Leads, Grant),
               queue : Seq(Requests), turn : Nat, progress : BOOLEAN,
               rotations : Nat, missed : [Requests -> Nat]]

\* TypeOK says what a session contains, TypeInv that it contains nothing else, and
\* that a session serves only requests it has locked.
TypeInv ==
  /\ owner \in [Leads -> Members \cup {NoUser}]
  /\ rows \in [Leads -> Seq(Members)]
  /\ delivered \in [Requests -> Delivery]
  /\ request \in [Requests -> RequestRow]
  /\ available \subseteq Members
  /\ session \in [Sessions -> SessionRow]
  /\ \A s \in Sessions : session[s].todo \subseteq DOMAIN session[s].seen

\* A function on a part of S is one.
LEMMA PartialIntro ==
  ASSUME NEW S, NEW T, NEW D \in SUBSET S, NEW f \in [D -> T]
  PROVE  f \in Partial(S, T)
BY DEF Partial

LEMMA PartialElim ==
  ASSUME NEW S, NEW T, NEW f \in Partial(S, T)
  PROVE  DOMAIN f \in SUBSET S /\ f \in [DOMAIN f -> T]
BY DEF Partial

\* Extending a partial function keeps its type.
LEMMA ExtendType ==
  ASSUME NEW S, NEW T, NEW f \in Partial(S, T), NEW D \in SUBSET S, NEW g \in T
  PROVE  Extend(f, D, g) \in Partial(S, T)
<1>1. DOMAIN f \in SUBSET S /\ f \in [DOMAIN f -> T]
  BY PartialElim
<1>2. Extend(f, D, g) \in [DOMAIN f \cup D -> T]
  BY <1>1 DEF Extend
<1>. QED BY <1>1, <1>2, PartialIntro

\* An idle session is one.
LEMMA IdleType == Idle \in SessionRow /\ Idle.todo \subseteq DOMAIN Idle.seen
<1>1. ASSUME NEW S, NEW T PROVE Nothing \in Partial(S, T)
  <2>1. {} \in SUBSET S /\ Nothing \in [{} -> T]
    BY DEF Nothing
  <2>. QED BY <2>1, PartialIntro
<1>. QED BY <1>1 DEF Idle, SessionRow, Runs

\* The answer of a query of at most n rows has at most n.
LEMMA PicksBound ==
  ASSUME NEW S, IsFiniteSet(S), NEW n \in Int, NEW P \in Picks(S, n)
  PROVE  P \in SUBSET S /\ Cardinality(P) \in Nat /\ Cardinality(P) <= n
<1>1. P \in SUBSET S /\ IsFiniteSet(P)
  BY FS_Subset DEF Picks
<1>2. Cardinality(P) \in Nat /\ Cardinality(S) \in Nat
  BY <1>1, FS_CardinalityType
<1>. QED BY <1>1, <1>2 DEF Picks, Least

\* Taking the i-th element out of a sequence moves those behind it up.
LEMMA Spliced ==
  ASSUME NEW S, NEW q \in Seq(S), NEW i \in DOMAIN q
  PROVE  /\ RemoveAt(q, i) \in Seq(S) /\ Len(RemoveAt(q, i)) = Len(q) - 1
         /\ \A j \in 1..(Len(q) - 1) :
              RemoveAt(q, i)[j] = IF j < i THEN q[j] ELSE q[j + 1]
<1>. DEFINE a == SubSeq(q, 1, i - 1)
            b == SubSeq(q, i + 1, Len(q))
<1>1. i \in 1..Len(q) /\ Len(q) \in Nat
  OBVIOUS
<1>2. a \in Seq(S) /\ Len(a) = i - 1 /\ \A j \in 1..(i - 1) : a[j] = q[j]
  BY <1>1
<1>3. b \in Seq(S) /\ Len(b) = Len(q) - i /\ \A j \in 1..(Len(q) - i) : b[j] = q[i + j]
  BY <1>1
<1>. HIDE DEF a, b
<1>4. a \o b \in Seq(S) /\ Len(a \o b) = Len(q) - 1
  BY <1>1, <1>2, <1>3
<1>5. \A j \in 1..(Len(q) - 1) : (a \o b)[j] = IF j < i THEN q[j] ELSE q[j + 1]
  <2>. SUFFICES ASSUME NEW j \in 1..(Len(q) - 1)
                PROVE  (a \o b)[j] = IF j < i THEN q[j] ELSE q[j + 1]
    OBVIOUS
  <2>1. CASE j < i
    BY <1>1, <1>2, <1>3, <2>1
  <2>2. CASE j >= i
    <3>1. (a \o b)[j] = b[j - (i - 1)]
      BY <1>1, <1>2, <1>3, <2>2
    <3>2. j - (i - 1) \in 1..(Len(q) - i) /\ i + (j - (i - 1)) = j + 1
      BY <1>1, <2>2
    <3>. QED BY <1>3, <2>2, <3>1, <3>2
  <2>3. j < i \/ j >= i
    BY <1>1
  <2>. QED BY <2>1, <2>2, <2>3
<1>. QED BY <1>4, <1>5 DEF RemoveAt, a, b

\* Leads of a session, and leads of a member, can be counted.
LEMMA Counts ==
  ASSUME TypeInv, NEW s \in Sessions
  PROVE  /\ \A r : Cardinality(Given(s, r)) \in Nat
         /\ \A m : Cardinality(OwnedBy(m)) \in Nat /\ Cardinality(GrantedTo(s, m)) \in Nat
<1>1. \A S : S \subseteq Leads => Cardinality(S) \in Nat
  BY RunAssumption, FS_Subset, FS_CardinalityType
<1>2. DOMAIN session[s].taken \subseteq Leads
  BY PartialElim DEF TypeInv, SessionRow
<1>3. \A r : Given(s, r) \subseteq Leads
  BY <1>2 DEF Given
<1>4. \A m : OwnedBy(m) \subseteq Leads /\ GrantedTo(s, m) \subseteq Leads
  BY <1>2 DEF OwnedBy, GrantedTo
<1>. QED BY <1>1, <1>3, <1>4

-----------------------------------------------------------------------------
(* The steps of a session. *)

\* Steps of a session change that session only.
Moves(s) ==
  /\ UNCHANGED <<owner, rows, delivered, request, available>>
  /\ \E x \in SessionRow : /\ session' = [session EXCEPT ![s] = x]
                           /\ x.todo \subseteq DOMAIN x.seen

LEMMA MovesType ==
  ASSUME TypeInv, NEW s \in Sessions, Moves(s)
  PROVE  TypeInv'
BY DEF TypeInv, Moves

LEMMA BeginRunType ==
  ASSUME TypeInv, NEW s \in Sessions, NEW limit \in Limits, NEW auto \in BOOLEAN,
         BeginRun(s, limit, auto)
  PROVE  Moves(s)
<1>1. PICK R \in Picks(Lockable, limit) :
        session' = [session EXCEPT ![s] =
          [Idle EXCEPT !.run = "requests", !.auto = auto, !.left = limit,
                       !.seen = [r \in R |-> request[r]],
                       !.todo = {r \in R : Requester[r] \in available}]]
  BY DEF BeginRun
<1>2. R \in SUBSET Requests
  BY DEF Picks, Lockable
<1>3. [r \in R |-> request[r]] \in Partial(Requests, RequestRow)
  <2>1. [r \in R |-> request[r]] \in [R -> RequestRow]
    BY <1>2 DEF TypeInv
  <2>. QED BY <1>2, <2>1, PartialIntro
<1>. DEFINE x == [Idle EXCEPT !.run = "requests", !.auto = auto, !.left = limit,
                       !.seen = [r \in R |-> request[r]],
                       !.todo = {r \in R : Requester[r] \in available}]
<1>4. limit \in Nat
  BY RunAssumption
<1>5. x \in SessionRow /\ x.todo \subseteq DOMAIN x.seen
  BY <1>2, <1>3, <1>4, IdleType DEF SessionRow, Runs, Idle
<1>. QED BY <1>1, <1>5 DEF Moves, BeginRun

\* The queue of a rotation holds each request that needs leads once.
LEMMA RotatingSeq ==
  ASSUME NEW q \in SetToSeqs({r \in Rotating : request[r].done < Quantity[r]})
  PROVE  /\ q \in Seq(Requests)
         /\ \A i \in DOMAIN q : q[i] \in Rotating /\ request[q[i]].done < Quantity[q[i]]
         /\ \A i, j \in DOMAIN q : i # j => q[i] # q[j]
<1>. DEFINE S == {r \in Rotating : request[r].done < Quantity[r]}
<1>1. S \subseteq Requests /\ IsFiniteSet(S) /\ Cardinality(S) \in Nat
  <2>1. S \subseteq Requests
    BY DEF Rotating
  <2>. QED BY <2>1, RunAssumption, FS_Subset, FS_CardinalityType
<1>2. q \in [1..Cardinality(S) -> S] /\ \A i, j \in 1..Cardinality(S) : i # j => q[i] # q[j]
  BY DEF SetToSeqs
<1>3. \A r \in S : r \in Rotating /\ request[r].done < Quantity[r]
  OBVIOUS
<1>. HIDE DEF S
<1>4. q \in Seq(S) /\ DOMAIN q = 1..Cardinality(S)
  BY <1>1, <1>2
<1>5. q \in Seq(Requests)
  BY <1>1, <1>4
<1>. QED BY <1>2, <1>3, <1>4, <1>5

LEMMA BeginRotationType ==
  ASSUME TypeInv, NEW s \in Sessions, BeginRotation(s)
  PROVE  Moves(s)
<1>1. [r \in Rotating |-> request[r]] \in Partial(Requests, RequestRow)
  <2>1. Rotating \in SUBSET Requests
    BY DEF Rotating
  <2>2. [r \in Rotating |-> request[r]] \in [Rotating -> RequestRow]
    BY <2>1 DEF TypeInv
  <2>. QED BY <2>1, <2>2, PartialIntro
<1>2. PICK q \in SetToSeqs({r \in Rotating : request[r].done < Quantity[r]}) :
        session' = [session EXCEPT ![s] =
          [Idle EXCEPT !.run = "rotate", !.seen = [r \in Rotating |-> request[r]],
                       !.queue = q]]
  BY DEF BeginRotation
<1>3. q \in Seq(Requests)
  BY RotatingSeq
<1>. DEFINE x == [Idle EXCEPT !.run = "rotate", !.seen = [r \in Rotating |-> request[r]],
                       !.queue = q]
<1>4. x \in SessionRow /\ x.todo \subseteq DOMAIN x.seen
  BY <1>1, <1>3, IdleType DEF SessionRow, Runs, Idle
<1>. QED BY <1>2, <1>4 DEF Moves, BeginRotation

LEMMA ServeRequestType ==
  ASSUME TypeInv, NEW s \in Sessions, NEW r \in Requests, ServeRequest(s, r)
  PROVE  Moves(s)
<1>. DEFINE y == session[s]
<1>1. PICK P \in Picks(Assignable \cap Fits[r], Need(s, r)) :
        session' = [session EXCEPT
          ![s].todo = @ \ {r}, ![s].marked = @ \cup {r},
          ![s].left = @ - Cardinality(P),
          ![s].taken = Extend(@, P, GrantFor(r))]
  BY DEF ServeRequest
<1>2. y \in SessionRow /\ y.todo \subseteq DOMAIN y.seen /\ r \in y.todo
  BY DEF TypeInv, ServeRequest
<1>3. Need(s, r) \in Int /\ Need(s, r) <= y.left
  <2>1. y.seen[r] \in RequestRow
    BY <1>2, PartialElim DEF SessionRow
  <2>2. y.left \in Nat /\ y.seen[r].approved \in Nat /\ y.seen[r].fulfilled \in Nat
    BY <1>2, <2>1 DEF SessionRow, RequestRow
  <2>. QED BY <2>2 DEF Need, Least
<1>4. Assignable \cap Fits[r] \subseteq Leads /\ IsFiniteSet(Assignable \cap Fits[r])
  BY RunAssumption, FS_Subset DEF Assignable
<1>5. P \in SUBSET Leads /\ y.left - Cardinality(P) \in Nat
  BY <1>2, <1>3, <1>4, PicksBound DEF SessionRow
<1>6. Extend(y.taken, P, GrantFor(r)) \in Partial(Leads, Grant)
  <2>1. GrantFor(r) \in Grant
    BY RequestAssumption DEF GrantFor, Grant
  <2>. QED BY <1>2, <1>5, <2>1, ExtendType DEF SessionRow
<1>. DEFINE x == [y EXCEPT !.todo = @ \ {r}, !.marked = @ \cup {r},
                           !.left = @ - Cardinality(P),
                           !.taken = Extend(@, P, GrantFor(r))]
<1>7. x \in SessionRow /\ x.todo \subseteq DOMAIN x.seen
  BY <1>2, <1>5, <1>6 DEF SessionRow
<1>8. session' = [session EXCEPT ![s] = x]
  BY <1>1, <1>2 DEF TypeInv, SessionRow
<1>. QED BY <1>7, <1>8 DEF Moves, ServeRequest

LEMMA ReadMembersType ==
  ASSUME TypeInv, NEW s \in Sessions, ReadMembers(s)
  PROVE  Moves(s)
<1>. DEFINE M == {m \in available : UnderCap(m, Load(s, m))}
            n == IF M = {} THEN 0 ELSE session[s].left
<1>1. PICK P \in Picks(Assignable, n) :
        session' = [session EXCEPT ![s].run = "share",
                                   ![s].load = [m \in M |-> Load(s, m)],
                                   ![s].scanned = P]
  BY DEF ReadMembers
<1>2. session[s] \in SessionRow /\ session[s].todo \subseteq DOMAIN session[s].seen
  BY DEF TypeInv
<1>3. P \in SUBSET Leads
  BY DEF Picks, Assignable
<1>4. [m \in M |-> Load(s, m)] \in Partial(Members, Nat)
  <2>1. M \in SUBSET Members
    BY DEF TypeInv
  <2>2. [m \in M |-> Load(s, m)] \in [M -> Nat]
    BY Counts DEF Load
  <2>. QED BY <2>1, <2>2, PartialIntro
<1>. DEFINE x == [session[s] EXCEPT !.run = "share", !.load = [m \in M |-> Load(s, m)],
                                    !.scanned = P]
<1>. HIDE DEF M
<1>5. x \in SessionRow /\ x.todo \subseteq DOMAIN x.seen
  BY <1>2, <1>3, <1>4 DEF SessionRow, Runs
<1>6. session' = [session EXCEPT ![s] = x]
  BY <1>1, <1>2 DEF TypeInv, SessionRow
<1>. QED BY <1>5, <1>6 DEF Moves, ReadMembers

LEMMA ShareLeadType ==
  ASSUME TypeInv, NEW s \in Sessions, NEW l \in Leads, NEW m \in Members,
         ShareLead(s, l, m)
  PROVE  Moves(s)
<1>. DEFINE x == [session[s] EXCEPT !.scanned = @ \ {l},
                    !.taken = Extend(@, {l}, [user |-> m, request |-> NoRequest])]
<1>1. session[s] \in SessionRow /\ session[s].todo \subseteq DOMAIN session[s].seen
  BY DEF TypeInv
<1>2. Extend(session[s].taken, {l}, [user |-> m, request |-> NoRequest]) \in Partial(Leads, Grant)
  <2>1. [user |-> m, request |-> NoRequest] \in Grant
    BY DEF Grant
  <2>. QED BY <1>1, <2>1, ExtendType DEF SessionRow
<1>3. x \in SessionRow /\ x.todo \subseteq DOMAIN x.seen
  BY <1>1, <1>2 DEF SessionRow
<1>4. session' = [session EXCEPT ![s] = x]
  BY <1>1 DEF ShareLead, TypeInv, SessionRow
<1>. QED BY <1>3, <1>4 DEF Moves, ShareLead

LEMMA RotateType ==
  ASSUME TypeInv, NEW s \in Sessions, NEW r \in Requests, NEW l \in Leads,
         Rotate(s, r, l)
  PROVE  Moves(s)
<1>. DEFINE queue == IF Filled(s, r) THEN RemoveAt(session[s].queue, session[s].turn)
                     ELSE session[s].queue
            turn == TurnAfter(session[s].turn, Filled(s, r))
            x == [session[s] EXCEPT !.taken = Extend(@, {l}, GrantFor(r)),
                    !.queue = queue, !.turn = turn, !.progress = TRUE]
<1>1. session[s] \in SessionRow /\ session[s].todo \subseteq DOMAIN session[s].seen
  BY DEF TypeInv
<1>2. Extend(session[s].taken, {l}, GrantFor(r)) \in Partial(Leads, Grant)
  <2>1. GrantFor(r) \in Grant
    BY RequestAssumption DEF GrantFor, Grant
  <2>. QED BY <1>1, <2>1, ExtendType DEF SessionRow
<1>3. queue \in Seq(Requests) /\ turn \in Nat
  <2>1. /\ session[s].queue \in Seq(Requests) /\ session[s].turn \in Nat
        /\ session[s].turn \in DOMAIN session[s].queue
    BY <1>1 DEF SessionRow, Rotate, InTurn
  <2>. QED BY <2>1, Spliced DEF TurnAfter
<1>4. session' = [session EXCEPT ![s] = x]
  BY <1>1 DEF Rotate, TypeInv, SessionRow
<1>. HIDE DEF queue, turn
<1>5. x \in SessionRow /\ x.todo \subseteq DOMAIN x.seen
  BY <1>1, <1>2, <1>3 DEF SessionRow
<1>. QED BY <1>4, <1>5 DEF Moves, Rotate

LEMMA PassOverType ==
  ASSUME TypeInv, NEW s \in Sessions, NEW r \in Requests, PassOver(s, r)
  PROVE  Moves(s)
<1>. DEFINE turn == session[s].turn + 1
            missed == [session[s].missed EXCEPT ![r] = @ + 1]
            x == [session[s] EXCEPT !.turn = turn, !.missed = missed]
<1>1. session[s] \in SessionRow /\ session[s].todo \subseteq DOMAIN session[s].seen
  BY DEF TypeInv
<1>2. turn \in Nat /\ missed \in [Requests -> Nat]
  BY <1>1 DEF SessionRow
<1>3. session' = [session EXCEPT ![s] = x]
  BY <1>1 DEF PassOver, TypeInv, SessionRow
<1>. HIDE DEF turn, missed
<1>4. x \in SessionRow /\ x.todo \subseteq DOMAIN x.seen
  BY <1>1, <1>2 DEF SessionRow
<1>. QED BY <1>3, <1>4 DEF Moves, PassOver

LEMMA NextRoundType ==
  ASSUME TypeInv, NEW s \in Sessions, NextRound(s)
  PROVE  Moves(s)
<1>. DEFINE rotations == session[s].rotations + 1
            x == [session[s] EXCEPT !.turn = 1, !.progress = FALSE, !.rotations = rotations]
<1>1. session[s] \in SessionRow /\ session[s].todo \subseteq DOMAIN session[s].seen
  BY DEF TypeInv
<1>2. rotations \in Nat
  BY <1>1 DEF SessionRow
<1>3. session' = [session EXCEPT ![s] = x]
  BY <1>1 DEF NextRound, TypeInv, SessionRow
<1>. HIDE DEF rotations
<1>4. x \in SessionRow /\ x.todo \subseteq DOMAIN x.seen
  BY <1>1, <1>2 DEF SessionRow
<1>. QED BY <1>3, <1>4 DEF Moves, NextRound

\* The two ways a request is written are well typed.
LEMMA MarkedType ==
  ASSUME NEW q \in RequestRow, NEW n \in Nat
  PROVE  Marked(q, n) \in RequestRow
<1>1. q.fulfilled + n \in Nat
  BY DEF RequestRow
<1>2. (IF q.fulfilled + n >= q.approved THEN "fulfilled"
       ELSE IF q.fulfilled + n > 0 THEN "partially_fulfilled" ELSE "approved") \in Statuses
  BY DEF Statuses
<1>. QED BY <1>1, <1>2 DEF Marked, RequestRow

LEMMA RotatedType ==
  ASSUME NEW r, NEW q \in RequestRow, NEW n \in Nat
  PROVE  Rotated(r, q, n) \in RequestRow
<1>1. q.done + n \in Nat
  BY DEF RequestRow
<1>2. (IF q.done + n = Quantity[r] THEN "fulfilled" ELSE q.status) \in Statuses
  BY DEF Statuses, RequestRow
<1>. QED BY <1>1, <1>2 DEF Rotated, RequestRow

\* What a session writes when it commits is well typed.
LEMMA CommitType ==
  ASSUME TypeInv, NEW s \in Sessions, Commit(s)
  PROVE  TypeInv'
<1>1. session[s] \in SessionRow
  BY DEF TypeInv
<1>2. session[s].taken \in [DOMAIN session[s].taken -> Grant]
  BY <1>1, PartialElim DEF SessionRow
<1>3. \A l \in DOMAIN session[s].taken : session[s].taken[l].user \in Members
  BY <1>2 DEF Grant
<1>4. owner' \in [Leads -> Members \cup {NoUser}]
  BY <1>3 DEF Commit, TypeInv
<1>5. rows' \in [Leads -> Seq(Members)]
  BY <1>3 DEF Commit, TypeInv
<1>6. delivered' \in [Requests -> Delivery]
  <2>1. \A r \in Requests : Counted(s, r) \in Delivery
    BY Counts DEF Counted, TypeInv, Delivery
  <2>. QED BY <2>1 DEF Commit
<1>7. request' \in [Requests -> RequestRow]
  <2>1. ASSUME NEW r \in Requests, r \in DOMAIN session[s].seen
        PROVE  Written(s, r) \in RequestRow
    <3>1. session[s].seen[r] \in RequestRow
      BY <1>1, <2>1, PartialElim DEF SessionRow
    <3>2. request[r] \in RequestRow
      BY DEF TypeInv
    <3>. QED BY <3>1, <3>2, Counts, MarkedType, RotatedType DEF Written
  <2>. QED BY <2>1 DEF Commit, TypeInv
<1>8. session' \in [Sessions -> SessionRow] /\ \A t \in Sessions : session'[t].todo \subseteq DOMAIN session'[t].seen
  BY IdleType DEF Commit, TypeInv
<1>. QED BY <1>4, <1>5, <1>6, <1>7, <1>8 DEF TypeInv, Commit

\* Requests, availability and the managers' assignments.
LEMMA ClientType ==
  ASSUME TypeInv, Client
  PROVE  TypeInv'
<1>1. ASSUME NEW r \in Requests, Submit(r) \/ Approve(r) \/ Resolve(r) PROVE TypeInv'
  <2>1. CASE Submit(r) \/ Resolve(r)
    BY <2>1 DEF Submit, Resolve, TypeInv, RequestRow, Statuses
  <2>2. CASE Approve(r)
    <3>1. PICK q \in Approvable : request' = [request EXCEPT ![r].status = "approved", ![r].approved = q]
      BY <2>2 DEF Approve
    <3>2. q \in Nat
      BY RequestAssumption
    <3>3. request' \in [Requests -> RequestRow]
      BY <3>1, <3>2 DEF TypeInv, RequestRow, Statuses
    <3>. QED BY <2>2, <3>3 DEF Approve, TypeInv
  <2>. QED BY <1>1, <2>1, <2>2
<1>2. ASSUME NEW m \in Members, SetAvailable(m) PROVE TypeInv'
  BY <1>2 DEF SetAvailable, TypeInv
<1>. QED BY <1>1, <1>2 DEF Client

LEMMA ManagerType ==
  ASSUME TypeInv, Manager
  PROVE  TypeInv'
<1>1. ASSUME NEW l \in Leads, NEW m \in Members, Assign(l, m) \/ Reassign(l, m) PROVE TypeInv'
  <2>1. <<m>> \in Seq(Members)
    OBVIOUS
  <2>. QED BY <1>1, <2>1 DEF Assign, Reassign, TypeInv
<1>2. ASSUME NEW D \in SUBSET Leads, NEW f \in [D -> Members], AutoReassign(f) PROVE TypeInv'
  <2>1. \A l \in D : f[l] \in Members /\ <<f[l]>> \in Seq(Members)
    OBVIOUS
  <2>2. owner' \in [Leads -> Members \cup {NoUser}] /\ rows' \in [Leads -> Seq(Members)]
    BY <1>2, <2>1 DEF AutoReassign, TypeInv
  <2>. QED BY <1>2, <2>2 DEF AutoReassign, TypeInv
<1>3. ASSUME NEW l \in Leads, Unassign(l) PROVE TypeInv'
  BY <1>3 DEF Unassign, TypeInv
<1>. QED BY <1>1, <1>2, <1>3 DEF Manager

\* The strengthened type invariant holds in every reachable state.
LEMMA TypeInvHolds == Spec => []TypeInv
<1>1. Init => TypeInv
  BY IdleType DEF Init, TypeInv, Delivery, RequestRow, Statuses
<1>2. TypeInv /\ [Next]_vars => TypeInv'
  <2>. SUFFICES ASSUME TypeInv, [Next]_vars PROVE TypeInv'
    OBVIOUS
  <2>1. CASE Client
    BY <2>1, ClientType
  <2>2. CASE Manager
    BY <2>2, ManagerType
  <2>3. ASSUME NEW s \in Sessions, Begin(s) PROVE TypeInv'
    <3>1. CASE s = Timer
      BY <2>3, <3>1, RunAssumption, BeginRunType, MovesType DEF Begin
    <3>2. CASE s # Timer
      BY <2>3, <3>2, BeginRunType, BeginRotationType, MovesType DEF Begin
    <3>. QED BY <3>1, <3>2
  <2>4. ASSUME NEW s \in Sessions, Step(s) PROVE TypeInv'
    BY <2>4, ServeRequestType, ReadMembersType, ShareLeadType, RotateType, PassOverType,
       NextRoundType, CommitType, MovesType DEF Step
  <2>5. ASSUME NEW s \in Sessions, Rollback(s) PROVE TypeInv'
    BY <2>5, IdleType DEF Rollback, TypeInv
  <2>6. CASE UNCHANGED vars
    BY <2>6 DEF vars, TypeInv
  <2>. QED BY <2>1, <2>2, <2>3, <2>4, <2>5, <2>6 DEF Next
<1>. QED BY <1>1, <1>2, PTL DEF Spec

\* Every reachable state is of its type, for any leads, members, requests and
\* overlapping transactions.
THEOREM TypeCorrect == Spec => []TypeOK
<1>1. TypeInv => TypeOK
  <2>. SUFFICES ASSUME TypeInv, NEW s \in Sessions PROVE IsSession(session[s])
    BY DEF TypeInv, TypeOK
  <2>1. session[s] \in SessionRow
    BY DEF TypeInv
  <2>. QED BY <2>1, PartialElim DEF SessionRow, IsSession, IsPartial
<1>. QED BY <1>1, TypeInvHolds, PTL

-----------------------------------------------------------------------------
(* The locks on leads, and what follows from them.                          *)

Mine(s) == session[s].scanned \cup DOMAIN session[s].taken

\* A lead belongs to one transaction at most, and to no user as long as it does.
LocksInv ==
  /\ \A s \in Sessions : \A l \in Mine(s) : owner[l] = NoUser
  /\ \A s, t \in Sessions : s # t => Mine(s) \cap Mine(t) = {}

OwnerInv == LocksInv /\ OpenRowNamesOwner

\* A step of s locks free leads only.
Grabs(s) ==
  /\ UNCHANGED <<owner, rows>>
  /\ \A t \in Sessions \ {s} : session'[t] = session[t]
  /\ \A l \in Mine(s)' : l \in Mine(s) \/ (owner[l] = NoUser /\ ~Locked(l))

\* An operation of a manager leaves the leads of the transactions alone.
SparesLocked ==
  /\ UNCHANGED session
  /\ \A l \in Leads : owner'[l] # owner[l] => ~Locked(l)
  /\ OpenRowNamesOwner'

LEMMA LockedMine == \A l : Locked(l) <=> \E s \in Sessions : l \in Mine(s)
BY DEF Locked, Mine

LEMMA GrabsInv ==
  ASSUME TypeInv, OwnerInv, NEW s \in Sessions, Grabs(s)
  PROVE  OwnerInv'
<1>1. \A t \in Sessions \ {s} : Mine(t)' = Mine(t)
  BY DEF Grabs, Mine
<1>2. \A l \in Mine(s)' : owner[l] = NoUser /\ \A t \in Sessions \ {s} : l \notin Mine(t)
  BY LockedMine DEF Grabs, OwnerInv, LocksInv
<1>3. LocksInv'
  BY <1>1, <1>2 DEF Grabs, OwnerInv, LocksInv
<1>. QED BY <1>3 DEF Grabs, OwnerInv, OpenRowNamesOwner

LEMMA SessionGrabs ==
  ASSUME TypeInv, NEW s \in Sessions,
         Begin(s) \/ Rollback(s)
           \/ (\E r \in Requests : ServeRequest(s, r)) \/ ReadMembers(s)
           \/ (\E l \in Leads, m \in Members : ShareLead(s, l, m))
           \/ (\E r \in Requests, l \in Leads : Rotate(s, r, l))
           \/ (\E r \in Requests : PassOver(s, r)) \/ NextRound(s)
  PROVE  Grabs(s)
<1>. USE DEF Mine
<1>0. session \in [Sessions -> SessionRow] /\ session[s] \in SessionRow
  BY DEF TypeInv
<1>1. \A f, D, g : DOMAIN Extend(f, D, g) = DOMAIN f \cup D
  BY DEF Extend
<1>2. DOMAIN Nothing = {}
  BY DEF Nothing
<1>3. CASE Begin(s) \/ Rollback(s)
  <2>1. UNCHANGED <<owner, rows>> /\ \A t \in Sessions \ {s} : session'[t] = session[t]
    BY <1>0, <1>3 DEF Begin, BeginRun, BeginRotation, Rollback
  <2>2. session'[s].scanned = {} /\ session'[s].taken = Nothing
    <3>1. CASE Rollback(s)
      BY <1>0, <3>1 DEF Rollback, Idle
    <3>2. ASSUME NEW limit, NEW auto, BeginRun(s, limit, auto)
          PROVE  session'[s].scanned = {} /\ session'[s].taken = Nothing
      BY <1>0, <3>2 DEF BeginRun, Idle
    <3>3. CASE BeginRotation(s)
      BY <1>0, <3>3 DEF BeginRotation, Idle
    <3>. QED BY <1>3, <3>1, <3>2, <3>3 DEF Begin
  <2>. QED BY <1>2, <2>1, <2>2 DEF Grabs
<1>4. ASSUME NEW r \in Requests, ServeRequest(s, r) PROVE Grabs(s)
  <2>1. PICK P \in Picks(Assignable \cap Fits[r], Need(s, r)) :
          session' = [session EXCEPT
            ![s].todo = @ \ {r}, ![s].marked = @ \cup {r},
            ![s].left = @ - Cardinality(P),
            ![s].taken = Extend(@, P, GrantFor(r))]
    BY <1>4 DEF ServeRequest
  <2>2. /\ session'[s].scanned = session[s].scanned
        /\ DOMAIN session'[s].taken = DOMAIN session[s].taken \cup P
    BY <1>0, <1>1, <2>1 DEF SessionRow
  <2>3. \A l \in P : owner[l] = NoUser /\ ~Locked(l)
    BY DEF Picks, Assignable
  <2>4. \A t \in Sessions \ {s} : session'[t] = session[t]
    BY <1>0, <2>1
  <2>. QED BY <1>4, <2>2, <2>3, <2>4 DEF Grabs, ServeRequest
<1>5. CASE ReadMembers(s)
  <2>1. PICK n, f : \E P \in Picks(Assignable, n) :
          session' = [session EXCEPT ![s].run = "share", ![s].load = f, ![s].scanned = P]
    BY <1>5 DEF ReadMembers
  <2>2. PICK P \in Picks(Assignable, n) :
          session' = [session EXCEPT ![s].run = "share", ![s].load = f, ![s].scanned = P]
    BY <2>1
  <2>3. session'[s].scanned = P /\ session'[s].taken = session[s].taken
    BY <1>0, <2>2 DEF SessionRow
  <2>4. \A l \in P : owner[l] = NoUser /\ ~Locked(l)
    BY DEF Picks, Assignable
  <2>5. \A t \in Sessions \ {s} : session'[t] = session[t]
    BY <1>0, <2>2
  <2>. QED BY <1>5, <2>3, <2>4, <2>5 DEF Grabs, ReadMembers
<1>6. ASSUME NEW l \in Leads, NEW m \in Members, ShareLead(s, l, m) PROVE Grabs(s)
  <2>1. /\ session'[s].scanned = session[s].scanned \ {l}
        /\ DOMAIN session'[s].taken = DOMAIN session[s].taken \cup {l}
    BY <1>0, <1>1, <1>6 DEF ShareLead, SessionRow
  <2>2. l \in session[s].scanned /\ \A t \in Sessions \ {s} : session'[t] = session[t]
    BY <1>0, <1>6 DEF ShareLead
  <2>. QED BY <1>6, <2>1, <2>2 DEF Grabs, ShareLead
<1>7. ASSUME NEW r \in Requests, NEW l \in Leads, Rotate(s, r, l) PROVE Grabs(s)
  <2>1. /\ session'[s].scanned = session[s].scanned
        /\ DOMAIN session'[s].taken = DOMAIN session[s].taken \cup {l}
    BY <1>0, <1>1, <1>7 DEF Rotate, SessionRow
  <2>2. owner[l] = NoUser /\ ~Locked(l) /\ \A t \in Sessions \ {s} : session'[t] = session[t]
    BY <1>0, <1>7 DEF Rotate, Unowned
  <2>. QED BY <1>7, <2>1, <2>2 DEF Grabs, Rotate
<1>8. ASSUME (\E r \in Requests : PassOver(s, r)) \/ NextRound(s) PROVE Grabs(s)
  <2>1. /\ session'[s].scanned = session[s].scanned /\ session'[s].taken = session[s].taken
        /\ \A t \in Sessions \ {s} : session'[t] = session[t]
    BY <1>0, <1>8 DEF PassOver, NextRound, SessionRow
  <2>. QED BY <1>8, <2>1 DEF Grabs, PassOver, NextRound
<1>. QED BY <1>3, <1>4, <1>5, <1>6, <1>7, <1>8

LEMMA ManagerSpares ==
  ASSUME TypeInv, OwnerInv, Manager
  PROVE  SparesLocked
<1>. USE DEF OwnerInv, OpenRowNamesOwner, SparesLocked
<1>1. ASSUME NEW l \in Leads, NEW m \in Members, Assign(l, m) \/ Reassign(l, m) PROVE SparesLocked
  BY <1>1, UserAssumption DEF Assign, Reassign, TypeInv
<1>2. ASSUME NEW D \in SUBSET Leads, NEW f \in [D -> Members], AutoReassign(f) PROVE SparesLocked
  BY <1>2, UserAssumption DEF AutoReassign, TypeInv
<1>3. ASSUME NEW l \in Leads, Unassign(l) PROVE SparesLocked
  BY <1>3 DEF Unassign, TypeInv
<1>. QED BY <1>1, <1>2, <1>3 DEF Manager

LEMMA SparesInv ==
  ASSUME TypeInv, OwnerInv, SparesLocked
  PROVE  OwnerInv'
<1>1. \A s \in Sessions : Mine(s)' = Mine(s) /\ Mine(s) \subseteq Leads
  BY PartialElim DEF SparesLocked, Mine, TypeInv, SessionRow
<1>2. \A s \in Sessions : \A l \in Mine(s) : Locked(l)
  BY LockedMine
<1>. QED BY <1>1, <1>2 DEF SparesLocked, OwnerInv, LocksInv

\* A commit gives the leads of its session away, and no others.
LEMMA CommitInv ==
  ASSUME TypeInv, OwnerInv, NEW s \in Sessions, Commit(s)
  PROVE  /\ OwnerInv'
         /\ \A l \in Leads : owner'[l] # owner[l] =>
              l \in DOMAIN session[s].taken /\ owner'[l] = session[s].taken[l].user
<1>0. session \in [Sessions -> SessionRow]
  BY DEF TypeInv
<1>1. \A l \in DOMAIN session[s].taken : session[s].taken[l].user \in Members /\ l \in Mine(s)
  <2>1. session[s].taken \in [DOMAIN session[s].taken -> Grant]
    BY <1>0, PartialElim DEF SessionRow
  <2>. QED BY <2>1 DEF Grant, Mine
<1>2. Mine(s)' = {} /\ \A t \in Sessions \ {s} : Mine(t)' = Mine(t) /\ Mine(t) \subseteq Leads
  <2>1. session'[s] = Idle /\ \A t \in Sessions \ {s} : session'[t] = session[t]
    BY <1>0 DEF Commit
  <2>2. \A t \in Sessions : Mine(t) \subseteq Leads
    BY <1>0, PartialElim DEF Mine, SessionRow
  <2>. QED BY <2>1, <2>2 DEF Mine, Idle, Nothing
<1>3. \A l \in Leads : owner'[l] # owner[l] =>
        l \in DOMAIN session[s].taken /\ owner'[l] = session[s].taken[l].user
  BY DEF Commit
<1>4. LocksInv'
  BY <1>1, <1>2, <1>3 DEF OwnerInv, LocksInv
<1>5. OpenRowNamesOwner'
  <2>. SUFFICES ASSUME NEW l \in Leads
                PROVE  rows'[l] = IF owner'[l] = NoUser THEN <<>> ELSE <<owner'[l]>>
    BY DEF OpenRowNamesOwner
  <2>1. CASE l \in DOMAIN session[s].taken
    <3>1. owner[l] = NoUser /\ rows[l] = <<>>
      BY <1>1, <2>1 DEF OwnerInv, LocksInv, OpenRowNamesOwner
    <3>2. owner'[l] = session[s].taken[l].user /\ rows'[l] = Append(rows[l], session[s].taken[l].user)
      BY <2>1 DEF Commit
    <3>. QED BY <1>1, <2>1, <3>1, <3>2, UserAssumption
  <2>2. CASE l \notin DOMAIN session[s].taken
    BY <2>2 DEF Commit, OwnerInv, OpenRowNamesOwner
  <2>. QED BY <2>1, <2>2
<1>. QED BY <1>3, <1>4, <1>5 DEF OwnerInv

\* Every step is of one of these kinds, or touches neither leads nor sessions.
LEMMA Kinds ==
  ASSUME TypeInv, OwnerInv, [Next]_vars
  PROVE  \/ UNCHANGED <<owner, rows, session>>
         \/ SparesLocked
         \/ \E s \in Sessions : Grabs(s) \/ Commit(s)
<1>1. CASE Client
  BY <1>1 DEF Client, Submit, Approve, Resolve, SetAvailable
<1>2. CASE Manager
  BY <1>2, ManagerSpares
<1>3. ASSUME NEW s \in Sessions, Begin(s) \/ Step(s) \/ Rollback(s)
      PROVE  Grabs(s) \/ Commit(s)
  BY <1>3, SessionGrabs DEF Step
<1>4. CASE UNCHANGED vars
  BY <1>4 DEF vars
<1>. QED BY <1>1, <1>2, <1>3, <1>4 DEF Next

LEMMA OwnerInvHolds == Spec => []OwnerInv
<1>1. Init => OwnerInv
  BY DEF Init, OwnerInv, LocksInv, OpenRowNamesOwner, Mine, Idle, Nothing
<1>2. TypeInv /\ OwnerInv /\ [Next]_vars => OwnerInv'
  <2>. SUFFICES ASSUME TypeInv, OwnerInv, [Next]_vars PROVE OwnerInv'
    OBVIOUS
  <2>1. CASE UNCHANGED <<owner, rows, session>>
    BY <2>1 DEF OwnerInv, LocksInv, OpenRowNamesOwner, Mine
  <2>. QED BY <2>1, Kinds, SparesInv, GrabsInv, CommitInv
<1>. QED BY <1>1, <1>2, TypeInvHolds, PTL DEF Spec

\* Assignment history and leads agree, whatever overlaps and rolls back.
THEOREM OpenRowNamesOwnerHolds == Spec => []OpenRowNamesOwner
<1>1. OwnerInv => OpenRowNamesOwner
  BY DEF OwnerInv
<1>. QED BY <1>1, OwnerInvHolds, PTL

\* A transaction never takes a lead over from a user, nor has its leads taken.
THEOREM NoTakeoverHolds == Spec => NoTakeover
<1>. DEFINE Kept == \A s \in Sessions : \A l \in DOMAIN session[s].taken :
                      owner'[l] # owner[l] =>
                        owner[l] = NoUser /\ owner'[l] = session[s].taken[l].user
<1>1. TypeInv /\ OwnerInv /\ [Next]_vars => [Kept]_vars
  <2>. SUFFICES ASSUME TypeInv, OwnerInv, [Next]_vars,
                       NEW s \in Sessions, NEW l \in DOMAIN session[s].taken,
                       owner'[l] # owner[l]
                PROVE  owner[l] = NoUser /\ owner'[l] = session[s].taken[l].user
    OBVIOUS
  <2>1. l \in Mine(s) /\ Locked(l) /\ l \in Leads
    BY LockedMine, PartialElim DEF Mine, TypeInv, SessionRow
  <2>2. owner[l] = NoUser
    BY <2>1 DEF OwnerInv, LocksInv
  <2>3. PICK t \in Sessions : Commit(t)
    BY <2>1, Kinds DEF SparesLocked, Grabs
  <2>4. l \in Mine(t) /\ owner'[l] = session[t].taken[l].user
    BY <2>1, <2>3, CommitInv DEF Mine
  <2>5. t = s
    BY <2>1, <2>4 DEF OwnerInv, LocksInv
  <2>. QED BY <2>2, <2>4, <2>5
<1>. QED BY <1>1, TypeInvHolds, OwnerInvHolds, PTL DEF Spec, NoTakeover
=============================================================================
