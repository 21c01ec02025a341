------------------------------ MODULE LeadQueue ------------------------------
(***************************************************************************)
(* What the counselor workflow promises about a lead's queue, without      *)
(* generations, deadlines, events or a worker.                             *)
(*                                                                         *)
(* An epoch is one assignment of the lead.  The lead is New at most at the *)
(* start of an epoch; the first response to New is credited once in an     *)
(* epoch; a journey may age to Old and Pending but a closed or waiting     *)
(* lead does not age; only work on the lead takes it out of a queue.       *)
(***************************************************************************)
EXTENDS Integers

CONSTANTS
  Leads,
  Epochs      \* assignments, as natural numbers in the order they are made

VARIABLES
  phase,      \* queue position of the lead
  epoch,      \* assignment the position belongs to, -1 before the first
  credited    \* epochs whose first response has been credited

vars == <<phase, epoch, credited>>

Settled == {"journey", "closed", "awaiting"}
Phases == Settled \cup {"none", "new", "old", "pending"}

Init ==
  /\ phase = [l \in Leads |-> "none"]
  /\ epoch = [l \in Leads |-> -1]
  /\ credited = [l \in Leads |-> {}]

\* A new assignment opens as New.
Open(l, e) ==
  /\ e > epoch[l]
  /\ phase' = [phase EXCEPT ![l] = "new"]
  /\ epoch' = [epoch EXCEPT ![l] = e]
  /\ UNCHANGED credited

\* The first response to New, which may itself open the epoch.
Respond(l, e, p) ==
  /\ \/ e = epoch[l] /\ phase[l] = "new"
     \/ e > epoch[l]
  /\ e \notin credited[l]
  /\ phase' = [phase EXCEPT ![l] = p]
  /\ epoch' = [epoch EXCEPT ![l] = e]
  /\ credited' = [credited EXCEPT ![l] = @ \cup {e}]

\* Other work, or a change outside the workflow.
Continue(l, e, p) ==
  /\ e >= epoch[l]
  /\ phase' = [phase EXCEPT ![l] = p]
  /\ epoch' = [epoch EXCEPT ![l] = e]
  /\ UNCHANGED credited

Age(l) ==
  /\ \/ phase[l] = "journey" /\ phase' = [phase EXCEPT ![l] = "old"]
     \/ /\ phase[l] \in {"new", "journey", "old"}
        /\ phase' = [phase EXCEPT ![l] = "pending"]
  /\ UNCHANGED <<epoch, credited>>

Next ==
  \E l \in Leads :
    \/ \E e \in Epochs :
         \/ Open(l, e)
         \/ \E p \in Settled : Respond(l, e, p) \/ Continue(l, e, p)
    \/ Age(l)

Spec == Init /\ [][Next]_vars
=============================================================================
