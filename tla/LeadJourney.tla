----------------------------- MODULE LeadJourney -----------------------------
(***************************************************************************)
(* What Lifecycle V2 promises about a lead's journey, without screens,     *)
(* versions, handlers or a deadline job.                                   *)
(*                                                                         *)
(* An open journey that has a next step keeps having one until it is       *)
(* closed: a step is replaced by the next, never dropped.  It may get late *)
(* or be held, and it is held only when a retry plan is there to wait for. *)
(* A retry plan goes through its attempts one by one.                      *)
(***************************************************************************)
EXTENDS Integers

CONSTANT MaxTries   \* attempts of a retry plan

VARIABLES
  phase,   \* of the journey
  step,    \* number of next steps there have been
  tries    \* attempt the retry plan waits for, 0 without one

vars == <<phase, step, tries>>

Waiting == {"planned", "late", "working", "held"}

Init == phase \in {"unknown", "unplanned", "closed"} /\ step = 0 /\ tries = 0

\* A retry plan starts with its second attempt, the first being the call
\* that opened it, moves on, or ends.
RetryMoves ==
  \/ tries' = tries
  \/ tries = 0 /\ tries' = 2
  \/ tries > 0 /\ tries < MaxTries /\ tries' = tries + 1
  \/ tries' = 0

Look == phase = "unknown" /\ phase' \in {"unplanned", "closed"} /\ step' = step /\ RetryMoves

Plan == phase' = "planned" /\ step' = step + 1 /\ RetryMoves

GetLate == phase = "planned" /\ phase' = "late" /\ UNCHANGED <<step, tries>>

Work == phase \in {"planned", "late"} /\ phase' = "working" /\ UNCHANGED <<step, tries>>

Hold == phase \in Waiting /\ phase' = "held" /\ tries' > 0 /\ step' = step /\ RetryMoves

Resume == phase = "held" /\ phase' \in {"planned", "late"} /\ step' = step /\ RetryMoves

Close == phase' = "closed" /\ tries' = 0 /\ step' = step

Retry == phase' = phase /\ step' = step /\ RetryMoves

Next == Look \/ Plan \/ GetLate \/ Work \/ Hold \/ Resume \/ Close \/ Retry

Spec == Init /\ [][Next]_vars
=============================================================================
