--------------------------- MODULE MCLeadAssignment ---------------------------
(* Instances of LeadAssignment for TLC.                                     *)
EXTENDS LeadAssignment, TLC

CONSTANTS m1, m2, r1, r2, l1

MCRequester == [r \in Requests |-> IF r = r1 THEN m1 ELSE m2]
MCQuantity == [r \in Requests |-> IF r = r1 THEN 1 ELSE 2]
MCFits == [r \in Requests |-> IF r = r1 THEN {l1} ELSE Leads]
MCCap == [m \in Members |-> IF m = m1 THEN 1 ELSE 0]
MCWeight == [m \in Members |-> IF m = m1 THEN 1 ELSE 2]

=============================================================================
