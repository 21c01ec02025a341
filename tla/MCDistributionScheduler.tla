------------------------ MODULE MCDistributionScheduler ------------------------
(* Instances of DistributionScheduler for TLC.                              *)
EXTENDS DistributionScheduler

CONSTANTS c1, c2

\* c1 is the earlier one.
MCTimeOf == [c \in Configs |-> IF c = c1 THEN 1 ELSE 2]
=============================================================================
