----------------------------- MODULE MCSheetSync -----------------------------
(***************************************************************************)
(* Instance of SheetSync for TLC.                                          *)
(***************************************************************************)
EXTENDS SheetSync

CONSTANTS v1, v2, v3, v4

\* v3 and v4 differ in a date: day and month change places on the way back.
MCMerged ==
  [x \in Values \X (Values \cup {Blank}) \X (Values \cup {Blank}) |->
     CASE x[2] = Blank -> x[1] [] x[2] = v3 -> v4 [] x[2] = v4 -> v3 [] OTHER -> x[2]]
=============================================================================
