---------------------------- MODULE MCScoreCalls ----------------------------
(* The instance of ScoreCalls that TLC checks: one foreign key, and counts  *)
(* from -1 to 3, so that every band is entered, the clamp is reached by     *)
(* many mappings and the refusal of negatives happens.                      *)
EXTENDS ScoreCalls

MCOtherKeys == {"BLOCKER"}
MCCountValues == -1..3
=============================================================================
