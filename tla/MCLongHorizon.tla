---------------------------- MODULE MCLongHorizon ----------------------------
(* Instances of LongHorizon: a goal, a periodic record and a user's        *)
(* schedule.                                                               *)
EXTENDS LongHorizon
CONSTANTS g1, g2
MCMode == [g \in Goals |-> IF g = g1 THEN "goal" ELSE "periodic"]
=============================================================================
