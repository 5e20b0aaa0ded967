---------------------------- MODULE MCGoalReview -----------------------------
(* Instances of GoalReview: two goals and two turns, one of which may be   *)
(* interrupted.                                                            *)
EXTENDS GoalReview
CONSTANTS t1
MCReviews == Goals \X Turns
MCBudget == [g \in Goals |-> 1]
MCInterrupts == {t1, "*"}
=============================================================================
