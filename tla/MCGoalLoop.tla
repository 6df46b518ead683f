----------------------------- MODULE MCGoalLoop -----------------------------
(* Small instances of GoalLoop. *)
EXTENDS GoalLoop

Careful    == GoalBehaviours \ {"replace", "lateFailure"}
Meanwhile  == {"meanwhile"}
=============================================================================
