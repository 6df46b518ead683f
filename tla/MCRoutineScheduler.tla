------------------------ MODULE MCRoutineScheduler ------------------------
(* Small instances of RoutineScheduler: routines of one or two agents. *)
EXTENDS RoutineScheduler, TLC
CONSTANTS r1, r2, a1, a2

Shared   == r1 :> a1 @@ r2 :> a1
Alone    == r1 :> a1
BothTimed  == r1 :> "timed" @@ r2 :> "timed"
OneTimed   == r1 :> "timed"
OneWatch   == r1 :> "watch"
Periods  == "timed" :> 2 @@ "watch" :> 1

NoExtras   == {}
Everything == Behaviours \ {"editInCheck"}
WithFaults == {"stop", "openFails", "modelFails", "rebuild", "seam"}
WithStop    == {"stop"}
WithToggle  == {"toggle"}
============================================================================
