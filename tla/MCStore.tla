------------------------------- MODULE MCStore -------------------------------
(***************************************************************************)
(* Model-checking instances of Store: which operations the drivers use.    *)
(***************************************************************************)
EXTENDS Store

\* Every command, with an unreadable fixture, the optimizer and the end of the session.
BusOperations ==
  {"loadPlan", "edit", "undo", "redo", "propose", "settle", "reset", "baseline",
   "clearError", "optimize", "dispose", "unreadable"}

\* Loading a plan and optimizing it.
OptimizeOperations == {"loadPlan", "edit", "optimize"}

NoWaiter == {}
=============================================================================
