------------------------------ MODULE MCTracker ------------------------------
(***************************************************************************)
(* Model-checking instance of Tracker: the races of the store, with a      *)
(* Copilot that comes along at any time.                                   *)
(***************************************************************************)
EXTENDS Tracker

CONSTANT w1

\* The timing of analysis, optimization, undo and reset, with nothing to propose
\* or pin.
RaceOperations ==
  {"loadPlan", "edit", "undo", "redo", "reset", "clearError", "optimize",
   "whenIdle", "dispose", "unreadable"}

OneWaiter == {w1}

\* One user and one tool: a plan, an edit, an optimization.
ToolOperations == {"loadPlan", "edit", "optimize"}
=============================================================================
