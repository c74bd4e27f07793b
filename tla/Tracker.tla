------------------------------- MODULE Tracker -------------------------------
(***************************************************************************)
(* The store together with the Copilot's analysis tracker,                 *)
(* web/src/copilot/analysis.ts.                                            *)
(*                                                                         *)
(* The tracker sees the store only through its notifications: every action *)
(* of the store that notifies is followed, in the same task, by the        *)
(* tracker's listener; the callers waiting in settle are answered, from    *)
(* the state of that moment, once the tracker is clean.  It compares       *)
(* object identities: any Result that replaces another, any new error that *)
(* is not a rejected command's, counts as the answer.                      *)
(*                                                                         *)
(* When the tracker is clean and there is neither a Result nor a failure,  *)
(* settle analyzes on its own, past the store's guard (lines 56 to 59);    *)
(* SettledIsFresh shows that this is out of reach, so it is not modelled.  *)
(***************************************************************************)
EXTENDS Store

VARIABLES
  attached,  \* a Copilot, with its tracker, exists
  dirty,
  failure,   \* the error whose message the tracker keeps, NoError for null
  changed    \* history: the plan has changed since the tracker was created

trackerVars == <<attached, dirty, failure, changed>>
allVars == <<vars, trackerVars>>

TrackerTypeOK ==
  /\ TypeOK
  /\ attached \in BOOLEAN
  /\ dirty \in BOOLEAN
  /\ failure \in EngineError \cup {NoError, ParseError}
  /\ changed \in BOOLEAN

TrackerInit ==
  /\ Init
  /\ attached = FALSE /\ dirty = FALSE /\ failure = NoError
  /\ changed = FALSE

-----------------------------------------------------------------------------
(* The listener *)

\* A reply of the engine that is not stale is applied in this step.
Applied == {c \in calls : c \notin calls' /\ Current(c)}

\* next.result !== seen.result: an answer was stored, or reset took one away.
ResultMoved == (Applied # {} /\ error' = NoError) \/ (result # NoResult /\ result' = NoResult)

\* Slip: only an error of the engine counts, not a refused optimization.
EngineErrorMoved == Applied # {} /\ error'.kind = "engine"

\* A new error of the engine.  One a view raises is always new (UnreadableFixture below).
ErrorMoved == Applied # {} /\ error' # NoError

\* Slip: a failed tracker waits for a Result, whatever the plan.
PlanMovedUnlessFailed == plan' # plan /\ failure = NoError

\* next.plan !== seen.plan
PlanMoved == plan' # plan

\* The listener of a tracker that is attached.
Observe(errorMoved) ==
  LET expecting == dirty \/ PlanMoved
      failed == expecting /\ errorMoved /\ ~ResultMoved
  IN  /\ dirty' = (expecting /\ ~ResultMoved /\ ~failed)
      /\ failure' = CASE failed -> error'
                      [] ~failed /\ (ResultMoved \/ PlanMoved) -> NoError
                      [] OTHER -> failure

\* A step of the store and what it notifies.
Watched(step, errorMoved) ==
  /\ step
  /\ IF attached THEN Observe(errorMoved) ELSE UNCHANGED <<dirty, failure>>
  /\ changed' = (changed \/ (attached /\ plan' # plan))
  /\ UNCHANGED attached

-----------------------------------------------------------------------------
(* The Copilot *)

\* createAnalysisTracker, with a Copilot: clean when a Result is on screen, also an older
\* plan's whose successor is being analyzed.
Attach ==
  /\ ~disposed /\ ~attached
  /\ attached' = TRUE
  /\ dirty' = (plan # NoPlan /\ result = NoResult)
  /\ failure' = NoError
  /\ changed' = FALSE
  /\ UNCHANGED vars

\* dispose, with the Copilot whose API key is cleared.
Detach ==
  /\ attached /\ attached' = FALSE
  /\ dirty' = FALSE /\ failure' = NoError /\ changed' = FALSE
  /\ UNCHANGED vars

TrackerNext ==
  \/ Watched(Drivers \/ Environment, ErrorMoved)
  \/ Watched(UnreadableFixture, TRUE)
  \/ Attach
  \/ Detach

TrackerFairness ==
  /\ WF_allVars(Watched(RunAnalyze, ErrorMoved))
  /\ WF_allVars(Watched(\E c \in calls : Reply(c), ErrorMoved))

TrackerSpec == TrackerInit /\ [][TrackerNext]_allVars /\ TrackerFairness

-----------------------------------------------------------------------------
(* Properties *)

(***************************************************************************)
(* settle of a clean tracker throws its failure or answers with the Result *)
(* on screen.  Although the listener takes any new object for the answer,  *)
(* that is never the outcome for an older plan: the failure is one of a    *)
(* call made for the plan on screen (or a fixture's that did not parse),   *)
(* the Result comes from such a call, whether an analysis or an            *)
(* optimization.  Until the first change it sees, a tracker may answer     *)
(* with the older Result it was created over.  Without an answer it is not *)
(* clean, so settle never analyzes on its own.                             *)
(***************************************************************************)
SettledIsFresh ==
  attached /\ ~dirty /\ plan # NoPlan =>
    /\ failure = NoError => result # NoResult
    /\ changed =>
         IF failure = NoError THEN result.plan = plan
         ELSE failure = ParseError \/ failure.plan = plan

(***************************************************************************)
(* Every plan change the tracker has seen is settled: with the analysis    *)
(* running in the store, the tracker does not stay dirty after the answer, *)
(* the error, or the refused optimization that superseded it.              *)
(***************************************************************************)
TrackerCatchesUp ==
  \A p \in 1 .. MaxRequests :
    (attached /\ plan = p /\ debounce = "armed")
      ~> (~dirty \/ plan # p \/ disposed)

-----------------------------------------------------------------------------
(* What comments of the source say and the code does not do *)

\* The plan on screen whose figures a Result holds: an analysis those of the plan it was
\* asked about; an optimization those of its winner, a re-phased copy that is not on screen.
Described(r) == IF r.from = "analyze" THEN r.plan ELSE NoPlan

(***************************************************************************)
(* AnalysisTracker.settle "resolves with a Result that reflects the        *)
(* current plan": a Result settle returns describes the plan on screen, at *)
(* least when nothing is scheduled or in flight.                           *)
(***************************************************************************)
SettledReflectsPlan ==
  attached /\ ~dirty /\ IsIdle /\ plan # NoPlan /\ changed /\ failure = NoError =>
    Described(result) = plan
=============================================================================
