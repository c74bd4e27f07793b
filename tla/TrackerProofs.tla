---------------------------- MODULE TrackerProofs ----------------------------
(***************************************************************************)
(* What settle of the analysis tracker answers, proved for every number of *)
(* requests and proposals and every driver.                                *)
(*                                                                         *)
(* The argument.  The listener compares object identities only, so it      *)
(* takes any new Result and any new error for the answer to the plan of    *)
(* now.  That it is never an answer to an older plan rests on the store: a *)
(* Result changes only by applying the reply to a call that carries the    *)
(* newest number, and such a call was made for the plan on screen          *)
(* (GuardIsSound, proved in StoreProofs).  Which call it was the listener  *)
(* cannot tell, so that settle answers with an analysis holds only where   *)
(* nobody optimizes (SettledReflectsPlan).                                 *)
(***************************************************************************)
EXTENDS Tracker, StoreProofs

TInv ==
  /\ IInv
  /\ TrackerTypeOK
  /\ SettledIsFresh

\* A step in which no reply is applied, and the screen keeps its plan and Result or a
\* command puts another plan, or none, on screen.
Unanswered ==
  /\ Applied = {}
  /\ \/ UNCHANGED <<plan, result>>
     \/ plan' \in Plan \ {plan} /\ UNCHANGED result
     \/ plan' = NoPlan

\* A step in which the reply to a call made for the plan on screen is shown.
Answered ==
  /\ plan' = plan /\ plan \in Plan
  /\ Applied # {}
  /\ \/ error' = NoError /\ result'.plan = plan /\ result' # NoResult
     \/ error' # NoError /\ error' \in EngineError /\ error'.plan = plan /\ UNCHANGED result

\* What a tracker may keep of an error, and the history of the plans it saw.
Failure == EngineError \cup {NoError, ParseError}
Seen == UNCHANGED attached /\ changed' = (changed \/ (attached /\ plan' # plan))

-----------------------------------------------------------------------------
(* What the store does, as the listener can tell *)

\* A dispatched command answers nothing.
LEMMA CommandUnanswered ==
  ASSUME IInv, CommandStep
  PROVE  Unanswered
<1>1. Applied = {}
  BY DEF CommandStep, Dispatch, Applied
<1>2. [View!Show \/ View!Notice \/ View!StartOver]_<<plan, result, error>>
  BY CommandStepLemma DEF CommandEffect
<1>3. CASE View!Show
  BY <1>1, <1>3 DEF View!Show, View!None, Unanswered, Plan
<1>4. CASE View!Notice
  BY <1>1, <1>4 DEF View!Notice, Unanswered
<1>5. CASE View!StartOver
  BY <1>1, <1>5 DEF View!StartOver, View!None, NoPlan, Unanswered
<1>6. CASE UNCHANGED <<plan, result, error>>
  BY <1>1, <1>6 DEF Unanswered
<1>. QED BY <1>2, <1>3, <1>4, <1>5, <1>6

\* A reply is applied to the plan on screen, or dropped.
LEMMA ReplyAnswers ==
  ASSUME IInv, NEW c \in calls, Reply(c)
  PROVE  Answered \/ Unanswered
<1>1. c \in Call /\ calls' = calls \ {c} /\ ApplyReply(c)
  BY DEF IInv, TypeOK, Reply
<1>2. CASE ~Current(c)
  <2>1. UNCHANGED stateVars
    BY <1>1, <1>2 DEF ApplyReply
  <2>2. Applied = {}
    BY <1>1, <1>2 DEF Applied
  <2>. QED BY <2>1, <2>2 DEF Unanswered, stateVars
<1>3. CASE Current(c)
  <2>1. c.plan = plan /\ plan \in Plan
    BY <1>1, <1>3 DEF Current, IInv, GuardIsSound, Call
  <2>2. c \in Applied
    BY <1>1, <1>3 DEF Applied
  <2>3. CASE ResultReceived([plan |-> c.plan, from |-> c.op])
    <3>1. error' = NoError /\ result' = [plan |-> c.plan, from |-> c.op] /\ plan' = plan
      BY <2>3 DEF ResultReceived
    <3>. QED BY <2>1, <2>2, <3>1 DEF Answered, NoResult, NoPlan, Plan
  <2>4. ASSUME NEW k \in {"engine", "optimize"},
               ErrorRaised([kind |-> k, plan |-> c.plan])
        PROVE  Answered
    <3>1. error' = [kind |-> k, plan |-> c.plan] /\ UNCHANGED <<plan, result>>
      BY <2>4 DEF ErrorRaised
    <3>2. error' # NoError /\ error' \in EngineError /\ error'.plan = plan
      BY <2>1, <3>1 DEF NoError, NoPlan, Plan, EngineError
    <3>. QED BY <2>1, <2>2, <3>1, <3>2 DEF Answered
  <2>. QED BY <1>1, <1>3, <2>3, <2>4 DEF ApplyReply
<1>. QED BY <1>2, <1>3

\* Every step of the store answers the plan on screen, or nothing.
LEMMA StepAnswers ==
  ASSUME IInv, [Next]_vars
  PROVE  Answered \/ Unanswered
<1>1. TypeOK
  BY DEF IInv
<1>2. CASE Optimize \/ RunAnalyze \/ (\E w \in Waiters : WhenIdle(w)) \/ Dispose
           \/ UNCHANGED vars
  <2>1. UNCHANGED stateVars /\ calls \subseteq calls'
    BY <1>2 DEF Optimize, RunAnalyze, WhenIdle, Dispose, vars, storeVars
  <2>. QED BY <2>1 DEF stateVars, Applied, Unanswered
<1>. QED BY <1>1, <1>2, NextCases, CommandUnanswered, ReplyAnswers

-----------------------------------------------------------------------------
(* The tracker *)

\* The listener after a step that answers nothing: dirty when the plan is another.
LEMMA UnansweredLemma ==
  ASSUME TInv, Unanswered, attached, Observe(ErrorMoved), Seen
  PROVE  /\ dirty' \in BOOLEAN /\ failure' \in Failure
         /\ SettledIsFresh'
<1>1. ~ErrorMoved
  BY DEF Unanswered, ErrorMoved
<1>2. failure' \in {failure, NoError} /\ dirty' = ((dirty \/ PlanMoved) /\ ~ResultMoved)
  BY <1>1 DEF Observe
<1>3. dirty' \in BOOLEAN /\ failure' \in Failure
  BY <1>2 DEF TInv, TrackerTypeOK, Failure
<1>4. CASE plan' = NoPlan
  BY <1>3, <1>4 DEF SettledIsFresh
<1>5. CASE plan' # NoPlan /\ UNCHANGED result
  <2>1. ~ResultMoved
    BY <1>5 DEF Unanswered, ResultMoved
  <2>2. CASE plan' # plan
    BY <1>2, <1>3, <2>1, <2>2 DEF PlanMoved, SettledIsFresh
  <2>3. CASE plan' = plan
    <3>1. failure' = failure /\ dirty' = dirty /\ changed' = changed
      BY <1>1, <2>1, <2>3 DEF Observe, PlanMoved, TInv, TrackerTypeOK, Seen
    <3>. QED BY <1>3, <1>5, <2>3, <3>1 DEF TInv, SettledIsFresh
  <2>. QED BY <2>2, <2>3
<1>. QED BY <1>3, <1>4, <1>5 DEF Unanswered, Plan, NoPlan

\* The listener after an answer: clean, and the answer is to a call for the plan on screen.
LEMMA AnsweredLemma ==
  ASSUME TInv, Answered, attached, Observe(ErrorMoved), Seen
  PROVE  /\ dirty' \in BOOLEAN /\ failure' \in Failure
         /\ SettledIsFresh'
<1>1. ~PlanMoved /\ plan' = plan /\ plan \in Plan /\ dirty \in BOOLEAN
      /\ failure \in Failure /\ changed' = changed
  BY DEF Answered, PlanMoved, TInv, TrackerTypeOK, Seen, Failure
<1>2. CASE error' = NoError /\ result'.plan = plan /\ result' # NoResult
  <2>1. ResultMoved
    BY <1>2 DEF Answered, ResultMoved
  <2>2. dirty' = FALSE /\ failure' = NoError
    BY <2>1 DEF Observe
  <2>. QED BY <1>1, <1>2, <2>2 DEF SettledIsFresh, Failure
<1>3. CASE error' # NoError /\ error' \in EngineError /\ error'.plan = plan /\ UNCHANGED result
  <2>1. ~ResultMoved /\ ErrorMoved
    BY <1>3 DEF Answered, ResultMoved, ErrorMoved
  <2>2. CASE dirty
    <3>1. dirty' = FALSE /\ failure' = error'
      BY <1>1, <1>3, <2>1, <2>2 DEF Observe
    <3>2. error' \in EngineError
      BY <1>3 DEF Answered
    <3>. QED BY <1>1, <1>3, <3>1, <3>2 DEF SettledIsFresh, Failure
  <2>3. CASE ~dirty
    <3>1. dirty' = FALSE /\ failure' = failure
      BY <1>1, <2>1, <2>3 DEF Observe
    <3>. QED BY <1>1, <1>3, <2>3, <3>1 DEF TInv, SettledIsFresh
  <2>. QED BY <1>1, <2>2, <2>3
<1>. QED BY <1>2, <1>3 DEF Answered

\* The listener after an unreadable fixture: the same answer as before, or the error.
LEMMA UnreadableLemma ==
  ASSUME TInv, UnreadableFixture, attached, Observe(TRUE), Seen
  PROVE  /\ dirty' \in BOOLEAN /\ failure' \in Failure
         /\ SettledIsFresh'
<1>1. UNCHANGED <<plan, result, calls>> /\ error' = ParseError
  BY DEF UnreadableFixture, Command, Dispatch, ErrorRaised
<1>2. ~PlanMoved /\ ~ResultMoved /\ changed' = changed /\ attached'
      /\ dirty \in BOOLEAN /\ failure \in Failure
  BY <1>1 DEF PlanMoved, ResultMoved, Applied, Seen, TInv, TrackerTypeOK, Failure
<1>3. CASE dirty
  <2>1. dirty' = FALSE /\ failure' = ParseError
    BY <1>1, <1>2, <1>3 DEF Observe
  <2>. QED BY <1>2, <2>1 DEF SettledIsFresh, Failure, ParseError, NoError
<1>4. CASE ~dirty
  <2>1. dirty' = FALSE /\ failure' = failure
    BY <1>2, <1>4 DEF Observe
  <2>. QED BY <1>1, <1>2, <1>4, <2>1 DEF TInv, SettledIsFresh
<1>. QED BY <1>2, <1>3, <1>4

LEMMA TrackerInitLemma == TrackerInit => TInv
  BY InitLemma DEF TrackerInit, TInv, IInv, TrackerTypeOK, SettledIsFresh

\* The tracker changes nothing of the store.
LEMMA TrackerNextLemma == [TrackerNext]_allVars => [Next]_vars
  BY DEF TrackerNext, Watched, Attach, Detach, Next, allVars

\* The strengthened invariant is inductive.
LEMMA TrackerStepLemma == TInv /\ [TrackerNext]_allVars => TInv'
<1>. SUFFICES ASSUME TInv, [TrackerNext]_allVars PROVE TInv'
  OBVIOUS
<1>1. [Next]_vars
  BY TrackerNextLemma
<1>2. IInv' /\ TypeOK'
  BY <1>1, StepLemma DEF TInv, IInv
<1>3. CASE Watched(Drivers \/ Environment, ErrorMoved)
  <2>1. Seen /\ changed' \in BOOLEAN /\ attached' \in BOOLEAN
    BY <1>3 DEF Watched, Seen, TInv, TrackerTypeOK
  <2>2. CASE attached
    <3>1. Observe(ErrorMoved)
      BY <1>3, <2>2 DEF Watched
    <3>2. dirty' \in BOOLEAN /\ failure' \in Failure /\ SettledIsFresh'
      BY <1>1, <2>1, <2>2, <3>1, StepAnswers, UnansweredLemma, AnsweredLemma DEF TInv
    <3>. QED BY <1>2, <2>1, <3>2 DEF TInv, TrackerTypeOK, Failure
  <2>3. CASE ~attached
    BY <1>2, <1>3, <2>1, <2>3 DEF Watched, Seen, TInv, TrackerTypeOK, SettledIsFresh
  <2>. QED BY <2>2, <2>3
<1>4. CASE Watched(UnreadableFixture, TRUE)
  <2>1. Seen /\ changed' \in BOOLEAN /\ attached' \in BOOLEAN
    BY <1>4 DEF Watched, Seen, TInv, TrackerTypeOK
  <2>2. CASE attached
    <3>1. dirty' \in BOOLEAN /\ failure' \in Failure /\ SettledIsFresh'
      BY <1>4, <2>1, <2>2, UnreadableLemma DEF Watched
    <3>. QED BY <1>2, <2>1, <3>1 DEF TInv, TrackerTypeOK, Failure
  <2>3. CASE ~attached
    BY <1>2, <1>4, <2>1, <2>3 DEF Watched, Seen, TInv, TrackerTypeOK, SettledIsFresh
  <2>. QED BY <2>2, <2>3
<1>5. CASE Attach
  BY <1>2, <1>5 DEF Attach, vars, stateVars, TInv, IInv, TypeOK, ReducerTypeOK,
                   TrackerTypeOK, SettledIsFresh
<1>6. CASE Detach
  BY <1>2, <1>6 DEF Detach, TInv, TrackerTypeOK, SettledIsFresh
<1>7. CASE UNCHANGED allVars
  BY <1>2, <1>7 DEF allVars, trackerVars, vars, stateVars, TInv, TrackerTypeOK,
                   SettledIsFresh
<1>. QED BY <1>3, <1>4, <1>5, <1>6, <1>7 DEF TrackerNext

LEMMA TrackerInductive == TrackerSpec => []TInv
  BY TrackerInitLemma, TrackerStepLemma, PTL DEF TrackerSpec

-----------------------------------------------------------------------------
(* Without the optimizer *)

\* Only analyses are in flight and on screen.
AnalyzedOnly ==
  /\ \A c \in calls : c.op = "analyze"
  /\ result.from # "optimize"

LEMMA AnalyzedStep ==
  ASSUME "optimize" \notin Operations, IInv, AnalyzedOnly, [Next]_vars
  PROVE  AnalyzedOnly'
<1>1. CASE CommandStep
  <2>1. [View!Show \/ View!Notice \/ View!StartOver]_<<plan, result, error>>
    BY <1>1, CommandStepLemma DEF CommandEffect
  <2>2. result' = result \/ result'.from = "none"
    BY <2>1 DEF View!Show, View!Notice, View!StartOver, View!Blank
  <2>. QED BY <1>1, <2>2 DEF AnalyzedOnly, CommandStep, Dispatch
<1>2. CASE RunAnalyze
  BY <1>2 DEF RunAnalyze, stateVars, AnalyzedOnly
<1>3. ASSUME NEW c \in calls, Reply(c)
      PROVE  AnalyzedOnly'
  <2>1. calls' = calls \ {c} /\ ApplyReply(c) /\ c.op = "analyze"
    BY <1>3 DEF Reply, AnalyzedOnly
  <2>2. result' = result \/ result'.from = "analyze"
    BY <2>1 DEF ApplyReply, ResultReceived, ErrorRaised, stateVars
  <2>. QED BY <2>1, <2>2 DEF AnalyzedOnly
<1>4. CASE (\E w \in Waiters : WhenIdle(w)) \/ Dispose \/ UNCHANGED vars
  BY <1>4 DEF WhenIdle, Dispose, vars, storeVars, stateVars, AnalyzedOnly
<1>5. ~Optimize
  BY DEF Optimize
<1>. QED BY <1>1, <1>2, <1>3, <1>4, <1>5, NextCases DEF IInv

-----------------------------------------------------------------------------
(* Theorems *)

\* Types of the store and of its tracker.
THEOREM TrackerTypeCorrect == TrackerSpec => []TrackerTypeOK
<1>1. TInv => TrackerTypeOK
  BY DEF TInv
<1>. QED BY <1>1, TrackerInductive, PTL

\* settle of analysis.ts never answers for an older plan, once the plan has changed under
\* the tracker.
THEOREM FreshCorrect == TrackerSpec => []SettledIsFresh
<1>1. TInv => SettledIsFresh
  BY DEF TInv
<1>. QED BY <1>1, TrackerInductive, PTL

\* Where nobody optimizes, what settle of analysis.ts answers reflects the plan on screen.
THEOREM ReflectsCorrect ==
  ASSUME "optimize" \notin Operations
  PROVE  TrackerSpec => []SettledReflectsPlan
<1>1. TrackerInit => AnalyzedOnly
  BY DEF TrackerInit, Init, ReducerInit, NoResult, AnalyzedOnly
<1>2. TInv /\ AnalyzedOnly /\ [TrackerNext]_allVars => AnalyzedOnly'
  BY AnalyzedStep, TrackerNextLemma DEF TInv
<1>3. TInv /\ AnalyzedOnly => SettledReflectsPlan
  <2>. SUFFICES ASSUME TInv, AnalyzedOnly, attached, ~dirty, plan # NoPlan, changed,
                       failure = NoError
                PROVE  Described(result) = plan
    BY DEF SettledReflectsPlan
  <2>1. result # NoResult /\ result.plan = plan /\ result \in Result \cup {NoResult}
    BY DEF TInv, SettledIsFresh, TrackerTypeOK, TypeOK, ReducerTypeOK
  <2>2. result.from = "analyze"
    BY <2>1 DEF AnalyzedOnly, Result, EngineOp
  <2>. QED BY <2>1, <2>2 DEF Described
<1>. QED BY <1>1, <1>2, <1>3, TrackerInductive, PTL DEF TrackerSpec

\* Under a tracker the store keeps what it promises without one.
THEOREM WatchedStoreCorrect ==
  TrackerSpec => [](BooksBalance /\ GuardIsSound /\ NothingWithoutPlan)
<1>1. TInv => BooksBalance /\ GuardIsSound /\ NothingWithoutPlan
  BY DEF TInv, IInv
<1>. QED BY <1>1, TrackerInductive, PTL
=============================================================================
