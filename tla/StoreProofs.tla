----------------------------- MODULE StoreProofs -----------------------------
(***************************************************************************)
(* What TLC checks of Store on small instances, proved for every number of *)
(* requests, proposals and waiters, and every set of operations in use.    *)
(*                                                                         *)
(* The argument.  A command changes the plan only together with a new      *)
(* request number (dispatch), so a call that carries the newest number was *)
(* made for the plan on screen (GuardIsSound), and the guard lets nothing  *)
(* else through.  With no plan on screen no call can be current, so what   *)
(* reset forgot stays forgotten (NothingWithoutPlan).  The counters agree  *)
(* with the calls (BooksBalance) because no two calls in flight are alike, *)
(* which is not obvious of two calls that share a number: NewestUnanalyzed *)
(* is the strengthening that shows it.                                     *)
(***************************************************************************)
EXTENDS Store, FiniteSetTheorems, SequenceTheorems, TLAPS

\* While the debounce is pending, no analysis in flight has the newest number.
NewestUnanalyzed ==
  debounce = "armed" =>
    \A c \in calls : c.op = "analyze" => c.request # latestRequest

IInv ==
  /\ TypeOK
  /\ IsFiniteSet(calls)
  /\ BooksBalance
  /\ GuardIsSound
  /\ NothingWithoutPlan
  /\ NewestUnanalyzed

-----------------------------------------------------------------------------
(* Sequences used as stacks *)

\* The last element of a stack, and the stack without it.
LEMMA StackLemma ==
  ASSUME NEW S, NEW s \in Seq(S), s # << >>
  PROVE  Last(s) \in S /\ Front(s) \in Seq(S)
  BY DEF Last, Front

\* A stack with one element put on top.
LEMMA PushLemma ==
  ASSUME NEW S, NEW s \in Seq(S), NEW x \in S
  PROVE  Append(s, x) \in Seq(S) /\ Append(s, x) # << >>
  BY AppendProperties

-----------------------------------------------------------------------------
(* The commands a driver can dispatch *)

DriverCommand ==
  \/ LoadPlan
  \/ \E applies \in BOOLEAN : Edit(applies)
  \/ Undo
  \/ Redo
  \/ \E id \in ProposalId, applies \in BOOLEAN : Propose(id, applies)
  \/ \E id \in ProposalId, applies \in BOOLEAN : AcceptProposal(id, applies)
  \/ \E id \in ProposalId : RejectProposal(id)
  \/ Reset
  \/ \E blankLabel \in BOOLEAN : SetBaseline(blankLabel)
  \/ ClearBaseline
  \/ ToggleCompare
  \/ ClearError
  \/ ErrorRaised(ParseError)

\* What any command does to the state, as far as the invariants can tell: the types
\* survive, nothing appears without a plan, and the view is shown another plan, given
\* a notice, or started over.
CommandEffect ==
  /\ ReducerTypeOK'
  /\ NothingWithoutPlan'
  /\ [View!Show \/ View!Notice \/ View!StartOver]_<<plan, result, error>>

\* A rejected command only raises its banner.
LEMMA RejectEffect ==
  ASSUME ReducerTypeOK, NothingWithoutPlan, Reject
  PROVE  CommandEffect
  BY DEF ReducerTypeOK, NothingWithoutPlan, Reject, CommandEffect, CommandError,
         NoError, View!Notice, View!Quiet, View!None, NoPlan

\* A committed plan is a fresh clone, hence another plan.
LEMMA CommitPlanEffect ==
  ASSUME ReducerTypeOK, CommitPlan
  PROVE  /\ plan' \in Plan /\ past' \in Seq(Plan) /\ future' \in Seq(Plan)
         /\ clones' \in Nat /\ rejected' = FALSE
<1>1. plan' \in Plan /\ clones' \in Nat /\ rejected' = FALSE
  BY DEF CommitPlan, ReducerTypeOK, Plan
<1>2. future' \in Seq(Plan)
  BY DEF CommitPlan
<1>3. past' \in Seq(Plan)
  <2>1. CASE plan = NoPlan
    BY <2>1 DEF CommitPlan, ReducerTypeOK
  <2>2. CASE plan # NoPlan
    <3>1. plan \in Plan /\ past \in Seq(Plan)
      BY <2>2 DEF ReducerTypeOK
    <3>2. past' = Append(past, plan)
      BY <2>2 DEF CommitPlan
    <3>. QED BY <3>1, <3>2, PushLemma
  <2>. QED BY <2>1, <2>2
<1>. QED BY <1>1, <1>2, <1>3

\* A step to a new plan that leaves Result and banner alone is a Show, or, if it were
\* the same plan again, no step of the view at all.
LEMMA ShowEffect ==
  ASSUME plan' \in Plan, UNCHANGED <<result, error>>
  PROVE  [View!Show \/ View!Notice \/ View!StartOver]_<<plan, result, error>>
  BY DEF View!Show, View!None, Plan

\* Undo and redo move snapshots between the stacks; with none they do nothing.
LEMMA ShiftEffect ==
  ASSUME ReducerTypeOK, NothingWithoutPlan, Undo \/ Redo
  PROVE  CommandEffect
<1>1. CASE past # << >> /\ plan # NoPlan /\ Undo
  <2>1. plan \in Plan /\ past \in Seq(Plan) /\ future \in Seq(Plan)
    BY <1>1 DEF ReducerTypeOK
  <2>2. plan' = Last(past) /\ past' = Front(past) /\ future' = Append(future, plan)
    BY <1>1 DEF Undo
  <2>3. plan' \in Plan /\ past' \in Seq(Plan) /\ future' \in Seq(Plan)
    BY <1>1, <2>1, <2>2, StackLemma, PushLemma
  <2>4. UNCHANGED <<result, baseline, compare, proposals, error, clones>>
        /\ rejected' = FALSE
    BY <1>1 DEF Undo
  <2>5. ReducerTypeOK'
    BY <2>3, <2>4 DEF ReducerTypeOK
  <2>6. NothingWithoutPlan'
    BY <2>3 DEF NothingWithoutPlan, Plan, NoPlan
  <2>. QED BY <2>3, <2>4, <2>5, <2>6, ShowEffect DEF CommandEffect
<1>2. CASE future # << >> /\ plan # NoPlan /\ Redo
  <2>1. plan \in Plan /\ past \in Seq(Plan) /\ future \in Seq(Plan)
    BY <1>2 DEF ReducerTypeOK
  <2>2. plan' = Last(future) /\ future' = Front(future) /\ past' = Append(past, plan)
    BY <1>2 DEF Redo
  <2>3. plan' \in Plan /\ past' \in Seq(Plan) /\ future' \in Seq(Plan)
    BY <1>2, <2>1, <2>2, StackLemma, PushLemma
  <2>4. UNCHANGED <<result, baseline, compare, proposals, error, clones>>
        /\ rejected' = FALSE
    BY <1>2 DEF Redo
  <2>5. ReducerTypeOK'
    BY <2>3, <2>4 DEF ReducerTypeOK
  <2>6. NothingWithoutPlan'
    BY <2>3 DEF NothingWithoutPlan, Plan, NoPlan
  <2>. QED BY <2>3, <2>4, <2>5, <2>6, ShowEffect DEF CommandEffect
<1>3. CASE UNCHANGED <<plan, past, future>> /\ (Undo \/ Redo)
  <2>1. UNCHANGED <<plan, result, baseline, compare, proposals, error, past, future,
                    clones>> /\ rejected' = FALSE
    BY <1>3 DEF Undo, Redo
  <2>2. ReducerTypeOK'
    BY <2>1 DEF ReducerTypeOK
  <2>3. NothingWithoutPlan'
    BY <2>1 DEF NothingWithoutPlan
  <2>. QED BY <2>1, <2>2, <2>3 DEF CommandEffect
<1>. QED BY <1>1, <1>2, <1>3 DEF Undo, Redo

\* Whatever command is dispatched keeps the reducer's part of the invariant and is a
\* step of the abstract view.
LEMMA CommandLemma ==
  ASSUME ReducerTypeOK, NothingWithoutPlan, DriverCommand
  PROVE  CommandEffect
<1>1. CASE LoadPlan
  <2>1. UNCHANGED <<result, baseline, compare, proposals, error>> /\ CommitPlan
    BY <1>1 DEF LoadPlan
  <2>2. ReducerTypeOK'
    BY <2>1, CommitPlanEffect DEF ReducerTypeOK
  <2>3. NothingWithoutPlan'
    BY <2>1, CommitPlanEffect DEF NothingWithoutPlan, Plan, NoPlan
  <2>. QED BY <2>1, <2>2, <2>3, CommitPlanEffect, ShowEffect DEF CommandEffect
<1>2. ASSUME NEW applies \in BOOLEAN, Edit(applies)
      PROVE  CommandEffect
  <2>1. CASE Reject
    BY <2>1, RejectEffect
  <2>2. CASE CommitPlan /\ UNCHANGED <<result, baseline, compare, proposals, error>>
    <3>1. ReducerTypeOK'
      BY <2>2, CommitPlanEffect DEF ReducerTypeOK
    <3>2. NothingWithoutPlan'
      BY <2>2, CommitPlanEffect DEF NothingWithoutPlan, Plan, NoPlan
    <3>. QED BY <2>2, <3>1, <3>2, CommitPlanEffect, ShowEffect DEF CommandEffect
  <2>. QED BY <1>2, <2>1, <2>2 DEF Edit
<1>3. CASE Undo \/ Redo
  BY <1>3, ShiftEffect
<1>4. ASSUME NEW id \in ProposalId, NEW applies \in BOOLEAN, Propose(id, applies)
      PROVE  CommandEffect
  <2>1. CASE Reject
    BY <2>1, RejectEffect
  <2>2. CASE ~Reject
    <3>1. /\ plan # NoPlan
          /\ proposals' = [proposals EXCEPT ![id] = "pending"]
          /\ rejected' = FALSE
          /\ UNCHANGED <<plan, result, baseline, compare, error, past, future, clones>>
      BY <1>4, <2>2 DEF Propose
    <3>2. ReducerTypeOK'
      BY <3>1 DEF ReducerTypeOK, Status
    <3>3. NothingWithoutPlan'
      BY <3>1 DEF NothingWithoutPlan
    <3>. QED BY <3>1, <3>2, <3>3 DEF CommandEffect
  <2>. QED BY <2>1, <2>2
<1>5. ASSUME NEW id \in ProposalId, NEW applies \in BOOLEAN, AcceptProposal(id, applies)
      PROVE  CommandEffect
  <2>1. CASE Reject
    BY <2>1, RejectEffect
  <2>2. CASE ~Reject
    <3>1. /\ CommitPlan
          /\ proposals' = [proposals EXCEPT ![id] = "accepted"]
          /\ UNCHANGED <<result, baseline, compare, error>>
      BY <1>5, <2>2 DEF AcceptProposal
    <3>2. ReducerTypeOK'
      BY <3>1, CommitPlanEffect DEF ReducerTypeOK, Status
    <3>3. NothingWithoutPlan'
      BY <3>1, CommitPlanEffect DEF NothingWithoutPlan, Plan, NoPlan
    <3>. QED BY <3>1, <3>2, <3>3, CommitPlanEffect, ShowEffect DEF CommandEffect
  <2>. QED BY <2>1, <2>2
<1>6. ASSUME NEW id \in ProposalId, RejectProposal(id)
      PROVE  CommandEffect
  <2>1. CASE Reject
    BY <2>1, RejectEffect
  <2>2. CASE ~Reject
    <3>1. /\ proposals[id] = "pending"
          /\ proposals' = [proposals EXCEPT ![id] = "rejected"]
          /\ rejected' = FALSE
          /\ UNCHANGED <<plan, result, baseline, compare, error, past, future, clones>>
      BY <1>6, <2>2 DEF RejectProposal
    <3>2. ReducerTypeOK'
      BY <3>1 DEF ReducerTypeOK, Status
    <3>3. NothingWithoutPlan'
      BY <3>1 DEF NothingWithoutPlan
    <3>. QED BY <3>1, <3>2, <3>3 DEF CommandEffect
  <2>. QED BY <2>1, <2>2
<1>7. CASE Reset
  <2>1. ReducerTypeOK'
    <3>1. proposals' \in [ProposalId -> Status]
      BY <1>7 DEF Reset, Status
    <3>2. past' \in Seq(Plan) /\ future' \in Seq(Plan)
      BY <1>7 DEF Reset
    <3>3. compare' \in BOOLEAN /\ rejected' \in BOOLEAN /\ clones' \in Nat
      BY <1>7 DEF Reset, ReducerTypeOK
    <3>. QED BY <1>7, <3>1, <3>2, <3>3 DEF Reset, ReducerTypeOK
  <2>2. NothingWithoutPlan'
    BY <1>7 DEF Reset, NothingWithoutPlan
  <2>3. View!StartOver
    BY <1>7 DEF Reset, View!StartOver, View!None, View!Blank, View!Quiet, NoPlan,
               NoResult, NoError
  <2>. QED BY <2>1, <2>2, <2>3 DEF CommandEffect
<1>8. ASSUME NEW blankLabel \in BOOLEAN, SetBaseline(blankLabel)
      PROVE  CommandEffect
  <2>1. CASE Reject
    BY <2>1, RejectEffect
  <2>2. CASE ~Reject
    <3>1. /\ plan # NoPlan /\ result # NoResult
          /\ baseline' = [plan |-> plan, result |-> result]
          /\ rejected' = FALSE
          /\ UNCHANGED <<plan, result, compare, proposals, error, past, future, clones>>
      BY <1>8, <2>2 DEF SetBaseline
    <3>2. ReducerTypeOK'
      BY <3>1 DEF ReducerTypeOK
    <3>3. NothingWithoutPlan'
      BY <3>1 DEF NothingWithoutPlan
    <3>. QED BY <3>1, <3>2, <3>3 DEF CommandEffect
  <2>. QED BY <2>1, <2>2
<1>9. CASE ClearBaseline \/ ToggleCompare
  <2>1. CASE Reject
    BY <2>1, RejectEffect
  <2>2. CASE ~Reject
    <3>1. /\ baseline' \in {baseline, NoBaseline}
          /\ compare' \in BOOLEAN
          /\ rejected' = FALSE
          /\ UNCHANGED <<plan, result, proposals, error, past, future, clones>>
      BY <1>9, <2>2 DEF ClearBaseline, ToggleCompare, ReducerTypeOK
    <3>2. ReducerTypeOK'
      BY <3>1 DEF ReducerTypeOK
    <3>3. NothingWithoutPlan'
      BY <3>1 DEF NothingWithoutPlan
    <3>. QED BY <3>1, <3>2, <3>3 DEF CommandEffect
  <2>. QED BY <2>1, <2>2
<1>10. CASE ClearError
  <2>1. ReducerTypeOK'
    BY <1>10 DEF ClearError, ReducerTypeOK
  <2>2. NothingWithoutPlan'
    BY <1>10 DEF ClearError, NothingWithoutPlan
  <2>3. View!Notice
    BY <1>10 DEF ClearError, View!Notice, View!Quiet, View!None, NoError, NoPlan
  <2>. QED BY <2>1, <2>2, <2>3 DEF CommandEffect
<1>11. CASE ErrorRaised(ParseError)
  <2>1. ReducerTypeOK'
    BY <1>11 DEF ErrorRaised, ReducerTypeOK
  <2>2. NothingWithoutPlan'
    BY <1>11 DEF ErrorRaised, NothingWithoutPlan
  <2>3. View!Notice
    BY <1>11 DEF ErrorRaised, View!Notice, View!None, ParseError, NoPlan
  <2>. QED BY <2>1, <2>2, <2>3 DEF CommandEffect
<1>. QED BY <1>1, <1>2, <1>3, <1>4, <1>5, <1>6, <1>7, <1>8, <1>9, <1>10, <1>11
         DEF DriverCommand

-----------------------------------------------------------------------------
(* The steps of the store *)

\* Every dispatched command, whoever dispatches it.
CommandStep == Dispatch(DriverCommand) /\ proposalCounter' \in 0 .. MaxProposals

\* Every step is a dispatched command or one of the store's own.
LEMMA NextCases ==
  ASSUME TypeOK, [Next]_vars
  PROVE  \/ CommandStep \/ Optimize \/ (\E w \in Waiters : WhenIdle(w)) \/ Dispose
         \/ RunAnalyze \/ (\E c \in calls : Reply(c)) \/ UNCHANGED vars
<1>1. ASSUME NEW operation, NEW applies \in BOOLEAN, ProposeChange(applies)
      PROVE  CommandStep
  <2>1. proposalCounter + 1 \in ProposalId /\ proposalCounter' \in 0 .. MaxProposals
    BY <1>1, ReducerAssumption DEF ProposeChange, TypeOK, ProposalId
  <2>. QED BY <1>1, <2>1 DEF ProposeChange, CommandStep, Dispatch, DriverCommand
<1>2. \/ Command("loadPlan", LoadPlan)
      \/ \E applies \in BOOLEAN : Command("edit", Edit(applies))
      \/ Command("undo", Undo)
      \/ Command("redo", Redo)
      => CommandStep
  BY DEF Command, CommandStep, Dispatch, DriverCommand, TypeOK
<1>3. \/ \E id \in ProposalId, applies \in BOOLEAN :
           Command("settle", AcceptProposal(id, applies))
      \/ \E id \in ProposalId : Command("settle", RejectProposal(id))
      \/ Command("reset", Reset)
      => CommandStep
  BY DEF Command, CommandStep, Dispatch, DriverCommand, TypeOK
<1>4. \/ \E blankLabel \in BOOLEAN : Command("baseline", SetBaseline(blankLabel))
      \/ Command("baseline", ClearBaseline)
      \/ Command("baseline", ToggleCompare)
      \/ Command("clearError", ClearError)
      \/ UnreadableFixture
      => CommandStep
  BY DEF Command, CommandStep, Dispatch, DriverCommand, TypeOK, UnreadableFixture
<1>. QED BY <1>1, <1>2, <1>3, <1>4 DEF Next, Drivers, Environment

\* The invariant holds of a new store.
LEMMA InitLemma == Init => IInv
<1>. SUFFICES ASSUME Init PROVE IInv
  OBVIOUS
<1>1. ReducerTypeOK
  <2>1. proposals \in [ProposalId -> Status]
    BY DEF Init, ReducerInit, Status
  <2>2. past \in Seq(Plan) /\ future \in Seq(Plan)
    BY DEF Init, ReducerInit
  <2>. QED BY <2>1, <2>2 DEF Init, ReducerInit, ReducerTypeOK
<1>2. TypeOK
  <2>1. analyzing \in BOOLEAN /\ optimizing \in BOOLEAN /\ disposed \in BOOLEAN
    BY DEF Init
  <2>2. proposalCounter \in 0 .. MaxProposals
    BY ReducerAssumption DEF Init
  <2>. QED BY <1>1, <2>1, <2>2 DEF Init, TypeOK
<1>3. IsFiniteSet(calls)
  BY FS_EmptySet DEF Init
<1>4. BooksBalance
  <2>1. {c \in calls : c.op = "analyze"} = {}
    BY DEF Init
  <2>. QED BY <2>1, FS_EmptySet DEF Init, BooksBalance
<1>5. NothingWithoutPlan
  BY DEF Init, ReducerInit, NothingWithoutPlan
<1>. QED BY <1>2, <1>3, <1>4, <1>5 DEF Init, IInv, GuardIsSound, NewestUnanalyzed

\* A dispatched command, with the analysis it schedules.
LEMMA CommandStepLemma ==
  ASSUME IInv, CommandStep
  PROVE  IInv' /\ CommandEffect
<1>1. CommandEffect
  BY CommandLemma DEF IInv, TypeOK, CommandStep, Dispatch
<1>2. /\ UNCHANGED <<optimizing, inFlight, analyzeInFlight, calls, waiters, disposed>>
      /\ proposalCounter' \in 0 .. MaxProposals
      /\ ~disposed
  BY DEF CommandStep, Dispatch
<1>3. CASE plan' # plan
  <2>1. latestRequest' = latestRequest + 1 /\ debounce' = "armed" /\ analyzing' = TRUE
    BY <1>3 DEF CommandStep, Dispatch, ScheduleAnalyze
  <2>2. TypeOK'
    BY <1>1, <1>2, <2>1 DEF IInv, TypeOK, CommandEffect
  <2>3. BooksBalance'
    BY <1>2, <2>1 DEF IInv, BooksBalance, IsIdle
  <2>4. GuardIsSound' /\ NewestUnanalyzed'
    BY <1>2, <2>1 DEF IInv, TypeOK, Call, GuardIsSound, NewestUnanalyzed
  <2>. QED BY <1>1, <1>2, <2>2, <2>3, <2>4 DEF IInv, CommandEffect
<1>4. CASE plan' = plan
  <2>1. UNCHANGED <<latestRequest, debounce, analyzing>>
    BY <1>4 DEF CommandStep, Dispatch
  <2>2. TypeOK'
    BY <1>1, <1>2, <2>1 DEF IInv, TypeOK, CommandEffect
  <2>3. BooksBalance'
    BY <1>2, <2>1 DEF IInv, BooksBalance, IsIdle
  <2>4. GuardIsSound' /\ NewestUnanalyzed'
    BY <1>2, <1>4, <2>1 DEF IInv, GuardIsSound, NewestUnanalyzed
  <2>. QED BY <1>1, <1>2, <2>2, <2>3, <2>4 DEF IInv, CommandEffect
<1>. QED BY <1>3, <1>4

\* A new call is unlike every call in flight, and the counters follow it.
LEMMA AddCallLemma ==
  ASSUME IInv, NEW c \in Call, c \notin calls, calls' = calls \cup {c}
  PROVE  /\ IsFiniteSet(calls') /\ Cardinality(calls') = inFlight + 1
         /\ Cardinality({d \in calls' : d.op = "analyze"}) =
              IF c.op = "analyze" THEN analyzeInFlight + 1 ELSE analyzeInFlight
<1>. DEFINE An == {d \in calls : d.op = "analyze"}
<1>1. IsFiniteSet(calls) /\ inFlight = Cardinality(calls)
      /\ analyzeInFlight = Cardinality(An)
  BY DEF IInv, BooksBalance
<1>2. IsFiniteSet(calls') /\ Cardinality(calls') = inFlight + 1
  BY <1>1, FS_AddElement
<1>3. IsFiniteSet(An)
  BY <1>1, FS_Subset
<1>4. CASE c.op = "analyze"
  <2>1. {d \in calls' : d.op = "analyze"} = An \cup {c}
    BY <1>4
  <2>2. c \notin An
    OBVIOUS
  <2>. HIDE DEF An
  <2>. QED BY <1>1, <1>2, <1>3, <1>4, <2>1, <2>2, FS_AddElement
<1>5. CASE c.op # "analyze"
  <2>1. {d \in calls' : d.op = "analyze"} = An
    BY <1>5
  <2>. QED BY <1>1, <1>2, <1>5, <2>1
<1>. QED BY <1>4, <1>5

\* A settled call leaves, and the counters follow it.
LEMMA RemoveCallLemma ==
  ASSUME IInv, NEW c \in calls, calls' = calls \ {c}
  PROVE  /\ IsFiniteSet(calls') /\ Cardinality(calls') = inFlight - 1
         /\ inFlight - 1 \in Nat
         /\ LET n == IF c.op = "analyze" THEN analyzeInFlight - 1 ELSE analyzeInFlight
            IN  n \in Nat /\ Cardinality({d \in calls' : d.op = "analyze"}) = n
<1>. DEFINE An == {d \in calls : d.op = "analyze"}
<1>1. IsFiniteSet(calls) /\ inFlight = Cardinality(calls)
      /\ analyzeInFlight = Cardinality(An)
  BY DEF IInv, BooksBalance
<1>2. IsFiniteSet(calls') /\ Cardinality(calls') = inFlight - 1
  BY <1>1, FS_RemoveElement
<1>3. IsFiniteSet(An)
  BY <1>1, FS_Subset
<1>4. inFlight - 1 \in Nat
  BY <1>2, FS_CardinalityType
<1>5. CASE c.op = "analyze"
  <2>1. {d \in calls' : d.op = "analyze"} = An \ {c}
    OBVIOUS
  <2>2. c \in An
    BY <1>5
  <2>. HIDE DEF An
  <2>3. Cardinality(An \ {c}) = analyzeInFlight - 1
    BY <1>1, <1>3, <2>2, FS_RemoveElement
  <2>4. Cardinality(An \ {c}) \in Nat
    BY <1>3, FS_RemoveElement, FS_CardinalityType
  <2>. QED BY <1>2, <1>4, <1>5, <2>1, <2>3, <2>4
<1>6. CASE c.op # "analyze"
  <2>1. {d \in calls' : d.op = "analyze"} = An
    BY <1>6
  <2>2. analyzeInFlight \in Nat
    BY DEF IInv, TypeOK
  <2>. QED BY <1>1, <1>2, <1>4, <1>6, <2>1, <2>2
<1>. QED BY <1>5, <1>6

\* The debounce timer fires: the call made carries the newest number and the plan of now.
LEMMA RunAnalyzeLemma ==
  ASSUME IInv, RunAnalyze
  PROVE  IInv'
<1>1. /\ debounce = "armed" /\ debounce' = "none"
      /\ UNCHANGED <<stateVars, optimizing, latestRequest, proposalCounter, disposed>>
  BY DEF RunAnalyze
<1>2. ReducerTypeOK' /\ NothingWithoutPlan'
  BY <1>1 DEF stateVars, IInv, TypeOK, ReducerTypeOK, NothingWithoutPlan
<1>3. CASE plan = NoPlan
  <2>1. /\ UNCHANGED <<calls, inFlight, analyzeInFlight>>
        /\ SettleIfIdle
    BY <1>3 DEF RunAnalyze
  <2>2. waiters' = IF inFlight' = 0 THEN {} ELSE waiters
    BY <1>1, <2>1 DEF SettleIfIdle, IsIdle
  <2>3. analyzing' = (analyzing /\ analyzeInFlight' # 0) /\ analyzing' \in BOOLEAN
    BY <1>1, <2>1 DEF SettleIfIdle
  <2>4. TypeOK'
    BY <1>1, <1>2, <2>1, <2>2, <2>3 DEF IInv, TypeOK
  <2>5. BooksBalance'
    <3>1. analyzing' <=> analyzeInFlight' > 0
      <4>1. analyzing
        BY <1>1 DEF IInv, BooksBalance
      <4>2. analyzing' <=> analyzeInFlight' # 0
        BY <2>3, <4>1
      <4>3. analyzeInFlight' \in Nat
        BY <2>1 DEF IInv, TypeOK
      <4>. QED BY <4>2, <4>3
    <3>. QED BY <1>1, <2>1, <2>2, <3>1 DEF IInv, BooksBalance, IsIdle
  <2>6. GuardIsSound' /\ NewestUnanalyzed'
    BY <1>1, <2>1 DEF stateVars, IInv, GuardIsSound, NewestUnanalyzed
  <2>. QED BY <1>2, <2>1, <2>4, <2>5, <2>6 DEF IInv
<1>4. CASE plan # NoPlan
  <2>. DEFINE c == [op |-> "analyze", request |-> latestRequest, plan |-> plan]
  <2>1. /\ calls' = calls \cup {c}
        /\ inFlight' = inFlight + 1
        /\ analyzeInFlight' = analyzeInFlight + 1
        /\ UNCHANGED <<analyzing, waiters>>
    BY <1>4 DEF RunAnalyze
  <2>2. c \in Call /\ c.op = "analyze" /\ c.request = latestRequest /\ c.plan = plan
    BY <1>4 DEF Call, EngineOp, IInv, TypeOK, ReducerTypeOK
  <2>3. c \notin calls
    BY <1>1, <2>2 DEF IInv, NewestUnanalyzed
  <2>. HIDE DEF c
  <2>4. /\ IsFiniteSet(calls') /\ Cardinality(calls') = inFlight'
        /\ Cardinality({d \in calls' : d.op = "analyze"}) = analyzeInFlight'
    BY <2>1, <2>2, <2>3, AddCallLemma
  <2>5. TypeOK'
    BY <1>1, <1>2, <2>1, <2>2 DEF IInv, TypeOK
  <2>6. BooksBalance'
    <3>1. inFlight' > 0 /\ analyzeInFlight' > 0
      BY <2>1 DEF IInv, TypeOK
    <3>2. analyzing'
      BY <1>1, <2>1 DEF IInv, BooksBalance
    <3>3. optimizing' => \E d \in calls' : d.op = "optimize"
      BY <1>1, <2>1 DEF IInv, BooksBalance
    <3>. QED BY <2>4, <3>1, <3>2, <3>3 DEF BooksBalance, IsIdle
  <2>7. GuardIsSound'
    BY <1>1, <2>1, <2>2 DEF stateVars, IInv, TypeOK, GuardIsSound
  <2>8. NewestUnanalyzed'
    BY <1>1 DEF NewestUnanalyzed
  <2>. QED BY <1>2, <2>4, <2>5, <2>6, <2>7, <2>8 DEF IInv
<1>. QED BY <1>3, <1>4

\* An optimize call is made for the plan of now under a number of its own.
LEMMA OptimizeLemma ==
  ASSUME IInv, Optimize
  PROVE  IInv'
<1>. DEFINE c == [op |-> "optimize", request |-> latestRequest + 1, plan |-> plan]
<1>1. /\ plan # NoPlan
      /\ latestRequest' = latestRequest + 1
      /\ calls' = calls \cup {c}
      /\ inFlight' = inFlight + 1
      /\ optimizing' = TRUE
      /\ UNCHANGED <<stateVars, analyzing, proposalCounter, debounce, analyzeInFlight,
                     waiters, disposed>>
  BY DEF Optimize
<1>2. c \in Call /\ c.op = "optimize" /\ c.request = latestRequest + 1 /\ c.plan = plan
  BY <1>1 DEF Call, EngineOp, IInv, TypeOK, ReducerTypeOK
<1>3. c \notin calls
  BY <1>2 DEF IInv, TypeOK, GuardIsSound
<1>. HIDE DEF c
<1>4. /\ IsFiniteSet(calls') /\ Cardinality(calls') = inFlight'
      /\ Cardinality({d \in calls' : d.op = "analyze"}) = analyzeInFlight'
  BY <1>1, <1>2, <1>3, AddCallLemma
<1>5. ReducerTypeOK' /\ NothingWithoutPlan'
  BY <1>1 DEF stateVars, IInv, TypeOK, ReducerTypeOK, NothingWithoutPlan
<1>6. TypeOK'
  BY <1>1, <1>2, <1>5 DEF IInv, TypeOK
<1>7. BooksBalance'
  <2>1. inFlight' > 0
    BY <1>1 DEF IInv, TypeOK
  <2>2. \E d \in calls' : d.op = "optimize"
    BY <1>1, <1>2
  <2>. QED BY <1>1, <1>4, <2>1, <2>2 DEF IInv, BooksBalance, IsIdle
<1>8. GuardIsSound' /\ NewestUnanalyzed'
  BY <1>1, <1>2 DEF stateVars, IInv, TypeOK, Call, GuardIsSound, NewestUnanalyzed
<1>. QED BY <1>4, <1>5, <1>6, <1>7, <1>8 DEF IInv

\* What a reply does to the state: only a current call, hence one about the plan on
\* screen, can change it.
LEMMA ApplyReplyLemma ==
  ASSUME IInv, NEW c \in calls, ApplyReply(c)
  PROVE  /\ ReducerTypeOK' /\ NothingWithoutPlan'
         /\ plan' = plan
         /\ View!Answer \/ View!Fail \/ UNCHANGED <<plan, result, error>>
<1>1. c \in Call
  BY DEF IInv, TypeOK
<1>2. CASE Current(c) /\ ResultReceived([plan |-> c.plan, from |-> c.op])
  <2>1. c.plan = plan /\ plan # NoPlan
    BY <1>1, <1>2 DEF Current, IInv, GuardIsSound, Call, Plan, NoPlan
  <2>2. /\ result' = [plan |-> c.plan, from |-> c.op] /\ error' = NoError
        /\ rejected' = FALSE
        /\ UNCHANGED <<plan, baseline, compare, proposals, past, future, clones>>
    BY <1>2 DEF ResultReceived
  <2>3. result' \in Result
    BY <1>1, <2>2 DEF Call, Result
  <2>4. ReducerTypeOK'
    BY <2>2, <2>3 DEF IInv, TypeOK, ReducerTypeOK
  <2>5. NothingWithoutPlan'
    BY <2>1, <2>2 DEF NothingWithoutPlan
  <2>6. View!Answer
    BY <1>1, <2>1, <2>2 DEF View!Answer, View!Quiet, View!None, NoPlan, NoError, Call,
                            EngineOp
  <2>. QED BY <2>2, <2>4, <2>5, <2>6
<1>3. ASSUME NEW k \in {"engine", "optimize"}, Current(c),
             ErrorRaised([kind |-> k, plan |-> c.plan])
      PROVE  /\ ReducerTypeOK' /\ NothingWithoutPlan' /\ plan' = plan /\ View!Fail
  <2>1. c.plan = plan /\ plan # NoPlan
    BY <1>1, <1>3 DEF Current, IInv, GuardIsSound, Call, Plan, NoPlan
  <2>2. /\ error' = [kind |-> k, plan |-> c.plan] /\ rejected' = FALSE
        /\ UNCHANGED <<plan, result, baseline, compare, proposals, past, future, clones>>
    BY <1>3 DEF ErrorRaised
  <2>3. error' \in EngineError
    BY <1>1, <2>2 DEF Call, EngineError
  <2>4. ReducerTypeOK'
    BY <2>2, <2>3 DEF IInv, TypeOK, ReducerTypeOK
  <2>5. NothingWithoutPlan'
    BY <2>1, <2>2 DEF NothingWithoutPlan
  <2>6. View!Fail
    BY <2>1, <2>2 DEF View!Fail, View!None, NoPlan
  <2>. QED BY <2>2, <2>4, <2>5, <2>6
<1>4. CASE UNCHANGED stateVars
  BY <1>4 DEF stateVars, IInv, TypeOK, ReducerTypeOK, NothingWithoutPlan
<1>. QED BY <1>2, <1>3, <1>4 DEF ApplyReply

\* A reply, applied or dropped, takes its call off the books.
LEMMA ReplyLemma ==
  ASSUME IInv, NEW c \in calls, Reply(c)
  PROVE  IInv'
<1>1. /\ calls' = calls \ {c}
      /\ inFlight' = inFlight - 1
      /\ analyzeInFlight' = IF c.op = "analyze" THEN analyzeInFlight - 1
                                                ELSE analyzeInFlight
      /\ optimizing' = (optimizing /\ c.op # "optimize")
      /\ UNCHANGED <<latestRequest, proposalCounter, debounce, disposed>>
      /\ SettleIfIdle
  BY DEF Reply
<1>2. ReducerTypeOK' /\ NothingWithoutPlan' /\ plan' = plan
  BY ApplyReplyLemma DEF Reply
<1>3. /\ IsFiniteSet(calls') /\ Cardinality(calls') = inFlight'
      /\ Cardinality({d \in calls' : d.op = "analyze"}) = analyzeInFlight'
      /\ inFlight' \in Nat /\ analyzeInFlight' \in Nat
  BY <1>1, RemoveCallLemma
<1>4. analyzing' = (analyzing /\ ~(analyzeInFlight' = 0 /\ debounce' = "none"))
      /\ waiters' = IF IsIdle' THEN {} ELSE waiters
  BY <1>1 DEF SettleIfIdle
<1>5. TypeOK'
  <2>1. analyzing' \in BOOLEAN /\ optimizing' \in BOOLEAN
    BY <1>1, <1>4
  <2>. QED BY <1>1, <1>2, <1>3, <1>4, <2>1 DEF IInv, TypeOK
<1>6. BooksBalance'
  <2>1. analyzing' <=> (debounce' # "none" \/ analyzeInFlight' > 0)
    <3>1. analyzing <=> (debounce # "none" \/ analyzeInFlight > 0)
      BY DEF IInv, BooksBalance
    <3>2. analyzing' <=> (analyzing /\ (analyzeInFlight' > 0 \/ debounce' # "none"))
      <4>1. analyzeInFlight' # 0 <=> analyzeInFlight' > 0
        BY <1>3
      <4>. QED BY <1>4, <4>1
    <3>3. analyzeInFlight' > 0 => analyzeInFlight > 0
      BY <1>1, <1>3 DEF IInv, TypeOK
    <3>. QED BY <1>1, <3>1, <3>2, <3>3
  <2>2. optimizing' => \E d \in calls' : d.op = "optimize"
    BY <1>1 DEF IInv, BooksBalance
  <2>3. waiters' # {} => ~IsIdle'
    BY <1>4
  <2>. QED BY <1>3, <2>1, <2>2, <2>3 DEF BooksBalance
<1>7. GuardIsSound' /\ NewestUnanalyzed'
  BY <1>1, <1>2 DEF IInv, GuardIsSound, NewestUnanalyzed
<1>. QED BY <1>2, <1>3, <1>5, <1>6, <1>7 DEF IInv

\* whenIdle, dispose and stuttering touch neither the calls nor the screen.
LEMMA QuietStepLemma ==
  ASSUME IInv, (\E w \in Waiters : WhenIdle(w)) \/ Dispose \/ UNCHANGED vars
  PROVE  IInv' /\ UNCHANGED stateVars
<1>1. ASSUME NEW w \in Waiters, WhenIdle(w)
      PROVE  IInv' /\ UNCHANGED stateVars
  BY <1>1 DEF WhenIdle, stateVars, IInv, TypeOK, ReducerTypeOK, BooksBalance, IsIdle,
              GuardIsSound, NothingWithoutPlan, NewestUnanalyzed
<1>2. CASE Dispose
  <2>1. /\ disposed' = TRUE
        /\ debounce' = IF debounce = "armed" THEN "cleared" ELSE debounce
        /\ UNCHANGED <<stateVars, analyzing, optimizing, latestRequest, proposalCounter, 
                       inFlight, analyzeInFlight, calls, waiters>>
    BY <1>2 DEF Dispose
  <2>. QED BY <2>1 DEF stateVars, IInv, TypeOK, ReducerTypeOK, BooksBalance, IsIdle,
              GuardIsSound, NothingWithoutPlan, NewestUnanalyzed
<1>3. CASE UNCHANGED vars
  BY <1>3 DEF vars, stateVars, storeVars, IInv, TypeOK, ReducerTypeOK, BooksBalance,
              IsIdle, GuardIsSound, NothingWithoutPlan, NewestUnanalyzed
<1>. QED BY <1>1, <1>2, <1>3

-----------------------------------------------------------------------------
(* Theorems *)

\* The strengthened invariant is inductive.
LEMMA StepLemma == IInv /\ [Next]_vars => IInv'
<1>. SUFFICES ASSUME IInv, [Next]_vars PROVE IInv'
  OBVIOUS
<1>1. TypeOK
  BY DEF IInv
<1>. QED BY <1>1, NextCases, CommandStepLemma, OptimizeLemma, RunAnalyzeLemma,
            ReplyLemma, QuietStepLemma

\* The strengthened invariant holds of every reachable state.
LEMMA Inductive == Spec => []IInv
  BY InitLemma, StepLemma, PTL DEF Spec

\* Every variable keeps its type; in particular the in-flight counters of store.ts
\* never go below zero.
THEOREM TypeCorrect == Spec => []TypeOK
<1>1. IInv => TypeOK
  BY DEF IInv
<1>. QED BY <1>1, Inductive, PTL

\* The stale-reply guard of store.ts decides soundly: a call with the newest number is
\* about the plan on screen.
THEOREM GuardCorrect == Spec => []GuardIsSound
<1>1. IInv => GuardIsSound
  BY DEF IInv
<1>. QED BY <1>1, Inductive, PTL

\* The counters, the analyzing flag and the waiters of store.ts agree with the calls in
\* flight.
THEOREM BooksCorrect == Spec => []BooksBalance
<1>1. IInv => BooksBalance
  BY DEF IInv
<1>. QED BY <1>1, Inductive, PTL

\* reset of reducer.ts is complete: nothing of the old session surfaces later.
THEOREM ResetCorrect == Spec => []NothingWithoutPlan
<1>1. IInv => NothingWithoutPlan
  BY DEF IInv
<1>. QED BY <1>1, Inductive, PTL

\* The store implements the abstract view of the screen: an answer or an engine error
\* appears only for the plan on screen.
THEOREM ViewCorrect == Spec => ImplementsView
<1>1. Init => View!Init
  BY DEF Init, ReducerInit, View!Init, View!None, View!Blank, View!Quiet, NoPlan,
         NoResult, NoError
<1>2. IInv /\ [Next]_vars => [View!Next]_(View!viewVars)
  <2>. SUFFICES ASSUME IInv, [Next]_vars
                PROVE  [View!Next]_<<plan, result, error>>
    BY DEF View!viewVars
  <2>1. CASE CommandStep
    BY <2>1, CommandStepLemma DEF CommandEffect, View!Next
  <2>2. ASSUME NEW c \in calls, Reply(c)
        PROVE  [View!Next]_<<plan, result, error>>
    BY <2>2, ApplyReplyLemma DEF Reply, View!Next
  <2>3. CASE Optimize \/ RunAnalyze
    BY <2>3 DEF Optimize, RunAnalyze, stateVars
  <2>4. CASE (\E w \in Waiters : WhenIdle(w)) \/ Dispose \/ UNCHANGED vars
    BY <2>4, QuietStepLemma DEF stateVars
  <2>5. TypeOK
    BY DEF IInv
  <2>. QED BY <2>1, <2>2, <2>3, <2>4, <2>5, NextCases
<1>. QED BY <1>1, <1>2, Inductive, PTL DEF Spec, ImplementsView, View!Spec

-----------------------------------------------------------------------------
(***************************************************************************)
(* What the command bus promises its drivers: the undo/redo line,          *)
(* proposals, rejected commands, compare mode, and the end of the session. *)
(*                                                                         *)
(* The argument.  Each property is about one step, so the steps are told   *)
(* apart first: a command of the reducer, a proposal with its fresh id, or *)
(* a step of the store that leaves plan, history and proposals alone       *)
(* (StepCases).  Undo and redo only move the screen along the line of      *)
(* snapshots (BackLemma); a commit cuts the line behind the screen and     *)
(* adds a snapshot never made before (CommitLine).                         *)
(***************************************************************************)
\* A disposed store has no timer left to fire.
NoTimerLeft == disposed => debounce # "armed"

\* Ids beyond the counter were never used.
IdsAreMinted ==
  \A id \in ProposalId : proposals[id] # "none" => id <= proposalCounter

BInv ==
  /\ IInv
  /\ CompareNeedsBaseline
  /\ NoTimerLeft
  /\ IdsAreMinted
  /\ TimelineIsDistinct

-----------------------------------------------------------------------------
(* The steps, as the bus can tell *)

\* The commands that leave the line of snapshots and the proposals alone.
Aside ==
  \/ Reject
  \/ \E blankLabel \in BOOLEAN : SetBaseline(blankLabel)
  \/ ClearBaseline \/ ToggleCompare \/ ClearError \/ ErrorRaised(ParseError)

\* The commands that commit a plan.
Committing ==
  \/ LoadPlan
  \/ \E applies \in BOOLEAN : Edit(applies)
  \/ \E id \in ProposalId, applies \in BOOLEAN : AcceptProposal(id, applies)

\* Commands other than propose, which comes with a new id.
BusCommand ==
  \/ Committing \/ Aside \/ Undo \/ Redo \/ Reset
  \/ \E id \in ProposalId : RejectProposal(id)

\* What a step of the store's own leaves alone, and what it may do to the screen.
StoreStep ==
  /\ UNCHANGED <<plan, baseline, compare, proposals, past, future, clones, proposalCounter>>
  /\ UNCHANGED stateVars \/ rejected' = FALSE
  /\ disposed => UNCHANGED <<stateVars, latestRequest, debounce>>
  /\ disposed' => debounce' # "armed"

\* A command changes the store through its dispatch only.
Dispatched == /\ ~disposed /\ UNCHANGED <<disposed, calls>>
              /\ plan' = plan => UNCHANGED <<latestRequest, debounce>>

\* An applied reply is a Result or a banner.
LEMMA ReplyStep ==
  ASSUME BInv, NEW c \in calls, Reply(c)
  PROVE  StoreStep
<1>1. ApplyReply(c) /\ UNCHANGED <<latestRequest, proposalCounter, debounce, disposed>>
  BY DEF Reply
<1>2. CASE ~Current(c)
  <2>1. UNCHANGED stateVars
    BY <1>1, <1>2 DEF ApplyReply
  <2>. QED BY <1>1, <2>1 DEF StoreStep, stateVars, BInv, NoTimerLeft
<1>3. CASE Current(c)
  <2>1. ~disposed
    BY <1>3 DEF Current
  <2>2. /\ UNCHANGED <<plan, baseline, compare, proposals, past, future, clones>>
        /\ rejected' = FALSE
    BY <1>1, <1>3 DEF ApplyReply, ResultReceived, ErrorRaised
  <2>. QED BY <1>1, <2>1, <2>2 DEF StoreStep
<1>. QED BY <1>2, <1>3

LEMMA StepCases ==
  ASSUME BInv, [Next]_vars
  PROVE  \/ BusCommand /\ Dispatched /\ UNCHANGED proposalCounter
         \/ /\ \E applies \in BOOLEAN : Propose(proposalCounter + 1, applies)
            /\ Dispatched /\ proposalCounter' = proposalCounter + 1
            /\ proposalCounter < MaxProposals
         \/ StoreStep
<1>1. \/ Command("loadPlan", LoadPlan)
      \/ \E applies \in BOOLEAN : Command("edit", Edit(applies))
      \/ \E id \in ProposalId, applies \in BOOLEAN :
           Command("settle", AcceptProposal(id, applies))
      \/ \E id \in ProposalId : Command("settle", RejectProposal(id))
      => BusCommand /\ Dispatched /\ UNCHANGED proposalCounter
  BY DEF Command, Dispatch, Dispatched, BusCommand, Committing
<1>2. \/ Command("undo", Undo) \/ Command("redo", Redo) \/ Command("reset", Reset)
      \/ \E blankLabel \in BOOLEAN : Command("baseline", SetBaseline(blankLabel))
      \/ Command("baseline", ClearBaseline) \/ Command("baseline", ToggleCompare)
      \/ Command("clearError", ClearError) \/ UnreadableFixture
      => BusCommand /\ Dispatched /\ UNCHANGED proposalCounter
  BY DEF Command, Dispatch, Dispatched, BusCommand, Aside, UnreadableFixture
<1>3. ASSUME NEW applies \in BOOLEAN, ProposeChange(applies)
      PROVE  /\ Propose(proposalCounter + 1, applies) /\ Dispatched
             /\ proposalCounter' = proposalCounter + 1 /\ proposalCounter < MaxProposals
  BY <1>3 DEF ProposeChange, Dispatch, Dispatched
<1>4. Optimize => StoreStep
  BY DEF Optimize, stateVars, StoreStep
<1>5. RunAnalyze => StoreStep
  BY DEF RunAnalyze, stateVars, StoreStep, BInv, NoTimerLeft
<1>6. ASSUME NEW w \in Waiters, WhenIdle(w)
      PROVE  StoreStep
  BY <1>6 DEF WhenIdle, stateVars, StoreStep, BInv, NoTimerLeft
<1>7. Dispose => StoreStep
  BY DEF Dispose, stateVars, StoreStep
<1>8. UNCHANGED vars => StoreStep
  BY DEF vars, storeVars, stateVars, StoreStep, BInv, NoTimerLeft
<1>. QED BY <1>1, <1>2, <1>3, <1>4, <1>5, <1>6, <1>7, <1>8, ReplyStep
         DEF Next, Drivers, Environment

-----------------------------------------------------------------------------
(* The line of snapshots *)

\* A stack read from its top down.
LEMMA ReverseLemma ==
  ASSUME NEW s \in Seq(Plan)
  PROVE  /\ Reverse(s) \in Seq(Plan) /\ Len(Reverse(s)) = Len(s)
         /\ \A i \in 1 .. Len(s) : Reverse(s)[i] = s[(Len(s) - i) + 1]
  BY DEF Reverse

LEMMA ReverseAppend ==
  ASSUME NEW s \in Seq(Plan), NEW top \in Plan
  PROVE  Reverse(Append(s, top)) = <<top>> \o Reverse(s)
<1>. DEFINE t == Append(s, top)
            left == Reverse(t)
            right == <<top>> \o Reverse(s)
<1>1. /\ t \in Seq(Plan) /\ Len(t) = Len(s) + 1
      /\ \A i \in 1 .. Len(s) : t[i] = s[i]
      /\ t[Len(s) + 1] = top
  BY AppendProperties
<1>. HIDE DEF t
<1>2. /\ left \in Seq(Plan) /\ Len(left) = Len(s) + 1
      /\ \A i \in 1 .. Len(s) + 1 : left[i] = t[(Len(s) + 1 - i) + 1]
  BY <1>1, ReverseLemma
<1>3. <<top>> \in Seq(Plan) /\ Len(<<top>>) = 1 /\ <<top>>[1] = top
  OBVIOUS
<1>4. /\ right \in Seq(Plan) /\ Len(right) = 1 + Len(s)
      /\ \A i \in 1 .. 1 + Len(s) :
           right[i] = IF i <= 1 THEN <<top>>[i] ELSE Reverse(s)[i - 1]
  BY <1>3, ReverseLemma, ConcatProperties
<1>. HIDE DEF left, right
<1>5. ASSUME NEW i \in 1 .. Len(s) + 1
      PROVE  left[i] = right[i]
  <2>1. Len(s) \in Nat
    BY LenProperties
  <2>2. CASE i = 1
    BY <1>1, <1>2, <1>3, <1>4, <2>1, <2>2
  <2>3. CASE i > 1
    <3>1. i - 1 \in 1 .. Len(s) /\ (Len(s) + 1 - i) + 1 \in 1 .. Len(s)
      BY <2>1, <2>3
    <3>2. left[i] = s[(Len(s) + 1 - i) + 1]
      BY <1>1, <1>2, <3>1
    <3>3. right[i] = Reverse(s)[i - 1]
      BY <1>4, <2>1, <2>3
    <3>4. Reverse(s)[i - 1] = s[(Len(s) - (i - 1)) + 1]
      BY <3>1, ReverseLemma
    <3>5. (Len(s) - (i - 1)) + 1 = (Len(s) + 1 - i) + 1
      BY <2>1
    <3>. QED BY <3>2, <3>3, <3>4, <3>5
  <2>. QED BY <2>1, <2>2, <2>3
<1>6. Len(left) = Len(right)
  BY <1>2, <1>4, LenProperties
<1>7. left = right
  BY <1>2, <1>4, <1>5, <1>6, SeqEqual
<1>. QED BY <1>7 DEF left, right, t

\* The stacks around the plan on screen, as one line.
Line(before, here, after) == Append(before, here) \o Reverse(after)

\* Taking the top of one stack on screen and putting the screen on the other moves the
\* screen one position.
LEMMA BackLemma ==
  ASSUME NEW before \in Seq(Plan), NEW top \in Plan, NEW here \in Plan,
         NEW after \in Seq(Plan)
  PROVE  Line(before, top, Append(after, here)) = Line(Append(before, top), here, after)
<1>. DEFINE back == Append(before, top)
            rest == Reverse(after)
<1>1. back \in Seq(Plan) /\ rest \in Seq(Plan) /\ <<here>> \in Seq(Plan)
  BY AppendProperties, ReverseLemma
<1>. HIDE DEF back, rest
<1>2. (back \o <<here>>) \o rest = back \o (<<here>> \o rest)
  BY <1>1, ConcatAssociative
<1>3. Append(back, here) = back \o <<here>>
  BY <1>1, AppendIsConcat
<1>4. Reverse(Append(after, here)) = <<here>> \o rest
  BY ReverseAppend DEF rest
<1>. QED BY <1>2, <1>3, <1>4 DEF Line, back, rest

\* A stack is its front with its last element on top.
LEMMA TopLemma ==
  ASSUME NEW s \in Seq(Plan), s # << >>
  PROVE  /\ Front(s) \in Seq(Plan) /\ Last(s) \in Plan
         /\ s = Append(Front(s), Last(s))
<1>1. PICK n \in Nat : Len(s) = n + 1
  <2>1. Len(s) \in Nat \ {0}
    BY EmptySeq
  <2>. QED BY <2>1
<1>2. \A i \in 1 .. n + 1 : s[i] \in Plan
  BY <1>1
<1>. DEFINE f == SubSeq(s, 1, n)
<1>3. f \in Seq(Plan) /\ \A i \in 1 .. n : f[i] = s[i]
  BY <1>2, SubSeqProperties
<1>4. Len(f) = n
  BY <1>2, SubSeqProperties
<1>5. Front(s) = f /\ Last(s) = s[n + 1]
  BY <1>1 DEF Front, Last
<1>. HIDE DEF f
<1>6. /\ Append(f, s[n + 1]) \in Seq(Plan) /\ Len(Append(f, s[n + 1])) = n + 1
      /\ \A i \in 1 .. n : Append(f, s[n + 1])[i] = f[i]
      /\ Append(f, s[n + 1])[n + 1] = s[n + 1]
  BY <1>2, <1>3, <1>4, AppendProperties
<1>7. s = Append(f, s[n + 1])
  <2>1. \A i \in 1 .. Len(s) : s[i] = Append(f, s[n + 1])[i]
    BY <1>1, <1>3, <1>6
  <2>. QED BY <1>1, <1>6, <2>1, SeqEqual
<1>. QED BY <1>2, <1>3, <1>5, <1>7

\* A committed plan is a new snapshot behind those before it; none is left to redo.
LEMMA CommitLine ==
  ASSUME BInv, CommitPlan
  PROVE  /\ clones' = clones + 1 /\ plan' \in Plan
         /\ Timeline' = Append(IF plan = NoPlan THEN << >> ELSE Append(past, plan), clones')
<1>1. /\ past \in Seq(Plan) /\ clones \in Nat /\ plan \in Plan \cup {NoPlan}
      /\ plan = NoPlan => past = << >>
  BY DEF BInv, IInv, TypeOK, ReducerTypeOK, NothingWithoutPlan
<1>2. /\ clones' = clones + 1 /\ plan' = clones + 1
      /\ past' = IF plan = NoPlan THEN past ELSE Append(past, plan)
      /\ future' = << >>
  BY DEF CommitPlan
<1>3. plan' \in Plan /\ plan' # NoPlan
  BY <1>1, <1>2 DEF Plan, NoPlan
<1>4. past' \in Seq(Plan)
  BY <1>1, <1>2, AppendProperties
<1>5. Reverse(<< >>) = << >>
  <2>1. << >> \in Seq(Plan) /\ Len(<< >>) = 0
    BY EmptySeq
  <2>2. Reverse(<< >>) \in Seq(Plan) /\ Len(Reverse(<< >>)) = 0
    BY <2>1, ReverseLemma
  <2>. QED BY <2>2, EmptySeq
<1>6. Append(past', plan') \in Seq(Plan)
  BY <1>3, <1>4, AppendProperties
<1>7. Timeline' = Append(past', plan')
  BY <1>2, <1>3, <1>5, <1>6, ConcatEmptySeq DEF Timeline
<1>. QED BY <1>1, <1>2, <1>3, <1>7

\* Undo and redo leave the line as it is.
LEMMA ShiftLine ==
  ASSUME BInv, Undo \/ Redo
  PROVE  Timeline' = Timeline
<1>1. /\ past \in Seq(Plan) /\ future \in Seq(Plan) /\ plan \in Plan \cup {NoPlan}
  BY DEF BInv, IInv, TypeOK, ReducerTypeOK
<1>2. CASE UNCHANGED <<plan, past, future>>
  BY <1>2 DEF Timeline
<1>3. CASE /\ past # << >> /\ plan # NoPlan
           /\ plan' = Last(past) /\ past' = Front(past) /\ future' = Append(future, plan)
  <2>1. /\ Front(past) \in Seq(Plan) /\ Last(past) \in Plan
        /\ past = Append(Front(past), Last(past))
    BY <1>1, <1>3, TopLemma
  <2>2. plan \in Plan
    BY <1>1, <1>3
  <2>3. Line(Front(past), Last(past), Append(future, plan))
          = Line(Append(Front(past), Last(past)), plan, future)
    BY <1>1, <2>1, <2>2, BackLemma
  <2>. QED BY <1>3, <2>1, <2>3 DEF Timeline, Line, Plan, NoPlan
<1>4. CASE /\ future # << >> /\ plan # NoPlan
           /\ plan' = Last(future) /\ future' = Front(future) /\ past' = Append(past, plan)
  <2>1. /\ Front(future) \in Seq(Plan) /\ Last(future) \in Plan
        /\ future = Append(Front(future), Last(future))
    BY <1>1, <1>4, TopLemma
  <2>2. Line(past, plan, Append(Front(future), Last(future)))
          = Line(Append(past, plan), Last(future), Front(future))
    BY <1>1, <1>4, <2>1, BackLemma
  <2>. QED BY <1>4, <2>1, <2>2 DEF Timeline, Line, Plan, NoPlan
<1>. QED BY <1>2, <1>3, <1>4 DEF Undo, Redo

\* What a step makes of the line of snapshots.
LineKept ==
  /\ clones' \in Nat /\ clones' >= clones
  /\ \/ Timeline' = Timeline
     \/ clones' > clones /\ Timeline' = Append(IF plan = NoPlan THEN << >>
                                                 ELSE Append(past, plan), clones')
     \/ plan' = NoPlan

LEMMA LineStep ==
  ASSUME BInv, [Next]_vars
  PROVE  LineKept
<1>1. clones \in Nat
  BY DEF BInv, IInv, TypeOK, ReducerTypeOK
<1>2. CASE UNCHANGED <<plan, past, future, clones>>
  BY <1>1, <1>2 DEF Timeline, LineKept
<1>3. CASE CommitPlan
  BY <1>1, <1>3, CommitLine DEF LineKept
<1>4. CASE Undo \/ Redo
  <2>1. clones' = clones
    BY <1>4 DEF Undo, Redo
  <2>. QED BY <1>1, <1>4, <2>1, ShiftLine DEF LineKept
<1>5. CASE Reset
  BY <1>1, <1>5 DEF Reset, LineKept
<1>6. Aside => UNCHANGED <<plan, past, future, clones>>
  BY DEF Aside, Reject, SetBaseline, ClearBaseline, ToggleCompare, ErrorRaised, ClearError
<1>7. Committing => CommitPlan \/ UNCHANGED <<plan, past, future, clones>>
  BY DEF Committing, LoadPlan, Edit, AcceptProposal, Reject
<1>8. (\E id \in ProposalId : RejectProposal(id)) => UNCHANGED <<plan, past, future, clones>>
  BY DEF RejectProposal, Reject
<1>9. ASSUME NEW applies, Propose(proposalCounter + 1, applies)
      PROVE  UNCHANGED <<plan, past, future, clones>>
  BY <1>9 DEF Propose, Reject
<1>10. StoreStep => UNCHANGED <<plan, past, future, clones>>
  BY DEF StoreStep
<1>. QED BY <1>2, <1>3, <1>4, <1>5, <1>6, <1>7, <1>8, <1>9, <1>10, StepCases DEF BusCommand

-----------------------------------------------------------------------------
(* The invariant *)

LEMMA BInit == Init => BInv
<1>. SUFFICES ASSUME Init PROVE BInv
  OBVIOUS
<1>1. IInv
  BY InitLemma
<1>2. CompareNeedsBaseline /\ NoTimerLeft
  BY DEF Init, ReducerInit, CompareNeedsBaseline, NoTimerLeft
<1>3. IdsAreMinted
  BY DEF Init, ReducerInit, IdsAreMinted
<1>4. Timeline = << >>
  BY DEF Init, ReducerInit, Timeline
<1>5. TimelineIsDistinct
  BY <1>4 DEF TimelineIsDistinct, IsInjective
<1>. QED BY <1>1, <1>2, <1>3, <1>5 DEF BInv

\* No command but propose makes an id of a proposal used.
LEMMA SettleLemma ==
  ASSUME BInv, BusCommand
  PROVE  \A id \in ProposalId : proposals'[id] # "none" => proposals[id] # "none"
<1>1. proposals \in [ProposalId -> Status]
  BY DEF BInv, IInv, TypeOK, ReducerTypeOK
<1>2. Committing => \/ UNCHANGED proposals
                    \/ \E id \in ProposalId : /\ proposals[id] = "pending"
                                              /\ proposals' = [proposals EXCEPT ![id] = "accepted"]
  BY DEF Committing, LoadPlan, Edit, AcceptProposal, Reject
<1>3. Aside \/ Undo \/ Redo => UNCHANGED proposals
  BY DEF Aside, Reject, SetBaseline, ClearBaseline, ToggleCompare, ErrorRaised, ClearError, Undo, Redo
<1>4. Reset => \A id \in ProposalId : proposals'[id] = "none"
  BY DEF Reset
<1>5. (\E id \in ProposalId : RejectProposal(id)) =>
         \/ UNCHANGED proposals
         \/ \E id \in ProposalId : /\ proposals[id] = "pending"
                                   /\ proposals' = [proposals EXCEPT ![id] = "rejected"]
  BY DEF RejectProposal, Reject
<1>. QED BY <1>1, <1>2, <1>3, <1>4, <1>5 DEF BusCommand

\* Ids are handed out by the counter, also across a reset.
LEMMA MintStep ==
  ASSUME BInv, [Next]_vars
  PROVE  IdsAreMinted'
<1>1. proposals \in [ProposalId -> Status] /\ proposalCounter \in Nat
  BY ReducerAssumption DEF BInv, IInv, TypeOK, ReducerTypeOK
<1>2. CASE BusCommand /\ UNCHANGED proposalCounter
  BY <1>2, SettleLemma DEF BInv, IdsAreMinted
<1>3. ASSUME NEW applies, Propose(proposalCounter + 1, applies),
             proposalCounter' = proposalCounter + 1
      PROVE  IdsAreMinted'
  <2>1. \/ UNCHANGED proposals
        \/ proposals' = [proposals EXCEPT ![proposalCounter + 1] = "pending"]
    BY <1>3 DEF Propose, Reject
  <2>2. \A id \in ProposalId : proposals'[id] # "none" =>
           proposals[id] # "none" \/ id = proposalCounter + 1
    BY <1>1, <2>1
  <2>. QED BY <1>1, <1>3, <2>2 DEF BInv, IdsAreMinted, ProposalId
<1>4. CASE StoreStep
  BY <1>4 DEF StoreStep, BInv, IdsAreMinted
<1>. QED BY <1>2, <1>3, <1>4, StepCases

\* Only setBaseline pins, and what unpins leaves compare mode.
LEMMA CompareStep ==
  ASSUME BInv, [Next]_vars
  PROVE  CompareNeedsBaseline'
<1>1. CASE UNCHANGED <<baseline, compare>>
  BY <1>1 DEF BInv, CompareNeedsBaseline
<1>2. Committing \/ Undo \/ Redo => UNCHANGED <<baseline, compare>>
  BY DEF Committing, LoadPlan, Edit, AcceptProposal, Reject, Undo, Redo
<1>3. (\E id \in ProposalId : RejectProposal(id)) => UNCHANGED <<baseline, compare>>
  BY DEF RejectProposal, Reject
<1>4. ASSUME NEW applies, Propose(proposalCounter + 1, applies)
      PROVE  UNCHANGED <<baseline, compare>>
  BY <1>4 DEF Propose, Reject
<1>5. Reset => CompareNeedsBaseline'
  BY DEF Reset, CompareNeedsBaseline
<1>6. ASSUME NEW blankLabel, SetBaseline(blankLabel)
      PROVE  CompareNeedsBaseline'
  <2>1. CASE Reject
    BY <1>1, <2>1 DEF Reject
  <2>2. CASE ~Reject
    <3>1. plan # NoPlan /\ baseline' = [plan |-> plan, result |-> result]
      BY <1>6, <2>2 DEF SetBaseline
    <3>2. baseline'.plan # NoBaseline.plan
      BY <3>1 DEF NoBaseline
    <3>. QED BY <3>2 DEF CompareNeedsBaseline
  <2>. QED BY <2>1, <2>2
<1>7. ClearBaseline \/ ToggleCompare => CompareNeedsBaseline'
  BY <1>1 DEF ClearBaseline, ToggleCompare, Reject, CompareNeedsBaseline
<1>8. Reject \/ ClearError \/ ErrorRaised(ParseError) \/ StoreStep
      => UNCHANGED <<baseline, compare>>
  BY DEF Reject, ClearError, ErrorRaised, StoreStep
<1>. QED BY <1>1, <1>2, <1>3, <1>4, <1>5, <1>6, <1>7, <1>8, StepCases
         DEF BusCommand, Aside

LEMMA TimerStep ==
  ASSUME BInv, [Next]_vars
  PROVE  NoTimerLeft'
  BY StepCases DEF Dispatched, StoreStep, NoTimerLeft

\* The line up to the screen, as long as it is or cut behind the screen.
LEMMA PrefixLemma ==
  ASSUME BInv
  PROVE  \E n \in Nat :
           LET kept == IF plan = NoPlan THEN << >> ELSE Append(past, plan)
           IN /\ kept \in Seq(Plan) /\ Len(kept) = n
              /\ \A i \in 1 .. n : i \in DOMAIN Timeline /\ kept[i] = Timeline[i]
<1>. DEFINE kept == IF plan = NoPlan THEN << >> ELSE Append(past, plan)
<1>1. /\ past \in Seq(Plan) /\ future \in Seq(Plan) /\ plan \in Plan \cup {NoPlan}
  BY DEF BInv, IInv, TypeOK, ReducerTypeOK
<1>2. kept \in Seq(Plan)
  BY <1>1, AppendProperties, EmptySeq
<1>3. CASE plan = NoPlan
  BY <1>2, <1>3, EmptySeq
<1>4. CASE plan # NoPlan
  <2>1. Timeline = kept \o Reverse(future) /\ Reverse(future) \in Seq(Plan)
    BY <1>1, <1>4, ReverseLemma DEF Timeline
  <2>. HIDE DEF kept
  <2>2. /\ Len(Timeline) = Len(kept) + Len(Reverse(future)) /\ Timeline \in Seq(Plan)
        /\ \A i \in 1 .. Len(kept) + Len(Reverse(future)) :
             Timeline[i] = IF i <= Len(kept) THEN kept[i] ELSE Reverse(future)[i - Len(kept)]
    BY <1>2, <2>1, ConcatProperties
  <2>3. /\ Len(kept) \in Nat /\ Len(Reverse(future)) \in Nat
        /\ DOMAIN Timeline = 1 .. Len(Timeline)
    BY <1>2, <2>1, <2>2, LenProperties
  <2>4. \A i \in 1 .. Len(kept) : i \in DOMAIN Timeline /\ kept[i] = Timeline[i]
    BY <2>2, <2>3
  <2>. QED BY <1>2, <2>3, <2>4 DEF kept
<1>. QED BY <1>3, <1>4

LEMMA DistinctStep ==
  ASSUME BInv, [Next]_vars
  PROVE  TimelineIsDistinct'
<1>1. clones \in Nat /\ clones' \in Nat /\ clones' >= clones
  BY LineStep DEF LineKept, BInv, IInv, TypeOK, ReducerTypeOK
<1>2. CASE Timeline' = Timeline
  <2>1. \A i \in DOMAIN Timeline : Timeline[i] <= clones'
    <3>1. \A i \in DOMAIN Timeline : Timeline[i] \in Int
      <4>1. Timeline \in Seq(Plan)
        <5>1. /\ past \in Seq(Plan) /\ future \in Seq(Plan) /\ plan \in Plan \cup {NoPlan}
          BY DEF BInv, IInv, TypeOK, ReducerTypeOK
        <5>2. CASE plan = NoPlan
          BY <5>2, EmptySeq DEF Timeline
        <5>3. CASE plan # NoPlan
          <6>1. Append(past, plan) \in Seq(Plan) /\ Reverse(future) \in Seq(Plan)
            BY <5>1, <5>3, AppendProperties, ReverseLemma
          <6>. QED BY <5>3, <6>1, ConcatProperties DEF Timeline
        <5>. QED BY <5>2, <5>3
      <4>. QED BY <4>1, ElementOfSeq, LenProperties DEF Plan
    <3>. QED BY <1>1, <3>1 DEF BInv, TimelineIsDistinct
  <2>. QED BY <1>2, <2>1 DEF BInv, TimelineIsDistinct, IsInjective
<1>3. CASE /\ clones' > clones
           /\ Timeline' = Append(IF plan = NoPlan THEN << >> ELSE Append(past, plan), clones')
  <2>. DEFINE kept == IF plan = NoPlan THEN << >> ELSE Append(past, plan)
  <2>1. PICK n \in Nat :
           /\ kept \in Seq(Plan) /\ Len(kept) = n
           /\ \A i \in 1 .. n : i \in DOMAIN Timeline /\ kept[i] = Timeline[i]
    BY PrefixLemma
  <2>2. Timeline' = Append(kept, clones')
    BY <1>3
  <2>. HIDE DEF kept
  <2>3. clones' \in Plan
    BY <1>1, <1>3 DEF Plan
  <2>4. /\ Timeline' \in Seq(Plan) /\ Len(Timeline') = n + 1
        /\ \A i \in 1 .. n : Timeline'[i] = kept[i]
        /\ Timeline'[n + 1] = clones'
    BY <2>1, <2>2, <2>3, AppendProperties
  <2>5. DOMAIN Timeline' = 1 .. n + 1
    BY <2>4, LenProperties
  <2>6. \A i \in 1 .. n : Timeline'[i] <= clones /\ Timeline'[i] \in Nat
    <3>1. \A i \in 1 .. n : kept[i] <= clones
      BY <2>1 DEF BInv, TimelineIsDistinct
    <3>2. \A i \in 1 .. n : kept[i] \in Plan
      BY <2>1, ElementOfSeq
    <3>. QED BY <2>4, <3>1, <3>2 DEF Plan
  <2>7. \A i, j \in 1 .. n : Timeline'[i] = Timeline'[j] => i = j
    BY <2>1, <2>4 DEF BInv, TimelineIsDistinct, IsInjective
  <2>8. \A i, j \in 1 .. n + 1 : Timeline'[i] = Timeline'[j] => i = j
    <3>1. \A i \in 1 .. n + 1 : i \in 1 .. n \/ i = n + 1
      BY <2>1
    <3>2. \A i \in 1 .. n : Timeline'[i] # Timeline'[n + 1]
      BY <1>1, <1>3, <2>4, <2>6
    <3>. QED BY <2>7, <3>1, <3>2
  <2>9. \A i \in 1 .. n + 1 : Timeline'[i] <= clones'
    BY <1>1, <1>3, <2>1, <2>4, <2>6
  <2>. QED BY <2>5, <2>8, <2>9 DEF TimelineIsDistinct, IsInjective
<1>4. CASE plan' = NoPlan
  <2>1. Timeline' = << >>
    BY <1>4 DEF Timeline
  <2>. QED BY <2>1 DEF TimelineIsDistinct, IsInjective
<1>. QED BY <1>2, <1>3, <1>4, LineStep DEF LineKept

LEMMA BStep == BInv /\ [Next]_vars => BInv'
  BY StepLemma, MintStep, CompareStep, TimerStep, DistinctStep DEF BInv

LEMMA BInductive == Spec => []BInv
  BY BInit, BStep, PTL DEF Spec

-----------------------------------------------------------------------------
(* Theorems *)

\* Compare mode always has a baseline to compare with, whatever order setBaseline,
\* clearBaseline, toggleCompare and reset of reducer.ts come in.
THEOREM CompareCorrect == Spec => []CompareNeedsBaseline
<1>1. BInv => CompareNeedsBaseline
  BY DEF BInv
<1>. QED BY <1>1, BInductive, PTL

\* commitPlan and shiftHistory of reducer.ts never put one snapshot on the undo/redo
\* line twice.
THEOREM DistinctCorrect == Spec => []TimelineIsDistinct
<1>1. BInv => TimelineIsDistinct
  BY DEF BInv
<1>. QED BY <1>1, BInductive, PTL

\* No snapshot is lost by undo and redo, a new plan drops the redo branch only, and
\* nothing but reset empties the screen (shiftHistory, commitPlan).
THEOREM HistoryCorrect == Spec => HistoryIsKept
<1>1. BInv /\ [Next]_vars =>
        [\/ Timeline' = Timeline
         \/ clones' > clones /\ Timeline' = Append(IF plan = NoPlan THEN << >>
                                                     ELSE Append(past, plan), clones')
         \/ plan' = NoPlan]_vars
  BY LineStep DEF LineKept
<1>. QED BY <1>1, BInductive, PTL DEF Spec, HistoryIsKept

\* What a step may do to one proposal.
SettledOnce(id) ==
  /\ proposals[id] \in {"accepted", "rejected"} => proposals'[id] \in {proposals[id], "none"}
  /\ proposals[id] = "none" /\ proposals'[id] # "none" =>
       proposals'[id] = "pending" /\ id > proposalCounter
  /\ proposals[id] = "pending" /\ proposals'[id] = "accepted" =>
       clones' = clones + 1 /\ past' = Append(past, plan)

LEMMA SettleStep ==
  ASSUME BInv, [Next]_vars, NEW id \in ProposalId
  PROVE  SettledOnce(id)
<1>1. proposals \in [ProposalId -> Status] /\ proposalCounter \in Nat
  BY ReducerAssumption DEF BInv, IInv, TypeOK, ReducerTypeOK
<1>2. CASE UNCHANGED proposals
  BY <1>2 DEF SettledOnce
<1>3. ASSUME NEW other \in ProposalId, NEW applies, AcceptProposal(other, applies)
      PROVE  SettledOnce(id)
  <2>1. CASE Reject
    BY <1>2, <2>1 DEF Reject
  <2>2. CASE ~Reject
    <3>1. /\ proposals[other] = "pending" /\ plan # NoPlan
          /\ clones' = clones + 1
          /\ past' = IF plan = NoPlan THEN past ELSE Append(past, plan)
          /\ proposals' = [proposals EXCEPT ![other] = "accepted"]
      BY <1>3, <2>2 DEF AcceptProposal, CommitPlan
    <3>2. proposals'[id] = IF id = other THEN "accepted" ELSE proposals[id]
      BY <1>1, <3>1
    <3>. QED BY <3>1, <3>2 DEF SettledOnce
  <2>. QED BY <2>1, <2>2
<1>4. ASSUME NEW other \in ProposalId, RejectProposal(other)
      PROVE  SettledOnce(id)
  <2>1. CASE Reject
    BY <1>2, <2>1 DEF Reject
  <2>2. CASE ~Reject
    <3>1. /\ proposals[other] = "pending"
          /\ proposals' = [proposals EXCEPT ![other] = "rejected"]
      BY <1>4, <2>2 DEF RejectProposal
    <3>2. proposals'[id] = IF id = other THEN "rejected" ELSE proposals[id]
      BY <1>1, <3>1
    <3>. QED BY <3>1, <3>2 DEF SettledOnce
  <2>. QED BY <2>1, <2>2
<1>5. ASSUME NEW applies, Propose(proposalCounter + 1, applies)
      PROVE  SettledOnce(id)
  <2>1. CASE Reject
    BY <1>2, <2>1 DEF Reject
  <2>2. CASE ~Reject
    <3>1. /\ proposals[proposalCounter + 1] = "none"
          /\ proposals' = [proposals EXCEPT ![proposalCounter + 1] = "pending"]
      BY <1>5, <2>2 DEF Propose
    <3>2. proposals'[id] = IF id = proposalCounter + 1 THEN "pending" ELSE proposals[id]
      BY <1>1, <3>1
    <3>3. id = proposalCounter + 1 => id > proposalCounter
      BY <1>1
    <3>. QED BY <3>1, <3>2, <3>3 DEF SettledOnce
  <2>. QED BY <2>1, <2>2
<1>6. CASE Reset
  <2>1. proposals'[id] = "none"
    BY <1>6 DEF Reset
  <2>. QED BY <2>1 DEF SettledOnce
<1>7. LoadPlan \/ (\E applies \in BOOLEAN : Edit(applies)) \/ Undo \/ Redo
      => UNCHANGED proposals
  BY DEF LoadPlan, Edit, Reject, Undo, Redo
<1>8. Aside \/ StoreStep => UNCHANGED proposals
  BY DEF Aside, Reject, SetBaseline, ClearBaseline, ToggleCompare, ErrorRaised, ClearError, StoreStep
<1>. QED BY <1>2, <1>3, <1>4, <1>5, <1>6, <1>7, <1>8, StepCases DEF BusCommand, Committing

\* A proposal is settled once and never reopened, ids are not used twice across resets,
\* and an accepted proposal is one undoable step (settleProposal, proposeChange).
THEOREM ProposalsCorrect == Spec => ProposalsSettleOnce
<1>1. BInv /\ [Next]_vars => [\A id \in ProposalId : SettledOnce(id)]_vars
  BY SettleStep
<1>. QED BY <1>1, BInductive, PTL DEF Spec, ProposalsSettleOnce, SettledOnce

\* A command that is not Reject is logged as taken.
LEMMA TakenOrRejected ==
  ASSUME BusCommand \/ \E id, applies : Propose(id, applies)
  PROVE  Reject \/ rejected' = FALSE
<1>1. Committing \/ Reset \/ Undo \/ Redo => Reject \/ rejected' = FALSE
  BY DEF Committing, LoadPlan, Edit, AcceptProposal, CommitPlan, Reset, Undo, Redo
<1>2. Aside => Reject \/ rejected' = FALSE
  BY DEF Aside, SetBaseline, ClearBaseline, ToggleCompare, ClearError, ErrorRaised
<1>3. ASSUME NEW id, RejectProposal(id)
      PROVE  Reject \/ rejected' = FALSE
  BY <1>3 DEF RejectProposal
<1>4. ASSUME NEW id, NEW applies, Propose(id, applies)
      PROVE  Reject \/ rejected' = FALSE
  BY <1>4 DEF Propose
<1>. QED BY <1>1, <1>2, <1>3, <1>4 DEF BusCommand

Inert ==
  rejected' => /\ UNCHANGED <<plan, result, baseline, compare, proposals, past, future>>
               /\ error' # error => UNCHANGED <<latestRequest, debounce, calls>>

LEMMA InertStep ==
  ASSUME BInv, [Next]_vars
  PROVE  [Inert]_vars
<1>1. CASE Reject /\ Dispatched
  BY <1>1 DEF Reject, Dispatched, Inert
<1>2. CASE rejected' = FALSE
  BY <1>2 DEF Inert
<1>3. CASE UNCHANGED stateVars
  BY <1>3 DEF stateVars, Inert
<1>. QED BY <1>1, <1>2, <1>3, StepCases, TakenOrRejected DEF StoreStep

\* reject() of reducer.ts changes the banner only, and the store around it neither
\* supersedes a call in flight nor schedules one.
THEOREM RejectCorrect == Spec => RejectedIsInert
<1>1. BInv /\ [Next]_vars => [Inert]_vars
  BY InertStep
<1>. QED BY <1>1, BInductive, PTL DEF Spec, RejectedIsInert, Inert

\* Nothing moves on the screen of a disposed store: late replies and timers of store.ts
\* find the flag up.
THEOREM DisposeCorrect == Spec => NothingAfterDispose
<1>1. BInv /\ [Next]_vars =>
        [disposed => UNCHANGED <<stateVars, latestRequest, proposalCounter, debounce>>]_vars
  BY StepCases DEF Dispatched, StoreStep
<1>. QED BY <1>1, BInductive, PTL DEF Spec, NothingAfterDispose
=============================================================================
