-------------------------------- MODULE Store --------------------------------
(***************************************************************************)
(* The store of the planner, web/src/bus/store.ts: it owns the state the   *)
(* reducer computes, schedules a debounced analysis after every plan       *)
(* mutation, and applies an engine reply only while its request number is  *)
(* the latest.                                                             *)
(*                                                                         *)
(* JavaScript runs one task at a time, so an action is one task: a         *)
(* dispatched command, the debounce timer firing, or one engine reply with *)
(* the promise reactions chained to it.  (Those reactions run before the   *)
(* next task, and no continuation in the repository dispatches from        *)
(* between them.)  The engine is the environment: it may settle the calls  *)
(* in flight in any order, which is what per-request timeouts allow.       *)
(***************************************************************************)
EXTENDS Reducer, FiniteSets

CONSTANTS
  Operations,    \* the operations the three drivers of the bus use
  Waiters,       \* callers of whenIdle
  MaxRequests    \* bound: request numbers minted in one session

OperationName ==
  {"loadPlan", "edit", "undo", "redo", "propose", "settle", "reset", "baseline",
   "clearError", "optimize", "whenIdle", "dispose", "unreadable"}

ASSUME StoreAssumption ==
  /\ Operations \subseteq OperationName
  /\ MaxRequests \in Nat

VARIABLES
  analyzing,        \* State.engine.analyzing
  optimizing,       \* State.engine.optimizing
  latestRequest,    \* the newest request number
  proposalCounter,  \* proposal ids minted by proposeChange
  debounce,         \* "none"; "armed": the timer runs; "cleared": by dispose
  inFlight,         \* counter of analyze and optimize calls not yet settled
  analyzeInFlight,  \* counter of analyze calls not yet settled
  calls,            \* the calls the engine has not settled
  waiters,          \* whenIdle promises not yet resolved
  disposed

storeVars == <<analyzing, optimizing, latestRequest, proposalCounter, debounce,
               inFlight, analyzeInFlight, calls, waiters, disposed>>
vars == <<stateVars, storeVars>>

\* `plan` is the snapshot on screen when the call was made (an optimize call sends a
\* copy of it), `request` the number its reply will be compared with.
Call == [op : EngineOp, request : Nat, plan : Plan]

TypeOK ==
  /\ ReducerTypeOK
  /\ analyzing \in BOOLEAN /\ optimizing \in BOOLEAN
  /\ latestRequest \in Nat
  /\ proposalCounter \in 0 .. MaxProposals
  /\ debounce \in {"none", "armed", "cleared"}
  /\ inFlight \in Nat /\ analyzeInFlight \in Nat
  /\ calls \subseteq Call
  /\ waiters \subseteq Waiters
  /\ disposed \in BOOLEAN

Init ==
  /\ ReducerInit
  /\ analyzing = FALSE /\ optimizing = FALSE
  /\ latestRequest = 0
  /\ proposalCounter = 0
  /\ debounce = "none"
  /\ inFlight = 0 /\ analyzeInFlight = 0
  /\ calls = {}
  /\ waiters = {}
  /\ disposed = FALSE

-----------------------------------------------------------------------------
(* Dispatching commands *)

\* Slip: the number is left for runAnalyze to mint.
ScheduleAnalyzeUnnumbered ==
  /\ debounce' = "armed"
  /\ analyzing' = TRUE
  /\ UNCHANGED latestRequest

\* A new number at once, so that replies in flight are stale from now on; the
\* analysis itself waits for the debounce, which starts over.
ScheduleAnalyze ==
  /\ latestRequest' = latestRequest + 1
  /\ debounce' = "armed"
  /\ analyzing' = TRUE

\* dispatch: reduce, then re-analyze if the plan changed.
Dispatch(command) ==
  /\ ~disposed
  /\ command
  /\ plan' # plan => latestRequest < MaxRequests
  /\ IF plan' # plan
       THEN ScheduleAnalyze
       ELSE UNCHANGED <<latestRequest, debounce, analyzing>>
  /\ UNCHANGED <<optimizing, inFlight, analyzeInFlight, calls, waiters, disposed>>

Command(operation, command) ==
  /\ operation \in Operations
  /\ Dispatch(command)
  /\ UNCHANGED proposalCounter

\* proposeChange mints the id whether or not the reducer takes the proposal.
ProposeChange(applies) ==
  /\ "propose" \in Operations
  /\ proposalCounter < MaxProposals
  /\ proposalCounter' = proposalCounter + 1
  /\ Dispatch(Propose(proposalCounter + 1, applies))

-----------------------------------------------------------------------------
(* Engine calls *)

IsIdle == debounce = "none" /\ inFlight = 0

\* Slip: the flag goes down with the last reply although a debounce is pending.
SettleIgnoringDebounce ==
  /\ analyzing' = (analyzing /\ analyzeInFlight' # 0)
  /\ waiters' = IF IsIdle' THEN {} ELSE waiters

\* settleIfIdle, on the values the step leaves behind.
SettleIfIdle ==
  /\ analyzing' = (analyzing /\ ~(analyzeInFlight' = 0 /\ debounce' = "none"))
  /\ waiters' = IF IsIdle' THEN {} ELSE waiters

\* Slip: with no plan the timer just returns, without settleIfIdle.
RunAnalyzeSilently ==
  /\ debounce = "armed"
  /\ debounce' = "none"
  /\ \/ /\ plan = NoPlan
        /\ UNCHANGED <<calls, inFlight, analyzeInFlight>>
     \/ /\ plan # NoPlan
        /\ calls' = calls \cup
             {[op |-> "analyze", request |-> latestRequest, plan |-> plan]}
        /\ inFlight' = inFlight + 1
        /\ analyzeInFlight' = analyzeInFlight + 1
  /\ UNCHANGED <<stateVars, analyzing, waiters, optimizing, latestRequest,
                 proposalCounter, disposed>>

\* runAnalyze, when the timer fires: the plan and the number of now.
RunAnalyze ==
  /\ debounce = "armed"
  /\ debounce' = "none"
  /\ \/ /\ plan = NoPlan
        /\ UNCHANGED <<calls, inFlight, analyzeInFlight>>
        /\ SettleIfIdle
     \/ /\ plan # NoPlan
        /\ calls' = calls \cup
             {[op |-> "analyze", request |-> latestRequest, plan |-> plan]}
        /\ inFlight' = inFlight + 1
        /\ analyzeInFlight' = analyzeInFlight + 1
        /\ UNCHANGED <<analyzing, waiters>>
  /\ UNCHANGED <<stateVars, optimizing, latestRequest, proposalCounter, disposed>>

\* optimize: a number of its own, taken without touching a pending debounce.
\* (With no plan, after dispose or with overrides that do not apply, the promise
\* rejects and nothing changes.)
Optimize ==
  /\ "optimize" \in Operations
  /\ ~disposed /\ plan # NoPlan
  /\ latestRequest < MaxRequests
  /\ latestRequest' = latestRequest + 1
  /\ calls' = calls \cup
       {[op |-> "optimize", request |-> latestRequest + 1, plan |-> plan]}
  /\ inFlight' = inFlight + 1
  /\ optimizing' = TRUE
  /\ UNCHANGED <<stateVars, analyzing, proposalCounter, debounce, analyzeInFlight,
                 waiters, disposed>>

\* Slips: a guard that forgets one of its two halves.
CurrentUnlessDisposed(c) == ~disposed
CurrentEvenDisposed(c) == c.request = latestRequest

\* The stale-reply guard.
Current(c) == c.request = latestRequest /\ ~disposed

\* Slip: a refused optimization is kept off the screen without a word.
ApplyReplyOrRefuseQuietly(c) ==
  \/ /\ Current(c)
     /\ ResultReceived([plan |-> c.plan, from |-> c.op])
  \/ /\ Current(c)
     /\ ErrorRaised([kind |-> "engine", plan |-> c.plan])
  \/ /\ ~Current(c) \/ c.op = "optimize"
     /\ UNCHANGED stateVars

\* What a reply does to the state: an answer is stored, a failed call and a
\* refused optimization raise the banner, and a reply that is not current is
\* dropped.
ApplyReply(c) ==
  \/ /\ Current(c)
     /\ ResultReceived([plan |-> c.plan, from |-> c.op])
  \/ /\ Current(c)
     /\ ErrorRaised([kind |-> "engine", plan |-> c.plan])
  \/ /\ Current(c) /\ c.op = "optimize"
     /\ ErrorRaised([kind |-> "optimize", plan |-> c.plan])
  \/ /\ ~Current(c)
     /\ UNCHANGED stateVars

\* Slip: guarded itself counts analyze calls off, also for an optimize reply.
ReplyCountedTwice(c) ==
  /\ calls' = calls \ {c}
  /\ inFlight' = inFlight - 1
  /\ analyzeInFlight' = analyzeInFlight - 1
  /\ optimizing' = (optimizing /\ c.op # "optimize")
  /\ ApplyReply(c)
  /\ UNCHANGED <<latestRequest, proposalCounter, debounce, disposed>>
  /\ SettleIfIdle

\* guarded and its callers' finally: applied or not, the call is off the books.
Reply(c) ==
  /\ calls' = calls \ {c}
  /\ inFlight' = inFlight - 1
  /\ analyzeInFlight' = IF c.op = "analyze" THEN analyzeInFlight - 1
                                            ELSE analyzeInFlight
  /\ optimizing' = (optimizing /\ c.op # "optimize")
  /\ ApplyReply(c)
  /\ UNCHANGED <<latestRequest, proposalCounter, debounce, disposed>>
  /\ SettleIfIdle

\* whenIdle while busy; an idle store resolves the promise on the spot.
WhenIdle(w) ==
  /\ "whenIdle" \in Operations
  /\ w \notin waiters /\ ~IsIdle
  /\ waiters' = waiters \cup {w}
  /\ UNCHANGED <<stateVars, analyzing, optimizing, latestRequest, proposalCounter,
                 debounce, inFlight, analyzeInFlight, calls, disposed>>

\* dispose: the timer is cleared but its handle is kept; the engine then
\* rejects the calls in flight, which are replies like any other.
Dispose ==
  /\ "dispose" \in Operations
  /\ ~disposed
  /\ disposed' = TRUE
  /\ debounce' = IF debounce = "armed" THEN "cleared" ELSE debounce
  /\ UNCHANGED <<stateVars, analyzing, optimizing, latestRequest, proposalCounter,
                 inFlight, analyzeInFlight, calls, waiters>>

-----------------------------------------------------------------------------

Drivers ==
  \/ Command("loadPlan", LoadPlan)
  \/ \E applies \in BOOLEAN : Command("edit", Edit(applies))
  \/ Command("undo", Undo)
  \/ Command("redo", Redo)
  \/ \E applies \in BOOLEAN : ProposeChange(applies)
  \/ \E id \in ProposalId, applies \in BOOLEAN :
       Command("settle", AcceptProposal(id, applies))
  \/ \E id \in ProposalId : Command("settle", RejectProposal(id))
  \/ Command("reset", Reset)
  \/ \E blankLabel \in BOOLEAN : Command("baseline", SetBaseline(blankLabel))
  \/ Command("baseline", ClearBaseline)
  \/ Command("baseline", ToggleCompare)
  \/ Command("clearError", ClearError)
  \/ Optimize
  \/ \E w \in Waiters : WhenIdle(w)
  \/ Dispose

\* A view raises an error of its own, of a fixture that does not parse (Canvas.tsx).
UnreadableFixture == Command("unreadable", ErrorRaised(ParseError))

Environment == RunAnalyze \/ \E c \in calls : Reply(c)

Next == Drivers \/ UnreadableFixture \/ Environment

(***************************************************************************)
(* The timer fires (16 ms) and the engine client settles every call, by a  *)
(* reply or by its own per-request timeout (web/src/engine/client.ts); the *)
(* drivers are under no obligation.                                        *)
(***************************************************************************)
Fairness == WF_vars(RunAnalyze) /\ WF_vars(\E c \in calls : Reply(c))

Spec == Init /\ [][Next]_vars /\ Fairness
-----------------------------------------------------------------------------
(* Properties *)

\* The counters and flags the store keeps beside its calls agree with the calls:
\* no path, failed or stale, forgets to take a call off the books, and nobody is
\* left waiting for an idle store (store.ts: guarded, runAnalyze, settleIfIdle).
BooksBalance ==
  /\ inFlight = Cardinality(calls)
  /\ analyzeInFlight = Cardinality({c \in calls : c.op = "analyze"})
  /\ analyzing <=> (debounce # "none" \/ analyzeInFlight > 0)
  /\ optimizing => \E c \in calls : c.op = "optimize"
  /\ waiters # {} => ~IsIdle

\* The request number decides soundly: a call that carries the newest number was
\* made for the plan on screen, although the number is minted before the debounce
\* and the plan is read after it (store.ts: scheduleAnalyze, runAnalyze).
GuardIsSound ==
  \A c \in calls :
    /\ c.request <= latestRequest
    /\ c.request = latestRequest => c.plan = plan

\* After reset (or before the first load) no answer, engine error, proposal or undo
\* step of the forgotten session is on screen, whatever was in flight at the time
\* (reducer.ts: reset; store.ts: planChanged triggers scheduleAnalyze).
NothingWithoutPlan ==
  plan = NoPlan =>
    /\ result = NoResult
    /\ error \in {NoError, CommandError, ParseError}
    /\ baseline = NoBaseline
    /\ past = << >> /\ future = << >>
    /\ \A id \in ProposalId : proposals[id] = "none"

\* Compare mode never outlives the baseline it compares with (reducer.ts:
\* clearBaseline, toggleCompare, reset).
CompareNeedsBaseline == compare => baseline # NoBaseline

\* Every snapshot the user can step to, oldest first.
Timeline == IF plan = NoPlan THEN << >> ELSE Append(past, plan) \o Reverse(future)

\* No snapshot is on the undo/redo line twice and none is a snapshot never made
\* (reducer.ts: commitPlan, shiftHistory).
TimelineIsDistinct ==
  /\ IsInjective(Timeline)
  /\ \A i \in DOMAIN Timeline : Timeline[i] <= clones

\* Undo and redo lose no snapshot and keep their order, a new plan drops the redo
\* branch and nothing else, and only reset forgets (reducer.ts: shiftHistory,
\* commitPlan).
HistoryIsKept ==
  [][\/ Timeline' = Timeline
     \/ clones' > clones /\ Timeline' = Append(IF plan = NoPlan THEN << >>
                                                 ELSE Append(past, plan), clones')
     \/ plan' = NoPlan]_vars

\* A proposal is pending under an id never used before, also before a reset; it is
\* settled once; accepting it makes exactly one undoable step from the plan of now
\* (reducer.ts: propose, settleProposal; store.ts: proposeChange).
ProposalsSettleOnce ==
  [][\A id \in ProposalId :
       /\ proposals[id] \in {"accepted", "rejected"} =>
            proposals'[id] \in {proposals[id], "none"}
       /\ proposals[id] = "none" /\ proposals'[id] # "none" =>
            proposals'[id] = "pending" /\ id > proposalCounter
       /\ proposals[id] = "pending" /\ proposals'[id] = "accepted" =>
            clones' = clones + 1 /\ past' = Append(past, plan)]_vars

\* A rejected command changes the banner and nothing else; in particular it neither
\* half-applies, nor supersedes an answer on its way (reducer.ts: "the returned
\* state equals the input except for error").
RejectedIsInert ==
  [][rejected' => /\ UNCHANGED <<plan, result, baseline, compare, proposals,
                                 past, future>>
                  /\ error' # error => UNCHANGED <<latestRequest, debounce, calls>>]_vars

\* After dispose the state is final: a reply settles its promise and is not applied
\* (store.ts: guarded).
NothingAfterDispose ==
  [][disposed => UNCHANGED <<stateVars, latestRequest, proposalCounter, debounce>>]_vars

\* A caller of whenIdle is answered, unless the store is disposed of meanwhile.
WhenIdleResolves ==
  \A w \in Waiters : (w \in waiters) ~> (w \notin waiters \/ disposed)

\* Every mutation gets an answer: the Result of a call made for the new plan, or a
\* banner about such a call, appears, unless another plan replaces it first.  Calls that
\* supersede one another never leave the screen without either (store.ts:
\* scheduleAnalyze, guarded).
EveryPlanIsAnswered ==
  \A p \in 1 .. MaxRequests :
    (plan = p /\ debounce = "armed") ~>
                  \/ plan # p \/ disposed
                  \/ result.plan = p
                  \/ error \in [kind : {"engine", "optimize"}, plan : {p}]

\* The store implements the abstract view: refinement by the identity.
View == INSTANCE AnsweredView
ImplementsView == View!Spec

-----------------------------------------------------------------------------
(* What comments of the source say and the code does not do *)

\* docs/architecture.md, on the bus: "A mutation -> re-run Analyze -> re-render is the
\* same cycle for all three drivers".  So a mutation ends in an analysis of its plan
\* (or that analysis failing, or at least an optimization's Result), unless a newer
\* mutation discards it.
EveryMutationIsAnalyzed ==
  \A p \in 1 .. MaxRequests :
    (plan = p /\ debounce = "armed") ~>
                  \/ plan # p \/ disposed
                  \/ result.plan = p
                  \/ error = [kind |-> "engine", plan |-> p]

\* types.ts, on Baseline: "clones of the plan and the Result it produced".
BaselineIsAPair == baseline # NoBaseline => baseline.result.plan = baseline.plan
=============================================================================
