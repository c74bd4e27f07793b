------------------------------- MODULE Reducer -------------------------------
(***************************************************************************)
(* The pure command reducer of the planner's bus, web/src/bus/reducer.ts.  *)
(*                                                                         *)
(* reduce(state, command) -> state becomes one action per command over the *)
(* fields of State (web/src/bus/types.ts).  Plans are abstracted to the    *)
(* identity of the snapshot: commitPlan always makes a fresh clone, so the *)
(* n-th clone made is the plan n, and "the plan changed" is plan' # plan   *)
(* exactly as planChanged compares references.  Whether a patch applies    *)
(* depends on paths and values the model does not carry: each command that *)
(* applies one takes the answer of paths.ts as a Boolean parameter.        *)
(***************************************************************************)
EXTENDS Integers, SequencesExt

CONSTANT MaxProposals   \* bound: proposals minted in one session

ASSUME ReducerAssumption == MaxProposals \in Nat

VARIABLES
  plan,        \* State.plan: the snapshot on screen, or NoPlan
  result,      \* State.result: the plan the engine was called with, and which call it was
  baseline,    \* State.baseline: the pinned plan and Result
  compare,     \* State.compare
  proposals,   \* State.proposals: the status of each proposal id
  error,       \* State.error: the banner
  past,        \* State.history.past, oldest first
  future,      \* State.history.future, next redo last
  clones,      \* how many plan snapshots commitPlan has made
  rejected     \* did the last command go through reject()? (LogEntry.rejected)

stateVars == <<plan, result, baseline, compare, proposals, error, past, future,
               clones, rejected>>

NoPlan     == 0
Plan       == Nat \ {0}
EngineOp   == {"analyze", "optimize"}
Result     == [plan : Plan, from : EngineOp]
NoResult   == [plan |-> NoPlan, from |-> "none"]
NoBaseline == [plan |-> NoPlan, result |-> NoResult]
ProposalId == 1 .. MaxProposals
Status     == {"none", "pending", "accepted", "rejected"}

(***************************************************************************)
(* An error is known by its kind: "command" for a rejected command,        *)
(* "engine" for a failed engine call (EngineError kinds), "optimize" for a *)
(* refused optimization, "parse" for a fixture that cannot be read.  The    *)
(* second and third keep the plan of the call.                             *)
(***************************************************************************)
NoError      == [kind |-> "none", plan |-> NoPlan]
CommandError == [kind |-> "command", plan |-> NoPlan]
ParseError   == [kind |-> "parse", plan |-> NoPlan]
EngineError  == [kind : {"engine", "optimize"}, plan : Plan]

ReducerTypeOK ==
  /\ plan \in Plan \cup {NoPlan}
  /\ result \in Result \cup {NoResult}
  /\ baseline \in [plan : Plan, result : Result] \cup {NoBaseline}
  /\ compare \in BOOLEAN
  /\ proposals \in [ProposalId -> Status]
  /\ error \in EngineError \cup {NoError, CommandError, ParseError}
  /\ past \in Seq(Plan)
  /\ future \in Seq(Plan)
  /\ clones \in Nat
  /\ rejected \in BOOLEAN

ReducerInit ==
  /\ plan = NoPlan
  /\ result = NoResult
  /\ baseline = NoBaseline
  /\ compare = FALSE
  /\ proposals = [id \in ProposalId |-> "none"]
  /\ error = NoError
  /\ past = << >>
  /\ future = << >>
  /\ clones = 0
  /\ rejected = FALSE

-----------------------------------------------------------------------------

\* reject: everything but the banner is returned as it was.
Reject ==
  /\ error' = CommandError
  /\ rejected' = TRUE
  /\ UNCHANGED <<plan, result, baseline, compare, proposals, past, future, clones>>

\* Slip: an edit after an undo leaves the redo stack in place.
CommitPlanKeepingFuture ==
  /\ clones' = clones + 1
  /\ plan' = clones + 1
  /\ past' = IF plan = NoPlan THEN past ELSE Append(past, plan)
  /\ future' = future
  /\ rejected' = FALSE

\* commitPlan: the old plan goes to the undo stack, the redo stack is dropped.
CommitPlan ==
  /\ clones' = clones + 1
  /\ plan' = clones + 1
  /\ past' = IF plan = NoPlan THEN past ELSE Append(past, plan)
  /\ future' = << >>
  /\ rejected' = FALSE

LoadPlan ==
  /\ CommitPlan
  /\ UNCHANGED <<result, baseline, compare, proposals, error>>

\* setField, applyPatch and removeAt: patchPlan / removeFromPlan.
Edit(applies) ==
  \/ /\ plan # NoPlan /\ applies
     /\ CommitPlan
     /\ UNCHANGED <<result, baseline, compare, proposals, error>>
  \/ /\ plan = NoPlan \/ ~applies
     /\ Reject

\* propose: a duplicate id or a patch that does not apply now is refused.
Propose(id, applies) ==
  \/ /\ plan # NoPlan /\ proposals[id] = "none" /\ applies
     /\ proposals' = [proposals EXCEPT ![id] = "pending"]
     /\ rejected' = FALSE
     /\ UNCHANGED <<plan, result, baseline, compare, error, past, future, clones>>
  \/ /\ plan = NoPlan \/ proposals[id] # "none" \/ ~applies
     /\ Reject

\* Slip: the status is not looked at, so a settled proposal can be accepted.
AcceptSettledProposal(id, applies) ==
  \/ /\ proposals[id] # "none" /\ plan # NoPlan /\ applies
     /\ CommitPlan
     /\ proposals' = [proposals EXCEPT ![id] = "accepted"]
     /\ UNCHANGED <<result, baseline, compare, error>>
  \/ /\ proposals[id] = "none" \/ plan = NoPlan \/ ~applies
     /\ Reject

\* Slip: the proposal is marked accepted although its patch did not apply.
AcceptUnappliedProposal(id, applies) ==
  \/ /\ proposals[id] = "pending" /\ plan # NoPlan /\ applies
     /\ CommitPlan
     /\ proposals' = [proposals EXCEPT ![id] = "accepted"]
     /\ UNCHANGED <<result, baseline, compare, error>>
  \/ /\ proposals[id] = "pending" /\ ~applies
     /\ proposals' = [proposals EXCEPT ![id] = "accepted"]
     /\ error' = CommandError
     /\ rejected' = TRUE
     /\ UNCHANGED <<plan, result, baseline, compare, past, future, clones>>

\* settleProposal, accepting: the patch goes onto the plan of now, not the plan
\* it was proposed for; when it no longer applies the proposal stays pending.
AcceptProposal(id, applies) ==
  \/ /\ proposals[id] = "pending" /\ plan # NoPlan /\ applies
     /\ CommitPlan
     /\ proposals' = [proposals EXCEPT ![id] = "accepted"]
     /\ UNCHANGED <<result, baseline, compare, error>>
  \/ /\ proposals[id] # "pending" \/ plan = NoPlan \/ ~applies
     /\ Reject

RejectProposal(id) ==
  \/ /\ proposals[id] = "pending"
     /\ proposals' = [proposals EXCEPT ![id] = "rejected"]
     /\ rejected' = FALSE
     /\ UNCHANGED <<plan, result, baseline, compare, error, past, future, clones>>
  \/ /\ proposals[id] # "pending"
     /\ Reject

\* Slip: the fields are cleared one by one and the undo stack is forgotten.
ResetKeepingPast ==
  /\ plan' = NoPlan
  /\ result' = NoResult
  /\ baseline' = NoBaseline
  /\ compare' = FALSE
  /\ proposals' = [id \in ProposalId |-> "none"]
  /\ error' = NoError
  /\ future' = << >>
  /\ rejected' = FALSE
  /\ UNCHANGED <<past, clones>>

\* reset: initialState, whatever was there.
Reset ==
  /\ plan' = NoPlan
  /\ result' = NoResult
  /\ baseline' = NoBaseline
  /\ compare' = FALSE
  /\ proposals' = [id \in ProposalId |-> "none"]
  /\ error' = NoError
  /\ past' = << >>
  /\ future' = << >>
  /\ rejected' = FALSE
  /\ UNCHANGED clones

\* shiftHistory: the same snapshot moves, no clone is made; with nothing to
\* undo or redo the command is accepted and does nothing.
Undo ==
  /\ \/ /\ past # << >> /\ plan # NoPlan
        /\ plan' = Last(past)
        /\ past' = Front(past)
        /\ future' = Append(future, plan)
     \/ /\ past = << >> \/ plan = NoPlan
        /\ UNCHANGED <<plan, past, future>>
  /\ rejected' = FALSE
  /\ UNCHANGED <<result, baseline, compare, proposals, error, clones>>

\* Slip: the redone snapshot is not taken off the redo stack.
RedoWithoutPop ==
  /\ \/ /\ future # << >> /\ plan # NoPlan
        /\ plan' = Last(future)
        /\ past' = Append(past, plan)
     \/ /\ future = << >> \/ plan = NoPlan
        /\ UNCHANGED <<plan, past>>
  /\ rejected' = FALSE
  /\ UNCHANGED <<future, result, baseline, compare, proposals, error, clones>>

Redo ==
  /\ \/ /\ future # << >> /\ plan # NoPlan
        /\ plan' = Last(future)
        /\ future' = Front(future)
        /\ past' = Append(past, plan)
     \/ /\ future = << >> \/ plan = NoPlan
        /\ UNCHANGED <<plan, past, future>>
  /\ rejected' = FALSE
  /\ UNCHANGED <<result, baseline, compare, proposals, error, clones>>

\* setBaseline: pins whatever plan and Result are on screen together.
SetBaseline(blankLabel) ==
  \/ /\ plan # NoPlan /\ result # NoResult /\ ~blankLabel
     /\ baseline' = [plan |-> plan, result |-> result]
     /\ rejected' = FALSE
     /\ UNCHANGED <<plan, result, compare, proposals, error, past, future, clones>>
  \/ /\ plan = NoPlan \/ result = NoResult \/ blankLabel
     /\ Reject

\* Slip: compare mode stays on without a baseline.
ClearBaselineOnly ==
  \/ /\ baseline # NoBaseline
     /\ baseline' = NoBaseline
     /\ rejected' = FALSE
     /\ UNCHANGED <<plan, result, compare, proposals, error, past, future, clones>>
  \/ /\ baseline = NoBaseline
     /\ Reject

ClearBaseline ==
  \/ /\ baseline # NoBaseline
     /\ baseline' = NoBaseline
     /\ compare' = FALSE
     /\ rejected' = FALSE
     /\ UNCHANGED <<plan, result, proposals, error, past, future, clones>>
  \/ /\ baseline = NoBaseline
     /\ Reject

ToggleCompare ==
  \/ /\ baseline # NoBaseline
     /\ compare' = ~compare
     /\ rejected' = FALSE
     /\ UNCHANGED <<plan, result, baseline, proposals, error, past, future, clones>>
  \/ /\ baseline = NoBaseline
     /\ Reject

ResultReceived(r) ==
  /\ result' = r
  /\ error' = NoError
  /\ rejected' = FALSE
  /\ UNCHANGED <<plan, baseline, compare, proposals, past, future, clones>>

ErrorRaised(e) ==
  /\ error' = e
  /\ rejected' = FALSE
  /\ UNCHANGED <<plan, result, baseline, compare, proposals, past, future, clones>>

ClearError ==
  /\ error' = NoError
  /\ rejected' = FALSE
  /\ UNCHANGED <<plan, result, baseline, compare, proposals, past, future, clones>>
=============================================================================
