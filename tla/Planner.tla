------------------------------ MODULE Planner ------------------------------
(***************************************************************************)
(* The engine behind its byte bridge: bridge.Call dispatches a call to     *)
(* engine.Analyze (core, then Monte Carlo and sensitivity) or to           *)
(* optimize.Optimize (the staged search over core.Analyze).  The engine    *)
(* runs one call at a time on one thread; a step is one core.Analyze, with *)
(* what the code does before the next one.  A panic may strike any step.   *)
(*                                                                         *)
(* Each entry of the frontier is one evaluation, so its length is the      *)
(* code's counter; the first entry is the single-shot baseline.  Positions *)
(* in the frontier stand for the pointers to evaluated candidates.         *)
(***************************************************************************)
EXTENDS PhasingSearch, RiskRuns

CONSTANTS
  Requests,    \* calls the host makes: [op, wellFormed, plan]
  EvalBudget   \* evalBudget: core.Analyze calls per search (400)

\* What the codec makes of the bytes; the plan means nothing unless they are well-formed.
Request == [op : STRING, wellFormed : BOOLEAN, plan : SitePlan]

ASSUME PlannerAssumption ==
  /\ Requests \subseteq Request
  /\ EvalBudget \in Nat /\ EvalBudget > MaxAssignments

VARIABLES
  stage,      \* "idle", "called", "drawing", "seeding", "descending", "done"
  call,       \* the request being served
  base,       \* summary of the baseline, which normalizes the objective
  frontier,   \* evaluated candidates, in the order of their evaluation
  best,       \* position of the winner so far, 0 while there is none
  combo,      \* next source assignment to seed
  seeds,      \* positions of the evaluated seeds
  descent,    \* the descent: rank of its seed, incumbent, next move, improved
  draws,      \* Monte Carlo so far: accepted summaries, rejected iterations
  result      \* the Result handed back

vars == <<stage, call, base, frontier, best, combo, seeds, descent, draws, result>>
locals == <<base, frontier, best, combo, seeds, descent, draws>>

-----------------------------------------------------------------------------
(***************************************************************************)
(* Results.                                                                *)
(***************************************************************************)
Bare(status, diags) ==
  [status |-> status, diags |-> diags, summary |-> NoSummary, failed |-> {},
   monteCarlo |-> <<>>, sensitivity |-> <<>>, optimization |-> <<>>]

Failure(code) == Bare("INVALID_INPUT", {Error(code)})

NoCall    == [op |-> "none", wellFormed |-> FALSE]
NoDraws   == [samples |-> <<>>, invalid |-> 0]
NoDescent == [rank |-> 0, inc |-> 0, k |-> 1, move |-> 1, improved |-> FALSE]

Fresh ==
  /\ base' = NoSummary /\ frontier' = <<>> /\ best' = 0 /\ combo' = 1
  /\ seeds' = <<>> /\ descent' = NoDescent /\ draws' = NoDraws

Init ==
  /\ stage = "idle" /\ call = NoCall /\ result = Bare("UNSET", {})
  /\ base = NoSummary /\ frontier = <<>> /\ best = 0 /\ combo = 1
  /\ seeds = <<>> /\ descent = NoDescent /\ draws = NoDraws

Call(request) ==
  /\ stage = "idle"
  /\ stage' = "called" /\ call' = request
  /\ UNCHANGED <<result, locals>>

Answer(res) == stage' = "done" /\ result' = res /\ UNCHANGED call

\* The bytes are back with the host, and nothing of the call stays behind.
Reply ==
  /\ stage = "done"
  /\ stage' = "idle" /\ call' = NoCall /\ result' = Bare("UNSET", {})
  /\ Fresh

\* The deferred recover: what the call had computed is lost.
Panic ==
  /\ stage \in {"called", "drawing", "seeding", "descending"}
  /\ Answer(Failure("INTERNAL_ERROR"))
  /\ Fresh

Undispatched ==
  /\ stage = "called"
  /\ \/ /\ call.op \notin {"analyze", "optimize"}
        /\ Answer(Failure("UNKNOWN_OP"))
     \/ /\ call.op \in {"analyze", "optimize"}
        /\ ~call.wellFormed
        /\ Answer(Failure("MALFORMED_INPUT"))
  /\ UNCHANGED locals

Dispatched(op) == stage = "called" /\ call.op = op /\ call.wellFormed

-----------------------------------------------------------------------------
(***************************************************************************)
(* engine.Analyze: an error of the core or of the risk validation is the   *)
(* whole answer; a risk warning downgrades an OK.                          *)
(***************************************************************************)
Reported(plan, drawn, res, sens) ==
  LET rd == ValidateRisk(plan)
            \cup When(drawn.invalid > 0, Warning("MC_INVALID_DRAWS"))
            \cup IF plan.risk.sensitivity THEN sens.notes ELSE {}
  IN  [Bare(IF res.status = "OK" THEN StatusOf(rd) ELSE res.status, res.diags \cup rd)
         EXCEPT !.summary = res.summary,
                !.failed  = res.failed,
                !.monteCarlo = IF plan.risk.monteCarlo
                               THEN <<MonteCarloReport(plan, drawn.samples)>> ELSE <<>>,
                !.sensitivity = IF plan.risk.sensitivity THEN sens.vars ELSE <<>>]

AnalysisResult(plan, drawn) ==
  LET res == Analyze(plan)
  IN  Reported(plan, drawn, res, SensitivityReport(plan, res.summary))

RefuseAnalysis ==
  /\ Dispatched("analyze")
  /\ LET res == Analyze(call.plan)
         rd  == ValidateRisk(call.plan)
     IN  \/ /\ res.status = "INVALID_INPUT"
            /\ Answer(Bare("INVALID_INPUT", res.diags))
         \/ /\ res.status # "INVALID_INPUT" /\ HasErrors(rd)
            /\ Answer(Bare("INVALID_INPUT", res.diags \cup rd))
  /\ UNCHANGED locals

RunAnalysis ==
  /\ Dispatched("analyze")
  /\ Analyze(call.plan).status # "INVALID_INPUT" /\ ~HasErrors(ValidateRisk(call.plan))
  /\ \/ /\ call.plan.risk.monteCarlo
        /\ stage' = "drawing" /\ UNCHANGED <<call, result>>
     \/ /\ ~call.plan.risk.monteCarlo
        /\ Answer(AnalysisResult(call.plan, NoDraws))
  /\ UNCHANGED locals

Drawn == Len(draws.samples) + draws.invalid

\* One iteration: an iteration the core rejects is counted and left out.
Draw ==
  /\ stage = "drawing" /\ Drawn < call.plan.risk.iterations
  /\ \E values \in Draws(call.plan) :
       LET res == Analyze(DrawPlan(call.plan, values))
       IN  draws' = IF res.status = "INVALID_INPUT"
                    THEN [draws EXCEPT !.invalid = @ + 1]
                    ELSE [draws EXCEPT !.samples = Append(@, res.summary)]
  /\ UNCHANGED <<stage, call, base, frontier, best, combo, seeds, descent, result>>

EndDraws ==
  /\ stage = "drawing" /\ Drawn >= call.plan.risk.iterations
  /\ Answer(AnalysisResult(call.plan, draws))
  /\ UNCHANGED locals

-----------------------------------------------------------------------------
(***************************************************************************)
(* optimize.Optimize.  A plan whose policy, constraints or single-shot     *)
(* build is refused is not searched.                                       *)
(***************************************************************************)
BaselineCandidate(plan, summary) ==
  <<[kw |-> Target(plan), energize |-> summary.timeToEnergize, src |-> 0]>>

RefuseSearch ==
  /\ Dispatched("optimize")
  /\ LET d   == ValidateOptimize(call.plan)
         res == Analyze(BaselinePlan(call.plan))
     IN  \/ HasErrors(d) /\ Answer(Bare("INVALID_INPUT", d))
         \/ /\ ~HasErrors(d) /\ res.status = "INVALID_INPUT"
            /\ Answer(Bare("INVALID_INPUT", d \cup res.diags))
  /\ UNCHANGED locals

StartSearch ==
  /\ Dispatched("optimize") /\ ~HasErrors(ValidateOptimize(call.plan))
  /\ LET plan == call.plan
         res  == Analyze(BaselinePlan(plan))
     IN  /\ res.status # "INVALID_INPUT"
         /\ base' = res.summary
         /\ frontier' = <<Score(plan, res.summary, BaselineCandidate(plan, res.summary), res)>>
  /\ stage' = "seeding"
  /\ UNCHANGED <<call, best, combo, seeds, descent, draws, result>>

\* Slip: one evaluation past the budget.
ExhaustedLate == Len(frontier) > EvalBudget
Exhausted == Len(frontier) >= EvalBudget

\* evaluate: a candidate seen before is served from the memo, at no cost.
Memo(cand) == {i \in 2 .. Len(frontier) : frontier[i].cand = cand}

Position(cand) == IF Memo(cand) = {} THEN Len(frontier) + 1 ELSE Min(Memo(cand))

BestOf(entries, cur, at) ==
  IF entries[at].feasible /\ (cur = 0 \/ Better(entries[at], entries[cur])) THEN at ELSE cur

Evaluate(cand) ==
  IF Memo(cand) # {}
  THEN UNCHANGED <<frontier, best>>
  ELSE /\ frontier' = Append(frontier, Score(call.plan, base, cand,
                                             Analyze(ToPlan(call.plan, cand))))
       /\ best' = BestOf(frontier', best, Len(frontier'))

SeedNext ==
  /\ stage = "seeding"
  /\ LET combos == Combos(call.plan)
         cand   == Seed(call.plan, combos[combo])
     IN  /\ combo <= Len(combos)
         /\ IF cand # <<>> /\ ~Exhausted
            THEN Evaluate(cand) /\ seeds' = Append(seeds, Position(cand))
            ELSE UNCHANGED <<frontier, best, seeds>>
  /\ combo' = combo + 1
  /\ UNCHANGED <<stage, call, base, descent, draws, result>>

\* Slip: the seeds are refined in the order they were found.
RankedByAge == seeds

\* The seeds best first; of two equals the earlier one.
Ranked ==
  LET Before(i, j) == \/ i < j /\ ~Better(frontier[seeds[j]], frontier[seeds[i]])
                      \/ i > j /\ Better(frontier[seeds[i]], frontier[seeds[j]])
      order == Ranking([i \in DOMAIN seeds |-> {j \in DOMAIN seeds : Before(j, i)}])
  IN  [r \in DOMAIN order |-> seeds[order[r]]]

DescentFrom(rank) == [NoDescent EXCEPT !.rank = rank, !.inc = Ranked[rank]]

LastRank == AtMost(DescentSeeds, Len(seeds))

(***************************************************************************)
(* The Result of a search: the winner's analysis, or the reason there is   *)
(* none: the constraint violated most often, 0 when none was.              *)
(***************************************************************************)
Blamed ==
  LET cons  == DOMAIN Constraints(call.plan)
      By(c) == Cardinality({i \in DOMAIN frontier : c \in frontier[i].violated})
      most  == {c \in cons : By(c) > 0 /\ \A other \in cons : By(other) <= By(c)}
  IN  IF most = {} THEN 0 ELSE Min(most)

SearchResult(converged) ==
  LET notes == ValidateOptimize(call.plan) \cup SeedNotes(call.plan)
      opt   == [converged |-> converged, evaluations |-> Len(frontier),
                blamed |-> IF best = 0 THEN Blamed ELSE 0,
                bestPlan |-> IF best = 0 THEN <<>> ELSE <<ToPlan(call.plan, frontier[best].cand)>>]
      diags == notes \cup frontier[best].diags
      res   == Analyze(ToPlan(call.plan, frontier[best].cand))
  IN  IF best = 0
      THEN [Bare("INFEASIBLE", notes \cup {Error("NO_FEASIBLE_CANDIDATE")})
              EXCEPT !.optimization = <<opt>>]
      ELSE [Bare(StatusOf(diags), diags)
              EXCEPT !.optimization = <<opt>>, !.summary = res.summary, !.failed = res.failed]

EndSearch(converged) == Answer(SearchResult(converged)) /\ UNCHANGED locals

SeedsDone ==
  /\ stage = "seeding" /\ combo > Len(Combos(call.plan))
  /\ IF seeds = <<>>
     THEN EndSearch(TRUE)
     ELSE /\ stage' = "descending" /\ descent' = DescentFrom(1)
          /\ UNCHANGED <<call, base, frontier, best, combo, seeds, draws, result>>

(***************************************************************************)
(* descend: every move of every phase in turn, only strict improvements    *)
(* accepted, until a full pass brings none or the budget is gone.          *)
(***************************************************************************)
Incumbent == frontier[descent.inc].cand

InPass == stage = "descending" /\ descent.k <= Len(Incumbent)

Candidate == Moved(call.plan, Incumbent, descent.k, descent.move)

WorthTrying == Candidate # <<>> /\ Valid(call.plan, Candidate)

Advanced(d) ==
  IF d.move < MovesPerPhase THEN [d EXCEPT !.move = @ + 1]
                            ELSE [d EXCEPT !.k = @ + 1, !.move = 1]

SkipMove ==
  /\ InPass /\ ~WorthTrying
  /\ descent' = Advanced(descent)
  /\ UNCHANGED <<stage, call, base, frontier, best, combo, seeds, draws, result>>

TryMove ==
  /\ InPass /\ WorthTrying /\ ~Exhausted
  /\ Evaluate(Candidate)
  /\ LET at == Position(Candidate)
     IN  descent' = IF Better(frontier'[at], frontier[descent.inc])
                    THEN [Advanced(descent) EXCEPT !.inc = at, !.improved = TRUE]
                    ELSE Advanced(descent)
  /\ UNCHANGED <<stage, call, base, combo, seeds, draws, result>>

OutOfBudget == InPass /\ WorthTrying /\ Exhausted /\ EndSearch(FALSE)

PassDone == stage = "descending" /\ descent.k > Len(Incumbent)

NextPass ==
  /\ PassDone /\ descent.improved
  /\ descent' = [descent EXCEPT !.k = 1, !.move = 1, !.improved = FALSE]
  /\ UNCHANGED <<stage, call, base, frontier, best, combo, seeds, draws, result>>

NextSeed ==
  /\ PassDone /\ ~descent.improved /\ descent.rank < LastRank
  /\ descent' = DescentFrom(descent.rank + 1)
  /\ UNCHANGED <<stage, call, base, frontier, best, combo, seeds, draws, result>>

Converged ==
  /\ PassDone /\ ~descent.improved /\ descent.rank = LastRank
  /\ EndSearch(TRUE)

-----------------------------------------------------------------------------
Search == \/ RefuseSearch \/ StartSearch \/ SeedNext \/ SeedsDone
          \/ SkipMove \/ TryMove \/ OutOfBudget \/ NextPass \/ NextSeed \/ Converged

EngineStep == \/ Undispatched \/ RefuseAnalysis \/ RunAnalysis \/ Draw \/ EndDraws
              \/ Search \/ Reply

Next == (\E request \in Requests : Call(request)) \/ EngineStep \/ Panic

(***************************************************************************)
(* The engine is a synchronous function: a call that was made runs on.     *)
(* EngineStep is enabled in every stage but "idle" (the guards of a stage  *)
(* cover all cases), so this is WF_vars(EngineStep) with its ENABLED       *)
(* written out; TLC would analyze whole plans to decide that.              *)
(***************************************************************************)
Fairness == <>[](stage # "idle") => []<><<EngineStep>>_vars

Spec == Init /\ [][Next]_vars /\ Fairness

(***************************************************************************)
(* Properties.                                                             *)
(***************************************************************************)
Entries == DOMAIN frontier

\* PlannerTypeOK: a call never evaluates more than the budget, positions point
\* at evaluated candidates, and no more iterations run than were asked for.
PlannerTypeOK ==
  /\ stage \in {"idle", "called", "drawing", "seeding", "descending", "done"}
  /\ call \in Requests \cup {NoCall}
  /\ Len(frontier) <= EvalBudget
  /\ best \in ({0} \cup Entries) \ {1}
  /\ ToSet(seeds) \subseteq Entries \ {1}
  /\ stage = "descending" => descent.inc \in Entries \ {1}
  /\ stage = "drawing" => Drawn <= call.plan.risk.iterations
  /\ stage = "idle" <=> call = NoCall

\* AcceptedPlansConserve: a plan the validation lets through passes every
\* check of its ledger, when its phases ask for whole racks (a failed check is
\* "a bug in the model, not in the input", conserve.go:8).
AcceptedPlansConserve ==
  stage = "done" /\ call.op = "analyze" /\ call.wellFormed /\ result.status # "INVALID_INPUT"
    /\ WholeRacks(call.plan)
  => result.failed = {} /\ Warning("CONSERVATION_FAILED") \notin result.diags

-----------------------------------------------------------------------------
Searching == stage = "done" /\ result.optimization # <<>>

Candidates == Entries \ {1}

ObeysPolicy(plan, cand) ==
  LET p == Policy(plan)
  IN  /\ Len(cand) \in 1 .. p.maxPhases
      /\ Total(cand) = Target(plan)
      /\ \A k \in DOMAIN cand :
           /\ cand[k].kw \in p.minKw .. p.maxKw
           /\ cand[k].energize < plan.hold
           /\ k > 1 => /\ cand[k].energize >= cand[k - 1].energize + p.minMonths
                       /\ cand[k].src >= cand[k - 1].src

Satisfied(con, summary) ==
  LET v == MetricValue(summary, con.metric)
  IN  CASE con.op = "LE" -> v <= con.value
        [] con.op = "GE" -> v >= con.value
        [] OTHER         -> v = con.value

\* WinnerIsHonest: the search answers with the first of the best candidates it
\* evaluated, never the baseline.  The plan it hands back keeps the policy and
\* every constraint, and analyzing it again gives the numbers of the answer with
\* a sound ledger.  No candidate is paid for twice.
WinnerIsHonest ==
  Searching =>
    LET plan     == call.plan
        feasible == {i \in Candidates : frontier[i].feasible}
        again    == Analyze(result.optimization[1].bestPlan[1])
    IN  /\ \A i, j \in Candidates : frontier[i].cand = frontier[j].cand => i = j
        /\ feasible = {} <=> result.status = "INFEASIBLE"
        /\ feasible # {} =>
             /\ best \in feasible
             /\ \A i \in feasible :
                  /\ ~Better(frontier[i], frontier[best])
                  /\ i < best => Better(frontier[best], frontier[i])
             /\ ObeysPolicy(plan, frontier[best].cand)
             /\ again.status \in {"OK", "OK_WITH_WARNINGS"} /\ again.failed = {}
             /\ again.summary = result.summary /\ again.diags \subseteq result.diags
             /\ \A i \in DOMAIN Constraints(plan) :
                  Satisfied(Constraints(plan)[i], result.summary)

\* ConvergedIsLocalOptimum: a search that says it converged tried every legal
\* move from its winner and found none better.
ConvergedIsLocalOptimum ==
  Searching /\ best # 0 /\ result.optimization[1].converged =>
    LET won == frontier[best].cand
    IN  \A k \in DOMAIN won, move \in 1 .. MovesPerPhase :
          LET cand == Moved(call.plan, won, k, move)
          IN  cand # <<>> /\ Valid(call.plan, cand) =>
                Memo(cand) # {} /\ ~Better(frontier[Min(Memo(cand))], frontier[best])

-----------------------------------------------------------------------------
\* RiskReportIsHonest: every iteration is in the statistics or reported as
\* rejected, every sample in one bin, the quantiles are ordered within the
\* sample, the tornado is ordered by swing, and a warning shows in the status.
RiskReportIsHonest ==
  stage = "done" /\ result.status \in {"OK", "OK_WITH_WARNINGS"} /\ call.op = "analyze" =>
    /\ \A report \in ToSet(result.monteCarlo) :
         LET metrics == report.metrics
         IN  /\ Drawn = report.iterations
             /\ draws.invalid > 0 <=> Warning("MC_INVALID_DRAWS") \in result.diags
             /\ DOMAIN metrics = {} <=> draws.samples = <<>>
             /\ \A m \in DOMAIN metrics :
                  LET xs == {draws.samples[i][m] : i \in DOMAIN draws.samples}
                  IN  /\ SumFunction(metrics[m].histogram) = report.iterations - draws.invalid
                      /\ 100 * Min(xs) <= metrics[m].p10
                      /\ metrics[m].p10 <= metrics[m].p50 /\ metrics[m].p50 <= metrics[m].p90
                      /\ metrics[m].p90 <= 100 * Max(xs)
    /\ \A r \in 2 .. Len(result.sensitivity) :
         LET var == result.sensitivity[r]
             previous == result.sensitivity[r - 1]
         IN  previous.metric = var.metric => Swing(previous) >= Swing(var)
    /\ result.status = "OK" <=> \A d \in result.diags : d.severity = "INFO"

\* CallsEnd: every call is answered, the search included.
CallsEnd == stage = "called" ~> stage = "idle"
=============================================================================
