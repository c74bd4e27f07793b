--------------------------- MODULE PhasingSearch ---------------------------
(***************************************************************************)
(* The parts of the phasing optimizer (engine/optimize): what it accepts,  *)
(* how a candidate is scored, where the search starts and how it moves.    *)
(* The loop that puts them together is the machine of module Planner.      *)
(*                                                                         *)
(* A candidate is a sequence of phases [kw, energize, src]; src indexes    *)
(* FirmSources, 0 is pooled supply.  An evaluated candidate is an entry of *)
(* the frontier.  Objectives and violations are in thousandths, violations *)
(* rounded up so that none is rounded away.                                *)
(***************************************************************************)
EXTENDS CoreAnalyze, SequencesExt

CONSTANTS
  MaxAssignments,  \* maxAssignments: source assignments enumerated (64)
  DescentSeeds     \* descentSeeds: seeds refined (3)

ASSUME PhasingAssumption ==
  MaxAssignments \in Nat \ {0} /\ DescentSeeds \in Nat \ {0}

Infinite == 1000000000   \* math.Inf: the violation of a rejected candidate

Policy(plan) == plan.phasing.policy
Target(plan) == plan.compute.target

-----------------------------------------------------------------------------
(***************************************************************************)
(* What Optimize checks before it searches.                                *)
(***************************************************************************)
\* The metrics of metricKeys that the ledger carries, 6 of 14.  A constraint on another one is
\* UNKNOWN_METRIC here; no instance states one.
Metrics == {"total_capex", "npv", "time_to_energize_months", "mw_online_final",
            "stranded_capacity_mw_months", "shortfall_mw_months"}

MetricValue(summary, metric) ==
  CASE metric = "total_capex"                 -> summary.totalCapex
    [] metric = "npv"                         -> summary.npv
    [] metric = "time_to_energize_months"     -> summary.timeToEnergize
    [] metric = "mw_online_final"             -> summary.kwOnlineFinal
    [] metric = "stranded_capacity_mw_months" -> summary.stranded
    [] metric = "shortfall_mw_months"         -> summary.shortfall

ValidatePolicy(plan) ==
  LET p == Policy(plan)
  IN  IF "policy" \in plan.unset THEN {Error("MISSING_REQUIRED")}
      ELSE When(\/ p.maxPhases \notin 1 .. 8
                \/ p.minKw <= 0
                \/ p.maxKw < p.minKw
                \/ p.minMonths < 0
                \/ p.maxShortfall < 0, Error("OUT_OF_RANGE"))

\* The plan's own constraints, then the policy's bound on the hold-average shortfall.
Constraints(plan) ==
  plan.constraints
  \o IF Policy(plan).maxShortfall > 0
     THEN <<[metric |-> "shortfall_mw_months", op |-> "LE",
             value |-> Policy(plan).maxShortfall * plan.hold]>>
     ELSE <<>>

ValidateConstraints(plan) ==
  LET cons == plan.constraints
  IN  When(\E i \in DOMAIN cons : cons[i].metric \notin Metrics, Error("UNKNOWN_METRIC"))
      \cup When(\E i \in DOMAIN cons : cons[i].op = "UNSET", Error("MISSING_REQUIRED"))

ObjectiveType(plan) ==
  IF plan.objective = "UNSET" THEN "MIN_STRANDED_PLUS_LCOC" ELSE plan.objective

ValidateOptimize(plan) ==
  IF plan.phasing.mode # "OPTIMIZE" THEN {Error("USE_ANALYZE")}
  ELSE ValidatePolicy(plan)
       \cup ValidateConstraints(plan)
       \cup When(plan.objective = "UNSET", Info("OBJECTIVE_DEFAULTED"))
       \cup When(plan.decisionVars, Info("DECISION_VARS_IGNORED"))

-----------------------------------------------------------------------------
(***************************************************************************)
(* Firm sources sorted by ready month, then id; storage is left out.       *)
(***************************************************************************)
Firm(srcs) ==
  LET firm  == {i \in DOMAIN srcs : srcs[i].firm}
      Earlier(i, j) == \/ srcs[i].ready < srcs[j].ready
                       \/ srcs[i].ready = srcs[j].ready /\ srcs[i].id < srcs[j].id
      order == Ranking([i \in firm |-> {j \in firm : Earlier(j, i)}])
  IN  [r \in DOMAIN order |-> srcs[order[r]]]

FirmSources(plan) == Firm(NewSources(plan))

-----------------------------------------------------------------------------
(***************************************************************************)
(* Scoring.  base is the summary of the single-shot build, whose terms     *)
(* normalize the flagship objective; a base term of 0 keeps scale 1.       *)
(***************************************************************************)
InScaleOf(value, base) == (1000 * value) \div (IF base > 0 THEN base ELSE 1)

ObjectiveValue(plan, base, m) ==
  LET type == ObjectiveType(plan)
  IN  CASE type = "MIN_LCOC"            -> 1000 * m.lcoc
        [] type = "MIN_TIME_TO_REVENUE" -> 1000 * m.timeToEnergize
        [] type = "MAX_MW_CAPTURED"     -> -m.captured
        [] OTHER -> InScaleOf(m.stranded, base.stranded) + InScaleOf(m.lcoc, base.lcoc)

Violation(con, m) ==
  LET v     == MetricValue(m, con.metric)
      Abs(x) == IF x < 0 THEN -x ELSE x
      scale == AtLeast(1, Abs(con.value))
      excess == CASE con.op = "LE" -> v - con.value
                  [] con.op = "GE" -> con.value - v
                  [] OTHER         -> Abs(v - con.value)
  IN  (1000 * AtLeast(0, excess) + scale - 1) \div scale

\* A candidate the core rejects, or whose ledger fails a check, can never win.
Score(plan, base, cand, res) ==
  LET cons == Constraints(plan)
      V(i) == Violation(cons[i], res.summary)
      violation == SumFunction([i \in DOMAIN cons |-> V(i)])
  IN  IF res.status = "INVALID_INPUT" \/ ~res.allPassed
      THEN [cand |-> cand, feasible |-> FALSE, objective |-> 0,
            violation |-> Infinite, violated |-> {}, diags |-> res.diags]
      ELSE [cand |-> cand, feasible |-> violation = 0,
            objective |-> ObjectiveValue(plan, base, res.summary),
            violation |-> violation, violated |-> {i \in DOMAIN cons : V(i) > 0},
            diags |-> res.diags]

\* Slip: an equal candidate replaces the winner.
NotWorse(a, b) ==
  CASE a.feasible # b.feasible -> a.feasible
    [] a.feasible /\ b.feasible -> a.objective <= b.objective
    [] OTHER -> a.violation <= b.violation

Better(a, b) ==
  CASE a.feasible # b.feasible -> a.feasible
    [] a.feasible /\ b.feasible -> a.objective < b.objective
    [] OTHER -> a.violation < b.violation

(***************************************************************************)
(* The plans the search analyzes: the single-shot reference, and a         *)
(* candidate as an explicit plan that starts one lead time before it       *)
(* energizes, never before t0.                                             *)
(***************************************************************************)
BaselinePlan(plan) ==
  [plan EXCEPT !.mode = "RUN_ANALYZE", !.phasing.mode = "SINGLE_SHOT"]

ToPlan(plan, cand) ==
  LET srcs == FirmSources(plan)
  IN  [plan EXCEPT
         !.mode = "RUN_ANALYZE",
         !.phasing.mode = "EXPLICIT",
         !.phasing.phases =
           [k \in DOMAIN cand |->
              [id        |-> k,
               kw        |-> cand[k].kw,
               start     |-> AtLeast(cand[k].energize - ConstructionLeadMonths, 0),
               energize  |-> cand[k].energize,
               source    |-> IF cand[k].src = 0 THEN 0 ELSE srcs[cand[k].src].id,
               cooling   |-> "UNSET",
               footprint |-> 0]]]

-----------------------------------------------------------------------------
(***************************************************************************)
(* Seeds.  A phase count is skipped when it cannot sum to the target; the  *)
(* assignments of a count are the non-decreasing sequences of sources, in  *)
(* lexicographic order; enumeration stops after MaxAssignments of them.    *)
(***************************************************************************)
CountFits(plan, n) ==
  n * Policy(plan).minKw <= Target(plan) /\ Target(plan) <= n * Policy(plan).maxKw

Assignments(n, sources) ==
  LET all == {a \in [1 .. n -> 1 .. sources] : \A k \in 2 .. n : a[k - 1] <= a[k]}
      Before(a, b) == \E k \in 1 .. n : a[k] < b[k] /\ \A j \in 1 .. k - 1 : a[j] = b[j]
      Rank(a) == Cardinality({b \in all : Before(b, a)}) + 1
  IN  [r \in 1 .. Cardinality(all) |-> CHOOSE a \in all : Rank(a) = r]

CombosUpTo(plan, count) ==
  LET Of(n) == IF CountFits(plan, n) THEN Assignments(n, Len(FirmSources(plan))) ELSE <<>>
      upTo[n \in 0 .. count] == IF n = 0 THEN <<>> ELSE upTo[n - 1] \o Of(n)
  IN  upTo[count]

Combos(plan) ==
  LET all == CombosUpTo(plan, Policy(plan).maxPhases)
  IN  SubSeq(all, 1, AtMost(Len(all), MaxAssignments))

SeedNotes(plan) ==
  LET counts == 1 .. Policy(plan).maxPhases
      Reached(n) == Len(CombosUpTo(plan, n - 1)) <= MaxAssignments
  IN  When(\E n \in counts : Reached(n) /\ ~CountFits(plan, n), Info("PHASE_COUNT_SKIPPED"))
      \cup When(Len(CombosUpTo(plan, Policy(plan).maxPhases)) > MaxAssignments,
                Info("SEARCH_TRUNCATED"))

WholeMw(kw) == 1000 * (kw \div 1000)

(***************************************************************************)
(* fit: the first month from e0 on at which the pooled supply carries at   *)
(* least lo more kW, and the size that closes the demand gap there within  *)
(* [lo, hi], the pooled supply and what the phase's own source has left.   *)
(***************************************************************************)
Fit(plan, srcs, e0, cum, lo, hi, own) ==
  LET Allowed(e) == WholeMw(AtMost((100 * FirmSupplyAt(srcs, e)) \div plan.compute.pue - cum,
                                   own))
      months == {e \in e0 .. plan.hold - 1 : Allowed(e) >= lo}
      e    == Min(months)
      want == AtMost(AtLeast(WholeMw(DemandAt(plan.demand, e) - cum), lo), hi)
  IN  IF own < lo \/ months = {}
      THEN [ok |-> FALSE]
      ELSE [ok |-> TRUE, energize |-> e, kw |-> AtMost(want, Allowed(e))]

Total(cand) == SumFunction([k \in DOMAIN cand |-> cand[k].kw])

\* The phase after cand: as large as demand asks and what is left of the target, of the
\* pool and of its own source allows.
NextPhase(plan, srcs, assign, cand, cum, own) ==
  LET p    == Policy(plan)
      k    == Len(cand) + 1
      left == Target(plan) - cum
      rest == Len(assign) - k
      ready == srcs[assign[k]].ready
  IN  Fit(plan, srcs,
          IF k = 1 THEN ready ELSE AtLeast(ready, cand[k - 1].energize + p.minMonths),
          cum,
          IF rest = 0 THEN left ELSE AtLeast(p.minKw, left - rest * p.maxKw),
          IF rest = 0 THEN left ELSE AtMost(p.maxKw, left - rest * p.minKw),
          own)

Place(plan, srcs, assign, cand, src) ==
  LET sharing == {j \in DOMAIN cand : cand[j].src = src}
      used == SumFunction([j \in sharing |-> cand[j].kw * plan.compute.pue])
      fit  == NextPhase(plan, srcs, assign, cand,
                        Total(cand),
                        (100 * srcs[src].capacity - used) \div plan.compute.pue)
  IN  IF fit.ok
      THEN Append(cand, [kw |-> fit.kw, energize |-> fit.energize, src |-> src])
      ELSE <<>>

\* The demand-tracking candidate for one assignment, <<>> when a phase does not fit.
Seed(plan, assign) ==
  LET Placed(cand, k) ==
        IF Len(cand) = k - 1
        THEN Place(plan, FirmSources(plan), assign, cand, assign[k])
        ELSE <<>>
      first[k \in 0 .. Len(assign)] == IF k = 0 THEN <<>> ELSE Placed(first[k - 1], k)
  IN  first[Len(assign)]

-----------------------------------------------------------------------------
(***************************************************************************)
(* Moves of the coordinate descent, in the order they are tried: shift the *)
(* energization of phase k, then move minKw to or from its neighbour.      *)
(***************************************************************************)
EnergizeDeltas == <<6, -6, 3, -3, 2, -2, 1, -1>>
MovesPerPhase  == Len(EnergizeDeltas) + 2

\* Slip: a phase takes its size from nobody.
ResizedAlone(cand, k, kw) == IF Len(cand) = 1 THEN <<>> ELSE [cand EXCEPT ![k].kw = @ + kw]

Resized(cand, k, kw) ==
  LET partner == IF k < Len(cand) THEN k + 1 ELSE k - 1
  IN  IF partner = 0 THEN <<>>
      ELSE [cand EXCEPT ![k].kw = @ + kw, ![partner].kw = @ - kw]

Moved(plan, cand, k, move) ==
  IF move <= Len(EnergizeDeltas)
  THEN [cand EXCEPT ![k].energize = @ + EnergizeDeltas[move]]
  ELSE Resized(cand, k, IF move = MovesPerPhase THEN -Policy(plan).minKw
                                                ELSE Policy(plan).minKw)

\* The cheap pre-check: moves that fail it are not worth an evaluation.
ValidOver(plan, srcs, cand) ==
  LET p == Policy(plan)
      Load(k) == cand[k].kw * plan.compute.pue
      On(i, k) == {j \in 1 .. k : cand[j].src = i}
  IN  \A k \in DOMAIN cand :
        /\ cand[k].kw \in p.minKw .. p.maxKw
        /\ cand[k].energize < plan.hold
        /\ k > 1 => cand[k].energize >= cand[k - 1].energize + p.minMonths
        /\ 100 * FirmSupplyAt(srcs, cand[k].energize) >= SumFunction([j \in 1 .. k |-> Load(j)])
        /\ cand[k].src # 0 =>
             /\ cand[k].energize >= srcs[cand[k].src].ready
             /\ 100 * srcs[cand[k].src].capacity
                  >= SumFunction([j \in On(cand[k].src, k) |-> Load(j)])

Valid(plan, cand) == ValidOver(plan, FirmSources(plan), cand)
=============================================================================
