------------------------------ MODULE RiskRuns ------------------------------
(***************************************************************************)
(* The risk layer over the core (engine/risk): Monte Carlo draws, one at a *)
(* time sensitivity, and their statistics.  Pure definitions; the loop     *)
(* over the iterations is in module Planner.                               *)
(*                                                                         *)
(* An input path is [field, index] (index 0 for a scalar field), a value   *)
(* written through one is in tenths of the field's unit, so that the       *)
(* rounding of integer fields shows.  A distribution is its path, whether  *)
(* its parameters are acceptable, and its support: the values its sampler  *)
(* may return, cut down to a few.                                          *)
(***************************************************************************)
EXTENDS CoreAnalyze, SequencesExt

-----------------------------------------------------------------------------
(***************************************************************************)
(* Reading and writing a numeric field by path.                            *)
(***************************************************************************)
ScalarFields == {"target_it_load", "utilization_pct", "utilizationPct",
                 "gpu_hour_price", "exit_cap_rate"}

KnownPath(plan, path) ==
  \/ path.field \in ScalarFields /\ path.index = 0
  \/ path.field = "available_month" /\ path.index \in DOMAIN plan.sources

GetNumeric(plan, path) ==
  CASE path.field = "target_it_load"   -> 10 * plan.compute.target
    [] path.field = "gpu_hour_price"   -> 10 * plan.revenue.price
    [] path.field = "exit_cap_rate"    -> 10 * plan.exitCapPct
    [] path.field = "available_month"  -> 10 * plan.sources[path.index].available
    [] OTHER                           -> 10 * plan.revenue.utilization

\* Half away from zero.
RoundTenths(v) == IF v >= 0 THEN (v + 5) \div 10 ELSE -((5 - v) \div 10)

\* Writing into a revenue block that is absent creates it.
SetNumeric(plan, path, v) ==
  CASE path.field = "target_it_load"  -> [plan EXCEPT !.compute.target = v \div 10]
    [] path.field = "exit_cap_rate"   -> [plan EXCEPT !.exitCapPct = v \div 10]
    [] path.field = "available_month" ->
         [plan EXCEPT !.sources[path.index].available = RoundTenths(v)]
    [] path.field = "gpu_hour_price"  ->
         [plan EXCEPT !.revenue.price = v \div 10, !.unset = @ \ {"COMPUTE_SALES"}]
    [] OTHER ->
         [plan EXCEPT !.revenue.utilization = v \div 10, !.unset = @ \ {"COMPUTE_SALES"}]

\* Only the proto spelling of a bounded field is recognized.
ClampToDomain(path, v) ==
  IF path.field \in {"utilization_pct", "exit_cap_rate"}
  THEN AtMost(AtLeast(v, 0), 1000)
  ELSE v

-----------------------------------------------------------------------------
(***************************************************************************)
(* Validate: the enabled runs are checked before the first draw.           *)
(***************************************************************************)
ValidateMonteCarlo(plan) ==
  LET dists == plan.risk.dists
  IN  When(\/ plan.risk.iterations <= 0
           \/ \E i \in DOMAIN dists : ~dists[i].valid, Error("OUT_OF_RANGE"))
      \cup When(\E i \in DOMAIN dists : ~KnownPath(plan, dists[i].path),
                Error("UNKNOWN_INPUT_PATH"))
      \cup When(dists = <<>>, Warning("MC_NO_DISTRIBUTIONS"))

ValidateSensitivity(plan) ==
  When(plan.risk.deltaPct < 0, Error("OUT_OF_RANGE"))
  \cup When(\E i \in DOMAIN plan.risk.paths : ~KnownPath(plan, plan.risk.paths[i]),
            Error("UNKNOWN_INPUT_PATH"))

ValidateRisk(plan) ==
  (IF plan.risk.monteCarlo THEN ValidateMonteCarlo(plan) ELSE {})
  \cup (IF plan.risk.sensitivity THEN ValidateSensitivity(plan) ELSE {})

-----------------------------------------------------------------------------
(***************************************************************************)
(* Monte Carlo: one value of each distribution, written in their order     *)
(* into a copy of the plan.                                                *)
(***************************************************************************)
Draws(plan) ==
  LET dists == plan.risk.dists
  IN  {values \in [DOMAIN dists -> UNION {dists[k].support : k \in DOMAIN dists}] :
         \A k \in DOMAIN dists : values[k] \in dists[k].support}

DrawPlan(plan, values) ==
  LET dists == plan.risk.dists
      trial[k \in 0 .. Len(dists)] ==
        IF k = 0 THEN plan
        ELSE SetNumeric(trial[k - 1], dists[k].path,
                        ClampToDomain(dists[k].path, values[k]))
  IN  trial[Len(dists)]

-----------------------------------------------------------------------------
(***************************************************************************)
(* Statistics of a sorted sample: quantiles interpolated between two       *)
(* neighbours (in hundredths), the counts of twenty bins over its range.   *)
(***************************************************************************)
HistBins == 20

SortedValues(xs) ==
  LET Before(i, j) == xs[i] < xs[j] \/ (xs[i] = xs[j] /\ i < j)
      order == Ranking([i \in DOMAIN xs |-> {j \in DOMAIN xs : Before(j, i)}])
  IN  [r \in DOMAIN order |-> xs[order[r]]]

Quantile(sorted, pct) ==
  LET pos == pct * (Len(sorted) - 1)
      lo  == pos \div 100
  IN  IF lo + 1 >= Len(sorted)
      THEN 100 * sorted[Len(sorted)]
      ELSE 100 * sorted[lo + 1] + (pos % 100) * (sorted[lo + 2] - sorted[lo + 1])

\* Slip: the largest sample falls past the last bin.
BinOpenTop(x, lo, hi) == (HistBins * (x - lo)) \div (hi - lo) + 1

\* The top bin is closed, so that the maximum is counted.
BinOf(x, lo, hi) == AtMost(HistBins, (HistBins * (x - lo)) \div (hi - lo) + 1)

Histogram(sorted) ==
  LET lo == sorted[1]
      hi == AtLeast(sorted[Len(sorted)], lo + 1)
  IN  [bin \in 1 .. HistBins |->
         Cardinality({i \in DOMAIN sorted : BinOf(sorted[i], lo, hi) = bin})]

Summarize(xs) ==
  LET sorted == SortedValues(xs)
  IN  [p10 |-> Quantile(sorted, 10), p50 |-> Quantile(sorted, 50),
       p90 |-> Quantile(sorted, 90), histogram |-> Histogram(sorted)]

\* samples are the summaries of the iterations the core accepted.
RiskMetrics == {"lcoc", "npv", "totalCapex", "captured"}

MonteCarloReport(plan, samples) ==
  [iterations |-> plan.risk.iterations,
   metrics    |-> [metric \in IF samples = <<>> THEN {} ELSE RiskMetrics |->
                     Summarize([i \in DOMAIN samples |-> samples[i][metric]])]]

-----------------------------------------------------------------------------
(***************************************************************************)
(* Sensitivity: each path at base x (1 -/+ delta), one at a time; a path   *)
(* either of whose plans the core rejects is skipped with a warning.  The  *)
(* variables of a target metric are ordered by their swing.                *)
(***************************************************************************)
DeltaPct(plan) == IF plan.risk.deltaPct = 0 THEN 10 ELSE plan.risk.deltaPct

Perturbed(plan, path, pct) ==
  Analyze(SetNumeric(plan, path, (GetNumeric(plan, path) * pct) \div 100))

Outcomes(plan, i) ==
  LET path == plan.risk.paths[i]
  IN  [low  |-> Perturbed(plan, path, 100 - DeltaPct(plan)),
       high |-> Perturbed(plan, path, 100 + DeltaPct(plan))]

Swing(var) == AtLeast(var.high - var.low, var.low - var.high)

\* The variables of one target metric.
Tornado(paths, base, outcome, kept, metric) ==
  LET Var(i) == [path |-> paths[i], metric |-> metric, base |-> base[metric],
                 low  |-> outcome[i].low.summary[metric],
                 high |-> outcome[i].high.summary[metric]]
      Before(i, j) == \/ Swing(Var(i)) > Swing(Var(j))
                      \/ Swing(Var(i)) = Swing(Var(j)) /\ i < j
      order == Ranking([i \in kept |-> {j \in kept : Before(j, i)}])
  IN  [r \in DOMAIN order |-> Var(order[r])]

Tornados(paths, base, outcome) ==
  LET kept == {i \in DOMAIN paths :
                 "INVALID_INPUT" \notin {outcome[i].low.status, outcome[i].high.status}}
  IN  [vars  |-> Tornado(paths, base, outcome, kept, "lcoc")
                 \o Tornado(paths, base, outcome, kept, "npv"),
       notes |-> When(kept # DOMAIN paths, Warning("SENSITIVITY_INVALID_DRAW"))]

SensitivityReport(plan, base) ==
  Tornados(plan.risk.paths, base, [i \in DOMAIN plan.risk.paths |-> Outcomes(plan, i)])
=============================================================================
