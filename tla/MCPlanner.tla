----------------------------- MODULE MCPlanner -----------------------------
(***************************************************************************)
(* The calls TLC makes: a reference plan and the plans that differ from it *)
(* in what one branch of the engine looks at.                              *)
(***************************************************************************)
EXTENDS Planner

Source(id, type, capacity, available, cost, lead) ==
  [id |-> id, type |-> type, capacity |-> capacity, available |-> available,
   cost |-> cost, capex |-> 2, lead |-> lead]

Grid    == Source(1, "GRID", 4000, 6, 2, 6)
Turbine == Source(2, "TURBINE", 3000, 3, 4, 12)
Battery == Source(3, "BESS", 1000, 0, 0, 0)

Phase(id, kw, energize, source) ==
  [id |-> id, kw |-> kw, start |-> 0, energize |-> energize, source |-> source,
   cooling |-> "UNSET", footprint |-> 0]

BasePolicy ==
  [maxPhases |-> 2, minKw |-> 1000, maxKw |-> 4000, minMonths |-> 3, maxShortfall |-> 0]

NoRisk ==
  [monteCarlo |-> FALSE, iterations |-> 3, dists |-> <<>>,
   sensitivity |-> FALSE, deltaPct |-> 0, paths |-> <<>>]

BasePlan ==
  [mode   |-> "RUN_ANALYZE",
   unset  |-> {},
   site   |-> [land |-> 30000, usable |-> 20000, floor |-> 300, water |-> 20],
   compute |-> [kwPerRack |-> 100, gpusPerRack |-> 8, target |-> 4000, pue |-> 125,
                cooling |-> "LIQUID_DTC"],
   sources |-> <<Grid, Turbine>>,
   gridEnergize |-> 9,
   demand |-> <<[month |-> 4, kw |-> 1000], [month |-> 16, kw |-> 4000]>>,
   costs  |-> [shell |-> 4, elec |-> 3, cool |-> 3, network |-> 1, land |-> 1,
               agilityPct |-> 10, gpuCost |-> 10, residual |-> <<80, 50>>,
               depreciationYears |-> 4, staffing |-> 12, maintenancePct |-> 6,
               insurancePct |-> 6, mgmtPct |-> 10, tax |-> 1200, growthPct |-> 0],
   revenue |-> [mode |-> "COLO_LEASE", rate |-> 10, vacancy |-> 10, escalation |-> 0,
                utilization |-> 80, price |-> 50],
   hold |-> 24,
   exitCapPct |-> 0,
   phasing |-> [mode |-> "SINGLE_SHOT", phases |-> <<>>, policy |-> BasePolicy],
   objective |-> "UNSET",
   decisionVars |-> FALSE,
   constraints |-> <<>>,
   risk |-> NoRisk]

Sales == [BasePlan EXCEPT !.revenue.mode = "COMPUTE_SALES"]

WithPhases(phases) ==
  [BasePlan EXCEPT !.phasing.mode = "EXPLICIT", !.phasing.phases = phases]

Staged == <<Phase(1, 2000, 9, 1), Phase(2, 2000, 12, 0)>>
StagedPlan == WithPhases(Staged)

-----------------------------------------------------------------------------
\* Two-phase timelines around what the sources can carry, and when.
Timelines ==
  {WithPhases(<<Phase(1, kw1, e1, s1), Phase(2, kw2, e2, s2)>>) :
     kw1 \in {2000, 3000}, kw2 \in {1000, 3000}, e1 \in {3, 9}, e2 \in {8, 9, 30},
     s1 \in {0, 2}, s2 \in {0, 1, 7}}

Refused ==
  {[BasePlan EXCEPT !.mode = "RUN_OPTIMIZE"],
   [BasePlan EXCEPT !.unset = {"site"}],
   [BasePlan EXCEPT !.unset = {"COLO_LEASE"}],
   [BasePlan EXCEPT !.sources = <<>>],
   [BasePlan EXCEPT !.sources = <<Turbine, Turbine>>],
   [BasePlan EXCEPT !.demand[2].month = 4],
   [BasePlan EXCEPT !.site.usable = 31000],
   [BasePlan EXCEPT !.site.usable = 11000],
   [BasePlan EXCEPT !.site.floor = 200],
   [BasePlan EXCEPT !.compute.kwPerRack = 200],
   [BasePlan EXCEPT !.compute.cooling = "UNSET"],
   [BasePlan EXCEPT !.compute.target = 6000],
   [BasePlan EXCEPT !.costs.residual = <<120>>],
   [BasePlan EXCEPT !.hold = 0],
   [BasePlan EXCEPT !.revenue.vacancy = 101],
   [Sales EXCEPT !.revenue.utilization = 0],
   WithPhases(<<>>),
   WithPhases(<<Phase(0, 4000, 9, 0)>>),
   WithPhases(<<[Phase(1, 4000, 9, 0) EXCEPT !.start = 10]>>),
   WithPhases(<<Phase(1, 2000, 12, 1), Phase(2, 2000, 9, 0)>>),
   WithPhases(<<Phase(1, 2000, 9, 1), [Phase(2, 2000, 12, 0) EXCEPT !.cooling = "AIR"]>>)}

Accepted ==
  {BasePlan, StagedPlan, Sales,
   [BasePlan EXCEPT !.sources = <<Grid, Turbine, Battery>>],
   [BasePlan EXCEPT !.exitCapPct = 10],
   [BasePlan EXCEPT !.hold = 12],
   [BasePlan EXCEPT !.revenue.escalation = 100, !.costs.growthPct = 100, !.hold = 30],
   [BasePlan EXCEPT !.compute.target = 3950],
   [BasePlan EXCEPT !.site.floor = 200, !.compute.kwPerRack = 40,
                    !.compute.cooling = "AIR", !.compute.target = 2000],
   [Sales EXCEPT !.costs.residual = <<>>],
   WithPhases(<<Phase(1, 2000, 9, 1), [Phase(2, 2000, 12, 0) EXCEPT !.cooling = "IMMERSION",
                                                                    !.footprint = 500]>>)}

-----------------------------------------------------------------------------
Scalar(field) == [field |-> field, index |-> 0]
Month(i)      == [field |-> "available_month", index |-> i]

Distribution(path, support) == [path |-> path, valid |-> TRUE, support |-> support]

MonteCarlo(plan, dists) ==
  [plan EXCEPT !.risk = [NoRisk EXCEPT !.monteCarlo = TRUE, !.dists = dists]]

Sensitive(plan, paths) ==
  [plan EXCEPT !.risk = [NoRisk EXCEPT !.sensitivity = TRUE, !.paths = paths]]

RiskPlans ==
  {MonteCarlo(Sales, <<Distribution(Scalar("gpu_hour_price"), {-100, 300, 500, 520})>>),
   MonteCarlo(Sales, <<Distribution(Scalar("utilization_pct"), {-10, 790, 1010})>>),
   MonteCarlo(Sales, <<Distribution(Scalar("utilizationPct"), {790, 1010})>>),
   MonteCarlo(BasePlan, <<Distribution(Month(2), {-6, 34, 65}),
                          Distribution(Scalar("target_it_load"), {30000, 50000})>>),
   MonteCarlo(BasePlan, <<>>),
   MonteCarlo(BasePlan, <<Distribution(Month(3), {30})>>),
   MonteCarlo(BasePlan, <<[Distribution(Month(1), {}) EXCEPT !.valid = FALSE]>>),
   [MonteCarlo(BasePlan, <<>>) EXCEPT !.risk.iterations = 0],
   Sensitive(Sales, <<Scalar("utilization_pct"), Scalar("gpu_hour_price"), Month(1)>>),
   Sensitive([Sales EXCEPT !.revenue.utilization = 95],
             <<Scalar("utilization_pct"), Scalar("gpu_hour_price")>>),
   Sensitive(BasePlan, <<Month(5)>>),
   [Sensitive(BasePlan, <<>>) EXCEPT !.risk.deltaPct = -1],
   [MonteCarlo(Sales, <<Distribution(Scalar("exit_cap_rate"), {-10, 100})>>)
      EXCEPT !.risk.sensitivity = TRUE, !.risk.paths = <<Scalar("gpu_hour_price")>>]}

-----------------------------------------------------------------------------
Designed(sources) == [BasePlan EXCEPT !.mode = "RUN_OPTIMIZE", !.phasing.mode = "OPTIMIZE",
                                      !.sources = sources]

\* Either source carries the whole target, or only the two together do.
Ample == <<[Grid EXCEPT !.capacity = 5000], [Turbine EXCEPT !.capacity = 5000]>>

OptimizePlan == Designed(Ample)
TightPlan    == Designed(<<Grid, Turbine>>)

Bound(metric, op, value) == [metric |-> metric, op |-> op, value |-> value]

Constrained(cons) == [OptimizePlan EXCEPT !.constraints = cons]

Under(maxPhases, minKw, maxKw, minMonths) ==
  [OptimizePlan EXCEPT !.phasing.policy =
     [maxPhases |-> maxPhases, minKw |-> minKw, maxKw |-> maxKw,
      minMonths |-> minMonths, maxShortfall |-> 0]]

\* More source assignments than are enumerated, more moves than the budget pays for.
LargePlan ==
  [Designed(<<Grid, Turbine, [Turbine EXCEPT !.id = 4, !.available = 15, !.capacity = 7000]>>)
     EXCEPT !.compute.target = 8000, !.site.usable = 28000, !.hold = 36,
            !.demand[2].kw = 7000,
            !.phasing.policy = [BasePolicy EXCEPT !.maxPhases = 6, !.minMonths = 2]]

Searched ==
  {OptimizePlan, LargePlan,
   [OptimizePlan EXCEPT !.objective = "MIN_LCOC", !.decisionVars = TRUE],
   [OptimizePlan EXCEPT !.objective = "MIN_TIME_TO_REVENUE"],
   [OptimizePlan EXCEPT !.objective = "MAX_MW_CAPTURED", !.sources = <<Turbine, Grid, Battery>>,
                        !.phasing.policy.maxPhases = 3],
   [OptimizePlan EXCEPT !.revenue.mode = "COMPUTE_SALES"],
   [OptimizePlan EXCEPT !.phasing.policy.maxShortfall = 1000],
   TightPlan,
   [TightPlan EXCEPT !.objective = "MIN_TIME_TO_REVENUE"],
   \* Whole racks ask for more land, or more power, than the phases do.
   [Under(2, 1000, 3000, 3) EXCEPT !.compute.kwPerRack = 130, !.site.usable = 9400],
   [OptimizePlan EXCEPT !.compute.kwPerRack = 130, !.sources[1].capacity = 2500],
   Constrained(<<Bound("shortfall_mw_months", "LE", 9000),
                 Bound("time_to_energize_months", "GE", 6)>>),
   Constrained(<<Bound("npv", "GE", 900000), Bound("mw_online_final", "EQ", 4000)>>),
   Under(3, 1000, 2000, 2),
   Under(2, 2000, 3000, 6),
   Under(1, 1000, 3000, 0),
   Under(3, 1000, 1000, 0)}

SearchRefused ==
  {BasePlan,
   [OptimizePlan EXCEPT !.unset = {"policy"}],
   [OptimizePlan EXCEPT !.phasing.policy.maxPhases = 9],
   [OptimizePlan EXCEPT !.compute.target = 8000],
   Constrained(<<Bound("speed", "LE", 1)>>),
   Constrained(<<Bound("npv", "UNSET", 1)>>)}

Ask(op, plan) == [op |-> op, wellFormed |-> TRUE, plan |-> plan]

Calls ==
  {Ask("analyze", plan) : plan \in Timelines \cup Refused \cup Accepted \cup RiskPlans}
  \cup {Ask("optimize", plan) : plan \in Searched \cup SearchRefused}
  \cup {Ask("explain", BasePlan), [Ask("analyze", BasePlan) EXCEPT !.wellFormed = FALSE]}
=============================================================================
