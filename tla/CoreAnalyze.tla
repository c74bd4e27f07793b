---------------------------- MODULE CoreAnalyze ----------------------------
(***************************************************************************)
(* core.Analyze: engine/core/validate.go, conserve.go, analyze.go and      *)
(* diag.go.  A pure function from a plan to a Result, as an operator.      *)
(*                                                                         *)
(* A diagnostic is its severity and code; paths, wording and the order of  *)
(* emission are left out, so the diagnostics of a Result are a set.        *)
(* plan.unset names the blocks of the proto that are absent: their getters *)
(* return zero values, which is what the other fields of the plan hold.    *)
(* Eleven of the fourteen checks of conserve.go are carried.  Left out are *)
(* capital_uses_eq_sources, whose residual is 0 by the code (equity is the *)
(* total), and land_footprint_le_parcel and blocks_within_parcel, about    *)
(* the drawn schematic: a candidate that fails one of these two is invalid *)
(* to the optimizer (phasing.go:177), here it is not.                      *)
(***************************************************************************)
EXTENDS CoreLedger

Error(code)   == [severity |-> "ERROR", code |-> code]
Warning(code) == [severity |-> "WARNING", code |-> code]
Info(code)    == [severity |-> "INFO", code |-> code]

When(condition, diagnostic) == IF condition THEN {diagnostic} ELSE {}

HasErrors(diags) == \E d \in diags : d.severity = "ERROR"

StatusOf(diags) ==
  LET Has(severity) == \E d \in diags : d.severity = severity
  IN  CASE HasErrors(diags)                      -> "INVALID_INPUT"
        [] ~HasErrors(diags) /\ Has("WARNING")   -> "OK_WITH_WARNINGS"
        [] OTHER                                 -> "OK"

Percents == 0 .. 100

-----------------------------------------------------------------------------
(***************************************************************************)
(* validateStructure: blocks that are missing, values out of range.        *)
(***************************************************************************)
MissingRequired(plan) ==
  \/ {"site", "compute", "costs", "finance"} \cap plan.unset # {}
  \/ "gpu" \in plan.unset
  \/ plan.compute.cooling = "UNSET"
  \/ plan.sources = <<>>
  \/ \E i \in DOMAIN plan.sources : plan.sources[i].id = 0 \/ plan.sources[i].type = "UNSET"
  \/ plan.demand = <<>>
  \/ plan.revenue.mode \notin {"COLO_LEASE", "COMPUTE_SALES"} \ plan.unset
  \/ plan.phasing.mode = "UNSET"
  \/ /\ plan.phasing.mode = "EXPLICIT"
     /\ \/ plan.phasing.phases = <<>>
        \/ \E k \in DOMAIN plan.phasing.phases : plan.phasing.phases[k].id = 0

SiteInRange(site) ==
  /\ site.land > 0 /\ site.usable > 0 /\ site.floor > 0
  /\ site.usable <= site.land
  /\ site.water \in Percents

ComputeInRange(compute) ==
  /\ compute.gpusPerRack > 0 /\ compute.kwPerRack > 0 /\ compute.target > 0
  /\ compute.pue >= 100

SourcesInRange(plan) ==
  /\ \A i \in DOMAIN plan.sources :
       LET s == plan.sources[i]
       IN  /\ s.capacity > 0
           /\ s.available >= 0 /\ s.cost >= 0 /\ s.capex >= 0 /\ s.lead >= 0
           /\ \A j \in 1 .. i - 1 : s.id # 0 => plan.sources[j].id # s.id
  /\ plan.gridEnergize >= 0

DemandInRange(points) ==
  \A i \in DOMAIN points :
    /\ points[i].kw >= 0
    /\ points[i].month > (IF i = 1 THEN -1 ELSE points[i - 1].month)

CostsInRange(costs) ==
  /\ \A amount \in {costs.shell, costs.elec, costs.cool, costs.network,
                    costs.land, costs.staffing, costs.tax} : amount >= 0
  /\ {costs.agilityPct, costs.maintenancePct, costs.insurancePct,
      costs.mgmtPct, costs.growthPct} \subseteq Percents

GpuInRange(costs) ==
  /\ costs.gpuCost >= 0
  /\ costs.depreciationYears > 0
  /\ \A i \in DOMAIN costs.residual : costs.residual[i] \in Percents

RevenueInRange(r) ==
  /\ r.mode = "COLO_LEASE" =>
       r.rate > 0 /\ {r.escalation, r.vacancy} \subseteq Percents
  /\ r.mode = "COMPUTE_SALES" =>
       r.price > 0 /\ r.utilization \in Percents \ {0}

FinanceInRange(plan) == plan.hold \in 1 .. 600 /\ plan.exitCapPct \in Percents

PhasesInRange(phasing) ==
  phasing.mode = "EXPLICIT" =>
    \A k \in DOMAIN phasing.phases :
      LET ph == phasing.phases[k]
      IN  /\ ph.kw > 0 /\ ph.start >= 0 /\ ph.footprint >= 0
          /\ ph.energize >= ph.start

\* A block that is absent is reported as missing and not looked into.
OutOfRange(plan) ==
  \/ "site" \notin plan.unset /\ ~SiteInRange(plan.site)
  \/ "compute" \notin plan.unset /\ ~ComputeInRange(plan.compute)
  \/ plan.sources # <<>> /\ ~SourcesInRange(plan)
  \/ ~DemandInRange(plan.demand)
  \/ /\ "costs" \notin plan.unset
     /\ (~CostsInRange(plan.costs) \/ ("gpu" \notin plan.unset /\ ~GpuInRange(plan.costs)))
  \/ plan.revenue.mode \notin plan.unset /\ ~RevenueInRange(plan.revenue)
  \/ "finance" \notin plan.unset /\ ~FinanceInRange(plan)
  \/ ~PhasesInRange(plan.phasing)

ValidateStructure(plan) ==
  When(plan.mode = "RUN_OPTIMIZE" \/ plan.phasing.mode = "OPTIMIZE",
       Error("USE_OPTIMIZE"))
  \cup When(MissingRequired(plan), Error("MISSING_REQUIRED"))
  \cup When(OutOfRange(plan), Error("OUT_OF_RANGE"))

-----------------------------------------------------------------------------
(***************************************************************************)
(* The semantic checks, made only of a plan whose structure is clean.      *)
(***************************************************************************)
ValidateDensity(plan, cooling) ==
  LET kwPerRack == plan.compute.kwPerRack
      need == Max({RequiredFloorLoadPsf(cooling),
                   RequiredFloorLoadPsf(RequiredCooling(kwPerRack))})
  IN  When(kwPerRack > CoolingCeilingKw(cooling), Error("DENSITY_EXCEEDS_COOLING"))
      \cup When(plan.site.floor < need, Error("FLOOR_LOAD_INSUFFICIENT"))

ValidateFootprint(plan, footprint) ==
  When(footprint > plan.site.usable, Error("FOOTPRINT_OVER_PARCEL"))

ValidateSingleShot(plan, srcs) ==
  LET target == plan.compute.target
  IN  When(MonthsCovering(srcs, target * plan.compute.pue, plan.hold) = {},
           Error("POWER_UNDERSUPPLY"))
      \cup ValidateFootprint(plan,
             SizePhase(target, plan.compute, plan.compute.cooling).footprint)

RequestedLoad(plan, k) == plan.phasing.phases[k].kw * plan.compute.pue

PooledLoad(plan, k) == SumFunction([j \in 1 .. k |-> RequestedLoad(plan, j)])

NamedSupply(source, energize, load) ==
  IF energize < source.ready
  THEN {Error("PHASE_BEFORE_POWER")}
  ELSE When(load > 100 * source.capacity, Error("SOURCE_OVERLOADED"))

\* The named source is looked at until the first problem; the pooled supply always.
\* Both loads are what the phases ask for, not what whole racks make of it.
ValidatePhasePower(plan, srcs, k) ==
  LET phases     == plan.phasing.phases
      ph         == phases[k]
      sharing    == {j \in 1 .. k : phases[j].source = ph.source}
      sourceLoad == SumFunction([j \in sharing |-> RequestedLoad(plan, j)])
      named ==
        CASE ph.source = 0 -> {}
          [] ph.source # 0 /\ SourcesNamed(srcs, ph.source) = {} ->
               {Error("UNKNOWN_POWER_SOURCE")}
          [] OTHER -> NamedSupply(SourceNamed(srcs, ph.source), ph.energize, sourceLoad)
  IN  named \cup When(100 * FirmSupplyAt(srcs, ph.energize) < PooledLoad(plan, k),
                      Error("POWER_UNDERSUPPLY"))

PhaseFootprint(plan, ph) ==
  IF ph.footprint > 0 THEN ph.footprint
  ELSE SizePhase(ph.kw, plan.compute, plan.compute.cooling).footprint

ValidateExplicit(plan, srcs) ==
  LET phases == plan.phasing.phases
      ks     == DOMAIN phases
      Previous(k) == IF k = 1 THEN 0 ELSE phases[k - 1].energize
  IN  (UNION {ValidatePhasePower(plan, srcs, k) : k \in ks})
      \cup (UNION {ValidateDensity(plan, phases[k].cooling) :
                     k \in {j \in ks : phases[j].cooling \notin
                                         {"UNSET", plan.compute.cooling}}})
      \cup When(\E k \in ks : phases[k].energize < Previous(k), Error("OUT_OF_RANGE"))
      \cup ValidateFootprint(plan,
             SumFunction([k \in ks |-> PhaseFootprint(plan, phases[k])]))
      \cup When(SumFunction([k \in ks |-> phases[k].kw]) # plan.compute.target,
                Warning("PHASES_NE_TARGET"))

Validate(plan) ==
  LET structure == ValidateStructure(plan)
      srcs      == NewSources(plan)
  IN  IF HasErrors(structure) THEN structure
      ELSE ValidateDensity(plan, plan.compute.cooling)
           \cup IF plan.phasing.mode = "SINGLE_SHOT"
                THEN ValidateSingleShot(plan, srcs)
                ELSE ValidateExplicit(plan, srcs)

-----------------------------------------------------------------------------
(***************************************************************************)
(* conserve: the names of the checks that fail.                            *)
(***************************************************************************)
TotalOf(phases, part) == SumFunction([k \in DOMAIN phases |-> phases[k].size[part]])

FailedChecks(plan, m) ==
  LET phases == m.phases
      grid   == 0 .. plan.hold - 1
      itKw   == TotalOf(phases, "itKw")
      total  == m.summary.totalCapex
      online == [t \in grid |-> OnlineItKw(phases, t)]
      Passed(name) ==
        CASE name = "capital_components_sum" -> SumFunction(ByComponent(m.lines)) = total
          [] name = "capital_phases_sum" -> SumFunction(ByPhase(m.lines)) = total
          [] name = "whitespace_le_gross" ->
               TotalOf(phases, "whitespace") <= TotalOf(phases, "gross")
          [] name = "power_load_eq_racks" ->
               itKw = TotalOf(phases, "racks") * plan.compute.kwPerRack
          [] name = "facility_power_pue" ->
               TotalOf(phases, "facility") = itKw * plan.compute.pue
          [] name = "power_supply_ge_demand_t" ->
               \A t \in grid : online[t] * plan.compute.pue <= 100 * FirmSupplyAt(m.srcs, t)
          [] name = "cooling_ge_heat" ->
               TotalOf(phases, "heatKw") <= TotalOf(phases, "coolingKw")
          [] name = "schedule_energize_consistency" ->
               /\ \A k \in DOMAIN phases : phases[k].energize =
                    AtLeast(phases[k].powerReady, phases[k].constructionReady)
               /\ \A t \in grid : t < m.summary.timeToEnergize => m.revenue[t] = 0
          [] name = "phase_precedence" ->
               \A k \in DOMAIN phases :
                 /\ phases[k].energize >= phases[k].start
                 /\ k > 1 => phases[k].energize >= phases[k - 1].energize
          [] name = "mw_online_monotonic" ->
               /\ \A t \in grid \ {0} : online[t - 1] <= online[t]
               /\ online[plan.hold - 1] <= itKw
          [] name = "demand_capture_identity" ->
               m.summary.captured \in 0 .. m.summary.demand
  IN  {name \in {"capital_components_sum", "capital_phases_sum", "whitespace_le_gross",
                 "power_load_eq_racks", "facility_power_pue", "power_supply_ge_demand_t",
                 "cooling_ge_heat", "schedule_energize_consistency", "phase_precedence",
                 "mw_online_monotonic", "demand_capture_identity"} : ~Passed(name)}

-----------------------------------------------------------------------------
(***************************************************************************)
(* Analyze: an ERROR of the validation short-circuits; otherwise the whole *)
(* pipeline runs and a failed check downgrades the status.                 *)
(***************************************************************************)
NoSummary ==
  [totalCapex |-> 0, npv |-> 0, lcoc |-> 0, timeToEnergize |-> 0, kwOnlineFinal |-> 0,
   demand |-> 0, captured |-> 0, stranded |-> 0, shortfall |-> 0]

BuildNotes(plan, m) ==
  When(\E i \in DOMAIN m.srcs : ~m.srcs[i].firm, Info("STORAGE_NOT_FIRM"))
  \cup When(\E k \in DOMAIN m.phases : m.phases[k].energize >= plan.hold,
            Warning("ENERGIZE_AFTER_HOLD"))
  \cup When(plan.revenue.mode = "COLO_LEASE" /\ plan.exitCapPct <= 0,
            Info("EXIT_CAP_RATE_UNSET"))

Checked(plan, diags, m, failed) ==
  LET all == diags \cup BuildNotes(plan, m)
                   \cup When(failed # {}, Warning("CONSERVATION_FAILED"))
  IN  [status |-> StatusOf(all), diags |-> all, summary |-> m.summary,
       failed |-> failed, allPassed |-> failed = {}]

Analyzed(plan, diags) ==
  LET CheckedModel(m) == Checked(plan, diags, m, FailedChecks(plan, m))
  IN  IF HasErrors(diags)
      THEN [status |-> "INVALID_INPUT", diags |-> diags, summary |-> NoSummary,
            failed |-> {}, allPassed |-> FALSE]
      ELSE CheckedModel(Build(plan))

Analyze(plan) == Analyzed(plan, Validate(plan))

(***************************************************************************)
(* The validation looks at the loads a plan asks for, SINGLE_SHOT          *)
(* (validate.go:238) or phase by phase (:261), the schedule at what whole  *)
(* racks make of them (schedule.go:104, :124).  The two agree when:        *)
(***************************************************************************)
AskedLoads(plan) ==
  IF plan.phasing.mode = "SINGLE_SHOT" THEN {plan.compute.target}
  ELSE {plan.phasing.phases[k].kw : k \in DOMAIN plan.phasing.phases}

WholeRacks(plan) == \A kw \in AskedLoads(plan) : kw % plan.compute.kwPerRack = 0
=============================================================================
