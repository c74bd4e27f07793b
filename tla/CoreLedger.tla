----------------------------- MODULE CoreLedger -----------------------------
(***************************************************************************)
(* The money of one analysis: engine/core/capex.go, revenue.go, opex.go,   *)
(* cashflow.go and the exit value and summary of metrics.go.  Pure         *)
(* definitions over a plan, its sources and its scheduled phases.          *)
(*                                                                         *)
(* Amounts are whole dollars.  Prices are per kW or per GPU and month (the *)
(* 730 hours of a month are in the price); rates that compound are 0 or    *)
(* 100 percent a year, the continuous price decay and the discount rate    *)
(* are 0: the present values are then plain sums.  IRR, yield, breakeven   *)
(* and the composite risk score are not carried.                           *)
(***************************************************************************)
EXTENDS CoreModel

SumAmounts(lines) == SumFunction([line \in lines |-> line.amount])

-----------------------------------------------------------------------------
(***************************************************************************)
(* Capex lines: which component, for what (a phase, or a source), carried  *)
(* by which phase, and the month it is paid.                               *)
(***************************************************************************)
FacilityLines(plan, phases, k) ==
  LET phase == phases[k]
      c     == plan.costs
      Line(component, amount) ==
        [component |-> component, of |-> k, phase |-> phase.id,
         month |-> phase.start, amount |-> amount]
      shell == c.shell * phase.size.itKw
      elec  == c.elec * phase.size.itKw
      cool  == c.cool * phase.size.itKw
  IN  {Line("shell", shell), Line("electrical", elec), Line("cooling", cool),
       Line("network", c.network * phase.size.itKw),
       Line("agility_premium",
            IF phase.agility THEN ((shell + elec + cool) * c.agilityPct) \div 100
                             ELSE 0)}

\* Only an operator that sells compute buys GPUs, and only for a phase that
\* energizes within the hold.
GpuLine(plan, phases, k) ==
  [component |-> "gpu", of |-> k, phase |-> phases[k].id,
   month |-> phases[k].energize,
   amount |-> IF plan.revenue.mode = "COMPUTE_SALES" /\ phases[k].energize < plan.hold
              THEN phases[k].size.gpus * plan.costs.gpuCost
              ELSE 0]

LandLine(plan, phases) ==
  [component |-> "land", of |-> 0, phase |-> phases[1].id, month |-> 0,
   amount |-> plan.site.land * plan.costs.land]

\* The first phase energizing at or after the source is ready, else the last.
PhaseUsingSource(phases, source) ==
  LET after == {k \in DOMAIN phases : phases[k].energize >= source.ready}
  IN  phases[IF after = {} THEN Len(phases) ELSE Min(after)]

PowerLine(phases, srcs, i) ==
  [component |-> "power_source", of |-> i,
   phase |-> PhaseUsingSource(phases, srcs[i]).id,
   month |-> AtLeast(0, srcs[i].ready - srcs[i].lead),
   amount |-> srcs[i].capex * srcs[i].capacity]

BuildCapex(plan, phases, srcs) ==
  {line \in (UNION {FacilityLines(plan, phases, k) : k \in DOMAIN phases})
            \cup {GpuLine(plan, phases, k) : k \in DOMAIN phases}
            \cup {LandLine(plan, phases)}
            \cup {PowerLine(phases, srcs, i) : i \in DOMAIN srcs} :
     line.amount > 0}

ByComponent(lines) ==
  [c \in {line.component : line \in lines} |->
     SumAmounts({line \in lines : line.component = c})]

ByPhase(lines) ==
  [p \in {line.phase : line \in lines} |->
     SumAmounts({line \in lines : line.phase = p})]

IsFacility(line) == line.component \notin {"gpu", "land"}

-----------------------------------------------------------------------------
(***************************************************************************)
(* Revenue of each energized phase in month t.                             *)
(***************************************************************************)
Compounded(pct, years) ==
  LET factor[y \in 0 .. years] == IF y = 0 THEN 1 ELSE factor[y - 1] * (1 + pct \div 100)
  IN  factor[years]

AnnualStep(pct, elapsed) == IF elapsed < 0 THEN 1 ELSE Compounded(pct, elapsed \div 12)

Revenue(plan, phases, t) ==
  LET r == plan.revenue
  IN  IF r.mode = "COMPUTE_SALES"
      THEN (OnlineGpus(phases, t) * r.utilization * r.price) \div 100
      ELSE SumFunction(
             [k \in Online(phases, t) |->
                (phases[k].size.itKw * (100 - r.vacancy) * r.rate
                  * AnnualStep(r.escalation, t - phases[k].energize)) \div 100])

\* GPU-months delivered in month t, in percent of a GPU.
Delivered(plan, phases, t) ==
  OnlineGpus(phases, t) * (IF plan.revenue.mode = "COMPUTE_SALES"
                           THEN plan.revenue.utilization
                           ELSE 100 - plan.revenue.vacancy)

-----------------------------------------------------------------------------
(***************************************************************************)
(* Energy is dispatched over the ready firm sources cheapest first, ties   *)
(* by id: a source carries what those before it left over.  The load is in *)
(* hundredths of a percent of a kW (kW x utilization x PUE).               *)
(***************************************************************************)
EnergyLoad(plan, itKw) ==
  itKw * plan.compute.pue
       * (IF plan.revenue.mode = "COMPUTE_SALES" THEN plan.revenue.utilization
                                                 ELSE 100)

Cheaper(srcs, i, j) ==
  \/ srcs[i].cost < srcs[j].cost
  \/ srcs[i].cost = srcs[j].cost /\ srcs[i].id < srcs[j].id

EnergyCost(srcs, load, t) ==
  LET ready   == {i \in DOMAIN srcs : srcs[i].firm /\ srcs[i].ready <= t}
      Before(i) == SumFunction([j \in {k \in ready : Cheaper(srcs, k, i)} |->
                                  10000 * srcs[j].capacity])
      Carried(i) == AtMost(AtLeast(load - Before(i), 0), 10000 * srcs[i].capacity)
  IN  SumFunction([i \in ready |-> (Carried(i) * srcs[i].cost) \div 10000])

(***************************************************************************)
(* The opex lines of month t: rates are in year-1-of-operations dollars    *)
(* and grow from the first energization; the fee follows the revenue.      *)
(***************************************************************************)
MgmtFee(plan, phases, t) == (Revenue(plan, phases, t) * plan.costs.mgmtPct) \div 100

Opex(plan, phases, lines, t) ==
  LET c        == plan.costs
      growth   == AnnualStep(c.growthPct, t - FirstEnergize(phases))
      facility == SumAmounts({l \in lines : IsFacility(l) /\ l.month <= t})
      staffing == (c.staffing * OnlineItKw(phases, t) * growth) \div 12
      upkeep   == (facility * (c.maintenancePct + c.insurancePct) * growth) \div 1200
      tax      == (c.tax * growth) \div 12
  IN  staffing + upkeep + tax + MgmtFee(plan, phases, t)

Power(plan, phases, srcs, t) ==
  EnergyCost(srcs, EnergyLoad(plan, OnlineItKw(phases, t)), t)
    * AnnualStep(plan.costs.growthPct, t - FirstEnergize(phases))

-----------------------------------------------------------------------------
(***************************************************************************)
(* The exit value, booked in the last month of the hold.                   *)
(***************************************************************************)
GpuResidualPct(costs, years) ==
  CASE years <= 0 -> 100
    [] years > 0 /\ costs.residual # <<>> ->
         costs.residual[AtMost(years, Len(costs.residual))]
    [] OTHER -> AtLeast(0, 100 - (100 * years) \div costs.depreciationYears)

ShellLifeMonths == 25 * 12

AssetResidual(plan, lines) ==
  LET Worth(l) ==
        CASE l.component = "gpu"  ->
               (l.amount * GpuResidualPct(plan.costs, (plan.hold - l.month) \div 12))
                 \div 100
          [] l.component = "land" -> l.amount
          [] OTHER -> (l.amount * AtLeast(0, ShellLifeMonths - (plan.hold - l.month)))
                        \div ShellLifeMonths
  IN  SumFunction([l \in {line \in lines : line.month < plan.hold} |-> Worth(l)])

\* net[t] is the operating income of month t; annualized over what is left of the
\* hold after the last energization, at most its final year.
ExitNoi(plan, phases, net) ==
  LET start == AtLeast(LastEnergize(phases), plan.hold - 12)
  IN  IF start >= plan.hold THEN 0
      ELSE (12 * SumFunction([t \in start .. plan.hold - 1 |-> net[t]]))
             \div (plan.hold - start)

ExitValue(plan, phases, lines, net) ==
  CASE plan.revenue.mode # "COLO_LEASE" \/ plan.exitCapPct <= 0 ->
         AssetResidual(plan, lines)
    [] OTHER ->
         AtLeast(0, (100 * ExitNoi(plan, phases, net)) \div plan.exitCapPct)

\* Lifecycle cost net of the exit value per delivered GPU-month, in dollars.
Lcoc(cost, delivered) == IF delivered <= 0 THEN 0 ELSE (100 * cost) \div delivered

-----------------------------------------------------------------------------
(***************************************************************************)
(* The model of one analysis: its ledger and the summary metrics.  Spend   *)
(* after the hold counts in total capex and is never paid.                 *)
(***************************************************************************)
Npv(plan, phases, lines, net) ==
  SumFunction(net)
    + ExitValue(plan, phases, lines, net)
    - SumAmounts({l \in lines : l.month < plan.hold})

SummaryOf(plan, phases, lines, revenue, npv, capture) ==
  LET grid == DOMAIN revenue
      cost == SumFunction(revenue) - npv
  IN  [totalCapex     |-> SumAmounts(lines),
       npv            |-> npv,
       lcoc           |-> Lcoc(cost, SumFunction([t \in grid |-> Delivered(plan, phases, t)])),
       timeToEnergize |-> FirstEnergize(phases),
       kwOnlineFinal  |-> OnlineItKw(phases, plan.hold - 1),
       demand         |-> capture.demand,
       captured       |-> capture.captured,
       stranded       |-> capture.stranded,
       shortfall      |-> capture.shortfall]

\* buildRevenue, buildOpex and buildCashflow over the months of the hold.
Ledger(plan, srcs, phases, lines) ==
  LET grid     == 0 .. plan.hold - 1
      Costs(t) == Opex(plan, phases, lines, t) + Power(plan, phases, srcs, t)
      revenue  == [t \in grid |-> Revenue(plan, phases, t)]
  IN  [srcs    |-> srcs,
       phases  |-> phases,
       lines   |-> lines,
       revenue |-> revenue,
       summary |-> SummaryOf(plan, phases, lines, revenue,
                     Npv(plan, phases, lines, [t \in grid |-> revenue[t] - Costs(t)]),
                     ComputeCapture(plan.demand, phases, plan.hold))]

Build(plan) ==
  LET srcs == NewSources(plan)
      LedgerOf(phases) == Ledger(plan, srcs, phases, BuildCapex(plan, phases, srcs))
  IN  LedgerOf(Schedule(plan, srcs))
=============================================================================
