----------------------------- MODULE CoreModel -----------------------------
(***************************************************************************)
(* What the analytical engine computes from a SitePlan before any money:   *)
(* engine/core/sizing.go, schedule.go and demand.go.  Pure definitions.    *)
(*                                                                         *)
(* Units.  Loads and capacities are in kW, areas in square feet, PUE and   *)
(* other rates in whole percent, so a facility load (IT load x PUE) is in  *)
(* hundredths of a kW.  Everything is exact, which is what the code's 1e-9 *)
(* and 1e-6 tolerances stand for.  The ids of sources and phases are       *)
(* numbers, 0 for the empty string.                                        *)
(***************************************************************************)
EXTENDS Integers, Sequences, FiniteSetsExt, Functions

ConstructionLeadMonths == 18

Cooling == {"AIR", "LIQUID_DTC", "IMMERSION"}

\* engine.proto: the fields of a decoded plan the engine looks at.  A message without a
\* branch of its own is flattened into the one that holds it.
SitePlan ==
  [mode : {"UNSET", "RUN_ANALYZE", "RUN_OPTIMIZE"}, unset : SUBSET STRING,
   site : [land : Int, usable : Int, floor : Int, water : Int],
   compute : [gpusPerRack : Int, kwPerRack : Int, target : Int, pue : Int,
              cooling : Cooling \cup {"UNSET"}],
   sources : Seq([id : Nat, type : STRING, capacity : Int, available : Int,
                  cost : Int, capex : Int, lead : Int]),
   gridEnergize : Int,
   phasing : [mode : {"UNSET", "SINGLE_SHOT", "EXPLICIT", "OPTIMIZE"},
              phases : Seq([id : Nat, kw : Int, start : Int, energize : Int,
                            source : Nat, cooling : Cooling \cup {"UNSET"}, footprint : Int]),
              policy : [maxPhases : Int, minKw : Int, maxKw : Int, minMonths : Int,
                        maxShortfall : Int]],
   demand : Seq([month : Int, kw : Int]),
   costs : [shell : Int, elec : Int, cool : Int, network : Int, land : Int,
            gpuCost : Int, depreciationYears : Int, residual : Seq(Int),
            staffing : Int, maintenancePct : Int, insurancePct : Int, mgmtPct : Int,
            tax : Int, growthPct : Int, agilityPct : Int],
   revenue : [mode : STRING, rate : Int, escalation : Int, vacancy : Int,
              price : Int, utilization : Int],
   hold : Int, exitCapPct : Int,
   objective : STRING, decisionVars : BOOLEAN,
   constraints : Seq([metric : STRING, op : STRING, value : Int]),
   risk : [monteCarlo : BOOLEAN, iterations : Int,
           dists : Seq([path : [field : STRING, index : Nat], valid : BOOLEAN,
                        support : SUBSET Int]),
           sensitivity : BOOLEAN, deltaPct : Int,
           paths : Seq([field : STRING, index : Nat])]]

AtLeast(x, lo) == Max({x, lo})
AtMost(x, hi)  == Min({x, hi})

\* sort: the elements of a set in order, from those that come before each of them.
Ranking(before) ==
  [r \in 1 .. Cardinality(DOMAIN before) |->
     CHOOSE i \in DOMAIN before : Cardinality(before[i]) + 1 = r]

-----------------------------------------------------------------------------
(***************************************************************************)
(* Sizing: racks are whole, so the sized load can exceed the request.      *)
(***************************************************************************)
CoolingCeilingKw(mode) ==
  CASE mode = "AIR"        -> 40
    [] mode = "LIQUID_DTC" -> 130
    [] mode = "IMMERSION"  -> 250
    [] OTHER               -> 0

RequiredCooling(kwPerRack) ==
  CASE kwPerRack <= 40         -> "AIR"
    [] kwPerRack \in 41 .. 130 -> "LIQUID_DTC"
    [] OTHER                   -> "IMMERSION"

RequiredFloorLoadPsf(mode) == IF mode = "AIR" THEN 150 ELSE 300

SizePhase(kw, compute, cooling) ==
  LET racks == (kw + compute.kwPerRack - 1) \div compute.kwPerRack
      itKw  == racks * compute.kwPerRack
  IN  [itKw       |-> itKw,
       facility   |-> itKw * compute.pue,
       racks      |-> racks,
       gpus       |-> racks * compute.gpusPerRack,
       heatKw     |-> itKw,
       coolingKw  |-> racks * CoolingCeilingKw(cooling),
       whitespace |-> racks * 40,
       gross      |-> racks * 100,
       footprint  |-> racks * 300]

-----------------------------------------------------------------------------
(***************************************************************************)
(* Power: a grid source waits for the interconnection; storage is not firm *)
(***************************************************************************)
NewSources(plan) ==
  [i \in DOMAIN plan.sources |->
     LET s == plan.sources[i]
     IN  [id       |-> s.id,
          type     |-> s.type,
          capacity |-> s.capacity,
          cost     |-> s.cost,
          capex    |-> s.capex,
          lead     |-> s.lead,
          ready    |-> IF s.type = "GRID"
                       THEN AtLeast(s.available, plan.gridEnergize)
                       ELSE s.available,
          firm     |-> s.type # "BESS"]]

FirmSupplyAt(srcs, t) ==
  SumFunction([i \in {j \in DOMAIN srcs : srcs[j].firm /\ srcs[j].ready <= t} |->
                 srcs[i].capacity])

MonthsCovering(srcs, facility, months) ==
  {t \in 0 .. months - 1 : 100 * FirmSupplyAt(srcs, t) >= facility}

\* The first month that covers the load, 0 when none does.
FirstMonthCovering(srcs, facility, months) ==
  LET covering == MonthsCovering(srcs, facility, months)
  IN  IF covering = {} THEN 0 ELSE Min(covering)

\* sourceIndex: of two sources with one id the later stays in the map.
SourcesNamed(srcs, id) == {i \in DOMAIN srcs : srcs[i].id = id}
SourceNamed(srcs, id)  == srcs[Max(SourcesNamed(srcs, id))]

-----------------------------------------------------------------------------
(***************************************************************************)
(* The schedule: one phase for SINGLE_SHOT, else the caller's timeline.    *)
(***************************************************************************)
NewPhase(plan, id, kw, cooling) ==
  LET size == SizePhase(kw, plan.compute, cooling)
  IN  [id        |-> id,
       cooling   |-> cooling,
       size      |-> size,
       footprint |-> size.footprint,
       agility   |-> cooling # "AIR" \/ plan.site.floor >= 300]

Scheduled(phase, start, constructionReady, powerReady) ==
  [id                |-> phase.id,
   size              |-> phase.size,
   footprint         |-> phase.footprint,
   agility           |-> phase.agility,
   start             |-> start,
   constructionReady |-> constructionReady,
   powerReady        |-> powerReady,
   energize          |-> AtLeast(powerReady, constructionReady)]

SingleShot(plan, srcs) ==
  LET phase == NewPhase(plan, 1, plan.compute.target, plan.compute.cooling)
  IN  Scheduled(phase, 0, ConstructionLeadMonths,
                FirstMonthCovering(srcs, phase.size.facility, plan.hold))

PhaseCooling(plan, in) ==
  IF in.cooling = "UNSET" THEN plan.compute.cooling ELSE in.cooling

\* A phase without a source of its own is powered when the pool carries it and all
\* phases before it.
Timeline(plan, srcs, ins, sized) ==
  LET CumLoad(k) == SumFunction([j \in 1 .. k |-> sized[j].size.facility])
  IN  [k \in DOMAIN ins |->
         Scheduled([sized[k] EXCEPT !.footprint =
                      IF ins[k].footprint > 0 THEN ins[k].footprint ELSE @],
                   ins[k].start, ins[k].energize,
                   IF ins[k].source # 0
                   THEN SourceNamed(srcs, ins[k].source).ready
                   ELSE FirstMonthCovering(srcs, CumLoad(k), plan.hold))]

Explicit(plan, srcs) ==
  LET ins == plan.phasing.phases
  IN  Timeline(plan, srcs, ins,
               [k \in DOMAIN ins |-> NewPhase(plan, ins[k].id, ins[k].kw,
                                             PhaseCooling(plan, ins[k]))])

Schedule(plan, srcs) ==
  IF plan.phasing.mode = "SINGLE_SHOT"
  THEN <<SingleShot(plan, srcs)>>
  ELSE Explicit(plan, srcs)

Online(phases, t) == {k \in DOMAIN phases : phases[k].energize <= t}

OnlineItKw(phases, t) ==
  SumFunction([k \in Online(phases, t) |-> phases[k].size.itKw])

OnlineGpus(phases, t) ==
  SumFunction([k \in Online(phases, t) |-> phases[k].size.gpus])

Energizes(phases)     == {phases[k].energize : k \in DOMAIN phases}
FirstEnergize(phases) == Min(Energizes(phases))
LastEnergize(phases)  == Max(Energizes(phases) \cup {0})

-----------------------------------------------------------------------------
(***************************************************************************)
(* Demand: linear between points, zero before the first, flat after the    *)
(* last (the ramps of the instances interpolate to whole kW), and the      *)
(* integrals behind demand capture, in kW-months.                          *)
(***************************************************************************)
DemandAt(points, month) ==
  LET next == {i \in 2 .. Len(points) :
                 points[1].month <= month /\ month <= points[i].month}
  IN  CASE Len(points) = 0 \/ month < points[1].month -> 0
        [] next # {} ->
             LET b == points[Min(next)]
                 a == points[Min(next) - 1]
             IN  a.kw + ((month - a.month) * (b.kw - a.kw))
                        \div (b.month - a.month)
        [] OTHER -> points[Len(points)].kw

Capture(demand, online) ==
  LET grid == DOMAIN demand
  IN  [demand    |-> SumFunction(demand),
       captured  |-> SumFunction([t \in grid |-> AtMost(demand[t], online[t])]),
       shortfall |-> SumFunction([t \in grid |-> AtLeast(demand[t] - online[t], 0)]),
       stranded  |-> SumFunction([t \in grid |-> AtLeast(online[t] - demand[t], 0)])]

ComputeCapture(points, phases, months) ==
  Capture([t \in 0 .. months - 1 |-> DemandAt(points, t)],
          [t \in 0 .. months - 1 |-> OnlineItKw(phases, t)])
=============================================================================
