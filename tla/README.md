# A verification development of ai-compute-planning

The repository is a planner for data-centre capacity: a browser application whose state changes only
through a command bus, a Go engine compiled to WebAssembly that analyses and optimizes plans in a Web
Worker, a Copilot that drives the same bus through tools, and a small Go server that hosts the
application and relays the Copilot's calls under a daily cap. This directory models the parts whose
correctness depends on *order* - who answers whom, what is on screen while an answer is on its way,
what is counted when - and the engine's own algorithms as far as integers carry them: validation,
sizing, the month schedule, the ledger with its conservation checks, the phasing search, the risk runs.

Everything is TLA+; TLC checks the instances in the `.cfg` files, TLAPS (`tlapm`) checks the modules
whose names end in `Proofs`.

## The system

Paths are relative to the repository's `web/src/` unless they start with `deploy/` or `engine/`.

| Component | State | Operations | Interacts with |
|---|---|---|---|
| Reducer `bus/reducer.ts`, `bus/types.ts` | plan, result, baseline, compare, proposals, error, undo and redo stacks | one per `Command` | called by the store only |
| Store `bus/store.ts` | newest request number, debounce timer, in-flight counters, busy flags, idle waiters | dispatch, proposeChange, optimize, whenIdle, dispose; timer and replies | calls the engine client; views, Copilot and harness are its three drivers |
| Engine client and worker `engine/client.ts`, `engine/engine.worker.ts`, `engine/protocol.ts` | pending map with a timer per call, next id; the worker's promise of a loaded module; two message queues | call, onmessage, onerror, timer, dispose; load, serve | store and Copilot call it; it runs the Go engine |
| Analysis tracker `copilot/analysis.ts` | dirty mark, last failure | settle; its store subscription | subscribes to the store; the tools wait for it |
| Copilot `copilot/client.ts`, `history.ts`, `tools.ts`, `CopilotRail.tsx` | transcript of the loaded plan, running turn, abort controller; stored transcripts | send, abort, clear, dispose; the tool loop, commit, load and trim | store (commands, subscription), relay, local storage, `session/reset.ts` |
| Session sharing `telemetry/share.ts`, `session.ts` | queue, sequence number, entries sent, switch, chain of flushes; session id | enqueue, drain, flush, setEnabled, dispose | subscribes to the store, posts to the server |
| Harness API `harness/install.ts` | none of its own | one per remote call | drives the store |
| Server `deploy/server/` | the daily cap's day and count; one goroutine per request | routing, relay, session sink, static files, start, drain | relays to the Anthropic API |
| Engine calls `engine/engine.go`, `engine/bridge`, `engine/wasm` | none between calls | analyze, optimize, decode failures, panics | the worker calls it; it calls the next three |
| Engine core `engine/core` | the model of one analysis | validate, size, schedule, build the ledger, check it | called once by analyze, hundreds of times by the next two |
| Phasing optimizer `engine/optimize` | evaluated candidates, memo, winner, budget | seeds, descent, result | scores candidates with `core.Analyze` |
| Risk analysis `engine/risk` | accepted and rejected samples | draws, statistics, sensitivity | perturbs plans, scores them with `core.Analyze` |

What is hard in them, and hard to reach with a test:

* **Store.** The number that decides whether a reply is stale is minted when a mutation is scheduled,
  the plan it stands for is read when the debounce fires, the reply comes whenever the engine or the
  call's timeout settles it, and edits, undo, reset, optimize and dispose happen in between.
* **Reducer.** Long legal sequences: proposals that outlive the plan they were made for, undo after
  accept, a baseline pinned half-way, reset with all of it pending.
* **Engine.** A reply races its own deadline; a worker crashes, hangs, or never loads.
* **Server.** Concurrent requests across midnight, a restart, a hanging upstream.
* **Tracker.** It compares object identities, so anything new on screen counts as the answer, also the
  Result of an optimization; it is re-created with each API key, over whatever is on screen then.
* **Copilot.** A turn outlives the plan, the API key, even the Copilot it started with, and commits when
  it ends; storage fails, tool JSON cannot be parsed, Stop comes between a tool call and its result.
* **Sharing.** The log is read when a flush runs, flushes are chained, posts are slow, the tester
  switches off and on again meanwhile.
* **Engine.** A budget that runs out in mid-stage, ties that could go round in circles, an incumbent
  that moves under the neighbour list, a load that validation and schedule compute differently.

`PROJECT.json` lists each hazard at its line with the properties that would catch it.

## Modules

| Module | Models | State and actions against the code |
|---|---|---|
| `Reducer` | `reduce` | The fields of `State` are the variables, each command is an action. A plan is the number of the clone `commitPlan` made, so `planChanged` (a comparison of references) is `plan' # plan`. Whether a patch applies is a Boolean parameter: paths and values are not carried. `select` only moves the UI's focus and is left out. |
| `Store` | `createStore` | Extends `Reducer`. An action is one JavaScript task: a dispatch, the debounce firing (`RunAnalyze`), an engine reply with its promise reactions (`Reply`). `calls` are the promises the engine has not settled, in any order. |
| `AnsweredView` | the contract stated above `createStore` | Abstract: a Result or an engine error appears only for the plan on screen at that moment. |
| `MCStore` | | Sets of driver operations for the three runs of the store alone. |
| `Engine` | client, worker and protocol | `pending` are the keys of the map, and a timer is armed for exactly these. `inbox` and `outbox` are the two message ports, `load` the promise `ready`. `Dispose` terminates the worker; `WorkerError` is `onerror`, after which a script that never ran is gone and one that has its handler goes on. |
| `EngineCalls` | the interface `Engine` of `client.ts` | Abstract: a call settles once, with its own answer or an error, in any order. |
| `Server` | `deploy/server` | One handler per request in three steps, because `take` reads the clock before it locks: `Arrive` (routing up to the clock), `Take` (the critical section), `UpstreamEnds` or `RelayTimeout`. `Start`, `Signal` and `Exit` are the process. |
| `Tracker`, `MCTracker` | `copilot/analysis.ts` over `Store` | Every step of the store that notifies is followed, in the same task, by the listener (`Observe`): `ResultMoved`, `ErrorMoved` and `PlanMoved` are its three comparisons. `Attach` is `createAnalysisTracker`, at any time and again, `Detach` is its `dispose`. `settle` has no step of its own: what it answers in a state is `failure` or else the Result on screen (`SettledIsFresh`). A Result has the plan the engine was called with, and the operation it came from; `Described` says whose figures it holds. A fixture that does not parse (`UnreadableFixture`, raised by a view) is an error the listener takes for the engine's. |
| `Turn` | `createCopilot`, `history.ts`, `reset.ts` | A message is its role and its turn. `phase` says what the turn awaits; `Receive`, `RunTools`, `Unparseable`, `Reissue`, `ApiError` and `Stop` are the ways an await ends. `keyed` says whether there is an API key, and with it a Copilot. `ClearKey` disposes of the Copilot: a turn in a call is committed at once, before a key can be pasted; one whose tools are running winds up later (`ghost`). `PasteKey` is the next Copilot, which reads storage then. `clear` is called by `resetSession` only and is part of `ResetSession`. |
| `Share` | `createSessionShare`, `sessionIdFor` | An entry is its kind, an event names the entries it carries. What `chunkEntries` returns is said rather than computed: the cut of the log at which an entry joins the chunk before it exactly when it fits (`Greedy`). `flushes` counts the links of the promise chain not begun, `batch` what the running one still has to post. |
| `CoreModel`, `CoreLedger`, `CoreAnalyze` | `engine/core` | Pure operators: sources, sizing, phases, demand; capex, revenue, opex, exit value, summary; diagnostics, validation, conservation checks and `Analyze`. `SitePlan` is the set of all plans the codec can decode: numbers without bounds, and for enum fields the values the schema declares. |
| `PhasingSearch` | `engine/optimize`, the pure part | Policy and constraints, score and order of candidates, seeds, moves, and the pre-check of a move. |
| `RiskRuns` | `engine/risk` | Paths, draws, clamping, histogram, quantiles, tornado. |
| `Planner`, `MCPlanner` | `engine.go`, `bridge.go`, the loops of `optimize` and `risk` | One call at a time; a step is one `core.Analyze` with what the code does before the next. `frontier` is the list of evaluations, so its length is the counter `evals`; a position in it stands for a pointer to an evaluated candidate. `Panic` may strike any step. `MCPlanner` is the list of calls. |
| `StoreProofs`, `EngineProofs`, `ServerProofs`, `TrackerProofs`, `TurnProofs`, `ShareProofs`, `CoreProofs`, `PlannerProofs` | | The theorems below. `TrackerProofs` extends `StoreProofs`, `PlannerProofs` extends `CoreProofs`. |

The definitions whose comment begins with *Slip* stand beside the operator they distort: each is a
plausible slip in that code and shows that the property it belongs to can fail.

**The engine in integers.** The Go code computes in `float64`; TLC has integers. Units are chosen so
that the decisions of the code are exact on the instances: kW for MW, hundredths for PUE, tenths for
sampled values, thousandths for normalized objectives and violations. Where the code rounds (whole
racks, whole MW, histogram bins, quantiles) the model rounds the same way; where it only divides, the
model truncates, and the instances are chosen to divide. Cash flows are not discounted: the order of
candidates and the conservation identities do not depend on the discount rate being zero.

## Runs

| Run | Instance | Asks |
|---|---|---|
| `store_races` | `TrackerSpec`: loads, edits, undo, redo, reset, optimize, whenIdle, dispose, an unreadable fixture, and trackers created and disposed of at any time; 4 request numbers, 1 waiter | Are stale replies kept off the screen (`GuardIsSound`, `ImplementsView`)? Do counters and flags agree with the calls on all paths (`BooksBalance`)? Is reset complete (`NothingWithoutPlan`), dispose final (`NothingAfterDispose`)? Does `whenIdle` resolve, does every plan get an answer or a banner (`EveryPlanIsAnswered`)? Is what a tool is told never the answer for an older plan (`SettledIsFresh`), and is it told at all (`TrackerCatchesUp`)? |
| `store_bus` | all commands, an unreadable fixture, optimize and dispose, 2 proposals, 4 request numbers | The undo/redo line (`TimelineIsDistinct`, `HistoryIsKept`), proposals (`ProposalsSettleOnce`), rejected commands (`RejectedIsInert`), compare mode (`CompareNeedsBaseline`). |
| `engine` | 3 calls, 2 requests | Does each call settle (`EveryCallSettles`), once, with its own answer (`ImplementsCalls`), without leaving an entry or a timer (`NoneForgotten`), and in order (`AnswersInOrder`)? |
| `server` | 3 requests, cap 1, 2 days, 2 processes | How far is spend bounded (`SpendIsBounded`), who is charged (`OnlyMessagesAreCharged`), who is refused (`RefusedOnlyWhenSpent`), do requests end (`EveryRequestEnds`)? |
| `share` | 2 log entries, 1 own event, 2 toggles, 1 pagehide, 2 page loads | Are events posted once and in order (`OnceInOrder`), is nothing sent that was logged or still queued while sharing was off (`OffIsPrivate`; a batch already taken is still posted), does nothing get stranded (`EntriesAreReported`)? |
| `turn` | 2 plans, 2 turns, 3 plan changes, 1 upset, transcripts of 4 messages, 2 iterations | Can what is sent, stored and continued be replayed (`TranscriptsReplay`)? Does it stay with its plan (`TranscriptsStayWithTheirPlan`)? Is the trim counted (`TrimIsHonest`)? Does every turn end (`EveryTurnEnds`)? |
| `planner` | about 150 calls: timelines, refused and accepted plans, risk runs, searches | Do accepted plans pass the conservation checks (`AcceptedPlansConserve`)? Is the winner the best it saw, legal, and what its numbers say (`WinnerIsHonest`)? Is converged converged (`ConvergedIsLocalOptimum`)? Is each draw accounted for (`RiskReportIsHonest`)? Is each call answered (`CallsEnd`)? |
| `store_settled`, `store_unanalyzed`, `store_baseline`, `server_cap`, `share_reload` | small instances | Five statements of comments and documentation that the code does not keep; see below. |

**Bounds.** `MaxRequests` bounds request numbers, and with them plan mutations and optimizations, of one
session: with 4 there is room for a load, an edit, an optimization and a further mutation, hence for
three superseded calls in flight beside a current one; each race of the code is between two or three
calls. Two proposals show one pending while another is settled, and an id used before a reset. Three
engine calls are the least for an answer to overtake one call while a third waits. For the cap, three
requests over two days are the least with which the count is turned back and then forward; a cap of 1
makes the budget's boundary come up in every behaviour. `MaxStarts = 2` is one restart. The proofs do
without these numbers.

`share`: two entries of any kinds over a body of 4 units give one chunk or two, with the second entry
logged before, during or after the first one's post; two toggles are one off-and-on; two loads are one
reload. `turn`: two turns are a turn and the one whose transcript it is trimmed from, with tool rounds
longer than the size limit; one upset is any one of reset, a cleared key, a reload or a failed
write; keys are pasted without a bound. `planner`: `MaxAssignments` (64) and `DescentSeeds` (3) are the
code's numbers. `EvalBudget` is 150 instead of 400: `LargePlan`, which also has more than 64 source
assignments, would take 213 evaluations, so its search runs out, and all others converge. The
timelines are all combinations of two sizes, months and sources around what the sources carry and
when; each plan in `Refused` breaks one rule of the validation.

`CHECK_DEADLOCK FALSE` in all configurations but the planner's: a user may stop acting, clients may
send nothing, and the bounds end every behaviour.

**Fairness.** Store: the debounce timer fires (weak fairness of `RunAnalyze`; timers of the event loop
fire) and each engine call settles (of `Reply`), which is what `EveryCallSettles` of the engine run
establishes from the timers of `client.ts` alone. Engine: only the deadline timers are fair; the worker
owes nothing. Server: the scheduler runs a handler that can go on (`Take`) and a context's deadline
passes (`RelayTimeout`); clients, the upstream and the platform owe nothing. Tracker: as the store, the
listener being part of its steps. Sharing: the debounce timer fires, a chained flush begins when the one
before it is done, a post is answered or fails (`Fire`, `SendQueued`, `Posted`). Turn: the system's steps
together are weakly fair - the API answers or the SDK's own timeout rejects the call, tools settle
(`EveryCallSettles`), an aborted turn stops; the model may still ask for tools, or send JSON that cannot
be parsed, for as long as the loop allows. Planner: a call runs on, because the engine is a synchronous
function. The formula is `WF_vars(EngineStep)` with its ENABLED written out (`stage # "idle"`: the guards
of a stage cover all cases); TLC would analyze whole plans to decide it. Drivers are never fair.

### What the violation runs show

* `EveryMutationIsAnalyzed` fails. `docs/architecture.md:112` calls "mutation → re-run `Analyze` →
  re-render" the cycle for all drivers. `optimize` takes a number of its own (`store.ts:171`), so it
  supersedes the analysis of the *same* plan in flight; when the optimizer then refuses, neither answer
  is stored. What does hold is `EveryPlanIsAnswered`: the refusal's banner is raised.
* `BaselineIsAPair` fails. `types.ts:37` calls a baseline "clones of the plan and the Result it
  produced"; `setBaseline` pins whatever Result is on screen, also while it is still the old plan's.
* `CapHolds` fails. `cap.go:11` counts "relayed requests per UTC day in this process", but the day is
  read before the mutex: a request that crosses midnight in between turns the count back, and the next
  one starts it over. (The comment calls the cap best-effort about restarts and instances; this happens
  in one process.) What does hold is `SpendIsBounded`: one budget per process start and per such request.

* `SeqOrdersTheSession` fails. `session.ts:6` has "a random id per page load ... so a reload starts a new
  session"; `sessionStorage` survives a reload, so the session goes on while `seq` starts again, and
  `deploy/sessions.py:39` prints the events of two page loads interleaved.
* `SettledReflectsPlan` fails. `analysis.ts:6` promises "a Result that reflects the current plan", and
  `run_analyze` returns it as the analysis of the current plan (`tools.ts:133`). The tracker takes any
  new Result for the answer, and the Result of an optimization is the analysis of its winner, a
  re-phased copy of the plan (`optimize.go:247-261`) that is not on screen. What does hold is
  `SettledIsFresh`: the Result comes from a call made for the plan on screen, never for an older one;
  and where nobody optimizes, `SettledReflectsPlan` itself (`ReflectsCorrect`).

### Observed in the source, without a run

* `docs/engine-design.md:203` promises SEARCH_TRUNCATED when the evaluation budget runs out; `optimize`
  emits it for more than 64 source assignments only (`phasing.go:241`), and says `converged: false`.
* A tracker created while the answer to a change is on its way takes the older Result on screen for
  current (`analysis.ts:18`); the properties are stated from the first plan change after that (`changed`).
* An error a view raises while the tracker is dirty, of a fixture that does not parse (`Canvas.tsx:39`),
  counts as the engine's (`analysis.ts:30`): `settle` throws "engine error" although the analysis is
  still on its way.
* A stored turn can be lost, against `docs/ui-spec.md:183` ("oldest turns dropped with a notice").
  `dispose` aborts a turn but does not wait for it (`client.ts:231`): tools that are running run on, and
  the turn is committed afterwards. Clear the key in between and paste another: the new Copilot has read
  storage before that commit, and the commit of its own next turn overwrites the turn. (A turn in a call
  of the model is committed before a key can be pasted; it is not at risk.) `Turn` has these steps
  (`ClearKey`, `PasteKey`, `GhostEnds`); its properties hold of what *is* stored.
* A plan that does not ask for whole racks may pass validation, which looks at the requested load
  (`validate.go:261`, and `:238` for a single shot), and fail `power_supply_ge_demand_t`, which looks at
  the racks (`schedule.go:104,124`: "validated to exist"); the host then reads CONSERVATION_FAILED, by
  `conserve.go:8` "a bug in the model, not in the input". `AcceptedPlansConserve` is stated for whole
  racks (`WholeRacks`), in both modes; `ConservationCorrect` says that nothing else can fail.
* An optimize started while the debounce is pending shares its number with the analysis that follows
  (`store.ts:122,171`), so both replies pass the guard, against the comment at `store.ts:60`; both are about the same plan.
* Of two concurrent optimizations the first to settle clears `optimizing` (`store.ts:178`; `types.ts:47`).
* `dispose` clears the timer but keeps its handle, so a `whenIdle` pending at that moment never resolves
  (`store.ts:202`, `store.ts:105`); `WhenIdleResolves` therefore excepts a disposed store.
* When the relay deadline passes before the upstream's headers, the error handler writes nothing and
  the client gets an empty 200 (`relay.go:53-56`); the shutdown grace (15 s) is far below it (10 min).

## Theorems

All are proved for every value of the constants under the assumptions declared with them
(`ReducerAssumption`, `StoreAssumption`, `EngineAssumption`, `ServerAssumption`, `TurnAssumption`,
`PhasingAssumption`, `PlannerAssumption`, `ShareAssumption`: bounds are naturals, the cap and the search's limits are
positive, operations have known names).

* **Store** (`StoreProofs`). A command changes the plan only with a new request number, so a call with
  the newest number was made for the plan on screen. The invariants are not inductive by themselves: the
  counters agree with the calls only if no two calls in flight are alike, which is not obvious of calls
  that share a number. `IInv` adds that no analysis of the newest number is in flight while a debounce is
  armed (`NewestUnanalyzed`) and that the calls are finitely many. What a command does to the screen is
  stated once (`CommandEffect`), so each command needs one short proof. Theorems: `TypeCorrect`,
  `GuardCorrect`, `BooksCorrect`, `ResetCorrect`, `ViewCorrect` (refinement of `AnsweredView`: every step
  is a step of the view or a stutter).
* **Bus** (also `StoreProofs`, on top of the above). The steps are told apart first: a command, a proposal
  with its fresh id, or a step of the store that leaves plan, history and proposals alone
  (`StepCases`). Undo stack, screen and redo stack are read as one line: undo and redo move the screen
  along it (`BackLemma`), a commit cuts it behind the screen and adds a snapshot newer than all
  (`CommitLine`). Added to the invariant are that ids beyond the counter were never used
  (`IdsAreMinted`, which is what survives a reset) and that a disposed store has no timer. Theorems:
  `CompareCorrect`, `DistinctCorrect`, and for single steps `HistoryCorrect`, `ProposalsCorrect`,
  `RejectCorrect`, `DisposeCorrect`.
* **Server** (`ServerProofs`). `SpendIsBounded` alone says nothing of the count. `IInv` relates the two
  by day (`SpendByDay`): a day newer than the one being counted was charged at most the budgets already
  spent, the counted day at most the count more, an older day at most one budget more; a late take adds a
  budget for all days at once. `CountIsGranted` gives `RefusedOnlyWhenSpent`. Who pays is a second,
  smaller invariant: each charge has a message that got past the cap (`PaidByMessages`), for which
  there must be finitely many requests. Theorems: `TypeCorrect`, `SpendBounded`, `RefusalsCorrect`,
  `ChargesCorrect`.
* **Engine** (`EngineProofs`). A reply settles the right call because each message in either queue
  carries the number and the request of a call that was made (`MessagesAreAsked`); answers come in
  order because call numbers grow along inbox and outbox and a pending call has its message there
  unless it was made to a dead worker (`InOrder`, `PendingInLine`). Theorems: `TypeCorrect`,
  `NoneForgottenCorrect`, `OrderCorrect`, `CallsCorrect` (refinement of `EngineCalls`).
* **Tracker** (`TrackerProofs`, on top of `StoreProofs`). Every step of the store is one of two kinds for
  the listener: it shows the engine's word on the plan on screen (`Answered`) or it answers nothing
  (`Unanswered`). The store's guard is what makes the first kind sound, so the invariant is the store's
  `IInv` with `SettledIsFresh`. That a settled Result is an analysis needs that nobody optimizes
  (`AnalyzedOnly`, an invariant under that assumption). Theorems: `TrackerTypeCorrect`, `FreshCorrect`,
  `ReflectsCorrect`, `WatchedStoreCorrect`.
* **Copilot** (`TurnProofs`). A transcript may be cut before a human's message and after an answered
  call, nowhere else; `IInv` says so of what the runner holds (`Linked`, and `Dangling` exactly while
  tools run), of a Copilot that is winding up (`GhostInv`) and of storage (`StoredInv`), and that a
  running turn is the last one sent, about the loaded plan (`RunningInv`). `TrimLemma` and `DropLemma`
  are about the two functions that cut. For `TrimIsHonest` turns are counted by the messages that start
  one (`Starts`): the runner has as many as the transcript on screen, and what is said in the running
  turn comes after the last of them (`HonestInv`). `DropDangling` removes no start, and the trim, which
  cuts before a start, counts those it removes and keeps all of that turn (`DropHonest`, `TrimHonest`).
  Theorems: `TypeCorrect`, `ReplayCorrect`, `OwnershipCorrect`, `TrimCorrect`.
* **Sharing** (`ShareProofs`). What the server received, what is being posted and what is queued are one
  pipeline. It grows only at its end, by events numbered past `seq` that carry entries past `sentEntries`,
  and loses only its queued end, so order and uniqueness come down to two counters that everything in it
  is behind; entries logged in private lie ahead of `sentEntries` only while sharing is off. About the
  chunks the proofs use no more than that each entry is in one of them, in the order of the log; that
  such a cut exists is a lemma. Theorems: `TypeCorrect`, `OrderCorrect`, `PrivacyCorrect`.
* **Engine core** (`CoreProofs`). About the operators, for every plan of `SitePlan`: what each helper
  returns (sources, sizing, schedule, demand, capital lines, revenue, opex, summary), and that a plan
  validation accepts (`Sound`) passes all conservation checks. Sums carry the argument: a total over
  lines is the total over components or phases of their totals, whichever way it is split; the load
  online in a month is at most the load of the phases validation has summed up to the last of them, and
  supply never shrinks. Sums and steps are recursive functions; induction is by a least counterexample
  (`InductionOnNat`, with a set in the place of a predicate), as the library's operator-valued
  induction theorems are out of reach. Theorem, in `PlannerProofs`: `ConservationCorrect`.
* **Phasing search** (`PlannerProofs`). Four invariants, each resting on the one before it.
  `SearchInv`: the frontier grows only at its end, by a candidate the memo does not know, while the budget
  lasts, and the winner is compared with each entry once. `SearchKept`: every entry is the score of a
  *legal* candidate - seeds are (`SeedLemma`: bounds on the sizes leave the later phases feasible, the
  last one takes the remainder), and moves keep it so (`MovedLemma`) - and a score says what the core says
  (`ScoreTyped`; thousandths are rounded up, so a violation of 0 is none). `DescentTyped`: the descent
  stands at a move of an evaluated incumbent. `OptimumKept`: a pass that has not improved its incumbent
  has tried every move before the next, and the winner is the incumbent *or* was left behind as a local
  optimum; entries only come at the end, so what was tried stays tried (`StillTried`). That the winner
  cannot be a candidate nobody descended from needs that the best seed is descended from first, and that
  it is the winner at that moment (`FirstSeedLemma`), for which seeds are numbered in the order they were
  found. "Better" is shown to be a strict order (`BetterLemma`), ranking by it a permutation
  (`RankLemma`). Theorems: `TypeCorrect`, `BudgetCorrect`, `WinnerCorrect`, `AnswerCorrect`,
  `HonestCorrect`, `OptimumCorrect`.
* **Risk runs** (`PlannerProofs`, last part). A draw written through its paths is a plan again
  (`DrawTyped`), so every sample is a summary of whole numbers (`SamplesTyped`). Sorting is a permutation
  in ascending order (`SortedLemma`); a quantile lies between two neighbours (`QuantileLemma`, by the
  position's quotient and remainder), so quantiles are ordered (`QuantilesLemma`); every value falls into
  a bin (`BinLemma`, the closed top bin), so the counts add up to the sample (`HistogramLemma`). A path
  validation knows can be read, so both swings are numbers and the tornado's order is one
  (`TornadoLemma`). No diagnostic of the core is mistaken for the count of rejected draws (`CoreGraded`).
  The loop adds that samples and rejected draws never exceed the iterations (`DrawsKept`) and that only a
  checked risk run draws (`DrawingKept`). Theorem: `RiskCorrect`.

Only model-checked: the liveness properties (`WhenIdleResolves`, `EveryPlanIsAnswered`,
`TrackerCatchesUp`, `EveryCallSettles`, `EveryRequestEnds`, `EntriesAreReported`, `EveryTurnEnds`,
`CallsEnd`); the proof system handles neither fairness nor `ENABLED`. Every invariant and action property
of the passing runs is a theorem.

## Not modelled, and why

* **Engine numbers.** Discounting, IRR, yield, breakeven and the risk score are floating-point
  functions of the ledger with no branch an integer model could check; with them go the `MIN_RISK`
  objective, constraints on those metrics (8 of the 14 in `metricKeys`), and mean and standard deviation
  of the samples. Tables, charts, the schematic and the wording of diagnostics are output, but for two
  checks on the schematic: `land_footprint_le_parcel` and `blocks_within_parcel` (`conserve.go:33-34`)
  can make a candidate invalid, and a plan fail conservation, in the code and not in the model.
  `capital_uses_eq_sources` (`conserve.go:32`) compares the total with itself.
* **Risk paths.** A path is the field it addresses; its spelling, by which the code decides whether a
  draw is clamped (`sample.go:100`), is not carried.
* **Views and charts** render the state and dispatch the commands modelled here. **Bus helpers** format it.
* **Patch paths** (`bus/paths.ts`): whether a patch applies is a free choice in `Reducer`; a patch goes
  onto a clone in one step, so a half-applied patch cannot be expressed; `RejectedIsInert` is about what
  else a rejected command might touch.
* **Copilot.** Streaming, tool events, notices, usage and error wording; prompts, research and glossary;
  what a tool asks of the store is a command of `Store`. `settle`'s own deadline of 10 s only rejects a
  promise of a tool.
* **Harness API** (`harness/install.ts`) is a remote control over the same store with no state that
  lasts: each call is a command of `Store` and a wait for `whenIdle`.
* **Server.** Reply bodies, headers, redaction and logging; redirects, ranges and preconditions of static
  files count as 200; a client that stops reading a relayed body. **Store.** Subscription and notification
  (views are redrawn; the tracker's listener is modelled), a plan that cannot be encoded.
* **Sharing.** Bodies and their redaction; the summary of a turn; what the server does with an event.
* Generated protobuf code, the fake engine, the acceptance harness.

Open: the redo of `paths.ts` as operators on small trees; the harness as a driver of `Store`; a
refinement of `Share` to a channel that loses, never reorders.
