---------------------------- MODULE PlannerProofs ----------------------------
(***************************************************************************)
(* The engine behind its bridge, proved for every plan and every budget:   *)
(* an accepted plan conserves; a search pays for at most EvalBudget        *)
(* analyses and for no candidate twice, hands back the first of the best   *)
(* candidates it paid for, a legal one, and says that it converged only    *)
(* where no move is better; a risk report accounts for every iteration.    *)
(*                                                                         *)
(* The argument.  The frontier only grows at its end, by a candidate the   *)
(* memo does not know, while the budget lasts; the winner is compared with *)
(* each new entry once (SearchInv).  Every entry is the score of a legal   *)
(* candidate, because seeds are and moves keep it so (SearchKept).  A pass *)
(* that has not improved its incumbent has tried each move before the next *)
(* one, and the winner is the incumbent or was left behind as a local      *)
(* optimum (OptimumKept).  What the core answers is used in three ways: a  *)
(* score is a number, a feasible one violates nothing, an accepted plan    *)
(* passes its checks (CoreProofs).  An iteration is one sample, made of    *)
(* numbers, or one rejection (DrawsKept, SamplesTyped), and what is said   *)
(* of a sample follows from its order (SortedLemma).                       *)
(***************************************************************************)
EXTENDS Planner, CoreProofs

\* A sequence, whatever its elements are.
Listed(s) == s \in Seq({s[i] : i \in DOMAIN s})

Trail == Listed(frontier)

\* Nothing is evaluated before a search starts, the baseline as soon as it has.
Outset ==
  /\ stage \in {"idle", "called"} => frontier = << >> /\ best = 0
  /\ stage \in {"seeding", "descending"} => frontier # << >>

BudgetKept == Len(frontier) <= EvalBudget

PaidOnce ==
  \A i, j \in 2 .. Len(frontier) : frontier[i].cand = frontier[j].cand => i = j

WinnerIfAny ==
  /\ best = 0 \/ (best \in 2 .. Len(frontier) /\ frontier[best].feasible)
  /\ best = 0 => \A i \in 2 .. Len(frontier) : ~frontier[i].feasible

\* What an entry of the frontier must be for "better" to order it.
Comparable(e) == e.feasible \in BOOLEAN /\ e.objective \in Int /\ e.violation \in Int

Scored == \A i \in 2 .. Len(frontier) : Comparable(frontier[i])

\* No feasible candidate beats the winner, and those before it are beaten by it.
FirstOfTheBest ==
  \A i \in 2 .. Len(frontier) :
    frontier[i].feasible => /\ ~Better(frontier[i], frontier[best])
                            /\ i < best => Better(frontier[best], frontier[i])

\* The answer of a search is about its winner, and counts what was paid.
AnswerIsTheWinner ==
  Searching =>
    /\ result.optimization[1].evaluations = Len(frontier)
    /\ best = 0 => result.status = "INFEASIBLE"
    /\ best # 0 => LET plan == ToPlan(call.plan, frontier[best].cand)
                   IN  /\ result.status # "INFEASIBLE"
                       /\ result.optimization[1].bestPlan = <<plan>>
                       /\ result.summary = Analyze(plan).summary
                       /\ frontier[best].diags \subseteq result.diags

SearchInv ==
  /\ Trail
  /\ Outset
  /\ BudgetKept
  /\ PaidOnce
  /\ WinnerIfAny
  /\ Scored => FirstOfTheBest

-----------------------------------------------------------------------------
(* Sequences and scores *)

\* A sequence one longer is again a sequence of its own entries.
LEMMA GrowLemma ==
  ASSUME NEW s, Listed(s), NEW e
  PROVE  /\ Listed(Append(s, e))
         /\ Len(s) \in Nat /\ Len(Append(s, e)) = Len(s) + 1
         /\ \A i \in 1 .. Len(s) : Append(s, e)[i] = s[i]
         /\ Append(s, e)[Len(s) + 1] = e
<1>. DEFINE S == {s[i] : i \in DOMAIN s}
            T == S \cup {e}
            t == Append(s, e)
<1>1. s \in Seq(T) /\ Len(s) \in Nat
  <2>1. s \in [1 .. Len(s) -> S] /\ Len(s) \in Nat
    BY LenProperties DEF Listed
  <2>2. s \in [1 .. Len(s) -> T]
    BY <2>1
  <2>. QED BY <2>1, <2>2, SeqDef
<1>. HIDE DEF S, T
<1>2. /\ t \in Seq(T) /\ Len(t) = Len(s) + 1
      /\ \A i \in 1 .. Len(s) : t[i] = s[i]
      /\ t[Len(s) + 1] = e
  BY <1>1, AppendProperties DEF T
<1>. HIDE DEF t
<1>3. Listed(t)
  <2>1. t \in [1 .. Len(t) -> T] /\ Len(t) \in Nat
    BY <1>2, LenProperties
  <2>2. t \in [1 .. Len(t) -> {t[i] : i \in DOMAIN t}]
    BY <2>1
  <2>. QED BY <2>1, <2>2, SeqDef DEF Listed
<1>. QED BY <1>1, <1>2, <1>3 DEF t

\* One entry alone.
LEMMA FirstLemma ==
  ASSUME NEW e
  PROVE  Listed(<<e>>) /\ Len(<<e>>) = 1 /\ <<e>> # << >>
  BY DEF Listed

\* Of two feasible entries the cheaper one is better.
LEMMA CheaperLemma ==
  ASSUME NEW a, NEW b, a.feasible \in BOOLEAN, b.feasible \in BOOLEAN,
         a.feasible, b.feasible
  PROVE  Better(a, b) <=> a.objective < b.objective
  BY DEF Better

\* An entry is about the candidate it was made for.
LEMMA ScoreLemma ==
  ASSUME NEW plan, NEW summary, NEW cand, NEW res
  PROVE  Score(plan, summary, cand, res).cand = cand
  BY DEF Score

-----------------------------------------------------------------------------
(* The steps *)

\* Steps that leave the search where it is.
LEMMA StandstillLemma ==
  ASSUME SearchInv, UNCHANGED <<frontier, best>>, Outset'
  PROVE  SearchInv'
  BY DEF SearchInv, Trail, BudgetKept, PaidOnce, WinnerIfAny, FirstOfTheBest, Scored

\* Steps after which nothing of the search is left.
LEMMA FreshLemma ==
  ASSUME Fresh, stage' \in {"idle", "done"}
  PROVE  SearchInv'
<1>1. frontier' = << >> /\ best' = 0 /\ Len(frontier') = 0
  BY DEF Fresh
<1>2. Trail' /\ Outset'
  BY <1>1 DEF Trail, Listed, Outset
<1>3. BudgetKept' /\ PaidOnce' /\ WinnerIfAny' /\ FirstOfTheBest'
  BY <1>1, PlannerAssumption DEF BudgetKept, PaidOnce, WinnerIfAny, FirstOfTheBest
<1>. QED BY <1>2, <1>3 DEF SearchInv

\* The baseline is paid for and is no candidate.
LEMMA BaselineLemma ==
  ASSUME SearchInv, StartSearch
  PROVE  SearchInv'
<1>1. /\ best = 0 /\ best' = 0 /\ stage' = "seeding"
      /\ \E e : frontier' = <<e>>
  BY DEF StartSearch, Dispatched, SearchInv, Outset
<1>2. Trail' /\ Len(frontier') = 1 /\ frontier' # << >>
  BY <1>1, FirstLemma DEF Trail
<1>3. Outset'
  BY <1>1, <1>2 DEF Outset
<1>4. BudgetKept'
  BY <1>2, PlannerAssumption, PhasingAssumption DEF BudgetKept
<1>5. PaidOnce' /\ WinnerIfAny' /\ FirstOfTheBest'
  BY <1>1, <1>2 DEF PaidOnce, WinnerIfAny, FirstOfTheBest
<1>. QED BY <1>2, <1>3, <1>4, <1>5 DEF SearchInv

\* A candidate is looked up, or paid for and compared with the winner.
LEMMA EvaluateLemma ==
  ASSUME SearchInv, NEW cand, frontier # << >>, ~Exhausted, Evaluate(cand), Outset'
  PROVE  SearchInv'
<1>1. CASE Memo(cand) # {}
  <2>1. UNCHANGED <<frontier, best>>
    BY <1>1 DEF Evaluate
  <2>. QED BY <2>1, StandstillLemma
<1>2. CASE Memo(cand) = {}
  <2>. DEFINE e == Score(call.plan, base, cand, Analyze(ToPlan(call.plan, cand)))
              n == Len(frontier)
  <2>1. e.cand = cand
    BY ScoreLemma
  <2>2. frontier' = Append(frontier, e) /\ best' = BestOf(frontier', best, Len(frontier'))
    BY <1>2 DEF Evaluate
  <2>3. \A i \in 2 .. n : frontier[i].cand # cand
    BY <1>2 DEF Memo
  <2>. HIDE DEF e
  <2>4. /\ Trail' /\ n \in Nat /\ Len(frontier') = n + 1
        /\ \A i \in 1 .. n : frontier'[i] = frontier[i]
        /\ frontier'[n + 1] = e
    BY <2>2, GrowLemma DEF SearchInv, Trail
  <2>5. n < EvalBudget /\ n > 0
    BY <2>4, PlannerAssumption, EmptySeq DEF Exhausted, SearchInv, Trail
  <2>. HIDE DEF n
  <2>6. \A i \in 2 .. n + 1 : i \in 2 .. n \/ i = n + 1
    BY <2>4
  <2>7. \A i \in 2 .. n : i \in 1 .. n /\ i < n + 1 /\ i \in 2 .. n + 1
    BY <2>4
  <2>8. n + 1 \in 2 .. n + 1 /\ n + 1 # 0
    BY <2>4, <2>5
  <2>9. BudgetKept'
    BY <2>4, <2>5, PlannerAssumption DEF BudgetKept
  <2>10. PaidOnce'
    BY <2>1, <2>3, <2>4, <2>6, <2>7 DEF SearchInv, PaidOnce, n
  <2>11. best' = IF e.feasible /\ (best = 0 \/ Better(e, frontier'[best])) THEN n + 1 ELSE best
    BY <2>2, <2>4 DEF BestOf
  <2>12. best \in 2 .. n => frontier'[best] = frontier[best]
    BY <2>4, <2>7
  <2>13. WinnerIfAny'
    BY <2>4, <2>6, <2>7, <2>8, <2>11, <2>12 DEF SearchInv, WinnerIfAny, n
  <2>14. (Scored => FirstOfTheBest)'
    <3>. SUFFICES ASSUME Scored', NEW i \in 2 .. n + 1, frontier'[i].feasible
                  PROVE  /\ ~Better(frontier'[i], frontier'[best'])
                         /\ i < best' => Better(frontier'[best'], frontier'[i])
      BY <2>4 DEF FirstOfTheBest
    <3>1. \A j \in 2 .. n + 1 : /\ frontier'[j].feasible \in BOOLEAN
                               /\ frontier'[j].objective \in Int
      BY <2>4 DEF Scored, Comparable
    <3>2. Scored
      BY <2>4, <2>7 DEF Scored, n
    <3>3. \A j \in 2 .. n : frontier'[j].feasible =>
             /\ ~Better(frontier'[j], frontier[best])
             /\ j < best => Better(frontier[best], frontier'[j])
      BY <2>4, <2>7, <3>2 DEF SearchInv, FirstOfTheBest, n
    <3>4. \A j, k \in 2 .. n + 1 : frontier'[j].feasible /\ frontier'[k].feasible =>
             (Better(frontier'[j], frontier'[k])
                <=> frontier'[j].objective < frontier'[k].objective)
      BY <3>1, CheaperLemma
    <3>5. best = 0 => \A j \in 2 .. n : ~frontier'[j].feasible
      BY <2>4, <2>7 DEF SearchInv, WinnerIfAny, n
    <3>6. best # 0 => best \in 2 .. n /\ frontier'[best].feasible
      BY <2>12 DEF SearchInv, WinnerIfAny, n
    <3>7. CASE e.feasible /\ (best = 0 \/ Better(e, frontier'[best]))
      <4>1. best' = n + 1 /\ frontier'[best'] = e
        BY <2>4, <2>11, <3>7
      <4>2. CASE i = n + 1
        BY <2>4, <2>8, <3>1, <3>4, <4>1, <4>2
      <4>3. CASE i \in 2 .. n
        <5>1. best # 0 /\ Better(e, frontier'[best])
          BY <3>5, <3>7, <4>3
        <5>2. best \in 2 .. n + 1 /\ frontier'[best].feasible
          BY <2>7, <3>6, <5>1
        <5>3. e.objective < frontier'[best].objective
          BY <2>4, <2>8, <3>4, <3>7, <5>1, <5>2
        <5>4. ~(frontier'[i].objective < frontier'[best].objective)
          BY <2>7, <2>12, <3>3, <3>4, <3>6, <4>3, <5>1, <5>2
        <5>5. e.objective < frontier'[i].objective
          BY <2>4, <2>8, <3>1, <5>2, <5>3, <5>4
        <5>6. Better(e, frontier'[i])
          BY <2>4, <2>8, <3>4, <3>7, <5>5
        <5>7. ~(frontier'[i].objective < e.objective)
          BY <2>4, <2>8, <3>1, <5>5
        <5>8. ~Better(frontier'[i], e)
          BY <2>4, <2>8, <3>4, <3>7, <5>7
        <5>. QED BY <4>1, <5>6, <5>8
      <4>. QED BY <2>6, <4>2, <4>3
    <3>8. CASE ~(e.feasible /\ (best = 0 \/ Better(e, frontier'[best])))
      <4>1. best' = best
        BY <2>11, <3>8
      <4>2. CASE i \in 2 .. n
        <5>1. best # 0
          BY <3>5, <4>2
        <5>. QED BY <2>12, <3>3, <3>6, <4>1, <4>2, <5>1
      <4>3. CASE i = n + 1
        <5>1. e.feasible
          BY <2>4, <4>3
        <5>2. ~Better(e, frontier'[best]) /\ best # 0
          BY <3>8, <5>1
        <5>3. ~(n + 1 < best)
          BY <2>4, <3>6, <5>2
        <5>. QED BY <2>4, <4>1, <4>3, <5>2, <5>3
      <4>. QED BY <2>6, <4>2, <4>3
    <3>. QED BY <3>7, <3>8
  <2>. QED BY <2>4, <2>9, <2>10, <2>13, <2>14 DEF SearchInv
<1>. QED BY <1>1, <1>2

\* What a step does to the search: nothing, all of it is gone, the baseline is paid for,
\* or a candidate is evaluated.
LEMMA SearchStep ==
  ASSUME SearchInv, [Next]_vars
  PROVE  SearchInv'
<1>1. ASSUME NEW request, Call(request)
      PROVE  SearchInv'
  <2>1. UNCHANGED <<frontier, best>> /\ Outset'
    BY <1>1 DEF Call, locals, SearchInv, Outset
  <2>. QED BY <2>1, StandstillLemma
<1>2. CASE stage' = "done" /\ UNCHANGED <<frontier, best>>
  <2>1. Outset'
    BY <1>2 DEF Outset
  <2>. QED BY <1>2, <2>1, StandstillLemma
<1>3. Undispatched \/ RefuseAnalysis \/ RefuseSearch \/ EndDraws \/ OutOfBudget \/ Converged
      => stage' = "done" /\ UNCHANGED <<frontier, best>>
  BY DEF Undispatched, RefuseAnalysis, RefuseSearch, EndDraws, OutOfBudget, Converged,
         EndSearch, Answer, locals
<1>4. CASE RunAnalysis \/ Draw
  <2>1. stage' \in {"drawing", "done"} /\ UNCHANGED <<frontier, best>>
    BY <1>4 DEF RunAnalysis, Draw, Answer, locals
  <2>2. Outset'
    BY <2>1 DEF Outset
  <2>. QED BY <2>1, <2>2, StandstillLemma
<1>5. Reply \/ Panic => SearchInv'
  BY FreshLemma DEF Reply, Panic, Answer
<1>6. StartSearch => SearchInv'
  BY BaselineLemma
<1>7. CASE SeedNext
  <2>1. stage = "seeding" /\ stage' = "seeding" /\ frontier # << >>
    BY <1>7 DEF SeedNext, SearchInv, Outset
  <2>2. CASE UNCHANGED <<frontier, best>>
    <3>1. Outset'
      BY <2>1, <2>2 DEF Outset
    <3>. QED BY <2>2, <3>1, StandstillLemma
  <2>3. ASSUME NEW cand, ~Exhausted, Evaluate(cand)
        PROVE  SearchInv'
    <3>1. frontier' # << >>
      <4>1. CASE UNCHANGED frontier
        BY <2>1, <4>1
      <4>2. CASE \E e : frontier' = Append(frontier, e)
        BY <4>2, GrowLemma, EmptySeq DEF SearchInv, Trail
      <4>. QED BY <2>3, <4>1, <4>2 DEF Evaluate
    <3>2. Outset'
      BY <2>1, <3>1 DEF Outset
    <3>. QED BY <2>1, <2>3, <3>2, EvaluateLemma
  <2>. QED BY <1>7, <2>2, <2>3 DEF SeedNext
<1>8. CASE SeedsDone
  <2>1. /\ stage = "seeding" /\ stage' \in {"descending", "done"}
        /\ UNCHANGED <<frontier, best>>
    BY <1>8 DEF SeedsDone, EndSearch, Answer, locals
  <2>2. Outset'
    BY <2>1 DEF Outset, SearchInv
  <2>. QED BY <2>1, <2>2, StandstillLemma
<1>9. CASE TryMove
  <2>1. /\ stage = "descending" /\ stage' = "descending" /\ frontier # << >>
        /\ ~Exhausted /\ Evaluate(Candidate)
    BY <1>9 DEF TryMove, InPass, SearchInv, Outset
  <2>2. frontier' # << >>
    <3>1. CASE UNCHANGED frontier
      BY <2>1, <3>1
    <3>2. CASE \E e : frontier' = Append(frontier, e)
      BY <3>2, GrowLemma, EmptySeq DEF SearchInv, Trail
    <3>. QED BY <2>1, <3>1, <3>2 DEF Evaluate
  <2>3. Outset'
    BY <2>1, <2>2 DEF Outset
  <2>. QED BY <2>1, <2>3, EvaluateLemma
<1>10. CASE SkipMove \/ NextPass \/ NextSeed \/ UNCHANGED vars
  <2>1. UNCHANGED <<stage, frontier, best>>
    BY <1>10 DEF SkipMove, NextPass, NextSeed, vars
  <2>2. Outset'
    BY <2>1 DEF Outset, SearchInv
  <2>. QED BY <2>1, <2>2, StandstillLemma
<1>. QED BY <1>1, <1>2, <1>3, <1>4, <1>5, <1>6, <1>7, <1>8, <1>9, <1>10
         DEF Next, EngineStep, Search

LEMMA SearchInit == Init => SearchInv
<1>. SUFFICES ASSUME Init PROVE SearchInv
  OBVIOUS
<1>1. frontier = << >> /\ best = 0 /\ Len(frontier) = 0 /\ stage = "idle"
  BY DEF Init
<1>. QED BY <1>1, PlannerAssumption
         DEF SearchInv, Trail, Listed, Outset, BudgetKept, PaidOnce, WinnerIfAny, FirstOfTheBest

LEMMA SearchInductive == Spec => []SearchInv
  BY SearchInit, SearchStep, PTL DEF Spec

-----------------------------------------------------------------------------
(* The answer *)

\* A status made from diagnostics never reads INFEASIBLE.
LEMMA StatusLemma ==
  ASSUME NEW diags
  PROVE  StatusOf(diags) # "INFEASIBLE"
  BY DEF StatusOf

\* Only a search ends in an answer about an optimization.
LEMMA SearchAnswer ==
  ASSUME NEW converged, EndSearch(converged)
  PROVE  AnswerIsTheWinner'
<1>1. /\ stage' = "done" /\ UNCHANGED <<call, frontier, best>>
      /\ result' = SearchResult(converged)
  BY DEF EndSearch, Answer, locals
<1>. DEFINE plan == ToPlan(call.plan, frontier[best].cand)
<1>2. /\ result'.optimization[1].evaluations = Len(frontier)
      /\ best = 0 => result'.status = "INFEASIBLE"
      /\ best # 0 => /\ result'.status # "INFEASIBLE"
                     /\ result'.optimization[1].bestPlan = <<plan>>
                     /\ result'.summary = Analyze(plan).summary
                     /\ frontier[best].diags \subseteq result'.diags
  BY <1>1, StatusLemma DEF SearchResult, Bare
<1>3. /\ Len(frontier') = Len(frontier) /\ best' = best /\ frontier'[best'] = frontier[best]
      /\ call' = call
  BY <1>1
<1>. QED BY <1>2, <1>3 DEF AnswerIsTheWinner

LEMMA PlainAnswer ==
  ASSUME result'.optimization = << >>
  PROVE  AnswerIsTheWinner'
  BY DEF AnswerIsTheWinner, Searching

\* An analysis reports no optimization.
LEMMA AnalysisAnswer ==
  ASSUME NEW plan, NEW drawn
  PROVE  AnalysisResult(plan, drawn).optimization = << >>
<1>1. ASSUME NEW res, NEW sens
      PROVE  Reported(plan, drawn, res, sens).optimization = << >>
  BY DEF Reported, Bare
<1>. QED BY <1>1 DEF AnalysisResult

LEMMA AnswerStep ==
  ASSUME AnswerIsTheWinner, [Next]_vars
  PROVE  AnswerIsTheWinner'
<1>1. CASE stage' # "done"
  BY <1>1 DEF AnswerIsTheWinner, Searching
<1>2. \A status, diags : Bare(status, diags).optimization = << >>
  BY DEF Bare
<1>3. ASSUME NEW status, NEW diags, Answer(Bare(status, diags))
      PROVE  AnswerIsTheWinner'
  BY <1>2, <1>3, PlainAnswer DEF Answer
<1>4. Undispatched \/ Panic \/ RefuseAnalysis \/ RefuseSearch => AnswerIsTheWinner'
  BY <1>3 DEF Undispatched, Panic, Failure, RefuseAnalysis, RefuseSearch
<1>5. ASSUME NEW plan, NEW drawn, Answer(AnalysisResult(plan, drawn))
      PROVE  AnswerIsTheWinner'
  BY <1>5, AnalysisAnswer, PlainAnswer DEF Answer
<1>6. RunAnalysis \/ EndDraws => stage' # "done" \/ AnswerIsTheWinner'
  BY <1>5 DEF RunAnalysis, EndDraws
<1>7. SeedsDone \/ OutOfBudget \/ Converged => stage' # "done" \/ AnswerIsTheWinner'
  BY SearchAnswer DEF SeedsDone, OutOfBudget, Converged
<1>8. (\E request : Call(request)) \/ Draw \/ Reply \/ StartSearch \/ SeedNext => stage' # "done"
  BY DEF Call, Draw, Reply, StartSearch, SeedNext
<1>9. SkipMove \/ TryMove \/ NextPass \/ NextSeed => stage' # "done"
  BY DEF SkipMove, TryMove, NextPass, NextSeed, InPass, PassDone
<1>10. CASE UNCHANGED vars
  BY <1>10 DEF vars, AnswerIsTheWinner, Searching
<1>. QED BY <1>1, <1>4, <1>6, <1>7, <1>8, <1>9, <1>10 DEF Next, EngineStep, Search

-----------------------------------------------------------------------------
(* The call being served *)

\* A call is one of the requests from the time it is made until it is answered, an
\* analysis draws only for a plan the core accepts, and only a search searches.
CallKept ==
  /\ call \in Requests \cup {NoCall}
  /\ stage = "idle" <=> call = NoCall
  /\ stage \in {"idle", "called", "drawing", "seeding", "descending", "done"}
  /\ stage = "drawing" => /\ call.op = "analyze" /\ call.wellFormed
                          /\ Analyze(call.plan).status # "INVALID_INPUT"
  /\ stage \in {"seeding", "descending"} => call.op = "optimize"

LEMMA RequestLemma ==
  ASSUME NEW request \in Requests
  PROVE  request.plan \in SitePlan /\ request # NoCall
<1>1. request \in Request
  BY PlannerAssumption
<1>. HIDE DEF SitePlan
<1>2. request.plan \in SitePlan
  BY <1>1 DEF Request
<1>3. DOMAIN request = {"op", "wellFormed", "plan"}
  BY <1>1 DEF Request
<1>4. DOMAIN NoCall = {"op", "wellFormed"}
  BY DEF NoCall
<1>. QED BY <1>2, <1>3, <1>4

LEMMA CallStep ==
  ASSUME CallKept, [Next]_vars
  PROVE  CallKept'
<1>1. ASSUME NEW request \in Requests, Call(request)
      PROVE  CallKept'
  BY <1>1, RequestLemma DEF CallKept, Call
<1>2. CASE Reply
  BY <1>2 DEF CallKept, Reply
<1>3. ASSUME stage' = "done", UNCHANGED call, stage # "idle"
      PROVE  CallKept'
  BY <1>3 DEF CallKept
<1>4. Undispatched \/ Panic \/ RefuseAnalysis \/ RefuseSearch \/ EndDraws \/ OutOfBudget
        \/ Converged
      => stage' = "done" /\ UNCHANGED call /\ stage # "idle"
  BY DEF Undispatched, Panic, RefuseAnalysis, RefuseSearch, EndDraws, OutOfBudget,
         Converged, EndSearch, Answer, Dispatched, InPass, PassDone
<1>5. CASE RunAnalysis
  <2>1. /\ stage = "called" /\ UNCHANGED call /\ stage' \in {"drawing", "done"}
        /\ call.op = "analyze" /\ call.wellFormed
        /\ Analyze(call.plan).status # "INVALID_INPUT"
    BY <1>5 DEF RunAnalysis, Dispatched, Answer
  <2>. QED BY <2>1 DEF CallKept
<1>6. CASE StartSearch
  <2>1. stage = "called" /\ UNCHANGED call /\ stage' = "seeding" /\ call.op = "optimize"
    BY <1>6 DEF StartSearch, Dispatched
  <2>. QED BY <2>1 DEF CallKept
<1>7. CASE SeedsDone
  <2>1. stage = "seeding" /\ UNCHANGED call /\ stage' \in {"descending", "done"}
    BY <1>7 DEF SeedsDone, EndSearch, Answer
  <2>. QED BY <2>1 DEF CallKept
<1>8. CASE Draw \/ SeedNext \/ SkipMove \/ TryMove \/ NextPass \/ NextSeed \/ UNCHANGED vars
  <2>1. UNCHANGED <<stage, call>>
    BY <1>8 DEF Draw, SeedNext, SkipMove, TryMove, NextPass, NextSeed, vars
  <2>. QED BY <2>1 DEF CallKept
<1>. QED BY <1>1, <1>2, <1>3, <1>4, <1>5, <1>6, <1>7, <1>8 DEF Next, EngineStep, Search

LEMMA CallInit == Init => CallKept
<1>. SUFFICES ASSUME Init PROVE CallKept
  OBVIOUS
<1>1. stage = "idle" /\ call = NoCall
  BY DEF Init
<1>. QED BY <1>1 DEF CallKept

LEMMA CallInductive == Spec => []CallKept
  BY CallInit, CallStep, PTL DEF Spec

-----------------------------------------------------------------------------
(* Conservation, as the host sees it *)

\* The risk layer adds its own diagnostics and leaves the checks of the ledger alone.
LEMMA ReportLemma ==
  ASSUME NEW plan, NEW drawn, NEW res,
         Warning("CONSERVATION_FAILED") \notin res.diags
  PROVE  LET answer == Reported(plan, drawn, res, SensitivityReport(plan, res.summary))
         IN  /\ answer.failed = res.failed
             /\ Warning("CONSERVATION_FAILED") \notin answer.diags
<1>. DEFINE sens == SensitivityReport(plan, res.summary)
            risk == ValidateRisk(plan)
            invalid == When(drawn.invalid > 0, Warning("MC_INVALID_DRAWS"))
            notes == IF plan.risk.sensitivity THEN sens.notes ELSE {}
            answer == Reported(plan, drawn, res, sens)
<1>1. Warning("CONSERVATION_FAILED") \notin risk
  BY DEF ValidateRisk, ValidateMonteCarlo, ValidateSensitivity, When, Warning, Error
<1>2. Warning("CONSERVATION_FAILED") \notin invalid
  BY DEF When, Warning
<1>3. ASSUME NEW paths, NEW base_, NEW outcome
      PROVE  Warning("CONSERVATION_FAILED") \notin Tornados(paths, base_, outcome).notes
  <2>1. \E ok : Tornados(paths, base_, outcome).notes
                  = When(ok, Warning("SENSITIVITY_INVALID_DRAW"))
    BY DEF Tornados
  <2>. QED BY <2>1 DEF When, Warning
<1>4. Warning("CONSERVATION_FAILED") \notin notes
  BY <1>3 DEF SensitivityReport
<1>. HIDE DEF sens, risk, invalid, notes
<1>5. answer.failed = res.failed /\ answer.diags = res.diags \cup risk \cup invalid \cup notes
  BY DEF Reported, Bare, risk, invalid, notes
<1>. HIDE DEF answer
<1>6. Warning("CONSERVATION_FAILED") \notin answer.diags
  BY <1>1, <1>2, <1>4, <1>5
<1>. QED BY <1>5, <1>6 DEF answer, sens

LEMMA AcceptedLemma ==
  ASSUME NEW plan \in SitePlan, NEW drawn,
         Analyze(plan).status # "INVALID_INPUT", WholeRacks(plan)
  PROVE  /\ AnalysisResult(plan, drawn).failed = {}
         /\ Warning("CONSERVATION_FAILED") \notin AnalysisResult(plan, drawn).diags
<1>1. /\ Analyze(plan).failed = {}
      /\ Warning("CONSERVATION_FAILED") \notin Analyze(plan).diags
  BY AnalyzeTyped
<1>. QED BY <1>1, ReportLemma DEF AnalysisResult

LEMMA ConservationStep ==
  ASSUME CallKept, AcceptedPlansConserve, [Next]_vars
  PROVE  AcceptedPlansConserve'
<1>1. CASE stage' # "done" \/ (stage' = "done" /\ result'.status = "INVALID_INPUT")
           \/ call'.op # "analyze"
  BY <1>1 DEF AcceptedPlansConserve
<1>2. \A code : Failure(code).status = "INVALID_INPUT"
  BY DEF Failure, Bare
<1>3. \A diags : Bare("INVALID_INPUT", diags).status = "INVALID_INPUT"
  BY DEF Bare
<1>4. Undispatched \/ Panic \/ RefuseAnalysis \/ RefuseSearch
      => stage' = "done" /\ result'.status = "INVALID_INPUT"
  BY <1>2, <1>3 DEF Undispatched, Panic, RefuseAnalysis, RefuseSearch, Answer
<1>5. ASSUME NEW drawn, call \in Requests, Analyze(call.plan).status # "INVALID_INPUT",
             Answer(AnalysisResult(call.plan, drawn))
      PROVE  AcceptedPlansConserve'
  <2>1. /\ call' = call /\ result' = AnalysisResult(call.plan, drawn)
        /\ call.plan \in SitePlan
    BY <1>5, RequestLemma DEF Answer
  <2>2. WholeRacks(call.plan) => /\ result'.failed = {}
                                 /\ Warning("CONSERVATION_FAILED") \notin result'.diags
    BY <1>5, <2>1, AcceptedLemma
  <2>. QED BY <2>1, <2>2 DEF AcceptedPlansConserve
<1>6. RunAnalysis \/ EndDraws => stage' # "done" \/ AcceptedPlansConserve'
  <2>1. RunAnalysis \/ EndDraws
        => call \in Requests /\ Analyze(call.plan).status # "INVALID_INPUT"
    BY DEF RunAnalysis, EndDraws, Dispatched, CallKept
  <2>. QED BY <1>5, <2>1 DEF RunAnalysis, EndDraws
<1>7. SeedsDone \/ OutOfBudget \/ Converged => stage' # "done" \/ call'.op # "analyze"
  BY DEF SeedsDone, OutOfBudget, Converged, EndSearch, Answer, InPass, PassDone, CallKept
<1>8. (\E request \in Requests : Call(request)) \/ Draw \/ Reply \/ StartSearch \/ SeedNext
      => stage' # "done"
  BY DEF Call, Draw, Reply, StartSearch, SeedNext
<1>9. SkipMove \/ TryMove \/ NextPass \/ NextSeed => stage' # "done"
  BY DEF SkipMove, TryMove, NextPass, NextSeed, InPass, PassDone
<1>10. CASE UNCHANGED vars
  BY <1>10 DEF vars, AcceptedPlansConserve
<1>. QED BY <1>1, <1>4, <1>6, <1>7, <1>8, <1>9, <1>10 DEF Next, EngineStep, Search

-----------------------------------------------------------------------------
(* Sorting by rank *)

\* Where the elements below each one are a strict total order's, the ranks of n elements
\* are 1 to n, each once.
LEMMA RankLemma ==
  ASSUME NEW S, IsFiniteSet(S), NEW below \in [S -> SUBSET S],
         \A i \in S : i \notin below[i],
         \A i \in S : \A j \in below[i] : below[j] \subseteq below[i],
         \A i, j \in S : i # j => j \in below[i] \/ i \in below[j]
  PROVE  /\ Cardinality(S) \in Nat
         /\ \A r \in 1 .. Cardinality(S) : \E i \in S : Cardinality(below[i]) + 1 = r
         /\ \A i \in S : /\ IsFiniteSet(below[i]) /\ Cardinality(below[i]) \in Nat
                         /\ Cardinality(below[i]) + 1 \in 1 .. Cardinality(S)
         /\ \A i, j \in S : Cardinality(below[i]) = Cardinality(below[j]) => i = j
<1>. DEFINE n == Cardinality(S)
            f == [i \in S |-> Cardinality(below[i]) + 1]
<1>1. n \in Nat
  BY FS_CardinalityType
<1>2. ASSUME NEW i \in S
      PROVE  IsFiniteSet(below[i]) /\ Cardinality(below[i]) \in Nat /\ Cardinality(below[i]) < n
  <2>1. IsFiniteSet(below[i]) /\ Cardinality(below[i]) <= n /\ (n = Cardinality(below[i]) => S = below[i])
    BY FS_Subset
  <2>2. Cardinality(below[i]) \in Nat
    BY <2>1, FS_CardinalityType
  <2>. QED BY <1>1, <2>1, <2>2
<1>3. ASSUME NEW i \in S, NEW j \in below[i]
      PROVE  Cardinality(below[j]) < Cardinality(below[i])
  <2>1. j \in S /\ below[j] \in SUBSET below[i] /\ below[j] # below[i]
    OBVIOUS
  <2>2. Cardinality(below[j]) <= Cardinality(below[i])
        /\ (Cardinality(below[i]) = Cardinality(below[j]) => below[i] = below[j])
    BY <1>2, <2>1, FS_Subset
  <2>. QED BY <1>2, <2>1, <2>2
<1>4. \A i, j \in S : Cardinality(below[i]) = Cardinality(below[j]) => i = j
  <2>. SUFFICES ASSUME NEW i \in S, NEW j \in S, Cardinality(below[i]) = Cardinality(below[j]), i # j
                PROVE FALSE
    OBVIOUS
  <2>. QED BY <1>2, <1>3
<1>. HIDE DEF n
<1>5. f \in [S -> 1 .. n]
  BY <1>1, <1>2
<1>6. \A i, j \in S : f[i] = f[j] => i = j
  BY <1>2, <1>4
<1>7. f \in Injection(S, 1 .. n)
  BY <1>5, <1>6 DEF Injection, IsInjective
<1>8. IsFiniteSet(1 .. n) /\ Cardinality(1 .. n) = n
  BY <1>1, FS_Interval
<1>. HIDE DEF f
<1>9. f \in Surjection(S, 1 .. n)
  BY <1>7, <1>8, FS_Injection DEF n
<1>10. \A r \in 1 .. n : \E i \in S : f[i] = r
  BY <1>9 DEF Surjection
<1>. QED BY <1>1, <1>2, <1>4, <1>10 DEF f, n

\* Ranking lists a set in such an order.
LEMMA RankingLemma ==
  ASSUME NEW S, IsFiniteSet(S), NEW below \in [S -> SUBSET S],
         \A i \in S : i \notin below[i],
         \A i \in S : \A j \in below[i] : below[j] \subseteq below[i],
         \A i, j \in S : i # j => j \in below[i] \/ i \in below[j]
  PROVE  /\ Cardinality(S) \in Nat
         /\ Ranking(below) \in [1 .. Cardinality(S) -> S]
         /\ \A i \in S : \E r \in 1 .. Cardinality(S) : Ranking(below)[r] = i
         /\ \A q, r \in 1 .. Cardinality(S) :
              q < r => Ranking(below)[q] \in below[Ranking(below)[r]]
<1>. DEFINE n == Cardinality(S)
            order == Ranking(below)
<1>1. /\ n \in Nat
      /\ \A r \in 1 .. n : \E i \in S : Cardinality(below[i]) + 1 = r
  BY RankLemma
<1>2. /\ \A i \in S : /\ IsFiniteSet(below[i]) /\ Cardinality(below[i]) \in Nat
                      /\ Cardinality(below[i]) + 1 \in 1 .. n
      /\ \A i, j \in S : Cardinality(below[i]) = Cardinality(below[j]) => i = j
  BY RankLemma
<1>3. order = [r \in 1 .. n |-> CHOOSE i \in S : Cardinality(below[i]) + 1 = r]
  BY DEF Ranking
<1>. HIDE DEF order, n
<1>4. \A r \in 1 .. n : order[r] \in S /\ Cardinality(below[order[r]]) + 1 = r
  BY <1>1, <1>3
<1>5. order \in [1 .. n -> S]
  BY <1>3, <1>4
<1>6. ASSUME NEW i \in S
      PROVE  \E r \in 1 .. n : order[r] = i
  <2>. DEFINE r == Cardinality(below[i]) + 1
  <2>1. r \in 1 .. n /\ order[r] \in S /\ Cardinality(below[order[r]]) + 1 = r
    BY <1>2, <1>4
  <2>2. Cardinality(below[order[r]]) = Cardinality(below[i])
    BY <1>2, <2>1
  <2>3. order[r] = i
    BY <1>2, <2>1, <2>2
  <2>. QED BY <2>1, <2>3
<1>7. ASSUME NEW q \in 1 .. n, NEW r \in 1 .. n, q < r
      PROVE  order[q] \in below[order[r]]
  <2>. DEFINE i == order[q]
              j == order[r]
  <2>1. /\ i \in S /\ j \in S
        /\ Cardinality(below[i]) + 1 = q /\ Cardinality(below[j]) + 1 = r
    BY <1>4
  <2>. HIDE DEF i, j
  <2>2. Cardinality(below[i]) \in Nat /\ Cardinality(below[j]) \in Nat
    BY <1>2, <2>1
  <2>3. i # j
    BY <1>1, <1>7, <2>1
  <2>4. j \notin below[i]
    <3>. SUFFICES ASSUME j \in below[i] PROVE FALSE
      OBVIOUS
    <3>1. below[j] \in SUBSET below[i] /\ IsFiniteSet(below[i])
      BY <1>2, <2>1
    <3>2. Cardinality(below[j]) <= Cardinality(below[i])
      BY <3>1, FS_Subset
    <3>. QED BY <1>1, <1>7, <2>1, <2>2, <3>2
  <2>5. i \in below[j]
    BY <2>1, <2>3, <2>4
  <2>. QED BY <2>5 DEF i, j
<1>. QED BY <1>1, <1>5, <1>6, <1>7 DEF order, n

LEMMA FirmLemma ==
  ASSUME NEW srcs \in Seq(SourceType),
         \A i, j \in DOMAIN srcs : srcs[i].id = srcs[j].id => i = j
  PROVE  Firm(srcs) \in Seq(SourceType)
<1>. DEFINE firm == {i \in DOMAIN srcs : srcs[i].firm}
            n == Cardinality(firm)
            Earlier(i, j) == \/ srcs[i].ready < srcs[j].ready
                             \/ srcs[i].ready = srcs[j].ready /\ srcs[i].id < srcs[j].id
            below == [i \in firm |-> {j \in firm : Earlier(j, i)}]
            order == Ranking(below)
            sorted == [r \in DOMAIN order |-> srcs[order[r]]]
<1>1. IsFiniteSet(firm) /\ \A i \in firm : srcs[i] \in SourceType
  BY PositionsLemma
<1>2. \A i \in firm : srcs[i].ready \in Int /\ srcs[i].id \in Nat
  BY <1>1 DEF SourceType
<1>3. \A i, j \in firm : srcs[i].id = srcs[j].id => i = j
  OBVIOUS
<1>. HIDE DEF firm
<1>4. below \in [firm -> SUBSET firm]
  OBVIOUS
<1>5. \A i, j \in firm : j \in below[i] <=> Earlier(j, i)
  OBVIOUS
<1>6. \A i, j, k \in firm : Earlier(k, j) /\ Earlier(j, i) => Earlier(k, i)
  BY <1>2
<1>7. \A i, j \in firm : ~Earlier(i, i) /\ (i # j => Earlier(i, j) \/ Earlier(j, i))
  BY <1>2, <1>3
<1>8. Firm(srcs) = sorted
  BY DEF Firm, firm, order, below, sorted, Earlier
<1>. HIDE DEF below, Earlier
<1>9. \A i \in firm : i \notin below[i]
  BY <1>5, <1>7
<1>10. \A i \in firm : \A j \in below[i] : below[j] \subseteq below[i]
  BY <1>4, <1>5, <1>6
<1>11. \A i, j \in firm : i # j => j \in below[i] \/ i \in below[j]
  BY <1>5, <1>7
<1>12. n \in Nat /\ order \in [1 .. n -> firm]
  BY <1>1, <1>4, <1>9, <1>10, <1>11, RankingLemma
<1>. HIDE DEF n, order
<1>13. sorted \in [1 .. n -> SourceType]
  BY <1>1, <1>12
<1>. HIDE DEF sorted
<1>. QED BY <1>8, <1>12, <1>13, TupleLemma

-----------------------------------------------------------------------------
(* The plans a search analyzes *)

AskedPhase == [id : Nat, kw : Int, start : Int, energize : Int, source : Nat,
               cooling : Cooling \cup {"UNSET"}, footprint : Int]

LEMMA BaselineTyped ==
  ASSUME NEW plan \in SitePlan
  PROVE  BaselinePlan(plan) \in SitePlan
  BY DEF BaselinePlan, SitePlan

LEMMA RephasedTyped ==
  ASSUME NEW plan \in SitePlan, NEW phases \in Seq(AskedPhase)
  PROVE  [plan EXCEPT !.mode = "RUN_ANALYZE", !.phasing.mode = "EXPLICIT",
                      !.phasing.phases = phases] \in SitePlan
  BY DEF AskedPhase, SitePlan

LEMMA BaselineParts ==
  ASSUME NEW plan \in SitePlan
  PROVE  LET b == BaselinePlan(plan)
         IN  /\ b.hold = plan.hold /\ b.compute = plan.compute /\ b.demand = plan.demand
             /\ b.sources = plan.sources /\ b.gridEnergize = plan.gridEnergize
  BY DEF BaselinePlan, SitePlan

\* The plans Optimize goes on to search.
Searchable(plan) ==
  plan \in SitePlan /\ ~HasErrors(ValidateOptimize(plan)) /\ Sound(BaselinePlan(plan))

PolicyType == [maxPhases : Int, minKw : Int, maxKw : Int, minMonths : Int, maxShortfall : Int]

LEMMA SiteLemma ==
  ASSUME NEW plan, Searchable(plan)
  PROVE  /\ plan.hold \in Int /\ plan.hold >= 1
         /\ Target(plan) \in Int /\ Target(plan) > 0
         /\ plan.compute.pue \in Int /\ plan.compute.pue >= 100
         /\ plan.demand \in Seq(PointType) /\ DemandInRange(plan.demand)
         /\ NewSources(plan) \in Seq(SourceType)
         /\ FirmSources(plan) \in Seq(SourceType)
<1>. DEFINE b == BaselinePlan(plan)
            srcs == NewSources(plan)
<1>1. plan \in SitePlan /\ Sound(b)
  BY DEF Searchable
<1>2. /\ b.hold = plan.hold /\ b.compute = plan.compute /\ b.demand = plan.demand
      /\ b.sources = plan.sources
  BY <1>1, BaselineParts
<1>. HIDE DEF b
<1>3. b.hold \in Int /\ b.hold >= 1
  BY <1>1, HoldLemma
<1>4. InRange(b)
  BY <1>1, SoundRanges
<1>5. plan.compute.target > 0 /\ plan.compute.pue >= 100
  BY <1>2, <1>4 DEF InRange, ComputeInRange
<1>6. DemandInRange(plan.demand)
  BY <1>2, <1>4 DEF InRange
<1>7. /\ plan.compute.target \in Int /\ plan.compute.pue \in Int /\ plan.demand \in Seq(PointType)
  BY <1>1, PlanTyped DEF PointType
<1>8. srcs \in Seq(SourceType) /\ DOMAIN srcs = DOMAIN plan.sources
  BY <1>1, SourcesTyped
<1>9. \A i \in DOMAIN srcs : srcs[i].id = plan.sources[i].id /\ srcs[i] \in SourceType
  <2>1. \A i \in DOMAIN srcs : srcs[i] \in SourceType
    BY <1>8, PositionsLemma
  <2>2. \A i \in DOMAIN srcs : srcs[i].id = plan.sources[i].id
    BY <1>8 DEF NewSources
  <2>. QED BY <2>1, <2>2
<1>10. \A i \in DOMAIN srcs : srcs[i].id # 0
  <2>1. \A i \in DOMAIN plan.sources : plan.sources[i].id # 0
    BY <1>1, <1>2, SoundParts DEF MissingRequired
  <2>. QED BY <1>8, <1>9, <2>1
<1>11. \A i \in DOMAIN srcs : \A j \in 1 .. i - 1 : srcs[j].id # srcs[i].id
  <2>1. \A i \in DOMAIN plan.sources : \A j \in 1 .. i - 1 :
          plan.sources[i].id # 0 => plan.sources[j].id # plan.sources[i].id
    BY <1>2, <1>4 DEF InRange, SourcesInRange
  <2>2. DOMAIN srcs = 1 .. Len(srcs) /\ Len(srcs) \in Nat
    BY <1>8, PositionsLemma
  <2>3. \A i \in DOMAIN srcs : \A j \in 1 .. i - 1 : j \in DOMAIN srcs
    BY <2>2
  <2>. QED BY <1>8, <1>9, <1>10, <2>1, <2>3
<1>12. \A i, j \in DOMAIN srcs : srcs[i].id = srcs[j].id => i = j
  <2>1. DOMAIN srcs = 1 .. Len(srcs) /\ Len(srcs) \in Nat
    BY <1>8, PositionsLemma
  <2>. HIDE DEF srcs
  <2>2. \A i, j \in DOMAIN srcs : i # j => i \in 1 .. j - 1 \/ j \in 1 .. i - 1
    BY <2>1
  <2>. QED BY <1>11, <2>2
<1>13. Firm(srcs) \in Seq(SourceType)
  BY <1>8, <1>12, FirmLemma
<1>. QED BY <1>2, <1>3, <1>5, <1>6, <1>7, <1>8, <1>13 DEF Target, FirmSources

LEMMA PolicyLemma ==
  ASSUME NEW plan, Searchable(plan)
  PROVE  LET p == Policy(plan)
         IN  /\ p.maxPhases \in Int /\ p.minKw \in Int /\ p.maxKw \in Int
             /\ p.minMonths \in Int /\ p.maxShortfall \in Int
             /\ p.maxPhases \in 1 .. 8 /\ p.minKw > 0 /\ p.minKw <= p.maxKw
             /\ p.minMonths >= 0
<1>. DEFINE p == Policy(plan)
<1>1. plan \in SitePlan /\ ~HasErrors(ValidateOptimize(plan))
  BY DEF Searchable
<1>2. p \in PolicyType
  BY <1>1 DEF Policy, SitePlan, PolicyType
<1>3. ~HasErrors(ValidatePolicy(plan))
  <2>1. plan.phasing.mode = "OPTIMIZE"
    BY <1>1, ErrorLemma DEF ValidateOptimize
  <2>. QED BY <1>1, <2>1 DEF ValidateOptimize, HasErrors
<1>4. "policy" \notin plan.unset
  <2>. SUFFICES ASSUME "policy" \in plan.unset PROVE FALSE
    OBVIOUS
  <2>1. ValidatePolicy(plan) = {Error("MISSING_REQUIRED")}
    BY DEF ValidatePolicy
  <2>. QED BY <1>3, <2>1, ErrorLemma
<1>. HIDE DEF p
<1>. DEFINE bad == \/ p.maxPhases \notin 1 .. 8 \/ p.minKw <= 0 \/ p.maxKw < p.minKw
                   \/ p.minMonths < 0 \/ p.maxShortfall < 0
<1>5. ValidatePolicy(plan) = When(bad, Error("OUT_OF_RANGE"))
  BY <1>4 DEF ValidatePolicy, p
<1>6. ~bad
  <2>. HIDE DEF bad
  <2>. QED BY <1>3, <1>5, CheckedLemma
<1>7. /\ p.maxPhases \in Int /\ p.minKw \in Int /\ p.maxKw \in Int
      /\ p.minMonths \in Int /\ p.maxShortfall \in Int
  BY <1>2 DEF PolicyType
<1>8. p.maxPhases \in 1 .. 8 /\ p.minKw > 0 /\ p.minKw <= p.maxKw /\ p.minMonths >= 0
  BY <1>6, <1>7
<1>. QED BY <1>7, <1>8 DEF p

LEMMA ConstraintsLemma ==
  ASSUME NEW plan, Searchable(plan)
  PROVE  LET cons == Constraints(plan)
         IN  /\ Len(cons) \in Nat /\ DOMAIN cons = 1 .. Len(cons) /\ IsFiniteSet(DOMAIN cons)
             /\ \A i \in DOMAIN cons : cons[i].metric \in Metrics /\ cons[i].value \in Int
<1>. DEFINE own == plan.constraints
            p == Policy(plan)
            bound == [metric |-> "shortfall_mw_months", op |-> "LE",
                      value |-> p.maxShortfall * plan.hold]
            extra == IF p.maxShortfall > 0 THEN <<bound>> ELSE << >>
            S == {own[i] : i \in DOMAIN own} \cup {bound}
            cons == own \o extra
<1>1. plan \in SitePlan /\ ~HasErrors(ValidateOptimize(plan))
  BY DEF Searchable
<1>2. own \in Seq([metric : STRING, op : STRING, value : Int])
  BY <1>1 DEF SitePlan
<1>3. Len(own) \in Nat /\ DOMAIN own = 1 .. Len(own) /\ \A i \in DOMAIN own : own[i].value \in Int
  <2>. DEFINE C == [metric : STRING, op : STRING, value : Int]
  <2>1. \A c \in C : c.value \in Int
    OBVIOUS
  <2>. HIDE DEF C, own
  <2>. QED BY <1>2, <2>1, PositionsLemma DEF C
<1>4. \A i \in DOMAIN own : own[i].metric \in Metrics
  <2>. DEFINE bad == \E i \in DOMAIN own : own[i].metric \notin Metrics
              unknown == When(bad, Error("UNKNOWN_METRIC"))
  <2>1. plan.phasing.mode = "OPTIMIZE"
    BY <1>1, ErrorLemma DEF ValidateOptimize
  <2>2. unknown \subseteq ValidateOptimize(plan)
    BY <2>1 DEF ValidateOptimize, ValidateConstraints
  <2>. HIDE DEF bad
  <2>3. ~bad
    BY <1>1, <2>2, CheckedLemma
  <2>. QED BY <2>3 DEF bad
<1>5. bound.metric \in Metrics /\ bound.value \in Int
  <2>1. p.maxShortfall \in Int /\ plan.hold \in Int
    BY PolicyLemma, SiteLemma
  <2>. HIDE DEF p
  <2>. QED BY <2>1 DEF Metrics
<1>. HIDE DEF bound, own
<1>6. \A c \in S : c.metric \in Metrics /\ c.value \in Int
  BY <1>3, <1>4, <1>5
<1>7. own \in Seq(S)
  <2>1. own \in [1 .. Len(own) -> S]
    <3>1. own = [i \in 1 .. Len(own) |-> own[i]]
      BY <1>2, <1>3
    <3>. QED BY <1>3, <3>1
  <2>. HIDE DEF S
  <2>. QED BY <1>3, <2>1, TupleLemma
<1>8. extra \in Seq(S)
  <2>1. bound \in S
    BY DEF S
  <2>. HIDE DEF S
  <2>2. <<bound>> \in Seq(S) /\ << >> \in Seq(S)
    BY <2>1
  <2>. QED BY <2>2
<1>. HIDE DEF S, extra
<1>9. cons \in Seq(S)
  BY <1>7, <1>8, ConcatProperties
<1>10. Constraints(plan) = cons
  BY DEF Constraints, cons, own, extra, bound, p
<1>. HIDE DEF cons
<1>11. Len(cons) \in Nat /\ DOMAIN cons = 1 .. Len(cons) /\ IsFiniteSet(DOMAIN cons)
       /\ \A i \in DOMAIN cons : cons[i] \in S
  BY <1>9, PositionsLemma
<1>. QED BY <1>6, <1>10, <1>11

\* A phase of a candidate.
Slot(plan) == [kw : Int, energize : Int, src : 1 .. Len(FirmSources(plan))]

LEMMA ToPlanTyped ==
  ASSUME NEW plan, Searchable(plan), NEW cand \in Seq(Slot(plan))
  PROVE  ToPlan(plan, cand) \in SitePlan
<1>. DEFINE srcs == FirmSources(plan)
            Asked(k) == [id |-> k, kw |-> cand[k].kw,
                         start |-> AtLeast(cand[k].energize - ConstructionLeadMonths, 0),
                         energize |-> cand[k].energize,
                         source |-> IF cand[k].src = 0 THEN 0 ELSE srcs[cand[k].src].id,
                         cooling |-> "UNSET", footprint |-> 0]
            phases == [k \in 1 .. Len(cand) |-> Asked(k)]
<1>1. Len(cand) \in Nat /\ DOMAIN cand = 1 .. Len(cand) /\ \A k \in DOMAIN cand : cand[k] \in Slot(plan)
  BY PositionsLemma
<1>2. srcs \in Seq(SourceType)
  BY SiteLemma
<1>3. \A i \in 1 .. Len(srcs) : srcs[i].id \in Nat
  <2>. HIDE DEF srcs
  <2>1. \A i \in 1 .. Len(srcs) : srcs[i] \in SourceType
    BY <1>2, PositionsLemma
  <2>. QED BY <2>1 DEF SourceType
<1>4. ASSUME NEW k \in 1 .. Len(cand)
      PROVE  Asked(k) \in AskedPhase
  <2>1. cand[k].kw \in Int /\ cand[k].energize \in Int /\ cand[k].src \in 1 .. Len(srcs)
    BY <1>1 DEF Slot
  <2>2. AtLeast(cand[k].energize - ConstructionLeadMonths, 0) \in Int
    <3>1. cand[k].energize - ConstructionLeadMonths \in Int /\ 0 \in Int
      BY <2>1 DEF ConstructionLeadMonths
    <3>. QED BY <3>1, LargerLemma
  <2>3. srcs[cand[k].src].id \in Nat
    BY <1>3, <2>1
  <2>. HIDE DEF srcs
  <2>. QED BY <2>1, <2>2, <2>3 DEF AskedPhase
<1>. HIDE DEF Asked
<1>5. phases \in [1 .. Len(cand) -> AskedPhase]
  BY <1>4
<1>6. phases \in Seq(AskedPhase)
  <2>. HIDE DEF phases
  <2>. QED BY <1>1, <1>5, TupleLemma
<1>7. ToPlan(plan, cand) = [plan EXCEPT !.mode = "RUN_ANALYZE", !.phasing.mode = "EXPLICIT",
                                        !.phasing.phases = phases]
  BY <1>1 DEF ToPlan, phases, Asked, srcs
<1>. HIDE DEF phases
<1>8. plan \in SitePlan
  BY DEF Searchable
<1>. QED BY <1>6, <1>7, <1>8, RephasedTyped

-----------------------------------------------------------------------------
(* Scores *)

LEMMA MetricLemma ==
  ASSUME NEW m \in SummaryType, NEW metric \in Metrics
  PROVE  MetricValue(m, metric) \in Int
<1>1. /\ m.totalCapex \in Int /\ m.npv \in Int /\ m.timeToEnergize \in Int
      /\ m.kwOnlineFinal \in Int /\ m.stranded \in Int /\ m.shortfall \in Int
  BY DEF SummaryType
<1>. QED BY <1>1 DEF MetricValue, Metrics

\* Thousandths rounded up: no violation is rounded away.
LEMMA ViolationLemma ==
  ASSUME NEW m \in SummaryType, NEW con, con.metric \in Metrics, con.value \in Int
  PROVE  /\ Violation(con, m) \in Nat
         /\ Violation(con, m) = 0 => Satisfied(con, m)
<1>. DEFINE v == MetricValue(m, con.metric)
            bound == con.value
            abs == IF bound < 0 THEN -bound ELSE bound
            scale == AtLeast(1, abs)
            gap == v - bound
            distance == IF gap < 0 THEN -gap ELSE gap
            excess == CASE con.op = "LE" -> v - bound
                        [] con.op = "GE" -> bound - v
                        [] OTHER         -> distance
            over == AtLeast(0, excess)
            total == 1000 * over + scale - 1
<1>1. v \in Int /\ bound \in Int
  BY MetricLemma
<1>2. Violation(con, m) = total \div scale
  BY DEF Violation
<1>3. Satisfied(con, m) <=> CASE con.op = "LE" -> v <= bound
                              [] con.op = "GE" -> v >= bound
                              [] OTHER         -> v = bound
  BY DEF Satisfied
<1>. HIDE DEF v, bound
<1>4. abs \in Int
  BY <1>1
<1>5. scale \in Int /\ scale >= 1
  <2>. HIDE DEF abs
  <2>. QED BY <1>4, LargerLemma
<1>6. excess \in Int /\ (excess <= 0 => Satisfied(con, m))
  <2>1. distance \in Int /\ (distance <= 0 => v = bound)
    BY <1>1
  <2>. HIDE DEF distance
  <2>2. CASE con.op = "LE"
    <3>1. excess = v - bound
      BY <2>2
    <3>. HIDE DEF excess
    <3>. QED BY <1>1, <1>3, <2>2, <3>1
  <2>3. CASE con.op = "GE"
    <3>1. excess = bound - v
      BY <2>3
    <3>. HIDE DEF excess
    <3>. QED BY <1>1, <1>3, <2>3, <3>1
  <2>4. CASE con.op # "LE" /\ con.op # "GE"
    <3>1. excess = distance
      BY <2>4
    <3>. HIDE DEF excess
    <3>. QED BY <1>3, <2>1, <2>4, <3>1
  <2>. QED BY <2>2, <2>3, <2>4
<1>. HIDE DEF excess, scale
<1>7. over \in Int /\ over >= 0 /\ over >= excess
  BY <1>6, LargerLemma
<1>. HIDE DEF over
<1>8. total \in Int /\ total >= 0
  BY <1>5, <1>7
<1>9. total \div scale \in Int /\ scale * (total \div scale) <= total
      /\ total < scale * (total \div scale) + scale
  <2>. HIDE DEF total
  <2>. QED BY <1>5, <1>8, DivisionLemma
<1>10. 0 <= total \div scale
  <2>1. scale * 0 <= total
    BY <1>5, <1>8
  <2>. HIDE DEF total
  <2>. QED BY <1>5, <1>8, <2>1, QuotientLemma
<1>11. total \div scale = 0 => excess <= 0
  <2>. SUFFICES ASSUME total \div scale = 0 PROVE excess <= 0
    OBVIOUS
  <2>1. total < scale
    BY <1>5, <1>9
  <2>2. over < 1
    BY <1>5, <1>7, <2>1
  <2>. QED BY <1>6, <1>7, <2>2
<1>. QED BY <1>2, <1>6, <1>9, <1>10, <1>11

LEMMA ObjectiveTyped ==
  ASSUME NEW plan, NEW norm \in SummaryType, NEW m \in SummaryType
  PROVE  ObjectiveValue(plan, norm, m) \in Int
<1>1. /\ m.lcoc \in Int /\ m.timeToEnergize \in Int /\ m.captured \in Int /\ m.stranded \in Int
      /\ norm.stranded \in Int /\ norm.lcoc \in Int
  BY DEF SummaryType
<1>2. ASSUME NEW value \in Int, NEW scale \in Int
      PROVE  InScaleOf(value, scale) \in Int
  <2>. DEFINE d == IF scale > 0 THEN scale ELSE 1
  <2>1. d \in Int /\ d > 0 /\ 1000 * value \in Int
    OBVIOUS
  <2>. HIDE DEF d
  <2>2. (1000 * value) \div d \in Int
    BY <2>1, DivisionLemma
  <2>. QED BY <2>2 DEF InScaleOf, d
<1>3. InScaleOf(m.stranded, norm.stranded) + InScaleOf(m.lcoc, norm.lcoc) \in Int
  <2>1. InScaleOf(m.stranded, norm.stranded) \in Int
    BY <1>1, <1>2
  <2>2. InScaleOf(m.lcoc, norm.lcoc) \in Int
    BY <1>1, <1>2
  <2>. QED BY <2>1, <2>2
<1>. QED BY <1>1, <1>3 DEF ObjectiveValue

\* What a score says of the analysis it was made from.
LEMMA ScoreTyped ==
  ASSUME NEW plan, Searchable(plan), NEW norm \in SummaryType, NEW cand, NEW res,
         res.status # "INVALID_INPUT" => res.summary \in SummaryType
  PROVE  LET e == Score(plan, norm, cand, res)
         IN  /\ e.cand = cand /\ e.diags = res.diags
             /\ e.feasible \in BOOLEAN /\ e.objective \in Int /\ e.violation \in Int
             /\ e.feasible =>
                  /\ res.status # "INVALID_INPUT" /\ res.allPassed
                  /\ \A i \in DOMAIN Constraints(plan) : Satisfied(Constraints(plan)[i], res.summary)
<1>. DEFINE cons == Constraints(plan)
            V(i) == Violation(cons[i], res.summary)
            f == [i \in DOMAIN cons |-> V(i)]
            violation == SumFunction(f)
            e == Score(plan, norm, cand, res)
<1>. SUFFICES /\ e.cand = cand /\ e.diags = res.diags
              /\ e.feasible \in BOOLEAN /\ e.objective \in Int /\ e.violation \in Int
              /\ e.feasible =>
                   /\ res.status # "INVALID_INPUT" /\ res.allPassed
                   /\ \A i \in DOMAIN cons : Satisfied(cons[i], res.summary)
  OBVIOUS
<1>1. CASE res.status = "INVALID_INPUT" \/ ~res.allPassed
  <2>1. e = [cand |-> cand, feasible |-> FALSE, objective |-> 0,
             violation |-> Infinite, violated |-> {}, diags |-> res.diags]
    BY <1>1 DEF Score
  <2>. HIDE DEF e
  <2>2. e.cand = cand /\ e.diags = res.diags /\ e.objective = 0 /\ e.violation = Infinite
    BY <2>1
  <2>3. e.objective \in Int /\ e.violation \in Int
    BY <2>2 DEF Infinite
  <2>4. e.feasible = FALSE
    BY <2>1
  <2>5. e.feasible \in BOOLEAN /\ ~e.feasible
    BY <2>4, Zenon
  <2>. HIDE DEF cons
  <2>. QED BY <2>2, <2>3, <2>5
<1>2. CASE res.status # "INVALID_INPUT" /\ res.allPassed
  <2>1. e = [cand |-> cand, feasible |-> violation = 0,
             objective |-> ObjectiveValue(plan, norm, res.summary),
             violation |-> violation, violated |-> {i \in DOMAIN cons : V(i) > 0},
             diags |-> res.diags]
    BY <1>2 DEF Score
  <2>2. res.summary \in SummaryType
    BY <1>2
  <2>3. IsFiniteSet(DOMAIN cons) /\ \A i \in DOMAIN cons : cons[i].metric \in Metrics /\ cons[i].value \in Int
    BY ConstraintsLemma
  <2>. HIDE DEF cons
  <2>4. \A i \in DOMAIN cons : V(i) \in Nat /\ (V(i) = 0 => Satisfied(cons[i], res.summary))
    BY <2>2, <2>3, ViolationLemma
  <2>. HIDE DEF V
  <2>5. f \in [DOMAIN cons -> Nat] /\ \A i \in DOMAIN cons : f[i] = V(i)
    BY <2>4
  <2>. HIDE DEF f
  <2>6. violation \in Nat /\ (violation = 0 => \A i \in DOMAIN cons : f[i] = 0)
    BY <2>3, <2>5, SumNat
  <2>. HIDE DEF violation
  <2>7. ObjectiveValue(plan, norm, res.summary) \in Int
    BY <2>2, ObjectiveTyped
  <2>. HIDE DEF e
  <2>8. /\ e.cand = cand /\ e.diags = res.diags /\ e.feasible = (violation = 0)
        /\ e.objective = ObjectiveValue(plan, norm, res.summary) /\ e.violation = violation
    BY <2>1
  <2>9. e.feasible \in BOOLEAN /\ e.objective \in Int /\ e.violation \in Int
    BY <2>6, <2>7, <2>8
  <2>10. e.feasible => \A i \in DOMAIN cons : Satisfied(cons[i], res.summary)
    BY <2>4, <2>5, <2>6, <2>8
  <2>11. e.cand = cand /\ e.diags = res.diags
    BY <2>8
  <2>12. e.feasible => res.status # "INVALID_INPUT" /\ res.allPassed
    BY <1>2
  <2>. HIDE DEF cons
  <2>. QED BY <2>9, <2>10, <2>11, <2>12
<1>. QED BY <1>1, <1>2

\* The same for the analysis of a candidate.
LEMMA CandidateScored ==
  ASSUME NEW plan, Searchable(plan), NEW norm \in SummaryType, NEW cand \in Seq(Slot(plan))
  PROVE  LET res == Analyze(ToPlan(plan, cand))
             e == Score(plan, norm, cand, res)
         IN  /\ e.feasible \in BOOLEAN /\ e.objective \in Int /\ e.violation \in Int
             /\ e.feasible =>
                  /\ res.status \in {"OK", "OK_WITH_WARNINGS"} /\ res.failed = {}
                  /\ \A i \in DOMAIN Constraints(plan) : Satisfied(Constraints(plan)[i], res.summary)
<1>. DEFINE res == Analyze(ToPlan(plan, cand))
            e == Score(plan, norm, cand, res)
<1>1. ToPlan(plan, cand) \in SitePlan
  BY ToPlanTyped
<1>2. /\ res.status \in {"INVALID_INPUT", "OK_WITH_WARNINGS", "OK"}
      /\ res.summary \in SummaryType
      /\ res.status # "INVALID_INPUT" => (res.allPassed <=> res.failed = {})
  BY <1>1, AnalyzeTyped
<1>. HIDE DEF res
<1>3. /\ e.feasible \in BOOLEAN /\ e.objective \in Int /\ e.violation \in Int
      /\ e.feasible =>
           /\ res.status # "INVALID_INPUT" /\ res.allPassed
           /\ \A i \in DOMAIN Constraints(plan) : Satisfied(Constraints(plan)[i], res.summary)
  BY <1>2, ScoreTyped
<1>. HIDE DEF e
<1>. QED BY <1>2, <1>3 DEF e, res

-----------------------------------------------------------------------------
(* The source assignments *)

LEMMA FiniteFunctions ==
  ASSUME NEW S, IsFiniteSet(S), NEW T, IsFiniteSet(T)
  PROVE  IsFiniteSet([S -> T])
<1>. DEFINE D == [S -> T]
            P == SUBSET (S \X T)
            graph == [f \in D |-> {p \in S \X T : f[p[1]] = p[2]}]
<1>1. IsFiniteSet(P)
  BY FS_Product, FS_SUBSET
<1>2. graph \in [D -> P]
  OBVIOUS
<1>3. ASSUME NEW f \in D, NEW g \in D, graph[f] = graph[g]
      PROVE  f = g
  <2>1. ASSUME NEW x \in S
        PROVE  f[x] = g[x]
    <3>1. <<x, f[x]>> \in graph[f]
      OBVIOUS
    <3>2. <<x, f[x]>> \in graph[g]
      BY <1>3, <3>1
    <3>. QED BY <3>2
  <2>. QED BY <2>1
<1>. HIDE DEF graph, D, P
<1>4. graph \in Injection(D, P)
  BY <1>2, <1>3 DEF Injection, IsInjective
<1>5. IsFiniteSet(D)
  BY <1>1, <1>4, FS_Injection
<1>. QED BY <1>5 DEF D

\* A source for each of n phases, none before that of an earlier phase.
Assigned(n, sources) == {a \in [1 .. n -> 1 .. sources] : \A k \in 2 .. n : a[k - 1] <= a[k]}

LEMMA AssignmentsLemma ==
  ASSUME NEW n \in Nat, NEW m \in Nat
  PROVE  Assignments(n, m) \in Seq(Assigned(n, m))
<1>. DEFINE all == Assigned(n, m)
            Before(a, b) == \E k \in 1 .. n : a[k] < b[k] /\ \A j \in 1 .. k - 1 : a[j] = b[j]
            below == [a \in all |-> {b \in all : Before(b, a)}]
            Rank(a) == Cardinality({b \in all : Before(b, a)}) + 1
            size == Cardinality(all)
            listed == [r \in 1 .. size |-> CHOOSE a \in all : Rank(a) = r]
<1>1. IsFiniteSet(all)
  <2>1. IsFiniteSet(1 .. n) /\ IsFiniteSet(1 .. m)
    BY FS_Interval
  <2>2. IsFiniteSet([1 .. n -> 1 .. m])
    BY <2>1, FiniteFunctions
  <2>3. all \in SUBSET [1 .. n -> 1 .. m]
    BY DEF Assigned
  <2>. HIDE DEF all
  <2>. QED BY <2>2, <2>3, FS_Subset
<1>2. \A a \in all, k \in 1 .. n : a[k] \in Int
  BY DEF Assigned
<1>3. \A a, b \in all : a # b => \E k \in 1 .. n : a[k] # b[k]
  BY DEF Assigned
<1>. HIDE DEF all
<1>4. \A a \in all : ~Before(a, a)
  BY <1>2
<1>5. ASSUME NEW a \in all, NEW b \in all, NEW c \in all, Before(a, b), Before(b, c)
      PROVE  Before(a, c)
  <2>1. PICK i \in 1 .. n : a[i] < b[i] /\ \A j \in 1 .. i - 1 : a[j] = b[j]
    BY <1>5
  <2>2. PICK l \in 1 .. n : b[l] < c[l] /\ \A j \in 1 .. l - 1 : b[j] = c[j]
    BY <1>5
  <2>. DEFINE k == IF i <= l THEN i ELSE l
  <2>3. k \in 1 .. n /\ \A j \in 1 .. k - 1 : j \in 1 .. i - 1 /\ j \in 1 .. l - 1
    OBVIOUS
  <2>4. \A j \in 1 .. k - 1 : a[j] = c[j]
    BY <2>1, <2>2, <2>3
  <2>5. a[k] < c[k]
    <3>1. /\ a[i] \in Int /\ b[i] \in Int /\ c[i] \in Int
          /\ a[l] \in Int /\ b[l] \in Int /\ c[l] \in Int
      BY <1>2
    <3>2. CASE i < l
      <4>1. i \in 1 .. l - 1 /\ k = i
        BY <3>2
      <4>. QED BY <2>1, <2>2, <3>1, <4>1
    <3>3. CASE i = l
      BY <2>1, <2>2, <3>1, <3>3
    <3>4. CASE i > l
      <4>1. l \in 1 .. i - 1 /\ k = l
        BY <3>4
      <4>. QED BY <2>1, <2>2, <3>1, <4>1
    <3>. QED BY <3>2, <3>3, <3>4
  <2>. HIDE DEF k
  <2>. QED BY <2>3, <2>4, <2>5
<1>6. ASSUME NEW a \in all, NEW b \in all, a # b
      PROVE  Before(a, b) \/ Before(b, a)
  <2>. DEFINE T == {k \in 1 .. n : a[k] # b[k]}
  <2>1. T \subseteq Nat /\ T # {}
    BY <1>3, <1>6
  <2>. HIDE DEF T
  <2>2. PICK k \in T : \A j \in T : k <= j
    BY <2>1, LeastNat
  <2>3. k \in 1 .. n /\ a[k] # b[k] /\ \A j \in 1 .. k - 1 : a[j] = b[j]
    BY <2>2 DEF T
  <2>4. a[k] < b[k] \/ b[k] < a[k]
    BY <1>2, <2>3
  <2>. QED BY <2>3, <2>4
<1>7. below \in [all -> SUBSET all]
  OBVIOUS
<1>8. \A a, b \in all : b \in below[a] <=> Before(b, a)
  OBVIOUS
<1>9. \A a \in all : Rank(a) = Cardinality(below[a]) + 1
  OBVIOUS
<1>. HIDE DEF below, Before, Rank
<1>10. \A a \in all : a \notin below[a]
  BY <1>4, <1>8
<1>11. \A a \in all : \A b \in below[a] : below[b] \subseteq below[a]
  BY <1>5, <1>7, <1>8
<1>12. \A a, b \in all : a # b => b \in below[a] \/ a \in below[b]
  BY <1>6, <1>8
<1>13. size \in Nat /\ \A r \in 1 .. size : \E a \in all : Rank(a) = r
  BY <1>1, <1>7, <1>9, <1>10, <1>11, <1>12, RankLemma
<1>. HIDE DEF size
<1>14. listed \in [1 .. size -> all]
  BY <1>13
<1>15. Assignments(n, m) = listed
  BY DEF Assignments, Assigned, all, size, listed, Rank, Before
<1>. HIDE DEF listed
<1>16. listed \in Seq(all)
  BY <1>13, <1>14, TupleLemma
<1>. QED BY <1>15, <1>16 DEF all

\* What the search may seed with: an assignment for a number of phases that can sum to the
\* target.
Assignable(plan) ==
  UNION {Assigned(n, Len(FirmSources(plan))) :
           n \in {n \in 1 .. Policy(plan).maxPhases : CountFits(plan, n)}}

LEMMA CombosLemma ==
  ASSUME NEW plan, Searchable(plan)
  PROVE  Combos(plan) \in Seq(Assignable(plan))
<1>. DEFINE m == Len(FirmSources(plan))
            count == Policy(plan).maxPhases
            V == Seq(Assignable(plan))
            Of(n) == IF CountFits(plan, n) THEN Assignments(n, m) ELSE << >>
            Body(g) == [n \in 0 .. count |-> IF n = 0 THEN << >> ELSE g[n - 1] \o Of(n)]
            upTo == CHOOSE g : g = Body(g)
            G == [n \in 1 .. count |-> [v \in V |-> v \o Of(n)]]
<1>1. count \in Nat
  BY PolicyLemma
<1>2. m \in Nat
  <2>1. FirmSources(plan) \in Seq(SourceType)
    BY SiteLemma
  <2>. QED BY <2>1, PositionsLemma
<1>3. << >> \in V
  OBVIOUS
<1>4. ASSUME NEW n \in 1 .. count
      PROVE  Of(n) \in V
  <2>1. CASE CountFits(plan, n)
    <3>1. Of(n) = Assignments(n, m) /\ n \in Nat
      BY <1>1, <2>1
    <3>2. Of(n) \in Seq(Assigned(n, m))
      BY <1>2, <3>1, AssignmentsLemma
    <3>3. Assigned(n, m) \subseteq Assignable(plan)
      BY <2>1 DEF Assignable
    <3>. HIDE DEF Of
    <3>. QED BY <3>2, <3>3
  <2>2. CASE ~CountFits(plan, n)
    BY <1>3, <2>2
  <2>. QED BY <2>1, <2>2
<1>. HIDE DEF Of, m
<1>5. \A v, w \in V : v \o w \in V
  BY ConcatProperties
<1>. HIDE DEF V
<1>6. G \in Steps(count, V)
  BY <1>4, <1>5 DEF Steps
<1>7. \A n \in 1 .. count, v \in V : G[n][v] = v \o Of(n)
  OBVIOUS
<1>. HIDE DEF G, count
<1>8. PICK g \in [0 .. count -> V] : g[0] = << >> /\ \A n \in 1 .. count : g[n] = G[n][g[n - 1]]
  <2>1. Runs(count, V, << >>, G) # {}
    BY <1>1, <1>3, <1>6, RecursionLemma
  <2>. QED BY <2>1 DEF Runs
<1>9. ASSUME NEW n \in 1 .. count
      PROVE  g[n] = g[n - 1] \o Of(n)
  <2>1. g[n - 1] \in V
    BY <1>1
  <2>. QED BY <1>7, <1>8, <2>1
<1>10. g = Body(g)
  <2>1. ASSUME NEW n \in 0 .. count
        PROVE  g[n] = IF n = 0 THEN << >> ELSE g[n - 1] \o Of(n)
    <3>1. n = 0 \/ n \in 1 .. count
      BY <1>1
    <3>. QED BY <1>8, <1>9, <3>1
  <2>2. g = [n \in 0 .. count |-> g[n]]
    BY <1>8
  <2>. QED BY <2>1, <2>2
<1>11. upTo = Body(upTo)
  BY <1>10
<1>12. CombosUpTo(plan, count) = upTo[count]
  BY DEF CombosUpTo, Of, m
<1>. HIDE DEF upTo
<1>13. upTo[0] = << >> /\ \A n \in 1 .. count : upTo[n] = upTo[n - 1] \o Of(n)
  <2>1. 0 \in 0 .. count /\ \A n \in 1 .. count : n \in 0 .. count /\ n # 0
    BY <1>1
  <2>2. \A n \in 0 .. count : upTo[n] = IF n = 0 THEN << >> ELSE upTo[n - 1] \o Of(n)
    BY <1>11
  <2>. QED BY <2>1, <2>2
<1>. DEFINE N == {n \in Nat : n <= count => upTo[n] \in V}
<1>14. 0 \in N
  BY <1>3, <1>13
<1>15. ASSUME NEW n \in Nat, n \in N
       PROVE  n + 1 \in N
  <2>1. CASE n + 1 <= count
    <3>1. n + 1 \in 1 .. count /\ (n + 1) - 1 = n /\ n <= count
      BY <1>1, <2>1
    <3>2. upTo[n + 1] = upTo[n] \o Of(n + 1)
      BY <1>13, <3>1
    <3>3. upTo[n] \in V
      BY <1>15, <3>1
    <3>4. Of(n + 1) \in V
      BY <1>4, <3>1
    <3>5. upTo[n] \o Of(n + 1) \in V
      BY <1>5, <3>3, <3>4
    <3>6. upTo[n + 1] \in V
      BY <3>2, <3>5, Zenon
    <3>. QED BY <3>6
  <2>2. CASE ~(n + 1 <= count)
    BY <2>2
  <2>. QED BY <2>1, <2>2
<1>. HIDE DEF N
<1>16. count \in N
  BY <1>1, <1>14, <1>15, InductionOnNat
<1>. DEFINE all == upTo[count]
<1>17. all \in Seq(Assignable(plan))
  BY <1>1, <1>16 DEF N, V
<1>18. Combos(plan) = SubSeq(all, 1, AtMost(Len(all), MaxAssignments))
  BY <1>12 DEF Combos, count
<1>. HIDE DEF all
<1>19. Len(all) \in Nat /\ MaxAssignments \in Nat
  BY <1>17, PositionsLemma, PhasingAssumption
<1>20. AtMost(Len(all), MaxAssignments) \in Int /\ AtMost(Len(all), MaxAssignments) <= Len(all)
  <2>1. Len(all) \in Int /\ MaxAssignments \in Int
    BY <1>19
  <2>. QED BY <2>1, LargerLemma
<1>. DEFINE last == AtMost(Len(all), MaxAssignments)
<1>. HIDE DEF last
<1>21. SubSeq(all, 1, last) \in Seq(Assignable(plan))
  <2>1. \A i \in 1 .. last : i \in 1 .. Len(all)
    BY <1>19, <1>20 DEF last
  <2>2. \A i \in 1 .. last : all[i] \in Assignable(plan)
    BY <1>17, <2>1, PositionsLemma
  <2>. QED BY <1>17, <1>20, <2>2, SubSeqProperties DEF last
<1>. QED BY <1>18, <1>21 DEF last

-----------------------------------------------------------------------------
(* Seeds *)

LEMMA FitLemma ==
  ASSUME NEW plan, Searchable(plan), NEW e0 \in Int, NEW cum \in Int, NEW lo \in Int,
         NEW hi \in Int, NEW own \in Int
  PROVE  LET fit == Fit(plan, FirmSources(plan), e0, cum, lo, hi, own)
         IN  fit.ok =>
               /\ fit.energize \in Int /\ fit.energize >= e0 /\ fit.energize < plan.hold
               /\ fit.kw \in Int
               /\ lo <= hi => lo <= fit.kw /\ fit.kw <= hi
<1>. DEFINE srcs == FirmSources(plan)
            pue == plan.compute.pue
            Allowed(e) == WholeMw(AtMost((100 * FirmSupplyAt(srcs, e)) \div pue - cum, own))
            months == {e \in e0 .. plan.hold - 1 : Allowed(e) >= lo}
            e    == Min(months)
            gap  == WholeMw(DemandAt(plan.demand, e) - cum)
            want == AtMost(AtLeast(gap, lo), hi)
            kw   == AtMost(want, Allowed(e))
            fit == Fit(plan, srcs, e0, cum, lo, hi, own)
<1>. SUFFICES ASSUME fit.ok
              PROVE  /\ fit.energize \in Int /\ fit.energize >= e0 /\ fit.energize < plan.hold
                     /\ fit.kw \in Int
                     /\ lo <= hi => lo <= fit.kw /\ fit.kw <= hi
  OBVIOUS
<1>1. /\ plan.hold \in Int /\ pue \in Int /\ pue > 0 /\ srcs \in Seq(SourceType)
      /\ plan.demand \in Seq(PointType) /\ DemandInRange(plan.demand)
  BY SiteLemma
<1>2. fit = IF own < lo \/ months = {} THEN [ok |-> FALSE]
            ELSE [ok |-> TRUE, energize |-> e, kw |-> kw]
  BY DEF Fit
<1>3. ASSUME NEW x \in Int
      PROVE  WholeMw(x) \in Int
  <2>1. x \div 1000 \in Int
    BY DivisionLemma
  <2>. QED BY <2>1 DEF WholeMw
<1>4. ASSUME NEW t \in Int
      PROVE  Allowed(t) \in Int
  <2>. HIDE DEF srcs, pue
  <2>1. FirmSupplyAt(srcs, t) \in Int
    BY <1>1, SupplyTyped
  <2>2. (100 * FirmSupplyAt(srcs, t)) \div pue \in Int
    <3>1. 100 * FirmSupplyAt(srcs, t) \in Int
      BY <2>1
    <3>. QED BY <1>1, <3>1, DivisionLemma
  <2>3. (100 * FirmSupplyAt(srcs, t)) \div pue - cum \in Int
    BY <2>2
  <2>4. AtMost((100 * FirmSupplyAt(srcs, t)) \div pue - cum, own) \in Int
    BY <2>3, LargerLemma
  <2>. QED BY <1>3, <2>4
<1>. HIDE DEF Allowed, srcs, pue
<1>5. months # {} /\ fit.energize = e /\ fit.kw = kw
  <2>1. CASE own < lo \/ months = {}
    <3>1. fit = [ok |-> FALSE]
      BY <1>2, <2>1
    <3>. HIDE DEF fit
    <3>2. fit.ok = FALSE
      BY <3>1
    <3>. QED BY <3>2
  <2>2. CASE ~(own < lo \/ months = {})
    <3>. DEFINE made == [ok |-> TRUE, energize |-> e, kw |-> kw]
    <3>1. fit = made
      BY <1>2, <2>2
    <3>2. made.energize = e /\ made.kw = kw
      OBVIOUS
    <3>. HIDE DEF made, fit, months, e, kw
    <3>3. fit.energize = e /\ fit.kw = kw
      BY <3>1, <3>2
    <3>. QED BY <2>2, <3>3
  <2>. QED BY <2>1, <2>2
<1>. HIDE DEF fit
<1>6. months \subseteq e0 .. plan.hold - 1 /\ months \subseteq Int /\ IsFiniteSet(months)
  <2>1. plan.hold - 1 \in Int
    BY <1>1
  <2>2. IsFiniteSet(e0 .. plan.hold - 1)
    BY <2>1, FS_Interval
  <2>3. months \in SUBSET (e0 .. plan.hold - 1)
    OBVIOUS
  <2>. HIDE DEF months
  <2>4. IsFiniteSet(months)
    BY <2>2, <2>3, FS_Subset
  <2>. QED BY <2>3, <2>4
<1>7. e \in months
  <2>. HIDE DEF months
  <2>. QED BY <1>5, <1>6, ExtremeLemma
<1>. HIDE DEF e
<1>8. e \in Int /\ e >= e0 /\ e < plan.hold /\ Allowed(e) >= lo
  BY <1>1, <1>7
<1>. HIDE DEF months
<1>9. gap \in Int
  <2>1. DemandAt(plan.demand, e) \in Int
    <3>1. DemandAt(plan.demand, e) \in Nat
      BY <1>1, <1>8, DemandTyped
    <3>. QED BY <3>1
  <2>2. DemandAt(plan.demand, e) - cum \in Int
    BY <2>1
  <2>. QED BY <1>3, <2>2
<1>. HIDE DEF gap
<1>. DEFINE up == AtLeast(gap, lo)
<1>10. up \in Int /\ up >= lo
  BY <1>9, LargerLemma
<1>11. want = AtMost(up, hi)
  OBVIOUS
<1>. HIDE DEF up, want
<1>12. want \in Int /\ want = (IF up <= hi THEN up ELSE hi)
  BY <1>10, <1>11, LargerLemma
<1>13. Allowed(e) \in Int
  BY <1>4, <1>8
<1>14. kw \in Int /\ kw = (IF want <= Allowed(e) THEN want ELSE Allowed(e))
  BY <1>12, <1>13, LargerLemma
<1>. HIDE DEF kw
<1>15. lo <= hi => lo <= kw /\ kw <= hi
  BY <1>8, <1>10, <1>12, <1>13, <1>14
<1>. QED BY <1>5, <1>8, <1>14, <1>15

LEMMA TotalLemma ==
  ASSUME NEW plan, NEW cand \in Seq(Slot(plan))
  PROVE  /\ Total(cand) \in Int
         /\ \A s \in Slot(plan) : Total(Append(cand, s)) = Total(cand) + s.kw
<1>. DEFINE n == Len(cand)
            f == [k \in 1 .. n |-> cand[k].kw]
<1>1. n \in Nat /\ DOMAIN cand = 1 .. n /\ \A k \in 1 .. n : cand[k] \in Slot(plan)
  BY PositionsLemma
<1>2. \A s \in Slot(plan) : s.kw \in Int
  BY DEF Slot
<1>. HIDE DEF n
<1>3. f \in [1 .. n -> Int] /\ IsFiniteSet(1 .. n)
  BY <1>1, <1>2, FS_Interval
<1>4. Total(cand) = SumFunction(f)
  BY <1>1 DEF Total
<1>5. SumFunction(f) \in Int
  <2>. HIDE DEF f
  <2>. QED BY <1>3, SumLemma
<1>6. ASSUME NEW s \in Slot(plan)
      PROVE  Total(Append(cand, s)) = Total(cand) + s.kw
  <2>. DEFINE t == Append(cand, s)
              g == [k \in 1 .. n + 1 |-> t[k].kw]
  <2>1. /\ Len(t) = n + 1 /\ DOMAIN t = 1 .. n + 1
        /\ \A k \in 1 .. n : t[k] = cand[k]
        /\ t[n + 1] = s
    <3>1. t \in Seq(Slot(plan)) /\ Len(t) = n + 1 /\ (\A k \in 1 .. n : t[k] = cand[k]) /\ t[n + 1] = s
      BY AppendProperties DEF n
    <3>2. DOMAIN t = 1 .. Len(t)
      BY <3>1, PositionsLemma
    <3>. QED BY <3>1, <3>2
  <2>. HIDE DEF t
  <2>2. Total(t) = SumFunction(g)
    BY <2>1 DEF Total
  <2>3. \A k \in 1 .. n + 1 : k \in 1 .. n \/ k = n + 1
    BY <1>1
  <2>4. \A k \in 1 .. n + 1 : g[k] = t[k].kw /\ t[k].kw \in Int
    BY <1>1, <1>2, <2>1, <2>3
  <2>5. g \in [1 .. n + 1 -> Int] /\ IsFiniteSet(1 .. n + 1)
    BY <1>1, <2>4, FS_Interval
  <2>6. n + 1 \in (1 .. n + 1) \ (1 .. n) /\ 1 .. n \in SUBSET (1 .. n + 1)
        /\ (1 .. n) \cup {n + 1} = 1 .. n + 1
    BY <1>1
  <2>7. g[n + 1] = s.kw
    BY <1>1, <2>1
  <2>8. Restrict(g, 1 .. n) = f
    BY <2>1, <2>6 DEF Restrict
  <2>. HIDE DEF g, f
  <2>9. SumFunction(Restrict(g, (1 .. n) \cup {n + 1})) = g[n + 1] + SumFunction(Restrict(g, 1 .. n))
    <3>. DEFINE S == 1 .. n + 1
                T == 1 .. n
                x == n + 1
    <3>1. x \in S \ T /\ T \in SUBSET S /\ IsFiniteSet(S) /\ g \in [S -> Int]
      BY <2>5, <2>6
    <3>. HIDE DEF S, T, x
    <3>2. SumFunction(Restrict(g, T \cup {x})) = g[x] + SumFunction(Restrict(g, T))
      BY <3>1, SumGrow
    <3>. QED BY <3>2 DEF S, T, x
  <2>10. Restrict(g, 1 .. n + 1) = g
    BY <2>5, RestrictAll
  <2>11. SumFunction(g) = s.kw + SumFunction(f)
    BY <2>6, <2>7, <2>8, <2>9, <2>10
  <2>12. s.kw \in Int
    BY <1>2
  <2>. QED BY <1>4, <1>5, <2>2, <2>11, <2>12 DEF t
<1>. QED BY <1>4, <1>5, <1>6

\* What NextPhase leaves a phase with so much of the target to go and so many after it.
LeastKw(plan, left, rest) ==
  IF rest = 0 THEN left ELSE AtLeast(Policy(plan).minKw, left - rest * Policy(plan).maxKw)
MostKw(plan, left, rest) ==
  IF rest = 0 THEN left ELSE AtMost(Policy(plan).maxKw, left - rest * Policy(plan).minKw)

\* What is left of the target can still be divided over so many phases.
Divisible(plan, left, rest) ==
  rest * Policy(plan).minKw <= left /\ left <= rest * Policy(plan).maxKw

LEMMA ShareLemma ==
  ASSUME NEW plan, Searchable(plan), NEW rest \in Nat, NEW left \in Int,
         Divisible(plan, left, rest + 1)
  PROVE  LET lo == LeastKw(plan, left, rest)
             hi == MostKw(plan, left, rest)
         IN  /\ lo \in Int /\ hi \in Int /\ lo <= hi
             /\ Policy(plan).minKw <= lo /\ hi <= Policy(plan).maxKw
             /\ \A kw \in Int : lo <= kw /\ kw <= hi => Divisible(plan, left - kw, rest)
<1>. DEFINE min == Policy(plan).minKw
            max == Policy(plan).maxKw
            a == rest * min
            b == rest * max
            lo == LeastKw(plan, left, rest)
            hi == MostKw(plan, left, rest)
<1>. SUFFICES /\ lo \in Int /\ hi \in Int /\ lo <= hi
              /\ min <= lo /\ hi <= max
              /\ \A kw \in Int : lo <= kw /\ kw <= hi => Divisible(plan, left - kw, rest)
  OBVIOUS
<1>1. min \in Int /\ max \in Int /\ min > 0 /\ min <= max
  BY PolicyLemma
<1>2. lo = (IF rest = 0 THEN left ELSE AtLeast(min, left - b))
      /\ hi = (IF rest = 0 THEN left ELSE AtMost(max, left - a))
  BY DEF LeastKw, MostKw
<1>3. (rest + 1) * min <= left /\ left <= (rest + 1) * max
  BY DEF Divisible
<1>4. \A kw : Divisible(plan, left - kw, rest) <=> a <= left - kw /\ left - kw <= b
  BY DEF Divisible
<1>. HIDE DEF min, max, lo, hi
<1>5. a \in Int /\ b \in Int /\ a <= b /\ (rest = 0 => a = 0 /\ b = 0)
      /\ (rest + 1) * min = a + min /\ (rest + 1) * max = b + max
  BY <1>1
<1>. HIDE DEF a, b
<1>6. a + min <= left /\ left <= b + max
  BY <1>3, <1>5
<1>7. CASE rest = 0
  <2>1. lo = left /\ hi = left /\ a = 0 /\ b = 0
    BY <1>2, <1>5, <1>7
  <2>2. \A kw \in Int : lo <= kw /\ kw <= hi => a <= left - kw /\ left - kw <= b
    BY <2>1
  <2>. QED BY <1>1, <1>4, <1>6, <2>1, <2>2
<1>8. CASE rest # 0
  <2>. DEFINE x == left - b
              y == left - a
  <2>1. x \in Int /\ y \in Int /\ lo = AtLeast(min, x) /\ hi = AtMost(max, y)
    BY <1>2, <1>5, <1>8
  <2>2. /\ lo = IF min >= left - b THEN min ELSE left - b
        /\ hi = IF max <= left - a THEN max ELSE left - a
    <3>. HIDE DEF x, y
    <3>1. AtLeast(min, x) = IF min >= x THEN min ELSE x
      BY <1>1, <2>1, LargerLemma
    <3>2. AtMost(max, y) = IF max <= y THEN max ELSE y
      BY <1>1, <2>1, LargerLemma
    <3>. QED BY <2>1, <3>1, <3>2 DEF x, y
  <2>3. lo \in Int /\ hi \in Int /\ lo <= hi /\ min <= lo /\ hi <= max
        /\ left - b <= lo /\ hi <= left - a
    BY <1>1, <1>5, <1>6, <2>1, <2>2
  <2>4. \A kw \in Int : lo <= kw /\ kw <= hi => a <= left - kw /\ left - kw <= b
    BY <1>5, <2>3
  <2>. QED BY <1>4, <2>3, <2>4
<1>. QED BY <1>7, <1>8

LEMMA PlaceLemma ==
  ASSUME NEW plan, Searchable(plan), NEW n \in Nat,
         NEW assign \in Assigned(n, Len(FirmSources(plan))),
         NEW cand \in Seq(Slot(plan)), NEW k \in 1 .. n, Len(cand) = k - 1
  PROVE  LET left == Target(plan) - Total(cand)
             lo   == LeastKw(plan, left, n - k)
             hi   == MostKw(plan, left, n - k)
             next == Place(plan, FirmSources(plan), assign, cand, assign[k])
         IN  \/ next = << >>
             \/ \E s \in Slot(plan) :
                  /\ next = Append(cand, s)
                  /\ s.src = assign[k] /\ s.energize < plan.hold
                  /\ k > 1 => s.energize >= cand[k - 1].energize + Policy(plan).minMonths
                  /\ lo \in Int /\ hi \in Int /\ lo <= hi => lo <= s.kw /\ s.kw <= hi
<1>. DEFINE p    == Policy(plan)
            left == Target(plan) - Total(cand)
            rest == n - k
            lo   == LeastKw(plan, left, rest)
            hi   == MostKw(plan, left, rest)
            srcs == FirmSources(plan)
            src  == assign[k]
            pue  == plan.compute.pue
            ready == srcs[src].ready
            e0   == IF k = 1 THEN ready ELSE AtLeast(ready, cand[k - 1].energize + p.minMonths)
            sharing == {j \in DOMAIN cand : cand[j].src = src}
            used == SumFunction([j \in sharing |-> cand[j].kw * pue])
            own  == (100 * srcs[src].capacity - used) \div pue
            fit  == Fit(plan, srcs, e0, Total(cand), lo, hi, own)
            next == Place(plan, srcs, assign, cand, src)
<1>1. /\ Len(cand) \in Nat /\ DOMAIN cand = 1 .. Len(cand) /\ IsFiniteSet(DOMAIN cand)
      /\ \A j \in DOMAIN cand : cand[j] \in Slot(plan)
  BY PositionsLemma
<1>2. rest \in Nat /\ k \in Int /\ Len(cand) + 1 = k
  BY <1>1
<1>3. /\ Target(plan) \in Int /\ pue \in Int /\ pue > 0 /\ srcs \in Seq(SourceType)
  BY SiteLemma
<1>4. p.minKw \in Int /\ p.maxKw \in Int /\ p.minMonths \in Int
  BY PolicyLemma
<1>5. src \in 1 .. Len(srcs) /\ Len(assign) = n
  <2>1. assign \in [1 .. n -> 1 .. Len(srcs)]
    BY DEF Assigned
  <2>. HIDE DEF srcs
  <2>2. Len(assign) = n
    BY <2>1, TupleLemma
  <2>. QED BY <1>2, <2>1, <2>2
<1>. HIDE DEF src
<1>6. ready \in Int /\ srcs[src].capacity \in Int
  <2>1. srcs[src] \in SourceType
    <3>. HIDE DEF srcs
    <3>. QED BY <1>3, <1>5, PositionsLemma
  <2>. HIDE DEF srcs
  <2>. QED BY <2>1 DEF SourceType
<1>7. \A j \in DOMAIN cand : cand[j].kw \in Int /\ cand[j].energize \in Int
  BY <1>1 DEF Slot
<1>8. Total(cand) \in Int /\ left \in Int
  BY <1>3, TotalLemma
<1>9. lo \in Int /\ hi \in Int
  <2>. HIDE DEF left, rest
  <2>1. rest * p.maxKw \in Int /\ rest * p.minKw \in Int
    BY <1>2, <1>4
  <2>. DEFINE x == left - rest * p.maxKw
              y == left - rest * p.minKw
  <2>2. x \in Int /\ y \in Int
    BY <1>8, <2>1
  <2>3. /\ lo = IF rest = 0 THEN left ELSE AtLeast(p.minKw, x)
        /\ hi = IF rest = 0 THEN left ELSE AtMost(p.maxKw, y)
    BY DEF LeastKw, MostKw
  <2>. HIDE DEF x, y, p, lo, hi
  <2>4. AtLeast(p.minKw, x) \in Int
    BY <1>4, <2>2, LargerLemma
  <2>5. AtMost(p.maxKw, y) \in Int
    BY <1>4, <2>2, LargerLemma
  <2>. QED BY <1>8, <2>3, <2>4, <2>5
<1>10. e0 \in Int /\ (k > 1 => e0 >= cand[k - 1].energize + p.minMonths)
  <2>1. CASE k = 1
    BY <1>6, <2>1
  <2>2. CASE k # 1
    <3>1. k - 1 \in DOMAIN cand
      BY <1>1, <1>2, <2>2
    <3>2. cand[k - 1].energize + p.minMonths \in Int
      BY <1>4, <1>7, <3>1
    <3>. DEFINE earliest == cand[k - 1].energize + p.minMonths
    <3>3. e0 = AtLeast(ready, earliest) /\ earliest \in Int
      BY <2>2, <3>2
    <3>. HIDE DEF earliest, ready, e0
    <3>4. e0 \in Int /\ e0 >= earliest
      BY <1>6, <3>3, LargerLemma
    <3>. QED BY <3>4 DEF earliest
  <2>. QED BY <2>1, <2>2
<1>11. own \in Int
  <2>. DEFINE f == [j \in sharing |-> cand[j].kw * pue]
  <2>1. IsFiniteSet(sharing)
    <3>1. sharing \in SUBSET DOMAIN cand
      OBVIOUS
    <3>. HIDE DEF sharing
    <3>. QED BY <1>1, <3>1, FS_Subset
  <2>2. \A j \in sharing : cand[j].kw * pue \in Int
    BY <1>3, <1>7
  <2>. HIDE DEF sharing
  <2>3. f \in [sharing -> Int]
    BY <2>2
  <2>. HIDE DEF f
  <2>4. SumFunction(f) \in Int
    BY <2>1, <2>3, SumLemma
  <2>5. used \in Int
    BY <2>4 DEF f
  <2>. HIDE DEF used, pue, srcs
  <2>6. 100 * srcs[src].capacity - used \in Int
    BY <1>6, <2>5
  <2>. QED BY <1>3, <2>6, DivisionLemma
<1>12. fit.ok => /\ fit.energize \in Int /\ fit.energize >= e0 /\ fit.energize < plan.hold
                 /\ fit.kw \in Int
                 /\ lo <= hi => lo <= fit.kw /\ fit.kw <= hi
  <2>. DEFINE cum == Total(cand)
  <2>1. cum \in Int
    BY <1>8
  <2>. HIDE DEF e0, lo, hi, own, cum
  <2>. QED BY <1>9, <1>10, <1>11, <2>1, FitLemma DEF cum
<1>13. NextPhase(plan, srcs, assign, cand, Total(cand), own) = fit
  BY <1>2, <1>5 DEF NextPhase, LeastKw, MostKw, src
<1>14. next = IF fit.ok
              THEN Append(cand, [kw |-> fit.kw, energize |-> fit.energize, src |-> src])
              ELSE << >>
  BY <1>13 DEF Place
<1>. HIDE DEF fit, next, lo, hi, e0, srcs
<1>15. CASE fit.ok
  <2>. DEFINE s == [kw |-> fit.kw, energize |-> fit.energize, src |-> src]
  <2>1. s \in Slot(plan) /\ s.kw = fit.kw /\ s.energize = fit.energize /\ s.src = src
    BY <1>5, <1>12, <1>15 DEF Slot, srcs
  <2>2. next = Append(cand, s)
    BY <1>14, <1>15
  <2>3. k > 1 => fit.energize >= cand[k - 1].energize + p.minMonths
    <3>. SUFFICES ASSUME k > 1 PROVE fit.energize >= cand[k - 1].energize + p.minMonths
      OBVIOUS
    <3>1. k - 1 \in DOMAIN cand
      BY <1>1, <1>2
    <3>2. cand[k - 1].energize + p.minMonths \in Int
      BY <1>4, <1>7, <3>1
    <3>. QED BY <1>10, <1>12, <1>15, <3>2
  <2>. HIDE DEF s
  <2>4. /\ s.src = src /\ s.energize < plan.hold
        /\ k > 1 => s.energize >= cand[k - 1].energize + p.minMonths
        /\ lo <= hi => lo <= s.kw /\ s.kw <= hi
    BY <1>12, <1>15, <2>1, <2>3
  <2>. QED BY <2>1, <2>2, <2>4 DEF next, lo, hi, srcs, src
<1>16. CASE ~fit.ok
  BY <1>14, <1>16 DEF next, srcs, src
<1>. QED BY <1>15, <1>16

\* The first phases of a seed: in order, within the policy, and with something left for the
\* others that they can share.
Started(plan, assign, n, k, cand) ==
  /\ cand \in Seq(Slot(plan)) /\ Len(cand) = k
  /\ Divisible(plan, Target(plan) - Total(cand), n - k)
  /\ \A j \in 1 .. k :
       /\ cand[j].kw \in Policy(plan).minKw .. Policy(plan).maxKw
       /\ cand[j].energize < plan.hold /\ cand[j].src = assign[j]
       /\ j > 1 => cand[j].energize >= cand[j - 1].energize + Policy(plan).minMonths

LEMMA StartedLemma ==
  ASSUME NEW plan, Searchable(plan), NEW n \in Nat,
         NEW assign \in Assigned(n, Len(FirmSources(plan))),
         NEW k \in 1 .. n, NEW cand, Started(plan, assign, n, k - 1, cand),
         NEW next, next = Place(plan, FirmSources(plan), assign, cand, assign[k]), next # << >>
  PROVE  Started(plan, assign, n, k, next)
<1>. DEFINE p    == Policy(plan)
            left == Target(plan) - Total(cand)
            rest == n - k
            lo   == LeastKw(plan, left, rest)
            hi   == MostKw(plan, left, rest)
<1>1. cand \in Seq(Slot(plan)) /\ Len(cand) = k - 1 /\ Divisible(plan, left, n - (k - 1))
  BY DEF Started
<1>2. rest \in Nat /\ rest + 1 = n - (k - 1) /\ Len(cand) < n /\ Len(cand) + 1 = k
  BY <1>1
<1>3. left \in Int /\ Total(cand) \in Int /\ Target(plan) \in Int
  BY <1>1, SiteLemma, TotalLemma
<1>4. PICK s \in Slot(plan) :
        /\ next = Append(cand, s)
        /\ s.src = assign[k] /\ s.energize < plan.hold
        /\ k > 1 => s.energize >= cand[k - 1].energize + p.minMonths
        /\ lo \in Int /\ hi \in Int /\ lo <= hi => lo <= s.kw /\ s.kw <= hi
  BY <1>1, <1>2, PlaceLemma
<1>. HIDE DEF left, rest, lo, hi
<1>5. Divisible(plan, left, rest + 1)
  BY <1>1, <1>2
<1>6. /\ lo \in Int /\ hi \in Int /\ lo <= hi /\ p.minKw <= lo /\ hi <= p.maxKw
      /\ \A kw \in Int : lo <= kw /\ kw <= hi => Divisible(plan, left - kw, rest)
  BY <1>2, <1>3, <1>5, ShareLemma DEF lo, hi
<1>7. s.kw \in Int
  BY DEF Slot
<1>8. p.minKw \in Int /\ p.maxKw \in Int
  BY PolicyLemma
<1>. HIDE DEF p
<1>9. s.kw \in p.minKw .. p.maxKw /\ Divisible(plan, left - s.kw, rest)
  BY <1>4, <1>6, <1>7, <1>8
<1>10. Total(next) = Total(cand) + s.kw
  BY <1>1, <1>4, TotalLemma
<1>11. Divisible(plan, Target(plan) - Total(next), n - k)
  <2>1. Target(plan) - Total(next) = left - s.kw
    BY <1>3, <1>7, <1>10 DEF left
  <2>. QED BY <1>9, <2>1 DEF rest
<1>12. /\ next \in Seq(Slot(plan)) /\ Len(next) = k
       /\ \A j \in 1 .. k - 1 : next[j] = cand[j]
       /\ next[k] = s
  <2>1. /\ next \in Seq(Slot(plan)) /\ Len(next) = Len(cand) + 1
        /\ \A j \in 1 .. Len(cand) : next[j] = cand[j]
        /\ next[Len(cand) + 1] = s
    BY <1>1, <1>4, AppendProperties
  <2>. QED BY <1>1, <1>2, <2>1
<1>13. ASSUME NEW j \in 1 .. k
       PROVE  /\ next[j].kw \in p.minKw .. p.maxKw
              /\ next[j].energize < plan.hold /\ next[j].src = assign[j]
              /\ j > 1 => next[j].energize >= next[j - 1].energize + p.minMonths
  <2>1. CASE j = k
    <3>1. k > 1 => next[k - 1] = cand[k - 1]
      BY <1>12
    <3>. QED BY <1>4, <1>9, <1>12, <2>1, <3>1
  <2>2. CASE j \in 1 .. k - 1
    <3>1. next[j] = cand[j] /\ (j > 1 => next[j - 1] = cand[j - 1])
      BY <1>12, <2>2
    <3>2. /\ cand[j].kw \in p.minKw .. p.maxKw
          /\ cand[j].energize < plan.hold /\ cand[j].src = assign[j]
          /\ j > 1 => cand[j].energize >= cand[j - 1].energize + p.minMonths
      BY <2>2 DEF Started, p
    <3>. QED BY <3>1, <3>2
  <2>. QED BY <2>1, <2>2
<1>. QED BY <1>11, <1>12, <1>13 DEF Started, p

\* The candidates of a search: within the policy, and for the whole of the target.
Legal(plan, cand) == cand \in Seq(Slot(plan)) /\ ObeysPolicy(plan, cand)

LEMMA SeedLemma ==
  ASSUME NEW plan, Searchable(plan), NEW assign \in Assignable(plan), Seed(plan, assign) # << >>
  PROVE  Legal(plan, Seed(plan, assign))
<1>. DEFINE m == Len(FirmSources(plan))
            V == Seq(Slot(plan))
<1>1. PICK n \in 1 .. Policy(plan).maxPhases : CountFits(plan, n) /\ assign \in Assigned(n, m)
  BY DEF Assignable
<1>2. /\ n \in Nat /\ n >= 1 /\ assign \in [1 .. n -> 1 .. m]
      /\ \A k \in 2 .. n : assign[k - 1] <= assign[k]
  BY <1>1, PolicyLemma DEF Assigned
<1>3. Len(assign) = n
  <2>. HIDE DEF m
  <2>. QED BY <1>2, TupleLemma
<1>. DEFINE Placed(cand, k) ==
              IF Len(cand) = k - 1
              THEN Place(plan, FirmSources(plan), assign, cand, assign[k])
              ELSE << >>
            Body(g) == [k \in 0 .. n |-> IF k = 0 THEN << >> ELSE Placed(g[k - 1], k)]
            first == CHOOSE g : g = Body(g)
            G == [k \in 1 .. n |-> [cand \in V |-> Placed(cand, k)]]
<1>4. ASSUME NEW k \in 1 .. n, NEW cand \in V
      PROVE  Placed(cand, k) \in V
  <2>1. << >> \in V
    OBVIOUS
  <2>2. CASE Len(cand) = k - 1
    <3>1. Placed(cand, k) = Place(plan, FirmSources(plan), assign, cand, assign[k])
      BY <1>2, <2>2
    <3>. DEFINE next == Place(plan, FirmSources(plan), assign, cand, assign[k])
    <3>2. next = << >> \/ \E s \in Slot(plan) : next = Append(cand, s)
      <4>1. assign \in Assigned(n, Len(FirmSources(plan))) /\ cand \in Seq(Slot(plan))
        BY <1>1
      <4>. DEFINE Goes(s) ==
             /\ next = Append(cand, s)
             /\ s.src = assign[k] /\ s.energize < plan.hold
             /\ k > 1 => s.energize >= cand[k - 1].energize + Policy(plan).minMonths
             /\ LET left == Target(plan) - Total(cand)
                    lo   == LeastKw(plan, left, n - k)
                    hi   == MostKw(plan, left, n - k)
                IN  lo \in Int /\ hi \in Int /\ lo <= hi => lo <= s.kw /\ s.kw <= hi
      <4>2. next = << >> \/ \E s \in Slot(plan) : Goes(s)
        BY <1>2, <2>2, <4>1, PlaceLemma
      <4>3. \A s : Goes(s) => next = Append(cand, s)
        OBVIOUS
      <4>. HIDE DEF Goes, next
      <4>. QED BY <4>2, <4>3
    <3>. HIDE DEF Placed, next
    <3>3. \A s \in Slot(plan) : Append(cand, s) \in V
      BY AppendProperties
    <3>. QED BY <2>1, <3>1, <3>2, <3>3 DEF next
  <2>3. CASE Len(cand) # k - 1
    BY <2>1, <2>3
  <2>. QED BY <2>2, <2>3
<1>5. << >> \in V
  OBVIOUS
<1>. HIDE DEF V, m, Placed
<1>6. G \in Steps(n, V)
  BY <1>4 DEF Steps
<1>7. \A k \in 1 .. n, cand \in V : G[k][cand] = Placed(cand, k)
  OBVIOUS
<1>. HIDE DEF G
<1>8. PICK g \in [0 .. n -> V] : g[0] = << >> /\ \A k \in 1 .. n : g[k] = G[k][g[k - 1]]
  <2>1. Runs(n, V, << >>, G) # {}
    BY <1>2, <1>5, <1>6, RecursionLemma
  <2>. QED BY <2>1 DEF Runs
<1>9. ASSUME NEW k \in 1 .. n
      PROVE  g[k] = Placed(g[k - 1], k)
  <2>1. g[k - 1] \in V
    BY <1>2
  <2>. QED BY <1>7, <1>8, <2>1
<1>10. g = Body(g)
  <2>1. ASSUME NEW k \in 0 .. n
        PROVE  g[k] = IF k = 0 THEN << >> ELSE Placed(g[k - 1], k)
    <3>1. k = 0 \/ k \in 1 .. n
      BY <1>2
    <3>. QED BY <1>8, <1>9, <3>1
  <2>2. g = [k \in 0 .. n |-> g[k]]
    BY <1>8
  <2>. QED BY <2>1, <2>2
<1>11. first = Body(first)
  BY <1>10
<1>12. Seed(plan, assign) = first[n]
  BY <1>3 DEF Seed, Placed
<1>. HIDE DEF first
<1>13. first[0] = << >> /\ \A k \in 1 .. n : first[k] = Placed(first[k - 1], k)
  <2>1. 0 \in 0 .. n /\ \A k \in 1 .. n : k \in 0 .. n /\ k # 0
    BY <1>2
  <2>2. \A k \in 0 .. n : first[k] = IF k = 0 THEN << >> ELSE Placed(first[k - 1], k)
    BY <1>11
  <2>. QED BY <2>1, <2>2
<1>. DEFINE Fine(k) == Started(plan, assign, n, k, first[k]) \/ (k >= 1 /\ first[k] = << >>)
            N == {k \in Nat : k <= n => Fine(k)}
<1>14. 0 \in N
  <2>1. << >> \in Seq(Slot(plan)) /\ Len(<< >>) = 0
    OBVIOUS
  <2>2. Total(<< >>) = 0
    <3>. DEFINE f == [k \in DOMAIN << >> |-> << >>[k].kw]
    <3>1. DOMAIN f = {} /\ Total(<< >>) = SumFunction(f)
      BY DEF Total
    <3>. HIDE DEF f
    <3>. QED BY <3>1, EmptySum
  <2>3. Target(plan) - 0 = Target(plan) /\ n - 0 = n
    BY <1>2, SiteLemma
  <2>4. Divisible(plan, Target(plan) - Total(<< >>), n - 0)
    BY <1>1, <2>2, <2>3 DEF Divisible, CountFits
  <2>5. Started(plan, assign, n, 0, << >>)
    BY <2>1, <2>4 DEF Started
  <2>. QED BY <1>13, <2>5
<1>15. ASSUME NEW k \in Nat, k \in N
       PROVE  k + 1 \in N
  <2>. SUFFICES ASSUME k + 1 <= n PROVE Fine(k + 1)
    OBVIOUS
  <2>1. k + 1 \in 1 .. n /\ (k + 1) - 1 = k /\ k <= n
    BY <1>2
  <2>2. first[k + 1] = Placed(first[k], k + 1)
    BY <1>13, <2>1
  <2>3. Fine(k)
    BY <1>15, <2>1
  <2>4. CASE k >= 1 /\ first[k] = << >>
    <3>1. Len(first[k]) = 0
      BY <2>4
    <3>2. Len(first[k]) # (k + 1) - 1
      BY <2>1, <2>4, <3>1
    <3>3. first[k + 1] = << >>
      BY <2>2, <3>2 DEF Placed
    <3>. QED BY <3>3
  <2>5. CASE Started(plan, assign, n, k, first[k])
    <3>1. Len(first[k]) = (k + 1) - 1
      BY <2>1, <2>5 DEF Started
    <3>2. first[k + 1] = Place(plan, FirmSources(plan), assign, first[k], assign[k + 1])
      BY <2>2, <3>1 DEF Placed
    <3>3. first[k + 1] # << >> => Started(plan, assign, n, k + 1, first[k + 1])
      BY <1>1, <1>2, <2>1, <2>5, <3>2, StartedLemma DEF m
    <3>. QED BY <3>3
  <2>. QED BY <2>3, <2>4, <2>5
<1>. HIDE DEF N
<1>16. n \in N
  BY <1>2, <1>14, <1>15, InductionOnNat
<1>. DEFINE cand == Seed(plan, assign)
<1>17. Started(plan, assign, n, n, cand)
  BY <1>2, <1>12, <1>16 DEF N
<1>. HIDE DEF cand, Fine
<1>18. cand \in Seq(Slot(plan)) /\ Len(cand) = n /\ DOMAIN cand = 1 .. n
  <2>1. cand \in Seq(Slot(plan)) /\ Len(cand) = n
    BY <1>17 DEF Started
  <2>. QED BY <2>1, PositionsLemma
<1>19. Total(cand) = Target(plan)
  <2>1. Divisible(plan, Target(plan) - Total(cand), 0)
    <3>1. n - n = 0
      BY <1>2
    <3>. QED BY <1>17, <3>1 DEF Started
  <2>2. Total(cand) \in Int /\ Target(plan) \in Int
    BY <1>18, TotalLemma, SiteLemma
  <2>3. Policy(plan).minKw \in Int /\ Policy(plan).maxKw \in Int
    BY PolicyLemma
  <2>4. 0 * Policy(plan).minKw = 0 /\ 0 * Policy(plan).maxKw = 0
    BY <2>3
  <2>. QED BY <2>1, <2>2, <2>4 DEF Divisible
<1>20. ASSUME NEW k \in DOMAIN cand
       PROVE  /\ cand[k].kw \in Policy(plan).minKw .. Policy(plan).maxKw
              /\ cand[k].energize < plan.hold
              /\ k > 1 => /\ cand[k].energize >= cand[k - 1].energize + Policy(plan).minMonths
                          /\ cand[k].src >= cand[k - 1].src
  <2>1. k \in 1 .. n
    BY <1>18
  <2>2. /\ cand[k].kw \in Policy(plan).minKw .. Policy(plan).maxKw
        /\ cand[k].energize < plan.hold /\ cand[k].src = assign[k]
        /\ k > 1 => cand[k].energize >= cand[k - 1].energize + Policy(plan).minMonths
    BY <1>17, <2>1 DEF Started
  <2>3. k > 1 => cand[k - 1].src = assign[k - 1] /\ assign[k - 1] <= assign[k]
                 /\ assign[k - 1] \in Int /\ assign[k] \in Int
    <3>. SUFFICES ASSUME k > 1
                  PROVE  cand[k - 1].src = assign[k - 1] /\ assign[k - 1] <= assign[k]
                         /\ assign[k - 1] \in Int /\ assign[k] \in Int
      OBVIOUS
    <3>1. k \in 2 .. n /\ k - 1 \in 1 .. n
      BY <1>2, <2>1
    <3>2. cand[k - 1].src = assign[k - 1]
      BY <1>17, <3>1 DEF Started
    <3>3. assign[k - 1] \in Int /\ assign[k] \in Int
      BY <1>2, <2>1, <3>1
    <3>. QED BY <1>2, <3>1, <3>2, <3>3
  <2>. QED BY <2>2, <2>3
<1>21. n \in 1 .. Policy(plan).maxPhases
  BY <1>1
<1>22. ObeysPolicy(plan, cand)
  BY <1>18, <1>19, <1>20, <1>21 DEF ObeysPolicy
<1>. QED BY <1>18, <1>22 DEF Legal, cand

-----------------------------------------------------------------------------
(* The moves *)

\* A candidate with one phase replaced by another of the same source.
LEMMA ReplacedLemma ==
  ASSUME NEW plan, NEW cand \in Seq(Slot(plan)), NEW k \in DOMAIN cand,
         NEW s \in Slot(plan), s.src = cand[k].src
  PROVE  LET next == [cand EXCEPT ![k] = s]
         IN  /\ next \in Seq(Slot(plan)) /\ Len(next) = Len(cand) /\ DOMAIN next = DOMAIN cand
             /\ Total(cand) \in Int /\ Total(next) = Total(cand) + (s.kw - cand[k].kw)
             /\ \A i \in DOMAIN cand : next[i].src = cand[i].src
<1>. DEFINE n == Len(cand)
            S == DOMAIN cand
            next == [cand EXCEPT ![k] = s]
            d == s.kw - cand[k].kw
            f == [i \in S |-> cand[i].kw]
            g == [i \in S |-> next[i].kw]
<1>. SUFFICES /\ next \in Seq(Slot(plan)) /\ Len(next) = Len(cand) /\ DOMAIN next = DOMAIN cand
              /\ Total(cand) \in Int /\ Total(next) = Total(cand) + d
              /\ \A i \in DOMAIN cand : next[i].src = cand[i].src
  OBVIOUS
<1>1. /\ n \in Nat /\ DOMAIN cand = 1 .. n /\ IsFiniteSet(S)
      /\ \A i \in 1 .. n : cand[i] \in Slot(plan)
  BY PositionsLemma
<1>2. next \in [1 .. n -> Slot(plan)] /\ next[k] = s
      /\ \A i \in 1 .. n \ {k} : next[i] = cand[i]
  <2>1. cand \in [1 .. n -> Slot(plan)]
    BY <1>1, LenProperties
  <2>. QED BY <1>1, <2>1
<1>. HIDE DEF next
<1>3. next \in Seq(Slot(plan)) /\ Len(next) = n /\ DOMAIN next = 1 .. n
  BY <1>1, <1>2, TupleLemma
<1>4. s.kw \in Int /\ cand[k].kw \in Int /\ d \in Int
  BY <1>1 DEF Slot
<1>5. Total(cand) = SumFunction(f) /\ Total(next) = SumFunction(g)
  BY <1>1, <1>3 DEF Total
<1>6. f \in [S -> Int] /\ g \in [S -> Int]
  BY <1>1, <1>2 DEF Slot
<1>7. k \in S /\ g[k] = f[k] + d /\ \A i \in S \ {k} : g[i] = f[i]
  BY <1>1, <1>2, <1>4
<1>8. \A i \in S : next[i].src = cand[i].src
  BY <1>1, <1>2
<1>9. IsFiniteSet(S) /\ d \in Int
  BY <1>1, <1>4
<1>. HIDE DEF S, f, g, d, n
<1>11. SumFunction(g) = SumFunction(f) + d
  BY <1>6, <1>7, <1>9, SumBump
<1>10. SumFunction(f) \in Int
  BY <1>6, <1>9, SumLemma
<1>. QED BY <1>1, <1>3, <1>5, <1>8, <1>10, <1>11 DEF S, n

LEMMA MovedLemma ==
  ASSUME NEW plan, Searchable(plan), NEW cand, Legal(plan, cand), NEW k \in DOMAIN cand,
         NEW move \in 1 .. MovesPerPhase, NEW next, next = Moved(plan, cand, k, move),
         next # << >>, Valid(plan, next)
  PROVE  Legal(plan, next) /\ Len(next) = Len(cand)
<1>. DEFINE p == Policy(plan)
<1>1. cand \in Seq(Slot(plan)) /\ ObeysPolicy(plan, cand)
  BY DEF Legal
<1>2. /\ p.minKw \in Int /\ p.maxKw \in Int /\ p.minMonths \in Int
  BY PolicyLemma
<1>3. Len(cand) \in Nat /\ DOMAIN cand = 1 .. Len(cand)
  BY <1>1, PositionsLemma
<1>. HIDE DEF p
<1>4. /\ next \in Seq(Slot(plan)) /\ Len(next) = Len(cand)
      /\ Total(next) = Total(cand)
      /\ \A i \in DOMAIN cand : next[i].src = cand[i].src
  <2>1. CASE move <= Len(EnergizeDeltas)
    <3>. DEFINE d == EnergizeDeltas[move]
                at == [cand[k] EXCEPT !.energize = @ + d]
    <3>1. d \in Int /\ next = [cand EXCEPT ![k] = at]
      BY <2>1 DEF Moved, EnergizeDeltas, MovesPerPhase
    <3>2. cand[k] \in Slot(plan)
      BY <1>1, PositionsLemma
    <3>3. cand[k].kw \in Int
      BY <3>2 DEF Slot
    <3>4. at \in Slot(plan) /\ at.kw = cand[k].kw /\ at.src = cand[k].src
      BY <3>1, <3>2 DEF Slot
    <3>. HIDE DEF at
    <3>. DEFINE res == [cand EXCEPT ![k] = at]
    <3>5. /\ res \in Seq(Slot(plan)) /\ Len(res) = Len(cand)
          /\ Total(cand) \in Int /\ Total(res) = Total(cand) + (at.kw - cand[k].kw)
          /\ \A i \in DOMAIN cand : res[i].src = cand[i].src
      BY <1>1, <3>4, ReplacedLemma
    <3>6. res = next
      BY <3>1
    <3>. HIDE DEF res
    <3>. QED BY <3>3, <3>4, <3>5, <3>6
  <2>2. CASE ~(move <= Len(EnergizeDeltas))
    <3>1. PICK d \in Int : next = Resized(cand, k, d)
      <4>1. -p.minKw \in Int
        BY <1>2
      <4>2. next = Resized(cand, k, IF move = MovesPerPhase THEN -p.minKw ELSE p.minKw)
        BY <2>2 DEF Moved, p
      <4>. QED BY <1>2, <4>1, <4>2
    <3>. DEFINE other == IF k < Len(cand) THEN k + 1 ELSE k - 1
    <3>2. other # 0 /\ next = [cand EXCEPT ![k].kw = @ + d, ![other].kw = @ - d]
      BY <3>1 DEF Resized
    <3>3. other \in DOMAIN cand /\ other # k
      BY <1>3, <3>2
    <3>. HIDE DEF other
    <3>4. cand[k] \in Slot(plan) /\ cand[other] \in Slot(plan)
      BY <1>1, <3>3, PositionsLemma
    <3>5. cand[k].kw \in Int /\ cand[other].kw \in Int /\ -d \in Int
      BY <3>4 DEF Slot
    <3>. DEFINE at  == [cand[k] EXCEPT !.kw = @ + d]
                to  == [cand[other] EXCEPT !.kw = @ + (-d)]
                mid == [cand EXCEPT ![k] = at]
    <3>6. at \in Slot(plan) /\ at.kw = cand[k].kw + d /\ at.src = cand[k].src
      BY <3>4, <3>5 DEF Slot
    <3>7. to \in Slot(plan) /\ to.kw = cand[other].kw + (-d) /\ to.src = cand[other].src
      BY <3>4, <3>5 DEF Slot
    <3>8. next = [mid EXCEPT ![other] = to] /\ mid[other] = cand[other]
      <4>1. to = [cand[other] EXCEPT !.kw = @ - d]
        BY <3>5
      <4>2. mid[other] = cand[other]
        BY <3>3
      <4>. HIDE DEF to
      <4>. QED BY <1>3, <3>2, <3>3, <4>1, <4>2
    <3>. HIDE DEF at, to
    <3>9. /\ mid \in Seq(Slot(plan)) /\ Len(mid) = Len(cand) /\ DOMAIN mid = DOMAIN cand
          /\ Total(cand) \in Int /\ Total(mid) = Total(cand) + (at.kw - cand[k].kw)
          /\ \A i \in DOMAIN cand : mid[i].src = cand[i].src
      BY <1>1, <3>6, ReplacedLemma
    <3>. HIDE DEF mid
    <3>10. /\ next \in Seq(Slot(plan)) /\ Len(next) = Len(mid)
           /\ Total(next) = Total(mid) + (to.kw - mid[other].kw)
           /\ \A i \in DOMAIN mid : next[i].src = mid[i].src
      <4>. DEFINE res == [mid EXCEPT ![other] = to]
      <4>1. /\ res \in Seq(Slot(plan)) /\ Len(res) = Len(mid)
            /\ Total(res) = Total(mid) + (to.kw - mid[other].kw)
            /\ \A i \in DOMAIN mid : res[i].src = mid[i].src
        <5>1. mid \in Seq(Slot(plan)) /\ other \in DOMAIN mid
          BY <3>3, <3>9
        <5>2. to.src = mid[other].src
          BY <3>7, <3>8
        <5>. QED BY <3>7, <5>1, <5>2, ReplacedLemma
      <4>2. res = next
        BY <3>8
      <4>. HIDE DEF res
      <4>. QED BY <4>1, <4>2
    <3>11. Total(next) = Total(cand)
      BY <3>5, <3>6, <3>7, <3>8, <3>9, <3>10
    <3>. QED BY <3>9, <3>10, <3>11
  <2>. QED BY <2>1, <2>2
<1>5. DOMAIN next = DOMAIN cand
  BY <1>3, <1>4, PositionsLemma
<1>6. Len(cand) \in 1 .. p.maxPhases /\ Total(cand) = Target(plan)
  BY <1>1 DEF ObeysPolicy, p
<1>7. \A i \in DOMAIN cand : i > 1 => cand[i].src >= cand[i - 1].src
  BY <1>1 DEF ObeysPolicy
<1>8. \A i \in DOMAIN next :
        /\ next[i].kw \in p.minKw .. p.maxKw
        /\ next[i].energize < plan.hold
        /\ i > 1 => next[i].energize >= next[i - 1].energize + p.minMonths
  BY DEF Valid, ValidOver, p
<1>9. ASSUME NEW i \in DOMAIN next, i > 1
      PROVE  next[i].src >= next[i - 1].src
  <2>1. i - 1 \in DOMAIN cand
    BY <1>3, <1>5, <1>9
  <2>. QED BY <1>4, <1>5, <1>7, <1>9, <2>1
<1>10. ObeysPolicy(plan, next)
  BY <1>4, <1>6, <1>8, <1>9 DEF ObeysPolicy, p
<1>. QED BY <1>4, <1>10 DEF Legal

-----------------------------------------------------------------------------
(* The order of the entries *)

\* Better is a strict weak order.
LEMMA BetterLemma ==
  ASSUME NEW a, NEW b, NEW c, Comparable(a), Comparable(b), Comparable(c)
  PROVE  /\ ~Better(a, a)
         /\ Better(a, b) => ~Better(b, a)
         /\ Better(a, b) /\ Better(b, c) => Better(a, c)
         /\ ~Better(a, b) /\ ~Better(b, c) => ~Better(a, c)
<1>1. \A x, y : Comparable(x) /\ Comparable(y) =>
        /\ x.feasible # y.feasible => (Better(x, y) <=> x.feasible)
        /\ x.feasible /\ y.feasible => (Better(x, y) <=> x.objective < y.objective)
        /\ ~x.feasible /\ ~y.feasible => (Better(x, y) <=> x.violation < y.violation)
  BY DEF Better, Comparable
<1>2. a.feasible \in BOOLEAN /\ b.feasible \in BOOLEAN /\ c.feasible \in BOOLEAN
  BY DEF Comparable
<1>3. /\ a.objective \in Int /\ b.objective \in Int /\ c.objective \in Int
      /\ a.violation \in Int /\ b.violation \in Int /\ c.violation \in Int
  BY DEF Comparable
<1>4. ~Better(a, a)
  BY <1>1, <1>2, <1>3
<1>5. Better(a, b) => ~Better(b, a)
  BY <1>1, <1>2, <1>3
<1>6. Better(a, b) /\ Better(b, c) => Better(a, c)
  BY <1>1, <1>2, <1>3
<1>7. ~Better(a, b) /\ ~Better(b, c) => ~Better(a, c)
  BY <1>1, <1>2, <1>3
<1>. QED BY <1>4, <1>5, <1>6, <1>7

\* The seeds by rank are the seeds, and no seed goes before the first of them.
LEMMA RankedLemma ==
  ASSUME Len(frontier) \in Nat, Scored, seeds \in Seq(2 .. Len(frontier))
  PROVE  /\ DOMAIN Ranked = DOMAIN seeds
         /\ \A r \in DOMAIN seeds : \E i \in DOMAIN seeds : Ranked[r] = seeds[i]
         /\ seeds # << >> =>
              \E i \in DOMAIN seeds :
                /\ Ranked[1] = seeds[i]
                /\ \A j \in DOMAIN seeds :
                     /\ ~Better(frontier[seeds[j]], frontier[seeds[i]])
                     /\ j < i => Better(frontier[seeds[i]], frontier[seeds[j]])
<1>. DEFINE S == DOMAIN seeds
            f(i) == frontier[seeds[i]]
            Before(i, j) == (i < j /\ ~Better(f(j), f(i))) \/ (i > j /\ Better(f(i), f(j)))
            below == [i \in S |-> {j \in S : Before(j, i)}]
            order == Ranking(below)
            n == Len(seeds)
<1>1. n \in Nat /\ S = 1 .. n /\ IsFiniteSet(S) /\ \A i \in S : seeds[i] \in 2 .. Len(frontier)
  BY PositionsLemma
<1>2. \A i \in S : Comparable(f(i)) /\ i \in Int
  BY <1>1 DEF Scored
<1>3. Ranked = [r \in DOMAIN order |-> seeds[order[r]]]
  BY DEF Ranked
<1>. HIDE DEF f, S, n
<1>4. \A i \in S : ~Before(i, i)
  BY <1>2, BetterLemma
<1>5. \A i, j, k \in S : Before(i, j) /\ Before(j, k) => Before(i, k)
  <2>. SUFFICES ASSUME NEW i \in S, NEW j \in S, NEW k \in S, Before(i, j), Before(j, k)
                PROVE  Before(i, k)
    OBVIOUS
  <2>1. /\ Better(f(i), f(j)) /\ Better(f(j), f(k)) => Better(f(i), f(k))
        /\ ~Better(f(j), f(i)) /\ Better(f(j), f(k)) => ~Better(f(k), f(i)) /\ Better(f(i), f(k))
        /\ Better(f(i), f(j)) /\ ~Better(f(k), f(j)) => ~Better(f(k), f(i)) /\ Better(f(i), f(k))
        /\ ~Better(f(j), f(i)) /\ ~Better(f(k), f(j)) => ~Better(f(k), f(i))
    <3>1. Comparable(f(i)) /\ Comparable(f(j)) /\ Comparable(f(k))
      BY <1>2
    <3>2. Better(f(i), f(j)) /\ Better(f(j), f(k)) => Better(f(i), f(k))
      BY <3>1, BetterLemma
    <3>3. ~Better(f(i), f(k)) /\ ~Better(f(k), f(j)) => ~Better(f(i), f(j))
      BY <3>1, BetterLemma
    <3>4. ~Better(f(j), f(i)) /\ ~Better(f(i), f(k)) => ~Better(f(j), f(k))
      BY <3>1, BetterLemma
    <3>5. ~Better(f(k), f(j)) /\ ~Better(f(j), f(i)) => ~Better(f(k), f(i))
      BY <3>1, BetterLemma
    <3>6. Better(f(i), f(k)) => ~Better(f(k), f(i))
      BY <3>1, BetterLemma
    <3>. QED BY <3>2, <3>3, <3>4, <3>5, <3>6
  <2>2. i \in Int /\ j \in Int /\ k \in Int
    BY <1>2
  <2>. QED BY <2>1, <2>2
<1>6. \A i, j \in S : i # j => Before(i, j) \/ Before(j, i)
  <2>. SUFFICES ASSUME NEW i \in S, NEW j \in S, i # j PROVE Before(i, j) \/ Before(j, i)
    OBVIOUS
  <2>1. i < j \/ j < i
    BY <1>2
  <2>2. Better(f(i), f(j)) => ~Better(f(j), f(i))
    BY <1>2, BetterLemma
  <2>. QED BY <2>1, <2>2
<1>. HIDE DEF Before
<1>7. below \in [S -> SUBSET S]
  OBVIOUS
<1>8. \A i, j \in S : j \in below[i] <=> Before(j, i)
  OBVIOUS
<1>. HIDE DEF below
<1>9. \A i \in S : i \notin below[i]
  BY <1>4, <1>8
<1>10. \A i \in S : \A j \in below[i] : below[j] \subseteq below[i]
  BY <1>5, <1>7, <1>8
<1>11. \A i, j \in S : i # j => j \in below[i] \/ i \in below[j]
  BY <1>6, <1>8
<1>12. IsFiniteSet(S)
  BY <1>1
<1>13. 1 .. Cardinality(S) = S
  <2>1. Cardinality(S) = n
    BY <1>1, FS_Interval
  <2>. QED BY <1>1, <2>1
<1>. DEFINE m == Cardinality(S)
<1>14. order = Ranking(below) /\ m = Cardinality(S) /\ 1 .. m = S
  BY <1>13
<1>. HIDE DEF order, m
<1>15. /\ order \in [S -> S] /\ \A i \in S : \E r \in S : order[r] = i
       /\ \A q, r \in S : q < r => order[q] \in below[order[r]]
  <2>1. order \in [1 .. m -> S] /\ \A i \in S : \E r \in 1 .. m : order[r] = i
    BY <1>7, <1>9, <1>10, <1>11, <1>12, <1>14, RankingLemma
  <2>2. \A q, r \in 1 .. m : q < r => order[q] \in below[order[r]]
    BY <1>7, <1>9, <1>10, <1>11, <1>12, <1>14, RankingLemma
  <2>. QED BY <1>14, <2>1, <2>2
<1>16. DOMAIN Ranked = S /\ \A r \in S : order[r] \in S /\ Ranked[r] = seeds[order[r]]
  BY <1>3, <1>15
<1>17. ASSUME seeds # << >>
       PROVE  \E i \in S : /\ Ranked[1] = seeds[i]
                           /\ \A j \in S : /\ ~Better(f(j), f(i))
                                           /\ j < i => Better(f(i), f(j))
  <2>. DEFINE first == order[1]
  <2>1. 1 \in S
    BY <1>1, <1>17, EmptySeq DEF n
  <2>2. first \in S /\ Ranked[1] = seeds[first]
    BY <1>16, <2>1
  <2>3. \A j \in S : j # first => Before(first, j)
    <3>. SUFFICES ASSUME NEW j \in S, j # first PROVE Before(first, j)
      OBVIOUS
    <3>1. PICK r \in S : order[r] = j
      BY <1>15
    <3>2. 1 < r
      BY <1>1, <3>1
    <3>3. first \in below[j]
      BY <1>15, <2>1, <3>1, <3>2
    <3>. QED BY <1>8, <2>2, <3>3
  <2>. HIDE DEF first
  <2>4. \A j \in S : /\ ~Better(f(j), f(first))
                     /\ j < first => Better(f(first), f(j))
    <3>. TAKE j \in S
    <3>1. j \in Int /\ first \in Int /\ Comparable(f(j)) /\ Comparable(f(first))
      BY <1>2, <2>2
    <3>2. Better(f(first), f(j)) => ~Better(f(j), f(first))
      BY <3>1, BetterLemma
    <3>3. j < first => Better(f(first), f(j))
      BY <2>3, <3>1 DEF Before
    <3>4. j > first => ~Better(f(j), f(first))
      BY <2>3, <3>1 DEF Before
    <3>5. j = first => ~Better(f(j), f(first))
      BY <3>1, BetterLemma
    <3>. QED BY <3>1, <3>2, <3>3, <3>4, <3>5
  <2>. QED BY <2>2, <2>4
<1>. QED BY <1>16, <1>17 DEF S, f

-----------------------------------------------------------------------------
(* What the search keeps *)

InSearch == stage \in {"seeding", "descending"} \/ Searching

\* An entry is the score of its candidate's plan, and the candidate is within the policy.
Evaluated(i) ==
  LET cand == frontier[i].cand
  IN  /\ Legal(call.plan, cand)
      /\ frontier[i] = Score(call.plan, base, cand, Analyze(ToPlan(call.plan, cand)))

EntriesKept ==
  InSearch => /\ Searchable(call.plan) /\ base \in SummaryType
              /\ \A i \in 2 .. Len(frontier) : Evaluated(i)

\* Outside of a search nothing of one is there.
NothingKept == ~InSearch => frontier = << >> /\ best = 0 /\ seeds = << >>

\* The seeds are evaluated candidates, each new one found after all before it; while they
\* are being found, they are all there is.
SeedsKept ==
  /\ combo \in Nat \ {0}
  /\ seeds \in Seq(2 .. Len(frontier))
  /\ \A i \in DOMAIN seeds : \A at \in 2 .. seeds[i] : \E j \in 1 .. i : seeds[j] = at
  /\ stage = "seeding" =>
       \A at \in 2 .. Len(frontier) : \E j \in DOMAIN seeds : seeds[j] = at

SearchKept == EntriesKept /\ NothingKept /\ SeedsKept

LEMMA FrontierLemma ==
  ASSUME SearchInv
  PROVE  Len(frontier) \in Nat /\ DOMAIN frontier = 1 .. Len(frontier)
  BY PositionsLemma DEF SearchInv, Trail

\* Entries can be compared, and what is said of a feasible one is what the core says.
LEMMA EntryLemma ==
  ASSUME EntriesKept, InSearch, NEW i \in 2 .. Len(frontier)
  PROVE  LET cand == frontier[i].cand
             res  == Analyze(ToPlan(call.plan, cand))
         IN  /\ Comparable(frontier[i]) /\ frontier[i].diags = res.diags
             /\ cand \in Seq(Slot(call.plan)) /\ ObeysPolicy(call.plan, cand)
             /\ frontier[i].feasible =>
                  /\ res.status \in {"OK", "OK_WITH_WARNINGS"} /\ res.failed = {}
                  /\ \A c \in DOMAIN Constraints(call.plan) :
                       Satisfied(Constraints(call.plan)[c], res.summary)
<1>. DEFINE plan == call.plan
            cand == frontier[i].cand
            res  == Analyze(ToPlan(plan, cand))
            e    == Score(plan, base, cand, res)
<1>1. /\ Searchable(plan) /\ base \in SummaryType
      /\ cand \in Seq(Slot(plan)) /\ ObeysPolicy(plan, cand) /\ frontier[i] = e
  BY DEF EntriesKept, Evaluated, Legal
<1>2. /\ e.feasible \in BOOLEAN /\ e.objective \in Int /\ e.violation \in Int
      /\ e.feasible =>
           /\ res.status \in {"OK", "OK_WITH_WARNINGS"} /\ res.failed = {}
           /\ \A c \in DOMAIN Constraints(plan) : Satisfied(Constraints(plan)[c], res.summary)
  BY <1>1, CandidateScored
<1>3. e.diags = res.diags
  BY DEF Score
<1>4. Comparable(e)
  BY <1>2 DEF Comparable
<1>. HIDE DEF e, res, plan
<1>. QED BY <1>1, <1>2, <1>3, <1>4 DEF plan, res

LEMMA ScoredLemma ==
  ASSUME SearchInv, SearchKept
  PROVE  Scored
<1>1. CASE InSearch
  <2>1. \A i \in 2 .. Len(frontier) : Comparable(frontier[i])
    BY <1>1, EntryLemma DEF SearchKept
  <2>. QED BY <2>1 DEF Scored
<1>2. CASE ~InSearch
  <2>1. Len(frontier) = 0
    BY <1>2 DEF SearchKept, NothingKept
  <2>. QED BY <2>1 DEF Scored
<1>. QED BY <1>1, <1>2

\* Where a candidate is in the frontier once it has been evaluated.
LEMMA PositionLemma ==
  ASSUME SearchInv, frontier # << >>, NEW cand
  PROVE  LET n == Len(frontier)
             at == Position(cand)
         IN  /\ n \in Nat /\ n >= 1 /\ at \in 2 .. n + 1
             /\ Memo(cand) # {} <=> at <= n
             /\ at <= n => frontier[at].cand = cand
<1>. DEFINE n == Len(frontier)
<1>1. n \in Nat /\ n >= 1
  <2>1. n \in Nat /\ (n = 0 => frontier = << >>)
    BY FrontierLemma, EmptySeq DEF SearchInv, Trail
  <2>. QED BY <2>1
<1>2. CASE Memo(cand) = {}
  BY <1>1, <1>2 DEF Position
<1>3. CASE Memo(cand) # {}
  <2>1. Memo(cand) \subseteq 2 .. n /\ IsFiniteSet(2 .. n)
    BY <1>1, FS_Interval DEF Memo
  <2>2. IsFiniteSet(Memo(cand)) /\ Memo(cand) \subseteq Int
    BY <1>1, <2>1, FS_Subset
  <2>3. Min(Memo(cand)) \in Memo(cand)
    BY <1>3, <2>2, ExtremeLemma
  <2>4. Position(cand) = Min(Memo(cand))
    BY <1>3 DEF Position
  <2>5. Position(cand) \in 2 .. n /\ frontier[Position(cand)].cand = cand
    BY <2>3, <2>4 DEF Memo
  <2>. QED BY <1>1, <1>3, <2>5
<1>. QED BY <1>1, <1>2, <1>3

\* What an evaluation does: the candidate's entry is in its place, the others stay.
LEMMA PlacedLemma ==
  ASSUME SearchInv, frontier # << >>, NEW cand, Evaluate(cand), NEW at, at = Position(cand)
  PROVE  /\ Len(frontier) \in Nat /\ Len(frontier) >= 1 /\ at \in 2 .. Len(frontier')
         /\ frontier'[at].cand = cand
         /\ \A i \in 1 .. Len(frontier) : frontier'[i] = frontier[i]
         /\ at <= Len(frontier) => UNCHANGED <<frontier, best>>
         /\ ~(at <= Len(frontier)) =>
              /\ at = Len(frontier) + 1 /\ Len(frontier') = Len(frontier) + 1
              /\ frontier'[at] = Score(call.plan, base, cand, Analyze(ToPlan(call.plan, cand)))
              /\ best' = BestOf(frontier', best, at)
<1>. DEFINE n == Len(frontier)
            e == Score(call.plan, base, cand, Analyze(ToPlan(call.plan, cand)))
<1>1. /\ n \in Nat /\ n >= 1 /\ at \in 2 .. n + 1
      /\ Memo(cand) # {} <=> at <= n
      /\ at <= n => frontier[at].cand = cand
  BY PositionLemma
<1>2. CASE at <= n
  <2>1. UNCHANGED <<frontier, best>>
    BY <1>1, <1>2 DEF Evaluate
  <2>. QED BY <1>1, <1>2, <2>1
<1>3. CASE ~(at <= n)
  <2>1. frontier' = Append(frontier, e) /\ best' = BestOf(frontier', best, Len(frontier'))
    BY <1>1, <1>3 DEF Evaluate
  <2>2. e.cand = cand
    BY ScoreLemma
  <2>. HIDE DEF e
  <2>3. /\ Len(frontier') = n + 1 /\ frontier'[n + 1] = e
        /\ \A i \in 1 .. n : frontier'[i] = frontier[i]
    BY <2>1, GrowLemma DEF SearchInv, Trail
  <2>4. at = n + 1
    BY <1>1, <1>3
  <2>5. frontier'[at] = e
    BY <2>3, <2>4
  <2>6. frontier'[at].cand = cand
    BY <2>2, <2>5
  <2>7. at \in 2 .. Len(frontier')
    BY <1>1, <2>3
  <2>. QED BY <1>1, <1>3, <2>1, <2>3, <2>4, <2>5, <2>6, <2>7 DEF e
<1>. QED BY <1>2, <1>3

\* Every entry is still a score after a legal candidate was evaluated.
LEMMA EntriesLemma ==
  ASSUME SearchInv, EntriesKept, InSearch, frontier # << >>, NEW cand, Legal(call.plan, cand),
         Evaluate(cand), UNCHANGED <<call, base>>
  PROVE  EntriesKept'
<1>. DEFINE n == Len(frontier)
<1>. PICK at : at = Position(cand)
  OBVIOUS
<1>1. /\ n \in Nat /\ n >= 1
      /\ frontier'[at].cand = cand
      /\ \A i \in 1 .. n : frontier'[i] = frontier[i]
      /\ at <= n => UNCHANGED frontier
      /\ ~(at <= n) =>
           /\ at = n + 1 /\ Len(frontier') = n + 1
           /\ frontier'[at] = Score(call.plan, base, cand, Analyze(ToPlan(call.plan, cand)))
  BY PlacedLemma
<1>2. /\ Searchable(call.plan) /\ base \in SummaryType
      /\ \A i \in 2 .. n : Evaluated(i)
  BY DEF EntriesKept
<1>3. call' = call /\ base' = base
  OBVIOUS
<1>4. \A i \in 2 .. n : Evaluated(i)'
  <2>. TAKE i \in 2 .. n
  <2>1. frontier'[i] = frontier[i] /\ Evaluated(i)
    BY <1>1, <1>2
  <2>. QED BY <1>3, <2>1 DEF Evaluated
<1>5. ~(at <= n) => Evaluated(at)'
  <2>. SUFFICES ASSUME ~(at <= n) PROVE Evaluated(at)'
    OBVIOUS
  <2>1. /\ frontier'[at].cand = cand
        /\ frontier'[at] = Score(call.plan, base, cand, Analyze(ToPlan(call.plan, cand)))
    BY <1>1
  <2>2. Legal(call'.plan, frontier'[at].cand)
    BY <1>3, <2>1
  <2>3. frontier'[at] = Score(call'.plan, base', frontier'[at].cand,
                              Analyze(ToPlan(call'.plan, frontier'[at].cand)))
    BY <1>3, <2>1
  <2>. QED BY <2>2, <2>3 DEF Evaluated
<1>6. \A i \in 2 .. Len(frontier') : i \in 2 .. n \/ (i = at /\ ~(at <= n))
  BY <1>1
<1>7. \A i \in 2 .. Len(frontier') : Evaluated(i)'
  BY <1>4, <1>5, <1>6
<1>. QED BY <1>2, <1>3, <1>7 DEF EntriesKept

\* A sequence over a set is one over every larger set.
LEMMA WiderLemma ==
  ASSUME NEW S, NEW T, S \subseteq T, NEW s \in Seq(S)
  PROVE  s \in Seq(T)
<1>1. s \in [1 .. Len(s) -> S] /\ Len(s) \in Nat
  BY LenProperties
<1>2. s \in [1 .. Len(s) -> T]
  BY <1>1
<1>. QED BY <1>1, <1>2, SeqDef

\* The seeds after one more was found.
LEMMA SeedsLemma ==
  ASSUME SearchInv, SeedsKept, stage = "seeding", frontier # << >>, NEW cand, Evaluate(cand),
         seeds' = Append(seeds, Position(cand)), combo' = combo + 1
  PROVE  SeedsKept'
<1>. DEFINE n == Len(frontier)
            m == Len(seeds)
            l == Len(frontier')
<1>. PICK at : at = Position(cand)
  OBVIOUS
<1>1. /\ n \in Nat /\ n >= 1 /\ at \in 2 .. l
      /\ at <= n => l = n
      /\ ~(at <= n) => at = n + 1 /\ l = n + 1
  BY PlacedLemma
<1>2. /\ combo \in Nat \ {0} /\ seeds \in Seq(2 .. n)
      /\ \A i \in DOMAIN seeds : \A p \in 2 .. seeds[i] : \E j \in 1 .. i : seeds[j] = p
      /\ \A p \in 2 .. n : \E j \in DOMAIN seeds : seeds[j] = p
  BY DEF SeedsKept
<1>3. m \in Nat /\ DOMAIN seeds = 1 .. m /\ \A i \in 1 .. m : seeds[i] \in 2 .. n
  BY <1>2, PositionsLemma
<1>5. seeds \in Seq(2 .. l)
  <2>. DEFINE S == 2 .. n
              T == 2 .. l
  <2>1. S \subseteq T /\ seeds \in Seq(S)
    BY <1>1, <1>2
  <2>. HIDE DEF S, T
  <2>2. seeds \in Seq(T)
    BY <2>1, WiderLemma
  <2>. QED BY <2>2 DEF T
<1>6. /\ seeds' \in Seq(2 .. l) /\ Len(seeds') = m + 1
      /\ \A i \in 1 .. m : seeds'[i] = seeds[i]
      /\ seeds'[m + 1] = at
  BY <1>1, <1>5, AppendProperties
<1>7. DOMAIN seeds' = 1 .. m + 1
  BY <1>6, PositionsLemma
<1>. HIDE DEF n, m, l
<1>8. ASSUME NEW p \in 2 .. l
      PROVE  \E j \in 1 .. m + 1 : seeds'[j] = p
  <2>1. CASE p \in 2 .. n
    <3>1. PICK j \in 1 .. m : seeds[j] = p
      BY <1>2, <1>3, <2>1
    <3>2. j \in 1 .. m + 1 /\ seeds'[j] = p
      BY <1>3, <1>6, <3>1
    <3>. QED BY <3>2
  <2>2. CASE p \notin 2 .. n
    <3>1. p = at /\ m + 1 \in 1 .. m + 1
      BY <1>1, <1>3, <2>2
    <3>. QED BY <1>6, <3>1
  <2>. QED BY <2>1, <2>2
<1>9. ASSUME NEW i \in 1 .. m + 1, NEW p \in 2 .. seeds'[i]
      PROVE  \E j \in 1 .. i : seeds'[j] = p
  <2>1. CASE i \in 1 .. m
    <3>1. seeds'[i] = seeds[i]
      BY <1>6, <2>1
    <3>2. PICK j \in 1 .. i : seeds[j] = p
      BY <1>2, <1>3, <2>1, <3>1
    <3>3. j \in 1 .. m
      BY <1>3, <2>1
    <3>4. seeds'[j] = p
      BY <1>6, <3>2, <3>3
    <3>. QED BY <3>4
  <2>2. CASE i = m + 1
    <3>1. p \in 2 .. l
      BY <1>1, <1>6, <2>2
    <3>. QED BY <1>8, <2>2, <3>1
  <2>. QED BY <1>3, <2>1, <2>2
<1>10. combo' \in Nat \ {0}
  BY <1>2
<1>. QED BY <1>6, <1>7, <1>8, <1>9, <1>10 DEF SeedsKept, l

LEMMA SeedNextKept ==
  ASSUME SearchInv, SearchKept, SeedNext
  PROVE  SearchKept'
<1>1. /\ stage = "seeding" /\ stage' = "seeding" /\ InSearch /\ InSearch'
      /\ frontier # << >> /\ UNCHANGED <<call, base>> /\ combo' = combo + 1
  BY DEF SeedNext, SearchInv, Outset, InSearch
<1>2. NothingKept'
  BY <1>1 DEF NothingKept
<1>. DEFINE cand == Seed(call.plan, Combos(call.plan)[combo])
<1>3. CASE cand # << >> /\ ~Exhausted
  <2>1. /\ combo <= Len(Combos(call.plan)) /\ Evaluate(cand)
        /\ seeds' = Append(seeds, Position(cand))
    BY <1>3 DEF SeedNext
  <2>2. Searchable(call.plan) /\ combo \in Nat \ {0}
    BY <1>1 DEF SearchKept, EntriesKept, SeedsKept
  <2>3. Legal(call.plan, cand)
    <3>1. Combos(call.plan) \in Seq(Assignable(call.plan))
      BY <2>2, CombosLemma
    <3>2. Combos(call.plan)[combo] \in Assignable(call.plan)
      <4>. DEFINE combos == Combos(call.plan)
      <4>1. combos \in Seq(Assignable(call.plan)) /\ combo <= Len(combos)
        BY <2>1, <3>1
      <4>. HIDE DEF combos
      <4>2. combo \in DOMAIN combos
        BY <2>2, <4>1, PositionsLemma
      <4>3. combos[combo] \in Assignable(call.plan)
        BY <4>1, <4>2, PositionsLemma
      <4>. QED BY <4>3 DEF combos
    <3>. QED BY <1>3, <2>2, <3>2, SeedLemma
  <2>. HIDE DEF cand
  <2>4. EntriesKept'
    BY <1>1, <2>1, <2>3, EntriesLemma DEF SearchKept
  <2>5. SeedsKept'
    BY <1>1, <2>1, SeedsLemma DEF SearchKept
  <2>. QED BY <1>2, <2>4, <2>5 DEF SearchKept
<1>4. CASE ~(cand # << >> /\ ~Exhausted)
  <2>1. UNCHANGED <<frontier, best, seeds>>
    BY <1>4 DEF SeedNext
  <2>2. EntriesKept'
    BY <1>1, <2>1 DEF SearchKept, EntriesKept, Evaluated
  <2>3. SeedsKept'
    BY <1>1, <2>1 DEF SearchKept, SeedsKept
  <2>. QED BY <1>2, <2>2, <2>3 DEF SearchKept
<1>. QED BY <1>3, <1>4

-----------------------------------------------------------------------------
(* The descent *)

DescentType == [rank : Int, inc : Int, k : Int, move : Int, improved : BOOLEAN]

\* The descent stands at a move of its incumbent, or has been through them all.
DescentTyped ==
  stage = "descending" =>
    /\ descent \in DescentType
    /\ descent.rank \in 1 .. LastRank
    /\ descent.inc \in 2 .. Len(frontier)
    /\ descent.k \in 1 .. Len(Incumbent) + 1
    /\ descent.move \in 1 .. MovesPerPhase

\* A move of a candidate was no improvement, or is none that can be tried.
Tried(plan, trail, i, k, move) ==
  LET cand == Moved(plan, trail[i].cand, k, move)
  IN  cand # << >> /\ Valid(plan, cand) =>
        \E j \in 2 .. Len(trail) : trail[j].cand = cand /\ ~Better(trail[j], trail[i])

LocalOptimum(plan, trail, i) ==
  \A k \in DOMAIN trail[i].cand, move \in 1 .. MovesPerPhase : Tried(plan, trail, i, k, move)

\* The winner is the incumbent, or its neighbourhood was searched; and a pass that has not
\* improved the incumbent has tried every move before the next.
OptimumKept ==
  stage = "descending" =>
    /\ best # 0 => best = descent.inc \/ LocalOptimum(call.plan, frontier, best)
    /\ ~descent.improved =>
         \A k \in DOMAIN Incumbent, move \in 1 .. MovesPerPhase :
           k < descent.k \/ (k = descent.k /\ move < descent.move)
             => Tried(call.plan, frontier, descent.inc, k, move)

LEMMA MovesLemma == MovesPerPhase = 10
  BY DEF MovesPerPhase, EnergizeDeltas

LEMMA AdvancedLemma ==
  ASSUME NEW d \in DescentType, d.move \in 1 .. MovesPerPhase
  PROVE  /\ Advanced(d) \in DescentType
         /\ Advanced(d).rank = d.rank /\ Advanced(d).inc = d.inc
         /\ Advanced(d).improved = d.improved
         /\ Advanced(d).move \in 1 .. MovesPerPhase
         /\ \/ Advanced(d).k = d.k /\ Advanced(d).move = d.move + 1
            \/ Advanced(d).k = d.k + 1 /\ Advanced(d).move = 1 /\ d.move = MovesPerPhase
<1>1. d.move \in Int /\ d.k \in Int /\ d.move + 1 \in Int /\ d.k + 1 \in Int
  BY DEF DescentType
<1>2. CASE d.move < MovesPerPhase
  <2>1. Advanced(d) = [d EXCEPT !.move = @ + 1]
    BY <1>2 DEF Advanced
  <2>. DEFINE e == [d EXCEPT !.move = @ + 1]
  <2>2. e \in DescentType
    BY <1>1 DEF DescentType
  <2>3. e.rank = d.rank
    BY DEF DescentType
  <2>4. e.inc = d.inc
    BY DEF DescentType
  <2>5. e.improved = d.improved
    BY DEF DescentType
  <2>6. e.k = d.k
    BY DEF DescentType
  <2>7. e.move = d.move + 1
    BY DEF DescentType
  <2>8. d.move + 1 \in 1 .. MovesPerPhase
    BY <1>2, MovesLemma
  <2>. HIDE DEF e
  <2>. QED BY <2>1, <2>2, <2>3, <2>4, <2>5, <2>6, <2>7, <2>8 DEF e
<1>3. CASE ~(d.move < MovesPerPhase)
  <2>1. Advanced(d) = [d EXCEPT !.k = @ + 1, !.move = 1]
    BY <1>3 DEF Advanced
  <2>. DEFINE e == [d EXCEPT !.k = @ + 1, !.move = 1]
  <2>2. e \in DescentType
    <3>. DEFINE x == [d EXCEPT !.k = @ + 1]
    <3>1. x \in DescentType
      BY <1>1 DEF DescentType
    <3>2. e = [x EXCEPT !.move = 1]
      BY DEF DescentType
    <3>. HIDE DEF x, e
    <3>3. [x EXCEPT !.move = 1] \in DescentType
      BY <3>1 DEF DescentType
    <3>. QED BY <3>2, <3>3
  <2>3. e.rank = d.rank
    BY DEF DescentType
  <2>4. e.inc = d.inc
    BY DEF DescentType
  <2>5. e.improved = d.improved
    BY DEF DescentType
  <2>6. e.k = d.k + 1
    BY DEF DescentType
  <2>7. e.move = 1
    BY DEF DescentType
  <2>8. 1 \in 1 .. MovesPerPhase /\ d.move = MovesPerPhase
    BY <1>3, MovesLemma
  <2>. QED BY <2>1, <2>2, <2>3, <2>4, <2>5, <2>6, <2>7, <2>8 DEF e
<1>. QED BY <1>2, <1>3

LEMMA DescentFromLemma ==
  ASSUME NEW rank \in Int, Ranked[rank] \in Int
  PROVE  /\ DescentFrom(rank) \in DescentType
         /\ DescentFrom(rank).rank = rank /\ DescentFrom(rank).inc = Ranked[rank]
         /\ DescentFrom(rank).k = 1 /\ DescentFrom(rank).move = 1
         /\ ~DescentFrom(rank).improved
<1>. DEFINE inc == Ranked[rank]
            x == [NoDescent EXCEPT !.rank = rank]
            d == [x EXCEPT !.inc = inc]
<1>1. DescentFrom(rank) = d
  BY DEF DescentFrom, NoDescent
<1>2. inc \in Int
  OBVIOUS
<1>. HIDE DEF inc
<1>3. NoDescent \in DescentType
  <2>1. FALSE \in BOOLEAN
    OBVIOUS
  <2>. QED BY <2>1 DEF DescentType, NoDescent
<1>4. x \in DescentType
  BY <1>3 DEF DescentType
<1>5. x.k = 1 /\ x.move = 1 /\ x.rank = rank
  BY DEF NoDescent
<1>6. x.improved = FALSE
  BY DEF NoDescent
<1>. HIDE DEF x
<1>7. d \in DescentType
  BY <1>2, <1>4 DEF DescentType
<1>8. d.rank = x.rank /\ d.inc = inc /\ d.k = x.k /\ d.move = x.move
  BY <1>4 DEF DescentType
<1>9. d.improved = x.improved
  BY <1>4 DEF DescentType
<1>10. ~d.improved
  BY <1>6, <1>9
<1>. HIDE DEF d
<1>. QED BY <1>1, <1>5, <1>7, <1>8, <1>10 DEF inc

LEMMA ImprovedLemma ==
  ASSUME NEW d \in DescentType, NEW at \in Int
  PROVE  LET e == [d EXCEPT !.inc = at, !.improved = TRUE]
         IN  /\ e \in DescentType /\ e.improved
             /\ e.rank = d.rank /\ e.inc = at /\ e.k = d.k /\ e.move = d.move
<1>. DEFINE x == [d EXCEPT !.inc = at]
            e == [x EXCEPT !.improved = TRUE]
<1>1. x \in DescentType
  BY DEF DescentType
<1>2. x.rank = d.rank /\ x.inc = at /\ x.k = d.k /\ x.move = d.move
  BY DEF DescentType
<1>. HIDE DEF x
<1>3. e \in DescentType
  <2>1. TRUE \in BOOLEAN
    OBVIOUS
  <2>. QED BY <1>1, <2>1 DEF DescentType
<1>4. e.rank = x.rank /\ e.inc = x.inc /\ e.k = x.k /\ e.move = x.move
  BY <1>1 DEF DescentType
<1>5. e.improved = TRUE
  BY <1>1 DEF DescentType
<1>6. e = [d EXCEPT !.inc = at, !.improved = TRUE]
  BY DEF x, DescentType
<1>. HIDE DEF e
<1>. QED BY <1>2, <1>3, <1>4, <1>5, <1>6

\* The incumbent is a legal candidate of a plan that can be searched.
LEMMA IncumbentLemma ==
  ASSUME SearchKept, DescentTyped, stage = "descending"
  PROVE  /\ Searchable(call.plan) /\ Legal(call.plan, Incumbent)
         /\ Len(Incumbent) \in Nat /\ Len(Incumbent) >= 1
         /\ DOMAIN Incumbent = 1 .. Len(Incumbent)
<1>1. Searchable(call.plan) /\ Evaluated(descent.inc)
  BY DEF SearchKept, EntriesKept, InSearch, DescentTyped
<1>2. Legal(call.plan, Incumbent)
  BY <1>1 DEF Evaluated, Incumbent
<1>3. Len(Incumbent) \in Nat /\ DOMAIN Incumbent = 1 .. Len(Incumbent)
  BY <1>2, PositionsLemma DEF Legal
<1>4. Len(Incumbent) >= 1
  <2>1. Len(Incumbent) \in 1 .. Policy(call.plan).maxPhases
    BY <1>2 DEF Legal, ObeysPolicy
  <2>. QED BY <1>3, <2>1
<1>. QED BY <1>1, <1>2, <1>3, <1>4

\* What is worth trying is a legal candidate of as many phases.
LEMMA CandidateLemma ==
  ASSUME SearchKept, DescentTyped, InPass, WorthTrying
  PROVE  Legal(call.plan, Candidate) /\ Len(Candidate) = Len(Incumbent)
<1>1. /\ Searchable(call.plan) /\ Legal(call.plan, Incumbent)
      /\ Len(Incumbent) \in Nat /\ DOMAIN Incumbent = 1 .. Len(Incumbent)
  BY IncumbentLemma DEF InPass
<1>2. /\ descent.k \in 1 .. Len(Incumbent) + 1 /\ descent.k <= Len(Incumbent)
      /\ descent.move \in 1 .. MovesPerPhase
  BY DEF InPass, DescentTyped
<1>3. descent.k \in DOMAIN Incumbent
  BY <1>1, <1>2
<1>4. Candidate # << >> /\ Valid(call.plan, Candidate)
  BY DEF WorthTrying
<1>5. Candidate = Moved(call.plan, Incumbent, descent.k, descent.move)
  BY DEF Candidate
<1>. DEFINE plan == call.plan
            cand == Incumbent
            k == descent.k
            move == descent.move
            next == Candidate
<1>. HIDE DEF plan, cand, k, move, next
<1>6. /\ Searchable(plan) /\ Legal(plan, cand) /\ k \in DOMAIN cand
      /\ move \in 1 .. MovesPerPhase /\ next = Moved(plan, cand, k, move)
      /\ next # << >> /\ Valid(plan, next)
  BY <1>1, <1>2, <1>3, <1>4, <1>5 DEF plan, cand, k, move, next
<1>7. Legal(plan, next) /\ Len(next) = Len(cand)
  BY <1>6, MovedLemma
<1>. QED BY <1>7 DEF plan, cand, next

LEMMA TryMoveKept ==
  ASSUME SearchInv, SearchKept, DescentTyped, TryMove
  PROVE  SearchKept' /\ DescentTyped'
<1>1. /\ stage = "descending" /\ stage' = "descending" /\ InSearch /\ InSearch'
      /\ frontier # << >> /\ UNCHANGED <<call, base, combo, seeds>>
      /\ InPass /\ WorthTrying /\ Evaluate(Candidate)
  BY DEF TryMove, InPass, SearchInv, Outset, InSearch
<1>2. PICK cand : cand = Candidate
  OBVIOUS
<1>3. Legal(call.plan, cand) /\ Len(cand) = Len(Incumbent) /\ Evaluate(cand)
  BY <1>1, <1>2, CandidateLemma
<1>4. PICK at : at = Position(cand)
  OBVIOUS
<1>. DEFINE n == Len(frontier)
            l == Len(frontier')
<1>5. /\ n \in Nat /\ n >= 1 /\ at \in 2 .. l
      /\ frontier'[at].cand = cand
      /\ \A i \in 1 .. n : frontier'[i] = frontier[i]
      /\ l = n \/ l = n + 1
  BY <1>1, <1>3, <1>4, PlacedLemma
<1>6. EntriesKept'
  BY <1>1, <1>3, EntriesLemma DEF SearchKept
<1>7. SeedsKept'
  <2>1. /\ combo \in Nat \ {0} /\ seeds \in Seq(2 .. n)
        /\ \A i \in DOMAIN seeds : \A p \in 2 .. seeds[i] : \E j \in 1 .. i : seeds[j] = p
    BY DEF SearchKept, SeedsKept
  <2>2. seeds \in Seq(2 .. l)
    <3>. DEFINE S == 2 .. n
                T == 2 .. l
    <3>1. S \subseteq T /\ seeds \in Seq(S)
      BY <1>5, <2>1
    <3>. HIDE DEF S, T
    <3>2. seeds \in Seq(T)
      BY <3>1, WiderLemma
    <3>. QED BY <3>2 DEF T
  <2>. QED BY <1>1, <2>1, <2>2 DEF SeedsKept
<1>8. NothingKept'
  BY <1>1 DEF NothingKept
<1>9. /\ descent \in DescentType /\ descent.rank \in 1 .. LastRank
      /\ descent.inc \in 2 .. n
      /\ descent.k \in 1 .. Len(Incumbent) + 1 /\ descent.k <= Len(Incumbent)
      /\ descent.move \in 1 .. MovesPerPhase
      /\ Len(Incumbent) \in Nat
  BY <1>1, IncumbentLemma DEF SearchKept, DescentTyped, InPass
<1>. DEFINE next == Advanced(descent)
<1>10. /\ next \in DescentType /\ next.rank = descent.rank /\ next.inc = descent.inc
       /\ next.move \in 1 .. MovesPerPhase
       /\ next.k = descent.k \/ next.k = descent.k + 1
  BY <1>9, AdvancedLemma
<1>. HIDE DEF next
<1>11. \/ descent' = next
       \/ descent' = [next EXCEPT !.inc = at, !.improved = TRUE]
  BY <1>2, <1>4 DEF TryMove, next
<1>12. /\ descent' \in DescentType /\ descent'.rank = descent.rank
       /\ descent'.inc \in {descent.inc, at}
       /\ descent'.move \in 1 .. MovesPerPhase
       /\ descent'.k = descent.k \/ descent'.k = descent.k + 1
  <2>1. CASE descent' = next
    BY <1>10, <2>1
  <2>2. CASE descent' = [next EXCEPT !.inc = at, !.improved = TRUE]
    <3>1. at \in Int
      BY <1>5
    <3>. QED BY <1>10, <2>2, <3>1, ImprovedLemma
  <2>. QED BY <1>11, <2>1, <2>2
<1>13. Len(frontier'[descent'.inc].cand) = Len(Incumbent)
  <2>1. descent.inc \in 1 .. n
    BY <1>5, <1>9
  <2>2. frontier'[descent.inc] = frontier[descent.inc]
    BY <1>5, <2>1
  <2>. QED BY <1>3, <1>5, <1>12, <2>2 DEF Incumbent
<1>14. descent'.k \in 1 .. Len(Incumbent) + 1
  BY <1>9, <1>12
<1>15. LastRank' = LastRank
  BY <1>1 DEF LastRank
<1>16. descent'.inc \in 2 .. l
  BY <1>5, <1>9, <1>12
<1>17. DescentTyped'
  BY <1>9, <1>12, <1>13, <1>14, <1>15, <1>16 DEF DescentTyped, Incumbent
<1>. QED BY <1>6, <1>7, <1>8, <1>17 DEF SearchKept

LEMMA AgainLemma ==
  ASSUME NEW d \in DescentType
  PROVE  LET e == [d EXCEPT !.k = 1, !.move = 1, !.improved = FALSE]
         IN  /\ e \in DescentType /\ ~e.improved
             /\ e.rank = d.rank /\ e.inc = d.inc /\ e.k = 1 /\ e.move = 1
<1>. DEFINE x == [d EXCEPT !.k = 1]
            y == [x EXCEPT !.move = 1]
            e == [y EXCEPT !.improved = FALSE]
<1>1. x \in DescentType
  BY DEF DescentType
<1>2. x.rank = d.rank /\ x.inc = d.inc /\ x.k = 1
  BY DEF DescentType
<1>3. e = [d EXCEPT !.k = 1, !.move = 1, !.improved = FALSE]
  BY DEF DescentType
<1>. HIDE DEF x
<1>4. y \in DescentType
  BY <1>1 DEF DescentType
<1>5. y.rank = x.rank /\ y.inc = x.inc /\ y.k = x.k /\ y.move = 1
  BY <1>1 DEF DescentType
<1>. HIDE DEF y
<1>6. e \in DescentType
  <2>1. FALSE \in BOOLEAN
    OBVIOUS
  <2>. QED BY <1>4, <2>1 DEF DescentType
<1>7. e.rank = y.rank /\ e.inc = y.inc /\ e.k = y.k /\ e.move = y.move
  BY <1>4 DEF DescentType
<1>8. e.improved = FALSE
  BY <1>4 DEF DescentType
<1>. HIDE DEF e
<1>. QED BY <1>2, <1>3, <1>5, <1>6, <1>7, <1>8

\* A descent from one of the best seeds.
LEMMA FromLemma ==
  ASSUME SearchInv, SearchKept, InSearch, NEW rank \in 1 .. LastRank,
         descent' = DescentFrom(rank), UNCHANGED <<call, frontier, seeds>>
  PROVE  DescentTyped'
<1>1. /\ Len(frontier) \in Nat /\ seeds \in Seq(2 .. Len(frontier)) /\ Scored
  BY FrontierLemma, ScoredLemma DEF SearchKept, SeedsKept
<1>2. Len(seeds) \in Nat /\ DOMAIN seeds = 1 .. Len(seeds)
      /\ \A i \in DOMAIN seeds : seeds[i] \in 2 .. Len(frontier)
  BY <1>1, PositionsLemma
<1>3. LastRank \in Int /\ LastRank <= Len(seeds)
  <2>1. DescentSeeds \in Int /\ Len(seeds) \in Int
    BY <1>2, PhasingAssumption
  <2>. QED BY <2>1, LargerLemma DEF LastRank
<1>4. rank \in Int /\ rank \in DOMAIN seeds
  BY <1>2, <1>3
<1>5. Ranked[rank] \in 2 .. Len(frontier)
  <2>1. \E i \in DOMAIN seeds : Ranked[rank] = seeds[i]
    BY <1>1, <1>4, RankedLemma
  <2>. QED BY <1>2, <2>1
<1>6. Ranked[rank] \in Int
  BY <1>5
<1>7. /\ descent' \in DescentType /\ descent'.rank = rank /\ descent'.inc = Ranked[rank]
      /\ descent'.k = 1 /\ descent'.move = 1
  BY <1>4, <1>6, DescentFromLemma
<1>8. LastRank' = LastRank
  BY DEF LastRank
<1>9. Len(frontier'[descent'.inc].cand) \in Nat
  <2>1. Evaluated(descent'.inc)
    BY <1>5, <1>7 DEF SearchKept, EntriesKept
  <2>2. frontier[descent'.inc].cand \in Seq(Slot(call.plan))
    BY <2>1 DEF Evaluated, Legal
  <2>3. Len(frontier[descent'.inc].cand) \in Nat
    BY <2>2, PositionsLemma
  <2>. QED BY <2>3
<1>10. 1 \in 1 .. MovesPerPhase
  BY MovesLemma
<1>11. descent'.k \in 1 .. Len(frontier'[descent'.inc].cand) + 1
  BY <1>7, <1>9
<1>12. descent'.inc \in 2 .. Len(frontier')
  BY <1>5, <1>7
<1>13. descent'.rank \in 1 .. LastRank'
  BY <1>7, <1>8
<1>. QED BY <1>7, <1>10, <1>11, <1>12, <1>13 DEF DescentTyped, Incumbent

\* A step within a search that leaves what was found alone.
LEMMA SameSearch ==
  ASSUME SearchKept, InSearch, InSearch', stage' # "seeding",
         UNCHANGED <<call, base, frontier, seeds, combo>>
  PROVE  SearchKept'
  BY DEF SearchKept, EntriesKept, Evaluated, NothingKept, SeedsKept

\* A step outside of a search.
LEMMA OutsideSearch ==
  ASSUME SearchKept, ~InSearch, ~InSearch', UNCHANGED <<frontier, best, seeds, combo>>
  PROVE  SearchKept' /\ DescentTyped'
<1>1. stage' # "seeding" /\ stage' # "descending"
  BY DEF InSearch
<1>. QED BY <1>1 DEF SearchKept, EntriesKept, NothingKept, SeedsKept, DescentTyped, InSearch

LEMMA EndKept ==
  ASSUME SearchKept, InSearch, NEW converged, EndSearch(converged)
  PROVE  SearchKept' /\ DescentTyped'
<1>1. /\ stage' = "done" /\ result' = SearchResult(converged)
      /\ UNCHANGED <<call, base, frontier, seeds, combo>>
  BY DEF EndSearch, Answer, locals
<1>2. result'.optimization # << >>
  BY <1>1 DEF SearchResult, Bare
<1>3. InSearch'
  BY <1>1, <1>2 DEF InSearch, Searching
<1>4. DescentTyped'
  BY <1>1 DEF DescentTyped
<1>. QED BY <1>1, <1>3, <1>4, SameSearch

LEMMA StartKept ==
  ASSUME SearchInv, CallKept, SearchKept, StartSearch
  PROVE  SearchKept' /\ DescentTyped'
<1>. DEFINE b == BaselinePlan(call.plan)
<1>1. /\ stage = "called" /\ stage' = "seeding" /\ ~InSearch
      /\ call' = call /\ seeds' = seeds /\ combo' = combo
      /\ ~HasErrors(ValidateOptimize(call.plan))
      /\ Analyze(b).status # "INVALID_INPUT" /\ base' = Analyze(b).summary
      /\ \E e : frontier' = <<e>>
  BY DEF StartSearch, Dispatched, InSearch, Searching
<1>2. call.plan \in SitePlan
  <2>1. call \in Requests
    BY <1>1 DEF CallKept
  <2>. QED BY <2>1, RequestLemma
<1>3. b \in SitePlan
  BY <1>2, BaselineTyped
<1>4. Sound(b) /\ base' \in SummaryType
  BY <1>1, <1>3, AnalyzeTyped
<1>5. Searchable(call'.plan)
  BY <1>1, <1>2, <1>4 DEF Searchable
<1>6. Len(frontier') = 1 /\ 2 .. Len(frontier') = {}
  BY <1>1, FirstLemma
<1>7. seeds = << >> /\ combo \in Nat \ {0}
  BY <1>1 DEF SearchKept, NothingKept, SeedsKept
<1>8. EntriesKept'
  BY <1>4, <1>5, <1>6 DEF EntriesKept
<1>9. NothingKept'
  BY <1>1 DEF NothingKept, InSearch
<1>10. SeedsKept'
  <2>1. seeds' = << >> /\ DOMAIN seeds' = {} /\ seeds' \in Seq(2 .. Len(frontier'))
    BY <1>1, <1>7
  <2>. QED BY <1>1, <1>6, <1>7, <2>1 DEF SeedsKept
<1>11. DescentTyped'
  BY <1>1 DEF DescentTyped
<1>. QED BY <1>8, <1>9, <1>10, <1>11 DEF SearchKept

LEMMA GoneKept ==
  ASSUME Fresh, ~InSearch'
  PROVE  SearchKept' /\ DescentTyped'
<1>1. /\ frontier' = << >> /\ best' = 0 /\ seeds' = << >> /\ combo' = 1
      /\ stage' # "seeding" /\ stage' # "descending"
  BY DEF Fresh, InSearch
<1>2. seeds' \in Seq(2 .. Len(frontier')) /\ DOMAIN seeds' = {}
  BY <1>1
<1>. QED BY <1>1, <1>2 DEF SearchKept, EntriesKept, NothingKept, SeedsKept, DescentTyped

LEMMA DescentMoves ==
  ASSUME SearchInv, SearchKept, DescentTyped, SkipMove \/ NextPass \/ NextSeed \/ SeedsDone
  PROVE  SearchKept' /\ DescentTyped'
<1>1. CASE SkipMove
  <2>1. /\ stage = "descending" /\ stage' = "descending" /\ InSearch /\ InSearch'
        /\ descent.k <= Len(Incumbent) /\ descent' = Advanced(descent)
        /\ UNCHANGED <<call, base, frontier, seeds, combo>>
    BY <1>1 DEF SkipMove, InPass, InSearch
  <2>2. SearchKept'
    BY <2>1, SameSearch
  <2>3. /\ descent \in DescentType /\ descent.rank \in 1 .. LastRank
        /\ descent.inc \in 2 .. Len(frontier)
        /\ descent.k \in 1 .. Len(Incumbent) + 1 /\ descent.move \in 1 .. MovesPerPhase
        /\ Len(Incumbent) \in Nat
    BY <2>1, IncumbentLemma DEF DescentTyped
  <2>4. /\ descent' \in DescentType /\ descent'.rank = descent.rank
        /\ descent'.inc = descent.inc /\ descent'.move \in 1 .. MovesPerPhase
        /\ descent'.k = descent.k \/ descent'.k = descent.k + 1
    BY <2>1, <2>3, AdvancedLemma
  <2>5. Incumbent' = Incumbent /\ LastRank' = LastRank
    BY <2>1, <2>4 DEF Incumbent, LastRank
  <2>6. descent'.k \in 1 .. Len(Incumbent') + 1
    BY <2>1, <2>3, <2>4, <2>5
  <2>7. DescentTyped'
    BY <2>1, <2>3, <2>4, <2>5, <2>6 DEF DescentTyped
  <2>. QED BY <2>2, <2>7
<1>2. CASE NextPass
  <2>1. /\ stage = "descending" /\ stage' = "descending" /\ InSearch /\ InSearch'
        /\ descent' = [descent EXCEPT !.k = 1, !.move = 1, !.improved = FALSE]
        /\ UNCHANGED <<call, base, frontier, seeds, combo>>
    BY <1>2 DEF NextPass, PassDone, InSearch
  <2>2. SearchKept'
    BY <2>1, SameSearch
  <2>3. /\ descent \in DescentType /\ descent.rank \in 1 .. LastRank
        /\ descent.inc \in 2 .. Len(frontier) /\ Len(Incumbent) \in Nat
    BY <2>1, IncumbentLemma DEF DescentTyped
  <2>4. /\ descent' \in DescentType /\ descent'.rank = descent.rank
        /\ descent'.inc = descent.inc /\ descent'.move = 1 /\ descent'.k = 1
    BY <2>1, <2>3, AgainLemma
  <2>5. Incumbent' = Incumbent /\ LastRank' = LastRank
    BY <2>1, <2>4 DEF Incumbent, LastRank
  <2>6. descent'.k \in 1 .. Len(Incumbent') + 1 /\ descent'.move \in 1 .. MovesPerPhase
    BY <2>3, <2>4, <2>5, MovesLemma
  <2>7. DescentTyped'
    BY <2>1, <2>3, <2>4, <2>5, <2>6 DEF DescentTyped
  <2>. QED BY <2>2, <2>7
<1>3. CASE NextSeed
  <2>1. /\ stage = "descending" /\ stage' = "descending" /\ InSearch /\ InSearch'
        /\ descent.rank < LastRank /\ descent' = DescentFrom(descent.rank + 1)
        /\ UNCHANGED <<call, base, frontier, seeds, combo>>
    BY <1>3 DEF NextSeed, PassDone, InSearch
  <2>2. SearchKept'
    BY <2>1, SameSearch
  <2>3. descent.rank \in 1 .. LastRank /\ LastRank \in Int
    <3>1. DescentSeeds \in Int /\ Len(seeds) \in Int
      <4>1. seeds \in Seq(2 .. Len(frontier))
        BY DEF SearchKept, SeedsKept
      <4>. QED BY <4>1, PositionsLemma, PhasingAssumption
    <3>. QED BY <2>1, <3>1, LargerLemma DEF LastRank, DescentTyped
  <2>4. PICK rank : rank = descent.rank + 1
    OBVIOUS
  <2>5. rank \in 1 .. LastRank /\ descent' = DescentFrom(rank)
    BY <2>1, <2>3, <2>4
  <2>6. DescentTyped'
    BY <2>1, <2>5, FromLemma
  <2>. QED BY <2>2, <2>6
<1>4. CASE SeedsDone
  <2>1. stage = "seeding" /\ InSearch
    BY <1>4 DEF SeedsDone, InSearch
  <2>2. CASE seeds = << >>
    <3>1. EndSearch(TRUE)
      BY <1>4, <2>2 DEF SeedsDone
    <3>. QED BY <2>1, <3>1, EndKept
  <2>3. CASE seeds # << >>
    <3>1. /\ stage' = "descending" /\ InSearch' /\ descent' = DescentFrom(1)
          /\ UNCHANGED <<call, base, frontier, seeds, combo>>
      BY <1>4, <2>3 DEF SeedsDone, InSearch
    <3>2. 1 \in 1 .. LastRank
      <4>1. DescentSeeds \in Int /\ Len(seeds) \in Int /\ DescentSeeds >= 1 /\ Len(seeds) >= 1
        <5>1. seeds \in Seq(2 .. Len(frontier))
          BY DEF SearchKept, SeedsKept
        <5>2. Len(seeds) \in Nat /\ Len(seeds) # 0
          BY <2>3, <5>1, EmptySeq, PositionsLemma
        <5>. QED BY <5>2, PhasingAssumption
      <4>2. LastRank = IF DescentSeeds <= Len(seeds) THEN DescentSeeds ELSE Len(seeds)
        BY <4>1, LargerLemma DEF LastRank
      <4>. QED BY <4>1, <4>2
    <3>3. DescentTyped'
      BY <2>1, <3>1, <3>2, FromLemma
    <3>4. SearchKept'
      BY <2>1, <3>1, SameSearch
    <3>. QED BY <3>3, <3>4
  <2>. QED BY <2>2, <2>3
<1>. QED BY <1>1, <1>2, <1>3, <1>4

LEMMA KeptStep ==
  ASSUME SearchInv, CallKept, SearchKept, DescentTyped, [Next]_vars
  PROVE  SearchKept' /\ DescentTyped'
<1>1. \A status, diags : Bare(status, diags).optimization = << >>
  BY DEF Bare
<1>2. ASSUME NEW request, Call(request)
      PROVE  SearchKept' /\ DescentTyped'
  <2>1. ~InSearch /\ ~InSearch' /\ UNCHANGED <<frontier, best, seeds, combo>>
    BY <1>2 DEF Call, InSearch, Searching, locals
  <2>. QED BY <2>1, OutsideSearch
<1>3. ASSUME stage \in {"called", "drawing"}, UNCHANGED locals,
             NEW res, Answer(res), res.optimization = << >>
      PROVE  SearchKept' /\ DescentTyped'
  <2>1. ~InSearch /\ ~InSearch' /\ UNCHANGED <<frontier, best, seeds, combo>>
    BY <1>3 DEF Answer, InSearch, Searching, locals
  <2>. QED BY <2>1, OutsideSearch
<1>4. Undispatched \/ RefuseAnalysis \/ RefuseSearch => SearchKept' /\ DescentTyped'
  BY <1>1, <1>3 DEF Undispatched, Failure, RefuseAnalysis, RefuseSearch, Dispatched
<1>5. EndDraws => SearchKept' /\ DescentTyped'
  BY <1>3, AnalysisAnswer DEF EndDraws
<1>6. CASE RunAnalysis
  <2>1. stage = "called" /\ UNCHANGED locals
    BY <1>6 DEF RunAnalysis, Dispatched
  <2>2. CASE stage' = "drawing"
    <3>1. ~InSearch /\ ~InSearch' /\ UNCHANGED <<frontier, best, seeds, combo>>
      BY <2>1, <2>2 DEF InSearch, Searching, locals
    <3>. QED BY <3>1, OutsideSearch
  <2>3. CASE Answer(AnalysisResult(call.plan, NoDraws))
    BY <1>3, <2>1, <2>3, AnalysisAnswer
  <2>. QED BY <1>6, <2>2, <2>3 DEF RunAnalysis
<1>7. CASE Draw
  <2>1. ~InSearch /\ ~InSearch' /\ UNCHANGED <<frontier, best, seeds, combo>>
    BY <1>7 DEF Draw, InSearch, Searching
  <2>. QED BY <2>1, OutsideSearch
<1>8. CASE Reply \/ Panic
  <2>1. Fresh /\ ~InSearch'
    BY <1>1, <1>8 DEF Reply, Panic, Answer, Failure, InSearch, Searching
  <2>. QED BY <2>1, GoneKept
<1>9. StartSearch => SearchKept' /\ DescentTyped'
  BY StartKept
<1>10. CASE SeedNext
  <2>1. stage' = "seeding"
    BY <1>10 DEF SeedNext
  <2>2. DescentTyped'
    BY <2>1 DEF DescentTyped
  <2>. QED BY <1>10, <2>2, SeedNextKept
<1>11. TryMove => SearchKept' /\ DescentTyped'
  BY TryMoveKept
<1>12. SkipMove \/ NextPass \/ NextSeed \/ SeedsDone => SearchKept' /\ DescentTyped'
  BY DescentMoves
<1>13. OutOfBudget \/ Converged => SearchKept' /\ DescentTyped'
  <2>1. OutOfBudget \/ Converged => InSearch
    BY DEF OutOfBudget, Converged, InPass, PassDone, InSearch
  <2>. QED BY <2>1, EndKept DEF OutOfBudget, Converged
<1>14. CASE UNCHANGED vars
  <2>1. /\ UNCHANGED <<stage, call, base, frontier, best, combo, seeds, descent, result>>
        /\ InSearch' = InSearch
    BY <1>14 DEF vars, InSearch, Searching
  <2>2. SearchKept'
    BY <2>1 DEF SearchKept, EntriesKept, Evaluated, NothingKept, SeedsKept
  <2>3. DescentTyped'
    BY <2>1 DEF DescentTyped, Incumbent, LastRank
  <2>. QED BY <2>2, <2>3
<1>. QED BY <1>2, <1>4, <1>5, <1>6, <1>7, <1>8, <1>9, <1>10, <1>11, <1>12, <1>13, <1>14
         DEF Next, EngineStep, Search

LEMMA KeptInit == Init => SearchKept /\ DescentTyped
<1>. SUFFICES ASSUME Init PROVE SearchKept /\ DescentTyped
  OBVIOUS
<1>1. /\ stage = "idle" /\ frontier = << >> /\ best = 0 /\ seeds = << >> /\ combo = 1
      /\ ~InSearch
  BY DEF Init, InSearch, Searching
<1>2. seeds \in Seq(2 .. Len(frontier)) /\ DOMAIN seeds = {}
  BY <1>1
<1>. QED BY <1>1, <1>2 DEF SearchKept, EntriesKept, NothingKept, SeedsKept, DescentTyped

LEMMA KeptInductive == Spec => [](SearchKept /\ DescentTyped)
  BY KeptInit, KeptStep, SearchInductive, CallInductive, PTL DEF Spec

-----------------------------------------------------------------------------
(* The iterations of a Monte Carlo run *)

\* Every iteration is in the samples or counted as rejected, and there are no more of them
\* than were asked for.
DrawsKept ==
  /\ draws = [samples |-> draws.samples, invalid |-> draws.invalid]
  /\ Listed(draws.samples)
  /\ draws.invalid \in Nat
  /\ stage \in {"idle", "called"} => draws = NoDraws
  /\ stage = "drawing" => Drawn <= call.plan.risk.iterations

LEMMA NoDrawsLemma ==
  /\ NoDraws = [samples |-> NoDraws.samples, invalid |-> NoDraws.invalid]
  /\ NoDraws.samples = << >> /\ NoDraws.invalid = 0
  /\ Listed(NoDraws.samples)
  BY DEF NoDraws, Listed

LEMMA DrawStep ==
  ASSUME CallKept, DrawsKept, Draw
  PROVE  DrawsKept'
<1>. DEFINE s == draws.samples
            iterations == call.plan.risk.iterations
<1>1. /\ Listed(s) /\ draws.invalid \in Nat
      /\ draws = [samples |-> s, invalid |-> draws.invalid]
  BY DEF DrawsKept
<1>2. /\ stage = "drawing" /\ stage' = "drawing" /\ call' = call
      /\ Len(s) + draws.invalid < iterations
  BY DEF Draw, Drawn
<1>3. iterations \in Int
  <2>1. call.plan \in SitePlan
    <3>1. call \in Requests
      BY <1>2 DEF CallKept
    <3>. QED BY <3>1, RequestLemma
  <2>. QED BY <2>1 DEF SitePlan
<1>4. Len(s) \in Nat
  BY <1>1, GrowLemma
<1>5. \/ draws' = [draws EXCEPT !.invalid = @ + 1]
      \/ \E e : draws' = [draws EXCEPT !.samples = Append(@, e)]
  BY DEF Draw
<1>6. CASE draws' = [draws EXCEPT !.invalid = @ + 1]
  <2>1. /\ draws'.samples = s /\ draws'.invalid = draws.invalid + 1
        /\ draws' = [samples |-> draws'.samples, invalid |-> draws'.invalid]
    BY <1>1, <1>6
  <2>2. Len(s) + (draws.invalid + 1) <= iterations
    BY <1>1, <1>2, <1>3, <1>4
  <2>. QED BY <1>1, <1>2, <2>1, <2>2 DEF DrawsKept, Drawn
<1>7. CASE \E e : draws' = [draws EXCEPT !.samples = Append(@, e)]
  <2>1. PICK e : draws' = [draws EXCEPT !.samples = Append(@, e)]
    BY <1>7
  <2>. DEFINE t == Append(s, e)
  <2>2. /\ draws'.samples = t /\ draws'.invalid = draws.invalid
        /\ draws' = [samples |-> draws'.samples, invalid |-> draws'.invalid]
    BY <1>1, <2>1
  <2>3. Listed(t) /\ Len(t) = Len(s) + 1
    BY <1>1, GrowLemma
  <2>. HIDE DEF t
  <2>4. Len(t) + draws.invalid <= iterations
    BY <1>1, <1>2, <1>3, <1>4, <2>3
  <2>. QED BY <1>1, <1>2, <2>2, <2>3, <2>4 DEF DrawsKept, Drawn
<1>. QED BY <1>5, <1>6, <1>7

LEMMA DrawsStep ==
  ASSUME CallKept, DrawsKept, [Next]_vars
  PROVE  DrawsKept'
<1>1. ASSUME UNCHANGED draws, stage' \notin {"idle", "called", "drawing"}
      PROVE  DrawsKept'
  BY <1>1 DEF DrawsKept
<1>2. ASSUME NEW request, Call(request)
      PROVE  DrawsKept'
  BY <1>2 DEF Call, DrawsKept, locals
<1>3. CASE Reply \/ Panic
  <2>1. draws' = NoDraws /\ stage' \in {"idle", "done"}
    BY <1>3 DEF Reply, Panic, Answer, Fresh
  <2>. QED BY <2>1, NoDrawsLemma DEF DrawsKept
<1>4. CASE RunAnalysis
  <2>1. stage = "called" /\ UNCHANGED <<call, draws>> /\ draws = NoDraws
    BY <1>4 DEF RunAnalysis, Dispatched, Answer, locals, DrawsKept
  <2>2. CASE stage' = "done"
    BY <1>1, <2>1, <2>2
  <2>3. CASE stage' = "drawing" /\ call.plan.risk.monteCarlo
    <3>1. ~HasErrors(ValidateRisk(call.plan))
      BY <1>4 DEF RunAnalysis
    <3>2. ~(call.plan.risk.iterations <= 0)
      <4>1. ValidateMonteCarlo(call.plan) \subseteq ValidateRisk(call.plan)
        BY <2>3 DEF ValidateRisk
      <4>2. call.plan.risk.iterations <= 0
            => Error("OUT_OF_RANGE") \in ValidateMonteCarlo(call.plan)
        BY DEF ValidateMonteCarlo, When
      <4>3. Error("OUT_OF_RANGE").severity = "ERROR"
        BY DEF Error
      <4>. QED BY <3>1, <4>1, <4>2, <4>3 DEF HasErrors
    <3>3. call.plan.risk.iterations \in Int
      <4>1. call.plan \in SitePlan
        <5>1. call \in Requests
          BY <2>1 DEF CallKept
        <5>. QED BY <5>1, RequestLemma
      <4>. QED BY <4>1 DEF SitePlan
    <3>4. Len(NoDraws.samples) + NoDraws.invalid = 0
      BY DEF NoDraws
    <3>5. Drawn' <= call'.plan.risk.iterations
      BY <2>1, <3>2, <3>3, <3>4 DEF Drawn
    <3>. QED BY <2>1, <2>3, <3>5, NoDrawsLemma DEF DrawsKept
  <2>. QED BY <1>4, <2>2, <2>3 DEF RunAnalysis, Answer
<1>5. Draw => DrawsKept'
  BY DrawStep
<1>6. Undispatched \/ RefuseAnalysis \/ RefuseSearch \/ EndDraws \/ OutOfBudget \/ Converged
      => UNCHANGED draws /\ stage' = "done"
  BY DEF Undispatched, RefuseAnalysis, RefuseSearch, EndDraws, OutOfBudget, Converged,
         EndSearch, Answer, locals
<1>7. StartSearch \/ SeedNext \/ SeedsDone
      => UNCHANGED draws /\ stage' \in {"seeding", "descending", "done"}
  BY DEF StartSearch, SeedNext, SeedsDone, EndSearch, Answer, locals
<1>8. SkipMove \/ TryMove \/ NextPass \/ NextSeed => UNCHANGED draws /\ stage' = "descending"
  BY DEF SkipMove, TryMove, NextPass, NextSeed, InPass, PassDone
<1>9. CASE UNCHANGED vars
  BY <1>9 DEF vars, DrawsKept, Drawn
<1>. QED BY <1>1, <1>2, <1>3, <1>4, <1>5, <1>6, <1>7, <1>8, <1>9 DEF Next, EngineStep, Search

LEMMA DrawsInductive == Spec => []DrawsKept
<1>1. Init => DrawsKept
  <2>. SUFFICES ASSUME Init PROVE DrawsKept
    OBVIOUS
  <2>1. stage = "idle" /\ draws = NoDraws
    BY DEF Init
  <2>. QED BY <2>1, NoDrawsLemma DEF DrawsKept
<1>. QED BY <1>1, DrawsStep, CallInductive, PTL DEF Spec

-----------------------------------------------------------------------------
(* The local optimum *)

\* What was tried stays tried: entries only come at the end.
LEMMA StillTried ==
  ASSUME NEW plan, NEW trail, NEW longer,
         Len(trail) \in Nat, Len(longer) \in Nat, Len(trail) <= Len(longer),
         \A j \in 1 .. Len(trail) : longer[j] = trail[j], NEW i \in 2 .. Len(trail)
  PROVE  /\ \A k, move : Tried(plan, trail, i, k, move) => Tried(plan, longer, i, k, move)
         /\ LocalOptimum(plan, trail, i) => LocalOptimum(plan, longer, i)
<1>1. longer[i] = trail[i]
  OBVIOUS
<1>2. ASSUME NEW k, NEW move, Tried(plan, trail, i, k, move)
      PROVE  Tried(plan, longer, i, k, move)
  <2>. DEFINE cand == Moved(plan, trail[i].cand, k, move)
  <2>1. Moved(plan, longer[i].cand, k, move) = cand
    BY <1>1
  <2>2. CASE cand # << >> /\ Valid(plan, cand)
    <3>1. PICK j \in 2 .. Len(trail) : trail[j].cand = cand /\ ~Better(trail[j], trail[i])
      BY <1>2, <2>2 DEF Tried
    <3>2. j \in 2 .. Len(longer) /\ longer[j] = trail[j]
      OBVIOUS
    <3>. HIDE DEF cand
    <3>3. longer[j].cand = cand /\ ~Better(longer[j], longer[i])
      BY <1>1, <3>1, <3>2
    <3>. QED BY <2>1, <3>2, <3>3 DEF Tried
  <2>3. CASE ~(cand # << >> /\ Valid(plan, cand))
    BY <2>1, <2>3 DEF Tried
  <2>. QED BY <2>2, <2>3
<1>. QED BY <1>1, <1>2 DEF LocalOptimum

\* At the end of a pass without an improvement the incumbent is a local optimum.
LEMMA PassLemma ==
  ASSUME SearchKept, DescentTyped, OptimumKept, PassDone, ~descent.improved
  PROVE  LocalOptimum(call.plan, frontier, descent.inc)
<1>1. /\ stage = "descending" /\ descent.k > Len(Incumbent)
      /\ descent.k \in Int
      /\ Len(Incumbent) \in Nat /\ DOMAIN Incumbent = 1 .. Len(Incumbent)
  BY IncumbentLemma DEF PassDone, DescentTyped
<1>2. ASSUME NEW k \in DOMAIN Incumbent, NEW move \in 1 .. MovesPerPhase
      PROVE  Tried(call.plan, frontier, descent.inc, k, move)
  <2>1. k < descent.k
    BY <1>1
  <2>. QED BY <1>1, <2>1 DEF OptimumKept
<1>. QED BY <1>2 DEF LocalOptimum, Incumbent

\* No entry is better than a winner.
LEMMA BestLemma ==
  ASSUME SearchInv, SearchKept, best # 0, NEW i \in 2 .. Len(frontier)
  PROVE  /\ best \in 2 .. Len(frontier) /\ frontier[best].feasible
         /\ Comparable(frontier[i]) /\ Comparable(frontier[best])
         /\ ~Better(frontier[i], frontier[best])
         /\ frontier[i].feasible /\ i < best => Better(frontier[best], frontier[i])
<1>1. best \in 2 .. Len(frontier) /\ frontier[best].feasible
  BY DEF SearchInv, WinnerIfAny
<1>2. Scored /\ FirstOfTheBest
  BY ScoredLemma DEF SearchInv
<1>3. Comparable(frontier[i]) /\ Comparable(frontier[best])
  BY <1>1, <1>2 DEF Scored
<1>4. CASE frontier[i].feasible
  BY <1>1, <1>2, <1>3, <1>4 DEF FirstOfTheBest
<1>5. CASE ~frontier[i].feasible
  <2>1. frontier[i].feasible # frontier[best].feasible
    BY <1>1, <1>5
  <2>2. ~Better(frontier[i], frontier[best])
    BY <1>5, <2>1 DEF Better
  <2>. QED BY <1>1, <1>3, <1>5, <2>2
<1>. QED BY <1>4, <1>5

\* The winner among the seeds is the first of them by rank.
LEMMA FirstSeedLemma ==
  ASSUME SearchInv, SearchKept, stage = "seeding", best # 0
  PROVE  best = Ranked[1]
<1>1. /\ Len(frontier) \in Nat /\ seeds \in Seq(2 .. Len(frontier)) /\ Scored
      /\ \A i \in DOMAIN seeds : \A at \in 2 .. seeds[i] : \E j \in 1 .. i : seeds[j] = at
      /\ \A at \in 2 .. Len(frontier) : \E j \in DOMAIN seeds : seeds[j] = at
  BY FrontierLemma, ScoredLemma DEF SearchKept, SeedsKept
<1>2. /\ Len(seeds) \in Nat /\ DOMAIN seeds = 1 .. Len(seeds)
      /\ \A i \in DOMAIN seeds : seeds[i] \in 2 .. Len(frontier)
  BY <1>1, PositionsLemma
<1>3. best \in 2 .. Len(frontier) /\ frontier[best].feasible
  BY DEF SearchInv, WinnerIfAny
<1>4. PICK b \in DOMAIN seeds : seeds[b] = best
  BY <1>1, <1>3
<1>5. PICK i \in DOMAIN seeds :
        /\ Ranked[1] = seeds[i]
        /\ \A j \in DOMAIN seeds :
             /\ ~Better(frontier[seeds[j]], frontier[seeds[i]])
             /\ j < i => Better(frontier[seeds[i]], frontier[seeds[j]])
  <2>1. seeds # << >>
    BY <1>4
  <2>. QED BY <1>1, <2>1, RankedLemma
<1>6. /\ ~Better(frontier[best], frontier[seeds[i]])
      /\ ~Better(frontier[seeds[i]], frontier[best])
  BY <1>2, <1>4, <1>5, BestLemma
<1>7. /\ Comparable(frontier[best]) /\ Comparable(frontier[seeds[i]])
      /\ frontier[seeds[i]].feasible /\ seeds[i] < best
           => Better(frontier[best], frontier[seeds[i]])
  BY <1>2, BestLemma
<1>8. frontier[seeds[i]].feasible
  BY <1>3, <1>6, <1>7 DEF Better, Comparable
<1>9. ~(seeds[i] < best)
  BY <1>6, <1>7, <1>8
<1>10. best \in 2 .. seeds[i]
  BY <1>2, <1>3, <1>9
<1>11. PICK j \in 1 .. i : seeds[j] = best
  BY <1>1, <1>10
<1>12. j \in DOMAIN seeds /\ (j < i \/ j = i)
  BY <1>2
<1>13. ~(j < i)
  <2>1. j < i => Better(frontier[seeds[i]], frontier[seeds[j]])
    BY <1>5, <1>12
  <2>. QED BY <1>6, <1>11, <2>1
<1>. QED BY <1>5, <1>11, <1>12, <1>13

\* Trying a move.
LEMMA TryMoveOptimum ==
  ASSUME SearchInv, SearchKept, DescentTyped, OptimumKept, TryMove
  PROVE  OptimumKept'
<1>1. /\ stage = "descending" /\ InSearch /\ frontier # << >> /\ call' = call /\ base' = base
      /\ InPass /\ WorthTrying /\ Evaluate(Candidate)
  BY DEF TryMove, InPass, SearchInv, Outset, InSearch
<1>2. PICK cand : cand = Candidate
  OBVIOUS
<1>3. Legal(call.plan, cand) /\ Evaluate(cand) /\ Searchable(call.plan)
      /\ cand = Moved(call.plan, Incumbent, descent.k, descent.move)
  BY <1>1, <1>2, CandidateLemma, IncumbentLemma DEF Candidate
<1>4. PICK at : at = Position(cand)
  OBVIOUS
<1>. DEFINE plan == call.plan
            n == Len(frontier)
            inc == descent.inc
            next == Advanced(descent)
<1>5. /\ n \in Nat /\ n >= 1 /\ at \in 2 .. Len(frontier')
      /\ frontier'[at].cand = cand
      /\ \A i \in 1 .. n : frontier'[i] = frontier[i]
      /\ at <= n => UNCHANGED <<frontier, best>>
      /\ ~(at <= n) =>
           /\ at = n + 1 /\ Len(frontier') = n + 1
           /\ frontier'[at] = Score(plan, base, cand, Analyze(ToPlan(plan, cand)))
           /\ best' = BestOf(frontier', best, at)
  BY <1>1, <1>3, <1>4, PlacedLemma
<1>6. /\ descent \in DescentType /\ inc \in 2 .. n
      /\ descent.move \in 1 .. MovesPerPhase /\ descent.k \in Int
  BY <1>1 DEF DescentTyped
<1>7. /\ next.inc = inc /\ next.improved = descent.improved
      /\ next \in DescentType
      /\ \/ next.k = descent.k /\ next.move = descent.move + 1
         \/ next.k = descent.k + 1 /\ next.move = 1 /\ descent.move = MovesPerPhase
  BY <1>6, AdvancedLemma
<1>. HIDE DEF next
<1>8. \A i \in 2 .. n : frontier'[i] = frontier[i] /\ Comparable(frontier[i])
  <2>1. Scored
    BY ScoredLemma
  <2>. QED BY <1>5, <2>1 DEF Scored
<1>9. Comparable(frontier'[at])
  <2>1. CASE at <= n
    BY <1>5, <1>8, <2>1
  <2>2. CASE ~(at <= n)
    <3>1. base \in SummaryType /\ cand \in Seq(Slot(plan))
      BY <1>1, <1>3 DEF SearchKept, EntriesKept, Legal
    <3>. DEFINE e == Score(plan, base, cand, Analyze(ToPlan(plan, cand)))
    <3>2. e.feasible \in BOOLEAN /\ e.objective \in Int /\ e.violation \in Int
      BY <1>3, <3>1, CandidateScored
    <3>3. Comparable(e)
      BY <3>2 DEF Comparable
    <3>4. frontier'[at] = e
      BY <1>5, <2>2
    <3>. HIDE DEF e
    <3>. QED BY <3>3, <3>4
  <2>. QED BY <2>1, <2>2
<1>10. Len(frontier') \in Nat /\ n <= Len(frontier')
  BY <1>5
<1>11. ASSUME NEW i \in 2 .. n
       PROVE  /\ \A k, move : Tried(plan, frontier, i, k, move) => Tried(plan, frontier', i, k, move)
              /\ LocalOptimum(plan, frontier, i) => LocalOptimum(plan, frontier', i)
  BY <1>5, <1>10, StillTried
<1>12. frontier'[inc] = frontier[inc] /\ frontier'[inc].cand = Incumbent
  BY <1>6, <1>8 DEF Incumbent
<1>13. CASE Better(frontier'[at], frontier[inc])
  <2>1. descent' = [next EXCEPT !.inc = at, !.improved = TRUE]
    BY <1>2, <1>4, <1>13 DEF TryMove, next
  <2>2. descent'.inc = at /\ descent'.improved
    <3>1. at \in Int
      BY <1>5
    <3>. DEFINE e == [next EXCEPT !.inc = at, !.improved = TRUE]
    <3>2. e.inc = at /\ e.improved
      BY <1>7, <3>1, ImprovedLemma
    <3>. HIDE DEF e
    <3>3. descent' = e
      BY <2>1 DEF e
    <3>. QED BY <3>2, <3>3
  <2>3. ASSUME best' # 0
        PROVE  best' = at \/ LocalOptimum(plan, frontier', best')
    <3>1. CASE best = inc
      <4>1. best # 0 /\ best \in 2 .. n /\ frontier[best].feasible
        BY <1>6, <3>1, BestLemma
      <4>2. ~(at <= n)
        <5>1. at <= n => ~Better(frontier[at], frontier[best])
          BY <1>5, <4>1, BestLemma
        <5>. QED BY <1>5, <1>8, <1>13, <3>1, <5>1
      <4>3. frontier'[at].feasible
        BY <1>6, <1>9, <1>13, <1>8, <3>1, <4>1 DEF Better, Comparable
      <4>4. best' = at
        BY <1>5, <1>12, <1>13, <3>1, <4>2, <4>3 DEF BestOf
      <4>. QED BY <4>4
    <3>2. CASE best # inc
      <4>1. best' = best \/ best' = at
        BY <1>5 DEF BestOf
      <4>2. best # 0 => LocalOptimum(plan, frontier, best) /\ best \in 2 .. n
        BY <1>1, <1>6, <3>2, BestLemma DEF OptimumKept
      <4>. QED BY <1>11, <2>3, <4>1, <4>2
    <3>. QED BY <3>1, <3>2
  <2>. QED BY <1>1, <2>2, <2>3 DEF OptimumKept
<1>14. CASE ~Better(frontier'[at], frontier[inc])
  <2>1. descent' = next
    BY <1>2, <1>4, <1>14 DEF TryMove, next
  <2>2. best' = best
    <3>1. CASE at <= n
      BY <1>5, <3>1
    <3>2. CASE ~(at <= n) /\ best = 0
      <4>1. ~frontier[inc].feasible
        BY <1>6, <3>2 DEF SearchInv, WinnerIfAny
      <4>2. ~frontier'[at].feasible
        BY <1>6, <1>8, <1>9, <1>14, <4>1 DEF Better, Comparable
      <4>. QED BY <1>5, <3>2, <4>2 DEF BestOf
    <3>3. CASE ~(at <= n) /\ best # 0
      <4>1. best \in 2 .. n /\ ~Better(frontier[inc], frontier[best])
        BY <1>6, <3>3, BestLemma
      <4>2. Comparable(frontier[best]) /\ Comparable(frontier[inc])
        BY <1>6, <1>8, <4>1
      <4>3. ~Better(frontier'[at], frontier[best])
        BY <1>9, <1>14, <4>1, <4>2, BetterLemma
      <4>4. frontier'[best] = frontier[best]
        BY <1>8, <4>1
      <4>. QED BY <1>5, <3>3, <4>3, <4>4 DEF BestOf
    <3>. QED BY <3>1, <3>2, <3>3
  <2>3. ASSUME best' # 0
        PROVE  best' = descent'.inc \/ LocalOptimum(plan, frontier', best')
    <3>1. best \in 2 .. n
      BY <1>6, <2>2, <2>3, BestLemma
    <3>2. best = inc \/ LocalOptimum(plan, frontier, best)
      BY <1>1, <2>2, <2>3 DEF OptimumKept
    <3>. QED BY <1>7, <1>11, <2>1, <2>2, <3>1, <3>2
  <2>4. ASSUME ~descent'.improved, NEW k \in DOMAIN Incumbent, NEW move \in 1 .. MovesPerPhase,
               k < next.k \/ (k = next.k /\ move < next.move)
        PROVE  Tried(plan, frontier', inc, k, move)
    <3>1. ~descent.improved
      BY <1>7, <2>1, <2>4
    <3>2. k \in Int /\ move \in Int
      <4>1. DOMAIN Incumbent = 1 .. Len(Incumbent)
        BY <1>1, IncumbentLemma
      <4>. QED BY <2>4, <4>1
    <3>3. CASE k < descent.k \/ (k = descent.k /\ move < descent.move)
      <4>1. Tried(plan, frontier, inc, k, move)
        BY <1>1, <3>1, <3>3 DEF OptimumKept
      <4>. QED BY <1>6, <1>11, <4>1
    <3>4. CASE k = descent.k /\ move = descent.move
      <4>1. Moved(plan, frontier'[inc].cand, k, move) = cand
        BY <1>3, <1>12, <3>4
      <4>2. at \in 2 .. Len(frontier') /\ frontier'[at].cand = cand
            /\ ~Better(frontier'[at], frontier'[inc])
        BY <1>5, <1>12, <1>14
      <4>. QED BY <4>1, <4>2 DEF Tried
    <3>5. (k < descent.k \/ (k = descent.k /\ move < descent.move))
          \/ (k = descent.k /\ move = descent.move)
      BY <1>6, <1>7, <2>4, <3>2
    <3>. QED BY <3>3, <3>4, <3>5
  <2>5. Incumbent' = Incumbent
    BY <1>7, <1>12, <2>1 DEF Incumbent
  <2>. QED BY <1>1, <1>7, <2>1, <2>3, <2>4, <2>5 DEF OptimumKept
<1>. QED BY <1>13, <1>14

LEMMA OptimumStep ==
  ASSUME SearchInv, SearchKept, DescentTyped, OptimumKept, [Next]_vars
  PROVE  OptimumKept'
<1>1. CASE stage' # "descending"
  BY <1>1 DEF OptimumKept
<1>2. Undispatched \/ RefuseAnalysis \/ RefuseSearch \/ EndDraws \/ OutOfBudget \/ Converged
      => stage' # "descending"
  BY DEF Undispatched, RefuseAnalysis, RefuseSearch, EndDraws, OutOfBudget, Converged,
         EndSearch, Answer
<1>3. (\E request \in Requests : Call(request)) \/ RunAnalysis \/ Draw \/ Reply \/ Panic
      \/ StartSearch \/ SeedNext => stage' # "descending"
  BY DEF Call, RunAnalysis, Draw, Reply, Panic, Answer, StartSearch, SeedNext
<1>4. TryMove => OptimumKept'
  BY TryMoveOptimum
<1>5. CASE SkipMove
  <2>1. /\ stage = "descending" /\ ~WorthTrying /\ descent' = Advanced(descent)
        /\ UNCHANGED <<call, frontier, best>>
    BY <1>5 DEF SkipMove, InPass
  <2>2. /\ descent \in DescentType /\ descent.move \in 1 .. MovesPerPhase /\ descent.k \in Int
    BY <2>1 DEF DescentTyped
  <2>3. /\ descent'.inc = descent.inc /\ descent'.improved = descent.improved
        /\ \/ descent'.k = descent.k /\ descent'.move = descent.move + 1
           \/ descent'.k = descent.k + 1 /\ descent'.move = 1 /\ descent.move = MovesPerPhase
    BY <2>1, <2>2, AdvancedLemma
  <2>4. Incumbent' = Incumbent
    BY <2>1, <2>3 DEF Incumbent
  <2>5. ASSUME ~descent.improved, NEW k \in DOMAIN Incumbent, NEW move \in 1 .. MovesPerPhase,
               k < descent'.k \/ (k = descent'.k /\ move < descent'.move)
        PROVE  Tried(call.plan, frontier, descent.inc, k, move)
    <3>1. k \in Int /\ move \in Int
      <4>1. DOMAIN Incumbent = 1 .. Len(Incumbent)
        BY <2>1, IncumbentLemma
      <4>. QED BY <2>5, <4>1
    <3>2. CASE k < descent.k \/ (k = descent.k /\ move < descent.move)
      BY <2>1, <2>5, <3>2 DEF OptimumKept
    <3>3. CASE k = descent.k /\ move = descent.move
      <4>1. Moved(call.plan, frontier[descent.inc].cand, k, move) = Candidate
        BY <3>3 DEF Candidate, Incumbent
      <4>2. ~(Candidate # << >> /\ Valid(call.plan, Candidate))
        BY <2>1 DEF WorthTrying
      <4>. QED BY <4>1, <4>2 DEF Tried
    <3>4. (k < descent.k \/ (k = descent.k /\ move < descent.move))
          \/ (k = descent.k /\ move = descent.move)
      BY <2>2, <2>3, <2>5, <3>1
    <3>. QED BY <3>2, <3>3, <3>4
  <2>. QED BY <2>1, <2>3, <2>4, <2>5 DEF OptimumKept
<1>6. CASE NextPass
  <2>1. /\ stage = "descending" /\ UNCHANGED <<call, frontier, best>>
        /\ descent' = [descent EXCEPT !.k = 1, !.move = 1, !.improved = FALSE]
    BY <1>6 DEF NextPass, PassDone
  <2>2. descent \in DescentType
    BY <2>1 DEF DescentTyped
  <2>3. descent'.inc = descent.inc /\ descent'.move = 1 /\ descent'.k = 1
    BY <2>1, <2>2, AgainLemma
  <2>4. Incumbent' = Incumbent /\ DOMAIN Incumbent = 1 .. Len(Incumbent)
        /\ Len(Incumbent) \in Nat
    BY <2>1, <2>3, IncumbentLemma DEF Incumbent
  <2>5. \A k \in DOMAIN Incumbent, move \in 1 .. MovesPerPhase :
          ~(k < descent'.k \/ (k = descent'.k /\ move < descent'.move))
    BY <2>3, <2>4, MovesLemma
  <2>. QED BY <2>1, <2>3, <2>4, <2>5 DEF OptimumKept
<1>7. ASSUME InSearch, NEW rank \in 1 .. LastRank, descent' = DescentFrom(rank),
             UNCHANGED <<call, frontier, seeds, best>>,
             best # 0 => best = Ranked[rank] \/ LocalOptimum(call.plan, frontier, best)
      PROVE  OptimumKept'
  <2>1. seeds \in Seq(2 .. Len(frontier)) /\ Len(frontier) \in Nat /\ Scored
    BY FrontierLemma, ScoredLemma DEF SearchKept, SeedsKept
  <2>2. rank \in DOMAIN seeds /\ rank \in Int
    <3>1. Len(seeds) \in Nat /\ DOMAIN seeds = 1 .. Len(seeds)
      BY <2>1, PositionsLemma
    <3>2. DescentSeeds \in Int /\ Len(seeds) \in Int
      BY <3>1, PhasingAssumption
    <3>3. LastRank \in Int /\ LastRank <= Len(seeds)
      BY <3>2, LargerLemma DEF LastRank
    <3>. QED BY <1>7, <3>1, <3>3
  <2>3. Ranked[rank] \in 2 .. Len(frontier)
    <3>1. \E i \in DOMAIN seeds : Ranked[rank] = seeds[i]
      BY <2>1, <2>2, RankedLemma
    <3>. QED BY <2>1, <3>1, PositionsLemma
  <2>4. Ranked[rank] \in Int
    BY <2>3
  <2>5. descent'.inc = Ranked[rank] /\ descent'.k = 1 /\ descent'.move = 1
    BY <1>7, <2>2, <2>4, DescentFromLemma
  <2>6. DOMAIN frontier[Ranked[rank]].cand \subseteq Nat \ {0}
    <3>1. Evaluated(Ranked[rank])
      BY <1>7, <2>3 DEF SearchKept, EntriesKept
    <3>2. frontier[Ranked[rank]].cand \in Seq(Slot(call.plan))
      BY <3>1 DEF Evaluated, Legal
    <3>. DEFINE cand == frontier[Ranked[rank]].cand
    <3>3. Len(cand) \in Nat /\ DOMAIN cand = 1 .. Len(cand)
      BY <3>2, PositionsLemma
    <3>. QED BY <3>3
  <2>7. \A k \in DOMAIN Incumbent', move \in 1 .. MovesPerPhase :
          ~(k < descent'.k \/ (k = descent'.k /\ move < descent'.move))
    <3>1. Incumbent' = frontier[Ranked[rank]].cand
      BY <1>7, <2>5 DEF Incumbent
    <3>. QED BY <2>5, <2>6, <3>1, MovesLemma
  <2>. QED BY <1>7, <2>5, <2>7 DEF OptimumKept
<1>8. CASE NextSeed
  <2>1. /\ stage = "descending" /\ InSearch /\ PassDone /\ ~descent.improved
        /\ descent.rank < LastRank /\ descent' = DescentFrom(descent.rank + 1)
        /\ UNCHANGED <<call, frontier, seeds, best>>
    BY <1>8 DEF NextSeed, PassDone, InSearch
  <2>2. LocalOptimum(call.plan, frontier, descent.inc)
    BY <2>1, PassLemma
  <2>3. best # 0 => LocalOptimum(call.plan, frontier, best)
    BY <2>1, <2>2 DEF OptimumKept
  <2>4. descent.rank \in 1 .. LastRank /\ LastRank \in Int
    <3>1. DescentSeeds \in Int /\ Len(seeds) \in Int
      <4>1. seeds \in Seq(2 .. Len(frontier))
        BY DEF SearchKept, SeedsKept
      <4>. QED BY <4>1, PositionsLemma, PhasingAssumption
    <3>. QED BY <2>1, <3>1, LargerLemma DEF LastRank, DescentTyped
  <2>5. PICK rank : rank = descent.rank + 1
    OBVIOUS
  <2>6. rank \in 1 .. LastRank /\ descent' = DescentFrom(rank)
    BY <2>1, <2>4, <2>5
  <2>. QED BY <1>7, <2>1, <2>3, <2>6
<1>9. CASE SeedsDone /\ stage' = "descending"
  <2>1. /\ stage = "seeding" /\ InSearch /\ seeds # << >> /\ descent' = DescentFrom(1)
        /\ UNCHANGED <<call, frontier, seeds, best>>
    BY <1>9 DEF SeedsDone, InSearch, EndSearch, Answer
  <2>2. best # 0 => best = Ranked[1]
    BY <2>1, FirstSeedLemma
  <2>3. 1 \in 1 .. LastRank
    <3>1. DescentSeeds \in Int /\ Len(seeds) \in Int /\ DescentSeeds >= 1 /\ Len(seeds) >= 1
      <4>1. seeds \in Seq(2 .. Len(frontier))
        BY DEF SearchKept, SeedsKept
      <4>2. Len(seeds) \in Nat /\ Len(seeds) # 0
        BY <2>1, <4>1, EmptySeq, PositionsLemma
      <4>. QED BY <4>2, PhasingAssumption
    <3>2. LastRank = IF DescentSeeds <= Len(seeds) THEN DescentSeeds ELSE Len(seeds)
      BY <3>1, LargerLemma DEF LastRank
    <3>. QED BY <3>1, <3>2
  <2>. QED BY <1>7, <2>1, <2>2, <2>3
<1>10. CASE UNCHANGED vars
  BY <1>10 DEF vars, OptimumKept, Incumbent
<1>. QED BY <1>1, <1>2, <1>3, <1>4, <1>5, <1>6, <1>8, <1>9, <1>10
         DEF Next, EngineStep, Search

LEMMA OptimumInductive == Spec => []OptimumKept
<1>1. Init => OptimumKept
  BY DEF Init, OptimumKept
<1>. QED BY <1>1, OptimumStep, SearchInductive, KeptInductive, PTL DEF Spec

\* A search that says it converged ends in a local optimum.
AnswerIsOptimal ==
  Searching /\ best # 0 /\ result.optimization[1].converged
    => LocalOptimum(call.plan, frontier, best)

LEMMA ConvergedLemma ==
  ASSUME SearchInv, NEW converged, EndSearch(converged),
         best # 0 /\ converged => LocalOptimum(call.plan, frontier, best)
  PROVE  AnswerIsOptimal'
<1>1. /\ UNCHANGED <<call, frontier, best>>
      /\ result' = SearchResult(converged)
  BY DEF EndSearch, Answer, locals
<1>2. result'.optimization[1].converged = converged
  BY <1>1 DEF SearchResult, Bare
<1>. QED BY <1>1, <1>2 DEF AnswerIsOptimal

LEMMA OptimalStep ==
  ASSUME SearchInv, SearchKept, DescentTyped, OptimumKept, AnswerIsOptimal, [Next]_vars
  PROVE  AnswerIsOptimal'
<1>1. CASE stage' # "done" \/ result'.optimization = << >>
  BY <1>1 DEF AnswerIsOptimal, Searching
<1>2. \A status, diags : Bare(status, diags).optimization = << >>
  BY DEF Bare
<1>3. ASSUME NEW status, NEW diags, Answer(Bare(status, diags))
      PROVE  result'.optimization = << >>
  BY <1>2, <1>3 DEF Answer
<1>4. Undispatched \/ Panic \/ RefuseAnalysis \/ RefuseSearch => result'.optimization = << >>
  BY <1>3 DEF Undispatched, Panic, Failure, RefuseAnalysis, RefuseSearch
<1>5. ASSUME NEW plan, NEW drawn, Answer(AnalysisResult(plan, drawn))
      PROVE  result'.optimization = << >>
  BY <1>5, AnalysisAnswer DEF Answer
<1>6. RunAnalysis \/ EndDraws => stage' # "done" \/ result'.optimization = << >>
  BY <1>5 DEF RunAnalysis, EndDraws
<1>7. CASE SeedsDone /\ stage' = "done"
  <2>1. stage = "seeding" /\ seeds = << >> /\ EndSearch(TRUE)
    BY <1>7 DEF SeedsDone
  <2>2. best = 0
    <3>1. \A at \in 2 .. Len(frontier) : FALSE
      BY <2>1 DEF SearchKept, SeedsKept
    <3>. QED BY <3>1 DEF SearchInv, WinnerIfAny
  <2>. QED BY <2>1, <2>2, ConvergedLemma
<1>8. CASE OutOfBudget
  <2>1. EndSearch(FALSE)
    BY <1>8 DEF OutOfBudget
  <2>. QED BY <2>1, ConvergedLemma
<1>9. CASE Converged
  <2>1. stage = "descending" /\ PassDone /\ ~descent.improved /\ EndSearch(TRUE)
    BY <1>9 DEF Converged, PassDone
  <2>2. LocalOptimum(call.plan, frontier, descent.inc)
    BY <2>1, PassLemma
  <2>3. best # 0 => LocalOptimum(call.plan, frontier, best)
    BY <2>1, <2>2 DEF OptimumKept
  <2>. QED BY <2>1, <2>3, ConvergedLemma
<1>10. (\E request : Call(request)) \/ Draw \/ Reply \/ StartSearch \/ SeedNext => stage' # "done"
  BY DEF Call, Draw, Reply, StartSearch, SeedNext
<1>11. SkipMove \/ TryMove \/ NextPass \/ NextSeed => stage' # "done"
  BY DEF SkipMove, TryMove, NextPass, NextSeed, InPass, PassDone
<1>12. CASE UNCHANGED vars
  BY <1>12 DEF vars, AnswerIsOptimal, Searching
<1>. QED BY <1>1, <1>4, <1>6, <1>7, <1>8, <1>9, <1>10, <1>11, <1>12
         DEF Next, EngineStep, Search

LEMMA OptimalInductive == Spec => []AnswerIsOptimal
<1>1. Init => AnswerIsOptimal
  BY DEF Init, AnswerIsOptimal, Searching
<1>. QED BY <1>1, OptimalStep, SearchInductive, KeptInductive, OptimumInductive, PTL DEF Spec

-----------------------------------------------------------------------------
(* What the invariants say of an answer *)

LEMMA TypeLemma ==
  ASSUME SearchInv, CallKept, SearchKept, DescentTyped, DrawsKept
  PROVE  PlannerTypeOK
<1>1. Entries = 1 .. Len(frontier) /\ Len(frontier) \in Nat
  BY FrontierLemma DEF Entries
<1>2. Entries \ {1} = 2 .. Len(frontier)
  BY <1>1
<1>3. best \in ({0} \cup Entries) \ {1}
  BY <1>1 DEF SearchInv, WinnerIfAny
<1>4. ToSet(seeds) \subseteq Entries \ {1}
  <2>1. \A i \in DOMAIN seeds : seeds[i] \in 2 .. Len(frontier)
    BY PositionsLemma DEF SearchKept, SeedsKept
  <2>. QED BY <1>2, <2>1 DEF ToSet
<1>5. stage = "descending" => descent.inc \in Entries \ {1}
  BY <1>2 DEF DescentTyped
<1>6. stage = "drawing" => Drawn <= call.plan.risk.iterations
  BY DEF DrawsKept
<1>7. Len(frontier) <= EvalBudget
  BY DEF SearchInv, BudgetKept
<1>8. /\ stage \in {"idle", "called", "drawing", "seeding", "descending", "done"}
      /\ call \in Requests \cup {NoCall}
      /\ stage = "idle" <=> call = NoCall
  BY DEF CallKept
<1>. QED BY <1>3, <1>4, <1>5, <1>6, <1>7, <1>8 DEF PlannerTypeOK

LEMMA HonestLemma ==
  ASSUME SearchInv, SearchKept, AnswerIsTheWinner
  PROVE  WinnerIsHonest
<1>. DEFINE plan == call.plan
            feasible == {i \in Candidates : frontier[i].feasible}
            found == ToPlan(plan, frontier[best].cand)
            res == Analyze(found)
            again == Analyze(result.optimization[1].bestPlan[1])
<1>. SUFFICES ASSUME Searching
              PROVE  /\ \A i, j \in Candidates : frontier[i].cand = frontier[j].cand => i = j
                     /\ feasible = {} <=> result.status = "INFEASIBLE"
                     /\ feasible # {} =>
                          /\ best \in feasible
                          /\ \A i \in feasible :
                               /\ ~Better(frontier[i], frontier[best])
                               /\ i < best => Better(frontier[best], frontier[i])
                          /\ ObeysPolicy(plan, frontier[best].cand)
                          /\ again.status \in {"OK", "OK_WITH_WARNINGS"} /\ again.failed = {}
                          /\ again.summary = result.summary /\ again.diags \subseteq result.diags
                          /\ \A i \in DOMAIN Constraints(plan) :
                               Satisfied(Constraints(plan)[i], result.summary)
  BY DEF WinnerIsHonest
<1>1. InSearch
  BY DEF InSearch
<1>2. Candidates = 2 .. Len(frontier)
  BY FrontierLemma DEF Candidates, Entries
<1>3. \A i, j \in Candidates : frontier[i].cand = frontier[j].cand => i = j
  BY <1>2 DEF SearchInv, PaidOnce
<1>4. best = 0 => feasible = {} /\ result.status = "INFEASIBLE"
  BY <1>2 DEF SearchInv, WinnerIfAny, AnswerIsTheWinner
<1>5. best # 0 => best \in feasible
  BY <1>2 DEF SearchInv, WinnerIfAny
<1>6. best # 0 => /\ result.status # "INFEASIBLE"
                  /\ result.optimization[1].bestPlan = <<found>>
                  /\ result.summary = res.summary
                  /\ frontier[best].diags \subseteq result.diags
  BY DEF AnswerIsTheWinner
<1>7. best # 0 => again = res
  BY <1>6
<1>8. ASSUME best # 0
      PROVE  /\ frontier[best].diags = res.diags
             /\ ObeysPolicy(plan, frontier[best].cand)
             /\ res.status \in {"OK", "OK_WITH_WARNINGS"} /\ res.failed = {}
             /\ \A i \in DOMAIN Constraints(plan) : Satisfied(Constraints(plan)[i], res.summary)
  <2>1. best \in 2 .. Len(frontier) /\ frontier[best].feasible /\ EntriesKept
    BY <1>8 DEF SearchInv, WinnerIfAny, SearchKept
  <2>. QED BY <1>1, <2>1, EntryLemma
<1>9. ASSUME best # 0, NEW i \in feasible
      PROVE  /\ ~Better(frontier[i], frontier[best])
             /\ i < best => Better(frontier[best], frontier[i])
  <2>1. i \in 2 .. Len(frontier) /\ frontier[i].feasible
    BY <1>2
  <2>. QED BY <1>9, <2>1, BestLemma
<1>. HIDE DEF feasible, res, again, found, plan
<1>. QED BY <1>3, <1>4, <1>5, <1>6, <1>7, <1>8, <1>9

LEMMA LocalLemma ==
  ASSUME SearchInv, AnswerIsOptimal
  PROVE  ConvergedIsLocalOptimum
<1>. SUFFICES ASSUME Searching, best # 0, result.optimization[1].converged,
                     NEW k \in DOMAIN frontier[best].cand, NEW move \in 1 .. MovesPerPhase,
                     NEW cand, cand = Moved(call.plan, frontier[best].cand, k, move),
                     cand # << >>, Valid(call.plan, cand)
              PROVE  Memo(cand) # {} /\ ~Better(frontier[Min(Memo(cand))], frontier[best])
  BY DEF ConvergedIsLocalOptimum
<1>1. Tried(call.plan, frontier, best, k, move)
  BY DEF AnswerIsOptimal, LocalOptimum
<1>2. PICK j \in 2 .. Len(frontier) :
        frontier[j].cand = cand /\ ~Better(frontier[j], frontier[best])
  BY <1>1 DEF Tried
<1>3. j \in Memo(cand)
  BY <1>2 DEF Memo
<1>4. frontier # << >>
  <2>1. Len(frontier) # 0
    BY <1>2
  <2>. QED BY <2>1
<1>5. PICK at : at = Position(cand)
  OBVIOUS
<1>6. at = Min(Memo(cand))
  BY <1>3, <1>5 DEF Position
<1>7. /\ Len(frontier) \in Nat /\ at \in 2 .. Len(frontier) + 1
      /\ Memo(cand) # {} <=> at <= Len(frontier)
      /\ at <= Len(frontier) => frontier[at].cand = cand
  BY <1>4, <1>5, PositionLemma
<1>8. at \in 2 .. Len(frontier) /\ frontier[at].cand = cand
  BY <1>3, <1>7
<1>9. at = j
  BY <1>2, <1>8 DEF SearchInv, PaidOnce
<1>. QED BY <1>2, <1>3, <1>6, <1>9

-----------------------------------------------------------------------------
(* The statistics of a sample *)

Ascending(s) == \A q, r \in DOMAIN s : q <= r => s[q] <= s[r]

LEMMA SortedLemma ==
  ASSUME NEW n \in Nat, NEW xs \in [1 .. n -> Int]
  PROVE  LET sorted == SortedValues(xs)
         IN  /\ sorted \in [1 .. n -> Int] /\ Ascending(sorted)
             /\ \A r \in 1 .. n : \E i \in 1 .. n : sorted[r] = xs[i]
<1>. DEFINE S == 1 .. n
            Before(i, j) == xs[i] < xs[j] \/ (xs[i] = xs[j] /\ i < j)
            below == [i \in S |-> {j \in S : Before(j, i)}]
            order == Ranking(below)
            sorted == SortedValues(xs)
<1>1. /\ IsFiniteSet(S) /\ Cardinality(S) = n /\ DOMAIN xs = S
      /\ \A i \in S : i \in Int /\ xs[i] \in Int
  BY FS_Interval
<1>2. sorted = [r \in DOMAIN order |-> xs[order[r]]]
  BY <1>1 DEF SortedValues
<1>. HIDE DEF S, sorted
<1>3. below \in [S -> SUBSET S] /\ \A i, j \in S : j \in below[i] <=> Before(j, i)
  OBVIOUS
<1>4. \A i, j, k \in S : Before(k, j) /\ Before(j, i) => Before(k, i)
  BY <1>1
<1>5. \A i, j \in S : ~Before(i, i) /\ (i # j => Before(i, j) \/ Before(j, i))
  BY <1>1
<1>6. \A i, j \in S : Before(i, j) => xs[i] <= xs[j]
  BY <1>1
<1>. HIDE DEF below, Before
<1>7. \A i \in S : i \notin below[i]
  BY <1>3, <1>5
<1>8. \A i \in S : \A j \in below[i] : below[j] \subseteq below[i]
  BY <1>3, <1>4
<1>9. \A i, j \in S : i # j => j \in below[i] \/ i \in below[j]
  BY <1>3, <1>5
<1>10. order \in [1 .. n -> S]
  BY <1>1, <1>3, <1>7, <1>8, <1>9, RankingLemma
<1>11. \A q, r \in 1 .. n : q < r => order[q] \in below[order[r]]
  BY <1>1, <1>3, <1>7, <1>8, <1>9, RankingLemma
<1>. HIDE DEF order
<1>12. /\ DOMAIN sorted = 1 .. n
       /\ \A r \in 1 .. n : order[r] \in S /\ sorted[r] = xs[order[r]]
  BY <1>2, <1>10
<1>13. sorted \in [1 .. n -> Int]
  BY <1>1, <1>2, <1>10
<1>14. ASSUME NEW q \in 1 .. n, NEW r \in 1 .. n, q <= r
       PROVE  sorted[q] <= sorted[r]
  <2>1. CASE q = r
    BY <1>13, <2>1
  <2>2. CASE q < r
    <3>1. Before(order[q], order[r])
      BY <1>3, <1>11, <1>12, <2>2
    <3>. QED BY <1>6, <1>12, <3>1
  <2>. QED BY <1>14, <2>1, <2>2
<1>15. Ascending(sorted)
  BY <1>12, <1>14 DEF Ascending
<1>16. \A r \in 1 .. n : \E i \in 1 .. n : sorted[r] = xs[i]
  BY <1>12 DEF S
<1>. QED BY <1>13, <1>15, <1>16 DEF sorted

LEMMA ProductLemma ==
  ASSUME NEW a \in Int, NEW b \in Int, a <= b, NEW c \in Nat
  PROVE  a * c <= b * c
<1>1. b - a \in Nat
  OBVIOUS
<1>2. (b - a) * c \in Nat
  BY <1>1
<1>3. (b - a) * c = b * c - a * c
  OBVIOUS
<1>. QED BY <1>2, <1>3

\* Where a quantile lies: between two neighbours, or on the last value.
Between(s, n, pct) ==
  LET pos == pct * (n - 1)
      lo  == pos \div 100
      rest == pos % 100
  IN  /\ lo \in 0 .. n - 1 /\ rest \in 0 .. 99 /\ pos = 100 * lo + rest
      /\ Quantile(s, pct) \in Int /\ 100 * s[lo + 1] <= Quantile(s, pct)
      /\ lo + 1 = n => Quantile(s, pct) = 100 * s[n]
      /\ lo + 1 < n =>
           /\ Quantile(s, pct) = 100 * s[lo + 1] + rest * (s[lo + 2] - s[lo + 1])
           /\ Quantile(s, pct) <= 100 * s[lo + 2]

LEMMA QuantileLemma ==
  ASSUME NEW n \in Nat, n > 0, NEW s \in [1 .. n -> Int], Ascending(s), NEW pct \in 0 .. 100
  PROVE  Between(s, n, pct)
<1>. DEFINE pos == pct * (n - 1)
            lo  == pos \div 100
            rest == pos % 100
            Q == Quantile(s, pct)
<1>1. pos \in Int /\ 0 <= pos /\ pos <= 100 * (n - 1)
  <2>1. pct \in Int /\ n - 1 \in Nat
    OBVIOUS
  <2>2. 0 * (n - 1) <= pct * (n - 1)
    BY <2>1, ProductLemma
  <2>3. pct * (n - 1) <= 100 * (n - 1)
    BY <2>1, ProductLemma
  <2>. QED BY <2>1, <2>2, <2>3
<1>2. Len(s) = n
  BY TupleLemma
<1>3. Q = IF lo + 1 >= n THEN 100 * s[n]
          ELSE 100 * s[lo + 1] + rest * (s[lo + 2] - s[lo + 1])
  BY <1>2 DEF Quantile
<1>. HIDE DEF Q, pos
<1>4. lo \in Int /\ rest \in 0 .. 99 /\ pos = 100 * lo + rest
  BY <1>1
<1>. HIDE DEF lo, rest
<1>5. lo \in 0 .. n - 1
  BY <1>1, <1>4
<1>6. CASE lo + 1 = n
  <2>1. Q = 100 * s[n] /\ s[n] \in Int
    BY <1>3, <1>6
  <2>. QED BY <1>4, <1>5, <1>6, <2>1 DEF Between, Q, pos, lo, rest
<1>7. CASE lo + 1 < n
  <2>1. /\ lo + 1 \in 1 .. n /\ lo + 2 \in 1 .. n /\ DOMAIN s = 1 .. n
        /\ s[lo + 1] \in Int /\ s[lo + 2] \in Int /\ lo + 1 <= lo + 2
    BY <1>5, <1>7
  <2>2. s[lo + 1] <= s[lo + 2]
    BY <2>1 DEF Ascending
  <2>. DEFINE a == s[lo + 1]
              b == s[lo + 2]
  <2>3. Q = 100 * a + rest * (b - a)
    BY <1>3, <1>5, <1>7
  <2>4. a \in Int /\ b \in Int /\ a <= b
    BY <2>1, <2>2
  <2>. HIDE DEF a, b
  <2>5. b - a \in Nat /\ rest \in Int /\ rest <= 100 /\ 0 <= rest
    BY <1>4, <2>4
  <2>6. 0 * (b - a) <= rest * (b - a)
    BY <2>5, ProductLemma
  <2>7. rest * (b - a) <= 100 * (b - a)
    BY <2>5, ProductLemma
  <2>8. rest * (b - a) \in Int
    BY <2>5
  <2>9. Q \in Int /\ 100 * a <= Q /\ Q <= 100 * b
    BY <2>3, <2>4, <2>6, <2>7, <2>8
  <2>. QED BY <1>4, <1>5, <1>7, <2>3, <2>9 DEF Between, Q, pos, lo, rest, a, b
<1>. QED BY <1>5, <1>6, <1>7

\* Quantiles are ordered, within the sample.
LEMMA QuantilesLemma ==
  ASSUME NEW n \in Nat, n > 0, NEW s \in [1 .. n -> Int], Ascending(s),
         NEW p \in 0 .. 100, NEW q \in 0 .. 100, p <= q
  PROVE  /\ Quantile(s, p) \in Int /\ Quantile(s, q) \in Int
         /\ 100 * s[1] <= Quantile(s, p) /\ Quantile(s, p) <= Quantile(s, q)
         /\ Quantile(s, q) <= 100 * s[n]
<1>. DEFINE Pos(pct) == pct * (n - 1)
            Lo(pct) == Pos(pct) \div 100
            Rest(pct) == Pos(pct) % 100
<1>1. Between(s, n, p)
  BY QuantileLemma
<1>2. Between(s, n, q)
  BY QuantileLemma
<1>3. Pos(p) \in Int /\ Pos(q) \in Int /\ Pos(p) <= Pos(q)
  <2>1. p \in Int /\ q \in Int /\ n - 1 \in Nat
    OBVIOUS
  <2>2. p * (n - 1) <= q * (n - 1)
    BY <2>1, ProductLemma
  <2>. QED BY <2>1, <2>2
<1>4. DOMAIN s = 1 .. n /\ \A i \in 1 .. n : s[i] \in Int
  OBVIOUS
<1>. DEFINE P == Quantile(s, p)
            Q == Quantile(s, q)
            lp == Lo(p)
            lq == Lo(q)
            rp == Rest(p)
            rq == Rest(q)
<1>5. /\ lp \in 0 .. n - 1 /\ lq \in 0 .. n - 1 /\ rp \in 0 .. 99 /\ rq \in 0 .. 99
      /\ 100 * lp + rp <= 100 * lq + rq
  BY <1>1, <1>2, <1>3 DEF Between
<1>6. /\ P \in Int /\ 100 * s[lp + 1] <= P
      /\ lp + 1 = n => P = 100 * s[n]
      /\ lp + 1 < n => /\ P = 100 * s[lp + 1] + rp * (s[lp + 2] - s[lp + 1])
                       /\ P <= 100 * s[lp + 2]
  BY <1>1 DEF Between
<1>7. /\ Q \in Int /\ 100 * s[lq + 1] <= Q
      /\ lq + 1 = n => Q = 100 * s[n]
      /\ lq + 1 < n => /\ Q = 100 * s[lq + 1] + rq * (s[lq + 2] - s[lq + 1])
                       /\ Q <= 100 * s[lq + 2]
  BY <1>2 DEF Between
<1>. HIDE DEF P, Q, lp, lq, rp, rq, Pos, Lo, Rest
<1>8. 100 * s[1] <= P
  <2>1. lp + 1 \in 1 .. n /\ 1 \in 1 .. n /\ 1 <= lp + 1
    BY <1>5
  <2>2. s[1] <= s[lp + 1]
    BY <1>4, <2>1 DEF Ascending
  <2>. QED BY <1>4, <1>6, <2>1, <2>2
<1>9. Q <= 100 * s[n]
  <2>1. CASE lq + 1 = n
    BY <1>4, <1>7, <2>1
  <2>2. CASE lq + 1 < n
    <3>1. lq + 2 \in 1 .. n /\ n \in 1 .. n /\ lq + 2 <= n
      BY <1>5, <2>2
    <3>2. s[lq + 2] <= s[n]
      BY <1>4, <3>1 DEF Ascending
    <3>. QED BY <1>4, <1>7, <2>2, <3>1, <3>2
  <2>. QED BY <1>5, <2>1, <2>2
<1>10. P <= Q
  <2>1. lp <= lq
    BY <1>5
  <2>2. CASE lp < lq
    <3>1. lp + 1 < n /\ lp + 2 \in 1 .. n /\ lq + 1 \in 1 .. n /\ lp + 2 <= lq + 1
      BY <1>5, <2>2
    <3>2. s[lp + 2] <= s[lq + 1]
      BY <1>4, <3>1 DEF Ascending
    <3>. QED BY <1>4, <1>6, <1>7, <3>1, <3>2
  <2>3. CASE lp = lq /\ lp + 1 = n
    BY <1>4, <1>6, <1>7, <2>3
  <2>4. CASE lp = lq /\ lp + 1 < n
    <3>. DEFINE a == s[lp + 1]
                b == s[lp + 2]
    <3>1. lp + 1 \in 1 .. n /\ lp + 2 \in 1 .. n /\ lp + 1 <= lp + 2
      BY <1>5, <2>4
    <3>2. a \in Int /\ b \in Int /\ a <= b
      BY <1>4, <3>1 DEF Ascending
    <3>3. P = 100 * a + rp * (b - a) /\ Q = 100 * a + rq * (b - a)
      BY <1>6, <1>7, <2>4
    <3>. HIDE DEF a, b
    <3>4. b - a \in Nat /\ rp \in Int /\ rq \in Int /\ rp <= rq
      BY <1>5, <2>4, <3>2
    <3>5. rp * (b - a) <= rq * (b - a)
      BY <3>4, ProductLemma
    <3>6. rp * (b - a) \in Int /\ rq * (b - a) \in Int
      BY <3>4
    <3>. QED BY <3>2, <3>3, <3>5, <3>6
  <2>. QED BY <1>5, <2>1, <2>2, <2>3, <2>4
<1>. QED BY <1>6, <1>7, <1>8, <1>9, <1>10 DEF P, Q

\* The ones of a set add up to its size.
LEMMA SumOnes ==
  ASSUME NEW S, IsFiniteSet(S)
  PROVE  /\ [x \in S |-> 1] \in [S -> Int]
         /\ \A T \in SUBSET S : SumFunction(Restrict([x \in S |-> 1], T)) = Cardinality(T)
<1>. DEFINE ones == [x \in S |-> 1]
            Q == {T \in SUBSET S : SumFunction(Restrict(ones, T)) = Cardinality(T)}
<1>1. ones \in [S -> Int] /\ \A x \in S : ones[x] = 1
  OBVIOUS
<1>. HIDE DEF ones
<1>2. {} \in Q
  <2>1. Cardinality({}) = 0
    BY FS_EmptySet
  <2>2. SumFunction(Restrict(ones, {})) = 0
    BY SumNothing
  <2>. QED BY <2>1, <2>2
<1>3. ASSUME NEW T \in SUBSET S, T \in Q, NEW x \in S \ T
      PROVE  T \cup {x} \in Q
  <2>1. IsFiniteSet(T)
    BY FS_Subset
  <2>2. Cardinality(T) \in Nat /\ Cardinality(T \cup {x}) = Cardinality(T) + 1
    BY <2>1, FS_CardinalityType, FS_AddElement
  <2>3. SumFunction(Restrict(ones, T \cup {x})) = ones[x] + SumFunction(Restrict(ones, T))
    BY <1>1, SumGrow
  <2>. QED BY <1>1, <1>3, <2>2, <2>3
<1>. HIDE DEF Q
<1>4. \A T \in SUBSET S : T \in Q
  BY <1>2, <1>3, FiniteInduction
<1>. QED BY <1>1, <1>4 DEF ones, Q

LEMMA BinLemma ==
  ASSUME NEW lo \in Int, NEW hi \in Int, lo < hi, NEW x \in Int, lo <= x
  PROVE  BinOf(x, lo, hi) \in 1 .. HistBins
<1>. DEFINE a == HistBins * (x - lo)
            d == hi - lo
            r == a \div d
<1>1. a \in Int /\ d \in Int /\ d > 0 /\ d * 0 <= a
  BY DEF HistBins
<1>. HIDE DEF a, d
<1>2. r \in Int
  BY <1>1, DivisionLemma
<1>3. 0 <= r
  BY <1>1, QuotientLemma
<1>. DEFINE top == HistBins
            next == r + 1
<1>4. BinOf(x, lo, hi) = AtMost(top, next)
  BY DEF BinOf, a, d
<1>5. top \in Int /\ top >= 1 /\ next \in Int /\ next >= 1
  BY <1>2, <1>3 DEF HistBins
<1>. HIDE DEF top, next
<1>6. AtMost(top, next) = IF top <= next THEN top ELSE next
  BY <1>5, LargerLemma
<1>7. AtMost(top, next) \in 1 .. top
  BY <1>5, <1>6
<1>. QED BY <1>4, <1>7 DEF top

\* Every sample is in one bin.
LEMMA HistogramLemma ==
  ASSUME NEW n \in Nat, n > 0, NEW s \in [1 .. n -> Int], Ascending(s)
  PROVE  SumFunction(Histogram(s)) = n
<1>. DEFINE S == 1 .. n
            K == 1 .. HistBins
            lo == s[1]
            hi == AtLeast(s[Len(s)], lo + 1)
            key == [i \in S |-> BinOf(s[i], lo, hi)]
            ones == [i \in S |-> 1]
            Class(c) == {i \in S : key[i] = c}
<1>1. Len(s) = n /\ DOMAIN s = S
  BY TupleLemma
<1>2. lo \in Int /\ hi \in Int /\ lo < hi
  <2>. DEFINE last == s[n]
              next == lo + 1
  <2>1. last \in Int /\ lo \in Int /\ next \in Int
    OBVIOUS
  <2>2. hi = AtLeast(last, next)
    BY <1>1
  <2>. HIDE DEF hi, last, next
  <2>3. AtLeast(last, next) \in Int
    BY <2>1, LargerLemma
  <2>4. AtLeast(last, next) >= next
    BY <2>1, LargerLemma
  <2>. HIDE DEF lo
  <2>. QED BY <2>1, <2>2, <2>3, <2>4 DEF next
<1>. HIDE DEF hi
<1>3. key \in [S -> K]
  <2>. SUFFICES ASSUME NEW i \in S PROVE BinOf(s[i], lo, hi) \in K
    OBVIOUS
  <2>1. s[i] \in Int /\ lo <= s[i]
    BY <1>1 DEF Ascending
  <2>. HIDE DEF lo
  <2>. QED BY <1>2, <2>1, BinLemma
<1>4. Histogram(s) = [c \in K |-> Cardinality({i \in S : BinOf(s[i], lo, hi) = c})]
  BY <1>1 DEF Histogram, hi
<1>. HIDE DEF lo
<1>5. \A c \in K : {i \in S : BinOf(s[i], lo, hi) = c} = Class(c)
  OBVIOUS
<1>6. IsFiniteSet(S) /\ Cardinality(S) = n /\ IsFiniteSet(K)
  <2>1. 1 \in Int /\ n \in Int /\ HistBins \in Int
    BY DEF HistBins
  <2>2. IsFiniteSet(S) /\ Cardinality(S) = n
    BY <2>1, FS_Interval
  <2>3. IsFiniteSet(K)
    BY <2>1, FS_Interval
  <2>. QED BY <2>2, <2>3
<1>. HIDE DEF S, K, key
<1>7. ones \in [S -> Int] /\ \A T \in SUBSET S : SumFunction(Restrict(ones, T)) = Cardinality(T)
  BY <1>6, SumOnes
<1>. HIDE DEF ones
<1>8. Histogram(s) = [c \in K |-> SumFunction(Restrict(ones, {x \in S : key[x] = c}))]
  <2>1. \A c \in K : Cardinality({i \in S : BinOf(s[i], lo, hi) = c})
                       = SumFunction(Restrict(ones, {x \in S : key[x] = c}))
    BY <1>5, <1>7
  <2>. QED BY <1>4, <2>1
<1>9. SumFunction(Histogram(s)) = SumFunction(ones)
  BY <1>3, <1>6, <1>7, <1>8, SumByClass
<1>10. Restrict(ones, S) = ones
  BY <1>7, RestrictAll
<1>. QED BY <1>6, <1>7, <1>9, <1>10

-----------------------------------------------------------------------------
(* Writing inputs by their path *)

PathType == [field : STRING, index : Nat]

AskedDist == [path : PathType, valid : BOOLEAN, support : SUBSET Int]

AskedSource == [id : Nat, type : STRING, capacity : Int, available : Int,
                cost : Int, capex : Int, lead : Int]

LEMMA TargetSet ==
  ASSUME NEW plan \in SitePlan, NEW x \in Int
  PROVE  [plan EXCEPT !.compute.target = x] \in SitePlan
  BY DEF SitePlan

LEMMA ExitCapSet ==
  ASSUME NEW plan \in SitePlan, NEW x \in Int
  PROVE  [plan EXCEPT !.exitCapPct = x] \in SitePlan
  BY DEF SitePlan

LEMMA UnsetSet ==
  ASSUME NEW plan \in SitePlan, NEW U
  PROVE  [plan EXCEPT !.unset = @ \ U] \in SitePlan
<1>1. plan.unset \ U \in SUBSET STRING
  BY DEF SitePlan
<1>. QED BY <1>1 DEF SitePlan

LEMMA PriceSet ==
  ASSUME NEW plan \in SitePlan, NEW x \in Int, NEW U
  PROVE  [plan EXCEPT !.revenue.price = x, !.unset = @ \ U] \in SitePlan
<1>. DEFINE q == [plan EXCEPT !.revenue.price = x]
<1>1. q \in SitePlan
  BY DEF SitePlan
<1>2. [plan EXCEPT !.revenue.price = x, !.unset = @ \ U] = [q EXCEPT !.unset = @ \ U]
  OBVIOUS
<1>. HIDE DEF q
<1>. QED BY <1>1, <1>2, UnsetSet

LEMMA UtilizationSet ==
  ASSUME NEW plan \in SitePlan, NEW x \in Int, NEW U
  PROVE  [plan EXCEPT !.revenue.utilization = x, !.unset = @ \ U] \in SitePlan
<1>. DEFINE q == [plan EXCEPT !.revenue.utilization = x]
<1>1. q \in SitePlan
  BY DEF SitePlan
<1>2. [plan EXCEPT !.revenue.utilization = x, !.unset = @ \ U] = [q EXCEPT !.unset = @ \ U]
  OBVIOUS
<1>. HIDE DEF q
<1>. QED BY <1>1, <1>2, UnsetSet

LEMMA AvailableSet ==
  ASSUME NEW plan \in SitePlan, NEW x \in Int, NEW i
  PROVE  /\ [plan EXCEPT !.sources[i].available = x] \in SitePlan
         /\ DOMAIN plan.sources = DOMAIN [plan EXCEPT !.sources[i].available = x].sources
<1>. DEFINE old == plan.sources
            new == [old EXCEPT ![i].available = x]
            n == Len(old)
<1>1. old \in Seq(AskedSource)
  BY DEF SitePlan, AskedSource
<1>2. n \in Nat /\ old \in [1 .. n -> AskedSource] /\ DOMAIN old = 1 .. n
  BY <1>1
<1>3. new \in [1 .. n -> AskedSource]
  <2>1. \A s \in AskedSource : [s EXCEPT !.available = x] \in AskedSource
    BY DEF AskedSource
  <2>. HIDE DEF old, n
  <2>. QED BY <1>2, <2>1
<1>4. [plan EXCEPT !.sources[i].available = x] = [plan EXCEPT !.sources = new]
  OBVIOUS
<1>. HIDE DEF new, n
<1>5. new \in Seq(AskedSource) /\ DOMAIN new = 1 .. n
  BY <1>2, <1>3, TupleLemma
<1>6. [plan EXCEPT !.sources = new] \in SitePlan
  BY <1>5 DEF SitePlan, AskedSource
<1>7. [plan EXCEPT !.sources = new].sources = new
  BY DEF SitePlan
<1>. QED BY <1>2, <1>4, <1>5, <1>6, <1>7

LEMMA RoundLemma ==
  ASSUME NEW v \in Int
  PROVE  RoundTenths(v) \in Int /\ v \div 10 \in Int
  BY DEF RoundTenths

LEMMA SetTyped ==
  ASSUME NEW plan \in SitePlan, NEW path, NEW v \in Int
  PROVE  SetNumeric(plan, path, v) \in SitePlan
<1>. DEFINE x == v \div 10
            y == RoundTenths(v)
            i == path.index
<1>1. x \in Int /\ y \in Int
  BY RoundLemma
<1>2. SetNumeric(plan, path, v) \in
        {[plan EXCEPT !.compute.target = x], [plan EXCEPT !.exitCapPct = x],
         [plan EXCEPT !.sources[i].available = y],
         [plan EXCEPT !.revenue.price = x, !.unset = @ \ {"COMPUTE_SALES"}],
         [plan EXCEPT !.revenue.utilization = x, !.unset = @ \ {"COMPUTE_SALES"}]}
  BY DEF SetNumeric
<1>. HIDE DEF x, y, i
<1>3. /\ [plan EXCEPT !.compute.target = x] \in SitePlan
      /\ [plan EXCEPT !.exitCapPct = x] \in SitePlan
  BY <1>1, TargetSet, ExitCapSet
<1>4. [plan EXCEPT !.sources[i].available = y] \in SitePlan
  BY <1>1, AvailableSet
<1>5. [plan EXCEPT !.revenue.price = x, !.unset = @ \ {"COMPUTE_SALES"}] \in SitePlan
  BY <1>1, PriceSet
<1>6. [plan EXCEPT !.revenue.utilization = x, !.unset = @ \ {"COMPUTE_SALES"}] \in SitePlan
  BY <1>1, UtilizationSet
<1>. QED BY <1>2, <1>3, <1>4, <1>5, <1>6

LEMMA GetTyped ==
  ASSUME NEW plan \in SitePlan, NEW path, KnownPath(plan, path)
  PROVE  GetNumeric(plan, path) \in Int
<1>1. /\ plan.compute.target \in Int /\ plan.revenue.price \in Int
      /\ plan.exitCapPct \in Int /\ plan.revenue.utilization \in Int
  BY DEF SitePlan
<1>2. \A i \in DOMAIN plan.sources : plan.sources[i].available \in Int
  <2>1. plan.sources \in Seq(AskedSource)
    BY DEF SitePlan, AskedSource
  <2>2. \A i \in DOMAIN plan.sources : plan.sources[i] \in AskedSource
    BY <2>1
  <2>. QED BY <2>2 DEF AskedSource
<1>3. path.field = "available_month" => path.index \in DOMAIN plan.sources
  BY DEF KnownPath, ScalarFields
<1>. QED BY <1>1, <1>2, <1>3 DEF GetNumeric

LEMMA ClampTyped ==
  ASSUME NEW path, NEW v \in Int
  PROVE  ClampToDomain(path, v) \in Int
<1>. DEFINE w == AtLeast(v, 0)
<1>1. 0 \in Int /\ 1000 \in Int
  OBVIOUS
<1>2. w \in Int
  BY <1>1, LargerLemma
<1>. HIDE DEF w
<1>3. AtMost(w, 1000) \in Int
  BY <1>1, <1>2, LargerLemma
<1>. QED BY <1>3 DEF ClampToDomain, w

\* A draw is a plan.
LEMMA DrawTyped ==
  ASSUME NEW plan \in SitePlan, NEW values \in Draws(plan)
  PROVE  DrawPlan(plan, values) \in SitePlan
<1>. DEFINE dists == plan.risk.dists
            n == Len(dists)
            Write(k, p) == SetNumeric(p, dists[k].path, ClampToDomain(dists[k].path, values[k]))
            G == [k \in 1 .. n |-> [p \in SitePlan |-> Write(k, p)]]
            F(g) == [k \in 0 .. n |-> IF k = 0 THEN plan ELSE Write(k, g[k - 1])]
            trial == CHOOSE g : g = F(g)
<1>1. /\ n \in Nat /\ DOMAIN dists = 1 .. n
      /\ \A k \in 1 .. n : dists[k].support \in SUBSET Int
  <2>1. dists \in Seq(AskedDist)
    BY DEF SitePlan, PathType, AskedDist
  <2>. HIDE DEF dists
  <2>2. DOMAIN dists = 1 .. n /\ n \in Nat
    BY <2>1
  <2>3. \A k \in DOMAIN dists : dists[k] \in AskedDist
    BY <2>1
  <2>. QED BY <2>2, <2>3 DEF AskedDist
<1>2. \A k \in 1 .. n : values[k] \in Int
  BY <1>1 DEF Draws
<1>3. DrawPlan(plan, values) = trial[n]
  BY DEF DrawPlan
<1>. HIDE DEF n, dists
<1>4. \A k \in 1 .. n : \A p \in SitePlan : Write(k, p) \in SitePlan
  <2>. TAKE k \in 1 .. n
  <2>. TAKE p \in SitePlan
  <2>1. ClampToDomain(dists[k].path, values[k]) \in Int
    BY <1>2, ClampTyped
  <2>. QED BY <2>1, SetTyped
<1>. HIDE DEF Write
<1>5. G \in Steps(n, SitePlan)
  BY <1>4 DEF Steps
<1>6. PICK g \in Runs(n, SitePlan, plan, G) : TRUE
  BY <1>1, <1>5, RecursionLemma
<1>7. /\ g \in [0 .. n -> SitePlan] /\ g[0] = plan
      /\ \A k \in 1 .. n : g[k] = Write(k, g[k - 1])
  <2>1. /\ g \in [0 .. n -> SitePlan] /\ g[0] = plan
        /\ \A k \in 1 .. n : g[k] = G[k][g[k - 1]]
    BY <1>6 DEF Runs
  <2>2. \A k \in 1 .. n : k - 1 \in 0 .. n
    BY <1>1
  <2>. QED BY <2>1, <2>2
<1>8. g = F(g)
  <2>1. \A k \in 0 .. n : g[k] = F(g)[k]
    BY <1>1, <1>7
  <2>2. DOMAIN F(g) = 0 .. n
    OBVIOUS
  <2>. QED BY <1>7, <2>1, <2>2
<1>9. trial = F(trial)
  BY <1>8
<1>. HIDE DEF trial
<1>. DEFINE T == {k \in Nat : k <= n => trial[k] \in SitePlan}
<1>10. 0 \in T
  <2>1. 0 \in 0 .. n
    BY <1>1
  <2>2. trial[0] = plan
    BY <1>9, <2>1
  <2>. QED BY <2>2
<1>11. ASSUME NEW k \in Nat, k \in T PROVE k + 1 \in T
  <2>. SUFFICES ASSUME k + 1 <= n PROVE trial[k + 1] \in SitePlan
    OBVIOUS
  <2>1. k + 1 \in 1 .. n /\ k + 1 \in 0 .. n /\ (k + 1) - 1 = k /\ k + 1 # 0
    BY <1>1
  <2>2. trial[k] \in SitePlan
    BY <1>1, <1>11, <2>1
  <2>3. trial[k + 1] = Write(k + 1, trial[k])
    BY <1>9, <2>1
  <2>. QED BY <1>4, <2>1, <2>2, <2>3
<1>. HIDE DEF T
<1>12. n \in T
  BY <1>1, <1>10, <1>11, InductionOnNat
<1>. QED BY <1>1, <1>3, <1>12 DEF T

-----------------------------------------------------------------------------
(* The report of a risk run *)

Graded(diags) == \A d \in diags : d.severity \in {"ERROR", "WARNING", "INFO"}

Rejections == Warning("MC_INVALID_DRAWS")

\* The status tells of the diagnostics.
LEMMA GradeLemma ==
  ASSUME NEW diags, Graded(diags), ~HasErrors(diags)
  PROVE  /\ StatusOf(diags) \in {"OK", "OK_WITH_WARNINGS"}
         /\ StatusOf(diags) = "OK" <=> \A d \in diags : d.severity = "INFO"
<1>1. CASE \E d \in diags : d.severity = "WARNING"
  BY <1>1 DEF StatusOf
<1>2. CASE ~\E d \in diags : d.severity = "WARNING"
  BY <1>2 DEF StatusOf, Graded, HasErrors
<1>. QED BY <1>1, <1>2

LEMMA CoreGraded ==
  ASSUME NEW plan, Analyze(plan).status # "INVALID_INPUT"
  PROVE  LET res == Analyze(plan)
         IN  /\ Graded(res.diags) /\ Rejections \notin res.diags
             /\ res.status = "OK" <=> \A d \in res.diags : d.severity = "INFO"
             /\ res.status \in {"OK", "OK_WITH_WARNINGS"}
<1>. DEFINE diags == Validate(plan)
            m == Build(plan)
            failed == FailedChecks(plan, m)
            notes == BuildNotes(plan, m)
            warned == When(failed # {}, Warning("CONSERVATION_FAILED"))
            all == diags \cup notes \cup warned
            res == Analyze(plan)
<1>1. ~HasErrors(diags)
  BY DEF Analyze, Analyzed
<1>2. res.status = StatusOf(all) /\ res.diags = all
  BY <1>1 DEF Analyze, Analyzed, Checked
<1>3. Graded(diags) /\ Rejections \notin diags
  <2>1. ASSUME NEW d \in diags
        PROVE  d.severity \in {"ERROR", "WARNING"} /\ d # Rejections
    <3>1. (\E code : d = Error(code)) \/ d = Warning("PHASES_NE_TARGET")
      BY SilentLemma
    <3>. QED BY <3>1 DEF Error, Warning, Rejections
  <2>. QED BY <2>1 DEF Graded
<1>4. Graded(notes) /\ Rejections \notin notes /\ ~HasErrors(notes)
  BY DEF Graded, Rejections, HasErrors, BuildNotes, When, Info, Warning
<1>5. Graded(warned) /\ Rejections \notin warned /\ ~HasErrors(warned)
  BY DEF Graded, Rejections, HasErrors, When, Warning
<1>. HIDE DEF diags, notes, warned, res
<1>6. Graded(all) /\ Rejections \notin all /\ ~HasErrors(all)
  BY <1>1, <1>3, <1>4, <1>5 DEF Graded, HasErrors
<1>. HIDE DEF all
<1>7. StatusOf(all) \in {"OK", "OK_WITH_WARNINGS"}
  BY <1>6, GradeLemma
<1>8. StatusOf(all) = "OK" <=> \A d \in all : d.severity = "INFO"
  BY <1>6, GradeLemma
<1>. QED BY <1>2, <1>6, <1>7, <1>8 DEF res

LEMMA RiskGraded ==
  ASSUME NEW plan
  PROVE  Graded(ValidateRisk(plan)) /\ Rejections \notin ValidateRisk(plan)
  BY DEF Graded, Rejections, ValidateRisk, ValidateMonteCarlo, ValidateSensitivity, When,
         Warning, Error

\* A report warns of rejected iterations if there were any, and shows its warnings.
LEMMA ReportGraded ==
  ASSUME NEW plan, Analyze(plan).status # "INVALID_INPUT", ~HasErrors(ValidateRisk(plan)),
         NEW drawn
  PROVE  LET answer == AnalysisResult(plan, drawn)
         IN  /\ drawn.invalid > 0 <=> Rejections \in answer.diags
             /\ answer.status = "OK" <=> \A d \in answer.diags : d.severity = "INFO"
             /\ answer.monteCarlo = IF plan.risk.monteCarlo
                                    THEN <<MonteCarloReport(plan, drawn.samples)>> ELSE <<>>
             /\ answer.sensitivity =
                  IF plan.risk.sensitivity
                  THEN SensitivityReport(plan, Analyze(plan).summary).vars ELSE <<>>
<1>. DEFINE res == Analyze(plan)
            sens == SensitivityReport(plan, res.summary)
            risk == ValidateRisk(plan)
            invalid == When(drawn.invalid > 0, Rejections)
            notes == IF plan.risk.sensitivity THEN sens.notes ELSE {}
            rd == risk \cup invalid \cup notes
            answer == AnalysisResult(plan, drawn)
<1>1. Graded(risk) /\ Rejections \notin risk /\ ~HasErrors(risk)
  BY RiskGraded
<1>2. Graded(invalid) /\ ~HasErrors(invalid) /\ (drawn.invalid > 0 <=> Rejections \in invalid)
  BY DEF Graded, HasErrors, When, Rejections, Warning
<1>3. Graded(notes) /\ ~HasErrors(notes) /\ Rejections \notin notes
  <2>1. ASSUME NEW paths, NEW base_, NEW outcome
        PROVE  LET more == Tornados(paths, base_, outcome).notes
               IN  Graded(more) /\ ~HasErrors(more) /\ Rejections \notin more
    <3>1. \E ok : Tornados(paths, base_, outcome).notes
                    = When(ok, Warning("SENSITIVITY_INVALID_DRAW"))
      BY DEF Tornados
    <3>. QED BY <3>1 DEF When, Warning, Graded, HasErrors, Rejections
  <2>. QED BY <2>1 DEF SensitivityReport, Graded, HasErrors
<1>. HIDE DEF res, sens, risk, invalid, notes
<1>4. /\ answer.diags = res.diags \cup rd
      /\ answer.status = IF res.status = "OK" THEN StatusOf(rd) ELSE res.status
      /\ answer.monteCarlo = IF plan.risk.monteCarlo
                             THEN <<MonteCarloReport(plan, drawn.samples)>> ELSE <<>>
      /\ answer.sensitivity = IF plan.risk.sensitivity THEN sens.vars ELSE <<>>
  BY DEF AnalysisResult, Reported, Bare, res, sens, risk, invalid, notes, Rejections
<1>5. Graded(rd) /\ ~HasErrors(rd) /\ (drawn.invalid > 0 <=> Rejections \in rd)
  BY <1>1, <1>2, <1>3 DEF Graded, HasErrors
<1>6. /\ Graded(res.diags) /\ Rejections \notin res.diags
      /\ res.status = "OK" <=> \A d \in res.diags : d.severity = "INFO"
      /\ res.status \in {"OK", "OK_WITH_WARNINGS"}
  BY CoreGraded DEF res
<1>. HIDE DEF rd, answer
<1>7. StatusOf(rd) = "OK" <=> \A d \in rd : d.severity = "INFO"
  BY <1>5, GradeLemma
<1>8. answer.status = "OK" <=> \A d \in answer.diags : d.severity = "INFO"
  BY <1>4, <1>6, <1>7
<1>9. drawn.invalid > 0 <=> Rejections \in answer.diags
  BY <1>4, <1>5, <1>6
<1>. QED BY <1>4, <1>8, <1>9 DEF answer, res, sens

\* What is said of one metric of a sample.
MetricHonest(summary, xs, n) ==
  /\ SumFunction(summary.histogram) = n
  /\ 100 * Min(xs) <= summary.p10
  /\ summary.p10 <= summary.p50 /\ summary.p50 <= summary.p90
  /\ summary.p90 <= 100 * Max(xs)

LEMMA SummaryLemma ==
  ASSUME NEW n \in Nat, n > 0, NEW xs \in [1 .. n -> Int]
  PROVE  MetricHonest(Summarize(xs), {xs[i] : i \in 1 .. n}, n)
<1>. DEFINE sorted == SortedValues(xs)
            S == {xs[i] : i \in 1 .. n}
            Q(pct) == Quantile(sorted, pct)
<1>1. sorted \in [1 .. n -> Int]
  BY SortedLemma
<1>2. Ascending(sorted)
  BY SortedLemma
<1>3. \A r \in 1 .. n : \E i \in 1 .. n : sorted[r] = xs[i]
  BY SortedLemma
<1>4. /\ Summarize(xs).p10 = Q(10) /\ Summarize(xs).p50 = Q(50) /\ Summarize(xs).p90 = Q(90)
      /\ Summarize(xs).histogram = Histogram(sorted)
  BY DEF Summarize
<1>. HIDE DEF sorted
<1>5. IsFiniteSet(S) /\ S \subseteq Int /\ S # {}
  <2>1. IsFiniteSet(1 .. n) /\ DOMAIN xs = 1 .. n
    BY FS_Interval
  <2>. DEFINE D == 1 .. n
  <2>2. IsFiniteSet({xs[i] : i \in D})
    <3>. HIDE DEF D
    <3>. QED BY <2>1, ImageLemma DEF D
  <2>3. 1 \in 1 .. n
    OBVIOUS
  <2>. QED BY <2>1, <2>2, <2>3
<1>6. sorted[1] \in S /\ sorted[n] \in S
  <2>1. 1 \in 1 .. n /\ n \in 1 .. n
    OBVIOUS
  <2>2. \A i \in 1 .. n : xs[i] \in S
    OBVIOUS
  <2>. HIDE DEF S
  <2>. QED BY <1>3, <2>1, <2>2
<1>. HIDE DEF S
<1>7. Min(S) \in S /\ Min(S) <= sorted[1]
  BY <1>5, <1>6, ExtremeLemma
<1>8. Max(S) \in S /\ Max(S) >= sorted[n]
  BY <1>5, <1>6, ExtremeLemma
<1>9. SumFunction(Histogram(sorted)) = n
  BY <1>1, <1>2, HistogramLemma
<1>10. Q(10) \in Int /\ Q(50) \in Int /\ 100 * sorted[1] <= Q(10) /\ Q(10) <= Q(50)
  <2>1. 10 \in 0 .. 100 /\ 50 \in 0 .. 100 /\ 10 <= 50
    OBVIOUS
  <2>. QED BY <1>1, <1>2, <2>1, QuantilesLemma
<1>11. Q(90) \in Int /\ Q(50) <= Q(90) /\ Q(90) <= 100 * sorted[n]
  <2>1. 50 \in 0 .. 100 /\ 90 \in 0 .. 100 /\ 50 <= 90
    OBVIOUS
  <2>. QED BY <1>1, <1>2, <2>1, QuantilesLemma
<1>. HIDE DEF Q
<1>. DEFINE a == sorted[1]
            b == sorted[n]
            min == Min(S)
            max == Max(S)
<1>12. a \in Int /\ b \in Int /\ min \in Int /\ max \in Int /\ min <= a /\ b <= max
  BY <1>5, <1>6, <1>7, <1>8
<1>13. 100 * a <= Q(10) /\ Q(90) <= 100 * b
  BY <1>10, <1>11
<1>. HIDE DEF a, b, min, max
<1>14. 100 * min <= Q(10) /\ Q(90) <= 100 * max
  BY <1>10, <1>11, <1>12, <1>13
<1>. QED BY <1>4, <1>9, <1>10, <1>11, <1>14 DEF MetricHonest, S, min, max

\* The entries of one target metric, the widest swing first.
Descends(entries, n, metric) ==
  /\ n \in Nat /\ DOMAIN entries = 1 .. n /\ entries = [r \in 1 .. n |-> entries[r]]
  /\ \A r \in 1 .. n : entries[r].metric = metric
  /\ \A r \in 2 .. n : Swing(entries[r - 1]) >= Swing(entries[r])

LEMMA TornadoLemma ==
  ASSUME NEW paths, NEW basis, NEW outcome, NEW metric,
         NEW kept \in SUBSET Int, IsFiniteSet(kept),
         \A i \in kept : /\ outcome[i].low.summary[metric] \in Int
                         /\ outcome[i].high.summary[metric] \in Int
  PROVE  Descends(Tornado(paths, basis, outcome, kept, metric), Cardinality(kept), metric)
<1>. DEFINE Var(i) == [path |-> paths[i], metric |-> metric, base |-> basis[metric],
                       low  |-> outcome[i].low.summary[metric],
                       high |-> outcome[i].high.summary[metric]]
            W(i) == Swing(Var(i))
            Before(i, j) == W(i) > W(j) \/ (W(i) = W(j) /\ i < j)
            below == [i \in kept |-> {j \in kept : Before(j, i)}]
            order == Ranking(below)
            n == Cardinality(kept)
            vars_ == Tornado(paths, basis, outcome, kept, metric)
<1>1. vars_ = [r \in DOMAIN order |-> Var(order[r])]
  BY DEF Tornado
<1>. HIDE DEF vars_
<1>2. \A i \in kept : Var(i).metric = metric /\ W(i) \in Int
  <2>. TAKE i \in kept
  <2>. DEFINE a == Var(i).high - Var(i).low
              b == Var(i).low - Var(i).high
  <2>1. a \in Int /\ b \in Int
    OBVIOUS
  <2>2. W(i) = AtLeast(a, b)
    BY DEF Swing
  <2>. HIDE DEF a, b
  <2>3. AtLeast(a, b) \in Int
    BY <2>1, LargerLemma
  <2>. QED BY <2>2, <2>3
<1>. HIDE DEF Var, W
<1>3. below \in [kept -> SUBSET kept] /\ \A i, j \in kept : j \in below[i] <=> Before(j, i)
  OBVIOUS
<1>4. \A i, j, k \in kept : Before(k, j) /\ Before(j, i) => Before(k, i)
  BY <1>2
<1>5. \A i, j \in kept : ~Before(i, i) /\ (i # j => Before(i, j) \/ Before(j, i))
  BY <1>2
<1>6. \A i, j \in kept : Before(i, j) => W(i) >= W(j)
  BY <1>2
<1>. HIDE DEF below, Before
<1>7. \A i \in kept : i \notin below[i]
  BY <1>3, <1>5
<1>8. \A i \in kept : \A j \in below[i] : below[j] \subseteq below[i]
  BY <1>3, <1>4
<1>9. \A i, j \in kept : i # j => j \in below[i] \/ i \in below[j]
  BY <1>3, <1>5
<1>10. n \in Nat /\ order \in [1 .. n -> kept]
  BY <1>3, <1>7, <1>8, <1>9, RankingLemma
<1>11. \A q, r \in 1 .. n : q < r => order[q] \in below[order[r]]
  BY <1>3, <1>7, <1>8, <1>9, RankingLemma
<1>. HIDE DEF order, n
<1>12. /\ DOMAIN vars_ = 1 .. n /\ vars_ = [r \in 1 .. n |-> vars_[r]]
       /\ \A r \in 1 .. n : order[r] \in kept /\ vars_[r] = Var(order[r])
  BY <1>1, <1>10
<1>13. \A r \in 1 .. n : vars_[r].metric = metric
  BY <1>2, <1>12
<1>14. ASSUME NEW r \in 2 .. n
       PROVE  Swing(vars_[r - 1]) >= Swing(vars_[r])
  <2>1. r - 1 \in 1 .. n /\ r \in 1 .. n /\ r - 1 < r
    BY <1>10
  <2>2. Before(order[r - 1], order[r])
    BY <1>3, <1>11, <1>12, <2>1
  <2>3. W(order[r - 1]) >= W(order[r])
    BY <1>6, <1>12, <2>1, <2>2
  <2>. QED BY <1>12, <2>1, <2>3 DEF W
<1>. QED BY <1>10, <1>12, <1>13, <1>14 DEF Descends, vars_, n

\* The tornado is ordered by swing within each target metric.
BySwing(entries) ==
  \A r \in 2 .. Len(entries) :
    entries[r - 1].metric = entries[r].metric => Swing(entries[r - 1]) >= Swing(entries[r])

LEMMA ConcatLemma ==
  ASSUME NEW a, NEW b, NEW n, Descends(a, n, "lcoc"), Descends(b, n, "npv")
  PROVE  BySwing(a \o b)
<1>. DEFINE S == {a[i] : i \in 1 .. n} \cup {b[i] : i \in 1 .. n}
            c == a \o b
<1>1. /\ n \in Nat /\ \A r \in 1 .. n : a[r].metric = "lcoc" /\ b[r].metric = "npv"
      /\ \A r \in 2 .. n : Swing(a[r - 1]) >= Swing(a[r]) /\ Swing(b[r - 1]) >= Swing(b[r])
  BY DEF Descends
<1>2. a \in [1 .. n -> S] /\ b \in [1 .. n -> S]
  BY DEF Descends
<1>. HIDE DEF S
<1>3. a \in Seq(S) /\ Len(a) = n /\ b \in Seq(S) /\ Len(b) = n
  BY <1>1, <1>2, TupleLemma
<1>4. /\ Len(c) = n + n
      /\ \A r \in 1 .. n : c[r] = a[r]
      /\ \A r \in n + 1 .. n + n : c[r] = b[r - n]
  <2>1. Len(c) = Len(a) + Len(b)
    BY <1>3, ConcatProperties
  <2>2. \A r \in 1 .. Len(a) + Len(b) : c[r] = IF r <= Len(a) THEN a[r] ELSE b[r - Len(a)]
    BY <1>3, ConcatProperties
  <2>. HIDE DEF c
  <2>3. /\ \A r \in 1 .. n : r \in 1 .. n + n /\ r <= n
        /\ \A r \in n + 1 .. n + n : r \in 1 .. n + n /\ ~(r <= n)
    BY <1>1
  <2>. QED BY <1>3, <2>1, <2>2, <2>3
<1>. HIDE DEF c
<1>5. ASSUME NEW r \in 2 .. n + n, c[r - 1].metric = c[r].metric
      PROVE  Swing(c[r - 1]) >= Swing(c[r])
  <2>1. CASE r <= n
    <3>1. r - 1 \in 1 .. n /\ r \in 1 .. n /\ r \in 2 .. n
      BY <1>1, <2>1
    <3>. QED BY <1>1, <1>4, <3>1
  <2>2. CASE r = n + 1
    <3>1. r - 1 \in 1 .. n /\ r \in n + 1 .. n + n /\ r - n \in 1 .. n /\ r - 1 = n /\ r - n = 1
      BY <1>1, <2>2
    <3>2. c[r - 1].metric = "lcoc" /\ c[r].metric = "npv"
      BY <1>1, <1>4, <3>1
    <3>. QED BY <1>5, <3>2
  <2>3. CASE r > n + 1
    <3>. DEFINE q == r - n
    <3>1. /\ r - 1 \in n + 1 .. n + n /\ r \in n + 1 .. n + n
          /\ q \in 2 .. n /\ (r - 1) - n = q - 1 /\ q \in 1 .. n
      BY <1>1, <2>3
    <3>. HIDE DEF q
    <3>2. c[r - 1] = b[q - 1] /\ c[r] = b[q]
      BY <1>4, <3>1 DEF q
    <3>. QED BY <1>1, <3>1, <3>2
  <2>. QED BY <1>1, <2>1, <2>2, <2>3
<1>. QED BY <1>4, <1>5 DEF BySwing, c

LEMMA RiskTyped ==
  ASSUME NEW plan \in SitePlan
  PROVE  /\ plan.risk.deltaPct \in Int /\ plan.risk.iterations \in Int
         /\ plan.risk.paths \in Seq(PathType)
         /\ plan.risk.monteCarlo \in BOOLEAN /\ plan.risk.sensitivity \in BOOLEAN
  BY DEF SitePlan, PathType

\* An input moved by its delta makes a plan, so its analysis is made of whole numbers.
LEMMA PerturbedTyped ==
  ASSUME NEW plan \in SitePlan, NEW path, KnownPath(plan, path), NEW pct \in Int
  PROVE  Perturbed(plan, path, pct).summary \in SummaryType
<1>. DEFINE p == GetNumeric(plan, path) * pct
            v == p \div 100
            q == SetNumeric(plan, path, v)
<1>1. p \in Int
  BY GetTyped
<1>. HIDE DEF p
<1>2. v \in Int
  BY <1>1
<1>. HIDE DEF v
<1>3. q \in SitePlan
  BY <1>2, SetTyped
<1>. HIDE DEF q
<1>4. Analyze(q).summary \in SummaryType
  BY <1>3, AnalyzeTyped
<1>5. Perturbed(plan, path, pct) = Analyze(q)
  BY DEF Perturbed, q, v, p
<1>. QED BY <1>4, <1>5

LEMMA SensitivityLemma ==
  ASSUME NEW plan \in SitePlan, ~HasErrors(ValidateRisk(plan)), plan.risk.sensitivity,
         NEW basis
  PROVE  BySwing(SensitivityReport(plan, basis).vars)
<1>. DEFINE paths == plan.risk.paths
            outcome == [i \in DOMAIN paths |-> Outcomes(plan, i)]
            kept == {i \in DOMAIN paths :
                       "INVALID_INPUT" \notin {outcome[i].low.status, outcome[i].high.status}}
            pct == DeltaPct(plan)
<1>1. plan.risk.deltaPct \in Int /\ paths \in Seq(PathType)
  BY RiskTyped
<1>2. pct \in Int
  BY <1>1 DEF DeltaPct
<1>3. \A i \in DOMAIN paths : KnownPath(plan, paths[i])
  <2>1. When(\E i \in DOMAIN paths : ~KnownPath(plan, paths[i]), Error("UNKNOWN_INPUT_PATH"))
          \subseteq ValidateRisk(plan)
    BY DEF ValidateRisk, ValidateSensitivity
  <2>. QED BY <2>1, CheckedLemma
<1>4. SensitivityReport(plan, basis).vars = Tornado(paths, basis, outcome, kept, "lcoc")
                                            \o Tornado(paths, basis, outcome, kept, "npv")
  BY DEF SensitivityReport, Tornados
<1>. HIDE DEF pct
<1>5. \A i \in DOMAIN paths : /\ outcome[i].low.summary \in SummaryType
                              /\ outcome[i].high.summary \in SummaryType
  <2>. SUFFICES ASSUME NEW i \in DOMAIN paths
                PROVE  /\ outcome[i].low.summary \in SummaryType
                       /\ outcome[i].high.summary \in SummaryType
    OBVIOUS
  <2>1. 100 - pct \in Int /\ 100 + pct \in Int
    BY <1>2
  <2>2. Perturbed(plan, paths[i], 100 - pct).summary \in SummaryType
    BY <1>3, <2>1, PerturbedTyped
  <2>3. Perturbed(plan, paths[i], 100 + pct).summary \in SummaryType
    BY <1>3, <2>1, PerturbedTyped
  <2>4. /\ outcome[i].low = Perturbed(plan, paths[i], 100 - pct)
        /\ outcome[i].high = Perturbed(plan, paths[i], 100 + pct)
    BY DEF Outcomes, pct
  <2>. QED BY <2>2, <2>3, <2>4
<1>6. kept \in SUBSET Int /\ IsFiniteSet(kept)
  <2>1. IsFiniteSet(DOMAIN paths) /\ DOMAIN paths \subseteq Int
    <3>1. Len(paths) \in Nat /\ DOMAIN paths = 1 .. Len(paths)
      BY <1>1
    <3>. QED BY <3>1, FS_Interval
  <2>2. kept \in SUBSET (DOMAIN paths)
    OBVIOUS
  <2>. HIDE DEF kept
  <2>3. IsFiniteSet(kept)
    BY <2>1, <2>2, FS_Subset
  <2>. QED BY <2>1, <2>2, <2>3
<1>7. \A i \in kept : i \in DOMAIN paths
  OBVIOUS
<1>. HIDE DEF paths, outcome, kept
<1>8. \A i \in kept : /\ outcome[i].low.summary["lcoc"] \in Int
                      /\ outcome[i].high.summary["lcoc"] \in Int
                      /\ outcome[i].low.summary["npv"] \in Int
                      /\ outcome[i].high.summary["npv"] \in Int
  BY <1>5, <1>7 DEF SummaryType
<1>9. Descends(Tornado(paths, basis, outcome, kept, "lcoc"), Cardinality(kept), "lcoc")
  BY <1>6, <1>8, TornadoLemma
<1>10. Descends(Tornado(paths, basis, outcome, kept, "npv"), Cardinality(kept), "npv")
  BY <1>6, <1>8, TornadoLemma
<1>. QED BY <1>4, <1>9, <1>10, ConcatLemma

\* What an analysis says of the iterations it was drawn from.
HonestAnswer(answer, drawn) ==
  /\ \A report \in ToSet(answer.monteCarlo) :
       LET metrics == report.metrics
       IN  /\ Len(drawn.samples) + drawn.invalid = report.iterations
           /\ drawn.invalid > 0 <=> Rejections \in answer.diags
           /\ DOMAIN metrics = {} <=> drawn.samples = <<>>
           /\ \A m \in DOMAIN metrics :
                MetricHonest(metrics[m], {drawn.samples[i][m] : i \in DOMAIN drawn.samples},
                             report.iterations - drawn.invalid)
  /\ BySwing(answer.sensitivity)
  /\ answer.status = "OK" <=> \A d \in answer.diags : d.severity = "INFO"

LEMMA MetricsLemma ==
  ASSUME NEW plan, NEW n \in Nat, NEW samples \in [1 .. n -> SummaryType]
  PROVE  LET metrics == MonteCarloReport(plan, samples).metrics
         IN  /\ DOMAIN metrics = {} <=> samples = <<>>
             /\ \A m \in DOMAIN metrics :
                  MetricHonest(metrics[m], {samples[i][m] : i \in DOMAIN samples}, n)
<1>. DEFINE metrics == MonteCarloReport(plan, samples).metrics
            xs(m) == [i \in DOMAIN samples |-> samples[i][m]]
<1>1. Len(samples) = n /\ DOMAIN samples = 1 .. n
  BY TupleLemma
<1>2. metrics = [m \in IF samples = << >> THEN {} ELSE RiskMetrics |-> Summarize(xs(m))]
  BY DEF MonteCarloReport
<1>. HIDE DEF metrics
<1>3. DOMAIN metrics = {} <=> samples = <<>>
  BY <1>2 DEF RiskMetrics
<1>4. ASSUME NEW m \in DOMAIN metrics
      PROVE  MetricHonest(metrics[m], {samples[i][m] : i \in DOMAIN samples}, n)
  <2>1. samples # << >> /\ m \in RiskMetrics /\ metrics[m] = Summarize(xs(m))
    BY <1>2
  <2>2. n > 0
    <3>1. n = 0 => samples = << >>
      BY <1>1, EmptySeq
    <3>. QED BY <2>1, <3>1
  <2>3. xs(m) \in [1 .. n -> Int]
    <3>1. \A s \in SummaryType : s[m] \in Int
      BY <2>1 DEF RiskMetrics, SummaryType
    <3>. QED BY <1>1, <3>1
  <2>4. MetricHonest(Summarize(xs(m)), {xs(m)[i] : i \in 1 .. n}, n)
    <3>. DEFINE ys == xs(m)
    <3>1. ys \in [1 .. n -> Int]
      BY <2>3
    <3>. HIDE DEF ys
    <3>2. MetricHonest(Summarize(ys), {ys[i] : i \in 1 .. n}, n)
      BY <2>2, <3>1, SummaryLemma
    <3>. QED BY <3>2 DEF ys
  <2>5. {xs(m)[i] : i \in 1 .. n} = {samples[i][m] : i \in DOMAIN samples}
    BY <1>1
  <2>. QED BY <2>1, <2>4, <2>5
<1>. QED BY <1>3, <1>4 DEF metrics

LEMMA AnswerHonest ==
  ASSUME NEW plan \in SitePlan, Analyze(plan).status # "INVALID_INPUT",
         ~HasErrors(ValidateRisk(plan)),
         NEW drawn, Listed(drawn.samples), drawn.invalid \in Nat,
         \A i \in DOMAIN drawn.samples : drawn.samples[i] \in SummaryType,
         plan.risk.monteCarlo => Len(drawn.samples) + drawn.invalid = plan.risk.iterations
  PROVE  HonestAnswer(AnalysisResult(plan, drawn), drawn)
<1>. DEFINE answer == AnalysisResult(plan, drawn)
            samples == drawn.samples
            n == Len(samples)
            report == MonteCarloReport(plan, samples)
<1>1. /\ drawn.invalid > 0 <=> Rejections \in answer.diags
      /\ answer.status = "OK" <=> \A d \in answer.diags : d.severity = "INFO"
  BY ReportGraded
<1>2. answer.monteCarlo = IF plan.risk.monteCarlo THEN <<report>> ELSE <<>>
  BY ReportGraded
<1>3. answer.sensitivity = IF plan.risk.sensitivity
                           THEN SensitivityReport(plan, Analyze(plan).summary).vars ELSE <<>>
  BY ReportGraded
<1>. HIDE DEF answer
<1>4. n \in Nat /\ samples \in [1 .. n -> SummaryType]
  <2>1. Len(drawn.samples) \in Nat /\ DOMAIN drawn.samples = 1 .. Len(drawn.samples)
        /\ drawn.samples = [i \in DOMAIN drawn.samples |-> drawn.samples[i]]
    BY DEF Listed
  <2>. HIDE DEF SummaryType
  <2>. QED BY <2>1
<1>5. BySwing(answer.sensitivity)
  <2>1. CASE plan.risk.sensitivity
    BY <1>3, <2>1, SensitivityLemma
  <2>2. CASE ~plan.risk.sensitivity
    <3>1. BySwing(<<>>)
      BY DEF BySwing
    <3>. QED BY <1>3, <2>2, <3>1
  <2>. QED BY <2>1, <2>2
<1>6. ASSUME NEW r \in ToSet(answer.monteCarlo)
      PROVE  r = report /\ plan.risk.monteCarlo
  BY <1>2, <1>6 DEF ToSet
<1>. HIDE DEF samples, n
<1>7. DOMAIN report.metrics = {} <=> samples = <<>>
  BY <1>4, MetricsLemma
<1>8. \A m \in DOMAIN report.metrics :
        MetricHonest(report.metrics[m], {samples[i][m] : i \in DOMAIN samples}, n)
  BY <1>4, MetricsLemma
<1>9. report.iterations = plan.risk.iterations
  BY DEF MonteCarloReport
<1>. HIDE DEF report
<1>10. plan.risk.monteCarlo => /\ n + drawn.invalid = report.iterations
                               /\ report.iterations - drawn.invalid = n
  <2>1. plan.risk.monteCarlo => n + drawn.invalid = report.iterations
    BY <1>9 DEF n, samples
  <2>. QED BY <1>4, <2>1
<1>11. ASSUME NEW r \in ToSet(answer.monteCarlo)
       PROVE  /\ Len(drawn.samples) + drawn.invalid = r.iterations
              /\ drawn.invalid > 0 <=> Rejections \in answer.diags
              /\ DOMAIN r.metrics = {} <=> drawn.samples = <<>>
              /\ \A m \in DOMAIN r.metrics :
                   MetricHonest(r.metrics[m], {drawn.samples[i][m] : i \in DOMAIN drawn.samples},
                                r.iterations - drawn.invalid)
  <2>1. r = report /\ plan.risk.monteCarlo
    BY <1>6
  <2>2. n + drawn.invalid = report.iterations /\ report.iterations - drawn.invalid = n
    BY <1>10, <2>1
  <2>. QED BY <1>1, <1>7, <1>8, <2>1, <2>2 DEF n, samples
<1>. QED BY <1>1, <1>5, <1>11 DEF HonestAnswer, answer

\* The samples of a Monte Carlo run are summaries of whole numbers.
SamplesTyped == \A i \in DOMAIN draws.samples : draws.samples[i] \in SummaryType

LEMMA SampleStep ==
  ASSUME CallKept, DrawsKept, SamplesTyped, Draw
  PROVE  SamplesTyped'
<1>. DEFINE s == draws.samples
<1>1. Listed(s) /\ draws = [samples |-> s, invalid |-> draws.invalid]
  BY DEF DrawsKept
<1>2. call.plan \in SitePlan
  <2>1. call \in Requests
    BY DEF Draw, CallKept
  <2>. QED BY <2>1, RequestLemma
<1>3. PICK values \in Draws(call.plan) :
        draws' = IF Analyze(DrawPlan(call.plan, values)).status = "INVALID_INPUT"
                 THEN [draws EXCEPT !.invalid = @ + 1]
                 ELSE [draws EXCEPT !.samples =
                         Append(@, Analyze(DrawPlan(call.plan, values)).summary)]
  BY DEF Draw
<1>. DEFINE trial == DrawPlan(call.plan, values)
            e == Analyze(trial).summary
<1>4. trial \in SitePlan
  BY <1>2, DrawTyped
<1>. HIDE DEF trial
<1>5. e \in SummaryType
  BY <1>4, AnalyzeTyped
<1>. HIDE DEF e
<1>6. draws'.samples = s \/ draws'.samples = Append(s, e)
  BY <1>1, <1>3 DEF e, trial
<1>7. \A i \in DOMAIN s : s[i] \in SummaryType
  BY DEF SamplesTyped
<1>8. CASE draws'.samples = s
  BY <1>7, <1>8 DEF SamplesTyped
<1>9. CASE draws'.samples = Append(s, e)
  <2>. DEFINE t == Append(s, e)
  <2>1. /\ DOMAIN s = 1 .. Len(s) /\ Len(s) \in Nat
        /\ DOMAIN t = 1 .. Len(s) + 1
        /\ \A i \in 1 .. Len(s) : t[i] = s[i]
        /\ t[Len(s) + 1] = e
    BY <1>1, GrowLemma
  <2>. HIDE DEF t
  <2>2. \A i \in DOMAIN t : t[i] \in SummaryType
    BY <1>5, <1>7, <2>1
  <2>. QED BY <1>9, <2>2 DEF SamplesTyped, t
<1>. QED BY <1>6, <1>8, <1>9

LEMMA SamplesStep ==
  ASSUME CallKept, DrawsKept, SamplesTyped, [Next]_vars
  PROVE  SamplesTyped'
<1>1. ASSUME UNCHANGED draws
      PROVE  SamplesTyped'
  BY <1>1 DEF SamplesTyped
<1>2. CASE Reply \/ Panic
  <2>1. draws' = NoDraws
    BY <1>2 DEF Reply, Panic, Fresh
  <2>2. draws'.samples = << >>
    BY <2>1, NoDrawsLemma
  <2>. QED BY <2>2 DEF SamplesTyped
<1>3. (\E request \in Requests : Call(request)) => UNCHANGED draws
  BY DEF Call, locals
<1>4. Undispatched \/ RefuseAnalysis \/ RunAnalysis \/ RefuseSearch \/ EndDraws \/ OutOfBudget
        \/ Converged
      => UNCHANGED draws
  BY DEF Undispatched, RefuseAnalysis, RunAnalysis, RefuseSearch, EndDraws, OutOfBudget, Converged,
         EndSearch, locals
<1>5. StartSearch \/ SeedNext \/ SeedsDone \/ SkipMove \/ TryMove \/ NextPass \/ NextSeed
      => UNCHANGED draws
  BY DEF StartSearch, SeedNext, SeedsDone, EndSearch, locals, SkipMove, TryMove, NextPass,
         NextSeed
<1>6. UNCHANGED vars => UNCHANGED draws
  BY DEF vars
<1>. QED BY <1>1, <1>2, <1>3, <1>4, <1>5, <1>6, SampleStep DEF Next, EngineStep, Search

LEMMA SamplesInductive == Spec => []SamplesTyped
<1>1. Init => SamplesTyped
  <2>. SUFFICES ASSUME Init PROVE SamplesTyped
    OBVIOUS
  <2>1. draws.samples = << >>
    BY NoDrawsLemma DEF Init
  <2>. QED BY <2>1 DEF SamplesTyped
<1>. QED BY <1>1, SamplesStep, CallInductive, DrawsInductive, PTL DEF Spec

\* A run that is drawing was asked for it, and its risk inputs were checked.
DrawingKept ==
  stage = "drawing" => call.plan.risk.monteCarlo /\ ~HasErrors(ValidateRisk(call.plan))

LEMMA DrawingStep ==
  ASSUME DrawingKept, [Next]_vars
  PROVE  DrawingKept'
<1>1. CASE stage' # "drawing"
  BY <1>1 DEF DrawingKept
<1>2. Undispatched \/ Panic \/ RefuseAnalysis \/ RefuseSearch \/ EndDraws \/ OutOfBudget
        \/ Converged \/ StartSearch \/ Reply
      => stage' # "drawing"
  BY DEF Undispatched, Panic, RefuseAnalysis, RefuseSearch, EndDraws, OutOfBudget, Converged,
         EndSearch, Answer, StartSearch, Reply
<1>3. (\E request \in Requests : Call(request)) \/ SeedsDone => stage' # "drawing"
  BY DEF Call, SeedsDone, EndSearch, Answer
<1>4. SeedNext \/ SkipMove \/ TryMove \/ NextPass \/ NextSeed => stage' # "drawing"
  BY DEF SeedNext, SkipMove, TryMove, NextPass, NextSeed, InPass, PassDone
<1>5. RunAnalysis => stage' # "drawing" \/ DrawingKept'
  BY DEF RunAnalysis, Answer, DrawingKept
<1>6. CASE Draw \/ UNCHANGED vars
  <2>1. UNCHANGED <<stage, call>>
    BY <1>6 DEF Draw, vars
  <2>. QED BY <2>1 DEF DrawingKept
<1>. QED BY <1>1, <1>2, <1>3, <1>4, <1>5, <1>6 DEF Next, EngineStep, Search

LEMMA DrawingInductive == Spec => []DrawingKept
<1>1. Init => DrawingKept
  BY DEF Init, DrawingKept
<1>. QED BY <1>1, DrawingStep, PTL DEF Spec

AnsweredHonestly ==
  stage = "done" /\ result.status \in {"OK", "OK_WITH_WARNINGS"} /\ call.op = "analyze"
    => HonestAnswer(result, draws)

LEMMA HonestStep ==
  ASSUME CallKept, DrawsKept, SamplesTyped, DrawingKept, AnsweredHonestly, [Next]_vars
  PROVE  AnsweredHonestly'
<1>1. CASE stage' # "done" \/ (stage' = "done" /\ result'.status = "INVALID_INPUT")
           \/ call'.op # "analyze"
  BY <1>1 DEF AnsweredHonestly
<1>2. \A code : Failure(code).status = "INVALID_INPUT"
  BY DEF Failure, Bare
<1>3. \A diags : Bare("INVALID_INPUT", diags).status = "INVALID_INPUT"
  BY DEF Bare
<1>4. Undispatched \/ Panic \/ RefuseAnalysis \/ RefuseSearch
      => stage' = "done" /\ result'.status = "INVALID_INPUT"
  BY <1>2, <1>3 DEF Undispatched, Panic, RefuseAnalysis, RefuseSearch, Answer
<1>5. ASSUME HonestAnswer(result', draws')
      PROVE  AnsweredHonestly'
  BY <1>5 DEF AnsweredHonestly
<1>6. /\ draws.invalid \in Nat /\ Listed(draws.samples)
      /\ \A i \in DOMAIN draws.samples : draws.samples[i] \in SummaryType
  BY DEF DrawsKept, SamplesTyped
<1>7. RunAnalysis => stage' # "done" \/ AnsweredHonestly'
  <2>. SUFFICES ASSUME RunAnalysis, stage' = "done" PROVE AnsweredHonestly'
    OBVIOUS
  <2>1. /\ call \in Requests /\ Analyze(call.plan).status # "INVALID_INPUT"
        /\ ~HasErrors(ValidateRisk(call.plan)) /\ ~call.plan.risk.monteCarlo
        /\ result' = AnalysisResult(call.plan, NoDraws) /\ draws' = draws
    BY DEF RunAnalysis, Dispatched, CallKept, Answer, locals
  <2>2. draws = NoDraws
    BY DEF RunAnalysis, Dispatched, DrawsKept
  <2>3. call.plan \in SitePlan
    BY <2>1, RequestLemma
  <2>4. HonestAnswer(AnalysisResult(call.plan, draws), draws)
    BY <1>6, <2>1, <2>3, AnswerHonest
  <2>. QED BY <1>5, <2>1, <2>2, <2>4
<1>8. EndDraws => AnsweredHonestly'
  <2>. SUFFICES ASSUME EndDraws PROVE AnsweredHonestly'
    OBVIOUS
  <2>1. /\ stage = "drawing" /\ Drawn >= call.plan.risk.iterations
        /\ result' = AnalysisResult(call.plan, draws) /\ draws' = draws
    BY DEF EndDraws, Answer, locals
  <2>2. call \in Requests /\ Analyze(call.plan).status # "INVALID_INPUT"
    BY <2>1 DEF CallKept
  <2>3. ~HasErrors(ValidateRisk(call.plan))
    BY <2>1 DEF DrawingKept
  <2>4. call.plan \in SitePlan
    BY <2>2, RequestLemma
  <2>5. Len(draws.samples) + draws.invalid = call.plan.risk.iterations
    <3>1. Drawn <= call.plan.risk.iterations
      BY <2>1 DEF DrawsKept
    <3>2. call.plan.risk.iterations \in Int
      BY <2>4, RiskTyped
    <3>3. Len(draws.samples) \in Nat
      BY <1>6 DEF Listed
    <3>4. Drawn \in Int
      BY <1>6, <3>3 DEF Drawn
    <3>. QED BY <2>1, <3>1, <3>2, <3>4 DEF Drawn
  <2>6. HonestAnswer(AnalysisResult(call.plan, draws), draws)
    BY <1>6, <2>2, <2>3, <2>4, <2>5, AnswerHonest
  <2>. QED BY <1>5, <2>1, <2>6
<1>9. SeedsDone \/ OutOfBudget \/ Converged => stage' # "done" \/ call'.op # "analyze"
  BY DEF SeedsDone, OutOfBudget, Converged, EndSearch, Answer, InPass, PassDone, CallKept
<1>10. (\E request \in Requests : Call(request)) \/ Draw \/ Reply \/ StartSearch \/ SeedNext
       => stage' # "done"
  BY DEF Call, Draw, Reply, StartSearch, SeedNext
<1>11. SkipMove \/ TryMove \/ NextPass \/ NextSeed => stage' # "done"
  BY DEF SkipMove, TryMove, NextPass, NextSeed, InPass, PassDone
<1>12. CASE UNCHANGED vars
  BY <1>12 DEF vars, AnsweredHonestly
<1>. QED BY <1>1, <1>4, <1>7, <1>8, <1>9, <1>10, <1>11, <1>12 DEF Next, EngineStep, Search

LEMMA HonestReport ==
  ASSUME AnsweredHonestly
  PROVE  RiskReportIsHonest
<1>. SUFFICES ASSUME stage = "done", result.status \in {"OK", "OK_WITH_WARNINGS"},
                     call.op = "analyze"
              PROVE  RiskReportIsHonest
  BY DEF RiskReportIsHonest
<1>1. HonestAnswer(result, draws)
  BY DEF AnsweredHonestly
<1>. QED BY <1>1 DEF RiskReportIsHonest, HonestAnswer, BySwing, MetricHonest, Rejections, Drawn

-----------------------------------------------------------------------------
(* Theorems *)

\* A search of phasing.go analyzes at most EvalBudget plans, the baseline included, and
\* the memo spares every candidate a second analysis, through all seeds and passes.
THEOREM BudgetCorrect == Spec => [](BudgetKept /\ PaidOnce)
<1>1. SearchInv => BudgetKept /\ PaidOnce
  BY DEF SearchInv
<1>. QED BY <1>1, SearchInductive, PTL

\* There is a winner as soon as an evaluated candidate is feasible, it is never the
\* baseline, and it is the first of the cheapest (phasing.go: evaluate, better).
THEOREM WinnerCorrect == Spec => [](WinnerIfAny /\ FirstOfTheBest)
<1>1. SearchInv /\ SearchKept => WinnerIfAny /\ FirstOfTheBest
  BY ScoredLemma DEF SearchInv
<1>. QED BY <1>1, SearchInductive, KeptInductive, PTL

\* What a search hands back is its winner's plan, or INFEASIBLE without one, and the
\* evaluations it reports are those it paid for (phasing.go: Optimize).
THEOREM AnswerCorrect == Spec => []AnswerIsTheWinner
<1>1. Init => AnswerIsTheWinner
  BY DEF Init, AnswerIsTheWinner, Searching
<1>. QED BY <1>1, AnswerStep, PTL DEF Spec

\* Whatever plan the host sends, an analysis the validation lets through, its risk runs
\* included, reports no failed conservation check when its phases ask for whole racks
\* (validate.go, conserve.go, analyze.go).
THEOREM ConservationCorrect == Spec => []AcceptedPlansConserve
<1>1. Init => AcceptedPlansConserve
  BY DEF Init, AcceptedPlansConserve
<1>. QED BY <1>1, ConservationStep, CallInductive, PTL DEF Spec

\* A call evaluates no more than its budget, every position kept between two steps points
\* at an evaluated candidate, and a Monte Carlo run draws no more than it was asked for
\* (phasing.go, montecarlo.go).
THEOREM TypeCorrect == Spec => []PlannerTypeOK
<1>. QED BY TypeLemma, SearchInductive, CallInductive, KeptInductive, DrawsInductive, PTL

\* Whatever the plan and the core: the plan a search hands back keeps the policy and every
\* constraint and its ledger is sound, analyzed again it gives the numbers of the answer,
\* and no candidate that was evaluated is better (phasing.go: Optimize, evaluate).
THEOREM HonestCorrect == Spec => []WinnerIsHonest
<1>. QED BY HonestLemma, AnswerCorrect, SearchInductive, KeptInductive, PTL

\* A search that reports converged has tried every legal move of every phase of its
\* winner, and none was better (phasing.go: descend).
THEOREM OptimumCorrect == Spec => []ConvergedIsLocalOptimum
<1>. QED BY LocalLemma, OptimalInductive, SearchInductive, PTL

\* Every iteration of a risk run is in the statistics or reported as rejected, every sample
\* falls into one bin, quantiles are ordered within the sample, the tornado by its swing,
\* and no warning hides behind an OK (montecarlo.go, stats.go, sensitivity.go).
THEOREM RiskCorrect == Spec => []RiskReportIsHonest
<1>1. Init => AnsweredHonestly
  BY DEF Init, AnsweredHonestly
<1>. QED BY <1>1, HonestStep, HonestReport, CallInductive, DrawsInductive, SamplesInductive,
            DrawingInductive, PTL DEF Spec
=============================================================================
