----------------------------- MODULE ServerProofs -----------------------------
(***************************************************************************)
(* The daily cap of Server, proved for every limit and every number of     *)
(* requests, days and process starts.                                      *)
(*                                                                         *)
(* The argument.  Call the spent budgets those that earlier processes and  *)
(* earlier turns of the count account for.  A day is charged at most the   *)
(* spent budgets, plus the count itself while it is the day being counted, *)
(* plus one more budget once the count has moved past it.  Turning the     *)
(* count back to an older day, which only a late take does, adds a budget  *)
(* for every newer day at once.  Who pays is counted separately: a take    *)
(* that is granted adds its own request to those relayed for its day, and  *)
(* no step takes a relayed request away again (PaidByMessages).            *)
(***************************************************************************)
EXTENDS Server, FiniteSetTheorems, TLAPS

\* Budgets used up before the count of now began, in requests.
Spent == Limit * (late + starts) - Limit

\* A day the count has not reached in this turn, the day it is at, a day behind it.
SpendByDay ==
  starts > 0 =>
    \A d \in Day :
      /\ d > day => granted[d] <= Spent
      /\ d = day => granted[d] <= Spent + count
      /\ d < day => granted[d] <= Spent + Limit

CountIsGranted == day # NoDay => count <= granted[day]

NothingBeforeStart ==
  starts = 0 => /\ phase = "down" /\ \A r \in Requests : stage[r] = "new"
                /\ late = 0 /\ \A d \in Day : granted[d] = 0

StampedIsDated == \A r \in Requests : stage[r] \in {"stamped", "relaying"} => stamp[r] \in Day

RefusedIsDated == \A r \in Requests : status[r] = "429" => stamp[r] \in Day

NewIsBlank == \A r \in Requests : stage[r] # "done" => status[r] = "none"

IInv ==
  /\ TypeOK
  /\ StampedIsDated
  /\ RefusedIsDated
  /\ NewIsBlank
  /\ NothingBeforeStart
  /\ SpendByDay
  /\ CountIsGranted
  /\ RefusedOnlyWhenSpent

-----------------------------------------------------------------------------
(* Budgets *)

\* One more budget is one limit more.
LEMMA BudgetStep ==
  ASSUME NEW n \in Int
  PROVE  Limit * n \in Int /\ Limit * (n + 1) = Limit * n + Limit
  BY ServerAssumption

\* What may have been spent is a number.
LEMMA SpentType ==
  ASSUME TypeOK
  PROVE  Spent \in Int /\ Limit \in Nat /\ Limit * (late + starts) = Spent + Limit
<1>1. late + starts \in Int /\ Limit \in Nat
  BY ServerAssumption DEF TypeOK
<1>. QED BY <1>1, BudgetStep DEF Spent

\* One start or one late take more is one budget more.
LEMMA SpentStep ==
  ASSUME TypeOK,
         \/ late' = late + 1 /\ starts' = starts
         \/ late' = late /\ starts' = starts + 1
  PROVE  Spent' = Spent + Limit
<1>1. late + starts \in Int /\ Limit \in Nat
  BY ServerAssumption DEF TypeOK
<1>2. Spent' = Limit * ((late + starts) + 1) - Limit
  <2>1. CASE late' = late + 1 /\ starts' = starts
    <3>1. late' + starts' = (late + starts) + 1
      BY <2>1 DEF TypeOK
    <3>. QED BY <3>1 DEF Spent
  <2>2. CASE late' = late /\ starts' = starts + 1
    <3>1. late' + starts' = (late + starts) + 1
      BY <2>2 DEF TypeOK
    <3>. QED BY <3>1 DEF Spent
  <2>. QED BY <2>1, <2>2
<1>3. Limit * (late + starts) \in Int
      /\ Limit * ((late + starts) + 1) = Limit * (late + starts) + Limit
  BY <1>1, BudgetStep
<1>. QED BY <1>1, <1>2, <1>3 DEF Spent

-----------------------------------------------------------------------------
(* The invariant is inductive *)

\* The invariant holds before the first process.
LEMMA InitLemma == Init => IInv
<1>. SUFFICES ASSUME Init PROVE IInv
  OBVIOUS
<1>1. TypeOK
  BY ServerAssumption DEF Init, TypeOK, Day, NoDay, Status
<1>2. StampedIsDated /\ RefusedIsDated /\ NewIsBlank
  BY DEF Init, StampedIsDated, RefusedIsDated, NewIsBlank
<1>3. NothingBeforeStart /\ SpendByDay /\ CountIsGranted
  BY DEF Init, NothingBeforeStart, SpendByDay, CountIsGranted, NoDay
<1>4. RefusedOnlyWhenSpent
  BY DEF Init, RefusedOnlyWhenSpent
<1>. QED BY <1>1, <1>2, <1>3, <1>4 DEF IInv

\* A new process counts from nothing and brings one more budget.
LEMMA StartLemma ==
  ASSUME IInv, Start
  PROVE  IInv'
<1>1. /\ phase = "down" /\ phase' = "up"
      /\ starts' = starts + 1
      /\ day' = NoDay /\ count' = 0
      /\ UNCHANGED <<today, stage, kind, stamp, status, granted, late>>
  BY DEF Start
<1>2. TypeOK'
  BY <1>1, ServerAssumption DEF IInv, TypeOK
<1>3. /\ Spent \in Int /\ Spent' = Spent + Limit
  BY <1>1, SpentType, SpentStep DEF IInv
<1>4. SpendByDay'
  <2>. SUFFICES ASSUME NEW d \in Day PROVE granted[d] <= Spent' /\ d > 0
    BY <1>1 DEF SpendByDay, NoDay, Day
  <2>1. granted[d] \in Nat /\ d \in Nat /\ d > 0
    BY DEF IInv, TypeOK, Day
  <2>2. CASE starts = 0
    <3>1. granted[d] = 0 /\ late = 0
      BY <2>2 DEF IInv, NothingBeforeStart
    <3>2. Spent' = 0
      BY <1>1, <2>2, <3>1, ServerAssumption DEF Spent
    <3>. QED BY <2>1, <3>1, <3>2
  <2>3. CASE starts > 0
    <3>1. granted[d] <= Spent \/ granted[d] <= Spent + count \/ granted[d] <= Spent + Limit
      BY <2>1, <2>3 DEF IInv, SpendByDay, TypeOK, Day, NoDay
    <3>2. count \in Int /\ count <= Limit /\ Limit \in Nat
      BY ServerAssumption DEF IInv, TypeOK
    <3>. QED BY <1>3, <2>1, <3>1, <3>2
  <2>. QED BY <2>2, <2>3 DEF IInv, TypeOK
<1>5. StampedIsDated' /\ RefusedIsDated' /\ NewIsBlank' /\ RefusedOnlyWhenSpent'
  BY <1>1 DEF IInv, StampedIsDated, RefusedIsDated, NewIsBlank, RefusedOnlyWhenSpent
<1>6. NothingBeforeStart' /\ CountIsGranted'
  BY <1>1 DEF IInv, TypeOK, NothingBeforeStart, CountIsGranted
<1>. QED BY <1>2, <1>4, <1>5, <1>6 DEF IInv

\* Steps that leave the count and the charges alone, and refuse nobody.
UncountedStep ==
  /\ UNCHANGED <<day, count, granted, late, starts>>
  /\ starts > 0 \/ UNCHANGED <<phase, stage>>
  /\ \A r \in Requests : status'[r] = "429" => status[r] = "429" /\ stamp'[r] = stamp[r]

\* Steps that charge nothing and refuse nobody keep the books.
LEMMA UncountedLemma ==
  ASSUME IInv, UncountedStep
  PROVE  NothingBeforeStart' /\ SpendByDay' /\ CountIsGranted' /\ RefusedOnlyWhenSpent'
         /\ RefusedIsDated'
<1>1. NothingBeforeStart'
  BY DEF IInv, UncountedStep, NothingBeforeStart, TypeOK
<1>2. SpendByDay' /\ CountIsGranted'
  BY DEF IInv, UncountedStep, SpendByDay, CountIsGranted, Spent
<1>3. RefusedOnlyWhenSpent' /\ RefusedIsDated'
  BY DEF IInv, UncountedStep, RefusedOnlyWhenSpent, RefusedIsDated
<1>. QED BY <1>1, <1>2, <1>3

\* A signal, the end of a process and midnight charge nothing.
LEMMA ProcessLemma ==
  ASSUME IInv, Signal \/ Exit \/ Midnight \/ UNCHANGED vars
  PROVE  IInv'
<1>1. CASE Signal
  <2>1. starts > 0
    BY <1>1 DEF Signal, IInv, NothingBeforeStart, TypeOK
  <2>2. UncountedStep
    BY <1>1, <2>1 DEF Signal, UncountedStep
  <2>3. TypeOK' /\ StampedIsDated' /\ NewIsBlank'
    BY <1>1 DEF Signal, IInv, TypeOK, StampedIsDated, NewIsBlank
  <2>. QED BY <2>2, <2>3, UncountedLemma DEF IInv
<1>2. CASE Exit
  <2>1. starts > 0
    BY <1>2 DEF Exit, IInv, NothingBeforeStart, TypeOK
  <2>2. UncountedStep
    BY <1>2, <2>1 DEF Exit, UncountedStep, IInv, TypeOK
  <2>3. TypeOK'
    BY <1>2 DEF Exit, IInv, TypeOK, Status
  <2>4. StampedIsDated' /\ NewIsBlank'
    BY <1>2 DEF Exit, InFlight, IInv, TypeOK, StampedIsDated, NewIsBlank
  <2>. QED BY <2>2, <2>3, <2>4, UncountedLemma DEF IInv
<1>3. CASE Midnight
  <2>1. UncountedStep
    BY <1>3 DEF Midnight, UncountedStep
  <2>2. TypeOK' /\ StampedIsDated' /\ NewIsBlank'
    BY <1>3, ServerAssumption DEF Midnight, IInv, TypeOK, Day, StampedIsDated, NewIsBlank
  <2>. QED BY <2>1, <2>2, UncountedLemma DEF IInv
<1>4. CASE UNCHANGED vars
  <2>1. UncountedStep
    BY <1>4 DEF vars, UncountedStep
  <2>2. TypeOK' /\ StampedIsDated' /\ NewIsBlank'
    BY <1>4 DEF vars, IInv, TypeOK, StampedIsDated, NewIsBlank
  <2>. QED BY <2>1, <2>2, UncountedLemma DEF IInv
<1>. QED BY <1>1, <1>2, <1>3, <1>4

\* Routing a request charges nothing and refuses nobody for the cap.
LEMMA ArriveLemma ==
  ASSUME IInv, NEW r \in Requests, NEW k \in Kind, Arrive(r, k)
  PROVE  IInv'
<1>1. /\ phase = "up" /\ stage[r] = "new"
      /\ kind' = [kind EXCEPT ![r] = k]
      /\ UNCHANGED <<phase, today, day, count, granted, late, starts>>
  BY DEF Arrive
<1>2. starts > 0 /\ status[r] = "none"
  BY <1>1 DEF IInv, TypeOK, NothingBeforeStart, NewIsBlank
<1>3. CASE k = "messages" /\ stamp' = [stamp EXCEPT ![r] = today]
           /\ stage' = [stage EXCEPT ![r] = "stamped"] /\ UNCHANGED status
  <2>1. TypeOK'
    BY <1>1, <1>3 DEF IInv, TypeOK
  <2>2. UncountedStep
    BY <1>1, <1>2, <1>3 DEF UncountedStep, IInv, TypeOK
  <2>3. StampedIsDated' /\ NewIsBlank'
    BY <1>1, <1>2, <1>3 DEF IInv, TypeOK, StampedIsDated, NewIsBlank
  <2>. QED BY <2>1, <2>2, <2>3, UncountedLemma DEF IInv
<1>4. ASSUME NEW s \in Outright[k], k \in DOMAIN Outright,
             status' = [status EXCEPT ![r] = s],
             stage' = [stage EXCEPT ![r] = "done"], UNCHANGED stamp
      PROVE  IInv'
  <2>1. s \in Status /\ s # "429"
    <3>1. s \in Status
      BY <1>4 DEF Status
    <3>2. s # "429"
      BY <1>4 DEF Outright, ProbeReplies, SessionReplies, StaticReplies
    <3>. QED BY <3>1, <3>2
  <2>2. TypeOK'
    BY <1>1, <1>4, <2>1 DEF IInv, TypeOK
  <2>3. UncountedStep
    BY <1>1, <1>2, <1>4, <2>1 DEF UncountedStep, IInv, TypeOK
  <2>4. StampedIsDated' /\ NewIsBlank'
    BY <1>1, <1>4 DEF IInv, TypeOK, StampedIsDated, NewIsBlank
  <2>. QED BY <2>2, <2>3, <2>4, UncountedLemma DEF IInv
<1>. QED BY <1>3, <1>4 DEF Arrive

\* The critical section of the cap moves the count to the request's day.
LEMMA TakeLemma ==
  ASSUME IInv, NEW r \in Requests, Take(r)
  PROVE  IInv'
<1>. DEFINE d0 == stamp[r]
            Grant == /\ HasBudget(r)
                     /\ count' = CountedOn(r) + 1
                     /\ granted' = [granted EXCEPT ![stamp[r]] = @ + 1]
                     /\ stage' = [stage EXCEPT ![r] = "relaying"]
                     /\ UNCHANGED status
            Refuse == /\ ~HasBudget(r)
                      /\ count' = CountedOn(r)
                      /\ stage' = [stage EXCEPT ![r] = "done"]
                      /\ status' = [status EXCEPT ![r] = "429"]
                      /\ UNCHANGED granted
<1>1. /\ stage[r] = "stamped"
      /\ day' = d0
      /\ late' = IF d0 < day THEN late + 1 ELSE late
      /\ UNCHANGED <<phase, today, kind, stamp, starts>>
      /\ Grant \/ Refuse
  BY DEF Take
<1>2. TypeOK
  BY DEF IInv
<1>3. d0 \in Day /\ d0 \in Int /\ day \in Int /\ starts > 0
  BY <1>1 DEF IInv, StampedIsDated, NothingBeforeStart, TypeOK, Day, NoDay
<1>4. CountedOn(r) \in Nat /\ CountedOn(r) <= Limit /\ Limit \in Nat \ {0} /\ count \in Nat
      /\ count <= Limit
  BY ServerAssumption DEF CountedOn, IInv, TypeOK
<1>5. Spent \in Int /\ Spent' = IF d0 < day THEN Spent + Limit ELSE Spent
  BY <1>1, <1>2, SpentType, SpentStep DEF Spent
<1>6. CountedOn(r) < Limit <=> HasBudget(r)
  BY DEF HasBudget
<1>7. Refuse => day = d0 /\ count >= Limit
  BY <1>4, <1>6 DEF CountedOn
<1>8. \A d \in Day : granted[d] \in Nat
  BY <1>2 DEF TypeOK
<1>9. TypeOK'
  <2>1. late' \in Nat /\ day' \in Day
    BY <1>1, <1>2, <1>3 DEF TypeOK
  <2>2. CASE Grant
    <3>1. count' \in 0 .. Limit
      BY <1>4, <1>6, <2>2
    <3>. QED BY <1>1, <1>2, <1>3, <2>1, <2>2, <3>1 DEF TypeOK
  <2>3. CASE Refuse
    <3>1. count' \in 0 .. Limit
      BY <1>4, <2>3
    <3>2. "429" \in Status
      BY DEF Status
    <3>. QED BY <1>1, <1>2, <2>1, <2>3, <3>1, <3>2 DEF TypeOK
  <2>. QED BY <1>1, <2>2, <2>3
<1>10. StampedIsDated' /\ RefusedIsDated' /\ NewIsBlank' /\ NothingBeforeStart'
  <2>1. \A q \in Requests : q # r => stage'[q] = stage[q] /\ status'[q] = status[q]
    BY <1>1, <1>2 DEF TypeOK
  <2>2. (stage'[r] = "relaying" /\ status'[r] = status[r]) \/ stage'[r] = "done"
    BY <1>1, <1>2 DEF TypeOK
  <2>3. status[r] = "none"
    BY <1>1 DEF IInv, NewIsBlank
  <2>. QED BY <1>1, <1>3, <2>1, <2>2, <2>3
           DEF IInv, StampedIsDated, RefusedIsDated, NewIsBlank, NothingBeforeStart
<1>11. \A d \in Day :
         /\ d # d0 => granted'[d] = granted[d]
         /\ granted'[d0] = IF Grant THEN granted[d0] + 1 ELSE granted[d0]
         /\ granted'[d] >= granted[d]
  <2>1. CASE Grant
    BY <1>2, <1>3, <1>8, <2>1 DEF TypeOK
  <2>2. CASE Refuse
    BY <1>6, <1>8, <2>2
  <2>. QED BY <1>1, <2>1, <2>2
<1>12. SpendByDay'
  <2>. SUFFICES ASSUME NEW d \in Day
                PROVE  /\ d > d0 => granted'[d] <= Spent'
                       /\ d = d0 => granted'[d] <= Spent' + count'
                       /\ d < d0 => granted'[d] <= Spent' + Limit
    BY <1>1 DEF SpendByDay
  <2>1. /\ d \in Int /\ granted[d] \in Nat
        /\ d > day => granted[d] <= Spent
        /\ d = day => granted[d] <= Spent + count
        /\ d < day => granted[d] <= Spent + Limit
    BY <1>3, <1>8 DEF IInv, SpendByDay, Day
  <2>2. CASE d # d0
    <3>1. granted'[d] = granted[d]
      BY <1>11, <2>2
    <3>. QED BY <1>3, <1>4, <1>5, <2>1, <2>2, <3>1
  <2>3. CASE d = d0 /\ Grant
    <3>1. granted'[d] = granted[d] + 1
      BY <1>11, <2>3
    <3>2. count' = IF day = d0 THEN count + 1 ELSE 1
      BY <2>3 DEF CountedOn
    <3>. QED BY <1>3, <1>4, <1>5, <2>1, <2>3, <3>1, <3>2
  <2>4. CASE d = d0 /\ Refuse
    <3>1. granted'[d] = granted[d] /\ day = d0 /\ count' = count
      BY <1>7, <2>4 DEF CountedOn
    <3>. QED BY <1>3, <1>4, <1>5, <2>1, <2>4, <3>1
  <2>. QED BY <1>1, <2>2, <2>3, <2>4
<1>13. CountIsGranted'
  <2>1. CASE Grant
    <3>1. granted'[d0] = granted[d0] + 1 /\ granted[d0] \in Nat
      BY <1>3, <1>8, <1>11, <2>1
    <3>2. CountedOn(r) <= granted[d0]
      BY <1>3, <3>1 DEF CountedOn, IInv, CountIsGranted, NoDay, Day
    <3>. QED BY <1>1, <1>4, <2>1, <3>1, <3>2 DEF CountIsGranted
  <2>2. CASE Refuse
    <3>1. count' = count /\ day' = day /\ granted' = granted
      BY <1>1, <1>7, <2>2 DEF CountedOn
    <3>. QED BY <3>1 DEF IInv, CountIsGranted
  <2>. QED BY <1>1, <2>1, <2>2
<1>14. RefusedOnlyWhenSpent'
  <2>. SUFFICES ASSUME NEW q \in Requests, status'[q] = "429"
                PROVE  granted'[stamp[q]] >= Limit
    BY <1>1 DEF RefusedOnlyWhenSpent
  <2>1. CASE status[q] = "429"
    <3>1. stamp[q] \in Day /\ granted[stamp[q]] >= Limit
      BY <2>1 DEF IInv, RefusedIsDated, RefusedOnlyWhenSpent
    <3>2. granted'[stamp[q]] >= granted[stamp[q]] /\ granted[stamp[q]] \in Nat
          /\ granted'[stamp[q]] \in Nat
      BY <1>8, <1>9, <1>11, <3>1 DEF TypeOK
    <3>. QED BY <1>4, <3>1, <3>2
  <2>2. CASE status[q] # "429"
    <3>1. q = r /\ Refuse
      BY <1>1, <1>2, <2>2 DEF TypeOK
    <3>2. granted' = granted /\ stamp[q] = day /\ count >= Limit /\ day # NoDay
      BY <1>3, <1>7, <3>1 DEF Day, NoDay
    <3>3. count <= granted[day] /\ granted[day] \in Nat
      BY <1>3, <1>7, <1>8, <3>1, <3>2 DEF IInv, CountIsGranted
    <3>. QED BY <1>4, <3>2, <3>3
  <2>. QED BY <2>1, <2>2
<1>. QED BY <1>9, <1>10, <1>12, <1>13, <1>14 DEF IInv

\* The end of an upstream call, or its deadline, charges nothing.
LEMMA RelayLemma ==
  ASSUME IInv, NEW r \in Requests, UpstreamEnds(r) \/ RelayTimeout(r)
  PROVE  IInv'
<1>1. PICK s \in {"answered", "502", "gone", "empty"} :
        /\ stage[r] = "relaying"
        /\ stage' = [stage EXCEPT ![r] = "done"]
        /\ status' = [status EXCEPT ![r] = s]
        /\ UNCHANGED <<phase, today, day, count, kind, stamp, granted, late, starts>>
  BY DEF UpstreamEnds, RelayTimeout
<1>2. s \in Status
  BY DEF Status
<1>3. TypeOK'
  BY <1>1, <1>2 DEF IInv, TypeOK
<1>4. starts > 0
  BY <1>1 DEF IInv, NothingBeforeStart, TypeOK
<1>5. UncountedStep
  BY <1>1, <1>4 DEF UncountedStep, IInv, TypeOK
<1>6. StampedIsDated' /\ NewIsBlank'
  BY <1>1 DEF IInv, TypeOK, StampedIsDated, NewIsBlank
<1>. QED BY <1>3, <1>5, <1>6, UncountedLemma DEF IInv

-----------------------------------------------------------------------------
(* Theorems *)

\* The strengthened invariant holds of every reachable state.
LEMMA Inductive == Spec => []IInv
<1>1. IInv /\ [Next]_vars => IInv'
  BY StartLemma, ProcessLemma, ArriveLemma, TakeLemma, RelayLemma DEF Next, Handler
<1>. QED BY <1>1, InitLemma, PTL DEF Spec

\* Every variable keeps its type; in particular the count of cap.go never passes the
\* limit.
THEOREM TypeCorrect == Spec => []TypeOK
<1>1. IInv => TypeOK
  BY DEF IInv
<1>. QED BY <1>1, Inductive, PTL

\* However midnight, restarts and requests interleave, a day of cap.go costs at most one
\* budget per process and one per request that crossed midnight on its way to the mutex.
THEOREM SpendBounded == Spec => []SpendIsBounded
<1>1. IInv => SpendIsBounded
  <2>. SUFFICES ASSUME IInv, NEW d \in Day PROVE granted[d] <= Limit * (late + starts)
    BY DEF SpendIsBounded
  <2>1. TypeOK /\ granted[d] \in Nat /\ d \in Int /\ day \in Int /\ count \in Nat
        /\ count <= Limit
    BY ServerAssumption DEF IInv, TypeOK, Day, NoDay
  <2>2. Spent \in Int /\ Limit \in Nat /\ Limit * (late + starts) = Spent + Limit
    BY <2>1, SpentType
  <2>3. CASE starts = 0
    <3>1. granted[d] = 0 /\ late = 0
      BY <2>3 DEF IInv, NothingBeforeStart
    <3>2. Limit * (late + starts) = 0
      BY <2>2, <2>3, <3>1
    <3>. QED BY <3>1, <3>2
  <2>4. CASE starts > 0
    <3>1. /\ d > day => granted[d] <= Spent
          /\ d = day => granted[d] <= Spent + count
          /\ d < day => granted[d] <= Spent + Limit
      BY <2>4 DEF IInv, SpendByDay
    <3>. QED BY <2>1, <2>2, <3>1
  <2>. QED BY <2>1, <2>3, <2>4 DEF TypeOK
<1>. QED BY <1>1, Inductive, PTL

\* The cap of cap.go refuses nobody before the day's budget is granted.
THEOREM RefusalsCorrect == Spec => []RefusedOnlyWhenSpent
<1>1. IInv => RefusedOnlyWhenSpent
  BY DEF IInv
<1>. QED BY <1>1, Inductive, PTL

-----------------------------------------------------------------------------
(* Who is charged *)

\* The messages of a day that got past the cap.
Relayed(d) == {r \in Requests : /\ kind[r] = "messages" /\ stamp[r] = d
                               /\ stage[r] \in {"relaying", "done"} /\ status[r] # "429"}

PaidByMessages ==
  /\ \A r \in Requests : stage[r] \in {"stamped", "relaying"} => kind[r] = "messages"
  /\ \A d \in Day : granted[d] <= Cardinality(Relayed(d))

\* More relayed requests and no more charges.
LEMMA RelayedGrows ==
  ASSUME IsFiniteSet(Requests), TypeOK, PaidByMessages, UNCHANGED granted,
         \A r \in Requests : stage'[r] \in {"stamped", "relaying"} => kind'[r] = "messages",
         \A d \in Day : Relayed(d) \subseteq Relayed(d)'
  PROVE  PaidByMessages'
<1>. SUFFICES ASSUME NEW d \in Day
              PROVE  granted[d] <= Cardinality(Relayed(d)')
  BY DEF PaidByMessages
<1>. DEFINE before == Relayed(d)
            after == Relayed(d)'
<1>1. IsFiniteSet(after) /\ before \subseteq after
  <2>1. after \subseteq Requests
    BY DEF Relayed
  <2>. QED BY <2>1, FS_Subset
<1>2. granted[d] <= Cardinality(before) /\ granted[d] \in Nat
  BY DEF PaidByMessages, TypeOK
<1>. HIDE DEF before, after
<1>3. Cardinality(before) <= Cardinality(after) /\ Cardinality(before) \in Nat
      /\ Cardinality(after) \in Nat
  BY <1>1, FS_Subset, FS_CardinalityType
<1>4. granted[d] <= Cardinality(after)
  BY <1>2, <1>3
<1>. QED BY <1>4 DEF after

\* A granted take is one charge, and one relayed request that was not there before.
LEMMA GrantLemma ==
  ASSUME IsFiniteSet(Requests), IInv, PaidByMessages, NEW r \in Requests,
         stage[r] = "stamped",
         granted' = [granted EXCEPT ![stamp[r]] = @ + 1],
         stage' = [stage EXCEPT ![r] = "relaying"],
         UNCHANGED <<kind, stamp, status>>
  PROVE  PaidByMessages'
<1>1. /\ TypeOK /\ kind[r] = "messages" /\ status[r] # "429" /\ stamp[r] \in Day
  BY DEF IInv, PaidByMessages, NewIsBlank, StampedIsDated
<1>2. \A q \in Requests : stage'[q] \in {"stamped", "relaying"} => kind'[q] = "messages"
  BY <1>1 DEF TypeOK, PaidByMessages
<1>3. ASSUME NEW d \in Day
      PROVE  granted'[d] <= Cardinality(Relayed(d)')
  <2>1. Relayed(d)' = IF d = stamp[r] THEN Relayed(d) \cup {r} ELSE Relayed(d)
    BY <1>1 DEF Relayed, TypeOK
  <2>2. r \notin Relayed(d)
    BY DEF Relayed
  <2>3. IsFiniteSet(Relayed(d))
    <3>1. Relayed(d) \subseteq Requests
      BY DEF Relayed
    <3>. QED BY <3>1, FS_Subset
  <2>4. /\ Cardinality(Relayed(d)) \in Nat
        /\ Cardinality(Relayed(d) \cup {r}) = Cardinality(Relayed(d)) + 1
    BY <2>2, <2>3, FS_AddElement, FS_CardinalityType
  <2>5. granted[d] \in Nat /\ granted[d] <= Cardinality(Relayed(d))
        /\ granted'[d] = IF d = stamp[r] THEN granted[d] + 1 ELSE granted[d]
    BY <1>1 DEF TypeOK, PaidByMessages
  <2>. QED BY <2>1, <2>4, <2>5
<1>. QED BY <1>2, <1>3 DEF PaidByMessages

LEMMA PaidStep ==
  ASSUME IsFiniteSet(Requests), IInv, PaidByMessages, [Next]_vars
  PROVE  PaidByMessages'
<1>1. TypeOK /\ NewIsBlank
  BY DEF IInv
<1>2. CASE UNCHANGED <<kind, stamp, stage, status, granted>>
  BY <1>2 DEF PaidByMessages, Relayed
<1>3. Start \/ Signal \/ Midnight \/ UNCHANGED vars
      => UNCHANGED <<kind, stamp, stage, status, granted>>
  BY DEF Start, Signal, Midnight, vars
<1>4. CASE Exit
  <2>1. UNCHANGED granted
        /\ \A q \in Requests : stage'[q] \in {"stamped", "relaying"} => kind'[q] = "messages"
    BY <1>1, <1>4 DEF Exit, InFlight, TypeOK, PaidByMessages
  <2>2. \A d \in Day : Relayed(d) \subseteq Relayed(d)'
    BY <1>1, <1>4 DEF Exit, InFlight, TypeOK, Relayed
  <2>. QED BY <1>1, <2>1, <2>2, RelayedGrows
<1>5. ASSUME NEW r \in Requests, NEW k \in Kind, Arrive(r, k)
      PROVE  PaidByMessages'
  <2>1. UNCHANGED granted
        /\ \A q \in Requests : stage'[q] \in {"stamped", "relaying"} => kind'[q] = "messages"
    BY <1>1, <1>5 DEF Arrive, TypeOK, PaidByMessages
  <2>2. /\ stage[r] = "new"
        /\ \A q \in Requests \ {r} : /\ stage'[q] = stage[q] /\ kind'[q] = kind[q]
                                     /\ stamp'[q] = stamp[q] /\ status'[q] = status[q]
    BY <1>1, <1>5 DEF Arrive, TypeOK
  <2>3. \A d \in Day : Relayed(d) \subseteq Relayed(d)'
    BY <2>2 DEF Relayed
  <2>. QED BY <1>1, <2>1, <2>3, RelayedGrows
<1>6. ASSUME NEW r \in Requests, Take(r)
      PROVE  PaidByMessages'
  <2>1. CASE HasBudget(r) /\ stage' = [stage EXCEPT ![r] = "relaying"]
             /\ granted' = [granted EXCEPT ![stamp[r]] = @ + 1] /\ UNCHANGED status
    BY <1>6, <2>1, GrantLemma DEF Take
  <2>2. CASE stage' = [stage EXCEPT ![r] = "done"] /\ UNCHANGED granted
             /\ status' = [status EXCEPT ![r] = "429"]
    <3>1. /\ stage[r] = "stamped" /\ UNCHANGED <<kind, stamp>>
          /\ \A q \in Requests \ {r} : stage'[q] = stage[q] /\ status'[q] = status[q]
          /\ stage'[r] = "done"
      BY <1>1, <1>6, <2>2 DEF Take, TypeOK
    <3>2. \A q \in Requests : stage'[q] \in {"stamped", "relaying"} => kind'[q] = "messages"
      BY <3>1 DEF PaidByMessages
    <3>3. \A d \in Day : Relayed(d) \subseteq Relayed(d)'
      BY <3>1 DEF Relayed
    <3>. QED BY <1>1, <2>2, <3>2, <3>3, RelayedGrows
  <2>. QED BY <1>6, <2>1, <2>2 DEF Take
<1>7. ASSUME NEW r \in Requests, UpstreamEnds(r) \/ RelayTimeout(r)
      PROVE  PaidByMessages'
  <2>1. PICK s \in {"answered", "502", "gone", "empty"} :
          /\ stage[r] = "relaying"
          /\ stage' = [stage EXCEPT ![r] = "done"]
          /\ status' = [status EXCEPT ![r] = s]
          /\ UNCHANGED <<kind, stamp, granted>>
    BY <1>7 DEF UpstreamEnds, RelayTimeout
  <2>2. /\ \A q \in Requests \ {r} : stage'[q] = stage[q] /\ status'[q] = status[q]
        /\ stage'[r] = "done" /\ status'[r] # "429"
    BY <1>1, <2>1 DEF TypeOK
  <2>3. \A q \in Requests : stage'[q] \in {"stamped", "relaying"} => kind'[q] = "messages"
    BY <2>1, <2>2 DEF PaidByMessages
  <2>4. \A d \in Day : Relayed(d) \subseteq Relayed(d)'
    BY <2>1, <2>2 DEF Relayed
  <2>. QED BY <1>1, <2>1, <2>3, <2>4, RelayedGrows
<1>. QED BY <1>2, <1>3, <1>4, <1>5, <1>6, <1>7 DEF Next, Handler

\* Only POST /v1/messages, sent by an authenticated client and let through by cap.go, is
\* charged, each request once and to the day it read, whatever probes, strangers,
\* restarts and hang-ups come between.
THEOREM ChargesCorrect ==
  ASSUME IsFiniteSet(Requests)
  PROVE  Spec => []OnlyMessagesAreCharged
<1>1. Init => PaidByMessages
  <2>. SUFFICES ASSUME Init PROVE PaidByMessages
    OBVIOUS
  <2>1. \A d \in Day : Relayed(d) = {}
    BY DEF Init, Relayed
  <2>. QED BY <2>1, FS_EmptySet DEF Init, PaidByMessages
<1>2. IInv /\ PaidByMessages /\ [Next]_vars => PaidByMessages'
  BY PaidStep
<1>3. IInv /\ PaidByMessages => OnlyMessagesAreCharged
  <2>. SUFFICES ASSUME IInv, PaidByMessages, NEW d \in Day
                PROVE  granted[d] <= Cardinality({r \in Requests : /\ kind[r] = "messages"
                                                                  /\ stamp[r] = d
                                                                  /\ status[r] # "429"})
    BY DEF OnlyMessagesAreCharged
  <2>. DEFINE charged == {r \in Requests : /\ kind[r] = "messages" /\ stamp[r] = d
                                          /\ status[r] # "429"}
  <2>1. Relayed(d) \subseteq charged /\ IsFiniteSet(charged)
    BY FS_Subset DEF Relayed
  <2>2. Cardinality(Relayed(d)) <= Cardinality(charged)
        /\ Cardinality(Relayed(d)) \in Nat /\ Cardinality(charged) \in Nat
    <3>. HIDE DEF charged
    <3>. QED BY <2>1, FS_Subset, FS_CardinalityType
  <2>3. granted[d] \in Nat /\ granted[d] <= Cardinality(Relayed(d))
    BY DEF IInv, TypeOK, PaidByMessages
  <2>4. granted[d] <= Cardinality(charged)
    BY <2>2, <2>3
  <2>. QED BY <2>4
<1>. QED BY <1>1, <1>2, <1>3, Inductive, PTL DEF Spec
=============================================================================
