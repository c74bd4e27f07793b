---------------------------- MODULE AnsweredView ----------------------------
(***************************************************************************)
(* What the store promises a reader of the screen, without requests,       *)
(* timers or calls in flight (the contract in the comment above            *)
(* createStore, web/src/bus/store.ts): a Result or an engine error only    *)
(* ever appears of a call made for the plan on screen at that moment (of   *)
(* an optimization: what it found for that plan).  A plan may be shown     *)
(* with the answer of an older plan until its own arrives; an older plan's *)
(* answer never arrives late over a newer plan.                            *)
(***************************************************************************)
EXTENDS Integers

VARIABLES plan, result, error

viewVars == <<plan, result, error>>

None == 0

Blank == [plan |-> None, from |-> "none"]
Quiet == [kind |-> "none", plan |-> None]

Init == plan = None /\ result = Blank /\ error = Quiet

\* Another plan is shown: loaded, edited, undone, redone.
Show ==
  /\ plan' \in Nat \ {None, plan}
  /\ UNCHANGED <<result, error>>

\* The engine answers the plan on screen; the answer takes the banner down.
Answer ==
  /\ plan # None
  /\ result' \in [plan : {plan}, from : {"analyze", "optimize"}]
  /\ error' = Quiet
  /\ UNCHANGED plan

\* The engine fails on, or refuses, the plan on screen; the Result stays.
Fail ==
  /\ plan # None
  /\ error' \in [kind : {"engine", "optimize"}, plan : {plan}]
  /\ UNCHANGED <<plan, result>>

\* The banner of a rejected command or an unreadable file goes up, or it is taken down.
Notice ==
  /\ error' \in {Quiet} \cup [kind : {"command", "parse"}, plan : {None}]
  /\ UNCHANGED <<plan, result>>

\* The session starts over.
StartOver == plan' = None /\ result' = Blank /\ error' = Quiet

Next == Show \/ Answer \/ Fail \/ Notice \/ StartOver

Spec == Init /\ [][Next]_viewVars
=============================================================================
