------------------------------ MODULE EngineCalls ------------------------------
(***************************************************************************)
(* What the engine client promises whoever calls analyze or optimize       *)
(* (interface Engine, web/src/engine/client.ts), without a worker, queues  *)
(* or timers: a call settles once, with the answer to that very call or    *)
(* with an error, in no particular order and independently of the others.  *)
(***************************************************************************)
EXTENDS Integers

CONSTANTS Requests,   \* what can be asked of the engine
          Errors      \* the kinds an EngineError can have

VARIABLES asked, outcome

callVars == <<asked, outcome>>

Unsettled == [kind |-> "none"]
AnswerTo(request) == [kind |-> "result", to |-> request]

Init ==
  /\ asked = [id \in DOMAIN asked |-> {}]
  /\ outcome = [id \in DOMAIN asked |-> Unsettled]

\* Calls are numbered; a number is used once.
Ask(id, request) ==
  /\ asked[id] = {} /\ outcome[id] = Unsettled
  /\ asked' = [asked EXCEPT ![id] = {request}]
  /\ UNCHANGED outcome

\* Any number of calls settle together (a crash of the worker fails them all).
Settle ==
  /\ UNCHANGED asked
  /\ DOMAIN outcome' = DOMAIN outcome
  /\ \A id \in DOMAIN outcome :
       \/ outcome'[id] = outcome[id]
       \/ /\ outcome[id] = Unsettled
          /\ \E request \in asked[id] :
               \/ outcome'[id] = AnswerTo(request)
               \/ \E kind \in Errors : outcome'[id] = [kind |-> kind]

Next == (\E id \in DOMAIN asked, request \in Requests : Ask(id, request)) \/ Settle

Spec == Init /\ [][Next]_callVars
=============================================================================
