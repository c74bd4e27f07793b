-------------------------------- MODULE Server --------------------------------
(***************************************************************************)
(* The deployment's server, deploy/server: it gates the SPA behind basic   *)
(* auth, relays the Copilot's calls to the Anthropic API under a daily     *)
(* cap, and drains on SIGTERM.                                             *)
(*                                                                         *)
(* One goroutine per request.  The only state they share is dailyCap, and  *)
(* take() reads the clock before it takes the mutex, so a relayed request  *)
(* has three steps: routing up to the clock, the critical section, and the *)
(* upstream call.  A day is the UTC date; the clock does not go backwards. *)
(***************************************************************************)
EXTENDS Integers, FiniteSets

CONSTANTS
  Requests,    \* the requests clients send, one HTTP exchange each
  Limit,       \* DAILY_REQUEST_CAP
  MaxDay,      \* bound: days the model lives
  MaxStarts    \* bound: processes started

ASSUME ServerAssumption ==
  /\ Limit \in Nat \ {0}    \* newHandler and configFromEnv refuse anything else
  /\ MaxDay \in Nat \ {0}
  /\ MaxStarts \in Nat

VARIABLES
  phase,     \* of the process: "down", "up", "draining"
  today,     \* the wall clock
  day,       \* dailyCap.day, NoDay while nothing was ever counted
  count,     \* dailyCap.count
  stage,     \* where each request's handler is
  kind,      \* what each request asks for, once it has arrived
  stamp,     \* the day each relayed request read from the clock
  status,    \* how each request ended
  granted,   \* history: relayed requests charged to each day, over all processes
  late,      \* history: takes by a request stamped before the day being counted
  starts     \* history: processes started

vars == <<phase, today, day, count, stage, kind, stamp, status, granted, late, starts>>

NoDay == 0
Day == 1 .. MaxDay

\* messagesOnly refuses a relay path or method that is not POST /v1/messages.
ProbeReplies == [otherPath |-> "404", otherMethod |-> "405"]

\* newSessionSink logs the event (204) or refuses it.
SessionReplies == {"204", "400", "405", "413"}

\* newSPA serves a file or the index, or refuses.  What ServeMux and ServeContent may answer in
\* the place of the whole file (206, 301, 304, 412, 416) counts as 200: it costs no budget.
StaticReplies == {"200", "404", "405", "500"}

(***************************************************************************)
(* What a request comes to without reaching the daily cap: health check,   *)
(* no or a wrong credential (basicAuth), a probe of the relay, a session   *)
(* event, a file of the SPA.                                               *)
(***************************************************************************)
Outright ==
  [health |-> {"200"},
   stranger |-> {"401"},
   otherPath |-> {ProbeReplies.otherPath},
   otherMethod |-> {ProbeReplies.otherMethod},
   session |-> SessionReplies,
   static |-> StaticReplies]

Kind == DOMAIN Outright \cup {"messages"}

\* "gone": the client hung up.  "empty": the relay deadline passed and the error handler
\* wrote nothing, so the reply ends with what had been sent.  "lost": the process went
\* away.
Status == (UNION {Outright[k] : k \in DOMAIN Outright}) \cup
            {"429", "answered", "502", "gone", "empty", "lost", "none"}

TypeOK ==
  /\ phase \in {"down", "up", "draining"}
  /\ today \in Day
  /\ day \in Day \cup {NoDay}
  /\ count \in 0 .. Limit
  /\ stage \in [Requests -> {"new", "stamped", "relaying", "done"}]
  /\ kind \in [Requests -> Kind \cup {"none"}]
  /\ stamp \in [Requests -> Day \cup {NoDay}]
  /\ status \in [Requests -> Status]
  /\ granted \in [Day -> Nat]
  /\ late \in Nat /\ starts \in Nat

Init ==
  /\ phase = "down"
  /\ today = 1
  /\ day = NoDay /\ count = 0
  /\ stage = [r \in Requests |-> "new"]
  /\ kind = [r \in Requests |-> "none"]
  /\ stamp = [r \in Requests |-> NoDay]
  /\ status = [r \in Requests |-> "none"]
  /\ granted = [d \in Day |-> 0]
  /\ late = 0 /\ starts = 0

InFlight == {r \in Requests : stage[r] \in {"stamped", "relaying"}}

-----------------------------------------------------------------------------
(* The process *)

\* run, newHandler: a fresh dailyCap, whatever was counted before.
Start ==
  /\ phase = "down" /\ starts < MaxStarts
  /\ phase' = "up"
  /\ starts' = starts + 1
  /\ day' = NoDay /\ count' = 0
  /\ UNCHANGED <<today, stage, kind, stamp, status, granted, late>>

\* SIGINT or SIGTERM: Shutdown closes the listener and waits.
Signal ==
  /\ phase = "up"
  /\ phase' = "draining"
  /\ UNCHANGED <<today, day, count, stage, kind, stamp, status, granted, late, starts>>

\* The process ends: all requests drained, the grace period over, or a crash.  What is
\* in flight then is lost.
Exit ==
  /\ phase # "down"
  /\ phase' = "down"
  /\ stage' = [r \in Requests |-> IF r \in InFlight THEN "done" ELSE stage[r]]
  /\ status' = [r \in Requests |-> IF r \in InFlight THEN "lost" ELSE status[r]]
  /\ UNCHANGED <<today, day, count, kind, stamp, granted, late, starts>>

Midnight ==
  /\ today < MaxDay
  /\ today' = today + 1
  /\ UNCHANGED <<phase, day, count, stage, kind, stamp, status, granted, late, starts>>

-----------------------------------------------------------------------------
(* The handlers *)

\* Slip: the cap is the outer middleware, messagesOnly the inner one.
ArriveCappedFirst(r, k) ==
  /\ phase = "up" /\ stage[r] = "new"
  /\ kind' = [kind EXCEPT ![r] = k]
  /\ \/ /\ k \in {"messages", "otherPath", "otherMethod"}
        /\ stamp' = [stamp EXCEPT ![r] = today]
        /\ stage' = [stage EXCEPT ![r] = "stamped"]
        /\ UNCHANGED status
     \/ /\ k \in DOMAIN Outright \ {"otherPath", "otherMethod"}
        /\ status' \in {[status EXCEPT ![r] = s] : s \in Outright[k]}
        /\ stage' = [stage EXCEPT ![r] = "done"]
        /\ UNCHANGED stamp
  /\ UNCHANGED <<phase, today, day, count, granted, late, starts>>

\* basicAuth, the muxes, messagesOnly: a request is answered outright, or it gets to
\* dailyCap.take, which first reads the clock.
Arrive(r, k) ==
  /\ phase = "up" /\ stage[r] = "new"
  /\ kind' = [kind EXCEPT ![r] = k]
  /\ \/ /\ k = "messages"
        /\ stamp' = [stamp EXCEPT ![r] = today]
        /\ stage' = [stage EXCEPT ![r] = "stamped"]
        /\ UNCHANGED status
     \/ /\ k \in DOMAIN Outright
        /\ status' \in {[status EXCEPT ![r] = s] : s \in Outright[k]}
        /\ stage' = [stage EXCEPT ![r] = "done"]
        /\ UNCHANGED stamp
  /\ UNCHANGED <<phase, today, day, count, granted, late, starts>>

\* Slip: a new day goes on from the old day's count.
CountedOnKept(r) == count

\* The count the critical section continues from: another day starts over.
CountedOn(r) == IF day = stamp[r] THEN count ELSE 0

\* Slip: one request too many passes.
HasBudgetAtLimit(r) == CountedOn(r) <= Limit

HasBudget(r) == CountedOn(r) < Limit

\* take under the mutex, with the day read before: granted and handed to the reverse
\* proxy, or refused with 429.
Take(r) ==
  /\ stage[r] = "stamped"
  /\ day' = stamp[r]
  /\ late' = IF stamp[r] < day THEN late + 1 ELSE late
  /\ \/ /\ HasBudget(r)
        /\ count' = CountedOn(r) + 1
        /\ granted' = [granted EXCEPT ![stamp[r]] = @ + 1]
        /\ stage' = [stage EXCEPT ![r] = "relaying"]
        /\ UNCHANGED status
     \/ /\ ~HasBudget(r)
        /\ count' = CountedOn(r)
        /\ stage' = [stage EXCEPT ![r] = "done"]
        /\ status' = [status EXCEPT ![r] = "429"]
        /\ UNCHANGED granted
  /\ UNCHANGED <<phase, today, kind, stamp, starts>>

\* The upstream answers, cannot be reached, or the client hangs up.
UpstreamEnds(r) ==
  /\ stage[r] = "relaying"
  /\ stage' = [stage EXCEPT ![r] = "done"]
  /\ status' \in {[status EXCEPT ![r] = s] : s \in {"answered", "502", "gone"}}
  /\ UNCHANGED <<phase, today, day, count, kind, stamp, granted, late, starts>>

\* Slip: the upstream call has no deadline of its own.
NoRelayTimeout(r) == FALSE /\ UNCHANGED vars

\* relayTimeout: the deadline of the upstream call.
RelayTimeout(r) ==
  /\ stage[r] = "relaying"
  /\ stage' = [stage EXCEPT ![r] = "done"]
  /\ status' = [status EXCEPT ![r] = "empty"]
  /\ UNCHANGED <<phase, today, day, count, kind, stamp, granted, late, starts>>

-----------------------------------------------------------------------------

Handler(r) == Take(r) \/ UpstreamEnds(r) \/ RelayTimeout(r)

Next ==
  \/ Start \/ Signal \/ Exit \/ Midnight
  \/ \E r \in Requests :
       \/ \E k \in Kind : Arrive(r, k)
       \/ Handler(r)

\* The Go scheduler runs every handler on, and a context deadline passes; clients, the
\* upstream and the platform owe nothing.
Fairness == \A r \in Requests : WF_vars(Take(r)) /\ WF_vars(RelayTimeout(r))

Spec == Init /\ [][Next]_vars /\ Fairness
-----------------------------------------------------------------------------
(* Properties *)

\* Spend is bounded: a day is charged at most one budget per process, and one more for
\* every request that crosses midnight between its clock and the mutex and so turns
\* the count back (cap.go: take).
SpendIsBounded == \A d \in Day : granted[d] <= Limit * (late + starts)

\* Only relayed messages are charged, each once, to the day it read: no probe of
\* another path or method, no refused and no unauthenticated request spends budget
\* (relay.go: messagesOnly; server.go: newHandler).
OnlyMessagesAreCharged ==
  \A d \in Day :
    granted[d] <= Cardinality({r \in Requests : /\ kind[r] = "messages"
                                                /\ stamp[r] = d
                                                /\ status[r] # "429"})

\* Nobody is turned away early: a request is refused only when its day's whole budget
\* was granted (cap.go: take, guard).
RefusedOnlyWhenSpent ==
  \A r \in Requests : status[r] = "429" => granted[stamp[r]] >= Limit

\* An arrived request ends, also when the upstream hangs and nobody gives up
\* (relay.go: newRelay's context.WithTimeout).
EveryRequestEnds ==
  \A r \in Requests : (stage[r] \in {"stamped", "relaying"}) ~> (stage[r] = "done")

\* cap.go: "dailyCap counts relayed requests per UTC day in this process".  A single
\* process then never relays more than the limit for one day.
CapHolds == starts <= 1 => \A d \in Day : granted[d] <= Limit
=============================================================================
