-------------------------------- MODULE Engine --------------------------------
(***************************************************************************)
(* The engine client on the main thread, web/src/engine/client.ts, and the *)
(* worker it talks to, web/src/engine/engine.worker.ts.                    *)
(*                                                                         *)
(* Both sides run one task at a time and share nothing but two message     *)
(* queues, which keep their order and lose nothing while the worker lives. *)
(* The Go engine behind the worker answers or throws; its answer to a      *)
(* request is represented by the request.  A call whose plan cannot be     *)
(* encoded is rejected on the spot and touches none of this state.         *)
(***************************************************************************)
EXTENDS Integers, Sequences

CONSTANTS
  Requests,    \* what callers ask: an operation on a plan
  MaxCalls     \* bound: calls made

ASSUME EngineAssumption == MaxCalls \in Nat

VARIABLES
  nextId,
  pending,     \* keys of the pending map; a timer is armed for exactly these
  asked,       \* history: the request of each call, {} while there is none
  outcome,     \* how each call's promise settled
  inbox,       \* messages to the worker
  outbox,      \* messages from the worker
  load,        \* the worker's promise of a loaded engine
  alive        \* the worker still takes and posts messages

vars == <<nextId, pending, asked, outcome, inbox, outbox, load, alive>>

Id == 1 .. MaxCalls
ErrorKind == {"load", "decode", "worker", "timeout"}
Unsettled == [kind |-> "none"]
AnswerTo(request) == [kind |-> "result", to |-> request]
Outcome == {Unsettled} \cup [kind : ErrorKind] \cup [kind : {"result"}, to : Requests]

Message == [id : Id, request : Requests]
\* A reply carries bytes, which may not decode, or an error.
Reply == [id : Id, outcome : Outcome \ {Unsettled}]

TypeOK ==
  /\ nextId \in 1 .. MaxCalls + 1
  /\ pending \subseteq 1 .. nextId - 1
  /\ asked \in [Id -> {{}} \cup {{request} : request \in Requests}]
  /\ outcome \in [Id -> Outcome]
  /\ inbox \in Seq(Message)
  /\ outbox \in Seq(Reply)
  /\ load \in {"loading", "ready", "failed"}
  /\ alive \in BOOLEAN

Init ==
  /\ nextId = 1
  /\ pending = {}
  /\ asked = [id \in Id |-> {}]
  /\ outcome = [id \in Id |-> Unsettled]
  /\ inbox = << >>
  /\ outbox = << >>
  /\ load = "loading"
  /\ alive = TRUE

-----------------------------------------------------------------------------
(* The client *)

\* Slip: the entry and the message are made with the next call's number.
CallNumberedAhead(request) ==
  /\ nextId < MaxCalls
  /\ nextId' = nextId + 1
  /\ pending' = pending \cup {nextId + 1}
  /\ asked' = [asked EXCEPT ![nextId + 1] = {request}]
  /\ inbox' = IF alive THEN Append(inbox, [id |-> nextId + 1, request |-> request])
                       ELSE inbox
  /\ UNCHANGED <<outcome, outbox, load, alive>>

\* call: arm the timer, remember the promise, post.  Posting to a terminated worker
\* is not an error; nobody will answer.
Call(request) ==
  /\ nextId <= MaxCalls
  /\ nextId' = nextId + 1
  /\ pending' = pending \cup {nextId}
  /\ asked' = [asked EXCEPT ![nextId] = {request}]
  /\ inbox' = IF alive THEN Append(inbox, [id |-> nextId, request |-> request])
                       ELSE inbox
  /\ UNCHANGED <<outcome, outbox, load, alive>>

\* Slip: replies are taken to come in the order of the calls still pending.
ReceiveForOldest ==
  /\ outbox # << >>
  /\ outbox' = Tail(outbox)
  /\ \/ /\ pending # {}
        /\ LET id == CHOOSE i \in pending : \A j \in pending : i <= j
           IN  /\ pending' = pending \ {id}
               /\ outcome' = [outcome EXCEPT ![id] = Head(outbox).outcome]
     \/ /\ pending = {}
        /\ UNCHANGED <<pending, outcome>>
  /\ UNCHANGED <<nextId, asked, inbox, load, alive>>

\* onmessage: settles the call the reply names; a reply that comes after the call was
\* settled otherwise is dropped.
Receive ==
  /\ outbox # << >>
  /\ outbox' = Tail(outbox)
  /\ LET reply == Head(outbox)
     IN  \/ /\ reply.id \in pending
            /\ pending' = pending \ {reply.id}
            /\ outcome' = [outcome EXCEPT ![reply.id] = reply.outcome]
         \/ /\ reply.id \notin pending
            /\ UNCHANGED <<pending, outcome>>
  /\ UNCHANGED <<nextId, asked, inbox, load, alive>>

\* Slip: the deadline only runs once the engine is loaded.
TimeoutOnceLoaded(id) ==
  /\ id \in pending /\ load # "loading"
  /\ pending' = pending \ {id}
  /\ outcome' = [outcome EXCEPT ![id] = [kind |-> "timeout"]]
  /\ UNCHANGED <<nextId, asked, inbox, outbox, load, alive>>

\* The per-request deadline.  The worker is not told: it goes on with the request.
Timeout(id) ==
  /\ id \in pending
  /\ pending' = pending \ {id}
  /\ outcome' = [outcome EXCEPT ![id] = [kind |-> "timeout"]]
  /\ UNCHANGED <<nextId, asked, inbox, outbox, load, alive>>

\* Slip: the map is cleared, the promises are not rejected.
FailAllSilently ==
  /\ pending' = {}
  /\ UNCHANGED <<outcome, nextId, asked>>

\* failAll
FailAll ==
  /\ pending' = {}
  /\ outcome' = [id \in Id |-> IF id \in pending THEN [kind |-> "worker"] ELSE outcome[id]]
  /\ UNCHANGED <<nextId, asked>>

\* onerror: an uncaught error in the worker.  A script that never ran is gone for good;
\* one that has installed its handler goes on with the messages it has.
WorkerError ==
  /\ alive
  /\ FailAll
  /\ \/ /\ load = "loading" /\ alive' = FALSE
        /\ inbox' = << >>
     \/ UNCHANGED <<alive, inbox>>
  /\ UNCHANGED <<outbox, load>>

\* dispose terminates the worker, and what it had posted goes with it.
Dispose ==
  /\ FailAll
  /\ alive' = FALSE
  /\ inbox' = << >> /\ outbox' = << >>
  /\ UNCHANGED load

-----------------------------------------------------------------------------
(* The worker *)

Load ==
  /\ alive /\ load = "loading"
  /\ load' \in {"ready", "failed"}
  /\ UNCHANGED <<nextId, pending, asked, outcome, inbox, outbox, alive>>

\* What becomes of a request: the load failed; serve answers or throws; and the
\* client may find that the bytes of an answer do not decode.
Answers(request) ==
  IF load = "failed" THEN {[kind |-> "load"]}
  ELSE {AnswerTo(request), [kind |-> "worker"], [kind |-> "decode"]}

\* Slip: the newest request first.
ServeNewest ==
  /\ alive /\ load # "loading" /\ inbox # << >>
  /\ inbox' = SubSeq(inbox, 1, Len(inbox) - 1)
  /\ LET message == inbox[Len(inbox)]
     IN  \E answer \in Answers(message.request) :
           outbox' = Append(outbox, [id |-> message.id, outcome |-> answer])
  /\ UNCHANGED <<nextId, pending, asked, outcome, load, alive>>

\* onmessage of the worker: messages wait for the engine, then are served one by one,
\* also those whose caller has given up.
Serve ==
  /\ alive /\ load # "loading" /\ inbox # << >>
  /\ inbox' = Tail(inbox)
  /\ LET message == Head(inbox)
     IN  \E answer \in Answers(message.request) :
           outbox' = Append(outbox, [id |-> message.id, outcome |-> answer])
  /\ UNCHANGED <<nextId, pending, asked, outcome, load, alive>>

-----------------------------------------------------------------------------

Next ==
  \/ \E request \in Requests : Call(request)
  \/ Receive
  \/ \E id \in Id : Timeout(id)
  \/ WorkerError
  \/ Dispose
  \/ Load
  \/ Serve

\* Timers of the main thread fire.  Nothing is assumed of the worker: it may hang in
\* a request or never finish loading.
Fairness == \A id \in Id : WF_vars(Timeout(id))

Spec == Init /\ [][Next]_vars /\ Fairness
-----------------------------------------------------------------------------
(* Properties *)

\* A promise is kept in the map until it is settled, and only until then: no path
\* drops an entry without settling it, or settles it and leaves its timer running
\* (client.ts: onmessage, failAll, the timer in call).
NoneForgotten ==
  \A id \in Id : id \in pending <=> (id < nextId /\ outcome[id] = Unsettled)

\* Who is answered by the worker leaves nobody waiting who called before: answers
\* overtake only calls that already failed, so an old analysis never lands after a
\* new one (client.ts: onmessage; engine.worker.ts: one message at a time).
AnswersInOrder ==
  \A i, j \in Id :
    i < j /\ outcome[j].kind = "result" => i \notin pending

\* A call settles although the worker hangs, crashes, fails to load or was terminated
\* before the call (client.ts: the timer in call).
EveryCallSettles == \A id \in Id : (id \in pending) ~> (id \notin pending)

\* The client implements the abstract interface: each call settles once, with its own
\* answer, although late replies, crashes and timeouts race.
Calls == INSTANCE EngineCalls WITH Errors <- ErrorKind
ImplementsCalls == Calls!Spec
=============================================================================
