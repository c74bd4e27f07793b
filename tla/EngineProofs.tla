----------------------------- MODULE EngineProofs -----------------------------
(***************************************************************************)
(* Engine, proved for every set of requests and every number of calls.     *)
(*                                                                         *)
(* The argument.  Every message in either queue carries the number and the *)
(* request of a call that was made (MessagesAreAsked), so a reply settles  *)
(* the call it names with that call's own answer: the client implements    *)
(* EngineCalls.  Messages stand in the order of their calls over both      *)
(* queues (InLine), and a call still pending has its message there, ahead  *)
(* of all later ones, unless it was made to a dead worker that will answer *)
(* nobody any more (PendingInLine): answers come in order.                 *)
(***************************************************************************)
EXTENDS Engine, SequenceTheorems, TLAPS

MessagesAreAsked ==
  /\ \A i \in DOMAIN inbox : asked[inbox[i].id] = {inbox[i].request}
  /\ \A i \in DOMAIN outbox :
       \/ \E request \in asked[outbox[i].id] : outbox[i].outcome = AnswerTo(request)
       \/ \E kind \in ErrorKind : asked[outbox[i].id] # {} /\ outbox[i].outcome = [kind |-> kind]

CallsAreNumbered ==
  \A id \in Id : /\ asked[id] # {} <=> id < nextId
                 /\ id >= nextId => outcome[id] = Unsettled

\* Call numbers grow along a queue, and from the outbox to the inbox; calls answered
\* with a result are behind.
Ascending(queue) ==
  \A i, j \in DOMAIN queue : i < j => queue[i].id < queue[j].id

InOrder ==
  /\ Ascending(inbox) /\ Ascending(outbox)
  /\ \A i \in DOMAIN outbox, j \in DOMAIN inbox : outbox[i].id < inbox[j].id
  /\ \A id \in Id : outcome[id].kind = "result" =>
       /\ \A i \in DOMAIN inbox : id < inbox[i].id
       /\ \A i \in DOMAIN outbox : id < outbox[i].id

Queued(id) ==
  \/ \E i \in DOMAIN inbox : inbox[i].id = id
  \/ \E i \in DOMAIN outbox : outbox[i].id = id

PendingInLine ==
  \A id \in pending :
    \/ Queued(id)
    \/ ~alive /\ \A j \in Id : id < j => ~Queued(j) /\ outcome[j].kind # "result"

IInv ==
  /\ TypeOK
  /\ NoneForgotten
  /\ CallsAreNumbered
  /\ MessagesAreAsked
  /\ InOrder
  /\ PendingInLine

-----------------------------------------------------------------------------
(* Queues *)

\* The first element of a queue, and the others moved up by one.
LEMMA PopLemma ==
  ASSUME NEW S, NEW q \in Seq(S), q # << >>
  PROVE  /\ Head(q) \in S /\ Head(q) = q[1] /\ 1 \in DOMAIN q
         /\ Tail(q) \in Seq(S)
         /\ \A i \in DOMAIN Tail(q) : i + 1 \in DOMAIN q /\ Tail(q)[i] = q[i + 1]
         /\ \A i \in DOMAIN q : i = 1 \/ (i - 1 \in DOMAIN Tail(q) /\ q[i] = Tail(q)[i - 1])
  OBVIOUS

\* A queue with one element put at its end.
LEMMA PushLemma ==
  ASSUME NEW S, NEW q \in Seq(S), NEW x \in S
  PROVE  /\ Append(q, x) \in Seq(S)
         /\ \A i \in DOMAIN q : i \in DOMAIN Append(q, x) /\ Append(q, x)[i] = q[i]
         /\ Len(q) + 1 \in DOMAIN Append(q, x) /\ Append(q, x)[Len(q) + 1] = x
         /\ \A i \in DOMAIN Append(q, x) : i \in DOMAIN q \/ i = Len(q) + 1
  OBVIOUS

\* What the messages in the queues are.
LEMMA MessageLemma ==
  ASSUME TypeOK
  PROVE  /\ \A i \in DOMAIN inbox : inbox[i] \in Message /\ inbox[i].id \in Id
         /\ \A i \in DOMAIN outbox : outbox[i] \in Reply /\ outbox[i].id \in Id
<1>1. inbox \in Seq(Message) /\ outbox \in Seq(Reply)
  BY DEF TypeOK
<1>2. /\ \A i \in DOMAIN inbox : inbox[i] \in Message
      /\ \A i \in DOMAIN outbox : outbox[i] \in Reply
  BY <1>1
<1>3. (\A m \in Message : m.id \in Id) /\ (\A r \in Reply : r.id \in Id)
  BY DEF Message, Reply
<1>. QED BY <1>2, <1>3

-----------------------------------------------------------------------------
(* The invariant is inductive *)

\* The invariant holds of the new client.
LEMMA InitLemma == Init => IInv
<1>. SUFFICES ASSUME Init PROVE IInv
  OBVIOUS
<1>1. TypeOK
  BY EngineAssumption DEF Init, TypeOK, Outcome
<1>2. NoneForgotten /\ CallsAreNumbered
  BY EngineAssumption DEF Init, NoneForgotten, CallsAreNumbered, Id
<1>3. MessagesAreAsked /\ InOrder /\ PendingInLine
  BY DEF Init, MessagesAreAsked, InOrder, Ascending, PendingInLine, Unsettled
<1>. QED BY <1>1, <1>2, <1>3 DEF IInv

\* A new call is the last in line, also when the worker is dead.
LEMMA CallLemma ==
  ASSUME IInv, NEW request \in Requests, Call(request)
  PROVE  IInv'
<1>. DEFINE message == [id |-> nextId, request |-> request]
<1>1. /\ nextId <= MaxCalls
      /\ nextId' = nextId + 1
      /\ pending' = pending \cup {nextId}
      /\ asked' = [asked EXCEPT ![nextId] = {request}]
      /\ inbox' = IF alive THEN Append(inbox, message) ELSE inbox
      /\ UNCHANGED <<outcome, outbox, load, alive>>
  BY DEF Call
<1>2. /\ nextId \in Id /\ nextId \in Int /\ MaxCalls \in Nat
      /\ \A id \in Id : id \in Int
      /\ message \in Message /\ inbox \in Seq(Message)
  BY <1>1, EngineAssumption DEF IInv, TypeOK, Id, Message
<1>3. inbox' \in Seq(Message)
  BY <1>1, <1>2, PushLemma
<1>4. TypeOK'
  <2>1. nextId' \in 1 .. MaxCalls + 1 /\ pending' \subseteq 1 .. nextId' - 1
    BY <1>1, <1>2 DEF IInv, TypeOK
  <2>2. asked' \in [Id -> {{}} \cup {{q} : q \in Requests}]
    BY <1>1, <1>2 DEF IInv, TypeOK
  <2>. QED BY <1>1, <1>3, <2>1, <2>2 DEF IInv, TypeOK
<1>5. outcome[nextId] = Unsettled
  BY <1>2 DEF IInv, CallsAreNumbered
<1>6. NoneForgotten' /\ CallsAreNumbered'
  <2>. SUFFICES ASSUME NEW id \in Id
                PROVE  /\ id \in pending' <=> (id < nextId' /\ outcome[id] = Unsettled)
                       /\ asked'[id] # {} <=> id < nextId'
                       /\ id >= nextId' => outcome[id] = Unsettled
    BY <1>1 DEF NoneForgotten, CallsAreNumbered
  <2>1. /\ id \in pending <=> (id < nextId /\ outcome[id] = Unsettled)
        /\ asked[id] # {} <=> id < nextId
        /\ id >= nextId => outcome[id] = Unsettled
    BY DEF IInv, NoneForgotten, CallsAreNumbered
  <2>2. asked'[id] = IF id = nextId THEN {request} ELSE asked[id]
    BY <1>1, <1>2 DEF IInv, TypeOK
  <2>3. id \in Int /\ (id < nextId' <=> id < nextId \/ id = nextId)
    BY <1>1, <1>2
  <2>4. CASE id = nextId
    <3>1. id \in pending' /\ id < nextId' /\ outcome[id] = Unsettled /\ ~(id >= nextId')
      BY <1>1, <1>2, <1>5, <2>4
    <3>2. asked'[id] # {}
      BY <2>2, <2>4
    <3>. QED BY <3>1, <3>2
  <2>5. CASE id # nextId
    <3>1. id \in pending' <=> id \in pending
      BY <1>1, <2>5
    <3>2. asked'[id] = asked[id] /\ (id < nextId' <=> id < nextId)
      BY <2>2, <2>3, <2>5
    <3>3. id >= nextId' => id >= nextId
      BY <1>1, <1>2, <2>3
    <3>. QED BY <2>1, <3>1, <3>2, <3>3
  <2>. QED BY <2>4, <2>5
\* Messages on their way are of earlier calls, and the new one is the last.
<1>7. /\ \A i \in DOMAIN inbox : inbox[i].id \in Id /\ inbox[i].id < nextId
      /\ \A i \in DOMAIN outbox : outbox[i].id \in Id /\ outbox[i].id < nextId
  BY MessageLemma DEF IInv, MessagesAreAsked, CallsAreNumbered
<1>8. /\ \A i \in DOMAIN inbox : i \in DOMAIN inbox' /\ inbox'[i] = inbox[i]
      /\ \A i \in DOMAIN inbox' :
           \/ i \in DOMAIN inbox
           \/ alive /\ i = Len(inbox) + 1 /\ inbox'[i] = message
      /\ alive => Len(inbox) + 1 \in DOMAIN inbox' /\ inbox'[Len(inbox) + 1] = message
  <2>1. CASE alive
    BY <1>1, <1>2, <2>1, PushLemma
  <2>2. CASE ~alive
    BY <1>1, <2>2
  <2>. QED BY <2>1, <2>2
<1>9. message.id = nextId /\ message.request = request
  OBVIOUS
<1>. HIDE DEF message
<1>10. /\ \A id \in Id : id # nextId => asked'[id] = asked[id]
       /\ asked'[nextId] = {request}
  BY <1>1, <1>2 DEF IInv, TypeOK
<1>11. MessagesAreAsked'
  <2>1. ASSUME NEW i \in DOMAIN inbox' PROVE asked'[inbox'[i].id] = {inbox'[i].request}
    <3>1. CASE i \in DOMAIN inbox
      <4>1. inbox'[i] = inbox[i] /\ inbox[i].id \in Id /\ inbox[i].id # nextId
        BY <1>2, <1>7, <1>8, <3>1
      <4>2. asked[inbox[i].id] = {inbox[i].request}
        BY <3>1 DEF IInv, MessagesAreAsked
      <4>. QED BY <1>10, <4>1, <4>2
    <3>2. CASE inbox'[i] = message
      BY <1>9, <1>10, <3>2
    <3>. QED BY <1>8, <3>1, <3>2
  <2>2. ASSUME NEW i \in DOMAIN outbox
        PROVE  asked'[outbox[i].id] = asked[outbox[i].id]
    BY <1>2, <1>7, <1>10, <2>2
  <2>3. \A i \in DOMAIN outbox :
          \/ \E q \in asked[outbox[i].id] : outbox[i].outcome = AnswerTo(q)
          \/ \E kind \in ErrorKind : asked[outbox[i].id] # {} /\ outbox[i].outcome = [kind |-> kind]
    BY DEF IInv, MessagesAreAsked
  <2>4. outbox' = outbox
    BY <1>1
  <2>5. \A i \in DOMAIN outbox' :
          \/ \E q \in asked'[outbox'[i].id] : outbox'[i].outcome = AnswerTo(q)
          \/ \E kind \in ErrorKind : asked'[outbox'[i].id] # {} /\ outbox'[i].outcome = [kind |-> kind]
    BY <2>2, <2>3, <2>4
  <2>. QED BY <2>1, <2>5 DEF MessagesAreAsked
<1>12. InOrder'
  <2>1. DOMAIN inbox \subseteq Int /\ \A i \in DOMAIN inbox : i <= Len(inbox)
    BY <1>2
  <2>2. Ascending(inbox')
    <3>. SUFFICES ASSUME NEW i \in DOMAIN inbox', NEW j \in DOMAIN inbox', i < j
                  PROVE  inbox'[i].id < inbox'[j].id
      BY DEF Ascending
    <3>1. Len(inbox) \in Nat
      BY <1>2
    <3>2. i \in DOMAIN inbox
      BY <1>8, <2>1, <3>1
    <3>. QED BY <1>7, <1>8, <1>9, <3>2 DEF IInv, InOrder, Ascending
  <2>3. ASSUME NEW id \in Id, outcome[id].kind = "result" PROVE id < nextId
    <3>1. outcome[id] # Unsettled
      BY <2>3 DEF Unsettled
    <3>. QED BY <1>2, <3>1 DEF IInv, CallsAreNumbered
  <2>4. Ascending(outbox')
    BY <1>1 DEF IInv, InOrder
  <2>5. \A i \in DOMAIN outbox', j \in DOMAIN inbox' : outbox'[i].id < inbox'[j].id
    BY <1>1, <1>7, <1>8, <1>9 DEF IInv, InOrder
  <2>6. \A id \in Id : outcome'[id].kind = "result" =>
           \A i \in DOMAIN inbox' : id < inbox'[i].id
    BY <1>1, <1>8, <1>9, <2>3 DEF IInv, InOrder
  <2>7. \A id \in Id : outcome'[id].kind = "result" =>
           \A i \in DOMAIN outbox' : id < outbox'[i].id
    BY <1>1 DEF IInv, InOrder
  <2>. QED BY <2>2, <2>4, <2>5, <2>6, <2>7 DEF InOrder
<1>13. PendingInLine'
  <2>. SUFFICES ASSUME NEW id \in pending'
                PROVE  \/ Queued(id)'
                       \/ ~alive /\ \A j \in Id : id < j => ~Queued(j)' /\ outcome[j].kind # "result"
    BY <1>1 DEF PendingInLine
  <2>1. \A j \in Id : Queued(j) => Queued(j)'
    BY <1>1, <1>8 DEF Queued
  <2>2. ~alive => \A j \in Id : Queued(j)' => Queued(j)
    BY <1>1 DEF Queued
  <2>3. CASE id = nextId
    <3>1. CASE alive
      BY <1>8, <1>9, <2>3, <3>1 DEF Queued
    <3>2. CASE ~alive
      <4>. SUFFICES ASSUME NEW j \in Id, nextId < j
                    PROVE  ~Queued(j) /\ outcome[j].kind # "result"
        BY <2>2, <2>3, <3>2
      <4>1. outcome[j] = Unsettled
        BY <1>2 DEF IInv, CallsAreNumbered
      <4>2. ~Queued(j)
        BY <1>2, <1>7 DEF Queued
      <4>. QED BY <4>1, <4>2 DEF Unsettled
    <3>. QED BY <3>1, <3>2
  <2>4. CASE id \in pending
    <3>1. id \in Id
      BY <1>2, <2>4 DEF IInv, TypeOK, Id
    <3>. QED BY <2>1, <2>2, <2>4, <3>1 DEF IInv, PendingInLine
  <2>. QED BY <1>1, <2>3, <2>4
<1>. QED BY <1>4, <1>6, <1>11, <1>12, <1>13 DEF IInv

\* A step that settles some pending calls, each with its own answer or an error.
Settles ==
  /\ UNCHANGED <<nextId, asked>>
  /\ pending' \subseteq pending
  /\ outcome' \in [Id -> Outcome]
  /\ \A id \in Id :
       \/ id \notin pending \ pending' /\ outcome'[id] = outcome[id]
       \/ /\ id \in pending \ pending'
          /\ \/ \E request \in asked[id] : outcome'[id] = AnswerTo(request)
             \/ \E kind \in ErrorKind : outcome'[id] = [kind |-> kind]

\* Such a step keeps the map in agreement with the promises, and is a step of
\* EngineCalls.
LEMMA SettlesLemma ==
  ASSUME IInv, Settles
  PROVE  /\ NoneForgotten' /\ CallsAreNumbered'
         /\ pending' \subseteq 1 .. nextId' - 1
         /\ Calls!Settle
<1>1. /\ UNCHANGED <<nextId, asked>> /\ pending' \subseteq pending
      /\ TypeOK /\ pending \subseteq 1 .. nextId - 1
  BY DEF Settles, IInv, TypeOK
<1>2. ASSUME NEW id \in Id
      PROVE  \/ id \notin pending \ pending' /\ outcome'[id] = outcome[id]
             \/ /\ id \in pending \ pending' /\ outcome'[id] # Unsettled
                /\ \/ \E request \in asked[id] : outcome'[id] = AnswerTo(request)
                   \/ \E kind \in ErrorKind : outcome'[id] = [kind |-> kind]
  <2>1. \A kind : kind \in ErrorKind \cup {"result"} => kind # "none"
    BY DEF ErrorKind
  <2>2. (\E request \in asked[id] : outcome'[id] = AnswerTo(request)) => outcome'[id].kind = "result"
    BY DEF AnswerTo
  <2>3. (\E kind \in ErrorKind : outcome'[id] = [kind |-> kind]) => outcome'[id].kind \in ErrorKind
    OBVIOUS
  <2>4. Unsettled.kind = "none"
    BY DEF Unsettled
  <2>. QED BY <2>1, <2>2, <2>3, <2>4 DEF Settles
<1>3. ASSUME NEW id \in Id
      PROVE  /\ id \in pending <=> (id < nextId /\ outcome[id] = Unsettled)
             /\ asked[id] # {} <=> id < nextId
             /\ id >= nextId => outcome[id] = Unsettled
  BY DEF IInv, NoneForgotten, CallsAreNumbered
<1>4. NoneForgotten'
  BY <1>1, <1>2, <1>3 DEF NoneForgotten
<1>5. CallsAreNumbered'
  <2>1. ASSUME NEW id \in Id, id >= nextId PROVE outcome'[id] = Unsettled
    <3>1. outcome[id] = Unsettled /\ id \notin pending
      BY <1>1, <1>3, <2>1 DEF IInv, TypeOK, Id
    <3>. QED BY <1>2, <3>1
  <2>. QED BY <1>1, <1>3, <2>1 DEF CallsAreNumbered
<1>6. Calls!Settle
  <2>1. DOMAIN outcome = Id /\ DOMAIN outcome' = Id
    BY <1>1 DEF TypeOK, Settles
  <2>2. ASSUME NEW id \in Id
        PROVE  \/ outcome'[id] = outcome[id]
               \/ /\ outcome[id] = Unsettled
                  /\ \E request \in asked[id] :
                       \/ outcome'[id] = AnswerTo(request)
                       \/ \E kind \in ErrorKind : outcome'[id] = [kind |-> kind]
    <3>1. CASE id \in pending \ pending'
      <4>1. outcome[id] = Unsettled /\ asked[id] # {}
        BY <1>3, <3>1
      <4>. QED BY <1>2, <3>1, <4>1
    <3>2. CASE id \notin pending \ pending'
      BY <1>2, <3>2
    <3>. QED BY <3>1, <3>2
  <2>. QED BY <1>1, <2>1, <2>2 DEF Calls!Settle, Calls!AnswerTo, AnswerTo, Calls!Unsettled,
              Unsettled
<1>. QED BY <1>1, <1>4, <1>5, <1>6

\* The first reply of the outbox settles its own call, or is dropped.
LEMMA ReceiveLemma ==
  ASSUME IInv, Receive
  PROVE  IInv' /\ Settles
<1>. DEFINE reply == outbox[1]
<1>1. /\ outbox # << >>
      /\ outbox' = Tail(outbox)
      /\ \/ /\ reply.id \in pending
            /\ pending' = pending \ {reply.id}
            /\ outcome' = [outcome EXCEPT ![reply.id] = reply.outcome]
         \/ /\ reply.id \notin pending
            /\ UNCHANGED <<pending, outcome>>
      /\ UNCHANGED <<nextId, asked, inbox, load, alive>>
  BY DEF Receive, IInv, TypeOK
<1>2. outbox \in Seq(Reply) /\ TypeOK
  BY DEF IInv, TypeOK
<1>3. /\ reply \in Reply /\ 1 \in DOMAIN outbox
      /\ outbox' \in Seq(Reply)
      /\ \A i \in DOMAIN outbox' : i + 1 \in DOMAIN outbox /\ outbox'[i] = outbox[i + 1]
      /\ \A i \in DOMAIN outbox : i = 1 \/ (i - 1 \in DOMAIN outbox' /\ outbox[i] = outbox'[i - 1])
      /\ \A i \in DOMAIN outbox' : i \in Nat /\ 1 < i + 1
  BY <1>1, <1>2, PopLemma
<1>4. /\ reply.id \in Id /\ reply.outcome \in Outcome
      /\ \/ \E request \in asked[reply.id] : reply.outcome = AnswerTo(request)
         \/ \E kind \in ErrorKind : reply.outcome = [kind |-> kind]
  BY <1>3 DEF IInv, MessagesAreAsked, Reply
<1>. HIDE DEF reply
<1>5. outcome' \in [Id -> Outcome]
  BY <1>1, <1>2, <1>4 DEF TypeOK
<1>6. Settles
  <2>1. CASE UNCHANGED <<pending, outcome>>
    BY <1>1, <1>5, <2>1 DEF Settles
  <2>2. CASE /\ reply.id \in pending
             /\ pending' = pending \ {reply.id}
             /\ outcome' = [outcome EXCEPT ![reply.id] = reply.outcome]
    <3>1. \A id \in Id : id \in pending \ pending' <=> id = reply.id
      BY <2>2
    <3>2. outcome'[reply.id] = reply.outcome /\ \A id \in Id \ {reply.id} : outcome'[id] = outcome[id]
      BY <1>2, <1>4, <2>2 DEF TypeOK
    <3>3. ASSUME NEW id \in Id
          PROVE  \/ id \notin pending \ pending' /\ outcome'[id] = outcome[id]
                 \/ /\ id \in pending \ pending'
                    /\ \/ \E request \in asked[id] : outcome'[id] = AnswerTo(request)
                       \/ \E kind \in ErrorKind : outcome'[id] = [kind |-> kind]
      <4>1. CASE id = reply.id
        BY <1>4, <3>1, <3>2, <4>1
      <4>2. CASE id # reply.id
        BY <3>1, <3>2, <4>2
      <4>. QED BY <4>1, <4>2
    <3>. QED BY <1>1, <1>5, <2>2, <3>3 DEF Settles
  <2>. QED BY <1>1, <2>1, <2>2
<1>7. TypeOK'
  BY <1>1, <1>2, <1>3, <1>5, <1>6, SettlesLemma DEF TypeOK
<1>8. MessagesAreAsked'
  <2>1. \A i \in DOMAIN outbox :
          \/ \E request \in asked[outbox[i].id] : outbox[i].outcome = AnswerTo(request)
          \/ \E kind \in ErrorKind : asked[outbox[i].id] # {} /\ outbox[i].outcome = [kind |-> kind]
    BY DEF IInv, MessagesAreAsked
  <2>2. ASSUME NEW i \in DOMAIN outbox'
        PROVE  \/ \E request \in asked[outbox'[i].id] : outbox'[i].outcome = AnswerTo(request)
               \/ \E kind \in ErrorKind :
                    asked[outbox'[i].id] # {} /\ outbox'[i].outcome = [kind |-> kind]
    <3>1. i + 1 \in DOMAIN outbox /\ outbox'[i] = outbox[i + 1]
      BY <1>3
    <3>. QED BY <2>1, <3>1
  <2>3. UNCHANGED <<asked, inbox>>
    BY <1>1
  <2>. QED BY <2>2, <2>3 DEF IInv, MessagesAreAsked
<1>9. \A id \in Id : \/ outcome'[id] = outcome[id]
                     \/ id = reply.id
  BY <1>1, <1>2 DEF TypeOK
<1>10. InOrder'
  <2>1. \A i, j \in DOMAIN outbox' : i < j => outbox'[i].id < outbox'[j].id
    BY <1>3 DEF IInv, InOrder, Ascending
  <2>2. \A i \in DOMAIN outbox', j \in DOMAIN inbox : outbox'[i].id < inbox[j].id
    BY <1>3 DEF IInv, InOrder
  <2>3. /\ \A i \in DOMAIN inbox : reply.id < inbox[i].id
        /\ \A i \in DOMAIN outbox' : reply.id < outbox'[i].id
    BY <1>3 DEF IInv, InOrder, Ascending, reply
  <2>4. ASSUME NEW id \in Id, outcome'[id].kind = "result"
        PROVE  /\ \A i \in DOMAIN inbox : id < inbox[i].id
               /\ \A i \in DOMAIN outbox' : id < outbox'[i].id
    <3>1. CASE id = reply.id
      BY <2>3, <3>1
    <3>2. CASE outcome'[id] = outcome[id]
      BY <1>3, <2>4, <3>2 DEF IInv, InOrder
    <3>. QED BY <1>9, <3>1, <3>2
  <2>5. inbox' = inbox
    BY <1>1
  <2>. QED BY <2>1, <2>2, <2>4, <2>5 DEF IInv, InOrder, Ascending
<1>11. PendingInLine'
  <2>. SUFFICES ASSUME NEW id \in pending'
                PROVE  \/ Queued(id)'
                       \/ ~alive /\ \A j \in Id : id < j => ~Queued(j)' /\ outcome'[j].kind # "result"
    BY <1>1 DEF PendingInLine
  <2>1. id \in pending /\ id # reply.id
    BY <1>1
  <2>2. Queued(id) => Queued(id)'
    BY <1>1, <1>3, <2>1 DEF Queued, reply
  <2>3. \A j \in Id : Queued(j)' => Queued(j)
    BY <1>1, <1>3 DEF Queued
  <2>4. Queued(reply.id)
    BY <1>3 DEF Queued, reply
  <2>5. \A j \in Id : ~Queued(j) => outcome'[j] = outcome[j]
    BY <1>9, <2>4
  <2>. QED BY <2>1, <2>2, <2>3, <2>5 DEF IInv, PendingInLine
<1>. QED BY <1>6, <1>7, <1>8, <1>10, <1>11, SettlesLemma DEF IInv

\* Calls fail: none is answered, and either all of them fail or the queues stay.
LEMMA FailLemma ==
  ASSUME IInv, Settles, UNCHANGED load, alive' \in BOOLEAN,
         inbox' \in {inbox, << >>}, outbox' \in {outbox, << >>},
         \A id \in Id : outcome'[id].kind = "result" => outcome'[id] = outcome[id],
         pending' = {} \/ UNCHANGED <<inbox, outbox, alive>>
  PROVE  IInv'
<1>1. /\ DOMAIN inbox' \subseteq DOMAIN inbox /\ \A i \in DOMAIN inbox' : inbox'[i] = inbox[i]
      /\ DOMAIN outbox' \subseteq DOMAIN outbox /\ \A i \in DOMAIN outbox' : outbox'[i] = outbox[i]
      /\ UNCHANGED <<nextId, asked>> /\ pending' \subseteq pending
      /\ outcome' \in [Id -> Outcome]
  BY DEF Settles
<1>2. TypeOK'
  <2>1. inbox \in Seq(Message) /\ outbox \in Seq(Reply)
    BY DEF IInv, TypeOK
  <2>2. << >> \in Seq(Message) /\ << >> \in Seq(Reply)
    BY EmptySeq
  <2>3. inbox' \in Seq(Message) /\ outbox' \in Seq(Reply)
    BY <2>1, <2>2
  <2>. QED BY <1>1, <2>3, SettlesLemma DEF IInv, TypeOK
<1>3. MessagesAreAsked'
  <2>1. \A i \in DOMAIN inbox' : asked'[inbox'[i].id] = {inbox'[i].request}
    BY <1>1 DEF IInv, MessagesAreAsked
  <2>2. \A i \in DOMAIN outbox :
          \/ \E request \in asked[outbox[i].id] : outbox[i].outcome = AnswerTo(request)
          \/ \E kind \in ErrorKind : asked[outbox[i].id] # {} /\ outbox[i].outcome = [kind |-> kind]
    BY DEF IInv, MessagesAreAsked
  <2>3. ASSUME NEW i \in DOMAIN outbox'
        PROVE  \/ \E request \in asked'[outbox'[i].id] : outbox'[i].outcome = AnswerTo(request)
               \/ \E kind \in ErrorKind :
                    asked'[outbox'[i].id] # {} /\ outbox'[i].outcome = [kind |-> kind]
    <3>1. i \in DOMAIN outbox /\ outbox'[i] = outbox[i] /\ asked' = asked
      BY <1>1
    <3>. QED BY <2>2, <3>1
  <2>. QED BY <2>1, <2>3 DEF MessagesAreAsked
<1>4. InOrder'
  <2>1. Ascending(inbox') /\ Ascending(outbox')
    BY <1>1 DEF IInv, InOrder, Ascending
  <2>2. \A i \in DOMAIN outbox', j \in DOMAIN inbox' : outbox'[i].id < inbox'[j].id
    BY <1>1 DEF IInv, InOrder
  <2>3. \A id \in Id : outcome'[id].kind = "result" =>
          /\ \A i \in DOMAIN inbox' : id < inbox'[i].id
          /\ \A i \in DOMAIN outbox' : id < outbox'[i].id
    BY <1>1 DEF IInv, InOrder
  <2>. QED BY <2>1, <2>2, <2>3 DEF InOrder
<1>5. PendingInLine'
  <2>1. CASE pending' = {}
    BY <2>1 DEF PendingInLine
  <2>2. CASE UNCHANGED <<inbox, outbox, alive>>
    <3>1. \A j \in Id : Queued(j)' <=> Queued(j)
      BY <2>2 DEF Queued
    <3>2. \A j \in Id : outcome[j].kind # "result" => outcome'[j].kind # "result"
      OBVIOUS
    <3>3. ASSUME NEW id \in pending'
          PROVE  \/ Queued(id)'
                 \/ ~alive' /\ \A j \in Id : id < j => ~Queued(j)' /\ outcome'[j].kind # "result"
      <4>1. id \in pending /\ id \in Id
        BY <1>1, <3>3, EngineAssumption DEF IInv, TypeOK, Id
      <4>2. \/ Queued(id)
            \/ ~alive /\ \A j \in Id : id < j => ~Queued(j) /\ outcome[j].kind # "result"
        BY <4>1 DEF IInv, PendingInLine
      <4>. QED BY <2>2, <3>1, <3>2, <4>1, <4>2
    <3>. QED BY <3>3 DEF PendingInLine
  <2>. QED BY <2>1, <2>2
<1>. QED BY <1>2, <1>3, <1>4, <1>5, SettlesLemma DEF IInv

\* The deadline fails one call.
LEMMA TimeoutLemma ==
  ASSUME IInv, NEW id \in Id, Timeout(id)
  PROVE  IInv' /\ Settles
<1>1. /\ id \in pending
      /\ pending' = pending \ {id}
      /\ outcome' = [outcome EXCEPT ![id] = [kind |-> "timeout"]]
      /\ UNCHANGED <<nextId, asked, inbox, outbox, load, alive>>
  BY DEF Timeout
<1>2. outcome \in [Id -> Outcome] /\ [kind |-> "timeout"] \in Outcome /\ "timeout" \in ErrorKind
  BY DEF IInv, TypeOK, Outcome, ErrorKind
<1>3. /\ outcome' \in [Id -> Outcome]
      /\ outcome'[id] = [kind |-> "timeout"]
      /\ \A other \in Id \ {id} : outcome'[other] = outcome[other]
  BY <1>1, <1>2
<1>4. ASSUME NEW i \in Id
      PROVE  \/ i \notin pending \ pending' /\ outcome'[i] = outcome[i]
             \/ /\ i \in pending \ pending'
                /\ \E kind \in ErrorKind : outcome'[i] = [kind |-> kind]
  <2>1. CASE i = id
    BY <1>1, <1>2, <1>3, <2>1
  <2>2. CASE i # id
    BY <1>1, <1>3, <2>2
  <2>. QED BY <2>1, <2>2
<1>5. Settles
  BY <1>1, <1>3, <1>4 DEF Settles
<1>6. \A i \in Id : outcome'[i].kind = "result" => outcome'[i] = outcome[i]
  BY <1>3
<1>7. alive' \in BOOLEAN /\ inbox' \in {inbox, << >>} /\ outbox' \in {outbox, << >>}
  BY <1>1 DEF IInv, TypeOK
<1>. QED BY <1>1, <1>5, <1>6, <1>7, FailLemma

\* failAll fails all pending calls and answers none.
LEMMA FailAllLemma ==
  ASSUME IInv, FailAll
  PROVE  /\ Settles /\ pending' = {}
         /\ \A id \in Id : outcome'[id].kind = "result" => outcome'[id] = outcome[id]
<1>1. /\ pending' = {}
      /\ outcome' = [id \in Id |-> IF id \in pending THEN [kind |-> "worker"] ELSE outcome[id]]
      /\ UNCHANGED <<nextId, asked>>
  BY DEF FailAll
<1>2. outcome \in [Id -> Outcome] /\ [kind |-> "worker"] \in Outcome /\ "worker" \in ErrorKind
  BY DEF IInv, TypeOK, Outcome, ErrorKind
<1>3. outcome' \in [Id -> Outcome]
  BY <1>1, <1>2
<1>4. ASSUME NEW i \in Id
      PROVE  \/ i \notin pending \ pending' /\ outcome'[i] = outcome[i]
             \/ /\ i \in pending \ pending'
                /\ \E kind \in ErrorKind : outcome'[i] = [kind |-> kind]
  BY <1>1, <1>2
<1>5. Settles
  BY <1>1, <1>3, <1>4 DEF Settles
<1>. QED BY <1>1, <1>5

\* An error of the worker fails all calls; the inbox may be gone.
LEMMA WorkerErrorLemma ==
  ASSUME IInv, WorkerError
  PROVE  IInv' /\ Settles
<1>1. FailAll /\ UNCHANGED <<outbox, load>>
  BY DEF WorkerError
<1>2. alive' \in BOOLEAN /\ inbox' \in {inbox, << >>} /\ outbox' \in {outbox, << >>}
  BY DEF WorkerError, IInv, TypeOK
<1>. QED BY <1>1, <1>2, FailAllLemma, FailLemma

\* dispose fails all calls; both queues are gone.
LEMMA DisposeLemma ==
  ASSUME IInv, Dispose
  PROVE  IInv' /\ Settles
<1>1. FailAll /\ UNCHANGED load
  BY DEF Dispose
<1>2. alive' \in BOOLEAN /\ inbox' \in {inbox, << >>} /\ outbox' \in {outbox, << >>}
  BY DEF Dispose
<1>. QED BY <1>1, <1>2, FailAllLemma, FailLemma

\* Loading concerns no call.
LEMMA LoadLemma ==
  ASSUME IInv, Load
  PROVE  IInv' /\ UNCHANGED <<asked, outcome>>
<1>1. load' \in {"ready", "failed"}
      /\ UNCHANGED <<nextId, pending, asked, outcome, inbox, outbox, alive>>
  BY DEF Load
<1>2. TypeOK' /\ NoneForgotten' /\ CallsAreNumbered' /\ MessagesAreAsked'
  BY <1>1 DEF IInv, TypeOK, NoneForgotten, CallsAreNumbered, MessagesAreAsked
<1>3. InOrder' /\ PendingInLine'
  BY <1>1 DEF IInv, InOrder, Ascending, PendingInLine, Queued
<1>. QED BY <1>1, <1>2, <1>3 DEF IInv

\* The worker moves the first message of the inbox to the end of the outbox.
LEMMA ServeLemma ==
  ASSUME IInv, Serve
  PROVE  IInv' /\ UNCHANGED <<asked, outcome>>
<1>. DEFINE message == inbox[1]
<1>1. /\ inbox # << >> /\ alive
      /\ inbox' = Tail(inbox)
      /\ UNCHANGED <<nextId, pending, asked, outcome, load, alive>>
  BY DEF Serve
<1>2. TypeOK /\ inbox \in Seq(Message) /\ outbox \in Seq(Reply) /\ Len(outbox) \in Nat
  BY DEF IInv, TypeOK
<1>3. /\ Head(inbox) = message /\ message \in Message /\ 1 \in DOMAIN inbox
      /\ inbox' \in Seq(Message)
      /\ \A i \in DOMAIN inbox' : i + 1 \in DOMAIN inbox /\ inbox'[i] = inbox[i + 1]
      /\ \A i \in DOMAIN inbox : i = 1 \/ (i - 1 \in DOMAIN inbox' /\ inbox[i] = inbox'[i - 1])
      /\ \A i \in DOMAIN inbox' : i \in Nat /\ 1 < i + 1
  BY <1>1, <1>2, PopLemma
<1>4. PICK answer \in Answers(message.request) :
        outbox' = Append(outbox, [id |-> message.id, outcome |-> answer])
  BY <1>3 DEF Serve
<1>5. message.id \in Id /\ message.request \in Requests
  BY <1>3 DEF Message
<1>6. /\ answer = AnswerTo(message.request) \/ \E kind \in ErrorKind : answer = [kind |-> kind]
      /\ answer \in Outcome \ {Unsettled}
  BY <1>5 DEF Answers, ErrorKind, Outcome, AnswerTo, Unsettled
<1>. DEFINE reply == [id |-> message.id, outcome |-> answer]
<1>7. reply \in Reply /\ reply.id = message.id /\ reply.outcome = answer
  BY <1>5, <1>6 DEF Reply
<1>. HIDE DEF message, reply
<1>8. /\ outbox' \in Seq(Reply)
      /\ \A i \in DOMAIN outbox : i \in DOMAIN outbox' /\ outbox'[i] = outbox[i]
      /\ Len(outbox) + 1 \in DOMAIN outbox' /\ outbox'[Len(outbox) + 1] = reply
      /\ \A i \in DOMAIN outbox' :
           \/ i \in DOMAIN outbox
           \/ i = Len(outbox) + 1
  BY <1>2, <1>4, <1>7, PushLemma DEF reply
<1>9. TypeOK'
  BY <1>1, <1>2, <1>3, <1>8 DEF TypeOK
<1>10. NoneForgotten' /\ CallsAreNumbered'
  BY <1>1 DEF IInv, NoneForgotten, CallsAreNumbered
<1>11. asked[message.id] = {message.request}
  BY <1>3 DEF IInv, MessagesAreAsked, message
<1>12. MessagesAreAsked'
  <2>1. \A i \in DOMAIN inbox : asked[inbox[i].id] = {inbox[i].request}
    BY DEF IInv, MessagesAreAsked
  <2>2. \A i \in DOMAIN inbox' : asked'[inbox'[i].id] = {inbox'[i].request}
    BY <1>1, <1>3, <2>1
  <2>3. \A i \in DOMAIN outbox :
          \/ \E request \in asked[outbox[i].id] : outbox[i].outcome = AnswerTo(request)
          \/ \E kind \in ErrorKind : asked[outbox[i].id] # {} /\ outbox[i].outcome = [kind |-> kind]
    BY DEF IInv, MessagesAreAsked
  <2>4. \/ \E request \in asked[reply.id] : reply.outcome = AnswerTo(request)
        \/ \E kind \in ErrorKind : asked[reply.id] # {} /\ reply.outcome = [kind |-> kind]
    BY <1>6, <1>7, <1>11
  <2>5. ASSUME NEW i \in DOMAIN outbox'
        PROVE  \/ \E request \in asked[outbox'[i].id] : outbox'[i].outcome = AnswerTo(request)
               \/ \E kind \in ErrorKind :
                    asked[outbox'[i].id] # {} /\ outbox'[i].outcome = [kind |-> kind]
    <3>1. CASE i \in DOMAIN outbox
      <4>1. outbox'[i] = outbox[i]
        BY <1>8, <3>1
      <4>. QED BY <2>3, <3>1, <4>1
    <3>2. CASE i = Len(outbox) + 1
      <4>1. outbox'[i] = reply
        BY <1>8, <3>2
      <4>. QED BY <2>4, <4>1
    <3>. QED BY <1>8, <3>1, <3>2
  <2>6. asked' = asked
    BY <1>1
  <2>. QED BY <2>2, <2>5, <2>6 DEF MessagesAreAsked
\* The message stood ahead of the inbox and behind the outbox.
<1>13. /\ \A i \in DOMAIN outbox : outbox[i].id < message.id
       /\ \A i \in DOMAIN inbox' : message.id < inbox'[i].id
       /\ \A id \in Id : outcome[id].kind = "result" => id < message.id
  BY <1>3 DEF IInv, InOrder, Ascending, message
<1>14. InOrder'
  <2>1. \A i, j \in DOMAIN inbox' : i < j => inbox'[i].id < inbox'[j].id
    BY <1>3 DEF IInv, InOrder, Ascending
  <2>2. ASSUME NEW i \in DOMAIN outbox', NEW j \in DOMAIN outbox', i < j
        PROVE  outbox'[i].id < outbox'[j].id
    <3>1. i \in DOMAIN outbox /\ outbox'[i] = outbox[i]
      <4>1. DOMAIN outbox = 1 .. Len(outbox)
        BY <1>2
      <4>. QED BY <1>2, <1>8, <2>2, <4>1
    <3>2. CASE j \in DOMAIN outbox
      BY <1>8, <2>2, <3>1, <3>2 DEF IInv, InOrder, Ascending
    <3>3. CASE j = Len(outbox) + 1
      BY <1>7, <1>8, <1>13, <3>1, <3>3
    <3>. QED BY <1>8, <3>2, <3>3
  <2>3. ASSUME NEW i \in DOMAIN outbox', NEW j \in DOMAIN inbox'
        PROVE  outbox'[i].id < inbox'[j].id
    <3>1. CASE i \in DOMAIN outbox
      BY <1>3, <1>8, <3>1 DEF IInv, InOrder
    <3>2. CASE i = Len(outbox) + 1
      BY <1>7, <1>8, <1>13, <3>2
    <3>. QED BY <1>8, <3>1, <3>2
  <2>4. \A id \in Id : outcome[id].kind = "result" =>
          /\ \A i \in DOMAIN inbox' : id < inbox'[i].id
          /\ \A i \in DOMAIN outbox' : id < outbox'[i].id
    BY <1>3, <1>7, <1>8, <1>13 DEF IInv, InOrder
  <2>5. outcome' = outcome
    BY <1>1
  <2>. QED BY <2>1, <2>2, <2>3, <2>4, <2>5 DEF InOrder, Ascending
<1>15. PendingInLine'
  <2>1. ASSUME NEW id, Queued(id) PROVE Queued(id)'
    <3>1. CASE \E i \in DOMAIN outbox : outbox[i].id = id
      BY <1>8, <3>1 DEF Queued
    <3>2. ASSUME NEW i \in DOMAIN inbox, inbox[i].id = id PROVE Queued(id)'
      <4>1. CASE i = 1
        BY <1>7, <1>8, <3>2, <4>1 DEF Queued, message
      <4>2. CASE i # 1
        BY <1>3, <3>2, <4>2 DEF Queued
      <4>. QED BY <4>1, <4>2
    <3>. QED BY <2>1, <3>1, <3>2 DEF Queued
  <2>2. \A id \in pending : Queued(id)
    BY <1>1 DEF IInv, PendingInLine
  <2>3. pending' = pending
    BY <1>1
  <2>. QED BY <2>1, <2>2, <2>3 DEF PendingInLine
<1>. QED BY <1>1, <1>9, <1>10, <1>12, <1>14, <1>15 DEF IInv

-----------------------------------------------------------------------------
(* The theorems *)

\* A step that changes nothing.
LEMMA StutterLemma == ASSUME IInv, UNCHANGED vars PROVE IInv'
<1>1. UNCHANGED <<nextId, pending, asked, outcome, inbox, outbox, load, alive>>
  BY DEF vars
<1>2. TypeOK' /\ NoneForgotten' /\ CallsAreNumbered' /\ MessagesAreAsked'
  BY <1>1 DEF IInv, TypeOK, NoneForgotten, CallsAreNumbered, MessagesAreAsked
<1>3. InOrder' /\ PendingInLine'
  BY <1>1 DEF IInv, InOrder, Ascending, PendingInLine, Queued
<1>. QED BY <1>2, <1>3 DEF IInv

\* Every step of the client and the worker keeps the invariant.
LEMMA StepLemma == IInv /\ [Next]_vars => IInv'
<1>. SUFFICES ASSUME IInv, [Next]_vars PROVE IInv'
  OBVIOUS
<1>1. ASSUME NEW request \in Requests, Call(request) PROVE IInv'
  BY <1>1, CallLemma
<1>2. CASE Receive
  BY <1>2, ReceiveLemma
<1>3. ASSUME NEW id \in Id, Timeout(id) PROVE IInv'
  BY <1>3, TimeoutLemma
<1>4. CASE WorkerError
  BY <1>4, WorkerErrorLemma
<1>5. CASE Dispose
  BY <1>5, DisposeLemma
<1>6. CASE Load
  BY <1>6, LoadLemma
<1>7. CASE Serve
  BY <1>7, ServeLemma
<1>8. CASE UNCHANGED vars
  BY <1>8, StutterLemma
<1>. QED BY <1>1, <1>2, <1>3, <1>4, <1>5, <1>6, <1>7, <1>8 DEF Next

\* The invariant holds of every reachable state.
LEMMA InvariantLemma == Spec => []IInv
  BY InitLemma, StepLemma, PTL DEF Spec

\* Every variable keeps its type, call numbers and map keys their range.
THEOREM TypeCorrect == Spec => []TypeOK
<1>1. IInv => TypeOK
  BY DEF IInv
<1>. QED BY <1>1, InvariantLemma, PTL

\* A promise is in the map of pending calls exactly while it is unsettled.
THEOREM NoneForgottenCorrect == Spec => []NoneForgotten
<1>1. IInv => NoneForgotten
  BY DEF IInv
<1>. QED BY <1>1, InvariantLemma, PTL

\* An answer from the worker never overtakes a call that still waits for one.
THEOREM OrderCorrect == Spec => []AnswersInOrder
<1>1. ASSUME IInv PROVE AnswersInOrder
  <2>. SUFFICES ASSUME NEW i \in Id, NEW j \in Id, i < j, outcome[j].kind = "result",
                       i \in pending
                PROVE  FALSE
    BY DEF AnswersInOrder
  <2>1. Queued(i)
    BY <1>1 DEF IInv, PendingInLine
  <2>2. /\ \A k \in DOMAIN inbox : j < inbox[k].id
        /\ \A k \in DOMAIN outbox : j < outbox[k].id
    BY <1>1 DEF IInv, InOrder
  <2>3. j < i
    BY <2>1, <2>2 DEF Queued
  <2>4. i \in Int /\ j \in Int
    BY DEF Id
  <2>. QED BY <2>3, <2>4
<1>. QED BY <1>1, InvariantLemma, PTL

\* The client with its worker, queues and timers implements the abstract interface:
\* every call settles at most once, and with its own answer or an error.
THEOREM CallsCorrect == Spec => ImplementsCalls
<1>1. Init => Calls!Init
  BY DEF Init, Calls!Init, Calls!Unsettled, Unsettled
<1>2. ASSUME IInv, [Next]_vars PROVE [Calls!Next]_(Calls!callVars)
  <2>1. ASSUME NEW request \in Requests, Call(request) PROVE Calls!Next
    <3>1. /\ nextId \in Id /\ asked' = [asked EXCEPT ![nextId] = {request}]
          /\ outcome' = outcome
      BY <1>2, <2>1, EngineAssumption DEF Call, IInv, TypeOK, Id
    <3>2. nextId \in Int /\ DOMAIN asked = Id
      BY <1>2, <3>1 DEF Id, IInv, TypeOK
    <3>3. asked[nextId] = {} /\ outcome[nextId] = Unsettled
      BY <1>2, <3>1, <3>2 DEF IInv, CallsAreNumbered
    <3>4. Calls!Ask(nextId, request)
      BY <3>1, <3>3 DEF Calls!Ask, Calls!Unsettled, Unsettled
    <3>. QED BY <3>1, <3>2, <3>4 DEF Calls!Next
  <2>2. CASE Settles
    BY <1>2, <2>2, SettlesLemma DEF Calls!Next
  <2>3. CASE UNCHANGED <<asked, outcome>>
    BY <2>3 DEF Calls!callVars
  <2>4. CASE Receive
    BY <1>2, <2>2, <2>4, ReceiveLemma
  <2>5. ASSUME NEW id \in Id, Timeout(id) PROVE Settles
    BY <1>2, <2>5, TimeoutLemma
  <2>6. CASE WorkerError
    BY <1>2, <2>2, <2>6, WorkerErrorLemma
  <2>7. CASE Dispose
    BY <1>2, <2>2, <2>7, DisposeLemma
  <2>8. CASE Load
    BY <1>2, <2>3, <2>8, LoadLemma
  <2>9. CASE Serve
    BY <1>2, <2>3, <2>9, ServeLemma
  <2>10. CASE UNCHANGED vars
    BY <2>3, <2>10 DEF vars
  <2>. QED BY <1>2, <2>1, <2>2, <2>4, <2>5, <2>6, <2>7, <2>8, <2>9, <2>10 DEF Next
<1>. QED BY <1>1, <1>2, InvariantLemma, PTL DEF Spec, ImplementsCalls, Calls!Spec
=============================================================================
