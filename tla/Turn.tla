--------------------------------- MODULE Turn ---------------------------------
(***************************************************************************)
(* The Copilot's turns and transcripts, web/src/copilot: client.ts,        *)
(* history.ts, and session/reset.ts.                                       *)
(*                                                                         *)
(* A turn is a loop of the SDK's toolRunner: the model is called, the      *)
(* tools it asks for run, their results are sent back.  The transcript of  *)
(* a plan is committed to storage when its turn ends, under the plan id    *)
(* the turn started with.  Meanwhile the plan on screen may be replaced,   *)
(* the turn aborted, the API key cleared and another pasted (a new Copilot *)
(* starts while the tools of the old one still run), or the page reloaded. *)
(*                                                                         *)
(* A message is its role in the loop and its turn; its size is 1.          *)
(***************************************************************************)
EXTENDS Integers, Sequences, SequencesExt, FiniteSetsExt

CONSTANTS
  Plans,          \* plan ids
  MaxMessages,    \* DEFAULT_MAX_BYTES, in messages
  MaxIterations,  \* max_iterations of the toolRunner
  StorageFails,   \* whether a write or removal may fail (blocked site data, quota)
  MaxTurns,       \* bound: turns sent
  MaxChanges,     \* bound: plans put on screen
  MaxUpsets       \* bound: resets, cleared keys, reloads and failed writes

ASSUME TurnAssumption ==
  /\ MaxMessages \in Nat \ {0} /\ MaxIterations \in Nat \ {0}
  /\ StorageFails \in BOOLEAN
  /\ {MaxTurns, MaxChanges, MaxUpsets} \subseteq Nat

VARIABLES
  screen,      \* the id of the plan in the store, NoPlan without one
  keyed,       \* there is an API key, and with it a Copilot
  loaded,      \* loadedPlanId
  shown,       \* snapshot.transcript
  stored,      \* the transcript in storage of each plan, Nothing without one
  phase,       \* "idle", or where the running turn is: "calling" the model, "failed" (the
               \* call's message could not be parsed), running "tools"
  start,       \* the plan id the running turn was sent under
  runner,      \* runner.params.messages
  iterations,  \* model calls of this runner
  attempt,     \* 0, or 1 once the turn was re-issued
  aborted,
  ghost,       \* the turn of a Copilot disposed of while it ran, NoGhost without one
  planOf,      \* history: the plan on screen when each turn was sent
  changes, upsets  \* counters of the bounds

copilot == <<loaded, shown>>
loop == <<phase, start, runner, iterations, attempt, aborted>>
bounds == <<changes, upsets>>
vars == <<screen, keyed, copilot, stored, loop, ghost, planOf, bounds>>

NoPlan == "none"
Screen == Plans \cup {NoPlan}

\* The roles of the loop: the human's words, an assistant message with or without tool
\* calls, and the results of the tools.
Role == {"user", "reply", "tool_use", "tool_result"}
Message == [role : Role, turn : 1 .. MaxTurns]
Transcript == [messages : Seq(Message), dropped : Nat]

EmptyTranscript == [messages |-> <<>>, dropped |-> 0]
Nothing == [messages |-> <<>>, dropped |-> -1]
NoGhost == [start |-> NoPlan, messages |-> <<>>, dropped |-> 0]

TypeOK ==
  /\ screen \in Screen /\ loaded \in Screen /\ start \in Screen
  /\ keyed \in BOOLEAN
  /\ shown \in Transcript
  /\ stored \in [Plans -> Transcript \cup {Nothing}]
  /\ phase \in {"idle", "calling", "failed", "tools"}
  /\ runner \in Seq(Message)
  /\ iterations \in 0 .. MaxIterations
  /\ attempt \in {0, 1} /\ aborted \in BOOLEAN
  /\ ghost \in [start : Screen, messages : Seq(Message), dropped : Nat]
  /\ planOf \in Seq(Plans)

running == phase # "idle"

Init ==
  /\ keyed \in BOOLEAN
  /\ screen = NoPlan /\ loaded = NoPlan /\ shown = EmptyTranscript
  /\ stored = [p \in Plans |-> Nothing]
  /\ phase = "idle" /\ start = NoPlan /\ runner = <<>> /\ iterations = 0
  /\ attempt = 0 /\ aborted = FALSE
  /\ ghost = NoGhost /\ planOf = <<>>
  /\ changes = 0 /\ upsets = 0

-----------------------------------------------------------------------------
(* Transcripts *)

IsTurnStart(m) == m.role = "user"

\* Where a transcript may be cut: at the start of a turn that is not the first message.
Cuts(messages) == {i \in DOMAIN messages : i > 1 /\ IsTurnStart(messages[i])}

\* Slip: turns dropped by the trim are not counted.
TrimSilently(t) ==
  [messages |-> IF Cuts(t.messages) = {} THEN t.messages
                ELSE SubSeq(t.messages, Max(Cuts(t.messages)), Len(t.messages)),
   dropped |-> t.dropped]

\* trimTranscript: whole turns go from the front until the rest fits; the last one stays.
TrimTranscript(t) ==
  LET cuts == {1} \cup Cuts(t.messages)
      fits(i) == Len(t.messages) - i + 1 <= MaxMessages
      cut == IF \E i \in cuts : fits(i) THEN Min({i \in cuts : fits(i)}) ELSE Max(cuts)
  IN  [messages |-> SubSeq(t.messages, cut, Len(t.messages)),
       dropped |-> t.dropped + Cardinality({i \in cuts : i < cut})]

\* Slip: the transcript is kept with its unanswered tool calls.
KeepDangling(messages) == messages

\* dropDangling: tool calls that were never answered cannot be replayed.
DropDangling(messages) ==
  IF messages # <<>> /\ Last(messages).role = "tool_use" THEN Front(messages) ELSE messages

\* Slip: what storage holds is taken as it is.
LoadAsStored(p) == stored[p]

\* loadTranscript, also of what createCopilot finds.
LoadTranscript(p) == IF stored[p] = Nothing THEN EmptyTranscript ELSE stored[p]

\* What commit keeps of a turn's messages.
Kept(messages, dropped) ==
  TrimTranscript([messages |-> DropDangling(messages), dropped |-> dropped])

\* Slip: a turn is committed under the plan on screen when it ends.
CommitKeyOnScreen == IF screen = NoPlan THEN start ELSE screen

\* The plan id send hands to commit.
CommitKey == start

\* saveTranscript: a write that fails is reported and leaves storage as it was.
Save(p, transcript) ==
  \/ stored' = [stored EXCEPT ![p] = transcript] /\ UNCHANGED bounds
  \/ /\ StorageFails
     /\ upsets < MaxUpsets /\ upsets' = upsets + 1
     /\ UNCHANGED <<stored, changes>>

\* syncTranscript: the transcript of a plan is loaded when the plan first comes on screen,
\* never during a turn.
SyncTranscript(p) ==
  IF p \in {NoPlan, loaded} \/ running \/ ~keyed THEN UNCHANGED copilot
  ELSE loaded' = p /\ shown' = LoadTranscript(p)

-----------------------------------------------------------------------------
(* The store and the user *)

\* Any command of the store, which may put another plan on screen; a Copilot is notified.
Dispatch(p) ==
  /\ changes < MaxChanges /\ changes' = changes + 1
  /\ screen' = p
  /\ SyncTranscript(p)
  /\ UNCHANGED <<keyed, stored, loop, ghost, planOf, upsets>>

\* send, up to the first call of the model.
Send ==
  LET known == IF screen = loaded THEN shown ELSE LoadTranscript(screen)
      turn == Len(planOf) + 1
      messages == Append(known.messages, [role |-> "user", turn |-> turn])
  IN
  /\ keyed /\ ~running /\ screen # NoPlan /\ Len(planOf) < MaxTurns
  /\ loaded' = screen /\ shown' = [known EXCEPT !.messages = messages]
  /\ phase' = "calling" /\ start' = screen /\ runner' = messages
  /\ iterations' = 0 /\ attempt' = 0 /\ aborted' = FALSE
  /\ planOf' = Append(planOf, screen)
  /\ UNCHANGED <<screen, keyed, stored, ghost, bounds>>

Abort ==
  /\ running /\ ~aborted
  /\ aborted' = TRUE
  /\ UNCHANGED <<screen, keyed, copilot, stored, phase, start, runner, iterations, attempt,
                 ghost, planOf, bounds>>

\* clear: the stored transcript of the plan on screen goes, unless its removal fails.
Forget ==
  /\ keyed /\ ~running /\ screen # NoPlan
  /\ upsets < MaxUpsets /\ upsets' = upsets + 1
  /\ \/ stored' = [stored EXCEPT ![screen] = Nothing]
     \/ StorageFails /\ UNCHANGED stored

\* resetSession, offered with a plan on screen: clear, an empty store, and the fixture again
\* when the plan came from one.  (Without a Copilot only the store is reset: a Dispatch.)
ResetSession ==
  /\ Forget
  /\ screen' \in {NoPlan, screen}
  /\ IF screen' \in {NoPlan, loaded} THEN shown' = EmptyTranscript /\ UNCHANGED loaded
     ELSE /\ loaded' = screen'
          /\ shown' = IF stored'[screen'] = Nothing THEN EmptyTranscript ELSE stored'[screen']
  /\ UNCHANGED <<keyed, loop, ghost, planOf, changes>>

\* The loop of a Copilot that is gone or new.
NoLoop ==
  /\ phase' = "idle" /\ start' = NoPlan /\ runner' = <<>>
  /\ iterations' = 0 /\ attempt' = 0 /\ aborted' = FALSE

\* The API key is cleared: its Copilot is disposed of and the turn aborted.  A call is
\* rejected at once and the turn committed; tools run on, and the turn is committed when they
\* have (GhostEnds).  Bound: one Copilot winds up at a time.
ClearKey ==
  /\ keyed /\ keyed' = FALSE
  /\ upsets < MaxUpsets /\ upsets' = upsets + 1
  /\ ghost = NoGhost
  /\ ghost' = IF phase # "tools" THEN NoGhost
              ELSE [start |-> start, messages |-> runner, dropped |-> shown.dropped]
  /\ \/ stored' = IF phase \in {"idle", "tools"} THEN stored
                  ELSE [stored EXCEPT ![CommitKey] = Kept(runner, shown.dropped)]
     \/ StorageFails /\ UNCHANGED stored
  /\ loaded' = NoPlan /\ shown' = EmptyTranscript
  /\ NoLoop
  /\ UNCHANGED <<screen, planOf, changes>>

\* A key is pasted: a new Copilot starts from what storage holds of the plan on screen.
PasteKey ==
  /\ ~keyed /\ keyed' = TRUE
  /\ loaded' = screen
  /\ shown' = IF screen = NoPlan THEN EmptyTranscript ELSE LoadTranscript(screen)
  /\ NoLoop
  /\ UNCHANGED <<screen, stored, ghost, planOf, bounds>>

\* The page is reloaded; turns under way are lost, storage and the key (sessionStorage) stay.
ReloadPage ==
  /\ upsets < MaxUpsets /\ upsets' = upsets + 1
  /\ screen' = NoPlan /\ loaded' = NoPlan /\ shown' = EmptyTranscript /\ ghost' = NoGhost
  /\ NoLoop
  /\ UNCHANGED <<keyed, stored, planOf, changes>>

-----------------------------------------------------------------------------
(* The loop of a turn *)

\* The turn is over, well or badly: what the runner holds is committed.
Finish(messages) ==
  LET kept == Kept(messages, shown.dropped)
  IN  /\ Save(CommitKey, kept)
      /\ shown' = kept
      /\ NoLoop
      /\ UNCHANGED <<screen, keyed, loaded, ghost, planOf>>

\* The model's message: the end of the turn, or tool calls.
Receive(role) ==
  LET messages == Append(runner, [role |-> role, turn |-> Len(planOf)])
  IN
  /\ phase = "calling" /\ ~aborted
  /\ IF role = "reply" THEN Finish(messages)
     ELSE /\ phase' = "tools" /\ runner' = messages
          /\ shown' = [shown EXCEPT !.messages = messages]
          /\ iterations' = iterations + 1
          /\ UNCHANGED <<screen, keyed, loaded, stored, start, attempt, aborted, ghost, planOf,
                         bounds>>

\* The tools have run, also when the turn was aborted meanwhile; the last iteration ends
\* the turn without another call.
RunTools ==
  LET messages == Append(runner, [role |-> "tool_result", turn |-> Len(planOf)])
  IN
  /\ phase = "tools"
  /\ IF iterations = MaxIterations \/ aborted THEN Finish(messages)
     ELSE /\ phase' = "calling" /\ runner' = messages
          /\ UNCHANGED <<screen, keyed, copilot, stored, start, iterations, attempt, aborted,
                         ghost, planOf, bounds>>

\* An aborted turn stops in a call, or between tool calls and their results.
Stop == running /\ aborted /\ Finish(runner)

\* Tool JSON the SDK cannot parse rejects the iteration.
Unparseable ==
  /\ phase = "calling" /\ phase' = "failed"
  /\ UNCHANGED <<screen, keyed, copilot, stored, start, runner, iterations, attempt, aborted,
                 ghost, planOf, bounds>>

\* Slip: the turn is re-issued every time.
MayReissueAlways == ~aborted

\* A turn is re-issued once, unless it was aborted.
MayReissue == attempt = 0 /\ ~aborted

\* The turn goes on with a new runner, from the messages of the old one, or is given up.
Reissue ==
  /\ phase = "failed"
  /\ IF MayReissue
     THEN /\ phase' = "calling" /\ attempt' = 1 /\ iterations' = 0
          /\ UNCHANGED <<screen, keyed, copilot, stored, start, runner, aborted, ghost, planOf,
                         bounds>>
     ELSE Finish(runner)

\* An error of the API is not retried.
ApiError == phase = "calling" /\ Finish(runner)

\* The disposed Copilot's tools have run, or were given up: only its write is left of it.
GhostEnds ==
  LET results == Append(ghost.messages,
                   [role |-> "tool_result", turn |-> Last(ghost.messages).turn])
  IN
  /\ ghost # NoGhost
  /\ \E messages \in {ghost.messages, results} :
       Save(ghost.start, Kept(messages, ghost.dropped))
  /\ ghost' = NoGhost
  /\ UNCHANGED <<screen, keyed, copilot, loop, planOf>>

System ==
  \/ \E role \in {"reply", "tool_use"} : Receive(role)
  \/ RunTools \/ Stop \/ Unparseable \/ Reissue \/ ApiError \/ GhostEnds

Environment ==
  \/ \E p \in Screen : Dispatch(p)
  \/ Send \/ Abort \/ ResetSession \/ ClearKey \/ PasteKey \/ ReloadPage

Next == System \/ Environment

\* A call of the model is answered or fails, tools settle, an aborted turn stops.
Fairness == WF_vars(System)

Spec == Init /\ [][Next]_vars /\ Fairness

-----------------------------------------------------------------------------
(* Properties *)

\* The results that answer a message's tool calls.
Result(m) == [role |-> "tool_result", turn |-> m.turn]

\* The API takes a transcript that starts with the human and answers every tool call.
Replayable(messages) ==
  /\ messages # <<>> => messages[1].role = "user"
  /\ \A i \in DOMAIN messages :
       /\ messages[i].role = "tool_use" =>
            i < Len(messages) /\ messages[i + 1] = Result(messages[i])
       /\ messages[i].role = "tool_result" => i > 1 /\ messages[i - 1].role = "tool_use"

(***************************************************************************)
(* The "so the loop replays exactly" of Transcript.messages and the "drop  *)
(* it" of dropDangling: every call of the model, every stored transcript   *)
(* and every transcript the next turn builds on can be replayed, whatever  *)
(* the abort, the failure, the iteration limit or the trim cut off.        *)
(***************************************************************************)
TranscriptsReplay ==
  /\ phase = "calling" => Replayable(runner)
  /\ ~running => Replayable(shown.messages)
  /\ \A p \in Plans : Replayable(stored[p].messages)

(***************************************************************************)
(* commit(planId, ...) after the plan was replaced mid-turn, a Copilot     *)
(* that winds up after another took over: a plan's transcript, on screen   *)
(* or in storage, holds only turns that were sent about that plan.         *)
(***************************************************************************)
TranscriptsStayWithTheirPlan ==
  /\ \A m \in ToSet(shown.messages) : planOf[m.turn] = loaded
  /\ \A p \in Plans : \A m \in ToSet(stored[p].messages) : planOf[m.turn] = p

\* The turns a transcript tells the user of: those it shows and those it says it dropped.
Turns(t) == t.dropped + Cardinality({i \in DOMAIN t.messages : t.messages[i].role = "user"})

\* A step in which the turn of this Copilot ends.
TurnEnding == System /\ running /\ ~running'

(***************************************************************************)
(* Transcript.droppedTurns, "shown to the user, never silent", and "the    *)
(* last turn is always kept": when a turn ends, no earlier turn disappears *)
(* uncounted and nothing that was answered of this one is lost.            *)
(***************************************************************************)
TrimIsHonest ==
  [][TurnEnding =>
       /\ Turns(shown') = Turns(shown)
       /\ {m \in ToSet(DropDangling(runner)) : m.turn = Len(planOf)}
            \subseteq ToSet(shown'.messages)]_vars

(***************************************************************************)
(* send resolves or rejects: re-issues and iterations are bounded, and     *)
(* aborting, or replacing the plan, never leaves the Copilot busy.         *)
(***************************************************************************)
EveryTurnEnds == running ~> ~running
=============================================================================
