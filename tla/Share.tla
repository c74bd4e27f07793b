-------------------------------- MODULE Share --------------------------------
(***************************************************************************)
(* Session sharing, web/src/telemetry/share.ts: what the tester does is    *)
(* posted to the deployment, one event per request.                        *)
(*                                                                         *)
(* The command log is read when a flush runs, not when a command is        *)
(* dispatched: `sentEntries` says how far it has been read.  Flushes come  *)
(* from a debounce timer and from pagehide, and are chained: each sends    *)
(* its batch to the end before the next one starts.  The tester may switch *)
(* sharing off, or reload the page, at any point of that.                  *)
(*                                                                         *)
(* A log entry is its kind; an event names the log entries it carries.     *)
(* Bodies are sizes; redaction is left out.                                *)
(***************************************************************************)
EXTENDS Integers, Sequences, SequencesExt

CONSTANTS
  MaxBytes,    \* MAX_BODY_BYTES
  Storage,     \* whether the browser's storage works
  MaxLog,      \* bound: entries a page logs
  MaxOwn,      \* bound: turn and page-error events of a page
  MaxToggles,  \* bound: times the tester flips the toggle
  MaxFlushes,  \* bound: pagehide events of a page
  MaxLoads     \* bound: page loads

ASSUME ShareAssumption ==
  /\ MaxBytes \in Nat \ {0}
  /\ Storage \in BOOLEAN
  /\ MaxLoads \in Nat \ {0}
  /\ {MaxLog, MaxOwn, MaxToggles, MaxFlushes} \subseteq Nat

VARIABLES
  log,          \* store.getLog(): the kinds of the entries
  enabled, disposed,
  sentEntries,  \* entries of the log already queued
  seq, queue,
  timer,        \* "off", "armed", or "fired" while its flush has not begun
  flushes,      \* flushes chained and not begun
  batch,        \* events of the flush under way; the first one is being posted
  session,      \* the session id of this page load
  load,         \* page loads so far
  private,      \* history: entries this page logged while sharing was off
  posted,       \* history: every event this page handed to fetch, in order
  lastSeq,      \* history: of each session, the highest seq earlier pages posted
  own, toggles, hides  \* counters of the bounds

vars == <<log, enabled, disposed, sentEntries, seq, queue, timer, flushes, batch,
          session, load, private, posted, lastSeq, own, toggles, hides>>

EntryKind == {"command", "resultReceived", "errorRaised"}

\* The serialized size of an entry: a resultReceived carries its status only.
Bytes(kind) == CASE kind = "resultReceived" -> 1
                 [] kind = "errorRaised" -> 2
                 [] kind = "command" -> 3

\* "own": a copilot_turn, or an error of the page itself; neither comes from the log.
EventKind == {"commands", "result", "error", "own"}

Index == 1 .. MaxLog

Event == [kind : EventKind, seq : Nat, session : 1 .. MaxLoads, entries : Seq(Index)]

TypeOK ==
  /\ log \in Seq(EntryKind) /\ Len(log) <= MaxLog
  /\ enabled \in BOOLEAN /\ disposed \in BOOLEAN
  /\ sentEntries \in 0 .. Len(log)
  /\ seq \in Nat
  /\ \A e \in ToSet(queue) \cup ToSet(batch) \cup ToSet(posted) : e \in Event
  /\ timer \in {"off", "armed", "fired"}
  /\ flushes \in Nat
  /\ load \in 1 .. MaxLoads /\ session \in 1 .. load
  /\ private \subseteq 1 .. Len(log)
  /\ lastSeq \in [1 .. MaxLoads -> Nat]

\* createSessionShare on the first page.
Init ==
  /\ log = <<>> /\ sentEntries = 0 /\ seq = 0 /\ queue = <<>> /\ batch = <<>>
  /\ timer = "off" /\ flushes = 0 /\ enabled \in BOOLEAN /\ disposed = FALSE
  /\ load = 1 /\ session = 1 /\ private = {} /\ own = 0 /\ hides = 0
  /\ posted = <<>> /\ lastSeq = [id \in 1 .. MaxLoads |-> 0] /\ toggles = 0

-----------------------------------------------------------------------------
(* Queueing *)

Listening == enabled /\ ~disposed

\* schedule: a timer set and not yet begun serves for the new event too.
Schedule(now) == IF Listening /\ now = "off" THEN "armed" ELSE now

EventOf(kind, entries, number) ==
  [kind |-> kind, seq |-> number, session |-> session, entries |-> entries]

\* enqueue of several payloads [kind, entries], numbered from seq on.
Numbered(payloads) ==
  [i \in DOMAIN payloads |-> EventOf(payloads[i].kind, payloads[i].entries, seq + i)]

\* Whether the entries lo .. hi of the log are small enough for one body.
Fits(lo, hi) == MapThenSumSet(LAMBDA i : Bytes(log[i]), lo .. hi) <= MaxBytes

\* chunkEntries: the chunks of the entries from + 1 .. upTo, the c-th of them
\* cut[c] + 1 .. cut[c + 1].  An entry joins the chunk before it when it fits in; one too
\* large for any body is a chunk of its own.
Greedy(cut, from, upTo) ==
  /\ cut[1] = from /\ cut[Len(cut)] = upTo
  /\ \A c \in 1 .. Len(cut) - 1 :
       /\ cut[c] < cut[c + 1]
       /\ \A i \in cut[c] + 2 .. cut[c + 1] : Fits(cut[c] + 1, i)
       /\ c + 1 < Len(cut) => ~Fits(cut[c] + 1, cut[c + 1] + 1)

Cuts(from, upTo) == UNION {[1 .. n -> from .. upTo] : n \in 1 .. upTo - from + 1}

ChunkEntries(from, upTo) ==
  LET cut == CHOOSE cut \in Cuts(from, upTo) : Greedy(cut, from, upTo)
  IN  [c \in 1 .. Len(cut) - 1 |-> [j \in 1 .. cut[c + 1] - cut[c] |-> cut[c] + j]]

\* The entries of one kind among those from + 1 .. upTo, in the order of the log.
OfKind(kind, from, upTo) ==
  LET found == {i \in from + 1 .. upTo : log[i] = kind}
      n == Cardinality(found)
  IN  CHOOSE s \in [1 .. n -> found] : \A i, j \in 1 .. n : i < j => s[i] < s[j]

Payload(kind, entries) == [kind |-> kind, entries |-> entries]

\* What drainLog makes of the entries from + 1 .. upTo: the commands in chunks, an event
\* for every error, one for the newest Result.
Drained(from, upTo) ==
  LET commands == ChunkEntries(from, upTo)
      errors == OfKind("errorRaised", from, upTo)
      results == OfKind("resultReceived", from, upTo)
  IN  [i \in DOMAIN commands |-> Payload("commands", commands[i])]
      \o [i \in DOMAIN errors |-> Payload("error", <<errors[i]>>)]
      \o (IF results = <<>> THEN <<>> ELSE <<Payload("result", <<Last(results)>>)>>)

\* A turn that ended or failed (attachCopilot), or an uncaught page error.
OwnEvent ==
  /\ own < MaxOwn /\ own' = own + 1
  /\ IF Listening
     THEN /\ seq' = seq + 1
          /\ queue' = Append(queue, EventOf("own", <<>>, seq + 1))
          /\ timer' = Schedule(timer)
     ELSE UNCHANGED <<seq, queue, timer>>
  /\ UNCHANGED <<log, enabled, disposed, sentEntries, flushes, batch, session, load,
                 private, posted, lastSeq, toggles, hides>>

\* The store logs a command and notifies; a disposed share is unsubscribed.
LogEntry(kind) ==
  /\ Len(log) < MaxLog
  /\ log' = Append(log, kind)
  /\ private' = IF enabled THEN private ELSE private \cup {Len(log')}
  /\ timer' = Schedule(timer)
  /\ UNCHANGED <<enabled, disposed, sentEntries, seq, queue, flushes, batch, session,
                 load, posted, lastSeq, own, toggles, hides>>

-----------------------------------------------------------------------------
(* Sending *)

\* The debounce timer: its flush joins the chain; the handle is cleared when it begins.
Fire ==
  /\ timer = "armed" /\ ~disposed
  /\ timer' = "fired" /\ flushes' = flushes + 1
  /\ UNCHANGED <<log, enabled, disposed, sentEntries, seq, queue, batch, session, load,
                 private, posted, lastSeq, own, toggles, hides>>

PageHide ==
  /\ hides < MaxFlushes /\ ~disposed
  /\ hides' = hides + 1 /\ flushes' = flushes + 1
  /\ UNCHANGED <<log, enabled, disposed, sentEntries, seq, queue, timer, batch, session,
                 load, private, posted, lastSeq, own, toggles>>

\* Slip: drainLog reads one entry ahead of the log.
ReadAhead == Len(log) + 1

\* Slip: drainLog forgets what it has read.
ReadNothing == sentEntries

\* How far the log has been read when drainLog returns.
ReadUpTo == IF enabled THEN Len(log) ELSE sentEntries

\* Slip: the handle of a timer that has fired is kept.
KeptTimer == timer

\* The timer a flush leaves, when drainLog queues nothing.
Cleared == "off"

\* sendQueued: the next flush of the chain reads the log, takes the queue over and posts
\* the first event.
SendQueued ==
  LET events == IF enabled THEN Numbered(Drained(sentEntries, Len(log))) ELSE <<>>
      added == IF disposed THEN <<>> ELSE events
      taken == queue \o added
  IN
  /\ flushes > 0 /\ batch = <<>>
  /\ flushes' = flushes - 1
  /\ sentEntries' = ReadUpTo
  /\ seq' = seq + Len(added)
  /\ timer' = IF added = <<>> THEN Cleared ELSE Schedule(Cleared)
  /\ queue' = <<>>
  /\ batch' = taken
  /\ posted' = IF taken = <<>> THEN posted ELSE Append(posted, Head(taken))
  /\ UNCHANGED <<log, enabled, disposed, session, load, private, lastSeq, own, toggles, hides>>

\* The post of the first event is answered, or fails: either way the next one follows.
Posted ==
  /\ batch # <<>>
  /\ batch' = Tail(batch)
  /\ posted' = IF Len(batch) = 1 THEN posted ELSE Append(posted, batch[2])
  /\ UNCHANGED <<log, enabled, disposed, sentEntries, seq, queue, timer, flushes,
                 session, load, private, lastSeq, own, toggles, hides>>

-----------------------------------------------------------------------------
(* The tester *)

\* Slip: the log is picked up where sharing left it.
SkippedNone == sentEntries

\* Entries of the log the toggle passes over.
SkippedUpTo == Len(log)

\* The toggle of the rail: what was logged up to now is not sent any more.
SetEnabled(on) ==
  /\ on # enabled
  /\ toggles < MaxToggles /\ toggles' = toggles + 1
  /\ enabled' = on
  /\ sentEntries' = SkippedUpTo
  /\ queue' = IF on THEN queue ELSE <<>>
  /\ UNCHANGED <<log, disposed, seq, timer, flushes, batch, session, load, private,
                 posted, lastSeq, own, hides>>

Dispose ==
  /\ ~disposed /\ disposed' = TRUE
  /\ queue' = <<>>
  /\ UNCHANGED <<log, enabled, sentEntries, seq, timer, flushes, batch, session, load,
                 private, posted, lastSeq, own, toggles, hides>>

\* sessionIdFor: the id in sessionStorage, which a reload keeps; a random one when
\* storage is blocked.
SessionIdFor(number) == IF Storage THEN session ELSE number

\* The page goes away with what it had not posted; the toggle persists (loadSharePreference).
Reload ==
  /\ load < MaxLoads
  /\ load' = load + 1 /\ session' = SessionIdFor(load + 1)
  /\ log' = <<>> /\ sentEntries' = 0 /\ seq' = 0 /\ queue' = <<>> /\ batch' = <<>>
  /\ timer' = "off" /\ flushes' = 0 /\ disposed' = FALSE
  /\ private' = {} /\ posted' = <<>>
  /\ lastSeq' = [lastSeq EXCEPT ![session] = IF posted = <<>> THEN @ ELSE Last(posted).seq]
  /\ UNCHANGED <<enabled, own, toggles, hides>>

System == Fire \/ SendQueued \/ Posted

Environment ==
  \/ \E kind \in EntryKind : LogEntry(kind)
  \/ OwnEvent
  \/ PageHide
  \/ \E on \in BOOLEAN : SetEnabled(on)
  \/ Dispose
  \/ Reload

Next == System \/ Environment

\* Timers fire, promise callbacks run, a fetch is answered or fails.
Fairness == WF_vars(Fire) /\ WF_vars(SendQueued) /\ WF_vars(Posted)

Spec == Init /\ [][Next]_vars /\ Fairness

-----------------------------------------------------------------------------
(* Properties *)

\* What this page has posted, is posting and will post, in order.  The first event of a
\* batch is already in the hands of fetch.
Pipeline ==
  posted \o (IF batch = <<>> THEN <<>> ELSE Tail(batch)) \o queue

(***************************************************************************)
(* The comment on the chain of flushes: events leave in the order of their *)
(* seq, however timer, pagehide and toggle interleave; and a log entry is  *)
(* in at most one batch, never reported twice.                             *)
(***************************************************************************)
OnceInOrder ==
  \A j \in DOMAIN Pipeline : \A i \in 1 .. j - 1 :
    /\ Pipeline[i].seq < Pipeline[j].seq
    /\ Pipeline[i].kind = Pipeline[j].kind =>
         \A a \in ToSet(Pipeline[i].entries), b \in ToSet(Pipeline[j].entries) : a < b

(***************************************************************************)
(* "Entries logged while sharing was off are not sent retroactively", and  *)
(* an event queued but not under way when the tester switches off is not   *)
(* sent either, also when sharing is on again by the time of the flush.    *)
(* A batch that a flush has taken is under way: it is still posted.        *)
(***************************************************************************)
OffIsPrivate ==
  /\ ~enabled => queue = <<>>
  /\ \A j \in DOMAIN Pipeline : ToSet(Pipeline[j].entries) \cap private = {}

\* An entry is in a posted batch; an error in an event of its own too, a Result in the
\* event of itself or of a newer one.
Reported(i) ==
  LET sent(kind) == UNION {ToSet(e.entries) : e \in
                       {f \in ToSet(posted) : f.kind = kind}}
  IN  /\ i \in sent("commands")
      /\ log[i] = "errorRaised" => i \in sent("error")
      /\ log[i] = "resultReceived" => \E j \in sent("result") : j >= i

(***************************************************************************)
(* What is logged while sharing is on is reported, unless the tester       *)
(* switches off, or the page goes, before it is: no interleaving of timer, *)
(* flush and log strands an entry.                                         *)
(***************************************************************************)
EntriesAreReported ==
  \A i \in Index :
    (enabled /\ ~disposed /\ i \in sentEntries + 1 .. Len(log))
      ~> (~enabled \/ disposed \/ i \notin DOMAIN log \/ Reported(i))

(***************************************************************************)
(* deploy/sessions.py prints a session in the order of its seq numbers,    *)
(* and cloudrun.md says the id is one of a page load: in the order of seq, *)
(* a session's events are in the order they were sent.                     *)
(***************************************************************************)
SeqOrdersTheSession == \A i \in DOMAIN posted : posted[i].seq > lastSeq[session]
=============================================================================
