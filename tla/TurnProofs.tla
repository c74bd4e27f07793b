------------------------------ MODULE TurnProofs ------------------------------
(***************************************************************************)
(* The Copilot's transcripts, proved for every number of plans, turns,     *)
(* messages and iterations.                                                *)
(*                                                                         *)
(* The argument.  A running turn was sent under the plan that is loaded    *)
(* and is the last one of planOf, so whatever the loop appends is about    *)
(* that plan, and the commit goes under it; a plan that comes on screen    *)
(* meanwhile is not loaded before the turn ends.  A transcript can be cut  *)
(* before a human's message and after an answered call, nowhere else: that *)
(* is where the trim and DropDangling cut.  The runner has as many turn    *)
(* starts as the screen and says everything of the running turn after the  *)
(* last of them, so the trim, which cuts before a start, counts the starts *)
(* it removes and leaves that turn alone.                                  *)
(***************************************************************************)
EXTENDS Turn, SequenceTheorems, FiniteSetTheorems, WellFoundedInduction, TLAPS

\* Every message is of a turn that was sent about plan p; plans are those of the turns.
Owned(messages, p, plans) ==
  \A i \in DOMAIN messages :
    messages[i].turn \in DOMAIN plans /\ plans[messages[i].turn] = p

\* A transcript that can be replayed but for tool calls at its end.
Linked(messages) ==
  /\ messages # <<>> => messages[1].role = "user"
  /\ \A i \in DOMAIN messages :
       /\ messages[i].role = "tool_use" =>
            \/ i = Len(messages)
            \/ /\ i < Len(messages)
               /\ messages[i + 1] = Result(messages[i])
       /\ messages[i].role = "tool_result" => i > 1 /\ messages[i - 1].role = "tool_use"

Dangling(messages) == messages # <<>> /\ messages[Len(messages)].role = "tool_use"

\* The running turn is the last one sent, about the loaded plan.
RunningInv ==
  running => /\ start \in Plans /\ start = loaded
             /\ planOf # <<>> /\ planOf[Len(planOf)] = start
             /\ runner # <<>> /\ Owned(runner, start, planOf)
             /\ Linked(runner)
             /\ phase # "tools" => ~ Dangling(runner) /\ iterations < MaxIterations
             /\ phase = "tools" =>
                  Dangling(runner) /\ runner[Len(runner)].turn = Len(planOf)

GhostInv ==
  ghost # NoGhost => /\ ghost.start \in Plans
                     /\ Dangling(ghost.messages) /\ Linked(ghost.messages)
                     /\ Owned(ghost.messages, ghost.start, planOf)

ShownInv ==
  /\ Owned(shown.messages, loaded, planOf)
  /\ ~ running => Replayable(shown.messages)

StoredInv ==
  \A p \in Plans : Owned(stored[p].messages, p, planOf) /\ Replayable(stored[p].messages)

IInv ==
  /\ TypeOK
  /\ Len(planOf) <= MaxTurns
  /\ RunningInv /\ GhostInv /\ ShownInv /\ StoredInv

-----------------------------------------------------------------------------
(* The least and the greatest element of a set of numbers *)

LEMMA LeastExists ==
  ASSUME NEW S \in SUBSET Nat, S # {}
  PROVE  \E x \in S : \A y \in S : x <= y
<1> DEFINE R == {ss \in Nat \X Nat : ss[1] < ss[2]}
<1>1. IsWellFoundedOn(R, Nat)
  BY NatLessThanWellFounded DEF OpToRel
<1>2. PICK x \in S : \A y \in S : ~ (<<y, x>> \in R)
  <2> HIDE DEF R
  <2>. QED BY <1>1, WFMin
<1>3. \A y \in S : x <= y
  <2> TAKE y \in S
  <2>1. <<y, x>> \in Nat \X Nat /\ ~ (y < x)
    BY <1>2
  <2>2. x \in Nat /\ y \in Nat
    OBVIOUS
  <2>. QED BY <2>1, <2>2
<1>. QED BY <1>3

LEMMA LeastIs ==
  ASSUME NEW S \in SUBSET Nat, S # {}
  PROVE  Min(S) \in S
BY LeastExists DEF Min

LEMMA GreatestIs ==
  ASSUME NEW S \in SUBSET Nat, S # {}, NEW n \in Nat, \A y \in S : y <= n
  PROVE  Max(S) \in S
<1> DEFINE T == {m \in 0 .. n : n - m \in S}
<1>1. T \in SUBSET Nat /\ T # {}
  <2>1. PICK y \in S : TRUE
    OBVIOUS
  <2>2. n - y \in 0 .. n /\ n - (n - y) = y
    OBVIOUS
  <2>3. n - y \in T
    BY <2>2
  <2>4. T \in SUBSET Nat
    OBVIOUS
  <2>. QED BY <2>3, <2>4
<1>2. PICK m \in T : \A k \in T : m <= k
  <2> HIDE DEF T
  <2>. QED BY <1>1, LeastExists
<1>3. \A y \in S : n - m >= y
  <2> TAKE y \in S
  <2>1. n - y \in 0 .. n /\ n - (n - y) = y
    OBVIOUS
  <2>2. n - y \in T
    BY <2>1
  <2>3. m <= n - y /\ m \in Nat /\ y \in Nat
    BY <1>2, <2>2
  <2>. QED BY <2>3
<1>. QED BY <1>2, <1>3 DEF Max

-----------------------------------------------------------------------------
(* What a commit keeps *)

\* A transcript cut at the start of a turn is one.
LEMMA CutLemma ==
  ASSUME NEW messages \in Seq(Message), NEW cut \in {1} \cup Cuts(messages)
  PROVE  LET kept == SubSeq(messages, cut, Len(messages))
         IN  /\ kept \in Seq(Message)
             /\ \A i \in DOMAIN kept : \E j \in DOMAIN messages : kept[i] = messages[j]
             /\ Replayable(messages) => Replayable(kept)
<1> DEFINE n == Len(messages)
           kept == SubSeq(messages, cut, n)
<1>1. n \in Nat /\ DOMAIN messages = 1 .. n /\ cut \in 1 .. n + 1
  BY DEF Cuts
<1>2. /\ kept \in Seq(Message) /\ Len(kept) = n - cut + 1
      /\ DOMAIN kept = 1 .. n - cut + 1
      /\ \A i \in DOMAIN kept : kept[i] = messages[cut + i - 1]
  BY <1>1
<1> HIDE DEF kept
<1>3. \A i \in DOMAIN kept : cut + i - 1 \in DOMAIN messages
  BY <1>1, <1>2
<1>4. ASSUME Replayable(messages) PROVE Replayable(kept)
  <2>1. kept # <<>> => kept[1].role = "user"
    <3> SUFFICES ASSUME kept # <<>> PROVE kept[1].role = "user"
      OBVIOUS
    <3>1. 1 \in DOMAIN kept /\ kept[1] = messages[cut]
      BY <1>1, <1>2
    <3>2. CASE cut = 1
      BY <1>1, <1>3, <1>4, <3>1, <3>2 DEF Replayable
    <3>3. CASE cut \in Cuts(messages)
      BY <3>1, <3>3 DEF Cuts, IsTurnStart
    <3>. QED BY <3>2, <3>3
  <2>2. ASSUME NEW i \in DOMAIN kept, kept[i].role = "tool_use"
        PROVE  i < Len(kept) /\ kept[i + 1] = Result(kept[i])
    <3>1. /\ cut + i - 1 < n
          /\ messages[(cut + i - 1) + 1] = Result(messages[cut + i - 1])
      BY <1>2, <1>3, <1>4, <2>2 DEF Replayable
    <3>2. i < Len(kept) /\ i + 1 \in DOMAIN kept /\ cut + (i + 1) - 1 = (cut + i - 1) + 1
      BY <1>1, <1>2, <3>1
    <3>. QED BY <1>2, <3>1, <3>2
  <2>3. ASSUME NEW i \in DOMAIN kept, kept[i].role = "tool_result"
        PROVE  i > 1 /\ kept[i - 1].role = "tool_use"
    <3>1. cut + i - 1 > 1 /\ messages[(cut + i - 1) - 1].role = "tool_use"
      BY <1>2, <1>3, <1>4, <2>3 DEF Replayable
    <3>2. i > 1
      <4>1. i # 1
        <5> SUFFICES ASSUME i = 1 PROVE FALSE
          OBVIOUS
        <5>1. kept[1].role = "user"
          BY <1>2, <2>1
        <5>. QED BY <2>3, <5>1
      <4>. QED BY <1>1, <1>2, <4>1
    <3>3. i - 1 \in DOMAIN kept /\ cut + (i - 1) - 1 = (cut + i - 1) - 1
      BY <1>1, <1>2, <3>2
    <3>. QED BY <1>2, <3>1, <3>2, <3>3
  <2>. QED BY <2>1, <2>2, <2>3 DEF Replayable
<1>. QED BY <1>2, <1>3, <1>4 DEF kept

\* trimTranscript keeps a suffix that starts a turn.
LEMMA TrimLemma ==
  ASSUME NEW messages \in Seq(Message), NEW dropped \in Nat
  PROVE  LET kept == TrimTranscript([messages |-> messages, dropped |-> dropped])
         IN  /\ kept \in Transcript
             /\ \A i \in DOMAIN kept.messages :
                  \E j \in DOMAIN messages : kept.messages[i] = messages[j]
             /\ Replayable(messages) => Replayable(kept.messages)
<1> DEFINE t == [messages |-> messages, dropped |-> dropped]
           cuts == {1} \cup Cuts(messages)
           fits(i) == Len(messages) - i + 1 <= MaxMessages
           fitting == {i \in cuts : fits(i)}
           cut == IF \E i \in cuts : fits(i) THEN Min(fitting) ELSE Max(cuts)
           gone == {i \in cuts : i < cut}
<1>1. cuts \in SUBSET Nat /\ cuts # {} /\ Len(messages) + 1 \in Nat
      /\ \A i \in cuts : i <= Len(messages) + 1
  BY DEF Cuts
<1>2. cut \in cuts
  <2>1. CASE \E i \in cuts : fits(i)
    <3>1. fitting \in SUBSET Nat /\ fitting # {} /\ cut = Min(fitting)
      BY <1>1, <2>1
    <3> HIDE DEF fitting, cut, cuts
    <3>2. cut \in fitting
      BY <3>1, LeastIs
    <3>. QED BY <3>2 DEF fitting
  <2>2. CASE ~ \E i \in cuts : fits(i)
    <3>1. cut = Max(cuts)
      BY <2>2
    <3> HIDE DEF cuts, cut
    <3>. QED BY <1>1, <3>1, GreatestIs
  <2>. QED BY <2>1, <2>2
<1>3. Cardinality(gone) \in Nat
  <2>1. gone \in SUBSET (0 .. Len(messages) + 1)
    BY <1>1
  <2>2. IsFiniteSet(0 .. Len(messages) + 1)
    BY <1>1, FS_Interval
  <2> HIDE DEF gone
  <2>. QED BY <2>1, <2>2, FS_Subset, FS_CardinalityType
<1> DEFINE suffix == SubSeq(messages, cut, Len(messages))
           count == dropped + Cardinality(gone)
<1>4. TrimTranscript(t) = [messages |-> suffix, dropped |-> count]
  BY DEF TrimTranscript
<1> HIDE DEF cut, gone
<1>5. /\ suffix \in Seq(Message)
      /\ \A i \in DOMAIN suffix : \E j \in DOMAIN messages : suffix[i] = messages[j]
      /\ Replayable(messages) => Replayable(suffix)
  BY <1>2, CutLemma
<1>6. count \in Nat
  BY <1>3
<1> HIDE DEF suffix, count
<1>7. TrimTranscript(t).messages = suffix /\ TrimTranscript(t) \in Transcript
  BY <1>4, <1>5, <1>6 DEF Transcript
<1> HIDE DEF t
<1>. QED BY <1>5, <1>7 DEF t

\* dropDangling leaves no call without its results.
LEMMA DropLemma ==
  ASSUME NEW messages \in Seq(Message)
  PROVE  /\ DropDangling(messages) \in Seq(Message)
         /\ \A i \in DOMAIN DropDangling(messages) :
              \E j \in DOMAIN messages : DropDangling(messages)[i] = messages[j]
         /\ Linked(messages) => Replayable(DropDangling(messages))
<1> DEFINE n == Len(messages)
           D == DropDangling(messages)
<1>1. n \in Nat /\ DOMAIN messages = 1 .. n
  OBVIOUS
<1>2. CASE ~ Dangling(messages)
  <2>1. D = messages
    BY <1>2 DEF DropDangling, Dangling, Last
  <2>2. ASSUME Linked(messages) PROVE Replayable(messages)
    BY <1>1, <1>2, <2>2 DEF Linked, Replayable, Dangling
  <2>. QED BY <2>1, <2>2
<1>3. CASE Dangling(messages)
  <2>1. D = SubSeq(messages, 1, n - 1) /\ n > 0
    BY <1>1, <1>3 DEF DropDangling, Dangling, Last, Front
  <2>2. /\ D \in Seq(Message) /\ Len(D) = n - 1 /\ DOMAIN D = 1 .. n - 1
        /\ \A i \in DOMAIN D : D[i] = messages[i]
    BY <1>1, <2>1
  <2> HIDE DEF D
  <2>3. ASSUME Linked(messages) PROVE Replayable(D)
    <3>1. D # <<>> => D[1].role = "user"
      BY <1>1, <2>1, <2>2, <2>3 DEF Linked
    <3>2. ASSUME NEW i \in DOMAIN D, D[i].role = "tool_use"
          PROVE  i < Len(D) /\ D[i + 1] = Result(D[i])
      <4>1. i < n /\ messages[i + 1] = Result(messages[i])
        BY <1>1, <2>2, <2>3, <3>2 DEF Linked
      <4>2. messages[i] \in Message /\ i \in 1 .. n
        BY <1>1, <2>2
      <4>3. messages[i + 1].role = "tool_result"
        BY <4>1, <4>2 DEF Message, Role, Result
      <4>4. i + 1 # n
        BY <1>3, <4>3 DEF Dangling
      <4>. QED BY <1>1, <2>2, <4>1, <4>2, <4>4
    <3>3. ASSUME NEW i \in DOMAIN D, D[i].role = "tool_result"
          PROVE  i > 1 /\ D[i - 1].role = "tool_use"
      <4>1. i > 1 /\ messages[i - 1].role = "tool_use"
        BY <1>1, <2>2, <2>3, <3>3 DEF Linked
      <4>2. i - 1 \in DOMAIN D
        BY <1>1, <2>2, <4>1
      <4>. QED BY <2>2, <4>1, <4>2
    <3>. QED BY <3>1, <3>2, <3>3 DEF Replayable
  <2>. QED BY <1>1, <2>2, <2>3 DEF D
<1>. QED BY <1>2, <1>3

LEMMA KeptLemma ==
  ASSUME NEW messages \in Seq(Message), NEW dropped \in Nat, Linked(messages), NEW p, NEW plans,
         Owned(messages, p, plans)
  PROVE  /\ Kept(messages, dropped) \in Transcript
         /\ Owned(Kept(messages, dropped).messages, p, plans)
         /\ Replayable(Kept(messages, dropped).messages)
<1> DEFINE D == DropDangling(messages)
           K == TrimTranscript([messages |-> D, dropped |-> dropped])
<1>1. D \in Seq(Message) /\ Replayable(D)
      /\ \A i \in DOMAIN D : \E j \in DOMAIN messages : D[i] = messages[j]
  BY DropLemma
<1> HIDE DEF D
<1>2. K \in Transcript /\ Replayable(K.messages)
      /\ \A i \in DOMAIN K.messages : \E j \in DOMAIN D : K.messages[i] = D[j]
  BY <1>1, TrimLemma
<1>3. Kept(messages, dropped) = K
  BY DEF Kept, D
<1> HIDE DEF K
<1>4. Owned(K.messages, p, plans)
  BY <1>1, <1>2 DEF Owned
<1>. QED BY <1>2, <1>3, <1>4

-----------------------------------------------------------------------------
(* What the loop appends *)

LEMMA EmptyLemma ==
  ASSUME NEW p, NEW plans
  PROVE  Owned(<<>>, p, plans) /\ Replayable(<<>>) /\ <<>> \in Seq(Message)
BY DEF Owned, Replayable

LEMMA OwnedAppend ==
  ASSUME NEW messages \in Seq(Message), NEW m \in Message, NEW p, NEW plans,
         Owned(messages, p, plans), m.turn \in DOMAIN plans, plans[m.turn] = p
  PROVE  Owned(Append(messages, m), p, plans) /\ Append(messages, m) \in Seq(Message)
BY DEF Owned

\* Anything but results may follow an answered message, an empty transcript only the human.
LEMMA LinkedAppend ==
  ASSUME NEW messages \in Seq(Message), NEW m \in Message,
         Linked(messages), ~ Dangling(messages), m.role # "tool_result",
         messages = <<>> => m.role = "user"
  PROVE  Linked(Append(messages, m)) /\ (Dangling(Append(messages, m)) <=> m.role = "tool_use")
<1> DEFINE n == Len(messages)
           more == Append(messages, m)
<1>1. /\ n \in Nat /\ DOMAIN messages = 1 .. n
      /\ more \in Seq(Message) /\ Len(more) = n + 1 /\ DOMAIN more = 1 .. n + 1
      /\ \A i \in 1 .. n : more[i] = messages[i]
      /\ more[n + 1] = m
  OBVIOUS
<1> HIDE DEF more
<1>2. more[1].role = "user"
  <2>1. CASE n = 0
    BY <1>1, <2>1
  <2>2. CASE n # 0
    BY <1>1, <2>2 DEF Linked
  <2>. QED BY <2>1, <2>2
<1>3. ASSUME NEW i \in DOMAIN more
      PROVE  /\ more[i].role = "tool_use" =>
                   \/ i = Len(more)
                   \/ i < Len(more) /\ more[i + 1] = Result(more[i])
             /\ more[i].role = "tool_result" => i > 1 /\ more[i - 1].role = "tool_use"
  <2>1. CASE i = n + 1
    BY <1>1, <2>1
  <2>2. CASE i \in 1 .. n
    <3>1. more[i].role = "tool_use" => i < n /\ messages[i + 1] = Result(messages[i])
      BY <1>1, <2>2 DEF Linked, Dangling
    <3>2. more[i].role = "tool_result" => i > 1 /\ messages[i - 1].role = "tool_use"
      BY <1>1, <2>2 DEF Linked
    <3>. QED BY <1>1, <2>2, <3>1, <3>2
  <2>. QED BY <1>1, <2>1, <2>2
<1>4. Linked(more)
  BY <1>2, <1>3 DEF Linked
<1>5. Dangling(more) <=> m.role = "tool_use"
  BY <1>1 DEF Dangling
<1>. QED BY <1>4, <1>5 DEF more

\* Results may follow the calls they answer.
LEMMA ResultAppend ==
  ASSUME NEW messages \in Seq(Message), Linked(messages), Dangling(messages)
  PROVE  LET more == Append(messages, Result(messages[Len(messages)]))
         IN  Linked(more) /\ ~ Dangling(more) /\ more \in Seq(Message)
<1> DEFINE n == Len(messages)
           m == Result(messages[n])
           more == Append(messages, m)
<1>1. n \in Nat \ {0} /\ DOMAIN messages = 1 .. n /\ messages[n] \in Message
  BY DEF Dangling
<1>2. m \in Message /\ m.role = "tool_result"
  BY <1>1 DEF Message, Role, Result
<1>3. /\ more \in Seq(Message) /\ Len(more) = n + 1 /\ DOMAIN more = 1 .. n + 1
      /\ \A i \in 1 .. n : more[i] = messages[i]
      /\ more[n + 1] = m
  BY <1>1, <1>2
<1> HIDE DEF more, m
<1>4. more[1].role = "user" /\ more[n].role = "tool_use"
  BY <1>1, <1>3 DEF Linked, Dangling
<1>5. ASSUME NEW i \in DOMAIN more
      PROVE  /\ more[i].role = "tool_use" =>
                   i < Len(more) /\ more[i + 1] = Result(more[i])
             /\ more[i].role = "tool_result" => i > 1 /\ more[i - 1].role = "tool_use"
  <2>1. CASE i = n + 1
    BY <1>1, <1>2, <1>3, <1>4, <2>1
  <2>2. CASE i = n
    BY <1>1, <1>3, <1>4, <2>2 DEF m
  <2>3. CASE i \in 1 .. n - 1
    <3>1. more[i].role = "tool_use" => messages[i + 1] = Result(messages[i])
      BY <1>1, <1>3, <2>3 DEF Linked
    <3>2. more[i].role = "tool_result" => i > 1 /\ messages[i - 1].role = "tool_use"
      BY <1>1, <1>3, <2>3 DEF Linked
    <3>. QED BY <1>1, <1>3, <2>3, <3>1, <3>2
  <2>. QED BY <1>1, <1>3, <2>1, <2>2, <2>3
<1>6. Linked(more) /\ ~ Dangling(more)
  BY <1>1, <1>2, <1>3, <1>4, <1>5 DEF Linked, Dangling
<1>. QED BY <1>3, <1>6 DEF more, m

\* A transcript without unanswered calls at its end can be replayed, and the other way.
LEMMA ReplayableLinked ==
  ASSUME NEW messages \in Seq(Message)
  PROVE  Replayable(messages) <=> Linked(messages) /\ ~ Dangling(messages)
<1>1. Len(messages) \in Nat /\ DOMAIN messages = 1 .. Len(messages)
  OBVIOUS
<1>. QED BY <1>1 DEF Replayable, Linked, Dangling

LEMMA LoadLemma ==
  ASSUME TypeOK, StoredInv, NEW p \in Plans
  PROVE  /\ LoadTranscript(p) \in Transcript
         /\ Owned(LoadTranscript(p).messages, p, planOf)
         /\ Replayable(LoadTranscript(p).messages)
<1>1. CASE stored[p] = Nothing
  BY <1>1, EmptyLemma DEF LoadTranscript, EmptyTranscript, Transcript
<1>2. CASE stored[p] # Nothing
  BY <1>2 DEF LoadTranscript, TypeOK, StoredInv
<1>. QED BY <1>1, <1>2

-----------------------------------------------------------------------------
(* The initial state *)

LEMMA InitInv == Init => IInv
<1> SUFFICES ASSUME Init PROVE IInv
  OBVIOUS
<1> USE TurnAssumption
<1>1. TypeOK
  <2>1. shown \in Transcript /\ stored \in [Plans -> Transcript \cup {Nothing}]
    BY EmptyLemma DEF Init, Transcript, EmptyTranscript
  <2>2. ghost \in [start : Screen, messages : Seq(Message), dropped : Nat]
    BY EmptyLemma DEF Init, NoGhost, Screen
  <2>3. runner \in Seq(Message) /\ planOf \in Seq(Plans)
    BY EmptyLemma, EmptySeq DEF Init
  <2>4. iterations \in 0 .. MaxIterations
    BY DEF Init
  <2>. QED BY <2>1, <2>2, <2>3, <2>4 DEF Init, TypeOK, Screen
<1>2. Len(planOf) <= MaxTurns /\ RunningInv /\ GhostInv
  BY DEF Init, RunningInv, GhostInv, running
<1>3. ShownInv
  BY EmptyLemma DEF Init, ShownInv, EmptyTranscript
<1>4. StoredInv
  BY EmptyLemma DEF Init, StoredInv, Nothing
<1>. QED BY <1>1, <1>2, <1>3, <1>4 DEF IInv

-----------------------------------------------------------------------------
(* The turn's own steps *)

\* A commit leaves its plan a transcript that can be replayed and is about it.
LEMMA CommitLemma ==
  ASSUME TypeOK, StoredInv, NEW p \in Plans, NEW messages \in Seq(Message),
         NEW dropped \in Nat, Linked(messages), Owned(messages, p, planOf),
         planOf' = planOf,
         \/ stored' = [stored EXCEPT ![p] = Kept(messages, dropped)]
         \/ UNCHANGED stored
  PROVE  StoredInv' /\ stored' \in [Plans -> Transcript \cup {Nothing}]
<1> DEFINE kept == Kept(messages, dropped)
<1>1. kept \in Transcript /\ Owned(kept.messages, p, planOf) /\ Replayable(kept.messages)
  BY KeptLemma
<1> HIDE DEF kept
<1>2. CASE stored' = [stored EXCEPT ![p] = kept]
  <2>1. stored' \in [Plans -> Transcript \cup {Nothing}]
    BY <1>1, <1>2 DEF TypeOK
  <2>2. \A q \in Plans : stored'[q] = IF q = p THEN kept ELSE stored[q]
    BY <1>2 DEF TypeOK
  <2>. QED BY <1>1, <2>1, <2>2 DEF StoredInv
<1>3. CASE UNCHANGED stored
  BY <1>3 DEF StoredInv, TypeOK
<1>. QED BY <1>2, <1>3 DEF kept

LEMMA FinishLemma ==
  ASSUME IInv, running, NEW messages \in Seq(Message), Linked(messages),
         Owned(messages, start, planOf), Finish(messages)
  PROVE  IInv'
<1> DEFINE kept == Kept(messages, shown.dropped)
<1>1. start \in Plans /\ start = loaded /\ shown.dropped \in Nat /\ shown' = kept
      /\ UNCHANGED <<screen, keyed, loaded, ghost, planOf>>
  BY DEF IInv, RunningInv, TypeOK, Transcript, Finish
<1>2. kept \in Transcript /\ Owned(kept.messages, start, planOf) /\ Replayable(kept.messages)
  BY <1>1, KeptLemma
<1> HIDE DEF kept
<1>3. \/ stored' = [stored EXCEPT ![start] = Kept(messages, shown.dropped)]
      \/ UNCHANGED stored
  BY DEF Finish, Save, CommitKey
<1>4. StoredInv' /\ stored' \in [Plans -> Transcript \cup {Nothing}]
  BY <1>1, <1>3, CommitLemma DEF IInv
<1>5. /\ phase' = "idle" /\ start' = NoPlan /\ runner' = <<>>
      /\ iterations' = 0 /\ attempt' = 0 /\ aborted' = FALSE
  BY DEF Finish, NoLoop
<1>6. TypeOK'
  <2>1. runner' \in Seq(Message) /\ iterations' \in 0 .. MaxIterations
    BY <1>5, EmptyLemma, TurnAssumption
  <2>. QED BY <1>1, <1>2, <1>4, <1>5, <2>1 DEF IInv, TypeOK, Screen
<1>7. RunningInv' /\ GhostInv' /\ Len(planOf') <= MaxTurns
  BY <1>1, <1>5 DEF IInv, RunningInv, GhostInv, running
<1>8. ShownInv'
  BY <1>1, <1>2 DEF ShownInv
<1>. QED BY <1>4, <1>6, <1>7, <1>8 DEF IInv

\* What the loop appends is of the running turn, hence about the plan it was sent under.
LEMMA TurnMessage ==
  ASSUME IInv, running, NEW role \in Role
  PROVE  /\ [role |-> role, turn |-> Len(planOf)] \in Message
         /\ Len(planOf) \in DOMAIN planOf /\ planOf[Len(planOf)] = start
         /\ runner \in Seq(Message) /\ runner # <<>> /\ start \in Plans
         /\ Linked(runner) /\ Owned(runner, start, planOf)
<1>1. planOf \in Seq(Plans) /\ planOf # <<>> /\ Len(planOf) <= MaxTurns
  BY DEF IInv, TypeOK, RunningInv
<1>2. Len(planOf) \in 1 .. MaxTurns /\ Len(planOf) \in DOMAIN planOf
  BY <1>1, TurnAssumption
<1>. QED BY <1>2 DEF IInv, TypeOK, RunningInv, Message

LEMMA ReceiveInv ==
  ASSUME IInv, NEW role \in {"reply", "tool_use"}, Receive(role)
  PROVE  IInv'
<1> DEFINE m == [role |-> role, turn |-> Len(planOf)]
           messages == Append(runner, m)
<1>1. running /\ phase = "calling"
  BY DEF Receive, running
<1>2. /\ m \in Message /\ m.turn \in DOMAIN planOf /\ planOf[m.turn] = start
      /\ runner \in Seq(Message) /\ runner # <<>> /\ start \in Plans
      /\ Linked(runner) /\ Owned(runner, start, planOf)
  BY <1>1, TurnMessage DEF Role
<1>3. ~ Dangling(runner) /\ m.role # "tool_result" /\ m.role = role
  BY <1>1 DEF IInv, RunningInv
<1>4. /\ messages \in Seq(Message) /\ Owned(messages, start, planOf)
      /\ Linked(messages) /\ (Dangling(messages) <=> role = "tool_use")
  BY <1>2, <1>3, OwnedAppend, LinkedAppend
<1>5. CASE role = "reply"
  <2>1. Finish(messages)
    BY <1>5 DEF Receive
  <2> HIDE DEF messages
  <2>. QED BY <1>1, <1>4, <2>1, FinishLemma
<1>6. CASE role = "tool_use"
  <2>1. /\ phase' = "tools" /\ runner' = messages
        /\ shown' = [shown EXCEPT !.messages = messages]
        /\ iterations' = iterations + 1
        /\ UNCHANGED <<screen, keyed, loaded, stored, start, attempt, aborted, ghost, planOf>>
    BY <1>6 DEF Receive, bounds
  <2>2. messages # <<>> /\ messages[Len(messages)] = m
    BY <1>2
  <2> HIDE DEF messages
  <2>3. iterations < MaxIterations
    BY <1>1 DEF IInv, RunningInv
  <2>4. TypeOK'
    <3>1. iterations' \in 0 .. MaxIterations
      BY <2>1, <2>3, TurnAssumption DEF IInv, TypeOK
    <3>2. shown' \in Transcript
      BY <1>4, <2>1 DEF IInv, TypeOK, Transcript
    <3>. QED BY <1>4, <2>1, <3>1, <3>2 DEF IInv, TypeOK
  <2>5. RunningInv'
    BY <1>1, <1>2, <1>4, <1>6, <2>1, <2>2 DEF IInv, RunningInv, running
  <2>6. GhostInv' /\ StoredInv' /\ Len(planOf') <= MaxTurns
    BY <2>1 DEF IInv, GhostInv, StoredInv
  <2>7. ShownInv'
    BY <1>1, <1>4, <2>1, <2>5 DEF IInv, ShownInv, RunningInv, running, TypeOK, Transcript
  <2>. QED BY <2>4, <2>5, <2>6, <2>7 DEF IInv
<1>. QED BY <1>5, <1>6

LEMMA RunToolsInv == ASSUME IInv, RunTools PROVE IInv'
<1> DEFINE m == [role |-> "tool_result", turn |-> Len(planOf)]
           messages == Append(runner, m)
<1>1. running /\ phase = "tools"
  BY DEF RunTools, running
<1>2. /\ m \in Message /\ m.turn \in DOMAIN planOf /\ planOf[m.turn] = start
      /\ runner \in Seq(Message) /\ runner # <<>> /\ start \in Plans
      /\ Linked(runner) /\ Owned(runner, start, planOf)
  BY <1>1, TurnMessage DEF Role
<1>3. Dangling(runner) /\ m = Result(runner[Len(runner)])
  BY <1>1 DEF IInv, RunningInv, Result
<1> HIDE DEF m
<1>4. /\ messages \in Seq(Message) /\ Owned(messages, start, planOf)
      /\ Linked(messages) /\ ~ Dangling(messages)
  BY <1>2, <1>3, OwnedAppend, ResultAppend
<1>5. messages # <<>>
  BY <1>2
<1> HIDE DEF messages
<1>6. CASE iterations = MaxIterations \/ aborted
  <2>1. Finish(messages)
    BY <1>6 DEF RunTools, messages, m
  <2>. QED BY <1>1, <1>4, <2>1, FinishLemma
<1>7. CASE ~ (iterations = MaxIterations \/ aborted)
  <2>1. /\ phase' = "calling" /\ runner' = messages
        /\ UNCHANGED <<screen, keyed, loaded, shown, stored, start, iterations, attempt, aborted,
                       ghost, planOf>>
    BY <1>7 DEF RunTools, messages, m, copilot
  <2>2. iterations < MaxIterations
    BY <1>7, TurnAssumption DEF IInv, TypeOK
  <2>3. TypeOK'
    BY <1>4, <2>1 DEF IInv, TypeOK
  <2>4. RunningInv'
    BY <1>1, <1>4, <1>5, <2>1, <2>2 DEF IInv, RunningInv, running
  <2>5. GhostInv' /\ StoredInv' /\ ShownInv' /\ Len(planOf') <= MaxTurns
    BY <1>1, <2>1 DEF IInv, GhostInv, StoredInv, ShownInv, running
  <2>. QED BY <2>3, <2>4, <2>5 DEF IInv
<1>. QED BY <1>6, <1>7

\* A turn that ends with what the runner holds.
LEMMA FinishRunner == ASSUME IInv, running, Finish(runner) PROVE IInv'
<1>1. runner \in Seq(Message) /\ Linked(runner) /\ Owned(runner, start, planOf)
  BY DEF IInv, TypeOK, RunningInv
<1>. QED BY <1>1, FinishLemma

LEMMA UnparseableInv == ASSUME IInv, Unparseable PROVE IInv'
<1>1. /\ phase = "calling" /\ phase' = "failed"
      /\ UNCHANGED <<screen, keyed, loaded, shown, stored, start, runner, iterations, attempt,
                     aborted, ghost, planOf>>
  BY DEF Unparseable, copilot
<1>. QED BY <1>1 DEF IInv, TypeOK, RunningInv, GhostInv, StoredInv, ShownInv, running

LEMMA ReissueInv == ASSUME IInv, Reissue PROVE IInv'
<1>1. running /\ phase = "failed"
  BY DEF Reissue, running
<1>2. CASE MayReissue
  <2>1. /\ phase' = "calling" /\ attempt' = 1 /\ iterations' = 0
        /\ UNCHANGED <<screen, keyed, loaded, shown, stored, start, runner, aborted, ghost, planOf>>
    BY <1>2 DEF Reissue, copilot
  <2>. QED BY <1>1, <2>1, TurnAssumption
           DEF IInv, TypeOK, RunningInv, GhostInv, StoredInv, ShownInv, running
<1>3. CASE ~ MayReissue
  BY <1>1, <1>3, FinishRunner DEF Reissue
<1>. QED BY <1>2, <1>3

LEMMA GhostEndsInv == ASSUME IInv, GhostEnds PROVE IInv'
<1> DEFINE old == ghost.messages
           m == [role |-> "tool_result", turn |-> Last(old).turn]
           results == Append(old, m)
<1>1. /\ ghost # NoGhost /\ ghost' = NoGhost
      /\ UNCHANGED <<screen, keyed, loaded, shown, phase, start, runner, iterations, attempt,
                     aborted, planOf>>
  BY DEF GhostEnds, copilot, loop
<1>2. /\ ghost.start \in Plans /\ ghost.dropped \in Nat /\ old \in Seq(Message)
      /\ Dangling(old) /\ Linked(old) /\ Owned(old, ghost.start, planOf)
  BY <1>1 DEF IInv, GhostInv, TypeOK
<1>3. /\ m = Result(old[Len(old)]) /\ m \in Message
      /\ m.turn \in DOMAIN planOf /\ planOf[m.turn] = ghost.start
  <2>1. Len(old) \in DOMAIN old
    BY <1>2 DEF Dangling
  <2>2. m = Result(old[Len(old)]) /\ m.turn = old[Len(old)].turn
    BY DEF Result, Last
  <2>3. m \in Message
    <3>1. old[Len(old)] \in Message
      BY <1>2, <2>1
    <3>2. old[Len(old)].turn \in 1 .. MaxTurns
      BY <3>1 DEF Message
    <3> HIDE DEF m
    <3>. QED BY <2>2, <3>2 DEF Message, Role, Result
  <2>. QED BY <1>2, <2>1, <2>2, <2>3 DEF Owned
<1> HIDE DEF m, old
<1>4. results \in Seq(Message) /\ Linked(results) /\ Owned(results, ghost.start, planOf)
  BY <1>2, <1>3, ResultAppend, OwnedAppend
<1> HIDE DEF results
<1>5. PICK messages \in {old, results} : Save(ghost.start, Kept(messages, ghost.dropped))
  BY DEF GhostEnds, results, m, old
<1>6. \/ stored' = [stored EXCEPT ![ghost.start] = Kept(messages, ghost.dropped)]
      \/ UNCHANGED stored
  BY <1>5 DEF Save
<1>7. StoredInv' /\ stored' \in [Plans -> Transcript \cup {Nothing}]
  BY <1>1, <1>2, <1>4, <1>6, CommitLemma DEF IInv
<1>8. TypeOK'
  BY <1>1, <1>7, EmptyLemma DEF IInv, TypeOK, NoGhost, Screen
<1>9. RunningInv' /\ GhostInv' /\ ShownInv' /\ Len(planOf') <= MaxTurns
  BY <1>1 DEF IInv, RunningInv, GhostInv, ShownInv, running
<1>. QED BY <1>7, <1>8, <1>9 DEF IInv

LEMMA SystemInv == ASSUME IInv, System PROVE IInv'
<1>1. ASSUME NEW role \in {"reply", "tool_use"}, Receive(role) PROVE IInv'
  BY <1>1, ReceiveInv
<1>2. CASE RunTools
  BY <1>2, RunToolsInv
<1>3. CASE Stop
  BY <1>3, FinishRunner DEF Stop
<1>4. CASE Unparseable
  BY <1>4, UnparseableInv
<1>5. CASE Reissue
  BY <1>5, ReissueInv
<1>6. CASE ApiError
  BY <1>6, FinishRunner DEF ApiError, running
<1>7. CASE GhostEnds
  BY <1>7, GhostEndsInv
<1>. QED BY <1>1, <1>2, <1>3, <1>4, <1>5, <1>6, <1>7 DEF System

-----------------------------------------------------------------------------
(* The steps of the store, the user and the page *)

LEMMA OwnedGrows ==
  ASSUME NEW messages, NEW p, NEW plans \in Seq(Plans), NEW q \in Plans,
         Owned(messages, p, plans)
  PROVE  Owned(messages, p, Append(plans, q))
BY DEF Owned

\* Without a running turn three of the parts are easy.
LEMMA IdleInv ==
  ASSUME IInv, ~ running', TypeOK', UNCHANGED planOf, StoredInv', GhostInv',
         Owned(shown'.messages, loaded', planOf), Replayable(shown'.messages)
  PROVE  IInv'
BY DEF IInv, RunningInv, ShownInv, running

LEMMA DispatchInv == ASSUME IInv, NEW p \in Screen, Dispatch(p) PROVE IInv'
<1>1. /\ screen' = p /\ SyncTranscript(p)
      /\ UNCHANGED <<keyed, stored, phase, start, runner, iterations, attempt, aborted, ghost,
                     planOf>>
  BY DEF Dispatch, loop
<1>2. CASE p \in {NoPlan, loaded} \/ running \/ ~ keyed
  <2>1. UNCHANGED <<loaded, shown>>
    BY <1>1, <1>2 DEF SyncTranscript, copilot
  <2>. QED BY <1>1, <2>1 DEF IInv, TypeOK, RunningInv, GhostInv, StoredInv, ShownInv, running
<1>3. CASE ~ (p \in {NoPlan, loaded} \/ running \/ ~ keyed)
  <2>1. p \in Plans /\ loaded' = p /\ shown' = LoadTranscript(p)
    BY <1>1, <1>3 DEF SyncTranscript, Screen
  <2>2. /\ shown' \in Transcript /\ Owned(shown'.messages, p, planOf)
        /\ Replayable(shown'.messages)
    BY <2>1, LoadLemma DEF IInv
  <2>3. TypeOK'
    BY <1>1, <2>1, <2>2 DEF IInv, TypeOK
  <2>4. ~ running' /\ StoredInv' /\ GhostInv'
    BY <1>1, <1>3 DEF IInv, StoredInv, GhostInv, running
  <2>. QED BY <1>1, <2>1, <2>2, <2>3, <2>4, IdleInv
<1>. QED BY <1>2, <1>3

LEMMA SendInv == ASSUME IInv, Send PROVE IInv'
<1> DEFINE known == IF screen = loaded THEN shown ELSE LoadTranscript(screen)
           m == [role |-> "user", turn |-> Len(planOf) + 1]
           messages == Append(known.messages, m)
<1>1. /\ ~ running /\ screen \in Plans /\ planOf \in Seq(Plans) /\ Len(planOf) < MaxTurns
      /\ loaded' = screen /\ shown' = [known EXCEPT !.messages = messages]
      /\ phase' = "calling" /\ start' = screen /\ runner' = messages
      /\ iterations' = 0 /\ attempt' = 0 /\ aborted' = FALSE
      /\ planOf' = Append(planOf, screen)
      /\ UNCHANGED <<screen, keyed, stored, ghost>>
  BY DEF Send, IInv, TypeOK, Screen
<1>2. /\ known \in Transcript /\ Owned(known.messages, screen, planOf)
      /\ Replayable(known.messages)
  BY <1>1, LoadLemma DEF IInv, TypeOK, ShownInv
<1>3. m \in Message /\ m.role = "user" /\ m.turn = Len(planOf) + 1
  BY <1>1, TurnAssumption DEF Message, Role
<1>4. /\ planOf' \in Seq(Plans) /\ Len(planOf') = Len(planOf) + 1 /\ planOf' # <<>>
      /\ m.turn \in DOMAIN planOf' /\ planOf'[m.turn] = screen
  BY <1>1, <1>3
<1>5. known.messages \in Seq(Message) /\ Owned(known.messages, screen, planOf')
  BY <1>1, <1>2, OwnedGrows DEF Transcript
<1> HIDE DEF known, m
<1>6. /\ messages \in Seq(Message) /\ Owned(messages, screen, planOf')
      /\ Linked(messages) /\ ~ Dangling(messages)
  BY <1>2, <1>3, <1>4, <1>5, OwnedAppend, LinkedAppend, ReplayableLinked
<1>7. messages # <<>>
  BY <1>5
<1> HIDE DEF messages
<1>8. TypeOK'
  <2>1. shown' \in Transcript
    BY <1>1, <1>2, <1>6 DEF Transcript
  <2>2. iterations' \in 0 .. MaxIterations
    BY <1>1, TurnAssumption
  <2>. QED BY <1>1, <1>4, <1>6, <2>1, <2>2 DEF IInv, TypeOK, Screen
<1>9. Len(planOf') <= MaxTurns
  BY <1>1, <1>4, TurnAssumption
<1>10. RunningInv'
  <2>1. planOf'[Len(planOf')] = start'
    BY <1>1, <1>3, <1>4
  <2>2. iterations' < MaxIterations
    BY <1>1, TurnAssumption
  <2>. QED BY <1>1, <1>4, <1>6, <1>7, <2>1, <2>2 DEF RunningInv, running
<1>11. GhostInv'
  BY <1>1, OwnedGrows DEF IInv, GhostInv
<1>12. StoredInv'
  BY <1>1, OwnedGrows DEF IInv, StoredInv
<1>13. ShownInv'
  <2>1. shown'.messages = messages
    BY <1>1, <1>2 DEF Transcript
  <2>. QED BY <1>1, <1>6, <2>1 DEF ShownInv, running
<1>. QED BY <1>8, <1>9, <1>10, <1>11, <1>12, <1>13 DEF IInv

LEMMA AbortInv == ASSUME IInv, Abort PROVE IInv'
<1>1. /\ aborted' = TRUE
      /\ UNCHANGED <<screen, keyed, loaded, shown, stored, phase, start, runner, iterations,
                     attempt, ghost, planOf>>
  BY DEF Abort, copilot
<1>. QED BY <1>1 DEF IInv, TypeOK, RunningInv, GhostInv, StoredInv, ShownInv, running

\* Forgetting a transcript leaves the others as they were.
LEMMA ForgetLemma ==
  ASSUME IInv, Forget, UNCHANGED planOf
  PROVE  ~ running /\ StoredInv' /\ stored' \in [Plans -> Transcript \cup {Nothing}]
<1>1. CASE UNCHANGED stored
  BY <1>1 DEF Forget, IInv, TypeOK, StoredInv
<1>2. CASE stored' = [stored EXCEPT ![screen] = Nothing]
  <2>1. stored' \in [Plans -> Transcript \cup {Nothing}]
    BY <1>2 DEF IInv, TypeOK
  <2>2. Nothing.messages = <<>>
    BY DEF Nothing
  <2> DEFINE none == Nothing
  <2> HIDE DEF none
  <2>3. ASSUME NEW p \in Plans
        PROVE  Owned(stored'[p].messages, p, planOf) /\ Replayable(stored'[p].messages)
    <3>1. CASE p = screen
      BY <1>2, <2>2, <3>1, EmptyLemma DEF IInv, TypeOK
    <3>2. CASE p # screen
      BY <1>2, <3>2 DEF IInv, TypeOK, StoredInv
    <3>. QED BY <3>1, <3>2
  <2>. QED BY <2>1, <2>3 DEF Forget, StoredInv
<1>. QED BY <1>1, <1>2 DEF Forget

LEMMA EmptyTranscriptLemma ==
  /\ EmptyTranscript \in Transcript
  /\ \A p : Owned(EmptyTranscript.messages, p, planOf)
  /\ Replayable(EmptyTranscript.messages)
BY EmptyLemma DEF EmptyTranscript, Transcript

LEMMA ResetSessionInv == ASSUME IInv, ResetSession PROVE IInv'
<1>1. /\ Forget /\ screen' \in Screen
      /\ UNCHANGED <<keyed, phase, start, runner, iterations, attempt, aborted, ghost, planOf>>
  BY DEF ResetSession, loop, IInv, TypeOK, Screen
<1>2. ~ running /\ StoredInv' /\ stored' \in [Plans -> Transcript \cup {Nothing}]
  BY <1>1, ForgetLemma
<1>3. ~ running' /\ GhostInv'
  BY <1>1, <1>2 DEF IInv, GhostInv, running
<1>4. /\ loaded' \in Screen /\ shown' \in Transcript
      /\ Owned(shown'.messages, loaded', planOf) /\ Replayable(shown'.messages)
  <2>1. CASE screen' \in {NoPlan, loaded}
    BY <2>1, EmptyTranscriptLemma DEF ResetSession, IInv, TypeOK
  <2>2. CASE screen' \notin {NoPlan, loaded}
    <3>1. /\ screen' \in Plans /\ loaded' = screen'
          /\ shown' = IF stored'[screen'] = Nothing THEN EmptyTranscript ELSE stored'[screen']
      BY <1>1, <2>2 DEF ResetSession, Screen
    <3>2. CASE stored'[screen'] = Nothing
      BY <3>1, <3>2, EmptyTranscriptLemma DEF Screen
    <3>3. CASE stored'[screen'] # Nothing
      <4>1. shown' \in Transcript /\ shown' = stored'[screen']
        BY <1>2, <3>1, <3>3
      <4>. QED BY <1>1, <1>2, <3>1, <4>1 DEF StoredInv, Screen
    <3>. QED BY <3>2, <3>3
  <2>. QED BY <2>1, <2>2
<1>5. TypeOK'
  BY <1>1, <1>2, <1>4 DEF IInv, TypeOK
<1>. QED BY <1>1, <1>2, <1>3, <1>4, <1>5, IdleInv

\* The loop of a Copilot that is gone or new.
LEMMA NoLoopLemma ==
  ASSUME NoLoop
  PROVE  /\ ~ running' /\ phase' = "idle" /\ start' \in Screen /\ runner' \in Seq(Message)
         /\ iterations' \in 0 .. MaxIterations /\ attempt' \in {0, 1} /\ aborted' \in BOOLEAN
<1>1. /\ phase' = "idle" /\ start' = NoPlan /\ runner' = <<>>
      /\ iterations' = 0 /\ attempt' = 0 /\ aborted' = FALSE
  BY DEF NoLoop
<1>2. runner' \in Seq(Message)
  BY <1>1, EmptyLemma
<1>3. iterations' \in 0 .. MaxIterations
  BY <1>1, TurnAssumption
<1>. QED BY <1>1, <1>2, <1>3 DEF Screen, running

LEMMA ClearKeyInv == ASSUME IInv, ClearKey PROVE IInv'
<1>1. /\ keyed' = FALSE /\ NoLoop /\ loaded' = NoPlan /\ shown' = EmptyTranscript
      /\ ghost' = IF phase # "tools" THEN NoGhost
                   ELSE [start |-> start, messages |-> runner, dropped |-> shown.dropped]
      /\ UNCHANGED <<screen, planOf>>
  BY DEF ClearKey
<1>2. /\ loaded' \in Screen /\ shown' \in Transcript
      /\ Owned(shown'.messages, loaded', planOf) /\ Replayable(shown'.messages)
  BY <1>1, EmptyTranscriptLemma DEF Screen
<1>3. StoredInv' /\ stored' \in [Plans -> Transcript \cup {Nothing}]
  <2>1. CASE UNCHANGED stored
    BY <1>1, <2>1 DEF IInv, TypeOK, StoredInv
  <2>2. CASE ~ UNCHANGED stored
    <3>1. /\ phase \notin {"idle", "tools"}
          /\ stored' = [stored EXCEPT ![start] = Kept(runner, shown.dropped)]
      BY <2>2 DEF ClearKey, CommitKey
    <3>2. /\ start \in Plans /\ runner \in Seq(Message) /\ shown.dropped \in Nat
          /\ Linked(runner) /\ Owned(runner, start, planOf)
      BY <3>1 DEF IInv, TypeOK, RunningInv, running, Transcript
    <3>. QED BY <1>1, <3>1, <3>2, CommitLemma DEF IInv
  <2>. QED BY <2>1, <2>2
<1>4. GhostInv' /\ ghost' \in [start : Screen, messages : Seq(Message), dropped : Nat]
  <2>1. CASE phase # "tools"
    <3>1. ghost' = NoGhost
      BY <1>1, <2>1
    <3>2. ghost' \in [start : Screen, messages : Seq(Message), dropped : Nat]
      BY <3>1, EmptyLemma DEF NoGhost, Screen
    <3>. QED BY <3>1, <3>2 DEF GhostInv
  <2>2. CASE phase = "tools"
    <3>1. /\ start \in Plans /\ runner \in Seq(Message) /\ shown.dropped \in Nat
          /\ Linked(runner) /\ Dangling(runner) /\ Owned(runner, start, planOf)
      BY <2>2 DEF IInv, TypeOK, RunningInv, running, Transcript
    <3>2. ghost' = [start |-> start, messages |-> runner, dropped |-> shown.dropped]
      BY <1>1, <2>2
    <3>. QED BY <1>1, <3>1, <3>2 DEF GhostInv, Screen
  <2>. QED BY <2>1, <2>2
<1>5. TypeOK' /\ ~ running'
  BY <1>1, <1>2, <1>3, <1>4, NoLoopLemma DEF IInv, TypeOK
<1>. QED BY <1>1, <1>2, <1>3, <1>4, <1>5, IdleInv

LEMMA PasteKeyInv == ASSUME IInv, PasteKey PROVE IInv'
<1>1. /\ keyed' = TRUE /\ NoLoop /\ loaded' = screen
      /\ shown' = IF screen = NoPlan THEN EmptyTranscript ELSE LoadTranscript(screen)
      /\ UNCHANGED <<screen, stored, ghost, planOf>>
  BY DEF PasteKey
<1>2. /\ shown' \in Transcript /\ Owned(shown'.messages, loaded', planOf)
      /\ Replayable(shown'.messages)
  <2>1. CASE screen = NoPlan
    BY <1>1, <2>1, EmptyTranscriptLemma
  <2>2. CASE screen # NoPlan
    BY <1>1, <2>2, LoadLemma DEF IInv, TypeOK, Screen
  <2>. QED BY <2>1, <2>2
<1>3. StoredInv' /\ GhostInv'
  BY <1>1 DEF IInv, StoredInv, GhostInv
<1>4. TypeOK' /\ ~ running'
  BY <1>1, <1>2, NoLoopLemma DEF IInv, TypeOK
<1>. QED BY <1>1, <1>2, <1>3, <1>4, IdleInv

LEMMA ReloadPageInv == ASSUME IInv, ReloadPage PROVE IInv'
<1>1. /\ screen' = NoPlan /\ loaded' = NoPlan /\ shown' = EmptyTranscript /\ ghost' = NoGhost
      /\ NoLoop /\ UNCHANGED <<keyed, stored, planOf>>
  BY DEF ReloadPage
<1>2. ghost' \in [start : Screen, messages : Seq(Message), dropped : Nat]
  BY <1>1, EmptyLemma DEF NoGhost, Screen
<1>3. TypeOK' /\ ~ running'
  BY <1>1, <1>2, NoLoopLemma, EmptyTranscriptLemma DEF IInv, TypeOK, Screen
<1>4. StoredInv' /\ GhostInv'
  BY <1>1 DEF IInv, StoredInv, GhostInv
<1>. QED BY <1>1, <1>3, <1>4, EmptyTranscriptLemma, IdleInv

LEMMA NextInv == IInv /\ [Next]_vars => IInv'
<1> SUFFICES ASSUME IInv, [Next]_vars PROVE IInv'
  OBVIOUS
<1>1. CASE System
  BY <1>1, SystemInv
<1>2. ASSUME NEW p \in Screen, Dispatch(p) PROVE IInv'
  BY <1>2, DispatchInv
<1>3. CASE Send
  BY <1>3, SendInv
<1>4. CASE Abort
  BY <1>4, AbortInv
<1>5. CASE ResetSession
  BY <1>5, ResetSessionInv
<1>6. CASE ClearKey
  BY <1>6, ClearKeyInv
<1>7. CASE PasteKey
  BY <1>7, PasteKeyInv
<1>8. CASE ReloadPage
  BY <1>8, ReloadPageInv
<1>9. CASE UNCHANGED vars
  BY <1>9 DEF vars, copilot, loop, IInv, TypeOK, RunningInv, GhostInv, StoredInv, ShownInv,
              running
<1>. QED
  BY <1>1, <1>2, <1>3, <1>4, <1>5, <1>6, <1>7, <1>8, <1>9 DEF Next, Environment

-----------------------------------------------------------------------------
(* What a trim tells the user *)

\* The human's messages of a transcript: each starts a turn.
Starts(messages) == {i \in DOMAIN messages : IsTurnStart(messages[i])}

\* What was said in turn n was said after every earlier turn began.
Newest(messages, n) ==
  \A i \in DOMAIN messages : messages[i].turn = n => \A j \in Starts(messages) : j <= i

\* The transcript on screen has the turns of the runner, which leads it by tool results.
HonestInv ==
  running => /\ Cardinality(Starts(runner)) = Cardinality(Starts(shown.messages))
             /\ Newest(runner, Len(planOf))

LEMMA StartsFinite ==
  ASSUME NEW messages \in Seq(Message)
  PROVE  IsFiniteSet(Starts(messages)) /\ Cardinality(Starts(messages)) \in Nat
<1>1. Len(messages) \in Int /\ DOMAIN messages = 1 .. Len(messages)
  OBVIOUS
<1>2. IsFiniteSet(1 .. Len(messages))
  BY <1>1, FS_Interval
<1>3. Starts(messages) \in SUBSET (1 .. Len(messages))
  BY <1>1 DEF Starts
<1>4. IsFiniteSet(Starts(messages))
  BY <1>2, <1>3, FS_Subset
<1>. QED BY <1>4, FS_CardinalityType

\* What the loop appends starts no turn and is said last.
LEMMA StartsAppend ==
  ASSUME NEW messages \in Seq(Message), NEW m \in Message, m.role # "user", NEW n
  PROVE  /\ Starts(Append(messages, m)) = Starts(messages)
         /\ Newest(messages, n) => Newest(Append(messages, m), n)
<1> DEFINE more == Append(messages, m)
<1>1. /\ Len(messages) \in Nat /\ DOMAIN messages = 1 .. Len(messages)
      /\ DOMAIN more = 1 .. Len(messages) + 1 /\ more[Len(messages) + 1] = m
      /\ \A i \in 1 .. Len(messages) : more[i] = messages[i]
  OBVIOUS
<1> HIDE DEF more
<1>2. Starts(more) = Starts(messages)
  BY <1>1 DEF Starts, IsTurnStart
<1>3. ASSUME Newest(messages, n), NEW i \in DOMAIN more, more[i].turn = n,
             NEW j \in Starts(messages)
      PROVE  j <= i
  <2>1. j \in 1 .. Len(messages)
    BY <1>1 DEF Starts
  <2>2. CASE i = Len(messages) + 1
    BY <1>1, <2>1, <2>2
  <2>3. CASE i \in 1 .. Len(messages)
    BY <1>1, <1>3, <2>3 DEF Newest
  <2>. QED BY <1>1, <2>2, <2>3
<1>4. Newest(messages, n) => Newest(more, n)
  BY <1>2, <1>3 DEF Newest
<1>. QED BY <1>2, <1>4 DEF more

\* dropDangling drops no turn.
LEMMA DropHonest ==
  ASSUME NEW messages \in Seq(Message), Linked(messages), messages # <<>>
  PROVE  /\ DropDangling(messages) \in Seq(Message) /\ DropDangling(messages) # <<>>
         /\ Replayable(DropDangling(messages))
         /\ DOMAIN DropDangling(messages) \subseteq DOMAIN messages
         /\ \A i \in DOMAIN DropDangling(messages) : DropDangling(messages)[i] = messages[i]
         /\ Starts(DropDangling(messages)) = Starts(messages)
         /\ ~ Dangling(messages) => DropDangling(messages) = messages
<1> DEFINE n == Len(messages)
           D == DropDangling(messages)
<1>1. n \in Nat \ {0} /\ DOMAIN messages = 1 .. n /\ messages[1].role = "user"
  BY DEF Linked
<1>2. D \in Seq(Message) /\ Replayable(D)
  BY DropLemma
<1>3. CASE ~ Dangling(messages)
  <2>1. D = messages
    BY <1>3 DEF DropDangling, Dangling, Last
  <2> HIDE DEF D
  <2>. QED BY <1>1, <1>2, <2>1 DEF D
<1>4. CASE Dangling(messages)
  <2>1. D = SubSeq(messages, 1, n - 1) /\ messages[n].role = "tool_use"
    BY <1>1, <1>4 DEF DropDangling, Dangling, Last, Front
  <2>2. /\ Len(D) = n - 1 /\ DOMAIN D = 1 .. n - 1
        /\ \A i \in DOMAIN D : D[i] = messages[i]
    BY <1>1, <2>1
  <2> HIDE DEF D
  <2>3. n # 1
    BY <1>1, <2>1
  <2>4. Starts(D) = Starts(messages)
    BY <1>1, <2>1, <2>2 DEF Starts, IsTurnStart
  <2>5. D # <<>>
    BY <1>1, <2>2, <2>3
  <2>. QED BY <1>1, <1>2, <1>4, <2>2, <2>4, <2>5 DEF D
<1>. QED BY <1>3, <1>4

\* The turns of a suffix are those of the transcript from the cut on.
LEMMA SuffixStarts ==
  ASSUME NEW messages \in Seq(Message), NEW cut \in 1 .. Len(messages)
  PROVE  LET suffix == SubSeq(messages, cut, Len(messages))
         IN  Cardinality(Starts(suffix)) = Cardinality({i \in Starts(messages) : i >= cut})
<1> DEFINE n == Len(messages)
           suffix == SubSeq(messages, cut, n)
           late == {i \in Starts(messages) : i >= cut}
           f == [i \in late |-> i - cut + 1]
<1>1. n \in Nat /\ DOMAIN messages = 1 .. n
  OBVIOUS
<1>2. /\ DOMAIN suffix = 1 .. n - cut + 1
      /\ \A i \in DOMAIN suffix : suffix[i] = messages[cut + i - 1]
      /\ suffix \in Seq(Message)
  BY <1>1
<1> HIDE DEF suffix
<1>3. \A i \in late : i \in 1 .. n /\ i >= cut /\ messages[i].role = "user"
  BY <1>1 DEF Starts, IsTurnStart
<1>4. f \in [late -> Starts(suffix)]
  <2>1. ASSUME NEW i \in late PROVE i - cut + 1 \in Starts(suffix)
    <3>1. i - cut + 1 \in DOMAIN suffix /\ cut + (i - cut + 1) - 1 = i
      BY <1>1, <1>2, <1>3
    <3>. QED BY <1>2, <1>3, <3>1 DEF Starts, IsTurnStart
  <2>. QED BY <2>1
<1>5. \A i, j \in late : f[i] = f[j] => i = j
  BY <1>1, <1>3
<1>6. ASSUME NEW k \in Starts(suffix) PROVE \E i \in late : f[i] = k
  <2>1. k \in DOMAIN suffix /\ messages[cut + k - 1].role = "user"
    BY <1>2 DEF Starts, IsTurnStart
  <2>2. cut + k - 1 \in 1 .. n /\ cut + k - 1 >= cut /\ (cut + k - 1) - cut + 1 = k
    BY <1>1, <1>2, <2>1
  <2>3. cut + k - 1 \in late
    BY <1>1, <2>1, <2>2 DEF Starts, IsTurnStart
  <2>. QED BY <2>2, <2>3
<1>7. IsFiniteSet(late)
  <2>1. IsFiniteSet(Starts(messages)) /\ late \in SUBSET Starts(messages)
    BY StartsFinite
  <2> HIDE DEF late
  <2>. QED BY <2>1, FS_Subset
<1> HIDE DEF late
<1>8. f \in Bijection(late, Starts(suffix))
  BY <1>4, <1>5, <1>6 DEF Bijection, Injection, Surjection, IsInjective
<1>9. ExistsBijection(late, Starts(suffix))
  BY <1>8 DEF ExistsBijection
<1>10. IsFiniteSet(Starts(suffix))
  BY <1>2, StartsFinite
<1>11. Cardinality(late) = Cardinality(Starts(suffix))
  BY <1>7, <1>9, <1>10, FS_Bijection
<1>. QED BY <1>11 DEF late, suffix

\* trimTranscript counts every turn it drops, and keeps what was said after the last began.
LEMMA TrimHonest ==
  ASSUME NEW messages \in Seq(Message), messages # <<>>, Replayable(messages),
         NEW dropped \in Nat
  PROVE  LET kept == TrimTranscript([messages |-> messages, dropped |-> dropped])
         IN  /\ Turns(kept) = dropped + Cardinality(Starts(messages))
             /\ \A i \in DOMAIN messages :
                  (\A j \in Starts(messages) : j <= i) => messages[i] \in ToSet(kept.messages)
<1> DEFINE n == Len(messages)
           t == [messages |-> messages, dropped |-> dropped]
           cuts == {1} \cup Cuts(messages)
           fits(i) == Len(messages) - i + 1 <= MaxMessages
           fitting == {i \in cuts : fits(i)}
           cut == IF \E i \in cuts : fits(i) THEN Min(fitting) ELSE Max(cuts)
           gone == {i \in cuts : i < cut}
           late == {i \in Starts(messages) : i >= cut}
           suffix == SubSeq(messages, cut, n)
           kept == TrimTranscript(t)
<1>1. n \in Nat \ {0} /\ DOMAIN messages = 1 .. n /\ messages[1].role = "user"
  BY DEF Replayable
<1>2. cuts = Starts(messages)
  BY <1>1 DEF Cuts, Starts, IsTurnStart
<1>3. cuts \in SUBSET Nat /\ cuts # {} /\ \A i \in cuts : i \in 1 .. n
  BY <1>1 DEF Cuts
<1>4. cut \in cuts
  <2>1. CASE \E i \in cuts : fits(i)
    <3>1. fitting \in SUBSET Nat /\ fitting # {} /\ cut = Min(fitting)
      BY <1>3, <2>1
    <3> HIDE DEF fitting, cut, cuts
    <3>2. cut \in fitting
      BY <3>1, LeastIs
    <3>. QED BY <3>2 DEF fitting
  <2>2. CASE ~ \E i \in cuts : fits(i)
    <3>1. cut = Max(cuts) /\ n \in Nat /\ \A i \in cuts : i <= n
      BY <1>1, <1>3, <2>2
    <3> HIDE DEF cuts, cut
    <3>. QED BY <1>3, <3>1, GreatestIs
  <2>. QED BY <2>1, <2>2
<1>5. kept = [messages |-> suffix, dropped |-> dropped + Cardinality(gone)]
  BY DEF TrimTranscript
<1> HIDE DEF cut, kept
<1>6. cut \in 1 .. n
  BY <1>3, <1>4
<1>7. Cardinality(Starts(suffix)) = Cardinality(late)
  BY <1>6, SuffixStarts
<1>8. Cardinality(gone) + Cardinality(late) = Cardinality(Starts(messages))
      /\ Cardinality(gone) \in Nat /\ Cardinality(late) \in Nat
  <2>1. IsFiniteSet(Starts(messages))
    BY StartsFinite
  <2>2. gone \in SUBSET Starts(messages) /\ late \in SUBSET Starts(messages)
        /\ gone \cup late = Starts(messages) /\ gone \cap late = {}
    BY <1>2, <1>3, <1>6
  <2> HIDE DEF gone, late
  <2>3. IsFiniteSet(gone) /\ IsFiniteSet(late)
    BY <2>1, <2>2, FS_Subset
  <2>4. Cardinality(gone) \in Nat /\ Cardinality(late) \in Nat
    BY <2>3, FS_CardinalityType
  <2>5. Cardinality(gone \cap late) = 0
    BY <2>2, FS_EmptySet
  <2>6. Cardinality(gone \cup late) =
          Cardinality(gone) + Cardinality(late) - Cardinality(gone \cap late)
    BY <2>3, FS_Union
  <2>7. Cardinality(Starts(messages)) = Cardinality(gone) + Cardinality(late) - 0
    BY <2>2, <2>5, <2>6
  <2>. QED BY <2>4, <2>7
<1>9. Turns(kept) = dropped + Cardinality(gone) + Cardinality(Starts(suffix))
  <2>1. kept.messages = suffix /\ kept.dropped = dropped + Cardinality(gone)
    BY <1>5
  <2> HIDE DEF suffix, gone
  <2>. QED BY <2>1 DEF Turns, Starts, IsTurnStart
<1>10. ASSUME NEW i \in DOMAIN messages, \A j \in Starts(messages) : j <= i
       PROVE  messages[i] \in ToSet(kept.messages)
  <2>1. cut <= i
    BY <1>2, <1>4, <1>10
  <2>2. /\ i - cut + 1 \in DOMAIN suffix /\ suffix[i - cut + 1] = messages[i]
    BY <1>1, <1>6, <2>1
  <2> HIDE DEF suffix
  <2>. QED BY <1>5, <2>2 DEF ToSet
<1> HIDE DEF gone, late, suffix
<1>11. Turns(kept) = dropped + Cardinality(Starts(messages))
  BY <1>7, <1>8, <1>9
<1>. QED BY <1>10, <1>11 DEF kept

LEMMA FinishHonest ==
  ASSUME IInv, HonestInv, running, NEW messages \in Seq(Message), Linked(messages),
         Finish(messages), Starts(messages) = Starts(runner),
         \/ messages = runner
         \/ /\ ~ Dangling(messages)
            /\ DOMAIN runner \subseteq DOMAIN messages
            /\ \A i \in DOMAIN runner : messages[i] = runner[i]
  PROVE  /\ Turns(shown') = Turns(shown)
         /\ {m \in ToSet(DropDangling(runner)) : m.turn = Len(planOf)}
              \subseteq ToSet(shown'.messages)
         /\ ~ running'
<1> DEFINE D == DropDangling(messages)
           kept == TrimTranscript([messages |-> D, dropped |-> shown.dropped])
<1>1. /\ runner \in Seq(Message) /\ Linked(runner) /\ runner # <<>>
      /\ shown.dropped \in Nat /\ shown.messages \in Seq(Message)
  BY DEF IInv, TypeOK, RunningInv, Transcript
<1>2. messages # <<>>
  <2>1. 1 \in DOMAIN runner
    BY <1>1
  <2>. QED BY <2>1
<1>3. /\ D \in Seq(Message) /\ D # <<>> /\ Replayable(D)
      /\ \A i \in DOMAIN D : D[i] = messages[i]
      /\ Starts(D) = Starts(messages)
      /\ ~ Dangling(messages) => D = messages
  BY <1>2, DropHonest
<1>4. shown' = kept
  BY DEF Finish, Kept
<1> HIDE DEF D
<1>5. /\ Turns(kept) = shown.dropped + Cardinality(Starts(D))
      /\ \A i \in DOMAIN D :
           (\A j \in Starts(D) : j <= i) => D[i] \in ToSet(kept.messages)
  BY <1>1, <1>3, TrimHonest
<1> HIDE DEF kept
<1>6. Turns(shown') = Turns(shown)
  <2>1. Cardinality(Starts(D)) = Cardinality(Starts(shown.messages))
    BY <1>3 DEF HonestInv
  <2>2. Turns(shown) = shown.dropped + Cardinality(Starts(shown.messages))
    BY DEF Turns, Starts, IsTurnStart
  <2>. QED BY <1>4, <1>5, <2>1, <2>2
<1>7. ASSUME NEW m \in ToSet(DropDangling(runner)), m.turn = Len(planOf)
      PROVE  m \in ToSet(shown'.messages)
  <2>1. PICK i \in DOMAIN DropDangling(runner) : m = DropDangling(runner)[i]
    BY DEF ToSet
  <2>2. i \in DOMAIN runner /\ m = runner[i]
    BY <1>1, <2>1, DropHonest
  <2>3. i \in DOMAIN D /\ D[i] = m
    <3>1. CASE messages = runner
      BY <2>1, <3>1 DEF D
    <3>2. CASE messages # runner
      BY <1>3, <2>2, <3>2
    <3>. QED BY <3>1, <3>2
  <2>4. \A j \in Starts(D) : j <= i
    BY <1>3, <1>7, <2>2 DEF HonestInv, Newest
  <2>. QED BY <1>4, <1>5, <2>3, <2>4
<1>8. ~ running'
  BY DEF Finish, NoLoop, running
<1>. QED BY <1>6, <1>7, <1>8

\* A step of the turn that ends it is honest, and one that does not keeps the invariant.
HonestStep ==
  /\ HonestInv'
  /\ running /\ ~running' =>
       /\ Turns(shown') = Turns(shown)
       /\ {m \in ToSet(DropDangling(runner)) : m.turn = Len(planOf)}
            \subseteq ToSet(shown'.messages)

LEMMA ReceiveHonest ==
  ASSUME IInv, HonestInv, NEW role \in {"reply", "tool_use"}, Receive(role)
  PROVE  HonestStep
<1> DEFINE m == [role |-> role, turn |-> Len(planOf)]
           messages == Append(runner, m)
<1>1. running /\ phase = "calling"
  BY DEF Receive, running
<1>2. /\ m \in Message /\ m.role = role /\ m.role # "tool_result" /\ m.role # "user"
      /\ runner \in Seq(Message) /\ runner # <<>> /\ Linked(runner) /\ ~ Dangling(runner)
  BY <1>1, TurnMessage DEF Role, IInv, RunningInv
<1> HIDE DEF m
<1>3. /\ messages \in Seq(Message) /\ Linked(messages)
      /\ (Dangling(messages) <=> role = "tool_use")
  BY <1>2, LinkedAppend
<1>4. Starts(messages) = Starts(runner)
  BY <1>2, StartsAppend
<1>5. Newest(messages, Len(planOf))
  BY <1>1, <1>2, StartsAppend DEF HonestInv
<1>6. DOMAIN runner \subseteq DOMAIN messages /\ \A i \in DOMAIN runner : messages[i] = runner[i]
  BY <1>2
<1>7. CASE role = "reply"
  <2>1. Finish(messages)
    BY <1>7 DEF Receive, m
  <2> HIDE DEF messages
  <2>2. ~ Dangling(messages)
    BY <1>3, <1>7
  <2>. QED BY <1>1, <1>3, <1>4, <1>6, <2>1, <2>2, FinishHonest DEF HonestStep, HonestInv
<1>8. CASE role = "tool_use"
  <2>1. /\ phase' = "tools" /\ runner' = messages /\ planOf' = planOf
        /\ shown' = [shown EXCEPT !.messages = messages]
    BY <1>8 DEF Receive, m
  <2>2. shown'.messages = messages
    BY <2>1 DEF IInv, TypeOK, Transcript
  <2> HIDE DEF messages
  <2>. QED BY <1>5, <2>1, <2>2 DEF HonestStep, HonestInv, running
<1>. QED BY <1>7, <1>8

LEMMA RunToolsHonest == ASSUME IInv, HonestInv, RunTools PROVE HonestStep
<1> DEFINE m == [role |-> "tool_result", turn |-> Len(planOf)]
           messages == Append(runner, m)
<1>1. running /\ phase = "tools"
  BY DEF RunTools, running
<1>2. /\ m \in Message /\ m.role # "user"
      /\ runner \in Seq(Message) /\ runner # <<>> /\ Linked(runner) /\ Dangling(runner)
      /\ m = Result(runner[Len(runner)])
  BY <1>1, TurnMessage DEF Role, IInv, RunningInv, Result
<1> HIDE DEF m
<1>3. messages \in Seq(Message) /\ Linked(messages) /\ ~ Dangling(messages)
  BY <1>2, ResultAppend
<1>4. Starts(messages) = Starts(runner)
  BY <1>2, StartsAppend
<1>5. Newest(messages, Len(planOf))
  BY <1>1, <1>2, StartsAppend DEF HonestInv
<1>6. DOMAIN runner \subseteq DOMAIN messages /\ \A i \in DOMAIN runner : messages[i] = runner[i]
  BY <1>2
<1>7. CASE iterations = MaxIterations \/ aborted
  <2>1. Finish(messages)
    BY <1>7 DEF RunTools, m
  <2> HIDE DEF messages
  <2>. QED BY <1>1, <1>3, <1>4, <1>6, <2>1, FinishHonest DEF HonestStep, HonestInv
<1>8. CASE ~ (iterations = MaxIterations \/ aborted)
  <2>1. phase' = "calling" /\ runner' = messages /\ planOf' = planOf /\ shown' = shown
    BY <1>8 DEF RunTools, m, copilot
  <2> HIDE DEF messages
  <2>. QED BY <1>1, <1>4, <1>5, <2>1 DEF HonestStep, HonestInv, running
<1>. QED BY <1>7, <1>8

LEMMA FinishRunnerHonest ==
  ASSUME IInv, HonestInv, running, Finish(runner)
  PROVE  HonestStep
<1>1. runner \in Seq(Message) /\ Linked(runner)
  BY DEF IInv, TypeOK, RunningInv
<1>. QED BY <1>1, FinishHonest DEF HonestStep, HonestInv

LEMMA ReissueHonest == ASSUME IInv, HonestInv, Reissue PROVE HonestStep
<1>1. running
  BY DEF Reissue, running
<1>2. CASE MayReissue
  <2>1. phase' = "calling" /\ UNCHANGED <<runner, shown, planOf>>
    BY <1>2 DEF Reissue, copilot
  <2>. QED BY <1>1, <2>1 DEF HonestStep, HonestInv, running
<1>3. CASE ~ MayReissue
  BY <1>1, <1>3, FinishRunnerHonest DEF Reissue
<1>. QED BY <1>2, <1>3

LEMMA SystemHonest == ASSUME IInv, HonestInv, System PROVE HonestStep
<1>1. ASSUME NEW role \in {"reply", "tool_use"}, Receive(role) PROVE HonestStep
  BY <1>1, ReceiveHonest
<1>2. CASE RunTools
  BY <1>2, RunToolsHonest
<1>3. CASE Stop
  BY <1>3, FinishRunnerHonest DEF Stop
<1>4. CASE Unparseable
  <2>1. running /\ running' /\ UNCHANGED <<runner, shown, planOf>>
    BY <1>4 DEF Unparseable, copilot, running
  <2>. QED BY <2>1 DEF HonestStep, HonestInv
<1>5. CASE Reissue
  BY <1>5, ReissueHonest
<1>6. CASE ApiError
  BY <1>6, FinishRunnerHonest DEF ApiError, running
<1>7. CASE GhostEnds
  <2>1. UNCHANGED <<phase, runner, shown, planOf>>
    BY <1>7 DEF GhostEnds, copilot, loop
  <2>. QED BY <2>1 DEF HonestStep, HonestInv, running
<1>. QED BY <1>1, <1>2, <1>3, <1>4, <1>5, <1>6, <1>7 DEF System

\* A message sent now is of a later turn than every other of the transcript.
LEMMA SendHonest == ASSUME IInv, Send PROVE HonestInv'
<1> DEFINE known == IF screen = loaded THEN shown ELSE LoadTranscript(screen)
           m == [role |-> "user", turn |-> Len(planOf) + 1]
           messages == Append(known.messages, m)
           n == Len(known.messages)
<1>1. /\ screen \in Plans /\ planOf \in Seq(Plans)
      /\ shown' = [known EXCEPT !.messages = messages] /\ runner' = messages
      /\ planOf' = Append(planOf, screen)
  BY DEF Send, IInv, TypeOK, Screen
<1>2. known \in Transcript /\ Owned(known.messages, screen, planOf)
  BY <1>1, LoadLemma DEF IInv, TypeOK, ShownInv
<1>3. known.messages \in Seq(Message) /\ shown'.messages = messages
  BY <1>1, <1>2 DEF Transcript
<1> HIDE DEF known
<1>4. /\ n \in Nat /\ DOMAIN known.messages = 1 .. n
      /\ DOMAIN messages = 1 .. n + 1 /\ \A i \in 1 .. n : messages[i] = known.messages[i]
  BY <1>3
<1>5. Len(planOf') = Len(planOf) + 1 /\ Len(planOf) \in Nat /\ DOMAIN planOf = 1 .. Len(planOf)
  BY <1>1
<1> HIDE DEF messages
<1>6. \A i \in DOMAIN messages : messages[i].turn = Len(planOf') => i = n + 1
  <2> SUFFICES ASSUME NEW i \in 1 .. n, messages[i].turn = Len(planOf') PROVE FALSE
    BY <1>4
  <2>1. messages[i].turn \in 1 .. Len(planOf)
    BY <1>2, <1>4, <1>5 DEF Owned
  <2>. QED BY <1>5, <2>1
<1>7. \A j \in Starts(messages) : j \in 1 .. n + 1
  BY <1>4 DEF Starts
<1>8. Newest(messages, Len(planOf'))
  BY <1>4, <1>6, <1>7 DEF Newest
<1>. QED BY <1>1, <1>3, <1>8 DEF HonestInv

LEMMA HonestNext == IInv /\ HonestInv /\ [Next]_vars => HonestInv'
<1> SUFFICES ASSUME IInv, HonestInv, [Next]_vars PROVE HonestInv'
  OBVIOUS
<1>1. CASE System
  BY <1>1, SystemHonest DEF HonestStep
<1>2. ASSUME NEW p \in Screen, Dispatch(p) PROVE HonestInv'
  <2>1. UNCHANGED <<phase, runner, planOf>> /\ SyncTranscript(p)
    BY <1>2 DEF Dispatch, loop
  <2>2. running => UNCHANGED shown
    BY <2>1 DEF SyncTranscript, copilot
  <2>. QED BY <2>1, <2>2 DEF HonestInv, running
<1>3. CASE Send
  BY <1>3, SendHonest
<1>4. CASE Abort
  <2>1. UNCHANGED <<phase, runner, shown, planOf>>
    BY <1>4 DEF Abort, copilot
  <2>. QED BY <2>1 DEF HonestInv, running
<1>5. CASE ResetSession
  <2>1. ~ running /\ UNCHANGED phase
    BY <1>5 DEF ResetSession, Forget, loop
  <2>. QED BY <2>1 DEF HonestInv, running
<1>6. CASE ClearKey \/ PasteKey \/ ReloadPage
  BY <1>6 DEF ClearKey, PasteKey, ReloadPage, NoLoop, HonestInv, running
<1>7. CASE UNCHANGED vars
  <2>1. UNCHANGED <<phase, runner, shown, planOf>>
    BY <1>7 DEF vars, copilot, loop
  <2>. QED BY <2>1 DEF HonestInv, running
<1>. QED BY <1>1, <1>2, <1>3, <1>4, <1>5, <1>6, <1>7 DEF Next, Environment

-----------------------------------------------------------------------------
(* The theorems *)

LEMMA Invariance == Spec => []IInv
BY InitInv, NextInv, PTL DEF Spec

\* The type invariant.
THEOREM TypeCorrect == Spec => []TypeOK
<1>1. IInv => TypeOK
  BY DEF IInv
<1>. QED BY <1>1, Invariance, PTL

(***************************************************************************)
(* Every call of the model, every stored transcript and every transcript   *)
(* the next turn builds on can be replayed (history.ts: dropDangling,      *)
(* trimTranscript; client.ts: send).                                       *)
(***************************************************************************)
THEOREM ReplayCorrect == Spec => []TranscriptsReplay
<1>1. IInv => TranscriptsReplay
  <2> SUFFICES ASSUME IInv PROVE TranscriptsReplay
    OBVIOUS
  <2>1. phase = "calling" => Replayable(runner)
    BY ReplayableLinked DEF IInv, TypeOK, RunningInv, running
  <2>. QED BY <2>1 DEF IInv, ShownInv, StoredInv, TranscriptsReplay
<1>. QED BY <1>1, Invariance, PTL

(***************************************************************************)
(* The transcript on screen and each stored one hold only turns that were  *)
(* sent about their plan, whatever was on screen when a turn ended         *)
(* (client.ts: send, commit, syncTranscript, dispose).                     *)
(***************************************************************************)
THEOREM OwnershipCorrect == Spec => []TranscriptsStayWithTheirPlan
<1>1. IInv => TranscriptsStayWithTheirPlan
  BY DEF IInv, ShownInv, StoredInv, Owned, TranscriptsStayWithTheirPlan, ToSet
<1>. QED BY <1>1, Invariance, PTL
(***************************************************************************)
(* When a turn ends, in whichever way, no earlier turn disappears          *)
(* uncounted and nothing that was answered of this one is lost             *)
(* (history.ts: trimTranscript, dropDangling; client.ts: commit).          *)
(***************************************************************************)
THEOREM TrimCorrect == Spec => TrimIsHonest
<1>1. Init => HonestInv
  BY DEF Init, HonestInv, running
<1>2. Spec => []HonestInv
  BY <1>1, Invariance, HonestNext, PTL DEF Spec
<1>3. IInv /\ HonestInv /\ [Next]_vars =>
        [TurnEnding =>
           /\ Turns(shown') = Turns(shown)
           /\ {m \in ToSet(DropDangling(runner)) : m.turn = Len(planOf)}
                \subseteq ToSet(shown'.messages)]_vars
  BY SystemHonest DEF TurnEnding, HonestStep
<1>. QED BY <1>2, <1>3, Invariance, PTL DEF Spec, TrimIsHonest
=============================================================================
