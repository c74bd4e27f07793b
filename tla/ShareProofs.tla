----------------------------- MODULE ShareProofs -----------------------------
(***************************************************************************)
(* Session sharing, proved for every log, body limit, number of pages and  *)
(* interleaving of timer, pagehide, toggle and reload: what leaves the     *)
(* page leaves in order and once, and never what was logged in private.    *)
(*                                                                         *)
(* The argument.  The pipeline (posted, being posted, queued) only grows   *)
(* at its end, by events numbered past `seq` that carry entries past       *)
(* `sentEntries`, or loses its queued end; and everything in it is behind  *)
(* both counters.  Entries logged in private are ahead of `sentEntries`    *)
(* only while sharing is off, when nothing is drained.                     *)
(***************************************************************************)
EXTENDS Share, FiniteSetTheorems, SequenceTheorems, WellFoundedInduction, TLAPS

-----------------------------------------------------------------------------
(* Natural numbers: induction with a set in the place of a predicate *)

BelowNat == OpToRel(<, Nat)

LEMMA LeastNat ==
  ASSUME NEW T, T \subseteq Nat, T # {}
  PROVE  \E m \in T : \A k \in T : m <= k
<1>1. IsWellFoundedOn(BelowNat, Nat)
  BY NatLessThanWellFounded DEF BelowNat
<1>2. \E x \in T : \A y \in T : ~ (<<y, x>> \in BelowNat)
  BY <1>1, WFMin
<1>3. \A x, y \in Nat : y < x => <<y, x>> \in BelowNat
  BY DEF BelowNat, OpToRel
<1>4. \A x, y \in T : ~ (<<y, x>> \in BelowNat) => x <= y
  <2>. HIDE DEF BelowNat
  <2>1. \A x, y \in T : x \in Nat /\ y \in Nat
    OBVIOUS
  <2>2. \A x, y \in Nat : ~(y < x) => x <= y
    OBVIOUS
  <2>. QED BY <1>3, <2>1, <2>2
<1>. HIDE DEF BelowNat
<1>. QED BY <1>2, <1>4

LEMMA InductionOnNat ==
  ASSUME NEW T, 0 \in T, \A n \in Nat : n \in T => n + 1 \in T
  PROVE  \A n \in Nat : n \in T
<1>. DEFINE Rest == {n \in Nat : n \notin T}
<1>. SUFFICES ASSUME Rest # {} PROVE FALSE
  OBVIOUS
<1>1. PICK m \in Rest : \A k \in Rest : m <= k
  BY LeastNat
<1>2. m \in Nat /\ m # 0 /\ m - 1 \in Nat /\ (m - 1) + 1 = m
  OBVIOUS
<1>3. m - 1 \in T
  BY <1>1, <1>2
<1>. QED BY <1>2, <1>3

\* A function on 1 .. n is a sequence of length n.
LEMMA TupleLemma ==
  ASSUME NEW n \in Nat, NEW S, NEW f \in [1 .. n -> S]
  PROVE  f \in Seq(S) /\ Len(f) = n /\ DOMAIN f = 1 .. n
<1>1. f \in Seq(S)
  BY SeqDef
<1>2. 1 .. Len(f) = 1 .. n /\ Len(f) \in Nat
  BY <1>1, LenProperties
<1>. QED BY <1>1, <1>2

-----------------------------------------------------------------------------
(* What drainLog makes of the log *)

\* The greedy chunking exists: entry by entry, the last chunk grows or a new one begins.
LEMMA GreedyExists ==
  ASSUME NEW from \in Nat, NEW upTo \in Nat, from <= upTo
  PROVE  \E cut \in Cuts(from, upTo) : Greedy(cut, from, upTo)
<1>. DEFINE P(n) == \E cut \in Cuts(from, from + n) : Greedy(cut, from, from + n)
            T == {n \in Nat : P(n)}
<1>1. 0 \in T
  <2>. DEFINE cut == [i \in 1 .. 1 |-> from]
  <2>1. cut \in [1 .. 1 -> from .. from + 0] /\ from + 0 = from
    OBVIOUS
  <2>2. Len(cut) = 1 /\ cut[1] = from
    BY <2>1, TupleLemma
  <2>3. cut \in Cuts(from, from + 0)
    BY <2>1 DEF Cuts
  <2>. HIDE DEF cut
  <2>4. Greedy(cut, from, from + 0)
    BY <2>1, <2>2 DEF Greedy
  <2>. QED BY <2>3, <2>4
<1>2. ASSUME NEW n \in Nat, n \in T
      PROVE  n + 1 \in T
  <2>. DEFINE u == from + (n + 1)
  <2>1. PICK cut \in Cuts(from, from + n) : Greedy(cut, from, from + n)
    BY <1>2
  <2>2. PICK m \in 1 .. n + 1 : cut \in [1 .. m -> from .. from + n]
    BY <2>1 DEF Cuts
  <2>3. Len(cut) = m /\ m \in Nat /\ m >= 1
    BY <2>2, TupleLemma
  <2>4. /\ cut[1] = from /\ cut[m] = from + n
        /\ \A c \in 1 .. m - 1 :
             /\ cut[c] < cut[c + 1]
             /\ \A i \in cut[c] + 2 .. cut[c + 1] : Fits(cut[c] + 1, i)
             /\ c + 1 < m => ~Fits(cut[c] + 1, cut[c + 1] + 1)
    BY <2>1, <2>3 DEF Greedy
  <2>5. \A c \in 1 .. m : cut[c] \in from .. from + n
    BY <2>2
  <2>6. CASE m > 1 /\ Fits(cut[m - 1] + 1, u)
    <3>. DEFINE ext == [i \in 1 .. m |-> IF i = m THEN u ELSE cut[i]]
    <3>1. ext \in [1 .. m -> from .. u]
      BY <2>5
    <3>2. Len(ext) = m
      BY <2>3, <3>1, TupleLemma
    <3>3. ext \in Cuts(from, u)
      BY <3>1 DEF Cuts
    <3>4. ext[m] = u /\ \A c \in 1 .. m - 1 : ext[c] = cut[c]
      BY <2>3
    <3>. HIDE DEF ext
    <3>5. ext[1] = from
      BY <2>4, <2>6, <3>4
    <3>6. ASSUME NEW c \in 1 .. m - 1
          PROVE  /\ ext[c] < ext[c + 1]
                 /\ \A i \in ext[c] + 2 .. ext[c + 1] : Fits(ext[c] + 1, i)
                 /\ c + 1 < m => ~Fits(ext[c] + 1, ext[c + 1] + 1)
      <4>1. CASE c + 1 < m
        BY <2>4, <3>4, <4>1
      <4>2. CASE c = m - 1
        <5>1. ext[c] = cut[m - 1] /\ ext[c + 1] = u /\ cut[m - 1] < from + n
          BY <2>3, <2>4, <2>6, <3>4, <4>2
        <5>2. cut[m - 1] \in Nat
          BY <2>3, <2>5, <2>6
        <5>3. \A i \in cut[m - 1] + 2 .. u : i \in cut[m - 1] + 2 .. from + n \/ i = u
          BY <5>2
        <5>4. \A i \in cut[m - 1] + 2 .. from + n : Fits(cut[m - 1] + 1, i)
          <6>1. m - 1 \in 1 .. m - 1 /\ (m - 1) + 1 = m
            BY <2>3, <2>6
          <6>. QED BY <2>4, <6>1
        <5>. QED BY <2>6, <4>2, <5>1, <5>2, <5>3, <5>4
      <4>. QED BY <2>3, <4>1, <4>2
    <3>7. Greedy(ext, from, u)
      BY <3>2, <3>4, <3>5, <3>6 DEF Greedy
    <3>. QED BY <3>3, <3>7
  <2>7. CASE ~(m > 1 /\ Fits(cut[m - 1] + 1, u))
    <3>. DEFINE ext == [i \in 1 .. m + 1 |-> IF i = m + 1 THEN u ELSE cut[i]]
    <3>1. ext \in [1 .. m + 1 -> from .. u]
      BY <2>3, <2>5
    <3>2. Len(ext) = m + 1
      BY <2>3, <3>1, TupleLemma
    <3>3. ext \in Cuts(from, u)
      <4>1. m + 1 \in 1 .. u - from + 1
        BY <2>2, <2>3
      <4>. QED BY <3>1, <4>1 DEF Cuts
    <3>4. ext[m + 1] = u /\ \A c \in 1 .. m : ext[c] = cut[c]
      BY <2>3
    <3>. HIDE DEF ext
    <3>5. ext[1] = from
      BY <2>3, <2>4, <3>4
    <3>6. ASSUME NEW c \in 1 .. m
          PROVE  /\ ext[c] < ext[c + 1]
                 /\ \A i \in ext[c] + 2 .. ext[c + 1] : Fits(ext[c] + 1, i)
                 /\ c + 1 < m + 1 => ~Fits(ext[c] + 1, ext[c + 1] + 1)
      <4>1. CASE c < m
        <5>1. c \in 1 .. m - 1 /\ ext[c] = cut[c] /\ ext[c + 1] = cut[c + 1]
          BY <2>3, <3>4, <4>1
        <5>2. /\ cut[c] < cut[c + 1]
              /\ \A i \in cut[c] + 2 .. cut[c + 1] : Fits(cut[c] + 1, i)
              /\ c + 1 < m => ~Fits(cut[c] + 1, cut[c + 1] + 1)
          BY <2>4, <5>1
        <5>3. c + 1 = m => ~Fits(cut[c] + 1, cut[c + 1] + 1)
          <6>. SUFFICES ASSUME c + 1 = m PROVE ~Fits(cut[c] + 1, cut[c + 1] + 1)
            OBVIOUS
          <6>1. c = m - 1 /\ m > 1 /\ cut[c + 1] + 1 = u
            BY <2>3, <2>4, <5>1
          <6>. QED BY <2>7, <6>1
        <5>. QED BY <2>3, <5>1, <5>2, <5>3
      <4>2. CASE c = m
        <5>1. ext[c] = from + n /\ ext[c + 1] = u
          BY <2>3, <2>4, <3>4, <4>2
        <5>. QED BY <4>2, <5>1
      <4>. QED BY <2>3, <4>1, <4>2
    <3>7. Greedy(ext, from, u)
      BY <2>3, <3>2, <3>4, <3>5, <3>6 DEF Greedy
    <3>. QED BY <3>3, <3>7
  <2>. QED BY <2>6, <2>7
<1>3. \A n \in Nat : n \in T
  <2>. HIDE DEF T
  <2>. QED BY <1>1, <1>2, InductionOnNat
<1>4. upTo - from \in T /\ from + (upTo - from) = upTo
  BY <1>3
<1>. QED BY <1>4

\* Cuts that grow from each to the next one grow throughout.
LEMMA CutsGrow ==
  ASSUME NEW m \in Nat, NEW cut \in [1 .. m -> Nat],
         \A c \in 1 .. m - 1 : cut[c] < cut[c + 1]
  PROVE  \A i, j \in 1 .. m : i <= j => cut[i] <= cut[j]
<1>. DEFINE T == {n \in Nat : \A i, j \in 1 .. m : j = i + n => cut[i] <= cut[j]}
<1>1. 0 \in T
  OBVIOUS
<1>2. ASSUME NEW n \in Nat, n \in T
      PROVE  n + 1 \in T
  <2>. SUFFICES ASSUME NEW i \in 1 .. m, NEW j \in 1 .. m, j = i + (n + 1)
                PROVE  cut[i] <= cut[j]
    OBVIOUS
  <2>1. j - 1 \in 1 .. m /\ j - 1 = i + n /\ j - 1 \in 1 .. m - 1 /\ (j - 1) + 1 = j
    OBVIOUS
  <2>2. cut[i] <= cut[j - 1] /\ cut[j - 1] < cut[j]
    BY <1>2, <2>1
  <2>3. cut[i] \in Nat /\ cut[j - 1] \in Nat /\ cut[j] \in Nat
    BY <2>1
  <2>. QED BY <2>2, <2>3
<1>3. \A n \in Nat : n \in T
  <2>. HIDE DEF T
  <2>. QED BY <1>1, <1>2, InductionOnNat
<1>. SUFFICES ASSUME NEW i \in 1 .. m, NEW j \in 1 .. m, i <= j
              PROVE  cut[i] <= cut[j]
  OBVIOUS
<1>4. j - i \in Nat /\ j = i + (j - i)
  OBVIOUS
<1>5. j - i \in T
  BY <1>3, <1>4
<1>. QED BY <1>4, <1>5

\* The members of a finite set of naturals can be put in order.
LEMMA OrderExists ==
  ASSUME NEW n \in Nat, NEW S \in SUBSET (1 .. n)
  PROVE  /\ Cardinality(S) \in Nat
         /\ \E s \in [1 .. Cardinality(S) -> S] :
              \A i, j \in 1 .. Cardinality(S) : i < j => s[i] < s[j]
<1>. DEFINE Ordered(s, k) == \A i, j \in 1 .. k : i < j => s[i] < s[j]
            P(k) == \A Q \in SUBSET (1 .. k) :
                      \E s \in [1 .. Cardinality(Q) -> Q] : Ordered(s, Cardinality(Q))
            T == {k \in Nat : P(k)}
<1>1. \A k \in Nat : \A Q \in SUBSET (1 .. k) : IsFiniteSet(Q) /\ Cardinality(Q) \in Nat
  <2>. SUFFICES ASSUME NEW k \in Nat, NEW Q \in SUBSET (1 .. k)
                PROVE  IsFiniteSet(Q) /\ Cardinality(Q) \in Nat
    OBVIOUS
  <2>1. IsFiniteSet(1 .. k)
    BY FS_Interval
  <2>2. IsFiniteSet(Q)
    BY <2>1, FS_Subset
  <2>. QED BY <2>2, FS_CardinalityType
<1>2. 0 \in T
  <2>. SUFFICES ASSUME NEW Q \in SUBSET (1 .. 0)
                PROVE  \E s \in [1 .. Cardinality(Q) -> Q] : Ordered(s, Cardinality(Q))
    OBVIOUS
  <2>. HIDE DEF P, T
  <2>1. Q = {} /\ Cardinality({}) = 0
    BY FS_EmptySet
  <2>2. 1 .. Cardinality(Q) = {}
    BY <2>1
  <2>. DEFINE s == [i \in 1 .. Cardinality(Q) |-> 0]
  <2>3. s \in [1 .. Cardinality(Q) -> Q] /\ Ordered(s, Cardinality(Q))
    BY <2>2
  <2>. QED BY <2>3
<1>3. ASSUME NEW k \in Nat, k \in T
      PROVE  k + 1 \in T
  <2>. SUFFICES ASSUME NEW Q \in SUBSET (1 .. k + 1)
                PROVE  \E s \in [1 .. Cardinality(Q) -> Q] : Ordered(s, Cardinality(Q))
    OBVIOUS
  <2>1. CASE k + 1 \notin Q
    <3>1. Q \in SUBSET (1 .. k)
      BY <2>1
    <3>. QED BY <1>3, <3>1
  <2>2. CASE k + 1 \in Q
    <3>. DEFINE R == Q \ {k + 1}
                r == Cardinality(R)
    <3>1. R \in SUBSET (1 .. k)
      OBVIOUS
    <3>2. r \in Nat /\ Cardinality(Q) = r + 1
      <4>1. IsFiniteSet(Q) /\ Cardinality(Q) \in Nat /\ r \in Nat
        BY <1>1, <3>1
      <4>2. r = Cardinality(Q) - 1
        BY <2>2, <4>1, FS_RemoveElement
      <4>. QED BY <4>1, <4>2
    <3>3. PICK s \in [1 .. r -> R] : Ordered(s, r)
      BY <1>3, <3>1
    <3>. HIDE DEF r
    <3>. DEFINE t == [i \in 1 .. r + 1 |-> IF i = r + 1 THEN k + 1 ELSE s[i]]
    <3>4. t \in [1 .. r + 1 -> Q]
      BY <2>2, <3>2
    <3>5. ASSUME NEW i \in 1 .. r + 1, NEW j \in 1 .. r + 1, i < j
          PROVE  t[i] < t[j]
      <4>1. i \in 1 .. r /\ t[i] = s[i] /\ s[i] \in 1 .. k
        <5>1. i \in 1 .. r /\ i # r + 1
          BY <3>2, <3>5
        <5>2. s[i] \in R
          BY <5>1
        <5>. QED BY <3>1, <5>1, <5>2
      <4>2. CASE j = r + 1
        BY <3>2, <4>1, <4>2
      <4>3. CASE j \in 1 .. r
        BY <3>2, <3>3, <3>5, <4>1, <4>3
      <4>. QED BY <3>2, <4>2, <4>3
    <3>. HIDE DEF t
    <3>6. Ordered(t, r + 1)
      BY <3>5
    <3>. QED BY <3>2, <3>4, <3>6
  <2>. QED BY <2>1, <2>2
<1>4. n \in T
  <2>. HIDE DEF T
  <2>. QED BY <1>2, <1>3, InductionOnNat
<1>. QED BY <1>1, <1>4

-----------------------------------------------------------------------------
(* Sequences of payloads *)

PayloadType == [kind : EventKind, entries : Seq(Index)]

\* Payloads of some kinds that carry entries from + 1 .. upTo, of each kind in the order
\* of the log and none twice.
Tidy(d, kinds, from, upTo) ==
  /\ d \in Seq(PayloadType)
  /\ \A j \in 1 .. Len(d) : /\ d[j].kind \in kinds
                            /\ ToSet(d[j].entries) \subseteq from + 1 .. upTo
  /\ \A j \in 1 .. Len(d) : \A i \in 1 .. j - 1 :
       d[i].kind = d[j].kind =>
         \A a \in ToSet(d[i].entries), b \in ToSet(d[j].entries) : a < b

LEMMA TidyConcat ==
  ASSUME NEW K, NEW L, K \cap L = {}, NEW from, NEW upTo,
         NEW d, NEW e, Tidy(d, K, from, upTo), Tidy(e, L, from, upTo)
  PROVE  Tidy(d \o e, K \cup L, from, upTo)
<1>. DEFINE c == d \o e
<1>1. d \in Seq(PayloadType) /\ e \in Seq(PayloadType)
  BY DEF Tidy
<1>2. /\ c \in Seq(PayloadType) /\ Len(c) = Len(d) + Len(e)
      /\ Len(d) \in Nat /\ Len(e) \in Nat
      /\ \A j \in 1 .. Len(d) + Len(e) :
           c[j] = IF j <= Len(d) THEN d[j] ELSE e[j - Len(d)]
  BY <1>1, ConcatProperties, LenProperties
<1>. HIDE DEF c
<1>3. ASSUME NEW j \in 1 .. Len(c)
      PROVE  \/ j \in 1 .. Len(d) /\ c[j] = d[j]
             \/ j - Len(d) \in 1 .. Len(e) /\ c[j] = e[j - Len(d)]
  BY <1>2
<1>4. ASSUME NEW j \in 1 .. Len(c)
      PROVE  c[j].kind \in K \cup L /\ ToSet(c[j].entries) \subseteq from + 1 .. upTo
  BY <1>3 DEF Tidy
<1>5. ASSUME NEW j \in 1 .. Len(c), NEW i \in 1 .. j - 1, c[i].kind = c[j].kind
      PROVE  \A a \in ToSet(c[i].entries), b \in ToSet(c[j].entries) : a < b
  <2>1. i \in 1 .. Len(c)
    BY <1>2
  <2>2. CASE j <= Len(d)
    <3>1. j \in 1 .. Len(d) /\ i \in 1 .. j - 1 /\ c[i] = d[i] /\ c[j] = d[j]
      BY <1>2, <2>2
    <3>. QED BY <1>5, <3>1 DEF Tidy
  <2>3. CASE i > Len(d)
    <3>1. /\ j - Len(d) \in 1 .. Len(e) /\ i - Len(d) \in 1 .. (j - Len(d)) - 1
          /\ c[i] = e[i - Len(d)] /\ c[j] = e[j - Len(d)]
      BY <1>2, <2>3
    <3>. QED BY <1>5, <3>1 DEF Tidy
  <2>4. CASE i <= Len(d) /\ j > Len(d)
    <3>1. c[i].kind \in K
      <4>1. i \in 1 .. Len(d) /\ c[i] = d[i]
        BY <1>2, <2>4
      <4>. QED BY <4>1 DEF Tidy
    <3>2. c[j].kind \in L
      <4>1. j - Len(d) \in 1 .. Len(e) /\ c[j] = e[j - Len(d)]
        BY <1>2, <2>4
      <4>. QED BY <4>1 DEF Tidy
    <3>. QED BY <1>5, <3>1, <3>2
  <2>. QED BY <1>2, <2>2, <2>3, <2>4
<1>6. Tidy(c, K \cup L, from, upTo)
  BY <1>2, <1>4, <1>5 DEF Tidy
<1>. QED BY <1>6 DEF c

LEMMA PayloadLemma ==
  ASSUME NEW k, NEW s
  PROVE  Payload(k, s).kind = k /\ Payload(k, s).entries = s
  BY DEF Payload

\* The chunks split the fresh entries in order.
LEMMA ChunksTidy ==
  ASSUME NEW from \in Nat, NEW upTo \in Nat, from <= upTo, upTo <= MaxLog
  PROVE  LET chunks == ChunkEntries(from, upTo)
         IN  Tidy([i \in DOMAIN chunks |-> Payload("commands", chunks[i])],
                  {"commands"}, from, upTo)
<1>. DEFINE cut == CHOOSE cut \in Cuts(from, upTo) : Greedy(cut, from, upTo)
            chunks == ChunkEntries(from, upTo)
            d == [i \in DOMAIN chunks |-> Payload("commands", chunks[i])]
<1>1. cut \in Cuts(from, upTo) /\ Greedy(cut, from, upTo)
  BY GreedyExists
<1>2. chunks = [c \in 1 .. Len(cut) - 1 |-> [j \in 1 .. cut[c + 1] - cut[c] |-> cut[c] + j]]
  BY DEF ChunkEntries
<1>. HIDE DEF cut, chunks
<1>3. PICK m \in 1 .. upTo - from + 1 : cut \in [1 .. m -> from .. upTo]
  BY <1>1 DEF Cuts
<1>4. Len(cut) = m /\ m \in Nat /\ m - 1 \in Nat
  BY <1>3, TupleLemma
<1>5. \A c \in 1 .. m - 1 : cut[c] < cut[c + 1]
  BY <1>1, <1>4 DEF Greedy
<1>6. \A i, j \in 1 .. m : i <= j => cut[i] <= cut[j]
  <2>1. cut \in [1 .. m -> Nat]
    BY <1>3
  <2>. QED BY <1>4, <1>5, <2>1, CutsGrow
<1>7. ASSUME NEW c \in 1 .. m - 1
      PROVE  /\ chunks[c] \in Seq(Index)
             /\ ToSet(chunks[c]) \subseteq cut[c] + 1 .. cut[c + 1]
             /\ cut[c] \in from .. upTo /\ cut[c + 1] \in from .. upTo
  <2>. DEFINE n == cut[c + 1] - cut[c]
  <2>1. c \in 1 .. m /\ c + 1 \in 1 .. m
    BY <1>4
  <2>2. cut[c] \in from .. upTo /\ cut[c + 1] \in from .. upTo /\ n \in Nat
    BY <1>3, <1>5, <2>1
  <2>3. chunks[c] = [j \in 1 .. n |-> cut[c] + j]
    BY <1>2, <1>4
  <2>4. \A j \in 1 .. n : cut[c] + j \in cut[c] + 1 .. cut[c + 1] /\ cut[c] + j \in 1 .. MaxLog
    BY <2>2, ShareAssumption
  <2>. HIDE DEF n
  <2>5. chunks[c] \in [1 .. n -> Index]
    BY <2>3, <2>4 DEF Index
  <2>6. chunks[c] \in Seq(Index) /\ DOMAIN chunks[c] = 1 .. n
    BY <2>2, <2>5, TupleLemma
  <2>7. ToSet(chunks[c]) \subseteq cut[c] + 1 .. cut[c + 1]
    BY <2>3, <2>4, <2>6 DEF ToSet
  <2>. QED BY <2>2, <2>6, <2>7
<1>8. DOMAIN chunks = 1 .. m - 1
  BY <1>2, <1>4
<1>9. \A c \in 1 .. m - 1 : d[c].kind = "commands" /\ d[c].entries = chunks[c]
  BY <1>8, PayloadLemma
<1>10. d \in [1 .. m - 1 -> PayloadType]
  <2>1. \A c \in 1 .. m - 1 : Payload("commands", chunks[c]) \in PayloadType
    BY <1>7 DEF Payload, PayloadType, EventKind
  <2>. QED BY <1>8, <2>1
<1>. HIDE DEF d
<1>11. d \in Seq(PayloadType) /\ Len(d) = m - 1
  BY <1>4, <1>10, TupleLemma
<1>12. ASSUME NEW j \in 1 .. m - 1
       PROVE  d[j].kind \in {"commands"} /\ ToSet(d[j].entries) \subseteq from + 1 .. upTo
  <2>1. cut[j] + 1 .. cut[j + 1] \subseteq from + 1 .. upTo
    BY <1>7
  <2>. QED BY <1>7, <1>9, <2>1
<1>13. ASSUME NEW j \in 1 .. m - 1, NEW i \in 1 .. j - 1
       PROVE  \A a \in ToSet(d[i].entries), b \in ToSet(d[j].entries) : a < b
  <2>1. i \in 1 .. m - 1 /\ i + 1 \in 1 .. m /\ j \in 1 .. m /\ i + 1 <= j
    BY <1>4
  <2>2. cut[i + 1] <= cut[j]
    BY <1>6, <2>1
  <2>3. \A a \in ToSet(d[i].entries) : a \in cut[i] + 1 .. cut[i + 1]
    BY <1>7, <1>9, <2>1
  <2>4. \A b \in ToSet(d[j].entries) : b \in cut[j] + 1 .. cut[j + 1]
    BY <1>7, <1>9
  <2>5. {cut[i], cut[i + 1], cut[j], cut[j + 1]} \subseteq Int
    BY <1>7, <2>1
  <2>. QED BY <2>2, <2>3, <2>4, <2>5
<1>14. Tidy(d, {"commands"}, from, upTo)
  BY <1>11, <1>12, <1>13 DEF Tidy
<1>. QED BY <1>14 DEF d, chunks

\* The entries of a kind, in the order of the log.
LEMMA OfKindInOrder ==
  ASSUME NEW from \in Nat, NEW upTo \in Nat, NEW kind
  PROVE  LET s == OfKind(kind, from, upTo)
         IN  /\ s \in Seq(from + 1 .. upTo)
             /\ \A j \in 1 .. Len(s) : \A i \in 1 .. j - 1 : s[i] < s[j]
<1>. DEFINE found == {i \in from + 1 .. upTo : log[i] = kind}
            n == Cardinality(found)
            Up(s) == \A i, j \in 1 .. n : i < j => s[i] < s[j]
            s == OfKind(kind, from, upTo)
<1>1. found \in SUBSET (1 .. upTo)
  OBVIOUS
<1>2. s = CHOOSE t \in [1 .. n -> found] : Up(t)
  BY DEF OfKind
<1>. HIDE DEF s
<1>3. n \in Nat /\ \E t \in [1 .. n -> found] : Up(t)
  <2>. HIDE DEF found
  <2>. QED BY <1>1, OrderExists
<1>. HIDE DEF n
<1>4. s \in [1 .. n -> found] /\ Up(s)
  BY <1>2, <1>3
<1>5. s \in [1 .. n -> from + 1 .. upTo]
  BY <1>4
<1>6. s \in Seq(from + 1 .. upTo) /\ Len(s) = n
  BY <1>3, <1>5, TupleLemma
<1>7. \A j \in 1 .. n : \A i \in 1 .. j - 1 : s[i] < s[j]
  BY <1>3, <1>4
<1>. QED BY <1>6, <1>7 DEF s

\* One payload each, with one entry each.
LEMMA SinglesTidy ==
  ASSUME NEW from \in Nat, NEW upTo \in Nat, upTo <= MaxLog, NEW kind \in EventKind,
         NEW s \in Seq(from + 1 .. upTo),
         \A j \in 1 .. Len(s) : \A i \in 1 .. j - 1 : s[i] < s[j]
  PROVE  Tidy([i \in DOMAIN s |-> Payload(kind, <<s[i]>>)], {kind}, from, upTo)
<1>. DEFINE d == [i \in DOMAIN s |-> Payload(kind, <<s[i]>>)]
            n == Len(s)
<1>1. n \in Nat /\ DOMAIN s = 1 .. n /\ \A i \in 1 .. n : s[i] \in from + 1 .. upTo
  BY LenProperties, ElementOfSeq
<1>2. \A i \in 1 .. n : s[i] \in Index
  BY <1>1, ShareAssumption DEF Index
<1>3. \A i \in 1 .. n : d[i].kind = kind /\ d[i].entries = <<s[i]>>
  BY <1>1, PayloadLemma
<1>4. \A i \in 1 .. n : ToSet(d[i].entries) = {s[i]}
  <2>1. \A x : ToSet(<<x>>) = {x}
    BY DEF ToSet
  <2>. QED BY <1>3, <2>1
<1>5. d \in [1 .. n -> PayloadType]
  <2>1. \A i \in 1 .. n : Payload(kind, <<s[i]>>) \in PayloadType
    BY <1>2 DEF Payload, PayloadType
  <2>. QED BY <1>1, <2>1
<1>. HIDE DEF d, n
<1>6. d \in Seq(PayloadType) /\ Len(d) = n
  BY <1>1, <1>5, TupleLemma
<1>7. \A j \in 1 .. n : d[j].kind \in {kind} /\ ToSet(d[j].entries) \subseteq from + 1 .. upTo
  BY <1>1, <1>3, <1>4
<1>8. \A j \in 1 .. n : \A i \in 1 .. j - 1 :
        \A a \in ToSet(d[i].entries), b \in ToSet(d[j].entries) : a < b
  <2>. SUFFICES ASSUME NEW j \in 1 .. n, NEW i \in 1 .. j - 1
                PROVE  \A a \in ToSet(d[i].entries), b \in ToSet(d[j].entries) : a < b
    OBVIOUS
  <2>1. i \in 1 .. n
    BY <1>1
  <2>2. s[i] < s[j]
    BY DEF n
  <2>. QED BY <1>4, <2>1, <2>2
<1>9. Tidy(d, {kind}, from, upTo)
  BY <1>6, <1>7, <1>8 DEF Tidy
<1>. QED BY <1>9 DEF d

\* What drainLog queues carries the fresh entries only, of each kind in order.
LEMMA DrainedTidy ==
  ASSUME NEW from \in Nat, NEW upTo \in Nat, from <= upTo, upTo <= MaxLog
  PROVE  Tidy(Drained(from, upTo), {"commands", "error", "result"}, from, upTo)
<1>. DEFINE commands == ChunkEntries(from, upTo)
            errors == OfKind("errorRaised", from, upTo)
            results == OfKind("resultReceived", from, upTo)
            last == IF results = <<>> THEN <<>> ELSE <<Last(results)>>
            c == [i \in DOMAIN commands |-> Payload("commands", commands[i])]
            e == [i \in DOMAIN errors |-> Payload("error", <<errors[i]>>)]
            r == IF results = <<>> THEN <<>> ELSE <<Payload("result", <<Last(results)>>)>>
<1>1. Tidy(c, {"commands"}, from, upTo)
  BY ChunksTidy
<1>2. /\ errors \in Seq(from + 1 .. upTo)
      /\ \A j \in 1 .. Len(errors) : \A i \in 1 .. j - 1 : errors[i] < errors[j]
  BY OfKindInOrder
<1>3. Tidy(e, {"error"}, from, upTo)
  <2>. HIDE DEF errors
  <2>. QED BY <1>2, SinglesTidy DEF EventKind
<1>4. results \in Seq(from + 1 .. upTo)
  BY OfKindInOrder
<1>. HIDE DEF results
<1>5. /\ last \in Seq(from + 1 .. upTo)
      /\ \A j \in 1 .. Len(last) : \A i \in 1 .. j - 1 : last[i] < last[j]
      /\ r = [i \in DOMAIN last |-> Payload("result", <<last[i]>>)]
  <2>1. CASE results = <<>>
    BY <2>1
  <2>2. CASE results # <<>>
    <3>1. Len(results) \in 1 .. Len(results)
      BY <1>4, <2>2, EmptySeq
    <3>2. Last(results) \in from + 1 .. upTo
      BY <1>4, <3>1, ElementOfSeq DEF Last
    <3>3. last = <<Last(results)>>
      BY <2>2
    <3>. HIDE DEF last
    <3>4. last \in Seq(from + 1 .. upTo) /\ Len(last) = 1 /\ last[1] = Last(results)
          /\ DOMAIN last = 1 .. 1
      BY <3>2, <3>3
    <3>5. r = <<Payload("result", <<last[1]>>)>>
      BY <2>2, <3>4
    <3>. HIDE DEF r
    <3>6. <<Payload("result", <<last[1]>>)>> = [i \in 1 .. 1 |-> Payload("result", <<last[i]>>)]
      OBVIOUS
    <3>. QED BY <3>4, <3>5, <3>6
  <2>. QED BY <2>1, <2>2
<1>6. Tidy(r, {"result"}, from, upTo)
  <2>. HIDE DEF last, r
  <2>. QED BY <1>5, SinglesTidy DEF EventKind
<1>. HIDE DEF c, e, r
<1>7. Tidy(c \o e, {"commands"} \cup {"error"}, from, upTo)
  BY <1>1, <1>3, TidyConcat
<1>8. Tidy((c \o e) \o r, ({"commands"} \cup {"error"}) \cup {"result"}, from, upTo)
  <2>1. ({"commands"} \cup {"error"}) \cap {"result"} = {}
    OBVIOUS
  <2>. QED BY <1>6, <1>7, <2>1, TidyConcat
<1>9. ({"commands"} \cup {"error"}) \cup {"result"} = {"commands", "error", "result"}
  OBVIOUS
<1>10. Drained(from, upTo) = (c \o e) \o r
  BY DEF Drained, c, e, r, results
<1>. QED BY <1>8, <1>9, <1>10

-----------------------------------------------------------------------------
(* The pipeline *)

\* A pipeline behind its counters: events are numbered in order up to `number`, carry
\* entries up to `read`, of each kind in order and none twice, and none that is hidden.
Behind(p, number, read, hidden) ==
  /\ p \in Seq(Event)
  /\ \A j \in 1 .. Len(p) : /\ p[j].seq <= number
                            /\ ToSet(p[j].entries) \subseteq 1 .. read
                            /\ ToSet(p[j].entries) \cap hidden = {}
  /\ \A j \in 1 .. Len(p) : \A i \in 1 .. j - 1 :
       /\ p[i].seq < p[j].seq
       /\ p[i].kind = p[j].kind =>
            \A a \in ToSet(p[i].entries), b \in ToSet(p[j].entries) : a < b

\* The counters may move on, and entries not read yet may be hidden.
LEMMA CountersMove ==
  ASSUME NEW p, NEW number \in Nat, NEW read \in Nat, NEW hidden,
         Behind(p, number, read, hidden),
         NEW numberN \in Nat, NEW readN \in Nat, NEW hiddenN,
         number <= numberN, read <= readN, hiddenN \cap (1 .. read) \subseteq hidden
  PROVE  Behind(p, numberN, readN, hiddenN)
<1>1. ASSUME NEW j \in 1 .. Len(p)
      PROVE  /\ p[j].seq <= numberN
             /\ ToSet(p[j].entries) \subseteq 1 .. readN
             /\ ToSet(p[j].entries) \cap hiddenN = {}
  <2>1. p[j] \in Event
    BY ElementOfSeq DEF Behind
  <2>2. p[j].seq \in Nat
    BY <2>1 DEF Event
  <2>3. /\ p[j].seq <= number /\ ToSet(p[j].entries) \subseteq 1 .. read
        /\ ToSet(p[j].entries) \cap hidden = {}
    BY DEF Behind
  <2>4. 1 .. read \subseteq 1 .. readN
    OBVIOUS
  <2>. QED BY <2>2, <2>3, <2>4
<1>. QED BY <1>1 DEF Behind

\* The end of a pipeline may be dropped.
LEMMA EndDropped ==
  ASSUME NEW p, NEW q \in Seq(Event), NEW number, NEW read, NEW hidden,
         p \in Seq(Event), Behind(p \o q, number, read, hidden)
  PROVE  Behind(p, number, read, hidden)
<1>. DEFINE c == p \o q
<1>1. /\ Len(p) \in Nat /\ Len(q) \in Nat /\ Len(c) = Len(p) + Len(q)
      /\ \A j \in 1 .. Len(p) : c[j] = p[j]
  BY ConcatProperties, LenProperties
<1>. HIDE DEF c
<1>2. Behind(c, number, read, hidden)
  BY DEF c
<1>3. \A j \in 1 .. Len(p) : j \in 1 .. Len(c) /\ \A i \in 1 .. j - 1 : i \in 1 .. Len(p)
  BY <1>1
<1>. QED BY <1>1, <1>2, <1>3 DEF Behind

\* A pipeline grows by tidy payloads, numbered on, of entries read just now.
LEMMA PipelineGrows ==
  ASSUME NEW p, NEW number \in Nat, NEW from \in Nat, NEW upTo \in Nat, from <= upTo,
         NEW hidden, hidden \subseteq 1 .. from,
         Behind(p, number, from, hidden),
         NEW d, NEW kinds, Tidy(d, kinds, from, upTo),
         NEW e, e \in Seq(Event), Len(e) = Len(d),
         \A i \in 1 .. Len(d) : /\ e[i].kind = d[i].kind
                                /\ e[i].entries = d[i].entries
                                /\ e[i].seq = number + i
  PROVE  Behind(p \o e, number + Len(e), upTo, hidden)
<1>. DEFINE c == p \o e
<1>1. /\ p \in Seq(Event) /\ c \in Seq(Event)
      /\ Len(p) \in Nat /\ Len(e) \in Nat /\ Len(c) = Len(p) + Len(e)
      /\ \A j \in 1 .. Len(p) + Len(e) : c[j] = IF j <= Len(p) THEN p[j] ELSE e[j - Len(p)]
  <2>1. p \in Seq(Event)
    BY DEF Behind
  <2>. QED BY <2>1, ConcatProperties, LenProperties
<1>. HIDE DEF c
<1>2. ASSUME NEW j \in 1 .. Len(p)
      PROVE  /\ c[j] = p[j] /\ p[j].seq \in Nat /\ p[j].seq <= number
             /\ ToSet(p[j].entries) \subseteq 1 .. from
             /\ ToSet(p[j].entries) \cap hidden = {}
  <2>1. p[j] \in Event
    BY <1>1, ElementOfSeq
  <2>2. p[j].seq \in Nat
    BY <2>1 DEF Event
  <2>3. c[j] = p[j]
    BY <1>1
  <2>4. /\ p[j].seq <= number /\ ToSet(p[j].entries) \subseteq 1 .. from
        /\ ToSet(p[j].entries) \cap hidden = {}
    BY DEF Behind
  <2>. QED BY <2>2, <2>3, <2>4
<1>3. ASSUME NEW k \in 1 .. Len(e)
      PROVE  /\ c[Len(p) + k] = e[k]
             /\ e[k].seq = number + k /\ e[k].kind = d[k].kind /\ e[k].entries = d[k].entries
             /\ ToSet(e[k].entries) \subseteq from + 1 .. upTo
  <2>1. Len(p) + k \in 1 .. Len(p) + Len(e) /\ ~(Len(p) + k <= Len(p)) /\ (Len(p) + k) - Len(p) = k
    BY <1>1
  <2>2. c[Len(p) + k] = e[k]
    BY <1>1, <2>1
  <2>3. ToSet(d[k].entries) \subseteq from + 1 .. upTo
    BY DEF Tidy
  <2>. QED BY <2>2, <2>3
<1>4. ASSUME NEW j \in 1 .. Len(c)
      PROVE  j \in 1 .. Len(p) \/ (j > Len(p) /\ \E k \in 1 .. Len(e) : j = Len(p) + k)
  <2>1. j > Len(p) => j - Len(p) \in 1 .. Len(e) /\ j = Len(p) + (j - Len(p))
    BY <1>1
  <2>. QED BY <1>1, <2>1
<1>5. ASSUME NEW j \in 1 .. Len(c)
      PROVE  /\ c[j].seq <= number + Len(e)
             /\ ToSet(c[j].entries) \subseteq 1 .. upTo
             /\ ToSet(c[j].entries) \cap hidden = {}
  <2>1. CASE j \in 1 .. Len(p)
    <3>1. 1 .. from \subseteq 1 .. upTo
      OBVIOUS
    <3>2. /\ c[j] = p[j] /\ p[j].seq \in Nat /\ p[j].seq <= number
          /\ ToSet(p[j].entries) \subseteq 1 .. from
          /\ ToSet(p[j].entries) \cap hidden = {}
      BY <1>2, <2>1
    <3>3. p[j].seq <= number + Len(e)
      BY <1>1, <3>2
    <3>. QED BY <3>1, <3>2, <3>3
  <2>2. ASSUME NEW k \in 1 .. Len(e), j = Len(p) + k
        PROVE  /\ c[j].seq <= number + Len(e)
               /\ ToSet(c[j].entries) \subseteq 1 .. upTo
               /\ ToSet(c[j].entries) \cap hidden = {}
    <3>1. from + 1 .. upTo \subseteq 1 .. upTo /\ (from + 1 .. upTo) \cap hidden = {}
      OBVIOUS
    <3>2. /\ c[j] = e[k] /\ e[k].seq = number + k
          /\ ToSet(e[k].entries) \subseteq from + 1 .. upTo
      BY <1>3, <2>2
    <3>3. c[j].seq <= number + Len(e)
      BY <1>1, <3>2
    <3>. QED BY <3>1, <3>2, <3>3
  <2>. QED BY <1>4, <2>1, <2>2
<1>6. ASSUME NEW j \in 1 .. Len(c), NEW i \in 1 .. j - 1
      PROVE  /\ c[i].seq < c[j].seq
             /\ c[i].kind = c[j].kind =>
                  \A a \in ToSet(c[i].entries), b \in ToSet(c[j].entries) : a < b
  <2>1. i \in 1 .. Len(c)
    BY <1>1
  <2>2. CASE j \in 1 .. Len(p)
    <3>1. i \in 1 .. Len(p)
      BY <1>1, <2>2
    <3>. QED BY <1>2, <2>2, <3>1 DEF Behind
  <2>3. ASSUME NEW k \in 1 .. Len(e), j = Len(p) + k, i \in 1 .. Len(p)
        PROVE  /\ c[i].seq < c[j].seq
               /\ \A a \in ToSet(c[i].entries), b \in ToSet(c[j].entries) : a < b
    <3>1. c[i].seq < c[j].seq
      <4>1. c[i].seq \in Nat /\ c[i].seq <= number
        BY <1>2, <2>3
      <4>2. c[j] = e[k] /\ c[j].seq = number + k /\ k >= 1 /\ k \in Nat
        BY <1>1, <1>3, <2>3
      <4>. QED BY <4>1, <4>2
    <3>2. ASSUME NEW a \in ToSet(c[i].entries), NEW b \in ToSet(c[j].entries)
          PROVE  a < b
      <4>1. a \in 1 .. from /\ b \in from + 1 .. upTo
        BY <1>2, <1>3, <2>3, <3>2
      <4>. QED BY <4>1
    <3>. QED BY <3>1, <3>2
  <2>4. ASSUME NEW k \in 1 .. Len(e), j = Len(p) + k, NEW l \in 1 .. Len(e), i = Len(p) + l
        PROVE  /\ c[i].seq < c[j].seq
               /\ c[i].kind = c[j].kind =>
                    \A a \in ToSet(c[i].entries), b \in ToSet(c[j].entries) : a < b
    <3>1. l \in 1 .. k - 1
      BY <1>1, <2>4
    <3>2. c[i] = e[l] /\ c[j] = e[k]
      BY <1>3, <2>4
    <3>3. c[i].seq < c[j].seq
      BY <1>1, <1>3, <3>1, <3>2
    <3>4. d[l].kind = d[k].kind =>
            \A a \in ToSet(d[l].entries), b \in ToSet(d[k].entries) : a < b
      BY <3>1 DEF Tidy
    <3>. QED BY <1>3, <3>2, <3>3, <3>4
  <2>. QED BY <1>4, <2>1, <2>2, <2>3, <2>4
<1>7. Behind(c, number + Len(e), upTo, hidden)
  BY <1>1, <1>5, <1>6 DEF Behind
<1>. QED BY <1>7 DEF c

\* The payloads of drainLog as events.
LEMMA NumberedLemma ==
  ASSUME TypeOK, NEW d \in Seq(PayloadType)
  PROVE  /\ Numbered(d) \in Seq(Event) /\ Len(Numbered(d)) = Len(d)
         /\ \A i \in 1 .. Len(d) : /\ Numbered(d)[i].kind = d[i].kind
                                   /\ Numbered(d)[i].entries = d[i].entries
                                   /\ Numbered(d)[i].seq = seq + i
<1>1. Len(d) \in Nat /\ DOMAIN d = 1 .. Len(d) /\ \A i \in 1 .. Len(d) : d[i] \in PayloadType
  BY LenProperties, ElementOfSeq
<1>2. ASSUME NEW i \in 1 .. Len(d)
      PROVE  /\ Numbered(d)[i].kind = d[i].kind
             /\ Numbered(d)[i].entries = d[i].entries
             /\ Numbered(d)[i].seq = seq + i
             /\ Numbered(d)[i] \in Event
  <2>1. Numbered(d)[i] = [kind |-> d[i].kind, seq |-> seq + i, session |-> session,
                          entries |-> d[i].entries]
    BY <1>1 DEF Numbered, EventOf
  <2>2. seq + i \in Nat /\ session \in 1 .. MaxLoads
    BY ShareAssumption DEF TypeOK
  <2>3. d[i].kind \in EventKind /\ d[i].entries \in Seq(Index)
    BY <1>1 DEF PayloadType
  <2>. QED BY <2>1, <2>2, <2>3 DEF Event
<1>3. Numbered(d) \in [1 .. Len(d) -> Event]
  <2>1. Numbered(d) = [i \in 1 .. Len(d) |-> Numbered(d)[i]]
    BY <1>1 DEF Numbered
  <2>. HIDE DEF Numbered
  <2>. QED BY <1>2, <2>1
<1>4. Numbered(d) \in Seq(Event) /\ Len(Numbered(d)) = Len(d)
  BY <1>1, <1>3, TupleLemma
<1>. QED BY <1>2, <1>4

\* The first of the events taken over goes to fetch, the others wait.
LEMMA HandOver ==
  ASSUME NEW S, NEW s \in Seq(S), NEW t \in Seq(S), t # <<>>
  PROVE  Append(s, Head(t)) \o Tail(t) = s \o t
<1>. DEFINE a == Append(s, Head(t))
            l == a \o Tail(t)
            r == s \o t
<1>1. /\ Head(t) \in S /\ Tail(t) \in Seq(S) /\ Len(Tail(t)) = Len(t) - 1
      /\ \A i \in 1 .. Len(Tail(t)) : Tail(t)[i] = t[i + 1]
      /\ Len(t) \in Nat /\ Len(t) > 0 /\ Head(t) = t[1]
  BY HeadTailProperties, EmptySeq, LenProperties
<1>2. /\ a \in Seq(S) /\ Len(a) = Len(s) + 1 /\ Len(s) \in Nat
      /\ \A i \in 1 .. Len(s) : a[i] = s[i]
      /\ a[Len(s) + 1] = Head(t)
  BY <1>1, AppendProperties, LenProperties
<1>. HIDE DEF a
<1>3. /\ l \in Seq(S) /\ Len(l) = Len(a) + Len(Tail(t))
      /\ \A i \in 1 .. Len(a) + Len(Tail(t)) : l[i] = IF i <= Len(a) THEN a[i] ELSE Tail(t)[i - Len(a)]
  BY <1>1, <1>2, ConcatProperties
<1>4. /\ r \in Seq(S) /\ Len(r) = Len(s) + Len(t)
      /\ \A i \in 1 .. Len(s) + Len(t) : r[i] = IF i <= Len(s) THEN s[i] ELSE t[i - Len(s)]
  BY ConcatProperties
<1>. HIDE DEF l, r
<1>5. Len(l) = Len(r)
  BY <1>1, <1>2, <1>3, <1>4
<1>6. ASSUME NEW i \in 1 .. Len(l)
      PROVE  l[i] = r[i]
  <2>1. CASE i <= Len(s)
    BY <1>1, <1>2, <1>3, <1>4, <1>5, <2>1
  <2>2. CASE i = Len(s) + 1
    BY <1>1, <1>2, <1>3, <1>4, <1>5, <2>2
  <2>3. CASE i > Len(s) + 1
    <3>1. i - Len(a) \in 1 .. Len(Tail(t)) /\ (i - Len(a)) + 1 = i - Len(s)
      BY <1>1, <1>2, <1>3, <2>3
    <3>2. l[i] = Tail(t)[i - Len(a)]
      <4>1. i \in 1 .. Len(a) + Len(Tail(t)) /\ ~(i <= Len(a))
        BY <1>1, <1>2, <1>3, <2>3
      <4>. QED BY <1>3, <4>1
    <3>3. r[i] = t[i - Len(s)]
      BY <1>1, <1>2, <1>4, <1>5, <2>3
    <3>. QED BY <1>1, <3>1, <3>2, <3>3
  <2>. QED BY <1>2, <1>3, <1>1, <2>1, <2>2, <2>3
<1>7. l = r
  BY <1>3, <1>4, <1>5, <1>6, SeqEqual
<1>. QED BY <1>7 DEF a, l, r

-----------------------------------------------------------------------------
(* The inductive invariant *)

Sequences3 == /\ queue \in Seq(Event) /\ batch \in Seq(Event) /\ posted \in Seq(Event)

IInv ==
  /\ TypeOK
  /\ Sequences3
  /\ Behind(Pipeline, seq, sentEntries, private)
  /\ ~enabled => queue = <<>>
  /\ enabled => private \subseteq 1 .. sentEntries

\* The events of the flush under way that fetch has not got.
Rest == IF batch = <<>> THEN <<>> ELSE Tail(batch)

LEMMA PipelineLemma ==
  ASSUME Sequences3
  PROVE  /\ Rest \in Seq(Event) /\ posted \o Rest \in Seq(Event) /\ Pipeline \in Seq(Event)
         /\ Pipeline = (posted \o Rest) \o queue
<1>1. Rest \in Seq(Event)
  BY EmptySeq, HeadTailProperties DEF Sequences3, Rest
<1>2. posted \o Rest \in Seq(Event)
  BY <1>1, ConcatProperties DEF Sequences3
<1>3. Pipeline = (posted \o Rest) \o queue
  BY DEF Pipeline, Rest
<1>4. Pipeline \in Seq(Event)
  BY <1>2, <1>3, ConcatProperties DEF Sequences3
<1>. QED BY <1>1, <1>2, <1>3, <1>4

\* The elements of a sequence of events are events.
LEMMA EventsTyped == \A s \in Seq(Event) : \A e \in ToSet(s) : e \in Event
  BY LenProperties, ElementOfSeq DEF ToSet

\* The part of TypeOK that is not about events.
CountersTyped ==
  /\ log \in Seq(EntryKind) /\ Len(log) <= MaxLog
  /\ enabled \in BOOLEAN /\ disposed \in BOOLEAN
  /\ sentEntries \in 0 .. Len(log)
  /\ seq \in Nat
  /\ timer \in {"off", "armed", "fired"}
  /\ flushes \in Nat
  /\ load \in 1 .. MaxLoads /\ session \in 1 .. load
  /\ private \subseteq 1 .. Len(log)
  /\ lastSeq \in [1 .. MaxLoads -> Nat]

LEMMA TypedLemma ==
  ASSUME Sequences3
  PROVE  TypeOK <=> CountersTyped
<1>1. \A e \in ToSet(queue) \cup ToSet(batch) \cup ToSet(posted) : e \in Event
  BY EventsTyped DEF Sequences3
<1>. QED BY <1>1 DEF TypeOK, CountersTyped

LEMMA TypedNext ==
  ASSUME Sequences3', CountersTyped'
  PROVE  TypeOK'
<1>1. \A e \in ToSet(queue') \cup ToSet(batch') \cup ToSet(posted') : e \in Event
  BY EventsTyped DEF Sequences3
<1>. QED BY <1>1 DEF TypeOK, CountersTyped

LEMMA ShareInit == Init => IInv
<1>. SUFFICES ASSUME Init PROVE IInv
  OBVIOUS
<1>1. Sequences3 /\ Pipeline = <<>>
  BY EmptySeq DEF Init, Sequences3, Pipeline
<1>2. CountersTyped
  <2>1. log \in Seq(EntryKind) /\ Len(log) = 0
    BY EmptySeq DEF Init
  <2>2. MaxLog \in Nat /\ 1 \in 1 .. MaxLoads
    BY ShareAssumption
  <2>3. lastSeq \in [1 .. MaxLoads -> Nat]
    BY DEF Init
  <2>4. sentEntries \in 0 .. Len(log) /\ private \subseteq 1 .. Len(log) /\ Len(log) <= MaxLog
    BY <2>1, <2>2 DEF Init
  <2>5. load \in 1 .. MaxLoads /\ session \in 1 .. load
    BY <2>2 DEF Init
  <2>6. /\ enabled \in BOOLEAN /\ disposed \in BOOLEAN
        /\ timer \in {"off", "armed", "fired"} /\ seq \in Nat /\ flushes \in Nat
    BY DEF Init
  <2>. QED BY <2>1, <2>3, <2>4, <2>5, <2>6 DEF CountersTyped
<1>3. TypeOK
  BY <1>1, <1>2, TypedLemma
<1>4. Behind(Pipeline, seq, sentEntries, private)
  BY <1>1, EmptySeq DEF Behind
<1>. QED BY <1>1, <1>3, <1>4 DEF IInv, Init

-----------------------------------------------------------------------------
(* The steps *)

\* Steps that leave the pipeline and its counters alone.
LEMMA PipelineKept ==
  ASSUME Behind(Pipeline, seq, sentEntries, private), Pipeline' = Pipeline,
         UNCHANGED <<seq, sentEntries, private>>
  PROVE  Behind(Pipeline, seq, sentEntries, private)'
  BY DEF Behind

\* An event that carries no log entry joins the queue.
LEMMA OwnEventLemma ==
  ASSUME IInv, OwnEvent
  PROVE  IInv'
<1>. DEFINE d == <<Payload("own", <<>>)>>
            e == <<EventOf("own", <<>>, seq + 1)>>
<1>1. /\ Sequences3 /\ CountersTyped /\ Behind(Pipeline, seq, sentEntries, private)
      /\ seq \in Nat /\ sentEntries \in Nat
  BY TypedLemma DEF IInv, CountersTyped
<1>2. UNCHANGED <<log, enabled, disposed, sentEntries, flushes, batch, session, load,
                  private, posted, lastSeq>>
  BY DEF OwnEvent
<1>3. CASE Listening
  <2>1. seq' = seq + 1 /\ timer' = Schedule(timer) /\ queue' = Append(queue, EventOf("own", <<>>, seq + 1))
    BY <1>3 DEF OwnEvent
  <2>2. EventOf("own", <<>>, seq + 1) \in Event
    BY <1>1, ShareAssumption DEF EventOf, Event, EventKind, CountersTyped
  <2>3. e \in Seq(Event) /\ Len(e) = 1 /\ e[1] = EventOf("own", <<>>, seq + 1)
    BY <2>2
  <2>4. queue' \in Seq(Event) /\ queue' = queue \o e
    BY <1>1, <2>1, <2>2, AppendProperties, AppendIsConcat DEF Sequences3
  <2>. HIDE DEF e
  <2>5. Sequences3'
    BY <1>1, <1>2, <2>4 DEF Sequences3
  <2>6. Pipeline' = Pipeline \o e
    <3>1. Pipeline = (posted \o Rest) \o queue /\ posted \o Rest \in Seq(Event)
      BY <1>1, PipelineLemma
    <3>2. Pipeline' = (posted \o Rest) \o queue'
      BY <1>2 DEF Pipeline, Rest
    <3>3. queue \in Seq(Event)
      BY <1>1 DEF Sequences3
    <3>. DEFINE before == posted \o Rest
    <3>4. e \in Seq(Event) /\ before \in Seq(Event)
      BY <2>3, <3>1
    <3>5. Pipeline = before \o queue /\ Pipeline' = before \o (queue \o e)
      BY <2>4, <3>1, <3>2
    <3>. HIDE DEF before
    <3>6. (before \o queue) \o e = before \o (queue \o e)
      BY <3>3, <3>4, ConcatAssociative
    <3>. QED BY <3>5, <3>6
  <2>7. Tidy(d, {"own"}, sentEntries, sentEntries)
    <3>1. Payload("own", <<>>) \in PayloadType
      BY EmptySeq DEF Payload, PayloadType, EventKind
    <3>2. d \in Seq(PayloadType) /\ Len(d) = 1 /\ d[1] = Payload("own", <<>>)
      BY <3>1
    <3>3. ToSet(<<>>) = {}
      BY DEF ToSet
    <3>. HIDE DEF d
    <3>. QED BY <3>2, <3>3, PayloadLemma DEF Tidy
  <2>8. /\ Len(e) = Len(d)
        /\ \A i \in 1 .. Len(d) : /\ e[i].kind = d[i].kind
                                  /\ e[i].entries = d[i].entries
                                  /\ e[i].seq = seq + i
    BY <2>3, PayloadLemma DEF EventOf
  <2>9. private \subseteq 1 .. sentEntries
    BY <1>3 DEF IInv, Listening
  <2>. HIDE DEF d
  <2>10. Behind(Pipeline \o e, seq + Len(e), sentEntries, private)
    <3>1. sentEntries <= sentEntries
      BY <1>1
    <3>2. Behind(Pipeline, seq, sentEntries, private) /\ seq \in Nat /\ sentEntries \in Nat
      BY <1>1
    <3>3. e \in Seq(Event)
      BY <2>3
    <3>. QED BY <2>7, <2>8, <2>9, <3>1, <3>2, <3>3, PipelineGrows
  <2>11. Behind(Pipeline, seq, sentEntries, private)'
    BY <1>2, <2>1, <2>3, <2>6, <2>10
  <2>12. CountersTyped'
    BY <1>1, <1>2, <2>1 DEF CountersTyped, Schedule
  <2>13. TypeOK'
    BY <2>5, <2>12, TypedNext
  <2>. QED BY <1>2, <1>3, <2>5, <2>9, <2>11, <2>13 DEF IInv, Listening
<1>4. CASE ~Listening
  <2>1. UNCHANGED <<seq, queue, timer>>
    BY <1>4 DEF OwnEvent
  <2>2. Sequences3' /\ CountersTyped' /\ Pipeline' = Pipeline
    BY <1>1, <1>2, <2>1 DEF Sequences3, CountersTyped, Pipeline
  <2>3. TypeOK'
    BY <2>2, TypedNext
  <2>4. Behind(Pipeline, seq, sentEntries, private)'
    BY <1>1, <1>2, <2>1, <2>2, PipelineKept
  <2>. QED BY <1>2, <2>1, <2>2, <2>3, <2>4 DEF IInv
<1>. QED BY <1>3, <1>4

\* The log grows: by an entry that is hidden and not read when sharing is off.
LEMMA LogEntryLemma ==
  ASSUME IInv, NEW kind \in EntryKind, LogEntry(kind)
  PROVE  IInv'
<1>1. /\ Sequences3 /\ CountersTyped /\ Behind(Pipeline, seq, sentEntries, private)
      /\ seq \in Nat /\ sentEntries \in 0 .. Len(log) /\ log \in Seq(EntryKind)
      /\ private \subseteq 1 .. Len(log) /\ Len(log) \in Nat
  BY TypedLemma, LenProperties DEF IInv, CountersTyped
<1>2. UNCHANGED <<enabled, disposed, sentEntries, seq, queue, flushes, batch, session,
                  load, posted, lastSeq>>
  BY DEF LogEntry
<1>3. log' \in Seq(EntryKind) /\ Len(log') = Len(log) + 1 /\ Len(log') <= MaxLog
  BY <1>1, ShareAssumption, AppendProperties DEF LogEntry
<1>4. private' = IF enabled THEN private ELSE private \cup {Len(log) + 1}
  BY <1>3 DEF LogEntry
<1>5. private' \subseteq 1 .. Len(log') /\ private' \cap (1 .. sentEntries) \subseteq private
  <2>1. /\ 1 .. Len(log) \subseteq 1 .. Len(log') /\ Len(log) + 1 \in 1 .. Len(log')
        /\ Len(log) + 1 \notin 1 .. sentEntries
    BY <1>1, <1>3
  <2>. QED BY <1>1, <1>4, <2>1
<1>6. Behind(Pipeline, seq, sentEntries, private')
  BY <1>1, <1>5, CountersMove
<1>7. Behind(Pipeline, seq, sentEntries, private)'
  BY <1>2, <1>6 DEF Pipeline
<1>8. Sequences3'
  BY <1>1, <1>2 DEF Sequences3
<1>9. CountersTyped'
  BY <1>1, <1>2, <1>3, <1>5 DEF CountersTyped, LogEntry, Schedule
<1>10. TypeOK'
  BY <1>8, <1>9, TypedNext
<1>. QED BY <1>2, <1>4, <1>7, <1>8, <1>10 DEF IInv

\* drainLog reads the log to its end and queues what it found; the flush takes it all.
LEMMA SendQueuedLemma ==
  ASSUME IInv, SendQueued
  PROVE  IInv'
<1>. DEFINE d == Drained(sentEntries, Len(log))
            events == IF enabled THEN Numbered(d) ELSE <<>>
            added == IF disposed THEN <<>> ELSE events
            taken == queue \o added
<1>1. /\ TypeOK /\ Sequences3 /\ CountersTyped
      /\ Behind(Pipeline, seq, sentEntries, private)
      /\ seq \in Nat /\ sentEntries \in 0 .. Len(log) /\ Len(log) \in Nat
      /\ Len(log) <= MaxLog
  BY TypedLemma, LenProperties DEF IInv, CountersTyped
<1>2. /\ batch = <<>> /\ flushes' = flushes - 1 /\ flushes > 0
      /\ sentEntries' = ReadUpTo /\ seq' = seq + Len(added)
      /\ timer' = (IF added = <<>> THEN Cleared ELSE Schedule(Cleared))
      /\ queue' = <<>> /\ batch' = taken
      /\ posted' = IF taken = <<>> THEN posted ELSE Append(posted, Head(taken))
      /\ UNCHANGED <<log, enabled, disposed, session, load, private, lastSeq>>
  BY DEF SendQueued
<1>3. Tidy(d, {"commands", "error", "result"}, sentEntries, Len(log))
  BY <1>1, DrainedTidy
<1>. HIDE DEF d
<1>4. d \in Seq(PayloadType)
  BY <1>3 DEF Tidy
<1>5. /\ Numbered(d) \in Seq(Event) /\ Len(Numbered(d)) = Len(d)
      /\ \A i \in 1 .. Len(d) : /\ Numbered(d)[i].kind = d[i].kind
                                /\ Numbered(d)[i].entries = d[i].entries
                                /\ Numbered(d)[i].seq = seq + i
  BY <1>1, <1>4, NumberedLemma
<1>6. added \in Seq(Event) /\ Len(added) \in Nat
  BY <1>5, EmptySeq, LenProperties
<1>7. Pipeline = posted \o queue
  <2>1. Rest = <<>> /\ Pipeline = (posted \o Rest) \o queue
    BY <1>1, <1>2, PipelineLemma DEF Rest
  <2>. QED BY <1>1, <2>1, ConcatEmptySeq DEF Sequences3
<1>8. ReadUpTo \in Nat /\ sentEntries <= ReadUpTo /\ ReadUpTo <= Len(log)
      /\ ReadUpTo = IF enabled THEN Len(log) ELSE sentEntries
  BY <1>1 DEF ReadUpTo
<1>9. Behind(Pipeline \o added, seq + Len(added), ReadUpTo, private)
  <2>1. CASE enabled /\ ~disposed
    <3>1. added = Numbered(d) /\ private \subseteq 1 .. sentEntries
      BY <2>1 DEF IInv
    <3>. QED BY <1>1, <1>3, <1>5, <1>8, <2>1, <3>1, PipelineGrows
  <2>2. CASE ~(enabled /\ ~disposed)
    <3>1. added = <<>> /\ Len(added) = 0
      BY <2>2
    <3>2. Pipeline \o added = Pipeline
      BY <1>1, <3>1, PipelineLemma, ConcatEmptySeq
    <3>. HIDE DEF added
    <3>3. Behind(Pipeline, seq, ReadUpTo, private)
      BY <1>1, <1>8, CountersMove
    <3>. QED BY <1>1, <3>1, <3>2, <3>3
  <2>. QED BY <2>1, <2>2
<1>. HIDE DEF added
<1>10. taken \in Seq(Event) /\ posted \o taken = Pipeline \o added
  <2>1. posted \in Seq(Event) /\ queue \in Seq(Event)
    BY <1>1 DEF Sequences3
  <2>2. taken \in Seq(Event)
    BY <1>6, <2>1, ConcatProperties
  <2>3. (posted \o queue) \o added = posted \o (queue \o added)
    BY <1>6, <2>1, ConcatAssociative
  <2>. QED BY <1>7, <2>2, <2>3
<1>. HIDE DEF taken
<1>11. Sequences3' /\ Pipeline' = posted \o taken
  <2>1. CASE taken = <<>>
    <3>1. batch' = <<>> /\ posted' = posted /\ queue' = <<>>
      BY <1>2, <2>1
    <3>2. Pipeline' = (posted \o <<>>) \o <<>>
      BY <3>1 DEF Pipeline
    <3>3. Sequences3'
      BY <1>1, <3>1, EmptySeq DEF Sequences3
    <3>4. posted \o <<>> = posted
      BY <1>1, ConcatEmptySeq DEF Sequences3
    <3>. QED BY <2>1, <3>2, <3>3, <3>4
  <2>2. CASE taken # <<>>
    <3>1. batch' = taken /\ posted' = Append(posted, Head(taken)) /\ queue' = <<>>
      BY <1>2, <2>2
    <3>2. Head(taken) \in Event /\ Tail(taken) \in Seq(Event)
      BY <1>10, <2>2, HeadTailProperties
    <3>3. posted' \in Seq(Event)
      BY <1>1, <3>1, <3>2, AppendProperties DEF Sequences3
    <3>4. Sequences3'
      BY <1>10, <3>1, <3>3, EmptySeq DEF Sequences3
    <3>5. Pipeline' = (posted' \o Tail(taken)) \o <<>>
      BY <2>2, <3>1 DEF Pipeline
    <3>6. Pipeline' = posted' \o Tail(taken)
      BY <3>2, <3>3, <3>5, ConcatProperties, ConcatEmptySeq
    <3>7. posted' \o Tail(taken) = posted \o taken
      BY <1>1, <1>10, <2>2, <3>1, HandOver DEF Sequences3
    <3>. QED BY <3>4, <3>6, <3>7
  <2>. QED BY <2>1, <2>2
<1>12. Behind(Pipeline, seq, sentEntries, private)'
  BY <1>2, <1>9, <1>10, <1>11
<1>13. CountersTyped'
  <2>1. sentEntries' \in 0 .. Len(log') /\ seq' \in Nat /\ flushes' \in Nat
    BY <1>1, <1>2, <1>6, <1>8 DEF CountersTyped
  <2>2. timer' \in {"off", "armed", "fired"}
    BY <1>2 DEF Schedule, Cleared
  <2>. QED BY <1>1, <1>2, <2>1, <2>2 DEF CountersTyped
<1>14. TypeOK'
  BY <1>11, <1>13, TypedNext
<1>15. enabled' => private' \subseteq 1 .. sentEntries'
  <2>1. 1 .. sentEntries \subseteq 1 .. ReadUpTo
    BY <1>1, <1>8
  <2>. QED BY <1>2, <2>1 DEF IInv
<1>. QED BY <1>2, <1>11, <1>12, <1>14, <1>15 DEF IInv

\* The next event of the flush under way goes to fetch.
LEMMA PostedLemma ==
  ASSUME IInv, Posted
  PROVE  IInv'
<1>1. /\ Sequences3 /\ CountersTyped /\ Behind(Pipeline, seq, sentEntries, private)
  BY TypedLemma DEF IInv
<1>2. /\ batch # <<>> /\ batch' = Tail(batch)
      /\ posted' = IF Len(batch) = 1 THEN posted ELSE Append(posted, batch[2])
      /\ UNCHANGED <<log, enabled, disposed, sentEntries, seq, queue, timer, flushes,
                     session, load, private, lastSeq>>
  BY DEF Posted
<1>. DEFINE rest == Tail(batch)
<1>3. /\ rest \in Seq(Event) /\ Len(rest) = Len(batch) - 1
      /\ \A i \in 1 .. Len(rest) : rest[i] = batch[i + 1]
      /\ Len(batch) \in Nat \ {0}
  BY <1>1, <1>2, HeadTailProperties, EmptySeq DEF Sequences3
<1>4. Pipeline = (posted \o rest) \o queue
  BY <1>2 DEF Pipeline
<1>. HIDE DEF rest
<1>5. Sequences3' /\ Pipeline' = Pipeline
  <2>1. CASE Len(batch) = 1
    <3>1. Len(rest) = 0 /\ rest = <<>>
      BY <1>3, <2>1, EmptySeq
    <3>2. batch' = <<>> /\ posted' = posted
      BY <1>2, <2>1, <3>1 DEF rest
    <3>. QED BY <1>1, <1>2, <1>4, <3>1, <3>2, EmptySeq DEF Sequences3, Pipeline
  <2>2. CASE Len(batch) # 1
    <3>1. rest # <<>> /\ Len(rest) \in Nat \ {0}
      BY <1>3, <2>2, EmptySeq
    <3>2. Head(rest) = batch[2]
      <4>1. Head(rest) = rest[1] /\ 1 \in 1 .. Len(rest)
        BY <1>3, <3>1
      <4>. QED BY <1>3, <4>1
    <3>3. batch' = rest /\ posted' = Append(posted, Head(rest))
      BY <1>2, <2>2, <3>2 DEF rest
    <3>4. Head(rest) \in Event
      BY <1>3, <3>1, HeadTailProperties
    <3>5. Sequences3'
      BY <1>1, <1>2, <1>3, <3>3, <3>4, AppendProperties DEF Sequences3
    <3>6. Pipeline' = (Append(posted, Head(rest)) \o Tail(rest)) \o queue
      BY <1>2, <3>1, <3>3 DEF Pipeline
    <3>7. Append(posted, Head(rest)) \o Tail(rest) = posted \o rest
      BY <1>1, <1>3, <3>1, HandOver DEF Sequences3
    <3>. QED BY <1>4, <3>5, <3>6, <3>7
  <2>. QED BY <2>1, <2>2
<1>6. CountersTyped'
  BY <1>1, <1>2 DEF CountersTyped
<1>7. TypeOK'
  BY <1>5, <1>6, TypedNext
<1>8. Behind(Pipeline, seq, sentEntries, private)'
  BY <1>1, <1>2, <1>5, PipelineKept
<1>. QED BY <1>2, <1>5, <1>7, <1>8 DEF IInv

\* What the tester switches off is dropped from the queue.
LEMMA SetEnabledLemma ==
  ASSUME IInv, NEW on \in BOOLEAN, SetEnabled(on)
  PROVE  IInv'
<1>1. /\ Sequences3 /\ CountersTyped /\ Behind(Pipeline, seq, sentEntries, private)
      /\ seq \in Nat /\ sentEntries \in 0 .. Len(log) /\ Len(log) \in Nat
      /\ private \subseteq 1 .. Len(log)
  BY TypedLemma, LenProperties DEF IInv, CountersTyped
<1>2. /\ enabled' = on /\ sentEntries' = Len(log)
      /\ queue' = IF on THEN queue ELSE <<>>
      /\ UNCHANGED <<log, disposed, seq, timer, flushes, batch, session, load, private,
                     posted, lastSeq>>
  BY DEF SetEnabled, SkippedUpTo
<1>3. Sequences3'
  BY <1>1, <1>2, EmptySeq DEF Sequences3
<1>4. Behind(Pipeline, seq, Len(log), private)
  BY <1>1, CountersMove
<1>5. Behind(Pipeline', seq, Len(log), private)
  <2>1. CASE on
    BY <1>2, <1>4, <2>1 DEF Pipeline
  <2>2. CASE ~on
    <3>1. /\ posted \o Rest \in Seq(Event) /\ Pipeline = (posted \o Rest) \o queue
      BY <1>1, PipelineLemma
    <3>2. Pipeline' = (posted \o Rest) \o <<>>
      BY <1>2, <2>2 DEF Pipeline, Rest
    <3>3. Pipeline' = posted \o Rest
      BY <3>1, <3>2, ConcatEmptySeq
    <3>. QED BY <1>1, <1>4, <3>1, <3>3, EndDropped DEF Sequences3
  <2>. QED BY <2>1, <2>2
<1>6. Behind(Pipeline, seq, sentEntries, private)'
  BY <1>2, <1>5
<1>7. CountersTyped'
  BY <1>1, <1>2 DEF CountersTyped
<1>8. TypeOK'
  BY <1>3, <1>7, TypedNext
<1>. QED BY <1>1, <1>2, <1>3, <1>6, <1>8 DEF IInv

LEMMA DisposeLemma ==
  ASSUME IInv, Dispose
  PROVE  IInv'
<1>1. /\ Sequences3 /\ CountersTyped /\ Behind(Pipeline, seq, sentEntries, private)
  BY TypedLemma DEF IInv
<1>2. /\ queue' = <<>> /\ disposed' = TRUE
      /\ UNCHANGED <<log, enabled, sentEntries, seq, timer, flushes, batch, session, load,
                     private, posted, lastSeq>>
  BY DEF Dispose
<1>3. Sequences3'
  BY <1>1, <1>2, EmptySeq DEF Sequences3
<1>4. /\ posted \o Rest \in Seq(Event) /\ Pipeline = (posted \o Rest) \o queue
  BY <1>1, PipelineLemma
<1>5. Pipeline' = (posted \o Rest) \o <<>>
  BY <1>2 DEF Pipeline, Rest
<1>6. Pipeline' = posted \o Rest
  BY <1>4, <1>5, ConcatEmptySeq
<1>7. Behind(Pipeline, seq, sentEntries, private)'
  BY <1>1, <1>2, <1>4, <1>6, EndDropped DEF Sequences3
<1>8. CountersTyped'
  BY <1>1, <1>2 DEF CountersTyped
<1>9. TypeOK'
  BY <1>3, <1>8, TypedNext
<1>. QED BY <1>2, <1>3, <1>7, <1>9 DEF IInv

\* A new page starts with nothing.
LEMMA ReloadLemma ==
  ASSUME IInv, Reload
  PROVE  IInv'
<1>1. Sequences3 /\ CountersTyped
  BY TypedLemma DEF IInv
<1>2. Sequences3' /\ Pipeline' = <<>>
  BY EmptySeq DEF Reload, Sequences3, Pipeline
<1>3. Behind(Pipeline, seq, sentEntries, private)'
  BY <1>2, EmptySeq DEF Behind
<1>4. posted # <<>> => Last(posted).seq \in Nat
  <2>. SUFFICES ASSUME posted # <<>> PROVE Last(posted).seq \in Nat
    OBVIOUS
  <2>1. Len(posted) \in 1 .. Len(posted)
    BY <1>1, EmptySeq DEF Sequences3
  <2>2. posted[Len(posted)] \in Event
    BY <1>1, <2>1, ElementOfSeq DEF Sequences3
  <2>. QED BY <2>2 DEF Last, Event
<1>5. lastSeq' \in [1 .. MaxLoads -> Nat]
  BY <1>1, <1>4 DEF Reload, CountersTyped
<1>6. load' \in 1 .. MaxLoads /\ session' \in 1 .. load'
  BY <1>1, ShareAssumption DEF Reload, SessionIdFor, CountersTyped
<1>7. log' \in Seq(EntryKind) /\ Len(log') = 0 /\ Len(log') <= MaxLog
  BY ShareAssumption, EmptySeq DEF Reload
<1>8. CountersTyped'
  <2>1. /\ sentEntries' = 0 /\ seq' = 0 /\ timer' = "off" /\ flushes' = 0
        /\ disposed' = FALSE /\ private' = {} /\ enabled' = enabled
    BY DEF Reload
  <2>2. sentEntries' \in 0 .. Len(log') /\ private' \subseteq 1 .. Len(log')
    BY <1>7, <2>1
  <2>. QED BY <1>1, <1>5, <1>6, <1>7, <2>1, <2>2 DEF CountersTyped
<1>9. TypeOK'
  BY <1>2, <1>8, TypedNext
<1>. QED BY <1>2, <1>3, <1>9 DEF IInv, Reload

LEMMA ShareStep ==
  ASSUME IInv, [Next]_vars
  PROVE  IInv'
<1>1. CASE Fire \/ PageHide \/ UNCHANGED vars
  <2>1. /\ Sequences3 /\ CountersTyped /\ Behind(Pipeline, seq, sentEntries, private)
    BY TypedLemma DEF IInv
  <2>2. /\ UNCHANGED <<log, enabled, disposed, sentEntries, seq, queue, batch, session, load,
                       private, posted, lastSeq>>
        /\ timer' \in {timer, "fired"} /\ flushes' \in {flushes, flushes + 1}
    BY <1>1 DEF Fire, PageHide, vars
  <2>3. Sequences3' /\ CountersTyped' /\ Pipeline' = Pipeline
    BY <2>1, <2>2 DEF Sequences3, CountersTyped, Pipeline
  <2>4. TypeOK'
    BY <2>3, TypedNext
  <2>5. Behind(Pipeline, seq, sentEntries, private)'
    BY <2>1, <2>2, <2>3, PipelineKept
  <2>. QED BY <2>2, <2>3, <2>4, <2>5 DEF IInv
<1>2. CASE OwnEvent
  BY <1>2, OwnEventLemma
<1>3. ASSUME NEW kind \in EntryKind, LogEntry(kind)
      PROVE  IInv'
  BY <1>3, LogEntryLemma
<1>4. CASE SendQueued
  BY <1>4, SendQueuedLemma
<1>5. CASE Posted
  BY <1>5, PostedLemma
<1>6. ASSUME NEW on \in BOOLEAN, SetEnabled(on)
      PROVE  IInv'
  BY <1>6, SetEnabledLemma
<1>7. CASE Dispose
  BY <1>7, DisposeLemma
<1>8. CASE Reload
  BY <1>8, ReloadLemma
<1>. QED BY <1>1, <1>2, <1>3, <1>4, <1>5, <1>6, <1>7, <1>8 DEF Next, System, Environment

LEMMA ShareInductive == Spec => []IInv
  BY ShareInit, ShareStep, PTL DEF Spec

-----------------------------------------------------------------------------
(* Theorems *)

\* The events of share.ts are well formed, numbered, and the log is never read past its end.
THEOREM TypeCorrect == Spec => []TypeOK
<1>1. IInv => TypeOK
  BY DEF IInv
<1>. QED BY <1>1, ShareInductive, PTL

\* Whatever the log, the body limit and the interleaving of timer, pagehide and toggle: the
\* events of a page leave in the order of their numbers, and every log entry is in at most
\* one batch, one error event, one Result event, in the order of the log (drainLog, flush).
THEOREM OrderCorrect == Spec => []OnceInOrder
<1>1. IInv => OnceInOrder
  <2>. SUFFICES ASSUME IInv PROVE OnceInOrder
    OBVIOUS
  <2>1. DOMAIN Pipeline = 1 .. Len(Pipeline)
    BY LenProperties DEF IInv, Behind
  <2>. QED BY <2>1 DEF IInv, Behind, OnceInOrder
<1>. QED BY <1>1, ShareInductive, PTL

\* No event of the page, posted or still to be, carries an entry that was logged while
\* sharing was off, however often the tester switches (setEnabled).
THEOREM PrivacyCorrect == Spec => []OffIsPrivate
<1>1. IInv => OffIsPrivate
  <2>. SUFFICES ASSUME IInv PROVE OffIsPrivate
    OBVIOUS
  <2>1. DOMAIN Pipeline = 1 .. Len(Pipeline)
    BY LenProperties DEF IInv, Behind
  <2>. QED BY <2>1 DEF IInv, Behind, OffIsPrivate
<1>. QED BY <1>1, ShareInductive, PTL
=============================================================================
