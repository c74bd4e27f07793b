----------------------------- MODULE CoreProofs -----------------------------
(***************************************************************************)
(* The analytical engine, proved for every plan: what its helpers return,  *)
(* what its sums preserve, and that a plan the validation accepts passes   *)
(* every check of its ledger when it asks for whole racks (ConserveLemma,  *)
(* AnalyzeTyped).                                                          *)
(***************************************************************************)
EXTENDS CoreAnalyze, Functions, FiniteSetTheorems, SequenceTheorems,
        WellFoundedInduction, TLAPS

-----------------------------------------------------------------------------
(* Induction with a set in the place of a predicate *)

BelowNat == OpToRel(<, Nat)

LEMMA LeastNat ==
  ASSUME NEW T, T \subseteq Nat, T # {}
  PROVE  \E m \in T : \A k \in T : m <= k
<1>1. IsWellFoundedOn(BelowNat, Nat)
  BY NatLessThanWellFounded DEF BelowNat
<1>2. \E x \in T : \A y \in T : ~ (<<y, x>> \in BelowNat)
  BY <1>1, WFMin
<1>3. \A x, y \in Nat : y < x => <<y, x>> \in BelowNat
  BY DEF BelowNat, OpToRel
<1>4. \A x, y \in T : ~ (<<y, x>> \in BelowNat) => x <= y
  <2>. HIDE DEF BelowNat
  <2>1. \A x, y \in T : x \in Nat /\ y \in Nat
    OBVIOUS
  <2>2. \A x, y \in Nat : ~(y < x) => x <= y
    OBVIOUS
  <2>. QED BY <1>3, <2>1, <2>2
<1>. HIDE DEF BelowNat
<1>. QED BY <1>2, <1>4

LEMMA InductionOnNat ==
  ASSUME NEW T, 0 \in T, \A n \in Nat : n \in T => n + 1 \in T
  PROVE  \A n \in Nat : n \in T
<1>. DEFINE Rest == {n \in Nat : n \notin T}
<1>. SUFFICES ASSUME Rest # {} PROVE FALSE
  OBVIOUS
<1>1. PICK m \in Rest : \A k \in Rest : m <= k
  BY LeastNat
<1>2. m \in Nat /\ m # 0 /\ m - 1 \in Nat /\ (m - 1) + 1 = m
  OBVIOUS
<1>3. m - 1 \in T
  BY <1>1, <1>2
<1>. QED BY <1>2, <1>3

\* A set without one of its elements.
LEMMA RemovalLemma ==
  ASSUME NEW s, IsFiniteSet(s), NEW x \in s, NEW n \in Nat, Cardinality(s) = n + 1
  PROVE  IsFiniteSet(s \ {x}) /\ Cardinality(s \ {x}) = n
<1>1. IsFiniteSet(s \ {x}) /\ Cardinality(s \ {x}) = Cardinality(s) - 1
  BY FS_RemoveElement
<1>. QED BY <1>1

LEMMA NonEmptyLemma ==
  ASSUME NEW s, IsFiniteSet(s), NEW n \in Nat, Cardinality(s) = n + 1
  PROVE  s # {}
  BY FS_EmptySet

\* What holds of the empty set and is kept when an element joins holds of every finite set.
LEMMA FiniteInduction ==
  ASSUME NEW S, IsFiniteSet(S), NEW Q, {} \in Q,
         \A T \in SUBSET S : T \in Q => \A x \in S \ T : T \cup {x} \in Q
  PROVE  \A T \in SUBSET S : T \in Q
<1>. DEFINE N == {n \in Nat : \A T \in SUBSET S : Cardinality(T) = n => T \in Q}
<1>1. \A T \in SUBSET S : IsFiniteSet(T) /\ Cardinality(T) \in Nat
  BY FS_Subset, FS_CardinalityType
<1>2. 0 \in N
  BY <1>1, FS_EmptySet
<1>3. ASSUME NEW n \in Nat, n \in N
      PROVE  n + 1 \in N
  <2>. SUFFICES ASSUME NEW T \in SUBSET S, Cardinality(T) = n + 1 PROVE T \in Q
    OBVIOUS
  <2>1. PICK x \in T : TRUE
    BY <1>1, NonEmptyLemma
  <2>. DEFINE U == T \ {x}
  <2>2. U \in SUBSET S /\ x \in S \ U /\ U \cup {x} = T
    OBVIOUS
  <2>3. Cardinality(U) = n
    BY <1>1, RemovalLemma
  <2>. HIDE DEF U
  <2>4. U \in Q
    BY <1>3, <2>2, <2>3
  <2>. QED BY <2>2, <2>4
<1>. HIDE DEF N
<1>4. \A n \in Nat : n \in N
  BY <1>2, <1>3, InductionOnNat
<1>. QED BY <1>1, <1>4 DEF N

-----------------------------------------------------------------------------
(***************************************************************************)
(* Sums.  SumFunction adds up the values of a function in an order of its  *)
(* own; the lemmas at the end of this part say what is true of any order.  *)
(***************************************************************************)
Picked(s) == CHOOSE x \in s : TRUE

PartSums(f, g) ==
  [s \in SUBSET DOMAIN f |-> IF s = {} THEN 0 ELSE f[Picked(s)] + g[s \ {Picked(s)}]]

Parts(f) == CHOOSE g : g = PartSums(f, g)

LEMMA SumUnfold ==
  ASSUME NEW f
  PROVE  SumFunction(f) = Parts(f)[DOMAIN f]
  BY DEF SumFunction, SumFunctionOnSet, FoldFunctionOnSet, MapThenFoldSet, Parts, PartSums,
         Picked

LEMMA PickedLemma ==
  ASSUME NEW s, s # {}
  PROVE  Picked(s) \in s
  BY DEF Picked

\* The partial sums exist: those of up to n elements, for every n.
LEMMA PartsExist ==
  ASSUME NEW f, IsFiniteSet(DOMAIN f)
  PROVE  Parts(f) = PartSums(f, Parts(f))
<1>. DEFINE D == DOMAIN f
            Small(n) == {s \in SUBSET D : Cardinality(s) <= n}
            Value(s, g) == IF s = {} THEN 0 ELSE f[Picked(s)] + g[s \ {Picked(s)}]
            N == {n \in Nat : \E g : \A s \in Small(n) : g[s] = Value(s, g)}
<1>1. \A s \in SUBSET D : IsFiniteSet(s) /\ Cardinality(s) \in Nat /\ Cardinality(s) <= Cardinality(D)
  BY FS_Subset, FS_CardinalityType
<1>2. \A s \in SUBSET D : s # {} =>
        /\ s \ {Picked(s)} \in SUBSET D
        /\ Cardinality(s \ {Picked(s)}) = Cardinality(s) - 1
  BY <1>1, PickedLemma, FS_RemoveElement
<1>3. 0 \in N
  <2>. DEFINE g == [s \in {{}} |-> 0]
  <2>1. \A s \in Small(0) : s = {}
    BY <1>1, FS_EmptySet
  <2>2. \A s \in Small(0) : g[s] = Value(s, g)
    BY <2>1
  <2>. QED BY <2>2
<1>4. ASSUME NEW n \in Nat, n \in N
      PROVE  n + 1 \in N
  <2>1. PICK g : \A s \in Small(n) : g[s] = Value(s, g)
    BY <1>4
  <2>. DEFINE h == [s \in Small(n + 1) |-> Value(s, g)]
  <2>2. \A s \in Small(n) : s \in Small(n + 1) /\ h[s] = g[s]
    BY <1>1, <2>1
  <2>3. \A s \in Small(n + 1) : s # {} => s \ {Picked(s)} \in Small(n)
    BY <1>1, <1>2
  <2>4. ASSUME NEW s \in Small(n + 1)
        PROVE  h[s] = Value(s, h)
    <3>1. h[s] = Value(s, g)
      OBVIOUS
    <3>2. s # {} => h[s \ {Picked(s)}] = g[s \ {Picked(s)}]
      BY <2>2, <2>3
    <3>. HIDE DEF h, Small
    <3>. QED BY <3>1, <3>2
  <2>5. \E k : \A s \in Small(n + 1) : k[s] = Value(s, k)
    <3>. HIDE DEF h, Small, Value
    <3>. QED BY <2>4
  <2>. HIDE DEF Small, Value
  <2>. QED BY <2>5
<1>5. PICK g : \A s \in Small(Cardinality(D)) : g[s] = Value(s, g)
  <2>. HIDE DEF N
  <2>1. \A n \in Nat : n \in N
    BY <1>3, <1>4, InductionOnNat
  <2>2. Cardinality(D) \in N
    BY <1>1, <2>1
  <2>. QED BY <2>2 DEF N
<1>. DEFINE h == [s \in SUBSET D |-> g[s]]
<1>6. \A s \in SUBSET D : h[s] = g[s] /\ g[s] = Value(s, g)
  BY <1>1, <1>5
<1>7. \A s \in SUBSET D : h[s] = Value(s, h)
  <2>. HIDE DEF h
  <2>. QED BY <1>2, <1>6
<1>8. h = [s \in SUBSET D |-> Value(s, h)]
  <2>1. h = [s \in SUBSET D |-> h[s]]
    OBVIOUS
  <2>. HIDE DEF h, Value
  <2>. QED BY <1>7, <2>1
<1>9. h = PartSums(f, h)
  BY <1>8 DEF PartSums
<1>. QED BY <1>9 DEF Parts

LEMMA PartsLemma ==
  ASSUME NEW f, IsFiniteSet(DOMAIN f)
  PROVE  /\ Parts(f)[{}] = 0
         /\ \A s \in SUBSET DOMAIN f : s # {} =>
              /\ Picked(s) \in s
              /\ Parts(f)[s] = f[Picked(s)] + Parts(f)[s \ {Picked(s)}]
<1>. DEFINE g == Parts(f)
<1>1. g = PartSums(f, g)
  BY PartsExist
<1>2. \A s \in SUBSET DOMAIN f :
        PartSums(f, g)[s] = IF s = {} THEN 0 ELSE f[Picked(s)] + g[s \ {Picked(s)}]
  BY DEF PartSums
<1>. HIDE DEF g
<1>3. \A s \in SUBSET DOMAIN f : g[s] = IF s = {} THEN 0 ELSE f[Picked(s)] + g[s \ {Picked(s)}]
  BY <1>1, <1>2
<1>. QED BY <1>3, PickedLemma DEF g

\* Two functions have the same sum over what they agree on.
LEMMA PartsAgree ==
  ASSUME NEW f, NEW h, IsFiniteSet(DOMAIN f), IsFiniteSet(DOMAIN h),
         NEW S, S \subseteq DOMAIN f, S \subseteq DOMAIN h, \A x \in S : f[x] = h[x]
  PROVE  Parts(f)[S] = Parts(h)[S]
<1>. DEFINE N == {n \in Nat : \A s \in SUBSET S : Cardinality(s) = n => Parts(f)[s] = Parts(h)[s]}
<1>0. \A s \in SUBSET S : s \in SUBSET DOMAIN f /\ s \in SUBSET DOMAIN h
  OBVIOUS
<1>1. \A s \in SUBSET S : IsFiniteSet(s) /\ Cardinality(s) \in Nat
  BY <1>0, FS_Subset, FS_CardinalityType
<1>2. 0 \in N
  BY <1>1, FS_EmptySet, PartsLemma
<1>3. ASSUME NEW n \in Nat, n \in N
      PROVE  n + 1 \in N
  <2>. SUFFICES ASSUME NEW s \in SUBSET S, Cardinality(s) = n + 1
                PROVE  Parts(f)[s] = Parts(h)[s]
    OBVIOUS
  <2>. DEFINE x == Picked(s)
              r == s \ {x}
  <2>1. s # {}
    BY <1>1, NonEmptyLemma
  <2>2. x \in s /\ Parts(f)[s] = f[x] + Parts(f)[r] /\ Parts(h)[s] = h[x] + Parts(h)[r]
    BY <1>0, <2>1, PartsLemma
  <2>3. r \in SUBSET S
    OBVIOUS
  <2>. HIDE DEF x
  <2>4. Cardinality(r) = n
    BY <1>1, <2>2, RemovalLemma
  <2>. HIDE DEF r
  <2>5. Parts(f)[r] = Parts(h)[r] /\ f[x] = h[x]
    BY <1>3, <2>2, <2>3, <2>4
  <2>. QED BY <2>2, <2>5
<1>. HIDE DEF N
<1>4. \A n \in Nat : n \in N
  BY <1>2, <1>3, InductionOnNat
<1>. QED BY <1>1, <1>4 DEF N

\* The partial sums of integers are integers, whichever element goes first.
LEMMA PartsTake ==
  ASSUME NEW S, IsFiniteSet(S), NEW f \in [S -> Int],
         NEW U \in SUBSET S, NEW v \in U
  PROVE  Parts(f)[U] \in Int /\ Parts(f)[U] = f[v] + Parts(f)[U \ {v}]
<1>. DEFINE g == Parts(f)
            Good(s) == g[s] \in Int /\ \A y \in s : g[s] = f[y] + g[s \ {y}]
            N == {n \in Nat : \A s \in SUBSET S : Cardinality(s) <= n => Good(s)}
<1>1. \A s \in SUBSET S : IsFiniteSet(s) /\ Cardinality(s) \in Nat
  BY FS_Subset, FS_CardinalityType
<1>2. g[{}] = 0
  BY PartsLemma
<1>3. \A s \in SUBSET S : s # {} => Picked(s) \in s /\ g[s] = f[Picked(s)] + g[s \ {Picked(s)}]
  BY PartsLemma
<1>4. \A x \in S : f[x] \in Int
  OBVIOUS
<1>. HIDE DEF g
<1>5. 0 \in N
  BY <1>1, <1>2, FS_EmptySet
<1>6. ASSUME NEW n \in Nat, n \in N
      PROVE  n + 1 \in N
  <2>. SUFFICES ASSUME NEW s \in SUBSET S, Cardinality(s) = n + 1
                PROVE  Good(s)
    <3>1. \A s \in SUBSET S : Cardinality(s) <= n + 1 => Cardinality(s) <= n \/ Cardinality(s) = n + 1
      BY <1>1
    <3>. HIDE DEF Good
    <3>. QED BY <1>6, <3>1
  <2>. DEFINE x == Picked(s)
  <2>0. s # {} /\ IsFiniteSet(s)
    BY <1>1, NonEmptyLemma
  <2>1. x \in s /\ g[s] = f[x] + g[s \ {x}]
    BY <1>3, <2>0
  <2>. HIDE DEF x
  <2>2. \A y \in s : s \ {y} \in SUBSET S /\ Cardinality(s \ {y}) = n
    BY <2>0, RemovalLemma
  <2>3. \A y \in s : Good(s \ {y})
    <3>1. \A y \in s : Cardinality(s \ {y}) <= n
      BY <2>2
    <3>. QED BY <1>6, <2>2, <3>1
  <2>4. ASSUME NEW y \in s, y # x
        PROVE  g[s] = f[y] + g[s \ {y}]
    <3>. DEFINE both == (s \ {x}) \ {y}
    <3>1. both = (s \ {y}) \ {x} /\ y \in s \ {x} /\ x \in s \ {y}
      BY <2>1, <2>4
    <3>. HIDE DEF both
    <3>2. g[s \ {x}] = f[y] + g[both]
      BY <2>1, <2>3, <3>1 DEF both
    <3>3. g[s \ {y}] = f[x] + g[both]
      BY <2>1, <2>3, <3>1
    <3>4. both \in SUBSET S /\ Cardinality(both) \in Nat
      BY <1>1 DEF both
    <3>5. f[x] \in Int /\ f[y] \in Int /\ g[s \ {x}] \in Int /\ g[s \ {y}] \in Int
      BY <1>4, <2>1, <2>3
    <3>6. g[both] \in Int
      <4>1. s \ {x} \in SUBSET S /\ Cardinality(s \ {x}) = n /\ both \in SUBSET (s \ {x})
        BY <2>1, <2>2 DEF both
      <4>2. Cardinality(both) <= n
        BY <1>1, <4>1, FS_Subset
      <4>. QED BY <1>6, <3>4, <4>2
    <3>. QED BY <2>1, <3>2, <3>3, <3>5, <3>6
  <2>5. g[s \ {x}] \in Int /\ f[x] \in Int
    BY <1>4, <2>1, <2>3
  <2>6. g[s] \in Int
    BY <2>1, <2>5
  <2>. QED BY <2>1, <2>4, <2>6
<1>. HIDE DEF N
<1>7. \A n \in Nat : n \in N
  BY <1>5, <1>6, InductionOnNat
<1>8. Good(U)
  BY <1>1, <1>7 DEF N
<1>. QED BY <1>8 DEF g

\* An integer sum is an integer, and any element can be taken out of it.
LEMMA SumLemma ==
  ASSUME NEW S, IsFiniteSet(S), NEW f \in [S -> Int]
  PROVE  /\ SumFunction(f) \in Int
         /\ S = {} => SumFunction(f) = 0
         /\ \A y \in S : SumFunction(f) = f[y] + SumFunction(Restrict(f, S \ {y}))
<1>1. SumFunction(f) = Parts(f)[S] /\ DOMAIN f = S
  BY SumUnfold
<1>2. ASSUME NEW y \in S
      PROVE  Parts(f)[S] \in Int /\ Parts(f)[S] = f[y] + Parts(f)[S \ {y}]
  <2>1. S \in SUBSET S
    OBVIOUS
  <2>2. Parts(f)[S] \in Int
    BY <2>1, PartsTake
  <2>3. Parts(f)[S] = f[y] + Parts(f)[S \ {y}]
    BY <2>1, PartsTake
  <2>. QED BY <2>2, <2>3
<1>3. S = {} => SumFunction(f) = 0
  BY <1>1, PartsLemma
<1>4. ASSUME NEW y \in S
      PROVE  Parts(f)[S \ {y}] = SumFunction(Restrict(f, S \ {y}))
  <2>. DEFINE r == Restrict(f, S \ {y})
  <2>1. DOMAIN r = S \ {y} /\ \A x \in S \ {y} : f[x] = r[x]
    BY DEF Restrict
  <2>2. IsFiniteSet(S \ {y})
    BY FS_RemoveElement
  <2>. HIDE DEF r
  <2>3. Parts(f)[S \ {y}] = Parts(r)[S \ {y}]
    BY <1>1, <2>1, <2>2, PartsAgree
  <2>. QED BY <2>1, <2>3, SumUnfold DEF r
<1>5. ASSUME NEW y \in S
      PROVE  SumFunction(f) = f[y] + SumFunction(Restrict(f, S \ {y}))
  BY <1>1, <1>2, <1>4
<1>6. SumFunction(f) \in Int
  <2>1. CASE S = {}
    BY <1>3, <2>1
  <2>2. CASE S # {}
    BY <1>1, <1>2, <2>2
  <2>. QED BY <2>1, <2>2
<1>. QED BY <1>3, <1>5, <1>6

LEMMA SumType ==
  ASSUME NEW f, IsFiniteSet(DOMAIN f), \A x \in DOMAIN f : f[x] \in Int,
         f = [x \in DOMAIN f |-> f[x]]
  PROVE  SumFunction(f) \in Int
<1>1. f \in [DOMAIN f -> Int]
  OBVIOUS
<1>. QED BY <1>1, SumLemma

\* The sum over nothing.
LEMMA EmptySum ==
  ASSUME NEW f, DOMAIN f = {}
  PROVE  SumFunction(f) = 0
<1>1. IsFiniteSet(DOMAIN f)
  BY FS_EmptySet
<1>2. Parts(f)[{}] = 0
  BY <1>1, PartsLemma
<1>. QED BY <1>2, SumUnfold

\* Adding an element to the domain adds its value to the sum.
LEMMA SumGrow ==
  ASSUME NEW S, IsFiniteSet(S), NEW f \in [S -> Int], NEW T \in SUBSET S, NEW x \in S \ T
  PROVE  /\ SumFunction(Restrict(f, T)) \in Int
         /\ SumFunction(Restrict(f, T \cup {x})) = f[x] + SumFunction(Restrict(f, T))
<1>. DEFINE h == Restrict(f, T \cup {x})
<1>1. /\ h \in [T \cup {x} -> Int] /\ h[x] = f[x] /\ Restrict(f, T) \in [T -> Int]
      /\ Restrict(h, (T \cup {x}) \ {x}) = Restrict(f, T)
  BY DEF Restrict
<1>2. IsFiniteSet(T \cup {x}) /\ IsFiniteSet(T)
  BY FS_Subset
<1>. HIDE DEF h
<1>3. SumFunction(h) = h[x] + SumFunction(Restrict(h, (T \cup {x}) \ {x}))
  BY <1>1, <1>2, SumLemma
<1>4. SumFunction(Restrict(f, T)) \in Int
  BY <1>1, <1>2, SumLemma
<1>. QED BY <1>1, <1>3, <1>4 DEF h

LEMMA SumNothing ==
  ASSUME NEW f
  PROVE  SumFunction(Restrict(f, {})) = 0
<1>1. Restrict(f, {}) \in [{} -> Int]
  BY DEF Restrict
<1>. QED BY <1>1, SumLemma, FS_EmptySet

LEMMA RestrictAll ==
  ASSUME NEW S, NEW V, NEW f \in [S -> V]
  PROVE  Restrict(f, S) = f
  BY DEF Restrict

\* A sum of natural numbers is one, and is zero only of zeros.
LEMMA SumNat ==
  ASSUME NEW S, IsFiniteSet(S), NEW f \in [S -> Nat]
  PROVE  /\ SumFunction(f) \in Nat
         /\ SumFunction(f) = 0 => \A x \in S : f[x] = 0
         /\ \A x \in S : f[x] <= SumFunction(f)
<1>. DEFINE Q == {T \in SUBSET S : /\ SumFunction(Restrict(f, T)) \in Nat
                                  /\ \A x \in T : f[x] <= SumFunction(Restrict(f, T))}
<1>0. f \in [S -> Int] /\ \A x \in S : f[x] \in Nat
  OBVIOUS
<1>1. {} \in Q
  BY SumNothing
<1>2. ASSUME NEW T \in SUBSET S, T \in Q, NEW x \in S \ T
      PROVE  T \cup {x} \in Q
  <2>1. SumFunction(Restrict(f, T \cup {x})) = f[x] + SumFunction(Restrict(f, T))
    BY <1>0, SumGrow
  <2>2. SumFunction(Restrict(f, T)) \in Nat /\ f[x] \in Nat
    BY <1>0, <1>2
  <2>3. \A y \in T : f[y] \in Nat /\ f[y] <= SumFunction(Restrict(f, T))
    BY <1>0, <1>2
  <2>. QED BY <2>1, <2>2, <2>3
<1>. HIDE DEF Q
<1>3. S \in Q
  BY <1>1, <1>2, FiniteInduction
<1>4. SumFunction(f) \in Nat /\ \A x \in S : f[x] <= SumFunction(f)
  BY <1>3, RestrictAll DEF Q
<1>. QED BY <1>0, <1>4

LEMMA SumMonotone ==
  ASSUME NEW S, IsFiniteSet(S), NEW f \in [S -> Int], NEW g \in [S -> Int],
         \A x \in S : f[x] <= g[x]
  PROVE  SumFunction(f) <= SumFunction(g)
<1>. DEFINE Q == {T \in SUBSET S : SumFunction(Restrict(f, T)) <= SumFunction(Restrict(g, T))}
<1>1. {} \in Q
  BY SumNothing
<1>2. ASSUME NEW T \in SUBSET S, T \in Q, NEW x \in S \ T
      PROVE  T \cup {x} \in Q
  <2>1. /\ SumFunction(Restrict(f, T)) \in Int
        /\ SumFunction(Restrict(f, T \cup {x})) = f[x] + SumFunction(Restrict(f, T))
    BY SumGrow
  <2>2. /\ SumFunction(Restrict(g, T)) \in Int
        /\ SumFunction(Restrict(g, T \cup {x})) = g[x] + SumFunction(Restrict(g, T))
    BY SumGrow
  <2>3. f[x] \in Int /\ g[x] \in Int /\ f[x] <= g[x]
        /\ SumFunction(Restrict(f, T)) <= SumFunction(Restrict(g, T))
    BY <1>2
  <2>4. SumFunction(Restrict(f, T \cup {x})) <= SumFunction(Restrict(g, T \cup {x}))
    BY <2>1, <2>2, <2>3
  <2>. QED BY <2>4
<1>. HIDE DEF Q
<1>3. S \in Q
  BY <1>1, <1>2, FiniteInduction
<1>4. SumFunction(Restrict(f, S)) <= SumFunction(Restrict(g, S))
  BY <1>3 DEF Q
<1>5. Restrict(f, S) = f /\ Restrict(g, S) = g
  BY RestrictAll
<1>. QED BY <1>4, <1>5

\* Sums of functions that differ by a factor, or by a third function.
LEMMA SumScaled ==
  ASSUME NEW S, IsFiniteSet(S), NEW f \in [S -> Int], NEW c \in Int,
         NEW g \in [S -> Int], \A x \in S : g[x] = f[x] * c
  PROVE  SumFunction(g) = SumFunction(f) * c
<1>. DEFINE Q == {T \in SUBSET S : SumFunction(Restrict(g, T)) = SumFunction(Restrict(f, T)) * c}
<1>1. {} \in Q
  BY SumNothing
<1>2. ASSUME NEW T \in SUBSET S, T \in Q, NEW x \in S \ T
      PROVE  T \cup {x} \in Q
  <2>. DEFINE F == SumFunction(Restrict(f, T))
              G == SumFunction(Restrict(g, T))
  <2>1. F \in Int /\ SumFunction(Restrict(f, T \cup {x})) = f[x] + F
    BY SumGrow
  <2>2. G \in Int /\ SumFunction(Restrict(g, T \cup {x})) = g[x] + G
    BY SumGrow
  <2>3. f[x] \in Int /\ g[x] = f[x] * c /\ G = F * c
    BY <1>2
  <2>. HIDE DEF F, G
  <2>4. g[x] + G = (f[x] + F) * c
    BY <2>1, <2>3
  <2>. QED BY <2>1, <2>2, <2>4
<1>. HIDE DEF Q
<1>3. S \in Q
  BY <1>1, <1>2, FiniteInduction
<1>4. SumFunction(Restrict(g, S)) = SumFunction(Restrict(f, S)) * c
  BY <1>3 DEF Q
<1>5. Restrict(f, S) = f /\ Restrict(g, S) = g
  BY RestrictAll
<1>. QED BY <1>4, <1>5

-----------------------------------------------------------------------------
(* Numbers *)

LEMMA LargerLemma ==
  ASSUME NEW x \in Int, NEW y \in Int
  PROVE  /\ AtLeast(x, y) = IF x >= y THEN x ELSE y
         /\ AtMost(x, y) = IF x <= y THEN x ELSE y
         /\ AtLeast(x, y) \in Int /\ AtMost(x, y) \in Int
         /\ AtLeast(x, y) >= x /\ AtLeast(x, y) >= y
         /\ AtMost(x, y) <= x /\ AtMost(x, y) <= y
<1>. DEFINE high == IF x >= y THEN x ELSE y
            low  == IF x <= y THEN x ELSE y
<1>1. high \in {x, y} /\ \A z \in {x, y} : high >= z
  OBVIOUS
<1>2. low \in {x, y} /\ \A z \in {x, y} : z >= low
  OBVIOUS
<1>3. \A z \in {x, y} : (\A w \in {x, y} : z >= w) => z = high
  OBVIOUS
<1>4. \A z \in {x, y} : (\A w \in {x, y} : z <= w) => z = low
  OBVIOUS
<1>5. Max({x, y}) = high
  BY <1>1, <1>3 DEF Max
<1>6. Min({x, y}) = low
  BY <1>2, <1>4 DEF Min
<1>. QED BY <1>5, <1>6 DEF AtLeast, AtMost

\* A finite set of integers has a largest and a smallest element.
LEMMA ExtremeLemma ==
  ASSUME NEW S, IsFiniteSet(S), S \subseteq Int, S # {}
  PROVE  /\ Max(S) \in S /\ \A x \in S : Max(S) >= x
         /\ Min(S) \in S /\ \A x \in S : Min(S) <= x
<1>. DEFINE Q == {T \in SUBSET S : T # {} => /\ \E m \in T : \A x \in T : m >= x
                                           /\ \E m \in T : \A x \in T : m <= x}
<1>1. {} \in Q
  OBVIOUS
<1>2. ASSUME NEW T \in SUBSET S, T \in Q, NEW y \in S \ T
      PROVE  T \cup {y} \in Q
  <2>0. y \in Int /\ T \subseteq Int
    OBVIOUS
  <2>1. CASE T = {}
    BY <2>0, <2>1
  <2>2. CASE T # {}
    <3>1. PICK hi \in T : \A x \in T : hi >= x
      BY <1>2, <2>2
    <3>2. PICK lo \in T : \A x \in T : lo <= x
      BY <1>2, <2>2
    <3>3. \E m \in T \cup {y} : \A x \in T \cup {y} : m >= x
      <4>1. CASE hi >= y
        BY <3>1, <4>1
      <4>2. CASE ~(hi >= y)
        <5>1. \A x \in T \cup {y} : y >= x
          BY <2>0, <3>1, <4>2
        <5>. QED BY <5>1
      <4>. QED BY <4>1, <4>2
    <3>4. \E m \in T \cup {y} : \A x \in T \cup {y} : m <= x
      <4>1. CASE lo <= y
        BY <3>2, <4>1
      <4>2. CASE ~(lo <= y)
        <5>1. \A x \in T \cup {y} : y <= x
          BY <2>0, <3>2, <4>2
        <5>. QED BY <5>1
      <4>. QED BY <4>1, <4>2
    <3>. QED BY <3>3, <3>4
  <2>. QED BY <2>1, <2>2
<1>. HIDE DEF Q
<1>3. S \in Q
  BY <1>1, <1>2, FiniteInduction
<1>4. /\ \E m \in S : \A x \in S : m >= x
      /\ \E m \in S : \A x \in S : m <= x
  BY <1>3 DEF Q
<1>5. Max(S) \in S /\ \A x \in S : Max(S) >= x
  BY <1>4 DEF Max
<1>6. Min(S) \in S /\ \A x \in S : Min(S) <= x
  BY <1>4 DEF Min
<1>. QED BY <1>5, <1>6

\* The images of the elements of a finite set.
LEMMA ImageLemma ==
  ASSUME NEW S, IsFiniteSet(S), NEW f, DOMAIN f = S
  PROVE  IsFiniteSet({f[x] : x \in S})
<1>. DEFINE T == {f[x] : x \in S}
            g == [x \in S |-> f[x]]
<1>1. g \in Surjection(S, T)
  BY DEF Surjection
<1>. HIDE DEF g, T
<1>2. IsFiniteSet(T)
  BY <1>1, FS_Surjection
<1>. QED BY <1>2 DEF T

\* The positions of a sequence, and some of them.
LEMMA PositionsLemma ==
  ASSUME NEW S, NEW s \in Seq(S)
  PROVE  /\ Len(s) \in Nat /\ DOMAIN s = 1 .. Len(s) /\ IsFiniteSet(DOMAIN s)
         /\ \A T \in SUBSET DOMAIN s : IsFiniteSet(T)
         /\ \A i \in DOMAIN s : s[i] \in S
<1>1. Len(s) \in Nat /\ DOMAIN s = 1 .. Len(s)
  BY LenProperties
<1>2. IsFiniteSet(DOMAIN s)
  BY <1>1, FS_Interval
<1>3. \A i \in DOMAIN s : s[i] \in S
  BY <1>1, ElementOfSeq
<1>. QED BY <1>1, <1>2, <1>3, FS_Subset

\* A function on 1 .. n is a sequence of length n.
LEMMA TupleLemma ==
  ASSUME NEW n \in Nat, NEW S, NEW f \in [1 .. n -> S]
  PROVE  f \in Seq(S) /\ Len(f) = n /\ DOMAIN f = 1 .. n
<1>1. f \in Seq(S)
  BY SeqDef
<1>2. 1 .. Len(f) = 1 .. n /\ Len(f) \in Nat
  BY <1>1, LenProperties
<1>. QED BY <1>1, <1>2

-----------------------------------------------------------------------------
(***************************************************************************)
(* What the engine computes from a decoded plan is made of whole numbers,  *)
(* whenever the validation lets the plan through.                          *)
(***************************************************************************)
SourceType ==
  [id : Nat, type : STRING, capacity : Int, cost : Int, capex : Int, lead : Int,
   ready : Int, firm : BOOLEAN]

SizeType ==
  [itKw : Int, facility : Int, racks : Int, gpus : Int, heatKw : Int, coolingKw : Int,
   whitespace : Int, gross : Int, footprint : Int]

PhaseType ==
  [id : Nat, size : SizeType, footprint : Int, agility : BOOLEAN, start : Int,
   constructionReady : Int, powerReady : Int, energize : Int]

\* What the validation has to say of a plan for its schedule to make sense.
Schedulable(plan) ==
  /\ plan \in SitePlan
  /\ plan.compute.kwPerRack > 0
  /\ plan.phasing.mode # "SINGLE_SHOT" =>
       /\ plan.phasing.phases # << >>
       /\ \A k \in DOMAIN plan.phasing.phases :
            plan.phasing.phases[k].source # 0 =>
              SourcesNamed(NewSources(plan), plan.phasing.phases[k].source) # {}

LEMMA SourcesTyped ==
  ASSUME NEW plan \in SitePlan
  PROVE  NewSources(plan) \in Seq(SourceType) /\ DOMAIN NewSources(plan) = DOMAIN plan.sources
<1>. DEFINE in == plan.sources
            Made(s) == [id |-> s.id, type |-> s.type, capacity |-> s.capacity, cost |-> s.cost,
                        capex |-> s.capex, lead |-> s.lead,
                        ready |-> IF s.type = "GRID" THEN AtLeast(s.available, plan.gridEnergize)
                                  ELSE s.available,
                        firm |-> s.type # "BESS"]
<1>1. in \in Seq([id : Nat, type : STRING, capacity : Int, available : Int, cost : Int,
                  capex : Int, lead : Int])
      /\ plan.gridEnergize \in Int
  BY DEF SitePlan
<1>. HIDE DEF in
<1>2. Len(in) \in Nat /\ DOMAIN in = 1 .. Len(in)
  BY <1>1, PositionsLemma
<1>3. ASSUME NEW i \in 1 .. Len(in)
      PROVE  Made(in[i]) \in SourceType
  <2>1. in[i] \in [id : Nat, type : STRING, capacity : Int, available : Int, cost : Int,
                   capex : Int, lead : Int]
    BY <1>1, ElementOfSeq
  <2>2. AtLeast(in[i].available, plan.gridEnergize) \in Int
    BY <1>1, <2>1, LargerLemma
  <2>. QED BY <2>1, <2>2 DEF SourceType
<1>4. NewSources(plan) = [i \in 1 .. Len(in) |-> Made(in[i])]
  BY <1>2 DEF NewSources, in
<1>. HIDE DEF Made
<1>5. NewSources(plan) \in [1 .. Len(in) -> SourceType]
  BY <1>3, <1>4
<1>. QED BY <1>2, <1>5, TupleLemma DEF in

LEMMA SizeTyped ==
  ASSUME NEW plan \in SitePlan, plan.compute.kwPerRack > 0, NEW kw \in Int, NEW cooling
  PROVE  SizePhase(kw, plan.compute, cooling) \in SizeType
<1>. DEFINE c == plan.compute
<1>1. c.kwPerRack \in Int /\ c.gpusPerRack \in Int /\ c.pue \in Int /\ c.kwPerRack > 0
  BY DEF SitePlan
<1>. HIDE DEF c
<1>. DEFINE racks == (kw + c.kwPerRack - 1) \div c.kwPerRack
<1>2. racks \in Int
  BY <1>1
<1>3. CoolingCeilingKw(cooling) \in Int
  BY DEF CoolingCeilingKw
<1>. HIDE DEF racks
<1>4. /\ racks * c.kwPerRack \in Int /\ racks * c.gpusPerRack \in Int
      /\ racks * CoolingCeilingKw(cooling) \in Int
      /\ racks * 40 \in Int /\ racks * 100 \in Int /\ racks * 300 \in Int
  BY <1>1, <1>2, <1>3
<1>5. (racks * c.kwPerRack) * c.pue \in Int
  BY <1>1, <1>4
<1>. QED BY <1>2, <1>4, <1>5 DEF SizePhase, SizeType, racks, c

LEMMA SupplyTyped ==
  ASSUME NEW srcs \in Seq(SourceType), NEW t
  PROVE  FirmSupplyAt(srcs, t) \in Int
<1>. DEFINE S == {j \in DOMAIN srcs : srcs[j].firm /\ srcs[j].ready <= t}
            f == [i \in S |-> srcs[i].capacity]
<1>1. IsFiniteSet(S)
  BY PositionsLemma
<1>2. \A i \in S : srcs[i].capacity \in Int
  <2>1. \A i \in DOMAIN srcs : srcs[i] \in SourceType
    BY PositionsLemma
  <2>. QED BY <2>1 DEF SourceType
<1>3. f \in [S -> Int]
  BY <1>2
<1>4. SumFunction(f) \in Int
  BY <1>1, <1>3, SumLemma
<1>. QED BY <1>4 DEF FirmSupplyAt

\* The first month in which the sources cover a load, if there is one.
LEMMA CoveringLemma ==
  ASSUME NEW srcs, NEW facility, NEW months \in Int
  PROVE  /\ FirstMonthCovering(srcs, facility, months) \in Nat
         /\ MonthsCovering(srcs, facility, months) # {} =>
              /\ FirstMonthCovering(srcs, facility, months)
                   \in MonthsCovering(srcs, facility, months)
              /\ \A t \in MonthsCovering(srcs, facility, months) :
                   FirstMonthCovering(srcs, facility, months) <= t
<1>. DEFINE S == MonthsCovering(srcs, facility, months)
<1>1. S \subseteq 0 .. months - 1
  BY DEF MonthsCovering
<1>2. IsFiniteSet(S) /\ S \subseteq Int /\ S \subseteq Nat
  <2>1. IsFiniteSet(0 .. months - 1)
    BY FS_Interval
  <2>2. 0 .. months - 1 \subseteq Nat
    OBVIOUS
  <2>. HIDE DEF S
  <2>3. IsFiniteSet(S)
    BY <1>1, <2>1, FS_Subset
  <2>. QED BY <1>1, <2>2, <2>3
<1>. HIDE DEF S
<1>3. CASE S = {}
  BY <1>3 DEF FirstMonthCovering, S
<1>4. CASE S # {}
  <2>1. Min(S) \in S /\ \A x \in S : Min(S) <= x
    BY <1>2, <1>4, ExtremeLemma
  <2>2. FirstMonthCovering(srcs, facility, months) = Min(S)
    BY <1>4 DEF FirstMonthCovering, S
  <2>. QED BY <1>2, <2>1, <2>2 DEF S
<1>. QED BY <1>3, <1>4

LEMMA NamedLemma ==
  ASSUME NEW srcs \in Seq(SourceType), NEW id, SourcesNamed(srcs, id) # {}
  PROVE  SourceNamed(srcs, id) \in SourceType /\ SourceNamed(srcs, id).id = id
<1>. DEFINE S == SourcesNamed(srcs, id)
<1>1. S \subseteq DOMAIN srcs /\ DOMAIN srcs \subseteq Int /\ IsFiniteSet(S)
  BY PositionsLemma DEF SourcesNamed
<1>. HIDE DEF S
<1>2. Max(S) \in S
  BY <1>1, ExtremeLemma DEF S
<1>3. srcs[Max(S)] \in SourceType /\ srcs[Max(S)].id = id
  BY <1>1, <1>2, PositionsLemma DEF S, SourcesNamed
<1>. QED BY <1>3 DEF SourceNamed, S

\* The IT load of the phases online in a month, and their GPUs.
LEMMA OnlineLemma ==
  ASSUME NEW phases \in Seq(PhaseType), NEW t
  PROVE  /\ Online(phases, t) \subseteq DOMAIN phases
         /\ IsFiniteSet(Online(phases, t))
         /\ \A k \in Online(phases, t) : phases[k] \in PhaseType
         /\ OnlineItKw(phases, t) \in Int
         /\ OnlineGpus(phases, t) \in Int
<1>. DEFINE S == Online(phases, t)
            itKw == [k \in S |-> phases[k].size.itKw]
            gpus == [k \in S |-> phases[k].size.gpus]
<1>1. S \subseteq DOMAIN phases
  BY DEF Online
<1>2. IsFiniteSet(S) /\ \A k \in S : phases[k] \in PhaseType
  BY <1>1, PositionsLemma
<1>. HIDE DEF S
<1>3. \A k \in S : phases[k].size.itKw \in Int /\ phases[k].size.gpus \in Int
  BY <1>2 DEF PhaseType, SizeType
<1>4. itKw \in [S -> Int] /\ gpus \in [S -> Int]
  BY <1>3
<1>. HIDE DEF itKw, gpus
<1>5. SumFunction(itKw) \in Int /\ SumFunction(gpus) \in Int
  BY <1>2, <1>4, SumLemma
<1>. QED BY <1>1, <1>2, <1>5 DEF OnlineItKw, OnlineGpus, S, itKw, gpus

\* What NewPhase returns, as far as scheduling looks at it.
Typed(phase) ==
  /\ phase.id \in Nat /\ phase.size \in SizeType /\ phase.footprint \in Int
  /\ phase.agility \in BOOLEAN

LEMMA NewPhaseTyped ==
  ASSUME NEW plan, Schedulable(plan), NEW id \in Nat, NEW kw \in Int, NEW cooling
  PROVE  /\ Typed(NewPhase(plan, id, kw, cooling))
         /\ \A footprint \in Int :
              Typed([NewPhase(plan, id, kw, cooling) EXCEPT !.footprint = footprint])
         /\ NewPhase(plan, id, kw, cooling).size = SizePhase(kw, plan.compute, cooling)
         /\ \A footprint :
              [NewPhase(plan, id, kw, cooling) EXCEPT !.footprint = footprint].size
                = SizePhase(kw, plan.compute, cooling)
<1>. DEFINE size == SizePhase(kw, plan.compute, cooling)
<1>1. size \in SizeType
  BY SizeTyped DEF Schedulable
<1>. HIDE DEF size
<1>2. size.footprint \in Int
  BY <1>1 DEF SizeType
<1>3. NewPhase(plan, id, kw, cooling)
        = [id |-> id, cooling |-> cooling, size |-> size, footprint |-> size.footprint,
           agility |-> cooling # "AIR" \/ plan.site.floor >= 300]
  BY DEF NewPhase, size
<1>. QED BY <1>1, <1>2, <1>3 DEF size, Typed

LEMMA ScheduledTyped ==
  ASSUME NEW phase, Typed(phase), NEW start \in Int, NEW constructionReady \in Int, NEW powerReady \in Int
  PROVE  Scheduled(phase, start, constructionReady, powerReady) \in PhaseType
<1>1. AtLeast(powerReady, constructionReady) \in Int
  BY LargerLemma
<1>. QED BY <1>1 DEF Scheduled, PhaseType, Typed

\* A plan that can be scheduled has a timeline of at least one phase.
LEMMA ScheduleTyped ==
  ASSUME NEW plan, Schedulable(plan)
  PROVE  LET phases == Schedule(plan, NewSources(plan))
         IN  /\ phases \in Seq(PhaseType) /\ Len(phases) > 0
             /\ plan.phasing.mode = "SINGLE_SHOT" => Len(phases) = 1
             /\ plan.phasing.mode # "SINGLE_SHOT" => DOMAIN phases = DOMAIN plan.phasing.phases
<1>. DEFINE srcs == NewSources(plan)
            ins == plan.phasing.phases
            InType == [id : Nat, kw : Int, start : Int, energize : Int, source : Nat,
                       cooling : Cooling \cup {"UNSET"}, footprint : Int]
<1>1. /\ plan \in SitePlan /\ ins \in Seq(InType) /\ plan.hold \in Int
      /\ plan.compute.target \in Int
  BY DEF Schedulable, SitePlan
<1>2. srcs \in Seq(SourceType)
  BY <1>1, SourcesTyped
<1>3. CASE plan.phasing.mode = "SINGLE_SHOT"
  <2>. DEFINE phase == NewPhase(plan, 1, plan.compute.target, plan.compute.cooling)
              power == FirstMonthCovering(srcs, phase.size.facility, plan.hold)
  <2>1. Typed(phase)
    <3>1. 1 \in Nat /\ plan.compute.target \in Int
      BY <1>1
    <3>. QED BY <3>1, NewPhaseTyped
  <2>. HIDE DEF phase
  <2>2. power \in Int
    BY <1>1, CoveringLemma
  <2>. HIDE DEF power
  <2>3. Scheduled(phase, 0, ConstructionLeadMonths, power) \in PhaseType
    BY <2>1, <2>2, ScheduledTyped DEF ConstructionLeadMonths
  <2>4. Schedule(plan, srcs) = <<Scheduled(phase, 0, ConstructionLeadMonths, power)>>
    BY <1>3 DEF Schedule, SingleShot, phase, power
  <2>. QED BY <1>3, <2>3, <2>4 DEF srcs
<1>4. CASE plan.phasing.mode # "SINGLE_SHOT"
  <2>. DEFINE n == Len(ins)
              sized == [k \in DOMAIN ins |-> NewPhase(plan, ins[k].id, ins[k].kw,
                                                      PhaseCooling(plan, ins[k]))]
              load(k) == SumFunction([j \in 1 .. k |-> sized[j].size.facility])
              power(k) == IF ins[k].source # 0 THEN SourceNamed(srcs, ins[k].source).ready
                          ELSE FirstMonthCovering(srcs, load(k), plan.hold)
              phase(k) == [sized[k] EXCEPT !.footprint =
                             IF ins[k].footprint > 0 THEN ins[k].footprint ELSE @]
              made(k) == Scheduled(phase(k), ins[k].start, ins[k].energize, power(k))
  <2>1. n \in Nat /\ n > 0 /\ DOMAIN ins = 1 .. n
    <3>1. n \in Nat /\ DOMAIN ins = 1 .. n
      BY <1>1, PositionsLemma
    <3>2. ins # << >>
      BY <1>4 DEF Schedulable
    <3>. QED BY <1>1, <3>1, <3>2, EmptySeq
  <2>2. ASSUME NEW k \in 1 .. n
        PROVE  made(k) \in PhaseType
    <3>1. ins[k] \in InType
      BY <1>1, ElementOfSeq
    <3>2. /\ ins[k].id \in Nat /\ ins[k].kw \in Int /\ ins[k].start \in Int
          /\ ins[k].energize \in Int /\ ins[k].footprint \in Int
      BY <3>1
    <3>3. sized[k] = NewPhase(plan, ins[k].id, ins[k].kw, PhaseCooling(plan, ins[k]))
      BY <2>1
    <3>. HIDE DEF sized
    <3>4. Typed(sized[k]) /\ \A footprint \in Int : Typed([sized[k] EXCEPT !.footprint = footprint])
      BY <3>2, <3>3, NewPhaseTyped
    <3>5. Typed(phase(k))
      <4>. DEFINE footprint == IF ins[k].footprint > 0 THEN ins[k].footprint ELSE sized[k].footprint
      <4>1. footprint \in Int
        BY <3>2, <3>4 DEF Typed
      <4>2. phase(k) = [sized[k] EXCEPT !.footprint = footprint]
        OBVIOUS
      <4>. HIDE DEF footprint, phase
      <4>. QED BY <3>4, <4>1, <4>2
    <3>6. power(k) \in Int
      <4>1. CASE ins[k].source # 0
        <5>1. SourcesNamed(srcs, ins[k].source) # {}
          BY <1>4, <2>1, <4>1 DEF Schedulable
        <5>2. SourceNamed(srcs, ins[k].source) \in SourceType
          BY <1>2, <5>1, NamedLemma
        <5>. QED BY <4>1, <5>2 DEF SourceType
      <4>2. CASE ~(ins[k].source # 0)
        <5>. HIDE DEF load, srcs
        <5>1. FirstMonthCovering(srcs, load(k), plan.hold) \in Nat
          BY <1>1, CoveringLemma
        <5>. QED BY <4>2, <5>1
      <4>. QED BY <4>1, <4>2
    <3>. HIDE DEF phase, power
    <3>. QED BY <3>2, <3>5, <3>6, ScheduledTyped
  <2>3. Schedule(plan, srcs) = [k \in 1 .. n |-> made(k)]
    BY <1>4, <2>1 DEF Schedule, Explicit, Timeline
  <2>. HIDE DEF made
  <2>4. Schedule(plan, srcs) \in [1 .. n -> PhaseType]
    BY <2>2, <2>3
  <2>5. /\ Schedule(plan, srcs) \in Seq(PhaseType) /\ Len(Schedule(plan, srcs)) = n
        /\ DOMAIN Schedule(plan, srcs) = 1 .. n
    BY <2>1, <2>4, TupleLemma
  <2>. QED BY <1>4, <2>1, <2>5 DEF srcs
<1>. QED BY <1>3, <1>4

-----------------------------------------------------------------------------
(***************************************************************************)
(* What the validation promises of a plan it lets through.                 *)
(***************************************************************************)
Sound(plan) == plan \in SitePlan /\ ~HasErrors(Validate(plan))

InRange(plan) ==
  /\ SiteInRange(plan.site) /\ ComputeInRange(plan.compute) /\ SourcesInRange(plan)
  /\ DemandInRange(plan.demand) /\ CostsInRange(plan.costs) /\ GpuInRange(plan.costs)
  /\ RevenueInRange(plan.revenue) /\ FinanceInRange(plan) /\ PhasesInRange(plan.phasing)

LEMMA PlanTyped ==
  ASSUME NEW plan \in SitePlan
  PROVE  /\ plan.hold \in Int /\ plan.exitCapPct \in Int /\ plan.compute.target \in Int
         /\ plan.compute.kwPerRack \in Int /\ plan.compute.pue \in Int
         /\ plan.compute.gpusPerRack \in Int
         /\ plan.demand \in Seq([month : Int, kw : Int])
  BY DEF SitePlan

LEMMA ErrorLemma ==
  ASSUME NEW diags, NEW code, Error(code) \in diags
  PROVE  HasErrors(diags)
  BY DEF HasErrors, Error

\* What no diagnostic complains about is so.
LEMMA CheckedLemma ==
  ASSUME NEW diags, ~HasErrors(diags), NEW condition, NEW code,
         When(condition, Error(code)) \subseteq diags
  PROVE  ~condition
<1>1. condition => Error(code) \in diags
  BY DEF When
<1>. QED BY <1>1, ErrorLemma

LEMMA SoundStructure ==
  ASSUME NEW plan, Sound(plan)
  PROVE  /\ ~HasErrors(ValidateStructure(plan))
         /\ Validate(plan) = ValidateDensity(plan, plan.compute.cooling)
              \cup IF plan.phasing.mode = "SINGLE_SHOT"
                   THEN ValidateSingleShot(plan, NewSources(plan))
                   ELSE ValidateExplicit(plan, NewSources(plan))
  BY DEF Sound, Validate

LEMMA SoundParts ==
  ASSUME NEW plan, Sound(plan)
  PROVE  /\ ~MissingRequired(plan) /\ ~OutOfRange(plan)
         /\ plan.mode # "RUN_OPTIMIZE" /\ plan.phasing.mode # "OPTIMIZE"
<1>1. ~HasErrors(ValidateStructure(plan))
  BY SoundStructure
<1>. DEFINE A == plan.mode = "RUN_OPTIMIZE" \/ plan.phasing.mode = "OPTIMIZE"
            B == MissingRequired(plan)
            C == OutOfRange(plan)
<1>2. ValidateStructure(plan) = When(A, Error("USE_OPTIMIZE"))
        \cup When(B, Error("MISSING_REQUIRED")) \cup When(C, Error("OUT_OF_RANGE"))
  BY DEF ValidateStructure
<1>. HIDE DEF A, B, C
<1>3. ~A /\ ~B /\ ~C
  BY <1>1, <1>2, CheckedLemma
<1>. QED BY <1>3 DEF A, B, C

LEMMA SoundRanges ==
  ASSUME NEW plan, Sound(plan)
  PROVE  /\ InRange(plan)
         /\ plan.phasing.mode \in {"SINGLE_SHOT", "EXPLICIT"}
         /\ plan.phasing.mode # "SINGLE_SHOT" => plan.phasing.phases # << >>
         /\ plan.revenue.mode \in {"COLO_LEASE", "COMPUTE_SALES"}
         /\ plan.sources # << >> /\ plan.demand # << >>
         /\ plan.compute.cooling # "UNSET"
<1>1. ~MissingRequired(plan) /\ ~OutOfRange(plan)
      /\ plan.mode # "RUN_OPTIMIZE" /\ plan.phasing.mode # "OPTIMIZE"
  BY SoundParts
<1>2. plan.phasing.mode \in {"UNSET", "SINGLE_SHOT", "EXPLICIT", "OPTIMIZE"}
  BY DEF Sound, SitePlan
<1>3. /\ "site" \notin plan.unset /\ "compute" \notin plan.unset /\ "costs" \notin plan.unset
      /\ "finance" \notin plan.unset /\ "gpu" \notin plan.unset
  BY <1>1 DEF MissingRequired
<1>4. /\ plan.revenue.mode \in {"COLO_LEASE", "COMPUTE_SALES"}
      /\ plan.revenue.mode \notin plan.unset
      /\ plan.sources # << >> /\ plan.demand # << >>
      /\ plan.compute.cooling # "UNSET" /\ plan.phasing.mode # "UNSET"
      /\ plan.phasing.mode = "EXPLICIT" => plan.phasing.phases # << >>
  BY <1>1 DEF MissingRequired
<1>5. InRange(plan)
  BY <1>1, <1>3, <1>4 DEF OutOfRange, InRange
<1>. QED BY <1>1, <1>2, <1>4, <1>5

LEMMA HoldLemma ==
  ASSUME NEW plan, Sound(plan)
  PROVE  plan.hold \in Int /\ plan.hold >= 1 /\ plan.hold - 1 \in Nat /\ plan.exitCapPct \in Int
<1>1. plan.hold \in Int /\ plan.exitCapPct \in Int
  BY PlanTyped DEF Sound
<1>2. InRange(plan)
  BY SoundRanges
<1>3. FinanceInRange(plan)
  BY <1>2 DEF InRange
<1>4. plan.hold \in 1 .. 600
  BY <1>3 DEF FinanceInRange
<1>. QED BY <1>1, <1>4

LEMMA SoundTimeline ==
  ASSUME NEW plan, Sound(plan)
  PROVE  Schedulable(plan)
<1>. DEFINE srcs == NewSources(plan)
            phases == plan.phasing.phases
<1>1. plan \in SitePlan /\ plan.compute.kwPerRack > 0
      /\ (plan.phasing.mode # "SINGLE_SHOT" => plan.phasing.phases # << >>)
  BY SoundRanges DEF Sound, InRange, ComputeInRange
<1>2. ASSUME plan.phasing.mode # "SINGLE_SHOT",
             NEW k \in DOMAIN phases, phases[k].source # 0
      PROVE  SourcesNamed(srcs, phases[k].source) # {}
  <2>. SUFFICES ASSUME SourcesNamed(srcs, phases[k].source) = {} PROVE FALSE
    OBVIOUS
  <2>1. Error("UNKNOWN_POWER_SOURCE") \in ValidatePhasePower(plan, srcs, k)
    BY <1>2 DEF ValidatePhasePower
  <2>2. ValidatePhasePower(plan, srcs, k) \subseteq ValidateExplicit(plan, srcs)
    BY DEF ValidateExplicit
  <2>3. Error("UNKNOWN_POWER_SOURCE") \in Validate(plan)
    BY <1>2, <2>1, <2>2, SoundStructure
  <2>. QED BY <2>3, ErrorLemma DEF Sound
<1>. QED BY <1>1, <1>2 DEF Schedulable

-----------------------------------------------------------------------------
(* Recursion over 0 .. n, and division *)

Steps(n, V) == [1 .. n -> [V -> V]]

\* The functions whose value at k is what step k makes of the value before.
Runs(n, V, b, G) ==
  {g \in [0 .. n -> V] : g[0] = b /\ \A k \in 1 .. n : g[k] = G[k][g[k - 1]]}

LEMMA RecursionLemma ==
  ASSUME NEW n \in Nat, NEW V, NEW b \in V, NEW G \in Steps(n, V)
  PROVE  Runs(n, V, b, G) # {}
<1>. USE DEF Steps, Runs
<1>. DEFINE Upto(m) == {g \in [0 .. m -> V] : /\ g[0] = b
                                             /\ \A k \in 1 .. m : g[k] = G[k][g[k - 1]]}
            N == {m \in Nat : m <= n => Upto(m) # {}}
<1>1. 0 \in N
  <2>. DEFINE g == [k \in 0 .. 0 |-> b]
  <2>1. g \in Upto(0)
    OBVIOUS
  <2>. QED BY <2>1
<1>2. ASSUME NEW m \in Nat, m \in N
      PROVE  m + 1 \in N
  <2>. SUFFICES ASSUME m + 1 <= n PROVE Upto(m + 1) # {}
    OBVIOUS
  <2>1. m <= n
    OBVIOUS
  <2>2. PICK g \in [0 .. m -> V] : g[0] = b /\ \A k \in 1 .. m : g[k] = G[k][g[k - 1]]
    BY <1>2, <2>1
  <2>. DEFINE h == [k \in 0 .. m + 1 |-> IF k <= m THEN g[k] ELSE G[m + 1][g[m]]]
  <2>3. m + 1 \in 1 .. n /\ g[m] \in V
    BY <2>2
  <2>4. G[m + 1][g[m]] \in V
    BY <2>3
  <2>5. h \in [0 .. m + 1 -> V]
    BY <2>2, <2>4
  <2>6. \A k \in 0 .. m : h[k] = g[k]
    OBVIOUS
  <2>7. h[m + 1] = G[m + 1][g[m]]
    OBVIOUS
  <2>. HIDE DEF h
  <2>8. ASSUME NEW k \in 1 .. m + 1
        PROVE  h[k] = G[k][h[k - 1]]
    <3>1. CASE k = m + 1
      <4>1. k - 1 = m /\ m \in 0 .. m
        BY <3>1
      <4>. QED BY <2>6, <2>7, <3>1, <4>1
    <3>2. CASE k \in 1 .. m
      <4>1. k \in 0 .. m /\ k - 1 \in 0 .. m
        BY <3>2
      <4>. QED BY <2>2, <2>6, <3>2, <4>1
    <3>. QED BY <3>1, <3>2
  <2>9. h[0] = b
    BY <2>2, <2>6
  <2>10. h \in Upto(m + 1)
    BY <2>5, <2>8, <2>9
  <2>. QED BY <2>10
<1>. HIDE DEF N
<1>3. n \in N
  BY <1>1, <1>2, InductionOnNat
<1>. QED BY <1>3 DEF N

\* The quotient is the largest number that fits.
LEMMA DivisionLemma ==
  ASSUME NEW a \in Int, NEW d \in Int, d > 0
  PROVE  /\ a \div d \in Int
         /\ d * (a \div d) <= a /\ a < d * (a \div d) + d
  OBVIOUS

LEMMA QuotientLemma ==
  ASSUME NEW a \in Int, NEW d \in Int, d > 0, NEW q \in Int, d * q <= a
  PROVE  q <= a \div d
<1>. DEFINE r == a \div d
<1>1. r \in Int /\ a < d * r + d
  BY DivisionLemma
<1>. HIDE DEF r
<1>2. d * q < d * r + d
  BY <1>1
<1>3. CASE q <= r
  BY <1>3 DEF r
<1>4. CASE q >= r + 1
  <2>1. d * q >= d * (r + 1)
    BY <1>1, <1>4
  <2>2. d * (r + 1) = d * r + d
    BY <1>1
  <2>. QED BY <1>1, <1>2, <2>1, <2>2
<1>. QED BY <1>1, <1>3, <1>4

-----------------------------------------------------------------------------
(* Demand and what of it is captured *)

PointType == [month : Int, kw : Int]

\* Between two points that rise in time the interpolated demand is never negative.
LEMMA InterpolationLemma ==
  ASSUME NEW x \in Nat, NEW d \in Nat, d > 0, x <= d, NEW from \in Nat, NEW to \in Nat
  PROVE  from + (x * (to - from)) \div d \in Nat
<1>1. x * (to - from) \in Int
  OBVIOUS
<1>2. x * (to - from) = x * to - x * from
  OBVIOUS
<1>3. x * to \in Nat /\ x * from \in Nat /\ d * from \in Nat
  OBVIOUS
<1>4. x * from <= d * from
  <2>1. (d - x) \in Nat
    OBVIOUS
  <2>2. (d - x) * from \in Nat
    BY <2>1
  <2>3. (d - x) * from = d * from - x * from
    OBVIOUS
  <2>. QED BY <1>3, <2>2, <2>3
<1>5. d * (-from) = -(d * from)
  OBVIOUS
<1>6. d * (-from) <= x * (to - from)
  BY <1>2, <1>3, <1>4, <1>5
<1>7. -from <= (x * (to - from)) \div d
  BY <1>1, <1>6, QuotientLemma
<1>8. (x * (to - from)) \div d \in Int
  BY <1>1, DivisionLemma
<1>. QED BY <1>7, <1>8

LEMMA DemandTyped ==
  ASSUME NEW points \in Seq(PointType), DemandInRange(points), NEW month \in Int
  PROVE  DemandAt(points, month) \in Nat
<1>. DEFINE n == Len(points)
            next == {i \in 2 .. n : points[1].month <= month /\ month <= points[i].month}
<1>1. n \in Nat /\ DOMAIN points = 1 .. n
      /\ \A i \in 1 .. n : points[i] \in PointType
  BY PositionsLemma
<1>2. ASSUME NEW i \in 1 .. n
      PROVE  points[i].month \in Int /\ points[i].kw \in Nat
  <2>1. points[i].month \in Int /\ points[i].kw \in Int
    BY <1>1 DEF PointType
  <2>2. points[i].kw >= 0
    BY <1>1 DEF DemandInRange
  <2>. QED BY <2>1, <2>2
<1>3. \A i \in 2 .. n : i - 1 \in 1 .. n /\ points[i].month > points[i - 1].month
  BY <1>1, <1>2 DEF DemandInRange
<1>4. CASE n = 0 \/ month < points[1].month
  <2>1. n # 0 => points[1].month \in Int
    BY <1>1, <1>2
  <2>2. next = {}
    BY <1>1, <1>4, <2>1
  <2>. QED BY <1>4, <2>2 DEF DemandAt
<1>5. CASE ~(n = 0 \/ month < points[1].month) /\ next # {}
  <2>1. IsFiniteSet(next) /\ next \subseteq Int
    <3>1. IsFiniteSet(2 .. n) /\ next \subseteq 2 .. n
      BY <1>1, FS_Interval
    <3>. HIDE DEF next
    <3>2. IsFiniteSet(next)
      BY <3>1, FS_Subset
    <3>. QED BY <3>1, <3>2
  <2>. DEFINE i == Min(next)
              a == points[i - 1]
              b == points[i]
  <2>. HIDE DEF next
  <2>2. i \in next /\ \A j \in next : i <= j
    BY <1>5, <2>1, ExtremeLemma
  <2>3. /\ DemandAt(points, month)
             = a.kw + ((month - a.month) * (b.kw - a.kw)) \div (b.month - a.month)
    BY <1>5 DEF DemandAt, next
  <2>. HIDE DEF i
  <2>4. i \in 2 .. n /\ month <= b.month
    BY <2>2 DEF next
  <2>5. /\ a.month \in Int /\ b.month \in Int /\ a.kw \in Nat /\ b.kw \in Nat
        /\ b.month > a.month
    BY <1>2, <1>3, <2>4
  <2>6. month >= a.month
    <3>1. CASE i = 2
      BY <1>1, <1>2, <1>5, <2>4, <3>1
    <3>2. CASE i # 2
      <4>1. i - 1 \in 2 .. n /\ ~(i <= i - 1)
        BY <2>4, <3>2
      <4>2. i - 1 \notin next
        BY <2>2, <4>1
      <4>3. points[1].month <= month
        BY <2>2 DEF next
      <4>. QED BY <2>5, <4>1, <4>2, <4>3 DEF next
    <3>. QED BY <3>1, <3>2
  <2>. HIDE DEF a, b
  <2>7. /\ month - a.month \in Nat /\ b.month - a.month \in Nat /\ b.month - a.month > 0
        /\ month - a.month <= b.month - a.month
    BY <2>4, <2>5, <2>6
  <2>8. a.kw + ((month - a.month) * (b.kw - a.kw)) \div (b.month - a.month) \in Nat
    BY <2>5, <2>7, InterpolationLemma
  <2>. QED BY <2>3, <2>8
<1>6. CASE ~(n = 0 \/ month < points[1].month) /\ next = {}
  <2>1. DemandAt(points, month) = points[n].kw
    BY <1>6 DEF DemandAt
  <2>2. n \in 1 .. n
    BY <1>1, <1>6
  <2>. QED BY <1>2, <2>1, <2>2
<1>. QED BY <1>4, <1>5, <1>6

CaptureType == [demand : Int, captured : Int, shortfall : Int, stranded : Int]

\* Capturing takes no more than is asked for.
LEMMA CaptureTyped ==
  ASSUME NEW grid, IsFiniteSet(grid), NEW demand \in [grid -> Nat], NEW online \in [grid -> Int]
  PROVE  /\ Capture(demand, online) \in CaptureType
         /\ (\A t \in grid : online[t] >= 0) =>
              /\ Capture(demand, online).captured \in Nat
              /\ Capture(demand, online).captured <= Capture(demand, online).demand
<1>. DEFINE captured  == [t \in grid |-> AtMost(demand[t], online[t])]
            shortfall == [t \in grid |-> AtLeast(demand[t] - online[t], 0)]
            stranded  == [t \in grid |-> AtLeast(online[t] - demand[t], 0)]
<1>1. \A t \in grid : demand[t] \in Nat /\ online[t] \in Int
  OBVIOUS
<1>2. ASSUME NEW t \in grid
      PROVE  /\ AtMost(demand[t], online[t]) \in Int
             /\ AtLeast(demand[t] - online[t], 0) \in Int
             /\ AtLeast(online[t] - demand[t], 0) \in Int
  <2>1. /\ demand[t] \in Int /\ online[t] \in Int /\ demand[t] - online[t] \in Int
        /\ online[t] - demand[t] \in Int /\ 0 \in Int
    BY <1>1
  <2>2. AtMost(demand[t], online[t]) \in Int
    BY <2>1, LargerLemma
  <2>3. AtLeast(demand[t] - online[t], 0) \in Int
    BY <2>1, LargerLemma
  <2>4. AtLeast(online[t] - demand[t], 0) \in Int
    BY <2>1, LargerLemma
  <2>. QED BY <2>2, <2>3, <2>4
<1>3. /\ captured \in [grid -> Int] /\ shortfall \in [grid -> Int] /\ stranded \in [grid -> Int]
      /\ demand \in [grid -> Int]
  BY <1>1, <1>2
<1>4. /\ Capture(demand, online)
           = [demand |-> SumFunction(demand), captured |-> SumFunction(captured),
              shortfall |-> SumFunction(shortfall), stranded |-> SumFunction(stranded)]
  BY DEF Capture
<1>. HIDE DEF shortfall, stranded
<1>5. SumFunction(shortfall) \in Int /\ SumFunction(stranded) \in Int
  BY <1>3, SumLemma
<1>6. SumFunction(captured) \in Int /\ SumFunction(demand) \in Int
  <2>. HIDE DEF captured
  <2>. QED BY <1>3, SumLemma
<1>7. ASSUME \A t \in grid : online[t] >= 0
      PROVE  SumFunction(captured) \in Nat /\ SumFunction(captured) <= SumFunction(demand)
  <2>1. ASSUME NEW t \in grid
        PROVE  AtMost(demand[t], online[t]) \in Nat
    <3>1. demand[t] \in Nat /\ demand[t] \in Int /\ online[t] \in Int /\ online[t] >= 0
      BY <1>1, <1>7
    <3>2. AtMost(demand[t], online[t]) = IF demand[t] <= online[t] THEN demand[t] ELSE online[t]
      BY <3>1, LargerLemma
    <3>. QED BY <3>1, <3>2
  <2>2. \A t \in grid : AtMost(demand[t], online[t]) <= demand[t]
    BY <1>1, LargerLemma
  <2>3. captured \in [grid -> Nat] /\ \A t \in grid : captured[t] <= demand[t]
    BY <2>1, <2>2
  <2>. HIDE DEF captured
  <2>4. SumFunction(captured) \in Nat
    BY <2>3, SumNat
  <2>5. SumFunction(captured) <= SumFunction(demand)
    BY <1>3, <2>3, SumMonotone
  <2>. QED BY <2>4, <2>5
<1>. HIDE DEF captured
<1>. QED BY <1>4, <1>5, <1>6, <1>7 DEF CaptureType

-----------------------------------------------------------------------------
(* The capital lines *)

Components == {"shell", "electrical", "cooling", "network", "agility_premium", "gpu", "land",
               "power_source"}

LineType == [component : Components, of : Nat, phase : Nat, month : Int, amount : Int]

\* A timeline of at least one phase, and the sources that feed it.
Built(plan, phases, srcs) ==
  /\ Sound(plan)
  /\ phases \in Seq(PhaseType) /\ Len(phases) > 0
  /\ srcs \in Seq(SourceType)

LEMMA CostsTyped ==
  ASSUME NEW plan \in SitePlan
  PROVE  LET c == plan.costs
         IN  /\ c.shell \in Int /\ c.elec \in Int /\ c.cool \in Int /\ c.network \in Int
             /\ c.land \in Int /\ c.gpuCost \in Int /\ c.depreciationYears \in Int
             /\ c.residual \in Seq(Int) /\ c.staffing \in Int /\ c.maintenancePct \in Int
             /\ c.insurancePct \in Int /\ c.mgmtPct \in Int /\ c.tax \in Int
             /\ c.growthPct \in Int /\ c.agilityPct \in Int
  BY DEF SitePlan

LEMMA FiveLemma ==
  ASSUME NEW a, NEW b, NEW c, NEW d, NEW e
  PROVE  IsFiniteSet({a, b, c, d, e})
<1>1. IsFiniteSet({a})
  BY FS_Singleton
<1>2. IsFiniteSet({a} \cup {b})
  BY <1>1, FS_AddElement
<1>3. IsFiniteSet(({a} \cup {b}) \cup {c})
  BY <1>2, FS_AddElement
<1>4. IsFiniteSet((({a} \cup {b}) \cup {c}) \cup {d})
  BY <1>3, FS_AddElement
<1>5. IsFiniteSet(((({a} \cup {b}) \cup {c}) \cup {d}) \cup {e})
  BY <1>4, FS_AddElement
<1>6. {a, b, c, d, e} = ((({a} \cup {b}) \cup {c}) \cup {d}) \cup {e}
  OBVIOUS
<1>. QED BY <1>5, <1>6

LEMMA LineTyped ==
  ASSUME NEW component \in Components, NEW of \in Nat, NEW phase \in Nat, NEW month \in Int,
         NEW amount \in Int
  PROVE  [component |-> component, of |-> of, phase |-> phase, month |-> month,
          amount |-> amount] \in LineType
  BY DEF LineType

LEMMA FacilityLinesTyped ==
  ASSUME NEW plan, NEW phases, NEW srcs, Built(plan, phases, srcs), NEW k \in DOMAIN phases
  PROVE  FacilityLines(plan, phases, k) \subseteq LineType
         /\ IsFiniteSet(FacilityLines(plan, phases, k))
<1>. DEFINE c     == plan.costs
            phase == phases[k]
            kw    == phase.size.itKw
            shell == c.shell * kw
            elec  == c.elec * kw
            cool  == c.cool * kw
            net   == c.network * kw
            extra == IF phase.agility THEN ((shell + elec + cool) * c.agilityPct) \div 100 ELSE 0
            Line(component, amount) ==
              [component |-> component, of |-> k, phase |-> phase.id,
               month |-> phase.start, amount |-> amount]
<1>1. phase \in PhaseType /\ k \in Nat
  <2>1. DOMAIN phases = 1 .. Len(phases) /\ Len(phases) \in Nat
    BY PositionsLemma DEF Built
  <2>. QED BY <2>1, PositionsLemma DEF Built
<1>2. /\ c.shell \in Int /\ c.elec \in Int /\ c.cool \in Int /\ c.network \in Int
      /\ c.agilityPct \in Int
  BY CostsTyped DEF Built, Sound
<1>3. FacilityLines(plan, phases, k)
        = {Line("shell", shell), Line("electrical", elec), Line("cooling", cool),
           Line("network", net), Line("agility_premium", extra)}
  BY DEF FacilityLines
<1>. HIDE DEF c, phase
<1>4. kw \in Int /\ phase.id \in Nat /\ phase.start \in Int
  BY <1>1 DEF PhaseType, SizeType
<1>. HIDE DEF kw
<1>5. shell \in Int /\ elec \in Int /\ cool \in Int /\ net \in Int
  BY <1>2, <1>4
<1>. HIDE DEF shell, elec, cool, net
<1>6. extra \in Int
  <2>1. (shell + elec + cool) * c.agilityPct \in Int
    BY <1>2, <1>5
  <2>2. ((shell + elec + cool) * c.agilityPct) \div 100 \in Int
    BY <2>1, DivisionLemma
  <2>. QED BY <2>2
<1>. HIDE DEF extra
<1>7. \A component \in Components, amount \in Int : Line(component, amount) \in LineType
  BY <1>1, <1>4 DEF LineType
<1>. HIDE DEF Line
<1>8. /\ Line("shell", shell) \in LineType /\ Line("electrical", elec) \in LineType
      /\ Line("cooling", cool) \in LineType /\ Line("network", net) \in LineType
      /\ Line("agility_premium", extra) \in LineType
  BY <1>5, <1>6, <1>7 DEF Components
<1>. DEFINE five == {Line("shell", shell), Line("electrical", elec), Line("cooling", cool),
                     Line("network", net), Line("agility_premium", extra)}
<1>9. IsFiniteSet(five)
  BY FiveLemma
<1>10. five \subseteq LineType
  BY <1>8
<1>. QED BY <1>3, <1>9, <1>10

LEMMA OtherLinesTyped ==
  ASSUME NEW plan, NEW phases, NEW srcs, Built(plan, phases, srcs)
  PROVE  /\ \A k \in DOMAIN phases : GpuLine(plan, phases, k) \in LineType
         /\ LandLine(plan, phases) \in LineType
         /\ \A i \in DOMAIN srcs : PowerLine(phases, srcs, i) \in LineType
<1>1. /\ Len(phases) \in Nat /\ DOMAIN phases = 1 .. Len(phases)
      /\ \A k \in DOMAIN phases : phases[k] \in PhaseType
  BY PositionsLemma DEF Built
<1>2. /\ Len(srcs) \in Nat /\ DOMAIN srcs = 1 .. Len(srcs)
      /\ \A i \in DOMAIN srcs : srcs[i] \in SourceType
  BY PositionsLemma DEF Built
<1>3. ASSUME NEW k \in DOMAIN phases
      PROVE  GpuLine(plan, phases, k) \in LineType
  <2>1. phases[k].size.gpus \in Int /\ phases[k].id \in Nat /\ phases[k].energize \in Int /\ k \in Nat
    BY <1>1 DEF PhaseType, SizeType
  <2>2. plan.costs.gpuCost \in Int
    BY CostsTyped DEF Built, Sound
  <2>. DEFINE amount == IF plan.revenue.mode = "COMPUTE_SALES" /\ phases[k].energize < plan.hold
                        THEN phases[k].size.gpus * plan.costs.gpuCost
                        ELSE 0
  <2>3. amount \in Int
    BY <2>1, <2>2
  <2>4. GpuLine(plan, phases, k) = [component |-> "gpu", of |-> k, phase |-> phases[k].id,
                                    month |-> phases[k].energize, amount |-> amount]
    BY DEF GpuLine
  <2>. HIDE DEF amount
  <2>5. "gpu" \in Components
    BY DEF Components
  <2>. QED BY <2>1, <2>3, <2>4, <2>5, LineTyped
<1>4. LandLine(plan, phases) \in LineType
  <2>1. phases[1].id \in Nat
    BY <1>1 DEF Built, PhaseType
  <2>2. plan.site.land \in Int /\ plan.costs.land \in Int
    BY DEF Built, Sound, SitePlan
  <2>3. plan.site.land * plan.costs.land \in Int
    BY <2>2
  <2>4. "land" \in Components /\ 0 \in Nat /\ 0 \in Int
    BY DEF Components
  <2>. QED BY <2>1, <2>3, <2>4, LineTyped DEF LandLine
<1>5. ASSUME NEW i \in DOMAIN srcs
      PROVE  PowerLine(phases, srcs, i) \in LineType
  <2>. DEFINE after == {k \in DOMAIN phases : phases[k].energize >= srcs[i].ready}
              user == IF after = {} THEN Len(phases) ELSE Min(after)
  <2>1. user \in DOMAIN phases
    <3>1. IsFiniteSet(after) /\ after \subseteq Int /\ after \subseteq DOMAIN phases
      BY <1>1, PositionsLemma DEF Built
    <3>. HIDE DEF after
    <3>2. after # {} => Min(after) \in after
      BY <3>1, ExtremeLemma
    <3>3. Len(phases) \in DOMAIN phases
      BY <1>1 DEF Built
    <3>. QED BY <3>1, <3>2, <3>3
  <2>2. PhaseUsingSource(phases, srcs[i]) = phases[user]
    BY DEF PhaseUsingSource
  <2>. HIDE DEF user
  <2>3. phases[user].id \in Nat
    BY <1>1, <2>1 DEF PhaseType
  <2>4. srcs[i].ready \in Int /\ srcs[i].lead \in Int /\ srcs[i].capex \in Int
        /\ srcs[i].capacity \in Int /\ i \in Nat
    BY <1>2 DEF SourceType
  <2>5. srcs[i].ready - srcs[i].lead \in Int /\ srcs[i].capex * srcs[i].capacity \in Int
    BY <2>4
  <2>6. AtLeast(0, srcs[i].ready - srcs[i].lead) \in Int
    BY <2>5, LargerLemma
  <2>7. "power_source" \in Components
    BY DEF Components
  <2>. QED BY <2>2, <2>3, <2>4, <2>5, <2>6, <2>7, LineTyped DEF PowerLine
<1>. QED BY <1>3, <1>4, <1>5

\* A finite number of lines, each with an amount.
LEMMA CapexTyped ==
  ASSUME NEW plan, NEW phases, NEW srcs, Built(plan, phases, srcs)
  PROVE  BuildCapex(plan, phases, srcs) \subseteq LineType
         /\ IsFiniteSet(BuildCapex(plan, phases, srcs))
<1>. DEFINE facility == {FacilityLines(plan, phases, k) : k \in DOMAIN phases}
            gpu   == {GpuLine(plan, phases, k) : k \in DOMAIN phases}
            power == {PowerLine(phases, srcs, i) : i \in DOMAIN srcs}
            all   == (UNION facility) \cup gpu \cup {LandLine(plan, phases)} \cup power
<1>1. IsFiniteSet(DOMAIN phases) /\ IsFiniteSet(DOMAIN srcs)
  BY PositionsLemma DEF Built
<1>2. UNION facility \subseteq LineType /\ IsFiniteSet(UNION facility)
  <2>1. \A k \in DOMAIN phases : FacilityLines(plan, phases, k) \subseteq LineType
                                 /\ IsFiniteSet(FacilityLines(plan, phases, k))
    BY FacilityLinesTyped
  <2>. DEFINE f == [k \in DOMAIN phases |-> FacilityLines(plan, phases, k)]
  <2>2. facility = {f[k] : k \in DOMAIN phases} /\ DOMAIN f = DOMAIN phases
    OBVIOUS
  <2>. HIDE DEF f
  <2>3. IsFiniteSet(facility)
    BY <1>1, <2>2, ImageLemma
  <2>4. \A T \in facility : IsFiniteSet(T)
    BY <2>1
  <2>. HIDE DEF facility
  <2>5. IsFiniteSet(UNION facility)
    BY <2>3, <2>4, FS_UNION
  <2>. QED BY <2>1, <2>5 DEF facility
<1>3. gpu \subseteq LineType /\ IsFiniteSet(gpu)
  <2>. DEFINE f == [k \in DOMAIN phases |-> GpuLine(plan, phases, k)]
  <2>1. gpu = {f[k] : k \in DOMAIN phases} /\ DOMAIN f = DOMAIN phases
    OBVIOUS
  <2>. HIDE DEF f
  <2>2. IsFiniteSet(gpu)
    BY <1>1, <2>1, ImageLemma
  <2>3. gpu \subseteq LineType
    BY OtherLinesTyped
  <2>. QED BY <2>2, <2>3
<1>4. power \subseteq LineType /\ IsFiniteSet(power)
  <2>. DEFINE f == [i \in DOMAIN srcs |-> PowerLine(phases, srcs, i)]
  <2>1. power = {f[i] : i \in DOMAIN srcs} /\ DOMAIN f = DOMAIN srcs
    OBVIOUS
  <2>. HIDE DEF f
  <2>2. IsFiniteSet(power)
    BY <1>1, <2>1, ImageLemma
  <2>3. power \subseteq LineType
    BY OtherLinesTyped
  <2>. QED BY <2>2, <2>3
<1>5. {LandLine(plan, phases)} \subseteq LineType /\ IsFiniteSet({LandLine(plan, phases)})
  BY OtherLinesTyped, FS_Singleton
<1>6. BuildCapex(plan, phases, srcs) \subseteq all
  BY DEF BuildCapex
<1>. HIDE DEF facility, gpu, power
<1>7. all \subseteq LineType /\ IsFiniteSet(all)
  <2>1. IsFiniteSet((UNION facility) \cup gpu)
    BY <1>2, <1>3, FS_Union
  <2>2. IsFiniteSet(((UNION facility) \cup gpu) \cup {LandLine(plan, phases)})
    BY <2>1, <1>5, FS_Union
  <2>3. IsFiniteSet(all)
    BY <2>2, <1>4, FS_Union
  <2>. QED BY <1>2, <1>3, <1>4, <1>5, <2>3
<1>. HIDE DEF all
<1>. QED BY <1>6, <1>7, FS_Subset

LEMMA AmountsTyped ==
  ASSUME NEW lines, lines \subseteq LineType, IsFiniteSet(lines)
  PROVE  SumAmounts(lines) \in Int
<1>. DEFINE f == [line \in lines |-> line.amount]
<1>1. f \in [lines -> Int]
  BY DEF LineType
<1>2. SumAmounts(lines) = SumFunction(f)
  BY DEF SumAmounts
<1>. HIDE DEF f
<1>. QED BY <1>1, <1>2, SumLemma

-----------------------------------------------------------------------------
(* The monthly lines *)

LEMMA CompoundedTyped ==
  ASSUME NEW pct \in Int, NEW years \in Nat
  PROVE  Compounded(pct, years) \in Int
<1>. DEFINE rate == 1 + pct \div 100
            Body(g) == [y \in 0 .. years |-> IF y = 0 THEN 1 ELSE g[y - 1] * (1 + pct \div 100)]
            factor == CHOOSE g : g = Body(g)
            G == [k \in 1 .. years |-> [v \in Int |-> v * rate]]
<1>1. rate \in Int
  BY DivisionLemma
<1>. HIDE DEF rate
<1>2. G \in [1 .. years -> [Int -> Int]]
  BY <1>1
<1>3. \A k \in 1 .. years, v \in Int : G[k][v] = v * rate
  OBVIOUS
<1>. HIDE DEF G
<1>4. 1 \in Int /\ G \in Steps(years, Int)
  BY <1>2 DEF Steps
<1>5. PICK g \in [0 .. years -> Int] : g[0] = 1 /\ \A k \in 1 .. years : g[k] = G[k][g[k - 1]]
  <2>1. Runs(years, Int, 1, G) # {}
    BY <1>4, RecursionLemma
  <2>. QED BY <2>1 DEF Runs
<1>6. ASSUME NEW k \in 1 .. years
      PROVE  g[k] = g[k - 1] * rate
  <2>1. k - 1 \in 0 .. years
    OBVIOUS
  <2>2. g[k - 1] \in Int
    BY <2>1
  <2>. QED BY <1>3, <1>5, <2>2
<1>7. g = Body(g)
  BY <1>5, <1>6 DEF rate
<1>8. factor = Body(factor)
  BY <1>7
<1>9. Compounded(pct, years) = factor[years]
  BY DEF Compounded
<1>. HIDE DEF factor
<1>10. factor[0] = 1 /\ \A k \in 1 .. years : factor[k] = factor[k - 1] * rate
  BY <1>8 DEF rate
<1>. DEFINE N == {k \in Nat : k <= years => factor[k] \in Int}
<1>11. 0 \in N
  BY <1>10
<1>12. ASSUME NEW k \in Nat, k \in N
       PROVE  k + 1 \in N
  <2>1. CASE k + 1 <= years
    <3>1. k + 1 \in 1 .. years /\ (k + 1) - 1 = k /\ k <= years
      BY <2>1
    <3>2. factor[k + 1] = factor[k] * rate
      BY <1>10, <3>1
    <3>3. factor[k] \in Int
      BY <1>12, <3>1
    <3>. QED BY <1>1, <3>2, <3>3
  <2>2. CASE ~(k + 1 <= years)
    BY <2>2
  <2>. QED BY <2>1, <2>2
<1>. HIDE DEF N
<1>13. years \in N
  BY <1>11, <1>12, InductionOnNat
<1>. QED BY <1>9, <1>13 DEF N

LEMMA StepTyped ==
  ASSUME NEW pct \in Int, NEW elapsed \in Int
  PROVE  AnnualStep(pct, elapsed) \in Int
<1>1. CASE elapsed < 0
  BY <1>1 DEF AnnualStep
<1>2. CASE ~(elapsed < 0)
  <2>1. elapsed \div 12 \in Nat
    BY <1>2
  <2>2. Compounded(pct, elapsed \div 12) \in Int
    BY <2>1, CompoundedTyped
  <2>. QED BY <1>2, <2>2 DEF AnnualStep
<1>. QED BY <1>1, <1>2

LEMMA RevenueTyped ==
  ASSUME NEW plan \in SitePlan, NEW phases \in Seq(PhaseType), NEW t \in Int
  PROVE  Revenue(plan, phases, t) \in Int
         /\ (Online(phases, t) = {} => Revenue(plan, phases, t) = 0)
<1>. DEFINE r == plan.revenue
            S == Online(phases, t)
            Rent(k) == (phases[k].size.itKw * (100 - r.vacancy) * r.rate
                         * AnnualStep(r.escalation, t - phases[k].energize)) \div 100
            f == [k \in S |-> Rent(k)]
<1>1. /\ r.rate \in Int /\ r.escalation \in Int /\ r.vacancy \in Int /\ r.price \in Int
      /\ r.utilization \in Int
  BY DEF SitePlan
<1>2. IsFiniteSet(S) /\ \A k \in S : phases[k] \in PhaseType
  BY OnlineLemma
<1>3. CASE r.mode = "COMPUTE_SALES"
  <2>. DEFINE sold == OnlineGpus(phases, t) * r.utilization * r.price
  <2>1. Revenue(plan, phases, t) = sold \div 100
    BY <1>3 DEF Revenue
  <2>2. OnlineGpus(phases, t) \in Int
    BY OnlineLemma
  <2>. HIDE DEF r
  <2>3. sold \in Int
    BY <1>1, <2>2
  <2>4. S = {} => OnlineGpus(phases, t) = 0
    BY EmptySum DEF OnlineGpus
  <2>5. OnlineGpus(phases, t) = 0 => sold = 0
    BY <1>1
  <2>. HIDE DEF sold
  <2>6. sold \div 100 \in Int
    BY <2>3, DivisionLemma
  <2>7. 0 \div 100 = 0
    OBVIOUS
  <2>. QED BY <2>1, <2>4, <2>5, <2>6, <2>7
<1>4. CASE r.mode # "COMPUTE_SALES"
  <2>1. Revenue(plan, phases, t) = SumFunction(f)
    BY <1>4 DEF Revenue
  <2>. HIDE DEF S, r
  <2>2. ASSUME NEW k \in S
        PROVE  Rent(k) \in Int
    <3>. DEFINE kw == phases[k].size.itKw
                grown == AnnualStep(r.escalation, t - phases[k].energize)
    <3>1. kw \in Int /\ phases[k].energize \in Int
      BY <1>2 DEF PhaseType, SizeType
    <3>2. t - phases[k].energize \in Int
      BY <3>1
    <3>3. grown \in Int
      BY <1>1, <3>2, StepTyped
    <3>. HIDE DEF kw, grown
    <3>4. 100 - r.vacancy \in Int
      BY <1>1
    <3>5. kw * (100 - r.vacancy) \in Int
      BY <3>1, <3>4
    <3>6. kw * (100 - r.vacancy) * r.rate \in Int
      BY <1>1, <3>5
    <3>7. kw * (100 - r.vacancy) * r.rate * grown \in Int
      BY <3>3, <3>6
    <3>8. (kw * (100 - r.vacancy) * r.rate * grown) \div 100 \in Int
      BY <3>7, DivisionLemma
    <3>. QED BY <3>8 DEF kw, grown
  <2>. HIDE DEF Rent
  <2>3. f \in [S -> Int]
    BY <2>2
  <2>4. SumFunction(f) \in Int /\ (S = {} => SumFunction(f) = 0)
    <3>. HIDE DEF f
    <3>. QED BY <1>2, <2>3, SumLemma
  <2>. QED BY <2>1, <2>4 DEF S
<1>. QED BY <1>3, <1>4

LEMMA DeliveredTyped ==
  ASSUME NEW plan \in SitePlan, NEW phases \in Seq(PhaseType), NEW t
  PROVE  Delivered(plan, phases, t) \in Int
<1>. DEFINE share == IF plan.revenue.mode = "COMPUTE_SALES" THEN plan.revenue.utilization
                     ELSE 100 - plan.revenue.vacancy
<1>0. plan.revenue.utilization \in Int /\ plan.revenue.vacancy \in Int
  BY DEF SitePlan
<1>1. share \in Int
  BY <1>0
<1>2. OnlineGpus(phases, t) \in Int
  BY OnlineLemma
<1>3. Delivered(plan, phases, t) = OnlineGpus(phases, t) * share
  BY DEF Delivered
<1>. HIDE DEF share
<1>. QED BY <1>1, <1>2, <1>3

LEMMA EnergyTyped ==
  ASSUME NEW srcs \in Seq(SourceType), NEW load \in Int, NEW t
  PROVE  EnergyCost(srcs, load, t) \in Int
<1>. DEFINE ready == {i \in DOMAIN srcs : srcs[i].firm /\ srcs[i].ready <= t}
            Before(i) == SumFunction([j \in {k \in ready : Cheaper(srcs, k, i)} |->
                                        10000 * srcs[j].capacity])
            Carried(i) == AtMost(AtLeast(load - Before(i), 0), 10000 * srcs[i].capacity)
            f == [i \in ready |-> (Carried(i) * srcs[i].cost) \div 10000]
<1>1. IsFiniteSet(ready) /\ \A i \in ready : srcs[i] \in SourceType
  BY PositionsLemma
<1>3. EnergyCost(srcs, load, t) = SumFunction(f)
  BY DEF EnergyCost
<1>. HIDE DEF ready, Before, Carried, f
<1>2. ASSUME NEW i \in ready
      PROVE  srcs[i].capacity \in Int /\ srcs[i].cost \in Int
             /\ 10000 * srcs[i].capacity \in Int
  <2>1. srcs[i] \in SourceType
    BY <1>1
  <2>2. srcs[i].capacity \in Int /\ srcs[i].cost \in Int
    BY <2>1 DEF SourceType
  <2>. QED BY <2>2
<1>. USE DEF Before, Carried, f
<1>4. ASSUME NEW i \in ready
      PROVE  Before(i) \in Int
  <2>. DEFINE S == {k \in ready : Cheaper(srcs, k, i)}
              g == [j \in S |-> 10000 * srcs[j].capacity]
  <2>1. S \in SUBSET ready
    OBVIOUS
  <2>2. IsFiniteSet(S)
    BY <1>1, <2>1, FS_Subset
  <2>3. g \in [S -> Int]
    BY <1>2, <2>1
  <2>. HIDE DEF g, S
  <2>4. SumFunction(g) \in Int
    BY <2>2, <2>3, SumLemma
  <2>. QED BY <2>4 DEF g, S
<1>. HIDE DEF Before
<1>5. ASSUME NEW i \in ready
      PROVE  (Carried(i) * srcs[i].cost) \div 10000 \in Int
  <2>1. load - Before(i) \in Int /\ 0 \in Int /\ 10000 * srcs[i].capacity \in Int
    BY <1>2, <1>4
  <2>2. AtLeast(load - Before(i), 0) \in Int
    BY <2>1, LargerLemma
  <2>. DEFINE rest == AtLeast(load - Before(i), 0)
              most == 10000 * srcs[i].capacity
  <2>3. Carried(i) \in Int
    <3>1. rest \in Int /\ most \in Int
      BY <2>1, <2>2
    <3>2. Carried(i) = AtMost(rest, most)
      OBVIOUS
    <3>. HIDE DEF rest, most, Carried
    <3>. QED BY <3>1, <3>2, LargerLemma
  <2>. HIDE DEF Carried
  <2>4. Carried(i) * srcs[i].cost \in Int
    BY <1>2, <2>3
  <2>. QED BY <2>4, DivisionLemma
<1>. HIDE DEF Carried
<1>6. f \in [ready -> Int]
  BY <1>5
<1>. HIDE DEF f
<1>. QED BY <1>1, <1>3, <1>6, SumLemma

LEMMA EnergizesLemma ==
  ASSUME NEW phases \in Seq(PhaseType), Len(phases) > 0
  PROVE  /\ FirstEnergize(phases) \in Energizes(phases)
         /\ FirstEnergize(phases) \in Int /\ LastEnergize(phases) \in Int
         /\ \A k \in DOMAIN phases : FirstEnergize(phases) <= phases[k].energize
<1>. DEFINE S == Energizes(phases)
            f == [k \in DOMAIN phases |-> phases[k].energize]
<1>1. /\ Len(phases) \in Nat /\ DOMAIN phases = 1 .. Len(phases) /\ IsFiniteSet(DOMAIN phases)
      /\ \A k \in DOMAIN phases : phases[k] \in PhaseType
  BY PositionsLemma
<1>2. S \subseteq Int
  BY <1>1 DEF Energizes, PhaseType
<1>3. 1 \in DOMAIN phases
  BY <1>1
<1>4. S # {}
  BY <1>3 DEF Energizes
<1>5. S = {f[k] : k \in DOMAIN phases} /\ DOMAIN f = DOMAIN phases
  BY DEF Energizes
<1>. HIDE DEF f
<1>6. IsFiniteSet(S)
  BY <1>1, <1>5, ImageLemma
<1>7. IsFiniteSet(S \cup {0}) /\ S \cup {0} \subseteq Int /\ S \cup {0} # {}
  BY <1>2, <1>6, FS_AddElement
<1>8. \A k \in DOMAIN phases : phases[k].energize \in S
  BY DEF Energizes
<1>. HIDE DEF S
<1>9. Min(S) \in S /\ \A x \in S : Min(S) <= x
  BY <1>2, <1>4, <1>6, ExtremeLemma
<1>10. Max(S \cup {0}) \in S \cup {0}
  BY <1>7, ExtremeLemma
<1>. QED BY <1>2, <1>7, <1>8, <1>9, <1>10 DEF FirstEnergize, LastEnergize, S

LEMMA LastLemma ==
  ASSUME NEW phases \in Seq(PhaseType), Len(phases) > 0
  PROVE  LastEnergize(phases) >= 0 /\ \A k \in DOMAIN phases : phases[k].energize <= LastEnergize(phases)
<1>. DEFINE S == Energizes(phases) \cup {0}
            f == [k \in DOMAIN phases |-> phases[k].energize]
<1>1. IsFiniteSet(DOMAIN phases) /\ \A k \in DOMAIN phases : phases[k] \in PhaseType
  BY PositionsLemma
<1>2. Energizes(phases) = {f[k] : k \in DOMAIN phases} /\ DOMAIN f = DOMAIN phases
  BY DEF Energizes
<1>. HIDE DEF f
<1>3. IsFiniteSet(Energizes(phases))
  BY <1>1, <1>2, ImageLemma
<1>4. IsFiniteSet(S) /\ S \subseteq Int /\ 0 \in S /\ \A k \in DOMAIN phases : phases[k].energize \in S
  <2>1. \A k \in DOMAIN phases : phases[k].energize \in Int
    BY <1>1 DEF PhaseType
  <2>2. IsFiniteSet(S)
    BY <1>3, FS_AddElement
  <2>. QED BY <2>1, <2>2 DEF Energizes
<1>. HIDE DEF S
<1>5. \A x \in S : Max(S) >= x
  BY <1>4, ExtremeLemma
<1>6. Max(S) \in Int
  BY <1>4, ExtremeLemma
<1>. QED BY <1>4, <1>5, <1>6 DEF LastEnergize, S

LEMMA OpexTyped ==
  ASSUME NEW plan, NEW phases, NEW srcs, Built(plan, phases, srcs),
         NEW lines, lines \subseteq LineType, IsFiniteSet(lines), NEW t \in Int
  PROVE  Opex(plan, phases, lines, t) \in Int /\ Power(plan, phases, srcs, t) \in Int
<1>. DEFINE c        == plan.costs
            growth   == AnnualStep(c.growthPct, t - FirstEnergize(phases))
            due      == {l \in lines : IsFacility(l) /\ l.month <= t}
            facility == SumAmounts(due)
            staffing == (c.staffing * OnlineItKw(phases, t) * growth) \div 12
            upkeep   == (facility * (c.maintenancePct + c.insurancePct) * growth) \div 1200
            tax      == (c.tax * growth) \div 12
            load     == EnergyLoad(plan, OnlineItKw(phases, t))
<1>1. /\ plan \in SitePlan /\ phases \in Seq(PhaseType) /\ Len(phases) > 0
      /\ srcs \in Seq(SourceType)
  BY DEF Built, Sound
<1>2. /\ c.staffing \in Int /\ c.maintenancePct \in Int /\ c.insurancePct \in Int
      /\ c.mgmtPct \in Int /\ c.tax \in Int /\ c.growthPct \in Int
  BY <1>1, CostsTyped
<1>3. /\ Opex(plan, phases, lines, t) = staffing + upkeep + tax + MgmtFee(plan, phases, t)
      /\ Power(plan, phases, srcs, t) = EnergyCost(srcs, load, t) * growth
      /\ MgmtFee(plan, phases, t) = (Revenue(plan, phases, t) * c.mgmtPct) \div 100
  BY DEF Opex, Power, MgmtFee
<1>4. load \in Int
  <2>1. OnlineItKw(phases, t) \in Int
    BY <1>1, OnlineLemma
  <2>2. plan.compute.pue \in Int /\ plan.revenue.utilization \in Int
    BY <1>1 DEF SitePlan
  <2>3. OnlineItKw(phases, t) * plan.compute.pue \in Int
    BY <2>1, <2>2
  <2>4. CASE plan.revenue.mode = "COMPUTE_SALES"
    <3>1. OnlineItKw(phases, t) * plan.compute.pue * plan.revenue.utilization \in Int
      BY <2>2, <2>3
    <3>. QED BY <2>4, <3>1 DEF EnergyLoad
  <2>5. CASE plan.revenue.mode # "COMPUTE_SALES"
    <3>1. OnlineItKw(phases, t) * plan.compute.pue * 100 \in Int
      BY <2>3
    <3>. QED BY <2>5, <3>1 DEF EnergyLoad
  <2>. QED BY <2>4, <2>5
<1>. HIDE DEF load
<1>5. growth \in Int
  <2>1. FirstEnergize(phases) \in Int
    BY <1>1, EnergizesLemma
  <2>2. t - FirstEnergize(phases) \in Int
    BY <2>1
  <2>. QED BY <1>2, <2>2, StepTyped
<1>6. facility \in Int
  <2>1. due \in SUBSET lines
    OBVIOUS
  <2>2. IsFiniteSet(due) /\ due \subseteq LineType
    BY <2>1, FS_Subset
  <2>. HIDE DEF due
  <2>. QED BY <2>2, AmountsTyped
<1>. HIDE DEF growth, facility, c
<1>7. OnlineItKw(phases, t) \in Int
  BY <1>1, OnlineLemma
<1>8. staffing \in Int
  <2>1. c.staffing * OnlineItKw(phases, t) * growth \in Int
    BY <1>2, <1>5, <1>7
  <2>. QED BY <2>1, DivisionLemma
<1>9. upkeep \in Int
  <2>1. facility * (c.maintenancePct + c.insurancePct) \in Int
    BY <1>2, <1>6
  <2>2. facility * (c.maintenancePct + c.insurancePct) * growth \in Int
    BY <1>5, <2>1
  <2>. QED BY <2>2, DivisionLemma
<1>10. tax \in Int
  <2>1. c.tax * growth \in Int
    BY <1>2, <1>5
  <2>. QED BY <2>1, DivisionLemma
<1>11. MgmtFee(plan, phases, t) \in Int
  <2>1. Revenue(plan, phases, t) \in Int
    BY <1>1, RevenueTyped
  <2>2. Revenue(plan, phases, t) * c.mgmtPct \in Int
    BY <1>2, <2>1
  <2>3. (Revenue(plan, phases, t) * c.mgmtPct) \div 100 \in Int
    BY <2>2, DivisionLemma
  <2>. QED BY <1>3, <2>3
<1>12. EnergyCost(srcs, load, t) \in Int
  BY <1>1, <1>4, EnergyTyped
<1>. HIDE DEF staffing, upkeep, tax
<1>13. EnergyCost(srcs, load, t) * growth \in Int
  BY <1>5, <1>12
<1>. QED BY <1>3, <1>8, <1>9, <1>10, <1>11, <1>13

-----------------------------------------------------------------------------
(* The exit value and the summary *)

SummaryType ==
  [totalCapex : Int, npv : Int, lcoc : Int, timeToEnergize : Int, kwOnlineFinal : Int,
   demand : Int, captured : Int, stranded : Int, shortfall : Int]

LEMMA ResidualPctTyped ==
  ASSUME NEW plan, Sound(plan), NEW years \in Int
  PROVE  GpuResidualPct(plan.costs, years) \in Int
<1>. DEFINE table == plan.costs.residual
            life  == plan.costs.depreciationYears
<1>1. table \in Seq(Int) /\ life \in Int
  BY CostsTyped DEF Sound
<1>2. life > 0
  BY SoundRanges DEF InRange, GpuInRange
<1>3. CASE years <= 0
  BY <1>3 DEF GpuResidualPct
<1>4. CASE years > 0 /\ table # << >>
  <2>1. Len(table) \in Nat /\ Len(table) > 0 /\ \A i \in 1 .. Len(table) : table[i] \in Int
    BY <1>1, <1>4, PositionsLemma, EmptySeq
  <2>2. Len(table) \in Int
    BY <2>1
  <2>. DEFINE at == AtMost(years, Len(table))
  <2>3. at = IF years <= Len(table) THEN years ELSE Len(table)
    BY <2>2, LargerLemma
  <2>4. GpuResidualPct(plan.costs, years) = table[at]
    BY <1>4 DEF GpuResidualPct
  <2>. HIDE DEF at, table
  <2>5. at \in 1 .. Len(table)
    BY <1>4, <2>1, <2>3
  <2>. QED BY <2>1, <2>4, <2>5
<1>5. CASE years > 0 /\ table = << >>
  <2>1. GpuResidualPct(plan.costs, years) = AtLeast(0, 100 - (100 * years) \div life)
    BY <1>5 DEF GpuResidualPct
  <2>. HIDE DEF life
  <2>2. 100 * years \in Int
    OBVIOUS
  <2>3. (100 * years) \div life \in Int
    BY <1>1, <1>2, <2>2, DivisionLemma
  <2>4. 100 - (100 * years) \div life \in Int
    BY <2>3
  <2>. QED BY <2>1, <2>4, LargerLemma
<1>. QED BY <1>3, <1>4, <1>5

LEMMA ResidualTyped ==
  ASSUME NEW plan, Sound(plan), NEW lines, lines \subseteq LineType, IsFiniteSet(lines)
  PROVE  AssetResidual(plan, lines) \in Int
<1>. DEFINE S == {line \in lines : line.month < plan.hold}
            Worth(l) ==
              CASE l.component = "gpu"  ->
                     (l.amount * GpuResidualPct(plan.costs, (plan.hold - l.month) \div 12))
                       \div 100
                [] l.component = "land" -> l.amount
                [] OTHER -> (l.amount * AtLeast(0, ShellLifeMonths - (plan.hold - l.month)))
                              \div ShellLifeMonths
            f == [l \in S |-> Worth(l)]
<1>1. AssetResidual(plan, lines) = SumFunction(f)
  BY DEF AssetResidual
<1>2. S \in SUBSET lines
  OBVIOUS
<1>3. IsFiniteSet(S) /\ S \subseteq LineType
  BY <1>2, FS_Subset
<1>4. plan.hold \in Int
  BY DEF Sound, SitePlan
<1>. HIDE DEF S
<1>5. ASSUME NEW l \in S
      PROVE  Worth(l) \in Int
  <2>1. l.month \in Int /\ l.amount \in Int
    BY <1>3 DEF LineType
  <2>2. plan.hold - l.month \in Int
    BY <1>4, <2>1
  <2>3. CASE l.component = "gpu"
    <3>1. (plan.hold - l.month) \div 12 \in Int
      BY <2>2, DivisionLemma
    <3>. DEFINE pct == GpuResidualPct(plan.costs, (plan.hold - l.month) \div 12)
    <3>2. pct \in Int
      BY <3>1, ResidualPctTyped
    <3>3. Worth(l) = (l.amount * pct) \div 100
      BY <2>3
    <3>. HIDE DEF pct, Worth
    <3>4. l.amount * pct \in Int
      BY <2>1, <3>2
    <3>. QED BY <3>3, <3>4, DivisionLemma
  <2>4. CASE l.component = "land"
    <3>1. Worth(l) = l.amount
      BY <2>4
    <3>. QED BY <2>1, <3>1
  <2>5. CASE l.component # "gpu" /\ l.component # "land"
    <3>. DEFINE age == ShellLifeMonths - (plan.hold - l.month)
                left == AtLeast(0, age)
    <3>1. Worth(l) = (l.amount * left) \div ShellLifeMonths
      BY <2>5
    <3>2. age \in Int
      BY <2>2 DEF ShellLifeMonths
    <3>. HIDE DEF Worth, age
    <3>3. left \in Int
      BY <3>2, LargerLemma
    <3>. HIDE DEF left
    <3>4. l.amount * left \in Int /\ ShellLifeMonths \in Int /\ ShellLifeMonths > 0
      BY <2>1, <3>3 DEF ShellLifeMonths
    <3>. QED BY <3>1, <3>4, DivisionLemma
  <2>. QED BY <2>3, <2>4, <2>5
<1>. HIDE DEF Worth
<1>6. f \in [S -> Int]
  BY <1>5
<1>. HIDE DEF f
<1>. QED BY <1>1, <1>3, <1>6, SumLemma

LEMMA ExitTyped ==
  ASSUME NEW plan, NEW phases, NEW srcs, Built(plan, phases, srcs),
         NEW lines, lines \subseteq LineType, IsFiniteSet(lines),
         NEW net \in [0 .. plan.hold - 1 -> Int]
  PROVE  ExitValue(plan, phases, lines, net) \in Int
<1>1. Sound(plan) /\ plan.hold \in Int /\ plan.exitCapPct \in Int
      /\ phases \in Seq(PhaseType) /\ Len(phases) > 0 /\ plan.hold >= 1
  BY HoldLemma DEF Built
<1>2. CASE plan.revenue.mode # "COLO_LEASE" \/ plan.exitCapPct <= 0
  <2>1. ExitValue(plan, phases, lines, net) = AssetResidual(plan, lines)
    BY <1>2 DEF ExitValue
  <2>. QED BY <1>1, <2>1, ResidualTyped
<1>3. CASE ~(plan.revenue.mode # "COLO_LEASE" \/ plan.exitCapPct <= 0)
  <2>. DEFINE start == AtLeast(LastEnergize(phases), plan.hold - 12)
              noi   == ExitNoi(plan, phases, net)
              f     == [t \in start .. plan.hold - 1 |-> net[t]]
  <2>1. ExitValue(plan, phases, lines, net) = AtLeast(0, (100 * noi) \div plan.exitCapPct)
    BY <1>3 DEF ExitValue
  <2>2. LastEnergize(phases) \in Int /\ LastEnergize(phases) >= 0
    <3>1. LastEnergize(phases) \in Int
      BY <1>1, EnergizesLemma
    <3>2. LastEnergize(phases) >= 0
      BY <1>1, LastLemma
    <3>. QED BY <3>1, <3>2
  <2>3. plan.hold - 12 \in Int
    BY <1>1
  <2>4. start \in Int /\ start >= 0
    <3>1. start \in Int /\ start >= LastEnergize(phases)
      BY <2>2, <2>3, LargerLemma
    <3>. QED BY <2>2, <3>1
  <2>5. noi = IF start >= plan.hold THEN 0 ELSE (12 * SumFunction(f)) \div (plan.hold - start)
    BY DEF ExitNoi
  <2>. HIDE DEF start, noi
  <2>6. noi \in Int
    <3>1. CASE start >= plan.hold
      BY <2>5, <3>1
    <3>2. CASE ~(start >= plan.hold)
      <4>1. start .. plan.hold - 1 \subseteq 0 .. plan.hold - 1
        BY <1>1, <2>4
      <4>2. IsFiniteSet(start .. plan.hold - 1)
        <5>1. plan.hold - 1 \in Int
          BY <1>1
        <5>. QED BY <2>4, <5>1, FS_Interval
      <4>3a. \A t \in start .. plan.hold - 1 : net[t] \in Int
        BY <4>1
      <4>2a. f \in [start .. plan.hold - 1 -> Int]
        BY <4>3a
      <4>. HIDE DEF f
      <4>3. SumFunction(f) \in Int
        BY <4>2, <4>2a, SumLemma
      <4>4. 12 * SumFunction(f) \in Int /\ plan.hold - start \in Int /\ plan.hold - start > 0
        BY <1>1, <2>4, <3>2, <4>3
      <4>5. (12 * SumFunction(f)) \div (plan.hold - start) \in Int
        BY <4>4, DivisionLemma
      <4>. QED BY <2>5, <3>2, <4>5
    <3>. QED BY <3>1, <3>2
  <2>7. 100 * noi \in Int /\ plan.exitCapPct > 0
    BY <1>1, <1>3, <2>6
  <2>8. (100 * noi) \div plan.exitCapPct \in Int
    BY <1>1, <2>7, DivisionLemma
  <2>. QED BY <2>1, <2>8, LargerLemma
<1>. QED BY <1>2, <1>3

LEMMA LcocTyped ==
  ASSUME NEW cost \in Int, NEW delivered \in Int
  PROVE  Lcoc(cost, delivered) \in Int
<1>1. CASE delivered <= 0
  BY <1>1 DEF Lcoc
<1>2. CASE ~(delivered <= 0)
  <2>1. 100 * cost \in Int /\ delivered > 0
    BY <1>2
  <2>2. (100 * cost) \div delivered \in Int
    BY <2>1, DivisionLemma
  <2>. QED BY <1>2, <2>2 DEF Lcoc
<1>. QED BY <1>1, <1>2

\* The months of the hold, and sums over them.
LEMMA GridLemma ==
  ASSUME NEW plan, Sound(plan)
  PROVE  /\ plan.hold \in Int /\ plan.hold >= 1
         /\ IsFiniteSet(0 .. plan.hold - 1)
         /\ 0 .. plan.hold - 1 \subseteq Nat
         /\ \A f \in [0 .. plan.hold - 1 -> Int] : SumFunction(f) \in Int
<1>1. plan.hold \in Int /\ plan.hold >= 1
  BY HoldLemma
<1>2. IsFiniteSet(0 .. plan.hold - 1)
  BY <1>1, FS_Interval
<1>3. \A f \in [0 .. plan.hold - 1 -> Int] : SumFunction(f) \in Int
  BY <1>2, SumLemma
<1>. QED BY <1>1, <1>2, <1>3

LEMMA ComputeCaptureTyped ==
  ASSUME NEW plan, NEW phases, NEW srcs, Built(plan, phases, srcs)
  PROVE  LET capture == ComputeCapture(plan.demand, phases, plan.hold)
         IN  /\ capture \in CaptureType
             /\ (\A t \in 0 .. plan.hold - 1 : OnlineItKw(phases, t) >= 0) =>
                  capture.captured \in Nat /\ capture.captured <= capture.demand
<1>. DEFINE grid   == 0 .. plan.hold - 1
            demand == [t \in grid |-> DemandAt(plan.demand, t)]
            online == [t \in grid |-> OnlineItKw(phases, t)]
<1>1. /\ Sound(plan) /\ phases \in Seq(PhaseType) /\ plan.demand \in Seq(PointType)
      /\ DemandInRange(plan.demand)
  BY SoundRanges, PlanTyped DEF Built, Sound, InRange, PointType
<1>2. IsFiniteSet(grid) /\ grid \subseteq Int
  BY <1>1, GridLemma
<1>3. \A t \in grid : DemandAt(plan.demand, t) \in Nat /\ OnlineItKw(phases, t) \in Int
  BY <1>1, <1>2, DemandTyped, OnlineLemma
<1>4. demand \in [grid -> Nat] /\ online \in [grid -> Int]
  BY <1>3
<1>5. \A t \in grid : online[t] = OnlineItKw(phases, t)
  OBVIOUS
<1>6. ComputeCapture(plan.demand, phases, plan.hold) = Capture(demand, online)
  BY DEF ComputeCapture
<1>. HIDE DEF demand, online
<1>7. /\ Capture(demand, online) \in CaptureType
      /\ (\A t \in grid : online[t] >= 0) =>
           /\ Capture(demand, online).captured \in Nat
           /\ Capture(demand, online).captured <= Capture(demand, online).demand
  BY <1>2, <1>4, CaptureTyped
<1>. QED BY <1>5, <1>6, <1>7

LEMMA LedgerTyped ==
  ASSUME NEW plan, NEW phases, NEW srcs, Built(plan, phases, srcs),
         NEW lines, lines \subseteq LineType, IsFiniteSet(lines)
  PROVE  LET m == Ledger(plan, srcs, phases, lines)
             capture == ComputeCapture(plan.demand, phases, plan.hold)
         IN  /\ m.srcs = srcs /\ m.phases = phases /\ m.lines = lines
             /\ m.revenue = [t \in 0 .. plan.hold - 1 |-> Revenue(plan, phases, t)]
             /\ m.summary \in SummaryType
             /\ m.summary.totalCapex = SumAmounts(lines)
             /\ m.summary.timeToEnergize = FirstEnergize(phases)
             /\ m.summary.demand = capture.demand
             /\ m.summary.captured = capture.captured
<1>. DEFINE grid      == 0 .. plan.hold - 1
            revenue   == [t \in grid |-> Revenue(plan, phases, t)]
            Costs(t)  == Opex(plan, phases, lines, t) + Power(plan, phases, srcs, t)
            net       == [t \in grid |-> revenue[t] - Costs(t)]
            npv       == Npv(plan, phases, lines, net)
            capture   == ComputeCapture(plan.demand, phases, plan.hold)
            delivered == [t \in grid |-> Delivered(plan, phases, t)]
            paid      == {l \in lines : l.month < plan.hold}
            summary   == SummaryOf(plan, phases, lines, revenue, npv, capture)
<1>1. /\ Sound(plan) /\ plan \in SitePlan /\ phases \in Seq(PhaseType) /\ Len(phases) > 0
      /\ srcs \in Seq(SourceType)
  BY DEF Built, Sound
<1>2. /\ IsFiniteSet(grid) /\ grid \subseteq Int /\ plan.hold \in Int
      /\ \A f \in [grid -> Int] : SumFunction(f) \in Int
  BY <1>1, GridLemma
<1>3. \A t \in grid : Revenue(plan, phases, t) \in Int
  BY <1>1, <1>2, RevenueTyped
<1>4. revenue \in [grid -> Int]
  BY <1>3
<1>5. Ledger(plan, srcs, phases, lines)
        = [srcs |-> srcs, phases |-> phases, lines |-> lines, revenue |-> revenue,
           summary |-> summary]
  BY DEF Ledger
<1>6. \A t \in grid : Costs(t) \in Int
  <2>. SUFFICES ASSUME NEW t \in grid PROVE Costs(t) \in Int
    OBVIOUS
  <2>1. Opex(plan, phases, lines, t) \in Int /\ Power(plan, phases, srcs, t) \in Int
    BY <1>2, OpexTyped
  <2>. QED BY <2>1
<1>. HIDE DEF Costs
<1>7. net \in [grid -> Int]
  BY <1>3, <1>6
<1>8. \A t \in grid : Delivered(plan, phases, t) \in Int
  BY <1>1, DeliveredTyped
<1>9. delivered \in [grid -> Int]
  BY <1>8
<1>10. capture \in CaptureType
  BY ComputeCaptureTyped
<1>11. DOMAIN revenue = grid
  OBVIOUS
<1>12. summary =
         [totalCapex     |-> SumAmounts(lines),
          npv            |-> npv,
          lcoc           |-> Lcoc(SumFunction(revenue) - npv, SumFunction(delivered)),
          timeToEnergize |-> FirstEnergize(phases),
          kwOnlineFinal  |-> OnlineItKw(phases, plan.hold - 1),
          demand         |-> capture.demand,
          captured       |-> capture.captured,
          stranded       |-> capture.stranded,
          shortfall      |-> capture.shortfall]
  BY <1>11 DEF SummaryOf
<1>. HIDE DEF revenue, net, delivered, capture
<1>13. SumFunction(revenue) \in Int /\ SumFunction(net) \in Int /\ SumFunction(delivered) \in Int
  BY <1>2, <1>4, <1>7, <1>9
<1>14. SumAmounts(lines) \in Int
  BY AmountsTyped
<1>15. npv \in Int
  <2>1. paid \in SUBSET lines
    OBVIOUS
  <2>2. IsFiniteSet(paid) /\ paid \subseteq LineType
    BY <2>1, FS_Subset
  <2>3. npv = SumFunction(net) + ExitValue(plan, phases, lines, net) - SumAmounts(paid)
    BY DEF Npv
  <2>. HIDE DEF paid, npv
  <2>4. SumAmounts(paid) \in Int
    BY <2>2, AmountsTyped
  <2>5. ExitValue(plan, phases, lines, net) \in Int
    BY <1>7, ExitTyped
  <2>. QED BY <1>13, <2>3, <2>4, <2>5
<1>. HIDE DEF npv
<1>16. Lcoc(SumFunction(revenue) - npv, SumFunction(delivered)) \in Int
  <2>1. SumFunction(revenue) - npv \in Int
    BY <1>13, <1>15
  <2>. QED BY <1>13, <2>1, LcocTyped
<1>17. FirstEnergize(phases) \in Int /\ OnlineItKw(phases, plan.hold - 1) \in Int
  BY <1>1, EnergizesLemma, OnlineLemma
<1>18. capture.demand \in Int /\ capture.captured \in Int /\ capture.stranded \in Int
       /\ capture.shortfall \in Int
  BY <1>10 DEF CaptureType
<1>19. summary \in SummaryType
  BY <1>12, <1>14, <1>15, <1>16, <1>17, <1>18 DEF SummaryType
<1>. HIDE DEF summary
<1>20. /\ summary.totalCapex = SumAmounts(lines)
       /\ summary.timeToEnergize = FirstEnergize(phases)
       /\ summary.demand = capture.demand
       /\ summary.captured = capture.captured
  BY <1>12
<1>. QED BY <1>5, <1>19, <1>20 DEF revenue, capture

-----------------------------------------------------------------------------
(* Sums over parts *)

\* Two functions that differ in one place, and there by d.
LEMMA SumBump ==
  ASSUME NEW S, IsFiniteSet(S), NEW f \in [S -> Int], NEW g \in [S -> Int], NEW c \in S,
         NEW d \in Int, g[c] = f[c] + d, \A x \in S \ {c} : g[x] = f[x]
  PROVE  SumFunction(g) = SumFunction(f) + d
<1>1. SumFunction(f) = f[c] + SumFunction(Restrict(f, S \ {c}))
  BY SumLemma
<1>2. SumFunction(g) = g[c] + SumFunction(Restrict(g, S \ {c}))
  BY SumLemma
<1>3. Restrict(f, S \ {c}) = Restrict(g, S \ {c})
  BY DEF Restrict
<1>4. Restrict(f, S \ {c}) \in [S \ {c} -> Int] /\ IsFiniteSet(S \ {c})
  BY FS_Subset DEF Restrict
<1>5. SumFunction(Restrict(f, S \ {c})) \in Int
  BY <1>4, SumLemma
<1>6. f[c] \in Int
  OBVIOUS
<1>. QED BY <1>1, <1>2, <1>3, <1>5, <1>6

\* Zeros add up to nothing.
LEMMA SumZeros ==
  ASSUME NEW S, IsFiniteSet(S), NEW f \in [S -> Int], \A x \in S : f[x] = 0
  PROVE  SumFunction(f) = 0
<1>1. \A x \in S : f[x] = f[x] * 0
  OBVIOUS
<1>2. SumFunction(f) \in Int
  BY SumLemma
<1>3. SumFunction(f) = SumFunction(f) * 0
  BY <1>1, SumScaled
<1>. QED BY <1>2, <1>3

\* A part of what is never negative is no more than the whole.
LEMMA SumPart ==
  ASSUME NEW S, IsFiniteSet(S), NEW f \in [S -> Int], \A x \in S : f[x] >= 0, NEW T \in SUBSET S
  PROVE  SumFunction(Restrict(f, T)) <= SumFunction(f)
<1>. DEFINE Q == {U \in SUBSET S :
                    SumFunction(Restrict(f, U \cap T)) <= SumFunction(Restrict(f, U))}
<1>1. {} \in Q
  <2>1. {} \cap T = {}
    OBVIOUS
  <2>. QED BY <2>1, SumNothing
<1>2. ASSUME NEW U \in SUBSET S, U \in Q, NEW x \in S \ U
      PROVE  U \cup {x} \in Q
  <2>. DEFINE A == SumFunction(Restrict(f, U))
              B == SumFunction(Restrict(f, U \cap T))
  <2>1. A \in Int /\ SumFunction(Restrict(f, U \cup {x})) = f[x] + A
    BY SumGrow
  <2>2. U \cap T \in SUBSET S /\ x \in S \ (U \cap T)
    OBVIOUS
  <2>3. B \in Int /\ SumFunction(Restrict(f, (U \cap T) \cup {x})) = f[x] + B
    BY <2>2, SumGrow
  <2>4. B <= A /\ f[x] \in Int /\ f[x] >= 0
    BY <1>2
  <2>. HIDE DEF A, B
  <2>5. CASE x \in T
    <3>1. (U \cup {x}) \cap T = (U \cap T) \cup {x}
      BY <2>5
    <3>2. f[x] + B <= f[x] + A
      BY <2>1, <2>3, <2>4
    <3>. QED BY <2>1, <2>3, <3>1, <3>2
  <2>6. CASE x \notin T
    <3>1. (U \cup {x}) \cap T = U \cap T
      BY <2>6
    <3>2. B <= f[x] + A
      BY <2>1, <2>3, <2>4
    <3>. QED BY <2>1, <3>1, <3>2 DEF B
  <2>. QED BY <2>5, <2>6
<1>. HIDE DEF Q
<1>3. S \in Q
  BY <1>1, <1>2, FiniteInduction
<1>4. SumFunction(Restrict(f, S \cap T)) <= SumFunction(Restrict(f, S))
  BY <1>3 DEF Q
<1>5. Restrict(f, S) = f /\ S \cap T = T
  BY RestrictAll
<1>. QED BY <1>4, <1>5

\* A sum taken class by class is the whole sum.
LEMMA SumByClass ==
  ASSUME NEW S, IsFiniteSet(S), NEW f \in [S -> Int], NEW K, IsFiniteSet(K), NEW key \in [S -> K]
  PROVE  SumFunction([c \in K |-> SumFunction(Restrict(f, {x \in S : key[x] = c}))])
           = SumFunction(f)
<1>. DEFINE Class(T, c) == {x \in T : key[x] = c}
            Of(T) == [c \in K |-> SumFunction(Restrict(f, Class(T, c)))]
            Q == {T \in SUBSET S : SumFunction(Of(T)) = SumFunction(Restrict(f, T))}
<1>1. ASSUME NEW T \in SUBSET S
      PROVE  Of(T) \in [K -> Int]
  <2>. SUFFICES ASSUME NEW c \in K PROVE SumFunction(Restrict(f, Class(T, c))) \in Int
    OBVIOUS
  <2>1. Class(T, c) \in SUBSET S
    OBVIOUS
  <2>. HIDE DEF Class
  <2>2. Restrict(f, Class(T, c)) \in [Class(T, c) -> Int] /\ IsFiniteSet(Class(T, c))
    BY <2>1, FS_Subset DEF Restrict
  <2>. QED BY <2>2, SumLemma
<1>2. {} \in Q
  <2>1. \A c \in K : Class({}, c) = {}
    OBVIOUS
  <2>2. \A c \in K : Of({})[c] = 0
    BY <2>1, SumNothing
  <2>3. Of({}) \in [K -> Int]
    BY <1>1
  <2>. HIDE DEF Of
  <2>4. SumFunction(Of({})) = 0
    BY <2>2, <2>3, SumZeros
  <2>. QED BY <2>4, SumNothing
<1>3. ASSUME NEW T \in SUBSET S, T \in Q, NEW x \in S \ T
      PROVE  T \cup {x} \in Q
  <2>. DEFINE U == T \cup {x}
              c == key[x]
  <2>1. c \in K /\ f[x] \in Int
    OBVIOUS
  <2>2. Class(U, c) = Class(T, c) \cup {x} /\ Class(T, c) \in SUBSET S /\ x \in S \ Class(T, c)
    OBVIOUS
  <2>3. \A e \in K \ {c} : Class(U, e) = Class(T, e)
    OBVIOUS
  <2>4. /\ Of(U) \in [K -> Int] /\ Of(T) \in [K -> Int]
        /\ \A e \in K : Of(U)[e] = SumFunction(Restrict(f, Class(U, e)))
        /\ \A e \in K : Of(T)[e] = SumFunction(Restrict(f, Class(T, e)))
    BY <1>1
  <2>. HIDE DEF Of, Class
  <2>5. SumFunction(Restrict(f, Class(T, c) \cup {x}))
          = f[x] + SumFunction(Restrict(f, Class(T, c)))
    BY <2>2, SumGrow
  <2>6. Of(U)[c] = f[x] + Of(T)[c]
    BY <2>1, <2>2, <2>4, <2>5
  <2>7. Of(U)[c] = Of(T)[c] + f[x]
    BY <2>1, <2>4, <2>6
  <2>8. \A e \in K \ {c} : Of(U)[e] = Of(T)[e]
    BY <2>3, <2>4
  <2>9. SumFunction(Of(U)) = SumFunction(Of(T)) + f[x]
    <3>. DEFINE g == Of(T)
                h == Of(U)
                d == f[x]
    <3>1. g \in [K -> Int] /\ h \in [K -> Int]
      BY <2>4
    <3>2. c \in K /\ d \in Int /\ h[c] = g[c] + d
      BY <2>1, <2>7
    <3>3. \A e \in K \ {c} : h[e] = g[e]
      BY <2>8
    <3>. HIDE DEF c, g, h, d
    <3>4. SumFunction(h) = SumFunction(g) + d
      BY <3>1, <3>2, <3>3, SumBump
    <3>. QED BY <3>4 DEF g, h, d
  <2>10. /\ SumFunction(Restrict(f, T)) \in Int
         /\ SumFunction(Restrict(f, U)) = f[x] + SumFunction(Restrict(f, T))
    BY SumGrow
  <2>11. SumFunction(Of(T)) = SumFunction(Restrict(f, T))
    BY <1>3
  <2>. QED BY <2>1, <2>9, <2>10, <2>11
<1>. HIDE DEF Q
<1>4. S \in Q
  BY <1>2, <1>3, FiniteInduction
<1>5. SumFunction(Of(S)) = SumFunction(Restrict(f, S)) /\ Restrict(f, S) = f
  BY <1>4, RestrictAll DEF Q
<1>. QED BY <1>5

-----------------------------------------------------------------------------
(***************************************************************************)
(* The checks of the ledger: what the validation promises is what the      *)
(* schedule keeps.                                                         *)
(***************************************************************************)
LEMMA BuiltLemma ==
  ASSUME NEW plan, Sound(plan)
  PROVE  Built(plan, Schedule(plan, NewSources(plan)), NewSources(plan))
<1>1. plan \in SitePlan /\ Schedulable(plan)
  BY SoundTimeline DEF Sound
<1>. QED BY <1>1, SourcesTyped, ScheduleTyped DEF Built

\* Whole racks carry exactly what is asked of them.
LEMMA WholeLemma ==
  ASSUME NEW kw \in Int, NEW d \in Int, d > 0, kw % d = 0
  PROVE  ((kw + d - 1) \div d) * d = kw
<1>. DEFINE q == kw \div d
            a == kw + d - 1
            r == a \div d
<1>1. q \in Int /\ d * q = kw
  OBVIOUS
<1>. HIDE DEF q
<1>2. a \in Int /\ d * q <= a /\ a < d * q + d
  BY <1>1
<1>. HIDE DEF a
<1>3. r \in Int /\ d * r <= a /\ a < d * r + d
  BY <1>2, DivisionLemma
<1>4. q <= r
  BY <1>1, <1>2, QuotientLemma
<1>. HIDE DEF r
<1>5. r <= q
  <2>. SUFFICES ASSUME r >= q + 1 PROVE FALSE
    BY <1>1, <1>3
  <2>1. d * r >= d * (q + 1)
    BY <1>1, <1>3
  <2>2. d * (q + 1) = d * q + d
    BY <1>1
  <2>. QED BY <1>1, <1>2, <1>3, <2>1, <2>2
<1>6. r = q
  BY <1>1, <1>3, <1>4, <1>5
<1>7. r * d = kw
  BY <1>1, <1>3, <1>6
<1>. QED BY <1>7 DEF r, a

\* Every cooling a phase can have takes the heat of a rack.
LEMMA CoolingLemma ==
  ASSUME NEW plan, Sound(plan)
  PROVE  /\ plan.compute.kwPerRack <= CoolingCeilingKw(plan.compute.cooling)
         /\ plan.phasing.mode # "SINGLE_SHOT" =>
              \A k \in DOMAIN plan.phasing.phases :
                plan.compute.kwPerRack
                  <= CoolingCeilingKw(PhaseCooling(plan, plan.phasing.phases[k]))
<1>. DEFINE phases == plan.phasing.phases
            Dense(cooling) == plan.compute.kwPerRack > CoolingCeilingKw(cooling)
<1>1. plan.compute.kwPerRack \in Int
  BY PlanTyped DEF Sound
<1>2. \A cooling : CoolingCeilingKw(cooling) \in Int
  BY DEF CoolingCeilingKw
<1>3. ASSUME NEW cooling, ValidateDensity(plan, cooling) \subseteq Validate(plan)
      PROVE  plan.compute.kwPerRack <= CoolingCeilingKw(cooling)
  <2>1. When(Dense(cooling), Error("DENSITY_EXCEEDS_COOLING")) \subseteq Validate(plan)
    BY <1>3 DEF ValidateDensity
  <2>2. ~HasErrors(Validate(plan))
    BY DEF Sound
  <2>. HIDE DEF Dense
  <2>3. ~Dense(cooling)
    BY <2>1, <2>2, CheckedLemma
  <2>. QED BY <1>1, <1>2, <2>3 DEF Dense
<1>4. plan.compute.kwPerRack <= CoolingCeilingKw(plan.compute.cooling)
  BY <1>3, SoundStructure
<1>5. ASSUME plan.phasing.mode # "SINGLE_SHOT", NEW k \in DOMAIN phases
      PROVE  plan.compute.kwPerRack <= CoolingCeilingKw(PhaseCooling(plan, phases[k]))
  <2>1. CASE phases[k].cooling \in {"UNSET", plan.compute.cooling}
    <3>1. PhaseCooling(plan, phases[k]) = plan.compute.cooling
      BY <2>1 DEF PhaseCooling
    <3>. QED BY <1>4, <3>1
  <2>2. CASE phases[k].cooling \notin {"UNSET", plan.compute.cooling}
    <3>1. PhaseCooling(plan, phases[k]) = phases[k].cooling
      BY <2>2 DEF PhaseCooling
    <3>2. ValidateDensity(plan, phases[k].cooling) \subseteq ValidateExplicit(plan, NewSources(plan))
      BY <2>2 DEF ValidateExplicit
    <3>3. ValidateDensity(plan, phases[k].cooling) \subseteq Validate(plan)
      BY <1>5, <3>2, SoundStructure
    <3>. QED BY <1>3, <3>1, <3>3
  <2>. QED BY <2>1, <2>2
<1>. QED BY <1>4, <1>5

\* What the checks look at in one phase.
Fitting(plan, size) ==
  /\ size \in SizeType
  /\ size.racks \in Nat
  /\ size.itKw = size.racks * plan.compute.kwPerRack /\ size.itKw \in Nat
  /\ size.facility = size.itKw * plan.compute.pue
  /\ size.heatKw = size.itKw /\ size.heatKw <= size.coolingKw
  /\ size.whitespace <= size.gross

LEMMA FittingLemma ==
  ASSUME NEW plan, Sound(plan), NEW kw \in Int, kw > 0, NEW cooling,
         plan.compute.kwPerRack <= CoolingCeilingKw(cooling)
  PROVE  /\ Fitting(plan, SizePhase(kw, plan.compute, cooling))
         /\ kw % plan.compute.kwPerRack = 0 =>
              SizePhase(kw, plan.compute, cooling).itKw = kw
<1>. DEFINE c == plan.compute
            d == c.kwPerRack
            racks == (kw + d - 1) \div d
            size == SizePhase(kw, c, cooling)
            ceiling == CoolingCeilingKw(cooling)
<1>1. /\ plan \in SitePlan /\ c.kwPerRack \in Int /\ c.gpusPerRack \in Int /\ c.pue \in Int
      /\ c.kwPerRack > 0
  BY PlanTyped, SoundRanges DEF Sound, InRange, ComputeInRange
<1>2. ceiling \in Int /\ d <= ceiling
  BY DEF CoolingCeilingKw
<1>3. size \in SizeType
  BY <1>1, SizeTyped
<1>4. size = [itKw |-> racks * d, facility |-> racks * d * c.pue, racks |-> racks,
              gpus |-> racks * c.gpusPerRack, heatKw |-> racks * d,
              coolingKw |-> racks * ceiling, whitespace |-> racks * 40,
              gross |-> racks * 100, footprint |-> racks * 300]
  BY DEF SizePhase
<1>. HIDE DEF c, size, ceiling
<1>5. kw % d = 0 => racks * d = kw
  BY <1>1, WholeLemma DEF d
<1>. HIDE DEF d
<1>6. racks \in Nat
  <2>1. d \in Int /\ d > 0 /\ kw + d - 1 \in Int
    BY <1>1 DEF d
  <2>2. racks \in Int
    BY <2>1, DivisionLemma
  <2>3. d * 0 <= kw + d - 1
    BY <2>1
  <2>4. 0 <= racks
    BY <2>1, <2>3, QuotientLemma
  <2>. QED BY <2>2, <2>4
<1>. HIDE DEF racks
<1>7. racks * d \in Nat /\ racks * d <= racks * ceiling /\ racks * 40 <= racks * 100
  <2>1. d \in Nat /\ ceiling \in Nat
    BY <1>1, <1>2 DEF d
  <2>2. racks * d \in Nat /\ racks * 40 <= racks * 100
    BY <1>6, <2>1
  <2>3. racks * d <= racks * ceiling
    BY <1>2, <1>6, <2>1
  <2>. QED BY <2>2, <2>3
<1>8. racks * d * c.pue = (racks * d) * c.pue
  OBVIOUS
<1>9. Fitting(plan, size)
  BY <1>3, <1>4, <1>6, <1>7, <1>8 DEF Fitting, c, d
<1>. QED BY <1>4, <1>5, <1>9 DEF c, d, size

\* A phase as the caller asks for it.
LEMMA AskedTyped ==
  ASSUME NEW plan \in SitePlan
  PROVE  LET ins == plan.phasing.phases
         IN  /\ Len(ins) \in Nat /\ DOMAIN ins = 1 .. Len(ins) /\ IsFiniteSet(DOMAIN ins)
             /\ \A k \in DOMAIN ins :
                  /\ ins[k].kw \in Int /\ ins[k].start \in Int /\ ins[k].energize \in Int
                  /\ ins[k].source \in Nat /\ ins[k].footprint \in Int
<1>. DEFINE ins == plan.phasing.phases
            InType == [id : Nat, kw : Int, start : Int, energize : Int, source : Nat,
                       cooling : Cooling \cup {"UNSET"}, footprint : Int]
<1>1. ins \in Seq(InType)
  BY DEF SitePlan
<1>. HIDE DEF ins, InType
<1>2. /\ Len(ins) \in Nat /\ DOMAIN ins = 1 .. Len(ins) /\ IsFiniteSet(DOMAIN ins)
      /\ \A k \in DOMAIN ins : ins[k] \in InType
  BY <1>1, PositionsLemma
<1>. QED BY <1>2 DEF ins, InType

\* The one phase of SINGLE_SHOT.
LEMMA SingleShotLemma ==
  ASSUME NEW plan, Sound(plan), plan.phasing.mode = "SINGLE_SHOT"
  PROVE  LET phases == Schedule(plan, NewSources(plan))
             ph == phases[1]
         IN  /\ DOMAIN phases = {1}
             /\ ph.size = SizePhase(plan.compute.target, plan.compute, plan.compute.cooling)
             /\ ph.start = 0 /\ ph.constructionReady = ConstructionLeadMonths
             /\ ph.powerReady = FirstMonthCovering(NewSources(plan), ph.size.facility, plan.hold)
             /\ ph.energize = AtLeast(ph.powerReady, ph.constructionReady)
<1>. DEFINE srcs == NewSources(plan)
            phase == NewPhase(plan, 1, plan.compute.target, plan.compute.cooling)
            power == FirstMonthCovering(srcs, phase.size.facility, plan.hold)
            ph == Scheduled(phase, 0, ConstructionLeadMonths, power)
<1>1. Schedule(plan, srcs) = <<ph>>
  BY DEF Schedule, SingleShot
<1>2. phase.size = SizePhase(plan.compute.target, plan.compute, plan.compute.cooling)
  BY DEF NewPhase
<1>. HIDE DEF phase
<1>3. /\ ph.size = phase.size /\ ph.start = 0 /\ ph.constructionReady = ConstructionLeadMonths
      /\ ph.powerReady = power /\ ph.energize = AtLeast(power, ConstructionLeadMonths)
  BY DEF Scheduled
<1>. HIDE DEF ph
<1>4. Schedule(plan, srcs)[1] = ph /\ DOMAIN Schedule(plan, srcs) = {1}
  BY <1>1
<1>. QED BY <1>2, <1>3, <1>4

\* Phase k of the caller's timeline.
LEMMA ExplicitLemma ==
  ASSUME NEW plan, Sound(plan), plan.phasing.mode # "SINGLE_SHOT",
         NEW k \in DOMAIN plan.phasing.phases
  PROVE  LET phases == Schedule(plan, NewSources(plan))
             srcs == NewSources(plan)
             ins == plan.phasing.phases
             ph == phases[k]
             load == [j \in 1 .. k |-> phases[j].size.facility]
         IN  /\ ph.size = SizePhase(ins[k].kw, plan.compute, PhaseCooling(plan, ins[k]))
             /\ ph.start = ins[k].start /\ ph.constructionReady = ins[k].energize
             /\ ph.powerReady = IF ins[k].source # 0 THEN SourceNamed(srcs, ins[k].source).ready
                                ELSE FirstMonthCovering(srcs, SumFunction(load), plan.hold)
             /\ ph.energize = AtLeast(ph.powerReady, ph.constructionReady)
<1>. DEFINE srcs == NewSources(plan)
            ins == plan.phasing.phases
            n == Len(ins)
            sized == [i \in DOMAIN ins |-> NewPhase(plan, ins[i].id, ins[i].kw,
                                                    PhaseCooling(plan, ins[i]))]
            wanted(i) == [j \in 1 .. i |-> sized[j].size.facility]
            power(i) == IF ins[i].source # 0 THEN SourceNamed(srcs, ins[i].source).ready
                        ELSE FirstMonthCovering(srcs, SumFunction(wanted(i)), plan.hold)
            room(i) == IF ins[i].footprint > 0 THEN ins[i].footprint ELSE sized[i].footprint
            phase(i) == [sized[i] EXCEPT !.footprint = room(i)]
            made(i) == Scheduled(phase(i), ins[i].start, ins[i].energize, power(i))
            phases == Schedule(plan, srcs)
<1>1. ins \in Seq([id : Nat, kw : Int, start : Int, energize : Int, source : Nat,
                   cooling : Cooling \cup {"UNSET"}, footprint : Int])
  BY DEF Sound, SitePlan
<1>2. n \in Nat /\ DOMAIN ins = 1 .. n
  BY <1>1, PositionsLemma
<1>3. phases = [i \in 1 .. n |-> made(i)]
  BY <1>2 DEF Schedule, Explicit, Timeline
<1>4. ASSUME NEW i \in 1 .. n
      PROVE  /\ made(i).size = SizePhase(ins[i].kw, plan.compute, PhaseCooling(plan, ins[i]))
             /\ made(i).start = ins[i].start /\ made(i).constructionReady = ins[i].energize
             /\ made(i).powerReady = power(i)
             /\ made(i).energize = AtLeast(power(i), ins[i].energize)
             /\ sized[i].size = made(i).size
  <2>1. sized[i] = NewPhase(plan, ins[i].id, ins[i].kw, PhaseCooling(plan, ins[i]))
    BY <1>2
  <2>. HIDE DEF sized
  <2>2. /\ phase(i).size = SizePhase(ins[i].kw, plan.compute, PhaseCooling(plan, ins[i]))
        /\ sized[i].size = phase(i).size
    BY <2>1 DEF NewPhase
  <2>. HIDE DEF phase, power
  <2>3. /\ made(i).size = phase(i).size /\ made(i).start = ins[i].start
        /\ made(i).constructionReady = ins[i].energize /\ made(i).powerReady = power(i)
        /\ made(i).energize = AtLeast(power(i), ins[i].energize)
    BY DEF Scheduled
  <2>. HIDE DEF made
  <2>. QED BY <2>2, <2>3
<1>. HIDE DEF made, sized, phases
<1>5. \A i \in 1 .. n : phases[i] = made(i)
  BY <1>3
<1>6. k \in 1 .. n
  BY <1>2
<1>7. wanted(k) = [j \in 1 .. k |-> phases[j].size.facility]
  <2>1. \A j \in 1 .. k : j \in 1 .. n
    BY <1>2, <1>6
  <2>2. \A j \in 1 .. k : sized[j].size.facility = phases[j].size.facility
    BY <1>4, <1>5, <2>1
  <2>. QED BY <2>2
<1>8. power(k) = IF ins[k].source # 0 THEN SourceNamed(srcs, ins[k].source).ready
                 ELSE FirstMonthCovering(srcs,
                        SumFunction([j \in 1 .. k |-> phases[j].size.facility]), plan.hold)
  BY <1>7
<1>. HIDE DEF power
<1>. QED BY <1>4, <1>5, <1>6, <1>8 DEF phases

\* Every phase fits its cooling and energizes when it is built and powered.
LEMMA PhasesFit ==
  ASSUME NEW plan, Sound(plan), NEW k \in DOMAIN Schedule(plan, NewSources(plan))
  PROVE  LET ph == Schedule(plan, NewSources(plan))[k]
         IN  /\ Fitting(plan, ph.size)
             /\ ph.energize = AtLeast(ph.powerReady, ph.constructionReady)
<1>1. CASE plan.phasing.mode = "SINGLE_SHOT"
  <2>1. plan.compute.target \in Int /\ plan.compute.target > 0
    BY PlanTyped, SoundRanges DEF Sound, InRange, ComputeInRange
  <2>2. Fitting(plan, SizePhase(plan.compute.target, plan.compute, plan.compute.cooling))
    BY <2>1, CoolingLemma, FittingLemma
  <2>. QED BY <1>1, <2>2, SingleShotLemma
<1>2. CASE plan.phasing.mode # "SINGLE_SHOT"
  <2>. DEFINE ins == plan.phasing.phases
  <2>1. k \in DOMAIN ins
    BY <1>2, SoundTimeline, ScheduleTyped
  <2>2. ins[k].kw \in Int /\ ins[k].kw > 0
    <3>2. ins[k].kw \in Int
      BY <2>1, AskedTyped DEF Sound
    <3>3. ins[k].kw > 0
      BY <1>2, <2>1, SoundRanges DEF InRange, PhasesInRange
    <3>. QED BY <3>2, <3>3
  <2>3. plan.compute.kwPerRack <= CoolingCeilingKw(PhaseCooling(plan, ins[k]))
    BY <1>2, <2>1, CoolingLemma
  <2>4. Fitting(plan, SizePhase(ins[k].kw, plan.compute, PhaseCooling(plan, ins[k])))
    BY <2>2, <2>3, FittingLemma
  <2>. QED BY <1>2, <2>1, <2>4, ExplicitLemma
<1>. QED BY <1>1, <1>2

\* Supply is never taken away.
LEMMA SupplyMonotone ==
  ASSUME NEW plan, Sound(plan), NEW s \in Int, NEW t \in Int, s <= t
  PROVE  LET srcs == NewSources(plan)
         IN  /\ FirmSupplyAt(srcs, s) \in Int /\ FirmSupplyAt(srcs, t) \in Int
             /\ 0 <= FirmSupplyAt(srcs, s)
             /\ FirmSupplyAt(srcs, s) <= FirmSupplyAt(srcs, t)
<1>. DEFINE srcs == NewSources(plan)
            Ready(u) == {j \in DOMAIN srcs : srcs[j].firm /\ srcs[j].ready <= u}
            S == Ready(s)
            T == Ready(t)
            f == [i \in S |-> srcs[i].capacity]
            g == [i \in T |-> srcs[i].capacity]
<1>1. srcs \in Seq(SourceType) /\ DOMAIN srcs = DOMAIN plan.sources
  BY SourcesTyped DEF Sound
<1>2. /\ \A j \in DOMAIN srcs : srcs[j] \in SourceType
      /\ \A U \in SUBSET DOMAIN srcs : IsFiniteSet(U)
  BY <1>1, PositionsLemma
<1>3. \A j \in DOMAIN srcs : srcs[j].capacity = plan.sources[j].capacity
  BY <1>1 DEF NewSources
<1>4. \A j \in DOMAIN plan.sources : plan.sources[j].capacity > 0
  BY SoundRanges DEF InRange, SourcesInRange
<1>. HIDE DEF srcs
<1>5. \A j \in DOMAIN srcs : srcs[j].capacity \in Nat /\ srcs[j].ready \in Int
  <2>. SUFFICES ASSUME NEW j \in DOMAIN srcs
                PROVE  srcs[j].capacity \in Nat /\ srcs[j].ready \in Int
    OBVIOUS
  <2>1. srcs[j].capacity \in Int /\ srcs[j].ready \in Int
    BY <1>2 DEF SourceType
  <2>2. srcs[j].capacity > 0
    BY <1>1, <1>3, <1>4
  <2>. QED BY <2>1, <2>2
<1>6. /\ S \subseteq T /\ S \in SUBSET DOMAIN srcs /\ T \in SUBSET DOMAIN srcs
  BY <1>5
<1>7. IsFiniteSet(S) /\ IsFiniteSet(T)
  BY <1>2, <1>6
<1>8. f \in [S -> Nat] /\ g \in [T -> Nat] /\ g \in [T -> Int] /\ \A i \in T : g[i] >= 0
  BY <1>5
<1>9. Restrict(g, S) = f
  BY <1>6 DEF Restrict
<1>10. FirmSupplyAt(srcs, s) = SumFunction(f) /\ FirmSupplyAt(srcs, t) = SumFunction(g)
  BY DEF FirmSupplyAt
<1>. HIDE DEF S, T, f, g
<1>11. SumFunction(f) \in Nat /\ SumFunction(g) \in Nat
  BY <1>7, <1>8, SumNat
<1>12. SumFunction(Restrict(g, S)) <= SumFunction(g)
  BY <1>6, <1>7, <1>8, SumPart
<1>. QED BY <1>9, <1>10, <1>11, <1>12 DEF srcs

\* The pool carries each phase of an explicit timeline, with those before it.
LEMMA PoolLemma ==
  ASSUME NEW plan, Sound(plan), plan.phasing.mode # "SINGLE_SHOT",
         NEW k \in DOMAIN plan.phasing.phases
  PROVE  LET srcs == NewSources(plan)
             in == plan.phasing.phases[k]
         IN  /\ ~(100 * FirmSupplyAt(srcs, in.energize) < PooledLoad(plan, k))
             /\ in.source # 0 => ~(in.energize < SourceNamed(srcs, in.source).ready)
             /\ ~(in.energize < IF k = 1 THEN 0 ELSE plan.phasing.phases[k - 1].energize)
<1>. DEFINE srcs == NewSources(plan)
            in == plan.phasing.phases[k]
            Short == 100 * FirmSupplyAt(srcs, in.energize) < PooledLoad(plan, k)
            Early == in.energize < SourceNamed(srcs, in.source).ready
<1>1. ~HasErrors(Validate(plan)) /\ ValidateExplicit(plan, srcs) \subseteq Validate(plan)
  BY SoundStructure DEF Sound
<1>2. ValidatePhasePower(plan, srcs, k) \subseteq Validate(plan)
  BY <1>1 DEF ValidateExplicit
<1>3. ~Short
  <2>1. When(Short, Error("POWER_UNDERSUPPLY")) \subseteq ValidatePhasePower(plan, srcs, k)
    BY DEF ValidatePhasePower
  <2>. HIDE DEF Short
  <2>. QED BY <1>1, <1>2, <2>1, CheckedLemma
<1>4. ASSUME in.source # 0, Early PROVE FALSE
  <2>1. SourcesNamed(srcs, in.source) # {}
    BY <1>4, SoundTimeline DEF Schedulable
  <2>2. \A load : Error("PHASE_BEFORE_POWER")
                    \in NamedSupply(SourceNamed(srcs, in.source), in.energize, load)
    BY <1>4 DEF NamedSupply
  <2>3. Error("PHASE_BEFORE_POWER") \in ValidatePhasePower(plan, srcs, k)
    BY <1>4, <2>1, <2>2 DEF ValidatePhasePower
  <2>. QED BY <1>1, <1>2, <2>3, ErrorLemma
<1>5. ASSUME in.energize < IF k = 1 THEN 0 ELSE plan.phasing.phases[k - 1].energize
      PROVE  FALSE
  <2>1. Error("OUT_OF_RANGE") \in ValidateExplicit(plan, srcs)
    BY <1>5 DEF ValidateExplicit, When
  <2>. QED BY <1>1, <2>1, ErrorLemma
<1>. QED BY <1>3, <1>4, <1>5

LEMMA LoadTyped ==
  ASSUME NEW plan, Sound(plan), NEW k \in DOMAIN plan.phasing.phases
  PROVE  PooledLoad(plan, k) \in Int
<1>. DEFINE f == [j \in 1 .. k |-> RequestedLoad(plan, j)]
            ins == plan.phasing.phases
<1>1. /\ Len(ins) \in Nat /\ DOMAIN ins = 1 .. Len(ins) /\ \A j \in DOMAIN ins : ins[j].kw \in Int
      /\ plan.compute.pue \in Int
  BY AskedTyped, PlanTyped DEF Sound
<1>2. \A j \in 1 .. k : j \in DOMAIN ins
  BY <1>1
<1>3. \A j \in 1 .. k : RequestedLoad(plan, j) \in Int
  BY <1>1, <1>2 DEF RequestedLoad
<1>4. f \in [1 .. k -> Int]
  BY <1>3
<1>5. k \in Int
  BY <1>1
<1>6. IsFiniteSet(1 .. k)
  BY <1>5, FS_Interval
<1>7. PooledLoad(plan, k) = SumFunction(f)
  BY DEF PooledLoad
<1>. HIDE DEF f
<1>. QED BY <1>4, <1>6, <1>7, SumLemma

\* Whole racks: the load the validation looks at is the load of the schedule.
LEMMA LoadLemma ==
  ASSUME NEW plan, Sound(plan), WholeRacks(plan), plan.phasing.mode # "SINGLE_SHOT",
         NEW k \in DOMAIN plan.phasing.phases
  PROVE  LET phases == Schedule(plan, NewSources(plan))
         IN  /\ phases[k].size.itKw = plan.phasing.phases[k].kw
             /\ SumFunction([j \in 1 .. k |-> phases[j].size.facility]) = PooledLoad(plan, k)
<1>. DEFINE phases == Schedule(plan, NewSources(plan))
            ins == plan.phasing.phases
<1>1. Len(ins) \in Nat /\ DOMAIN ins = 1 .. Len(ins) /\ \A j \in DOMAIN ins : ins[j].kw \in Int
  BY AskedTyped DEF Sound
<1>2. ASSUME NEW j \in DOMAIN ins
      PROVE  /\ phases[j].size.itKw = ins[j].kw
             /\ phases[j].size.facility = RequestedLoad(plan, j)
  <2>. DEFINE size == SizePhase(ins[j].kw, plan.compute, PhaseCooling(plan, ins[j]))
  <2>1. ins[j].kw > 0
    BY SoundRanges DEF InRange, PhasesInRange
  <2>2. plan.compute.kwPerRack <= CoolingCeilingKw(PhaseCooling(plan, ins[j]))
    BY CoolingLemma
  <2>3. ins[j].kw % plan.compute.kwPerRack = 0
    BY DEF WholeRacks, AskedLoads
  <2>4. Fitting(plan, size) /\ size.itKw = ins[j].kw
    BY <1>1, <2>1, <2>2, <2>3, FittingLemma
  <2>5. size.facility = ins[j].kw * plan.compute.pue
    BY <2>4 DEF Fitting
  <2>6. phases[j].size = size
    BY ExplicitLemma
  <2>. QED BY <2>4, <2>5, <2>6 DEF RequestedLoad
<1>3. \A j \in 1 .. k : j \in DOMAIN ins
  BY <1>1
<1>. HIDE DEF phases, ins
<1>4. [j \in 1 .. k |-> phases[j].size.facility] = [j \in 1 .. k |-> RequestedLoad(plan, j)]
  BY <1>2, <1>3
<1>5. k \in DOMAIN ins
  BY DEF ins
<1>. QED BY <1>2, <1>4, <1>5 DEF PooledLoad, phases, ins

\* Whole racks: a phase energizes in the month it was asked to.
LEMMA PunctualLemma ==
  ASSUME NEW plan, Sound(plan), WholeRacks(plan), plan.phasing.mode # "SINGLE_SHOT",
         NEW k \in DOMAIN plan.phasing.phases
  PROVE  Schedule(plan, NewSources(plan))[k].energize = plan.phasing.phases[k].energize
<1>. DEFINE srcs == NewSources(plan)
            in == plan.phasing.phases[k]
            ph == Schedule(plan, srcs)[k]
            load == PooledLoad(plan, k)
            first == FirstMonthCovering(srcs, load, plan.hold)
<1>1. in.energize \in Int /\ plan.hold \in Int /\ in.source \in Nat
  BY AskedTyped, PlanTyped DEF Sound
<1>2. in.energize >= 0
  <2>1. in.start >= 0 /\ in.energize >= in.start /\ in.start \in Int
    BY SoundRanges, AskedTyped DEF InRange, PhasesInRange, Sound
  <2>. QED BY <1>1, <2>1
<1>3. /\ ph.powerReady = IF in.source # 0 THEN SourceNamed(srcs, in.source).ready ELSE first
      /\ ph.energize = AtLeast(ph.powerReady, in.energize)
  <2>. DEFINE sum == SumFunction([j \in 1 .. k |-> Schedule(plan, srcs)[j].size.facility])
  <2>1. sum = load
    BY LoadLemma
  <2>2. /\ ph.powerReady = IF in.source # 0 THEN SourceNamed(srcs, in.source).ready
                           ELSE FirstMonthCovering(srcs, sum, plan.hold)
        /\ ph.energize = AtLeast(ph.powerReady, ph.constructionReady)
        /\ ph.constructionReady = in.energize
    BY ExplicitLemma
  <2>. HIDE DEF sum, ph, in, load
  <2>. QED BY <2>1, <2>2
<1>4. /\ ~(100 * FirmSupplyAt(srcs, in.energize) < load)
      /\ in.source # 0 => ~(in.energize < SourceNamed(srcs, in.source).ready)
  BY PoolLemma
<1>. HIDE DEF ph, in, load
<1>5. ph.powerReady \in Int /\ ph.powerReady <= in.energize
  <2>1. CASE in.source # 0
    <3>1. SourcesNamed(srcs, in.source) # {}
      BY <2>1, SoundTimeline DEF Schedulable, in
    <3>2. srcs \in Seq(SourceType)
      BY SourcesTyped DEF Sound
    <3>. HIDE DEF srcs
    <3>3. SourceNamed(srcs, in.source) \in SourceType
      BY <3>1, <3>2, NamedLemma
    <3>4. SourceNamed(srcs, in.source).ready \in Int
      BY <3>3 DEF SourceType
    <3>. QED BY <1>1, <1>3, <1>4, <2>1, <3>4
  <2>2. CASE ~(in.source # 0)
    <3>. DEFINE months == MonthsCovering(srcs, load, plan.hold)
    <3>1. /\ first \in Nat
          /\ months # {} => first \in months /\ \A t \in months : first <= t
      BY <1>1, CoveringLemma
    <3>2. \A t \in months : t \in 0 .. plan.hold - 1
      BY DEF MonthsCovering
    <3>3. CASE months = {}
      BY <1>1, <1>2, <1>3, <2>2, <3>3 DEF FirstMonthCovering
    <3>4. CASE months # {}
      <4>1. CASE in.energize <= plan.hold - 1
        <5>1. in.energize \in 0 .. plan.hold - 1
          BY <1>1, <1>2, <4>1
        <5>2. 100 * FirmSupplyAt(srcs, in.energize) >= load
          <6>1. FirmSupplyAt(srcs, in.energize) \in Int
            BY <1>1, SupplyMonotone
          <6>2. load \in Int
            BY LoadTyped DEF load
          <6>. QED BY <1>4, <6>1, <6>2
        <5>3. in.energize \in months
          BY <5>1, <5>2 DEF MonthsCovering
        <5>. QED BY <1>3, <2>2, <3>1, <3>4, <5>3
      <4>2. CASE ~(in.energize <= plan.hold - 1)
        BY <1>1, <1>3, <2>2, <3>1, <3>2, <3>4, <4>2
      <4>. QED BY <4>1, <4>2
    <3>. QED BY <3>3, <3>4
  <2>. QED BY <2>1, <2>2
<1>6. AtLeast(ph.powerReady, in.energize) = in.energize
  BY <1>1, <1>5, LargerLemma
<1>. QED BY <1>3, <1>6 DEF ph, in

\* The load online over a month's phases, as a part of the load of them all.
LEMMA OnlinePart ==
  ASSUME NEW plan, Sound(plan), NEW T \in SUBSET DOMAIN Schedule(plan, NewSources(plan)),
         NEW t \in Int, Online(Schedule(plan, NewSources(plan)), t) \subseteq T
  PROVE  LET phases == Schedule(plan, NewSources(plan))
         IN  /\ OnlineItKw(phases, t) \in Nat
             /\ SumFunction([k \in T |-> phases[k].size.itKw]) \in Nat
             /\ OnlineItKw(phases, t) <= SumFunction([k \in T |-> phases[k].size.itKw])
<1>. DEFINE phases == Schedule(plan, NewSources(plan))
            S == Online(phases, t)
            f == [k \in S |-> phases[k].size.itKw]
            g == [k \in T |-> phases[k].size.itKw]
<1>1. phases \in Seq(PhaseType)
  BY BuiltLemma DEF Built
<1>2. \A k \in DOMAIN phases : phases[k].size.itKw \in Nat
  BY PhasesFit DEF Fitting
<1>. HIDE DEF phases
<1>3. S \subseteq T /\ T \subseteq DOMAIN phases
  BY DEF phases
<1>4. IsFiniteSet(T) /\ IsFiniteSet(S)
  BY <1>1, <1>3, PositionsLemma, FS_Subset
<1>5. OnlineItKw(phases, t) = SumFunction(f)
  BY DEF OnlineItKw
<1>. HIDE DEF S
<1>6. /\ f \in [S -> Nat] /\ g \in [T -> Nat] /\ g \in [T -> Int] /\ \A k \in T : g[k] >= 0
      /\ Restrict(g, S) = f
  BY <1>2, <1>3 DEF Restrict
<1>. HIDE DEF f, g
<1>7. SumFunction(f) \in Nat /\ SumFunction(g) \in Nat
  BY <1>4, <1>6, SumNat
<1>8. SumFunction(Restrict(g, S)) <= SumFunction(g)
  BY <1>3, <1>4, <1>6, SumPart
<1>. QED BY <1>5, <1>6, <1>7, <1>8 DEF g, phases

\* Whole racks: no phase energizes before it starts, or before the one ahead of it.
LEMMA PrecedenceLemma ==
  ASSUME NEW plan, Sound(plan), WholeRacks(plan),
         NEW k \in DOMAIN Schedule(plan, NewSources(plan))
  PROVE  LET phases == Schedule(plan, NewSources(plan))
         IN  /\ phases[k].energize >= phases[k].start
             /\ k > 1 => phases[k].energize >= phases[k - 1].energize
<1>. DEFINE phases == Schedule(plan, NewSources(plan))
            ins == plan.phasing.phases
<1>1. CASE plan.phasing.mode = "SINGLE_SHOT"
  <2>1. k = 1 /\ phases[1].start = 0 /\ phases[1].constructionReady = ConstructionLeadMonths
        /\ phases[1].energize = AtLeast(phases[1].powerReady, phases[1].constructionReady)
        /\ phases[1].powerReady
             = FirstMonthCovering(NewSources(plan), phases[1].size.facility, plan.hold)
    BY <1>1, SingleShotLemma
  <2>2. phases[1].powerReady \in Nat
    BY <2>1, PlanTyped, CoveringLemma DEF Sound
  <2>3. phases[1].energize >= ConstructionLeadMonths /\ phases[1].energize \in Int
    <3>1. phases[1].powerReady \in Int /\ ConstructionLeadMonths \in Int
      BY <2>2 DEF ConstructionLeadMonths
    <3>. QED BY <2>1, <3>1, LargerLemma
  <2>. QED BY <2>1, <2>3 DEF ConstructionLeadMonths
<1>2. CASE plan.phasing.mode # "SINGLE_SHOT"
  <2>1. DOMAIN phases = DOMAIN ins /\ k \in DOMAIN ins
    BY <1>2, SoundTimeline, ScheduleTyped
  <2>2. Len(ins) \in Nat /\ DOMAIN ins = 1 .. Len(ins)
        /\ \A j \in DOMAIN ins : ins[j].energize \in Int /\ ins[j].start \in Int
    BY AskedTyped DEF Sound
  <2>3. \A j \in DOMAIN ins : phases[j].energize = ins[j].energize
    BY <1>2, PunctualLemma
  <2>4. phases[k].start = ins[k].start
    BY <1>2, <2>1, ExplicitLemma
  <2>5. ins[k].energize >= ins[k].start
    BY <1>2, <2>1, SoundRanges DEF InRange, PhasesInRange
  <2>6. ASSUME k > 1 PROVE phases[k].energize >= phases[k - 1].energize
    <3>1. k - 1 \in DOMAIN ins
      BY <2>1, <2>2, <2>6
    <3>2. ~(ins[k].energize < ins[k - 1].energize)
      BY <1>2, <2>1, <2>2, <2>6, PoolLemma
    <3>. QED BY <2>1, <2>2, <2>3, <3>1, <3>2
  <2>. QED BY <2>1, <2>3, <2>4, <2>5, <2>6
<1>. QED BY <1>1, <1>2

\* Whole racks: in every month the firm supply carries what is online.
LEMMA CarriedLemma ==
  ASSUME NEW plan, Sound(plan), WholeRacks(plan), NEW t \in 0 .. plan.hold - 1
  PROVE  OnlineItKw(Schedule(plan, NewSources(plan)), t) * plan.compute.pue
           <= 100 * FirmSupplyAt(NewSources(plan), t)
<1>. DEFINE srcs == NewSources(plan)
            phases == Schedule(plan, srcs)
            pue == plan.compute.pue
            S == Online(phases, t)
<1>. SUFFICES OnlineItKw(phases, t) * pue <= 100 * FirmSupplyAt(srcs, t)
  OBVIOUS
<1>1. /\ t \in Int /\ pue \in Nat /\ plan.hold \in Int
      /\ phases \in Seq(PhaseType) /\ Len(phases) > 0
  <2>1. plan.hold \in Int /\ pue \in Int /\ pue >= 100
    BY PlanTyped, SoundRanges DEF Sound, InRange, ComputeInRange
  <2>2. phases \in Seq(PhaseType) /\ Len(phases) > 0
    BY BuiltLemma DEF Built
  <2>. QED BY <2>1, <2>2
<1>2. /\ Len(phases) \in Nat /\ DOMAIN phases = 1 .. Len(phases)
      /\ \A k \in DOMAIN phases : phases[k] \in PhaseType
  BY <1>1, PositionsLemma
<1>3. FirmSupplyAt(srcs, t) \in Int /\ 0 <= FirmSupplyAt(srcs, t)
  <2>. HIDE DEF phases, pue, S
  <2>1. t \in Int /\ t <= t
    BY <1>1
  <2>. QED BY <2>1, SupplyMonotone
<1>4. \A k \in S : k \in DOMAIN phases /\ phases[k].energize <= t /\ phases[k].energize \in Int
  BY <1>2 DEF Online, PhaseType
<1>5. CASE S = {}
  <2>. DEFINE f == [k \in S |-> phases[k].size.itKw]
  <2>1. OnlineItKw(phases, t) = SumFunction(f) /\ DOMAIN f = {}
    BY <1>5 DEF OnlineItKw
  <2>2. SumFunction(f) = 0
    BY <2>1, EmptySum
  <2>. HIDE DEF f, srcs, phases
  <2>. QED BY <1>1, <1>3, <2>1, <2>2
<1>6. CASE S # {} /\ plan.phasing.mode = "SINGLE_SHOT"
  <2>. DEFINE ph == phases[1]
              load == ph.size.facility
              first == FirstMonthCovering(srcs, load, plan.hold)
  <2>1. /\ DOMAIN phases = {1} /\ ph.powerReady = first
        /\ ph.constructionReady = ConstructionLeadMonths
        /\ ph.energize = AtLeast(first, ConstructionLeadMonths)
        /\ ph.size = SizePhase(plan.compute.target, plan.compute, plan.compute.cooling)
    BY <1>6, SingleShotLemma
  <2>2. 1 \in S /\ ph.energize <= t /\ S \subseteq {1}
    BY <1>4, <1>6, <2>1
  <2>3. first \in Int /\ first <= ph.energize /\ ph.energize \in Int
    <3>1. first \in Nat /\ ConstructionLeadMonths \in Int
      BY <1>1, CoveringLemma DEF ConstructionLeadMonths
    <3>. HIDE DEF first
    <3>. QED BY <2>1, <3>1, LargerLemma
  <2>4. /\ plan.compute.target \in Int /\ plan.compute.target > 0
        /\ plan.compute.target % plan.compute.kwPerRack = 0
    BY <1>6, PlanTyped, SoundRanges DEF Sound, InRange, ComputeInRange, WholeRacks, AskedLoads
  <2>5. ph.size.itKw = plan.compute.target /\ Fitting(plan, ph.size)
    BY <2>1, <2>4, CoolingLemma, FittingLemma
  <2>6. load = plan.compute.target * pue
    BY <2>5 DEF Fitting
  <2>7. MonthsCovering(srcs, load, plan.hold) # {}
    <3>. DEFINE Never == MonthsCovering(srcs, load, plan.hold) = {}
    <3>1. When(Never, Error("POWER_UNDERSUPPLY")) \subseteq Validate(plan)
      BY <1>6, <2>6, SoundStructure DEF ValidateSingleShot
    <3>. HIDE DEF Never
    <3>2. ~Never
      BY <3>1, CheckedLemma DEF Sound
    <3>. QED BY <3>2 DEF Never
  <2>8. 100 * FirmSupplyAt(srcs, first) >= load
    BY <1>1, <2>7, CoveringLemma DEF MonthsCovering
  <2>9. first <= t
    BY <1>1, <2>2, <2>3
  <2>10. FirmSupplyAt(srcs, first) <= FirmSupplyAt(srcs, t) /\ FirmSupplyAt(srcs, first) \in Int
    BY <1>1, <2>3, <2>9, SupplyMonotone
  <2>11. OnlineItKw(phases, t) = ph.size.itKw
    <3>. DEFINE f == [k \in S |-> phases[k].size.itKw]
    <3>1. S = {1} /\ OnlineItKw(phases, t) = SumFunction(f)
      BY <2>2 DEF OnlineItKw
    <3>2. ph.size.itKw \in Int
      BY <2>5 DEF Fitting
    <3>. HIDE DEF S
    <3>3. f \in [{1} -> Int] /\ f[1] = ph.size.itKw
      BY <3>1, <3>2
    <3>4. Restrict(f, {1} \ {1}) = Restrict(f, {})
      OBVIOUS
    <3>. HIDE DEF f
    <3>5. SumFunction(f) = f[1] + SumFunction(Restrict(f, {1} \ {1})) /\ 1 \in {1}
      BY <3>3, SumLemma, FS_Singleton
    <3>. QED BY <3>1, <3>2, <3>3, <3>4, <3>5, SumNothing
  <2>. HIDE DEF srcs, phases, first, load, ph
  <2>. QED BY <1>1, <1>3, <2>4, <2>5, <2>6, <2>8, <2>10, <2>11
<1>7. CASE S # {} /\ plan.phasing.mode # "SINGLE_SHOT"
  <2>. DEFINE K == Max(S)
              ins == plan.phasing.phases
              kw == [j \in 1 .. K |-> phases[j].size.itKw]
              fac == [j \in 1 .. K |-> phases[j].size.facility]
              e == ins[K].energize
  <2>1. S \subseteq Int /\ IsFiniteSet(S)
    BY <1>1, <1>2, <1>4, OnlineLemma
  <2>2. K \in S /\ \A k \in S : K >= k
    BY <1>7, <2>1, ExtremeLemma
  <2>3. K \in DOMAIN phases /\ K \in 1 .. Len(phases) /\ phases[K].energize <= t
    BY <1>2, <1>4, <2>2
  <2>4. DOMAIN phases = DOMAIN ins
    BY <1>7, SoundTimeline, ScheduleTyped
  <2>5. phases[K].energize = e /\ e \in Int
    BY <1>7, <2>3, <2>4, PunctualLemma, AskedTyped DEF Sound
  <2>6. ~(100 * FirmSupplyAt(srcs, e) < PooledLoad(plan, K))
    BY <1>7, <2>3, <2>4, PoolLemma
  <2>7. SumFunction(fac) = PooledLoad(plan, K)
    BY <1>7, <2>3, <2>4, LoadLemma
  <2>8. 1 .. K \in SUBSET DOMAIN phases /\ S \subseteq 1 .. K
    <3>. HIDE DEF K, S, phases
    <3>1. \A k \in S : k \in 1 .. Len(phases)
      BY <1>2, <1>4
    <3>. QED BY <1>2, <2>1, <2>2, <2>3, <3>1
  <2>9. /\ OnlineItKw(phases, t) \in Nat /\ SumFunction(kw) \in Nat
        /\ OnlineItKw(phases, t) <= SumFunction(kw)
    BY <1>1, <2>8, OnlinePart
  <2>10. SumFunction(fac) = SumFunction(kw) * pue
    <3>. HIDE DEF K
    <3>1. \A j \in 1 .. K : /\ phases[j].size.itKw \in Nat
                            /\ phases[j].size.facility = phases[j].size.itKw * pue
      BY <2>8, PhasesFit DEF Fitting
    <3>2. kw \in [1 .. K -> Int] /\ fac \in [1 .. K -> Int]
      BY <1>1, <3>1
    <3>3. \A j \in 1 .. K : fac[j] = kw[j] * pue
      BY <3>1
    <3>4. IsFiniteSet(1 .. K) /\ pue \in Int
      <4>1. K \in Int
        BY <2>1, <2>2
      <4>. HIDE DEF pue
      <4>. QED BY <1>1, <4>1, FS_Interval
    <3>. HIDE DEF kw, fac
    <3>. QED BY <3>2, <3>3, <3>4, SumScaled
  <2>11. FirmSupplyAt(srcs, e) \in Int /\ FirmSupplyAt(srcs, e) <= FirmSupplyAt(srcs, t)
    BY <1>1, <2>3, <2>5, SupplyMonotone
  <2>12. OnlineItKw(phases, t) * pue <= SumFunction(kw) * pue
    <3>. DEFINE a == OnlineItKw(phases, t)
                b == SumFunction(kw)
    <3>1. a \in Nat /\ b \in Nat /\ a <= b
      BY <2>9
    <3>. HIDE DEF a, b, pue
    <3>2. a * pue <= b * pue
      BY <1>1, <3>1
    <3>. QED BY <3>2 DEF a, b
  <2>. HIDE DEF srcs, phases, kw, fac, K, e, pue
  <2>13. OnlineItKw(phases, t) * pue \in Int /\ SumFunction(kw) * pue \in Int
    BY <1>1, <2>9
  <2>. QED BY <1>3, <2>6, <2>7, <2>10, <2>11, <2>12, <2>13
<1>. QED BY <1>5, <1>6, <1>7

\* The totals of the schedule.
LEMMA TotalsLemma ==
  ASSUME NEW plan, Sound(plan)
  PROVE  LET phases == Schedule(plan, NewSources(plan))
         IN  /\ TotalOf(phases, "whitespace") <= TotalOf(phases, "gross")
             /\ TotalOf(phases, "itKw") = TotalOf(phases, "racks") * plan.compute.kwPerRack
             /\ TotalOf(phases, "facility") = TotalOf(phases, "itKw") * plan.compute.pue
             /\ TotalOf(phases, "heatKw") <= TotalOf(phases, "coolingKw")
<1>. DEFINE phases == Schedule(plan, NewSources(plan))
            D == DOMAIN phases
            part(p) == [k \in D |-> phases[k].size[p]]
<1>1. plan.compute.kwPerRack \in Int /\ plan.compute.pue \in Int
  BY PlanTyped DEF Sound
<1>2. IsFiniteSet(D)
  BY BuiltLemma, PositionsLemma DEF Built
<1>3. ASSUME NEW k \in D
      PROVE  /\ phases[k].size["whitespace"] \in Int /\ phases[k].size["gross"] \in Int
             /\ phases[k].size["itKw"] \in Int /\ phases[k].size["racks"] \in Int
             /\ phases[k].size["facility"] \in Int /\ phases[k].size["heatKw"] \in Int
             /\ phases[k].size["coolingKw"] \in Int
             /\ phases[k].size["whitespace"] <= phases[k].size["gross"]
             /\ phases[k].size["itKw"] = phases[k].size["racks"] * plan.compute.kwPerRack
             /\ phases[k].size["facility"] = phases[k].size["itKw"] * plan.compute.pue
             /\ phases[k].size["heatKw"] <= phases[k].size["coolingKw"]
  <2>. DEFINE size == phases[k].size
  <2>1. Fitting(plan, size)
    BY PhasesFit
  <2>. HIDE DEF size
  <2>2. size \in SizeType
    BY <2>1 DEF Fitting
  <2>. QED BY <2>1, <2>2 DEF Fitting, SizeType, size
<1>. HIDE DEF phases, D
<1>4. /\ part("whitespace") \in [D -> Int] /\ part("gross") \in [D -> Int]
      /\ part("itKw") \in [D -> Int] /\ part("racks") \in [D -> Int]
      /\ part("facility") \in [D -> Int] /\ part("heatKw") \in [D -> Int]
      /\ part("coolingKw") \in [D -> Int]
  BY <1>3
<1>5. \A p : TotalOf(phases, p) = SumFunction(part(p))
  BY DEF TotalOf, D
<1>6. /\ \A k \in D : part("whitespace")[k] <= part("gross")[k]
      /\ \A k \in D : part("itKw")[k] = part("racks")[k] * plan.compute.kwPerRack
      /\ \A k \in D : part("facility")[k] = part("itKw")[k] * plan.compute.pue
      /\ \A k \in D : part("heatKw")[k] <= part("coolingKw")[k]
  BY <1>3
<1>. HIDE DEF part
<1>7. SumFunction(part("whitespace")) <= SumFunction(part("gross"))
  BY <1>2, <1>4, <1>6, SumMonotone
<1>8. SumFunction(part("itKw")) = SumFunction(part("racks")) * plan.compute.kwPerRack
  <2>. DEFINE f == part("racks")
              g == part("itKw")
  <2>1. f \in [D -> Int] /\ g \in [D -> Int] /\ \A k \in D : g[k] = f[k] * plan.compute.kwPerRack
    BY <1>4, <1>6
  <2>. HIDE DEF f, g
  <2>2. SumFunction(g) = SumFunction(f) * plan.compute.kwPerRack
    BY <1>1, <1>2, <2>1, SumScaled
  <2>. QED BY <2>2 DEF f, g
<1>9. SumFunction(part("facility")) = SumFunction(part("itKw")) * plan.compute.pue
  <2>. DEFINE f == part("itKw")
              g == part("facility")
  <2>1. f \in [D -> Int] /\ g \in [D -> Int] /\ \A k \in D : g[k] = f[k] * plan.compute.pue
    BY <1>4, <1>6
  <2>. HIDE DEF f, g
  <2>2. SumFunction(g) = SumFunction(f) * plan.compute.pue
    BY <1>1, <1>2, <2>1, SumScaled
  <2>. QED BY <2>2 DEF f, g
<1>10. SumFunction(part("heatKw")) <= SumFunction(part("coolingKw"))
  BY <1>2, <1>4, <1>6, SumMonotone
<1>. QED BY <1>5, <1>7, <1>8, <1>9, <1>10 DEF phases

\* Cutting the capital lines up by component, or by phase, loses none of them.
LEMMA LinesByClass ==
  ASSUME NEW lines, lines \subseteq LineType, IsFiniteSet(lines)
  PROVE  /\ SumFunction(ByComponent(lines)) = SumAmounts(lines)
         /\ SumFunction(ByPhase(lines)) = SumAmounts(lines)
<1>. DEFINE f == [line \in lines |-> line.amount]
            part == [line \in lines |-> line.component]
            phase == [line \in lines |-> line.phase]
            Parts0 == {line.component : line \in lines}
            Phases0 == {line.phase : line \in lines}
<1>1. f \in [lines -> Int] /\ part \in [lines -> Parts0] /\ phase \in [lines -> Phases0]
  BY DEF LineType
<1>2. DOMAIN part = lines /\ DOMAIN phase = lines
  OBVIOUS
<1>3. Parts0 = {part[line] : line \in lines} /\ Phases0 = {phase[line] : line \in lines}
  OBVIOUS
<1>4. \A T \in SUBSET lines : SumAmounts(T) = SumFunction(Restrict(f, T))
  <2>. SUFFICES ASSUME NEW T \in SUBSET lines PROVE SumAmounts(T) = SumFunction(Restrict(f, T))
    OBVIOUS
  <2>1. [line \in T |-> line.amount] = Restrict(f, T)
    BY DEF Restrict
  <2>. QED BY <2>1 DEF SumAmounts
<1>5. /\ \A c : {line \in lines : line.component = c} = {line \in lines : part[line] = c}
      /\ \A c : {line \in lines : line.phase = c} = {line \in lines : phase[line] = c}
  OBVIOUS
<1>6. /\ ByComponent(lines)
           = [c \in Parts0 |-> SumFunction(Restrict(f, {line \in lines : part[line] = c}))]
      /\ ByPhase(lines)
           = [c \in Phases0 |-> SumFunction(Restrict(f, {line \in lines : phase[line] = c}))]
  <2>1. /\ \A c : SumAmounts({line \in lines : line.component = c})
                    = SumFunction(Restrict(f, {line \in lines : part[line] = c}))
        /\ \A c : SumAmounts({line \in lines : line.phase = c})
                    = SumFunction(Restrict(f, {line \in lines : phase[line] = c}))
    BY <1>4, <1>5
  <2>. HIDE DEF f, part, phase
  <2>. QED BY <2>1 DEF ByComponent, ByPhase
<1>. HIDE DEF f, part, phase, Parts0, Phases0
<1>7. IsFiniteSet(Parts0) /\ IsFiniteSet(Phases0)
  BY <1>2, <1>3, ImageLemma
<1>8. SumFunction(ByComponent(lines)) = SumFunction(f)
  BY <1>1, <1>6, <1>7, SumByClass
<1>9. SumFunction(ByPhase(lines)) = SumFunction(f)
  BY <1>1, <1>6, <1>7, SumByClass
<1>10. SumAmounts(lines) = SumFunction(f)
  BY <1>1, <1>4, RestrictAll
<1>. QED BY <1>8, <1>9, <1>10

\* What comes online stays online.
LEMMA RampLemma ==
  ASSUME NEW plan, Sound(plan), NEW t \in 0 .. plan.hold - 1
  PROVE  LET phases == Schedule(plan, NewSources(plan))
         IN  /\ OnlineItKw(phases, t) >= 0
             /\ t # 0 => OnlineItKw(phases, t - 1) <= OnlineItKw(phases, t)
             /\ OnlineItKw(phases, t) <= TotalOf(phases, "itKw")
<1>. DEFINE phases == Schedule(plan, NewSources(plan))
<1>1. t \in Int /\ plan.hold \in Int /\ phases \in Seq(PhaseType)
  BY PlanTyped, BuiltLemma DEF Sound, Built
<1>2. \A k \in DOMAIN phases : phases[k].energize \in Int
  <2>. HIDE DEF phases
  <2>1. \A k \in DOMAIN phases : phases[k] \in PhaseType
    BY <1>1, PositionsLemma
  <2>. QED BY <2>1 DEF PhaseType
<1>3. OnlineItKw(phases, t) <= TotalOf(phases, "itKw") /\ OnlineItKw(phases, t) \in Nat
  <2>1. Online(phases, t) \subseteq DOMAIN phases /\ DOMAIN phases \in SUBSET DOMAIN phases
    BY DEF Online
  <2>2. /\ OnlineItKw(phases, t) \in Nat
        /\ OnlineItKw(phases, t) <= SumFunction([k \in DOMAIN phases |-> phases[k].size.itKw])
    BY <1>1, <2>1, OnlinePart
  <2>. QED BY <2>2 DEF TotalOf
<1>4. ASSUME t # 0 PROVE OnlineItKw(phases, t - 1) <= OnlineItKw(phases, t)
  <2>. DEFINE S == Online(phases, t - 1)
              T == Online(phases, t)
  <2>1. t - 1 \in Int
    BY <1>1
  <2>2. S \subseteq T /\ T \in SUBSET DOMAIN phases
    BY <1>1, <1>2 DEF Online
  <2>3. OnlineItKw(phases, t - 1) <= SumFunction([k \in T |-> phases[k].size.itKw])
    BY <2>1, <2>2, OnlinePart
  <2>. QED BY <2>3 DEF OnlineItKw
<1>. QED BY <1>3, <1>4

\* What Build makes of a plan the validation lets through.
LEMMA ModelLemma ==
  ASSUME NEW plan, Sound(plan)
  PROVE  LET srcs == NewSources(plan)
             phases == Schedule(plan, srcs)
             m == Build(plan)
             capture == ComputeCapture(plan.demand, phases, plan.hold)
         IN  /\ m.srcs = srcs /\ m.phases = phases
             /\ m.lines \subseteq LineType /\ IsFiniteSet(m.lines)
             /\ m.revenue = [t \in 0 .. plan.hold - 1 |-> Revenue(plan, phases, t)]
             /\ m.summary \in SummaryType
             /\ m.summary.totalCapex = SumAmounts(m.lines)
             /\ m.summary.timeToEnergize = FirstEnergize(phases)
             /\ m.summary.demand = capture.demand
             /\ m.summary.captured = capture.captured
<1>. DEFINE srcs == NewSources(plan)
            phases == Schedule(plan, srcs)
            lines == BuildCapex(plan, phases, srcs)
            m == Ledger(plan, srcs, phases, lines)
            capture == ComputeCapture(plan.demand, phases, plan.hold)
<1>1. Built(plan, phases, srcs)
  BY BuiltLemma
<1>2. Build(plan) = m
  BY DEF Build
<1>. HIDE DEF srcs, phases
<1>3. lines \subseteq LineType /\ IsFiniteSet(lines)
  BY <1>1, CapexTyped
<1>. HIDE DEF lines
<1>4. /\ m.srcs = srcs /\ m.phases = phases /\ m.lines = lines
      /\ m.revenue = [t \in 0 .. plan.hold - 1 |-> Revenue(plan, phases, t)]
      /\ m.summary \in SummaryType
      /\ m.summary.totalCapex = SumAmounts(lines)
      /\ m.summary.timeToEnergize = FirstEnergize(phases)
      /\ m.summary.demand = capture.demand
      /\ m.summary.captured = capture.captured
  BY <1>1, <1>3, LedgerTyped
<1>. HIDE DEF m
<1>. QED BY <1>2, <1>3, <1>4 DEF srcs, phases

\* Nobody is paid for a phase before the first one energizes.
LEMMA UnpaidLemma ==
  ASSUME NEW plan, Sound(plan), NEW t \in 0 .. plan.hold - 1,
         t < FirstEnergize(Schedule(plan, NewSources(plan)))
  PROVE  Revenue(plan, Schedule(plan, NewSources(plan)), t) = 0
<1>. DEFINE phases == Schedule(plan, NewSources(plan))
<1>1. plan \in SitePlan /\ t \in Int /\ phases \in Seq(PhaseType) /\ Len(phases) > 0
  BY PlanTyped, BuiltLemma DEF Sound, Built
<1>. HIDE DEF phases
<1>2. /\ \A k \in DOMAIN phases : FirstEnergize(phases) <= phases[k].energize
      /\ FirstEnergize(phases) \in Int
      /\ \A k \in DOMAIN phases : phases[k] \in PhaseType
  BY <1>1, EnergizesLemma, PositionsLemma
<1>3. \A k \in DOMAIN phases : phases[k].energize \in Int
  BY <1>2 DEF PhaseType
<1>4. Online(phases, t) = {}
  BY <1>1, <1>2, <1>3 DEF Online, phases
<1>. QED BY <1>1, <1>4, RevenueTyped DEF phases

\* An accepted plan whose phases ask for whole racks fails no check of its ledger.
LEMMA ConserveLemma ==
  ASSUME NEW plan, Sound(plan), WholeRacks(plan)
  PROVE  FailedChecks(plan, Build(plan)) = {}
<1>. DEFINE m      == Build(plan)
            srcs   == NewSources(plan)
            phases == Schedule(plan, srcs)
            grid   == 0 .. plan.hold - 1
            online == [t \in grid |-> OnlineItKw(phases, t)]
            Components0 == SumFunction(ByComponent(m.lines)) = m.summary.totalCapex
            Phases0 == SumFunction(ByPhase(m.lines)) = m.summary.totalCapex
            Space == TotalOf(phases, "whitespace") <= TotalOf(phases, "gross")
            Racks == TotalOf(phases, "itKw") = TotalOf(phases, "racks") * plan.compute.kwPerRack
            Pue   == TotalOf(phases, "facility") = TotalOf(phases, "itKw") * plan.compute.pue
            Supply == \A t \in grid : online[t] * plan.compute.pue <= 100 * FirmSupplyAt(srcs, t)
            Heat  == TotalOf(phases, "heatKw") <= TotalOf(phases, "coolingKw")
            Energy == /\ \A k \in DOMAIN phases : phases[k].energize =
                           AtLeast(phases[k].powerReady, phases[k].constructionReady)
                      /\ \A t \in grid : t < m.summary.timeToEnergize => m.revenue[t] = 0
            Order == \A k \in DOMAIN phases :
                       /\ phases[k].energize >= phases[k].start
                       /\ k > 1 => phases[k].energize >= phases[k - 1].energize
            Ramp  == /\ \A t \in grid \ {0} : online[t - 1] <= online[t]
                     /\ online[plan.hold - 1] <= TotalOf(phases, "itKw")
            Taken == m.summary.captured \in 0 .. m.summary.demand
<1>1. /\ m.srcs = srcs /\ m.phases = phases
      /\ m.lines \subseteq LineType /\ IsFiniteSet(m.lines)
      /\ m.revenue = [t \in grid |-> Revenue(plan, phases, t)]
      /\ m.summary \in SummaryType
      /\ m.summary.totalCapex = SumAmounts(m.lines)
      /\ m.summary.timeToEnergize = FirstEnergize(phases)
  BY ModelLemma
<1>2. plan.hold \in Int /\ plan.hold >= 1
  BY HoldLemma
<1>3. Components0 /\ Phases0
  BY <1>1, LinesByClass
<1>4. Space /\ Racks /\ Pue /\ Heat
  BY TotalsLemma
<1>5. Supply
  BY CarriedLemma
<1>6. Energy
  <2>1. \A k \in DOMAIN phases : phases[k].energize =
          AtLeast(phases[k].powerReady, phases[k].constructionReady)
    BY PhasesFit
  <2>2. \A t \in grid : t < m.summary.timeToEnergize => m.revenue[t] = 0
    <3>. SUFFICES ASSUME NEW t \in grid, t < m.summary.timeToEnergize PROVE m.revenue[t] = 0
      OBVIOUS
    <3>1. Revenue(plan, phases, t) = 0
      BY <1>1, UnpaidLemma
    <3>. HIDE DEF m, phases
    <3>. QED BY <1>1, <3>1
  <2>. QED BY <2>1, <2>2
<1>7. Order
  BY PrecedenceLemma
<1>8. Ramp
  <2>1. ASSUME NEW t \in grid \ {0} PROVE online[t - 1] <= online[t]
    <3>1. t \in grid /\ t # 0 /\ t - 1 \in grid
      BY <1>2
    <3>2. OnlineItKw(phases, t - 1) <= OnlineItKw(phases, t)
      BY <3>1, RampLemma
    <3>. HIDE DEF phases, grid
    <3>. QED BY <3>1, <3>2
  <2>2. online[plan.hold - 1] <= TotalOf(phases, "itKw")
    <3>1. plan.hold - 1 \in grid
      BY <1>2
    <3>2. OnlineItKw(phases, plan.hold - 1) <= TotalOf(phases, "itKw")
      BY <3>1, RampLemma
    <3>. HIDE DEF phases, grid
    <3>. QED BY <3>1, <3>2
  <2>. QED BY <2>1, <2>2
<1>9. Taken
  <2>. DEFINE capture == ComputeCapture(plan.demand, phases, plan.hold)
  <2>1. m.summary.demand = capture.demand /\ m.summary.captured = capture.captured
    BY ModelLemma
  <2>2. \A t \in grid : OnlineItKw(phases, t) >= 0
    BY RampLemma
  <2>3. Built(plan, phases, srcs)
    BY BuiltLemma
  <2>. HIDE DEF m, phases, srcs
  <2>4. capture \in CaptureType /\ capture.captured \in Nat /\ capture.captured <= capture.demand
    BY <2>2, <2>3, ComputeCaptureTyped
  <2>. HIDE DEF capture
  <2>. QED BY <2>1, <2>4 DEF CaptureType
<1>10. FailedChecks(plan, m) =
         {name \in {"capital_components_sum", "capital_phases_sum", "whitespace_le_gross",
                    "power_load_eq_racks", "facility_power_pue", "power_supply_ge_demand_t",
                    "cooling_ge_heat", "schedule_energize_consistency", "phase_precedence",
                    "mw_online_monotonic", "demand_capture_identity"} :
            ~CASE name = "capital_components_sum" -> Components0
               [] name = "capital_phases_sum" -> Phases0
               [] name = "whitespace_le_gross" -> Space
               [] name = "power_load_eq_racks" -> Racks
               [] name = "facility_power_pue" -> Pue
               [] name = "power_supply_ge_demand_t" -> Supply
               [] name = "cooling_ge_heat" -> Heat
               [] name = "schedule_energize_consistency" -> Energy
               [] name = "phase_precedence" -> Order
               [] name = "mw_online_monotonic" -> Ramp
               [] name = "demand_capture_identity" -> Taken}
  <2>1. m.phases = phases /\ m.srcs = srcs
    BY <1>1
  <2>. HIDE DEF m, phases, srcs
  <2>. QED BY <2>1 DEF FailedChecks
<1>. HIDE DEF Components0, Phases0, Space, Racks, Pue, Supply, Heat, Energy, Order, Ramp, Taken
<1>11. FailedChecks(plan, m) = {}
  BY <1>3, <1>4, <1>5, <1>6, <1>7, <1>8, <1>9, <1>10
<1>. QED BY <1>11

\* The validation finds errors, and warns only of phases that miss the target.
LEMMA SilentLemma ==
  ASSUME NEW plan, NEW w, \A code : w # Error(code), w # Warning("PHASES_NE_TARGET")
  PROVE  w \notin Validate(plan)
<1>. DEFINE srcs == NewSources(plan)
<1>. HIDE DEF srcs
<1>1. \A c, code : w \notin When(c, Error(code))
  BY DEF When
<1>2. w \notin ValidateStructure(plan)
  BY <1>1 DEF ValidateStructure
<1>3. \A cooling : w \notin ValidateDensity(plan, cooling)
  BY <1>1 DEF ValidateDensity
<1>4. \A footprint : w \notin ValidateFootprint(plan, footprint)
  BY <1>1 DEF ValidateFootprint
<1>5. w \notin ValidateSingleShot(plan, srcs)
  BY <1>1, <1>4 DEF ValidateSingleShot
<1>6. ASSUME NEW k PROVE w \notin ValidatePhasePower(plan, srcs, k)
  <2>1. \A source, energize, load : w \notin NamedSupply(source, energize, load)
    BY <1>1 DEF NamedSupply
  <2>. DEFINE ph == plan.phasing.phases[k]
              sharing == {j \in 1 .. k : plan.phasing.phases[j].source = ph.source}
              load == SumFunction([j \in sharing |-> RequestedLoad(plan, j)])
              named ==
                CASE ph.source = 0 -> {}
                  [] ph.source # 0 /\ SourcesNamed(srcs, ph.source) = {} ->
                       {Error("UNKNOWN_POWER_SOURCE")}
                  [] OTHER -> NamedSupply(SourceNamed(srcs, ph.source), ph.energize, load)
              short == When(100 * FirmSupplyAt(srcs, ph.energize) < PooledLoad(plan, k),
                            Error("POWER_UNDERSUPPLY"))
  <2>2. ValidatePhasePower(plan, srcs, k) = named \cup short
    BY DEF ValidatePhasePower
  <2>. HIDE DEF load
  <2>3. w \notin named
    <3>. HIDE DEF ph
    <3>. QED BY <2>1
  <2>4. w \notin short
    BY <1>1
  <2>. QED BY <2>2, <2>3, <2>4
<1>7. w \notin ValidateExplicit(plan, srcs)
  <2>1. \A c : w \notin When(c, Warning("PHASES_NE_TARGET"))
    BY DEF When
  <2>. QED BY <1>1, <1>3, <1>4, <1>6, <2>1 DEF ValidateExplicit
<1>. QED BY <1>2, <1>3, <1>5, <1>7 DEF Validate, srcs

\* What core.Analyze answers.
LEMMA AnalyzeTyped ==
  ASSUME NEW plan \in SitePlan
  PROVE  LET res == Analyze(plan)
         IN  /\ res.status \in {"INVALID_INPUT", "OK_WITH_WARNINGS", "OK"}
             /\ res.status = "INVALID_INPUT" <=> ~Sound(plan)
             /\ res.summary \in SummaryType
             /\ res.allPassed \in BOOLEAN
             /\ Sound(plan) => (res.allPassed <=> res.failed = {})
             /\ Sound(plan) /\ WholeRacks(plan) =>
                  /\ res.failed = {}
                  /\ Warning("CONSERVATION_FAILED") \notin res.diags
<1>. DEFINE diags == Validate(plan)
            m == Build(plan)
            failed == FailedChecks(plan, m)
            notes == BuildNotes(plan, m)
            warned == When(failed # {}, Warning("CONSERVATION_FAILED"))
            all == diags \cup notes \cup warned
            res == Analyze(plan)
<1>1. CASE ~Sound(plan)
  <2>1. res = [status |-> "INVALID_INPUT", diags |-> diags, summary |-> NoSummary,
               failed |-> {}, allPassed |-> FALSE]
    BY <1>1 DEF Analyze, Analyzed, Sound
  <2>2. NoSummary \in SummaryType
    BY DEF NoSummary, SummaryType
  <2>. HIDE DEF res
  <2>. QED BY <1>1, <2>1, <2>2 DEF res
<1>2. CASE Sound(plan)
  <2>1. res = [status |-> StatusOf(all), diags |-> all, summary |-> m.summary,
               failed |-> failed, allPassed |-> failed = {}]
    BY <1>2 DEF Analyze, Analyzed, Sound, Checked
  <2>2. m.summary \in SummaryType
    BY <1>2, ModelLemma
  <2>3. ~HasErrors(diags)
    BY <1>2 DEF Sound
  <2>4. ~HasErrors(notes)
    BY DEF HasErrors, BuildNotes, When, Info, Warning
  <2>5. ~HasErrors(warned)
    BY DEF HasErrors, When, Warning
  <2>6. WholeRacks(plan) => failed = {}
    BY <1>2, ConserveLemma
  <2>7. Warning("CONSERVATION_FAILED") \notin diags
    <3>. DEFINE w == Warning("CONSERVATION_FAILED")
    <3>1. (\A code : w # Error(code)) /\ w # Warning("PHASES_NE_TARGET")
      BY DEF Warning, Error
    <3>. HIDE DEF w
    <3>2. w \notin Validate(plan)
      BY <3>1, SilentLemma
    <3>. QED BY <3>2 DEF w
  <2>8. Warning("CONSERVATION_FAILED") \notin notes
    BY DEF BuildNotes, When, Info, Warning
  <2>9. failed = {} => warned = {}
    BY DEF When
  <2>. HIDE DEF diags, notes, warned, failed, m
  <2>10. ~HasErrors(all)
    BY <2>3, <2>4, <2>5 DEF HasErrors
  <2>11. WholeRacks(plan) => Warning("CONSERVATION_FAILED") \notin all
    BY <2>6, <2>7, <2>8, <2>9
  <2>. HIDE DEF all
  <2>12. StatusOf(all) \in {"OK_WITH_WARNINGS", "OK"}
    BY <2>10 DEF StatusOf
  <2>. HIDE DEF res
  <2>13. /\ res.status = StatusOf(all) /\ res.diags = all /\ res.summary = m.summary
         /\ res.failed = failed /\ res.allPassed = (failed = {})
    BY <2>1
  <2>14. res.allPassed \in BOOLEAN /\ (res.allPassed <=> res.failed = {})
    BY <2>13
  <2>15. res.status \in {"INVALID_INPUT", "OK_WITH_WARNINGS", "OK"}
         /\ res.status # "INVALID_INPUT"
    BY <2>12, <2>13
  <2>. QED BY <1>2, <2>2, <2>6, <2>11, <2>13, <2>14, <2>15 DEF res
<1>. QED BY <1>1, <1>2
=============================================================================
