-------------------------- MODULE PlanCounts_proofs --------------------------
(***************************************************************************)
(* Theorems about the counts of a plan and its previews, for every set of   *)
(* rows, weights, counts, densities and base counts.                        *)
(***************************************************************************)
EXTENDS PlanCounts, RouterGraph_proofs

-----------------------------------------------------------------------------
(* Sums.  Total(f) adds up the values of f in an order that is CHOOSEn. *)

\* The sum over s, from the sums G over smaller sets.
First(s) == CHOOSE x \in s : TRUE
SumStep(f, G, s) == IF s = {} THEN 0 ELSE f[First(s)] + G[s \ {First(s)}]
Sums(f, S, G) == G = [s \in SUBSET S |-> SumStep(f, G, s)]

LEMMA FirstIn == \A s : s # {} => First(s) \in s
BY DEF First

LEMMA SumsExist ==
  ASSUME NEW f, NEW S, IsFiniteSet(S) PROVE \E G : Sums(f, S, G)
<1> DEFINE Small(n) == {s \in SUBSET S : Cardinality(s) < n}
           Part(n, G) == G = [s \in Small(n) |-> SumStep(f, G, s)]
           M == {n \in Nat : \E G : Part(n, G)}
<1>0. \A s \in SUBSET S : IsFiniteSet(s) /\ Cardinality(s) \in Nat
  BY FS_Subset, FS_CardinalityType
<1>1. 0 \in M
  <2> DEFINE G == [s \in {} |-> 0]
  <2>1. Small(0) = {}
    BY <1>0
  <2>2. [s \in Small(0) |-> SumStep(f, G, s)] = G
    BY <2>1
  <2> QED
    BY <2>2
<1>2. ASSUME NEW n \in M PROVE n + 1 \in M
  <2>0. n \in Nat
    OBVIOUS
  <2>1. PICK G : Part(n, G)
    OBVIOUS
  <2> HIDE DEF M
  <2> DEFINE H == [s \in Small(n + 1) |-> SumStep(f, G, s)]
  <2>2. \A s \in Small(n + 1) : s # {} => s \ {First(s)} \in Small(n) /\ s \ {First(s)} \in Small(n + 1)
    <3> SUFFICES ASSUME NEW s \in Small(n + 1), s # {}
                 PROVE  Cardinality(s \ {First(s)}) < n /\ s \ {First(s)} \in SUBSET S
      BY <2>0, <1>0
    <3>1. Cardinality(s \ {First(s)}) = Cardinality(s) - 1
      BY <1>0, FirstIn, FS_RemoveElement
    <3> QED
      BY <1>0, <2>0, <3>1
  <2>3. \A s \in Small(n) : G[s] = SumStep(f, G, s)
    BY <2>1
  <2>4. \A s \in Small(n + 1) : H[s] = SumStep(f, G, s)
    OBVIOUS
  <2>5. H = [s \in Small(n + 1) |-> H[s]]
    OBVIOUS
  <2>6. \A s \in Small(n) : s \in Small(n + 1)
    BY <1>0, <2>0
  <2> HIDE DEF H, Small
  <2>7. \A s \in Small(n) : H[s] = G[s]
    BY <2>3, <2>4, <2>6
  <2>8. \A s \in Small(n + 1) : SumStep(f, G, s) = SumStep(f, H, s)
    BY <2>2, <2>7 DEF SumStep
  <2>9. Part(n + 1, H)
    BY <2>4, <2>5, <2>8
  <2> QED
    BY <2>0, <2>9 DEF M
<1> HIDE DEF M
<1>3. M = Nat
  BY <1>1, <1>2, NatSets DEF M
<1>4. Cardinality(S) + 1 \in Nat
  BY FS_CardinalityType
<1>5. Small(Cardinality(S) + 1) = SUBSET S
  <2> SUFFICES ASSUME NEW s \in SUBSET S PROVE Cardinality(s) < Cardinality(S) + 1
    OBVIOUS
  <2>1. Cardinality(s) <= Cardinality(S)
    BY FS_Subset
  <2> QED
    BY <1>0, <1>4, <2>1, FS_CardinalityType
<1> HIDE DEF Small
<1>6. PICK G : Part(Cardinality(S) + 1, G)
  BY <1>3, <1>4 DEF M
<1> QED
  BY <1>5, <1>6 DEF Sums

LEMMA TotalIsSum ==
  ASSUME NEW f, NEW S, S = DOMAIN f, IsFiniteSet(S)
  PROVE  \E G : Sums(f, S, G) /\ Total(f) = G[S]
<1>1. PICK G : G = CHOOSE H : Sums(f, S, H)
  OBVIOUS
<1>2. Sums(f, S, G)
  BY <1>1, SumsExist
<1>3. Total(f) = G[S]
  BY <1>1 DEF Total, MapThenSumSet, MapThenFoldSet, Sums, SumStep, First
<1> QED
  BY <1>2, <1>3

\* Any value may be added last.
LEMMA SumsAnyOrder ==
  ASSUME NEW f, NEW S, IsFiniteSet(S), f \in [S -> Nat], NEW G, Sums(f, S, G)
  PROVE  /\ G[{}] = 0
         /\ \A s \in SUBSET S : G[s] \in Nat
         /\ \A s \in SUBSET S : \A x \in s : G[s] = f[x] + G[s \ {x}]
<1>0. \A s \in SUBSET S : IsFiniteSet(s) /\ Cardinality(s) \in Nat
  BY FS_Subset, FS_CardinalityType
<1>1. \A s \in SUBSET S : G[s] = SumStep(f, G, s)
  BY DEF Sums
<1> DEFINE Good(s) == G[s] \in Nat /\ \A x \in s : G[s] = f[x] + G[s \ {x}]
           M == {n \in Nat : \A s \in SUBSET S : Cardinality(s) <= n => Good(s)}
<1>2. Good({})
  BY <1>1 DEF SumStep
<1>3. 0 \in M
  BY <1>0, <1>2, FS_EmptySet
<1>4. ASSUME NEW n \in M PROVE n + 1 \in M
  <2> HIDE DEF Good
  <2> SUFFICES ASSUME NEW s \in SUBSET S, Cardinality(s) <= n + 1, s # {} PROVE Good(s)
    BY <1>2
  <2>1. \A x \in s : s \ {x} \in SUBSET S /\ Cardinality(s \ {x}) <= n
    BY <1>0, FS_RemoveElement
  <2>2. \A x \in s : Good(s \ {x})
    BY <2>1
  <2>3. PICK c \in s : c = First(s)
    BY FirstIn
  <2>4. G[s] = f[c] + G[s \ {c}]
    BY <1>1, <2>3 DEF SumStep
  <2>5. \A x \in s : G[s \ {x}] \in Nat /\ f[x] \in Nat
    BY <2>2 DEF Good
  <2>6. ASSUME NEW x \in s, x # c PROVE G[s] = f[x] + G[s \ {x}]
    <3>1. G[s \ {c}] = f[x] + G[(s \ {c}) \ {x}]
      BY <2>2, <2>6 DEF Good
    <3>2. G[s \ {x}] = f[c] + G[(s \ {x}) \ {c}]
      BY <2>2, <2>6 DEF Good
    <3>3. (s \ {c}) \ {x} = (s \ {x}) \ {c}
      OBVIOUS
    <3>4. (s \ {x}) \ {c} \in SUBSET S
      OBVIOUS
    <3>5. Cardinality((s \ {x}) \ {c}) <= n
      <4>1. (s \ {x}) \ {c} \subseteq s \ {x} /\ s \ {x} \in SUBSET S
        OBVIOUS
      <4>2. Cardinality((s \ {x}) \ {c}) <= Cardinality(s \ {x})
        BY <1>0, <4>1, FS_Subset
      <4> QED
        BY <1>0, <2>1, <3>4, <4>1, <4>2
    <3>6. G[(s \ {x}) \ {c}] \in Nat
      BY <3>4, <3>5 DEF Good
    <3> DEFINE a == G[s]  b == G[s \ {c}]  d == G[s \ {x}]  e == G[(s \ {x}) \ {c}]  u == f[x]  v == f[c]
    <3>7. a = v + b /\ b = u + e /\ d = v + e /\ b \in Nat /\ d \in Nat /\ e \in Nat /\ u \in Nat /\ v \in Nat
      BY <2>4, <2>5, <2>6, <3>1, <3>2, <3>3, <3>6
    <3> HIDE DEF a, b, d, e, u, v
    <3>8. a = u + d
      BY <3>7
    <3> QED
      BY <3>8 DEF a, u, d
  <2>7. G[s] \in Nat
    BY <2>3, <2>4, <2>5
  <2>8. \A x \in s : G[s] = f[x] + G[s \ {x}]
    BY <2>4, <2>6
  <2> QED
    BY <2>7, <2>8 DEF Good
<1> HIDE DEF M, Good
<1>5. M = Nat
  BY <1>3, <1>4, NatSets DEF M
<1>6. \A s \in SUBSET S : Good(s)
  <2> SUFFICES ASSUME NEW s \in SUBSET S PROVE Good(s)
    OBVIOUS
  <2>1. Cardinality(s) \in M /\ Cardinality(s) <= Cardinality(s)
    BY <1>0, <1>5
  <2> QED
    BY <2>1 DEF M
<1> QED
  BY <1>1, <1>6 DEF SumStep, Good

\* The sum of f over part of its domain.
SumOf(f, T) == Total([i \in T |-> f[i]])

LEMMA SumOfIsSum ==
  ASSUME NEW f, NEW S, IsFiniteSet(S), f \in [S -> Nat], NEW G, Sums(f, S, G), NEW T \in SUBSET S
  PROVE  SumOf(f, T) = G[T]
<1> DEFINE g == [i \in T |-> f[i]]
<1>0. IsFiniteSet(T) /\ T = DOMAIN g /\ g \in [T -> Nat]
  BY FS_Subset
<1>1. PICK H : Sums(g, T, H) /\ Total(g) = H[T]
  BY <1>0, TotalIsSum
<1>2. H[{}] = 0 /\ \A s \in SUBSET T : \A x \in s : H[s] = g[x] + H[s \ {x}]
  BY <1>0, <1>1, SumsAnyOrder
<1>3. G[{}] = 0 /\ \A s \in SUBSET S : \A x \in s : G[s] = f[x] + G[s \ {x}]
  BY SumsAnyOrder
<1> DEFINE F == {s \in SUBSET T : H[s] = G[s]}
<1>4. {} \in F
  BY <1>2, <1>3
<1>5. ASSUME NEW A \in F, NEW x \in T \ A PROVE A \cup {x} \in F
  <2>1. A \cup {x} \in SUBSET T /\ A \cup {x} \in SUBSET S /\ (A \cup {x}) \ {x} = A
    OBVIOUS
  <2>2. H[A \cup {x}] = g[x] + H[A]
    BY <1>2, <2>1
  <2>3. G[A \cup {x}] = f[x] + G[A]
    BY <1>3, <2>1
  <2>4. g[x] = f[x] /\ H[A] = G[A]
    OBVIOUS
  <2> QED
    BY <2>1, <2>2, <2>3, <2>4
<1> HIDE DEF F
<1>6. T \in F
  BY <1>0, <1>4, <1>5, FiniteSubsets DEF F
<1> QED
  BY <1>1, <1>6 DEF F, SumOf

\* What the sums of natural numbers are, whatever order they are added up in.
LEMMA SumFacts ==
  ASSUME NEW f, NEW S, IsFiniteSet(S), f \in [S -> Nat]
  PROVE  /\ SumOf(f, {}) = 0
         /\ Total(f) = SumOf(f, S)
         /\ \A T \in SUBSET S : SumOf(f, T) \in Nat
         /\ \A T \in SUBSET S : \A x \in S \ T : SumOf(f, T \cup {x}) = f[x] + SumOf(f, T)
<1>1. PICK G : Sums(f, S, G)
  BY SumsExist
<1>2. \A T \in SUBSET S : SumOf(f, T) = G[T]
  BY <1>1, SumOfIsSum
<1>3. /\ G[{}] = 0
      /\ \A s \in SUBSET S : G[s] \in Nat
      /\ \A s \in SUBSET S : \A x \in s : G[s] = f[x] + G[s \ {x}]
  BY <1>1, SumsAnyOrder
<1>4. f = [i \in S |-> f[i]]
  OBVIOUS
<1>5. ASSUME NEW T \in SUBSET S, NEW x \in S \ T PROVE G[T \cup {x}] = f[x] + G[T]
  <2>1. T \cup {x} \in SUBSET S /\ (T \cup {x}) \ {x} = T
    OBVIOUS
  <2> QED
    BY <1>3, <2>1
<1>6. \A T \in SUBSET S : \A x \in S \ T : T \cup {x} \in SUBSET S
  OBVIOUS
<1>7. Total(f) = SumOf(f, S)
  BY <1>4 DEF SumOf
<1> QED
  BY <1>2, <1>3, <1>5, <1>6, <1>7

LEMMA SumPlus ==
  ASSUME NEW f, NEW g, NEW h, NEW S, IsFiniteSet(S), f \in [S -> Nat], g \in [S -> Nat],
         h \in [S -> Nat], \A i \in S : h[i] = f[i] + g[i]
  PROVE  Total(h) = Total(f) + Total(g)
<1> DEFINE F == {T \in SUBSET S : SumOf(h, T) = SumOf(f, T) + SumOf(g, T)}
<1>1. {} \in F
  BY SumFacts
<1>2. ASSUME NEW T \in F, NEW x \in S \ T PROVE T \cup {x} \in F
  <2> DEFINE a == SumOf(f, T)  b == SumOf(g, T)  c == SumOf(h, T)
             a1 == SumOf(f, T \cup {x})  b1 == SumOf(g, T \cup {x})  c1 == SumOf(h, T \cup {x})
  <2>0. T \in SUBSET S /\ T \cup {x} \in SUBSET S
    OBVIOUS
  <2>1. a \in Nat /\ a1 = f[x] + a
    BY <2>0, SumFacts
  <2>2. b \in Nat /\ b1 = g[x] + b
    BY <2>0, SumFacts
  <2>3. c \in Nat /\ c1 = h[x] + c /\ c = a + b
    BY <2>0, SumFacts
  <2>4. f[x] \in Nat /\ g[x] \in Nat /\ h[x] = f[x] + g[x]
    OBVIOUS
  <2> HIDE DEF a, b, c, a1, b1, c1
  <2>5. c1 = a1 + b1
    BY <2>1, <2>2, <2>3, <2>4
  <2> QED
    BY <2>0, <2>5 DEF a1, b1, c1
<1> HIDE DEF F
<1>3. S \in F
  BY <1>1, <1>2, FiniteSubsets DEF F
<1> QED
  BY <1>3, SumFacts DEF F

LEMMA SumSplits ==
  ASSUME NEW f, NEW S, IsFiniteSet(S), f \in [S -> Nat], NEW A \in SUBSET S
  PROVE  Total(f) = SumOf(f, A) + SumOf(f, S \ A)
<1> DEFINE F == {T \in SUBSET S : SumOf(f, T) = SumOf(f, T \cap A) + SumOf(f, T \ A)}
<1>0. \A T \in SUBSET S : T \cap A \in SUBSET S /\ T \ A \in SUBSET S
  OBVIOUS
<1>a. \A T \in SUBSET S : \A x \in S \ T : SumOf(f, T \cup {x}) = f[x] + SumOf(f, T)
  BY SumFacts
<1>1. {} \in F
  <2>1. {} \cap A = {} /\ {} \ A = {}
    OBVIOUS
  <2> QED
    BY <2>1, SumFacts
<1>2. ASSUME NEW T \in F, NEW x \in S \ T PROVE T \cup {x} \in F
  <2> DEFINE a == SumOf(f, T \cap A)  b == SumOf(f, T \ A)  c == SumOf(f, T)
             a1 == SumOf(f, (T \cup {x}) \cap A)  b1 == SumOf(f, (T \cup {x}) \ A)  c1 == SumOf(f, T \cup {x})
  <2>0. T \in SUBSET S /\ T \cup {x} \in SUBSET S /\ x \notin T \cap A /\ x \notin T \ A
    OBVIOUS
  <2>1. c \in Nat /\ c1 = f[x] + c /\ c = a + b /\ a \in Nat /\ b \in Nat
    BY <1>0, <2>0, SumFacts
  <2>2. f[x] \in Nat
    OBVIOUS
  <2>3. CASE x \in A
    <3>1. (T \cup {x}) \cap A = (T \cap A) \cup {x} /\ (T \cup {x}) \ A = T \ A
      BY <2>3
    <3>2. a1 = f[x] + a /\ b1 = b
      <4>1. T \cap A \in SUBSET S /\ x \in S \ (T \cap A)
        BY <2>0
      <4>2. SumOf(f, (T \cap A) \cup {x}) = f[x] + SumOf(f, T \cap A)
        BY <1>a, <4>1
      <4> QED
        BY <3>1, <4>2
    <3> HIDE DEF a, b, c, a1, b1, c1
    <3>3. c1 = a1 + b1
      BY <2>1, <2>2, <3>2
    <3> QED
      BY <2>0, <3>3 DEF a1, b1, c1
  <2>4. CASE x \notin A
    <3>1. (T \cup {x}) \cap A = T \cap A /\ (T \cup {x}) \ A = (T \ A) \cup {x}
      BY <2>4
    <3>2. b1 = f[x] + b /\ a1 = a
      <4>1. T \ A \in SUBSET S /\ x \in S \ (T \ A)
        BY <2>0
      <4>2. SumOf(f, (T \ A) \cup {x}) = f[x] + SumOf(f, T \ A)
        BY <1>a, <4>1
      <4> QED
        BY <3>1, <4>2
    <3> HIDE DEF a, b, c, a1, b1, c1
    <3>3. c1 = a1 + b1
      BY <2>1, <2>2, <3>2
    <3> QED
      BY <2>0, <3>3 DEF a1, b1, c1
  <2> QED
    BY <2>3, <2>4
<1> HIDE DEF F
<1>3. S \in F
  BY <1>1, <1>2, FiniteSubsets DEF F
<1>4. S \cap A = A
  OBVIOUS
<1> QED
  BY <1>3, <1>4, SumFacts DEF F

\* Multiplication by a constant.
LEMMA Distributes == \A a, b, c \in Nat : a * (b + c) = a * b + a * c
OBVIOUS

LEMMA SumTimes ==
  ASSUME NEW f, NEW h, NEW S, IsFiniteSet(S), f \in [S -> Nat], NEW c \in Nat,
         h \in [S -> Nat], \A i \in S : h[i] = c * f[i]
  PROVE  Total(h) = c * Total(f)
<1> DEFINE F == {T \in SUBSET S : SumOf(h, T) = c * SumOf(f, T)}
<1>1. {} \in F
  <2>1. SumOf(f, {}) = 0 /\ SumOf(h, {}) = 0
    BY SumFacts
  <2>2. c * 0 = 0
    OBVIOUS
  <2> QED
    BY <2>1, <2>2
<1>a. \A T \in SUBSET S : \A x \in S \ T : SumOf(h, T \cup {x}) = h[x] + SumOf(h, T)
  BY SumFacts
<1>b. \A T \in SUBSET S : SumOf(h, T) \in Nat
  BY SumFacts
<1>c. \A T \in SUBSET S : \A x \in S \ T : SumOf(f, T \cup {x}) = f[x] + SumOf(f, T)
  BY SumFacts
<1>d. \A T \in SUBSET S : SumOf(f, T) \in Nat
  BY SumFacts
<1>2. ASSUME NEW T \in F, NEW x \in S \ T PROVE T \cup {x} \in F
  <2> DEFINE a == SumOf(f, T)  a1 == SumOf(f, T \cup {x})  b == SumOf(h, T)  b1 == SumOf(h, T \cup {x})
  <2>0. T \in SUBSET S /\ T \cup {x} \in SUBSET S
    OBVIOUS
  <2>1. a \in Nat /\ a1 = f[x] + a
    BY <1>c, <1>d, <2>0
  <2>2. b \in Nat /\ b1 = h[x] + b /\ b = c * a
    BY <1>a, <1>b, <2>0
  <2>3. f[x] \in Nat /\ h[x] = c * f[x]
    OBVIOUS
  <2> HIDE DEF a, b, a1, b1
  <2>4. b1 = c * a1
    BY <2>1, <2>2, <2>3, Distributes
  <2> QED
    BY <2>0, <2>4 DEF a1, b1
<1> HIDE DEF F
<1>3. S \in F
  BY <1>1, <1>2, FiniteSubsets DEF F
<1> QED
  BY <1>3, SumFacts DEF F

\* Smaller values have no larger a sum; and a smaller one if one of them is smaller.
LEMMA SumAtMost ==
  ASSUME NEW f, NEW g, NEW S, IsFiniteSet(S), f \in [S -> Nat], g \in [S -> Nat],
         \A i \in S : f[i] <= g[i]
  PROVE  /\ Total(f) <= Total(g)
         /\ (\E i \in S : f[i] < g[i]) => Total(f) < Total(g)
<1> DEFINE more == [i \in S |-> g[i] - f[i]]
<1>1. more \in [S -> Nat]
  OBVIOUS
<1>2. Total(g) = Total(f) + Total(more)
  <2>1. \A i \in S : g[i] = f[i] + more[i]
    OBVIOUS
  <2> HIDE DEF more
  <2> QED
    BY <1>1, <2>1, SumPlus
<1> HIDE DEF more
<1>3. Total(f) \in Nat /\ Total(g) \in Nat /\ Total(more) \in Nat
  BY <1>1, SumFacts
<1>4. ASSUME NEW i \in S, f[i] < g[i] PROVE Total(more) > 0
  <2>0. \A T \in SUBSET S : \A x \in S \ T : SumOf(more, T \cup {x}) = more[x] + SumOf(more, T)
    BY <1>1, SumFacts
  <2>1. SumOf(more, (S \ {i}) \cup {i}) = more[i] + SumOf(more, S \ {i})
    <3>1. S \ {i} \in SUBSET S /\ i \in S \ (S \ {i})
      OBVIOUS
    <3> QED
      BY <2>0, <3>1
  <2>2. (S \ {i}) \cup {i} = S
    OBVIOUS
  <2>3. more[i] \in Nat /\ more[i] > 0
    BY <1>4 DEF more
  <2>4. SumOf(more, S \ {i}) \in Nat /\ Total(more) = SumOf(more, S)
    BY <1>1, SumFacts
  <2> QED
    BY <2>1, <2>2, <2>3, <2>4
<1> QED
  BY <1>2, <1>3, <1>4

\* One for each of a set.
LEMMA SumOnes ==
  ASSUME NEW S, IsFiniteSet(S), NEW A \in SUBSET S
  PROVE  Total([i \in S |-> IF i \in A THEN 1 ELSE 0]) = Cardinality(A)
<1> DEFINE f == [i \in S |-> IF i \in A THEN 1 ELSE 0]
           F == {T \in SUBSET S : SumOf(f, T) = Cardinality(T \cap A)}
<1>0. f \in [S -> Nat]
  OBVIOUS
<1>1. {} \in F
  <2>1. {} \cap A = {}
    OBVIOUS
  <2> HIDE DEF f
  <2> QED
    BY <1>0, <2>1, SumFacts, FS_EmptySet
<1>2. ASSUME NEW T \in F, NEW x \in S \ T PROVE T \cup {x} \in F
  <2>0. T \in SUBSET S /\ T \cup {x} \in SUBSET S /\ IsFiniteSet(T \cap A)
    BY FS_Subset
  <2>1. SumOf(f, T \cup {x}) = f[x] + Cardinality(T \cap A)
    <3> HIDE DEF f
    <3> QED
      BY <1>0, <2>0, SumFacts
  <2>2. Cardinality(T \cap A) \in Nat
    BY <2>0, FS_CardinalityType
  <2>3. CASE x \in A
    <3>1. (T \cup {x}) \cap A = (T \cap A) \cup {x} /\ x \notin T \cap A
      BY <2>3
    <3>2. Cardinality((T \cup {x}) \cap A) = Cardinality(T \cap A) + 1
      BY <2>0, <3>1, FS_AddElement
    <3>3. f[x] = 1
      BY <2>3
    <3> HIDE DEF f
    <3> QED
      BY <2>0, <2>1, <2>2, <3>2, <3>3
  <2>4. CASE x \notin A
    <3>1. (T \cup {x}) \cap A = T \cap A
      BY <2>4
    <3>2. f[x] = 0
      BY <2>4
    <3>3. T \cup {x} \in SUBSET S
      BY <2>0
    <3> HIDE DEF f
    <3>4. SumOf(f, T \cup {x}) = Cardinality((T \cup {x}) \cap A)
      BY <2>1, <2>2, <3>1, <3>2
    <3> QED
      BY <3>3, <3>4
  <2> QED
    BY <2>3, <2>4
<1> HIDE DEF F
<1>3. S \in F
  BY <1>1, <1>2, FiniteSubsets DEF F
<1>4. S \cap A = A
  OBVIOUS
<1> HIDE DEF f
<1>5. Total(f) = Cardinality(A)
  BY <1>0, <1>3, <1>4, SumFacts DEF F
<1> QED
  BY <1>5 DEF f

LEMMA SumOfNothing ==
  ASSUME NEW S, IsFiniteSet(S) PROVE Total([i \in S |-> 0]) = 0
<1>1. [i \in S |-> 0] = [i \in S |-> IF i \in {} THEN 1 ELSE 0]
  OBVIOUS
<1> QED
  BY <1>1, SumOnes, FS_EmptySet

\* The amounts of all names together.
LEMMA SumByName ==
  ASSUME NEW Keys, IsFiniteSet(Keys), NEW D, IsFiniteSet(D), NEW names \in [D -> Keys],
         NEW amounts \in [D -> Nat]
  PROVE  /\ ByName(names, amounts, Keys) \in [Keys -> Nat]
         /\ Total(ByName(names, amounts, Keys)) = Total(amounts)
<1> DEFINE Of(A) == {i \in D : names[i] \in A}
           by == ByName(names, amounts, Keys)
           F == {A \in SUBSET Keys : SumOf(by, A) = SumOf(amounts, Of(A))}
<1>0. /\ by \in [Keys -> Nat]
      /\ \A n \in Keys : by[n] = SumOf(amounts, Named(names, n)) /\ Named(names, n) \in SUBSET D
  <2>1. \A n \in Keys : Named(names, n) \in SUBSET D
    BY DEF Named
  <2>2. \A n \in Keys : SumOf(amounts, Named(names, n)) \in Nat
    BY <2>1, SumFacts
  <2>3. \A n \in Keys : by[n] = SumOf(amounts, Named(names, n))
    BY DEF ByName, SumOf
  <2>4. by = [n \in Keys |-> by[n]]
    BY DEF ByName
  <2> HIDE DEF by
  <2> QED
    BY <2>1, <2>2, <2>3, <2>4
<1> HIDE DEF by
<1>1. {} \in F
  <2>1. Of({}) = {}
    OBVIOUS
  <2> QED
    BY <1>0, <2>1, SumFacts
<1>2. ASSUME NEW A \in F, NEW n \in Keys \ A PROVE A \cup {n} \in F
  <2> DEFINE E == Of(A \cup {n})
             g == [i \in E |-> amounts[i]]
  <2>0. A \in SUBSET Keys /\ A \cup {n} \in SUBSET Keys /\ E \in SUBSET D /\ Of(A) \in SUBSET E /\ IsFiniteSet(E)
    BY FS_Subset
  <2>1. E \ Of(A) = Named(names, n)
    BY DEF Named
  <2>2. g \in [E -> Nat]
    OBVIOUS
  <2>3. Total(g) = SumOf(g, Of(A)) + SumOf(g, E \ Of(A))
    <3> HIDE DEF g, E, Of
    <3> QED
      BY <2>0, <2>2, SumSplits
  <2>4. Total(g) = SumOf(amounts, E)
    BY DEF SumOf
  <2>5. SumOf(g, Of(A)) = SumOf(amounts, Of(A)) /\ SumOf(g, Named(names, n)) = SumOf(amounts, Named(names, n))
    <3>1. [i \in Of(A) |-> g[i]] = [i \in Of(A) |-> amounts[i]]
      BY <2>0
    <3>2. [i \in Named(names, n) |-> g[i]] = [i \in Named(names, n) |-> amounts[i]]
      BY <2>1
    <3> QED
      BY <3>1, <3>2 DEF SumOf
  <2>6. SumOf(by, A \cup {n}) = by[n] + SumOf(by, A) /\ SumOf(by, A) \in Nat /\ by[n] \in Nat
    BY <1>0, <2>0, SumFacts
  <2>7. SumOf(by, A) = SumOf(amounts, Of(A)) /\ by[n] = SumOf(amounts, Named(names, n))
    BY <1>0
  <2>8. SumOf(by, A \cup {n}) = SumOf(amounts, E)
    <3> HIDE DEF g, E, Of
    <3>1. SumOf(amounts, E) = SumOf(amounts, Of(A)) + SumOf(amounts, Named(names, n))
      BY <2>1, <2>3, <2>4, <2>5
    <3>2. SumOf(by, A \cup {n}) = SumOf(amounts, Named(names, n)) + SumOf(amounts, Of(A))
      BY <2>6, <2>7
    <3>3. SumOf(amounts, Named(names, n)) \in Nat /\ SumOf(amounts, Of(A)) \in Nat
      BY <2>6, <2>7
    <3> QED
      BY <3>1, <3>2, <3>3
  <2> QED
    BY <2>0, <2>8
<1>3. Of(Keys) = D
  OBVIOUS
<1> HIDE DEF F, Of
<1>4. Keys \in F
  BY <1>1, <1>2, FiniteSubsets DEF F
<1>5. SumOf(by, Keys) = SumOf(amounts, D)
  BY <1>3, <1>4 DEF F
<1> QED
  BY <1>0, <1>5, SumFacts DEF by

-----------------------------------------------------------------------------
(* Apportionment. *)

LEMMA Quotient ==
  ASSUME NEW a \in Nat, NEW n \in Nat \ {0}
  PROVE  a \div n \in Nat /\ a % n \in 0 .. n - 1 /\ a = n * (a \div n) + (a % n)
<1>1. a % n \in 0 .. n - 1
  OBVIOUS
<1>2. a \div n \in Int
  OBVIOUS
<1>3. a = n * (a \div n) + (a % n)
  OBVIOUS
<1>4. a \div n \in Nat
  OBVIOUS
<1> QED
  BY <1>1, <1>3, <1>4

\* A positive factor keeps the order.
LEMMA FactorKeepsOrder ==
  ASSUME NEW c \in Nat \ {0}, NEW x \in Int, NEW y \in Int
  PROVE  (x < y <=> c * x < c * y) /\ (x <= y <=> c * x <= c * y)
<1>1. ASSUME NEW a \in Int, NEW b \in Int, a < b PROVE c * a < c * b
  <2>1. PICK e \in Nat : b = a + 1 + e
    <3>1. b - (a + 1) \in Nat /\ b = a + 1 + (b - (a + 1))
      BY <1>1
    <3> QED
      BY <3>1
  <2>2. c * b = c * a + c + c * e /\ c * e \in Nat /\ c * a \in Int
    BY <2>1
  <2> QED
    BY <2>2
<1>2. c * x \in Int /\ c * y \in Int
  OBVIOUS
<1>3. x < y => c * x < c * y
  BY <1>1
<1>4. y < x => c * y < c * x
  BY <1>1
<1>5. x = y => c * x = c * y
  OBVIOUS
<1> QED
  BY <1>2, <1>3, <1>4, <1>5

\* The default names get the units that are split among them.
LEMMA EvenlyAll ==
  ASSUME NEW units \in Nat, NEW n \in Nat \ {0}
  PROVE  Evenly(units, n) \in [1 .. n -> Nat] /\ Total(Evenly(units, n)) = units
<1> DEFINE q == units \div n  r == units % n
           D == 1 .. n
           each == [i \in D |-> IF i \in D THEN 1 ELSE 0]
           f == [i \in D |-> q]
           g == [i \in D |-> IF i \in 1 .. r THEN 1 ELSE 0]
<1>1. q \in Nat /\ r \in 0 .. n - 1 /\ units = n * q + r
  BY Quotient
<1>2. IsFiniteSet(D) /\ Cardinality(D) = n /\ Cardinality(1 .. r) = r
  BY <1>1, FS_Interval
<1> HIDE DEF q, r
<1>3. Total(each) = n
  BY <1>2, SumOnes
<1>4. Total(f) = q * n
  <2>1. f \in [D -> Nat] /\ each \in [D -> Nat] /\ \A i \in D : f[i] = q * each[i]
    BY <1>1
  <2>2. q \in Nat /\ IsFiniteSet(D)
    BY <1>1, <1>2
  <2> HIDE DEF f, each, D
  <2>3. Total(f) = q * Total(each)
    BY <2>1, <2>2, SumTimes
  <2> QED
    BY <1>3, <2>3
<1>5. Total(g) = r
  <2>1. 1 .. r \in SUBSET D
    BY <1>1
  <2> QED
    BY <1>2, <2>1, SumOnes
<1> DEFINE h == Evenly(units, n)
<1>6. h \in [D -> Nat] /\ \A i \in D : h[i] = f[i] + g[i]
  BY <1>1 DEF Evenly, q, r
<1>7. f \in [D -> Nat] /\ g \in [D -> Nat]
  BY <1>1
<1>8. Total(h) = Total(f) + Total(g)
  <2> HIDE DEF f, g, h, D
  <2> QED
    BY <1>2, <1>6, <1>7, SumPlus
<1>9. n * q = q * n
  BY <1>1
<1> QED
  BY <1>1, <1>4, <1>5, <1>6, <1>8, <1>9

\* Those that go before i.
AheadOf(rest, i) == {j \in DOMAIN rest : rest[j] > rest[i] \/ (rest[j] = rest[i] /\ j < i)}
Place(rest, i) == Cardinality(AheadOf(rest, i))

LEMMA PlaceOrder ==
  ASSUME NEW D \in SUBSET Nat, IsFiniteSet(D), NEW rest \in [D -> Nat], NEW i \in D
  PROVE  /\ Place(rest, i) \in Nat /\ Place(rest, i) < Cardinality(D)
         /\ \A j \in AheadOf(rest, i) : Place(rest, j) < Place(rest, i)
<1>0. \A j \in D : AheadOf(rest, j) \in SUBSET (D \ {j}) /\ IsFiniteSet(AheadOf(rest, j)) /\ Place(rest, j) \in Nat
  <2> SUFFICES ASSUME NEW j \in D
               PROVE  AheadOf(rest, j) \in SUBSET (D \ {j}) /\ IsFiniteSet(AheadOf(rest, j)) /\ Place(rest, j) \in Nat
    OBVIOUS
  <2>1. AheadOf(rest, j) \in SUBSET (D \ {j}) /\ AheadOf(rest, j) \in SUBSET D
    BY DEF AheadOf
  <2>2. IsFiniteSet(AheadOf(rest, j))
    BY <2>1, FS_Subset
  <2> QED
    BY <2>1, <2>2, FS_CardinalityType DEF Place
<1>1. Place(rest, i) < Cardinality(D)
  <2>1. IsFiniteSet(D \ {i}) /\ Cardinality(D \ {i}) = Cardinality(D) - 1
    BY FS_RemoveElement
  <2>2. Place(rest, i) <= Cardinality(D \ {i})
    BY <1>0, <2>1, FS_Subset DEF Place
  <2> QED
    BY <1>0, <2>1, <2>2, FS_CardinalityType
<1>2. ASSUME NEW j \in AheadOf(rest, i) PROVE Place(rest, j) < Place(rest, i)
  <2>1. j \in D /\ j \notin AheadOf(rest, j)
    BY DEF AheadOf
  <2>2. AheadOf(rest, j) \cup {j} \in SUBSET AheadOf(rest, i)
    <3>1. rest[i] \in Nat /\ rest[j] \in Nat /\ i \in Nat /\ j \in Nat
      BY <2>1
    <3>2. j \in AheadOf(rest, i) /\ (rest[j] > rest[i] \/ (rest[j] = rest[i] /\ j < i))
      BY DEF AheadOf
    <3>3. ASSUME NEW k \in AheadOf(rest, j) PROVE k \in AheadOf(rest, i)
      <4>1. k \in D /\ (rest[k] > rest[j] \/ (rest[k] = rest[j] /\ k < j))
        BY <3>3 DEF AheadOf
      <4>2. rest[k] \in Nat /\ k \in Nat
        BY <4>1
      <4>3. rest[k] > rest[i] \/ (rest[k] = rest[i] /\ k < i)
        BY <3>1, <3>2, <4>1, <4>2
      <4> QED
        BY <4>1, <4>3 DEF AheadOf
    <3> QED
      BY <3>2, <3>3
  <2>3. Cardinality(AheadOf(rest, j) \cup {j}) = Place(rest, j) + 1
    BY <1>0, <2>1, FS_AddElement DEF Place
  <2>4. Cardinality(AheadOf(rest, j) \cup {j}) <= Place(rest, i)
    BY <1>0, <2>2, FS_Subset DEF Place
  <2> QED
    BY <1>0, <2>1, <2>3, <2>4
<1> QED
  BY <1>0, <1>1, <1>2

\* As many have one of the first k places.
LEMMA FirstPlaces ==
  ASSUME NEW D \in SUBSET Nat, IsFiniteSet(D), NEW rest \in [D -> Nat], NEW k \in 0 .. Cardinality(D)
  PROVE  Cardinality({i \in D : Place(rest, i) < k}) = k
<1> DEFINE n == Cardinality(D)
           place == [i \in D |-> Place(rest, i)]
           A == {i \in D : Place(rest, i) < k}
<1>0. n \in Nat
  BY FS_CardinalityType
<1>1. place \in [D -> 0 .. n - 1]
  BY <1>0, PlaceOrder
<1>2. \A i, j \in D : place[i] = place[j] => i = j
  <2> SUFFICES ASSUME NEW i \in D, NEW j \in D, i # j PROVE Place(rest, i) # Place(rest, j)
    OBVIOUS
  <2>1. j \in AheadOf(rest, i) \/ i \in AheadOf(rest, j)
    <3>1. rest[i] \in Nat /\ rest[j] \in Nat /\ i \in Nat /\ j \in Nat
      OBVIOUS
    <3> QED
      BY <3>1 DEF AheadOf
  <2>2. Place(rest, i) \in Nat /\ Place(rest, j) \in Nat
    BY PlaceOrder
  <2> QED
    BY <2>1, <2>2, PlaceOrder
<1>3. IsFiniteSet(0 .. n - 1) /\ Cardinality(0 .. n - 1) = n
  <2>1. 0 \in Int /\ n - 1 \in Int
    BY <1>0
  <2>2. IsFiniteSet(0 .. n - 1) /\ Cardinality(0 .. n - 1) = IF 0 > n - 1 THEN 0 ELSE (n - 1) - 0 + 1
    BY <2>1, FS_Interval
  <2> QED
    BY <1>0, <2>2
<1> HIDE DEF place
<1>4. place \in Injection(D, 0 .. n - 1)
  BY <1>1, <1>2 DEF Injection, IsInjective
<1>5. place \in Surjection(D, 0 .. n - 1)
  BY <1>3, <1>4, FS_Injection
<1>6. \A m \in 0 .. n - 1 : \E i \in D : place[i] = m
  BY <1>5 DEF Surjection
<1> DEFINE h == [i \in A |-> place[i]]
<1>7. \A i \in D : place[i] = Place(rest, i) /\ place[i] \in Nat
  BY <1>1, <1>0 DEF place
<1>8. h \in Bijection(A, 0 .. k - 1)
  <2>1. h \in [A -> 0 .. k - 1]
    <3>1. \A i \in A : place[i] \in 0 .. k - 1
      BY <1>7
    <3> QED
      BY <3>1
  <2>2. h \in Injection(A, 0 .. k - 1)
    BY <1>2, <2>1 DEF Injection, IsInjective
  <2>3. \A m \in 0 .. k - 1 : \E i \in A : h[i] = m
    <3> SUFFICES ASSUME NEW m \in 0 .. k - 1 PROVE \E i \in A : h[i] = m
      OBVIOUS
    <3>1. PICK i \in D : place[i] = m
      BY <1>0, <1>6
    <3>2. i \in A
      BY <1>7, <3>1
    <3> QED
      BY <3>1, <3>2
  <2> QED
    BY <2>1, <2>2, <2>3 DEF Bijection, Surjection
<1>9. IsFiniteSet(A)
  BY FS_Subset
<1>10. Cardinality(A) = Cardinality(0 .. k - 1)
  BY <1>8, <1>9, FS_Bijection DEF ExistsBijection
<1> QED
  BY <1>10, FS_Interval

\* The parts of Apportion.
Floors(shares, units) == [i \in DOMAIN shares |-> (shares[i] * units) \div Total(shares)]
Rests(shares, units) == [i \in DOMAIN shares |-> (shares[i] * units) % Total(shares)]
LeftOver(shares, units) == units - Total(Floors(shares, units))

SomeShares(shares, D) ==
  D \in SUBSET Nat /\ IsFiniteSet(D) /\ shares \in [D -> Nat] /\ Total(shares) > 0

LEMMA ApportionIs ==
  ASSUME NEW shares, NEW units
  PROVE  Apportion(shares, units) =
           [i \in DOMAIN shares |-> Floors(shares, units)[i] +
              (IF Place(Rests(shares, units), i) < LeftOver(shares, units) THEN 1 ELSE 0)]
<1>1. DOMAIN Rests(shares, units) = DOMAIN shares
  BY DEF Rests
<1> QED
  BY <1>1 DEF Apportion, Floors, Rests, LeftOver, Place, AheadOf

LEMMA FloorsAndRests ==
  ASSUME NEW shares, NEW D, SomeShares(shares, D), NEW units \in Nat
  PROVE  /\ Total(shares) \in Nat \ {0}
         /\ Floors(shares, units) \in [D -> Nat]
         /\ Rests(shares, units) \in [D -> Nat]
         /\ \A i \in D : /\ Rests(shares, units)[i] < Total(shares)
                         /\ shares[i] * units = Total(shares) * Floors(shares, units)[i] + Rests(shares, units)[i]
<1>1. Total(shares) \in Nat \ {0}
  <2>1. Total(shares) \in Nat
    BY SumFacts DEF SomeShares
  <2> QED
    BY <2>1 DEF SomeShares
<1>2. ASSUME NEW i \in D
      PROVE  /\ Floors(shares, units)[i] \in Nat /\ Rests(shares, units)[i] \in Nat
             /\ Rests(shares, units)[i] < Total(shares)
             /\ shares[i] * units = Total(shares) * Floors(shares, units)[i] + Rests(shares, units)[i]
  <2> DEFINE a == shares[i] * units  t == Total(shares)
  <2>1. a \in Nat
    BY DEF SomeShares
  <2>2. Floors(shares, units)[i] = a \div t /\ Rests(shares, units)[i] = a % t
    BY DEF SomeShares, Floors, Rests
  <2>3. t \in Nat \ {0}
    BY <1>1
  <2> HIDE DEF a, t
  <2>4. a \div t \in Nat /\ a % t \in 0 .. t - 1 /\ a = t * (a \div t) + (a % t)
    BY <2>1, <2>3, Quotient
  <2>5. Floors(shares, units)[i] \in Nat /\ Rests(shares, units)[i] \in Nat /\ Rests(shares, units)[i] < t
        /\ a = t * Floors(shares, units)[i] + Rests(shares, units)[i]
    BY <2>2, <2>3, <2>4
  <2> QED
    BY <2>5 DEF a, t
<1>3. Floors(shares, units) \in [D -> Nat] /\ Rests(shares, units) \in [D -> Nat]
  <2>1. DOMAIN shares = D
    BY DEF SomeShares
  <2>2. Floors(shares, units) = [i \in D |-> Floors(shares, units)[i]]
        /\ Rests(shares, units) = [i \in D |-> Rests(shares, units)[i]]
    BY <2>1 DEF Floors, Rests
  <2> QED
    BY <1>2, <2>2
<1> QED
  BY <1>1, <1>2, <1>3

\* The rests add up to the total for each unit that is left.
LEMMA RestsAre ==
  ASSUME NEW shares, NEW D, SomeShares(shares, D), NEW units \in Nat
  PROVE  /\ LeftOver(shares, units) \in Int
         /\ Total(shares) * LeftOver(shares, units) = Total(Rests(shares, units))
<1> DEFINE t == Total(shares)
           floors == Floors(shares, units)
           rests == Rests(shares, units)
           products == [i \in D |-> units * shares[i]]
           wholes == [i \in D |-> t * floors[i]]
<1>0. IsFiniteSet(D) /\ shares \in [D -> Nat]
  BY DEF SomeShares
<1>1. /\ t \in Nat \ {0} /\ floors \in [D -> Nat] /\ rests \in [D -> Nat]
      /\ \A i \in D : shares[i] * units = t * floors[i] + rests[i]
  BY FloorsAndRests
<1> HIDE DEF t, floors, rests
<1>2. products \in [D -> Nat] /\ wholes \in [D -> Nat]
  BY <1>0, <1>1
<1>3. \A i \in D : products[i] = units * shares[i] /\ wholes[i] = t * floors[i] /\ products[i] = wholes[i] + rests[i]
  <2> SUFFICES ASSUME NEW i \in D PROVE units * shares[i] = t * floors[i] + rests[i]
    OBVIOUS
  <2>1. units * shares[i] = shares[i] * units
    BY <1>0
  <2> QED
    BY <1>1, <2>1
<1> HIDE DEF products, wholes
<1>4. Total(products) = units * t
  BY <1>0, <1>2, <1>3, SumTimes DEF t
<1>5. Total(wholes) = t * Total(floors)
  <2>1. t \in Nat /\ \A i \in D : wholes[i] = t * floors[i]
    BY <1>1, <1>3
  <2> QED
    BY <1>0, <1>1, <1>2, <2>1, SumTimes
<1>6. Total(products) = Total(wholes) + Total(rests)
  BY <1>0, <1>1, <1>2, <1>3, SumPlus
<1> DEFINE F == Total(floors)  R == Total(rests)
<1>7. F \in Nat /\ R \in Nat
  BY <1>0, <1>1, SumFacts
<1>8. units * t = t * F + R
  BY <1>4, <1>5, <1>6
<1>9. LeftOver(shares, units) = units - F
  BY DEF LeftOver, floors
<1> HIDE DEF F, R
<1>10. t * (units - F) = units * t - t * F
  BY <1>1, <1>7
<1>11. t * (units - F) = R
  BY <1>1, <1>7, <1>8, <1>10
<1> QED
  BY <1>7, <1>9, <1>11 DEF t, R, rests

\* At most one unit is left for each share with a rest.
LEMMA LeftForRests ==
  ASSUME NEW shares, NEW D, SomeShares(shares, D), NEW units \in Nat
  PROVE  /\ LeftOver(shares, units) \in 0 .. Cardinality(D)
         /\ LeftOver(shares, units) <= Cardinality({i \in D : Rests(shares, units)[i] > 0})
<1> DEFINE t == Total(shares)
           rests == Rests(shares, units)
           left == LeftOver(shares, units)
           P == {i \in D : rests[i] > 0}
           some == [i \in D |-> IF i \in P THEN 1 ELSE 0]
           most == [i \in D |-> t * some[i]]
<1>0. IsFiniteSet(D) /\ IsFiniteSet(P) /\ P \in SUBSET D
  <2>1. IsFiniteSet(D) /\ P \in SUBSET D
    BY DEF SomeShares
  <2> QED
    BY <2>1, FS_Subset
<1>1. t \in Nat \ {0} /\ rests \in [D -> Nat] /\ \A i \in D : rests[i] < t
  BY FloorsAndRests
<1>2. left \in Int /\ t * left = Total(rests)
  BY RestsAre
<1>3. Total(some) = Cardinality(P)
  BY <1>0, SumOnes
<1> HIDE DEF t, rests, left
<1>4. some \in [D -> Nat] /\ most \in [D -> Nat] /\ (\A i \in D : most[i] = t * some[i]) /\ \A i \in D : rests[i] <= most[i]
  <2>1. \A i \in D : i \in P => t * some[i] = t
    BY <1>1
  <2>2. \A i \in D : i \notin P => t * some[i] = 0
    BY <1>1
  <2>3. \A i \in D : i \notin P => rests[i] = 0
    BY <1>1
  <2>4. \A i \in D : t * some[i] \in Nat /\ rests[i] <= t * some[i]
    <3> SUFFICES ASSUME NEW i \in D PROVE t * some[i] \in Nat /\ rests[i] <= t * some[i]
      OBVIOUS
    <3> HIDE DEF some, P
    <3>1. CASE i \in P
      BY <1>1, <2>1, <3>1
    <3>2. CASE i \notin P
      BY <1>1, <2>2, <2>3, <3>2
    <3> QED
      BY <3>1, <3>2
  <2> QED
    BY <2>4
<1> HIDE DEF some, most, P
<1>5. Total(rests) \in Nat /\ Total(rests) <= t * Cardinality(P)
  <2>1. Total(most) = t * Total(some)
    BY <1>0, <1>1, <1>4, SumTimes
  <2>2. Total(rests) <= Total(most)
    BY <1>0, <1>1, <1>4, SumAtMost
  <2> QED
    BY <1>0, <1>1, <1>3, <2>1, <2>2, SumFacts
<1>6. Cardinality(P) \in Nat /\ Cardinality(P) <= Cardinality(D) /\ Cardinality(D) \in Nat
  BY <1>0, FS_CardinalityType, FS_Subset
<1>7. left <= Cardinality(P)
  BY <1>1, <1>2, <1>5, <1>6, FactorKeepsOrder
<1>8. 0 <= left
  <2>1. t * 0 = 0 /\ t * 0 <= t * left
    BY <1>1, <1>2, <1>5
  <2> QED
    BY <1>1, <1>2, <2>1, FactorKeepsOrder
<1> QED
  BY <1>2, <1>6, <1>7, <1>8 DEF left, P, rests

\* All units are given away.
LEMMA ApportionAll ==
  ASSUME NEW shares, NEW D, SomeShares(shares, D), NEW units \in Nat
  PROVE  Apportion(shares, units) \in [D -> Nat] /\ Total(Apportion(shares, units)) = units
<1> DEFINE floors == Floors(shares, units)
           rests == Rests(shares, units)
           left == LeftOver(shares, units)
           A == {i \in D : Place(rests, i) < left}
           more == [i \in D |-> IF i \in A THEN 1 ELSE 0]
           got == Apportion(shares, units)
<1>0. D \in SUBSET Nat /\ IsFiniteSet(D) /\ DOMAIN shares = D
  BY DEF SomeShares
<1>1. floors \in [D -> Nat] /\ rests \in [D -> Nat]
  BY FloorsAndRests
<1>2. left \in 0 .. Cardinality(D)
  BY LeftForRests
<1>3. got = [i \in D |-> floors[i] + (IF Place(rests, i) < left THEN 1 ELSE 0)]
  BY <1>0, ApportionIs
<1>4. left = units - Total(floors) /\ Total(floors) \in Nat
  BY <1>0, <1>1, SumFacts DEF LeftOver
<1> HIDE DEF floors, rests, left, got
<1>5. Total(more) = left
  <2>1. Cardinality(A) = left
    BY <1>0, <1>1, <1>2, FirstPlaces
  <2>2. A \in SUBSET D
    OBVIOUS
  <2> HIDE DEF A
  <2> QED
    BY <1>0, <2>1, <2>2, SumOnes
<1>6. more \in [D -> Nat] /\ got \in [D -> Nat] /\ \A i \in D : got[i] = floors[i] + more[i]
  <2>1. \A i \in D : got[i] = floors[i] + more[i]
    BY <1>3
  <2>2. more \in [D -> Nat]
    OBVIOUS
  <2>3. got = [i \in D |-> got[i]]
    BY <1>3
  <2> HIDE DEF more
  <2>4. \A i \in D : floors[i] + more[i] \in Nat
    BY <1>1, <2>2
  <2> QED
    BY <2>1, <2>2, <2>3, <2>4
<1> HIDE DEF more
<1>7. Total(got) = Total(floors) + Total(more)
  BY <1>0, <1>1, <1>6, SumPlus
<1>8. Cardinality(D) \in Nat
  BY <1>0, FS_CardinalityType
<1> QED
  BY <1>2, <1>4, <1>5, <1>6, <1>7, <1>8 DEF got

\* A share that is rounded up has a rest.
LEMMA RoundedUpForRest ==
  ASSUME NEW shares, NEW D, SomeShares(shares, D), NEW units \in Nat, NEW i \in D,
         Place(Rests(shares, units), i) < LeftOver(shares, units)
  PROVE  Rests(shares, units)[i] > 0
<1> DEFINE rests == Rests(shares, units)
           P == {j \in D : rests[j] > 0}
<1>0. D \in SUBSET Nat /\ IsFiniteSet(D) /\ rests \in [D -> Nat]
  BY FloorsAndRests DEF SomeShares
<1>1. LeftOver(shares, units) \in Nat /\ LeftOver(shares, units) <= Cardinality(P)
  <2>1. Cardinality(D) \in Nat
    BY <1>0, FS_CardinalityType
  <2> QED
    BY <2>1, LeftForRests
<1> HIDE DEF rests
<1> SUFFICES ASSUME rests[i] = 0 PROVE FALSE
  BY <1>0 DEF rests
<1>2. P \in SUBSET AheadOf(rests, i) /\ AheadOf(rests, i) \in SUBSET D
  BY <1>0 DEF AheadOf
<1>3. IsFiniteSet(AheadOf(rests, i))
  BY <1>0, <1>2, FS_Subset
<1>4. Cardinality(P) <= Place(rests, i) /\ Cardinality(P) \in Nat /\ Place(rests, i) \in Nat
  <2>1. IsFiniteSet(P)
    BY <1>2, <1>3, FS_Subset
  <2> QED
    BY <1>2, <1>3, <2>1, FS_Subset, FS_CardinalityType DEF Place
<1>5. Place(rests, i) < LeftOver(shares, units)
  BY DEF rests
<1> QED
  BY <1>1, <1>4, <1>5

\* Each share gets its exact amount rounded down or up, and those that are owed more
\* are rounded up first.
LEMMA ApportionFair ==
  ASSUME NEW shares, NEW D, SomeShares(shares, D), NEW units \in Nat
  PROVE  LET sum == Total(shares)
             got == Apportion(shares, units)
             Due(i) == shares[i] * units IN
         \A i \in D :
           /\ sum * got[i] < Due(i) + sum /\ Due(i) < sum * (got[i] + 1)
           /\ \A j \in D : sum * got[i] > Due(i) /\ sum * got[j] < Due(j) => Due(i) % sum >= Due(j) % sum
<1> DEFINE t == Total(shares)
           got == Apportion(shares, units)
           floors == Floors(shares, units)
           rests == Rests(shares, units)
           left == LeftOver(shares, units)
           Up(i) == Place(rests, i) < left
<1>0. D \in SUBSET Nat /\ IsFiniteSet(D) /\ DOMAIN shares = D
  BY DEF SomeShares
<1>1. /\ t \in Nat \ {0} /\ floors \in [D -> Nat] /\ rests \in [D -> Nat]
      /\ \A i \in D : rests[i] < t /\ shares[i] * units = t * floors[i] + rests[i]
  BY FloorsAndRests
<1>2. \A i \in D : rests[i] = (shares[i] * units) % t
  BY <1>0 DEF Rests
<1>3. \A i \in D : got[i] = floors[i] + (IF Up(i) THEN 1 ELSE 0)
  BY <1>0, ApportionIs
<1>4. \A i \in D : Up(i) => rests[i] > 0
  BY RoundedUpForRest
<1>5. left \in Nat
  <2>1. Cardinality(D) \in Nat
    BY <1>0, FS_CardinalityType
  <2>2. LeftOver(shares, units) \in 0 .. Cardinality(D)
    BY LeftForRests
  <2> QED
    BY <2>1, <2>2
<1> HIDE DEF t, got, floors, rests, left
<1>6. \A i \in D : Place(rests, i) \in Nat
  BY <1>0, <1>1, PlaceOrder
<1>7. ASSUME NEW i \in D
      PROVE  /\ t * got[i] < shares[i] * units + t /\ shares[i] * units < t * (got[i] + 1)
             /\ t * got[i] > shares[i] * units => Up(i)
             /\ t * got[i] < shares[i] * units => ~Up(i)
  <2> DEFINE f == floors[i]  r == rests[i]  o == shares[i] * units  p == t * f
  <2>1. f \in Nat /\ r \in Nat /\ r < t /\ o = p + r /\ p \in Nat
    BY <1>1
  <2>2. t * (f + 1) = p + t /\ t * (f + 2) = p + t + t
    BY <1>1, <2>1
  <2>3. CASE Up(i)
    <3>1. got[i] = f + 1 /\ r > 0
      BY <1>3, <1>4, <2>3
    <3>2. got[i] + 1 = f + 2
      BY <2>1, <3>1
    <3>3. t * got[i] = p + t /\ t * (got[i] + 1) = p + t + t
      BY <2>2, <3>1, <3>2
    <3> HIDE DEF f, r, o, p, Up
    <3>4. t * got[i] < o + t /\ o < t * (got[i] + 1) /\ ~(t * got[i] < o)
      BY <1>1, <2>1, <3>1, <3>3
    <3> QED
      BY <2>3, <3>4 DEF o
  <2>4. CASE ~Up(i)
    <3>1. got[i] = f
      BY <1>3, <2>1, <2>4
    <3>3. t * got[i] = p /\ t * (got[i] + 1) = p + t
      BY <2>2, <3>1
    <3> HIDE DEF f, r, o, p, Up
    <3>4. t * got[i] < o + t /\ o < t * (got[i] + 1) /\ ~(t * got[i] > o)
      BY <1>1, <2>1, <3>3
    <3> QED
      BY <2>4, <3>4 DEF o
  <2> QED
    BY <2>3, <2>4
<1>8. ASSUME NEW i \in D, NEW j \in D, Up(i), ~Up(j) PROVE rests[i] >= rests[j]
  <2> SUFFICES ASSUME rests[i] < rests[j] PROVE FALSE
    BY <1>1
  <2>1. j \in AheadOf(rests, i)
    BY <1>1 DEF AheadOf
  <2>2. Place(rests, j) < Place(rests, i)
    BY <1>0, <1>1, <2>1, PlaceOrder
  <2> QED
    BY <1>5, <1>6, <1>8, <2>2
<1> HIDE DEF Up
<1>9. \A i \in D :
        /\ t * got[i] < shares[i] * units + t /\ shares[i] * units < t * (got[i] + 1)
        /\ \A j \in D : t * got[i] > shares[i] * units /\ t * got[j] < shares[j] * units
                          => (shares[i] * units) % t >= (shares[j] * units) % t
  BY <1>2, <1>7, <1>8
<1> QED
  BY <1>9 DEF t, got

-----------------------------------------------------------------------------
(* The counts of a section. *)

RowsGiven(rs, defaults, Keys) ==
  /\ IsFiniteSet(Keys) /\ RandomRow \notin Keys
  /\ rs \in Seq(RowsOf(Keys))
  /\ defaults \in Seq(Keys) /\ defaults # <<>>

\* Numbered names with positive shares.
NamesAndShares(s, Keys) ==
  /\ DOMAIN s.names \in SUBSET Nat /\ IsFiniteSet(DOMAIN s.names)
  /\ s.names \in [DOMAIN s.names -> Keys]
  /\ s.shares \in [DOMAIN s.names -> Nat \ {0}]

LEMMA RowsAre ==
  ASSUME NEW rs, NEW defaults, NEW Keys, RowsGiven(rs, defaults, Keys)
  PROVE  /\ DOMAIN rs \in SUBSET Nat /\ IsFiniteSet(DOMAIN rs)
         /\ Len(rs) \in Nat /\ DOMAIN rs = 1 .. Len(rs)
         /\ \A i \in DOMAIN rs : rs[i].name \in Keys \cup {RandomRow} /\ rs[i].factor \in Nat /\ rs[i].count \in Nat
         /\ Len(defaults) \in Nat \ {0} /\ defaults \in [1 .. Len(defaults) -> Keys]
<1>1. Len(rs) \in Nat /\ DOMAIN rs = 1 .. Len(rs) /\ \A i \in DOMAIN rs : rs[i] \in RowsOf(Keys)
  BY DEF RowsGiven
<1>2. Len(defaults) \in Nat \ {0} /\ defaults \in [1 .. Len(defaults) -> Keys]
  BY DEF RowsGiven
<1>3. \A i \in DOMAIN rs : rs[i].name \in Keys \cup {RandomRow} /\ rs[i].factor \in Nat /\ rs[i].count \in Nat
  BY <1>1 DEF RowsOf
<1>4. IsFiniteSet(DOMAIN rs) /\ DOMAIN rs \in SUBSET Nat
  <2>1. 1 \in Int /\ Len(rs) \in Int
    BY <1>1
  <2>2. IsFiniteSet(1 .. Len(rs))
    BY <2>1, FS_Interval
  <2> QED
    BY <1>1, <2>2
<1> QED
  BY <1>1, <1>2, <1>3, <1>4

\* A sum of positive numbers is positive unless it is one of none.
LEMMA SumPositive ==
  ASSUME NEW f, NEW S, IsFiniteSet(S), f \in [S -> Nat \ {0}]
  PROVE  Total(f) \in Nat /\ (Total(f) > 0 <=> S # {})
<1> DEFINE none == [i \in S |-> 0]
<1>1. Total(none) = 0
  BY SumOfNothing
<1>2. f \in [S -> Nat] /\ none \in [S -> Nat] /\ (\A i \in S : none[i] <= f[i]) /\ \A i \in S : none[i] < f[i]
  OBVIOUS
<1>3. S = {} => f = none
  OBVIOUS
<1> HIDE DEF none
<1>4. (\E i \in S : none[i] < f[i]) => Total(none) < Total(f)
  BY <1>2, SumAtMost
<1>5. Total(f) \in Nat
  BY <1>2, SumFacts
<1> QED
  BY <1>1, <1>2, <1>3, <1>4, <1>5

LEMMA RandomFactorIs ==
  ASSUME NEW rs, NEW defaults, NEW Keys, RowsGiven(rs, defaults, Keys)
  PROVE  RandomFactor(rs) \in Nat /\ (RandomFactor(rs) > 0 <=> Weighted(rs) \ Concrete(rs) # {})
<1> DEFINE S == Weighted(rs) \ Concrete(rs)
           f == [i \in S |-> rs[i].factor]
<1>1. S \in SUBSET DOMAIN rs /\ IsFiniteSet(S)
  <2>1. S \in SUBSET DOMAIN rs
    BY DEF Weighted
  <2> QED
    BY <2>1, RowsAre, FS_Subset
<1>2. f \in [S -> Nat \ {0}]
  <2>1. \A i \in S : rs[i].factor \in Nat /\ rs[i].factor > 0
    BY RowsAre DEF Weighted
  <2> QED
    BY <2>1
<1>3. Total(f) \in Nat /\ (Total(f) > 0 <=> S # {})
  <2> HIDE DEF f, S
  <2> QED
    BY <1>1, <1>2, SumPositive
<1> QED
  BY <1>3 DEF RandomFactor

LEMMA SharesAre ==
  ASSUME NEW rs, NEW defaults, NEW Keys, RowsGiven(rs, defaults, Keys)
  PROVE  /\ NamesAndShares(Shares(rs, defaults), Keys)
         /\ DOMAIN Shares(rs, defaults).names = {} <=> Weighted(rs) = {}
<1> DEFINE w == Weighted(rs) \cap Concrete(rs)
           d == IF RandomFactor(rs) > 0 THEN Len(rs) + 1 .. Len(rs) + Len(defaults) ELSE {}
           D == w \cup d
           s == Shares(rs, defaults)
<1>0. /\ DOMAIN rs \in SUBSET Nat /\ IsFiniteSet(DOMAIN rs)
      /\ Len(rs) \in Nat /\ DOMAIN rs = 1 .. Len(rs)
      /\ \A i \in DOMAIN rs : rs[i].name \in Keys \cup {RandomRow} /\ rs[i].factor \in Nat /\ rs[i].count \in Nat
      /\ Len(defaults) \in Nat \ {0} /\ defaults \in [1 .. Len(defaults) -> Keys]
  BY RowsAre
<1>1. RandomFactor(rs) \in Nat /\ (RandomFactor(rs) > 0 <=> Weighted(rs) \ Concrete(rs) # {})
  BY RandomFactorIs
<1>2. w \in SUBSET DOMAIN rs /\ \A i \in w : rs[i].name \in Keys /\ rs[i].factor \in Nat \ {0}
  BY <1>0 DEF Weighted, Concrete
<1>3. IsFiniteSet(D) /\ D \in SUBSET Nat
  <2>1. IsFiniteSet(w)
    BY <1>0, <1>2, FS_Subset
  <2>2. IsFiniteSet(d) /\ d \in SUBSET Nat
    <3>1. Len(rs) + 1 \in Int /\ Len(rs) + Len(defaults) \in Int
      BY <1>0
    <3>2. IsFiniteSet(Len(rs) + 1 .. Len(rs) + Len(defaults))
      BY <3>1, FS_Interval
    <3> QED
      BY <1>0, <3>2, FS_EmptySet
  <2>3. w \in SUBSET Nat
    BY <1>0, <1>2
  <2> HIDE DEF w, d
  <2> QED
    BY <2>1, <2>2, <2>3, FS_Union
<1>4. \A i \in d : i \notin w /\ RandomFactor(rs) \in Nat \ {0} /\ i - Len(rs) \in 1 .. Len(defaults)
  BY <1>0, <1>1, <1>2
<1>5. s.names = [i \in D |-> IF i \in w THEN rs[i].name ELSE defaults[i - Len(rs)]]
  BY DEF Shares
<1>6. s.shares = [i \in D |-> IF i \in w THEN rs[i].factor * Len(defaults) ELSE RandomFactor(rs)]
  BY DEF Shares
<1>7. \A i \in D : s.names[i] \in Keys
  <2> SUFFICES ASSUME NEW i \in D PROVE s.names[i] \in Keys
    OBVIOUS
  <2> HIDE DEF s
  <2>1. CASE i \in w
    BY <1>2, <1>5, <2>1
  <2>2. CASE i \in d /\ i \notin w
    <3>1. defaults[i - Len(rs)] \in Keys
      BY <1>0, <1>4, <2>2
    <3> QED
      BY <1>5, <2>2, <3>1
  <2> QED
    BY <2>1, <2>2
<1>8. \A i \in D : s.shares[i] \in Nat \ {0}
  <2> SUFFICES ASSUME NEW i \in D PROVE s.shares[i] \in Nat \ {0}
    OBVIOUS
  <2> HIDE DEF s
  <2>1. CASE i \in w
    <3>1. \A a, b \in Nat \ {0} : a * b \in Nat \ {0}
      <4> SUFFICES ASSUME NEW a \in Nat \ {0}, NEW b \in Nat \ {0} PROVE a * b \in Nat \ {0}
        OBVIOUS
      <4>1. PICK c \in Nat : a = c + 1
        <5>1. a - 1 \in Nat /\ a = (a - 1) + 1
          OBVIOUS
        <5> QED
          BY <5>1
      <4>2. a * b = c * b + b /\ c * b \in Nat
        BY <4>1
      <4> QED
        BY <4>2
    <3>2. rs[i].factor * Len(defaults) \in Nat \ {0}
      BY <1>0, <1>2, <2>1, <3>1
    <3> QED
      BY <1>6, <2>1, <3>2
  <2>2. CASE i \in d /\ i \notin w
    BY <1>4, <1>6, <2>2
  <2> QED
    BY <2>1, <2>2
<1>9. D = {} <=> Weighted(rs) = {}
  <2>1. Len(rs) + 1 \in Len(rs) + 1 .. Len(rs) + Len(defaults)
    BY <1>0
  <2>2. d # {} <=> Weighted(rs) \ Concrete(rs) # {}
    BY <1>1, <2>1
  <2> QED
    BY <2>2
<1> HIDE DEF s, D
<1>10. s.names \in [D -> Keys] /\ DOMAIN s.names = D
  BY <1>5, <1>7
<1>11. s.shares \in [D -> Nat \ {0}]
  BY <1>6, <1>8
<1> QED
  BY <1>3, <1>9, <1>10, <1>11 DEF NamesAndShares, s

\* Every set of numbers has a least one.
LEMMA LeastNumber ==
  ASSUME NEW S \in SUBSET Nat, S # {} PROVE \E i \in S : \A j \in S : i <= j
<1>1. PICK i \in S : \A j \in S : ~ (<<j, i>> \in OpToRel(<, Nat))
  BY WFMin, NatLessThanWellFounded, Zenon
<1>2. \A j \in S : ~ (j < i)
  BY <1>1 DEF OpToRel
<1> QED
  BY <1>2

\* Merging leaves each name once, with some share.
LEMMA MergedAre ==
  ASSUME NEW s, NEW Keys, NamesAndShares(s, Keys)
  PROVE  /\ NamesAndShares(Merged(s), Keys)
         /\ DOMAIN Merged(s).names = {} <=> DOMAIN s.names = {}
         /\ \A i, j \in DOMAIN Merged(s).names : Merged(s).names[i] = Merged(s).names[j] => i = j
<1> DEFINE D == DOMAIN s.names
           firsts == {i \in D : \A j \in Named(s.names, s.names[i]) : i <= j}
           m == Merged(s)
           Same(i) == Named(s.names, s.names[i])
<1>0. /\ D \in SUBSET Nat /\ IsFiniteSet(D) /\ s.names \in [D -> Keys] /\ s.shares \in [D -> Nat \ {0}]
      /\ firsts \in SUBSET D
  BY DEF NamesAndShares
<1>1. m.names = [i \in firsts |-> s.names[i]]
  BY DEF Merged
<1>2. m.shares = [i \in firsts |-> Total([j \in Same(i) |-> s.shares[j]])]
  BY DEF Merged
<1>3. ASSUME NEW i \in firsts PROVE Total([j \in Same(i) |-> s.shares[j]]) \in Nat \ {0}
  <2> DEFINE f == [j \in Same(i) |-> s.shares[j]]
  <2>1. Same(i) \in SUBSET D /\ i \in Same(i)
    BY DEF Named
  <2>2. IsFiniteSet(Same(i))
    BY <1>0, <2>1, FS_Subset
  <2>3. f \in [Same(i) -> Nat \ {0}]
    BY <1>0, <2>1
  <2>4. Total(f) \in Nat /\ (Total(f) > 0 <=> Same(i) # {})
    <3> HIDE DEF f, Same
    <3> QED
      BY <2>2, <2>3, SumPositive
  <2>5. Total(f) \in Nat \ {0}
    <3> HIDE DEF f, Same
    <3> QED
      BY <2>1, <2>4
  <2> QED
    BY <2>5
<1>4. ASSUME D # {} PROVE firsts # {}
  <2>1. PICK i \in D : \A j \in D : i <= j
    BY <1>0, <1>4, LeastNumber
  <2>2. \A j \in Same(i) : j \in D
    BY DEF Named
  <2> QED
    BY <2>1, <2>2
<1>5. ASSUME NEW i \in firsts, NEW j \in firsts, s.names[i] = s.names[j] PROVE i = j
  <2>1. i \in Same(j) /\ j \in Same(i)
    BY <1>5 DEF Named
  <2>2. i <= j /\ j <= i /\ i \in Nat /\ j \in Nat
    BY <1>0, <2>1
  <2> QED
    BY <2>2
<1>6. IsFiniteSet(firsts) /\ firsts \in SUBSET Nat
  BY <1>0, FS_Subset
<1> HIDE DEF m, firsts, D, Same
<1>7. m.names \in [firsts -> Keys] /\ DOMAIN m.names = firsts
  BY <1>0, <1>1
<1>8. m.shares \in [firsts -> Nat \ {0}]
  BY <1>2, <1>3
<1>9. NamesAndShares(m, Keys)
  BY <1>6, <1>7, <1>8 DEF NamesAndShares
<1>10. \A i, j \in firsts : m.names[i] = m.names[j] => i = j
  BY <1>1, <1>5
<1>11. firsts = {} <=> D = {}
  BY <1>0, <1>4
<1> QED
  BY <1>7, <1>9, <1>10, <1>11 DEF m, D

LEMMA SharesSum ==
  ASSUME NEW s, NEW Keys, NamesAndShares(s, Keys), DOMAIN s.names # {}
  PROVE  SomeShares(s.shares, DOMAIN s.names)
<1>1. Total(s.shares) > 0
  BY SumPositive DEF NamesAndShares
<1> QED
  BY <1>1 DEF NamesAndShares, SomeShares

\* The units are dealt to the names, if there is one.
LEMMA DerivedAre ==
  ASSUME NEW s, NEW Keys, IsFiniteSet(Keys), NamesAndShares(s, Keys), NEW units \in Nat
  PROVE  /\ Derived(s, units, Keys) \in [Keys -> Nat]
         /\ Total(Derived(s, units, Keys)) = IF DOMAIN s.names = {} THEN 0 ELSE units
<1>1. CASE DOMAIN s.names = {} \/ units = 0
  <2>1. Derived(s, units, Keys) = [n \in Keys |-> 0]
    BY <1>1 DEF Derived
  <2> QED
    BY <1>1, <2>1, SumOfNothing
<1>2. CASE ~(DOMAIN s.names = {} \/ units = 0)
  <2> DEFINE got == Apportion(s.shares, units)
             D == DOMAIN s.names
  <2>1. SomeShares(s.shares, D)
    BY <1>2, SharesSum
  <2>2. got \in [D -> Nat] /\ Total(got) = units
    BY <2>1, ApportionAll
  <2>3. Derived(s, units, Keys) = ByName(s.names, got, Keys)
    BY <1>2 DEF Derived
  <2>4. IsFiniteSet(D) /\ s.names \in [D -> Keys]
    BY DEF NamesAndShares
  <2> HIDE DEF got, D
  <2>5. ByName(s.names, got, Keys) \in [Keys -> Nat] /\ Total(ByName(s.names, got, Keys)) = units
    BY <2>2, <2>4, SumByName
  <2> QED
    BY <1>2, <2>3, <2>5
<1> QED
  BY <1>1, <1>2

\* The rows' counts are dealt to the names.
LEMMA CountedAre ==
  ASSUME NEW rs, NEW defaults, NEW Keys, RowsGiven(rs, defaults, Keys)
  PROVE  /\ Counted(rs, defaults, Keys) \in [Keys -> Nat]
         /\ Total(Counted(rs, defaults, Keys)) = Explicit(rs)
<1> DEFINE D == DOMAIN rs
           C == Concrete(rs)
           all == [i \in D |-> rs[i].count]
           names == [i \in C |-> rs[i].name]
           amounts == [i \in C |-> rs[i].count]
           n == Len(defaults)
           concrete == ByName(names, amounts, Keys)
           random == ByName(defaults, Evenly(RandomCount(rs), n), Keys)
           sum == Counted(rs, defaults, Keys)
<1>0. /\ IsFiniteSet(D) /\ IsFiniteSet(Keys) /\ C \in SUBSET D
      /\ \A i \in D : rs[i].name \in Keys \cup {RandomRow} /\ rs[i].factor \in Nat /\ rs[i].count \in Nat
      /\ n \in Nat \ {0} /\ defaults \in [1 .. n -> Keys]
  BY RowsAre DEF RowsGiven, Concrete
<1>1. IsFiniteSet(C) /\ names \in [C -> Keys] /\ amounts \in [C -> Nat] /\ all \in [D -> Nat]
  BY <1>0, FS_Subset DEF Concrete
<1>2. Total(all) = SumOf(all, C) + SumOf(all, D \ C)
  <2> HIDE DEF all, C, D
  <2> QED
    BY <1>0, <1>1, SumSplits
<1>3. SumOf(all, C) = Total(amounts) /\ SumOf(all, D \ C) = RandomCount(rs)
  <2>1. [i \in C |-> all[i]] = amounts
    BY <1>0
  <2>2. [i \in D \ C |-> all[i]] = [i \in D \ C |-> rs[i].count]
    OBVIOUS
  <2> QED
    BY <2>1, <2>2 DEF SumOf, RandomCount
<1>4. RandomCount(rs) \in Nat
  <2>1. D \ C \in SUBSET D
    OBVIOUS
  <2>2. SumOf(all, D \ C) \in Nat
    <3> HIDE DEF all, C, D
    <3> QED
      BY <1>0, <1>1, <2>1, SumFacts
  <2> QED
    BY <1>3, <2>2
<1>5. Explicit(rs) = Total(all)
  BY DEF Explicit
<1> HIDE DEF D, C, all, names, amounts, n
<1>6. concrete \in [Keys -> Nat] /\ Total(concrete) = Total(amounts)
  BY <1>0, <1>1, SumByName
<1>7. random \in [Keys -> Nat] /\ Total(random) = RandomCount(rs)
  <2>1. Evenly(RandomCount(rs), n) \in [1 .. n -> Nat] /\ Total(Evenly(RandomCount(rs), n)) = RandomCount(rs)
    BY <1>0, <1>4, EvenlyAll
  <2>2. IsFiniteSet(1 .. n)
    BY <1>0, FS_Interval
  <2> QED
    BY <1>0, <2>1, <2>2, SumByName
<1>8. sum = [m \in Keys |-> concrete[m] + random[m]]
  BY DEF Counted, C, names, amounts, n
<1> HIDE DEF concrete, random, sum
<1>9. sum \in [Keys -> Nat] /\ \A m \in Keys : sum[m] = concrete[m] + random[m]
  BY <1>6, <1>7, <1>8
<1>10. Total(sum) = Total(concrete) + Total(random)
  BY <1>0, <1>6, <1>7, <1>9, SumPlus
<1> QED
  BY <1>2, <1>3, <1>5, <1>6, <1>7, <1>9, <1>10 DEF sum

LEMMA PlusIs ==
  ASSUME NEW Keys, IsFiniteSet(Keys), NEW f \in [Keys -> Nat], NEW g \in [Keys -> Nat]
  PROVE  Plus(f, g) \in [Keys -> Nat] /\ Total(Plus(f, g)) = Total(f) + Total(g)
<1>1. Plus(f, g) \in [Keys -> Nat] /\ \A n \in Keys : Plus(f, g)[n] = f[n] + g[n]
  BY DEF Plus
<1> QED
  BY <1>1, SumPlus

-----------------------------------------------------------------------------
(* The plan. *)

LEMMA NodesGiven ==
  ASSUME NEW rs \in Seq(RowsOf(Roles)) PROVE RowsGiven(rs, RandomRoles, Roles)
BY RolesAndNames, Sections DEF RowsGiven

LEMMA ItemsGiven ==
  ASSUME NEW rs \in Seq(RowsOf(Names)) PROVE RowsGiven(rs, RandomNames, Names)
BY RolesAndNames, Sections DEF RowsGiven

\* A plan has the nodes its rows count, and the base count if one of them has a weight.
LEMMA NodePlanIs ==
  ASSUME NEW rs \in Seq(RowsOf(Roles)), NEW units \in Nat
  PROVE  /\ NodePlan(rs, units) \in [Roles -> Nat]
         /\ Total(NodePlan(rs, units)) = Explicit(rs) + (IF Weighted(rs) = {} THEN 0 ELSE units)
<1> DEFINE m == Merged(Shares(rs, RandomRoles))
           f == Derived(m, units, Roles)
           g == Counted(rs, RandomRoles, Roles)
<1>1. RowsGiven(rs, RandomRoles, Roles) /\ IsFiniteSet(Roles)
  BY NodesGiven DEF RowsGiven
<1>2. NamesAndShares(m, Roles) /\ (DOMAIN m.names = {} <=> Weighted(rs) = {})
  BY <1>1, SharesAre, MergedAre
<1>3. f \in [Roles -> Nat] /\ Total(f) = IF Weighted(rs) = {} THEN 0 ELSE units
  <2> HIDE DEF m
  <2> QED
    BY <1>1, <1>2, DerivedAre
<1>4. g \in [Roles -> Nat] /\ Total(g) = Explicit(rs)
  BY <1>1, CountedAre
<1>5. NodePlan(rs, units) = Plus(f, g)
  BY DEF NodePlan
<1> HIDE DEF f, g, m
<1>6. Plus(f, g) \in [Roles -> Nat] /\ Total(Plus(f, g)) = Total(f) + Total(g)
  BY <1>1, <1>3, <1>4, PlusIs
<1>7. Total(f) \in Nat /\ Total(g) \in Nat
  BY <1>1, <1>3, <1>4, SumFacts
<1>8. Total(f) + Total(g) = Total(g) + Total(f)
  BY <1>7
<1> QED
  BY <1>3, <1>4, <1>5, <1>6, <1>8

LEMMA PoolIs ==
  ASSUME NEW rs, NEW d \in 0 .. 10, NEW units \in Nat PROVE Pool(rs, d, units) \in Nat
<1>1. d * units \in Nat
  OBVIOUS
<1>2. (d * units) \div 10 \in Nat
  BY <1>1, Quotient
<1> QED
  BY <1>2 DEF Pool

\* A section has the hosts its rows count, and its density's part of the base count.
LEMMA ItemPlanIs ==
  ASSUME NEW rs \in Seq(RowsOf(Names)), NEW d \in 0 .. 10, NEW units \in Nat
  PROVE  /\ ItemPlan(rs, d, units) \in [Names -> Nat]
         /\ Total(ItemPlan(rs, d, units)) = Explicit(rs) + Pool(rs, d, units)
<1> DEFINE s == Shares(rs, RandomNames)
           pool == Pool(rs, d, units)
           f == Derived(s, pool, Names)
           g == Counted(rs, RandomNames, Names)
<1>0. pool \in Nat
  BY PoolIs
<1>1. RowsGiven(rs, RandomNames, Names) /\ IsFiniteSet(Names)
  BY ItemsGiven DEF RowsGiven
<1>2. NamesAndShares(s, Names) /\ (DOMAIN s.names = {} <=> Weighted(rs) = {})
  BY <1>1, SharesAre
<1>a. Weighted(rs) = {} => pool = 0
  BY DEF Pool
<1>3. f \in [Names -> Nat] /\ Total(f) = pool
  <2> HIDE DEF s, pool
  <2> QED
    BY <1>0, <1>1, <1>2, <1>a, DerivedAre
<1>4. g \in [Names -> Nat] /\ Total(g) = Explicit(rs)
  BY <1>1, CountedAre
<1>5. ItemPlan(rs, d, units) = Plus(f, g)
  BY DEF ItemPlan
<1> HIDE DEF f, g, s, pool
<1>6. Plus(f, g) \in [Names -> Nat] /\ Total(Plus(f, g)) = Total(f) + Total(g)
  BY <1>1, <1>3, <1>4, PlusIs
<1>7. Total(f) \in Nat /\ Total(g) \in Nat
  BY <1>1, <1>3, <1>4, SumFacts
<1>8. Total(f) + Total(g) = Total(g) + Total(f)
  BY <1>7
<1> QED
  BY <1>3, <1>4, <1>5, <1>6, <1>8 DEF pool

LEMMA HostsIs ==
  ASSUME NEW plans \in [Challenges -> [Names -> Nat]] PROVE Hosts(plans) \in Nat
<1> DEFINE f == [c \in Challenges |-> Total(plans[c])]
<1>1. IsFiniteSet(Challenges)
  <2>1. Challenges = {"vulnerabilities"} \cup {"generators"}
    BY DEF Challenges
  <2> QED
    BY <2>1, FS_Singleton, FS_Union
<1>2. f \in [Challenges -> Nat]
  <2> SUFFICES ASSUME NEW c \in Challenges PROVE Total(plans[c]) \in Nat
    OBVIOUS
  <2>1. plans[c] \in [Names -> Nat]
    OBVIOUS
  <2> QED
    BY <2>1, Sections, SumFacts
<1> HIDE DEF f
<1>3. Total(f) \in Nat
  BY <1>1, <1>2, SumFacts
<1> QED
  BY <1>3 DEF Hosts, f

LEMMA RepairedIs ==
  ASSUME NEW f \in [Roles -> Nat], NEW n \in Nat PROVE Repaired(f, n) \in [Roles -> Nat]
<1>1. "Docker" \in Roles
  BY RolesAndNames
<1> QED
  BY <1>1 DEF Repaired

\* What has been planned is what the rows say.
PlanInv ==
  /\ PlanTypeOK
  /\ density \in [Challenges -> 0 .. 10] /\ base \in Nat
  /\ planned # "nodes" => raw = NodePlan(rows.nodes, base)
  /\ planned \notin {"nodes", "vulnerabilities"} =>
       demand.vulnerabilities = ItemPlan(rows.vulnerabilities, density.vulnerabilities, base)
  /\ planned \notin {"nodes"} \cup Challenges =>
       demand.generators = ItemPlan(rows.generators, density.generators, base)

LEMMA PlanInvInit == PlanInit => PlanInv
<1> SUFFICES ASSUME PlanInit PROVE PlanInv
  OBVIOUS
<1>1. PICK ns \in NodeSections, vs \in ItemSections, gs \in ItemSections :
        rows = [nodes |-> ns, vulnerabilities |-> vs, generators |-> gs]
  BY DEF PlanInit
<1>2. rows.nodes \in Seq(RowsOf(Roles)) /\ \A c \in Challenges : rows[c] \in Seq(RowsOf(Names))
  BY <1>1, Sections DEF Challenges
<1>3. density \in [Challenges -> 0 .. 10] /\ base \in Nat
  BY Densities DEF PlanInit
<1> QED
  BY <1>2, <1>3 DEF PlanInit, PlanInv, PlanTypeOK, NoCounts, NoDemand, Challenges

LEMMA PlanInvNext == PlanInv /\ [PlanNext]_planVars => PlanInv'
<1> SUFFICES ASSUME PlanInv, [PlanNext]_planVars PROVE PlanInv'
  OBVIOUS
<1>0. /\ rows.nodes \in Seq(RowsOf(Roles)) /\ (\A c \in Challenges : rows[c] \in Seq(RowsOf(Names)))
      /\ density \in [Challenges -> 0 .. 10] /\ base \in Nat
      /\ demand \in [Challenges -> [Names -> Nat]] /\ raw \in [Roles -> Nat] /\ counts \in [Roles -> Nat]
  BY DEF PlanInv, PlanTypeOK
<1>1. CASE PlanNodes
  <2>1. NodePlan(rows.nodes, base) \in [Roles -> Nat]
    BY <1>0, NodePlanIs
  <2> QED
    BY <1>1, <2>1 DEF PlanNodes, PlanInv, PlanTypeOK, Inputs, Challenges
<1>2. ASSUME NEW c \in Challenges, NEW next \in {"generators", "repair"}, PlanChallenge(c, next),
             c = "vulnerabilities" <=> next = "generators"
      PROVE  PlanInv'
  <2>1. ItemPlan(rows[c], density[c], base) \in [Names -> Nat]
    BY <1>0, ItemPlanIs
  <2>2. demand' \in [Challenges -> [Names -> Nat]]
        /\ demand' = [demand EXCEPT ![c] = ItemPlan(rows[c], density[c], base)]
    BY <1>0, <1>2, <2>1 DEF PlanChallenge
  <2>3. PlanTypeOK'
    BY <1>2, <2>2 DEF PlanChallenge, PlanInv, PlanTypeOK, Inputs, Challenges
  <2>4. CASE c = "vulnerabilities"
    BY <1>0, <1>2, <2>2, <2>3, <2>4 DEF PlanChallenge, PlanInv, Inputs, Challenges
  <2>5. CASE c = "generators"
    BY <1>0, <1>2, <2>2, <2>3, <2>5 DEF PlanChallenge, PlanInv, Inputs, Challenges
  <2> QED
    BY <2>4, <2>5 DEF Challenges
<1>3. CASE Repair
  <2>1. Repaired(counts, Hosts(demand)) \in [Roles -> Nat]
    BY <1>0, HostsIs, RepairedIs
  <2> QED
    BY <1>3, <2>1 DEF Repair, PlanInv, PlanTypeOK, Inputs, Challenges
<1>4. ASSUME NEW w \in {"web", "cli"}, Preview(w) PROVE PlanInv'
  <2>1. Repaired(Basis(w), Hosts(demand)) \in [Roles -> Nat]
    BY <1>0, HostsIs, RepairedIs DEF Basis
  <2>2. \A v \in DOMAIN preview' : preview'[v] \in [Roles -> Nat] \cup {<<>>}
    BY <1>4, <2>1 DEF Preview, PlanInv, PlanTypeOK
  <2> QED
    BY <1>4, <2>2 DEF Preview, PlanInv, PlanTypeOK, Inputs, Challenges
<1>5. CASE Compare
  BY <1>5 DEF Compare, PlanInv, PlanTypeOK, Inputs, Challenges
<1>6. CASE UNCHANGED planVars
  BY <1>6 DEF planVars, PlanInv, PlanTypeOK
<1> QED
  BY <1>1, <1>2, <1>3, <1>4, <1>5, <1>6 DEF PlanNext, Challenges

LEMMA PlanKept == PlanSpec => []PlanInv
<1>1. PlanInit => PlanInv
  BY PlanInvInit
<1>2. PlanInv /\ [PlanNext]_planVars => PlanInv'
  BY PlanInvNext
<1> QED
  BY <1>1, <1>2, PTL DEF PlanSpec

\* Every variable of a plan has its type, whatever the rows: amounts never fall below 0.
THEOREM PlanTypes == PlanSpec => []PlanTypeOK
BY PlanKept, PTL DEF PlanInv

LEMMA NothingIsLost == PlanInv => NothingLost
<1> SUFFICES ASSUME PlanInv PROVE NothingLost
  OBVIOUS
<1>0. /\ rows.nodes \in Seq(RowsOf(Roles)) /\ (\A c \in Challenges : rows[c] \in Seq(RowsOf(Names)))
      /\ density \in [Challenges -> 0 .. 10] /\ base \in Nat
  BY DEF PlanInv, PlanTypeOK
<1>1. ASSUME planned # "nodes"
      PROVE  Total(raw) = Explicit(rows.nodes) + (IF Weighted(rows.nodes) = {} THEN 0 ELSE base)
  BY <1>0, <1>1, NodePlanIs DEF PlanInv
<1>2. ASSUME planned \notin {"nodes"} \cup Challenges, NEW c \in Challenges
      PROVE  Total(demand[c]) = Explicit(rows[c]) + Pool(rows[c], density[c], base)
  <2>1. demand[c] = ItemPlan(rows[c], density[c], base)
    BY <1>2 DEF PlanInv, Challenges
  <2> QED
    BY <1>0, <2>1, ItemPlanIs
<1> QED
  BY <1>1, <1>2 DEF NothingLost

\* What one of several names gets.
LEMMA OneNamed ==
  ASSUME NEW names, NEW got, NEW D, IsFiniteSet(D), names \in [D -> Roles], got \in [D -> Nat],
         \A i, j \in D : names[i] = names[j] => i = j,
         NEW i \in D
  PROVE  ByName(names, got, Roles)[names[i]] = got[i]
<1>1. Named(names, names[i]) = {i}
  BY DEF Named
<1>2. ByName(names, got, Roles)[names[i]] = SumOf(got, Named(names, names[i]))
  BY DEF ByName, SumOf
<1>3. SumOf(got, {} \cup {i}) = got[i] + SumOf(got, {}) /\ SumOf(got, {}) = 0
  <2>1. \A T \in SUBSET D : \A x \in D \ T : SumOf(got, T \cup {x}) = got[x] + SumOf(got, T)
    BY SumFacts
  <2>2. {} \in SUBSET D /\ i \in D \ {}
    OBVIOUS
  <2> QED
    BY <2>1, <2>2, SumFacts
<1>4. {} \cup {i} = {i} /\ got[i] \in Nat
  OBVIOUS
<1> QED
  BY <1>1, <1>2, <1>3, <1>4

LEMMA SharesAreFair == PlanInv => FairShares
<1> SUFFICES ASSUME PlanInv, planned # "nodes", base > 0 PROVE FairShares
  BY DEF FairShares
<1> DEFINE rs == rows.nodes
           m == Merged(Shares(rs, RandomRoles))
           D == DOMAIN m.names
           t == Total(m.shares)
           f == Derived(m, base, Roles)
           g == Counted(rs, RandomRoles, Roles)
           got == Apportion(m.shares, base)
           Got == [i \in D |-> raw[m.names[i]] - g[m.names[i]]]
<1>0. rs \in Seq(RowsOf(Roles)) /\ base \in Nat
  BY DEF PlanInv, PlanTypeOK
<1>1. RowsGiven(rs, RandomRoles, Roles) /\ IsFiniteSet(Roles)
  BY <1>0, NodesGiven DEF RowsGiven
<1>2. NamesAndShares(m, Roles) /\ \A i, j \in D : m.names[i] = m.names[j] => i = j
  BY <1>1, SharesAre, MergedAre
<1>3. raw = Plus(f, g)
  BY DEF PlanInv, NodePlan
<1>4. f \in [Roles -> Nat] /\ g \in [Roles -> Nat]
  <2>1. g \in [Roles -> Nat]
    BY <1>1, CountedAre
  <2>2. f \in [Roles -> Nat]
    <3> HIDE DEF m
    <3> QED
      BY <1>0, <1>1, <1>2, DerivedAre
  <2> QED
    BY <2>1, <2>2
<1>5. D # {} => f = ByName(m.names, got, Roles)
  BY DEF Derived
<1>6. D # {} => SomeShares(m.shares, D)
  <2> HIDE DEF m
  <2> QED
    BY <1>2, SharesSum
<1>7. IsFiniteSet(D) /\ m.names \in [D -> Roles]
  BY <1>2 DEF NamesAndShares
<1> HIDE DEF m, f, g, got, D
<1>8. D # {} => got \in [D -> Nat]
  BY <1>0, <1>6, ApportionAll DEF got
<1>9. ASSUME NEW i \in D PROVE Got[i] = got[i]
  <2>1. f[m.names[i]] = got[i]
    BY <1>2, <1>5, <1>7, <1>8, OneNamed
  <2>2. m.names[i] \in Roles /\ got[i] \in Nat
    BY <1>7, <1>8
  <2>3. raw[m.names[i]] = f[m.names[i]] + g[m.names[i]]
    BY <1>3, <1>4, <2>2 DEF Plus
  <2>4. g[m.names[i]] \in Nat
    BY <1>4, <2>2
  <2> QED
    BY <2>1, <2>2, <2>3, <2>4
<1>10. ASSUME NEW i \in D
       PROVE  /\ t * got[i] < m.shares[i] * base + t /\ m.shares[i] * base < t * (got[i] + 1)
              /\ \A j \in D : t * got[i] > m.shares[i] * base /\ t * got[j] < m.shares[j] * base
                                => (m.shares[i] * base) % t >= (m.shares[j] * base) % t
  BY <1>0, <1>6, ApportionFair DEF got
<1>11. \A i \in D :
         /\ t * Got[i] < m.shares[i] * base + t /\ m.shares[i] * base < t * (Got[i] + 1)
         /\ \A j \in D : t * Got[i] > m.shares[i] * base /\ t * Got[j] < m.shares[j] * base
                           => (m.shares[i] * base) % t >= (m.shares[j] * base) % t
  <2> HIDE DEF Got, t
  <2> QED
    BY <1>9, <1>10
<1> QED
  BY <1>11 DEF FairShares, m, D, g

\* The counts of a plan are what its rows ask for: every host that is asked for is
\* planned and no other, each role gets its exact share rounded down or up, and none is
\* rounded up before one that is owed more (compute_node_plan and
\* compute_vulnerability_plan), for any rows, weights, densities and base counts.
THEOREM CountsAreAsAsked == PlanSpec => []CountsAsAsked
<1>1. PlanInv => CountsAsAsked
  BY NothingIsLost, SharesAreFair DEF CountsAsAsked
<1> QED
  BY <1>1, PlanKept, PTL

-----------------------------------------------------------------------------
(* The demand is added once. *)

\* Until the repair the counts are the raw ones; then the hosts have been added to
\* them, once; and a preview has been built only from what is final by then.
DemandInv ==
  /\ planned \in {"nodes", "repair", "preview", "execute", "compare", "end"} \cup Challenges
  /\ planned \in {"nodes", "repair"} \cup Challenges =>
       counts = raw /\ preview = [w \in {"web", "cli"} |-> <<>>]
  /\ planned \notin {"nodes", "repair"} \cup Challenges => counts = Repaired(raw, Hosts(demand))
  /\ DOMAIN preview = {"web", "cli"}
  /\ planned = "preview" => preview.web = <<>>
  /\ planned \in {"preview", "execute"} => preview.cli = <<>>
  /\ preview.web # <<>> => preview.web = counts
  /\ planned \in {"execute", "compare"} => preview.web = counts
  /\ preview.cli # <<>> /\ Total(raw) > 0 => preview.cli = counts
  /\ planned = "compare" /\ Total(raw) # 0 => preview.cli = counts
  /\ accepted = "no" => planned = "end" /\ Total(raw) = 0

LEMMA DemandInit == PlanInit => DemandInv
BY DEF PlanInit, DemandInv, Challenges

LEMMA PlanNodesKeeps == DemandInv /\ PlanNodes => DemandInv'
BY DEF PlanNodes, DemandInv, Inputs, Challenges

LEMMA PlanChallengeKeeps ==
  ASSUME DemandInv,
         \/ PlanChallenge("vulnerabilities", "generators")
         \/ PlanChallenge("generators", "repair")
  PROVE  DemandInv'
BY DEF PlanChallenge, DemandInv, Inputs, Challenges

LEMMA RepairKeeps == DemandInv /\ Repair => DemandInv'
BY DEF Repair, DemandInv, Inputs, Challenges

LEMMA PreviewKeeps ==
  ASSUME DemandInv, NEW w \in {"web", "cli"}, Preview(w) PROVE DemandInv'
<1>1. CASE w = "web"
  BY <1>1 DEF Preview, DemandInv, Inputs, Challenges, Basis
<1>2. CASE w = "cli"
  BY <1>2 DEF Preview, DemandInv, Inputs, Challenges, Basis
<1> QED
  BY <1>1, <1>2

LEMMA CompareKeeps == DemandInv /\ Compare => DemandInv'
BY DEF Compare, DemandInv, Inputs, Challenges

LEMMA DemandKept == PlanSpec => []DemandInv
<1>1. DemandInv /\ UNCHANGED planVars => DemandInv'
  BY DEF DemandInv, planVars
<1>2. DemandInv /\ [PlanNext]_planVars => DemandInv'
  BY <1>1, PlanNodesKeeps, PlanChallengeKeeps, RepairKeeps, PreviewKeeps, CompareKeeps DEF PlanNext
<1> QED
  BY <1>2, DemandInit, PTL DEF PlanSpec

\* The hosts of the challenges are added once, by the plan and by each preview; the
\* command line takes the web's preview for its own (planning/orchestrator.py and the
\* preview of the web process), whatever rows ask for.
THEOREM DemandAddedOnce == PlanSpec => []DemandOnce
<1>1. DemandInv => DemandOnce
  BY DEF DemandInv, DemandOnce
<1> QED
  BY <1>1, DemandKept, PTL
=============================================================================
