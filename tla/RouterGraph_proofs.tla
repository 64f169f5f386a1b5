-------------------------- MODULE RouterGraph_proofs --------------------------
(***************************************************************************)
(* Theorems about the links between the routers of a preview, for every     *)
(* number of routers and every degree.                                     *)
(***************************************************************************)
EXTENDS RouterGraph, FiniteSetTheorems, FunctionTheorems, TLAPS

-----------------------------------------------------------------------------
(* Induction, over numbers and over the subsets of a finite set. *)

LEMMA NatSets ==
  ASSUME NEW T \in SUBSET Nat, 0 \in T, \A n \in T : n + 1 \in T
  PROVE  T = Nat
<1> SUFFICES ASSUME Nat \ T # {} PROVE FALSE
  OBVIOUS
<1>1. PICK n \in Nat \ T : \A y \in Nat \ T : ~ (<<y, n>> \in OpToRel(<, Nat))
  BY WFMin, NatLessThanWellFounded, Zenon
<1>2. \A y \in Nat \ T : ~ (y < n)
  BY <1>1 DEF OpToRel
<1>3. n \in Nat /\ n \notin T /\ n # 0
  OBVIOUS
<1>4. n - 1 \in Nat /\ n - 1 < n
  BY <1>3
<1>5. n - 1 \in T
  BY <1>2, <1>4
<1>6. (n - 1) + 1 = n
  BY <1>3
<1> QED
  BY <1>3, <1>5, <1>6

LEMMA FiniteSubsets ==
  ASSUME NEW S, IsFiniteSet(S), NEW F \in SUBSET SUBSET S, {} \in F,
         \A A \in F : \A x \in S \ A : A \cup {x} \in F
  PROVE  S \in F
<1> DEFINE T == {n \in Nat : n <= Cardinality(S) => \E A \in F : Cardinality(A) = n}
<1>1. Cardinality(S) \in Nat
  BY FS_CardinalityType
<1>2. 0 \in T
  BY FS_EmptySet
<1>3. ASSUME NEW n \in T PROVE n + 1 \in T
  <2> SUFFICES ASSUME n + 1 <= Cardinality(S) PROVE \E A \in F : Cardinality(A) = n + 1
    OBVIOUS
  <2>1. PICK A \in F : Cardinality(A) = n
    BY <1>1
  <2>2. A \in SUBSET S /\ A # S
    BY <1>1, <2>1
  <2>3. PICK x \in S : x \notin A
    BY <2>2
  <2>4. IsFiniteSet(A)
    BY <2>2, FS_Subset
  <2>5. Cardinality(A \cup {x}) = n + 1
    BY <2>1, <2>3, <2>4, FS_AddElement
  <2> QED
    BY <2>3, <2>5
<1> HIDE DEF T
<1>4. T = Nat
  BY <1>2, <1>3, NatSets DEF T
<1>5. PICK A \in F : Cardinality(A) = Cardinality(S)
  BY <1>1, <1>4 DEF T
<1> QED
  BY <1>5, FS_Subset

-----------------------------------------------------------------------------
(* Sets of links that hold a set of routers together. *)

\* Every part of R is linked with the rest of R.
Joined(L, R) ==
  \A C \in SUBSET R : C # {} /\ C # R =>
    \E l \in L : l \cap C # {} /\ l \cap (R \ C) # {}

\* A link more does no harm.
LEMMA JoinedMore ==
  ASSUME NEW L, NEW M, NEW R, L \subseteq M, Joined(L, R)
  PROVE  Joined(M, R)
BY DEF Joined

\* A router more is joined by a link to any of the others.
LEMMA JoinedGrows ==
  ASSUME NEW L, NEW R, Joined(L, R), NEW a \in R, NEW b
  PROVE  Joined(L \cup {{a, b}}, R \cup {b})
<1> SUFFICES ASSUME NEW C \in SUBSET (R \cup {b}), C # {}, C # R \cup {b}
             PROVE  \E l \in L \cup {{a, b}} : l \cap C # {} /\ l \cap ((R \cup {b}) \ C) # {}
  BY DEF Joined
<1>1. CASE C \cap R = {}
  BY <1>1
<1>2. CASE R \subseteq C
  BY <1>2
<1>3. CASE C \cap R # {} /\ ~(R \subseteq C)
  <2>1. PICK l \in L : l \cap (C \cap R) # {} /\ l \cap (R \ (C \cap R)) # {}
    BY <1>3 DEF Joined
  <2> QED
    BY <2>1
<1> QED
  BY <1>1, <1>2, <1>3

\* Routers that are linked one after the other are joined.
LEMMA JoinedInLine ==
  ASSUME NEW n \in Nat, NEW ring, NEW L, NEW R,
         ring \in [1 .. n -> R], \A r \in R : \E i \in 1 .. n : ring[i] = r,
         \A i \in 1 .. n - 1 : {ring[i], ring[i + 1]} \in L
  PROVE  Joined(L, R)
<1> SUFFICES ASSUME NEW C \in SUBSET R, C # {}, C # R,
                    \A l \in L : l \cap C = {} \/ l \cap (R \ C) = {}
             PROVE  FALSE
  BY DEF Joined
<1> DEFINE T == {k \in Nat : k + 1 <= n => (ring[k + 1] \in C <=> ring[1] \in C)}
<1>1. 0 \in T
  OBVIOUS
<1>2. ASSUME NEW k \in T PROVE k + 1 \in T
  <2> SUFFICES ASSUME k + 2 <= n PROVE ring[k + 2] \in C <=> ring[1] \in C
    OBVIOUS
  <2>1. k + 1 \in 1 .. n - 1 /\ k + 2 \in 1 .. n
    OBVIOUS
  <2>2. {ring[k + 1], ring[k + 2]} \in L
    BY <2>1
  <2>3. ring[k + 1] \in R /\ ring[k + 2] \in R
    BY <2>1
  <2>4. ring[k + 1] \in C <=> ring[k + 2] \in C
    BY <2>2, <2>3
  <2> QED
    BY <2>1, <2>4
<1> HIDE DEF T
<1>3. T = Nat
  BY <1>1, <1>2, NatSets DEF T
<1>4. \A i \in 1 .. n : ring[i] \in C <=> ring[1] \in C
  <2> SUFFICES ASSUME NEW i \in 1 .. n PROVE ring[i] \in C <=> ring[1] \in C
    OBVIOUS
  <2>1. i - 1 \in T
    BY <1>3
  <2> QED
    BY <2>1 DEF T
<1>5. PICK r \in R, q \in R : r \in C /\ q \notin C
  OBVIOUS
<1>6. PICK i \in 1 .. n, j \in 1 .. n : ring[i] = r /\ ring[j] = q
  BY <1>5
<1> QED
  BY <1>4, <1>5, <1>6

-----------------------------------------------------------------------------
(* From any of the routers that are joined, all can be reached. *)

\* The routers reached in one step more, and after each number of steps.
Spread(P, L) == P \cup UNION {l \in L : l \cap P # {}}

Growth(S, L, n, g) == g = [k \in 0 .. n |-> IF k = 0 THEN S ELSE Spread(g[k - 1], L)]

LEMMA GrowthExists ==
  ASSUME NEW S, NEW L, NEW m \in Nat
  PROVE  \E g : Growth(S, L, m, g)
<1> DEFINE T == {n \in Nat : \E g : Growth(S, L, n, g)}
<1>1. 0 \in T
  <2> DEFINE g == [k \in 0 .. 0 |-> S]
  <2>1. g = [k \in 0 .. 0 |-> IF k = 0 THEN S ELSE Spread(g[k - 1], L)]
    OBVIOUS
  <2> QED
    BY <2>1 DEF Growth
<1>2. ASSUME NEW n \in T PROVE n + 1 \in T
  <2>1. PICK g : g = [k \in 0 .. n |-> IF k = 0 THEN S ELSE Spread(g[k - 1], L)]
    BY DEF Growth
  <2> DEFINE h == [k \in 0 .. n + 1 |-> IF k = n + 1 THEN Spread(g[n], L) ELSE g[k]]
  <2>2. \A k \in 0 .. n : g[k] = IF k = 0 THEN S ELSE Spread(g[k - 1], L)
    BY <2>1
  <2>3. \A k \in 0 .. n : h[k] = g[k]
    OBVIOUS
  <2>4. \A k \in 0 .. n + 1 : h[k] = IF k = 0 THEN S ELSE Spread(h[k - 1], L)
    <3> SUFFICES ASSUME NEW k \in 0 .. n + 1
                 PROVE  h[k] = IF k = 0 THEN S ELSE Spread(h[k - 1], L)
      OBVIOUS
    <3>1. CASE k = n + 1
      BY <2>3, <3>1
    <3>2. CASE k \in 1 .. n
      <4>1. k \in 0 .. n /\ k - 1 \in 0 .. n /\ k # 0
        BY <3>2
      <4> QED
        BY <2>2, <2>3, <4>1
    <3>3. CASE k = 0
      BY <2>2, <2>3, <3>3
    <3> QED
      BY <3>1, <3>2, <3>3
  <2>5. h = [k \in 0 .. n + 1 |-> h[k]]
    OBVIOUS
  <2> HIDE DEF h
  <2>6. h = [k \in 0 .. n + 1 |-> IF k = 0 THEN S ELSE Spread(h[k - 1], L)]
    BY <2>4, <2>5
  <2> QED
    BY <2>6 DEF Growth
<1> HIDE DEF T
<1>3. T = Nat
  BY <1>1, <1>2, NatSets DEF T
<1> QED
  BY <1>3 DEF T

LEMMA GrowthFacts ==
  ASSUME NEW S, NEW L, NEW n \in Nat, NEW g, Growth(S, L, n, g)
  PROVE  /\ g[0] = S
         /\ \A k \in 0 .. n - 1 : g[k + 1] = Spread(g[k], L)
<1>1. g = [k \in 0 .. n |-> IF k = 0 THEN S ELSE Spread(g[k - 1], L)]
  BY DEF Growth
<1>2. g[0] = S
  BY <1>1
<1>3. ASSUME NEW k \in 0 .. n - 1 PROVE g[k + 1] = Spread(g[k], L)
  <2>1. k + 1 \in 0 .. n /\ k + 1 # 0 /\ (k + 1) - 1 = k
    OBVIOUS
  <2>2. g[k + 1] = IF k + 1 = 0 THEN S ELSE Spread(g[(k + 1) - 1], L)
    BY <1>1, <2>1
  <2> QED
    BY <2>1, <2>2
<1> QED
  BY <1>2, <1>3

\* In k steps one has reached all routers, or k others.
Grown(r, P, k) ==
  r \in P /\ P \in SUBSET routers /\ (P = routers \/ Cardinality(P) >= k + 1)

LEMMA GrowsByOne ==
  ASSUME NEW L, IsFiniteSet(routers), L \subseteq SUBSET routers, Joined(L, routers),
         NEW r, NEW P, NEW k \in Nat, Grown(r, P, k)
  PROVE  Grown(r, Spread(P, L), k + 1)
<1> DEFINE Q == Spread(P, L)
<1>1. r \in Q /\ P \subseteq Q /\ Q \in SUBSET routers
  BY DEF Grown, Spread
<1>2. CASE P = routers
  BY <1>1, <1>2 DEF Grown
<1>3. CASE P # routers
  <2>1. PICK l \in L : l \cap P # {} /\ l \cap (routers \ P) # {}
    BY <1>3 DEF Joined, Grown
  <2>2. PICK x \in l : x \in routers /\ x \notin P
    BY <2>1
  <2>3. P \cup {x} \subseteq Q
    BY <2>1, <2>2 DEF Spread
  <2> HIDE DEF Q
  <2>4. IsFiniteSet(P) /\ IsFiniteSet(Q)
    BY <1>1, FS_Subset DEF Grown
  <2>5. Cardinality(P \cup {x}) = Cardinality(P) + 1
    BY <2>2, <2>4, FS_AddElement
  <2>6. Cardinality(P \cup {x}) <= Cardinality(Q)
    BY <2>3, <2>4, FS_Subset
  <2>7. Cardinality(P) \in Nat /\ Cardinality(Q) \in Nat
    BY <2>4, FS_CardinalityType
  <2> QED
    BY <1>1, <1>3, <2>5, <2>6, <2>7 DEF Grown, Q
<1> QED
  BY <1>2, <1>3

LEMMA JoinedIsReached ==
  ASSUME NEW L, IsFiniteSet(routers), L \subseteq SUBSET routers, Joined(L, routers),
         NEW r \in routers
  PROVE  Reach({r}, L) = routers
<1> DEFINE n == Cardinality(routers)
<1>0. n \in Nat
  BY FS_CardinalityType
<1>1. PICK g : g = CHOOSE f : Growth({r}, L, n, f)
  OBVIOUS
<1>2. Growth({r}, L, n, g)
  BY <1>0, <1>1, GrowthExists
<1>3. Reach({r}, L) = g[n]
  BY <1>1 DEF Reach, Growth, Spread
<1> HIDE DEF n
<1>4. g[0] = {r} /\ \A k \in 0 .. n - 1 : g[k + 1] = Spread(g[k], L)
  BY <1>0, <1>2, GrowthFacts
<1> DEFINE T == {k \in Nat : k <= n => Grown(r, g[k], k)}
<1>5. 0 \in T
  <2>1. Cardinality({r}) = 1
    BY FS_Singleton
  <2>2. Grown(r, {r}, 0)
    BY <2>1 DEF Grown
  <2> QED
    BY <1>4, <2>2
<1>6. ASSUME NEW k \in T PROVE k + 1 \in T
  <2> SUFFICES ASSUME k + 1 <= n PROVE Grown(r, g[k + 1], k + 1)
    OBVIOUS
  <2>1. k \in 0 .. n - 1 /\ k \in Nat /\ Grown(r, g[k], k)
    BY <1>0
  <2> QED
    BY <1>4, <2>1, GrowsByOne
<1> HIDE DEF T
<1>7. T = Nat
  BY <1>5, <1>6, NatSets DEF T
<1>8. Grown(r, g[n], n)
  BY <1>0, <1>7 DEF T
<1>9. Cardinality(g[n]) \in Nat /\ Cardinality(g[n]) <= n
  BY <1>8, FS_Subset, FS_CardinalityType DEF Grown, n
<1> QED
  BY <1>0, <1>3, <1>8, <1>9 DEF Grown

LEMMA JoinedConnects ==
  ASSUME NEW L, IsFiniteSet(routers), L \subseteq SUBSET routers, Joined(L, routers)
  PROVE  Connected(L)
BY JoinedIsReached DEF Connected

-----------------------------------------------------------------------------
(* Types. *)

\* The request is one that can be made.
Requested ==
  /\ mode \in Modes /\ asked \in 0 .. MaxDegree
  /\ N \in 1 .. MaxRouters /\ routers = 1 .. N /\ IsFiniteSet(routers)

\* The routers left in mode "exact", the hubs in mode "nonuniform", and links of two.
GraphTyped ==
  /\ Requested
  /\ drawing \in {"start", "degrees", "tree", "rim", "stuck", "end"}
  /\ links \subseteq kSubset(2, routers)
  /\ DOMAIN work \subseteq routers /\ \A r \in DOMAIN work : work[r] \in 0 .. N
  /\ tree \subseteq routers /\ rim \subseteq routers
  /\ drawing = "rim" => /\ hubs[2] \subseteq routers /\ hubs[1] \in hubs[2]
                        /\ rim \cap hubs[2] = {}

LEMMA PairIsLink ==
  ASSUME Requested, NEW a \in routers, NEW b \in routers, a # b
  PROVE  Link(a, b) \in kSubset(2, routers)
<1>1. Cardinality({a}) = 1 /\ IsFiniteSet({a})
  BY FS_Singleton
<1>2. Cardinality({a} \cup {b}) = 2
  BY <1>1, FS_AddElement
<1>3. {a} \cup {b} = Link(a, b)
  BY DEF Link
<1> QED
  BY <1>2, <1>3 DEF kSubset

\* The least of two numbers.
LEMMA LeastOfTwo ==
  ASSUME NEW a \in Nat, NEW b \in Nat
  PROVE  Min({a, b}) = IF a <= b THEN a ELSE b
BY DEF Min

LEMMA DivMod ==
  ASSUME NEW i \in Nat, NEW n \in Nat \ {0}
  PROVE  /\ i < n => i % n = i
         /\ n <= i /\ i < 2 * n => i % n = i - n
         /\ i % n \in 0 .. n - 1
OBVIOUS

-----------------------------------------------------------------------------
(* Links of one router to others. *)

\* As many links as there are others.
LEMMA StarSize ==
  ASSUME NEW r, NEW S, IsFiniteSet(S), NEW V, r \notin V, NEW f \in [S -> V],
         \A s, t \in S : f[s] = f[t] => s = t,
         NEW T, T = {Link(r, f[s]) : s \in S}
  PROVE  Cardinality(T) = Cardinality(S)
<1> DEFINE F == [s \in S |-> Link(r, f[s])]
<1>1. F \in [S -> T]
  OBVIOUS
<1>2. ASSUME NEW s \in S, NEW t \in S, F[s] = F[t] PROVE s = t
  <2>1. f[s] # r /\ f[t] # r /\ {r, f[s]} = {r, f[t]}
    BY <1>2 DEF Link
  <2>2. f[s] = f[t]
    BY <2>1
  <2> QED
    BY <2>2
<1>3. \A l \in T : \E s \in S : F[s] = l
  OBVIOUS
<1> HIDE DEF F
<1>4. F \in Bijection(S, T)
  BY <1>1, <1>2, <1>3, Fun_IsBij
<1>5. ExistsBijection(S, T)
  BY <1>4, Fun_ExistsBij
<1> QED
  BY <1>5, FS_Bijection

-----------------------------------------------------------------------------
(* A ring of routers, each linked with the next ones, is regular and joined. *)

Rings == {f \in [1 .. N -> routers] : IsInjective(f)}

At(ring, i) == ring[1 + (i % N)]

\* Where the routers are that the one at place 0 is linked with.
Offsets(d) == (1 .. d \div 2) \cup (N - d \div 2 .. N - 1) \cup (IF d % 2 = 1 THEN {N \div 2} ELSE {})

LEMMA RingHasAll ==
  ASSUME Requested, NEW ring \in Rings
  PROVE  /\ \A i \in 0 .. N - 1 : At(ring, i) = ring[i + 1] /\ At(ring, i) \in routers
         /\ \A i \in 0 .. N - 1 : At(ring, i + N) = At(ring, i)
         /\ \A i, j \in 0 .. N - 1 : At(ring, i) = At(ring, j) => i = j
         /\ \A r \in routers : \E i \in 0 .. N - 1 : At(ring, i) = r
<1>0. N \in Nat \ {0} /\ routers = 1 .. N /\ IsFiniteSet(1 .. N)
  BY DEF Requested
<1>1. ring \in [1 .. N -> 1 .. N] /\ \A a, b \in 1 .. N : ring[a] = ring[b] => a = b
  BY <1>0 DEF Rings, IsInjective
<1>2. ring \in Injection(1 .. N, 1 .. N)
  BY <1>1, Fun_IsInj
<1>3. ring \in Surjection(1 .. N, 1 .. N)
  BY <1>0, <1>2, FS_Injection
<1>4. \A r \in 1 .. N : \E i \in 1 .. N : ring[i] = r
  BY <1>3, Fun_SurjectionProperties
<1>5. ASSUME NEW i \in 0 .. N - 1
      PROVE  At(ring, i) = ring[i + 1] /\ At(ring, i + N) = ring[i + 1]
  <2>0. /\ i \in Nat /\ i < N
        /\ i + N \in Nat /\ N <= i + N /\ i + N < 2 * N /\ (i + N) - N = i
    BY <1>0
  <2>1. i % N = i
    BY <1>0, <2>0, DivMod
  <2>2. (i + N) % N = i
    <3>1. (i + N) % N = (i + N) - N
      BY <1>0, <2>0, DivMod
    <3> QED
      BY <2>0, <3>1
  <2>3. 1 + i = i + 1
    BY <2>0
  <2> QED
    BY <2>1, <2>2, <2>3 DEF At
<1>6. \A i \in 0 .. N - 1 : ring[i + 1] \in routers
  BY <1>0, <1>1
<1>7. ASSUME NEW r \in routers PROVE \E i \in 0 .. N - 1 : At(ring, i) = r
  <2>1. PICK k \in 1 .. N : ring[k] = r
    BY <1>0, <1>4
  <2>2. k - 1 \in 0 .. N - 1 /\ (k - 1) + 1 = k
    BY <1>0
  <2> QED
    BY <1>5, <2>1, <2>2
<1>8. ASSUME NEW i \in 0 .. N - 1, NEW j \in 0 .. N - 1, At(ring, i) = At(ring, j) PROVE i = j
  <2>1. i + 1 \in 1 .. N /\ j + 1 \in 1 .. N
    BY <1>0
  <2> QED
    BY <1>1, <1>5, <1>8, <2>1
<1> QED
  BY <1>5, <1>6, <1>7, <1>8

\* A sum of odd degrees is even only if there is an even number of them.
LEMMA OddIsEven ==
  ASSUME N \in Nat, NEW d \in RegularDegrees, d % 2 = 1
  PROVE  2 * (N \div 2) = N
<1>0. d \in 1 .. N - 1 /\ (N * d) % 2 = 0
  BY DEF RegularDegrees
<1>1. CASE N % 2 = 1
  <2>1. PICK a \in Int, b \in Int : N = 2 * a + 1 /\ d = 2 * b + 1
    <3>1. N = 2 * (N \div 2) + 1 /\ d = 2 * (d \div 2) + 1
      BY <1>0, <1>1
    <3> QED
      BY <1>0, <3>1
  <2>2. N * d = 2 * (2 * (a * b) + a + b) + 1
    BY <2>1
  <2>3. a * b \in Int
    OBVIOUS
  <2> QED
    BY <1>0, <2>2, <2>3
<1> QED
  BY <1>1

LEMMA OffsetsCounted ==
  ASSUME Requested, N > 2, NEW d \in RegularDegrees
  PROVE  /\ Offsets(d) \subseteq 1 .. N - 1
         /\ IsFiniteSet(Offsets(d)) /\ Cardinality(Offsets(d)) = d
<1> DEFINE h == d \div 2
           A == 1 .. h
           B == N - h .. N - 1
           C == IF d % 2 = 1 THEN {N \div 2} ELSE {}
<1>0. N \in Nat /\ d \in 2 .. N - 1 /\ (N * d) % 2 = 0
  BY DEF Requested, RegularDegrees
<1>1. h \in 1 .. N - 1 /\ 2 * h < N /\ d = 2 * h + (d % 2)
  <2>1. d \in Nat /\ d >= 2 /\ d < N
    BY <1>0
  <2>2. d = 2 * (d \div 2) + (d % 2) /\ d % 2 \in {0, 1} /\ d \div 2 \in Int
    BY <2>1
  <2> QED
    BY <1>0, <2>1, <2>2
<1>2. d % 2 = 1 => 2 * (N \div 2) = N
  BY <1>0, OddIsEven
<1>3. d % 2 = 1 => 2 * (N \div 2) = N /\ h < N \div 2 /\ N \div 2 < N - h
  BY <1>0, <1>1, <1>2
<1>4. /\ IsFiniteSet(A) /\ Cardinality(A) = h
      /\ IsFiniteSet(B) /\ Cardinality(B) = h
  BY <1>0, <1>1, FS_Interval
<1>5. A \cap B = {}
  BY <1>0, <1>1
<1>6. IsFiniteSet(A \cup B) /\ Cardinality(A \cup B) = 2 * h
  <2>1. Cardinality(A \cap B) = 0
    BY <1>5, FS_EmptySet
  <2> HIDE DEF h, A, B
  <2>2. /\ IsFiniteSet(A \cup B)
        /\ Cardinality(A \cup B) = Cardinality(A) + Cardinality(B) - Cardinality(A \cap B)
    BY <1>4, FS_Union, Zenon
  <2> QED
    BY <1>1, <1>4, <2>1, <2>2
<1>7. CASE d % 2 = 1
  <2>1. N \div 2 \notin A \cup B
    BY <1>0, <1>1, <1>3, <1>7
  <2>2. /\ IsFiniteSet((A \cup B) \cup {N \div 2})
        /\ Cardinality((A \cup B) \cup {N \div 2}) = 2 * h + 1
    BY <1>6, <2>1, FS_AddElement
  <2>3. Offsets(d) = (A \cup B) \cup {N \div 2} /\ d = 2 * h + 1
    BY <1>1, <1>7 DEF Offsets
  <2>4. N \div 2 \in 1 .. N - 1 /\ A \subseteq 1 .. N - 1 /\ B \subseteq 1 .. N - 1
    BY <1>0, <1>1, <1>3, <1>7
  <2> QED
    BY <2>2, <2>3, <2>4
<1>8. CASE d % 2 # 1
  <2>1. Offsets(d) = A \cup B
    BY <1>8 DEF Offsets
  <2>2. d = 2 * h
    BY <1>0, <1>1, <1>8
  <2>3. A \subseteq 1 .. N - 1 /\ B \subseteq 1 .. N - 1
    BY <1>0, <1>1
  <2> QED
    BY <1>6, <2>1, <2>2, <2>3
<1> QED
  BY <1>7, <1>8

\* A router and the one that is o places further know each other as o and N - o.
LEMMA TurnBack ==
  ASSUME Requested, NEW ring \in Rings, NEW i \in 0 .. N - 1, NEW o \in 1 .. N - 1
  PROVE  \E k \in 0 .. N - 1 :
           /\ k = i + o \/ k = i + o - N
           /\ k # i
           /\ At(ring, i + o) = At(ring, k) /\ At(ring, k + (N - o)) = At(ring, i)
<1>0. N \in Nat \ {0}
  BY DEF Requested
<1>1. CASE i + o < N
  <2>1. i + o \in 0 .. N - 1 /\ i + o # i /\ (i + o) + (N - o) = i + N
    BY <1>0, <1>1
  <2>2. At(ring, i + N) = At(ring, i)
    BY RingHasAll
  <2> QED
    BY <2>1, <2>2
<1>2. CASE i + o >= N
  <2>1. /\ i + o - N \in 0 .. N - 1 /\ i + o - N # i
        /\ (i + o - N) + (N - o) = i /\ i + o = (i + o - N) + N
    BY <1>0, <1>2
  <2>2. At(ring, (i + o - N) + N) = At(ring, i + o - N)
    BY <2>1, RingHasAll
  <2> QED
    BY <2>1, <2>2
<1> QED
  BY <1>0, <1>1, <1>2

\* The other way round, the same offsets.
LEMMA OffsetsBack ==
  ASSUME Requested, N > 2, NEW d \in RegularDegrees, NEW o \in Offsets(d)
  PROVE  N - o \in Offsets(d)
<1>0. N \in Nat /\ d \in Nat /\ d \div 2 \in Int /\ o \in 1 .. N - 1
  BY OffsetsCounted DEF Requested, RegularDegrees
<1>1. CASE o \in 1 .. d \div 2
  BY <1>0, <1>1 DEF Offsets
<1>2. CASE o \in N - d \div 2 .. N - 1
  BY <1>0, <1>2 DEF Offsets
<1>3. CASE d % 2 = 1 /\ o = N \div 2
  <2>1. N - o = o
    BY <1>0, <1>3, OddIsEven
  <2> QED
    BY <2>1
<1> QED
  BY <1>1, <1>2, <1>3 DEF Offsets

\* Each link of the ring, seen from either of its routers.
LEMMA RingLinks ==
  ASSUME Requested, N > 2, NEW d \in RegularDegrees, NEW ring \in Rings, NEW l
  PROVE  l \in Circulant(ring, d) <=>
           \E i \in 0 .. N - 1, o \in Offsets(d) : l = Link(At(ring, i), At(ring, i + o))
<1> DEFINE h == d \div 2
<1>0. N \in Nat \ {0} /\ d \in Nat /\ h \in Int /\ Offsets(d) \subseteq 1 .. N - 1
  BY OffsetsCounted DEF Requested, RegularDegrees
<1>1. l \in Circulant(ring, d) <=>
        \/ \E i \in 0 .. N - 1, o \in 1 .. h : l = Link(At(ring, i), At(ring, i + o))
        \/ /\ d % 2 = 1
           /\ \E i \in 0 .. (N \div 2) - 1 : l = Link(At(ring, i), At(ring, i + N \div 2))
  BY DEF Circulant, At
<1>2. ASSUME l \in Circulant(ring, d)
      PROVE  \E i \in 0 .. N - 1, o \in Offsets(d) : l = Link(At(ring, i), At(ring, i + o))
  <2>1. (0 .. (N \div 2) - 1) \subseteq 0 .. N - 1
    BY <1>0
  <2> QED
    BY <1>1, <1>2, <2>1 DEF Offsets
<1>3. ASSUME NEW i \in 0 .. N - 1, NEW o \in Offsets(d), l = Link(At(ring, i), At(ring, i + o))
      PROVE  l \in Circulant(ring, d)
  <2>1. CASE o \in 1 .. h
    BY <1>1, <1>3, <2>1
  <2>2. PICK k \in 0 .. N - 1 : /\ k = i + o \/ k = i + o - N
                               /\ At(ring, i + o) = At(ring, k)
                               /\ At(ring, k + (N - o)) = At(ring, i)
    BY <1>0, TurnBack
  <2>3. l = Link(At(ring, k), At(ring, k + (N - o)))
    BY <1>3, <2>2 DEF Link
  <2>4. CASE o \in N - h .. N - 1
    <3>1. N - o \in 1 .. h
      BY <1>0, <2>4
    <3> QED
      BY <1>1, <2>3, <3>1
  <2>5. CASE d % 2 = 1 /\ o = N \div 2
    <3>1. 2 * o = N /\ N - o = o
      BY <1>0, <2>5, OddIsEven
    <3>2. CASE i < o
      BY <1>0, <1>1, <1>3, <2>5, <3>1, <3>2
    <3>3. CASE i >= o
      <4>1. k \in 0 .. o - 1
        BY <1>0, <2>2, <3>1, <3>3
      <4> QED
        BY <1>1, <2>3, <2>5, <3>1, <4>1
    <3> QED
      BY <1>0, <3>1, <3>2, <3>3
  <2> QED
    BY <2>1, <2>4, <2>5 DEF Offsets
<1> QED
  BY <1>2, <1>3

LEMMA RingIsRegular ==
  ASSUME Requested, N > 2, NEW d \in RegularDegrees, NEW ring \in Rings
  PROVE  /\ Circulant(ring, d) \subseteq kSubset(2, routers)
         /\ \A r \in routers : Degree(r, Circulant(ring, d)) = d
         /\ Joined(Circulant(ring, d), routers)
<1> DEFINE L == Circulant(ring, d)
<1>0. N \in Nat \ {0} /\ d \in Nat /\ d \div 2 \in 1 .. N - 1 /\ ring \in [1 .. N -> routers]
  BY DEF Requested, RegularDegrees, Rings
<1>1. Offsets(d) \subseteq 1 .. N - 1 /\ IsFiniteSet(Offsets(d)) /\ Cardinality(Offsets(d)) = d
  BY OffsetsCounted
<1>2. \A l : l \in L <=>
        \E i \in 0 .. N - 1, o \in Offsets(d) : l = Link(At(ring, i), At(ring, i + o))
  BY RingLinks
<1>3. /\ \A i \in 0 .. N - 1 : At(ring, i) = ring[i + 1] /\ At(ring, i) \in routers
      /\ \A i, j \in 0 .. N - 1 : At(ring, i) = At(ring, j) => i = j
      /\ \A r \in routers : \E i \in 0 .. N - 1 : At(ring, i) = r
  BY RingHasAll
<1> HIDE DEF L
<1>4. ASSUME NEW i \in 0 .. N - 1, NEW o \in Offsets(d)
      PROVE  At(ring, i + o) \in routers /\ At(ring, i) # At(ring, i + o)
  <2>1. PICK k \in 0 .. N - 1 : k # i /\ At(ring, i + o) = At(ring, k)
    BY <1>1, TurnBack
  <2> QED
    BY <1>3, <2>1
<1>5. L \subseteq kSubset(2, routers)
  <2> SUFFICES ASSUME NEW l \in L PROVE l \in kSubset(2, routers)
    OBVIOUS
  <2>1. PICK i \in 0 .. N - 1, o \in Offsets(d) : l = Link(At(ring, i), At(ring, i + o))
    BY <1>2
  <2> QED
    BY <1>3, <1>4, <2>1, PairIsLink
<1>6. ASSUME NEW r \in routers PROVE Degree(r, L) = d
  <2>1. PICK j \in 0 .. N - 1 : At(ring, j) = r
    BY <1>3
  <2> DEFINE f == [o \in Offsets(d) |-> At(ring, j + o)]
  <2>2. \A o \in Offsets(d) : f[o] # r
    BY <1>4, <2>1
  <2>3. ASSUME NEW o \in Offsets(d), NEW q \in Offsets(d), f[o] = f[q] PROVE o = q
    <3>4. o \in 1 .. N - 1 /\ q \in 1 .. N - 1
      BY <1>1
    <3>1. PICK k \in 0 .. N - 1 : /\ k = j + o \/ k = j + o - N
                                 /\ At(ring, j + o) = At(ring, k)
      BY <3>4, TurnBack
    <3>2. PICK m \in 0 .. N - 1 : /\ m = j + q \/ m = j + q - N
                                 /\ At(ring, j + q) = At(ring, m)
      BY <3>4, TurnBack
    <3>3. k = m
      BY <1>3, <2>3, <3>1, <3>2
    <3> QED
      BY <1>0, <3>1, <3>2, <3>3, <3>4
  <2>4. \A o, q \in Offsets(d) : f[o] = f[q] => o = q
    BY <2>3
  <2>5. {l \in L : r \in l} = {Link(r, f[o]) : o \in Offsets(d)}
    <3>1. ASSUME NEW o \in Offsets(d) PROVE Link(r, f[o]) \in L /\ r \in Link(r, f[o])
      BY <1>2, <2>1 DEF Link
    <3>2. ASSUME NEW l \in L, r \in l PROVE \E o \in Offsets(d) : l = Link(r, f[o])
      <4>1. PICK i \in 0 .. N - 1, o \in Offsets(d) : l = Link(At(ring, i), At(ring, i + o))
        BY <1>2
      <4>2. CASE At(ring, i) = r
        BY <1>3, <2>1, <4>1, <4>2
      <4>3. CASE At(ring, i + o) = r
        <5>0. o \in 1 .. N - 1
          BY <1>1
        <5>1. PICK k \in 0 .. N - 1 : /\ At(ring, i + o) = At(ring, k)
                                     /\ At(ring, k + (N - o)) = At(ring, i)
          BY <5>0, TurnBack
        <5>2. k = j
          BY <1>3, <2>1, <4>3, <5>1
        <5>3. N - o \in Offsets(d)
          BY OffsetsBack
        <5>4. l = Link(r, f[N - o])
          BY <4>1, <4>3, <5>1, <5>2, <5>3 DEF Link
        <5> QED
          BY <5>3, <5>4
      <4> QED
        BY <3>2, <4>1, <4>2, <4>3 DEF Link
    <3> QED
      BY <3>1, <3>2
  <2>6. f \in [Offsets(d) -> routers \ {r}]
    BY <1>4, <2>1, <2>2
  <2> HIDE DEF f
  <2> DEFINE S == Offsets(d)
             V == routers \ {r}
             T == {l \in L : r \in l}
  <2>7. /\ IsFiniteSet(S) /\ r \notin V /\ f \in [S -> V]
        /\ \A o, q \in S : f[o] = f[q] => o = q
        /\ T = {Link(r, f[o]) : o \in S}
    BY <1>1, <2>4, <2>5, <2>6
  <2> HIDE DEF S, V, T
  <2>8. Cardinality(T) = Cardinality(S)
    BY <2>7, StarSize
  <2> QED
    BY <1>1, <2>8 DEF Degree, S, T
<1>7. Joined(L, routers)
  <2>1. \A r \in routers : \E i \in 1 .. N : ring[i] = r
    <3> SUFFICES ASSUME NEW r \in routers PROVE \E i \in 1 .. N : ring[i] = r
      OBVIOUS
    <3>1. PICK i \in 0 .. N - 1 : At(ring, i) = r
      BY <1>3
    <3>2. i + 1 \in 1 .. N /\ ring[i + 1] = r
      BY <1>0, <1>3, <3>1
    <3> QED
      BY <3>2
  <2>2. 1 \in Offsets(d)
    BY <1>0 DEF Offsets
  <2>3. ASSUME NEW i \in 1 .. N - 1 PROVE {ring[i], ring[i + 1]} \in L
    <3>1. i - 1 \in 0 .. N - 1 /\ i \in 0 .. N - 1 /\ (i - 1) + 1 = i
      BY <1>0
    <3>2. At(ring, i - 1) = ring[i] /\ At(ring, (i - 1) + 1) = ring[i + 1]
      <4>1. At(ring, i - 1) = ring[(i - 1) + 1] /\ At(ring, i) = ring[i + 1]
        BY <1>3, <3>1
      <4> QED
        BY <3>1, <4>1
    <3>3. Link(At(ring, i - 1), At(ring, (i - 1) + 1)) \in L
      BY <1>2, <2>2, <3>1
    <3> QED
      BY <3>2, <3>3 DEF Link
  <2>4. \A i \in 1 .. N - 1 : {ring[i], ring[i + 1]} \in L
    BY <2>3
  <2>5. N \in Nat /\ ring \in [1 .. N -> routers]
    BY <1>0
  <2> QED
    BY <2>1, <2>4, <2>5, JoinedInLine
<1> QED
  BY <1>5, <1>6, <1>7 DEF L

\* A chain is joined; and of two routers, each has its one link.
LEMMA ChainIsJoined ==
  ASSUME Requested, N > 1
  PROVE  /\ Chain \subseteq kSubset(2, routers)
         /\ Joined(Chain, routers)
         /\ N = 2 => \A r \in routers : Degree(r, Chain) = 1
<1>0. N \in Nat /\ routers = 1 .. N
  BY DEF Requested
<1>1. ASSUME NEW r \in routers \ {N} PROVE Link(r, r + 1) \in kSubset(2, routers)
  <2>1. r \in routers /\ r + 1 \in routers /\ r # r + 1
    BY <1>0
  <2> QED
    BY <2>1, PairIsLink
<1>2. Joined(Chain, routers)
  <2> DEFINE line == [i \in 1 .. N |-> i]
  <2>1. line \in [1 .. N -> routers] /\ \A r \in routers : \E i \in 1 .. N : line[i] = r
    BY <1>0
  <2>2. ASSUME NEW i \in 1 .. N - 1 PROVE {line[i], line[i + 1]} \in Chain
    <3>1. i \in routers \ {N} /\ line[i] = i /\ line[i + 1] = i + 1
      BY <1>0
    <3> QED
      BY <3>1 DEF Chain, Link
  <2> HIDE DEF line
  <2> QED
    BY <1>0, <2>1, <2>2, JoinedInLine
<1>3. ASSUME N = 2, NEW r \in routers PROVE Degree(r, Chain) = 1
  <2>1. Chain = {{1, 2}}
    <3>1. routers \ {N} = {1} /\ 1 + 1 = 2
      BY <1>0, <1>3
    <3> QED
      BY <3>1 DEF Chain, Link
  <2>2. r \in {1, 2}
    BY <1>0, <1>3
  <2>3. {l \in Chain : r \in l} = {{1, 2}}
    BY <2>1, <2>2
  <2> QED
    BY <2>3, FS_Singleton DEF Degree
<1> QED
  BY <1>1, <1>2, <1>3 DEF Chain

-----------------------------------------------------------------------------
(* Needs that can all be served: they differ by one at most, none is more than *)
(* the other routers, and their sum is even.                                *)

Most(w, m) == {r \in DOMAIN w : w[r] = m}

\* All needs are m or one less.
Near(w, m) ==
  /\ IsFiniteSet(DOMAIN w)
  /\ \A r \in DOMAIN w : w[r] \in Nat /\ (w[r] = m \/ w[r] = m - 1)
  /\ DOMAIN w # {} => m < Cardinality(DOMAIN w)
  /\ (Cardinality(DOMAIN w) * (m - 1) + Cardinality(Most(w, m))) % 2 = 0

\* And one needs m.
Level(w, m) == Near(w, m) /\ (DOMAIN w # {} => Most(w, m) # {})

\* If none needs m, all need m - 1.
LEMMA NearIsLevel ==
  ASSUME NEW w, NEW m \in Int, Near(w, m)
  PROVE  \E k \in Int : Level(w, k)
<1>1. CASE DOMAIN w = {} \/ Most(w, m) # {}
  BY <1>1 DEF Level
<1>2. CASE DOMAIN w # {} /\ Most(w, m) = {}
  <2> DEFINE n == Cardinality(DOMAIN w)
  <2>1. n \in Nat
    BY FS_CardinalityType DEF Near
  <2>2. \A r \in DOMAIN w : w[r] \in Nat /\ w[r] = m - 1
    BY <1>2 DEF Near, Most
  <2>3. Most(w, m - 1) = DOMAIN w
    BY <2>2 DEF Most
  <2>4. Cardinality(Most(w, m)) = 0
    BY <1>2, FS_EmptySet
  <2>5. n * ((m - 1) - 1) + n = n * (m - 1) + 0
    BY <2>1
  <2>6. (n * ((m - 1) - 1) + n) % 2 = 0
    BY <2>4, <2>5 DEF Near
  <2>7. m < n /\ m - 1 < n
    BY <1>2, <2>1 DEF Near
  <2>8. Near(w, m - 1)
    BY <2>2, <2>3, <2>6, <2>7 DEF Near
  <2> QED
    BY <1>2, <2>3, <2>8 DEF Level
<1> QED
  BY <1>1, <1>2

\* One router is served by others, the neediest of them.
Serve(w, r, T) == [o \in DOMAIN w \ {r} |-> IF o \in T THEN w[o] - 1 ELSE w[o]]

LEMMA ServedStaysLevel ==
  ASSUME NEW w, NEW m \in Int, Level(w, m),
         NEW r \in DOMAIN w, w[r] > 0, \A q \in DOMAIN w : w[q] <= w[r],
         NEW T \in SUBSET (DOMAIN w \ {r}), Cardinality(T) = w[r],
         \A t \in T, o \in (DOMAIN w \ {r}) \ T : w[o] <= w[t]
  PROVE  /\ \A t \in T : w[t] # 0
         /\ \E k \in Int : Level(Serve(w, r, T), k)
<1> DEFINE D == DOMAIN w
           n == Cardinality(D)
           O == D \ {r}
           M == Most(w, m) \ {r}
           a == Cardinality(M)
           v == Serve(w, r, T)
<1>1. /\ IsFiniteSet(D) /\ n \in Nat /\ m < n
      /\ \A o \in D : w[o] \in Nat /\ (w[o] = m \/ w[o] = m - 1)
  BY FS_CardinalityType DEF Level, Near
<1>2. w[r] = m /\ m > 0
  <2>1. PICK q \in D : w[q] = m
    BY DEF Level, Most
  <2> QED
    BY <1>1, <2>1
<1>3. IsFiniteSet(O) /\ Cardinality(O) = n - 1
  BY <1>1, FS_RemoveElement
<1>4. /\ IsFiniteSet(T) /\ IsFiniteSet(M) /\ M \subseteq O /\ T \subseteq O
      /\ Cardinality(T) = m /\ a \in Nat /\ a <= n - 1
  <2>1. M \subseteq O /\ T \subseteq O /\ Cardinality(T) = m
    BY <1>2 DEF Most
  <2> QED
    BY <1>3, <2>1, FS_Subset, FS_CardinalityType
<1>5. Cardinality(Most(w, m)) = a + 1
  <2>1. r \in Most(w, m) /\ IsFiniteSet(Most(w, m))
    BY <1>1, <1>2, FS_Subset DEF Most
  <2>2. a = Cardinality(Most(w, m)) - 1 /\ Cardinality(Most(w, m)) \in Nat
    BY <2>1, FS_RemoveElement, FS_CardinalityType
  <2> QED
    BY <2>2
<1>6. (n * (m - 1) + a + 1) % 2 = 0
  BY <1>1, <1>4, <1>5 DEF Level, Near
<1>7. (n - 1) * (m - 1) = n * (m - 1) - (m - 1) /\ (n - 1) * (m - 2) = n * (m - 1) - n - (m - 2)
  BY <1>1
<1>8. n * (m - 1) \in Int
  BY <1>1
<1>9. \A o \in O : (o \in M <=> w[o] = m) /\ (o \notin M <=> w[o] = m - 1)
  BY <1>1 DEF Most
<1>10. DOMAIN v = O /\ \A o \in O : v[o] = IF o \in T THEN w[o] - 1 ELSE w[o]
  BY DEF Serve
<1> HIDE DEF n, a, M, O, v
<1>11. CASE a > m
  <2>1. T \subseteq M
    <3> SUFFICES ASSUME NEW t \in T, t \notin M PROVE FALSE
      OBVIOUS
    <3>1. M \subseteq T
      BY <1>1, <1>4, <1>9 DEF O
    <3>2. a <= m
      BY <1>4, <3>1, FS_Subset DEF a
    <3> QED
      BY <1>4, <1>11, <3>2
  <2>2. \A t \in T : w[t] = m
    BY <1>4, <1>9, <2>1
  <2>3. \A o \in O : (o \in M \ T => v[o] = m) /\ (o \notin M \ T => v[o] = m - 1)
    BY <1>4, <1>9, <1>10, <2>1
  <2>4. Most(v, m) = M \ T
    BY <1>4, <1>10, <2>3 DEF Most
  <2>5. Cardinality(M \ T) = a - m
    <3>1. M \cap T = T
      BY <2>1
    <3>2. Cardinality(M \ T) = Cardinality(M) - Cardinality(M \cap T)
      BY <1>4, FS_Difference
    <3> QED
      BY <1>4, <3>1, <3>2 DEF a
  <2>6. ((n - 1) * (m - 1) + (a - m)) % 2 = 0
    <3>1. (n - 1) * (m - 1) + (a - m) = (n * (m - 1) + a + 1) - 2 * m
      BY <1>1, <1>4, <1>7
    <3> QED
      BY <1>4, <1>6, <1>8, <3>1
  <2>7. m < n - 1
    BY <1>1, <1>4, <1>11
  <2>8. \A o \in O : v[o] \in Nat /\ (v[o] = m \/ v[o] = m - 1)
    BY <1>2, <2>3
  <2>9. Near(v, m)
    BY <1>3, <1>10, <2>4, <2>5, <2>6, <2>7, <2>8 DEF Near
  <2> QED
    BY <1>2, <2>2, <2>9, NearIsLevel DEF v
<1>12. CASE a <= m
  <2>1. M \subseteq T
    <3> SUFFICES ASSUME NEW x \in M, x \notin T PROVE FALSE
      OBVIOUS
    <3>1. T \subseteq M
      BY <1>1, <1>4, <1>9 DEF O
    <3>2. Cardinality(T \cup {x}) = m + 1 /\ T \cup {x} \subseteq M
      BY <1>4, <3>1, FS_AddElement
    <3>3. m + 1 <= a
      BY <1>4, <3>2, FS_Subset DEF a
    <3> QED
      BY <1>4, <1>12, <3>3
  <2>2. IsFiniteSet(T \ M) /\ Cardinality(T \ M) = m - a
    <3>1. T \cap M = M
      BY <2>1
    <3>2. IsFiniteSet(T \ M) /\ Cardinality(T \ M) = Cardinality(T) - Cardinality(T \cap M)
      BY <1>4, FS_Difference
    <3> QED
      BY <1>4, <3>1, <3>2 DEF a
  <2>3. ASSUME NEW t \in T PROVE w[t] # 0
    <3> SUFFICES ASSUME w[t] = 0 PROVE FALSE
      OBVIOUS
    <3>1. m = 1 /\ t \notin M
      BY <1>2, <1>4, <1>9
    <3>2. Cardinality(T \ M) # 0
      BY <2>2, <3>1, FS_EmptySet
    <3>3. a = 0
      BY <1>4, <1>12, <2>2, <3>1, <3>2
    <3>4. n * (m - 1) = 0
      BY <1>1, <3>1
    <3> QED
      BY <1>6, <3>3, <3>4
  <2>4. \A o \in O : (o \in O \ (T \ M) => v[o] = m - 1) /\ (o \in T \ M => v[o] = m - 2)
    BY <1>2, <1>4, <1>9, <1>10, <2>1
  <2>5. Most(v, m - 1) = O \ (T \ M)
    BY <1>2, <1>4, <1>10, <2>4 DEF Most
  <2>6. Cardinality(O \ (T \ M)) = (n - 1) - (m - a)
    <3>1. O \cap (T \ M) = T \ M
      BY <1>4
    <3>2. Cardinality(O \ (T \ M)) = Cardinality(O) - Cardinality(O \cap (T \ M))
      BY <1>3, FS_Difference
    <3> QED
      BY <1>3, <2>2, <3>1, <3>2
  <2>7. ((n - 1) * (m - 2) + ((n - 1) - (m - a))) % 2 = 0
    <3>1. (n - 1) * (m - 2) + ((n - 1) - (m - a)) = (n * (m - 1) + a + 1) - 2 * m
      BY <1>1, <1>4, <1>7
    <3> QED
      BY <1>4, <1>6, <1>8, <3>1
  <2>8. \A o \in O : v[o] \in Nat /\ (v[o] = m - 1 \/ v[o] = m - 2)
    <3> SUFFICES ASSUME NEW o \in O PROVE v[o] \in Nat /\ (v[o] = m - 1 \/ v[o] = m - 2)
      OBVIOUS
    <3>1. w[o] \in Nat
      BY <1>1 DEF O
    <3> QED
      BY <1>2, <1>10, <2>3, <2>4, <3>1
  <2>9. m - 1 < n - 1 /\ (m - 1) - 1 = m - 2 /\ m - 1 \in Int
    BY <1>1
  <2>10. Near(v, m - 1)
    BY <1>3, <1>10, <2>5, <2>6, <2>7, <2>8, <2>9 DEF Near
  <2> QED
    BY <2>3, <2>9, <2>10, NearIsLevel DEF v
<1> QED
  BY <1>1, <1>4, <1>11, <1>12

\* The degrees asked for, and what is left of the parity, are such needs.
LEMMA DegreesAreLevel ==
  ASSUME Requested, N > 1, NEW d \in 0 .. N - 1
  PROVE  /\ DOMAIN Degrees(d) = routers
         /\ \A r \in routers : Degrees(d)[r] \in 0 .. N
         /\ Level(Degrees(d), d)
<1> DEFINE w == Degrees(d)
<1>0. /\ N \in Nat /\ routers = 1 .. N /\ IsFiniteSet(routers) /\ Cardinality(routers) = N
      /\ d \in Nat /\ d < N
  BY DEF Requested, N
<1>1. DOMAIN w = routers /\ \A r \in routers : w[r] = IF r = N /\ (N * d) % 2 = 1 THEN d - 1 ELSE d
  BY DEF Degrees
<1>2. N * d \in Int /\ (N * d) % 2 \in {0, 1} /\ N * (d - 1) = N * d - N
  BY <1>0
<1>3. (N * d) % 2 = 1 => d > 0
  BY <1>0
<1> HIDE DEF w
<1>4. \A r \in routers : w[r] \in Nat /\ (w[r] = d \/ w[r] = d - 1) /\ w[r] \in 0 .. N
  BY <1>0, <1>1, <1>3
<1>5. CASE (N * d) % 2 = 0
  <2>1. Most(w, d) = routers
    BY <1>1, <1>5 DEF Most
  <2>2. N * (d - 1) + N = N * d
    BY <1>0, <1>2
  <2>3. Near(w, d)
    BY <1>0, <1>1, <1>4, <1>5, <2>1, <2>2 DEF Near
  <2> QED
    BY <1>1, <1>4, <2>1, <2>3 DEF Level, w
<1>6. CASE (N * d) % 2 = 1
  <2>1. Most(w, d) = routers \ {N}
    BY <1>0, <1>1, <1>6 DEF Most
  <2>2. Cardinality(routers \ {N}) = N - 1 /\ 1 \in routers \ {N}
    <3>1. N \in routers /\ 1 \in routers /\ 1 # N
      BY <1>0
    <3>2. Cardinality(routers \ {N}) = Cardinality(routers) - 1
      BY <1>0, <3>1, FS_RemoveElement
    <3> QED
      BY <1>0, <3>1, <3>2
  <2>3. (N * (d - 1) + (N - 1)) % 2 = 0
    <3>1. N * (d - 1) + (N - 1) = N * d - 1
      BY <1>0, <1>2
    <3> QED
      BY <1>2, <1>6, <3>1
  <2>4. Near(w, d)
    BY <1>0, <1>1, <1>4, <2>1, <2>2, <2>3 DEF Near
  <2> QED
    BY <1>1, <1>4, <2>1, <2>2, <2>4 DEF Level, w
<1> QED
  BY <1>2, <1>5, <1>6

StarOf(r, T) == {Link(r, t) : t \in T}

LEMMA DegreeIsNat ==
  ASSUME Requested, NEW L, L \subseteq kSubset(2, routers), NEW r
  PROVE  IsFiniteSet({l \in L : r \in l}) /\ Degree(r, L) \in Nat
<1>1. L \subseteq SUBSET routers /\ IsFiniteSet(routers)
  BY DEF Requested, kSubset
<1>2. IsFiniteSet({l \in L : r \in l})
  <2>1. {l \in L : r \in l} \subseteq SUBSET routers
    BY <1>1
  <2> QED
    BY <1>1, <2>1, FS_SUBSET, FS_Subset
<1> QED
  BY <1>2, FS_CardinalityType DEF Degree

LEMMA StarIsLinks ==
  ASSUME Requested, NEW r \in routers, NEW T, T \subseteq routers \ {r}
  PROVE  StarOf(r, T) \subseteq kSubset(2, routers)
BY PairIsLink DEF StarOf

\* Links of one router to others raise its degree by their number, theirs by one.
LEMMA StarDegrees ==
  ASSUME Requested, NEW L \in SUBSET kSubset(2, routers),
         NEW r \in routers, NEW T \in SUBSET (routers \ {r}),
         \A t \in T : Link(r, t) \notin L,
         NEW K, K = L \cup StarOf(r, T)
  PROVE  /\ Degree(r, K) = Degree(r, L) + Cardinality(T)
         /\ \A q \in routers \ {r} :
              Degree(q, K) = IF q \in T THEN Degree(q, L) + 1 ELSE Degree(q, L)
<1>1. K = L \cup {Link(r, t) : t \in T} /\ K \subseteq kSubset(2, routers)
  BY StarIsLinks DEF StarOf
<1>2. IsFiniteSet(T) /\ \A q : IsFiniteSet({l \in L : q \in l})
  <2>1. T \subseteq routers /\ IsFiniteSet(routers)
    BY DEF Requested
  <2>2. IsFiniteSet(T)
    BY <2>1, FS_Subset
  <2> QED
    BY <2>2, DegreeIsNat
<1>3. IsFiniteSet({l \in K : r \in l})
  BY <1>1, DegreeIsNat
<1>4. Degree(r, K) = Degree(r, L) + Cardinality(T)
  <2> DEFINE A == {l \in L : r \in l}
             B == {Link(r, t) : t \in T}
             id == [t \in T |-> t]
             V == routers \ {r}
  <2>1. {l \in K : r \in l} = A \cup B
    BY <1>1 DEF Link
  <2>2. A \cap B = {}
    OBVIOUS
  <2>3. B = {Link(r, id[t]) : t \in T} /\ id \in [T -> V] /\ r \notin V
    OBVIOUS
  <2>4. \A t, q \in T : id[t] = id[q] => t = q
    OBVIOUS
  <2>5. IsFiniteSet(B)
    <3>1. B \subseteq {l \in K : r \in l}
      BY <1>1 DEF Link
    <3> QED
      BY <1>3, <3>1, FS_Subset
  <2> HIDE DEF A, B, id, V
  <2>6. Cardinality(B) = Cardinality(T)
    BY <1>2, <2>3, <2>4, StarSize
  <2>7. IsFiniteSet(A)
    BY <1>2 DEF A
  <2>8. Cardinality(A \cup B) = Cardinality(A) + Cardinality(B) - Cardinality(A \cap B)
    BY <2>5, <2>7, FS_Union
  <2>9. Cardinality(A \cap B) = 0 /\ Cardinality(A) \in Nat /\ Cardinality(B) \in Nat
    BY <2>2, <2>5, <2>7, FS_EmptySet, FS_CardinalityType
  <2>10. Degree(r, L) = Cardinality(A)
    BY DEF Degree, A
  <2>11. Degree(r, K) = Cardinality(A \cup B)
    BY <2>1 DEF Degree
  <2> QED
    BY <2>6, <2>8, <2>9, <2>10, <2>11
<1>5. ASSUME NEW q \in T PROVE Degree(q, K) = Degree(q, L) + 1
  <2>1. {l \in K : q \in l} = {l \in L : q \in l} \cup {Link(r, q)}
    BY <1>1 DEF Link
  <2> DEFINE A == {l \in L : q \in l}
  <2>2. IsFiniteSet(A) /\ Link(r, q) \notin A
    BY <1>2
  <2>4. Degree(q, L) = Cardinality(A) /\ Degree(q, K) = Cardinality(A \cup {Link(r, q)})
    BY <2>1 DEF Degree
  <2> HIDE DEF A
  <2>3. Cardinality(A \cup {Link(r, q)}) = Cardinality(A) + 1
    BY <2>2, FS_AddElement
  <2> QED
    BY <2>3, <2>4
<1>6. ASSUME NEW q \in routers \ {r}, q \notin T PROVE Degree(q, K) = Degree(q, L)
  <2>1. {l \in K : q \in l} = {l \in L : q \in l}
    BY <1>6, <1>1 DEF Link
  <2> QED
    BY <2>1 DEF Degree
<1> QED
  BY <1>4, <1>5, <1>6

-----------------------------------------------------------------------------
(* The invariant. *)

Starts == drawing = "start" => links = {}

\* What the tree has reached is joined; the hubs are linked when it has reached all.
TreeJoined ==
  drawing \in {"tree", "rim"} =>
    /\ mode = "nonuniform" /\ tree # {} /\ Joined(links, tree)
    /\ drawing = "rim" => tree = routers

\* Each router has the links it needs or is to be served; no two of these are linked.
Owed ==
  /\ \A r \in routers : Degree(r, links) + (IF r \in DOMAIN work THEN work[r] ELSE 0) = goal[r]
  /\ \A l \in links : \E r \in l : r \notin DOMAIN work

AsAnnounced == goal = Degrees(Min({asked, N - 1}))

Serves ==
  drawing = "degrees" =>
    /\ mode = "exact" /\ N > 1 /\ AsAnnounced
    /\ Owed
    /\ \E m \in Int : Level(work, m)

Drawn ==
  drawing = "end" =>
    /\ mode \in {"min", "uniform", "nonuniform"} => Joined(links, routers)
    /\ N > 1 /\ mode \in {"uniform", "exact"} => \A r \in routers : Degree(r, links) = goal[r]
    /\ N > 1 /\ mode = "exact" => AsAnnounced

GraphInv == GraphTyped /\ Starts /\ TreeJoined /\ Serves /\ Drawn /\ NeverStuck

LEMMA InitStarts ==
  ASSUME GraphInit PROVE GraphInv
<1>1. PICK n \in 1 .. MaxRouters : routers = 1 .. n
  BY DEF GraphInit
<1>2. IsFiniteSet(routers) /\ N = n
  BY <1>1, RoutersAndDegrees, FS_Interval DEF N
<1>3. Requested
  BY <1>1, <1>2, RoutersAndDegrees DEF GraphInit, Requested
<1>4. DOMAIN work = {}
  BY DEF GraphInit
<1> QED
  BY <1>3, <1>4
     DEF GraphInit, GraphInv, GraphTyped, Starts, TreeJoined, Serves, Drawn, NeverStuck

\* The request stays what it is.
Asking == routers' = routers /\ mode' = mode /\ asked' = asked

LEMMA RequestStays ==
  ASSUME Requested, Asking
  PROVE  Requested' /\ N' = N
BY DEF Requested, Asking, N

LEMMA NoLinksKeeps ==
  ASSUME GraphInv, NoLinks PROVE GraphInv'
<1>1. /\ drawing = "start" /\ (N = 1 \/ mode = "none") /\ drawing' = "end"
      /\ Asking /\ links' = links /\ work' = work /\ goal' = goal
      /\ tree' = tree /\ hubs' = hubs /\ rim' = rim
  BY DEF NoLinks, Request, Asking
<1>2. Requested /\ Requested' /\ N' = N
  BY <1>1, RequestStays DEF GraphInv, GraphTyped
<1>3. GraphTyped'
  BY <1>1, <1>2 DEF GraphInv, GraphTyped, Asking
<1>4. N = 1 => Joined(links, routers)
  <2> SUFFICES ASSUME N = 1, NEW C \in SUBSET routers, C # {}, C # routers PROVE FALSE
    BY DEF Joined
  <2>1. routers = {1}
    BY <1>2 DEF Requested
  <2> QED
    BY <2>1
<1>5. Drawn'
  BY <1>1, <1>2, <1>4 DEF Drawn, Asking
<1> QED
  BY <1>1, <1>3, <1>5 DEF GraphInv, Starts, TreeJoined, Serves, NeverStuck

LEMMA DrawChainKeeps ==
  ASSUME GraphInv, DrawChain PROVE GraphInv'
<1>1. /\ drawing = "start" /\ N > 1 /\ mode = "min" /\ drawing' = "end"
      /\ Asking /\ links' = Chain /\ work' = work /\ goal' = goal
      /\ tree' = tree /\ hubs' = hubs /\ rim' = rim
  BY DEF DrawChain, Request, Asking
<1>2. Requested /\ Requested' /\ N' = N
  BY <1>1, RequestStays DEF GraphInv, GraphTyped
<1>3. Chain \subseteq kSubset(2, routers) /\ Joined(Chain, routers)
  BY <1>1, <1>2, ChainIsJoined
<1>4. GraphTyped'
  BY <1>1, <1>2, <1>3 DEF GraphInv, GraphTyped, Asking
<1>5. Drawn'
  BY <1>1, <1>3 DEF Drawn, Asking
<1> QED
  BY <1>1, <1>4, <1>5 DEF GraphInv, Starts, TreeJoined, Serves, NeverStuck

LEMMA DrawRegularKeeps ==
  ASSUME GraphInv, DrawRegular PROVE GraphInv'
<1>1. /\ drawing = "start" /\ N > 1 /\ mode = "uniform" /\ drawing' = "end"
      /\ Asking /\ work' = work /\ tree' = tree /\ hubs' = hubs /\ rim' = rim
  BY DEF DrawRegular, Request, Asking
<1>2. PICK d \in RegularDegrees, ring \in Rings :
        /\ links' = (IF N = 2 THEN Chain ELSE Circulant(ring, d))
        /\ goal' = [r \in routers |-> d]
  BY DEF DrawRegular, Chosen, Rings
<1>3. Requested /\ Requested' /\ N' = N /\ N \in Nat
  BY <1>1, RequestStays DEF GraphInv, GraphTyped, Requested
<1>4. /\ links' \subseteq kSubset(2, routers) /\ Joined(links', routers)
      /\ \A r \in routers : Degree(r, links') = goal'[r]
  <2>1. CASE N = 2
    <3>1. d = 1
      BY <2>1 DEF RegularDegrees
    <3>2. Chain \subseteq kSubset(2, routers) /\ Joined(Chain, routers)
          /\ \A r \in routers : Degree(r, Chain) = 1
      BY <1>1, <1>3, <2>1, ChainIsJoined
    <3> QED
      BY <1>2, <2>1, <3>1, <3>2
  <2>2. CASE N > 2
    <3>1. /\ Circulant(ring, d) \subseteq kSubset(2, routers)
          /\ \A r \in routers : Degree(r, Circulant(ring, d)) = d
          /\ Joined(Circulant(ring, d), routers)
      BY <1>3, <2>2, RingIsRegular
    <3> QED
      BY <1>2, <2>2, <3>1
  <2> QED
    BY <1>1, <1>3, <2>1, <2>2
<1>5. GraphTyped'
  BY <1>1, <1>3, <1>4 DEF GraphInv, GraphTyped, Asking
<1>6. Drawn'
  BY <1>1, <1>4 DEF Drawn, Asking, Degree
<1> QED
  BY <1>1, <1>5, <1>6 DEF GraphInv, Starts, TreeJoined, Serves, NeverStuck

\* The degrees are the same degrees while the request is the same.
LEMMA SameDegrees ==
  ASSUME Asking PROVE \A d : Degrees(d)' = Degrees(d)
BY DEF Asking, Degrees, N

LEMMA BeginExactKeeps ==
  ASSUME GraphInv, BeginExact PROVE GraphInv'
<1>1. /\ drawing = "start" /\ N > 1 /\ mode = "exact" /\ drawing' = "degrees"
      /\ goal' = Degrees(Min({asked, N - 1})) /\ work' = goal'
      /\ Asking /\ links' = links /\ tree' = tree /\ hubs' = hubs /\ rim' = rim
  BY DEF BeginExact, Request, Asking
<1>2. Requested /\ Requested' /\ N' = N /\ N \in Nat /\ asked \in Nat
  BY <1>1, RequestStays, RoutersAndDegrees DEF GraphInv, GraphTyped, Requested
<1> DEFINE d == Min({asked, N - 1})
<1>3. d \in 0 .. N - 1
  BY <1>1, <1>2, LeastOfTwo
<1> HIDE DEF d
<1>4. /\ DOMAIN Degrees(d) = routers
      /\ \A r \in routers : Degrees(d)[r] \in 0 .. N
      /\ Level(Degrees(d), d)
  BY <1>1, <1>2, <1>3, DegreesAreLevel
<1>5. work' = Degrees(d) /\ goal' = Degrees(d)
  BY <1>1 DEF d
<1>6. AsAnnounced'
  BY <1>1, <1>2 DEF AsAnnounced, Asking, Degrees
<1>7. links' = {}
  BY <1>1 DEF GraphInv, Starts
<1>8. Owed'
  <2>1. \A r : Degree(r, {}) = 0
    <3>1. \A r : {l \in {} : r \in l} = {}
      OBVIOUS
    <3> QED
      BY <3>1, FS_EmptySet DEF Degree
  <2>2. \A r \in routers : Degrees(d)[r] \in Int
    BY <1>2, <1>4
  <2>3. \A r \in routers : 0 + (IF r \in DOMAIN Degrees(d) THEN Degrees(d)[r] ELSE 0) = Degrees(d)[r]
    BY <1>4, <2>2
  <2> QED
    BY <1>1, <1>5, <1>7, <2>1, <2>3 DEF Owed, Asking, Degree
<1>9. GraphTyped'
  BY <1>1, <1>2, <1>4, <1>5 DEF GraphInv, GraphTyped, Asking
<1>10. \E m \in Int : Level(work', m)
  BY <1>3, <1>4, <1>5
<1>11. Serves'
  BY <1>1, <1>2, <1>6, <1>8, <1>10 DEF Serves, Asking, Level, Near, Most
<1> QED
  BY <1>1, <1>9, <1>11 DEF GraphInv, Starts, TreeJoined, Drawn, NeverStuck

LEMMA ServeRouterKeeps ==
  ASSUME GraphInv, ServeRouter PROVE GraphInv'
<1>1. /\ drawing = "degrees" /\ Asking
      /\ goal' = goal /\ tree' = tree /\ hubs' = hubs /\ rim' = rim
  BY DEF ServeRouter, Request, Asking
<1>2. Requested /\ Requested' /\ N' = N /\ N \in Nat
  BY <1>1, RequestStays DEF GraphInv, GraphTyped, Requested
<1>3. mode = "exact" /\ N > 1 /\ AsAnnounced /\ Owed
  BY <1>1 DEF GraphInv, Serves
<1>4. PICK m \in Int : Level(work, m)
  BY <1>1 DEF GraphInv, Serves
<1> DEFINE Others(r) == DOMAIN work \ {r}
<1>5. PICK r \in DOMAIN work :
        /\ \A q \in DOMAIN work : work[q] <= work[r]
        /\ work[r] > 0
        /\ \/ work[r] > Cardinality(Others(r))
           \/ \E T \in kSubset(work[r], Others(r)) :
                /\ \A t \in T, o \in Others(r) \ T : work[o] <= work[t]
                /\ IF \E t \in T : work[t] = 0
                   THEN drawing' = "stuck" /\ links' = links /\ work' = work
                   ELSE /\ links' = links \cup {Link(r, t) : t \in T}
                        /\ work' = [o \in Others(r) |-> IF o \in T THEN work[o] - 1 ELSE work[o]]
                        /\ drawing' = drawing
  BY DEF ServeRouter
<1>6. ~(work[r] > Cardinality(Others(r)))
  <2>1. IsFiniteSet(DOMAIN work) /\ m < Cardinality(DOMAIN work) /\ (work[r] = m \/ work[r] = m - 1)
    BY <1>4 DEF Level, Near
  <2>2. Cardinality(Others(r)) = Cardinality(DOMAIN work) - 1 /\ Cardinality(DOMAIN work) \in Nat
    BY <2>1, FS_RemoveElement, FS_CardinalityType
  <2> QED
    BY <2>1, <2>2
<1>7. PICK T \in kSubset(work[r], Others(r)) :
        /\ \A t \in T, o \in Others(r) \ T : work[o] <= work[t]
        /\ IF \E t \in T : work[t] = 0
           THEN drawing' = "stuck" /\ links' = links /\ work' = work
           ELSE /\ links' = links \cup {Link(r, t) : t \in T}
                /\ work' = [o \in Others(r) |-> IF o \in T THEN work[o] - 1 ELSE work[o]]
                /\ drawing' = drawing
  BY <1>5, <1>6
<1>8. T \in SUBSET (DOMAIN work \ {r}) /\ Cardinality(T) = work[r]
  BY DEF kSubset
<1>9. /\ \A t \in T : work[t] # 0
      /\ \E k \in Int : Level(Serve(work, r, T), k)
  BY <1>4, <1>5, <1>7, <1>8, ServedStaysLevel
<1>10. /\ links' = links \cup {Link(r, t) : t \in T}
       /\ work' = Serve(work, r, T)
       /\ drawing' = "degrees"
  BY <1>1, <1>7, <1>9 DEF Serve
<1>11. DOMAIN work \subseteq routers /\ (\A q \in DOMAIN work : work[q] \in 0 .. N)
       /\ links \subseteq kSubset(2, routers)
  BY DEF GraphInv, GraphTyped
<1>12. /\ DOMAIN work' = DOMAIN work \ {r}
       /\ \A o \in DOMAIN work' : work'[o] = IF o \in T THEN work[o] - 1 ELSE work[o]
  BY <1>10 DEF Serve
<1>13. /\ links' \subseteq kSubset(2, routers)
       /\ \A q \in routers : Degree(q, links) \in Nat
       /\ Degree(r, links') = Degree(r, links) + Cardinality(T)
       /\ \A q \in routers \ {r} :
            Degree(q, links') = IF q \in T THEN Degree(q, links) + 1 ELSE Degree(q, links)
  <2>1. \A t \in T : Link(r, t) \notin links
    BY <1>3, <1>8 DEF Owed, Link
  <2>2. r \in routers /\ T \in SUBSET (routers \ {r})
    BY <1>8, <1>11
  <2> QED
    <3>1. /\ links \in SUBSET kSubset(2, routers)
          /\ T \in SUBSET (routers \ {r}) /\ \A t \in T : Link(r, t) \notin links
          /\ links' = links \cup StarOf(r, T)
      BY <1>10, <1>11, <2>1, <2>2 DEF StarOf
    <3>2. StarOf(r, T) \subseteq kSubset(2, routers) /\ \A q \in routers : Degree(q, links) \in Nat
      BY <1>2, <1>11, <2>2, StarIsLinks, DegreeIsNat
    <3>3. /\ Degree(r, links') = Degree(r, links) + Cardinality(T)
          /\ \A q \in routers \ {r} :
               Degree(q, links') = IF q \in T THEN Degree(q, links) + 1 ELSE Degree(q, links)
      BY <1>2, <2>1, <2>2, <3>1, StarDegrees
    <3> QED
      BY <3>1, <3>2, <3>3
<1>14. ASSUME NEW q \in routers
       PROVE  Degree(q, links') + (IF q \in DOMAIN work' THEN work'[q] ELSE 0) = goal[q]
  <2>1. Degree(q, links) + (IF q \in DOMAIN work THEN work[q] ELSE 0) = goal[q]
    BY <1>3 DEF Owed
  <2>2. CASE q = r
    BY <1>8, <1>11, <1>12, <1>13, <2>1, <2>2
  <2>3. CASE q # r /\ q \in T
    <3>1. q \in DOMAIN work /\ q \in DOMAIN work' /\ work'[q] = work[q] - 1 /\ work[q] \in Int
      BY <1>8, <1>11, <1>12, <2>3
    <3>2. Degree(q, links') = Degree(q, links) + 1 /\ Degree(q, links) \in Nat
      BY <1>13, <2>3
    <3> QED
      BY <2>1, <3>1, <3>2
  <2>4. CASE q # r /\ q \notin T
    BY <1>8, <1>11, <1>12, <1>13, <2>1, <2>4
  <2> QED
    BY <2>2, <2>3, <2>4
<1>15. ASSUME NEW l \in links' PROVE \E q \in l : q \notin DOMAIN work'
  <2>1. CASE l \in links
    BY <1>3, <1>12, <2>1 DEF Owed
  <2>2. CASE l \in {Link(r, t) : t \in T}
    BY <1>12, <2>2 DEF Link
  <2> QED
    BY <1>10, <2>1, <2>2
<1>16. Owed'
  BY <1>1, <1>14, <1>15 DEF Owed, Asking, Degree
<1>17. \E k \in Int : Level(work', k)
  BY <1>9, <1>10
<1>18. AsAnnounced'
  BY <1>1, <1>2, <1>3 DEF AsAnnounced, Asking, Degrees
<1>19. Serves'
  BY <1>1, <1>2, <1>3, <1>16, <1>17, <1>18 DEF Serves, Asking, Level, Near, Most
<1>20. GraphTyped'
  <2>1. \A o \in DOMAIN work' : work'[o] \in 0 .. N
    <3> SUFFICES ASSUME NEW o \in DOMAIN work' PROVE work'[o] \in 0 .. N
      OBVIOUS
    <3>1. work[o] \in 0 .. N
      BY <1>11, <1>12
    <3> QED
      BY <1>2, <1>9, <1>12, <3>1
  <2>2. DOMAIN work' \subseteq routers
    BY <1>11, <1>12
  <2> QED
    BY <1>1, <1>2, <1>10, <1>13, <2>1, <2>2 DEF GraphInv, GraphTyped, Asking
<1> QED
  BY <1>10, <1>19, <1>20 DEF GraphInv, Starts, TreeJoined, Drawn, NeverStuck

LEMMA EndExactKeeps ==
  ASSUME GraphInv, EndExact PROVE GraphInv'
<1>1. /\ drawing = "degrees" /\ (\A r \in DOMAIN work : work[r] = 0) /\ drawing' = "end"
      /\ Asking /\ links' = links /\ work' = work /\ goal' = goal
      /\ tree' = tree /\ hubs' = hubs /\ rim' = rim
  BY DEF EndExact, Request, Asking
<1>2. Requested /\ Requested' /\ N' = N
  BY <1>1, RequestStays DEF GraphInv, GraphTyped
<1>3. mode = "exact" /\ AsAnnounced /\ Owed
  BY <1>1 DEF GraphInv, Serves
<1>4. ASSUME NEW r \in routers PROVE Degree(r, links) = goal[r]
  <2>1. Degree(r, links) + 0 = goal[r]
    BY <1>1, <1>3 DEF Owed
  <2>2. Degree(r, links) \in Nat
    BY <1>2, DegreeIsNat DEF GraphInv, GraphTyped
  <2> QED
    BY <2>1, <2>2
<1>5. AsAnnounced'
  BY <1>1, <1>2, <1>3 DEF AsAnnounced, Asking, Degrees
<1>6. Drawn'
  BY <1>1, <1>3, <1>4, <1>5 DEF Drawn, Asking, Degree
<1>7. GraphTyped'
  BY <1>1, <1>2 DEF GraphInv, GraphTyped, Asking
<1> QED
  BY <1>1, <1>6, <1>7 DEF GraphInv, Starts, TreeJoined, Serves, NeverStuck

LEMMA BeginTreeKeeps ==
  ASSUME GraphInv, BeginTree PROVE GraphInv'
<1>1. /\ drawing = "start" /\ mode = "nonuniform" /\ drawing' = "tree"
      /\ Asking /\ links' = links /\ work' = work /\ goal' = goal
      /\ hubs' = hubs /\ rim' = rim
  BY DEF BeginTree, Request, Asking
<1>2. PICK r \in routers : tree' = {r}
  BY DEF BeginTree
<1>3. Requested /\ Requested' /\ N' = N
  BY <1>1, RequestStays DEF GraphInv, GraphTyped
<1>4. Joined(links, {r})
  BY DEF Joined
<1>5. TreeJoined'
  BY <1>1, <1>2, <1>4 DEF TreeJoined, Asking
<1>6. GraphTyped'
  BY <1>1, <1>2, <1>3 DEF GraphInv, GraphTyped, Asking
<1> QED
  BY <1>1, <1>5, <1>6 DEF GraphInv, Starts, Serves, Drawn, NeverStuck

LEMMA GrowTreeKeeps ==
  ASSUME GraphInv, GrowTree PROVE GraphInv'
<1>1. /\ drawing = "tree" /\ drawing' = "tree"
      /\ Asking /\ work' = work /\ goal' = goal /\ hubs' = hubs /\ rim' = rim
  BY DEF GrowTree, Request, Asking
<1>2. PICK a \in tree, b \in routers \ tree :
        links' = links \cup {Link(a, b)} /\ tree' = tree \cup {b}
  BY DEF GrowTree
<1>3. Requested /\ Requested' /\ N' = N
  BY <1>1, RequestStays DEF GraphInv, GraphTyped
<1>4. mode = "nonuniform" /\ Joined(links, tree) /\ tree \subseteq routers
  BY <1>1 DEF GraphInv, TreeJoined, GraphTyped
<1>5. Joined(links', tree')
  BY <1>2, <1>4, JoinedGrows DEF Link
<1>6. TreeJoined'
  BY <1>1, <1>2, <1>4, <1>5 DEF TreeJoined, Asking
<1>7. Link(a, b) \in kSubset(2, routers)
  BY <1>2, <1>3, <1>4, PairIsLink
<1>8. GraphTyped'
  BY <1>1, <1>2, <1>3, <1>4, <1>7 DEF GraphInv, GraphTyped, Asking
<1> QED
  BY <1>1, <1>6, <1>8 DEF GraphInv, Starts, Serves, Drawn, NeverStuck

LEMMA LinkHubsKeeps ==
  ASSUME GraphInv, LinkHubs PROVE GraphInv'
<1>1. /\ drawing = "tree" /\ tree = routers /\ drawing' = "rim"
      /\ Asking /\ work' = work /\ goal' = goal /\ tree' = tree
  BY DEF LinkHubs, Request, Asking
<1>0. PICK H \in kSubset(HubCount, routers) : \E first \in H :
        /\ links' = links \cup {Link(p[1], p[2]) : p \in {q \in H \X H : q[1] # q[2]}}
        /\ hubs' = <<first, H>>
        /\ rim' = routers \ H
  BY DEF LinkHubs
<1>2. PICK first \in H :
        /\ links' = links \cup {Link(p[1], p[2]) : p \in {q \in H \X H : q[1] # q[2]}}
        /\ hubs' = <<first, H>>
        /\ rim' = routers \ H
  BY <1>0
<1>11. H \subseteq routers
  BY DEF kSubset
<1>3. Requested /\ Requested' /\ N' = N
  BY <1>1, RequestStays DEF GraphInv, GraphTyped
<1>4. mode = "nonuniform" /\ tree # {} /\ Joined(links, tree) /\ links \subseteq kSubset(2, routers)
  BY <1>1 DEF GraphInv, TreeJoined, GraphTyped
<1>5. Joined(links', tree)
  BY <1>2, <1>4, JoinedMore
<1>6. TreeJoined'
  BY <1>1, <1>4, <1>5 DEF TreeJoined, Asking
<1>7. ASSUME NEW p \in {q \in H \X H : q[1] # q[2]} PROVE Link(p[1], p[2]) \in kSubset(2, routers)
  <2>1. p[1] \in routers /\ p[2] \in routers /\ p[1] # p[2]
    BY <1>11
  <2> QED
    BY <1>3, <2>1, PairIsLink
<1>8. links' \subseteq kSubset(2, routers)
  BY <1>2, <1>4, <1>7
<1>9. hubs'[1] = first /\ hubs'[2] = H
  BY <1>2
<1>10. GraphTyped'
  BY <1>1, <1>2, <1>3, <1>8, <1>9, <1>11 DEF GraphInv, GraphTyped, Asking
<1> QED
  BY <1>1, <1>6, <1>10 DEF GraphInv, Starts, Serves, Drawn, NeverStuck

\* The least router is one of them.
LEMMA LeastIsOne ==
  ASSUME NEW S \in SUBSET Nat, S # {} PROVE Min(S) \in S
<1>1. PICK n \in S : \A y \in S : ~ (<<y, n>> \in OpToRel(<, Nat))
  BY WFMin, NatLessThanWellFounded, Zenon
<1>3. \A y \in S : ~ (y < n)
  BY <1>1 DEF OpToRel
<1>2. \A y \in S : n <= y
  BY <1>3
<1> QED
  BY <1>2 DEF Min

LEMMA LinkRimKeeps ==
  ASSUME GraphInv, LinkRim PROVE GraphInv'
<1>1. /\ drawing = "rim" /\ rim # {} /\ drawing' = "rim"
      /\ Asking /\ work' = work /\ goal' = goal /\ tree' = tree /\ hubs' = hubs
  BY DEF LinkRim, Request, Asking
<1>2. Requested /\ Requested' /\ N' = N
  BY <1>1, RequestStays DEF GraphInv, GraphTyped
<1>3. /\ hubs[2] \subseteq routers /\ hubs[1] \in hubs[2] /\ rim \cap hubs[2] = {}
      /\ rim \subseteq routers /\ tree = routers /\ mode = "nonuniform" /\ tree # {}
      /\ Joined(links, tree) /\ links \subseteq kSubset(2, routers)
  BY <1>1 DEF GraphInv, GraphTyped, TreeJoined
<1> DEFINE r == Min(rim)
<1>4. r \in rim
  <2>1. rim \in SUBSET Nat
    BY <1>2, <1>3, RoutersAndDegrees DEF Requested
  <2> QED
    BY <1>1, <2>1, LeastIsOne
<1>5. rim' \subseteq rim
  BY DEF LinkRim
<1>6. links \subseteq links' /\ links' \subseteq links \cup {Link(h, r) : h \in hubs[2]}
  BY <1>3 DEF LinkRim
<1> HIDE DEF r
<1>7. \A h \in hubs[2] : Link(h, r) \in kSubset(2, routers)
  BY <1>2, <1>3, <1>4, PairIsLink
<1>8. links' \subseteq kSubset(2, routers)
  BY <1>3, <1>6, <1>7
<1>9. Joined(links', tree)
  BY <1>3, <1>6, JoinedMore
<1>10. GraphTyped'
  BY <1>1, <1>2, <1>3, <1>5, <1>8 DEF GraphInv, GraphTyped, Asking
<1>11. TreeJoined'
  BY <1>1, <1>3, <1>9 DEF TreeJoined, Asking
<1> QED
  BY <1>1, <1>10, <1>11 DEF GraphInv, Starts, Serves, Drawn, NeverStuck

LEMMA EndRimKeeps ==
  ASSUME GraphInv, EndRim PROVE GraphInv'
<1>1. /\ drawing = "rim" /\ drawing' = "end"
      /\ Asking /\ links' = links /\ work' = work /\ goal' = goal
      /\ tree' = tree /\ hubs' = hubs /\ rim' = rim
  BY DEF EndRim, Request, Asking
<1>2. Requested /\ Requested' /\ N' = N
  BY <1>1, RequestStays DEF GraphInv, GraphTyped
<1>3. tree = routers /\ mode = "nonuniform" /\ Joined(links, tree)
  BY <1>1 DEF GraphInv, TreeJoined
<1>4. Drawn'
  BY <1>1, <1>3 DEF Drawn, Asking
<1>5. GraphTyped'
  BY <1>1, <1>2 DEF GraphInv, GraphTyped, Asking
<1> QED
  BY <1>1, <1>4, <1>5 DEF GraphInv, Starts, TreeJoined, Serves, NeverStuck

LEMMA NothingKeepsGraph ==
  ASSUME GraphInv, UNCHANGED graphVars PROVE GraphInv'
<1>1. /\ drawing' = drawing /\ Asking /\ links' = links /\ work' = work /\ goal' = goal
      /\ tree' = tree /\ hubs' = hubs /\ rim' = rim
  BY DEF graphVars, Asking
<1>2. Requested /\ Requested' /\ N' = N
  BY <1>1, RequestStays DEF GraphInv, GraphTyped
<1>3. GraphTyped'
  BY <1>1, <1>2 DEF GraphInv, GraphTyped, Asking
<1>4. TreeJoined' /\ Starts' /\ NeverStuck'
  BY <1>1 DEF GraphInv, TreeJoined, Starts, NeverStuck, Asking
<1>5. AsAnnounced => AsAnnounced'
  BY <1>1, <1>2 DEF AsAnnounced, Asking, Degrees
<1>6. Owed => Owed'
  BY <1>1 DEF Owed, Asking, Degree
<1>9. ASSUME NEW m \in Int, Level(work, m) PROVE Level(work', m)
  BY <1>1, <1>9
<1>7. Serves'
  BY <1>1, <1>2, <1>5, <1>6, <1>9 DEF GraphInv, Serves, Asking
<1>8. Drawn'
  BY <1>1, <1>2, <1>5 DEF GraphInv, Drawn, Asking, Degree
<1> QED
  BY <1>3, <1>4, <1>7, <1>8 DEF GraphInv

-----------------------------------------------------------------------------
(* Theorems. *)

LEMMA GraphInvHolds == GraphSpec => []GraphInv
<1>1. GraphInit => GraphInv
  BY InitStarts
<1>2. GraphInv /\ [GraphNext]_graphVars => GraphInv'
  BY NoLinksKeeps, DrawChainKeeps, DrawRegularKeeps, BeginExactKeeps, ServeRouterKeeps,
     EndExactKeeps, BeginTreeKeeps, GrowTreeKeeps, LinkHubsKeeps, LinkRimKeeps, EndRimKeeps,
     NothingKeepsGraph
     DEF GraphNext
<1> QED
  BY <1>1, <1>2, PTL DEF GraphSpec

\* Links are always pairs of routers of the preview, no more are needed than there are
\* routers, and nothing outside it is ever reached (topology.py and the preview's drawing).
THEOREM GraphTypes == GraphSpec => []GraphTypeOK
<1>1. GraphInv => GraphTypeOK
  BY DEF GraphInv, GraphTyped, GraphTypeOK, Requested
<1> QED
  BY <1>1, GraphInvHolds, PTL

\* What the code draws is what it announces: a backbone in one piece for the modes that
\* want one, the degrees asked for as near as parity allows, and a drawing by degrees
\* never fails, for any number of routers, any degree and any random choices.
THEOREM LinksDrawnAsAsked == GraphSpec => []LinksAsAsked
<1>1. GraphInv => LinksAsAsked
  <2> SUFFICES ASSUME GraphInv PROVE LinksAsAsked
    OBVIOUS
  <2>1. Requested /\ N \in Nat /\ asked \in Nat /\ links \subseteq SUBSET routers
    BY RoutersAndDegrees DEF GraphInv, GraphTyped, Requested, kSubset
  <2>2. OneBackbone
    <3> SUFFICES ASSUME drawing = "end", mode \in {"min", "uniform", "nonuniform"}
                 PROVE  Connected(links)
      BY DEF OneBackbone
    <3>1. Joined(links, routers)
      BY DEF GraphInv, Drawn
    <3> QED
      BY <2>1, <3>1, JoinedConnects DEF Requested
  <2>3. DegreesKept
    <3> SUFFICES ASSUME drawing = "end", N > 1 PROVE
          /\ mode \in {"uniform", "exact"} => \A r \in routers : Degree(r, links) = goal[r]
          /\ mode = "exact" => \A r \in routers : r < N => Degree(r, links) = Min({asked, N - 1})
      BY DEF DegreesKept
    <3>1. mode \in {"uniform", "exact"} => \A r \in routers : Degree(r, links) = goal[r]
      BY DEF GraphInv, Drawn
    <3>2. ASSUME mode = "exact", NEW r \in routers, r < N
          PROVE  Degree(r, links) = Min({asked, N - 1})
      <4>1. goal = Degrees(Min({asked, N - 1}))
        BY <3>2 DEF GraphInv, Drawn, AsAnnounced
      <4>2. goal[r] = Min({asked, N - 1})
        BY <2>1, <3>2, <4>1 DEF Degrees
      <4> QED
        BY <3>1, <3>2, <4>2
    <3> QED
      BY <3>1, <3>2
  <2> QED
    BY <2>2, <2>3 DEF LinksAsAsked, GraphInv
<1> QED
  BY <1>1, GraphInvHolds, PTL

===============================================================================
