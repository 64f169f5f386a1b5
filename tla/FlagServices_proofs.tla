-------------------------- MODULE FlagServices_proofs --------------------------
(***************************************************************************)
(* Theorems about the hosts of a preview, and about all the services of    *)
(* FlagServices together.                                                  *)
(***************************************************************************)
EXTENDS FlagServices, FlagBatch_proofs, PlanCounts_proofs, SequenceTheorems

-----------------------------------------------------------------------------
(* Hosts dealt to groups. *)

\* Each member of S has one place in one of the groups.
OnceEach(gs, S) ==
  /\ gs \in Seq(Seq(S))
  /\ \A x \in S : \E i \in DOMAIN gs : \E j \in DOMAIN gs[i] : gs[i][j] = x
  /\ \A i, p \in DOMAIN gs : \A j \in DOMAIN gs[i], q \in DOMAIN gs[p] :
       gs[i][j] = gs[p][q] => i = p /\ j = q

LEMMA SeqSubset ==
  ASSUME NEW S, NEW T, S \subseteq T PROVE Seq(S) \subseteq Seq(T)
<1> SUFFICES ASSUME NEW s \in Seq(S) PROVE s \in Seq(T)
  OBVIOUS
<1>1. \A i \in 1 .. Len(s) : s[i] \in T
  OBVIOUS
<1> QED
  BY <1>1

\* Another group of others.
LEMMA OnceMore ==
  ASSUME NEW gs, NEW S, OnceEach(gs, S),
         NEW T, NEW g \in Seq(T), IsInjective(g), \A x \in T : \E j \in DOMAIN g : g[j] = x,
         S \cap T = {}
  PROVE  OnceEach(Append(gs, g), S \cup T)
<1> DEFINE hs == Append(gs, g)
           n == Len(gs)
<1>1. /\ gs \in Seq(Seq(S)) /\ n \in Nat /\ hs \in Seq(Seq(S) \cup {g})
      /\ DOMAIN gs = 1 .. n /\ DOMAIN hs = 1 .. n + 1
      /\ (\A i \in 1 .. n : hs[i] = gs[i]) /\ hs[n + 1] = g
  BY DEF OnceEach
<1>2. Seq(S) \subseteq Seq(S \cup T) /\ g \in Seq(S \cup T)
  BY SeqSubset
<1>3. hs \in Seq(Seq(S \cup T))
  BY <1>1, <1>2, SeqSubset
<1> HIDE DEF hs, n
<1>4. ASSUME NEW x \in S \cup T
      PROVE  \E i \in DOMAIN hs : \E j \in DOMAIN hs[i] : hs[i][j] = x
  <2>1. CASE x \in S
    <3>1. PICK i \in DOMAIN gs : \E j \in DOMAIN gs[i] : gs[i][j] = x
      BY <2>1 DEF OnceEach
    <3>2. i \in DOMAIN hs /\ hs[i] = gs[i]
      BY <1>1
    <3> QED
      BY <3>1, <3>2
  <2>2. CASE x \in T
    <3>1. n + 1 \in DOMAIN hs /\ hs[n + 1] = g
      BY <1>1
    <3> QED
      BY <2>2, <3>1
  <2> QED
    BY <2>1, <2>2
<1>5. ASSUME NEW i \in DOMAIN hs, NEW p \in DOMAIN hs,
             NEW j \in DOMAIN hs[i], NEW q \in DOMAIN hs[p], hs[i][j] = hs[p][q]
      PROVE  i = p /\ j = q
  <2>1. \A a \in 1 .. n : gs[a] \in Seq(S)
    BY <1>1
  <2>2. CASE i \in 1 .. n /\ p \in 1 .. n
    BY <1>1, <1>5, <2>2 DEF OnceEach
  <2>3. CASE i = n + 1 /\ p = n + 1
    BY <1>1, <1>5, <2>3 DEF IsInjective
  <2>4. CASE i \in 1 .. n /\ p = n + 1
    <3>1. gs[i][j] \in S /\ g[q] \in T
      BY <1>1, <2>1, <2>4
    <3> QED
      BY <1>1, <1>5, <2>4, <3>1
  <2>5. CASE i = n + 1 /\ p \in 1 .. n
    <3>1. gs[p][q] \in S /\ g[j] \in T
      BY <1>1, <2>1, <2>5
    <3> QED
      BY <1>1, <1>5, <2>5, <3>1
  <2> QED
    BY <1>1, <2>2, <2>3, <2>4, <2>5
<1> QED
  BY <1>3, <1>4, <1>5 DEF OnceEach, hs

\* The members that the first i groups hold.
Held(gs, i) == UNION {Range(gs[a]) : a \in 1 .. i}

FillGrowth(gs, F) ==
  F = [i \in 0 .. Len(gs) |->
        IF i = 0 THEN <<>> ELSE IF gs[i] = <<>> THEN F[i - 1] ELSE Append(F[i - 1], gs[i])]

LEMMA FillExists ==
  ASSUME NEW gs, Len(gs) \in Nat PROVE \E F : FillGrowth(gs, F)
<1> DEFINE Part(n, F) == F = [i \in 0 .. n |->
             IF i = 0 THEN <<>> ELSE IF gs[i] = <<>> THEN F[i - 1] ELSE Append(F[i - 1], gs[i])]
           T == {n \in Nat : \E F : Part(n, F)}
<1>1. 0 \in T
  <2> DEFINE F == [i \in 0 .. 0 |-> <<>>]
  <2>1. Part(0, F)
    OBVIOUS
  <2> QED
    BY <2>1
<1>2. ASSUME NEW n \in T PROVE n + 1 \in T
  <2>1. PICK F : Part(n, F)
    OBVIOUS
  <2> DEFINE G == [i \in 0 .. n + 1 |->
               IF i = n + 1 THEN (IF gs[i] = <<>> THEN F[n] ELSE Append(F[n], gs[i])) ELSE F[i]]
  <2>2. \A i \in 0 .. n : F[i] = IF i = 0 THEN <<>> ELSE IF gs[i] = <<>> THEN F[i - 1] ELSE Append(F[i - 1], gs[i])
    BY <2>1
  <2>3. \A i \in 0 .. n : G[i] = F[i]
    OBVIOUS
  <2>4. ASSUME NEW i \in 0 .. n + 1
        PROVE  G[i] = IF i = 0 THEN <<>> ELSE IF gs[i] = <<>> THEN G[i - 1] ELSE Append(G[i - 1], gs[i])
    <3>1. CASE i = n + 1
      <4>1. G[i] = IF gs[i] = <<>> THEN F[n] ELSE Append(F[n], gs[i])
        BY <3>1
      <4>2. i # 0 /\ i - 1 = n /\ G[n] = F[n]
        BY <2>3, <3>1
      <4> QED
        BY <4>1, <4>2
    <3>2. CASE i \in 1 .. n
      <4>1. i \in 0 .. n /\ i - 1 \in 0 .. n /\ i # 0
        BY <3>2
      <4> HIDE DEF G
      <4> QED
        BY <2>2, <2>3, <4>1
    <3>3. CASE i = 0
      BY <2>2, <2>3, <3>3
    <3> QED
      BY <3>1, <3>2, <3>3
  <2>5. G = [i \in 0 .. n + 1 |-> G[i]]
    OBVIOUS
  <2> HIDE DEF G
  <2>6. Part(n + 1, G)
    BY <2>4, <2>5
  <2> QED
    BY <2>6
<1> HIDE DEF T
<1>3. T = Nat
  BY <1>1, <1>2, NatSets DEF T
<1>4. \E F : Part(Len(gs), F)
  BY <1>3 DEF T
<1> QED
  BY <1>4 DEF FillGrowth

\* The groups that have hosts hold the same hosts.
LEMMA FilledOnce ==
  ASSUME NEW gs, NEW S, OnceEach(gs, S)
  PROVE  /\ OnceEach(Filled(gs), S)
         /\ \A i \in DOMAIN Filled(gs) : Filled(gs)[i] # <<>>
<1> DEFINE n == Len(gs)
<1>0. n \in Nat /\ DOMAIN gs = 1 .. n /\ gs \in Seq(Seq(S))
  BY DEF OnceEach
<1>1. PICK F : F = CHOOSE G : FillGrowth(gs, G)
  OBVIOUS
<1>2. FillGrowth(gs, F)
  BY <1>0, <1>1, FillExists
<1>3. Filled(gs) = F[n]
  BY <1>1 DEF Filled, FillGrowth
<1>4. F = [i \in 0 .. n |-> IF i = 0 THEN <<>> ELSE IF gs[i] = <<>> THEN F[i - 1] ELSE Append(F[i - 1], gs[i])]
  BY <1>2 DEF FillGrowth
<1> HIDE DEF n
<1>5. F[0] = <<>>
  BY <1>0, <1>4
<1>6. ASSUME NEW k \in 0 .. n - 1
      PROVE  F[k + 1] = IF gs[k + 1] = <<>> THEN F[k] ELSE Append(F[k], gs[k + 1])
  <2>1. k + 1 \in 0 .. n /\ k + 1 # 0 /\ (k + 1) - 1 = k
    BY <1>0
  <2>2. F[k + 1] = IF k + 1 = 0 THEN <<>> ELSE IF gs[k + 1] = <<>> THEN F[(k + 1) - 1] ELSE Append(F[(k + 1) - 1], gs[k + 1])
    BY <1>4, <2>1
  <2> QED
    BY <2>1, <2>2
<1> DEFINE Fine(k) == OnceEach(F[k], Held(gs, k)) /\ \A i \in DOMAIN F[k] : F[k][i] # <<>>
           T == {k \in Nat : k <= n => Fine(k)}
<1>7. 0 \in T
  <2>1. Held(gs, 0) = {}
    BY DEF Held
  <2>2. OnceEach(<<>>, {})
    BY DEF OnceEach
  <2>3. OnceEach(F[0], Held(gs, 0)) /\ \A i \in DOMAIN F[0] : F[0][i] # <<>>
    BY <1>5, <2>1, <2>2
  <2> QED
    BY <2>3
<1>8. ASSUME NEW k \in T PROVE k + 1 \in T
  <2> SUFFICES ASSUME k + 1 <= n PROVE Fine(k + 1)
    OBVIOUS
  <2>1. k \in 0 .. n - 1 /\ k + 1 \in 1 .. n /\ Fine(k)
    BY <1>0
  <2> HIDE DEF T
  <2> DEFINE g == gs[k + 1]
  <2>2. g \in Seq(S) /\ k + 1 \in DOMAIN gs
    BY <1>0, <2>1
  <2>3. Held(gs, k + 1) = Held(gs, k) \cup Range(g)
    <3>1. 1 .. k + 1 = (1 .. k) \cup {k + 1}
      BY <2>1
    <3> QED
      BY <3>1 DEF Held
  <2>4. CASE g = <<>>
    <3>1. Range(g) = {}
      BY <2>4 DEF Range
    <3> QED
      BY <1>6, <2>1, <2>3, <2>4, <3>1
  <2>5. CASE g # <<>>
    <3>1. IsInjective(g) /\ g \in Seq(Range(g)) /\ \A x \in Range(g) : \E j \in DOMAIN g : g[j] = x
      BY <2>2 DEF IsInjective, OnceEach, Range
    <3>2. Held(gs, k) \cap Range(g) = {}
      <4> SUFFICES ASSUME NEW x \in Held(gs, k), x \in Range(g) PROVE FALSE
        OBVIOUS
      <4>1. PICK a \in 1 .. k : x \in Range(gs[a])
        BY DEF Held
      <4>2. PICK j \in DOMAIN gs[a] : gs[a][j] = x
        BY <4>1 DEF Range
      <4>3. PICK q \in DOMAIN g : g[q] = x
        BY DEF Range
      <4>4. a \in DOMAIN gs
        BY <1>0, <2>1
      <4>5. a = k + 1
        BY <2>2, <4>2, <4>3, <4>4 DEF OnceEach
      <4> QED
        BY <2>1, <4>5
    <3>3. F[k + 1] = Append(F[k], g)
      BY <1>6, <2>1, <2>5
    <3>4. OnceEach(F[k + 1], Held(gs, k + 1))
      BY <2>1, <2>3, <3>1, <3>2, <3>3, OnceMore
    <3>5. \A i \in DOMAIN F[k + 1] : F[k + 1][i] # <<>>
      <4> HIDE DEF g
      <4>1. F[k] \in Seq(Seq(Held(gs, k))) /\ \A i \in DOMAIN F[k] : F[k][i] # <<>>
        BY <2>1 DEF OnceEach
      <4> QED
        BY <2>5, <3>3, <4>1
    <3> QED
      BY <3>4, <3>5
  <2> QED
    BY <2>4, <2>5
<1> HIDE DEF T
<1>9. T = Nat
  BY <1>7, <1>8, NatSets DEF T
<1>10. Fine(n)
  BY <1>0, <1>9 DEF T
<1>11. Held(gs, n) = S
  <2>1. \A x \in Held(gs, n) : x \in S
    <3> SUFFICES ASSUME NEW a \in 1 .. n, NEW x \in Range(gs[a]) PROVE x \in S
      BY DEF Held
    <3>1. gs[a] \in Seq(S)
      BY <1>0
    <3> QED
      BY <3>1 DEF Range
  <2>2. ASSUME NEW x \in S PROVE x \in Held(gs, n)
    <3>1. PICK i \in DOMAIN gs : \E j \in DOMAIN gs[i] : gs[i][j] = x
      BY DEF OnceEach
    <3>2. x \in Range(gs[i])
      BY <3>1 DEF Range
    <3> QED
      BY <1>0, <3>2 DEF Held
  <2> QED
    BY <2>1, <2>2
<1> QED
  BY <1>3, <1>10, <1>11

\* Host j of group a of B is host h[a][j] of group g[a][j] of A, each another one, and
\* none is left out.
Moved(A, B, g, h) ==
  /\ \A a \in DOMAIN B : \A j \in DOMAIN B[a] :
       /\ g[a][j] \in DOMAIN A /\ h[a][j] \in DOMAIN A[g[a][j]]
       /\ B[a][j] = A[g[a][j]][h[a][j]]
  /\ \A a, p \in DOMAIN B : \A j \in DOMAIN B[a], q \in DOMAIN B[p] :
       g[a][j] = g[p][q] /\ h[a][j] = h[p][q] => a = p /\ j = q
  /\ \A a \in DOMAIN A : \A j \in DOMAIN A[a] :
       \E p \in DOMAIN B : \E q \in DOMAIN B[p] : B[p][q] = A[a][j]

\* Hosts that only change places, each to one of its own.
LEMMA OnceMoved ==
  ASSUME NEW A, NEW S, OnceEach(A, S), NEW B \in Seq(Seq(S)), NEW g, NEW h, Moved(A, B, g, h)
  PROVE  OnceEach(B, S)
<1>1. ASSUME NEW x \in S PROVE \E i \in DOMAIN B : \E j \in DOMAIN B[i] : B[i][j] = x
  <2>1. PICK i \in DOMAIN A : \E j \in DOMAIN A[i] : A[i][j] = x
    BY DEF OnceEach
  <2>2. PICK j \in DOMAIN A[i] : A[i][j] = x
    BY <2>1
  <2> QED
    BY <2>2 DEF Moved
<1>2. ASSUME NEW a \in DOMAIN B, NEW p \in DOMAIN B, NEW j \in DOMAIN B[a], NEW q \in DOMAIN B[p],
             B[a][j] = B[p][q]
      PROVE  a = p /\ j = q
  <2>2. PICK b \in DOMAIN A : \E c \in DOMAIN A[b] :
          b = g[a][j] /\ c = h[a][j] /\ B[a][j] = A[b][c]
    BY DEF Moved
  <2>3. PICK c \in DOMAIN A[b] : b = g[a][j] /\ c = h[a][j] /\ B[a][j] = A[b][c]
    BY <2>2
  <2>4. PICK d \in DOMAIN A : \E e \in DOMAIN A[d] :
          d = g[p][q] /\ e = h[p][q] /\ B[p][q] = A[d][e]
    BY DEF Moved
  <2>5. PICK e \in DOMAIN A[d] : d = g[p][q] /\ e = h[p][q] /\ B[p][q] = A[d][e]
    BY <2>4
  <2>6. A[b][c] = A[d][e]
    BY <1>2, <2>3, <2>5
  <2>7. b = d /\ c = e
    BY <2>6 DEF OnceEach
  <2>1. g[a][j] = g[p][q] /\ h[a][j] = h[p][q]
    BY <2>3, <2>5, <2>7
  <2> QED
    BY <2>1 DEF Moved
<1> QED
  BY <1>1, <1>2 DEF OnceEach

LEMMA TwoPlaces ==
  ASSUME NEW k \in Nat, NEW i \in 1 .. k, NEW m \in Nat,
         NEW a \in 1 .. k + 1, NEW p \in 1 .. k + 1, NEW j \in Nat \ {0}, NEW q \in Nat \ {0},
         (IF a = i /\ j = m + 1 THEN k + 1 ELSE a) = IF p = i /\ q = m + 1 THEN k + 1 ELSE p,
         (IF a = i /\ j = m + 1 THEN 1 ELSE IF a = k + 1 THEN j + 1 ELSE j)
           = IF p = i /\ q = m + 1 THEN 1 ELSE IF p = k + 1 THEN q + 1 ELSE q
  PROVE  a = p /\ j = q
<1>1. CASE a = i /\ j = m + 1
  BY <1>1
<1>2. CASE ~(a = i /\ j = m + 1)
  BY <1>2
<1> QED
  BY <1>1, <1>2

\* The hosts S, in groups except for the rest.
Partly(gs, rest, S) ==
  gs \in Seq(Seq(S)) /\ rest \in Seq(S) /\ OnceEach(Append(gs, rest), S)

\* The first host of the rest joins a group.
LEMMA OneMoves ==
  ASSUME NEW gs, NEW rest, NEW S, Partly(gs, rest, S), rest # <<>>, NEW i \in 1 .. Len(gs)
  PROVE  LET hs == [gs EXCEPT ![i] = Append(@, Head(rest))] IN
         /\ hs \in Seq(Seq(S)) /\ Len(hs) = Len(gs) /\ Tail(rest) \in Seq(S)
         /\ OnceEach(Append(hs, Tail(rest)), S)
<1> DEFINE k == Len(gs)
           m == Len(gs[i])
           z == Len(rest)
           x == Head(rest)
           hs == [gs EXCEPT ![i] = Append(@, x)]
           A == Append(gs, rest)
           B == Append(hs, Tail(rest))
           g == [a \in DOMAIN B |-> [j \in DOMAIN B[a] |-> IF a = i /\ j = m + 1 THEN k + 1 ELSE a]]
           h == [a \in DOMAIN B |-> [j \in DOMAIN B[a] |->
                  IF a = i /\ j = m + 1 THEN 1 ELSE IF a = k + 1 THEN j + 1 ELSE j]]
<1>1. /\ k \in Nat /\ gs[i] \in Seq(S) /\ m \in Nat /\ x \in S /\ x = rest[1]
      /\ Tail(rest) \in Seq(S) /\ Len(rest) \in Nat /\ Len(rest) > 0
      /\ Len(Tail(rest)) = Len(rest) - 1
      /\ \A j \in 1 .. Len(rest) - 1 : Tail(rest)[j] = rest[j + 1]
  BY DEF Partly
<1>2. Append(gs[i], x) \in Seq(S)
  BY <1>1
<1>3. hs \in Seq(Seq(S)) /\ Len(hs) = k /\ \A a \in 1 .. k : hs[a] = IF a = i THEN Append(gs[i], x) ELSE gs[a]
  BY <1>1, <1>2 DEF Partly
<1> HIDE DEF hs
<1>4. /\ DOMAIN A = 1 .. k + 1 /\ (\A a \in 1 .. k : A[a] = gs[a]) /\ A[k + 1] = rest
  BY <1>1
<1>13. B \in Seq(Seq(S))
  BY <1>1, <1>3
<1>5. /\ DOMAIN B = 1 .. k + 1 /\ (\A a \in 1 .. k : B[a] = hs[a]) /\ B[k + 1] = Tail(rest)
  BY <1>1, <1>3
<1> HIDE DEF A, B
<1>6. /\ DOMAIN A[i] = 1 .. m /\ DOMAIN A[k + 1] = 1 .. z
      /\ DOMAIN B[i] = 1 .. m + 1 /\ DOMAIN B[k + 1] = 1 .. z - 1
      /\ (\A j \in 1 .. m : B[i][j] = A[i][j]) /\ B[i][m + 1] = A[k + 1][1]
      /\ (\A j \in 1 .. z - 1 : B[k + 1][j] = A[k + 1][j + 1])
      /\ \A a \in 1 .. k : a # i => B[a] = A[a]
  <2>1. Append(gs[i], x)[m + 1] = x /\ (\A j \in 1 .. m : Append(gs[i], x)[j] = gs[i][j])
        /\ DOMAIN Append(gs[i], x) = 1 .. m + 1 /\ DOMAIN gs[i] = 1 .. m
    BY <1>1
  <2>2. DOMAIN rest = 1 .. Len(rest) /\ DOMAIN Tail(rest) = 1 .. Len(rest) - 1
    BY <1>1
  <2> QED
    BY <1>1, <1>3, <1>4, <1>5, <2>1, <2>2
<1>0. k \in Nat /\ m \in Nat /\ z \in Nat \ {0} /\ i \in 1 .. k /\ i # k + 1
  BY <1>1
<1> HIDE DEF k, m, z
<1>7. ASSUME NEW a \in DOMAIN B, NEW j \in DOMAIN B[a]
      PROVE  /\ g[a][j] = IF a = i /\ j = m + 1 THEN k + 1 ELSE a
             /\ h[a][j] = IF a = i /\ j = m + 1 THEN 1 ELSE IF a = k + 1 THEN j + 1 ELSE j
  OBVIOUS
<1>8. ASSUME NEW a \in DOMAIN B, NEW j \in DOMAIN B[a]
      PROVE  /\ g[a][j] \in DOMAIN A /\ h[a][j] \in DOMAIN A[g[a][j]]
             /\ B[a][j] = A[g[a][j]][h[a][j]]
  <2> HIDE DEF g, h
  <2>0. a \in 1 .. k + 1
    BY <1>5
  <2>1. CASE a = i /\ j = m + 1
    <3>1. g[a][j] = k + 1 /\ h[a][j] = 1
      BY <1>7, <2>1
    <3>2. k + 1 \in DOMAIN A /\ 1 \in DOMAIN A[k + 1] /\ B[a][j] = A[k + 1][1]
      BY <1>0, <1>4, <1>6, <2>1
    <3> QED
      BY <3>1, <3>2
  <2>2. CASE a = i /\ j # m + 1
    <3>1. g[a][j] = a /\ h[a][j] = j
      BY <1>0, <1>7, <2>2
    <3>0. j \in 1 .. m + 1
      BY <1>6, <2>2
    <3>2. j \in 1 .. m /\ i \in 1 .. k + 1
      BY <1>0, <2>2, <3>0
    <3>3. a \in DOMAIN A /\ j \in DOMAIN A[a] /\ B[a][j] = A[a][j]
      BY <1>4, <1>6, <2>2, <3>2
    <3> QED
      BY <3>1, <3>3
  <2>3. CASE a = k + 1
    <3>0. a # i /\ j \in 1 .. z - 1
      BY <1>0, <1>6, <2>3
    <3>1. g[a][j] = k + 1 /\ h[a][j] = j + 1
      BY <1>7, <2>3, <3>0
    <3>2. k + 1 \in DOMAIN A /\ j + 1 \in DOMAIN A[k + 1] /\ B[a][j] = A[k + 1][j + 1]
      BY <1>0, <1>4, <1>6, <2>3, <3>0
    <3> QED
      BY <3>1, <3>2
  <2>4. CASE a # i /\ a # k + 1
    <3>1. g[a][j] = a /\ h[a][j] = j
      BY <1>7, <2>4
    <3>2. a \in 1 .. k
      BY <1>0, <2>0, <2>4
    <3>3. a \in DOMAIN A /\ B[a] = A[a]
      BY <1>4, <1>6, <2>0, <2>4, <3>2
    <3> QED
      BY <3>1, <3>3
  <2> QED
    BY <2>1, <2>2, <2>3, <2>4
<1>9. ASSUME NEW a \in DOMAIN B, NEW p \in DOMAIN B, NEW j \in DOMAIN B[a], NEW q \in DOMAIN B[p],
             g[a][j] = g[p][q], h[a][j] = h[p][q]
      PROVE  a = p /\ j = q
  <2>1. a \in 1 .. k + 1 /\ p \in 1 .. k + 1
    BY <1>5
  <2>2. j \in Nat \ {0} /\ q \in Nat \ {0}
    BY <1>13
  <2> HIDE DEF g, h
  <2>3. /\ g[a][j] = IF a = i /\ j = m + 1 THEN k + 1 ELSE a
        /\ h[a][j] = IF a = i /\ j = m + 1 THEN 1 ELSE IF a = k + 1 THEN j + 1 ELSE j
    BY <1>7
  <2>4. /\ g[p][q] = IF p = i /\ q = m + 1 THEN k + 1 ELSE p
        /\ h[p][q] = IF p = i /\ q = m + 1 THEN 1 ELSE IF p = k + 1 THEN q + 1 ELSE q
    BY <1>7
  <2>5. /\ (IF a = i /\ j = m + 1 THEN k + 1 ELSE a) = IF p = i /\ q = m + 1 THEN k + 1 ELSE p
        /\ (IF a = i /\ j = m + 1 THEN 1 ELSE IF a = k + 1 THEN j + 1 ELSE j)
             = IF p = i /\ q = m + 1 THEN 1 ELSE IF p = k + 1 THEN q + 1 ELSE q
    BY <1>9, <2>3, <2>4
  <2> QED
    BY <1>0, <2>1, <2>2, <2>5, TwoPlaces
<1>10. ASSUME NEW a \in DOMAIN A, NEW j \in DOMAIN A[a]
       PROVE  \E p \in DOMAIN B : \E q \in DOMAIN B[p] : B[p][q] = A[a][j]
  <2>1. CASE a = k + 1 /\ j = 1
    <3>1. i \in DOMAIN B /\ m + 1 \in DOMAIN B[i] /\ B[i][m + 1] = A[a][j]
      BY <1>0, <1>5, <1>6, <2>1
    <3> QED
      BY <3>1
  <2>2. CASE a = k + 1 /\ j # 1
    <3>0. j \in 2 .. z
      BY <1>0, <1>6, <2>2
    <3>1. j - 1 \in 1 .. z - 1 /\ (j - 1) + 1 = j
      BY <1>0, <3>0
    <3>2. B[k + 1][j - 1] = A[k + 1][j]
      BY <1>6, <3>1
    <3>4. k + 1 \in 1 .. k + 1
      BY <1>0
    <3>3. a \in DOMAIN B /\ j - 1 \in DOMAIN B[a] /\ B[a][j - 1] = A[a][j]
      BY <1>5, <1>6, <2>2, <3>1, <3>2, <3>4
    <3> QED
      BY <3>3
  <2>3. CASE a = i
    <3>1. a \in DOMAIN B /\ j \in DOMAIN B[a] /\ B[a][j] = A[a][j]
      BY <1>0, <1>5, <1>6, <2>3
    <3> QED
      BY <3>1
  <2>4. CASE a # i /\ a # k + 1
    <3>0. a \in 1 .. k /\ a \in 1 .. k + 1
      BY <1>0, <1>4, <2>4
    <3>1. a \in DOMAIN B /\ B[a] = A[a]
      BY <1>5, <1>6, <2>4, <3>0
    <3> QED
      BY <3>1
  <2> QED
    BY <2>1, <2>2, <2>3, <2>4
<1>11. OnceEach(A, S)
  BY DEF A, Partly
<1> HIDE DEF g, h
<1>14. \A a \in DOMAIN B : \A j \in DOMAIN B[a] :
          /\ g[a][j] \in DOMAIN A /\ h[a][j] \in DOMAIN A[g[a][j]]
          /\ B[a][j] = A[g[a][j]][h[a][j]]
  BY <1>8
<1>15. \A a, p \in DOMAIN B : \A j \in DOMAIN B[a], q \in DOMAIN B[p] :
          g[a][j] = g[p][q] /\ h[a][j] = h[p][q] => a = p /\ j = q
  BY <1>9
<1>16. \A a \in DOMAIN A : \A j \in DOMAIN A[a] :
          \E p \in DOMAIN B : \E q \in DOMAIN B[p] : B[p][q] = A[a][j]
  BY <1>10
<1>12. OnceEach(B, S)
  <2>1. Moved(A, B, g, h)
    BY <1>14, <1>15, <1>16 DEF Moved
  <2> QED
    BY <1>11, <1>13, <2>1, OnceMoved
<1> QED
  BY <1>1, <1>3, <1>12 DEF B, hs, k

\* The rest joins the last group.
LEMMA RestJoins ==
  ASSUME NEW gs, NEW rest, NEW S, gs \in Seq(Seq(S)), rest \in Seq(S), gs # <<>>,
         OnceEach(Append(gs, rest), S)
  PROVE  OnceEach([gs EXCEPT ![Len(gs)] = @ \o rest], S)
<1> DEFINE k == Len(gs)
           m == Len(gs[k])
           z == Len(rest)
           A == Append(gs, rest)
           B == [gs EXCEPT ![k] = @ \o rest]
           g == [a \in DOMAIN B |-> [j \in DOMAIN B[a] |-> IF a = k /\ j > m THEN k + 1 ELSE a]]
           h == [a \in DOMAIN B |-> [j \in DOMAIN B[a] |-> IF a = k /\ j > m THEN j - m ELSE j]]
<1>1. /\ k \in Nat \ {0} /\ gs[k] \in Seq(S) /\ m \in Nat /\ z \in Nat
      /\ DOMAIN gs = 1 .. k /\ \A a \in 1 .. k : gs[a] \in Seq(S)
  OBVIOUS
<1>2. /\ gs[k] \o rest \in Seq(S) /\ DOMAIN (gs[k] \o rest) = 1 .. m + z
      /\ (\A j \in 1 .. m + z : (gs[k] \o rest)[j] = IF j <= m THEN gs[k][j] ELSE rest[j - m])
  BY <1>1
<1>3. B \in Seq(Seq(S)) /\ DOMAIN B = 1 .. k /\ \A a \in 1 .. k : B[a] = IF a = k THEN gs[k] \o rest ELSE gs[a]
  BY <1>1, <1>2
<1>4. DOMAIN A = 1 .. k + 1 /\ (\A a \in 1 .. k : A[a] = gs[a]) /\ A[k + 1] = rest
  BY <1>1
<1>5. DOMAIN rest = 1 .. z /\ DOMAIN gs[k] = 1 .. m
  BY <1>1
<1>11. OnceEach(A, S)
  OBVIOUS
<1> HIDE DEF A, B, k, m, z
<1>6. ASSUME NEW a \in DOMAIN B, NEW j \in DOMAIN B[a]
      PROVE  /\ g[a][j] = IF a = k /\ j > m THEN k + 1 ELSE a
             /\ h[a][j] = IF a = k /\ j > m THEN j - m ELSE j
  OBVIOUS
<1> HIDE DEF g, h
<1>7. ASSUME NEW a \in DOMAIN B, NEW j \in DOMAIN B[a]
      PROVE  /\ g[a][j] \in DOMAIN A /\ h[a][j] \in DOMAIN A[g[a][j]]
             /\ B[a][j] = A[g[a][j]][h[a][j]]
  <2>1. CASE a = k
    <3>1. j \in 1 .. m + z /\ B[a][j] = IF j <= m THEN gs[k][j] ELSE rest[j - m]
      BY <1>1, <1>2, <1>3, <2>1
    <3>2. CASE j > m
      <4>1. g[a][j] = k + 1 /\ h[a][j] = j - m
        BY <1>6, <2>1, <3>2
      <4>2. k + 1 \in 1 .. k + 1 /\ j - m \in 1 .. z /\ ~(j <= m)
        BY <1>1, <3>1, <3>2
      <4> QED
        BY <1>4, <1>5, <3>1, <4>1, <4>2
    <3>3. CASE ~(j > m)
      <4>1. g[a][j] = k /\ h[a][j] = j
        BY <1>6, <2>1, <3>3
      <4>2. k \in 1 .. k /\ k \in 1 .. k + 1 /\ j \in 1 .. m /\ j <= m
        BY <1>1, <3>1, <3>3
      <4> QED
        BY <1>4, <1>5, <3>1, <4>1, <4>2
    <3> QED
      BY <3>2, <3>3
  <2>2. CASE a # k
    <3>1. g[a][j] = a /\ h[a][j] = j
      BY <1>6, <2>2
    <3>2. a \in 1 .. k /\ a \in 1 .. k + 1
      BY <1>1, <1>3
    <3>3. A[a] = gs[a] /\ B[a] = gs[a]
      BY <1>3, <1>4, <2>2, <3>2
    <3> QED
      BY <1>4, <3>1, <3>2, <3>3
  <2> QED
    BY <2>1, <2>2
<1>8. ASSUME NEW a \in DOMAIN B, NEW p \in DOMAIN B, NEW j \in DOMAIN B[a], NEW q \in DOMAIN B[p],
             g[a][j] = g[p][q], h[a][j] = h[p][q]
      PROVE  a = p /\ j = q
  <2>1. a \in 1 .. k /\ p \in 1 .. k
    BY <1>3
  <2>4. B \in Seq(Seq(S))
    BY <1>3
  <2>0. \A b \in DOMAIN B : B[b] \in Seq(S)
    BY <2>4
  <2>2. j \in Nat \ {0} /\ q \in Nat \ {0}
    BY <2>0
  <2>3. /\ (IF a = k /\ j > m THEN k + 1 ELSE a) = IF p = k /\ q > m THEN k + 1 ELSE p
        /\ (IF a = k /\ j > m THEN j - m ELSE j) = IF p = k /\ q > m THEN q - m ELSE q
    BY <1>6, <1>8
  <2> QED
    BY <1>1, <2>1, <2>2, <2>3
<1>9. ASSUME NEW a \in DOMAIN A, NEW j \in DOMAIN A[a]
      PROVE  \E p \in DOMAIN B : \E q \in DOMAIN B[p] : B[p][q] = A[a][j]
  <2>1. CASE a = k + 1
    <3>1. j \in 1 .. z
      BY <1>4, <1>5, <2>1
    <3>2. j + m \in 1 .. m + z /\ ~(j + m <= m) /\ (j + m) - m = j
      BY <1>1, <3>1
    <3>3. B[k] = gs[k] \o rest /\ k \in DOMAIN B
      BY <1>1, <1>3
    <3>4. B[k][j + m] = rest[j] /\ j + m \in DOMAIN B[k]
      BY <1>2, <3>2, <3>3
    <3>5. A[a][j] = rest[j]
      BY <1>4, <2>1
    <3> QED
      BY <3>3, <3>4, <3>5
  <2>2. CASE a = k
    <3>1. j \in 1 .. m
      BY <1>1, <1>4, <1>5, <2>2
    <3>2. j \in 1 .. m + z /\ j <= m
      BY <1>1, <3>1
    <3>3. B[k][j] = gs[k][j] /\ A[a][j] = gs[k][j] /\ k \in DOMAIN B /\ j \in DOMAIN B[k]
      BY <1>1, <1>2, <1>3, <1>4, <2>2, <3>2
    <3> QED
      BY <3>3
  <2>3. CASE a # k /\ a # k + 1
    <3>1. a \in 1 .. k
      BY <1>1, <1>4, <2>3
    <3>2. a \in DOMAIN B /\ B[a] = A[a]
      BY <1>3, <1>4, <2>3, <3>1
    <3> QED
      BY <3>2
  <2> QED
    BY <2>1, <2>2, <2>3
<1>10. Moved(A, B, g, h)
  BY <1>7, <1>8, <1>9 DEF Moved
<1>12. OnceEach(B, S)
  BY <1>3, <1>10, <1>11, OnceMoved
<1> QED
  BY <1>12 DEF B, k

\* The first c hosts of the rest are a group of their own.
LEMMA RestSplits ==
  ASSUME NEW gs, NEW rest, NEW S, Partly(gs, rest, S), NEW c \in 0 .. Len(rest)
  PROVE  OnceEach(Append(Append(gs, SubSeq(rest, 1, c)), SubSeq(rest, c + 1, Len(rest))), S)
<1> DEFINE k == Len(gs)
           z == Len(rest)
           u == SubSeq(rest, 1, c)
           v == SubSeq(rest, c + 1, z)
           A == Append(gs, rest)
           B == Append(Append(gs, u), v)
           g == [a \in DOMAIN B |-> [j \in DOMAIN B[a] |-> IF a = k + 2 THEN k + 1 ELSE a]]
           h == [a \in DOMAIN B |-> [j \in DOMAIN B[a] |-> IF a = k + 2 THEN j + c ELSE j]]
<1>0. z \in Nat /\ c \in Nat /\ c <= z /\ k \in Nat
  BY DEF Partly
<1>1. /\ u \in Seq(S) /\ DOMAIN u = 1 .. c /\ \A j \in 1 .. c : u[j] = rest[j]
  <2>1. \A i \in 1 .. c : rest[i] \in S
    BY <1>0 DEF Partly
  <2>2. Len(u) = c /\ u \in Seq(S) /\ \A i \in 1 .. c - 1 + 1 : u[i] = rest[1 + i - 1]
    BY <1>0, <2>1, SubSeqProperties
  <2>3. c - 1 + 1 = c /\ \A i \in 1 .. c : 1 + i - 1 = i
    BY <1>0
  <2>4. \A i \in 1 .. c : u[i] = rest[1 + i - 1]
    BY <2>2, <2>3
  <2>5. \A i \in 1 .. c : u[i] = rest[i]
    BY <2>3, <2>4
  <2>6. DOMAIN u = 1 .. c
    BY <2>2
  <2> QED
    BY <2>2, <2>5, <2>6
<1>2. /\ v \in Seq(S) /\ DOMAIN v = 1 .. z - c /\ \A j \in 1 .. z - c : v[j] = rest[j + c]
  <2>1. \A i \in c + 1 .. z : rest[i] \in S
    BY <1>0 DEF Partly
  <2>2. /\ Len(v) = IF c + 1 <= z THEN z - (c + 1) + 1 ELSE 0
        /\ v \in Seq(S) /\ \A i \in 1 .. z - (c + 1) + 1 : v[i] = rest[(c + 1) + i - 1]
    BY <1>0, <2>1, SubSeqProperties
  <2>3. /\ z - (c + 1) + 1 = z - c /\ \A i \in 1 .. z - c : (c + 1) + i - 1 = i + c
        /\ (IF c + 1 <= z THEN z - (c + 1) + 1 ELSE 0) = z - c
    BY <1>0
  <2>4. Len(v) = z - c /\ \A i \in 1 .. z - c : v[i] = rest[(c + 1) + i - 1]
    BY <2>2, <2>3
  <2>5. \A i \in 1 .. z - c : v[i] = rest[i + c]
    BY <2>3, <2>4
  <2>6. DOMAIN v = 1 .. z - c
    BY <2>2, <2>4
  <2> QED
    BY <2>2, <2>5, <2>6
<1>3. /\ DOMAIN A = 1 .. k + 1 /\ (\A a \in 1 .. k : A[a] = gs[a]) /\ A[k + 1] = rest
      /\ DOMAIN rest = 1 .. z
  BY <1>0
<1> HIDE DEF u, v
<1>4. /\ DOMAIN B = 1 .. k + 2 /\ (\A a \in 1 .. k : B[a] = gs[a]) /\ B[k + 1] = u /\ B[k + 2] = v
      /\ B \in Seq(Seq(S))
  <2> DEFINE t == Append(gs, u)
  <2>1. t \in Seq(Seq(S)) /\ Len(t) = k + 1 /\ (\A a \in 1 .. k : t[a] = gs[a]) /\ t[k + 1] = u
    BY <1>0, <1>1 DEF Partly
  <2> HIDE DEF t
  <2>2. LET w == Append(t, v) IN
        /\ w \in Seq(Seq(S)) /\ DOMAIN w = 1 .. (k + 1) + 1 /\ w[(k + 1) + 1] = v
        /\ \A a \in 1 .. k + 1 : w[a] = t[a]
    BY <1>0, <1>2, <2>1
  <2>3. (k + 1) + 1 = k + 2 /\ 1 .. k \subseteq 1 .. k + 1 /\ k + 1 \in 1 .. k + 1
    BY <1>0
  <2> QED
    BY <2>1, <2>2, <2>3 DEF t
<1>11. OnceEach(A, S)
  BY DEF Partly
<1> HIDE DEF A, B, k, z
<1>6. ASSUME NEW a \in DOMAIN B, NEW j \in DOMAIN B[a]
      PROVE  /\ g[a][j] = IF a = k + 2 THEN k + 1 ELSE a
             /\ h[a][j] = IF a = k + 2 THEN j + c ELSE j
  OBVIOUS
<1>5. ASSUME NEW a \in DOMAIN B, NEW j \in DOMAIN B[a]
      PROVE  j \in Nat \ {0} /\ (a = k + 1 => j \in 1 .. c)
  BY <1>0, <1>1, <1>4
<1> HIDE DEF g, h
<1>7. ASSUME NEW a \in DOMAIN B, NEW j \in DOMAIN B[a]
      PROVE  /\ g[a][j] \in DOMAIN A /\ h[a][j] \in DOMAIN A[g[a][j]]
             /\ B[a][j] = A[g[a][j]][h[a][j]]
  <2>1. CASE a = k + 2
    <3>1. g[a][j] = k + 1 /\ h[a][j] = j + c
      BY <1>6, <2>1
    <3>2. j \in 1 .. z - c
      BY <1>2, <1>4, <2>1
    <3>3. j + c \in 1 .. z /\ k + 1 \in 1 .. k + 1
      BY <1>0, <3>2
    <3> QED
      BY <1>2, <1>3, <1>4, <2>1, <3>1, <3>2, <3>3
  <2>2. CASE a = k + 1
    <3>0. a # k + 2 /\ k + 1 \in 1 .. k + 1
      BY <1>0, <2>2
    <3>1. g[a][j] = k + 1 /\ h[a][j] = j
      BY <1>6, <2>2, <3>0
    <3>2. j \in 1 .. c
      BY <1>5, <2>2
    <3>3. j \in 1 .. z
      BY <1>0, <3>2
    <3> QED
      BY <1>1, <1>3, <1>4, <2>2, <3>0, <3>1, <3>2, <3>3
  <2>3. CASE a # k + 1 /\ a # k + 2
    <3>1. g[a][j] = a /\ h[a][j] = j
      BY <1>6, <2>3
    <3>2. a \in 1 .. k /\ a \in 1 .. k + 1
      BY <1>0, <1>4, <2>3
    <3> QED
      BY <1>3, <1>4, <3>1, <3>2
  <2> QED
    BY <2>1, <2>2, <2>3
<1>8. ASSUME NEW a \in DOMAIN B, NEW p \in DOMAIN B, NEW j \in DOMAIN B[a], NEW q \in DOMAIN B[p],
             g[a][j] = g[p][q], h[a][j] = h[p][q]
      PROVE  a = p /\ j = q
  <2>1. a \in 1 .. k + 2 /\ p \in 1 .. k + 2
    BY <1>4
  <2>2. /\ j \in Nat \ {0} /\ q \in Nat \ {0}
        /\ (a = k + 1 => j \in 1 .. c) /\ (p = k + 1 => q \in 1 .. c)
    BY <1>5
  <2>3. /\ (IF a = k + 2 THEN k + 1 ELSE a) = IF p = k + 2 THEN k + 1 ELSE p
        /\ (IF a = k + 2 THEN j + c ELSE j) = IF p = k + 2 THEN q + c ELSE q
    BY <1>6, <1>8
  <2> QED
    BY <1>0, <2>1, <2>2, <2>3
<1>9. ASSUME NEW a \in DOMAIN A, NEW j \in DOMAIN A[a]
      PROVE  \E p \in DOMAIN B : \E q \in DOMAIN B[p] : B[p][q] = A[a][j]
  <2>1. CASE a = k + 1 /\ j > c
    <3>1. j \in 1 .. z /\ A[a][j] = rest[j]
      BY <1>3, <2>1
    <3>2. j - c \in 1 .. z - c /\ (j - c) + c = j /\ k + 2 \in 1 .. k + 2
      BY <1>0, <2>1, <3>1
    <3>3. k + 2 \in DOMAIN B /\ j - c \in DOMAIN B[k + 2] /\ B[k + 2][j - c] = rest[j]
      BY <1>2, <1>4, <3>2
    <3> QED
      BY <3>1, <3>3
  <2>2. CASE a = k + 1 /\ ~(j > c)
    <3>1. j \in 1 .. z /\ A[a][j] = rest[j]
      BY <1>3, <2>2
    <3>2. j \in 1 .. c /\ k + 1 \in 1 .. k + 2
      BY <1>0, <2>2, <3>1
    <3>3. k + 1 \in DOMAIN B /\ j \in DOMAIN B[k + 1] /\ B[k + 1][j] = rest[j]
      BY <1>1, <1>4, <3>2
    <3> QED
      BY <3>1, <3>3
  <2>3. CASE a # k + 1
    <3>1. a \in 1 .. k /\ a \in 1 .. k + 2
      BY <1>0, <1>3, <2>3
    <3>2. a \in DOMAIN B /\ B[a] = A[a]
      BY <1>3, <1>4, <3>1
    <3> QED
      BY <3>2
  <2> QED
    BY <2>1, <2>2, <2>3
<1>10. Moved(A, B, g, h)
  BY <1>7, <1>8, <1>9 DEF Moved
<1>12. OnceEach(B, S)
  BY <1>4, <1>10, <1>11, OnceMoved
<1> QED
  BY <1>12 DEF B, u, v, z

\* The groups after each turn of the deal, [groups, rest].
DealTurn(d, t, k, hi) ==
  LET i == 1 + ((t - 1) % k) IN
  IF d.rest = <<>> \/ Len(d.groups[i]) >= hi THEN d
  ELSE [groups |-> [d.groups EXCEPT ![i] = Append(@, Head(d.rest))], rest |-> Tail(d.rest)]

DealGrowth(seed, rest, k, hi, n, D) ==
  D = [t \in 0 .. n |-> IF t = 0 THEN [groups |-> seed, rest |-> rest] ELSE DealTurn(D[t - 1], t, k, hi)]

LEMMA DealExists ==
  ASSUME NEW seed, NEW rest, NEW k, NEW hi, NEW end \in Nat
  PROVE  \E D : DealGrowth(seed, rest, k, hi, end, D)
<1> DEFINE T == {n \in Nat : \E D : DealGrowth(seed, rest, k, hi, n, D)}
           start == [groups |-> seed, rest |-> rest]
<1>1. 0 \in T
  <2> DEFINE D == [t \in 0 .. 0 |-> start]
  <2>1. DealGrowth(seed, rest, k, hi, 0, D)
    BY DEF DealGrowth
  <2> QED
    BY <2>1
<1>2. ASSUME NEW n \in T PROVE n + 1 \in T
  <2>1. PICK D : DealGrowth(seed, rest, k, hi, n, D)
    OBVIOUS
  <2> DEFINE G == [t \in 0 .. n + 1 |-> IF t = n + 1 THEN DealTurn(D[n], t, k, hi) ELSE D[t]]
  <2>2. \A t \in 0 .. n : D[t] = IF t = 0 THEN start ELSE DealTurn(D[t - 1], t, k, hi)
    BY <2>1 DEF DealGrowth
  <2>3. \A t \in 0 .. n : G[t] = D[t]
    OBVIOUS
  <2> HIDE DEF start
  <2>4. ASSUME NEW t \in 0 .. n + 1
        PROVE  G[t] = IF t = 0 THEN start ELSE DealTurn(G[t - 1], t, k, hi)
    <3>1. CASE t = n + 1
      <4>1. G[t] = DealTurn(D[n], t, k, hi)
        BY <3>1
      <4>2. t # 0 /\ t - 1 = n /\ G[n] = D[n]
        BY <2>3, <3>1
      <4> QED
        BY <4>1, <4>2
    <3>2. CASE t \in 1 .. n
      <4>1. t \in 0 .. n /\ t - 1 \in 0 .. n /\ t # 0
        BY <3>2
      <4> HIDE DEF G
      <4> QED
        BY <2>2, <2>3, <4>1
    <3>3. CASE t = 0
      BY <2>2, <2>3, <3>3
    <3> QED
      BY <3>1, <3>2, <3>3
  <2>5. G = [t \in 0 .. n + 1 |-> G[t]]
    OBVIOUS
  <2> HIDE DEF G
  <2>6. DealGrowth(seed, rest, k, hi, n + 1, G)
    BY <2>4, <2>5 DEF DealGrowth, start
  <2> QED
    BY <2>6
<1> HIDE DEF T
<1>3. T = Nat
  BY <1>1, <1>2, NatSets DEF T
<1> QED
  BY <1>3 DEF T

\* What has been dealt to k groups, and what is left of the hosts S.
DealtOf(d, k, S) ==
  /\ d.groups \in Seq(Seq(S)) /\ Len(d.groups) = k /\ d.rest \in Seq(S)
  /\ OnceEach(Append(d.groups, d.rest), S)

LEMMA TurnKeeps ==
  ASSUME NEW S, NEW k \in Nat \ {0}, NEW hi, NEW d, DealtOf(d, k, S), NEW t \in Nat \ {0}
  PROVE  DealtOf(DealTurn(d, t, k, hi), k, S)
<1> DEFINE i == 1 + ((t - 1) % k)
           e == [groups |-> [d.groups EXCEPT ![i] = Append(@, Head(d.rest))], rest |-> Tail(d.rest)]
<1>1. i \in 1 .. k
  <2>1. t - 1 \in Nat
    OBVIOUS
  <2>2. (t - 1) % k \in 0 .. k - 1
    BY <2>1
  <2> QED
    BY <2>2
<1>2. CASE d.rest = <<>> \/ Len(d.groups[i]) >= hi
  BY <1>2 DEF DealTurn
<1>3. CASE ~(d.rest = <<>> \/ Len(d.groups[i]) >= hi)
  <2>1. DealTurn(d, t, k, hi) = e
    BY <1>3 DEF DealTurn
  <2> HIDE DEF i
  <2>2. /\ d.groups \in Seq(Seq(S)) /\ Len(d.groups) = k /\ d.rest \in Seq(S)
        /\ OnceEach(Append(d.groups, d.rest), S) /\ d.rest # <<>>
    BY <1>3 DEF DealtOf
  <2> DEFINE hs == [d.groups EXCEPT ![i] = Append(@, Head(d.rest))]
  <2>3. /\ hs \in Seq(Seq(S)) /\ Len(hs) = Len(d.groups) /\ Tail(d.rest) \in Seq(S)
        /\ OnceEach(Append(hs, Tail(d.rest)), S)
    BY <1>1, <2>2, OneMoves DEF Partly
  <2>4. e.groups = hs /\ e.rest = Tail(d.rest)
    OBVIOUS
  <2> HIDE DEF hs, e
  <2> QED
    BY <2>1, <2>2, <2>3, <2>4 DEF DealtOf
<1> QED
  BY <1>2, <1>3

LEMMA DealtKept ==
  ASSUME NEW S, NEW seed, NEW rest, NEW k \in Nat \ {0}, NEW hi, NEW end \in Nat, NEW D,
         DealGrowth(seed, rest, k, hi, end, D), DealtOf([groups |-> seed, rest |-> rest], k, S)
  PROVE  DealtOf(D[end], k, S)
<1> DEFINE T == {t \in Nat : t <= end => DealtOf(D[t], k, S)}
<1>0. \A t \in 0 .. end : D[t] = IF t = 0 THEN [groups |-> seed, rest |-> rest] ELSE DealTurn(D[t - 1], t, k, hi)
  BY DEF DealGrowth
<1>1. 0 \in T
  BY <1>0
<1>2. ASSUME NEW t \in T PROVE t + 1 \in T
  <2> SUFFICES ASSUME t + 1 <= end PROVE DealtOf(D[t + 1], k, S)
    OBVIOUS
  <2>1. t + 1 \in 0 .. end /\ t + 1 # 0 /\ (t + 1) - 1 = t /\ t + 1 \in Nat \ {0}
    OBVIOUS
  <2>2. D[t + 1] = DealTurn(D[t], t + 1, k, hi)
    BY <1>0, <2>1
  <2>3. DealtOf(D[t], k, S)
    OBVIOUS
  <2> QED
    BY <2>1, <2>2, <2>3, TurnKeeps
<1> HIDE DEF T
<1>3. T = Nat
  BY <1>1, <1>2, NatSets DEF T
<1> QED
  BY <1>3 DEF T

\* The first groups are cut from the hosts one after the other.
Seeds(hs, lo, t) == [i \in 1 .. t |-> SubSeq(hs, (i - 1) * lo + 1, i * lo)]

Seeded(hs, lo, t) == [groups |-> Seeds(hs, lo, t), rest |-> SubSeq(hs, t * lo + 1, Len(hs))]

LEMMA SeedMore ==
  ASSUME NEW S, NEW hs \in Seq(S), NEW lo \in Nat, NEW t \in Nat, (t + 1) * lo <= Len(hs),
         DealtOf(Seeded(hs, lo, t), t, S)
  PROVE  DealtOf(Seeded(hs, lo, t + 1), t + 1, S)
<1> DEFINE n == Len(hs)
           x == t * lo
           u == SubSeq(hs, x + 1, x + lo)
           v == SubSeq(hs, x + lo + 1, n)
           r == SubSeq(hs, x + 1, n)
           gs == Seeds(hs, lo, t)
<1>0. n \in Nat
  OBVIOUS
<1>1. x \in Nat /\ (t + 1) * lo = x + lo /\ ((t + 1) - 1) * lo = x
  OBVIOUS
<1>2. x + lo <= n
  BY <1>1
<1>3. gs \in Seq(Seq(S)) /\ Len(gs) = t /\ r \in Seq(S) /\ OnceEach(Append(gs, r), S)
  BY DEF DealtOf, Seeded
<1>4. Seeded(hs, lo, t + 1) = [groups |-> Seeds(hs, lo, t + 1), rest |-> v]
  BY <1>1 DEF Seeded
<1>5. Seeds(hs, lo, t + 1) = [i \in 1 .. t + 1 |-> IF i = t + 1 THEN u ELSE gs[i]]
  <2>1. \A i \in 1 .. t + 1 : i # t + 1 => i \in 1 .. t
    OBVIOUS
  <2> QED
    BY <1>1, <2>1 DEF Seeds
<1> HIDE DEF x, n
<1>6. \A i \in Int : i \in x + 1 .. n => hs[i] \in S
  <2>1. DOMAIN hs = 1 .. n
    BY DEF n
  <2>2. \A i \in 1 .. n : hs[i] \in S
    BY DEF n
  <2> QED
    BY <1>0, <1>1, <2>2
<1>7. u \in Seq(S) /\ Len(u) = lo /\ \A i \in 1 .. lo : u[i] = hs[x + i]
  <2>1. \A i \in x + 1 .. x + lo : hs[i] \in S
    BY <1>0, <1>1, <1>2, <1>6
  <2>2. x + 1 \in Int /\ x + lo \in Int
    BY <1>1
  <2>3. /\ u \in Seq(S) /\ Len(u) = IF x + 1 <= x + lo THEN (x + lo) - (x + 1) + 1 ELSE 0
        /\ \A i \in 1 .. (x + lo) - (x + 1) + 1 : u[i] = hs[(x + 1) + i - 1]
    <3> HIDE DEF u
    <3>1. u = SubSeq(hs, x + 1, x + lo)
      BY DEF u
    <3> QED
      BY <2>1, <2>2, <3>1, SubSeqProperties
  <2>4. /\ (x + lo) - (x + 1) + 1 = lo /\ \A i \in 1 .. lo : (x + 1) + i - 1 = x + i
        /\ (IF x + 1 <= x + lo THEN (x + lo) - (x + 1) + 1 ELSE 0) = lo
    BY <1>1
  <2> QED
    BY <2>3, <2>4
<1>8. r \in Seq(S) /\ Len(r) = n - x /\ \A i \in 1 .. n - x : r[i] = hs[x + i]
  <2>1. \A i \in x + 1 .. n : hs[i] \in S
    BY <1>0, <1>1, <1>2, <1>6
  <2>2. x + 1 \in Int /\ n \in Int
    BY <1>0, <1>1
  <2>3. /\ r \in Seq(S) /\ Len(r) = IF x + 1 <= n THEN n - (x + 1) + 1 ELSE 0
        /\ \A i \in 1 .. n - (x + 1) + 1 : r[i] = hs[(x + 1) + i - 1]
    <3> HIDE DEF r
    <3>1. r = SubSeq(hs, x + 1, n)
      BY DEF r
    <3> QED
      BY <2>1, <2>2, <3>1, SubSeqProperties
  <2>4. /\ n - (x + 1) + 1 = n - x /\ \A i \in 1 .. n - x : (x + 1) + i - 1 = x + i
        /\ (IF x + 1 <= n THEN n - (x + 1) + 1 ELSE 0) = n - x
    BY <1>0, <1>1, <1>2
  <2> QED
    BY <2>3, <2>4
<1>9. v \in Seq(S) /\ Len(v) = n - x - lo /\ \A i \in 1 .. n - x - lo : v[i] = hs[x + lo + i]
  <2>1. \A i \in x + lo + 1 .. n : hs[i] \in S
    BY <1>0, <1>1, <1>2, <1>6
  <2>2. x + lo + 1 \in Int /\ n \in Int
    BY <1>0, <1>1
  <2>3. /\ v \in Seq(S) /\ Len(v) = IF x + lo + 1 <= n THEN n - (x + lo + 1) + 1 ELSE 0
        /\ \A i \in 1 .. n - (x + lo + 1) + 1 : v[i] = hs[(x + lo + 1) + i - 1]
    <3> HIDE DEF v
    <3>1. v = SubSeq(hs, x + lo + 1, n)
      BY DEF v
    <3> QED
      BY <2>1, <2>2, <3>1, SubSeqProperties
  <2>4. /\ n - (x + lo + 1) + 1 = n - x - lo /\ \A i \in 1 .. n - x - lo : (x + lo + 1) + i - 1 = x + lo + i
        /\ (IF x + lo + 1 <= n THEN n - (x + lo + 1) + 1 ELSE 0) = n - x - lo
    BY <1>0, <1>1, <1>2
  <2> QED
    BY <2>3, <2>4
<1> HIDE DEF u, v, r, gs
<1>10. SubSeq(r, 1, lo) = u
  <2>1. \A i \in 1 .. lo : r[i] \in S /\ i \in 1 .. n - x
    BY <1>0, <1>1, <1>2, <1>8
  <2>2. /\ SubSeq(r, 1, lo) \in Seq(S) /\ Len(SubSeq(r, 1, lo)) = IF 1 <= lo THEN lo - 1 + 1 ELSE 0
        /\ \A i \in 1 .. lo - 1 + 1 : SubSeq(r, 1, lo)[i] = r[1 + i - 1]
    BY <2>1, SubSeqProperties
  <2>3. /\ lo - 1 + 1 = lo /\ (IF 1 <= lo THEN lo - 1 + 1 ELSE 0) = lo /\ \A i \in 1 .. lo : 1 + i - 1 = i
    OBVIOUS
  <2>4. Len(SubSeq(r, 1, lo)) = lo /\ \A i \in 1 .. lo : SubSeq(r, 1, lo)[i] = u[i]
    BY <1>7, <1>8, <2>1, <2>2, <2>3
  <2> QED
    BY <1>7, <2>2, <2>4, SeqEqual
<1>11. SubSeq(r, lo + 1, Len(r)) = v
  <2> DEFINE w == SubSeq(r, lo + 1, n - x)
  <2>1. \A i \in lo + 1 .. n - x : r[i] \in S
    BY <1>0, <1>1, <1>2, <1>8
  <2>2. lo + 1 \in Int /\ n - x \in Int
    BY <1>0, <1>1
  <2>3. /\ w \in Seq(S) /\ Len(w) = IF lo + 1 <= n - x THEN (n - x) - (lo + 1) + 1 ELSE 0
        /\ \A i \in 1 .. (n - x) - (lo + 1) + 1 : w[i] = r[(lo + 1) + i - 1]
    <3> HIDE DEF w
    <3>1. w = SubSeq(r, lo + 1, n - x)
      BY DEF w
    <3> QED
      BY <2>1, <2>2, <3>1, SubSeqProperties
  <2>4. /\ (n - x) - (lo + 1) + 1 = n - x - lo
        /\ (IF lo + 1 <= n - x THEN (n - x) - (lo + 1) + 1 ELSE 0) = n - x - lo
        /\ \A i \in 1 .. n - x - lo : /\ (lo + 1) + i - 1 = lo + i /\ lo + i \in 1 .. n - x
                                      /\ x + (lo + i) = x + lo + i
    BY <1>0, <1>1, <1>2
  <2>5. Len(w) = n - x - lo /\ \A i \in 1 .. n - x - lo : w[i] = v[i]
    BY <1>8, <1>9, <2>3, <2>4
  <2> HIDE DEF w
  <2>6. w = v
    BY <1>9, <2>3, <2>5, SeqEqual
  <2> QED
    BY <1>8, <2>6 DEF w
<1>12. OnceEach(Append(Append(gs, u), v), S)
  <2>1. lo \in 0 .. Len(r)
    BY <1>0, <1>1, <1>2, <1>8
  <2>2. OnceEach(Append(Append(gs, SubSeq(r, 1, lo)), SubSeq(r, lo + 1, Len(r))), S)
    BY <1>3, <2>1, RestSplits DEF Partly
  <2> QED
    BY <1>10, <1>11, <2>2
<1>13. Append(gs, u) = Seeds(hs, lo, t + 1) /\ Append(gs, u) \in Seq(Seq(S)) /\ Len(Append(gs, u)) = t + 1
  <2> DEFINE w == Append(gs, u)
  <2>1. w \in Seq(Seq(S)) /\ Len(w) = t + 1 /\ w[t + 1] = u /\ \A i \in 1 .. t : w[i] = gs[i]
    BY <1>3, <1>7
  <2> HIDE DEF w
  <2>2. DOMAIN w = 1 .. t + 1 /\ w = [i \in DOMAIN w |-> w[i]]
    BY <2>1
  <2>3. \A i \in 1 .. t + 1 : w[i] = IF i = t + 1 THEN u ELSE gs[i]
    BY <2>1
  <2>4. w = Seeds(hs, lo, t + 1)
    BY <1>5, <2>2, <2>3
  <2> QED
    BY <2>1, <2>4 DEF w
<1> QED
  BY <1>4, <1>9, <1>12, <1>13 DEF DealtOf

LEMMA SeedsDealt ==
  ASSUME NEW S, NEW hs \in Seq(S), OnceEach(Append(<<>>, hs), S),
         NEW k \in Nat, NEW lo \in Nat, k * lo <= Len(hs)
  PROVE  DealtOf(Seeded(hs, lo, k), k, S)
<1> DEFINE T == {t \in Nat : t <= k => DealtOf(Seeded(hs, lo, t), t, S)}
<1>1. 0 \in T
  <2>1. 0 * lo + 1 = 1 /\ SubSeq(hs, 1, Len(hs)) = hs
    BY SubSeqFull
  <2>2. Seeds(hs, lo, 0) = <<>>
    BY DEF Seeds
  <2>3. Seeded(hs, lo, 0) = [groups |-> <<>>, rest |-> hs]
    BY <2>1, <2>2 DEF Seeded
  <2>4. DealtOf([groups |-> <<>>, rest |-> hs], 0, S)
    BY DEF DealtOf
  <2> QED
    BY <2>3, <2>4
<1>2. ASSUME NEW t \in T PROVE t + 1 \in T
  <2> SUFFICES ASSUME t + 1 <= k PROVE DealtOf(Seeded(hs, lo, t + 1), t + 1, S)
    OBVIOUS
  <2>1. t \in Nat /\ DealtOf(Seeded(hs, lo, t), t, S)
    OBVIOUS
  <2> HIDE DEF T
  <2>2. (t + 1) * lo <= Len(hs)
    <3>1. PICK e \in Nat : k = (t + 1) + e
      <4>1. k - (t + 1) \in Nat /\ k = (t + 1) + (k - (t + 1))
        BY <2>1
      <4> QED
        BY <4>1
    <3>2. k * lo = (t + 1) * lo + e * lo /\ e * lo \in Nat /\ (t + 1) * lo \in Nat
      BY <2>1, <3>1
    <3>3. Len(hs) \in Nat /\ k * lo <= Len(hs)
      OBVIOUS
    <3> QED
      BY <3>2, <3>3
  <2> QED
    BY <2>1, <2>2, SeedMore
<1> HIDE DEF T
<1>3. T = Nat
  BY <1>1, <1>2, NatSets DEF T
<1> QED
  BY <1>3 DEF T

\* Whatever bounds are asked for, each host is dealt to one group.
LEMMA HostsDistributed ==
  ASSUME Rounds \in Nat, NEW S, NEW hs \in Seq(S), OnceEach(Append(<<>>, hs), S),
         NEW k \in Nat \ {0}, NEW b \in Nat \X Nat
  PROVE  /\ OnceEach(Distribute(hs, k, b), S)
         /\ \A i \in DOMAIN Distribute(hs, k, b) : Distribute(hs, k, b)[i] # <<>>
<1> DEFINE n == Len(hs)
           wanted == IF b[1] > 0 THEN b[1] ELSE 1
           hi == IF b[2] > 0 THEN Max({wanted, b[2]}) ELSE n
           lo == IF n >= k * wanted THEN wanted ELSE IF n >= k THEN 1 ELSE 0
           beyond == SubSeq(hs, k * lo + 1, n)
           end == Rounds * k
<1>1. PICK D : D = CHOOSE E : DealGrowth(Seeds(hs, lo, k), beyond, k, hi, end, E)
  OBVIOUS
<1>2. Distribute(hs, k, b) = Filled([D[end].groups EXCEPT ![k] = @ \o D[end].rest])
  BY <1>1 DEF Distribute, DealGrowth, DealTurn, Seeds
<1>3. n \in Nat /\ end \in Nat /\ lo \in Nat /\ k * lo <= n
  <2>1. n \in Nat /\ end \in Nat /\ wanted \in Nat
    OBVIOUS
  <2> HIDE DEF n, wanted
  <2>2. k * 1 = k /\ k * 0 = 0
    OBVIOUS
  <2> QED
    BY <2>1, <2>2
<1>4. DealtOf(Seeded(hs, lo, k), k, S)
  <2> HIDE DEF lo
  <2> QED
    BY <1>3, SeedsDealt
<1>5. Seeded(hs, lo, k) = [groups |-> Seeds(hs, lo, k), rest |-> beyond]
  BY DEF Seeded
<1> HIDE DEF n, hi, lo, end, beyond
<1>6. DealGrowth(Seeds(hs, lo, k), beyond, k, hi, end, D)
  BY <1>1, <1>3, DealExists
<1>7. DealtOf(D[end], k, S)
  BY <1>3, <1>4, <1>5, <1>6, DealtKept
<1> DEFINE gs == D[end].groups
           rest == D[end].rest
<1>8. gs \in Seq(Seq(S)) /\ Len(gs) = k /\ rest \in Seq(S) /\ OnceEach(Append(gs, rest), S)
  BY <1>7 DEF DealtOf
<1> HIDE DEF gs, rest
<1>9. OnceEach([gs EXCEPT ![Len(gs)] = @ \o rest], S)
  <2>1. gs # <<>>
    BY <1>8
  <2> QED
    BY <1>8, <2>1, RestJoins
<1>10. OnceEach([gs EXCEPT ![k] = @ \o rest], S)
  BY <1>8, <1>9
<1> QED
  BY <1>2, <1>10, FilledOnce DEF gs, rest

-----------------------------------------------------------------------------
(* The hosts of a router. *)

\* A quotient and a remainder are the only ones.
LEMMA OneRemainder ==
  ASSUME NEW n \in Nat \ {0}, NEW r \in 1 .. n, NEW q \in 1 .. n, NEW i \in Nat, NEW j \in Nat,
         r + i * n = q + j * n
  PROVE  r = q /\ i = j
<1>1. ASSUME NEW a \in 1 .. n, NEW b \in 1 .. n, NEW c \in Nat, NEW d \in Nat, c < d
      PROVE  a + c * n # b + d * n
  <2>1. PICK e \in Nat : d = c + 1 + e
    <3>1. d - (c + 1) \in Nat /\ d = c + 1 + (d - (c + 1))
      BY <1>1
    <3> QED
      BY <3>1
  <2>2. d * n = c * n + n + e * n /\ e * n \in Nat /\ c * n \in Nat
    BY <2>1
  <2> QED
    BY <2>2
<1>2. ~(i < j) /\ ~(j < i)
  BY <1>1
<1> QED
  BY <1>2

LEMMA LastOfRouters ==
  ASSUME routersN \in Nat PROVE LastRouter = IF routersN = 0 THEN 1 ELSE routersN
BY LeastOfTwo DEF LastRouter, Max

\* The k-th host of a router is there if there are that many.
LEMMA QuotientBound ==
  ASSUME NEW m \in Nat, NEW n \in Nat \ {0}, NEW r \in 1 .. n
  PROVE  /\ (m + n - r) \div n \in Nat
         /\ \A k \in Nat \ {0} : k <= (m + n - r) \div n <=> r + (k - 1) * n <= m
<1> DEFINE a == m + n - r
           c == a \div n
<1>1. a \in Nat
  OBVIOUS
<1> HIDE DEF a
<1>2. c \in Nat /\ a % n \in 0 .. n - 1 /\ a = n * c + (a % n)
  BY <1>1, Quotient
<1> DEFINE x == a % n
<1>7. c \in Nat /\ x \in 0 .. n - 1 /\ a = n * c + x
  BY <1>2
<1> HIDE DEF c, x
<1>3. ASSUME NEW k \in Nat \ {0}, k <= c PROVE k * n <= a
  <2>1. PICK e \in Nat : c = k + e
    <3>1. c - k \in Nat /\ c = k + (c - k)
      BY <1>7, <1>3
    <3> QED
      BY <3>1
  <2>2. n * c = k * n + e * n /\ e * n \in Nat /\ k * n \in Nat
    BY <2>1
  <2> QED
    BY <1>1, <1>7, <2>2
<1>4. ASSUME NEW k \in Nat \ {0}, ~(k <= c) PROVE ~(k * n <= a)
  <2>1. PICK e \in Nat : k = c + 1 + e
    <3>1. k - (c + 1) \in Nat /\ k = c + 1 + (k - (c + 1))
      BY <1>7, <1>4
    <3> QED
      BY <3>1
  <2>2. k * n = n * c + n + e * n /\ e * n \in Nat /\ n * c \in Nat
    BY <1>7, <2>1
  <2> QED
    BY <1>1, <1>7, <2>2
<1>5. \A k \in Nat \ {0} : k * n <= a <=> r + (k - 1) * n <= m
  <2> SUFFICES ASSUME NEW k \in Nat \ {0} PROVE k * n <= a <=> r + (k - 1) * n <= m
    OBVIOUS
  <2>1. (k - 1) * n = k * n - n /\ k * n \in Nat
    OBVIOUS
  <2> QED
    BY <2>1 DEF a
<1>6. c \in Nat /\ \A k \in Nat \ {0} : k <= c <=> r + (k - 1) * n <= m
  BY <1>2, <1>3, <1>4, <1>5
<1> QED
  BY <1>6 DEF c, a

Sized == routersN \in Nat /\ hostsN \in Nat

LEMMA HostsTyped ==
  ASSUME Sized, NEW r \in 1 .. LastRouter
  PROVE  /\ HostsOf(r) \in Seq(LanHosts) /\ Len(HostsOf(r)) \in Nat
         /\ IsInjective(HostsOf(r))
<1>1. CASE routersN = 0
  <2>1. HostsOf(r) = [h \in 1 .. hostsN |-> h] /\ LanHosts = 1 .. hostsN
    BY <1>1 DEF HostsOf, LanHosts
  <2> QED
    BY <2>1 DEF IsInjective, Sized
<1>2. CASE routersN # 0
  <2> DEFINE n == routersN
             c == (hostsN + n - r) \div n
             hs == [k \in 1 .. c |-> r + (k - 1) * n]
  <2>1. HostsOf(r) = hs
    BY <1>2 DEF HostsOf
  <2>2. n \in Nat \ {0} /\ r \in 1 .. n /\ hostsN \in Nat
    BY <1>2, LastOfRouters DEF Sized
  <2>3. c \in Nat /\ \A k \in Nat \ {0} : k <= c <=> r + (k - 1) * n <= hostsN
    BY <2>2, QuotientBound
  <2> HIDE DEF c, n
  <2>4. ASSUME NEW k \in 1 .. c PROVE r + (k - 1) * n \in 1 .. hostsN
    <3>1. k \in Nat \ {0} /\ k - 1 \in Nat /\ k <= c
      BY <2>3
    <3>2. (k - 1) * n \in Nat
      BY <2>2, <3>1
    <3>3. r + (k - 1) * n <= hostsN
      BY <2>3, <3>1
    <3> QED
      BY <2>2, <3>2, <3>3
  <2>5. hs \in Seq(1 .. hostsN) /\ Len(hs) = c
    BY <2>3, <2>4
  <2>6. ASSUME NEW k \in 1 .. c, NEW l \in 1 .. c, r + (k - 1) * n = r + (l - 1) * n PROVE k = l
    <3>1. k - 1 \in Nat /\ l - 1 \in Nat
      BY <2>3
    <3>2. k - 1 = l - 1
      BY <2>2, <2>6, <3>1, OneRemainder
    <3> QED
      BY <2>3, <3>2
  <2>7. IsInjective(hs)
    BY <2>6 DEF IsInjective
  <2> HIDE DEF hs
  <2> QED
    BY <2>1, <2>3, <2>5, <2>7 DEF LanHosts
<1> QED
  BY <1>1, <1>2

\* No host is dealt to two routers.
LEMMA HostsApart ==
  ASSUME Sized, NEW q \in 1 .. LastRouter, NEW r \in 1 .. LastRouter, q # r
  PROVE  Range(HostsOf(q)) \cap Range(HostsOf(r)) = {}
<1> DEFINE n == routersN
<1>1. n \in Nat \ {0} /\ q \in 1 .. n /\ r \in 1 .. n /\ hostsN \in Nat
  BY LastOfRouters DEF Sized
<1>2. \A p \in {q, r} : HostsOf(p) = [k \in 1 .. (hostsN + n - p) \div n |-> p + (k - 1) * n]
  BY <1>1 DEF HostsOf
<1>3. \A p \in {q, r} : \A h \in Range(HostsOf(p)) : \E i \in Nat : h = p + i * n
  <2> SUFFICES ASSUME NEW p \in {q, r}, NEW h \in Range(HostsOf(p)) PROVE \E i \in Nat : h = p + i * n
    OBVIOUS
  <2>1. PICK k \in 1 .. (hostsN + n - p) \div n : h = p + (k - 1) * n
    BY <1>2 DEF Range
  <2>2. k - 1 \in Nat
    BY <1>1, QuotientBound
  <2> QED
    BY <2>1, <2>2
<1> SUFFICES ASSUME NEW h \in Range(HostsOf(q)), h \in Range(HostsOf(r)) PROVE FALSE
  OBVIOUS
<1>4. PICK i \in Nat : h = q + i * n
  BY <1>3
<1>5. PICK j \in Nat : h = r + j * n
  BY <1>3
<1> QED
  BY <1>1, <1>4, <1>5, OneRemainder

\* No host is left out.
LEMMA HostsAreDealt ==
  ASSUME Sized, NEW h \in LanHosts
  PROVE  \E r \in 1 .. LastRouter : h \in Range(HostsOf(r))
<1>1. CASE routersN = 0
  <2>1. HostsOf(1) = [k \in LanHosts |-> k] /\ 1 \in 1 .. LastRouter
    BY <1>1, LastOfRouters DEF HostsOf, Sized
  <2>2. h \in Range(HostsOf(1))
    BY <2>1 DEF Range
  <2> QED
    BY <2>1, <2>2
<1>2. CASE routersN # 0
  <2> DEFINE n == routersN
             r == 1 + ((h - 1) % n)
             k == 1 + ((h - 1) \div n)
             c == (hostsN + n - r) \div n
  <2>1. n \in Nat \ {0} /\ hostsN \in Nat /\ LastRouter = n /\ h \in 1 .. hostsN
    BY <1>2, LastOfRouters DEF Sized, LanHosts
  <2>2. h - 1 \in Nat /\ h \in Nat
    BY <2>1
  <2>3. (h - 1) % n \in 0 .. n - 1 /\ (h - 1) \div n \in Nat /\ h - 1 = n * ((h - 1) \div n) + ((h - 1) % n)
    BY <2>1, <2>2, Quotient
  <2> HIDE DEF n
  <2>4. r \in 1 .. n /\ k \in Nat \ {0} /\ k - 1 = (h - 1) \div n
    BY <2>1, <2>3
  <2>5. h = r + (k - 1) * n
    <3>1. n * ((h - 1) \div n) = (k - 1) * n
      BY <2>1, <2>3, <2>4
    <3> QED
      BY <2>1, <2>2, <2>3, <3>1
  <2> HIDE DEF r, k
  <2>6. c \in Nat /\ k <= c
    <3>1. r + (k - 1) * n <= hostsN
      BY <2>1, <2>5
    <3> QED
      BY <2>1, <2>4, <3>1, QuotientBound
  <2>7. HostsOf(r) = [l \in 1 .. c |-> r + (l - 1) * n]
    BY <1>2 DEF HostsOf, n
  <2> HIDE DEF c
  <2>8. k \in 1 .. c
    BY <2>4, <2>6
  <2>9. h \in Range(HostsOf(r))
    BY <2>5, <2>7, <2>8 DEF Range
  <2> QED
    BY <2>1, <2>4, <2>9
<1> QED
  BY <1>1, <1>2

-----------------------------------------------------------------------------
(* The numbers of groups in mode "nonuniform". *)

LEMMA GreatestOfTwo ==
  ASSUME NEW a \in Nat, NEW b \in Nat
  PROVE  Max({a, b}) = IF a >= b THEN a ELSE b
BY DEF Max

GivenBounds == bounds \in [LanRouters -> Nat \X Nat]

LEMMA RangeOfGroups ==
  ASSUME Sized, GivenBounds, NEW r \in Choosers
  PROVE  /\ GroupRange(r) # {} /\ GroupRange(r) \subseteq Nat \ {0}
         /\ Cardinality(GroupRange(r)) \in Nat /\ Len(HostsOf(r)) \in Nat /\ r \in Nat
<1> DEFINE n == Len(HostsOf(r))
           lo == IF bounds[r][1] > 0 THEN bounds[r][1] ELSE 2
           hi == IF bounds[r][2] > 0 THEN Max({lo, bounds[r][2]}) ELSE n
           least == Max({1, Ceiling(n, hi)})
           most == IF lo > n THEN 1 ELSE n \div lo
           last == Max({least, most})
<1>1. r \in LanRouters /\ n >= 2 /\ r \in Nat
  BY DEF Choosers, LanRouters, Sized
<1>2. n \in Nat
  <2>1. r \in 1 .. LastRouter
    BY <1>1, LastOfRouters DEF LanRouters, Sized
  <2> QED
    BY <2>1, HostsTyped
<1>3. bounds[r][1] \in Nat /\ bounds[r][2] \in Nat
  BY <1>1 DEF GivenBounds
<1>4. GroupRange(r) = least .. last
  BY DEF GroupRange
<1> HIDE DEF n
<1>5. lo \in Nat \ {0}
  BY <1>3
<1>6. hi \in Nat \ {0}
  <2> HIDE DEF lo
  <2> QED
    BY <1>1, <1>2, <1>3, <1>5, GreatestOfTwo
<1> HIDE DEF lo, hi
<1>7. Ceiling(n, hi) \in Nat
  <2>1. n + hi - 1 \in Nat
    BY <1>2, <1>6
  <2> QED
    BY <1>6, <2>1, Quotient DEF Ceiling
<1>8. least \in Nat /\ least >= 1
  BY <1>7, GreatestOfTwo
<1>9. most \in Nat
  BY <1>2, <1>5, Quotient
<1> HIDE DEF least, most
<1>10. last \in Nat /\ last >= least
  BY <1>8, <1>9, GreatestOfTwo
<1> HIDE DEF last
<1>11. least \in least .. last /\ \A x \in least .. last : x \in Nat \ {0}
  BY <1>8, <1>10
<1>12. Cardinality(least .. last) \in Nat
  BY <1>8, <1>10, FS_Interval, FS_CardinalityType
<1> QED
  BY <1>1, <1>2, <1>4, <1>11, <1>12 DEF n

\* Choosers are in a line.
LEMMA SoonerIsOrder ==
  ASSUME Sized, GivenBounds, NEW p \in Choosers, NEW q \in Choosers, NEW r \in Choosers
  PROVE  /\ Sooner(p, q) /\ Sooner(q, r) => Sooner(p, r)
         /\ ~Sooner(p, p)
<1>1. \A x \in Choosers : Cardinality(GroupRange(x)) \in Nat /\ Len(HostsOf(x)) \in Nat /\ x \in Nat
  BY RangeOfGroups
<1> QED
  BY <1>1 DEF Sooner

SoonerThan(r) == {p \in Choosers : Sooner(p, r)}

\* The number that a router takes after those before it have taken theirs.
Taking(T, r) ==
  LET free == GroupRange(r) \ {T[q] : q \in SoonerThan(r)}
  IN Min(IF free = {} THEN GroupRange(r) ELSE free)

LEMMA TakingIsNat ==
  ASSUME Sized, GivenBounds, NEW T, NEW r \in Choosers PROVE Taking(T, r) \in Nat \ {0}
<1> DEFINE free == GroupRange(r) \ {T[q] : q \in SoonerThan(r)}
           from == IF free = {} THEN GroupRange(r) ELSE free
<1>1. from # {} /\ from \subseteq Nat \ {0}
  BY RangeOfGroups
<1>2. Taking(T, r) = Min(from)
  BY DEF Taking
<1> HIDE DEF from
<1> QED
  BY <1>1, <1>2, LeastIsOne

LEMMA SameTaking ==
  ASSUME NEW T, NEW U, NEW r, \A q \in SoonerThan(r) : T[q] = U[q]
  PROVE  Taking(T, r) = Taking(U, r)
<1>1. {T[q] : q \in SoonerThan(r)} = {U[q] : q \in SoonerThan(r)}
  OBVIOUS
<1> QED
  BY <1>1 DEF Taking

Rank(r) == Cardinality(SoonerThan(r))

LEMMA ChoosersFinite == Sized => IsFiniteSet(Choosers)
<1>1. Sized => IsFiniteSet(LanRouters)
  BY FS_Interval DEF LanRouters, Sized
<1> QED
  BY <1>1, FS_Subset DEF Choosers

LEMMA RankOfSooner ==
  ASSUME Sized, GivenBounds, NEW q \in Choosers, NEW r \in Choosers, Sooner(q, r)
  PROVE  Rank(q) \in Nat /\ Rank(r) \in Nat /\ Rank(q) < Rank(r)
<1>1. IsFiniteSet(Choosers)
  BY ChoosersFinite
<1>2. IsFiniteSet(SoonerThan(q)) /\ IsFiniteSet(SoonerThan(r))
  BY <1>1, FS_Subset DEF SoonerThan
<1>3. SoonerThan(q) \subseteq SoonerThan(r) /\ q \in SoonerThan(r) /\ q \notin SoonerThan(q)
  BY SoonerIsOrder DEF SoonerThan
<1>4. Cardinality(SoonerThan(q)) \in Nat /\ Cardinality(SoonerThan(r)) \in Nat
  BY <1>2, FS_CardinalityType
<1>5. Cardinality(SoonerThan(q)) <= Cardinality(SoonerThan(r)) /\ Cardinality(SoonerThan(q)) # Cardinality(SoonerThan(r))
  BY <1>2, <1>3, FS_Subset
<1> QED
  BY <1>4, <1>5 DEF Rank

LEMMA RankIsNat ==
  ASSUME Sized, NEW r \in Choosers PROVE Rank(r) \in Nat
<1>1. IsFiniteSet(Choosers)
  BY ChoosersFinite
<1>2. IsFiniteSet(SoonerThan(r))
  BY <1>1, FS_Subset DEF SoonerThan
<1> QED
  BY <1>2, FS_CardinalityType DEF Rank

\* The choices of the first n routers.
FirstOnes(n) == {r \in Choosers : Rank(r) < n}

LEMMA TargetsExist ==
  ASSUME Sized, GivenBounds PROVE \E T : T = [r \in Choosers |-> Taking(T, r)]
<1> DEFINE Part(n, T) == T = [r \in FirstOnes(n) |-> Taking(T, r)]
           M == {n \in Nat : \E T : Part(n, T)}
<1>1. 0 \in M
  <2> DEFINE T == [r \in {} |-> 0]
  <2>1. FirstOnes(0) = {}
    BY RankIsNat DEF FirstOnes
  <2>2. [r \in FirstOnes(0) |-> Taking(T, r)] = T
    BY <2>1
  <2> QED
    BY <2>2
<1>2. ASSUME NEW n \in M PROVE n + 1 \in M
  <2>1. PICK T : Part(n, T)
    OBVIOUS
  <2>0. n \in Nat
    OBVIOUS
  <2> HIDE DEF M
  <2> DEFINE U == [r \in FirstOnes(n + 1) |-> Taking(T, r)]
  <2>2. \A r \in FirstOnes(n + 1) : \A q \in SoonerThan(r) : q \in FirstOnes(n) /\ q \in FirstOnes(n + 1)
    BY <2>0, RankOfSooner DEF FirstOnes, SoonerThan
  <2>3. \A q \in FirstOnes(n) : T[q] = Taking(T, q)
    BY <2>1
  <2>4. \A r \in FirstOnes(n + 1) : U[r] = Taking(T, r)
    OBVIOUS
  <2>6. U = [r \in FirstOnes(n + 1) |-> U[r]]
    OBVIOUS
  <2> HIDE DEF U
  <2>5. \A r \in FirstOnes(n + 1) : Taking(T, r) = Taking(U, r)
    BY <2>2, <2>3, <2>4, SameTaking
  <2>7. Part(n + 1, U)
    BY <2>4, <2>5, <2>6
  <2> QED
    BY <2>0, <2>7 DEF M
<1> HIDE DEF M
<1>3. M = Nat
  BY <1>1, <1>2, NatSets DEF M
<1>4. \E n \in Nat : FirstOnes(n) = Choosers
  <2>1. IsFiniteSet(Choosers)
    BY ChoosersFinite
  <2>2. Cardinality(Choosers) \in Nat
    BY <2>1, FS_CardinalityType
  <2>3. \A r \in Choosers : Rank(r) < Cardinality(Choosers) + 1
    <3> SUFFICES ASSUME NEW r \in Choosers PROVE Rank(r) < Cardinality(Choosers) + 1
      OBVIOUS
    <3>1. SoonerThan(r) \in SUBSET Choosers
      BY DEF SoonerThan
    <3>2. Cardinality(SoonerThan(r)) <= Cardinality(Choosers)
      BY <2>1, <3>1, FS_Subset
    <3> QED
      BY <2>2, <3>2, RankIsNat DEF Rank
  <2> QED
    BY <2>2, <2>3 DEF FirstOnes
<1> QED
  BY <1>3, <1>4 DEF M

LEMMA TargetIsNat ==
  ASSUME Sized, GivenBounds, NEW r \in Choosers PROVE Targets[r] \in Nat \ {0}
<1>1. PICK T : T = CHOOSE U : U = [q \in Choosers |-> Taking(U, q)]
  OBVIOUS
<1>2. T = [q \in Choosers |-> Taking(T, q)]
  BY <1>1, TargetsExist
<1>3. Targets = T
  BY <1>1 DEF Targets, Taking, SoonerThan
<1> QED
  BY <1>2, <1>3, TakingIsNat

-----------------------------------------------------------------------------
(* Sequences of groups. *)

LEMMA OnceJoined ==
  ASSUME NEW A, NEW S, OnceEach(A, S), NEW B, NEW T, OnceEach(B, T), S \cap T = {}
  PROVE  OnceEach(A \o B, S \cup T)
<1> DEFINE U == S \cup T
           C == A \o B
           m == Len(A)
           n == Len(B)
<1>1. /\ A \in Seq(Seq(S)) /\ B \in Seq(Seq(T)) /\ m \in Nat /\ n \in Nat
      /\ DOMAIN A = 1 .. m /\ DOMAIN B = 1 .. n
  BY DEF OnceEach
<1>2. /\ DOMAIN C = 1 .. m + n
      /\ \A i \in 1 .. m + n : C[i] = IF i <= m THEN A[i] ELSE B[i - m]
  BY <1>1
<1>3. C \in Seq(Seq(U))
  <2>1. Seq(S) \subseteq Seq(U) /\ Seq(T) \subseteq Seq(U)
    BY SeqSubset
  <2>2. A \in Seq(Seq(U)) /\ B \in Seq(Seq(U))
    BY <1>1, <2>1, SeqSubset
  <2> HIDE DEF U
  <2> QED
    BY <2>2
<1> HIDE DEF C, m, n
<1>4. \A i \in 1 .. m + n : /\ i <= m => i \in 1 .. m
                            /\ ~(i <= m) => i - m \in 1 .. n
  BY <1>1
<1>5. /\ \A i \in 1 .. m : i \in 1 .. m + n /\ C[i] = A[i]
      /\ \A i \in 1 .. n : i + m \in 1 .. m + n /\ C[i + m] = B[i]
  <2>1. \A i \in 1 .. m : i \in 1 .. m + n /\ i <= m
    BY <1>1
  <2>2. \A i \in 1 .. n : i + m \in 1 .. m + n /\ ~(i + m <= m) /\ (i + m) - m = i
    BY <1>1
  <2> QED
    BY <1>2, <2>1, <2>2
<1>6. ASSUME NEW x \in U PROVE \E i \in DOMAIN C : \E j \in DOMAIN C[i] : C[i][j] = x
  <2>1. CASE x \in S
    <3>1. PICK i \in DOMAIN A : \E j \in DOMAIN A[i] : A[i][j] = x
      BY <2>1 DEF OnceEach
    <3> QED
      BY <1>1, <1>2, <1>5, <3>1
  <2>2. CASE x \in T
    <3>1. PICK i \in DOMAIN B : \E j \in DOMAIN B[i] : B[i][j] = x
      BY <2>2 DEF OnceEach
    <3>2. i + m \in DOMAIN C /\ C[i + m] = B[i]
      BY <1>1, <1>2, <1>5
    <3> QED
      BY <3>1, <3>2
  <2> QED
    BY <2>1, <2>2
<1>7. ASSUME NEW i \in DOMAIN C, NEW p \in DOMAIN C, NEW j \in DOMAIN C[i], NEW q \in DOMAIN C[p],
             C[i][j] = C[p][q]
      PROVE  i = p /\ j = q
  <2>1. \A a \in 1 .. m : \A b \in DOMAIN A[a] : A[a][b] \in S
    BY <1>1
  <2>2. \A a \in 1 .. n : \A b \in DOMAIN B[a] : B[a][b] \in T
    BY <1>1
  <2>3. i \in 1 .. m + n /\ p \in 1 .. m + n
    BY <1>2
  <2>4. CASE i <= m /\ p <= m
    <3>1. i \in 1 .. m /\ p \in 1 .. m /\ C[i] = A[i] /\ C[p] = A[p]
      BY <1>2, <1>4, <2>3, <2>4
    <3> QED
      BY <1>1, <1>7, <3>1 DEF OnceEach
  <2>5. CASE ~(i <= m) /\ ~(p <= m)
    <3>1. i - m \in 1 .. n /\ p - m \in 1 .. n /\ C[i] = B[i - m] /\ C[p] = B[p - m]
      BY <1>2, <1>4, <2>3, <2>5
    <3>2. i - m = p - m /\ j = q
      BY <1>1, <1>7, <3>1 DEF OnceEach
    <3> QED
      BY <1>1, <2>3, <3>2
  <2>6. CASE i <= m /\ ~(p <= m)
    <3>1. i \in 1 .. m /\ p - m \in 1 .. n /\ C[i] = A[i] /\ C[p] = B[p - m]
      BY <1>2, <1>4, <2>3, <2>6
    <3> QED
      BY <1>7, <2>1, <2>2, <3>1
  <2>7. CASE ~(i <= m) /\ p <= m
    <3>1. i - m \in 1 .. n /\ p \in 1 .. m /\ C[i] = B[i - m] /\ C[p] = A[p]
      BY <1>2, <1>4, <2>3, <2>7
    <3> QED
      BY <1>7, <2>1, <2>2, <3>1
  <2> QED
    BY <2>4, <2>5, <2>6, <2>7
<1> QED
  BY <1>3, <1>6, <1>7 DEF OnceEach, C

LEMMA OneGroup ==
  ASSUME NEW S, NEW g \in Seq(S), IsInjective(g)
  PROVE  /\ OnceEach(Append(<<>>, g), Range(g))
         /\ OnceEach(IF g = <<>> THEN <<>> ELSE <<g>>, Range(g))
<1>1. g \in Seq(Range(g))
  BY DEF Range
<1>2. Append(<<>>, g) = <<g>>
  OBVIOUS
<1>3. OnceEach(<<g>>, Range(g))
  <2>1. <<g>> \in Seq(Seq(Range(g))) /\ DOMAIN <<g>> = {1} /\ <<g>>[1] = g
    BY <1>1
  <2> QED
    BY <2>1 DEF OnceEach, IsInjective, Range
<1>4. g = <<>> => OnceEach(<<>>, Range(g))
  BY DEF OnceEach, Range
<1> QED
  BY <1>2, <1>3, <1>4

\* Groups of hosts S hold hosts S.
LEMMA GroupsWithin ==
  ASSUME NEW gs, NEW S, OnceEach(gs, S), NEW i \in DOMAIN gs
  PROVE  gs[i] \in Seq(S) /\ Range(gs[i]) \subseteq S /\ IsInjective(gs[i])
<1>1. gs[i] \in Seq(S)
  BY DEF OnceEach
<1>2. Range(gs[i]) \subseteq S
  BY <1>1 DEF Range
<1>3. IsInjective(gs[i])
  BY DEF OnceEach, IsInjective
<1> QED
  BY <1>1, <1>2, <1>3

LanSwitches == [router : LanRouters \cup {Star}, hosts : Seq(LanHosts), subnet : Slots]

\* The hosts behind each switch.
Behind(s) == [i \in DOMAIN s |-> s[i].hosts]

LEMMA BehindMore ==
  ASSUME NEW s \in Seq(LanSwitches), NEW w,
         NEW gs \in Seq(Seq(LanHosts)), gs # <<>>, w.hosts = Head(gs)
  PROVE  Behind(Append(s, w)) \o Tail(gs) = Behind(s) \o gs
<1> DEFINE S == LanHosts
           W == LanSwitches
           m == Len(s)
           n == Len(gs)
           A == Behind(s)
           B == Behind(Append(s, w))
<1>1. /\ m \in Nat /\ n \in Nat \ {0} /\ Head(gs) = gs[1] /\ Tail(gs) \in Seq(Seq(S)) /\ Len(Tail(gs)) = n - 1
      /\ (\A i \in 1 .. n - 1 : Tail(gs)[i] = gs[i + 1]) /\ gs[1] \in Seq(S)
  OBVIOUS
<1>2. Len(Append(s, w)) = m + 1 /\ DOMAIN Append(s, w) = 1 .. m + 1 /\ Append(s, w)[m + 1] = w
      /\ \A i \in 1 .. m : Append(s, w)[i] = s[i]
  OBVIOUS
<1>3. A = [i \in 1 .. m |-> s[i].hosts] /\ B = [i \in 1 .. m + 1 |-> IF i = m + 1 THEN gs[1] ELSE s[i].hosts]
  <2>1. \A i \in 1 .. m + 1 : i # m + 1 => i \in 1 .. m
    <3> HIDE DEF m
    <3> QED
      BY <1>1
  <2> QED
    BY <1>1, <1>2, <2>1 DEF Behind
<1>4. \A i \in 1 .. m : s[i].hosts \in Seq(S)
  <2>1. \A v \in W : v.hosts \in Seq(S)
    BY DEF LanSwitches
  <2> HIDE DEF W, S
  <2> QED
    BY <2>1 DEF W
<1> HIDE DEF m, A, B
<1>5. A \in Seq(Seq(S)) /\ Len(A) = m
  BY <1>1, <1>3, <1>4
<1>6. B \in Seq(Seq(S)) /\ Len(B) = m + 1
  <2>1. \A i \in 1 .. m + 1 : (IF i = m + 1 THEN gs[1] ELSE s[i].hosts) \in Seq(S)
    BY <1>1, <1>4
  <2> QED
    BY <1>1, <1>3, <2>1
<1>7. \A i \in 1 .. m + 1 : B[i] = IF i = m + 1 THEN gs[1] ELSE A[i]
  <2>1. \A i \in 1 .. m + 1 : i # m + 1 => i \in 1 .. m
    BY <1>1
  <2> QED
    BY <1>3, <2>1
<1> DEFINE C == B \o Tail(gs)
           D == A \o gs
<1>8. /\ C \in Seq(Seq(S)) /\ Len(C) = (m + 1) + (n - 1)
      /\ \A i \in 1 .. (m + 1) + (n - 1) : C[i] = IF i <= m + 1 THEN B[i] ELSE Tail(gs)[i - (m + 1)]
  <2>1. Len(Tail(gs)) = n - 1 /\ Tail(gs) \in Seq(Seq(S))
    BY <1>1
  <2> HIDE DEF n
  <2>2. /\ C \in Seq(Seq(S)) /\ Len(C) = Len(B) + Len(Tail(gs))
        /\ \A i \in 1 .. Len(B) + Len(Tail(gs)) : C[i] = IF i <= Len(B) THEN B[i] ELSE Tail(gs)[i - Len(B)]
    BY <1>6, <2>1, ConcatProperties
  <2> HIDE DEF C
  <2> QED
    BY <1>6, <2>1, <2>2
<1>9. /\ D \in Seq(Seq(S)) /\ Len(D) = m + n
      /\ \A i \in 1 .. m + n : D[i] = IF i <= m THEN A[i] ELSE gs[i - m]
  <2>1. gs \in Seq(Seq(S)) /\ n = Len(gs)
    OBVIOUS
  <2> HIDE DEF n
  <2> QED
    BY <1>1, <1>5, <2>1, ConcatProperties
<1> HIDE DEF C, D, n
<1>10. ASSUME NEW i \in 1 .. m + n PROVE C[i] = D[i]
  <2>0. (m + 1) + (n - 1) = m + n
    BY <1>1
  <2>1. CASE i <= m
    <3>1. i <= m + 1 /\ i # m + 1 /\ i \in 1 .. m + 1
      BY <1>1, <2>1
    <3> QED
      BY <1>7, <1>8, <1>9, <2>0, <2>1, <3>1
  <2>2. CASE i = m + 1
    <3>1. i <= m + 1 /\ ~(i <= m) /\ i - m = 1 /\ i \in 1 .. m + 1
      BY <1>1, <2>2
    <3>2. C[i] = B[i] /\ D[i] = gs[1]
      BY <1>8, <1>9, <2>0, <3>1
    <3> QED
      BY <1>7, <2>2, <3>1, <3>2
  <2>3. CASE i > m + 1
    <3>1. ~(i <= m + 1) /\ ~(i <= m) /\ i - (m + 1) \in 1 .. n - 1 /\ (i - (m + 1)) + 1 = i - m
      BY <1>1, <2>3
    <3>2. C[i] = Tail(gs)[i - (m + 1)] /\ D[i] = gs[i - m]
      BY <1>8, <1>9, <2>0, <3>1
    <3> QED
      BY <1>1, <3>1, <3>2
  <2> QED
    BY <1>1, <2>1, <2>2, <2>3
<1>11. Len(C) = Len(D) /\ \A i \in 1 .. Len(C) : C[i] = D[i]
  BY <1>1, <1>8, <1>9, <1>10
<1>12. C = D
  BY <1>8, <1>9, <1>11, SeqEqual
<1> QED
  BY <1>12 DEF A, B, C, D

-----------------------------------------------------------------------------
(* The invariant of a preview's hosts. *)

\* Hosts of router r if there are n routers and m hosts; those of the routers before r.
HostsIn(n, m, r) ==
  IF n = 0 THEN [h \in 1 .. m |-> h] ELSE [k \in 1 .. (m + n - r) \div n |-> r + (k - 1) * n]

Before(n, m, r) == UNION {Range(HostsIn(n, m, q)) : q \in 1 .. r - 1}

GivenOK ==
  /\ Sized /\ GivenBounds
  /\ policy \in [mode : LanModes, target : Nat] /\ (policy.mode = "exact" => policy.target # 0)

PhaseOK ==
  /\ lan \in {"links", "group", "cut", "lans", "number", "end", "failed"}
  /\ router \in 1 .. LastRouter + 1
  /\ lan = "links" => router = 1 /\ switches = <<>>
  /\ lan \in {"group", "cut", "lans"} => router <= LastRouter
  /\ lan \in {"number", "end"} => router = LastRouter + 1
  /\ lan \notin {"cut", "lans", "failed"} => groups = <<>>
  /\ lan = "cut" => routersN # 0
  /\ lan = "group" /\ routersN = 0 => switches = <<>>

\* No host is lost or doubled on its way into a group and behind a switch.
HostsKept ==
  /\ groups \in Seq(Seq(LanHosts)) /\ uncut \in Seq(LanHosts) /\ switches \in Seq(LanSwitches)
  /\ lan \notin {"lans", "failed"} => OnceEach(Behind(switches), Before(routersN, hostsN, router))
  /\ lan = "cut" => OnceEach(Append(groups, uncut), Range(HostsIn(routersN, hostsN, router)))
  /\ lan = "lans" =>
       /\ OnceEach(Behind(switches) \o groups, Before(routersN, hostsN, router + 1))
       /\ \A i \in DOMAIN groups : Range(groups[i]) \subseteq Range(HostsIn(routersN, hostsN, router))
  /\ routersN = 0 => Len(switches) + Len(groups) <= 1
  /\ \A w \in DOMAIN switches :
       IF routersN = 0 THEN switches[w].router = Star
       ELSE /\ switches[w].router \in LanRouters
            /\ Range(switches[w].hosts) \subseteq Range(HostsIn(routersN, hostsN, switches[w].router))

LEMMA HostsOfIn == \A r : HostsOf(r) = HostsIn(routersN, hostsN, r)
BY DEF HostsOf, HostsIn, LanHosts

LEMMA NoneBefore == Before(routersN, hostsN, 1) = {}
BY DEF Before

LEMMA BeforeNext ==
  ASSUME Sized, NEW r \in 1 .. LastRouter
  PROVE  /\ Before(routersN, hostsN, r + 1) = Before(routersN, hostsN, r) \cup Range(HostsOf(r))
         /\ Before(routersN, hostsN, r) \cap Range(HostsOf(r)) = {}
<1>1. LastRouter \in Nat
  BY LastOfRouters DEF Sized
<1>2. 1 .. (r + 1) - 1 = (1 .. r - 1) \cup {r} /\ \A q \in 1 .. r - 1 : q # r /\ q \in 1 .. LastRouter
  BY <1>1
<1> QED
  BY <1>2, HostsOfIn, HostsApart DEF Before

\* At last all hosts.
LEMMA AllBefore ==
  Sized => Before(routersN, hostsN, LastRouter + 1) = LanHosts
<1> SUFFICES ASSUME Sized PROVE Before(routersN, hostsN, LastRouter + 1) = LanHosts
  OBVIOUS
<1>1. LastRouter \in Nat
  BY LastOfRouters DEF Sized
<1>2. 1 .. (LastRouter + 1) - 1 = 1 .. LastRouter
  BY <1>1
<1>3. \A r \in 1 .. LastRouter : Range(HostsOf(r)) \subseteq LanHosts
  <2> SUFFICES ASSUME NEW r \in 1 .. LastRouter PROVE Range(HostsOf(r)) \subseteq LanHosts
    OBVIOUS
  <2>1. HostsOf(r) \in Seq(LanHosts)
    BY HostsTyped
  <2> QED
    BY <2>1 DEF Range
<1> QED
  BY <1>2, <1>3, HostsAreDealt, HostsOfIn DEF Before

LEMMA InitHosts == LanInit => GivenOK /\ PhaseOK /\ HostsKept
<1> SUFFICES ASSUME LanInit PROVE GivenOK /\ PhaseOK /\ HostsKept
  OBVIOUS
<1>1. Sized
  BY HostLanBounds DEF LanInit, Sized
<1>2. GivenBounds
  BY HostLanBounds DEF LanInit, GivenBounds
<1>3. policy \in [mode : LanModes, target : Nat] /\ (policy.mode = "exact" => policy.target # 0)
  BY HostLanBounds DEF LanInit, LanModes
<1>4. PhaseOK
  BY <1>1, LastOfRouters DEF LanInit, PhaseOK, Sized
<1>5. OnceEach(Behind(switches), Before(routersN, hostsN, router))
  <2>1. Behind(switches) = <<>> /\ router = 1
    BY DEF LanInit, Behind
  <2> QED
    BY <2>1, NoneBefore DEF OnceEach
<1>6. groups = <<>> /\ uncut = <<>> /\ switches = <<>> /\ lan = "links"
  BY DEF LanInit
<1> QED
  BY <1>1, <1>2, <1>3, <1>4, <1>5, <1>6 DEF GivenOK, HostsKept

\* What is asked for stays.
LEMMA GivenStays ==
  ASSUME GivenOK, UNCHANGED Given
  PROVE  /\ GivenOK' /\ LastRouter' = LastRouter /\ LanRouters' = LanRouters /\ LanHosts' = LanHosts
         /\ LanSwitches' = LanSwitches /\ routersN' = routersN /\ hostsN' = hostsN /\ policy' = policy
BY DEF Given, GivenOK, Sized, GivenBounds, LanRouters, LanHosts, LanSwitches, LastRouter

LEMMA HostsSame ==
  ASSUME GivenOK, UNCHANGED Given, HostsKept,
         groups' = groups, uncut' = uncut, switches' = switches, router' = router,
         \/ lan' = lan
         \/ lan' = "failed"
         \/ lan' \notin {"lans", "cut"} /\ lan \notin {"lans", "failed"}
  PROVE  HostsKept'
BY GivenStays DEF HostsKept

LEMMA DrawInVainHosts ==
  ASSUME GivenOK, PhaseOK, HostsKept, DrawInVain PROVE GivenOK' /\ PhaseOK' /\ HostsKept'
<1>1. UNCHANGED Given /\ UNCHANGED <<lan, router, uncut, groups, switches>>
  BY DEF DrawInVain
<1> QED
  BY <1>1, GivenStays, HostsSame DEF PhaseOK

LEMMA DrawLinkHosts ==
  ASSUME GivenOK, PhaseOK, HostsKept, DrawLink PROVE GivenOK' /\ PhaseOK' /\ HostsKept'
<1>1. UNCHANGED Given /\ UNCHANGED <<lan, router, uncut, groups, switches>>
  BY DEF DrawLink
<1> QED
  BY <1>1, GivenStays, HostsSame DEF PhaseOK

LEMMA FallbackLinkHosts ==
  ASSUME GivenOK, PhaseOK, HostsKept, FallbackLink PROVE GivenOK' /\ PhaseOK' /\ HostsKept'
<1>1. UNCHANGED Given /\ UNCHANGED <<router, uncut, groups, switches>> /\ lan' \in {lan, "failed"}
  BY DEF FallbackLink
<1> QED
  BY <1>1, GivenStays, HostsSame DEF PhaseOK

LEMMA LinksDoneHosts ==
  ASSUME GivenOK, PhaseOK, HostsKept, LinksDone PROVE GivenOK' /\ PhaseOK' /\ HostsKept'
<1>1. UNCHANGED Given /\ UNCHANGED <<router, uncut, groups, switches>> /\ lan = "links" /\ lan' = "group"
  BY DEF LinksDone, Drawing
<1>2. 1 <= LastRouter
  BY LastOfRouters DEF GivenOK, Sized
<1> QED
  BY <1>1, <1>2, GivenStays, HostsSame DEF PhaseOK

\* However the hosts of a router have been grouped: each is in one group.
LEMMA GroupedHosts ==
  ASSUME GivenOK, PhaseOK, HostsKept, UNCHANGED Given, lan \in {"group", "cut"}, lan' = "lans",
         router' = router, switches' = switches, uncut' = uncut,
         OnceEach(groups', Range(HostsOf(router))), routersN = 0 => Len(groups') <= 1 /\ switches = <<>>
  PROVE  GivenOK' /\ PhaseOK' /\ HostsKept'
<1> DEFINE H == Range(HostsOf(router))
<1>1. router \in 1 .. LastRouter /\ Sized
  BY LastOfRouters DEF PhaseOK, GivenOK, Sized
<1>2. H \subseteq LanHosts
  <2>1. HostsOf(router) \in Seq(LanHosts)
    BY <1>1, HostsTyped
  <2> QED
    BY <2>1 DEF Range
<1>3. groups' \in Seq(Seq(LanHosts))
  <2>1. groups' \in Seq(Seq(H)) /\ Seq(H) \subseteq Seq(LanHosts)
    BY <1>2, SeqSubset DEF OnceEach
  <2> QED
    BY <2>1, SeqSubset
<1>4. OnceEach(Behind(switches) \o groups', Before(routersN, hostsN, router + 1))
  <2>1. OnceEach(Behind(switches), Before(routersN, hostsN, router))
    BY DEF HostsKept
  <2>2. /\ Before(routersN, hostsN, router + 1) = Before(routersN, hostsN, router) \cup H
        /\ Before(routersN, hostsN, router) \cap H = {}
    BY <1>1, BeforeNext
  <2> HIDE DEF H
  <2>3. OnceEach(groups', H)
    BY DEF H
  <2> QED
    BY <2>1, <2>2, <2>3, OnceJoined
<1>5. \A i \in DOMAIN groups' : Range(groups'[i]) \subseteq Range(HostsIn(routersN, hostsN, router))
  BY GroupsWithin, HostsOfIn
<1>6. GivenOK' /\ PhaseOK'
  BY GivenStays, <1>1 DEF PhaseOK
<1>7. routersN = 0 => Len(switches) + Len(groups') <= 1
  <2>1. groups' \in Seq(Seq(LanHosts)) => Len(groups') \in Nat
    OBVIOUS
  <2> QED
    BY <1>3, <2>1
<1> QED
  BY <1>3, <1>4, <1>5, <1>6, <1>7, GivenStays DEF HostsKept

LEMMA GroupAllHosts ==
  ASSUME GivenOK, PhaseOK, HostsKept, GroupAll PROVE GivenOK' /\ PhaseOK' /\ HostsKept'
<1> DEFINE H == HostsOf(router)
<1>1. /\ UNCHANGED Given /\ lan \in {"group", "cut"} /\ lan' = "lans" /\ router' = router
      /\ switches' = switches /\ uncut' = uncut /\ groups' = IF H = <<>> THEN <<>> ELSE <<H>>
  BY DEF GroupAll, Drawing
<1>2. Sized /\ router \in 1 .. LastRouter
  BY LastOfRouters DEF GivenOK, PhaseOK, GroupAll, Sized
<1>3. OnceEach(groups', Range(H))
  <2>1. H \in Seq(LanHosts) /\ IsInjective(H)
    BY <1>2, HostsTyped
  <2> HIDE DEF H
  <2> QED
    BY <1>1, <2>1, OneGroup
<1>4. routersN = 0 => Len(groups') <= 1 /\ switches = <<>>
  BY <1>1 DEF PhaseOK, GroupAll
<1> QED
  BY <1>1, <1>3, <1>4, GroupedHosts

LEMMA GroupExactlyHosts ==
  ASSUME GivenOK, PhaseOK, HostsKept, GroupExactly PROVE GivenOK' /\ PhaseOK' /\ HostsKept'
<1> DEFINE H == HostsOf(router)
           k == IF policy.mode = "exact" THEN policy.target ELSE Targets[router]
<1>1. /\ UNCHANGED Given /\ lan \in {"group", "cut"} /\ lan' = "lans" /\ router' = router
      /\ switches' = switches /\ uncut' = uncut /\ groups' = Distribute(H, k, bounds[router])
  BY DEF GroupExactly, Drawing
<1>2. Sized /\ router \in 1 .. LastRouter /\ GivenBounds /\ routersN # 0 /\ Len(H) >= 2
  <2>1. Len(H) \in Nat
    BY HostsTyped, LastOfRouters DEF GivenOK, PhaseOK, GroupExactly, Sized
  <2> QED
    BY <2>1, LastOfRouters DEF GivenOK, PhaseOK, GroupExactly, Sized, Single
<1>3. H \in Seq(LanHosts) /\ IsInjective(H)
  BY <1>2, HostsTyped
<1>4. router \in LanRouters /\ router \in Choosers
  BY <1>2, LastOfRouters DEF LanRouters, Choosers, Sized
<1>5. k \in Nat \ {0}
  BY <1>2, <1>4, TargetIsNat DEF GivenOK
<1>6. bounds[router] \in Nat \X Nat
  BY <1>2, <1>4 DEF GivenBounds
<1> HIDE DEF H, k
<1>7. OnceEach(Append(<<>>, H), Range(H)) /\ H \in Seq(Range(H))
  BY <1>3, OneGroup DEF Range
<1>8. OnceEach(groups', Range(H))
  BY <1>1, <1>5, <1>6, <1>7, HostLanBounds, HostsDistributed
<1> QED
  BY <1>1, <1>2, <1>8, GroupedHosts DEF H

\* Groups that have the same hosts stay within the hosts there are.
LEMMA CutKeeps ==
  ASSUME GivenOK, PhaseOK, HostsKept, UNCHANGED Given, lan \in {"group", "cut"}, lan' = "cut",
         routersN # 0, router' = router,
         switches' = switches, groups' \in Seq(Seq(LanHosts)), uncut' \in Seq(LanHosts),
         OnceEach(Append(groups', uncut'), Range(HostsIn(routersN, hostsN, router)))
  PROVE  GivenOK' /\ PhaseOK' /\ HostsKept'
<1>1. OnceEach(Behind(switches), Before(routersN, hostsN, router)) 
  BY DEF HostsKept
<1>2. GivenOK' /\ PhaseOK'
  BY <1>1, GivenStays DEF PhaseOK
<1> QED
  BY <1>1, <1>2, GivenStays DEF HostsKept

LEMMA BeginCutsHosts ==
  ASSUME GivenOK, PhaseOK, HostsKept, BeginCuts PROVE GivenOK' /\ PhaseOK' /\ HostsKept'
<1> DEFINE H == HostsOf(router)
<1>1. /\ UNCHANGED Given /\ lan = "group" /\ lan' = "cut" /\ router' = router
      /\ switches' = switches /\ uncut' = H /\ groups' = <<>> /\ routersN # 0
  BY DEF BeginCuts, Drawing, Single
<1>2. Sized /\ router \in 1 .. LastRouter
  BY LastOfRouters DEF GivenOK, PhaseOK, BeginCuts, Sized
<1>3. H \in Seq(LanHosts) /\ IsInjective(H)
  BY <1>2, HostsTyped
<1> HIDE DEF H
<1>4. OnceEach(Append(<<>>, H), Range(H))
  BY <1>3, OneGroup
<1>5. OnceEach(Append(groups', uncut'), Range(HostsIn(routersN, hostsN, router)))
  BY <1>1, <1>4, HostsOfIn DEF H
<1>6. groups' \in Seq(Seq(LanHosts)) /\ uncut' \in Seq(LanHosts)
  BY <1>1, <1>3
<1> QED
  BY <1>1, <1>5, <1>6, CutKeeps

\* Nothing is left once all have been cut.
LEMMA NothingLeft ==
  ASSUME NEW gs, NEW S, NEW T, gs \in Seq(Seq(T)), OnceEach(Append(gs, <<>>), S) PROVE OnceEach(gs, S)
<1> DEFINE n == Len(gs)
           A == Append(gs, <<>>)
<1>1. n \in Nat /\ DOMAIN A = 1 .. n + 1 /\ DOMAIN gs = 1 .. n /\ (\A i \in 1 .. n : A[i] = gs[i]) /\ A[n + 1] = <<>>
  OBVIOUS
<1>2. \A i \in 1 .. n : i \in 1 .. n + 1
  BY <1>1
<1>3. \A i \in 1 .. n : gs[i] \in Seq(S)
  BY <1>1, <1>2 DEF OnceEach
<1>5. gs \in Seq(Seq(S))
  BY <1>3
<1> HIDE DEF n, A
<1>6. OnceEach(A, S)
  BY DEF A
<1>7. ASSUME NEW x \in S PROVE \E i \in DOMAIN gs : \E j \in DOMAIN gs[i] : gs[i][j] = x
  <2>1. PICK i \in DOMAIN A : \E j \in DOMAIN A[i] : A[i][j] = x
    BY <1>6 DEF OnceEach
  <2>2. i # n + 1
    BY <1>1, <2>1
  <2>3. i \in 1 .. n
    BY <1>1, <2>2
  <2> QED
    BY <1>1, <2>1, <2>3
<1>8. ASSUME NEW i \in DOMAIN gs, NEW p \in DOMAIN gs, NEW j \in DOMAIN gs[i], NEW q \in DOMAIN gs[p],
             gs[i][j] = gs[p][q]
      PROVE  i = p /\ j = q
  <2>1. i \in DOMAIN A /\ p \in DOMAIN A /\ A[i] = gs[i] /\ A[p] = gs[p]
    BY <1>1, <1>2
  <2> QED
    BY <1>6, <1>8, <2>1 DEF OnceEach
<1> QED
  BY <1>5, <1>7, <1>8 DEF OnceEach

LEMMA NoMore ==
  ASSUME NEW gs, NEW S, OnceEach(gs, S) PROVE OnceEach(Append(gs, <<>>), S)
<1> DEFINE g == <<>>
           T == {}
<1>1. IsInjective(g) /\ g \in Seq(T) /\ (\A x \in T : \E j \in DOMAIN g : g[j] = x) /\ S \cap T = {}
  BY DEF IsInjective
<1> HIDE DEF g, T
<1>4. OnceEach(Append(gs, g), S \cup T)
  BY <1>1, OnceMore
<1>2. OnceEach(Append(gs, <<>>), S \cup {})
  BY <1>4 DEF g, T
<1>3. S \cup {} = S
  OBVIOUS
<1> QED
  BY <1>2, <1>3

LEMMA CutsDoneHosts ==
  ASSUME GivenOK, PhaseOK, HostsKept, CutsDone PROVE GivenOK' /\ PhaseOK' /\ HostsKept'
<1>1. /\ UNCHANGED Given /\ lan = "cut" /\ lan' = "lans" /\ router' = router
      /\ switches' = switches /\ uncut' = uncut /\ groups' = groups /\ uncut = <<>> /\ routersN # 0
  BY DEF CutsDone, Drawing, PhaseOK
<1>2. OnceEach(Append(groups, <<>>), Range(HostsOf(router))) /\ groups \in Seq(Seq(LanHosts))
  BY <1>1, HostsOfIn DEF HostsKept
<1>3. OnceEach(groups', Range(HostsOf(router)))
  BY <1>1, <1>2, NothingLeft
<1> QED
  BY <1>1, <1>3, GroupedHosts

LEMMA CutHosts ==
  ASSUME GivenOK, PhaseOK, HostsKept, Cut PROVE GivenOK' /\ PhaseOK' /\ HostsKept'
<1> DEFINE S == Range(HostsIn(routersN, hostsN, router))
           n == Len(uncut)
           lo == CutLeast(bounds[router])
           hi == CutMost(bounds[router])
<1>1. /\ UNCHANGED Given /\ lan = "cut" /\ lan' = "cut" /\ router' = router
      /\ switches' = switches /\ uncut # <<>> /\ routersN # 0
  BY DEF Cut, Drawing, PhaseOK
<1>2. OnceEach(Append(groups, uncut), S) /\ groups \in Seq(Seq(LanHosts)) /\ uncut \in Seq(LanHosts)
  BY <1>1 DEF HostsKept
<1>3. S \subseteq LanHosts
  <2>1. router \in 1 .. LastRouter /\ Sized
    BY <1>1, LastOfRouters DEF PhaseOK, GivenOK, Sized
  <2>2. HostsOf(router) \in Seq(LanHosts)
    BY <2>1, HostsTyped
  <2> QED
    BY <2>2, HostsOfIn DEF Range
<1> HIDE DEF S
<1>4. groups \in Seq(Seq(S)) /\ uncut \in Seq(S)
  <2> DEFINE A == Append(groups, uncut)
             m == Len(groups)
  <2>1. m \in Nat /\ DOMAIN A = 1 .. m + 1 /\ (\A i \in 1 .. m : A[i] = groups[i]) /\ A[m + 1] = uncut
    BY <1>2
  <2>2. groups = [i \in 1 .. m |-> groups[i]] /\ DOMAIN groups = 1 .. m
    BY <1>2
  <2>3. OnceEach(A, S)
    BY <1>2
  <2> HIDE DEF A, m
  <2>4. \A i \in 1 .. m + 1 : A[i] \in Seq(S)
    BY <2>1, <2>3 DEF OnceEach
  <2>5. (\A i \in 1 .. m : i \in 1 .. m + 1) /\ m + 1 \in 1 .. m + 1
    BY <2>1
  <2>6. (\A i \in 1 .. m : groups[i] \in Seq(S)) /\ uncut \in Seq(S)
    BY <2>1, <2>4, <2>5
  <2> QED
    BY <2>1, <2>2, <2>6
<1>5. CutLeast(bounds[router]) \in Nat /\ CutMost(bounds[router]) \in Nat
  <2>1. router \in LanRouters
    BY <1>1, LastOfRouters DEF PhaseOK, GivenOK, Sized, LanRouters
  <2>2. bounds[router] \in Nat \X Nat
    BY <2>1 DEF GivenOK, GivenBounds
  <2>3. bounds[router][1] \in Nat /\ bounds[router][2] \in Nat
    BY <2>2
  <2>4. CutMost(bounds[router]) \in Nat
    BY <2>3 DEF CutMost
  <2> QED
    BY <2>3, <2>4, LeastOfTwo DEF CutLeast
<1>6. \/ groups' = Append(groups, uncut) /\ uncut' = <<>>
      \/ groups' = (IF groups = <<>> THEN <<uncut>> ELSE [groups EXCEPT ![Len(groups)] = @ \o uncut]) /\ uncut' = <<>>
      \/ n > hi /\ \E size \in lo .. hi :
           groups' = Append(groups, SubSeq(uncut, 1, size)) /\ uncut' = SubSeq(uncut, size + 1, n)
  BY DEF Cut
<1>7. OnceEach(Append(groups', uncut'), S) /\ groups' \in Seq(Seq(S)) /\ uncut' \in Seq(S)
  <2> HIDE DEF n, lo, hi
  <2>0. n \in Nat /\ n = Len(uncut) /\ lo \in Nat /\ hi \in Nat
    BY <1>2, <1>5 DEF n, lo, hi
  <2>9. \A gs \in Seq(Seq(S)) : OnceEach(gs, S) => OnceEach(Append(gs, <<>>), S)
    BY NoMore
  <2>8. <<>> \in Seq(S)
    OBVIOUS
  <2>1. CASE groups' = Append(groups, uncut) /\ uncut' = <<>>
    <3> DEFINE gs == Append(groups, uncut)
    <3>1. gs \in Seq(Seq(S)) /\ OnceEach(gs, S) /\ groups' = gs
      BY <1>2, <1>4, <2>1
    <3> HIDE DEF gs
    <3> QED
      BY <2>1, <2>9, <2>8, <3>1
  <2>2. CASE /\ groups' = (IF groups = <<>> THEN <<uncut>> ELSE [groups EXCEPT ![Len(groups)] = @ \o uncut])
             /\ uncut' = <<>>
    <3>1. CASE groups = <<>>
      <4> DEFINE gs == Append(groups, uncut)
      <4>1. gs \in Seq(Seq(S)) /\ OnceEach(gs, S) /\ groups' = gs
        BY <1>2, <1>4, <2>2, <3>1
      <4> HIDE DEF gs
      <4> QED
        BY <2>2, <2>8, <2>9, <4>1
    <3>2. CASE groups # <<>>
      <4> DEFINE gs == [groups EXCEPT ![Len(groups)] = @ \o uncut]
      <4>1. OnceEach(gs, S)
        BY <1>2, <1>4, <3>2, RestJoins
      <4>2. groups' = gs
        BY <2>2, <3>2
      <4> HIDE DEF gs
      <4>3. gs \in Seq(Seq(S))
        BY <4>1 DEF OnceEach
      <4> QED
        BY <2>2, <2>8, <2>9, <4>1, <4>2, <4>3
    <3> QED
      BY <3>1, <3>2
  <2>3. CASE n > hi /\ \E size \in lo .. hi :
               groups' = Append(groups, SubSeq(uncut, 1, size)) /\ uncut' = SubSeq(uncut, size + 1, n)
    <3>1. PICK size \in lo .. hi :
            groups' = Append(groups, SubSeq(uncut, 1, size)) /\ uncut' = SubSeq(uncut, size + 1, Len(uncut))
      BY <2>0, <2>3
    <3>2. size \in 0 .. Len(uncut)
      BY <2>0, <2>3
    <3>3. OnceEach(Append(groups', uncut'), S)
      BY <1>2, <1>4, <3>1, <3>2, RestSplits DEF Partly
    <3>4. \A i \in 1 .. n : uncut[i] \in S
      BY <1>4, <2>0
    <3>5. SubSeq(uncut, 1, size) \in Seq(S) /\ SubSeq(uncut, size + 1, Len(uncut)) \in Seq(S)
      <4>1. (\A i \in 1 .. size : uncut[i] \in S) /\ (\A i \in size + 1 .. n : uncut[i] \in S)
        BY <2>0, <3>2, <3>4
      <4>2. size \in Int /\ size + 1 \in Int
        BY <3>2
      <4> QED
        BY <2>0, <4>1, <4>2, SubSeqProperties
    <3> QED
      BY <1>4, <3>1, <3>3, <3>5
  <2> QED
    BY <1>6, <2>1, <2>2, <2>3
<1>8. groups' \in Seq(Seq(LanHosts)) /\ uncut' \in Seq(LanHosts)
  <2>1. Seq(S) \subseteq Seq(LanHosts)
    BY <1>3, SeqSubset
  <2>2. Seq(Seq(S)) \subseteq Seq(Seq(LanHosts))
    BY <2>1, SeqSubset
  <2> QED
    BY <1>7, <2>1, <2>2
<1> QED
  BY <1>1, <1>7, <1>8, CutKeeps DEF S

LEMMA StarOrRouter ==
  ASSUME GivenOK, PhaseOK, lan = "lans"
  PROVE  /\ (IF routersN = 0 THEN Star ELSE router) \in LanRouters \cup {Star}
         /\ routersN # 0 => router \in LanRouters
         /\ Sized /\ router \in 1 .. LastRouter
BY LastOfRouters DEF PhaseOK, GivenOK, Sized, LanRouters

\* The first group is behind a switch of its own.
LEMMA SwitchHosts ==
  ASSUME GivenOK, PhaseOK, HostsKept, UNCHANGED Given, lan = "lans", lan' = "lans", router' = router,
         uncut' = uncut, groups # <<>>, groups' = Tail(groups), NEW s \in Slots,
         switches' = Append(switches,
            [router |-> IF routersN = 0 THEN Star ELSE router, hosts |-> Head(groups), subnet |-> s])
  PROVE  GivenOK' /\ PhaseOK' /\ HostsKept'
<1> DEFINE q == IF routersN = 0 THEN Star ELSE router
           w == [router |-> q, hosts |-> Head(groups), subnet |-> s]
           m == Len(switches)
<1>1. /\ groups \in Seq(Seq(LanHosts)) /\ Head(groups) \in Seq(LanHosts) /\ Tail(groups) \in Seq(Seq(LanHosts))
      /\ Head(groups) = groups[1] /\ 1 \in DOMAIN groups /\ Len(groups) \in Nat /\ Len(Tail(groups)) = Len(groups) - 1
      /\ \A i \in DOMAIN Tail(groups) : i + 1 \in DOMAIN groups /\ Tail(groups)[i] = groups[i + 1]
  <2>1. groups \in Seq(Seq(LanHosts))
    BY DEF HostsKept
  <2> QED
    BY <2>1
<1>2. q \in LanRouters \cup {Star} /\ (routersN # 0 => router \in LanRouters)
  BY StarOrRouter
<1>3. w \in LanSwitches /\ w.hosts = Head(groups) /\ w.router = q
  BY <1>1, <1>2 DEF LanSwitches
<1>4. switches \in Seq(LanSwitches) /\ switches' = Append(switches, w)
  BY DEF HostsKept
<1>5. OnceEach(Behind(switches') \o groups', Before(routersN, hostsN, router + 1))
  <2>1. OnceEach(Behind(switches) \o groups, Before(routersN, hostsN, router + 1))
    BY DEF HostsKept
  <2> HIDE DEF w
  <2>3. Behind(Append(switches, w)) \o Tail(groups) = Behind(switches) \o groups
    BY <1>1, <1>3, <1>4, BehindMore
  <2> QED
    BY <1>4, <2>1, <2>3
<1>6. \A i \in DOMAIN groups : Range(groups[i]) \subseteq Range(HostsIn(routersN, hostsN, router))
  BY DEF HostsKept
<1>7. \A i \in DOMAIN groups' : Range(groups'[i]) \subseteq Range(HostsIn(routersN, hostsN, router))
  BY <1>1, <1>6
<1>8. routersN = 0 => Len(switches') + Len(groups') <= 1
  <2>1. routersN = 0 => Len(switches) + Len(groups) <= 1
    BY DEF HostsKept
  <2>2. m \in Nat /\ Len(switches') = m + 1
    BY <1>4
  <2> QED
    BY <1>1, <2>1, <2>2
<1>9. switches' \in Seq(LanSwitches)
  <2> HIDE DEF w
  <2> QED
    BY <1>3, <1>4
<1>10. ASSUME NEW v \in DOMAIN switches'
       PROVE  IF routersN = 0 THEN switches'[v].router = Star
              ELSE /\ switches'[v].router \in LanRouters
                   /\ Range(switches'[v].hosts) \subseteq Range(HostsIn(routersN, hostsN, switches'[v].router))
  <2>1. m \in Nat /\ DOMAIN switches' = 1 .. m + 1 /\ switches'[m + 1] = w
        /\ \A i \in 1 .. m : switches'[i] = switches[i] /\ i \in DOMAIN switches
    <3> HIDE DEF w
    <3> QED
      BY <1>3, <1>4
  <2>2. CASE v = m + 1
    <3>1. Range(w.hosts) \subseteq Range(HostsIn(routersN, hostsN, router))
      BY <1>1, <1>3, <1>6
    <3> HIDE DEF w
    <3> QED
      BY <1>2, <1>3, <2>1, <2>2, <3>1
  <2>3. CASE v # m + 1
    <3>1. v \in 1 .. m
      BY <2>1, <2>3
    <3>2. switches'[v] = switches[v] /\ v \in DOMAIN switches
      BY <2>1, <3>1
    <3> QED
      BY <3>2 DEF HostsKept
  <2> QED
    BY <2>2, <2>3
<1>11. GivenOK' /\ PhaseOK'
  BY GivenStays DEF PhaseOK
<1> HIDE DEF w, q, m
<1> QED
  BY <1>1, <1>5, <1>7, <1>8, <1>9, <1>10, <1>11, GivenStays DEF HostsKept

LEMMA DrawLanHosts ==
  ASSUME GivenOK, PhaseOK, HostsKept, DrawLan PROVE GivenOK' /\ PhaseOK' /\ HostsKept'
<1>1. PICK s \in Slots \ Reserved : switches' = Append(switches,
            [router |-> IF routersN = 0 THEN Star ELSE router, hosts |-> Head(groups), subnet |-> s])
  BY DEF DrawLan
<1>2. /\ UNCHANGED Given /\ lan = "lans" /\ lan' = "lans" /\ router' = router
      /\ uncut' = uncut /\ groups # <<>> /\ groups' = Tail(groups)
  BY DEF DrawLan
<1> QED
  BY <1>1, <1>2, SwitchHosts

\* The subnet of a star.
StarSubnet == Min(IF Slots = Reserved THEN Slots ELSE Slots \ Reserved)

LEMMA StarSubnetIs == StarSubnet \in Slots
<1> DEFINE T == IF Slots = Reserved THEN Slots ELSE Slots \ Reserved
<1>1. T # {} /\ T \subseteq Slots /\ T \subseteq Nat
  BY HostLanBounds
<1> HIDE DEF T
<1>2. Min(T) \in T
  BY <1>1, LeastIsOne
<1> QED
  BY <1>1, <1>2 DEF StarSubnet, T

LEMMA NoLanHosts ==
  ASSUME GivenOK, PhaseOK, HostsKept, NoLan PROVE GivenOK' /\ PhaseOK' /\ HostsKept'
<1>1. /\ UNCHANGED Given /\ lan = "lans" /\ router' = router
      /\ uncut' = uncut /\ groups # <<>> /\ routersN \in Nat
  BY DEF NoLan, GivenOK, Sized
<1>2. CASE routersN > 0
  <2>1. lan' = "failed" /\ switches' = switches /\ groups' = groups
    BY <1>2 DEF NoLan
  <2> QED
    BY <1>1, <2>1, GivenStays, HostsSame DEF PhaseOK
<1>3. CASE routersN = 0
  <2>1. lan' = lan /\ groups' = <<>> /\ switches' =
          <<[router |-> Star, hosts |-> Head(groups), subnet |-> StarSubnet]>>
    BY <1>3 DEF NoLan, StarSubnet
  <2>2. groups \in Seq(Seq(LanHosts)) /\ switches \in Seq(LanSwitches) /\ Len(switches) + Len(groups) <= 1
    BY <1>3 DEF HostsKept
  <2>3. switches = <<>> /\ Tail(groups) = <<>>
    BY <1>1, <2>2
  <2> DEFINE w == [router |-> Star, hosts |-> Head(groups), subnet |-> StarSubnet]
  <2>4. Append(switches, w) = <<w>>
    BY <2>3
  <2>5. switches' = Append(switches,
            [router |-> IF routersN = 0 THEN Star ELSE router, hosts |-> Head(groups), subnet |-> StarSubnet])
    BY <1>3, <2>1, <2>4
  <2> QED
    BY <1>1, <2>1, <2>3, <2>5, StarSubnetIs, SwitchHosts
<1> QED
  BY <1>1, <1>2, <1>3

LEMMA NextRouterHosts ==
  ASSUME GivenOK, PhaseOK, HostsKept, NextRouter PROVE GivenOK' /\ PhaseOK' /\ HostsKept'
<1>1. /\ UNCHANGED Given /\ lan = "lans" /\ router' = router + 1 /\ switches' = switches
      /\ uncut' = uncut /\ groups = <<>> /\ groups' = groups
      /\ lan' = IF router < LastRouter THEN "group" ELSE "number"
  BY DEF NextRouter, Drawing
<1>2. Sized /\ router \in 1 .. LastRouter /\ LastRouter \in Nat
  BY <1>1, StarOrRouter, LastOfRouters DEF Sized
<1>3. GivenOK' /\ PhaseOK'
  <2>1. GivenOK' /\ LastRouter' = LastRouter /\ routersN' = routersN
    BY <1>1, GivenStays
  <2>2. router + 1 \in 1 .. LastRouter + 1 /\ (router < LastRouter => router + 1 <= LastRouter)
        /\ (~(router < LastRouter) => router + 1 = LastRouter + 1)
    BY <1>2
  <2>3. lan' = "group" => routersN # 0
    BY <1>1, <1>2, LastOfRouters
  <2> QED
    BY <1>1, <2>1, <2>2, <2>3 DEF PhaseOK
<1>4. OnceEach(Behind(switches), Before(routersN, hostsN, router + 1))
  <2>1. OnceEach(Behind(switches) \o <<>>, Before(routersN, hostsN, router + 1))
    BY <1>1 DEF HostsKept
  <2>2. Behind(switches) \in Seq(Seq(LanHosts))
    <3>1. switches \in Seq(LanSwitches)
      BY DEF HostsKept
    <3>2. \A v \in LanSwitches : v.hosts \in Seq(LanHosts)
      BY DEF LanSwitches
    <3>3. \A i \in 1 .. Len(switches) : switches[i].hosts \in Seq(LanHosts)
      BY <3>1, <3>2
    <3>4. Behind(switches) = [i \in 1 .. Len(switches) |-> switches[i].hosts] /\ Len(switches) \in Nat
      BY <3>1 DEF Behind
    <3> QED
      BY <3>3, <3>4
  <2>3. Behind(switches) \o <<>> = Behind(switches)
    BY <2>2, ConcatEmptySeq
  <2> QED
    BY <2>1, <2>3
<1>5. lan' \in {"group", "number"}
  BY <1>1
<1> QED
  BY <1>1, <1>3, <1>4, <1>5, GivenStays DEF HostsKept

LEMMA NumberHosts ==
  ASSUME GivenOK, PhaseOK, HostsKept,
         NumberHost \/ NumberRouter \/ NumbersDone \/ UNCHANGED lanVars
  PROVE  GivenOK' /\ PhaseOK' /\ HostsKept'
<1>1. /\ UNCHANGED Given /\ UNCHANGED <<router, uncut, groups, switches>>
      /\ lan' = lan \/ (lan = "number" /\ lan' = "end")
  BY DEF NumberHost, NumberRouter, NumbersDone, lanVars, Drawing, Given
<1> QED
  BY <1>1, GivenStays, HostsSame DEF PhaseOK

\* No step loses a host or doubles one.
LEMMA HostsStay ==
  ASSUME GivenOK, PhaseOK, HostsKept, [LanNext]_lanVars PROVE GivenOK' /\ PhaseOK' /\ HostsKept'
BY DrawInVainHosts, DrawLinkHosts, FallbackLinkHosts, LinksDoneHosts, GroupAllHosts, GroupExactlyHosts,
   BeginCutsHosts, CutHosts, CutsDoneHosts, DrawLanHosts, NoLanHosts, NextRouterHosts, NumberHosts
   DEF LanNext

\* As long as no link had to take a fallback, what is in use is what was handed out.
SubnetsKept ==
  /\ taken \subseteq Slots /\ tries \in 0 .. Tries /\ fell \in Nat /\ spans \in Seq(Slots)
  /\ fell = 0 => Range(spans) \subseteq taken /\ IsInjective(spans)
  /\ routersN = 0 => spans = <<>>
  /\ routersN # 0 => \A w \in DOMAIN switches :
       /\ switches[w].subnet \in taken
       /\ fell = 0 => switches[w].subnet \notin Range(spans)
       /\ \A v \in DOMAIN switches : v # w => switches[v].subnet # switches[w].subnet

LEMMA InitSubnets == LanInit => SubnetsKept
BY HostLanBounds DEF LanInit, SubnetsKept, Range, IsInjective

LEMMA SubnetsSame ==
  ASSUME SubnetsKept, UNCHANGED Given, UNCHANGED Drawing PROVE SubnetsKept'
BY DEF SubnetsKept, Given, Drawing

LEMMA DrawInVainSubnets ==
  ASSUME SubnetsKept, DrawInVain PROVE SubnetsKept'
<1>1. /\ routersN' = routersN /\ fell' = fell /\ spans' = spans /\ switches' = switches
      /\ taken \subseteq taken' /\ taken' \subseteq Slots /\ tries' = tries + 1 /\ tries < Tries
  BY DEF DrawInVain, Draw, Given, SubnetsKept
<1>2. tries' \in 0 .. Tries
  BY <1>1, HostLanBounds DEF SubnetsKept
<1> QED
  BY <1>1, <1>2 DEF SubnetsKept

LEMMA RangeMore ==
  ASSUME NEW S, NEW s \in Seq(S), NEW x \in S
  PROVE  /\ Append(s, x) \in Seq(S) /\ Range(Append(s, x)) = Range(s) \cup {x}
         /\ IsInjective(s) /\ x \notin Range(s) => IsInjective(Append(s, x))
<1> DEFINE n == Len(s)
           t == Append(s, x)
<1>1. /\ n \in Nat /\ t \in Seq(S) /\ DOMAIN s = 1 .. n /\ DOMAIN t = 1 .. n + 1
      /\ t[n + 1] = x /\ \A i \in 1 .. n : t[i] = s[i]
  OBVIOUS
<1> HIDE DEF n, t
<1>2. \A i \in 1 .. n + 1 : i = n + 1 \/ i \in 1 .. n
  BY <1>1
<1>3. (\A i \in 1 .. n : i \in 1 .. n + 1) /\ n + 1 \in 1 .. n + 1
  BY <1>1
<1>4. Range(t) = Range(s) \cup {x}
  BY <1>1, <1>2, <1>3 DEF Range
<1>5. IsInjective(s) /\ x \notin Range(s) => IsInjective(t)
  BY <1>1, <1>2 DEF IsInjective, Range
<1> QED
  BY <1>1, <1>4, <1>5 DEF t

LEMMA DrawLinkSubnets ==
  ASSUME GivenOK, PhaseOK, SubnetsKept, DrawLink PROVE SubnetsKept'
<1>1. PICK s \in Slots \ Reserved :
        /\ s \in Slots \ taken /\ taken' = taken \cup {s} /\ spans' = Append(spans, s)
  BY DEF DrawLink, Draw
<1>2. /\ routersN' = routersN /\ fell' = fell /\ switches' = switches /\ tries' = 0 /\ Len(spans) + 1 < routersN
      /\ lan = "links"
  BY DEF DrawLink, Given
<1>3. switches = <<>> /\ spans \in Seq(Slots)
  BY <1>2 DEF PhaseOK, SubnetsKept
<1>4. routersN # 0
  BY <1>2, <1>3
<1>5. /\ spans' \in Seq(Slots) /\ Range(spans') = Range(spans) \cup {s}
      /\ IsInjective(spans) /\ s \notin Range(spans) => IsInjective(spans')
  BY <1>1, <1>3, RangeMore
<1>6. fell' = 0 => Range(spans') \subseteq taken' /\ IsInjective(spans')
  BY <1>1, <1>2, <1>5 DEF SubnetsKept
<1>7. tries' \in 0 .. Tries
  BY <1>2, HostLanBounds
<1> QED
  BY <1>1, <1>2, <1>3, <1>4, <1>5, <1>6, <1>7 DEF SubnetsKept

LEMMA FallbackLinkSubnets ==
  ASSUME GivenOK, PhaseOK, SubnetsKept, FallbackLink PROVE SubnetsKept'
<1> DEFINE next == {s \in Slots \ Reserved : s >= fell}
<1>2. /\ routersN' = routersN /\ taken' = taken /\ switches' = switches /\ tries' = 0 /\ Len(spans) + 1 < routersN
      /\ lan = "links"
      /\ \/ UNCHANGED <<fell, spans>>
         \/ next # {} /\ spans' = Append(spans, Min(next)) /\ fell' = Min(next) + 1
  BY DEF FallbackLink, Given
<1>3. switches = <<>> /\ spans \in Seq(Slots)
  BY <1>2 DEF PhaseOK, SubnetsKept
<1>4. routersN # 0
  BY <1>2, <1>3
<1>5. tries' \in 0 .. Tries
  BY <1>2, HostLanBounds
<1>6. CASE UNCHANGED <<fell, spans>>
  BY <1>2, <1>5, <1>6 DEF SubnetsKept
<1>7. CASE next # {} /\ spans' = Append(spans, Min(next)) /\ fell' = Min(next) + 1
  <2>1. next \subseteq Nat /\ next \subseteq Slots
    BY HostLanBounds
  <2> DEFINE x == Min(next)
  <2>2. x \in next
    <3> HIDE DEF next
    <3> QED
      BY <1>7, <2>1, LeastIsOne
  <2>3. x \in Slots /\ x \in Nat
    BY <2>1, <2>2
  <2> HIDE DEF x
  <2>4. fell' \in Nat /\ fell' # 0 /\ spans' \in Seq(Slots)
    BY <1>3, <1>7, <2>3 DEF x
  <2> QED
    BY <1>2, <1>3, <1>4, <1>5, <2>4 DEF SubnetsKept
<1> QED
  BY <1>2, <1>6, <1>7

LEMMA DrawLanSubnets ==
  ASSUME GivenOK, HostsKept, SubnetsKept, DrawLan PROVE SubnetsKept'
<1>1. PICK s \in Slots \ Reserved :
        /\ s \in Slots \ taken /\ taken' = taken \cup {s}
        /\ switches' = Append(switches,
            [router |-> IF routersN = 0 THEN Star ELSE router, hosts |-> Head(groups), subnet |-> s])
  BY DEF DrawLan, Draw
<1>2. /\ routersN' = routersN /\ fell' = fell /\ spans' = spans /\ tries' = 0
  BY DEF DrawLan, Given
<1>3. switches \in Seq(LanSwitches)
  BY DEF HostsKept
<1>4. tries' \in 0 .. Tries
  BY <1>2, HostLanBounds
<1> DEFINE n == Len(switches)
<1>5. /\ n \in Nat /\ DOMAIN switches = 1 .. n /\ DOMAIN switches' = 1 .. n + 1
      /\ switches'[n + 1].subnet = s /\ \A i \in 1 .. n : switches'[i] = switches[i]
  BY <1>1, <1>3
<1> HIDE DEF n
<1>6. \A i \in 1 .. n + 1 : i = n + 1 \/ i \in 1 .. n
  BY <1>5
<1>7. ASSUME routersN # 0, NEW w \in DOMAIN switches'
      PROVE  /\ switches'[w].subnet \in taken'
             /\ fell = 0 => switches'[w].subnet \notin Range(spans)
             /\ \A v \in DOMAIN switches' : v # w => switches'[v].subnet # switches'[w].subnet
  BY <1>1, <1>5, <1>6, <1>7 DEF SubnetsKept
<1> QED
  BY <1>1, <1>2, <1>4, <1>7 DEF SubnetsKept

LEMMA NoLanSubnets ==
  ASSUME GivenOK, SubnetsKept, NoLan PROVE SubnetsKept'
<1>1. /\ routersN' = routersN /\ fell' = fell /\ spans' = spans /\ tries' = 0 /\ taken' = taken
      /\ routersN \in Nat /\ (routersN > 0 => switches' = switches)
  BY DEF NoLan, Given, GivenOK, Sized
<1>2. tries' \in 0 .. Tries
  BY <1>1, HostLanBounds
<1> QED
  BY <1>1, <1>2 DEF SubnetsKept

LEMMA SubnetsStay ==
  ASSUME GivenOK, PhaseOK, HostsKept, SubnetsKept, [LanNext]_lanVars PROVE SubnetsKept'
<1>1. CASE \/ LinksDone \/ GroupAll \/ GroupExactly \/ BeginCuts \/ Cut \/ CutsDone \/ NextRouter
           \/ NumberHost \/ NumberRouter \/ NumbersDone
  <2>1. UNCHANGED Given /\ UNCHANGED Drawing
    BY <1>1 DEF LinksDone, GroupAll, GroupExactly, BeginCuts, Cut, CutsDone, NextRouter,
                NumberHost, NumberRouter, NumbersDone
  <2> QED
    BY <2>1, SubnetsSame
<1>2. CASE UNCHANGED lanVars
  <2>1. UNCHANGED Given /\ UNCHANGED Drawing
    BY <1>2 DEF lanVars, Given, Drawing
  <2> QED
    BY <2>1, SubnetsSame
<1> QED
  BY <1>1, <1>2, DrawInVainSubnets, DrawLinkSubnets, FallbackLinkSubnets, DrawLanSubnets, NoLanSubnets DEF LanNext

-----------------------------------------------------------------------------
(* Addresses. *)

\* Routers that have the address they started with.
Unnumbered(x) ==
  \E r \in LanRouters :
    x = Router(r) /\ \A w \in DOMAIN switches : w < turn[1] => switches[w].router # r

\* Nodes with an address of a switch before this one, or that this one gave until now.
FromSwitch(x) ==
  \E w \in DOMAIN switches, k \in Nat :
    /\ ip[x] = Address(switches[w].subnet, k)
    /\ w < turn[1] \/ (w = turn[1] /\ \E i \in 1 .. turn[2] - 1 : k = NumberOf(i))

RoomForRouter == \A w \in DOMAIN switches : Len(switches[w].hosts) < LanSize

FirstAddresses == [x \in {Router(r) : r \in LanRouters} |-> Address(Base, x.id)]

NumbersKept ==
  /\ turn \in (Nat \ {0}) \X (Nat \ {0})
  /\ lan \notin {"number", "end"} => turn = <<1, 1>> /\ ip = FirstAddresses
  /\ lan = "end" => turn[1] > Len(switches)
  /\ \A x \in DOMAIN ip : ip[x].subnet \in Slots
  /\ RoomForRouter =>
       /\ \A x \in DOMAIN ip : IF Unnumbered(x) THEN ip[x] = Address(Base, x.id) ELSE FromSwitch(x)
       /\ \A x, y \in DOMAIN ip : ip[x] = ip[y] => x = y \/ Unnumbered(x) \/ Unnumbered(y)

LEMMA FirstNumbers ==
  /\ \A x \in DOMAIN FirstAddresses :
       /\ FirstAddresses[x].subnet \in Slots /\ FirstAddresses[x] = Address(Base, x.id)
       /\ \E r \in LanRouters : x = Router(r)
BY HostLanBounds DEF FirstAddresses, Address

LEMMA InitNumbers == LanInit => NumbersKept
<1> SUFFICES ASSUME LanInit PROVE NumbersKept
  OBVIOUS
<1>1. turn = <<1, 1>> /\ ip = FirstAddresses /\ switches = <<>> /\ lan = "links"
  BY DEF LanInit, FirstAddresses
<1>2. \A x \in DOMAIN ip : Unnumbered(x)
  BY <1>1, FirstNumbers DEF Unnumbered
<1> QED
  BY <1>1, <1>2, FirstNumbers DEF NumbersKept

\* Until the numbers begin.
LEMMA NumbersLater ==
  ASSUME NumbersKept, lan \notin {"number", "end"}, UNCHANGED Given, UNCHANGED Addresses,
         lan' # "end", switches' \in Seq(LanSwitches)
  PROVE  NumbersKept'
<1>1. turn' = <<1, 1>> /\ ip' = FirstAddresses
  BY DEF NumbersKept, Addresses
<1>2. FirstAddresses' = FirstAddresses /\ LanRouters' = LanRouters
  BY DEF FirstAddresses, LanRouters, Given
<1>3. \A w \in DOMAIN switches' : ~(w < 1)
  OBVIOUS
<1>4. \A x \in DOMAIN ip' : Unnumbered(x)'
  BY <1>1, <1>2, <1>3, FirstNumbers DEF Unnumbered
<1> QED
  BY <1>1, <1>2, <1>4, FirstNumbers DEF NumbersKept

LEMMA NumbersSame ==
  ASSUME NumbersKept, UNCHANGED Given, UNCHANGED Addresses, UNCHANGED switches, lan' = lan
  PROVE  NumbersKept'
<1>1. RoomForRouter' = RoomForRouter /\ FirstAddresses' = FirstAddresses
  BY DEF RoomForRouter, FirstAddresses, LanRouters, Given
<1>2. \A x : Unnumbered(x)' = Unnumbered(x) /\ FromSwitch(x)' = FromSwitch(x)
  BY DEF Unnumbered, FromSwitch, NumberOf, Numbered, LanRouters, Given, Addresses
<1> QED
  BY <1>1, <1>2 DEF NumbersKept, Addresses

-----------------------------------------------------------------------------

\* What a switch gives its hosts, if it leaves room for the router.
LEMMA NumbersOfHosts ==
  ASSUME LanSize \in Nat, Len(Numbered.hosts) \in Nat, Len(Numbered.hosts) < LanSize,
         NEW i \in Nat \ {0}
  PROVE  /\ NumberOf(i) \in Nat /\ NumberOf(i) > 1
         /\ i <= Len(Numbered.hosts) =>
              NumberOf(i) <= LanSize /\ \A j \in 1 .. i - 1 : NumberOf(j) # NumberOf(i)
<1> DEFINE n == Len(Numbered.hosts)
           kept == IF n + 2 <= LanSize THEN 2 ELSE IF n + 1 <= LanSize THEN 1 ELSE 0
           plain == routersN > 0 /\ policy.mode = "exact" /\ policy.target = 1
<1>1. \A j : NumberOf(j) = IF plain /\ j < LanSize THEN 1 + j ELSE kept + j
  BY DEF NumberOf
<1> HIDE DEF n, plain
<1>2. n \in Nat /\ n < LanSize
  BY DEF n
<1>3. kept \in {1, 2} /\ (i <= n => kept + i <= LanSize)
  BY <1>2
<1> HIDE DEF kept
<1>4. NumberOf(i) \in Nat /\ NumberOf(i) > 1
  BY <1>1, <1>3
<1>5. ASSUME i <= n PROVE NumberOf(i) <= LanSize /\ \A j \in 1 .. i - 1 : NumberOf(j) # NumberOf(i)
  <2>1. CASE plain
    <3>1. \A j \in 1 .. i : NumberOf(j) = 1 + j
      BY <1>1, <1>2, <1>5, <2>1
    <3> QED
      BY <1>2, <1>5, <3>1
  <2>2. CASE ~plain
    <3>1. \A j \in 1 .. i : NumberOf(j) = kept + j
      BY <1>1, <2>2
    <3> QED
      BY <1>2, <1>3, <1>5, <3>1
  <2> QED
    BY <2>1, <2>2
<1> QED
  BY <1>4, <1>5 DEF n

LEMMA SubnetsApart ==
  ASSUME HostsKept, SubnetsKept, NEW v \in DOMAIN switches, NEW w \in DOMAIN switches,
         switches[v].subnet = switches[w].subnet
  PROVE  v = w
<1>1. CASE routersN = 0
  <2>1. switches \in Seq(LanSwitches) /\ groups \in Seq(Seq(LanHosts)) /\ Len(switches) + Len(groups) <= 1
    BY <1>1 DEF HostsKept
  <2> QED
    BY <2>1
<1>2. CASE routersN # 0
  BY <1>2 DEF SubnetsKept
<1> QED
  BY <1>1, <1>2

LEMMA NumberHostNumbers ==
  ASSUME GivenOK, HostsKept, SubnetsKept, NumbersKept, NumberHost PROVE NumbersKept'
<1>a. PICK t, i, k, x, s, a :
        /\ t = turn[1] /\ i = turn[2] /\ k = NumberOf(turn[2])
        /\ x = Host(Numbered.hosts[turn[2]]) /\ s = Numbered.subnet
        /\ a = IF k <= LanSize THEN Address(s, k) ELSE Address(Base, NextPooled)
  OBVIOUS
<1>1. /\ UNCHANGED Given /\ switches' = switches /\ lan = "number" /\ lan' = "number"
      /\ t <= Len(switches) /\ i <= Len(Numbered.hosts)
      /\ turn' = [turn EXCEPT ![2] = i + 1]
      /\ ip' = [y \in DOMAIN ip \cup {x} |-> IF y = x THEN a ELSE ip[y]]
  BY <1>a DEF NumberHost, Renumber, Drawing
<1>2. t \in Nat \ {0} /\ i \in Nat \ {0} /\ turn' = <<t, i + 1>> /\ turn' \in (Nat \ {0}) \X (Nat \ {0})
  BY <1>a, <1>1 DEF NumbersKept
<1>3. /\ switches \in Seq(LanSwitches) /\ t \in DOMAIN switches /\ Numbered = switches[t]
  BY <1>1, <1>2 DEF HostsKept, Numbered
<1>4. Numbered.hosts \in Seq(LanHosts) /\ s \in Slots /\ Len(Numbered.hosts) \in Nat
  <2>1. Numbered \in LanSwitches
    BY <1>3
  <2> QED
    BY <1>a, <2>1 DEF LanSwitches
<1>5. LanSize \in Nat /\ Base \in Slots
  BY HostLanBounds
<1>6. LanRouters' = LanRouters /\ turn'[1] = t /\ turn'[2] = i + 1
  BY <1>1, <1>2 DEF LanRouters, Given
<1>7. \A y : Unnumbered(y)' <=> Unnumbered(y)
  BY <1>1, <1>6 DEF Unnumbered
<1>8. ~Unnumbered(x)
  BY <1>a DEF Unnumbered, Router, Host
<1>9. \A j : NumberOf(j)' = NumberOf(j)
  BY <1>1, <1>6 DEF NumberOf, Numbered, Given
<1>10. RoomForRouter' = RoomForRouter
  BY <1>1 DEF RoomForRouter
<1>11. a.subnet \in Slots
  BY <1>a, <1>4, <1>5 DEF Address
<1>12. \A y \in DOMAIN ip' : ip'[y].subnet \in Slots
  BY <1>1, <1>11 DEF NumbersKept
<1>13. ASSUME RoomForRouter
       PROVE  /\ \A y \in DOMAIN ip' : IF Unnumbered(y) THEN ip'[y] = Address(Base, y.id) ELSE FromSwitch(y)'
              /\ \A y, z \in DOMAIN ip' : ip'[y] = ip'[z] => y = z \/ Unnumbered(y) \/ Unnumbered(z)
  <2>0. Len(Numbered.hosts) < LanSize
    BY <1>3, <1>13 DEF RoomForRouter
  <2>1. k \in Nat /\ k > 1 /\ k <= LanSize /\ \A j \in 1 .. i - 1 : NumberOf(j) # k
    BY <1>a, <1>1, <1>2, <1>4, <1>5, <2>0, NumbersOfHosts
  <2>2. a = Address(s, k)
    BY <1>a, <2>1
  <2>3. ip'[x] = Address(s, k) /\ x \in DOMAIN ip'
    BY <1>1, <2>2
  <2>4. \A y \in DOMAIN ip' : y # x => y \in DOMAIN ip /\ ip'[y] = ip[y]
    BY <1>1
  <2>5. i \in 1 .. (i + 1) - 1 /\ \A j \in 1 .. i - 1 : j \in 1 .. (i + 1) - 1
    BY <1>2
  <2>6. FromSwitch(x)'
    <3>0. s = switches[t].subnet /\ k = NumberOf(i)
      BY <1>a, <1>3
    <3>1. ip'[x] = Address(switches'[t].subnet, k) /\ k = NumberOf(i)'
      BY <1>1, <1>9, <2>3, <3>0
    <3>2. turn'[1] = t /\ turn'[2] = i + 1 /\ t \in DOMAIN switches'
      BY <1>1, <1>3, <1>6
    <3>3. i \in 1 .. turn'[2] - 1
      BY <2>5, <3>2
    <3> QED
      BY <2>1, <3>1, <3>2, <3>3 DEF FromSwitch
  <2>7. ASSUME NEW y \in DOMAIN ip', y # x, ~Unnumbered(y) PROVE FromSwitch(y)' /\ ip'[y] # ip'[x]
    <3>1. FromSwitch(y) /\ ip'[y] = ip[y]
      BY <1>13, <2>4, <2>7 DEF NumbersKept
    <3>2. PICK w \in DOMAIN switches, l \in Nat :
            /\ ip[y] = Address(switches[w].subnet, l)
            /\ w < t \/ (w = t /\ \E j \in 1 .. i - 1 : l = NumberOf(j))
      BY <1>a, <3>1 DEF FromSwitch
    <3>3. w < t \/ (w = t /\ \E j \in 1 .. (i + 1) - 1 : l = NumberOf(j)')
      BY <1>9, <2>5, <3>2
    <3>4. FromSwitch(y)'
      <4>1. /\ w \in DOMAIN switches' /\ ip'[y] = Address(switches'[w].subnet, l)
            /\ turn'[1] = t /\ turn'[2] = i + 1
        BY <1>1, <1>6, <3>1, <3>2
      <4> QED
        BY <3>2, <3>3, <4>1 DEF FromSwitch
    <3>5. ASSUME ip[y] = Address(s, k) PROVE FALSE
      <4>1. switches[w].subnet = s /\ l = k
        BY <3>2, <3>5 DEF Address
      <4>2. w = t
        BY <1>a, <1>3, <4>1, SubnetsApart
      <4>3. \E j \in 1 .. i - 1 : l = NumberOf(j)
        BY <1>2, <3>2, <4>2
      <4> QED
        BY <2>1, <4>1, <4>3
    <3> QED
      BY <2>3, <3>1, <3>4, <3>5
  <2>8. ASSUME NEW y \in DOMAIN ip'
        PROVE  IF Unnumbered(y) THEN ip'[y] = Address(Base, y.id) ELSE FromSwitch(y)'
    <3>1. CASE Unnumbered(y)
      <4>1. y # x
        BY <1>8, <3>1
      <4> QED
        BY <1>13, <2>4, <3>1, <4>1 DEF NumbersKept
    <3>2. CASE ~Unnumbered(y)
      BY <2>6, <2>7, <3>2
    <3> QED
      BY <3>1, <3>2
  <2>9. ASSUME NEW y \in DOMAIN ip', NEW z \in DOMAIN ip', ip'[y] = ip'[z]
        PROVE  y = z \/ Unnumbered(y) \/ Unnumbered(z)
    <3>1. CASE y # x /\ z # x
      BY <1>13, <2>4, <2>9, <3>1 DEF NumbersKept
    <3>2. CASE y = x /\ z # x /\ ~Unnumbered(z)
      BY <2>7, <2>9, <3>2
    <3>3. CASE z = x /\ y # x /\ ~Unnumbered(y)
      BY <2>7, <2>9, <3>3
    <3> QED
      BY <3>1, <3>2, <3>3
  <2> QED
    BY <2>8, <2>9
<1>14. ASSUME RoomForRouter'
       PROVE  /\ \A y \in DOMAIN ip' : IF Unnumbered(y)' THEN ip'[y] = Address(Base, y.id) ELSE FromSwitch(y)'
              /\ \A y, z \in DOMAIN ip' : ip'[y] = ip'[z] => y = z \/ Unnumbered(y)' \/ Unnumbered(z)'
  BY <1>7, <1>10, <1>13, <1>14
<1> QED
  BY <1>1, <1>2, <1>12, <1>14 DEF NumbersKept

LEMMA NumberRouterNumbers ==
  ASSUME GivenOK, HostsKept, SubnetsKept, NumbersKept, NumberRouter PROVE NumbersKept'
<1>a. PICK t, i, q, x, s :
        /\ t = turn[1] /\ i = turn[2] /\ q = Numbered.router
        /\ x = Router(Numbered.router) /\ s = Numbered.subnet
  OBVIOUS
<1>1. /\ UNCHANGED Given /\ switches' = switches /\ lan = "number" /\ lan' = "number"
      /\ t <= Len(switches) /\ turn' = <<t + 1, 1>>
      /\ IF q = Star THEN ip' = ip
         ELSE ip' = [y \in DOMAIN ip \cup {x} |-> IF y = x THEN Address(s, 1) ELSE ip[y]]
  BY <1>a DEF NumberRouter, Renumber, Drawing
<1>2. t \in Nat \ {0} /\ i \in Nat \ {0} /\ turn' \in (Nat \ {0}) \X (Nat \ {0})
  BY <1>a, <1>1 DEF NumbersKept
<1>3. /\ switches \in Seq(LanSwitches) /\ t \in DOMAIN switches /\ Numbered = switches[t]
      /\ DOMAIN switches \subseteq Nat
  BY <1>a, <1>1, <1>2 DEF HostsKept, Numbered
<1>4. /\ Len(Numbered.hosts) \in Nat /\ s \in Slots /\ q \in LanRouters \cup {Star}
  <2>1. Numbered \in LanSwitches
    BY <1>3
  <2>2. Numbered.hosts \in Seq(LanHosts) /\ s \in Slots /\ q \in LanRouters \cup {Star}
    BY <1>a, <2>1 DEF LanSwitches
  <2> QED
    BY <2>2
<1>5. LanSize \in Nat /\ Star \notin LanRouters
  BY HostLanBounds, StarIsNoRouter DEF LanRouters, GivenOK, Sized
<1>6. LanRouters' = LanRouters /\ turn'[1] = t + 1 /\ turn'[2] = 1
  BY <1>1, <1>2 DEF LanRouters, Given
<1>0. \A w \in DOMAIN switches : w < t + 1 <=> w < t \/ w = t
  BY <1>2, <1>3
<1>7. \A y : Unnumbered(y)' <=> Unnumbered(y) /\ (q # Star => y # x)
  <2>1. \A y : Unnumbered(y) <=> \E r \in LanRouters :
            y = Router(r) /\ \A w \in DOMAIN switches : w < t => switches[w].router # r
    BY <1>a DEF Unnumbered
  <2>2. \A y : Unnumbered(y)' <=> \E r \in LanRouters :
            y = Router(r) /\ (\A w \in DOMAIN switches : w < t => switches[w].router # r) /\ q # r
    BY <1>a, <1>0, <1>1, <1>3, <1>6 DEF Unnumbered
  <2>3. \A r \in LanRouters : q # r <=> (q # Star => Router(r) # x)
    BY <1>a, <1>4, <1>5 DEF Router
  <2> QED
    BY <2>1, <2>2, <2>3
<1>10. RoomForRouter' = RoomForRouter
  BY <1>1 DEF RoomForRouter
<1>12. \A y \in DOMAIN ip' : ip'[y].subnet \in Slots
  BY <1>1, <1>4 DEF NumbersKept, Address
<1>13. ASSUME RoomForRouter
       PROVE  /\ \A y \in DOMAIN ip' : IF Unnumbered(y)' THEN ip'[y] = Address(Base, y.id) ELSE FromSwitch(y)'
              /\ \A y, z \in DOMAIN ip' : ip'[y] = ip'[z] => y = z \/ Unnumbered(y)' \/ Unnumbered(z)'
  <2>0. Len(Numbered.hosts) < LanSize
    BY <1>3, <1>13 DEF RoomForRouter
  <2>1. \A j \in Nat \ {0} : NumberOf(j) > 1 /\ NumberOf(j) \in Nat
    BY <1>4, <1>5, <2>0, NumbersOfHosts
  <2>2. q # Star => x \in DOMAIN ip' /\ ip'[x] = Address(s, 1)
    BY <1>1
  <2>4. \A y \in DOMAIN ip' : q = Star \/ y # x => y \in DOMAIN ip /\ ip'[y] = ip[y]
    BY <1>1
  <2>6. q # Star => FromSwitch(x)'
    <3>1. q # Star => ip'[x] = Address(switches'[t].subnet, 1)
      BY <1>a, <1>1, <1>3, <2>2
    <3>2. t < t + 1
      BY <1>2
    <3>3. q # Star => t < turn'[1] /\ t \in DOMAIN switches' /\ 1 \in Nat
      BY <1>1, <1>3, <1>6, <3>2
    <3> QED
      BY <3>1, <3>3 DEF FromSwitch
  <2>7. ASSUME NEW y \in DOMAIN ip', q = Star \/ y # x, ~Unnumbered(y)
        PROVE  FromSwitch(y)' /\ ip'[y] # Address(s, 1)
    <3>1. FromSwitch(y) /\ ip'[y] = ip[y]
      BY <1>13, <2>4, <2>7 DEF NumbersKept
    <3>2. PICK w \in DOMAIN switches, l \in Nat :
            /\ ip[y] = Address(switches[w].subnet, l)
            /\ w < t \/ (w = t /\ \E j \in 1 .. i - 1 : l = NumberOf(j))
      BY <1>a, <3>1 DEF FromSwitch
    <3>3. w < t + 1
      BY <1>0, <3>2
    <3>4. FromSwitch(y)'
      <4>1. /\ w \in DOMAIN switches' /\ ip'[y] = Address(switches'[w].subnet, l)
            /\ turn'[1] = t + 1
        BY <1>1, <1>6, <3>1, <3>2
      <4> QED
        BY <3>2, <3>3, <4>1 DEF FromSwitch
    <3>5. ASSUME ip[y] = Address(s, 1) PROVE FALSE
      <4>1. switches[w].subnet = s /\ l = 1
        BY <3>2, <3>5 DEF Address
      <4>2. w = t
        BY <1>a, <1>3, <4>1, SubnetsApart
      <4>3. PICK j \in 1 .. i - 1 : l = NumberOf(j)
        BY <1>2, <3>2, <4>2
      <4>4. j \in Nat \ {0}
        BY <1>2
      <4> QED
        BY <2>1, <4>1, <4>3, <4>4
    <3> QED
      BY <3>1, <3>4, <3>5
  <2>8. ASSUME NEW y \in DOMAIN ip'
        PROVE  IF Unnumbered(y)' THEN ip'[y] = Address(Base, y.id) ELSE FromSwitch(y)'
    <3>1. CASE Unnumbered(y)'
      <4>1. Unnumbered(y) /\ (q = Star \/ y # x)
        BY <1>7, <3>1
      <4> QED
        BY <1>13, <2>4, <3>1, <4>1 DEF NumbersKept
    <3>2. CASE ~Unnumbered(y)'
      <4>1. ~Unnumbered(y) \/ (q # Star /\ y = x)
        BY <1>7, <3>2
      <4> QED
        BY <2>6, <2>7, <3>2, <4>1
    <3> QED
      BY <3>1, <3>2
  <2>9. ASSUME NEW y \in DOMAIN ip', NEW z \in DOMAIN ip', ip'[y] = ip'[z],
               ~Unnumbered(y)', ~Unnumbered(z)', y # z
        PROVE  FALSE
    <3>0. (~Unnumbered(y) \/ (q # Star /\ y = x)) /\ (~Unnumbered(z) \/ (q # Star /\ z = x))
      BY <1>7, <2>9
    <3>1. CASE (q = Star \/ y # x) /\ (q = Star \/ z # x)
      BY <1>13, <2>4, <2>9, <3>0, <3>1 DEF NumbersKept
    <3>2. CASE q # Star /\ y = x
      BY <2>2, <2>7, <2>9, <3>0, <3>2
    <3>3. CASE q # Star /\ z = x
      BY <2>2, <2>7, <2>9, <3>0, <3>3
    <3> QED
      BY <3>1, <3>2, <3>3
  <2> QED
    BY <2>8, <2>9
<1> QED
  BY <1>1, <1>2, <1>10, <1>12, <1>13 DEF NumbersKept

LEMMA NumbersDoneNumbers ==
  ASSUME GivenOK, HostsKept, NumbersKept, NumbersDone PROVE NumbersKept'
<1>1. /\ UNCHANGED Given /\ UNCHANGED Addresses /\ switches' = switches
      /\ lan = "number" /\ lan' = "end" /\ turn[1] > Len(switches)
  BY DEF NumbersDone, Drawing
<1>2. RoomForRouter' = RoomForRouter /\ LanRouters' = LanRouters /\ turn' = turn /\ ip' = ip
  BY <1>1 DEF RoomForRouter, LanRouters, Given, Addresses
<1>3. \A x : (Unnumbered(x)' <=> Unnumbered(x)) /\ (FromSwitch(x)' <=> FromSwitch(x))
  BY <1>1, <1>2 DEF Unnumbered, FromSwitch, NumberOf, Numbered, Given
<1> QED
  BY <1>1, <1>2, <1>3 DEF NumbersKept

LEMMA NumbersStay ==
  ASSUME GivenOK, PhaseOK, HostsKept, SubnetsKept, NumbersKept, HostsKept', [LanNext]_lanVars
  PROVE  NumbersKept'
<1>1. switches' \in Seq(LanSwitches')
  BY DEF HostsKept
<1>2. CASE \/ DrawInVain \/ DrawLink \/ FallbackLink \/ LinksDone \/ GroupAll \/ GroupExactly
           \/ BeginCuts \/ Cut \/ CutsDone \/ DrawLan \/ NoLan \/ NextRouter
  <2>1. /\ UNCHANGED Given /\ UNCHANGED Addresses /\ lan \notin {"number", "end"} /\ lan' # "end"
    BY <1>2 DEF DrawInVain, DrawLink, FallbackLink, LinksDone, GroupAll, GroupExactly, BeginCuts, Cut,
                CutsDone, DrawLan, NoLan, NextRouter
  <2>2. LanSwitches' = LanSwitches
    BY <2>1 DEF LanSwitches, LanRouters, LanHosts, Given
  <2> QED
    BY <1>1, <2>1, <2>2, NumbersLater
<1>3. CASE UNCHANGED lanVars
  BY <1>3, NumbersSame DEF lanVars, Given, Addresses
<1> QED
  BY <1>2, <1>3, NumberHostNumbers, NumberRouterNumbers, NumbersDoneNumbers DEF LanNext

LanInv == GivenOK /\ PhaseOK /\ HostsKept /\ SubnetsKept /\ NumbersKept

LEMMA LansKept == LanSpec => []LanInv
<1>1. LanInit => LanInv
  BY InitHosts, InitSubnets, InitNumbers DEF LanInv
<1>2. LanInv /\ [LanNext]_lanVars => LanInv'
  BY HostsStay, SubnetsStay, NumbersStay DEF LanInv
<1> QED
  BY <1>1, <1>2, PTL DEF LanSpec

\* The phases, switches and addresses of a preview are those the code has: routers and
\* hosts of switches exist, and every address is of one of the subnets.
THEOREM LanTypes == LanSpec => []LanTypeOK
<1>1. LanInv => LanTypeOK
  <2> SUFFICES ASSUME LanInv PROVE LanTypeOK
    OBVIOUS
  <2>1. switches \in Seq(LanSwitches)
    BY DEF LanInv, HostsKept
  <2>2. \A w \in Range(switches) : w \in LanSwitches
    BY <2>1 DEF Range
  <2>3. \A w \in Range(switches) : w.hosts \in Seq(LanHosts) /\ w.subnet \in Slots /\ w.router \in LanRouters \cup {Star}
    BY <2>2 DEF LanSwitches
  <2> QED
    BY <2>3 DEF LanInv, LanTypeOK, PhaseOK, SubnetsKept, NumbersKept
<1> QED
  BY <1>1, LansKept, PTL

-----------------------------------------------------------------------------
(* Subnets and addresses are distinct. *)

\* A sequence without repetitions has as many values as it is long.
LEMMA InjectiveCount ==
  ASSUME NEW S, NEW s \in Seq(S), IsInjective(s)
  PROVE  Cardinality(Range(s)) = Len(s)
<1> DEFINE n == Len(s)
<1>1. n \in Nat /\ s \in [1 .. n -> S]
  OBVIOUS
<1>2. s \in Bijection(1 .. n, Range(s))
  BY <1>1 DEF Bijection, Injection, Surjection, IsInjective, Range
<1>3. ExistsBijection(1 .. n, Range(s))
  BY <1>2 DEF ExistsBijection
<1>4. IsFiniteSet(1 .. n) /\ Cardinality(1 .. n) = n
  BY <1>1, FS_Interval
<1> QED
  BY <1>3, <1>4, FS_Bijection

LEMMA SubnetsDiffer == LanInv => SubnetsDistinct
<1> SUFFICES ASSUME LanInv, fell = 0 PROVE
       /\ Cardinality(Range(spans)) = Len(spans)
       /\ \A v, w \in DOMAIN switches : v # w => switches[v].subnet # switches[w].subnet
       /\ \A w \in Range(switches) : w.subnet \notin Range(spans)
  BY DEF SubnetsDistinct
<1>1. spans \in Seq(Slots) /\ IsInjective(spans)
  BY DEF LanInv, SubnetsKept
<1>2. Cardinality(Range(spans)) = Len(spans)
  BY <1>1, InjectiveCount
<1>3. \A v, w \in DOMAIN switches : v # w => switches[v].subnet # switches[w].subnet
  BY SubnetsApart DEF LanInv
<1>4. \A w \in Range(switches) : w.subnet \notin Range(spans)
  <2>1. CASE routersN = 0
    BY <2>1 DEF LanInv, SubnetsKept, Range
  <2>2. CASE routersN # 0
    BY <2>2 DEF LanInv, SubnetsKept, Range
  <2> QED
    BY <2>1, <2>2
<1> QED
  BY <1>2, <1>3, <1>4

LEMMA OnceBehind ==
  ASSUME OnceEach(Behind(switches), LanHosts), NEW h \in LanHosts
  PROVE  \E w \in DOMAIN switches : \E j \in DOMAIN switches[w].hosts : switches[w].hosts[j] = h
<1>1. \A i \in DOMAIN Behind(switches) : i \in DOMAIN switches /\ Behind(switches)[i] = switches[i].hosts
  BY DEF Behind
<1>2. PICK i \in DOMAIN Behind(switches) : \E j \in DOMAIN Behind(switches)[i] : Behind(switches)[i][j] = h
  BY DEF OnceEach
<1> QED
  BY <1>1, <1>2

\* A router with hosts has a switch, in the end.
LEMMA HostsHaveSwitch ==
  ASSUME LanInv, lan \in {"number", "end"}, NEW r \in LanRouters, HostsOf(r) # <<>>
  PROVE  \E w \in DOMAIN switches : switches[w].router = r
<1>1. Sized /\ routersN # 0 /\ LastRouter = routersN
  BY LastOfRouters DEF LanInv, GivenOK, Sized, LanRouters
<1>2. r \in 1 .. LastRouter
  BY <1>1 DEF LanRouters
<1>3. HostsOf(r) \in Seq(LanHosts)
  BY <1>1, <1>2, HostsTyped
<1> DEFINE h == HostsOf(r)[1]
<1>4. h \in LanHosts /\ h \in Range(HostsOf(r))
  BY <1>3 DEF Range
<1>5. OnceEach(Behind(switches), LanHosts)
  BY <1>1, AllBefore DEF LanInv, PhaseOK, HostsKept
<1> HIDE DEF h
<1>6. PICK w \in DOMAIN switches : \E j \in DOMAIN switches[w].hosts : switches[w].hosts[j] = h
  BY <1>4, <1>5, OnceBehind
<1> DEFINE q == switches[w].router
<1>7. q \in LanRouters /\ Range(switches[w].hosts) \subseteq Range(HostsOf(q))
  BY <1>1, HostsOfIn DEF LanInv, HostsKept
<1> HIDE DEF q
<1>8. h \in Range(HostsOf(q))
  BY <1>6, <1>7 DEF Range
<1>9. q \in 1 .. LastRouter
  BY <1>1, <1>7 DEF LanRouters
<1>10. q = r
  BY <1>1, <1>2, <1>4, <1>8, <1>9, HostsApart
<1> QED
  BY <1>10 DEF q

LEMMA NodesDiffer == LanInv => NodesDistinct
<1> SUFFICES ASSUME LanInv, lan = "end",
                    \A w \in Range(switches) : Len(w.hosts) < LanSize,
                    \A w \in Range(switches) : w.subnet = Base => \A r \in LanRouters : HostsOf(r) # <<>>,
                    NEW x \in DOMAIN ip, NEW y \in DOMAIN ip, ip[x] = ip[y]
             PROVE  x = y
  BY DEF NodesDistinct
<1>1. RoomForRouter /\ \A w \in DOMAIN switches : switches[w] \in Range(switches)
  BY DEF RoomForRouter, Range
<1>2. \A w \in DOMAIN switches : w < turn[1]
  <2>1. /\ turn[1] \in Nat /\ turn[1] > Len(switches) /\ Len(switches) \in Nat
        /\ DOMAIN switches = 1 .. Len(switches)
    BY DEF LanInv, NumbersKept, HostsKept
  <2> QED
    BY <2>1
<1>3. \A z \in DOMAIN ip : IF Unnumbered(z) THEN ip[z] = Address(Base, z.id) ELSE FromSwitch(z)
  BY <1>1 DEF LanInv, NumbersKept
<1>4. ASSUME NEW u \in DOMAIN ip, NEW v \in DOMAIN ip, Unnumbered(u), FromSwitch(v), ip[u] = ip[v]
      PROVE  FALSE
  <2>1. PICK r \in LanRouters : u = Router(r) /\ \A w \in DOMAIN switches : switches[w].router # r
    BY <1>2, <1>4 DEF Unnumbered
  <2>2. PICK w \in DOMAIN switches : \E k \in Nat : ip[v] = Address(switches[w].subnet, k)
    BY <1>4 DEF FromSwitch
  <2>3. switches[w].subnet = Base
    BY <1>3, <1>4, <2>2 DEF Address
  <2>4. HostsOf(r) # <<>>
    BY <1>1, <2>3
  <2> QED
    BY <2>1, <2>4, HostsHaveSwitch
<1>5. CASE Unnumbered(x) /\ Unnumbered(y)
  <2>1. x.id = y.id
    BY <1>3, <1>5 DEF Address
  <2> QED
    BY <1>5, <2>1 DEF Unnumbered, Router
<1>6. CASE ~Unnumbered(x) /\ ~Unnumbered(y)
  BY <1>1, <1>6 DEF LanInv, NumbersKept
<1>7. CASE Unnumbered(x) /\ ~Unnumbered(y)
  <2>1. FromSwitch(y)
    BY <1>3, <1>7
  <2> QED
    BY <1>4, <1>7, <2>1
<1>8. CASE ~Unnumbered(x) /\ Unnumbered(y)
  <2>1. FromSwitch(x)
    BY <1>3, <1>8
  <2> QED
    BY <1>4, <1>8, <2>1
<1> QED
  BY <1>5, <1>6, <1>7, <1>8

\* No two links or switches get the same subnet while the pools have one left, and in
\* the end no two nodes have the same address, if every switch leaves one for its router
\* and no router without a switch keeps an address of a subnet that a switch has got.
THEOREM AddressesAreDistinct == LanSpec => []AddressesDistinct
<1>1. LanInv => AddressesDistinct
  BY SubnetsDiffer, NodesDiffer DEF AddressesDistinct
<1> QED
  BY <1>1, LansKept, PTL

\* Whatever mode groups them, every host is behind one switch, in one place there, and
\* the switch is of the router the host was dealt to: none is lost or doubled.
THEOREM HostsBehindOne == LanSpec => []HostsGroupedOnce
<1>1. LanInv => HostsGroupedOnce
  <2> SUFFICES ASSUME LanInv, Grouped, NEW h \in LanHosts,
                      NEW B, B = {w \in DOMAIN switches : h \in Range(switches[w].hosts)}
               PROVE  /\ Cardinality(B) = 1
                      /\ \A w \in B :
                           /\ routersN > 0 => h \in Range(HostsOf(switches[w].router))
                           /\ Cardinality(Range(switches[w].hosts)) = Len(switches[w].hosts)
    BY DEF HostsGroupedOnce
  <2>1. OnceEach(Behind(switches), LanHosts)
    <3>1. Sized /\ lan \notin {"lans", "failed"} /\ router = LastRouter + 1
      BY DEF Grouped, LanInv, GivenOK, PhaseOK
    <3> QED
      BY <3>1, AllBefore DEF LanInv, HostsKept
  <2>2. PICK v \in DOMAIN switches : \E j \in DOMAIN switches[v].hosts : switches[v].hosts[j] = h
    BY <2>1, OnceBehind
  <2>3. \A w \in B : w = v
    BY <2>1, <2>2 DEF OnceEach, Behind, Range
  <2>4. v \in B
    BY <2>2 DEF Range
  <2>5. Cardinality(B) = 1
    <3>1. B = {v}
      BY <2>3, <2>4
    <3> QED
      BY <3>1, FS_Singleton
  <2>6. routersN > 0 => h \in Range(HostsOf(switches[v].router))
    <3>1. routersN > 0 => Range(switches[v].hosts) \subseteq Range(HostsOf(switches[v].router))
      <4>1. routersN > 0 => routersN # 0
        BY DEF LanInv, GivenOK, Sized
      <4>2. routersN # 0 =>
              Range(switches[v].hosts) \subseteq Range(HostsIn(routersN, hostsN, switches[v].router))
        BY DEF LanInv, HostsKept
      <4> QED
        BY <4>1, <4>2, HostsOfIn
    <3> QED
      BY <2>4, <3>1
  <2>7. Cardinality(Range(switches[v].hosts)) = Len(switches[v].hosts)
    <3>1. v \in DOMAIN Behind(switches) /\ Behind(switches)[v] = switches[v].hosts
      BY DEF Behind
    <3>2. switches[v].hosts \in Seq(LanHosts) /\ IsInjective(switches[v].hosts)
      BY <2>1, <3>1, GroupsWithin
    <3> QED
      BY <3>2, InjectiveCount
  <2> QED
    BY <2>3, <2>5, <2>6, <2>7
<1> QED
  BY <1>1, LansKept, PTL

-----------------------------------------------------------------------------
(* The sizes of groups. *)

\* The first s of k groups have a + 1 hosts, the others a.
EvenTo(gs, k, a, s) == \A i \in 1 .. k : Len(gs[i]) = IF i <= s THEN a + 1 ELSE a

\* After t turns of the deal of n hosts q rounds are over, and s groups have had their
\* turn in the next one; unless no host was left, or all groups were full.
Dealing(d, t, k, lo, hi, n) ==
  \E q \in Nat, s \in 0 .. k - 1 :
    /\ EvenTo(d.groups, k, lo + q, s)
    /\ Len(d.rest) + k * lo + k * q + s = n
    /\ lo + q <= hi /\ (s > 0 => lo + q < hi)
    /\ d.rest = <<>> \/ (lo + q = hi /\ s = 0) \/ k * q + s = t

LEMMA TurnsEvenly ==
  ASSUME NEW S, NEW k \in Nat \ {0}, NEW lo \in Nat, NEW hi \in Nat, NEW n \in Nat, NEW t \in Nat, NEW d,
         DealtOf(d, k, S), Dealing(d, t, k, lo, hi, n)
  PROVE  Dealing(DealTurn(d, t + 1, k, hi), t + 1, k, lo, hi, n)
<1>1. PICK q \in Nat, s \in 0 .. k - 1 :
        /\ EvenTo(d.groups, k, lo + q, s)
        /\ Len(d.rest) + k * lo + k * q + s = n
        /\ lo + q <= hi /\ (s > 0 => lo + q < hi)
        /\ d.rest = <<>> \/ (lo + q = hi /\ s = 0) \/ k * q + s = t
  BY DEF Dealing
<1> DEFINE i == 1 + (t % k)
<1>2. i \in 1 .. k /\ (t + 1) - 1 = t
  BY Quotient
<1>3. d.groups \in Seq(Seq(S)) /\ Len(d.groups) = k /\ d.rest \in Seq(S)
  BY DEF DealtOf
<1>4. CASE d.rest = <<>> \/ (lo + q = hi /\ s = 0)
  <2>1. DealTurn(d, t + 1, k, hi) = d
    <3>1. lo + q = hi /\ s = 0 => Len(d.groups[i]) = hi
      BY <1>1, <1>2 DEF EvenTo
    <3> QED
      BY <1>2, <1>4, <3>1 DEF DealTurn
  <2> QED
    BY <1>1, <1>4, <2>1 DEF Dealing
<1>5. CASE ~(d.rest = <<>> \/ (lo + q = hi /\ s = 0))
  <2>1. k * q + s = t /\ lo + q < hi /\ k * q \in Nat /\ k * lo \in Nat
    <3>1. s = 0 => lo + q # hi
      BY <1>5
    <3>2. s \in Nat
      OBVIOUS
    <3> QED
      BY <1>1, <1>5, <3>1, <3>2
  <2>2. i = s + 1
    <3>1. t % k \in 0 .. k - 1 /\ t \div k \in Nat /\ t = k * (t \div k) + (t % k)
      BY Quotient
    <3>2. 1 + (t % k) \in 1 .. k /\ 1 + s \in 1 .. k
      BY <3>1
    <3>3. (1 + (t % k)) + (t \div k) * k = (1 + s) + q * k
      BY <2>1, <3>1
    <3>4. 1 + (t % k) = 1 + s
      BY <3>1, <3>2, <3>3, OneRemainder
    <3> QED
      BY <3>4
  <2> DEFINE e == [groups |-> [d.groups EXCEPT ![i] = Append(@, Head(d.rest))], rest |-> Tail(d.rest)]
  <2>3. Len(d.groups[i]) = lo + q
    BY <1>1, <1>2, <2>2 DEF EvenTo
  <2>4. DealTurn(d, t + 1, k, hi) = e
    <3>1. 1 + (((t + 1) - 1) % k) = i
      BY <1>2
    <3>2. ~(d.rest = <<>> \/ Len(d.groups[i]) >= hi)
      BY <1>5, <2>1, <2>3
    <3> HIDE DEF i
    <3> QED
      BY <3>1, <3>2 DEF DealTurn
  <2>5. Len(e.rest) = Len(d.rest) - 1 /\ Len(d.rest) \in Nat \ {0}
    BY <1>3, <1>5
  <2>6. Len(e.groups[i]) = lo + q + 1 /\ \A j \in 1 .. k : j # i => e.groups[j] = d.groups[j]
    <3>1. d.groups[i] \in Seq(S)
      BY <1>2, <1>3
    <3>2. e.groups[i] = Append(d.groups[i], Head(d.rest))
      BY <1>2, <1>3
    <3>3. \A j \in 1 .. k : j # i => e.groups[j] = d.groups[j]
      BY <1>2, <1>3
    <3>4. Len(Append(d.groups[i], Head(d.rest))) = Len(d.groups[i]) + 1
      BY <3>1
    <3> HIDE DEF e, i
    <3>5. Len(e.groups[i]) = lo + q + 1
      BY <2>3, <3>2, <3>4
    <3> QED
      BY <3>3, <3>5
  <2> DEFINE kl == k * lo
             kq == k * q
  <2>9. kl \in Nat /\ kq \in Nat /\ Len(d.rest) + kl + kq + s = n /\ kq + s = t
    BY <1>1, <2>1
  <2>10. \A j \in 1 .. k : Len(e.groups[j]) = IF j <= s + 1 THEN (lo + q) + 1 ELSE lo + q
    <3> SUFFICES ASSUME NEW j \in 1 .. k PROVE Len(e.groups[j]) = IF j <= s + 1 THEN (lo + q) + 1 ELSE lo + q
      OBVIOUS
    <3> HIDE DEF e, i
    <3>1. CASE j = i
      BY <2>2, <2>6, <3>1
    <3>2. CASE j # i
      <4>1. Len(e.groups[j]) = IF j <= s THEN (lo + q) + 1 ELSE lo + q
        BY <1>1, <2>6, <3>2 DEF EvenTo
      <4>2. j <= s + 1 <=> j <= s
        BY <2>2, <3>2
      <4> QED
        BY <4>1, <4>2
    <3> QED
      BY <3>1, <3>2
  <2> HIDE DEF e, i, kl, kq
  <2>11. PICK x \in Int : x = Len(e.rest)
    BY <2>5
  <2>12. kl \in Nat /\ kq \in Nat /\ s \in Int /\ (x + 1) + kl + kq + s = n
    <3>1. Len(d.rest) = x + 1
      BY <2>5, <2>11
    <3>2. s \in Int
      OBVIOUS
    <3> QED
      BY <2>9, <3>1, <3>2
  <2>7. CASE s + 1 < k
    <3>1. EvenTo(e.groups, k, lo + q, s + 1)
      BY <2>10 DEF EvenTo
    <3>2. Len(e.rest) + k * lo + k * q + (s + 1) = n
      <4>1. x + kl + kq + (s + 1) = n
        BY <2>12
      <4>2. Len(e.rest) + kl + kq + (s + 1) = n
        BY <2>11, <4>1
      <4> QED
        BY <4>2 DEF kl, kq
    <3>3. k * q + (s + 1) = t + 1 /\ s + 1 \in 0 .. k - 1
      BY <2>1, <2>7
    <3> QED
      BY <1>1, <2>1, <2>4, <3>1, <3>2, <3>3 DEF Dealing
  <2>8. CASE ~(s + 1 < k)
    <3>1. s + 1 = k
      BY <2>8
    <3>2. EvenTo(e.groups, k, lo + (q + 1), 0)
      <4> SUFFICES ASSUME NEW j \in 1 .. k PROVE Len(e.groups[j]) = lo + (q + 1)
        BY DEF EvenTo
      <4>1. j <= s + 1
        BY <3>1
      <4> QED
        BY <2>10, <4>1
    <3>3. k * (q + 1) = k * q + k
      OBVIOUS
    <3>4. Len(e.rest) + k * lo + k * (q + 1) + 0 = n
      <4>1. x + kl + (kq + k) + 0 = n
        BY <2>12, <3>1
      <4>2. Len(e.rest) + kl + (kq + k) + 0 = n
        BY <2>11, <4>1
      <4> QED
        BY <3>3, <4>2 DEF kl, kq
    <3>5. k * (q + 1) + 0 = t + 1 /\ 0 \in 0 .. k - 1 /\ q + 1 \in Nat /\ lo + (q + 1) <= hi
      BY <2>1, <3>1, <3>3
    <3> QED
      BY <2>4, <3>2, <3>4, <3>5 DEF Dealing
  <2> QED
    BY <2>7, <2>8
<1> QED
  BY <1>4, <1>5

LEMMA DealtEvenly ==
  ASSUME NEW S, NEW seed, NEW rest, NEW k \in Nat \ {0}, NEW lo \in Nat, NEW hi \in Nat, NEW n \in Nat,
         NEW end \in Nat, NEW D, DealGrowth(seed, rest, k, hi, end, D),
         DealtOf([groups |-> seed, rest |-> rest], k, S),
         EvenTo(seed, k, lo, 0), Len(rest) + k * lo = n, lo <= hi
  PROVE  DealtOf(D[end], k, S) /\ Dealing(D[end], end, k, lo, hi, n)
<1> DEFINE Fine(t) == DealtOf(D[t], k, S) /\ Dealing(D[t], t, k, lo, hi, n)
           T == {t \in Nat : t <= end => Fine(t)}
<1>0. \A t \in 0 .. end : D[t] = IF t = 0 THEN [groups |-> seed, rest |-> rest] ELSE DealTurn(D[t - 1], t, k, hi)
  BY DEF DealGrowth
<1>1. 0 \in T
  <2>1. D[0] = [groups |-> seed, rest |-> rest]
    BY <1>0
  <2>2. EvenTo(seed, k, lo + 0, 0) /\ k * 0 = 0 /\ Len(rest) \in Nat
    BY DEF DealtOf
  <2>3. Len(rest) + k * lo + k * 0 + 0 = n /\ k * 0 + 0 = 0 /\ 0 \in 0 .. k - 1
    BY <2>2
  <2>4. Dealing([groups |-> seed, rest |-> rest], 0, k, lo, hi, n)
    BY <2>2, <2>3 DEF Dealing
  <2> QED
    BY <2>1, <2>4
<1>2. ASSUME NEW t \in T PROVE t + 1 \in T
  <2> SUFFICES ASSUME t + 1 <= end PROVE Fine(t + 1)
    OBVIOUS
  <2>1. t + 1 \in 0 .. end /\ t + 1 # 0 /\ (t + 1) - 1 = t /\ t + 1 \in Nat \ {0} /\ t \in Nat
    OBVIOUS
  <2>2. D[t + 1] = DealTurn(D[t], t + 1, k, hi)
    BY <1>0, <2>1
  <2>3. Fine(t)
    OBVIOUS
  <2> QED
    BY <2>1, <2>2, <2>3, TurnKeeps, TurnsEvenly
<1> HIDE DEF T
<1>3. T = Nat
  BY <1>1, <1>2, NatSets DEF T
<1> QED
  BY <1>3 DEF T

\* If only the first c groups have hosts, they are the ones that are kept.
LEMMA FilledFirst ==
  ASSUME NEW S, NEW gs \in Seq(Seq(S)), NEW c \in 0 .. Len(gs),
         \A i \in 1 .. Len(gs) : gs[i] # <<>> <=> i <= c
  PROVE  /\ Filled(gs) \in Seq(Seq(S)) /\ Len(Filled(gs)) = c
         /\ \A i \in 1 .. c : Filled(gs)[i] = gs[i]
<1> DEFINE n == Len(gs)
<1>0. n \in Nat /\ c \in 0 .. n /\ \A i \in 1 .. n : gs[i] \in Seq(S)
  OBVIOUS
<1>1. PICK F : F = CHOOSE G : FillGrowth(gs, G)
  OBVIOUS
<1>2. FillGrowth(gs, F)
  BY <1>0, <1>1, FillExists
<1>3. Filled(gs) = F[n]
  BY <1>1 DEF Filled, FillGrowth
<1>4. F = [i \in 0 .. n |-> IF i = 0 THEN <<>> ELSE IF gs[i] = <<>> THEN F[i - 1] ELSE Append(F[i - 1], gs[i])]
  BY <1>2 DEF FillGrowth
<1>5. \A i \in 1 .. n : gs[i] # <<>> <=> i <= c
  OBVIOUS
<1> HIDE DEF n
<1> DEFINE Fine(i) == /\ F[i] \in Seq(Seq(S)) /\ Len(F[i]) = IF i <= c THEN i ELSE c
                      /\ \A j \in 1 .. Len(F[i]) : F[i][j] = gs[j]
           T == {i \in Nat : i <= n => Fine(i)}
<1>6. 0 \in T
  <2>1. F[0] = <<>> /\ 0 <= c
    BY <1>0, <1>4
  <2>2. Fine(0)
    BY <2>1
  <2> HIDE DEF Fine
  <2> QED
    BY <2>2
<1>7. ASSUME NEW i \in T PROVE i + 1 \in T
  <2> SUFFICES ASSUME i + 1 <= n PROVE Fine(i + 1)
    OBVIOUS
  <2>1. i \in Nat /\ i <= n /\ Fine(i)
    BY <1>0
  <2> HIDE DEF T
  <2>2. i + 1 \in 0 .. n /\ i + 1 \in 1 .. n /\ i + 1 # 0 /\ (i + 1) - 1 = i
    BY <1>0, <2>1
  <2>3. F[i + 1] = IF gs[i + 1] = <<>> THEN F[i] ELSE Append(F[i], gs[i + 1])
    <3>1. F[i + 1] = IF i + 1 = 0 THEN <<>> ELSE IF gs[i + 1] = <<>> THEN F[(i + 1) - 1] ELSE Append(F[(i + 1) - 1], gs[i + 1])
      BY <1>4, <2>2
    <3> QED
      BY <2>2, <3>1
  <2>4. CASE i + 1 <= c
    <3>1. F[i + 1] = Append(F[i], gs[i + 1])
      BY <1>5, <2>2, <2>3, <2>4
    <3>2. i <= c /\ Len(F[i]) = i
      BY <1>0, <2>1, <2>4
    <3> DEFINE g == gs[i + 1]
               A == Append(F[i], g)
    <3>3. g \in Seq(S)
      BY <1>0, <2>2
    <3> HIDE DEF g
    <3>4. A \in Seq(Seq(S)) /\ Len(A) = i + 1 /\ A[i + 1] = g /\ \A j \in 1 .. i : A[j] = F[i][j]
      BY <2>1, <3>2, <3>3
    <3> HIDE DEF A
    <3>5. \A j \in 1 .. i + 1 : j = i + 1 \/ j \in 1 .. i
      BY <2>1
    <3>6. \A j \in 1 .. i + 1 : A[j] = gs[j]
      BY <2>1, <3>2, <3>4, <3>5 DEF g
    <3>7. F[i + 1] = A
      BY <3>1 DEF A, g
    <3> QED
      BY <2>4, <3>4, <3>6, <3>7
  <2>5. CASE ~(i + 1 <= c)
    <3>1. F[i + 1] = F[i]
      BY <1>5, <2>2, <2>3, <2>5
    <3>2. (IF i <= c THEN i ELSE c) = c /\ (IF i + 1 <= c THEN i + 1 ELSE c) = c
      BY <1>0, <2>1, <2>5
    <3> QED
      BY <2>1, <3>1, <3>2
  <2> QED
    BY <2>4, <2>5
<1> HIDE DEF T
<1>8. T = Nat
  BY <1>6, <1>7, NatSets DEF T
<1>9. Fine(n)
  BY <1>0, <1>8 DEF T
<1>10. (IF n <= c THEN n ELSE c) = c
  BY <1>0
<1> QED
  BY <1>3, <1>9, <1>10

\* How a deal of n hosts ends after R rounds: m hosts are left, and the groups have had
\* q rounds and s of them one turn more.
Ended(n, k, lo, hi, R, m, q, s) ==
  /\ m + k * lo + k * q + s = n
  /\ lo + q <= hi /\ (s > 0 => lo + q < hi)
  /\ m = 0 \/ (lo + q = hi /\ s = 0) \/ k * q + s = k * R

\* What is left after the last round: nothing, if there was not a host for each group,
\* or if the groups or the rounds are enough for all hosts.
LEMMA NoneRemains ==
  ASSUME NEW n \in Nat, NEW k \in Nat \ {0}, NEW lo \in Nat, NEW hi \in Nat \ {0}, NEW R \in Nat \ {0},
         NEW m \in Nat, NEW q \in Nat, NEW s \in 0 .. k - 1,
         Ended(n, k, lo, hi, R, m, q, s)
  PROVE  /\ lo = 0 /\ n < k => m = 0 /\ q = 0 /\ s = n
         /\ n <= k * hi /\ n <= k * (lo + R) => m = 0
<1>0. m + k * lo + k * q + s = n /\ (m = 0 \/ (lo + q = hi /\ s = 0) \/ k * q + s = k * R)
  BY DEF Ended
<1>1. k * lo \in Nat /\ k * q \in Nat /\ s \in Nat
  OBVIOUS
<1>2. k * q + s = k * R => q = R /\ s = 0
  <2> SUFFICES ASSUME k * q + s = k * R PROVE q = R /\ s = 0
    OBVIOUS
  <2>1. (s + 1) + q * k = 1 + R * k /\ s + 1 \in 1 .. k /\ 1 \in 1 .. k
    OBVIOUS
  <2>2. s + 1 = 1 /\ q = R
    BY <2>1, OneRemainder
  <2> QED
    BY <2>2
<1>3. ASSUME lo = 0, n < k PROVE m = 0 /\ q = 0 /\ s = n
  <2>1. q = 0
    <3> SUFFICES ASSUME q # 0 PROVE FALSE
      OBVIOUS
    <3>1. PICK e \in Nat : q = e + 1
      <4>1. q - 1 \in Nat /\ q = (q - 1) + 1
        OBVIOUS
      <4> QED
        BY <4>1
    <3>2. k * q = k * e + k /\ k * e \in Nat
      BY <3>1
    <3> QED
      BY <1>0, <1>1, <1>3, <3>2
  <2>2. k * lo = 0 /\ k * q = 0
    BY <1>3, <2>1
  <2>3. m + s = n
    BY <1>0, <1>1, <2>2
  <2>4. ~(lo + q = hi /\ s = 0) /\ ~(k * q + s = k * R)
    BY <1>2, <1>3, <2>1
  <2>5. m = 0
    BY <1>0, <2>4
  <2> QED
    BY <1>1, <2>1, <2>3, <2>5
<1>4. ASSUME n <= k * hi, n <= k * (lo + R) PROVE m = 0
  <2>1. CASE lo + q = hi /\ s = 0
    <3>1. k * hi = k * lo + k * q
      BY <2>1
    <3> QED
      BY <1>0, <1>1, <1>4, <2>1, <3>1
  <2>2. CASE k * q + s = k * R
    <3>1. k * (lo + R) = k * lo + k * q /\ s = 0
      BY <1>2, <2>2
    <3> QED
      BY <1>0, <1>1, <1>4, <3>1
  <2> QED
    BY <1>0, <2>1, <2>2
<1> QED
  BY <1>3, <1>4

\* The least and the most hosts of a group that a row asks for, what every group gets
\* first, and how many it can get.
Asks(n, k, least, most, wanted, hi, lo) ==
  /\ wanted = IF least > 0 THEN least ELSE 1
  /\ hi = IF most > 0 THEN IF wanted >= most THEN wanted ELSE most ELSE n
  /\ lo = IF n >= k * wanted THEN wanted ELSE IF n >= k THEN 1 ELSE 0

\* What follows for the numbers of hosts from what a row asks for.
LEMMA AskedSizes ==
  ASSUME NEW k \in Nat \ {0}, NEW n \in Nat \ {0}, NEW least \in Nat, NEW most \in Nat,
         NEW wanted, NEW hi, NEW lo, Asks(n, k, least, most, wanted, hi, lo)
  PROVE  /\ wanted \in Nat \ {0} /\ lo \in Nat /\ hi \in Nat \ {0} /\ lo <= hi /\ k * lo <= n
         /\ lo = 0 <=> n < k
<1>1. wanted \in Nat \ {0} /\ hi \in Nat \ {0} /\ (most > 0 => wanted <= hi) /\ (~(most > 0) => hi = n)
  <2>1. wanted \in Nat \ {0}
    BY DEF Asks
  <2> QED
    BY <2>1 DEF Asks
<1>2. PICK e \in Nat : e = k * wanted
  BY <1>1
<1>3. lo = IF n >= e THEN wanted ELSE IF n >= k THEN 1 ELSE 0
  BY <1>2 DEF Asks
<1>4. e >= k /\ e >= wanted
  <2>1. PICK f \in Nat : wanted = f + 1
    <3>1. wanted - 1 \in Nat /\ wanted = (wanted - 1) + 1
      BY <1>1
    <3> QED
      BY <3>1
  <2>2. PICK g \in Nat : k = g + 1
    <3>1. k - 1 \in Nat /\ k = (k - 1) + 1
      OBVIOUS
    <3> QED
      BY <3>1
  <2>3. k * wanted = k * f + k /\ k * f \in Nat
    BY <2>1
  <2>4. k * wanted = g * wanted + wanted /\ g * wanted \in Nat
    BY <1>1, <2>2
  <2> QED
    BY <1>1, <1>2, <2>3, <2>4
<1>5. k * 1 = k /\ k * 0 = 0
  OBVIOUS
<1>6. lo \in Nat /\ k * lo <= n
  BY <1>1, <1>2, <1>3, <1>5
<1> QED
  BY <1>1, <1>3, <1>4, <1>6

\* The sizes of k groups: a hosts each, one more in the first s of them and m more in the last.
SizeOf(i, k, a, s, m) == (IF i <= s THEN a + 1 ELSE a) + IF i = k THEN m ELSE 0

SizesAre(gs, k, a, s, m) == \A i \in 1 .. k : Len(gs[i]) = SizeOf(i, k, a, s, m)

\* As many groups as there are hosts for, within the bounds if they and the rounds allow
\* for it, and even ones without an upper bound.
DealtAsAsked(gs, n, k, least, most, wanted, R) ==
  /\ Len(gs) = IF n <= k THEN n ELSE k
  /\ least <= most /\ k * wanted <= n /\ n <= k * most /\ n <= k * (wanted + R) =>
       \A i \in DOMAIN gs : Len(gs[i]) \in least .. most
  /\ most = 0 /\ n <= k * ((IF k * wanted <= n THEN wanted ELSE 1) + R) =>
       \A i, j \in DOMAIN gs : Len(gs[i]) <= Len(gs[j]) + 1

\* What the deal leaves in the groups is what the bounds of a row ask for.
LEMMA FilledEvenly ==
  ASSUME NEW S, NEW k \in Nat \ {0}, NEW n \in Nat \ {0}, NEW least \in Nat, NEW most \in Nat,
         NEW R \in Nat \ {0},
         NEW wanted, NEW hi, NEW lo, Asks(n, k, least, most, wanted, hi, lo),
         NEW m \in Nat, NEW q \in Nat, NEW s \in 0 .. k - 1,
         Ended(n, k, lo, hi, R, m, q, s),
         NEW gs \in Seq(Seq(S)), Len(gs) = k,
         SizesAre(gs, k, lo + q, s, m)
  PROVE  DealtAsAsked(Filled(gs), n, k, least, most, wanted, R)
<1> DEFINE fs == Filled(gs)
           c == IF n <= k THEN n ELSE k
           Size(i) == SizeOf(i, k, lo + q, s, m)
<1>1. wanted \in Nat \ {0} /\ lo \in Nat /\ hi \in Nat \ {0} /\ s \in Nat
  BY AskedSizes
<1>0. lo + q <= hi /\ (s > 0 => lo + q < hi)
  BY DEF Ended
<1>2. /\ lo = 0 /\ n < k => m = 0 /\ q = 0 /\ s = n
      /\ n <= k * hi /\ n <= k * (lo + R) => m = 0
  BY <1>1, NoneRemains
<1>3. lo = 0 <=> n < k
  BY AskedSizes
<1>4. \A i \in 1 .. k : Len(gs[i]) = Size(i)
  BY DEF SizesAre
<1>5. c \in 0 .. k /\ \A i \in 1 .. k : Size(i) > 0 <=> i <= c
  <2>1. CASE n < k
    <3>1. m = 0 /\ lo + q = 0 /\ s = n
      BY <1>1, <1>2, <1>3, <2>1
    <3>2. \A i : SizeOf(i, k, lo + q, s, m) = SizeOf(i, k, 0, n, 0)
      BY <3>1
    <3>3. \A i \in 1 .. k : SizeOf(i, k, 0, n, 0) > 0 <=> i <= n
      BY DEF SizeOf
    <3>4. c = n
      BY <2>1
    <3>5. \A i \in 1 .. k : Size(i) > 0 <=> i <= n
      BY <3>2, <3>3
    <3>6. n \in 0 .. k
      BY <2>1
    <3> HIDE DEF c, Size
    <3> QED
      BY <3>4, <3>5, <3>6
  <2>2. CASE ~(n < k)
    <3>1. lo + q > 0
      BY <1>1, <1>3, <2>2
    <3>2. c = k
      BY <2>2
    <3> QED
      BY <1>1, <3>1, <3>2 DEF SizeOf
  <2> QED
    BY <2>1, <2>2
<1> HIDE DEF c, Size
<1>6. \A i \in 1 .. Len(gs) : gs[i] # <<>> <=> i <= c
  <2> SUFFICES ASSUME NEW i \in 1 .. k PROVE gs[i] # <<>> <=> i <= c
    OBVIOUS
  <2>1. gs[i] \in Seq(S)
    OBVIOUS
  <2>2. gs[i] # <<>> <=> Len(gs[i]) > 0
    BY <2>1
  <2>3. Len(gs[i]) = Size(i)
    BY <1>4
  <2>4. Size(i) > 0 <=> i <= c
    BY <1>5
  <2> QED
    BY <2>2, <2>3, <2>4
<1>7. fs \in Seq(Seq(S)) /\ Len(fs) = c /\ \A i \in 1 .. c : fs[i] = gs[i]
  <2>1. c \in 0 .. Len(gs)
    BY <1>5
  <2> QED
    BY <1>6, <2>1, FilledFirst
<1>8. DOMAIN fs = 1 .. c /\ \A i \in 1 .. c : i \in 1 .. k /\ Len(fs[i]) = Size(i)
  <2>1. \A i \in 1 .. c : i \in 1 .. k
    BY <1>5
  <2>2. DOMAIN fs = 1 .. c
    BY <1>7
  <2> HIDE DEF fs
  <2> QED
    BY <1>4, <1>7, <2>1, <2>2
<1> HIDE DEF fs
<1>9. ASSUME least <= most, k * wanted <= n, n <= k * most, n <= k * (wanted + R), NEW i \in DOMAIN fs
      PROVE  Len(fs[i]) \in least .. most
  <2>1. lo = wanted /\ hi = most
    <3>1. most > 0
      <4> SUFFICES ASSUME most = 0 PROVE FALSE
        OBVIOUS
      <4>1. k * most = 0
        OBVIOUS
      <4> QED
        BY <1>9, <4>1
    <3> QED
      BY <1>1, <1>9, <3>1 DEF Asks
  <2>2. m = 0
    BY <1>2, <1>9, <2>1
  <2>3. PICK a \in Nat : a = lo + q
    BY <1>1
  <2>4. i \in 1 .. k /\ Len(fs[i]) = IF i <= s THEN a + 1 ELSE a
    BY <1>1, <1>8, <2>2, <2>3 DEF Size, SizeOf
  <2>5. a <= hi /\ (s > 0 => a < hi) /\ lo <= a /\ least <= lo
    <3>1. least <= lo
      BY <2>1 DEF Asks
    <3> QED
      BY <1>0, <1>1, <2>3, <3>1
  <2>6. i <= s => s > 0
    BY <1>1, <2>4
  <2> QED
    BY <1>1, <2>1, <2>4, <2>5, <2>6
<1>10. ASSUME most = 0, n <= k * ((IF k * wanted <= n THEN wanted ELSE 1) + R),
              NEW i \in DOMAIN fs, NEW j \in DOMAIN fs
       PROVE  Len(fs[i]) <= Len(fs[j]) + 1
  <2>1. m = 0
    <3>1. CASE lo = 0
      BY <1>2, <1>3, <3>1
    <3>2. CASE lo # 0
      <4>1. hi = n
        BY <1>10 DEF Asks
      <4>2. n <= k * n
        <5>1. PICK e \in Nat : k = e + 1
          <6>1. k - 1 \in Nat /\ k = (k - 1) + 1
            OBVIOUS
          <6> QED
            BY <6>1
        <5>2. k * n = e * n + n /\ e * n \in Nat
          BY <5>1
        <5> QED
          BY <5>2
      <4>3. lo = IF k * wanted <= n THEN wanted ELSE 1
        <5>1. k * wanted \in Nat
          BY <1>1
        <5> QED
          BY <3>2, <5>1 DEF Asks
      <4> QED
        BY <1>2, <1>10, <4>1, <4>2, <4>3
    <3> QED
      BY <3>1, <3>2
  <2>2. PICK a \in Nat : a = lo + q
    BY <1>1
  <2>3. \A x \in 1 .. k : Size(x) \in a .. a + 1
    BY <1>1, <2>1, <2>2 DEF Size, SizeOf
  <2>4. Len(fs[i]) \in a .. a + 1 /\ Len(fs[j]) \in a .. a + 1
    BY <1>8, <2>3
  <2> QED
    BY <2>2, <2>4
<1> QED
  BY <1>7, <1>9, <1>10 DEF fs, c, DealtAsAsked

\* What is dealt before the rounds: as many hosts to one group as to another.
LEMMA SeedSizes ==
  ASSUME NEW S, NEW hs \in Seq(S), NEW lo \in Nat, NEW k \in Nat, k * lo <= Len(hs)
  PROVE  /\ EvenTo(Seeds(hs, lo, k), k, lo, 0)
         /\ Len(SubSeq(hs, k * lo + 1, Len(hs))) + k * lo = Len(hs)
<1>1. Len(hs) \in Nat /\ \A i \in 1 .. Len(hs) : hs[i] \in S
  OBVIOUS
<1>2. PICK n \in Nat : n = Len(hs)
  BY <1>1
<1>3. ASSUME NEW i \in 1 .. k PROVE Len(Seeds(hs, lo, k)[i]) = lo
  <2>1. PICK e \in Nat : k = i + e
    <3>1. k - i \in Nat /\ k = i + (k - i)
      OBVIOUS
    <3> QED
      BY <3>1
  <2>2. PICK x \in Nat : x = (i - 1) * lo
    <3>1. i - 1 \in Nat
      OBVIOUS
    <3> QED
      BY <3>1
  <2>3. i * lo = x + lo /\ k * lo = x + lo + e * lo /\ e * lo \in Nat
    BY <2>1, <2>2
  <2>4. x + lo <= n
    BY <1>2, <2>3
  <2>5. \A j \in x + 1 .. x + lo : hs[j] \in S
    BY <1>1, <1>2, <2>4
  <2>6. Len(SubSeq(hs, x + 1, x + lo)) = IF x + 1 <= x + lo THEN (x + lo) - (x + 1) + 1 ELSE 0
    BY <2>5, SubSeqProperties
  <2>7. (IF x + 1 <= x + lo THEN (x + lo) - (x + 1) + 1 ELSE 0) = lo
    OBVIOUS
  <2>8. Seeds(hs, lo, k)[i] = SubSeq(hs, x + 1, x + lo)
    BY <2>2, <2>3 DEF Seeds
  <2> QED
    BY <2>6, <2>7, <2>8
<1>4. PICK x \in Nat : x = k * lo
  OBVIOUS
<1>5. Len(SubSeq(hs, x + 1, n)) = n - x
  <2>1. \A j \in x + 1 .. n : hs[j] \in S
    BY <1>1, <1>2
  <2>2. Len(SubSeq(hs, x + 1, n)) = IF x + 1 <= n THEN n - (x + 1) + 1 ELSE 0
    BY <2>1, SubSeqProperties
  <2>3. x <= n
    BY <1>2, <1>4
  <2> QED
    BY <2>2, <2>3
<1>6. Len(SubSeq(hs, x + 1, n)) + x = n
  BY <1>5
<1>7. \A i \in 1 .. k : Len(Seeds(hs, lo, k)[i]) = IF i <= 0 THEN lo + 1 ELSE lo
  BY <1>3
<1> QED
  BY <1>2, <1>4, <1>6, <1>7 DEF EvenTo

\* However many groups hosts are dealt to.
LEMMA DistributedEvenly ==
  ASSUME NEW S, NEW hs \in Seq(S), OnceEach(Append(<<>>, hs), S), hs # <<>>,
         NEW k \in Nat \ {0}, NEW b \in Nat \X Nat
  PROVE  DealtAsAsked(Distribute(hs, k, b), Len(hs), k, b[1], b[2], IF b[1] > 0 THEN b[1] ELSE 1, Rounds)
<1> DEFINE n == Len(hs)
           wanted == IF b[1] > 0 THEN b[1] ELSE 1
           gs == Distribute(hs, k, b)
           hi == IF b[2] > 0 THEN Max({wanted, b[2]}) ELSE n
           lo == IF n >= k * wanted THEN wanted ELSE IF n >= k THEN 1 ELSE 0
           beyond == SubSeq(hs, k * lo + 1, n)
           end == Rounds * k
<1>0. Rounds \in Nat \ {0} /\ b[1] \in Nat /\ b[2] \in Nat /\ n \in Nat \ {0}
  BY HostLanBounds
<1>1. PICK D : D = CHOOSE E : DealGrowth(Seeds(hs, lo, k), beyond, k, hi, end, E)
  OBVIOUS
<1>2. gs = Filled([D[end].groups EXCEPT ![k] = @ \o D[end].rest])
  BY <1>1 DEF Distribute, DealGrowth, DealTurn, Seeds
<1>3. Asks(n, k, b[1], b[2], wanted, hi, lo)
  <2>1. b[2] > 0 => Max({wanted, b[2]}) = IF wanted >= b[2] THEN wanted ELSE b[2]
    <3>1. wanted \in Nat
      BY <1>0
    <3> QED
      BY <1>0, <3>1, GreatestOfTwo
  <2> QED
    BY <2>1 DEF Asks
<1>4. Seeded(hs, lo, k) = [groups |-> Seeds(hs, lo, k), rest |-> beyond]
  BY DEF Seeded
<1> HIDE DEF hi, lo, wanted, gs
<1>5. lo \in Nat /\ hi \in Nat \ {0} /\ lo <= hi /\ k * lo <= n
  BY <1>0, <1>3, AskedSizes
<1>6. DealtOf(Seeded(hs, lo, k), k, S)
  BY <1>5, SeedsDealt
<1>7. EvenTo(Seeds(hs, lo, k), k, lo, 0) /\ Len(beyond) + k * lo = n
  BY <1>5, SeedSizes
<1> HIDE DEF beyond
<1>8. end \in Nat /\ end = k * Rounds
  BY <1>0
<1> HIDE DEF end
<1>9. DealGrowth(Seeds(hs, lo, k), beyond, k, hi, end, D)
  BY <1>1, <1>8, DealExists
<1>10. DealtOf(D[end], k, S) /\ Dealing(D[end], end, k, lo, hi, n)
  BY <1>0, <1>4, <1>5, <1>6, <1>7, <1>8, <1>9, DealtEvenly
<1> DEFINE ds == D[end].groups
           rest == D[end].rest
<1>11. ds \in Seq(Seq(S)) /\ Len(ds) = k /\ rest \in Seq(S)
  BY <1>10 DEF DealtOf
<1>12. PICK q \in Nat, s \in 0 .. k - 1 :
         /\ EvenTo(ds, k, lo + q, s)
         /\ Len(rest) + k * lo + k * q + s = n
         /\ lo + q <= hi /\ (s > 0 => lo + q < hi)
         /\ rest = <<>> \/ (lo + q = hi /\ s = 0) \/ k * q + s = end
  BY <1>10 DEF Dealing
<1> HIDE DEF ds, rest
<1>13. PICK m \in Nat : m = Len(rest)
  BY <1>11
<1>14. Ended(n, k, lo, hi, Rounds, m, q, s)
  <2>1. rest = <<>> => m = 0
    BY <1>13
  <2> QED
    BY <1>8, <1>12, <1>13, <2>1 DEF Ended
<1> DEFINE es == [ds EXCEPT ![k] = @ \o rest]
<1>15. /\ es \in Seq(Seq(S)) /\ Len(es) = k
       /\ \A i \in 1 .. k : es[i] = IF i = k THEN ds[k] \o rest ELSE ds[i]
  <2>1. ds[k] \in Seq(S) /\ ds[k] \o rest \in Seq(S)
    BY <1>11
  <2> QED
    BY <1>11, <2>1
<1>16. ASSUME NEW i \in 1 .. k PROVE Len(es[i]) = SizeOf(i, k, lo + q, s, m)
  <2>1. Len(ds[i]) = IF i <= s THEN lo + q + 1 ELSE lo + q
    BY <1>12 DEF EvenTo
  <2>2. CASE i = k
    <3>1. ds[i] \in Seq(S) /\ rest \in Seq(S)
      BY <1>11
    <3>2. es[i] = ds[i] \o rest
      BY <1>15, <2>2
    <3>3. Len(ds[i] \o rest) = Len(ds[i]) + Len(rest)
      BY <3>1
    <3> QED
      BY <1>13, <2>1, <2>2, <3>2, <3>3 DEF SizeOf
  <2>3. CASE i # k
    <3>1. es[i] = ds[i]
      BY <1>15, <2>3
    <3>2. PICK a \in Nat : a = lo + q
      BY <1>5
    <3> QED
      BY <2>1, <2>3, <3>1, <3>2 DEF SizeOf
  <2> QED
    BY <2>2, <2>3
<1>17. gs = Filled(es)
  BY <1>2 DEF ds, rest
<1> HIDE DEF es, n
<1>18. SizesAre(es, k, lo + q, s, m)
  BY <1>16 DEF SizesAre
<1>19. DealtAsAsked(Filled(es), n, k, b[1], b[2], wanted, Rounds)
  BY <1>0, <1>3, <1>14, <1>15, <1>18, FilledEvenly
<1> QED
  BY <1>17, <1>19 DEF n, wanted, gs

LEMMA HostsOfSame ==
  ASSUME UNCHANGED Given PROVE \A r : HostsOf(r)' = HostsOf(r)
BY DEF Given, HostsOf, LanHosts

\* What routers may choose depends on what is given only.
LEMMA ChoosersSame ==
  ASSUME UNCHANGED Given
  PROVE  /\ Choosers' = Choosers
         /\ \A r : GroupRange(r)' = GroupRange(r)
         /\ \A q, r : Sooner(q, r)' <=> Sooner(q, r)
<1>1. \A r : HostsOf(r)' = HostsOf(r)
  BY HostsOfSame
<1>2. routersN' = routersN /\ bounds' = bounds
  BY DEF Given
<1>3. Choosers' = Choosers
  BY <1>1, <1>2 DEF Choosers, LanRouters
<1>4. \A r : GroupRange(r)' = GroupRange(r)
  BY <1>1, <1>2 DEF GroupRange
<1>5. \A q, r : Sooner(q, r)' <=> Sooner(q, r)
  BY <1>1, <1>4 DEF Sooner
<1> QED
  BY <1>3, <1>4, <1>5

LEMMA TargetsAre == Sized /\ GivenBounds => Targets = [r \in Choosers |-> Taking(Targets, r)]
<1> SUFFICES ASSUME Sized, GivenBounds PROVE Targets = [r \in Choosers |-> Taking(Targets, r)]
  OBVIOUS
<1>1. PICK T : T = CHOOSE U : U = [q \in Choosers |-> Taking(U, q)]
  OBVIOUS
<1>2. T = [q \in Choosers |-> Taking(T, q)]
  BY <1>1, TargetsExist
<1>3. Targets = T
  BY <1>1 DEF Targets, Taking, SoonerThan
<1> QED
  BY <1>2, <1>3

LEMMA TargetsArePrimed == (Sized /\ GivenBounds => Targets = [r \in Choosers |-> Taking(Targets, r)])'
BY TargetsAre, PTL

\* The choices of the routers are determined.
LEMMA OneTargets ==
  ASSUME Sized, GivenBounds, NEW T, T = [r \in Choosers |-> Taking(T, r)],
         NEW U, U = [r \in Choosers |-> Taking(U, r)]
  PROVE  T = U
<1> DEFINE M == {n \in Nat : \A r \in Choosers : Rank(r) < n => T[r] = U[r]}
<1>1. 0 \in M
  BY RankIsNat
<1>2. ASSUME NEW n \in M PROVE n + 1 \in M
  <2> SUFFICES ASSUME NEW r \in Choosers, Rank(r) < n + 1 PROVE T[r] = U[r]
    OBVIOUS
  <2>1. \A q \in SoonerThan(r) : q \in Choosers /\ Rank(q) < n
    BY RankOfSooner DEF SoonerThan
  <2>2. \A q \in SoonerThan(r) : T[q] = U[q]
    BY <2>1
  <2>3. Taking(T, r) = Taking(U, r)
    BY <2>2, SameTaking
  <2>4. T[r] = Taking(T, r) /\ U[r] = Taking(U, r)
    OBVIOUS
  <2> QED
    BY <2>3, <2>4
<1> HIDE DEF M
<1>3. M = Nat
  BY <1>1, <1>2, NatSets DEF M
<1>4. ASSUME NEW r \in Choosers PROVE T[r] = U[r]
  <2>1. Rank(r) + 1 \in M /\ Rank(r) < Rank(r) + 1
    BY <1>3, RankIsNat
  <2> QED
    BY <2>1 DEF M
<1>5. T = [r \in Choosers |-> T[r]] /\ U = [r \in Choosers |-> U[r]]
  OBVIOUS
<1> QED
  BY <1>4, <1>5

\* So the choices do not change when the state does.
LEMMA TargetsSame ==
  ASSUME GivenOK, UNCHANGED Given PROVE Targets' = Targets
<1>1. PICK U : U = Targets'
  OBVIOUS
<1>2. GivenOK' /\ Choosers' = Choosers
  BY GivenStays, ChoosersSame
<1>3. \A r : (Taking(Targets, r))' = Taking(U, r)
  <2> SUFFICES ASSUME NEW r PROVE (Taking(Targets, r))' = Taking(U, r)
    OBVIOUS
  <2>1. GroupRange(r)' = GroupRange(r) /\ SoonerThan(r)' = SoonerThan(r)
    BY ChoosersSame DEF SoonerThan
  <2>2. {Targets'[q] : q \in SoonerThan(r)'} = {U[q] : q \in SoonerThan(r)}
    BY <1>1, <2>1
  <2>3. GroupRange(r)' \ {Targets'[q] : q \in SoonerThan(r)'} = GroupRange(r) \ {U[q] : q \in SoonerThan(r)}
    BY <2>1, <2>2
  <2> QED
    BY <2>1, <2>3 DEF Taking
<1>4. U = [r \in Choosers |-> Taking(U, r)]
  <2>1. Targets' = [r \in Choosers' |-> (Taking(Targets, r))']
    BY <1>2, TargetsArePrimed DEF GivenOK
  <2> QED
    BY <1>1, <1>2, <1>3, <2>1
<1>5. Targets = [r \in Choosers |-> Taking(Targets, r)]
  BY TargetsAre DEF GivenOK
<1>6. PICK T : T = Targets
  OBVIOUS
<1>7. T = U
  BY <1>4, <1>5, <1>6, OneTargets DEF GivenOK
<1> QED
  BY <1>1, <1>6, <1>7

-----------------------------------------------------------------------------
(* The numbers and sizes of the groups of a router. *)

\* The groups of a router, if sizes are not random.
GroupsFor(r) ==
  IF Single(r) THEN IF HostsOf(r) = <<>> THEN <<>> ELSE <<HostsOf(r)>>
  ELSE Distribute(HostsOf(r), IF policy.mode = "exact" THEN policy.target ELSE Targets[r], bounds[r])

\* The sizes that a group of a router may have.
SizeFits(r, a) ==
  IF policy.mode = "ratio"
  THEN /\ a < CutMost(bounds[r]) + CutLeast(bounds[r]) \/ a = 1
       /\ a >= Min({CutLeast(bounds[r]), Len(HostsOf(r))})
  ELSE a \in {Len(GroupsFor(r)[i]) : i \in DOMAIN GroupsFor(r)}

\* Groups and switches have sizes that fit their router; while hosts are cut off, all
\* groups are within the bounds as long as hosts remain.
SizesFit ==
  /\ \A w \in DOMAIN switches : SizeFits(switches[w].router, Len(switches[w].hosts))
  /\ lan = "lans" => \A i \in DOMAIN groups : SizeFits(router, Len(groups[i]))
  /\ lan = "cut" =>
       /\ policy.mode = "ratio"
       /\ groups = <<>> => uncut = HostsOf(router)
       /\ \A i \in DOMAIN groups :
            IF uncut = <<>> THEN SizeFits(router, Len(groups[i]))
            ELSE Len(groups[i]) \in CutLeast(bounds[router]) .. CutMost(bounds[router])

\* Routers that are done have a switch for each of their groups, those to come none.
SwitchesCounted ==
  policy.mode # "ratio" => \A q \in LanRouters :
    /\ q < router => SwitchesOf(q) = Len(GroupsFor(q))
    /\ q > router \/ (q = router /\ lan \in {"links", "group"}) => SwitchesOf(q) = 0
    /\ q = router /\ lan = "lans" => SwitchesOf(q) + Len(groups) = Len(GroupsFor(q))

SizesKept == routersN # 0 => SizesFit /\ SwitchesCounted

\* Nor do the groups that a router is to have.
LEMMA GroupsSame ==
  ASSUME GivenOK, UNCHANGED Given
  PROVE  /\ \A r : GroupsFor(r)' = GroupsFor(r) /\ HostsOf(r)' = HostsOf(r)
         /\ \A r, a : SizeFits(r, a)' <=> SizeFits(r, a)
<1>1. \A r : HostsOf(r)' = HostsOf(r)
  BY HostsOfSame
<1>2. Targets' = Targets /\ policy' = policy /\ bounds' = bounds /\ routersN' = routersN
  BY TargetsSame DEF Given
<1>3. \A r : Single(r)' <=> Single(r)
  BY <1>1, <1>2 DEF Single
<1>4. \A r : GroupsFor(r)' = GroupsFor(r)
  BY <1>1, <1>2, <1>3 DEF GroupsFor
<1>5. \A r, a : SizeFits(r, a)' <=> SizeFits(r, a)
  BY <1>1, <1>2, <1>4 DEF SizeFits
<1> QED
  BY <1>1, <1>4, <1>5

\* The number of switches of s that router q has.
CountOf(s, q) == Cardinality({w \in DOMAIN s : s[w].router = q})

\* One more switch is one more of its router.
LEMMA CountMore ==
  ASSUME NEW W, NEW s \in Seq(W), NEW w \in W, NEW q
  PROVE  /\ CountOf(s, q) \in Nat
         /\ CountOf(Append(s, w), q) = CountOf(s, q) + IF w.router = q THEN 1 ELSE 0
<1>1. PICK t : t = Append(s, w)
  OBVIOUS
<1> DEFINE n == Len(s)
           B == {i \in DOMAIN s : s[i].router = q}
           C == {i \in DOMAIN t : t[i].router = q}
<1>2. /\ n \in Nat /\ DOMAIN s = 1 .. n /\ DOMAIN t = 1 .. n + 1
      /\ t[n + 1] = w /\ \A i \in 1 .. n : t[i] = s[i]
  BY <1>1
<1> HIDE DEF n
<1>3. IsFiniteSet(B) /\ n + 1 \notin B
  <2>1. IsFiniteSet(1 .. n) /\ B \in SUBSET (1 .. n)
    BY <1>2, FS_Interval
  <2>2. n + 1 \notin 1 .. n
    BY <1>2
  <2>3. IsFiniteSet(B)
    BY <2>1, FS_Subset
  <2> QED
    BY <2>1, <2>2, <2>3
<1>4. \A i \in 1 .. n + 1 : i \in 1 .. n \/ i = n + 1
  BY <1>2
<1>5. \A i \in 1 .. n : i \in 1 .. n + 1
  BY <1>2
<1>6. n + 1 \in 1 .. n + 1
  BY <1>2
<1>7. ASSUME w.router = q PROVE C = B \cup {n + 1}
  <2>1. \A i \in 1 .. n + 1 : t[i].router = q <=> i \in B \cup {n + 1}
    BY <1>2, <1>4, <1>7
  <2> QED
    BY <1>2, <1>5, <1>6, <2>1
<1>8. ASSUME w.router # q PROVE C = B
  <2>1. \A i \in 1 .. n + 1 : t[i].router = q <=> i \in B
    BY <1>2, <1>3, <1>4, <1>8
  <2> QED
    BY <1>2, <1>5, <2>1
<1>9. CountOf(s, q) = Cardinality(B) /\ CountOf(Append(s, w), q) = Cardinality(C)
  BY <1>1 DEF CountOf
<1>10. (w.router = q => C = B \cup {n + 1}) /\ (w.router # q => C = B)
  BY <1>7, <1>8
<1> HIDE DEF B, C
<1>11. Cardinality(B) \in Nat /\ Cardinality(B \cup {n + 1}) = Cardinality(B) + 1
  BY <1>3, FS_CardinalityType, FS_AddElement
<1>12. PICK b \in Nat : b = Cardinality(B)
  BY <1>11
<1>13. CASE w.router = q
  BY <1>9, <1>10, <1>11, <1>13
<1>14. CASE w.router # q
  <2>1. Cardinality(C) = b
    BY <1>10, <1>12, <1>14
  <2>2. b = b + 0
    BY <1>12
  <2> QED
    BY <1>9, <1>12, <1>14, <2>1, <2>2
<1> QED
  BY <1>13, <1>14

LEMMA InitSizes == LanInit => SizesKept
<1> SUFFICES ASSUME LanInit PROVE SizesFit /\ SwitchesCounted
  BY DEF SizesKept
<1>1. switches = <<>> /\ groups = <<>> /\ lan = "links" /\ router = 1 /\ routersN \in Nat
  BY HostLanBounds DEF LanInit
<1>2. \A q : SwitchesOf(q) = 0
  <2>1. \A q : {w \in DOMAIN switches : switches[w].router = q} = {}
    BY <1>1
  <2> QED
    BY <2>1, FS_EmptySet DEF SwitchesOf
<1>3. \A q \in LanRouters : ~(q < router)
  BY <1>1 DEF LanRouters
<1> QED
  BY <1>1, <1>2, <1>3 DEF SizesFit, SwitchesCounted

LEMMA SizesSame ==
  ASSUME GivenOK, SizesKept, UNCHANGED Given,
         groups' = groups, uncut' = uncut, switches' = switches, router' = router,
         \/ lan' = lan
         \/ lan' \notin {"lans", "cut", "links", "group"}
         \/ lan = "links" /\ lan' = "group"
  PROVE  SizesKept'
<1>1. /\ \A r : GroupsFor(r)' = GroupsFor(r) /\ HostsOf(r)' = HostsOf(r)
      /\ \A r, a : SizeFits(r, a)' <=> SizeFits(r, a)
  BY GroupsSame
<1>2. routersN' = routersN /\ LanRouters' = LanRouters /\ policy' = policy /\ bounds' = bounds
      /\ \A q : SwitchesOf(q)' = SwitchesOf(q)
  BY GivenStays DEF SwitchesOf, Given
<1>3. SizesFit => SizesFit'
  BY <1>1, <1>2 DEF SizesFit
<1>4. SwitchesCounted => SwitchesCounted'
  BY <1>1, <1>2 DEF SwitchesCounted
<1> QED
  BY <1>2, <1>3, <1>4 DEF SizesKept

\* Grouping the hosts of a router gives it the groups it is to have.
LEMMA GroupingSizes ==
  ASSUME GivenOK, PhaseOK, SizesKept, UNCHANGED Given, lan = "group", lan' = "lans",
         router' = router, switches' = switches,
         policy.mode # "ratio" => groups' = GroupsFor(router),
         policy.mode = "ratio" /\ routersN # 0 => \A i \in DOMAIN groups' : SizeFits(router, Len(groups'[i])),
         Len(groups') \in Nat
  PROVE  SizesKept'
<1> SUFFICES ASSUME routersN # 0 PROVE SizesFit' /\ SwitchesCounted'
  BY GivenStays DEF SizesKept
<1>1. /\ \A r : GroupsFor(r)' = GroupsFor(r) /\ HostsOf(r)' = HostsOf(r)
      /\ \A r, a : SizeFits(r, a)' <=> SizeFits(r, a)
  BY GroupsSame
<1>2. routersN' = routersN /\ LanRouters' = LanRouters /\ policy' = policy
      /\ \A q : SwitchesOf(q)' = SwitchesOf(q)
  BY GivenStays DEF SwitchesOf
<1>3. SizesFit /\ SwitchesCounted
  BY DEF SizesKept
<1>4. \A i \in DOMAIN groups' : SizeFits(router, Len(groups'[i]))
  BY DEF SizeFits
<1>5. SizesFit'
  BY <1>1, <1>3, <1>4 DEF SizesFit
<1>6. SwitchesCounted'
  <2> SUFFICES ASSUME policy.mode # "ratio", NEW q \in LanRouters
               PROVE  /\ q < router => SwitchesOf(q) = Len(GroupsFor(q))
                      /\ q > router => SwitchesOf(q) = 0
                      /\ q = router => SwitchesOf(q) + Len(groups') = Len(GroupsFor(q))
    BY <1>1, <1>2 DEF SwitchesCounted
  <2>1. q = router => SwitchesOf(q) = 0
    BY <1>3 DEF SwitchesCounted
  <2>2. 0 + Len(groups') = Len(groups')
    OBVIOUS
  <2> QED
    BY <1>3, <2>1, <2>2 DEF SwitchesCounted
<1> QED
  BY <1>5, <1>6

\* Sizes of cuts are counts, and the least is one.
LEMMA CutBounds ==
  ASSUME GivenOK, NEW r \in LanRouters
  PROVE  /\ CutLeast(bounds[r]) \in Nat \ {0} /\ CutMost(bounds[r]) \in Nat
         /\ CutLeast(bounds[r]) <= CutMost(bounds[r])
<1>1. bounds[r][1] \in Nat /\ bounds[r][2] \in Nat
  <2>1. bounds[r] \in Nat \X Nat
    BY DEF GivenOK, GivenBounds
  <2> QED
    BY <2>1
<1>2. CutMost(bounds[r]) \in Nat \ {0}
  BY <1>1 DEF CutMost
<1>3. (IF bounds[r][1] > 0 THEN bounds[r][1] ELSE 2) \in Nat \ {0}
  BY <1>1
<1> QED
  BY <1>2, <1>3, LeastOfTwo DEF CutLeast

LEMMA GroupAllSizes ==
  ASSUME GivenOK, PhaseOK, SizesKept, GroupAll PROVE SizesKept'
<1>1. /\ UNCHANGED Given /\ lan = "group" /\ lan' = "lans" /\ router' = router /\ switches' = switches
      /\ groups' = (IF HostsOf(router) = <<>> THEN <<>> ELSE <<HostsOf(router)>>)
      /\ Single(router)
  BY DEF GroupAll, Drawing
<1>2. policy.mode # "ratio" => groups' = GroupsFor(router)
  BY <1>1 DEF GroupsFor
<1>3. Sized /\ router \in 1 .. LastRouter
  BY LastOfRouters DEF GivenOK, PhaseOK, GroupAll, Sized
<1>4. HostsOf(router) \in Seq(LanHosts)
  BY <1>3, HostsTyped
<1>5. ASSUME policy.mode = "ratio", routersN # 0, NEW i \in DOMAIN groups'
      PROVE  SizeFits(router, Len(groups'[i]))
  <2>1. HostsOf(router) # <<>> /\ groups'[i] = HostsOf(router)
    BY <1>1, <1>5
  <2>2. Len(HostsOf(router)) = 1
    BY <1>1, <1>4, <1>5, <2>1 DEF Single
  <2>3. CutLeast(bounds[router]) \in Nat
    <3>1. router \in LanRouters
      BY <1>3, <1>5, LastOfRouters DEF LanRouters, Sized
    <3> QED
      BY <3>1, CutBounds
  <2>4. 1 >= Min({CutLeast(bounds[router]), 1})
    BY <2>3, LeastOfTwo
  <2> QED
    BY <1>5, <2>1, <2>2, <2>4 DEF SizeFits
<1>6. Len(groups') \in Nat
  BY <1>1
<1> QED
  BY <1>1, <1>2, <1>5, <1>6, GroupingSizes

LEMMA GroupExactlySizes ==
  ASSUME GivenOK, PhaseOK, SizesKept, HostsKept', GroupExactly PROVE SizesKept'
<1>1. /\ UNCHANGED Given /\ lan = "group" /\ lan' = "lans" /\ router' = router /\ switches' = switches
      /\ groups' = GroupsFor(router) /\ policy.mode # "ratio"
  BY DEF GroupExactly, GroupsFor, Drawing
<1>2. Len(groups') \in Nat
  BY DEF HostsKept
<1> QED
  BY <1>1, <1>2, GroupingSizes

LEMMA BeginCutsSizes ==
  ASSUME GivenOK, PhaseOK, SizesKept, BeginCuts PROVE SizesKept'
<1>1. /\ UNCHANGED Given /\ lan = "group" /\ lan' = "cut" /\ router' = router /\ switches' = switches
      /\ uncut' = HostsOf(router) /\ groups' = <<>> /\ policy.mode = "ratio"
  BY DEF BeginCuts, Drawing
<1>2. /\ \A r : GroupsFor(r)' = GroupsFor(r) /\ HostsOf(r)' = HostsOf(r)
      /\ \A r, a : SizeFits(r, a)' <=> SizeFits(r, a)
  BY <1>1, GroupsSame
<1>3. routersN' = routersN /\ policy' = policy
  BY <1>1, GivenStays
<1>4. SizesFit => SizesFit'
  BY <1>1, <1>2, <1>3 DEF SizesFit
<1>5. SwitchesCounted'
  BY <1>1, <1>3 DEF SwitchesCounted
<1> QED
  BY <1>3, <1>4, <1>5 DEF SizesKept

LEMMA CutsDoneSizes ==
  ASSUME GivenOK, PhaseOK, SizesKept, CutsDone PROVE SizesKept'
<1>1. /\ UNCHANGED Given /\ lan = "cut" /\ lan' = "lans" /\ router' = router /\ switches' = switches
      /\ uncut' = uncut /\ groups' = groups /\ uncut = <<>>
  BY DEF CutsDone, Drawing
<1>2. /\ \A r : GroupsFor(r)' = GroupsFor(r) /\ HostsOf(r)' = HostsOf(r)
      /\ \A r, a : SizeFits(r, a)' <=> SizeFits(r, a)
  BY <1>1, GroupsSame
<1>3. routersN' = routersN /\ policy' = policy
  BY <1>1, GivenStays
<1> SUFFICES ASSUME routersN # 0, SizesFit, SwitchesCounted PROVE SizesFit' /\ SwitchesCounted'
  BY <1>3 DEF SizesKept
<1>4. SizesFit'
  BY <1>1, <1>2, <1>3 DEF SizesFit
<1>5. SwitchesCounted'
  BY <1>1, <1>3 DEF SwitchesCounted, SizesFit
<1> QED
  BY <1>4, <1>5

LEMMA RouterOf ==
  ASSUME GivenOK, PhaseOK, routersN # 0, lan \in {"group", "cut", "lans"}
  PROVE  router \in LanRouters /\ router \in 1 .. LastRouter /\ Sized
BY LastOfRouters DEF GivenOK, PhaseOK, Sized, LanRouters

\* A size within the bounds fits.
LEMMA FitsWithin ==
  ASSUME GivenOK, NEW r \in LanRouters, r \in 1 .. LastRouter, policy.mode = "ratio",
         NEW a \in CutLeast(bounds[r]) .. CutMost(bounds[r])
  PROVE  SizeFits(r, a)
<1>1. CutLeast(bounds[r]) \in Nat \ {0} /\ CutMost(bounds[r]) \in Nat
  BY CutBounds
<1>2. Len(HostsOf(r)) \in Nat
  BY HostsTyped DEF GivenOK
<1>3. Min({CutLeast(bounds[r]), Len(HostsOf(r))}) <= CutLeast(bounds[r])
      /\ Min({CutLeast(bounds[r]), Len(HostsOf(r))}) \in Nat
  BY <1>1, <1>2, LeastOfTwo
<1>4. a < CutMost(bounds[r]) + CutLeast(bounds[r]) /\ a >= CutLeast(bounds[r])
  BY <1>1
<1>5. a >= Min({CutLeast(bounds[r]), Len(HostsOf(r))})
  BY <1>1, <1>3, <1>4
<1> QED
  BY <1>4, <1>5 DEF SizeFits

\* What is too little for a group of its own.
LEMMA FitsWithLittle ==
  ASSUME GivenOK, NEW r \in LanRouters, r \in 1 .. LastRouter, policy.mode = "ratio",
         NEW n \in Nat, n < CutLeast(bounds[r]),
         NEW a \in Nat,
         \/ a = n /\ n = Len(HostsOf(r))
         \/ \E g \in CutLeast(bounds[r]) .. CutMost(bounds[r]) : a = g + n
  PROVE  SizeFits(r, a)
<1> DEFINE lo == CutLeast(bounds[r])
           hi == CutMost(bounds[r])
           x == Len(HostsOf(r))
<1>1. lo \in Nat \ {0} /\ hi \in Nat /\ lo <= hi
  BY CutBounds
<1>2. x \in Nat
  BY HostsTyped DEF GivenOK
<1>3. Min({lo, x}) = IF lo <= x THEN lo ELSE x
  BY <1>1, <1>2, LeastOfTwo
<1>4. n < lo /\ ((a = n /\ n = x) \/ \E g \in lo .. hi : a = g + n)
  OBVIOUS
<1> HIDE DEF lo, hi, x
<1>5. a < hi + lo /\ a >= Min({lo, x})
  <2>1. CASE a = n /\ n = x
    BY <1>1, <1>3, <1>4, <2>1
  <2>2. CASE \E g \in lo .. hi : a = g + n
    <3>1. PICK g \in lo .. hi : a = g + n
      BY <2>2
    <3>2. a < hi + lo /\ a >= lo
      BY <1>1, <1>4, <3>1
    <3> QED
      BY <1>1, <1>2, <1>3, <3>2
  <2> QED
    BY <1>4, <2>1, <2>2
<1> QED
  BY <1>5 DEF SizeFits, lo, hi, x

LEMMA CutSizes ==
  ASSUME GivenOK, PhaseOK, HostsKept, SizesKept, Cut PROVE SizesKept'
<1> DEFINE lo == CutLeast(bounds[router])
           hi == CutMost(bounds[router])
<1>1. /\ UNCHANGED Given /\ lan = "cut" /\ lan' = "cut" /\ router' = router
      /\ switches' = switches /\ uncut # <<>> /\ routersN # 0
  BY DEF Cut, Drawing, PhaseOK
<1>2. /\ \A r : GroupsFor(r)' = GroupsFor(r) /\ HostsOf(r)' = HostsOf(r)
      /\ \A r, a : SizeFits(r, a)' <=> SizeFits(r, a)
  BY <1>1, GroupsSame
<1>3. policy' = policy /\ bounds' = bounds /\ routersN' = routersN
  BY <1>1 DEF Given
<1>4. SizesFit /\ SwitchesCounted
  BY <1>1 DEF SizesKept
<1>5. policy.mode = "ratio" /\ router \in LanRouters /\ router \in 1 .. LastRouter
  BY <1>1, <1>4, RouterOf DEF SizesFit
<1>6. SwitchesCounted'
  BY <1>3, <1>5 DEF SwitchesCounted
<1>7. groups \in Seq(Seq(LanHosts)) /\ uncut \in Seq(LanHosts)
  BY DEF HostsKept
<1>8. PICK n \in Nat : n = Len(uncut)
  BY <1>7
<1>9. /\ \A i \in DOMAIN groups : Len(groups[i]) \in lo .. hi
      /\ groups = <<>> => n = Len(HostsOf(router))
  BY <1>1, <1>4, <1>8 DEF SizesFit
<1>10. lo \in Nat \ {0} /\ hi \in Nat
  BY <1>5, CutBounds
<1>11. \A a \in lo .. hi : SizeFits(router, a)
  BY <1>5, FitsWithin
<1>12. \/ n \in lo .. hi /\ groups' = Append(groups, uncut) /\ uncut' = <<>>
       \/ /\ n < lo
          /\ groups' = (IF groups = <<>> THEN <<uncut>> ELSE [groups EXCEPT ![Len(groups)] = @ \o uncut])
          /\ uncut' = <<>>
       \/ n > hi /\ \E size \in lo .. hi :
            groups' = Append(groups, SubSeq(uncut, 1, size)) /\ uncut' = SubSeq(uncut, size + 1, n)
  BY <1>8 DEF Cut
<1> HIDE DEF lo, hi
\* A further group within the bounds.
<1>13. ASSUME NEW g \in Seq(LanHosts), Len(g) \in lo .. hi, groups' = Append(groups, g)
       PROVE  groups' # <<>> /\ \A i \in DOMAIN groups' : Len(groups'[i]) \in lo .. hi
  <2> DEFINE m == Len(groups)
  <2>1. /\ m \in Nat /\ DOMAIN groups' = 1 .. m + 1 /\ groups'[m + 1] = g
        /\ \A i \in 1 .. m : groups'[i] = groups[i] /\ i \in DOMAIN groups
    BY <1>7, <1>13
  <2> HIDE DEF m
  <2>2. \A i \in 1 .. m + 1 : i = m + 1 \/ i \in 1 .. m
    BY <2>1
  <2>3. m + 1 \in DOMAIN groups'
    BY <2>1
  <2> QED
    BY <1>9, <1>13, <2>1, <2>2, <2>3
<1>14. /\ groups' # <<>>
       /\ \A i \in DOMAIN groups' : SizeFits(router, Len(groups'[i]))
       /\ uncut' # <<>> => \A i \in DOMAIN groups' : Len(groups'[i]) \in lo .. hi
  <2>1. CASE n \in lo .. hi /\ groups' = Append(groups, uncut) /\ uncut' = <<>>
    BY <1>7, <1>8, <1>11, <1>13, <2>1
  <2>2. CASE /\ n < lo
             /\ groups' = (IF groups = <<>> THEN <<uncut>> ELSE [groups EXCEPT ![Len(groups)] = @ \o uncut])
             /\ uncut' = <<>>
    <3>0. \A a \in Nat : (a = n /\ n = Len(HostsOf(router))) \/ (\E g \in lo .. hi : a = g + n) => SizeFits(router, a)
      BY <1>5, <2>2, FitsWithLittle DEF lo, hi
    <3>1. CASE groups = <<>>
      <4>1. groups' = <<uncut>>
        BY <2>2, <3>1
      <4>2. SizeFits(router, n)
        BY <1>9, <3>0, <3>1
      <4>3. DOMAIN groups' = {1} /\ groups'[1] = uncut /\ groups' # <<>>
        BY <4>1
      <4> QED
        BY <1>8, <2>2, <4>2, <4>3
    <3>2. CASE groups # <<>>
      <4> DEFINE m == Len(groups)
      <4>1. m \in DOMAIN groups /\ groups[m] \in Seq(LanHosts)
        BY <1>7, <3>2
      <4>2. /\ DOMAIN groups' = DOMAIN groups /\ groups'[m] = groups[m] \o uncut
            /\ \A i \in DOMAIN groups : i # m => groups'[i] = groups[i]
        BY <1>7, <2>2, <3>2, <4>1
      <4>3. Len(groups[m] \o uncut) = Len(groups[m]) + n
        BY <1>7, <1>8, <4>1
      <4> HIDE DEF m
      <4>4. Len(groups[m]) \in lo .. hi
        BY <1>9, <4>1
      <4>5. PICK g \in lo .. hi : g = Len(groups[m])
        BY <4>4
      <4>6. g + n \in Nat
        BY <1>10
      <4>7. SizeFits(router, g + n)
        BY <3>0, <4>6
      <4>8. Len(groups'[m]) = g + n
        BY <4>2, <4>3, <4>5
      <4>9. ASSUME NEW i \in DOMAIN groups' PROVE SizeFits(router, Len(groups'[i]))
        <5>1. CASE i = m
          BY <4>7, <4>8, <5>1
        <5>2. CASE i # m
          <6>1. groups'[i] = groups[i] /\ i \in DOMAIN groups
            BY <4>2, <5>2
          <6> QED
            BY <1>9, <1>11, <6>1
        <5> QED
          BY <5>1, <5>2
      <4>10. groups' # <<>>
        BY <4>1, <4>2
      <4> QED
        BY <2>2, <4>9, <4>10
    <3> QED
      BY <3>1, <3>2
  <2>3. CASE n > hi /\ \E size \in lo .. hi :
               groups' = Append(groups, SubSeq(uncut, 1, size)) /\ uncut' = SubSeq(uncut, size + 1, n)
    <3>1. PICK size \in lo .. hi : groups' = Append(groups, SubSeq(uncut, 1, size))
      BY <2>3
    <3>2. size \in Nat /\ size <= n
      BY <1>10, <2>3
    <3>3. SubSeq(uncut, 1, size) \in Seq(LanHosts) /\ Len(SubSeq(uncut, 1, size)) = size
      <4>1. \A i \in 1 .. size : uncut[i] \in LanHosts
        <5>1. \A i \in 1 .. size : i \in 1 .. n
          BY <3>2
        <5> QED
          BY <1>7, <1>8, <5>1
      <4>2. SubSeq(uncut, 1, size) \in Seq(LanHosts) /\ Len(SubSeq(uncut, 1, size)) = IF 1 <= size THEN size - 1 + 1 ELSE 0
        BY <3>2, <4>1, SubSeqProperties
      <4>3. (IF 1 <= size THEN size - 1 + 1 ELSE 0) = size
        BY <3>2
      <4> QED
        BY <4>2, <4>3
    <3> QED
      BY <1>11, <1>13, <3>1, <3>3
  <2> QED
    BY <1>12, <2>1, <2>2, <2>3
<1>15. SizesFit'
  BY <1>1, <1>2, <1>3, <1>4, <1>14 DEF SizesFit, lo, hi
<1> QED
  BY <1>6, <1>15 DEF SizesKept

LEMMA DrawLanSizes ==
  ASSUME GivenOK, PhaseOK, HostsKept, SizesKept, DrawLan PROVE SizesKept'
<1>1. /\ UNCHANGED Given /\ lan = "lans" /\ lan' = "lans" /\ router' = router
      /\ groups # <<>> /\ groups' = Tail(groups)
  BY DEF DrawLan
<1>2. /\ \A r : GroupsFor(r)' = GroupsFor(r) /\ HostsOf(r)' = HostsOf(r)
      /\ \A r, a : SizeFits(r, a)' <=> SizeFits(r, a)
  BY <1>1, GroupsSame
<1>3. policy' = policy /\ routersN' = routersN /\ LanRouters' = LanRouters
  BY <1>1, GivenStays
<1> SUFFICES ASSUME routersN # 0, SizesFit, SwitchesCounted PROVE SizesFit' /\ SwitchesCounted'
  BY <1>3 DEF SizesKept
<1>4. PICK s \in Slots \ Reserved : switches' = Append(switches,
            [router |-> IF routersN = 0 THEN Star ELSE router, hosts |-> Head(groups), subnet |-> s])
  BY DEF DrawLan
<1>5. PICK w : w = [router |-> router, hosts |-> Head(groups), subnet |-> s]
  OBVIOUS
<1>6. router \in LanRouters /\ groups \in Seq(Seq(LanHosts)) /\ switches \in Seq(LanSwitches)
  BY <1>1, RouterOf DEF HostsKept
<1>7. /\ Head(groups) = groups[1] /\ Head(groups) \in Seq(LanHosts) /\ Len(groups) \in Nat /\ Len(groups') = Len(groups) - 1
      /\ 1 \in DOMAIN groups /\ \A i \in DOMAIN groups' : i + 1 \in DOMAIN groups /\ groups'[i] = groups[i + 1]
  BY <1>1, <1>6
<1>8. w \in LanSwitches /\ switches' = Append(switches, w) /\ w.router = router /\ w.hosts = groups[1]
  BY <1>4, <1>5, <1>6, <1>7 DEF LanSwitches
<1>9. SizesFit'
  <2>1. ASSUME NEW v \in DOMAIN switches' PROVE SizeFits(switches'[v].router, Len(switches'[v].hosts))
    <3> DEFINE m == Len(switches)
    <3>1. m \in Nat /\ DOMAIN switches' = 1 .. m + 1 /\ switches'[m + 1] = w
          /\ \A i \in 1 .. m : switches'[i] = switches[i] /\ i \in DOMAIN switches
      BY <1>6, <1>8
    <3> HIDE DEF m
    <3>2. CASE v = m + 1
      BY <1>1, <1>7, <1>8, <3>1, <3>2 DEF SizesFit
    <3>3. CASE v # m + 1
      <4>1. v \in 1 .. m
        BY <3>1, <3>3
      <4> QED
        BY <3>1, <4>1 DEF SizesFit
    <3> QED
      BY <3>2, <3>3
  <2>2. \A i \in DOMAIN groups' : SizeFits(router, Len(groups'[i]))
    BY <1>1, <1>7 DEF SizesFit
  <2> QED
    BY <1>1, <1>2, <2>1, <2>2 DEF SizesFit
<1>10. SwitchesCounted'
  <2> SUFFICES ASSUME policy.mode # "ratio", NEW q \in LanRouters
               PROVE  /\ q < router => SwitchesOf(q)' = Len(GroupsFor(q))
                      /\ q > router => SwitchesOf(q)' = 0
                      /\ q = router => SwitchesOf(q)' + Len(groups') = Len(GroupsFor(q))
    BY <1>1, <1>2, <1>3 DEF SwitchesCounted
  <2>1. /\ q < router => SwitchesOf(q) = Len(GroupsFor(q))
        /\ q > router => SwitchesOf(q) = 0
        /\ q = router => SwitchesOf(q) + Len(groups) = Len(GroupsFor(q))
    BY <1>1 DEF SwitchesCounted
  <2>2. PICK b : b = SwitchesOf(q)
    OBVIOUS
  <2>3. PICK c : c = SwitchesOf(q)'
    OBVIOUS
  <2>4. b = CountOf(switches, q) /\ c = CountOf(Append(switches, w), q)
    BY <1>8, <2>2, <2>3 DEF SwitchesOf, CountOf
  <2>5. b \in Nat /\ c = b + IF router = q THEN 1 ELSE 0
    BY <1>6, <1>8, <2>4, CountMore
  <2>6. router \in Nat /\ q \in Nat
    BY <1>6 DEF LanRouters
  <2>7. CASE q = router
    <3>1. c = b + 1
      BY <2>5, <2>7
    <3> QED
      BY <1>7, <2>1, <2>2, <2>3, <2>5, <2>6, <2>7, <3>1
  <2>8. CASE q # router
    <3>1. c = b
      BY <2>5, <2>8
    <3> QED
      BY <2>1, <2>2, <2>3, <2>8, <3>1
  <2> QED
    BY <2>7, <2>8
<1> QED
  BY <1>9, <1>10

LEMMA CountIsNat ==
  ASSUME HostsKept, NEW q PROVE SwitchesOf(q) \in Nat
<1>1. switches \in Seq(LanSwitches)
  BY DEF HostsKept
<1>2. DOMAIN switches = 1 .. Len(switches) /\ Len(switches) \in Nat
  BY <1>1
<1>3. {w \in DOMAIN switches : switches[w].router = q} \in SUBSET (1 .. Len(switches))
  BY <1>2
<1>4. IsFiniteSet(1 .. Len(switches))
  BY <1>2, FS_Interval
<1>5. IsFiniteSet({w \in DOMAIN switches : switches[w].router = q})
  BY <1>3, <1>4, FS_Subset
<1> QED
  BY <1>5, FS_CardinalityType DEF SwitchesOf

LEMMA NoLanSizes ==
  ASSUME GivenOK, PhaseOK, SizesKept, NoLan PROVE SizesKept'
<1>1. UNCHANGED Given /\ router' = router /\ uncut' = uncut /\ routersN \in Nat
  BY DEF NoLan, GivenOK, Sized
<1>2. CASE routersN > 0
  <2>1. lan' = "failed" /\ switches' = switches /\ groups' = groups
    BY <1>2 DEF NoLan
  <2> QED
    BY <1>1, <2>1, SizesSame
<1>3. CASE routersN = 0
  BY <1>1, <1>3 DEF SizesKept, Given
<1> QED
  BY <1>1, <1>2, <1>3

LEMMA NextRouterSizes ==
  ASSUME GivenOK, PhaseOK, HostsKept, SizesKept, NextRouter PROVE SizesKept'
<1>1. /\ UNCHANGED Given /\ lan = "lans" /\ router' = router + 1 /\ switches' = switches
      /\ groups = <<>> /\ lan' = IF router < LastRouter THEN "group" ELSE "number"
  BY DEF NextRouter, Drawing
<1>2. /\ \A r : GroupsFor(r)' = GroupsFor(r) /\ HostsOf(r)' = HostsOf(r)
      /\ \A r, a : SizeFits(r, a)' <=> SizeFits(r, a)
  BY <1>1, GroupsSame
<1>3. /\ policy' = policy /\ routersN' = routersN /\ LanRouters' = LanRouters
      /\ \A q : SwitchesOf(q)' = SwitchesOf(q)
  BY <1>1, GivenStays DEF SwitchesOf
<1> SUFFICES ASSUME routersN # 0, SizesFit, SwitchesCounted PROVE SizesFit' /\ SwitchesCounted'
  BY <1>3 DEF SizesKept
<1>4. lan' \in {"group", "number"} /\ router \in Nat
  BY <1>1, RouterOf DEF LanRouters
<1>5. SizesFit'
  BY <1>1, <1>2, <1>3, <1>4 DEF SizesFit
<1>6. SwitchesCounted'
  <2> SUFFICES ASSUME policy.mode # "ratio", NEW q \in LanRouters
               PROVE  /\ q < router + 1 => SwitchesOf(q) = Len(GroupsFor(q))
                      /\ q > router + 1 \/ q = router + 1 => SwitchesOf(q) = 0
    BY <1>1, <1>2, <1>3, <1>4 DEF SwitchesCounted
  <2>1. /\ q < router => SwitchesOf(q) = Len(GroupsFor(q))
        /\ q > router => SwitchesOf(q) = 0
        /\ q = router => SwitchesOf(q) + Len(groups) = Len(GroupsFor(q))
    BY <1>1 DEF SwitchesCounted
  <2>2. q \in Nat /\ Len(groups) = 0
    BY <1>1 DEF LanRouters
  <2>3. q = router => SwitchesOf(q) = Len(GroupsFor(q))
    <3>1. SwitchesOf(q) \in Nat
      BY CountIsNat
    <3> QED
      BY <2>1, <2>2, <3>1
  <2> QED
    BY <1>4, <2>1, <2>2, <2>3
<1> QED
  BY <1>5, <1>6

\* What a step does not touch.
LEMMA OtherSizes ==
  ASSUME GivenOK, PhaseOK, SizesKept,
         \/ DrawInVain \/ DrawLink \/ FallbackLink \/ LinksDone
         \/ NumberHost \/ NumberRouter \/ NumbersDone \/ UNCHANGED lanVars
  PROVE  SizesKept'
<1>1. /\ UNCHANGED Given /\ UNCHANGED <<router, uncut, groups, switches>>
      /\ \/ lan' = lan
         \/ lan' \notin {"lans", "cut", "links", "group"}
         \/ lan = "links" /\ lan' = "group"
  BY DEF DrawInVain, DrawLink, FallbackLink, LinksDone, NumberHost, NumberRouter, NumbersDone,
         lanVars, Drawing, Given
<1> QED
  BY <1>1, SizesSame

\* No step leaves a router with other numbers or sizes than those it is to have.
LEMMA SizesStay ==
  ASSUME GivenOK, PhaseOK, HostsKept, SizesKept, HostsKept', [LanNext]_lanVars PROVE SizesKept'
BY OtherSizes, GroupAllSizes, GroupExactlySizes, BeginCutsSizes, CutSizes, CutsDoneSizes,
   DrawLanSizes, NoLanSizes, NextRouterSizes
   DEF LanNext

LEMMA SizesAreKept == LanSpec => [](LanInv /\ SizesKept)
<1>1. LanInit => SizesKept
  BY InitSizes
<1>2. LanInv /\ LanInv' /\ SizesKept /\ [LanNext]_lanVars => SizesKept'
  BY SizesStay DEF LanInv
<1> QED
  BY <1>1, <1>2, LansKept, PTL DEF LanSpec

-----------------------------------------------------------------------------
(* The groups are what was asked for. *)

LEMMA RouterIsDone ==
  ASSUME LanInv, Grouped, NEW r \in LanRouters
  PROVE  /\ routersN # 0 /\ r \in 1 .. LastRouter /\ r < router
         /\ Len(HostsOf(r)) \in Nat /\ bounds[r] \in Nat \X Nat
<1>1. GivenOK /\ PhaseOK /\ Sized
  BY DEF LanInv, GivenOK
<1>2. routersN # 0 /\ r \in 1 .. LastRouter /\ LastRouter = routersN /\ r \in Nat
  BY <1>1, LastOfRouters DEF LanRouters, Sized
<1>3. router = LastRouter + 1
  BY <1>1 DEF PhaseOK, Grouped
<1> QED
  BY <1>1, <1>2, <1>3, HostsTyped DEF Sized, GivenOK, GivenBounds

LEMMA GroupedSizes ==
  ASSUME LanInv, SizesKept, Grouped, NEW r \in LanRouters
  PROVE  /\ policy.mode # "ratio" => SwitchesOf(r) = Len(GroupsFor(r))
         /\ \A a \in SizesOf(r) : SizeFits(r, a)
<1>1. routersN # 0 /\ r < router
  BY RouterIsDone
<1>2. SizesFit /\ SwitchesCounted
  BY <1>1 DEF SizesKept
<1>3. switches \in Seq(LanSwitches)
  BY DEF LanInv, HostsKept
<1>4. \A a \in SizesOf(r) : SizeFits(r, a)
  <2> SUFFICES ASSUME NEW w \in Range(switches), w.router = r PROVE SizeFits(r, Len(w.hosts))
    BY DEF SizesOf
  <2>1. PICK i \in DOMAIN switches : w = switches[i]
    BY DEF Range
  <2> QED
    BY <1>2, <2>1 DEF SizesFit
<1> QED
  BY <1>1, <1>2, <1>4 DEF SwitchesCounted

\* A router with two hosts or more has them dealt in the modes other than "ratio".
LEMMA GroupsAreDealt ==
  ASSUME LanInv, Grouped, NEW r \in LanRouters, ~Single(r),
         NEW k \in Nat \ {0}, k = IF policy.mode = "exact" THEN policy.target ELSE Targets[r]
  PROVE  DealtAsAsked(GroupsFor(r), Len(HostsOf(r)), k, bounds[r][1], bounds[r][2],
                      IF bounds[r][1] > 0 THEN bounds[r][1] ELSE 1, Rounds)
<1> DEFINE H == HostsOf(r)
<1>1. routersN # 0 /\ r \in 1 .. LastRouter /\ Len(H) \in Nat /\ bounds[r] \in Nat \X Nat /\ Sized
  BY RouterIsDone DEF LanInv, GivenOK
<1>2. H \in Seq(LanHosts) /\ IsInjective(H)
  BY <1>1, HostsTyped
<1>3. Len(H) >= 2
  BY <1>1 DEF Single
<1>4. GroupsFor(r) = Distribute(H, k, bounds[r])
  BY DEF GroupsFor
<1> HIDE DEF H
<1>5. OnceEach(Append(<<>>, H), Range(H)) /\ H \in Seq(Range(H)) /\ H # <<>>
  BY <1>2, <1>3, OneGroup DEF Range
<1>6. DealtAsAsked(Distribute(H, k, bounds[r]), Len(H), k, bounds[r][1], bounds[r][2],
                   IF bounds[r][1] > 0 THEN bounds[r][1] ELSE 1, Rounds)
  BY <1>1, <1>5, DistributedEvenly
<1> QED
  BY <1>4, <1>6 DEF H

LEMMA ExactlyHolds == LanInv /\ SizesKept => ExactlyAsAsked
<1> SUFFICES ASSUME LanInv, SizesKept, Grouped, policy.mode = "exact", policy.target > 1, NEW r \in LanRouters
             PROVE  LET n == Len(HostsOf(r)) k == policy.target lo == bounds[r][1] hi == bounds[r][2]
                        kept == k * Max({1, lo}) <= n IN
                    /\ SwitchesOf(r) = Min({n, k})
                    /\ lo <= hi /\ kept /\ n <= k * hi /\ n <= k * (Max({1, lo}) + Rounds) => SizesOf(r) \subseteq lo .. hi
                    /\ hi = 0 /\ n <= k * ((IF kept THEN Max({1, lo}) ELSE 1) + Rounds) => \A a, b \in SizesOf(r) : a <= b + 1
  BY DEF ExactlyAsAsked
<1> DEFINE n == Len(HostsOf(r))
           k == policy.target
           lo == bounds[r][1]
           hi == bounds[r][2]
           kept == k * Max({1, lo}) <= n
<1>1. routersN # 0 /\ n \in Nat /\ lo \in Nat /\ hi \in Nat /\ k \in Nat \ {0} /\ k > 1
  BY RouterIsDone DEF LanInv, GivenOK
<1>2. kept <=> k * Max({1, lo}) <= n
  OBVIOUS
<1>3. n = Len(HostsOf(r)) /\ k = policy.target /\ lo = bounds[r][1] /\ hi = bounds[r][2]
  OBVIOUS
<1> SUFFICES /\ SwitchesOf(r) = Min({n, k})
             /\ lo <= hi /\ kept /\ n <= k * hi /\ n <= k * (Max({1, lo}) + Rounds) => SizesOf(r) \subseteq lo .. hi
             /\ hi = 0 /\ n <= k * ((IF kept THEN Max({1, lo}) ELSE 1) + Rounds) => \A a, b \in SizesOf(r) : a <= b + 1
  OBVIOUS
<1> HIDE DEF n, k, lo, hi, kept
<1>4. Max({1, lo}) = IF lo > 0 THEN lo ELSE 1
  <2>1. Max({1, lo}) = IF 1 >= lo THEN 1 ELSE lo
    BY <1>1, GreatestOfTwo
  <2> QED
    BY <1>1, <2>1
<1>5. Min({n, k}) = IF n <= k THEN n ELSE k
  BY <1>1, LeastOfTwo
<1>6. SwitchesOf(r) = Len(GroupsFor(r))
  BY GroupedSizes
<1>7. \A a \in SizesOf(r) : \E i \in DOMAIN GroupsFor(r) : a = Len(GroupsFor(r)[i])
  BY GroupedSizes DEF SizeFits
<1>8. CASE Single(r)
  <2>1. n < 2
    BY <1>1, <1>3, <1>8 DEF Single
  <2>2. GroupsFor(r) = IF HostsOf(r) = <<>> THEN <<>> ELSE <<HostsOf(r)>>
    BY <1>8 DEF GroupsFor
  <2>3. HostsOf(r) \in Seq(LanHosts)
    BY RouterIsDone, HostsTyped DEF LanInv, GivenOK
  <2>4. CASE n = 0
    <3>1. HostsOf(r) = <<>>
      <4>1. Len(HostsOf(r)) = 0
        BY <2>4, <1>3
      <4> QED
        BY <2>3, <4>1
    <3>2. SizesOf(r) = {} /\ SwitchesOf(r) = 0
      BY <1>6, <1>7, <2>2, <3>1
    <3> QED
      BY <1>1, <1>5, <2>4, <3>2
  <2>5. CASE n = 1
    <3>1. HostsOf(r) # <<>>
      BY <2>5, <1>3
    <3>2. GroupsFor(r) = <<HostsOf(r)>>
      BY <2>2, <3>1
    <3>3. SwitchesOf(r) = 1 /\ \A a \in SizesOf(r) : a = 1
      <4>1. PICK g : g = HostsOf(r)
        OBVIOUS
      <4>2. GroupsFor(r) = <<g>> /\ Len(g) = 1
        BY <1>3, <2>5, <3>2, <4>1
      <4>3. Len(<<g>>) = 1 /\ DOMAIN <<g>> = {1} /\ <<g>>[1] = g
        OBVIOUS
      <4> QED
        BY <1>6, <1>7, <4>2, <4>3
    <3>4. PICK w \in Nat \ {0} : w = Max({1, lo})
      BY <1>1, <1>4
    <3>5. kept => k * w <= 1
      BY <1>2, <2>5, <3>4
    <3>6. k * w >= k
      BY <1>1
    <3>7. ~kept
      BY <1>1, <3>4, <3>5, <3>6
    <3> QED
      BY <1>1, <1>5, <2>5, <3>3, <3>7
  <2> QED
    BY <1>1, <2>1, <2>4, <2>5
<1>9. CASE ~Single(r)
  <2>1. PICK gs : gs = GroupsFor(r)
    OBVIOUS
  <2>2. PICK wanted : wanted = IF lo > 0 THEN lo ELSE 1
    OBVIOUS
  <2>3. DealtAsAsked(gs, n, k, lo, hi, wanted, Rounds)
    BY <1>1, <1>3, <1>9, <2>1, <2>2, GroupsAreDealt
  <2>4. wanted = Max({1, lo})
    BY <1>4, <2>2
  <2> HIDE DEF DealtAsAsked
  <2>5. /\ Len(gs) = IF n <= k THEN n ELSE k
        /\ lo <= hi /\ kept /\ n <= k * hi /\ n <= k * (wanted + Rounds) =>
             \A i \in DOMAIN gs : Len(gs[i]) \in lo .. hi
        /\ hi = 0 /\ n <= k * ((IF kept THEN wanted ELSE 1) + Rounds) =>
             \A i, j \in DOMAIN gs : Len(gs[i]) <= Len(gs[j]) + 1
    BY <1>2, <2>3, <2>4 DEF DealtAsAsked
  <2> QED
    BY <1>5, <1>6, <1>7, <2>1, <2>4, <2>5
<1> QED
  BY <1>8, <1>9

LEMMA WithinHolds == LanInv /\ SizesKept => SizesWithinBounds
BY GroupedSizes DEF SizesWithinBounds, SizeFits

\* Without an upper bound a router may have any number of groups up to some number.
LEMMA FreeRange ==
  ASSUME Sized, GivenBounds, NEW r \in Choosers, bounds[r][2] = 0
  PROVE  \E m \in Nat \ {0} : GroupRange(r) = 1 .. m /\ m <= Len(HostsOf(r))
<1> DEFINE n == Len(HostsOf(r))
           lo == IF bounds[r][1] > 0 THEN bounds[r][1] ELSE 2
           most == IF lo > n THEN 1 ELSE n \div lo
<1>1. n \in Nat /\ n >= 2 /\ r \in LanRouters
  BY RangeOfGroups DEF Choosers
<1>2. bounds[r][1] \in Nat
  BY <1>1 DEF GivenBounds
<1>3. GroupRange(r) = Max({1, Ceiling(n, n)}) .. Max({Max({1, Ceiling(n, n)}), most})
  BY DEF GroupRange
<1> HIDE DEF n
<1>4. lo \in Nat \ {0}
  BY <1>2
<1> HIDE DEF lo
<1>5. Ceiling(n, n) = 1
  <2>1. PICK a \in Nat : a = n + n - 1
    BY <1>1
  <2>2. a \div n \in Nat /\ a % n \in 0 .. n - 1 /\ a = n * (a \div n) + (a % n)
    BY <1>1, Quotient
  <2>3. PICK q \in Nat : q = a \div n
    BY <2>2
  <2>4. PICK s \in 0 .. n - 1 : a = n * q + s
    <3>1. a = n * q + (a % n)
      BY <2>2, <2>3
    <3> QED
      BY <2>2, <3>1
  <2>5. q # 0
    <3>1. q = 0 => n * q = 0
      BY <1>1
    <3> QED
      BY <1>1, <2>1, <2>4, <3>1
  <2>6. q < 2
    <3>1. CASE q >= 2
      <4>1. n * q >= n * 2
        BY <1>1, <2>3, <3>1
      <4>2. n * 2 = n + n
        BY <1>1
      <4>3. PICK p \in Nat : p = n * q
        BY <1>1
      <4> QED
        BY <1>1, <2>1, <2>4, <4>1, <4>2, <4>3
    <3> QED
      BY <3>1
  <2> QED
    BY <2>1, <2>3, <2>5, <2>6 DEF Ceiling
<1>6. most \in Nat /\ most <= n
  <2>1. CASE lo > n
    BY <1>1, <2>1
  <2>2. CASE ~(lo > n)
    <3>1. PICK q \in Nat, s \in 0 .. lo - 1 : q = n \div lo /\ n = lo * q + s
      BY <1>1, <1>4, Quotient
    <3>2. lo * q >= q
      BY <1>4, <3>1
    <3>3. q <= n
      BY <1>1, <1>4, <3>1, <3>2
    <3> QED
      BY <2>2, <3>1, <3>3
  <2> QED
    BY <2>1, <2>2
<1> HIDE DEF most
<1>7. Max({1, 1}) = 1
  BY GreatestOfTwo
<1>8. Max({1, most}) = IF 1 >= most THEN 1 ELSE most
  BY <1>6, GreatestOfTwo
<1>9. PICK m : m = Max({1, most})
  OBVIOUS
<1>10. m \in Nat \ {0} /\ m <= n
  BY <1>1, <1>6, <1>8, <1>9
<1> QED
  BY <1>3, <1>5, <1>7, <1>9, <1>10 DEF n

\* The numbers of groups of a router that has fewer of them are among those of another one.
LEMMA RangesNested ==
  ASSUME Sized, GivenBounds, NEW q \in Choosers, NEW r \in Choosers, q \in SoonerThan(r),
         bounds[q][2] = 0, bounds[r][2] = 0
  PROVE  GroupRange(q) \subseteq GroupRange(r)
<1>1. PICK a \in Nat \ {0} : GroupRange(q) = 1 .. a
  BY FreeRange
<1>2. PICK b \in Nat \ {0} : GroupRange(r) = 1 .. b
  BY FreeRange
<1>3. Cardinality(1 .. a) = a /\ Cardinality(1 .. b) = b
  BY FS_Interval
<1>4. a <= b
  BY <1>1, <1>2, <1>3 DEF SoonerThan, Sooner
<1> QED
  BY <1>1, <1>2, <1>4

\* A router that chooses finds a number that none before it has taken, if all of them can
\* have different ones at all.
LEMMA FreeToTake ==
  ASSUME Sized, GivenBounds, \A r \in LanRouters : bounds[r][2] = 0,
         NEW f, f \in [Choosers -> LanHosts], IsInjective(f), \A r \in Choosers : f[r] \in GroupRange(r),
         NEW T, NEW r \in Choosers
  PROVE  GroupRange(r) \ {T[q] : q \in SoonerThan(r)} # {}
<1> DEFINE D == SoonerThan(r)
           G == GroupRange(r)
<1> SUFFICES ASSUME G \subseteq {T[q] : q \in D} PROVE FALSE
  OBVIOUS
<1>1. D \subseteq Choosers /\ r \notin D /\ r \in Choosers
  BY SoonerIsOrder DEF SoonerThan
<1>2. \A p \in D \cup {r} : p \in Choosers /\ f[p] \in G
  <2>1. \A p \in Choosers : p \in LanRouters
    BY DEF Choosers
  <2>2. \A p \in D : GroupRange(p) \subseteq G
    BY <1>1, <2>1, RangesNested
  <2> QED
    BY <1>1, <2>2
<1>3. IsFiniteSet(D)
  BY <1>1, ChoosersFinite, FS_Subset
<1> HIDE DEF D, G
<1> DEFINE g == [x \in G |-> CHOOSE q \in D : T[q] = x]
           h == [p \in D \cup {r} |-> g[f[p]]]
<1>4. \A x \in G : g[x] \in D /\ T[g[x]] = x
  OBVIOUS
<1> HIDE DEF g
<1>5. h \in [D \cup {r} -> D]
  BY <1>2, <1>4
<1>6. IsFiniteSet(D \cup {r}) /\ Cardinality(D \cup {r}) = Cardinality(D) + 1 /\ Cardinality(D) \in Nat
  BY <1>1, <1>3, FS_AddElement, FS_CardinalityType
<1>7. PICK x \in D \cup {r}, y \in D \cup {r} : x # y /\ h[x] = h[y]
  <2>1. Cardinality(D) < Cardinality(D \cup {r})
    BY <1>6
  <2> HIDE DEF h
  <2> QED
    BY <1>3, <1>5, <1>6, <2>1, FS_PigeonHole
<1>8. g[f[x]] = g[f[y]]
  BY <1>7
<1>9. f[x] = f[y]
  BY <1>2, <1>4, <1>8
<1> QED
  BY <1>2, <1>7, <1>9 DEF IsInjective

\* So no two routers take the same number.
LEMMA TargetsApart ==
  ASSUME Sized, GivenBounds, \A r \in LanRouters : bounds[r][2] = 0,
         \E f \in [Choosers -> LanHosts] : IsInjective(f) /\ \A r \in Choosers : f[r] \in GroupRange(r),
         NEW q \in Choosers, NEW r \in Choosers, q # r
  PROVE  Targets[q] # Targets[r]
<1>1. PICK f \in [Choosers -> LanHosts] : IsInjective(f) /\ \A p \in Choosers : f[p] \in GroupRange(p)
  OBVIOUS
<1>2. PICK T : T = Targets
  OBVIOUS
<1>3. \A p \in Choosers : T[p] = Taking(T, p)
  <2>1. T = [p \in Choosers |-> Taking(T, p)]
    BY <1>2, TargetsAre
  <2> QED
    BY <2>1
<1>4. \A p \in Choosers : T[p] \notin {T[s] : s \in SoonerThan(p)}
  <2> SUFFICES ASSUME NEW p \in Choosers PROVE T[p] \notin {T[s] : s \in SoonerThan(p)}
    OBVIOUS
  <2> DEFINE free == GroupRange(p) \ {T[s] : s \in SoonerThan(p)}
  <2>1. free # {}
    BY <1>1, FreeToTake
  <2>2. free \in SUBSET Nat
    BY RangeOfGroups
  <2>3. T[p] = Min(free)
    BY <1>3, <2>1 DEF Taking
  <2>4. Min(free) \in free
    <3> HIDE DEF free
    <3> QED
      BY <2>1, <2>2, LeastIsOne
  <2> QED
    BY <2>3, <2>4
<1>5. Sooner(q, r) \/ Sooner(r, q)
  <2>1. \A x \in Choosers : Cardinality(GroupRange(x)) \in Nat /\ Len(HostsOf(x)) \in Nat /\ x \in Nat
    BY RangeOfGroups
  <2> QED
    BY <2>1 DEF Sooner
<1>6. q \in SoonerThan(r) \/ r \in SoonerThan(q)
  BY <1>5 DEF SoonerThan
<1> QED
  BY <1>2, <1>4, <1>6

\* What a router takes is no more than it has hosts.
LEMMA TargetWithin ==
  ASSUME Sized, GivenBounds, NEW r \in Choosers, bounds[r][2] = 0
  PROVE  Targets[r] \in 1 .. Len(HostsOf(r))
<1>1. PICK T : T = Targets
  OBVIOUS
<1>2. T[r] = Taking(T, r)
  <2>1. T = [p \in Choosers |-> Taking(T, p)]
    BY <1>1, TargetsAre
  <2> QED
    BY <2>1
<1> DEFINE free == GroupRange(r) \ {T[s] : s \in SoonerThan(r)}
           from == IF free = {} THEN GroupRange(r) ELSE free
<1>3. from # {} /\ from \in SUBSET Nat /\ from \subseteq GroupRange(r)
  BY RangeOfGroups
<1>4. T[r] = Min(from)
  BY <1>2 DEF Taking
<1> HIDE DEF from
<1>5. T[r] \in GroupRange(r)
  BY <1>3, <1>4, LeastIsOne
<1>6. PICK m \in Nat \ {0} : GroupRange(r) = 1 .. m /\ m <= Len(HostsOf(r))
  BY FreeRange
<1>7. Len(HostsOf(r)) \in Nat
  BY RangeOfGroups
<1> QED
  BY <1>1, <1>5, <1>6, <1>7

LEMMA DifferHolds == LanInv /\ SizesKept => NumbersDiffer
<1> SUFFICES ASSUME LanInv, SizesKept, Grouped, policy.mode = "nonuniform",
                    \A r \in LanRouters : bounds[r][2] = 0,
                    \E f \in [Choosers -> LanHosts] : IsInjective(f) /\ \A r \in Choosers : f[r] \in GroupRange(r),
                    NEW q \in Choosers, NEW r \in Choosers, q # r
             PROVE  SwitchesOf(q) # SwitchesOf(r)
  BY DEF NumbersDiffer
<1>1. Sized /\ GivenBounds
  BY DEF LanInv, GivenOK
<1>2. \A p \in Choosers : SwitchesOf(p) = Targets[p]
  <2> SUFFICES ASSUME NEW p \in Choosers PROVE SwitchesOf(p) = Targets[p]
    OBVIOUS
  <2>1. p \in LanRouters /\ Len(HostsOf(p)) >= 2
    BY DEF Choosers
  <2>2. routersN # 0 /\ Len(HostsOf(p)) \in Nat
    BY <2>1, RouterIsDone
  <2>3. ~Single(p)
    BY <2>1, <2>2 DEF Single
  <2>4. PICK k : k = Targets[p]
    OBVIOUS
  <2>5. k \in 1 .. Len(HostsOf(p)) /\ k \in Nat \ {0}
    BY <1>1, <2>1, <2>2, <2>4, TargetWithin
  <2>6. DealtAsAsked(GroupsFor(p), Len(HostsOf(p)), k, bounds[p][1], bounds[p][2],
                     IF bounds[p][1] > 0 THEN bounds[p][1] ELSE 1, Rounds)
    BY <2>1, <2>3, <2>4, <2>5, GroupsAreDealt
  <2>7. Len(GroupsFor(p)) = IF Len(HostsOf(p)) <= k THEN Len(HostsOf(p)) ELSE k
    BY <2>6 DEF DealtAsAsked
  <2>8. Len(GroupsFor(p)) = k
    BY <2>2, <2>5, <2>7
  <2> QED
    BY <2>1, <2>4, <2>8, GroupedSizes
<1> QED
  BY <1>1, <1>2, TargetsApart

\* Whatever the numbers of hosts, routers and switches asked for, the bounds of the rows
\* and the rounds: no host is lost or doubled, a router has the number of switches it is
\* asked for, their sizes keep the bounds that can be kept and are even without an upper
\* one, random sizes keep theirs, and in mode "nonuniform" the numbers differ.
THEOREM HostsAreAsAsked == LanSpec => []HostsAsAsked
<1>1. LanInv /\ SizesKept => ExactlyAsAsked /\ SizesWithinBounds /\ NumbersDiffer
  BY ExactlyHolds, WithinHolds, DifferHolds
<1>2. HostsGroupedOnce /\ ExactlyAsAsked /\ SizesWithinBounds /\ NumbersDiffer => HostsAsAsked
  BY DEF HostsAsAsked
<1> QED
  BY <1>1, <1>2, SizesAreKept, HostsBehindOne, PTL

-----------------------------------------------------------------------------
(* All services together. *)

\* Every behaviour of the services together is one of each of its parts, so that what
\* is proved of a part holds of the whole.
THEOREM ServicesImplementParts ==
  ServicesFairSpec => FlagFairSpec /\ PlanSpec /\ GraphSpec /\ LanSpec /\ CacheSpec
<1>1. ServicesInit => FlagInit /\ PlanInit /\ GraphInit /\ LanInit /\ CacheInit
  BY DEF ServicesInit, PlanIdle, GraphIdle, LanIdle, CacheIdle
<1>2. [ServicesNext]_serviceVars =>
        [FlagNext]_flagVars /\ [PlanNext]_planVars /\ [GraphNext]_graphVars
          /\ [LanNext]_lanVars /\ [CacheNext]_cacheVars
  BY DEF ServicesNext, serviceVars
<1> QED
  BY <1>1, <1>2, PTL
     DEF ServicesFairSpec, FlagFairSpec, FlagSpec, PlanSpec, GraphSpec, LanSpec, CacheSpec

\* Whichever of the services is exercised, all their variables keep their types.
THEOREM ServicesTypes == ServicesFairSpec => []FlagServicesTypeOK
<1>1. FlagTypeOK /\ PlanTypeOK /\ GraphTypeOK /\ LanTypeOK /\ CacheTypeOK => FlagServicesTypeOK
  BY DEF FlagServicesTypeOK
<1>2. FlagFairSpec => FlagSpec
  BY DEF FlagFairSpec
<1> QED
  BY <1>1, <1>2, ServicesImplementParts, FlagTypes, PlanTypes, GraphTypes, LanTypes, CacheTypes, PTL

\* A plan has the nodes that its rows ask for, each role its fair share of them, and
\* its previews no host for a challenge twice, for any rows and numbers.
THEOREM NodesAreAsAsked == ServicesFairSpec => []NodesAsAsked
<1>1. CountsAsAsked /\ DemandOnce => NodesAsAsked
  BY DEF NodesAsAsked
<1> QED
  BY <1>1, ServicesImplementParts, CountsAreAsAsked, DemandAddedOnce, PTL

\* The links between the routers of a preview and the groups of their hosts are those
\* that were asked for, for any numbers and rows.
THEOREM TopologyIsAsAsked == ServicesFairSpec => []TopologyAsAsked
<1>1. LinksAsAsked /\ HostsAsAsked => TopologyAsAsked
  BY DEF TopologyAsAsked
<1> QED
  BY <1>1, ServicesImplementParts, LinksDrawnAsAsked, HostsAreAsAsked, PTL
===============================================================================
