-------------------------- MODULE WebServices_proofs --------------------------
(***************************************************************************)
(* Theorems about the services of WebServices, one after the other, and     *)
(* about all of them together.                                              *)
(***************************************************************************)
EXTENDS WebServices, TLAPS, WellFoundedInduction

-----------------------------------------------------------------------------
(* The reordering of chains: the sequencer stops short of all steps only for a *)
(* cycle, and a solvable chain is handed back solvable.                        *)

(* Sequences without repetitions. *)

Distinct(o) == \A i, j \in DOMAIN o : o[i] = o[j] => i = j

LEMMA AppendDistinct ==
  ASSUME NEW o \in Seq(Steps), Distinct(o), NEW s \in Steps, s \notin Members(o)
  PROVE  /\ Append(o, s) \in Seq(Steps)
         /\ Distinct(Append(o, s))
         /\ Members(Append(o, s)) = Members(o) \cup {s}
<1> DEFINE p == Append(o, s)
<1>1. /\ p \in Seq(Steps) /\ Len(p) = Len(o) + 1 /\ Len(o) \in Nat
      /\ \A i \in 1 .. Len(o) : p[i] = o[i]
      /\ p[Len(o) + 1] = s
  OBVIOUS
<1>2. DOMAIN o = 1 .. Len(o) /\ DOMAIN p = 1 .. Len(o) + 1
  BY <1>1
<1>3. DOMAIN p = DOMAIN o \cup {Len(o) + 1}
  BY <1>1, <1>2
<1>4. Members(p) = Members(o) \cup {s}
  BY <1>1, <1>2, <1>3 DEF Members
<1>5. \A i \in DOMAIN o : o[i] # s
  BY DEF Members
<1>6. Distinct(p)
  <2> SUFFICES ASSUME NEW i \in DOMAIN p, NEW j \in DOMAIN p, p[i] = p[j] PROVE i = j
    BY DEF Distinct
  <2>1. CASE i \in DOMAIN o /\ j \in DOMAIN o
    BY <1>1, <1>2, <2>1 DEF Distinct
  <2>2. CASE i = Len(o) + 1 \/ j = Len(o) + 1
    BY <1>1, <1>2, <1>3, <1>5, <2>2
  <2> QED BY <1>3, <2>1, <2>2
<1> QED BY <1>1, <1>4, <1>6

LEMMA EmptyDistinct == <<>> \in Seq(Steps) /\ Distinct(<<>>) /\ Members(<<>>) = {}
BY DEF Distinct, Members

LEMMA OrderIsDistinct ==
  ASSUME NEW o
  PROVE  IsOrder(o) <=> o \in Seq(Steps) /\ Distinct(o) /\ Members(o) = Steps
BY DEF IsOrder, Distinct

-----------------------------------------------------------------------------
(* Types. *)

\* The order under construction has no step twice, and the ready steps are outside it
\* and wait for none.
Typed == ChainTypeOK /\ Distinct(order)

LEMMA PredsAreSteps ==
  ASSUME NEW s PROVE Preds(s) \subseteq Steps /\ s \notin Preds(s)
<1>1. \A f : Producers(f) \subseteq Steps
  BY DEF Producers
<1> DEFINE U == UNION {Producers(f) : f \in Demand(s)}
<1>2. U \subseteq Steps
  <2> HIDE DEF U
  <2> SUFFICES ASSUME NEW t \in U PROVE t \in Steps
    OBVIOUS
  <2>1. PICK f \in Demand(s) : t \in Producers(f)
    BY Zenon DEF U
  <2> QED BY <1>1, <2>1
<1>3. Preds(s) = U \ {s}
  BY DEF Preds
<1> QED BY <1>2, <1>3

\* The steps that each step has to follow.
Before == [s \in Steps |-> Preds(s)]

LEMMA BeforeTyped ==
  ASSUME NEW s \in Steps
  PROVE  Before[s] = Preds(s) /\ Before[s] \subseteq Steps /\ s \notin Before[s]
BY PredsAreSteps DEF Before

\* They depend on what the function is called with.
LEMMA BeforeStays ==
  ASSUME UNCHANGED given PROVE Before' = Before
BY DEF given, Before, Preds, Producers, Demand, LastUse, Requires, Produces

\* What the sequencer knows while it sorts: a step waits for those of its predecessors
\* that are not in the order yet, it is ready if there are none, and the steps of the
\* order follow their predecessors.
Sorting ==
  phase = "sort" =>
    /\ waiting = [s \in Steps |-> Before[s] \ Members(order)]
    /\ ready = {s \in Remainder : waiting[s] = {}}
    /\ \A i \in DOMAIN order : \A t \in Before[order[i]] :
         \E j \in DOMAIN order : j < i /\ order[j] = t

Scratch == phase \in {"given", "build"} => order = <<>>

ChainInv == Typed /\ Sorting /\ Scratch

LEMMA InitInv == ChainInit => ChainInv
<1> SUFFICES ASSUME ChainInit PROVE ChainInv
  OBVIOUS
<1>1. ChainTypeOK
  BY DEF ChainInit, ChainTypeOK, ChainPhases
<1> QED BY <1>1, EmptyDistinct DEF ChainInit, ChainInv, Typed, Sorting, Scratch

LEMMA PickInv == ASSUME ChainInv, Pick PROVE ChainInv'
<1>1. PICK s \in Pool : order' = Append(order, s)
  BY DEF Pick
<1>2. s \in Steps /\ s \notin Members(order)
  BY DEF Pool, Eligible, Remainder
<1>3. order' \in Seq(Steps) /\ Distinct(order')
  BY <1>1, <1>2, AppendDistinct DEF ChainInv, Typed, ChainTypeOK
<1>4. ChainTypeOK'
  BY <1>3 DEF ChainInv, Typed, ChainTypeOK, Pick, given
<1> QED BY <1>3, <1>4 DEF Pick, ChainInv, Typed, Sorting, Scratch

LEMMA PopInv == ASSUME ChainInv, Pop PROVE ChainInv'
<1>1. PICK s \in ready :
        /\ order' = Append(order, s)
        /\ waiting' = [t \in Steps |-> waiting[t] \ {s}]
        /\ ready' = (ready \ {s}) \cup {t \in Steps : waiting[t] = {s}}
  BY DEF Pop
<1>2. /\ phase = "sort" /\ phase' = "sort"
      /\ UNCHANGED <<chain, gen, contract, assigned, high, result>>
  BY DEF Pop, given
<1>3. /\ waiting = [t \in Steps |-> Before[t] \ Members(order)]
      /\ ready = {t \in Remainder : waiting[t] = {}}
      /\ \A i \in DOMAIN order : \A t \in Before[order[i]] :
           \E j \in DOMAIN order : j < i /\ order[j] = t
  BY <1>2 DEF ChainInv, Sorting
<1>4. s \in Steps /\ s \notin Members(order) /\ Before[s] \subseteq Members(order)
  BY <1>3 DEF Remainder
<1>5. /\ order' \in Seq(Steps) /\ Distinct(order')
      /\ Members(order') = Members(order) \cup {s}
  BY <1>1, <1>4, AppendDistinct DEF ChainInv, Typed, ChainTypeOK
<1>6. Before' = Before
  BY BeforeStays DEF Pop
<1>7. waiting' = [t \in Steps |-> Before'[t] \ Members(order')]
  BY <1>1, <1>3, <1>5, <1>6
<1>8. ready' = {t \in Remainder' : waiting'[t] = {}}
  <2>1. Remainder' = Remainder \ {s}
    BY <1>5 DEF Remainder
  <2>2. \A t \in Steps : waiting[t] = {s} => t \in Remainder /\ t # s
    <3> SUFFICES ASSUME NEW t \in Steps, waiting[t] = {s} PROVE t \in Remainder /\ t # s
      OBVIOUS
    <3>1. s \in Before[t]
      BY <1>3
    <3>2. t \notin Members(order)
      BY <1>3, <1>4, <3>1 DEF Members
    <3> QED BY <3>1, <3>2, BeforeTyped DEF Remainder
  <2>3. \A t \in Remainder \ {s} : waiting'[t] = {} <=> waiting[t] = {} \/ waiting[t] = {s}
    BY <1>1 DEF Remainder
  <2> QED BY <1>1, <1>3, <2>1, <2>2, <2>3 DEF Remainder
<1>9. \A i \in DOMAIN order' : \A t \in Before'[order'[i]] :
        \E j \in DOMAIN order' : j < i /\ order'[j] = t
  <2>1. /\ order \in Seq(Steps) /\ Len(order) \in Nat
        /\ DOMAIN order = 1 .. Len(order) /\ DOMAIN order' = 1 .. Len(order) + 1
        /\ \A i \in 1 .. Len(order) : order'[i] = order[i]
        /\ order'[Len(order) + 1] = s
    BY <1>1, <1>4 DEF ChainInv, Typed, ChainTypeOK
  <2> SUFFICES ASSUME NEW i \in DOMAIN order', NEW t \in Before[order'[i]]
               PROVE  \E j \in DOMAIN order' : j < i /\ order'[j] = t
    BY <1>6
  <2>2. CASE i \in DOMAIN order
    <3>1. PICK j \in DOMAIN order : j < i /\ order[j] = t
      BY <1>3, <2>1, <2>2
    <3> QED BY <2>1, <3>1
  <2>3. CASE i = Len(order) + 1
    <3>1. PICK j \in DOMAIN order : order[j] = t
      BY <1>4, <2>1, <2>3 DEF Members
    <3> QED BY <2>1, <2>3, <3>1
  <2> QED BY <2>1, <2>2, <2>3
<1>10. ChainTypeOK'
  <2>1. waiting' \in [Steps -> SUBSET Steps] /\ ready' \in SUBSET Steps
    BY <1>1 DEF ChainInv, Typed, ChainTypeOK
  <2> QED BY <1>2, <1>5, <2>1 DEF ChainInv, Typed, ChainTypeOK
<1> QED BY <1>2, <1>5, <1>7, <1>8, <1>9, <1>10 DEF ChainInv, Typed, Sorting, Scratch

LEMMA BuildInv == ASSUME ChainInv, Build PROVE ChainInv'
<1>1. /\ order = <<>> /\ order' = order
      /\ phase' = "sort"
      /\ UNCHANGED <<chain, gen, contract, assigned, high, result>>
      /\ waiting' = [s \in Steps |-> Preds(s)]
      /\ ready' = {s \in Steps : Preds(s) = {}}
  BY DEF Build, given, ChainInv, Scratch
<1>2. Before' = Before
  BY BeforeStays DEF Build
<1>3. Members(order') = {} /\ Remainder' = Steps
  BY <1>1, EmptyDistinct DEF Remainder
<1>4. Sorting'
  BY <1>1, <1>2, <1>3, BeforeTyped DEF Sorting
<1>5. ChainTypeOK'
  BY <1>1, PredsAreSteps DEF ChainInv, Typed, ChainTypeOK, ChainPhases
<1> QED BY <1>1, <1>4, <1>5 DEF ChainInv, Typed, Scratch

\* The steps that hand a chain back, and the others that build nothing.
LEMMA ReturnInv ==
  ASSUME ChainInv, Preserve \/ Accept \/ Refuse \/ Stop
  PROVE  ChainInv'
<1>1. /\ phase' = "done"
      /\ UNCHANGED <<chain, gen, contract, assigned, high, order, waiting, ready>>
  BY DEF Preserve, Accept, Refuse, Stop, given
<1>2. Remainder = {} => IsOrder(order)
  <2>1. order \in Seq(Steps) /\ Distinct(order)
    BY DEF ChainInv, Typed, ChainTypeOK
  <2>2. Members(order) \subseteq Steps
    BY <2>1 DEF Members
  <2> QED BY <2>1, <2>2, OrderIsDistinct DEF Remainder
<1>3. result' = chain \/ (result' = order /\ Remainder = {})
  BY DEF Preserve, Accept, Refuse, Stop
<1>4. IsOrder(result')
  BY <1>2, <1>3 DEF ChainInv, Typed, ChainTypeOK
<1>5. ChainTypeOK'
  BY <1>1, <1>4 DEF ChainInv, Typed, ChainTypeOK, ChainPhases
<1> QED BY <1>1, <1>5 DEF ChainInv, Typed, Sorting, Scratch

LEMMA OtherInv ==
  ASSUME ChainInv, TryGreedy \/ TrySort \/ Reject \/ Again
  PROVE  ChainInv'
<1>1. CASE TryGreedy \/ TrySort
  BY <1>1 DEF TryGreedy, TrySort, given, ChainInv, Typed, Sorting, Scratch, ChainTypeOK,
     ChainPhases
<1>2. CASE Reject
  BY <1>2, EmptyDistinct DEF Reject, given, ChainInv, Typed, Sorting, Scratch, ChainTypeOK,
     ChainPhases
<1>3. CASE Again
  BY <1>3, EmptyDistinct DEF Again, given, ChainInv, Typed, Sorting, Scratch, ChainTypeOK,
     ChainPhases
<1> QED BY <1>1, <1>2, <1>3

LEMMA StepInv == ChainInv /\ [ChainNext]_chainVars => ChainInv'
<1> SUFFICES ASSUME ChainInv, [ChainNext]_chainVars PROVE ChainInv'
  OBVIOUS
<1>1. CASE UNCHANGED chainVars
  <2>1. Before' = Before
    BY <1>1, BeforeStays DEF chainVars
  <2>2. Sorting'
    BY <1>1, <2>1 DEF chainVars, given, ChainInv, Sorting, Remainder, Members
  <2> QED BY <1>1, <2>2 DEF chainVars, given, ChainInv, Typed, Scratch, ChainTypeOK
<1>2. CASE ChainNext
  BY <1>2, PickInv, PopInv, BuildInv, ReturnInv, OtherInv DEF ChainNext
<1> QED BY <1>1, <1>2

\* Every variable keeps its type; in particular what is handed back has every step of
\* the chain once, whichever of the ways the reordering takes.
THEOREM ChainTypes == ChainSpec => []ChainTypeOK
<1>1. ChainInv => ChainTypeOK
  BY DEF ChainInv, Typed
<1> QED BY <1>1, InitInv, StepInv, PTL DEF ChainSpec

\* For any steps and contracts: the sequencer stops short of all steps only if each of
\* those that remain waits for another one of them.
THEOREM OnlyForCycles == ChainSpec => []CyclesOnly
<1>1. ChainInv => CyclesOnly
  BY BeforeTyped DEF ChainInv, Sorting, CyclesOnly, Remainder
<1> QED BY <1>1, InitInv, StepInv, PTL DEF ChainSpec
-----------------------------------------------------------------------------
(* Solvable chains stay solvable. *)

\* Each generator has a last step in the chain.
LEMMA LastUseExists ==
  ASSUME ChainTypeOK, NEW s \in Steps
  PROVE  LastUse(s) \in Steps /\ gen[LastUse(s)] = gen[s]
<1> DEFINE n == Len(chain)
           Used(i) == gen[chain[i]] = gen[s]
           T == {k \in Nat : \E i \in 1 .. n : k = n - i /\ Used(i)}
<1>1. n \in Nat /\ DOMAIN chain = 1 .. n /\ \A i \in 1 .. n : chain[i] \in Steps
  BY DEF ChainTypeOK, IsOrder
<1>2. PICK a \in 1 .. n : chain[a] = s
  BY <1>1 DEF ChainTypeOK, IsOrder, Members
<1>3. n - a \in T
  BY <1>1, <1>2
<1>4. PICK k \in T : \A y \in T : ~ (<<y, k>> \in OpToRel(<, Nat))
  BY <1>3, WFMin, NatLessThanWellFounded, Zenon
<1>5. \A y \in T : ~ (y < k)
  BY <1>4 DEF OpToRel
<1>6. PICK i \in 1 .. n : k = n - i /\ Used(i)
  BY <1>4
<1>7. \A j \in 1 .. n : j > i => ~Used(j)
  <2> SUFFICES ASSUME NEW j \in 1 .. n, j > i, Used(j) PROVE FALSE
    OBVIOUS
  <2>1. n - j \in T /\ n - j < k
    BY <1>1, <1>6
  <2> QED BY <1>5, <2>1
<1>8. \E t \in Steps : \E l \in DOMAIN chain :
        /\ chain[l] = t /\ gen[t] = gen[s]
        /\ \A j \in DOMAIN chain : j > l => gen[chain[j]] # gen[s]
  BY <1>1, <1>6, <1>7
<1> QED BY <1>8 DEF LastUse

\* What is handed back is the chain as it was, a validated order, or an order of the
\* sequencer's.
Returned ==
  phase = "done" =>
    \/ result = chain \/ Solvable(result)
    \/ \A i \in DOMAIN result : \A t \in Before[result[i]] :
         \E j \in DOMAIN result : j < i /\ result[j] = t

LEMMA ReturnedStep == ChainInv /\ Returned /\ [ChainNext]_chainVars => Returned'
<1> SUFFICES ASSUME ChainInv, Returned, [ChainNext]_chainVars, phase' = "done"
             PROVE  Returned'
  BY DEF Returned
<1>1. ASSUME UNCHANGED given, NEW o
      PROVE  Before' = Before /\ chain' = chain
  BY <1>1, BeforeStays DEF given
<1>2. CASE Preserve \/ Refuse
  BY <1>2 DEF Preserve, Refuse, Returned, given
<1>3. CASE Accept
  <2>1. result' = order /\ Solvable(order) /\ UNCHANGED <<contract, gen, assigned>>
    BY <1>3 DEF Accept, given
  <2> QED BY <2>1 DEF Returned, Solvable, Requires, Produces
<1>4. CASE Stop
  <2>1. UNCHANGED given /\ phase = "sort"
    BY <1>4 DEF Stop
  <2>2. Before' = Before /\ chain' = chain
    BY <2>1, <1>1
  <2>3. CASE result' = chain
    BY <2>2, <2>3 DEF Returned
  <2>4. CASE result' = order
    BY <2>1, <2>2, <2>4 DEF Returned, ChainInv, Sorting
  <2> QED BY <1>4, <2>3, <2>4 DEF Stop
<1>5. CASE UNCHANGED chainVars
  <2>1. Before' = Before
    BY <1>5, BeforeStays DEF chainVars
  <2>2. UNCHANGED <<chain, result, phase, contract, gen, assigned>>
    BY <1>5 DEF chainVars, given
  <2>3. Solvable(result) => Solvable(result)'
    BY <2>2 DEF Solvable, Requires, Produces
  <2> QED BY <2>1, <2>2, <2>3 DEF Returned
<1>6. CASE TryGreedy \/ TrySort \/ Pick \/ Reject \/ Build \/ Pop \/ Again
  BY <1>6 DEF TryGreedy, TrySort, Pick, Reject, Build, Pop, Again
<1> QED BY <1>2, <1>3, <1>4, <1>5, <1>6 DEF ChainNext

LEMMA KeepsSolvableHolds == ChainInv /\ Returned => KeepsSolvable
<1> SUFFICES ASSUME ChainInv, Returned, phase = "done", Uniform, Solvable(chain)
             PROVE  Solvable(result)
  BY DEF KeepsSolvable
<1>1. CASE result = chain \/ Solvable(result)
  BY <1>1
<1>2. CASE \A i \in DOMAIN result : \A t \in Before[result[i]] :
             \E j \in DOMAIN result : j < i /\ result[j] = t
  <2> SUFFICES ASSUME NEW i \in DOMAIN result, NEW f \in Requires(result[i])
               PROVE  \E j \in DOMAIN result : j < i /\ f \in Produces(result[j])
    BY DEF Solvable
  <2> DEFINE s == result[i]
  <2>1. ChainTypeOK /\ s \in Steps /\ s \in Members(chain)
    BY DEF ChainInv, Typed, ChainTypeOK, IsOrder, Members
  <2>2. PICK a \in DOMAIN chain : chain[a] = s
    BY <2>1 DEF Members
  <2>3. PICK b \in DOMAIN chain : b < a /\ f \in Produces(chain[b])
    BY <2>2 DEF Solvable
  <2> DEFINE t == chain[b]
  <2>4. t \in Steps /\ t # s
    BY <2>1, <2>2, <2>3 DEF ChainTypeOK, IsOrder
  <2>5. LastUse(t) \in Steps /\ gen[LastUse(t)] = gen[t]
    BY <2>1, <2>4, LastUseExists
  <2>6. Produces(LastUse(t)) = Produces(t)
    BY <2>4, <2>5 DEF Uniform, Produces
  <2>7. t \in Producers(f) /\ f \in Demand(s)
    BY <2>3, <2>4, <2>6 DEF Producers, Demand
  <2>8. t \in Before[s]
    <3>1. t \in UNION {Producers(g) : g \in Demand(s)}
      BY <2>7
    <3> QED BY <2>1, <2>4, <3>1, BeforeTyped DEF Preds
  <2>9. PICK j \in DOMAIN result : j < i /\ result[j] = t
    BY <1>2, <2>8
  <2> QED BY <2>3, <2>9
<1> QED BY <1>1, <1>2 DEF Returned

\* For any steps, generators and contracts: a chain that was an order of the facts is
\* handed back as one, if the steps of each generator list the same, although nobody
\* validates the order that the sequencer finds.
THEOREM StaysSolvable == ChainSpec => []KeepsSolvable
<1>1. ChainInit => Returned
  BY DEF ChainInit, Returned
<1> QED BY <1>1, InitInv, StepInv, ReturnedStep, KeepsSolvableHolds, PTL DEF ChainSpec

-----------------------------------------------------------------------------
(* A solvable order is found. *)

\* The chain is no order of the facts, but there is one, and the assignments tell.
Hope ==
  /\ Explicit /\ ~Solvable(chain)
  /\ \E o \in Seq(Steps) : IsOrder(o) /\ Solvable(o)

LEMMA ExplicitTells ==
  ASSUME Explicit, NEW s \in Steps
  PROVE  assigned[s].requires = Requires(s) /\ assigned[s].produces = Produces(s)
<1>1. assigned[s] = [requires |-> Requires(s), produces |-> Produces(s)]
  BY DEF Explicit
<1>2. \A a, b, r : r = [requires |-> a, produces |-> b] => r.requires = a /\ r.produces = b
  OBVIOUS
<1> QED
  BY <1>1, <1>2

\* As long as steps are missing one of them is eligible: the first of the missing
\* ones in an order of the facts.
LEMMA SomeEligible ==
  ASSUME Explicit, NEW o \in Seq(Steps), IsOrder(o), Solvable(o), Remainder # {}
  PROVE  Eligible # {}
<1> DEFINE T == {i \in Nat : i \in DOMAIN o /\ o[i] \in Remainder}
<1>1. DOMAIN o = 1 .. Len(o) /\ Len(o) \in Nat /\ \A i \in DOMAIN o : o[i] \in Steps
  OBVIOUS
<1>2. PICK r \in Remainder : TRUE
  OBVIOUS
<1>3. PICK a \in DOMAIN o : o[a] = r
  BY <1>2 DEF IsOrder, Members, Remainder
<1>4. a \in T
  BY <1>1, <1>2, <1>3
<1>5. PICK i \in T : \A y \in T : ~ (<<y, i>> \in OpToRel(<, Nat))
  BY <1>4, WFMin, NatLessThanWellFounded, Zenon
<1>6. i \in DOMAIN o /\ o[i] \in Remainder /\ \A y \in T : ~ (y < i)
  BY <1>5 DEF OpToRel
<1>7. \A j \in DOMAIN o : j < i => o[j] \in Members(order)
  BY <1>1, <1>6 DEF Remainder
<1>8. \A f \in Requires(o[i]) : \E s \in Members(order) : f \in assigned[s].produces
  <2> SUFFICES ASSUME NEW f \in Requires(o[i])
               PROVE  \E s \in Members(order) : f \in assigned[s].produces
    OBVIOUS
  <2>1. PICK j \in DOMAIN o : j < i /\ f \in Produces(o[j])
    BY <1>6 DEF Solvable
  <2>2. assigned[o[j]].produces = Produces(o[j])
    BY <1>1, ExplicitTells
  <2> QED
    BY <1>7, <2>1, <2>2
<1>9. assigned[o[i]].requires = Requires(o[i])
  BY <1>1, <1>6, ExplicitTells
<1>10. assigned[o[i]].requires \subseteq Known
  BY <1>8, <1>9 DEF Known
<1> QED
  BY <1>6, <1>10 DEF Eligible

\* An eligible step prolongs an order of the facts.
LEMMA EligibleProlongs ==
  ASSUME Explicit, order \in Seq(Steps), Solvable(order), NEW s \in Eligible
  PROVE  \A i \in DOMAIN Append(order, s) : \A f \in Requires(Append(order, s)[i]) :
           \E j \in DOMAIN Append(order, s) : j < i /\ f \in Produces(Append(order, s)[j])
<1> DEFINE p == Append(order, s)
           n == Len(order)
<1>1. n \in Nat /\ DOMAIN order = 1 .. n /\ DOMAIN p = 1 .. n + 1 /\ p[n + 1] = s
      /\ \A i \in 1 .. n : p[i] = order[i]
  BY DEF Eligible, Remainder
<1>0. \A i \in 1 .. n : order[i] \in Steps
  BY <1>1
<1> HIDE DEF p, n
<1>2. ASSUME NEW i \in 1 .. n, NEW f \in Requires(p[i])
      PROVE  \E j \in DOMAIN p : j < i /\ f \in Produces(p[j])
  <2>1. PICK j \in 1 .. n : j < i /\ f \in Produces(order[j])
    BY <1>1, <1>2 DEF Solvable
  <2> QED
    BY <1>1, <2>1
<1>3. ASSUME NEW f \in Requires(s)
      PROVE  \E j \in DOMAIN p : j < n + 1 /\ f \in Produces(p[j])
  <2>1. s \in Steps /\ assigned[s].requires \subseteq Known
    BY DEF Eligible, Remainder
  <2>2. f \in Known
    BY <1>3, <2>1, ExplicitTells
  <2>3. PICK t \in Members(order) : f \in assigned[t].produces
    BY <2>2 DEF Known
  <2>4. PICK j \in 1 .. n : order[j] = t
    BY <1>1 DEF Members
  <2>5. assigned[t].produces = Produces(t)
    BY <1>0, <2>4, ExplicitTells
  <2> QED
    BY <1>1, <2>3, <2>4, <2>5
<1>4. \A i \in DOMAIN p : i \in 1 .. n \/ i = n + 1
  BY <1>1
<1> QED
  BY <1>1, <1>2, <1>3, <1>4 DEF p

\* With hope, the greedy order is one of the facts at any time, and handed back.
Found ==
  Hope =>
    /\ phase \in {"given", "greedy", "done"}
    /\ phase = "greedy" => Solvable(order)
    /\ phase = "done" => Solvable(result)

LEMMA HopeStays ==
  ASSUME UNCHANGED given
  PROVE  /\ Hope' <=> Hope
         /\ \A o : Solvable(o)' <=> Solvable(o)
BY DEF given, Hope, Explicit, Solvable, Requires, Produces

LEMMA FoundStep == ChainInv /\ Found /\ [ChainNext]_chainVars => Found'
<1> SUFFICES ASSUME ChainInv, Found, [ChainNext]_chainVars PROVE Found'
  OBVIOUS
<1>1. CASE TryGreedy
  <2>1. order = <<>> /\ phase = "given"
    BY <1>1 DEF TryGreedy, ChainInv, Scratch
  <2>2. Solvable(order)'
    BY <1>1, <2>1 DEF TryGreedy, Solvable
  <2> QED
    BY <1>1, <2>2, HopeStays DEF TryGreedy, Found
<1>2. CASE TrySort \/ Build \/ Refuse \/ Pop \/ Stop
  BY <1>2, HopeStays DEF TrySort, Build, Refuse, Pop, Stop, Found, Hope
<1>3. CASE Pick
  <2>1. PICK s \in Pool : order' = Append(order, s)
    BY <1>3 DEF Pick
  <2>2. ASSUME Hope PROVE Solvable(order)'
    <3>1. Remainder # {}
      BY <2>1 DEF Pool, Eligible
    <3>2. s \in Eligible
      BY <2>1, <2>2, <3>1, SomeEligible DEF Hope, Pool
    <3>3. order \in Seq(Steps) /\ Explicit /\ Solvable(order)
      BY <1>3, <2>2 DEF Pick, Found, Hope, ChainInv, Typed, ChainTypeOK
    <3>4. \A t \in Steps : Requires(t)' = Requires(t) /\ Produces(t)' = Produces(t)
      BY <1>3 DEF Pick, given, Requires, Produces
    <3>5. order' \in Seq(Steps)
      BY <2>1, <3>2, <3>3 DEF Eligible, Remainder
    <3> QED
      <4>1. \A i \in DOMAIN order' : order'[i] \in Steps
        BY <3>5
      <4>2. \A i \in DOMAIN order' : \A f \in Requires(order'[i]) :
              \E j \in DOMAIN order' : j < i /\ f \in Produces(order'[j])
        BY <2>1, <3>2, <3>3, EligibleProlongs
      <4> QED
        BY <3>4, <4>1, <4>2 DEF Solvable
  <2> QED
    BY <1>3, <2>2, HopeStays DEF Pick, Found
<1>4. CASE Accept \/ Preserve \/ Reject
  BY <1>4, HopeStays DEF Accept, Preserve, Reject, Found, Hope
<1>5. CASE Again
  BY <1>5 DEF Again, Found
<1>6. CASE UNCHANGED chainVars
  BY <1>6, HopeStays DEF chainVars, Found
<1> QED
  BY <1>1, <1>2, <1>3, <1>4, <1>5, <1>6 DEF ChainNext

\* For any steps and contracts: if the assignments list what the contracts say, and
\* any order of the steps is one of the facts, then such an order is handed back.
THEOREM SolvableIsFound == ChainSpec => []FindsSolvable
<1>1. ChainInit => Found
  BY DEF ChainInit, Found
<1>2. ASSUME ChainInv, Found PROVE FindsSolvable
  <2> SUFFICES ASSUME phase = "done", Explicit, ~Solvable(chain),
                      NEW o \in [1 .. Cardinality(Steps) -> Steps], IsOrder(o), Solvable(o)
               PROVE  Solvable(result)
    BY DEF FindsSolvable
  <2>1. o \in Seq(Steps)
    BY DEF IsOrder
  <2> QED
    BY <1>2, <2>1 DEF Found, Hope
<1> QED
  BY <1>1, <1>2, InitInv, StepInv, FoundStep, PTL DEF ChainSpec


-----------------------------------------------------------------------------
(* Evaluation packages, for every set of runs, of threads and of readers and every *)
(* bound on restarts.                                                              *)

LEMMA EvalInitTyped == Init => TypeOK
BY NobodyIsNobody, MaxRestartsIsNat DEF Init, TypeOK, FileStates, Final, Answers, Places

LEMMA EvalStepTyped == TypeOK /\ [Next]_vars => TypeOK'
<1> SUFFICES ASSUME TypeOK, [Next]_vars PROVE TypeOK'
  OBVIOUS
<1> USE NobodyIsNobody, MaxRestartsIsNat
    DEF TypeOK, FileStates, Final, Answers, Places, Move, schedVars, buildVars, readVars
<1>1. ASSUME NEW s \in Schedulers, NEW r \in Runs, Call(s, r) PROVE TypeOK'
  BY <1>1 DEF Call
<1>2. ASSUME NEW s \in Schedulers, Enter(s) PROVE TypeOK'
  BY <1>2 DEF Enter
<1>3. ASSUME NEW s \in Schedulers, Write(s) PROVE TypeOK'
  BY <1>3 DEF Write
<1>4. ASSUME NEW s \in Schedulers, Start(s) PROVE TypeOK'
  BY <1>4 DEF Start
<1>5. ASSUME NEW s \in Schedulers, StartFails(s) PROVE TypeOK'
  BY <1>5 DEF StartFails
<1>6. ASSUME NEW s \in Schedulers, Undo(s) PROVE TypeOK'
  BY <1>6 DEF Undo
<1>7. ASSUME NEW s \in Schedulers, Report(s) PROVE TypeOK'
  BY <1>7 DEF Report
<1>8. ASSUME NEW r \in Runs, Finish(r) PROVE TypeOK'
  BY <1>8 DEF Finish
<1>9. ASSUME NEW r \in Runs, Leave(r) PROVE TypeOK'
  BY <1>9 DEF Leave
<1>10. ASSUME NEW q \in Readers, NEW r \in Runs, ReadFile(q, r) PROVE TypeOK'
  BY <1>10 DEF ReadFile
<1>11. ASSUME NEW q \in Readers, ReadActive(q) PROVE TypeOK'
  BY <1>11 DEF ReadActive
<1>12. ASSUME Restart PROVE TypeOK'
  BY <1>12 DEF Restart
<1>13. CASE UNCHANGED vars
  BY <1>13 DEF vars
<1> QED
  BY <1>1, <1>2, <1>3, <1>4, <1>5, <1>6, <1>7, <1>8, <1>9, <1>10, <1>11, <1>12, <1>13
     DEF Next, SchedulerStep, BuilderStep

\* Every variable of the package builder keeps its type.
THEOREM EvalTypes == Spec => []TypeOK
BY EvalInitTyped, EvalStepTyped, PTL DEF Spec

-----------------------------------------------------------------------------
\* A thread of schedule() that has claimed its run.
Owner(s) == at[s] \in {"write", "start", "undo", "report"}

\* A run has one owner at a time: the thread in schedule() that claimed it, or
\* one builder.
OneOwner ==
  /\ \A s, t \in Schedulers : Owner(s) /\ Owner(t) /\ run[s] = run[t] => s = t
  /\ \A s \in Schedulers : Owner(s) => building[run[s]] = 0 /\ leaving[run[s]] = 0
  /\ \A r \in Runs : building[r] + leaving[r] <= 1

\* The lock is held while a run is claimed, until its first status is written.
ClaimLocked == \A s \in Schedulers : mutex = s <=> at[s] = "write"

\* What each owner knows of the status file.
OwnersKnow ==
  /\ \A s \in Schedulers :
       /\ at[s] = "write" => file[run[s]] = "missing"
       /\ at[s] \in {"start", "undo", "report"} => file[run[s]] = "preparing"
       /\ at[s] = "report" => run[s] \notin active
  /\ \A r \in Runs :
       /\ building[r] > 0 => file[r] = "preparing"
       /\ leaving[r] > 0 => file[r] # "missing"

EvalInv == OneOwner /\ ClaimLocked /\ OwnersKnow /\ PreparingIsTrue

LEMMA EvalInitInv == Init => EvalInv
BY NobodyIsNobody DEF Init, EvalInv, OneOwner, ClaimLocked, OwnersKnow, PreparingIsTrue, Owner

LEMMA EvalStepInv ==
  ASSUME TypeOK, EvalInv, [Next]_vars
  PROVE  EvalInv'
<1> USE NobodyIsNobody
    DEF TypeOK, FileStates, Final, Places, EvalInv, OneOwner, ClaimLocked, OwnersKnow,
        PreparingIsTrue, Owner, Move, schedVars, buildVars, readVars
<1>1. ASSUME NEW s \in Schedulers, NEW r \in Runs, Call(s, r) PROVE EvalInv'
  BY <1>1 DEF Call
<1>2. ASSUME NEW s \in Schedulers, Enter(s) PROVE EvalInv'
  <2>1. CASE file[run[s]] # "missing"
    <3>1. /\ at[s] = "enter" /\ at' = [at EXCEPT ![s] = "out"]
          /\ UNCHANGED <<file, run, active, mutex, building, leaving>>
      BY <1>2, <2>1 DEF Enter
    <3>2. OneOwner'
      BY <3>1
    <3>3. ClaimLocked'
      BY <3>1
    <3>4. OwnersKnow'
      BY <3>1
    <3>5. PreparingIsTrue'
      BY <3>1
    <3> QED
      BY <3>2, <3>3, <3>4, <3>5
  <2>2. CASE file[run[s]] = "missing"
    <3>1. /\ at' = [at EXCEPT ![s] = "write"] /\ mutex' = s /\ mutex = Nobody
          /\ active' = active \cup {run[s]}
          /\ UNCHANGED <<file, run, building, leaving>>
      BY <1>2, <2>2 DEF Enter
    <3>2. run[s] \in Runs
      BY <1>2 DEF Enter
    <3>3. \A t \in Schedulers : Owner(t) => run[t] # run[s]
      BY <2>2, <3>1
    <3>4. building[run[s]] = 0 /\ leaving[run[s]] = 0
      BY <2>2, <3>2
    <3>5. OneOwner'
      BY <3>1, <3>3, <3>4
    <3>6. ClaimLocked'
      BY <3>1
    <3>7. OwnersKnow'
      BY <2>2, <3>1, <3>3
    <3>8. PreparingIsTrue'
      BY <2>2, <3>1
    <3> QED
      BY <3>5, <3>6, <3>7, <3>8
  <2> QED
    BY <2>1, <2>2
<1>3. ASSUME NEW s \in Schedulers, Write(s) PROVE EvalInv'
  BY <1>3 DEF Write
<1>4. ASSUME NEW s \in Schedulers, Start(s) PROVE EvalInv'
  BY <1>4 DEF Start
<1>5. ASSUME NEW s \in Schedulers, StartFails(s) PROVE EvalInv'
  BY <1>5 DEF StartFails
<1>6. ASSUME NEW s \in Schedulers, Undo(s) PROVE EvalInv'
  BY <1>6 DEF Undo
<1>7. ASSUME NEW s \in Schedulers, Report(s) PROVE EvalInv'
  BY <1>7 DEF Report
<1>8. ASSUME NEW r \in Runs, Finish(r) PROVE EvalInv'
  BY <1>8 DEF Finish
<1>9. ASSUME NEW r \in Runs, Leave(r) PROVE EvalInv'
  BY <1>9 DEF Leave
<1>10. ASSUME NEW q \in Readers, NEW r \in Runs, ReadFile(q, r) PROVE EvalInv'
  BY <1>10 DEF ReadFile
<1>11. ASSUME NEW q \in Readers, ReadActive(q) PROVE EvalInv'
  BY <1>11 DEF ReadActive
<1>12. ASSUME Restart PROVE EvalInv'
  BY <1>12 DEF Restart
<1>13. CASE UNCHANGED vars
  BY <1>13 DEF vars
<1> QED
  BY <1>1, <1>2, <1>3, <1>4, <1>5, <1>6, <1>7, <1>8, <1>9, <1>10, <1>11, <1>12, <1>13
     DEF Next, SchedulerStep, BuilderStep

\* One builder per run, and "preparing" is said only while somebody prepares.
THEOREM BuildersSafe == Spec => [](OneBuilder /\ PreparingIsTrue)
<1>1. EvalInv /\ TypeOK => OneBuilder /\ PreparingIsTrue
  BY DEF EvalInv, OneOwner, Owner, OneBuilder, Committed, TypeOK
<1> QED
  BY EvalInitInv, EvalStepInv, <1>1, EvalTypes, PTL DEF Spec

\* No result is overwritten.
THEOREM FinalResults == Spec => ResultFinal
<1>1. ASSUME TypeOK, EvalInv, [Next]_vars, NEW r \in Runs, file[r] \in Final
      PROVE  file'[r] = file[r]
  <2> USE DEF TypeOK, EvalInv, OwnersKnow, Final, Move, schedVars, buildVars, readVars
  <2>1. ASSUME NEW s \in Schedulers, Write(s) PROVE file'[r] = file[r]
    BY <1>1, <2>1 DEF Write
  <2>2. ASSUME NEW s \in Schedulers, Report(s) PROVE file'[r] = file[r]
    BY <1>1, <2>2 DEF Report
  <2>3. ASSUME NEW b \in Runs, Finish(b) PROVE file'[r] = file[r]
    BY <1>1, <2>3 DEF Finish
  <2>4. ASSUME NEW s \in Schedulers,
               \/ \E b \in Runs : Call(s, b)
               \/ Enter(s) \/ Start(s) \/ StartFails(s) \/ Undo(s)
        PROVE  file'[r] = file[r]
    BY <2>4 DEF Call, Enter, Start, StartFails, Undo
  <2>5. ASSUME \/ \E b \in Runs : Leave(b)
               \/ \E q \in Readers : ReadActive(q) \/ \E b \in Runs : ReadFile(q, b)
               \/ Restart
               \/ UNCHANGED vars
        PROVE  file'[r] = file[r]
    BY <2>5 DEF Leave, ReadActive, ReadFile, Restart, vars
  <2> QED
    BY <1>1, <2>1, <2>2, <2>3, <2>4, <2>5 DEF Next, SchedulerStep, BuilderStep
<1>2. TypeOK /\ EvalInv /\ [Next]_vars => [\A r \in Runs : file[r] \in Final => file'[r] = file[r]]_vars
  BY <1>1
<1> QED
  BY <1>2, EvalInitInv, EvalStepInv, EvalTypes, PTL DEF Spec, ResultFinal

-----------------------------------------------------------------------------
(* The job caches. *)

(* Types. *)

LEMMA JobInitTyped == JobInit => JobTypeOK
BY DEF JobInit, JobTypeOK, JobStages, Bodies

LEMMA SweptTable ==
  ASSUME JobTypeOK
  PROVE  /\ Swept \in [Keys -> Jobs \cup {NoJob}]
         /\ \A k \in Keys : Swept[k] # NoJob => Swept[k] = table[k]
         /\ \A k \in Keys : Swept[k] = NoJob => table[k] = NoJob \/ stage[table[k]] = "old"
BY DEF JobTypeOK, Swept, Stale

\* No step leaves the types.
LEMMA JobStepTyped == JobTypeOK /\ [JobNext]_jobVars => JobTypeOK'
<1> SUFFICES ASSUME JobTypeOK, [JobNext]_jobVars PROVE JobTypeOK'
  OBVIOUS
<1> USE NoJobIsNoJob
<1>1. ASSUME NEW c \in Clients, NEW k \in Keys, Attach(c, k) PROVE JobTypeOK'
  BY <1>1, SweptTable DEF JobTypeOK, Attach
<1>2. ASSUME NEW c \in Clients, NEW k \in Keys, NEW j \in Jobs, Create(c, k, j) PROVE JobTypeOK'
  <2>1. table' \in [Keys -> Jobs \cup {NoJob}] /\ key' \in [Jobs -> Keys \cup {NoJob}]
    BY <1>2, SweptTable DEF JobTypeOK, Create
  <2>2. stage' \in [Jobs -> JobStages] /\ stream' \in [Clients -> Jobs \cup {NoJob}]
    BY <1>2 DEF JobTypeOK, Create, JobStages
  <2>3. \A l \in Keys : table'[l] # NoJob => stage'[table'[l]] # "free" /\ key'[table'[l]] = l
    <3> SUFFICES ASSUME NEW l \in Keys, table'[l] # NoJob
                 PROVE  stage'[table'[l]] # "free" /\ key'[table'[l]] = l
      OBVIOUS
    <3>1. CASE l = k
      BY <1>2, <3>1, SweptTable DEF JobTypeOK, Create
    <3>2. CASE l # k
      <4>1. table'[l] = table[l] /\ stage[table[l]] # "free" /\ table[l] \in Jobs
        BY <1>2, <3>2, SweptTable DEF JobTypeOK, Create
      <4>2. table[l] # j /\ key[table[l]] = l
        BY <1>2, <3>2, <4>1, SweptTable DEF JobTypeOK, Create
      <4> QED BY <1>2, <4>1, <4>2 DEF JobTypeOK, Create
    <3> QED BY <3>1, <3>2
  <2>4. \A d \in Clients : stream'[d] # NoJob => stage'[stream'[d]] # "free"
    BY <1>2 DEF JobTypeOK, Create
  <2>5. body' \in [Jobs -> Bodies]
    BY <1>2 DEF JobTypeOK, Create
  <2> QED BY <2>1, <2>2, <2>3, <2>4, <2>5 DEF JobTypeOK
<1>3. ASSUME NEW c \in Clients, Answer(c) \/ Drop(c) PROVE JobTypeOK'
  BY <1>3 DEF JobTypeOK, Answer, Drop
<1>4. ASSUME NEW j \in Jobs, WorkerJob(j) \/ Age(j) PROVE JobTypeOK'
  BY <1>4 DEF JobTypeOK, WorkerJob, Work, SetDone, Age, JobStages, Bodies
<1>5. ASSUME NEW j \in Jobs, ForgetJob(j) PROVE JobTypeOK'
  BY <1>5 DEF JobTypeOK, ForgetJob, Garbage, JobStages, Bodies
<1>6. ASSUME UNCHANGED jobVars PROVE JobTypeOK'
  BY <1>6 DEF JobTypeOK, jobVars
<1> QED BY <1>1, <1>2, <1>3, <1>4, <1>5, <1>6 DEF JobNext

\* Every variable keeps its type, the table names jobs of the right key, and nobody
\* waits for a job that has been forgotten (the cache of the two routes).
THEOREM JobTypes == JobSpec => []JobTypeOK
BY JobInitTyped, JobStepTyped, PTL DEF JobSpec

-----------------------------------------------------------------------------
(* One execution per key. *)

\* A job that has a key and has not been done for ten minutes is in the table, and a
\* free place has no key.
InTable ==
  \A j \in Jobs :
    /\ stage[j] = "free" => key[j] = NoJob
    /\ key[j] # NoJob /\ stage[j] # "old" => table[key[j]] = j

LEMMA InTableInit == JobInit => InTable
BY DEF JobInit, InTable

LEMMA InTableStep == JobTypeOK /\ InTable /\ [JobNext]_jobVars => InTable'
<1> SUFFICES ASSUME JobTypeOK, InTable, [JobNext]_jobVars PROVE InTable'
  OBVIOUS
<1> USE NoJobIsNoJob
<1>1. ASSUME NEW i \in Jobs, key[i] # NoJob, stage[i] # "old" PROVE Swept[key[i]] = i
  BY <1>1 DEF InTable, JobTypeOK, Swept, Stale
<1>2. ASSUME NEW c \in Clients, NEW k \in Keys, Attach(c, k) PROVE InTable'
  BY <1>1, <1>2 DEF InTable, JobTypeOK, Attach
<1>3. ASSUME NEW c \in Clients, NEW k \in Keys, NEW j \in Jobs, Create(c, k, j) PROVE InTable'
  <2> SUFFICES ASSUME NEW i \in Jobs
               PROVE  /\ stage'[i] = "free" => key'[i] = NoJob
                      /\ key'[i] # NoJob /\ stage'[i] # "old" => table'[key'[i]] = i
    BY DEF InTable
  <2>1. CASE i = j
    BY <1>3, <2>1, SweptTable DEF JobTypeOK, Create
  <2>2. CASE i # j
    <3>1. stage'[i] = stage[i] /\ key'[i] = key[i]
      BY <1>3, <2>2 DEF JobTypeOK, Create
    <3>2. ASSUME key[i] # NoJob, stage[i] # "old" PROVE table'[key[i]] = i
      <4>1. Swept[key[i]] = i
        BY <1>1, <3>2
      <4>2. key[i] # k
        BY <1>3, <4>1 DEF Create
      <4> QED BY <1>3, <3>2, <4>1, <4>2, SweptTable DEF JobTypeOK, Create
    <3> QED BY <3>1, <3>2 DEF InTable
  <2> QED BY <2>1, <2>2
<1>4. ASSUME NEW c \in Clients, Answer(c) \/ Drop(c) PROVE InTable'
  BY <1>4 DEF InTable, Answer, Drop
<1>5. ASSUME NEW j \in Jobs, WorkerJob(j) \/ Age(j) PROVE InTable'
  BY <1>5 DEF InTable, JobTypeOK, WorkerJob, Work, SetDone, Age
<1>6. ASSUME NEW j \in Jobs, ForgetJob(j) PROVE InTable'
  BY <1>6 DEF InTable, JobTypeOK, ForgetJob
<1>7. ASSUME UNCHANGED jobVars PROVE InTable'
  BY <1>7 DEF InTable, jobVars
<1> QED BY <1>2, <1>3, <1>4, <1>5, <1>6, <1>7 DEF JobNext

\* However requests and retries, dropped connections, failing starts and sweeps of old
\* jobs interleave, of two jobs of one key one ended more than ten minutes ago.
THEOREM OneExecutionPerKey == JobSpec => []OneExecution
<1>1. JobTypeOK /\ InTable => OneExecution
  BY DEF JobTypeOK, InTable, OneExecution
<1> QED BY <1>1, JobInitTyped, JobStepTyped, InTableInit, InTableStep, PTL DEF JobSpec

-----------------------------------------------------------------------------
(* The response. *)

LEMMA ResponseStep ==
  ASSUME JobTypeOK, [JobNext]_jobVars, NEW j \in Jobs, stage[j] \in {"done", "old"}
  PROVE  stage'[j] = "free" \/ body'[j] = body[j]
BY DEF JobTypeOK, JobNext, jobVars, Attach, Create, Answer, Drop, WorkerJob, Work, SetDone, Age, ForgetJob

\* No step changes the response of a job that is done, so all who come back get the same.
THEOREM ResponsesFinal == JobSpec => ResponseFinal
<1>1. JobTypeOK /\ [JobNext]_jobVars
      => [\A j \in Jobs : stage[j] \in {"done", "old"} =>
            stage'[j] = "free" \/ body'[j] = body[j]]_jobVars
  BY ResponseStep
<1> QED BY <1>1, JobInitTyped, JobStepTyped, PTL DEF JobSpec, ResponseFinal

-----------------------------------------------------------------------------
(* The history file. *)

(* Types. *)

LEMMA HistInitTyped == HistInit => HistTypeOK
BY UnlockedIsNoWriter, MaxReadErrorsIsNat DEF HistInit, HistTypeOK, Histories, Ops, NoOp

LEMMA LoadTyped ==
  ASSUME HistTypeOK, NEW h \in Histories, Load(h)
  PROVE  /\ errors' \in 0 .. MaxReadErrors
         /\ errors' = errors /\ disk # Torn => h = disk
BY MaxReadErrorsIsNat DEF HistTypeOK, Load

\* A writer that begins a rewrite, and one that ends it, keep the types.
LEMMA BeginTyped ==
  ASSUME HistTypeOK, NEW w \in Writers, NEW S \in Histories, NEW h \in Histories,
         NEW k \in {"append", "delete", "purge"}, Begin(w, k, S, h)
  PROVE  /\ pc' \in [Writers -> {"out", "open", "dump", "replace"}]
         /\ op' \in [Writers -> Ops] /\ copy' \in [Writers -> Histories]
         /\ opened' \in [Writers -> {"none", "tmp", "disk"}]
         /\ \A v \in Writers : pc'[v] = "out" <=> op'[v] = NoOp
         /\ op'[w].kind = k /\ \A v \in Writers \ {w} : op'[v] = op[v]
BY DEF HistTypeOK, Begin, Ops, NoOp, Histories

LEMMA EndTyped ==
  ASSUME HistTypeOK, NEW w \in Writers, End(w)
  PROVE  /\ pc' \in [Writers -> {"out", "open", "dump", "replace"}]
         /\ op' \in [Writers -> Ops] /\ copy' \in [Writers -> Histories]
         /\ lock' \in Writers \cup {Unlocked}
         /\ errors' \in 0 .. MaxReadErrors /\ alone' \in BOOLEAN
         /\ \A v \in Writers : /\ pc'[v] = "out" <=> op'[v] = NoOp
                               /\ lock' = v <=> op'[v].kind = "append"
<1>1. NoOp \in Ops /\ NoOp.kind = "none" /\ {} \in Histories
  BY DEF NoOp, Ops, Histories
<1>2. op'[w] = NoOp /\ pc'[w] = "out"
  BY DEF End, HistTypeOK
<1>3. \A v \in Writers \ {w} : op'[v] = op[v] /\ pc'[v] = pc[v]
  BY DEF End, HistTypeOK
<1>4. lock' # w /\ \A v \in Writers \ {w} : lock' = v <=> lock = v
  BY UnlockedIsNoWriter DEF End, HistTypeOK
<1>5. \A v \in Writers : pc[v] = "out" <=> op[v] = NoOp
  BY DEF HistTypeOK
<1>6. \A v \in Writers : lock = v <=> op[v].kind = "append"
  BY DEF HistTypeOK
<1>7. \A v \in Writers : /\ pc'[v] = "out" <=> op'[v] = NoOp
                         /\ lock' = v <=> op'[v].kind = "append"
  BY <1>1, <1>2, <1>3, <1>4, <1>5, <1>6
<1>8. /\ pc' \in [Writers -> {"out", "open", "dump", "replace"}]
      /\ op' \in [Writers -> Ops] /\ copy' \in [Writers -> Histories]
      /\ lock' \in Writers \cup {Unlocked}
      /\ errors' \in 0 .. MaxReadErrors /\ alone' \in BOOLEAN
  BY <1>1 DEF End, HistTypeOK
<1> QED BY <1>7, <1>8

LEMMA RememberTyped ==
  ASSUME NEW S \in Histories, Remember(S) PROVE saved' \in Histories
BY DEF Remember, Histories

LEMMA AppendTyped ==
  ASSUME HistTypeOK, NEW w \in Writers, NEW e \in Entries, AppendEntry(w, e)
  PROVE  HistTypeOK'
<1>1. PICK h \in Histories :
        /\ Load(h)
        /\ alone' = (alone /\ errors' = errors /\ ~Meets("append"))
        /\ \/ /\ e \in h /\ Remember(saved \cup {e})
              /\ UNCHANGED <<lock, writing>>
           \/ /\ e \notin h /\ Begin(w, "append", {e}, h \cup {e})
              /\ lock' = w /\ Remember(saved)
  BY DEF AppendEntry
<1>2. /\ errors' \in 0 .. MaxReadErrors /\ alone' \in BOOLEAN
      /\ disk' = disk /\ tmp' = tmp /\ pc[w] = "out" /\ lock = Unlocked
  BY <1>1, LoadTyped DEF AppendEntry
<1>3. {e} \in Histories /\ h \cup {e} \in Histories /\ saved \in Histories
      /\ saved \cup {e} \in Histories
  BY DEF Histories, HistTypeOK
<1>4. saved' \in Histories
  BY <1>1, <1>3, RememberTyped
<1>5. CASE UNCHANGED <<lock, writing>>
  BY <1>2, <1>4, <1>5 DEF HistTypeOK, writing
<1>6. CASE Begin(w, "append", {e}, h \cup {e}) /\ lock' = w
  <2>1. \A v \in Writers \ {w} : op[v].kind # "append"
    BY <1>2, UnlockedIsNoWriter DEF HistTypeOK
  <2> QED BY <1>2, <1>3, <1>4, <1>6, <2>1, BeginTyped DEF HistTypeOK
<1> QED BY <1>1, <1>5, <1>6

LEMMA DeleteTyped ==
  ASSUME HistTypeOK, NEW w \in Writers, NEW S \in Histories, Delete(w, S) \/ Purge(w, S)
  PROVE  HistTypeOK'
<1>1. PICK h \in Histories, k \in {"delete", "purge"} : Begin(w, k, S, h)
  BY DEF Delete, Purge, Histories, HistTypeOK
<1>2. /\ disk' = disk /\ tmp' = tmp /\ lock' = lock /\ pc[w] = "out"
      /\ errors' \in 0 .. MaxReadErrors /\ alone' \in BOOLEAN
  BY LoadTyped DEF Delete, Purge, HistTypeOK
<1>3. saved' \in Histories
  BY RememberTyped DEF Delete, Purge, HistTypeOK
<1>4. lock # w
  BY <1>2 DEF HistTypeOK, NoOp
<1>5. op'[w].kind # "append" /\ \A v \in Writers \ {w} : op'[v] = op[v]
  BY <1>1, BeginTyped
<1>6. \A v \in Writers : lock' = v <=> op'[v].kind = "append"
  BY <1>2, <1>4, <1>5 DEF HistTypeOK
<1>7. /\ pc' \in [Writers -> {"out", "open", "dump", "replace"}]
      /\ op' \in [Writers -> Ops] /\ copy' \in [Writers -> Histories]
      /\ opened' \in [Writers -> {"none", "tmp", "disk"}]
      /\ \A v \in Writers : pc'[v] = "out" <=> op'[v] = NoOp
  BY <1>1, BeginTyped
<1> QED BY <1>2, <1>3, <1>6, <1>7 DEF HistTypeOK

LEMMA RewriteTyped ==
  ASSUME HistTypeOK, NEW w \in Writers, Rewrite(w)
  PROVE  HistTypeOK'
<1>1. CASE Open(w)
  <2>1. op[w] # NoOp
    BY <1>1 DEF Open, HistTypeOK
  <2> QED BY <1>1, <2>1 DEF Open, HistTypeOK
<1>2. CASE Dump(w)
  <2>1. op[w] # NoOp
    BY <1>2 DEF Dump, HistTypeOK
  <2>2. disk' \in Histories \cup {Torn} /\ tmp' \in Histories \cup {Torn, NoFile}
    BY <1>2 DEF Dump, HistTypeOK
  <2> QED BY <1>2, <2>1, <2>2 DEF Dump, HistTypeOK
<1>3. CASE Replace(w)
  <2>1. disk' \in Histories \cup {Torn} /\ tmp' = NoFile
    BY <1>3 DEF Replace, HistTypeOK
  <2>2. opened' \in [Writers -> {"none", "tmp", "disk"}]
    BY <1>3 DEF Replace, HistTypeOK, Renamed
  <2>3. saved' \in Histories
    BY <1>3, RememberTyped DEF Replace, HistTypeOK, Histories, Ops
  <2> QED BY <1>3, <2>1, <2>2, <2>3, EndTyped DEF Replace, HistTypeOK
<1>4. CASE WriteFails(w)
  <2>1. tmp' \in Histories \cup {Torn, NoFile}
    BY <1>4 DEF WriteFails, HistTypeOK
  <2>2. opened' \in [Writers -> {"none", "tmp", "disk"}]
    BY <1>4 DEF WriteFails, HistTypeOK, Unlinked
  <2>3. End(w) /\ UNCHANGED <<disk, saved>>
    BY <1>4 DEF WriteFails
  <2> QED BY <2>1, <2>2, <2>3, EndTyped DEF HistTypeOK
<1> QED BY <1>1, <1>2, <1>3, <1>4 DEF Rewrite

LEMMA CrashTyped == ASSUME HistTypeOK, Crash PROVE HistTypeOK'
BY UnlockedIsNoWriter DEF HistTypeOK, Crash, Ops, NoOp, Histories

LEMMA HistStepTyped == HistTypeOK /\ [HistNext]_histVars => HistTypeOK'
<1> SUFFICES ASSUME HistTypeOK, [HistNext]_histVars PROVE HistTypeOK'
  OBVIOUS
<1>1. CASE UNCHANGED histVars
  BY <1>1 DEF histVars, writing, HistTypeOK
<1>2. CASE HistNext
  BY <1>2, AppendTyped, DeleteTyped, RewriteTyped, CrashTyped DEF HistNext
<1> QED BY <1>1, <1>2

\* Every variable keeps its type, and the lock is held by whoever appends: no failing
\* write and no crash of the web process leaks it.
THEOREM HistTypes == HistSpec => []HistTypeOK
BY HistInitTyped, HistStepTyped, PTL DEF HistSpec

-----------------------------------------------------------------------------
(* What is kept. *)

\* As long as the rewrites are alone there is one at a time, what it is going to write
\* is what the history is to be after it, and nobody else has its file open.
Undisturbed ==
  alone =>
    /\ disk = saved
    /\ \A v, w \in Writers : Busy(v) /\ Busy(w) => v = w
    /\ \A w \in Writers :
         /\ Busy(w) => copy[w] = IF op[w].kind = "append" THEN saved \cup op[w].of
                                                       ELSE saved \ op[w].of
         /\ pc[w] \in {"out", "open"} => opened[w] = "none"
         /\ pc[w] \in {"dump", "replace"} => opened[w] = "tmp"
         /\ pc[w] = "replace" => tmp = copy[w]

LEMMA UndisturbedInit == HistInit => Undisturbed
BY DEF HistInit, Undisturbed, Busy

\* A rewrite that begins alone.
LEMMA UndisturbedBegin ==
  ASSUME HistTypeOK, Undisturbed, alone, NEW w \in Writers, NEW S \in Histories,
         NEW k \in {"append", "delete", "purge"},
         \A v \in Writers : ~Busy(v),
         Begin(w, k, S, IF k = "append" THEN disk \cup S ELSE disk \ S),
         disk' = disk, saved' = saved, tmp' = tmp
  PROVE  Undisturbed'
<1>1. disk = saved /\ \A v \in Writers : pc[v] = "out" /\ opened[v] = "none"
  BY DEF Undisturbed, Busy
<1>2. \A v \in Writers : v # w => pc'[v] = "out"
  BY <1>1 DEF Begin, HistTypeOK
<1>3. /\ pc'[w] = "open" /\ opened' = opened
      /\ op'[w] = [kind |-> k, of |-> S]
      /\ copy'[w] = IF k = "append" THEN disk \cup S ELSE disk \ S
  BY DEF Begin, HistTypeOK
<1>4. /\ pc'[w] = "open" /\ opened'[w] = "none" /\ disk' = saved'
      /\ copy'[w] = IF op'[w].kind = "append" THEN saved' \cup op'[w].of ELSE saved' \ op'[w].of
  BY <1>1, <1>3
<1>5. \A v \in Writers : v # w => pc'[v] = "out" /\ opened'[v] = "none"
  BY <1>1, <1>2, <1>3
<1> QED BY <1>4, <1>5 DEF Undisturbed, Busy

LEMMA UndisturbedAppend ==
  ASSUME HistTypeOK, Undisturbed, NEW w \in Writers, NEW e \in Entries, AppendEntry(w, e)
  PROVE  Undisturbed'
<1> SUFFICES ASSUME alone' PROVE Undisturbed'
  BY DEF Undisturbed
<1>1. PICK h \in Histories :
        /\ Load(h)
        /\ alone' = (alone /\ errors' = errors /\ ~Meets("append"))
        /\ \/ /\ e \in h /\ Remember(saved \cup {e})
              /\ UNCHANGED <<lock, writing>>
           \/ /\ e \notin h /\ Begin(w, "append", {e}, h \cup {e})
              /\ lock' = w /\ Remember(saved)
  BY DEF AppendEntry
<1>2. alone /\ ~Meets("append") /\ errors' = errors
  BY <1>1
<1>3. disk = saved /\ h = saved /\ disk' = disk /\ tmp' = tmp
  <2>1. disk = saved /\ disk # Torn
    BY <1>2, TornIsNoHistory DEF Undisturbed, HistTypeOK, Histories
  <2> QED BY <1>1, <1>2, <2>1, LoadTyped DEF AppendEntry
<1>4. \A v \in Writers : ~Busy(v)
  <2>1. \A v \in Writers : op[v].kind # "append"
    BY UnlockedIsNoWriter DEF AppendEntry, HistTypeOK
  <2> QED BY <1>2, <2>1 DEF Meets
<1>5. CASE e \in h /\ Remember(saved \cup {e}) /\ UNCHANGED <<lock, writing>>
  <2>1. saved' = saved
    BY <1>3, <1>5 DEF Remember
  <2> QED BY <1>2, <1>3, <1>5, <2>1 DEF Undisturbed, Busy, writing
<1>6. CASE Begin(w, "append", {e}, h \cup {e}) /\ Remember(saved)
  BY <1>2, <1>3, <1>4, <1>6, UndisturbedBegin DEF Remember, Histories
<1> QED BY <1>1, <1>5, <1>6

LEMMA UndisturbedDelete ==
  ASSUME HistTypeOK, Undisturbed, NEW w \in Writers, NEW S \in Histories,
         Delete(w, S) \/ Purge(w, S)
  PROVE  Undisturbed'
<1> SUFFICES ASSUME alone' PROVE Undisturbed'
  BY DEF Undisturbed
<1>1. alone /\ ~Meets("delete")
  BY DEF Delete, Purge, Meets
<1>2. disk = saved /\ disk # Torn
  BY <1>1, TornIsNoHistory DEF Undisturbed, HistTypeOK, Histories
<1>3. \A v \in Writers : ~Busy(v)
  BY <1>1 DEF Meets
<1>4. disk' = disk /\ tmp' = tmp /\ saved' = saved
  BY DEF Delete, Purge, Remember
<1>5. PICK k \in {"delete", "purge"} : Begin(w, k, S, disk \ S)
  BY <1>2, LoadTyped DEF Delete, Purge
<1> QED BY <1>1, <1>3, <1>4, <1>5, UndisturbedBegin

\* The only rewrite there is goes on.
LEMMA UndisturbedRewrite ==
  ASSUME HistTypeOK, Undisturbed, NEW w \in Writers, Rewrite(w)
  PROVE  Undisturbed'
<1> SUFFICES ASSUME alone' PROVE Undisturbed'
  BY DEF Undisturbed
<1>1. alone /\ Busy(w)
  BY DEF Rewrite, Open, Dump, Replace, WriteFails, End, Busy
<1>2. /\ disk = saved
      /\ copy[w] = IF op[w].kind = "append" THEN saved \cup op[w].of ELSE saved \ op[w].of
      /\ pc[w] = "open" => opened[w] = "none"
      /\ pc[w] \in {"dump", "replace"} => opened[w] = "tmp"
      /\ pc[w] = "replace" => tmp = copy[w]
  BY <1>1 DEF Undisturbed
<1>3. \A v \in Writers \ {w} : pc[v] = "out" /\ opened[v] = "none"
  BY <1>1 DEF Undisturbed, Busy
<1>4. CASE Open(w)
  BY <1>1, <1>2, <1>3, <1>4 DEF Open, Undisturbed, Busy, HistTypeOK
<1>5. CASE Dump(w)
  <2>1. tmp' = copy[w] /\ disk' = disk
    BY <1>2, <1>3, <1>5 DEF Dump
  <2> QED BY <1>1, <1>2, <1>3, <1>5, <2>1 DEF Dump, Undisturbed, Busy, HistTypeOK
<1>6. ASSUME End(w) PROVE pc'[w] = "out" /\ \A v \in Writers \ {w} : pc'[v] = "out"
  BY <1>3, <1>6 DEF End, HistTypeOK
<1>7. CASE Replace(w)
  <2>1. disk' = saved'
    BY <1>2, <1>7 DEF Replace, Remember
  <2>2. \A v \in Writers : opened'[v] = "none"
    BY <1>3, <1>7 DEF Replace, Renamed
  <2> QED BY <1>6, <1>7, <2>1, <2>2 DEF Replace, Undisturbed, Busy
<1>8. CASE WriteFails(w)
  <2>1. \A v \in Writers : opened'[v] = "none"
    BY <1>3, <1>8 DEF WriteFails, Unlinked, HistTypeOK
  <2>2. disk' = disk /\ saved' = saved /\ End(w)
    BY <1>8 DEF WriteFails
  <2> QED BY <1>2, <1>6, <2>1, <2>2 DEF Undisturbed, Busy
<1> QED BY <1>4, <1>5, <1>7, <1>8 DEF Rewrite

LEMMA UndisturbedStep == HistTypeOK /\ Undisturbed /\ [HistNext]_histVars => Undisturbed'
<1> SUFFICES ASSUME HistTypeOK, Undisturbed, [HistNext]_histVars PROVE Undisturbed'
  OBVIOUS
<1>1. CASE UNCHANGED histVars
  BY <1>1 DEF histVars, writing, Undisturbed, Busy
<1>2. CASE Crash
  BY <1>2 DEF Crash, Undisturbed, Busy
<1>3. CASE HistNext /\ ~Crash
  BY <1>3, UndisturbedAppend, UndisturbedDelete, UndisturbedRewrite DEF HistNext
<1> QED BY <1>1, <1>2, <1>3

\* For any number of writers and entries: as long as no rewrite without the lock meets
\* another and no read fails, the history holds what was appended and not deleted,
\* whatever writes fail and wherever the web process dies.
THEOREM HistoryIsKept == HistSpec => []HistoryKept
<1>1. Undisturbed => HistoryKept
  BY DEF Undisturbed, HistoryKept
<1> QED BY <1>1, HistInitTyped, HistStepTyped, UndisturbedInit, UndisturbedStep, PTL DEF HistSpec

-----------------------------------------------------------------------------
(* Generations by a model. *)

\* What the request may tell by now of an outcome: a cancellation that came before an
\* answer was accepted leaves an error only.
Outcomes(s) == IF early[s] THEN {"error"} ELSE {"result", "error"}

\* What may have been told: nothing, one event, an outcome and the end.
Nothing == <<>>
Just(o) == <<o>>
AndEnd(o) == <<o, "end">>

\* What has been passed on (g) and what has not (e) while the worker is at w: nothing
\* before it is through, then one outcome of O, and at last the end of the stream.
Tells(w, g, e, O) ==
  /\ w \notin {"closing", "ended"} => g = Nothing /\ e = Nothing
  /\ w = "closing" => \E o \in O :
       \/ g = Nothing /\ e = Just(o)
       \/ g = Just(o) /\ e = Nothing
  /\ w = "ended" => \E o \in O :
       \/ g = Nothing /\ e = AndEnd(o)
       \/ g = Just(o) /\ e = Just("end")
       \/ g = AndEnd(o) /\ e = Nothing

Told(s) == Tells(worker[s], got[s], events[s], Outcomes(s))

\* An early cancellation is still to be seen, and keeps an answer from being accepted.
EarlyCounts(s) == early[s] => cancelled[s] /\ worker[s] # "preview"

AiInv ==
  /\ AiTypeOK
  /\ {events, got} \subseteq [AiRequests -> Seq({"result", "error", "end"})]
  /\ \A s \in AiRequests :
       /\ Told(s) /\ EarlyCounts(s)
       /\ entry[s] = "none" => worker[s] = "none"

\* The types but for the length of what is told, which Told gives.
AiTyped ==
  /\ via \in [AiRequests -> Ways]
  /\ entry \in [AiRequests -> {"none", "active", "gone"}]
  /\ {cancelled, response, canceller, halted, closed, early, inLine}
       \subseteq [AiRequests -> BOOLEAN]
  /\ worker \in [AiRequests -> WorkerStages]
  /\ attempt \in [AiRequests -> 0 .. Attempts]
  /\ reader \in [AiRequests -> {"none", "opening", "reading", "over"}]
  /\ queue \in [AiRequests -> {"nothing", "done", "error"}]

\* No step leaves the types.
LEMMA AiStepTyped ==
  ASSUME AiTyped, NEW s \in AiRequests, AiStep(s)
  PROVE  AiTyped'
<1> USE AttemptsArePositive DEF AiTyped, requestVars, readerVars, WorkerStages, At, Emit, Fail
<1>0. Polls(s) \in BOOLEAN
  BY DEF Polls
<1>1. ASSUME Register(s) PROVE AiTyped'
  BY <1>1 DEF Register
<1>2. ASSUME StartWorker(s) PROVE AiTyped'
  BY <1>2 DEF StartWorker
<1>3. ASSUME PassOn(s) PROVE AiTyped'
  BY <1>3 DEF PassOn
<1>4. ASSUME Vanish(s) PROVE AiTyped'
  BY <1>4 DEF Vanish
<1>5. ASSUME ForgetRequest(s) PROVE AiTyped'
  BY <1>5 DEF ForgetRequest
<1>6. ASSUME SetCancelled(s) PROVE AiTyped'
  BY <1>6 DEF SetCancelled
<1>7. ASSUME CloseResponse(s) PROVE AiTyped'
  BY <1>7 DEF CloseResponse
<1>8. ASSUME Ask(s) PROVE AiTyped'
  BY <1>8 DEF Ask
<1>9. ASSUME SeeCancelled(s) PROVE AiTyped'
  BY <1>9 DEF SeeCancelled
<1>10. ASSUME Deadline(s) PROVE AiTyped'
  BY <1>10, <1>0 DEF Deadline
<1>11. ASSUME LeaveInLine(s) PROVE AiTyped'
  BY <1>11 DEF LeaveInLine
<1>12. ASSUME HearEnd(s) PROVE AiTyped'
  BY <1>12 DEF HearEnd
<1>13. ASSUME Judge(s) PROVE AiTyped'
  <2>1. UNCHANGED <<requestVars, readerVars, response>> /\ worker' \in [AiRequests -> WorkerStages]
    BY <1>13 DEF Judge
  <2>2. attempt' \in [AiRequests -> 0 .. Attempts]
    BY <1>13 DEF Judge
  <2> QED
    BY <2>1, <2>2
<1>14. ASSUME BridgeEnds(s) PROVE AiTyped'
  BY <1>14 DEF BridgeEnds
<1>15. ASSUME Deliver(s) PROVE AiTyped'
  BY <1>15 DEF Deliver
<1>16. ASSUME BuildPreview(s) PROVE AiTyped'
  BY <1>16 DEF BuildPreview
<1>17. ASSUME CloseWorker(s) PROVE AiTyped'
  BY <1>17 DEF CloseWorker
<1>18. ASSUME OpenResponse(s) PROVE AiTyped'
  BY <1>18, <1>0 DEF OpenResponse
<1>19. ASSUME ReaderEnds(s) PROVE AiTyped'
  BY <1>19 DEF ReaderEnds
<1> QED
  BY <1>1, <1>2, <1>3, <1>4, <1>5, <1>6, <1>7, <1>8, <1>9, <1>10, <1>11, <1>12, <1>13, <1>14, <1>15, <1>16, <1>17, <1>18, <1>19 DEF AiStep, WorkerStep

\* The sequences that are told, by what is appended to them and taken from them.
LEMMA ToldSequences ==
  ASSUME NEW o
  PROVE  /\ Append(Nothing, o) = Just(o) /\ Append(Just(o), "end") = AndEnd(o)
         /\ Head(Just(o)) = o /\ Tail(Just(o)) = Nothing
         /\ Head(AndEnd(o)) = o /\ Tail(AndEnd(o)) = Just("end")
         /\ Just(o) # Nothing /\ AndEnd(o) # Nothing
<1> USE DEF Nothing, Just, AndEnd
<1> DEFINE p == Append(Just(o), "end")
           q == AndEnd(o)
<1>1. p = q
  <2>1. Just(o) \in Seq({o, "end"}) /\ Len(Just(o)) = 1
    OBVIOUS
  <2>2. p \in Seq({o, "end"}) /\ Len(p) = 2 /\ p[1] = o /\ p[2] = "end"
    BY <2>1
  <2>3. q \in Seq({o, "end"}) /\ Len(q) = 2 /\ q[1] = o /\ q[2] = "end"
    OBVIOUS
  <2>4. p = [i \in 1 .. 2 |-> p[i]] /\ q = [i \in 1 .. 2 |-> q[i]]
    BY <2>2, <2>3
  <2>5. \A i \in 1 .. 2 : p[i] = q[i]
    BY <2>2, <2>3
  <2> HIDE DEF p, q
  <2> QED
    BY <2>4, <2>5
<1>2. Append(Nothing, o) = Just(o)
  OBVIOUS
<1>3. Head(Just(o)) = o /\ Head(AndEnd(o)) = o
  OBVIOUS
<1>4. Tail(Just(o)) = Nothing
  OBVIOUS
<1>5. Tail(AndEnd(o)) = Just("end")
  OBVIOUS
<1>6. Just(o) # Nothing /\ AndEnd(o) # Nothing
  OBVIOUS
<1> QED
  BY <1>1, <1>2, <1>3, <1>4, <1>5, <1>6

\* What a request tells, what it is told, and whether it was cancelled early, is changed
\* by its own steps only.
LEMMA AiOthers ==
  ASSUME AiInv, NEW s \in AiRequests, AiStep(s), NEW t \in AiRequests \ {s}
  PROVE  /\ worker'[t] = worker[t] /\ events'[t] = events[t] /\ got'[t] = got[t]
         /\ early'[t] = early[t] /\ cancelled'[t] = cancelled[t] /\ entry'[t] = entry[t]
<1> DEFINE Same == /\ worker'[t] = worker[t] /\ events'[t] = events[t] /\ got'[t] = got[t]
                   /\ early'[t] = early[t] /\ cancelled'[t] = cancelled[t] /\ entry'[t] = entry[t]
<1> USE DEF requestVars, readerVars, At, Emit, Fail
<1>0. /\ worker \in [AiRequests -> WorkerStages] /\ entry \in [AiRequests -> {"none", "active", "gone"}]
      /\ DOMAIN events = AiRequests /\ DOMAIN got = AiRequests
      /\ early \in [AiRequests -> BOOLEAN] /\ cancelled \in [AiRequests -> BOOLEAN]
  BY DEF AiInv, AiTypeOK
<1>1. ASSUME Register(s) PROVE Same
  BY <1>1, <1>0 DEF Register
<1>2. ASSUME StartWorker(s) PROVE Same
  BY <1>2, <1>0 DEF StartWorker
<1>3. ASSUME PassOn(s) PROVE Same
  BY <1>3, <1>0 DEF PassOn
<1>4. ASSUME Vanish(s) PROVE Same
  BY <1>4, <1>0 DEF Vanish
<1>5. ASSUME ForgetRequest(s) PROVE Same
  BY <1>5, <1>0 DEF ForgetRequest
<1>6. ASSUME SetCancelled(s) PROVE Same
  BY <1>6, <1>0 DEF SetCancelled
<1>7. ASSUME CloseResponse(s) PROVE Same
  BY <1>7, <1>0 DEF CloseResponse
<1>8. ASSUME Ask(s) PROVE Same
  BY <1>8, <1>0 DEF Ask
<1>9. ASSUME SeeCancelled(s) PROVE Same
  BY <1>9, <1>0 DEF SeeCancelled
<1>10. ASSUME Deadline(s) PROVE Same
  BY <1>10, <1>0 DEF Deadline
<1>11. ASSUME LeaveInLine(s) PROVE Same
  BY <1>11, <1>0 DEF LeaveInLine
<1>12. ASSUME HearEnd(s) PROVE Same
  BY <1>12, <1>0 DEF HearEnd
<1>13. ASSUME Judge(s) PROVE Same
  BY <1>13, <1>0 DEF Judge
<1>14. ASSUME BridgeEnds(s) PROVE Same
  BY <1>14, <1>0 DEF BridgeEnds
<1>15. ASSUME Deliver(s) PROVE Same
  BY <1>15, <1>0 DEF Deliver
<1>16. ASSUME BuildPreview(s) PROVE Same
  BY <1>16, <1>0 DEF BuildPreview
<1>17. ASSUME CloseWorker(s) PROVE Same
  BY <1>17, <1>0 DEF CloseWorker
<1>18. ASSUME OpenResponse(s) PROVE Same
  BY <1>18, <1>0 DEF OpenResponse
<1>19. ASSUME ReaderEnds(s) PROVE Same
  BY <1>19, <1>0 DEF ReaderEnds
<1> QED
  BY <1>1, <1>2, <1>3, <1>4, <1>5, <1>6, <1>7, <1>8, <1>9, <1>10, <1>11, <1>12, <1>13, <1>14, <1>15, <1>16, <1>17, <1>18, <1>19 DEF AiStep, WorkerStep

\* Sequences of events.
Telling == Seq({"result", "error", "end"})

LEMMA AiEventsTyped ==
  ASSUME AiInv, NEW s \in AiRequests, AiStep(s)
  PROVE  events' \in [AiRequests -> Telling] /\ got' \in [AiRequests -> Telling]
<1> DEFINE Goal == events' \in [AiRequests -> Telling] /\ got' \in [AiRequests -> Telling]
<1>0. /\ events \in [AiRequests -> Telling] /\ got \in [AiRequests -> Telling] /\ Nothing \in Telling
      /\ \A q \in Telling, o \in {"result", "error", "end"} : Append(q, o) \in Telling
      /\ \A q \in Telling : q # Nothing => Head(q) \in {"result", "error", "end"} /\ Tail(q) \in Telling
  BY DEF AiInv, Telling, Nothing
<1>e. ASSUME NEW o \in {"result", "error", "end"}, events' = [events EXCEPT ![s] = Append(@, o)]
      PROVE  events' \in [AiRequests -> Telling]
  BY <1>0, <1>e
<1>1. ASSUME Register(s) PROVE Goal
  BY <1>1, <1>0, <1>e DEF Register, requestVars, Emit, Fail
<1>2. ASSUME StartWorker(s) PROVE Goal
  BY <1>2, <1>0, <1>e DEF StartWorker, requestVars, Emit, Fail
<1>3. ASSUME PassOn(s) PROVE Goal
  BY <1>3, <1>0, <1>e DEF PassOn, Nothing
<1>4. ASSUME Vanish(s) PROVE Goal
  BY <1>4, <1>0, <1>e DEF Vanish, requestVars, Emit, Fail
<1>5. ASSUME ForgetRequest(s) PROVE Goal
  BY <1>5, <1>0, <1>e DEF ForgetRequest, Nothing
<1>6. ASSUME SetCancelled(s) PROVE Goal
  BY <1>6, <1>0, <1>e DEF SetCancelled, requestVars, Emit, Fail
<1>7. ASSUME CloseResponse(s) PROVE Goal
  BY <1>7, <1>0, <1>e DEF CloseResponse, requestVars, Emit, Fail
<1>8. ASSUME Ask(s) PROVE Goal
  BY <1>8, <1>0, <1>e DEF Ask, requestVars, Emit, Fail
<1>9. ASSUME SeeCancelled(s) PROVE Goal
  BY <1>9, <1>0, <1>e DEF SeeCancelled, requestVars, Emit, Fail
<1>10. ASSUME Deadline(s) PROVE Goal
  BY <1>10, <1>0, <1>e DEF Deadline, requestVars, Emit, Fail
<1>11. ASSUME LeaveInLine(s) PROVE Goal
  BY <1>11, <1>0, <1>e DEF LeaveInLine, requestVars, Emit, Fail
<1>12. ASSUME HearEnd(s) PROVE Goal
  BY <1>12, <1>0, <1>e DEF HearEnd, requestVars, Emit, Fail
<1>13. ASSUME Judge(s) PROVE Goal
  BY <1>13, <1>0, <1>e DEF Judge, requestVars, Emit, Fail
<1>14. ASSUME BridgeEnds(s) PROVE Goal
  BY <1>14, <1>0, <1>e DEF BridgeEnds, requestVars, Emit, Fail
<1>15. ASSUME Deliver(s) PROVE Goal
  BY <1>15, <1>0, <1>e DEF Deliver, requestVars, Emit, Fail
<1>16. ASSUME BuildPreview(s) PROVE Goal
  BY <1>16, <1>0, <1>e DEF BuildPreview, requestVars, Emit, Fail
<1>17. ASSUME CloseWorker(s) PROVE Goal
  BY <1>17, <1>0, <1>e DEF CloseWorker, requestVars, Emit, Fail
<1>18. ASSUME OpenResponse(s) PROVE Goal
  BY <1>18, <1>0, <1>e DEF OpenResponse, requestVars, Emit, Fail
<1>19. ASSUME ReaderEnds(s) PROVE Goal
  BY <1>19, <1>0, <1>e DEF ReaderEnds, requestVars, Emit, Fail
<1> QED
  BY <1>1, <1>2, <1>3, <1>4, <1>5, <1>6, <1>7, <1>8, <1>9, <1>10, <1>11, <1>12, <1>13, <1>14, <1>15, <1>16, <1>17, <1>18, <1>19 DEF AiStep, WorkerStep

\* A worker that goes on tells nothing; one that has an outcome tells it.
LEMMA WorkerGoesOn ==
  ASSUME AiInv, NEW s \in AiRequests, worker[s] \notin {"closing", "ended"},
         UNCHANGED <<requestVars, events>>, NEW p \in WorkerStages \ {"closing", "ended"}, At(s, p),
         p = "preview" => ~early[s], entry[s] # "none"
  PROVE  Told(s)' /\ EarlyCounts(s)' /\ entry'[s] # "none"
BY DEF AiInv, AiTypeOK, requestVars, At, Told, Tells, EarlyCounts

LEMMA WorkerTells ==
  ASSUME AiInv, NEW s \in AiRequests, worker[s] \notin {"closing", "ended"},
         UNCHANGED requestVars, NEW o \in Outcomes(s), Emit(s, o), entry[s] # "none"
  PROVE  Told(s)' /\ EarlyCounts(s)' /\ entry'[s] # "none"
<1>1. worker'[s] = "closing" /\ got'[s] = Nothing /\ events'[s] = Append(Nothing, o)
      /\ early'[s] = early[s] /\ cancelled'[s] = cancelled[s] /\ entry'[s] = entry[s]
  BY DEF AiInv, AiTypeOK, requestVars, Emit, At, Told, Tells
<1>2. events'[s] = Just(o) /\ o \in Outcomes(s)'
  BY <1>1, ToldSequences DEF Outcomes
<1>3. Told(s)'
  BY <1>1, <1>2 DEF Told, Tells
<1> QED
  BY <1>1, <1>3 DEF AiInv, EarlyCounts

\* Every step keeps what a request has told so far in order.
LEMMA AiStepTold ==
  ASSUME AiInv, NEW s \in AiRequests, AiStep(s)
  PROVE  /\ Told(s)' /\ EarlyCounts(s)'
         /\ entry'[s] = "none" => worker'[s] = "none"
<1> DEFINE Goal == Told(s)' /\ EarlyCounts(s)' /\ (entry'[s] = "none" => worker'[s] = "none")
<1>0. "error" \in Outcomes(s) /\ (worker[s] # "none" => entry[s] # "none")
  BY DEF Outcomes, AiInv
<1>1. ASSUME Register(s) PROVE Goal
  BY <1>1 DEF Register, AiInv, AiTypeOK, requestVars, readerVars, Told, Tells, EarlyCounts, Outcomes
<1>2. ASSUME StartWorker(s) PROVE Goal
  BY <1>2 DEF StartWorker, AiInv, AiTypeOK, readerVars, At, Told, Tells, EarlyCounts
<1>3. ASSUME PassOn(s) PROVE Goal
  <2>1. /\ worker'[s] = worker[s] /\ early'[s] = early[s] /\ cancelled'[s] = cancelled[s]
        /\ entry'[s] # "none" /\ events[s] # Nothing
        /\ got'[s] = Append(got[s], Head(events[s])) /\ events'[s] = Tail(events[s])
    BY <1>3 DEF PassOn, AiInv, AiTypeOK, Nothing
  <2>2. Outcomes(s)' = Outcomes(s)
    BY <2>1 DEF Outcomes
  <2>3. CASE worker[s] = "closing"
    <3>1. PICK o \in Outcomes(s) : got[s] = Nothing /\ events[s] = Just(o)
      BY <2>1, <2>3 DEF AiInv, Told, Tells
    <3>2. got'[s] = Just(o) /\ events'[s] = Nothing
      BY <2>1, <3>1, ToldSequences
    <3> QED
      BY <2>1, <2>2, <2>3, <3>2 DEF AiInv, Told, Tells, EarlyCounts
  <2>4. CASE worker[s] = "ended"
    <3>1. PICK o \in Outcomes(s) : \/ got[s] = Nothing /\ events[s] = AndEnd(o)
                                   \/ got[s] = Just(o) /\ events[s] = Just("end")
      BY <2>1, <2>4 DEF AiInv, Told, Tells
    <3>2. \/ got'[s] = Just(o) /\ events'[s] = Just("end")
          \/ got'[s] = AndEnd(o) /\ events'[s] = Nothing
      <4>1. CASE got[s] = Nothing /\ events[s] = AndEnd(o)
        BY <2>1, <4>1, ToldSequences
      <4>2. CASE got[s] = Just(o) /\ events[s] = Just("end")
        BY <2>1, <4>2, ToldSequences
      <4> QED
        BY <3>1, <4>1, <4>2
    <3> QED
      BY <2>1, <2>2, <2>4, <3>2 DEF AiInv, Told, Tells, EarlyCounts
  <2> QED
    BY <2>1, <2>3, <2>4 DEF AiInv, Told, Tells
<1>4. ASSUME Vanish(s) PROVE Goal
  BY <1>4, ToldSequences DEF Vanish, AiInv, AiTypeOK, requestVars, readerVars, Told, Tells, EarlyCounts, Outcomes
<1>5. ASSUME ForgetRequest(s) PROVE Goal
  BY <1>5, ToldSequences DEF ForgetRequest, AiInv, AiTypeOK, Told, Tells, EarlyCounts, Outcomes, Nothing
<1>6. ASSUME SetCancelled(s) PROVE Goal
  BY <1>6, ToldSequences DEF SetCancelled, AiInv, AiTypeOK, requestVars, readerVars, Told, Tells, EarlyCounts, Outcomes
<1>7. ASSUME CloseResponse(s) PROVE Goal
  BY <1>7, ToldSequences DEF CloseResponse, AiInv, AiTypeOK, requestVars, readerVars, Told, Tells, EarlyCounts, Outcomes
<1>8. ASSUME Ask(s) PROVE Goal
  BY <1>8, <1>0, WorkerGoesOn, WorkerTells DEF Ask, Fail, WorkerStages
<1>9. ASSUME SeeCancelled(s) PROVE Goal
  BY <1>9, <1>0, WorkerGoesOn, WorkerTells DEF SeeCancelled, Fail, WorkerStages
<1>10. ASSUME Deadline(s) PROVE Goal
  BY <1>10, <1>0, WorkerGoesOn, WorkerTells DEF Deadline, Fail, WorkerStages
<1>11. ASSUME LeaveInLine(s) PROVE Goal
  BY <1>11, <1>0, WorkerGoesOn, WorkerTells DEF LeaveInLine, Fail, WorkerStages
<1>12. ASSUME HearEnd(s) PROVE Goal
  BY <1>12, <1>0, WorkerGoesOn, WorkerTells DEF HearEnd, Fail, WorkerStages
<1>13. ASSUME Judge(s) PROVE Goal
  BY <1>13, <1>0, WorkerGoesOn, WorkerTells DEF Judge, Fail, WorkerStages
<1>14. ASSUME BridgeEnds(s) PROVE Goal
  BY <1>14, <1>0, WorkerGoesOn, WorkerTells DEF BridgeEnds, Fail, WorkerStages
<1>15. ASSUME Deliver(s) PROVE Goal
  <2>1. ~cancelled[s] => ~early[s] /\ "result" \in Outcomes(s)
    BY DEF AiInv, EarlyCounts, Outcomes
  <2> QED
    BY <1>15, <1>0, <2>1, WorkerGoesOn, WorkerTells DEF Deliver, Fail, WorkerStages
<1>16. ASSUME BuildPreview(s) PROVE Goal
  <2>1. worker[s] = "preview" => {"result", "error"} = Outcomes(s)
    BY DEF AiInv, EarlyCounts, Outcomes
  <2> QED
    BY <1>16, <1>0, <2>1, WorkerTells DEF BuildPreview
<1>17. ASSUME CloseWorker(s) PROVE Goal
  <2>1. /\ worker[s] = "closing" /\ worker'[s] = "ended" /\ got'[s] = got[s]
        /\ early'[s] = early[s] /\ cancelled'[s] = cancelled[s] /\ entry'[s] = entry[s]
        /\ events'[s] = Append(events[s], "end")
    BY <1>17 DEF CloseWorker, AiInv, AiTypeOK, requestVars, At
  <2>2. PICK o \in Outcomes(s) : \/ got[s] = Nothing /\ events[s] = Just(o)
                                 \/ got[s] = Just(o) /\ events[s] = Nothing
    BY <2>1 DEF AiInv, Told, Tells
  <2>3. o \in Outcomes(s)'
    BY <2>1 DEF Outcomes
  <2>4. \/ got'[s] = Nothing /\ events'[s] = AndEnd(o)
        \/ got'[s] = Just(o) /\ events'[s] = Just("end")
    BY <2>1, <2>2, ToldSequences
  <2>5. Told(s)'
    BY <2>1, <2>3, <2>4 DEF Told, Tells
  <2> QED
    BY <1>0, <2>1, <2>5 DEF AiInv, EarlyCounts
<1>18. ASSUME OpenResponse(s) PROVE Goal
  BY <1>18, ToldSequences DEF OpenResponse, AiInv, AiTypeOK, requestVars, readerVars, Told, Tells, EarlyCounts, Outcomes
<1>19. ASSUME ReaderEnds(s) PROVE Goal
  BY <1>19, ToldSequences DEF ReaderEnds, AiInv, AiTypeOK, requestVars, readerVars, Told, Tells, EarlyCounts, Outcomes
<1> QED
  BY <1>1, <1>2, <1>3, <1>4, <1>5, <1>6, <1>7, <1>8, <1>9, <1>10, <1>11, <1>12, <1>13, <1>14, <1>15, <1>16, <1>17, <1>18, <1>19 DEF AiStep, WorkerStep

\* What is told is short, and is nothing, or an outcome that may be told and perhaps the end.
LEMMA TellsLittle ==
  ASSUME NEW w, NEW g, NEW e, NEW O, Tells(w, g, e, O)
  PROVE  /\ Len(e) + Len(g) <= 2
         /\ g = Nothing \/ \E o \in O : g = Just(o) \/ g = AndEnd(o)
<1>1. Len(Nothing) = 0 /\ (\A o : Len(Just(o)) = 1) /\ (\A o : Len(AndEnd(o)) = 2)
  BY DEF Nothing, Just, AndEnd
<1> HIDE DEF Nothing, Just, AndEnd
<1>2. CASE w = "closing"
  <2>1. PICK o \in O : \/ g = Nothing /\ e = Just(o)
                       \/ g = Just(o) /\ e = Nothing
    BY <1>2 DEF Tells
  <2>2. CASE g = Nothing /\ e = Just(o)
    BY <1>1, <2>2
  <2>3. CASE g = Just(o) /\ e = Nothing
    BY <1>1, <2>3
  <2> QED
    BY <2>1, <2>2, <2>3
<1>3. CASE w = "ended"
  <2>1. PICK o \in O : \/ g = Nothing /\ e = AndEnd(o)
                       \/ g = Just(o) /\ e = Just("end")
                       \/ g = AndEnd(o) /\ e = Nothing
    BY <1>3 DEF Tells
  <2>2. CASE g = Nothing /\ e = AndEnd(o)
    <3>1. Len(e) = 2 /\ Len(g) = 0
      BY <1>1, <2>2
    <3> QED
      BY <2>2, <3>1
  <2>3. CASE g = Just(o) /\ e = Just("end")
    BY <1>1, <2>3
  <2>4. CASE g = AndEnd(o) /\ e = Nothing
    <3>1. Len(e) = 0 /\ Len(g) = 2
      BY <1>1, <2>4
    <3>2. \E p \in O : g = AndEnd(p)
      BY <2>4
    <3> QED
      BY <3>1, <3>2
  <2> QED
    BY <2>1, <2>2, <2>3, <2>4
<1>4. CASE w \notin {"closing", "ended"}
  BY <1>1, <1>4 DEF Tells
<1> QED
  BY <1>2, <1>3, <1>4

\* AiInv holds at first, and every step keeps it.
LEMMA AiInitInv == AiInit => AiInv
<1> SUFFICES ASSUME AiInit PROVE AiInv
  OBVIOUS
<1> DEFINE nobody == [s \in AiRequests |-> FALSE]
<1>0. nobody \in [AiRequests -> BOOLEAN] /\ Nothing \in Seq({"result", "error", "end"}) /\ Len(Nothing) = 0
  BY DEF Nothing
<1>1. {cancelled, response, canceller, halted, closed, early, inLine} = {nobody}
  BY DEF AiInit
<1>2. AiTyped
  BY <1>0, <1>1, AttemptsArePositive DEF AiInit, AiTyped, WorkerStages
<1>3. \A s \in AiRequests :
        Told(s) /\ EarlyCounts(s) /\ worker[s] = "none" /\ Len(events[s]) + Len(got[s]) <= 2
  <2> SUFFICES ASSUME NEW s \in AiRequests
               PROVE  Told(s) /\ EarlyCounts(s) /\ worker[s] = "none" /\ Len(events[s]) + Len(got[s]) <= 2
    OBVIOUS
  <2>1. worker[s] = "none" /\ events[s] = Nothing /\ got[s] = Nothing /\ ~early[s]
    BY <1>1 DEF AiInit, Nothing
  <2>2. Told(s)
    BY <2>1 DEF Told, Tells
  <2> QED
    BY <2>1, <2>2, TellsLittle DEF Told, EarlyCounts
<1> QED
  BY <1>0, <1>2, <1>3 DEF AiInv, AiTypeOK, AiTyped, AiInit, Nothing

LEMMA AiStepInv == AiInv /\ [AiNext]_aiVars => AiInv'
<1> SUFFICES ASSUME AiInv, [AiNext]_aiVars PROVE AiInv'
  OBVIOUS
<1>1. ASSUME NEW s \in AiRequests, AiStep(s) PROVE AiInv'
  <2>1. AiTyped'
    BY <1>1, AiStepTyped DEF AiInv, AiTypeOK, AiTyped
  <2>2. ASSUME NEW t \in AiRequests
        PROVE  Told(t)' /\ EarlyCounts(t)' /\ (entry'[t] = "none" => worker'[t] = "none")
    <3>1. CASE t = s
      BY <1>1, <3>1, AiStepTold
    <3>2. CASE t # s
      <4>1. /\ worker'[t] = worker[t] /\ events'[t] = events[t] /\ got'[t] = got[t]
            /\ early'[t] = early[t] /\ cancelled'[t] = cancelled[t] /\ entry'[t] = entry[t]
        BY <1>1, <3>2, AiOthers
      <4>2. Told(t) /\ EarlyCounts(t) /\ (entry[t] = "none" => worker[t] = "none")
        BY DEF AiInv
      <4> QED
        BY <4>1, <4>2 DEF Told, EarlyCounts, Outcomes
    <3> QED
      BY <3>1, <3>2
  <2>3. ASSUME NEW t \in AiRequests PROVE (Len(events[t]) + Len(got[t]) <= 2)'
    BY <2>2, TellsLittle DEF Told
  <2> QED
    BY <1>1, <2>1, <2>2, <2>3, AiEventsTyped DEF AiInv, AiTypeOK, AiTyped, Telling
<1>2. CASE UNCHANGED aiVars
  BY <1>2 DEF AiInv, AiTypeOK, aiVars, Told, EarlyCounts, Outcomes
<1> QED
  BY <1>1, <1>2 DEF AiNext

\* Every variable of the generations keeps its type; no request tells more than two
\* events.
THEOREM AiTypes == AiSpec => []AiTypeOK
<1>1. AiInv => AiTypeOK
  BY DEF AiInv
<1> QED
  BY <1>1, AiInitInv, AiStepInv, PTL DEF AiSpec

\* For any number of requests and attempts, however cancellations, deadlines, readers
\* and browsers that leave interleave: a browser is told one outcome, and no result if
\* the generation was cancelled before an answer was accepted.
THEOREM OneOutcomeTold == AiSpec => []OneOutcome
<1>1. ASSUME AiInv PROVE OneOutcome
  <2> SUFFICES ASSUME NEW s \in AiRequests
               PROVE  /\ got[s] \in {<<>>, <<"result">>, <<"error">>, <<"result", "end">>, <<"error", "end">>}
                      /\ early[s] => got[s] \in {<<>>, <<"error">>, <<"error", "end">>}
    BY DEF OneOutcome
  <2>1. got[s] = Nothing \/ \E o \in Outcomes(s) : got[s] = Just(o) \/ got[s] = AndEnd(o)
    BY <1>1, TellsLittle DEF AiInv, Told
  <2>2. CASE got[s] = Nothing
    BY <2>2 DEF Nothing
  <2>3. ASSUME NEW o \in Outcomes(s), got[s] = Just(o) \/ got[s] = AndEnd(o)
        PROVE  /\ got[s] \in {<<"result">>, <<"error">>, <<"result", "end">>, <<"error", "end">>}
               /\ early[s] => got[s] \in {<<"error">>, <<"error", "end">>}
    BY <2>3 DEF Outcomes, Just, AndEnd
  <2> QED
    BY <2>1, <2>2, <2>3
<1> QED
  BY <1>1, AiInitInv, AiStepInv, PTL DEF AiSpec

-----------------------------------------------------------------------------
(* All services: one of them is exercised while the others are idle, so that every *)
(* behaviour of WebServices is one of each of its parts.                             *)

\* Every behaviour is one of the package builder, of the job caches, of the chain
\* reordering, of the run history and of the generations.
THEOREM WebImplementsParts == WebFairSpec => Spec /\ JobSpec /\ ChainSpec /\ HistSpec /\ AiSpec
<1>1. WebInit => Init /\ JobInit /\ ChainInit /\ HistInit /\ AiInit
  BY DEF WebInit, ChainIdle, AiIdle
<1>2. [WebNext]_webVars =>
        [Next]_vars /\ [JobNext]_jobVars /\ [ChainNext]_chainVars /\ [HistNext]_histVars /\ [AiNext]_aiVars
  BY DEF WebNext, webVars
<1> QED
  BY <1>1, <1>2, PTL DEF WebFairSpec, Spec, JobSpec, ChainSpec, HistSpec, AiSpec

\* Whichever of the services is exercised, all their variables keep their types.
THEOREM WebTypes == WebFairSpec => []ServicesTypeOK
<1>1. TypeOK /\ JobTypeOK /\ ChainTypeOK /\ HistTypeOK /\ AiTypeOK => ServicesTypeOK
  BY DEF ServicesTypeOK
<1> QED
  BY <1>1, WebImplementsParts, EvalTypes, JobTypes, ChainTypes, HistTypes, AiTypes, PTL
=============================================================================
