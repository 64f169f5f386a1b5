---------------------------- MODULE RouterGraph ----------------------------
(***************************************************************************)
(* The links between the routers of a preview, edge by edge or router by    *)
(* router, for the modes a routing row can ask for.  What the code draws    *)
(* with a seeded generator is a choice here.                                *)
(***************************************************************************)
EXTENDS Integers, FiniteSets, FiniteSetsExt, Functions

CONSTANTS
  MaxRouters, \* bound: routers of a preview
  MaxDegree   \* bound: the degree asked for

ASSUME RoutersAndDegrees == MaxRouters \in Nat /\ MaxDegree \in Nat

Modes == {"min", "uniform", "exact", "nonuniform", "none"}

VARIABLES
  drawing,  \* what is being drawn
  mode,     \* the mode asked for
  routers,  \* the routers, 1 .. n
  asked,    \* the degree asked for; 0: not given
  links,    \* the links so far
  work,     \* work[r]: links r still needs, for the routers not done (exact)
  goal,     \* the degrees that are drawn (exact), or the degree chosen (uniform)
  tree,     \* routers the random tree has reached (nonuniform)
  hubs,     \* the hubs, the first of them the primary one (nonuniform)
  rim       \* routers whose links to hubs have not been drawn yet (nonuniform)

graphVars == <<drawing, mode, routers, asked, links, work, goal, tree, hubs, rim>>

Link(a, b) == {a, b}
Degree(r, L) == Cardinality({l \in L : r \in l})
N == Cardinality(routers)

\* Routers that can be reached from a set of routers in at most k steps.
Reach(S, L) ==
  LET Grow[k \in 0 .. Cardinality(routers)] ==
        IF k = 0 THEN S ELSE Grow[k - 1] \cup UNION {l \in L : l \cap Grow[k - 1] # {}}
  IN Grow[Cardinality(routers)]

Connected(L) == \A r \in routers : Reach({r}, L) = routers

Chain == {Link(r, r + 1) : r \in routers \ {N}}

\* A bug: a regular graph need not be connected.
RegularDegreesAny == {d \in 1 .. N - 1 : (N * d) % 2 = 0}

\* The degrees a connected regular graph of n routers can have.
RegularDegrees == {d \in 1 .. N - 1 : (N * d) % 2 = 0 /\ (N = 2 \/ d >= 2)}

Distance(a, b) == IF a < b THEN b - a ELSE a - b

\* The one nearest to what is asked for, the smaller of two; any if nothing is asked for.
Chosen ==
  IF asked = 0 THEN RegularDegrees
  ELSE {d \in RegularDegrees : \A e \in RegularDegrees \ {d} :
          \/ Distance(d, asked) < Distance(e, asked)
          \/ Distance(d, asked) = Distance(e, asked) /\ d < e}

\* Links of each router of a ring to the next d/2 ones, and to the opposite one if d is odd.
Circulant(ring, d) ==
  LET At(i) == ring[1 + (i % N)] IN
  {Link(At(i), At(i + o)) : i \in 0 .. N - 1, o \in 1 .. d \div 2}
    \cup (IF d % 2 = 1 THEN {Link(At(i), At(i + N \div 2)) : i \in 0 .. (N \div 2) - 1} ELSE {})

\* Bugs: the parity of the sum is ignored; the first router is the one with one link less.
DegreesOdd(d) == [r \in routers |-> d]
DegreesFirst(d) == [r \in routers |-> IF r = 1 /\ (N * d) % 2 = 1 THEN d - 1 ELSE d]

\* The same degree for all, one less for the last router if the sum would be odd.
Degrees(d) == [r \in routers |-> IF r = N /\ (N * d) % 2 = 1 THEN d - 1 ELSE d]

\* The root of n, rounded, is the number of hubs; but at least 2, and fewer than n.
Root == CHOOSE k \in 0 .. N : (2 * k - 1) * (2 * k - 1) < 4 * N /\ 4 * N <= (2 * k + 1) * (2 * k + 1)
HubCount == Min({Max({2, Root}), N - 1})

GraphInit ==
  /\ drawing = "start"
  /\ mode \in Modes
  /\ \E n \in 1 .. MaxRouters : routers = 1 .. n
  /\ asked \in (IF mode \in {"uniform", "exact"} THEN 0 .. MaxDegree ELSE {0})
  /\ links = {}
  /\ work = <<>> /\ goal = <<>>
  /\ tree = {} /\ hubs = <<>> /\ rim = {}

Request == <<mode, routers, asked>>

\* One router needs no links; nor is any drawn in mode "none".
NoLinks ==
  /\ drawing = "start" /\ (N = 1 \/ mode = "none")
  /\ drawing' = "end"
  /\ UNCHANGED <<Request, links, work, goal, tree, hubs, rim>>

DrawChain ==
  /\ drawing = "start" /\ N > 1
  /\ mode = "min"
  /\ links' = Chain
  /\ drawing' = "end"
  /\ UNCHANGED <<Request, work, goal, tree, hubs, rim>>

DrawRegular ==
  /\ drawing = "start" /\ N > 1
  /\ mode = "uniform"
  /\ \E d \in Chosen, ring \in {f \in [1 .. N -> routers] : IsInjective(f)} :
       /\ links' = (IF N = 2 THEN Chain ELSE Circulant(ring, d))
       /\ goal' = [r \in routers |-> d]
  /\ drawing' = "end"
  /\ UNCHANGED <<Request, work, tree, hubs, rim>>

BeginExact ==
  /\ drawing = "start" /\ N > 1
  /\ mode = "exact"
  /\ goal' = Degrees(Min({asked, N - 1}))
  /\ work' = goal'
  /\ drawing' = "degrees"
  /\ UNCHANGED <<Request, links, tree, hubs, rim>>

\* A router that needs most is linked with those that need most, equal ones in
\* random order; if there are too few of them, the degrees cannot be drawn.
ServeRouter ==
  /\ drawing = "degrees"
  /\ \E r \in DOMAIN work :
       /\ \A q \in DOMAIN work : work[q] <= work[r]
       /\ work[r] > 0
       /\ LET others == DOMAIN work \ {r} IN
          \/ /\ work[r] > Cardinality(others)
             /\ drawing' = "stuck" /\ UNCHANGED <<links, work>>
          \/ \E T \in kSubset(work[r], others) :
               /\ \A t \in T, o \in others \ T : work[o] <= work[t]
               /\ IF \E t \in T : work[t] = 0
                  THEN drawing' = "stuck" /\ UNCHANGED <<links, work>>
                  ELSE /\ links' = links \cup {Link(r, t) : t \in T}
                       /\ work' = [o \in others |-> IF o \in T THEN work[o] - 1 ELSE work[o]]
                       /\ UNCHANGED drawing
  /\ UNCHANGED <<Request, goal, tree, hubs, rim>>

EndExact ==
  /\ drawing = "degrees"
  /\ \A r \in DOMAIN work : work[r] = 0
  /\ drawing' = "end"
  /\ UNCHANGED <<Request, links, work, goal, tree, hubs, rim>>

BeginTree ==
  /\ drawing = "start" /\ N > 1
  /\ mode = "nonuniform"
  /\ \E r \in routers : tree' = {r}
  /\ drawing' = "tree"
  /\ UNCHANGED <<Request, links, work, goal, hubs, rim>>

\* A bug: a router may be linked with itself.
GrowTreeLoop ==
  /\ drawing = "tree" /\ tree # routers
  /\ \E a \in tree, b \in routers :
       /\ links' = links \cup {Link(a, b)}
       /\ tree' = tree \cup {b}
  /\ UNCHANGED <<Request, drawing, work, goal, hubs, rim>>

GrowTree ==
  /\ drawing = "tree" /\ tree # routers
  /\ \E a \in tree, b \in routers \ tree :
       /\ links' = links \cup {Link(a, b)}
       /\ tree' = tree \cup {b}
  /\ UNCHANGED <<Request, drawing, work, goal, hubs, rim>>

\* Random hubs are linked with each other.
LinkHubs ==
  /\ drawing = "tree" /\ tree = routers
  /\ \E H \in kSubset(HubCount, routers) : \E first \in H :
       /\ links' = links \cup {Link(p[1], p[2]) : p \in {q \in H \X H : q[1] # q[2]}}
       /\ hubs' = <<first, H>>
       /\ rim' = routers \ H
  /\ drawing' = "rim"
  /\ UNCHANGED <<Request, work, goal, tree>>

\* A router other than the hubs has room for a link from a hub.
Room(r, L, primary) ==
  LET cap == IF N >= 5 THEN 2 ELSE Max({2, N \div 2}) IN
  Degree(r, L) < (IF primary THEN cap + 1 ELSE cap)

\* It is linked with the primary hub if it has room, and sometimes with another hub.
LinkRim ==
  /\ drawing = "rim" /\ rim # {}
  /\ LET r == Min(rim) IN
       /\ LET l == IF Room(r, links, TRUE) THEN links \cup {Link(hubs[1], r)} ELSE links IN
          \/ links' = l
          \/ \E h \in hubs[2] \ {hubs[1]} : Room(r, l, FALSE) /\ links' = l \cup {Link(h, r)}
       /\ rim' = rim \ {r}
  /\ UNCHANGED <<Request, drawing, work, goal, tree, hubs>>

EndRim ==
  /\ drawing = "rim" /\ rim = {}
  /\ drawing' = "end"
  /\ UNCHANGED <<Request, links, work, goal, tree, hubs, rim>>

GraphNext ==
  \/ NoLinks \/ DrawChain \/ DrawRegular
  \/ BeginExact \/ ServeRouter \/ EndExact
  \/ BeginTree \/ GrowTree \/ LinkHubs \/ LinkRim \/ EndRim
  \/ drawing = "end" /\ UNCHANGED graphVars

GraphSpec == GraphInit /\ [][GraphNext]_graphVars

-----------------------------------------------------------------------------
(* Properties. *)

GraphTypeOK ==
  /\ drawing \in {"start", "degrees", "tree", "rim", "stuck", "end"}
  /\ mode \in Modes /\ asked \in 0 .. MaxDegree
  /\ links \subseteq kSubset(2, routers)
  /\ \A r \in DOMAIN work : r \in routers /\ work[r] \in 0 .. N
  /\ rim \subseteq routers /\ tree \subseteq routers

\* The backbone is one piece unless exact degrees, or no links, are asked for.
OneBackbone == drawing = "end" /\ mode \in {"min", "uniform", "nonuniform"} => Connected(links)

\* The degrees drawn are the ones announced: equal ones in mode "uniform", and in
\* mode "exact" those asked for, up to one link that parity forbids.
DegreesKept ==
  drawing = "end" /\ N > 1 =>
    /\ mode \in {"uniform", "exact"} => \A r \in routers : Degree(r, links) = goal[r]
    /\ mode = "exact" =>
         \A r \in routers : r < N => Degree(r, links) = Min({asked, N - 1})

\* Serving the neediest first never runs out of routers: the code that then tries
\* smaller degrees, and at last a chain, is never reached.
NeverStuck == drawing # "stuck"

\* The links are what the scenario asks for, or as near as a graph can be, and drawing
\* them never fails half way.
LinksAsAsked == OneBackbone /\ DegreesKept /\ NeverStuck
=============================================================================
