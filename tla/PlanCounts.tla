----------------------------- MODULE PlanCounts -----------------------------
(***************************************************************************)
(* How many nodes of which kind a scenario gets.  The rows of its sections  *)
(* are turned into counts, one section after the other; the hosts that      *)
(* vulnerabilities and flag generators need are added to the Docker hosts;  *)
(* and a preview is built from the plan by the web process, and again by    *)
(* the command line, which refuses a saved preview that differs.            *)
(*                                                                         *)
(* Weights and densities are rationals here (the code computes them with    *)
(* floating point and a tolerance of 1e-9).                                 *)
(***************************************************************************)
EXTENDS Naturals, Sequences, FiniteSetsExt, Functions

CONSTANTS
  Roles,         \* the roles of hosts that rows name, "Docker" among them
  RandomRoles,   \* the sequence of roles a Random row stands for
  Names,         \* names of vulnerabilities and of generators
  RandomNames,   \* the sequence of names a Random row draws from
  NodeSections,  \* the sequences of rows of "Node Information" considered
  ItemSections,  \* the sequences of rows of a challenge section considered
  Bases,         \* the base host counts considered
  Tenths         \* the densities considered, in tenths

RandomRow == "Random"

ASSUME RolesAndNames ==
  /\ "Docker" \in Roles
  /\ RandomRoles \in Seq(Roles) /\ RandomRoles # <<>>
  /\ RandomNames \in Seq(Names) /\ RandomNames # <<>>
  /\ RandomRow \notin Roles \cup Names
ASSUME Densities == Tenths \subseteq 0 .. 10 /\ Bases \subseteq Nat

VARIABLES
  planned,   \* the step of the plan that comes next
  rows,      \* rows[section]: its rows, [name, factor, count]
  density,   \* density[section]: of the challenge sections and of routing
  base,      \* the base host count
  demand,    \* demand[section]: hosts its plan needs, by name
  raw,       \* role counts before the challenge hosts are added
  counts,    \* role counts of the plan
  preview,   \* preview[who]: role counts of the preview, or <<>>
  accepted   \* what the command line says of the web's saved preview

planVars == <<planned, rows, density, base, demand, raw, counts, preview, accepted>>

Challenges == {"vulnerabilities", "generators"}

RowsOf(N) == [name : N \cup {RandomRow}, factor : Nat, count : Nat]

ASSUME Sections ==
  /\ IsFiniteSet(Roles) /\ NodeSections \subseteq Seq(RowsOf(Roles))
  /\ IsFiniteSet(Names) /\ ItemSections \subseteq Seq(RowsOf(Names))

-----------------------------------------------------------------------------
(* Apportionment.  Rows, names and shares are functions on sets of row numbers. *)

Total(f) == MapThenSumSet(LAMBDA i : f[i], DOMAIN f)

\* A bug: the units left over go to the first shares.
ApportionInOrder(shares, units) ==
  LET floor == [i \in DOMAIN shares |-> (shares[i] * units) \div Total(shares)]
      left == units - Total(floor)
  IN [i \in DOMAIN shares |->
        floor[i] + (IF Cardinality({j \in DOMAIN shares : j < i}) < left THEN 1 ELSE 0)]

\* The units each of some shares gets by largest remainder, the first of equal ones first.
Apportion(shares, units) ==
  LET sum == Total(shares)
      rest == [i \in DOMAIN shares |-> (shares[i] * units) % sum]
      floor == [i \in DOMAIN shares |-> (shares[i] * units) \div sum]
      Ahead(i) == {j \in DOMAIN shares : rest[j] > rest[i] \/ (rest[j] = rest[i] /\ j < i)}
      left == units - Total(floor)
  IN [i \in DOMAIN shares |-> floor[i] + (IF Cardinality(Ahead(i)) < left THEN 1 ELSE 0)]

\* A bug: what is left over is lost.
EvenlyFloor(units, n) == [i \in 1 .. n |-> units \div n]

\* The units for each of a sequence of default names, the first ones one more.
Evenly(units, n) == [i \in 1 .. n |-> units \div n + (IF i <= units % n THEN 1 ELSE 0)]

\* What the amounts of numbered names are for each name.
Named(names, n) == {i \in DOMAIN names : names[i] = n}
ByName(names, amounts, N) == [n \in N |-> Total([i \in Named(names, n) |-> amounts[i]])]

\* Rows with a weight, which the rows with a count are not among.
Weighted(rs) == {i \in DOMAIN rs : rs[i].count = 0 /\ rs[i].factor > 0}
Concrete(rs) == {i \in DOMAIN rs : rs[i].name # RandomRow}

\* The factors and the counts of all Random rows.
RandomFactor(rs) == Total([i \in Weighted(rs) \ Concrete(rs) |-> rs[i].factor])
RandomCount(rs) == Total([i \in DOMAIN rs \ Concrete(rs) |-> rs[i].count])

\* Names and shares of the weighted rows, those of the Random rows split among the
\* defaults at the end; factors times the number of defaults, to stay integers.
Shares(rs, defaults) ==
  LET w == Weighted(rs) \cap Concrete(rs)
      d == IF RandomFactor(rs) > 0 THEN Len(rs) + 1 .. Len(rs) + Len(defaults) ELSE {} IN
  [names |-> [i \in w \cup d |-> IF i \in w THEN rs[i].name ELSE defaults[i - Len(rs)]],
   shares |-> [i \in w \cup d |-> IF i \in w THEN rs[i].factor * Len(defaults) ELSE RandomFactor(rs)]]

\* Counts of the rows with a count, those of the Random rows split among the defaults.
Counted(rs, defaults, N) ==
  LET concrete == ByName([i \in Concrete(rs) |-> rs[i].name], [i \in Concrete(rs) |-> rs[i].count], N)
      random == ByName(defaults, Evenly(RandomCount(rs), Len(defaults)), N)
  IN [n \in N |-> concrete[n] + random[n]]

Plus(f, g) == [n \in DOMAIN f |-> f[n] + g[n]]

Derived(s, units, N) ==
  IF DOMAIN s.names = {} \/ units = 0 THEN [n \in N |-> 0]
  ELSE ByName(s.names, Apportion(s.shares, units), N)

\* Equal names are one share: the node plan merges them, at the first one's place.
Merged(s) ==
  LET firsts == {i \in DOMAIN s.names : \A j \in Named(s.names, s.names[i]) : i <= j}
  IN [names |-> [i \in firsts |-> s.names[i]],
      shares |-> [i \in firsts |-> Total([j \in Named(s.names, s.names[i]) |-> s.shares[j]])]]

NodePlan(rs, units) == Plus(Derived(Merged(Shares(rs, RandomRoles)), units, Roles), Counted(rs, RandomRoles, Roles))

\* A density is of the base, and needs a weighted row.
Pool(rs, d, units) == IF Weighted(rs) = {} THEN 0 ELSE (d * units) \div 10

ItemPlan(rs, d, units) ==
  Plus(Derived(Shares(rs, RandomNames), Pool(rs, d, units), Names), Counted(rs, RandomNames, Names))

\* A bug: hosts for the challenges are counted as a role that no host has.
RepairedAsRole(rs, hosts) == [r \in Roles \cup {RandomRow} |-> IF r = RandomRow THEN hosts ELSE rs[r]]

\* Hosts for the challenges are added to the Docker hosts the rows ask for.
Repaired(rs, hosts) == [rs EXCEPT !["Docker"] = @ + hosts]

Hosts(plans) == Total([c \in Challenges |-> Total(plans[c])])

-----------------------------------------------------------------------------
(* The steps of a plan and of its previews. *)

NoCounts == [r \in Roles |-> 0]
NoDemand == [c \in Challenges |-> [n \in Names |-> 0]]

PlanInit ==
  /\ planned = "nodes"
  /\ \E ns \in NodeSections, vs \in ItemSections, gs \in ItemSections :
       rows = [nodes |-> ns, vulnerabilities |-> vs, generators |-> gs]
  /\ density \in [Challenges -> Tenths]
  /\ base \in Bases
  /\ demand = NoDemand
  /\ raw = NoCounts /\ counts = NoCounts
  /\ preview = [w \in {"web", "cli"} |-> <<>>]
  /\ accepted = "unknown"

Inputs == <<rows, density, base>>

PlanNodes ==
  /\ planned = "nodes"
  /\ raw' = NodePlan(rows.nodes, base)
  /\ counts' = raw'
  /\ planned' = "vulnerabilities"
  /\ UNCHANGED <<Inputs, demand, preview, accepted>>

PlanChallenge(c, next) ==
  /\ planned = c
  /\ demand' = [demand EXCEPT ![c] = ItemPlan(rows[c], density[c], base)]
  /\ planned' = next
  /\ UNCHANGED <<Inputs, raw, counts, preview, accepted>>

Repair ==
  /\ planned = "repair"
  /\ counts' = Repaired(counts, Hosts(demand))
  /\ planned' = "preview"
  /\ UNCHANGED <<Inputs, demand, raw, preview, accepted>>

\* A bug: the preview is built from the repaired counts.
BasisRepaired(w) == counts

\* What the preview is built from: the web takes the raw counts, the command line
\* does not if they are empty.
Basis(w) == IF w = "cli" /\ Total(raw) = 0 THEN counts ELSE raw

\* The preview adds the challenge hosts itself.
Preview(w) ==
  /\ planned = IF w = "web" THEN "preview" ELSE "execute"
  /\ preview' = [preview EXCEPT ![w] = Repaired(Basis(w), Hosts(demand))]
  /\ planned' = IF w = "web" THEN "execute" ELSE "compare"
  /\ UNCHANGED <<Inputs, demand, raw, counts, accepted>>

\* The command line executes a saved preview only if its own is the same.
Compare ==
  /\ planned = "compare"
  /\ accepted' = IF preview.web = preview.cli THEN "yes" ELSE "no"
  /\ planned' = "end"
  /\ UNCHANGED <<Inputs, demand, raw, counts, preview>>

PlanNext ==
  \/ PlanNodes
  \/ PlanChallenge("vulnerabilities", "generators")
  \/ PlanChallenge("generators", "repair")
  \/ Repair
  \/ \E w \in {"web", "cli"} : Preview(w)
  \/ Compare
  \/ planned = "end" /\ UNCHANGED planVars

PlanSpec == PlanInit /\ [][PlanNext]_planVars

-----------------------------------------------------------------------------
(* Properties. *)

PlanTypeOK ==
  /\ planned \in {"nodes", "repair", "preview", "execute", "compare", "end"} \cup Challenges
  /\ rows.nodes \in Seq(RowsOf(Roles)) /\ \A c \in Challenges : rows[c] \in Seq(RowsOf(Names))
  /\ demand \in [Challenges -> [Names -> Nat]]
  /\ raw \in [Roles -> Nat] /\ counts \in [Roles -> Nat]
  /\ \A w \in DOMAIN preview : preview[w] \in [Roles -> Nat] \cup {<<>>}
  /\ accepted \in {"unknown", "yes", "no"}

\* What the rows with a count ask for.
Explicit(rs) == Total([i \in DOMAIN rs |-> rs[i].count])

\* Every host that is asked for is planned and no other: the base count if some row
\* has a weight, the rows' counts, and the share of the base that is the density of
\* a section with weights.
NothingLost ==
  /\ planned # "nodes" =>
       Total(raw) = Explicit(rows.nodes) + (IF Weighted(rows.nodes) = {} THEN 0 ELSE base)
  /\ planned \notin {"nodes"} \cup Challenges => \A c \in Challenges :
       Total(demand[c]) = Explicit(rows[c]) + Pool(rows[c], density[c], base)

\* A role gets its exact share of the base, rounded down or up, and no role is
\* rounded up before one that is owed more.
FairShares ==
  planned # "nodes" =>
    LET s == Merged(Shares(rows.nodes, RandomRoles))
        sum == Total(s.shares)
        got == [i \in DOMAIN s.names |-> raw[s.names[i]] - Counted(rows.nodes, RandomRoles, Roles)[s.names[i]]]
        Owed(i) == s.shares[i] * base
    IN base > 0 => \A i \in DOMAIN s.names :
         /\ sum * got[i] < Owed(i) + sum /\ Owed(i) < sum * (got[i] + 1)
         /\ \A j \in DOMAIN s.names :
              sum * got[i] > Owed(i) /\ sum * got[j] < Owed(j) => Owed(i) % sum >= Owed(j) % sum

\* The counts are what the rows ask for.
CountsAsAsked == NothingLost /\ FairShares

\* The hosts of the challenges are added once, whoever builds the preview, and the
\* command line accepts the web's preview; unless no row asks for a host.
DemandOnce ==
  /\ \A w \in DOMAIN preview : preview[w] # <<>> /\ (w = "web" \/ Total(raw) > 0) => preview[w] = counts
  /\ accepted = "no" => Total(raw) = 0
=============================================================================
