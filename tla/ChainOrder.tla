----------------------------- MODULE ChainOrder -----------------------------
(***************************************************************************)
(* A chain of challenges is put into an order in which every step finds the *)
(* facts it requires among those that earlier steps produce.  The reordering *)
(* first tries a greedy order, which it validates; then the dependency graph *)
(* of the sequencer, whose topological order it takes as it is; and if that  *)
(* fails it hands the chain back unchanged.                                  *)
(*                                                                           *)
(* A fact that Flow can always supply is no fact here.  Left out: facts that *)
(* vulnerabilities or pivots grant, inputs marked for supply to a starting   *)
(* step, optional inputs, hints, generators without a contract.              *)
(***************************************************************************)
EXTENDS Integers, Sequences, FiniteSets

CONSTANTS
  Steps,       \* node ids; the sequencer breaks ties by their order
  Generators,  \* what the steps are assigned to, ...
  Uses,        \* ... and how they may be
  Facts,
  Contracts,   \* the contracts that generators may have
  Assignments  \* the inputs and outputs that the assignment of a step may list

Deals == [requires : SUBSET Facts, produces : SUBSET Facts]

ASSUME StepsAreOrdered == Steps \subseteq Int
ASSUME UsesAreUses == Uses \subseteq [Steps -> Generators]
ASSUME DealsAreDeals == Contracts \subseteq Deals /\ Assignments \subseteq Deals

VARIABLES
  phase,     \* how far the reordering is
  chain,     \* the chain as it is given
  gen,       \* gen[s]: generator of step s
  contract,  \* contract[g]: what generator g requires and produces
  assigned,  \* assigned[s]: inputs and outputs of the assignment of step s
  high,      \* the dependency level is 5
  order,     \* the order under construction, greedy or topological
  waiting,   \* waiting[s]: the steps that s still waits for
  ready,     \* the steps outside the order that wait for none
  result     \* the chain that is handed back

given == <<chain, gen, contract, assigned, high>>
chainVars == <<phase, given, order, waiting, ready, result>>

ChainPhases == {"given", "greedy", "build", "sort", "done"}

Members(o) == {o[i] : i \in DOMAIN o}

\* All the steps, each once.
IsOrder(o) ==
  /\ o \in Seq(Steps)
  /\ \A i, j \in DOMAIN o : o[i] = o[j] => i = j
  /\ Members(o) = Steps

ChainTypeOK ==
  /\ phase \in ChainPhases
  /\ IsOrder(chain)
  /\ gen \in Uses
  /\ contract \in [Generators -> Contracts]
  /\ assigned \in [Steps -> Assignments]
  /\ high \in BOOLEAN
  /\ order \in Seq(Steps)
  /\ waiting \in [Steps -> SUBSET Steps]
  /\ ready \in SUBSET Steps
  /\ IsOrder(result)

\* The function is called, with anything.
ChainInit ==
  /\ phase = "given"
  /\ chain \in [1 .. Cardinality(Steps) -> Steps] /\ IsOrder(chain)
  /\ gen \in Uses
  /\ contract \in [Generators -> Contracts]
  /\ assigned \in [Steps -> Assignments]
  /\ high \in BOOLEAN
  /\ order = <<>>
  /\ waiting = [s \in Steps |-> {}]
  /\ ready = {}
  /\ result = chain

-----------------------------------------------------------------------------
(* What a step requires and produces, as the validation sees it. *)

Requires(s) == contract[gen[s]].requires \cup assigned[s].requires
Produces(s) == contract[gen[s]].produces \cup assigned[s].produces

\* The validation: every step finds its facts among those of earlier steps.
Solvable(o) ==
  \A i \in DOMAIN o : \A f \in Requires(o[i]) :
    \E j \in DOMAIN o : j < i /\ f \in Produces(o[j])

(* The greedy order looks at the assignments only. *)

Known == UNION {assigned[s].produces : s \in Members(order)}
Remainder == Steps \ Members(order)
Eligible == {s \in Remainder : assigned[s].requires \subseteq Known}

\* A faulty variant of Pool: a step is taken whatever it requires.
PoolAny == Remainder

Pool == IF Eligible # {} THEN Eligible ELSE Remainder

(* The sequencer is given one contract for each generator: the generator's own   *)
(* with what the last of its steps adds to it.                                   *)

LastUse(s) ==
  CHOOSE t \in Steps : \E i \in DOMAIN chain :
    /\ chain[i] = t /\ gen[t] = gen[s]
    /\ \A j \in DOMAIN chain : j > i => gen[chain[j]] # gen[s]

Demand(s) == Requires(s) \cup Requires(LastUse(s))
Producers(f) == {s \in Steps : f \in Produces(LastUse(s))}

\* A step lists inputs that its contract does not declare, or nothing produces what
\* it requires.
Refused ==
  \E s \in Steps :
    \/ ~ assigned[s].requires \subseteq Requires(LastUse(s))
    \/ \E f \in Demand(s) : Producers(f) = {}

\* A faulty variant of Preds: only the first producer of a fact is connected.
PredsFirst(s) ==
  {t \in Steps \ {s} : \E f \in Demand(s) :
     t \in Producers(f) /\ \A u \in Producers(f) : t <= u}

\* The edges of the graph: from all producers of a fact, but not from the step itself.
Preds(s) == (UNION {Producers(f) : f \in Demand(s)}) \ {s}

-----------------------------------------------------------------------------
(* Faulty variants of the definitions, each with a bug the code could have; they *)
(* take no part in ChainSpec.  PROJECT.json names the property each one breaks.  *)

\* An incomplete order is handed back.
StopShort ==
  /\ phase = "sort" /\ ready = {}
  /\ phase' = "done"
  /\ result' = order
  /\ UNCHANGED <<given, order, waiting, ready>>

-----------------------------------------------------------------------------
(* The reordering. *)

\* A chain that is no order yet, or a dependency level of 5: the greedy order first.
TryGreedy ==
  /\ phase = "given" /\ (high \/ ~Solvable(chain))
  /\ phase' = "greedy"
  /\ UNCHANGED <<given, order, waiting, ready, result>>

TrySort ==
  /\ phase = "given" /\ ~high /\ Solvable(chain)
  /\ phase' = "build"
  /\ UNCHANGED <<given, order, waiting, ready, result>>

\* The best of the pool, by a score that counts facts.
Pick ==
  /\ phase = "greedy"
  /\ \E s \in Pool : order' = Append(order, s)
  /\ UNCHANGED <<phase, given, waiting, ready, result>>

\* The chain is an order, and depends as much from step to step as the greedy one.
Preserve ==
  /\ phase = "greedy" /\ Remainder = {}
  /\ Solvable(chain)
  /\ phase' = "done"
  /\ result' = chain
  /\ UNCHANGED <<given, order, waiting, ready>>

Accept ==
  /\ phase = "greedy" /\ Remainder = {}
  /\ Solvable(order)
  /\ phase' = "done"
  /\ result' = order
  /\ UNCHANGED <<given, order, waiting, ready>>

\* With a dependency level of 5 and a chain that is no order the code tries the
\* same again, in vain.
Reject ==
  /\ phase = "greedy" /\ Remainder = {}
  /\ ~Solvable(order)
  /\ phase' = "build"
  /\ order' = <<>>
  /\ UNCHANGED <<given, waiting, ready, result>>

\* The graph is built, or not.
Build ==
  /\ phase = "build" /\ ~Refused
  /\ phase' = "sort"
  /\ waiting' = [s \in Steps |-> Preds(s)]
  /\ ready' = {s \in Steps : Preds(s) = {}}
  /\ UNCHANGED <<given, order, result>>

Refuse ==
  /\ phase = "build" /\ Refused
  /\ phase' = "done"
  /\ result' = chain
  /\ UNCHANGED <<given, order, waiting, ready>>

\* The least of the ready steps is next; those that waited for it alone get ready.
Pop ==
  /\ phase = "sort"
  /\ \E s \in ready :
       /\ \A t \in ready : s <= t
       /\ order' = Append(order, s)
       /\ waiting' = [t \in Steps |-> waiting[t] \ {s}]
       /\ ready' = (ready \ {s}) \cup {t \in Steps : waiting[t] = {s}}
  /\ UNCHANGED <<phase, given, result>>

\* The order is complete, or what remains has a cycle.
Stop ==
  /\ phase = "sort" /\ ready = {}
  /\ phase' = "done"
  /\ result' = IF Remainder = {} THEN order ELSE chain
  /\ UNCHANGED <<given, order, waiting, ready>>

\* A later request works on the chain that was handed back.
Again ==
  /\ phase = "done"
  /\ phase' = "given"
  /\ chain' = result
  /\ high' \in BOOLEAN
  /\ order' = <<>>
  /\ waiting' = [s \in Steps |-> {}]
  /\ ready' = {}
  /\ UNCHANGED <<gen, contract, assigned, result>>

ChainNext ==
  \/ TryGreedy \/ TrySort
  \/ Pick \/ Preserve \/ Accept \/ Reject
  \/ Build \/ Refuse \/ Pop \/ Stop
  \/ Again

ChainSpec == ChainInit /\ [][ChainNext]_chainVars

-----------------------------------------------------------------------------
(* Properties. *)

\* All steps of a generator list the same inputs and outputs.
Uniform == \A s, t \in Steps : gen[s] = gen[t] => assigned[s] = assigned[t]

\* The assignments list all that the contracts say.
Explicit == \A s \in Steps : assigned[s] = [requires |-> Requires(s), produces |-> Produces(s)]

\* "Best-effort: reorder the chain ... so that inputs are satisfied by some
\* producer": a chain that was solvable is handed back solvable, although the
\* sequencer connects all producers and nobody validates its order.
KeepsSolvable == phase = "done" /\ Uniform /\ Solvable(chain) => Solvable(result)

\* If any order of the steps is solvable, the one handed back is, as far as
\* assignments say what contracts say.
FindsSolvable ==
  phase = "done" /\ Explicit /\ ~Solvable(chain) =>
    \/ Solvable(result)
    \/ \A o \in [1 .. Cardinality(Steps) -> Steps] : IsOrder(o) => ~Solvable(o)

\* The sequencer refuses an order only for a cycle: each of the steps that remain
\* waits for another one of them.
CyclesOnly ==
  phase = "sort" /\ ready = {} =>
    \A s \in Remainder : Preds(s) \cap Remainder # {}
=============================================================================
