----------------------------- MODULE WebServices -----------------------------
(***************************************************************************)
(* Services of the web process that have no state in common: evaluation     *)
(* packages, the job caches of the flow routes, the reordering of chains, the *)
(* run history and generations by a model.  What they do together is an      *)
(* interleaving of what each does alone, so a behaviour of this module       *)
(* exercises one of them while the others are idle.                         *)
(***************************************************************************)
EXTENDS EvalArtifacts, JobCache, ChainOrder, RunHistory, AiStream

VARIABLE service  \* the one that is exercised

webVars == <<service, vars, jobVars, chainVars, histVars, aiVars>>

\* A chain and contracts nobody asks about, for the behaviours of other services.
ChainIdle ==
  /\ chain = CHOOSE o \in [1 .. Cardinality(Steps) -> Steps] : IsOrder(o)
  /\ gen = CHOOSE u \in Uses : TRUE
  /\ contract = [g \in Generators |-> CHOOSE d \in Contracts : TRUE]
  /\ assigned = [s \in Steps |-> CHOOSE d \in Assignments : TRUE]
  /\ high = FALSE
  /\ ChainInit

AiIdle == via = [s \in AiRequests |-> CHOOSE w \in Ways : TRUE] /\ AiInit

WebInit ==
  /\ service \in {"eval", "jobs", "chain", "history", "ai"}
  /\ Init /\ JobInit /\ HistInit
  /\ IF service = "chain" THEN ChainInit ELSE ChainIdle
  /\ IF service = "ai" THEN AiInit ELSE AiIdle

WebNext ==
  /\ UNCHANGED service
  /\ \/ service = "eval" /\ Next /\ UNCHANGED <<jobVars, chainVars, histVars, aiVars>>
     \/ service = "jobs" /\ JobNext /\ UNCHANGED <<vars, chainVars, histVars, aiVars>>
     \/ service = "chain" /\ ChainNext /\ UNCHANGED <<vars, jobVars, histVars, aiVars>>
     \/ service = "history" /\ HistNext /\ UNCHANGED <<vars, jobVars, chainVars, aiVars>>
     \/ service = "ai" /\ AiNext /\ UNCHANGED <<vars, jobVars, chainVars, histVars>>

\* Threads and streams go on wherever they have begun.
WebFairSpec ==
  WebInit /\ [][WebNext]_webVars /\ Fairness /\ JobFairness /\ AiFairness

\* All variables keep their types.
ServicesTypeOK == TypeOK /\ JobTypeOK /\ ChainTypeOK /\ HistTypeOK /\ AiTypeOK

\* What a browser waits for comes to an end: packages are prepared, job streams and
\* generations end, and the readers of generations that were given up end.
ServicesEnd == PreparingEnds /\ StreamsEnd /\ AiRequestsEnd
=============================================================================
