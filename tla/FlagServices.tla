---------------------------- MODULE FlagServices ----------------------------
(***************************************************************************)
(* A batch of flag generators, runs over the images of catalogue items, and  *)
(* the three parts of a preview: how many nodes there are, how routers are   *)
(* linked, where hosts are.  They have no state in common, so a behaviour    *)
(* exercises one of them while the others are idle.                         *)
(***************************************************************************)
EXTENDS FlagBatch, PlanCounts, RouterGraph, HostLans, ImageCache

VARIABLE service  \* the one that is exercised

serviceVars == <<service, flagVars, planVars, graphVars, lanVars, cacheVars>>

\* Requests that nobody has made, for the behaviours of the other services.
PlanIdle ==
  /\ rows = [nodes |-> <<>>, vulnerabilities |-> <<>>, generators |-> <<>>]
  /\ density = [c \in Challenges |-> CHOOSE d \in Tenths : TRUE]
  /\ base = CHOOSE b \in Bases : TRUE
  /\ PlanInit

GraphIdle == mode = "none" /\ routers = {1} /\ GraphInit

LanIdle ==
  /\ routersN = 0 /\ hostsN = 0
  /\ policy = [mode |-> "ratio", target |-> 0]
  /\ LanInit

CacheIdle == images = {} /\ pinned = {} /\ CacheInit

ServicesInit ==
  /\ service \in {"batch", "counts", "graph", "lans", "images"}
  /\ FlagInit
  /\ IF service = "counts" THEN PlanInit ELSE PlanIdle
  /\ IF service = "graph" THEN GraphInit ELSE GraphIdle
  /\ IF service = "lans" THEN LanInit ELSE LanIdle
  /\ IF service = "images" THEN CacheInit ELSE CacheIdle

ServicesNext ==
  /\ UNCHANGED service
  /\ \/ service = "batch" /\ FlagNext /\ UNCHANGED <<planVars, graphVars, lanVars, cacheVars>>
     \/ service = "counts" /\ PlanNext /\ UNCHANGED <<flagVars, graphVars, lanVars, cacheVars>>
     \/ service = "graph" /\ GraphNext /\ UNCHANGED <<flagVars, planVars, lanVars, cacheVars>>
     \/ service = "lans" /\ LanNext /\ UNCHANGED <<flagVars, planVars, graphVars, cacheVars>>
     \/ service = "images" /\ CacheNext /\ UNCHANGED <<flagVars, planVars, graphVars, lanVars>>

\* The threads of batches and runs go on.
ServicesFairSpec ==
  ServicesInit /\ [][ServicesNext]_serviceVars /\ FlagFairness /\ CacheFairness

\* All variables keep their types.
FlagServicesTypeOK == FlagTypeOK /\ PlanTypeOK /\ GraphTypeOK /\ LanTypeOK /\ CacheTypeOK

\* The topology of a preview is the one that was asked for, in the links between its
\* routers and in the hosts behind them.
TopologyAsAsked == LinksAsAsked /\ HostsAsAsked

\* A plan has the nodes that its rows ask for, and no host for a challenge twice.
NodesAsAsked == CountsAsAsked /\ DemandOnce

\* A batch that is stopped ends, and so does every run over images.
ThreadsEnd == StopEndsFlagBatch /\ CacheRunsEnd
=============================================================================
