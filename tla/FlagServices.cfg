\* A batch of two generators, each with one runner and three who may clean up after
\* it: the batch, a stop request and a user, who cleans up one test of his choice;
\* up to five routers linked; up to five hosts behind up to two routers;
\* runs, one after the other, over the images of two catalogue items.
SPECIFICATION ServicesFairSpec
CONSTANTS
  MaxFlags = 2
  MaxUserFlags = 1
  Roles = {"Server", "Workstation", "PC", "Docker"}
  RandomRoles <- MCRandomRoles
  Names = {"x", "y"}
  RandomNames <- MCRandomNames
  NodeSections <- MCNodeSections
  ItemSections <- MCItemSections
  Bases = {0, 1, 4}
  Tenths = {5}
  MaxRouters = 5
  MaxDegree = 4
  MaxHosts = 5
  MaxLans = 2
  Bounds <- MCBounds
  Slots = {0, 1, 2, 3, 4, 5}
  Base = 0
  Reserved = {4, 5}
  LanSize = 3
  Rounds = 1
  Tries = 1
  Star = Star
  CacheRuns = {c1}
  CacheItems = {1, 2}
  Images = {"a"}
  Needs <- MCNeeds
INVARIANTS
  FlagServicesTypeOK
  FlagReportComplete
  FlagVerdictEarned
  FlagSessionsGone
  NodesAsAsked
  TopologyAsAsked
  AddressesDistinct
  CacheTells
PROPERTIES
  ThreadsEnd
