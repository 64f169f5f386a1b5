\* Two runs on either of two VMs, two status requests that may finalise the same
\* run at once, a cancellation and a restart at any point of a run's life.
SPECIFICATION Spec
CONSTANTS
  Runs = {r1, r2}
  Harnesses = {}
  Targets = {v1, v2}
  Pollers = {p1, p2}
  MaxRestarts = 1
  NoOne = NoOne
SYMMETRY RunSymmetry
INVARIANTS OneHistoryEntry HistoryTruthful
PROPERTIES ImplementsVmLock
CHECK_DEADLOCK FALSE
