\* Two batch/start requests.
SPECIFICATION Spec
CONSTANTS
  Batches = {b1, b2}
  NumItems = 1
  Evals = {}
  MaxUserStops = 0
  UserVerdicts = {"ok"}
  NoOne = NoOne
INVARIANTS OneActiveBatch
CHECK_DEADLOCK FALSE
