\* One batch of two items that may be stopped at any point and whose tests may
\* hang or die; its tests and an evaluation run share the VM.
SPECIFICATION FairSpec
CONSTANTS
  Batches = {b1}
  NumItems = 2
  Evals = {e1}
  MaxUserStops = 0
  UserVerdicts = {}
  NoOne = NoOne
INVARIANTS TypeOK ResultsComplete
PROPERTIES VerdictsKept StopEndsBatch
CHECK_DEADLOCK FALSE
