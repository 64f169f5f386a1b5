\* As VulnBatch_report.cfg, and a user stops one of the tests himself and says
\* that it passed; no evaluation run.
SPECIFICATION Spec
CONSTANTS
  Batches = {b1}
  NumItems = 2
  Evals = {}
  MaxUserStops = 1
  UserVerdicts = {"ok"}
  NoOne = NoOne
INVARIANTS CleanedBeforeNext VerdictEarned
CHECK_DEADLOCK FALSE
