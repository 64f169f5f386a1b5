\* A batch of one item and an evaluation run on the same VM.
SPECIFICATION Spec
CONSTANTS
  Batches = {b1}
  NumItems = 1
  Evals = {e1}
  MaxUserStops = 0
  UserVerdicts = {"ok"}
  NoOne = NoOne
PROPERTIES EvalNotDisturbed
