\* One run, no contention: cancel_run while the run waits, prepares or runs.
SPECIFICATION Spec
CONSTANTS
  Runs = {r1}
  Harnesses = {h1}
  Targets = {v1}
  Pollers = {}
  MaxRestarts = 0
  NoOne = NoOne
PROPERTIES CancelStopsLaunch
