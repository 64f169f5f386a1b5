\* Two runs and an evaluation run compete for one VM; remote CLIs and the
\* harness may hang forever, the web process may be restarted once; status
\* requests do not touch the lock.
SPECIFICATION ThreadSpec
CONSTANTS
  Runs = {r1, r2}
  Harnesses = {h1}
  Targets = {v1}
  Pollers = {}
  MaxRestarts = 1
  NoOne = NoOne
INVARIANTS TypeOK LockMatchesWorker
PROPERTIES SessionNotPulled ImplementsVmLock WaitResolves LockGivenBack
