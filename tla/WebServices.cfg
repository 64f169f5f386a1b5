\* Two threads finalise two runs, with one restart and one reader; two request
\* keys, two browsers and three jobs; chains of three challenges; two entries
\* and two writers of the run history, whose reading fails once;
\* one generation with up to three attempts.
SPECIFICATION WebFairSpec
CONSTANTS
  Runs = {r1, r2}
  Schedulers = {s1, s2}
  Readers = {q1}
  Nobody = Nobody
  MaxRestarts = 1
  Keys = {k1, k2}
  Clients = {c1, c2}
  Jobs = {j1, j2, j3}
  NoJob = NoJob
  Steps = {1, 2, 3}
  Generators = {"g", "h"}
  Uses <- MCUses
  Facts = {"a", "b"}
  Contracts <- MCContracts
  Assignments <- MCAssignments
  Entries = {e1, e2}
  Writers = {w1, w2}
  Unlocked = Unlocked
  NoFile = NoFile
  Torn = Torn
  MaxReadErrors = 1
  AiRequests = {a1}
  Attempts = 3
INVARIANTS
  ServicesTypeOK
  OneBuilder
  PreparingIsTrue
  OneExecution
  KeepsSolvable
  FindsSolvable
  HistoryKept
  OneOutcome
PROPERTIES
  ResultFinal
  ResponseFinal
  ServicesEnd
