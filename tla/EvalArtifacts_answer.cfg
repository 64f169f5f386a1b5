\* One build and one status request.
SPECIFICATION Spec
CONSTANTS
  Runs = {r1}
  Schedulers = {s1}
  Readers = {q1}
  Nobody = Nobody
  MaxRestarts = 0
PROPERTIES InterruptedIsTrue
