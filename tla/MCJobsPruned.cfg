\* The docstring's claim about results, which pruning a running job's file breaks.
SPECIFICATION Spec
CONSTANTS
  j1 = j1  j2 = j2  j3 = j3  client = client
  Ids = {j1, j2, j3}
  Pollers = {client}
  Keep = 2
  MaxTime = 0
  MaxCrashes = 0
  MaxFaults = 0
PROPERTIES EveryResultIsKept
CHECK_DEADLOCK FALSE
