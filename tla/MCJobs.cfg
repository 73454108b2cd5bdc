SPECIFICATION FairSpec
CONSTANTS
  j1 = j1  j2 = j2  j3 = j3  client = client
  Ids = {j1, j2}
  Pollers = {client}
  Keep = 1
  MaxTime = 1
  MaxCrashes = 2
  MaxFaults = 2
INVARIANTS OneEnd DirectoryBounded
PROPERTIES EndsAreFinal EveryRecordEnds
CHECK_DEADLOCK FALSE
