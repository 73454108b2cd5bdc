SPECIFICATION FairSpec
CONSTANTS
  a1 = a1  a2 = a2  c1 = c1  c2 = c2
  phone = phone  moss = moss  gate = gate
  Actions = {a1, a2}
  Calls = {c1, c2}
  Clients = {phone, moss}
  Approvers = {phone}
  InProcess = gate
  ClientGrant <- MCGrant
  Requests <- MCRequests
  ExpireSingle = 1
  ExpireBatch = 2
  RetainFor = 0
  MaxTime = 2
  MaxCrashes = 1
  MaxFaults = 1
INVARIANTS RunsAtMostOnce  RecordTellsTheTruth
  RunningHasItsWorker
PROPERTIES RowsMoveForward EveryQuestionCloses EveryRunSettles ImplementsOwnerGate
CHECK_DEADLOCK FALSE
