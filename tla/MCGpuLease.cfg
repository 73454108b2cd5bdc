SPECIFICATION Spec
CONSTANTS
  gate1 = gate1
  build = build
  small = small
  voiceModel = voiceModel
  gateModel = gateModel
  coder = coder
  mini = mini
  Tenants <- MCTenants
  Gate = gate1
  Exclusive <- MCExclusive
  Asking <- MCAsking
  Scheduler <- MCScheduler
  Models <- MCModels
  ModelOf <- MCModelOf
  Voice = voiceModel
  Size <- MCSize
  Room = 3
  Callers = {c1, c2}
  None = None
INVARIANTS
  PlacedCallsHoldTheCard
PROPERTIES
  RoomIsMadeFairly
  WarmAgain
  TurnsCome
CHECK_DEADLOCK FALSE
