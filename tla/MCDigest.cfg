SPECIFICATION FairSpec
CONSTANTS
  i1 = i1  i2 = i2
  Items = {i1, i2}
  PartTries = 2
  MaxRuns = 2
  MaxLoad = 3
  MaxReacts = 2
  MaxFaults = 1
INVARIANTS ShownWhenComplete NeverBlind
PROPERTIES NewestCardCounts NoBeatsTheCard EveryRunCompletes
CHECK_DEADLOCK FALSE
