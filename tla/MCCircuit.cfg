SPECIFICATION FairSpec
CONSTANTS
  t1 = t1  t2 = t2  t3 = t3
  Threads = {t1, t2, t3}
  Threshold = 2
  Recovery = 1
  MaxTime = 2
  MaxCalls = 5
INVARIANTS HalfOpenHasItsProbe OpenIsEarned
PROPERTIES ProbesAreSpaced LessonsAreNews ProbesSettle
CHECK_DEADLOCK FALSE
