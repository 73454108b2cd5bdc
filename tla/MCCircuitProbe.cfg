\* The docstring's single probe, which a late answer of an older call undoes.
SPECIFICATION Spec
CONSTANTS
  t1 = t1  t2 = t2  t3 = t3
  Threads = {t1, t2, t3}
  Threshold = 1
  Recovery = 1
  MaxTime = 2
  MaxCalls = 4
INVARIANTS OneProbe
CHECK_DEADLOCK FALSE
