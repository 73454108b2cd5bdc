\* The docstring's single live quote, which a pass that breaks after parking undoes.
SPECIFICATION Spec
CONSTANTS
  N = 2
  OrderTries = 2
  MaxFaults = 1
  MaxCrashes = 0
INVARIANTS OneLiveQuote
CHECK_DEADLOCK FALSE
