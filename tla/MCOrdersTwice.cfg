SPECIFICATION Spec
CONSTANTS
  o1 = o1  o2 = o2
  Age <- MCAge
  Books <- MCBooks
  MaxEmails = 1
  MaxCards = 1
  RetryUnreachable = 2
  RetryUndelivered = 2
  RetryStatus = 2
  Patience = 1
  None = None
INVARIANTS
  TwiceOnlyIfUnreached
CHECK_DEADLOCK FALSE
