SPECIFICATION FairSpec
CONSTANTS
  N = 2
  OrderTries = 2
  MaxFaults = 1
  MaxCrashes = 1
INVARIANTS TypeOK OneReplyOneQuote ReplacedForGood NothingSkipped OneLiveUnlessBroken
PROPERTIES EveryReplyIsAnswered
CHECK_DEADLOCK FALSE
