SPECIFICATION FairSpec
CONSTANTS
  N = 2
  Needed = {"login", "settle"}
  MaxOrders = 3
  MaxFaults = 3
INVARIANTS
  FlagsAreSession
  RefsFresh
PROPERTIES
  LoggedInAgain
CHECK_DEADLOCK FALSE
