SPECIFICATION FairSpec
CONSTANTS
  Types = {"MD", "L2"}
  Tickers = {"a", "b"}
  MaxBatches = 3
  MaxFaults = 4
INVARIANTS
  HistorySubscribed
  OnlyAskedSubscribed
  NoNullCall
PROPERTIES
  SubscribedAgain
CHECK_DEADLOCK FALSE
