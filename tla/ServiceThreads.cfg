CONSTANTS
  Room = 2
  MaxPages = 3
  MaxWrites = 3
  MaxRequests = 1
SPECIFICATION FairSpec
CHECK_DEADLOCK FALSE
INVARIANTS
  WrittenIfAcked
PROPERTIES
  DemandsAnsweredOrStuck
  StuckForEver
  StopReturns
