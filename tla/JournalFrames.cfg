CONSTANTS
  Readers = {r1}
  MaxPage = 3
  PageSize = 4
  Headroom = 2
  Lengths = {1, 2}
  MaxTime = 4
SPECIFICATION FairSpec
CHECK_DEADLOCK FALSE
INVARIANTS
  TypeOK
  NullMeansNoMore
  ClosedPagesCounted
PROPERTIES
  ImplementsLog
  ReadersCatchUp
