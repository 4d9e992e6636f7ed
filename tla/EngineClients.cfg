CONSTANTS
  Journals = {j1}
  NoJournal = NoJournal
  NoClient = NoClient
  Clients = {w1, w2}
  WriterClients = {w1, w2}
  Strategies = {w1, w2}
  MaxUsers = 2
  Restarting = {w1}
  RenameOutcomes = {TRUE, FALSE}
  HasTempPage = TRUE
  DieRequesting = FALSE
  MaxPage = 2
  MaxGen = 2
  MaxReaderUsers = 1
  MaxReaders = 1
  RidRange = 10
SPECIFICATION Spec
CHECK_DEADLOCK FALSE
INVARIANTS
  MappedIffCounted
  SlotsOwnedOnce
  RidWindowsDisjoint
  OneWriterPerPage
  OnlyOvertakenPagesAreLeft
  UnownedSlotsRaw
PROPERTIES
  LeavesByItself
