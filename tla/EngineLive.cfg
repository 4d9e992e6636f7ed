CONSTANTS
  Journals = {j1, j2}
  NoJournal = NoJournal
  NoClient = NoClient
  Clients = {w1, r1}
  WriterClients = {w1}
  Strategies = {w1}
  MaxUsers = 2
  Restarting = {}
  RenameOutcomes = {TRUE}
  HasTempPage = FALSE
  DieRequesting = TRUE
  MaxPage = 2
  MaxGen = 2
  MaxReaderUsers = 2
  MaxReaders = 1
  RidRange = 10
SPECIFICATION FairSpec
CHECK_DEADLOCK FALSE
INVARIANTS
  TypeOK
  ReaderNeverRestarts
PROPERTIES
  RequestsAnswered
  DeadAreForgotten
