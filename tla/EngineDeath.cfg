CONSTANTS
  w1 = w1
  w2 = w2
  w3 = w3
  j1 = j1
  j2 = j2
  Journals = {j1, j2}
  NoJournal = NoJournal
  NoClient = NoClient
  Clients = {w1, w2, w3}
  WriterClients = {w1, w2, w3}
  Strategies = {}
  MaxUsers = 3
  Restarting = {w1}
  RenameOutcomes = {TRUE}
  HasTempPage = FALSE
  DieRequesting = TRUE
  MaxPage = 2
  MaxGen = 3
  MaxReaderUsers = 1
  MaxReaders = 2
  RidRange = 10
SPECIFICATION ScheduleSpec
CHECK_DEADLOCK FALSE
INVARIANTS
  OneWriterPerPage
