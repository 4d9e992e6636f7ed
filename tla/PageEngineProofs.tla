------------------------- MODULE PageEngineProofs -------------------------
(***************************************************************************)
(* What holds of PageEngine for every number of clients, slots, journals   *)
(* and pages: its types, the mapped pages, the slots and their request id  *)
(* windows; then who leaves the page service; and, if no process dies      *)
(* while it waits for a page, who writes which page, and that readers go   *)
(* on from page to page.                                                   *)
(***************************************************************************)
EXTENDS PageEngine, FiniteSetTheorems, TLAPS

USE PageStoreAssumption, PageEngineAssumption

-----------------------------------------------------------------------------
(* The page table.                                                         *)

(* There are finitely many slots, so a release counts finitely many messages. *)
LEMMA ReleasingType ==
  ASSUME NEW S \in SUBSET Slots, NEW msgs \in [S -> PageCommMsg], NEW w, NEW k
  PROVE  Releasing(msgs, w, k) \in Nat
<1>1. IsFiniteSet(Slots)
  BY FS_Interval DEF Slots
<1>2. {x \in DOMAIN msgs : msgs[x].is_writer = w /\ KeyOf(msgs[x]) = k} \subseteq Slots
  OBVIOUS
<1>3. IsFiniteSet({x \in DOMAIN msgs : msgs[x].is_writer = w /\ KeyOf(msgs[x]) = k})
  BY <1>1, <1>2, FS_Subset
<1>4. QED
  BY <1>3, FS_CardinalityType DEF Releasing

(* A count never goes below zero, and a positive one was positive before. *)
LEMMA CountAfterType ==
  ASSUME NEW m \in Nat, NEW n \in Nat
  PROVE  CountAfter(m, n) \in Nat /\ (CountAfter(m, n) > 0 => m > 0)
BY DEF CountAfter

(* release_page keeps the types of the maps, ... *)
LEMMA ReleaseCounts ==
  ASSUME NEW st \in Store, NEW S \in SUBSET Slots, NEW msgs \in [S -> PageCommMsg]
  PROVE  /\ WritersAfter(st, msgs) \in [Keys -> Nat]
         /\ ReadersAfter(st, msgs) \in [Keys -> Nat]
         /\ \A k \in Keys : /\ WritersAfter(st, msgs)[k] > 0 => st.fileWriterCounts[k] > 0
                            /\ ReadersAfter(st, msgs)[k] > 0 => st.fileReaderCounts[k] > 0
<1>1. \A k \in Keys : st.fileWriterCounts[k] \in Nat /\ st.fileReaderCounts[k] \in Nat
  BY DEF Store
<1>2. \A k \in Keys : Releasing(msgs, TRUE, k) \in Nat /\ Releasing(msgs, FALSE, k) \in Nat
  BY ReleasingType
<1>3. \A k \in Keys :
        LET w == CountAfter(st.fileWriterCounts[k], Releasing(msgs, TRUE, k))
            r == CountAfter(st.fileReaderCounts[k], Releasing(msgs, FALSE, k))
        IN  /\ w \in Nat /\ (w > 0 => st.fileWriterCounts[k] > 0)
            /\ r \in Nat /\ (r > 0 => st.fileReaderCounts[k] > 0)
  BY <1>1, <1>2, CountAfterType
<1>4. QED
  BY <1>3 DEF WritersAfter, ReadersAfter

LEMMA ReleaseType ==
  ASSUME NEW st \in Store, NEW S \in SUBSET Slots, NEW msgs \in [S -> PageCommMsg]
  PROVE  Release(st, msgs) \in Store
BY ReleaseCounts DEF Release, Store

(* ... and unmaps exactly the pages whose last count it takes away. *)
LEMMA ReleaseMapped ==
  ASSUME NEW st \in Store, MappedMatches(st),
         NEW S \in SUBSET Slots, NEW msgs \in [S -> PageCommMsg]
  PROVE  MappedMatches(Release(st, msgs))
<1> DEFINE rel == Release(st, msgs)
           W == WritersAfter(st, msgs)
           R == ReadersAfter(st, msgs)
<1> SUFFICES ASSUME NEW k \in Keys
             PROVE  k \in rel.fileAddrs <=> rel.fileWriterCounts[k] > 0 \/ rel.fileReaderCounts[k] > 0
  BY DEF MappedMatches
<1>1. /\ rel.fileWriterCounts = W /\ rel.fileReaderCounts = R
      /\ rel.fileAddrs = st.fileAddrs \ Unmapped(st, msgs)
  BY DEF Release, Store
<1>2. k \in st.fileAddrs <=> st.fileWriterCounts[k] > 0 \/ st.fileReaderCounts[k] > 0
  BY DEF MappedMatches
<1>3. /\ W \in [Keys -> Nat] /\ R \in [Keys -> Nat]
      /\ \A x \in Keys : /\ W[x] > 0 => st.fileWriterCounts[x] > 0
                         /\ R[x] > 0 => st.fileReaderCounts[x] > 0
  BY ReleaseCounts
<1>4. /\ W[k] > 0 => st.fileWriterCounts[k] > 0
      /\ R[k] > 0 => st.fileReaderCounts[k] > 0
  BY <1>3
<1>5. k \in Unmapped(st, msgs) <=>
        /\ W[k] = 0 /\ R[k] = 0
        /\ st.fileWriterCounts[k] > 0 \/ st.fileReaderCounts[k] > 0
  BY DEF Unmapped
<1>6. W[k] \in Nat /\ R[k] \in Nat
  BY <1>3
<1>7. k \in rel.fileAddrs <=> W[k] > 0 \/ R[k] > 0
  <2>1. (W[k] = 0 <=> ~(W[k] > 0)) /\ (R[k] = 0 <=> ~(R[k] > 0))
    BY <1>6
  <2>2. QED
    BY <1>1, <1>2, <1>4, <1>5, <2>1
<1>8. QED
  BY <1>1, <1>7

LEMMA InitiateStatusType ==
  ASSUME NEW st, NEW msg, NEW renamed
  PROVE  InitiateStatus(st, msg, renamed)
           \in {"NON_EXIST", "CANNOT_RENAME_FROM_TEMP", "MORE_THAN_ONE_WRITE", "ALLOCATED"}
BY DEF InitiateStatus

(* initiate_page keeps the types, ... *)
LEMMA InitiateType ==
  ASSUME NEW st \in Store, NEW msg \in PageCommMsg, NEW status
  PROVE  InitiateStore(st, msg, status) \in Store
<1> DEFINE k == KeyOf(msg)
<1>1. k \in Keys
  BY DEF KeyOf, PageCommMsg, Keys
<1>2. /\ st.fileWriterCounts \in [Keys -> Nat] /\ st.fileReaderCounts \in [Keys -> Nat]
      /\ st.fileAddrs \in SUBSET Keys /\ st.files \in SUBSET Keys /\ st.temp \in BOOLEAN
  BY DEF Store
<1>3. /\ [st.fileWriterCounts EXCEPT ![k] = 1] \in [Keys -> Nat]
      /\ [st.fileReaderCounts EXCEPT ![k] = st.fileReaderCounts[k] + 1] \in [Keys -> Nat]
  BY <1>1, <1>2
<1>4. /\ WritersWith(st, msg, status) \in [Keys -> Nat]
      /\ ReadersWith(st, msg, status) \in [Keys -> Nat]
  BY <1>2, <1>3 DEF WritersWith, ReadersWith
<1>5. QED
  BY <1>1, <1>2, <1>4 DEF InitiateStore, Store

(* ... and maps a page only if it is or becomes counted. *)
LEMMA InitiateMapped ==
  ASSUME NEW st \in Store, MappedMatches(st), NEW msg \in PageCommMsg, NEW renamed
  PROVE  MappedMatches(InitiateStore(st, msg, InitiateStatus(st, msg, renamed)))
<1> DEFINE status == InitiateStatus(st, msg, renamed)
           new == InitiateStore(st, msg, status)
           k == KeyOf(msg)
<1>1. k \in Keys
  BY DEF KeyOf, PageCommMsg, Keys
<1>2. /\ st.fileWriterCounts \in [Keys -> Nat] /\ st.fileReaderCounts \in [Keys -> Nat]
      /\ msg.is_writer \in BOOLEAN
  BY DEF Store, PageCommMsg
<1>3. CASE status \in {"NON_EXIST", "CANNOT_RENAME_FROM_TEMP"}
  BY <1>3 DEF InitiateStore
<1>4. CASE status \in {"MORE_THAN_ONE_WRITE", "ALLOCATED"}
  <2> SUFFICES ASSUME NEW x \in Keys
               PROVE  x \in new.fileAddrs <=> new.fileWriterCounts[x] > 0 \/ new.fileReaderCounts[x] > 0
    BY DEF MappedMatches
  <2>1. /\ new.fileAddrs = st.fileAddrs \cup {k}
        /\ new.fileWriterCounts = WritersWith(st, msg, status)
        /\ new.fileReaderCounts = ReadersWith(st, msg, status)
    BY <1>4 DEF InitiateStore
  <2>2. x \in st.fileAddrs <=> st.fileWriterCounts[x] > 0 \/ st.fileReaderCounts[x] > 0
    BY DEF MappedMatches
  <2>3. CASE x # k
    BY <1>2, <2>1, <2>2, <2>3 DEF WritersWith, ReadersWith
  <2>4. CASE x = k
    <3>1. CASE status = "MORE_THAN_ONE_WRITE"
      <4>1. st.fileWriterCounts[k] > 0
        BY <3>1 DEF InitiateStatus
      <4>2. QED
        BY <2>1, <2>4, <3>1, <4>1 DEF WritersWith
    <3>2. CASE status = "ALLOCATED" /\ msg.is_writer
      BY <1>1, <1>2, <2>1, <2>4, <3>2 DEF WritersWith
    <3>3. CASE status = "ALLOCATED" /\ ~msg.is_writer
      <4>1. st.fileReaderCounts[k] + 1 > 0
        BY <1>1, <1>2
      <4>2. QED
        BY <1>1, <1>2, <2>1, <2>4, <3>3, <4>1 DEF ReadersWith
    <3>4. QED
      BY <1>2, <1>4, <3>1, <3>2, <3>3
  <2>5. QED
    BY <2>3, <2>4
<1>5. QED
  BY <1>3, <1>4, InitiateStatusType

-----------------------------------------------------------------------------
(* Type correctness.                                                       *)

(* The page numbers a journal asks for are page numbers. *)
LEMMA PagesAsked ==
  /\ -1 \in PageNums /\ 0 \in PageNums
  /\ \A p \in 1 .. MaxPage : p \in PageNums
  /\ \A p \in PageNums : p < MaxPage => p + 1 \in PageNums
BY DEF PageNums

LEMMA RegisteredInfo ==
  ASSUME TypeOK, NEW c \in Clients, Registered(c)
  PROVE  /\ clientJournals[c] \in ClientInfo
         /\ clientJournals[c].users \subseteq Slots
BY DEF TypeOK, Registered, ClientInfo

LEMMA LeavingSlots ==
  ASSUME TypeOK, NEW cs \in SUBSET Clients, \A c \in cs : Registered(c)
  PROVE  Leaving(cs) \subseteq Slots
BY RegisteredInfo DEF Leaving

(* What exit_client does to the table is a release of messages of the comm buffer. *)
LEMMA HoldingMsgs ==
  ASSUME TypeOK, NEW S \in SUBSET Slots
  PROVE  [s \in S |-> comm[s]] \in [S -> PageCommMsg]
BY DEF TypeOK

(* exit_client keeps the types. *)
LEMMA ExitClientsType ==
  ASSUME TypeOK, NEW cs \in SUBSET Clients, \A c \in cs : Registered(c), ExitClients(cs)
  PROVE  /\ comm' \in [Slots -> PageCommMsg]
         /\ store' \in Store
         /\ clientJournals' \in [Clients -> ClientInfo \cup {NoClient}]
<1> DEFINE holding == {s \in Leaving(cs) : comm[s].status = "ALLOCATED"}
<1>1. holding \in SUBSET Slots
  BY LeavingSlots
<1>2. store' \in Store
  <2>1. store' = Release(store, [s \in holding |-> comm[s]])
    BY DEF ExitClients
  <2>2. store \in Store
    BY DEF TypeOK
  <2> HIDE DEF holding
  <2>3. QED
    BY <1>1, <2>1, <2>2, HoldingMsgs, ReleaseType
<1>3. comm' \in [Slots -> PageCommMsg]
  <2>1. \A s \in Slots : comm[s] \in PageCommMsg /\ [comm[s] EXCEPT !.status = "RAW"] \in PageCommMsg
    BY DEF TypeOK, PageCommMsg, Statuses
  <2>2. comm' = [s \in Slots |-> IF s \in Leaving(cs) THEN [comm[s] EXCEPT !.status = "RAW"] ELSE comm[s]]
    BY DEF ExitClients
  <2>3. QED
    BY <2>1, <2>2
<1>4. clientJournals' \in [Clients -> ClientInfo \cup {NoClient}]
  BY DEF ExitClients, Forget, TypeOK
<1>5. QED
  BY <1>2, <1>3, <1>4

(* The release of the last page in start_comm is a release of one message. *)
LEMMA ReleaseLastMsg ==
  ASSUME TypeOK, NEW s \in Slots
  PROVE  /\ {s} \in SUBSET Slots
         /\ [x \in {s} |-> [comm[s] EXCEPT !.page_num = comm[s].last_page_num]]
              \in [{s} -> PageCommMsg]
BY DEF TypeOK, PageCommMsg

LEMMA ReleaseLastType ==
  ASSUME TypeOK, NEW s \in Slots
  PROVE  ReleaseLast(s) \in Store
<1>1. store \in Store
  BY DEF TypeOK
<1>2. Release(store, [x \in {s} |-> [comm[s] EXCEPT !.page_num = comm[s].last_page_num]]) \in Store
  BY <1>1, ReleaseLastMsg, ReleaseType
<1>3. QED
  BY <1>1, <1>2 DEF ReleaseLast

LEMMA TypeInit == Init => TypeOK
<1> SUFFICES ASSUME Init PROVE TypeOK
  OBVIOUS
<1>1. 0 \in Slots /\ 0 \in PageNums
  BY DEF Slots, PageNums
<1>2. RawMsg \in PageCommMsg
  BY <1>1 DEF RawMsg, PageCommMsg, Statuses
<1>3. NoUser \in JournalUser
  BY <1>1 DEF NoUser, JournalUser, Calls
<1>4. EmptyStore \in Store
  BY DEF EmptyStore, Store
<1>5. QED
  BY <1>1, <1>2, <1>3, <1>4 DEF Init, TypeOK

(* What the actions write to a slot is a message, and to a user is a user. *)
LEMMA MsgUpdates ==
  ASSUME NEW m \in PageCommMsg, NEW x \in Statuses, NEW p \in PageNums
  PROVE  /\ [m EXCEPT !.status = x, !.last_page_num = p] \in PageCommMsg
         /\ [m EXCEPT !.page_num = p, !.status = x] \in PageCommMsg
BY DEF PageCommMsg

LEMMA UserUpdates ==
  ASSUME NEW u \in JournalUser, NEW call \in Calls, NEW p \in PageNums, NEW e \in BOOLEAN
  PROVE  /\ [u EXCEPT !.call = call] \in JournalUser
         /\ [u EXCEPT !.call = call, !.target = p] \in JournalUser
         /\ [u EXCEPT !.call = call, !.cur = p, !.expired = e] \in JournalUser
         /\ [u EXCEPT !.call = call, !.expired = e, !.cur = p] \in JournalUser
BY DEF JournalUser

(* Every action keeps the types. *)
LEMMA TypeNext == TypeOK /\ [Next]_vars => TypeOK'
<1> SUFFICES ASSUME TypeOK, [Next]_vars PROVE TypeOK'
  OBVIOUS
<1> USE DEF serverVars, commThread, clientVars, pageVars
<1>1. ASSUME NEW c \in Clients, RegClient(c) PROVE TypeOK'
  <2>1. gen[c] + 1 \in Nat
    BY DEF TypeOK
  <2>2. [users |-> {}, hash |-> gen[c] + 1, is_strategy |-> FALSE, rid_start |-> -1, rid_end |-> -1]
          \in ClientInfo
    BY <2>1 DEF ClientInfo
  <2>3. clientJournals' \in [Clients -> ClientInfo \cup {NoClient}]
    BY <1>1, <2>2 DEF RegClient, TypeOK
  <2>4. proc' \in [Clients -> {"down", "up", "exiting"}] /\ gen' \in [Clients -> Nat]
    BY <1>1, <2>1 DEF RegClient, TypeOK
  <2>5. QED
    BY <1>1, <2>3, <2>4 DEF RegClient, TypeOK
<1>30. ASSUME NEW c \in Clients, NEW j \in Journals, AddJournal(c, j) PROVE TypeOK'
  BY <1>30 DEF AddJournal, TypeOK
<1>31. ASSUME NEW s \in Slots, TakeSlot(s) PROVE comm' \in [Slots -> PageCommMsg]
  <2>1. [comm[s] EXCEPT !.status = "OCCUPIED", !.last_page_num = 0] \in PageCommMsg
    BY MsgUpdates, PagesAsked DEF TypeOK, Statuses
  <2>2. comm' = [comm EXCEPT ![s] = [comm[s] EXCEPT !.status = "OCCUPIED", !.last_page_num = 0]]
    BY <1>31 DEF TakeSlot, TypeOK
  <2>3. QED
    BY <2>1, <2>2 DEF TypeOK
<1>32. ASSUME NEW c \in Clients, NEW h, NEW j, TakesRequest(c, h, j)
       PROVE  regMsgs' \subseteq Clients \X Nat \X Journals
  BY <1>32 DEF TakesRequest, TypeOK
<1>2. ASSUME NEW c \in Clients, NEW h \in 1 .. MaxGen, NEW j \in Journals, NEW s \in Slots,
             RegJournal(c, h, j, s)
      PROVE  TypeOK'
  <2>1. comm' \in [Slots -> PageCommMsg] /\ regMsgs' \subseteq Clients \X Nat \X Journals
    BY <1>2, <1>31, <1>32 DEF RegJournal, GiveSlot
  <2>2. clientJournals' \in [Clients -> ClientInfo \cup {NoClient}]
    <3>1. Registered(c)
      BY <1>2 DEF RegJournal, GiveSlot
    <3>2. clientJournals[c] \in ClientInfo
      BY <3>1, RegisteredInfo
    <3>3. [clientJournals[c] EXCEPT !.users = @ \cup {s}] \in ClientInfo
      BY <3>2 DEF ClientInfo
    <3>4. clientJournals' =
            [clientJournals EXCEPT ![c] = [clientJournals[c] EXCEPT !.users = @ \cup {s}]]
      BY <1>2 DEF RegJournal, GiveSlot
    <3>5. QED
      BY <3>3, <3>4 DEF TypeOK
  <2>3. usr' \in [Slots -> JournalUser]
    <3>1. [NoUser EXCEPT !.owner = c, !.journal = j, !.call = "fill"] \in JournalUser
      BY PagesAsked DEF NoUser, JournalUser, Calls
    <3>2. QED
      BY <1>2, <3>1 DEF RegJournal, GiveSlot, TypeOK
  <2>4. maxIdx' \in Slots /\ serving' \in BOOLEAN
    BY <1>2 DEF RegJournal, GiveSlot, PolledUpTo, Waits, TypeOK
  <2>5. QED
    BY <1>2, <2>1, <2>2, <2>3, <2>4 DEF RegJournal, GiveSlot, TypeOK
<1>3. ASSUME NEW c \in Clients, SendExit(c)
      PROVE  proc' \in [Clients -> {"down", "up", "exiting"}] /\ exitMsgs' \subseteq Clients \X Nat
  BY <1>3 DEF SendExit, TypeOK
<1>33. ASSUME NEW c \in Clients, NEW h, AnswerFailure(c, h)
       PROVE  /\ proc' \in [Clients -> {"down", "up", "exiting"}]
              /\ exitMsgs' \subseteq Clients \X Nat /\ serving' \in BOOLEAN
  BY <1>3, <1>33 DEF AnswerFailure, TypeOK
<1>34. ASSUME NEW c \in Clients, NEW h \in 1 .. MaxGen, NEW j \in Journals, NEW s \in Slots,
              RegJournalUnknown(c, h, j, s)
       PROVE  TypeOK'
  <2>1. /\ comm' \in [Slots -> PageCommMsg] /\ regMsgs' \subseteq Clients \X Nat \X Journals
        /\ proc' \in [Clients -> {"down", "up", "exiting"}]
        /\ exitMsgs' \subseteq Clients \X Nat /\ serving' \in BOOLEAN
    BY <1>31, <1>32, <1>33, <1>34 DEF RegJournalUnknown
  <2>2. maxIdx' \in Slots
    BY <1>34 DEF RegJournalUnknown, PolledUpTo, TypeOK
  <2>3. QED
    BY <1>34, <2>1, <2>2 DEF RegJournalUnknown, TypeOK
<1>4. ASSUME NEW c \in Clients, NEW h \in 1 .. MaxGen, NEW j \in Journals, RegJournalFull(c, h, j)
      PROVE  TypeOK'
  <2>1. /\ regMsgs' \subseteq Clients \X Nat \X Journals
        /\ proc' \in [Clients -> {"down", "up", "exiting"}]
        /\ exitMsgs' \subseteq Clients \X Nat /\ serving' \in BOOLEAN
    BY <1>4, <1>32, <1>33 DEF RegJournalFull
  <2>2. QED
    BY <1>4, <2>1 DEF RegJournalFull, TypeOK
<1>5. ASSUME NEW c \in Clients, RegisterStrategy(c) PROVE TypeOK'
  <2>1. Registered(c) /\ clientJournals[c] \in ClientInfo
    BY <1>5, RegisteredInfo DEF RegisterStrategy
  <2>2. PICK s \in clientJournals[c].users :
          clientJournals' = [clientJournals EXCEPT ![c] =
            [clientJournals[c] EXCEPT !.is_strategy = TRUE, !.rid_start = RidStart(s), !.rid_end = RidEnd(s)]]
    BY <1>5 DEF RegisterStrategy
  <2>3. s \in Slots
    BY <2>1 DEF ClientInfo
  <2>4. RidStart(s) \in Int /\ RidEnd(s) \in Int
    BY <2>3 DEF Slots, RidStart, RidEnd
  <2>5. [clientJournals[c] EXCEPT !.is_strategy = TRUE, !.rid_start = RidStart(s), !.rid_end = RidEnd(s)]
          \in ClientInfo
    BY <2>1, <2>4 DEF ClientInfo
  <2>6. clientJournals' \in [Clients -> ClientInfo \cup {NoClient}]
    BY <2>2, <2>5 DEF TypeOK
  <2>7. QED
    BY <1>5, <2>6 DEF RegisterStrategy, TypeOK
<1>6. ASSUME NEW c \in Clients, ExitRequest(c) PROVE TypeOK'
  BY <1>3, <1>6 DEF ExitRequest, TypeOK
<1>7. ASSUME NEW c \in Clients PROVE Gone(c) \in [Slots -> JournalUser]
  <2>1. NoUser \in JournalUser
    BY PagesAsked DEF NoUser, JournalUser, Calls
  <2>2. QED
    BY <2>1 DEF Gone, TypeOK
<1>8. ASSUME NEW c \in Clients, NEW h \in 1 .. MaxGen, HandleExit(c, h) PROVE TypeOK'
  <2>1. /\ comm' \in [Slots -> PageCommMsg] /\ store' \in Store
        /\ clientJournals' \in [Clients -> ClientInfo \cup {NoClient}]
    <3>1. CASE HashMatches(c, h)
      BY <1>8, <3>1, ExitClientsType DEF HandleExit, HashMatches
    <3>2. CASE ~HashMatches(c, h)
      BY <1>8, <3>2 DEF HandleExit, TypeOK
    <3>3. QED
      BY <3>1, <3>2
  <2>2. /\ proc' \in [Clients -> {"down", "up", "exiting"}] /\ usr' \in [Slots -> JournalUser]
        /\ serving' \in BOOLEAN
    BY <1>7, <1>8 DEF HandleExit, TypeOK
  <2>3. exitMsgs' \subseteq Clients \X Nat
    BY <1>8 DEF HandleExit, TypeOK
  <2>4. QED
    BY <1>8, <2>1, <2>2, <2>3 DEF HandleExit, TypeOK
<1>9. ASSUME NEW s \in Slots, FillSlot(s) PROVE TypeOK'
  <2>1. usr[s] \in JournalUser /\ usr[s].owner \in Clients
    BY <1>9 DEF FillSlot, TypeOK, JournalUser
  <2>2. comm' \in [Slots -> PageCommMsg]
    BY <1>9, <2>1 DEF FillSlot, TypeOK, PageCommMsg, Statuses, JournalUser
  <2>3. usr' \in [Slots -> JournalUser]
    BY <1>9 DEF FillSlot, TypeOK, JournalUser, Calls
  <2>4. proc' \in [Clients -> {"down", "up", "exiting"}] /\ exitMsgs' \subseteq Clients \X Nat
    BY <1>3, <1>9, <2>1 DEF FillSlot, TypeOK
  <2>5. QED
    BY <1>9, <2>2, <2>3, <2>4 DEF FillSlot, TypeOK
<1>10. ASSUME NEW s \in Slots, ListPages(s) PROVE TypeOK'
  <2>1. usr' \in [Slots -> JournalUser]
    BY <1>10, PagesAsked DEF ListPages, TypeOK, JournalUser
  <2>2. QED
    BY <1>10, <2>1 DEF ListPages, TypeOK
<1>11. ASSUME NEW s \in Slots, NEW call \in Calls, NEW p \in PageNums, AskPage(s, call, p)
       PROVE  TypeOK'
  <2>1. comm' \in [Slots -> PageCommMsg]
    <3>1. [comm[s] EXCEPT !.page_num = p, !.status = "REQUESTING"] \in PageCommMsg
      BY MsgUpdates DEF TypeOK, Statuses
    <3>2. comm' = [comm EXCEPT ![s] = [comm[s] EXCEPT !.page_num = p, !.status = "REQUESTING"]]
      BY <1>11 DEF AskPage, TypeOK
    <3>3. QED
      BY <3>1, <3>2 DEF TypeOK
  <2>2. usr' \in [Slots -> JournalUser]
    <3>1. [usr[s] EXCEPT !.call = call, !.target = 0] \in JournalUser
      BY UserUpdates, PagesAsked DEF TypeOK
    <3>2. usr' = [usr EXCEPT ![s] = [usr[s] EXCEPT !.call = call, !.target = 0]]
      BY <1>11 DEF AskPage, TypeOK
    <3>3. QED
      BY <3>1, <3>2 DEF TypeOK
  <2>3. KeyOf(comm[s]) \in Keys
    BY DEF TypeOK, PageCommMsg, KeyOf, Keys
  <2>4. overtaken' \subseteq Keys
    BY <1>11, <2>3 DEF AskPage, TypeOK
  <2>5. QED
    BY <1>11, <2>1, <2>2, <2>4 DEF AskPage, TypeOK
<1>12. ASSUME NEW s \in Slots
       PROVE  usr[s].target \in PageNums /\ usr[s].cur \in PageNums
  BY DEF TypeOK, JournalUser
<1>13. ASSUME NEW s \in Slots, WriterSeekEnd(s) PROVE TypeOK'
  BY <1>11, <1>12, <1>13 DEF WriterSeekEnd, Calls
<1>14. ASSUME NEW s \in Slots, NEW p \in 1 .. MaxPage, ReaderSeek(s, p) PROVE TypeOK'
  BY <1>11, <1>14, PagesAsked DEF ReaderSeek, Calls
<1>15. ASSUME NEW s \in Slots, LoadNextPage(s) PROVE TypeOK'
  <2>1. usr[s].cur + 1 \in PageNums
    BY <1>12, <1>15, PagesAsked DEF LoadNextPage, CanLoadNext
  <2>2. QED
    BY <1>11, <1>15, <2>1 DEF LoadNextPage, Calls
<1>16. ASSUME NEW s \in Slots, Expire(s) PROVE TypeOK'
  <2>1. comm' \in [Slots -> PageCommMsg]
    <3>1. [comm[s] EXCEPT !.page_num = -1, !.status = "REQUESTING"] \in PageCommMsg
      BY MsgUpdates, PagesAsked DEF TypeOK, Statuses
    <3>2. comm' = [comm EXCEPT ![s] = [comm[s] EXCEPT !.page_num = -1, !.status = "REQUESTING"]]
      BY <1>16 DEF Expire, TypeOK
    <3>3. QED
      BY <3>1, <3>2 DEF TypeOK
  <2>2. usr' \in [Slots -> JournalUser]
    <3>1. [usr[s] EXCEPT !.call = "expire", !.expired = TRUE, !.cur = 0] \in JournalUser
      BY UserUpdates, PagesAsked DEF TypeOK, Calls
    <3>2. usr' = [usr EXCEPT ![s] = [usr[s] EXCEPT !.call = "expire", !.expired = TRUE, !.cur = 0]]
      BY <1>16 DEF Expire, TypeOK
    <3>3. QED
      BY <3>1, <3>2 DEF TypeOK
  <2>3. QED
    BY <1>16, <2>1, <2>2 DEF Expire, TypeOK
<1>17. ASSUME NEW s \in Slots, Answered(s), usr[s].owner \in WriterClients \/ comm[s].status = "ALLOCATED"
       PROVE  comm[s].page_num \in PageNums /\ Here(s) \in Keys /\ <<usr[s].journal, usr[s].cur>> \in Keys
  BY DEF TypeOK, PageCommMsg, JournalUser, Here, Keys
<1>18. ASSUME NEW s \in Slots, WriterGetsPage(s) PROVE TypeOK'
  <2>1. usr' \in [Slots -> JournalUser]
    <3>1. [usr[s] EXCEPT !.call = "none", !.cur = comm[s].page_num, !.expired = FALSE] \in JournalUser
      BY <1>17, <1>18, UserUpdates DEF WriterGetsPage, TypeOK, Calls
    <3>2. usr' = [usr EXCEPT ![s] =
                    [usr[s] EXCEPT !.call = "none", !.cur = comm[s].page_num, !.expired = FALSE]]
      BY <1>18 DEF WriterGetsPage, TypeOK
    <3>3. QED
      BY <3>1, <3>2 DEF TypeOK
  <2>2. inited' \subseteq Keys /\ ended' \subseteq Keys
    BY <1>17, <1>18 DEF WriterGetsPage, TypeOK
  <2>3. QED
    BY <1>18, <2>1, <2>2 DEF WriterGetsPage, TypeOK
<1>19. ASSUME NEW s \in Slots, WriterRefused(s) PROVE TypeOK'
  <2>1. usr' \in [Slots -> JournalUser]
    <3>1. \A call \in Calls : [usr[s] EXCEPT !.call = call] \in JournalUser
      BY DEF TypeOK, JournalUser
    <3>2. PICK call \in Calls : usr' = [usr EXCEPT ![s].call = call]
      BY <1>19 DEF WriterRefused, Calls
    <3>3. usr' = [usr EXCEPT ![s] = [usr[s] EXCEPT !.call = call]]
      BY <3>2 DEF TypeOK
    <3>4. QED
      BY <3>1, <3>3 DEF TypeOK
  <2>2. proc' \in [Clients -> {"down", "up", "exiting"}] /\ exitMsgs' \subseteq Clients \X Nat
    BY <1>3, <1>19 DEF WriterRefused, TypeOK
  <2>3. QED
    BY <1>19, <2>1, <2>2 DEF WriterRefused, TypeOK
<1>20. ASSUME NEW s \in Slots, WriterLost(s) PROVE TypeOK'
  <2>1. usr[s].owner \in Clients
    BY <1>20 DEF WriterLost
  <2>2. CASE usr[s].call = "seek"
    <3>1. [usr[s] EXCEPT !.call = "none", !.cur = 0, !.expired = TRUE] \in JournalUser
      BY UserUpdates, PagesAsked DEF TypeOK, Calls
    <3>2. usr' = [usr EXCEPT ![s] = [usr[s] EXCEPT !.call = "none", !.cur = 0, !.expired = TRUE]]
      BY <1>20, <2>2 DEF WriterLost, TypeOK
    <3>3. usr' \in [Slots -> JournalUser]
      BY <3>1, <3>2 DEF TypeOK
    <3>4. QED
      BY <1>20, <2>2, <3>3 DEF WriterLost, TypeOK
  <2>3. CASE usr[s].call # "seek"
    <3>1. ended' \subseteq Keys
      BY <1>17, <1>20, <2>3 DEF WriterLost, TypeOK
    <3>2. QED
      BY <1>7, <1>20, <2>1, <2>3, <3>1 DEF WriterLost, TypeOK
  <2>4. QED
    BY <2>2, <2>3
<1>21. ASSUME NEW s \in Slots, ReaderGetsAnswer(s) PROVE TypeOK'
  <2>1. usr' \in [Slots -> JournalUser]
    <3> DEFINE loaded == comm[s].status = "ALLOCATED" /\ Here(s) \in inited
               page == IF loaded THEN comm[s].page_num ELSE 0
               expired == IF usr[s].call = "seek" THEN ~loaded ELSE usr[s].expired
    <3>1. comm[s].page_num \in PageNums /\ usr[s].expired \in BOOLEAN
      BY DEF TypeOK, PageCommMsg, JournalUser
    <3>2. page \in PageNums /\ expired \in BOOLEAN
      BY <3>1, PagesAsked
    <3>3. usr' = [usr EXCEPT ![s] = [usr[s] EXCEPT !.call = "none", !.cur = page, !.expired = expired]]
      BY <1>21 DEF ReaderGetsAnswer, TypeOK
    <3>4. usr[s] \in JournalUser /\ "none" \in Calls
      BY DEF TypeOK, Calls
    <3> HIDE DEF page, expired
    <3>5. [usr[s] EXCEPT !.call = "none", !.cur = page, !.expired = expired] \in JournalUser
      BY <3>2, <3>4, UserUpdates
    <3>6. QED
      BY <3>3, <3>5 DEF TypeOK
  <2>2. QED
    BY <1>21, <2>1 DEF ReaderGetsAnswer, TypeOK
<1>22. ASSUME NEW c \in Clients, Die(c) PROVE TypeOK'
  BY <1>7, <1>22 DEF Die, TypeOK
<1>23. ASSUME NEW s \in Slots, CommScan(s) PROVE TypeOK'
  BY <1>23 DEF CommScan, TypeOK
<1>24. CASE CommServe
  <2>1. PICK renamed \in RenameOutcomes :
          LET released == ReleaseLast(commIdx)
              status   == InitiateStatus(released, comm[commIdx], renamed)
          IN  /\ store' = InitiateStore(released, comm[commIdx], status)
              /\ comm' = [comm EXCEPT ![commIdx].status = status]
    BY <1>24 DEF CommServe
  <2>2. commIdx \in Slots /\ comm[commIdx] \in PageCommMsg
    BY DEF TypeOK
  <2>3. store' \in Store
    BY <2>1, <2>2, ReleaseLastType, InitiateType
  <2>4. InitiateStatus(ReleaseLast(commIdx), comm[commIdx], renamed) \in Statuses
    BY InitiateStatusType DEF Statuses
  <2>5. comm' \in [Slots -> PageCommMsg]
    BY <2>1, <2>2, <2>4 DEF TypeOK, PageCommMsg
  <2>6. QED
    BY <1>24, <2>3, <2>5 DEF CommServe, TypeOK
<1>35. CASE CommRemember
  <2>1. 0 \in Slots /\ commIdx \in Slots
    BY DEF Slots, TypeOK
  <2>2. comm' \in [Slots -> PageCommMsg]
    BY <1>35, <2>1 DEF CommRemember, TypeOK, PageCommMsg
  <2>3. QED
    BY <1>35, <2>1, <2>2 DEF CommRemember, TypeOK
<1>25. CASE PidCheck
  <2>1. \A c \in {d \in Clients : Dead(d)} : Registered(c)
    BY DEF Dead
  <2>2. /\ comm' \in [Slots -> PageCommMsg] /\ store' \in Store
        /\ clientJournals' \in [Clients -> ClientInfo \cup {NoClient}]
    BY <1>25, <2>1, ExitClientsType DEF PidCheck
  <2>3. QED
    BY <1>25, <2>2 DEF PidCheck, TypeOK
<1>26. CASE TempPage
  <2>1. store' \in Store
    BY <1>26 DEF TempPage, AddTempPage, Store, TypeOK
  <2>2. QED
    BY <1>26, <2>1 DEF TempPage, TypeOK
<1>27. CASE UNCHANGED vars
  BY <1>27 DEF vars, TypeOK
<1>28. QED
  BY <1>1, <1>2, <1>4, <1>5, <1>6, <1>8, <1>9, <1>10, <1>13, <1>14, <1>15, <1>16, <1>18, <1>19,
     <1>20, <1>21, <1>22, <1>23, <1>24, <1>25, <1>26, <1>27, <1>30, <1>34, <1>35
  DEF Next, SocketNext, ClientNext, ServiceNext

(* Every variable of the service and of its clients has its type, for any number of each. *)
THEOREM TypeCorrect == Spec => []TypeOK
<1>1. QED
  BY TypeInit, TypeNext, PTL DEF Spec

-----------------------------------------------------------------------------
(* A page is mapped exactly while it is counted.                           *)

LEMMA MappedNext == TypeOK /\ MappedIffCounted /\ [Next]_vars => MappedIffCounted'
<1> SUFFICES ASSUME TypeOK, MappedIffCounted, [Next]_vars PROVE MappedIffCounted'
  OBVIOUS
<1> USE DEF serverVars, commThread, clientVars, pageVars
<1>1. store \in Store /\ MappedMatches(store)
  BY DEF TypeOK, MappedIffCounted
<1>2. ASSUME UNCHANGED store PROVE MappedIffCounted'
  BY <1>2 DEF MappedIffCounted, MappedMatches
<1>3. ASSUME NEW cs \in SUBSET Clients, \A c \in cs : Registered(c), ExitClients(cs)
      PROVE  MappedIffCounted'
  <2> DEFINE holding == {s \in Leaving(cs) : comm[s].status = "ALLOCATED"}
  <2>1. holding \in SUBSET Slots
    BY <1>3, LeavingSlots
  <2>2. store' = Release(store, [s \in holding |-> comm[s]])
    BY <1>3 DEF ExitClients
  <2> HIDE DEF holding
  <2>3. MappedMatches(Release(store, [s \in holding |-> comm[s]]))
    BY <1>1, <2>1, HoldingMsgs, ReleaseMapped
  <2>4. QED
    BY <2>2, <2>3 DEF MappedIffCounted, MappedMatches
<1>4. CASE SocketNext
  <2>1. ASSUME NEW c \in Clients, NEW h \in 1 .. MaxGen, HandleExit(c, h) PROVE MappedIffCounted'
    BY <1>2, <1>3, <2>1 DEF HandleExit, HashMatches
  <2>2. QED
    BY <1>2, <1>4, <2>1
    DEF SocketNext, RegClient, RegJournal, GiveSlot, RegJournalUnknown, RegJournalFull, RegisterStrategy
<1>5. CASE ClientNext
  BY <1>2, <1>5
  DEF ClientNext, AddJournal, ExitRequest, FillSlot, ListPages, WriterSeekEnd, ReaderSeek, LoadNextPage, AskPage, Expire,
      WriterGetsPage, WriterRefused, WriterLost, ReaderGetsAnswer, Die
<1>6. CASE CommServe
  <2>1. PICK renamed \in RenameOutcomes :
          store' = InitiateStore(ReleaseLast(commIdx), comm[commIdx],
                     InitiateStatus(ReleaseLast(commIdx), comm[commIdx], renamed))
    BY <1>6 DEF CommServe
  <2>2. commIdx \in Slots /\ comm[commIdx] \in PageCommMsg
    BY DEF TypeOK
  <2>3. ReleaseLast(commIdx) \in Store
    BY <2>2, ReleaseLastType
  <2>4. MappedMatches(ReleaseLast(commIdx))
    BY <1>1, <2>2, ReleaseLastMsg, ReleaseMapped DEF ReleaseLast
  <2>5. MappedMatches(store')
    BY <2>1, <2>2, <2>3, <2>4, InitiateMapped
  <2>6. QED
    BY <2>5 DEF MappedIffCounted, MappedMatches
<1>7. CASE PidCheck
  BY <1>3, <1>7 DEF PidCheck, Dead
<1>8. CASE TempPage
  <2>1. /\ store'.fileAddrs = store.fileAddrs
        /\ store'.fileWriterCounts = store.fileWriterCounts
        /\ store'.fileReaderCounts = store.fileReaderCounts
    BY <1>1, <1>8 DEF TempPage, AddTempPage, Store
  <2>2. QED
    BY <1>1, <2>1 DEF MappedIffCounted, MappedMatches
<1>9. ASSUME NEW s \in Slots, CommScan(s) PROVE MappedIffCounted'
  BY <1>2, <1>9 DEF CommScan
<1>10. CASE CommRemember
  BY <1>2, <1>10 DEF CommRemember
<1>11. CASE UNCHANGED vars
  BY <1>2, <1>11 DEF vars
<1>12. QED
  BY <1>4, <1>5, <1>6, <1>7, <1>8, <1>9, <1>10, <1>11 DEF Next, ServiceNext

(***************************************************************************)
(* However requests, refusals, exits and deaths interleave, the service    *)
(* maps a page when it counts its first user and unmaps it with the last:  *)
(* the two maps of counts and fileAddrs never drift apart.                 *)
(***************************************************************************)
THEOREM MappedInvariant == Spec => []MappedIffCounted
<1>1. Init => MappedIffCounted
  BY DEF Init, EmptyStore, MappedIffCounted, MappedMatches
<1>2. QED
  BY <1>1, MappedNext, TypeCorrect, PTL DEF Spec

-----------------------------------------------------------------------------
(* A slot has one owner.                                                   *)

(***************************************************************************)
(* The strengthening: a slot somebody owns is not RAW, so reg_journal does *)
(* not find it.                                                            *)
(***************************************************************************)
OwnedNotRaw ==
  \A c \in Clients : Registered(c) =>
    \A s \in clientJournals[c].users : comm[s].status # "RAW"
SlotInv == SlotsOwnedOnce /\ OwnedNotRaw

(* Freeing the slots of some clients leaves the others' alone. *)
LEMMA ExitClientsSlots ==
  ASSUME TypeOK, SlotInv, NEW cs \in SUBSET Clients, \A c \in cs : Registered(c), ExitClients(cs)
  PROVE  SlotInv'
<1>1. \A c \in Clients : Registered(c)' =>
        c \notin cs /\ Registered(c) /\ clientJournals'[c] = clientJournals[c]
  BY DEF ExitClients, Forget, Registered
<1>2. SlotsOwnedOnce'
  BY <1>1 DEF SlotInv, SlotsOwnedOnce
<1>3. ASSUME NEW c \in Clients, Registered(c)', NEW s \in clientJournals'[c].users
      PROVE  comm'[s].status # "RAW"
  <2>1. c \notin cs /\ Registered(c) /\ s \in clientJournals[c].users
    BY <1>1, <1>3
  <2>2. s \in Slots
    BY <2>1, RegisteredInfo
  <2>3. s \notin Leaving(cs)
    BY <2>1 DEF SlotInv, SlotsOwnedOnce, Leaving
  <2>4. QED
    BY <2>1, <2>2, <2>3 DEF ExitClients, SlotInv, OwnedNotRaw
<1>4. QED
  BY <1>2, <1>3 DEF SlotInv, OwnedNotRaw

LEMMA SlotNext == TypeOK /\ SlotInv /\ [Next]_vars => SlotInv'
<1> SUFFICES ASSUME TypeOK, SlotInv, [Next]_vars PROVE SlotInv'
  OBVIOUS
<1> USE DEF serverVars, commThread, clientVars, pageVars
<1>1. ASSUME UNCHANGED clientJournals,
             \A s \in Slots : comm[s].status # "RAW" => comm'[s].status # "RAW"
      PROVE  SlotInv'
  <2>1. \A c \in Clients : Registered(c)' => Registered(c) /\ clientJournals[c].users \subseteq Slots
    BY <1>1, RegisteredInfo DEF Registered
  <2>2. QED
    BY <1>1, <2>1 DEF SlotInv, SlotsOwnedOnce, OwnedNotRaw
<1>2. ASSUME UNCHANGED <<comm, clientJournals>> PROVE SlotInv'
  BY <1>1, <1>2
<1>3. ASSUME NEW c \in Clients, RegClient(c) PROVE SlotInv'
  <2>1. clientJournals'[c].users = {}
    BY <1>3 DEF RegClient, TypeOK
  <2>2. \A d \in Clients : d # c => clientJournals'[d] = clientJournals[d]
    BY <1>3 DEF RegClient, TypeOK
  <2>3. QED
    BY <1>3, <2>1, <2>2 DEF RegClient, SlotInv, SlotsOwnedOnce, OwnedNotRaw, Registered
<1>15. ASSUME NEW s \in Slots, TakeSlot(s)
       PROVE  /\ comm[s].status = "RAW" /\ comm'[s].status = "OCCUPIED"
              /\ \A t \in Slots : t # s => comm'[t] = comm[t]
  BY <1>15 DEF TakeSlot, FirstRaw, TypeOK, PageCommMsg
<1>4. ASSUME NEW c \in Clients, NEW h, NEW j \in Journals, NEW s \in Slots, RegJournal(c, h, j, s)
      PROVE  SlotInv'
  <2>1. Registered(c) /\ comm[s].status = "RAW"
    BY <1>4, <1>15 DEF RegJournal, GiveSlot
  <2>2. \A d \in Clients : Registered(d) => s \notin clientJournals[d].users
    BY <2>1 DEF SlotInv, OwnedNotRaw
  <2>3. clientJournals'[c].users = clientJournals[c].users \cup {s}
    BY <1>4, <2>1, RegisteredInfo DEF RegJournal, GiveSlot, TypeOK, ClientInfo
  <2>4. \A d \in Clients : d # c => clientJournals'[d] = clientJournals[d]
    BY <1>4 DEF RegJournal, GiveSlot, TypeOK
  <2>5. \A d \in Clients : Registered(d)' => Registered(d)
    BY <2>1, <2>4 DEF Registered
  <2>6. SlotsOwnedOnce'
    BY <2>2, <2>3, <2>4, <2>5 DEF SlotInv, SlotsOwnedOnce
  <2>7. comm'[s].status # "RAW" /\ \A t \in Slots : t # s => comm'[t] = comm[t]
    BY <1>4, <1>15 DEF RegJournal, GiveSlot
  <2>8. \A d \in Clients : Registered(d) => clientJournals[d].users \subseteq Slots
    BY RegisteredInfo
  <2>9. OwnedNotRaw'
    BY <2>3, <2>4, <2>5, <2>7, <2>8 DEF SlotInv, OwnedNotRaw
  <2>10. QED
    BY <2>6, <2>9 DEF SlotInv
<1>5. ASSUME NEW c \in Clients, RegisterStrategy(c) PROVE SlotInv'
  <2>1. Registered(c)
    BY <1>5 DEF RegisterStrategy
  <2>2. clientJournals'[c].users = clientJournals[c].users
    BY <1>5, <2>1, RegisteredInfo DEF RegisterStrategy, TypeOK, ClientInfo
  <2>3. \A d \in Clients : d # c => clientJournals'[d] = clientJournals[d]
    BY <1>5 DEF RegisterStrategy, TypeOK
  <2>4. \A d \in Clients : Registered(d)' => Registered(d)
    BY <2>1, <2>3 DEF Registered
  <2>5. UNCHANGED comm
    BY <1>5 DEF RegisterStrategy
  <2>6. QED
    BY <2>2, <2>3, <2>4, <2>5 DEF SlotInv, SlotsOwnedOnce, OwnedNotRaw
<1>7. ASSUME NEW s \in Slots, NEW x \in Statuses \ {"RAW"}, comm'[s].status = x,
             \A t \in Slots : t # s => comm'[t] = comm[t], UNCHANGED clientJournals
      PROVE  SlotInv'
  BY <1>1, <1>7
<1>16. ASSUME NEW c \in Clients, NEW h, NEW j, NEW s \in Slots, RegJournalUnknown(c, h, j, s)
       PROVE  SlotInv'
  BY <1>7, <1>15, <1>16 DEF RegJournalUnknown, Statuses
<1>6. CASE SocketNext
  <2>1. ASSUME NEW c \in Clients, NEW h \in 1 .. MaxGen, HandleExit(c, h) PROVE SlotInv'
    BY <1>2, <2>1, ExitClientsSlots DEF HandleExit, HashMatches
  <2>2. QED
    BY <1>2, <1>3, <1>4, <1>5, <1>6, <1>16, <2>1 DEF SocketNext, RegJournalFull
<1>8. CASE ClientNext
  <2>1. ASSUME NEW s \in Slots, FillSlot(s) PROVE SlotInv'
    <3>1. CASE comm[s].status = "OCCUPIED"
      <4>1. comm'[s].status = "HOLDING" /\ \A t \in Slots : t # s => comm'[t] = comm[t]
        BY <2>1, <3>1 DEF FillSlot, TypeOK, PageCommMsg
      <4>2. QED
        BY <1>7, <2>1, <4>1 DEF FillSlot, Statuses
    <3>2. CASE comm[s].status # "OCCUPIED"
      BY <1>2, <2>1, <3>2 DEF FillSlot
    <3>3. QED
      BY <3>1, <3>2
  <2>2. ASSUME NEW s \in Slots, NEW call, NEW p, AskPage(s, call, p) PROVE SlotInv'
    <3>1. comm'[s].status = "REQUESTING" /\ \A t \in Slots : t # s => comm'[t] = comm[t]
      BY <2>2 DEF AskPage, TypeOK, PageCommMsg
    <3>2. QED
      BY <1>7, <2>2, <3>1 DEF AskPage, Statuses
  <2>3. ASSUME NEW s \in Slots, Expire(s) PROVE SlotInv'
    <3>1. comm'[s].status = "REQUESTING" /\ \A t \in Slots : t # s => comm'[t] = comm[t]
      BY <2>3 DEF Expire, TypeOK, PageCommMsg
    <3>2. QED
      BY <1>7, <2>3, <3>1 DEF Expire, Statuses
  <2>4. QED
    BY <1>2, <1>8, <2>1, <2>2, <2>3
    DEF ClientNext, AddJournal, ExitRequest, ListPages, WriterSeekEnd, ReaderSeek, LoadNextPage, WriterGetsPage,
        WriterRefused, WriterLost, ReaderGetsAnswer, Die
<1>9. CASE CommServe
  <2>1. PICK x \in Statuses \ {"RAW"} :
          comm' = [comm EXCEPT ![commIdx].status = x]
    BY <1>9, InitiateStatusType DEF CommServe, Statuses
  <2>2. commIdx \in Slots
    BY DEF TypeOK
  <2>3. comm'[commIdx].status = x /\ \A t \in Slots : t # commIdx => comm'[t] = comm[t]
    BY <2>1, <2>2 DEF TypeOK, PageCommMsg
  <2>4. QED
    BY <1>7, <1>9, <2>2, <2>3 DEF CommServe
<1>10. CASE PidCheck
  BY <1>10, ExitClientsSlots DEF PidCheck, Dead
<1>11. ASSUME NEW s \in Slots, CommScan(s) PROVE SlotInv'
  BY <1>2, <1>11 DEF CommScan
<1>12. CASE TempPage
  BY <1>2, <1>12 DEF TempPage
<1>13. CASE UNCHANGED vars
  BY <1>2, <1>13 DEF vars
<1>14. CASE CommRemember
  <2>1. \A s \in Slots : comm'[s].status = comm[s].status
    BY <1>14 DEF CommRemember, TypeOK, PageCommMsg
  <2>2. QED
    BY <1>1, <1>14, <2>1 DEF CommRemember
<1>17. QED
  BY <1>6, <1>8, <1>9, <1>10, <1>11, <1>12, <1>13, <1>14 DEF Next, ServiceNext

LEMMA SlotInvariant == Spec => []SlotInv
<1>1. Init => SlotInv
  BY DEF Init, SlotInv, SlotsOwnedOnce, OwnedNotRaw, Registered
<1>2. QED
  BY <1>1, SlotNext, TypeCorrect, PTL DEF Spec

(***************************************************************************)
(* reg_journal never gives out a slot that a live registration still owns, *)
(* whatever the comm thread writes to the status of a slot meanwhile.      *)
(***************************************************************************)
THEOREM SlotsExclusive == Spec => []SlotsOwnedOnce
<1>1. SlotInv => SlotsOwnedOnce
  BY DEF SlotInv
<1>2. QED
  BY <1>1, SlotInvariant, PTL

-----------------------------------------------------------------------------
(* The request id windows of live strategies.                              *)

(***************************************************************************)
(* The strengthening: the window of a strategy is the one of a slot it     *)
(* still owns.                                                             *)
(***************************************************************************)
WindowOwned(c) ==
  \E s \in clientJournals[c].users :
    clientJournals[c].rid_start = RidStart(s) /\ clientJournals[c].rid_end = RidEnd(s)
RidInv == \A c \in Clients : LiveStrategy(c) => WindowOwned(c)

(* The windows of two slots are apart. *)
LEMMA WindowsApart ==
  ASSUME NEW s \in Slots, NEW t \in Slots, s # t
  PROVE  (RidStart(s) .. RidEnd(s)) \cap (RidStart(t) .. RidEnd(t)) = {}
<1>1. ASSUME NEW a \in Nat, NEW b \in Nat, a < b
      PROVE  (a + 2) * RidRange <= (b + 1) * RidRange
  <2>1. b - a - 1 \in Nat
    BY <1>1
  <2>2. ASSUME NEW d \in Nat, NEW r \in Nat PROVE d * r >= 0
    BY <2>2
  <2>3. (b - a - 1) * RidRange >= 0
    BY <2>1, <2>2
  <2>4. (b + 1) * RidRange = (a + 2) * RidRange + (b - a - 1) * RidRange
    OBVIOUS
  <2>5. QED
    BY <2>3, <2>4
<1>2. s \in Nat /\ t \in Nat
  BY DEF Slots
<1>3. /\ (s + 2) * RidRange \in Int /\ (s + 1) * RidRange \in Int
      /\ (t + 2) * RidRange \in Int /\ (t + 1) * RidRange \in Int
  BY <1>2
<1>4. (s + 2) * RidRange <= (t + 1) * RidRange \/ (t + 2) * RidRange <= (s + 1) * RidRange
  <2>1. s < t \/ t < s
    BY <1>2
  <2>2. QED
    BY <1>1, <1>2, <2>1
<1>5. QED
  BY <1>3, <1>4 DEF RidStart, RidEnd

LEMMA RidNext == TypeOK /\ RidInv /\ [Next]_vars => RidInv'
<1> SUFFICES ASSUME TypeOK, RidInv, [Next]_vars, NEW c \in Clients, LiveStrategy(c)'
             PROVE  WindowOwned(c)'
  BY DEF RidInv
<1> USE DEF serverVars, commThread, clientVars, pageVars
<1>1. ASSUME clientJournals'[c] = clientJournals[c] PROVE WindowOwned(c)'
  BY <1>1 DEF RidInv, LiveStrategy, Registered, WindowOwned
<1>2. ASSUME NEW cs \in SUBSET Clients, ExitClients(cs) PROVE WindowOwned(c)'
  <2>1. c \notin cs
    BY <1>2 DEF ExitClients, Forget, LiveStrategy, Registered
  <2>2. QED
    BY <1>1, <1>2, <2>1 DEF ExitClients, Forget
<1>3. ASSUME NEW d \in Clients, RegClient(d) PROVE WindowOwned(c)'
  <2>1. c # d
    BY <1>3 DEF RegClient, TypeOK, LiveStrategy
  <2>2. QED
    BY <1>1, <1>3, <2>1 DEF RegClient, TypeOK
<1>4. ASSUME NEW d \in Clients, NEW h, NEW j \in Journals, NEW s \in Slots, RegJournal(d, h, j, s)
      PROVE  WindowOwned(c)'
  <2>1. CASE c = d
    <3>1. Registered(c) /\ clientJournals[c] \in ClientInfo
      BY <1>4, <2>1, RegisteredInfo DEF RegJournal, GiveSlot
    <3>2. clientJournals'[c] = [clientJournals[c] EXCEPT !.users = @ \cup {s}]
      BY <1>4, <2>1 DEF RegJournal, GiveSlot, TypeOK
    <3>3. /\ clientJournals'[c].users = clientJournals[c].users \cup {s}
          /\ clientJournals'[c].is_strategy = clientJournals[c].is_strategy
          /\ clientJournals'[c].rid_start = clientJournals[c].rid_start
          /\ clientJournals'[c].rid_end = clientJournals[c].rid_end
      BY <3>1, <3>2 DEF ClientInfo
    <3>4. LiveStrategy(c)
      BY <3>1, <3>3 DEF LiveStrategy
    <3>5. QED
      BY <3>3, <3>4 DEF RidInv, WindowOwned
  <2>2. CASE c # d
    BY <1>1, <1>4, <2>2 DEF RegJournal, GiveSlot, TypeOK
  <2>3. QED
    BY <2>1, <2>2
<1>5. ASSUME NEW d \in Clients, RegisterStrategy(d) PROVE WindowOwned(c)'
  <2>1. CASE c = d
    <3>1. Registered(c) /\ clientJournals[c] \in ClientInfo
      BY <1>5, <2>1, RegisteredInfo DEF RegisterStrategy
    <3>2. PICK s \in clientJournals[c].users :
            clientJournals' = [clientJournals EXCEPT ![c].is_strategy = TRUE,
                                                     ![c].rid_start = RidStart(s),
                                                     ![c].rid_end = RidEnd(s)]
      BY <1>5, <2>1 DEF RegisterStrategy
    <3>3. /\ clientJournals'[c].users = clientJournals[c].users
          /\ clientJournals'[c].rid_start = RidStart(s)
          /\ clientJournals'[c].rid_end = RidEnd(s)
      BY <3>1, <3>2 DEF TypeOK, ClientInfo
    <3>4. QED
      BY <3>3 DEF WindowOwned
  <2>2. CASE c # d
    BY <1>1, <1>5, <2>2 DEF RegisterStrategy, TypeOK
  <2>3. QED
    BY <2>1, <2>2
<1>6. ASSUME UNCHANGED clientJournals PROVE WindowOwned(c)'
  BY <1>1, <1>6
<1>7. CASE SocketNext
  <2>1. ASSUME NEW d \in Clients, NEW h \in 1 .. MaxGen, HandleExit(d, h) PROVE WindowOwned(c)'
    BY <1>2, <1>6, <2>1 DEF HandleExit
  <2>2. QED
    BY <1>3, <1>4, <1>5, <1>6, <1>7, <2>1 DEF SocketNext, RegJournalUnknown, RegJournalFull
<1>8. CASE ClientNext
  BY <1>6, <1>8
  DEF ClientNext, AddJournal, ExitRequest, FillSlot, ListPages, WriterSeekEnd, ReaderSeek, LoadNextPage, AskPage, Expire,
      WriterGetsPage, WriterRefused, WriterLost, ReaderGetsAnswer, Die
<1>9. CASE PidCheck
  BY <1>2, <1>9 DEF PidCheck
<1>10. CASE CommServe
  BY <1>6, <1>10 DEF CommServe
<1>11. ASSUME NEW s \in Slots, CommScan(s) PROVE WindowOwned(c)'
  BY <1>6, <1>11 DEF CommScan
<1>12. CASE TempPage
  BY <1>6, <1>12 DEF TempPage
<1>13. CASE UNCHANGED vars
  BY <1>6, <1>13 DEF vars
<1>14. CASE CommRemember
  BY <1>6, <1>14 DEF CommRemember
<1>15. QED
  BY <1>7, <1>8, <1>9, <1>10, <1>11, <1>12, <1>13, <1>14 DEF Next, ServiceNext

(***************************************************************************)
(* The trade engines route an order's answers by its request id: whatever  *)
(* slots are freed and reused, no two live strategies share a request id,  *)
(* for every MAX_COMM_USER_NUMBER and REQUEST_ID_RANGE.                    *)
(***************************************************************************)
THEOREM RidExclusive == Spec => []RidWindowsDisjoint
<1>1. Init => RidInv
  BY DEF Init, RidInv, LiveStrategy, Registered
<1>2. TypeOK /\ SlotInv /\ RidInv => RidWindowsDisjoint
  <2> SUFFICES ASSUME TypeOK, SlotInv, RidInv, NEW c \in Clients, NEW d \in Clients, c # d,
                      LiveStrategy(c), LiveStrategy(d)
               PROVE  RidWindow(c) \cap RidWindow(d) = {}
    BY DEF RidWindowsDisjoint
  <2>1. PICK s \in clientJournals[c].users :
          clientJournals[c].rid_start = RidStart(s) /\ clientJournals[c].rid_end = RidEnd(s)
    BY DEF RidInv, WindowOwned
  <2>2. PICK t \in clientJournals[d].users :
          clientJournals[d].rid_start = RidStart(t) /\ clientJournals[d].rid_end = RidEnd(t)
    BY DEF RidInv, WindowOwned
  <2>3. s \in Slots /\ t \in Slots /\ s # t
    BY RegisteredInfo DEF LiveStrategy, SlotInv, SlotsOwnedOnce
  <2>4. QED
    BY <2>1, <2>2, <2>3, WindowsApart DEF RidWindow
<1>3. QED
  BY <1>1, <1>2, RidNext, TypeCorrect, SlotInvariant, PTL DEF Spec

-----------------------------------------------------------------------------
(* A client leaves by itself.                                              *)

(***************************************************************************)
(* The strengthening: the hash code in the map is the one of the latest    *)
(* registration, and only a process that no longer runs has sent an exit   *)
(* request with the latest hash code.                                      *)
(***************************************************************************)
ExitInv ==
  /\ \A c \in Clients : Registered(c) => clientJournals[c].hash = gen[c]
  /\ \A c \in Clients : proc[c] = "up" => Registered(c)
  /\ \A c \in Clients, h \in Nat :
       <<c, h>> \in exitMsgs => h <= gen[c] /\ (h = gen[c] => proc[c] # "up")

(* exit_client leaves the entries of the other clients alone. *)
LEMMA ExitClientsForget ==
  ASSUME NEW cs \in SUBSET Clients, ExitClients(cs)
  PROVE  \A c \in Clients :
           /\ Registered(c)' <=> Registered(c) /\ c \notin cs
           /\ c \notin cs => clientJournals'[c] = clientJournals[c]
BY DEF ExitClients, Forget, Registered

(* A new slot, or the window of a strategy, changes one entry of the map. *)
LEMMA RegJournalEntry ==
  ASSUME TypeOK, NEW c \in Clients, NEW h, NEW j \in Journals, NEW s \in Slots,
         RegJournal(c, h, j, s)
  PROVE  /\ Registered(c)
         /\ clientJournals'[c] \in ClientInfo
         /\ clientJournals'[c].hash = clientJournals[c].hash
         /\ clientJournals'[c].users = clientJournals[c].users \cup {s}
         /\ \A d \in Clients : d # c => clientJournals'[d] = clientJournals[d]
<1>1. Registered(c) /\ clientJournals[c] \in ClientInfo
  BY RegisteredInfo DEF RegJournal, GiveSlot
<1>2. clientJournals' = [clientJournals EXCEPT ![c] = [clientJournals[c] EXCEPT !.users = @ \cup {s}]]
  BY DEF RegJournal, GiveSlot
<1>3. [clientJournals[c] EXCEPT !.users = @ \cup {s}] \in ClientInfo
  BY <1>1 DEF ClientInfo
<1>4. QED
  BY <1>1, <1>2, <1>3 DEF TypeOK, ClientInfo

LEMMA RegisterStrategyEntry ==
  ASSUME TypeOK, NEW c \in Clients, RegisterStrategy(c)
  PROVE  /\ Registered(c)
         /\ clientJournals'[c] \in ClientInfo
         /\ clientJournals'[c].hash = clientJournals[c].hash
         /\ clientJournals'[c].users = clientJournals[c].users
         /\ \A d \in Clients : d # c => clientJournals'[d] = clientJournals[d]
<1>1. Registered(c) /\ clientJournals[c] \in ClientInfo
  BY RegisteredInfo DEF RegisterStrategy
<1>2. PICK s \in clientJournals[c].users :
        clientJournals' = [clientJournals EXCEPT ![c] =
          [clientJournals[c] EXCEPT !.is_strategy = TRUE, !.rid_start = RidStart(s), !.rid_end = RidEnd(s)]]
  BY DEF RegisterStrategy
<1>3. RidStart(s) \in Int /\ RidEnd(s) \in Int
  <2>1. s \in Slots
    BY <1>1 DEF ClientInfo
  <2>2. QED
    BY <2>1, PageEngineAssumption DEF Slots, RidStart, RidEnd
<1>4. [clientJournals[c] EXCEPT !.is_strategy = TRUE, !.rid_start = RidStart(s), !.rid_end = RidEnd(s)]
        \in ClientInfo
  BY <1>1, <1>3 DEF ClientInfo
<1>5. QED
  BY <1>1, <1>2, <1>4 DEF TypeOK, ClientInfo

LEMMA ExitNext == TypeOK /\ ExitInv /\ [Next]_vars => ExitInv'
<1> SUFFICES ASSUME TypeOK, ExitInv, [Next]_vars PROVE ExitInv'
  OBVIOUS
<1> USE DEF serverVars, commThread, clientVars, pageVars
<1>1. ASSUME UNCHANGED gen,
             \A c \in Clients : Registered(c)' =>
               Registered(c) /\ clientJournals'[c].hash = clientJournals[c].hash,
             \A c \in Clients : proc'[c] = "up" =>
               proc[c] = "up" /\ (Registered(c) => Registered(c)'),
             \A c \in Clients, h \in Nat : <<c, h>> \in exitMsgs' =>
               <<c, h>> \in exitMsgs \/ (h = gen[c] /\ proc'[c] # "up")
      PROVE  ExitInv'
  <2>1. \A c \in Clients : gen[c] \in Nat
    BY DEF TypeOK
  <2>2. QED
    BY <1>1, <2>1 DEF ExitInv
<1>2. ASSUME UNCHANGED <<gen, clientJournals, exitMsgs>>,
             \A c \in Clients : proc'[c] = "up" => proc[c] = "up"
      PROVE  ExitInv'
  BY <1>1, <1>2 DEF Registered
<1>3. ASSUME UNCHANGED <<gen, clientJournals, exitMsgs, proc>> PROVE ExitInv'
  BY <1>2, <1>3
<1>4. ASSUME NEW c \in Clients, SendExit(c), UNCHANGED <<gen, clientJournals>> PROVE ExitInv'
  <2>1. \A d \in Clients : proc'[d] = IF d = c THEN "exiting" ELSE proc[d]
    BY <1>4 DEF SendExit, TypeOK
  <2>2. \A d \in Clients, h \in Nat : <<d, h>> \in exitMsgs' =>
          <<d, h>> \in exitMsgs \/ (d = c /\ h = gen[c])
    BY <1>4 DEF SendExit
  <2>3. QED
    BY <1>1, <1>4, <2>1, <2>2 DEF Registered
<1>5. ASSUME NEW c \in Clients, RegClient(c) PROVE ExitInv'
  <2>1. \A d \in Clients : d # c =>
          clientJournals'[d] = clientJournals[d] /\ gen'[d] = gen[d] /\ proc'[d] = proc[d]
    BY <1>5 DEF RegClient, TypeOK
  <2>2. clientJournals'[c].hash = gen'[c] /\ gen'[c] = gen[c] + 1 /\ gen[c] \in Nat
    BY <1>5 DEF RegClient, TypeOK
  <2>5. Registered(c)'
    <3>1. clientJournals'[c] \in ClientInfo
      BY <1>5, <2>2 DEF RegClient, TypeOK, ClientInfo
    <3>2. QED
      BY <3>1, NoClientAssumption DEF Registered
  <2>3. UNCHANGED exitMsgs
    BY <1>5 DEF RegClient
  <2>4. QED
    BY <2>1, <2>2, <2>3, <2>5 DEF ExitInv, Registered
<1>6. ASSUME NEW c \in Clients, NEW h, NEW j \in Journals, NEW s \in Slots, RegJournal(c, h, j, s)
      PROVE  ExitInv'
  <2>1. UNCHANGED <<gen, exitMsgs, proc>>
    BY <1>6 DEF RegJournal, GiveSlot
  <2>2. \A d \in Clients : /\ Registered(d)' => Registered(d) /\ clientJournals'[d].hash = clientJournals[d].hash
                           /\ Registered(d) => Registered(d)'
    BY <1>6, RegJournalEntry, NoClientAssumption DEF Registered
  <2>3. QED
    BY <1>1, <2>1, <2>2
<1>7. ASSUME NEW c \in Clients, RegisterStrategy(c) PROVE ExitInv'
  <2>1. UNCHANGED <<gen, exitMsgs, proc>>
    BY <1>7 DEF RegisterStrategy
  <2>2. \A d \in Clients : /\ Registered(d)' => Registered(d) /\ clientJournals'[d].hash = clientJournals[d].hash
                           /\ Registered(d) => Registered(d)'
    BY <1>7, RegisterStrategyEntry, NoClientAssumption DEF Registered
  <2>3. QED
    BY <1>1, <2>1, <2>2
<1>8. ASSUME NEW c \in Clients, NEW h \in 1 .. MaxGen, HandleExit(c, h) PROVE ExitInv'
  <2>1. \A d \in Clients : Registered(d)' => Registered(d) /\ clientJournals'[d] = clientJournals[d]
    <3>1. CASE HashMatches(c, h)
      BY <1>8, <3>1, ExitClientsForget DEF HandleExit
    <3>2. CASE ~HashMatches(c, h)
      BY <1>8, <3>2 DEF HandleExit, Registered
    <3>3. QED
      BY <3>1, <3>2
  <2>2. \A d \in Clients : proc'[d] = "up" => proc[d] = "up"
    BY <1>8 DEF HandleExit, TypeOK
  <2>5. \A d \in Clients : proc[d] = "up" /\ Registered(d) => Registered(d)'
    <3>1. CASE HashMatches(c, h)
      <4>1. proc[c] # "up"
        BY <1>8, <3>1 DEF HandleExit, HashMatches, ExitInv
      <4>2. QED
        BY <1>8, <3>1, <4>1, ExitClientsForget DEF HandleExit
    <3>2. CASE ~HashMatches(c, h)
      BY <1>8, <3>2 DEF HandleExit, Registered
    <3>3. QED
      BY <3>1, <3>2
  <2>3. UNCHANGED gen /\ exitMsgs' \subseteq exitMsgs
    BY <1>8 DEF HandleExit
  <2>4. QED
    BY <1>1, <2>1, <2>2, <2>3, <2>5
<1>9. CASE SocketNext
  <2>1. ASSUME NEW c \in Clients, NEW h, AnswerFailure(c, h), UNCHANGED <<gen, clientJournals>>
        PROVE  ExitInv'
    BY <1>3, <1>4, <2>1 DEF AnswerFailure
  <2>2. ASSUME NEW c \in Clients, NEW h, NEW j, RegJournalFull(c, h, j) PROVE ExitInv'
    BY <2>1, <2>2 DEF RegJournalFull
  <2>3. ASSUME NEW c \in Clients, NEW h, NEW j, NEW s, RegJournalUnknown(c, h, j, s) PROVE ExitInv'
    BY <2>1, <2>3 DEF RegJournalUnknown
  <2>4. QED
    BY <1>5, <1>6, <1>7, <1>8, <1>9, <2>2, <2>3 DEF SocketNext
<1>10. CASE ClientNext
  <2>7. ASSUME NEW c \in Clients, ExitRequest(c) PROVE ExitInv'
    BY <1>4, <2>7 DEF ExitRequest
  <2>1. ASSUME NEW s \in Slots, FillSlot(s) PROVE ExitInv'
    BY <1>3, <1>4, <2>1 DEF FillSlot
  <2>2. ASSUME NEW s \in Slots, NEW call, NEW p, AskPage(s, call, p) PROVE ExitInv'
    BY <1>3, <2>2 DEF AskPage
  <2>3. ASSUME NEW s \in Slots, WriterRefused(s) PROVE ExitInv'
    <3>1. usr[s].owner \in Clients
      BY <2>3, PageEngineAssumption DEF WriterRefused
    <3>2. QED
      BY <1>3, <1>4, <2>3, <3>1 DEF WriterRefused
  <2>4. ASSUME NEW s \in Slots, WriterLost(s) PROVE ExitInv'
    <3>1. \A c \in Clients : proc'[c] = "up" => proc[c] = "up"
      BY <2>4 DEF WriterLost, TypeOK
    <3>2. QED
      BY <1>2, <2>4, <3>1 DEF WriterLost
  <2>5. ASSUME NEW c \in Clients, Die(c) PROVE ExitInv'
    <3>1. \A d \in Clients : proc'[d] = "up" => proc[d] = "up"
      BY <2>5 DEF Die, TypeOK
    <3>2. QED
      BY <1>2, <2>5, <3>1 DEF Die
  <2>6. QED
    BY <1>3, <1>10, <2>1, <2>2, <2>3, <2>4, <2>5, <2>7
    DEF ClientNext, AddJournal, ListPages, WriterSeekEnd, ReaderSeek, LoadNextPage, Expire, WriterGetsPage,
        ReaderGetsAnswer
<1>11. CASE PidCheck
  <2>1. \A c \in Clients : Registered(c)' => Registered(c) /\ clientJournals'[c] = clientJournals[c]
    BY <1>11, ExitClientsForget DEF PidCheck
  <2>2. UNCHANGED <<gen, exitMsgs, proc>>
    BY <1>11 DEF PidCheck
  <2>3. \A c \in Clients : proc[c] = "up" /\ Registered(c) => Registered(c)'
    BY <1>11, ExitClientsForget DEF PidCheck, Dead
  <2>4. QED
    BY <1>1, <2>1, <2>2, <2>3
<1>12. QED
  BY <1>3, <1>9, <1>10, <1>11 DEF Next, ServiceNext, CommScan, CommServe, CommRemember, TempPage, vars

LEMMA ExitInvariant == Spec => []ExitInv
<1>1. Init => ExitInv
  BY DEF Init, ExitInv, Registered
<1>2. QED
  BY <1>1, ExitNext, TypeCorrect, PTL DEF Spec

-----------------------------------------------------------------------------
(* A client that leaves the map is dead, or has asked to leave. *)
LEMMA LeavesStep ==
  TypeOK /\ ExitInv /\ [Next]_vars =>
    \A c \in Clients : Registered(c) /\ ~Registered(c)' => Dead(c) \/ proc[c] = "exiting"
<1> SUFFICES ASSUME TypeOK, ExitInv, [Next]_vars,
                    NEW c \in Clients, Registered(c), ~Registered(c)'
             PROVE  Dead(c) \/ proc[c] = "exiting"
  OBVIOUS
<1> USE DEF serverVars, commThread, clientVars, pageVars
<1>1. ASSUME UNCHANGED clientJournals PROVE FALSE
  BY <1>1 DEF Registered
<1>2. ASSUME NEW d \in Clients, RegClient(d) PROVE FALSE
  <2>1. ~Registered(d)
    BY <1>2 DEF RegClient
  <2>2. clientJournals'[c] = clientJournals[c]
    BY <1>2, <2>1 DEF RegClient, TypeOK
  <2>3. QED
    BY <2>2 DEF Registered
<1>3. ASSUME NEW d \in Clients, clientJournals'[d] \in ClientInfo,
             \A e \in Clients : e # d => clientJournals'[e] = clientJournals[e]
      PROVE  FALSE
  BY <1>3, NoClientAssumption DEF Registered
<1>4. ASSUME NEW d \in Clients, NEW h, NEW j \in Journals, NEW s \in Slots, RegJournal(d, h, j, s)
      PROVE  FALSE
  <2>1. clientJournals'[d] \in ClientInfo /\ \A e \in Clients : e # d => clientJournals'[e] = clientJournals[e]
    BY <1>4, RegJournalEntry
  <2>2. QED
    BY <1>3, <2>1
<1>5. ASSUME NEW d \in Clients, RegisterStrategy(d) PROVE FALSE
  <2>1. clientJournals'[d] \in ClientInfo /\ \A e \in Clients : e # d => clientJournals'[e] = clientJournals[e]
    BY <1>5, RegisterStrategyEntry
  <2>2. QED
    BY <1>3, <2>1
<1>6. ASSUME NEW d \in Clients, NEW h \in 1 .. MaxGen, HandleExit(d, h)
      PROVE  proc[c] # "up"
  <2>1. HashMatches(d, h) /\ c = d
    BY <1>1, <1>6, ExitClientsForget DEF HandleExit
  <2>2. <<c, h>> \in exitMsgs /\ h = gen[c]
    BY <1>6, <2>1 DEF HandleExit, HashMatches, ExitInv
  <2>3. QED
    BY <2>2 DEF ExitInv
<1>7. CASE PidCheck
  BY <1>7, ExitClientsForget DEF PidCheck
<1>8. proc[c] \in {"down", "up", "exiting"}
  BY DEF TypeOK
<1>9. CASE SocketNext
  BY <1>1, <1>2, <1>4, <1>5, <1>6, <1>8, <1>9 DEF SocketNext, RegJournalUnknown, RegJournalFull, Dead
<1>10. CASE ClientNext
  BY <1>1, <1>10
  DEF ClientNext, AddJournal, ExitRequest, FillSlot, ListPages, WriterSeekEnd, ReaderSeek, LoadNextPage, Expire, AskPage,
      WriterGetsPage, WriterRefused, WriterLost, ReaderGetsAnswer, Die
<1>11. QED
  BY <1>1, <1>7, <1>9, <1>10 DEF Next, ServiceNext, CommScan, CommServe, CommRemember, TempPage, vars

(***************************************************************************)
(* exit_client forgets a client only when its process is gone or has asked *)
(* for it: the exit request of an earlier process under the same name,     *)
(* handled late, has the hash code of an earlier registration.             *)
(***************************************************************************)
THEOREM LeavesForAll == Spec => LeavesByItself
<1>1. TypeOK /\ ExitInv /\ [Next]_vars =>
        [\A c \in Clients : Registered(c) /\ ~Registered(c)' => Dead(c) \/ proc[c] = "exiting"]_vars
  BY LeavesStep
<1>2. QED
  BY <1>1, ExitInvariant, TypeCorrect, PTL DEF Spec, LeavesByItself
-----------------------------------------------------------------------------
(* The requests for slots.                                                 *)

Busy(s) == usr[s].call \notin {"none", "list"}

(***************************************************************************)
(* A request comes from a registration there was; a process has one at a   *)
(* time on its way, and waits for nothing else meanwhile.                  *)
(***************************************************************************)
PendingInv ==
  /\ \A c \in Clients, h \in Nat, j \in Journals : <<c, h, j>> \in regMsgs => h <= gen[c]
  /\ \A c \in Clients, h \in Nat, j, i \in Journals :
       <<c, h, j>> \in regMsgs /\ <<c, h, i>> \in regMsgs => i = j
  /\ \A c \in Clients, h \in Nat, j \in Journals :
       <<c, h, j>> \in regMsgs /\ Waits(c, h) =>
         \A s \in Slots : usr[s].owner = c => ~Busy(s)

(* A client's request appears when it is idle, and its users get busy when it has none. *)
LEMMA PendingKept ==
  ASSUME TypeOK, PendingInv, regMsgs' \subseteq regMsgs, UNCHANGED gen,
         \A c \in Clients : proc'[c] = "up" => proc[c] = "up",
         \A s \in Slots : Busy(s)' =>
           \/ usr'[s].owner = NoClient
           \/ Busy(s) /\ usr'[s].owner = usr[s].owner
           \/ ~Waits(usr'[s].owner, gen[usr'[s].owner])
           \/ \A j \in Journals : <<usr'[s].owner, gen[usr'[s].owner], j>> \notin regMsgs'
  PROVE  PendingInv'
<1>1. \A c \in Clients, h \in Nat : Waits(c, h)' => Waits(c, h) /\ h = gen[c]
  BY DEF Waits
<1>2. ASSUME NEW c \in Clients, NEW h \in Nat, NEW j \in Journals, <<c, h, j>> \in regMsgs',
             Waits(c, h)', NEW s \in Slots, usr'[s].owner = c
      PROVE  ~Busy(s)'
  <2>1. <<c, h, j>> \in regMsgs /\ Waits(c, h) /\ h = gen[c] /\ c # NoClient
    BY <1>1, <1>2, PageEngineAssumption
  <2>2. usr[s].owner = c => ~Busy(s)
    BY <2>1 DEF PendingInv
  <2>3. QED
    BY <1>2, <2>1, <2>2
<1>3. QED
  BY <1>2 DEF PendingInv

LEMMA PendingNext == TypeOK /\ PendingInv /\ [Next]_vars => PendingInv'
<1> SUFFICES ASSUME TypeOK, PendingInv, [Next]_vars PROVE PendingInv'
  OBVIOUS
<1> USE DEF serverVars, commThread, clientVars, pageVars
<1>1. ASSUME regMsgs' \subseteq regMsgs, UNCHANGED <<gen, usr>>,
             \A c \in Clients : proc'[c] = "up" => proc[c] = "up"
      PROVE  PendingInv'
  BY <1>1, PendingKept DEF Busy
<1>2. ASSUME NEW c \in Clients, SendExit(c) PROVE \A d \in Clients : proc'[d] = "up" => proc[d] = "up"
  BY <1>2 DEF SendExit, TypeOK
<1>3. ASSUME NEW c \in Clients PROVE \A s \in Slots : Gone(c)[s] = usr[s] \/ Gone(c)[s] = NoUser
  BY DEF Gone
<1>4. ASSUME UNCHANGED <<gen, regMsgs>>, \A s \in Slots : usr'[s] = usr[s] \/ usr'[s] = NoUser,
             \A c \in Clients : proc'[c] = "up" => proc[c] = "up"
      PROVE  PendingInv'
  BY <1>4, PendingKept DEF Busy, NoUser
<1>5. ASSUME NEW c \in Clients, NEW h, AnswerFailure(c, h)
      PROVE  \A d \in Clients : proc'[d] = "up" => proc[d] = "up"
  BY <1>2, <1>5 DEF AnswerFailure
<1>9. ASSUME NEW s \in Slots PROVE usr[s] \in JournalUser
  BY DEF TypeOK
<1>6. CASE SocketNext
  <2>1. ASSUME NEW c \in Clients, RegClient(c) PROVE PendingInv'
    <3>1. /\ gen[c] \in Nat /\ gen'[c] = gen[c] + 1
          /\ \A d \in Clients : d # c => gen'[d] = gen[d] /\ proc'[d] = proc[d]
          /\ UNCHANGED <<usr, regMsgs>>
      BY <2>1 DEF RegClient, TypeOK
    <3>2. \A d \in Clients, h \in Nat, j \in Journals : <<d, h, j>> \in regMsgs => h <= gen[d]
      BY DEF PendingInv
    <3>3. \A d \in Clients, h \in Nat, j \in Journals : <<d, h, j>> \in regMsgs' =>
            h <= gen'[d] /\ (Waits(d, h)' => d # c)
      BY <3>1, <3>2 DEF Waits
    <3>4. \A d \in Clients, h \in Nat : d # c => (Waits(d, h)' <=> Waits(d, h))
      BY <3>1 DEF Waits
    <3>5. QED
      BY <3>1, <3>3, <3>4 DEF PendingInv, Busy
  <2>2. ASSUME NEW c \in Clients, NEW h \in 1 .. MaxGen, NEW j \in Journals, NEW s \in Slots,
               RegJournal(c, h, j, s)
        PROVE  PendingInv'
    <3>1. regMsgs' = regMsgs \ {<<c, h, j>>} /\ UNCHANGED <<gen, proc>> /\ <<c, h, j>> \in regMsgs
      BY <2>2 DEF RegJournal, GiveSlot, TakesRequest
    <3>2. CASE Waits(c, h)
      <4>1. /\ usr'[s].owner = c
            /\ \A t \in Slots : t # s => usr'[t] = usr[t]
        BY <2>2, <3>2 DEF RegJournal, GiveSlot, TypeOK, NoUser
      <4>2. \A i \in Journals : <<c, gen[c], i>> \notin regMsgs'
        BY <3>1, <3>2 DEF Waits, PendingInv, TypeOK
      <4>3. QED
        BY <3>1, <4>1, <4>2, PendingKept DEF Busy
    <3>3. CASE ~Waits(c, h)
      BY <1>1, <2>2, <3>1, <3>3 DEF RegJournal, GiveSlot
    <3>4. QED
      BY <3>2, <3>3
  <2>3. ASSUME NEW c \in Clients, NEW h, NEW j, NEW s, RegJournalUnknown(c, h, j, s) PROVE PendingInv'
    BY <1>1, <1>5, <2>3 DEF RegJournalUnknown, TakesRequest
  <2>4. ASSUME NEW c \in Clients, NEW h, NEW j, RegJournalFull(c, h, j) PROVE PendingInv'
    BY <1>1, <1>5, <2>4 DEF RegJournalFull, TakesRequest
  <2>5. ASSUME NEW c \in Clients, RegisterStrategy(c) PROVE PendingInv'
    BY <1>1, <2>5 DEF RegisterStrategy
  <2>6. ASSUME NEW c \in Clients, NEW h \in 1 .. MaxGen, HandleExit(c, h) PROVE PendingInv'
    <3>1. \A d \in Clients : proc'[d] = "up" => proc[d] = "up"
      BY <2>6 DEF HandleExit, TypeOK
    <3>2. \A s \in Slots : usr'[s] = usr[s] \/ usr'[s] = NoUser
      BY <1>3, <2>6 DEF HandleExit
    <3>3. QED
      BY <1>4, <2>6, <3>1, <3>2 DEF HandleExit
  <2>7. QED
    BY <1>6, <2>1, <2>2, <2>3, <2>4, <2>5, <2>6 DEF SocketNext
<1>7. CASE ClientNext
  <2>1. ASSUME NEW c \in Clients, NEW j \in Journals, AddJournal(c, j) PROVE PendingInv'
    <3>1. /\ regMsgs' = regMsgs \cup {<<c, gen[c], j>>} /\ UNCHANGED <<gen, proc, usr>>
          /\ \A i \in Journals : <<c, gen[c], i>> \notin regMsgs
          /\ \A s \in Slots : usr[s].owner = c => ~Busy(s)
      BY <2>1 DEF AddJournal, Idle, UsersOf, Busy
    <3>2. gen[c] \in Nat
      BY DEF TypeOK
    <3>3. QED
      BY <3>1, <3>2 DEF PendingInv, Waits, Busy
  <2>2. ASSUME NEW c \in Clients, ExitRequest(c) PROVE PendingInv'
    BY <1>1, <1>2, <2>2 DEF ExitRequest
  <2>3. ASSUME NEW s \in Slots, FillSlot(s) PROVE PendingInv'
    <3>1. CASE comm[s].status = "OCCUPIED"
      <4>1. UNCHANGED <<gen, regMsgs, proc>> /\ \A t \in Slots : Busy(t)' => Busy(t) /\ usr'[t] = usr[t]
        BY <2>3, <3>1 DEF FillSlot, TypeOK, JournalUser, Busy
      <4>2. QED
        BY <4>1, PendingKept
    <3>2. CASE comm[s].status # "OCCUPIED"
      BY <1>1, <1>2, <2>3, <3>2 DEF FillSlot
    <3>3. QED
      BY <3>1, <3>2
  <2>4. ASSUME NEW s \in Slots, NEW u, Idle(usr[s].owner), u.owner = usr[s].owner,
               usr' = [usr EXCEPT ![s] = u], UNCHANGED <<gen, regMsgs, proc>>
        PROVE  PendingInv'
    <3>1. usr'[s].owner = usr[s].owner /\ \A t \in Slots : t # s => usr'[t] = usr[t]
      BY <2>4 DEF TypeOK
    <3>2. \A j \in Journals : <<usr'[s].owner, gen[usr'[s].owner], j>> \notin regMsgs'
      BY <2>4, <3>1 DEF Idle
    <3>3. QED
      BY <2>4, <3>1, <3>2, PendingKept DEF Busy
  <2>5. ASSUME NEW s \in Slots, NEW call, NEW p, AskPage(s, call, p), Idle(usr[s].owner)
        PROVE  PendingInv'
    <3> DEFINE u == [usr[s] EXCEPT !.call = call, !.target = 0]
    <3>1. u.owner = usr[s].owner /\ usr' = [usr EXCEPT ![s] = u] /\ UNCHANGED <<gen, regMsgs, proc>>
      BY <2>5 DEF AskPage, TypeOK, JournalUser
    <3> HIDE DEF u
    <3>2. QED
      BY <2>4, <2>5, <3>1
  <2>6. ASSUME NEW s \in Slots, Expire(s) PROVE PendingInv'
    <3> DEFINE u == [usr[s] EXCEPT !.call = "expire", !.expired = TRUE, !.cur = 0]
    <3>1. u.owner = usr[s].owner /\ usr' = [usr EXCEPT ![s] = u] /\ UNCHANGED <<gen, regMsgs, proc>>
      BY <2>6 DEF Expire, TypeOK, JournalUser
    <3> HIDE DEF u
    <3>2. QED
      BY <2>4, <2>6, <3>1 DEF Expire
  <2>7. ASSUME NEW s \in Slots, NEW u, u.owner = usr[s].owner, u.call \in {"none", "list", "failed"},
               u.call = "failed" => Busy(s),
               usr' = [usr EXCEPT ![s] = u], UNCHANGED <<gen, regMsgs>>,
               \A c \in Clients : proc'[c] = "up" => proc[c] = "up"
        PROVE  PendingInv'
    <3>1. usr'[s] = u /\ \A t \in Slots : t # s => usr'[t] = usr[t]
      BY <2>7 DEF TypeOK
    <3>2. QED
      BY <2>7, <3>1, PendingKept DEF Busy
  <2>8. ASSUME NEW s \in Slots, ListPages(s) PROVE PendingInv'
    <3>1. PICK p \in 1 .. MaxPage : usr' = [usr EXCEPT ![s] = [usr[s] EXCEPT !.target = p]]
      BY <2>8 DEF ListPages
    <3> DEFINE u == [usr[s] EXCEPT !.target = p]
    <3>2. u.owner = usr[s].owner /\ u.call = "list"
      BY <2>8 DEF ListPages, TypeOK, JournalUser
    <3> HIDE DEF u
    <3>3. usr' = [usr EXCEPT ![s] = u]
      BY <3>1 DEF u
    <3>4. QED
      BY <2>7, <2>8, <3>2, <3>3 DEF ListPages
  <2>9. ASSUME NEW s \in Slots, WriterGetsPage(s) PROVE PendingInv'
    <3> DEFINE u == [usr[s] EXCEPT !.call = "none", !.cur = comm[s].page_num, !.expired = FALSE]
    <3>1. usr' = [usr EXCEPT ![s] = u]
      BY <2>9 DEF WriterGetsPage, TypeOK
    <3>2. u.owner = usr[s].owner /\ u.call = "none"
      BY <1>9 DEF JournalUser
    <3> HIDE DEF u
    <3>3. QED
      BY <2>7, <2>9, <3>1, <3>2 DEF WriterGetsPage
  <2>10. ASSUME NEW s \in Slots, WriterRefused(s) PROVE PendingInv'
    <3> DEFINE u == [usr[s] EXCEPT !.call = IF usr[s].call = "seek" THEN "failed" ELSE "none"]
    <3>1. /\ u.owner = usr[s].owner /\ u.call \in {"none", "failed"} /\ Busy(s)
          /\ usr' = [usr EXCEPT ![s] = u]
      BY <2>10 DEF WriterRefused, Answered, PageCalls, Busy, TypeOK, JournalUser
    <3>2. usr[s].owner \in Clients
      BY <2>10, PageEngineAssumption DEF WriterRefused
    <3>3. \A c \in Clients : proc'[c] = "up" => proc[c] = "up"
      BY <1>2, <2>10, <3>2 DEF WriterRefused
    <3> HIDE DEF u
    <3>4. QED
      BY <2>7, <2>10, <3>1, <3>3 DEF WriterRefused
  <2>11. ASSUME NEW s \in Slots, WriterLost(s) PROVE PendingInv'
    <3>1. CASE usr[s].call = "seek"
      <4> DEFINE u == [usr[s] EXCEPT !.call = "none", !.cur = 0, !.expired = TRUE]
      <4>1. usr' = [usr EXCEPT ![s] = u]
        BY <2>11, <3>1 DEF WriterLost, TypeOK
      <4>2. u.owner = usr[s].owner /\ u.call = "none"
        BY <1>9 DEF JournalUser
      <4> HIDE DEF u
      <4>3. QED
        BY <2>7, <2>11, <3>1, <4>1, <4>2 DEF WriterLost
    <3>2. CASE usr[s].call # "seek"
      <4>1. usr[s].owner \in Clients
        BY <2>11, PageEngineAssumption DEF WriterLost
      <4>2. \A c \in Clients : proc'[c] = "up" => proc[c] = "up"
        BY <2>11, <3>2 DEF WriterLost, TypeOK
      <4>3. QED
        BY <1>3, <1>4, <2>11, <3>2, <4>1, <4>2 DEF WriterLost
    <3>3. QED
      BY <3>1, <3>2
  <2>12. ASSUME NEW s \in Slots, ReaderGetsAnswer(s) PROVE PendingInv'
    <3> DEFINE loaded == comm[s].status = "ALLOCATED" /\ Here(s) \in inited
               page == IF loaded THEN comm[s].page_num ELSE 0
               expired == IF usr[s].call = "seek" THEN ~loaded ELSE usr[s].expired
               u == [usr[s] EXCEPT !.call = "none", !.cur = page, !.expired = expired]
    <3>1. usr' = [usr EXCEPT ![s] = u]
      BY <2>12 DEF ReaderGetsAnswer, TypeOK
    <3> HIDE DEF page, expired
    <3>2. u.owner = usr[s].owner /\ u.call = "none"
      BY DEF TypeOK, JournalUser
    <3> HIDE DEF u
    <3>3. QED
      BY <2>7, <2>12, <3>1, <3>2 DEF ReaderGetsAnswer
  <2>13. ASSUME NEW c \in Clients, Die(c) PROVE PendingInv'
    <3>1. \A d \in Clients : proc'[d] = "up" => proc[d] = "up"
      BY <2>13 DEF Die, TypeOK
    <3>2. QED
      BY <1>3, <1>4, <2>13, <3>1 DEF Die
  <2>14. QED
    BY <1>7, <2>1, <2>2, <2>3, <2>5, <2>6, <2>8, <2>9, <2>10, <2>11, <2>12, <2>13
    DEF ClientNext, WriterSeekEnd, ReaderSeek, LoadNextPage, CanLoadNext
<1>8. QED
  BY <1>1, <1>6, <1>7
  DEF Next, ServiceNext, CommScan, CommServe, CommRemember, PidCheck, TempPage, vars

LEMMA PendingInvariant == Spec => []PendingInv
<1>1. Init => PendingInv
  BY DEF Init, PendingInv
<1>2. QED
  BY <1>1, PendingNext, TypeCorrect, PTL DEF Spec

-----------------------------------------------------------------------------
(* Who uses a slot, while nobody dies in a request.                        *)

(***************************************************************************)
(* A slot in use belongs to a process that runs and owns it; the slot of a *)
(* request belongs to a process that waits for it, ...                     *)
(***************************************************************************)
UserOK(s) ==
  /\ usr[s].owner # NoClient =>
       /\ proc[usr[s].owner] # "down" /\ Registered(usr[s].owner)
       /\ s \in clientJournals[usr[s].owner].users
  /\ usr[s].owner = NoClient => usr[s].call = "none"
  /\ Requesting(s) =>
       usr[s].call \in PageCalls /\ usr[s].owner # NoClient /\ proc[usr[s].owner] = "up"
  /\ ~Owned(s) => comm[s].status = "RAW" \/ (~serving /\ comm[s].status = "OCCUPIED")

(* ... the status of a slot follows the call of its user, ... *)
StatusOK(s) ==
  /\ usr[s].call = "fill" => comm[s].status = "OCCUPIED"
  /\ usr[s].call = "list" => comm[s].status = "HOLDING"
  /\ comm[s].status \in {"OCCUPIED", "HOLDING"} => comm[s].last_page_num = 0
  /\ comm[s].status \in {"ALLOCATED", "MORE_THAN_ONE_WRITE"} /\ ~Served(s) =>
       comm[s].last_page_num = comm[s].page_num

(***************************************************************************)
(* ... and a writer that goes on to its next page still has the one before *)
(* it, or was refused that next page: what the service releases then is    *)
(* never a page the writer was refused.                                    *)
(***************************************************************************)
WriterOK(s) ==
  /\ usr[s].owner # NoClient /\ usr[s].call # "fill" =>
       (comm[s].is_writer <=> usr[s].owner \in WriterClients)
  /\ comm[s].is_writer /\ comm[s].status \in {"REQUESTING", "ALLOCATED"} => comm[s].page_num > 0
  /\ usr[s].owner \in WriterClients /\ ~usr[s].expired /\ usr[s].cur > 0 /\ usr[s].call = "none" =>
       \/ comm[s].status = "ALLOCATED" /\ comm[s].page_num = usr[s].cur
       \/ comm[s].status = "MORE_THAN_ONE_WRITE" /\ comm[s].page_num = usr[s].cur + 1
  /\ usr[s].owner \in WriterClients => usr[s].call # "expire"
  /\ usr[s].owner \in WriterClients /\ usr[s].call = "next" =>
       comm[s].page_num = usr[s].cur + 1 /\ usr[s].cur > 0

(* A process waits in one call at a time. *)
OneBusy ==
  \A s, t \in Slots : s # t /\ usr[s].owner # NoClient /\ usr[s].owner = usr[t].owner /\ Busy(s)
    => ~Busy(t)

(***************************************************************************)
(* The comm thread serves a slot that is still the request it saw; while   *)
(* it has the mutex, nobody takes that slot away.                          *)
(***************************************************************************)
ServedInv ==
  /\ commPc = "demand" => Requesting(commIdx)
  /\ commPc = "remember" => comm[commIdx].status \notin {"RAW", "OCCUPIED", "HOLDING"}

UseInv ==
  /\ \A s \in Slots : UserOK(s) /\ StatusOK(s) /\ WriterOK(s)
  /\ OneBusy
  /\ ServedInv

(* A slot that an action does not touch is as it was. *)
LEMMA SlotKept ==
  ASSUME NEW s \in Slots, UserOK(s), StatusOK(s), WriterOK(s),
         comm'[s] = comm[s], usr'[s] = usr[s],
         serving' => serving, Served(s) => Served(s)',
         Owned(s) => Owned(s)',
         LET c == usr[s].owner
         IN  c # NoClient /\ proc[c] # "down" /\ Registered(c) /\ s \in clientJournals[c].users =>
               /\ proc'[c] # "down" /\ Registered(c)' /\ s \in clientJournals'[c].users
               /\ Requesting(s) => proc'[c] = proc[c]
  PROVE  UserOK(s)' /\ StatusOK(s)' /\ WriterOK(s)'
<1>1. UserOK(s)'
  BY DEF UserOK, Requesting
<1>2. StatusOK(s)' /\ WriterOK(s)'
  BY DEF StatusOK, WriterOK
<1>3. QED
  BY <1>1, <1>2

(* An action that leaves the processes and the map alone, and touches one slot. *)
LEMMA OneSlotKept ==
  ASSUME UseInv, NEW s \in Slots, UNCHANGED <<proc, clientJournals>>, serving' => serving,
         \A t \in Slots : t # s => /\ comm'[t] = comm[t] /\ usr'[t] = usr[t]
                                   /\ Served(t) => Served(t)',
         UserOK(s)', StatusOK(s)', WriterOK(s)'
  PROVE  \A t \in Slots : UserOK(t)' /\ StatusOK(t)' /\ WriterOK(t)'
<1> SUFFICES ASSUME NEW t \in Slots, t # s PROVE UserOK(t)' /\ StatusOK(t)' /\ WriterOK(t)'
  OBVIOUS
<1>1. UserOK(t) /\ StatusOK(t) /\ WriterOK(t)
  BY DEF UseInv
<1>2. Owned(t) => Owned(t)'
  BY DEF Owned, Registered
<1>3. QED
  BY <1>1, <1>2, SlotKept DEF Registered

(* What an action may do to the calls of the users of one client. *)
LEMMA OneBusyKept ==
  ASSUME OneBusy, NEW s \in Slots,
         \A t \in Slots : t # s => usr'[t] = usr[t] \/ usr'[t] = NoUser,
         \/ usr'[s].call \in {"none", "list"}
         \/ usr'[s].owner = usr[s].owner /\ Busy(s)
         \/ usr'[s].owner = NoClient
         \/ \A t \in Slots : usr'[t].owner = usr'[s].owner /\ t # s => ~Busy(t)'
  PROVE  OneBusy'
<1>1. NoUser.owner = NoClient
  BY DEF NoUser
<1>2. QED
  BY <1>1 DEF OneBusy, Busy

(* exit_client of clients that do not run, whose users go with them. *)
LEMMA ExitClientsUse ==
  ASSUME TypeOK, SlotInv, UseInv, NEW cs \in SUBSET Clients, ExitClients(cs),
         \A c \in cs : Registered(c) /\ proc[c] # "up",
         \A c \in Clients : c \notin cs => proc'[c] = proc[c],
         \A s \in Slots : usr'[s] = IF usr[s].owner \in cs THEN NoUser ELSE usr[s],
         UNCHANGED commThread, MutexFree, serving' => serving
  PROVE  UseInv'
<1> USE DEF commThread
<1>9. commPc # "remember" /\ \A s \in Slots : Served(s)' <=> Served(s)
  BY DEF MutexFree, Served
<1>1. \A c \in Clients : /\ Registered(c)' <=> Registered(c) /\ c \notin cs
                         /\ c \notin cs => clientJournals'[c] = clientJournals[c]
  BY ExitClientsForget
<1>2. \A s \in Slots : comm'[s] = IF s \in Leaving(cs) THEN [comm[s] EXCEPT !.status = "RAW"] ELSE comm[s]
  BY DEF ExitClients
<1>3. ASSUME NEW s \in Slots PROVE usr[s].owner \in Clients \cup {NoClient}
  BY DEF TypeOK, JournalUser
<1>4. ASSUME NEW s \in Slots, usr[s].owner # NoClient
      PROVE  s \in Leaving(cs) <=> usr[s].owner \in cs
  <2>1. /\ usr[s].owner \in Clients /\ Registered(usr[s].owner)
        /\ s \in clientJournals[usr[s].owner].users
    BY <1>3, <1>4 DEF UseInv, UserOK
  <2>2. QED
    BY <2>1 DEF Leaving, SlotInv, SlotsOwnedOnce
<1>5. ASSUME NEW s \in Slots PROVE UserOK(s)' /\ StatusOK(s)' /\ WriterOK(s)'
  <2>1. UserOK(s) /\ StatusOK(s) /\ WriterOK(s)
    BY DEF UseInv
  <2>2. CASE s \in Leaving(cs)
    <3>1. usr'[s].owner = NoClient /\ usr'[s].call = "none"
      BY <1>4, <2>1, <2>2 DEF NoUser, UserOK
    <3>2. comm'[s].status = "RAW"
      <4>1. comm[s] \in PageCommMsg /\ comm'[s] = [comm[s] EXCEPT !.status = "RAW"]
        BY <1>2, <2>2 DEF TypeOK
      <4>2. QED
        BY <4>1 DEF PageCommMsg
    <3>3. NoClient \notin WriterClients
      BY PageEngineAssumption
    <3>4. QED
      BY <3>1, <3>2, <3>3 DEF UserOK, StatusOK, WriterOK, Requesting
  <2>3. CASE s \notin Leaving(cs)
    <3>1. NoClient \notin cs
      BY PageEngineAssumption
    <3>2. comm'[s] = comm[s] /\ usr'[s] = usr[s]
      BY <1>2, <1>4, <2>3, <3>1
    <3>3. Owned(s) => Owned(s)'
      BY <1>1, <2>3 DEF Owned, Leaving
    <3>4. usr[s].owner # NoClient =>
            usr[s].owner \in Clients /\ usr[s].owner \notin cs
      BY <1>3, <1>4, <2>3
    <3>5. QED
      BY <1>1, <1>9, <2>1, <3>2, <3>3, <3>4, SlotKept
  <2>4. QED
    BY <2>2, <2>3
<1>6. OneBusy'
  <2>1. NoUser.owner = NoClient
    BY DEF NoUser
  <2>2. QED
    BY <2>1 DEF UseInv, OneBusy, Busy
<1>7. ServedInv'
  <2>1. SUFFICES ASSUME commPc = "demand" PROVE Requesting(commIdx)'
    BY <1>9 DEF ServedInv
  <2>2. commIdx \in Slots /\ Requesting(commIdx)
    BY <2>1 DEF UseInv, ServedInv, TypeOK
  <2>3. usr[commIdx].owner # NoClient /\ proc[usr[commIdx].owner] = "up"
    BY <2>2 DEF UseInv, UserOK
  <2>4. commIdx \notin Leaving(cs)
    BY <1>4, <2>2, <2>3
  <2>5. QED
    BY <1>2, <2>2, <2>4 DEF Requesting
<1>8. QED
  BY <1>5, <1>6, <1>7 DEF UseInv

(* A process that is not waiting in a request is gone. *)
LEMMA GoneUse ==
  ASSUME TypeOK, UseInv, NEW c \in Clients,
         proc' = [proc EXCEPT ![c] = "down"], usr' = Gone(c),
         UNCHANGED <<comm, clientJournals, commPc, commIdx>>, serving' => serving,
         \A s \in Slots : usr[s].owner = c => ~Requesting(s)
  PROVE  UseInv'
<1>7. \A s \in Slots : Served(s)' <=> Served(s)
  BY DEF Served
<1>1. \A s \in Slots : usr'[s] = IF usr[s].owner = c THEN NoUser ELSE usr[s]
  BY DEF Gone
<1>2. NoUser.owner = NoClient /\ NoUser.call = "none"
  BY DEF NoUser
<1>3. ASSUME NEW s \in Slots PROVE UserOK(s)' /\ StatusOK(s)' /\ WriterOK(s)'
  <2>1. UserOK(s) /\ StatusOK(s) /\ WriterOK(s)
    BY DEF UseInv
  <2>2. Owned(s)' <=> Owned(s)
    BY DEF Owned, Registered
  <2>3. CASE usr[s].owner = c
    <3>1. ~Requesting(s)' /\ usr'[s].owner = NoClient /\ usr'[s].call = "none"
      BY <1>1, <1>2, <2>3 DEF Requesting
    <3>2. NoClient \notin WriterClients
      BY PageEngineAssumption
    <3>3. QED
      BY <1>7, <2>1, <2>2, <3>1, <3>2 DEF UserOK, StatusOK, WriterOK
  <2>4. CASE usr[s].owner # c
    <3>1. usr[s].owner \in Clients \cup {NoClient}
      BY DEF TypeOK, JournalUser
    <3>2. usr[s].owner # NoClient => proc'[usr[s].owner] = proc[usr[s].owner]
      BY <2>4, <3>1 DEF TypeOK
    <3>3. QED
      BY <1>1, <1>7, <2>1, <2>2, <2>4, <3>2, SlotKept DEF Registered
  <2>5. QED
    BY <2>3, <2>4
<1>4. OneBusy'
  BY <1>1, <1>2 DEF UseInv, OneBusy, Busy
<1>5. ServedInv'
  BY DEF UseInv, ServedInv, Requesting
<1>6. QED
  BY <1>3, <1>4, <1>5 DEF UseInv

(* A process that is not waiting in a request sends its exit request. *)
LEMMA SendExitUse ==
  ASSUME TypeOK, UseInv, NEW c \in Clients, SendExit(c),
         UNCHANGED <<comm, clientJournals, commThread, serving>>,
         \A s \in Slots : usr[s].owner = c => ~Requesting(s),
         \A s \in Slots :
           \/ usr'[s] = usr[s]
           \/ /\ usr[s].owner = c /\ usr[s].call \in PageCalls
              /\ usr'[s] = [usr[s] EXCEPT !.call = "failed"]
  PROVE  UseInv'
<1> USE DEF commThread
<1>1. \A d \in Clients : proc'[d] = IF d = c THEN "exiting" ELSE proc[d]
  BY DEF SendExit, TypeOK
<1>7. \A s \in Slots : Served(s)' <=> Served(s)
  BY DEF Served
<1>2. \A s \in Slots :
        /\ usr'[s].owner = usr[s].owner /\ usr'[s].cur = usr[s].cur /\ usr'[s].expired = usr[s].expired
        /\ \/ usr'[s].call = usr[s].call
           \/ usr[s].owner = c /\ usr[s].call \in PageCalls /\ usr'[s].call = "failed"
  <2>1. SUFFICES ASSUME NEW s \in Slots, usr[s].owner = c, usr[s].call \in PageCalls,
                        usr'[s] = [usr[s] EXCEPT !.call = "failed"]
                 PROVE  /\ usr'[s].owner = usr[s].owner /\ usr'[s].cur = usr[s].cur
                        /\ usr'[s].expired = usr[s].expired /\ usr'[s].call = "failed"
    OBVIOUS
  <2>2. usr[s] \in JournalUser
    BY DEF TypeOK
  <2>3. QED
    BY <2>1, <2>2 DEF JournalUser
<1>3. ASSUME NEW s \in Slots PROVE UserOK(s)' /\ StatusOK(s)' /\ WriterOK(s)'
  <2>1. UserOK(s) /\ StatusOK(s) /\ WriterOK(s)
    BY DEF UseInv
  <2>2. Owned(s)' <=> Owned(s)
    BY DEF Owned, Registered
  <2>3. usr[s].owner \in Clients \cup {NoClient}
    BY DEF TypeOK, JournalUser
  <2>4. UserOK(s)'
    BY <1>1, <1>2, <2>1, <2>2, <2>3, PageEngineAssumption DEF UserOK, Requesting, Registered
  <2>5. StatusOK(s)' /\ WriterOK(s)'
    <3>1. CASE usr'[s].call = usr[s].call
      BY <1>2, <1>7, <2>1, <3>1 DEF StatusOK, WriterOK
    <3>2. CASE usr[s].call \in PageCalls /\ usr'[s].call = "failed"
      <4>1. usr'[s].call \notin {"fill", "list", "none", "next", "expire"}
        BY <3>2
      <4>2. usr[s].call # "fill"
        BY <3>2 DEF PageCalls
      <4>3. QED
        BY <1>2, <1>7, <2>1, <4>1, <4>2 DEF StatusOK, WriterOK
    <3>3. QED
      BY <1>2, <3>1, <3>2
  <2>6. QED
    BY <2>4, <2>5
<1>4. OneBusy'
  BY <1>2 DEF UseInv, OneBusy, Busy, PageCalls
<1>5. ServedInv'
  BY DEF UseInv, ServedInv, Requesting
<1>6. QED
  BY <1>3, <1>4, <1>5 DEF UseInv

(* A request writes the page number and the status of its slot. *)
LEMMA AskUse ==
  ASSUME TypeOK, UseInv, NEW s \in Slots, NEW p, NEW u,
         usr[s].owner # NoClient, Idle(usr[s].owner),
         comm' = [comm EXCEPT ![s].page_num = p, ![s].status = "REQUESTING"],
         usr' = [usr EXCEPT ![s] = u], u.owner = usr[s].owner, u.call \in PageCalls,
         usr[s].owner \in WriterClients =>
           p > 0 /\ u.call # "expire" /\ (u.call = "next" => p = u.cur + 1 /\ u.cur > 0),
         UNCHANGED <<proc, clientJournals, serving, commPc, commIdx>>
  PROVE  UseInv'
<1>12. \A t \in Slots : Served(t)' <=> Served(t)
  BY DEF Served
<1>1. /\ comm'[s].status = "REQUESTING" /\ comm'[s].page_num = p
      /\ comm'[s].is_writer = comm[s].is_writer
      /\ \A t \in Slots : t # s => comm'[t] = comm[t]
  BY DEF TypeOK, PageCommMsg
<1>2. usr'[s] = u /\ \A t \in Slots : t # s => usr'[t] = usr[t]
  BY DEF TypeOK
<1>3. UserOK(s) /\ StatusOK(s) /\ WriterOK(s)
  BY DEF UseInv
<1>4. usr[s].call \in {"none", "list"} /\ proc[usr[s].owner] = "up"
  BY DEF Idle, UsersOf
<1>5. UserOK(s)'
  <2>1. Owned(s)' <=> Owned(s)
    BY DEF Owned, Registered
  <2>2. usr[s].owner \in Clients
    BY DEF TypeOK, JournalUser
  <2>3. Owned(s)
    BY <1>3, <2>2 DEF UserOK, Owned
  <2>4. /\ usr'[s].owner = usr[s].owner /\ usr'[s].call \in PageCalls
        /\ proc'[usr[s].owner] = "up" /\ Registered(usr[s].owner)'
        /\ s \in clientJournals'[usr[s].owner].users
    BY <1>2, <1>3, <1>4 DEF UserOK, Registered
  <2>5. QED
    BY <2>1, <2>3, <2>4 DEF UserOK
<1>6. StatusOK(s)'
  BY <1>1, <1>2 DEF StatusOK, PageCalls
<1>7. WriterOK(s)'
  BY <1>1, <1>2, <1>3, <1>4 DEF WriterOK, PageCalls
<1>8. \A t \in Slots : UserOK(t)' /\ StatusOK(t)' /\ WriterOK(t)'
  BY <1>1, <1>2, <1>5, <1>6, <1>7, <1>12, OneSlotKept
<1>9. OneBusy'
  <2>1. \A t \in Slots : usr'[t].owner = usr'[s].owner /\ t # s => ~Busy(t)'
    BY <1>2 DEF Idle, UsersOf, Busy
  <2>2. QED
    BY <1>2, <2>1, OneBusyKept DEF UseInv
<1>10. ServedInv'
  BY <1>1 DEF UseInv, ServedInv, Requesting, TypeOK
<1>11. QED
  BY <1>8, <1>9, <1>10 DEF UseInv

(* The answer of the comm thread leaves the page number and the last one. *)
LEMMA ServeDoes ==
  ASSUME TypeOK, CommServe
  PROVE  /\ commIdx \in Slots
         /\ \A t \in Slots : t # commIdx => comm'[t] = comm[t]
         /\ comm'[commIdx].status
              \in {"NON_EXIST", "CANNOT_RENAME_FROM_TEMP", "MORE_THAN_ONE_WRITE", "ALLOCATED"}
         /\ comm'[commIdx].page_num = comm[commIdx].page_num
         /\ comm'[commIdx].last_page_num = comm[commIdx].last_page_num
         /\ comm'[commIdx].is_writer = comm[commIdx].is_writer
         /\ comm'[commIdx].journal = comm[commIdx].journal
<1>1. PICK renamed \in RenameOutcomes :
        comm' = [comm EXCEPT
          ![commIdx].status = InitiateStatus(ReleaseLast(commIdx), comm[commIdx], renamed)]
  BY DEF CommServe
<1> DEFINE x == InitiateStatus(ReleaseLast(commIdx), comm[commIdx], renamed)
<1>2. x \in {"NON_EXIST", "CANNOT_RENAME_FROM_TEMP", "MORE_THAN_ONE_WRITE", "ALLOCATED"}
  BY InitiateStatusType
<1>3. commIdx \in Slots /\ comm[commIdx] \in PageCommMsg
  BY DEF TypeOK
<1> HIDE DEF x
<1>4. comm'[commIdx] = [comm[commIdx] EXCEPT !.status = x]
  BY <1>1, <1>3 DEF TypeOK, x
<1>5. \A t \in Slots : t # commIdx => comm'[t] = comm[t]
  BY <1>1, <1>3 DEF TypeOK
<1>6. QED
  BY <1>2, <1>3, <1>4, <1>5 DEF PageCommMsg

LEMMA ServeUse ==
  ASSUME TypeOK, UseInv, CommServe
  PROVE  UseInv'
<1> USE DEF clientVars
<1> PICK s \in Slots : s = commIdx
  BY ServeDoes
<1>1. Requesting(s)
  BY DEF CommServe, UseInv, ServedInv
<1>2. /\ UNCHANGED <<clientJournals, proc, usr, serving, commIdx>>
      /\ commPc = "demand" /\ commPc' = "remember"
  BY DEF CommServe
<1>11. Served(s)' /\ \A t \in Slots : t # s => (Served(t) => Served(t)')
  BY <1>2 DEF Served
<1>3. UserOK(s) /\ StatusOK(s) /\ WriterOK(s)
  BY <1>1 DEF UseInv
<1>4. usr[s].call \in {"seek", "next", "expire"}
  BY <1>1, <1>3 DEF UserOK, PageCalls
<1>5. UserOK(s)'
  <2>1. Owned(s)' <=> Owned(s)
    BY <1>2 DEF Owned, Registered
  <2>2. Owned(s)
    BY <1>1, <1>3 DEF UserOK, Requesting
  <2>3. ~Requesting(s)'
    BY <1>1, ServeDoes, <1>2 DEF Requesting
  <2>4. QED
    BY <1>2, <1>3, <2>1, <2>2, <2>3 DEF UserOK, Registered
<1>6. StatusOK(s)'
  BY <1>2, <1>4, <1>11, ServeDoes DEF StatusOK
<1>7. WriterOK(s)'
  BY <1>1, <1>2, <1>3, <1>4, ServeDoes DEF WriterOK, Requesting
<1>8. \A t \in Slots : UserOK(t)' /\ StatusOK(t)' /\ WriterOK(t)'
  <2>1. \A t \in Slots : t # s => comm'[t] = comm[t] /\ usr'[t] = usr[t]
    BY <1>2, ServeDoes
  <2>2. QED
    BY <1>1, <1>2, <1>5, <1>6, <1>7, <1>11, <2>1, OneSlotKept
<1>9. OneBusy' /\ ServedInv'
  BY <1>2, ServeDoes DEF UseInv, OneBusy, Busy, ServedInv
<1>10. QED
  BY <1>8, <1>9 DEF UseInv

(* ... and then the last one is set to the page number the slot has by then. *)
LEMMA RememberDoes ==
  ASSUME TypeOK, CommRemember
  PROVE  /\ commIdx \in Slots
         /\ \A t \in Slots : t # commIdx => comm'[t] = comm[t]
         /\ comm'[commIdx].last_page_num = comm[commIdx].page_num
         /\ comm'[commIdx].status = comm[commIdx].status
         /\ comm'[commIdx].page_num = comm[commIdx].page_num
         /\ comm'[commIdx].is_writer = comm[commIdx].is_writer
         /\ comm'[commIdx].journal = comm[commIdx].journal
<1>1. commIdx \in Slots /\ comm[commIdx] \in PageCommMsg
  BY DEF TypeOK
<1>2. comm'[commIdx] = [comm[commIdx] EXCEPT !.last_page_num = comm[commIdx].page_num]
  BY <1>1 DEF CommRemember, TypeOK
<1>3. \A t \in Slots : t # commIdx => comm'[t] = comm[t]
  BY <1>1 DEF CommRemember, TypeOK
<1>4. QED
  BY <1>1, <1>2, <1>3 DEF PageCommMsg

LEMMA RememberUse ==
  ASSUME TypeOK, UseInv, CommRemember
  PROVE  UseInv'
<1> USE DEF clientVars
<1> PICK s \in Slots : s = commIdx
  BY RememberDoes
<1>1. /\ UNCHANGED <<clientJournals, proc, usr, serving>>
      /\ commPc = "remember" /\ commPc' = "scan"
  BY DEF CommRemember
<1>2. comm[s].status \notin {"RAW", "OCCUPIED", "HOLDING"}
  BY <1>1 DEF UseInv, ServedInv
<1>3. UserOK(s) /\ StatusOK(s) /\ WriterOK(s)
  BY DEF UseInv
<1>4. \A t \in Slots : t # s => ~Served(t)
  BY DEF Served
<1>5. UserOK(s)'
  <2>1. (Owned(s)' <=> Owned(s)) /\ (Requesting(s)' <=> Requesting(s))
    BY <1>1, RememberDoes DEF Owned, Registered, Requesting
  <2>2. QED
    BY <1>1, <1>3, <2>1, RememberDoes DEF UserOK, Registered
<1>6. StatusOK(s)'
  BY <1>1, <1>2, <1>3, RememberDoes DEF StatusOK
<1>7. WriterOK(s)'
  BY <1>1, <1>3, RememberDoes DEF WriterOK
<1>8. \A t \in Slots : UserOK(t)' /\ StatusOK(t)' /\ WriterOK(t)'
  <2>1. \A t \in Slots : t # s => comm'[t] = comm[t] /\ usr'[t] = usr[t]
    BY <1>1, RememberDoes
  <2>2. QED
    BY <1>1, <1>4, <1>5, <1>6, <1>7, <2>1, OneSlotKept
<1>9. OneBusy' /\ ServedInv'
  BY <1>1 DEF UseInv, OneBusy, Busy, ServedInv
<1>10. QED
  BY <1>8, <1>9 DEF UseInv

(* A change of one user while nothing happens to the slots and the processes. *)
LEMMA UserUse ==
  ASSUME TypeOK, UseInv, NEW s \in Slots, NEW u,
         usr' = [usr EXCEPT ![s] = u], u.owner = usr[s].owner, usr[s].owner # NoClient,
         u.call \in {"none", "list"}, u.call = "list" => usr[s].call = "list",
         ~Requesting(s), usr[s].call # "fill",
         /\ usr[s].owner \in WriterClients /\ ~u.expired /\ u.cur > 0 /\ u.call = "none"
         => \/ comm[s].status = "ALLOCATED" /\ comm[s].page_num = u.cur
            \/ comm[s].status = "MORE_THAN_ONE_WRITE" /\ comm[s].page_num = u.cur + 1,
         UNCHANGED <<comm, proc, clientJournals, serving, commThread>>
  PROVE  UseInv'
<1> USE DEF commThread
<1>1. usr'[s] = u /\ \A t \in Slots : t # s => usr'[t] = usr[t]
  BY DEF TypeOK
<1>2. UserOK(s) /\ StatusOK(s) /\ WriterOK(s)
  BY DEF UseInv
<1>3. Owned(s)' <=> Owned(s)
  BY DEF Owned, Registered
<1>10. \A t \in Slots : Served(t)' <=> Served(t)
  BY DEF Served
<1>4. UserOK(s)'
  BY <1>1, <1>2, <1>3 DEF UserOK, Requesting, Registered
<1>5. StatusOK(s)' /\ WriterOK(s)'
  BY <1>1, <1>2, <1>10 DEF StatusOK, WriterOK
<1>6. \A t \in Slots : UserOK(t)' /\ StatusOK(t)' /\ WriterOK(t)'
  BY <1>1, <1>4, <1>5, <1>10, OneSlotKept
<1>7. OneBusy'
  BY <1>1, OneBusyKept DEF UseInv
<1>8. ServedInv'
  BY DEF UseInv, ServedInv, Requesting
<1>9. QED
  BY <1>6, <1>7, <1>8 DEF UseInv

(* A process that comes. *)
LEMMA JoinUse ==
  ASSUME TypeOK, UseInv, NEW c \in Clients, RegClient(c)
  PROVE  UseInv'
<1> USE DEF commThread, pageVars
<1>1. /\ \A d \in Clients : d # c => proc'[d] = proc[d] /\ clientJournals'[d] = clientJournals[d]
      /\ proc[c] = "down" /\ ~Registered(c)
      /\ UNCHANGED <<comm, usr, serving, commPc, commIdx>>
  BY DEF RegClient, TypeOK
<1>2. ASSUME NEW s \in Slots PROVE UserOK(s)' /\ StatusOK(s)' /\ WriterOK(s)'
  <2>1. UserOK(s) /\ StatusOK(s) /\ WriterOK(s)
    BY DEF UseInv
  <2>2. (Owned(s) => Owned(s)') /\ (Served(s) => Served(s)')
    BY <1>1 DEF Owned, Registered, Served
  <2>3. usr[s].owner # NoClient => usr[s].owner \in Clients /\ usr[s].owner # c
    BY <1>1, <2>1 DEF TypeOK, JournalUser, UserOK
  <2>4. QED
    BY <1>1, <2>1, <2>2, <2>3, SlotKept DEF Registered
<1>3. OneBusy' /\ ServedInv'
  BY <1>1 DEF UseInv, OneBusy, Busy, ServedInv, Requesting
<1>4. QED
  BY <1>2, <1>3 DEF UseInv

(***************************************************************************)
(* reg_journal takes a RAW slot, which nobody uses: for the process that   *)
(* waits for it, or for nobody.                                            *)
(***************************************************************************)
LEMMA TakeUse ==
  ASSUME TypeOK, SlotInv, UseInv, NEW c \in Clients, NEW s \in Slots, TakeSlot(s), MutexFree,
         \A t \in Slots : t # s => usr'[t] = usr[t],
         \A d \in Clients : Registered(d) =>
           Registered(d)' /\ clientJournals[d].users \subseteq clientJournals'[d].users,
         UNCHANGED <<proc, commPc, commIdx>>, serving' => serving,
         \/ usr'[s] = usr[s] /\ (serving' => Owned(s)')
         \/ /\ usr'[s].owner = c /\ usr'[s].call = "fill" /\ proc[c] = "up"
            /\ Registered(c)' /\ s \in clientJournals'[c].users
            /\ \A t \in Slots : usr[t].owner = c => ~Busy(t)
  PROVE  UseInv'
<1>1. comm[s].status = "RAW"
  BY DEF TakeSlot, FirstRaw
<1>2. /\ comm'[s].status = "OCCUPIED" /\ comm'[s].last_page_num = 0
      /\ \A t \in Slots : t # s => comm'[t] = comm[t]
  <2>1. comm' = [comm EXCEPT ![s] = [comm[s] EXCEPT !.status = "OCCUPIED", !.last_page_num = 0]]
    BY DEF TakeSlot, TypeOK
  <2>2. QED
    BY <2>1 DEF TypeOK, PageCommMsg
<1>3. NoClient \notin Clients /\ NoClient \notin WriterClients
  BY PageEngineAssumption
<1>4. usr[s].owner = NoClient /\ usr[s].call = "none"
  <2>1. UserOK(s)
    BY DEF UseInv
  <2>2. usr[s].owner \in Clients \cup {NoClient}
    BY DEF TypeOK, JournalUser
  <2>3. usr[s].owner = NoClient
    BY <1>1, <2>1, <2>2 DEF UserOK, SlotInv, OwnedNotRaw
  <2>4. QED
    BY <2>1, <2>3 DEF UserOK
<1>5. UserOK(s)' /\ StatusOK(s)' /\ WriterOK(s)'
  <2>1. CASE usr'[s] = usr[s] /\ (serving' => Owned(s)')
    BY <1>2, <1>3, <1>4, <2>1 DEF UserOK, StatusOK, WriterOK, Requesting
  <2>2. CASE /\ usr'[s].owner = c /\ usr'[s].call = "fill" /\ proc[c] = "up"
             /\ Registered(c)' /\ s \in clientJournals'[c].users
    <3>1. Owned(s)'
      BY <2>2 DEF Owned
    <3>2. QED
      BY <1>2, <1>3, <2>2, <3>1 DEF UserOK, StatusOK, WriterOK, Requesting
  <2>3. QED
    BY <2>1, <2>2
<1>6. ASSUME NEW t \in Slots, t # s PROVE UserOK(t)' /\ StatusOK(t)' /\ WriterOK(t)'
  <2>1. UserOK(t) /\ StatusOK(t) /\ WriterOK(t)
    BY DEF UseInv
  <2>2. (Owned(t) => Owned(t)') /\ (Served(t) => Served(t)')
    BY DEF Owned, Served
  <2>3. usr[t].owner \in Clients \cup {NoClient}
    BY DEF TypeOK, JournalUser
  <2>4. QED
    BY <1>2, <1>6, <2>1, <2>2, <2>3, SlotKept
<1>7. OneBusy'
  <2>1. CASE usr'[s] = usr[s]
    BY <1>4, <2>1, OneBusyKept DEF UseInv
  <2>2. CASE usr'[s].owner = c /\ \A t \in Slots : usr[t].owner = c => ~Busy(t)
    <3>1. \A t \in Slots : usr'[t].owner = usr'[s].owner /\ t # s => ~Busy(t)'
      BY <2>2 DEF Busy
    <3>2. QED
      BY <3>1, OneBusyKept DEF UseInv
  <2>3. QED
    BY <2>1, <2>2
<1>8. ServedInv'
  BY <1>1, <1>2 DEF UseInv, ServedInv, Requesting, MutexFree, TypeOK
<1>9. QED
  BY <1>5, <1>6, <1>7, <1>8 DEF UseInv

LEMMA RegJournalUse ==
  ASSUME TypeOK, SlotInv, PendingInv, UseInv, NEW c \in Clients, NEW h \in 1 .. MaxGen,
         NEW j \in Journals, NEW s \in Slots, RegJournal(c, h, j, s)
  PROVE  UseInv'
<1> USE DEF commThread, pageVars
<1>1. /\ MutexFree /\ serving /\ TakeSlot(s) /\ <<c, h, j>> \in regMsgs
      /\ UNCHANGED <<proc, commPc, commIdx>>
  BY DEF RegJournal, GiveSlot, TakesRequest, MutexFree
<1>2. /\ Registered(c)' /\ s \in clientJournals'[c].users
      /\ \A d \in Clients : Registered(d) =>
           Registered(d)' /\ clientJournals[d].users \subseteq clientJournals'[d].users
  BY RegJournalEntry, NoClientAssumption DEF Registered
<1>3. CASE Waits(c, h)
  <2>1. \A t \in Slots : usr[t].owner = c => ~Busy(t)
    BY <1>1, <1>3 DEF PendingInv
  <2>2. usr' = [usr EXCEPT ![s] = [NoUser EXCEPT !.owner = c, !.journal = j, !.call = "fill"]]
    BY <1>3 DEF RegJournal, GiveSlot
  <2>3. /\ usr'[s].owner = c /\ usr'[s].call = "fill"
        /\ \A t \in Slots : t # s => usr'[t] = usr[t]
    BY <2>2 DEF TypeOK, NoUser
  <2>4. proc[c] = "up" /\ (serving' => serving)
    BY <1>1, <1>3 DEF Waits
  <2>5. QED
    BY <1>1, <1>2, <2>1, <2>3, <2>4, TakeUse
<1>4. CASE ~Waits(c, h)
  <2>1. UNCHANGED usr /\ Owned(s)'
    BY <1>2, <1>4 DEF RegJournal, GiveSlot, Owned
  <2>2. QED
    BY <1>1, <1>2, <2>1, TakeUse
<1>5. QED
  BY <1>3, <1>4

(* A process that runs is in the map, so no process waits for the answer of an unknown client. *)
LEMMA UnknownUse ==
  ASSUME TypeOK, SlotInv, ExitInv, UseInv, NEW c \in Clients, NEW h, NEW j, NEW s \in Slots,
         RegJournalUnknown(c, h, j, s)
  PROVE  UseInv'
<1> USE DEF commThread, pageVars
<1>1. ~Waits(c, h)
  BY DEF RegJournalUnknown, Waits, ExitInv
<1>2. /\ MutexFree /\ TakeSlot(s) /\ serving' = FALSE
      /\ UNCHANGED <<proc, usr, clientJournals, commPc, commIdx>>
  BY <1>1 DEF RegJournalUnknown, TakesRequest, AnswerFailure
<1>3. \A d \in Clients : Registered(d) =>
        Registered(d)' /\ clientJournals[d].users \subseteq clientJournals'[d].users
  BY <1>2 DEF Registered
<1>4. QED
  BY <1>2, <1>3, TakeUse

(* register_journal finds its slot OCCUPIED and fills it. *)
LEMMA FillUse ==
  ASSUME TypeOK, UseInv, NEW s \in Slots, FillSlot(s)
  PROVE  /\ comm[s].status = "OCCUPIED" /\ comm'[s].status = "HOLDING"
         /\ \A t \in Slots : t # s => comm'[t] = comm[t]
         /\ UseInv'
<1> USE DEF commThread, pageVars
<1>1. UserOK(s) /\ StatusOK(s) /\ WriterOK(s)
  BY DEF UseInv
<1>2. comm[s].status = "OCCUPIED" /\ usr[s].call = "fill"
  BY <1>1 DEF FillSlot, StatusOK
<1>3. comm' = [comm EXCEPT ![s].journal = usr[s].journal,
                           ![s].is_writer = usr[s].owner \in WriterClients,
                           ![s].status = "HOLDING"]
  BY <1>2 DEF FillSlot
<1> DEFINE w == usr[s].owner \in WriterClients
<1>4. /\ comm[s] \in PageCommMsg /\ w \in BOOLEAN
      /\ comm'[s] = [comm[s] EXCEPT !.journal = usr[s].journal, !.is_writer = w, !.status = "HOLDING"]
  BY <1>3 DEF TypeOK
<1>5. /\ comm'[s].status = "HOLDING" /\ comm'[s].last_page_num = comm[s].last_page_num
      /\ comm'[s].is_writer <=> usr[s].owner \in WriterClients
  <2> HIDE DEF w
  <2>1. /\ comm'[s].status = "HOLDING" /\ comm'[s].last_page_num = comm[s].last_page_num
        /\ comm'[s].is_writer = w
    BY <1>4 DEF PageCommMsg
  <2>2. QED
    BY <2>1 DEF w
<1>6. \A t \in Slots : t # s => comm'[t] = comm[t]
  BY <1>3 DEF TypeOK
<1>7. usr'[s] = [usr[s] EXCEPT !.call = "list"] /\ \A t \in Slots : t # s => usr'[t] = usr[t]
  BY <1>2 DEF FillSlot, TypeOK
<1>8. usr'[s].call = "list" /\ usr'[s].owner = usr[s].owner
  BY <1>7 DEF TypeOK, JournalUser
<1>9. UNCHANGED <<proc, clientJournals, serving, commPc, commIdx>>
  BY <1>2 DEF FillSlot
<1>16. \A t \in Slots : Served(t)' <=> Served(t)
  BY <1>9 DEF Served
<1>10. UserOK(s)'
  <2>1. Owned(s)' <=> Owned(s)
    BY <1>9 DEF Owned, Registered
  <2>2. usr[s].owner # NoClient /\ Owned(s)
    BY <1>1, <1>2 DEF UserOK, Owned, FillSlot
  <2>3. QED
    BY <1>1, <1>2, <1>5, <1>8, <1>9, <2>1, <2>2 DEF UserOK, Requesting, Registered
<1>11. StatusOK(s)' /\ WriterOK(s)'
  BY <1>1, <1>2, <1>5, <1>8 DEF StatusOK, WriterOK
<1>12. \A t \in Slots : UserOK(t)' /\ StatusOK(t)' /\ WriterOK(t)'
  BY <1>6, <1>7, <1>9, <1>10, <1>11, <1>16, OneSlotKept
<1>13. OneBusy'
  BY <1>7, <1>8, OneBusyKept DEF UseInv
<1>14. ServedInv'
  BY <1>2, <1>6, <1>9 DEF UseInv, ServedInv, Requesting, TypeOK
<1>15. QED
  BY <1>2, <1>5, <1>6, <1>12, <1>13, <1>14 DEF UseInv

(* Nothing happens to the slots, their users and the map. *)
LEMMA QuietUse ==
  ASSUME UseInv, UNCHANGED <<comm, usr, proc, clientJournals, commPc, commIdx>>, serving' => serving
  PROVE  UseInv'
BY DEF UseInv, UserOK, StatusOK, WriterOK, OneBusy, Busy, ServedInv, Served, Requesting, Registered, Owned

(* Whoever waits for a request of his to the socket, or for nothing, has no other. *)
LEMMA NotRequesting ==
  ASSUME UseInv, NEW c, \A s \in Slots : usr[s].owner = c => ~Busy(s)
  PROVE  \A s \in Slots : usr[s].owner = c => ~Requesting(s)
BY DEF Busy, UseInv, UserOK, PageCalls

LEMMA UseSocket == TypeOK /\ SlotInv /\ ExitInv /\ PendingInv /\ UseInv /\ SocketNext => UseInv'
<1> SUFFICES ASSUME TypeOK, SlotInv, ExitInv, PendingInv, UseInv, SocketNext PROVE UseInv'
  OBVIOUS
<1> USE DEF serverVars, commThread, pageVars
<1>1. ASSUME NEW c \in Clients, NEW h \in 1 .. MaxGen, NEW j \in Journals, RegJournalFull(c, h, j)
      PROVE  UseInv'
  <2>1. /\ <<c, h, j>> \in regMsgs /\ AnswerFailure(c, h)
        /\ UNCHANGED <<comm, clientJournals, commThread, usr>>
    BY <1>1 DEF RegJournalFull, TakesRequest
  <2>2. CASE Waits(c, h)
    <3>1. \A s \in Slots : usr[s].owner = c => ~Busy(s)
      BY <2>1, <2>2 DEF PendingInv
    <3>2. SendExit(c) /\ UNCHANGED serving
      BY <2>1, <2>2 DEF AnswerFailure
    <3>3. QED
      BY <2>1, <3>1, <3>2, NotRequesting, SendExitUse
  <2>3. CASE ~Waits(c, h)
    BY <2>1, <2>3, QuietUse DEF AnswerFailure
  <2>4. QED
    BY <2>2, <2>3
<1>2. ASSUME NEW c \in Clients, RegisterStrategy(c) PROVE UseInv'
  <2>1. UNCHANGED <<comm, usr, proc, serving, commPc, commIdx>>
    BY <1>2 DEF RegisterStrategy, clientVars
  <2>2. \A d \in Clients : /\ Registered(d)' <=> Registered(d)
                           /\ Registered(d) => clientJournals'[d].users = clientJournals[d].users
    BY <1>2, RegisterStrategyEntry, NoClientAssumption DEF Registered
  <2>3. ASSUME NEW s \in Slots PROVE UserOK(s)' /\ StatusOK(s)' /\ WriterOK(s)'
    <3>1. UserOK(s) /\ StatusOK(s) /\ WriterOK(s)
      BY DEF UseInv
    <3>2. (Owned(s) => Owned(s)') /\ (Served(s) => Served(s)')
      BY <2>1, <2>2 DEF Owned, Served
    <3>3. usr[s].owner \in Clients \cup {NoClient}
      BY DEF TypeOK, JournalUser
    <3>4. QED
      BY <2>1, <2>2, <3>1, <3>2, <3>3, SlotKept
  <2>4. QED
    BY <2>1, <2>3 DEF UseInv, OneBusy, Busy, ServedInv, Requesting
<1>3. ASSUME NEW c \in Clients, NEW h \in 1 .. MaxGen, HandleExit(c, h) PROVE UseInv'
  <2>1. <<c, h>> \in exitMsgs /\ (h = gen[c] => proc[c] # "up")
    BY <1>3 DEF HandleExit, ExitInv
  <2>2. \A s \in Slots : usr[s].owner = c => Registered(c) /\ proc[c] # "down"
    BY PageEngineAssumption DEF UseInv, UserOK
  <2>3. UNCHANGED commThread /\ MutexFree /\ (serving' => serving)
    BY <1>3 DEF HandleExit, MutexFree
  <2>4. CASE HashMatches(c, h)
    <3>1. Registered(c) /\ h = gen[c] /\ proc[c] # "up"
      BY <2>1, <2>4 DEF HashMatches, ExitInv
    <3>2. \A s \in Slots : usr'[s] = IF usr[s].owner \in {c} THEN NoUser ELSE usr[s]
      <4>1. CASE proc[c] = "exiting"
        BY <1>3, <3>1, <4>1 DEF HandleExit, Gone
      <4>2. CASE proc[c] = "down"
        BY <1>3, <2>2, <4>2 DEF HandleExit
      <4>3. QED
        BY <3>1, <4>1, <4>2 DEF TypeOK
    <3>3. \A d \in Clients : d \notin {c} => proc'[d] = proc[d]
      BY <1>3 DEF HandleExit, TypeOK
    <3>4. ExitClients({c}) /\ {c} \in SUBSET Clients
      BY <1>3, <2>4 DEF HandleExit
    <3>5. \A d \in {c} : Registered(d) /\ proc[d] # "up"
      BY <3>1
    <3>6. QED
      BY <2>3, <3>2, <3>3, <3>4, <3>5, ExitClientsUse
  <2>5. CASE ~HashMatches(c, h)
    <3>1. UNCHANGED <<comm, clientJournals>>
      BY <1>3, <2>5 DEF HandleExit
    <3>2. CASE proc[c] = "exiting" /\ gen[c] = h
      <4>1. ~Registered(c)
        BY <2>5, <3>2 DEF HashMatches, ExitInv
      <4>2. \A s \in Slots : usr[s].owner # c
        BY <2>2, <4>1
      <4>3. proc' = [proc EXCEPT ![c] = "down"] /\ usr' = Gone(c)
        BY <1>3, <3>2 DEF HandleExit
      <4>4. QED
        BY <2>3, <3>1, <4>2, <4>3, GoneUse
    <3>3. CASE ~(proc[c] = "exiting" /\ gen[c] = h)
      <4>1. UNCHANGED <<comm, clientJournals, proc, usr, commPc, commIdx>>
        BY <1>3, <2>3, <3>1, <3>3 DEF HandleExit
      <4>2. QED
        BY <2>3, <4>1, QuietUse
    <3>4. QED
      BY <3>2, <3>3
  <2>6. QED
    BY <2>4, <2>5
<1>4. QED
  BY <1>1, <1>2, <1>3, JoinUse, RegJournalUse, UnknownUse DEF SocketNext

(* The requests of a client. *)
LEMMA UseAsk ==
  ASSUME TypeOK, UseInv, NEW s \in Slots
  PROVE  /\ WriterSeekEnd(s) => UseInv'
         /\ \A p \in 1 .. MaxPage : ReaderSeek(s, p) => UseInv'
         /\ LoadNextPage(s) => UseInv'
         /\ Expire(s) => UseInv'
<1> USE DEF serverVars, commThread, clientVars, pageVars
<1>1. usr[s] \in JournalUser /\ usr[s].cur \in Int /\ usr[s].target \in Int
  BY DEF TypeOK, JournalUser, PageNums
<1>2. UserOK(s)
  BY DEF UseInv
<1>3. ASSUME NEW call \in {"seek", "next"}, NEW p, AskPage(s, call, p), usr[s].owner # NoClient,
             Idle(usr[s].owner),
             usr[s].owner \in WriterClients =>
               p > 0 /\ (call = "next" => p = usr[s].cur + 1 /\ usr[s].cur > 0)
      PROVE  UseInv'
  <2> DEFINE u == [usr[s] EXCEPT !.call = call, !.target = 0]
  <2>1. u.owner = usr[s].owner /\ u.call = call /\ u.cur = usr[s].cur
    BY <1>1 DEF JournalUser
  <2>2. usr' = [usr EXCEPT ![s] = u]
    BY <1>3 DEF AskPage, TypeOK
  <2>3. UNCHANGED <<proc, clientJournals, serving, commPc, commIdx>>
        /\ comm' = [comm EXCEPT ![s].page_num = p, ![s].status = "REQUESTING"]
    BY <1>3 DEF AskPage
  <2> HIDE DEF u
  <2>4. u.call \in PageCalls /\ u.call # "expire"
    BY <1>3, <2>1 DEF PageCalls
  <2>5. QED
    BY <1>3, <2>1, <2>2, <2>3, <2>4, AskUse
<1>4. ASSUME WriterSeekEnd(s) PROVE UseInv'
  <2>1. usr[s].owner # NoClient
    BY <1>2, <1>4 DEF WriterSeekEnd, UserOK
  <2>2. QED
    BY <1>3, <1>4, <2>1 DEF WriterSeekEnd
<1>5. ASSUME NEW p \in 1 .. MaxPage, ReaderSeek(s, p) PROVE UseInv'
  <2>1. usr[s].owner # NoClient /\ usr[s].owner \notin WriterClients
    BY <1>5, PageEngineAssumption DEF ReaderSeek
  <2>2. QED
    BY <1>3, <1>5, <2>1 DEF ReaderSeek
<1>6. ASSUME LoadNextPage(s) PROVE UseInv'
  <2>1. usr[s].owner # NoClient /\ Idle(usr[s].owner)
    BY <1>6, PageEngineAssumption DEF LoadNextPage, CanLoadNext
  <2>2. usr[s].owner \in WriterClients => usr[s].cur > 0
    BY <1>6 DEF LoadNextPage, CanLoadNext
  <2>3. usr[s].owner \in WriterClients => usr[s].cur + 1 > 0
    BY <1>1, <2>2
  <2>4. QED
    BY <1>3, <1>6, <2>1, <2>2, <2>3 DEF LoadNextPage
<1>7. ASSUME Expire(s) PROVE UseInv'
  <2> DEFINE u == [usr[s] EXCEPT !.call = "expire", !.expired = TRUE, !.cur = 0]
  <2>1. u.owner = usr[s].owner /\ u.call = "expire"
    BY <1>1 DEF JournalUser
  <2>2. usr' = [usr EXCEPT ![s] = u]
    BY <1>7 DEF Expire, TypeOK
  <2>3. /\ UNCHANGED <<proc, clientJournals, serving, commPc, commIdx>>
        /\ comm' = [comm EXCEPT ![s].page_num = -1, ![s].status = "REQUESTING"]
        /\ usr[s].owner # NoClient /\ usr[s].owner \notin WriterClients /\ Idle(usr[s].owner)
    BY <1>7, PageEngineAssumption DEF Expire
  <2> HIDE DEF u
  <2>4. u.call \in PageCalls
    BY <2>1 DEF PageCalls
  <2>5. QED
    BY <2>1, <2>2, <2>3, <2>4, AskUse
<1>8. QED
  BY <1>4, <1>5, <1>6, <1>7

(* The answers. *)
LEMMA UseAnswer ==
  ASSUME TypeOK, UseInv, NEW s \in Slots
  PROVE  /\ ListPages(s) => UseInv'
         /\ WriterGetsPage(s) => UseInv'
         /\ WriterRefused(s) => UseInv'
         /\ WriterLost(s) => UseInv'
         /\ ReaderGetsAnswer(s) => UseInv'
<1> USE DEF serverVars, commThread, pageVars
<1>1. usr[s] \in JournalUser /\ usr[s].owner \in Clients \cup {NoClient}
  BY DEF TypeOK, JournalUser
<1>2. UserOK(s) /\ StatusOK(s) /\ WriterOK(s)
  BY DEF UseInv
<1>3. ASSUME ListPages(s) PROVE UseInv'
  <2>1. usr[s].call = "list" /\ UNCHANGED <<comm, proc, clientJournals, serving, commThread>>
    BY <1>3 DEF ListPages
  <2>2. PICK p \in 1 .. MaxPage : usr' = [usr EXCEPT ![s].target = p]
    BY <1>3 DEF ListPages
  <2> DEFINE u == [usr[s] EXCEPT !.target = p]
  <2>3. u.owner = usr[s].owner /\ u.call = "list"
    BY <1>1, <2>1 DEF JournalUser
  <2>4. usr' = [usr EXCEPT ![s] = u]
    BY <2>2 DEF TypeOK
  <2>5. ~Requesting(s) /\ usr[s].owner # NoClient
    BY <1>2, <2>1 DEF UserOK, StatusOK, Requesting
  <2> HIDE DEF u
  <2>6. QED
    BY <2>1, <2>3, <2>4, <2>5, UserUse
<1>4. ASSUME Answered(s)
      PROVE  /\ usr[s].call \in PageCalls /\ usr[s].call # "fill" /\ usr[s].call # "none"
             /\ usr[s].owner # NoClient /\ usr[s].owner \in Clients /\ ~Requesting(s)
  BY <1>1, <1>2, <1>4 DEF Answered, UserOK, PageCalls
<1>5. ASSUME WriterGetsPage(s) PROVE UseInv'
  <2> DEFINE u == [usr[s] EXCEPT !.call = "none", !.cur = comm[s].page_num, !.expired = FALSE]
  <2>1. u.owner = usr[s].owner /\ u.call = "none" /\ u.cur = comm[s].page_num
    BY <1>1 DEF JournalUser
  <2>2. /\ usr' = [usr EXCEPT ![s] = u] /\ comm[s].status = "ALLOCATED" /\ Answered(s)
        /\ UNCHANGED <<comm, proc, clientJournals, serving, commThread>>
    BY <1>5 DEF WriterGetsPage, TypeOK
  <2> HIDE DEF u
  <2>3. QED
    BY <1>4, <2>1, <2>2, UserUse
<1>6. ASSUME WriterRefused(s) PROVE UseInv'
  <2>1. /\ Answered(s) /\ comm[s].status = "MORE_THAN_ONE_WRITE" /\ usr[s].owner \in WriterClients
        /\ UNCHANGED <<comm, clientJournals, serving, commThread>>
    BY <1>6 DEF WriterRefused
  <2>2. CASE usr[s].call = "seek"
    <3>1. SendExit(usr[s].owner) /\ usr' = [usr EXCEPT ![s].call = "failed"]
      BY <1>6, <2>2 DEF WriterRefused
    <3>2. \A t \in Slots :
            \/ usr'[t] = usr[t]
            \/ /\ usr[t].owner = usr[s].owner /\ usr[t].call \in PageCalls
               /\ usr'[t] = [usr[t] EXCEPT !.call = "failed"]
      BY <1>4, <2>1, <3>1 DEF TypeOK
    <3>3. \A t \in Slots : usr[t].owner = usr[s].owner => ~Requesting(t)
      <4>1. \A t \in Slots : Requesting(t) => Busy(t)
        BY DEF UseInv, UserOK, Busy, PageCalls
      <4>2. Busy(s)
        BY <2>2 DEF Busy
      <4>3. QED
        BY <1>4, <2>1, <4>1, <4>2 DEF UseInv, OneBusy
    <3>4. QED
      BY <1>4, <2>1, <3>1, <3>2, <3>3, SendExitUse
  <2>3. CASE usr[s].call # "seek"
    <3> DEFINE u == [usr[s] EXCEPT !.call = "none"]
    <3>1. u.owner = usr[s].owner /\ u.call = "none" /\ u.cur = usr[s].cur
      BY <1>1 DEF JournalUser
    <3>2. usr' = [usr EXCEPT ![s] = u] /\ UNCHANGED proc
      BY <1>6, <2>3 DEF WriterRefused, TypeOK
    <3> HIDE DEF u
    <3>3. usr[s].call = "next"
      BY <1>2, <1>4, <2>1, <2>3 DEF WriterOK, PageCalls
    <3>4. comm[s].page_num = u.cur + 1
      BY <1>2, <2>1, <3>1, <3>3 DEF WriterOK
    <3>5. QED
      BY <1>4, <2>1, <3>1, <3>2, <3>4, UserUse
  <2>4. QED
    BY <2>2, <2>3
<1>7. ASSUME WriterLost(s) PROVE UseInv'
  <2>1. Answered(s) /\ UNCHANGED <<comm, clientJournals, serving, commThread>>
    BY <1>7 DEF WriterLost
  <2>2. CASE usr[s].call = "seek"
    <3> DEFINE u == [usr[s] EXCEPT !.call = "none", !.cur = 0, !.expired = TRUE]
    <3>1. u.owner = usr[s].owner /\ u.call = "none" /\ u.expired
      BY <1>1 DEF JournalUser
    <3>2. usr' = [usr EXCEPT ![s] = u] /\ UNCHANGED proc
      BY <1>7, <2>2 DEF WriterLost, TypeOK
    <3> HIDE DEF u
    <3>3. QED
      BY <1>4, <2>1, <3>1, <3>2, UserUse
  <2>3. CASE usr[s].call # "seek"
    <3>1. proc' = [proc EXCEPT ![usr[s].owner] = "down"] /\ usr' = Gone(usr[s].owner)
      BY <1>7, <2>3 DEF WriterLost
    <3>2. \A t \in Slots : usr[t].owner = usr[s].owner => ~Requesting(t)
      <4>1. \A t \in Slots : Requesting(t) => Busy(t)
        BY DEF UseInv, UserOK, Busy, PageCalls
      <4>2. Busy(s)
        BY <1>4, <2>1 DEF Busy, PageCalls
      <4>3. QED
        BY <1>4, <2>1, <4>1, <4>2 DEF UseInv, OneBusy
    <3>3. QED
      BY <1>4, <2>1, <3>1, <3>2, GoneUse
  <2>4. QED
    BY <2>2, <2>3
<1>8. ASSUME ReaderGetsAnswer(s) PROVE UseInv'
  <2>1. /\ Answered(s) /\ usr[s].owner \notin WriterClients
        /\ UNCHANGED <<comm, proc, clientJournals, serving, commThread>>
    BY <1>8 DEF ReaderGetsAnswer
  <2>2. PICK page, expired :
          usr' = [usr EXCEPT ![s].call = "none", ![s].cur = page, ![s].expired = expired]
    BY <1>8 DEF ReaderGetsAnswer
  <2> DEFINE u == [usr[s] EXCEPT !.call = "none", !.cur = page, !.expired = expired]
  <2>3. u.owner = usr[s].owner /\ u.call = "none"
    BY <1>1 DEF JournalUser
  <2>4. usr' = [usr EXCEPT ![s] = u]
    BY <2>2 DEF TypeOK
  <2> HIDE DEF u
  <2>5. QED
    BY <1>4, <2>1, <2>3, <2>4, UserUse
<1>9. QED
  BY <1>3, <1>5, <1>6, <1>7, <1>8

LEMMA UseNext ==
  ASSUME DieRequesting = FALSE
  PROVE  TypeOK /\ SlotInv /\ ExitInv /\ PendingInv /\ UseInv /\ [Next]_vars => UseInv'
<1> SUFFICES ASSUME TypeOK, SlotInv, ExitInv, PendingInv, UseInv, [Next]_vars PROVE UseInv'
  OBVIOUS
<1> USE DEF serverVars, commThread, clientVars, pageVars
<1>1. CASE SocketNext
  BY <1>1, UseSocket
<1>2. CASE ClientNext
  <2>1. ASSUME NEW s \in Slots, FillSlot(s) PROVE UseInv'
    BY <2>1, FillUse
  <2>2. ASSUME NEW c \in Clients, Die(c) PROVE UseInv'
    <3>1. /\ proc' = [proc EXCEPT ![c] = "down"] /\ usr' = Gone(c)
          /\ UNCHANGED <<comm, clientJournals, serving, commThread>>
          /\ \A s \in Slots : usr[s].owner = c => ~Requesting(s)
      BY <2>2 DEF Die, UsersOf
    <3>2. QED
      BY <3>1, GoneUse
  <2>3. ASSUME NEW c \in Clients, NEW j \in Journals, AddJournal(c, j) PROVE UseInv'
    BY <2>3, QuietUse DEF AddJournal
  <2>4. ASSUME NEW c \in Clients, ExitRequest(c) PROVE UseInv'
    <3>1. \A s \in Slots : usr[s].owner = c => ~Busy(s)
      BY <2>4 DEF ExitRequest, Idle, UsersOf, Busy
    <3>2. QED
      BY <2>4, <3>1, NotRequesting, SendExitUse DEF ExitRequest
  <2>5. QED
    BY <1>2, <2>1, <2>2, <2>3, <2>4, UseAsk, UseAnswer DEF ClientNext
<1>4. ASSUME NEW s \in Slots, CommScan(s) PROVE UseInv'
  <2>1. /\ UNCHANGED <<comm, usr, proc, clientJournals, serving>> /\ Requesting(s)
        /\ commPc = "scan" /\ commPc' = "demand" /\ commIdx' = s
    BY <1>4 DEF CommScan
  <2>2. \A t \in Slots : UserOK(t)' /\ StatusOK(t)' /\ WriterOK(t)'
    BY <2>1 DEF UseInv, UserOK, StatusOK, WriterOK, Served, Requesting, Registered, Owned
  <2>3. OneBusy' /\ ServedInv'
    BY <2>1 DEF UseInv, OneBusy, Busy, ServedInv, Requesting
  <2>4. QED
    BY <2>2, <2>3 DEF UseInv
<1>5. CASE CommServe
  BY <1>5, ServeUse
<1>3. CASE CommRemember
  BY <1>3, RememberUse
<1>6. CASE PidCheck
  <2> DEFINE cs == {c \in Clients : Dead(c)}
  <2>1. ExitClients(cs) /\ MutexFree /\ UNCHANGED <<proc, usr, serving, commThread>>
    BY <1>6 DEF PidCheck
  <2>2. \A c \in cs : Registered(c) /\ proc[c] = "down"
    BY DEF Dead
  <2>3. \A s \in Slots : usr[s].owner \notin cs
    BY <2>2, PageEngineAssumption DEF UseInv, UserOK
  <2> HIDE DEF cs
  <2>4. cs \in SUBSET Clients
    BY DEF cs
  <2>5. QED
    BY <2>1, <2>2, <2>3, <2>4, ExitClientsUse
<1>7. CASE TempPage \/ UNCHANGED vars
  BY <1>7, QuietUse DEF TempPage, vars
<1>8. QED
  BY <1>1, <1>2, <1>3, <1>4, <1>5, <1>6, <1>7 DEF Next, ServiceNext

LEMMA UseInit == Init => UseInv
<1> SUFFICES ASSUME Init PROVE UseInv
  OBVIOUS
<1>1. NoClient \notin WriterClients
  BY PageEngineAssumption
<1>2. \A s \in Slots : UserOK(s) /\ StatusOK(s) /\ WriterOK(s)
  BY <1>1 DEF Init, RawMsg, NoUser, UserOK, StatusOK, WriterOK, Requesting
<1>3. OneBusy /\ ServedInv
  BY DEF Init, NoUser, OneBusy, ServedInv
<1>4. QED
  BY <1>2, <1>3 DEF UseInv

LEMMA UseInvariant ==
  ASSUME DieRequesting = FALSE
  PROVE  Spec => []UseInv
BY UseInit, UseNext, TypeCorrect, SlotInvariant, ExitInvariant, PendingInvariant, PTL DEF Spec

(***************************************************************************)
(* If no process dies while it waits for a page, a slot that nobody owns   *)
(* is RAW, so reg_journal finds every slot that is free: it loses the slot *)
(* it takes for an unknown client, and the service ends with that.         *)
(***************************************************************************)
THEOREM FreeSlotsRaw ==
  ASSUME DieRequesting = FALSE
  PROVE  Spec => []UnownedSlotsRaw
<1>1. UseInv => UnownedSlotsRaw
  BY DEF UseInv, UserOK, UnownedSlotsRaw
<1>2. QED
  BY <1>1, UseInvariant, PTL

-----------------------------------------------------------------------------
(* The counts of writers.                                                  *)

(* A release of messages that are not of a writer of k leaves its count, ... *)
LEMMA ReleaseOthers ==
  ASSUME NEW st \in Store, NEW S \in SUBSET Slots, NEW msgs \in [S -> PageCommMsg], NEW k \in Keys,
         \A x \in S : ~(msgs[x].is_writer /\ KeyOf(msgs[x]) = k)
  PROVE  Release(st, msgs).fileWriterCounts[k] = st.fileWriterCounts[k]
<1>1. {x \in DOMAIN msgs : msgs[x].is_writer = TRUE /\ KeyOf(msgs[x]) = k} = {}
  OBVIOUS
<1>2. Releasing(msgs, TRUE, k) = 0
  BY <1>1, FS_EmptySet DEF Releasing
<1>3. st.fileWriterCounts[k] \in Nat
  BY DEF Store
<1>4. WritersAfter(st, msgs)[k] = st.fileWriterCounts[k]
  <2>1. WritersAfter(st, msgs)[k] = CountAfter(st.fileWriterCounts[k], 0)
    BY <1>2 DEF WritersAfter
  <2>2. \A n \in Nat : CountAfter(n, 0) = n
    BY DEF CountAfter
  <2>3. QED
    BY <1>3, <2>1, <2>2
<1>5. QED
  BY <1>4 DEF Release, Store

(* ... and one of its only writer takes it to zero. *)
LEMMA ReleaseWriter ==
  ASSUME NEW st \in Store, NEW S \in SUBSET Slots, NEW msgs \in [S -> PageCommMsg], NEW k \in Keys,
         NEW s \in S, msgs[s].is_writer, KeyOf(msgs[s]) = k, st.fileWriterCounts[k] = 1
  PROVE  Release(st, msgs).fileWriterCounts[k] = 0
<1> DEFINE R == {x \in DOMAIN msgs : msgs[x].is_writer = TRUE /\ KeyOf(msgs[x]) = k}
<1>1. s \in R
  BY DEF PageCommMsg
<1>2. IsFiniteSet(R)
  <2>1. IsFiniteSet(Slots)
    BY FS_Interval, PageEngineAssumption DEF Slots
  <2>2. R \subseteq Slots
    OBVIOUS
  <2>3. QED
    BY <2>1, <2>2, FS_Subset
<1>3. Releasing(msgs, TRUE, k) = Cardinality(R)
  BY DEF Releasing
<1> HIDE DEF R
<1>4. Cardinality(R) \in Nat /\ Cardinality(R) # 0
  BY <1>1, <1>2, FS_CardinalityType, FS_EmptySet
<1>5. WritersAfter(st, msgs)[k] = 0
  <2>1. WritersAfter(st, msgs)[k] = CountAfter(1, Cardinality(R))
    BY <1>3 DEF WritersAfter
  <2>2. \A n \in Nat : n # 0 => CountAfter(1, n) = 0
    BY DEF CountAfter
  <2>3. QED
    BY <1>4, <2>1, <2>2
<1>6. QED
  BY <1>5 DEF Release, Store

(* A page is given to a writer only when nobody is counted on it. *)
LEMMA InitiateWriters ==
  ASSUME NEW st \in Store, NEW msg \in PageCommMsg, NEW renamed, NEW status,
         status = InitiateStatus(st, msg, renamed)
  PROVE  /\ status = "ALLOCATED" /\ msg.is_writer => st.fileWriterCounts[KeyOf(msg)] = 0
         /\ \A k \in Keys :
              InitiateStore(st, msg, status).fileWriterCounts[k]
                = IF status = "ALLOCATED" /\ msg.is_writer /\ k = KeyOf(msg)
                  THEN 1 ELSE st.fileWriterCounts[k]
<1>1. KeyOf(msg) \in Keys
  BY DEF KeyOf, PageCommMsg, Keys
<1>2. st.fileWriterCounts \in [Keys -> Nat]
  BY DEF Store
<1>3. status = "ALLOCATED" /\ msg.is_writer => st.fileWriterCounts[KeyOf(msg)] = 0
  BY <1>1, <1>2 DEF InitiateStatus
<1>4. CASE status \in {"NON_EXIST", "CANNOT_RENAME_FROM_TEMP"}
  BY <1>3, <1>4 DEF InitiateStore
<1>5. CASE status \notin {"NON_EXIST", "CANNOT_RENAME_FROM_TEMP"}
  <2>1. InitiateStore(st, msg, status).fileWriterCounts = WritersWith(st, msg, status)
    BY <1>5 DEF InitiateStore
  <2>2. QED
    BY <1>1, <1>2, <1>3, <2>1 DEF WritersWith
<1>6. QED
  BY <1>4, <1>5

(***************************************************************************)
(* A slot writes the page it was given, until the service releases it:     *)
(* when the writer goes on, that is in its next request.                   *)
(***************************************************************************)
Writes(s) ==
  /\ comm[s].is_writer
  /\ \/ comm[s].status = "ALLOCATED"
     \/ /\ Requesting(s) /\ ~Served(s)
        /\ comm[s].last_page_num > 0 /\ comm[s].last_page_num # comm[s].page_num
Held(s) ==
  <<comm[s].journal, IF Holding(s) THEN comm[s].page_num ELSE comm[s].last_page_num>>

(***************************************************************************)
(* The count of a page is the number of its writers, and that is at most   *)
(* one; a page whose writer overtook the comm thread counts as one it has  *)
(* no more.                                                                *)
(***************************************************************************)
Kept(k) == (\E s \in Slots : Writes(s) /\ Held(s) = k) \/ k \in overtaken
CountInv ==
  /\ \A s, t \in Slots : s # t /\ Writes(s) /\ Writes(t) => Held(s) # Held(t)
  /\ \A s \in Slots : Writes(s) => Held(s) \notin overtaken
  /\ \A k \in Keys : store.fileWriterCounts[k] = IF Kept(k) THEN 1 ELSE 0

(* What leaves the writers and the counts as they are. *)
LEMMA CountKept ==
  ASSUME CountInv,
         \A s \in Slots : Writes(s)' <=> Writes(s),
         \A s \in Slots : Writes(s) => Held(s)' = Held(s), UNCHANGED overtaken,
         \A k \in Keys : store'.fileWriterCounts[k] = store.fileWriterCounts[k]
  PROVE  CountInv'
BY DEF CountInv, Kept

(* Nobody who leaves waits for a page. *)
LEMMA LeavingAnswered ==
  ASSUME TypeOK, SlotInv, UseInv, NEW cs \in SUBSET Clients,
         \A c \in cs : Registered(c) /\ proc[c] # "up"
  PROVE  \A s \in Leaving(cs) : s \in Slots /\ ~Requesting(s)
<1> SUFFICES ASSUME NEW c \in cs, NEW s \in clientJournals[c].users PROVE s \in Slots /\ ~Requesting(s)
  BY DEF Leaving
<1>1. s \in Slots
  BY RegisteredInfo
<1>2. ASSUME Requesting(s) PROVE FALSE
  <2>1. UserOK(s) /\ usr[s].owner \in Clients \cup {NoClient}
    BY <1>1 DEF UseInv, TypeOK, JournalUser
  <2>2. usr[s].owner = c
    BY <1>2, <2>1 DEF UserOK, SlotInv, SlotsOwnedOnce
  <2>3. QED
    BY <1>2, <2>1, <2>2 DEF UserOK
<1>3. QED
  BY <1>1, <1>2

(* exit_client takes off the counts of the writers that leave, and no others. *)
LEMMA ExitClientsCount ==
  ASSUME TypeOK, SlotInv, UseInv, CountInv, NEW cs \in SUBSET Clients, ExitClients(cs),
         \A c \in cs : Registered(c) /\ proc[c] # "up", UNCHANGED commThread
  PROVE  CountInv'
<1> DEFINE holding == {s \in Leaving(cs) : comm[s].status = "ALLOCATED"}
           msgs == [s \in holding |-> comm[s]]
<1>1. \A s \in Leaving(cs) : s \in Slots /\ ~Requesting(s)
  BY LeavingAnswered
<1>2. holding \in SUBSET Slots
  BY <1>1
<1>3. msgs \in [holding -> PageCommMsg]
  BY <1>2, HoldingMsgs
<1>4. store' = Release(store, msgs) /\ store \in Store
  BY DEF ExitClients, TypeOK
<1>5. \A s \in Slots : comm'[s] = IF s \in Leaving(cs) THEN [comm[s] EXCEPT !.status = "RAW"] ELSE comm[s]
  BY DEF ExitClients
<1>11. UNCHANGED overtaken /\ \A s \in Slots : Served(s)' <=> Served(s)
  BY DEF commThread, Served
<1>6. ASSUME NEW s \in Slots
      PROVE  /\ Writes(s)' <=> Writes(s) /\ s \notin Leaving(cs)
             /\ Writes(s)' => Held(s)' = Held(s)
             /\ Writes(s) /\ s \in Leaving(cs) => s \in holding
  <2>1. CASE s \in Leaving(cs)
    <3>1. comm[s] \in PageCommMsg
      BY DEF TypeOK
    <3>2. comm'[s].status = "RAW"
      BY <1>5, <2>1, <3>1 DEF PageCommMsg
    <3>3. QED
      BY <1>1, <2>1, <3>2 DEF Writes, Requesting
  <2>2. CASE s \notin Leaving(cs)
    BY <1>5, <1>11, <2>2 DEF Writes, Held, Holding, Requesting
  <2>3. QED
    BY <2>1, <2>2
<1>7. ASSUME NEW s \in holding
      PROVE  msgs[s] = comm[s] /\ KeyOf(msgs[s]) = Held(s) /\ (msgs[s].is_writer => Writes(s))
  BY <1>2 DEF Holding, KeyOf, Held, Writes
<1>8. /\ \A s, t \in Slots : s # t /\ Writes(s)' /\ Writes(t)' => Held(s)' # Held(t)'
      /\ \A s \in Slots : Writes(s)' => Held(s)' \notin overtaken'
  BY <1>6, <1>11 DEF CountInv
<1>9. ASSUME NEW k \in Keys
      PROVE  store'.fileWriterCounts[k] = IF Kept(k)' THEN 1 ELSE 0
  <2>1. CASE \E s \in holding : msgs[s].is_writer /\ KeyOf(msgs[s]) = k
    <3>1. PICK s \in holding : msgs[s].is_writer /\ KeyOf(msgs[s]) = k
      BY <2>1
    <3>2. s \in Slots /\ s \in Leaving(cs) /\ Writes(s) /\ Held(s) = k
      BY <1>2, <1>7, <3>1
    <3>3. store.fileWriterCounts[k] = 1 /\ k \notin overtaken
      BY <3>2 DEF CountInv, Kept
    <3> HIDE DEF holding, msgs
    <3>4. store'.fileWriterCounts[k] = 0
      BY <1>2, <1>3, <1>4, <3>1, <3>3, ReleaseWriter
    <3>5. ~\E t \in Slots : Writes(t)' /\ Held(t)' = k
      BY <1>6, <3>2 DEF CountInv
    <3>6. QED
      BY <1>11, <3>3, <3>4, <3>5 DEF Kept
  <2>2. CASE \A s \in holding : ~(msgs[s].is_writer /\ KeyOf(msgs[s]) = k)
    <3>1. store'.fileWriterCounts[k] = store.fileWriterCounts[k]
      <4> HIDE DEF holding, msgs
      <4>1. QED
        BY <1>2, <1>3, <1>4, <2>2, ReleaseOthers
    <3>2. \A s \in Slots : Writes(s) /\ Held(s) = k => s \notin Leaving(cs)
      <4>1. SUFFICES ASSUME NEW s \in holding, Writes(s), Held(s) = k PROVE FALSE
        BY <1>6
      <4>2. QED
        BY <1>7, <2>2, <4>1 DEF Writes
    <3>3. (\E s \in Slots : Writes(s)' /\ Held(s)' = k) <=> (\E s \in Slots : Writes(s) /\ Held(s) = k)
      BY <1>6, <3>2
    <3>4. QED
      BY <1>11, <3>1, <3>3 DEF CountInv, Kept
  <2>3. QED
    BY <2>1, <2>2
<1>10. QED
  BY <1>8, <1>9 DEF CountInv

(* The comm thread releases the page before, and nobody else's. *)
LEMMA ReleaseLastCount ==
  ASSUME TypeOK, CountInv, NEW s \in Slots, Requesting(s), ~Served(s), NEW k \in Keys
  PROVE  ReleaseLast(s).fileWriterCounts[k]
           = IF (\E t \in Slots : t # s /\ Writes(t) /\ Held(t) = k) \/ k \in overtaken
             THEN 1 ELSE 0
<1> DEFINE msgs == [x \in {s} |-> [comm[s] EXCEPT !.page_num = comm[s].last_page_num]]
<1>1. {s} \in SUBSET Slots /\ msgs \in [{s} -> PageCommMsg]
  BY ReleaseLastMsg
<1>2. msgs[s].is_writer = comm[s].is_writer /\ KeyOf(msgs[s]) = Held(s)
  <2>1. comm[s] \in PageCommMsg /\ ~Holding(s)
    BY DEF TypeOK, Requesting, Holding
  <2>2. QED
    BY <2>1 DEF PageCommMsg, KeyOf, Held
<1>3. store \in Store
  BY DEF TypeOK
<1>4. comm[s].status # "ALLOCATED"
  BY DEF Requesting
<1>8. store.fileWriterCounts[k] = IF Kept(k) THEN 1 ELSE 0
  BY DEF CountInv
<1> HIDE DEF msgs
<1>5. CASE comm[s].last_page_num > 0 /\ comm[s].last_page_num # comm[s].page_num
  <2>1. ReleaseLast(s) = Release(store, msgs)
    BY <1>5 DEF ReleaseLast, msgs
  <2>2. Writes(s) <=> comm[s].is_writer
    BY <1>4, <1>5 DEF Writes
  <2>3. CASE comm[s].is_writer /\ Held(s) = k
    <3>1. store.fileWriterCounts[k] = 1
      BY <1>8, <2>2, <2>3 DEF Kept
    <3>2. ReleaseLast(s).fileWriterCounts[k] = 0
      <4>1. s \in {s} /\ msgs[s].is_writer /\ KeyOf(msgs[s]) = k
        BY <1>2, <2>3
      <4>2. Release(store, msgs).fileWriterCounts[k] = 0
        BY ONLY <1>1, <1>3, <3>1, <4>1, k \in Keys, s \in Slots, ReleaseWriter
      <4>3. QED
        BY <2>1, <4>2
    <3>3. k \notin overtaken /\ ~\E t \in Slots : t # s /\ Writes(t) /\ Held(t) = k
      BY <2>2, <2>3 DEF CountInv
    <3>4. QED
      BY <3>2, <3>3
  <2>4. CASE ~(comm[s].is_writer /\ Held(s) = k)
    <3>1. \A x \in {s} : ~(msgs[x].is_writer /\ KeyOf(msgs[x]) = k)
      BY <1>2, <2>4
    <3>2. ReleaseLast(s).fileWriterCounts[k] = store.fileWriterCounts[k]
      BY <1>1, <1>3, <2>1, <3>1, ReleaseOthers
    <3>3. ~(Writes(s) /\ Held(s) = k)
      BY <2>2, <2>4
    <3>4. QED
      BY <1>8, <3>2, <3>3 DEF Kept
  <2>5. QED
    BY <2>3, <2>4
<1>6. CASE ~(comm[s].last_page_num > 0 /\ comm[s].last_page_num # comm[s].page_num)
  <2>1. ReleaseLast(s) = store
    BY <1>6 DEF ReleaseLast
  <2>2. ~Writes(s)
    BY <1>4, <1>6 DEF Writes
  <2>3. QED
    BY <1>8, <2>1, <2>2 DEF Kept
<1>7. QED
  BY <1>5, <1>6

LEMMA ServeCount ==
  ASSUME TypeOK, UseInv, CountInv, CommServe
  PROVE  CountInv'
<1> PICK s \in Slots : s = commIdx
  BY ServeDoes
<1> DEFINE msg == comm[s]
           key == KeyOf(msg)
<1>1. /\ Requesting(s) /\ UNCHANGED <<commIdx, overtaken>>
      /\ \A t \in Slots : ~Served(t) /\ (t # s => ~Served(t)')
  BY DEF CommServe, UseInv, ServedInv, Served
<1>2. PICK renamed \in RenameOutcomes :
        LET status == InitiateStatus(ReleaseLast(s), msg, renamed)
        IN  /\ store' = InitiateStore(ReleaseLast(s), msg, status)
            /\ comm' = [comm EXCEPT ![s].status = status]
  BY DEF CommServe
<1> DEFINE status == InitiateStatus(ReleaseLast(s), msg, renamed)
           given == status = "ALLOCATED" /\ msg.is_writer
           R(k) == (\E t \in Slots : t # s /\ Writes(t) /\ Held(t) = k) \/ k \in overtaken
<1>3. msg \in PageCommMsg /\ key \in Keys
  BY DEF TypeOK, PageCommMsg, KeyOf, Keys
<1>4. ReleaseLast(s) \in Store /\ \A k \in Keys :
        ReleaseLast(s).fileWriterCounts[k] = IF R(k) THEN 1 ELSE 0
  BY <1>1, ReleaseLastType, ReleaseLastCount
<1>5. /\ given => ReleaseLast(s).fileWriterCounts[key] = 0
      /\ \A k \in Keys : store'.fileWriterCounts[k] =
           IF given /\ k = key THEN 1 ELSE ReleaseLast(s).fileWriterCounts[k]
  BY <1>2, <1>3, <1>4, InitiateWriters
<1>6. /\ \A t \in Slots : t # s => (Writes(t)' <=> Writes(t)) /\ Held(t)' = Held(t)
      /\ Writes(s)' <=> given
      /\ given => Held(s)' = key
  <2>1. \A t \in Slots : t # s => comm'[t] = comm[t]
    BY ServeDoes
  <2>2. comm'[s].status = status
    BY <1>2 DEF TypeOK, PageCommMsg
  <2>3. /\ comm'[s].is_writer = msg.is_writer /\ comm'[s].journal = msg.journal
        /\ comm'[s].page_num = msg.page_num /\ comm'[s].status # "REQUESTING"
    BY ServeDoes
  <2> HIDE DEF status
  <2>4. Writes(s)' <=> given
    BY <2>2, <2>3 DEF Writes, Requesting
  <2>5. QED
    BY <1>1, <2>1, <2>2, <2>3, <2>4 DEF Writes, Held, Holding, Requesting, KeyOf
<1> HIDE DEF given, status, key, R
<1>7. given => ~R(key)
  BY <1>3, <1>4, <1>5
<1>8. \A t \in Slots : t # s /\ Writes(t) => (Held(t) = key => R(key))
  BY DEF R
<1>9. /\ \A t, u \in Slots : t # u /\ Writes(t)' /\ Writes(u)' => Held(t)' # Held(u)'
      /\ \A t \in Slots : Writes(t)' => Held(t)' \notin overtaken'
  BY <1>1, <1>6, <1>7, <1>8 DEF CountInv, R
<1>10. ASSUME NEW k \in Keys
       PROVE  store'.fileWriterCounts[k] = IF Kept(k)' THEN 1 ELSE 0
  <2>1. Kept(k)' <=> R(k) \/ (given /\ key = k)
    BY <1>1, <1>6 DEF R, Kept
  <2>2. QED
    BY <1>4, <1>5, <2>1
<1>11. QED
  BY <1>9, <1>10 DEF CountInv

(* What it remembers then is the page the writer has, or the one it already asks for. *)
LEMMA RememberCount ==
  ASSUME TypeOK, UseInv, CountInv, CommRemember
  PROVE  CountInv'
<1> PICK s \in Slots : s = commIdx
  BY RememberDoes
<1>1. /\ Served(s) /\ \A t \in Slots : ~Served(t)' /\ (t # s => ~Served(t))
      /\ UNCHANGED <<store, overtaken>>
  BY DEF CommRemember, Served
<1>2. /\ comm'[s].status = comm[s].status /\ comm'[s].page_num = comm[s].page_num
      /\ comm'[s].last_page_num = comm[s].page_num
      /\ comm'[s].is_writer = comm[s].is_writer /\ comm'[s].journal = comm[s].journal
      /\ \A t \in Slots : t # s => comm'[t] = comm[t]
  BY RememberDoes
<1>3. (Writes(s)' <=> Writes(s)) /\ (Writes(s) => Held(s)' = Held(s))
  BY <1>1, <1>2 DEF Writes, Held, Holding, Requesting
<1>4. \A t \in Slots : t # s => (Writes(t)' <=> Writes(t)) /\ Held(t)' = Held(t)
  BY <1>1, <1>2 DEF Writes, Held, Holding, Requesting
<1>5. QED
  BY <1>1, <1>3, <1>4, CountKept

(* A slot that nobody touches holds what it held. *)
LEMMA HeldKept ==
  ASSUME NEW t \in Slots, comm'[t] = comm[t]
  PROVE  Held(t)' = Held(t)
BY Zenon DEF Held, Holding

(***************************************************************************)
(* A request gives nothing up: what the writer holds is released when it   *)
(* is served, or, if it overtakes the comm thread, never.                  *)
(***************************************************************************)
LEMMA AskCount ==
  ASSUME TypeOK, CountInv, NEW s \in Slots, NEW p, StatusOK(s),
         comm' = [comm EXCEPT ![s].page_num = p, ![s].status = "REQUESTING"],
         comm[s].is_writer /\ ~Served(s) =>
           (Writes(s) <=> comm[s].last_page_num > 0 /\ comm[s].last_page_num # p),
         overtaken' = IF Served(s) /\ Holding(s) /\ comm[s].is_writer
                      THEN overtaken \cup {KeyOf(comm[s])} ELSE overtaken,
         UNCHANGED <<store, commPc, commIdx>>
  PROVE  CountInv'
<1>1. /\ comm'[s].status = "REQUESTING" /\ comm'[s].page_num = p
      /\ comm'[s].is_writer = comm[s].is_writer /\ comm'[s].journal = comm[s].journal
      /\ comm'[s].last_page_num = comm[s].last_page_num
      /\ \A t \in Slots : t # s => comm'[t] = comm[t]
  BY DEF TypeOK, PageCommMsg
<1>2. \A t \in Slots : Served(t)' <=> Served(t)
  BY DEF Served
<1>3. ASSUME NEW t \in Slots, t # s PROVE (Writes(t)' <=> Writes(t)) /\ Held(t)' = Held(t)
  <2>1. comm'[t] = comm[t] /\ (Served(t)' <=> Served(t))
    BY <1>1, <1>2, <1>3
  <2>2. Writes(t)' <=> Writes(t)
    BY <2>1 DEF Writes, Requesting
  <2>3. Held(t)' = Held(t)
    BY <2>1, HeldKept
  <2>4. QED
    BY <2>2, <2>3
<1>4. CASE Served(s) /\ Holding(s) /\ comm[s].is_writer
  <2>1. Writes(s) /\ Held(s) = KeyOf(comm[s]) /\ ~Writes(s)'
    BY <1>1, <1>2, <1>4 DEF Writes, Held, Holding, KeyOf
  <2>2. overtaken' = overtaken \cup {Held(s)}
    BY <1>4, <2>1
  <2>3. \A k : Kept(k)' <=> Kept(k)
    BY <1>3, <2>1, <2>2 DEF Kept
  <2>4. QED
    BY <1>3, <2>1, <2>2, <2>3 DEF CountInv
<1>5. CASE Served(s) /\ ~(Holding(s) /\ comm[s].is_writer)
  <2>1. ~Writes(s) /\ ~Writes(s)' /\ UNCHANGED overtaken
    BY <1>1, <1>2, <1>5 DEF Writes, Holding
  <2>2. QED
    BY <1>3, <2>1, CountKept
<1>6. CASE ~Served(s)
  <2>1. Writes(s)' <=> Writes(s)
    BY <1>1, <1>2, <1>6 DEF Writes, Requesting
  <2>2. Held(s)' = Held(s)
    BY <1>1, <1>6 DEF Held, Holding, StatusOK
  <2>3. QED
    BY <1>3, <1>6, <2>1, <2>2, CountKept
<1>7. QED
  BY <1>4, <1>5, <1>6

LEMMA CountAsk ==
  ASSUME TypeOK, UseInv, CountInv, NEW s \in Slots
  PROVE  /\ WriterSeekEnd(s) => CountInv'
         /\ \A p \in 1 .. MaxPage : ReaderSeek(s, p) => CountInv'
         /\ LoadNextPage(s) => CountInv'
         /\ Expire(s) => CountInv'
<1> USE DEF serverVars, commThread, clientVars, pageVars
<1>1. UserOK(s) /\ StatusOK(s) /\ WriterOK(s)
  BY DEF UseInv
<1>2. comm[s].last_page_num \in Int /\ comm[s].page_num \in Int /\ usr[s].cur \in Int
  BY DEF TypeOK, PageCommMsg, JournalUser, PageNums
<1>3. ASSUME WriterSeekEnd(s) PROVE CountInv'
  <2>1. usr[s].call = "list"
    BY <1>3 DEF WriterSeekEnd
  <2>2. comm[s].status = "HOLDING" /\ comm[s].last_page_num = 0
    BY <1>1, <2>1 DEF StatusOK
  <2>3. ~Writes(s)
    BY <2>2 DEF Writes, Requesting
  <2>4. AskPage(s, "seek", usr[s].target)
    BY <1>3 DEF WriterSeekEnd
  <2>5. ~(comm[s].last_page_num > 0)
    BY <2>2
  <2>6. QED
    BY <1>1, <2>3, <2>4, <2>5, AskCount DEF AskPage
<1>4. ASSUME usr[s].owner \in Clients \ WriterClients, usr[s].call # "fill" PROVE ~comm[s].is_writer
  BY <1>1, <1>4, PageEngineAssumption DEF WriterOK
<1>5. ASSUME NEW p \in 1 .. MaxPage, ReaderSeek(s, p) PROVE CountInv'
  <2>1. ~comm[s].is_writer
    BY <1>4, <1>5 DEF ReaderSeek
  <2>2. QED
    BY <1>1, <1>5, <2>1, AskCount DEF ReaderSeek, AskPage
<1>6. ASSUME Expire(s) PROVE CountInv'
  <2>1. ~comm[s].is_writer
    BY <1>4, <1>6 DEF Expire
  <2>2. QED
    BY <1>1, <1>6, <2>1, AskCount DEF Expire
<1>7. ASSUME LoadNextPage(s) PROVE CountInv'
  <2>1. /\ AskPage(s, "next", usr[s].cur + 1) /\ usr[s].owner \in Clients /\ usr[s].call = "none" /\ ~usr[s].expired
        /\ usr[s].owner \in WriterClients => usr[s].cur > 0
    BY <1>7 DEF LoadNextPage, CanLoadNext
  <2>2. CASE usr[s].owner \in WriterClients
    <3>1. \/ comm[s].status = "ALLOCATED" /\ comm[s].page_num = usr[s].cur
          \/ comm[s].status = "MORE_THAN_ONE_WRITE" /\ comm[s].page_num = usr[s].cur + 1
      BY <1>1, <2>1, <2>2 DEF WriterOK
    <3>2. ~Served(s) => comm[s].last_page_num = comm[s].page_num
      BY <1>1, <3>1 DEF StatusOK
    <3>3. comm[s].is_writer /\ ~Served(s) =>
            (Writes(s) <=> comm[s].last_page_num > 0 /\ comm[s].last_page_num # usr[s].cur + 1)
      BY <1>2, <2>1, <2>2, <3>1, <3>2 DEF Writes, Requesting
    <3>4. QED
      BY <1>1, <2>1, <3>3, AskCount DEF AskPage
  <2>3. CASE usr[s].owner \notin WriterClients
    BY <1>1, <1>4, <2>1, <2>3, AskCount DEF AskPage
  <2>4. QED
    BY <2>2, <2>3
<1>8. QED
  BY <1>3, <1>5, <1>6, <1>7

LEMMA CountNext == TypeOK /\ SlotInv /\ ExitInv /\ UseInv /\ CountInv /\ [Next]_vars => CountInv'
<1> SUFFICES ASSUME TypeOK, SlotInv, ExitInv, UseInv, CountInv, [Next]_vars PROVE CountInv'
  OBVIOUS
<1> USE DEF serverVars, commThread, clientVars, pageVars
<1>1. ASSUME UNCHANGED <<comm, store, commPc, commIdx, overtaken>> PROVE CountInv'
  BY <1>1, CountKept DEF Writes, Held, Holding, Served, Requesting
<1>2. ASSUME NEW s \in Slots, comm[s].status \in {"RAW", "OCCUPIED"},
             comm'[s].status \in {"OCCUPIED", "HOLDING"},
             \A t \in Slots : t # s => comm'[t] = comm[t],
             UNCHANGED <<store, commPc, commIdx, overtaken>>
      PROVE  CountInv'
  BY <1>2, CountKept DEF Writes, Held, Holding, Served, Requesting
<1>3. ASSUME NEW s \in Slots, TakeSlot(s), UNCHANGED <<store, commThread>>
      PROVE  CountInv'
  <2>1. comm' = [comm EXCEPT ![s] = [comm[s] EXCEPT !.status = "OCCUPIED", !.last_page_num = 0]]
    BY <1>3 DEF TakeSlot, TypeOK
  <2>2. comm'[s].status = "OCCUPIED" /\ \A t \in Slots : t # s => comm'[t] = comm[t]
    BY <2>1 DEF TypeOK, PageCommMsg
  <2>3. comm[s].status = "RAW"
    BY <1>3 DEF TakeSlot, FirstRaw
  <2>4. QED
    BY <1>2, <1>3, <2>2, <2>3
<1>4. ASSUME NEW c \in Clients, NEW h \in 1 .. MaxGen, HandleExit(c, h) PROVE CountInv'
  <2>1. CASE HashMatches(c, h)
    <3>1. Registered(c) /\ proc[c] # "up" /\ ExitClients({c}) /\ UNCHANGED commThread
      BY <1>4, <2>1 DEF HandleExit, HashMatches, ExitInv
    <3>2. \A d \in {c} : Registered(d) /\ proc[d] # "up"
      BY <3>1
    <3>3. {c} \in SUBSET Clients
      OBVIOUS
    <3>4. QED
      BY <3>1, <3>2, <3>3, ExitClientsCount
  <2>2. CASE ~HashMatches(c, h)
    BY <1>1, <1>4, <2>2 DEF HandleExit
  <2>3. QED
    BY <2>1, <2>2
<1>5. CASE SocketNext
  <2>1. ASSUME NEW c \in Clients, NEW h \in 1 .. MaxGen, NEW j \in Journals, NEW s \in Slots,
               RegJournal(c, h, j, s) \/ RegJournalUnknown(c, h, j, s)
        PROVE  CountInv'
    <3>1. TakeSlot(s) /\ UNCHANGED <<store, commThread>>
      BY <2>1 DEF RegJournal, GiveSlot, RegJournalUnknown
    <3>2. QED
      BY <1>3, <3>1
  <2>2. QED
    BY <1>1, <1>4, <1>5, <2>1 DEF SocketNext, RegClient, RegJournalFull, RegisterStrategy
<1>6. CASE ClientNext
  <2>1. ASSUME NEW s \in Slots, FillSlot(s) PROVE CountInv'
    <3>1. UNCHANGED <<store, commThread>>
      BY <2>1 DEF FillSlot
    <3>2. QED
      BY <1>2, <2>1, <3>1, FillUse
  <2>2. QED
    BY <1>1, <1>6, <2>1, CountAsk
    DEF ClientNext, AddJournal, ExitRequest, ListPages, WriterGetsPage, WriterRefused, WriterLost, ReaderGetsAnswer, Die
<1>7. CASE PidCheck
  <2> DEFINE cs == {c \in Clients : Dead(c)}
  <2>1. ExitClients(cs) /\ cs \in SUBSET Clients /\ UNCHANGED commThread
    BY <1>7 DEF PidCheck
  <2>2. \A c \in cs : Registered(c) /\ proc[c] # "up"
    BY DEF Dead
  <2> HIDE DEF cs
  <2>3. QED
    BY <2>1, <2>2, ExitClientsCount
<1>8. CASE TempPage
  <2>1. store'.fileWriterCounts = store.fileWriterCounts /\ UNCHANGED <<comm, commPc, commIdx, overtaken>>
    BY <1>8 DEF TempPage, AddTempPage, TypeOK, Store
  <2>2. QED
    BY <2>1, CountKept DEF Writes, Held, Holding, Served, Requesting
<1>9. ASSUME NEW s \in Slots, CommScan(s) PROVE CountInv'
  <2>1. UNCHANGED <<comm, store, overtaken>> /\ \A t \in Slots : ~Served(t) /\ ~Served(t)'
    BY <1>9 DEF CommScan, Served
  <2>2. QED
    BY <2>1, CountKept DEF Writes, Held, Holding, Requesting
<1>10. CASE UNCHANGED vars
  BY <1>1, <1>10 DEF vars
<1>11. QED
  BY <1>5, <1>6, <1>7, <1>8, <1>9, <1>10, ServeCount, RememberCount DEF Next, ServiceNext

LEMMA CountInvariant ==
  ASSUME DieRequesting = FALSE
  PROVE  Spec => []CountInv
<1>1. Init => CountInv
  BY DEF Init, RawMsg, EmptyStore, CountInv, Kept, Writes, Requesting
<1>2. QED
  BY <1>1, CountNext, UseInvariant, TypeCorrect, SlotInvariant, ExitInvariant, PTL DEF Spec

(***************************************************************************)
(* If no process dies while it waits for a page, initiate_page gives no    *)
(* page to two writers, for any number of clients, slots and pages.        *)
(***************************************************************************)
THEOREM WritersExclusive ==
  ASSUME DieRequesting = FALSE
  PROVE  Spec => []OneWriterPerPage
<1>1. TypeOK /\ UseInv /\ CountInv => OneWriterPerPage
  <2>1. SUFFICES ASSUME UseInv, CountInv, NEW s \in Slots, NEW t \in Slots, s # t,
                        WriterSlot(s), WriterSlot(t), Holding(s), Holding(t)
                 PROVE  KeyOf(comm[s]) # KeyOf(comm[t])
    BY DEF OneWriterPerPage
  <2>2. \A x \in {s, t} : Writes(x) /\ KeyOf(comm[x]) = Held(x)
    BY <2>1 DEF WriterSlot, Holding, Writes, KeyOf, Held
  <2>3. QED
    BY <2>1, <2>2 DEF CountInv
<1>2. QED
  BY <1>1, UseInvariant, CountInvariant, TypeCorrect, PTL

(***************************************************************************)
(* ... and a page that is counted has a writer, unless its writer asked    *)
(* for the next page between the two stores of the comm thread: that page, *)
(* and no other, stays locked, and stays so for good.                      *)
(***************************************************************************)
THEOREM CountsAreWriters ==
  ASSUME DieRequesting = FALSE
  PROVE  Spec => []OnlyOvertakenPagesAreLeft
<1>1. TypeOK /\ UseInv /\ CountInv => OnlyOvertakenPagesAreLeft
  <2>1. SUFFICES ASSUME TypeOK, UseInv, CountInv, NEW k \in Keys
                 PROVE  /\ Counted(k) => HasWriter(k) \/ k \in overtaken
                        /\ k \in overtaken => Counted(k)
    BY DEF OnlyOvertakenPagesAreLeft
  <2>2. Counted(k) <=> Kept(k)
    BY <2>1 DEF CountInv, Counted
  <2>3. ASSUME NEW s \in Slots, Writes(s), Held(s) = k PROVE WriterOf(s, k)
    <3>1. Owned(s)
      BY <2>1, <2>3 DEF UseInv, UserOK, Owned, Writes, Requesting, TypeOK, JournalUser
    <3>2. comm[s].journal = k[1]
      BY <2>3 DEF Held
    <3>3. CASE Holding(s)
      BY <2>3, <3>1, <3>2, <3>3 DEF WriterOf, WriterSlot, Writes, Held
    <3>4. CASE ~Holding(s)
      BY <2>3, <3>1, <3>2, <3>4 DEF WriterOf, WriterSlot, Writes, Held, Holding
    <3>5. QED
      BY <3>3, <3>4
  <2>4. QED
    BY <2>2, <2>3 DEF Kept, HasWriter
<1>2. QED
  BY <1>1, UseInvariant, CountInvariant, TypeCorrect, PTL

-----------------------------------------------------------------------------
(* Readers go on.                                                          *)

(***************************************************************************)
(* The strengthening: a page that is ended has a next page, initialised    *)
(* and in the file system; a reader that goes on asks for such a page, and *)
(* is given it.                                                            *)
(***************************************************************************)
PagesInv ==
  /\ inited \subseteq store.files
  /\ \A j \in Journals \cup {NoJournal}, p \in PageNums : <<j, p>> \in ended => <<j, p + 1>> \in inited

ReadOK(s) ==
  /\ comm[s].status # "CANNOT_RENAME_FROM_TEMP"
  /\ comm[s].status = "ALLOCATED" => KeyOf(comm[s]) \in store.files
  /\ usr[s].owner # NoClient /\ usr[s].call # "fill" => comm[s].journal = usr[s].journal
  /\ usr[s].owner \in Clients \ WriterClients =>
       /\ usr[s].call = "none" /\ ~usr[s].expired => usr[s].cur > 0
       /\ usr[s].call \in {"seek", "next"} => comm[s].page_num > 0
       /\ usr[s].call = "next" =>
            Here(s) \in inited /\ comm[s].status \in {"REQUESTING", "ALLOCATED"}
       /\ usr[s].call = "expire" => usr[s].expired

ReadInv == PagesInv /\ \A s \in Slots : ReadOK(s)

(* What is initialised stays so, and no action takes a file away. *)
LEMMA ReadKept ==
  ASSUME NEW s \in Slots, ReadOK(s), comm'[s] = comm[s], usr'[s] = usr[s],
         inited \subseteq inited', store.files \subseteq store'.files
  PROVE  ReadOK(s)'
BY DEF ReadOK, Here

LEMMA PagesKept ==
  ASSUME PagesInv, UNCHANGED pageVars, store.files \subseteq store'.files
  PROVE  PagesInv'
BY DEF PagesInv, pageVars

LEMMA ReleaseFiles ==
  ASSUME NEW st \in Store, NEW msgs
  PROVE  Release(st, msgs).files = st.files
BY DEF Release, Store

(* Slots that are freed, and users that go. *)
LEMMA ReadGone ==
  ASSUME TypeOK, ReadInv, UNCHANGED pageVars, store.files \subseteq store'.files,
         \A s \in Slots : comm'[s] = comm[s] \/ comm'[s] = [comm[s] EXCEPT !.status = "RAW"],
         \A s \in Slots : usr'[s] = usr[s] \/ usr'[s] = NoUser,
         \A s \in Slots : comm'[s] # comm[s] => usr'[s].owner = NoClient
  PROVE  ReadInv'
<1>1. PagesInv'
  BY PagesKept DEF ReadInv
<1>2. ASSUME NEW s \in Slots PROVE ReadOK(s)'
  <2>1. ReadOK(s) /\ NoUser.owner = NoClient /\ NoClient \notin Clients
    BY PageEngineAssumption DEF ReadInv, NoUser
  <2>2. CASE comm'[s] = comm[s] /\ usr'[s] = usr[s]
    BY <2>1, <2>2, ReadKept DEF pageVars
  <2>3. CASE comm'[s] = comm[s] /\ usr'[s].owner = NoClient
    BY <2>1, <2>3 DEF ReadOK
  <2>4. CASE comm'[s] = [comm[s] EXCEPT !.status = "RAW"] /\ usr'[s].owner = NoClient
    <3>1. comm'[s].status = "RAW"
      BY <2>4 DEF TypeOK, PageCommMsg
    <3>2. QED
      BY <2>1, <2>4, <3>1 DEF ReadOK
  <2>5. QED
    BY <2>1, <2>2, <2>3, <2>4
<1>3. QED
  BY <1>1, <1>2 DEF ReadInv

(* A change of the user of one slot. *)
LEMMA ReadUser ==
  ASSUME TypeOK, ReadInv, NEW s \in Slots, NEW u, usr' = [usr EXCEPT ![s] = u],
         u.owner = usr[s].owner, u.journal = usr[s].journal, usr[s].call # "fill",
         usr[s].owner \in Clients \ WriterClients =>
           /\ u.call \notin {"seek", "next", "expire"}
           /\ u.call = "none" /\ ~u.expired => u.cur > 0,
         UNCHANGED <<comm, store, pageVars>>
  PROVE  ReadInv'
<1>1. usr'[s] = u /\ \A t \in Slots : t # s => usr'[t] = usr[t]
  BY DEF TypeOK
<1>2. ReadOK(s)'
  BY <1>1 DEF ReadInv, ReadOK
<1>3. \A t \in Slots : ReadOK(t)'
  BY <1>1, <1>2, ReadKept DEF ReadInv, pageVars
<1>4. PagesInv'
  BY PagesKept DEF ReadInv
<1>5. QED
  BY <1>3, <1>4 DEF ReadInv

(* A request. *)
LEMMA ReadAskOne ==
  ASSUME TypeOK, ReadInv, NEW s \in Slots, NEW p, NEW u,
         comm' = [comm EXCEPT ![s].page_num = p, ![s].status = "REQUESTING"],
         usr' = [usr EXCEPT ![s] = u],
         u.owner = usr[s].owner, u.journal = usr[s].journal, usr[s].call # "fill", u.call # "none",
         usr[s].owner \in Clients \ WriterClients =>
           /\ u.call \in {"seek", "next"} => p > 0
           /\ u.call = "next" => <<usr[s].journal, p>> \in inited
           /\ u.call = "expire" => u.expired,
         UNCHANGED <<store, pageVars>>
  PROVE  ReadInv'
<1>1. usr'[s] = u /\ \A t \in Slots : t # s => usr'[t] = usr[t]
  BY DEF TypeOK
<1>2. /\ comm'[s].status = "REQUESTING" /\ comm'[s].page_num = p /\ comm'[s].journal = comm[s].journal
      /\ \A t \in Slots : t # s => comm'[t] = comm[t]
  BY DEF TypeOK, PageCommMsg
<1>3. ReadOK(s)'
  <2>1. ReadOK(s)
    BY DEF ReadInv
  <2>2. Here(s)' = <<usr[s].journal, p>>
    BY <1>1, <1>2 DEF Here
  <2>3. usr[s].owner # NoClient => comm[s].journal = usr[s].journal
    BY <2>1 DEF ReadOK
  <2>4. QED
    BY <1>1, <1>2, <2>2, <2>3 DEF ReadOK, pageVars
<1>4. \A t \in Slots : ReadOK(t)'
  BY <1>1, <1>2, <1>3, ReadKept DEF ReadInv, pageVars
<1>5. PagesInv'
  BY PagesKept DEF ReadInv
<1>6. QED
  BY <1>4, <1>5 DEF ReadInv

LEMMA ReadAsk ==
  ASSUME TypeOK, UseInv, ReadInv, NEW s \in Slots
  PROVE  /\ WriterSeekEnd(s) => ReadInv'
         /\ \A p \in 1 .. MaxPage : ReaderSeek(s, p) => ReadInv'
         /\ LoadNextPage(s) => ReadInv'
         /\ Expire(s) => ReadInv'
<1>1. usr[s] \in JournalUser /\ usr[s].cur \in PageNums
  BY DEF TypeOK, JournalUser
<1>2. ReadOK(s)
  BY DEF ReadInv
<1>3. ASSUME NEW call \in {"seek", "next"}, NEW p, AskPage(s, call, p), usr[s].call # "fill",
             usr[s].owner \in Clients \ WriterClients =>
               p > 0 /\ (call = "next" => <<usr[s].journal, p>> \in inited)
      PROVE  ReadInv'
  <2> DEFINE u == [usr[s] EXCEPT !.call = call, !.target = 0]
  <2>1. u.owner = usr[s].owner /\ u.journal = usr[s].journal /\ u.call = call
    BY <1>1 DEF JournalUser
  <2>2. /\ usr' = [usr EXCEPT ![s] = u] /\ UNCHANGED <<store, pageVars>>
        /\ comm' = [comm EXCEPT ![s].page_num = p, ![s].status = "REQUESTING"]
    BY <1>3 DEF AskPage, TypeOK
  <2> HIDE DEF u
  <2>3. u.call # "none" /\ u.call # "expire"
    BY <1>3, <2>1
  <2>4. QED
    BY <1>3, <2>1, <2>2, <2>3, ReadAskOne
<1>4. ASSUME WriterSeekEnd(s) PROVE ReadInv'
  <2>1. usr[s].target > 0 /\ usr[s].call = "list" /\ AskPage(s, "seek", usr[s].target)
    BY <1>4 DEF WriterSeekEnd
  <2>2. QED
    BY <1>3, <2>1
<1>5. ASSUME NEW p \in 1 .. MaxPage, ReaderSeek(s, p) PROVE ReadInv'
  <2>1. usr[s].call \in {"list", "none"} /\ AskPage(s, "seek", p) /\ p > 0
    BY <1>5, PageStoreAssumption DEF ReaderSeek
  <2>2. QED
    BY <1>3, <2>1
<1>6. ASSUME LoadNextPage(s) PROVE ReadInv'
  <2>1. usr[s].call = "none" /\ ~usr[s].expired /\ AskPage(s, "next", usr[s].cur + 1)
    BY <1>6 DEF LoadNextPage, CanLoadNext
  <2>2. ASSUME usr[s].owner \in Clients \ WriterClients
        PROVE  usr[s].cur + 1 > 0 /\ <<usr[s].journal, usr[s].cur + 1>> \in inited
    <3>1. usr[s].cur > 0
      BY <1>2, <2>1, <2>2 DEF ReadOK
    <3>2. <<usr[s].journal, usr[s].cur>> \in ended
      BY <1>6, <2>2, <3>1 DEF LoadNextPage, CanLoadNext
    <3>3. usr[s].journal \in Journals \cup {NoJournal}
      BY <1>1 DEF JournalUser
    <3>4. usr[s].cur \in Int
      BY <1>1, PageStoreAssumption DEF PageNums
    <3>5. QED
      BY <1>1, <3>1, <3>2, <3>3, <3>4 DEF ReadInv, PagesInv
  <2>3. QED
    BY <1>3, <2>1, <2>2
<1>7. ASSUME Expire(s) PROVE ReadInv'
  <2> DEFINE u == [usr[s] EXCEPT !.call = "expire", !.expired = TRUE, !.cur = 0]
  <2>1. u.owner = usr[s].owner /\ u.journal = usr[s].journal /\ u.call = "expire" /\ u.expired
    BY <1>1 DEF JournalUser
  <2>2. /\ usr' = [usr EXCEPT ![s] = u] /\ UNCHANGED <<store, pageVars>> /\ usr[s].call = "none"
        /\ comm' = [comm EXCEPT ![s].page_num = -1, ![s].status = "REQUESTING"]
    BY <1>7 DEF Expire, TypeOK
  <2> HIDE DEF u
  <2>3. u.call # "none" /\ u.call \notin {"seek", "next"} /\ usr[s].call # "fill"
    BY <2>1, <2>2
  <2>4. QED
    BY <2>1, <2>2, <2>3, ReadAskOne
<1>8. QED
  BY <1>4, <1>5, <1>6, <1>7

(* The answers. *)
LEMMA ReadAnswer ==
  ASSUME TypeOK, UseInv, ReadInv, NEW s \in Slots
  PROVE  /\ ListPages(s) => ReadInv'
         /\ WriterGetsPage(s) => ReadInv'
         /\ WriterRefused(s) => ReadInv'
         /\ ReaderGetsAnswer(s) => ReadInv'
         /\ ~WriterLost(s)
<1>1. /\ usr[s] \in JournalUser /\ usr[s].cur \in PageNums /\ usr[s].cur \in Int
      /\ usr[s].journal \in Journals \cup {NoJournal}
  BY PageStoreAssumption DEF TypeOK, JournalUser, PageNums
<1>2. ReadOK(s) /\ UserOK(s) /\ StatusOK(s) /\ WriterOK(s)
  BY DEF ReadInv, UseInv
<1>3. ASSUME ListPages(s) PROVE ReadInv'
  <2>1. PICK p \in 1 .. MaxPage : usr' = [usr EXCEPT ![s].target = p]
    BY <1>3 DEF ListPages
  <2> DEFINE u == [usr[s] EXCEPT !.target = p]
  <2>2. u.owner = usr[s].owner /\ u.journal = usr[s].journal /\ u.call = usr[s].call
    BY <1>1 DEF JournalUser
  <2>3. usr' = [usr EXCEPT ![s] = u]
    BY <2>1 DEF TypeOK
  <2>4. usr[s].call = "list" /\ UNCHANGED <<comm, store, pageVars>>
    BY <1>3 DEF ListPages, serverVars
  <2> HIDE DEF u
  <2>5. QED
    BY <2>2, <2>3, <2>4, ReadUser
<1>4. ASSUME WriterGetsPage(s) PROVE ReadInv'
  <2> DEFINE u == [usr[s] EXCEPT !.call = "none", !.cur = comm[s].page_num, !.expired = FALSE]
  <2>1. u.owner = usr[s].owner /\ u.journal = usr[s].journal /\ u.call = "none"
    BY <1>1 DEF JournalUser
  <2>2. /\ usr' = [usr EXCEPT ![s] = u] /\ UNCHANGED <<comm, store>> /\ usr[s].owner \in WriterClients
        /\ comm[s].status = "ALLOCATED" /\ usr[s].call \in PageCalls
    BY <1>4 DEF WriterGetsPage, Answered, TypeOK, serverVars
  <2>3. usr[s].call # "fill" /\ usr[s].owner # NoClient
    BY <1>2, <2>2, PageEngineAssumption DEF PageCalls
  <2>4. Here(s) \in store.files
    BY <1>2, <2>2, <2>3 DEF ReadOK, Here, KeyOf
  <2>5. /\ inited' = inited \cup {Here(s)}
        /\ ended' = ended \/ (usr[s].call = "next" /\ ended' = ended \cup {<<usr[s].journal, usr[s].cur>>})
    BY <1>4 DEF WriterGetsPage
  <2>6. usr[s].call = "next" => Here(s) = <<usr[s].journal, usr[s].cur + 1>>
    BY <1>2, <2>2 DEF WriterOK, Here
  <2>7. PagesInv'
    BY <2>2, <2>4, <2>5, <2>6 DEF ReadInv, PagesInv
  <2> HIDE DEF u
  <2>8. usr'[s] = u /\ \A t \in Slots : t # s => usr'[t] = usr[t]
    BY <2>2 DEF TypeOK
  <2>9. ReadOK(s)'
    BY <1>2, <2>1, <2>2, <2>3, <2>8 DEF ReadOK
  <2>10. \A t \in Slots : ReadOK(t)'
    BY <2>2, <2>5, <2>8, <2>9, ReadKept DEF ReadInv
  <2>11. QED
    BY <2>7, <2>10 DEF ReadInv
<1>5. ASSUME WriterRefused(s) PROVE ReadInv'
  <2>1. PICK call \in {"failed", "none"} : usr' = [usr EXCEPT ![s].call = call]
    BY <1>5 DEF WriterRefused
  <2> DEFINE u == [usr[s] EXCEPT !.call = call]
  <2>2. u.owner = usr[s].owner /\ u.journal = usr[s].journal
    BY <1>1 DEF JournalUser
  <2>3. usr' = [usr EXCEPT ![s] = u]
    BY <2>1 DEF TypeOK
  <2>4. /\ usr[s].owner \in WriterClients /\ usr[s].call # "fill"
        /\ UNCHANGED <<comm, store, pageVars>>
    BY <1>5 DEF WriterRefused, Answered, PageCalls, serverVars
  <2> HIDE DEF u
  <2>5. QED
    BY <2>2, <2>3, <2>4, ReadUser
<1>6. ASSUME ReaderGetsAnswer(s) PROVE ReadInv'
  <2> DEFINE loaded == comm[s].status = "ALLOCATED" /\ Here(s) \in inited
             page == IF loaded THEN comm[s].page_num ELSE 0
             gone == IF usr[s].call = "seek" THEN ~loaded ELSE usr[s].expired
             u == [usr[s] EXCEPT !.call = "none", !.cur = page, !.expired = gone]
  <2>1. /\ u.owner = usr[s].owner /\ u.journal = usr[s].journal /\ u.call = "none"
        /\ u.cur = page /\ u.expired = gone
    <3> HIDE DEF page, gone
    <3>1. QED
      BY <1>1 DEF JournalUser
  <2>2. /\ usr' = [usr EXCEPT ![s] = u] /\ UNCHANGED <<comm, store, pageVars>>
        /\ usr[s].call \in PageCalls /\ ~Requesting(s) /\ usr[s].owner \notin WriterClients
    BY <1>6 DEF ReaderGetsAnswer, Answered, TypeOK, serverVars
  <2>3. ASSUME usr[s].owner \in Clients \ WriterClients, ~gone PROVE page > 0
    <3>1. CASE usr[s].call = "seek"
      BY <1>2, <2>3, <3>1 DEF ReadOK
    <3>2. CASE usr[s].call = "next"
      BY <1>2, <2>2, <2>3, <3>2 DEF ReadOK, Requesting
    <3>3. CASE usr[s].call = "expire"
      BY <1>2, <2>3, <3>3 DEF ReadOK
    <3>4. QED
      BY <2>2, <3>1, <3>2, <3>3 DEF PageCalls
  <2>4. usr[s].call # "fill"
    BY <2>2 DEF PageCalls
  <2> HIDE DEF u, page, gone
  <2>5. QED
    BY <2>1, <2>2, <2>3, <2>4, ReadUser
<1>7. ~WriterLost(s)
  BY <1>2 DEF WriterLost, ReadOK
<1>8. QED
  BY <1>3, <1>4, <1>5, <1>6, <1>7

(* register_journal, from the slot that is given out to the slot that is filled. *)
LEMMA ReadJoin ==
  ASSUME TypeOK, SlotInv, UseInv, ReadInv, NEW s \in Slots
  PROVE  /\ \A c \in Clients, h \in 1 .. MaxGen, j \in Journals : RegJournal(c, h, j, s) => ReadInv'
         /\ \A c \in Clients, h \in 1 .. MaxGen, j \in Journals :
              RegJournalUnknown(c, h, j, s) => ReadInv'
         /\ FillSlot(s) => ReadInv'
<1> USE DEF pageVars
<1>1. ASSUME UNCHANGED <<store, pageVars>>, ReadOK(s)',
             \A t \in Slots : t # s => comm'[t] = comm[t] /\ usr'[t] = usr[t]
      PROVE  ReadInv'
  BY <1>1, ReadKept, PagesKept DEF ReadInv
<1>2. ASSUME TakeSlot(s), UNCHANGED <<store, pageVars>>,
             usr'[s].call = "fill" \/ UNCHANGED usr,
             \A t \in Slots : t # s => usr'[t] = usr[t]
      PROVE  ReadInv'
  <2>1. comm[s].status = "RAW" /\ comm[s] \in PageCommMsg
    BY <1>2 DEF TakeSlot, FirstRaw, TypeOK
  <2>2. comm' = [comm EXCEPT ![s] = [comm[s] EXCEPT !.status = "OCCUPIED", !.last_page_num = 0]]
    BY <1>2 DEF TakeSlot, TypeOK
  <2>3. comm'[s].status = "OCCUPIED" /\ \A t \in Slots : t # s => comm'[t] = comm[t]
    BY <2>1, <2>2 DEF TypeOK, PageCommMsg
  <2>4. usr[s].owner = NoClient
    <3>1. ASSUME usr[s].owner # NoClient PROVE FALSE
      <4>1. /\ usr[s].owner \in Clients /\ Registered(usr[s].owner)
            /\ s \in clientJournals[usr[s].owner].users
        BY <3>1 DEF UseInv, UserOK, TypeOK, JournalUser
      <4>2. QED
        BY <2>1, <4>1 DEF SlotInv, OwnedNotRaw
    <3>2. QED
      BY <3>1
  <2>5. usr'[s].call = "fill" \/ usr'[s].owner = NoClient
    BY <1>2, <2>4
  <2>6. NoClient \notin Clients
    BY PageEngineAssumption
  <2>7. ReadOK(s)'
    BY <2>3, <2>5, <2>6 DEF ReadOK
  <2>8. QED
    BY <1>1, <1>2, <2>3, <2>7
<1>3. ASSUME NEW c \in Clients, NEW h \in 1 .. MaxGen, NEW j \in Journals, RegJournal(c, h, j, s)
      PROVE  ReadInv'
  <2>1. TakeSlot(s) /\ UNCHANGED <<store, pageVars>>
    BY <1>3 DEF RegJournal, GiveSlot
  <2>2. CASE Waits(c, h)
    <3>1. usr' = [usr EXCEPT ![s] = [NoUser EXCEPT !.owner = c, !.journal = j, !.call = "fill"]]
      BY <1>3, <2>2 DEF RegJournal, GiveSlot
    <3>2. usr'[s].call = "fill" /\ \A t \in Slots : t # s => usr'[t] = usr[t]
      BY <3>1 DEF TypeOK, NoUser
    <3>3. QED
      BY <1>2, <2>1, <3>2
  <2>3. CASE ~Waits(c, h)
    <3>1. UNCHANGED usr
      BY <1>3, <2>3 DEF RegJournal, GiveSlot
    <3>2. QED
      BY <1>2, <2>1, <3>1
  <2>4. QED
    BY <2>2, <2>3
<1>4. ASSUME NEW c \in Clients, NEW h \in 1 .. MaxGen, NEW j \in Journals, RegJournalUnknown(c, h, j, s)
      PROVE  ReadInv'
  BY <1>2, <1>4 DEF RegJournalUnknown
<1>5. ASSUME FillSlot(s) PROVE ReadInv'
  <2>1. /\ comm[s].status = "OCCUPIED" /\ comm'[s].status = "HOLDING"
        /\ \A t \in Slots : t # s => comm'[t] = comm[t]
    BY <1>5, FillUse
  <2>2. usr' = [usr EXCEPT ![s].call = "list"]
    BY <1>5, <2>1 DEF FillSlot
  <2>3. /\ usr'[s] = [usr[s] EXCEPT !.call = "list"] /\ usr[s] \in JournalUser
        /\ \A t \in Slots : t # s => usr'[t] = usr[t]
    BY <2>2 DEF TypeOK
  <2>4. usr'[s].call = "list" /\ usr'[s].journal = usr[s].journal
    BY <2>3 DEF JournalUser
  <2> DEFINE w == usr[s].owner \in WriterClients
  <2>5. comm'[s] = [comm[s] EXCEPT !.journal = usr[s].journal, !.is_writer = w, !.status = "HOLDING"]
    BY <1>5, <2>1 DEF FillSlot, TypeOK
  <2>6. comm'[s].journal = usr[s].journal
    <3> HIDE DEF w
    <3>1. QED
      BY <2>5 DEF TypeOK, PageCommMsg
  <2>7. ReadOK(s)'
    BY <2>1, <2>4, <2>6 DEF ReadOK
  <2>8. UNCHANGED <<store, pageVars>>
    BY <1>5 DEF FillSlot
  <2>9. QED
    BY <1>1, <2>1, <2>3, <2>7, <2>8
<1>6. QED
  BY <1>3, <1>4, <1>5

(* exit_client takes no file away. *)
LEMMA ReadExit ==
  ASSUME TypeOK, SlotInv, UseInv, ReadInv, UNCHANGED pageVars,
         NEW cs \in SUBSET Clients, ExitClients(cs),
         \A c \in cs : Registered(c),
         \A s \in Slots : usr'[s] = IF usr[s].owner \in cs THEN NoUser ELSE usr[s]
  PROVE  ReadInv'
<1>1. \A s \in Slots : comm'[s] = IF s \in Leaving(cs) THEN [comm[s] EXCEPT !.status = "RAW"] ELSE comm[s]
  BY DEF ExitClients
<1>2. store'.files = store.files
  <2> DEFINE holding == {s \in Leaving(cs) : comm[s].status = "ALLOCATED"}
  <2>1. store' = Release(store, [s \in holding |-> comm[s]])
    BY DEF ExitClients
  <2> HIDE DEF holding
  <2>2. QED
    BY <2>1, ReleaseFiles DEF TypeOK
<1>3. ASSUME NEW s \in Slots, s \in Leaving(cs) PROVE usr'[s].owner = NoClient
  <2>1. NoUser.owner = NoClient
    BY DEF NoUser
  <2>2. PICK c \in cs : s \in clientJournals[c].users
    BY <1>3 DEF Leaving
  <2>3. ASSUME usr[s].owner # NoClient PROVE usr[s].owner \in cs
    <3>1. /\ usr[s].owner \in Clients /\ Registered(usr[s].owner)
          /\ s \in clientJournals[usr[s].owner].users
      BY <2>3 DEF UseInv, UserOK, TypeOK, JournalUser
    <3>2. QED
      BY <2>2, <3>1 DEF SlotInv, SlotsOwnedOnce
  <2>4. QED
    BY <2>1, <2>3
<1>4. QED
  BY <1>1, <1>2, <1>3, ReadGone

(* The comm thread gives the reader that goes on its page. *)
LEMMA ReadServe ==
  ASSUME RenameOutcomes = {TRUE}, TypeOK, UseInv, ReadInv, CommServe
  PROVE  ReadInv'
<1> PICK s \in Slots : s = commIdx
  BY ServeDoes
<1> DEFINE status == InitiateStatus(ReleaseLast(s), comm[s], TRUE)
<1>1. /\ Requesting(s) /\ UNCHANGED <<usr, pageVars>>
  BY DEF CommServe, UseInv, ServedInv, clientVars
<1>2. /\ store' = InitiateStore(ReleaseLast(s), comm[s], status)
      /\ comm' = [comm EXCEPT ![s].status = status]
  BY DEF CommServe
<1>3. ReleaseLast(s) \in Store /\ ReleaseLast(s).files = store.files
  BY ReleaseLastType, ReleaseFiles DEF ReleaseLast, TypeOK
<1>4. status \in {"NON_EXIST", "MORE_THAN_ONE_WRITE", "ALLOCATED"}
  BY DEF InitiateStatus
<1>5. /\ store.files \subseteq store'.files
      /\ status = "ALLOCATED" => KeyOf(comm[s]) \in store'.files
  <2> HIDE DEF status
  <2>1. QED
    BY <1>2, <1>3, <1>4 DEF InitiateStore
<1>6. ~comm[s].is_writer /\ KeyOf(comm[s]) \in store.files => status = "ALLOCATED"
  BY <1>3 DEF InitiateStatus
<1>7. comm'[s].status = status
  <2> HIDE DEF status
  <2>1. QED
    BY <1>2 DEF TypeOK, PageCommMsg
<1>8. /\ comm'[s].journal = comm[s].journal /\ comm'[s].page_num = comm[s].page_num
      /\ \A t \in Slots : t # s => comm'[t] = comm[t]
  BY ServeDoes
<1> HIDE DEF status
<1>9. ReadOK(s)'
  <2>1. ReadOK(s) /\ UserOK(s) /\ WriterOK(s)
    BY DEF ReadInv, UseInv
  <2>2. ASSUME usr[s].owner \in Clients \ WriterClients, usr[s].call = "next"
        PROVE  Here(s) \in inited /\ status = "ALLOCATED"
    <3>1. usr[s].owner # NoClient
      BY <2>2, PageEngineAssumption
    <3>2. Here(s) \in inited /\ ~comm[s].is_writer /\ KeyOf(comm[s]) = Here(s)
      BY <2>1, <2>2, <3>1 DEF ReadOK, WriterOK, KeyOf, Here
    <3>3. QED
      BY <1>6, <3>2 DEF ReadInv, PagesInv
  <2>3. Here(s)' = Here(s) /\ KeyOf(comm[s])' = KeyOf(comm[s])
    BY <1>1, <1>8 DEF Here, KeyOf
  <2>4. QED
    BY <1>1, <1>4, <1>5, <1>7, <1>8, <2>1, <2>2, <2>3 DEF ReadOK, pageVars
<1>10. \A t \in Slots : ReadOK(t)'
  BY <1>1, <1>5, <1>8, <1>9, ReadKept DEF ReadInv, pageVars
<1>11. PagesInv'
  BY <1>1, <1>5, PagesKept DEF ReadInv
<1>12. QED
  BY <1>10, <1>11 DEF ReadInv

(* What the comm thread remembers is no concern of the readers. *)
LEMMA ReadRemember ==
  ASSUME TypeOK, ReadInv, CommRemember
  PROVE  ReadInv'
<1>1. UNCHANGED <<store, usr, pageVars>>
  BY DEF CommRemember, clientVars
<1>2. ASSUME NEW s \in Slots PROVE ReadOK(s)'
  <2>1. /\ comm'[s].status = comm[s].status /\ comm'[s].page_num = comm[s].page_num
        /\ comm'[s].journal = comm[s].journal
    BY RememberDoes
  <2>2. KeyOf(comm[s])' = KeyOf(comm[s]) /\ Here(s)' = Here(s)
    BY <1>1, <2>1 DEF KeyOf, Here
  <2>3. QED
    BY <1>1, <2>1, <2>2 DEF ReadInv, ReadOK, pageVars
<1>3. QED
  BY <1>1, <1>2, PagesKept DEF ReadInv

LEMMA ReadNext ==
  ASSUME DieRequesting = FALSE, RenameOutcomes = {TRUE}
  PROVE  TypeOK /\ SlotInv /\ ExitInv /\ UseInv /\ ReadInv /\ [Next]_vars => ReadInv'
<1> SUFFICES ASSUME TypeOK, SlotInv, ExitInv, UseInv, ReadInv, [Next]_vars PROVE ReadInv'
  OBVIOUS
<1> USE DEF serverVars, commThread, clientVars, pageVars
<1>1. ASSUME UNCHANGED <<comm, usr, pageVars>>, store.files \subseteq store'.files PROVE ReadInv'
  BY <1>1, ReadKept, PagesKept DEF ReadInv
<1>2. ASSUME NEW c \in Clients, UNCHANGED <<comm, store, pageVars>>, usr' = Gone(c)
      PROVE  ReadInv'
  BY <1>2, ReadGone DEF Gone
<1>3. ASSUME NEW c \in Clients, NEW h \in 1 .. MaxGen, HandleExit(c, h) PROVE ReadInv'
  <2>1. UNCHANGED pageVars
    BY <1>3 DEF HandleExit
  <2>2. CASE HashMatches(c, h)
    <3>1. Registered(c) /\ h = gen[c] /\ proc[c] # "up" /\ ExitClients({c})
      BY <1>3, <2>2 DEF HandleExit, HashMatches, ExitInv
    <3>2. \A s \in Slots : usr'[s] = IF usr[s].owner \in {c} THEN NoUser ELSE usr[s]
      <4>1. CASE proc[c] = "exiting"
        BY <1>3, <3>1, <4>1 DEF HandleExit, Gone
      <4>2. CASE proc[c] = "down"
        <5>1. \A s \in Slots : usr[s].owner # c
          BY <4>2, PageEngineAssumption DEF UseInv, UserOK
        <5>2. QED
          BY <1>3, <4>2, <5>1 DEF HandleExit
      <4>3. QED
        BY <3>1, <4>1, <4>2 DEF TypeOK
    <3>3. {c} \in SUBSET Clients /\ \A d \in {c} : Registered(d)
      BY <3>1
    <3>4. QED
      BY <2>1, <3>1, <3>2, <3>3, ReadExit
  <2>3. CASE ~HashMatches(c, h)
    BY <1>1, <1>2, <1>3, <2>3 DEF HandleExit
  <2>4. QED
    BY <2>2, <2>3
<1>4. CASE SocketNext
  BY <1>1, <1>3, <1>4, ReadJoin
  DEF SocketNext, RegClient, RegJournalFull, RegisterStrategy
<1>5. CASE ClientNext
  BY <1>1, <1>2, <1>5, ReadJoin, ReadAsk, ReadAnswer
  DEF ClientNext, AddJournal, ExitRequest, Die
<1>6. CASE PidCheck
  <2> DEFINE cs == {c \in Clients : Dead(c)}
  <2>1. ExitClients(cs) /\ UNCHANGED <<usr, pageVars>>
    BY <1>6 DEF PidCheck
  <2>2. \A c \in cs : Registered(c) /\ proc[c] = "down"
    BY DEF Dead
  <2>3. \A s \in Slots : usr[s].owner \notin cs
    BY <2>2, PageEngineAssumption DEF UseInv, UserOK
  <2> HIDE DEF cs
  <2>4. cs \in SUBSET Clients
    BY DEF cs
  <2>5. QED
    BY <2>1, <2>2, <2>3, <2>4, ReadExit
<1>7. CASE TempPage
  <2>1. store'.files = store.files
    BY <1>7 DEF TempPage, AddTempPage, TypeOK, Store
  <2>2. QED
    BY <1>1, <1>7, <2>1 DEF TempPage
<1>8. ASSUME NEW s \in Slots, CommScan(s) PROVE ReadInv'
  BY <1>1, <1>8 DEF CommScan
<1>9. CASE UNCHANGED vars
  BY <1>1, <1>9 DEF vars
<1>10. QED
  BY <1>4, <1>5, <1>6, <1>7, <1>8, <1>9, ReadServe, ReadRemember DEF Next, ServiceNext

LEMMA ReadInit == Init => ReadInv
<1>1. NoClient \notin Clients
  BY PageEngineAssumption
<1>2. QED
  BY <1>1 DEF Init, RawMsg, NoUser, ReadInv, PagesInv, ReadOK

(***************************************************************************)
(* If no process dies while it waits for a page, and no spare page fails   *)
(* to be renamed, a reader that is not expired always has a page: it never *)
(* starts again from page 1, for any number of readers, writers and pages. *)
(***************************************************************************)
THEOREM ReadersGoOn ==
  ASSUME DieRequesting = FALSE, RenameOutcomes = {TRUE}
  PROVE  Spec => []ReaderNeverRestarts
<1>1. ReadInv => ReaderNeverRestarts
  BY DEF ReadInv, ReadOK, ReaderNeverRestarts
<1>2. QED
  BY <1>1, ReadInit, ReadNext, UseInvariant, TypeCorrect, SlotInvariant, ExitInvariant, PTL DEF Spec
=============================================================================
