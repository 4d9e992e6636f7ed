---------------------------- MODULE PageEngine ----------------------------
(***************************************************************************)
(* The page memory service (yijinjing/paged) and the client side of its    *)
(* protocol (ClientPageProvider, and Journal as its caller).  Clients talk *)
(* to the service over a socket, one request at a time, to register, to    *)
(* get a slot of the shared comm buffer and to leave; they ask for pages   *)
(* by writing their slot, which the comm thread of the service polls.      *)
(*                                                                         *)
(* An action is one critical section of the service (paged_mtx) or one     *)
(* uninterrupted piece of client code between two waits.  The critical     *)
(* section of the comm thread is two actions: its first store answers the  *)
(* client, which spins without the mutex, before its second.               *)
(***************************************************************************)
EXTENDS PageStore

CONSTANTS
  Clients,        \* the client names
  WriterClients,  \* those that register as writers
  Strategies,     \* the writers that go on to register as strategies
  NoClient,       \* "not in the map clientJournals"
  MaxUsers,       \* MAX_COMM_USER_NUMBER
  RidRange,       \* REQUEST_ID_RANGE
  Restarting,     \* bound: the clients that register more than once
  MaxGen,         \* bound: how often these register
  MaxReaderUsers, \* bound: slots a reader client takes
  MaxReaders,     \* bound: readers counted on one page
  RenameOutcomes, \* what rename() of the spare page may return
  HasTempPage,    \* is the PstTempPage task installed?
  DieRequesting   \* may a process die while it waits in getPage?

ASSUME PageEngineAssumption ==
  /\ WriterClients \subseteq Clients
  /\ Strategies \subseteq WriterClients
  /\ NoClient \notin Clients
  /\ MaxUsers \in Nat \ {0}
  /\ RidRange \in Nat \ {0}
  /\ Restarting \subseteq Clients
  /\ MaxGen \in Nat /\ MaxReaderUsers \in Nat /\ MaxReaders \in Nat
  /\ RenameOutcomes \subseteq BOOLEAN /\ RenameOutcomes # {}
  /\ HasTempPage \in BOOLEAN /\ DieRequesting \in BOOLEAN

Slots == 0 .. MaxUsers - 1

VARIABLES
  comm,           \* commBuffer: one PageCommMsg per slot
  maxIdx,         \* highest slot the comm thread polls
  clientJournals, \* client name -> PageClientInfo
  store,          \* fileWriterCounts, fileReaderCounts, fileAddrs and the disk
  serving,        \* does the service run?
  commPc,         \* comm thread: "scan", "demand" once it has seen a request, and
                  \* "remember" between its two stores to the slot
  commIdx,        \* comm thread: the slot it serves (0 while it scans)
  overtaken,      \* history: pages whose writer asked for the next one in between
  proc,           \* client name -> state of the process that runs it
  gen,            \* client name -> registrations so far; stands for the hash code
  usr,            \* slot -> the Journal object that uses it
  regMsgs,        \* reg_journal requests written to the socket and not yet handled
  exitMsgs,       \* exit requests written to the socket and not yet handled
  inited,         \* pages whose header a writer has initialised
  ended           \* pages a writer has finished (PAGE_END frame)

serverVars == <<comm, maxIdx, clientJournals, store, serving>>
commThread == <<commPc, commIdx, overtaken>>
clientVars == <<proc, gen, usr, regMsgs, exitMsgs>>
pageVars   == <<inited, ended>>
vars == <<serverVars, commThread, clientVars, pageVars>>

(***************************************************************************)
(* A Journal object: which client owns it, the call it is waiting in, the  *)
(* page it has mapped (curPage, 0 for null), its expired flag, and the     *)
(* page it is about to seek to.                                            *)
(***************************************************************************)
Calls == {"none", "fill", "list", "seek", "next", "expire", "failed"}
PageCalls == {"seek", "next", "expire"}
NoUser == [owner |-> NoClient, journal |-> NoJournal, call |-> "none",
           cur |-> 0, expired |-> FALSE, target |-> 0]
JournalUser ==
  [ owner : Clients \cup {NoClient}, journal : Journals \cup {NoJournal}, call : Calls,
    cur : PageNums, expired : BOOLEAN, target : PageNums ]

ClientInfo ==
  [ users : SUBSET Slots, hash : Nat, is_strategy : BOOLEAN,
    rid_start : Int, rid_end : Int ]

(* The mark of a name that is not in the map is not one of its entries. *)
ASSUME NoClientAssumption == NoClient \notin ClientInfo

RawMsg == [status |-> "RAW", journal |-> NoJournal, is_writer |-> FALSE,
           page_num |-> 0, last_page_num |-> 0]

Init ==
  /\ comm = [s \in Slots |-> RawMsg]
  /\ maxIdx = 0
  /\ clientJournals = [c \in Clients |-> NoClient]
  /\ store = EmptyStore
  /\ serving = TRUE
  /\ commPc = "scan"
  /\ commIdx = 0
  /\ overtaken = {}
  /\ proc = [c \in Clients |-> "down"]
  /\ gen = [c \in Clients |-> 0]
  /\ usr = [s \in Slots |-> NoUser]
  /\ regMsgs = {}
  /\ exitMsgs = {}
  /\ inited = {}
  /\ ended = {}

Registered(c) == clientJournals[c] # NoClient
Owned(s) == \E c \in Clients : Registered(c) /\ s \in clientJournals[c].users
UsersOf(c) == {s \in Slots : usr[s].owner = c}
Requesting(s) == comm[s].status = "REQUESTING"
Dead(c) == Registered(c) /\ proc[c] = "down"
NoPageOf(j) == \A p \in 1 .. MaxPage : <<j, p>> \notin store.files
IsLastPage(j, p) == <<j, p>> \in store.files /\ \A q \in p + 1 .. MaxPage : <<j, q>> \notin store.files

-----------------------------------------------------------------------------
(* Registration, over the socket.                                          *)

(***************************************************************************)
(* The socket thread takes one request at a time, whole, under paged_mtx;  *)
(* while the service runs, so do the tasks.                                *)
(***************************************************************************)
MutexFree == serving /\ commPc # "remember"

(***************************************************************************)
(* A new process registers its client name.  (reg_client refuses a name    *)
(* that is still in the map; the constructor then throws, and nothing      *)
(* changes.)                                                               *)
(***************************************************************************)
RegClient(c) ==
  /\ MutexFree /\ proc[c] = "down" /\ ~Registered(c)
  /\ gen[c] < IF c \in Restarting THEN MaxGen ELSE 1
  /\ proc' = [proc EXCEPT ![c] = "up"]
  /\ gen' = [gen EXCEPT ![c] = @ + 1]
  /\ clientJournals' = [clientJournals EXCEPT ![c] =
       [users |-> {}, hash |-> gen[c] + 1, is_strategy |-> FALSE, rid_start |-> -1, rid_end |-> -1]]
  /\ UNCHANGED <<comm, maxIdx, store, serving, commThread, usr, regMsgs, exitMsgs, pageVars>>

(* A process waits in one call at a time: here, in none. *)
Idle(c) ==
  /\ proc[c] = "up"
  /\ \A s \in UsersOf(c) : usr[s].call \in {"none", "list"}
  /\ \A j \in Journals : <<c, gen[c], j>> \notin regMsgs

MayAddJournal(c) ==
  IF c \in WriterClients THEN UsersOf(c) = {}
  ELSE Cardinality(UsersOf(c)) < MaxReaderUsers

(* Mutant: a slot that was given out but not filled yet counts as free. *)
FirstNotHolding(s) ==
  LET free(t) == comm[t].status \in {"RAW", "OCCUPIED"}
  IN  free(s) /\ \A t \in Slots : t < s => ~free(t)

FirstRaw(s) == comm[s].status = "RAW" /\ \A t \in Slots : t < s => comm[t].status # "RAW"

(***************************************************************************)
(* addJournal: register_journal writes its request to the socket and waits *)
(* for the answer.  A reader adds a journal at most once, a writer has     *)
(* exactly one.  The request names the client only: which registration it  *)
(* comes from, and for which journal, is what the waiting process knows.   *)
(***************************************************************************)
AddJournal(c, j) ==
  /\ serving /\ Idle(c) /\ MayAddJournal(c)
  /\ \A t \in UsersOf(c) : usr[t].journal # j
  /\ regMsgs' = regMsgs \cup {<<c, gen[c], j>>}
  /\ UNCHANGED <<serverVars, commThread, proc, gen, usr, exitMsgs, pageVars>>

(* Does the process that wrote the request still wait for its answer? *)
Waits(c, h) == proc[c] = "up" /\ gen[c] = h

TakesRequest(c, h, j) ==
  /\ MutexFree /\ <<c, h, j>> \in regMsgs
  /\ regMsgs' = regMsgs \ {<<c, h, j>>}

(***************************************************************************)
(* reg_journal takes the first RAW slot before it looks for the client.    *)
(* The answer to a process that is gone throws in the socket thread, where *)
(* nothing catches it: the service ends.                                   *)
(***************************************************************************)
TakeSlot(s) ==
  /\ FirstRaw(s)
  /\ comm' = [comm EXCEPT ![s].status = "OCCUPIED", ![s].last_page_num = 0]

GiveSlot(c, h, j, s) ==
  /\ TakesRequest(c, h, j) /\ TakeSlot(s)
  /\ Registered(c)
  /\ clientJournals' = [clientJournals EXCEPT ![c].users = @ \cup {s}]
  /\ usr' = IF Waits(c, h)
            THEN [usr EXCEPT ![s] = [NoUser EXCEPT !.owner = c, !.journal = j, !.call = "fill"]]
            ELSE usr
  /\ serving' = Waits(c, h)
  /\ UNCHANGED <<store, commThread, proc, gen, exitMsgs, pageVars>>

(* Mutant: the comm thread is not told of a slot beyond those it polls. *)
RegJournalUnpolled(c, h, j, s) == GiveSlot(c, h, j, s) /\ UNCHANGED maxIdx

PolledUpTo(s) == maxIdx' = IF s > maxIdx THEN s ELSE maxIdx

RegJournal(c, h, j, s) == GiveSlot(c, h, j, s) /\ PolledUpTo(s)

(***************************************************************************)
(* The exception of a failed registration or a refused writer unwinds the  *)
(* JournalHandler, whose destructor sends the exit request.                *)
(***************************************************************************)
SendExit(c) ==
  /\ proc' = [proc EXCEPT ![c] = "exiting"]
  /\ exitMsgs' = exitMsgs \cup {<<c, gen[c]>>}

(* The answer that there is no slot makes register_journal throw. *)
AnswerFailure(c, h) ==
  IF Waits(c, h)
  THEN SendExit(c) /\ UNCHANGED serving
  ELSE serving' = FALSE /\ UNCHANGED <<proc, exitMsgs>>

(* reg_journal took a slot, and does not find the client: the slot is not given back. *)
RegJournalUnknown(c, h, j, s) ==
  /\ TakesRequest(c, h, j) /\ TakeSlot(s) /\ PolledUpTo(s)
  /\ ~Registered(c)
  /\ AnswerFailure(c, h)
  /\ UNCHANGED <<clientJournals, store, commThread, gen, usr, pageVars>>

(* reg_journal found no RAW slot. *)
RegJournalFull(c, h, j) ==
  /\ TakesRequest(c, h, j)
  /\ \A s \in Slots : comm[s].status # "RAW"
  /\ AnswerFailure(c, h)
  /\ UNCHANGED <<comm, maxIdx, clientJournals, store, commThread, gen, usr, pageVars>>

(* register_journal fills the slot it was given, or throws if the slot is not OCCUPIED. *)
FillSlot(s) ==
  LET c == usr[s].owner
  IN  /\ usr[s].call = "fill" /\ c \in Clients /\ proc[c] = "up"
      /\ IF comm[s].status = "OCCUPIED"
         THEN /\ comm' = [comm EXCEPT ![s].journal = usr[s].journal,
                                      ![s].is_writer = c \in WriterClients,
                                      ![s].status = "HOLDING"]
              /\ usr' = [usr EXCEPT ![s].call = "list"]
              /\ UNCHANGED <<proc, exitMsgs>>
         ELSE SendExit(c) /\ UNCHANGED <<comm, usr>>
      /\ UNCHANGED <<maxIdx, clientJournals, store, serving, commThread, gen, regMsgs, pageVars>>

RidStart(s) == (s + 1) * RidRange

(* Mutant: the window ends where the next one starts. *)
RidEndInclusive(s) == (s + 2) * RidRange

RidEnd(s) == (s + 2) * RidRange - 1

(* register_strategy takes user_index_vec[0]: a writer has one user. *)
RegisterStrategy(c) ==
  /\ MutexFree /\ c \in Strategies /\ Idle(c) /\ Registered(c)
  /\ ~clientJournals[c].is_strategy
  /\ \E s \in clientJournals[c].users :
       /\ usr[s].call = "none"
       /\ clientJournals' = [clientJournals EXCEPT ![c].is_strategy = TRUE,
                                                   ![c].rid_start = RidStart(s),
                                                   ![c].rid_end = RidEnd(s)]
  /\ UNCHANGED <<comm, maxIdx, store, serving, commThread, clientVars, pageVars>>

-----------------------------------------------------------------------------
(* Page requests, through the comm buffer.                                 *)

(* The comm thread has answered slot s and not yet stored its last page. *)
Served(s) == commPc = "remember" /\ commIdx = s
Holding(s) == comm[s].status = "ALLOCATED"

(* getPage up to its spin loop. *)
AskPage(s, call, p) ==
  /\ comm' = [comm EXCEPT ![s].page_num = p, ![s].status = "REQUESTING"]
  /\ usr' = [usr EXCEPT ![s].call = call, ![s].target = 0]
  /\ overtaken' = IF Served(s) /\ Holding(s) /\ comm[s].is_writer
                  THEN overtaken \cup {KeyOf(comm[s])} ELSE overtaken
  /\ UNCHANGED <<maxIdx, clientJournals, store, serving, commPc, commIdx, proc, gen,
                 regMsgs, exitMsgs, pageVars>>

(***************************************************************************)
(* JournalWriter::seekEnd lists the page files before it asks for the last *)
(* one; a journal without a page starts with page 1.                       *)
(***************************************************************************)
ListPages(s) ==
  /\ usr[s].call = "list" /\ usr[s].target = 0
  /\ usr[s].owner \in WriterClients /\ Idle(usr[s].owner)
  /\ \E p \in 1 .. MaxPage :
       /\ \/ IsLastPage(usr[s].journal, p)
          \/ p = 1 /\ NoPageOf(usr[s].journal)
       /\ usr' = [usr EXCEPT ![s].target = p]
  /\ UNCHANGED <<serverVars, commThread, proc, gen, regMsgs, exitMsgs, pageVars>>

WriterSeekEnd(s) ==
  /\ usr[s].call = "list" /\ usr[s].target > 0 /\ Idle(usr[s].owner)
  /\ AskPage(s, "seek", usr[s].target)

(***************************************************************************)
(* seekTime of a reader: to the first, the last or any page that exists.   *)
(* The reader may seek again at any time (seekTimeJournal).                *)
(***************************************************************************)
ReaderSeek(s, p) ==
  /\ usr[s].call \in {"list", "none"} /\ usr[s].owner \in Clients \ WriterClients
  /\ Idle(usr[s].owner)
  /\ \/ <<usr[s].journal, p>> \in store.files
     \/ p = 1 /\ NoPageOf(usr[s].journal)
  /\ store.fileReaderCounts[<<usr[s].journal, p>>] < MaxReaders
  /\ AskPage(s, "seek", p)

(***************************************************************************)
(* loadNextPage: a writer whose page is full, a reader at a PAGE_END, or   *)
(* a reader without a page, which starts again from page 1.                *)
(***************************************************************************)
CanLoadNext(s) ==
  /\ usr[s].owner \in Clients /\ Idle(usr[s].owner)
  /\ usr[s].call = "none" /\ ~usr[s].expired /\ usr[s].cur < MaxPage
  /\ \/ usr[s].owner \in WriterClients /\ usr[s].cur > 0
     \/ /\ usr[s].owner \notin WriterClients
        /\ usr[s].cur = 0 \/ <<usr[s].journal, usr[s].cur>> \in ended
        /\ store.fileReaderCounts[<<usr[s].journal, usr[s].cur + 1>>] < MaxReaders

(* Mutant: the writer ends its page before it asks for the next one. *)
LoadNextPageEndingFirst(s) ==
  /\ CanLoadNext(s)
  /\ comm' = [comm EXCEPT ![s].page_num = usr[s].cur + 1, ![s].status = "REQUESTING"]
  /\ usr' = [usr EXCEPT ![s].call = "next", ![s].target = 0]
  /\ ended' = IF usr[s].owner \in WriterClients
              THEN ended \cup {<<usr[s].journal, usr[s].cur>>} ELSE ended
  /\ UNCHANGED <<maxIdx, clientJournals, store, serving, commThread, proc, gen, regMsgs, exitMsgs, inited>>

LoadNextPage(s) ==
  /\ CanLoadNext(s)
  /\ AskPage(s, "next", usr[s].cur + 1)

(* Journal::expire, which a reader's expireJournal calls. *)
Expire(s) ==
  /\ usr[s].owner \in Clients \ WriterClients /\ Idle(usr[s].owner)
  /\ usr[s].call = "none" /\ ~usr[s].expired
  /\ store.fileReaderCounts[<<usr[s].journal, -1>>] < MaxReaders
  /\ comm' = [comm EXCEPT ![s].page_num = -1, ![s].status = "REQUESTING"]
  /\ usr' = [usr EXCEPT ![s].call = "expire", ![s].expired = TRUE, ![s].cur = 0]
  /\ UNCHANGED <<maxIdx, clientJournals, store, serving, commThread, proc, gen, regMsgs, exitMsgs,
                 pageVars>>

(***************************************************************************)
(* The comm thread polls the slots 0..maxIdx round robin and finds one     *)
(* REQUESTING; it reads the status without the mutex.  Which slot it is at *)
(* is left open: the round robin is in the fairness of FairSpec.           *)
(***************************************************************************)
CommScan(s) ==
  /\ serving /\ commPc = "scan" /\ s <= maxIdx /\ Requesting(s)
  /\ commPc' = "demand" /\ commIdx' = s
  /\ UNCHANGED <<serverVars, overtaken, clientVars, pageVars>>

(* Mutant: off by one, the first page is never released. *)
ReleaseLastButFirst(s) ==
  LET msg == comm[s]
  IN  IF msg.last_page_num > 1 /\ msg.last_page_num # msg.page_num
      THEN Release(store, [x \in {s} |-> [msg EXCEPT !.page_num = msg.last_page_num]])
      ELSE store

(***************************************************************************)
(* ... and serves the slot under the mutex, without looking at the status  *)
(* again: release the page of the last request and initiate the new one.   *)
(* Its status ends the client's spinning.                                  *)
(***************************************************************************)
ReleaseLast(s) ==
  LET msg == comm[s]
  IN  IF msg.last_page_num > 0 /\ msg.last_page_num # msg.page_num
      THEN Release(store, [x \in {s} |-> [msg EXCEPT !.page_num = msg.last_page_num]])
      ELSE store

CommServe ==
  /\ serving /\ commPc = "demand"
  /\ \E renamed \in RenameOutcomes :
       LET released == ReleaseLast(commIdx)
           status   == InitiateStatus(released, comm[commIdx], renamed)
       IN  /\ store' = InitiateStore(released, comm[commIdx], status)
           /\ comm' = [comm EXCEPT ![commIdx].status = status]
  /\ commPc' = "remember"
  /\ UNCHANGED <<maxIdx, clientJournals, serving, commIdx, overtaken, clientVars, pageVars>>

(***************************************************************************)
(* Only then does it remember the page as the last one, whatever the       *)
(* outcome, and whatever page the slot names by then.                      *)
(***************************************************************************)
CommRemember ==
  /\ serving /\ commPc = "remember"
  /\ comm' = [comm EXCEPT ![commIdx].last_page_num = comm[commIdx].page_num]
  /\ commPc' = "scan"
  /\ commIdx' = 0
  /\ UNCHANGED <<maxIdx, clientJournals, store, serving, overtaken, clientVars, pageVars>>

(***************************************************************************)
(* getPage after its spin loop, and the rest of its caller.                *)
(***************************************************************************)
Answered(s) ==
  /\ usr[s].call \in PageCalls /\ proc[usr[s].owner] = "up"
  /\ ~Requesting(s)

Here(s) == <<usr[s].journal, comm[s].page_num>>

(* A writer initialises the header of its new page, then ends the old one. *)
WriterGetsPage(s) ==
  /\ Answered(s) /\ usr[s].owner \in WriterClients
  /\ comm[s].status = "ALLOCATED"
  /\ inited' = inited \cup {Here(s)}
  /\ ended' = IF usr[s].call = "next" THEN ended \cup {<<usr[s].journal, usr[s].cur>>} ELSE ended
  /\ usr' = [usr EXCEPT ![s].call = "none", ![s].cur = comm[s].page_num, ![s].expired = FALSE]
  /\ UNCHANGED <<serverVars, commThread, proc, gen, regMsgs, exitMsgs>>

(***************************************************************************)
(* A refused writer: the exception leaves the constructor of the writer,   *)
(* or the write call, which may be tried again.                            *)
(***************************************************************************)
WriterRefused(s) ==
  /\ Answered(s) /\ usr[s].owner \in WriterClients
  /\ comm[s].status = "MORE_THAN_ONE_WRITE"
  /\ IF usr[s].call = "seek"
     THEN SendExit(usr[s].owner) /\ usr' = [usr EXCEPT ![s].call = "failed"]
     ELSE usr' = [usr EXCEPT ![s].call = "none"] /\ UNCHANGED <<proc, exitMsgs>>
  /\ UNCHANGED <<serverVars, commThread, gen, regMsgs, pageVars>>

Gone(c) == [s \in Slots |-> IF usr[s].owner = c THEN NoUser ELSE usr[s]]

(***************************************************************************)
(* Any other answer gives a writer a null page.  A writer that seeks goes  *)
(* on, expired, to fail on its first write; one that loads the next page   *)
(* ends its old page and then dereferences null.                           *)
(***************************************************************************)
WriterLost(s) ==
  /\ Answered(s) /\ usr[s].owner \in WriterClients
  /\ comm[s].status = "CANNOT_RENAME_FROM_TEMP"
  /\ IF usr[s].call = "seek"
     THEN /\ usr' = [usr EXCEPT ![s].call = "none", ![s].cur = 0, ![s].expired = TRUE]
          /\ UNCHANGED <<proc, ended>>
     ELSE /\ proc' = [proc EXCEPT ![usr[s].owner] = "down"]
          /\ usr' = Gone(usr[s].owner)
          /\ ended' = ended \cup {<<usr[s].journal, usr[s].cur>>}
  /\ UNCHANGED <<serverVars, commThread, gen, regMsgs, exitMsgs, inited>>

(* A reader gets null also for a page whose header is not initialised yet. *)
ReaderGetsAnswer(s) ==
  /\ Answered(s) /\ usr[s].owner \notin WriterClients
  /\ LET loaded == comm[s].status = "ALLOCATED" /\ Here(s) \in inited
     IN  usr' = [usr EXCEPT ![s].call = "none",
                            ![s].cur = IF loaded THEN comm[s].page_num ELSE 0,
                            ![s].expired = IF usr[s].call = "seek" THEN ~loaded ELSE @]
  /\ UNCHANGED <<serverVars, commThread, proc, gen, regMsgs, exitMsgs, pageVars>>

-----------------------------------------------------------------------------
(* Leaving: exit requests, deaths, and the periodic tasks.                 *)

ExitRequest(c) ==
  /\ serving /\ Idle(c)
  /\ SendExit(c)
  /\ UNCHANGED <<serverVars, commThread, gen, usr, regMsgs, pageVars>>

(* A process may die at any point, its request to the socket still queued. *)
Die(c) ==
  /\ proc[c] \in {"up", "exiting"}
  /\ DieRequesting \/ \A s \in UsersOf(c) : ~Requesting(s)
  /\ proc' = [proc EXCEPT ![c] = "down"]
  /\ usr' = Gone(c)
  /\ UNCHANGED <<serverVars, commThread, gen, regMsgs, exitMsgs, pageVars>>

(***************************************************************************)
(* exit_client for every client of cs.  Only a slot that is ALLOCATED has  *)
(* its page released; every slot becomes RAW.                              *)
(***************************************************************************)
Leaving(cs) == UNION {clientJournals[c].users : c \in cs}

Forget(cs) == clientJournals' = [c \in Clients |-> IF c \in cs THEN NoClient ELSE clientJournals[c]]

(* Mutant: the page of every slot is released, also of one that was refused. *)
ExitClientsReleasingAll(cs) ==
  /\ store' = Release(store, [s \in Leaving(cs) |-> comm[s]])
  /\ comm' = [s \in Slots |-> IF s \in Leaving(cs) THEN [comm[s] EXCEPT !.status = "RAW"] ELSE comm[s]]
  /\ Forget(cs)

(* Mutant: only the slots that hold a page are freed. *)
ExitClientsFreeingHolders(cs) ==
  LET holding == {s \in Leaving(cs) : comm[s].status = "ALLOCATED"}
  IN  /\ store' = Release(store, [s \in holding |-> comm[s]])
      /\ comm' = [s \in Slots |-> IF s \in holding THEN [comm[s] EXCEPT !.status = "RAW"] ELSE comm[s]]
      /\ Forget(cs)

ExitClients(cs) ==
  LET holding == {s \in Leaving(cs) : comm[s].status = "ALLOCATED"}
  IN  /\ store' = Release(store, [s \in holding |-> comm[s]])
      /\ comm' = [s \in Slots |-> IF s \in Leaving(cs) THEN [comm[s] EXCEPT !.status = "RAW"] ELSE comm[s]]
      /\ Forget(cs)

(* Mutant: the hash code is not compared. *)
NameMatches(c, h) == Registered(c)

(* The exit request of registration h of c: only the hash it was given counts. *)
HashMatches(c, h) == Registered(c) /\ clientJournals[c].hash = h

HandleExit(c, h) ==
  /\ MutexFree /\ <<c, h>> \in exitMsgs
  /\ exitMsgs' = exitMsgs \ {<<c, h>>}
  /\ IF HashMatches(c, h)
     THEN ExitClients({c})
     ELSE UNCHANGED <<store, comm, clientJournals>>
  /\ IF proc[c] = "exiting" /\ gen[c] = h
     THEN proc' = [proc EXCEPT ![c] = "down"] /\ usr' = Gone(c) /\ UNCHANGED serving
     ELSE serving' = FALSE /\ UNCHANGED <<proc, usr>>
  /\ UNCHANGED <<maxIdx, commThread, gen, regMsgs, pageVars>>

(* Mutant: exit_client is called with the hash check on, and no hash. *)
PidCheckWithHash ==
  /\ MutexFree /\ \E c \in Clients : Dead(c)
  /\ ExitClients({c \in Clients : Dead(c) /\ HashMatches(c, 0)})
  /\ UNCHANGED <<maxIdx, serving, commThread, clientVars, pageVars>>

(* PstPidCheck::go: every client whose process is gone. *)
PidCheck ==
  /\ MutexFree /\ \E c \in Clients : Dead(c)
  /\ ExitClients({c \in Clients : Dead(c)})
  /\ UNCHANGED <<maxIdx, serving, commThread, clientVars, pageVars>>

TempPage ==
  /\ MutexFree /\ HasTempPage /\ ~store.temp
  /\ store' = AddTempPage(store)
  /\ UNCHANGED <<comm, maxIdx, clientJournals, serving, commThread, clientVars, pageVars>>

-----------------------------------------------------------------------------
SocketNext ==
  \/ \E c \in Clients : RegClient(c)
  \/ \E c \in Clients, h \in 1 .. MaxGen, j \in Journals, s \in Slots : RegJournal(c, h, j, s)
  \/ \E c \in Clients, h \in 1 .. MaxGen, j \in Journals, s \in Slots : RegJournalUnknown(c, h, j, s)
  \/ \E c \in Clients, h \in 1 .. MaxGen, j \in Journals : RegJournalFull(c, h, j)
  \/ \E c \in Clients : RegisterStrategy(c)
  \/ \E c \in Clients, h \in 1 .. MaxGen : HandleExit(c, h)

ClientNext ==
  \/ \E c \in Clients, j \in Journals : AddJournal(c, j)
  \/ \E c \in Clients : ExitRequest(c)
  \/ \E s \in Slots : FillSlot(s)
  \/ \E s \in Slots : ListPages(s)
  \/ \E s \in Slots : WriterSeekEnd(s)
  \/ \E s \in Slots, p \in 1 .. MaxPage : ReaderSeek(s, p)
  \/ \E s \in Slots : LoadNextPage(s)
  \/ \E s \in Slots : Expire(s)
  \/ \E s \in Slots : WriterGetsPage(s)
  \/ \E s \in Slots : WriterRefused(s)
  \/ \E s \in Slots : WriterLost(s)
  \/ \E s \in Slots : ReaderGetsAnswer(s)
  \/ \E c \in Clients : Die(c)

ServiceNext ==
  \/ \E s \in Slots : CommScan(s)
  \/ CommServe
  \/ CommRemember
  \/ PidCheck
  \/ TempPage

Next == SocketNext \/ ClientNext \/ ServiceNext

Spec == Init /\ [][Next]_vars

(***************************************************************************)
(* The comm thread polls for ever, every slot in turn, and serves what it  *)
(* finds; the task thread runs the pid check once per period, and is not   *)
(* kept for ever from a mutex that is free again and again.  Both are      *)
(* loops that only stop with the service.                                  *)
(***************************************************************************)
FairSpec ==
  /\ Spec
  /\ \A s \in Slots : SF_vars(CommScan(s))
  /\ WF_vars(CommServe) /\ WF_vars(CommRemember)
  /\ SF_vars(PidCheck)

-----------------------------------------------------------------------------
(* Properties.                                                             *)

WriterSlot(s) == Owned(s) /\ comm[s].is_writer

(* Every variable has its type (PageCommStruct.h, PageClientInfo, the maps of PageEngine.h). *)
TypeOK ==
  /\ comm \in [Slots -> PageCommMsg]
  /\ maxIdx \in Slots
  /\ clientJournals \in [Clients -> ClientInfo \cup {NoClient}]
  /\ store \in Store
  /\ serving \in BOOLEAN
  /\ commPc \in {"scan", "demand", "remember"} /\ commIdx \in Slots /\ overtaken \subseteq Keys
  /\ proc \in [Clients -> {"down", "up", "exiting"}]
  /\ gen \in [Clients -> Nat]
  /\ usr \in [Slots -> JournalUser]
  /\ regMsgs \subseteq Clients \X Nat \X Journals
  /\ exitMsgs \subseteq Clients \X Nat
  /\ inited \subseteq Keys /\ ended \subseteq Keys

(***************************************************************************)
(* The service keeps a page mapped and locked exactly as long as it counts *)
(* a reader or a writer on it: initiate_page maps before it counts and may *)
(* still refuse, release_page unmaps from whichever side leaves last.      *)
(***************************************************************************)
MappedMatches(st) ==
  \A k \in Keys : k \in st.fileAddrs <=>
    st.fileWriterCounts[k] > 0 \/ st.fileReaderCounts[k] > 0
MappedIffCounted == MappedMatches(store)

(***************************************************************************)
(* A slot serves one client at a time, although slots are freed and given  *)
(* out again while the comm thread may still be serving the old owner.     *)
(***************************************************************************)
SlotsOwnedOnce ==
  \A c, d \in Clients : c # d /\ Registered(c) /\ Registered(d) =>
    clientJournals[c].users \cap clientJournals[d].users = {}

(***************************************************************************)
(* The request id windows of two live strategies never overlap, so that a  *)
(* trade engine can tell from a request id whose order it is.              *)
(***************************************************************************)
RidWindow(c) == clientJournals[c].rid_start .. clientJournals[c].rid_end
LiveStrategy(c) == Registered(c) /\ clientJournals[c].is_strategy
RidWindowsDisjoint ==
  \A c, d \in Clients : c # d /\ LiveStrategy(c) /\ LiveStrategy(d) =>
    RidWindow(c) \cap RidWindow(d) = {}

(***************************************************************************)
(* No page is allocated to two writers, whatever processes die and         *)
(* whichever slots are reused.                                             *)
(***************************************************************************)
OneWriterPerPage ==
  \A s, t \in Slots :
    s # t /\ WriterSlot(s) /\ WriterSlot(t) /\ Holding(s) /\ Holding(t)
      => KeyOf(comm[s]) # KeyOf(comm[t])

(* The writer of a page: who holds it, or asks for the next one. *)
WriterOf(s, k) ==
  /\ WriterSlot(s) /\ comm[s].journal = k[1]
  /\ \/ Holding(s) /\ comm[s].page_num = k[2]
     \/ Requesting(s) /\ comm[s].last_page_num = k[2]
HasWriter(k) == \E s \in Slots : WriterOf(s, k)
Counted(k) == store.fileWriterCounts[k] > 0

(***************************************************************************)
(* The header of PageEngine.h: fileWriterCounts is the "number of writers" *)
(* of the file.  A count without a writer locks the page for good, and a   *)
(* writer that asks for its next page between the two stores of the comm   *)
(* thread leaves one.  That is the only way: every other page that is      *)
(* counted has a writer, whatever processes die and whichever slots are    *)
(* reused.  And the page left so is counted for good: no exit and no pid   *)
(* check gives it back.                                                    *)
(***************************************************************************)
OnlyOvertakenPagesAreLeft ==
  \A k \in Keys : /\ Counted(k) => HasWriter(k) \/ k \in overtaken
                  /\ k \in overtaken => Counted(k)

(***************************************************************************)
(* A slot that no client owns is RAW: it can be given out again.  The one  *)
(* slot that reg_journal takes for a client it does not know is lost, and  *)
(* the answer to that client's process, which is gone, ends the service.   *)
(***************************************************************************)
UnownedSlotsRaw ==
  \A s \in Slots : ~Owned(s) =>
    comm[s].status = "RAW" \/ (~serving /\ comm[s].status = "OCCUPIED")

(***************************************************************************)
(* A reader that is not expired has a page: the next page exists and is    *)
(* initialised before the PAGE_END of the old one can be read.  (Without a *)
(* page it would start again from page 1 and deliver everything twice.)    *)
(***************************************************************************)
ReaderNeverRestarts ==
  \A s \in Slots : usr[s].owner \in Clients \ WriterClients /\ usr[s].call = "none" /\ ~usr[s].expired
    => usr[s].cur > 0

(***************************************************************************)
(* A client leaves the map only by its own exit request or its own death:  *)
(* a late exit request of an earlier process under the same name is told   *)
(* apart by its hash code.                                                 *)
(***************************************************************************)
LeavesByItself ==
  [][\A c \in Clients : Registered(c) /\ ~Registered(c)' =>
       Dead(c) \/ proc[c] = "exiting"]_vars

(* A client that spins in getPage gets its answer, as long as the service runs. *)
RequestsAnswered == \A s \in Slots : Requesting(s) ~> ~Requesting(s) \/ ~serving

(* A dead process is forgotten, as long as the service runs, and its name can be registered again. *)
DeadAreForgotten == \A c \in Clients : Dead(c) ~> ~Registered(c) \/ ~serving
=============================================================================
