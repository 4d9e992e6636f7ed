----------------------------- MODULE PageStore -----------------------------
(***************************************************************************)
(* The page table of the memory service: which page files exist, which are *)
(* mapped and locked by the service, and how many readers and writers the  *)
(* service has counted on each.  The operators are PageEngine::            *)
(* release_page and PageEngine::initiate_page as functions on the table;   *)
(* PageEngine.tla runs them inside its critical sections.                  *)
(***************************************************************************)
EXTENDS Integers, FiniteSets

CONSTANTS
  Journals,   \* the (folder, name) pairs of the journals
  NoJournal,  \* the empty folder and name of a zeroed PageCommMsg
  MaxPage     \* bound: the highest page number a client may ask for

ASSUME PageStoreAssumption ==
  /\ NoJournal \notin Journals
  /\ MaxPage \in Nat \ {0}

(***************************************************************************)
(* Page number 0 is a zeroed message, -1 is what Journal::expire asks for. *)
(* The order of PageCommMsg compares folder, name and page number, so      *)
(* these are the keys of both count maps, and also name the page file.     *)
(***************************************************************************)
PageNums == -1 .. MaxPage
Keys == (Journals \cup {NoJournal}) \X PageNums

Statuses ==
  { "RAW", "OCCUPIED", "HOLDING", "REQUESTING", "ALLOCATED",
    "NON_EXIST", "MORE_THAN_ONE_WRITE", "CANNOT_RENAME_FROM_TEMP" }

PageCommMsg ==
  [ status : Statuses, journal : Journals \cup {NoJournal}, is_writer : BOOLEAN,
    page_num : PageNums, last_page_num : PageNums ]

KeyOf(msg) == <<msg.journal, msg.page_num>>

(***************************************************************************)
(* A count of 0 stands for a key that is absent from the map.              *)
(*   temp : the spare page TEMP_PAGE is mapped (its entry of fileAddrs)    *)
(*   fileAddrs : the journal pages the service keeps mapped                *)
(*   files : the page files on disk                                        *)
(***************************************************************************)
Store ==
  [ fileWriterCounts : [Keys -> Nat], fileReaderCounts : [Keys -> Nat],
    fileAddrs : SUBSET Keys, files : SUBSET Keys, temp : BOOLEAN ]

EmptyStore ==
  [ fileWriterCounts |-> [k \in Keys |-> 0], fileReaderCounts |-> [k \in Keys |-> 0],
    fileAddrs |-> {}, files |-> {}, temp |-> FALSE ]

-----------------------------------------------------------------------------
(***************************************************************************)
(* release_page for every message of msgs, a function from slot numbers to *)
(* messages: exit_client calls it once per slot, start_comm for one.  Each *)
(* call takes one off the count of its key (a key that is not counted is   *)
(* logged and skipped); the call that brings a count to zero unmaps the    *)
(* page if the other side has no count on it.                              *)
(***************************************************************************)
Releasing(msgs, isWriter, k) ==
  Cardinality({x \in DOMAIN msgs : msgs[x].is_writer = isWriter /\ KeyOf(msgs[x]) = k})

(* Mutant: a key that is not counted is decremented all the same. *)
CountAfterUnchecked(count, released) == count - released

CountAfter(count, released) == IF count > released THEN count - released ELSE 0

WritersAfter(st, msgs) ==
  [k \in Keys |-> CountAfter(st.fileWriterCounts[k], Releasing(msgs, TRUE, k))]
ReadersAfter(st, msgs) ==
  [k \in Keys |-> CountAfter(st.fileReaderCounts[k], Releasing(msgs, FALSE, k))]

Unmapped(st, msgs) ==
  {k \in Keys : /\ WritersAfter(st, msgs)[k] = 0 /\ ReadersAfter(st, msgs)[k] = 0
                /\ st.fileWriterCounts[k] > 0 \/ st.fileReaderCounts[k] > 0}

Release(st, msgs) ==
  [st EXCEPT !.fileWriterCounts = WritersAfter(st, msgs),
             !.fileReaderCounts = ReadersAfter(st, msgs),
             !.fileAddrs = @ \ Unmapped(st, msgs)]

-----------------------------------------------------------------------------
(***************************************************************************)
(* initiate_page: the status it returns.  renamed is the outcome of the    *)
(* rename() that turns the spare page into the new page file.              *)
(***************************************************************************)
InitiateStatus(st, msg, renamed) ==
  LET k == KeyOf(msg)
      absent == k \notin st.fileAddrs /\ k \notin st.files
  IN  IF absent /\ ~msg.is_writer THEN "NON_EXIST"
      ELSE IF absent /\ st.temp /\ ~renamed THEN "CANNOT_RENAME_FROM_TEMP"
      ELSE IF msg.is_writer /\ st.fileWriterCounts[k] > 0 THEN "MORE_THAN_ONE_WRITE"
      ELSE "ALLOCATED"

(***************************************************************************)
(* ... and what it leaves in the table.  A page that has to be created     *)
(* takes the spare page when there is one; a second writer is refused only *)
(* after the page has been mapped.                                         *)
(***************************************************************************)
WritersWith(st, msg, status) ==
  IF status = "ALLOCATED" /\ msg.is_writer
  THEN [st.fileWriterCounts EXCEPT ![KeyOf(msg)] = 1] ELSE st.fileWriterCounts
ReadersWith(st, msg, status) ==
  IF status = "ALLOCATED" /\ ~msg.is_writer
  THEN [st.fileReaderCounts EXCEPT ![KeyOf(msg)] = @ + 1] ELSE st.fileReaderCounts

(* Mutant: the page is mapped also when the spare page cannot be renamed. *)
InitiateStoreMapping(st, msg, status) ==
  [st EXCEPT !.fileWriterCounts = WritersWith(st, msg, status),
             !.fileReaderCounts = ReadersWith(st, msg, status),
             !.fileAddrs = IF status = "NON_EXIST" THEN @ ELSE @ \cup {KeyOf(msg)}]

InitiateStore(st, msg, status) ==
  LET k == KeyOf(msg)
  IN  IF status \in {"NON_EXIST", "CANNOT_RENAME_FROM_TEMP"} THEN st
      ELSE [ fileWriterCounts |-> WritersWith(st, msg, status),
             fileReaderCounts |-> ReadersWith(st, msg, status),
             fileAddrs |-> st.fileAddrs \cup {k},
             files |-> st.files \cup {k},
             temp |-> st.temp /\ (k \in st.fileAddrs \/ k \in st.files) ]

(***************************************************************************)
(* PstTempPage::go maps a spare page when there is none.                   *)
(***************************************************************************)
AddTempPage(st) == [st EXCEPT !.temp = TRUE]
=============================================================================
