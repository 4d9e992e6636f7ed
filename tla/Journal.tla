------------------------------ MODULE Journal ------------------------------
(***************************************************************************)
(* One journal in shared memory (yijinjing/journal): the writer's          *)
(* write_frame_full and loadNextPage, store by store, and readers that     *)
(* follow it without a lock.  A page is an array of cells; a frame header  *)
(* takes one cell, its data the cells behind it.  The writer may die       *)
(* between any two stores, and starts again at the end of the journal.     *)
(*                                                                         *)
(* The page service is reduced to its answer: a writer gets the page it    *)
(* asks for, a reader one that exists.                                     *)
(***************************************************************************)
EXTENDS Integers, Sequences, FiniteSets

CONSTANTS
  Readers,
  MaxPage,       \* bound: pages of the journal
  PageSize,      \* JOURNAL_PAGE_SIZE, in cells
  Headroom,      \* PAGE_MIN_HEADROOM, in cells
  Lengths,       \* the lengths of frames, header included
  MaxTime        \* bound: frames that are given a time

ASSUME JournalAssumption ==
  /\ MaxPage \in Nat \ {0} /\ PageSize \in Nat /\ Headroom \in Nat \ {0} /\ Headroom < PageSize
  /\ Lengths \subseteq 1 .. Headroom
  /\ MaxTime \in Nat

Pages == 1 .. MaxPage
Cells == 0 .. PageSize - 1
Times == 0 .. MaxTime + 1
Statuses == {"RAW", "WRITTEN", "PAGE_END"}

VARIABLES
  files,     \* pages that exist
  inited,    \* pages whose header is initialised
  start,     \* page -> start_nano of its header (0 before)
  frameNum,  \* page -> frame_num of its header (-1 before it is closed)
  status,    \* page -> cell -> status
  body,      \* page -> cell -> length and nano
  clock,     \* getNanoTime()
  log,       \* history: the frames marked WRITTEN, with their places
  wpc, wpage, wpos, wnum,  \* writer: curPage, position and frameNum
  wlen, wfill,             \* writer: length of its frame (0 without one), cells copied
  wnew,                    \* writer: the page it is getting (0 for none)
  abandoned,               \* history: pages whose writer died between getting the next page and closing them
  rpc, rpage, rpos,        \* reader: curPage (0 for null) and position
  rtime,                   \* reader: the time it seeks
  rlate,                   \* history: readers that chose a page, not the first, before its header was initialised
  rlast                    \* reader: nano of the frame it delivered last

header == <<files, inited, start, frameNum>>
cellVars == <<status, body>>
writer == <<wpc, wpage, wpos, wnum, wlen, wfill, wnew, abandoned>>
reader == <<rpc, rpage, rpos, rtime, rlate, rlast>>
vars == <<header, cellVars, clock, log, writer, reader>>

Init ==
  /\ files = {} /\ inited = {}
  /\ start = [p \in Pages |-> 0] /\ frameNum = [p \in Pages |-> -1]
  /\ status = [p \in Pages |-> [c \in Cells |-> "RAW"]]
  /\ body = [p \in Pages |-> [c \in Cells |-> [length |-> 0, nano |-> 0]]]
  /\ clock = 1
  /\ log = <<>>
  /\ wpc = "down" /\ wpage = 0 /\ wpos = 0 /\ wnum = 0 /\ wlen = 0 /\ wfill = 0 /\ wnew = 0
  /\ abandoned = {}
  /\ rpc = [r \in Readers |-> "idle"] /\ rpage = [r \in Readers |-> 0]
  /\ rpos = [r \in Readers |-> 0] /\ rtime = [r \in Readers |-> 0]
  /\ rlate = {} /\ rlast = [r \in Readers |-> 0]

-----------------------------------------------------------------------------
(* The writer: pages.                                                      *)

LastPage == IF files = {} THEN 1 ELSE CHOOSE p \in files : \A q \in files : q <= p

(* JournalWriter::create, seekEnd: get the last page ... *)
SeekEnd ==
  /\ wpc = "down"
  /\ wnew' = LastPage /\ files' = files \cup {LastPage}
  /\ wpc' = "load" /\ wlen' = 0
  /\ UNCHANGED <<inited, start, frameNum, cellVars, clock, log, wpage, wpos, wnum, wfill, abandoned, reader>>

(* Page::load of the writer: a new page gets its header. *)
LoadPage ==
  /\ wpc = "load"
  /\ inited' = inited \cup {wnew}
  /\ start' = IF wnew \in inited THEN start ELSE [start EXCEPT ![wnew] = clock]
  /\ wpc' = IF wpage = 0 THEN "open" ELSE "finish"
  /\ UNCHANGED <<files, frameNum, cellVars, clock, log, wpage, wpos, wnum, wlen, wfill, wnew, abandoned, reader>>

(* finishPage: its header ... *)
FinishPage ==
  /\ wpc = "finish"
  /\ frameNum' = [frameNum EXCEPT ![wpage] = wnum]
  /\ wpc' = "close"
  /\ UNCHANGED <<files, inited, start, cellVars, clock, log, wpage, wpos, wnum, wlen, wfill, wnew, abandoned, reader>>

(* Mutant: the page is not marked at its end. *)
ClosePageSilently ==
  /\ wpc = "close"
  /\ wpc' = "open"
  /\ UNCHANGED <<header, cellVars, clock, log, wpage, wpos, wnum, wlen, wfill, wnew, abandoned, reader>>

(* ... and setStatusPageClosed. *)
ClosePage ==
  /\ wpc = "close"
  /\ status' = [status EXCEPT ![wpage][wpos] = "PAGE_END"]
  /\ wpc' = "open"
  /\ UNCHANGED <<header, body, clock, log, wpage, wpos, wnum, wlen, wfill, wnew, abandoned, reader>>

(* Mutant: the number of frames is carried over to the next page. *)
OpenPageCounting ==
  /\ wpc = "open"
  /\ wpage' = wnew /\ wpos' = 0 /\ wnew' = 0
  /\ wpc' = "locate"
  /\ UNCHANGED <<header, cellVars, clock, log, wnum, wlen, wfill, abandoned, reader>>

OpenPage ==
  /\ wpc = "open"
  /\ wpage' = wnew /\ wpos' = 0 /\ wnum' = 0 /\ wnew' = 0
  /\ wpc' = "locate"
  /\ UNCHANGED <<header, cellVars, clock, log, wlen, wfill, abandoned, reader>>

(* passWrittenFrame, one frame at a time. *)
PassWritten ==
  /\ wpc = "locate" /\ status[wpage][wpos] = "WRITTEN"
  /\ wpos' = wpos + body[wpage][wpos].length /\ wnum' = wnum + 1
  /\ UNCHANGED <<header, cellVars, clock, log, wpc, wpage, wlen, wfill, wnew, abandoned, reader>>

(* Mutant: the headroom is not kept. *)
WritableToTheEnd == status[wpage][wpos] = "RAW"

Writable == status[wpage][wpos] = "RAW" /\ wpos + Headroom < PageSize

(* locateFrame found a frame ... *)
Locate ==
  /\ wpc = "locate" /\ status[wpage][wpos] # "WRITTEN" /\ Writable
  /\ wpc' = IF wlen = 0 THEN "ready" ELSE "data"
  /\ wfill' = 1
  /\ UNCHANGED <<header, cellVars, clock, log, wpage, wpos, wnum, wlen, wnew, abandoned, reader>>

(* ... or asks the service for the next page. *)
LoadNextPage ==
  /\ wpc = "locate" /\ status[wpage][wpos] # "WRITTEN" /\ ~Writable
  /\ wpage < MaxPage
  /\ wnew' = wpage + 1 /\ files' = files \cup {wpage + 1}
  /\ wpc' = "load"
  /\ UNCHANGED <<inited, start, frameNum, cellVars, clock, log, wpage, wpos, wnum, wlen, wfill, abandoned, reader>>

-----------------------------------------------------------------------------
(* The writer: a frame.                                                    *)

WriteFrame(n) ==
  /\ wpc = "ready" /\ clock < MaxTime
  /\ wlen' = n /\ wpc' = "locate"
  /\ UNCHANGED <<header, cellVars, clock, log, wpage, wpos, wnum, wfill, wnew, abandoned, reader>>

(* memcpy of the data: whatever bytes it has look like a WRITTEN header. *)
CopyData ==
  /\ wpc = "data" /\ wfill < wlen
  /\ status' = [status EXCEPT ![wpage][wpos + wfill] = "WRITTEN"]
  /\ body' = [body EXCEPT ![wpage][wpos + wfill] = [length |-> 1, nano |-> 0]]
  /\ wfill' = wfill + 1
  /\ UNCHANGED <<header, clock, log, wpc, wpage, wpos, wnum, wlen, wnew, abandoned, reader>>

(* setFrameLength and setNano. *)
SetHeader ==
  /\ wpc = "data" /\ wfill = wlen
  /\ clock' = clock + 1
  /\ body' = [body EXCEPT ![wpage][wpos] = [length |-> wlen, nano |-> clock + 1]]
  /\ wpc' = "mark"
  /\ UNCHANGED <<header, status, log, wpage, wpos, wnum, wlen, wfill, wnew, abandoned, reader>>

(* Mutant: the next entry is left as it is. *)
LeaveNextEntry ==
  /\ wpc = "mark"
  /\ wpc' = "commit"
  /\ UNCHANGED <<header, cellVars, clock, log, wpage, wpos, wnum, wlen, wfill, wnew, abandoned, reader>>

(* setStatusWritten: first "make sure next frame won't be wrongly read" ... *)
ClearNextEntry ==
  /\ wpc = "mark"
  /\ status' = [status EXCEPT ![wpage][wpos + wlen] = "RAW"]
  /\ wpc' = "commit"
  /\ UNCHANGED <<header, body, clock, log, wpage, wpos, wnum, wlen, wfill, wnew, abandoned, reader>>

(* ... then the frame itself; and passFrame. *)
Commit ==
  /\ wpc = "commit"
  /\ status' = [status EXCEPT ![wpage][wpos] = "WRITTEN"]
  /\ log' = Append(log, [nano |-> body[wpage][wpos].nano, page |-> wpage, pos |-> wpos])
  /\ wpos' = wpos + wlen /\ wnum' = wnum + 1 /\ wlen' = 0 /\ wfill' = 0
  /\ wpc' = "ready"
  /\ UNCHANGED <<header, body, clock, wpage, wnew, abandoned, reader>>

(* The process dies, at any store. *)
Crash ==
  /\ wpc # "down"
  /\ wpc' = "down" /\ wpage' = 0 /\ wpos' = 0 /\ wnum' = 0 /\ wlen' = 0 /\ wfill' = 0 /\ wnew' = 0
  /\ abandoned' = IF wpage # 0 /\ wpc \in {"load", "finish", "close"} THEN abandoned \cup {wpage} ELSE abandoned
  /\ UNCHANGED <<header, cellVars, clock, log, reader>>

-----------------------------------------------------------------------------
(* A reader.                                                               *)

HereStatus(r) == status[rpage[r]][rpos[r]]
Here(r) == body[rpage[r]][rpos[r]]

(* GetPageNumWithTime: a page whose header is not initialised has start_nano 0. *)
PageWithTime(t) ==
  LET earlier == {p \in files : start[p] < t}
  IN  IF earlier = {} THEN 1 ELSE CHOOSE p \in earlier : \A q \in earlier : q <= p

(* seekTime, for a time that is not in the future. *)
Seek(r, t) ==
  /\ rpc[r] = "idle" /\ t <= clock + 1
  /\ rpage' = [rpage EXCEPT ![r] = PageWithTime(t)]
  /\ rtime' = [rtime EXCEPT ![r] = t]
  /\ rlate' = IF PageWithTime(t) \in inited \cup {1} THEN rlate ELSE rlate \cup {r}
  /\ rpc' = [rpc EXCEPT ![r] = "load"]
  /\ UNCHANGED <<header, cellVars, clock, log, writer, rpos, rlast>>

(* getPage and Page::load give null for a page that is missing or not initialised. *)
SeekLoad(r) ==
  /\ rpc[r] = "load"
  /\ rpos' = [rpos EXCEPT ![r] = 0]
  /\ IF rpage[r] \in inited
     THEN rpc' = [rpc EXCEPT ![r] = "pass"] /\ UNCHANGED <<rpage, rtime, rlate>>
     ELSE /\ rpc' = [rpc EXCEPT ![r] = "idle"]
          /\ rpage' = [rpage EXCEPT ![r] = 0] /\ rtime' = [rtime EXCEPT ![r] = 0] /\ rlate' = rlate \ {r}
  /\ UNCHANGED <<header, cellVars, clock, log, writer, rlast>>

(* passToTime, one frame at a time. *)
PassToTime(r) ==
  /\ rpc[r] = "pass"
  /\ IF HereStatus(r) = "WRITTEN" /\ Here(r).nano < rtime[r]
     THEN rpos' = [rpos EXCEPT ![r] = @ + Here(r).length] /\ UNCHANGED <<rpc, rtime, rlate>>
     ELSE /\ rpc' = [rpc EXCEPT ![r] = "read"]
          /\ rtime' = [rtime EXCEPT ![r] = 0] /\ rlate' = rlate \ {r} /\ UNCHANGED rpos
  /\ UNCHANGED <<header, cellVars, clock, log, writer, rpage, rlast>>

Expire(r) ==
  /\ rpc[r] = "read"
  /\ rpc' = [rpc EXCEPT ![r] = "idle"]
  /\ rpage' = [rpage EXCEPT ![r] = 0] /\ rpos' = [rpos EXCEPT ![r] = 0]
  /\ UNCHANGED <<header, cellVars, clock, log, writer, rtime, rlate, rlast>>

(* Mutant: the page is loaded again instead of the next one. *)
ReaderNextPageAgain(r) ==
  /\ rpc[r] = "read" /\ (rpage[r] # 0 => HereStatus(r) = "PAGE_END")
  /\ rpos' = [rpos EXCEPT ![r] = 0]
  /\ UNCHANGED <<header, cellVars, clock, log, writer, rpc, rpage, rtime, rlate, rlast>>

(* loadNextPage: without a page the reader starts again from page 1. *)
ReaderNextPage(r) ==
  /\ rpc[r] = "read" /\ (rpage[r] # 0 => HereStatus(r) = "PAGE_END")
  /\ rpage' = [rpage EXCEPT ![r] = IF rpage[r] + 1 \in inited THEN rpage[r] + 1 ELSE 0]
  /\ rpos' = [rpos EXCEPT ![r] = 0]
  /\ UNCHANGED <<header, cellVars, clock, log, writer, rpc, rtime, rlate, rlast>>

(* locateReadableFrame sees the frame written ... *)
SeeFrame(r) ==
  /\ rpc[r] = "read" /\ rpage[r] # 0 /\ HereStatus(r) = "WRITTEN"
  /\ rpc' = [rpc EXCEPT ![r] = "take"]
  /\ UNCHANGED <<header, cellVars, clock, log, writer, rpage, rpos, rtime, rlate, rlast>>

(* ... and the reader takes it and passes it. *)
TakeFrame(r) ==
  /\ rpc[r] = "take"
  /\ rlast' = [rlast EXCEPT ![r] = Here(r).nano]
  /\ rpos' = [rpos EXCEPT ![r] = @ + Here(r).length]
  /\ rpc' = [rpc EXCEPT ![r] = "read"]
  /\ UNCHANGED <<header, cellVars, clock, log, writer, rpage, rtime, rlate>>

-----------------------------------------------------------------------------
WriterNext ==
  \/ SeekEnd \/ LoadPage \/ FinishPage \/ ClosePage \/ OpenPage \/ PassWritten \/ Locate \/ LoadNextPage
  \/ \E n \in Lengths : WriteFrame(n)
  \/ CopyData \/ SetHeader \/ ClearNextEntry \/ Commit \/ Crash

ReaderNext(r) == SeekLoad(r) \/ PassToTime(r) \/ ReaderNextPage(r) \/ SeeFrame(r) \/ TakeFrame(r)

Next ==
  \/ WriterNext
  \/ \E r \in Readers : ReaderNext(r) \/ Expire(r) \/ \E t \in Times : Seek(r, t)

Spec == Init /\ [][Next]_vars

(* Readers poll; the writer owes nobody anything. *)
FairSpec == Spec /\ \A r \in Readers : WF_vars(ReaderNext(r))

-----------------------------------------------------------------------------
(* Properties.                                                             *)

Cell == [length : 0 .. Headroom, nano : 0 .. MaxTime + 1]
Place == [nano : 1 .. MaxTime, page : Pages, pos : Cells]

PagesTyped ==
  /\ files \subseteq Pages /\ inited \subseteq Pages
  /\ start \in [Pages -> Nat] /\ frameNum \in [Pages -> -1 .. PageSize]
  /\ status \in [Pages -> [Cells -> Statuses]] /\ body \in [Pages -> [Cells -> Cell]]
  /\ clock \in 1 .. MaxTime + 1 /\ log \in Seq(Place)

WriterTyped ==
  /\ wpc \in {"down", "load", "finish", "close", "open", "locate", "ready", "data", "mark", "commit"}
  /\ wpage \in 0 .. MaxPage /\ wpos \in Cells /\ wnum \in 0 .. PageSize
  /\ wlen \in {0} \cup Lengths /\ wfill \in 0 .. Headroom /\ wnew \in 0 .. MaxPage
  /\ abandoned \subseteq Pages

ReadersTyped ==
  /\ rpc \in [Readers -> {"idle", "load", "pass", "read", "take"}]
  /\ rpage \in [Readers -> 0 .. MaxPage] /\ rpos \in [Readers -> Cells]
  /\ rtime \in [Readers -> Times] /\ rlate \subseteq Readers /\ rlast \in [Readers -> Times]

(* Every variable has its type; in particular nothing is ever written or read beyond a page. *)
TypeOK == PagesTyped /\ WriterTyped /\ ReadersTyped

(***************************************************************************)
(* The journal implements JournalLog: a reader's place in the log is the   *)
(* number of frames before it.                                             *)
(***************************************************************************)
Before(i, p, c) == log[i].page < p \/ (log[i].page = p /\ log[i].pos < c)
IndexOf(r) == Cardinality({i \in DOMAIN log : Before(i, rpage[r], rpos[r])}) + 1
Attached(r) == rpc[r] \in {"read", "take"}

Log == INSTANCE JournalLog WITH
  log  <- [i \in DOMAIN log |-> log[i].nano],
  next <- [r \in Readers |-> IF Attached(r) THEN IndexOf(r) ELSE 0],
  last <- rlast,
  asked <- rtime,
  late <- rlate

(* Each frame once, whole, in order, from the time sought: whenever the writer dies, whatever it left behind. *)
ImplementsLog == Log!Spec

(***************************************************************************)
(* "get frame address return nullptr if no available" (Journal.h): when a  *)
(* reader finds nothing, it has had every frame of the journal, unless it  *)
(* is on a page that was left open.                                        *)
(***************************************************************************)
NullMeansNoMore ==
  \A r \in Readers :
    (rpc[r] = "read" /\ rpage[r] # 0 /\ HereStatus(r) = "RAW" /\ rpage[r] \notin abandoned) => IndexOf(r) = Len(log) + 1

(* "how many frame in this page (only filled when closed)" (PageHeader.h), also after restarts of the writer. *)
ClosedPagesCounted ==
  \A p \in Pages : (\E c \in Cells : status[p][c] = "PAGE_END") =>
    frameNum[p] = Cardinality({i \in DOMAIN log : log[i].page = p})

(***************************************************************************)
(* A reader gets to every frame written while it reads, whatever becomes   *)
(* of the writer, unless it comes to a page that was left open.            *)
(***************************************************************************)
ReadersCatchUp ==
  \A r \in Readers : \A n \in 1 .. MaxTime :
    (Attached(r) /\ Len(log) >= n) ~> (~Attached(r) \/ IndexOf(r) > n \/ rpage[r] \in abandoned)
=============================================================================
