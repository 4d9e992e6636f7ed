---------------------------- MODULE PageService ----------------------------
(***************************************************************************)
(* The threads of the memory service (PageEngine.cpp) around paged_mtx:    *)
(* the socket thread, the task thread, the comm thread and the caller of   *)
(* start, stop and switch_trading_day.  The service is a client of itself: *)
(* it writes the system journal through a JournalWriter, whose next page   *)
(* it asks of its own comm thread.                                         *)
(*                                                                         *)
(* The maps behind the mutex are PageEngine.tla's; here a request is only  *)
(* a reason to hold the mutex and perhaps to write a message.              *)
(***************************************************************************)
EXTENDS Integers, FiniteSets

CONSTANTS
  Room,          \* frames of the system journal that fit in a page
  MaxPages,      \* bound: pages of the system journal
  MaxWrites,     \* bound: messages written
  MaxRequests    \* bound: socket requests under way at one time

ASSUME PageServiceAssumption ==
  /\ Room \in Nat \ {0} /\ MaxPages \in Nat \ {0}
  /\ MaxWrites \in Nat /\ MaxRequests \in Nat

Writers == {"caller", "task", "socket"}
Threads == Writers \cup {"comm"}
None == "none"
Entries == (1 .. MaxPages) \X (0 .. Room)
NoEntry == <<0, 0>>

VARIABLES
  alive,      \* the process has not been killed by a signal
  mtx,        \* paged_mtx: the thread that holds it
  pc,         \* thread -> where it is
  writer,     \* "live", or "reset" once stop() has let go of it
  ownMsg,     \* is the comm message of the service's own journal REQUESTING?
  clientMsg,  \* is the one of some other client?
  requests,   \* how many socket requests of clients wait
  ownExit,    \* the exit request of the service's own writer waits
  stopping,   \* stop() has been called
  page, pos,  \* curPage of the system journal's writer, and its position
  target,     \* thread -> the page it asks for
  at,         \* thread -> the frame it has located
  frames,     \* entry -> the message written there (0 for none)
  closed,     \* entries with status PAGE_END
  issued,     \* messages given out so far
  msg,        \* thread -> the message it is writing
  acked,      \* messages whose write() has returned true
  collided    \* history: has the caller written while another thread did?

threadVars  == <<alive, mtx, pc>>
protocol    == <<ownMsg, clientMsg, requests, ownExit>>
journalVars == <<page, pos, target, at, frames, closed>>
msgVars     == <<issued, msg, acked, collided>>
vars == <<threadVars, writer, stopping, protocol, journalVars, msgVars>>

(* start() has created the writer and the threads. *)
Init ==
  /\ alive = TRUE
  /\ mtx = None
  /\ pc = [t \in Threads |-> "idle"]
  /\ writer = "live"
  /\ ownMsg = FALSE /\ clientMsg = FALSE
  /\ requests = 0 /\ ownExit = FALSE /\ stopping = FALSE
  /\ page = 1 /\ pos = 0
  /\ target = [t \in Writers |-> 0]
  /\ at = [t \in Writers |-> NoEntry]
  /\ frames = [e \in Entries |-> 0]
  /\ closed = {}
  /\ issued = 0
  /\ msg = [t \in Writers |-> 0]
  /\ acked = {} /\ collided = FALSE

Goto(t, label) == pc' = [pc EXCEPT ![t] = label]
Run(t, label) == alive /\ pc[t] = label

-----------------------------------------------------------------------------
(* PageEngine::write, for a thread t that goes on to label "wrote".        *)

Writing(t) == pc[t] \in {"locate", "spin", "commit"}

(* A message is at hand, the writer has been found to exist.  stop() keeps the last message. *)
StartWrite(t, last) ==
  /\ writer = "live" /\ issued < last
  /\ issued' = issued + 1
  /\ msg' = [msg EXCEPT ![t] = issued + 1]
  /\ collided' = (collided \/ \E u \in Writers \ {t} : "caller" \in {t, u} /\ Writing(u))
  /\ UNCHANGED acked

(* Journal::locateFrame: past the written frames, to a RAW one that leaves headroom. *)
FirstFree == CHOOSE p \in pos .. Room :
               (p = Room \/ frames[<<page, p>>] = 0) /\ \A q \in pos .. p - 1 : frames[<<page, q>>] # 0

Writable(p) == p < Room /\ <<page, p>> \notin closed

LocateFrame(t) ==
  /\ Run(t, "locate")
  /\ pos' = FirstFree
  /\ IF Writable(FirstFree)
     THEN at' = [at EXCEPT ![t] = <<page, FirstFree>>] /\ Goto(t, "commit") /\ UNCHANGED <<target, ownMsg>>
     ELSE /\ page < MaxPages
          /\ target' = [target EXCEPT ![t] = page + 1]
          /\ ownMsg' = TRUE
          /\ Goto(t, "spin") /\ UNCHANGED at
  /\ UNCHANGED <<alive, mtx, writer, stopping, clientMsg, requests, ownExit, page, frames, closed, msgVars>>

(* Journal::loadNextPage once getPage has its answer. *)
LoadNextPage(t) ==
  /\ Run(t, "spin") /\ ~ownMsg
  /\ closed' = closed \cup {<<page, pos>>}
  /\ page' = target[t] /\ pos' = 0
  /\ Goto(t, "locate")
  /\ UNCHANGED <<alive, mtx, writer, stopping, protocol, target, at, frames, msgVars>>

(***************************************************************************)
(* The rest of write_frame_full: fill the located frame, pass it.  The     *)
(* frame of a page that another thread has left meanwhile is unmapped.     *)
(***************************************************************************)
CommitFrame(t) ==
  /\ Run(t, "commit") /\ at[t][1] = page
  /\ frames' = [frames EXCEPT ![at[t]] = msg[t]]
  /\ pos' = IF at[t][2] = pos THEN pos + 1 ELSE pos
  /\ acked' = acked \cup {msg[t]}
  /\ Goto(t, "wrote")
  /\ UNCHANGED <<alive, mtx, writer, stopping, protocol, page, target, at, closed, issued, msg, collided>>

(* A frame that is unmapped, or a writer that is destroyed, under a thread that writes. *)
CrashInWrite(t) ==
  /\ \/ Run(t, "commit") /\ at[t][1] # page
     \/ writer = "reset" /\ alive /\ pc[t] \in {"locate", "spin", "commit"}
  /\ alive' = FALSE
  /\ UNCHANGED <<mtx, pc, writer, stopping, protocol, journalVars, msgVars>>

-----------------------------------------------------------------------------
(* The task thread: start_task.                                            *)

Lock(t, label) == mtx = None /\ mtx' = t /\ Goto(t, label)
Unlock(t, label) == mtx' = None /\ Goto(t, label)

TaskLock ==
  /\ Run("task", "idle") /\ pc["caller"] \notin {"joinTask", "joinComm", "stopSocket", "stopped"}
  /\ Lock("task", "tasks")
  /\ UNCHANGED <<alive, writer, stopping, protocol, journalVars, msgVars>>

(* KfController or TimeTick has something to write, or nothing is due. *)
TaskWrite ==
  /\ Run("task", "tasks")
  /\ StartWrite("task", MaxWrites - 1) /\ Goto("task", "locate")
  /\ UNCHANGED <<alive, mtx, writer, stopping, protocol, journalVars>>

TaskUnlock ==
  /\ alive /\ pc["task"] \in {"tasks", "wrote"}
  /\ Unlock("task", "idle")
  /\ UNCHANGED <<alive, writer, stopping, protocol, journalVars, msgVars>>

-----------------------------------------------------------------------------
(* The socket thread: handle_accept and process_msg.                       *)

(* A request of a client, or the exit request of the service's own writer. *)
TakeRequest(own) ==
  IF own THEN ownExit /\ ownExit' = FALSE /\ UNCHANGED requests
  ELSE requests > 0 /\ requests' = requests - 1 /\ UNCHANGED ownExit

(* Mutant: process_msg outside the mutex. *)
SocketUnlocked(own) ==
  /\ Run("socket", "idle") /\ TakeRequest(own)
  /\ Goto("socket", IF own THEN "exit" ELSE "process") /\ UNCHANGED mtx
  /\ UNCHANGED <<alive, writer, stopping, ownMsg, clientMsg, journalVars, msgVars>>

SocketLock(own) ==
  /\ Run("socket", "idle") /\ TakeRequest(own)
  /\ Lock("socket", IF own THEN "exit" ELSE "process")
  /\ UNCHANGED <<alive, writer, stopping, ownMsg, clientMsg, journalVars, msgVars>>

(* login_td, register_strategy, sub_md and a strategy's exit_client write. *)
SocketWrite ==
  /\ Run("socket", "process")
  /\ StartWrite("socket", MaxWrites - 1) /\ Goto("socket", "locate")
  /\ UNCHANGED <<alive, mtx, writer, stopping, protocol, journalVars>>

SocketUnlock ==
  /\ alive /\ pc["socket"] \in {"process", "wrote"}
  /\ mtx' = IF mtx = "socket" THEN None ELSE mtx
  /\ Goto("socket", "idle")
  /\ UNCHANGED <<alive, writer, stopping, protocol, journalVars, msgVars>>

(* The answer to the service's own exit request lets stop() go on. *)
SocketExitOwn ==
  /\ Run("socket", "exit") /\ pc["caller"] = "exitClient"
  /\ mtx' = None
  /\ pc' = [pc EXCEPT !["socket"] = "idle", !["caller"] = "joinTask"]
  /\ UNCHANGED <<alive, writer, stopping, protocol, journalVars, msgVars>>

(* Some client asks over the socket. *)
ClientRequest ==
  /\ alive /\ pc["socket"] # "end" /\ requests < MaxRequests
  /\ requests' = requests + 1
  /\ UNCHANGED <<threadVars, writer, stopping, ownMsg, clientMsg, ownExit, journalVars, msgVars>>

-----------------------------------------------------------------------------
(* The comm thread: start_comm.                                            *)

(* Some client asks for a page. *)
ClientDemand ==
  /\ alive /\ ~clientMsg /\ pc["comm"] # "end"
  /\ clientMsg' = TRUE
  /\ UNCHANGED <<threadVars, writer, stopping, ownMsg, requests, ownExit, journalVars, msgVars>>

CommRunning == pc["caller"] \notin {"joinComm", "stopSocket", "stopped"}

(* Mutant: start_comm serves without the mutex. *)
CommLockFree(own) ==
  /\ Run("comm", "idle") /\ CommRunning
  /\ IF own THEN ownMsg ELSE clientMsg
  /\ Goto("comm", IF own THEN "serveOwn" ELSE "serveClient") /\ UNCHANGED mtx
  /\ UNCHANGED <<alive, writer, stopping, protocol, journalVars, msgVars>>

CommLock(own) ==
  /\ Run("comm", "idle") /\ CommRunning
  /\ IF own THEN ownMsg ELSE clientMsg
  /\ Lock("comm", IF own THEN "serveOwn" ELSE "serveClient")
  /\ UNCHANGED <<alive, writer, stopping, protocol, journalVars, msgVars>>

(* Mutant: an early return keeps the mutex. *)
CommServeKeeping ==
  /\ alive /\ pc["comm"] \in {"serveOwn", "serveClient"}
  /\ IF pc["comm"] = "serveOwn" THEN ownMsg' = FALSE /\ UNCHANGED clientMsg
     ELSE clientMsg' = FALSE /\ UNCHANGED ownMsg
  /\ Goto("comm", "idle") /\ UNCHANGED mtx
  /\ UNCHANGED <<alive, writer, stopping, requests, ownExit, journalVars, msgVars>>

CommServe ==
  /\ alive /\ pc["comm"] \in {"serveOwn", "serveClient"}
  /\ IF pc["comm"] = "serveOwn" THEN ownMsg' = FALSE /\ UNCHANGED clientMsg
     ELSE clientMsg' = FALSE /\ UNCHANGED ownMsg
  /\ Unlock("comm", "idle")
  /\ UNCHANGED <<alive, writer, stopping, requests, ownExit, journalVars, msgVars>>

-----------------------------------------------------------------------------
(* The caller: the write at the end of start, switch_trading_day, stop.    *)
(* None of them takes the mutex.                                           *)

CallerWrite ==
  /\ Run("caller", "idle")
  /\ StartWrite("caller", MaxWrites - 1) /\ Goto("caller", "locate")
  /\ UNCHANGED <<alive, mtx, writer, stopping, protocol, journalVars>>

(* stop() begins with the PAGED_END message ... *)
StopWrite ==
  /\ Run("caller", "idle")
  /\ StartWrite("caller", MaxWrites) /\ Goto("caller", "locate")
  /\ stopping' = TRUE
  /\ UNCHANGED <<alive, mtx, writer, protocol, journalVars>>

CallerWrote ==
  /\ Run("caller", "wrote")
  /\ Goto("caller", IF stopping THEN "reset" ELSE "idle")
  /\ UNCHANGED <<alive, mtx, writer, stopping, protocol, journalVars, msgVars>>

(* Mutant: the socket thread is stopped before the writer says good bye. *)
StopResetSocketFirst ==
  /\ Run("caller", "reset") /\ pc["socket"] = "idle"
  /\ writer' = "reset" /\ ownExit' = TRUE
  /\ pc' = [pc EXCEPT !["caller"] = "exitClient", !["socket"] = "end"]
  /\ UNCHANGED <<alive, mtx, stopping, ownMsg, clientMsg, requests, journalVars, msgVars>>

(* ... then writer.reset() clears the pointer and sends the exit request. *)
StopReset ==
  /\ Run("caller", "reset")
  /\ writer' = "reset" /\ ownExit' = TRUE
  /\ Goto("caller", "exitClient")
  /\ UNCHANGED <<alive, mtx, stopping, ownMsg, clientMsg, requests, journalVars, msgVars>>

(* The joins, one thread after the other; a thread ends at the top of its loop. *)
Join(t, label, next) ==
  /\ Run("caller", label) /\ pc[t] = "idle"
  /\ pc' = [pc EXCEPT ![t] = "end", !["caller"] = next]
  /\ UNCHANGED <<alive, mtx, writer, stopping, protocol, journalVars, msgVars>>

JoinTask   == Join("task", "joinTask", "joinComm")
JoinComm   == Join("comm", "joinComm", "stopSocket")
JoinSocket == Join("socket", "stopSocket", "stopped")

-----------------------------------------------------------------------------
Write(t) == LocateFrame(t) \/ LoadNextPage(t) \/ CommitFrame(t)

Next ==
  \/ \E t \in Writers : Write(t)
  \/ CrashInWrite("caller") \/ CrashInWrite("task") \/ CrashInWrite("socket")
  \/ TaskLock \/ TaskWrite \/ TaskUnlock
  \/ SocketLock(TRUE) \/ SocketLock(FALSE) \/ SocketWrite \/ SocketUnlock \/ SocketExitOwn
  \/ ClientRequest \/ ClientDemand
  \/ CommLock(TRUE) \/ CommLock(FALSE) \/ CommServe
  \/ CallerWrite \/ StopWrite \/ CallerWrote \/ StopReset
  \/ JoinTask \/ JoinComm \/ JoinSocket

Spec == Init /\ [][Next]_vars

(***************************************************************************)
(* A thread that can go on does; a thread that keeps asking for the mutex  *)
(* gets it some day; the comm thread polls every slot in turn.             *)
(***************************************************************************)
FairSpec ==
  /\ Spec
  /\ \A t \in Writers : WF_vars(Write(t))
  /\ SF_vars(TaskLock) /\ WF_vars(TaskUnlock)
  /\ \A own \in BOOLEAN : SF_vars(SocketLock(own)) /\ SF_vars(CommLock(own))
  /\ WF_vars(SocketUnlock) /\ WF_vars(SocketExitOwn) /\ WF_vars(CommServe)
  /\ WF_vars(CallerWrote) /\ WF_vars(StopReset)
  /\ SF_vars(JoinTask) /\ SF_vars(JoinComm) /\ SF_vars(JoinSocket)

-----------------------------------------------------------------------------
(* Properties.                                                             *)

(***************************************************************************)
(* "return true if msg is written in system journal" (PageEngine.h): the   *)
(* frame of a message whose write returned true is in the journal, and     *)
(* before the PAGE_END of its page; unless start, stop or                  *)
(* switch_trading_day, which do not take the mutex, wrote while the task   *)
(* thread or the socket thread did: both fill the same frame.              *)
(***************************************************************************)
WrittenIfAcked ==
  ~collided => \A m \in acked : \E e \in Entries :
    frames[e] = m /\ ~\E c \in closed : c[1] = e[1] /\ c[2] <= e[2]

(***************************************************************************)
(* The service waits for itself: a thread that holds the mutex waits for a *)
(* page that the comm thread can only hand out with the mutex.             *)
(***************************************************************************)
WaitsForItself == mtx \in {"task", "socket"} /\ pc[mtx] = "spin"

(***************************************************************************)
(* "server: find requesting, allocate" (PageCommStruct.h): a message that  *)
(* is REQUESTING is answered as long as the service runs, unless it waits  *)
(* for itself, which it does for ever (StuckForEver).                      *)
(***************************************************************************)
Stopped == ~alive \/ stopping
DemandsAnsweredOrStuck == clientMsg ~> ~clientMsg \/ Stopped \/ WaitsForItself

(* stop() returns, although it needs the socket thread to take leave of its own service. *)
StopReturns == stopping ~> pc["caller"] = "stopped" \/ ~alive \/ WaitsForItself

(* Once the service waits for itself it never gets out. *)
StuckForEver == [][WaitsForItself => WaitsForItself' \/ ~alive']_vars
=============================================================================
