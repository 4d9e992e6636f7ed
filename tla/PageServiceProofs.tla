-------------------------- MODULE PageServiceProofs --------------------------
(***************************************************************************)
(* Proofs about PageService: the mutex, the wait of the service for        *)
(* itself, and the journal of a service whose caller does not write        *)
(* together with another thread.                                           *)
(***************************************************************************)
EXTENDS PageService, TLAPS

-----------------------------------------------------------------------------
(* The mutex.                                                              *)

Labels == {"idle", "tasks", "process", "exit", "serveOwn", "serveClient", "locate", "spin", "commit", "wrote",
           "reset", "exitClient", "joinTask", "joinComm", "stopSocket", "stopped", "end"}
Locking == {"task", "socket", "comm"}

(* A thread that takes the mutex is idle or over, or holds it; one that waits for a page of the    *)
(* system journal has its request in the comm buffer.                                              *)
LockInv ==
  /\ pc \in [Threads -> Labels]
  /\ \A t \in Locking : pc[t] \in {"idle", "end"} \/ mtx = t
  /\ \A t \in {"task", "socket"} : pc[t] = "spin" => ownMsg

LEMMA LockInit == Init => LockInv
  BY DEF Init, LockInv, Threads, Writers, Labels, Locking

LEMMA LockWrite == ASSUME LockInv, NEW t \in Writers, Write(t) \/ CrashInWrite(t) PROVE LockInv'
<1>1. CASE LocateFrame(t)
  BY <1>1 DEF LocateFrame, LockInv, Goto, Run, Threads, Writers, Labels, Locking
<1>2. CASE LoadNextPage(t)
  BY <1>2 DEF LoadNextPage, LockInv, Goto, Run, Threads, Writers, Labels, Locking, protocol
<1>3. CASE CommitFrame(t)
  BY <1>3 DEF CommitFrame, LockInv, Goto, Run, Threads, Writers, Labels, Locking, protocol
<1>4. CASE CrashInWrite(t)
  BY <1>4 DEF CrashInWrite, LockInv, protocol
<1> QED BY <1>1, <1>2, <1>3, <1>4 DEF Write

LEMMA LockTask == ASSUME LockInv, TaskLock \/ TaskWrite \/ TaskUnlock PROVE LockInv'
<1>1. CASE TaskLock
  BY <1>1 DEF TaskLock, Lock, LockInv, Goto, Run, Threads, Writers, Labels, Locking, protocol, None
<1>2. CASE TaskWrite
  BY <1>2 DEF TaskWrite, LockInv, Goto, Run, Threads, Writers, Labels, Locking, protocol
<1>3. CASE TaskUnlock
  BY <1>3 DEF TaskUnlock, Unlock, LockInv, Goto, Run, Threads, Writers, Labels, Locking, protocol
<1> QED BY <1>1, <1>2, <1>3

LEMMA LockSocket ==
  ASSUME LockInv, NEW own \in BOOLEAN, SocketLock(own) \/ SocketWrite \/ SocketUnlock \/ SocketExitOwn
  PROVE  LockInv'
<1>1. CASE SocketLock(own)
  BY <1>1 DEF SocketLock, Lock, LockInv, Goto, Run, Threads, Writers, Labels, Locking, protocol, None
<1>2. CASE SocketWrite
  BY <1>2 DEF SocketWrite, LockInv, Goto, Run, Threads, Writers, Labels, Locking, protocol
<1>3. CASE SocketUnlock
  BY <1>3 DEF SocketUnlock, LockInv, Goto, Run, Threads, Writers, Labels, Locking, protocol
<1>4. CASE SocketExitOwn
  BY <1>4 DEF SocketExitOwn, LockInv, Run, Threads, Writers, Labels, Locking, protocol
<1> QED BY <1>1, <1>2, <1>3, <1>4

LEMMA LockComm == ASSUME LockInv, NEW own \in BOOLEAN, CommLock(own) \/ CommServe PROVE LockInv'
<1>1. CASE CommLock(own)
  BY <1>1 DEF CommLock, Lock, LockInv, Goto, Run, Threads, Writers, Labels, Locking, protocol, None
<1>2. CASE CommServe
  BY <1>2 DEF CommServe, Unlock, LockInv, Goto, Run, Threads, Writers, Labels, Locking
<1> QED BY <1>1, <1>2

Caller == CallerWrite \/ StopWrite \/ CallerWrote \/ StopReset

LEMMA LockCaller ==
  ASSUME LockInv, ClientRequest \/ ClientDemand \/ Caller \/ JoinTask \/ JoinComm \/ JoinSocket
  PROVE  LockInv'
<1>1. CASE ClientRequest
  BY <1>1 DEF ClientRequest, LockInv, threadVars
<1>2. CASE ClientDemand
  BY <1>2 DEF ClientDemand, LockInv, threadVars
<1>3. CASE Caller
  BY <1>3 DEF Caller, CallerWrite, StopWrite, CallerWrote, StopReset, LockInv, Goto, Run, Threads, Writers, Labels,
              Locking, protocol
<1>4. CASE JoinTask \/ JoinComm \/ JoinSocket
  BY <1>4 DEF JoinTask, JoinComm, JoinSocket, Join, LockInv, Run, Threads, Writers, Labels, Locking, protocol
<1> QED BY <1>1, <1>2, <1>3, <1>4

LEMMA LockStep == ASSUME LockInv, [Next]_vars PROVE LockInv'
<1>1. CASE UNCHANGED vars
  BY <1>1 DEF LockInv, vars, threadVars, protocol
<1>2. CASE Next
  BY <1>2, LockWrite, LockTask, LockSocket, LockComm, LockCaller DEF Next, Caller, Writers
<1> QED BY <1>1, <1>2

LEMMA LockHolds == Spec => []LockInv
  BY LockInit, LockStep, PTL DEF Spec

-----------------------------------------------------------------------------
(* The service waits for itself.                                           *)

LEMMA StuckStep == ASSUME LockInv, [Next]_vars, WaitsForItself PROVE WaitsForItself' \/ ~alive'
<1> DEFINE stays == pc'[mtx] = "spin" /\ mtx' = mtx
<1>0. mtx \in {"task", "socket"} /\ pc[mtx] = "spin" /\ ownMsg /\ pc["comm"] \in {"idle", "end"}
  BY DEF WaitsForItself, LockInv, Locking
<1>1. \A t \in {"task", "socket"} : t # mtx => pc[t] \in {"idle", "end"}
  BY DEF LockInv, Locking
<1>2. stays => WaitsForItself'
  BY <1>0 DEF WaitsForItself
<1>3. CASE UNCHANGED vars
  BY <1>0, <1>2, <1>3 DEF vars, threadVars
<1>4. ASSUME NEW t \in Writers, Write(t) PROVE stays
  BY <1>0, <1>1, <1>4 DEF Write, LocateFrame, LoadNextPage, CommitFrame, Run, Goto, Writers, Threads, Labels, LockInv
<1>5. ASSUME NEW t \in Writers, CrashInWrite(t) PROVE ~alive'
  BY <1>5 DEF CrashInWrite
<1>6. CASE TaskLock \/ TaskWrite \/ TaskUnlock
  BY <1>0, <1>1, <1>2, <1>6 DEF TaskLock, TaskWrite, TaskUnlock, Lock, Unlock, Run, None
<1>7. ASSUME NEW own \in BOOLEAN, SocketLock(own) \/ CommLock(own) PROVE FALSE
  BY <1>0, <1>7 DEF SocketLock, CommLock, Lock, None
<1>8. CASE SocketWrite \/ SocketUnlock \/ SocketExitOwn \/ CommServe
  BY <1>0, <1>1, <1>8 DEF SocketWrite, SocketUnlock, SocketExitOwn, CommServe, Run
<1>9. CASE ClientRequest \/ ClientDemand
  BY <1>0, <1>2, <1>9 DEF ClientRequest, ClientDemand, threadVars
<1>10. CASE Caller
  BY <1>0, <1>2, <1>10 DEF Caller, CallerWrite, StopWrite, CallerWrote, StopReset, Goto, Run, LockInv, Threads, Writers, Labels
<1>11. CASE JoinTask \/ JoinComm \/ JoinSocket
  BY <1>0, <1>2, <1>11 DEF JoinTask, JoinComm, JoinSocket, Join, Run, LockInv, Threads, Writers, Labels
<1> HIDE DEF stays
<1> QED
  BY <1>2, <1>3, <1>4, <1>5, <1>6, <1>7, <1>8, <1>9, <1>10, <1>11 DEF Next, Caller, Writers

(***************************************************************************)
(* A task or a request that needs the next page of the system journal      *)
(* while it holds paged_mtx holds it until the process dies: start_comm,   *)
(* which would hand the page out, needs the mutex.                         *)
(***************************************************************************)
THEOREM NeverGetsOut == Spec => StuckForEver
<1>1. LockInv /\ [Next]_vars => [WaitsForItself => WaitsForItself' \/ ~alive']_vars
  BY StuckStep
<1> QED BY <1>1, LockHolds, PTL DEF Spec, StuckForEver

-----------------------------------------------------------------------------
(* The system journal, as long as the caller has not written together with another thread: one     *)
(* thread writes at a time, at the end of the journal, and nothing is written twice.               *)

Passed(e) == e[1] < page \/ (e[1] = page /\ e[2] < pos)
Hidden(e) == \E c \in closed : c[1] = e[1] /\ c[2] <= e[2]

OneWrites == \A t, u \in Writers : Writing(t) /\ Writing(u) => t = u

JournalInv ==
  /\ page \in 1 .. MaxPages /\ pos \in 0 .. Room
  /\ target \in [Writers -> 0 .. MaxPages] /\ at \in [Writers -> (0 .. MaxPages) \X (0 .. Room)]
  /\ frames \in [Entries -> Nat] /\ closed \subseteq Entries
  /\ issued \in Nat /\ msg \in [Writers -> Nat]
  /\ OneWrites
  /\ \A t \in Writers : pc[t] = "spin" => target[t] = page + 1
  /\ \A t \in Writers : pc[t] = "commit" => at[t] = <<page, pos>> /\ pos < Room
  /\ \A e \in Entries : frames[e] # 0 => Passed(e)
  /\ \A c \in closed : c[1] < page
  /\ \A m \in acked : \E e \in Entries : frames[e] = m /\ Passed(e) /\ ~Hidden(e)

(* What JournalInv is about, but for the labels. *)
written == <<page, pos, target, at, frames, closed, issued, msg, acked, collided>>

LEMMA JournalInit == Init => JournalInv
<1> SUFFICES ASSUME Init PROVE JournalInv
  OBVIOUS
<1>1. OneWrites
  BY DEF Init, OneWrites, Writing, Writers, Threads
<1>2. page \in 1 .. MaxPages /\ pos \in 0 .. Room /\ target \in [Writers -> 0 .. MaxPages]
      /\ at \in [Writers -> (0 .. MaxPages) \X (0 .. Room)]
  BY PageServiceAssumption DEF Init, NoEntry
<1> QED BY <1>1, <1>2 DEF Init, JournalInv, Writers, Threads

(* The frame that locateFrame finds is the one at the position. *)
LEMMA FreeIsHere == ASSUME JournalInv PROVE FirstFree = pos
<1>1. <<page, pos>> \in Entries /\ frames[<<page, pos>>] = 0
  BY DEF JournalInv, Entries, Passed
<1>2. pos \in pos .. Room /\ \A q \in pos .. pos - 1 : frames[<<page, q>>] # 0
  BY PageServiceAssumption DEF JournalInv
<1>3. \A p \in pos .. Room : (\A q \in pos .. p - 1 : frames[<<page, q>>] # 0) => p = pos
  <2> SUFFICES ASSUME NEW p \in pos .. Room, \A q \in pos .. p - 1 : frames[<<page, q>>] # 0, p # pos PROVE FALSE
    OBVIOUS
  <2>1. pos \in pos .. p - 1
    BY PageServiceAssumption DEF JournalInv
  <2> QED BY <2>1, <1>1
<1> QED BY <1>1, <1>2, <1>3 DEF FirstFree

LEMMA JournalLocate == ASSUME JournalInv, NEW t \in Writers, LocateFrame(t), LockInv PROVE JournalInv'
<1>1. pos' = pos /\ page' = page /\ frames' = frames /\ closed' = closed /\ acked' = acked /\ msg' = msg /\ issued' = issued
  BY FreeIsHere DEF LocateFrame, msgVars
<1>2. pc[t] = "locate" /\ \A u \in Writers : Writing(u)' => Writing(u)
  BY DEF LocateFrame, Writing, Run, Goto, LockInv, Threads
<1>3. OneWrites'
  BY <1>2 DEF JournalInv, OneWrites
<1>4. \A u \in Writers : u # t => pc'[u] = pc[u]
  BY DEF LocateFrame, Goto, LockInv, Threads
<1>5. CASE Writable(pos)
  <2>1. at' = [at EXCEPT ![t] = <<page, pos>>] /\ target' = target /\ pc'[t] = "commit" /\ pos < Room
    BY <1>5, FreeIsHere DEF LocateFrame, Goto, Writable, LockInv, Threads
  <2>2. <<page, pos>> \in (0 .. MaxPages) \X (0 .. Room)
    BY PageServiceAssumption DEF JournalInv
  <2>3. at' \in [Writers -> (0 .. MaxPages) \X (0 .. Room)] /\ at'[t] = <<page, pos>>
        /\ \A u \in Writers : u # t => at'[u] = at[u]
    BY <2>1, <2>2 DEF JournalInv
  <2>4. \A u \in Writers : pc'[u] = "commit" => at'[u] = <<page, pos>> /\ pos < Room
    BY <2>1, <2>3, <1>4 DEF JournalInv
  <2>5. \A u \in Writers : pc'[u] = "spin" => target[u] = page + 1
    BY <2>1, <1>4 DEF JournalInv
  <2> QED BY <1>1, <1>3, <2>1, <2>3, <2>4, <2>5 DEF JournalInv, Passed, Hidden
<1>6. CASE ~Writable(pos)
  <2>1. at' = at /\ target' = [target EXCEPT ![t] = page + 1] /\ pc'[t] = "spin" /\ page < MaxPages
    BY <1>6, FreeIsHere DEF LocateFrame, Goto, LockInv, Threads
  <2>2. target' \in [Writers -> 0 .. MaxPages] /\ target'[t] = page + 1 /\ \A u \in Writers : u # t => target'[u] = target[u]
    BY <2>1, PageServiceAssumption DEF JournalInv
  <2>3. \A u \in Writers : pc'[u] = "commit" => at[u] = <<page, pos>> /\ pos < Room
    BY <2>1, <1>4 DEF JournalInv
  <2>4. \A u \in Writers : pc'[u] = "spin" => target'[u] = page + 1
    BY <2>1, <2>2, <1>4 DEF JournalInv
  <2> QED BY <1>1, <1>3, <2>1, <2>2, <2>3, <2>4 DEF JournalInv, Passed, Hidden
<1> QED BY <1>5, <1>6

LEMMA JournalNext == ASSUME JournalInv, NEW t \in Writers, LoadNextPage(t), LockInv PROVE JournalInv'
<1>1. page' = page + 1 /\ page + 1 \in 1 .. MaxPages /\ pos' = 0 /\ closed' = closed \cup {<<page, pos>>}
  BY PageServiceAssumption DEF LoadNextPage, Run, JournalInv
<1>2. UNCHANGED <<target, at, frames, issued, msg, acked, collided>>
  BY DEF LoadNextPage, msgVars
<1>3. pc[t] = "spin" /\ pc'[t] = "locate" /\ \A u \in Writers : u # t => pc'[u] = pc[u]
  BY DEF LoadNextPage, Run, Goto, LockInv, Threads
<1>4. \A u \in Writers : u # t => ~Writing(u)
  BY <1>3 DEF Writing, JournalInv, OneWrites
<1>5. \A u \in Writers : pc'[u] \notin {"spin", "commit"}
  BY <1>3, <1>4 DEF Writing
<1>6. OneWrites'
  BY <1>3, <1>4 DEF OneWrites, Writing
<1>7. <<page, pos>> \in Entries /\ closed' \subseteq Entries /\ \A c \in closed' : c[1] < page'
  BY <1>1, PageServiceAssumption DEF JournalInv, Entries
<1>8. \A e \in Entries : Passed(e) => Passed(e)'
  BY <1>1, PageServiceAssumption DEF JournalInv, Entries, Passed
<1>9. \A e \in Entries : Passed(e) /\ ~Hidden(e) => ~Hidden(e)'
  BY <1>1, PageServiceAssumption DEF JournalInv, Entries, Passed, Hidden
<1>10. 0 \in 0 .. Room
  BY PageServiceAssumption
<1>11. \A m \in acked' : \E e \in Entries : frames'[e] = m /\ Passed(e)' /\ ~Hidden(e)'
  BY <1>2, <1>8, <1>9 DEF JournalInv
<1>12. \A e \in Entries : frames'[e] # 0 => Passed(e)'
  BY <1>2, <1>8 DEF JournalInv
<1> QED BY <1>1, <1>2, <1>5, <1>6, <1>7, <1>10, <1>11, <1>12 DEF JournalInv

LEMMA JournalCommit == ASSUME JournalInv, NEW t \in Writers, CommitFrame(t), LockInv PROVE JournalInv'
<1>1. pc[t] = "commit" /\ at[t] = <<page, pos>> /\ pos < Room /\ pos \in 0 .. Room
  BY DEF CommitFrame, Run, JournalInv
<1>2. pos' = pos + 1 /\ pos' \in 0 .. Room /\ frames' = [frames EXCEPT ![<<page, pos>>] = msg[t]] /\ acked' = acked \cup {msg[t]}
  BY <1>1, PageServiceAssumption DEF CommitFrame
<1>3. UNCHANGED <<page, target, at, closed, issued, msg, collided>>
  BY DEF CommitFrame
<1>4. pc'[t] = "wrote" /\ \A u \in Writers : u # t => pc'[u] = pc[u]
  BY DEF CommitFrame, Goto, LockInv, Threads
<1>5. \A u \in Writers : u # t => ~Writing(u)
  BY <1>1 DEF Writing, JournalInv, OneWrites
<1>6. OneWrites' /\ \A u \in Writers : pc'[u] \notin {"spin", "commit"}
  BY <1>4, <1>5 DEF OneWrites, Writing
<1>7. PICK here \in Entries : here = <<page, pos>>
  BY <1>1 DEF JournalInv, Entries
<1>8. frames' \in [Entries -> Nat] /\ frames'[here] = msg[t]
      /\ \A e \in Entries : e # here => frames'[e] = frames[e]
  BY <1>2, <1>7 DEF JournalInv
<1>9. \A e \in Entries : Passed(e) => Passed(e)' /\ e # here
  BY <1>2, <1>3, <1>7 DEF Passed, Entries, JournalInv
<1>10. Passed(here)' /\ ~Hidden(here)'
  BY <1>1, <1>2, <1>3, <1>7, PageServiceAssumption DEF Passed, Hidden, JournalInv, Entries
<1>11. \A e \in Entries : frames'[e] # 0 => Passed(e)'
  BY <1>8, <1>9, <1>10 DEF JournalInv
<1>12. \A m \in acked' : \E e \in Entries : frames'[e] = m /\ Passed(e)' /\ ~Hidden(e)'
  <2> SUFFICES ASSUME NEW m \in acked' PROVE \E e \in Entries : frames'[e] = m /\ Passed(e)' /\ ~Hidden(e)'
    OBVIOUS
  <2>1. CASE m = msg[t]
    BY <2>1, <1>7, <1>8, <1>10
  <2>2. CASE m \in acked
    <3>1. PICK e \in Entries : frames[e] = m /\ Passed(e) /\ ~Hidden(e)
      BY <2>2 DEF JournalInv
    <3>2. ~Hidden(e)'
      BY <3>1, <1>3 DEF Hidden
    <3> QED BY <3>1, <3>2, <1>8, <1>9
  <2> QED BY <2>1, <2>2, <1>2
<1> QED BY <1>2, <1>3, <1>6, <1>8, <1>11, <1>12 DEF JournalInv

(* A message is taken up: no other thread writes, or the step collides. *)
LEMMA JournalStart ==
  ASSUME JournalInv, LockInv, ~collided', NEW t \in Writers, NEW last, StartWrite(t, last), Goto(t, "locate"),
         t # "caller" => pc[t] \notin {"idle", "end"},
         UNCHANGED journalVars
  PROVE  JournalInv'
<1>1. \A u \in Writers \ {t} : ~Writing(u)
  BY DEF StartWrite, Writing, LockInv, Locking, Writers
<1>2. pc'[t] = "locate" /\ \A u \in Writers : u # t => pc'[u] = pc[u]
  BY DEF Goto, LockInv, Threads
<1>3. OneWrites'
  BY <1>1, <1>2 DEF OneWrites, Writing
<1>4. \A u \in Writers : pc'[u] \notin {"spin", "commit"}
  BY <1>1, <1>2 DEF Writing
<1>5. issued' \in Nat /\ msg' \in [Writers -> Nat] /\ acked' = acked
  BY DEF StartWrite, JournalInv
<1> QED BY <1>3, <1>4, <1>5 DEF JournalInv, journalVars, Passed, Hidden

(* Any other step leaves the journal alone and lets no thread begin to write. *)
LEMMA JournalIdle ==
  ASSUME JournalInv, UNCHANGED written,
         \A t \in Writers : Writing(t)' => pc'[t] = pc[t]
  PROVE  JournalInv'
<1>1. OneWrites'
  BY DEF JournalInv, OneWrites, Writing
<1>2. \A t \in Writers : pc'[t] \in {"spin", "commit"} => pc'[t] = pc[t]
  BY DEF Writing
<1> QED BY <1>1, <1>2 DEF JournalInv, written, Passed, Hidden

LEMMA JournalStep ==
  ASSUME LockInv, ~collided => JournalInv, [Next]_vars, ~collided'
  PROVE  JournalInv'
<1> DEFINE quiet == UNCHANGED written /\ \A t \in Writers : Writing(t)' => pc'[t] = pc[t]
<1>0. JournalInv
  <2>1. ~collided
    BY DEF Next, vars, threadVars, protocol, journalVars, msgVars, Write, LocateFrame, LoadNextPage, CommitFrame,
           CrashInWrite, TaskLock, TaskWrite, TaskUnlock, SocketLock, SocketWrite, SocketUnlock, SocketExitOwn,
           ClientRequest, ClientDemand, CommLock, CommServe, CallerWrite, StopWrite, CallerWrote, StopReset,
           JoinTask, JoinComm, JoinSocket, Join, StartWrite
  <2> QED BY <2>1
<1>1. ASSUME NEW t \in Writers, Write(t) PROVE JournalInv'
  BY <1>0, <1>1, JournalLocate, JournalNext, JournalCommit DEF Write
<1>2. CASE TaskWrite
  BY <1>0, <1>2, JournalStart DEF TaskWrite, Run, Writers
<1>3. CASE SocketWrite
  BY <1>0, <1>3, JournalStart DEF SocketWrite, Run, Writers
<1>4. CASE CallerWrite \/ StopWrite
  BY <1>0, <1>4, JournalStart DEF CallerWrite, StopWrite, Writers
<1>5. CASE UNCHANGED vars
  <2>1. quiet
    BY <1>5 DEF vars, threadVars, journalVars, msgVars, written, Writing
  <2> QED BY <2>1, <1>0, JournalIdle
<1>6. ASSUME NEW t \in Writers, CrashInWrite(t) PROVE JournalInv'
  <2>1. quiet
    BY <1>6 DEF CrashInWrite, journalVars, msgVars, written, Writing
  <2> QED BY <2>1, <1>0, JournalIdle
<1>7. CASE TaskLock \/ TaskUnlock \/ SocketUnlock \/ SocketExitOwn \/ CommServe
  <2>1. quiet
    BY <1>7 DEF TaskLock, TaskUnlock, SocketUnlock, SocketExitOwn, CommServe, Lock, Unlock, Goto, LockInv, Threads, Writers,
                journalVars, msgVars, written, Writing
  <2> QED BY <2>1, <1>0, JournalIdle
<1>8. ASSUME NEW own \in BOOLEAN, SocketLock(own) \/ CommLock(own) PROVE JournalInv'
  <2>1. quiet
    BY <1>8 DEF SocketLock, CommLock, Lock, Goto, LockInv, Threads, Writers, journalVars, msgVars, written, Writing
  <2> QED BY <2>1, <1>0, JournalIdle
<1>9. CASE ClientRequest \/ ClientDemand \/ CallerWrote \/ StopReset \/ JoinTask \/ JoinComm \/ JoinSocket
  <2>1. quiet
    BY <1>9 DEF ClientRequest, ClientDemand, CallerWrote, StopReset, JoinTask, JoinComm, JoinSocket, Join, Goto, LockInv,
                Threads, Writers, threadVars, journalVars, msgVars, written, Writing
  <2> QED BY <2>1, <1>0, JournalIdle
<1> QED BY <1>1, <1>2, <1>3, <1>4, <1>5, <1>6, <1>7, <1>8, <1>9 DEF Next, Writers

(***************************************************************************)
(* "return true if msg is written in system journal" (PageEngine.h): what  *)
(* write() acknowledged stays in the journal where readers find it, for a  *)
(* journal of any size, as long as the caller's writes, which do not take  *)
(* the mutex, have not met another thread's.                               *)
(***************************************************************************)
THEOREM AckedIsWritten == Spec => []WrittenIfAcked
<1>1. Init => (~collided => JournalInv)
  BY JournalInit
<1>2. LockInv /\ (~collided => JournalInv) /\ [Next]_vars => (~collided => JournalInv)'
  BY JournalStep
<1>3. (~collided => JournalInv) => WrittenIfAcked
  BY DEF JournalInv, WrittenIfAcked, Hidden
<1> QED BY <1>1, <1>2, <1>3, LockHolds, PTL DEF Spec
=============================================================================
