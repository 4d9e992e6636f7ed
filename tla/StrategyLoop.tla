---------------------------- MODULE StrategyLoop ----------------------------
(***************************************************************************)
(* The data thread of a strategy: WCDataWrapper::run over a JournalReader  *)
(* that merges several journals by the time of their frames, the heap of   *)
(* callbacks of WCStrategyUtil, and the bars made of market data.          *)
(*                                                                         *)
(* A writer stamps its frame before it commits it, so a frame may turn up  *)
(* after later ones of other journals, and the time of the strategy, which *)
(* is that of its last frame, may go back.  Journals are Journal.tla's;    *)
(* here a journal is the sequence of the times of its frames.              *)
(***************************************************************************)
EXTENDS Integers, Sequences, FiniteSets

CONSTANTS
  N,           \* number of journals of the reader
  Feeds,       \* those of market data with bars
  BarTimes,    \* start and ends of the bars of register_bar_md
  MaxTime,     \* bound: the clock
  MaxFrames,   \* bound: frames
  MaxInserts   \* bound: callbacks inserted by the strategy

ASSUME StrategyLoopAssumption ==
  /\ N \in Nat /\ Feeds \subseteq 1 .. N
  /\ MaxTime \in Nat /\ MaxFrames \in Nat /\ MaxInserts \in Nat
  /\ BarTimes \in Seq(1 .. MaxTime)
  /\ \A i \in 1 .. Len(BarTimes) - 1 : BarTimes[i] < BarTimes[i + 1]

Journals == 1 .. N
NoUnit == [nano |-> 0, what |-> "none", of |-> 0]

VARIABLES
  clock,       \* getNanoTime()
  stamp,       \* journal -> time of the frame its writer is at (0 for none)
  log,         \* journal -> times of its frames
  pos,         \* journal -> frames the reader has passed
  pc,          \* where the data thread is
  look, best,  \* getNextFrame: the journal it looks at, and the one with the earliest frame so far
  cur_time,    \* of WCDataWrapper
  cur_nano,    \* of WCStrategyUtil
  heap,        \* callback_heap
  running,     \* the callback that runs
  force_stop, signal,
  bars,        \* feed -> numbers of the frames in its bar
  barring,     \* feeds with a bar
  passed,      \* history: journals whose next frame the last getNextFrame saw and did not take
  inserted,    \* history: callbacks inserted
  ran,         \* history: callbacks that have run
  sent,        \* history: feed -> ticks given to on_market_bar, with the ends of their bars
  overwritten  \* history: has run() reset a stop or a signal?

journals == <<clock, stamp, log>>
times    == <<cur_time, cur_nano>>
stops    == <<force_stop, signal, overwritten>>
barVars  == <<bars, barring, sent>>
heapVars == <<heap, running, inserted, ran>>
scan     == <<look, best, passed>>
vars == <<journals, pos, pc, scan, times, heapVars, stops, barVars>>

All(x) == [j \in Journals |-> x]
PerFeed(x) == [f \in Feeds |-> x]

(* The data wrapper is constructed, on_time has been called once. *)
Init ==
  /\ clock \in 1 .. 2 /\ stamp = All(0) /\ log = All(<<>>) /\ pos = All(0)
  /\ pc = "initialize" /\ look = 1 /\ best = 0 /\ passed = {}
  /\ cur_time = clock /\ cur_nano = clock
  /\ heap = {} /\ running = NoUnit /\ inserted = {} /\ ran = {}
  /\ force_stop = FALSE /\ signal = FALSE /\ overwritten = FALSE
  /\ bars = PerFeed(<<>>) /\ barring = {} /\ sent = PerFeed(<<>>)

-----------------------------------------------------------------------------
(* Writers and the clock, as long as the data thread is there.             *)

Elapse ==
  /\ pc # "ended" /\ clock < MaxTime
  /\ clock' = clock + 1
  /\ UNCHANGED <<stamp, log, pos, pc, scan, times, heapVars, stops, barVars>>

Stamped == UNION {{j} \X (1 .. Len(log[j]) + (IF stamp[j] = 0 THEN 0 ELSE 1)) : j \in Journals}

Stamp(j) ==
  /\ pc # "ended" /\ stamp[j] = 0 /\ Cardinality(Stamped) < MaxFrames
  /\ stamp' = [stamp EXCEPT ![j] = clock]
  /\ UNCHANGED <<clock, log, pos, pc, scan, times, heapVars, stops, barVars>>

Commit(j) ==
  /\ pc # "ended" /\ stamp[j] # 0
  /\ log' = [log EXCEPT ![j] = Append(@, stamp[j])]
  /\ stamp' = [stamp EXCEPT ![j] = 0]
  /\ UNCHANGED <<clock, pos, pc, scan, times, heapVars, stops, barVars>>

-----------------------------------------------------------------------------
(* The strategy's code.                                                    *)

(* Mutant: a callback may be inserted for a time that is over. *)
AcceptedAlways(nano) == TRUE

Accepted(nano) == nano > cur_nano

(* top() and its test. *)
Top == {u \in heap : \A v \in heap : u.nano <= v.nano}
Due == {u \in Top : u.nano <= cur_nano}

Push(units) == heap' = heap \cup units /\ inserted' = inserted \cup units

(* insert_callback, in the handler of a frame, of a bar, or in another callback. *)
insert_callback(nano) ==
  /\ pc = "handler" \/ (pc = "callback" /\ running.what # "init")
  /\ Cardinality({u \in inserted : u.what = "user"}) < MaxInserts
  /\ Accepted(nano)
  /\ Push({[nano |-> nano, what |-> "user", of |-> Cardinality(inserted)]})
  /\ UNCHANGED <<journals, pos, pc, scan, times, running, ran, stops, barVars>>

(* A callback for each time to come; the first starts the bars, the others send one. *)
BarUnits(f) ==
  {[nano |-> BarTimes[i], of |-> f,
    what |-> IF i = 1 \/ BarTimes[i - 1] <= cur_time THEN "init" ELSE "send"] :
      i \in {k \in DOMAIN BarTimes : BarTimes[k] > cur_time}}

register_bar_md ==
  /\ pc = "initialize"
  /\ Push(UNION {BarUnits(f) : f \in Feeds})
  /\ pc' = "pre_run"
  /\ UNCHANGED <<journals, pos, scan, times, running, ran, stops, barVars>>

-----------------------------------------------------------------------------
(* run.                                                                    *)

(* The reader starts behind the frames that are there. *)
pre_run ==
  /\ pc = "pre_run"
  /\ pos' = [j \in Journals |-> Len(log[j])]
  /\ pc' = "reset"
  /\ UNCHANGED <<journals, scan, times, heapVars, stops, barVars>>

Reset ==
  /\ pc = "reset"
  /\ overwritten' = (force_stop \/ signal)
  /\ force_stop' = FALSE /\ signal' = FALSE
  /\ pc' = "loop"
  /\ UNCHANGED <<journals, pos, scan, times, heapVars, barVars>>

(* Mutant: only the signal is looked at. *)
GoesOnUnlessSignal == ~signal

GoesOn == ~force_stop /\ ~signal

(* The next round, when no callback is due. *)
Loop ==
  /\ pc = "loop" \/ (pc = "callbacks" /\ Due = {})
  /\ pc' = IF GoesOn THEN "scan" ELSE "ended"
  /\ passed' = {}
  /\ UNCHANGED <<journals, pos, look, best, times, heapVars, stops, barVars>>

NextNano(j) == log[j][pos[j] + 1]

(* getNextFrame looks at one journal after the other. *)
Look ==
  /\ pc = "scan" /\ look <= N
  /\ look' = look + 1
  /\ IF pos[look] < Len(log[look])
     THEN /\ passed' = passed \cup {look}
          /\ best' = IF best = 0 \/ NextNano(look) < NextNano(best) THEN look ELSE best
     ELSE UNCHANGED <<best, passed>>
  /\ UNCHANGED <<journals, pos, pc, times, heapVars, stops, barVars>>

(* Mutant: the time is read from the clock for a frame, too. *)
TimeNow == clock

TimeOfFrame == NextNano(best)

(* A frame; market data goes into the bar, if there is one. *)
Frame ==
  /\ pc = "scan" /\ look > N /\ best # 0
  /\ cur_time' = TimeOfFrame
  /\ pos' = [pos EXCEPT ![best] = @ + 1]
  /\ bars' = IF best \in barring THEN [bars EXCEPT ![best] = Append(@, pos[best] + 1)] ELSE bars
  /\ pc' = "handler"
  /\ look' = 1 /\ best' = 0 /\ passed' = passed \ {best}
  /\ UNCHANGED <<journals, cur_nano, heapVars, stops, barring, sent>>

(* Mutant: without a frame the time stands still. *)
TimeKept == cur_time

(* Without a frame, getNanoTime(); on_time follows at once. *)
IdleTime == clock

Idle ==
  /\ pc = "scan" /\ look > N /\ best = 0
  /\ cur_time' = IdleTime /\ cur_nano' = IdleTime
  /\ pc' = "callbacks" /\ look' = 1
  /\ UNCHANGED <<journals, pos, best, passed, heapVars, stops, barVars>>

-----------------------------------------------------------------------------
(* on_time, process_callback.                                              *)

OnTime ==
  /\ pc = "handler"
  /\ cur_nano' = cur_time
  /\ pc' = "callbacks"
  /\ UNCHANGED <<journals, pos, scan, cur_time, heapVars, stops, barVars>>

(* Mutant: send_bar forgets to clear the bar. *)
ClearedKept(f) == bars

Cleared(f) == [bars EXCEPT ![f] = <<>>]

(* What is given to on_market_bar at the end of the bar. *)
Ticks(u) == [k \in DOMAIN bars[u.of] |-> [end |-> u.nano, tick |-> bars[u.of][k]]]

(* init_bar and send_bar. *)
RunBar(u) ==
  /\ barring' = barring \cup {u.of}
  /\ bars' = Cleared(u.of)
  /\ sent' = IF u.what = "send" THEN [sent EXCEPT ![u.of] = @ \o Ticks(u)] ELSE sent

Call(u) ==
  /\ pc = "callbacks" /\ u \in Due /\ ~signal
  /\ running' = u /\ ran' = ran \cup {u}
  /\ IF u.what = "user" THEN UNCHANGED barVars ELSE RunBar(u)
  /\ pc' = "callback"
  /\ UNCHANGED <<journals, pos, scan, times, heap, inserted, stops>>

(* pop() takes what is on top by now; what was pushed meanwhile is only before it if it is earlier. *)
Return ==
  /\ pc = "callback"
  /\ heap' = heap \ {IF running \in Top THEN running ELSE CHOOSE u \in Top : TRUE}
  /\ running' = NoUnit
  /\ pc' = "callbacks"
  /\ UNCHANGED <<journals, pos, scan, times, inserted, ran, stops, barVars>>

(* After a signal callbacks are dropped. *)
Drop(u) ==
  /\ pc = "callbacks" /\ u \in Due /\ signal
  /\ heap' = heap \ {u}
  /\ UNCHANGED <<journals, pos, pc, scan, times, running, inserted, ran, stops, barVars>>

-----------------------------------------------------------------------------
(* From another thread, or a signal handler.                               *)

stop ==
  /\ ~force_stop /\ ~signal /\ pc # "ended"
  /\ force_stop' = TRUE
  /\ UNCHANGED <<journals, pos, pc, scan, times, heapVars, signal, overwritten, barVars>>

signal_handler ==
  /\ ~force_stop /\ ~signal /\ pc # "ended"
  /\ signal' = TRUE
  /\ UNCHANGED <<journals, pos, pc, scan, times, heapVars, force_stop, overwritten, barVars>>

Step ==
  \/ register_bar_md \/ pre_run \/ Reset \/ Loop \/ Look \/ Frame \/ Idle \/ OnTime
  \/ (\E u \in heap : Call(u) \/ Drop(u)) \/ Return

Next ==
  \/ Elapse \/ \E j \in Journals : Stamp(j) \/ Commit(j)
  \/ Step \/ stop \/ signal_handler
  \/ \E t \in 1 .. MaxTime : insert_callback(t)

Spec == Init /\ [][Next]_vars

(* The data thread goes on, and so does time. *)
FairSpec == Spec /\ WF_vars(Step) /\ WF_vars(Elapse)

-----------------------------------------------------------------------------
(* Properties.                                                             *)

(***************************************************************************)
(* Every callback that was inserted is waiting or has run, once and not    *)
(* before its time, whatever callbacks are inserted while one runs; only a *)
(* signal drops some.                                                      *)
(***************************************************************************)
CallbacksOnce ==
  /\ \A u \in ran : u.nano <= clock
  /\ heap \cap ran \subseteq {running}
  /\ heap \cup ran \subseteq inserted
  /\ ~signal => inserted \subseteq heap \cup ran

(***************************************************************************)
(* A callback runs after every frame stamped before its time, unless the   *)
(* frame was not there yet when the reader last looked at its journal.     *)
(***************************************************************************)
FramesBeforeCallbacks ==
  pc = "callback" => \A j \in passed : NextNano(j) >= running.nano

Late(e) == UNION {{f} \X {k \in DOMAIN sent[f] : sent[f][k].end = e /\ log[f][sent[f][k].tick] >= e} : f \in Feeds}

(***************************************************************************)
(* The bars of a feed, one after the other, hold every frame read since    *)
(* the first, once and in order; and of all bars that end at one time at   *)
(* most one holds a frame from then or later: that whose arrival closed    *)
(* them.                                                                   *)
(***************************************************************************)
BarsExact ==
  /\ \A f \in Feeds :
       LET all == [k \in DOMAIN sent[f] |-> sent[f][k].tick] \o bars[f]
       IN  \A k \in DOMAIN all : all[k] = pos[f] - (Len(all) - k)
  /\ \A i \in DOMAIN BarTimes : Cardinality(Late(BarTimes[i])) <= 1

(* Every callback runs, unless the strategy ends. *)
CallbacksRun == <>[](heap = {} \/ pc = "ended")

(***************************************************************************)
(* stop() and signals end the data thread, so that terminate() can join    *)
(* it; unless they come before run() has reset them.                       *)
(***************************************************************************)
StopEnds == (force_stop \/ signal) ~> (pc = "ended" \/ overwritten)
=============================================================================
