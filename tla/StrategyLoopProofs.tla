------------------------- MODULE StrategyLoopProofs -------------------------
(***************************************************************************)
(* Proofs about StrategyLoop, for any number of journals, any bars and any *)
(* bounds: callbacks run once, and behind the frames that were seen; the   *)
(* bars are exact.                                                         *)
(*                                                                         *)
(* A callback that runs stays on top of the heap, as what is inserted      *)
(* meanwhile is later than cur_nano, so that pop() takes the right one.    *)
(* And of all frames that were seen the earliest is taken, so that the     *)
(* time of the strategy does not pass those that were not.                 *)
(***************************************************************************)
EXTENDS StrategyLoop, FiniteSetTheorems, TLAPS

PcNames == {"initialize", "pre_run", "reset", "loop", "scan", "handler", "callbacks", "callback", "ended"}
Unit == [nano : Nat, what : {"init", "send", "user"}, of : Int]

Typed ==
  /\ clock \in Int /\ stamp \in [Journals -> Int]
  /\ log \in [Journals -> Seq(Int)] /\ pos \in [Journals -> Nat]
  /\ pc \in PcNames /\ look \in Nat \ {0} /\ best \in 0 .. N
  /\ cur_time \in Int /\ cur_nano \in Int
  /\ inserted \subseteq Unit /\ IsFiniteSet(inserted)

(* Times are over. *)
Past ==
  /\ 0 <= clock /\ cur_time <= clock /\ cur_nano <= clock
  /\ \A j \in Journals : stamp[j] <= clock
  /\ \A j \in Journals : \A k \in DOMAIN log[j] : log[j][k] <= clock
  /\ \A u \in ran : u.nano <= clock

Early == {"initialize", "pre_run", "reset"}

Waiting ==
  /\ heap \cup ran \subseteq inserted
  /\ pc = "initialize" => inserted = {}
  /\ \A u \in inserted : u.what = "user" => u.of < Cardinality(inserted)
  /\ ~signal \/ pc \in Early => inserted \subseteq heap \cup ran
  /\ pc # "callback" => heap \cap ran = {}
  /\ pc = "callback" => running \in Top /\ running.nano <= cur_nano /\ heap \cap ran = {running}

Seen ==
  /\ \A j \in passed : j \in Journals /\ pos[j] < Len(log[j])
  /\ pc \in Early \cup {"loop"} => passed = {}
  /\ pc # "scan" => best = 0
  /\ pc = "scan" => IF best = 0 THEN passed = {}
                    ELSE best \in passed /\ \A j \in passed : NextNano(best) <= NextNano(j)
  /\ pc = "handler" => \A j \in passed : cur_time <= NextNano(j)
  /\ pc \in {"callbacks", "callback"} => \A j \in passed : cur_nano <= NextNano(j)

Inv == Typed /\ Past /\ Waiting /\ Seen

LEMMA InitInv == Init => Inv
<1> SUFFICES ASSUME Init PROVE Inv
  OBVIOUS
<1> USE StrategyLoopAssumption DEF Init, All
<1>1. <<>> \in Seq(Int) /\ Len(<<>>) = 0
  OBVIOUS
<1>2. IsFiniteSet({})
  BY FS_EmptySet
<1>3. Typed
  BY <1>1, <1>2 DEF Typed, PcNames
<1>4. Past
  BY DEF Past, Journals
<1>5. Waiting
  BY DEF Waiting
<1>6. Seen
  BY DEF Seen, Early
<1>7. QED
  BY <1>3, <1>4, <1>5, <1>6 DEF Inv

-----------------------------------------------------------------------------
(* The writers.                                                            *)

LEMMA ElapseKeeps == ASSUME Inv, Elapse PROVE Inv'
<1>1. /\ clock \in Int /\ clock' = clock + 1
      /\ UNCHANGED <<stamp, log, pos, pc, scan, times, heapVars, stops>>
  BY DEF Elapse, Inv, Typed
<1>2. Typed'
  BY <1>1 DEF Inv, Typed, scan, times, heapVars
<1>3. Past'
  <2>1. \A t \in Int : t <= clock => t <= clock'
    BY <1>1
  <2>2. \A j \in Journals : stamp[j] \in Int /\ \A k \in DOMAIN log[j] : log[j][k] \in Int
    BY DEF Inv, Typed
  <2>3. \A u \in ran : u.nano \in Int
    BY DEF Inv, Typed, Waiting, Unit
  <2>4. QED
    BY <1>1, <2>1, <2>2, <2>3 DEF Inv, Past, Typed, times, heapVars
<1>4. Waiting' /\ Seen'
  BY <1>1 DEF Inv, Waiting, Seen, Top, NextNano, scan, times, heapVars, stops
<1>5. QED
  BY <1>2, <1>3, <1>4 DEF Inv

LEMMA StampKeeps == ASSUME Inv, NEW j \in Journals, Stamp(j) PROVE Inv'
<1>1. /\ stamp' = [stamp EXCEPT ![j] = clock]
      /\ UNCHANGED <<clock, log, pos, pc, scan, times, heapVars, stops>>
  BY DEF Stamp
<1>2. Typed'
  BY <1>1 DEF Inv, Typed, scan, times, heapVars
<1>3. Past'
  BY <1>1 DEF Inv, Typed, Past, times, heapVars
<1>4. Waiting' /\ Seen'
  BY <1>1 DEF Inv, Waiting, Seen, Top, NextNano, scan, times, heapVars, stops
<1>5. QED
  BY <1>2, <1>3, <1>4 DEF Inv

(* A frame that is committed leaves those that the reader has seen where they are. *)
LEMMA CommitKeeps == ASSUME Inv, NEW j \in Journals, Commit(j) PROVE Inv'
<1>1. /\ log' = [log EXCEPT ![j] = Append(@, stamp[j])]
      /\ stamp' = [stamp EXCEPT ![j] = 0]
      /\ UNCHANGED <<clock, pos, pc, scan, times, heapVars, stops>>
  BY DEF Commit
<1>2. log[j] \in Seq(Int) /\ stamp[j] \in Int
  BY DEF Inv, Typed
<1>3. log'[j] = Append(log[j], stamp[j]) /\ \A i \in Journals \ {j} : log'[i] = log[i]
  BY <1>1 DEF Inv, Typed
<1>4. Typed'
  BY <1>1, <1>2 DEF Inv, Typed, scan, times, heapVars
<1>5. \A i \in Journals : /\ Len(log'[i]) >= Len(log[i])
                          /\ \A k \in 1 .. Len(log[i]) : log'[i][k] = log[i][k]
  <2>1. SUFFICES ASSUME NEW i \in Journals
                 PROVE  /\ Len(log'[i]) >= Len(log[i])
                        /\ \A k \in 1 .. Len(log[i]) : log'[i][k] = log[i][k]
    OBVIOUS
  <2>2. log[i] \in Seq(Int)
    BY DEF Inv, Typed
  <2>3. CASE i = j
    BY <1>2, <1>3, <2>3
  <2>4. CASE i # j
    BY <1>3, <2>2, <2>4
  <2>5. QED
    BY <2>3, <2>4
<1>6. Past'
  <2>1. \A i \in Journals : stamp'[i] <= clock
    <3>1. 0 <= clock
      BY DEF Inv, Past
    <3>2. QED
      BY <1>1, <3>1 DEF Inv, Typed, Past
  <2>2. \A i \in Journals : \A k \in DOMAIN log'[i] : log'[i][k] <= clock
    <3>1. stamp[j] <= clock /\ \A i \in Journals : \A k \in DOMAIN log[i] : log[i][k] <= clock
      BY DEF Inv, Past
    <3>2. \A k \in DOMAIN log'[j] : log'[j][k] <= clock
      BY ONLY <1>2, <1>3, <3>1, j \in Journals
    <3>3. QED
      BY <1>3, <3>1, <3>2
  <2>3. QED
    BY <1>1, <2>1, <2>2 DEF Inv, Past, times, heapVars
<1>7. Waiting'
  BY <1>1 DEF Inv, Waiting, Top, times, heapVars, stops
<1>8. ASSUME NEW i \in passed PROVE i \in Journals /\ pos'[i] < Len(log'[i]) /\ NextNano(i)' = NextNano(i)
  <2>1. i \in Journals /\ pos[i] \in Nat /\ pos[i] < Len(log[i]) /\ Len(log[i]) \in Nat
    BY DEF Inv, Seen, Typed
  <2>2. pos[i] + 1 \in 1 .. Len(log[i])
    BY <2>1
  <2>3. Len(log'[i]) \in Nat
    BY <2>1, <1>4 DEF Typed
  <2>4. QED
    BY <1>1, <1>5, <2>1, <2>2, <2>3 DEF NextNano
<1>9. Seen'
  BY <1>1, <1>8 DEF Inv, Seen, scan, times
<1>10. QED
  BY <1>4, <1>6, <1>7, <1>9 DEF Inv

-----------------------------------------------------------------------------
(* The strategy's code, and callbacks.                                     *)

LEMMA InsertKeeps == ASSUME Inv, NEW t \in 1 .. MaxTime, insert_callback(t) PROVE Inv'
<1> DEFINE new == [nano |-> t, what |-> "user", of |-> Cardinality(inserted)]
<1>1. /\ heap' = heap \cup {new} /\ inserted' = inserted \cup {new}
      /\ pc \in {"handler", "callback"} /\ t > cur_nano
      /\ UNCHANGED <<journals, pos, pc, scan, times, running, ran, stops>>
  BY DEF insert_callback, Push, Accepted
<1>2. Cardinality(inserted) \in Nat /\ IsFiniteSet(inserted)
  BY FS_CardinalityType DEF Inv, Typed
<1>3. new \in Unit /\ new.what = "user" /\ new.of = Cardinality(inserted) /\ new.nano = t
  BY <1>2, StrategyLoopAssumption DEF Unit
<1>4. new \notin inserted
  BY <1>2, <1>3 DEF Inv, Waiting
<1>5. Cardinality(inserted') = Cardinality(inserted) + 1 /\ IsFiniteSet(inserted')
  BY <1>1, <1>2, <1>4, FS_AddElement
<1> HIDE DEF new
<1>6. Typed'
  BY <1>1, <1>3, <1>5 DEF Inv, Typed, journals, scan, times
<1>7. Past'
  BY <1>1 DEF Inv, Past, journals, times
<1>8. Waiting'
  <2>1. new \notin ran
    BY <1>4 DEF Inv, Waiting
  <2>2. \A u \in inserted' : u.what = "user" => u.of < Cardinality(inserted')
    <3>1. SUFFICES ASSUME NEW u \in inserted', u.what = "user" PROVE u.of < Cardinality(inserted')
      OBVIOUS
    <3>2. CASE u = new
      BY <1>2, <1>3, <1>5, <3>2
    <3>3. CASE u \in inserted
      <4>1. u.of \in Int /\ u.of < Cardinality(inserted)
        BY <3>1, <3>3 DEF Inv, Typed, Waiting, Unit
      <4>2. QED
        BY <1>2, <1>5, <4>1
    <3>4. QED
      BY <1>1, <3>2, <3>3
  <2>3. pc = "callback" => running' \in Top' /\ running'.nano <= cur_nano'
    <3>1. SUFFICES ASSUME pc = "callback" PROVE running \in Top' /\ running.nano <= cur_nano
      BY <1>1 DEF times
    <3>2. running \in heap /\ running.nano <= cur_nano /\ \A v \in heap : running.nano <= v.nano
      BY <3>1 DEF Inv, Waiting, Top
    <3>3. running.nano \in Int /\ cur_nano \in Int
      BY <3>2 DEF Inv, Typed, Waiting, Unit
    <3>4. running.nano <= new.nano
      BY <1>1, <1>3, <3>2, <3>3
    <3>5. QED
      BY <1>1, <3>2, <3>4 DEF Top
  <2>4. QED
    BY <1>1, <2>1, <2>2, <2>3 DEF Inv, Waiting, stops, Early
<1>9. Seen'
  BY <1>1 DEF Inv, Seen, NextNano, journals, scan, times
<1>10. QED
  BY <1>6, <1>7, <1>8, <1>9 DEF Inv

(* A function has finitely many values on a finite set. *)
LEMMA ValuesFinite ==
  ASSUME NEW S, IsFiniteSet(S), NEW f
  PROVE  IsFiniteSet({f[x] : x \in S})
<1> DEFINE T == {f[x] : x \in S}
           g == [x \in S |-> f[x]]
<1>1. g \in Surjection(S, T)
  BY DEF Surjection
<1>2. QED
  BY <1>1, FS_Surjection

LEMMA BarUnitsType ==
  ASSUME Inv
  PROVE  LET units == UNION {BarUnits(f) : f \in Feeds} IN
           units \subseteq Unit /\ IsFiniteSet(units) /\ \A u \in units : u.what # "user"
<1> DEFINE units == UNION {BarUnits(f) : f \in Feeds}
<1>1. ASSUME NEW f \in Feeds PROVE BarUnits(f) \subseteq Unit /\ \A u \in BarUnits(f) : u.what # "user"
  <2>1. f \in Int /\ \A i \in DOMAIN BarTimes : BarTimes[i] \in Nat
    BY StrategyLoopAssumption
  <2>2. QED
    BY <2>1 DEF BarUnits, Unit
<1>2. ASSUME NEW f \in Feeds PROVE IsFiniteSet(BarUnits(f))
  <2> DEFINE later == {k \in DOMAIN BarTimes : BarTimes[k] > cur_time}
             unit == [i \in later |->
                        [nano |-> BarTimes[i], of |-> f,
                         what |-> IF i = 1 \/ BarTimes[i - 1] <= cur_time THEN "init" ELSE "send"]]
  <2>1. IsFiniteSet(1 .. Len(BarTimes))
    BY FS_Interval, StrategyLoopAssumption
  <2>2. IsFiniteSet(later)
    BY <2>1, FS_Subset, StrategyLoopAssumption
  <2>3. BarUnits(f) = {unit[i] : i \in later}
    BY DEF BarUnits
  <2> HIDE DEF later, unit
  <2>4. QED
    BY <2>2, <2>3, ValuesFinite
<1>3. IsFiniteSet(Feeds)
  <2>1. 1 \in Int /\ N \in Int /\ Feeds \subseteq 1 .. N
    BY StrategyLoopAssumption
  <2>2. IsFiniteSet(1 .. N)
    BY <2>1, FS_Interval
  <2>3. QED
    BY <2>1, <2>2, FS_Subset
<1>4. IsFiniteSet({BarUnits(f) : f \in Feeds})
  <2> DEFINE all == [f \in Feeds |-> BarUnits(f)]
  <2>1. {BarUnits(f) : f \in Feeds} = {all[f] : f \in Feeds}
    OBVIOUS
  <2> HIDE DEF all
  <2>2. QED
    BY <1>3, <2>1, ValuesFinite
<1>5. IsFiniteSet(units)
  <2>1. \A T \in {BarUnits(f) : f \in Feeds} : IsFiniteSet(T)
    BY <1>2
  <2>2. QED
    BY <1>4, <2>1, FS_UNION
<1>6. QED
  BY <1>1, <1>5

LEMMA RegisterKeeps == ASSUME Inv, register_bar_md PROVE Inv'
<1> DEFINE units == UNION {BarUnits(f) : f \in Feeds}
<1>1. units \subseteq Unit /\ IsFiniteSet(units) /\ \A u \in units : u.what # "user"
  BY BarUnitsType
<1> HIDE DEF units
<1>2. /\ heap' = heap \cup units /\ inserted' = inserted \cup units
      /\ pc = "initialize" /\ pc' = "pre_run"
      /\ UNCHANGED <<journals, pos, scan, times, running, ran, stops>>
  BY DEF register_bar_md, Push, units
<1>3. inserted = {} /\ heap = {} /\ ran = {}
  BY <1>2 DEF Inv, Waiting
<1>4. Typed'
  BY <1>1, <1>2, <1>3 DEF Inv, Typed, PcNames, journals, scan, times
<1>5. Past'
  BY <1>2 DEF Inv, Past, journals, times
<1>6. Waiting'
  BY <1>1, <1>2, <1>3 DEF Waiting
<1>7. Seen'
  BY <1>2 DEF Inv, Seen, Early, scan
<1>8. QED
  BY <1>4, <1>5, <1>6, <1>7 DEF Inv

LEMMA CallKeeps == ASSUME Inv, NEW u \in heap, Call(u) PROVE Inv'
<1>1. /\ pc = "callbacks" /\ pc' = "callback" /\ u \in Due
      /\ running' = u /\ ran' = ran \cup {u}
      /\ UNCHANGED <<journals, pos, scan, times, heap, inserted, stops>>
  BY DEF Call
<1>2. u \in Top /\ u.nano <= cur_nano /\ u \in inserted /\ u.nano \in Int
  BY <1>1 DEF Due, Inv, Waiting, Typed, Unit
<1>3. Typed'
  BY <1>1 DEF Inv, Typed, PcNames, journals, scan, times
<1>4. Past'
  <2>1. u.nano <= clock
    BY <1>2 DEF Inv, Past, Typed
  <2>2. QED
    BY <1>1, <2>1 DEF Inv, Past, journals, times
<1>5. Waiting'
  BY <1>1, <1>2 DEF Inv, Waiting, Top, Early, stops, times
<1>6. Seen'
  BY <1>1 DEF Inv, Seen, Early, NextNano, journals, scan, times
<1>7. QED
  BY <1>3, <1>4, <1>5, <1>6 DEF Inv

LEMMA ReturnKeeps == ASSUME Inv, Return PROVE Inv'
<1>1. /\ pc = "callback" /\ pc' = "callbacks"
      /\ UNCHANGED <<journals, pos, scan, times, inserted, ran, stops>>
  BY DEF Return
<1>2. running \in Top /\ running \in heap /\ running \in ran /\ heap \cap ran = {running}
  BY <1>1 DEF Inv, Waiting, Top
<1>3. heap' = heap \ {running}
  BY <1>2 DEF Return
<1>4. Typed' /\ Past'
  BY <1>1 DEF Inv, Typed, Past, PcNames, journals, scan, times
<1>5. Waiting'
  BY <1>1, <1>2, <1>3 DEF Inv, Waiting, Early, stops
<1>6. Seen'
  BY <1>1 DEF Inv, Seen, Early, NextNano, journals, scan, times
<1>7. QED
  BY <1>4, <1>5, <1>6 DEF Inv

LEMMA DropKeeps == ASSUME Inv, NEW u \in heap, Drop(u) PROVE Inv'
<1>1. /\ pc = "callbacks" /\ signal /\ heap' = heap \ {u}
      /\ UNCHANGED <<journals, pos, pc, scan, times, running, inserted, ran, stops>>
  BY DEF Drop
<1>2. Typed' /\ Past' /\ Seen'
  BY <1>1 DEF Inv, Typed, Past, Seen, NextNano, journals, scan, times
<1>3. Waiting'
  BY <1>1 DEF Inv, Waiting, Early, stops
<1>4. QED
  BY <1>2, <1>3 DEF Inv

-----------------------------------------------------------------------------
(* The loop.                                                               *)

LEMMA PrepareKeeps == ASSUME Inv, pre_run \/ Reset PROVE Inv'
<1>1. /\ pc \in {"pre_run", "reset"} /\ pc' \in {"reset", "loop"}
      /\ UNCHANGED <<journals, scan, times, heapVars>>
  BY DEF pre_run, Reset
<1>2. pos' \in [Journals -> Nat]
  BY DEF pre_run, Reset, Inv, Typed
<1>3. Typed' /\ Past'
  BY <1>1, <1>2 DEF Inv, Typed, Past, PcNames, journals, scan, times, heapVars
<1>4. Waiting'
  BY <1>1 DEF Inv, Waiting, Early, heapVars
<1>5. Seen'
  BY <1>1 DEF Inv, Seen, Early, scan
<1>6. QED
  BY <1>3, <1>4, <1>5 DEF Inv

LEMMA LoopKeeps == ASSUME Inv, Loop PROVE Inv'
<1>1. /\ pc \in {"loop", "callbacks"} /\ pc' \in {"scan", "ended"} /\ passed' = {}
      /\ UNCHANGED <<journals, pos, look, best, times, heapVars, stops>>
  BY DEF Loop
<1>2. Typed' /\ Past'
  BY <1>1 DEF Inv, Typed, Past, PcNames, journals, times, heapVars
<1>3. Waiting'
  BY <1>1 DEF Inv, Waiting, Early, heapVars, stops
<1>4. Seen'
  BY <1>1 DEF Inv, Seen, Early
<1>5. QED
  BY <1>2, <1>3, <1>4 DEF Inv

(* What the reader sees next has a time. *)
LEMMA NextNanoType ==
  ASSUME Inv, NEW j \in Journals, pos[j] < Len(log[j])
  PROVE  NextNano(j) \in Int /\ NextNano(j) <= clock
<1>1. log[j] \in Seq(Int) /\ pos[j] \in Nat
  BY DEF Inv, Typed
<1>2. pos[j] + 1 \in DOMAIN log[j]
  BY <1>1
<1>3. QED
  BY <1>1, <1>2 DEF NextNano, Inv, Past

LEMMA LookKeeps == ASSUME Inv, Look PROVE Inv'
<1>1. /\ pc = "scan" /\ look' = look + 1 /\ look \in Journals
      /\ UNCHANGED <<journals, pos, pc, times, heapVars, stops>>
  BY StrategyLoopAssumption DEF Look, Inv, Typed, Journals
<1>2. best' \in {best, look}
  BY DEF Look
<1>3. Typed' /\ Past' /\ Waiting'
  <2>1. best' \in 0 .. N /\ look' \in Nat \ {0}
    BY <1>1, <1>2, StrategyLoopAssumption DEF Inv, Typed, Journals
  <2>2. Typed'
    BY <1>1, <2>1 DEF Inv, Typed, journals, times, heapVars
  <2>3. Past'
    BY <1>1 DEF Inv, Past, journals, times, heapVars
  <2>4. Waiting'
    BY <1>1 DEF Inv, Waiting, Top, heapVars, stops
  <2>5. QED
    BY <2>2, <2>3, <2>4
<1>4. Seen'
  <2>1. CASE pos[look] < Len(log[look])
    <3>1. /\ passed' = passed \cup {look}
          /\ best' = IF best = 0 \/ NextNano(look) < NextNano(best) THEN look ELSE best
      BY <2>1 DEF Look
    <3>2. \A j \in passed' : j \in Journals /\ pos[j] < Len(log[j])
      BY <1>1, <2>1, <3>1 DEF Inv, Seen
    <3>3. \A j \in passed' : NextNano(j) \in Int
      BY <3>2, NextNanoType
    <3>4. look # 0
      BY <1>1 DEF Journals
    <3>5. best' \in passed' /\ best' # 0 /\ \A j \in passed' : NextNano(best') <= NextNano(j)
      <4>1. CASE best = 0
        BY <1>1, <3>1, <3>3, <3>4, <4>1 DEF Inv, Seen
      <4>2. CASE best # 0
        <5>1. best \in passed /\ \A j \in passed : NextNano(best) <= NextNano(j)
          BY <1>1, <4>2 DEF Inv, Seen
        <5>2. QED
          BY <3>1, <3>3, <3>4, <4>2, <5>1
      <4>3. QED
        BY <4>1, <4>2
    <3>6. \A j : NextNano(j)' = NextNano(j)
      BY <1>1 DEF NextNano, journals
    <3>7. QED
      BY <1>1, <3>2, <3>5, <3>6 DEF Seen, Early, journals, NextNano
  <2>2. CASE UNCHANGED <<best, passed>>
    BY <1>1, <2>2 DEF Inv, Seen, Early, NextNano, journals
  <2>3. QED
    BY <2>1, <2>2 DEF Look
<1>5. QED
  BY <1>3, <1>4 DEF Inv

LEMMA FrameKeeps == ASSUME Inv, Frame PROVE Inv'
<1>1. /\ pc = "scan" /\ pc' = "handler" /\ best # 0
      /\ cur_time' = NextNano(best) /\ pos' = [pos EXCEPT ![best] = @ + 1]
      /\ look' = 1 /\ best' = 0 /\ passed' = passed \ {best}
      /\ UNCHANGED <<journals, cur_nano, heapVars, stops>>
  BY DEF Frame, TimeOfFrame
<1>2. best \in passed /\ \A j \in passed : NextNano(best) <= NextNano(j) /\ j \in Journals /\ pos[j] < Len(log[j])
  BY <1>1 DEF Inv, Seen
<1>3. NextNano(best) \in Int /\ NextNano(best) <= clock
  BY <1>2, NextNanoType
<1>4. Typed'
  <2>1. pos' \in [Journals -> Nat]
    BY <1>1, <1>2 DEF Inv, Typed
  <2>2. QED
    BY <1>1, <1>3, <2>1, StrategyLoopAssumption DEF Inv, Typed, PcNames, journals, heapVars
<1>5. Past'
  BY <1>1, <1>3 DEF Inv, Past, journals, heapVars
<1>6. Waiting'
  BY <1>1 DEF Inv, Waiting, Early, heapVars, stops
<1>7. \A j \in passed' : NextNano(j)' = NextNano(j) /\ pos'[j] = pos[j]
  BY <1>1, <1>2 DEF NextNano, Inv, Typed, journals
<1>8. Seen'
  BY <1>1, <1>2, <1>7 DEF Seen, Early, journals
<1>9. QED
  BY <1>4, <1>5, <1>6, <1>8 DEF Inv

LEMMA IdleKeeps == ASSUME Inv, Idle PROVE Inv'
<1>1. /\ pc = "scan" /\ pc' = "callbacks" /\ best = 0 /\ look' = 1
      /\ cur_time' = clock /\ cur_nano' = clock
      /\ UNCHANGED <<journals, pos, best, passed, heapVars, stops>>
  BY DEF Idle, IdleTime
<1>2. passed = {}
  BY <1>1 DEF Inv, Seen
<1>3. Typed' /\ Past'
  BY <1>1 DEF Inv, Typed, Past, PcNames, journals, heapVars
<1>4. Waiting'
  BY <1>1 DEF Inv, Waiting, Early, heapVars, stops
<1>5. Seen'
  BY <1>1, <1>2 DEF Seen, Early
<1>6. QED
  BY <1>3, <1>4, <1>5 DEF Inv

LEMMA OnTimeKeeps == ASSUME Inv, OnTime PROVE Inv'
<1>1. /\ pc = "handler" /\ pc' = "callbacks" /\ cur_nano' = cur_time
      /\ UNCHANGED <<journals, pos, scan, cur_time, heapVars, stops>>
  BY DEF OnTime
<1>2. Typed' /\ Past'
  BY <1>1 DEF Inv, Typed, Past, PcNames, journals, scan, heapVars
<1>3. Waiting'
  BY <1>1 DEF Inv, Waiting, Early, heapVars, stops
<1>4. Seen'
  BY <1>1 DEF Inv, Seen, Early, NextNano, journals, scan
<1>5. QED
  BY <1>2, <1>3, <1>4 DEF Inv

LEMMA StopKeeps == ASSUME Inv, stop \/ signal_handler PROVE Inv'
<1>1. UNCHANGED <<journals, pos, pc, scan, times, heapVars>> /\ (signal => signal')
  BY DEF stop, signal_handler
<1>2. Typed' /\ Past' /\ Seen'
  BY <1>1 DEF Inv, Typed, Past, Seen, NextNano, journals, scan, times, heapVars
<1>3. Waiting'
  BY <1>1 DEF Inv, Waiting, Top, times, heapVars
<1>4. QED
  BY <1>2, <1>3 DEF Inv

LEMMA StutterKeeps == ASSUME Inv, UNCHANGED vars PROVE Inv'
<1> USE DEF vars, journals, scan, times, heapVars, stops
<1>1. Typed' /\ Past'
  BY DEF Inv, Typed, Past
<1>2. Waiting' /\ Seen'
  BY DEF Inv, Waiting, Seen, Top, NextNano
<1>3. QED
  BY <1>1, <1>2 DEF Inv

LEMMA NextKeeps == Inv /\ [Next]_vars => Inv'
<1> SUFFICES ASSUME Inv, [Next]_vars PROVE Inv'
  OBVIOUS
<1>1. CASE Elapse \/ \E j \in Journals : Stamp(j) \/ Commit(j)
  BY <1>1, ElapseKeeps, StampKeeps, CommitKeeps
<1>2. CASE register_bar_md \/ pre_run \/ Reset \/ Loop
  BY <1>2, RegisterKeeps, PrepareKeeps, LoopKeeps
<1>3. CASE Look \/ Frame \/ Idle \/ OnTime
  BY <1>3, LookKeeps, FrameKeeps, IdleKeeps, OnTimeKeeps
<1>4. CASE (\E u \in heap : Call(u) \/ Drop(u)) \/ Return
  BY <1>4, CallKeeps, DropKeeps, ReturnKeeps
<1>5. CASE stop \/ signal_handler
  BY <1>5, StopKeeps
<1>6. CASE \E t \in 1 .. MaxTime : insert_callback(t)
  BY <1>6, InsertKeeps
<1>7. CASE UNCHANGED vars
  BY <1>7, StutterKeeps
<1>8. QED
  BY <1>1, <1>2, <1>3, <1>4, <1>5, <1>6, <1>7 DEF Next, Step

LEMMA InvAlways == Spec => []Inv
BY InitInv, NextKeeps, PTL DEF Spec

(***************************************************************************)
(* For any journals, bars and insertions: a callback of the heap runs      *)
(* once, not before its time, and none is lost without a signal            *)
(* (WCStrategyUtil::process_callback).                                     *)
(***************************************************************************)
THEOREM CallbacksRunOnce == Spec => []CallbacksOnce
<1>1. Inv => CallbacksOnce
  BY DEF Inv, Past, Waiting, CallbacksOnce
<1>2. QED
  BY <1>1, InvAlways, PTL

(***************************************************************************)
(* For any number of journals and frames: when a callback runs, the frames *)
(* that the reader saw and left are not from before its time               *)
(* (JournalReader::getNextFrame, WCDataWrapper::run).                      *)
(***************************************************************************)
THEOREM FramesComeFirst == Spec => []FramesBeforeCallbacks
<1>1. Inv => FramesBeforeCallbacks
  <2>1. SUFFICES ASSUME Inv, pc = "callback", NEW j \in passed PROVE NextNano(j) >= running.nano
    BY DEF FramesBeforeCallbacks
  <2>2. NextNano(j) \in Int
    BY <2>1, NextNanoType DEF Inv, Seen
  <2>3. running.nano \in Int /\ running.nano <= cur_nano /\ cur_nano <= NextNano(j) /\ cur_nano \in Int
    BY <2>1 DEF Inv, Typed, Waiting, Seen, Top, Unit
  <2>4. QED
    BY <2>2, <2>3
<1>2. QED
  BY <1>1, InvAlways, PTL

-----------------------------------------------------------------------------
(* The bars.  A callback that waits for the end of a bar is untouched until *)
(* a frame from then or later arrives: and then it is due in that round, so *)
(* that no further frame is read before it has run.                         *)

OfBar == {"init", "send"}

(* What is in the heap and does not run. *)
Pending == IF pc = "callback" THEN heap \ {running} ELSE heap

(* A tick given to on_market_bar. *)
Report == [end : Int, tick : Int]

BarsTyped ==
  /\ bars \in [Feeds -> Seq(Int)] /\ sent \in [Feeds -> Seq(Report)]
  /\ barring \subseteq Feeds
  /\ \A u \in heap : u.what \in OfBar => u.of \in Feeds
  /\ \A j \in Journals : pos[j] <= Len(log[j])

(* The bars of a feed begin with its first callback. *)
Begun ==
  /\ \A f \in Feeds \ barring : bars[f] = <<>> /\ sent[f] = <<>>
  /\ pc \in Early => barring = {}
  /\ \A u \in Pending : u.what = "init" => u.of \notin barring
  /\ \A u, v \in heap : u.what = "init" /\ v.what \in OfBar /\ v.of = u.of /\ v # u => u.nano < v.nano

(* They hold the last frames read: those of the present bar behind those sent. *)
Dense ==
  \A f \in Feeds :
    /\ Len(sent[f]) + Len(bars[f]) <= pos[f]
    /\ \A k \in 1 .. Len(sent[f]) : sent[f][k].tick = pos[f] - Len(bars[f]) - Len(sent[f]) + k
    /\ \A k \in 1 .. Len(bars[f]) : bars[f][k] = pos[f] - Len(bars[f]) + k

(* From the frame to the end of the callbacks. *)
InRound == pc \in {"handler", "callbacks", "callback"}
Now == IF pc = "handler" THEN cur_time ELSE cur_nano

(* The bar has a frame from its end or later, or another bar of the same end was sent. *)
Touched(u) ==
  \/ \E k \in DOMAIN bars[u.of] : log[u.of][bars[u.of][k]] >= u.nano
  \/ \E f \in Feeds : \E k \in DOMAIN sent[f] : sent[f][k].end = u.nano

Rounds == \A u \in Pending : u.what = "send" /\ Touched(u) => InRound /\ u.nano <= Now

(* A frame that waits in a bar that ends at e, or was sent with one. *)
WaitsIn(e, f, t) ==
  /\ \E k \in DOMAIN bars[f] : bars[f][k] = t
  /\ \E u \in Pending : u.what = "send" /\ u.of = f /\ u.nano = e
SentIn(e, f, t) == \E k \in DOMAIN sent[f] : sent[f][k].end = e /\ sent[f][k].tick = t
LateTick(e, f, t) == (WaitsIn(e, f, t) \/ SentIn(e, f, t)) /\ log[f][t] >= e

OneLate ==
  \A e \in Int : \A f, g \in Feeds : \A s, t \in Int :
    LateTick(e, f, s) /\ LateTick(e, g, t) => f = g /\ s = t

BarsInv == BarsTyped /\ Begun /\ Dense /\ Rounds /\ OneLate

LEMMA FeedsAreJournals == Feeds \subseteq Journals
BY StrategyLoopAssumption DEF Journals

LEMMA BarsInit == Init => BarsInv
<1> SUFFICES ASSUME Init PROVE BarsInv
  OBVIOUS
<1>1. /\ heap = {} /\ barring = {} /\ pc = "initialize"
      /\ bars = [f \in Feeds |-> <<>>] /\ sent = [f \in Feeds |-> <<>>]
      /\ pos = [j \in Journals |-> 0] /\ log = [j \in Journals |-> <<>>]
  BY DEF Init, PerFeed, All
<1>2. Pending = {}
  BY <1>1 DEF Pending
<1>3. BarsTyped
  BY <1>1 DEF BarsTyped
<1>4. Begun
  BY <1>1, <1>2 DEF Begun
<1>5. Dense
  BY <1>1, FeedsAreJournals DEF Dense
<1>6. Rounds
  BY <1>2 DEF Rounds
<1>7. OneLate
  BY <1>1 DEF OneLate, LateTick, WaitsIn, SentIn
<1>8. QED
  BY <1>3, <1>4, <1>5, <1>6, <1>7 DEF BarsInv

LEMMA SeqFacts ==
  ASSUME NEW S, NEW s \in Seq(S)
  PROVE  Len(s) \in Nat /\ DOMAIN s = 1 .. Len(s) /\ \A k \in DOMAIN s : s[k] \in S
OBVIOUS

(* t behind s. *)
Joined(s, t, st) ==
  /\ Len(st) = Len(s) + Len(t) /\ DOMAIN st = 1 .. Len(s) + Len(t)
  /\ \A k \in 1 .. Len(s) : st[k] = s[k]
  /\ \A k \in 1 .. Len(t) : st[Len(s) + k] = t[k]

LEMMA ConcatFacts ==
  ASSUME NEW S, NEW s \in Seq(S), NEW t \in Seq(S)
  PROVE  s \o t \in Seq(S) /\ Joined(s, t, s \o t)
BY DEF Joined

(* Place k behind s others, with b in the bar. *)
LEMMA Places ==
  ASSUME NEW p \in Nat, NEW s \in Nat, NEW b \in Nat, NEW k \in Int
  PROVE  /\ k \in 1 .. s + b /\ k <= s => k \in 1 .. s
         /\ k \in 1 .. s + b /\ k > s => k - s \in 1 .. b
         /\ k = s + (k - s)
         /\ p - b + (k - s) = p - b - s + k
         /\ p - 0 - (s + b) + k = p - b - s + k
         /\ p - b - s + k = p - (s + b - k)
OBVIOUS

LEMMA Rooms ==
  ASSUME NEW p \in Nat, NEW s \in Nat, NEW b \in Nat
  PROVE  s + b <= p => s + b + 0 <= p /\ s + (b + 1) <= p + 1
OBVIOUS

LEMMA BothGrow ==
  ASSUME NEW p \in Nat, NEW b \in Nat, NEW pp, NEW bb, pp = p + 1, bb = b + 1
  PROVE  pp - bb = p - b
OBVIOUS

(* Behind s places there are b others, up to p. *)
LEMMA BothPlaced ==
  ASSUME NEW p \in Nat, NEW s \in Nat, NEW b \in Nat
  PROVE  /\ \A k \in 1 .. s + b : k \in 1 .. s \/ \E i \in 1 .. b : k = s + i
         /\ \A i \in 1 .. b : p - b + i = p - b - s + (s + i)
         /\ \A k \in 1 .. s + b : p - 0 - (s + b) + k = p - b - s + k
<1>1. ASSUME NEW k \in 1 .. s + b, k \notin 1 .. s PROVE k - s \in 1 .. b /\ k = s + (k - s)
  BY <1>1
<1>2. QED
  BY <1>1

(* The frames in bars are in the log. *)
LEMMA TicksRead ==
  ASSUME Typed, BarsTyped, Dense, NEW f \in Feeds
  PROVE  /\ Len(bars[f]) \in Nat /\ Len(sent[f]) \in Nat /\ pos[f] \in Nat /\ Len(log[f]) \in Nat
         /\ \A k \in DOMAIN bars[f] : bars[f][k] \in 1 .. Len(log[f])
         /\ \A k \in DOMAIN sent[f] : sent[f][k].tick \in 1 .. Len(log[f])
<1>1. f \in Journals /\ log[f] \in Seq(Int) /\ pos[f] \in Nat /\ pos[f] <= Len(log[f])
  BY FeedsAreJournals DEF Typed, BarsTyped
<1>2. bars[f] \in Seq(Int) /\ sent[f] \in Seq(Report)
  BY DEF BarsTyped
<1>3. /\ Len(bars[f]) \in Nat /\ DOMAIN bars[f] = 1 .. Len(bars[f])
      /\ Len(sent[f]) \in Nat /\ DOMAIN sent[f] = 1 .. Len(sent[f]) /\ Len(log[f]) \in Nat
  BY <1>1, <1>2
<1>4. /\ Len(sent[f]) + Len(bars[f]) <= pos[f]
      /\ \A k \in 1 .. Len(sent[f]) : sent[f][k].tick = pos[f] - Len(bars[f]) - Len(sent[f]) + k
      /\ \A k \in 1 .. Len(bars[f]) : bars[f][k] = pos[f] - Len(bars[f]) + k
  BY DEF Dense
<1>5. ASSUME NEW k \in DOMAIN bars[f] PROVE bars[f][k] \in 1 .. Len(log[f])
  <2>1. k \in 1 .. Len(bars[f]) /\ bars[f][k] = pos[f] - Len(bars[f]) + k
    BY <1>3, <1>4
  <2>2. \A p, m, b, s \in Nat : s + b <= p /\ p <= m /\ k \in 1 .. b => p - b + k \in 1 .. m
    OBVIOUS
  <2>3. QED
    BY <1>1, <1>3, <1>4, <2>1, <2>2
<1>6. ASSUME NEW k \in DOMAIN sent[f] PROVE sent[f][k].tick \in 1 .. Len(log[f])
  <2>1. k \in 1 .. Len(sent[f]) /\ sent[f][k].tick = pos[f] - Len(bars[f]) - Len(sent[f]) + k
    BY <1>3, <1>4
  <2>2. \A p, m, b, s \in Nat : s + b <= p /\ p <= m /\ k \in 1 .. s => p - b - s + k \in 1 .. m
    OBVIOUS
  <2>3. pos[f] - Len(bars[f]) - Len(sent[f]) + k \in 1 .. Len(log[f])
    BY <1>1, <1>3, <1>4, <2>1, <2>2
  <2>4. QED
    BY <2>1, <2>3, Zenon
<1>7. QED
  BY <1>1, <1>3, <1>5, <1>6

-----------------------------------------------------------------------------
(* Steps that leave the bars alone.                                        *)

Quiet ==
  /\ bars' = bars /\ sent' = sent /\ barring' = barring /\ pos' = pos
  /\ \A j \in Journals : /\ Len(log'[j]) >= Len(log[j])
                         /\ \A k \in 1 .. Len(log[j]) : log'[j][k] = log[j][k]
  /\ \A u \in heap' : u \in heap \/ u.what \notin OfBar
  /\ \A u \in Pending' : u \in Pending \/ u.what \notin OfBar
  /\ pc' \in Early => pc \in Early
  /\ \A u \in Pending : u.what = "send" /\ InRound /\ u.nano <= Now => InRound' /\ u.nano <= Now'

LEMMA QuietBars == ASSUME Inv, BarsInv, Inv', Quiet PROVE BarsInv'
<1>1. Typed /\ BarsTyped /\ Begun /\ Dense /\ Rounds /\ OneLate /\ Typed'
  BY DEF Inv, BarsInv
<1>2. \A f \in Feeds : f \in Journals /\ pos[f] \in Nat
  BY <1>1, FeedsAreJournals DEF Typed
<1>3. BarsTyped'
  <2>1. \A j \in Journals : pos'[j] <= Len(log'[j])
    <3>1. SUFFICES ASSUME NEW j \in Journals PROVE pos[j] <= Len(log'[j])
      BY DEF Quiet
    <3>2. pos[j] \in Nat /\ Len(log[j]) \in Nat /\ Len(log'[j]) \in Nat /\ pos[j] <= Len(log[j])
      BY <1>1 DEF Typed, BarsTyped
    <3>3. QED
      BY <3>2 DEF Quiet
  <2>2. QED
    BY <1>1, <2>1 DEF Quiet, BarsTyped
<1>4. Begun'
  BY <1>1 DEF Quiet, Begun, OfBar
<1>5. Dense'
  BY <1>1 DEF Quiet, Dense
<1>6. \A f \in Feeds : /\ \A k \in DOMAIN bars[f] : log'[f][bars[f][k]] = log[f][bars[f][k]]
                       /\ \A k \in DOMAIN sent[f] : log'[f][sent[f][k].tick] = log[f][sent[f][k].tick]
  BY <1>1, <1>2, TicksRead DEF Quiet
<1>7. Rounds'
  <2>1. SUFFICES ASSUME NEW u \in Pending', u.what = "send", Touched(u)' PROVE InRound' /\ u.nano <= Now'
    BY DEF Rounds
  <2>2. u \in Pending /\ u \in heap /\ u.of \in Feeds
    BY <1>1, <2>1 DEF Quiet, OfBar, Pending, BarsTyped
  <2>3. Touched(u)
    BY <1>6, <2>1, <2>2 DEF Quiet, Touched
  <2>4. InRound /\ u.nano <= Now
    BY <1>1, <2>1, <2>2, <2>3 DEF Rounds
  <2>5. QED
    BY <2>1, <2>2, <2>4 DEF Quiet
<1>8. OneLate'
  <2>1. ASSUME NEW e \in Int, NEW f \in Feeds, NEW t \in Int, LateTick(e, f, t)' PROVE LateTick(e, f, t)
    <3>1. WaitsIn(e, f, t)' => WaitsIn(e, f, t)
      BY DEF WaitsIn, Quiet, OfBar
    <3>2. SentIn(e, f, t)' => SentIn(e, f, t)
      BY DEF SentIn, Quiet
    <3>3. WaitsIn(e, f, t) \/ SentIn(e, f, t) => log'[f][t] = log[f][t]
      BY <1>6 DEF WaitsIn, SentIn
    <3>4. QED
      BY <2>1, <3>1, <3>2, <3>3 DEF LateTick
  <2>2. QED
    BY <1>1, <2>1 DEF OneLate
<1>9. QED
  BY <1>3, <1>4, <1>5, <1>7, <1>8 DEF BarsInv

LEMMA Smallest == ASSUME NEW S \in SUBSET Nat, S # {} PROVE \E m \in S : \A x \in S : m <= x
<1>1. PICK m \in S : \A x \in S : <<x, m>> \notin OpToRel(<, Nat)
  BY NatLessThanWellFounded, WFMin, Zenon
<1>2. \A x, y \in Nat : x < y => <<x, y>> \in OpToRel(<, Nat)
  BY SMT DEF OpToRel
<1>3. ASSUME NEW x \in S PROVE m <= x
  <2>1. ~(x < m)
    BY <1>1, <1>2, <1>3, Zenon
  <2>2. QED
    BY ONLY <2>1, <1>3, S \in SUBSET Nat, m \in S
<1>4. QED
  BY <1>3

(* If anything is due, what is on top of the heap is. *)
LEMMA NothingDue == ASSUME Inv, Due = {}, NEW u \in heap PROVE ~(u.nano <= cur_nano)
<1> DEFINE times_of == {v.nano : v \in heap}
<1>1. \A v \in heap : v.nano \in Nat
  BY DEF Inv, Typed, Waiting, Unit
<1>2. times_of \in SUBSET Nat /\ times_of # {}
  BY <1>1
<1>3. PICK n \in times_of : \A m \in times_of : n <= m
  <2> HIDE DEF times_of
  <2>1. QED
    BY <1>2, Smallest
<1>4. PICK v \in heap : v.nano = n
  BY <1>3
<1>5. v \in Top /\ v.nano <= u.nano
  BY <1>3, <1>4 DEF Top
<1>6. v \notin Due
  OBVIOUS
<1>7. ~(v.nano <= cur_nano)
  BY <1>5, <1>6 DEF Due
<1>8. v.nano \in Nat /\ u.nano \in Nat /\ cur_nano \in Int
  BY <1>1 DEF Inv, Typed
<1>9. QED
  BY <1>5, <1>7, <1>8

LEMMA QuietSteps ==
  ASSUME Inv, [Next]_vars
  PROVE  \/ Quiet \/ register_bar_md \/ pre_run \/ Frame
         \/ \E u \in heap : Call(u)
<1> DEFINE Still == bars' = bars /\ sent' = sent /\ barring' = barring /\ pos' = pos
           SameLog == \A j \in Journals : /\ Len(log'[j]) >= Len(log[j])
                                          /\ \A k \in 1 .. Len(log[j]) : log'[j][k] = log[j][k]
<1>1. \A j \in Journals : log[j] \in Seq(Int) /\ Len(log[j]) \in Nat /\ stamp[j] \in Int
  BY DEF Inv, Typed
<1>2. log' = log => SameLog
  BY <1>1
<1> HIDE DEF SameLog
<1>3. /\ pc' = pc /\ heap' = heap /\ running' = running => Pending' = Pending
      /\ pc' # "callback" /\ heap' = heap /\ pc # "callback" => Pending' = Pending
  BY DEF Pending
<1>4. \A u \in Pending : u \in heap
  BY DEF Pending
<1>5. CASE Elapse \/ (\E j \in Journals : Stamp(j)) \/ stop \/ signal_handler \/ UNCHANGED vars
  <2>1. Still /\ SameLog /\ pc' = pc /\ heap' = heap /\ running' = running /\ times' = times
    BY <1>2, <1>5 DEF Elapse, Stamp, stop, signal_handler, vars, barVars, heapVars, journals, times
  <2>2. QED
    BY <1>3, <2>1 DEF Quiet, SameLog, InRound, Now, times
<1>6. ASSUME NEW j \in Journals, Commit(j) PROVE Quiet
  <2>1. log'[j] = Append(log[j], stamp[j]) /\ \A i \in Journals \ {j} : log'[i] = log[i]
    BY <1>6 DEF Commit, Inv, Typed
  <2>2. Len(log'[j]) >= Len(log[j]) /\ \A k \in 1 .. Len(log[j]) : log'[j][k] = log[j][k]
    BY <1>1, <2>1
  <2>3. SameLog
    <3>1. \A i \in Journals \ {j} : Len(log'[i]) >= Len(log[i]) /\ \A k \in 1 .. Len(log[i]) : log'[i][k] = log[i][k]
      <4>1. SUFFICES ASSUME NEW i \in Journals \ {j}
                     PROVE  Len(log'[i]) >= Len(log[i]) /\ \A k \in 1 .. Len(log[i]) : log'[i][k] = log[i][k]
        OBVIOUS
      <4>2. log'[i] = log[i] /\ Len(log[i]) \in Nat
        BY <1>1, <2>1
      <4>3. QED
        BY <4>2
    <3>2. QED
      BY <2>2, <3>1, Zenon DEF SameLog
  <2>4. Still /\ pc' = pc /\ heap' = heap /\ running' = running /\ times' = times
    BY <1>6 DEF Commit, barVars, heapVars
  <2>5. QED
    BY <1>3, <2>3, <2>4 DEF Quiet, SameLog, InRound, Now, times
<1>7. ASSUME NEW t \in 1 .. MaxTime, insert_callback(t) PROVE Quiet
  <2>1. PICK new : new.what = "user" /\ heap' = heap \cup {new}
    BY <1>7 DEF insert_callback, Push
  <2>2. Still /\ SameLog /\ pc' = pc /\ running' = running /\ times' = times
    BY <1>2, <1>7 DEF insert_callback, barVars, journals
  <2>3. \A u \in Pending' : u \in Pending \/ u.what \notin OfBar
    BY <2>1, <2>2 DEF Pending, OfBar
  <2>4. \A u \in heap' : u \in heap \/ u.what \notin OfBar
    BY <2>1 DEF OfBar
  <2>5. QED
    BY <2>2, <2>3, <2>4 DEF Quiet, SameLog, InRound, Now, times
<1>8. CASE Reset \/ Look \/ Idle
  <2>1. /\ Still /\ SameLog /\ heap' = heap /\ running' = running
        /\ pc \in {"reset", "scan"} /\ pc' # "callback" /\ (pc' \in Early => pc \in Early)
    BY <1>2, <1>8 DEF Reset, Look, Idle, barVars, heapVars, journals, Early
  <2>2. QED
    BY <1>3, <2>1 DEF Quiet, SameLog, InRound
<1>9. CASE Loop
  <2>1. /\ Still /\ SameLog /\ heap' = heap /\ pc' \in {"scan", "ended"}
        /\ pc = "loop" \/ (pc = "callbacks" /\ Due = {})
    BY <1>2, <1>9 DEF Loop, barVars, heapVars, journals
  <2>2. \A u \in Pending : ~(InRound /\ u.nano <= Now)
    BY <1>4, <2>1, NothingDue DEF InRound, Now
  <2>3. QED
    BY <1>3, <2>1, <2>2 DEF Quiet, SameLog, Early
<1>10. CASE OnTime
  <2>1. /\ Still /\ SameLog /\ heap' = heap
        /\ pc = "handler" /\ pc' = "callbacks" /\ cur_nano' = cur_time /\ cur_time' = cur_time
    BY <1>2, <1>10 DEF OnTime, barVars, heapVars, journals
  <2>2. QED
    BY <1>3, <2>1 DEF Quiet, SameLog, Early, InRound, Now
<1>11. CASE Return
  <2>1. /\ Still /\ SameLog /\ times' = times /\ pc = "callback" /\ pc' = "callbacks"
    BY <1>2, <1>11 DEF Return, barVars, journals
  <2>2. heap' = heap \ {running}
    BY <1>11, <2>1 DEF Return, Inv, Waiting
  <2>3. Pending' = Pending
    BY <2>1, <2>2 DEF Pending
  <2>4. QED
    BY <2>1, <2>2, <2>3 DEF Quiet, SameLog, Early, InRound, Now, times
<1>12. ASSUME NEW u \in heap, Drop(u) PROVE Quiet
  <2>1. /\ Still /\ SameLog /\ times' = times /\ pc = "callbacks" /\ pc' = pc /\ heap' = heap \ {u}
    BY <1>2, <1>12 DEF Drop, barVars, journals
  <2>2. QED
    BY <2>1 DEF Quiet, SameLog, Pending, InRound, Now, times
<1>13. QED
  BY <1>5, <1>6, <1>7, <1>8, <1>9, <1>10, <1>11, <1>12 DEF Next, Step

-----------------------------------------------------------------------------
(* Steps before the bars begin.                                            *)

LEMMA TimesRise ==
  ASSUME NEW i \in 1 .. Len(BarTimes), NEW j \in 1 .. Len(BarTimes), i <= j
  PROVE  BarTimes[i] <= BarTimes[j]
<1>1. Len(BarTimes) \in Nat /\ \A k \in 1 .. Len(BarTimes) : BarTimes[k] \in Nat
  BY StrategyLoopAssumption
<1> DEFINE Broken == {k \in i .. Len(BarTimes) : BarTimes[k] < BarTimes[i]}
<1>2. SUFFICES ASSUME Broken # {} PROVE FALSE
  BY <1>1
<1>3. Broken \in SUBSET Nat
  OBVIOUS
<1>4. PICK m \in Broken : \A k \in Broken : m <= k
  <2> HIDE DEF Broken
  <2>1. QED
    BY <1>2, <1>3, Smallest
<1>5. m \in i .. Len(BarTimes) /\ m # i /\ BarTimes[m] < BarTimes[i]
  BY <1>1
<1>6. m - 1 \in 1 .. Len(BarTimes) - 1 /\ m - 1 \in i .. Len(BarTimes) /\ m - 1 < m
  BY <1>1, <1>5
<1>7. m - 1 \notin Broken
  <2>1. ~(m <= m - 1)
    BY <1>5
  <2>2. QED
    BY <1>4, <2>1
<1>8. BarTimes[m - 1] < BarTimes[m - 1 + 1] /\ m - 1 + 1 = m
  BY <1>5, <1>6, StrategyLoopAssumption
<1>9. BarTimes[m - 1] \in Nat /\ BarTimes[m] \in Nat /\ BarTimes[i] \in Nat
  BY <1>1, <1>5, <1>6
<1>10. QED
  BY <1>5, <1>6, <1>7, <1>8, <1>9

LEMMA RegisterBars == ASSUME Inv, BarsInv, register_bar_md PROVE BarsInv'
<1> DEFINE units == UNION {BarUnits(f) : f \in Feeds}
<1>1. /\ heap' = heap \cup units /\ pc = "initialize" /\ pc' = "pre_run"
      /\ bars' = bars /\ sent' = sent /\ barring' = barring /\ pos' = pos /\ log' = log
  BY DEF register_bar_md, Push, barVars, journals
<1>2. heap' = units
  BY <1>1 DEF Inv, Waiting
<1>3. /\ barring = {} /\ \A f \in Feeds : bars[f] = <<>> /\ sent[f] = <<>>
  BY <1>1 DEF BarsInv, Begun, Early
<1>4. Pending' = units
  BY <1>1, <1>2 DEF Pending
<1>5. \A u \in units : u.of \in Feeds
  BY DEF BarUnits
<1>6. ASSUME NEW u \in units, NEW v \in units, u.what = "init", v.of = u.of, v # u PROVE u.nano < v.nano
  <2>1. PICK f \in Feeds : u \in BarUnits(f)
    OBVIOUS
  <2>2. PICK g \in Feeds : v \in BarUnits(g)
    OBVIOUS
  <2>3. PICK i \in DOMAIN BarTimes :
          /\ BarTimes[i] > cur_time /\ u.nano = BarTimes[i] /\ u.of = f
          /\ u = [nano |-> BarTimes[i], of |-> f,
                  what |-> IF i = 1 \/ BarTimes[i - 1] <= cur_time THEN "init" ELSE "send"]
    BY <2>1 DEF BarUnits
  <2>4. PICK j \in DOMAIN BarTimes :
          /\ BarTimes[j] > cur_time /\ v.nano = BarTimes[j] /\ v.of = g
          /\ v = [nano |-> BarTimes[j], of |-> g,
                  what |-> IF j = 1 \/ BarTimes[j - 1] <= cur_time THEN "init" ELSE "send"]
    BY <2>2 DEF BarUnits
  <2>5. i = 1 \/ BarTimes[i - 1] <= cur_time
    BY <1>6, <2>3
  <2>6. i # j
    BY <1>6, <2>3, <2>4
  <2>7. i \in 1 .. Len(BarTimes) /\ j \in 1 .. Len(BarTimes) /\ Len(BarTimes) \in Nat
    BY StrategyLoopAssumption
  <2>8. CASE j < i
    <3>1. i - 1 \in 1 .. Len(BarTimes) /\ j <= i - 1 /\ BarTimes[i - 1] <= cur_time
      BY <2>5, <2>7, <2>8
    <3>2. BarTimes[j] <= BarTimes[i - 1]
      BY <2>7, <3>1, TimesRise
    <3>3. \A k \in 1 .. Len(BarTimes) : BarTimes[k] \in Int
      BY StrategyLoopAssumption
    <3>4. cur_time \in Int
      BY DEF Inv, Typed
    <3>5. BarTimes[j] \in Int /\ BarTimes[i - 1] \in Int /\ BarTimes[j] > cur_time
      BY <2>4, <2>7, <3>1, <3>3
    <3>6. QED
      BY <3>1, <3>2, <3>4, <3>5
  <2>9. CASE i < j
    <3>1. i + 1 \in 1 .. Len(BarTimes) /\ i + 1 <= j /\ i \in 1 .. Len(BarTimes) - 1
      BY <2>7, <2>9
    <3>2. BarTimes[i + 1] <= BarTimes[j] /\ BarTimes[i] < BarTimes[i + 1]
      BY <2>7, <3>1, TimesRise, StrategyLoopAssumption
    <3>3. \A k \in 1 .. Len(BarTimes) : BarTimes[k] \in Int
      BY StrategyLoopAssumption
    <3>4. BarTimes[i] \in Int /\ BarTimes[i + 1] \in Int /\ BarTimes[j] \in Int
      BY <2>7, <3>1, <3>3
    <3>5. QED
      BY <2>3, <2>4, <3>2, <3>4
  <2>10. QED
    BY <2>6, <2>7, <2>8, <2>9
<1> HIDE DEF units
<1>7. BarsTyped'
  BY <1>1, <1>2, <1>5 DEF BarsInv, BarsTyped
<1>8. Begun'
  BY <1>1, <1>2, <1>3, <1>4, <1>6 DEF BarsInv, Begun
<1>9. Dense'
  <2>1. Dense
    BY DEF BarsInv
  <2>2. QED
    BY <1>1, <2>1 DEF Dense
<1>10. Rounds'
  <2>1. SUFFICES ASSUME NEW u \in units PROVE ~Touched(u)'
    BY <1>4 DEF Rounds
  <2>2. QED
    BY <1>1, <1>3, <1>5 DEF Touched
<1>11. OneLate'
  BY <1>1, <1>3 DEF OneLate, LateTick, WaitsIn, SentIn
<1>12. QED
  BY <1>7, <1>8, <1>9, <1>10, <1>11 DEF BarsInv

LEMMA PreRunBars == ASSUME Inv, BarsInv, pre_run PROVE BarsInv'
<1>1. /\ heap' = heap /\ pc = "pre_run" /\ pc' = "reset"
      /\ bars' = bars /\ sent' = sent /\ barring' = barring /\ log' = log
      /\ pos' = [j \in Journals |-> Len(log[j])]
  BY DEF pre_run, barVars, heapVars, journals
<1>2. /\ barring = {} /\ \A f \in Feeds : bars[f] = <<>> /\ sent[f] = <<>>
  BY <1>1 DEF BarsInv, Begun, Early
<1>3. Pending' = Pending /\ Pending = heap
  BY <1>1 DEF Pending
<1>4. \A j \in Journals : Len(log[j]) \in Nat
  BY DEF Inv, Typed
<1>5. BarsTyped'
  BY <1>1, <1>4 DEF BarsInv, BarsTyped
<1>6. Begun'
  BY <1>1, <1>3 DEF BarsInv, Begun, Early
<1>7. Dense'
  <2>1. ASSUME NEW f \in Feeds PROVE bars'[f] = <<>> /\ sent'[f] = <<>> /\ pos'[f] \in Nat
    BY <1>1, <1>2, <1>4, FeedsAreJournals
  <2>2. SUFFICES ASSUME NEW f \in Feeds
                 PROVE  /\ Len(sent'[f]) + Len(bars'[f]) <= pos'[f]
                        /\ \A k \in 1 .. Len(sent'[f]) : sent'[f][k].tick = pos'[f] - Len(bars'[f]) - Len(sent'[f]) + k
                        /\ \A k \in 1 .. Len(bars'[f]) : bars'[f][k] = pos'[f] - Len(bars'[f]) + k
    BY DEF Dense
  <2>3. Len(sent'[f]) = 0 /\ Len(bars'[f]) = 0 /\ pos'[f] \in Nat
    BY <2>1
  <2>4. QED
    BY <2>3
<1>8. Rounds'
  <2>1. SUFFICES ASSUME NEW u \in heap, u.what = "send" PROVE ~Touched(u)'
    BY <1>3 DEF Rounds
  <2>2. u.of \in Feeds
    BY <2>1 DEF BarsInv, BarsTyped, OfBar
  <2>3. QED
    BY <1>1, <1>2, <2>2 DEF Touched
<1>9. OneLate'
  BY <1>1, <1>2 DEF OneLate, LateTick, WaitsIn, SentIn
<1>10. QED
  BY <1>5, <1>6, <1>7, <1>8, <1>9 DEF BarsInv

-----------------------------------------------------------------------------
(* A frame.  No bar that waits is touched before, so that the frame is the *)
(* only one from its end or later.                                         *)

LEMMA FrameBars == ASSUME Inv, BarsInv, Frame PROVE BarsInv'
<1>1. /\ pc = "scan" /\ pc' = "handler" /\ cur_time' = NextNano(best)
      /\ pos' = [pos EXCEPT ![best] = @ + 1]
      /\ bars' = IF best \in barring THEN [bars EXCEPT ![best] = Append(@, pos[best] + 1)] ELSE bars
      /\ heap' = heap /\ log' = log /\ barring' = barring /\ sent' = sent
  BY DEF Frame, TimeOfFrame, journals, heapVars
<1>2. best \in Journals /\ pos[best] < Len(log[best])
  BY DEF Frame, Inv, Seen
<1>3. Typed /\ BarsTyped /\ Begun /\ Dense /\ Rounds /\ OneLate
  BY DEF Inv, BarsInv
<1>4. \A j \in Journals : pos[j] \in Nat /\ Len(log[j]) \in Nat
  BY <1>3 DEF Typed
<1>5. /\ pos'[best] = pos[best] + 1 /\ \A j \in Journals \ {best} : pos'[j] = pos[j]
  BY <1>1, <1>2, <1>3 DEF Typed
<1>6. /\ \A f \in Feeds \ {best} : bars'[f] = bars[f]
      /\ best \in barring => best \in Feeds /\ bars'[best] = Append(bars[best], pos[best] + 1)
      /\ best \notin barring => bars' = bars
  BY <1>1, <1>3 DEF BarsTyped
<1>7. \A f \in Feeds : bars[f] \in Seq(Int) /\ sent[f] \in Seq(Report)
  BY <1>3 DEF BarsTyped
<1>8. Pending' = Pending /\ Pending = heap
  BY <1>1 DEF Pending
<1>9. \A u \in Pending : u.what = "send" => ~Touched(u) /\ u.of \in Feeds
  BY <1>1, <1>3, <1>8 DEF Rounds, InRound, BarsTyped, OfBar
<1>10. BarsTyped'
  <2>1. bars' \in [Feeds -> Seq(Int)]
    <3>1. best \in Feeds => Append(bars[best], pos[best] + 1) \in Seq(Int)
      BY <1>2, <1>4, <1>7
    <3>2. QED
      BY <1>1, <1>3, <3>1 DEF BarsTyped
  <2>2. \A j \in Journals : pos'[j] <= Len(log[j])
    BY <1>2, <1>3, <1>4, <1>5 DEF BarsTyped
  <2>3. QED
    BY <1>1, <1>3, <2>1, <2>2 DEF BarsTyped
<1>11. Begun'
  BY <1>1, <1>3, <1>6, <1>8 DEF Begun, Early
(* What an extended bar holds. *)
<1>12. ASSUME best \in barring
       PROVE  /\ Len(bars'[best]) = Len(bars[best]) + 1 /\ Len(bars[best]) \in Nat
              /\ DOMAIN bars[best] = 1 .. Len(bars[best]) /\ DOMAIN bars'[best] = 1 .. Len(bars[best]) + 1
              /\ \A k \in 1 .. Len(bars[best]) : bars'[best][k] = bars[best][k]
              /\ bars'[best][Len(bars[best]) + 1] = pos[best] + 1
  <2>1. bars[best] \in Seq(Int) /\ pos[best] + 1 \in Int /\ bars'[best] = Append(bars[best], pos[best] + 1)
    BY <1>2, <1>4, <1>6, <1>7, <1>12
  <2>2. QED
    BY <2>1
<1>13. ASSUME NEW f \in Feeds, NEW k \in DOMAIN bars'[f]
       PROVE  (k \in DOMAIN bars[f] /\ bars'[f][k] = bars[f][k]) \/ (f = best /\ bars'[f][k] = pos[best] + 1)
  <2>1. CASE f = best /\ best \in barring
    BY <1>12, <1>13, <2>1
  <2>2. CASE f # best \/ best \notin barring
    BY <1>6, <1>13, <2>2
  <2>3. QED
    BY <2>1, <2>2
<1>14. Dense'
  <2>1. SUFFICES ASSUME NEW f \in Feeds
                 PROVE  /\ Len(sent[f]) + Len(bars'[f]) <= pos'[f]
                        /\ \A k \in 1 .. Len(sent[f]) : sent[f][k].tick = pos'[f] - Len(bars'[f]) - Len(sent[f]) + k
                        /\ \A k \in 1 .. Len(bars'[f]) : bars'[f][k] = pos'[f] - Len(bars'[f]) + k
    BY <1>1 DEF Dense
  <2>2. /\ Len(sent[f]) + Len(bars[f]) <= pos[f]
        /\ \A k \in 1 .. Len(sent[f]) : sent[f][k].tick = pos[f] - Len(bars[f]) - Len(sent[f]) + k
        /\ \A k \in 1 .. Len(bars[f]) : bars[f][k] = pos[f] - Len(bars[f]) + k
    BY <1>3 DEF Dense
  <2>3. f \in Journals /\ pos[f] \in Nat /\ Len(sent[f]) \in Nat /\ Len(bars[f]) \in Nat
    BY <1>4, <1>7, FeedsAreJournals
  <2>4. CASE f # best
    BY <1>5, <1>6, <2>2, <2>3, <2>4
  <2>5. CASE f = best /\ f \notin barring
    <3>1. bars[f] = <<>> /\ bars'[f] = <<>> /\ sent[f] = <<>> /\ pos'[f] = pos[f] + 1
      BY <1>3, <1>5, <1>6, <2>5 DEF Begun
    <3>2. QED
      BY <2>3, <3>1
  <2>6. CASE f = best /\ f \in barring
    <3>1. Len(bars'[f]) = Len(bars[f]) + 1 /\ pos'[f] = pos[f] + 1
      BY <1>5, <1>12, <2>6
    <3>0. pos'[f] - Len(bars'[f]) = pos[f] - Len(bars[f])
      BY <2>3, <3>1, BothGrow
    <3>2. Len(sent[f]) + Len(bars'[f]) <= pos'[f]
      <4>1. Len(sent[f]) + Len(bars[f]) <= pos[f]
        BY <2>2
      <4>2. Len(sent[f]) + (Len(bars[f]) + 1) <= pos[f] + 1
        BY <2>3, <4>1, Rooms
      <4>3. QED
        BY <3>1, <4>2
    <3>3. ASSUME NEW k \in 1 .. Len(sent[f]) PROVE sent[f][k].tick = pos'[f] - Len(bars'[f]) - Len(sent[f]) + k
      BY <2>2, <3>0, <3>3
    <3>4. ASSUME NEW k \in 1 .. Len(bars'[f]) PROVE bars'[f][k] = pos'[f] - Len(bars'[f]) + k
      <4>1. pos'[f] - Len(bars'[f]) = pos[f] - Len(bars[f])
        BY <3>0
      <4>2. CASE k \in 1 .. Len(bars[f])
        BY <1>12, <2>2, <2>6, <4>1, <4>2
      <4>3. CASE k = Len(bars[f]) + 1
        <5>1. bars'[f][k] = pos[f] + 1
          BY <1>12, <2>6, <4>3
        <5>2. QED
          BY <2>3, <4>1, <4>3, <5>1
      <4>4. QED
        BY <2>3, <3>1, <3>4, <4>2, <4>3
    <3>5. QED
      BY <3>2, <3>3, <3>4
  <2>7. QED
    BY <2>4, <2>5, <2>6
<1>15. Rounds'
  <2>1. SUFFICES ASSUME NEW u \in Pending, u.what = "send", Touched(u)' PROVE u.nano <= NextNano(best)
    BY <1>1, <1>8 DEF Rounds, InRound, Now
  <2>2. ~Touched(u) /\ u.of \in Feeds
    BY <1>9, <2>1
  <2>3. PICK k \in DOMAIN bars'[u.of] : log[u.of][bars'[u.of][k]] >= u.nano
    BY <1>1, <2>1, <2>2 DEF Touched
  <2>4. u.of = best /\ bars'[u.of][k] = pos[best] + 1
    <3>1. ~(log[u.of][bars[u.of][k]] >= u.nano) \/ k \notin DOMAIN bars[u.of]
      BY <2>2 DEF Touched
    <3>2. QED
      BY <1>13, <2>2, <2>3, <3>1
  <2>5. NextNano(best) \in Int /\ u.nano \in Int
    <3>1. u.nano \in Int
      BY <1>2, <1>8 DEF Inv, Waiting, Typed, Unit
    <3>2. QED
      BY <1>2, <3>1, NextNanoType
  <2>6. QED
    BY <2>3, <2>4, <2>5 DEF NextNano
<1>16. OneLate'
  <2>1. ASSUME NEW e \in Int, NEW f \in Feeds, NEW t \in Int, WaitsIn(e, f, t)', log[f][t] >= e
        PROVE  /\ f = best /\ t = pos[best] + 1
               /\ \A g \in Feeds : \A k \in DOMAIN sent[g] : sent[g][k].end # e
    <3>1. PICK u \in Pending : u.what = "send" /\ u.of = f /\ u.nano = e
      BY <1>8, <2>1 DEF WaitsIn
    <3>2. ~Touched(u)
      BY <1>9, <3>1
    <3>3. PICK k \in DOMAIN bars'[f] : bars'[f][k] = t
      BY <2>1 DEF WaitsIn
    <3>4. QED
      BY <1>13, <2>1, <3>1, <3>2, <3>3 DEF Touched
  <2>2. ASSUME NEW e \in Int, NEW f \in Feeds, NEW t \in Int, LateTick(e, f, t)', ~WaitsIn(e, f, t)'
        PROVE  LateTick(e, f, t) /\ SentIn(e, f, t)
    BY <1>1, <2>2 DEF LateTick, SentIn
  <2>3. SUFFICES ASSUME NEW e \in Int, NEW f \in Feeds, NEW g \in Feeds, NEW s \in Int, NEW t \in Int,
                        LateTick(e, f, s)', LateTick(e, g, t)'
                 PROVE  f = g /\ s = t
    BY DEF OneLate
  <2>4. log[f][s] >= e /\ log[g][t] >= e
    BY <1>1, <2>3 DEF LateTick
  <2>5. CASE ~WaitsIn(e, f, s)' /\ ~WaitsIn(e, g, t)'
    BY <1>3, <2>2, <2>3, <2>5 DEF OneLate
  <2>6. CASE WaitsIn(e, f, s)' /\ WaitsIn(e, g, t)'
    BY <2>1, <2>4, <2>6
  <2>7. ASSUME NEW h \in Feeds, NEW x \in Int, NEW i \in Feeds, NEW y \in Int, log[h][x] >= e,
               WaitsIn(e, h, x)', ~WaitsIn(e, i, y)', LateTick(e, i, y)'
        PROVE  FALSE
    BY <2>1, <2>2, <2>7 DEF SentIn
  <2>8. QED
    BY <2>3, <2>4, <2>5, <2>6, <2>7
<1>17. QED
  BY <1>10, <1>11, <1>14, <1>15, <1>16 DEF BarsInv
-----------------------------------------------------------------------------
(* A callback of a bar: what was in the bar is sent, and nothing is late in *)
(* what is sent that was not late in the bar.                              *)

LEMMA CallUserBars == ASSUME Inv, NEW v \in heap, Call(v), v.what = "user" PROVE Quiet
<1>1. /\ pc = "callbacks" /\ pc' = "callback" /\ running' = v
      /\ UNCHANGED <<journals, pos, times, heap>> /\ UNCHANGED barVars
  BY DEF Call
<1>2. Pending = heap /\ Pending' = heap \ {v}
  BY <1>1 DEF Pending
<1>3. \A j \in Journals : Len(log[j]) \in Nat
  BY DEF Inv, Typed
<1>4. QED
  BY <1>1, <1>2, <1>3 DEF Quiet, barVars, journals, times, Early, InRound, Now

LEMMA CallBars == ASSUME Inv, BarsInv, NEW v \in heap, Call(v), v.what # "user" PROVE BarsInv'
<1>1. /\ pc = "callbacks" /\ pc' = "callback" /\ v \in Due /\ running' = v
      /\ heap' = heap /\ log' = log /\ pos' = pos /\ cur_nano' = cur_nano
      /\ barring' = barring \cup {v.of}
      /\ bars' = [bars EXCEPT ![v.of] = <<>>]
      /\ sent' = IF v.what = "send" THEN [sent EXCEPT ![v.of] = @ \o Ticks(v)] ELSE sent
  BY DEF Call, RunBar, Cleared, journals, times
<1>2. Typed /\ BarsTyped /\ Begun /\ Dense /\ Rounds /\ OneLate
  BY DEF Inv, BarsInv
<1>3. /\ v \in Top /\ v.nano <= cur_nano
      /\ \A u \in heap : u.nano \in Int /\ v.nano <= u.nano
  BY <1>1 DEF Due, Top, Inv, Typed, Waiting, Unit
<1>4. v.what \in OfBar /\ v.of \in Feeds /\ v.nano \in Int
  <2>1. v \in Unit
    BY DEF Inv, Typed, Waiting
  <2>2. v.what \in {"init", "send"} /\ v.nano \in Int
    BY <2>1 DEF Unit
  <2>3. QED
    BY <1>2, <2>2 DEF BarsTyped, OfBar
<1>5. Pending = heap /\ Pending' = heap \ {v} /\ v \in Pending
  BY <1>1 DEF Pending
<1> DEFINE f0 == v.of
<1>6. bars'[f0] = <<>> /\ \A f \in Feeds \ {f0} : bars'[f] = bars[f] /\ sent'[f] = sent[f]
  BY <1>1, <1>2, <1>4 DEF BarsTyped
<1>7. \A f \in Feeds : /\ bars[f] \in Seq(Int) /\ sent[f] \in Seq(Report)
                       /\ Len(bars[f]) \in Nat /\ Len(sent[f]) \in Nat /\ pos[f] \in Nat
                       /\ DOMAIN bars[f] = 1 .. Len(bars[f]) /\ DOMAIN sent[f] = 1 .. Len(sent[f])
  <2>1. SUFFICES ASSUME NEW f \in Feeds
                 PROVE  /\ bars[f] \in Seq(Int) /\ sent[f] \in Seq(Report)
                        /\ Len(bars[f]) \in Nat /\ Len(sent[f]) \in Nat /\ pos[f] \in Nat
                        /\ DOMAIN bars[f] = 1 .. Len(bars[f]) /\ DOMAIN sent[f] = 1 .. Len(sent[f])
    OBVIOUS
  <2>2. bars[f] \in Seq(Int) /\ sent[f] \in Seq(Report) /\ pos[f] \in Nat
    BY <1>2, FeedsAreJournals DEF Typed, BarsTyped
  <2>3. QED
    BY <2>2
(* What is sent. *)
<1>8. ASSUME v.what = "send"
      PROVE  /\ sent'[f0] \in Seq(Report)
             /\ Len(sent'[f0]) = Len(sent[f0]) + Len(bars[f0])
             /\ \A k \in 1 .. Len(sent[f0]) : sent'[f0][k] = sent[f0][k]
             /\ \A k \in 1 .. Len(bars[f0]) :
                  sent'[f0][Len(sent[f0]) + k] = [end |-> v.nano, tick |-> bars[f0][k]]
  <2> DEFINE more == Ticks(v)
  <2>1. more = [k \in 1 .. Len(bars[f0]) |-> [end |-> v.nano, tick |-> bars[f0][k]]]
    BY <1>4, <1>7 DEF Ticks
  <2>2. \A k \in 1 .. Len(bars[f0]) : bars[f0][k] \in Int
    BY <1>4, <1>7
  <2>3. more \in Seq(Report) /\ Len(more) = Len(bars[f0])
    BY <1>4, <1>7, <2>1, <2>2 DEF Report
  <2>4. sent'[f0] = sent[f0] \o more
    BY <1>1, <1>2, <1>4, <1>8 DEF BarsTyped
  <2>5. \A k \in 1 .. Len(bars[f0]) : more[k] = [end |-> v.nano, tick |-> bars[f0][k]]
    BY <2>1
  <2> HIDE DEF more, f0
  <2>6. sent[f0] \in Seq(Report)
    BY <1>4, <1>7 DEF f0
  <2>7. /\ sent'[f0] \in Seq(Report)
        /\ Len(sent'[f0]) = Len(sent[f0]) + Len(more)
        /\ \A k \in 1 .. Len(sent[f0]) : sent'[f0][k] = sent[f0][k]
        /\ \A k \in 1 .. Len(more) : sent'[f0][Len(sent[f0]) + k] = more[k]
    <3>1. sent[f0] \o more \in Seq(Report) /\ Joined(sent[f0], more, sent[f0] \o more)
      BY <2>3, <2>6, ConcatFacts
    <3>2. QED
      BY <2>4, <3>1, Zenon DEF Joined
  <2>8. QED
    BY <2>3, <2>5, <2>7
<1>9. v.what = "init" => bars[f0] = <<>> /\ sent[f0] = <<>> /\ sent' = sent
  BY <1>1, <1>2, <1>4, <1>5 DEF Begun
<1> HIDE DEF f0
<1>10. f0 \in Feeds /\ f0 = v.of /\ (v.what = "send" \/ v.what = "init")
  BY <1>4 DEF f0, OfBar
<1>11. ASSUME NEW f \in Feeds, NEW k \in DOMAIN bars'[f]
       PROVE  f # f0 /\ k \in DOMAIN bars[f] /\ bars'[f][k] = bars[f][k]
  BY <1>6, <1>11
<1>12. ASSUME NEW f \in Feeds, NEW k \in DOMAIN sent'[f]
       PROVE  \/ k \in DOMAIN sent[f] /\ sent'[f][k] = sent[f][k]
              \/ /\ f = f0 /\ v.what = "send" /\ sent'[f][k].end = v.nano
                 /\ \E i \in DOMAIN bars[f] : bars[f][i] = sent'[f][k].tick
  <2>1. CASE f # f0 \/ v.what = "init"
    BY <1>6, <1>9, <1>12, <2>1
  <2>2. CASE f = f0 /\ v.what = "send"
    <3>1. k \in 1 .. Len(sent[f]) + Len(bars[f])
      <4>1. sent'[f] \in Seq(Report) /\ Len(sent'[f]) = Len(sent[f]) + Len(bars[f])
        BY <1>8, <2>2
      <4>2. DOMAIN sent'[f] = 1 .. Len(sent'[f])
        BY <4>1, SeqFacts
      <4>3. QED
        BY <1>12, <4>1, <4>2, Zenon
    <3>2. CASE k <= Len(sent[f])
      BY <1>7, <1>8, <2>2, <3>1, <3>2
    <3>3. CASE k > Len(sent[f])
      <4>1. k - Len(sent[f]) \in 1 .. Len(bars[f]) /\ k = Len(sent[f]) + (k - Len(sent[f]))
        <5>1. Len(sent[f]) \in Nat /\ Len(bars[f]) \in Nat /\ k \in Int
          BY <1>7, <3>1
        <5>2. QED
          BY <3>1, <3>3, <5>1, Places
      <4>2. sent'[f][k] = [end |-> v.nano, tick |-> bars[f][k - Len(sent[f])]]
        BY <1>8, <2>2, <4>1
      <4>3. k - Len(sent[f]) \in DOMAIN bars[f]
        BY <1>7, <4>1
      <4>4. QED
        BY <2>2, <4>2, <4>3
    <3>4. QED
      BY <1>7, <3>1, <3>2, <3>3
  <2>3. QED
    BY <1>10, <2>1, <2>2
<1>13. BarsTyped'
  <2>1. bars' \in [Feeds -> Seq(Int)]
    <3>1. <<>> \in Seq(Int)
      OBVIOUS
    <3>2. QED
      BY <1>1, <1>2, <3>1, Zenon DEF BarsTyped
  <2>2. sent' \in [Feeds -> Seq(Report)]
    BY <1>1, <1>2, <1>8, <1>10 DEF BarsTyped
  <2>3. QED
    BY <1>1, <1>2, <1>10, <2>1, <2>2 DEF BarsTyped
<1>14. Begun'
  <2>1. \A f \in Feeds \ barring' : bars'[f] = <<>> /\ sent'[f] = <<>>
    BY <1>1, <1>2, <1>6, <1>10 DEF Begun
  <2>2. ASSUME NEW u \in Pending', u.what = "init" PROVE u.of \notin barring'
    <3>1. u \in heap /\ u # v /\ u \in Pending
      BY <1>5, <2>2
    <3>2. u.of \notin barring
      BY <1>2, <2>2, <3>1 DEF Begun
    <3>3. u.of = v.of => u.nano < v.nano
      BY <1>2, <1>4, <2>2, <3>1 DEF Begun
    <3>4. u.nano \in Int /\ v.nano <= u.nano
      BY <1>3, <3>1
    <3>5. u.of # v.of
      BY <1>4, <3>3, <3>4
    <3>6. QED
      BY <1>1, <3>2, <3>5
  <2>3. QED
    BY <1>1, <1>2, <2>1, <2>2 DEF Begun, Early
<1>15. Dense'
  <2>1. SUFFICES ASSUME NEW f \in Feeds
                 PROVE  /\ Len(sent'[f]) + Len(bars'[f]) <= pos[f]
                        /\ \A k \in 1 .. Len(sent'[f]) : sent'[f][k].tick = pos[f] - Len(bars'[f]) - Len(sent'[f]) + k
                        /\ \A k \in 1 .. Len(bars'[f]) : bars'[f][k] = pos[f] - Len(bars'[f]) + k
    <3>1. pos' = pos
      BY <1>1
    <3>2. QED
      BY <3>1, Zenon DEF Dense
  <2>2. /\ Len(sent[f]) + Len(bars[f]) <= pos[f]
        /\ \A k \in 1 .. Len(sent[f]) : sent[f][k].tick = pos[f] - Len(bars[f]) - Len(sent[f]) + k
        /\ \A k \in 1 .. Len(bars[f]) : bars[f][k] = pos[f] - Len(bars[f]) + k
    BY <1>2 DEF Dense
  <2>3. CASE f # f0
    BY <1>6, <2>2, <2>3
  <2>4. CASE f = f0 /\ v.what = "init"
    <3>1. bars'[f] = bars[f] /\ sent'[f] = sent[f]
      BY <1>6, <1>9, <2>4
    <3>2. QED
      BY <2>2, <3>1
  <2>5. CASE f = f0 /\ v.what = "send"
    <3>1. bars'[f] = <<>> /\ Len(bars'[f]) = 0 /\ Len(sent'[f]) = Len(sent[f]) + Len(bars[f])
      BY <1>6, <1>8, <2>5
    <3>2. Len(bars[f]) \in Nat /\ Len(sent[f]) \in Nat /\ pos[f] \in Nat
      BY <1>7
    <3>3. Len(sent'[f]) + Len(bars'[f]) <= pos[f]
      <4>1. Len(sent[f]) + Len(bars[f]) <= pos[f]
        BY <2>2
      <4>2. Len(sent[f]) + Len(bars[f]) + 0 <= pos[f]
        BY <3>2, <4>1, Rooms
      <4>3. QED
        BY <3>1, <4>2, Zenon
    <3> DEFINE room == 1 .. Len(sent[f]) + Len(bars[f])
    <3>4. /\ \A k \in room : k \in 1 .. Len(sent[f]) \/ \E i \in 1 .. Len(bars[f]) : k = Len(sent[f]) + i
          /\ \A i \in 1 .. Len(bars[f]) :
               pos[f] - Len(bars[f]) + i = pos[f] - Len(bars[f]) - Len(sent[f]) + (Len(sent[f]) + i)
          /\ \A k \in room : pos[f] - 0 - (Len(sent[f]) + Len(bars[f])) + k = pos[f] - Len(bars[f]) - Len(sent[f]) + k
      BY <3>2, BothPlaced
    <3> HIDE DEF room
    <3>5. \A k \in 1 .. Len(sent[f]) : sent'[f][k].tick = pos[f] - Len(bars[f]) - Len(sent[f]) + k
      BY <1>8, <2>2, <2>5
    <3>6. \A i \in 1 .. Len(bars[f]) :
            sent'[f][Len(sent[f]) + i].tick = pos[f] - Len(bars[f]) - Len(sent[f]) + (Len(sent[f]) + i)
      <4>1. ASSUME NEW i \in 1 .. Len(bars[f]) PROVE sent'[f][Len(sent[f]) + i].tick = bars[f][i]
        <5>1. sent'[f][Len(sent[f]) + i] = [end |-> v.nano, tick |-> bars[f][i]]
          BY <1>8, <2>5
        <5>2. QED
          BY <5>1
      <4>2. \A i \in 1 .. Len(bars[f]) : bars[f][i] = pos[f] - Len(bars[f]) + i
        BY <2>2
      <4>3. QED
        BY <3>4, <4>1, <4>2
    <3>7. \A k \in room : sent'[f][k].tick = pos[f] - Len(bars[f]) - Len(sent[f]) + k
      <4>1. ASSUME NEW k \in room, k \notin 1 .. Len(sent[f])
            PROVE  sent'[f][k].tick = pos[f] - Len(bars[f]) - Len(sent[f]) + k
        <5>1. PICK i \in 1 .. Len(bars[f]) : k = Len(sent[f]) + i
          BY <3>4, <4>1
        <5>2. QED
          BY <3>6, <5>1
      <4>2. QED
        BY <3>5, <4>1
    <3>8. \A k \in room : sent'[f][k].tick = pos[f] - 0 - (Len(sent[f]) + Len(bars[f])) + k
      BY <3>4, <3>7, Zenon
    <3>9. \A k \in 1 .. Len(sent'[f]) : sent'[f][k].tick = pos[f] - Len(bars'[f]) - Len(sent'[f]) + k
      BY <3>1, <3>8, Zenon DEF room
    <3>10. \A k \in 1 .. Len(bars'[f]) : bars'[f][k] = pos[f] - Len(bars'[f]) + k
      BY <3>1
    <3>11. QED
      BY <3>3, <3>9, <3>10
  <2>6. QED
    BY <1>10, <2>3, <2>4, <2>5
<1>16. Rounds'
  <2>1. SUFFICES ASSUME NEW u \in Pending', u.what = "send", Touched(u)' PROVE u.nano <= cur_nano
    BY <1>1 DEF Rounds, InRound, Now
  <2>2. u \in Pending /\ u.of \in Feeds
    BY <1>2, <1>5, <2>1 DEF BarsTyped, OfBar
  <2>3. CASE Touched(u)
    BY <1>1, <1>2, <2>1, <2>2, <2>3 DEF Rounds, Now
  <2>4. CASE ~Touched(u)
    <3>1. \A k \in DOMAIN bars'[u.of] : ~(log[u.of][bars'[u.of][k]] >= u.nano)
      BY <1>11, <2>2, <2>4 DEF Touched
    <3>2. PICK f \in Feeds : \E k \in DOMAIN sent'[f] : sent'[f][k].end = u.nano
      BY <1>1, <2>1, <3>1 DEF Touched
    <3>3. PICK k \in DOMAIN sent'[f] : sent'[f][k].end = u.nano
      BY <3>2
    <3>4. sent'[f][k].end = v.nano
      BY <1>12, <2>4, <3>3 DEF Touched
    <3>5. QED
      BY <1>3, <3>3, <3>4
  <2>5. QED
    BY <2>3, <2>4
<1>17. OneLate'
  <2>1. ASSUME NEW e \in Int, NEW f \in Feeds, NEW t \in Int, LateTick(e, f, t)' PROVE LateTick(e, f, t)
    <3>1. CASE WaitsIn(e, f, t)'
      BY <1>1, <1>5, <1>11, <2>1, <3>1 DEF LateTick, WaitsIn
    <3>2. CASE SentIn(e, f, t)'
      <4>1. PICK k \in DOMAIN sent'[f] : sent'[f][k].end = e /\ sent'[f][k].tick = t
        BY <3>2 DEF SentIn
      <4>2. CASE k \in DOMAIN sent[f] /\ sent'[f][k] = sent[f][k]
        BY <1>1, <2>1, <4>1, <4>2 DEF LateTick, SentIn
      <4>3. CASE /\ f = f0 /\ v.what = "send" /\ sent'[f][k].end = v.nano
                 /\ \E i \in DOMAIN bars[f] : bars[f][i] = sent'[f][k].tick
        BY <1>1, <1>5, <1>10, <2>1, <4>1, <4>3 DEF LateTick, WaitsIn
      <4>4. QED
        BY <1>12, <4>1, <4>2, <4>3
    <3>3. QED
      BY <2>1, <3>1, <3>2 DEF LateTick
  <2>2. QED
    BY <1>2, <2>1 DEF OneLate
<1>18. QED
  BY <1>13, <1>14, <1>15, <1>16, <1>17 DEF BarsInv

LEMMA BarsStep == Inv /\ BarsInv /\ [Next]_vars => BarsInv'
<1> SUFFICES ASSUME Inv, BarsInv, [Next]_vars PROVE BarsInv'
  OBVIOUS
<1>1. Inv'
  BY NextKeeps
<1>2. CASE Quiet
  BY <1>1, <1>2, QuietBars
<1>3. CASE register_bar_md \/ pre_run \/ Frame
  BY <1>3, RegisterBars, PreRunBars, FrameBars
<1>4. ASSUME NEW u \in heap, Call(u) PROVE BarsInv'
  BY <1>1, <1>4, CallUserBars, CallBars, QuietBars
<1>5. QED
  BY <1>2, <1>3, <1>4, QuietSteps

LEMMA OneBehindAnother ==
  ASSUME NEW s \in Seq(Int), NEW t \in Seq(Int), NEW p \in Nat,
         \A k \in 1 .. Len(s) : s[k] = p - Len(t) - Len(s) + k,
         \A k \in 1 .. Len(t) : t[k] = p - Len(t) + k
  PROVE  \A k \in DOMAIN (s \o t) : (s \o t)[k] = p - (Len(s \o t) - k)
<1> DEFINE st == s \o t
<1>1. Joined(s, t, st)
  BY ConcatFacts
<1>2. Len(s) \in Nat /\ Len(t) \in Nat
  OBVIOUS
<1> HIDE DEF st
<1>3. ASSUME NEW k \in DOMAIN st, NEW n, n = Len(st) PROVE st[k] = p - (n - k)
  <2>1. k \in 1 .. Len(s) + Len(t) /\ n = Len(s) + Len(t)
    BY <1>1, <1>3 DEF Joined
  <2>2. k \in Int
    BY <1>2, <2>1
  <2>3. CASE k <= Len(s)
    <3>1. k \in 1 .. Len(s)
      BY <1>2, <2>1, <2>2, <2>3
    <3>2. st[k] = s[k] /\ s[k] = p - Len(t) - Len(s) + k
      BY <1>1, <3>1 DEF Joined
    <3>3. QED
      BY <1>2, <2>1, <2>2, <3>2
  <2>4. CASE k > Len(s)
    <3> DEFINE i == k - Len(s)
    <3>1. i \in 1 .. Len(t) /\ k = Len(s) + i
      BY <1>2, <2>1, <2>2, <2>4
    <3>2. i \in Int
      BY <3>1
    <3> HIDE DEF i
    <3>3. st[k] = t[i] /\ t[i] = p - Len(t) + i
      BY <1>1, <3>1 DEF Joined
    <3>4. QED
      BY <1>2, <2>1, <2>2, <3>1, <3>2, <3>3
  <2>5. QED
    BY <1>2, <2>2, <2>3, <2>4
<1>4. QED
  BY <1>3 DEF st

(* The bars are exact by what they hold. *)
LEMMA ExactBars == Inv /\ BarsInv => BarsExact
<1> SUFFICES ASSUME Inv, BarsInv PROVE BarsExact
  OBVIOUS
<1>1. Typed /\ BarsTyped /\ Dense /\ OneLate
  BY DEF Inv, BarsInv
<1>2. ASSUME NEW f \in Feeds
      PROVE  LET all == [k \in DOMAIN sent[f] |-> sent[f][k].tick] \o bars[f]
             IN  \A k \in DOMAIN all : all[k] = pos[f] - (Len(all) - k)
  <2> DEFINE old == [k \in DOMAIN sent[f] |-> sent[f][k].tick]
  <2>1. /\ bars[f] \in Seq(Int) /\ sent[f] \in Seq(Report) /\ pos[f] \in Nat
    BY <1>1, FeedsAreJournals DEF Typed, BarsTyped
  <2>2. /\ Len(sent[f]) \in Nat /\ DOMAIN sent[f] = 1 .. Len(sent[f])
        /\ \A k \in DOMAIN sent[f] : sent[f][k] \in Report
        /\ Len(bars[f]) \in Nat
    BY <2>1, SeqFacts
  <2>3. old \in Seq(Int) /\ Len(old) = Len(sent[f]) /\ \A k \in 1 .. Len(sent[f]) : old[k] = sent[f][k].tick
    <3>1. old = [k \in 1 .. Len(sent[f]) |-> sent[f][k].tick]
      BY <2>2
    <3>2. \A k \in 1 .. Len(sent[f]) : sent[f][k].tick \in Int
      BY <2>2 DEF Report
    <3> HIDE DEF old
    <3>3. QED
      BY <2>2, <3>1, <3>2
  <2>4. bars[f] \in Seq(Int) /\ pos[f] \in Nat
    BY <2>1
  <2>5. /\ \A k \in 1 .. Len(sent[f]) : sent[f][k].tick = pos[f] - Len(bars[f]) - Len(sent[f]) + k
        /\ \A k \in 1 .. Len(bars[f]) : bars[f][k] = pos[f] - Len(bars[f]) + k
    BY <1>1 DEF Dense
  <2> HIDE DEF old
  <2>6. \A k \in 1 .. Len(old) : old[k] = pos[f] - Len(bars[f]) - Len(old) + k
    BY <2>3, <2>5
  <2>7. \A k \in DOMAIN (old \o bars[f]) : (old \o bars[f])[k] = pos[f] - (Len(old \o bars[f]) - k)
    BY <2>3, <2>4, <2>5, <2>6, OneBehindAnother
  <2>8. QED
    BY <2>7, Zenon DEF old
<1>3. ASSUME NEW e \in Int, NEW x \in Late(e), NEW y \in Late(e) PROVE x = y
  <2>1. PICK f \in Feeds : \E n \in DOMAIN sent[f] : x = <<f, n>> /\ sent[f][n].end = e /\ log[f][sent[f][n].tick] >= e
    BY DEF Late
  <2>2. PICK k \in DOMAIN sent[f] : x = <<f, k>> /\ sent[f][k].end = e /\ log[f][sent[f][k].tick] >= e
    BY <2>1
  <2>3. PICK g \in Feeds : \E n \in DOMAIN sent[g] : y = <<g, n>> /\ sent[g][n].end = e /\ log[g][sent[g][n].tick] >= e
    BY DEF Late
  <2>4. PICK i \in DOMAIN sent[g] : y = <<g, i>> /\ sent[g][i].end = e /\ log[g][sent[g][i].tick] >= e
    BY <2>3
  <2>5. \A h \in Feeds : /\ Len(sent[h]) \in Nat /\ DOMAIN sent[h] = 1 .. Len(sent[h])
                         /\ \A n \in DOMAIN sent[h] : sent[h][n].tick \in Int
    <3>1. SUFFICES ASSUME NEW h \in Feeds
                   PROVE  /\ Len(sent[h]) \in Nat /\ DOMAIN sent[h] = 1 .. Len(sent[h])
                          /\ \A n \in DOMAIN sent[h] : sent[h][n].tick \in Int
      OBVIOUS
    <3>2. sent[h] \in Seq(Report)
      BY <1>1 DEF BarsTyped
    <3>3. /\ Len(sent[h]) \in Nat /\ DOMAIN sent[h] = 1 .. Len(sent[h])
          /\ \A n \in DOMAIN sent[h] : sent[h][n] \in Report
      BY <3>2, SeqFacts, Zenon
    <3>4. QED
      BY <3>3 DEF Report
  <2>6. LateTick(e, f, sent[f][k].tick) /\ LateTick(e, g, sent[g][i].tick)
    BY <2>2, <2>4 DEF LateTick, SentIn
  <2>7. f = g /\ sent[f][k].tick = sent[g][i].tick
    BY <1>1, <2>5, <2>6 DEF OneLate
  <2>8. /\ sent[f][k].tick = pos[f] - Len(bars[f]) - Len(sent[f]) + k
        /\ sent[f][i].tick = pos[f] - Len(bars[f]) - Len(sent[f]) + i
    BY <1>1, <2>5, <2>7 DEF Dense
  <2>9. k \in Int /\ i \in Int /\ pos[f] \in Int /\ Len(bars[f]) \in Int /\ Len(sent[f]) \in Int
    <3>1. bars[f] \in Seq(Int) /\ pos[f] \in Nat
      BY <1>1, FeedsAreJournals DEF Typed, BarsTyped
    <3>2. QED
      BY <2>5, <2>7, <3>1
  <2>10. k = i
    <3>1. \A p, b, n \in Int : p - b - n + k = p - b - n + i => k = i
      BY <2>9
    <3>2. pos[f] - Len(bars[f]) - Len(sent[f]) + k = pos[f] - Len(bars[f]) - Len(sent[f]) + i
      BY <2>7, <2>8
    <3>3. QED
      BY <2>9, <3>1, <3>2
  <2>11. QED
    BY <2>2, <2>4, <2>7, <2>10
<1>4. ASSUME NEW e \in Int PROVE Cardinality(Late(e)) <= 1
  <2>1. CASE Late(e) = {}
    BY <2>1, FS_EmptySet
  <2>2. CASE Late(e) # {}
    <3>1. PICK x \in Late(e) : TRUE
      BY <2>2
    <3>2. Late(e) = {x}
      BY <1>3, <3>1
    <3>3. QED
      BY <3>2, FS_Singleton
  <2>3. QED
    BY <2>1, <2>2
<1>5. \A i \in DOMAIN BarTimes : BarTimes[i] \in Int
  BY StrategyLoopAssumption
<1>6. QED
  BY <1>2, <1>4, <1>5 DEF BarsExact

(***************************************************************************)
(* For any number of feeds, bars, frames and callbacks, and with a clock   *)
(* of the strategy that goes back: the bars hold every frame read since    *)
(* the first, once and in order, and of all bars with the same end at most *)
(* one holds a frame from then or later (WCDataWrapper::run, init_bar,     *)
(* send_bar and process_bar).                                              *)
(***************************************************************************)
THEOREM BarsAreExact == Spec => []BarsExact
<1>1. Init => Inv /\ BarsInv
  BY InitInv, BarsInit
<1>2. (Inv /\ BarsInv) /\ [Next]_vars => (Inv /\ BarsInv)'
  BY NextKeeps, BarsStep
<1>3. Inv /\ BarsInv => BarsExact
  BY ExactBars
<1>4. QED
  BY <1>1, <1>2, <1>3, PTL DEF Spec
=============================================================================
