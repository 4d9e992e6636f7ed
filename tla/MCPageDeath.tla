---------------------------- MODULE MCPageDeath ----------------------------
(***************************************************************************)
(* One schedule of PageEngine in which a process dies while it waits for a *)
(* page.  The schedule is too long to be found breadth first among all the *)
(* others: it only chooses, step by step, which action of Next comes next. *)
(***************************************************************************)
EXTENDS PageEngine, Sequences

CONSTANTS w1, w2, w3, \* three writers, in slots 0, 1 and 2
          j1, j2      \* the journals they write

VARIABLE step         \* the next position of the schedule

Slot(c) == CASE c = w1 -> 0 [] c = w2 -> 1 [] c = w3 -> 2

Does(act, c) == <<[act |-> act, client |-> c, journal |-> j1]>>

(* A process starts, asks for its slot for journal j and is given it. *)
Joins(c, j) ==
  LET for(act) == <<[act |-> act, client |-> c, journal |-> j]>>
  IN  Does("register", c) \o for("add") \o for("slot") \o Does("fill", c)

(* The comm thread answers a request with a page. *)
Serves(c) == Does("serve", c) \o Does("remember", c)
IsServed(c) == Does("scan", c) \o Serves(c) \o Does("page", c)
Seeks(c) == Does("seek", c) \o IsServed(c)

(***************************************************************************)
(* w1 has page 1 of j1 when w2 and w3 list the pages, goes on to page 2,   *)
(* and w2 gets page 1.  The process w1 dies, comes back for j2, asks for   *)
(* page 1, and dies when the comm thread has seen its request.  It comes   *)
(* back in the same slot for j1 before the comm thread has the mutex: what *)
(* is served is page 1 of j1.  It is refused, and the next request of the  *)
(* slot, for page 2, releases it.  So w3 gets page 1.                      *)
(***************************************************************************)
Schedule ==
  Joins(w1, j1) \o Does("list", w1) \o Seeks(w1)
  \o Joins(w2, j1) \o Does("list", w2) \o Joins(w3, j1) \o Does("list", w3)
  \o Does("next", w1) \o IsServed(w1) \o Seeks(w2)
  \o Does("die", w1) \o Does("pid", w1)
  \o Joins(w1, j2) \o Does("list", w1) \o Does("seek", w1) \o Does("scan", w1)
  \o Does("die", w1) \o Does("pid", w1)
  \o Joins(w1, j1) \o Serves(w1) \o Does("list", w1) \o Seeks(w1)
  \o Seeks(w3)

Action(x) ==
  LET c == x.client
      s == Slot(c)
  IN  CASE x.act = "register" -> RegClient(c)
        [] x.act = "add"      -> AddJournal(c, x.journal)
        [] x.act = "slot"     -> RegJournal(c, gen[c], x.journal, s)
        [] x.act = "fill"     -> FillSlot(s)
        [] x.act = "list"     -> ListPages(s)
        [] x.act = "seek"     -> WriterSeekEnd(s)
        [] x.act = "next"     -> LoadNextPage(s)
        [] x.act = "page"     -> WriterGetsPage(s)
        [] x.act = "scan"     -> CommScan(s)
        [] x.act = "serve"    -> CommServe
        [] x.act = "remember" -> CommRemember
        [] x.act = "die"      -> Die(c)
        [] x.act = "pid"      -> PidCheck

ScheduleInit == Init /\ step = 1
ScheduleNext == step <= Len(Schedule) /\ Action(Schedule[step]) /\ step' = step + 1
ScheduleSpec == ScheduleInit /\ [][ScheduleNext]_<<vars, step>>
=============================================================================
