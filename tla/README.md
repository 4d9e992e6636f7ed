# TickPanda (Kungfu): a formal model

TickPanda is a low latency trading system. Processes exchange messages through
*journals*: append-only files cut into fixed size pages that are mapped into
memory, written by one process and read by any number of others. A *page
service* (`yijinjing/paged`) creates the pages, keeps them mapped and locked,
and hands them out; market data engines, trade engines and strategies
(`wingchun`) are clients of it that read and write journals.

This directory holds TLA+ models of the code, the TLC runs that check them, and
TLAPS proofs. `PROJECT.json` maps every definition to the lines it models.

## Inventory

### The page service (`yijinjing/paged`)

State: the shared *comm buffer* (one `PageCommMsg` per slot), `clientJournals`
(client name -> slots, hash code, request id window), `fileWriterCounts`,
`fileReaderCounts`, `fileAddrs` (mapped pages, the spare page among them),
`maxIdx`, the tasks, and the writer of the system journal.

Three threads and one mutex (`paged_mtx`): the socket thread handles one request
at a time (register a client, register a journal, register a strategy, log in to
a trade engine, subscribe, exit); the comm thread polls the slots for page
requests; the task thread runs the periodic tasks (pid check, spare page,
time tick, start/end/day-switch controller). `start`, `stop` and
`switch_trading_day` run on the caller's thread without the mutex.

Interactions: requests and answers over a socket; page requests through the
status byte of a slot, which the client spins on; messages to everybody through
the system journal, for which the service is a client of itself.

Hard: a status is read outside the mutex and served inside it; the answer to a
page request ends the client's spinning before the service is done with the
slot; clients die at any point and their names and slots are reused; a request
over the socket can be handled after its process is gone, and the answer to it
then throws; a request is answered after its slot has changed hands; the service
waits for itself.

Correct means: a page is mapped as long as somebody uses it; a slot, a page to
write, a request id window belong to one client at a time; the counts are the
clients; every request is answered, every dead client forgotten, every
acknowledged message is in the journal, `stop` returns.

### Journals (`yijinjing/journal`)

State: pages of frames; per `Journal` object the current page, its position and
the `expired` flag. Operations: write a frame, load the next page, seek to the
end, the beginning or a time, expire, and (reader) take the earliest next frame
of several journals. Hard: writer and readers share memory without a lock, only
the order of the status bytes protects readers; a writer may die between any two
of these writes. Correct means: a reader gets every frame once, whole and in
order.

### Engines (`wingchun/base/IEngine.cpp`)

Both kinds of engines have a listening thread that reads the system journal,
opens the engine (connect, then log in, each with a wait of limited time on that
thread) and closes it (log out, then let go of the vendor's api). The vendor's
api calls back on threads of its own and sets flags that the listening thread
looks at without a lock. Hard: a callback between any two steps of the listening
thread, an answer that comes after the wait for it, a disconnection in the
middle, an engine that is closed and opened again. Correct means: the flags tell
what the counter would say, and an engine that is opened again and again gets
logged in.

### Trade engines (`wingchun/td`)

State: per strategy a request id window and journals to read and write, per
account order tables (`TDUserStruct`), the login state of each account, the
next order reference (`local_id`). Operations: login and end of a strategy,
order, cancel, queries, order and trade returns, day switch, counter callbacks.
Hard: callbacks of the counter on a second thread; a day switch under open
orders; reconnects in the middle of a login; full tables. Correct means: a
return reaches the strategy that sent the order, with its own request id, and no
order reference is used twice.

### Market data engines (`wingchun/md`)

State: the tickers of a batch that is being read, all that was ever subscribed
(`history_subs`), login state, the journals it writes. Hard: subscriptions while
the engine is logged out, sessions that end and take what they had subscribed
with them. Correct means: whenever it is logged in, all that was subscribed is
subscribed at the counter, and nothing else.

### Strategies (`wingchun/strategy`)

State: the request id window and the next id, the status of each trade engine,
internal positions, bars, a heap of timed callbacks. One data thread takes the
earliest next frame of all its journals, hands it to the strategy, and then runs
the callbacks that are due; it is stopped by a flag or a signal. Hard: frames
that turn up after later ones, callbacks that insert callbacks, the tick that
arrives at the end of a bar, a stop before the thread runs, answers for another
strategy's ids. Correct means: callbacks run once and in their place among the
frames, a bar has all frames of its time, `stop` stops.

### Positions and fees (`yijinjing/utils/PosHandler.hpp`, `FeeHandler.hpp`)

State: for each ticker and direction the lots held in all and those from before
today, the fees paid, and a flag (`is_poisoned`) that gives up on the rest.
Both a trade engine and a strategy keep one and pass it on as json. Hard: it
only sees fills, and guesses which lots a close takes. Correct means: it agrees
with a ledger of the lots.

### Left aside

Tools, Python layer, packaging, logging, exchange helpers, vendor APIs and
vendored libraries; the reasons are in `PROJECT.json`.

## Modules

| module | models | how |
|---|---|---|
| `PageStore` | `release_page`, `initiate_page`, the count maps | operators on a page table record |
| `PageEngine` | the page service and `ClientPageProvider`/`Journal` as its clients | one action per critical section of the service, or per piece of client code between two waits |
| `PageService` | the service's threads, `paged_mtx`, its own journal writer | one action per step between two points where another thread can be seen |
| `JournalLog` | what a journal promises | abstract: a log that is appended to, readers that take its frames |
| `Journal` | one journal in shared memory: a writer that may die, readers | one action per store another process can see; implements `JournalLog` |
| `OrderTable` | the order tables of users and of the engine | operators on a table |
| `TradeEngine` | `ITDEngine`, the strategies that use it, the exchange | one action per frame read; callbacks cut after the frame they write |
| `Positions` | `PosHandler` and `FeeHandler` for one ticker, beside a ledger of lots | one action per kind of fill |
| `MDEngine` | `IMDEngine` and `MDEngineCTP` | one action per piece of the listening thread between two waits, per frame, and per callback |
| `TDLogin` | the logins of `TDEngineCTP` with several accounts | as `MDEngine`; a callback is cut where another callback thread can be seen |
| `StrategyLoop` | `WCDataWrapper::run`, `JournalReader::getNextFrame`, the callback heap, bars | one action per frame, per journal looked at, per callback |
| `MCPageDeath` | one schedule of `PageEngine` | the order of its steps |
| `MCPageEngine`, `MCPageService`, `MCJournal`, `MCTradeEngine`, `MCPositions`, `MCMDEngine`, `MCTDLogin`, `MCStrategyLoop` | TLC instances | |
| `PageEngineProofs`, `PageServiceProofs`, `JournalProofs`, `TradeEngineProofs`, `PositionsProofs`, `MDEngineProofs`, `TDLoginProofs`, `StrategyLoopProofs` | theorems about the modules of these names | TLAPS |

The modules do not share variables. `PageEngine` is composed of `PageStore`,
`TradeEngine` of `OrderTable` and several strategies and an exchange; the others
meet in what one takes for granted of the other: `PageEngine` takes from
`Journal` that PAGE_END ends a page, `Journal` from `PageEngine` that a page it
asks for is there, `StrategyLoop` from `Journal` that a journal is a sequence of
frames, `TradeEngine` from `TDLogin` that references are fresh after a login and
from `StrategyLoop` the order in which it reads.

### PageEngine

A key `<<journal, page>>` stands for folder, name and page number, which is what
`PageCommMsg::operator<` compares. A count of 0 stands for an absent key.
`store.files` is the disk. `usr[s]` is the `Journal` object that uses slot `s`,
in which `call` is the place where its client waits (`fill`: has its slot but has
not filled it; `list`: before or after it listed the page files; `seek`, `next`,
`expire`: spins in `getPage`).
One turn of `start_comm` is three actions: the unlocked look at the status
(`CommScan`), and the critical section up to its first store, of the status
(`CommServe`, `PageEngine.cpp:510`), and from there, the store of `last_page_num`
(`CommRemember`, `:511`). Between the two the client, which spins without the
mutex, may go on and put its next request into the slot; nobody else may take the
mutex (`MutexFree`). Which slot the round robin is at is left open in `CommScan`;
that it comes round is in `FairSpec`. `overtaken` is a history variable: the pages
whose writer asked for its next one between the two stores. `last_page_num` then
names the new page, the old one is never released, and its writer count stays:
`fileWriterCounts`, which `PageEngine.h:83` calls the number of writers, then counts
a writer that has gone on, and refuses every other one for good.

Requests for a slot (`regMsgs`) and exit requests (`exitMsgs`) wait in the socket:
the process that wrote one may die, be forgotten by the pid check and come back
before the service handles it. `reg_journal` names the client only, marks the first
RAW slot OCCUPIED, and then looks the client up. Its three outcomes are
`RegJournal`, `RegJournalUnknown` (the slot is not given back) and `RegJournalFull`.
`handle_accept` answers at the end with a `write` that throws if the requester is
gone; no function up to that of the thread catches it, so the process of the
service ends: `serving` becomes false, and no action of the service or request to it
is possible afterwards. So a slot that `RegJournalUnknown` loses is lost together with
the service: a process that runs is in the map.
`inited` and `ended` say which pages have an initialised header and a PAGE_END
frame, all that a reader needs to know about a page here.
Messages that `login_td`, `sub_md`, `register_strategy` and `exit_client` write
to the system journal do not change this state; the writes are in `PageService`.

### PageService

What the requests do to the tables is left out: a request is a reason to hold the
mutex and perhaps to write. The journal is the system journal, `Room` frames to
a page. A write is cut at `LocateFrame` (where it finds its frame, or asks for
the next page), `LoadNextPage` (it has its answer) and `CommitFrame`. Two
threads in a write at the same time is the hazard, so the located frame and the
page asked for are per thread, as the locals of the code are, and the page and
position shared, as the members of `Journal` and `Page` are. A thread that
commits to a page another thread has released, or through a writer that `stop`
destroyed, kills the process (`CrashInWrite`).

### Journal

A page is an array of *cells*: a frame header takes one cell and its data the
cells behind it, which is all of a byte layout that the protocol depends on. The
writer's steps are the stores of `write_frame_full` in their order: the data
(cell by cell, so that a death leaves a frame half copied), the header, the
status of the following frame, the status of the frame itself; and those of
`loadNextPage`: the next page is asked for, its header set, PAGE_END written to
the old one with the count of its frames. A writer that starts again seeks the
end of the last page. A reader seeks a time (the listing of the page files, the
load of the page, the pass to the time are steps of their own), looks at the
status where it is, and takes the frame or moves to the next page.

`log` is a history variable: the frames in the order in which they were marked
WRITTEN. The refinement mapping takes its times for the abstract log, and the number of
its frames before a reader's place for what the reader has had; every step is then
an append, the question for a time, an attach, a delivery, a detach or a stutter of
`JournalLog`. There a reader asks for a time (`asked`) and is then put before the
first frame that is not earlier, so the search through pages and frames is checked
and not only what is read after it. The search has a gap: `GetPageNumWithTime`
takes a page that has a file but no header yet, with start_nano 0, for one that is
early enough. A reader that chose such a page is `late` (history variable `rlate`)
and may begin at any later time; what it gets from there on is in order and
complete. The comment at `PageUtil.h:62` ("select page number from existing pages
in directory which contains the nano time") promises more than that.

### OrderTable and TradeEngine

`OrderTable` keeps the open addressing of `TDUserStruct`: a table is searched
from the home cell of an id round to it again; a cell can be taken as soon as
its order is no longer existing, so a finished order may be overwritten and the
search does not stop at free cells. `key` tells the user's table (by order id)
from the engine's (by local id).

`TradeEngine` has the listening thread (`AddClient`, `RemoveClient`, `PosSet`,
`SwitchDay`, `ReqOrderInsert`, `ReqOrderAction`, `EngineOpen`), the callback
thread (`OnRtnOrder` and `OnRtnTrade` up to the frame they write, then
`RtnOrderDone` and `RtnTradeDone`; `OnRspOrderInsert`; `OnFrontDisconnected`),
the strategies (`Start` is registration and `pre_run`, `End` a good-bye or a
death that the page service noticed) and, as their environment, the exchange. A
reader's journals are merged by time, so what is written for a reader is one
queue (`feed` for the engine, `inbox` for a strategy); a trade is published only
to the strategies that would take it for their own. Order returns are not queued
for strategies, which only hand them to their callbacks. A position is the set
of trades it has counted, since what the two sides must agree on is which trades
they saw, not the arithmetic of `PosHandler`. `run` numbers the runs of a
strategy; the code has nothing like it, and the properties need it to tell whose
order it was.

Simplified: one account; an order is filled as a whole; the login is one step
(`TDLogin` has it in full); `on_engine_close` is not modelled (to the tables it
is a disconnection). Strategies keep to `AVAILABLE_ORDER_LIMIT` open orders and
to one window of ids (`rid_end` itself, which `WCDataWrapper::run` does not
listen to, is not used). A call of `ReqOrderInsert` that the vendor's api refuses is only
logged by the code (the cell stays existing) and is not modelled; `remove_client` is
one step against the callback thread.

### Positions

`total`, `yestd` and `costs` are the arrays of `PosHandler`, for one ticker:
tickers only share `is_poisoned`. The fee of a fill is its volume times a
multiplier; prices, contract multipliers, the minimum fee and balances are left out.
A row that is added (`AddPos`) is a possible position, which the code does not ask
for. Fills are
not restricted to legal ones, since the code takes what it is told. Beside the
code runs a *ledger*: `old` and `new` lots, opened before the last day switch and
since, and what was `paid` with the multipliers that were agreed (`setup`). The
exchange takes old lots first (the comment "first open first close" in
`future_update` claims the same of the code). `legal` says that every fill found
its lots, `split` where one fill took old and new lots at once.

The code then takes the whole fill from today, because it compares the old lots
with the whole volume: with one old and one new lot, closing two leaves one lot
of yesterday and none in all, and poisons the handler. `LotsAgree` and
`FeesAgree` hold up to there and say so. `Reload` is the round trip through json,
in which `to_json` drops multipliers that repeat and `from_json` fills them up.

### MDEngine

`pc` is where the listening thread is: `idle` reads frames; `connect`, `login`
wait. The counter is `link`, the logins and the logout on their way, and what
the session has subscribed, which dies with the session. A login that is refused,
a front that goes, a wait that ends too soon and a close of the engine count as
faults.

`late` says that the answer to a login came when nobody waited for it: the
engine then is logged in without `pre_run`, "already running" for every later
open, and its history is not subscribed. `inClose` says that a callback came
between `logout` and `release_api`: it can leave the engine logged in, or
connected, with a null `api`, and the next subscription or login kills the
process. `leftOver` are tickers of batches that ended while the engine was logged
out: they stay in `subs_tickers` and are subscribed with the next batch, under
its type. All types are subscribed in the same way here, while `MDEngineCTP` has only
market data and inherits calls that do nothing for the others. The properties hold but for these three, which are what the code does.

### TDLogin

`done[u]` are the steps (`auth`, `login`, `settle`) whose flag is set for an
account; `Needed` the configured ones. The counter is `link`, `session`, the
queue of `answers` of each api, and `maxRef`. Request ids are abstracted to
whether an answer is to the latest request of its step (`fresh`), which is all
that the callbacks test. Each api has a callback thread (`cb`), and
`OnRspUserLogin` moves `local_id` on with a read and a write after it has set
`logged_in`.

What the code does, and the properties name:

* `OnFrontConnected` sets `connected` of the account connected last
  (`curAccountIdx`), whichever front came up. A front that comes up in the middle
  of `release_api` makes an account connected whose api was released; it is then
  never initialised again (`TakenForConnected`).
* A settlement that is confirmed late, or for an account that lost its login to
  the disconnection of another, makes the engine logged in before `local_id` is
  moved on, or two callback threads move it at once (`disturbed`): an order
  reference may then be used twice.
* An answer to a settlement between `logout` and `release_api` sets a flag that
  `release_api` takes back.

An engine whose start failed is opened again here. In the code that depends on a reader
thread that runs, so a process whose very first start fails stays closed; the
premise of `LoggedInAgain` is stated with it.

The inverted test of the error in `OnRspUserLogout` has no effect here: its
request id is never that of an open login.

### StrategyLoop

A journal is the sequence of the times of its frames. A writer stamps a frame
and commits it later, so `log` need not be ordered over journals; `Look` is one
turn of the loop in `getNextFrame`, and frames may turn up between two turns.
`passed` remembers which journals had a frame that was not taken. `cur_nano` is
what `on_time` last got, and `cur_time` may go back when a frame turns up late.

Two bars of one feed are registered in `initialize`, the usual place; the
strategy inserts callbacks in handlers of frames and in other callbacks. A bar is
the sequence of the frames in it. `on_market_bar` gets it from the callback at
its end, and the tick whose arrival makes that callback due is in it already: of
all bars that end at one time at most one holds such a tick (`BarsExact`).
`run` resets `force_stop` and the signal after `pre_run`, so that a stop before
is lost and `terminate` waits for ever (`overwritten`). The place from which the
frames are read is the length of the logs at `pre_run`; the code takes the time
there and seeks it later.

## Runs

| run | bounds | shows |
|---|---|---|
| `EngineClients` | 2 writers of one journal, one of which registers twice, 2 slots, 2 pages, spare page, failing renames, death anywhere but in a page request (370 thousand states) | slots, id windows and pages are exclusive; mapped iff counted; counts have writers, but for pages that were overtaken; freed slots are raw, but for the one that is lost when the service ends; late exits remove nobody else |
| `EngineLive` | 1 writer and 1 reader (2 slots) of two journals, 2 slots, 2 pages, death anywhere, fairness (190 thousand states) | types (no count falls below 0); readers never restart; requests answered, dead clients forgotten |
| `ServiceThreads` | 3 messages, 2 frames a page, 3 pages, 1 request at a time, fairness | no acknowledged message lost unless the caller wrote beside another thread; demands answered and `stop` returns unless the service waits for itself, which is for ever |
| `JournalFrames` | 1 reader, 3 pages of 4 cells, frames of 1 and 2 cells, 3 frames, death at any store, fairness | types (nothing is written past a page); nothing found means nothing there; closed pages are counted; implements `JournalLog` (frames from the time sought on, unless late); readers catch up |
| `TradeOrders` | 2 strategies, 2 windows of 5 ids, 2 starts, 2 orders, 2 cancels, 1 disconnection or day switch, tables of 2 and 7 cells | returns get the id of their order and reach its sender; working orders can be cancelled, only by their sender; both sides count the same trades |
| `PositionsLedger` | 1 ticker, volumes 1 and 2, 4 fills or rows, 4 setups of fees, day switches and reloads without limit | lots and fees agree with the ledger until a fill closes old and new lots at once; not poisoned means possible |
| `MDSubscribe` | 2 types, 2 tickers, 3 batches, 4 faults, fairness | the history is subscribed whenever logged in, and again after faults; nothing else is; no call through null |
| `TDAccounts` | 2 accounts, login and settlement, 3 orders, 3 faults, fairness | flags are sessions; references are fresh; logged in again after faults |
| `StrategyBars` | 2 journals, one of them market data with 2 bars, 2 frames, clock up to 4, 1 callback of the strategy, 1 stop at a time, fairness | callbacks once, in their place, and all of them; bars exact; stop stops |
| `EngineDeath` | 3 writers, 2 journals, 3 registrations of one name, one schedule with deaths in a page request | finding: a page gets two writers |
| `TradeRidReuse` | as `TradeOrders`, strategies start while old orders are open | finding: returns reach the next owner of the request ids |
| `TradeDaySwitch` | as `TradeOrders`, day switch with old cells in the engine's table | finding: returns get the id of an order of the day before |

Bounds. Two slots and two clients are what a slot changing hands needs, and in
`EngineLive` a reader of two journals takes both, so that the writer finds none;
two registrations of one name are what a late exit
request needs, or a request for a slot that is handled for the next process of the
name; two pages are what a page switch needs (the first ended, the second open),
and what a request needs that overtakes the comm thread. `MaxReaders` bounds the
reader count of one page, which the code lets grow without limit when a reader
seeks repeatedly. `MaxGen`, `MaxReaderUsers`, `MaxWrites`, `MaxPages` and
`MaxRequests` bound counters of the environment. In `Journal` three pages give a
page with a page on both sides, and four cells with a headroom of two make a page
end after two, or after three cells, so that pages close with different counts;
`MaxTime` bounds the frames. In `ServiceThreads` two frames a page let a page fill
up behind a frame that is being written. In `TradeOrders` two cells in a user's table make
the ids 0 and 2 of a window collide (a cancel takes an id, too), `MaxStarts` = 2 gives two strategies at the
same time or one that comes back to its slot, and seven cells in the engine's
table are more than the local ids a run uses; `TradeDaySwitch` does not depend
on that number.

In `PositionsLedger` four fills open old and new lots, close across them and go
on from there; volumes above 2 add no case, since a fill is compared with the
lots of one row. In `MDSubscribe` two tickers of two types are what a leftover
needs to be subscribed under the wrong type; four faults are a disconnection in
each phase of a login, or a late login, a close and a login refused. In
`TDAccounts` two accounts are what an overlap of callbacks and a wrong
`curAccountIdx` need; `MaxFaults` = 3 gives a disconnection, a wait that is too
short and a restart. Authentication is a third step of the same form as the
settlement and is left out of the instance (`Needed`), not of the module. In
`StrategyBars` the clock covers a start that may be over, a bar that ends at 3
and one at 4; two frames can be two of one bar, one in each, or one of another
journal that comes late.

`CHECK_DEADLOCK FALSE` everywhere: clients may all be gone, the service may be
stopped, a journal may be idle, and the bounds end the supply of messages and
orders.

What the code does not survive is not checked by the property that excuses it; the
hazards in `PROJECT.json` say so. It is either named in a property, as an escape that
the property spells out (`overtaken`, `serving`, `collided`, `WaitsForItself`, `abandoned`, `split`,
`late` of logins and of readers, `inClose`, `leftOver`, `disturbed`, `TakenForConnected`, `overwritten`, `kept`),
or excluded from a passing run by a constant:

* `DieRequesting = FALSE` in `EngineClients`, for `OneWriterPerPage`,
  `OnlyOvertakenPagesAreLeft` and `UnownedSlotsRaw`.
  `exit_client` releases only a slot that is ALLOCATED, so a writer that dies
  while it waits in `getPage` leaves a writer count behind that nobody takes back.
  And the comm thread may serve the request of a dead process after its slot has
  been freed, or given out again: then a free slot is not RAW, or its new owner
  is refused a page it has not asked for. That page becomes `last_page_num` all
  the same, and is released, for the writer that has it, by the slot's next
  request. `EngineDeath` shows where this leads. Its schedule has 58 steps, which
  is too deep for a search among all others, so `MCPageDeath` gives the order of
  the steps and nothing else: every step is an action of `PageEngine`.
* Readers and deaths in page requests, from `EngineClients`, for `MappedIffCounted`: there
  only writers count. `MappedInvariant` proves it for both sides and any death.
* `RenameOutcomes = {TRUE}` in `EngineLive`, for `ReaderNeverRestarts`: a writer
  that gets no page still ends its old one, after which readers start over from
  page 1. The run has deaths in page requests, the theorem `ReadersGoOn` excludes
  them: with three clients a writer can be refused the next page, as in
  `EngineDeath`.
* `SettledStart` and `CleanSwitch` in `TradeOrders`: a strategy starts when no
  order of it, or of its window, is open (run `TradeRidReuse`), and the day is
  switched when the engine's table has no existing order (run `TradeDaySwitch`).
  `SwitchTradingDay` itself waits until no order is at the exchange: orders are
  good for the day.

## Fairness

The comm thread polls every slot in turn for ever: strong fairness for each slot
in `CommScan` (a slot may be REQUESTING, leave, and be REQUESTING again), weak
fairness for the critical section that follows. The task thread runs the pid check
each period: strong fairness, since the comm thread takes the mutex from it again
and again. All of it holds only while the service runs, and so
`RequestsAnswered` and `DeadAreForgotten` promise no more. In `PageService` a
thread that can take a step takes it; strong fairness for taking the mutex, as a
futex based mutex with threads that sleep between turns gives it. In `Journal`
only readers are fair (weakly): they poll; the writer writes when it likes and
may die. In `MDEngine` and `TDLogin` the
listening thread goes on (its waits end, by their timeouts), callbacks are made
(weak fairness), a front that is down comes up in the end, since the vendor's api
reconnects by itself, and the engine is opened again and again, as the task of
the page service that opens engines at their hours does. In `StrategyLoop` the
data thread and the clock go on; nobody has to write a frame or to call `stop`.
`TradeEngine` has no liveness property: orders may be lost when the
engine is logged out, by design of the counter's topic. No fairness for clients, deaths, requests, or for the wish to write a message.

## Proofs

Eight modules prove, for every value of the constants that satisfies the
assumptions:

`PageEngineProofs`:

* `TypeCorrect`: `Spec => []TypeOK`. The lemmas about `Release` and
  `InitiateStore` (counts stay natural numbers, keys stay keys) come first, then
  one lemma per group of actions.
* `MappedInvariant`: `Spec => []MappedIffCounted`. The two lemmas that carry it
  say that `Release` and `InitiateStore` preserve `MappedMatches` of any page
  table; the actions only ever change the table through them. A refused second
  writer is the delicate case: its page is mapped without being counted for it,
  but is refused only because it was counted already.
* `SlotsExclusive`: `Spec => []SlotsOwnedOnce`. Not inductive: it needs
  `OwnedNotRaw`, that an owned slot is never RAW, so that a slot that is given
  out is nobody's. The comm thread may answer a slot that was freed meanwhile;
  the answer is never RAW, which only makes the slot unusable, not shared.
* `RidExclusive`: `Spec => []RidWindowsDisjoint`. The windows are those of owned
  slots (`RidInv`), and windows of different slots are disjoint
  (`WindowsApart`, by arithmetic).
* `LeavesForAll`: `Spec => LeavesByItself`, for all constants. The hash code in the
  map is the one of the latest registration, and an exit request with the latest
  hash code comes from a process that no longer runs (`ExitInv`). It needs that
  `NoClient` is no entry of the map (`NoClientAssumption`).
* `FreeSlotsRaw`, `WritersExclusive`, `CountsAreWriters`, under the assumption
  `DieRequesting = FALSE`, with which the request of a slot is always that of its
  owner, who waits for it, and the comm thread serves the request it saw (`UseInv`:
  a slot in use belongs to a process that owns it, its status follows the call of
  its user, a process waits in one call at a time). `FreeSlotsRaw` proves
  `UnownedSlotsRaw`: a process that waits for a slot is in the map and waits for
  nothing else (`PendingInv`), so that only a process that is gone can be unknown
  to `reg_journal`, and the answer to it ends the service. What a writer asks next
  is the page after its own, so what the service releases for it is its own page or
  nothing (`WriterOK`). Then the count of every page is 1 if a slot holds it or it was
  overtaken, and otherwise 0; no two slots hold the same page, and none holds one that
  was overtaken, which therefore is never released (`CountInv`). A slot holds a
  page while it is ALLOCATED and while it asks for the next, unless it asked between
  the two stores of the comm thread. `CountsAreWriters` proves
  `OnlyOvertakenPagesAreLeft` of it. The spare page and failing renames are covered.
* `ReadersGoOn`: `Spec => []ReaderNeverRestarts`, under `DieRequesting = FALSE` and
  `RenameOutcomes = {TRUE}`. What is ended has a next page that is initialised and
  a file, and the reader that goes on asks for one of those (`ReadInv`), so it is
  allocated to it.

`PageServiceProofs`: `AckedIsWritten` is `Spec => []WrittenIfAcked` and
`NeverGetsOut` is `Spec => StuckForEver`. Both rest on `LockInv` (a thread that is
inside its turn holds the mutex; the thread that waits for a page has its request
in the comm buffer), the former on `JournalInv` as well: what was acknowledged is on its
page below the place of every thread that writes, as long as the caller's writes,
which do not take the mutex, met nobody.

`JournalProofs`: for any number of readers, pages and frames, any page size,
headroom and frame lengths up to the headroom,

* `TypesHold`: `Spec => []TypeOK`: no store and no load is beyond a page;
* `NullIsTheEnd`, `ClosedIsCounted`: `Spec => []NullMeansNoMore` and
  `Spec => []ClosedPagesCounted`;
* `JournalIsLog`: `Spec => ImplementsLog`.

They share one inductive invariant (`IInv`), none of the properties being inductive.
Its central notion is a *place*: a page and a cell that divide the log into the
first `k` frames, which end before it, and the others, which begin at it or later
(`At`). The invariant says that the frames are on their pages as the log
has them, in order and without gaps (`FramesWritten`, `FramesOrdered`,
`FramesDense`); that what follows the last frame of a page does not look written
(`EndsClear`, which is why the next entry is reset before a frame is marked); that
start_nano divides the log by time (`StartsDivide`, for the seek); that only the
last page may lack a header, and a page is left either with PAGE_END and its count, or
by a writer that is about to set them or that died (`PagesFollow`, `PagesClosed`,
`PagesLeft`); and that writer and readers stand at places, a seeking reader with
only frames of an earlier time before it (`WriterAtPlace`, `WriterFrame`,
`ReaderAtPlace`). There is a lemma per action; the stores behind the writer's
place share `TailStore`, the steps of readers `ReaderStep`. For the refinement a
place `k` is the abstract index `k + 1` (`PlaceIndex`), and there is a lemma per
action that says which abstract step it is. The bounds `MaxPage` and `MaxTime` are
constants of the theorems like the others.

`TradeEngineProofs`: six theorems in layers, each on the invariants of those
before it.

* `TypesHold`: `Spec => []Typed`, for every variable.
* `OnlyOwnCancelled`: `Spec => CancelsOwn`, for all constants. A cancel goes by the
  reference in a cell of the sender's table. References of the orders at the
  exchange are unique and below `local_id` (`RefInv`); a cell that holds one is of
  that order, with its sender and its request id (`CellRefInv`). That outlives a day
  switch, which sets `local_id` to 1, as nothing is at the exchange or being
  called back then (`SwitchInv`), and a table is loaded before an order of its user
  is read (`LoadedInv`).
* `IdsReachSenders`: `Spec => []RidsReachSender`, if `SettledStart`. The windows of
  running strategies are apart (`WindowInv`), and an order at the exchange or on its
  way to the engine is of the run that has the window of its id, if one has it
  (`RunInv`).
* `ReturnsFindOrders`: `Spec /\ []IdsFit => []ReturnsRouted`, if `CleanSwitch`. As
  long as the local ids of a day are at most the cells of the engine's table,
  the search finds the home cell free, so that every order of the day is in the cell
  of its local id (`TableInv`).
* `WorkingOrdersCancellable`: `Spec /\ []IdsFit => []OrdersCancellable`, under both
  conditions. In a user's table ids do collide; the invariant (`OrdersInv`)
  follows each working order to its cell and says that no other cell of the table
  has its id, and the lemmas about `FirstFrom` say that the search comes round to every
  cell and stops at that one.
* `StrategiesAgree`: `Spec /\ []IdsFit => []PositionsAgree`, under both conditions.
  What a strategy will have counted when it has read its inbox, with the trade that is
  being called back, is what the engine has counted (`AgreeInv`). To follow it
  through ends, new starts and loads it takes what messages of a strategy may be on their way
  and in which order (`AltInv`, `NameInv`, `IdleInv`), that the files hold what was counted
  when their user was removed (`ValueInv`), and when a strategy is ready or sends the
  positions it was given (`ReadyInv`, `PosSetInv`).

`SettledStart` and `CleanSwitch` are conditions the code does not enforce; the
runs `TradeRidReuse` and `TradeDaySwitch` have the violations without them.
`IdsFit` is the other limit of the code: `AVAILABLE_ORDER_LIMIT` is 10000, and after
as many orders on a day the table is searched from cells that hold orders, and the cell
of an order that is over is given to another. In `TradeOrders` it holds of every state
(7 cells; 2 orders, 2 cancels and the cancels of `remove_client` bring `local_id` to 7
at most). `kept`, in
`OrdersCancellable`, is the escape for a user's table that is full: returns lost in an
outage leave cells existing, and `record_order` then drops an order that is sent all
the same.

`PositionsProofs`: the ledger makes the inductive invariant. As long as every
fill was legal, `total = old + new` in every direction, `yestd = old` where no
fill was split since the day switch, and a handler is poisoned only after a
split; from there `HandlerAgreesWithLedger` and `FeesAgreeWithLedger` follow, the
latter with the lemma that `ReadBack` gives the multipliers that were written,
for any multipliers. `NotPoisonedMeansSane` needs no legality: each fill that
leaves an impossible position poisons the handler.

`MDEngineProofs`: `HistoryIsSubscribed` rests on the fact that a session is
empty without a link, that what the listening thread does between the end of a
wait and `idle` either ends in `pre_run` or leaves the engine logged out, and
that a login in between is `late`. `NullIsNotCalled` rests on: a null api has
neither flag set unless a callback came in `release`.

`TDLoginProofs`: `FlagsHaveSessions`, by the strengthening that a fresh answer to
a login in the queue is of the open session (a new session outdates it), and that
one to a settlement is of some session. `ReferencesStayFresh` is
`Spec => []RefsFresh`: as long as nothing has disturbed it, `local_id` is beyond
every reference when the engine counts as logged in, or a callback thread is just moving it
on. The invariant (`RefsInv`) follows the answers in each queue: there is none to a
login while the account is flagged as logged in, only the last of them may be fresh,
and that one tells a reference beyond all that were used (`LoginAnswers`). And
undisturbed, a settled account is logged in with its callback over, and one
callback at a time moves `local_id` (`Undisturbed`).

`StrategyLoopProofs`: `CallbacksRunOnce`, by the strengthening that a callback
inserted while another runs is later than `cur_nano`, so what is due is on top and
`pop` takes the callback that ran; `FramesComeFirst`, by an invariant about the
journals looked at so far in `getNextFrame` (the earliest frame seen is `best`).
`BarsAreExact`: a bar begins with the first callback of its feed, before which
nothing is in it (`Begun`), and what was sent and what waits are places of the
feed's log up to the reader's (`Dense`). A callback that waits for the end of a bar
is touched by a frame from then or later only in the round of that frame, and
then it is due, and runs before the next (`Rounds`); so there are never two late frames
for one end, in bars that wait and in bars that were sent (`OneLate`).

Every safety property that a passing run checks, invariant or action property, is
the statement of a theorem. Each inductive invariant was checked by TLC on the instance
of its run before it was proved. Checked by TLC only: the properties
under fairness (`RequestsAnswered`, `DeadAreForgotten`, `DemandsAnsweredOrStuck`,
`StopReturns`, `ReadersCatchUp`, `SubscribedAgain`, `LoggedInAgain`, `CallbacksRun`,
`StopEnds`), since the prover has no support for `ENABLED` here. No recursive
definition is proved about: the modules have none.

## Not modelled

* Between the two stores of `getPage` (`PageProvider.cpp:124`) a process does not die:
  `AskPage` is one step. A death there leaves the slot ALLOCATED with the number of a
  page its client was not given, and `exit_client` releases that page.
* The stores of one critical section, but for the two of `start_comm` that a client
  sees: `initiate_page` up to the status is one step, as is the check and the filling
  of a slot in `register_journal`.
* Requests to register a client or a strategy are handled in the step in which they
  are sent. A process that dies in between ends the service in the same way as one
  that waits for a slot; the tables are then of no use to anybody. A client that finds no
  service at all throws, and is left to `Die`.
* A restart of the page service under live clients, which keep slot numbers that
  the new service gives to others: the code has no protocol for it.
* When the events of `PstKfController` are due, over midnight and after a late
  start of the service; its writes are in `PageService`.
* The counters other than CTP: XTP logs in synchronously, and the engines of the
  crypto exchanges poll or follow a websocket, each in its own way, with most of
  their lines in the conversion of json.
* Several trade engines for one strategy, the last id of a window, position
  requests.
* Callbacks that are inserted from a data handler by `register_bar_md`: the
  code that looks which bars are over compares with the time of the last frame;
  it is modelled where strategies call it, in `initialize`.
* The finder, the Python layer, tools, logging, the exchange helpers, order books
  of the crypto feeds and white lists: sequential tables or pure input and output.

Most of the repository's lines are vendored (json, rapidjson, libwebsockets, the
vendors' headers) or generated; its own C++ has about 15,000 lines, of which half
are conversions of message fields and the crypto engines. `PROJECT.json` covers
what of it is protocol, and therefore a small share of the whole.

## Plan

1. Theorems: the parts of the liveness arguments that are safety, such as that a
   step of the comm thread for a slot stays possible until it is taken.
2. `TradeEngine` with the positions of `Positions` instead of sets of trades.
3. `KfController`; a restart of the page service.
4. `MDEngine` and `TDLogin` with XTP.
