---------------------------- MODULE TradeEngine ----------------------------
(***************************************************************************)
(* A trade engine (ITDEngine), the strategies that trade through it and,   *)
(* as their environment, the page service and the exchange.  The engine    *)
(* has two threads: the listening thread reads the system journal and the  *)
(* journals of its clients, one frame a step; the callback thread of the   *)
(* counter hands in returns, and is cut after the frame it writes.         *)
(*                                                                         *)
(* A reader merges its journals in the order of time, so what is written   *)
(* for a reader is one queue.  A position is the set of trades it counts.  *)
(* All clients use one account; an order is filled as a whole.             *)
(***************************************************************************)
EXTENDS OrderTable, Sequences

CONSTANTS
  Names,         \* strategy names
  Configured,    \* those the configuration of the account lists
  HasDefault,    \* is there a default account (default_account_index >= 0)?
  NoName,        \* "" of RidClientManager::get
  Windows,       \* request id windows; the slots of the page service that strategies may get
  RidRange,      \* REQUEST_ID_RANGE
  UserLimit,     \* AVAILABLE_ORDER_LIMIT
  EngineLimit,   \* TD_AVAILABLE_ORDER_LIMIT
  MaxStarts,     \* bound: starts of strategies
  MaxOrders,     \* bound: orders in all
  MaxCancels,    \* bound: cancel requests
  MaxEvents,     \* bound: day switches and disconnections together
  SettledStart,  \* do strategies start only after the orders of earlier ones are settled?
  CleanSwitch    \* is the day switched only when the engine's table has no existing order?

ASSUME TradeEngineAssumption ==
  /\ Configured \subseteq Names /\ NoName \notin Names
  /\ Windows \subseteq Nat \ {0}
  /\ RidRange \in Nat \ {0} /\ UserLimit \in Nat \ {0} /\ EngineLimit \in Nat \ {0}
  /\ {MaxStarts, MaxOrders, MaxCancels, MaxEvents} \subseteq Nat
  /\ {HasDefault, SettledStart, CleanSwitch} \subseteq BOOLEAN

VARIABLES
  up, run, window, curRid,  \* strategy: is it there, its runs so far, rid_start, next id
  tds,                      \* strategy: connection status of the engine
  internalPos,              \* strategy: internal_pos
  inbox,                    \* strategy: frames it has not read
  feed,                     \* frames for the engine that it has not read
  clients,                  \* engine: "unknown", "known" (is_alive = false) or "alive"
  ridManager,               \* engine: window -> name
  user,                     \* engine: the user's order table, if it is loaded
  stored,                   \* the position in the user's file
  pos,                      \* engine: pos_handler of a client
  table,                    \* engine: its own order table (td_helper)
  localId, loggedIn,        \* engine: local_id, is_logged_in()
  callback,                 \* callback thread: the return it is handling
  market,                   \* exchange: orders it has and has not finished
  maxRef,                   \* exchange: highest OrderRef it has seen
  starts, orders, cancels, events  \* how often these happened

strategyVars == <<up, run, window, curRid, tds, internalPos>>
engineVars == <<clients, ridManager, user, stored, pos, table, localId>>
marketVars == <<market, maxRef>>
bounds == <<starts, orders, cancels, events>>
vars == <<strategyVars, inbox, feed, engineVars, loggedIn, callback, marketVars, bounds>>

NoPos == [ok |-> FALSE, trades |-> {}]
Counting(p, trade) == [p EXCEPT !.trades = @ \cup {trade}]
NoTable == [loaded |-> FALSE, orders |-> EmptyTable(UserLimit)]
NoCall == [call |-> "none"]

RidStart(w) == w * RidRange
WindowOf(rid) == rid \div RidRange
NameOf(rid) == IF WindowOf(rid) \in Windows THEN ridManager[WindowOf(rid)] ELSE NoName

Init ==
  /\ up = [c \in Names |-> FALSE] /\ run = [c \in Names |-> 0]
  /\ window = [c \in Names |-> 0] /\ curRid = [c \in Names |-> 0]
  /\ tds = [c \in Names |-> "none"] /\ internalPos = [c \in Names |-> NoPos]
  /\ inbox = [c \in Names |-> <<>>] /\ feed = <<>>
  /\ clients = [c \in Names |-> IF c \in Configured THEN "known" ELSE "unknown"]
  /\ ridManager = [w \in Windows |-> NoName]
  /\ user = [c \in Names |-> NoTable]
  /\ stored = [c \in Names |-> NoPos] /\ pos = [c \in Names |-> NoPos]
  /\ table = EmptyTable(EngineLimit) /\ localId = 1 /\ loggedIn = TRUE
  /\ callback = NoCall
  /\ market = {} /\ maxRef = 0
  /\ starts = 0 /\ orders = 0 /\ cancels = 0 /\ events = 0

-----------------------------------------------------------------------------
(* Strategies.                                                             *)

Tell(frame) == feed' = Append(feed, frame)
OrderFrames(fr) == {fr[i] : i \in {j \in DOMAIN fr : fr[j].type = "order"}}

(* Nothing of strategy c, or of the window w, is under way. *)
Settled(c, w) ==
  \A o \in market \cup OrderFrames(feed) \cup (IF callback = NoCall THEN {} ELSE {callback}) :
    o.client # c /\ WindowOf(o.rid) # w

FreeWindows == Windows \ {window[c] : c \in Names}

(* register_strategy (the lowest free slot) and WCDataWrapper::pre_run. *)
Start(c) ==
  /\ ~up[c]
  /\ starts < MaxStarts /\ starts' = starts + 1
  /\ \E w \in FreeWindows :
       /\ \A v \in FreeWindows : w <= v
       /\ SettledStart => Settled(c, w)
       /\ window' = [window EXCEPT ![c] = w]
       /\ Tell([type |-> "login", client |-> c, window |-> w])
  /\ up' = [up EXCEPT ![c] = TRUE] /\ run' = [run EXCEPT ![c] = @ + 1]
  /\ tds' = [tds EXCEPT ![c] = "requested"]
  /\ UNCHANGED <<curRid, internalPos, inbox, engineVars, loggedIn, callback, marketVars,
                 orders, cancels, events>>

(* The strategy leaves or dies, and the page service notices. *)
End(c) ==
  /\ up[c]
  /\ up' = [up EXCEPT ![c] = FALSE] /\ window' = [window EXCEPT ![c] = 0]
  /\ curRid' = [curRid EXCEPT ![c] = 0] /\ tds' = [tds EXCEPT ![c] = "none"]
  /\ internalPos' = [internalPos EXCEPT ![c] = NoPos] /\ inbox' = [inbox EXCEPT ![c] = <<>>]
  /\ Tell([type |-> "end", client |-> c])
  /\ UNCHANGED <<run, engineVars, loggedIn, callback, marketVars, bounds>>

Reads(c, type) ==
  /\ up[c] /\ inbox[c] # <<>> /\ Head(inbox[c]).type = type
  /\ inbox' = [inbox EXCEPT ![c] = Tail(@)]

(* process_td_ack with a position ... *)
AckPos(c) ==
  /\ Reads(c, "ack") /\ tds[c] = "requested" /\ Head(inbox[c]).pos.ok
  /\ internalPos' = [internalPos EXCEPT ![c] = Head(inbox[c]).pos]
  /\ tds' = [tds EXCEPT ![c] = "ack_pos"]
  /\ UNCHANGED <<up, run, window, curRid, feed, engineVars, loggedIn, callback, marketVars, bounds>>

(* ... and without one, where the strategy sets its position back, as the guide asks. *)
AckNone(c) ==
  /\ Reads(c, "ack") /\ tds[c] = "requested" /\ ~Head(inbox[c]).pos.ok
  /\ internalPos' = [internalPos EXCEPT ![c] = [ok |-> TRUE, trades |-> {}]]
  /\ tds' = [tds EXCEPT ![c] = "set_back"]
  /\ Tell([type |-> "pos_set", client |-> c, pos |-> [ok |-> TRUE, trades |-> {}]])
  /\ UNCHANGED <<up, run, window, curRid, engineVars, loggedIn, callback, marketVars, bounds>>

(* An ack that was not waited for, such as that of an earlier run. *)
AckIgnored(c) ==
  /\ Reads(c, "ack") /\ tds[c] # "requested"
  /\ UNCHANGED <<strategyVars, feed, engineVars, loggedIn, callback, marketVars, bounds>>

ReadRtnTrade(c) ==
  /\ Reads(c, "rtn_trade")
  /\ internalPos' = [internalPos EXCEPT ![c] = Counting(@, Head(inbox[c]).of)]
  /\ UNCHANGED <<up, run, window, curRid, tds, feed, engineVars, loggedIn, callback, marketVars, bounds>>

TdIsReady(c) == tds[c] \in {"ack_pos", "set_back"}

(* get_rid; the bound keeps it below rid_end, which the strategy would not listen to. *)
GetRid(c) == (curRid[c] % RidRange) + RidStart(window[c])
TakesRid(c) == curRid[c] < RidRange - 1 /\ curRid' = [curRid EXCEPT ![c] = @ + 1]

Pending(c) == {o \in market \cup OrderFrames(feed) : o.client = c}
              \cup (IF callback = NoCall THEN {} ELSE {callback})

(* A strategy keeps to the number of orders a user can have (AVAILABLE_ORDER_LIMIT). *)
InsertOrder(c) ==
  /\ up[c] /\ TdIsReady(c) /\ TakesRid(c)
  /\ orders < MaxOrders /\ orders' = orders + 1
  /\ Cardinality(Pending(c)) < UserLimit
  /\ Tell([type |-> "order", client |-> c, run |-> run[c], rid |-> GetRid(c)])
  /\ UNCHANGED <<up, run, window, tds, internalPos, inbox, engineVars, loggedIn, callback, marketVars,
                 starts, cancels, events>>

CancelOrder(c, id) ==
  /\ up[c] /\ TdIsReady(c) /\ TakesRid(c)
  /\ cancels < MaxCancels /\ cancels' = cancels + 1
  /\ id \in RidStart(window[c]) .. GetRid(c) - 1
  /\ Tell([type |-> "action", client |-> c, order |-> id])
  /\ UNCHANGED <<up, run, window, tds, internalPos, inbox, engineVars, loggedIn, callback, marketVars,
                 starts, orders, events>>

(* PageEngine::switch_trading_day, when the orders of the day are done; strategies only move positions. *)
SwitchTradingDay ==
  /\ events < MaxEvents /\ events' = events + 1
  /\ market = {} /\ callback = NoCall /\ OrderFrames(feed) = {}
  /\ CleanSwitch => ExistingOrders(table) = {}
  /\ Tell([type |-> "switch"])
  /\ UNCHANGED <<strategyVars, inbox, engineVars, loggedIn, callback, marketVars,
                 starts, orders, cancels>>

-----------------------------------------------------------------------------
(* The listening thread.                                                   *)

Hears(type) == feed # <<>> /\ Head(feed).type = type /\ feed' = Tail(feed)
Msg == Head(feed)

Give(c, frame) == inbox' = IF up[c] THEN [inbox EXCEPT ![c] = Append(@, frame)] ELSE inbox

Load(c) == [user EXCEPT ![c].loaded = TRUE]

(* add_client; the client's journal is read from here on. *)
AddClient ==
  /\ Hears("login")
  /\ LET c == Msg.client
     IN  /\ ridManager' = [ridManager EXCEPT ![Msg.window] = c]
         /\ user' = Load(c)
         /\ IF clients[c] = "unknown" /\ ~HasDefault
            THEN UNCHANGED <<clients, pos, inbox>>
            ELSE /\ clients' = [clients EXCEPT ![c] = "alive"]
                 /\ pos' = IF stored[c].ok THEN [pos EXCEPT ![c] = stored[c]] ELSE pos
                 /\ Give(c, [type |-> "ack", pos |-> stored[c]])
  /\ UNCHANGED <<strategyVars, stored, table, localId, loggedIn, callback, marketVars, bounds>>

(* req_order_action: what the exchange is asked to cancel; CTP takes a local id for each. *)
AskCancel(refs) ==
  /\ market' = {IF o.ref \in refs THEN [o EXCEPT !.cancel = TRUE] ELSE o : o \in market}
  /\ localId' = localId + Cardinality(refs)

(* remove_client: "cancel all pending orders, and clear the memory". *)
RemoveClient ==
  /\ Hears("end")
  /\ LET c == Msg.client
         pending == {LocalId(user[c].orders, id) : id \in ExistingOrders(user[c].orders)}
     IN  IF clients[c] = "unknown"
         THEN UNCHANGED <<clients, stored, pos, user, market, localId>>
         ELSE /\ clients' = [clients EXCEPT ![c] = "known"]
              /\ stored' = IF pos[c].ok THEN [stored EXCEPT ![c] = pos[c]] ELSE stored
              /\ pos' = [pos EXCEPT ![c] = NoPos]
              /\ AskCancel(IF loggedIn THEN pending ELSE {})
              /\ user' = [user EXCEPT ![c] = NoTable]
  /\ UNCHANGED <<strategyVars, inbox, ridManager, table, loggedIn, callback, maxRef, bounds>>

(* Mutant: only the file gets the position. *)
PosSetInFile ==
  /\ Hears("pos_set")
  /\ stored' = [stored EXCEPT ![Msg.client] = Msg.pos] /\ user' = Load(Msg.client)
  /\ UNCHANGED <<strategyVars, inbox, clients, ridManager, pos, table, localId, loggedIn, callback,
                 marketVars, bounds>>

(* MSG_TYPE_STRATEGY_POS_SET *)
PosSet ==
  /\ Hears("pos_set")
  /\ stored' = [stored EXCEPT ![Msg.client] = Msg.pos] /\ user' = Load(Msg.client)
  /\ pos' = [pos EXCEPT ![Msg.client] = Msg.pos]
  /\ UNCHANGED <<strategyVars, inbox, clients, ridManager, table, localId, loggedIn, callback,
                 marketVars, bounds>>

(* MSG_TYPE_SWITCH_TRADING_DAY: td_helper is not switched. *)
SwitchDay ==
  /\ Hears("switch")
  /\ user' = [c \in Names |-> IF user[c].loaded
                              THEN [user[c] EXCEPT !.orders = EmptyTable(UserLimit)] ELSE user[c]]
  /\ localId' = 1
  /\ UNCHANGED <<strategyVars, inbox, clients, ridManager, stored, pos, table, loggedIn, callback,
                 marketVars, bounds>>

Listened == Msg.client \in Names /\ clients[Msg.client] # "unknown"

(* The order that reaches the exchange; "kept" is history: the user's table had a cell for it. *)
NewOrder ==
  [client |-> Msg.client, run |-> Msg.run, rid |-> Msg.rid, ref |-> localId, state |-> "working",
   cancel |-> FALSE, kept |-> LocateWritable(user[Msg.client].orders, Msg.rid) # NoCell]

(* Mutant: the order is recorded after local_id has moved on. *)
InsertAfterIncrement ==
  /\ Hears("order") /\ Listened
  /\ LET c == Msg.client
     IN  IF ~loggedIn THEN UNCHANGED <<user, table, localId, marketVars>>
         ELSE /\ table' = RecordOrder(table, "local_id", Msg.rid, localId + 1)
              /\ user' = [user EXCEPT ![c].orders = RecordOrder(@, "order_id", Msg.rid, localId + 1)]
              /\ localId' = localId + 1
              /\ market' = market \cup {NewOrder}
              /\ maxRef' = IF localId > maxRef THEN localId ELSE maxRef
  /\ UNCHANGED <<strategyVars, inbox, clients, ridManager, stored, pos, loggedIn, callback, bounds>>

(* MSG_TYPE_LF_ORDER: dropped unless the engine is logged in.  The user's table is loaded,   *)
(* because orders are read between the login of a client and its end.                      *)
ReqOrderInsert ==
  /\ Hears("order") /\ Listened
  /\ LET c == Msg.client
     IN  IF ~loggedIn THEN UNCHANGED <<user, table, localId, marketVars>>
         ELSE /\ table' = RecordOrder(table, "local_id", Msg.rid, localId)
              /\ user' = [user EXCEPT ![c].orders = RecordOrder(@, "order_id", Msg.rid, localId)]
              /\ localId' = localId + 1
              /\ market' = market \cup {NewOrder}
              /\ maxRef' = IF localId > maxRef THEN localId ELSE maxRef
  /\ UNCHANGED <<strategyVars, inbox, clients, ridManager, stored, pos, loggedIn, callback, bounds>>

(* MSG_TYPE_LF_ORDER_ACTION: dropped, too, if the user's table does not have the order. *)
ReqOrderAction ==
  /\ Hears("action") /\ Listened
  /\ LET ref == LocalId(user[Msg.client].orders, Msg.order)
     IN  AskCancel(IF loggedIn /\ ref # -1 THEN {ref} ELSE {})
  /\ UNCHANGED <<strategyVars, inbox, clients, ridManager, user, stored, pos, table, loggedIn, callback,
                 maxRef, bounds>>

(* on_engine_open, when it is logged out; OnRspUserLogin moves local_id past the refs of the exchange. *)
EngineOpen ==
  /\ ~loggedIn /\ loggedIn' = TRUE
  /\ localId' = IF maxRef + 1 > localId THEN maxRef + 1 ELSE localId
  /\ UNCHANGED <<strategyVars, inbox, feed, clients, ridManager, user, stored, pos, table, callback,
                 marketVars, bounds>>

Listen ==
  AddClient \/ RemoveClient \/ PosSet \/ SwitchDay \/ ReqOrderInsert \/ ReqOrderAction

-----------------------------------------------------------------------------
(* The callback thread of the counter.                                     *)

(* Mutant: the test is one too wide at the end. *)
OwnAndNext(c, rid) == up[c] /\ RidStart(window[c]) <= rid /\ rid <= RidStart(window[c]) + RidRange

(* WCDataWrapper::run: what a strategy takes for its own. *)
Own(c, rid) == up[c] /\ RidStart(window[c]) <= rid /\ rid < RidStart(window[c]) + RidRange - 1
Publish(frame) ==
  inbox' = [c \in Names |-> IF Own(c, frame.rid) THEN Append(inbox[c], frame) ELSE inbox[c]]

Identity(o) == [client |-> o.client, run |-> o.run, rid |-> o.rid]
Rid(o) == OrderId(table, o.ref)

(* on_rtn_order finds the request id and writes the frame ... *)
OnRtnOrder(o, status) ==
  /\ callback = NoCall /\ loggedIn /\ o.state = "working"
  /\ callback' = [call |-> "order", rid |-> Rid(o), ref |-> o.ref, status |-> status,
                  client |-> o.client, run |-> o.run]
  /\ market' = (market \ {o}) \cup (IF status = "traded" THEN {[o EXCEPT !.state = "traded"]} ELSE {})
  /\ UNCHANGED <<strategyVars, inbox, feed, engineVars, loggedIn, maxRef, bounds>>

StatusOf(rid, status) ==
  LET c == NameOf(rid)
  IN  IF c = NoName THEN user
      ELSE [user EXCEPT ![c].orders = SetOrderStatus(@, "order_id", rid, status)]

(* ... then marks the order in both tables. *)
RtnOrderDone ==
  /\ callback.call = "order"
  /\ user' = StatusOf(callback.rid, callback.status)
  /\ table' = SetOrderStatus(table, "local_id", callback.ref, callback.status)
  /\ callback' = NoCall
  /\ UNCHANGED <<strategyVars, inbox, feed, clients, ridManager, stored, pos, localId, loggedIn,
                 marketVars, bounds>>

(* on_rtn_trade, in the same two parts. *)
OnRtnTrade(o) ==
  /\ callback = NoCall /\ loggedIn /\ o.state = "traded"
  /\ Publish([type |-> "rtn_trade", rid |-> Rid(o), of |-> Identity(o)])
  /\ callback' = [call |-> "trade", rid |-> Rid(o), of |-> Identity(o), client |-> o.client, run |-> o.run]
  /\ market' = market \ {o}
  /\ UNCHANGED <<strategyVars, feed, engineVars, loggedIn, maxRef, bounds>>

RtnTradeDone ==
  /\ callback.call = "trade"
  /\ LET c == NameOf(callback.rid)
     IN  pos' = IF c # NoName /\ pos[c].ok THEN [pos EXCEPT ![c] = Counting(@, callback.of)] ELSE pos
  /\ callback' = NoCall
  /\ UNCHANGED <<strategyVars, inbox, feed, clients, ridManager, user, stored, table, localId, loggedIn,
                 marketVars, bounds>>

(* on_rsp_order_insert with an error: the engine's table is not told. *)
OnRspOrderInsert(o) ==
  /\ callback = NoCall /\ loggedIn /\ o.state = "working"
  /\ user' = StatusOf(o.rid, "error")
  /\ market' = market \ {o}
  /\ UNCHANGED <<strategyVars, inbox, feed, clients, ridManager, stored, pos, table, localId, loggedIn,
                 callback, maxRef, bounds>>

(* OnFrontDisconnected *)
OnFrontDisconnected ==
  /\ loggedIn /\ callback = NoCall
  /\ events < MaxEvents /\ events' = events + 1
  /\ loggedIn' = FALSE
  /\ UNCHANGED <<strategyVars, inbox, feed, engineVars, callback, marketVars, starts, orders, cancels>>

(* The private topic is THOST_TERT_QUICK: what happens during an outage is not told later. *)
MissReturn(o) ==
  /\ ~loggedIn
  /\ market' = market \ {o}
  /\ UNCHANGED <<strategyVars, inbox, feed, engineVars, loggedIn, callback, maxRef, bounds>>

Returns(o) ==
  \/ OnRtnOrder(o, "traded") \/ OnRtnOrder(o, "canceled") \/ OnRtnTrade(o) \/ OnRspOrderInsert(o)

Callback == RtnOrderDone \/ RtnTradeDone

-----------------------------------------------------------------------------
Next ==
  \/ \E c \in Names :
       \/ Start(c) \/ End(c) \/ AckPos(c) \/ AckNone(c) \/ AckIgnored(c) \/ ReadRtnTrade(c)
       \/ InsertOrder(c)
       \/ \E w \in Windows : \E k \in 0 .. RidRange - 1 : CancelOrder(c, RidStart(w) + k)
  \/ SwitchTradingDay
  \/ Listen \/ EngineOpen
  \/ \E o \in market : Returns(o) \/ MissReturn(o)
  \/ Callback \/ OnFrontDisconnected

Spec == Init /\ [][Next]_vars

-----------------------------------------------------------------------------
(* Properties.                                                             *)

(***************************************************************************)
(* The return of an order at the exchange, whenever it comes, is given the *)
(* request id of that order.                                               *)
(***************************************************************************)
ReturnsRouted == \A o \in market : Rid(o) = o.rid

(***************************************************************************)
(* As long as its client is there, a working order is found under its      *)
(* request id, so that it can be cancelled, by the client or at its end:   *)
(* unless the user's table was full of orders, of which some may be over,  *)
(* their returns lost in an outage.                                        *)
(***************************************************************************)
OrdersCancellable ==
  \A o \in market :
    o.state = "working" /\ o.kept /\ clients[o.client] = "alive" /\ ridManager[WindowOf(o.rid)] = o.client =>
      /\ LocalId(user[o.client].orders, o.rid) = o.ref
      /\ o.rid \in ExistingOrders(user[o.client].orders)

(***************************************************************************)
(* "rid uniquely identifies an order in the trading system" (the strategy  *)
(* guide): a frame with the request id of an order at the exchange is for  *)
(* the run of the strategy that sent it, if that is still there, and for   *)
(* nobody else.                                                            *)
(***************************************************************************)
RidsReachSender ==
  \A o \in market :
    {c \in Names : Own(c, o.rid)} = {c \in Names : up[c] /\ o.client = c /\ o.run = run[c]}

(* Only the strategy that sent an order, or its end, has it cancelled. *)
CancelsOwn ==
  [][\A o \in market : \A p \in market' :
       o.ref = p.ref /\ ~o.cancel /\ p.cancel =>
         /\ feed # <<>> /\ Msg.client = o.client
         /\ Msg.type = "action" => Msg.order = o.rid]_vars

(* When nothing is under way between them, engine and strategy count the same trades. *)
PositionsAgree ==
  \A c \in Names :
    /\ up[c] /\ TdIsReady(c) /\ inbox[c] = <<>> /\ callback.call # "trade"
    /\ \A i \in DOMAIN feed : feed[i].type \in {"order", "action"}
    => internalPos[c] = pos[c]
=============================================================================
