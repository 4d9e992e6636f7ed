------------------------- MODULE TradeEngineProofs -------------------------
(***************************************************************************)
(* What holds of TradeEngine for every number of strategies, windows,      *)
(* orders and cells.                                                       *)
(***************************************************************************)
EXTENDS TradeEngine, FiniteSetTheorems, WellFoundedInduction, TLAPS

-----------------------------------------------------------------------------
(* Arithmetic.                                                             *)

LEMMA Constants ==
  /\ \A w \in Windows : w \in Nat \ {0}
  /\ RidRange \in Nat \ {0} /\ UserLimit \in Nat \ {0} /\ EngineLimit \in Nat \ {0}
  /\ NoName \notin Names
BY TradeEngineAssumption

LEMMA Remainder ==
  ASSUME NEW n \in Nat \ {0}, NEW a \in Int
  PROVE  a % n \in 0 .. n - 1 /\ a \div n \in Int /\ a = n * (a \div n) + (a % n)
OBVIOUS

LEMMA RemainderUnique ==
  ASSUME NEW n \in Nat \ {0}, NEW q \in Int, NEW r \in 0 .. n - 1
  PROVE  (n * q + r) % n = r /\ (n * q + r) \div n = q
OBVIOUS

LEMMA Smallest == ASSUME NEW S \in SUBSET Nat, S # {} PROVE \E m \in S : \A x \in S : m <= x
<1>1. PICK m \in S : \A x \in S : <<x, m>> \notin OpToRel(<, Nat)
  BY NatLessThanWellFounded, WFMin, Zenon
<1>2. \A x, y \in Nat : x < y => <<x, y>> \in OpToRel(<, Nat)
  BY SMT DEF OpToRel
<1>3. ASSUME NEW x \in S PROVE m <= x
  <2>1. ~(x < m)
    BY <1>1, <1>2, <1>3, Zenon
  <2>2. QED
    BY ONLY <2>1, <1>3, S \in SUBSET Nat, m \in S
<1>4. QED
  BY <1>3

-----------------------------------------------------------------------------
(* The search in a table of n cells.                                       *)

Status == {"raw", "inserted", "traded", "canceled", "error"}
Order == [order_id : Int, local_id : Int, status : Status]
Table(n) == [0 .. n - 1 -> Order]

LEMMA CellCount ==
  ASSUME NEW n \in Nat \ {0}, NEW t \in Table(n)
  PROVE  DOMAIN t = 0 .. n - 1 /\ Cardinality(DOMAIN t) = n
BY FS_Interval DEF Table

(* The search comes round to every cell. *)
LEMMA ProbeReaches ==
  ASSUME NEW n \in Nat \ {0}, NEW id \in Int, NEW i \in 0 .. n - 1
  PROVE  \E k \in 0 .. n - 1 : (id + k) % n = i
<1> DEFINE a == i - id
           k == a % n
           q == a \div n
<1>1. a \in Int
  OBVIOUS
<1>2. k \in 0 .. n - 1 /\ q \in Int /\ a = n * q + k
  BY <1>1, Remainder
<1>3. -q \in Int
  BY <1>2
<1> HIDE DEF k, q
<1>4. id + k = n * (-q) + i
  <2>1. n * (-q) = -(n * q)
    BY <1>2
  <2>2. QED
    BY <1>1, <1>2, <2>1
<1>5. (n * (-q) + i) % n = i
  BY <1>3, RemainderUnique
<1>6. QED
  BY <1>2, <1>4, <1>5

LEMMA FirstFromFinds ==
  ASSUME NEW n \in Nat \ {0}, NEW t \in Table(n), NEW id \in Int, NEW cells \in SUBSET (0 .. n - 1)
  PROVE  /\ cells = {} => FirstFrom(t, id, cells) = NoCell
         /\ cells # {} => FirstFrom(t, id, cells) \in cells
         /\ id \in cells => FirstFrom(t, id, cells) = id
<1> DEFINE hits == {k \in 0 .. n - 1 : (id + k) % n \in cells}
           first == CHOOSE k \in hits : \A h \in hits : k <= h
<1>1. FirstFrom(t, id, cells) = IF hits = {} THEN NoCell ELSE (id + first) % n
  <2>1. DOMAIN t = 0 .. n - 1 /\ \A k : Probe(t, id, k) = (id + k) % n
    BY CellCount DEF Probe
  <2> DEFINE found == {k \in DOMAIN t : Probe(t, id, k) \in cells}
  <2>2. found = hits
    BY <2>1
  <2>3. FirstFrom(t, id, cells)
          = IF found = {} THEN NoCell ELSE Probe(t, id, CHOOSE k \in found : \A h \in found : k <= h)
    BY DEF FirstFrom
  <2> HIDE DEF found, hits
  <2>4. QED
    BY <2>1, <2>2, <2>3
<1>2. cells = {} => hits = {}
  OBVIOUS
<1>3. cells # {} => hits # {}
  BY ProbeReaches
<1>4. ASSUME hits # {} PROVE first \in hits /\ \A h \in hits : first <= h
  <2>1. hits \in SUBSET Nat
    OBVIOUS
  <2> HIDE DEF hits
  <2>2. \E m \in hits : \A h \in hits : m <= h
    BY <1>4, <2>1, Smallest
  <2>3. QED
    BY <2>2
<1>5. ASSUME id \in cells PROVE hits # {} /\ first = 0 /\ (id + 0) % n = id
  <2>1. id \in 0 .. n - 1 /\ id + 0 = id /\ id % n = id
    BY <1>5
  <2>2. 0 \in hits
    BY <1>5, <2>1
  <2>3. \A h \in hits : h >= 0 /\ h \in Int
    OBVIOUS
  <2> HIDE DEF hits
  <2>4. first \in hits /\ first <= 0
    BY <1>4, <2>2
  <2> HIDE DEF first
  <2>5. QED
    BY <2>1, <2>2, <2>3, <2>4
<1> HIDE DEF first
<1>6. QED
  BY <1>1, <1>2, <1>3, <1>4, <1>5

LEMMA ReadableFinds ==
  ASSUME NEW n \in Nat \ {0}, NEW t \in Table(n), NEW key \in {"order_id", "local_id"}, NEW id \in Int
  PROVE  LET cell == LocateReadable(t, key, id) IN
           /\ cell = NoCell => \A i \in 0 .. n - 1 : t[i][key] # id
           /\ cell # NoCell => cell \in 0 .. n - 1 /\ t[cell][key] = id
           /\ id \in 0 .. n - 1 /\ t[id][key] = id => cell = id
<1> DEFINE cells == {i \in 0 .. n - 1 : t[i][key] = id}
<1>1. LocateReadable(t, key, id) = FirstFrom(t, id, cells)
  <2>1. {i \in DOMAIN t : t[i][key] = id} = cells
    BY CellCount
  <2>2. QED
    BY <2>1 DEF LocateReadable
<1>2. cells \in SUBSET (0 .. n - 1)
  OBVIOUS
<1>3. \A i \in cells : i \in 0 .. n - 1 /\ t[i][key] = id
  OBVIOUS
<1>4. cells = {} => \A i \in 0 .. n - 1 : t[i][key] # id
  OBVIOUS
<1>5. id \in 0 .. n - 1 /\ t[id][key] = id => id \in cells
  OBVIOUS
<1> HIDE DEF cells
<1>6. NoCell \notin 0 .. n - 1
  BY DEF NoCell
<1>7. /\ cells = {} => FirstFrom(t, id, cells) = NoCell
      /\ cells # {} => FirstFrom(t, id, cells) \in cells
      /\ id \in cells => FirstFrom(t, id, cells) = id
  BY <1>2, FirstFromFinds
<1>8. QED
  BY <1>1, <1>3, <1>4, <1>5, <1>6, <1>7

LEMMA WritableFinds ==
  ASSUME NEW n \in Nat \ {0}, NEW t \in Table(n), NEW id \in Int
  PROVE  LET cell == LocateWritable(t, id) IN
           /\ cell # NoCell => cell \in 0 .. n - 1 /\ ~Existing(t[cell])
           /\ id \in 0 .. n - 1 /\ ~Existing(t[id]) => cell = id
<1> DEFINE cells == {i \in 0 .. n - 1 : ~Existing(t[i])}
<1>1. LocateWritable(t, id) = FirstFrom(t, id, cells)
  <2>1. {i \in DOMAIN t : ~Existing(t[i])} = cells
    BY CellCount
  <2>2. QED
    BY <2>1 DEF LocateWritable
<1>2. cells \in SUBSET (0 .. n - 1)
  OBVIOUS
<1>3. \A i \in cells : i \in 0 .. n - 1 /\ ~Existing(t[i])
  OBVIOUS
<1>4. id \in 0 .. n - 1 /\ ~Existing(t[id]) => id \in cells
  OBVIOUS
<1> HIDE DEF cells
<1>5. /\ cells = {} => FirstFrom(t, id, cells) = NoCell
      /\ cells # {} => FirstFrom(t, id, cells) \in cells
      /\ id \in cells => FirstFrom(t, id, cells) = id
  BY <1>2, FirstFromFinds
<1>6. QED
  BY <1>1, <1>3, <1>4, <1>5

Entry(order, local) == [order_id |-> order, local_id |-> local, status |-> "inserted"]

(* An order is recorded in a cell that is free, or not at all. *)
LEMMA RecordedByOrder ==
  ASSUME NEW n \in Nat \ {0}, NEW t \in Table(n), NEW order \in Int, NEW local \in Int, NEW new,
         new = RecordOrder(t, "order_id", order, local)
  PROVE  \E cell :
           /\ cell = LocateWritable(t, order) /\ new \in Table(n)
           /\ cell = NoCell => new = t
           /\ cell # NoCell => /\ cell \in 0 .. n - 1 /\ ~Existing(t[cell])
                              /\ new[cell] = Entry(order, local)
                              /\ \A i \in 0 .. n - 1 : i # cell => new[i] = t[i]
<1> DEFINE cell == LocateWritable(t, order)
<1>1. cell # NoCell => cell \in 0 .. n - 1 /\ ~Existing(t[cell])
  BY WritableFinds
<1>2. new = IF cell = NoCell THEN t ELSE [t EXCEPT ![cell] = Entry(order, local)]
  BY DEF RecordOrder, Entry
<1> HIDE DEF cell
<1>3. Entry(order, local) \in Order
  BY DEF Order, Status, Entry
<1>4. QED
  BY <1>1, <1>2, <1>3 DEF Table, cell

LEMMA RecordedByRef ==
  ASSUME NEW n \in Nat \ {0}, NEW t \in Table(n), NEW order \in Int, NEW local \in Int, NEW new,
         new = RecordOrder(t, "local_id", order, local)
  PROVE  \E cell :
           /\ cell = LocateWritable(t, local) /\ new \in Table(n)
           /\ cell = NoCell => new = t
           /\ cell # NoCell => /\ cell \in 0 .. n - 1 /\ ~Existing(t[cell])
                              /\ new[cell] = Entry(order, local)
                              /\ \A i \in 0 .. n - 1 : i # cell => new[i] = t[i]
<1> DEFINE cell == LocateWritable(t, local)
<1>1. cell # NoCell => cell \in 0 .. n - 1 /\ ~Existing(t[cell])
  BY WritableFinds
<1>2. new = IF cell = NoCell THEN t ELSE [t EXCEPT ![cell] = Entry(order, local)]
  BY DEF RecordOrder, Entry
<1> HIDE DEF cell
<1>3. Entry(order, local) \in Order
  BY DEF Order, Status, Entry
<1>4. QED
  BY <1>1, <1>2, <1>3 DEF Table, cell

(* A status is set in a cell that has the id, or in none because no cell has it. *)
LEMMA StatusShape ==
  ASSUME NEW n \in Nat \ {0}, NEW t \in Table(n), NEW key \in {"order_id", "local_id"},
         NEW id \in Int, NEW status \in Status
  PROVE  LET new == SetOrderStatus(t, key, id, status) IN
           /\ new \in Table(n)
           /\ \/ new = t /\ \A i \in 0 .. n - 1 : t[i][key] # id
              \/ \E cell \in 0 .. n - 1 : /\ t[cell][key] = id
                                          /\ new = [t EXCEPT ![cell].status = status]
<1> DEFINE cell == LocateReadable(t, key, id)
           new == SetOrderStatus(t, key, id, status)
<1>1. /\ cell = NoCell => \A i \in 0 .. n - 1 : t[i][key] # id
      /\ cell # NoCell => cell \in 0 .. n - 1 /\ t[cell][key] = id
  BY ReadableFinds
<1>2. new = IF cell = NoCell THEN t ELSE [t EXCEPT ![cell].status = status]
  BY DEF SetOrderStatus
<1> HIDE DEF cell
<1>3. \A i \in 0 .. n - 1 : [t EXCEPT ![i].status = status] \in Table(n)
  BY DEF Table, Order
<1>4. QED
  BY <1>1, <1>2, <1>3

LEMMA LocalIdOf ==
  ASSUME NEW n \in Nat \ {0}, NEW t \in Table(n), NEW id \in Int
  PROVE  /\ LocalId(t, id) \in Int
         /\ \/ LocalId(t, id) = -1 /\ \A i \in 0 .. n - 1 : t[i].order_id # id
            \/ \E i \in 0 .. n - 1 : t[i].order_id = id /\ LocalId(t, id) = t[i].local_id
<1> DEFINE cell == LocateReadable(t, "order_id", id)
<1>1. /\ cell = NoCell => \A i \in 0 .. n - 1 : t[i].order_id # id
      /\ cell # NoCell => cell \in 0 .. n - 1 /\ t[cell].order_id = id
  BY ReadableFinds
<1>2. LocalId(t, id) = IF cell = NoCell THEN -1 ELSE t[cell].local_id
  BY DEF LocalId
<1>3. \A i \in 0 .. n - 1 : t[i].local_id \in Int
  BY DEF Table, Order
<1> HIDE DEF cell
<1>4. QED
  BY <1>1, <1>2, <1>3

LEMMA OrderIdOf ==
  ASSUME NEW n \in Nat \ {0}, NEW t \in Table(n), NEW local \in Int
  PROVE  /\ OrderId(t, local) \in Int
         /\ local \in 0 .. n - 1 /\ t[local].local_id = local => OrderId(t, local) = t[local].order_id
<1> DEFINE cell == LocateReadable(t, "local_id", local)
<1>1. /\ cell # NoCell => cell \in 0 .. n - 1
      /\ local \in 0 .. n - 1 /\ t[local].local_id = local => cell = local
  BY ReadableFinds
<1>2. OrderId(t, local) = IF cell = NoCell THEN -1 ELSE t[cell].order_id
  BY DEF OrderId
<1>3. \A i \in 0 .. n - 1 : t[i].order_id \in Int
  BY DEF Table, Order
<1>4. NoCell \notin 0 .. n - 1
  BY DEF NoCell
<1> HIDE DEF cell
<1>5. QED
  BY <1>1, <1>2, <1>3, <1>4

(* The orders that remove_client cancels are finitely many, and each is in a cell. *)
LEMMA PendingFinite ==
  ASSUME NEW n \in Nat \ {0}, NEW t \in Table(n)
  PROVE  /\ IsFiniteSet({LocalId(t, id) : id \in ExistingOrders(t)})
         /\ \A id \in ExistingOrders(t) : \E i \in 0 .. n - 1 : LocalId(t, id) = t[i].local_id
<1> DEFINE cells == {j \in 0 .. n - 1 : Existing(t[j])}
           ids == ExistingOrders(t)
           refs == {LocalId(t, id) : id \in ids}
<1>1. ids = {t[i].order_id : i \in cells}
  BY CellCount DEF ExistingOrders
<1>2. IsFiniteSet(cells)
  BY FS_Interval, FS_Subset, 0 \in Int, n - 1 \in Int
<1>3. [i \in cells |-> t[i].order_id] \in Surjection(cells, ids)
  BY <1>1 DEF Surjection
<1>4. IsFiniteSet(ids)
  BY <1>2, <1>3, FS_Surjection
<1>5. [id \in ids |-> LocalId(t, id)] \in Surjection(ids, refs)
  BY DEF Surjection
<1>6. IsFiniteSet(refs)
  BY <1>4, <1>5, FS_Surjection
<1>7. \A id \in ids : id \in Int /\ \E i \in 0 .. n - 1 : t[i].order_id = id
  BY <1>1 DEF Table, Order
<1>8. \A id \in ids : \E i \in 0 .. n - 1 : LocalId(t, id) = t[i].local_id
  BY <1>7, LocalIdOf
<1>9. QED
  BY <1>6, <1>8

-----------------------------------------------------------------------------
(* Types.                                                                  *)

Empty == [ok |-> TRUE, trades |-> {}]

Identities == [client : Names, run : Nat, rid : Nat]
Position == [ok : BOOLEAN, trades : SUBSET Identities]

FeedFrame ==
  [type : {"login"}, client : Names, window : Windows]
  \cup [type : {"end"}, client : Names]
  \cup [type : {"pos_set"}, client : Names, pos : {Empty}]
  \cup [type : {"order"}, client : Names, run : Nat, rid : Nat]
  \cup [type : {"action"}, client : Names, order : Int]
  \cup [type : {"switch"}]

InboxFrame ==
  [type : {"ack"}, pos : Position] \cup [type : {"rtn_trade"}, rid : Int, of : Identities]

MarketOrder ==
  [client : Names, run : Nat, rid : Nat, ref : Nat, state : {"working", "traded"}, cancel : BOOLEAN, kept : BOOLEAN]

OrderCall ==
  [call : {"order"}, rid : Int, ref : Nat, status : {"traded", "canceled"}, client : Names, run : Nat]
TradeCall == [call : {"trade"}, rid : Int, of : Identities, client : Names, run : Nat]

UserInfo == [loaded : BOOLEAN, orders : Table(UserLimit)]

StrategyTypes ==
  /\ up \in [Names -> BOOLEAN] /\ run \in [Names -> Nat]
  /\ window \in [Names -> Windows \cup {0}] /\ curRid \in [Names -> 0 .. RidRange - 1]
  /\ tds \in [Names -> {"none", "requested", "ack_pos", "set_back"}]
  /\ internalPos \in [Names -> Position]
  /\ inbox \in [Names -> Seq(InboxFrame)]

EngineTypes ==
  /\ clients \in [Names -> {"unknown", "known", "alive"}]
  /\ ridManager \in [Windows -> Names \cup {NoName}]
  /\ user \in [Names -> UserInfo]
  /\ stored \in [Names -> Position] /\ pos \in [Names -> Position]
  /\ table \in Table(EngineLimit) /\ localId \in Nat \ {0} /\ loggedIn \in BOOLEAN

MarketTypes ==
  /\ callback \in {NoCall} \cup OrderCall \cup TradeCall
  /\ market \in SUBSET MarketOrder /\ maxRef \in Nat

Typed == feed \in Seq(FeedFrame) /\ StrategyTypes /\ EngineTypes /\ MarketTypes

LEMMA FrameKinds ==
  ASSUME NEW f \in FeedFrame
  PROVE  /\ f.type \in {"login", "end", "pos_set", "order", "action", "switch"}
         /\ f.type # "switch" => f.client \in Names
         /\ f.type = "login" => f.window \in Windows
         /\ f.type = "pos_set" => f.pos = Empty
         /\ f.type = "order" => f.run \in Nat /\ f.rid \in Nat
         /\ f.type = "action" => f.order \in Int
BY DEF FeedFrame

(* What is told comes last, what is heard was first. *)
LEMMA FeedTold ==
  ASSUME feed \in Seq(FeedFrame), NEW frame \in FeedFrame, Tell(frame)
  PROVE  /\ feed' \in Seq(FeedFrame) /\ Len(feed) \in Nat /\ Len(feed') = Len(feed) + 1
         /\ \A i \in 1 .. Len(feed) : feed'[i] = feed[i]
         /\ feed'[Len(feed) + 1] = frame
BY DEF Tell

LEMMA FeedHeard ==
  ASSUME feed \in Seq(FeedFrame), NEW type, Hears(type)
  PROVE  /\ feed' \in Seq(FeedFrame) /\ Len(feed) \in Nat \ {0} /\ Len(feed') = Len(feed) - 1
         /\ \A i \in 1 .. Len(feed') : feed'[i] = feed[i + 1]
         /\ feed[1] = Msg /\ Msg \in FeedFrame /\ Msg.type = type
BY DEF Hears, Msg

Frames == 1 .. Len(feed)

(* Which frame each handler of the engine hears. *)
LEMMA Heard ==
  ASSUME Typed, Listen
  PROVE  /\ Hears(Msg.type) /\ Msg \in FeedFrame /\ feed[1] = Msg /\ 1 \in Frames
         /\ Msg.type = "login" <=> AddClient
         /\ Msg.type = "switch" <=> SwitchDay
         /\ Msg.type = "end" <=> RemoveClient
         /\ Msg.type = "pos_set" <=> PosSet
         /\ Msg.type = "order" <=> ReqOrderInsert
         /\ Msg.type = "action" <=> ReqOrderAction
<1>1. Hears(Msg.type)
  BY DEF Listen, AddClient, RemoveClient, PosSet, SwitchDay, ReqOrderInsert, ReqOrderAction, Hears, Msg
<1>2. Msg \in FeedFrame /\ feed[1] = Msg /\ 1 \in Frames
  BY <1>1, FeedHeard DEF Typed, Frames
<1>3. /\ AddClient => Msg.type = "login"
      /\ SwitchDay => Msg.type = "switch"
      /\ RemoveClient => Msg.type = "end"
      /\ PosSet => Msg.type = "pos_set"
      /\ ReqOrderInsert => Msg.type = "order"
      /\ ReqOrderAction => Msg.type = "action"
  BY DEF AddClient, RemoveClient, PosSet, SwitchDay, ReqOrderInsert, ReqOrderAction, Hears, Msg
<1>4. QED
  BY <1>1, <1>2, <1>3 DEF Listen

LEMMA InitTyped == Init => Typed
<1> SUFFICES ASSUME Init PROVE Typed
  OBVIOUS
<1> USE TradeEngineAssumption DEF Init
<1>1. \A n \in Nat \ {0} : EmptyTable(n) \in Table(n)
  BY DEF EmptyTable, RawOrder, Table, Order, Status
<1>2. NoPos \in Position
  BY DEF NoPos, Position
<1>3. StrategyTypes
  BY <1>2 DEF StrategyTypes
<1>4. EngineTypes
  BY <1>1, <1>2 DEF EngineTypes, NoTable, UserInfo
<1>5. MarketTypes
  BY DEF MarketTypes
<1>6. QED
  BY <1>3, <1>4, <1>5 DEF Typed

LEMMA CountingTyped ==
  ASSUME NEW p \in Position, NEW trade \in Identities
  PROVE  /\ Counting(p, trade) \in Position
         /\ Counting(p, trade).ok = p.ok /\ Counting(p, trade).trades = p.trades \cup {trade}
BY DEF Counting, Position

LEMMA GetRidTyped == ASSUME Typed, NEW c \in Names PROVE GetRid(c) \in Nat
<1>1. curRid[c] \in 0 .. RidRange - 1 /\ window[c] \in Windows \cup {0}
  BY DEF Typed, StrategyTypes
<1>2. curRid[c] \in Int /\ window[c] \in Nat
  BY ONLY <1>1, Constants
<1>3. curRid[c] % RidRange \in 0 .. RidRange - 1
  BY <1>2, Remainder, Constants
<1>4. window[c] * RidRange \in Nat
  BY <1>2, Constants
<1>5. QED
  BY <1>3, <1>4, Constants DEF GetRid, RidStart

(* The steps of strategies. *)
LEMMA StrategyTyped ==
  ASSUME Typed, NEW c \in Names,
         \/ Start(c) \/ End(c) \/ AckPos(c) \/ AckNone(c) \/ AckIgnored(c) \/ ReadRtnTrade(c)
         \/ InsertOrder(c) \/ \E w \in Windows : \E k \in 0 .. RidRange - 1 : CancelOrder(c, RidStart(w) + k)
  PROVE  Typed'
<1> USE DEF Typed
<1>1. EngineTypes' /\ MarketTypes'
  BY DEF EngineTypes, MarketTypes, Start, End, AckPos, AckNone, AckIgnored, ReadRtnTrade, InsertOrder, CancelOrder,
         engineVars, marketVars
<1>2. NoPos \in Position /\ Empty \in Position
  BY DEF NoPos, Empty, Position
<1>3. CASE Start(c)
  <2>1. PICK w \in Windows : window' = [window EXCEPT ![c] = w] /\ Tell([type |-> "login", client |-> c, window |-> w])
    BY <1>3 DEF Start, FreeWindows
  <2>2. [type |-> "login", client |-> c, window |-> w] \in FeedFrame
    BY DEF FeedFrame
  <2>3. StrategyTypes'
    BY <1>3, <2>1 DEF Start, StrategyTypes
  <2>4. QED
    BY <1>1, <2>1, <2>2, <2>3, FeedTold
<1>4. CASE End(c)
  <2>1. [type |-> "end", client |-> c] \in FeedFrame
    BY DEF FeedFrame
  <2>2. StrategyTypes'
    BY <1>2, <1>4, TradeEngineAssumption DEF End, StrategyTypes
  <2>3. QED
    BY <1>1, <1>4, <2>1, <2>2, FeedTold DEF End
<1>5. ASSUME NEW type, Reads(c, type)
      PROVE  inbox' \in [Names -> Seq(InboxFrame)] /\ Head(inbox[c]) \in InboxFrame /\ Head(inbox[c]).type = type
  BY <1>5 DEF Reads, StrategyTypes
<1>6. \A f \in InboxFrame : /\ f.type = "ack" => f.pos \in Position
                            /\ f.type = "rtn_trade" => f.of \in Identities
  BY DEF InboxFrame
<1>7. CASE AckPos(c)
  <2>1. inbox' \in [Names -> Seq(InboxFrame)] /\ Head(inbox[c]).pos \in Position
    BY <1>5, <1>6, <1>7 DEF AckPos
  <2>2. internalPos' \in [Names -> Position]
    BY <1>7, <2>1 DEF AckPos, StrategyTypes
  <2>3. tds' \in [Names -> {"none", "requested", "ack_pos", "set_back"}]
    BY <1>7 DEF AckPos, StrategyTypes
  <2>4. QED
    BY <1>1, <1>7, <2>1, <2>2, <2>3 DEF AckPos, StrategyTypes
<1>14. CASE AckIgnored(c)
  BY <1>1, <1>5, <1>14 DEF AckIgnored, StrategyTypes, strategyVars
<1>8. CASE AckNone(c)
  <2>1. [type |-> "pos_set", client |-> c, pos |-> Empty] \in FeedFrame
    BY DEF FeedFrame
  <2>2. inbox' \in [Names -> Seq(InboxFrame)]
    BY <1>5, <1>8 DEF AckNone
  <2>3. internalPos' = [internalPos EXCEPT ![c] = Empty]
    BY <1>8 DEF AckNone, Empty
  <2>4. internalPos' \in [Names -> Position]
    BY <1>2, <2>3 DEF StrategyTypes
  <2>5. tds' \in [Names -> {"none", "requested", "ack_pos", "set_back"}]
    BY <1>8 DEF AckNone, StrategyTypes
  <2>6. QED
    BY <1>1, <1>8, <2>1, <2>2, <2>4, <2>5, FeedTold DEF AckNone, Empty, StrategyTypes
<1>9. CASE ReadRtnTrade(c)
  <2>1. internalPos' \in [Names -> Position]
    <3>1. Head(inbox[c]).of \in Identities
      BY <1>5, <1>6, <1>9 DEF ReadRtnTrade
    <3>2. Counting(internalPos[c], Head(inbox[c]).of) \in Position
      BY <3>1, CountingTyped DEF StrategyTypes
    <3>3. QED
      BY <1>9, <3>2 DEF ReadRtnTrade, StrategyTypes
  <2>2. StrategyTypes'
    BY <1>5, <1>9, <2>1 DEF ReadRtnTrade, StrategyTypes
  <2>3. QED
    BY <1>1, <1>9, <2>2 DEF ReadRtnTrade
<1>10. TakesRid(c) => curRid' \in [Names -> 0 .. RidRange - 1]
  BY TradeEngineAssumption DEF TakesRid, StrategyTypes
<1>11. CASE InsertOrder(c)
  <2>1. GetRid(c) \in Nat
    BY GetRidTyped
  <2>2. [type |-> "order", client |-> c, run |-> run[c], rid |-> GetRid(c)] \in FeedFrame
    BY <2>1 DEF FeedFrame, StrategyTypes
  <2>3. StrategyTypes'
    BY <1>10, <1>11 DEF InsertOrder, StrategyTypes
  <2>4. QED
    BY <1>1, <1>11, <2>2, <2>3, FeedTold DEF InsertOrder
<1>12. CASE \E w \in Windows : \E k \in 0 .. RidRange - 1 : CancelOrder(c, RidStart(w) + k)
  <2>1. PICK w \in Windows, k \in 0 .. RidRange - 1 : CancelOrder(c, RidStart(w) + k)
    BY <1>12
  <2>2. RidStart(w) + k \in Int
    <3>1. w \in Nat
      BY TradeEngineAssumption
    <3>2. w * RidRange \in Int
      BY <3>1, TradeEngineAssumption
    <3>3. QED
      BY <3>2 DEF RidStart
  <2>3. [type |-> "action", client |-> c, order |-> RidStart(w) + k] \in FeedFrame
    BY <2>2 DEF FeedFrame
  <2>4. StrategyTypes'
    BY <1>10, <2>1 DEF CancelOrder, StrategyTypes
  <2>5. QED
    BY <1>1, <2>1, <2>3, <2>4, FeedTold DEF CancelOrder
<1>13. QED
  BY <1>3, <1>4, <1>7, <1>8, <1>9, <1>11, <1>12, <1>14

Same(p, o) ==
  p.client = o.client /\ p.run = o.run /\ p.rid = o.rid /\ p.ref = o.ref /\ p.kept = o.kept

(* An order that is asked to be cancelled stays the order it is. *)
LEMMA Asked ==
  ASSUME Typed, NEW refs, IsFiniteSet(refs), AskCancel(refs)
  PROVE  /\ market' \in SUBSET MarketOrder /\ localId' \in Nat \ {0} /\ localId <= localId'
         /\ \A p \in market' : \E o \in market :
              Same(p, o) /\ p.state = o.state /\ (p.cancel => o.cancel \/ o.ref \in refs)
         /\ (\A o, p \in market : o.ref = p.ref => o = p) => (\A o, p \in market' : o.ref = p.ref => o = p)
<1> DEFINE Mark(o) == IF o.ref \in refs THEN [o EXCEPT !.cancel = TRUE] ELSE o
<1>1. market' = {Mark(o) : o \in market} /\ localId' = localId + Cardinality(refs)
  BY DEF AskCancel
<1>2. Cardinality(refs) \in Nat
  BY FS_CardinalityType
<1>3. ASSUME NEW o \in MarketOrder
      PROVE  /\ Mark(o) \in MarketOrder /\ Same(Mark(o), o) /\ Mark(o).state = o.state
             /\ Mark(o).cancel => o.cancel \/ o.ref \in refs
  BY DEF MarketOrder, Same
<1> HIDE DEF Mark
<1>4. market \in SUBSET MarketOrder /\ localId \in Nat \ {0}
  BY DEF Typed, MarketTypes, EngineTypes
<1>5. localId' \in Nat \ {0} /\ localId <= localId'
  BY <1>1, <1>2, <1>4
<1>6. \A p \in market' : \E o \in market : p = Mark(o)
  BY <1>1
<1>7. ASSUME \A o, p \in market : o.ref = p.ref => o = p, NEW o \in market', NEW p \in market', o.ref = p.ref
      PROVE  o = p
  <2>1. PICK a \in market, b \in market : o = Mark(a) /\ p = Mark(b)
    BY <1>6
  <2>2. a.ref = b.ref
    BY <1>3, <1>4, <1>7, <2>1 DEF Same
  <2>3. QED
    BY <1>7, <2>1, <2>2
<1>8. QED
  BY <1>3, <1>4, <1>5, <1>6, <1>7

LEMMA TablesTyped ==
  ASSUME Typed, NEW c \in Names
  PROVE  /\ user[c] \in UserInfo /\ user[c].orders \in Table(UserLimit) /\ table \in Table(EngineLimit)
         /\ NoTable \in UserInfo /\ NoTable.orders = EmptyTable(UserLimit)
         /\ \A t \in Table(UserLimit) : [user EXCEPT ![c].orders = t] \in [Names -> UserInfo]
         /\ Load(c) \in [Names -> UserInfo]
<1>1. user \in [Names -> UserInfo] /\ table \in Table(EngineLimit)
  BY DEF Typed, EngineTypes
<1>2. EmptyTable(UserLimit) \in Table(UserLimit)
  BY Constants DEF EmptyTable, Table, RawOrder, Order, Status
<1>3. user[c] \in UserInfo /\ user[c].orders \in Table(UserLimit)
  BY <1>1 DEF UserInfo
<1>4. NoTable \in UserInfo /\ NoTable.orders = EmptyTable(UserLimit)
  BY <1>2 DEF NoTable, UserInfo
<1>5. \A t \in Table(UserLimit) : [user EXCEPT ![c].orders = t] \in [Names -> UserInfo]
  BY <1>1 DEF UserInfo
<1>6. Load(c) \in [Names -> UserInfo]
  BY <1>1 DEF UserInfo, Load
<1>7. QED
  BY <1>1, <1>3, <1>4, <1>5, <1>6

LEMMA GiveTyped ==
  ASSUME Typed, NEW c \in Names, NEW frame \in InboxFrame, Give(c, frame)
  PROVE  inbox' \in [Names -> Seq(InboxFrame)]
<1>1. inbox \in [Names -> Seq(InboxFrame)]
  BY DEF Typed, StrategyTypes
<1>2. Append(inbox[c], frame) \in Seq(InboxFrame)
  BY <1>1
<1>3. QED
  BY <1>1, <1>2 DEF Give

LEMMA ListenTyped == ASSUME Typed, Listen PROVE Typed'
<1>1. PICK type \in {"login", "end", "pos_set", "switch", "order", "action"} : Hears(type)
  BY DEF Listen, AddClient, RemoveClient, PosSet, SwitchDay, ReqOrderInsert, ReqOrderAction
<1>2. feed' \in Seq(FeedFrame) /\ Msg \in FeedFrame /\ Msg.type = type
  BY <1>1, FeedHeard DEF Typed
<1>3. Msg.type = "switch" \/ Msg.client \in Names
  BY <1>2, FrameKinds
<1>4. UNCHANGED strategyVars
  BY DEF Listen, AddClient, RemoveClient, PosSet, SwitchDay, ReqOrderInsert, ReqOrderAction
<1>5. CASE AddClient
  <2> DEFINE c == Msg.client
  <2>1. c \in Names /\ Msg.window \in Windows
    BY <1>2, <1>5, FrameKinds DEF AddClient, Hears, Msg
  <2>2. ridManager' \in [Windows -> Names \cup {NoName}]
    BY <1>5, <2>1 DEF AddClient, Typed, EngineTypes
  <2>3. user' \in [Names -> UserInfo]
    BY <1>5, <2>1, TablesTyped DEF AddClient
  <2>4. clients' \in [Names -> {"unknown", "known", "alive"}] /\ pos' \in [Names -> Position]
    BY <1>5, <2>1 DEF AddClient, Typed, EngineTypes
  <2>5. inbox' \in [Names -> Seq(InboxFrame)]
    <3>1. [type |-> "ack", pos |-> stored[c]] \in InboxFrame
      BY <2>1 DEF Typed, EngineTypes, InboxFrame
    <3>2. inbox' = inbox \/ Give(c, [type |-> "ack", pos |-> stored[c]])
      BY <1>5 DEF AddClient
    <3>3. QED
      BY <2>1, <3>1, <3>2, GiveTyped DEF Typed, StrategyTypes
  <2>6. StrategyTypes'
    BY <1>4, <2>5 DEF strategyVars, Typed, StrategyTypes
  <2>7. UNCHANGED <<stored, table, localId, loggedIn, callback, market, maxRef>>
    BY <1>5 DEF AddClient, marketVars
  <2>8. EngineTypes' /\ MarketTypes'
    BY <2>2, <2>3, <2>4, <2>7 DEF Typed, EngineTypes, MarketTypes
  <2>9. QED
    BY <1>2, <2>6, <2>8 DEF Typed
<1>6. ~AddClient => UNCHANGED inbox
  BY DEF Listen, RemoveClient, PosSet, SwitchDay, ReqOrderInsert, ReqOrderAction
<1>7. ~AddClient => StrategyTypes'
  BY <1>4, <1>6 DEF Typed, StrategyTypes, strategyVars
<1>8. CASE RemoveClient
  <2> DEFINE c == Msg.client
             pending == {LocalId(user[c].orders, id) : id \in ExistingOrders(user[c].orders)}
             refs == IF loggedIn THEN pending ELSE {}
  <2>1. c \in Names
    BY <1>2, <1>8, FrameKinds DEF RemoveClient, Hears, Msg
  <2>2. IsFiniteSet(refs)
    BY <2>1, TablesTyped, PendingFinite, FS_EmptySet, Constants
  <2>3. /\ clients[c] = "unknown" => UNCHANGED <<clients, stored, pos, user, market, localId>>
        /\ clients[c] # "unknown" =>
             /\ clients' = [clients EXCEPT ![c] = "known"]
             /\ stored' = IF pos[c].ok THEN [stored EXCEPT ![c] = pos[c]] ELSE stored
             /\ pos' = [pos EXCEPT ![c] = NoPos]
             /\ AskCancel(refs)
             /\ user' = [user EXCEPT ![c] = NoTable]
        /\ UNCHANGED <<ridManager, table, loggedIn, callback, maxRef>>
    BY <1>8 DEF RemoveClient
  <2> HIDE DEF refs
  <2>4. market' \in SUBSET MarketOrder /\ localId' \in Nat \ {0}
    BY <2>2, <2>3, Asked DEF Typed, EngineTypes, MarketTypes
  <2>5. user' \in [Names -> UserInfo]
    BY <2>1, <2>3, TablesTyped DEF Typed, EngineTypes
  <2>6. NoPos \in Position
    BY DEF NoPos, Position
  <2>7. /\ clients' \in [Names -> {"unknown", "known", "alive"}]
        /\ stored' \in [Names -> Position] /\ pos' \in [Names -> Position]
    BY <2>1, <2>3, <2>6 DEF Typed, EngineTypes
  <2>8. EngineTypes' /\ MarketTypes'
    BY <2>3, <2>4, <2>5, <2>7 DEF Typed, EngineTypes, MarketTypes
  <2>9. QED
    BY <1>2, <1>5, <1>7, <2>8 DEF Typed
<1>9. CASE PosSet
  <2>1. Msg.client \in Names /\ Msg.pos = Empty
    BY <1>2, <1>9, FrameKinds DEF PosSet, Hears, Msg
  <2>2. Empty \in Position
    BY DEF Empty, Position
  <2>3. stored' \in [Names -> Position] /\ pos' \in [Names -> Position]
    BY <1>9, <2>1, <2>2 DEF PosSet, Typed, EngineTypes
  <2>4. user' \in [Names -> UserInfo]
    BY <1>9, <2>1, TablesTyped DEF PosSet
  <2>5. EngineTypes' /\ MarketTypes'
    BY <1>9, <2>3, <2>4 DEF PosSet, marketVars, Typed, EngineTypes, MarketTypes
  <2>6. QED
    BY <1>2, <1>5, <1>7, <2>5 DEF Typed
<1>10. CASE SwitchDay
  <2>1. user' \in [Names -> UserInfo]
    BY <1>10, TablesTyped DEF SwitchDay, UserInfo, Typed, EngineTypes, NoTable
  <2>2. EngineTypes' /\ MarketTypes'
    BY <1>10, <2>1 DEF SwitchDay, marketVars, Typed, EngineTypes, MarketTypes
  <2>3. QED
    BY <1>2, <1>5, <1>7, <2>2 DEF Typed
<1>11. CASE ReqOrderInsert
  <2>1. Msg.client \in Names /\ Msg.rid \in Nat /\ Msg.run \in Nat /\ localId \in Nat \ {0}
    BY <1>2, <1>11, FrameKinds DEF ReqOrderInsert, Hears, Msg, Typed, EngineTypes
  <2>2. NewOrder \in MarketOrder
    BY <2>1 DEF NewOrder, MarketOrder
  <2> DEFINE new == RecordOrder(user[Msg.client].orders, "order_id", Msg.rid, localId)
  <2>3. RecordOrder(table, "local_id", Msg.rid, localId) \in Table(EngineLimit) /\ new \in Table(UserLimit)
    <3>1. localId \in Int /\ Msg.rid \in Int
      BY <2>1
    <3>2. table \in Table(EngineLimit) /\ user[Msg.client].orders \in Table(UserLimit)
      BY <2>1, TablesTyped
    <3>3. RecordOrder(table, "local_id", Msg.rid, localId) \in Table(EngineLimit)
      BY <3>1, <3>2, RecordedByRef, Constants
    <3>4. new \in Table(UserLimit)
      BY <3>1, <3>2, RecordedByOrder, Constants
    <3>5. QED
      BY <3>3, <3>4
  <2>4. table' \in Table(EngineLimit) /\ localId' \in Nat \ {0}
    BY <1>11, <2>1, <2>3 DEF ReqOrderInsert, Typed, EngineTypes
  <2>5. user' \in [Names -> UserInfo]
    <3>1. user' = user \/ user' = [user EXCEPT ![Msg.client].orders = new]
      BY <1>11 DEF ReqOrderInsert
    <3>2. QED
      BY <2>1, <2>3, <3>1, TablesTyped DEF Typed, EngineTypes
  <2>6. market' \in SUBSET MarketOrder /\ maxRef' \in Nat
    BY <1>11, <2>1, <2>2 DEF ReqOrderInsert, marketVars, Typed, MarketTypes
  <2>7. EngineTypes' /\ MarketTypes'
    BY <1>11, <2>4, <2>5, <2>6 DEF ReqOrderInsert, Typed, EngineTypes, MarketTypes
  <2>8. QED
    BY <1>2, <1>5, <1>7, <2>7 DEF Typed
<1>12. CASE ReqOrderAction
  <2>1. PICK refs : AskCancel(refs) /\ (refs = {} \/ refs = {LocalId(user[Msg.client].orders, Msg.order)})
    BY <1>12 DEF ReqOrderAction
  <2>2. IsFiniteSet(refs)
    <3>1. IsFiniteSet({}) /\ \A x : IsFiniteSet({x})
      BY FS_EmptySet, FS_Singleton
    <3>2. QED
      BY <2>1, <3>1
  <2>3. market' \in SUBSET MarketOrder /\ localId' \in Nat \ {0}
    BY <2>1, <2>2, Asked
  <2>4. EngineTypes' /\ MarketTypes'
    BY <1>12, <2>3 DEF ReqOrderAction, Typed, EngineTypes, MarketTypes
  <2>5. QED
    BY <1>2, <1>5, <1>7, <2>4 DEF Typed
<1>13. QED
  BY <1>5, <1>8, <1>9, <1>10, <1>11, <1>12 DEF Listen

LEMMA NameOfTyped == ASSUME Typed, NEW rid PROVE NameOf(rid) \in Names \cup {NoName}
BY DEF NameOf, Typed, EngineTypes

LEMMA StatusOfTyped ==
  ASSUME Typed, NEW rid \in Int, NEW status \in {"traded", "canceled", "error"}
  PROVE  StatusOf(rid, status) \in [Names -> UserInfo]
<1> DEFINE c == NameOf(rid)
           new == SetOrderStatus(user[c].orders, "order_id", rid, status)
<1>1. CASE c = NoName
  BY <1>1 DEF StatusOf, Typed, EngineTypes
<1>2. CASE c # NoName
  <2>1. c \in Names
    BY <1>2, NameOfTyped
  <2>2. new \in Table(UserLimit)
    BY <2>1, TablesTyped, StatusShape, Constants DEF Status
  <2>3. StatusOf(rid, status) = [user EXCEPT ![c].orders = new]
    BY <1>2 DEF StatusOf
  <2>4. QED
    BY <2>1, <2>2, <2>3, TablesTyped
<1>3. QED
  BY <1>1, <1>2

LEMMA RidTyped ==
  ASSUME Typed, NEW o \in market
  PROVE  /\ o \in MarketOrder /\ o.client \in Names /\ o.run \in Nat /\ o.rid \in Nat /\ o.ref \in Nat
         /\ Identity(o) \in Identities /\ Rid(o) \in Int
<1>1. o \in MarketOrder
  BY DEF Typed, MarketTypes
<1>2. o.client \in Names /\ o.run \in Nat /\ o.rid \in Nat /\ o.ref \in Nat
  BY <1>1 DEF MarketOrder
<1>3. Identity(o) \in Identities
  BY <1>2 DEF Identity, Identities
<1>4. o.ref \in Int /\ table \in Table(EngineLimit)
  BY <1>2 DEF Typed, EngineTypes
<1>5. Rid(o) \in Int
  BY <1>4, OrderIdOf, Constants DEF Rid
<1>6. QED
  BY <1>1, <1>2, <1>3, <1>5

LEMMA PublishTyped ==
  ASSUME Typed, NEW frame \in InboxFrame, Publish(frame)
  PROVE  inbox' \in [Names -> Seq(InboxFrame)]
<1>1. inbox \in [Names -> Seq(InboxFrame)]
  BY DEF Typed, StrategyTypes
<1>2. \A c \in Names : Append(inbox[c], frame) \in Seq(InboxFrame)
  BY <1>1
<1>3. QED
  BY <1>1, <1>2 DEF Publish

LEMMA CallTyped ==
  ASSUME Typed
  PROVE  /\ callback.call = "order" =>
              /\ callback.rid \in Int /\ callback.ref \in Nat /\ callback.status \in {"traded", "canceled"}
              /\ callback.client \in Names /\ callback.run \in Nat
         /\ callback.call = "trade" =>
              /\ callback.rid \in Int /\ callback.of \in Identities
              /\ callback.client \in Names /\ callback.run \in Nat
         /\ callback = NoCall <=> callback.call \notin {"order", "trade"}
BY DEF Typed, MarketTypes, OrderCall, TradeCall, NoCall

LEMMA ReturnTyped ==
  ASSUME Typed, NEW o \in market, Returns(o) \/ MissReturn(o)
  PROVE  Typed'
<1>1. /\ o \in MarketOrder /\ o.client \in Names /\ o.run \in Nat /\ o.rid \in Int /\ o.ref \in Nat
      /\ Identity(o) \in Identities /\ Rid(o) \in Int
  BY RidTyped
<1>2. ASSUME NEW status \in {"traded", "canceled"}, OnRtnOrder(o, status) PROVE Typed'
  <2>1. callback' \in OrderCall
    BY <1>1, <1>2 DEF OnRtnOrder, OrderCall
  <2>2. [o EXCEPT !.state = "traded"] \in MarketOrder
    BY <1>1 DEF MarketOrder
  <2>3. market' \in SUBSET MarketOrder
    BY <1>2, <2>2 DEF OnRtnOrder, Typed, MarketTypes
  <2>4. QED
    BY <1>2, <2>1, <2>3 DEF OnRtnOrder, strategyVars, engineVars, Typed, StrategyTypes, EngineTypes, MarketTypes
<1>3. CASE OnRtnTrade(o)
  <2>1. callback' \in TradeCall
    BY <1>1, <1>3 DEF OnRtnTrade, TradeCall
  <2>2. [type |-> "rtn_trade", rid |-> Rid(o), of |-> Identity(o)] \in InboxFrame
    BY <1>1 DEF InboxFrame
  <2>3. inbox' \in [Names -> Seq(InboxFrame)]
    BY <1>3, <2>2, PublishTyped DEF OnRtnTrade
  <2>4. market' \in SUBSET MarketOrder
    BY <1>3 DEF OnRtnTrade, Typed, MarketTypes
  <2>5. QED
    BY <1>3, <2>1, <2>3, <2>4 DEF OnRtnTrade, strategyVars, engineVars, Typed, StrategyTypes, EngineTypes, MarketTypes
<1>4. CASE OnRspOrderInsert(o)
  <2>1. user' \in [Names -> UserInfo]
    BY <1>1, <1>4, StatusOfTyped DEF OnRspOrderInsert
  <2>2. market' \in SUBSET MarketOrder
    BY <1>4 DEF OnRspOrderInsert, Typed, MarketTypes
  <2>3. QED
    BY <1>4, <2>1, <2>2 DEF OnRspOrderInsert, strategyVars, Typed, StrategyTypes, EngineTypes, MarketTypes
<1>5. CASE MissReturn(o)
  <2>1. market' \in SUBSET MarketOrder
    BY <1>5 DEF MissReturn, Typed, MarketTypes
  <2>2. QED
    BY <1>5, <2>1 DEF MissReturn, strategyVars, engineVars, Typed, StrategyTypes, EngineTypes, MarketTypes
<1>6. QED
  BY <1>2, <1>3, <1>4, <1>5 DEF Returns

LEMMA OtherTyped ==
  ASSUME Typed, SwitchTradingDay \/ EngineOpen \/ Callback \/ OnFrontDisconnected
  PROVE  Typed'
<1>1. CASE SwitchTradingDay
  <2>1. [type |-> "switch"] \in FeedFrame
    BY DEF FeedFrame
  <2>2. feed' \in Seq(FeedFrame)
    BY <1>1, <2>1, FeedTold DEF SwitchTradingDay, Typed
  <2>3. QED
    BY <1>1, <2>2 DEF SwitchTradingDay, strategyVars, engineVars, marketVars, Typed, StrategyTypes, EngineTypes, MarketTypes
<1>2. CASE EngineOpen
  <2>1. localId' \in Nat \ {0}
    BY <1>2 DEF EngineOpen, Typed, EngineTypes, MarketTypes
  <2>2. QED
    BY <1>2, <2>1 DEF EngineOpen, strategyVars, marketVars, Typed, StrategyTypes, EngineTypes, MarketTypes
<1>3. CASE RtnOrderDone
  <2>1. /\ callback.rid \in Int /\ callback.ref \in Int /\ callback.status \in {"traded", "canceled"}
    BY <1>3, CallTyped DEF RtnOrderDone
  <2>2. user' \in [Names -> UserInfo]
    BY <1>3, <2>1, StatusOfTyped DEF RtnOrderDone
  <2>3. table' \in Table(EngineLimit)
    BY <1>3, <2>1, StatusShape, Constants DEF RtnOrderDone, Typed, EngineTypes, Status
  <2>4. QED
    BY <1>3, <2>2, <2>3 DEF RtnOrderDone, strategyVars, marketVars, Typed, StrategyTypes, EngineTypes, MarketTypes
<1>4. CASE RtnTradeDone
  <2>1. callback.rid \in Int /\ callback.of \in Identities
    BY <1>4, CallTyped DEF RtnTradeDone
  <2> DEFINE c == NameOf(callback.rid)
  <2>2. pos' = pos \/ (c \in Names /\ pos' = [pos EXCEPT ![c] = Counting(@, callback.of)])
    BY <1>4, NameOfTyped DEF RtnTradeDone
  <2>3. pos \in [Names -> Position]
    BY DEF Typed, EngineTypes
  <2>4. c \in Names => Counting(pos[c], callback.of) \in Position
    BY <2>1, <2>3, CountingTyped
  <2>5. pos' \in [Names -> Position]
    BY <2>2, <2>3, <2>4
  <2>6. QED
    BY <1>4, <2>5 DEF RtnTradeDone, strategyVars, marketVars, Typed, StrategyTypes, EngineTypes, MarketTypes
<1>5. CASE OnFrontDisconnected
  BY <1>5 DEF OnFrontDisconnected, strategyVars, engineVars, marketVars, Typed, StrategyTypes, EngineTypes, MarketTypes
<1>6. QED
  BY <1>1, <1>2, <1>3, <1>4, <1>5 DEF Callback

(* What strategy c does. *)
Acts(c) ==
  \/ Start(c) \/ End(c) \/ AckPos(c) \/ AckNone(c) \/ AckIgnored(c) \/ ReadRtnTrade(c)
  \/ InsertOrder(c)
  \/ \E w \in Windows : \E k \in 0 .. RidRange - 1 : CancelOrder(c, RidStart(w) + k)

LEMMA NextCases ==
  ASSUME [Next]_vars
  PROVE  \/ \E c \in Names : Acts(c)
         \/ SwitchTradingDay \/ Listen \/ EngineOpen
         \/ \E o \in market : Returns(o) \/ MissReturn(o)
         \/ Callback \/ OnFrontDisconnected
         \/ UNCHANGED vars
BY DEF Next, Acts

(* Strategies write frames, and nothing of the engine or the exchange. *)
LEMMA ActsApart ==
  ASSUME NEW c \in Names, Acts(c) PROVE UNCHANGED <<engineVars, loggedIn, callback, marketVars>>
<1>1. CASE Start(c) \/ End(c)
  BY <1>1 DEF Start, End
<1>2. CASE AckPos(c) \/ AckNone(c) \/ AckIgnored(c)
  BY <1>2 DEF AckPos, AckNone, AckIgnored
<1>3. CASE ReadRtnTrade(c) \/ InsertOrder(c)
  BY <1>3 DEF ReadRtnTrade, InsertOrder
<1>4. ASSUME NEW id, CancelOrder(c, id) PROVE UNCHANGED <<engineVars, loggedIn, callback, marketVars>>
  BY <1>4 DEF CancelOrder
<1>5. QED
  BY <1>1, <1>2, <1>3, <1>4 DEF Acts

(* Of the engine the exchange reaches callbacks and the tables of users. *)
LEMMA ReturnsApart ==
  ASSUME NEW o, Returns(o) \/ MissReturn(o) PROVE UNCHANGED <<clients, ridManager, stored, pos, table, localId>>
<1>1. CASE Returns(o)
  BY <1>1 DEF Returns, OnRtnOrder, OnRtnTrade, OnRspOrderInsert, engineVars
<1>2. CASE MissReturn(o)
  BY <1>2 DEF MissReturn, engineVars
<1>3. QED
  BY <1>1, <1>2

LEMMA OutsideApart ==
  ASSUME SwitchTradingDay \/ OnFrontDisconnected \/ UNCHANGED vars PROVE UNCHANGED <<engineVars, callback, marketVars>>
BY DEF SwitchTradingDay, OnFrontDisconnected, vars

LEMMA TypedStep == Typed /\ [Next]_vars => Typed'
<1> SUFFICES ASSUME Typed, [Next]_vars PROVE Typed'
  OBVIOUS
<1>1. CASE \E c \in Names : Acts(c)
  BY <1>1, StrategyTyped DEF Acts
<1>2. CASE UNCHANGED vars
  BY <1>2 DEF vars, strategyVars, engineVars, marketVars, Typed, StrategyTypes, EngineTypes, MarketTypes
<1>3. QED
  BY <1>1, <1>2, NextCases, ListenTyped, ReturnTyped, OtherTyped

(***************************************************************************)
(* Every variable of the engine (ITDEngine, TDUserInfoHelper), of its      *)
(* strategies (WCDataWrapper) and of the exchange keeps its type, for any  *)
(* numbers of strategies, windows, orders and cells.                       *)
(***************************************************************************)
THEOREM TypesHold == Spec => []Typed
BY InitTyped, TypedStep, PTL DEF Spec

-----------------------------------------------------------------------------
(* The order of frames.  Positions "begun" begin something that positions   *)
(* "over" end; 0 is begun if it is on before the first frame.               *)

Since(begun, over, k) == \E i \in 0 .. k : i \in begun /\ \A j \in i + 1 .. k : j \notin over

LEMMA SinceFirst == ASSUME NEW B, NEW E PROVE Since(B, E, 0) <=> 0 \in B
BY DEF Since

LEMMA SinceSame ==
  ASSUME NEW B, NEW E, NEW B2, NEW E2, NEW k \in Nat,
         \A i \in 0 .. k : (i \in B2 <=> i \in B) /\ (i \in E2 <=> i \in E)
  PROVE  Since(B2, E2, k) <=> Since(B, E, k)
<1>1. \A i \in 0 .. k : \A j \in i + 1 .. k : j \in 0 .. k
  OBVIOUS
<1>2. QED
  BY <1>1 DEF Since

LEMMA SinceNext ==
  ASSUME NEW B, NEW E, NEW n \in Nat
  PROVE  Since(B, E, n + 1) <=> n + 1 \in B \/ (n + 1 \notin E /\ Since(B, E, n))
<1>1. ASSUME n + 1 \in B PROVE Since(B, E, n + 1)
  BY <1>1 DEF Since
<1>2. ASSUME n + 1 \notin E, Since(B, E, n) PROVE Since(B, E, n + 1)
  BY <1>2 DEF Since
<1>3. ASSUME Since(B, E, n + 1), n + 1 \notin B PROVE n + 1 \notin E /\ Since(B, E, n)
  BY <1>3 DEF Since
<1>4. QED
  BY <1>1, <1>2, <1>3

(* After the first frame has been heard. *)
LEMMA SinceHeard ==
  ASSUME NEW B, NEW E, NEW B2, NEW E2, NEW n \in Nat,
         \A i \in 1 .. n : (i \in B2 <=> i + 1 \in B) /\ (i \in E2 <=> i + 1 \in E),
         NEW k \in 0 .. n
  PROVE  /\ (1 \in B \/ (0 \in B /\ 1 \notin E) => 0 \in B2) /\ Since(B, E, k + 1) => Since(B2, E2, k)
         /\ (0 \in B2 => 1 \in B \/ (0 \in B /\ 1 \notin E)) /\ Since(B2, E2, k) => Since(B, E, k + 1)
<1>1. ASSUME 1 \in B \/ (0 \in B /\ 1 \notin E) => 0 \in B2, Since(B, E, k + 1) PROVE Since(B2, E2, k)
  <2>1. PICK i \in 0 .. k + 1 : i \in B /\ \A j \in i + 1 .. k + 1 : j \notin E
    BY <1>1 DEF Since
  <2>2. CASE i > 1
    <3>1. i - 1 \in 1 .. k /\ i = (i - 1) + 1 /\ i - 1 \in 1 .. n
      BY <2>2
    <3>2. \A j \in (i - 1) + 1 .. k : j + 1 \in i + 1 .. k + 1 /\ j \in 1 .. n
      BY <2>2
    <3>3. QED
      BY <2>1, <3>1, <3>2 DEF Since
  <2>3. CASE i = 0 \/ i = 1
    <3>1. 0 \in B2
      <4>1. i = 0 => 1 \in i + 1 .. k + 1
        OBVIOUS
      <4>2. QED
        BY <1>1, <2>1, <2>3, <4>1
    <3>2. \A j \in 1 .. k : j + 1 \in i + 1 .. k + 1 /\ j \in 1 .. n
      BY <2>3
    <3>3. QED
      BY <2>1, <3>1, <3>2 DEF Since
  <2>4. QED
    BY <2>2, <2>3
<1>2. ASSUME 0 \in B2 => 1 \in B \/ (0 \in B /\ 1 \notin E), Since(B2, E2, k) PROVE Since(B, E, k + 1)
  <2>1. PICK i \in 0 .. k : i \in B2 /\ \A j \in i + 1 .. k : j \notin E2
    BY <1>2 DEF Since
  <2>2. ASSUME NEW j \in (i + 1) + 1 .. k + 1 PROVE j \notin E
    <3>1. j - 1 \in i + 1 .. k /\ j - 1 \in 1 .. n /\ j = (j - 1) + 1
      OBVIOUS
    <3>2. QED
      BY <2>1, <3>1
  <2>3. CASE i > 0
    <3>1. i + 1 \in 0 .. k + 1 /\ i \in 1 .. n
      BY <2>3
    <3>2. QED
      BY <2>1, <2>2, <3>1 DEF Since
  <2>4. CASE i = 0 /\ 1 \in B
    BY <2>2, <2>4 DEF Since
  <2>5. CASE i = 0 /\ 0 \in B /\ 1 \notin E
    <3>1. \A j \in 1 .. k + 1 : j = 1 \/ j \in 2 .. k + 1
      OBVIOUS
    <3>2. QED
      BY <2>2, <2>5, <3>1 DEF Since
  <2>6. QED
    BY <1>2, <2>1, <2>3, <2>4, <2>5
<1>3. QED
  BY <1>1, <1>2

-----------------------------------------------------------------------------
(* What a step does to orders, to local_id and to the cells of users.       *)

(* What the exchange is asked to cancel in a step. *)
AskedFor ==
  \E refs :
    /\ AskCancel(refs) /\ IsFiniteSet(refs)
    /\ \A ref \in refs :
         \/ /\ RemoveClient /\ Msg.client \in Names
            /\ \E i \in 0 .. UserLimit - 1 : ref = user[Msg.client].orders[i].local_id
         \/ /\ ReqOrderAction /\ Msg.client \in Names
            /\ \E i \in 0 .. UserLimit - 1 : /\ ref = user[Msg.client].orders[i].local_id
                                             /\ Msg.order = user[Msg.client].orders[i].order_id

LEMMA Asking == ASSUME Typed, RemoveClient \/ ReqOrderAction PROVE AskedFor \/ UNCHANGED <<market, localId>>
<1> DEFINE c == Msg.client
           cells == user[c].orders
           pending == {LocalId(cells, id) : id \in ExistingOrders(cells)}
           ref == LocalId(cells, Msg.order)
<1>1. c \in Names /\ (ReqOrderAction => Msg.order \in Int)
  <2>1. \E type \in {"end", "action"} : Hears(type) /\ (ReqOrderAction => type = "action")
    BY DEF RemoveClient, ReqOrderAction, Hears
  <2>2. QED
    BY <2>1, FeedHeard, FrameKinds DEF Typed
<1>2. cells \in Table(UserLimit)
  BY <1>1, TablesTyped
<1> HIDE DEF cells
<1>3. IsFiniteSet({}) /\ \A x : IsFiniteSet({x})
  BY FS_EmptySet, FS_Singleton
<1>4. /\ IsFiniteSet(pending)
      /\ \A r \in pending : \E i \in 0 .. UserLimit - 1 : r = cells[i].local_id
  <2>1. /\ IsFiniteSet(pending)
        /\ \A id \in ExistingOrders(cells) : \E i \in 0 .. UserLimit - 1 : LocalId(cells, id) = cells[i].local_id
    BY <1>2, PendingFinite, Constants
  <2>2. QED
    BY <2>1
<1>5. CASE RemoveClient
  <2>1. UNCHANGED <<market, localId>> \/ AskCancel(pending) \/ AskCancel({})
    BY <1>5 DEF RemoveClient, cells
  <2> HIDE DEF pending
  <2>2. QED
    BY <1>1, <1>3, <1>4, <1>5, <2>1 DEF AskedFor, cells
<1>6. CASE ReqOrderAction
  <2>1. PICK refs : AskCancel(refs) /\ (refs = {} \/ (refs = {ref} /\ ref # -1))
    BY <1>6 DEF ReqOrderAction, cells
  <2>2. ref # -1 => \E i \in 0 .. UserLimit - 1 : cells[i].order_id = Msg.order /\ ref = cells[i].local_id
    BY <1>1, <1>2, <1>6, LocalIdOf, Constants
  <2> HIDE DEF ref
  <2>3. IsFiniteSet(refs)
    BY <1>3, <2>1
  <2>4. QED
    BY <1>1, <1>6, <2>1, <2>2, <2>3 DEF AskedFor, cells
<1>7. QED
  BY <1>5, <1>6

(* The ways the set of orders at the exchange changes. *)
LEMMA MarketSteps ==
  ASSUME Typed, [Next]_vars
  PROVE  \/ AskedFor /\ ~(ReqOrderInsert /\ loggedIn)
         \/ UNCHANGED localId /\ market' \in SUBSET market
         \/ UNCHANGED localId
            /\ \E o \in market : market' = (market \ {o}) \cup {[o EXCEPT !.state = "traded"]} /\ o.state = "working"
         \/ ReqOrderInsert /\ loggedIn
         \/ SwitchDay /\ UNCHANGED market
         \/ EngineOpen /\ UNCHANGED market

<1>1. CASE Listen
  <2>1. CASE AddClient \/ PosSet
    BY <2>1 DEF AddClient, PosSet, marketVars
  <2>2. CASE RemoveClient \/ ReqOrderAction
    <3>1. ~ReqOrderInsert
      BY <1>1, <2>2, Heard
    <3>2. CASE UNCHANGED <<market, localId>>
      BY <3>2
    <3>3. QED
      BY <2>2, <3>1, <3>2, Asking
  <2>3. CASE SwitchDay
    BY <2>3 DEF SwitchDay, marketVars
  <2>4. CASE ReqOrderInsert
    BY <2>4 DEF ReqOrderInsert, marketVars
  <2>5. QED
    BY <1>1, <2>1, <2>2, <2>3, <2>4 DEF Listen
<1>2. CASE \E o \in market : Returns(o) \/ MissReturn(o)
  <2>1. PICK o \in market : Returns(o) \/ MissReturn(o)
    BY <1>2
  <2>2. ASSUME OnRtnOrder(o, "traded")
        PROVE  UNCHANGED localId /\ market' = (market \ {o}) \cup {[o EXCEPT !.state = "traded"]} /\ o.state = "working"
    BY <2>2 DEF OnRtnOrder, engineVars
  <2>3. ASSUME OnRtnOrder(o, "canceled") \/ OnRtnTrade(o) \/ OnRspOrderInsert(o) \/ MissReturn(o)
        PROVE  UNCHANGED localId /\ market' \in SUBSET market
    BY <2>3 DEF OnRtnOrder, OnRtnTrade, OnRspOrderInsert, MissReturn, engineVars
  <2>4. QED
    BY <2>1, <2>2, <2>3 DEF Returns
<1>3. CASE SwitchTradingDay \/ Callback \/ OnFrontDisconnected \/ UNCHANGED vars
  BY <1>3 DEF SwitchTradingDay, Callback, RtnOrderDone, RtnTradeDone, OnFrontDisconnected, engineVars, marketVars, vars
<1>4. CASE EngineOpen
  BY <1>4 DEF EngineOpen, marketVars
<1>5. CASE \E c \in Names : Acts(c)
  BY <1>5, ActsApart DEF engineVars, marketVars
<1>6. QED
  BY <1>1, <1>2, <1>3, <1>4, <1>5, NextCases

LEMMA MarketShape ==
  ASSUME Typed, [Next]_vars
  PROVE  /\ \A p \in market' :
              \/ \E o \in market : Same(p, o) /\ (p.state = "working" => o.state = "working")
              \/ ReqOrderInsert /\ loggedIn /\ p = NewOrder
         /\ localId <= localId' \/ (SwitchDay /\ localId' = 1)
         /\ ReqOrderInsert /\ loggedIn => localId' = localId + 1
<1>1. localId \in Nat \ {0} /\ maxRef \in Nat /\ \A o \in market : o \in MarketOrder /\ Same(o, o)
  BY DEF Typed, EngineTypes, MarketTypes, Same
<1>2. CASE AskedFor /\ ~(ReqOrderInsert /\ loggedIn)
  <2>1. PICK refs : AskCancel(refs) /\ IsFiniteSet(refs)
    BY <1>2 DEF AskedFor
  <2>2. QED
    BY <1>2, <2>1, Asked
<1>3. CASE UNCHANGED localId /\ market' \in SUBSET market /\ ~(ReqOrderInsert /\ loggedIn)
  BY <1>1, <1>3
<1>4. CASE ReqOrderInsert /\ loggedIn
  BY <1>1, <1>4 DEF ReqOrderInsert
<1>5. CASE UNCHANGED localId /\ ~(ReqOrderInsert /\ loggedIn)
           /\ \E o \in market : market' = (market \ {o}) \cup {[o EXCEPT !.state = "traded"]} /\ o.state = "working"
  <2>1. \A o \in market : Same([o EXCEPT !.state = "traded"], o) /\ [o EXCEPT !.state = "traded"].state = "traded"
    BY <1>1 DEF MarketOrder, Same
  <2>2. QED
    BY <1>1, <1>5, <2>1
<1>6. CASE SwitchDay /\ UNCHANGED market /\ ~(ReqOrderInsert /\ loggedIn)
  BY <1>1, <1>6 DEF SwitchDay
<1>7. CASE EngineOpen /\ UNCHANGED market /\ ~(ReqOrderInsert /\ loggedIn)
  <2>1. localId <= localId'
    BY <1>1, <1>7 DEF EngineOpen
  <2>2. QED
    BY <1>1, <1>7, <2>1
<1>8. QED
  BY <1>2, <1>3, <1>4, <1>5, <1>6, <1>7, MarketSteps

LEMMA UniqueRefs ==
  ASSUME Typed, [Next]_vars, ~(ReqOrderInsert /\ loggedIn), \A o, p \in market : o.ref = p.ref => o = p
  PROVE  \A o, p \in market' : o.ref = p.ref => o = p
<1>1. ASSUME NEW refs, IsFiniteSet(refs), AskCancel(refs) PROVE \A o, p \in market' : o.ref = p.ref => o = p
  BY <1>1, Asked
<1>2. CASE market' \in SUBSET market
  BY <1>2
<1>3. CASE \E o \in market : market' = (market \ {o}) \cup {[o EXCEPT !.state = "traded"]}
  <2>1. PICK o \in market : market' = (market \ {o}) \cup {[o EXCEPT !.state = "traded"]}
    BY <1>3
  <2>2. [o EXCEPT !.state = "traded"].ref = o.ref
    BY DEF Typed, MarketTypes, MarketOrder
  <2>3. QED
    BY <2>1, <2>2
<1>4. AskedFor \/ market' \in SUBSET market \/ \E o \in market : market' = (market \ {o}) \cup {[o EXCEPT !.state = "traded"]}
  BY MarketSteps
<1>5. QED
  BY <1>1, <1>2, <1>3, <1>4 DEF AskedFor

SameCell(x, y) == x.order_id = y.order_id /\ x.local_id = y.local_id

(* A return changes the status of an order with its request id, or nothing. *)
LEMMA StatusOfShape ==
  ASSUME Typed, NEW rid \in Int, NEW status \in {"traded", "canceled", "error"},
         NEW c \in Names, NEW i \in 0 .. UserLimit - 1
  PROVE  /\ StatusOf(rid, status)[c].loaded = user[c].loaded
         /\ SameCell(StatusOf(rid, status)[c].orders[i], user[c].orders[i])
         /\ \/ StatusOf(rid, status)[c].orders[i] = user[c].orders[i]
            \/ user[c].orders[i].order_id = rid /\ c = NameOf(rid)
<1> DEFINE d == NameOf(rid)
           new == SetOrderStatus(user[d].orders, "order_id", rid, status)
<1>1. CASE d = NoName
  BY <1>1 DEF StatusOf, SameCell
<1>2. CASE d # NoName
  <2>1. d \in Names
    BY <1>2, NameOfTyped
  <2>2. StatusOf(rid, status) = [user EXCEPT ![d].orders = new]
    BY <1>2 DEF StatusOf
  <2>3. user \in [Names -> UserInfo] /\ user[d].orders \in Table(UserLimit)
    BY <2>1, TablesTyped DEF Typed, EngineTypes
  <2>4. \/ new = user[d].orders
        \/ \E cell \in 0 .. UserLimit - 1 : /\ user[d].orders[cell].order_id = rid
                                            /\ new = [user[d].orders EXCEPT ![cell].status = status]
    <3> DEFINE t == user[d].orders
               cell == LocateReadable(t, "order_id", rid)
    <3>1. t \in Table(UserLimit)
      BY <2>3
    <3> HIDE DEF t
    <3>2. cell # NoCell => cell \in 0 .. UserLimit - 1 /\ t[cell].order_id = rid
      BY <3>1, ReadableFinds, Constants
    <3>3. SetOrderStatus(t, "order_id", rid, status) = IF cell = NoCell THEN t ELSE [t EXCEPT ![cell].status = status]
      BY DEF SetOrderStatus
    <3> HIDE DEF cell
    <3>4. QED
      BY <3>2, <3>3 DEF t
  <2> DEFINE old == user[d].orders
  <2>5. /\ new[i].order_id = old[i].order_id /\ new[i].local_id = old[i].local_id
        /\ new[i] = old[i] \/ old[i].order_id = rid
    <3> HIDE DEF new, old
    <3>1. CASE new = old
      BY <3>1
    <3>2. ASSUME NEW cell \in 0 .. UserLimit - 1, old[cell].order_id = rid,
                 new = [old EXCEPT ![cell].status = status]
          PROVE  /\ new[i].order_id = old[i].order_id /\ new[i].local_id = old[i].local_id
                 /\ new[i] = old[i] \/ old[i].order_id = rid
      <4>1. old \in Table(UserLimit) /\ old[i] \in Order
        BY <2>3 DEF Table, old
      <4>2. new[i] = IF i = cell THEN [old[i] EXCEPT !.status = status] ELSE old[i]
        BY <3>2, <4>1 DEF Table
      <4>3. QED
        BY <3>2, <4>1, <4>2 DEF Order
    <3>3. QED
      BY <2>4, <3>1, <3>2 DEF old
  <2>6. new[i] = user[d].orders[i] \/ user[d].orders[i].order_id = rid
    BY <2>5
  <2> HIDE DEF new, d
  <2>7. CASE c = d
    BY <2>1, <2>2, <2>3, <2>5, <2>6, <2>7 DEF SameCell, UserInfo, d
  <2>8. CASE c # d
    BY <2>1, <2>2, <2>3, <2>8 DEF SameCell, UserInfo
  <2>9. QED
    BY <2>7, <2>8
<1>3. QED
  BY <1>1, <1>2

NewCell == Entry(Msg.rid, localId)
AllRaw(cells) == \A i \in 0 .. UserLimit - 1 : cells[i] = RawOrder

(* What a step does to the table of user c. *)
UserStep(c) ==
  /\ \A i \in 0 .. UserLimit - 1 :
       \/ SameCell(user'[c].orders[i], user[c].orders[i])
       \/ user'[c].orders[i] = RawOrder
       \/ ReqOrderInsert /\ loggedIn /\ c = Msg.client /\ user'[c].orders[i] = NewCell
  /\ \/ user'[c].loaded = user[c].loaded
     \/ user'[c].loaded = TRUE
     \/ RemoveClient /\ Msg.client = c /\ ~user'[c].loaded /\ AllRaw(user'[c].orders)
  /\ SwitchDay /\ user[c].loaded => AllRaw(user'[c].orders)
  /\ AddClient /\ Msg.client = c => user'[c].loaded

LEMMA RawCells == AllRaw(EmptyTable(UserLimit))
BY DEF AllRaw, EmptyTable

LEMMA UserShape == ASSUME Typed, [Next]_vars, NEW c \in Names PROVE UserStep(c)
<1>1. user \in [Names -> UserInfo] /\ user[c] \in UserInfo /\ user[c].orders \in Table(UserLimit)
  BY TablesTyped DEF Typed, EngineTypes
<1>2. ASSUME UNCHANGED user, ~SwitchDay, ~AddClient PROVE UserStep(c)
  BY <1>2 DEF UserStep, SameCell
<1>3. ASSUME NEW d \in Names, user' = Load(d), ~SwitchDay, AddClient => d = Msg.client PROVE UserStep(c)
  <2>1. /\ user'[c].orders = user[c].orders
        /\ user'[c].loaded = user[c].loaded \/ user'[c].loaded = TRUE
        /\ c = d => user'[c].loaded = TRUE
    BY <1>1, <1>3 DEF Load, UserInfo
  <2>2. QED
    BY <1>3, <2>1 DEF UserStep, SameCell
<1>4. ASSUME NEW rid \in Int, NEW status \in {"traded", "canceled", "error"}, user' = StatusOf(rid, status),
             ~SwitchDay, ~AddClient
      PROVE  UserStep(c)
  <2>1. /\ \A i \in 0 .. UserLimit - 1 : SameCell(user'[c].orders[i], user[c].orders[i])
        /\ 0 \in 0 .. UserLimit - 1 => user'[c].loaded = user[c].loaded
    BY <1>4, StatusOfShape
  <2>2. 0 \in 0 .. UserLimit - 1
    BY Constants
  <2>3. QED
    BY <1>4, <2>1, <2>2 DEF UserStep
<1>5. ASSUME Listen PROVE UserStep(c)
  <2>1. Hears(Msg.type)
    BY <1>5 DEF Listen, AddClient, RemoveClient, PosSet, SwitchDay, ReqOrderInsert, ReqOrderAction, Hears, Msg
  <2>2. Msg.type = "switch" \/ Msg.client \in Names
    BY <2>1, FeedHeard, FrameKinds DEF Typed
  <2>3. /\ AddClient => Msg.type = "login"
        /\ SwitchDay => Msg.type = "switch"
        /\ RemoveClient => Msg.type = "end"
        /\ PosSet => Msg.type = "pos_set"
        /\ ReqOrderInsert => Msg.type = "order"
        /\ ReqOrderAction => Msg.type = "action"
    BY DEF AddClient, RemoveClient, PosSet, SwitchDay, ReqOrderInsert, ReqOrderAction, Hears, Msg
  <2>4. CASE AddClient
    BY <1>3, <2>2, <2>3, <2>4 DEF AddClient
  <2>5. CASE PosSet
    BY <1>3, <2>2, <2>3, <2>5 DEF PosSet
  <2>6. CASE RemoveClient
    <3>1. user' = user \/ user' = [user EXCEPT ![Msg.client] = NoTable]
      BY <2>6 DEF RemoveClient
    <3>2. c = Msg.client /\ user' # user => user'[c] = NoTable
      BY <1>1, <3>1
    <3>3. c # Msg.client => user'[c] = user[c]
      BY <1>1, <3>1
    <3>4. ~NoTable.loaded /\ AllRaw(NoTable.orders)
      BY RawCells DEF NoTable
    <3>5. AllRaw(user'[c].orders) => \A i \in 0 .. UserLimit - 1 : user'[c].orders[i] = RawOrder
      BY DEF AllRaw
    <3>6. CASE user'[c] = user[c]
      BY <2>3, <2>6, <3>6 DEF UserStep, SameCell
    <3>7. CASE user'[c] = NoTable /\ c = Msg.client
      BY <2>3, <2>6, <3>4, <3>5, <3>7 DEF UserStep
    <3>8. QED
      BY <3>2, <3>3, <3>6, <3>7
  <2>7. CASE SwitchDay
    <3>1. user'[c] = IF user[c].loaded THEN [user[c] EXCEPT !.orders = EmptyTable(UserLimit)] ELSE user[c]
      BY <2>7 DEF SwitchDay
    <3>2. CASE user[c].loaded
      <4>1. user'[c].loaded = user[c].loaded /\ AllRaw(user'[c].orders)
        BY <1>1, <3>1, <3>2, RawCells DEF UserInfo
      <4>2. QED
        BY <2>3, <2>7, <4>1 DEF UserStep, AllRaw
    <3>3. CASE ~user[c].loaded
      BY <2>3, <2>7, <3>1, <3>3 DEF UserStep, SameCell
    <3>4. QED
      BY <3>2, <3>3
  <2>8. CASE ReqOrderInsert
    <3> DEFINE d == Msg.client
               new == RecordOrder(user[d].orders, "order_id", Msg.rid, localId)
    <3>1. d \in Names /\ Msg.rid \in Int /\ localId \in Int
      BY <2>1, <2>2, <2>3, <2>8, FeedHeard, FrameKinds DEF Typed, EngineTypes
    <3>2. user' = user \/ (loggedIn /\ user' = [user EXCEPT ![d].orders = new])
      BY <2>8 DEF ReqOrderInsert
    <3>3. \A i \in 0 .. UserLimit - 1 : new[i] = user[d].orders[i] \/ new[i] = NewCell
      <4>1. user[d].orders \in Table(UserLimit)
        BY <3>1, TablesTyped
      <4>2. QED
        BY <3>1, <4>1, RecordedByOrder, Constants DEF NewCell
    <3> HIDE DEF new
    <3>4. CASE user' = user
      BY <2>3, <2>8, <3>4 DEF UserStep, SameCell
    <3>5. CASE loggedIn /\ user' = [user EXCEPT ![d].orders = new]
      <4>1. user'[c].loaded = user[c].loaded
        BY <1>1, <3>1, <3>5 DEF UserInfo
      <4>2. c = d => user'[c].orders = new
        BY <1>1, <3>1, <3>5 DEF UserInfo
      <4>3. c # d => user'[c].orders = user[c].orders
        BY <1>1, <3>1, <3>5 DEF UserInfo
      <4>4. QED
        BY <2>3, <2>8, <3>3, <3>5, <4>1, <4>2, <4>3 DEF UserStep, SameCell
    <3>6. QED
      BY <3>2, <3>4, <3>5
  <2>9. CASE ReqOrderAction
    BY <1>2, <2>3, <2>9 DEF ReqOrderAction
  <2>10. QED
    BY <1>5, <2>4, <2>5, <2>6, <2>7, <2>8, <2>9 DEF Listen
<1>6. AddClient => Listen
  BY DEF Listen
<1>7. SwitchDay => Listen
  BY DEF Listen
<1>8. CASE RtnOrderDone /\ ~Listen
  BY <1>4, <1>6, <1>7, <1>8, CallTyped DEF RtnOrderDone
<1>9. CASE (\E o \in market : OnRspOrderInsert(o)) /\ ~Listen
  <2>1. PICK o \in market : OnRspOrderInsert(o)
    BY <1>9
  <2>2. o.rid \in Int
    BY RidTyped
  <2>3. QED
    BY <1>4, <1>6, <1>7, <1>9, <2>1, <2>2 DEF OnRspOrderInsert
<1>10. UNCHANGED user \/ Listen \/ RtnOrderDone \/ \E o \in market : OnRspOrderInsert(o)
  BY NextCases DEF Acts, Start, End, AckPos, AckNone, AckIgnored, ReadRtnTrade, InsertOrder, CancelOrder,
     SwitchTradingDay, EngineOpen, Returns, OnRtnOrder, OnRtnTrade, MissReturn, Callback, RtnTradeDone,
     OnFrontDisconnected, engineVars, vars
<1>11. QED
  BY <1>2, <1>5, <1>6, <1>7, <1>8, <1>9, <1>10

-----------------------------------------------------------------------------
(* Who may cancel.                                                         *)

(* Where the table of user c is loaded, and where it may be given up. *)
Loads(c) == {i \in 0 .. Len(feed) : IF i = 0 THEN user[c].loaded ELSE feed[i].type = "login" /\ feed[i].client = c}
Ends(c) == {i \in Frames : feed[i].type = "end" /\ feed[i].client = c}
LoadedAt(c, k) == Since(Loads(c), Ends(c), k)

(* Orders are read between the login of their client and its end. *)
LoadedInv ==
  \A c \in Names :
    /\ ~user[c].loaded => \A i \in 0 .. UserLimit - 1 : user[c].orders[i].local_id = 0
    /\ up[c] => LoadedAt(c, Len(feed))
    /\ \A i \in Frames : feed[i].type = "order" /\ feed[i].client = c => LoadedAt(c, i - 1)

RefInv ==
  /\ \A o \in market : 1 <= o.ref /\ o.ref < localId
  /\ \A o, p \in market : o.ref = p.ref => o = p

(* A cell with the reference of an order at the exchange is of that order. *)
CellRefInv ==
  \A c \in Names : \A i \in 0 .. UserLimit - 1 :
    LET cell == user[c].orders[i]
    IN  /\ cell.local_id < localId
        /\ \A o \in market : o.ref = cell.local_id => o.client = c /\ o.rid = cell.order_id

(* Nothing of the day before is left when the day is switched. *)
SwitchInv ==
  \A i \in Frames : feed[i].type = "switch" =>
    /\ market = {} /\ callback = NoCall
    /\ \A j \in 1 .. i : feed[j].type # "order"

LEMMA LoadsTold ==
  ASSUME Typed, NEW frame \in FeedFrame, Tell(frame), UNCHANGED user, NEW c \in Names, NEW n, n = Len(feed)
  PROVE  /\ \A k \in 0 .. n : LoadedAt(c, k)' <=> LoadedAt(c, k)
         /\ LoadedAt(c, n + 1)' <=>
              \/ frame.type = "login" /\ frame.client = c
              \/ ~(frame.type = "end" /\ frame.client = c) /\ LoadedAt(c, n)
<1>1. /\ n \in Nat /\ Len(feed') = n + 1
      /\ \A i \in 1 .. n : feed'[i] = feed[i]
      /\ feed'[n + 1] = frame
  BY FeedTold DEF Typed
<1>2. /\ \A i \in 0 .. n : (i \in Loads(c)' <=> i \in Loads(c)) /\ (i \in Ends(c)' <=> i \in Ends(c))
      /\ n + 1 \in Loads(c)' <=> frame.type = "login" /\ frame.client = c
      /\ n + 1 \in Ends(c)' <=> frame.type = "end" /\ frame.client = c
  BY <1>1 DEF Loads, Ends, Frames
<1>3. ASSUME NEW k \in 0 .. n PROVE LoadedAt(c, k)' <=> LoadedAt(c, k)
  <2>1. k \in Nat /\ \A i \in 0 .. k : i \in 0 .. n
    BY <1>1
  <2>2. \A i \in 0 .. k : (i \in Loads(c)' <=> i \in Loads(c)) /\ (i \in Ends(c)' <=> i \in Ends(c))
    BY <1>2, <2>1
  <2>3. QED
    BY <2>1, <2>2, SinceSame DEF LoadedAt
<1>4. LoadedAt(c, n + 1)' <=> n + 1 \in Loads(c)' \/ (n + 1 \notin Ends(c)' /\ LoadedAt(c, n)')
  BY <1>1, SinceNext DEF LoadedAt
<1>5. n \in 0 .. n
  BY <1>1
<1>6. QED
  BY <1>2, <1>3, <1>4, <1>5

(* The frame that strategy c tells the engine in a step. *)
Writes(c) ==
  \/ Start(c) /\ \E w \in Windows : Tell([type |-> "login", client |-> c, window |-> w])
  \/ End(c) /\ Tell([type |-> "end", client |-> c])
  \/ AckNone(c) /\ Tell([type |-> "pos_set", client |-> c, pos |-> Empty])
  \/ InsertOrder(c) /\ Tell([type |-> "order", client |-> c, run |-> run[c], rid |-> GetRid(c)])
  \/ \E id \in Int : CancelOrder(c, id) /\ Tell([type |-> "action", client |-> c, order |-> id])

(* A step hears a frame, tells one or leaves the frames as they are. *)
LEMMA FeedCases ==
  ASSUME Typed, [Next]_vars
  PROVE  \/ Listen /\ UNCHANGED strategyVars
         \/ /\ UNCHANGED <<feed, up, run, window, curRid>>
            /\ \A c \in Names : user'[c].loaded = user[c].loaded
            /\ ~Listen
         \/ /\ UNCHANGED <<engineVars, market, callback>>
            /\ (SwitchTradingDay /\ Tell([type |-> "switch"])) \/ \E c \in Names : Writes(c)
<1>1. feed \in Seq(FeedFrame)
  BY DEF Typed
<1>2. feed' = feed => ~Listen
  <2>1. Listen => Len(feed') = Len(feed) - 1 /\ Len(feed) \in Nat
    BY Heard, FeedHeard DEF Typed
  <2>2. QED
    BY <2>1
<1>3. ASSUME UNCHANGED <<feed, up, run, window, curRid>>, UNCHANGED user \/ RtnOrderDone \/ \E o \in market : OnRspOrderInsert(o)
      PROVE  \A c \in Names : user'[c].loaded = user[c].loaded
  <2>1. ASSUME NEW rid \in Int, NEW status \in {"traded", "canceled", "error"}, user' = StatusOf(rid, status),
               NEW c \in Names
        PROVE  user'[c].loaded = user[c].loaded
    <3>1. 0 \in 0 .. UserLimit - 1
      BY Constants
    <3>2. QED
      BY <2>1, <3>1, StatusOfShape
  <2>2. RtnOrderDone => callback.rid \in Int /\ callback.status \in {"traded", "canceled"}
    BY CallTyped DEF RtnOrderDone
  <2>3. \A o \in market : o.rid \in Int
    BY RidTyped
  <2>4. QED
    BY <1>3, <2>1, <2>2, <2>3 DEF RtnOrderDone, OnRspOrderInsert
<1>4. CASE Listen
  BY <1>4 DEF Listen, AddClient, RemoveClient, PosSet, SwitchDay, ReqOrderInsert, ReqOrderAction
<1>5. ASSUME UNCHANGED <<feed, up, run, window, curRid>>, UNCHANGED user \/ RtnOrderDone \/ \E o \in market : OnRspOrderInsert(o)
      PROVE  /\ UNCHANGED <<feed, up, run, window, curRid>>
             /\ \A c \in Names : user'[c].loaded = user[c].loaded
             /\ ~Listen
  BY <1>2, <1>3, <1>5
<1>6. CASE EngineOpen \/ Callback \/ OnFrontDisconnected \/ UNCHANGED vars \/ \E o \in market : Returns(o) \/ MissReturn(o)
  BY <1>5, <1>6 DEF EngineOpen, Callback, RtnOrderDone, RtnTradeDone, OnFrontDisconnected, vars, strategyVars, engineVars,
                    Returns, OnRtnOrder, OnRtnTrade, OnRspOrderInsert, MissReturn
<1>7. CASE SwitchTradingDay
  BY <1>7 DEF SwitchTradingDay, marketVars
<1>8. ASSUME NEW c \in Names, Start(c) \/ End(c) \/ AckNone(c) \/ InsertOrder(c)
      PROVE  /\ UNCHANGED <<engineVars, market, callback>>
             /\ Writes(c)
  BY <1>8 DEF Start, End, AckNone, InsertOrder, marketVars, Empty, FreeWindows, Writes
<1>9. ASSUME NEW c \in Names, \E w \in Windows : \E k \in 0 .. RidRange - 1 : CancelOrder(c, RidStart(w) + k)
      PROVE  /\ UNCHANGED <<engineVars, market, callback>>
             /\ Writes(c)
  <2>1. PICK w \in Windows, k \in 0 .. RidRange - 1 : CancelOrder(c, RidStart(w) + k)
    BY <1>9
  <2>2. w \in Nat /\ RidRange \in Nat
    BY Constants
  <2>3. w * RidRange \in Int
    BY <2>2
  <2>4. RidStart(w) + k \in Int
    BY <2>3 DEF RidStart
  <2>5. QED
    BY <2>1, <2>4 DEF CancelOrder, marketVars, Writes
<1>10. ASSUME NEW c \in Names, AckPos(c) \/ AckIgnored(c) \/ ReadRtnTrade(c)
       PROVE  UNCHANGED <<feed, up, run, window, curRid>> /\ UNCHANGED user
  BY <1>10 DEF AckPos, AckIgnored, ReadRtnTrade, strategyVars, engineVars
<1>11. CASE \E c \in Names : Acts(c)
  <2>1. PICK c \in Names : Acts(c)
    BY <1>11
  <2>2. CASE AckPos(c) \/ AckIgnored(c) \/ ReadRtnTrade(c)
    BY <1>5, <1>10, <2>2
  <2>3. CASE Start(c) \/ End(c) \/ AckNone(c) \/ InsertOrder(c)
    BY <1>8, <2>3
  <2>4. CASE \E w \in Windows : \E k \in 0 .. RidRange - 1 : CancelOrder(c, RidStart(w) + k)
    BY <1>9, <2>4
  <2>5. QED
    BY <2>1, <2>2, <2>3, <2>4 DEF Acts
<1>12. QED
  BY <1>4, <1>6, <1>7, <1>11, NextCases

LEMMA LoadedStep == ASSUME Typed, LoadedInv, [Next]_vars PROVE LoadedInv'
<1>1. Typed'
  BY TypedStep
<1>2. /\ feed \in Seq(FeedFrame) /\ Len(feed) \in Nat /\ user \in [Names -> UserInfo]
      /\ up \in [Names -> BOOLEAN] /\ user' \in [Names -> UserInfo] /\ up' \in [Names -> BOOLEAN]
  BY <1>1 DEF Typed, EngineTypes, StrategyTypes
<1>3. ASSUME NEW c \in Names, Listen, NEW k \in Nat, k <= Len(feed'), LoadedAt(c, k + 1)
      PROVE  LoadedAt(c, k)'
  <2>1. /\ Len(feed') \in Nat /\ Len(feed) = Len(feed') + 1 /\ \A i \in 1 .. Len(feed') : feed'[i] = feed[i + 1]
        /\ feed[1] = Msg
    BY <1>3, Heard, FeedHeard DEF Typed
  <2>2. /\ \A i \in 1 .. Len(feed') : (i \in Loads(c)' <=> i + 1 \in Loads(c)) /\ (i \in Ends(c)' <=> i + 1 \in Ends(c))
        /\ 1 \in Loads(c) <=> Msg.type = "login" /\ Msg.client = c
        /\ 1 \in Ends(c) <=> Msg.type = "end" /\ Msg.client = c
        /\ 0 \in Loads(c) <=> user[c].loaded
        /\ 0 \in Loads(c)' <=> user'[c].loaded
    BY <2>1 DEF Loads, Ends, Frames
  <2>3. 1 \in Loads(c) \/ (0 \in Loads(c) /\ 1 \notin Ends(c)) => 0 \in Loads(c)'
    BY <1>3, <2>2, Heard, UserShape DEF UserStep
  <2>4. k \in 0 .. Len(feed')
    BY <1>3, <2>1
  <2>5. QED
    BY <1>3, <2>1, <2>2, <2>3, <2>4, SinceHeard DEF LoadedAt
<1>4. ASSUME NEW c \in Names, ~user'[c].loaded, NEW i \in 0 .. UserLimit - 1
      PROVE  user'[c].orders[i].local_id = 0
  <2>1. RawOrder.local_id = 0
    BY DEF RawOrder
  <2>2. ReqOrderInsert /\ c = Msg.client => user[c].loaded
    <3>1. SUFFICES ASSUME ReqOrderInsert, c = Msg.client PROVE user[c].loaded
      OBVIOUS
    <3>2. 1 \in Frames /\ feed[1].type = "order" /\ feed[1].client = c
      BY <3>1, Heard DEF Listen
    <3>3. LoadedAt(c, 1 - 1) /\ 1 - 1 = 0
      BY <3>2 DEF LoadedInv
    <3>4. QED
      BY <3>3, SinceFirst DEF LoadedAt, Loads
  <2>3. UserStep(c)
    BY UserShape
  <2>4. CASE user'[c].loaded = user[c].loaded
    <3>1. ~user[c].loaded /\ user[c].orders[i].local_id = 0
      BY <1>4, <2>4 DEF LoadedInv
    <3>2. QED
      BY <2>1, <2>2, <2>3, <3>1 DEF UserStep, SameCell
  <2>5. CASE AllRaw(user'[c].orders)
    BY <2>1, <2>5 DEF AllRaw
  <2>6. QED
    BY <1>4, <2>3, <2>4, <2>5 DEF UserStep
<1> DEFINE Ordered ==
      \A c \in Names :
        /\ up[c] => LoadedAt(c, Len(feed))
        /\ \A i \in Frames : feed[i].type = "order" /\ feed[i].client = c => LoadedAt(c, i - 1)
<1>5. Ordered
  BY DEF LoadedInv
<1>6. Ordered' => LoadedInv'
  BY <1>4 DEF LoadedInv
<1>7. ASSUME Listen PROVE Ordered'
  <2>1. /\ up' = up /\ Len(feed') \in Nat /\ Len(feed) = Len(feed') + 1
        /\ \A i \in 1 .. Len(feed') : feed'[i] = feed[i + 1]
    BY <1>7, Heard, FeedHeard DEF Typed, Listen, AddClient, RemoveClient, PosSet, SwitchDay, ReqOrderInsert, ReqOrderAction,
       strategyVars
  <2>2. ASSUME NEW c \in Names, NEW n, n = Len(feed'), up[c] PROVE LoadedAt(c, n)'
    BY <1>3, <1>5, <1>7, <2>1, <2>2
  <2>3. ASSUME NEW c \in Names, NEW i \in Frames', feed'[i].type = "order", feed'[i].client = c
        PROVE  LoadedAt(c, i - 1)'
    <3>1. i \in 1 .. Len(feed') /\ i + 1 \in Frames /\ feed[i + 1] = feed'[i]
      BY <2>1 DEF Frames
    <3>2. LoadedAt(c, (i + 1) - 1) /\ (i + 1) - 1 = (i - 1) + 1
      BY <1>5, <2>3, <3>1
    <3>3. i - 1 \in Nat /\ i - 1 <= Len(feed')
      BY <2>1, <3>1
    <3>4. QED
      BY <1>3, <1>7, <3>2, <3>3
  <2>4. QED
    BY <2>1, <2>2, <2>3
<1>8. ASSUME NEW c \in Names, NEW frame \in FeedFrame, Tell(frame), UNCHANGED user,
             \/ Start(c) /\ frame.type = "login" /\ frame.client = c /\ up' = [up EXCEPT ![c] = TRUE]
             \/ End(c) /\ frame.type = "end" /\ frame.client = c /\ up' = [up EXCEPT ![c] = FALSE]
             \/ frame.type \in {"order", "action", "pos_set", "switch"} /\ UNCHANGED up
                /\ (frame.type = "order" => up[c] /\ frame.client = c)
      PROVE  Ordered'
  <2>1. PICK n : n = Len(feed)
    OBVIOUS
  <2>2. /\ n \in Nat /\ Len(feed') = n + 1
        /\ \A i \in 1 .. n : feed'[i] = feed[i]
        /\ feed'[n + 1] = frame
    BY <1>8, <2>1, FeedTold DEF Typed
  <2>3. ASSUME NEW d \in Names
        PROVE  /\ \A k \in 0 .. n : LoadedAt(d, k)' <=> LoadedAt(d, k)
               /\ LoadedAt(d, n + 1)' <=>
                    \/ frame.type = "login" /\ frame.client = d
                    \/ ~(frame.type = "end" /\ frame.client = d) /\ LoadedAt(d, n)
    BY <1>8, <2>1, LoadsTold
  <2>4. ASSUME NEW d \in Names, up'[d] PROVE LoadedAt(d, n + 1)'
    <3>1. (frame.type = "login" /\ frame.client = d) \/ (up[d] /\ ~(frame.type = "end" /\ frame.client = d))
      BY <1>2, <1>8, <2>4
    <3>2. up[d] => LoadedAt(d, n)
      BY <1>5, <2>1
    <3>3. QED
      BY <2>3, <3>1, <3>2
  <2>5. ASSUME NEW d \in Names, NEW i \in Frames', feed'[i].type = "order", feed'[i].client = d
        PROVE  LoadedAt(d, i - 1)'
    <3>1. CASE i \in 1 .. n
      <4>1. feed[i] = feed'[i] /\ i \in Frames /\ i - 1 \in 0 .. n
        BY <2>1, <2>2, <3>1 DEF Frames
      <4>2. LoadedAt(d, i - 1)
        BY <1>5, <2>5, <4>1
      <4>3. QED
        BY <2>3, <4>1, <4>2
    <3>2. CASE i = n + 1
      <4>1. up[d] /\ i - 1 = n /\ n \in 0 .. n
        BY <1>8, <2>2, <2>5, <3>2
      <4>2. LoadedAt(d, n)
        BY <1>5, <2>1, <4>1
      <4>3. QED
        BY <2>3, <4>1, <4>2
    <3>3. i \in 1 .. n + 1
      BY <2>2 DEF Frames
    <3>4. QED
      BY <2>2, <3>1, <3>2, <3>3
  <2>6. QED
    BY <2>2, <2>4, <2>5
<1>9. ASSUME UNCHANGED <<feed, up>>, \A c \in Names : user'[c].loaded = user[c].loaded PROVE Ordered'
  <2>1. ASSUME NEW c \in Names PROVE Loads(c)' = Loads(c) /\ Ends(c)' = Ends(c)
    BY <1>9, <2>1 DEF Loads, Ends, Frames
  <2>2. \A c \in Names : \A k : LoadedAt(c, k)' <=> LoadedAt(c, k)
    BY <2>1 DEF LoadedAt
  <2>3. QED
    BY <1>5, <1>9, <2>2 DEF Frames
<1>10. ASSUME NEW c \in Names, Writes(c), UNCHANGED user PROVE Ordered'
  <2>1. CASE Start(c)
    <3>1. PICK w \in Windows : Tell([type |-> "login", client |-> c, window |-> w])
      BY <2>1 DEF Start, FreeWindows
    <3>2. [type |-> "login", client |-> c, window |-> w] \in FeedFrame
      BY DEF FeedFrame
    <3>3. up' = [up EXCEPT ![c] = TRUE]
      BY <2>1 DEF Start
    <3>4. QED
      BY <1>8, <1>10, <2>1, <3>1, <3>2, <3>3
  <2>2. CASE End(c)
    <3>1. [type |-> "end", client |-> c] \in FeedFrame
      BY DEF FeedFrame
    <3>2. up' = [up EXCEPT ![c] = FALSE] /\ Tell([type |-> "end", client |-> c])
      BY <2>2 DEF End
    <3>3. QED
      BY <1>8, <1>10, <2>2, <3>1, <3>2
  <2>3. CASE AckNone(c)
    <3>1. [type |-> "pos_set", client |-> c, pos |-> Empty] \in FeedFrame
      BY DEF FeedFrame
    <3>2. UNCHANGED up /\ Tell([type |-> "pos_set", client |-> c, pos |-> Empty])
      BY <2>3 DEF AckNone, Empty
    <3>3. QED
      BY <1>8, <1>10, <3>1, <3>2
  <2>4. CASE InsertOrder(c)
    <3>1. PICK frame : frame = [type |-> "order", client |-> c, run |-> run[c], rid |-> GetRid(c)]
      OBVIOUS
    <3>2. UNCHANGED up /\ up[c] /\ Tell(frame)
      BY <2>4, <3>1 DEF InsertOrder
    <3>3. frame \in FeedFrame
      BY <2>4, <3>1, GetRidTyped DEF FeedFrame, Typed, StrategyTypes
    <3>4. QED
      BY <1>8, <1>10, <3>1, <3>2, <3>3
  <2>5. ASSUME NEW id \in Int, CancelOrder(c, id) PROVE Ordered'
    <3>1. [type |-> "action", client |-> c, order |-> id] \in FeedFrame
      BY DEF FeedFrame
    <3>2. UNCHANGED up /\ Tell([type |-> "action", client |-> c, order |-> id])
      BY <2>5 DEF CancelOrder
    <3>3. QED
      BY <1>8, <1>10, <3>1, <3>2
  <2>6. QED
    BY <1>10, <2>1, <2>2, <2>3, <2>4, <2>5 DEF Writes
<1>11. ASSUME SwitchTradingDay, Tell([type |-> "switch"]), UNCHANGED user PROVE Ordered'
  <2>1. [type |-> "switch"] \in FeedFrame
    BY DEF FeedFrame
  <2>2. CASE Names = {}
    BY <2>2
  <2>3. ASSUME NEW c \in Names PROVE Ordered'
    <3>1. UNCHANGED up
      BY <1>11 DEF SwitchTradingDay, strategyVars
    <3>2. QED
      BY <1>8, <1>11, <2>1, <3>1
  <2>4. QED
    BY <2>2, <2>3
<1>12. Ordered'
  BY <1>7, <1>9, <1>10, <1>11, FeedCases DEF engineVars
<1>13. QED
  BY <1>6, <1>12

LEMMA CallShape ==
  ASSUME [Next]_vars
  PROVE  \/ callback' = callback
         \/ callback' = NoCall
         \/ \E o \in market :
              \/ \E status \in {"traded", "canceled"} : OnRtnOrder(o, status)
              \/ OnRtnTrade(o)
BY NextCases DEF Acts, Start, End, AckPos, AckNone, AckIgnored, ReadRtnTrade, InsertOrder, CancelOrder,
   SwitchTradingDay, Listen, AddClient, RemoveClient, PosSet, SwitchDay, ReqOrderInsert, ReqOrderAction, EngineOpen,
   Returns, OnRspOrderInsert, MissReturn, Callback, RtnOrderDone, RtnTradeDone, OnFrontDisconnected, vars

InsertedFrame(c, o) == InsertOrder(c) /\ o.client = c /\ o.run = run[c] /\ o.rid = GetRid(c)

(* The frame of a strategy is of that strategy, and never a switch of the day. *)
LEMMA WritesFrame ==
  ASSUME Typed, NEW c \in Names, Writes(c)
  PROVE  \E frame \in FeedFrame :
           /\ Tell(frame) /\ frame.type # "switch" /\ frame.client = c
           /\ frame.type = "order" => InsertedFrame(c, frame)
<1>1. ASSUME NEW w \in Windows
      PROVE  [type |-> "login", client |-> c, window |-> w] \in FeedFrame
  BY DEF FeedFrame
<1>2. /\ [type |-> "end", client |-> c] \in FeedFrame
      /\ [type |-> "pos_set", client |-> c, pos |-> Empty] \in FeedFrame
  BY DEF FeedFrame
<1>3. run[c] \in Nat
  BY DEF Typed, StrategyTypes
<1>4. [type |-> "order", client |-> c, run |-> run[c], rid |-> GetRid(c)] \in FeedFrame
  BY <1>3, GetRidTyped DEF FeedFrame
<1>5. ASSUME NEW id \in Int PROVE [type |-> "action", client |-> c, order |-> id] \in FeedFrame
  BY DEF FeedFrame
<1>6. CASE InsertOrder(c) /\ Tell([type |-> "order", client |-> c, run |-> run[c], rid |-> GetRid(c)])
  BY <1>4, <1>6 DEF InsertedFrame
<1>7. QED
  BY <1>1, <1>2, <1>5, <1>6 DEF Writes

LEMMA SwitchStep == ASSUME Typed, SwitchInv, [Next]_vars PROVE SwitchInv'
<1> DEFINE Due == \E i \in Frames : feed[i].type = "switch"
<1>1. feed \in Seq(FeedFrame) /\ Len(feed) \in Nat
  BY DEF Typed
<1>2. ASSUME Due PROVE market' = {} /\ callback' = NoCall
  <2>1. market = {} /\ callback = NoCall
    BY <1>2 DEF SwitchInv
  <2>2. ReqOrderInsert => FALSE
    <3>1. ReqOrderInsert => 1 \in Frames /\ feed[1].type = "order"
      BY Heard DEF Listen
    <3>2. \A i \in Frames : 1 \in 1 .. i
      BY <1>1 DEF Frames
    <3>3. QED
      BY <1>2, <3>1, <3>2 DEF SwitchInv
  <2>3. QED
    BY <2>1, <2>2, MarketShape, CallShape
<1>3. CASE Listen
  <2>1. /\ Len(feed') \in Nat /\ Len(feed) = Len(feed') + 1
        /\ \A i \in 1 .. Len(feed') : feed'[i] = feed[i + 1]
    BY <1>3, Heard, FeedHeard DEF Typed
  <2>2. ASSUME NEW i \in Frames', feed'[i].type = "switch"
        PROVE  Due /\ \A j \in 1 .. i : feed'[j].type # "order"
    <3>1. i \in 1 .. Len(feed') /\ i + 1 \in Frames /\ feed[i + 1].type = "switch"
      BY <2>1, <2>2 DEF Frames
    <3>2. \A j \in 1 .. i : j \in 1 .. Len(feed') /\ j + 1 \in 1 .. i + 1
      BY <2>1, <3>1
    <3>3. QED
      BY <2>1, <3>1, <3>2 DEF SwitchInv
  <2>3. QED
    BY <1>2, <2>2 DEF SwitchInv
<1>4. CASE UNCHANGED feed
  BY <1>2, <1>4 DEF SwitchInv, Frames
<1>5. ASSUME NEW frame \in FeedFrame, Tell(frame), frame.type = "switch" => SwitchTradingDay
      PROVE  SwitchInv'
  <2>1. /\ Len(feed') = Len(feed) + 1
        /\ \A i \in 1 .. Len(feed) : feed'[i] = feed[i]
        /\ feed'[Len(feed) + 1] = frame
    BY <1>5, FeedTold DEF Typed
  <2>2. ASSUME NEW i \in 1 .. Len(feed), feed'[i].type = "switch"
        PROVE  Due /\ \A j \in 1 .. i : feed'[j].type # "order"
    <3>1. \A j \in 1 .. i : j \in 1 .. Len(feed)
      BY <1>1
    <3>2. QED
      BY <2>1, <2>2, <3>1 DEF SwitchInv, Frames
  <2>3. ASSUME frame.type = "switch"
        PROVE  market' = {} /\ callback' = NoCall /\ \A j \in 1 .. Len(feed) + 1 : feed'[j].type # "order"
    <3>1. market = {} /\ callback = NoCall /\ OrderFrames(feed) = {} /\ UNCHANGED <<market, callback>>
      BY <1>5, <2>3 DEF SwitchTradingDay, marketVars
    <3>2. \A j \in 1 .. Len(feed) : feed[j].type # "order"
      BY <1>1, <3>1 DEF OrderFrames
    <3>3. \A j \in 1 .. Len(feed) + 1 : j \in 1 .. Len(feed) \/ j = Len(feed) + 1
      BY <1>1
    <3>4. QED
      BY <2>1, <2>3, <3>1, <3>2, <3>3
  <2>4. \A i \in 1 .. Len(feed') : i \in 1 .. Len(feed) \/ i = Len(feed) + 1
    BY <1>1, <2>1
  <2>5. QED
    BY <1>2, <2>1, <2>2, <2>3, <2>4 DEF SwitchInv, Frames
<1>6. CASE SwitchTradingDay /\ Tell([type |-> "switch"])
  <2>1. [type |-> "switch"] \in FeedFrame
    BY DEF FeedFrame
  <2>2. QED
    BY <1>5, <1>6, <2>1
<1>7. CASE \E c \in Names : Writes(c)
  BY <1>5, <1>7, WritesFrame
<1>8. QED
  BY <1>3, <1>4, <1>6, <1>7, FeedCases

LEMMA RefStep ==
  ASSUME Typed, RefInv, CellRefInv, SwitchInv, LoadedInv, [Next]_vars
  PROVE  RefInv' /\ CellRefInv'
<1>1. localId \in Nat \ {0} /\ \A o \in market : o.ref \in Nat /\ o \in MarketOrder
  BY DEF Typed, EngineTypes, MarketTypes, MarketOrder
<1>2. localId' \in Nat \ {0} /\ \A o \in market' : o.ref \in Nat /\ o \in MarketOrder
  BY TypedStep DEF Typed, EngineTypes, MarketTypes, MarketOrder
<1>3. ASSUME NEW c \in Names, NEW i \in 0 .. UserLimit - 1 PROVE user[c].orders[i].local_id \in Int
  <2>1. user[c].orders \in Table(UserLimit)
    BY TablesTyped
  <2>2. QED
    BY <2>1 DEF Table, Order
<1>4. CASE SwitchDay
  <2>1. market = {} /\ market' = {} /\ localId' = 1
    <3>1. 1 \in Frames /\ feed[1].type = "switch"
      BY <1>4, Heard DEF Listen
    <3>2. QED
      BY <1>4, <3>1 DEF SwitchInv, SwitchDay, marketVars
  <2>2. ASSUME NEW c \in Names, NEW i \in 0 .. UserLimit - 1 PROVE user'[c].orders[i].local_id = 0
    <3>1. CASE user[c].loaded
      <4>1. AllRaw(user'[c].orders)
        BY <1>4, <3>1, UserShape DEF UserStep
      <4>2. QED
        BY <4>1 DEF AllRaw, RawOrder
    <3>2. CASE ~user[c].loaded
      <4>1. user' = [d \in Names |-> IF user[d].loaded
                                     THEN [user[d] EXCEPT !.orders = EmptyTable(UserLimit)] ELSE user[d]]
        BY <1>4 DEF SwitchDay
      <4>2. user'[c] = user[c]
        BY <3>2, <4>1
      <4>3. QED
        BY <3>2, <4>2 DEF LoadedInv
    <3>3. QED
      BY <3>1, <3>2
  <2>3. QED
    BY <2>1, <2>2 DEF RefInv, CellRefInv
<1>5. ASSUME ~SwitchDay, ~(ReqOrderInsert /\ loggedIn) PROVE RefInv' /\ CellRefInv'
  <2>1. localId <= localId' /\ \A p \in market' : \E o \in market : Same(p, o)
    BY <1>5, MarketShape
  <2>2. \A o, p \in market' : o.ref = p.ref => o = p
    BY <1>5, UniqueRefs DEF RefInv
  <2>3. \A p \in market' : 1 <= p.ref /\ p.ref < localId'
    BY <1>1, <1>2, <2>1 DEF Same, RefInv
  <2>4. ASSUME NEW c \in Names, NEW i \in 0 .. UserLimit - 1
        PROVE  SameCell(user'[c].orders[i], user[c].orders[i]) \/ user'[c].orders[i] = RawOrder
    <3>1. UserStep(c)
      BY UserShape
    <3>2. QED
      BY <1>5, <3>1 DEF UserStep
  <2>5. ASSUME NEW c \in Names, NEW i \in 0 .. UserLimit - 1
        PROVE  /\ user'[c].orders[i].local_id < localId'
               /\ \A p \in market' : p.ref = user'[c].orders[i].local_id =>
                    p.client = c /\ p.rid = user'[c].orders[i].order_id
    <3>1. CASE user'[c].orders[i] = RawOrder
      BY <1>2, <2>3, <3>1 DEF RawOrder
    <3>2. CASE SameCell(user'[c].orders[i], user[c].orders[i])
      <4>1. user[c].orders[i].local_id < localId'
        BY <1>1, <1>2, <1>3, <2>1 DEF CellRefInv
      <4>2. QED
        BY <2>1, <3>2, <4>1 DEF CellRefInv, SameCell, Same
    <3>3. QED
      BY <2>4, <3>1, <3>2
  <2>6. QED
    BY <2>2, <2>3, <2>5 DEF RefInv, CellRefInv
<1>6. CASE ReqOrderInsert /\ loggedIn
  <2>1. market' = market \cup {NewOrder} /\ localId' = localId + 1
    BY <1>6 DEF ReqOrderInsert
  <2>2. NewOrder.ref = localId /\ NewOrder.client = Msg.client /\ NewOrder.rid = Msg.rid
    BY DEF NewOrder
  <2>3. RefInv'
    BY <1>1, <2>1, <2>2 DEF RefInv
  <2>4. ASSUME NEW c \in Names, NEW i \in 0 .. UserLimit - 1
        PROVE  \/ SameCell(user'[c].orders[i], user[c].orders[i])
               \/ user'[c].orders[i] = RawOrder
               \/ c = Msg.client /\ user'[c].orders[i] = NewCell
    <3>1. UserStep(c)
      BY UserShape
    <3>2. QED
      BY <3>1 DEF UserStep
  <2>5. ASSUME NEW c \in Names, NEW i \in 0 .. UserLimit - 1
        PROVE  /\ user'[c].orders[i].local_id < localId'
               /\ \A p \in market' : p.ref = user'[c].orders[i].local_id =>
                    p.client = c /\ p.rid = user'[c].orders[i].order_id
    <3>1. CASE user'[c].orders[i] = RawOrder
      BY <1>1, <2>1, <2>2, <3>1 DEF RawOrder, RefInv
    <3>2. CASE SameCell(user'[c].orders[i], user[c].orders[i])
      <4>1. user[c].orders[i].local_id < localId
        BY DEF CellRefInv
      <4>2. user'[c].orders[i].local_id # NewOrder.ref /\ user'[c].orders[i].local_id < localId'
        BY <1>1, <1>3, <2>1, <2>2, <3>2, <4>1 DEF SameCell
      <4>3. QED
        BY <2>1, <3>2, <4>2 DEF CellRefInv, SameCell
    <3>3. CASE c = Msg.client /\ user'[c].orders[i] = NewCell
      BY <1>1, <2>1, <2>2, <3>3 DEF RefInv, NewCell, Entry
    <3>4. QED
      BY <2>4, <3>1, <3>2, <3>3
  <2>6. QED
    BY <2>3, <2>5 DEF CellRefInv
<1>7. QED
  BY <1>4, <1>5, <1>6

RefsInv == Typed /\ LoadedInv /\ RefInv /\ CellRefInv /\ SwitchInv

LEMMA RefsInit == Init => RefsInv
<1> SUFFICES ASSUME Init PROVE RefsInv
  OBVIOUS
<1>1. /\ Typed /\ market = {} /\ feed = <<>> /\ localId = 1 /\ \A c \in Names : ~up[c]
      /\ \A c \in Names : user[c] = NoTable
  BY InitTyped DEF Init
<1>2. \A i \in 0 .. UserLimit - 1 : NoTable.orders[i].local_id = 0
  BY DEF NoTable, EmptyTable, RawOrder
<1>3. \A c \in Names : \A i \in 0 .. UserLimit - 1 : user[c].orders[i].local_id = 0
  BY <1>1, <1>2
<1>4. Frames = {}
  BY <1>1 DEF Frames
<1>5. LoadedInv
  BY <1>1, <1>3, <1>4 DEF LoadedInv
<1>6. RefInv /\ CellRefInv
  BY <1>1, <1>3 DEF RefInv, CellRefInv
<1>7. SwitchInv
  BY <1>4 DEF SwitchInv
<1>8. QED
  BY <1>1, <1>5, <1>6, <1>7 DEF RefsInv

LEMMA RefsStep == RefsInv /\ [Next]_vars => RefsInv'
BY TypedStep, LoadedStep, RefStep, SwitchStep DEF RefsInv

LEMMA CancelStep ==
  ASSUME RefsInv, [Next]_vars, NEW o \in market, NEW p \in market', o.ref = p.ref, ~o.cancel, p.cancel
  PROVE  feed # <<>> /\ Msg.client = o.client /\ (Msg.type = "action" => Msg.order = o.rid)
<1>1. Typed /\ \A q \in market : q \in MarketOrder /\ (q.ref = o.ref => q = o)
  BY DEF RefsInv, RefInv, Typed, MarketTypes
<1>2. CASE AskedFor
  <2>1. PICK refs :
          /\ AskCancel(refs) /\ IsFiniteSet(refs)
          /\ \A ref \in refs :
               \/ /\ RemoveClient /\ Msg.client \in Names
                  /\ \E i \in 0 .. UserLimit - 1 : ref = user[Msg.client].orders[i].local_id
               \/ /\ ReqOrderAction /\ Msg.client \in Names
                  /\ \E i \in 0 .. UserLimit - 1 : /\ ref = user[Msg.client].orders[i].local_id
                                                   /\ Msg.order = user[Msg.client].orders[i].order_id
    BY <1>2 DEF AskedFor
  <2>2. PICK q \in market : Same(p, q) /\ (p.cancel => q.cancel \/ q.ref \in refs)
    BY <1>1, <2>1, Asked
  <2>3. o.ref \in refs
    BY <1>1, <2>2 DEF Same
  <2>4. Listen /\ (RemoveClient \/ ReqOrderAction) /\ Msg.client \in Names
    BY <2>1, <2>3 DEF Listen
  <2>5. PICK i \in 0 .. UserLimit - 1 : /\ o.ref = user[Msg.client].orders[i].local_id
                                        /\ ReqOrderAction /\ ~RemoveClient => Msg.order = user[Msg.client].orders[i].order_id
    BY <2>1, <2>3
  <2>6. o.client = Msg.client /\ o.rid = user[Msg.client].orders[i].order_id
    BY <2>4, <2>5 DEF RefsInv, CellRefInv
  <2>7. feed # <<>> /\ (Msg.type = "action" => ReqOrderAction /\ ~RemoveClient)
    BY <1>1, <2>4, Heard DEF Hears
  <2>8. QED
    BY <2>5, <2>6, <2>7
<1>3. CASE market' \in SUBSET market
  BY <1>1, <1>3
<1>4. CASE \E q \in market : market' = (market \ {q}) \cup {[q EXCEPT !.state = "traded"]}
  <2>1. PICK q \in market : market' = (market \ {q}) \cup {[q EXCEPT !.state = "traded"]}
    BY <1>4
  <2>2. [q EXCEPT !.state = "traded"].ref = q.ref /\ [q EXCEPT !.state = "traded"].cancel = q.cancel
    BY <1>1 DEF MarketOrder
  <2>3. QED
    BY <1>1, <2>1, <2>2
<1>5. CASE ReqOrderInsert /\ loggedIn
  <2>1. market' = market \cup {NewOrder} /\ ~NewOrder.cancel
    BY <1>5 DEF ReqOrderInsert, NewOrder
  <2>2. QED
    BY <1>1, <2>1
<1>6. QED
  BY <1>1, <1>2, <1>3, <1>4, <1>5, MarketSteps

(***************************************************************************)
(* Only the strategy that sent an order, or its end, has it cancelled      *)
(* (ITDEngine::listening, remove_client): the references of orders at the  *)
(* exchange are not in the cells of other users, though local_id starts    *)
(* again on every day and though a user's cells are taken again.           *)
(***************************************************************************)
THEOREM OnlyOwnCancelled == Spec => CancelsOwn
<1> DEFINE Own1 ==
      \A o \in market : \A p \in market' :
        o.ref = p.ref /\ ~o.cancel /\ p.cancel =>
          /\ feed # <<>> /\ Msg.client = o.client
          /\ Msg.type = "action" => Msg.order = o.rid
<1>1. RefsInv /\ [Next]_vars => Own1
  BY CancelStep
<1>2. RefsInv /\ [Next]_vars => [Own1]_vars
  BY <1>1
<1>3. QED
  BY <1>2, RefsInit, RefsStep, PTL DEF Spec, CancelsOwn

-----------------------------------------------------------------------------
(* Whom request ids reach.                                                 *)

(* The strategies that are there have windows of their own. *)
WindowInv ==
  /\ \A c \in Names : (up[c] => window[c] \in Windows) /\ (~up[c] => window[c] = 0)
  /\ \A c, d \in Names : up[c] /\ up[d] /\ window[c] = window[d] => c = d

InWindow(rid) == \E w \in Windows : \E k \in 0 .. RidRange - 2 : rid = RidStart(w) + k

(* The order is of the run that has the window of its request id, if one has it. *)
RunOf(o) ==
  /\ InWindow(o.rid)
  /\ \A c \in Names : up[c] =>
       /\ o.client = c <=> WindowOf(o.rid) = window[c]
       /\ o.client = c => o.run = run[c] /\ o.rid < RidStart(window[c]) + curRid[c]

RunInv ==
  /\ \A o \in market : RunOf(o)
  /\ \A i \in Frames : feed[i].type = "order" => RunOf(feed[i])

LEMMA RidArithmetic ==
  ASSUME NEW w \in Nat, NEW k \in 0 .. RidRange - 1
  PROVE  RidStart(w) \in Nat /\ RidStart(w) + k \in Nat /\ WindowOf(RidStart(w) + k) = w
<1>1. RidRange \in Nat \ {0} /\ w * RidRange = RidRange * w
  BY Constants
<1>2. RidRange * w \in Nat
  BY <1>1
<1>3. (RidRange * w + k) \div RidRange = w
  BY <1>1, RemainderUnique
<1>4. QED
  BY <1>1, <1>2, <1>3 DEF RidStart, WindowOf

(* What becomes of the strategy c in a step. *)
LEMMA StrategyMoves ==
  ASSUME Typed, [Next]_vars, NEW c \in Names
  PROVE  \/ /\ up'[c] = up[c] /\ window'[c] = window[c] /\ run'[c] = run[c]
            /\ curRid'[c] = curRid[c] \/ curRid'[c] = curRid[c] + 1
         \/ ~up'[c] /\ window'[c] = 0
         \/ /\ Start(c) /\ ~up[c] /\ window'[c] \in FreeWindows /\ (SettledStart => Settled(c, window'[c]))
            /\ \A d \in Names : d # c => up'[d] = up[d] /\ window'[d] = window[d]
<1>1. /\ up \in [Names -> BOOLEAN] /\ run \in [Names -> Nat] /\ window \in [Names -> Windows \cup {0}]
      /\ curRid \in [Names -> 0 .. RidRange - 1]
  BY DEF Typed, StrategyTypes
<1>2. CASE UNCHANGED <<up, run, window, curRid>>
  BY <1>2
<1>3. ASSUME NEW d \in Names, Start(d)
      PROVE  \/ up'[c] = up[c] /\ window'[c] = window[c] /\ run'[c] = run[c] /\ curRid'[c] = curRid[c]
             \/ /\ Start(c) /\ ~up[c] /\ window'[c] \in FreeWindows /\ (SettledStart => Settled(c, window'[c]))
                /\ \A e \in Names : e # c => up'[e] = up[e] /\ window'[e] = window[e]
  <2>1. PICK w \in FreeWindows : window' = [window EXCEPT ![d] = w] /\ (SettledStart => Settled(d, w))
    BY <1>3 DEF Start
  <2>2. ~up[d] /\ up' = [up EXCEPT ![d] = TRUE] /\ run' = [run EXCEPT ![d] = @ + 1] /\ curRid' = curRid
    BY <1>3 DEF Start
  <2>3. CASE d = c
    <3>1. window'[c] = w /\ \A e \in Names : e # c => up'[e] = up[e] /\ window'[e] = window[e]
      BY <1>1, <2>1, <2>2, <2>3
    <3>2. QED
      BY <1>3, <2>1, <2>2, <2>3, <3>1
  <2>4. CASE d # c
    BY <1>1, <2>1, <2>2, <2>4
  <2>5. QED
    BY <2>3, <2>4
<1>4. ASSUME NEW d \in Names, End(d)
      PROVE  \/ up'[c] = up[c] /\ window'[c] = window[c] /\ run'[c] = run[c] /\ curRid'[c] = curRid[c]
             \/ ~up'[c] /\ window'[c] = 0
  BY <1>1, <1>4 DEF End
<1>5. ASSUME NEW d \in Names, UNCHANGED <<up, run, window>>, TakesRid(d)
      PROVE  /\ up'[c] = up[c] /\ window'[c] = window[c] /\ run'[c] = run[c]
             /\ curRid'[c] = curRid[c] \/ curRid'[c] = curRid[c] + 1
  BY <1>1, <1>5 DEF TakesRid
<1>6. ASSUME NEW d \in Names, Writes(d)
      PROVE  \/ Start(d) \/ End(d) \/ UNCHANGED <<up, run, window, curRid>>
             \/ UNCHANGED <<up, run, window>> /\ TakesRid(d)
  BY <1>6 DEF Writes, AckNone, InsertOrder, CancelOrder
<1>7. QED
  BY <1>2, <1>3, <1>4, <1>5, <1>6, FeedCases DEF strategyVars, SwitchTradingDay

LEMMA WindowStep == ASSUME Typed, WindowInv, [Next]_vars PROVE WindowInv'
<1>1. up \in [Names -> BOOLEAN] /\ up' \in [Names -> BOOLEAN]
  BY TypedStep DEF Typed, StrategyTypes
<1>2. ASSUME NEW c \in Names PROVE (up'[c] => window'[c] \in Windows) /\ (~up'[c] => window'[c] = 0)
  <2>1. Start(c) => up'[c]
    BY <1>1 DEF Start
  <2>2. QED
    BY <2>1, StrategyMoves DEF WindowInv, FreeWindows
<1>3. ASSUME NEW c \in Names, NEW d \in Names, up'[c], up'[d], window'[c] = window'[d] PROVE c = d
  <2>1. ASSUME NEW e \in Names, NEW f \in Names, up'[e], up'[f], window'[e] = window'[f], e # f, Start(e)
        PROVE  FALSE
    <3>1. ~up[e] /\ (\E w \in FreeWindows : window' = [window EXCEPT ![e] = w]) /\ up' = [up EXCEPT ![e] = TRUE]
      BY <2>1 DEF Start
    <3>2. window'[e] \in FreeWindows /\ window'[f] = window[f]
      BY <2>1, <3>1 DEF Typed, StrategyTypes
    <3>3. QED
      BY <2>1, <3>2 DEF FreeWindows
  <2>2. Start(c) \/ (up'[c] = up[c] /\ window'[c] = window[c])
    BY <1>3, StrategyMoves
  <2>3. Start(d) \/ (up'[d] = up[d] /\ window'[d] = window[d])
    BY <1>3, StrategyMoves
  <2>4. QED
    BY <1>3, <2>1, <2>2, <2>3 DEF WindowInv
<1>4. QED
  BY <1>2, <1>3 DEF WindowInv

LEMMA RunKept ==
  ASSUME Typed, [Next]_vars, NEW o, RunOf(o), o.rid \in Int,
         \A c \in Names : Start(c) => o.client # c /\ WindowOf(o.rid) # window'[c]
  PROVE  RunOf(o)'
<1>1. ASSUME NEW c \in Names, up'[c]
      PROVE  /\ o.client = c <=> WindowOf(o.rid) = window'[c]
             /\ o.client = c => o.run = run'[c] /\ o.rid < RidStart(window'[c]) + curRid'[c]
  <2>1. CASE Start(c)
    BY <2>1
  <2>2. CASE /\ up'[c] = up[c] /\ window'[c] = window[c] /\ run'[c] = run[c]
             /\ curRid'[c] = curRid[c] \/ curRid'[c] = curRid[c] + 1
    <3>1. /\ o.client = c <=> WindowOf(o.rid) = window[c]
          /\ o.client = c => o.run = run[c] /\ o.rid < RidStart(window[c]) + curRid[c]
      BY <1>1, <2>2 DEF RunOf
    <3>2. RidStart(window[c]) \in Int /\ curRid[c] \in Int
      <4>1. window[c] \in Windows \cup {0} /\ curRid[c] \in 0 .. RidRange - 1
        BY DEF Typed, StrategyTypes
      <4>2. window[c] \in Nat
        BY ONLY <4>1, Constants
      <4>3. window[c] * RidRange \in Int
        BY <4>2, Constants
      <4>4. QED
        BY <4>1, <4>3, Constants DEF RidStart
    <3>3. QED
      BY <2>2, <3>1, <3>2
  <2>3. QED
    BY <1>1, <2>1, <2>2, StrategyMoves
<1>2. QED
  BY <1>1 DEF RunOf, InWindow, RidStart, WindowOf

(* A strategy starts when nothing of it or of its window is under way. *)
LEMMA StartSettled ==
  ASSUME SettledStart, Typed, NEW c \in Names, Start(c)
  PROVE  /\ \A o \in market : o.client # c /\ WindowOf(o.rid) # window'[c]
         /\ \A i \in Frames : feed[i].type = "order" => feed[i].client # c /\ WindowOf(feed[i].rid) # window'[c]
         /\ callback # NoCall => callback.client # c /\ WindowOf(callback.rid) # window'[c]
<1>1. PICK w \in FreeWindows : Settled(c, w) /\ window' = [window EXCEPT ![c] = w]
  BY DEF Start
<1>2. window'[c] = w
  BY <1>1 DEF Typed, StrategyTypes
<1>3. \A i \in Frames : feed[i].type = "order" => feed[i] \in OrderFrames(feed)
  BY DEF Typed, OrderFrames, Frames
<1>4. QED
  BY <1>1, <1>2, <1>3 DEF Settled

(* The order that strategy c sends is of its run, and of no other strategy. *)
LEMMA InsertedRun ==
  ASSUME Typed, WindowInv, NEW c \in Names, InsertOrder(c), NEW o, o.client = c, o.run = run[c], o.rid = GetRid(c)
  PROVE  /\ RunOf(o)' /\ o.rid = RidStart(window[c]) + curRid[c] /\ curRid'[c] = curRid[c] + 1
         /\ WindowOf(o.rid) = window[c]
<1>1. /\ window[c] \in Windows /\ window[c] \in Nat /\ curRid[c] \in Nat /\ curRid[c] < RidRange - 1
      /\ curRid' = [curRid EXCEPT ![c] = @ + 1] /\ UNCHANGED <<up, run, window>> /\ up[c]
      /\ curRid'[c] = curRid[c] + 1
  <2>1. up[c] /\ curRid[c] < RidRange - 1 /\ curRid' = [curRid EXCEPT ![c] = @ + 1] /\ UNCHANGED <<up, run, window>>
    BY DEF InsertOrder, TakesRid
  <2>2. curRid[c] \in 0 .. RidRange - 1 /\ curRid'[c] = curRid[c] + 1
    BY <2>1 DEF Typed, StrategyTypes
  <2>3. window[c] \in Windows /\ window[c] \in Nat
    BY <2>1, Constants DEF WindowInv
  <2>4. QED
    BY <2>1, <2>2, <2>3, Constants
<1>2. curRid[c] % RidRange = curRid[c]
  <2>1. curRid[c] \in 0 .. RidRange - 1 /\ RidRange * 0 + curRid[c] = curRid[c] /\ 0 \in Int
    BY <1>1, Constants
  <2>2. (RidRange * 0 + curRid[c]) % RidRange = curRid[c]
    BY <2>1, RemainderUnique, Constants
  <2>3. QED
    BY <2>1, <2>2
<1>3. /\ o.rid = RidStart(window[c]) + curRid[c] /\ WindowOf(o.rid) = window[c]
      /\ RidStart(window[c]) \in Nat
  <2>1. curRid[c] \in 0 .. RidRange - 1
    BY <1>1, Constants
  <2>2. RidStart(window[c]) \in Nat /\ WindowOf(RidStart(window[c]) + curRid[c]) = window[c]
    BY <1>1, <2>1, RidArithmetic
  <2>3. o.rid = RidStart(window[c]) + curRid[c]
    BY <1>1, <1>2, <2>2 DEF GetRid
  <2>4. QED
    BY <2>2, <2>3
<1>4. InWindow(o.rid)
  <2>1. curRid[c] \in 0 .. RidRange - 2
    BY <1>1, Constants
  <2>2. QED
    BY <1>1, <1>3, <2>1 DEF InWindow
<1>5. o.rid < RidStart(window[c]) + curRid'[c]
  BY <1>1, <1>3
<1>6. \A d \in Names : up[d] => (d = c <=> window[d] = window[c])
  BY <1>1 DEF WindowInv
<1>7. RunOf(o)'
  BY <1>1, <1>3, <1>4, <1>5, <1>6 DEF RunOf, InWindow, RidStart, WindowOf
<1>8. QED
  BY <1>1, <1>3, <1>7

LEMMA RunStep == ASSUME SettledStart, Typed, WindowInv, RunInv, [Next]_vars PROVE RunInv'
<1>1. feed \in Seq(FeedFrame) /\ Len(feed) \in Nat
  BY DEF Typed
<1>2. ASSUME NEW o, NEW i \in Frames, o = feed[i], feed[i].type = "order" PROVE RunOf(o)'
  <2>1. feed[i] \in FeedFrame
    BY <1>1 DEF Frames
  <2>2. RunOf(o) /\ o.rid \in Int
    BY <1>2, <2>1, FrameKinds DEF RunInv
  <2>3. \A c \in Names : Start(c) => o.client # c /\ WindowOf(o.rid) # window'[c]
    BY <1>2, StartSettled
  <2>4. QED
    BY <2>2, <2>3, RunKept
<1>3. ASSUME NEW p \in market' PROVE RunOf(p)'
  <2>1. ASSUME NEW o \in market, Same(p, o) PROVE RunOf(p)'
    <3>1. RunOf(o) /\ o.rid \in Int
      BY RidTyped DEF RunInv
    <3>2. \A c \in Names : Start(c) => o.client # c /\ WindowOf(o.rid) # window'[c]
      BY StartSettled
    <3>3. RunOf(o)'
      BY <3>1, <3>2, RunKept
    <3>4. QED
      BY <2>1, <3>3 DEF RunOf, Same
  <2>2. ASSUME ReqOrderInsert, p = NewOrder PROVE RunOf(p)'
    <3>1. 1 \in Frames /\ feed[1].type = "order" /\ feed[1] = Msg
      BY <2>2, Heard DEF Listen
    <3>2. PICK o : o = Msg
      OBVIOUS
    <3>3. RunOf(o)' /\ p.client = o.client /\ p.run = o.run /\ p.rid = o.rid
      BY <1>2, <2>2, <3>1, <3>2 DEF NewOrder
    <3>4. QED
      BY <3>3 DEF RunOf
  <2>3. QED
    BY <2>1, <2>2, MarketShape
<1> DEFINE OrdersOfRuns == \A i \in Frames : feed[i].type = "order" => RunOf(feed[i])
<1>4. CASE Listen
  <2>1. /\ Len(feed') \in Nat /\ Len(feed) = Len(feed') + 1
        /\ \A i \in 1 .. Len(feed') : feed'[i] = feed[i + 1]
    BY <1>4, Heard, FeedHeard DEF Typed
  <2>2. ASSUME NEW o, NEW i \in Frames', o = feed'[i], feed'[i].type = "order" PROVE RunOf(o)'
    <3>1. i + 1 \in Frames /\ feed[i + 1] = o
      BY <2>1, <2>2 DEF Frames
    <3>2. QED
      BY <1>2, <2>2, <3>1
  <2>3. OrdersOfRuns'
    BY <2>2
  <2>4. QED
    BY <1>3, <2>3 DEF RunInv
<1>5. CASE UNCHANGED feed
  <2>1. ASSUME NEW o, NEW i \in Frames', o = feed'[i], feed'[i].type = "order" PROVE RunOf(o)'
    BY <1>2, <1>5, <2>1 DEF Frames
  <2>2. OrdersOfRuns'
    BY <2>1
  <2>3. QED
    BY <1>3, <2>2 DEF RunInv
<1>6. ASSUME NEW frame \in FeedFrame, Tell(frame), frame.type = "order" => RunOf(frame)' PROVE RunInv'
  <2>1. /\ Len(feed') = Len(feed) + 1
        /\ \A i \in 1 .. Len(feed) : feed'[i] = feed[i]
        /\ feed'[Len(feed) + 1] = frame
    BY <1>6, FeedTold DEF Typed
  <2>2. ASSUME NEW o, NEW i \in Frames', o = feed'[i], feed'[i].type = "order" PROVE RunOf(o)'
    <3>1. i \in 1 .. Len(feed) \/ i = Len(feed) + 1
      BY <1>1, <2>1 DEF Frames
    <3>2. CASE i \in 1 .. Len(feed)
      BY <1>2, <2>1, <2>2, <3>2 DEF Frames
    <3>3. CASE i = Len(feed) + 1
      BY <1>6, <2>1, <2>2, <3>3
    <3>4. QED
      BY <3>1, <3>2, <3>3
  <2>3. OrdersOfRuns'
    BY <2>2
  <2>4. QED
    BY <1>3, <2>3 DEF RunInv
<1>7. CASE SwitchTradingDay /\ Tell([type |-> "switch"])
  <2>1. [type |-> "switch"] \in FeedFrame
    BY DEF FeedFrame
  <2>2. QED
    BY <1>6, <1>7, <2>1
<1>8. ASSUME NEW c \in Names, Writes(c) PROVE RunInv'
  <2>1. PICK frame \in FeedFrame : Tell(frame) /\ (frame.type = "order" => InsertedFrame(c, frame))
    BY <1>8, WritesFrame
  <2>2. ASSUME frame.type = "order" PROVE RunOf(frame)'
    BY <2>1, <2>2, InsertedRun DEF InsertedFrame
  <2>3. QED
    BY <1>6, <2>1, <2>2
<1>9. QED
  BY <1>4, <1>5, <1>7, <1>8, FeedCases

(* A frame with the request id of an order reaches the run that sent it, and nobody else. *)
LEMMA OwnIds ==
  ASSUME Typed, WindowInv, NEW rid \in Int, NEW o, RunOf(o), o.rid = rid
  PROVE  {c \in Names : Own(c, rid)} = {c \in Names : up[c] /\ o.client = c /\ o.run = run[c]}
<1>1. ASSUME NEW c \in Names, Own(c, rid) PROVE up[c] /\ o.client = c /\ o.run = run[c]
  <2>1. up[c] /\ RidStart(window[c]) <= rid /\ rid < RidStart(window[c]) + RidRange - 1
    BY <1>1 DEF Own
  <2>2. window[c] \in Nat
    BY <2>1, Constants DEF WindowInv
  <2>3. RidStart(window[c]) \in Nat
    BY <2>2, Constants DEF RidStart
  <2>4. rid - RidStart(window[c]) \in 0 .. RidRange - 1 /\ rid = RidStart(window[c]) + (rid - RidStart(window[c]))
    BY <2>1, <2>3, Constants
  <2>5. WindowOf(rid) = window[c]
    BY <2>2, <2>4, RidArithmetic
  <2>6. QED
    BY <2>1, <2>5 DEF RunOf
<1>2. ASSUME NEW c \in Names, up[c], o.client = c PROVE Own(c, rid)
  <2>1. PICK w \in Windows, k \in 0 .. RidRange - 2 : rid = RidStart(w) + k
    BY DEF RunOf, InWindow
  <2>2. w \in Nat /\ k \in 0 .. RidRange - 1
    BY Constants
  <2>3. WindowOf(rid) = w /\ RidStart(w) \in Nat
    BY <2>1, <2>2, RidArithmetic
  <2>4. window[c] = w
    BY <1>2, <2>3 DEF RunOf
  <2>5. QED
    BY <1>2, <2>1, <2>3, <2>4, Constants DEF Own
<1>3. QED
  BY <1>1, <1>2

LEMMA RunsInit == Init => WindowInv /\ RunInv
<1> SUFFICES ASSUME Init PROVE WindowInv /\ RunInv
  OBVIOUS
<1>1. market = {} /\ feed = <<>> /\ \A c \in Names : ~up[c] /\ window[c] = 0
  BY DEF Init
<1>2. Frames = {}
  BY <1>1 DEF Frames
<1>3. QED
  BY <1>1, <1>2 DEF WindowInv, RunInv

(***************************************************************************)
(* What a return writes with the request id of an order reaches the run of *)
(* the strategy that sent it and nobody else                               *)
(* (PageEngine::register_strategy, WCDataWrapper::run), if strategies      *)
(* start only when the orders of their name and of their window are        *)
(* settled; without that the run TradeRidReuse finds a counterexample.     *)
(***************************************************************************)
THEOREM IdsReachSenders == ASSUME SettledStart PROVE Spec => []RidsReachSender
<1>1. Typed /\ WindowInv /\ RunInv => RidsReachSender
  <2>1. SUFFICES ASSUME Typed, WindowInv, RunInv, NEW o \in market
                 PROVE  {c \in Names : Own(c, o.rid)} = {c \in Names : up[c] /\ o.client = c /\ o.run = run[c]}
    BY DEF RidsReachSender
  <2>2. o.rid \in Int /\ RunOf(o)
    BY <2>1, RidTyped DEF RunInv
  <2>3. QED
    BY <2>1, <2>2, OwnIds
<1>2. Typed /\ WindowInv /\ RunInv /\ [Next]_vars => (Typed /\ WindowInv /\ RunInv)'
  BY TypedStep, WindowStep, RunStep
<1>3. QED
  BY <1>1, <1>2, InitTyped, RunsInit, PTL DEF Spec

-----------------------------------------------------------------------------
(* Where returns go.                                                       *)

(* The local ids of a day are the cells of the engine's table. *)
IdsFit == localId <= EngineLimit

Cells == 0 .. EngineLimit - 1

(* Every order that was recorded is in the cell of its local id. *)
TableInv ==
  /\ \A i \in Cells : table[i] = RawOrder \/ table[i].local_id = i
  /\ \A i \in Cells : Existing(table[i]) => i < localId
  /\ \A o \in market : table[o.ref].local_id = o.ref /\ table[o.ref].order_id = o.rid
  /\ callback.call = "order" => callback.ref >= 1 /\ callback.ref < localId

SwitchTableInv ==
  \A i \in Frames : feed[i].type = "switch" => ExistingOrders(table) = {}

LEMMA NoneExisting ==
  ASSUME NEW n \in Nat \ {0}, NEW t \in Table(n), ExistingOrders(t) = {}
  PROVE  \A i \in 0 .. n - 1 : ~Existing(t[i])
<1>1. DOMAIN t = 0 .. n - 1
  BY CellCount
<1>2. ASSUME NEW i \in 0 .. n - 1, Existing(t[i]) PROVE t[i].order_id \in ExistingOrders(t)
  BY <1>1, <1>2 DEF ExistingOrders
<1>3. QED
  BY <1>2

LEMMA TableShape ==
  ASSUME Typed, [Next]_vars
  PROVE  \/ UNCHANGED table
         \/ ReqOrderInsert /\ loggedIn /\ table' = RecordOrder(table, "local_id", Msg.rid, localId)
         \/ RtnOrderDone /\ table' = SetOrderStatus(table, "local_id", callback.ref, callback.status)
<1>1. CASE \E c \in Names : Acts(c)
  BY <1>1, ActsApart DEF engineVars
<1>2. CASE \E o \in market : Returns(o) \/ MissReturn(o)
  BY <1>2, ReturnsApart DEF engineVars
<1>3. CASE SwitchTradingDay \/ OnFrontDisconnected \/ UNCHANGED vars
  BY <1>3, OutsideApart DEF engineVars
<1>4. CASE AddClient \/ RemoveClient \/ PosSet \/ SwitchDay \/ ReqOrderAction \/ EngineOpen
  BY <1>4 DEF AddClient, RemoveClient, PosSet, SwitchDay, ReqOrderAction, EngineOpen
<1>5. CASE ReqOrderInsert
  BY <1>5 DEF ReqOrderInsert
<1>6. CASE Callback
  BY <1>6 DEF Callback, RtnOrderDone, RtnTradeDone
<1>7. QED
  BY <1>1, <1>2, <1>3, <1>4, <1>5, <1>6, NextCases DEF Listen

LEMMA TableStep ==
  ASSUME RefsInv, TableInv, SwitchTableInv, IdsFit, IdsFit', [Next]_vars
  PROVE  TableInv'
<1>1. /\ Typed /\ table \in Table(EngineLimit) /\ localId \in Nat \ {0} /\ localId' \in Nat \ {0}
      /\ EngineLimit \in Nat \ {0} /\ \A i \in Cells : table[i] \in Order
      /\ \A o \in market : o.ref \in Nat /\ o \in MarketOrder
      /\ \A o \in market' : o.ref \in Nat
  BY TypedStep, Constants DEF RefsInv, Typed, EngineTypes, MarketTypes, MarketOrder, Table, Cells
<1>2. RefsInv'
  BY RefsStep
<1>3. CASE ReqOrderInsert /\ loggedIn
  <2>1. /\ table' = RecordOrder(table, "local_id", Msg.rid, localId) /\ localId' = localId + 1
        /\ market' = market \cup {NewOrder} /\ callback' = callback
    BY <1>3 DEF ReqOrderInsert
  <2>2. localId \in Cells /\ ~Existing(table[localId])
    BY <1>1, <2>1 DEF IdsFit, TableInv, Cells
  <2>3. Msg.rid \in Nat
    BY <1>1, <1>3, Heard, FrameKinds DEF Listen
  <2>4. LocateWritable(table, localId) = localId /\ localId # NoCell
    BY <1>1, <2>2, WritableFinds DEF Cells, NoCell
  <2>5. /\ table'[localId] = Entry(Msg.rid, localId)
        /\ \A i \in Cells : i # localId => table'[i] = table[i]
    BY <1>1, <2>1, <2>3, <2>4, RecordedByRef DEF Cells
  <2>6. /\ Entry(Msg.rid, localId).local_id = localId /\ Entry(Msg.rid, localId).order_id = Msg.rid
        /\ NewOrder.ref = localId /\ NewOrder.rid = Msg.rid
    BY DEF Entry, NewOrder
  <2>7. \A o \in market : o.ref \in Cells /\ o.ref # localId
    BY <1>1 DEF RefsInv, RefInv, IdsFit, Cells
  <2>8. \A i \in Cells : table'[i] = RawOrder \/ table'[i].local_id = i
    BY <2>2, <2>5, <2>6 DEF TableInv
  <2>9. \A i \in Cells : Existing(table'[i]) => i < localId'
    <3>1. \A i \in Cells : i \in Int
      BY <1>1 DEF Cells
    <3>2. \A i \in Cells : i # localId /\ Existing(table'[i]) => i < localId
      BY <2>5 DEF TableInv
    <3>3. QED
      BY <1>1, <2>1, <3>1, <3>2
  <2>10. \A o \in market' : table'[o.ref].local_id = o.ref /\ table'[o.ref].order_id = o.rid
    BY <2>1, <2>5, <2>6, <2>7 DEF TableInv
  <2>11. callback'.call = "order" => callback'.ref >= 1 /\ callback'.ref < localId'
    <3>1. callback.call = "order" => callback.ref \in Nat
      BY <1>1, CallTyped
    <3>2. QED
      BY <1>1, <2>1, <3>1 DEF TableInv
  <2>12. QED
    BY <2>8, <2>9, <2>10, <2>11 DEF TableInv, Cells
<1>4. CASE SwitchDay
  <2>1. 1 \in Frames /\ feed[1].type = "switch"
    BY <1>1, <1>4, Heard DEF Listen
  <2>2. market = {} /\ callback = NoCall /\ ExistingOrders(table) = {}
    BY <2>1 DEF RefsInv, SwitchInv, SwitchTableInv
  <2>3. market' = {} /\ callback' = NoCall /\ table' = table
    BY <1>4, <2>2 DEF SwitchDay, marketVars
  <2>4. \A i \in Cells : ~Existing(table[i])
    BY <1>1, <2>2, NoneExisting DEF Cells
  <2>5. NoCall.call # "order"
    BY DEF NoCall
  <2>6. QED
    BY <2>3, <2>4, <2>5 DEF TableInv, Cells
<1>5. ASSUME ~SwitchDay, ~(ReqOrderInsert /\ loggedIn) PROVE TableInv'
  <2>1. localId <= localId' /\ \A p \in market' : \E o \in market : Same(p, o)
    BY <1>1, <1>5, MarketShape
  <2>2. \A o \in market : o.ref \in Cells
    BY <1>1 DEF RefsInv, RefInv, IdsFit, Cells
  <2>3. ASSUME NEW i \in Cells
        PROVE  /\ table'[i].local_id = table[i].local_id /\ table'[i].order_id = table[i].order_id
               /\ table'[i] = table[i] \/ (table[i].local_id # 0 /\ ~Existing(table'[i]))
    <3>1. CASE RtnOrderDone /\ table' = SetOrderStatus(table, "local_id", callback.ref, callback.status)
      <4>1. callback.ref \in Int /\ callback.ref >= 1 /\ callback.status \in {"traded", "canceled"}
        BY <1>1, <3>1, CallTyped DEF RtnOrderDone, TableInv
      <4> DEFINE cell == LocateReadable(table, "local_id", callback.ref)
      <4>2. cell # NoCell => cell \in Cells /\ table[cell].local_id = callback.ref
        BY <1>1, <4>1, ReadableFinds DEF Cells
      <4>3. table' = IF cell = NoCell THEN table ELSE [table EXCEPT ![cell].status = callback.status]
        BY <3>1 DEF SetOrderStatus
      <4> HIDE DEF cell
      <4>4. \A x \in Order : \A s : /\ [x EXCEPT !.status = s].local_id = x.local_id
                                    /\ [x EXCEPT !.status = s].order_id = x.order_id
                                    /\ [x EXCEPT !.status = s].status = s
        BY DEF Order
      <4>5. table'[i] = table[i] \/ (i = cell /\ cell # NoCell /\ table'[i] = [table[i] EXCEPT !.status = callback.status])
        BY <1>1, <4>2, <4>3 DEF Table, Cells
      <4>6. CASE table'[i] = table[i]
        BY <4>6
      <4>7. CASE i = cell /\ cell # NoCell /\ table'[i] = [table[i] EXCEPT !.status = callback.status]
        <5>1. table[i].local_id # 0
          BY <4>1, <4>2, <4>7
        <5>2. table[i] \in Order /\ table'[i].status = callback.status
          BY <1>1, <4>4, <4>7
        <5>3. ~Existing(table'[i])
          BY <4>1, <5>2 DEF Existing
        <5>4. QED
          BY <4>4, <4>7, <5>1, <5>2, <5>3
      <4>8. QED
        BY <4>5, <4>6, <4>7
    <3>2. QED
      BY <1>1, <1>5, <3>1, TableShape
  <2>4. RawOrder.local_id = 0
    BY DEF RawOrder
  <2>5. \A i \in Cells : table'[i] = RawOrder \/ table'[i].local_id = i
    BY <2>3, <2>4 DEF TableInv
  <2>6. \A i \in Cells : Existing(table'[i]) => i < localId'
    <3>1. \A i \in Cells : i \in Int
      BY <1>1 DEF Cells
    <3>2. \A i \in Cells : Existing(table'[i]) => i < localId
      BY <2>3 DEF TableInv
    <3>3. QED
      BY <1>1, <2>1, <3>1, <3>2
  <2>7. \A p \in market' : table'[p.ref].local_id = p.ref /\ table'[p.ref].order_id = p.rid
    BY <2>1, <2>2, <2>3 DEF TableInv, Same
  <2>8. callback'.call = "order" => callback'.ref >= 1 /\ callback'.ref < localId'
    <3>1. callback.call = "order" => callback.ref \in Nat /\ callback.ref >= 1 /\ callback.ref < localId
      BY <1>1, CallTyped DEF TableInv
    <3>2. ASSUME NEW o \in market, NEW status, OnRtnOrder(o, status)
          PROVE  callback'.ref = o.ref /\ o.ref \in Nat /\ o.ref >= 1 /\ o.ref < localId
      BY <1>1, <3>2 DEF OnRtnOrder, RefsInv, RefInv
    <3>3. ASSUME NEW o \in market, OnRtnTrade(o) PROVE callback'.call # "order"
      BY <3>3 DEF OnRtnTrade
    <3>4. NoCall.call # "order"
      BY DEF NoCall
    <3>5. QED
      BY <1>1, <2>1, <3>1, <3>2, <3>3, <3>4, CallShape
  <2>9. QED
    BY <2>5, <2>6, <2>7, <2>8 DEF TableInv, Cells
<1>6. QED
  BY <1>3, <1>4, <1>5

LEMMA SwitchTableStep == ASSUME CleanSwitch, RefsInv, SwitchTableInv, [Next]_vars PROVE SwitchTableInv'
<1>1. Typed /\ feed \in Seq(FeedFrame) /\ Len(feed) \in Nat
  BY DEF RefsInv, Typed
<1>2. ASSUME NEW i \in Frames, feed[i].type = "switch" PROVE ExistingOrders(table') = {}
  <2>1. callback = NoCall /\ \A j \in 1 .. i : feed[j].type # "order"
    BY <1>2 DEF RefsInv, SwitchInv
  <2>2. ~ReqOrderInsert
    <3>1. ReqOrderInsert => feed[1].type = "order"
      BY <1>1, Heard DEF Listen
    <3>2. 1 \in 1 .. i
      BY <1>1 DEF Frames
    <3>3. QED
      BY <2>1, <3>1, <3>2
  <2>3. ~RtnOrderDone
    BY <2>1 DEF RtnOrderDone, NoCall
  <2>4. QED
    BY <1>1, <1>2, <2>2, <2>3, TableShape DEF SwitchTableInv
<1>3. CASE Listen
  <2>1. /\ Len(feed') \in Nat /\ Len(feed) = Len(feed') + 1
        /\ \A i \in 1 .. Len(feed') : feed'[i] = feed[i + 1]
    BY <1>1, <1>3, Heard, FeedHeard
  <2>2. \A i \in Frames' : i + 1 \in Frames /\ feed'[i] = feed[i + 1]
    BY <2>1 DEF Frames
  <2>3. QED
    BY <1>2, <2>2 DEF SwitchTableInv
<1>4. CASE UNCHANGED feed
  BY <1>2, <1>4 DEF SwitchTableInv, Frames
<1>5. ASSUME NEW frame \in FeedFrame, Tell(frame), frame.type = "switch" => SwitchTradingDay
      PROVE  SwitchTableInv'
  <2>1. /\ Len(feed') = Len(feed) + 1
        /\ \A i \in 1 .. Len(feed) : feed'[i] = feed[i]
        /\ feed'[Len(feed) + 1] = frame
    BY <1>1, <1>5, FeedTold
  <2>2. \A i \in Frames' : i = Len(feed) + 1 \/ (i \in Frames /\ feed'[i] = feed[i])
    BY <1>1, <2>1 DEF Frames
  <2>3. SwitchTradingDay => ExistingOrders(table') = {}
    BY DEF SwitchTradingDay, engineVars
  <2>4. QED
    BY <1>2, <1>5, <2>1, <2>2, <2>3 DEF SwitchTableInv
<1>6. CASE SwitchTradingDay /\ Tell([type |-> "switch"])
  <2>1. [type |-> "switch"] \in FeedFrame
    BY DEF FeedFrame
  <2>2. QED
    BY <1>5, <1>6, <2>1
<1>7. CASE \E c \in Names : Writes(c)
  BY <1>1, <1>5, <1>7, WritesFrame
<1>8. QED
  BY <1>1, <1>3, <1>4, <1>6, <1>7, FeedCases

RoutedInv == RefsInv /\ TableInv /\ SwitchTableInv

LEMMA RoutedInit == Init => RoutedInv
<1> SUFFICES ASSUME Init PROVE RoutedInv
  OBVIOUS
<1>1. market = {} /\ feed = <<>> /\ callback = NoCall /\ table = EmptyTable(EngineLimit)
  BY DEF Init
<1>2. \A i \in Cells : table[i] = RawOrder /\ ~Existing(table[i])
  BY <1>1 DEF Cells, EmptyTable, RawOrder, Existing
<1>3. TableInv
  BY <1>1, <1>2 DEF TableInv, NoCall
<1>4. SwitchTableInv
  BY <1>1 DEF SwitchTableInv, Frames
<1>5. QED
  BY <1>3, <1>4, RefsInit DEF RoutedInv

LEMMA RoutedStep ==
  ASSUME CleanSwitch PROVE RoutedInv /\ IdsFit /\ IdsFit' /\ [Next]_vars => RoutedInv'
BY RefsStep, TableStep, SwitchTableStep DEF RoutedInv

LEMMA RoutedOrders == RoutedInv /\ IdsFit => ReturnsRouted
<1> SUFFICES ASSUME RoutedInv, IdsFit, NEW o \in market PROVE Rid(o) = o.rid
  BY DEF ReturnsRouted
<1>1. o.ref \in Int /\ table \in Table(EngineLimit) /\ localId \in Nat
  BY RidTyped DEF RoutedInv, RefsInv, Typed, EngineTypes
<1>2. o.ref \in 0 .. EngineLimit - 1
  BY <1>1, Constants DEF RoutedInv, RefsInv, RefInv, IdsFit
<1>3. table[o.ref].local_id = o.ref /\ table[o.ref].order_id = o.rid
  BY DEF RoutedInv, TableInv
<1>4. QED
  BY <1>1, <1>2, <1>3, OrderIdOf, Constants DEF Rid

(***************************************************************************)
(* The return of an order is given the request id of that order            *)
(* (ITDEngine::on_rtn_order, on_rtn_trade;                                 *)
(* TDEngineInfoHelper::get_order_id), as long as the local ids of a day    *)
(* fit the engine's table and the day is switched when the table has no    *)
(* existing order; without the latter the run TradeDaySwitch finds a       *)
(* counterexample.                                                         *)
(***************************************************************************)
THEOREM ReturnsFindOrders == ASSUME CleanSwitch PROVE Spec /\ []IdsFit => []ReturnsRouted
BY RoutedInit, RoutedStep, RoutedOrders, PTL DEF Spec

-----------------------------------------------------------------------------
(* How frames move.                                                        *)

Shifted ==
  /\ Len(feed') \in Nat /\ Len(feed) = Len(feed') + 1 /\ 1 \in Frames /\ feed[1] = Msg
  /\ \A i \in Frames' : i \in Nat \ {0} /\ i + 1 \in Frames /\ feed'[i] = feed[i + 1]

Told(frame) ==
  /\ frame \in FeedFrame /\ Len(feed) \in Nat /\ Len(feed') = Len(feed) + 1 /\ feed'[Len(feed) + 1] = frame
  /\ \A i \in Frames : i \in Frames' /\ feed'[i] = feed[i]
  /\ \A i \in Frames' : i \in Nat \ {0} /\ (i = Len(feed) + 1 \/ (i \in Frames /\ feed'[i] = feed[i]))

FrameOf(c, frame) ==
  \/ Start(c) /\ frame.type = "login" /\ frame.window = window'[c]
  \/ End(c) /\ frame.type = "end"
  \/ AckNone(c) /\ frame.type = "pos_set"
  \/ InsertedFrame(c, frame) /\ frame.type = "order"
  \/ frame.type = "action" /\ UNCHANGED <<up, run, window, tds, inbox, internalPos>> /\ TakesRid(c)

LEMMA TellTold == ASSUME Typed, NEW frame \in FeedFrame, Tell(frame) PROVE Told(frame) /\ ~Listen
<1>1. /\ feed' \in Seq(FeedFrame) /\ Len(feed) \in Nat /\ Len(feed') = Len(feed) + 1
      /\ \A i \in 1 .. Len(feed) : feed'[i] = feed[i]
      /\ feed'[Len(feed) + 1] = frame
  BY FeedTold DEF Typed
<1>2. ~Listen
  <2>1. Listen => Len(feed') = Len(feed) - 1
    BY Heard, FeedHeard DEF Typed
  <2>2. QED
    BY <1>1, <2>1
<1>3. QED
  BY <1>1, <1>2 DEF Told, Frames

LEMMA FrameMoves ==
  ASSUME Typed, [Next]_vars
  PROVE  \/ Listen /\ Shifted /\ UNCHANGED strategyVars
         \/ ~Listen /\ UNCHANGED <<feed, up, run, window, curRid>>
         \/ /\ ~Listen /\ UNCHANGED <<engineVars, market, callback>>
            /\ \E frame \in FeedFrame :
                 /\ Told(frame)
                 /\ \/ SwitchTradingDay /\ frame.type = "switch"
                    \/ \E c \in Names : frame.client = c /\ FrameOf(c, frame)
<1>1. CASE Listen
  <2>1. /\ Len(feed') \in Nat /\ Len(feed) = Len(feed') + 1
        /\ \A i \in 1 .. Len(feed') : feed'[i] = feed[i + 1]
    BY <1>1, Heard, FeedHeard DEF Typed
  <2>2. Shifted
    BY <1>1, <2>1, Heard DEF Shifted, Frames
  <2>3. UNCHANGED strategyVars
    BY <1>1 DEF Listen, AddClient, RemoveClient, PosSet, SwitchDay, ReqOrderInsert, ReqOrderAction
  <2>4. QED
    BY <1>1, <2>2, <2>3
<1>2. ASSUME SwitchTradingDay, Tell([type |-> "switch"]) PROVE \E frame \in FeedFrame : Told(frame) /\ frame.type = "switch" /\ ~Listen
  <2>1. [type |-> "switch"] \in FeedFrame
    BY DEF FeedFrame
  <2>2. QED
    BY <1>2, <2>1, TellTold
<1>3. ASSUME NEW c \in Names, Writes(c)
      PROVE  ~Listen /\ \E frame \in FeedFrame : Told(frame) /\ frame.client = c /\ FrameOf(c, frame)
  <2>1. CASE Start(c)
    <3>1. PICK w \in Windows : window' = [window EXCEPT ![c] = w] /\ Tell([type |-> "login", client |-> c, window |-> w])
      BY <2>1 DEF Start, FreeWindows
    <3>2. [type |-> "login", client |-> c, window |-> w] \in FeedFrame
      BY DEF FeedFrame
    <3>3. window'[c] = w
      BY <3>1 DEF Typed, StrategyTypes
    <3>4. QED
      BY <2>1, <3>1, <3>2, <3>3, TellTold DEF FrameOf
  <2>2. CASE End(c)
    <3>1. [type |-> "end", client |-> c] \in FeedFrame /\ Tell([type |-> "end", client |-> c])
      BY <2>2 DEF FeedFrame, End
    <3>2. QED
      BY <2>2, <3>1, TellTold DEF FrameOf
  <2>3. CASE AckNone(c)
    <3>1. /\ [type |-> "pos_set", client |-> c, pos |-> Empty] \in FeedFrame
          /\ Tell([type |-> "pos_set", client |-> c, pos |-> Empty])
      BY <2>3 DEF FeedFrame, AckNone, Empty
    <3>2. QED
      BY <2>3, <3>1, TellTold DEF FrameOf
  <2>4. CASE InsertOrder(c)
    <3>1. PICK frame : frame = [type |-> "order", client |-> c, run |-> run[c], rid |-> GetRid(c)]
      OBVIOUS
    <3>2. frame \in FeedFrame
      BY <3>1, GetRidTyped DEF FeedFrame, Typed, StrategyTypes
    <3>3. Tell(frame) /\ InsertedFrame(c, frame)
      BY <2>4, <3>1 DEF InsertOrder, InsertedFrame
    <3>4. QED
      BY <3>1, <3>2, <3>3, TellTold DEF FrameOf
  <2>5. ASSUME NEW id \in Int, CancelOrder(c, id)
        PROVE  ~Listen /\ \E frame \in FeedFrame : Told(frame) /\ frame.client = c /\ FrameOf(c, frame)
    <3>1. [type |-> "action", client |-> c, order |-> id] \in FeedFrame
      BY DEF FeedFrame
    <3>2. Tell([type |-> "action", client |-> c, order |-> id])
          /\ UNCHANGED <<up, run, window, tds, inbox, internalPos>> /\ TakesRid(c)
      BY <2>5 DEF CancelOrder
    <3>3. QED
      BY <3>1, <3>2, TellTold DEF FrameOf
  <2>6. QED
    BY <1>3, <2>1, <2>2, <2>3, <2>4, <2>5 DEF Writes
<1>4. QED
  BY <1>1, <1>2, <1>3, FeedCases

(* A return begins with an order at the exchange, and with its request id. *)
LEMMA CallFrom ==
  ASSUME Typed, ReturnsRouted, [Next]_vars
  PROVE  \/ callback' = callback
         \/ callback' = NoCall
         \/ /\ callback = NoCall
            /\ \E o \in market :
                 /\ callback'.client = o.client /\ callback'.run = o.run /\ callback'.rid = o.rid
                 /\ \A p \in market' : (p \in market /\ p # o) \/ (p.state = "traded" /\ Same(p, o))
<1>1. ASSUME NEW o \in market, NEW status, OnRtnOrder(o, status)
      PROVE  /\ callback'.client = o.client /\ callback'.run = o.run /\ callback'.rid = o.rid /\ callback = NoCall
             /\ \A p \in market' : (p \in market /\ p # o) \/ (p.state = "traded" /\ Same(p, o))
  <2>1. o \in MarketOrder
    BY DEF Typed, MarketTypes
  <2>2. Same([o EXCEPT !.state = "traded"], o) /\ [o EXCEPT !.state = "traded"].state = "traded"
    BY <2>1 DEF MarketOrder, Same
  <2>3. \A p \in market' : (p \in market /\ p # o) \/ p = [o EXCEPT !.state = "traded"]
    BY <1>1 DEF OnRtnOrder
  <2>4. callback'.client = o.client /\ callback'.run = o.run /\ callback'.rid = Rid(o) /\ callback = NoCall
    BY <1>1 DEF OnRtnOrder
  <2>5. QED
    BY <2>2, <2>3, <2>4 DEF ReturnsRouted
<1>2. ASSUME NEW o \in market, OnRtnTrade(o)
      PROVE  /\ callback'.client = o.client /\ callback'.run = o.run /\ callback'.rid = o.rid /\ callback = NoCall
             /\ \A p \in market' : p \in market /\ p # o
  BY <1>2 DEF OnRtnTrade, ReturnsRouted
<1>3. QED
  BY <1>1, <1>2, CallShape

-----------------------------------------------------------------------------
(* What is under way when a strategy logs in.                              *)

CallRunInv == callback # NoCall => RunOf(callback)

LEMMA CallRunStep ==
  ASSUME SettledStart, Typed, ReturnsRouted, RunInv, CallRunInv, [Next]_vars
  PROVE  CallRunInv'
<1>1. ASSUME NEW o, o.rid \in Int, RunOf(o), \A c \in Names : Start(c) => o.client # c /\ WindowOf(o.rid) # window'[c],
             callback'.client = o.client, callback'.run = o.run, callback'.rid = o.rid
      PROVE  CallRunInv'
  <2>1. RunOf(o)'
    BY <1>1, RunKept
  <2>2. QED
    BY <1>1, <2>1 DEF CallRunInv, RunOf
<1>2. ASSUME callback' = callback, callback # NoCall PROVE CallRunInv'
  <2>1. callback.rid \in Int
    BY <1>2, CallTyped
  <2>2. QED
    BY <1>1, <1>2, <2>1, StartSettled DEF CallRunInv
<1>3. ASSUME NEW o \in market, callback'.client = o.client, callback'.run = o.run, callback'.rid = o.rid
      PROVE  CallRunInv'
  BY <1>1, <1>3, RidTyped, StartSettled DEF RunInv
<1>4. callback' = NoCall => CallRunInv'
  BY DEF CallRunInv
<1>5. QED
  BY <1>2, <1>3, <1>4, CallFrom

Apart(o, login) == o.client # login.client /\ WindowOf(o.rid) # login.window

(* A login comes when nothing of its client or of its window is under way. *)
LoginInv ==
  \A i \in Frames : feed[i].type = "login" =>
    /\ \A o \in market : Apart(o, feed[i])
    /\ callback # NoCall => Apart(callback, feed[i])
    /\ \A j \in 1 .. i : feed[j].type = "order" => Apart(feed[j], feed[i])

LEMMA LoginStep ==
  ASSUME SettledStart, Typed, ReturnsRouted, LoginInv, [Next]_vars
  PROVE  LoginInv'
<1>1. ASSUME NEW i \in Frames, feed[i].type = "login", NEW login, login = feed[i]
      PROVE  (\A p \in market' : Apart(p, login)) /\ (callback' # NoCall => Apart(callback', login))
  <2>1. ReqOrderInsert => Apart(NewOrder, login)
    <3>1. ReqOrderInsert => feed[1].type = "order" /\ feed[1] = Msg
      BY Heard DEF Listen
    <3>2. 1 \in 1 .. i
      BY DEF Frames
    <3>3. ReqOrderInsert => Apart(Msg, login)
      BY <1>1, <3>1, <3>2 DEF LoginInv
    <3>4. QED
      BY <3>3 DEF Apart, NewOrder
  <2>2. \A o \in market : Apart(o, login)
    BY <1>1 DEF LoginInv
  <2>3. \A p \in market' : Apart(p, login)
    BY <2>1, <2>2, MarketShape DEF Apart, Same
  <2>4. callback # NoCall => Apart(callback, login)
    BY <1>1 DEF LoginInv
  <2>5. callback' # NoCall => Apart(callback', login)
    BY <2>2, <2>4, CallFrom DEF Apart
  <2>6. QED
    BY <2>3, <2>5
<1>2. CASE Shifted
  <2>1. ASSUME NEW i \in Frames', feed'[i].type = "login", NEW j \in 1 .. i, feed'[j].type = "order"
        PROVE  Apart(feed'[j], feed'[i])
    <3>1. i \in Nat /\ i + 1 \in Frames /\ feed'[i] = feed[i + 1]
      BY <1>2 DEF Shifted
    <3>2. j \in Frames' /\ j + 1 \in 1 .. i + 1
      BY <1>2, <3>1 DEF Shifted, Frames
    <3>3. feed'[j] = feed[j + 1]
      BY <1>2, <3>2 DEF Shifted
    <3>4. QED
      BY <2>1, <3>1, <3>2, <3>3 DEF LoginInv
  <2>2. \A i \in Frames' : i + 1 \in Frames /\ feed'[i] = feed[i + 1]
    BY <1>2 DEF Shifted
  <2>3. QED
    BY <1>1, <2>1, <2>2 DEF LoginInv, Apart, WindowOf
<1>3. CASE UNCHANGED feed
  BY <1>1, <1>3 DEF LoginInv, Apart, WindowOf, Frames
<1>4. ASSUME NEW frame \in FeedFrame, Told(frame), UNCHANGED <<market, callback>>,
             frame.type = "login" => Start(frame.client) /\ frame.client \in Names /\ frame.window = window'[frame.client]
      PROVE  LoginInv'
  <2>1. ASSUME NEW i \in Frames', feed'[i].type = "login", NEW j \in 1 .. i, feed'[j].type = "order"
        PROVE  Apart(feed'[j], feed'[i])
    <3>1. j \in Frames'
      BY <1>4 DEF Told, Frames
    <3>2. CASE i \in Frames
      <4>1. j \in Frames /\ feed'[i] = feed[i] /\ feed'[j] = feed[j]
        BY <1>4, <3>2 DEF Told, Frames
      <4>2. QED
        BY <2>1, <3>2, <4>1 DEF LoginInv
    <3>3. CASE i = Len(feed) + 1
      <4>1. feed'[i] = frame /\ frame.type = "login"
        BY <1>4, <2>1, <3>3 DEF Told
      <4>2. j \in Frames /\ feed'[j] = feed[j]
        BY <1>4, <2>1, <3>1, <4>1 DEF Told
      <4>3. QED
        BY <1>4, <2>1, <4>1, <4>2, StartSettled DEF Apart
    <3>4. QED
      BY <1>4, <3>2, <3>3 DEF Told
  <2>2. ASSUME NEW i \in Frames', feed'[i].type = "login"
        PROVE  (\A p \in market' : Apart(p, feed'[i])) /\ (callback' # NoCall => Apart(callback', feed'[i]))
    <3>1. CASE i \in Frames
      BY <1>1, <1>4, <2>2, <3>1 DEF Told
    <3>2. CASE i = Len(feed) + 1
      <4>1. feed'[i] = frame /\ frame.type = "login"
        BY <1>4, <2>2, <3>2 DEF Told
      <4>2. QED
        BY <1>4, <4>1, StartSettled DEF Apart
    <3>3. QED
      BY <1>4, <3>1, <3>2 DEF Told
  <2>3. QED
    BY <2>1, <2>2 DEF LoginInv, Apart, WindowOf
<1>5. QED
  BY <1>2, <1>3, <1>4, FrameMoves DEF FrameOf

-----------------------------------------------------------------------------
(* Which orders can be cancelled.                                          *)

(* Orders have request ids of their own; of a return under way, the order may be there still, *)
(* but is not working any more.                                                               *)
UniqueRids ==
  /\ \A o, p \in market : o.rid = p.rid => o.ref = p.ref
  /\ \A o \in market : \A i \in Frames : feed[i].type = "order" => feed[i].rid # o.rid
  /\ \A i, j \in Frames : feed[i].type = "order" /\ feed[j].type = "order" /\ feed[i].rid = feed[j].rid => i = j
  /\ callback # NoCall => \A i \in Frames : feed[i].type = "order" => feed[i].rid # callback.rid
  /\ callback # NoCall => \A o \in market : o.rid = callback.rid => o.state # "working"

(* The request id of a new order is none that is under way. *)
LEMMA FreshRid ==
  ASSUME Typed, WindowInv, NEW c \in Names, InsertOrder(c), NEW new, InsertedFrame(c, new),
         NEW o, RunOf(o), o.rid \in Int
  PROVE  o.rid # new.rid
<1>1. new.rid = RidStart(window[c]) + curRid[c] /\ WindowOf(new.rid) = window[c]
  BY InsertedRun DEF InsertedFrame
<1>2. up[c] /\ window[c] \in Nat /\ curRid[c] \in Int
  <2>1. up[c] /\ curRid[c] \in 0 .. RidRange - 1
    BY DEF InsertOrder, Typed, StrategyTypes
  <2>2. window[c] \in Nat
    BY <2>1, Constants DEF WindowInv
  <2>3. QED
    BY <2>1, <2>2, Constants
<1>3. RidStart(window[c]) \in Int
  BY <1>2, Constants DEF RidStart
<1>4. ASSUME o.rid = new.rid PROVE o.rid < RidStart(window[c]) + curRid[c]
  BY <1>1, <1>2, <1>4 DEF RunOf
<1>5. QED
  BY <1>1, <1>2, <1>3, <1>4

(* Of the orders at the exchange after a step. *)
LEMMA MarketRids ==
  ASSUME Typed, UniqueRids, [Next]_vars, NEW p \in market'
  PROVE  \/ \E o \in market : Same(p, o) /\ (p.state = "working" => o.state = "working")
         \/ ReqOrderInsert /\ Listen /\ feed[1].type = "order" /\ p.rid = feed[1].rid /\ p.ref = localId
<1>1. ReqOrderInsert => Listen /\ feed[1].type = "order" /\ feed[1] = Msg
  BY Heard DEF Listen
<1>2. QED
  BY <1>1, MarketShape DEF NewOrder

LEMMA UniqueStep ==
  ASSUME RefsInv, ReturnsRouted, WindowInv, RunInv, CallRunInv, UniqueRids, [Next]_vars
  PROVE  UniqueRids'
<1> USE DEF RefsInv
<1>1. ASSUME Listen, Shifted PROVE UniqueRids'
  <2>1. UNCHANGED callback
    BY <1>1 DEF Listen, AddClient, RemoveClient, PosSet, SwitchDay, ReqOrderInsert, ReqOrderAction
  <2>2. \A i \in Frames' : i \in Nat \ {0} /\ i + 1 \in Frames /\ feed'[i] = feed[i + 1] /\ i + 1 # 1 /\ 1 \in Frames
    BY <1>1 DEF Shifted
  <2>3. ASSUME NEW p \in market', NEW q \in market', p.rid = q.rid PROVE p.ref = q.ref
    BY <1>1, <2>3, MarketRids DEF UniqueRids, Shifted, Same
  <2>4. ASSUME NEW p \in market', NEW i \in Frames', feed'[i].type = "order" PROVE feed'[i].rid # p.rid
    <3>1. i + 1 \in Frames /\ feed'[i] = feed[i + 1] /\ i + 1 # 1 /\ 1 \in Frames
      BY <2>2
    <3>2. \A o \in market : feed[i + 1].rid # o.rid
      BY <2>4, <3>1 DEF UniqueRids
    <3>3. feed[1].type = "order" => feed[i + 1].rid # feed[1].rid
      BY <2>4, <3>1 DEF UniqueRids
    <3>4. QED
      BY <3>1, <3>2, <3>3, MarketRids DEF Same
  <2>5. ASSUME NEW i \in Frames', NEW j \in Frames', feed'[i].type = "order", feed'[j].type = "order",
               feed'[i].rid = feed'[j].rid
        PROVE  i = j
    <3>1. i + 1 = j + 1
      BY <2>2, <2>5 DEF UniqueRids
    <3>2. QED
      BY <2>2, <3>1
  <2>6. ASSUME callback # NoCall, NEW i \in Frames', feed'[i].type = "order" PROVE feed'[i].rid # callback.rid
    BY <2>2, <2>6 DEF UniqueRids
  <2>7. ASSUME callback # NoCall, NEW p \in market', p.rid = callback.rid PROVE p.state # "working"
    <3>1. feed[1].type = "order" => feed[1].rid # callback.rid
      BY <1>1, <2>7 DEF UniqueRids, Shifted
    <3>2. \A o \in market : o.rid = callback.rid => o.state # "working"
      BY <2>7 DEF UniqueRids
    <3>3. QED
      BY <2>7, <3>1, <3>2, MarketRids DEF Same
  <2>8. QED
    BY <2>1, <2>3, <2>4, <2>5, <2>6, <2>7 DEF UniqueRids
<1>2. ASSUME ~Listen PROVE \A p \in market' : \E o \in market : Same(p, o) /\ (p.state = "working" => o.state = "working")
  BY <1>2, MarketRids
<1>3. ASSUME ~Listen, UNCHANGED feed PROVE UniqueRids'
  <2>1. \A p, q \in market' : p.rid = q.rid => p.ref = q.ref
    BY <1>2, <1>3 DEF UniqueRids, Same
  <2>2. \A p \in market' : \A i \in Frames : feed[i].type = "order" => feed[i].rid # p.rid
    BY <1>2, <1>3 DEF UniqueRids, Same
  <2>3. \A p \in market' : callback # NoCall /\ p.rid = callback.rid => p.state # "working"
    BY <1>2, <1>3 DEF UniqueRids, Same
  <2>4. CASE callback' = callback \/ callback' = NoCall
    BY <1>3, <2>1, <2>2, <2>3, <2>4 DEF UniqueRids, Frames
  <2>5. ASSUME NEW o \in market, callback'.rid = o.rid,
               \A p \in market' : (p \in market /\ p # o) \/ (p.state = "traded" /\ Same(p, o))
        PROVE  UniqueRids'
    <3>1. \A i \in Frames : feed[i].type = "order" => feed[i].rid # callback'.rid
      BY <2>5 DEF UniqueRids
    <3>2. ASSUME NEW p \in market', p.rid = callback'.rid PROVE p.state # "working"
      BY <2>5, <3>2 DEF UniqueRids, RefInv
    <3>3. QED
      BY <1>3, <2>1, <2>2, <3>1, <3>2 DEF UniqueRids, Frames
  <2>6. QED
    BY <2>4, <2>5, CallFrom
<1>4. ASSUME NEW frame \in FeedFrame, Told(frame), UNCHANGED <<market, callback>>, NEW c,
             frame.type = "order" => c \in Names /\ InsertedFrame(c, frame)
      PROVE  UniqueRids'
  <2>1. ASSUME NEW o, RunOf(o), o.rid \in Int, frame.type = "order" PROVE o.rid # frame.rid
    BY <1>4, <2>1, FreshRid DEF InsertedFrame
  <2>2. ASSUME frame.type = "order", NEW o \in market PROVE o.rid # frame.rid
    BY <2>1, <2>2, RidTyped DEF RunInv
  <2>3. ASSUME frame.type = "order", NEW i \in Frames, feed[i].type = "order" PROVE feed[i].rid # frame.rid
    <3>1. feed[i] \in FeedFrame
      BY DEF Frames, Typed
    <3>2. feed[i].rid \in Int
      BY <2>3, <3>1, FrameKinds
    <3>3. QED
      BY <2>1, <2>3, <3>2 DEF RunInv
  <2>4. ASSUME frame.type = "order", callback # NoCall PROVE callback.rid # frame.rid
    BY <2>1, <2>4, CallTyped DEF CallRunInv
  <2>5. \A i \in Frames' : i \in Nat /\ ((feed'[i] = frame /\ i = Len(feed) + 1) \/ (i \in Frames /\ feed'[i] = feed[i]))
    BY <1>4 DEF Told
  <2>6. ASSUME NEW i \in Frames', NEW j \in Frames', feed'[i].type = "order", feed'[j].type = "order",
               feed'[i].rid = feed'[j].rid
        PROVE  i = j
    BY <2>3, <2>5, <2>6 DEF UniqueRids
  <2>7. ASSUME NEW o \in market, NEW i \in Frames', feed'[i].type = "order" PROVE feed'[i].rid # o.rid
    BY <2>2, <2>5, <2>7 DEF UniqueRids
  <2>8. ASSUME callback # NoCall, NEW i \in Frames', feed'[i].type = "order" PROVE feed'[i].rid # callback.rid
    BY <2>4, <2>5, <2>8 DEF UniqueRids
  <2>9. QED
    BY <1>4, <2>6, <2>7, <2>8 DEF UniqueRids
<1>5. ASSUME NEW frame \in FeedFrame, Told(frame), UNCHANGED <<engineVars, market, callback>>,
             \/ SwitchTradingDay /\ frame.type = "switch"
             \/ \E c \in Names : frame.client = c /\ FrameOf(c, frame)
      PROVE  UniqueRids'
  BY <1>4, <1>5 DEF FrameOf
<1>6. QED
  BY <1>1, <1>3, <1>5, FrameMoves

(* The return of the order with this request id. *)
ReturnOf(rid) ==
  \/ RtnOrderDone /\ callback.call = "order" /\ callback.rid = rid
  \/ \E o \in market : OnRspOrderInsert(o) /\ o.rid = rid

(* The order that the engine hears is put into one cell of table "cells" of its client. *)
InsertedIn(cells, new) ==
  \E k \in 0 .. UserLimit - 1 :
    ~Existing(cells[k]) /\ new[k] = NewCell /\ \A i \in 0 .. UserLimit - 1 : i # k => new[i] = cells[i]

(* What becomes of the table of user c in a step. *)
TableMoves(c) ==
  \/ user'[c].orders = user[c].orders
  \/ ReqOrderInsert /\ Msg.client = c /\ clients[c] # "unknown" /\ InsertedIn(user[c].orders, user'[c].orders)
  \/ RemoveClient /\ Msg.client = c /\ clients[c] # "unknown" /\ AllRaw(user'[c].orders)
  \/ SwitchDay /\ AllRaw(user'[c].orders)
  \/ ~Listen /\ \A i \in 0 .. UserLimit - 1 :
       /\ SameCell(user'[c].orders[i], user[c].orders[i])
       /\ user'[c].orders[i] = user[c].orders[i] \/ ReturnOf(user[c].orders[i].order_id)

LEMMA InsertMoves ==
  ASSUME Typed, ReqOrderInsert, NEW c \in Names
  PROVE  /\ \/ user'[c].orders = user[c].orders
            \/ Msg.client = c /\ clients[c] # "unknown" /\ InsertedIn(user[c].orders, user'[c].orders)
         /\ loggedIn /\ NewOrder.kept /\ Msg.client = c =>
              \E i \in 0 .. UserLimit - 1 : user'[c].orders[i] = NewCell
<1> DEFINE d == Msg.client
           cells == user[d].orders
           new == RecordOrder(cells, "order_id", Msg.rid, localId)
<1>1. d \in Names /\ Msg.rid \in Int /\ localId \in Int
  <2>1. Listen
    BY DEF Listen
  <2>2. Msg \in FeedFrame /\ Msg.type = "order"
    BY <2>1, Heard
  <2>3. QED
    BY <2>2, FrameKinds DEF Typed, EngineTypes
<1>2. user \in [Names -> UserInfo] /\ cells \in Table(UserLimit)
  BY <1>1, TablesTyped DEF Typed, EngineTypes
<1>3. clients[d] # "unknown" /\ ((user' = user /\ ~loggedIn) \/ (loggedIn /\ user' = [user EXCEPT ![d].orders = new]))
  BY DEF ReqOrderInsert, Listened
<1>4. PICK cell :
        /\ cell = LocateWritable(cells, Msg.rid)
        /\ cell = NoCell => new = cells
        /\ cell # NoCell => /\ cell \in 0 .. UserLimit - 1 /\ ~Existing(cells[cell])
                           /\ new[cell] = NewCell
                           /\ \A i \in 0 .. UserLimit - 1 : i # cell => new[i] = cells[i]
  <2> HIDE DEF cells
  <2>1. QED
    BY <1>1, <1>2, RecordedByOrder, Constants DEF NewCell
<1>5. NewOrder.kept => cell # NoCell
  BY <1>4 DEF NewOrder
<1> HIDE DEF new
<1>6. new = cells \/ (cell # NoCell /\ InsertedIn(cells, new))
  BY <1>4 DEF InsertedIn
<1>7. ASSUME loggedIn, user' = [user EXCEPT ![d].orders = new] PROVE IF c = d THEN user'[c].orders = new ELSE user'[c] = user[c]
  BY <1>1, <1>2, <1>7 DEF UserInfo
<1>8. QED
  BY <1>3, <1>4, <1>5, <1>6, <1>7

LEMMA UserMoves == ASSUME Typed, [Next]_vars, NEW c \in Names PROVE TableMoves(c)
<1>1. user \in [Names -> UserInfo] /\ user[c] \in UserInfo /\ user[c].orders \in Table(UserLimit)
  BY TablesTyped DEF Typed, EngineTypes
<1>2. ASSUME Listen PROVE TableMoves(c)
  <2>1. Msg \in FeedFrame /\ (Msg.type # "switch" => Msg.client \in Names)
    BY <1>2, Heard, FrameKinds
  <2>2. CASE AddClient \/ PosSet
    <3>1. Msg.client \in Names /\ user' = Load(Msg.client)
      BY <1>2, <2>1, <2>2, Heard DEF AddClient, PosSet
    <3>2. user'[c].orders = user[c].orders
      BY <1>1, <3>1 DEF Load, UserInfo
    <3>3. QED
      BY <3>2 DEF TableMoves
  <2>3. CASE RemoveClient
    <3>1. Msg.client \in Names /\ (user' = user \/ (clients[Msg.client] # "unknown" /\ user' = [user EXCEPT ![Msg.client] = NoTable]))
      BY <1>2, <2>1, <2>3, Heard DEF RemoveClient
    <3>2. user'[c] = user[c] \/ (clients[c] # "unknown" /\ c = Msg.client /\ user'[c] = NoTable)
      BY <1>1, <3>1
    <3>3. QED
      BY <2>3, <3>2, RawCells DEF TableMoves, NoTable
  <2>4. CASE SwitchDay
    <3>1. user'[c] = IF user[c].loaded THEN [user[c] EXCEPT !.orders = EmptyTable(UserLimit)] ELSE user[c]
      BY <2>4 DEF SwitchDay
    <3>2. user'[c].orders = EmptyTable(UserLimit) \/ user'[c] = user[c]
      BY <1>1, <3>1 DEF UserInfo
    <3>3. QED
      BY <2>4, <3>2, RawCells DEF TableMoves
  <2>5. CASE ReqOrderInsert
    BY <2>5, InsertMoves DEF TableMoves
  <2>6. CASE ReqOrderAction
    BY <2>6 DEF ReqOrderAction, TableMoves
  <2>7. QED
    BY <1>2, <2>2, <2>3, <2>4, <2>5, <2>6 DEF Listen
<1>3. ASSUME NEW rid \in Int, NEW status \in {"traded", "canceled", "error"}, user' = StatusOf(rid, status),
             ReturnOf(rid), ~Listen
      PROVE  TableMoves(c)
  BY <1>3, StatusOfShape DEF TableMoves
<1>4. CASE RtnOrderDone /\ ~Listen
  BY <1>3, <1>4, CallTyped DEF RtnOrderDone, ReturnOf
<1>5. ASSUME NEW o \in market, OnRspOrderInsert(o), ~Listen PROVE TableMoves(c)
  <2>1. o.rid \in Int /\ user' = StatusOf(o.rid, "error")
    BY <1>5, RidTyped DEF OnRspOrderInsert
  <2>2. ReturnOf(o.rid)
    BY <1>5 DEF ReturnOf
  <2>3. QED
    BY <1>3, <1>5, <2>1, <2>2
<1>6. UNCHANGED user \/ Listen \/ RtnOrderDone \/ \E o \in market : OnRspOrderInsert(o)
  BY NextCases DEF Acts, Start, End, AckPos, AckNone, AckIgnored, ReadRtnTrade, InsertOrder, CancelOrder,
     SwitchTradingDay, EngineOpen, Returns, OnRtnOrder, OnRtnTrade, MissReturn, Callback, RtnTradeDone,
     OnFrontDisconnected, engineVars, vars
<1>7. UNCHANGED user => TableMoves(c)
  BY DEF TableMoves
<1>8. QED
  BY <1>2, <1>4, <1>5, <1>6, <1>7

(* A client is alive from its login to its end. *)
LEMMA ClientMoves ==
  ASSUME Typed, [Next]_vars, NEW c \in Names
  PROVE  /\ clients'[c] = "alive" => clients[c] = "alive" \/ (AddClient /\ Msg.client = c)
         /\ clients'[c] = "unknown" => clients[c] = "unknown"
         /\ RemoveClient /\ Msg.client = c => clients'[c] # "alive"
<1>1. clients \in [Names -> {"unknown", "known", "alive"}]
  BY DEF Typed, EngineTypes
<1>2. CASE Listen
  <2>1. Msg.type # "switch" => Msg.client \in Names
    BY <1>2, Heard, FrameKinds
  <2>2. CASE AddClient
    <3>1. ~RemoveClient
      BY <1>2, <2>2, Heard
    <3>2. Msg.client \in Names /\ (clients' = clients \/ clients' = [clients EXCEPT ![Msg.client] = "alive"])
      BY <1>2, <2>1, <2>2, Heard DEF AddClient
    <3>3. QED
      BY <1>1, <2>2, <3>1, <3>2
  <2>3. CASE RemoveClient
    <3>1. Msg.client \in Names /\ ((clients' = clients /\ clients[Msg.client] = "unknown")
                                    \/ clients' = [clients EXCEPT ![Msg.client] = "known"])
      BY <1>2, <2>1, <2>3, Heard DEF RemoveClient
    <3>2. QED
      BY <1>1, <2>3, <3>1
  <2>4. CASE (PosSet \/ SwitchDay \/ ReqOrderInsert \/ ReqOrderAction) /\ ~RemoveClient
    BY <2>4 DEF PosSet, SwitchDay, ReqOrderInsert, ReqOrderAction
  <2>5. QED
    BY <1>2, <2>2, <2>3, <2>4 DEF Listen
<1>3. CASE ~Listen
  <2>1. UNCHANGED clients
    BY <1>3, NextCases DEF Acts, Start, End, AckPos, AckNone, AckIgnored, ReadRtnTrade, InsertOrder, CancelOrder,
     SwitchTradingDay, EngineOpen, Returns, OnRtnOrder, OnRtnTrade, OnRspOrderInsert, MissReturn, Callback, RtnOrderDone,
     RtnTradeDone, OnFrontDisconnected, engineVars, vars
  <2>2. ~RemoveClient
    BY <1>3 DEF Listen
  <2>3. QED
    BY <2>1, <2>2
<1>4. QED
  BY <1>2, <1>3

EndAfter(c, i) == \E j \in Frames : j > i /\ feed[j].type = "end" /\ feed[j].client = c

(* Who sent an order that is not read is there, or its end comes after the order. *)
SentInv == \A c \in Names : \A i \in Frames : feed[i].type = "order" /\ feed[i].client = c => up[c] \/ EndAfter(c, i)

(* A strategy leaves with the frame of its end. *)
LEMMA UpMoves ==
  ASSUME Typed, NEW c \in Names, NEW frame \in FeedFrame, Told(frame),
         \/ SwitchTradingDay /\ frame.type = "switch"
         \/ \E d \in Names : frame.client = d /\ FrameOf(d, frame)
  PROVE  /\ up[c] => up'[c] \/ (frame.type = "end" /\ frame.client = c)
         /\ frame.type = "order" => InsertedFrame(frame.client, frame) /\ frame.client \in Names
<1>1. up \in [Names -> BOOLEAN]
  BY DEF Typed, StrategyTypes
<1>2. CASE SwitchTradingDay /\ frame.type = "switch"
  BY <1>2 DEF SwitchTradingDay, strategyVars
<1>3. ASSUME NEW d \in Names, frame.client = d, FrameOf(d, frame) PROVE up[c] => up'[c] \/ (frame.type = "end" /\ frame.client = c)
  <2>1. Start(d) => up' = [up EXCEPT ![d] = TRUE]
    BY DEF Start
  <2>2. End(d) => up' = [up EXCEPT ![d] = FALSE]
    BY DEF End
  <2>3. AckNone(d) \/ InsertedFrame(d, frame) => UNCHANGED up
    BY DEF AckNone, InsertedFrame, InsertOrder
  <2>4. QED
    BY <1>1, <1>3, <2>1, <2>2, <2>3 DEF FrameOf
<1>4. QED
  BY <1>2, <1>3 DEF FrameOf

LEMMA SentStep == ASSUME Typed, SentInv, [Next]_vars PROVE SentInv'
<1>1. CASE Listen /\ Shifted /\ UNCHANGED strategyVars
  <2>1. ASSUME NEW c \in Names, NEW i \in Frames', feed'[i].type = "order", feed'[i].client = c, ~up'[c]
        PROVE  EndAfter(c, i)'
    <3>1. i + 1 \in Frames /\ feed'[i] = feed[i + 1] /\ i \in Nat /\ ~up[c]
      BY <1>1, <2>1 DEF Shifted, strategyVars
    <3>2. PICK j \in Frames : j > i + 1 /\ feed[j].type = "end" /\ feed[j].client = c
      BY <2>1, <3>1 DEF SentInv, EndAfter
    <3>3. j - 1 \in Frames' /\ j - 1 > i /\ (j - 1) + 1 = j
      BY <1>1, <3>1, <3>2 DEF Shifted, Frames
    <3>4. feed'[j - 1] = feed[j]
      BY <1>1, <3>3 DEF Shifted
    <3>5. QED
      BY <3>2, <3>3, <3>4 DEF EndAfter
  <2>2. QED
    BY <2>1 DEF SentInv
<1>2. CASE UNCHANGED <<feed, up>>
  BY <1>2 DEF SentInv, EndAfter, Frames
<1>3. ASSUME NEW frame \in FeedFrame, Told(frame),
             \/ SwitchTradingDay /\ frame.type = "switch"
             \/ \E d \in Names : frame.client = d /\ FrameOf(d, frame)
      PROVE  SentInv'
  <2>1. ASSUME NEW c \in Names, NEW i \in Frames', feed'[i].type = "order", feed'[i].client = c, ~up'[c]
        PROVE  EndAfter(c, i)'
    <3>1. CASE i = Len(feed) + 1
      <4>1. frame.type = "order" /\ frame.client = c
        BY <1>3, <2>1, <3>1 DEF Told
      <4>2. up'[c]
        BY <1>3, <4>1, UpMoves DEF InsertedFrame, InsertOrder
      <4>3. QED
        BY <2>1, <4>2
    <3>2. CASE i \in Frames /\ feed'[i] = feed[i]
      <4>1. CASE EndAfter(c, i)
        BY <1>3, <4>1 DEF EndAfter, Told
      <4>2. CASE up[c]
        <5>1. frame.type = "end" /\ frame.client = c
          BY <1>3, <2>1, <4>2, UpMoves
        <5>2. Len(feed) + 1 \in Frames' /\ Len(feed) + 1 > i /\ feed'[Len(feed) + 1] = frame
          BY <1>3, <3>2 DEF Told, Frames
        <5>3. QED
          BY <5>1, <5>2 DEF EndAfter
      <4>3. QED
        BY <2>1, <3>2, <4>1, <4>2 DEF SentInv
    <3>3. QED
      BY <1>3, <3>1, <3>2 DEF Told
  <2>2. QED
    BY <2>1 DEF SentInv
<1>4. QED
  BY <1>1, <1>2, <1>3, FrameMoves

HasEnd(c) == \E i \in Frames : feed[i].type = "end" /\ feed[i].client = c

(* The request ids in the tables of users are of the runs that are there. *)
CellsInv ==
  \A c \in Names :
    /\ clients[c] = "unknown" => \A i \in 0 .. UserLimit - 1 : user[c].orders[i].order_id = 0
    /\ \/ HasEnd(c)
       \/ \A i \in 0 .. UserLimit - 1 : user[c].orders[i].order_id = 0
       \/ up[c] /\ \A i \in 0 .. UserLimit - 1 : user[c].orders[i].order_id < RidStart(window[c]) + curRid[c]
    /\ \A i, j \in 0 .. UserLimit - 1 :
         user[c].orders[i].order_id = user[c].orders[j].order_id /\ i # j => user[c].orders[i].order_id = 0

(* An order that comes before the end of its client has a request id that is in no cell. *)
NewIdsInv ==
  \A c \in Names : \A i \in Frames :
    feed[i].type = "order" /\ feed[i].client = c /\ (\A j \in 1 .. i : ~(feed[j].type = "end" /\ feed[j].client = c)) =>
      \A k \in 0 .. UserLimit - 1 : user[c].orders[k].order_id # feed[i].rid

LEMMA RidsPositive ==
  ASSUME Typed, WindowInv
  PROVE  /\ \A rid : InWindow(rid) => rid \in Nat \ {0}
         /\ \A c \in Names : RidStart(window[c]) \in Int /\ curRid[c] \in Nat
         /\ \A c \in Names : up[c] => RidStart(window[c]) \in Nat \ {0}
<1>1. ASSUME NEW w \in Nat \ {0} PROVE RidStart(w) \in Nat \ {0}
  <2>1. RidRange \in Nat \ {0}
    BY Constants
  <2>2. w * RidRange \in Nat \ {0}
    BY ONLY <2>1, <1>1
  <2>3. QED
    BY <2>2 DEF RidStart
<1>2. RidStart(0) = 0
  BY Constants DEF RidStart
<1>3. ASSUME NEW rid, InWindow(rid) PROVE rid \in Nat \ {0}
  <2>1. PICK w \in Windows, k \in 0 .. RidRange - 2 : rid = RidStart(w) + k
    BY <1>3 DEF InWindow
  <2>2. RidStart(w) \in Nat \ {0} /\ k \in Nat
    BY <1>1, Constants
  <2>3. QED
    BY <2>1, <2>2
<1>4. ASSUME NEW c \in Names PROVE RidStart(window[c]) \in Int /\ curRid[c] \in Nat
  <2>1. window[c] \in Windows \cup {0} /\ curRid[c] \in 0 .. RidRange - 1
    BY DEF Typed, StrategyTypes
  <2>2. RidStart(window[c]) \in Int
    BY <1>1, <1>2, <2>1, Constants
  <2>3. QED
    BY <2>1, <2>2, Constants
<1>5. ASSUME NEW c \in Names, up[c] PROVE RidStart(window[c]) \in Nat \ {0}
  BY <1>1, <1>5, Constants DEF WindowInv
<1>6. QED
  BY <1>3, <1>4, <1>5

(* At its end the table of a client is cleared, if it has been one. *)
LEMMA EndClears ==
  ASSUME Typed, CellsInv, RemoveClient, Msg.client \in Names
  PROVE  \A i \in 0 .. UserLimit - 1 : user'[Msg.client].orders[i].order_id = 0
<1>1. CASE clients[Msg.client] = "unknown"
  BY <1>1 DEF RemoveClient, CellsInv
<1>2. CASE clients[Msg.client] # "unknown"
  <2>1. user' = [user EXCEPT ![Msg.client] = NoTable] /\ user \in [Names -> UserInfo]
    BY <1>2 DEF RemoveClient, Typed, EngineTypes
  <2>2. user'[Msg.client].orders = EmptyTable(UserLimit)
    BY <2>1 DEF NoTable
  <2>3. QED
    BY <2>2, RawCells DEF AllRaw, RawOrder
<1>3. QED
  BY <1>1, <1>2

LEMMA CellsStep ==
  ASSUME Typed, WindowInv, RunInv, SentInv, CellsInv, NewIdsInv, [Next]_vars
  PROVE  CellsInv'
<1>1. SUFFICES ASSUME NEW c \in Names, NEW old, old = user[c].orders, NEW new, new = user'[c].orders
               PROVE  /\ clients'[c] = "unknown" => \A i \in 0 .. UserLimit - 1 : new[i].order_id = 0
                      /\ \/ HasEnd(c)'
                         \/ \A i \in 0 .. UserLimit - 1 : new[i].order_id = 0
                         \/ up'[c] /\ \A i \in 0 .. UserLimit - 1 : new[i].order_id < RidStart(window'[c]) + curRid'[c]
                      /\ \A i, j \in 0 .. UserLimit - 1 :
                           new[i].order_id = new[j].order_id /\ i # j => new[i].order_id = 0
  BY DEF CellsInv, RidStart
<1>2. /\ TableMoves(c) /\ (AllRaw(new) => \A i \in 0 .. UserLimit - 1 : new[i].order_id = 0)
      /\ \A i \in 0 .. UserLimit - 1 : old[i].order_id \in Int
  <2>1. TableMoves(c)
    BY UserMoves
  <2>2. old \in Table(UserLimit)
    BY <1>1, TablesTyped
  <2>3. QED
    BY <2>1, <2>2 DEF AllRaw, RawOrder, Table, Order
<1>3. ReqOrderInsert => /\ feed[1] = Msg /\ 1 \in Frames /\ feed[1].type = "order" /\ Listen
                        /\ Msg.rid \in Nat \ {0} /\ Msg \in FeedFrame
  BY Heard, RidsPositive DEF Listen, RunInv, RunOf
<1>4. NewCell.order_id = Msg.rid
  BY DEF NewCell, Entry
<1>5. clients'[c] = "unknown" => \A i \in 0 .. UserLimit - 1 : new[i].order_id = 0
  BY <1>1, <1>2, ClientMoves DEF TableMoves, CellsInv, SameCell
<1>6. \A i, j \in 0 .. UserLimit - 1 : new[i].order_id = new[j].order_id /\ i # j => new[i].order_id = 0
  <2>1. \A i, j \in 0 .. UserLimit - 1 : old[i].order_id = old[j].order_id /\ i # j => old[i].order_id = 0
    BY <1>1 DEF CellsInv
  <2>2. ASSUME ReqOrderInsert, Msg.client = c, InsertedIn(old, new)
        PROVE  \A i, j \in 0 .. UserLimit - 1 : new[i].order_id = new[j].order_id /\ i # j => new[i].order_id = 0
    <3>1. \A k \in 0 .. UserLimit - 1 : old[k].order_id # Msg.rid
      <4>1. \A j \in 1 .. 1 : ~(feed[j].type = "end" /\ feed[j].client = c)
        BY <1>3, <2>2
      <4>2. QED
        BY <1>1, <1>3, <2>2, <4>1 DEF NewIdsInv
    <3>2. QED
      BY <1>4, <2>1, <2>2, <3>1 DEF InsertedIn
  <2>3. QED
    BY <1>1, <1>2, <2>1, <2>2 DEF TableMoves, SameCell
<1>7. \/ HasEnd(c)
      \/ \A i \in 0 .. UserLimit - 1 : old[i].order_id = 0
      \/ up[c] /\ \A i \in 0 .. UserLimit - 1 : old[i].order_id < RidStart(window[c]) + curRid[c]
  BY <1>1 DEF CellsInv
<1> DEFINE Goal == \/ HasEnd(c)'
                   \/ \A i \in 0 .. UserLimit - 1 : new[i].order_id = 0
                   \/ up'[c] /\ \A i \in 0 .. UserLimit - 1 : new[i].order_id < RidStart(window'[c]) + curRid'[c]
<1>8. ASSUME Listen, Shifted, UNCHANGED strategyVars PROVE Goal
  <2>1. up'[c] = up[c] /\ window'[c] = window[c] /\ curRid'[c] = curRid[c]
    BY <1>8 DEF strategyVars
  <2>2. ASSUME NEW j \in Frames, j > 1, feed[j].type = "end", feed[j].client = c PROVE HasEnd(c)'
    <3>1. j - 1 \in Frames' /\ (j - 1) + 1 = j
      BY <1>8, <2>2 DEF Shifted, Frames
    <3>2. feed'[j - 1] = feed[j]
      BY <1>8, <3>1 DEF Shifted
    <3>3. QED
      BY <2>2, <3>1, <3>2 DEF HasEnd
  <2>3. CASE RemoveClient /\ Msg.client = c
    BY <1>1, <2>3, EndClears
  <2>4. CASE ~(RemoveClient /\ Msg.client = c)
    <3>1. HasEnd(c) => HasEnd(c)'
      <4>1. ~(feed[1].type = "end" /\ feed[1].client = c)
        BY <1>8, <2>4, Heard
      <4>2. \A j \in Frames : j = 1 \/ j > 1
        BY DEF Frames
      <4>3. QED
        BY <2>2, <4>1, <4>2 DEF HasEnd
    <3>2. CASE ReqOrderInsert /\ Msg.client = c /\ InsertedIn(old, new)
      <4>1. up[c] \/ HasEnd(c)'
        BY <1>3, <2>2, <3>2 DEF SentInv, EndAfter
      <4>2. ASSUME up[c] PROVE Msg.rid < RidStart(window[c]) + curRid[c]
        BY <1>3, <3>2, <4>2 DEF RunInv, RunOf
      <4>3. up[c] => 0 < RidStart(window[c]) + curRid[c]
        BY RidsPositive
      <4>4. ASSUME up[c], \A i \in 0 .. UserLimit - 1 : old[i].order_id < RidStart(window[c]) + curRid[c] PROVE Goal
        BY <1>4, <2>1, <3>2, <4>2, <4>4 DEF InsertedIn
      <4>5. QED
        BY <1>7, <3>1, <4>1, <4>3, <4>4
    <3>3. CASE new = old \/ AllRaw(new)
      BY <1>2, <1>7, <2>1, <3>1, <3>3
    <3>4. QED
      BY <1>1, <1>2, <1>8, <3>2, <3>3 DEF TableMoves
  <2>5. QED
    BY <2>3, <2>4
<1>9. ASSUME ~Listen PROVE Goal
  <2>1. \A i \in 0 .. UserLimit - 1 : new[i].order_id = old[i].order_id
    BY <1>1, <1>2, <1>9 DEF TableMoves, Listen, SameCell
  <2>2. CASE UNCHANGED <<feed, up, run, window, curRid>>
    BY <1>7, <2>1, <2>2 DEF HasEnd, Frames
  <2>3. ASSUME NEW frame \in FeedFrame, Told(frame),
               \/ SwitchTradingDay /\ frame.type = "switch"
               \/ \E d \in Names : frame.client = d /\ FrameOf(d, frame)
        PROVE  Goal
    <3>1. HasEnd(c) => HasEnd(c)'
      BY <2>3 DEF HasEnd, Told
    <3>2. ASSUME up[c], \A i \in 0 .. UserLimit - 1 : old[i].order_id < RidStart(window[c]) + curRid[c]
          PROVE  Goal
      <4>1. CASE up'[c] /\ ~Start(c)
        <5>1. up'[c] = up[c] /\ window'[c] = window[c] /\ (curRid'[c] = curRid[c] \/ curRid'[c] = curRid[c] + 1)
          BY <4>1, StrategyMoves
        <5>2. RidStart(window[c]) \in Int /\ curRid[c] \in Int
          BY RidsPositive
        <5>3. QED
          BY <1>2, <2>1, <3>2, <5>1, <5>2
      <4>2. CASE ~up'[c]
        <5>1. frame.type = "end" /\ frame.client = c
          BY <2>3, <3>2, <4>2, UpMoves
        <5>2. HasEnd(c)'
          <6>1. Len(feed) + 1 \in Frames' /\ feed'[Len(feed) + 1] = frame
            BY <2>3 DEF Told, Frames
          <6>2. QED
            BY <5>1, <6>1 DEF HasEnd
        <5>3. QED
          BY <5>2
      <4>3. ~Start(c)
        BY <3>2 DEF Start
      <4>4. QED
        BY <4>1, <4>2, <4>3
    <3>3. QED
      BY <1>7, <2>1, <3>1, <3>2
  <2>4. QED
    BY <1>9, <2>2, <2>3, FrameMoves
<1>10. QED
  BY <1>5, <1>6, <1>8, <1>9, FrameMoves

LEMMA NewIdsStep ==
  ASSUME Typed, WindowInv, RunInv, UniqueRids, CellsInv, NewIdsInv, [Next]_vars
  PROVE  NewIdsInv'
<1>1. SUFFICES ASSUME NEW c \in Names, NEW i \in Frames', feed'[i].type = "order", feed'[i].client = c,
                      \A j \in 1 .. i : ~(feed'[j].type = "end" /\ feed'[j].client = c),
                      NEW old, old = user[c].orders, NEW new, new = user'[c].orders, NEW k \in 0 .. UserLimit - 1
               PROVE  new[k].order_id # feed'[i].rid
  BY DEF NewIdsInv
<1>2. TableMoves(c)
  BY UserMoves
<1>3. \A n \in Frames : feed[n].type = "order" => feed[n].rid \in Nat \ {0}
  BY RidsPositive DEF RunInv, RunOf
<1>4. CASE Listen /\ Shifted /\ UNCHANGED strategyVars
  <2>1. i \in Nat \ {0} /\ i + 1 \in Frames /\ feed'[i] = feed[i + 1] /\ 1 \in Frames /\ feed[1] = Msg
    BY <1>4 DEF Shifted
  <2>2. feed[i + 1].rid \in Nat \ {0} /\ i + 1 # 1
    BY <1>1, <1>3, <2>1
  <2>3. CASE RemoveClient /\ Msg.client = c
    BY <1>1, <2>1, <2>2, <2>3, EndClears
  <2>4. CASE ~(RemoveClient /\ Msg.client = c)
    <3>1. \A j \in 1 .. i + 1 : ~(feed[j].type = "end" /\ feed[j].client = c)
      <4>1. ~(feed[1].type = "end" /\ feed[1].client = c)
        BY <1>4, <2>4, Heard
      <4>2. ASSUME NEW j \in 1 .. i + 1, j # 1 PROVE feed'[j - 1] = feed[j] /\ j - 1 \in 1 .. i
        <5>1. j - 1 \in Frames' /\ (j - 1) + 1 = j /\ j - 1 \in 1 .. i
          BY <1>4, <2>1, <4>2 DEF Shifted, Frames
        <5>2. QED
          BY <1>4, <5>1 DEF Shifted
      <4>3. QED
        BY <1>1, <4>1, <4>2
    <3>2. old[k].order_id # feed[i + 1].rid
      BY <1>1, <2>1, <3>1 DEF NewIdsInv
    <3>3. ReqOrderInsert => Msg.rid # feed[i + 1].rid
      <4>1. ReqOrderInsert => feed[1].type = "order"
        BY <1>4, Heard
      <4>2. QED
        BY <1>1, <2>1, <2>2, <4>1 DEF UniqueRids
    <3>4. NewCell.order_id = Msg.rid
      BY DEF NewCell, Entry
    <3>5. AllRaw(new) => new[k].order_id = 0
      BY DEF AllRaw, RawOrder
    <3>6. QED
      BY <1>1, <1>2, <1>4, <2>1, <2>2, <3>2, <3>3, <3>4, <3>5 DEF TableMoves, InsertedIn
  <2>5. QED
    BY <2>3, <2>4
<1>5. CASE ~Listen
  <2>1. new[k].order_id = old[k].order_id
    BY <1>1, <1>2, <1>5 DEF TableMoves, Listen, SameCell
  <2>2. CASE UNCHANGED feed
    BY <1>1, <2>1, <2>2 DEF NewIdsInv, Frames
  <2>3. ASSUME NEW frame \in FeedFrame, Told(frame),
               \/ SwitchTradingDay /\ frame.type = "switch"
               \/ \E d \in Names : frame.client = d /\ FrameOf(d, frame)
        PROVE  new[k].order_id # feed'[i].rid
    <3>1. \A j \in Frames : j <= i => ~(feed[j].type = "end" /\ feed[j].client = c)
      BY <1>1, <2>3 DEF Told, Frames
    <3>2. CASE i \in Frames /\ feed'[i] = feed[i]
      BY <1>1, <2>1, <3>1, <3>2 DEF NewIdsInv, Frames
    <3>3. CASE i = Len(feed) + 1
      <4>1. frame.type = "order" /\ frame.client = c /\ feed'[i] = frame
        BY <1>1, <2>3, <3>3 DEF Told
      <4>2. InsertedFrame(c, frame)
        BY <2>3, <4>1, UpMoves
      <4>3. frame.rid = RidStart(window[c]) + curRid[c] /\ up[c]
        BY <4>2, InsertedRun DEF InsertedFrame, InsertOrder
      <4>4. ~HasEnd(c)
        BY <3>1, <3>3, <2>3 DEF HasEnd, Told, Frames
      <4>5. RidStart(window[c]) \in Nat \ {0} /\ curRid[c] \in Nat
        BY <4>3, RidsPositive
      <4>6. \/ old[k].order_id = 0
            \/ old[k].order_id < RidStart(window[c]) + curRid[c]
        BY <1>1, <4>4 DEF CellsInv
      <4>7. QED
        BY <2>1, <4>1, <4>3, <4>5, <4>6
    <3>4. QED
      BY <2>3, <3>2, <3>3 DEF Told
  <2>4. QED
    BY <1>5, <2>2, <2>3, FrameMoves
<1>6. QED
  BY <1>4, <1>5, FrameMoves

KeptIn(cells, rid, ref) == \E i \in 0 .. UserLimit - 1 : cells[i] = Entry(rid, ref)

(* A working order that was put into the table of its client stays there while the client is alive. *)
KeptInv ==
  \A o \in market : o.state = "working" /\ o.kept /\ clients[o.client] = "alive" =>
    KeptIn(user[o.client].orders, o.rid, o.ref)

LEMMA KeptStep ==
  ASSUME RefsInv, ReturnsRouted, LoginInv, UniqueRids, KeptInv, [Next]_vars
  PROVE  KeptInv'
<1>1. SUFFICES ASSUME NEW p \in market', p.state = "working", p.kept, NEW c, c = p.client, clients'[c] = "alive",
                      NEW old, old = user[c].orders, NEW new, new = user'[c].orders
               PROVE  KeptIn(new, p.rid, p.ref)
  BY DEF KeptInv, KeptIn
<1>2. Typed /\ p \in MarketOrder /\ c \in Names
  <2>1. Typed' /\ Typed
    BY TypedStep DEF RefsInv
  <2>2. QED
    BY <1>1, <2>1 DEF Typed, MarketTypes, MarketOrder
<1>3. ASSUME NEW o \in market, Same(p, o), o.state = "working" PROVE KeptIn(new, p.rid, p.ref)
  <2>1. clients[c] = "alive"
    <3>1. CASE AddClient /\ Msg.client = c
      <4>1. feed[1].type = "login" /\ feed[1] = Msg /\ 1 \in Frames
        BY <1>2, <3>1, Heard DEF Listen
      <4>2. Apart(o, feed[1])
        BY <4>1 DEF LoginInv
      <4>3. QED
        BY <1>1, <1>3, <3>1, <4>1, <4>2 DEF Apart, Same
    <3>2. QED
      BY <1>1, <1>2, <3>1, ClientMoves
  <2>2. PICK i \in 0 .. UserLimit - 1 : old[i] = Entry(p.rid, p.ref)
    BY <1>1, <1>3, <2>1 DEF KeptInv, KeptIn, Same
  <2>3. Existing(old[i]) /\ old[i].order_id = p.rid
    BY <2>2 DEF Entry, Existing
  <2>4. new[i] = old[i] => KeptIn(new, p.rid, p.ref)
    BY <2>2 DEF KeptIn
  <2>5. InsertedIn(old, new) => new[i] = old[i]
    BY <2>3 DEF InsertedIn
  <2>6. ~SwitchDay
    <3>1. SwitchDay => feed[1].type = "switch" /\ 1 \in Frames
      BY <1>2, Heard DEF Listen
    <3>2. QED
      BY <1>3, <3>1 DEF RefsInv, SwitchInv
  <2>7. ~(RemoveClient /\ Msg.client = c)
    BY <1>1, <1>2, ClientMoves
  <2>8. ~ReturnOf(p.rid)
    <3>1. ASSUME RtnOrderDone, callback.call = "order", callback.rid = p.rid PROVE FALSE
      <4>1. callback # NoCall
        BY <3>1 DEF NoCall
      <4>2. QED
        BY <1>3, <3>1, <4>1 DEF UniqueRids, Same
    <3>2. ASSUME NEW q \in market, OnRspOrderInsert(q), q.rid = p.rid PROVE FALSE
      <4>1. q.ref = o.ref /\ market' = market \ {q}
        BY <1>3, <3>2 DEF UniqueRids, Same, OnRspOrderInsert
      <4>2. p \in market /\ p # q /\ p.ref = q.ref
        BY <1>3, <4>1 DEF Same
      <4>3. QED
        BY <4>2 DEF RefsInv, RefInv
    <3>3. QED
      BY <3>1, <3>2 DEF ReturnOf
  <2>9. TableMoves(c)
    BY <1>2, UserMoves
  <2>10. QED
    BY <1>1, <2>3, <2>4, <2>5, <2>6, <2>7, <2>8, <2>9 DEF TableMoves
<1>4. ASSUME ReqOrderInsert, loggedIn, p = NewOrder PROVE KeptIn(new, p.rid, p.ref)
  <2>1. Msg.client = c /\ p.rid = Msg.rid /\ p.ref = localId
    BY <1>1, <1>4 DEF NewOrder
  <2>2. \E i \in 0 .. UserLimit - 1 : new[i] = NewCell
    BY <1>1, <1>2, <1>4, <2>1, InsertMoves
  <2>3. QED
    BY <2>1, <2>2 DEF KeptIn, NewCell
<1>5. QED
  BY <1>1, <1>2, <1>3, <1>4, MarketShape

OrdersInv ==
  /\ RoutedInv /\ WindowInv /\ RunInv /\ CallRunInv /\ LoginInv /\ UniqueRids
  /\ SentInv /\ CellsInv /\ NewIdsInv /\ KeptInv

LEMMA OrdersInit == Init => OrdersInv
<1> SUFFICES ASSUME Init PROVE OrdersInv
  OBVIOUS
<1>1. market = {} /\ feed = <<>> /\ callback = NoCall /\ \A c \in Names : user[c] = NoTable
  BY DEF Init
<1>2. Frames = {}
  BY <1>1 DEF Frames
<1>3. \A i \in 0 .. UserLimit - 1 : NoTable.orders[i].order_id = 0
  BY RawCells DEF NoTable, AllRaw, RawOrder
<1>4. CellsInv
  BY <1>1, <1>3 DEF CellsInv
<1>5. SentInv /\ NewIdsInv /\ KeptInv /\ UniqueRids /\ LoginInv /\ CallRunInv
  BY <1>1, <1>2 DEF SentInv, NewIdsInv, KeptInv, UniqueRids, LoginInv, CallRunInv
<1>6. QED
  BY <1>4, <1>5, RoutedInit, RunsInit DEF OrdersInv

LEMMA OrdersStep ==
  ASSUME SettledStart, CleanSwitch PROVE OrdersInv /\ IdsFit /\ IdsFit' /\ [Next]_vars => OrdersInv'
<1> SUFFICES ASSUME OrdersInv, IdsFit, IdsFit', [Next]_vars PROVE OrdersInv'
  OBVIOUS
<1> USE DEF OrdersInv
<1>1. Typed /\ RefsInv /\ ReturnsRouted
  BY RoutedOrders DEF RoutedInv, RefsInv
<1>2. RoutedInv'
  BY RoutedStep
<1>3. WindowInv' /\ RunInv' /\ CallRunInv' /\ LoginInv'
  BY <1>1, WindowStep, RunStep, CallRunStep, LoginStep
<1>4. UniqueRids'
  BY <1>1, UniqueStep
<1>5. SentInv' /\ CellsInv' /\ NewIdsInv'
  BY <1>1, SentStep, CellsStep, NewIdsStep
<1>6. KeptInv'
  BY <1>1, KeptStep
<1>7. QED
  BY <1>2, <1>3, <1>4, <1>5, <1>6

(* Only one cell has the request id of an order, so the search finds that one. *)
LEMMA KeptFound ==
  ASSUME Typed, WindowInv, CellsInv, NEW c \in Names, NEW rid, InWindow(rid), NEW ref,
         KeptIn(user[c].orders, rid, ref)
  PROVE  LocalId(user[c].orders, rid) = ref /\ rid \in ExistingOrders(user[c].orders)
<1> DEFINE t == user[c].orders
<1>1. PICK i \in 0 .. UserLimit - 1 : t[i] = Entry(rid, ref)
  BY DEF KeptIn
<1>2. t[i].order_id = rid /\ t[i].local_id = ref /\ Existing(t[i]) /\ rid \in Nat \ {0}
  BY <1>1, RidsPositive DEF Entry, Existing
<1>3. t \in Table(UserLimit) /\ DOMAIN t = 0 .. UserLimit - 1
  BY TablesTyped, CellCount, Constants
<1>4. \A j \in 0 .. UserLimit - 1 : t[j].order_id = rid => j = i
  BY <1>2 DEF CellsInv
<1>5. LocalId(t, rid) = ref
  <2> DEFINE cell == LocateReadable(t, "order_id", rid)
  <2>1. LocalId(t, rid) = IF cell = NoCell THEN -1 ELSE t[cell].local_id
    BY DEF LocalId
  <2> HIDE DEF t
  <2>2. /\ cell = NoCell => \A j \in 0 .. UserLimit - 1 : t[j].order_id # rid
        /\ cell # NoCell => cell \in 0 .. UserLimit - 1 /\ t[cell].order_id = rid
    BY <1>2, <1>3, ReadableFinds, Constants
  <2> HIDE DEF cell
  <2>3. cell = i /\ cell # NoCell
    BY <1>2, <1>4, <2>2
  <2>4. QED
    BY <1>2, <2>1, <2>3
<1>6. rid \in ExistingOrders(t)
  BY <1>2, <1>3 DEF ExistingOrders
<1>7. QED
  BY <1>5, <1>6

(***************************************************************************)
(* A working order whose client is there is found under its request id     *)
(* (TDUserInfoHelper::locate_readable, get_existing_orders), if the table  *)
(* of the user took it: under the conditions of the two theorems above,    *)
(* which make request ids unique.                                          *)
(***************************************************************************)
THEOREM WorkingOrdersCancellable ==
  ASSUME SettledStart, CleanSwitch PROVE Spec /\ []IdsFit => []OrdersCancellable
<1>1. OrdersInv => OrdersCancellable
  <2>1. SUFFICES ASSUME OrdersInv, NEW o \in market, o.state = "working", o.kept, clients[o.client] = "alive"
                 PROVE  /\ LocalId(user[o.client].orders, o.rid) = o.ref
                        /\ o.rid \in ExistingOrders(user[o.client].orders)
    BY DEF OrdersCancellable
  <2>2. Typed /\ o.client \in Names /\ InWindow(o.rid)
    BY <2>1, RidTyped DEF OrdersInv, RoutedInv, RefsInv, RunInv, RunOf
  <2>3. KeptIn(user[o.client].orders, o.rid, o.ref)
    BY <2>1 DEF OrdersInv, KeptInv
  <2>4. QED
    BY <2>1, <2>2, <2>3, KeptFound DEF OrdersInv
<1>2. QED
  BY <1>1, OrdersInit, OrdersStep, PTL DEF Spec

-----------------------------------------------------------------------------
(* When strategy and engine count the same trades.                         *)

Alive(c) == clients[c] = "alive"
Ready(c) == up[c] /\ TdIsReady(c)

(* The clients that the engine gives a position: listed ones, or all if there is a default account. *)
CanTrade(c) == HasDefault \/ clients[c] # "unknown"

IsFrame(i, type, c) == feed[i].type = type /\ feed[i].client = c

(* Where client c is alive for the engine: from a login on, until an end. *)
Logins(c) == {i \in 0 .. Len(feed) : IF i = 0 THEN Alive(c) ELSE IsFrame(i, "login", c)}
In(c, k) == Since(Logins(c), Ends(c), k)

(* Logins and ends of a client take turns, and positions are set between them. *)
AltInv ==
  \A c \in Names : CanTrade(c) =>
    /\ up[c] <=> In(c, Len(feed))
    /\ \A i \in Frames : /\ IsFrame(i, "end", c) \/ IsFrame(i, "pos_set", c) => In(c, i - 1)
                         /\ IsFrame(i, "login", c) => ~In(c, i - 1)

LEMMA ClientsHear ==
  ASSUME Typed, Listen, NEW c \in Names
  PROVE  /\ CanTrade(c)' <=> CanTrade(c)
         /\ CanTrade(c) => (Alive(c)' <=> \/ Msg.type = "login" /\ Msg.client = c
                                          \/ Alive(c) /\ ~(Msg.type = "end" /\ Msg.client = c))
         /\ ~CanTrade(c) => clients[c] = "unknown" /\ ~Alive(c) /\ ~Alive(c)'
<1>1. clients \in [Names -> {"unknown", "known", "alive"}]
  BY DEF Typed, EngineTypes
<1>2. Msg.type # "switch" => Msg.client \in Names
  BY Heard, FrameKinds
<1>3. CASE AddClient
  <2>1. Msg.type = "login" /\ Msg.client \in Names
    BY <1>2, <1>3, Heard
  <2>2. IF clients[Msg.client] = "unknown" /\ ~HasDefault
        THEN clients' = clients ELSE clients' = [clients EXCEPT ![Msg.client] = "alive"]
    BY <1>3 DEF AddClient
  <2>3. QED
    BY <1>1, <2>1, <2>2 DEF CanTrade, Alive
<1>4. CASE RemoveClient
  <2>1. Msg.type = "end" /\ Msg.client \in Names
    BY <1>2, <1>4, Heard
  <2>2. IF clients[Msg.client] = "unknown"
        THEN clients' = clients ELSE clients' = [clients EXCEPT ![Msg.client] = "known"]
    BY <1>4 DEF RemoveClient
  <2>3. QED
    BY <1>1, <2>1, <2>2 DEF CanTrade, Alive
<1>5. CASE PosSet \/ SwitchDay \/ ReqOrderInsert \/ ReqOrderAction
  <2>1. Msg.type \notin {"login", "end"}
    BY <1>5, Heard
  <2>2. UNCHANGED clients
    BY <1>5 DEF PosSet, SwitchDay, ReqOrderInsert, ReqOrderAction
  <2>3. QED
    BY <2>1, <2>2 DEF CanTrade, Alive
<1>6. QED
  BY <1>3, <1>4, <1>5 DEF Listen

LEMMA ClientsKept ==
  ASSUME [Next]_vars, ~Listen
  PROVE  UNCHANGED clients
BY NextCases DEF Acts, Start, End, AckPos, AckNone, AckIgnored, ReadRtnTrade, InsertOrder, CancelOrder,
   SwitchTradingDay, EngineOpen, Returns, OnRtnOrder, OnRtnTrade, OnRspOrderInsert, MissReturn, Callback, RtnOrderDone,
   RtnTradeDone, OnFrontDisconnected, engineVars, vars

LEMMA InTold ==
  ASSUME NEW frame, Told(frame), UNCHANGED clients, NEW c \in Names, NEW n, n = Len(feed)
  PROVE  /\ \A k \in 0 .. n : In(c, k)' <=> In(c, k)
         /\ In(c, n + 1)' <=> \/ frame.type = "login" /\ frame.client = c
                              \/ ~(frame.type = "end" /\ frame.client = c) /\ In(c, n)
<1>1. /\ n \in Nat /\ Len(feed') = n + 1
      /\ \A i \in 1 .. n : feed'[i] = feed[i]
      /\ feed'[n + 1] = frame
  BY DEF Told, Frames
<1>2. /\ \A i \in 0 .. n : (i \in Logins(c)' <=> i \in Logins(c)) /\ (i \in Ends(c)' <=> i \in Ends(c))
      /\ n + 1 \in Logins(c)' <=> frame.type = "login" /\ frame.client = c
      /\ n + 1 \in Ends(c)' <=> frame.type = "end" /\ frame.client = c
  BY <1>1 DEF Logins, Ends, Frames, IsFrame, Alive
<1>3. ASSUME NEW k \in 0 .. n PROVE In(c, k)' <=> In(c, k)
  <2>1. k \in Nat /\ \A i \in 0 .. k : i \in 0 .. n
    BY <1>1
  <2>2. \A i \in 0 .. k : (i \in Logins(c)' <=> i \in Logins(c)) /\ (i \in Ends(c)' <=> i \in Ends(c))
    BY <1>2, <2>1
  <2>3. QED
    BY <2>1, <2>2, SinceSame DEF In
<1>4. In(c, n + 1)' <=> n + 1 \in Logins(c)' \/ (n + 1 \notin Ends(c)' /\ In(c, n)')
  BY <1>1, SinceNext DEF In
<1>5. n \in 0 .. n
  BY <1>1
<1>6. QED
  BY <1>2, <1>3, <1>4, <1>5

LEMMA InHeard ==
  ASSUME Typed, Listen, Shifted, NEW c \in Names, CanTrade(c), NEW k \in 0 .. Len(feed')
  PROVE  In(c, k)' <=> In(c, k + 1)
<1>1. /\ Len(feed') \in Nat /\ Len(feed) = Len(feed') + 1 /\ \A i \in 1 .. Len(feed') : feed'[i] = feed[i + 1]
      /\ feed[1] = Msg
  BY DEF Shifted, Frames
<1>2. /\ \A i \in 1 .. Len(feed') : (i \in Logins(c)' <=> i + 1 \in Logins(c)) /\ (i \in Ends(c)' <=> i + 1 \in Ends(c))
      /\ 1 \in Logins(c) <=> Msg.type = "login" /\ Msg.client = c
      /\ 1 \in Ends(c) <=> Msg.type = "end" /\ Msg.client = c
      /\ 0 \in Logins(c) <=> Alive(c)
      /\ 0 \in Logins(c)' <=> Alive(c)'
  BY <1>1 DEF Logins, Ends, Frames, IsFrame
<1>3. 1 \in Logins(c) \/ (0 \in Logins(c) /\ 1 \notin Ends(c)) <=> 0 \in Logins(c)'
  BY <1>2, ClientsHear
<1>4. QED
  BY <1>1, <1>2, <1>3, SinceHeard DEF In

LEMMA AltStep == ASSUME Typed, AltInv, [Next]_vars PROVE AltInv'
<1>1. Len(feed) \in Nat /\ up \in [Names -> BOOLEAN]
  BY DEF Typed, StrategyTypes
<1>2. ASSUME Listen, Shifted, UNCHANGED strategyVars PROVE AltInv'
  <2>1. SUFFICES ASSUME NEW c \in Names, CanTrade(c)
                 PROVE  /\ (up[c] <=> In(c, Len(feed)))'
                        /\ \A i \in Frames' : /\ (IsFrame(i, "end", c) \/ IsFrame(i, "pos_set", c) => In(c, i - 1))'
                                              /\ (IsFrame(i, "login", c) => ~In(c, i - 1))'
    BY <1>2, ClientsHear DEF AltInv
  <2>2. Len(feed') \in Nat /\ Len(feed) = Len(feed') + 1 /\ up'[c] = up[c]
    BY <1>2 DEF Shifted, strategyVars
  <2>3. ASSUME NEW n, n = Len(feed') PROVE up'[c] <=> In(c, n)'
    <3>1. In(c, n)' <=> In(c, n + 1)
      BY <1>2, <2>1, <2>2, <2>3, InHeard
    <3>2. QED
      BY <2>1, <2>2, <2>3, <3>1 DEF AltInv
  <2>4. ASSUME NEW i \in Frames', NEW k, k = i - 1
        PROVE  /\ (IsFrame(i, "end", c) \/ IsFrame(i, "pos_set", c) => In(c, k))'
               /\ (IsFrame(i, "login", c) => ~In(c, k))'
    <3>1. i + 1 \in Frames /\ feed'[i] = feed[i + 1] /\ k \in 0 .. Len(feed') /\ k + 1 = (i + 1) - 1
      BY <1>2, <2>4 DEF Shifted, Frames
    <3>2. In(c, k)' <=> In(c, k + 1)
      BY <1>2, <2>1, <3>1, InHeard
    <3>3. /\ IsFrame(i + 1, "end", c) \/ IsFrame(i + 1, "pos_set", c) => In(c, k + 1)
          /\ IsFrame(i + 1, "login", c) => ~In(c, k + 1)
      BY <2>1, <3>1 DEF AltInv
    <3>4. QED
      BY <3>1, <3>2, <3>3 DEF IsFrame
  <2>5. QED
    BY <2>3, <2>4
<1>3. ASSUME UNCHANGED <<feed, up, clients>> PROVE AltInv'
  <2>1. \A c : Logins(c)' = Logins(c) /\ Ends(c)' = Ends(c)
    BY <1>3 DEF Logins, Ends, Frames, IsFrame, Alive
  <2>2. \A c, k : In(c, k)' <=> In(c, k)
    BY <2>1 DEF In
  <2>3. \A c : \A i : \A type : IsFrame(i, type, c)' <=> IsFrame(i, type, c)
    BY <1>3 DEF IsFrame
  <2>4. QED
    BY <1>3, <2>2, <2>3 DEF AltInv, Frames, CanTrade
<1>4. ASSUME NEW frame \in FeedFrame, Told(frame), UNCHANGED clients,
             \/ SwitchTradingDay /\ frame.type = "switch"
             \/ \E d \in Names : frame.client = d /\ FrameOf(d, frame)
      PROVE  AltInv'
  <2>1. SUFFICES ASSUME NEW c \in Names, CanTrade(c), NEW n, n = Len(feed)
                 PROVE  /\ up'[c] <=> In(c, n + 1)'
                        /\ \A i \in Frames' : /\ (IsFrame(i, "end", c) \/ IsFrame(i, "pos_set", c) => In(c, i - 1))'
                                              /\ (IsFrame(i, "login", c) => ~In(c, i - 1))'
    BY <1>4 DEF AltInv, Told, CanTrade
  <2>2. /\ \A k \in 0 .. n : In(c, k)' <=> In(c, k)
        /\ In(c, n + 1)' <=> \/ frame.type = "login" /\ frame.client = c
                             \/ ~(frame.type = "end" /\ frame.client = c) /\ In(c, n)
    BY <1>4, <2>1, InTold
  <2>3. /\ n \in Nat /\ feed'[n + 1] = frame
        /\ \A i \in Frames' : i \in Nat \ {0} /\ (i = n + 1 \/ (i \in Frames /\ feed'[i] = feed[i] /\ i <= n))
    BY <1>4, <2>1 DEF Told, Frames
  <2>4. up[c] <=> In(c, n)
    BY <2>1 DEF AltInv
  <2>5. /\ up'[c] <=> (frame.type = "login" /\ frame.client = c) \/ (up[c] /\ ~(frame.type = "end" /\ frame.client = c))
        /\ frame.type \in {"end", "pos_set"} /\ frame.client = c => up[c]
        /\ frame.type = "login" /\ frame.client = c => ~up[c]
    <3>1. CASE SwitchTradingDay /\ frame.type = "switch"
      BY <3>1 DEF SwitchTradingDay, strategyVars
    <3>2. ASSUME NEW d \in Names, frame.client = d, Start(d), frame.type = "login" PROVE up' = [up EXCEPT ![d] = TRUE] /\ ~up[d]
      BY <3>2 DEF Start
    <3>3. ASSUME NEW d \in Names, frame.client = d, End(d), frame.type = "end" PROVE up' = [up EXCEPT ![d] = FALSE] /\ up[d]
      BY <3>3 DEF End
    <3>4. ASSUME NEW d \in Names, frame.client = d, AckNone(d) \/ InsertedFrame(d, frame) PROVE UNCHANGED up /\ up[d]
      BY <3>4 DEF AckNone, Reads, InsertedFrame, InsertOrder
    <3>5. QED
      BY <1>1, <1>4, <3>1, <3>2, <3>3, <3>4 DEF FrameOf
  <2>6. n \in 0 .. n
    BY <2>3
  <2>7. ASSUME NEW i \in Frames', NEW k, k = i - 1
        PROVE  /\ (IsFrame(i, "end", c) \/ IsFrame(i, "pos_set", c) => In(c, k))'
               /\ (IsFrame(i, "login", c) => ~In(c, k))'
    <3>1. CASE i = n + 1
      <4>1. k = n /\ (In(c, n)' <=> In(c, n))
        BY <2>2, <2>3, <2>6, <2>7, <3>1
      <4>2. \A type : IsFrame(i, type, c)' <=> frame.type = type /\ frame.client = c
        BY <2>3, <3>1 DEF IsFrame
      <4>3. QED
        BY <2>4, <2>5, <4>1, <4>2
    <3>2. CASE i \in Frames /\ feed'[i] = feed[i] /\ i <= n
      <4>1. k \in 0 .. n
        BY <2>3, <2>7, <3>2
      <4>2. In(c, k)' <=> In(c, k)
        BY <2>2, <4>1
      <4>3. \A type : IsFrame(i, type, c)' <=> IsFrame(i, type, c)
        BY <3>2 DEF IsFrame
      <4>4. QED
        BY <2>1, <2>7, <3>2, <4>2, <4>3 DEF AltInv
    <3>3. QED
      BY <2>3, <2>7, <3>1, <3>2
  <2>8. QED
    BY <2>2, <2>4, <2>5, <2>7
<1>5. QED
  BY <1>2, <1>3, <1>4, ClientsKept, FrameMoves DEF engineVars

(* Where the engine has the name c for window w: from a login of c on, until the next one there. *)
Named(c, w) ==
  {i \in 0 .. Len(feed) : IF i = 0 THEN ridManager[w] = c ELSE IsFrame(i, "login", c) /\ feed[i].window = w}
Taken(w) == {i \in Frames : feed[i].type = "login" /\ feed[i].window = w}
NameAt(c, w, k) == Since(Named(c, w), Taken(w), k)

(* The engine finds the client of an order by the window of its request id. *)
NameInv ==
  /\ \A c \in Names : up[c] => NameAt(c, window[c], Len(feed))
  /\ \A i \in Frames : feed[i].type = "order" => NameAt(feed[i].client, WindowOf(feed[i].rid), i - 1)
  /\ \A o \in market : NameOf(o.rid) = o.client
  /\ callback # NoCall => NameOf(callback.rid) = callback.client

LEMMA NamesHear ==
  ASSUME Typed, Listen, NEW w \in Windows
  PROVE  ridManager'[w] = IF Msg.type = "login" /\ Msg.window = w THEN Msg.client ELSE ridManager[w]
<1>1. ridManager \in [Windows -> Names \cup {NoName}]
  BY DEF Typed, EngineTypes
<1>2. CASE AddClient
  <2>1. Msg.type = "login" /\ ridManager' = [ridManager EXCEPT ![Msg.window] = Msg.client]
    BY <1>2, Heard DEF AddClient
  <2>2. QED
    BY <1>1, <2>1
<1>3. CASE RemoveClient \/ PosSet \/ SwitchDay \/ ReqOrderInsert \/ ReqOrderAction
  <2>1. UNCHANGED ridManager
    BY <1>3 DEF RemoveClient, PosSet, SwitchDay, ReqOrderInsert, ReqOrderAction
  <2>2. Msg.type # "login"
    BY <1>3, Heard
  <2>3. QED
    BY <2>1, <2>2
<1>4. QED
  BY <1>2, <1>3 DEF Listen

LEMMA NamesKept == ASSUME [Next]_vars, ~Listen PROVE UNCHANGED ridManager
BY NextCases DEF Acts, Start, End, AckPos, AckNone, AckIgnored, ReadRtnTrade, InsertOrder, CancelOrder,
   SwitchTradingDay, EngineOpen, Returns, OnRtnOrder, OnRtnTrade, OnRspOrderInsert, MissReturn, Callback, RtnOrderDone,
   RtnTradeDone, OnFrontDisconnected, engineVars, vars

LEMMA NameTold ==
  ASSUME NEW frame, Told(frame), UNCHANGED ridManager, NEW c, NEW w, NEW n, n = Len(feed)
  PROVE  /\ \A k \in 0 .. n : NameAt(c, w, k)' <=> NameAt(c, w, k)
         /\ NameAt(c, w, n + 1)' <=> \/ frame.type = "login" /\ frame.client = c /\ frame.window = w
                                     \/ ~(frame.type = "login" /\ frame.window = w) /\ NameAt(c, w, n)
<1>1. /\ n \in Nat /\ Len(feed') = n + 1
      /\ \A i \in 1 .. n : feed'[i] = feed[i]
      /\ feed'[n + 1] = frame
  BY DEF Told, Frames
<1>2. /\ \A i \in 0 .. n : (i \in Named(c, w)' <=> i \in Named(c, w)) /\ (i \in Taken(w)' <=> i \in Taken(w))
      /\ n + 1 \in Named(c, w)' <=> frame.type = "login" /\ frame.client = c /\ frame.window = w
      /\ n + 1 \in Taken(w)' <=> frame.type = "login" /\ frame.window = w
  BY <1>1 DEF Named, Taken, Frames, IsFrame
<1>3. ASSUME NEW k \in 0 .. n PROVE NameAt(c, w, k)' <=> NameAt(c, w, k)
  <2>1. k \in Nat /\ \A i \in 0 .. k : i \in 0 .. n
    BY <1>1
  <2>2. \A i \in 0 .. k : (i \in Named(c, w)' <=> i \in Named(c, w)) /\ (i \in Taken(w)' <=> i \in Taken(w))
    BY <1>2, <2>1
  <2>3. QED
    BY <2>1, <2>2, SinceSame DEF NameAt
<1>4. NameAt(c, w, n + 1)' <=> n + 1 \in Named(c, w)' \/ (n + 1 \notin Taken(w)' /\ NameAt(c, w, n)')
  BY <1>1, SinceNext DEF NameAt
<1>5. n \in 0 .. n
  BY <1>1
<1>6. QED
  BY <1>2, <1>3, <1>4, <1>5

LEMMA NameHeard ==
  ASSUME Typed, Listen, Shifted, NEW c, NEW w \in Windows, NEW k \in 0 .. Len(feed')
  PROVE  NameAt(c, w, k)' <=> NameAt(c, w, k + 1)
<1>1. /\ Len(feed') \in Nat /\ Len(feed) = Len(feed') + 1 /\ \A i \in 1 .. Len(feed') : feed'[i] = feed[i + 1]
      /\ feed[1] = Msg
  BY DEF Shifted, Frames
<1>2. /\ \A i \in 1 .. Len(feed') : /\ i \in Named(c, w)' <=> i + 1 \in Named(c, w)
                                    /\ i \in Taken(w)' <=> i + 1 \in Taken(w)
      /\ 1 \in Named(c, w) <=> Msg.type = "login" /\ Msg.client = c /\ Msg.window = w
      /\ 1 \in Taken(w) <=> Msg.type = "login" /\ Msg.window = w
      /\ 0 \in Named(c, w) <=> ridManager[w] = c
      /\ 0 \in Named(c, w)' <=> ridManager'[w] = c
  BY <1>1 DEF Named, Taken, Frames, IsFrame
<1>3. 1 \in Named(c, w) \/ (0 \in Named(c, w) /\ 1 \notin Taken(w)) <=> 0 \in Named(c, w)'
  BY <1>2, NamesHear
<1>4. QED
  BY <1>1, <1>2, <1>3, SinceHeard DEF NameAt

LEMMA RunWindow == ASSUME NEW rid, InWindow(rid) PROVE rid \in Int /\ WindowOf(rid) \in Windows
<1>1. PICK w \in Windows, k \in 0 .. RidRange - 2 : rid = RidStart(w) + k
  BY DEF InWindow
<1>2. w \in Nat /\ k \in 0 .. RidRange - 1
  BY Constants
<1>3. QED
  BY <1>1, <1>2, RidArithmetic

(* The name for a request id stays, except where there is a login in its window. *)
LEMMA NameOfKept ==
  ASSUME Typed, [Next]_vars, NEW rid, ~(Listen /\ Msg.type = "login" /\ WindowOf(rid) = Msg.window)
  PROVE  NameOf(rid)' = NameOf(rid)
BY NamesHear, NamesKept DEF NameOf, WindowOf

LEMMA NameStep ==
  ASSUME Typed, ReturnsRouted, WindowInv, RunInv, CallRunInv, LoginInv, NameInv, [Next]_vars
  PROVE  NameInv'
<1>1. Len(feed) \in Nat /\ up \in [Names -> BOOLEAN] /\ WindowInv'
  BY WindowStep DEF Typed, StrategyTypes
<1>2. ASSUME NEW o, (o \in market) \/ (callback # NoCall /\ o = callback), NEW rid, rid = o.rid
      PROVE  NameOf(rid)' = o.client
  <2>1. NameOf(rid) = o.client
    BY <1>2 DEF NameInv
  <2>2. Listen /\ Msg.type = "login" => WindowOf(rid) # Msg.window
    <3>1. Listen => feed[1] = Msg /\ 1 \in Frames
      BY Heard
    <3>2. QED
      BY <1>2, <3>1 DEF LoginInv, Apart
  <2>3. QED
    BY <2>1, <2>2, NameOfKept
<1>3. ASSUME NEW i \in Frames, feed[i].type = "order" PROVE WindowOf(feed[i].rid) \in Windows /\ feed[i] \in FeedFrame
  <2>1. InWindow(feed[i].rid)
    BY <1>3 DEF RunInv, RunOf
  <2>2. QED
    BY <2>1, RunWindow DEF Typed, Frames
<1>4. ASSUME ReqOrderInsert, loggedIn, NEW rid, rid = Msg.rid PROVE NameOf(rid)' = Msg.client
  <2>1. feed[1] = Msg /\ 1 \in Frames /\ feed[1].type = "order"
    BY <1>4, Heard DEF Listen
  <2>2. NameAt(Msg.client, WindowOf(Msg.rid), 1 - 1) /\ 1 - 1 = 0 /\ WindowOf(Msg.rid) \in Windows
    BY <1>3, <2>1 DEF NameInv
  <2>3. ridManager[WindowOf(Msg.rid)] = Msg.client
    BY <2>2, SinceFirst DEF NameAt, Named
  <2>4. UNCHANGED ridManager
    BY <1>4 DEF ReqOrderInsert
  <2>5. QED
    BY <1>4, <2>2, <2>3, <2>4 DEF NameOf, WindowOf
<1>5. ASSUME NEW p \in market', NEW rid, rid = p.rid PROVE NameOf(rid)' = p.client
  BY <1>2, <1>4, <1>5, MarketShape DEF Same, NewOrder
<1>6. ASSUME callback' # NoCall, NEW rid, rid = callback'.rid PROVE NameOf(rid)' = callback'.client
  BY <1>2, <1>6, CallFrom
<1>7. SUFFICES /\ \A c \in Names : up'[c] => NameAt(c, window[c], Len(feed))'
               /\ \A i \in Frames' : feed'[i].type = "order" => NameAt(feed[i].client, WindowOf(feed[i].rid), i - 1)'
  BY <1>5, <1>6 DEF NameInv, NameOf, WindowOf
<1>8. ASSUME Listen, Shifted, UNCHANGED strategyVars
      PROVE  /\ \A c \in Names : up'[c] => NameAt(c, window[c], Len(feed))'
             /\ \A i \in Frames' : feed'[i].type = "order" => NameAt(feed[i].client, WindowOf(feed[i].rid), i - 1)'
  <2>1. Len(feed') \in Nat /\ Len(feed) = Len(feed') + 1 /\ up' = up /\ window' = window
    BY <1>8 DEF Shifted, strategyVars
  <2>2. ASSUME NEW c \in Names, up'[c], NEW n, n = Len(feed'), NEW w, w = window[c] PROVE NameAt(c, w, n)'
    <3>1. w \in Windows /\ NameAt(c, w, n + 1)
      BY <2>1, <2>2 DEF WindowInv, NameInv
    <3>2. QED
      BY <1>8, <2>1, <2>2, <3>1, NameHeard
  <2>3. ASSUME NEW i \in Frames', feed'[i].type = "order", NEW k, k = i - 1, NEW c, c = feed'[i].client,
               NEW w, w = WindowOf(feed'[i].rid)
        PROVE  NameAt(c, w, k)'
    <3>1. i + 1 \in Frames /\ feed'[i] = feed[i + 1] /\ k \in 0 .. Len(feed') /\ k + 1 = (i + 1) - 1
      BY <1>8, <2>3 DEF Shifted, Frames
    <3>2. w \in Windows /\ NameAt(c, w, k + 1)
      BY <1>3, <2>3, <3>1 DEF NameInv
    <3>3. QED
      BY <1>8, <3>1, <3>2, NameHeard
  <2>4. QED
    BY <2>1, <2>2, <2>3 DEF WindowOf
<1>9. ASSUME UNCHANGED <<feed, up, window, ridManager>>
      PROVE  /\ \A c \in Names : up'[c] => NameAt(c, window[c], Len(feed))'
             /\ \A i \in Frames' : feed'[i].type = "order" => NameAt(feed[i].client, WindowOf(feed[i].rid), i - 1)'
  <2>1. \A c, w : Named(c, w)' = Named(c, w) /\ Taken(w)' = Taken(w)
    BY <1>9 DEF Named, Taken, Frames, IsFrame
  <2>2. \A c, w, k : NameAt(c, w, k)' <=> NameAt(c, w, k)
    BY <2>1 DEF NameAt
  <2>3. QED
    BY <1>9, <2>2 DEF NameInv, Frames, WindowOf
<1>10. ASSUME NEW frame \in FeedFrame, Told(frame), UNCHANGED ridManager,
              \/ SwitchTradingDay /\ frame.type = "switch"
              \/ \E d \in Names : frame.client = d /\ FrameOf(d, frame)
       PROVE  /\ \A c \in Names : up'[c] => NameAt(c, window[c], Len(feed))'
              /\ \A i \in Frames' : feed'[i].type = "order" => NameAt(feed[i].client, WindowOf(feed[i].rid), i - 1)'
  <2>1. PICK n : n = Len(feed)
    OBVIOUS
  <2>2. /\ n \in Nat /\ feed'[n + 1] = frame /\ Len(feed') = n + 1
        /\ \A i \in Frames' : i \in Nat \ {0} /\ (i = n + 1 \/ (i \in Frames /\ feed'[i] = feed[i] /\ i <= n))
    BY <1>10, <2>1 DEF Told, Frames
  <2>3. ASSUME NEW c, NEW w
        PROVE  /\ \A k \in 0 .. n : NameAt(c, w, k)' <=> NameAt(c, w, k)
               /\ NameAt(c, w, n + 1)' <=> \/ frame.type = "login" /\ frame.client = c /\ frame.window = w
                                           \/ ~(frame.type = "login" /\ frame.window = w) /\ NameAt(c, w, n)
    BY <1>10, <2>1, NameTold
  <2>4. ASSUME frame.type = "login" PROVE frame.client \in Names /\ Start(frame.client) /\ up'[frame.client] /\ frame.window = window'[frame.client]
    <3>1. frame.client \in Names /\ Start(frame.client) /\ frame.window = window'[frame.client]
      BY <1>10, <2>4 DEF FrameOf
    <3>2. up' = [up EXCEPT ![frame.client] = TRUE]
      BY <3>1 DEF Start
    <3>3. QED
      BY <1>1, <3>1, <3>2
  <2>5. ASSUME NEW c \in Names, Start(c) PROVE frame.type = "login" /\ frame.client = c
    <3>1. PICK w \in Windows : Tell([type |-> "login", client |-> c, window |-> w])
      BY <2>5 DEF Start, FreeWindows
    <3>2. feed'[n + 1] = [type |-> "login", client |-> c, window |-> w]
      BY <2>1, <3>1 DEF Tell, Typed
    <3>3. QED
      BY <2>2, <3>2
  <2>6. ASSUME NEW c \in Names, up'[c], NEW w, w = window'[c] PROVE NameAt(c, w, n + 1)'
    <3>1. CASE Start(c)
      BY <2>3, <2>4, <2>5, <2>6, <3>1
    <3>2. CASE ~Start(c)
      <4>1. up[c] /\ window'[c] = window[c]
        BY <2>6, <3>2, StrategyMoves
      <4>2. NameAt(c, w, n)
        BY <2>1, <2>6, <4>1 DEF NameInv
      <4>3. ~(frame.type = "login" /\ frame.window = w)
        BY <1>1, <2>4, <2>6, <3>2 DEF WindowInv
      <4>4. QED
        BY <2>3, <4>2, <4>3
    <3>3. QED
      BY <3>1, <3>2
  <2>7. ASSUME NEW i \in Frames', feed'[i].type = "order", NEW k, k = i - 1, NEW c, c = feed'[i].client,
               NEW w, w = WindowOf(feed'[i].rid)
        PROVE  NameAt(c, w, k)'
    <3>1. CASE i = n + 1
      <4>1. frame.type = "order" /\ frame.client = c /\ c \in Names /\ InsertedFrame(c, frame) /\ k = n /\ n \in 0 .. n
        BY <1>10, <2>2, <2>7, <3>1 DEF FrameOf
      <4>2. up[c] /\ w = window[c]
        BY <2>2, <2>7, <3>1, <4>1, InsertedRun DEF InsertedFrame, InsertOrder
      <4>3. NameAt(c, w, n)
        BY <2>1, <4>1, <4>2 DEF NameInv
      <4>4. QED
        BY <2>3, <4>1, <4>3
    <3>2. CASE i \in Frames /\ feed'[i] = feed[i] /\ i <= n
      <4>1. k \in 0 .. n /\ NameAt(c, w, k)
        BY <2>2, <2>7, <3>2 DEF NameInv
      <4>2. QED
        BY <2>3, <4>1
    <3>3. QED
      BY <2>2, <2>7, <3>1, <3>2
  <2>8. QED
    BY <2>2, <2>6, <2>7 DEF WindowOf
<1>11. QED
  BY <1>8, <1>9, <1>10, NamesKept, FrameMoves DEF engineVars

Elems(s) == {s[k] : k \in 1 .. Len(s)}

LEMMA ElemsOf ==
  ASSUME NEW S, NEW s \in Seq(S)
  PROVE  /\ Elems(<<>>) = {} /\ (Elems(s) \in SUBSET S)
         /\ s # <<>> => Elems(s) = Elems(Tail(s)) \cup {Head(s)} /\ Head(s) \in S /\ Tail(s) \in Seq(S)
         /\ \A x \in S : Elems(Append(s, x)) = Elems(s) \cup {x}
<1>1. Elems(<<>>) = {} /\ Elems(s) \in SUBSET S
  BY DEF Elems
<1>2. ASSUME s # <<>> PROVE Elems(s) = Elems(Tail(s)) \cup {Head(s)} /\ Head(s) \in S /\ Tail(s) \in Seq(S)
  <2>1. /\ Len(s) \in Nat \ {0} /\ Len(Tail(s)) = Len(s) - 1 /\ Head(s) = s[1] /\ s[1] \in S /\ Tail(s) \in Seq(S)
        /\ \A k \in 1 .. Len(s) - 1 : Tail(s)[k] = s[k + 1]
    BY <1>2
  <2>2. \A k \in 1 .. Len(s) - 1 : k + 1 \in 1 .. Len(s)
    BY <2>1
  <2>3. Elems(Tail(s)) \cup {Head(s)} \subseteq Elems(s)
    BY <2>1, <2>2 DEF Elems
  <2>4. ASSUME NEW k \in 1 .. Len(s) PROVE s[k] \in Elems(Tail(s)) \cup {Head(s)}
    <3>1. k = 1 \/ (k - 1 \in 1 .. Len(s) - 1 /\ (k - 1) + 1 = k)
      BY <2>1
    <3>2. CASE k = 1
      BY <2>1, <3>2
    <3>3. CASE k - 1 \in 1 .. Len(s) - 1 /\ (k - 1) + 1 = k
      <4>1. Tail(s)[k - 1] = s[k]
        BY <2>1, <3>3
      <4>2. QED
        BY <2>1, <3>3, <4>1 DEF Elems
    <3>4. QED
      BY <3>1, <3>2, <3>3
  <2>5. QED
    BY <2>1, <2>3, <2>4 DEF Elems
<1>3. ASSUME NEW x \in S PROVE Elems(Append(s, x)) = Elems(s) \cup {x}
  <2>1. /\ Len(s) \in Nat /\ Len(Append(s, x)) = Len(s) + 1 /\ Append(s, x)[Len(s) + 1] = x
        /\ \A k \in 1 .. Len(s) : Append(s, x)[k] = s[k] /\ k \in 1 .. Len(s) + 1
        /\ \A k \in 1 .. Len(s) + 1 : k \in 1 .. Len(s) \/ k = Len(s) + 1
        /\ Len(s) + 1 \in 1 .. Len(s) + 1
    OBVIOUS
  <2>2. QED
    BY <2>1 DEF Elems
<1>4. QED
  BY <1>1, <1>2, <1>3

Ack(c) == [type |-> "ack", pos |-> stored[c]]
Rtn(o) == [type |-> "rtn_trade", rid |-> o.rid, of |-> Identity(o)]
Keeps(c) == up'[c] = up[c] /\ tds'[c] = tds[c] /\ internalPos'[c] = internalPos[c]
Apiece == UNCHANGED <<engineVars, callback, market>>
Takes(c, type) ==
  up[c] /\ inbox[c] # <<>> /\ Head(inbox[c]).type = type /\ inbox'[c] = Tail(inbox[c]) /\ up'[c] /\ Apiece

(* What becomes of the position of strategy c and of what it has not read. *)
ViewMove(c) ==
  \/ Keeps(c) /\ inbox'[c] = inbox[c] /\ ~(up[c] /\ \E o \in market : OnRtnTrade(o) /\ o.client = c)
  \/ Keeps(c) /\ AddClient /\ Msg.client = c /\ up[c] /\ CanTrade(c) /\ inbox'[c] = Append(inbox[c], Ack(c))
  \/ Keeps(c) /\ up[c] /\ \E o \in market : OnRtnTrade(o) /\ o.client = c /\ inbox'[c] = Append(inbox[c], Rtn(o))
  \/ Keeps(c) /\ AckIgnored(c) /\ Takes(c, "ack")
  \/ Start(c) /\ ~up[c] /\ tds'[c] = "requested" /\ inbox'[c] = inbox[c] /\ Apiece
  \/ End(c) /\ ~up'[c] /\ tds'[c] = "none" /\ inbox'[c] = <<>> /\ Apiece
  \/ AckPos(c) /\ Takes(c, "ack") /\ tds[c] = "requested" /\ tds'[c] = "ack_pos"
     /\ Head(inbox[c]).pos.ok /\ internalPos'[c] = Head(inbox[c]).pos
  \/ AckNone(c) /\ Takes(c, "ack") /\ tds[c] = "requested" /\ tds'[c] = "set_back"
     /\ ~Head(inbox[c]).pos.ok /\ internalPos'[c] = Empty
  \/ ReadRtnTrade(c) /\ Takes(c, "rtn_trade") /\ tds'[c] = tds[c]
     /\ internalPos'[c] = Counting(internalPos[c], Head(inbox[c]).of)

LEMMA OwnsOrders ==
  ASSUME Typed, WindowInv, NEW o, RunOf(o), NEW c \in Names
  PROVE  Own(c, o.rid) <=> up[c] /\ o.client = c
<1>1. o.rid \in Int
  BY RunWindow DEF RunOf
<1>2. {d \in Names : Own(d, o.rid)} = {d \in Names : up[d] /\ o.client = d /\ o.run = run[d]}
  BY <1>1, OwnIds
<1>3. Own(c, o.rid) <=> up[c] /\ o.client = c /\ o.run = run[c]
  BY <1>2
<1>4. up[c] /\ o.client = c => o.run = run[c]
  BY DEF RunOf
<1>5. QED
  BY <1>3, <1>4

LEMMA ViewMoves ==
  ASSUME Typed, ReturnsRouted, WindowInv, RunInv, [Next]_vars, NEW c \in Names
  PROVE  ViewMove(c)
<1>1. /\ up \in [Names -> BOOLEAN] /\ internalPos \in [Names -> Position] /\ inbox \in [Names -> Seq(InboxFrame)]
      /\ tds \in [Names -> {"none", "requested", "ack_pos", "set_back"}]
  BY DEF Typed, StrategyTypes
<1>2. \A o \in market : OnRtnTrade(o) => callback' # callback
  BY DEF OnRtnTrade, NoCall
<1>3. ASSUME UNCHANGED <<up, tds, internalPos, inbox, callback>> PROVE ViewMove(c)
  BY <1>2, <1>3 DEF ViewMove, Keeps
<1>4. ASSUME NEW d \in Names, d # c, Acts(d) PROVE ViewMove(c)
  <2>1. /\ up'[c] = up[c] /\ tds'[c] = tds[c] /\ internalPos'[c] = internalPos[c] /\ inbox'[c] = inbox[c]
        /\ UNCHANGED callback
    BY <1>1, <1>4 DEF Acts, Start, End, AckPos, AckNone, AckIgnored, ReadRtnTrade, Reads, InsertOrder, CancelOrder,
       strategyVars
  <2>2. QED
    BY <1>2, <2>1 DEF ViewMove, Keeps
<1>5. ASSUME Acts(c) PROVE ViewMove(c)
  <2>1. CASE Start(c)
    BY <1>1, <2>1 DEF Start, ViewMove, Apiece, marketVars
  <2>2. CASE End(c)
    BY <1>1, <2>2 DEF End, ViewMove, Apiece, marketVars
  <2>3. CASE AckPos(c)
    BY <1>1, <2>3 DEF AckPos, Reads, ViewMove, Apiece, Takes, marketVars
  <2>4. CASE AckNone(c)
    BY <1>1, <2>4 DEF AckNone, Reads, ViewMove, Apiece, Takes, Empty, marketVars
  <2>5. CASE AckIgnored(c)
    BY <1>1, <2>5 DEF AckIgnored, Reads, ViewMove, Apiece, Takes, Keeps, strategyVars, marketVars
  <2>6. CASE ReadRtnTrade(c)
    BY <1>1, <2>6 DEF ReadRtnTrade, Reads, ViewMove, Apiece, Takes, marketVars
  <2>7. CASE InsertOrder(c)
    BY <1>3, <2>7 DEF InsertOrder
  <2>8. CASE \E w \in Windows : \E k \in 0 .. RidRange - 1 : CancelOrder(c, RidStart(w) + k)
    BY <1>3, <2>8 DEF CancelOrder
  <2>9. QED
    BY <1>5, <2>1, <2>2, <2>3, <2>4, <2>5, <2>6, <2>7, <2>8 DEF Acts
<1>6. CASE Listen
  <2>1. CASE AddClient
    <3>1. Msg.client \in Names
      BY <1>6, <2>1, Heard, FrameKinds
    <3>2. UNCHANGED <<strategyVars, callback>>
      BY <2>1 DEF AddClient
    <3>3. UNCHANGED inbox \/ ((clients[Msg.client] # "unknown" \/ HasDefault) /\ Give(Msg.client, Ack(Msg.client)))
      BY <2>1 DEF AddClient, Ack
    <3>4. ASSUME clients[Msg.client] # "unknown" \/ HasDefault, up[Msg.client],
                 inbox' = [inbox EXCEPT ![Msg.client] = Append(@, Ack(Msg.client))]
          PROVE  ViewMove(c)
      <4>1. CASE c = Msg.client
        BY <1>1, <2>1, <3>2, <3>4, <4>1 DEF ViewMove, Keeps, CanTrade, strategyVars
      <4>2. CASE c # Msg.client
        BY <1>1, <1>2, <3>1, <3>2, <3>4, <4>2 DEF ViewMove, Keeps, strategyVars
      <4>3. QED
        BY <4>1, <4>2
    <3>5. CASE UNCHANGED inbox
      BY <1>3, <3>2, <3>5 DEF strategyVars
    <3>6. QED
      BY <3>3, <3>4, <3>5 DEF Give
  <2>2. CASE RemoveClient \/ PosSet \/ SwitchDay \/ ReqOrderInsert \/ ReqOrderAction
    BY <1>3, <2>2 DEF RemoveClient, PosSet, SwitchDay, ReqOrderInsert, ReqOrderAction, strategyVars
  <2>3. QED
    BY <1>6, <2>1, <2>2 DEF Listen
<1>7. ASSUME NEW o \in market, OnRtnTrade(o) PROVE ViewMove(c)
  <2>1. UNCHANGED strategyVars /\ Publish([type |-> "rtn_trade", rid |-> Rid(o), of |-> Identity(o)])
    BY <1>7 DEF OnRtnTrade
  <2>2. Rid(o) = o.rid
    BY DEF ReturnsRouted
  <2>3. inbox'[c] = IF Own(c, o.rid) THEN Append(inbox[c], Rtn(o)) ELSE inbox[c]
    BY <2>1, <2>2 DEF Publish, Rtn
  <2>4. Own(c, o.rid) <=> up[c] /\ o.client = c
    BY OwnsOrders DEF RunInv
  <2>5. CASE up[c] /\ o.client = c
    BY <1>7, <2>1, <2>3, <2>4, <2>5 DEF ViewMove, Keeps, strategyVars
  <2>6. CASE ~(up[c] /\ o.client = c)
    <3>1. \A p \in market : OnRtnTrade(p) => p.client = o.client
      BY <1>7 DEF OnRtnTrade
    <3>2. QED
      BY <2>1, <2>3, <2>4, <2>6, <3>1 DEF ViewMove, Keeps, strategyVars
  <2>7. QED
    BY <2>5, <2>6
<1>8. \/ \E d \in Names : Acts(d)
      \/ UNCHANGED <<up, tds, internalPos, inbox>> /\ ~(\E o \in market : OnRtnTrade(o))
      \/ Listen \/ \E o \in market : OnRtnTrade(o)
  BY NextCases DEF SwitchTradingDay, EngineOpen, Returns, OnRtnOrder, OnRspOrderInsert, MissReturn, Callback, RtnOrderDone,
     RtnTradeDone, OnFrontDisconnected, strategyVars, vars
<1>9. CASE UNCHANGED <<up, tds, internalPos, inbox>> /\ ~(\E o \in market : OnRtnTrade(o))
  BY <1>9 DEF ViewMove, Keeps
<1>10. QED
  BY <1>4, <1>5, <1>6, <1>7, <1>8, <1>9

(* The position that counts for client c: while it is alive, that of the engine. *)
Value(c) == IF Alive(c) THEN pos[c] ELSE stored[c]

ValueInv ==
  \A c \in Names :
    /\ ~Alive(c) => pos[c] = NoPos
    /\ ~pos[c].ok => pos[c] = NoPos
    /\ ~stored[c].ok => stored[c] = NoPos
    /\ Alive(c) => (stored[c].ok <=> pos[c].ok)

(* What those do not have that may not trade, or are not there. *)
IdleInv ==
  /\ \A c \in Names : ~CanTrade(c) =>
       ~TdIsReady(c) /\ inbox[c] = <<>> /\ \A i \in Frames : ~IsFrame(i, "pos_set", c)
  /\ \A c \in Names : ~up[c] => ~TdIsReady(c) /\ inbox[c] = <<>>
  /\ \A o \in market : clients[o.client] # "unknown"

LEMMA IdleStep ==
  ASSUME Typed, ReturnsRouted, WindowInv, RunInv, IdleInv, [Next]_vars
  PROVE  IdleInv'
<1>1. ASSUME NEW c \in Names PROVE CanTrade(c)' <=> CanTrade(c)
  BY <1>1, ClientsHear, ClientsKept DEF CanTrade
<1>2. ASSUME NEW p \in market' PROVE clients'[p.client] # "unknown"
  <2>1. ASSUME NEW o \in market, Same(p, o) PROVE clients'[p.client] # "unknown"
    BY <2>1, ClientMoves, RidTyped DEF IdleInv, Same
  <2>2. ASSUME ReqOrderInsert, p = NewOrder PROVE clients'[p.client] # "unknown"
    BY <2>2 DEF ReqOrderInsert, Listened, NewOrder
  <2>3. QED
    BY <2>1, <2>2, MarketShape
<1>3. ASSUME NEW c \in Names, ~up'[c] PROVE ~TdIsReady(c)' /\ inbox'[c] = <<>>
  <2>1. ViewMove(c)
    BY ViewMoves
  <2>2. CASE ~up[c] /\ Keeps(c) /\ inbox'[c] = inbox[c]
    BY <2>2 DEF IdleInv, Keeps, TdIsReady
  <2>3. CASE tds'[c] \in {"none", "requested"} /\ (inbox'[c] = <<>> \/ (~up[c] /\ inbox'[c] = inbox[c]))
    BY <2>3 DEF IdleInv, TdIsReady
  <2>4. QED
    BY <1>3, <2>1, <2>2, <2>3 DEF ViewMove, Keeps, Takes
<1>4. ASSUME NEW c \in Names, ~CanTrade(c) PROVE ~TdIsReady(c)' /\ inbox'[c] = <<>>
  <2>1. ViewMove(c)
    BY ViewMoves
  <2>2. ~TdIsReady(c) /\ inbox[c] = <<>> /\ \A o \in market : o.client # c
    BY <1>4 DEF IdleInv, CanTrade
  <2>3. CASE Keeps(c) /\ inbox'[c] = inbox[c]
    BY <2>2, <2>3 DEF Keeps, TdIsReady
  <2>4. CASE tds'[c] \in {"none", "requested"} /\ (inbox'[c] = <<>> \/ inbox'[c] = inbox[c])
    BY <2>2, <2>4 DEF TdIsReady
  <2>5. QED
    BY <1>4, <2>1, <2>2, <2>3, <2>4 DEF ViewMove, Takes
<1>5. ASSUME NEW c \in Names, ~CanTrade(c), NEW i \in Frames', IsFrame(i, "pos_set", c)' PROVE FALSE
  <2>1. inbox[c] = <<>> /\ \A j \in Frames : ~IsFrame(j, "pos_set", c)
    BY <1>5 DEF IdleInv
  <2>2. CASE Shifted
    BY <1>5, <2>1, <2>2 DEF Shifted, IsFrame
  <2>3. CASE UNCHANGED feed
    BY <1>5, <2>1, <2>3 DEF Frames, IsFrame
  <2>4. ASSUME NEW frame \in FeedFrame, Told(frame),
               \/ SwitchTradingDay /\ frame.type = "switch"
               \/ \E d \in Names : frame.client = d /\ FrameOf(d, frame)
        PROVE  FALSE
    <3>1. frame.type = "pos_set" /\ frame.client = c
      BY <1>5, <2>1, <2>4 DEF Told, IsFrame
    <3>2. AckNone(c)
      BY <2>4, <3>1 DEF FrameOf
    <3>3. QED
      BY <2>1, <3>2 DEF AckNone, Reads
  <2>5. QED
    BY <2>2, <2>3, <2>4, FrameMoves
<1>6. QED
  BY <1>1, <1>2, <1>3, <1>4, <1>5 DEF IdleInv

(* A client is alive when its end or its position is read, and is not when its login is. *)
LEMMA HeadAlive ==
  ASSUME Typed, AltInv, IdleInv, Listen, NEW c \in Names, Msg.client = c
  PROVE  /\ Msg.type = "end" /\ CanTrade(c) => Alive(c)
         /\ Msg.type = "pos_set" => Alive(c)
         /\ Msg.type = "login" => ~Alive(c)
<1>1. feed[1] = Msg /\ 1 \in Frames /\ 1 - 1 = 0
  BY Heard
<1>2. In(c, 0) <=> Alive(c)
  <2>1. 0 \in Logins(c) <=> Alive(c)
    BY DEF Logins, Typed
  <2>2. QED
    BY <2>1, SinceFirst DEF In
<1>3. \A type : IsFrame(1, type, c) <=> Msg.type = type
  BY <1>1 DEF IsFrame
<1>4. ~CanTrade(c) => ~Alive(c) /\ Msg.type # "pos_set"
  BY <1>1, <1>3 DEF IdleInv, CanTrade, Alive
<1>5. QED
  BY <1>1, <1>2, <1>3, <1>4 DEF AltInv

(* What the handlers of the engine do to the positions of client c. *)
LEMMA PositionsHear ==
  ASSUME Typed, Listen, NEW c \in Names
  PROVE  \/ UNCHANGED <<clients, stored, pos>>
         \/ Msg.client # c /\ Alive(c)' = Alive(c) /\ pos'[c] = pos[c] /\ stored'[c] = stored[c]
         \/ /\ Msg.client = c /\ Msg.type = "login" /\ Alive(c)' /\ CanTrade(c) /\ stored'[c] = stored[c]
            /\ pos'[c] = IF stored[c].ok THEN stored[c] ELSE pos[c]
         \/ /\ Msg.client = c /\ Msg.type = "end" /\ ~Alive(c)' /\ pos'[c] = NoPos /\ CanTrade(c)
            /\ stored'[c] = IF pos[c].ok THEN pos[c] ELSE stored[c]
         \/ /\ Msg.client = c /\ PosSet /\ Alive(c)' = Alive(c) /\ pos'[c] = Empty /\ stored'[c] = Empty
<1>1. /\ clients \in [Names -> {"unknown", "known", "alive"}]
      /\ stored \in [Names -> Position] /\ pos \in [Names -> Position]
  BY DEF Typed, EngineTypes
<1>2. /\ Msg.type # "switch" => Msg.client \in Names
      /\ Msg.type = "pos_set" => Msg.pos = Empty
  BY Heard, FrameKinds
<1>3. CASE AddClient
  <2>1. Msg.type = "login" /\ Msg.client \in Names
    BY <1>2, <1>3, Heard
  <2>2. \/ UNCHANGED <<clients, stored, pos>>
        \/ /\ ~(clients[Msg.client] = "unknown" /\ ~HasDefault) /\ UNCHANGED stored
           /\ clients' = [clients EXCEPT ![Msg.client] = "alive"]
           /\ pos' = IF stored[Msg.client].ok THEN [pos EXCEPT ![Msg.client] = stored[Msg.client]] ELSE pos
    BY <1>3 DEF AddClient
  <2>3. QED
    BY <1>1, <2>1, <2>2 DEF Alive, CanTrade
<1>4. CASE RemoveClient
  <2>1. Msg.type = "end" /\ Msg.client \in Names
    BY <1>2, <1>4, Heard
  <2>2. \/ UNCHANGED <<clients, stored, pos>>
        \/ /\ clients[Msg.client] # "unknown"
           /\ clients' = [clients EXCEPT ![Msg.client] = "known"]
           /\ stored' = IF pos[Msg.client].ok THEN [stored EXCEPT ![Msg.client] = pos[Msg.client]] ELSE stored
           /\ pos' = [pos EXCEPT ![Msg.client] = NoPos]
    BY <1>4 DEF RemoveClient
  <2>3. QED
    BY <1>1, <2>1, <2>2 DEF Alive, CanTrade
<1>5. CASE PosSet
  <2>1. Msg.type = "pos_set" /\ Msg.client \in Names
    BY <1>2, <1>5, Heard
  <2>2. /\ stored' = [stored EXCEPT ![Msg.client] = Empty]
        /\ pos' = [pos EXCEPT ![Msg.client] = Empty] /\ UNCHANGED clients
    BY <1>2, <1>5, <2>1 DEF PosSet
  <2>3. QED
    BY <1>1, <1>5, <2>1, <2>2 DEF Alive
<1>6. CASE SwitchDay \/ ReqOrderInsert \/ ReqOrderAction
  BY <1>6 DEF SwitchDay, ReqOrderInsert, ReqOrderAction
<1>7. QED
  BY <1>3, <1>4, <1>5, <1>6 DEF Listen

LEMMA PositionsKept ==
  ASSUME [Next]_vars, ~Listen PROVE RtnTradeDone \/ UNCHANGED <<clients, stored, pos>>
<1>1. CASE \E c \in Names : Acts(c)
  BY <1>1, ActsApart DEF engineVars
<1>2. CASE \E o \in market : Returns(o) \/ MissReturn(o)
  BY <1>2, ReturnsApart DEF engineVars
<1>3. CASE SwitchTradingDay \/ OnFrontDisconnected \/ UNCHANGED vars
  BY <1>3, OutsideApart DEF engineVars
<1>4. CASE EngineOpen \/ Callback
  BY <1>4 DEF EngineOpen, Callback, RtnOrderDone
<1>5. QED
  BY <1>1, <1>2, <1>3, <1>4, NextCases

LEMMA TradeCounted ==
  ASSUME Typed, NameInv, RtnTradeDone, NEW c \in Names
  PROVE  /\ pos'[c] = IF callback.client = c /\ pos[c].ok THEN Counting(pos[c], callback.of) ELSE pos[c]
         /\ UNCHANGED <<clients, stored, feed, strategyVars, inbox, market>>
         /\ callback.call = "trade" /\ callback' = NoCall
<1>1. callback.call = "trade" /\ callback' = NoCall /\ UNCHANGED <<clients, stored, feed, strategyVars, inbox, market>>
  BY DEF RtnTradeDone, marketVars
<1>2. callback.client \in Names /\ callback # NoCall
  BY <1>1, CallTyped DEF NoCall
<1>3. NameOf(callback.rid) = callback.client /\ callback.client # NoName
  BY <1>2, Constants DEF NameInv
<1>4. pos' = IF pos[callback.client].ok
             THEN [pos EXCEPT ![callback.client] = Counting(@, callback.of)] ELSE pos
  BY <1>3 DEF RtnTradeDone
<1>5. pos \in [Names -> Position]
  BY DEF Typed, EngineTypes
<1>6. QED
  BY <1>1, <1>2, <1>4, <1>5

LEMMA ValueStep ==
  ASSUME Typed, AltInv, IdleInv, NameInv, ValueInv, [Next]_vars
  PROVE  ValueInv'
<1>1. SUFFICES ASSUME NEW c \in Names
               PROVE  /\ ~Alive(c)' => pos'[c] = NoPos
                      /\ ~pos'[c].ok => pos'[c] = NoPos
                      /\ ~stored'[c].ok => stored'[c] = NoPos
                      /\ Alive(c)' => (stored'[c].ok <=> pos'[c].ok)
  BY DEF ValueInv
<1>2. /\ ~Alive(c) => pos[c] = NoPos
      /\ ~pos[c].ok => pos[c] = NoPos
      /\ ~stored[c].ok => stored[c] = NoPos
      /\ Alive(c) => (stored[c].ok <=> pos[c].ok)
      /\ ~NoPos.ok /\ Empty.ok
  BY DEF ValueInv, NoPos, Empty
<1>3. CASE UNCHANGED <<clients, stored, pos>>
  BY <1>2, <1>3 DEF Alive
<1>4. CASE Listen
  <2>1. CASE Msg.client # c /\ Alive(c)' = Alive(c) /\ pos'[c] = pos[c] /\ stored'[c] = stored[c]
    BY <1>2, <2>1
  <2>2. CASE /\ Msg.client = c /\ Msg.type = "login" /\ Alive(c)' /\ stored'[c] = stored[c]
             /\ pos'[c] = IF stored[c].ok THEN stored[c] ELSE pos[c]
    <3>1. ~Alive(c)
      BY <1>4, <2>2, HeadAlive
    <3>2. QED
      BY <1>2, <2>2, <3>1
  <2>3. CASE /\ Msg.client = c /\ Msg.type = "end" /\ ~Alive(c)' /\ pos'[c] = NoPos /\ CanTrade(c)
             /\ stored'[c] = IF pos[c].ok THEN pos[c] ELSE stored[c]
    BY <1>2, <2>3
  <2>4. CASE Msg.client = c /\ PosSet /\ Alive(c)' = Alive(c) /\ pos'[c] = Empty /\ stored'[c] = Empty
    <3>1. Alive(c)
      BY <1>4, <2>4, HeadAlive, Heard
    <3>2. QED
      BY <1>2, <2>4, <3>1
  <2>5. QED
    BY <1>3, <1>4, <2>1, <2>2, <2>3, <2>4, PositionsHear
<1>5. CASE RtnTradeDone
  <2>1. Alive(c)' = Alive(c) /\ stored'[c] = stored[c]
        /\ (pos'[c] = pos[c] \/ (pos[c].ok /\ pos'[c] = Counting(pos[c], callback.of)))
    BY <1>5, TradeCounted DEF Alive
  <2>2. pos[c] \in Position
    BY DEF Typed, EngineTypes
  <2>3. Counting(pos[c], callback.of).ok = pos[c].ok
    BY <2>2 DEF Counting, Position
  <2>4. QED
    BY <1>2, <2>1, <2>3
<1>6. QED
  BY <1>3, <1>4, <1>5, PositionsKept

(* The trade of client c that the engine has told but not counted. *)
Uncounted(c) == IF callback.call = "trade" /\ callback.client = c THEN {callback.of} ELSE {}

(* What becomes of the position that counts for client c. *)
TradeMove(c) ==
  \/ Value(c)' = Value(c) /\ Uncounted(c)' = Uncounted(c)
  \/ PosSet /\ Msg.client = c /\ UNCHANGED callback /\ Value(c)' = Empty
  \/ Value(c)' = Value(c) /\ \E o \in market : /\ OnRtnTrade(o) /\ o.client = c
                                               /\ Uncounted(c) = {} /\ Uncounted(c)' = {Identity(o)}
  \/ /\ RtnTradeDone /\ callback.client = c /\ Uncounted(c) = {callback.of} /\ Uncounted(c)' = {}
     /\ Alive(c) /\ pos[c].ok => Value(c)' = Counting(Value(c), callback.of)
     /\ ~(Alive(c) /\ pos[c].ok) => Value(c)' = Value(c)

LEMMA TradeMoves ==
  ASSUME Typed, AltInv, IdleInv, NameInv, ValueInv, [Next]_vars, NEW c \in Names
  PROVE  TradeMove(c)
<1>1. /\ ~Alive(c) => pos[c] = NoPos
      /\ ~pos[c].ok => pos[c] = NoPos
      /\ ~stored[c].ok => stored[c] = NoPos
      /\ Alive(c) => (stored[c].ok <=> pos[c].ok)
      /\ ~NoPos.ok /\ Empty.ok
  BY DEF ValueInv, NoPos, Empty
<1>2. CASE Listen
  <2>1. UNCHANGED callback
    BY <1>2 DEF Listen, AddClient, RemoveClient, PosSet, SwitchDay, ReqOrderInsert, ReqOrderAction
  <2>2. Uncounted(c)' = Uncounted(c)
    BY <2>1 DEF Uncounted
  <2>3. CASE UNCHANGED <<clients, stored, pos>> \/ (Alive(c)' = Alive(c) /\ pos'[c] = pos[c] /\ stored'[c] = stored[c])
    BY <2>2, <2>3 DEF TradeMove, Value, Alive
  <2>4. CASE /\ Msg.client = c /\ Msg.type = "login" /\ Alive(c)' /\ stored'[c] = stored[c]
             /\ pos'[c] = IF stored[c].ok THEN stored[c] ELSE pos[c]
    <3>1. ~Alive(c)
      BY <1>2, <2>4, HeadAlive
    <3>2. Value(c)' = Value(c)
      BY <1>1, <2>4, <3>1 DEF Value
    <3>3. QED
      BY <2>2, <3>2 DEF TradeMove
  <2>5. CASE /\ Msg.client = c /\ Msg.type = "end" /\ ~Alive(c)' /\ pos'[c] = NoPos /\ CanTrade(c)
             /\ stored'[c] = IF pos[c].ok THEN pos[c] ELSE stored[c]
    <3>1. Alive(c)
      BY <1>2, <2>5, HeadAlive
    <3>2. Value(c)' = Value(c)
      BY <1>1, <2>5, <3>1 DEF Value
    <3>3. QED
      BY <2>2, <3>2 DEF TradeMove
  <2>6. CASE Msg.client = c /\ PosSet /\ Alive(c)' = Alive(c) /\ pos'[c] = Empty /\ stored'[c] = Empty
    <3>1. Value(c)' = Empty
      BY <2>6 DEF Value
    <3>2. QED
      BY <2>1, <2>6, <3>1 DEF TradeMove
  <2>7. QED
    BY <1>2, <2>3, <2>4, <2>5, <2>6, PositionsHear
<1>3. CASE RtnTradeDone
  <2>1. /\ pos'[c] = IF callback.client = c /\ pos[c].ok THEN Counting(pos[c], callback.of) ELSE pos[c]
        /\ Alive(c)' = Alive(c) /\ stored'[c] = stored[c]
        /\ callback.call = "trade" /\ callback' = NoCall
    BY <1>3, TradeCounted DEF Alive
  <2>2. CASE callback.client = c
    <3>1. Uncounted(c) = {callback.of} /\ Uncounted(c)' = {}
      BY <2>1, <2>2 DEF Uncounted, NoCall
    <3>2. /\ Alive(c) /\ pos[c].ok => Value(c)' = Counting(Value(c), callback.of)
          /\ ~(Alive(c) /\ pos[c].ok) => Value(c)' = Value(c)
      BY <2>1, <2>2 DEF Value
    <3>3. QED
      BY <1>3, <2>2, <3>1, <3>2 DEF TradeMove
  <2>3. CASE callback.client # c
    <3>1. Uncounted(c) = {} /\ Uncounted(c)' = {} /\ Value(c)' = Value(c)
      BY <2>1, <2>3 DEF Uncounted, NoCall, Value
    <3>2. QED
      BY <3>1 DEF TradeMove
  <2>4. QED
    BY <2>2, <2>3
<1>4. CASE UNCHANGED <<clients, stored, pos>> /\ ~Listen /\ ~RtnTradeDone
  <2>1. Value(c)' = Value(c)
    BY <1>4 DEF Value, Alive
  <2>2. CASE callback' = callback
    BY <2>1, <2>2 DEF TradeMove, Uncounted
  <2>3. CASE callback' = NoCall /\ callback.call # "trade"
    BY <2>1, <2>3 DEF TradeMove, Uncounted, NoCall
  <2>4. ASSUME NEW o \in market, NEW status, OnRtnOrder(o, status) PROVE TradeMove(c)
    <3>1. callback = NoCall /\ callback'.call = "order"
      BY <2>4 DEF OnRtnOrder
    <3>2. QED
      BY <2>1, <3>1 DEF TradeMove, Uncounted, NoCall
  <2>5. ASSUME NEW o \in market, OnRtnTrade(o) PROVE TradeMove(c)
    <3>1. callback = NoCall /\ callback'.call = "trade" /\ callback'.client = o.client /\ callback'.of = Identity(o)
      BY <2>5 DEF OnRtnTrade
    <3>2. Uncounted(c) = {} /\ Uncounted(c)' = IF o.client = c THEN {Identity(o)} ELSE {}
      BY <3>1 DEF Uncounted, NoCall
    <3>3. QED
      BY <2>1, <2>5, <3>2 DEF TradeMove
  <2>6. callback' = callback \/ (callback' = NoCall /\ callback.call # "trade")
        \/ \E o \in market : OnRtnTrade(o) \/ \E status \in {"traded", "canceled"} : OnRtnOrder(o, status)
    BY <1>4, NextCases DEF Acts, Start, End, AckPos, AckNone, AckIgnored, ReadRtnTrade, InsertOrder, CancelOrder,
     SwitchTradingDay, EngineOpen, Returns, OnRspOrderInsert, MissReturn, Callback, RtnOrderDone, OnFrontDisconnected, vars
  <2>7. QED
    BY <2>2, <2>3, <2>4, <2>5, <2>6
<1>5. QED
  BY <1>2, <1>3, <1>4, PositionsKept
UnreadIn(s) == {f.of : f \in {g \in Elems(s) : g.type = "rtn_trade"}}
Counts(f) == IF f.type = "rtn_trade" THEN {f.of} ELSE {}
OnlyAcks(s) == \A f \in Elems(s) : f.type = "ack"

LEMMA UnreadOf ==
  ASSUME NEW s \in Seq(InboxFrame)
  PROVE  /\ UnreadIn(<<>>) = {} /\ (OnlyAcks(s) => UnreadIn(s) = {})
         /\ s # <<>> => UnreadIn(s) = UnreadIn(Tail(s)) \cup Counts(Head(s))
         /\ \A x \in InboxFrame : UnreadIn(Append(s, x)) = UnreadIn(s) \cup Counts(x)
<1>1. UnreadIn(<<>>) = {} /\ (OnlyAcks(s) => UnreadIn(s) = {})
  BY ElemsOf DEF UnreadIn, OnlyAcks
<1>2. ASSUME s # <<>> PROVE UnreadIn(s) = UnreadIn(Tail(s)) \cup Counts(Head(s))
  <2>1. Elems(s) = Elems(Tail(s)) \cup {Head(s)}
    BY <1>2, ElemsOf
  <2>2. QED
    BY <2>1 DEF UnreadIn, Counts
<1>3. ASSUME NEW x \in InboxFrame PROVE UnreadIn(Append(s, x)) = UnreadIn(s) \cup Counts(x)
  <2>1. Elems(Append(s, x)) = Elems(s) \cup {x}
    BY ElemsOf
  <2>2. QED
    BY <2>1 DEF UnreadIn, Counts
<1>4. QED
  BY <1>1, <1>2, <1>3

LEMMA AcksOf ==
  ASSUME NEW s \in Seq(InboxFrame)
  PROVE  /\ OnlyAcks(<<>>)
         /\ OnlyAcks(s) /\ s # <<>> => OnlyAcks(Tail(s)) /\ Head(s).type = "ack"
         /\ \A x \in InboxFrame : OnlyAcks(s) /\ x.type = "ack" => OnlyAcks(Append(s, x))
BY ElemsOf DEF OnlyAcks

-----------------------------------------------------------------------------
(* What a strategy that is not ready, or has set its position back, cannot have. *)

NoOrders(c) == (\A o \in market : o.client # c) /\ (callback # NoCall => callback.client # c)
OrderOf(i, c) == IsFrame(i, "order", c)

(* The acks that a strategy waits for tell the position that counts, or there was none then. *)
AckTells(f, c) == f.pos = Value(c) \/ (f.pos = NoPos /\ Value(c) = Empty)

ReadyInv ==
  \A c \in Names : up[c] /\ ~TdIsReady(c) =>
    /\ NoOrders(c) /\ \A i \in Frames : ~OrderOf(i, c)
    /\ OnlyAcks(inbox[c]) /\ \A f \in Elems(inbox[c]) : AckTells(f, c)

(* As long as the engine has not read that the position is set back, there is no order. *)
HasPosSet(c) == \E i \in Frames : IsFrame(i, "pos_set", c)

PosSetInv ==
  \A c \in Names : HasPosSet(c) =>
    /\ Value(c) \in {NoPos, Empty} /\ NoOrders(c)
    /\ \A i, j \in Frames : OrderOf(i, c) /\ IsFrame(j, "pos_set", c) => j < i
    /\ Ready(c) => internalPos[c] = Empty /\ OnlyAcks(inbox[c])

LEMMA NoOrdersKept ==
  ASSUME Typed, ReturnsRouted, [Next]_vars, NEW c \in Names, NoOrders(c), Listen => ~OrderOf(1, c)
  PROVE  NoOrders(c)'
<1>1. ~(ReqOrderInsert /\ Msg.client = c)
  BY Heard DEF Listen, IsFrame, OrderOf
<1>2. \A p \in market' : p.client # c
  BY <1>1, MarketShape DEF NoOrders, Same, NewOrder
<1>3. callback' # NoCall => callback'.client # c
  BY CallFrom DEF NoOrders
<1>4. QED
  BY <1>2, <1>3 DEF NoOrders

(* What the position that counts for a client without orders can become. *)
LEMMA ValueKept ==
  ASSUME Typed, AltInv, IdleInv, NameInv, ValueInv, [Next]_vars, NEW c \in Names, NoOrders(c)
  PROVE  /\ Value(c)' = Value(c) \/ (PosSet /\ Msg.client = c /\ HasPosSet(c) /\ Value(c)' = Empty)
         /\ AddClient /\ Msg.client = c => Value(c)' = stored[c]
<1>1. Value(c)' = Value(c) \/ (PosSet /\ Msg.client = c /\ Value(c)' = Empty)
  <2>1. \A o \in market : o.client # c
    BY DEF NoOrders
  <2>2. RtnTradeDone => callback # NoCall
    BY DEF RtnTradeDone, NoCall
  <2>3. ~(RtnTradeDone /\ callback.client = c)
    BY <2>2 DEF NoOrders
  <2>4. QED
    BY <2>1, <2>3, TradeMoves DEF TradeMove
<1>2. PosSet /\ Msg.client = c => HasPosSet(c)
  BY Heard DEF Listen, HasPosSet, IsFrame
<1>3. ASSUME AddClient, Msg.client = c PROVE Value(c)' = stored[c]
  <2>1. Listen /\ Msg.type = "login"
    BY <1>3, Heard DEF Listen
  <2>2. ~PosSet
    BY <2>1, Heard
  <2>3. ~Alive(c)
    BY <1>3, <2>1, HeadAlive
  <2>4. QED
    BY <1>1, <2>2, <2>3 DEF Value
<1>4. QED
  BY <1>1, <1>2, <1>3
(* Where a frame of a strategy comes from: orders are of strategies that are ready. *)
LEMMA FrameBefore ==
  ASSUME Typed, [Next]_vars, NEW i \in Frames', NEW c \in Names
  PROVE  \/ Listen /\ i + 1 \in Frames /\ i \in Nat \ {0} /\ feed'[i] = feed[i + 1]
         \/ ~Listen /\ i \in Frames /\ feed'[i] = feed[i]
         \/ /\ ~Listen /\ i = Len(feed) + 1
            /\ IsFrame(i, "order", c)' => Ready(c) /\ ~AckNone(c) /\ UNCHANGED <<up, tds>>
            /\ IsFrame(i, "pos_set", c)' => AckNone(c)
<1>1. CASE Listen /\ Shifted
  BY <1>1 DEF Shifted
<1>2. CASE ~Listen /\ UNCHANGED feed
  BY <1>2 DEF Frames
<1>3. ASSUME ~Listen, NEW frame \in FeedFrame, Told(frame), i = Len(feed) + 1,
             \/ SwitchTradingDay /\ frame.type = "switch"
             \/ \E d \in Names : frame.client = d /\ FrameOf(d, frame)
      PROVE  /\ IsFrame(i, "order", c)' => Ready(c) /\ ~AckNone(c) /\ UNCHANGED <<up, tds>>
             /\ IsFrame(i, "pos_set", c)' => AckNone(c)
  <2>1. \A type : IsFrame(i, type, c)' <=> frame.type = type /\ frame.client = c
    BY <1>3 DEF Told, IsFrame
  <2>2. frame.type = "pos_set" /\ frame.client = c => AckNone(c)
    BY <1>3 DEF FrameOf
  <2>3. frame.type = "order" /\ frame.client = c => InsertOrder(c)
    BY <1>3 DEF FrameOf, InsertedFrame
  <2>4. InsertOrder(c) => Ready(c) /\ UNCHANGED <<up, tds, inbox>>
    BY DEF InsertOrder, Ready
  <2>5. AckNone(c) => inbox[c] # <<>> /\ inbox' = [inbox EXCEPT ![c] = Tail(@)]
    BY DEF AckNone, Reads
  <2>6. ASSUME inbox[c] # <<>>, inbox' = [inbox EXCEPT ![c] = Tail(@)] PROVE inbox' # inbox
    <3>1. inbox[c] \in Seq(InboxFrame) /\ inbox'[c] = Tail(inbox[c])
      BY <2>6 DEF Typed, StrategyTypes
    <3>2. Len(Tail(inbox[c])) # Len(inbox[c])
      BY <2>6, <3>1
    <3>3. QED
      BY <3>1, <3>2
  <2>7. QED
    BY <2>1, <2>2, <2>3, <2>4, <2>5, <2>6
<1>4. ASSUME ~Listen, NEW frame \in FeedFrame, Told(frame) PROVE (i \in Frames /\ feed'[i] = feed[i]) \/ i = Len(feed) + 1
  BY <1>4 DEF Told
<1>5. QED
  BY <1>1, <1>2, <1>3, <1>4, FrameMoves

LEMMA ReadyStep ==
  ASSUME SettledStart, Typed, ReturnsRouted, WindowInv, RunInv, AltInv, IdleInv, NameInv, ValueInv, ReadyInv, PosSetInv,
         [Next]_vars
  PROVE  ReadyInv'
<1>1. SUFFICES ASSUME NEW c \in Names, up'[c], ~TdIsReady(c)'
               PROVE  /\ NoOrders(c)' /\ \A i \in Frames' : ~OrderOf(i, c)'
                      /\ OnlyAcks(inbox'[c]) /\ \A f \in Elems(inbox'[c]) : AckTells(f, c)'
  BY DEF ReadyInv
<1>2. /\ inbox[c] \in Seq(InboxFrame) /\ stored[c] \in Position /\ Len(feed) \in Nat
      /\ Ack(c) \in InboxFrame /\ Ack(c).type = "ack" /\ Ack(c).pos = stored[c]
  BY DEF Typed, StrategyTypes, EngineTypes, Ack, InboxFrame
<1>3. ASSUME Start(c) PROVE /\ NoOrders(c) /\ inbox[c] = <<>> /\ \A i \in Frames : ~OrderOf(i, c)
  <2>1. ~up[c]
    BY <1>3 DEF Start
  <2>2. QED
    BY <1>3, <2>1, StartSettled DEF NoOrders, IdleInv, OrderOf, IsFrame
<1>4. ASSUME ~Start(c)
      PROVE  /\ up[c] /\ ~TdIsReady(c)
             /\ \/ inbox'[c] = inbox[c]
                \/ AddClient /\ Msg.client = c /\ inbox'[c] = Append(inbox[c], Ack(c))
                \/ inbox[c] # <<>> /\ inbox'[c] = Tail(inbox[c])
  <2>1. ViewMove(c)
    BY ViewMoves
  <2>2. up[c] /\ ~TdIsReady(c)
    BY <1>1, <1>4, <2>1 DEF ViewMove, Keeps, Takes, TdIsReady
  <2>3. NoOrders(c)
    BY <2>2 DEF ReadyInv
  <2>4. QED
    BY <1>1, <1>4, <2>1, <2>2, <2>3 DEF ViewMove, Takes, TdIsReady, NoOrders
<1>5. NoOrders(c) /\ \A i \in Frames : ~OrderOf(i, c)
  BY <1>3, <1>4 DEF ReadyInv
<1>6. NoOrders(c)'
  BY <1>5, Heard, NoOrdersKept
<1>7. \A i \in Frames' : ~OrderOf(i, c)'
  <2>1. ASSUME NEW i \in Frames', OrderOf(i, c)' PROVE Ready(c) /\ UNCHANGED <<up, tds>>
    BY <1>5, <2>1, FrameBefore DEF OrderOf, IsFrame
  <2>2. ASSUME Ready(c), UNCHANGED <<up, tds>> PROVE FALSE
    BY <1>1, <2>2 DEF Ready, TdIsReady
  <2>3. QED
    BY <2>1, <2>2
<1>8. OnlyAcks(inbox[c]) /\ \A f \in Elems(inbox[c]) : AckTells(f, c)
  <2>1. CASE Start(c)
    BY <1>2, <1>3, <2>1, ElemsOf, AcksOf
  <2>2. CASE ~Start(c)
    BY <1>4, <2>2 DEF ReadyInv
  <2>3. QED
    BY <2>1, <2>2
<1>9. \A f : AckTells(f, c) => AckTells(f, c)'
  <2>1. CASE Value(c)' = Value(c)
    BY <2>1 DEF AckTells
  <2>2. CASE HasPosSet(c) /\ Value(c)' = Empty
    <3>1. Value(c) \in {NoPos, Empty}
      BY <2>2 DEF PosSetInv
    <3>2. QED
      BY <2>2, <3>1 DEF AckTells
  <2>3. QED
    BY <1>5, <2>1, <2>2, ValueKept
<1>10. ASSUME AddClient, Msg.client = c, NEW f, f = Ack(c) PROVE AckTells(f, c)'
  <2>1. Value(c)' = stored[c]
    BY <1>5, <1>10, ValueKept
  <2>2. QED
    BY <1>2, <1>10, <2>1 DEF AckTells
<1>11. OnlyAcks(inbox'[c]) /\ \A f \in Elems(inbox'[c]) : AckTells(f, c)'
  <2>1. CASE inbox'[c] = inbox[c]
    BY <1>8, <1>9, <2>1
  <2>2. CASE AddClient /\ Msg.client = c /\ inbox'[c] = Append(inbox[c], Ack(c))
    <3>1. Elems(inbox'[c]) = Elems(inbox[c]) \cup {Ack(c)} /\ OnlyAcks(inbox'[c])
      BY <1>2, <1>8, <2>2, ElemsOf, AcksOf
    <3>2. QED
      BY <1>8, <1>9, <1>10, <2>2, <3>1
  <2>3. CASE inbox[c] # <<>> /\ inbox'[c] = Tail(inbox[c])
    <3>1. Elems(inbox'[c]) \subseteq Elems(inbox[c]) /\ OnlyAcks(inbox'[c])
      BY <1>2, <1>8, <2>3, ElemsOf, AcksOf
    <3>2. QED
      BY <1>8, <1>9, <3>1
  <2>4. CASE Start(c)
    <3>1. ViewMove(c) /\ inbox[c] = <<>>
      BY <1>3, <2>4, ViewMoves
    <3>2. inbox' = inbox
      BY <2>4 DEF Start
    <3>3. QED
      BY <2>1, <3>2
  <2>5. QED
    BY <1>4, <2>1, <2>2, <2>3, <2>4
<1>12. QED
  BY <1>6, <1>7, <1>11
LEMMA PosSetStep ==
  ASSUME SettledStart, Typed, ReturnsRouted, WindowInv, RunInv, AltInv, IdleInv, NameInv, ValueInv, ReadyInv, PosSetInv,
         [Next]_vars
  PROVE  PosSetInv'
<1>1. SUFFICES ASSUME NEW c \in Names, HasPosSet(c)'
               PROVE  /\ Value(c)' \in {NoPos, Empty} /\ NoOrders(c)'
                      /\ \A i, j \in Frames' : OrderOf(i, c)' /\ IsFrame(j, "pos_set", c)' => j < i
                      /\ Ready(c)' => internalPos'[c] = Empty /\ OnlyAcks(inbox'[c])
  BY DEF PosSetInv, NoPos, Empty
<1>2. /\ inbox[c] \in Seq(InboxFrame) /\ stored[c] \in Position /\ Len(feed) \in Nat /\ ~NoPos.ok /\ Empty.ok
      /\ Ack(c) \in InboxFrame /\ Ack(c).type = "ack" /\ Ack(c).pos = stored[c]
  BY DEF Typed, StrategyTypes, EngineTypes, Ack, InboxFrame, NoPos, Empty
<1>3. AckNone(c) => up[c] /\ ~TdIsReady(c) /\ inbox[c] # <<>> /\ ~Head(inbox[c]).pos.ok /\ ~Listen
  <2>1. ASSUME AckNone(c) PROVE up[c] /\ ~TdIsReady(c) /\ inbox[c] # <<>> /\ ~Head(inbox[c]).pos.ok /\ tds' # tds
    <3>1. /\ up[c] /\ inbox[c] # <<>> /\ ~Head(inbox[c]).pos.ok
          /\ tds[c] = "requested" /\ tds' = [tds EXCEPT ![c] = "set_back"]
      BY <2>1 DEF AckNone, Reads
    <3>2. tds'[c] = "set_back"
      BY <3>1 DEF Typed, StrategyTypes
    <3>3. QED
      BY <3>1, <3>2 DEF TdIsReady
  <2>2. Listen => tds' = tds
    BY FrameMoves DEF strategyVars
  <2>3. QED
    BY <2>1, <2>2
<1>4. HasPosSet(c) \/ AckNone(c)
  <2>1. PICK i \in Frames' : IsFrame(i, "pos_set", c)'
    BY <1>1 DEF HasPosSet
  <2>2. QED
    BY <2>1, FrameBefore DEF HasPosSet, IsFrame
<1>5. ASSUME AckNone(c)
      PROVE  /\ Value(c) \in {NoPos, Empty} /\ \A i \in Frames : ~OrderOf(i, c)
             /\ NoOrders(c)
  <2>1. Head(inbox[c]) \in Elems(inbox[c])
    BY <1>2, <1>3, <1>5, ElemsOf
  <2>2. /\ NoOrders(c) /\ \A i \in Frames : ~OrderOf(i, c)
        /\ AckTells(Head(inbox[c]), c)
    BY <1>3, <1>5, <2>1 DEF ReadyInv
  <2>3. ~Value(c).ok => Value(c) = NoPos
    BY DEF ValueInv, Value
  <2>4. QED
    BY <1>3, <1>5, <2>2, <2>3 DEF AckTells
<1>6. Value(c) \in {NoPos, Empty} /\ NoOrders(c)
  BY <1>4, <1>5 DEF PosSetInv
<1>7. Value(c)' \in {NoPos, Empty}
  BY <1>6, ValueKept
<1>8. NoOrders(c)'
  <2>1. ASSUME Listen, OrderOf(1, c) PROVE FALSE
    <3>1. HasPosSet(c)
      BY <1>3, <1>4, <2>1
    <3>2. PICK j \in Frames : IsFrame(j, "pos_set", c)
      BY <3>1 DEF HasPosSet
    <3>3. 1 \in Frames /\ j \in Nat \ {0}
      BY <1>2 DEF Frames
    <3>4. j < 1
      BY <2>1, <3>1, <3>2, <3>3 DEF PosSetInv
    <3>5. QED
      BY <3>3, <3>4
  <2>2. QED
    BY <1>6, <2>1, NoOrdersKept
<1>9. ASSUME NEW i \in Frames', NEW j \in Frames', OrderOf(i, c)', IsFrame(j, "pos_set", c)' PROVE j < i
  <2>1. /\ \/ Listen /\ i + 1 \in Frames /\ OrderOf(i + 1, c)
           \/ ~Listen /\ i \in Frames /\ OrderOf(i, c)
           \/ ~Listen /\ i = Len(feed) + 1 /\ Ready(c) /\ ~AckNone(c)
    BY <1>9, FrameBefore DEF OrderOf, IsFrame
  <2>2. /\ \/ Listen /\ j + 1 \in Frames /\ IsFrame(j + 1, "pos_set", c)
           \/ ~Listen /\ j \in Frames /\ IsFrame(j, "pos_set", c)
           \/ ~Listen /\ j = Len(feed) + 1 /\ AckNone(c)
    BY <1>9, FrameBefore DEF IsFrame
  <2>3. i \in Int /\ j \in Int /\ \A k \in Frames : k <= Len(feed)
    BY <1>2, <1>9 DEF Frames
  <2>4. ASSUME NEW k \in Frames, NEW l \in Frames, OrderOf(k, c), IsFrame(l, "pos_set", c) PROVE l < k
    BY <2>4 DEF PosSetInv, HasPosSet
  <2>5. CASE Listen
    <3>1. j + 1 < i + 1
      BY <2>1, <2>2, <2>4, <2>5
    <3>2. QED
      BY <2>3, <3>1
  <2>6. CASE ~Listen /\ i = Len(feed) + 1 /\ j \in Frames
    BY <1>2, <2>3, <2>6
  <2>7. CASE AckNone(c)
    BY <1>5, <2>1, <2>7, <1>3
  <2>8. CASE ~Listen /\ i \in Frames /\ OrderOf(i, c) /\ j \in Frames /\ IsFrame(j, "pos_set", c)
    BY <2>4, <2>8
  <2>9. QED
    BY <2>1, <2>2, <2>5, <2>6, <2>7, <2>8
<1>10. ASSUME up[c] PROVE OnlyAcks(inbox[c]) /\ (TdIsReady(c) => internalPos[c] = Empty)
  <2>1. CASE TdIsReady(c)
    BY <1>3, <1>4, <1>10, <2>1 DEF PosSetInv, Ready
  <2>2. CASE ~TdIsReady(c)
    BY <1>10, <2>2 DEF ReadyInv
  <2>3. QED
    BY <2>1, <2>2
<1>11. ASSUME Ready(c)' PROVE internalPos'[c] = Empty /\ OnlyAcks(inbox'[c])
  <2>1. ViewMove(c)
    BY ViewMoves
  <2>2. up[c]
    BY <1>11, <2>1 DEF ViewMove, Keeps, Takes, Ready, TdIsReady
  <2>3. OnlyAcks(inbox[c]) /\ (TdIsReady(c) => internalPos[c] = Empty)
    BY <1>10, <2>2
  <2>4. inbox[c] # <<>> => OnlyAcks(Tail(inbox[c])) /\ Head(inbox[c]).type = "ack"
    BY <1>2, <2>3, AcksOf
  <2>5. OnlyAcks(Append(inbox[c], Ack(c)))
    BY <1>2, <2>3, AcksOf
  <2>6. ASSUME AckPos(c) PROVE Head(inbox[c]).pos.ok => Head(inbox[c]).pos = Empty
    <3>1. ~TdIsReady(c) /\ inbox[c] # <<>> /\ UNCHANGED feed
      BY <2>6 DEF AckPos, Reads, TdIsReady
    <3>2. Head(inbox[c]) \in Elems(inbox[c])
      BY <1>2, <3>1, ElemsOf
    <3>3. AckTells(Head(inbox[c]), c)
      BY <2>2, <3>1, <3>2 DEF ReadyInv
    <3>4. QED
      BY <1>2, <1>6, <3>3 DEF AckTells
  <2>7. \A o \in market : o.client # c
    BY <1>6 DEF NoOrders
  <2>8. CASE Keeps(c)
    <3>1. internalPos'[c] = Empty
      BY <1>11, <2>3, <2>8 DEF Keeps, Ready, TdIsReady
    <3>2. OnlyAcks(inbox'[c])
      BY <2>1, <2>2, <2>3, <2>4, <2>5, <2>7, <1>11 DEF ViewMove, Takes, Ready, TdIsReady
    <3>3. QED
      BY <3>1, <3>2
  <2>9. CASE ~Keeps(c)
    BY <2>1, <2>2, <2>3, <2>4, <2>6, <2>9, <1>11 DEF ViewMove, Takes, Ready, TdIsReady
  <2>10. QED
    BY <2>8, <2>9
<1>12. QED
  BY <1>7, <1>8, <1>9, <1>11
-----------------------------------------------------------------------------
(* The strategy has counted or not read what the engine has counted or told. *)

LEMMA NoLogins ==
  ASSUME Typed, AltInv, NEW c \in Names, CanTrade(c), up[c], \A i \in Frames : ~IsFrame(i, "login", c)
  PROVE  Alive(c)
<1>1. In(c, Len(feed))
  BY DEF AltInv
<1>2. PICK i \in 0 .. Len(feed) : i \in Logins(c)
  BY <1>1 DEF In, Since
<1>3. i = 0 \/ i \in Frames
  BY DEF Frames, Typed
<1>4. QED
  BY <1>2, <1>3 DEF Logins

AgreeInv ==
  \A c \in Names : Ready(c) /\ ~HasPosSet(c) =>
    /\ internalPos[c].ok /\ Value(c).ok
    /\ internalPos[c].trades \cup UnreadIn(inbox[c]) = Value(c).trades \cup Uncounted(c)

(* A position set by the strategy and read by the engine. *)
LEMMA AgreeSet ==
  ASSUME Typed, AltInv, IdleInv, NameInv, ValueInv, PosSetInv, [Next]_vars,
         NEW c \in Names, Ready(c), HasPosSet(c), ~HasPosSet(c)'
  PROVE  /\ internalPos'[c].ok /\ Value(c)'.ok
         /\ internalPos'[c].trades \cup UnreadIn(inbox'[c]) = Value(c)'.trades \cup Uncounted(c)'
<1>1. /\ NoOrders(c) /\ internalPos[c] = Empty /\ OnlyAcks(inbox[c])
  BY DEF PosSetInv
<1>2. PICK i \in Frames : IsFrame(i, "pos_set", c)
  BY DEF HasPosSet
<1>3. PosSet /\ Msg.client = c
  <2>1. ASSUME Listen, Shifted PROVE PosSet /\ Msg.client = c
    <3>1. CASE i = 1
      BY <1>2, <2>1, <3>1, Heard DEF IsFrame
    <3>2. CASE i # 1
      <4>1. i - 1 \in Frames' /\ (i - 1) + 1 = i
        BY <2>1, <3>2 DEF Shifted, Frames
      <4>2. feed'[i - 1] = feed[i]
        BY <2>1, <4>1 DEF Shifted
      <4>3. QED
        BY <1>2, <4>1, <4>2 DEF HasPosSet, IsFrame
    <3>3. QED
      BY <3>1, <3>2
  <2>2. ~ UNCHANGED feed
    BY <1>2 DEF HasPosSet, IsFrame, Frames
  <2>3. ASSUME NEW frame, Told(frame) PROVE FALSE
    BY <1>2, <2>3 DEF HasPosSet, IsFrame, Told
  <2>4. QED
    BY <2>1, <2>2, <2>3, FrameMoves
<1>4. UNCHANGED <<internalPos, inbox, callback>>
  BY <1>3 DEF PosSet, strategyVars
<1>5. Value(c)' = Empty
  <2>1. Alive(c) /\ Msg.type = "pos_set"
    BY <1>3, HeadAlive, Heard DEF Listen
  <2>2. pos' = [pos EXCEPT ![c] = Empty] /\ UNCHANGED clients
    BY <1>3, <2>1, Heard, FrameKinds DEF PosSet, Listen
  <2>3. pos'[c] = Empty
    BY <2>2 DEF Typed, EngineTypes
  <2>4. QED
    BY <2>1, <2>2, <2>3 DEF Value, Alive
<1>6. inbox[c] \in Seq(InboxFrame)
  BY DEF Typed, StrategyTypes
<1>7. UnreadIn(inbox'[c]) = {}
  BY <1>1, <1>4, <1>6, UnreadOf
<1>8. Uncounted(c)' = {}
  <2>1. callback.call = "trade" => callback # NoCall
    BY DEF NoCall
  <2>2. QED
    BY <1>1, <1>4, <2>1 DEF Uncounted, NoOrders
<1>9. QED
  BY <1>1, <1>4, <1>5, <1>7, <1>8 DEF Empty

(* A strategy becomes ready with the position of an ack that it waited for. *)
LEMMA AgreeAck ==
  ASSUME Typed, ReturnsRouted, WindowInv, RunInv, ReadyInv, [Next]_vars,
         NEW c \in Names, ~Ready(c), Ready(c)', ~HasPosSet(c)'
  PROVE  /\ internalPos'[c].ok /\ Value(c)'.ok
         /\ internalPos'[c].trades \cup UnreadIn(inbox'[c]) = Value(c)'.trades \cup Uncounted(c)'
<1>1. ViewMove(c)
  BY ViewMoves
<1>2. ~AckNone(c)
  <2>1. AckNone(c) => Tell([type |-> "pos_set", client |-> c, pos |-> [ok |-> TRUE, trades |-> {}]])
    BY DEF AckNone
  <2>2. Tell([type |-> "pos_set", client |-> c, pos |-> [ok |-> TRUE, trades |-> {}]]) => HasPosSet(c)'
    <3>1. [type |-> "pos_set", client |-> c, pos |-> [ok |-> TRUE, trades |-> {}]] \in FeedFrame
      BY DEF FeedFrame, Empty
    <3>2. QED
      BY <3>1, FeedTold DEF Typed, HasPosSet, IsFrame, Frames
  <2>3. QED
    BY <2>1, <2>2
<1>3. /\ AckPos(c) /\ Takes(c, "ack") /\ tds[c] = "requested"
      /\ Head(inbox[c]).pos.ok /\ internalPos'[c] = Head(inbox[c]).pos
  BY <1>1, <1>2 DEF ViewMove, Keeps, Takes, Ready, TdIsReady
<1>4. /\ inbox[c] \in Seq(InboxFrame) /\ inbox[c] # <<>> /\ inbox'[c] = Tail(inbox[c]) /\ up[c] /\ ~TdIsReady(c)
      /\ ~NoPos.ok
  BY <1>3 DEF Typed, StrategyTypes, Takes, TdIsReady, NoPos
<1>5. /\ NoOrders(c) /\ OnlyAcks(inbox[c]) /\ \A f \in Elems(inbox[c]) : AckTells(f, c)
  BY <1>4 DEF ReadyInv
<1>6. Head(inbox[c]).pos = Value(c)
  BY <1>3, <1>4, <1>5, ElemsOf DEF AckTells
<1>7. UnreadIn(inbox'[c]) = {}
  <2>1. OnlyAcks(Tail(inbox[c])) /\ Tail(inbox[c]) \in Seq(InboxFrame)
    BY <1>4, <1>5, AcksOf, ElemsOf
  <2>2. QED
    BY <1>4, <2>1, UnreadOf
<1>8. Value(c)' = Value(c) /\ Uncounted(c)' = {}
  <2>1. UNCHANGED <<clients, stored, pos, callback>>
    BY <1>3 DEF Takes, Apiece, engineVars
  <2>2. callback.call = "trade" => callback # NoCall
    BY DEF NoCall
  <2>3. QED
    BY <1>5, <2>1, <2>2 DEF Value, Alive, Uncounted, NoOrders
<1>9. QED
  BY <1>3, <1>6, <1>7, <1>8
(* A strategy that is ready and the engine count one trade after the other. *)
LEMMA AgreeKept ==
  ASSUME Typed, ReturnsRouted, WindowInv, RunInv, LoginInv, AltInv, IdleInv, NameInv, ValueInv, AgreeInv, [Next]_vars,
         NEW c \in Names, Ready(c), ~HasPosSet(c), Ready(c)'
  PROVE  /\ internalPos'[c].ok /\ Value(c)'.ok
         /\ internalPos'[c].trades \cup UnreadIn(inbox'[c]) = Value(c)'.trades \cup Uncounted(c)'
<1>1. /\ internalPos[c].ok /\ Value(c).ok
      /\ internalPos[c].trades \cup UnreadIn(inbox[c]) = Value(c).trades \cup Uncounted(c)
  BY DEF AgreeInv
<1>2. /\ inbox[c] \in Seq(InboxFrame) /\ stored[c] \in Position /\ Value(c) \in Position /\ internalPos[c] \in Position
      /\ Ack(c) \in InboxFrame /\ Ack(c).type = "ack" /\ up[c] /\ tds[c] # "requested"
  BY DEF Typed, StrategyTypes, EngineTypes, Ack, InboxFrame, Value, Ready, TdIsReady
<1>3. ViewMove(c) /\ TradeMove(c)
  BY ViewMoves, TradeMoves
<1>4. \A p \in Position : \A t : Counting(p, t).ok = p.ok /\ Counting(p, t).trades = p.trades \cup {t}
  BY DEF Position, Counting
<1>5. ~(PosSet /\ Msg.client = c)
  <2>1. PosSet /\ Msg.client = c => feed[1].type = "pos_set" /\ feed[1].client = c /\ 1 \in Frames
    BY Heard DEF Listen
  <2>2. QED
    BY <2>1 DEF HasPosSet, IsFrame
<1>6. ASSUME RtnTradeDone, callback.client = c PROVE Alive(c) /\ pos[c].ok
  <2>1. callback # NoCall
    BY <1>6 DEF RtnTradeDone, NoCall
  <2>2. \A i \in Frames : ~IsFrame(i, "login", c)
    BY <1>6, <2>1 DEF LoginInv, Apart, IsFrame
  <2>3. CanTrade(c)
    BY DEF IdleInv, Ready
  <2>4. Alive(c)
    BY <1>2, <2>2, <2>3, NoLogins
  <2>5. QED
    BY <1>1, <2>4 DEF Value
<1>7. CASE Keeps(c) /\ inbox'[c] = inbox[c] /\ ~(\E o \in market : OnRtnTrade(o) /\ o.client = c)
  <2>1. CASE Value(c)' = Value(c) /\ Uncounted(c)' = Uncounted(c)
    BY <1>1, <1>7, <2>1 DEF Keeps
  <2>2. CASE /\ RtnTradeDone /\ callback.client = c /\ Uncounted(c) = {callback.of} /\ Uncounted(c)' = {}
             /\ Alive(c) /\ pos[c].ok => Value(c)' = Counting(Value(c), callback.of)
    <3>1. Value(c)'.ok /\ Value(c)'.trades = Value(c).trades \cup {callback.of}
      BY <1>1, <1>2, <1>4, <1>6, <2>2
    <3>2. QED
      BY <1>1, <1>7, <2>2, <3>1 DEF Keeps
  <2>3. QED
    BY <1>3, <1>5, <1>7, <2>1, <2>2 DEF TradeMove
<1>8. CASE Keeps(c) /\ AddClient /\ inbox'[c] = Append(inbox[c], Ack(c))
  <2>1. UNCHANGED callback
    BY <1>8 DEF AddClient
  <2>2. Uncounted(c)' = Uncounted(c)
    BY <2>1 DEF Uncounted
  <2>3. Value(c)' = Value(c)
    BY <1>3, <1>5, <2>2 DEF TradeMove
  <2>4. UnreadIn(inbox'[c]) = UnreadIn(inbox[c])
    <3>1. UnreadIn(Append(inbox[c], Ack(c))) = UnreadIn(inbox[c]) \cup Counts(Ack(c))
      BY <1>2, UnreadOf
    <3>2. Counts(Ack(c)) = {}
      BY <1>2 DEF Counts
    <3>3. QED
      BY <1>8, <3>1, <3>2
  <2>5. QED
    BY <1>1, <1>8, <2>2, <2>3, <2>4 DEF Keeps
<1>9. ASSUME Keeps(c), NEW o \in market, OnRtnTrade(o), o.client = c, inbox'[c] = Append(inbox[c], Rtn(o))
      PROVE  /\ internalPos'[c].ok /\ Value(c)'.ok
             /\ internalPos'[c].trades \cup UnreadIn(inbox'[c]) = Value(c)'.trades \cup Uncounted(c)'
  <2>1. callback = NoCall /\ callback'.call = "trade" /\ callback'.client = c /\ callback'.of = Identity(o)
    BY <1>9 DEF OnRtnTrade
  <2>2. Uncounted(c) = {} /\ Uncounted(c)' = {Identity(o)}
    BY <2>1 DEF Uncounted, NoCall
  <2>3. Value(c)' = Value(c)
    BY <1>3, <1>5, <2>2 DEF TradeMove
  <2>4. Rtn(o) \in InboxFrame /\ Rtn(o).type = "rtn_trade" /\ Rtn(o).of = Identity(o)
    BY DEF Typed, MarketTypes, MarketOrder, Rtn, InboxFrame, Identity, Identities
  <2>5. UnreadIn(inbox'[c]) = UnreadIn(inbox[c]) \cup {Identity(o)}
    BY <1>2, <1>9, <2>4, UnreadOf DEF Counts
  <2>6. QED
    BY <1>1, <1>9, <2>2, <2>3, <2>5 DEF Keeps
<1>10. ASSUME Apiece PROVE Value(c)' = Value(c) /\ Uncounted(c)' = Uncounted(c)
  BY <1>10 DEF Apiece, engineVars, Value, Alive, Uncounted
<1>11. CASE Keeps(c) /\ Takes(c, "ack")
  <2>1. UnreadIn(inbox'[c]) = UnreadIn(inbox[c])
    <3>1. inbox[c] # <<>> /\ Head(inbox[c]).type = "ack" /\ inbox'[c] = Tail(inbox[c])
      BY <1>11 DEF Takes
    <3>2. UnreadIn(inbox[c]) = UnreadIn(Tail(inbox[c])) \cup Counts(Head(inbox[c]))
      BY <1>2, <3>1, UnreadOf
    <3>3. QED
      BY <3>1, <3>2 DEF Counts
  <2>2. QED
    BY <1>1, <1>10, <1>11, <2>1 DEF Keeps, Takes
<1>12. CASE Takes(c, "rtn_trade") /\ internalPos'[c] = Counting(internalPos[c], Head(inbox[c]).of)
  <2>1. UnreadIn(inbox[c]) = UnreadIn(inbox'[c]) \cup {Head(inbox[c]).of}
    BY <1>2, <1>12, UnreadOf DEF Takes, Counts
  <2>2. internalPos'[c].ok /\ internalPos'[c].trades = internalPos[c].trades \cup {Head(inbox[c]).of}
    BY <1>1, <1>2, <1>4, <1>12
  <2>3. QED
    BY <1>1, <1>10, <1>12, <2>1, <2>2 DEF Takes
<1>13. up'[c]
  BY DEF Ready
<1>14. QED
  BY <1>2, <1>3, <1>7, <1>8, <1>9, <1>11, <1>12, <1>13 DEF ViewMove

LEMMA AgreeStep ==
  ASSUME Typed, ReturnsRouted, WindowInv, RunInv, LoginInv, AltInv, IdleInv, NameInv, ValueInv, ReadyInv, PosSetInv,
         AgreeInv, [Next]_vars
  PROVE  AgreeInv'
<1>1. SUFFICES ASSUME NEW c \in Names, Ready(c)', ~HasPosSet(c)'
               PROVE  /\ internalPos'[c].ok /\ Value(c)'.ok
                      /\ internalPos'[c].trades \cup UnreadIn(inbox'[c]) = Value(c)'.trades \cup Uncounted(c)'
  BY DEF AgreeInv
<1>2. CASE ~Ready(c)
  BY <1>1, <1>2, AgreeAck
<1>3. CASE Ready(c) /\ HasPosSet(c)
  BY <1>1, <1>3, AgreeSet
<1>4. CASE Ready(c) /\ ~HasPosSet(c)
  BY <1>1, <1>4, AgreeKept
<1>5. QED
  BY <1>2, <1>3, <1>4
PositionsInv ==
  /\ OrdersInv /\ AltInv /\ NameInv /\ IdleInv /\ ValueInv
  /\ ReadyInv /\ PosSetInv /\ AgreeInv

LEMMA PositionsInit == Init => PositionsInv
<1> SUFFICES ASSUME Init PROVE PositionsInv
  OBVIOUS
<1>1. /\ feed = <<>> /\ market = {} /\ callback = NoCall /\ Frames = {} /\ Len(feed) = 0
      /\ \A c \in Names : /\ ~up[c] /\ ~TdIsReady(c) /\ ~Alive(c) /\ inbox[c] = <<>>
                          /\ pos[c] = NoPos /\ stored[c] = NoPos /\ ~NoPos.ok
  BY DEF Init, Frames, TdIsReady, Alive, NoPos
<1>2. AltInv
  <2>1. ASSUME NEW c \in Names PROVE ~In(c, Len(feed))
    <3>1. 0 \notin Logins(c)
      BY <1>1 DEF Logins
    <3>2. ~Since(Logins(c), Ends(c), 0)
      BY <3>1, SinceFirst
    <3>3. QED
      BY <1>1, <3>2 DEF In
  <2>2. QED
    BY <1>1, <2>1 DEF AltInv
<1>3. NameInv /\ IdleInv /\ ValueInv
  BY <1>1 DEF NameInv, IdleInv, ValueInv
<1>4. ReadyInv /\ PosSetInv /\ AgreeInv
  BY <1>1 DEF ReadyInv, PosSetInv, HasPosSet, AgreeInv, Ready
<1>5. QED
  BY <1>2, <1>3, <1>4, OrdersInit DEF PositionsInv

LEMMA PositionsStep ==
  ASSUME SettledStart, CleanSwitch PROVE PositionsInv /\ IdsFit /\ IdsFit' /\ [Next]_vars => PositionsInv'
<1> SUFFICES ASSUME PositionsInv, IdsFit, IdsFit', [Next]_vars PROVE PositionsInv'
  OBVIOUS
<1> USE DEF PositionsInv
<1>1. /\ Typed /\ RefsInv /\ ReturnsRouted /\ WindowInv /\ RunInv /\ CallRunInv /\ LoginInv
  BY RoutedOrders DEF OrdersInv, RoutedInv, RefsInv
<1>2. OrdersInv'
  BY OrdersStep
<1>3. AltInv' /\ NameInv' /\ IdleInv' /\ ValueInv'
  BY <1>1, AltStep, NameStep, IdleStep, ValueStep
<1>4. ReadyInv' /\ PosSetInv' /\ AgreeInv'
  BY <1>1, ReadyStep, PosSetStep, AgreeStep
<1>5. QED
  BY <1>2, <1>3, <1>4

(***************************************************************************)
(* When nothing is under way between them, the position of a strategy that *)
(* is ready and the one that the engine keeps for it count the same trades *)
(* (ITDEngine::on_rtn_trade, add_client; WCDataWrapper::run,               *)
(* process_td_ack): under the conditions of the theorems above, which give *)
(* every trade to the client that sent its order.                          *)
(***************************************************************************)
THEOREM StrategiesAgree ==
  ASSUME SettledStart, CleanSwitch PROVE Spec /\ []IdsFit => []PositionsAgree
<1>1. PositionsInv => PositionsAgree
  <2>1. SUFFICES ASSUME PositionsInv, NEW c \in Names, up[c], TdIsReady(c), inbox[c] = <<>>, callback.call # "trade",
                        \A i \in DOMAIN feed : feed[i].type \in {"order", "action"}
                 PROVE  internalPos[c] = pos[c]
    BY DEF PositionsAgree
  <2>2. Typed /\ internalPos[c] \in Position /\ pos[c] \in Position /\ inbox[c] \in Seq(InboxFrame)
    BY <2>1 DEF PositionsInv, OrdersInv, RoutedInv, RefsInv, Typed, StrategyTypes, EngineTypes
  <2>3. \A i \in Frames : feed[i].type \in {"order", "action"}
    BY <2>1, <2>2 DEF Typed, Frames
  <2>4. ~HasPosSet(c) /\ \A i \in Frames : ~IsFrame(i, "login", c)
    BY <2>3 DEF HasPosSet, IsFrame
  <2>5. CanTrade(c)
    BY <2>1 DEF PositionsInv, IdleInv
  <2>6. Alive(c)
    BY <2>1, <2>2, <2>4, <2>5, NoLogins DEF PositionsInv
  <2>7. UnreadIn(inbox[c]) = {} /\ Uncounted(c) = {} /\ Value(c) = pos[c]
    BY <2>1, <2>2, <2>6, UnreadOf DEF Uncounted, Value
  <2>8. internalPos[c].ok /\ pos[c].ok /\ internalPos[c].trades = pos[c].trades
    BY <2>1, <2>4, <2>7 DEF PositionsInv, AgreeInv, Ready
  <2>9. QED
    BY <2>2, <2>8 DEF Position
<1>2. QED
  BY <1>1, PositionsInit, PositionsStep, PTL DEF Spec

=============================================================================
