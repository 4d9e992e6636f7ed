----------------------------- MODULE OrderTable -----------------------------
(***************************************************************************)
(* The order tables of a trade engine (wingchun/base/TDUserStruct): open   *)
(* addressing by an id, with cells that are free again as soon as their    *)
(* order is finished.  A user's table is addressed by order id, the        *)
(* engine's by local id; tickers and positions in the file are left out.   *)
(***************************************************************************)
EXTENDS Integers, FiniteSets

RawOrder == [order_id |-> 0, local_id |-> 0, status |-> "raw"]
EmptyTable(limit) == [i \in 0 .. limit - 1 |-> RawOrder]

(* order_is_existing *)
Existing(order) == order.status = "inserted"

NoCell == -1
Probe(table, id, k) == (id + k) % Cardinality(DOMAIN table)

(* The first of the cells from the home of id on, round the table. *)
FirstFrom(table, id, cells) ==
  LET hits == {k \in DOMAIN table : Probe(table, id, k) \in cells}
  IN  IF hits = {} THEN NoCell
      ELSE Probe(table, id, CHOOSE k \in hits : \A h \in hits : k <= h)

(* Mutant: the home cell is taken for the order. *)
LocateReadableHome(table, key, id) == Probe(table, id, 0)

(* key is "order_id" in a user's table, "local_id" in the engine's. *)
LocateReadable(table, key, id) == FirstFrom(table, id, {i \in DOMAIN table : table[i][key] = id})

(* Mutant: the home cell is taken whatever it holds. *)
LocateHome(table, id) == Probe(table, id, 0)

LocateWritable(table, id) == FirstFrom(table, id, {i \in DOMAIN table : ~Existing(table[i])})

(* A full table drops the order. *)
RecordOrder(table, key, order, local) ==
  LET cell == LocateWritable(table, IF key = "order_id" THEN order ELSE local)
  IN  IF cell = NoCell THEN table
      ELSE [table EXCEPT ![cell] = [order_id |-> order, local_id |-> local, status |-> "inserted"]]

SetOrderStatus(table, key, id, status) ==
  LET cell == LocateReadable(table, key, id)
  IN  IF cell = NoCell THEN table ELSE [table EXCEPT ![cell].status = status]

(* TDEngineInfoHelper::get_order_id *)
OrderId(table, local) ==
  LET cell == LocateReadable(table, "local_id", local)
  IN  IF cell = NoCell THEN -1 ELSE table[cell].order_id

(* TDUserInfoHelper::get_order, -1 for false *)
LocalId(table, order) ==
  LET cell == LocateReadable(table, "order_id", order)
  IN  IF cell = NoCell THEN -1 ELSE table[cell].local_id

ExistingOrders(table) == {table[i].order_id : i \in {j \in DOMAIN table : Existing(table[j])}}
=============================================================================
