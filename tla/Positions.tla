------------------------------ MODULE Positions ------------------------------
(***************************************************************************)
(* PosHandler: the position of one ticker as the trade engine and a        *)
(* strategy keep it, and the fees it has cost (FeeHandler), beside a       *)
(* ledger of what was really opened and closed.  Tickers only share the    *)
(* poisoned flag.  Prices, balances and contract multipliers are left out: *)
(* the fee of a fill is its volume times a multiplier.                     *)
(***************************************************************************)
EXTENDS Integers

CONSTANTS
  FeeSetups,   \* fee multipliers a handler may be set up with: functions on 0 .. 2
  MaxVolume,   \* bound: volume of a fill, or of a row of a position
  MaxOps       \* bound: fills and rows

ASSUME PositionsAssumption ==
  /\ FeeSetups \subseteq [0 .. 2 -> Nat]
  /\ MaxVolume \in Nat /\ MaxOps \in Nat

Dirs == {"Net", "Long", "Short"}
Sides == {"Buy", "Sell", "Other"}
Volumes == 1 .. MaxVolume
Lesser(a, b) == IF a < b THEN a ELSE b

VARIABLES
  is_stock_flag,
  total, yestd,    \* direction -> TOTAL_INDEX and YESTD_INDEX (= AVAIL_INDEX) of its positions
  costs,           \* direction -> fees of its fills
  is_poisoned,
  multiplier,      \* FeeDetail::multiplier
  setup,           \* ledger: the multipliers agreed with the exchange
  old, new,        \* ledger: direction -> lots opened before the last day switch, and since
  paid,            \* ledger: direction -> fees
  legal,           \* ledger: has every fill closed lots that were there?
  split,           \* directions in which one fill closed old and new lots since the last day switch
  everSplit,       \* has a fill ever done so?
  ops

code   == <<total, yestd, costs, is_poisoned>>
ledger == <<old, new, paid, legal, split, everSplit>>
vars   == <<is_stock_flag, multiplier, setup, ops, code, ledger>>

Nothing == [d \in Dirs |-> 0]

Init ==
  /\ is_stock_flag \in BOOLEAN
  /\ setup \in FeeSetups /\ multiplier = setup
  /\ total = Nothing /\ yestd = Nothing /\ costs = Nothing
  /\ is_poisoned = FALSE
  /\ old = Nothing /\ new = Nothing /\ paid = Nothing
  /\ legal = TRUE /\ split = {} /\ everSplit = FALSE
  /\ ops = 0

-----------------------------------------------------------------------------
(* FeeHandler: what is written of the multipliers, and what is read back.  *)

(* to_json: a last multiplier like the one before it is dropped. *)
Written == IF multiplier[2] # multiplier[1] THEN 2 ELSE IF multiplier[1] # multiplier[0] THEN 1 ELSE 0

(* Mutant: a list that ends early is filled up with its first multiplier. *)
ReadBackFirst == [i \in 0 .. 2 |-> IF i <= Written THEN multiplier[i] ELSE multiplier[0]]

(* from_json: a list that ends early is filled up with its last multiplier. *)
ReadBack == [i \in 0 .. 2 |-> multiplier[Lesser(i, Written)]]

OpenFee == 0
TodayFee == 1
YestdFee == 2
BuyFee == 0
SellFee == 1

-----------------------------------------------------------------------------
(* The ledger.                                                             *)

(* A fill in direction d leaves o old and n new lots and costs fee, if the lots are there. *)
Book(d, o, n, fee) ==
  IF o >= 0 /\ n >= 0
  THEN /\ old' = [old EXCEPT ![d] = o] /\ new' = [new EXCEPT ![d] = n]
       /\ paid' = [paid EXCEPT ![d] = @ + fee]
       /\ UNCHANGED legal
  ELSE legal' = FALSE /\ UNCHANGED <<old, new, paid>>

Unsplit == UNCHANGED <<split, everSplit>>
BookNothing == legal' = FALSE /\ UNCHANGED <<old, new, paid>> /\ Unsplit

(* First open first close: old lots before new ones. *)
FromOld(d, v) == Lesser(old[d], v)

Splits(d, v) == 0 < FromOld(d, v) /\ FromOld(d, v) < v

-----------------------------------------------------------------------------
(* PosHandler::update.                                                     *)

Fill == ops < MaxOps /\ ops' = ops + 1 /\ UNCHANGED <<is_stock_flag, multiplier, setup>>

Charge(d, fee) == costs' = [costs EXCEPT ![d] = @ + fee]
SetTotal(d, v) == total' = [total EXCEPT ![d] = v]
SetYestd(d, v) == yestd' = [yestd EXCEPT ![d] = v]
Poison(bad) == is_poisoned' = (is_poisoned \/ bad)

StockBuy(v) ==
  /\ Fill /\ is_stock_flag
  /\ SetTotal("Net", total["Net"] + v)
  /\ Charge("Net", v * multiplier[BuyFee])
  /\ Book("Net", old["Net"], new["Net"] + v, v * setup[BuyFee])
  /\ Unsplit /\ UNCHANGED <<yestd, is_poisoned>>

StockSell(v) ==
  /\ Fill /\ is_stock_flag
  /\ SetTotal("Net", total["Net"] - v) /\ SetYestd("Net", yestd["Net"] - v)
  /\ Poison(yestd["Net"] - v < 0)
  /\ Charge("Net", v * multiplier[SellFee])
  /\ Book("Net", old["Net"] - v, new["Net"], v * setup[SellFee])
  /\ Unsplit

StockOther(v) ==
  /\ Fill /\ is_stock_flag
  /\ Poison(TRUE)
  /\ Charge("Net", v * multiplier[SellFee])
  /\ BookNothing /\ UNCHANGED <<total, yestd>>

OpenDir(side) == IF side = "Buy" THEN "Long" ELSE "Short"
CloseDir(side) == IF side = "Buy" THEN "Short" ELSE "Long"

Open(side, v) ==
  LET d == OpenDir(side) IN
  /\ Fill /\ ~is_stock_flag
  /\ SetTotal(d, total[d] + v)
  /\ Charge(d, v * multiplier[OpenFee])
  /\ Book(d, old[d], new[d] + v, v * setup[OpenFee])
  /\ Unsplit /\ UNCHANGED <<yestd, is_poisoned>>

(* Mutant: the total is not compared with the position of yesterday. *)
PoisonedBelowZero(d, v, yd) == total[d] - v < 0

(* Is what a close of volume v leaves, with yd of yesterday, impossible? *)
Poisoned(d, v, yd) == total[d] - v < yd \/ total[d] - v < 0

(* Close, ForceClose, ForceOff, LocalForceClose: is it taken from the position of yesterday? *)
YestdClose(d, v) == yestd[d] - v >= 0

Close(side, v) ==
  LET d  == CloseDir(side)
      yd == IF YestdClose(d, v) THEN yestd[d] - v ELSE yestd[d]
      o  == FromOld(d, v)
  IN
  /\ Fill /\ ~is_stock_flag
  /\ SetYestd(d, yd) /\ SetTotal(d, total[d] - v)
  /\ Poison(Poisoned(d, v, yd))
  /\ Charge(d, v * multiplier[IF YestdClose(d, v) THEN YestdFee ELSE TodayFee])
  /\ Book(d, old[d] - o, new[d] - (v - o), o * setup[YestdFee] + (v - o) * setup[TodayFee])
  /\ IF Splits(d, v) THEN split' = split \cup {d} /\ everSplit' = TRUE ELSE Unsplit

CloseToday(side, v) ==
  LET d == CloseDir(side) IN
  /\ Fill /\ ~is_stock_flag
  /\ SetTotal(d, total[d] - v)
  /\ Poison(Poisoned(d, v, yestd[d]))
  /\ Charge(d, v * multiplier[TodayFee])
  /\ Book(d, old[d], new[d] - v, v * setup[TodayFee])
  /\ Unsplit /\ UNCHANGED yestd

CloseYesterday(side, v) ==
  LET d == CloseDir(side) IN
  /\ Fill /\ ~is_stock_flag
  /\ SetTotal(d, total[d] - v) /\ SetYestd(d, yestd[d] - v)
  /\ Poison(yestd[d] - v < 0)
  /\ Charge(d, v * multiplier[YestdFee])
  /\ Book(d, old[d] - v, new[d], v * setup[YestdFee])
  /\ Unsplit

(* An offset that is none of these costs nothing. *)
OtherOffset ==
  /\ Fill /\ ~is_stock_flag
  /\ Poison(TRUE)
  /\ BookNothing /\ UNCHANGED <<total, yestd, costs>>

-----------------------------------------------------------------------------
(* add_pos: a row of the position that the exchange answers, t lots of which y are old. *)
AddPos(d, t, y) ==
  /\ ops < MaxOps /\ ops' = ops + 1
  /\ SetTotal(d, total[d] + t) /\ SetYestd(d, yestd[d] + y)
  /\ Book(d, old[d] + y, new[d] + t - y, 0)
  /\ Unsplit /\ UNCHANGED <<is_stock_flag, multiplier, setup, costs, is_poisoned>>

(* Mutant: the day switch adds the position of today to that of yesterday. *)
SwitchedAdding(d) == yestd[d] + total[d]

Switched(d) == total[d]

switch_day ==
  /\ yestd' = [d \in Dirs |-> Switched(d)]
  /\ old' = [d \in Dirs |-> old[d] + new[d]] /\ new' = Nothing
  /\ split' = {}
  /\ UNCHANGED <<is_stock_flag, multiplier, setup, ops, total, costs, is_poisoned, paid, legal, everSplit>>

(* to_json and, in another process or after a restart, init_js. *)
Reload ==
  /\ multiplier' = ReadBack
  /\ UNCHANGED <<is_stock_flag, setup, ops, code, ledger>>

Next ==
  \/ \E v \in Volumes : StockBuy(v) \/ StockSell(v) \/ StockOther(v)
  \/ \E side \in Sides, v \in Volumes :
        Open(side, v) \/ Close(side, v) \/ CloseToday(side, v) \/ CloseYesterday(side, v)
  \/ OtherOffset
  \/ \E d \in Dirs, t \in Volumes : \E y \in 0 .. t : AddPos(d, t, y)
  \/ switch_day
  \/ Reload

Spec == Init /\ [][Next]_vars

-----------------------------------------------------------------------------
(* Properties.                                                             *)

Flags ==
  /\ is_stock_flag \in BOOLEAN /\ is_poisoned \in BOOLEAN
  /\ legal \in BOOLEAN /\ everSplit \in BOOLEAN

Numbers ==
  /\ multiplier \in [0 .. 2 -> Nat] /\ setup \in [0 .. 2 -> Nat]
  /\ total \in [Dirs -> Int] /\ yestd \in [Dirs -> Int] /\ costs \in [Dirs -> Int]
  /\ old \in [Dirs -> Nat] /\ new \in [Dirs -> Nat] /\ paid \in [Dirs -> Nat]
  /\ split \subseteq Dirs
  /\ ops \in 0 .. MaxOps

(* Every variable has its type; the ledger never owes lots. *)
TypeOK == Flags /\ Numbers

(***************************************************************************)
(* A handler that is not poisoned holds a possible position, whatever      *)
(* fills it was given: no more of yesterday than in all, nothing negative. *)
(***************************************************************************)
UnpoisonedSane == ~is_poisoned => \A d \in Dirs : 0 <= yestd[d] /\ yestd[d] <= total[d]

(***************************************************************************)
(* As long as every fill closed lots that were there, the handler agrees   *)
(* with the ledger: on the totals always, on the position of yesterday     *)
(* wherever no fill since the last day switch closed old and new lots at   *)
(* once; and it is poisoned only if some fill did.  Such a fill the code   *)
(* takes wholly from today, for all its "first open first close"           *)
(* (PosHandler.hpp): the exchange takes the lots of yesterday first.       *)
(***************************************************************************)
LotsAgree ==
  legal => /\ \A d \in Dirs : /\ total[d] = old[d] + new[d]
                              /\ d \notin split => yestd[d] = old[d]
           /\ is_poisoned => everSplit

(* Nor are the fees other than agreed, unless a fill closed old and new lots at once. *)
FeesAgree == legal /\ ~everSplit => costs = paid
=============================================================================
