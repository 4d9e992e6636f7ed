-------------------------- MODULE PositionsProofs --------------------------
(***************************************************************************)
(* Theorems about Positions, for fills and rows of any volume, any number  *)
(* of them, and any fees.                                                  *)
(***************************************************************************)
EXTENDS Positions, TLAPS

USE DEF Dirs, Volumes

(* What a handler reads back of its own fee setup is what it wrote. *)
LEMMA ReadBackIsMultiplier ==
  ASSUME multiplier \in [0 .. 2 -> Nat]
  PROVE  ReadBack = multiplier
<1>1. ASSUME NEW i \in 0 .. 2 PROVE multiplier[Lesser(i, Written)] = multiplier[i]
  BY <1>1 DEF Lesser, Written
<1> QED BY <1>1 DEF ReadBack

(***************************************************************************)
(* The inductive invariant.  The ledger and the handler can only be kept   *)
(* together while the fees are the agreed ones and the directions out of   *)
(* step are known.                                                         *)
(***************************************************************************)
FeesAsAgreed == multiplier = setup
SplitsKnown == split # {} => everSplit
IInv == TypeOK /\ FeesAsAgreed /\ SplitsKnown /\ UnpoisonedSane /\ LotsAgree /\ FeesAgree

LEMMA InitIInv == Init => IInv
<1> SUFFICES ASSUME Init PROVE IInv
  OBVIOUS
<1>1. Flags BY DEF Init, Flags
<1>2. Numbers BY PositionsAssumption DEF Init, Nothing, Numbers
<1>3. FeesAsAgreed /\ SplitsKnown /\ UnpoisonedSane BY DEF Init, Nothing, FeesAsAgreed, SplitsKnown, UnpoisonedSane
<1>4. LotsAgree /\ FeesAgree BY DEF Init, Nothing, LotsAgree, FeesAgree
<1> QED BY <1>1, <1>2, <1>3, <1>4 DEF IInv, TypeOK

(* Fees are naturals, and the same for the handler and the ledger. *)
FeeKinds == {BuyFee, SellFee, OpenFee, TodayFee, YestdFee}

LEMMA Product ==
  ASSUME Numbers, FeesAsAgreed, NEW v \in Nat, NEW i \in FeeKinds
  PROVE  v * multiplier[i] \in Nat /\ v * setup[i] = v * multiplier[i]
<1>1. \A a, b \in Nat : a * b \in Nat
  OBVIOUS
<1>2. multiplier[i] \in Nat
  BY DEF Numbers, FeeKinds, BuyFee, SellFee, OpenFee, TodayFee, YestdFee
<1> QED BY <1>1, <1>2 DEF FeesAsAgreed

(***************************************************************************)
(* What a fill in direction d does to the ledger and to the handler's      *)
(* fees, when both charge the same.                                        *)
(***************************************************************************)
LEMMA BookNumbers ==
  ASSUME TypeOK, NEW d \in Dirs, NEW o \in Int, NEW n \in Int, NEW fee \in Nat, Book(d, o, n, fee)
  PROVE  /\ legal' \in BOOLEAN
         /\ old' \in [Dirs -> Nat] /\ new' \in [Dirs -> Nat] /\ paid' \in [Dirs -> Nat]
<1>1. legal' \in BOOLEAN BY Zenon DEF Book, TypeOK, Flags
<1>2. old' \in [Dirs -> Nat] /\ new' \in [Dirs -> Nat] /\ paid' \in [Dirs -> Nat]
  BY DEF Book, TypeOK, Numbers
<1> QED BY <1>1, <1>2

LEMMA BookFees ==
  ASSUME TypeOK, FeesAgree, everSplit => everSplit',
         NEW d \in Dirs, NEW o, NEW n, NEW charged \in Nat, NEW fee \in Nat,
         legal /\ o >= 0 /\ n >= 0 => charged = fee \/ everSplit',
         Charge(d, charged), Book(d, o, n, fee)
  PROVE  costs' \in [Dirs -> Int] /\ FeesAgree'
BY DEF Book, Charge, TypeOK, Numbers, FeesAgree

LEMMA BookedOnlyIfThere ==
  ASSUME NEW d, NEW o, NEW n, NEW fee, Book(d, o, n, fee), legal'
  PROVE  /\ legal /\ o >= 0 /\ n >= 0
         /\ old' = [old EXCEPT ![d] = o] /\ new' = [new EXCEPT ![d] = n]
BY DEF Book

USE DEF Fill, SetTotal, SetYestd, Unsplit

(***************************************************************************)
(* The argument all fills share.  A fill in direction d leaves t lots in   *)
(* all and y of yesterday, the ledger o old and n new ones.  It is         *)
(* enough that it poisons the handler if t and y are impossible, and that  *)
(* t, y and the fee are the ledger's, or the fill is recorded as one that  *)
(* closed old and new lots.                                                *)
(***************************************************************************)
LEMMA FillStep ==
  ASSUME IInv, Fill, NEW d \in Dirs, NEW t \in Int, NEW y \in Int, NEW o \in Int, NEW n \in Int,
         NEW charged \in Nat, NEW fee \in Nat, NEW bad \in BOOLEAN,
         SetTotal(d, t), SetYestd(d, y), Poison(bad), Charge(d, charged), Book(d, o, n, fee),
         Unsplit \/ (split' = split \cup {d} /\ everSplit' = TRUE),
         ~bad /\ ~is_poisoned => 0 <= y /\ y <= t,
         legal /\ o >= 0 /\ n >= 0
           => t = o + n /\ (d \notin split' => y = o) /\ (bad => everSplit')
              /\ (charged = fee \/ everSplit')
  PROVE  IInv'
<1> USE DEF IInv
<1>1. legal' \in BOOLEAN /\ old' \in [Dirs -> Nat] /\ new' \in [Dirs -> Nat] /\ paid' \in [Dirs -> Nat]
  BY BookNumbers
<1>2. costs' \in [Dirs -> Int] /\ FeesAgree'
  <2>1. everSplit => everSplit' OBVIOUS
  <2>2. legal /\ o >= 0 /\ n >= 0 => charged = fee \/ everSplit' BY Zenon
  <2> QED BY <2>1, <2>2, BookFees
<1>3. TypeOK'
  <2>1. is_poisoned' \in BOOLEAN BY Zenon DEF Poison
  <2>2. everSplit' \in BOOLEAN BY Zenon DEF TypeOK, Flags
  <2>3. Flags' BY <1>1, <2>1, <2>2, Zenon DEF Flags, TypeOK
  <2>4. ops' \in 0 .. MaxOps BY PositionsAssumption DEF TypeOK, Numbers
  <2>5. total' \in [Dirs -> Int] /\ yestd' \in [Dirs -> Int] BY DEF TypeOK, Numbers
  <2>6. split' \subseteq Dirs BY DEF TypeOK, Numbers
  <2> QED BY <1>1, <1>2, <2>3, <2>4, <2>5, <2>6 DEF TypeOK, Numbers
<1>4. UnpoisonedSane' BY DEF Poison, TypeOK, Numbers, UnpoisonedSane
<1>5. LotsAgree'
  <2> SUFFICES ASSUME legal' PROVE LotsAgree'
    BY DEF LotsAgree
  <2>1. /\ legal /\ o >= 0 /\ n >= 0
        /\ old' = [old EXCEPT ![d] = o] /\ new' = [new EXCEPT ![d] = n]
    BY BookedOnlyIfThere
  <2>a. t = o + n /\ (d \notin split' => y = o) /\ (bad => everSplit')
    BY <2>1, Zenon
  <2>2. ASSUME NEW e \in Dirs
        PROVE  total'[e] = old'[e] + new'[e] /\ (e \notin split' => yestd'[e] = old'[e])
    <3>1. CASE e = d BY <2>1, <2>a, <3>1 DEF TypeOK, Numbers
    <3>2. CASE e # d BY <2>1, <2>2, <3>2 DEF TypeOK, Numbers, LotsAgree
    <3> QED BY <3>1, <3>2
  <2>3. is_poisoned' => everSplit'
    <3>1. is_poisoned => everSplit' BY <2>1 DEF LotsAgree
    <3> QED BY <2>a, <3>1, Zenon DEF Poison
  <2> QED BY <2>2, <2>3 DEF LotsAgree
<1>6. FeesAsAgreed' /\ SplitsKnown' BY DEF FeesAsAgreed, SplitsKnown
<1> QED BY <1>2, <1>3, <1>4, <1>5, <1>6

-----------------------------------------------------------------------------
(* The fills, one by one.                                                  *)

(* What every fill starts from. *)
LEMMA Before ==
  ASSUME IInv, NEW d \in Dirs, NEW v \in Volumes
  PROVE  /\ v \in Nat /\ v > 0
         /\ total[d] \in Int /\ yestd[d] \in Int /\ old[d] \in Nat /\ new[d] \in Nat
         /\ ~is_poisoned => 0 <= yestd[d] /\ yestd[d] <= total[d]
         /\ legal => total[d] = old[d] + new[d] /\ (d \notin split => yestd[d] = old[d])
         /\ split # {} => everSplit
         /\ yestd = [yestd EXCEPT ![d] = yestd[d]]
         /\ \A i \in FeeKinds : v * multiplier[i] \in Nat /\ v * setup[i] = v * multiplier[i]
<1>1. v \in Nat /\ v > 0
  BY PositionsAssumption
<1>2. Numbers /\ FeesAsAgreed
  BY DEF IInv, TypeOK
<1>3. /\ total[d] \in Int /\ yestd[d] \in Int /\ old[d] \in Nat /\ new[d] \in Nat
      /\ yestd = [yestd EXCEPT ![d] = yestd[d]]
  BY <1>2 DEF Numbers
<1> QED BY <1>1, <1>2, <1>3, Product DEF IInv, UnpoisonedSane, LotsAgree, SplitsKnown

LEMMA PoisonUnchanged ==
  ASSUME IInv, UNCHANGED is_poisoned
  PROVE  Poison(FALSE)
BY Zenon DEF IInv, TypeOK, Flags, Poison

LEMMA StockBuyStep ==
  ASSUME IInv, NEW v \in Volumes, StockBuy(v)
  PROVE  IInv'
<1> DEFINE fee == v * multiplier[BuyFee]
<1>1. fee \in Nat /\ v * setup[BuyFee] = fee
  BY Before, "Net" \in Dirs DEF FeeKinds
<1>2. Fill /\ SetTotal("Net", total["Net"] + v) /\ Charge("Net", fee) /\ Unsplit
  BY DEF StockBuy
<1>3. Book("Net", old["Net"], new["Net"] + v, fee)
  BY <1>1 DEF StockBuy
<1>4. SetYestd("Net", yestd["Net"]) /\ Poison(FALSE)
  BY Before, PoisonUnchanged DEF StockBuy
<1> HIDE DEF fee
<1>5. total["Net"] + v \in Int /\ yestd["Net"] \in Int /\ old["Net"] \in Int /\ new["Net"] + v \in Int
  BY Before
<1>6. ~is_poisoned => 0 <= yestd["Net"] /\ yestd["Net"] <= total["Net"] + v
  BY Before
<1>7. legal => total["Net"] + v = old["Net"] + (new["Net"] + v) /\ ("Net" \notin split' => yestd["Net"] = old["Net"])
  BY <1>2, Before
<1> QED BY <1>1, <1>2, <1>3, <1>4, <1>5, <1>6, <1>7, FillStep

LEMMA StockSellStep ==
  ASSUME IInv, NEW v \in Volumes, StockSell(v)
  PROVE  IInv'
<1> DEFINE fee == v * multiplier[SellFee]
<1> DEFINE bad == yestd["Net"] - v < 0
<1>1. fee \in Nat /\ v * setup[SellFee] = fee
  BY Before, "Net" \in Dirs DEF FeeKinds
<1>2. /\ Fill /\ SetTotal("Net", total["Net"] - v) /\ SetYestd("Net", yestd["Net"] - v)
      /\ Charge("Net", fee) /\ Unsplit /\ Poison(bad) /\ bad \in BOOLEAN
  BY DEF StockSell
<1>3. Book("Net", old["Net"] - v, new["Net"], fee)
  BY <1>1 DEF StockSell
<1> HIDE DEF fee
<1>4. total["Net"] - v \in Int /\ yestd["Net"] - v \in Int /\ old["Net"] - v \in Int /\ new["Net"] \in Int
  BY Before
<1>5. ~bad /\ ~is_poisoned => 0 <= yestd["Net"] - v /\ yestd["Net"] - v <= total["Net"] - v
  BY Before
<1>6. legal /\ old["Net"] - v >= 0 /\ new["Net"] >= 0
      => /\ total["Net"] - v = (old["Net"] - v) + new["Net"]
         /\ "Net" \notin split' => yestd["Net"] - v = old["Net"] - v
         /\ bad => everSplit'
  BY <1>2, Before
<1> HIDE DEF bad
<1> QED BY <1>1, <1>2, <1>3, <1>4, <1>5, <1>6, FillStep

LEMMA OpenStep ==
  ASSUME IInv, NEW side \in Sides, NEW v \in Volumes, Open(side, v)
  PROVE  IInv'
<1> DEFINE d == OpenDir(side)
<1> DEFINE fee == v * multiplier[OpenFee]
<1>1. d \in Dirs /\ fee \in Nat /\ v * setup[OpenFee] = fee
  BY Before, "Net" \in Dirs DEF FeeKinds, OpenDir
<1>2. Fill /\ SetTotal(d, total[d] + v) /\ Charge(d, fee) /\ Unsplit
  BY DEF Open
<1>3. Book(d, old[d], new[d] + v, fee)
  BY <1>1 DEF Open
<1>4. SetYestd(d, yestd[d]) /\ Poison(FALSE)
  BY <1>1, Before, PoisonUnchanged DEF Open
<1> HIDE DEF fee, d
<1>5. total[d] + v \in Int /\ yestd[d] \in Int /\ old[d] \in Int /\ new[d] + v \in Int
  BY <1>1, Before
<1>6. ~is_poisoned => 0 <= yestd[d] /\ yestd[d] <= total[d] + v
  BY <1>1, Before
<1>7. legal => total[d] + v = old[d] + (new[d] + v) /\ (d \notin split' => yestd[d] = old[d])
  BY <1>1, <1>2, Before
<1> QED BY <1>1, <1>2, <1>3, <1>4, <1>5, <1>6, <1>7, FillStep

LEMMA CloseTodayStep ==
  ASSUME IInv, NEW side \in Sides, NEW v \in Volumes, CloseToday(side, v)
  PROVE  IInv'
<1> DEFINE d == CloseDir(side)
<1> DEFINE fee == v * multiplier[TodayFee]
<1> DEFINE bad == Poisoned(d, v, yestd[d])
<1>1. d \in Dirs /\ fee \in Nat /\ v * setup[TodayFee] = fee
  BY Before, "Net" \in Dirs DEF FeeKinds, CloseDir
<1>2. /\ Fill /\ SetTotal(d, total[d] - v) /\ Charge(d, fee) /\ Unsplit
      /\ Poison(bad) /\ bad \in BOOLEAN
  BY DEF CloseToday, Poisoned
<1>3. Book(d, old[d], new[d] - v, fee)
  BY <1>1 DEF CloseToday
<1>4. SetYestd(d, yestd[d])
  BY <1>1, Before DEF CloseToday
<1> HIDE DEF fee, d
<1>5. total[d] - v \in Int /\ yestd[d] \in Int /\ old[d] \in Int /\ new[d] - v \in Int
  BY <1>1, Before
<1>6. ~bad /\ ~is_poisoned => 0 <= yestd[d] /\ yestd[d] <= total[d] - v
  BY <1>1, Before DEF Poisoned
<1>7. legal /\ old[d] >= 0 /\ new[d] - v >= 0
      => /\ total[d] - v = old[d] + (new[d] - v)
         /\ d \notin split' => yestd[d] = old[d]
         /\ bad => everSplit'
  BY <1>1, <1>2, Before DEF Poisoned
<1> HIDE DEF bad
<1> QED BY <1>1, <1>2, <1>3, <1>4, <1>5, <1>6, <1>7, FillStep

LEMMA CloseYesterdayStep ==
  ASSUME IInv, NEW side \in Sides, NEW v \in Volumes, CloseYesterday(side, v)
  PROVE  IInv'
<1> DEFINE d == CloseDir(side)
<1> DEFINE fee == v * multiplier[YestdFee]
<1> DEFINE bad == yestd[d] - v < 0
<1>1. d \in Dirs /\ fee \in Nat /\ v * setup[YestdFee] = fee
  BY Before, "Net" \in Dirs DEF FeeKinds, CloseDir
<1>2. /\ Fill /\ SetTotal(d, total[d] - v) /\ SetYestd(d, yestd[d] - v)
      /\ Charge(d, fee) /\ Unsplit /\ Poison(bad) /\ bad \in BOOLEAN
  BY DEF CloseYesterday
<1>3. Book(d, old[d] - v, new[d], fee)
  BY <1>1 DEF CloseYesterday
<1> HIDE DEF fee, d
<1>4. total[d] - v \in Int /\ yestd[d] - v \in Int /\ old[d] - v \in Int /\ new[d] \in Int
  BY <1>1, Before
<1>5. ~bad /\ ~is_poisoned => 0 <= yestd[d] - v /\ yestd[d] - v <= total[d] - v
  BY <1>1, Before
<1>6. legal /\ old[d] - v >= 0 /\ new[d] >= 0
      => /\ total[d] - v = (old[d] - v) + new[d]
         /\ d \notin split' => yestd[d] - v = old[d] - v
         /\ bad => everSplit'
  BY <1>1, <1>2, Before
<1> HIDE DEF bad
<1> QED BY <1>1, <1>2, <1>3, <1>4, <1>5, <1>6, FillStep

(***************************************************************************)
(* The one fill that can leave the ledger: what it does differently is     *)
(* recorded in split and everSplit.                                        *)
(***************************************************************************)
LEMMA CloseStep ==
  ASSUME IInv, NEW side \in Sides, NEW v \in Volumes, Close(side, v)
  PROVE  IInv'
<1> DEFINE d == CloseDir(side)
<1> DEFINE yd == IF YestdClose(d, v) THEN yestd[d] - v ELSE yestd[d]
<1> DEFINE o == FromOld(d, v)
<1> DEFINE charged == v * multiplier[IF YestdClose(d, v) THEN YestdFee ELSE TodayFee]
<1> DEFINE fee == o * setup[YestdFee] + (v - o) * setup[TodayFee]
<1> DEFINE bad == Poisoned(d, v, yd)
<1>1. /\ Fill /\ SetTotal(d, total[d] - v) /\ SetYestd(d, yd) /\ Charge(d, charged)
      /\ Book(d, old[d] - o, new[d] - (v - o), fee)
      /\ Poison(bad) /\ bad \in BOOLEAN
      /\ IF Splits(d, v) THEN split' = split \cup {d} /\ everSplit' = TRUE ELSE Unsplit
  BY DEF Close, Poisoned
<1>2. d \in Dirs BY DEF CloseDir
<1>3. /\ Unsplit \/ (split' = split \cup {d} /\ everSplit' = TRUE)
      /\ d \notin split' => d \notin split /\ ~Splits(d, v)
      /\ Splits(d, v) => everSplit'
      /\ everSplit => everSplit'
  BY <1>1
<1> HIDE DEF d
<1>4. /\ v \in Nat /\ v > 0
      /\ total[d] \in Int /\ yestd[d] \in Int /\ old[d] \in Nat /\ new[d] \in Nat
      /\ ~is_poisoned => 0 <= yestd[d] /\ yestd[d] <= total[d]
      /\ legal => total[d] = old[d] + new[d] /\ (d \notin split => yestd[d] = old[d])
      /\ d \in split => everSplit
  BY <1>2, Before
<1>5. /\ o \in Nat /\ o <= v /\ o <= old[d]
      /\ total[d] - v \in Int /\ yd \in Int /\ old[d] - o \in Int /\ new[d] - (v - o) \in Int
  BY <1>4 DEF FromOld, Lesser
<1>6. ~bad /\ ~is_poisoned => 0 <= yd /\ yd <= total[d] - v
  BY <1>4 DEF Poisoned, YestdClose
<1>7. charged \in Nat /\ fee \in Nat
  <2>1. /\ multiplier[YestdFee] \in Nat /\ multiplier[TodayFee] \in Nat
        /\ setup[YestdFee] \in Nat /\ setup[TodayFee] \in Nat
    BY DEF IInv, TypeOK, Numbers, YestdFee, TodayFee
  <2>2. \A a, b \in Nat : a * b \in Nat
    OBVIOUS
  <2>3. o * setup[YestdFee] \in Nat /\ (v - o) * setup[TodayFee] \in Nat
    BY <1>4, <1>5, <2>1, <2>2
  <2>4. charged \in Nat BY <1>4, <2>1, <2>2
  <2>5. fee \in Nat BY <2>3
  <2> QED BY <2>4, <2>5
(* A fill that does not split takes all its lots from one side, as the code does. *)
<1>8. ASSUME legal, d \notin split, ~Splits(d, v)
      PROVE  yd = old[d] - o /\ (new[d] - (v - o) >= 0 => ~bad) /\ charged = fee
  <2>1. yestd[d] = old[d] /\ total[d] = old[d] + new[d] BY <1>4, <1>8
  <2>2. setup[YestdFee] \in Nat /\ setup[TodayFee] \in Nat /\ setup = multiplier
    BY DEF IInv, TypeOK, Numbers, FeesAsAgreed, YestdFee, TodayFee
  <2>3. CASE o = v
    <3>1. YestdClose(d, v) BY <1>4, <2>1, <2>3 DEF FromOld, Lesser, YestdClose
    <3>2. charged = fee BY <1>4, <2>2, <2>3, <3>1
    <3> QED BY <1>4, <2>1, <2>3, <3>1, <3>2 DEF Poisoned, YestdClose
  <2>4. CASE o = 0 /\ o # v
    <3>1. ~YestdClose(d, v) BY <1>4, <2>1, <2>4 DEF FromOld, Lesser, YestdClose
    <3>2. charged = fee BY <1>4, <2>2, <2>4, <3>1
    <3>3. old[d] = 0 BY <1>4, <2>4 DEF FromOld, Lesser
    <3> QED BY <1>4, <2>1, <2>4, <3>1, <3>2, <3>3 DEF Poisoned
  <2> QED BY <1>4, <1>5, <1>8, <2>3, <2>4 DEF Splits
<1> HIDE DEF yd, o, charged, fee
<1>9. legal /\ old[d] - o >= 0 /\ new[d] - (v - o) >= 0
      => /\ total[d] - v = (old[d] - o) + (new[d] - (v - o))
         /\ d \notin split' => yd = old[d] - o
         /\ bad => everSplit'
         /\ charged = fee \/ everSplit'
  BY <1>3, <1>4, <1>5, <1>8
<1> HIDE DEF bad
<1> QED BY <1>1, <1>2, <1>3, <1>5, <1>6, <1>7, <1>9, FillStep

(* A fill of an unknown kind poisons the handler and is none the ledger can agree with. *)
LEMMA UnknownStep ==
  ASSUME IInv, Fill, Poison(TRUE), BookNothing, UNCHANGED <<total, yestd>>, costs' \in [Dirs -> Int]
  PROVE  IInv'
<1>1. is_poisoned' /\ ~legal' /\ is_poisoned' \in BOOLEAN /\ legal' \in BOOLEAN
  BY Zenon DEF Poison, BookNothing
<1>2. Flags' BY <1>1, Zenon DEF IInv, TypeOK, Flags, BookNothing
<1>3. Numbers' BY PositionsAssumption DEF IInv, TypeOK, Numbers, BookNothing
<1>4. FeesAsAgreed' /\ SplitsKnown' BY DEF IInv, FeesAsAgreed, SplitsKnown, BookNothing
<1>5. UnpoisonedSane' /\ LotsAgree' /\ FeesAgree' BY <1>1 DEF UnpoisonedSane, LotsAgree, FeesAgree
<1> QED BY <1>2, <1>3, <1>4, <1>5 DEF IInv, TypeOK

LEMMA StockOtherStep ==
  ASSUME IInv, NEW v \in Volumes, StockOther(v)
  PROVE  IInv'
<1>1. "Net" \in Dirs /\ v * multiplier[SellFee] \in Nat
  BY Before DEF FeeKinds
<1>2. costs' \in [Dirs -> Int]
  BY <1>1 DEF StockOther, Charge, IInv, TypeOK, Numbers
<1> QED BY <1>2, UnknownStep DEF StockOther

LEMMA OtherOffsetStep ==
  ASSUME IInv, OtherOffset
  PROVE  IInv'
<1>1. costs' \in [Dirs -> Int]
  BY DEF OtherOffset, IInv, TypeOK, Numbers
<1> QED BY <1>1, UnknownStep DEF OtherOffset

LEMMA AddPosStep ==
  ASSUME IInv, NEW d \in Dirs, NEW t \in Volumes, NEW y \in 0 .. t, AddPos(d, t, y)
  PROVE  IInv'
<1>1. t \in Nat /\ y \in Nat /\ y <= t BY PositionsAssumption
<1>2. /\ Fill /\ Unsplit /\ SetTotal(d, total[d] + t) /\ SetYestd(d, yestd[d] + y)
      /\ Book(d, old[d] + y, new[d] + t - y, 0)
  BY DEF AddPos
<1>3. Charge(d, 0) BY DEF AddPos, Charge, IInv, TypeOK, Numbers
<1>4. Poison(FALSE) BY PoisonUnchanged DEF AddPos
<1>5. total[d] + t \in Int /\ yestd[d] + y \in Int /\ old[d] + y \in Int /\ new[d] + t - y \in Int
  BY <1>1, Before
<1>6. ~is_poisoned => 0 <= yestd[d] + y /\ yestd[d] + y <= total[d] + t
  BY <1>1, Before
<1>7. legal => total[d] + t = (old[d] + y) + (new[d] + t - y) /\ (d \notin split' => yestd[d] + y = old[d] + y)
  BY <1>1, <1>2, Before
<1> QED BY <1>2, <1>3, <1>4, <1>5, <1>6, <1>7, FillStep

(* The day switch brings the position of yesterday back to the ledger. *)
LEMMA switch_dayStep ==
  ASSUME IInv, switch_day
  PROVE  IInv'
<1> USE DEF IInv, TypeOK, switch_day
<1>1. Flags' BY Zenon DEF Flags
<1>2. Numbers' BY DEF Numbers, Switched, Nothing
<1>3. FeesAsAgreed' /\ SplitsKnown' BY DEF FeesAsAgreed, SplitsKnown
<1>4. UnpoisonedSane' BY DEF Numbers, UnpoisonedSane, Switched
<1>5. LotsAgree' BY DEF Numbers, LotsAgree, Switched, Nothing
<1>6. FeesAgree' BY DEF FeesAgree
<1> QED BY <1>1, <1>2, <1>3, <1>4, <1>5, <1>6

LEMMA StutterStep ==
  ASSUME IInv, UNCHANGED vars
  PROVE  IInv'
BY DEF IInv, TypeOK, Flags, Numbers, FeesAsAgreed, SplitsKnown, UnpoisonedSane, LotsAgree, FeesAgree,
       vars, code, ledger

LEMMA ReloadStep ==
  ASSUME IInv, Reload
  PROVE  IInv'
<1>1. ReadBack = multiplier BY ReadBackIsMultiplier DEF IInv, TypeOK, Numbers
<1>2. UNCHANGED vars BY <1>1 DEF Reload, vars
<1> QED BY <1>2, StutterStep

LEMMA NextIInv == IInv /\ [Next]_vars => IInv'
<1> SUFFICES ASSUME IInv, [Next]_vars PROVE IInv'
  OBVIOUS
<1>1. ASSUME NEW v \in Volumes, StockBuy(v) \/ StockSell(v) \/ StockOther(v)
      PROVE  IInv'
  BY <1>1, StockBuyStep, StockSellStep, StockOtherStep
<1>2. ASSUME NEW side \in Sides, NEW v \in Volumes,
             Open(side, v) \/ Close(side, v) \/ CloseToday(side, v) \/ CloseYesterday(side, v)
      PROVE  IInv'
  BY <1>2, OpenStep, CloseStep, CloseTodayStep, CloseYesterdayStep
<1>3. CASE OtherOffset
  BY <1>3, OtherOffsetStep
<1>4. ASSUME NEW d \in Dirs, NEW t \in Volumes, NEW y \in 0 .. t, AddPos(d, t, y)
      PROVE  IInv'
  BY <1>4, AddPosStep
<1> QED BY <1>1, <1>2, <1>3, <1>4, switch_dayStep, ReloadStep, StutterStep DEF Next

-----------------------------------------------------------------------------
LEMMA SpecIInv == Spec => []IInv
BY InitIInv, NextIInv, PTL DEF Spec

(* Every variable has its type, and the ledger never owes lots. *)
THEOREM TypeCorrect == Spec => []TypeOK
BY SpecIInv, PTL DEF IInv

(* A handler that is not poisoned holds a possible position, whatever fills it was given. *)
THEOREM NotPoisonedMeansSane == Spec => []UnpoisonedSane
BY SpecIInv, PTL DEF IInv

(***************************************************************************)
(* A handler whose fills were legal agrees with the ledger, but for the    *)
(* split of a position into yesterday's and today's after a fill that      *)
(* closed lots of both, until the next day switch.                         *)
(***************************************************************************)
THEOREM HandlerAgreesWithLedger == Spec => []LotsAgree
BY SpecIInv, PTL DEF IInv

(* Its fees are the agreed ones, unless a fill ever closed old and new lots at once. *)
THEOREM FeesAgreeWithLedger == Spec => []FeesAgree
BY SpecIInv, PTL DEF IInv
=============================================================================
