---------------------------- MODULE JournalProofs ----------------------------
(***************************************************************************)
(* Theorems about Journal, for pages, frames and logs of any size and any  *)
(* number of readers.                                                      *)
(*                                                                         *)
(* The log is the history of the frames marked WRITTEN.  The argument is   *)
(* about places: a place (page p, cell c) is where the frames i of the log *)
(* end that are before it, At(p, c, k) for k of them.  The writer and the  *)
(* readers only ever stand at such places.                                 *)
(***************************************************************************)
EXTENDS Journal, FiniteSetTheorems, WellFoundedInduction, TLAPS

-----------------------------------------------------------------------------
(* Frames and places.                                                      *)

Count == Len(log)
PageOf(i) == log[i].page
PosOf(i) == log[i].pos
SizeOf(i) == body[PageOf(i)][PosOf(i)].length
EndOf(i) == PosOf(i) + SizeOf(i)

At(p, c, k) ==
  /\ k \in 0 .. Count
  /\ \A i \in 1 .. k : PageOf(i) < p \/ (PageOf(i) = p /\ EndOf(i) <= c)
  /\ \A i \in k + 1 .. Count : PageOf(i) > p \/ (PageOf(i) = p /\ PosOf(i) >= c)
  /\ c = 0 \/ (k >= 1 /\ PageOf(k) = p /\ EndOf(k) = c)

(* The place after the last frame of page p. *)
AtEnd(p, c, k) == At(p, c, k) /\ (k < Count => PageOf(k + 1) # p)

FramesOn(p) == {i \in 1 .. Count : PageOf(i) = p}

(***************************************************************************)
(* The inductive invariant.                                                *)
(***************************************************************************)

(* Each frame of the log is on its page as it was written, ... *)
FramesWritten ==
  \A i \in 1 .. Count :
    /\ PageOf(i) \in inited
    /\ status[PageOf(i)][PosOf(i)] = "WRITTEN"
    /\ body[PageOf(i)][PosOf(i)].nano = log[i].nano
    /\ SizeOf(i) \in Lengths /\ EndOf(i) < PageSize

(* ... the later ones behind the earlier ones ... *)
FramesOrdered ==
  \A j \in 1 .. Count : \A i \in 1 .. j - 1 :
    log[i].nano < log[j].nano /\ (PageOf(i) < PageOf(j) \/ (PageOf(i) = PageOf(j) /\ EndOf(i) <= PosOf(j)))

(* ... with nothing between those of one page. *)
FramesDense ==
  \A j \in 1 .. Count : PosOf(j) = 0 \/ (j > 1 /\ PageOf(j - 1) = PageOf(j) /\ EndOf(j - 1) = PosOf(j))

(* Nothing after the last frame of a page looks like one. *)
EndsClear ==
  \A p \in Pages, c \in Cells : \A k \in 0 .. Count : AtEnd(p, c, k) => status[p][c] # "WRITTEN"

(* The frames of a page are later than its start_nano, those of the pages before it are not. *)
StartsDivide ==
  /\ \A p \in Pages : start[p] <= clock /\ (p \notin inited => start[p] = 0)
  /\ \A i \in 1 .. Count : log[i].nano <= clock
  /\ \A p \in inited : \A i \in 1 .. Count :
       (PageOf(i) < p => log[i].nano <= start[p]) /\ (PageOf(i) >= p => log[i].nano > start[p])

(* The pages follow one another; only the last may not be initialised. *)
PagesFollow ==
  /\ \E m \in 0 .. MaxPage : files = 1 .. m
  /\ inited \subseteq files
  /\ \A p \in files : p + 1 \in files => p \in inited

(* PAGE_END is after the last frame of a page that has a next one, and its frames are counted. *)
PagesClosed ==
  \A p \in Pages, c \in Cells : status[p][c] = "PAGE_END" =>
    /\ p + 1 \in inited
    /\ \E k \in 0 .. Count : AtEnd(p, c, k)
    /\ frameNum[p] = Cardinality(FramesOn(p))

Leaving == wpage # 0 /\ wpc \in {"load", "finish", "close"}

(* A page that has a next one is closed, or its writer has yet to close it or has died first. *)
PagesLeft ==
  \A p \in files : p + 1 \in files =>
    p \in abandoned \/ (Leaving /\ wpage = p) \/ \E c \in Cells : status[p][c] = "PAGE_END"

(* The writer stands on the last page, ... *)
WriterAtPlace ==
  /\ wpc = "down" => wpage = 0
  /\ wpc \in {"load", "finish", "close", "open"} => wnew \in files /\ wnew + 1 \notin files
  /\ wpc \in {"finish", "close", "open"} => wnew \in inited
  /\ wpc \in {"finish", "close"} => wpage # 0
  /\ Leaving => /\ wpage = wnew - 1 /\ AtEnd(wpage, wpos, Count)
                /\ wnum <= wpos /\ wnum = Cardinality(FramesOn(wpage))
                /\ (wpc = "close" => frameNum[wpage] = wnum)
  /\ wpc \in {"locate", "ready", "data", "mark", "commit"} =>
       /\ wpage \in inited /\ wpage + 1 \notin files
       /\ \E k \in 0 .. Count : /\ At(wpage, wpos, k)
                                /\ wnum = Cardinality({i \in 1 .. k : PageOf(i) = wpage})
                                /\ (wpc # "locate" => k = Count)
       /\ wnum <= wpos

(* ... and what it has done to its frame so far. *)
WriterFrame ==
  /\ wlen # 0 => clock < MaxTime \/ wpc \in {"mark", "commit"}
  /\ wpc \in {"data", "mark", "commit"} => status[wpage][wpos] = "RAW" /\ wpos + Headroom < PageSize
  /\ wpc \in {"data", "mark", "commit"} => wlen \in Lengths
  /\ wpc = "data" => wfill \in 1 .. wlen
  /\ wpc \in {"mark", "commit"} =>
       /\ clock <= MaxTime /\ body[wpage][wpos] = [length |-> wlen, nano |-> clock]
       /\ (\A p \in Pages : start[p] < clock) /\ (\A i \in 1 .. Count : log[i].nano < clock)
  /\ wpc = "commit" => status[wpage][wpos + wlen] = "RAW"

(* A reader that seeks has the frames of its time before it; one that reads stands at a place. *)
Sought(r, k) == r \notin rlate => \A i \in 1 .. k : log[i].nano < rtime[r]

ReaderAtPlace(r) ==
  /\ rpc[r] \in {"load", "pass"} =>
       /\ rtime[r] <= clock + 1
       /\ \A q \in inited : q > rpage[r] => rtime[r] <= start[q] + 1
  /\ rpc[r] = "load" =>
       /\ rpage[r] = 1 \/ rpage[r] \in files
       /\ \A i \in 1 .. Count : PageOf(i) < rpage[r] => (r \in rlate \/ log[i].nano < rtime[r])
  /\ rpc[r] = "pass" =>
       rpage[r] \in inited /\ \E k \in 0 .. Count : At(rpage[r], rpos[r], k) /\ Sought(r, k)
  /\ rpc[r] \in {"read", "take"} =>
       rpage[r] \in inited /\ \E k \in 0 .. Count :
         At(rpage[r], rpos[r], k) /\ (rpc[r] = "take" => k < Count /\ PageOf(k + 1) = rpage[r])

Frames == PagesTyped /\ FramesWritten /\ FramesOrdered /\ FramesDense
Shared == Frames /\ EndsClear /\ StartsDivide /\ PagesFollow /\ PagesClosed
Writing == WriterTyped /\ WriterAtPlace /\ WriterFrame
Reading == ReadersTyped /\ \A r \in Readers : ReaderAtPlace(r)

IInv == Shared /\ PagesLeft /\ Writing /\ Reading

-----------------------------------------------------------------------------
(* Numbers.                                                                *)

LEMMA Smallest == ASSUME NEW S \in SUBSET Nat, S # {} PROVE \E m \in S : \A x \in S : m <= x
<1>1. PICK m \in S : \A x \in S : <<x, m>> \notin OpToRel(<, Nat)
  BY NatLessThanWellFounded, WFMin, Zenon
<1>2. \A x, y \in Nat : x < y => <<x, y>> \in OpToRel(<, Nat)
  BY SMT DEF OpToRel
<1>3. ASSUME NEW x \in S PROVE ~(x < m)
  BY <1>1, <1>2, <1>3, Zenon
<1>4. ASSUME NEW x \in S PROVE m <= x
  BY ONLY <1>3, <1>4, S \in SUBSET Nat, m \in S
<1> QED BY <1>4

LEMMA Largest ==
  ASSUME NEW S \in SUBSET Nat, NEW n \in Nat, S # {}, \A x \in S : x <= n
  PROVE  \E m \in S : \A x \in S : x <= m
<1> DEFINE T == {n - x : x \in S}
<1>1. T \in SUBSET Nat /\ T # {}
  <2>1. \A x \in S : n - x \in Nat
    OBVIOUS
  <2>2. T # {}
    BY Zenon
  <2> QED BY <2>1, <2>2, Zenon
<1> HIDE DEF T
<1>2. PICK m \in T : \A x \in T : m <= x
  BY <1>1, Smallest, Zenon
<1>3. PICK s \in S : m = n - s
  BY DEF T
<1>4. \A x \in S : n - s <= n - x
  BY <1>2, <1>3, Zenon DEF T
<1> QED BY <1>4

LEMMA CountUpTo == ASSUME NEW k \in Nat PROVE IsFiniteSet(1 .. k) /\ Cardinality(1 .. k) = k
  BY FS_Interval

-----------------------------------------------------------------------------
(* Places.                                                                 *)

LEMMA FrameTypes ==
  ASSUME PagesTyped
  PROVE  /\ Count \in Nat /\ DOMAIN log = 1 .. Count
         /\ \A i \in 1 .. Count : /\ PageOf(i) \in Pages /\ PosOf(i) \in Cells /\ log[i].nano \in 1 .. MaxTime
                                  /\ SizeOf(i) \in 0 .. Headroom /\ EndOf(i) \in Nat
<1>1. Count \in Nat /\ DOMAIN log = 1 .. Count
  BY DEF PagesTyped, Count
<1>2. ASSUME NEW i \in 1 .. Count PROVE log[i] \in Place
  BY <1>1 DEF PagesTyped, Count
<1>3. ASSUME NEW i \in 1 .. Count
      PROVE  PageOf(i) \in Pages /\ PosOf(i) \in Cells /\ log[i].nano \in 1 .. MaxTime
  BY <1>2 DEF Place, PageOf, PosOf
<1>4. ASSUME NEW i \in 1 .. Count PROVE SizeOf(i) \in 0 .. Headroom
  BY <1>3 DEF PagesTyped, Cell, SizeOf
<1>5. ASSUME NEW i \in 1 .. Count PROVE EndOf(i) \in Nat
  BY <1>3, <1>4, JournalAssumption DEF Cells, EndOf
<1> QED BY <1>1, <1>3, <1>4, <1>5

LEMMA Lengthy == \A n \in Lengths : n \in Nat /\ n >= 1 /\ n <= Headroom
  BY JournalAssumption

LEMMA InOrder ==
  ASSUME Frames, NEW j \in 1 .. Count, NEW i \in 1 .. Count, i < j
  PROVE  /\ log[i].nano < log[j].nano /\ PageOf(i) <= PageOf(j)
         /\ PageOf(i) = PageOf(j) => EndOf(i) <= PosOf(j)
<1>1. i \in 1 .. j - 1
  BY FrameTypes DEF Frames
<1>2. log[i].nano < log[j].nano /\ (PageOf(i) < PageOf(j) \/ (PageOf(i) = PageOf(j) /\ EndOf(i) <= PosOf(j)))
  BY <1>1, Zenon DEF Frames, FramesOrdered
<1>3. PageOf(i) \in Int /\ PageOf(j) \in Int
  BY FrameTypes DEF Frames, Pages
<1> QED BY <1>2, <1>3

LEMMA FrameSizes ==
  ASSUME Frames, NEW i \in 1 .. Count
  PROVE  0 <= PosOf(i) /\ PosOf(i) < EndOf(i) /\ EndOf(i) > 0
<1>1. PosOf(i) \in Nat /\ SizeOf(i) \in Nat /\ SizeOf(i) >= 1
  BY FrameTypes, Lengthy DEF Frames, FramesWritten, Cells
<1> QED BY <1>1 DEF EndOf

(* The frames before a place are the first ones. *)
LEMMA PlaceBefore ==
  ASSUME Frames, NEW p \in Int, NEW c \in Int, NEW k \in 0 .. Count, At(p, c, k)
  PROVE  \A i \in 1 .. Count : Before(i, p, c) <=> i <= k
<1> USE FrameTypes, Lengthy DEF Pages, Cells, Frames
<1>1. ASSUME NEW i \in 1 .. Count, i <= k PROVE Before(i, p, c)
  <2>1. PosOf(i) < EndOf(i) /\ SizeOf(i) \in Nat /\ SizeOf(i) >= 1
    BY DEF FramesWritten, EndOf
  <2>2. PageOf(i) < p \/ (PageOf(i) = p /\ EndOf(i) <= c)
    BY <1>1 DEF At
  <2>3. PageOf(i) < p \/ (PageOf(i) = p /\ PosOf(i) < c)
    BY <2>1, <2>2
  <2> QED BY <2>3 DEF Before, PageOf, PosOf
<1>2. ASSUME NEW i \in 1 .. Count, ~(i <= k) PROVE ~Before(i, p, c)
  <2>1. PageOf(i) > p \/ (PageOf(i) = p /\ PosOf(i) >= c)
    BY <1>2 DEF At
  <2>2. ~(PageOf(i) < p \/ (PageOf(i) = p /\ PosOf(i) < c))
    BY <2>1
  <2> QED BY <2>2 DEF Before, PageOf, PosOf
<1> QED BY <1>1, <1>2

LEMMA PlaceIndex ==
  ASSUME Frames, NEW p \in Int, NEW c \in Int, NEW k \in 0 .. Count, At(p, c, k)
  PROVE  Cardinality({i \in DOMAIN log : Before(i, p, c)}) = k
<1>1. {i \in DOMAIN log : Before(i, p, c)} = 1 .. k
  BY PlaceBefore, FrameTypes DEF Frames
<1>2. k \in Nat
  BY FrameTypes DEF Frames
<1> QED BY <1>1, <1>2, CountUpTo, Zenon

(* The next frame, if it is on this page, is at this place; after it is a place again. *)
LEMMA NextHere ==
  ASSUME Frames, NEW p \in Int, NEW c \in Nat, NEW k \in 0 .. Count, At(p, c, k), k < Count, PageOf(k + 1) = p
  PROVE  PosOf(k + 1) = c /\ At(p, EndOf(k + 1), k + 1)
<1> USE FrameTypes, Lengthy DEF Pages, Cells, Frames
<1>0. k + 1 \in 1 .. Count /\ (k >= 1 => k \in 1 .. Count /\ k \in 1 .. (k + 1) - 1)
  OBVIOUS
<1>1. PosOf(k + 1) >= c
  BY <1>0 DEF At
<1>2. PosOf(k + 1) = c
  <2>1. CASE c = 0
    <3>1. PosOf(k + 1) = 0 \/ (k >= 1 /\ PageOf(k) = p /\ EndOf(k) = PosOf(k + 1))
      BY <1>0 DEF FramesDense
    <3>2. ASSUME k >= 1, PageOf(k) = p PROVE EndOf(k) <= 0
      BY <1>0, <2>1, <3>2 DEF At
    <3>3. ASSUME k >= 1 PROVE EndOf(k) > 0
      BY <1>0, <3>3 DEF FramesWritten, EndOf
    <3> QED BY <3>1, <3>2, <3>3, <2>1
  <2>2. CASE k >= 1 /\ PageOf(k) = p /\ EndOf(k) = c
    <3>1. PosOf(k + 1) = 0 \/ EndOf(k) = PosOf(k + 1)
      BY <1>0, <2>2 DEF FramesDense
    <3>2. EndOf(k) > 0
      BY <1>0, <2>2 DEF FramesWritten, EndOf
    <3> QED BY <3>1, <3>2, <1>1, <2>2
  <2> QED BY <2>1, <2>2 DEF At
<1>3. EndOf(k + 1) >= c
  BY <1>0, <1>2 DEF EndOf
<1>4. ASSUME NEW i \in 1 .. k + 1 PROVE PageOf(i) < p \/ (PageOf(i) = p /\ EndOf(i) <= EndOf(k + 1))
  <2>1. CASE i = k + 1
    <3>1. PageOf(i) = p /\ EndOf(i) = EndOf(k + 1) /\ EndOf(i) \in Nat
      BY <2>1, <1>0
    <3> QED BY ONLY <3>1
  <2>2. CASE i \in 1 .. k
    <3>1. i \in 1 .. Count /\ (PageOf(i) < p \/ (PageOf(i) = p /\ EndOf(i) <= c))
      BY <2>2 DEF At
    <3> QED BY <3>1, <1>0, <1>3
  <2> QED BY <2>1, <2>2
<1>5. ASSUME NEW i \in k + 2 .. Count PROVE PageOf(i) > p \/ (PageOf(i) = p /\ PosOf(i) >= EndOf(k + 1))
  <2>1. i \in 1 .. Count /\ k + 1 \in 1 .. i - 1
    OBVIOUS
  <2>2. PageOf(k + 1) < PageOf(i) \/ (PageOf(k + 1) = PageOf(i) /\ EndOf(k + 1) <= PosOf(i))
    BY <2>1 DEF FramesOrdered
  <2> QED BY <2>1, <2>2, <1>0
<1>6. (k + 1) + 1 = k + 2 /\ k + 1 \in 0 .. Count /\ k + 1 >= 1
  OBVIOUS
<1>7. At(p, EndOf(k + 1), k + 1)
  BY <1>4, <1>5, <1>6 DEF At
<1> QED BY <1>2, <1>7

(* What looks written at a place is the next frame. *)
LEMMA WrittenHere ==
  ASSUME Frames, EndsClear, NEW p \in Pages, NEW c \in Cells, NEW k \in 0 .. Count, At(p, c, k),
         status[p][c] = "WRITTEN"
  PROVE  k < Count /\ PageOf(k + 1) = p
  BY DEF EndsClear, AtEnd

LEMMA FrameHere ==
  ASSUME Frames, EndsClear, NEW p \in Pages, NEW c \in Cells, NEW k \in 0 .. Count, At(p, c, k),
         k < Count, PageOf(k + 1) = p
  PROVE  /\ k + 1 \in 1 .. Count /\ status[p][c] = "WRITTEN"
         /\ body[p][c].nano = log[k + 1].nano /\ body[p][c].length \in Lengths
         /\ c + body[p][c].length \in Cells /\ At(p, c + body[p][c].length, k + 1)
<1>1. PosOf(k + 1) = c /\ At(p, EndOf(k + 1), k + 1)
  BY NextHere DEF Pages, Cells
<1>2. k + 1 \in 1 .. Count
  BY FrameTypes DEF Frames
<1>3. EndOf(k + 1) = c + body[p][c].length
  BY <1>1 DEF EndOf, SizeOf
<1>4. EndOf(k + 1) \in Cells
  BY <1>2, FrameTypes, JournalAssumption DEF Frames, FramesWritten, Cells
<1> QED BY <1>1, <1>2, <1>3, <1>4 DEF FramesWritten, Frames, SizeOf

(* The end of a page is the beginning of the next one, and there is one end. *)
LEMMA PageTurn ==
  ASSUME Frames, NEW p \in Pages, NEW c \in Cells, NEW k \in 0 .. Count, AtEnd(p, c, k)
  PROVE  At(p + 1, 0, k)
<1> USE FrameTypes DEF Pages, Cells, Frames
<1>1. ASSUME NEW i \in 1 .. k PROVE PageOf(i) < p + 1
  <2>1. i \in 1 .. Count /\ (PageOf(i) < p \/ PageOf(i) = p)
    BY DEF AtEnd, At
  <2> QED BY <2>1
<1>2. ASSUME NEW i \in k + 1 .. Count PROVE PageOf(i) > p
  <2>1. i \in 1 .. Count /\ k + 1 \in 1 .. Count /\ k < Count
    OBVIOUS
  <2>2. PageOf(k + 1) > p
    BY <2>1 DEF AtEnd, At
  <2>3. i = k + 1 \/ PageOf(k + 1) <= PageOf(i)
    <3>1. CASE i # k + 1
      <4>1. k + 1 < i
        BY <3>1
      <4> QED BY <4>1, <2>1, InOrder
    <3> QED BY <3>1
  <2> QED BY <2>1, <2>2, <2>3
<1>3. ASSUME NEW i \in k + 1 .. Count PROVE PageOf(i) > p + 1 \/ (PageOf(i) = p + 1 /\ PosOf(i) >= 0)
  BY <1>2
<1> QED BY <1>1, <1>3 DEF At

LEMMA OneEnd ==
  ASSUME Frames, NEW p \in Pages, NEW c \in Cells, NEW d \in Cells, NEW j \in 0 .. Count, NEW k \in 0 .. Count,
         AtEnd(p, c, j), AtEnd(p, d, k)
  PROVE  j = k /\ c = d
<1>0. Count \in Nat /\ (\A i \in 1 .. Count : EndOf(i) \in Nat /\ EndOf(i) > 0) /\ p \in Nat /\ c \in Nat /\ d \in Nat
  BY FrameTypes, FrameSizes DEF Frames, Pages, Cells
<1>1. ASSUME NEW a \in 0 .. Count, NEW b \in 0 .. Count, NEW x \in Cells, NEW y \in Cells,
             AtEnd(p, x, a), AtEnd(p, y, b), a < b
      PROVE  FALSE
  <2>1. a + 1 \in 1 .. b /\ a + 1 \in a + 1 .. Count /\ a + 1 \in 1 .. Count /\ a < Count
    BY <1>0, <1>1
  <2>2. PageOf(a + 1) > p
    BY <2>1, <1>1 DEF AtEnd, At
  <2>3. PageOf(a + 1) < p \/ PageOf(a + 1) = p
    BY <2>1, <1>1 DEF AtEnd, At
  <2>4. PageOf(a + 1) \in Int
    BY <2>1, FrameTypes DEF Frames, Pages
  <2> QED BY <2>2, <2>3, <2>4, <1>0
<1>2. j = k
  <2>1. CASE j < k
    BY <2>1, <1>1
  <2>2. CASE k < j
    BY <2>2, <1>1
  <2> QED BY <2>1, <2>2, <1>0
<1>3. CASE k >= 1 /\ PageOf(k) = p
  <2>0. k \in 1 .. Count /\ k \in 1 .. k
    BY <1>0, <1>3
  <2>1. EndOf(k) > 0
    BY <1>0, <2>0
  <2>2. EndOf(k) <= c /\ EndOf(k) <= d
    BY <1>0, <2>0, <1>2, <1>3 DEF AtEnd, At
  <2>3. c = EndOf(k) /\ d = EndOf(k)
    BY <1>2, <1>0, <2>0, <2>1, <2>2 DEF AtEnd, At
  <2> QED BY <1>2, <2>3
<1>4. CASE ~(k >= 1 /\ PageOf(k) = p)
  BY <1>2, <1>4 DEF AtEnd, At
<1> QED BY <1>2, <1>3, <1>4

(* A page begins at a place. *)
LEMMA PageBegins ==
  ASSUME Frames, NEW p \in Int
  PROVE  \E k \in 0 .. Count : At(p, 0, k)
<1> USE FrameTypes DEF Pages, Cells, Frames
<1> DEFINE S == {i \in 1 .. Count : PageOf(i) >= p}
<1>1. CASE S = {}
  <2>1. \A i \in 1 .. Count : PageOf(i) < p
    <3>1. \A i \in 1 .. Count : PageOf(i) \in Int /\ ~(PageOf(i) >= p)
      BY <1>1
    <3> QED BY ONLY <3>1, p \in Int
  <2>2. At(p, 0, Count)
    BY <2>1 DEF At
  <2> QED BY <2>2
<1>2. CASE S # {}
  <2>1. S \in SUBSET Nat
    OBVIOUS
  <2>2. PICK m \in S : \A x \in S : m <= x
    BY <1>2, <2>1, Smallest, Zenon
  <2>3. m - 1 \in 0 .. Count /\ m \in 1 .. Count /\ PageOf(m) >= p
    OBVIOUS
  <2>4. ASSUME NEW i \in 1 .. m - 1 PROVE PageOf(i) < p
    <3>1. i \in 1 .. Count /\ i \notin S
      BY <2>2, <2>3
    <3> QED BY <3>1
  <2>5. ASSUME NEW i \in m .. Count PROVE PageOf(i) > p \/ (PageOf(i) = p /\ PosOf(i) >= 0)
    <3>1. i \in 1 .. Count /\ (i = m \/ m < i)
      BY <2>3
    <3>2. PageOf(i) >= p
      BY <3>1, <2>3, InOrder
    <3> QED BY <3>1, <3>2
  <2>6. (m - 1) + 1 = m
    BY <2>3
  <2>7. At(p, 0, m - 1)
    BY <2>3, <2>4, <2>5, <2>6 DEF At
  <2> QED BY <2>3, <2>7
<1> QED BY <1>1, <1>2

-----------------------------------------------------------------------------
(* What a step keeps.                                                      *)

SamePlaces ==
  /\ Count' = Count /\ log' = log
  /\ \A i \in 1 .. Count : SizeOf(i)' = SizeOf(i) /\ EndOf(i)' = EndOf(i)
  /\ \A p, c : \A k \in 0 .. Count : (At(p, c, k)' <=> At(p, c, k)) /\ (AtEnd(p, c, k)' <=> AtEnd(p, c, k))
  /\ \A p : FramesOn(p)' = FramesOn(p)

LEMMA PlacesKept ==
  ASSUME PagesTyped, log' = log, \A i \in 1 .. Count : body'[PageOf(i)][PosOf(i)] = body[PageOf(i)][PosOf(i)]
  PROVE  SamePlaces
<1>1. Count' = Count /\ \A i : PageOf(i)' = PageOf(i) /\ PosOf(i)' = PosOf(i)
  BY DEF Count, PageOf, PosOf
<1>2. \A i \in 1 .. Count : SizeOf(i)' = SizeOf(i) /\ EndOf(i)' = EndOf(i)
  BY <1>1 DEF SizeOf, EndOf
<1>3. ASSUME NEW p, NEW c, NEW k \in 0 .. Count PROVE At(p, c, k)' <=> At(p, c, k)
  <2>1. Count \in Nat /\ \A i \in 1 .. k : i \in 1 .. Count
    BY FrameTypes
  <2>2. k >= 1 => k \in 1 .. Count
    BY <2>1
  <2> QED BY <1>1, <1>2, <2>1, <2>2 DEF At
<1>4. ASSUME NEW p, NEW c, NEW k \in 0 .. Count PROVE AtEnd(p, c, k)' <=> AtEnd(p, c, k)
  BY <1>1, <1>3 DEF AtEnd
<1>5. \A p : FramesOn(p)' = FramesOn(p)
  BY <1>1 DEF FramesOn
<1> QED BY <1>1, <1>2, <1>3, <1>4, <1>5 DEF SamePlaces

LEMMA EndKept ==
  ASSUME SamePlaces, PagesTyped, UNCHANGED <<wpage, wpos>>, AtEnd(wpage, wpos, Count)
  PROVE  AtEnd(wpage, wpos, Count)'
<1>1. \A i : PageOf(i)' = PageOf(i) /\ PosOf(i)' = PosOf(i)
  BY DEF SamePlaces, PageOf, PosOf
<1>2. Count \in Nat /\ Count \in 0 .. Count /\ (Count >= 1 => Count \in 1 .. Count)
  BY FrameTypes
<1> QED BY <1>1, <1>2 DEF SamePlaces, AtEnd, At

(* Frames that stay as they are, on a log that does. *)
LEMMA FramesKept ==
  ASSUME Frames, PagesTyped', log' = log, inited \subseteq inited',
         \A i \in 1 .. Count : /\ body'[PageOf(i)][PosOf(i)] = body[PageOf(i)][PosOf(i)]
                              /\ status'[PageOf(i)][PosOf(i)] = status[PageOf(i)][PosOf(i)]
  PROVE  Frames' /\ SamePlaces
<1>1. SamePlaces
  BY PlacesKept DEF Frames
<1>2. Count' = Count /\ \A i : PageOf(i)' = PageOf(i) /\ PosOf(i)' = PosOf(i) /\ (log[i].nano)' = log[i].nano
  BY DEF Count, PageOf, PosOf
<1>3. FramesWritten'
  BY <1>1, <1>2 DEF SamePlaces, FramesWritten, Frames
<1>4. FramesOrdered'
  <2> SUFFICES ASSUME NEW j \in 1 .. Count, NEW i \in 1 .. j - 1
               PROVE  /\ log[i].nano < log[j].nano
                      /\ PageOf(i) < PageOf(j) \/ (PageOf(i) = PageOf(j) /\ EndOf(i)' <= PosOf(j))
    BY <1>2 DEF FramesOrdered
  <2>1. i \in 1 .. Count
    BY FrameTypes DEF Frames
  <2> QED BY <2>1, <1>1 DEF SamePlaces, Frames, FramesOrdered
<1>5. FramesDense'
  <2>1. \A j \in 1 .. Count : j > 1 => j - 1 \in 1 .. Count
    BY FrameTypes DEF Frames
  <2> QED BY <2>1, <1>1, <1>2 DEF SamePlaces, FramesDense, Frames
<1> QED BY <1>1, <1>3, <1>4, <1>5 DEF Frames

LEMMA SharedSame ==
  ASSUME Shared, UNCHANGED <<header, cellVars, clock, log>>
  PROVE  Shared' /\ SamePlaces
<1> USE DEF header, cellVars
<1>1. Frames' /\ SamePlaces
  <2>1. PagesTyped'
    BY DEF Shared, Frames, PagesTyped
  <2> QED BY <2>1, FramesKept DEF Shared
<1>2. EndsClear'
  BY <1>1 DEF SamePlaces, EndsClear, Shared
<1>3. StartsDivide'
  BY <1>1 DEF SamePlaces, StartsDivide, Shared, PageOf
<1>4. PagesFollow'
  BY DEF PagesFollow, Shared
<1>5. PagesClosed'
  BY <1>1 DEF SamePlaces, PagesClosed, Shared
<1> QED BY <1>1, <1>2, <1>3, <1>4, <1>5 DEF Shared

(* A step of the writer that writes no frame leaves the readers where they are. *)
LEMMA ReadersKept ==
  ASSUME PagesTyped, PagesTyped', Reading, UNCHANGED reader, SamePlaces, clock' >= clock,
         files \subseteq files', inited \subseteq inited',
         \A q \in inited' : IF q \in inited THEN start'[q] = start[q] ELSE start'[q] = clock
  PROVE  Reading'
<1> USE DEF reader
<1>1. ReadersTyped'
  BY DEF Reading, ReadersTyped
<1>2. ASSUME NEW r \in Readers PROVE ReaderAtPlace(r)'
  <2>1. ReaderAtPlace(r)
    BY DEF Reading
  <2>2. rtime[r] \in Nat /\ clock \in Nat /\ clock' \in Nat /\ start \in [Pages -> Nat] /\ start' \in [Pages -> Nat]
        /\ inited' \subseteq Pages /\ inited \subseteq Pages
    BY JournalAssumption DEF Reading, ReadersTyped, Times, PagesTyped
  <2>3. ASSUME rpc[r] \in {"load", "pass"}
        PROVE  rtime[r] <= clock' + 1 /\ \A q \in inited' : q > rpage[r] => rtime[r] <= start'[q] + 1
    <3>1. rtime[r] <= clock + 1
      BY <2>1, <2>3 DEF ReaderAtPlace
    <3>2. ASSUME NEW q \in inited', q > rpage[r] PROVE rtime[r] <= start'[q] + 1
      <4>1. CASE q \notin inited
        BY <4>1, <3>1, <3>2
      <4>2. CASE q \in inited
        BY <4>2, <3>2, <2>1, <2>3 DEF ReaderAtPlace
      <4> QED BY <4>1, <4>2
    <3> QED BY <3>1, <3>2, <2>2
  <2>4. ASSUME rpc[r] = "load"
        PROVE  /\ rpage[r] = 1 \/ rpage[r] \in files'
               /\ \A i \in 1 .. Count : PageOf(i)' < rpage[r] => (r \in rlate \/ (log[i].nano)' < rtime[r])
    BY <2>1, <2>4 DEF ReaderAtPlace, SamePlaces, PageOf
  <2>5. ASSUME rpc[r] = "pass"
        PROVE  rpage[r] \in inited' /\ \E k \in 0 .. Count : At(rpage[r], rpos[r], k)' /\ Sought(r, k)'
    BY <2>1, <2>5 DEF ReaderAtPlace, SamePlaces, Sought
  <2>6. ASSUME rpc[r] \in {"read", "take"}
        PROVE  rpage[r] \in inited' /\ \E k \in 0 .. Count :
                 At(rpage[r], rpos[r], k)' /\ (rpc[r] = "take" => k < Count /\ PageOf(k + 1)' = rpage[r])
    BY <2>1, <2>6 DEF ReaderAtPlace, SamePlaces, PageOf
  <2> QED BY <2>3, <2>4, <2>5, <2>6 DEF ReaderAtPlace, SamePlaces
<1> QED BY <1>1, <1>2 DEF Reading

-----------------------------------------------------------------------------
(* The writer: pages.                                                      *)

LEMMA LastIsLast ==
  ASSUME PagesFollow, NEW p \in files, p + 1 \notin files
  PROVE  p \in Pages /\ files = 1 .. p /\ \A q \in files : q <= p
<1>1. PICK m \in 0 .. MaxPage : files = 1 .. m
  BY DEF PagesFollow
<1>2. m = p
  BY <1>1, JournalAssumption
<1> QED BY <1>1, <1>2, JournalAssumption DEF Pages

LEMMA LastPageIsLast ==
  ASSUME PagesFollow
  PROVE  /\ LastPage \in Pages /\ LastPage + 1 \notin files
         /\ files \cup {LastPage} = 1 .. LastPage
         /\ files # {} => LastPage \in files
<1>1. PICK m \in 0 .. MaxPage : files = 1 .. m
  BY DEF PagesFollow
<1>2. CASE m = 0
  BY <1>1, <1>2, JournalAssumption DEF LastPage, Pages
<1>3. CASE m # 0
  <2>1. m \in files /\ (\A q \in files : q <= m) /\ files # {}
    BY <1>1, <1>3, JournalAssumption
  <2>2. LastPage = CHOOSE p \in files : \A q \in files : q <= p
    BY <2>1 DEF LastPage
  <2>3. LastPage \in files /\ \A q \in files : q <= LastPage
    BY <2>1, <2>2
  <2>4. LastPage = m
    BY <1>1, <2>1, <2>3, JournalAssumption
  <2> QED BY <1>1, <1>3, <2>4, JournalAssumption DEF Pages
<1> QED BY <1>2, <1>3

(* A step of the writer's control: what is shared stays the same. *)
LEMMA ControlKept ==
  ASSUME IInv, UNCHANGED <<header, cellVars, clock, log, reader>>
  PROVE  Shared' /\ Reading' /\ SamePlaces
<1>1. Shared' /\ SamePlaces
  BY SharedSame DEF IInv
<1>2. clock' >= clock /\ files \subseteq files' /\ inited \subseteq inited'
      /\ \A q \in inited' : IF q \in inited THEN start'[q] = start[q] ELSE start'[q] = clock
  BY DEF IInv, Shared, Frames, PagesTyped, header
<1>3. PagesTyped' /\ PagesTyped
  BY <1>1 DEF IInv, Shared, Frames
<1> QED BY <1>1, <1>2, <1>3, ReadersKept DEF IInv

LEMMA KeepSeekEnd == ASSUME IInv, SeekEnd PROVE IInv'
<1> USE DEF IInv, Shared, Writing, cellVars
<1>1. /\ wpc = "down" /\ wnew' = LastPage /\ files' = files \cup {LastPage} /\ wpc' = "load" /\ wlen' = 0
      /\ UNCHANGED <<inited, start, frameNum, status, body, clock, log, wpage, wpos, wnum, wfill, abandoned, reader>>
  BY DEF SeekEnd
<1>2. LastPage \in Pages /\ LastPage + 1 \notin files' /\ files' = 1 .. LastPage /\ (files # {} => files' = files)
  BY <1>1, LastPageIsLast DEF Pages
<1>3. PagesTyped'
  BY <1>1, <1>2 DEF Frames, PagesTyped
<1>4. Frames' /\ SamePlaces
  BY <1>1, <1>3, FramesKept
<1>5. PagesFollow'
  <2>1. \E m \in 0 .. MaxPage : files' = 1 .. m
    BY <1>2 DEF Pages
  <2>2. \A q \in files' : q + 1 \in files' => q \in files /\ q + 1 \in files
    BY <1>1, <1>2, JournalAssumption DEF LastPage
  <2> QED BY <1>1, <2>1, <2>2 DEF PagesFollow
<1>6. PagesLeft'
  <2>1. \A q \in files' : q + 1 \in files' => q \in files /\ q + 1 \in files
    BY <1>1, <1>2, JournalAssumption DEF LastPage
  <2>2. ~Leaving
    BY <1>1 DEF Leaving
  <2> QED BY <1>1, <2>1, <2>2 DEF PagesLeft
<1>7. EndsClear' /\ StartsDivide' /\ PagesClosed'
  <2>1. EndsClear'
    BY <1>1, <1>4 DEF SamePlaces, EndsClear
  <2>2. StartsDivide'
    BY <1>1, <1>4 DEF SamePlaces, StartsDivide, PageOf
  <2>3. PagesClosed'
    BY <1>1, <1>4 DEF SamePlaces, PagesClosed
  <2> QED BY <2>1, <2>2, <2>3
<1>8. Reading'
  <2>1. clock' >= clock /\ files \subseteq files' /\ inited \subseteq inited'
        /\ \A q \in inited' : IF q \in inited THEN start'[q] = start[q] ELSE start'[q] = clock
    BY <1>1 DEF Frames, PagesTyped
  <2> QED BY <1>1, <1>3, <1>4, <2>1, ReadersKept DEF Frames
<1>9. WriterTyped'
  BY <1>1, <1>2, JournalAssumption DEF WriterTyped, Pages
<1>10. wpage' = 0
  BY <1>1 DEF WriterAtPlace
<1>11. WriterAtPlace' /\ WriterFrame'
  BY <1>1, <1>2, <1>10 DEF WriterAtPlace, WriterFrame, Leaving
<1> QED BY <1>4, <1>5, <1>6, <1>7, <1>8, <1>9, <1>11

LEMMA KeepLoadPage == ASSUME IInv, LoadPage PROVE IInv'
<1> USE DEF IInv, Shared, Writing, cellVars
<1>1. /\ wpc = "load" /\ inited' = inited \cup {wnew}
      /\ start' = IF wnew \in inited THEN start ELSE [start EXCEPT ![wnew] = clock]
      /\ wpc' = IF wpage = 0 THEN "open" ELSE "finish"
      /\ UNCHANGED <<files, frameNum, status, body, clock, log, wpage, wpos, wnum, wlen, wfill, wnew, abandoned, reader>>
  BY DEF LoadPage
<1>2. wnew \in files /\ wnew + 1 \notin files /\ wnew \in Pages /\ \A q \in files : q <= wnew
  BY <1>1, LastIsLast DEF WriterAtPlace
<1>3. PagesTyped'
  BY <1>1, <1>2 DEF Frames, PagesTyped
<1>4. Frames' /\ SamePlaces
  BY <1>1, <1>3, FramesKept
<1>5. PagesFollow' /\ PagesLeft'
  BY <1>1, <1>2 DEF PagesFollow, PagesLeft, Leaving
<1>6. EndsClear'
  BY <1>1, <1>4 DEF SamePlaces, EndsClear
<1>7. PagesClosed'
  BY <1>1, <1>4 DEF SamePlaces, PagesClosed
<1>8. start' \in [Pages -> Nat] /\ (wnew \notin inited => start'[wnew] = clock)
      /\ \A q \in Pages : (q # wnew \/ wnew \in inited) => start'[q] = start[q]
  BY <1>1, <1>2 DEF Frames, PagesTyped
<1>9. StartsDivide'
  <2>1. ASSUME NEW p \in Pages PROVE start'[p] <= clock /\ (p \notin inited' => start'[p] = 0)
    BY <1>1, <1>8, JournalAssumption DEF StartsDivide, Frames, PagesTyped
  <2>2. ASSUME NEW p \in inited', NEW i \in 1 .. Count
        PROVE  (PageOf(i) < p => log[i].nano <= start'[p]) /\ (PageOf(i) >= p => log[i].nano > start'[p])
    <3>1. CASE p \in inited
      <4>1. start'[p] = start[p]
        BY <1>8, <3>1 DEF Frames, PagesTyped
      <4> QED BY <3>1, <4>1 DEF StartsDivide
    <3>2. CASE p \notin inited
      <4>1. p = wnew /\ start'[p] = clock
        BY <1>1, <1>8, <3>2
      <4>2. PageOf(i) \in inited /\ PageOf(i) \in files /\ PageOf(i) # wnew /\ PageOf(i) \in Pages
        BY <4>1, <3>2, FrameTypes DEF Frames, FramesWritten, PagesFollow
      <4>3. PageOf(i) < wnew
        BY <1>2, <4>2 DEF Pages
      <4>4. log[i].nano <= clock
        BY DEF StartsDivide
      <4>5. ~(PageOf(i) >= p)
        BY <1>2, <4>1, <4>2, <4>3 DEF Pages
      <4> QED BY <4>1, <4>4, <4>5
    <3> QED BY <3>1, <3>2
  <2> QED BY <1>1, <2>1, <2>2 DEF StartsDivide, Count, PageOf
<1>10. Reading'
  <2>1. clock' >= clock /\ files \subseteq files' /\ inited \subseteq inited'
        /\ \A q \in inited' : IF q \in inited THEN start'[q] = start[q] ELSE start'[q] = clock
    BY <1>1, <1>8 DEF Frames, PagesTyped
  <2> QED BY <1>1, <1>3, <1>4, <2>1, ReadersKept DEF Frames
<1>11. WriterTyped'
  BY <1>1 DEF WriterTyped
<1>12. WriterAtPlace'
  <2>1. ASSUME wpage # 0
        PROVE  /\ wpage = wnew - 1 /\ AtEnd(wpage, wpos, Count)'
               /\ wnum <= wpos /\ wnum = Cardinality(FramesOn(wpage))
    BY <1>1, <1>4, <2>1, EndKept DEF WriterAtPlace, Leaving, Frames
  <2>2. FramesOn(wpage)' = FramesOn(wpage)
    BY <1>1, <1>4 DEF SamePlaces, FramesOn, PageOf
  <2> QED BY <1>1, <1>2, <2>1, <2>2 DEF WriterAtPlace, Leaving
<1>13. WriterFrame'
  BY <1>1 DEF WriterFrame
<1> QED BY <1>4, <1>5, <1>6, <1>7, <1>9, <1>10, <1>11, <1>12, <1>13

LEMMA KeepFinishPage == ASSUME IInv, FinishPage PROVE IInv'
<1> USE DEF IInv, Shared, Writing, cellVars
<1>1. /\ wpc = "finish" /\ frameNum' = [frameNum EXCEPT ![wpage] = wnum] /\ wpc' = "close"
      /\ UNCHANGED <<files, inited, start, status, body, clock, log, wpage, wpos, wnum, wlen, wfill, wnew, abandoned, reader>>
  BY DEF FinishPage
<1>2. wpage # 0 /\ Leaving /\ wpage \in Pages /\ wnum \in 0 .. PageSize /\ wnum = Cardinality(FramesOn(wpage))
  BY <1>1 DEF WriterAtPlace, WriterTyped, Leaving, Pages
<1>3. frameNum' \in [Pages -> -1 .. PageSize] /\ frameNum'[wpage] = wnum
      /\ \A q \in Pages : q # wpage => frameNum'[q] = frameNum[q]
  BY <1>1, <1>2, JournalAssumption DEF Frames, PagesTyped
<1>4. PagesTyped'
  BY <1>1, <1>3 DEF Frames, PagesTyped
<1>5. Frames' /\ SamePlaces
  BY <1>1, <1>4, FramesKept
<1>6. PagesFollow' /\ PagesLeft'
  BY <1>1 DEF PagesFollow, PagesLeft, Leaving
<1>7. EndsClear' /\ StartsDivide'
  <2>1. EndsClear'
    BY <1>1, <1>5 DEF SamePlaces, EndsClear
  <2>2. StartsDivide'
    BY <1>1, <1>5 DEF SamePlaces, StartsDivide, PageOf
  <2> QED BY <2>1, <2>2
<1>8. PagesClosed'
  <2> SUFFICES ASSUME NEW p \in Pages, NEW c \in Cells, status[p][c] = "PAGE_END"
               PROVE  /\ p + 1 \in inited /\ (\E k \in 0 .. Count : AtEnd(p, c, k))
                      /\ frameNum'[p] = Cardinality(FramesOn(p))
    BY <1>1, <1>5 DEF PagesClosed, SamePlaces
  <2>1. frameNum[p] = Cardinality(FramesOn(p)) /\ p + 1 \in inited /\ \E k \in 0 .. Count : AtEnd(p, c, k)
    BY DEF PagesClosed
  <2>2. frameNum'[p] = Cardinality(FramesOn(p))
    BY <1>2, <1>3, <2>1
  <2> QED BY <2>1, <2>2
<1>9. Reading'
  <2>1. clock' >= clock /\ files \subseteq files' /\ inited \subseteq inited'
        /\ \A q \in inited' : IF q \in inited THEN start'[q] = start[q] ELSE start'[q] = clock
    BY <1>1 DEF Frames, PagesTyped
  <2> QED BY <1>1, <1>4, <1>5, <2>1, ReadersKept DEF Frames
<1>10. WriterTyped'
  BY <1>1 DEF WriterTyped
<1>11. WriterAtPlace'
  <2>1. AtEnd(wpage, wpos, Count)'
    BY <1>1, <1>2, <1>5, EndKept DEF WriterAtPlace, Frames
  <2>2. FramesOn(wpage)' = FramesOn(wpage)
    BY <1>1 DEF FramesOn, PageOf, Count
  <2> QED BY <1>1, <1>2, <1>3, <2>1, <2>2 DEF WriterAtPlace, Leaving
<1>12. WriterFrame'
  BY <1>1 DEF WriterFrame
<1> QED BY <1>5, <1>6, <1>7, <1>8, <1>9, <1>10, <1>11, <1>12

(* A store at the end of the writer's page, or after it, reaches no frame. *)
LEMMA TailKept ==
  ASSUME Frames, PagesTyped', log' = log, inited' = inited, wpage \in Pages, wpos \in Cells, AtEnd(wpage, wpos, Count),
         \A q \in Pages, c \in Cells :
           (q # wpage \/ c < wpos) => body'[q][c] = body[q][c] /\ status'[q][c] = status[q][c]
  PROVE  Frames' /\ SamePlaces
<1>1. ASSUME NEW i \in 1 .. Count PROVE PageOf(i) \in Pages /\ PosOf(i) \in Cells /\ (PageOf(i) # wpage \/ PosOf(i) < wpos)
  <2>1. Count \in 0 .. Count /\ PosOf(i) < EndOf(i) /\ PageOf(i) \in Pages /\ PosOf(i) \in Cells /\ EndOf(i) \in Nat
    BY FrameTypes, FrameSizes DEF Frames
  <2>2. PageOf(i) < wpage \/ (PageOf(i) = wpage /\ EndOf(i) <= wpos)
    BY <2>1 DEF AtEnd, At
  <2> QED BY <2>1, <2>2 DEF Pages, Cells
<1> QED BY <1>1, FramesKept

LEMMA KeepClosePage == ASSUME IInv, ClosePage PROVE IInv'
<1> USE DEF IInv, Shared, Writing, header
<1>1. /\ wpc = "close" /\ status' = [status EXCEPT ![wpage][wpos] = "PAGE_END"] /\ wpc' = "open"
      /\ UNCHANGED <<files, inited, start, frameNum, body, clock, log, wpage, wpos, wnum, wlen, wfill, wnew, abandoned, reader>>
  BY DEF ClosePage
<1>2. /\ wpage # 0 /\ Leaving /\ wpage \in Pages /\ wpos \in Cells /\ wnum = Cardinality(FramesOn(wpage))
      /\ AtEnd(wpage, wpos, Count) /\ frameNum[wpage] = wnum /\ wpage + 1 = wnew /\ wnew \in inited
  BY <1>1 DEF WriterAtPlace, WriterTyped, Leaving, Pages
<1>3. /\ status' \in [Pages -> [Cells -> Statuses]] /\ status'[wpage][wpos] = "PAGE_END"
      /\ \A q \in Pages, c \in Cells : (q # wpage \/ c # wpos) => status'[q][c] = status[q][c]
  <2>1. status \in [Pages -> [Cells -> Statuses]] /\ "PAGE_END" \in Statuses
    BY DEF Frames, PagesTyped, Statuses
  <2>2. status' = [status EXCEPT ![wpage][wpos] = "PAGE_END"] /\ wpage \in Pages /\ wpos \in Cells
    BY <1>1, <1>2
  <2> QED BY ONLY <2>1, <2>2
<1>4. PagesTyped'
  BY <1>1, <1>3 DEF Frames, PagesTyped
<1>5. Frames' /\ SamePlaces
  BY <1>1, <1>2, <1>3, <1>4, TailKept DEF Cells
<1>6. PagesFollow'
  BY <1>1 DEF PagesFollow
<1>7. PagesLeft'
  <2> SUFFICES ASSUME NEW p \in files, p + 1 \in files
               PROVE  p \in abandoned \/ \E c \in Cells : status'[p][c] = "PAGE_END"
    BY <1>1 DEF PagesLeft
  <2>1. CASE p = wpage
    BY <2>1, <1>2, <1>3
  <2>2. CASE p # wpage
    <3>1. p \in abandoned \/ \E c \in Cells : status[p][c] = "PAGE_END"
      BY <2>2 DEF PagesLeft
    <3> QED BY <3>1, <2>2, <1>3 DEF Frames, PagesTyped
  <2> QED BY <2>1, <2>2
<1>8. EndsClear' /\ StartsDivide'
  <2>1. EndsClear'
    <3> SUFFICES ASSUME NEW p \in Pages, NEW c \in Cells, NEW k \in 0 .. Count, AtEnd(p, c, k)
                 PROVE  status'[p][c] # "WRITTEN"
      BY <1>5 DEF EndsClear, SamePlaces
    <3> QED BY <1>3 DEF EndsClear
  <2>2. StartsDivide'
    BY <1>1, <1>5 DEF SamePlaces, StartsDivide, PageOf
  <2> QED BY <2>1, <2>2
<1>9. PagesClosed'
  <2> SUFFICES ASSUME NEW p \in Pages, NEW c \in Cells, status'[p][c] = "PAGE_END"
               PROVE  /\ p + 1 \in inited /\ (\E k \in 0 .. Count : AtEnd(p, c, k))
                      /\ frameNum[p] = Cardinality(FramesOn(p))
    BY <1>1, <1>5 DEF PagesClosed, SamePlaces
  <2>1. CASE p = wpage /\ c = wpos
    <3>1. Count \in 0 .. Count
      BY FrameTypes DEF Frames
    <3> QED BY <2>1, <3>1, <1>2
  <2>2. CASE p # wpage \/ c # wpos
    BY <2>2, <1>3 DEF PagesClosed
  <2> QED BY <2>1, <2>2
<1>10. Reading'
  <2>1. clock' >= clock /\ files \subseteq files' /\ inited \subseteq inited'
        /\ \A q \in inited' : IF q \in inited THEN start'[q] = start[q] ELSE start'[q] = clock
    BY <1>1 DEF Frames, PagesTyped
  <2> QED BY <1>1, <1>4, <1>5, <2>1, ReadersKept DEF Frames
<1>11. WriterTyped'
  BY <1>1 DEF WriterTyped
<1>12. WriterAtPlace' /\ WriterFrame'
  BY <1>1 DEF WriterAtPlace, WriterFrame, Leaving
<1> QED BY <1>5, <1>6, <1>7, <1>8, <1>9, <1>10, <1>11, <1>12

LEMMA KeepOpenPage == ASSUME IInv, OpenPage PROVE IInv'
<1>1. /\ wpc = "open" /\ wpage' = wnew /\ wpos' = 0 /\ wnum' = 0 /\ wnew' = 0 /\ wpc' = "locate"
      /\ UNCHANGED <<header, cellVars, clock, log, wlen, wfill, abandoned, reader>>
  BY DEF OpenPage
<1>2. Shared' /\ Reading' /\ SamePlaces
  BY <1>1, ControlKept
<1>3. wnew \in inited /\ wnew \in files /\ wnew + 1 \notin files /\ wnew \in Pages
  BY <1>1 DEF IInv, Writing, Shared, Frames, PagesTyped, WriterAtPlace
<1>4. PagesLeft'
  BY <1>1, <1>2 DEF PagesLeft, Leaving, IInv, header, cellVars
<1>5. WriterTyped'
  BY <1>1, <1>3, JournalAssumption DEF WriterTyped, Cells, Pages, IInv, Writing
<1>6. \E k \in 0 .. Count : At(wnew, 0, k) /\ 0 = Cardinality({i \in 1 .. k : PageOf(i) = wnew})
  <2>1. PICK k \in 0 .. Count : At(wnew, 0, k)
    BY <1>3, PageBegins DEF IInv, Shared, Pages
  <2>2. ASSUME NEW i \in 1 .. k PROVE PageOf(i) # wnew
    <3>0. Frames /\ PagesTyped
      BY DEF IInv, Shared, Frames
    <3>1. i \in 1 .. Count
      BY <3>0, FrameTypes
    <3>2. PageOf(i) \in Pages /\ EndOf(i) \in Nat /\ EndOf(i) > 0
      BY ONLY <3>0, <3>1, FrameTypes, FrameSizes
    <3>3. PageOf(i) < wnew \/ (PageOf(i) = wnew /\ EndOf(i) <= 0)
      BY <2>1 DEF At
    <3> QED BY <3>2, <3>3, <1>3 DEF Pages
  <2>3. {i \in 1 .. k : PageOf(i) = wnew} = {}
    BY <2>2
  <2> QED BY <2>1, <2>3, FS_EmptySet
<1>7. WriterAtPlace'
  <2>1. \E k \in 0 .. Count : At(wpage, wpos, k)' /\ 0 = Cardinality({i \in 1 .. k : PageOf(i)' = wnew})
    <3>1. PICK k \in 0 .. Count : At(wnew, 0, k) /\ 0 = Cardinality({i \in 1 .. k : PageOf(i) = wnew})
      BY <1>6
    <3>2. At(wpage, wpos, k)'
      <4>1. \A i : PageOf(i)' = PageOf(i) /\ PosOf(i)' = PosOf(i)
        BY <1>2 DEF SamePlaces, PageOf, PosOf
      <4>2. k >= 1 => k \in 1 .. Count
        BY FrameTypes DEF IInv, Shared, Frames
      <4>3. \A i \in 1 .. k : i \in 1 .. Count
        BY FrameTypes DEF IInv, Shared, Frames
      <4> QED BY <1>1, <1>2, <3>1, <4>1, <4>2, <4>3 DEF SamePlaces, At
    <3>3. \A i : PageOf(i)' = PageOf(i)
      BY <1>2 DEF SamePlaces, PageOf
    <3> QED BY <3>1, <3>2, <3>3
  <2>2. wnew \in inited' /\ wnew + 1 \notin files' /\ Count' = Count
    BY <1>1, <1>2, <1>3 DEF header, SamePlaces
  <2>3. wpage' = wnew /\ wpos' = 0 /\ wnum' = 0 /\ wpc' = "locate"
    BY <1>1
  <2> QED BY <2>1, <2>2, <2>3 DEF WriterAtPlace, Leaving
<1>8. WriterFrame'
  BY <1>1 DEF WriterFrame, IInv, Writing
<1> QED BY <1>2, <1>4, <1>5, <1>7, <1>8 DEF IInv, Writing

(* A place of the writer after a step that only moves it. *)
LEMMA PlaceKept ==
  ASSUME SamePlaces, PagesTyped, NEW p, NEW c, NEW k \in 0 .. Count, At(p, c, k), wpage' = p, wpos' = c
  PROVE  At(wpage, wpos, k)'
<1>1. \A i : PageOf(i)' = PageOf(i) /\ PosOf(i)' = PosOf(i)
  BY DEF SamePlaces, PageOf, PosOf
<1>2. (k >= 1 => k \in 1 .. Count) /\ \A i \in 1 .. k : i \in 1 .. Count
  BY FrameTypes
<1> QED BY <1>1, <1>2 DEF SamePlaces, At

LEMMA KeepPassWritten == ASSUME IInv, PassWritten PROVE IInv'
<1>1. /\ wpc = "locate" /\ status[wpage][wpos] = "WRITTEN"
      /\ wpos' = wpos + body[wpage][wpos].length /\ wnum' = wnum + 1
      /\ UNCHANGED <<header, cellVars, clock, log, wpc, wpage, wlen, wfill, wnew, abandoned, reader>>
  BY DEF PassWritten
<1>2. Shared' /\ Reading' /\ SamePlaces
  BY <1>1, ControlKept
<1>3. Frames /\ PagesTyped /\ EndsClear /\ Count \in Nat /\ wpage \in Pages /\ wpos \in Cells /\ wnum \in Nat /\ wnum <= wpos
      /\ wpage \in inited /\ wpage + 1 \notin files
  <2>1. Frames /\ PagesTyped /\ EndsClear
    BY DEF IInv, Shared, Frames
  <2>a. wpc = "locate" /\ WriterTyped /\ WriterAtPlace
    BY <1>1 DEF IInv, Writing
  <2>2. wpage \in inited /\ wpage + 1 \notin files /\ wnum <= wpos
    BY ONLY <2>a DEF WriterAtPlace
  <2>3. wpos \in Cells /\ wnum \in Nat /\ wpage \in Pages
    BY <2>1, <2>2, <2>a DEF WriterTyped, Frames, PagesTyped
  <2> QED BY ONLY <2>1, <2>2, <2>3, FrameTypes
<1>4. PICK k \in 0 .. Count : At(wpage, wpos, k) /\ wnum = Cardinality({i \in 1 .. k : PageOf(i) = wpage})
  BY <1>1 DEF IInv, Writing, WriterAtPlace
<1>5. k < Count /\ PageOf(k + 1) = wpage
  BY <1>1, <1>3, <1>4, WrittenHere
<1>6. k + 1 \in 1 .. Count /\ body[wpage][wpos].length \in Lengths /\ wpos' \in Cells /\ At(wpage, wpos', k + 1)
  BY <1>1, <1>3, <1>4, <1>5, FrameHere
<1>7. wnum' = Cardinality({i \in 1 .. k + 1 : PageOf(i) = wpage})
  <2> DEFINE S == {i \in 1 .. k : PageOf(i) = wpage}
  <2>1. IsFiniteSet(S) /\ k + 1 \notin S
    <3>1. S \in SUBSET (1 .. k) /\ k \in Nat /\ k + 1 \notin S
      BY <1>3
    <3> QED BY <3>1, CountUpTo, FS_Subset
  <2>2. {i \in 1 .. k + 1 : PageOf(i) = wpage} = S \cup {k + 1}
    BY <1>5, <1>3
  <2>3. Cardinality(S \cup {k + 1}) = Cardinality(S) + 1
    BY <2>1, FS_AddElement
  <2> QED BY <2>2, <2>3, <1>1, <1>4
<1>8. wnum' <= wpos' /\ wnum' \in 0 .. PageSize
  BY <1>1, <1>3, <1>6, Lengthy, JournalAssumption DEF Cells
<1>9. PagesLeft'
  BY <1>1, <1>2 DEF PagesLeft, Leaving, IInv, header, cellVars
<1>10. WriterTyped'
  BY <1>1, <1>6, <1>8 DEF WriterTyped, IInv, Writing
<1>11. WriterAtPlace'
  <2>1. At(wpage, wpos, k + 1)' /\ k + 1 \in 0 .. Count
    BY <1>1, <1>2, <1>3, <1>6, PlaceKept
  <2>2. wpage' \in inited' /\ wpage' + 1 \notin files' /\ Count' = Count /\ \A i : PageOf(i)' = PageOf(i)
    BY <1>1, <1>2, <1>3 DEF header, SamePlaces, PageOf
  <2>3. wnum' = Cardinality({i \in 1 .. k + 1 : PageOf(i)' = wpage'})
    BY <2>2, <1>1, <1>7
  <2> QED BY <1>1, <1>8, <2>1, <2>2, <2>3 DEF WriterAtPlace, Leaving
<1>12. WriterFrame'
  BY <1>1 DEF WriterFrame, IInv, Writing
<1> QED BY <1>2, <1>9, <1>10, <1>11, <1>12 DEF IInv, Writing

(* Where the writer finds no frame there is none after it. *)
LEMMA WriterAtEnd ==
  ASSUME IInv, wpc = "locate", status[wpage][wpos] # "WRITTEN"
  PROVE  /\ wpage \in Pages /\ wpos \in Cells /\ wpage \in inited /\ wpage + 1 \notin files
         /\ Count \in Nat /\ AtEnd(wpage, wpos, Count) /\ wnum = Cardinality(FramesOn(wpage))
<1>1. Frames /\ PagesTyped /\ EndsClear /\ Count \in Nat /\ wpage \in Pages /\ wpos \in Cells
      /\ wpage \in inited /\ wpage + 1 \notin files /\ PagesFollow
  BY FrameTypes DEF IInv, Shared, Frames, Writing, WriterTyped, WriterAtPlace, PagesTyped
<1>2. PICK k \in 0 .. Count : At(wpage, wpos, k) /\ wnum = Cardinality({i \in 1 .. k : PageOf(i) = wpage})
  BY DEF IInv, Writing, WriterAtPlace
<1>3. k = Count
  <2> SUFFICES ASSUME k < Count PROVE FALSE
    BY <1>1
  <2>1. k + 1 \in 1 .. Count /\ k + 1 \in k + 1 .. Count
    BY <1>1
  <2>2. PageOf(k + 1) # wpage
    BY <1>1, <1>2, FrameHere
  <2>3. PageOf(k + 1) > wpage
    BY <2>1, <2>2, <1>2 DEF At
  <2>4. PageOf(k + 1) \in files /\ wpage \in files
    BY <2>1, <1>1 DEF Frames, FramesWritten, PagesFollow
  <2>5. PageOf(k + 1) <= wpage
    BY <2>4, <1>1, LastIsLast
  <2>6. PageOf(k + 1) \in Pages
    BY <2>1, <1>1, FrameTypes
  <2> QED BY <2>3, <2>5, <2>6, <1>1 DEF Pages
<1> QED BY <1>1, <1>2, <1>3 DEF AtEnd, FramesOn

LEMMA KeepLocate == ASSUME IInv, Locate PROVE IInv'
<1>1. /\ wpc = "locate" /\ status[wpage][wpos] # "WRITTEN" /\ status[wpage][wpos] = "RAW" /\ wpos + Headroom < PageSize
      /\ wpc' = (IF wlen = 0 THEN "ready" ELSE "data") /\ wfill' = 1
      /\ UNCHANGED <<header, cellVars, clock, log, wpage, wpos, wnum, wlen, wnew, abandoned, reader>>
  BY DEF Locate, Writable
<1>2. Shared' /\ Reading' /\ SamePlaces
  BY <1>1, ControlKept
<1>3. /\ wpage \in Pages /\ wpos \in Cells /\ wpage \in inited /\ wpage + 1 \notin files
      /\ Count \in Nat /\ AtEnd(wpage, wpos, Count) /\ wnum = Cardinality(FramesOn(wpage))
  BY <1>1, WriterAtEnd
<1>4. PagesLeft'
  BY <1>1, <1>2 DEF PagesLeft, Leaving, IInv, header, cellVars
<1>5. WriterTyped'
  BY <1>1, JournalAssumption DEF WriterTyped, IInv, Writing
<1>6. WriterAtPlace'
  <2>0. PICK k \in 0 .. Count : k = Count /\ At(wpage, wpos, k)
    BY <1>3 DEF AtEnd
  <2>1. At(wpage, wpos, k)'
    BY <1>1, <1>2, <2>0, PlaceKept DEF IInv, Shared, Frames
  <2>2. wpage' \in inited' /\ wpage' + 1 \notin files' /\ Count' = Count /\ (\A i : PageOf(i)' = PageOf(i))
        /\ wnum' <= wpos'
    BY <1>1, <1>2, <1>3 DEF header, SamePlaces, PageOf, IInv, Writing, WriterAtPlace
  <2>3. wnum' = Cardinality({i \in 1 .. k : PageOf(i)' = wpage'})
    BY <2>0, <2>2, <1>1, <1>3 DEF FramesOn
  <2> QED BY <1>1, <2>0, <2>1, <2>2, <2>3 DEF WriterAtPlace, Leaving
<1>7. WriterFrame'
  BY <1>1, Lengthy DEF WriterFrame, WriterTyped, IInv, Writing, cellVars
<1> QED BY <1>2, <1>4, <1>5, <1>6, <1>7 DEF IInv, Writing

LEMMA KeepLoadNextPage == ASSUME IInv, LoadNextPage PROVE IInv'
<1>1. /\ wpc = "locate" /\ status[wpage][wpos] # "WRITTEN" /\ wpage < MaxPage
      /\ wnew' = wpage + 1 /\ files' = files \cup {wpage + 1} /\ wpc' = "load"
      /\ UNCHANGED <<inited, start, frameNum, status, body, clock, log, wpage, wpos, wnum, wlen, wfill, abandoned, reader>>
  BY DEF LoadNextPage, cellVars
<1> USE DEF IInv, Shared, Writing
<1>2. /\ wpage \in Pages /\ wpos \in Cells /\ wpage \in inited /\ wpage + 1 \notin files
      /\ Count \in Nat /\ AtEnd(wpage, wpos, Count) /\ wnum = Cardinality(FramesOn(wpage)) /\ wnum <= wpos
  BY <1>1, WriterAtEnd DEF WriterAtPlace
<1>3. files = 1 .. wpage /\ files' = 1 .. wpage + 1 /\ wpage + 1 \in Pages
  <2>1. files = 1 .. wpage
    BY <1>2, LastIsLast DEF PagesFollow
  <2> QED BY <2>1, <1>1, <1>2, JournalAssumption DEF Pages
<1>4. PagesTyped'
  BY <1>1, <1>3 DEF Frames, PagesTyped
<1>5. Frames' /\ SamePlaces
  BY <1>1, <1>4, FramesKept
<1>6. \A q \in files' : q + 1 \in files' => q = wpage \/ (q \in files /\ q + 1 \in files)
  BY <1>2, <1>3 DEF Pages
<1>7. PagesFollow'
  <2>1. \E m \in 0 .. MaxPage : files' = 1 .. m
    BY <1>3 DEF Pages
  <2> QED BY <1>1, <1>2, <1>6, <2>1 DEF PagesFollow
<1>8. PagesLeft'
  <2>1. wpage # 0
    BY <1>2 DEF Pages
  <2> QED BY <1>1, <1>6, <2>1 DEF PagesLeft, Leaving
<1>9. EndsClear' /\ StartsDivide' /\ PagesClosed'
  <2>1. EndsClear'
    BY <1>1, <1>5 DEF SamePlaces, EndsClear
  <2>2. StartsDivide'
    BY <1>1, <1>5 DEF SamePlaces, StartsDivide, PageOf
  <2>3. PagesClosed'
    BY <1>1, <1>5 DEF SamePlaces, PagesClosed
  <2> QED BY <2>1, <2>2, <2>3
<1>10. Reading'
  <2>1. clock' >= clock /\ files \subseteq files' /\ inited \subseteq inited'
        /\ \A q \in inited' : IF q \in inited THEN start'[q] = start[q] ELSE start'[q] = clock
    BY <1>1 DEF Frames, PagesTyped
  <2> QED BY <1>1, <1>4, <1>5, <2>1, ReadersKept DEF Frames
<1>11. WriterTyped'
  BY <1>1, <1>3, JournalAssumption DEF WriterTyped, Pages
<1>12. WriterAtPlace'
  <2>1. AtEnd(wpage, wpos, Count)'
    BY <1>1, <1>2, <1>5, EndKept DEF Frames
  <2>2. FramesOn(wpage)' = FramesOn(wpage)
    BY <1>1 DEF FramesOn, PageOf, Count
  <2>3. wnew' \in files' /\ wnew' + 1 \notin files' /\ wpage = wnew' - 1
    BY <1>1, <1>2, <1>3 DEF Pages
  <2> QED BY <1>1, <1>2, <2>1, <2>2, <2>3 DEF WriterAtPlace, Leaving
<1>13. WriterFrame'
  BY <1>1 DEF WriterFrame
<1> QED BY <1>5, <1>7, <1>8, <1>9, <1>10, <1>11, <1>12, <1>13

LEMMA KeepWriteFrame == ASSUME IInv, NEW n \in Lengths, WriteFrame(n) PROVE IInv'
<1>1. /\ wpc = "ready" /\ clock < MaxTime /\ wlen' = n /\ wpc' = "locate"
      /\ UNCHANGED <<header, cellVars, clock, log, wpage, wpos, wnum, wfill, wnew, abandoned, reader>>
  BY DEF WriteFrame
<1>2. Shared' /\ Reading' /\ SamePlaces
  BY <1>1, ControlKept
<1>3. PagesLeft'
  BY <1>1, <1>2 DEF PagesLeft, Leaving, IInv, header, cellVars
<1>4. WriterTyped'
  BY <1>1 DEF WriterTyped, IInv, Writing
<1>5. WriterAtPlace'
  <2>1. PICK k \in 0 .. Count : At(wpage, wpos, k) /\ wnum = Cardinality({i \in 1 .. k : PageOf(i) = wpage})
    BY <1>1 DEF IInv, Writing, WriterAtPlace
  <2>2. At(wpage, wpos, k)'
    BY <1>1, <1>2, <2>1, PlaceKept DEF IInv, Shared, Frames
  <2>3. wpage' \in inited' /\ wpage' + 1 \notin files' /\ Count' = Count /\ (\A i : PageOf(i)' = PageOf(i))
        /\ wnum' <= wpos'
    BY <1>1, <1>2 DEF header, SamePlaces, PageOf, IInv, Writing, WriterAtPlace
  <2>4. wnum' = Cardinality({i \in 1 .. k : PageOf(i)' = wpage'})
    BY <2>1, <2>3, <1>1
  <2> QED BY <1>1, <2>2, <2>3, <2>4 DEF WriterAtPlace, Leaving
<1>6. WriterFrame'
  BY <1>1 DEF WriterFrame
<1> QED BY <1>2, <1>3, <1>4, <1>5, <1>6 DEF IInv, Writing

LEMMA KeepCrash == ASSUME IInv, Crash PROVE IInv'
<1>1. /\ wpc' = "down" /\ wpage' = 0 /\ wpos' = 0 /\ wnum' = 0 /\ wlen' = 0 /\ wfill' = 0 /\ wnew' = 0
      /\ abandoned' = (IF Leaving THEN abandoned \cup {wpage} ELSE abandoned)
      /\ UNCHANGED <<header, cellVars, clock, log, reader>>
  BY DEF Crash, Leaving
<1>2. Shared' /\ Reading' /\ SamePlaces
  BY <1>1, ControlKept
<1>3. PagesLeft'
  BY <1>1, <1>2 DEF PagesLeft, IInv, header, cellVars
<1>4. WriterTyped'
  BY <1>1, JournalAssumption DEF WriterTyped, IInv, Writing, Cells, Leaving, Pages
<1>5. WriterAtPlace' /\ WriterFrame'
  BY <1>1 DEF WriterAtPlace, WriterFrame, Leaving
<1> QED BY <1>2, <1>3, <1>4, <1>5 DEF IInv, Writing

-----------------------------------------------------------------------------
(* The writer: a frame.                                                    *)

LEMMA WriterPlace ==
  ASSUME IInv, wpc \in {"data", "mark", "commit"}
  PROVE  /\ wpage \in Pages /\ wpos \in Cells /\ wpage \in inited /\ wpage + 1 \notin files
         /\ Count \in Nat /\ AtEnd(wpage, wpos, Count) /\ wnum = Cardinality(FramesOn(wpage)) /\ wnum <= wpos
         /\ status[wpage][wpos] = "RAW" /\ wpos + Headroom < PageSize
         /\ wlen \in Lengths /\ wlen \in Nat /\ wlen >= 1 /\ wpos + wlen \in Cells /\ wpos + wlen > wpos
<1>1. /\ PagesTyped /\ Count \in Nat /\ wpage \in Pages /\ wpos \in Cells /\ wpage \in inited /\ wpage + 1 \notin files
      /\ wnum <= wpos /\ status[wpage][wpos] = "RAW" /\ wpos + Headroom < PageSize /\ wlen \in Lengths
  BY FrameTypes DEF IInv, Shared, Frames, Writing, WriterTyped, WriterAtPlace, WriterFrame, PagesTyped
<1>2. PICK k \in 0 .. Count : At(wpage, wpos, k) /\ wnum = Cardinality({i \in 1 .. k : PageOf(i) = wpage}) /\ k = Count
  BY DEF IInv, Writing, WriterAtPlace
<1>3. AtEnd(wpage, wpos, Count) /\ wnum = Cardinality(FramesOn(wpage))
  BY <1>1, <1>2 DEF AtEnd, FramesOn
<1>4. wlen \in Nat /\ wlen >= 1 /\ wpos + wlen \in Cells /\ wpos + wlen > wpos
  BY <1>1, Lengthy, JournalAssumption DEF Cells
<1> QED BY <1>1, <1>3, <1>4

(* A store of the writer behind its place, or into the header of the frame it writes. *)
LEMMA TailStore ==
  ASSUME IInv, wpc \in {"data", "mark"}, wpc' \in {"data", "mark", "commit"}, PagesTyped',
         UNCHANGED <<header, log, reader, abandoned, wpage, wpos, wnum>>, clock' >= clock,
         \A q \in Pages, c \in Cells : (q # wpage \/ c < wpos) => body'[q][c] = body[q][c],
         \A q \in Pages, c \in Cells : (q # wpage \/ c <= wpos) => status'[q][c] = status[q][c],
         \A q \in Pages, c \in Cells : status'[q][c] = "PAGE_END" => status[q][c] = "PAGE_END"
  PROVE  Shared' /\ PagesLeft' /\ Reading' /\ SamePlaces /\ WriterAtPlace'
<1>1. /\ wpage \in Pages /\ wpos \in Cells /\ wpage \in inited /\ wpage + 1 \notin files
      /\ Count \in Nat /\ AtEnd(wpage, wpos, Count) /\ wnum = Cardinality(FramesOn(wpage)) /\ wnum <= wpos
      /\ status[wpage][wpos] = "RAW"
  BY WriterPlace
<1> USE DEF IInv, Shared, header
<1>2. Frames' /\ SamePlaces
  <2>1. \A q \in Pages, c \in Cells : c < wpos => c <= wpos
    BY <1>1 DEF Cells
  <2> QED BY <1>1, <2>1, TailKept
<1>3. EndsClear'
  <2> SUFFICES ASSUME NEW p \in Pages, NEW c \in Cells, NEW k \in 0 .. Count, AtEnd(p, c, k)
               PROVE  status'[p][c] # "WRITTEN"
    BY <1>2 DEF EndsClear, SamePlaces
  <2>1. CASE p # wpage
    BY <2>1 DEF EndsClear
  <2>2. CASE p = wpage
    <3>1. c = wpos
      <4>1. Count \in 0 .. Count
        BY <1>1
      <4> QED BY <1>1, <2>2, <4>1, OneEnd
    <3> QED BY <3>1, <2>2, <1>1 DEF Cells
  <2> QED BY <2>1, <2>2
<1>4. StartsDivide'
  <2>1. clock \in Nat /\ clock' \in Nat /\ start \in [Pages -> Nat]
    BY DEF Frames, PagesTyped
  <2>2. \A i \in 1 .. Count : log[i].nano \in Nat
    BY FrameTypes DEF Frames
  <2> QED BY <1>2, <2>1, <2>2 DEF SamePlaces, StartsDivide, PageOf
<1>5. PagesFollow'
  BY DEF PagesFollow
<1>7. PagesClosed'
  <2> SUFFICES ASSUME NEW p \in Pages, NEW c \in Cells, status'[p][c] = "PAGE_END"
               PROVE  /\ p + 1 \in inited /\ (\E k \in 0 .. Count : AtEnd(p, c, k))
                      /\ frameNum[p] = Cardinality(FramesOn(p))
    BY <1>2 DEF PagesClosed, SamePlaces
  <2> QED BY DEF PagesClosed
<1>8. PagesLeft'
  <2> SUFFICES ASSUME NEW p \in files, p + 1 \in files
               PROVE  p \in abandoned \/ \E c \in Cells : status'[p][c] = "PAGE_END"
    BY DEF PagesLeft
  <2>1. p # wpage /\ p \in Pages
    BY <1>1 DEF Frames, PagesTyped
  <2>2. p \in abandoned \/ \E c \in Cells : status[p][c] = "PAGE_END"
    BY DEF PagesLeft, Leaving
  <2> QED BY <2>1, <2>2
<1>9. Reading'
  <2>1. files \subseteq files' /\ inited \subseteq inited'
        /\ \A q \in inited' : IF q \in inited THEN start'[q] = start[q] ELSE start'[q] = clock
    BY DEF Frames, PagesTyped
  <2> QED BY <1>2, <2>1, ReadersKept DEF Frames
<1>10. WriterAtPlace'
  <2>1. PICK k \in 0 .. Count : k = Count /\ At(wpage, wpos, k)
    BY <1>1 DEF AtEnd
  <2>2. At(wpage, wpos, k)'
    BY <1>2, <2>1, PlaceKept DEF Frames
  <2>3. Count' = Count /\ (\A i : PageOf(i)' = PageOf(i)) /\ wnum = Cardinality({i \in 1 .. k : PageOf(i) = wpage})
    BY <1>1, <1>2, <2>1 DEF SamePlaces, PageOf, FramesOn
  <2>4. wnum' = Cardinality({i \in 1 .. k : PageOf(i)' = wpage'})
    BY <2>3
  <2> QED BY <1>1, <2>1, <2>2, <2>3, <2>4 DEF WriterAtPlace, Leaving
<1> QED BY <1>2, <1>3, <1>4, <1>5, <1>7, <1>8, <1>9, <1>10

LEMMA KeepCopyData == ASSUME IInv, CopyData PROVE IInv'
<1>1. /\ wpc = "data" /\ wfill < wlen /\ wfill' = wfill + 1
      /\ status' = [status EXCEPT ![wpage][wpos + wfill] = "WRITTEN"]
      /\ body' = [body EXCEPT ![wpage][wpos + wfill] = [length |-> 1, nano |-> 0]]
      /\ UNCHANGED <<header, clock, log, wpc, wpage, wpos, wnum, wlen, wnew, abandoned, reader>>
  BY DEF CopyData
<1>2. /\ wpage \in Pages /\ wpos \in Cells /\ status[wpage][wpos] = "RAW" /\ wpos + Headroom < PageSize
      /\ wlen \in Lengths /\ wlen \in Nat /\ wlen <= Headroom
  BY <1>1, WriterPlace, Lengthy
<1>3. wfill \in 1 .. wlen /\ wfill + 1 \in 1 .. wlen /\ wfill + 1 \in 0 .. Headroom
      /\ wpos + wfill \in Cells /\ wpos + wfill > wpos
  <2>1. wfill \in 1 .. wlen
    BY <1>1 DEF IInv, Writing, WriterFrame
  <2> QED BY <2>1, <1>1, <1>2, JournalAssumption DEF Cells
<1>4. PagesTyped /\ "WRITTEN" \in Statuses /\ [length |-> 1, nano |-> 0] \in Cell
  BY JournalAssumption DEF IInv, Shared, Frames, Statuses, Cell
<1>d. PICK d \in Cells : d = wpos + wfill
  BY <1>3
<1>5. /\ status' \in [Pages -> [Cells -> Statuses]] /\ status'[wpage][d] = "WRITTEN"
      /\ \A q \in Pages, c \in Cells : (q # wpage \/ c # d) => status'[q][c] = status[q][c]
  <2>1. status' = [status EXCEPT ![wpage][d] = "WRITTEN"] /\ wpage \in Pages /\ "WRITTEN" \in Statuses
    BY <1>1, <1>2, <1>4, <1>d
  <2>2. status \in [Pages -> [Cells -> Statuses]]
    BY <1>4 DEF PagesTyped
  <2> QED BY ONLY <2>1, <2>2
<1>6. /\ body' \in [Pages -> [Cells -> Cell]]
      /\ \A q \in Pages, c \in Cells : (q # wpage \/ c # d) => body'[q][c] = body[q][c]
  <2>1. PICK x \in Cell : x = [length |-> 1, nano |-> 0]
    BY <1>4
  <2>2. body' = [body EXCEPT ![wpage][d] = x] /\ wpage \in Pages
    BY <1>1, <1>2, <1>d, <2>1
  <2>3. body \in [Pages -> [Cells -> Cell]]
    BY <1>4 DEF PagesTyped
  <2> QED BY ONLY <2>2, <2>3
<1>7. PagesTyped'
  BY <1>1, <1>4, <1>5, <1>6 DEF PagesTyped, header
<1>8. /\ \A q \in Pages, c \in Cells : (q # wpage \/ c < wpos) => body'[q][c] = body[q][c]
      /\ \A q \in Pages, c \in Cells : (q # wpage \/ c <= wpos) => status'[q][c] = status[q][c]
      /\ \A q \in Pages, c \in Cells : status'[q][c] = "PAGE_END" => status[q][c] = "PAGE_END"
  <2>1. \A c \in Cells : (c < wpos \/ c <= wpos) => c # d
    BY <1>2, <1>3, <1>d DEF Cells
  <2> QED BY <2>1, <1>5, <1>6
<1>9. clock' >= clock
  BY <1>1, <1>4 DEF PagesTyped
<1>10. Shared' /\ PagesLeft' /\ Reading' /\ WriterAtPlace'
  BY <1>1, <1>7, <1>8, <1>9, TailStore
<1>11. WriterTyped'
  BY <1>1, <1>3 DEF WriterTyped, IInv, Writing
<1>12. WriterFrame'
  <2>1. status'[wpage][wpos] = "RAW"
    BY <1>2, <1>8 DEF Cells
  <2> QED BY <1>1, <1>2, <1>3, <2>1 DEF WriterFrame, IInv, Writing
<1> QED BY <1>10, <1>11, <1>12 DEF IInv, Writing

LEMMA KeepSetHeader == ASSUME IInv, SetHeader PROVE IInv'
<1>1. /\ wpc = "data" /\ clock' = clock + 1 /\ wpc' = "mark"
      /\ body' = [body EXCEPT ![wpage][wpos] = [length |-> wlen, nano |-> clock + 1]]
      /\ UNCHANGED <<header, status, log, wpage, wpos, wnum, wlen, wfill, wnew, abandoned, reader>>
  BY DEF SetHeader
<1>2. /\ wpage \in Pages /\ wpos \in Cells /\ status[wpage][wpos] = "RAW" /\ wpos + Headroom < PageSize
      /\ wlen \in Lengths /\ wlen \in Nat /\ wlen <= Headroom /\ wlen >= 1
  BY <1>1, WriterPlace, Lengthy
<1>3. PagesTyped /\ clock \in Nat /\ clock < MaxTime
  BY <1>1, <1>2 DEF IInv, Shared, Frames, PagesTyped, Writing, WriterFrame
<1>4. [length |-> wlen, nano |-> clock + 1] \in Cell /\ clock + 1 \in 1 .. MaxTime + 1
  BY <1>2, <1>3, JournalAssumption DEF Cell
<1>5. /\ body' \in [Pages -> [Cells -> Cell]] /\ body'[wpage][wpos] = [length |-> wlen, nano |-> clock + 1]
      /\ \A q \in Pages, c \in Cells : (q # wpage \/ c # wpos) => body'[q][c] = body[q][c]
  <2> DEFINE x == [length |-> wlen, nano |-> clock + 1]
  <2>1. x \in Cell /\ body' = [body EXCEPT ![wpage][wpos] = x]
    BY <1>1, <1>4
  <2>b. body \in [Pages -> [Cells -> Cell]] /\ wpage \in Pages /\ wpos \in Cells
    BY <1>2, <1>3 DEF PagesTyped
  <2> HIDE DEF x
  <2>2. /\ body' \in [Pages -> [Cells -> Cell]] /\ body'[wpage][wpos] = x
        /\ \A q \in Pages, c \in Cells : (q # wpage \/ c # wpos) => body'[q][c] = body[q][c]
    BY ONLY <2>1, <2>b
  <2> QED BY ONLY <2>2 DEF x
<1>6. PagesTyped'
  BY <1>1, <1>3, <1>4, <1>5 DEF PagesTyped, header
<1>7. /\ \A q \in Pages, c \in Cells : (q # wpage \/ c < wpos) => body'[q][c] = body[q][c]
      /\ \A q \in Pages, c \in Cells : (q # wpage \/ c <= wpos) => status'[q][c] = status[q][c]
      /\ \A q \in Pages, c \in Cells : status'[q][c] = "PAGE_END" => status[q][c] = "PAGE_END"
  <2>1. \A c \in Cells : c < wpos => c # wpos
    BY <1>2 DEF Cells
  <2> QED BY <2>1, <1>1, <1>5
<1>8. clock' >= clock
  BY <1>1, <1>3
<1>9. Shared' /\ PagesLeft' /\ Reading' /\ WriterAtPlace' /\ SamePlaces
  BY <1>1, <1>6, <1>7, <1>8, TailStore
<1>10. WriterTyped'
  BY <1>1 DEF WriterTyped, IInv, Writing
<1>11. (\A p \in Pages : start[p] < clock + 1) /\ \A i \in 1 .. Count : log[i].nano < clock + 1
  <2>1. (\A p \in Pages : start[p] <= clock) /\ \A i \in 1 .. Count : log[i].nano <= clock
    BY DEF IInv, Shared, StartsDivide
  <2>2. (\A p \in Pages : start[p] \in Nat) /\ \A i \in 1 .. Count : log[i].nano \in Nat
    BY <1>3, FrameTypes DEF PagesTyped
  <2> QED BY <2>1, <2>2, <1>3
<1>12. WriterFrame'
  <2>1. clock' <= MaxTime
    BY <1>1, <1>3, JournalAssumption
  <2> QED BY <2>1, <1>1, <1>2, <1>5, <1>9, <1>11 DEF WriterFrame, SamePlaces, header
<1> QED BY <1>9, <1>10, <1>12 DEF IInv, Writing

LEMMA KeepClearNextEntry == ASSUME IInv, ClearNextEntry PROVE IInv'
<1>1. /\ wpc = "mark" /\ wpc' = "commit" /\ status' = [status EXCEPT ![wpage][wpos + wlen] = "RAW"]
      /\ UNCHANGED <<header, body, clock, log, wpage, wpos, wnum, wlen, wfill, wnew, abandoned, reader>>
  BY DEF ClearNextEntry
<1>2. /\ wpage \in Pages /\ wpos \in Cells /\ status[wpage][wpos] = "RAW" /\ wpos + Headroom < PageSize
      /\ wlen \in Lengths /\ wpos + wlen \in Cells /\ wpos + wlen > wpos
  BY <1>1, WriterPlace
<1>3. PagesTyped /\ "RAW" \in Statuses /\ clock' >= clock
  BY <1>1 DEF IInv, Shared, Frames, Statuses, PagesTyped
<1>4. /\ status' \in [Pages -> [Cells -> Statuses]] /\ status'[wpage][wpos + wlen] = "RAW"
      /\ \A q \in Pages, c \in Cells : (q # wpage \/ c # wpos + wlen) => status'[q][c] = status[q][c]
  <2>1. status' = [status EXCEPT ![wpage][wpos + wlen] = "RAW"] /\ wpage \in Pages /\ wpos + wlen \in Cells
    BY <1>1, <1>2
  <2>2. status \in [Pages -> [Cells -> Statuses]] /\ "RAW" \in Statuses
    BY <1>3 DEF PagesTyped
  <2>3. PICK d \in Cells : d = wpos + wlen
    BY <2>1
  <2>4. status' = [status EXCEPT ![wpage][d] = "RAW"]
    BY <2>1, <2>3
  <2>5. /\ status' \in [Pages -> [Cells -> Statuses]] /\ status'[wpage][d] = "RAW"
        /\ \A q \in Pages, c \in Cells : (q # wpage \/ c # d) => status'[q][c] = status[q][c]
    BY ONLY <2>1, <2>2, <2>4
  <2> QED BY ONLY <2>3, <2>5
<1>5. PagesTyped'
  BY <1>1, <1>3, <1>4 DEF PagesTyped, header
<1>6. /\ \A q \in Pages, c \in Cells : (q # wpage \/ c < wpos) => body'[q][c] = body[q][c]
      /\ \A q \in Pages, c \in Cells : (q # wpage \/ c <= wpos) => status'[q][c] = status[q][c]
      /\ \A q \in Pages, c \in Cells : status'[q][c] = "PAGE_END" => status[q][c] = "PAGE_END"
  <2>1. \A c \in Cells : c <= wpos => c # wpos + wlen
    BY <1>2 DEF Cells
  <2> QED BY <2>1, <1>1, <1>4
<1>7. Shared' /\ PagesLeft' /\ Reading' /\ WriterAtPlace' /\ SamePlaces
  BY <1>1, <1>3, <1>5, <1>6, TailStore
<1>8. WriterTyped'
  BY <1>1 DEF WriterTyped, IInv, Writing
<1>9. WriterFrame'
  <2>1. status'[wpage][wpos] = "RAW"
    BY <1>2, <1>6 DEF Cells
  <2> QED BY <1>1, <1>2, <1>4, <1>7, <2>1 DEF WriterFrame, SamePlaces, header, IInv, Writing
<1> QED BY <1>7, <1>8, <1>9 DEF IInv, Writing

(***************************************************************************)
(* The frame is marked: the log gets it as its last one.                   *)
(***************************************************************************)
Appended(n) ==
  /\ n = Count + 1 /\ Count' = n
  /\ \A i \in 1 .. Count : /\ (log[i].nano)' = log[i].nano /\ PageOf(i)' = PageOf(i) /\ PosOf(i)' = PosOf(i)
                           /\ SizeOf(i)' = SizeOf(i) /\ EndOf(i)' = EndOf(i)
  /\ PageOf(n)' = wpage /\ PosOf(n)' = wpos /\ SizeOf(n)' = wlen /\ EndOf(n)' = wpos + wlen
  /\ (log[n].nano)' = clock

LEMMA CommitAppends ==
  ASSUME IInv, Commit, NEW n, n = Count + 1
  PROVE  /\ Appended(n) /\ PagesTyped' /\ status'[wpage][wpos] = "WRITTEN"
         /\ \A q \in Pages, c \in Cells : (q # wpage \/ c # wpos) => status'[q][c] = status[q][c]
<1>1. /\ wpc = "commit" /\ status' = [status EXCEPT ![wpage][wpos] = "WRITTEN"]
      /\ log' = Append(log, [nano |-> body[wpage][wpos].nano, page |-> wpage, pos |-> wpos])
      /\ UNCHANGED <<header, body, clock>>
  BY DEF Commit
<1>2. wpage \in Pages /\ wpos \in Cells /\ Count \in Nat /\ wlen \in Lengths
  BY <1>1, WriterPlace
<1>3. PagesTyped /\ body[wpage][wpos] = [length |-> wlen, nano |-> clock] /\ clock \in 1 .. MaxTime
  BY <1>1 DEF IInv, Shared, Frames, Writing, WriterFrame, PagesTyped
<1>4. PICK f \in Place : f = [nano |-> clock, page |-> wpage, pos |-> wpos]
  BY <1>2, <1>3 DEF Place
<1>5. log' = Append(log, f) /\ f.nano = clock /\ f.page = wpage /\ f.pos = wpos
  BY <1>1, <1>3, <1>4
<1>6. log \in Seq(Place) /\ log' \in Seq(Place) /\ Len(log') = Len(log) + 1 /\ log'[Len(log) + 1] = f
      /\ \A i \in 1 .. Len(log) : log'[i] = log[i]
  BY <1>3, <1>5 DEF PagesTyped
<1>7. "WRITTEN" \in Statuses
  BY DEF Statuses
<1>8. /\ status' \in [Pages -> [Cells -> Statuses]] /\ status'[wpage][wpos] = "WRITTEN"
      /\ \A q \in Pages, c \in Cells : (q # wpage \/ c # wpos) => status'[q][c] = status[q][c]
  <2>1. wpage \in Pages /\ wpos \in Cells /\ status' = [status EXCEPT ![wpage][wpos] = "WRITTEN"]
    BY <1>1, <1>2, <1>3
  <2>2. status \in [Pages -> [Cells -> Statuses]] /\ "WRITTEN" \in Statuses
    BY <1>3, <1>7 DEF PagesTyped
  <2> QED BY ONLY <2>1, <2>2
<1>9. PagesTyped'
  BY <1>1, <1>3, <1>6, <1>8 DEF PagesTyped, header
<1>10. Count' = n /\ log'[n] = f /\ \A i \in 1 .. Count : log'[i] = log[i]
  BY <1>6 DEF Count
<1>11. ASSUME NEW i \in 1 .. Count
       PROVE  /\ (log[i].nano)' = log[i].nano /\ PageOf(i)' = PageOf(i) /\ PosOf(i)' = PosOf(i)
              /\ SizeOf(i)' = SizeOf(i) /\ EndOf(i)' = EndOf(i)
  BY <1>1, <1>10 DEF PageOf, PosOf, SizeOf, EndOf
<1>12. /\ PageOf(n)' = wpage /\ PosOf(n)' = wpos /\ (log[n].nano)' = clock
  BY <1>5, <1>10 DEF PageOf, PosOf
<1>13. SizeOf(n)' = wlen /\ EndOf(n)' = wpos + wlen
  BY <1>1, <1>3, <1>12 DEF SizeOf, EndOf
<1> QED BY <1>8, <1>9, <1>10, <1>11, <1>12, <1>13 DEF Appended

LEMMA AppendFrames ==
  ASSUME IInv, Commit, NEW n, Appended(n)
  PROVE  Frames'
<1> USE DEF IInv, Shared
<1>0. wpc = "commit" /\ UNCHANGED <<header, body, clock>>
  BY DEF Commit
<1>1. /\ wpage \in Pages /\ wpos \in Cells /\ wpage \in inited /\ Count \in Nat /\ AtEnd(wpage, wpos, Count)
      /\ wlen \in Lengths /\ wlen >= 1 /\ wlen \in Nat /\ wpos + wlen \in Cells
  BY <1>0, WriterPlace
<1>2. /\ PagesTyped' /\ status'[wpage][wpos] = "WRITTEN"
      /\ \A q \in Pages, c \in Cells : (q # wpage \/ c # wpos) => status'[q][c] = status[q][c]
  BY CommitAppends DEF Appended
<1>3. /\ body[wpage][wpos] = [length |-> wlen, nano |-> clock] /\ \A i \in 1 .. Count : log[i].nano < clock
  BY <1>0 DEF Writing, WriterFrame
<1>4. n = Count + 1 /\ n \in Nat /\ 1 .. n = (1 .. Count) \cup {n} /\ n \notin 1 .. Count
  BY <1>1 DEF Appended
<1>5. ASSUME NEW i \in 1 .. Count
      PROVE  /\ PageOf(i) \in Pages /\ PosOf(i) \in Cells /\ EndOf(i) \in Nat
             /\ PosOf(i) < EndOf(i) /\ (PageOf(i) < wpage \/ (PageOf(i) = wpage /\ EndOf(i) <= wpos))
             /\ (PageOf(i) # wpage \/ PosOf(i) # wpos)
  <2>1. PageOf(i) \in Pages /\ PosOf(i) \in Cells /\ PosOf(i) < EndOf(i) /\ EndOf(i) \in Nat
    BY FrameTypes, FrameSizes DEF Frames
  <2>2. PageOf(i) < wpage \/ (PageOf(i) = wpage /\ EndOf(i) <= wpos)
    BY <1>1 DEF AtEnd, At
  <2> QED BY <2>1, <2>2, <1>1 DEF Cells, Pages
<1>6. FramesWritten'
  <2>1. ASSUME NEW i \in 1 .. Count
        PROVE  /\ PageOf(i)' \in inited' /\ status'[PageOf(i)'][PosOf(i)'] = "WRITTEN"
               /\ body'[PageOf(i)'][PosOf(i)'].nano = (log[i].nano)'
               /\ SizeOf(i)' \in Lengths /\ EndOf(i)' < PageSize
    BY <1>0, <1>2, <1>5 DEF Appended, Frames, FramesWritten, header
  <2>2. /\ PageOf(n)' \in inited' /\ status'[PageOf(n)'][PosOf(n)'] = "WRITTEN"
        /\ body'[PageOf(n)'][PosOf(n)'].nano = (log[n].nano)'
        /\ SizeOf(n)' \in Lengths /\ EndOf(n)' < PageSize
    BY <1>0, <1>1, <1>2, <1>3, JournalAssumption DEF Appended, header, Cells
  <2> QED BY <2>1, <2>2, <1>4 DEF FramesWritten, Appended
<1>7. FramesOrdered'
  <2> SUFFICES ASSUME NEW j \in 1 .. n, NEW i \in 1 .. j - 1
               PROVE  /\ (log[i].nano)' < (log[j].nano)'
                      /\ PageOf(i)' < PageOf(j)' \/ (PageOf(i)' = PageOf(j)' /\ EndOf(i)' <= PosOf(j)')
    BY DEF FramesOrdered, Appended
  <2>0. i \in 1 .. Count
    BY <1>4, <1>1
  <2>1. CASE j = n
    BY <2>0, <2>1, <1>3, <1>5 DEF Appended
  <2>2. CASE j \in 1 .. Count
    BY <2>0, <2>2 DEF Appended, Frames, FramesOrdered
  <2> QED BY <2>1, <2>2, <1>4
<1>8. FramesDense'
  <2> SUFFICES ASSUME NEW j \in 1 .. n
               PROVE  PosOf(j)' = 0 \/ (j > 1 /\ PageOf(j - 1)' = PageOf(j)' /\ EndOf(j - 1)' = PosOf(j)')
    BY DEF FramesDense, Appended
  <2>1. CASE j = n
    <3>1. wpos = 0 \/ (Count >= 1 /\ PageOf(Count) = wpage /\ EndOf(Count) = wpos)
      BY <1>1 DEF AtEnd, At
    <3>2. ASSUME Count >= 1 PROVE j - 1 \in 1 .. Count /\ j - 1 = Count /\ j > 1
      BY <1>1, <1>4, <2>1, <3>2
    <3> QED BY <3>1, <3>2, <2>1 DEF Appended
  <2>2. CASE j \in 1 .. Count
    <3>1. j > 1 => j - 1 \in 1 .. Count
      BY <1>1, <2>2
    <3>2. PosOf(j) = 0 \/ (j > 1 /\ PageOf(j - 1) = PageOf(j) /\ EndOf(j - 1) = PosOf(j))
      BY <2>2 DEF Frames, FramesDense
    <3> QED BY <2>2, <3>1, <3>2 DEF Appended
  <2> QED BY <2>1, <2>2, <1>4
<1> QED BY <1>2, <1>6, <1>7, <1>8 DEF Frames

(* Places up to the writer's keep their frames; behind the new frame is a place again. *)
LEMMA AppendPlaces ==
  ASSUME IInv, Commit, NEW n, Appended(n)
  PROVE  /\ \A p \in Pages, c \in Cells : \A k \in 0 .. Count :
              (At(p, c, k) /\ (p < wpage \/ (p = wpage /\ c <= wpos))) => At(p, c, k)'
         /\ \A p, c : (p = wpage /\ c = wpos + wlen) => At(p, c, n)'
<1>1. /\ wpage \in Pages /\ wpos \in Cells /\ Count \in Nat /\ AtEnd(wpage, wpos, Count)
      /\ wlen \in Nat /\ wlen >= 1 /\ wpos + wlen > wpos
  BY WriterPlace DEF Commit
<1>2. n = Count + 1 /\ n \in Nat /\ Count' = n
  BY <1>1 DEF Appended
<1>3. ASSUME NEW p \in Pages, NEW c \in Cells, NEW k \in 0 .. Count, At(p, c, k),
             p < wpage \/ (p = wpage /\ c <= wpos)
      PROVE  At(p, c, k)'
  <2>1. ASSUME NEW i \in 1 .. k PROVE PageOf(i)' < p \/ (PageOf(i)' = p /\ EndOf(i)' <= c)
    <3>1. i \in 1 .. Count
      BY <1>1
    <3> QED BY <3>1, <1>3 DEF At, Appended
  <2>2. ASSUME NEW i \in k + 1 .. n PROVE PageOf(i)' > p \/ (PageOf(i)' = p /\ PosOf(i)' >= c)
    <3>1. CASE i = n
      BY <3>1, <1>1, <1>3 DEF Appended, Pages, Cells
    <3>2. CASE i # n
      <4>1. i \in 1 .. Count /\ i \in k + 1 .. Count
        BY <3>2, <1>1, <1>2
      <4> QED BY <4>1, <1>3 DEF At, Appended
    <3> QED BY <3>1, <3>2
  <2>3. c = 0 \/ (k >= 1 /\ PageOf(k)' = p /\ EndOf(k)' = c)
    <3>1. k >= 1 => k \in 1 .. Count
      BY <1>1
    <3> QED BY <3>1, <1>3 DEF At, Appended
  <2>4. k \in 0 .. n
    BY <1>1, <1>2
  <2> QED BY <1>2, <2>1, <2>2, <2>3, <2>4 DEF At
<1>4. ASSUME NEW p, NEW c, p = wpage, c = wpos + wlen PROVE At(p, c, n)'
  <2>1. ASSUME NEW i \in 1 .. n PROVE PageOf(i)' < p \/ (PageOf(i)' = p /\ EndOf(i)' <= c)
    <3>1. CASE i = n
      BY <3>1, <1>1, <1>4 DEF Appended, Pages, Cells
    <3>2. CASE i # n
      <4>1. i \in 1 .. Count
        BY <3>2, <1>1, <1>2
      <4>2. PageOf(i) < wpage \/ (PageOf(i) = wpage /\ EndOf(i) <= wpos)
        BY <4>1, <1>1 DEF AtEnd, At
      <4>3. EndOf(i) \in Nat
        BY <4>1, FrameTypes DEF IInv, Shared, Frames
      <4> QED BY <4>1, <4>2, <4>3, <1>1, <1>4 DEF Appended, Cells
    <3> QED BY <3>1, <3>2
  <2>2. n + 1 .. n = {} /\ n \in 0 .. n /\ n >= 1
    BY <1>1, <1>2
  <2>3. PageOf(n)' = p /\ EndOf(n)' = c
    BY <1>4 DEF Appended
  <2> QED BY <1>2, <2>1, <2>2, <2>3 DEF At
<1> QED BY <1>3, <1>4

(* No place is ahead of the writer. *)
LEMMA PlacesBehindWriter ==
  ASSUME IInv, wpc = "commit", NEW p \in inited, NEW c \in Cells, NEW k \in 0 .. Count, At(p, c, k)
  PROVE  p < wpage \/ (p = wpage /\ c <= wpos)
<1>1. /\ wpage \in Pages /\ wpos \in Cells /\ wpage \in inited /\ wpage + 1 \notin files /\ Count \in Nat
      /\ AtEnd(wpage, wpos, Count) /\ PagesFollow /\ PagesTyped
  BY WriterPlace DEF IInv, Shared, Frames
<1>2. p \in Pages /\ p <= wpage
  BY <1>1, LastIsLast DEF PagesFollow, PagesTyped
<1>3. ASSUME p = wpage PROVE c <= wpos
  <2>1. CASE c = 0
    BY <2>1, <1>1 DEF Cells
  <2>2. CASE c # 0
    <3>1. k \in 1 .. Count /\ PageOf(k) = p /\ EndOf(k) = c
      BY <2>2, <1>1 DEF At
    <3>2. PageOf(k) < wpage \/ (PageOf(k) = wpage /\ EndOf(k) <= wpos)
      BY <3>1, <1>1 DEF AtEnd, At
    <3> QED BY <3>1, <3>2, <1>1, <1>3 DEF Pages
  <2> QED BY <2>1, <2>2
<1> QED BY <1>1, <1>2, <1>3 DEF Pages

LEMMA KeepCommit == ASSUME IInv, Commit PROVE IInv'
<1> PICK n : n = Count + 1
  OBVIOUS
<1> USE DEF IInv, Shared
<1>1. /\ wpc = "commit" /\ wpos' = wpos + wlen /\ wnum' = wnum + 1 /\ wlen' = 0 /\ wfill' = 0 /\ wpc' = "ready"
      /\ UNCHANGED <<header, body, clock, wpage, wnew, abandoned, reader>>
  BY DEF Commit
<1>2. /\ wpage \in Pages /\ wpos \in Cells /\ wpage \in inited /\ wpage + 1 \notin files /\ Count \in Nat
      /\ AtEnd(wpage, wpos, Count) /\ wnum = Cardinality(FramesOn(wpage)) /\ wnum <= wpos
      /\ wlen \in Nat /\ wlen >= 1 /\ wpos + wlen \in Cells /\ wpos + wlen > wpos
  BY <1>1, WriterPlace
<1>3. /\ Appended(n) /\ PagesTyped' /\ status'[wpage][wpos] = "WRITTEN"
      /\ \A q \in Pages, c \in Cells : (q # wpage \/ c # wpos) => status'[q][c] = status[q][c]
  BY CommitAppends
<1>4. Frames'
  BY <1>3, AppendFrames
<1>5. /\ n = Count + 1 /\ n \in Nat /\ Count' = n /\ 1 .. n = (1 .. Count) \cup {n} /\ n \notin 1 .. Count
      /\ \A i \in 1 .. Count : PageOf(i)' = PageOf(i) /\ (log[i].nano)' = log[i].nano
      /\ PageOf(n)' = wpage /\ PosOf(n)' = wpos /\ EndOf(n)' = wpos + wlen /\ (log[n].nano)' = clock
  BY <1>2, <1>3 DEF Appended
<1>6. \A q \in files : q \in Pages /\ q <= wpage
  BY <1>2, LastIsLast DEF PagesFollow, Frames, PagesTyped
<1>7. \A i \in 1 .. Count : PageOf(i) \in Pages /\ PageOf(i) <= wpage
  BY <1>6, FrameTypes DEF Frames, FramesWritten, PagesFollow
<1>8. ASSUME NEW p \in Pages, NEW c \in Cells, NEW k \in 0 .. Count, At(p, c, k),
             p < wpage \/ (p = wpage /\ c <= wpos)
      PROVE  At(p, c, k)'
  BY <1>3, <1>8, AppendPlaces
<1>9. EndsClear'
  <2> SUFFICES ASSUME NEW p \in Pages, NEW c \in Cells, NEW k \in 0 .. n, AtEnd(p, c, k)'
               PROVE  status'[p][c] # "WRITTEN"
    BY <1>5 DEF EndsClear
  <2>1. CASE k = n /\ p = wpage
    <3>1. n \in 1 .. k /\ PageOf(n)' = p
      BY <1>5, <2>1
    <3>2. wpos + wlen <= c
      BY <1>2, <1>5, <2>1, <3>1 DEF AtEnd, At, Pages
    <3>3. c = wpos + wlen
      BY <1>2, <1>5, <2>1, <3>2 DEF AtEnd, At, Cells
    <3>4. status[wpage][wpos + wlen] = "RAW"
      BY <1>1 DEF Writing, WriterFrame
    <3> QED BY <2>1, <3>3, <3>4, <1>2, <1>3 DEF Cells
  <2>2. CASE k = n /\ p # wpage
    <3>1. wpage < p
      BY <1>2, <1>5, <2>2 DEF AtEnd, At, Pages
    <3>2. c = 0
      BY <1>5, <2>2 DEF AtEnd, At
    <3>3. \A i \in 1 .. Count : PageOf(i) < p
      BY <1>2, <1>7, <3>1 DEF Pages
    <3>4. AtEnd(p, c, Count) /\ Count \in 0 .. Count
      BY <3>2, <3>3, <1>2 DEF AtEnd, At
    <3> QED BY <3>4, <2>2, <1>3 DEF EndsClear
  <2>3. CASE k # n
    <3>1. k \in 0 .. Count /\ k < n /\ k + 1 \in 1 .. n /\ n \in k + 1 .. n
      BY <2>3, <1>2, <1>5
    <3>2. PageOf(k + 1)' # p
      BY <3>1, <1>5 DEF AtEnd
    <3>3. \A i \in k + 1 .. Count : PageOf(i) > p \/ (PageOf(i) = p /\ PosOf(i) >= c)
      <4>1. \A i \in k + 1 .. Count : i \in 1 .. Count /\ i \in k + 1 .. n
        BY <3>1, <1>2, <1>5
      <4> QED BY <4>1, <1>3, <1>5 DEF AtEnd, At, Appended
    <3>4. At(p, c, k)
      <4>1. \A i \in 1 .. k : i \in 1 .. Count
        BY <3>1, <1>2
      <4>2. k >= 1 => k \in 1 .. Count
        BY <3>1, <1>2
      <4> QED BY <3>1, <3>3, <4>1, <4>2, <1>3 DEF AtEnd, At, Appended
    <3>5. p # wpage
      <4>1. CASE k = Count
        BY <4>1, <3>2, <1>5
      <4>2. CASE k # Count
        <5>1. k + 1 \in 1 .. Count /\ k + 1 \in k + 1 .. Count
          BY <4>2, <3>1, <1>2
        <5>2. PageOf(k + 1) > p
          BY <5>1, <3>2, <3>3, <1>5
        <5> QED BY <5>1, <5>2, <1>2, <1>7 DEF Pages
      <4> QED BY <4>1, <4>2
    <3>6. AtEnd(p, c, k)
      <4>1. k < Count => k + 1 \in 1 .. Count
        BY <3>1, <1>2
      <4> QED BY <4>1, <3>2, <3>4, <1>5 DEF AtEnd
    <3> QED BY <3>1, <3>5, <3>6, <1>3 DEF EndsClear
  <2> QED BY <2>1, <2>2, <2>3
<1>10. StartsDivide'
  <2>1. \A p \in Pages : start[p] < clock
    BY <1>1 DEF Writing, WriterFrame
  <2>2. \A p \in inited : p \in Pages /\ p <= wpage
    BY <1>6 DEF PagesFollow
  <2>3. clock \in Nat /\ start \in [Pages -> Nat]
    BY DEF Frames, PagesTyped
  <2>4. ASSUME NEW p \in inited, NEW i \in 1 .. n
        PROVE  (PageOf(i)' < p => (log[i].nano)' <= start[p]) /\ (PageOf(i)' >= p => (log[i].nano)' > start[p])
    <3>1. CASE i = n
      BY <3>1, <1>2, <1>5, <2>1, <2>2, <2>3 DEF Pages
    <3>2. CASE i \in 1 .. Count
      BY <3>2, <1>5 DEF StartsDivide
    <3> QED BY <3>1, <3>2, <1>5
  <2>5. \A i \in 1 .. n : (log[i].nano)' <= clock
    <3>1. \A i \in 1 .. Count : (log[i].nano)' <= clock
      BY <1>5 DEF StartsDivide
    <3> QED BY <3>1, <1>5, <2>3
  <2> QED BY <1>1, <1>5, <2>4, <2>5 DEF StartsDivide, header
<1>11. PagesFollow'
  BY <1>1 DEF PagesFollow, header
<1>12. PagesClosed'
  <2> SUFFICES ASSUME NEW p \in Pages, NEW c \in Cells, status'[p][c] = "PAGE_END"
               PROVE  /\ p + 1 \in inited /\ (\E k \in 0 .. n : AtEnd(p, c, k)')
                      /\ frameNum[p] = Cardinality(FramesOn(p)')
    BY <1>1, <1>5 DEF PagesClosed, header
  <2>1. status[p][c] = "PAGE_END"
    BY <1>3
  <2>2. p + 1 \in inited /\ frameNum[p] = Cardinality(FramesOn(p))
    BY <2>1 DEF PagesClosed
  <2>3. PICK k \in 0 .. Count : AtEnd(p, c, k)
    BY <2>1 DEF PagesClosed
  <2>4. p < wpage
    <3>1. p + 1 <= wpage
      BY <2>2, <1>6 DEF PagesFollow
    <3> QED BY <3>1, <1>2 DEF Pages
  <2>5. At(p, c, k)'
    BY <2>3, <2>4, <1>8 DEF AtEnd
  <2>6. PageOf(k + 1)' # p
    <3>1. CASE k = Count
      BY <3>1, <2>4, <1>2, <1>5 DEF Pages
    <3>2. CASE k # Count
      <4>1. k < Count /\ k + 1 \in 1 .. Count
        BY <3>2, <1>2
      <4> QED BY <4>1, <2>3, <1>5 DEF AtEnd
    <3> QED BY <3>1, <3>2
  <2>7. k \in 0 .. n /\ AtEnd(p, c, k)'
    BY <2>5, <2>6, <1>2, <1>5 DEF AtEnd
  <2>8. FramesOn(p)' = FramesOn(p)
    BY <2>4, <1>2, <1>5 DEF FramesOn, Pages
  <2> QED BY <2>2, <2>7, <2>8
<1>13. PagesLeft'
  <2> SUFFICES ASSUME NEW p \in files, p + 1 \in files
               PROVE  p \in abandoned \/ \E c \in Cells : status'[p][c] = "PAGE_END"
    BY <1>1 DEF PagesLeft, header
  <2>1. p # wpage /\ p \in Pages
    BY <1>2, <1>6
  <2>2. p \in abandoned \/ \E c \in Cells : status[p][c] = "PAGE_END"
    BY <1>1 DEF PagesLeft, Leaving
  <2> QED BY <2>1, <2>2, <1>3
<1>14. Reading'
  <2>1. ReadersTyped'
    BY <1>1 DEF Reading, ReadersTyped, reader
  <2>2. ASSUME NEW r \in Readers PROVE ReaderAtPlace(r)'
    <3>1. ReaderAtPlace(r) /\ rpage[r] \in Nat /\ rpos[r] \in Cells
      BY JournalAssumption DEF Reading, ReadersTyped
    <3>2. ASSUME rpage[r] \in inited, NEW k \in 0 .. Count, At(rpage[r], rpos[r], k)
          PROVE  k \in 0 .. n /\ At(rpage[r], rpos[r], k)'
      <4>1. PICK p \in Pages : p = rpage[r] /\ p <= wpage
        BY <3>2, <1>6 DEF PagesFollow
      <4>2. PICK c \in Cells : c = rpos[r]
        BY <3>1
      <4>3. p < wpage \/ (p = wpage /\ c <= wpos)
        BY <3>2, <4>1, <4>2, <1>1, PlacesBehindWriter
      <4>4. At(p, c, k)'
        BY <3>2, <4>1, <4>2, <4>3, <1>8
      <4>5. rpage'[r] = p /\ rpos'[r] = c
        BY <1>1, <4>1, <4>2 DEF reader
      <4>6. At(rpage[r], rpos[r], k)'
        BY <4>4, <4>5 DEF At
      <4> QED BY <4>6, <1>2, <1>5
    <3>3. ASSUME rpc[r] \in {"load", "pass"}
          PROVE  rtime[r] <= clock + 1 /\ \A q \in inited : q > rpage[r] => rtime[r] <= start[q] + 1
      BY <3>1, <3>3 DEF ReaderAtPlace
    <3>4. ASSUME rpc[r] = "load"
          PROVE  /\ rpage[r] = 1 \/ rpage[r] \in files
                 /\ \A i \in 1 .. n : PageOf(i)' < rpage[r] => (r \in rlate \/ (log[i].nano)' < rtime[r])
      <4>1. rpage[r] = 1 \/ rpage[r] \in files
        BY <3>1, <3>4 DEF ReaderAtPlace
      <4>2. ~(wpage < rpage[r])
        BY <4>1, <1>2, <1>6 DEF Pages
      <4>3. \A i \in 1 .. Count : PageOf(i) < rpage[r] => (r \in rlate \/ log[i].nano < rtime[r])
        BY <3>1, <3>4 DEF ReaderAtPlace
      <4> QED BY <4>1, <4>2, <4>3, <1>5
    <3>5. ASSUME rpc[r] = "pass"
          PROVE  rpage[r] \in inited /\ \E k \in 0 .. n : At(rpage[r], rpos[r], k)' /\ Sought(r, k)'
      <4>1. rpage[r] \in inited
        BY <3>1, <3>5 DEF ReaderAtPlace
      <4>2. PICK k \in 0 .. Count : At(rpage[r], rpos[r], k) /\ Sought(r, k)
        BY <3>1, <3>5 DEF ReaderAtPlace
      <4>3. \A i \in 1 .. k : i \in 1 .. Count
        BY <1>2
      <4>4. Sought(r, k)'
        BY <1>1, <1>5, <4>2, <4>3 DEF Sought, reader
      <4> QED BY <3>2, <4>1, <4>2, <4>4
    <3>6. ASSUME rpc[r] \in {"read", "take"}
          PROVE  rpage[r] \in inited /\ \E k \in 0 .. n :
                   At(rpage[r], rpos[r], k)' /\ (rpc[r] = "take" => k < n /\ PageOf(k + 1)' = rpage[r])
      <4>1. rpage[r] \in inited
        BY <3>1, <3>6 DEF ReaderAtPlace
      <4>2. PICK k \in 0 .. Count : At(rpage[r], rpos[r], k) /\ (rpc[r] = "take" => k < Count /\ PageOf(k + 1) = rpage[r])
        BY <3>1, <3>6 DEF ReaderAtPlace
      <4>3. k < Count => k < n /\ k + 1 \in 1 .. Count
        BY <1>2, <1>5
      <4> QED BY <3>2, <4>1, <4>2, <4>3, <1>5
    <3> QED BY <1>1, <1>5, <3>3, <3>4, <3>5, <3>6 DEF ReaderAtPlace, reader, header
  <2> QED BY <2>1, <2>2 DEF Reading
<1>15. WriterTyped'
  BY <1>1, <1>2, JournalAssumption DEF WriterTyped, Writing, Cells
<1>16. WriterAtPlace'
  <2>1. FramesOn(wpage)' = FramesOn(wpage) \cup {n} /\ IsFiniteSet(FramesOn(wpage)) /\ n \notin FramesOn(wpage)
    <3>1. FramesOn(wpage) \in SUBSET (1 .. Count)
      BY DEF FramesOn
    <3>2. FramesOn(wpage)' = FramesOn(wpage) \cup {n}
      BY <1>1, <1>5 DEF FramesOn
    <3> QED BY <3>1, <3>2, <1>2, <1>5, CountUpTo, FS_Subset
  <2>2. wnum' = Cardinality(FramesOn(wpage)')
    BY <2>1, <1>1, <1>2, FS_AddElement
  <2>3. At(wpage, wpos, n)'
    <3>1. PICK p, c : p = wpage /\ c = wpos + wlen
      OBVIOUS
    <3>2. At(p, c, n)'
      BY <3>1, <1>3, AppendPlaces
    <3>3. wpage' = p /\ wpos' = c
      BY <3>1, <1>1
    <3> QED BY <3>2, <3>3 DEF At
  <2>4. wnum' = Cardinality({i \in 1 .. n : PageOf(i)' = wpage'})
    BY <2>2, <1>5 DEF FramesOn
  <2>5. wnum' <= wpos' /\ n \in 0 .. n
    BY <1>1, <1>2, <1>5 DEF Cells, WriterTyped, Writing
  <2>6. wpage' \in inited' /\ wpage' + 1 \notin files'
    BY <1>1, <1>2 DEF header
  <2> QED BY <1>1, <1>5, <2>3, <2>4, <2>5, <2>6 DEF WriterAtPlace, Leaving
<1>17. WriterFrame'
  BY <1>1 DEF WriterFrame
<1> QED BY <1>4, <1>9, <1>10, <1>11, <1>12, <1>13, <1>14, <1>15, <1>16, <1>17 DEF Writing

-----------------------------------------------------------------------------
(* The readers.                                                            *)

(* A step of one reader leaves everything else as it is. *)
OnlyReader(r) ==
  /\ UNCHANGED <<header, cellVars, clock, log, writer>>
  /\ \A s \in Readers \ {r} :
       /\ rpc'[s] = rpc[s] /\ rpage'[s] = rpage[s] /\ rpos'[s] = rpos[s] /\ rtime'[s] = rtime[s] /\ rlast'[s] = rlast[s]
       /\ (s \in rlate' <=> s \in rlate)

LEMMA ReaderStep ==
  ASSUME IInv, NEW r \in Readers, OnlyReader(r), ReadersTyped', ReaderAtPlace(r)'
  PROVE  IInv'
<1> USE DEF OnlyReader
<1>1. Shared' /\ SamePlaces
  BY SharedSame DEF IInv
<1>2. PagesLeft'
  BY DEF PagesLeft, Leaving, IInv, header, cellVars, writer
<1>3. Count' = Count /\ \A i : PageOf(i)' = PageOf(i) /\ PosOf(i)' = PosOf(i) /\ (log[i].nano)' = log[i].nano
  BY DEF Count, PageOf, PosOf
<1>4. \A i : EndOf(i)' = EndOf(i)
  BY <1>3 DEF EndOf, SizeOf, cellVars
<1>5. Writing'
  <2>1. WriterTyped'
    BY DEF WriterTyped, IInv, Writing, writer
  <2>2. AtEnd(wpage, wpos, Count)' <=> AtEnd(wpage, wpos, Count)
    BY <1>3, <1>4 DEF AtEnd, At, writer
  <2>3. \A k : At(wpage, wpos, k)' <=> At(wpage, wpos, k)
    BY <1>3, <1>4 DEF At, writer
  <2>4. FramesOn(wpage)' = FramesOn(wpage)
    BY <1>3 DEF FramesOn, writer
  <2>5. WriterAtPlace'
    BY <1>3, <2>2, <2>3, <2>4 DEF WriterAtPlace, Leaving, IInv, Writing, writer, header
  <2>6. WriterFrame'
    BY <1>3 DEF WriterFrame, IInv, Writing, writer, header, cellVars
  <2> QED BY <2>1, <2>5, <2>6 DEF Writing
<1>6. ASSUME NEW s \in Readers, s # r PROVE ReaderAtPlace(s)'
  <2>1. ReaderAtPlace(s)
    BY DEF IInv, Reading
  <2>2. /\ rpc'[s] = rpc[s] /\ rpage'[s] = rpage[s] /\ rpos'[s] = rpos[s] /\ rtime'[s] = rtime[s]
        /\ (s \in rlate' <=> s \in rlate)
    BY <1>6
  <2>3. \A k : At(rpage[s], rpos[s], k)' <=> At(rpage[s], rpos[s], k)
    BY <1>3, <1>4, <2>2 DEF At
  <2>4. \A k : Sought(s, k)' <=> Sought(s, k)
    BY <1>3, <2>2 DEF Sought
  <2> QED BY <1>3, <2>1, <2>2, <2>3, <2>4 DEF ReaderAtPlace, header
<1> QED BY <1>1, <1>2, <1>5, <1>6 DEF IInv, Reading

(* A reader at its place after a step that moves it. *)
LEMMA ReaderMoved ==
  ASSUME UNCHANGED <<log, body>>, NEW r \in Readers, NEW p, NEW c, rpage'[r] = p, rpos'[r] = c, NEW k, At(p, c, k)
  PROVE  At(rpage[r], rpos[r], k)'
<1>1. Count' = Count /\ \A i : PageOf(i)' = PageOf(i) /\ PosOf(i)' = PosOf(i) /\ EndOf(i)' = EndOf(i)
  BY DEF Count, PageOf, PosOf, EndOf, SizeOf
<1> QED BY <1>1 DEF At

LEMMA PageSought ==
  ASSUME PagesFollow, PagesTyped, NEW t \in Nat
  PROVE  /\ PageWithTime(t) = 1 \/ (PageWithTime(t) \in files /\ start[PageWithTime(t)] < t)
         /\ \A q \in files : q > PageWithTime(t) => t <= start[q]
<1> DEFINE earlier == {p \in files : start[p] < t}
<1>0. start \in [Pages -> Nat] /\ files \subseteq Pages
  BY DEF PagesTyped
<1>1. CASE earlier = {}
  <2>1. PageWithTime(t) = 1
    BY <1>1 DEF PageWithTime
  <2>2. ASSUME NEW q \in files PROVE ~(start[q] < t)
    BY <1>1
  <2>3. ASSUME NEW q \in files PROVE t <= start[q]
    BY <1>0, <2>2
  <2> QED BY <2>1, <2>3
<1>2. CASE earlier # {}
  <2>1. earlier \in SUBSET Nat /\ MaxPage \in Nat /\ \A q \in earlier : q <= MaxPage
    <3>1. Pages \in SUBSET Nat /\ MaxPage \in Nat /\ \A q \in Pages : q <= MaxPage
      BY JournalAssumption DEF Pages
    <3>2. earlier \subseteq Pages
      BY <1>0
    <3> QED BY ONLY <3>1, <3>2
  <2>2. \E m \in earlier : \A q \in earlier : q <= m
    BY <1>2, <2>1, Largest
  <2>3. PageWithTime(t) = CHOOSE m \in earlier : \A q \in earlier : q <= m
    BY <1>2 DEF PageWithTime
  <2>4. PageWithTime(t) \in earlier /\ \A q \in earlier : q <= PageWithTime(t)
    BY <2>2, <2>3
  <2>5. ASSUME NEW q \in files, q > PageWithTime(t) PROVE t <= start[q]
    <3>1. q \notin earlier
      BY <2>1, <2>4, <2>5
    <3>2. ~(start[q] < t)
      BY <3>1
    <3> QED BY <1>0, <3>2
  <2> QED BY <2>4, <2>5
<1> QED BY <1>1, <1>2

LEMMA KeepSeek == ASSUME IInv, NEW r \in Readers, NEW t \in Times, Seek(r, t) PROVE IInv'
<1>1. /\ t <= clock + 1 /\ rpage' = [rpage EXCEPT ![r] = PageWithTime(t)] /\ rtime' = [rtime EXCEPT ![r] = t]
      /\ rlate' = IF PageWithTime(t) \in inited \cup {1} THEN rlate ELSE rlate \cup {r}
      /\ rpc' = [rpc EXCEPT ![r] = "load"]
      /\ UNCHANGED <<header, cellVars, clock, log, writer, rpos, rlast>>
  BY DEF Seek
<1>2. ReadersTyped /\ PagesTyped /\ PagesFollow /\ StartsDivide /\ Frames
  BY DEF IInv, Shared, Frames, Reading
<1>3. t \in Nat /\ MaxPage >= 1 /\ MaxPage \in Nat
  BY JournalAssumption DEF Times
<1>4. /\ PageWithTime(t) = 1 \/ (PageWithTime(t) \in files /\ start[PageWithTime(t)] < t)
      /\ \A q \in files : q > PageWithTime(t) => t <= start[q]
  BY <1>2, <1>3, PageSought
<1>5. PageWithTime(t) \in Pages /\ PageWithTime(t) \in 0 .. MaxPage
  <2>1. files \subseteq Pages /\ 1 \in Pages /\ Pages \subseteq 0 .. MaxPage
    BY <1>2, <1>3 DEF PagesTyped, Pages
  <2> QED BY ONLY <2>1, <1>4
<1>6. ReadersTyped'
  BY <1>1, <1>2, <1>5 DEF ReadersTyped
<1>7. OnlyReader(r)
  BY <1>1, <1>2 DEF OnlyReader, ReadersTyped
<1>8. rpc'[r] = "load" /\ rpage'[r] = PageWithTime(t) /\ rtime'[r] = t
  BY <1>1, <1>2 DEF ReadersTyped
<1>9. \A q \in inited : q > PageWithTime(t) => t <= start[q] + 1
  <2>1. start \in [Pages -> Nat] /\ inited \subseteq files /\ inited \subseteq Pages
    BY <1>2 DEF PagesTyped, PagesFollow
  <2>2. ASSUME NEW q \in inited, q > PageWithTime(t) PROVE t <= start[q] + 1
    <3>1. t <= start[q] /\ start[q] \in Nat
      BY <2>1, <2>2, <1>4
    <3> QED BY <3>1, <1>3
  <2> QED BY <2>2
<1>10. ASSUME NEW i \in 1 .. Count, PageOf(i) < PageWithTime(t) PROVE r \in rlate' \/ log[i].nano < t
  <2>1. PageOf(i) \in Pages /\ log[i].nano \in Nat
    BY <1>2, FrameTypes
  <2>2. PageWithTime(t) # 1 /\ start[PageWithTime(t)] < t
    BY <2>1, <1>4, <1>10 DEF Pages
  <2>3. CASE PageWithTime(t) \in inited
    <3>1. log[i].nano <= start[PageWithTime(t)] /\ start[PageWithTime(t)] \in Nat
      BY <2>3, <1>2, <1>5, <1>10 DEF StartsDivide, PagesTyped
    <3> QED BY <3>1, <2>1, <2>2, <1>3
  <2>4. CASE PageWithTime(t) \notin inited
    BY <2>2, <2>4, <1>1
  <2> QED BY <2>3, <2>4
<1>11. ReaderAtPlace(r)'
  <2>1. Count' = Count /\ \A i : PageOf(i)' = PageOf(i) /\ (log[i].nano)' = log[i].nano
    BY <1>1 DEF Count, PageOf
  <2> QED BY <2>1, <1>1, <1>4, <1>8, <1>9, <1>10 DEF ReaderAtPlace, header
<1> QED BY <1>6, <1>7, <1>11, ReaderStep

LEMMA KeepSeekLoad == ASSUME IInv, NEW r \in Readers, SeekLoad(r) PROVE IInv'
<1>1. rpc[r] = "load" /\ rpos' = [rpos EXCEPT ![r] = 0] /\ UNCHANGED <<header, cellVars, clock, log, writer, rlast>>
  BY DEF SeekLoad
<1>2. ReadersTyped /\ PagesTyped /\ Frames /\ ReaderAtPlace(r) /\ 0 \in Cells /\ 0 \in Times /\ 0 \in 0 .. MaxPage
  BY JournalAssumption DEF IInv, Shared, Frames, Reading, Cells, Times
<1>3. CASE rpage[r] \in inited
  <2>1. rpc' = [rpc EXCEPT ![r] = "pass"] /\ UNCHANGED <<rpage, rtime, rlate>>
    BY <1>3 DEF SeekLoad
  <2>2. ReadersTyped'
    BY <1>1, <1>2, <2>1 DEF ReadersTyped
  <2>3. OnlyReader(r)
    BY <1>1, <1>2, <2>1 DEF OnlyReader, ReadersTyped
  <2>4. PICK p \in Pages : p = rpage[r]
    BY <1>2, <1>3 DEF PagesTyped
  <2>5. PICK k \in 0 .. Count : At(p, 0, k)
    BY <1>2, PageBegins DEF Pages
  <2>6. Sought(r, k)
    <3> SUFFICES ASSUME r \notin rlate, NEW i \in 1 .. k PROVE log[i].nano < rtime[r]
      BY DEF Sought
    <3>1. i \in 1 .. Count /\ (PageOf(i) < p \/ (PageOf(i) = p /\ EndOf(i) <= 0))
      BY <1>2, <2>5, FrameTypes DEF At
    <3>2. EndOf(i) \in Nat /\ EndOf(i) > 0
      BY <3>1, <1>2, FrameTypes, FrameSizes
    <3>3. PageOf(i) < rpage[r]
      BY <3>1, <3>2, <2>4
    <3> QED BY <3>1, <3>3, <1>1, <1>2 DEF ReaderAtPlace
  <2>7. At(rpage[r], rpos[r], k)'
    <3>1. rpage'[r] = p /\ rpos'[r] = 0
      BY <1>1, <1>2, <2>1, <2>4 DEF ReadersTyped
    <3> QED BY <3>1, <2>5, <1>1, ReaderMoved DEF cellVars
  <2>8. Sought(r, k)' /\ Count' = Count /\ rpc'[r] = "pass"
    BY <1>1, <1>2, <2>1, <2>6 DEF Sought, Count, ReadersTyped
  <2>9. ReaderAtPlace(r)'
    BY <1>1, <1>2, <1>3, <2>1, <2>7, <2>8 DEF ReaderAtPlace, header
  <2> QED BY <2>2, <2>3, <2>9, ReaderStep
<1>4. CASE rpage[r] \notin inited
  <2>1. /\ rpc' = [rpc EXCEPT ![r] = "idle"]
        /\ rpage' = [rpage EXCEPT ![r] = 0] /\ rtime' = [rtime EXCEPT ![r] = 0] /\ rlate' = rlate \ {r}
    BY <1>4 DEF SeekLoad
  <2>2. ReadersTyped'
    BY <1>1, <1>2, <2>1 DEF ReadersTyped
  <2>3. OnlyReader(r)
    BY <1>1, <1>2, <2>1 DEF OnlyReader, ReadersTyped
  <2>4. ReaderAtPlace(r)'
    BY <1>2, <2>1 DEF ReaderAtPlace, ReadersTyped
  <2> QED BY <2>2, <2>3, <2>4, ReaderStep
<1> QED BY <1>3, <1>4

LEMMA KeepPassToTime == ASSUME IInv, NEW r \in Readers, PassToTime(r) PROVE IInv'
<1>1. rpc[r] = "pass" /\ UNCHANGED <<header, cellVars, clock, log, writer, rpage, rlast>>
  BY DEF PassToTime
<1>2. ReadersTyped /\ PagesTyped /\ Frames /\ EndsClear /\ ReaderAtPlace(r) /\ 0 \in Times
  BY JournalAssumption DEF IInv, Shared, Frames, Reading, Times
<1>3. PICK p \in Pages, c \in Cells : p = rpage[r] /\ c = rpos[r] /\ p \in inited
  BY <1>1, <1>2 DEF ReaderAtPlace, ReadersTyped, PagesTyped
<1>4. PICK k \in 0 .. Count : At(p, c, k) /\ Sought(r, k)
  BY <1>1, <1>2, <1>3 DEF ReaderAtPlace
<1>5. Count' = Count /\ Count \in Nat /\ \A i : PageOf(i)' = PageOf(i) /\ (log[i].nano)' = log[i].nano
  BY <1>1, <1>2, FrameTypes DEF Count, PageOf
<1>6. CASE HereStatus(r) = "WRITTEN" /\ Here(r).nano < rtime[r]
  <2>1. rpos' = [rpos EXCEPT ![r] = @ + Here(r).length] /\ UNCHANGED <<rpc, rtime, rlate>>
    BY <1>6 DEF PassToTime
  <2>2. status[p][c] = "WRITTEN" /\ body[p][c].nano < rtime[r] /\ Here(r).length = body[p][c].length
    BY <1>3, <1>6 DEF HereStatus, Here
  <2>3. k < Count /\ PageOf(k + 1) = p
    BY <1>2, <1>4, <2>2, WrittenHere
  <2>4. /\ k + 1 \in 1 .. Count /\ body[p][c].nano = log[k + 1].nano
        /\ c + body[p][c].length \in Cells /\ At(p, c + body[p][c].length, k + 1)
    BY <1>2, <1>4, <2>3, FrameHere
  <2>5. rpos'[r] = c + body[p][c].length /\ rpage'[r] = p
    BY <1>1, <1>2, <1>3, <2>1, <2>2 DEF ReadersTyped
  <2>6. ReadersTyped'
    BY <1>1, <1>2, <1>3, <2>1, <2>2, <2>4 DEF ReadersTyped
  <2>7. OnlyReader(r)
    BY <1>1, <1>2, <2>1 DEF OnlyReader, ReadersTyped
  <2>8. At(rpage[r], rpos[r], k + 1)'
    BY <2>4, <2>5, <1>1, ReaderMoved DEF cellVars
  <2>9. Sought(r, k + 1)'
    <3>1. \A i \in 1 .. k + 1 : i \in 1 .. k \/ i = k + 1
      BY <1>5
    <3> QED BY <3>1, <1>1, <1>4, <1>5, <2>1, <2>2, <2>4 DEF Sought
  <2>10. k + 1 \in 0 .. Count
    BY <1>5, <2>3
  <2>11. ReaderAtPlace(r)'
    BY <1>1, <1>2, <1>3, <1>5, <2>1, <2>5, <2>8, <2>9, <2>10 DEF ReaderAtPlace, header
  <2> QED BY <2>6, <2>7, <2>11, ReaderStep
<1>7. CASE ~(HereStatus(r) = "WRITTEN" /\ Here(r).nano < rtime[r])
  <2>1. /\ rpc' = [rpc EXCEPT ![r] = "read"]
        /\ rtime' = [rtime EXCEPT ![r] = 0] /\ rlate' = rlate \ {r} /\ UNCHANGED rpos
    BY <1>7 DEF PassToTime
  <2>2. ReadersTyped'
    BY <1>1, <1>2, <2>1 DEF ReadersTyped
  <2>3. OnlyReader(r)
    BY <1>1, <1>2, <2>1 DEF OnlyReader, ReadersTyped
  <2>4. rpage'[r] = p /\ rpos'[r] = c /\ rpc'[r] = "read"
    BY <1>1, <1>2, <1>3, <2>1 DEF ReadersTyped
  <2>5. At(rpage[r], rpos[r], k)'
    BY <2>4, <1>1, <1>4, ReaderMoved DEF cellVars
  <2>6. ReaderAtPlace(r)'
    BY <1>1, <1>3, <1>5, <2>4, <2>5 DEF ReaderAtPlace, header
  <2> QED BY <2>2, <2>3, <2>6, ReaderStep
<1> QED BY <1>6, <1>7

LEMMA KeepExpire == ASSUME IInv, NEW r \in Readers, Expire(r) PROVE IInv'
<1>1. /\ rpc' = [rpc EXCEPT ![r] = "idle"] /\ rpage' = [rpage EXCEPT ![r] = 0] /\ rpos' = [rpos EXCEPT ![r] = 0]
      /\ UNCHANGED <<header, cellVars, clock, log, writer, rtime, rlate, rlast>>
  BY DEF Expire
<1>2. ReadersTyped /\ 0 \in Cells /\ 0 \in 0 .. MaxPage
  BY JournalAssumption DEF IInv, Reading, Cells
<1>3. ReadersTyped' /\ OnlyReader(r)
  BY <1>1, <1>2 DEF ReadersTyped, OnlyReader
<1>4. ReaderAtPlace(r)'
  BY <1>1, <1>2 DEF ReaderAtPlace, ReadersTyped
<1> QED BY <1>3, <1>4, ReaderStep

(* Where a reader stands that reads, or is about to take a frame. *)
LEMMA ReaderPlace ==
  ASSUME IInv, NEW r \in Readers, rpc[r] \in {"read", "take"}
  PROVE  /\ ReadersTyped /\ Frames /\ EndsClear /\ Count \in Nat /\ rpage[r] # 0
         /\ \E p \in Pages, c \in Cells : \E k \in 0 .. Count :
              /\ p = rpage[r] /\ c = rpos[r] /\ p \in inited /\ At(p, c, k)
              /\ HereStatus(r) = status[p][c] /\ Here(r) = body[p][c]
              /\ (rpc[r] = "take" => k < Count /\ PageOf(k + 1) = p)
<1>1. ReadersTyped /\ PagesTyped /\ Frames /\ EndsClear /\ ReaderAtPlace(r) /\ Count \in Nat
  BY FrameTypes DEF IInv, Shared, Frames, Reading
<1>2. PICK p \in Pages, c \in Cells : p = rpage[r] /\ c = rpos[r] /\ p \in inited
  BY <1>1 DEF ReaderAtPlace, ReadersTyped, PagesTyped
<1>3. PICK k \in 0 .. Count : At(p, c, k) /\ (rpc[r] = "take" => k < Count /\ PageOf(k + 1) = p)
  BY <1>1, <1>2 DEF ReaderAtPlace
<1>4. rpage[r] # 0
  BY <1>2 DEF Pages
<1> QED BY <1>1, <1>2, <1>3, <1>4 DEF HereStatus, Here

LEMMA KeepReaderNextPage == ASSUME IInv, NEW r \in Readers, ReaderNextPage(r) PROVE IInv'
<1>1. /\ rpc[r] = "read" /\ (rpage[r] # 0 => HereStatus(r) = "PAGE_END")
      /\ rpage' = [rpage EXCEPT ![r] = IF rpage[r] + 1 \in inited THEN rpage[r] + 1 ELSE 0]
      /\ rpos' = [rpos EXCEPT ![r] = 0]
      /\ UNCHANGED <<header, cellVars, clock, log, writer, rpc, rtime, rlate, rlast>>
  BY DEF ReaderNextPage
<1>2. ReadersTyped /\ PagesTyped /\ Frames /\ PagesClosed /\ 0 \in Cells
  BY JournalAssumption DEF IInv, Shared, Frames, Reading, Cells
<1>3. PICK p \in Pages, c \in Cells : p = rpage[r] /\ p \in inited /\ status[p][c] = "PAGE_END"
  BY <1>1, ReaderPlace
<1>4. p + 1 \in inited /\ \E k \in 0 .. Count : AtEnd(p, c, k)
  BY <1>2, <1>3 DEF PagesClosed
<1>5. PICK k \in 0 .. Count : At(p + 1, 0, k)
  BY <1>2, <1>4, PageTurn
<1>6. rpage' = [rpage EXCEPT ![r] = p + 1] /\ rpage'[r] = p + 1 /\ rpos'[r] = 0
  BY <1>1, <1>2, <1>3, <1>4 DEF ReadersTyped
<1>7. p + 1 \in 0 .. MaxPage
  BY <1>2, <1>4, JournalAssumption DEF PagesTyped, Pages
<1>8. ReadersTyped'
  BY <1>1, <1>2, <1>6, <1>7 DEF ReadersTyped
<1>9. OnlyReader(r)
  BY <1>1, <1>2, <1>6 DEF OnlyReader, ReadersTyped
<1>10. At(rpage[r], rpos[r], k)'
  BY <1>1, <1>5, <1>6, ReaderMoved DEF cellVars
<1>11. ReaderAtPlace(r)'
  <2>1. Count' = Count /\ inited' = inited
    BY <1>1 DEF Count, header
  <2> QED BY <2>1, <1>1, <1>4, <1>6, <1>10 DEF ReaderAtPlace
<1> QED BY <1>8, <1>9, <1>11, ReaderStep

LEMMA KeepSeeFrame == ASSUME IInv, NEW r \in Readers, SeeFrame(r) PROVE IInv'
<1>1. /\ rpc[r] = "read" /\ HereStatus(r) = "WRITTEN" /\ rpc' = [rpc EXCEPT ![r] = "take"]
      /\ UNCHANGED <<header, cellVars, clock, log, writer, rpage, rpos, rtime, rlate, rlast>>
  BY DEF SeeFrame
<1>2. PICK p \in Pages, c \in Cells : \E k \in 0 .. Count :
         p = rpage[r] /\ c = rpos[r] /\ p \in inited /\ At(p, c, k) /\ status[p][c] = "WRITTEN"
  BY <1>1, ReaderPlace
<1>3. PICK k \in 0 .. Count : At(p, c, k)
  BY <1>2
<1>4. ReadersTyped /\ Frames /\ EndsClear
  BY DEF IInv, Shared, Reading
<1>5. k < Count /\ PageOf(k + 1) = p
  BY <1>2, <1>3, <1>4, WrittenHere
<1>6. ReadersTyped' /\ OnlyReader(r) /\ rpc'[r] = "take"
  BY <1>1, <1>4 DEF ReadersTyped, OnlyReader
<1>7. At(rpage[r], rpos[r], k)'
  BY <1>1, <1>2, <1>3, ReaderMoved DEF cellVars
<1>8. ReaderAtPlace(r)'
  <2>1. Count' = Count /\ inited' = inited /\ rpage'[r] = p /\ \A i : PageOf(i)' = PageOf(i)
    BY <1>1, <1>2 DEF Count, header, PageOf
  <2> QED BY <2>1, <1>2, <1>5, <1>6, <1>7 DEF ReaderAtPlace
<1> QED BY <1>6, <1>8, ReaderStep

LEMMA KeepTakeFrame == ASSUME IInv, NEW r \in Readers, TakeFrame(r) PROVE IInv'
<1>1. /\ rpc[r] = "take" /\ rlast' = [rlast EXCEPT ![r] = Here(r).nano]
      /\ rpos' = [rpos EXCEPT ![r] = @ + Here(r).length] /\ rpc' = [rpc EXCEPT ![r] = "read"]
      /\ UNCHANGED <<header, cellVars, clock, log, writer, rpage, rtime, rlate>>
  BY DEF TakeFrame
<1>2. PICK p \in Pages, c \in Cells : \E k \in 0 .. Count :
        /\ p = rpage[r] /\ c = rpos[r] /\ p \in inited /\ At(p, c, k) /\ Here(r) = body[p][c]
        /\ k < Count /\ PageOf(k + 1) = p
  BY <1>1, ReaderPlace
<1>3. PICK k \in 0 .. Count : At(p, c, k) /\ k < Count /\ PageOf(k + 1) = p
  BY <1>2
<1>4. ReadersTyped /\ Frames /\ EndsClear /\ PagesTyped
  BY DEF IInv, Shared, Reading, Frames
<1>5. /\ k + 1 \in 1 .. Count /\ body[p][c].nano = log[k + 1].nano
      /\ c + body[p][c].length \in Cells /\ At(p, c + body[p][c].length, k + 1)
  BY <1>3, <1>4, FrameHere
<1>6. body[p][c].nano \in Times
  BY <1>4, <1>5, FrameTypes, JournalAssumption DEF Times
<1>7. rpos'[r] = c + body[p][c].length /\ rpage'[r] = p /\ rpc'[r] = "read"
  BY <1>1, <1>2, <1>4 DEF ReadersTyped
<1>8. ReadersTyped'
  <2>1. rpos' \in [Readers -> Cells]
    BY <1>1, <1>2, <1>4, <1>5 DEF ReadersTyped
  <2>2. rlast' \in [Readers -> Times]
    BY <1>1, <1>2, <1>4, <1>6 DEF ReadersTyped
  <2> QED BY <2>1, <2>2, <1>1, <1>4 DEF ReadersTyped
<1>9. OnlyReader(r)
  BY <1>1, <1>4 DEF OnlyReader, ReadersTyped
<1>10. At(rpage[r], rpos[r], k + 1)'
  BY <1>1, <1>5, <1>7, ReaderMoved DEF cellVars
<1>11. ReaderAtPlace(r)'
  <2>1. Count' = Count /\ inited' = inited /\ k + 1 \in 0 .. Count
    BY <1>1, <1>5 DEF Count, header
  <2> QED BY <2>1, <1>2, <1>7, <1>10 DEF ReaderAtPlace
<1> QED BY <1>8, <1>9, <1>11, ReaderStep

-----------------------------------------------------------------------------
(* The invariant.                                                          *)

LEMMA InitInv == Init => IInv
<1> SUFFICES ASSUME Init PROVE IInv
  OBVIOUS
<1>1. Count = 0 /\ 1 .. Count = {} /\ 0 \in Cells /\ 0 \in 0 .. MaxPage
  BY JournalAssumption DEF Init, Count, Cells
<1>2. PagesTyped
  BY JournalAssumption DEF Init, PagesTyped, Statuses, Cell
<1>3. Frames
  BY <1>1, <1>2 DEF Frames, FramesWritten, FramesOrdered, FramesDense
<1>4. Shared
  <2>1. EndsClear /\ PagesClosed
    BY DEF Init, EndsClear, PagesClosed
  <2>2. StartsDivide
    BY <1>1 DEF Init, StartsDivide
  <2>3. PagesFollow
    <3>1. files = 1 .. 0
      BY DEF Init
    <3> QED BY <3>1, <1>1 DEF Init, PagesFollow
  <2> QED BY <1>3, <2>1, <2>2, <2>3 DEF Shared
<1>5. PagesLeft
  BY DEF Init, PagesLeft
<1>6. Writing
  <2>1. WriterTyped
    BY <1>1, JournalAssumption DEF Init, WriterTyped
  <2>2. WriterAtPlace /\ WriterFrame
    BY DEF Init, WriterAtPlace, WriterFrame, Leaving
  <2> QED BY <2>1, <2>2 DEF Writing
<1>7. Reading
  BY <1>1, JournalAssumption DEF Init, Reading, ReadersTyped, ReaderAtPlace, Times
<1> QED BY <1>4, <1>5, <1>6, <1>7 DEF IInv

LEMMA NextInv == IInv /\ [Next]_vars => IInv'
<1> SUFFICES ASSUME IInv, [Next]_vars PROVE IInv'
  OBVIOUS
<1>1. CASE UNCHANGED vars
  <2>1. Shared' /\ Reading' /\ SamePlaces
    BY <1>1, ControlKept DEF vars
  <2>2. PagesLeft'
    BY <1>1 DEF PagesLeft, Leaving, IInv, vars, header, cellVars, writer
  <2>3. Writing'
    <3>1. WriterTyped' /\ WriterFrame'
      BY <1>1 DEF WriterTyped, WriterFrame, IInv, Writing, vars, header, cellVars, writer, Count
    <3>2. WriterAtPlace'
      BY <1>1 DEF WriterAtPlace, Leaving, IInv, Writing, vars, header, cellVars, writer, Count, FramesOn, PageOf, AtEnd, At,
                  EndOf, SizeOf, PosOf
    <3> QED BY <3>1, <3>2 DEF Writing
  <2> QED BY <2>1, <2>2, <2>3 DEF IInv
<1>2. ASSUME WriterNext PROVE IInv'
  BY <1>2, KeepSeekEnd, KeepLoadPage, KeepFinishPage, KeepClosePage, KeepOpenPage, KeepPassWritten, KeepLocate,
     KeepLoadNextPage, KeepWriteFrame, KeepCopyData, KeepSetHeader, KeepClearNextEntry, KeepCommit, KeepCrash
  DEF WriterNext
<1>3. ASSUME NEW r \in Readers, ReaderNext(r) PROVE IInv'
  BY <1>3, KeepSeekLoad, KeepPassToTime, KeepReaderNextPage, KeepSeeFrame, KeepTakeFrame DEF ReaderNext
<1>4. ASSUME NEW r \in Readers, Expire(r) PROVE IInv'
  BY <1>4, KeepExpire
<1>5. ASSUME NEW r \in Readers, NEW t \in Times, Seek(r, t) PROVE IInv'
  BY <1>5, KeepSeek
<1> QED BY <1>1, <1>2, <1>3, <1>4, <1>5 DEF Next

LEMMA Invariance == Spec => []IInv
  BY InitInv, NextInv, PTL DEF Spec

(* Every variable has its type: nothing is ever written or read beyond a page, however long the frames are. *)
THEOREM TypesHold == Spec => []TypeOK
<1>1. IInv => TypeOK
  BY DEF IInv, Shared, Frames, Writing, Reading, TypeOK
<1> QED BY <1>1, Invariance, PTL

(* A reader that finds nothing has had every frame, unless its page was left open. *)
THEOREM NullIsTheEnd == Spec => []NullMeansNoMore
<1>1. IInv => NullMeansNoMore
  <2> SUFFICES ASSUME IInv, NEW r \in Readers, rpc[r] = "read", HereStatus(r) = "RAW", rpage[r] \notin abandoned
               PROVE  IndexOf(r) = Len(log) + 1
    BY DEF NullMeansNoMore
  <2>1. /\ Frames /\ EndsClear /\ PagesFollow /\ PagesClosed /\ PagesLeft /\ WriterAtPlace /\ WriterTyped
        /\ Count \in Nat /\ PagesTyped
    BY FrameTypes DEF IInv, Shared, Writing, Frames
  <2>2. PICK p \in Pages, c \in Cells : \E k \in 0 .. Count :
          p = rpage[r] /\ c = rpos[r] /\ p \in inited /\ At(p, c, k) /\ status[p][c] = "RAW"
    BY ReaderPlace
  <2>3. PICK k \in 0 .. Count : At(p, c, k)
    BY <2>2
  <2>4. k = Count
    <3> SUFFICES ASSUME k < Count PROVE FALSE
      BY <2>1
    <3>1. k + 1 \in 1 .. Count /\ k + 1 \in k + 1 .. Count
      BY <2>1
    <3>2. PageOf(k + 1) # p
      BY <2>1, <2>2, <2>3, FrameHere
    <3>3. AtEnd(p, c, k)
      BY <2>3, <3>2 DEF AtEnd
    <3>4. PageOf(k + 1) > p /\ PageOf(k + 1) \in files
      BY <3>1, <3>2, <2>1, <2>3 DEF At, Frames, FramesWritten, PagesFollow
    <3>5. p \in files /\ p + 1 \in files
      <4>1. PICK m \in 0 .. MaxPage : files = 1 .. m
        BY <2>1 DEF PagesFollow
      <4> QED BY <4>1, <3>4, JournalAssumption DEF Pages
    <3>6. CASE Leaving /\ wpage = p
      <4>1. AtEnd(p, wpos, Count) /\ wpos \in Cells /\ Count \in 0 .. Count
        BY <2>1, <3>6 DEF WriterAtPlace, WriterTyped
      <4> QED BY <4>1, <3>3, <2>1, OneEnd
    <3>7. CASE \E d \in Cells : status[p][d] = "PAGE_END"
      <4>1. PICK d \in Cells : status[p][d] = "PAGE_END"
        BY <3>7
      <4>2. PICK j \in 0 .. Count : AtEnd(p, d, j)
        BY <4>1, <2>1 DEF PagesClosed
      <4>3. c = d
        BY <4>2, <3>3, <2>1, OneEnd
      <4> QED BY <4>1, <4>3, <2>2
    <3> QED BY <3>5, <3>6, <3>7, <2>1, <2>2 DEF PagesLeft
  <2>5. IndexOf(r) = k + 1
    BY <2>1, <2>2, <2>3, PlaceIndex DEF IndexOf, Pages, Cells
  <2> QED BY <2>4, <2>5 DEF Count
<1> QED BY <1>1, Invariance, PTL

(* A closed page has the number of its frames, whenever its writers died. *)
THEOREM ClosedIsCounted == Spec => []ClosedPagesCounted
<1>1. IInv => ClosedPagesCounted
  <2> SUFFICES ASSUME IInv, NEW p \in Pages, NEW c \in Cells, status[p][c] = "PAGE_END"
               PROVE  frameNum[p] = Cardinality({i \in DOMAIN log : log[i].page = p})
    BY DEF ClosedPagesCounted
  <2>1. frameNum[p] = Cardinality(FramesOn(p))
    BY DEF IInv, Shared, PagesClosed
  <2>2. DOMAIN log = 1 .. Count
    BY FrameTypes DEF IInv, Shared, Frames
  <2> QED BY <2>1, <2>2 DEF FramesOn, PageOf
<1> QED BY <1>1, Invariance, PTL

-----------------------------------------------------------------------------
(* The journal implements JournalLog.                                      *)

Nanos == [i \in DOMAIN log |-> log[i].nano]
NextOf(r) == IF Attached(r) THEN IndexOf(r) ELSE 0
NextMap == [r \in Readers |-> IF Attached(r) THEN IndexOf(r) ELSE 0]
LogVars == <<Nanos, NextMap, rlast, rtime, rlate>>

LEMMA NanoTypes ==
  ASSUME PagesTyped
  PROVE  DOMAIN Nanos = 1 .. Count /\ \A i \in 1 .. Count : Nanos[i] = log[i].nano
  BY FrameTypes DEF Nanos

LEMMA NextOfReader == \A r \in Readers : NextMap[r] = NextOf(r)
  BY DEF NextMap, NextOf

LEMMA NothingNew ==
  ASSUME UNCHANGED <<log, rpc, rpage, rpos, rlast, rtime, rlate>>
  PROVE  UNCHANGED LogVars
<1>1. \A r : Attached(r)' = Attached(r) /\ IndexOf(r)' = IndexOf(r)
  BY DEF Attached, IndexOf, Before
<1> QED BY <1>1 DEF LogVars, Nanos, NextMap

(* A step of one reader changes what it gets next, and nobody else. *)
LEMMA NextMoves ==
  ASSUME NEW r \in Readers, OnlyReader(r)
  PROVE  NextMap' = [NextMap EXCEPT ![r] = NextOf(r)'] /\ UNCHANGED Nanos
<1>1. ASSUME NEW s \in Readers, s # r PROVE NextOf(s)' = NextOf(s)
  <2>1. log' = log /\ rpc'[s] = rpc[s] /\ rpage'[s] = rpage[s] /\ rpos'[s] = rpos[s]
    BY <1>1 DEF OnlyReader
  <2>2. IndexOf(s)' = IndexOf(s) /\ Attached(s)' = Attached(s)
    BY <2>1 DEF IndexOf, Before, Attached
  <2> QED BY <2>2 DEF NextOf
<1>2. NextMap = [s \in Readers |-> NextOf(s)] /\ NextMap' = [s \in Readers |-> NextOf(s)']
  BY DEF NextMap, NextOf
<1>3. UNCHANGED Nanos
  BY DEF OnlyReader, Nanos
<1> QED BY <1>1, <1>2, <1>3

LEMMA NextStays ==
  ASSUME NEW r \in Readers, OnlyReader(r), NextOf(r)' = NextOf(r), UNCHANGED <<rlast, rtime, rlate>>
  PROVE  UNCHANGED LogVars
<1>1. NextMap' = [NextMap EXCEPT ![r] = NextOf(r)'] /\ UNCHANGED Nanos
  BY NextMoves
<1>2. NextMap' = NextMap
  BY <1>1, NextOfReader DEF NextMap
<1> QED BY <1>1, <1>2 DEF LogVars

LEMMA LogInit == Init => Log!Init
<1> SUFFICES ASSUME Init PROVE Log!Init
  OBVIOUS
<1>1. log = <<>> /\ DOMAIN log = {}
  BY DEF Init
<1>2. Nanos = <<>>
  BY <1>1 DEF Nanos
<1>3. NextMap = [r \in Readers |-> 0]
  BY DEF Init, NextMap, Attached
<1> QED BY <1>2, <1>3 DEF Init, Log!Init, Nanos, NextMap

(* A frame marked is a frame appended. *)
LEMMA CommitIsAppend == ASSUME IInv, Commit PROVE \E t \in Times : Log!AppendFrame(t)
<1> PICK n : n = Count + 1
  OBVIOUS
<1>1. /\ wpc = "commit" /\ UNCHANGED <<header, body, clock, reader>>
      /\ log' = Append(log, [nano |-> body[wpage][wpos].nano, page |-> wpage, pos |-> wpos])
  BY DEF Commit
<1>2. PagesTyped /\ Frames /\ Count \in Nat /\ Appended(n) /\ Frames' /\ PagesTyped'
  BY CommitAppends, AppendFrames, FrameTypes DEF IInv, Shared, Frames
<1>3. clock \in Times /\ body[wpage][wpos].nano = clock /\ \A i \in 1 .. Count : log[i].nano < clock
  BY <1>1, <1>2, JournalAssumption DEF IInv, Writing, WriterFrame, PagesTyped, Times
<1>4. Nanos' = Append(Nanos, clock)
  <2>1. DOMAIN Nanos' = 1 .. n /\ (\A i \in 1 .. n : Nanos'[i] = (log[i].nano)') /\ n = Count + 1
    BY <1>2, FrameTypes DEF Nanos, Appended, Count
  <2>2. \A i \in 1 .. n : Nanos'[i] = IF i = n THEN clock ELSE Nanos[i]
    BY <1>2, <2>1, NanoTypes DEF Appended
  <2>3. Nanos \in Seq(Nat) /\ Len(Nanos) = Count
    <3>1. Nanos = [i \in 1 .. Count |-> log[i].nano] /\ \A i \in 1 .. Count : log[i].nano \in Nat
      BY <1>2, FrameTypes DEF Nanos
    <3> QED BY <3>1, <1>2
  <2>4. Append(Nanos, clock) = [i \in 1 .. n |-> IF i = n THEN clock ELSE Nanos[i]]
    <3>1. clock \in Nat
      BY <1>3 DEF Times
    <3> PICK q \in Seq(Nat) : q = Nanos
      BY <2>3
    <3> PICK a : a = Append(q, clock)
      OBVIOUS
    <3>2. a \in Seq(Nat) /\ Len(a) = Len(q) + 1 /\ a[Len(q) + 1] = clock /\ \A i \in 1 .. Len(q) : a[i] = q[i]
      BY ONLY q \in Seq(Nat), a = Append(q, clock), <3>1
    <3>3. a = [i \in 1 .. n |-> a[i]]
      <4>1. Len(a) = n
        BY <3>2, <2>1, <2>3
      <4>2. a \in [1 .. Len(a) -> Nat]
        BY ONLY <3>2
      <4> QED BY ONLY <4>1, <4>2
    <3>4. ASSUME NEW i \in 1 .. n PROVE a[i] = IF i = n THEN clock ELSE Nanos[i]
      <4>1. CASE i = n
        BY <4>1, <3>2, <2>1, <2>3
      <4>2. CASE i # n
        <5>1. i \in 1 .. Len(Nanos)
          BY <4>2, <2>1, <2>3, <1>2
        <5> QED BY <4>2, <5>1, <3>2
      <4> QED BY <4>1, <4>2
    <3> QED BY <3>3, <3>4
  <2>5. Nanos' = [i \in 1 .. n |-> Nanos'[i]]
    BY <2>1 DEF Nanos
  <2> QED BY <2>2, <2>4, <2>5
<1>5. \A i \in DOMAIN Nanos : Nanos[i] < clock
  BY <1>2, <1>3, NanoTypes
<1>6. NextMap' = NextMap
  <2> SUFFICES ASSUME NEW r \in Readers PROVE NextOf(r)' = NextOf(r)
    BY DEF NextMap, NextOf
  <2>1. Attached(r)' <=> Attached(r)
    BY <1>1 DEF Attached, reader
  <2>2. ASSUME Attached(r) PROVE IndexOf(r)' = IndexOf(r)
    <3>1. PICK p \in Pages, c \in Cells : \E k \in 0 .. Count : p = rpage[r] /\ c = rpos[r] /\ p \in inited /\ At(p, c, k)
      BY <2>2, ReaderPlace DEF Attached
    <3>2. PICK k \in 0 .. Count : At(p, c, k)
      BY <3>1
    <3>3. At(p, c, k)'
      BY <1>1, <1>2, <3>1, <3>2, PlacesBehindWriter, AppendPlaces
    <3>4. p \in Int /\ c \in Int
      BY DEF Pages, Cells
    <3>5. Cardinality({i \in DOMAIN log : Before(i, p, c)}) = k
      BY <1>2, <3>2, <3>4, PlaceIndex
    <3>6. {i \in DOMAIN log' : Before(i, p, c)'} = 1 .. k
      <4>1. \A i \in 1 .. n : Before(i, p, c)' <=> (PageOf(i)' < p \/ (PageOf(i)' = p /\ PosOf(i)' < c))
        BY DEF Before, PageOf, PosOf
      <4>2. ASSUME NEW i \in 1 .. Count PROVE Before(i, p, c)' <=> i <= k
        <5>1. Before(i, p, c) <=> i <= k
          BY <1>2, <3>2, <3>4, PlaceBefore
        <5> QED BY <5>1, <1>2, <4>1 DEF Appended, Before, PageOf, PosOf
      <4>3. ~Before(n, p, c)'
        <5>1. p < wpage \/ (p = wpage /\ c <= wpos)
          BY <1>1, <3>1, <3>2, PlacesBehindWriter
        <5>2. wpage \in Int /\ wpos \in Int
          BY <1>1, WriterPlace DEF Pages, Cells
        <5> QED BY <5>1, <5>2, <3>4, <4>1, <1>2 DEF Appended
      <4>4. DOMAIN log' = 1 .. n
        BY <1>2, FrameTypes DEF Appended, Count
      <4> QED BY <4>2, <4>3, <4>4, <1>2 DEF Appended
    <3>7. Cardinality(1 .. k) = k
      BY <1>2, CountUpTo
    <3>8. IndexOf(r) = k + 1
      BY <3>1, <3>5 DEF IndexOf
    <3>9. IndexOf(r)' = k + 1
      <4>1. rpage'[r] = p /\ rpos'[r] = c
        BY <1>1, <3>1 DEF reader
      <4>2. {i \in DOMAIN log' : Before(i, rpage[r], rpos[r])'} = 1 .. k
        BY <3>6, <4>1 DEF Before
      <4> QED BY <4>2, <3>7 DEF IndexOf
    <3> QED BY <3>8, <3>9
  <2> QED BY <2>1, <2>2 DEF NextOf
<1> QED BY <1>1, <1>3, <1>4, <1>5, <1>6 DEF Log!AppendFrame, reader, Nanos, NextMap

(* What looks like the place of a reader is its place in the log. *)
LEMMA PlaceInLog ==
  ASSUME Frames, UNCHANGED log, NEW r \in Readers, NEW p \in Pages, NEW c \in Cells, NEW k \in 0 .. Count, At(p, c, k)
  PROVE  /\ (p = rpage[r] /\ c = rpos[r]) => IndexOf(r) = k + 1
         /\ (p = rpage'[r] /\ c = rpos'[r]) => IndexOf(r)' = k + 1
<1>1. Cardinality({i \in DOMAIN log : Before(i, p, c)}) = k
  BY PlaceIndex DEF Pages, Cells
<1>2. ASSUME p = rpage'[r], c = rpos'[r] PROVE IndexOf(r)' = k + 1
  <2>1. {i \in DOMAIN log : Before(i, rpage[r], rpos[r])}' = {i \in DOMAIN log : Before(i, p, c)}
    BY <1>2 DEF Before
  <2> QED BY <2>1, <1>1 DEF IndexOf
<1> QED BY <1>1, <1>2 DEF IndexOf

LEMMA SeekIsAsk == ASSUME IInv, NEW r \in Readers, NEW t \in Times, Seek(r, t) PROVE Log!Ask(r, t)
<1>1. /\ rpc[r] = "idle" /\ rpc' = [rpc EXCEPT ![r] = "load"]
      /\ rpage' = [rpage EXCEPT ![r] = PageWithTime(t)] /\ rtime' = [rtime EXCEPT ![r] = t]
      /\ rlate' = IF PageWithTime(t) \in inited \cup {1} THEN rlate ELSE rlate \cup {r}
      /\ UNCHANGED <<header, cellVars, clock, log, writer, rpos, rlast>>
  BY DEF Seek
<1>2. ReadersTyped
  BY DEF IInv, Reading
<1>3. OnlyReader(r) /\ NextOf(r) = 0 /\ NextOf(r)' = 0
  BY <1>1, <1>2 DEF OnlyReader, ReadersTyped, NextOf, Attached
<1>4. NextMap' = NextMap /\ UNCHANGED Nanos /\ NextMap[r] = 0
  <2>1. NextMap' = [NextMap EXCEPT ![r] = NextOf(r)'] /\ UNCHANGED Nanos
    BY <1>3, NextMoves
  <2> QED BY <2>1, <1>3, NextOfReader DEF NextMap
<1>5. rlate' \in {rlate \cup {r}, rlate \ {r}}
  BY <1>1
<1> QED BY <1>1, <1>4, <1>5 DEF Log!Ask, Nanos, NextMap

LEMMA SeekLoadIsAsk == ASSUME IInv, NEW r \in Readers, SeekLoad(r) PROVE Log!Ask(r, 0) \/ UNCHANGED LogVars
<1>1. rpc[r] = "load" /\ rpos' = [rpos EXCEPT ![r] = 0] /\ UNCHANGED <<header, cellVars, clock, log, writer, rlast>>
  BY DEF SeekLoad
<1>2. ReadersTyped
  BY DEF IInv, Reading
<1>3. CASE rpage[r] \in inited
  <2>1. rpc' = [rpc EXCEPT ![r] = "pass"] /\ UNCHANGED <<rpage, rtime, rlate>>
    BY <1>3 DEF SeekLoad
  <2>2. OnlyReader(r) /\ NextOf(r)' = NextOf(r)
    BY <1>1, <1>2, <2>1 DEF OnlyReader, ReadersTyped, NextOf, Attached
  <2> QED BY <1>1, <2>1, <2>2, NextStays
<1>4. CASE rpage[r] \notin inited
  <2>1. /\ rpc' = [rpc EXCEPT ![r] = "idle"]
        /\ rpage' = [rpage EXCEPT ![r] = 0] /\ rtime' = [rtime EXCEPT ![r] = 0] /\ rlate' = rlate \ {r}
    BY <1>4 DEF SeekLoad
  <2>2. OnlyReader(r) /\ NextOf(r) = 0 /\ NextOf(r)' = 0
    BY <1>1, <1>2, <2>1 DEF OnlyReader, ReadersTyped, NextOf, Attached
  <2>3. NextMap' = NextMap /\ UNCHANGED Nanos /\ NextMap[r] = 0
    <3>1. NextMap' = [NextMap EXCEPT ![r] = NextOf(r)'] /\ UNCHANGED Nanos
      BY <2>2, NextMoves
    <3> QED BY <3>1, <2>2, NextOfReader DEF NextMap
  <2> QED BY <1>1, <2>1, <2>3 DEF Log!Ask, Nanos, NextMap
<1> QED BY <1>3, <1>4

(* A reader at the end of its search has every frame of its time before it. *)
LEMMA FramesSought ==
  ASSUME IInv, NEW r \in Readers, rpc[r] = "pass", ~(HereStatus(r) = "WRITTEN" /\ Here(r).nano < rtime[r]),
         NEW p \in Pages, NEW c \in Cells, p = rpage[r], c = rpos[r], NEW k \in 0 .. Count, At(p, c, k)
  PROVE  \A i \in k + 1 .. Count : rtime[r] <= log[i].nano
<1>1. /\ Frames /\ PagesTyped /\ EndsClear /\ StartsDivide /\ ReaderAtPlace(r) /\ Count \in Nat /\ rtime[r] \in Nat
      /\ start \in [Pages -> Nat]
  <2>1. Frames /\ PagesTyped /\ EndsClear /\ StartsDivide
    BY DEF IInv, Shared, Frames
  <2>2. ReaderAtPlace(r) /\ rtime[r] \in Nat
    BY DEF IInv, Reading, ReadersTyped, Times
  <2>3. Count \in Nat /\ start \in [Pages -> Nat]
    BY <2>1, FrameTypes DEF PagesTyped
  <2> QED BY ONLY <2>1, <2>2, <2>3
<1> SUFFICES ASSUME NEW i \in k + 1 .. Count PROVE rtime[r] <= log[i].nano
  OBVIOUS
<1>2. k < Count /\ k + 1 \in 1 .. Count /\ i \in 1 .. Count /\ (i = k + 1 \/ k + 1 < i)
  <2>1. Count \in Nat
    BY <1>1
  <2> QED BY ONLY <2>1, k \in 0 .. Count, i \in k + 1 .. Count
<1>3. PageOf(i) \in Pages /\ log[i].nano \in Nat /\ PageOf(k + 1) \in Pages /\ log[k + 1].nano \in Nat /\ PageOf(i) \in inited
  <2>1. \A j \in 1 .. Count : PageOf(j) \in Pages /\ log[j].nano \in Nat /\ PageOf(j) \in inited
    BY <1>1, FrameTypes DEF Frames, FramesWritten
  <2> QED BY <2>1, <1>2
<1>4. CASE PageOf(k + 1) = p
  <2>1. status[p][c] = "WRITTEN" /\ body[p][c].nano = log[k + 1].nano
    BY <1>1, <1>2, <1>4, FrameHere
  <2>2. ~(log[k + 1].nano < rtime[r])
    BY <2>1 DEF HereStatus, Here
  <2>3. log[k + 1].nano <= log[i].nano
    BY <1>1, <1>2, <1>3, InOrder
  <2> QED BY <1>1, <1>3, <2>2, <2>3
<1>5. CASE PageOf(k + 1) # p
  <2>1. PageOf(k + 1) > p
    BY <1>2, <1>5, <1>1 DEF At
  <2>2. PageOf(k + 1) <= PageOf(i)
    BY <1>1, <1>2, <1>3, InOrder DEF Pages
  <2>3. PageOf(i) > rpage[r]
    BY <2>1, <2>2, <1>3 DEF Pages
  <2>4. rtime[r] <= start[PageOf(i)] + 1
    BY <1>1, <1>3, <2>3 DEF ReaderAtPlace
  <2>5. log[i].nano > start[PageOf(i)]
    BY <1>1, <1>2, <1>3 DEF StartsDivide, Pages
  <2> QED BY <1>1, <1>3, <2>4, <2>5
<1> QED BY <1>4, <1>5

LEMMA PassIsAttach ==
  ASSUME IInv, NEW r \in Readers, PassToTime(r)
  PROVE  (\E t \in Times : Log!Attach(r, t)) \/ UNCHANGED LogVars
<1>1. rpc[r] = "pass" /\ UNCHANGED <<header, cellVars, clock, log, writer, rpage, rlast>>
  BY DEF PassToTime
<1>2. /\ ReadersTyped /\ PagesTyped /\ Frames /\ ReaderAtPlace(r) /\ Count \in Nat
      /\ rtime[r] \in Times /\ rtime[r] \in Nat
  BY FrameTypes DEF IInv, Shared, Frames, Reading, ReadersTyped, Times
<1>3. CASE HereStatus(r) = "WRITTEN" /\ Here(r).nano < rtime[r]
  <2>1. rpos' = [rpos EXCEPT ![r] = @ + Here(r).length] /\ UNCHANGED <<rpc, rtime, rlate>>
    BY <1>3 DEF PassToTime
  <2>2. OnlyReader(r) /\ NextOf(r)' = NextOf(r)
    BY <1>1, <1>2, <2>1 DEF OnlyReader, ReadersTyped, NextOf, Attached
  <2> QED BY <1>1, <2>1, <2>2, NextStays
<1>4. CASE ~(HereStatus(r) = "WRITTEN" /\ Here(r).nano < rtime[r])
  <2>1. /\ rpc' = [rpc EXCEPT ![r] = "read"]
        /\ rtime' = [rtime EXCEPT ![r] = 0] /\ rlate' = rlate \ {r} /\ UNCHANGED rpos
    BY <1>4 DEF PassToTime
  <2>2. PICK p \in Pages, c \in Cells : p = rpage[r] /\ c = rpos[r]
    BY <1>1, <1>2 DEF ReaderAtPlace, ReadersTyped, PagesTyped
  <2>3. PICK k \in 0 .. Count : At(p, c, k) /\ Sought(r, k)
    BY <1>1, <1>2, <2>2 DEF ReaderAtPlace
  <2>4. \A i \in k + 1 .. Count : rtime[r] <= log[i].nano
    BY <1>1, <1>4, <2>2, <2>3, FramesSought
  <2>5. \A i \in 1 .. Count : log[i].nano \in 1 .. MaxTime
    BY <1>2, FrameTypes
  <2>6. \E t \in Times : /\ t >= rtime[r] /\ (r \notin rlate => t = rtime[r])
                         /\ \A i \in 1 .. Count : log[i].nano < t <=> i <= k
    <3>1. CASE \A i \in 1 .. k : log[i].nano < rtime[r]
      <4>1. ASSUME NEW i \in 1 .. Count PROVE log[i].nano < rtime[r] <=> i <= k
        <5>1. log[i].nano \in Nat /\ (i <= k => i \in 1 .. k) /\ (~(i <= k) => i \in k + 1 .. Count)
          BY <1>2, <2>5
        <5>2. ASSUME ~(i <= k) PROVE ~(log[i].nano < rtime[r])
          <6>1. rtime[r] <= log[i].nano
            BY <5>1, <5>2, <2>4
          <6> QED BY <6>1, <5>1, <1>2
        <5> QED BY <3>1, <5>1, <5>2
      <4> QED BY <4>1, <1>2
    <3>2. CASE ~ \A i \in 1 .. k : log[i].nano < rtime[r]
      <4>1. PICK j \in 1 .. k : ~(log[j].nano < rtime[r])
        BY <3>2
      <4>2. r \in rlate
        BY <4>1, <2>3 DEF Sought
      <4>3. k \in 1 .. Count /\ j \in 1 .. Count /\ (j = k \/ j < k)
        BY <1>2
      <4>4. PICK t \in Nat : t = log[k].nano + 1
        BY <2>5, <4>3
      <4>5. t \in Times
        BY <2>5, <4>3, <4>4, JournalAssumption DEF Times
      <4>6. log[j].nano <= log[k].nano
        BY <1>2, <2>5, <4>3, InOrder
      <4>7. t >= rtime[r]
        BY <1>2, <2>5, <4>1, <4>3, <4>4, <4>6
      <4>8. ASSUME NEW i \in 1 .. Count PROVE log[i].nano < t <=> i <= k
        <5>1. log[i].nano \in Nat /\ log[k].nano \in Nat
          BY <2>5, <4>3
        <5>2. CASE i < k
          <6>1. log[i].nano < log[k].nano
            BY <5>2, <1>2, <4>3, InOrder
          <6> QED BY <5>1, <5>2, <6>1, <4>3, <4>4
        <5>3. CASE i = k
          BY <5>1, <5>3, <4>3, <4>4
        <5>4. CASE k < i
          <6>1. log[k].nano < log[i].nano
            BY <5>4, <1>2, <4>3, InOrder
          <6> QED BY <5>1, <5>4, <6>1, <4>3, <4>4
        <5> QED BY <5>2, <5>3, <5>4, <4>3
      <4> QED BY <4>2, <4>5, <4>7, <4>8
    <3> QED BY <3>1, <3>2
  <2>7. PICK t \in Times : /\ t >= rtime[r] /\ (r \notin rlate => t = rtime[r])
                           /\ \A i \in 1 .. Count : log[i].nano < t <=> i <= k
    BY <2>6
  <2>8. k + 1 \in 1 .. Len(Nanos) + 1 /\ \A i \in DOMAIN Nanos : Nanos[i] < t <=> i < k + 1
    <3>1. Len(Nanos) = Count
      <4>1. Nanos = [i \in 1 .. Count |-> log[i].nano]
        BY <1>2, FrameTypes DEF Nanos
      <4> QED BY <4>1, <1>2
    <3>2. \A i \in 1 .. Count : i <= k <=> i < k + 1
      BY <1>2
    <3> QED BY <3>1, <3>2, <1>2, <2>7, NanoTypes
  <2>9. OnlyReader(r) /\ NextOf(r) = 0
    BY <1>1, <1>2, <2>1 DEF OnlyReader, ReadersTyped, NextOf, Attached
  <2>10. NextOf(r)' = k + 1
    <3>1. p = rpage'[r] /\ c = rpos'[r] /\ Attached(r)'
      BY <1>1, <1>2, <2>1, <2>2 DEF Attached, ReadersTyped
    <3>2. IndexOf(r)' = k + 1
      BY <3>1, <1>1, <1>2, <2>3, PlaceInLog
    <3> QED BY <3>1, <3>2 DEF NextOf
  <2>11. NextMap' = [NextMap EXCEPT ![r] = k + 1] /\ UNCHANGED Nanos /\ NextMap[r] = 0
    BY <2>9, <2>10, NextMoves, NextOfReader
  <2>12. Log!Attach(r, t)
    BY <1>1, <2>1, <2>7, <2>8, <2>11 DEF Log!Attach, Nanos, NextMap
  <2> QED BY <2>12
<1> QED BY <1>3, <1>4

LEMMA ExpireIsDetach == ASSUME IInv, NEW r \in Readers, Expire(r) PROVE Log!Detach(r)
<1>1. /\ rpc' = [rpc EXCEPT ![r] = "idle"] /\ rpage' = [rpage EXCEPT ![r] = 0] /\ rpos' = [rpos EXCEPT ![r] = 0]
      /\ UNCHANGED <<header, cellVars, clock, log, writer, rtime, rlate, rlast>>
  BY DEF Expire
<1>2. ReadersTyped
  BY DEF IInv, Reading
<1>3. OnlyReader(r) /\ NextOf(r)' = 0
  BY <1>1, <1>2 DEF OnlyReader, ReadersTyped, NextOf, Attached
<1>4. NextMap' = [NextMap EXCEPT ![r] = 0] /\ UNCHANGED Nanos
  BY <1>3, NextMoves
<1> QED BY <1>1, <1>4 DEF Log!Detach, Nanos, NextMap

LEMMA TurnIsNothing == ASSUME IInv, NEW r \in Readers, ReaderNextPage(r) PROVE UNCHANGED LogVars
<1>1. /\ rpc[r] = "read" /\ (rpage[r] # 0 => HereStatus(r) = "PAGE_END")
      /\ rpage' = [rpage EXCEPT ![r] = IF rpage[r] + 1 \in inited THEN rpage[r] + 1 ELSE 0]
      /\ rpos' = [rpos EXCEPT ![r] = 0]
      /\ UNCHANGED <<header, cellVars, clock, log, writer, rpc, rtime, rlate, rlast>>
  BY DEF ReaderNextPage
<1>2. ReadersTyped /\ PagesTyped /\ Frames /\ PagesClosed /\ 0 \in Cells
  BY JournalAssumption DEF IInv, Shared, Frames, Reading, Cells
<1>3. PICK p \in Pages, c \in Cells : \E j \in 0 .. Count :
        p = rpage[r] /\ c = rpos[r] /\ p \in inited /\ status[p][c] = "PAGE_END" /\ At(p, c, j)
  BY <1>1, ReaderPlace
<1>4. PICK q \in Pages : q = p + 1 /\ q \in inited
  BY <1>2, <1>3 DEF PagesClosed, PagesTyped
<1>5. PICK k \in 0 .. Count : AtEnd(p, c, k)
  BY <1>2, <1>3 DEF PagesClosed
<1>6. At(p, c, k) /\ At(q, 0, k)
  BY <1>2, <1>4, <1>5, PageTurn DEF AtEnd
<1>7. rpage'[r] = q /\ rpos'[r] = 0 /\ log' = log
  BY <1>1, <1>2, <1>3, <1>4 DEF ReadersTyped
<1>8. IndexOf(r) = k + 1
  BY <1>2, <1>3, <1>6, <1>7, PlaceInLog
<1>9. IndexOf(r)' = k + 1
  BY <1>2, <1>6, <1>7, PlaceInLog
<1>10. OnlyReader(r)
  BY <1>1, <1>2 DEF OnlyReader, ReadersTyped
<1>11. NextOf(r)' = NextOf(r)
  BY <1>1, <1>8, <1>9 DEF NextOf, Attached
<1> QED BY <1>1, <1>10, <1>11, NextStays

LEMMA SeeIsNothing == ASSUME IInv, NEW r \in Readers, SeeFrame(r) PROVE UNCHANGED LogVars
<1>1. /\ rpc[r] = "read" /\ rpc' = [rpc EXCEPT ![r] = "take"]
      /\ UNCHANGED <<header, cellVars, clock, log, writer, rpage, rpos, rtime, rlate, rlast>>
  BY DEF SeeFrame
<1>2. ReadersTyped
  BY DEF IInv, Reading
<1>3. OnlyReader(r)
  BY <1>1, <1>2 DEF OnlyReader, ReadersTyped
<1>4. NextOf(r)' = NextOf(r)
  BY <1>1, <1>2 DEF NextOf, Attached, IndexOf, Before, ReadersTyped
<1> QED BY <1>1, <1>3, <1>4, NextStays

LEMMA TakeIsDeliver == ASSUME IInv, NEW r \in Readers, TakeFrame(r) PROVE Log!Deliver(r)
<1>1. /\ rpc[r] = "take" /\ rlast' = [rlast EXCEPT ![r] = Here(r).nano]
      /\ rpos' = [rpos EXCEPT ![r] = @ + Here(r).length] /\ rpc' = [rpc EXCEPT ![r] = "read"]
      /\ UNCHANGED <<header, cellVars, clock, log, writer, rpage, rtime, rlate>>
  BY DEF TakeFrame
<1>2. PICK p \in Pages, c \in Cells : \E k \in 0 .. Count :
        /\ p = rpage[r] /\ c = rpos[r] /\ p \in inited /\ At(p, c, k) /\ Here(r) = body[p][c]
        /\ k < Count /\ PageOf(k + 1) = p
  BY <1>1, ReaderPlace
<1>3. PICK k \in 0 .. Count : At(p, c, k) /\ k < Count /\ PageOf(k + 1) = p
  BY <1>2
<1>4. ReadersTyped /\ Frames /\ EndsClear /\ PagesTyped
  BY DEF IInv, Shared, Reading, Frames
<1>5. /\ k + 1 \in 1 .. Count /\ body[p][c].nano = log[k + 1].nano
      /\ c + body[p][c].length \in Cells /\ At(p, c + body[p][c].length, k + 1)
  BY <1>3, <1>4, FrameHere
<1>6. PICK d \in Cells : d = c + body[p][c].length
  BY <1>5
<1>7. rpos'[r] = d /\ rpage'[r] = p /\ k + 1 \in 0 .. Count
  BY <1>1, <1>2, <1>4, <1>5, <1>6 DEF ReadersTyped
<1>8. IndexOf(r) = k + 1
  BY <1>1, <1>2, <1>3, <1>4, PlaceInLog
<1>9. IndexOf(r)' = (k + 1) + 1
  <2>1. PICK m \in 0 .. Count : m = k + 1
    BY <1>7
  <2>2. At(p, d, m)
    BY <2>1, <1>5, <1>6
  <2>3. IndexOf(r)' = m + 1
    BY <2>2, <1>1, <1>4, <1>7, PlaceInLog
  <2> QED BY <2>1, <2>3
<1>10. OnlyReader(r) /\ Attached(r) /\ Attached(r)'
  BY <1>1, <1>4 DEF OnlyReader, ReadersTyped, Attached
<1>11. NextMap[r] = k + 1 /\ NextMap' = [NextMap EXCEPT ![r] = (k + 1) + 1] /\ UNCHANGED Nanos
  BY <1>8, <1>9, <1>10, NextOfReader, NextMoves DEF NextOf
<1>12. k + 1 \in DOMAIN Nanos /\ Nanos[k + 1] = Here(r).nano
  BY <1>2, <1>4, <1>5, NanoTypes
<1> QED BY <1>1, <1>11, <1>12 DEF Log!Deliver, Nanos, NextMap

LEMMA LogNext == IInv /\ [Next]_vars => [Log!Next]_LogVars
<1> SUFFICES ASSUME IInv, [Next]_vars PROVE Log!Next \/ UNCHANGED LogVars
  OBVIOUS
<1>1. CASE UNCHANGED vars
  BY <1>1, NothingNew DEF vars, reader
<1>2. ASSUME WriterNext PROVE Log!Next \/ UNCHANGED LogVars
  <2>1. CASE Commit
    BY <2>1, CommitIsAppend DEF Log!Next
  <2>2. CASE ~Commit
    <3>1. UNCHANGED <<log, reader>>
      BY <1>2, <2>2 DEF WriterNext, SeekEnd, LoadPage, FinishPage, ClosePage, OpenPage, PassWritten, Locate, LoadNextPage,
                        WriteFrame, CopyData, SetHeader, ClearNextEntry, Crash
    <3> QED BY <3>1, NothingNew DEF reader
  <2> QED BY <2>1, <2>2
<1>3. ASSUME NEW r \in Readers, ReaderNext(r) PROVE Log!Next \/ UNCHANGED LogVars
  <2>1. 0 \in Times
    BY JournalAssumption DEF Times
  <2> QED BY <1>3, <2>1, SeekLoadIsAsk, PassIsAttach, TurnIsNothing, SeeIsNothing, TakeIsDeliver DEF ReaderNext, Log!Next
<1>4. ASSUME NEW r \in Readers, Expire(r) PROVE Log!Next
  BY <1>4, ExpireIsDetach DEF Log!Next
<1>5. ASSUME NEW r \in Readers, NEW t \in Times, Seek(r, t) PROVE Log!Next
  BY <1>5, SeekIsAsk DEF Log!Next
<1> QED BY <1>1, <1>2, <1>3, <1>4, <1>5 DEF Next

(* Each reader gets each frame once, whole and in order, from the time it sought. *)
THEOREM JournalIsLog == Spec => ImplementsLog
  BY LogInit, LogNext, Invariance, PTL DEF Spec, ImplementsLog, Log!Spec, LogVars, Nanos, NextMap
=============================================================================
