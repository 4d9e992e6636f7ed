----------------------------- MODULE JournalLog -----------------------------
(***************************************************************************)
(* What a journal promises: one writer appends frames in the order of      *)
(* their time; a reader that asks for a time gets every frame from that    *)
(* time on, once and in order.  A reader that is late, because the page it *)
(* chose was only being created, may begin at a later time.                *)
(***************************************************************************)
EXTENDS Naturals, Sequences

CONSTANTS Readers, Times

VARIABLES
  log,    \* the times of the frames written
  next,   \* reader -> index of the frame it gets next, 0 if it reads nothing
  last,   \* reader -> the frame it got last, 0 for none
  asked,  \* reader -> the time it has asked for
  late    \* readers that are late

Init ==
  /\ log = <<>>
  /\ next = [r \in Readers |-> 0]
  /\ last = [r \in Readers |-> 0]
  /\ asked = [r \in Readers |-> 0]
  /\ late = {}

AppendFrame(t) ==
  /\ \A i \in DOMAIN log : log[i] < t
  /\ log' = Append(log, t)
  /\ UNCHANGED <<next, last, asked, late>>

Ask(r, t) ==
  /\ next[r] = 0
  /\ asked' = [asked EXCEPT ![r] = t]
  /\ late' \in {late \cup {r}, late \ {r}}
  /\ UNCHANGED <<log, next, last>>

(* The reader is put before the first frame that is not earlier than t. *)
Attach(r, t) ==
  /\ next[r] = 0
  /\ t >= asked[r] /\ (r \notin late => t = asked[r])
  /\ \E n \in 1 .. Len(log) + 1 :
       /\ \A i \in DOMAIN log : log[i] < t <=> i < n
       /\ next' = [next EXCEPT ![r] = n]
  /\ asked' = [asked EXCEPT ![r] = 0] /\ late' = late \ {r}
  /\ UNCHANGED <<log, last>>

Detach(r) ==
  /\ next' = [next EXCEPT ![r] = 0]
  /\ UNCHANGED <<log, last, asked, late>>

Deliver(r) ==
  /\ next[r] \in DOMAIN log
  /\ last' = [last EXCEPT ![r] = log[next[r]]]
  /\ next' = [next EXCEPT ![r] = @ + 1]
  /\ UNCHANGED <<log, asked, late>>

Next ==
  \/ \E t \in Times : AppendFrame(t)
  \/ \E r \in Readers : Detach(r) \/ Deliver(r) \/ \E t \in Times : Ask(r, t) \/ Attach(r, t)

Spec == Init /\ [][Next]_<<log, next, last, asked, late>>
=============================================================================
