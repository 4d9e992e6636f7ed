---------------------------- MODULE MCPositions ----------------------------
(* Fees: all alike, closing of one price, three prices, open and close today alike. *)
EXTENDS Positions

Setup(a, b, c) == [i \in 0 .. 2 |-> CASE i = 0 -> a [] i = 1 -> b [] i = 2 -> c]
Setups == {Setup(1, 1, 1), Setup(0, 2, 2), Setup(1, 3, 2), Setup(1, 1, 0)}
=============================================================================
