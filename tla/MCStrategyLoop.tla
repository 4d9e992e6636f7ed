---------------------------- MODULE MCStrategyLoop ----------------------------
(* Two bars, the start of the first may be over. *)
EXTENDS StrategyLoop

TwoBars == <<2, 3, 4>>
=============================================================================
