--------------------------- MODULE MCTradeEngine ---------------------------
(* A trade engine with few strategies: the cfg files choose the bounds. *)
EXTENDS TradeEngine
=============================================================================
