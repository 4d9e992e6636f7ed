--------------------------- MODULE MCPageEngine ---------------------------
(* PageEngine on small instances: the cfg files choose clients and bounds. *)
EXTENDS PageEngine
=============================================================================
