--------------------------- MODULE MCPageService ---------------------------
(* PageService on small pages: the cfg files choose the bounds. *)
EXTENDS PageService
=============================================================================
