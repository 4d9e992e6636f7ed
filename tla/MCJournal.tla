----------------------------- MODULE MCJournal -----------------------------
(* Journal on small pages: the cfg files choose the sizes. *)
EXTENDS Journal
=============================================================================
