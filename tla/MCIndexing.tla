----------------------------- MODULE MCIndexing -----------------------------
(* Indexing on instances small enough for TLC. *)
EXTENDS Indexing
=============================================================================
