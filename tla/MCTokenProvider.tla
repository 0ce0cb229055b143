--------------------------- MODULE MCTokenProvider ---------------------------
(* TokenProvider for TLC: the constants are given in the .cfg. *)
EXTENDS TokenProvider
=============================================================================
