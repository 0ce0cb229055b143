----------------------------- MODULE MCTraffic -----------------------------
(* TLC instance of Traffic. *)
EXTENDS Traffic, TLC

KeySymmetry == Permutations(Keys)

=============================================================================
