----------------------------- MODULE MCDxClient -----------------------------
(* TLC instances of DxClient. *)
EXTENDS DxClient

=============================================================================
