------------------------------ MODULE MCIngress ------------------------------
(* TLC instances of Ingress. *)
EXTENDS Ingress

=============================================================================
