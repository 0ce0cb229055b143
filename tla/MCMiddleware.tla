---------------------------- MODULE MCMiddleware ----------------------------
(* TLC instance of Middleware; the requests are interchangeable. *)
EXTENDS Middleware, TLC

RequestSymmetry == Permutations(Requests)

=============================================================================
