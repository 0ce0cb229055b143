----------------------- MODULE MCSubscriptionManager -----------------------
(* TLC instances of SubscriptionManager. *)
EXTENDS SubscriptionManager, TLC

CallerSymmetry == Permutations(Callers)
KeySymmetry == Permutations(Keys) \cup CallerSymmetry

=============================================================================
