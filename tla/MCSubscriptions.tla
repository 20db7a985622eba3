-------------------------- MODULE MCSubscriptions --------------------------
(* Instances of Subscriptions for TLC.                                     *)
EXTENDS Subscriptions

(* Requests are only compared.                                             *)
RequestSymmetry == Permutations(Requests)
=============================================================================
