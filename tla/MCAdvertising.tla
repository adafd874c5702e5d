------------------------------ MODULE MCAdvertising ------------------------------
(* Small instances of Advertising for TLC. *)
EXTENDS Advertising, TLC

Interchangeable ==
  Permutations(Payments) \cup Permutations(Returns) \cup Permutations(Tokens)
    \cup Permutations(Handlers)
=============================================================================
