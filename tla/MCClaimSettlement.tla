--------------------------- MODULE MCClaimSettlement ---------------------------
(* Small instances of ClaimSettlement for TLC. *)
EXTENDS ClaimSettlement, TLC

\* Earnings, claims and sessions carry no identity of their own.
Interchangeable ==
  Permutations(Earnings) \cup Permutations(Claims) \cup Permutations(Sessions)
=============================================================================
