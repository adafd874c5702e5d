------------------------ MODULE MCVerificationPayment ------------------------
(* Small instances of VerificationPayment for TLC. *)
EXTENDS VerificationPayment, TLC

\* Orders and handler slots carry no identity of their own.
Interchangeable == Permutations(Orders) \cup Permutations(Handlers)
=============================================================================
