--------------------------- MODULE MCRefundExecution ---------------------------
EXTENDS RefundExecution, TLC

\* Refunds and calls are interchangeable; orders are ordered by createdAt.
Interchangeable == Permutations(Refunds) \cup Permutations(Handlers)
=============================================================================
