----------------------------- MODULE MCReportSale -----------------------------
EXTENDS ReportSale, TLC

\* Nothing in the code orders buyers, orders, refunds or requests.
Interchangeable ==
  Permutations(Buyers) \cup Permutations(Orders)
    \cup Permutations(Refunds) \cup Permutations(Handlers)
=============================================================================
