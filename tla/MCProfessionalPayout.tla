------------------------- MODULE MCProfessionalPayout -------------------------
EXTENDS ProfessionalPayout, TLC

\* The code never orders ids of earnings, records, transfers or handlers.
Interchangeable ==
  Permutations(Earnings) \cup Permutations(Records)
    \cup Permutations(Transfers) \cup Permutations(Handlers)
=============================================================================
