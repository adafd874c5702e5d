-------------------------- MODULE MCWeeklySettlement --------------------------
EXTENDS WeeklySettlement
=============================================================================
