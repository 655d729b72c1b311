-------------------------- MODULE MCRateMonotonic --------------------------
EXTENDS RateMonotonic, TLC
CONSTANTS a, b
\* Alone each fits the bound (3333 and 4000 of 6930); together they do not.
MCPeriod == [p \in Task |-> IF p = a THEN 150 ELSE 500]
MCComputation == [p \in Task |-> IF p = a THEN 50 ELSE 200]
=============================================================================
