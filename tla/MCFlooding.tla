----------------------------- MODULE MCFlooding -----------------------------
EXTENDS Flooding

\* A triangle: packets come by two ways and can go round.
Triangle == {{0, 1}, {1, 2}, {0, 2}}
\* One wire fails and changes its cost.
Pair01 == {{0, 1}}
\* Each wire has a cost of its own.
MCInitialCost == [n \in Node |-> [m \in Node |-> n + m + 1]]
\* Router 0 counts to two, router 1 to one; router 2 passes packets on.
MCMaxNumber == [n \in Node |-> 2 - n]
=============================================================================
