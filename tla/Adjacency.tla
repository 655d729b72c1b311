----------------------------- MODULE Adjacency -----------------------------
(***************************************************************************)
(* CS438/MP2: the triangular array of link costs of a router (linkstate.c).*)
(* The cost of the link between i and j is kept once, for the larger of    *)
(* the two first; 0 means that there is no link.                           *)
(***************************************************************************)
EXTENDS Integers

CONSTANT N   \* the number of node IDs; they are bytes in the program

ASSUME NAssumption == N \in Nat \ {0}

Node == 0 .. N - 1

ADJACENCY_ARRAY_LEN == ((N - 1) * N) \div 2
Index == 0 .. ADJACENCY_ARRAY_LEN - 1

getIndex(i, j) == ((i - 1) * i) \div 2 + j

PairIndex(i, j) == IF i < j THEN getIndex(j, i) ELSE getIndex(i, j)

getCost(a, i, j) == a[PairIndex(i, j)]

isConnected(a, i, j) == getCost(a, i, j) # 0

setCost(a, i, j, newCost) == [a EXCEPT ![PairIndex(i, j)] = newCost]
=============================================================================
