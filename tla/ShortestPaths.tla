--------------------------- MODULE ShortestPaths ---------------------------
(***************************************************************************)
(* CS438/MP2: dijkstra() of linkstate.c, which the listening thread of a   *)
(* router runs for every message it forwards, while the checkNeighbor      *)
(* thread may take links of the router out of the same array, without a    *)
(* lock. The scan over the neighbours of a node is one step per neighbour, *)
(* and two where a link is found: the test that it exists and the read of  *)
(* its cost, between which the other thread can come.                      *)
(***************************************************************************)
EXTENDS Adjacency, Sequences, SequencesExt, FiniteSetsExt

CONSTANTS globalMyID,  \* the router that computes
          Costs        \* the costs a link may have, and 0 for no link

ASSUME MyIDAssumption == globalMyID \in Node
ASSUME CostsAssumption == Costs \subseteq Nat /\ 0 \in Costs

VARIABLES
  adjacency_array,
  forwarding_table,  \* for each destination its cost and next hop
  tentative,         \* tentative_array, its first tentative_num elements
  sourceNode,        \* the node whose neighbours are scanned
  i,                 \* the neighbour the scan has come to
  pc,                \* "idle", outside dijkstra(); "scan"; "read", between the
                     \* test and the read of a link
  seen,              \* history: the costs of the own links as the scan met them
  torn               \* history: a link went away between its test and its read

dijkstraVars == <<adjacency_array, forwarding_table, tentative, sourceNode, i, pc, seen, torn>>

None == -1
Entry == [cost : Nat \cup {None}, next_hop : Node \cup {None}]
Element == [dest : Node, cost : Nat, dest_prev : Node, next_hop : Node]

DijkstraTypeOK ==
  /\ adjacency_array \in [Index -> Costs] /\ seen \in [Index -> Costs]
  /\ forwarding_table \in [Node -> Entry]
  /\ tentative \in Seq(Element)
  /\ sourceNode \in Node \cup {None}
  /\ i \in 0 .. N
  /\ pc \in {"idle", "scan", "read"}
  /\ torn \in BOOLEAN

Unreached == [cost |-> None, next_hop |-> None]

DijkstraInit ==
  /\ adjacency_array \in [Index -> Costs]
  /\ forwarding_table = [n \in Node |-> Unreached]
  /\ tentative = <<>> /\ sourceNode = None /\ i = 0 /\ pc = "idle"
  /\ seen = adjacency_array /\ torn = FALSE

-----------------------------------------------------------------------------
Settled(n) == forwarding_table[n].cost # None
InTentative(n) == \E k \in DOMAIN tentative : tentative[k].dest = n
PositionOf(n) == CHOOSE k \in DOMAIN tentative : tentative[k].dest = n

\* Mutant: the entries of the last computation stay.
CallWithoutReset ==
  /\ pc = "idle"
  /\ forwarding_table' = [forwarding_table EXCEPT
                            ![globalMyID] = [cost |-> 0, next_hop |-> None]]
  /\ tentative' = <<>>
  /\ sourceNode' = globalMyID /\ i' = 0 /\ pc' = "scan"
  /\ seen' = adjacency_array /\ torn' = FALSE
  /\ UNCHANGED adjacency_array

Call ==
  /\ pc = "idle"
  /\ forwarding_table' = [n \in Node |-> IF n = globalMyID
                                         THEN [cost |-> 0, next_hop |-> None]
                                         ELSE Unreached]
  /\ tentative' = <<>>
  /\ sourceNode' = globalMyID /\ i' = 0 /\ pc' = "scan"
  /\ seen' = adjacency_array /\ torn' = FALSE
  /\ UNCHANGED adjacency_array

\* What the scan of the own links finds is what the result depends on.
Notice == seen' = IF sourceNode = globalMyID /\ i # globalMyID
                  THEN setCost(seen, globalMyID, i,
                               getCost(adjacency_array, globalMyID, i))
                  ELSE seen

Test ==
  /\ pc = "scan" /\ i < N
  /\ IF i # sourceNode /\ isConnected(adjacency_array, sourceNode, i) /\ ~Settled(i)
     THEN pc' = "read" /\ i' = i
     ELSE pc' = "scan" /\ i' = i + 1
  /\ Notice
  /\ UNCHANGED <<adjacency_array, forwarding_table, tentative, sourceNode, torn>>

\* Mutant: the next hop is the destination.
HopToDirect(n) == n

\* The hop that leads to a neighbour of the node that is scanned, when it is found.
HopTo(n) == IF forwarding_table[sourceNode].next_hop = None THEN n
            ELSE forwarding_table[sourceNode].next_hop

\* Mutant: without the tie break.
BetterFirst(new, old) == new.cost < old.cost

\* A path of equal cost replaces the old one when it comes from a smaller node.
Better(new, old) ==
  \/ new.cost < old.cost
  \/ new.cost = old.cost /\ new.dest_prev < old.dest_prev

\* A new element is appended; one that is there is replaced by a better one, whose
\* hop is the one of the node that is scanned as it stands.
Relax(new) ==
  LET update == [new EXCEPT !.next_hop = forwarding_table[sourceNode].next_hop]
      k == PositionOf(new.dest)
  IN  tentative' = IF ~InTentative(new.dest)
                   THEN Append(tentative, [new EXCEPT !.next_hop = HopTo(new.dest)])
                   ELSE IF Better(new, tentative[k])
                   THEN [tentative EXCEPT ![k] = update]
                   ELSE tentative

Read ==
  /\ pc = "read"
  /\ Relax([dest |-> i,
            cost |-> forwarding_table[sourceNode].cost
                       + getCost(adjacency_array, sourceNode, i),
            dest_prev |-> sourceNode,
            next_hop |-> None])
  /\ pc' = "scan" /\ i' = i + 1
  /\ Notice
  /\ UNCHANGED <<adjacency_array, forwarding_table, sourceNode, torn>>

\* The first of the elements of smallest cost.
getSmallestCostElement ==
  CHOOSE k \in DOMAIN tentative :
    \A l \in DOMAIN tentative :
      \/ tentative[k].cost < tentative[l].cost
      \/ tentative[k].cost = tentative[l].cost /\ k <= l

\* Mutant: the element that is chosen stays.
SelectKeeps ==
  /\ pc = "scan" /\ i = N
  /\ tentative # <<>>
  /\ LET e == tentative[getSmallestCostElement]
     IN  /\ forwarding_table' = [forwarding_table EXCEPT ![e.dest] =
                                   [cost |-> e.cost, next_hop |-> e.next_hop]]
         /\ sourceNode' = e.dest
  /\ i' = 0
  /\ UNCHANGED <<adjacency_array, tentative, pc, seen, torn>>

\* updateForwardingTable: without a tentative element the computation is over.
Select ==
  /\ pc = "scan" /\ i = N
  /\ tentative # <<>>
  /\ LET k == getSmallestCostElement
         e == tentative[k]
     IN  /\ forwarding_table' = [forwarding_table EXCEPT ![e.dest] =
                                   [cost |-> e.cost, next_hop |-> e.next_hop]]
         /\ tentative' = RemoveAt(tentative, k)
         /\ sourceNode' = e.dest
  /\ i' = 0
  /\ UNCHANGED <<adjacency_array, pc, seen, torn>>

Return ==
  /\ pc = "scan" /\ i = N
  /\ tentative = <<>>
  /\ sourceNode' = None
  /\ pc' = "idle"
  /\ i' = 0
  /\ UNCHANGED <<adjacency_array, forwarding_table, tentative, seen, torn>>

\* checkNeighbor on a neighbour that has not been heard of for too long.
Cut(n) ==
  /\ n # globalMyID /\ isConnected(adjacency_array, globalMyID, n)
  /\ adjacency_array' = setCost(adjacency_array, globalMyID, n, 0)
  /\ torn' = (torn \/ (pc = "read" /\ sourceNode = globalMyID /\ i = n))
  /\ UNCHANGED <<forwarding_table, tentative, sourceNode, i, pc, seen>>

Compute == Test \/ Read \/ Select \/ Return

DijkstraNext == Call \/ Compute \/ \E n \in Node : Cut(n)

DijkstraSpec == DijkstraInit /\ [][DijkstraNext]_dijkstraVars
DijkstraFairSpec == DijkstraSpec /\ WF_dijkstraVars(Compute)

-----------------------------------------------------------------------------
(* Reference: the length of a shortest path from n, found by as many rounds of
   relaxing all links as a path can have links. *)

LinkFrom(a, n, m) == n # m /\ isConnected(a, n, m)

Round(a, dist) ==
  [m \in Node |->
     LET via == {dist[n] + getCost(a, n, m) :
                   n \in {x \in Node : LinkFrom(a, x, m) /\ dist[x] # None}}
         all == via \cup ({dist[m]} \ {None})
     IN  IF all = {} THEN None ELSE Min(all)]

Distance(a, n) ==
  LET dist[k \in 0 .. N - 1] ==
        IF k = 0 THEN [m \in Node |-> IF m = n THEN 0 ELSE None]
        ELSE Round(a, dist[k - 1])
  IN  dist[N - 1]

Done == pc = "idle" /\ Settled(globalMyID) /\ ~torn
Reachable(n) == n # globalMyID /\ Settled(n)

\* The costs are those of shortest paths over the links the scan met, whatever
\* links the other thread took out during the computation.
ShortestCosts ==
  Done => LET dist == Distance(seen, globalMyID)
          IN  \A n \in Node : forwarding_table[n].cost = dist[n]

\* A message sent to the next hop comes nearer to its destination by the cost of
\* the link, so that routers with the same view of the network never send it
\* round a loop (monitor_neighbors.c:241).
NextHopIsNearer ==
  Done => \A hop \in {forwarding_table[n].next_hop : n \in {m \in Node : Reachable(m)}} :
            /\ LinkFrom(seen, globalMyID, hop)
            /\ LET dist == Distance(seen, hop)
               IN  \A n \in Node :
                     Reachable(n) /\ forwarding_table[n].next_hop = hop =>
                       forwarding_table[n].cost
                         = getCost(seen, globalMyID, hop) + dist[n]

\* Among the shortest paths the one is taken whose last node before the
\* destination is the smallest, and so on back to the router: the order in which
\* nodes were found or selected makes no difference.
SmallestPredecessor ==
  Done => \A n \in Node : Reachable(n) =>
    LET prev == Min({m \in Node : /\ LinkFrom(seen, m, n) /\ Settled(m)
                                  /\ forwarding_table[m].cost + getCost(seen, m, n)
                                       = forwarding_table[n].cost})
    IN  forwarding_table[n].next_hop
          = IF prev = globalMyID THEN n ELSE forwarding_table[prev].next_hop

\* Every call returns (the listening thread serves nothing else meanwhile).
CallReturns == pc # "idle" ~> pc = "idle"
=============================================================================
