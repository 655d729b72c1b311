--------------------------- MODULE LinkStateProofs --------------------------
(***************************************************************************)
(* CS438/MP2. For any network, any costs and any bounds:                   *)
(*   - Flooding: type correctness, that nobody is ahead of the numbers of  *)
(*     an originator, and that routers with the same packets agree;        *)
(*   - ShortestPaths: type correctness, and that a computation ends with   *)
(*     the costs and the next hops of the shortest paths, ties resolved.   *)
(* Both rest on the triangular array of link costs.                        *)
(***************************************************************************)
EXTENDS Flooding, ShortestPaths, FiniteSetTheorems, WellFoundedInduction, TLAPS

-----------------------------------------------------------------------------
(* The triangular array of link costs: an index for every pair of nodes,     *)
(* inside the array, and another one for every other pair (linkstate.c).     *)

\* The product of neighbouring numbers grows by twice the smaller one.
LEMMA ProductStep ==
  ASSUME NEW m \in Nat, NEW k \in Nat, m < k
  PROVE  (m - 1) * m + 2 * m <= (k - 1) * k
<1>1. (m - 1) * m + 2 * m = m * (m + 1)
  OBVIOUS
<1>2. m * (m + 1) <= m * k
  OBVIOUS
<1>3. m * k <= (k - 1) * k
  OBVIOUS
<1> QED BY <1>1, <1>2, <1>3

\* The row of a node ends before the row of a later one begins.
LEMMA RowsApart ==
  ASSUME NEW m \in Nat, NEW k \in Nat, m < k
  PROVE  ((m - 1) * m) \div 2 + m <= ((k - 1) * k) \div 2
<1> DEFINE p == (m - 1) * m
           q == (k - 1) * k
<1>1. p \in Int /\ q \in Int
  OBVIOUS
<1>2. p + 2 * m <= q
  BY ProductStep
<1> HIDE DEF p, q
<1>3. p \div 2 + m <= q \div 2
  BY <1>1, <1>2
<1> QED BY <1>3 DEF p, q

\* The indices of a row.
LEMMA RowBounds ==
  ASSUME NEW u \in Node, NEW j \in Node, j < u
  PROVE  /\ getIndex(u, j) \in Nat
         /\ ((u - 1) * u) \div 2 <= getIndex(u, j)
         /\ getIndex(u, j) < ((u - 1) * u) \div 2 + u
         /\ ((u - 1) * u) \div 2 \in Nat
<1>1. u \in Nat /\ j \in Nat /\ u > 0
  BY NAssumption DEF Node
<1>2. (u - 1) * u \in Nat
  BY <1>1
<1>3. ((u - 1) * u) \div 2 \in Nat
  BY <1>2
<1> QED BY <1>1, <1>3 DEF getIndex

\* Every pair of nodes has its entry in the array (linkstate.c:20), whichever of
\* the two is named first: no look-up of getCost or setCost leaves it.
THEOREM IndexInArray ==
  ASSUME NEW u \in Node, NEW j \in Node, u # j
  PROVE  PairIndex(u, j) \in Index
<1>1. ASSUME NEW m \in Node, NEW k \in Node, k < m
      PROVE  getIndex(m, k) \in Index
  <2>1. m \in Nat /\ N \in Nat /\ m < N
    BY NAssumption DEF Node
  <2>2. ((m - 1) * m) \div 2 + m <= ADJACENCY_ARRAY_LEN
    BY <2>1, RowsApart DEF ADJACENCY_ARRAY_LEN
  <2>3. ADJACENCY_ARRAY_LEN \in Int
    BY <2>1 DEF ADJACENCY_ARRAY_LEN
  <2>4. getIndex(m, k) < ADJACENCY_ARRAY_LEN /\ getIndex(m, k) \in Nat
    BY <1>1, <2>1, <2>2, <2>3, RowBounds
  <2> QED BY <2>3, <2>4 DEF Index
<1>2. u \in Int /\ j \in Int
  BY NAssumption DEF Node
<1> QED BY <1>1, <1>2 DEF PairIndex

\* Two pairs never share an entry.
LEMMA EntriesApart ==
  ASSUME NEW u \in Node, NEW j \in Node, NEW m \in Node, NEW k \in Node,
         j < u, k < m, getIndex(u, j) = getIndex(m, k)
  PROVE  u = m /\ j = k
<1>1. u \in Nat /\ j \in Nat /\ m \in Nat /\ k \in Nat
  BY NAssumption DEF Node
<1>2. ASSUME u < m PROVE FALSE
  BY <1>1, <1>2, RowsApart, RowBounds
<1>3. ASSUME m < u PROVE FALSE
  BY <1>1, <1>3, RowsApart, RowBounds
<1>4. u = m
  BY <1>1, <1>2, <1>3
<1>5. j = k
  <2>1. ((u - 1) * u) \div 2 \in Nat
    BY RowBounds
  <2> QED BY <1>1, <1>4, <2>1 DEF getIndex
<1> QED BY <1>4, <1>5

\* whichever of its nodes is named first.
LEMMA PairsApart ==
  ASSUME NEW u \in Node, NEW j \in Node, u # j,
         NEW m \in Node, NEW k \in Node, m # k
  PROVE  PairIndex(u, j) = PairIndex(m, k) <=> {m, k} = {u, j}
<1>1. u \in Int /\ j \in Int /\ m \in Int /\ k \in Int
  BY NAssumption DEF Node
<1>2. CASE {m, k} = {u, j}
  <2>1. (m = u /\ k = j) \/ (m = j /\ k = u)
    BY <1>2
  <2> QED BY <1>1, <1>2, <2>1 DEF PairIndex
<1>3. CASE {m, k} # {u, j}
  <2>1. ~(m = u /\ k = j) /\ ~(m = j /\ k = u)
    BY <1>3
  <2>2. CASE j < u /\ k < m
    BY <1>1, <1>3, <2>1, <2>2, EntriesApart DEF PairIndex
  <2>3. CASE j < u /\ m < k
    BY <1>1, <1>3, <2>1, <2>3, EntriesApart DEF PairIndex
  <2>4. CASE u < j /\ k < m
    BY <1>1, <1>3, <2>1, <2>4, EntriesApart DEF PairIndex
  <2>5. CASE u < j /\ m < k
    BY <1>1, <1>3, <2>1, <2>5, EntriesApart DEF PairIndex
  <2> QED BY <1>1, <2>2, <2>3, <2>4, <2>5
<1> QED BY <1>2, <1>3

\* What is written for a link is read for it from either end, and no other link
\* changes: timing out a neighbour, or the packet of a router, leaves the costs
\* of all other links alone.
THEOREM OneLinkWritten ==
  ASSUME NEW a \in [Index -> Nat], NEW newCost \in Nat,
         NEW u \in Node, NEW j \in Node, u # j,
         NEW m \in Node, NEW k \in Node, m # k
  PROVE  getCost(setCost(a, u, j, newCost), m, k)
           = IF {m, k} = {u, j} THEN newCost ELSE getCost(a, m, k)
<1>1. /\ u \in Int /\ j \in Int /\ m \in Int /\ k \in Int
      /\ PairIndex(u, j) \in Index /\ PairIndex(m, k) \in Index
  BY NAssumption, IndexInArray DEF Node
<1>2. CASE {m, k} = {u, j}
  <2>1. (m = u /\ k = j) \/ (m = j /\ k = u)
    BY <1>2
  <2>2. PairIndex(m, k) = PairIndex(u, j)
    BY <1>1, <2>1 DEF PairIndex
  <2> QED BY <1>1, <1>2, <2>2 DEF getCost, setCost
<1>3. CASE {m, k} # {u, j}
  <2>1. PairIndex(m, k) # PairIndex(u, j)
    BY <1>3, PairsApart
  <2> QED BY <1>1, <1>3, <2>1 DEF getCost, setCost
<1> QED BY <1>2, <1>3

-----------------------------------------------------------------------------
(* What the operators of the model return. *)

\* The costs a router finds in its costs file are costs.
LEMMA CostFacts ==
  /\ 0 \in Cost /\ NewCost \in Cost \ {0}
  /\ InitialCost \in [Node -> [Node -> Cost \ {0}]]
BY CostAssumption DEF Cost

\* Writing a cost leaves an array of costs.
LEMMA SetCostType ==
  ASSUME NEW a \in [Index -> Cost], NEW n, NEW m, NEW c \in Cost
  PROVE  setCost(a, n, m, c) \in [Index -> Cost]
BY DEF setCost

\* Hearing from a neighbour does.
LEMMA HeardType ==
  ASSUME TypeOK, NEW n \in Node, NEW m \in Node
  PROVE  Heard(n, m) \in [Index -> Cost]
<1>1. adjacency_arrays[n] \in [Index -> Cost] /\ direct_cost[n][m] \in Cost
  BY DEF TypeOK
<1> QED BY <1>1, SetCostType DEF Heard

\* A packet does.
LEMMA UpdatedType ==
  ASSUME NEW a \in [Index -> Cost], NEW origin \in Node, NEW links \in SUBSET Pair
  PROVE  Updated(a, origin, links) \in [Index -> Cost]
<1> DEFINE pairs(k) == {l \in links : PairIndex(l.node, origin) = k}
           value(k) == IF pairs(k) # {} THEN (CHOOSE l \in pairs(k) : TRUE).cost
                       ELSE IF \E m \in Node \ {origin} : PairIndex(m, origin) = k
                       THEN 0 ELSE a[k]
<1>1. ASSUME NEW k \in Index PROVE value(k) \in Cost
  <2>1. CASE pairs(k) # {}
    <3>1. (CHOOSE l \in pairs(k) : TRUE) \in pairs(k)
      BY <2>1
    <3>2. (CHOOSE l \in pairs(k) : TRUE) \in Pair
      BY <3>1
    <3>3. (CHOOSE l \in pairs(k) : TRUE).cost \in Cost
      BY <3>2 DEF Pair
    <3> QED BY <2>1, <3>3
  <2>2. CASE pairs(k) = {}
    BY <2>2, CostFacts
  <2> QED BY <2>1, <2>2
<1>2. Updated(a, origin, links) = [k \in Index |-> value(k)]
  BY DEF Updated
<1> HIDE DEF value
<1> QED BY <1>1, <1>2

\* The links a router finds in its array have a cost.
LEMMA LinksType ==
  ASSUME NEW a \in [Index -> Cost], NEW n \in Node
  PROVE  LinksOf(a, n) \in SUBSET Pair
<1>1. ASSUME NEW m \in Node, Connected(a, n, m)
      PROVE  [node |-> m, cost |-> getCost(a, n, m)] \in Pair
  <2>1. PairIndex(n, m) \in Index
    BY <1>1, IndexInArray DEF Connected
  <2> QED BY <1>1, <2>1 DEF Connected, isConnected, getCost, Pair
<1> QED BY <1>1 DEF LinksOf

\* Sending adds packets to the ends of the queues.
LEMMA BroadcastType ==
  ASSUME NEW q \in [Node -> Seq(LSP)], NEW n \in Node, NEW a, NEW from,
         NEW origin \in Node, NEW number \in Nat, NEW links \in SUBSET Pair
  PROVE  broadcastLSP(q, n, a, from, origin, number, links) \in [Node -> Seq(LSP)]
<1> DEFINE p == [from |-> n, origin |-> origin, number |-> number, links |-> links]
<1>1. p \in LSP
  BY DEF LSP
<1>2. ASSUME NEW m \in Node PROVE Append(q[m], p) \in Seq(LSP)
  BY <1>1
<1> QED BY <1>2 DEF broadcastLSP

\* Nothing else is added than the packet that is sent, by another router, and the rest
\* keeps its place.
LEMMA BroadcastEntries ==
  ASSUME NEW q \in [Node -> Seq(LSP)], NEW n \in Node, NEW a, NEW from,
         NEW origin \in Node, NEW number \in Nat, NEW links \in SUBSET Pair,
         NEW m \in Node,
         NEW k \in DOMAIN broadcastLSP(q, n, a, from, origin, number, links)[m]
  PROVE  LET p == broadcastLSP(q, n, a, from, origin, number, links)[m][k]
         IN  \/ k \in DOMAIN q[m] /\ p = q[m][k]
             \/ /\ n # m
                /\ p = [from |-> n, origin |-> origin, number |-> number, links |-> links]
<1> DEFINE p == [from |-> n, origin |-> origin, number |-> number, links |-> links]
           b == broadcastLSP(q, n, a, from, origin, number, links)
<1>1. (b[m] = Append(q[m], p) /\ n # m) \/ b[m] = q[m]
  BY DEF broadcastLSP, Connected
<1>2. CASE b[m] = q[m]
  BY <1>2
<1>3. CASE b[m] = Append(q[m], p) /\ n # m
  <2>1. k \in 1 .. Len(q[m]) + 1 /\ q[m] \in Seq(LSP)
    BY <1>3
  <2>2. CASE k = Len(q[m]) + 1
    BY <1>3, <2>1, <2>2
  <2>3. CASE k # Len(q[m]) + 1
    BY <1>3, <2>1, <2>3
  <2> QED BY <2>2, <2>3
<1> QED BY <1>1, <1>2, <1>3

-----------------------------------------------------------------------------
(* Type correctness. *)

\* main starts with an array of zeros and the costs of the file.
LEMMA InitTypes == Init => TypeOK
<1> SUFFICES ASSUME Init PROVE TypeOK
  OBVIOUS
<1>1. /\ adjacency_arrays \in [Node -> [Index -> Cost]]
      /\ direct_cost \in [Node -> [Node -> Cost \ {0}]]
  BY CostFacts DEF Init, NoLinks
<1>2. queue \in [Node -> Seq(LSP)]
  BY DEF Init
<1>3. issued \in [Node -> Nat] /\ sequence_number \in [Node -> [Node -> Nat]]
  BY DEF Init, NoPackets
<1> QED BY <1>1, <1>2, <1>3, BoundsAssumption DEF Init, TypeOK

\* The two steps that write a cost the router has by itself.
LEMMA CostSteps ==
  ASSUME TypeOK, NEW n \in Node, NEW m \in Node,
         HearHeartbeat(n, m) \/ TimeOut(n, m) \/ ChangeCost(n, m)
  PROVE  TypeOK'
<1>1. CASE HearHeartbeat(n, m)
  <2>1. adjacency_arrays' \in [Node -> [Index -> Cost]]
    BY <1>1, HeardType DEF HearHeartbeat, TypeOK
  <2> QED BY <1>1, <2>1 DEF HearHeartbeat, TypeOK, history
<1>2. CASE TimeOut(n, m)
  <2>1. setCost(adjacency_arrays[n], n, m, 0) \in [Index -> Cost]
    BY SetCostType, CostFacts DEF TypeOK
  <2>2. adjacency_arrays' \in [Node -> [Index -> Cost]]
    BY <1>2, <2>1 DEF TimeOut, TypeOK
  <2> QED BY <1>2, <2>2 DEF TimeOut, TypeOK, history
<1>3. CASE ChangeCost(n, m)
  <2>1. setCost(adjacency_arrays[n], n, m, NewCost) \in [Index -> Cost]
    BY SetCostType, CostFacts DEF TypeOK
  <2>2. adjacency_arrays' \in [Node -> [Index -> Cost]]
    BY <1>3, <2>1 DEF ChangeCost, TypeOK
  <2>3. direct_cost' \in [Node -> [Node -> Cost \ {0}]]
    BY <1>3, CostFacts DEF ChangeCost, TypeOK
  <2>4. events' \in 0 .. MaxEvents
    BY <1>3, BoundsAssumption DEF ChangeCost, Event, TypeOK
  <2> QED BY <1>3, <2>2, <2>3, <2>4 DEF ChangeCost, TypeOK, history
<1> QED BY <1>1, <1>2, <1>3

\* What is remembered of a packet that is issued.
LEMMA IssueType ==
  ASSUME TypeOK, NEW n \in Node, NEW number \in Nat, NEW links \in SUBSET Pair,
         Issue(n, number, links)
  PROVE  /\ issued' \in [Node -> Nat] /\ lastLSP' \in [Node -> SUBSET Pair]
         /\ reused' \subseteq Node /\ restarted' \subseteq Node
BY DEF Issue, TypeOK

\* A router counts its number up.
LEMMA AnnounceStep ==
  ASSUME TypeOK, NEW n \in Node, Announce(n)
  PROVE  TypeOK'
<1>1. sequence_number[n][n] + 1 \in Nat
  BY DEF TypeOK
<1>2. sequence_number' \in [Node -> [Node -> Nat]]
  BY <1>1 DEF Announce, TypeOK
<1> QED BY <1>2 DEF Announce, TypeOK, history

\* A router sends the links of its array.
LEMMA BroadcastStep ==
  ASSUME TypeOK, NEW n \in Node, Broadcast(n)
  PROVE  TypeOK'
<1> DEFINE links == LinksOf(adjacency_arrays[n], n)
           number == sequence_number[n][n]
<1>1. links \in SUBSET Pair /\ number \in Nat
  <2>1. adjacency_arrays[n] \in [Index -> Cost] /\ sequence_number[n][n] \in Nat
    BY DEF TypeOK
  <2> QED BY <2>1, LinksType
<1>2. queue' \in [Node -> Seq(LSP)]
  BY <1>1, BroadcastType DEF Broadcast, TypeOK
<1>3. announced' \subseteq Node
  BY DEF Broadcast, TypeOK
<1>4. /\ issued' \in [Node -> Nat] /\ lastLSP' \in [Node -> SUBSET Pair]
      /\ reused' \subseteq Node /\ restarted' \subseteq Node
  BY <1>1, IssueType DEF Broadcast
<1> QED BY <1>2, <1>3, <1>4 DEF Broadcast, TypeOK, router

\* The packet at the head of a queue, and the queues without it.
LEMMA HeadType ==
  ASSUME TypeOK, NEW n \in Node, queue[n] # <<>>
  PROVE  /\ Head(queue[n]) \in LSP
         /\ [queue EXCEPT ![n] = Tail(@)] \in [Node -> Seq(LSP)]
<1>1. queue[n] \in Seq(LSP)
  BY DEF TypeOK
<1>2. Head(queue[n]) \in LSP /\ Tail(queue[n]) \in Seq(LSP)
  BY <1>1
<1> QED BY <1>2 DEF TypeOK

\* The tail of a sequence, entry by entry.
LEMMA TailDomain ==
  ASSUME NEW S, NEW q \in Seq(S), q # <<>>, NEW k \in DOMAIN Tail(q)
  PROVE  k + 1 \in DOMAIN q /\ Tail(q)[k] = q[k + 1]
OBVIOUS

\* The packets that are left were there before.
LEMMA RestEntries ==
  ASSUME TypeOK, NEW n \in Node, queue[n] # <<>>, NEW m \in Node,
         NEW k \in DOMAIN [queue EXCEPT ![n] = Tail(@)][m]
  PROVE  \E l \in DOMAIN queue[m] : [queue EXCEPT ![n] = Tail(@)][m][k] = queue[m][l]
<1> DEFINE rest == [queue EXCEPT ![n] = Tail(@)]
<1>1. queue[n] \in Seq(LSP)
  BY DEF TypeOK
<1>2. CASE m = n
  <2>1. rest[m] = Tail(queue[n])
    BY <1>2 DEF TypeOK
  <2>2. k \in DOMAIN Tail(queue[n])
    BY <1>2 DEF TypeOK
  <2>3. k + 1 \in DOMAIN queue[n] /\ Tail(queue[n])[k] = queue[n][k + 1]
    BY <1>1, <2>2, TailDomain
  <2> QED BY <1>2, <2>1, <2>3
<1>3. CASE m # n
  BY <1>3 DEF TypeOK
<1> QED BY <1>2, <1>3

\* A router reads a packet, accepts it or not, and passes it on.
LEMMA ReceiveStep ==
  ASSUME TypeOK, NEW n \in Node, Receive(n)
  PROVE  TypeOK'
<1> DEFINE p == Head(queue[n])
           heard == Heard(n, p.from)
           a == Updated(heard, p.origin, p.links)
           rest == [queue EXCEPT ![n] = Tail(@)]
<1>1. p \in LSP /\ rest \in [Node -> Seq(LSP)]
  BY HeadType DEF Receive
<1>2. /\ p.from \in Node /\ p.origin \in Node
      /\ p.number \in Nat /\ p.links \in SUBSET Pair
  BY <1>1 DEF LSP
<1>3. heard \in [Index -> Cost]
  BY <1>2, HeardType
<1>4. a \in [Index -> Cost]
  BY <1>2, <1>3, UpdatedType
<1>5. broadcastLSP(rest, n, a, p.from, p.origin, p.number, p.links) \in [Node -> Seq(LSP)]
  BY <1>1, <1>2, BroadcastType
<1>6. CASE Newer(n, p)
  <2>1. /\ adjacency_arrays' = [adjacency_arrays EXCEPT ![n] = a]
        /\ sequence_number' = [sequence_number EXCEPT ![n][p.origin] = p.number]
        /\ queue' = broadcastLSP(rest, n, a, p.from, p.origin, p.number, p.links)
    BY <1>6 DEF Receive
  <2> HIDE DEF a, rest, p
  <2>2. /\ adjacency_arrays' \in [Node -> [Index -> Cost]]
        /\ sequence_number' \in [Node -> [Node -> Nat]]
        /\ queue' \in [Node -> Seq(LSP)]
    BY <1>2, <1>4, <1>5, <2>1 DEF TypeOK
  <2> QED BY <2>2 DEF Receive, TypeOK, history
<1>7. CASE ~Newer(n, p)
  <2>1. /\ adjacency_arrays' = [adjacency_arrays EXCEPT ![n] = heard]
        /\ queue' = rest /\ sequence_number' = sequence_number
    BY <1>7 DEF Receive
  <2> HIDE DEF heard, rest, p
  <2>2. /\ adjacency_arrays' \in [Node -> [Index -> Cost]]
        /\ queue' \in [Node -> Seq(LSP)]
    BY <1>1, <1>3, <2>1 DEF TypeOK
  <2> QED BY <2>1, <2>2 DEF Receive, TypeOK, history
<1> QED BY <1>6, <1>7

\* A router is killed, or launched again with what main gives it.
LEMMA KillStep ==
  ASSUME TypeOK, NEW n \in Node, Kill(n) \/ Launch(n)
  PROVE  TypeOK'
<1>1. CASE Kill(n)
  <2>1. /\ NoLinks \in [Index -> Cost] /\ NoPackets \in [Node -> Nat]
        /\ InitialCost[n] \in [Node -> Cost \ {0}]
    BY CostFacts DEF NoLinks, NoPackets
  <2>2. queue' \in [Node -> Seq(LSP)]
    BY <1>1 DEF Kill, TypeOK
  <2>3. /\ adjacency_arrays' \in [Node -> [Index -> Cost]]
        /\ direct_cost' \in [Node -> [Node -> Cost \ {0}]]
        /\ sequence_number' \in [Node -> [Node -> Nat]]
    BY <1>1, <2>1 DEF Kill, TypeOK
  <2>4. events' \in 0 .. MaxEvents
    BY <1>1, BoundsAssumption DEF Kill, Event, TypeOK
  <2> QED BY <1>1, <2>2, <2>3, <2>4 DEF Kill, TypeOK
<1>2. CASE Launch(n)
  BY <1>2 DEF Launch, router, history, TypeOK
<1> QED BY <1>1, <1>2

\* and so does every other step.
LEMMA TypeStep == TypeOK /\ [Next]_vars => TypeOK'
<1> SUFFICES ASSUME TypeOK, [Next]_vars PROVE TypeOK'
  OBVIOUS
<1>1. CASE \E n \in Node : Broadcast(n) \/ Announce(n)
  BY <1>1, AnnounceStep, BroadcastStep
<1>2. CASE \E n \in Node : Receive(n)
  BY <1>2, ReceiveStep
<1>3. CASE \E n \in Node : \E m \in Node \ {n} :
             HearHeartbeat(n, m) \/ TimeOut(n, m) \/ ChangeCost(n, m)
  BY <1>3, CostSteps
<1>4. CASE \E l \in Changing : Flap(l)
  BY <1>4, BoundsAssumption DEF Flap, Event, router, history, TypeOK
<1>5. CASE \E n \in Node : Kill(n) \/ Launch(n)
  BY <1>5, KillStep
<1>6. CASE UNCHANGED vars
  BY <1>6 DEF vars, router, history, TypeOK
<1> QED BY <1>1, <1>2, <1>3, <1>4, <1>5, <1>6 DEF Next

\* Every reachable state of every network is type correct: in particular no
\* packet and no array holds a cost that no router was given (monitor_neighbors.c).
THEOREM TypeCorrect == Spec => []TypeOK
<1>1. Init => TypeOK
  BY InitTypes
<1>2. TypeOK /\ [Next]_vars => TypeOK'
  BY TypeStep
<1> QED BY <1>1, <1>2, PTL DEF Spec

-----------------------------------------------------------------------------
(* Nobody is ahead of an originator. *)

\* Nobody has given or accepted a number yet.
LEMMA InitNumbers == Init => NumbersFromOrigin
BY DEF Init, NoPackets, NumbersFromOrigin

\* A step that touches neither the numbers nor the queues.
LEMMA NumbersStutter ==
  ASSUME NumbersFromOrigin,
         UNCHANGED <<sequence_number, queue, issued, restarted>>
  PROVE  NumbersFromOrigin'
BY DEF NumbersFromOrigin

\* The numbers that were given only grow, and the one of this packet is among them.
LEMMA IssueNumbers ==
  ASSUME TypeOK, NEW n \in Node, NEW number \in Nat, NEW links,
         Issue(n, number, links)
  PROVE  /\ \A m \in Node : issued'[m] \in Nat /\ issued[m] <= issued'[m]
         /\ number <= issued'[n]
         /\ number >= issued[n] => issued'[n] = number
         /\ \A m \in Node \ {n} : issued'[m] = issued[m]
         /\ restarted' = restarted
<1>1. issued \in [Node -> Nat]
  BY DEF TypeOK
<1>2. CASE number > issued[n]
  BY <1>1, <1>2 DEF Issue
<1>3. CASE ~(number > issued[n])
  BY <1>1, <1>3 DEF Issue
<1> QED BY <1>2, <1>3

\* An originator counts its own number up.
LEMMA AnnounceNumbers ==
  ASSUME TypeOK, NumbersFromOrigin, NEW n \in Node, Announce(n)
  PROVE  NumbersFromOrigin'
<1>1. UNCHANGED <<queue, issued, restarted>>
  BY DEF Announce, history
<1>2. /\ \A x, m \in Node : sequence_number[x][m] \in Nat /\ issued[m] \in Nat
      /\ \A x, m \in Node :
           sequence_number'[x][m] = IF x = n /\ m = n THEN sequence_number[n][n] + 1
                                    ELSE sequence_number[x][m]
  BY SMTT(30) DEF Announce, TypeOK
<1>3. ASSUME NEW x \in Node, NEW m \in Node \ {x}
      PROVE  sequence_number'[x][m] <= issued'[m]
  BY <1>1, <1>2 DEF NumbersFromOrigin
<1>4. ASSUME NEW x \in Node \ restarted'
      PROVE  issued'[x] <= sequence_number'[x][x]
  BY <1>1, <1>2 DEF NumbersFromOrigin
<1> QED BY <1>1, <1>3, <1>4 DEF NumbersFromOrigin

\* It sends the number it has counted to.
LEMMA BroadcastNumbers ==
  ASSUME TypeOK, NumbersFromOrigin, NEW n \in Node, Broadcast(n)
  PROVE  NumbersFromOrigin'
<1> DEFINE links == LinksOf(adjacency_arrays[n], n)
           number == sequence_number[n][n]
<1>1. links \in SUBSET Pair /\ number \in Nat
  <2>1. adjacency_arrays[n] \in [Index -> Cost] /\ sequence_number[n][n] \in Nat
    BY DEF TypeOK
  <2> QED BY <2>1, LinksType
<1>2. /\ sequence_number' = sequence_number
      /\ queue' = broadcastLSP(queue, n, adjacency_arrays[n], n, n, number, links)
      /\ Issue(n, number, links)
  BY DEF Broadcast, router
<1>3. /\ \A m \in Node : issued'[m] \in Nat /\ issued[m] <= issued'[m]
      /\ number <= issued'[n]
      /\ number >= issued[n] => issued'[n] = number
      /\ \A m \in Node \ {n} : issued'[m] = issued[m]
      /\ restarted' = restarted
  <2> HIDE DEF links, number
  <2> QED BY <1>1, <1>2, IssueNumbers
<1>4. \A x, m \in Node : sequence_number[x][m] \in Nat /\ issued[m] \in Nat
  BY DEF TypeOK
<1>5. ASSUME NEW x \in Node, NEW m \in Node \ {x}
      PROVE  sequence_number'[x][m] <= issued'[m]
  <2>1. sequence_number[x][m] <= issued[m]
    BY DEF NumbersFromOrigin
  <2>2. issued[m] <= issued'[m] /\ issued'[m] \in Nat
    BY <1>3
  <2> QED BY <1>2, <1>4, <2>1, <2>2
<1>6. ASSUME NEW m \in Node, NEW k \in DOMAIN queue'[m]
      PROVE  queue'[m][k].number <= issued'[queue'[m][k].origin]
  <2> DEFINE p == queue'[m][k]
  <2>1. \/ k \in DOMAIN queue[m] /\ p = queue[m][k]
        \/ p.origin = n /\ p.number = number
    <3>1. queue \in [Node -> Seq(LSP)]
      BY DEF TypeOK
    <3>2. (k \in DOMAIN queue[m] /\ p = queue[m][k])
          \/ p = [from |-> n, origin |-> n, number |-> number, links |-> links]
      <4> HIDE DEF links, number
      <4> QED BY SMTT(30), <1>1, <1>2, <1>6, <3>1, BroadcastEntries
    <3> QED BY <3>2
  <2>2. CASE k \in DOMAIN queue[m] /\ p = queue[m][k]
    <3>1. p \in LSP
      BY <2>2 DEF TypeOK
    <3>2. p.origin \in Node /\ p.number \in Nat
      BY <3>1 DEF LSP
    <3>3. p.number <= issued[p.origin]
      BY <2>2 DEF NumbersFromOrigin
    <3> HIDE DEF p
    <3>4. p.number <= issued'[p.origin]
      BY <1>3, <1>4, <3>2, <3>3
    <3> QED BY <3>4 DEF p
  <2>3. CASE p.origin = n /\ p.number = number
    BY <1>3, <2>3
  <2> QED BY <2>1, <2>2, <2>3
<1>7. ASSUME NEW x \in Node \ restarted'
      PROVE  issued'[x] <= sequence_number'[x][x]
  <2>1. issued[x] <= sequence_number[x][x]
    BY <1>3 DEF NumbersFromOrigin
  <2>2. CASE x = n
    BY <1>2, <1>3, <1>4, <2>1, <2>2
  <2>3. CASE x # n
    BY <1>2, <1>3, <1>4, <2>1, <2>3
  <2> QED BY <2>2, <2>3
<1> QED BY <1>5, <1>6, <1>7 DEF NumbersFromOrigin

\* What is accepted was sent by its originator: a packet of its own is never newer
\* than the number of a router that was not killed.
LEMMA ReceiveNumbers ==
  ASSUME TypeOK, NumbersFromOrigin, NEW n \in Node, Receive(n)
  PROVE  NumbersFromOrigin'
<1> DEFINE p == Head(queue[n])
           a == Updated(Heard(n, p.from), p.origin, p.links)
           rest == [queue EXCEPT ![n] = Tail(@)]
<1>1. p \in LSP /\ rest \in [Node -> Seq(LSP)] /\ queue[n] # <<>> /\ queue[n] \in Seq(LSP)
  BY HeadType DEF Receive, TypeOK
<1>2. /\ p.from \in Node /\ p.origin \in Node
      /\ p.number \in Nat /\ p.links \in SUBSET Pair
  BY <1>1 DEF LSP
<1>3. p.number <= issued[p.origin]
  <2>1. 1 \in DOMAIN queue[n] /\ p = queue[n][1]
    BY <1>1
  <2> QED BY <2>1 DEF NumbersFromOrigin
<1>4. ASSUME NEW m \in Node, NEW k \in DOMAIN rest[m]
      PROVE  \E l \in DOMAIN queue[m] : rest[m][k] = queue[m][l]
  BY <1>1, <1>4, RestEntries
<1>5. ASSUME NEW m \in Node, NEW k \in DOMAIN rest[m]
      PROVE  rest[m][k].number <= issued[rest[m][k].origin]
  BY <1>4, <1>5 DEF NumbersFromOrigin
<1>6. issued' = issued /\ restarted' = restarted
  BY DEF Receive, history
<1>7. CASE ~Newer(n, p)
  <2>1. queue' = rest /\ sequence_number' = sequence_number
    BY <1>7 DEF Receive
  <2> HIDE DEF rest
  <2> QED BY <1>5, <1>6, <2>1 DEF NumbersFromOrigin
<1>8. CASE Newer(n, p)
  <2>1. /\ sequence_number' = [sequence_number EXCEPT ![n][p.origin] = p.number]
        /\ queue' = broadcastLSP(rest, n, a, p.from, p.origin, p.number, p.links)
    BY <1>8 DEF Receive
  <2> HIDE DEF a, rest, p
  <2>2. \A x, m \in Node :
          sequence_number'[x][m] = IF x = n /\ m = p.origin THEN p.number
                                   ELSE sequence_number[x][m]
    BY <1>2, <2>1 DEF TypeOK
  <2>3. ASSUME NEW x \in Node, NEW m \in Node \ {x}
        PROVE  sequence_number'[x][m] <= issued'[m]
    BY <1>3, <1>6, <2>2 DEF NumbersFromOrigin
  <2>4. ASSUME NEW x \in Node \ restarted
        PROVE  issued'[x] <= sequence_number'[x][x]
    <3>1. issued[x] <= sequence_number[x][x] /\ issued[x] \in Nat
          /\ sequence_number[x][x] \in Nat
      BY DEF NumbersFromOrigin, TypeOK
    <3>2. ~(x = n /\ x = p.origin)
      BY <1>2, <1>3, <1>8, <3>1 DEF Newer
    <3> QED BY <1>6, <2>2, <3>1, <3>2
  <2>5. ASSUME NEW m \in Node, NEW k \in DOMAIN queue'[m]
        PROVE  queue'[m][k].number <= issued'[queue'[m][k].origin]
    <3> DEFINE r == queue'[m][k]
           b == broadcastLSP(rest, n, a, p.from, p.origin, p.number, p.links)
    <3>1. \/ k \in DOMAIN rest[m] /\ r = rest[m][k]
          \/ r.origin = p.origin /\ r.number = p.number
      <4>1. k \in DOMAIN b[m] /\ r = b[m][k]
        BY <2>1, <2>5
      <4>2. \/ k \in DOMAIN rest[m] /\ b[m][k] = rest[m][k]
            \/ b[m][k] = [from |-> n, origin |-> p.origin, number |-> p.number,
                          links |-> p.links]
        <5>1. rest \in [Node -> Seq(LSP)]
          BY <1>1
        <5> HIDE DEF a, rest, p
        <5> QED BY <1>2, <4>1, <5>1, BroadcastEntries, SMTT(30)
      <4> QED BY <4>1, <4>2
    <3>2. CASE k \in DOMAIN rest[m] /\ r = rest[m][k]
      BY <1>5, <1>6, <3>2
    <3>3. CASE r.origin = p.origin /\ r.number = p.number
      BY <1>3, <1>6, <3>3
    <3> QED BY <3>1, <3>2, <3>3
  <2> QED BY <1>6, <2>3, <2>4, <2>5 DEF NumbersFromOrigin
<1> QED BY <1>7, <1>8

\* A router that is killed knows no numbers, and has no packets.
LEMMA KillNumbers ==
  ASSUME TypeOK, NumbersFromOrigin, NEW n \in Node, Kill(n)
  PROVE  NumbersFromOrigin'
<1>1. /\ sequence_number' = [sequence_number EXCEPT ![n] = NoPackets]
      /\ queue' = [queue EXCEPT ![n] = <<>>]
      /\ issued' = issued /\ restarted' = restarted \cup {n}
  BY DEF Kill
<1>2. ASSUME NEW x \in Node, NEW m \in Node \ {x}
      PROVE  sequence_number'[x][m] <= issued'[m]
  <2>1. issued[m] \in Nat /\ sequence_number[x][m] <= issued[m]
    BY DEF TypeOK, NumbersFromOrigin
  <2>2. sequence_number'[x][m] = IF x = n THEN 0 ELSE sequence_number[x][m]
    BY <1>1 DEF TypeOK, NoPackets
  <2> QED BY <1>1, <2>1, <2>2
<1>3. ASSUME NEW m \in Node, NEW k \in DOMAIN queue'[m]
      PROVE  queue'[m][k].number <= issued'[queue'[m][k].origin]
  <2>1. m # n /\ queue'[m] = queue[m]
    BY <1>1, <1>3 DEF TypeOK
  <2> QED BY <1>1, <1>3, <2>1 DEF NumbersFromOrigin
<1>4. ASSUME NEW x \in Node \ restarted'
      PROVE  issued'[x] <= sequence_number'[x][x]
  <2>1. x # n /\ sequence_number'[x] = sequence_number[x]
    BY <1>1 DEF TypeOK
  <2> QED BY <1>1, <2>1 DEF NumbersFromOrigin
<1> QED BY <1>2, <1>3, <1>4 DEF NumbersFromOrigin

\* No step lets anybody get ahead of an originator.
LEMMA NumbersStep == TypeOK /\ NumbersFromOrigin /\ [Next]_vars => NumbersFromOrigin'
<1> SUFFICES ASSUME TypeOK, NumbersFromOrigin, [Next]_vars PROVE NumbersFromOrigin'
  OBVIOUS
<1>1. CASE \E n \in Node : Broadcast(n) \/ Announce(n)
  BY <1>1, AnnounceNumbers, BroadcastNumbers
<1>2. CASE \E n \in Node : Receive(n)
  BY <1>2, ReceiveNumbers
<1>3. CASE \E n \in Node : \E m \in Node \ {n} :
             HearHeartbeat(n, m) \/ TimeOut(n, m) \/ ChangeCost(n, m)
  BY <1>3, NumbersStutter DEF HearHeartbeat, TimeOut, ChangeCost, history
<1>4. CASE \E l \in Changing : Flap(l)
  BY <1>4, NumbersStutter DEF Flap, router, history
<1>5. CASE \E n \in Node : Kill(n)
  BY <1>5, KillNumbers
<1>6. CASE \E n \in Node : Launch(n)
  BY <1>6, NumbersStutter DEF Launch, router, history
<1>7. CASE UNCHANGED vars
  BY <1>7, NumbersStutter DEF vars, router, history
<1> QED BY <1>1, <1>2, <1>3, <1>4, <1>5, <1>6, <1>7 DEF Next

\* In a network of any size, whoever is killed and launched again, nobody has
\* accepted from another or has in its queue a packet with a number its originator never gave
\* (monitor_neighbors.c:294), and a packet of its own that comes back is never news to
\* a router that was not killed.
THEOREM Numbers == Spec => []NumbersFromOrigin
<1>1. Init => TypeOK /\ NumbersFromOrigin
  BY InitTypes, InitNumbers
<1>2. TypeOK /\ NumbersFromOrigin /\ [Next]_vars => (TypeOK /\ NumbersFromOrigin)'
  BY TypeStep, NumbersStep
<1> QED BY <1>1, <1>2, PTL DEF Spec

-----------------------------------------------------------------------------
(* Routers with the same packets agree. *)

\* The links in a packet are links to other nodes, each with one cost.
LinksFit(origin, links) ==
  /\ \A l \in links : l.node # origin
  /\ \A l1, l2 \in links : l1.node = l2.node => l1 = l2

\* What a packet in the queue of m holds.
Fits(m, p) ==
  /\ p.from # m /\ LinksFit(p.origin, p.links)
  /\ p.number = issued[p.origin] /\ p.origin \notin reused => p.links = lastLSP[p.origin]

Carrying ==
  /\ \A m \in Node : \A k \in DOMAIN queue[m] : Fits(m, queue[m][k])
  /\ \A m \in Node : issued[m] = 0 => lastLSP[m] = {}

\* An entry is what one of the two ends of the link has said last, once the last
\* packets of both have come.
Entries ==
  \A n \in Node : \A a, b \in Node \ {n} :
    a # b /\ HasLast(n, a) /\ HasLast(n, b) =>
      \/ getCost(adjacency_arrays[n], a, b) = CostIn(lastLSP[a], b)
      \/ getCost(adjacency_arrays[n], a, b) = CostIn(lastLSP[b], a)

IInv == TypeOK /\ NumbersFromOrigin /\ Carrying /\ Entries

\* A router that writes the cost of a link of its own changes no other's.
LEMMA SetCostElsewhere ==
  ASSUME NEW a \in [Index -> Cost], NEW n \in Node, NEW m \in Node, n # m, NEW c,
         NEW x \in Node \ {n}, NEW y \in Node \ {n}, x # y
  PROVE  getCost(setCost(a, n, m, c), x, y) = getCost(a, x, y)
<1>1. PairIndex(n, m) \in Index /\ PairIndex(x, y) \in Index
  BY IndexInArray
<1>2. PairIndex(n, m) # PairIndex(x, y)
  BY PairsApart
<1> QED BY <1>1, <1>2 DEF getCost, setCost

\* A packet writes the links of its origin, and no other's.
LEMMA UpdatedValue ==
  ASSUME NEW a \in [Index -> Cost], NEW origin \in Node, NEW links \in SUBSET Pair,
         LinksFit(origin, links), NEW x \in Node, NEW y \in Node, x # y
  PROVE  getCost(Updated(a, origin, links), x, y)
           = IF x = origin THEN CostIn(links, y)
             ELSE IF y = origin THEN CostIn(links, x)
             ELSE getCost(a, x, y)
<1> DEFINE k == PairIndex(x, y)
           pairs == {l \in links : PairIndex(l.node, origin) = k}
<1>1. k \in Index
  BY IndexInArray
<1>2. getCost(Updated(a, origin, links), x, y)
        = IF pairs # {} THEN (CHOOSE l \in pairs : TRUE).cost
          ELSE IF \E m \in Node \ {origin} : PairIndex(m, origin) = k THEN 0
          ELSE a[k]
  BY <1>1 DEF getCost, Updated
<1>3. \A l \in links : l.node \in Node /\ l.node # origin
  BY DEF LinksFit, Pair
<1>4. ASSUME NEW m \in Node \ {origin}
      PROVE  PairIndex(m, origin) = k <=> {m, origin} = {x, y}
  BY PairsApart
<1>5. ASSUME NEW m \in Node \ {origin}, {m, origin} = {x, y}
      PROVE  getCost(Updated(a, origin, links), x, y) = CostIn(links, m)
  <2>1. pairs = {l \in links : l.node = m}
    <3>1. \A l \in links : PairIndex(l.node, origin) = k <=> l.node = m
      BY <1>3, <1>4, <1>5
    <3> QED BY <3>1
  <2>2. PairIndex(m, origin) = k
    BY <1>4, <1>5
  <2>3. CASE \E l \in links : l.node = m
    <3>1. PICK l \in links : l.node = m
      BY <2>3
    <3>2. (CHOOSE r \in pairs : TRUE) = l
      BY <2>1, <3>1 DEF LinksFit
    <3>3. (CHOOSE r \in links : r.node = m) = l
      BY <3>1 DEF LinksFit
    <3> QED BY <1>2, <2>1, <3>1, <3>2, <3>3 DEF CostIn
  <2>4. CASE ~\E l \in links : l.node = m
    BY <1>2, <2>1, <2>2, <2>4 DEF CostIn
  <2> QED BY <2>3, <2>4
<1>6. CASE x = origin
  BY <1>5, <1>6
<1>7. CASE x # origin /\ y = origin
  BY <1>5, <1>7
<1>8. CASE x # origin /\ y # origin
  <2>1. \A m \in Node \ {origin} : PairIndex(m, origin) # k
    BY <1>4, <1>8
  <2>2. pairs = {}
    BY <1>3, <2>1
  <2> QED BY <1>2, <1>8, <2>1, <2>2 DEF getCost
<1> QED BY <1>6, <1>7, <1>8

\* The packet a router makes of its array fits.
LEMMA OwnLinksFit ==
  ASSUME NEW a, NEW n \in Node
  PROVE  LinksFit(n, LinksOf(a, n))
BY DEF LinksFit, LinksOf, Connected

-----------------------------------------------------------------------------
(* The steps. *)

\* A step by which no packet is issued, and at most the links of a router itself
\* change in its array.
LEMMA ConvergedStutter ==
  ASSUME Carrying, Entries,
         UNCHANGED <<sequence_number, issued, lastLSP, reused>>,
         \A m \in Node : \A k \in DOMAIN queue'[m] :
           \E l \in DOMAIN queue[m] : queue'[m][k] = queue[m][l],
         \A n \in Node : \A x, y \in Node \ {n} :
           x # y => getCost(adjacency_arrays'[n], x, y) = getCost(adjacency_arrays[n], x, y)
  PROVE  Carrying' /\ Entries'
<1>1. Carrying'
  BY DEF Carrying, Fits
<1>2. Entries'
  <2> SUFFICES ASSUME NEW n \in Node, NEW x \in Node \ {n}, NEW y \in Node \ {n},
                      x # y, HasLast(n, x)', HasLast(n, y)'
               PROVE  \/ getCost(adjacency_arrays'[n], x, y) = CostIn(lastLSP'[x], y)
                      \/ getCost(adjacency_arrays'[n], x, y) = CostIn(lastLSP'[y], x)
    BY DEF Entries
  <2>1. HasLast(n, x) /\ HasLast(n, y)
    BY DEF HasLast
  <2> QED BY <2>1 DEF Entries
<1> QED BY <1>1, <1>2

\* Hearing from a neighbour, timing it out, a cost message.
LEMMA OwnLinkStep ==
  ASSUME TypeOK, Carrying, Entries, NEW n \in Node, NEW m \in Node \ {n},
         HearHeartbeat(n, m) \/ TimeOut(n, m) \/ ChangeCost(n, m)
  PROVE  Carrying' /\ Entries'
<1>1. PICK c : adjacency_arrays' = adjacency_arrays
               \/ adjacency_arrays' = [adjacency_arrays EXCEPT ![n] = setCost(@, n, m, c)]
  BY DEF HearHeartbeat, TimeOut, ChangeCost, Heard
<1>2. ASSUME NEW z \in Node, NEW x \in Node \ {z}, NEW y \in Node \ {z}, x # y
      PROVE  getCost(adjacency_arrays'[z], x, y) = getCost(adjacency_arrays[z], x, y)
  <2>1. adjacency_arrays[z] \in [Index -> Cost]
    BY DEF TypeOK
  <2>2. z = n => getCost(setCost(adjacency_arrays[n], n, m, c), x, y)
                   = getCost(adjacency_arrays[n], x, y)
    BY <1>2, <2>1, SetCostElsewhere
  <2> QED BY <1>1, <2>2 DEF TypeOK
<1>3. UNCHANGED <<queue, sequence_number, issued, lastLSP, reused>>
  BY DEF HearHeartbeat, TimeOut, ChangeCost, history
<1> QED BY <1>2, <1>3, ConvergedStutter

\* The number of a router itself is no part of what it knows of others.
LEMMA AnnounceConverged ==
  ASSUME TypeOK, Carrying, Entries, NEW n \in Node, Announce(n)
  PROVE  Carrying' /\ Entries'
<1>1. UNCHANGED <<adjacency_arrays, queue, issued, lastLSP, reused>>
  BY DEF Announce, history
<1>2. Carrying'
  BY <1>1 DEF Carrying, Fits
<1>3. ASSUME NEW x \in Node, NEW m \in Node \ {x}
      PROVE  HasLast(x, m)' <=> HasLast(x, m)
  <2>1. sequence_number'[x][m] = sequence_number[x][m]
    BY DEF Announce, TypeOK
  <2> QED BY <1>1, <2>1 DEF HasLast
<1>4. Entries'
  BY <1>1, <1>3 DEF Entries
<1> QED BY <1>2, <1>4

\* A packet that is new takes the place of the last one, for everybody.
LEMMA BroadcastConverged ==
  ASSUME TypeOK, NumbersFromOrigin, Carrying, Entries, NEW n \in Node, Broadcast(n)
  PROVE  Carrying' /\ Entries'
<1> DEFINE links == LinksOf(adjacency_arrays[n], n)
           number == sequence_number[n][n]
<1>1. links \in SUBSET Pair /\ number \in Nat /\ LinksFit(n, links)
  <2>1. adjacency_arrays[n] \in [Index -> Cost] /\ sequence_number[n][n] \in Nat
    BY DEF TypeOK
  <2> QED BY <2>1, LinksType, OwnLinksFit
<1>2. /\ UNCHANGED <<adjacency_arrays, sequence_number>>
      /\ queue' = broadcastLSP(queue, n, adjacency_arrays[n], n, n, number, links)
      /\ Issue(n, number, links)
  BY DEF Broadcast, router
<1> HIDE DEF links, number
<1>3. /\ \A m \in Node : issued[m] \in Nat
      /\ \A m \in Node \ {n} : /\ issued'[m] = issued[m] /\ lastLSP'[m] = lastLSP[m]
                               /\ m \in reused' <=> m \in reused
      /\ number > issued[n] =>
           issued'[n] = number /\ lastLSP'[n] = links /\ n \notin reused'
      /\ number <= issued[n] => issued'[n] = issued[n] /\ lastLSP'[n] = lastLSP[n]
      /\ number = issued[n] => n \in reused'
      /\ number < issued[n] => (n \in reused' <=> n \in reused)
  BY <1>1, <1>2 DEF Issue, TypeOK
<1>4. ASSUME NEW m \in Node, NEW k \in DOMAIN queue'[m]
      PROVE  Fits(m, queue[m][k])'
  <2> DEFINE p == queue'[m][k]
             sent == [from |-> n, origin |-> n, number |-> number, links |-> links]
  <2>1. (k \in DOMAIN queue[m] /\ p = queue[m][k]) \/ (n # m /\ p = sent)
    <3>1. queue \in [Node -> Seq(LSP)]
      BY DEF TypeOK
    <3> QED BY SMTT(60), <1>1, <1>2, <1>4, <3>1, BroadcastEntries
  <2>2. CASE k \in DOMAIN queue[m] /\ p = queue[m][k]
    <3>1. p \in LSP
      BY <2>2 DEF TypeOK
    <3>2. p.origin \in Node /\ p.number \in Nat
      BY <3>1 DEF LSP
    <3>3. p.number <= issued[p.origin] /\ Fits(m, p)
      BY <2>2 DEF NumbersFromOrigin, Carrying
    <3> HIDE DEF p
    <3>4. p.origin # n \/ number < issued[n] \/ p.number # issued'[n] \/ n \in reused'
      BY <1>1, <1>3, <3>2, <3>3
    <3>5. ASSUME p.number = issued'[p.origin], p.origin \notin reused'
          PROVE  p.links = lastLSP'[p.origin]
      BY <1>1, <1>3, <3>2, <3>3, <3>4, <3>5 DEF Fits
    <3>6. p.from # m /\ LinksFit(p.origin, p.links)
      BY <3>3 DEF Fits
    <3> QED BY <3>5, <3>6 DEF Fits, p
  <2>3. CASE n # m /\ p = sent
    <3>1. /\ p.from = n /\ p.origin = n /\ p.number = number /\ p.links = links
      BY <2>3
    <3>2. number = issued'[n] /\ n \notin reused' => links = lastLSP'[n]
      BY <1>1, <1>3
    <3> HIDE DEF p
    <3> QED BY <1>1, <2>3, <3>1, <3>2 DEF Fits, p
  <2> QED BY <2>1, <2>2, <2>3
<1>5. Carrying'
  <2>1. ASSUME NEW m \in Node, issued'[m] = 0 PROVE lastLSP'[m] = {}
    BY <1>1, <1>3, <2>1 DEF Carrying
  <2> QED BY <1>4, <2>1 DEF Carrying
<1>6. ASSUME NEW x \in Node, NEW m \in Node \ {x}, HasLast(x, m)'
      PROVE  HasLast(x, m) /\ lastLSP'[m] = lastLSP[m]
  <2>1. sequence_number'[x][m] = sequence_number[x][m]
    BY <1>2 DEF TypeOK
  <2>2. sequence_number[x][m] <= issued[m] /\ sequence_number[x][m] \in Nat
    BY DEF NumbersFromOrigin, TypeOK
  <2>3. sequence_number[x][m] = issued'[m] /\ m \notin reused'
    BY <1>6, <2>1 DEF HasLast
  <2>4. m # n \/ number < issued[n]
    BY <1>1, <1>3, <2>2, <2>3
  <2>5. issued'[m] = issued[m] /\ lastLSP'[m] = lastLSP[m] /\ m \notin reused
    BY <1>1, <1>3, <2>3, <2>4
  <2> QED BY <2>3, <2>5 DEF HasLast
<1>7. Entries'
  BY <1>2, <1>6 DEF Entries
<1> QED BY <1>5, <1>7

\* A packet that is the last of its origin puts into the array what it says.
LEMMA ReceiveConverged ==
  ASSUME TypeOK, NumbersFromOrigin, Carrying, Entries, NEW n \in Node, Receive(n)
  PROVE  Carrying' /\ Entries'
<1> DEFINE p == Head(queue[n])
           heard == Heard(n, p.from)
           a == Updated(heard, p.origin, p.links)
           rest == [queue EXCEPT ![n] = Tail(@)]
<1>1. p \in LSP /\ rest \in [Node -> Seq(LSP)] /\ queue[n] # <<>> /\ queue[n] \in Seq(LSP)
  BY HeadType DEF Receive, TypeOK
<1>2. /\ p.from \in Node /\ p.origin \in Node
      /\ p.number \in Nat /\ p.links \in SUBSET Pair
  BY <1>1 DEF LSP
<1>3. Fits(n, p)
  <2>1. 1 \in DOMAIN queue[n] /\ p = queue[n][1]
    BY <1>1
  <2> QED BY <2>1 DEF Carrying
<1>4. ASSUME NEW m \in Node, NEW k \in DOMAIN rest[m]
      PROVE  \E l \in DOMAIN queue[m] : rest[m][k] = queue[m][l]
  BY <1>1, <1>4, RestEntries
<1>5. heard \in [Index -> Cost]
  BY <1>2, HeardType
<1>6. ASSUME NEW x \in Node \ {n}, NEW y \in Node \ {n}, x # y
      PROVE  getCost(heard, x, y) = getCost(adjacency_arrays[n], x, y)
  <2>1. adjacency_arrays[n] \in [Index -> Cost] /\ p.from # n
    BY <1>3 DEF TypeOK, Fits
  <2> HIDE DEF p
  <2> QED BY <1>2, <1>6, <2>1, SetCostElsewhere DEF Heard
<1>7. UNCHANGED <<issued, lastLSP, reused>>
  BY DEF Receive, history
<1>8. CASE ~Newer(n, p)
  <2>1. /\ queue' = rest /\ sequence_number' = sequence_number
        /\ adjacency_arrays' = [adjacency_arrays EXCEPT ![n] = heard]
    BY <1>8 DEF Receive
  <2> HIDE DEF rest, heard
  <2>2. ASSUME NEW z \in Node, NEW x \in Node \ {z}, NEW y \in Node \ {z}, x # y
        PROVE  getCost(adjacency_arrays'[z], x, y) = getCost(adjacency_arrays[z], x, y)
    BY <1>6, <2>1, <2>2 DEF TypeOK
  <2> QED BY <1>4, <1>7, <2>1, <2>2, ConvergedStutter
<1>9. CASE Newer(n, p)
  <2>1. /\ adjacency_arrays' = [adjacency_arrays EXCEPT ![n] = a]
        /\ sequence_number' = [sequence_number EXCEPT ![n][p.origin] = p.number]
        /\ queue' = broadcastLSP(rest, n, a, p.from, p.origin, p.number, p.links)
    BY <1>9 DEF Receive
  <2>2. ASSUME NEW x \in Node \ {n}, NEW y \in Node \ {n}, x # y
        PROVE  getCost(a, x, y) = IF x = p.origin THEN CostIn(p.links, y)
                                  ELSE IF y = p.origin THEN CostIn(p.links, x)
                                  ELSE getCost(adjacency_arrays[n], x, y)
    <3>1. LinksFit(p.origin, p.links)
      BY <1>3 DEF Fits
    <3> HIDE DEF heard, p
    <3> QED BY <1>2, <1>5, <1>6, <2>2, <3>1, UpdatedValue
  <2>3. ASSUME NEW m \in Node, NEW k \in DOMAIN queue'[m]
        PROVE  Fits(m, queue[m][k])'
    <3> DEFINE sent == [from |-> n, origin |-> p.origin, number |-> p.number,
                        links |-> p.links]
               r == queue'[m][k]
    <3>1. (k \in DOMAIN rest[m] /\ r = rest[m][k]) \/ (n # m /\ r = sent)
      <4> DEFINE b == broadcastLSP(rest, n, a, p.from, p.origin, p.number, p.links)
      <4>1. k \in DOMAIN b[m] /\ r = b[m][k]
        BY <2>1, <2>3
      <4>2. (k \in DOMAIN rest[m] /\ b[m][k] = rest[m][k]) \/ (n # m /\ b[m][k] = sent)
        <5>1. rest \in [Node -> Seq(LSP)]
          BY <1>1
        <5> HIDE DEF a, rest, p
        <5> QED BY SMTT(60), <1>2, <4>1, <5>1, BroadcastEntries
      <4> QED BY <4>1, <4>2
    <3>2. CASE k \in DOMAIN rest[m] /\ r = rest[m][k]
      <4>1. Fits(m, r)
        BY <1>4, <3>2 DEF Carrying
      <4> QED BY <1>7, <4>1 DEF Fits
    <3>3. CASE n # m /\ r = sent
      <4>1. r.from = n /\ r.origin = p.origin /\ r.number = p.number /\ r.links = p.links
        BY <3>3
      <4> HIDE DEF r, p
      <4> QED BY <1>3, <1>7, <3>3, <4>1 DEF Fits, r
    <3> QED BY <3>1, <3>2, <3>3
  <2> HIDE DEF a, rest, p
  <2>4. Carrying'
    BY <1>7, <2>3 DEF Carrying
  <2>5. \A z, m \in Node :
          sequence_number'[z][m] = IF z = n /\ m = p.origin THEN p.number
                                   ELSE sequence_number[z][m]
    BY <1>2, <2>1 DEF TypeOK
  <2>6. Entries'
    <3> SUFFICES ASSUME NEW z \in Node, NEW x \in Node \ {z}, NEW y \in Node \ {z},
                        x # y, HasLast(z, x)', HasLast(z, y)'
                 PROVE  \/ getCost(adjacency_arrays'[z], x, y) = CostIn(lastLSP'[x], y)
                        \/ getCost(adjacency_arrays'[z], x, y) = CostIn(lastLSP'[y], x)
      BY DEF Entries
    <3>1. CASE z # n
      <4>1. /\ HasLast(z, x) /\ HasLast(z, y)
            /\ adjacency_arrays'[z] = adjacency_arrays[z]
        BY <1>7, <2>1, <2>5, <3>1 DEF HasLast, TypeOK
      <4> QED BY <1>7, <4>1 DEF Entries
    <3>2. CASE z = n
      <4>1. adjacency_arrays'[n] = a
        BY <2>1 DEF TypeOK
      <4>2. CASE x = p.origin \/ y = p.origin
        <5>1. p.number = issued[p.origin] /\ p.origin \notin reused
          BY <1>2, <1>7, <2>5, <3>2, <4>2 DEF HasLast
        <5>2. p.links = lastLSP[p.origin]
          BY <1>3, <5>1 DEF Fits
        <5> QED BY <1>7, <2>2, <3>2, <4>1, <4>2, <5>2
      <4>3. CASE x # p.origin /\ y # p.origin
        <5>1. HasLast(n, x) /\ HasLast(n, y)
          BY <1>7, <2>5, <3>2, <4>3 DEF HasLast
        <5>2. getCost(a, x, y) = getCost(adjacency_arrays[n], x, y)
          BY <2>2, <3>2, <4>3
        <5> QED BY <1>7, <3>2, <4>1, <5>1, <5>2 DEF Entries
      <4> QED BY <4>2, <4>3
    <3> QED BY <3>1, <3>2
  <2> QED BY <2>4, <2>6
<1> QED BY <1>8, <1>9

\* A router that is killed has nothing, as those have of whom no packet was issued.
LEMMA KillConverged ==
  ASSUME TypeOK, NumbersFromOrigin, Carrying, Entries, NEW n \in Node, Kill(n)
  PROVE  Carrying' /\ Entries'
<1>1. /\ adjacency_arrays' = [adjacency_arrays EXCEPT ![n] = NoLinks]
      /\ sequence_number' = [sequence_number EXCEPT ![n] = NoPackets]
      /\ queue' = [queue EXCEPT ![n] = <<>>]
      /\ UNCHANGED <<issued, lastLSP, reused>>
  BY DEF Kill
<1>2. Carrying'
  <2>1. ASSUME NEW m \in Node, NEW k \in DOMAIN queue'[m]
        PROVE  k \in DOMAIN queue[m] /\ queue'[m][k] = queue[m][k]
    BY <1>1, <2>1 DEF TypeOK
  <2> QED BY <1>1, <2>1 DEF Carrying, Fits
<1>3. Entries'
  <2> SUFFICES ASSUME NEW z \in Node, NEW x \in Node \ {z}, NEW y \in Node \ {z},
                      x # y, HasLast(z, x)', HasLast(z, y)'
               PROVE  \/ getCost(adjacency_arrays'[z], x, y) = CostIn(lastLSP'[x], y)
                      \/ getCost(adjacency_arrays'[z], x, y) = CostIn(lastLSP'[y], x)
    BY DEF Entries
  <2>1. CASE z # n
    <3>1. /\ HasLast(z, x) /\ HasLast(z, y)
          /\ adjacency_arrays'[z] = adjacency_arrays[z]
      BY <1>1, <2>1 DEF HasLast, TypeOK
    <3> QED BY <1>1, <3>1 DEF Entries
  <2>2. CASE z = n
    <3>1. issued[x] = 0
      BY <1>1, <2>2 DEF HasLast, NoPackets, TypeOK
    <3>2. CostIn(lastLSP[x], y) = 0
      BY <3>1 DEF Carrying, CostIn
    <3>3. getCost(adjacency_arrays'[z], x, y) = 0
      BY <1>1, <2>2, IndexInArray DEF getCost, NoLinks, TypeOK
    <3> QED BY <1>1, <3>2, <3>3
  <2> QED BY <2>1, <2>2
<1> QED BY <1>2, <1>3

\* The four parts of the invariant hold together, after every step of every network.
LEMMA IInvStep == IInv /\ [Next]_vars => IInv'
<1> SUFFICES ASSUME IInv, [Next]_vars PROVE Carrying' /\ Entries'
  BY TypeStep, NumbersStep DEF IInv
<1> USE DEF IInv
<1>1. CASE \E n \in Node : Broadcast(n) \/ Announce(n)
  BY <1>1, AnnounceConverged, BroadcastConverged
<1>2. CASE \E n \in Node : Receive(n)
  BY <1>2, ReceiveConverged
<1>3. CASE \E n \in Node : \E m \in Node \ {n} :
             HearHeartbeat(n, m) \/ TimeOut(n, m) \/ ChangeCost(n, m)
  BY <1>3, OwnLinkStep
<1>4. CASE \E n \in Node : Kill(n)
  BY <1>4, KillConverged
<1>5. CASE (\E l \in Changing : Flap(l)) \/ (\E n \in Node : Launch(n)) \/ UNCHANGED vars
  <2>1. UNCHANGED <<adjacency_arrays, queue, sequence_number, issued, lastLSP, reused>>
    BY <1>5 DEF Flap, Launch, vars, router, history
  <2> QED BY <2>1, ConvergedStutter
<1> QED BY <1>1, <1>2, <1>3, <1>4, <1>5 DEF Next

\* Routers that have the last packets of two others, which agree about the link
\* between them, have what they say of it, in any network, whatever was lost, late or
\* came twice, and whoever was killed (monitor_neighbors.c:294, linkstate.c).
THEOREM Convergence == Spec => []Converged
<1>1. Init => IInv
  <2> SUFFICES ASSUME Init PROVE IInv
    OBVIOUS
  <2>1. TypeOK /\ NumbersFromOrigin /\ Carrying
    BY InitTypes, InitNumbers DEF Init, NoPackets, Carrying
  <2>2. ASSUME NEW n \in Node, NEW x \in Node \ {n}, NEW y \in Node \ {n}, x # y
        PROVE  getCost(adjacency_arrays[n], x, y) = CostIn(lastLSP[x], y)
    BY <2>2, IndexInArray DEF Init, NoLinks, getCost, CostIn
  <2> QED BY <2>1, <2>2 DEF IInv, Entries
<1>2. IInv /\ [Next]_vars => IInv'
  BY IInvStep
<1>3. IInv => Converged
  BY DEF IInv, Entries, Converged
<1> QED BY <1>1, <1>2, <1>3, PTL DEF Spec

-----------------------------------------------------------------------------
(* Least elements, and sequences of tentative elements (linkstate.c).        *)

\* There is a least one among natural numbers.
LEMMA Least ==
  ASSUME NEW T \in SUBSET Nat, T # {}
  PROVE  \E k \in T : \A m \in T : k <= m
<1> DEFINE Below(k) == 0 .. k - 1
           S == {Below(k) : k \in T}
           U == UNION S
<1>1. \A s \in S : IsFiniteSet(s)
  <2> SUFFICES ASSUME NEW k \in T PROVE IsFiniteSet(0 .. k - 1)
    OBVIOUS
  <2> QED BY FS_Interval
<1>2. IsWellFoundedOn(StrictSubsetOrdering(U), FiniteSubsetsOf(U))
  BY FS_StrictSubsetOrderingWellFounded
<1>3. S \subseteq FiniteSubsetsOf(U) /\ S # {}
  BY <1>1 DEF FiniteSubsetsOf
<1>4. PICK s \in S : \A r \in S : ~(<<r, s>> \in StrictSubsetOrdering(U))
  BY <1>2, <1>3, WFMin
<1>5. PICK k \in T : s = Below(k)
  OBVIOUS
<1>6. ASSUME NEW m \in T, m < k PROVE FALSE
  <2>1. Below(m) \in S /\ Below(m) \in SUBSET U /\ s \in SUBSET U
    OBVIOUS
  <2>2. Below(m) \subseteq Below(k) /\ m \in Below(k) /\ m \notin Below(m)
    BY <1>6
  <2>3. <<Below(m), s>> \in StrictSubsetOrdering(U)
    BY <1>5, <2>1, <2>2 DEF StrictSubsetOrdering
  <2> QED BY <1>4, <2>1, <2>3
<1> QED BY <1>6

\* It is what Min returns.
LEMMA MinLeast ==
  ASSUME NEW T \in SUBSET Nat, T # {}
  PROVE  Min(T) \in T /\ \A m \in T : Min(T) <= m
BY Least DEF Min

\* There is no other.
LEMMA MinIs ==
  ASSUME NEW T \in SUBSET Nat, NEW k \in T, \A m \in T : k <= m
  PROVE  Min(T) = k
<1>1. Min(T) \in T /\ Min(T) <= k /\ k <= Min(T)
  BY MinLeast
<1>2. Min(T) \in Nat /\ k \in Nat
  BY <1>1
<1> QED BY <1>1, <1>2

\* The fields of an element.
LEMMA ElementFields ==
  ASSUME NEW e \in Element
  PROVE  e.dest \in Node /\ e.cost \in Nat /\ e.dest_prev \in Node /\ e.next_hop \in Node
BY DEF Element

\* The smallest element is one of no greater cost than any.
LEMMA Smallest ==
  ASSUME tentative \in Seq(Element), tentative # <<>>
  PROVE  /\ getSmallestCostElement \in DOMAIN tentative
         /\ \A l \in DOMAIN tentative :
              tentative[getSmallestCostElement].cost <= tentative[l].cost
<1>1. \A k \in DOMAIN tentative : tentative[k] \in Element /\ tentative[k].cost \in Nat
  BY ElementFields
<1>2. 1 \in DOMAIN tentative /\ DOMAIN tentative \subseteq Nat
  OBVIOUS
<1> DEFINE C == {tentative[k].cost : k \in DOMAIN tentative}
<1>3. C \in SUBSET Nat /\ C # {}
  BY <1>1, <1>2
<1>4. PICK c \in C : \A d \in C : c <= d
  BY <1>3, Least
<1> DEFINE K == {k \in DOMAIN tentative : tentative[k].cost = c}
<1>5. K \in SUBSET Nat /\ K # {}
  BY <1>2
<1>6. PICK k \in K : \A l \in K : k <= l
  <2> HIDE DEF K
  <2> QED BY <1>5, Least
<1> DEFINE First(m) == \A l \in DOMAIN tentative :
                         \/ tentative[m].cost < tentative[l].cost
                         \/ tentative[m].cost = tentative[l].cost /\ m <= l
<1>7. k \in DOMAIN tentative /\ First(k)
  <2> SUFFICES ASSUME NEW l \in DOMAIN tentative
               PROVE  \/ tentative[k].cost < tentative[l].cost
                      \/ tentative[k].cost = tentative[l].cost /\ k <= l
    OBVIOUS
  <2>1. tentative[k].cost = c /\ tentative[l].cost \in C /\ c <= tentative[l].cost
    BY <1>4
  <2>2. tentative[l].cost = c => l \in K /\ k <= l
    BY <1>6
  <2>3. c \in Nat /\ tentative[l].cost \in Nat
    BY <1>1, <1>3
  <2> QED BY <2>1, <2>2, <2>3
<1>8. getSmallestCostElement = CHOOSE m \in DOMAIN tentative : First(m)
  BY DEF getSmallestCostElement
<1> HIDE DEF First
<1>9. getSmallestCostElement \in DOMAIN tentative /\ First(getSmallestCostElement)
  BY <1>7, <1>8
<1> QED BY <1>1, <1>9 DEF First

\* What comes after the first of two sequences that are put together.
LEMMA InTheSecond ==
  ASSUME NEW S, NEW r \in Seq(S), NEW s \in Seq(S), NEW m \in Nat,
         Len(r) < m, m <= Len(r) + Len(s)
  PROVE  (r \o s)[m] = s[m - Len(r)]
OBVIOUS

\* A sequence without the element at k: the others, in their order.
LEMMA RemovedAt ==
  ASSUME NEW S, NEW s \in Seq(S), NEW k \in DOMAIN s
  PROVE  /\ RemoveAt(s, k) \in Seq(S) /\ Len(RemoveAt(s, k)) = Len(s) - 1
         /\ \A m \in 1 .. Len(s) - 1 :
              RemoveAt(s, k)[m] = IF m < k THEN s[m] ELSE s[m + 1]
<1> DEFINE front == SubSeq(s, 1, k - 1)
           rear == SubSeq(s, k + 1, Len(s))
<1>1. k \in 1 .. Len(s) /\ Len(s) \in Nat
  OBVIOUS
<1>2. RemoveAt(s, k) = front \o rear
  BY DEF RemoveAt
<1>3. /\ front \in Seq(S) /\ Len(front) = k - 1
      /\ \A m \in 1 .. k - 1 : front[m] = s[m]
  BY <1>1
<1>4. /\ rear \in Seq(S) /\ Len(rear) = Len(s) - k
      /\ \A m \in 1 .. Len(s) - k : rear[m] = s[m + k]
  BY <1>1
<1> HIDE DEF front, rear
<1>5. front \o rear \in Seq(S) /\ Len(front \o rear) = Len(s) - 1
  BY <1>1, <1>3, <1>4
<1>6. ASSUME NEW m \in 1 .. Len(s) - 1
      PROVE  (front \o rear)[m] = IF m < k THEN s[m] ELSE s[m + 1]
  <2>1. CASE m < k
    BY <1>1, <1>3, <1>4, <2>1
  <2>2. CASE ~(m < k)
    <3> DEFINE at == m - Len(front)
    <3>1. /\ m \in Nat /\ Len(front) < m /\ m <= Len(front) + Len(rear)
          /\ at \in 1 .. Len(s) - k /\ at + k = m + 1
      <4>1. Len(front) = k - 1 /\ Len(rear) = Len(s) - k
        BY <1>3, <1>4
      <4>2. m \in Nat /\ k - 1 < m /\ m <= (k - 1) + (Len(s) - k)
        BY <1>1, <2>2
      <4>3. m - (k - 1) \in 1 .. Len(s) - k /\ m - (k - 1) + k = m + 1
        BY <1>1, <2>2
      <4> QED BY <4>1, <4>2, <4>3
    <3>2. (front \o rear)[m] = rear[at]
      BY <1>3, <1>4, <3>1, InTheSecond
    <3> HIDE DEF at
    <3>3. rear[at] = s[at + k]
      BY <1>4, <3>1
    <3> QED BY <1>1, <2>2, <3>1, <3>2, <3>3
  <2> QED BY <2>1, <2>2
<1> QED BY <1>2, <1>5, <1>6

\* Its elements are those of the sequence but the one at k.
LEMMA RemovedFrom ==
  ASSUME NEW S, NEW s \in Seq(S), NEW k \in DOMAIN s
  PROVE  /\ \A m \in DOMAIN RemoveAt(s, k) :
              \E l \in DOMAIN s \ {k} : RemoveAt(s, k)[m] = s[l]
         /\ \A l \in DOMAIN s \ {k} :
              \E m \in DOMAIN RemoveAt(s, k) : RemoveAt(s, k)[m] = s[l]
<1> DEFINE r == RemoveAt(s, k)
<1>1. /\ r \in Seq(S) /\ Len(r) = Len(s) - 1 /\ Len(s) \in Nat /\ k \in 1 .. Len(s)
      /\ \A m \in 1 .. Len(s) - 1 : r[m] = IF m < k THEN s[m] ELSE s[m + 1]
  BY RemovedAt
<1> HIDE DEF r
<1>2. DOMAIN r = 1 .. Len(s) - 1 /\ DOMAIN s = 1 .. Len(s)
  BY <1>1
<1>3. ASSUME NEW m \in DOMAIN r PROVE \E l \in DOMAIN s \ {k} : r[m] = s[l]
  <2>1. CASE m < k
    <3>1. m \in DOMAIN s \ {k} /\ r[m] = s[m]
      BY <1>1, <1>2, <2>1
    <3> QED BY <3>1
  <2>2. CASE ~(m < k)
    <3>1. m + 1 \in DOMAIN s \ {k} /\ r[m] = s[m + 1]
      BY <1>1, <1>2, <2>2
    <3> QED BY <3>1
  <2> QED BY <2>1, <2>2
<1>4. ASSUME NEW l \in DOMAIN s \ {k} PROVE \E m \in DOMAIN r : r[m] = s[l]
  <2>1. CASE l < k
    <3>1. l \in DOMAIN r /\ r[l] = s[l]
      BY <1>1, <1>2, <2>1
    <3> QED BY <3>1
  <2>2. CASE ~(l < k)
    <3>1. l - 1 \in DOMAIN r /\ ~(l - 1 < k) /\ l - 1 + 1 = l
      BY <1>1, <1>2, <2>2
    <3>2. r[l - 1] = s[l]
      BY <1>1, <1>2, <3>1
    <3> QED BY <3>1, <3>2
  <2> QED BY <2>1, <2>2
<1> QED BY <1>3, <1>4 DEF r

\* The elements of a sequence are of different nodes.
OfDifferentNodes(s) == \A k, l \in DOMAIN s : s[k].dest = s[l].dest => k = l

\* Without one of them they still are, and none is of its node.
LEMMA RemovedApart ==
  ASSUME NEW S, NEW s \in Seq(S), NEW k \in DOMAIN s, OfDifferentNodes(s)
  PROVE  /\ OfDifferentNodes(RemoveAt(s, k))
         /\ \A l \in DOMAIN RemoveAt(s, k) : RemoveAt(s, k)[l].dest # s[k].dest
<1> DEFINE r == RemoveAt(s, k)
<1>1. /\ r \in Seq(S) /\ Len(r) = Len(s) - 1
      /\ \A m \in 1 .. Len(s) - 1 : r[m] = IF m < k THEN s[m] ELSE s[m + 1]
  <2> HIDE DEF OfDifferentNodes
  <2> QED BY RemovedAt
<1>2. \A m \in DOMAIN r : \E l \in DOMAIN s \ {k} : r[m] = s[l]
  BY RemovedFrom
<1> HIDE DEF r
<1>3. /\ DOMAIN r = 1 .. Len(s) - 1 /\ DOMAIN s = 1 .. Len(s)
      /\ Len(s) \in Nat /\ k \in 1 .. Len(s)
  BY <1>1
<1>4. ASSUME NEW l \in DOMAIN r, NEW m \in DOMAIN r, r[l].dest = r[m].dest PROVE l = m
  <2> DEFINE At(x) == IF x < k THEN x ELSE x + 1
  <2>1. /\ At(l) \in DOMAIN s /\ r[l] = s[At(l)]
        /\ At(m) \in DOMAIN s /\ r[m] = s[At(m)]
    BY <1>1, <1>3
  <2>2. At(l) = At(m)
    BY <1>4, <2>1 DEF OfDifferentNodes
  <2> QED BY <1>1, <1>3, <2>2
<1>5. ASSUME NEW l \in DOMAIN r PROVE r[l].dest # s[k].dest
  BY <1>2 DEF OfDifferentNodes
<1> QED BY <1>4, <1>5 DEF r, OfDifferentNodes
-----------------------------------------------------------------------------
(* The reference: what the rounds of Distance find.                          *)

\* The costs of the links are natural numbers.
LEMMA WeightType ==
  ASSUME NEW a \in [Index -> Nat], NEW x \in Node, NEW y \in Node, x # y
  PROVE  getCost(a, x, y) \in Nat
BY IndexInArray DEF getCost

\* The functions that the distances of a node are defined by.
IsRounds(g, a, n, K) ==
  g = [k \in 0 .. K |-> IF k = 0 THEN [m \in Node |-> IF m = n THEN 0 ELSE None]
                        ELSE Round(a, g[k - 1])]

\* Distance is the last value of such a function.
LEMMA DistanceIs ==
  ASSUME NEW a, NEW n
  PROVE  Distance(a, n) = (CHOOSE g : IsRounds(g, a, n, N - 1))[N - 1]
BY DEF Distance, IsRounds

\* What such a function is at each round.
LEMMA RoundsAt ==
  ASSUME NEW g, NEW a, NEW n, NEW K \in Nat, IsRounds(g, a, n, K)
  PROVE  /\ g[0] = [m \in Node |-> IF m = n THEN 0 ELSE None]
         /\ \A k \in 1 .. K : g[k] = Round(a, g[k - 1])
<1> DEFINE F(k) == IF k = 0 THEN [m \in Node |-> IF m = n THEN 0 ELSE None]
                   ELSE Round(a, g[k - 1])
<1>1. g = [k \in 0 .. K |-> F(k)]
  BY DEF IsRounds
<1>2. \A k \in 0 .. K : g[k] = F(k)
  <2> HIDE DEF F
  <2> QED BY <1>1
<1>3. g[0] = F(0)
  BY <1>2
<1>4. ASSUME NEW k \in 1 .. K PROVE g[k] = Round(a, g[k - 1])
  <2>1. k \in 0 .. K /\ k # 0
    OBVIOUS
  <2> QED BY <1>2, <2>1
<1> QED BY <1>3, <1>4

\* There is one for any number of rounds.
LEMMA RoundsExist ==
  ASSUME NEW a, NEW n, NEW L \in Nat
  PROVE  \E g : IsRounds(g, a, n, L)
<1> DEFINE T == {K \in Nat : ~\E g : IsRounds(g, a, n, K)}
           Start == [m \in Node |-> IF m = n THEN 0 ELSE None]
<1>1. T = {}
  <2> SUFFICES ASSUME T # {} PROVE FALSE
    OBVIOUS
  <2>1. PICK K \in T : \A k \in T : K <= k
    <3> HIDE DEF T
    <3>1. T \in SUBSET Nat
      BY DEF T
    <3> QED BY <3>1, Least
  <2>2. K \in Nat /\ ~\E g : IsRounds(g, a, n, K)
    BY <2>1
  <2>3. K # 0
    <3> SUFFICES ASSUME K = 0 PROVE FALSE
      OBVIOUS
    <3> DEFINE h == [k \in 0 .. 0 |-> Start]
    <3>1. h = [k \in 0 .. 0 |-> IF k = 0 THEN Start ELSE Round(a, h[k - 1])]
      OBVIOUS
    <3>2. IsRounds(h, a, n, 0)
      BY <3>1 DEF IsRounds
    <3> QED BY <2>2, <3>2
  <2>4. K - 1 \in Nat /\ K - 1 \notin T
    BY <2>1, <2>2, <2>3
  <2>5. PICK g : IsRounds(g, a, n, K - 1)
    BY <2>4
  <2>6. /\ g[0] = Start
        /\ \A k \in 1 .. K - 1 : g[k] = Round(a, g[k - 1])
    BY <2>4, <2>5, RoundsAt
  <2> DEFINE h == [k \in 0 .. K |-> IF k = K THEN Round(a, g[K - 1]) ELSE g[k]]
  <2>7. \A k \in 0 .. K - 1 : h[k] = g[k]
    BY <2>2
  <2>8. ASSUME NEW k \in 0 .. K
        PROVE  h[k] = IF k = 0 THEN Start ELSE Round(a, h[k - 1])
    <3>1. CASE k = 0
      <4>1. h[0] = g[0]
        BY <2>4, <2>7
      <4> QED BY <2>6, <3>1, <4>1
    <3>2. CASE k = K
      <4>1. h[K] = Round(a, g[K - 1])
        BY <2>2
      <4>2. h[K - 1] = g[K - 1]
        BY <2>4, <2>7
      <4> QED BY <2>3, <3>2, <4>1, <4>2
    <3>3. CASE k # 0 /\ k # K
      <4>1. k \in 1 .. K - 1 /\ k \in 0 .. K - 1 /\ k - 1 \in 0 .. K - 1
        BY <2>2, <3>3
      <4>2. g[k] = Round(a, g[k - 1])
        BY <2>6, <4>1
      <4>3. h[k] = g[k] /\ h[k - 1] = g[k - 1]
        BY <2>7, <4>1
      <4> QED BY <3>3, <4>2, <4>3
    <3> QED BY <3>1, <3>2, <3>3
  <2>9. h = [k \in 0 .. K |-> h[k]]
    OBVIOUS
  <2> HIDE DEF h
  <2>10. IsRounds(h, a, n, K)
    BY <2>8, <2>9 DEF IsRounds
  <2> QED BY <2>2, <2>10
<1> QED BY <1>1

\* A round gives each node the least of what it had and what its links offer.
LEMMA RoundValue ==
  ASSUME NEW a \in [Index -> Nat], NEW d \in [Node -> Nat \cup {None}], NEW m \in Node
  PROVE  LET r == Round(a, d)[m]
         IN  /\ r \in Nat \cup {None}
             /\ d[m] # None => r # None /\ r <= d[m]
             /\ \A x \in Node : LinkFrom(a, x, m) /\ d[x] # None =>
                  r # None /\ r <= d[x] + getCost(a, x, m)
             /\ r # None =>
                  \/ r = d[m]
                  \/ \E x \in Node : /\ LinkFrom(a, x, m) /\ d[x] # None
                                     /\ r = d[x] + getCost(a, x, m)
<1> DEFINE from == {x \in Node : LinkFrom(a, x, m) /\ d[x] # None}
           via == {d[x] + getCost(a, x, m) : x \in from}
           all == via \cup ({d[m]} \ {None})
           r == Round(a, d)[m]
<1>1. r = IF all = {} THEN None ELSE Min(all)
  BY DEF Round
<1>2. \A x \in from : d[x] \in Nat /\ getCost(a, x, m) \in Nat
  BY WeightType DEF LinkFrom
<1>3. all \in SUBSET Nat
  <2>1. via \in SUBSET Nat
    BY <1>2
  <2>2. d[m] \in Nat \cup {None}
    OBVIOUS
  <2> QED BY <2>1, <2>2
<1>4. all # {} => r \in all /\ \A k \in all : r <= k
  <2> HIDE DEF all, r
  <2> QED BY <1>1, <1>3, MinLeast
<1>5. r # None => all # {}
  BY <1>1
<1>6. \A k \in Nat : k # None
  BY DEF None
<1>7. all # {} => r \in Nat /\ r # None
  <2> HIDE DEF all, r
  <2> QED BY <1>3, <1>4, <1>6
<1>8. d[m] # None => d[m] \in all
  OBVIOUS
<1>9. \A x \in from : d[x] + getCost(a, x, m) \in all
  OBVIOUS
<1>10. \A k \in all : k = d[m] \/ \E x \in from : k = d[x] + getCost(a, x, m)
  OBVIOUS
<1>11. r \in Nat \cup {None}
  BY <1>1, <1>7
<1>12. d[m] # None => r # None /\ r <= d[m]
  <2> HIDE DEF all, r
  <2> QED BY <1>4, <1>7, <1>8
<1>13. \A x \in from : r # None /\ r <= d[x] + getCost(a, x, m)
  <2> HIDE DEF all, r, from
  <2> QED BY <1>4, <1>7, <1>9
<1>14. r # None => r = d[m] \/ \E x \in from : r = d[x] + getCost(a, x, m)
  <2> HIDE DEF all, r, from
  <2> QED BY <1>4, <1>5, <1>10
<1> HIDE DEF r, all
<1> QED BY <1>11, <1>12, <1>13, <1>14 DEF r
\* The distances are natural numbers, or there is none.
LEMMA RoundsType ==
  ASSUME NEW a \in [Index -> Nat], NEW n \in Node, NEW K \in Nat, NEW g, IsRounds(g, a, n, K)
  PROVE  \A k \in 0 .. K : g[k] \in [Node -> Nat \cup {None}]
<1>1. /\ g[0] = [m \in Node |-> IF m = n THEN 0 ELSE None]
      /\ \A k \in 1 .. K : g[k] = Round(a, g[k - 1])
  BY RoundsAt
<1> DEFINE T == {k \in 0 .. K : g[k] \notin [Node -> Nat \cup {None}]}
<1>2. T = {}
  <2> SUFFICES ASSUME T # {} PROVE FALSE
    OBVIOUS
  <2>1. PICK k \in T : \A j \in T : k <= j
    <3>1. T \in SUBSET Nat
      OBVIOUS
    <3> HIDE DEF T
    <3> QED BY <3>1, Least
  <2>2. g[0] = [m \in Node |-> IF m = n THEN 0 ELSE None] /\ k \in 0 .. K
    BY <1>1, <2>1
  <2>3. k # 0
    BY <2>1, <2>2
  <2>4. k - 1 \in 0 .. K /\ k - 1 \notin T /\ k \in 1 .. K
    BY <2>1, <2>2, <2>3
  <2>5. g[k - 1] \in [Node -> Nat \cup {None}]
    BY <2>4
  <2>6. g[k] = Round(a, g[k - 1])
    BY <1>1, <2>4
  <2>7. \A m \in Node : Round(a, g[k - 1])[m] \in Nat \cup {None}
    BY <2>5, RoundValue
  <2>8. Round(a, g[k - 1]) = [m \in Node |-> Round(a, g[k - 1])[m]]
    BY DEF Round
  <2>9. g[k] \in [Node -> Nat \cup {None}]
    BY <2>6, <2>7, <2>8
  <2> QED BY <2>1, <2>9
<1> QED BY <1>2

\* What is known of the costs c: no link makes a way from s shorter, and no link
\* leaves the nodes S that have a cost.
Bounds(a, s, S, c) ==
  /\ S \subseteq Node /\ s \in S
  /\ \A x \in S : c[x] \in Nat
  /\ \A x \in S, y \in Node :
       LinkFrom(a, x, y) => y \in S /\ c[y] <= c[x] + getCost(a, x, y)

\* Then no number of rounds finds a shorter way than c.
LEMMA RoundsNotBelow ==
  ASSUME NEW a \in [Index -> Nat], NEW s \in Node, NEW K \in Nat, NEW g, IsRounds(g, a, s, K),
         NEW S, NEW c, Bounds(a, s, S, c)
  PROVE  \A k \in 0 .. K : \A m \in Node : g[k][m] # None => m \in S /\ c[m] <= c[s] + g[k][m]
<1>1. /\ g[0] = [m \in Node |-> IF m = s THEN 0 ELSE None]
      /\ \A k \in 1 .. K : g[k] = Round(a, g[k - 1])
  BY RoundsAt
<1> DEFINE Low(k) == \A m \in Node : g[k][m] # None => m \in S /\ c[m] <= c[s] + g[k][m]
           T == {k \in 0 .. K : ~Low(k)}
<1>2. T = {}
  <2> SUFFICES ASSUME T # {} PROVE FALSE
    OBVIOUS
  <2>1. PICK k \in T : \A j \in T : k <= j
    <3>1. T \in SUBSET Nat
      OBVIOUS
    <3> HIDE DEF T
    <3> QED BY <3>1, Least
  <2>2. k \in 0 .. K /\ ~Low(k)
    BY <2>1
  <2>3. k # 0
    <3>1. Low(0)
      BY <1>1 DEF Bounds
    <3> QED BY <2>2, <3>1
  <2>4. k - 1 \in 0 .. K /\ k - 1 \notin T /\ k \in 1 .. K
    BY <2>1, <2>2, <2>3
  <2>5. Low(k - 1)
    BY <2>4
  <2> DEFINE d == g[k - 1]
  <2>6. g[k] = Round(a, d) /\ d \in [Node -> Nat \cup {None}]
    BY <1>1, <2>4, RoundsType
  <2> HIDE DEF d
  <2>7. ASSUME NEW m \in Node, g[k][m] # None
        PROVE  m \in S /\ c[m] <= c[s] + g[k][m]
    <3>1. \/ g[k][m] = d[m]
          \/ \E x \in Node : LinkFrom(a, x, m) /\ d[x] # None /\ g[k][m] = d[x] + getCost(a, x, m)
      BY <2>6, <2>7, RoundValue
    <3>2. CASE g[k][m] = d[m]
      BY <2>5, <2>7, <3>2 DEF d
    <3>3. CASE \E x \in Node : LinkFrom(a, x, m) /\ d[x] # None /\ g[k][m] = d[x] + getCost(a, x, m)
      <4>1. PICK x \in Node : LinkFrom(a, x, m) /\ d[x] # None /\ g[k][m] = d[x] + getCost(a, x, m)
        BY <3>3
      <4>2. x \in S /\ c[x] <= c[s] + d[x]
        BY <2>5, <4>1 DEF d
      <4>3. m \in S /\ c[m] <= c[x] + getCost(a, x, m)
        BY <4>1, <4>2 DEF Bounds
      <4>4. d[x] \in Nat /\ getCost(a, x, m) \in Nat
        BY <2>6, <4>1, WeightType DEF LinkFrom
      <4>5. c[x] \in Nat /\ c[s] \in Nat /\ c[m] \in Nat
        BY <4>2, <4>3 DEF Bounds
      <4> QED BY <4>1, <4>2, <4>3, <4>4, <4>5
    <3> QED BY <3>1, <3>2, <3>3
  <2> QED BY <2>2, <2>7
<1> QED BY <1>2
\* Every node of T but s is reached from one of T over a link that explains its cost.
Explains(a, s, T, c) ==
  /\ T \subseteq Node /\ s \in T
  /\ \A x \in T : c[x] \in Nat
  /\ \A y \in T \ {s} : \E p \in T : LinkFrom(a, p, y) /\ c[y] = c[p] + getCost(a, p, y)

\* The nodes of T for which the rounds d have found the cost.
Found(d, s, T, c) == {m \in T : d[m] # None /\ c[m] = c[s] + d[m]}

\* A round keeps what was found, and finds one more node if any is left.
LEMMA OneMoreFound ==
  ASSUME NEW a \in [Index -> Nat], NEW s, NEW T, NEW c, Explains(a, s, T, c),
         NEW d \in [Node -> Nat \cup {None}], NEW e \in [Node -> Nat \cup {None}],
         e = Round(a, d), s \in Found(d, s, T, c),
         \A m \in T : e[m] # None => c[m] <= c[s] + e[m]
  PROVE  /\ Found(d, s, T, c) \subseteq Found(e, s, T, c)
         /\ Found(d, s, T, c) # T =>
              \E y \in T \ Found(d, s, T, c) : y \in Found(e, s, T, c)
<1>1. /\ \A x \in T : x \in Node /\ c[x] \in Nat
      /\ s \in T
  BY DEF Explains
<1>2. ASSUME NEW m \in Found(d, s, T, c) PROVE m \in Found(e, s, T, c)
  <2>1. m \in T /\ d[m] # None /\ c[m] = c[s] + d[m] /\ m \in Node
    BY <1>1 DEF Found
  <2>2. e[m] # None /\ e[m] <= d[m]
    BY <2>1, RoundValue
  <2>3. c[m] <= c[s] + e[m]
    BY <2>1, <2>2
  <2>4. d[m] \in Nat /\ e[m] \in Nat /\ c[s] \in Nat
    BY <1>1, <2>1, <2>2
  <2>5. c[m] = c[s] + e[m]
    BY <2>1, <2>2, <2>3, <2>4
  <2> QED BY <2>1, <2>2, <2>5 DEF Found
<1>3. ASSUME Found(d, s, T, c) # T
      PROVE  \E y \in T \ Found(d, s, T, c) : y \in Found(e, s, T, c)
  <2> DEFINE rest == T \ Found(d, s, T, c)
             C == {c[y] : y \in rest}
  <2>1. C \in SUBSET Nat /\ C # {}
    BY <1>1, <1>3 DEF Found
  <2>2. PICK k \in C : \A j \in C : k <= j
    <3> HIDE DEF C
    <3> QED BY <2>1, Least
  <2>3. PICK y \in rest : c[y] = k
    BY <2>2
  <2>4. y \in T /\ y # s /\ y \in Node /\ c[y] \in Nat
    BY <1>1, <2>3
  <2>5. PICK p \in T : LinkFrom(a, p, y) /\ c[y] = c[p] + getCost(a, p, y)
    BY <2>4 DEF Explains
  <2>6. p \in Node /\ c[p] \in Nat /\ getCost(a, p, y) \in Nat /\ getCost(a, p, y) # 0
    BY <1>1, <2>4, <2>5, WeightType DEF LinkFrom, isConnected
  <2>7. c[p] < c[y]
    BY <2>4, <2>5, <2>6
  <2>8. p \in Found(d, s, T, c)
    <3> SUFFICES ASSUME p \in rest PROVE FALSE
      OBVIOUS
    <3>1. k <= c[p]
      BY <2>2
    <3> QED BY <2>3, <2>4, <2>6, <2>7, <3>1
  <2>9. d[p] # None /\ c[p] = c[s] + d[p]
    BY <2>8 DEF Found
  <2>10. e[y] # None /\ e[y] <= d[p] + getCost(a, p, y)
    BY <2>4, <2>5, <2>6, <2>9, RoundValue
  <2>11. c[y] <= c[s] + e[y]
    BY <2>4, <2>10
  <2>12. d[p] \in Nat /\ e[y] \in Nat /\ c[s] \in Nat
    BY <1>1, <2>4, <2>6, <2>9, <2>10
  <2>13. c[y] = c[s] + e[y]
    BY <2>4, <2>5, <2>6, <2>9, <2>10, <2>11, <2>12
  <2>14. y \in Found(e, s, T, c)
    BY <2>4, <2>10, <2>13 DEF Found
  <2> QED BY <2>3, <2>14
<1> QED BY <1>2, <1>3

\* So after k rounds at least k + 1 nodes have their cost, or all.
LEMMA FoundAfter ==
  ASSUME NEW a \in [Index -> Nat], NEW s \in Node, NEW K \in Nat, NEW g, IsRounds(g, a, s, K),
         NEW T, NEW c, Explains(a, s, T, c),
         \A k \in 0 .. K : \A m \in T : g[k][m] # None => c[m] <= c[s] + g[k][m]
  PROVE  \A k \in 0 .. K : Found(g[k], s, T, c) = T \/ Cardinality(Found(g[k], s, T, c)) >= k + 1
<1>1. /\ g[0] = [m \in Node |-> IF m = s THEN 0 ELSE None]
      /\ \A k \in 1 .. K : g[k] = Round(a, g[k - 1])
  BY RoundsAt
<1>2. \A k \in 0 .. K : g[k] \in [Node -> Nat \cup {None}]
  BY RoundsType
<1>3. T \subseteq Node /\ s \in T /\ c[s] \in Nat
  BY DEF Explains
<1>4. IsFiniteSet(T)
  <2>1. IsFiniteSet(Node)
    BY NAssumption, FS_Interval DEF Node
  <2> QED BY <1>3, <2>1, FS_Subset
<1> DEFINE F(k) == Found(g[k], s, T, c)
           Many(k) == s \in F(k) /\ (F(k) = T \/ Cardinality(F(k)) >= k + 1)
           B == {k \in 0 .. K : ~Many(k)}
<1>5. \A k \in Nat : F(k) \subseteq T /\ IsFiniteSet(F(k)) /\ Cardinality(F(k)) \in Nat
  <2> SUFFICES ASSUME NEW k \in Nat
               PROVE  F(k) \subseteq T /\ IsFiniteSet(F(k)) /\ Cardinality(F(k)) \in Nat
    OBVIOUS
  <2>1. F(k) \subseteq T
    BY DEF Found
  <2> HIDE DEF F
  <2>2. IsFiniteSet(F(k))
    BY <1>4, <2>1, FS_Subset
  <2> QED BY <2>1, <2>2, FS_CardinalityType
<1>6. B = {}
  <2> SUFFICES ASSUME B # {} PROVE FALSE
    OBVIOUS
  <2>1. PICK k \in B : \A j \in B : k <= j
    <3>1. B \in SUBSET Nat
      OBVIOUS
    <3> HIDE DEF B
    <3> QED BY <3>1, Least
  <2>2. k \in 0 .. K /\ ~Many(k)
    BY <2>1
  <2>3. k # 0
    <3>1. g[0][s] = 0 /\ 0 # None
      BY <1>1 DEF None
    <3>2. s \in F(0)
      BY <1>3, <3>1 DEF Found
    <3> HIDE DEF F
    <3>3. F(0) # {} /\ Cardinality(F(0)) # 0
      BY <1>5, <3>2, FS_EmptySet
    <3>4. Cardinality(F(0)) >= 0 + 1
      BY <1>5, <3>3
    <3> QED BY <2>2, <3>2, <3>4
  <2>4. k - 1 \in 0 .. K /\ k - 1 \notin B /\ k \in 1 .. K /\ k - 1 \in Nat /\ k \in Nat
    BY <2>1, <2>2, <2>3
  <2>5. Many(k - 1)
    BY <2>4
  <2>6. /\ g[k] = Round(a, g[k - 1])
        /\ g[k] \in [Node -> Nat \cup {None}] /\ g[k - 1] \in [Node -> Nat \cup {None}]
    BY <1>1, <1>2, <2>4
  <2>7. /\ F(k - 1) \subseteq F(k)
        /\ F(k - 1) # T => \E y \in T \ F(k - 1) : y \in F(k)
    BY <2>4, <2>5, <2>6, OneMoreFound
  <2> HIDE DEF F
  <2>8. s \in F(k) /\ F(k) \subseteq T
    BY <1>5, <2>4, <2>5, <2>7
  <2>9. F(k - 1) # T
    BY <2>2, <2>7, <2>8
  <2>10. PICK y \in T \ F(k - 1) : y \in F(k)
    BY <2>7, <2>9
  <2>11. Cardinality(F(k - 1)) >= k
    BY <2>4, <2>5, <2>9
  <2>12. Cardinality(F(k - 1) \cup {y}) = Cardinality(F(k - 1)) + 1
    <3>1. IsFiniteSet(F(k - 1))
      BY <1>5, <2>4
    <3>2. y \notin F(k - 1)
      BY <2>10
    <3> QED BY <3>1, <3>2, FS_AddElement
  <2>13. F(k - 1) \cup {y} \in SUBSET F(k)
    BY <2>7, <2>10
  <2>14. Cardinality(F(k - 1) \cup {y}) <= Cardinality(F(k))
    BY <1>5, <2>4, <2>13, FS_Subset
  <2>15. Cardinality(F(k)) >= k + 1
    BY <1>5, <2>4, <2>11, <2>12, <2>14
  <2> QED BY <2>2, <2>8, <2>15
<1> QED BY <1>6

\* Distance returns the costs that are bounds and are explained, and reaches no node
\* outside of S.
LEMMA DistanceExact ==
  ASSUME NEW a \in [Index -> Nat], NEW s \in Node, NEW S, NEW T, NEW c,
         Bounds(a, s, S, c), Explains(a, s, T, c), T \subseteq S
  PROVE  /\ \A m \in T : Distance(a, s)[m] \in Nat /\ c[m] = c[s] + Distance(a, s)[m]
         /\ \A m \in Node \ S : Distance(a, s)[m] = None
<1>1. N - 1 \in Nat /\ N \in Nat
  BY NAssumption
<1> DEFINE g == CHOOSE h : IsRounds(h, a, s, N - 1)
<1>2. IsRounds(g, a, s, N - 1)
  BY <1>1, RoundsExist
<1>3. Distance(a, s) = g[N - 1]
  BY DistanceIs
<1> HIDE DEF g
<1>4. \A k \in 0 .. N - 1 : \A m \in Node :
        g[k][m] # None => m \in S /\ c[m] <= c[s] + g[k][m]
  BY <1>1, <1>2, RoundsNotBelow
<1>5. T \subseteq Node
  BY DEF Explains
<1>6. \A k \in 0 .. N - 1 : \A m \in T : g[k][m] # None => c[m] <= c[s] + g[k][m]
  BY <1>4, <1>5
<1> DEFINE F == Found(g[N - 1], s, T, c)
<1>7. F = T \/ Cardinality(F) >= N - 1 + 1
  BY <1>1, <1>2, <1>6, FoundAfter
<1>8. F \subseteq T
  BY DEF Found
<1> HIDE DEF F
<1>9. IsFiniteSet(Node) /\ Cardinality(Node) = N
  BY <1>1, FS_Interval DEF Node
<1>10. IsFiniteSet(T) /\ Cardinality(T) <= N
  BY <1>5, <1>9, FS_Subset
<1>11. Cardinality(F) <= Cardinality(T) /\ (Cardinality(F) = Cardinality(T) => F = T)
  BY <1>8, <1>10, FS_Subset
<1>12. Cardinality(F) \in Nat /\ Cardinality(T) \in Nat
  BY <1>8, <1>10, FS_Subset, FS_CardinalityType
<1>13. F = T
  BY <1>1, <1>7, <1>10, <1>11, <1>12
<1>14. N - 1 \in 0 .. N - 1
  BY <1>1
<1>15. g[N - 1] \in [Node -> Nat \cup {None}]
  BY <1>1, <1>2, <1>14, RoundsType
<1>16. \A m \in T : g[N - 1][m] \in Nat /\ c[m] = c[s] + g[N - 1][m]
  BY <1>5, <1>13, <1>15 DEF F, Found
<1>17. \A m \in Node \ S : g[N - 1][m] = None
  BY <1>4, <1>14
<1> QED BY <1>3, <1>16, <1>17
-----------------------------------------------------------------------------
(* dijkstra(): the inductive invariant.                                      *)

CostOf(n) == forwarding_table[n].cost
HopOf(n) == forwarding_table[n].next_hop
Weight(x, y) == getCost(seen, x, y)

\* The hop that leads to y, when x is the node before it.
HopThrough(x, y) == IF x = globalMyID THEN y ELSE HopOf(x)

\* Where the computation is. While the own links are scanned only the router itself is
\* settled, and only neighbours the scan has passed are found.
Place ==
  /\ pc = "idle" => sourceNode = None /\ tentative = <<>>
  /\ pc # "idle" => sourceNode \in Node /\ Settled(sourceNode) /\ Settled(globalMyID)
  /\ pc = "read" => i < N /\ i # sourceNode /\ ~Settled(i)
  /\ sourceNode = globalMyID =>
       /\ \A n \in Node : Settled(n) => n = globalMyID
       /\ \A k \in DOMAIN tentative : tentative[k].dest < i

\* The elements are of different nodes, which are not settled.
Apart ==
  /\ \A k \in DOMAIN tentative : ~Settled(tentative[k].dest)
  /\ OfDifferentNodes(tentative)

\* The router is settled at no cost; it is the only one without a hop.
Root ==
  /\ Settled(globalMyID) => CostOf(globalMyID) = 0
  /\ \A n \in Node : Settled(n) => (HopOf(n) = None <=> n = globalMyID)

\* The links of the other routers stay as the scan meets them; so does the link that
\* is between its test and its read, or it is torn.
Steady ==
  /\ \A x, y \in Node \ {globalMyID} :
       x # y => Weight(x, y) = getCost(adjacency_array, x, y)
  /\ pc = "read" /\ ~torn =>
       /\ Weight(sourceNode, i) = getCost(adjacency_array, sourceNode, i)
       /\ Weight(sourceNode, i) # 0

\* The scan has met the link from x to y.
Scanned(x, y) == Settled(x) /\ (x = sourceNode => y < i)

Elements == {tentative[k] : k \in DOMAIN tentative}

\* An element is what the link from its predecessor makes of it.
IsOffer(e) ==
  /\ Scanned(e.dest_prev, e.dest) /\ LinkFrom(seen, e.dest_prev, e.dest)
  /\ e.cost = CostOf(e.dest_prev) + Weight(e.dest_prev, e.dest)
  /\ e.next_hop = HopThrough(e.dest_prev, e.dest)

Frontier == \A e \in Elements : IsOffer(e)

\* No way over a settled node is better than c with the last node p.
NoBetter(x, y, c, p) ==
  \/ c < CostOf(x) + Weight(x, y)
  \/ c = CostOf(x) + Weight(x, y) /\ p <= x

\* A node behind a link that was scanned is settled or found, and not at a worse way.
Offers ==
  \A x, y \in Node :
    Scanned(x, y) /\ ~Settled(y) /\ LinkFrom(seen, x, y) =>
      \E e \in Elements : e.dest = y /\ NoBetter(x, y, e.cost, e.dest_prev)

\* Nodes are settled in the order of their costs.
Rising ==
  pc # "idle" =>
    /\ \A n \in Node : Settled(n) => CostOf(n) <= CostOf(sourceNode)
    /\ \A e \in Elements : CostOf(sourceNode) <= e.cost

\* No link between settled nodes makes a shorter way.
Relaxed ==
  \A x, y \in Node :
    Settled(x) /\ Settled(y) /\ LinkFrom(seen, x, y) => CostOf(y) <= CostOf(x) + Weight(x, y)

\* p is the smallest of the last nodes on shortest ways to y.
Before(p, y) ==
  /\ Settled(p) /\ LinkFrom(seen, p, y)
  /\ CostOf(y) = CostOf(p) + Weight(p, y)
  /\ HopOf(y) = HopThrough(p, y)
  /\ \A m \in Node :
       Settled(m) /\ LinkFrom(seen, m, y) /\ CostOf(m) + Weight(m, y) = CostOf(y) => p <= m

Tree == \A y \in Node \ {globalMyID} : Settled(y) => \E p \in Node : Before(p, y)

\* h is a neighbour that is reached over the own link.
IsHop(h) ==
  /\ h \in Node \ {globalMyID} /\ Settled(h) /\ HopOf(h) = h
  /\ LinkFrom(seen, globalMyID, h) /\ CostOf(h) = Weight(globalMyID, h)

Hops == \A y \in Node \ {globalMyID} : Settled(y) => IsHop(HopOf(y))

Control == DijkstraTypeOK /\ Place /\ Apart /\ Root /\ Steady

\* The ways to the settled nodes, and those to the tentative ones.
WaysFound == Relaxed /\ Tree /\ Hops
Ways == Frontier /\ Offers /\ Rising /\ WaysFound

DijkstraInv == Control /\ (Settled(globalMyID) /\ ~torn => Ways)
-----------------------------------------------------------------------------
(* Control.                                                                  *)

\* The costs in both arrays are natural numbers.
LEMMA Arrays ==
  ASSUME DijkstraTypeOK
  PROVE  adjacency_array \in [Index -> Nat] /\ seen \in [Index -> Nat]
BY CostsAssumption DEF DijkstraTypeOK

\* A settled node has a cost; a hop is a node or none.
LEMMA SettledFacts ==
  ASSUME DijkstraTypeOK, NEW n \in Node
  PROVE  /\ Settled(n) => CostOf(n) \in Nat
         /\ HopOf(n) \in Node \cup {None}
         /\ None \notin Node
BY NAssumption DEF DijkstraTypeOK, Entry, Settled, CostOf, HopOf, Node, None

\* Writing a cost leaves an array of costs.
LEMMA OwnCostType ==
  ASSUME NEW a \in [Index -> Costs], NEW n \in Node, NEW m \in Node, NEW c \in Costs
  PROVE  setCost(a, n, m, c) \in [Index -> Costs]
BY DEF setCost

\* Writing the cost of a link changes no other.
LEMMA LinkWritten ==
  ASSUME NEW a \in [Index -> Nat], NEW c \in Nat, NEW u \in Node, NEW n \in Node, u # n,
         NEW x \in Node, NEW y \in Node, x # y
  PROVE  getCost(setCost(a, u, n, c), x, y)
           = IF (x = u /\ y = n) \/ (x = n /\ y = u) THEN c ELSE getCost(a, x, y)
<1> DEFINE Same == (x = u /\ y = n) \/ (x = n /\ y = u)
<1>1. /\ PairIndex(u, n) \in Index /\ PairIndex(x, y) \in Index
      /\ DOMAIN a = Index
  BY IndexInArray
<1>2. {x, y} = {u, n} <=> Same
  OBVIOUS
<1>3. PairIndex(x, y) = PairIndex(u, n) <=> Same
  <2>1. PairIndex(u, n) = PairIndex(x, y) <=> {x, y} = {u, n}
    BY PairsApart
  <2> QED BY <1>2, <2>1
<1> HIDE DEF Same
<1>4. getCost(setCost(a, u, n, c), x, y) = IF Same THEN c ELSE getCost(a, x, y)
  BY <1>1, <1>3 DEF getCost, setCost
<1> QED BY <1>4 DEF Same

\* The link between x and y is the own link to n.
IsOwn(x, y, n) == (x = globalMyID /\ y = n) \/ (x = n /\ y = globalMyID)

\* Writing the cost of an own link does not.
LEMMA OwnLinkWritten ==
  ASSUME NEW a \in [Index -> Nat], NEW c \in Nat, NEW n \in Node, n # globalMyID,
         NEW x \in Node, NEW y \in Node, x # y
  PROVE  getCost(setCost(a, globalMyID, n, c), x, y)
           = IF IsOwn(x, y, n) THEN c ELSE getCost(a, x, y)
BY MyIDAssumption, LinkWritten DEF IsOwn

\* The initial states.
LEMMA InitDijkstra == DijkstraInit => DijkstraInv
<1> SUFFICES ASSUME DijkstraInit PROVE DijkstraInv
  OBVIOUS
<1>1. \A n \in Node : ~Settled(n)
  BY DEF DijkstraInit, Settled, Unreached
<1>2. DijkstraTypeOK
  <2>1. Unreached \in Entry
    BY DEF Unreached, Entry
  <2>2. forwarding_table \in [Node -> Entry]
    BY <2>1 DEF DijkstraInit
  <2>3. <<>> \in Seq(Element) /\ 0 \in 0 .. N
    BY NAssumption
  <2> QED BY <2>2, <2>3 DEF DijkstraInit, DijkstraTypeOK
<1>3. Place /\ Apart /\ Root /\ Steady
  BY <1>1, MyIDAssumption
     DEF DijkstraInit, Place, Apart, Root, Steady, OfDifferentNodes, None, Node, Weight
<1> QED BY <1>1, <1>2, <1>3, MyIDAssumption DEF DijkstraInv, Control

\* A call forgets the last computation.
LEMMA CallStep == Call => \A n \in Node : (Settled(n)' <=> n = globalMyID)
BY DEF Call, Settled, Unreached, None

\* It leaves only the router settled, and nothing tentative.
LEMMA CallControl == Control /\ Call => Control'
<1> SUFFICES ASSUME Control, Call PROVE Control'
  OBVIOUS
<1> USE DEF Control
<1>1. \A n \in Node : (Settled(n)' <=> n = globalMyID)
  BY CallStep
<1>2. DijkstraTypeOK'
  <2>1. Unreached \in Entry /\ [cost |-> 0, next_hop |-> None] \in Entry
    BY DEF Unreached, Entry
  <2>2. forwarding_table' \in [Node -> Entry]
    BY <2>1 DEF Call
  <2>3. <<>> \in Seq(Element) /\ 0 \in 0 .. N
    BY NAssumption
  <2> QED BY <2>2, <2>3, MyIDAssumption DEF Call, DijkstraTypeOK
<1>3. Place'
  BY <1>1, MyIDAssumption DEF Call, Place, None
<1>4. Apart'
  BY DEF Call, Apart, OfDifferentNodes
<1>5. Root'
  BY <1>1, MyIDAssumption DEF Call, Root, CostOf, HopOf
<1>6. Steady'
  BY DEF Call, Steady, Weight
<1> QED BY <1>2, <1>3, <1>4, <1>5, <1>6

\* The scan notes the own link it meets, and no other.
LEMMA NoticeLink ==
  ASSUME Control, i \in Node, Notice, adjacency_array' = adjacency_array
  PROVE  /\ seen' \in [Index -> Costs]
         /\ \A x, y \in Node :
              x # y => getCost(seen', x, y)
                        = IF /\ sourceNode = globalMyID /\ i # globalMyID
                             /\ IsOwn(x, y, i)
                          THEN getCost(adjacency_array, globalMyID, i)
                          ELSE Weight(x, y)
<1>1. seen \in [Index -> Costs] /\ adjacency_array \in [Index -> Costs]
  BY DEF Control, DijkstraTypeOK
<1>2. adjacency_array \in [Index -> Nat] /\ seen \in [Index -> Nat]
  BY Arrays DEF Control
<1>3. CASE sourceNode = globalMyID /\ i # globalMyID
  <2> DEFINE c == getCost(adjacency_array, globalMyID, i)
  <2>1. seen' = setCost(seen, globalMyID, i, c)
    BY <1>3 DEF Notice
  <2>2. c \in Nat
    BY <1>2, <1>3, MyIDAssumption, WeightType
  <2>3. c \in Costs
    BY <1>1, <1>3, MyIDAssumption, IndexInArray DEF getCost
  <2> HIDE DEF c
  <2>4. seen' \in [Index -> Costs]
    BY <1>1, <2>1, <2>3, MyIDAssumption, OwnCostType
  <2>5. ASSUME NEW x \in Node, NEW y \in Node, x # y
        PROVE  getCost(seen', x, y) = IF IsOwn(x, y, i) THEN c ELSE getCost(seen, x, y)
    <3>1. getCost(setCost(seen, globalMyID, i, c), x, y)
            = IF IsOwn(x, y, i) THEN c ELSE getCost(seen, x, y)
      BY <1>2, <1>3, <2>2, <2>5, OwnLinkWritten
    <3> QED BY <2>1, <3>1
  <2> QED BY <1>3, <2>4, <2>5 DEF c, Weight
<1>4. CASE ~(sourceNode = globalMyID /\ i # globalMyID)
  <2>1. seen' = seen
    BY <1>4 DEF Notice
  <2> QED BY <1>1, <1>4, <2>1 DEF Weight
<1> QED BY <1>3, <1>4

\* The link the scan is at is as it was noted: it is an own one, or one that stays.
LEMMA NotedLink ==
  ASSUME Control, i \in Node, Notice, adjacency_array' = adjacency_array,
         pc # "idle", i # sourceNode, ~Settled(i)
  PROVE  /\ sourceNode \in Node
         /\ getCost(seen', sourceNode, i) = getCost(adjacency_array, sourceNode, i)
<1>1. sourceNode \in Node /\ Settled(globalMyID) /\ i # globalMyID
  BY DEF Control, Place
<1>2. CASE sourceNode = globalMyID
  BY <1>1, <1>2, NoticeLink, MyIDAssumption DEF IsOwn
<1>3. CASE sourceNode # globalMyID
  <2>1. getCost(seen', sourceNode, i) = Weight(sourceNode, i)
    BY <1>1, <1>3, NoticeLink
  <2>2. Weight(sourceNode, i) = getCost(adjacency_array, sourceNode, i)
    BY <1>1, <1>3 DEF Control, Steady
  <2> QED BY <1>1, <2>1, <2>2
<1> QED BY <1>1, <1>2, <1>3

\* The links of the other routers stay as they were noted.
LEMMA OthersNoted ==
  ASSUME Control, i \in Node, Notice, adjacency_array' = adjacency_array
  PROVE  \A x, y \in Node \ {globalMyID} :
           x # y => getCost(seen', x, y) = getCost(adjacency_array', x, y)
<1> SUFFICES ASSUME NEW x \in Node \ {globalMyID}, NEW y \in Node \ {globalMyID}, x # y
             PROVE  getCost(seen', x, y) = getCost(adjacency_array', x, y)
  OBVIOUS
<1>1. getCost(seen', x, y) = Weight(x, y)
  BY NoticeLink DEF IsOwn
<1>2. Weight(x, y) = getCost(adjacency_array, x, y)
  BY DEF Control, Steady
<1> QED BY <1>1, <1>2
-----------------------------------------------------------------------------
(* What a read and a selection do.                                           *)

\* What the link to the neighbour the scan is at makes of it.
NewElement == [dest |-> i,
               cost |-> CostOf(sourceNode) + getCost(adjacency_array, sourceNode, i),
               dest_prev |-> sourceNode,
               next_hop |-> HopThrough(sourceNode, i)]

\* Where a read happens, and that the new element is one.
LEMMA ReadFacts ==
  ASSUME Control, pc = "read"
  PROVE  /\ i \in Node /\ sourceNode \in Node /\ i # sourceNode /\ i # globalMyID
         /\ ~Settled(i) /\ Settled(sourceNode) /\ Settled(globalMyID)
         /\ CostOf(sourceNode) \in Nat /\ getCost(adjacency_array, sourceNode, i) \in Nat
         /\ HopThrough(sourceNode, i) \in Node
         /\ NewElement \in Element
<1>1. /\ sourceNode \in Node /\ i # sourceNode /\ i < N
      /\ ~Settled(i) /\ Settled(sourceNode) /\ Settled(globalMyID)
  BY DEF Control, Place
<1>2. i \in Node
  BY <1>1, NAssumption DEF Control, DijkstraTypeOK, Node
<1>3. i # globalMyID
  BY <1>1
<1>4. CostOf(sourceNode) \in Nat /\ HopOf(sourceNode) \in Node \cup {None}
  BY <1>1, SettledFacts DEF Control
<1>5. getCost(adjacency_array, sourceNode, i) \in Nat
  BY <1>1, <1>2, Arrays, WeightType DEF Control
<1>6. HopThrough(sourceNode, i) \in Node
  BY <1>1, <1>2, <1>4 DEF Control, Root, HopThrough
<1>7. CostOf(sourceNode) + getCost(adjacency_array, sourceNode, i) \in Nat
  BY <1>4, <1>5
<1>8. NewElement \in Element
  BY <1>1, <1>2, <1>6, <1>7 DEF NewElement, Element
<1> QED BY <1>1, <1>2, <1>3, <1>4, <1>5, <1>6, <1>8

\* The position of the element of a node.
LEMMA PositionFound ==
  ASSUME NEW n, InTentative(n)
  PROVE  PositionOf(n) \in DOMAIN tentative /\ tentative[PositionOf(n)].dest = n
BY DEF InTentative, PositionOf

\* A read appends the new element, replaces a worse one by it, or does nothing.
LEMMA ReadCases ==
  ASSUME Control, Read
  PROVE  \/ /\ \A k \in DOMAIN tentative : tentative[k].dest # i
            /\ tentative' = Append(tentative, NewElement)
         \/ \E k \in DOMAIN tentative :
              /\ tentative[k].dest = i
              /\ tentative' = IF Better(NewElement, tentative[k])
                              THEN [tentative EXCEPT ![k] = NewElement] ELSE tentative
<1> DEFINE new == [dest |-> i,
                   cost |-> forwarding_table[sourceNode].cost
                              + getCost(adjacency_array, sourceNode, i),
                   dest_prev |-> sourceNode,
                   next_hop |-> None]
<1>1. pc = "read" /\ Relax(new)
  BY DEF Read
<1>2. /\ i \in Node /\ sourceNode \in Node /\ i # sourceNode /\ i # globalMyID
      /\ Settled(sourceNode)
  BY <1>1, ReadFacts
<1>3. new.dest = i /\ new.cost = NewElement.cost /\ new.dest_prev = NewElement.dest_prev
  BY DEF NewElement, CostOf
<1>4. CASE ~InTentative(i)
  <2>1. tentative' = Append(tentative, [new EXCEPT !.next_hop = HopTo(i)])
    BY <1>1, <1>3, <1>4 DEF Relax
  <2>2. HopTo(i) = HopThrough(sourceNode, i)
    BY <1>2 DEF HopTo, HopThrough, HopOf, Control, Root
  <2>3. [new EXCEPT !.next_hop = HopTo(i)] = NewElement
    BY <2>2 DEF NewElement, CostOf
  <2> QED BY <1>4, <2>1, <2>3 DEF InTentative
<1>5. CASE InTentative(i)
  <2> DEFINE k == PositionOf(i)
  <2>1. k \in DOMAIN tentative /\ tentative[k].dest = i
    BY <1>5, PositionFound
  <2>2. sourceNode # globalMyID
    <3>1. ASSUME sourceNode = globalMyID PROVE FALSE
      <4>1. tentative[k].dest < i
        BY <2>1, <3>1 DEF Control, Place
      <4> QED BY <1>2, <2>1, <4>1, NAssumption DEF Node
    <3> QED BY <3>1
  <2>3. [new EXCEPT !.next_hop = forwarding_table[sourceNode].next_hop] = NewElement
    BY <2>2 DEF NewElement, CostOf, HopThrough, HopOf
  <2>4. tentative' = IF Better(new, tentative[k])
                     THEN [tentative EXCEPT
                             ![k] = [new EXCEPT !.next_hop = forwarding_table[sourceNode].next_hop]]
                     ELSE tentative
    BY <1>1, <1>3, <1>5 DEF Relax
  <2>5. Better(new, tentative[k]) <=> Better(NewElement, tentative[k])
    BY <1>3 DEF Better
  <2> HIDE DEF k, new
  <2>6. tentative' = IF Better(NewElement, tentative[k])
                     THEN [tentative EXCEPT ![k] = NewElement] ELSE tentative
    BY <2>3, <2>4, <2>5
  <2> QED BY <2>1, <2>6
<1> QED BY <1>4, <1>5

\* The elements after a read: the old ones and the new one, which is there unless the
\* one of its node is not worse.
LEMMA ReadEffect ==
  ASSUME Control, Read
  PROVE  /\ tentative' \in Seq(Element) /\ OfDifferentNodes(tentative')
         /\ \A l \in DOMAIN tentative' :
              tentative'[l] = NewElement \/ \E k \in DOMAIN tentative : tentative'[l] = tentative[k]
         /\ \A k \in DOMAIN tentative :
              /\ k \in DOMAIN tentative' /\ tentative'[k].dest = tentative[k].dest
              /\ tentative'[k] = tentative[k]
                 \/ (tentative'[k] = NewElement /\ Better(NewElement, tentative[k]))
         /\ \E k \in DOMAIN tentative' :
              /\ tentative'[k].dest = i
              /\ tentative'[k] = NewElement \/ ~Better(NewElement, tentative'[k])
<1>1. NewElement \in Element /\ NewElement.dest = i
  BY ReadFacts DEF Read, NewElement
<1>2. tentative \in Seq(Element) /\ OfDifferentNodes(tentative)
  BY DEF Control, DijkstraTypeOK, Apart
<1>3. CASE /\ \A k \in DOMAIN tentative : tentative[k].dest # i
           /\ tentative' = Append(tentative, NewElement)
  <2>1. /\ tentative' \in Seq(Element) /\ Len(tentative') = Len(tentative) + 1
        /\ \A k \in 1 .. Len(tentative) : tentative'[k] = tentative[k]
        /\ tentative'[Len(tentative) + 1] = NewElement
    BY <1>1, <1>2, <1>3
  <2>2. /\ DOMAIN tentative = 1 .. Len(tentative) /\ Len(tentative) \in Nat
        /\ DOMAIN tentative' = 1 .. Len(tentative) + 1
    BY <1>2, <2>1
  <2> HIDE <1>3
  <2>3. \A l \in DOMAIN tentative' : l \in DOMAIN tentative \/ l = Len(tentative) + 1
    BY <2>2
  <2>4. \A k \in DOMAIN tentative : k \in DOMAIN tentative' /\ tentative'[k] = tentative[k]
    BY <2>1, <2>2
  <2>5. Len(tentative) + 1 \in DOMAIN tentative'
    BY <2>2
  <2>6. OfDifferentNodes(tentative')
    BY <1>1, <1>2, <1>3, <2>1, <2>3, <2>4 DEF OfDifferentNodes
  <2>7. \A l \in DOMAIN tentative' :
          tentative'[l] = NewElement \/ \E k \in DOMAIN tentative : tentative'[l] = tentative[k]
    BY <2>1, <2>3, <2>4
  <2> QED BY <1>1, <2>1, <2>4, <2>5, <2>6, <2>7
<1>4. ASSUME NEW k \in DOMAIN tentative, tentative[k].dest = i, Better(NewElement, tentative[k]),
             tentative' = [tentative EXCEPT ![k] = NewElement]
      PROVE  /\ tentative' \in Seq(Element) /\ OfDifferentNodes(tentative')
             /\ \A l \in DOMAIN tentative' :
                  tentative'[l] = NewElement
                    \/ \E m \in DOMAIN tentative : tentative'[l] = tentative[m]
             /\ \A m \in DOMAIN tentative :
                  /\ m \in DOMAIN tentative' /\ tentative'[m].dest = tentative[m].dest
                  /\ tentative'[m] = tentative[m]
                       \/ (tentative'[m] = NewElement /\ Better(NewElement, tentative[m]))
             /\ \E m \in DOMAIN tentative' :
                  /\ tentative'[m].dest = i
                  /\ tentative'[m] = NewElement \/ ~Better(NewElement, tentative'[m])
  <2>1. tentative' \in Seq(Element)
    BY <1>1, <1>2, <1>4
  <2>2. /\ DOMAIN tentative' = DOMAIN tentative
        /\ \A m \in DOMAIN tentative :
             tentative'[m] = IF m = k THEN NewElement ELSE tentative[m]
    BY <1>2, <1>4
  <2>3. \A m \in DOMAIN tentative : tentative'[m].dest = tentative[m].dest
    BY <1>1, <1>4, <2>2
  <2>4. OfDifferentNodes(tentative')
    BY <1>2, <2>2, <2>3 DEF OfDifferentNodes
  <2> QED BY <1>1, <1>4, <2>1, <2>2, <2>3, <2>4
<1>5. ASSUME NEW k \in DOMAIN tentative, tentative[k].dest = i, ~Better(NewElement, tentative[k]),
             tentative' = tentative
      PROVE  /\ tentative' \in Seq(Element) /\ OfDifferentNodes(tentative')
             /\ \E m \in DOMAIN tentative' :
                  /\ tentative'[m].dest = i
                  /\ tentative'[m] = NewElement \/ ~Better(NewElement, tentative'[m])
  BY <1>2, <1>5
<1> QED BY <1>3, <1>4, <1>5, ReadCases

\* A selection settles the node of an element of smallest cost and takes it out.
LEMMA SelectEffect ==
  ASSUME Control, Select
  PROVE  \E k \in DOMAIN tentative :
           LET e == tentative[k] IN
           /\ e \in Element /\ ~Settled(e.dest) /\ e.dest # globalMyID
           /\ \A l \in DOMAIN tentative : e.cost <= tentative[l].cost
           /\ sourceNode' = e.dest /\ i' = 0 /\ pc' = "scan"
           /\ forwarding_table' = [forwarding_table EXCEPT ![e.dest] =
                                     [cost |-> e.cost, next_hop |-> e.next_hop]]
           /\ tentative' \in Seq(Element) /\ OfDifferentNodes(tentative')
           /\ \A m \in DOMAIN tentative' :
                /\ tentative'[m].dest # e.dest
                /\ \E l \in DOMAIN tentative \ {k} : tentative'[m] = tentative[l]
           /\ \A l \in DOMAIN tentative \ {k} :
                \E m \in DOMAIN tentative' : tentative'[m] = tentative[l]
<1> DEFINE k == getSmallestCostElement
<1>1. tentative \in Seq(Element) /\ OfDifferentNodes(tentative) /\ tentative # <<>>
  BY DEF Control, DijkstraTypeOK, Apart, Select
<1>2. /\ k \in DOMAIN tentative
      /\ \A l \in DOMAIN tentative : tentative[k].cost <= tentative[l].cost
  BY <1>1, Smallest
<1>3. /\ tentative' = RemoveAt(tentative, k)
      /\ sourceNode' = tentative[k].dest /\ i' = 0 /\ pc' = "scan"
      /\ forwarding_table' = [forwarding_table EXCEPT ![tentative[k].dest] =
                                [cost |-> tentative[k].cost, next_hop |-> tentative[k].next_hop]]
  BY DEF Select
<1> HIDE DEF k
<1>4. ~Settled(tentative[k].dest) /\ tentative[k] \in Element
  BY <1>1, <1>2 DEF Control, Apart
<1>5. Settled(globalMyID)
  BY DEF Select, Control, Place
<1>6. /\ tentative' \in Seq(Element) /\ OfDifferentNodes(tentative')
      /\ \A m \in DOMAIN tentative' : tentative'[m].dest # tentative[k].dest
  BY <1>1, <1>2, <1>3, RemovedAt, RemovedApart
<1>7. /\ \A m \in DOMAIN tentative' : \E l \in DOMAIN tentative \ {k} : tentative'[m] = tentative[l]
      /\ \A l \in DOMAIN tentative \ {k} : \E m \in DOMAIN tentative' : tentative'[m] = tentative[l]
  BY <1>1, <1>2, <1>3, RemovedFrom
<1>8. tentative[k].dest # globalMyID
  BY <1>4, <1>5
<1> QED BY <1>2, <1>3, <1>4, <1>6, <1>7, <1>8

\* What that makes of the nodes.
LEMMA NodeSettled ==
  ASSUME DijkstraTypeOK, NEW e \in Element,
         forwarding_table' = [forwarding_table EXCEPT ![e.dest] =
                                [cost |-> e.cost, next_hop |-> e.next_hop]]
  PROVE  /\ forwarding_table' \in [Node -> Entry]
         /\ \A n \in Node :
              /\ Settled(n)' <=> Settled(n) \/ n = e.dest
              /\ CostOf(n)' = IF n = e.dest THEN e.cost ELSE CostOf(n)
              /\ HopOf(n)' = IF n = e.dest THEN e.next_hop ELSE HopOf(n)
<1>1. e.dest \in Node /\ e.cost \in Nat /\ e.next_hop \in Node
  BY ElementFields
<1>2. [cost |-> e.cost, next_hop |-> e.next_hop] \in Entry /\ e.cost # None
  BY <1>1 DEF Entry, None
<1>3. forwarding_table \in [Node -> Entry]
  BY DEF DijkstraTypeOK
<1>4. \A n \in Node :
        forwarding_table'[n] = IF n = e.dest THEN [cost |-> e.cost, next_hop |-> e.next_hop]
                               ELSE forwarding_table[n]
  BY <1>1, <1>3
<1>5. forwarding_table' \in [Node -> Entry]
  BY <1>1, <1>2, <1>3
<1> QED BY <1>2, <1>4, <1>5 DEF Settled, CostOf, HopOf
-----------------------------------------------------------------------------
(* Every step keeps Control.                                                 *)

\* A test notes the link, and goes on to the read or to the next neighbour.
LEMMA TestControl == Control /\ Test => Control'
<1> SUFFICES ASSUME Control, Test PROVE Control'
  OBVIOUS
<1> USE DEF Control
<1>1. /\ pc = "scan" /\ i < N /\ Notice /\ pc' \in {"read", "scan"} /\ i' \in {i, i + 1}
      /\ adjacency_array' = adjacency_array /\ forwarding_table' = forwarding_table
      /\ tentative' = tentative /\ sourceNode' = sourceNode /\ torn' = torn
      /\ pc' = "read" => i' = i /\ i # sourceNode /\ ~Settled(i)
                           /\ isConnected(adjacency_array, sourceNode, i)
  BY DEF Test
<1>2. i \in Node /\ N \in Nat
  BY <1>1, NAssumption DEF DijkstraTypeOK, Node
<1>3. i' \in 0 .. N /\ i <= i'
  BY <1>1, <1>2 DEF Node
<1>4. DijkstraTypeOK'
  <2>1. seen' \in [Index -> Costs]
    BY <1>1, <1>2, NoticeLink
  <2> QED BY <1>1, <1>3, <2>1 DEF DijkstraTypeOK
<1>5. \A n \in Node : Settled(n)' <=> Settled(n)
  BY <1>1 DEF Settled
<1>6. Place'
  <2>1. ASSUME sourceNode' = globalMyID
        PROVE  \A k \in DOMAIN tentative' : tentative'[k].dest < i'
    <3> SUFFICES ASSUME NEW k \in DOMAIN tentative PROVE tentative[k].dest < i'
      BY <1>1
    <3>1. tentative[k].dest < i
      BY <1>1, <2>1 DEF Place
    <3>2. tentative[k].dest \in Node
      BY ElementFields DEF DijkstraTypeOK
    <3> QED BY <1>2, <1>3, <3>1, <3>2 DEF Node
  <2>2. sourceNode' = globalMyID => \A n \in Node : Settled(n)' => n = globalMyID
    BY <1>1, <1>5 DEF Place
  <2>3. pc' # "idle" /\ sourceNode' \in Node /\ Settled(sourceNode)' /\ Settled(globalMyID)'
    BY <1>1, <1>5, MyIDAssumption DEF Place
  <2>4. pc' = "read" => i' < N /\ i' # sourceNode' /\ ~Settled(i)'
    BY <1>1 DEF Settled
  <2> QED BY <2>1, <2>2, <2>3, <2>4 DEF Place
<1>7. Apart'
  BY <1>1 DEF Apart, Settled
<1>8. Root'
  BY <1>1 DEF Root, Settled, CostOf, HopOf
<1>9. Steady'
  <2>1. \A x, y \in Node \ {globalMyID} :
          x # y => getCost(seen', x, y) = getCost(adjacency_array', x, y)
    BY <1>1, <1>2, OthersNoted
  <2>2. ASSUME pc' = "read"
        PROVE  /\ getCost(seen', sourceNode', i') = getCost(adjacency_array', sourceNode', i')
               /\ getCost(seen', sourceNode', i') # 0
    <3>1. getCost(seen', sourceNode, i) = getCost(adjacency_array, sourceNode, i)
      BY <1>1, <1>2, <2>2, NotedLink
    <3> QED BY <1>1, <2>2, <3>1 DEF isConnected
  <2> QED BY <2>1, <2>2 DEF Steady, Weight
<1> QED BY <1>4, <1>6, <1>7, <1>8, <1>9

\* A read puts the element of an unsettled node in its place.
LEMMA ReadControl == Control /\ Read => Control'
<1> SUFFICES ASSUME Control, Read PROVE Control'
  OBVIOUS
<1>1. /\ pc = "read" /\ Notice /\ pc' = "scan" /\ i' = i + 1
      /\ adjacency_array' = adjacency_array /\ forwarding_table' = forwarding_table
      /\ sourceNode' = sourceNode /\ torn' = torn
  BY DEF Read
<1>2. /\ i \in Node /\ ~Settled(i) /\ N \in Nat
      /\ sourceNode \in Node /\ Settled(sourceNode) /\ Settled(globalMyID)
      /\ NewElement.dest = i
  BY <1>1, ReadFacts, NAssumption DEF NewElement
<1>3. DijkstraTypeOK'
  <2>1. seen' \in [Index -> Costs]
    BY <1>1, <1>2, NoticeLink
  <2>2. tentative' \in Seq(Element)
    BY ReadEffect
  <2>3. i' \in 0 .. N
    BY <1>1, <1>2 DEF Node
  <2> QED BY <1>1, <2>1, <2>2, <2>3 DEF Control, DijkstraTypeOK
<1>4. \A n \in Node : Settled(n)' <=> Settled(n)
  BY <1>1 DEF Settled
<1>5. \A l \in DOMAIN tentative' :
        \/ tentative'[l].dest = i
        \/ \E k \in DOMAIN tentative : tentative'[l].dest = tentative[k].dest
  BY <1>2, ReadEffect
<1>6. Place'
  <2>1. ASSUME sourceNode' = globalMyID
        PROVE  \A l \in DOMAIN tentative' : tentative'[l].dest < i'
    <3>1. \A k \in DOMAIN tentative : tentative[k].dest < i
      BY <1>1, <2>1 DEF Control, Place
    <3>2. \A k \in DOMAIN tentative : tentative[k].dest \in Node
      BY ElementFields DEF Control, DijkstraTypeOK
    <3>3. i < i + 1 /\ \A m \in Node : m < i => m < i + 1
      BY <1>2 DEF Node
    <3> QED BY <1>1, <1>5, <3>1, <3>2, <3>3
  <2>2. sourceNode' = globalMyID => \A n \in Node : Settled(n)' => n = globalMyID
    BY <1>1, <1>4 DEF Control, Place
  <2>3. pc' = "scan" /\ sourceNode' \in Node /\ Settled(sourceNode)' /\ Settled(globalMyID)'
    BY <1>1, <1>2, <1>4, MyIDAssumption
  <2> QED BY <2>1, <2>2, <2>3 DEF Place
<1>7. Apart'
  <2>1. ASSUME NEW l \in DOMAIN tentative' PROVE forwarding_table'[tentative'[l].dest].cost = None
    <3>1. CASE tentative'[l].dest = i
      BY <1>1, <1>2, <3>1 DEF Settled
    <3>2. ASSUME NEW k \in DOMAIN tentative, tentative'[l].dest = tentative[k].dest
          PROVE  forwarding_table'[tentative'[l].dest].cost = None
      <4>1. ~Settled(tentative[k].dest)
        BY DEF Control, Apart
      <4> QED BY <1>1, <3>2, <4>1 DEF Settled
    <3> QED BY <1>5, <3>1, <3>2
  <2>2. OfDifferentNodes(tentative')
    BY ReadEffect
  <2> QED BY <2>1, <2>2 DEF Apart, OfDifferentNodes, Settled
<1>8. Root'
  BY <1>1 DEF Control, Root, Settled, CostOf, HopOf
<1>9. Steady'
  <2>1. \A x, y \in Node \ {globalMyID} :
          x # y => getCost(seen', x, y) = getCost(adjacency_array', x, y)
    BY <1>1, <1>2, OthersNoted
  <2> QED BY <1>1, <2>1 DEF Steady, Weight
<1> QED BY <1>3, <1>6, <1>7, <1>8, <1>9 DEF Control

\* A selection settles the node it goes on with.
LEMMA SelectControl == Control /\ Select => Control'
<1> SUFFICES ASSUME Control, Select PROVE Control'
  OBVIOUS
<1>1. /\ UNCHANGED <<adjacency_array, seen, torn>> /\ pc = "scan"
      /\ Settled(globalMyID)
  BY DEF Select, Control, Place
<1>2. PICK k \in DOMAIN tentative :
        LET e == tentative[k] IN
        /\ e \in Element /\ ~Settled(e.dest) /\ e.dest # globalMyID
        /\ \A l \in DOMAIN tentative : e.cost <= tentative[l].cost
        /\ sourceNode' = e.dest /\ i' = 0 /\ pc' = "scan"
        /\ forwarding_table' = [forwarding_table EXCEPT ![e.dest] =
                                  [cost |-> e.cost, next_hop |-> e.next_hop]]
        /\ tentative' \in Seq(Element) /\ OfDifferentNodes(tentative')
        /\ \A m \in DOMAIN tentative' :
             /\ tentative'[m].dest # e.dest
             /\ \E l \in DOMAIN tentative \ {k} : tentative'[m] = tentative[l]
        /\ \A l \in DOMAIN tentative \ {k} :
             \E m \in DOMAIN tentative' : tentative'[m] = tentative[l]
  BY SelectEffect
<1> DEFINE e == tentative[k]
<1>3. /\ e \in Element /\ ~Settled(e.dest) /\ e.dest # globalMyID
      /\ sourceNode' = e.dest /\ i' = 0 /\ pc' = "scan"
      /\ forwarding_table' = [forwarding_table EXCEPT ![e.dest] =
                                [cost |-> e.cost, next_hop |-> e.next_hop]]
      /\ tentative' \in Seq(Element) /\ OfDifferentNodes(tentative')
      /\ \A m \in DOMAIN tentative' :
           /\ tentative'[m].dest # e.dest
           /\ \E l \in DOMAIN tentative : tentative'[m] = tentative[l]
  BY <1>2
<1> HIDE DEF e
<1>4. e.dest \in Node /\ e.next_hop \in Node /\ None \notin Node
  BY <1>3, ElementFields, SettledFacts, MyIDAssumption DEF Control
<1>5. /\ forwarding_table' \in [Node -> Entry]
      /\ \A n \in Node :
           /\ Settled(n)' <=> Settled(n) \/ n = e.dest
           /\ CostOf(n)' = IF n = e.dest THEN e.cost ELSE CostOf(n)
           /\ HopOf(n)' = IF n = e.dest THEN e.next_hop ELSE HopOf(n)
  BY <1>3, NodeSettled DEF Control
<1>6. DijkstraTypeOK'
  <2>1. 0 \in 0 .. N
    BY NAssumption
  <2> QED BY <1>1, <1>3, <1>4, <1>5, <2>1 DEF Control, DijkstraTypeOK
<1>7. Place'
  <2>1. forwarding_table'[e.dest].cost # None /\ Settled(globalMyID)'
    BY <1>1, <1>4, <1>5, MyIDAssumption DEF Settled
  <2>2. Settled(sourceNode)'
    BY <1>3, <2>1 DEF Settled
  <2> QED BY <1>3, <1>4, <2>1, <2>2 DEF Place
<1>8. Apart'
  <2>1. ASSUME NEW m \in DOMAIN tentative' PROVE forwarding_table'[tentative'[m].dest].cost = None
    <3>1. PICK l \in DOMAIN tentative : tentative'[m] = tentative[l]
      BY <1>3
    <3>2. ~Settled(tentative[l].dest) /\ tentative[l].dest \in Node
      BY ElementFields DEF Control, Apart, DijkstraTypeOK
    <3>3. tentative[l].dest # e.dest
      BY <1>3, <3>1
    <3>4. forwarding_table'[tentative[l].dest] = forwarding_table[tentative[l].dest]
      BY <1>3, <3>2, <3>3 DEF Control, DijkstraTypeOK
    <3> QED BY <3>1, <3>2, <3>4 DEF Settled
  <2> QED BY <1>3, <2>1 DEF Apart, OfDifferentNodes, Settled
<1>9. Root'
  <2>1. CostOf(globalMyID)' = 0
    BY <1>1, <1>3, <1>5, MyIDAssumption DEF Control, Root
  <2>2. ASSUME NEW n \in Node, Settled(n)' PROVE HopOf(n)' = None <=> n = globalMyID
    <3>1. CASE n = e.dest
      BY <1>3, <1>4, <1>5, <3>1
    <3>2. CASE n # e.dest
      BY <1>5, <2>2, <3>2 DEF Control, Root
    <3> QED BY <3>1, <3>2
  <2> QED BY <2>1, <2>2 DEF Root
<1>10. Steady'
  BY <1>1, <1>3 DEF Control, Steady, Weight
<1> QED BY <1>6, <1>7, <1>8, <1>9, <1>10 DEF Control

\* A return leaves nothing tentative.
LEMMA ReturnControl == Control /\ Return => Control'
<1> SUFFICES ASSUME Control, Return PROVE Control'
  OBVIOUS
<1>1. /\ tentative = <<>> /\ sourceNode' = None /\ pc' = "idle" /\ i' = 0
      /\ UNCHANGED <<adjacency_array, forwarding_table, tentative, seen, torn>>
  BY DEF Return
<1>2. 0 \in 0 .. N /\ None \notin Node
  BY NAssumption DEF Node, None
<1>3. DijkstraTypeOK'
  BY <1>1, <1>2 DEF Control, DijkstraTypeOK
<1>4. Place'
  BY <1>1, <1>2, MyIDAssumption DEF Place
<1>5. Apart' /\ Root' /\ Steady'
  BY <1>1 DEF Control, Apart, OfDifferentNodes, Root, Steady, Settled, CostOf, HopOf, Weight
<1> QED BY <1>3, <1>4, <1>5 DEF Control

\* A link that goes away is one of the router.
LEMMA CutControl == ASSUME NEW n \in Node PROVE Control /\ Cut(n) => Control'
<1> SUFFICES ASSUME Control, Cut(n) PROVE Control'
  OBVIOUS
<1>1. /\ n # globalMyID /\ adjacency_array' = setCost(adjacency_array, globalMyID, n, 0)
      /\ torn' = (torn \/ (pc = "read" /\ sourceNode = globalMyID /\ i = n))
      /\ UNCHANGED <<forwarding_table, tentative, sourceNode, i, pc, seen>>
  BY DEF Cut
<1>2. adjacency_array \in [Index -> Nat]
  BY Arrays DEF Control
<1>3. DijkstraTypeOK'
  <2>1. adjacency_array' \in [Index -> Costs]
    BY <1>1, MyIDAssumption, CostsAssumption, OwnCostType DEF Control, DijkstraTypeOK
  <2>2. torn' \in BOOLEAN
    BY <1>1 DEF Control, DijkstraTypeOK
  <2> QED BY <1>1, <2>1, <2>2 DEF Control, DijkstraTypeOK
<1>4. Place' /\ Apart' /\ Root'
  BY <1>1 DEF Control, Place, Apart, OfDifferentNodes, Root, Settled, CostOf, HopOf
<1>5. \A x, y \in Node :
        x # y => getCost(adjacency_array', x, y)
                   = IF IsOwn(x, y, n) THEN 0 ELSE getCost(adjacency_array, x, y)
  BY <1>1, <1>2, OwnLinkWritten
<1>6. Steady'
  <2>1. \A x, y \in Node \ {globalMyID} :
          x # y => getCost(seen', x, y) = getCost(adjacency_array', x, y)
    BY <1>1, <1>5 DEF Control, Steady, Weight, IsOwn
  <2>2. ASSUME pc = "read", ~torn'
        PROVE  /\ getCost(seen, sourceNode, i) = getCost(adjacency_array', sourceNode, i)
               /\ getCost(seen, sourceNode, i) # 0
    <3>1. i \in Node /\ sourceNode \in Node /\ i # sourceNode /\ i # globalMyID
      BY <2>2, ReadFacts
    <3>2. ~torn /\ ~(sourceNode = globalMyID /\ i = n)
      BY <1>1, <2>2
    <3>3. ~IsOwn(sourceNode, i, n)
      BY <3>1, <3>2 DEF IsOwn
    <3>4. getCost(adjacency_array', sourceNode, i) = getCost(adjacency_array, sourceNode, i)
      BY <1>5, <3>1, <3>3
    <3> QED BY <2>2, <3>2, <3>4 DEF Control, Steady, Weight
  <2> QED BY <1>1, <2>1, <2>2 DEF Steady, Weight
<1> QED BY <1>3, <1>4, <1>6 DEF Control
-----------------------------------------------------------------------------
(* Every step keeps Ways.                                                    *)

\* The tentative elements are elements of unsettled nodes, one for a node.
LEMMA ElementsApart ==
  ASSUME Control
  PROVE  /\ \A e \in Elements : e \in Element /\ ~Settled(e.dest)
         /\ \A d, e \in Elements : d.dest = e.dest => d = e
BY DEF Control, DijkstraTypeOK, Apart, OfDifferentNodes, Elements

\* The elements after a read.
LEMMA ReadElements ==
  ASSUME Control, Read
  PROVE  /\ \A e \in Elements' : e = NewElement \/ e \in Elements
         /\ \A d \in Elements :
              \/ d \in Elements'
              \/ d.dest = i /\ NewElement \in Elements' /\ Better(NewElement, d)
         /\ \/ NewElement \in Elements'
            \/ \E e \in Elements : e.dest = i /\ e \in Elements' /\ ~Better(NewElement, e)
<1>1. Elements' = {tentative'[k] : k \in DOMAIN tentative'}
  BY DEF Elements
<1>2. NewElement.dest = i
  BY DEF NewElement
<1>3. \A e \in Elements' : e = NewElement \/ e \in Elements
  BY <1>1, ReadEffect DEF Elements
<1>4. ASSUME NEW d \in Elements
      PROVE  \/ d \in Elements'
             \/ d.dest = i /\ NewElement \in Elements' /\ Better(NewElement, d)
  <2>1. PICK k \in DOMAIN tentative : d = tentative[k]
    BY DEF Elements
  <2>2. /\ k \in DOMAIN tentative' /\ tentative'[k].dest = tentative[k].dest
        /\ \/ tentative'[k] = tentative[k]
           \/ (tentative'[k] = NewElement /\ Better(NewElement, tentative[k]))
    BY ReadEffect
  <2>3. tentative'[k] \in Elements'
    BY <1>1, <2>2
  <2> QED BY <1>2, <2>1, <2>2, <2>3
<1>5. PICK k \in DOMAIN tentative' :
        /\ tentative'[k].dest = i
        /\ tentative'[k] = NewElement \/ ~Better(NewElement, tentative'[k])
  BY ReadEffect
<1>6. tentative'[k] \in Elements'
  BY <1>1, <1>5
<1> QED BY <1>3, <1>4, <1>5, <1>6

\* The elements after a selection: all but the one that was settled.
LEMMA SelectElements ==
  ASSUME Control, Select
  PROVE  \E e \in Elements :
           /\ e \in Element /\ ~Settled(e.dest) /\ e.dest # globalMyID
           /\ \A d \in Elements : e.cost <= d.cost
           /\ sourceNode' = e.dest /\ i' = 0 /\ pc' = "scan"
           /\ forwarding_table' = [forwarding_table EXCEPT ![e.dest] =
                                     [cost |-> e.cost, next_hop |-> e.next_hop]]
           /\ \A d \in Elements' : d \in Elements /\ d.dest # e.dest
           /\ \A d \in Elements : d.dest # e.dest => d \in Elements'
<1>1. PICK k \in DOMAIN tentative :
        LET e == tentative[k] IN
        /\ e \in Element /\ ~Settled(e.dest) /\ e.dest # globalMyID
        /\ \A l \in DOMAIN tentative : e.cost <= tentative[l].cost
        /\ sourceNode' = e.dest /\ i' = 0 /\ pc' = "scan"
        /\ forwarding_table' = [forwarding_table EXCEPT ![e.dest] =
                                  [cost |-> e.cost, next_hop |-> e.next_hop]]
        /\ tentative' \in Seq(Element) /\ OfDifferentNodes(tentative')
        /\ \A m \in DOMAIN tentative' :
             /\ tentative'[m].dest # e.dest
             /\ \E l \in DOMAIN tentative \ {k} : tentative'[m] = tentative[l]
        /\ \A l \in DOMAIN tentative \ {k} :
             \E m \in DOMAIN tentative' : tentative'[m] = tentative[l]
  BY SelectEffect
<1>2. Elements' = {tentative'[m] : m \in DOMAIN tentative'}
  BY DEF Elements
<1>3. tentative[k] \in Elements
  BY DEF Elements
<1>4. \A d \in Elements : tentative[k].cost <= d.cost
  BY <1>1 DEF Elements
<1>5. \A d \in Elements' : d \in Elements /\ d.dest # tentative[k].dest
  BY <1>1, <1>2 DEF Elements
<1>6. ASSUME NEW d \in Elements, d.dest # tentative[k].dest PROVE d \in Elements'
  <2>1. PICK l \in DOMAIN tentative : d = tentative[l]
    BY DEF Elements
  <2>2. l \in DOMAIN tentative \ {k}
    BY <1>6, <2>1
  <2> QED BY <1>1, <1>2, <2>1, <2>2
<1> QED BY <1>1, <1>3, <1>4, <1>5, <1>6

\* The costs of the links that settled nodes have to nodes the scan has passed, or to
\* settled ones, are not noted again.
LEMMA WeightsKept ==
  ASSUME Control, i \in Node, Notice, adjacency_array' = adjacency_array,
         NEW x \in Node, NEW y \in Node, x # y, Settled(x), Settled(y) \/ Scanned(x, y)
  PROVE  getCost(seen', x, y) = Weight(x, y)
<1>1. CASE sourceNode = globalMyID
  <2>1. x = globalMyID
    BY <1>1 DEF Control, Place
  <2>2. y # i
    <3>1. CASE Settled(y)
      BY <1>1, <2>1, <3>1 DEF Control, Place
    <3>2. CASE Scanned(x, y)
      BY <1>1, <2>1, <3>2, NAssumption DEF Scanned, Node
    <3> QED BY <3>1, <3>2
  <2> QED BY <2>1, <2>2, NoticeLink DEF IsOwn
<1>2. CASE sourceNode # globalMyID
  BY <1>2, NoticeLink
<1> QED BY <1>1, <1>2

\* While the links of a node are scanned they do not change.
LEMMA WaysKept ==
  ASSUME Control, WaysFound, Settled(globalMyID), i \in Node, Notice,
         adjacency_array' = adjacency_array, forwarding_table' = forwarding_table
  PROVE  WaysFound'
<1>1. \A n \in Node : /\ Settled(n)' <=> Settled(n)
                      /\ CostOf(n)' = CostOf(n) /\ HopOf(n)' = HopOf(n)
  BY DEF Settled, CostOf, HopOf
<1>2. \A x, y \in Node : Settled(x) /\ Settled(y) =>
        /\ LinkFrom(seen', x, y) <=> LinkFrom(seen, x, y)
        /\ x # y => getCost(seen', x, y) = Weight(x, y)
  <2> SUFFICES ASSUME NEW x \in Node, NEW y \in Node, Settled(x), Settled(y), x # y
               PROVE  getCost(seen', x, y) = Weight(x, y)
    BY DEF LinkFrom, isConnected, Weight
  <2> QED BY WeightsKept
<1>3. \A x, y \in Node : Settled(x) /\ Settled(y) /\ LinkFrom(seen, x, y) =>
        getCost(seen', x, y) = Weight(x, y)
  BY <1>2 DEF LinkFrom
<1>4. Relaxed'
  BY <1>1, <1>2, <1>3 DEF WaysFound, Relaxed, Weight
<1>5. \A x, y \in Node : Before(x, y) /\ Settled(y) => Before(x, y)'
  <2> SUFFICES ASSUME NEW x \in Node, NEW y \in Node, Before(x, y), Settled(y)
               PROVE  Before(x, y)'
    OBVIOUS
  <2>1. /\ Settled(x) /\ LinkFrom(seen, x, y) /\ CostOf(y) = CostOf(x) + Weight(x, y)
        /\ HopOf(y) = HopThrough(x, y)
        /\ \A m \in Node :
             Settled(m) /\ LinkFrom(seen, m, y) /\ CostOf(m) + Weight(m, y) = CostOf(y) => x <= m
    BY DEF Before
  <2>2. HopThrough(x, y)' = HopThrough(x, y)
    BY <1>1 DEF HopThrough
  <2>3. \A m \in Node :
          Settled(m)' /\ LinkFrom(seen', m, y) /\ CostOf(m)' + getCost(seen', m, y) = CostOf(y)'
            => x <= m
    BY <1>1, <1>2, <1>3, <2>1
  <2> QED BY <1>1, <1>2, <1>3, <2>1, <2>2, <2>3 DEF Before, Weight
<1>6. Tree'
  BY <1>1, <1>5 DEF WaysFound, Tree
<1>7. Hops'
  <2> SUFFICES ASSUME NEW y \in Node \ {globalMyID}, Settled(y) PROVE IsHop(HopOf(y))'
    BY <1>1 DEF Hops
  <2>1. IsHop(HopOf(y))
    BY DEF WaysFound, Hops
  <2>2. \A h \in Node : IsHop(h) /\ Settled(globalMyID) => IsHop(h)'
    BY <1>1, <1>2, <1>3, MyIDAssumption DEF IsHop, Weight
  <2> QED BY <1>1, <2>1, <2>2 DEF IsHop, HopOf
<1> QED BY <1>4, <1>6, <1>7 DEF WaysFound
\* A call starts with the router alone.
LEMMA CallWays == Call => Ways'
<1> SUFFICES ASSUME Call PROVE Ways'
  OBVIOUS
<1>1. /\ forwarding_table' = [n \in Node |-> IF n = globalMyID
                                             THEN [cost |-> 0, next_hop |-> None]
                                             ELSE Unreached]
      /\ tentative' = <<>> /\ sourceNode' = globalMyID /\ i' = 0
  BY DEF Call
<1>2. \A n \in Node : Settled(n)' <=> n = globalMyID
  BY CallStep
<1>3. Elements' = {}
  BY <1>1 DEF Elements
<1>4. Frontier' /\ Offers'
  <2>1. \A x, y \in Node : ~Scanned(x, y)'
    BY <1>1, <1>2, NAssumption DEF Scanned, Node
  <2> QED BY <1>3, <2>1 DEF Frontier, Offers
<1>5. Rising'
  BY <1>1, <1>2, <1>3, MyIDAssumption DEF Rising, CostOf
<1>6. WaysFound'
  BY <1>2 DEF WaysFound, Relaxed, Tree, Hops, LinkFrom
<1> QED BY <1>4, <1>5, <1>6 DEF Ways

\* The offers of a node the scan has come past stay what they are.
LEMMA OffersKept ==
  ASSUME Control, i \in Node, Notice,
         adjacency_array' = adjacency_array, forwarding_table' = forwarding_table,
         sourceNode' = sourceNode, i' \in {i, i + 1}
  PROVE  /\ \A e \in Element : IsOffer(e) => IsOffer(e)'
         /\ \A x, y \in Node : Scanned(x, y) => Scanned(x, y)'
         /\ \A x, y \in Node : Scanned(x, y) =>
              /\ LinkFrom(seen', x, y) <=> LinkFrom(seen, x, y)
              /\ x # y => getCost(seen', x, y) = Weight(x, y)
<1>1. \A n \in Node : /\ Settled(n)' <=> Settled(n)
                      /\ CostOf(n)' = CostOf(n) /\ HopOf(n)' = HopOf(n)
  BY DEF Settled, CostOf, HopOf
<1>2. \A x, y \in Node : Scanned(x, y) => Scanned(x, y)'
  BY <1>1 DEF Scanned, Node
<1>3. \A x, y \in Node : Scanned(x, y) =>
        /\ LinkFrom(seen', x, y) <=> LinkFrom(seen, x, y)
        /\ x # y => getCost(seen', x, y) = Weight(x, y)
  <2> SUFFICES ASSUME NEW x \in Node, NEW y \in Node, Scanned(x, y), x # y
               PROVE  getCost(seen', x, y) = Weight(x, y)
    BY DEF LinkFrom, isConnected, Weight
  <2>1. Settled(x)
    BY DEF Scanned
  <2> QED BY <2>1, WeightsKept
<1>4. ASSUME NEW e \in Element, IsOffer(e) PROVE IsOffer(e)'
  <2> DEFINE p == e.dest_prev
             n == e.dest
  <2>1. p \in Node /\ n \in Node
    BY ElementFields
  <2>2. /\ Scanned(p, n) /\ LinkFrom(seen, p, n) /\ e.cost = CostOf(p) + Weight(p, n)
        /\ e.next_hop = HopThrough(p, n)
    BY <1>4 DEF IsOffer
  <2>3. p # n
    BY <2>2 DEF LinkFrom
  <2> HIDE DEF p, n
  <2>4. HopThrough(p, n)' = HopThrough(p, n)
    BY <1>1, <2>1 DEF HopThrough
  <2>5. /\ Scanned(p, n)' /\ LinkFrom(seen', p, n) /\ e.cost = CostOf(p)' + getCost(seen', p, n)
        /\ e.next_hop = HopThrough(p, n)'
    BY <1>1, <1>2, <1>3, <2>1, <2>2, <2>3, <2>4
  <2> QED BY <2>5 DEF IsOffer, p, n, Weight
<1> QED BY <1>2, <1>3, <1>4

\* A test that goes past a neighbour finds no link to it, or it is settled.
LEMMA TestWays == Control /\ Ways /\ Settled(globalMyID) /\ Test => Ways'
<1> SUFFICES ASSUME Control, Ways, Settled(globalMyID), Test PROVE Ways'
  OBVIOUS
<1>1. /\ pc = "scan" /\ i < N /\ Notice /\ pc' # "idle" /\ i' \in {i, i + 1}
      /\ adjacency_array' = adjacency_array /\ forwarding_table' = forwarding_table
      /\ tentative' = tentative /\ sourceNode' = sourceNode
      /\ \/ i' = i
         \/ i = sourceNode \/ ~isConnected(adjacency_array, sourceNode, i) \/ Settled(i)
  BY DEF Test
<1>2. i \in Node /\ sourceNode \in Node
  BY <1>1, NAssumption DEF Control, Place, DijkstraTypeOK, Node
<1>3. Elements' = Elements /\ \A e \in Elements : e \in Element
  BY <1>1, ElementsApart DEF Elements
<1>4. /\ \A e \in Element : IsOffer(e) => IsOffer(e)'
      /\ \A x, y \in Node : Scanned(x, y) => Scanned(x, y)'
      /\ \A x, y \in Node : Scanned(x, y) =>
           /\ LinkFrom(seen', x, y) <=> LinkFrom(seen, x, y)
           /\ x # y => getCost(seen', x, y) = Weight(x, y)
  BY <1>1, <1>2, OffersKept
<1>5. Frontier'
  BY <1>3, <1>4 DEF Ways, Frontier
<1>6. Offers'
  <2> SUFFICES ASSUME NEW x \in Node, NEW y \in Node,
                      Scanned(x, y)', ~Settled(y)', LinkFrom(seen', x, y)
               PROVE  \E e \in Elements : e.dest = y /\ NoBetter(x, y, e.cost, e.dest_prev)'
    BY <1>3 DEF Offers
  <2>1. ~Settled(y) /\ Settled(x) /\ x # y
    BY <1>1 DEF Settled, Scanned, LinkFrom
  <2>2. Scanned(x, y)
    <3>1. ASSUME ~Scanned(x, y) PROVE FALSE
      <4>1. x = sourceNode /\ y = i /\ i' = i + 1
        BY <1>1, <1>2, <2>1, <3>1 DEF Scanned, Node
      <4>2. ~isConnected(adjacency_array, sourceNode, i)
        BY <1>1, <1>2, <2>1, <4>1 DEF Node
      <4>3. getCost(seen', sourceNode, i) = getCost(adjacency_array, sourceNode, i)
        BY <1>1, <1>2, <2>1, <4>1, NotedLink
      <4> QED BY <4>1, <4>2, <4>3 DEF LinkFrom, isConnected
    <3> QED BY <3>1
  <2>3. LinkFrom(seen, x, y) /\ getCost(seen', x, y) = Weight(x, y)
    BY <1>4, <2>1, <2>2
  <2>4. PICK e \in Elements : e.dest = y /\ NoBetter(x, y, e.cost, e.dest_prev)
    BY <2>1, <2>2, <2>3 DEF Ways, Offers
  <2>5. NoBetter(x, y, e.cost, e.dest_prev)'
    BY <1>1, <2>3, <2>4 DEF NoBetter, CostOf, Weight
  <2> QED BY <2>4, <2>5
<1>7. Rising'
  BY <1>1, <1>3 DEF Ways, Rising, Settled, CostOf
<1>8. WaysFound'
  BY <1>1, <1>2, WaysKept DEF Ways
<1> QED BY <1>5, <1>6, <1>7, <1>8 DEF Ways

\* A read leaves the better of the old and the new way to the neighbour.
LEMMA ReadWays == Control /\ Ways /\ Settled(globalMyID) /\ ~torn /\ Read => Ways'
<1> SUFFICES ASSUME Control, Ways, Settled(globalMyID), ~torn, Read PROVE Ways'
  OBVIOUS
<1>1. /\ pc = "read" /\ Notice /\ pc' = "scan" /\ i' = i + 1
      /\ adjacency_array' = adjacency_array /\ forwarding_table' = forwarding_table
      /\ sourceNode' = sourceNode
  BY DEF Read
<1>2. /\ i \in Node /\ sourceNode \in Node /\ i # sourceNode /\ i # globalMyID
      /\ ~Settled(i) /\ Settled(sourceNode)
      /\ CostOf(sourceNode) \in Nat /\ getCost(adjacency_array, sourceNode, i) \in Nat
      /\ NewElement \in Element
  BY <1>1, ReadFacts
<1> DEFINE w == getCost(adjacency_array, sourceNode, i)
<1>3. /\ NewElement.dest = i /\ NewElement.cost = CostOf(sourceNode) + w
      /\ NewElement.dest_prev = sourceNode /\ NewElement.next_hop = HopThrough(sourceNode, i)
  BY DEF NewElement
<1>4. getCost(seen', sourceNode, i) = w /\ w # 0
  <2>1. getCost(seen', sourceNode, i) = w
    BY <1>1, <1>2, NotedLink
  <2>2. w # 0
    BY <1>1 DEF Control, Steady
  <2> QED BY <2>1, <2>2
<1> HIDE DEF w
<1>5. /\ \A e \in Elements' : e = NewElement \/ e \in Elements
      /\ \A d \in Elements :
           \/ d \in Elements'
           \/ d.dest = i /\ NewElement \in Elements' /\ Better(NewElement, d)
      /\ \/ NewElement \in Elements'
         \/ \E e \in Elements : e.dest = i /\ e \in Elements' /\ ~Better(NewElement, e)
  BY ReadElements
<1>6. \A e \in Elements : e \in Element
  BY ElementsApart
<1>7. /\ \A e \in Element : IsOffer(e) => IsOffer(e)'
      /\ \A x, y \in Node : Scanned(x, y) => Scanned(x, y)'
      /\ \A x, y \in Node : Scanned(x, y) =>
           /\ LinkFrom(seen', x, y) <=> LinkFrom(seen, x, y)
           /\ x # y => getCost(seen', x, y) = Weight(x, y)
  BY <1>1, <1>2, OffersKept
<1>8. Frontier'
  <2>1. ASSUME NEW e, e = NewElement PROVE IsOffer(e)'
    <3>1. HopThrough(e.dest_prev, e.dest)' = HopThrough(sourceNode, i)
      BY <1>1, <1>3, <2>1 DEF HopThrough, HopOf
    <3>2. Scanned(e.dest_prev, e.dest)'
      BY <1>1, <1>2, <1>3, <2>1 DEF Scanned, Settled, Node
    <3>3. LinkFrom(seen', e.dest_prev, e.dest)
      BY <1>2, <1>3, <1>4, <2>1 DEF LinkFrom, isConnected
    <3>4. e.cost = CostOf(e.dest_prev)' + getCost(seen', e.dest_prev, e.dest)
      BY <1>1, <1>3, <1>4, <2>1 DEF CostOf
    <3> QED BY <1>3, <2>1, <3>1, <3>2, <3>3, <3>4 DEF IsOffer, Weight
  <2>2. ASSUME NEW e \in Elements PROVE IsOffer(e)'
    BY <1>6, <1>7 DEF Ways, Frontier
  <2> QED BY <1>5, <2>1, <2>2 DEF Frontier
<1>9. Offers'
  <2> SUFFICES ASSUME NEW x \in Node, NEW y \in Node,
                      Scanned(x, y)', ~Settled(y)', LinkFrom(seen', x, y)
               PROVE  \E e \in Elements' : e.dest = y /\ NoBetter(x, y, e.cost, e.dest_prev)'
    BY DEF Offers
  <2>1. ~Settled(y) /\ Settled(x) /\ x # y
    BY <1>1 DEF Settled, Scanned, LinkFrom
  <2>2. CASE Scanned(x, y)
    <3>1. LinkFrom(seen, x, y) /\ getCost(seen', x, y) = Weight(x, y)
      BY <1>7, <2>1, <2>2
    <3>2. PICK d \in Elements : d.dest = y /\ NoBetter(x, y, d.cost, d.dest_prev)
      BY <2>1, <2>2, <3>1 DEF Ways, Offers
    <3>3. NoBetter(x, y, d.cost, d.dest_prev)'
      BY <1>1, <3>1, <3>2 DEF NoBetter, CostOf, Weight
    <3>4. ASSUME NEW e, e = NewElement, Better(e, d), d.dest = i, e \in Elements'
          PROVE  e.dest = y /\ NoBetter(x, y, e.cost, e.dest_prev)'
      <4>1. /\ CostOf(x)' = CostOf(x) /\ CostOf(x) \in Nat /\ getCost(seen', x, y) \in Nat
            /\ e.cost \in Nat /\ d.cost \in Nat
            /\ e.dest_prev \in Nat /\ d.dest_prev \in Nat /\ x \in Nat
        <5>1. CostOf(x) \in Nat
          BY <2>1, SettledFacts DEF Control
        <5>2. getCost(seen', x, y) \in Nat
          BY <2>1, <3>1, Arrays, WeightType DEF Control, Weight
        <5>3. d \in Element /\ e \in Element
          BY <1>2, <1>6, <3>4
        <5>4. \A n \in Node : n \in Nat
          BY NAssumption DEF Node
        <5> QED BY <1>1, <5>1, <5>2, <5>3, <5>4, ElementFields DEF CostOf
      <4>2. e.cost < d.cost \/ (e.cost = d.cost /\ e.dest_prev < d.dest_prev)
        BY <3>4 DEF Better
      <4>3. \/ d.cost < CostOf(x)' + getCost(seen', x, y)
            \/ d.cost = CostOf(x)' + getCost(seen', x, y) /\ d.dest_prev <= x
        BY <3>3 DEF NoBetter, Weight
      <4>4. \/ e.cost < CostOf(x)' + getCost(seen', x, y)
            \/ e.cost = CostOf(x)' + getCost(seen', x, y) /\ e.dest_prev <= x
        BY <4>1, <4>2, <4>3
      <4>5. e.dest = y
        BY <1>3, <3>2, <3>4
      <4> QED BY <4>4, <4>5 DEF NoBetter, Weight
    <3> QED BY <1>5, <3>2, <3>3, <3>4
  <2>3. CASE ~Scanned(x, y)
    <3>1. x = sourceNode /\ y = i
      BY <1>1, <1>2, <2>1, <2>3 DEF Scanned, Node
    <3>2. ASSUME NEW e, e.dest = i, e.cost \in Nat, e.dest_prev \in Nat,
                 \/ e.cost < CostOf(sourceNode) + w
                 \/ e.cost = CostOf(sourceNode) + w /\ e.dest_prev <= sourceNode
          PROVE  e.dest = y /\ NoBetter(x, y, e.cost, e.dest_prev)'
      BY <1>1, <1>4, <3>1, <3>2 DEF NoBetter, CostOf, Weight
    <3>3. sourceNode \in Nat /\ \A n \in Node : n \in Nat
      BY <1>2, NAssumption DEF Node
    <3>4. CASE NewElement \in Elements'
      <4>1. PICK e : e = NewElement
        OBVIOUS
      <4>2. e.dest = y /\ NoBetter(x, y, e.cost, e.dest_prev)'
        BY <1>2, <1>3, <3>2, <3>3, <4>1, ElementFields
      <4> QED BY <3>4, <4>1, <4>2
    <3>5. ASSUME NEW e \in Elements, e.dest = i, e \in Elements', ~Better(NewElement, e)
          PROVE  e.dest = y /\ NoBetter(x, y, e.cost, e.dest_prev)'
      <4>1. e.cost \in Nat /\ e.dest_prev \in Nat
        BY <1>6, <3>3, ElementFields
      <4>2. CostOf(sourceNode) + w \in Nat
        BY <1>2 DEF w
      <4>3. ~(CostOf(sourceNode) + w < e.cost)
              /\ ~(CostOf(sourceNode) + w = e.cost /\ sourceNode < e.dest_prev)
        BY <1>3, <3>5 DEF Better
      <4>4. \/ e.cost < CostOf(sourceNode) + w
            \/ e.cost = CostOf(sourceNode) + w /\ e.dest_prev <= sourceNode
        BY <3>3, <4>1, <4>2, <4>3
      <4> QED BY <3>2, <3>5, <4>1, <4>4
    <3> QED BY <1>5, <3>4, <3>5
  <2> QED BY <2>2, <2>3
<1>10. Rising'
  <2>1. \A n \in Node : Settled(n)' => CostOf(n)' <= CostOf(sourceNode)'
    BY <1>1 DEF Ways, Rising, Settled, CostOf
  <2>2. \A e \in Elements : CostOf(sourceNode) <= e.cost
    BY <1>1 DEF Ways, Rising
  <2>3. CostOf(sourceNode) <= NewElement.cost
    BY <1>2, <1>3 DEF w
  <2>4. CostOf(sourceNode)' = CostOf(sourceNode)
    BY <1>1 DEF CostOf
  <2> QED BY <1>5, <2>1, <2>2, <2>3, <2>4 DEF Rising
<1>11. WaysFound'
  BY <1>1, <1>2, WaysKept DEF Ways
<1> QED BY <1>8, <1>9, <1>10, <1>11 DEF Ways

\* A selection settles its node at the cost of a shortest way.
LEMMA SelectWays == Control /\ Ways /\ Select => Ways'
<1> SUFFICES ASSUME Control, Ways, Select PROVE Ways'
  OBVIOUS
<1>1. /\ seen' = seen /\ i = N /\ pc = "scan" /\ sourceNode \in Node /\ Settled(sourceNode)
      /\ Settled(globalMyID)
  BY DEF Select, Control, Place
<1>2. PICK e \in Elements :
        /\ e \in Element /\ ~Settled(e.dest) /\ e.dest # globalMyID
        /\ \A d \in Elements : e.cost <= d.cost
        /\ sourceNode' = e.dest /\ i' = 0 /\ pc' = "scan"
        /\ forwarding_table' = [forwarding_table EXCEPT ![e.dest] =
                                  [cost |-> e.cost, next_hop |-> e.next_hop]]
        /\ \A d \in Elements' : d \in Elements /\ d.dest # e.dest
        /\ \A d \in Elements : d.dest # e.dest => d \in Elements'
  BY SelectElements
<1>3. /\ \A d \in Elements : d \in Element /\ ~Settled(d.dest)
      /\ \A c, d \in Elements : c.dest = d.dest => c = d
  BY ElementsApart
<1> DEFINE s == e.dest
           p == e.dest_prev
<1>4. s \in Node /\ e.cost \in Nat /\ p \in Node /\ e.next_hop \in Node
  BY <1>2, ElementFields
<1>5. \A n \in Node :
        /\ Settled(n)' <=> Settled(n) \/ n = s
        /\ CostOf(n)' = IF n = s THEN e.cost ELSE CostOf(n)
        /\ HopOf(n)' = IF n = s THEN e.next_hop ELSE HopOf(n)
  BY <1>2, NodeSettled DEF Control
<1>6. /\ Settled(p) /\ LinkFrom(seen, p, s) /\ e.cost = CostOf(p) + Weight(p, s)
      /\ e.next_hop = HopThrough(p, s)
  BY <1>2 DEF Ways, Frontier, IsOffer, Scanned
<1>7. /\ ~Settled(s) /\ s # globalMyID /\ sourceNode' = s /\ i' = 0
      /\ \A d \in Elements : d.dest = s => d = e
  BY <1>2, <1>3
<1> HIDE DEF s, p
<1>8. \A x, y \in Node : Settled(x) => Scanned(x, y)
  BY <1>1, NAssumption DEF Scanned, Node
<1>9. /\ \A n \in Node : Settled(n) => CostOf(n) \in Nat /\ CostOf(n) <= e.cost
      /\ \A d \in Elements : e.cost <= d.cost
  <2>1. CostOf(sourceNode) <= e.cost
    BY <1>1, <1>2 DEF Ways, Rising
  <2>2. \A n \in Node : Settled(n) => CostOf(n) <= CostOf(sourceNode)
    BY <1>1 DEF Ways, Rising
  <2>3. \A n \in Node : Settled(n) => CostOf(n) \in Nat
    BY SettledFacts DEF Control
  <2> QED BY <1>1, <1>2, <1>4, <2>1, <2>2, <2>3
<1>10. \A x, y \in Node : LinkFrom(seen, x, y) => x # y /\ Weight(x, y) \in Nat \ {0}
  <2> SUFFICES ASSUME NEW x \in Node, NEW y \in Node, LinkFrom(seen, x, y)
               PROVE  x # y /\ Weight(x, y) \in Nat \ {0}
    OBVIOUS
  <2>1. x # y /\ Weight(x, y) # 0
    BY DEF LinkFrom, isConnected, Weight
  <2>2. Weight(x, y) \in Nat
    BY <2>1, Arrays, WeightType DEF Control, Weight
  <2> QED BY <2>1, <2>2
<1>11. \A x \in Node : Settled(x) /\ LinkFrom(seen, x, s) => NoBetter(x, s, e.cost, p)
  <2> SUFFICES ASSUME NEW x \in Node, Settled(x), LinkFrom(seen, x, s)
               PROVE  NoBetter(x, s, e.cost, p)
    OBVIOUS
  <2>1. PICK d \in Elements : d.dest = s /\ NoBetter(x, s, d.cost, d.dest_prev)
    BY <1>4, <1>7, <1>8 DEF Ways, Offers
  <2>2. d = e
    BY <1>7, <2>1
  <2> QED BY <2>1, <2>2 DEF p
<1>12. Frontier'
  <2> SUFFICES ASSUME NEW d \in Elements' PROVE IsOffer(d)'
    BY DEF Frontier
  <2> DEFINE q == d.dest_prev
             n == d.dest
  <2>1. d \in Elements /\ n # s
    BY <1>2 DEF s
  <2>2. q \in Node /\ n \in Node
    BY <1>3, <2>1, ElementFields
  <2>3. /\ Settled(q) /\ LinkFrom(seen, q, n) /\ d.cost = CostOf(q) + Weight(q, n)
        /\ d.next_hop = HopThrough(q, n)
    BY <2>1 DEF Ways, Frontier, IsOffer, Scanned
  <2> HIDE DEF q, n
  <2>4. q # s
    BY <1>7, <2>3
  <2>5. Scanned(q, n)'
    BY <1>5, <1>7, <2>2, <2>3, <2>4 DEF Scanned
  <2>6. CostOf(q)' = CostOf(q) /\ HopThrough(q, n)' = HopThrough(q, n)
    BY <1>5, <2>2, <2>4 DEF HopThrough
  <2>7. /\ Scanned(q, n)' /\ LinkFrom(seen', q, n) /\ d.cost = CostOf(q)' + getCost(seen', q, n)
        /\ d.next_hop = HopThrough(q, n)'
    BY <1>1, <2>3, <2>5, <2>6 DEF Weight
  <2> QED BY <2>7 DEF IsOffer, q, n, Weight
<1>13. Offers'
  <2> SUFFICES ASSUME NEW x \in Node, NEW y \in Node,
                      Scanned(x, y)', ~Settled(y)', LinkFrom(seen', x, y)
               PROVE  \E d \in Elements' : d.dest = y /\ NoBetter(x, y, d.cost, d.dest_prev)'
    BY DEF Offers
  <2>1. x # s
    BY <1>7, NAssumption DEF Scanned, Node
  <2>2. Settled(x) /\ ~Settled(y) /\ y # s
    BY <1>5, <2>1 DEF Scanned
  <2>3. PICK d \in Elements : d.dest = y /\ NoBetter(x, y, d.cost, d.dest_prev)
    BY <1>1, <1>8, <2>2 DEF Ways, Offers
  <2>4. d \in Elements'
    BY <1>2, <2>2, <2>3 DEF s
  <2>5. NoBetter(x, y, d.cost, d.dest_prev)'
    BY <1>1, <1>5, <2>1, <2>3 DEF NoBetter, Weight
  <2> QED BY <2>3, <2>4, <2>5
<1>14. Rising'
  <2>1. CostOf(sourceNode)' = e.cost
    <3>1. forwarding_table'[s].cost = e.cost
      BY <1>4, <1>5 DEF CostOf
    <3> QED BY <1>7, <3>1 DEF CostOf
  <2>2. \A n \in Node : Settled(n)' => CostOf(n)' <= e.cost
    BY <1>4, <1>5, <1>9
  <2>3. \A d \in Elements' : e.cost <= d.cost
    BY <1>2
  <2> QED BY <2>1, <2>2, <2>3 DEF Rising
<1>15. Relaxed'
  <2> SUFFICES ASSUME NEW x \in Node, NEW y \in Node, Settled(x)', Settled(y)', LinkFrom(seen, x, y)
               PROVE  CostOf(y)' <= CostOf(x)' + Weight(x, y)
    BY <1>1 DEF Relaxed, Weight
  <2>1. x # y /\ Weight(x, y) \in Nat \ {0}
    BY <1>10
  <2>2. CASE x # s /\ y # s
    BY <1>5, <2>2 DEF Ways, WaysFound, Relaxed
  <2>3. CASE y = s
    <3>1. x # s /\ Settled(x)
      BY <1>5, <2>1, <2>3
    <3>2. NoBetter(x, s, e.cost, p)
      BY <1>11, <2>3, <3>1
    <3>3. CostOf(x) \in Nat
      BY <1>9, <3>1
    <3>4. e.cost <= CostOf(x) + Weight(x, y)
      BY <1>4, <2>1, <2>3, <3>2, <3>3 DEF NoBetter
    <3> QED BY <1>5, <2>3, <3>1, <3>4
  <2>4. CASE x = s
    <3>1. Settled(y) /\ y # s
      BY <1>5, <2>1, <2>4
    <3>2. CostOf(y) \in Nat /\ CostOf(y) <= e.cost
      BY <1>9, <3>1
    <3>3. CostOf(y)' = CostOf(y) /\ CostOf(x)' = e.cost
      BY <1>5, <2>4, <3>1
    <3> QED BY <1>4, <2>1, <3>2, <3>3
  <2> QED BY <2>2, <2>3, <2>4
<1>16. Tree'
  <2> SUFFICES ASSUME NEW y \in Node \ {globalMyID}, Settled(y)'
               PROVE  \E x \in Node : Before(x, y)'
    BY DEF Tree
  <2>1. CASE y = s
    <3>1. p # s
      BY <1>6, <1>7
    <3>2. HopThrough(p, s)' = HopThrough(p, s)
      BY <1>4, <1>5, <3>1 DEF HopThrough
    <3>3. ASSUME NEW m \in Node, Settled(m)', LinkFrom(seen, m, s),
                 CostOf(m)' + Weight(m, s) = CostOf(s)'
          PROVE  p <= m
      <4>1. m # s /\ Settled(m)
        BY <1>4, <1>5, <1>10, <3>3
      <4>2. NoBetter(m, s, e.cost, p)
        BY <1>11, <3>3, <4>1
      <4>3. CostOf(m) + Weight(m, s) = e.cost
        BY <1>4, <1>5, <3>3, <4>1
      <4> QED BY <1>4, <4>2, <4>3 DEF NoBetter
    <3>4. /\ Settled(p)' /\ CostOf(s)' = CostOf(p)' + Weight(p, s)
          /\ HopOf(s)' = HopThrough(p, s)'
      BY <1>4, <1>5, <1>6, <3>1, <3>2
    <3>5. Before(p, s)'
      <4>1. \A m \in Node : Settled(m)' /\ LinkFrom(seen', m, s)
                              /\ CostOf(m)' + getCost(seen', m, s) = CostOf(s)' => p <= m
        BY <1>1, <3>3 DEF Weight
      <4>2. LinkFrom(seen', p, s) /\ CostOf(s)' = CostOf(p)' + getCost(seen', p, s)
        BY <1>1, <1>6, <3>4 DEF Weight
      <4> HIDE DEF LinkFrom
      <4> QED BY <3>4, <4>1, <4>2 DEF Before, Weight
    <3> QED BY <1>4, <2>1, <3>5
  <2>2. CASE y # s
    <3>1. Settled(y) /\ CostOf(y)' = CostOf(y) /\ HopOf(y)' = HopOf(y)
      BY <1>5, <2>2
    <3>2. PICK x \in Node : Before(x, y)
      BY <3>1 DEF Ways, WaysFound, Tree
    <3>3. /\ Settled(x) /\ LinkFrom(seen, x, y) /\ CostOf(y) = CostOf(x) + Weight(x, y)
          /\ HopOf(y) = HopThrough(x, y)
          /\ \A m \in Node :
               Settled(m) /\ LinkFrom(seen, m, y) /\ CostOf(m) + Weight(m, y) = CostOf(y) => x <= m
      BY <3>2 DEF Before
    <3>4. x # s
      BY <1>7, <3>3
    <3>5. ASSUME NEW m \in Node, Settled(m)', LinkFrom(seen, m, y),
                 CostOf(m)' + Weight(m, y) = CostOf(y)'
          PROVE  x <= m
      <4>1. CASE m = s
        <5>1. CostOf(y) \in Nat /\ CostOf(y) <= e.cost
          BY <1>9, <3>1
        <5>2. e.cost + Weight(m, y) = CostOf(y)
          BY <1>5, <3>1, <3>5, <4>1
        <5>3. Weight(m, y) \in Nat \ {0}
          BY <1>10, <3>5
        <5> QED BY <1>4, <5>1, <5>2, <5>3
      <4>2. CASE m # s
        BY <1>5, <3>1, <3>3, <3>5, <4>2
      <4> QED BY <4>1, <4>2
    <3>6. CostOf(x)' = CostOf(x) /\ Settled(x)' /\ HopThrough(x, y)' = HopThrough(x, y)
      BY <1>5, <3>3, <3>4 DEF HopThrough
    <3>7. /\ Settled(x)' /\ LinkFrom(seen', x, y) /\ CostOf(y)' = CostOf(x)' + getCost(seen', x, y)
          /\ HopOf(y)' = HopThrough(x, y)'
      BY <1>1, <3>1, <3>3, <3>6 DEF Weight
    <3>8. \A m \in Node : Settled(m)' /\ LinkFrom(seen', m, y)
                            /\ CostOf(m)' + getCost(seen', m, y) = CostOf(y)' => x <= m
      BY <1>1, <3>5 DEF Weight
    <3> QED BY <3>7, <3>8 DEF Before, Weight
  <2> QED BY <2>1, <2>2
<1>17. Hops'
  <2>1. \A h \in Node : IsHop(h) => IsHop(h)'
    BY <1>1, <1>5, <1>7, MyIDAssumption DEF IsHop, Weight
  <2>2. \A h : IsHop(h) => h \in Node
    BY DEF IsHop
  <2> SUFFICES ASSUME NEW y \in Node \ {globalMyID}, Settled(y)', NEW h, h = HopOf(y)'
               PROVE  IsHop(h)'
    BY DEF Hops, IsHop, HopOf
  <2>3. CASE y # s
    BY <1>5, <2>1, <2>2, <2>3 DEF Ways, WaysFound, Hops
  <2>4. CASE y = s /\ p # globalMyID
    <3>1. h = HopOf(p)
      BY <1>5, <1>6, <2>4 DEF HopThrough
    <3> QED BY <1>4, <1>6, <2>1, <2>2, <2>4, <3>1 DEF Ways, WaysFound, Hops
  <2>5. CASE y = s /\ p = globalMyID
    <3>1. h = s /\ HopOf(s)' = s
      BY <1>4, <1>5, <1>6, <2>5 DEF HopThrough
    <3>2. CostOf(s)' = Weight(globalMyID, s)
      <4>1. CostOf(globalMyID) = 0
        BY <1>1 DEF Control, Root
      <4>2. Weight(globalMyID, s) \in Nat
        BY <1>4, <1>6, <1>10, <2>5
      <4> QED BY <1>4, <1>5, <1>6, <2>5, <4>1, <4>2
    <3>3. Settled(s)' /\ LinkFrom(seen', globalMyID, s)
      BY <1>1, <1>4, <1>5, <1>6, <2>5
    <3> QED BY <1>1, <1>4, <1>7, <3>1, <3>2, <3>3 DEF IsHop, Weight
  <2> QED BY <2>3, <2>4, <2>5
<1> QED BY <1>12, <1>13, <1>14, <1>15, <1>16, <1>17 DEF Ways, WaysFound

\* A return leaves the table as it is.
LEMMA ReturnWays == Control /\ Ways /\ Return => Ways'
<1> SUFFICES ASSUME Control, Ways, Return PROVE Ways'
  OBVIOUS
<1>1. /\ tentative = <<>> /\ i = N /\ sourceNode' = None /\ pc' = "idle"
      /\ UNCHANGED <<forwarding_table, tentative, seen>>
  BY DEF Return
<1>2. Elements = {} /\ Elements' = {}
  BY <1>1 DEF Elements
<1>3. \A x, y \in Node : Scanned(x, y)' => Scanned(x, y)
  BY <1>1, NAssumption DEF Scanned, Settled, Node
<1>4. Frontier' /\ Rising'
  BY <1>1, <1>2 DEF Frontier, Rising
<1>5. Offers'
  BY <1>1, <1>2, <1>3 DEF Ways, Offers, Settled
<1>6. WaysFound'
  BY <1>1 DEF Ways, WaysFound, Relaxed, Tree, Hops, Before, IsHop, HopThrough,
              Settled, CostOf, HopOf, Weight
<1> QED BY <1>4, <1>5, <1>6 DEF Ways

\* Ways says nothing of the array itself.
LEMMA WaysUnchanged ==
  Ways /\ UNCHANGED <<forwarding_table, tentative, sourceNode, i, pc, seen>> => Ways'
BY DEF Ways, Frontier, Offers, Rising, WaysFound, Relaxed, Tree, Hops, Before, IsHop, IsOffer,
       NoBetter, Elements, Scanned, HopThrough, Settled, CostOf, HopOf, Weight

-----------------------------------------------------------------------------
(* The theorems.                                                             *)

\* The invariant of a computation holds in every behaviour.
THEOREM DijkstraInductive == DijkstraSpec => []DijkstraInv
<1>1. DijkstraInit => DijkstraInv
  BY InitDijkstra
<1>2. DijkstraInv /\ [DijkstraNext]_dijkstraVars => DijkstraInv'
  <2> SUFFICES ASSUME DijkstraInv, [DijkstraNext]_dijkstraVars PROVE DijkstraInv'
    OBVIOUS
  <2>1. Control /\ (Settled(globalMyID) /\ ~torn => Ways)
    BY DEF DijkstraInv
  <2>2. CASE Call
    BY <2>1, <2>2, CallControl, CallWays DEF DijkstraInv
  <2>3. CASE Test
    <3>1. Settled(globalMyID) /\ torn' = torn
      BY <2>1, <2>3 DEF Test, Control, Place
    <3> QED BY <2>1, <2>3, <3>1, TestControl, TestWays DEF DijkstraInv
  <2>4. CASE Read
    <3>1. Settled(globalMyID) /\ torn' = torn
      BY <2>1, <2>4 DEF Read, Control, Place
    <3> QED BY <2>1, <2>4, <3>1, ReadControl, ReadWays DEF DijkstraInv
  <2>5. CASE Select
    <3>1. Settled(globalMyID) /\ torn' = torn
      BY <2>1, <2>5 DEF Select, Control, Place
    <3> QED BY <2>1, <2>5, <3>1, SelectControl, SelectWays DEF DijkstraInv
  <2>6. CASE Return
    <3>1. Settled(globalMyID) /\ torn' = torn
      BY <2>1, <2>6 DEF Return, Control, Place
    <3> QED BY <2>1, <2>6, <3>1, ReturnControl, ReturnWays DEF DijkstraInv
  <2>7. ASSUME NEW n \in Node, Cut(n) PROVE DijkstraInv'
    <3>1. /\ UNCHANGED <<forwarding_table, tentative, sourceNode, i, pc, seen>>
          /\ torn => torn'
      BY <2>7 DEF Cut
    <3>2. Settled(globalMyID)' <=> Settled(globalMyID)
      BY <3>1 DEF Settled
    <3> QED BY <2>1, <2>7, <3>1, <3>2, CutControl, WaysUnchanged DEF DijkstraInv
  <2>8. CASE UNCHANGED dijkstraVars
    <3>1. /\ UNCHANGED <<forwarding_table, tentative, sourceNode, i, pc, seen>>
          /\ UNCHANGED <<adjacency_array, torn>>
      BY <2>8 DEF dijkstraVars
    <3>2. Control'
      BY <2>1, <3>1 DEF Control, DijkstraTypeOK, Place, Apart, OfDifferentNodes, Root, Steady,
                        Settled, CostOf, HopOf, Weight
    <3>3. Settled(globalMyID)' <=> Settled(globalMyID)
      BY <3>1 DEF Settled
    <3> QED BY <2>1, <3>1, <3>2, <3>3, WaysUnchanged DEF DijkstraInv
  <2> QED BY <2>2, <2>3, <2>4, <2>5, <2>6, <2>7, <2>8 DEF DijkstraNext, Compute
<1> QED BY <1>1, <1>2, PTL DEF DijkstraSpec

\* Every step of dijkstra() and of the other thread leaves the table, the tentative
\* array and the array of costs what they are declared to be, for any number of nodes.
THEOREM DijkstraTypeCorrect == DijkstraSpec => []DijkstraTypeOK
<1>1. DijkstraInv => DijkstraTypeOK
  BY DEF DijkstraInv, Control
<1> QED BY <1>1, DijkstraInductive, PTL

\* When a computation is over, every link from a settled node leads to a settled one,
\* and the costs are bounds and are explained.
LEMMA TableFacts ==
  ASSUME DijkstraInv, Done
  PROVE  LET S == {n \in Node : Settled(n)}
             c == [n \in Node |-> CostOf(n)]
         IN  /\ Control /\ Ways /\ seen \in [Index -> Nat] /\ globalMyID \in S
             /\ \A n \in S : CostOf(n) \in Nat
             /\ CostOf(globalMyID) = 0
             /\ \A s \in S : Bounds(seen, s, S, c)
<1> DEFINE S == {n \in Node : Settled(n)}
           c == [n \in Node |-> CostOf(n)]
<1>1. pc = "idle" /\ Settled(globalMyID) /\ ~torn
  BY DEF Done
<1>2. Control /\ Ways
  BY <1>1 DEF DijkstraInv
<1>3. seen \in [Index -> Nat] /\ globalMyID \in S /\ CostOf(globalMyID) = 0
  BY <1>1, <1>2, Arrays, MyIDAssumption DEF Control, Root
<1>4. \A n \in S : CostOf(n) \in Nat
  BY <1>2, SettledFacts DEF Control
<1>5. Elements = {} /\ \A x, y \in Node : Settled(x) => Scanned(x, y)
  BY <1>1, <1>2 DEF Control, Place, Elements, Scanned, None, Node
<1>6. \A x \in S, y \in Node : LinkFrom(seen, x, y) => y \in S
  BY <1>2, <1>5 DEF Ways, Offers
<1>7. \A x, y \in S : LinkFrom(seen, x, y) => CostOf(y) <= CostOf(x) + getCost(seen, x, y)
  BY <1>2 DEF Ways, WaysFound, Relaxed, Weight
<1>8. \A s \in S : Bounds(seen, s, S, c)
  BY <1>4, <1>6, <1>7 DEF Bounds
<1> QED BY <1>2, <1>3, <1>4, <1>8

\* The costs that dijkstra() returns are those of shortest paths over the links its scan
\* met, and no node is left out, for any number of nodes and any costs, whatever links
\* checkNeighbor took out meanwhile (linkstate.c:371).
THEOREM ShortestCostsHold == DijkstraSpec => []ShortestCosts
<1>1. DijkstraInv => ShortestCosts
  <2> SUFFICES ASSUME DijkstraInv, Done, NEW n \in Node
               PROVE  forwarding_table[n].cost = Distance(seen, globalMyID)[n]
    BY DEF ShortestCosts
  <2> DEFINE S == {x \in Node : Settled(x)}
             c == [x \in Node |-> CostOf(x)]
  <2>1. /\ Control /\ Ways /\ seen \in [Index -> Nat] /\ globalMyID \in S
        /\ \A x \in S : CostOf(x) \in Nat
        /\ CostOf(globalMyID) = 0
        /\ Bounds(seen, globalMyID, S, c)
    BY TableFacts
  <2>2. Explains(seen, globalMyID, S, c)
    <3>1. ASSUME NEW y \in S \ {globalMyID}
          PROVE  \E p \in S : LinkFrom(seen, p, y) /\ c[y] = c[p] + getCost(seen, p, y)
      <4>1. PICK p \in Node : Before(p, y)
        BY <2>1 DEF Ways, WaysFound, Tree
      <4> QED BY <4>1 DEF Before, Weight
    <3> QED BY <2>1, <3>1 DEF Explains
  <2>3. /\ \A x \in S : /\ Distance(seen, globalMyID)[x] \in Nat
                        /\ c[x] = c[globalMyID] + Distance(seen, globalMyID)[x]
        /\ \A x \in Node \ S : Distance(seen, globalMyID)[x] = None
    BY <2>1, <2>2, MyIDAssumption, DistanceExact
  <2>4. CASE Settled(n)
    <3>1. /\ CostOf(n) = CostOf(globalMyID) + Distance(seen, globalMyID)[n]
          /\ Distance(seen, globalMyID)[n] \in Nat
      BY <2>3, <2>4, MyIDAssumption
    <3> QED BY <2>1, <3>1 DEF CostOf
  <2>5. CASE ~Settled(n)
    BY <2>3, <2>5 DEF Settled
  <2> QED BY <2>4, <2>5
<1> QED BY <1>1, DijkstraInductive, PTL

\* Of the shortest paths to a node the one is taken whose last node before it is the
\* smallest, in whatever order the nodes were found (linkstate.c:278).
THEOREM SmallestPredecessorHolds == DijkstraSpec => []SmallestPredecessor
<1>1. DijkstraInv => SmallestPredecessor
  <2> SUFFICES ASSUME DijkstraInv, Done, NEW n \in Node, Reachable(n)
               PROVE  LET prev == Min({m \in Node :
                                         /\ LinkFrom(seen, m, n) /\ Settled(m)
                                         /\ forwarding_table[m].cost + getCost(seen, m, n)
                                              = forwarding_table[n].cost})
                      IN  forwarding_table[n].next_hop
                            = IF prev = globalMyID THEN n ELSE forwarding_table[prev].next_hop
    BY DEF SmallestPredecessor
  <2> DEFINE prevs == {m \in Node : /\ LinkFrom(seen, m, n) /\ Settled(m)
                                    /\ forwarding_table[m].cost + getCost(seen, m, n)
                                         = forwarding_table[n].cost}
  <2>1. Ways /\ n # globalMyID /\ Settled(n)
    BY TableFacts DEF Reachable
  <2>2. PICK p \in Node : Before(p, n)
    BY <2>1 DEF Ways, WaysFound, Tree
  <2>3. p \in prevs /\ \A m \in prevs : p <= m
    BY <2>2 DEF Before, CostOf, Weight
  <2>4. prevs \in SUBSET Nat
    BY NAssumption DEF Node
  <2> HIDE DEF prevs
  <2>5. Min(prevs) = p
    BY <2>3, <2>4, MinIs
  <2>6. forwarding_table[n].next_hop
          = IF p = globalMyID THEN n ELSE forwarding_table[p].next_hop
    BY <2>2 DEF Before, HopThrough, HopOf
  <2> QED BY <2>5, <2>6 DEF prevs
<1> QED BY <1>1, DijkstraInductive, PTL

\* The next hop is a neighbour that is nearer to the destination by the cost of the link:
\* routers with the same view never send a message round a loop (monitor_neighbors.c:241).
THEOREM NextHopIsNearerHolds == DijkstraSpec => []NextHopIsNearer
<1>1. DijkstraInv => NextHopIsNearer
  <2> SUFFICES ASSUME DijkstraInv, Done,
                      NEW n0 \in Node, Reachable(n0), NEW hop, hop = HopOf(n0)
               PROVE  /\ LinkFrom(seen, globalMyID, hop)
                      /\ \A n \in Node :
                           Reachable(n) /\ forwarding_table[n].next_hop = hop =>
                             forwarding_table[n].cost
                               = getCost(seen, globalMyID, hop) + Distance(seen, hop)[n]
    BY DEF NextHopIsNearer, HopOf
  <2> DEFINE S == {x \in Node : Settled(x)}
             c == [x \in Node |-> CostOf(x)]
             T == {x \in S : x # globalMyID /\ HopOf(x) = hop}
  <2>1. /\ Control /\ Ways /\ seen \in [Index -> Nat]
        /\ \A x \in S : CostOf(x) \in Nat
        /\ \A s \in S : Bounds(seen, s, S, c)
    BY TableFacts
  <2>2. IsHop(hop)
    BY <2>1 DEF Ways, WaysFound, Hops, Reachable
  <2>3. /\ hop \in T /\ hop \in Node /\ LinkFrom(seen, globalMyID, hop)
        /\ CostOf(hop) = getCost(seen, globalMyID, hop)
    BY <2>2 DEF IsHop, Weight
  <2>4. Explains(seen, hop, T, c)
    <3>1. ASSUME NEW y \in T \ {hop}
          PROVE  \E p \in T : LinkFrom(seen, p, y) /\ c[y] = c[p] + getCost(seen, p, y)
      <4>1. PICK p \in Node : Before(p, y)
        BY <2>1 DEF Ways, WaysFound, Tree
      <4>2. HopOf(y) = HopThrough(p, y) /\ Settled(p) /\ HopOf(y) = hop /\ y # hop
        BY <4>1 DEF Before
      <4>3. p \in T
        BY <4>2 DEF HopThrough
      <4> QED BY <4>1, <4>3 DEF Before, Weight
    <3> QED BY <2>1, <2>3, <3>1 DEF Explains
  <2>5. Bounds(seen, hop, S, c) /\ T \subseteq S
    BY <2>1, <2>3
  <2>6. \A x \in T : /\ Distance(seen, hop)[x] \in Nat
                     /\ c[x] = c[hop] + Distance(seen, hop)[x]
    BY <2>1, <2>3, <2>4, <2>5, DistanceExact
  <2>7. ASSUME NEW n \in Node, Reachable(n), forwarding_table[n].next_hop = hop
        PROVE  forwarding_table[n].cost
                 = getCost(seen, globalMyID, hop) + Distance(seen, hop)[n]
    <3>1. n \in T
      BY <2>7 DEF Reachable, HopOf
    <3>2. CostOf(n) = CostOf(hop) + Distance(seen, hop)[n]
      BY <2>3, <2>6, <3>1
    <3> QED BY <2>3, <3>2 DEF CostOf
  <2> QED BY <2>3, <2>7
<1> QED BY <1>1, DijkstraInductive, PTL
=============================================================================
