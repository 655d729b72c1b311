------------------------------ MODULE Flooding ------------------------------
(***************************************************************************)
(* CS438/MP2: the routers of a network find their neighbours by heartbeats *)
(* and flood link-state packets (monitor_neighbors.c, linkstate.c). Each   *)
(* router keeps the costs of all links it knows of, in one entry for both  *)
(* directions, and for each router the sequence number of the last packet  *)
(* it accepted from it. The routers are processes of one host: a packet is *)
(* in the queue of the receiving socket at once, or it is dropped when it  *)
(* is sent, because the wire is down (disconnect.sh), the queue is full or    *)
(* nobody has the address. A router that is killed (kill.sh) loses all it  *)
(* knows, and counts its packets from 1 when it is launched again.         *)
(*                                                                         *)
(* A heartbeat is the step by which it is received. A neighbour is timed   *)
(* out only when it or its wire is down: heartbeats come every 300 ms and  *)
(* the timeout is 1 s. The announcing thread counts the sequence number up *)
(* every 300 ms, and the broadcasting thread sends a packet every second:  *)
(* the number has been counted up, at least once, between two packets.     *)
(***************************************************************************)
EXTENDS Adjacency, Sequences

CONSTANTS Links,        \* the pairs of nodes between which there is a wire
          InitialCost,  \* the costs file of each router: a cost for each node
          Capacity,     \* the packets the queue of a socket holds
          MaxNumber,    \* bound: how far each router counts its packets
          Changing,     \* bound: the wires that fail or get another cost
          Killed,       \* bound: the routers that are killed
          MaxEvents,    \* bound: how often wires fail, are repaired or get another
                        \* cost, and routers are killed
          KillWeight,   \* bound: for how many of these a kill counts
          NewCost       \* the cost a message of the manager carries

ASSUME LinksAssumption ==
  \A l \in Links : \E a, b \in Node : a # b /\ l = {a, b}
ASSUME CostAssumption ==
  /\ InitialCost \in [Node -> [Node -> Nat \ {0}]]
  /\ NewCost \in Nat \ {0}
ASSUME BoundsAssumption ==
  /\ Capacity \in Nat \ {0} /\ Changing \subseteq Links
  /\ Killed \subseteq Node /\ MaxNumber \in [Node -> Nat]
  /\ MaxEvents \in Nat /\ KillWeight \in Nat

VARIABLES
  up,               \* the wires that are connected
  alive,            \* the routers that run
  adjacency_arrays,  \* of each router
  direct_cost,      \* of each router, for each neighbour
  sequence_number,  \* of each router, for each originator
  announced,        \* the routers that have counted since their last packet
  queue,            \* of each router: the packets it has not read yet
  events,           \* how much of the bound is used up
  issued,           \* history: the highest number each router has given a packet
  lastLSP,          \* history: the links in that packet
  reused,           \* history: the routers that gave it to two packets
  restarted         \* history: the routers that were killed

router == <<adjacency_arrays, direct_cost, sequence_number>>
history == <<issued, lastLSP, reused, restarted>>
vars == <<up, alive, router, announced, queue, events, history>>

Cost == {0, NewCost} \cup {InitialCost[n][m] : n \in Node, m \in Node}
Pair == [node : Node, cost : Cost \ {0}]
LSP == [from : Node, origin : Node, number : Nat, links : SUBSET Pair]

TypeOK ==
  /\ up \subseteq Links /\ alive \subseteq Node
  /\ adjacency_arrays \in [Node -> [Index -> Cost]]
  /\ direct_cost \in [Node -> [Node -> Cost \ {0}]]
  /\ sequence_number \in [Node -> [Node -> Nat]]
  /\ announced \subseteq Node /\ queue \in [Node -> Seq(LSP)]
  /\ issued \in [Node -> Nat] /\ lastLSP \in [Node -> SUBSET Pair]
  /\ reused \subseteq Node /\ restarted \subseteq Node
  /\ events \in 0 .. MaxEvents

\* What main makes of an empty memory and the costs file.
NoLinks == [k \in Index |-> 0]
NoPackets == [m \in Node |-> 0]

Init ==
  /\ up = Links /\ alive = Node
  /\ adjacency_arrays = [n \in Node |-> NoLinks]
  /\ direct_cost = InitialCost
  /\ sequence_number = [n \in Node |-> NoPackets]
  /\ announced = {} /\ queue = [n \in Node |-> <<>>] /\ events = 0
  /\ issued = NoPackets /\ lastLSP = [n \in Node |-> {}]
  /\ reused = {} /\ restarted = {}

-----------------------------------------------------------------------------
\* A packet from n to m arrives.
Carried(n, m) == {n, m} \in up /\ {n, m} \subseteq alive

Connected(a, n, m) == n # m /\ isConnected(a, n, m)

\* The links of a node in an array: what setLinkStatePacketBuf writes.
LinksOf(a, n) == {[node |-> m, cost |-> getCost(a, n, m)] :
                    m \in {x \in Node : Connected(a, n, x)}}

\* broadcastLSP, of a router n that has the array a: to each neighbour but the one
\* the packet comes from. What the queues are after it, from queues q.
broadcastLSP(q, n, a, from, origin, number, links) ==
  [m \in Node |->
     IF /\ m # from /\ Connected(a, n, m)
        /\ Carried(n, m) /\ Len(q[m]) < Capacity
     THEN Append(q[m], [from |-> n, origin |-> origin, number |-> number, links |-> links])
     ELSE q[m]]

\* What hearing from a neighbour does to the array.
Heard(n, m) ==
  IF isConnected(adjacency_arrays[n], n, m) THEN adjacency_arrays[n]
  ELSE setCost(adjacency_arrays[n], n, m, direct_cost[n][m])

HearHeartbeat(n, m) ==
  /\ Carried(n, m)
  /\ ~isConnected(adjacency_arrays[n], n, m)
  /\ adjacency_arrays' = [adjacency_arrays EXCEPT ![n] = Heard(n, m)]
  /\ UNCHANGED <<up, alive, direct_cost, sequence_number, announced, queue, events, history>>

\* Mutant: the mark of an unreachable node is taken for the one of no link.
TimeOutUnreachable(n, m) ==
  /\ Connected(adjacency_arrays[n], n, m) /\ ~Carried(n, m)
  /\ adjacency_arrays' = [adjacency_arrays EXCEPT ![n] = setCost(@, n, m, -1)]
  /\ UNCHANGED <<up, alive, direct_cost, sequence_number, announced, queue, events, history>>

\* checkNeighbor
TimeOut(n, m) ==
  /\ Connected(adjacency_arrays[n], n, m) /\ ~Carried(n, m)
  /\ adjacency_arrays' = [adjacency_arrays EXCEPT ![n] = setCost(@, n, m, 0)]
  /\ UNCHANGED <<up, alive, direct_cost, sequence_number, announced, queue, events, history>>

\* A packet with these links gets the number.
Issue(n, number, links) ==
  /\ issued' = IF number > issued[n] THEN [issued EXCEPT ![n] = number] ELSE issued
  /\ lastLSP' = IF number > issued[n] THEN [lastLSP EXCEPT ![n] = links] ELSE lastLSP
  /\ reused' = IF number > issued[n] THEN reused \ {n}
               ELSE IF number = issued[n] THEN reused \cup {n} ELSE reused
  /\ UNCHANGED restarted

\* announceToNeighbors counts the number of the router's packets up.
Announce(n) ==
  /\ n \in alive /\ sequence_number[n][n] < MaxNumber[n]
  /\ sequence_number' = [sequence_number EXCEPT ![n][n] = @ + 1]
  /\ announced' = announced \cup {n}
  /\ UNCHANGED <<up, alive, adjacency_arrays, direct_cost, queue, events, history>>

\* Mutant: the packet gets a number of its own, which the router does not keep.
BroadcastNextNumber(n) ==
  LET links == LinksOf(adjacency_arrays[n], n)
      number == sequence_number[n][n] + 1
  IN  /\ n \in announced /\ links # {}
      /\ queue' = broadcastLSP(queue, n, adjacency_arrays[n], n, n, number, links)
      /\ Issue(n, number, links)
      /\ announced' = announced \ {n}
      /\ UNCHANGED <<up, alive, router, events>>

\* broadcastLSPPeriodically. A router without links sends nothing.
Broadcast(n) ==
  LET links == LinksOf(adjacency_arrays[n], n)
      number == sequence_number[n][n]
  IN  /\ n \in announced /\ links # {}
      /\ queue' = broadcastLSP(queue, n, adjacency_arrays[n], n, n, number, links)
      /\ Issue(n, number, links)
      /\ announced' = announced \ {n}
      /\ UNCHANGED <<up, alive, router, events>>

\* Mutant: the links that are not in the packet stay.
UpdatedKeepsOld(a, origin, links) ==
  [k \in Index |->
     LET pairs == {l \in links : PairIndex(l.node, origin) = k}
     IN  IF pairs # {} THEN (CHOOSE l \in pairs : TRUE).cost ELSE a[k]]

\* The array after a packet: the links of its origin that are not in it are
\* taken out, the others get the cost it gives.
Updated(a, origin, links) ==
  [k \in Index |->
     LET pairs == {l \in links : PairIndex(l.node, origin) = k}
     IN  IF pairs # {} THEN (CHOOSE l \in pairs : TRUE).cost
         ELSE IF \E m \in Node \ {origin} : PairIndex(m, origin) = k THEN 0
         ELSE a[k]]

\* Mutant: a packet that was accepted before is accepted again.
NewerOrSame(n, p) == p.number >= sequence_number[n][p.origin]

Newer(n, p) == p.number > sequence_number[n][p.origin]

\* The listening thread: hearing from the sender, then the packet.
Receive(n) ==
  /\ queue[n] # <<>>
  /\ LET p == Head(queue[n])
         heard == Heard(n, p.from)
         a == Updated(heard, p.origin, p.links)
         rest == [queue EXCEPT ![n] = Tail(@)]
     IN  IF Newer(n, p)
         THEN /\ adjacency_arrays' = [adjacency_arrays EXCEPT ![n] = a]
              /\ sequence_number' = [sequence_number EXCEPT ![n][p.origin] = p.number]
              /\ queue' = broadcastLSP(rest, n, a, p.from, p.origin, p.number, p.links)
         ELSE /\ adjacency_arrays' = [adjacency_arrays EXCEPT ![n] = heard]
              /\ queue' = rest
              /\ UNCHANGED sequence_number
  /\ UNCHANGED <<up, alive, direct_cost, announced, events, history>>

Event(weight) == events + weight <= MaxEvents /\ events' = events + weight

\* connect.sh and disconnect.sh
Flap(l) ==
  /\ Event(1)
  /\ up' = IF l \in up THEN up \ {l} ELSE up \cup {l}
  /\ UNCHANGED <<alive, router, announced, queue, history>>

\* kill.sh: the memory of the router and the packets at its socket are gone.
Kill(n) ==
  /\ n \in alive \cap Killed /\ Event(KillWeight)
  /\ alive' = alive \ {n} /\ restarted' = restarted \cup {n}
  /\ adjacency_arrays' = [adjacency_arrays EXCEPT ![n] = NoLinks]
  /\ direct_cost' = [direct_cost EXCEPT ![n] = InitialCost[n]]
  /\ sequence_number' = [sequence_number EXCEPT ![n] = NoPackets]
  /\ queue' = [queue EXCEPT ![n] = <<>>] /\ announced' = announced \ {n}
  /\ UNCHANGED <<up, issued, lastLSP, reused>>

\* launch.sh
Launch(n) ==
  /\ n \notin alive /\ alive' = alive \cup {n}
  /\ UNCHANGED <<up, router, announced, queue, events, history>>

\* A "cost" message of the manager, to both ends of a link one after the other.
ChangeCost(n, m) ==
  /\ n \in alive /\ Event(1)
  /\ {n, m} \in Changing /\ direct_cost[n][m] # NewCost
  /\ direct_cost' = [direct_cost EXCEPT ![n][m] = NewCost]
  /\ adjacency_arrays' =
       IF isConnected(adjacency_arrays[n], n, m)
       THEN [adjacency_arrays EXCEPT ![n] = setCost(@, n, m, NewCost)]
       ELSE adjacency_arrays
  /\ UNCHANGED <<up, alive, sequence_number, announced, queue, history>>

-----------------------------------------------------------------------------
Next ==
  \/ \E n \in Node : \/ Announce(n) \/ Broadcast(n) \/ Receive(n) \/ Kill(n) \/ Launch(n)
                     \/ \E m \in Node \ {n} : \/ HearHeartbeat(n, m) \/ TimeOut(n, m)
                                              \/ ChangeCost(n, m)
  \/ \E l \in Changing : Flap(l)

Spec == Init /\ [][Next]_vars

\* The listening threads go on reading while packets are queued; it does not matter
\* which is the next. (Weak fairness of the reading, which is possible exactly when a
\* queue is not empty, written out: it spares TLC trying every packet.)
Reading == \/ []<>(\A n \in Node : queue[n] = <<>>)
           \/ []<><<\E n \in Node : Len(queue'[n]) < Len(queue[n])>>_queue

FairSpec == Spec /\ Reading

-----------------------------------------------------------------------------
(* Properties. *)

\* Nobody has accepted from another, or will read, a packet with a number its originator never gave;
\* and a router that was not killed is never behind its own packets, so that those
\* that come back are not news to it (monitor_neighbors.c:294).
NumbersFromOrigin ==
  /\ \A n \in Node : \A m \in Node \ {n} : sequence_number[n][m] <= issued[m]
  /\ \A n \in Node : \A k \in DOMAIN queue[n] :
       queue[n][k].number <= issued[queue[n][k].origin]
  /\ \A n \in Node \ restarted : issued[n] <= sequence_number[n][n]

\* The cost of the link to a node in a packet; 0 when it is not in it.
CostIn(links, n) == IF \E l \in links : l.node = n
                    THEN (CHOOSE l \in links : l.node = n).cost ELSE 0

HasLast(n, m) == sequence_number[n][m] = issued[m] /\ m \notin reused

\* A router that has the last packets of two others, which agree about the link
\* between them, has what they say in its array, in whatever order these packets
\* and the older ones came, by whichever way, whatever was dropped and whoever was
\* killed. (The two packets write the same entry. After a restart the last packet is
\* the one with the highest number still, until the router has counted past it.)
Converged ==
  \A n \in Node : \A a, b \in Node \ {n} :
    /\ a # b /\ HasLast(n, a) /\ HasLast(n, b)
    /\ CostIn(lastLSP[a], b) = CostIn(lastLSP[b], a)
    => getCost(adjacency_arrays[n], a, b) = CostIn(lastLSP[a], b)

\* The flooding of a packet ends: it does not go round a cycle of the network.
FloodingEnds == <>[](\A n \in Node : queue[n] = <<>>)
=============================================================================
