------------------------- MODULE FileTransferProofs -------------------------
(***************************************************************************)
(* Type correctness of FileTransfer, and that what a client leaves in its  *)
(* output is the file, for any number of clients and any files.            *)
(***************************************************************************)
EXTENDS FileTransfer, SequenceTheorems, TLAPS

-----------------------------------------------------------------------------
(* The inductive invariant. *)

\* A connection is in the backlog, with the parent or with its child, in this
\* order, and the descriptors that are open say which. A child holds its descriptor
\* until it ends or leaves the rest to shutdownTLS.
Descriptors ==
  /\ \A c \in Client :
       /\ client[c] = "start" => c \notin Range(backlog)
       /\ client[c] = "start" \/ c \in Range(backlog) => child[c] = "none" /\ fds[c] = {}
       /\ child[c] \in {"handshake", "recv", "refuse", "open", "send"} => "child" \in fds[c]
       /\ child[c] = "shutdown" => "child" \notin fds[c]
  /\ IsInjective(backlog)
  /\ parent # "accept" => current \in Client /\ "parent" \in fds[current]
  /\ parent = "fork" => child[current] = "none"
  /\ notified = {}

\* A response is a status line and the blocks of the file in order, all of them
\* unless the child still sends, was killed, or its client ended without success.
Response(c) ==
  /\ child[c] \in {"none", "handshake", "recv", "refuse", "open"} => sent[c] = <<>>
  /\ \A k \in 2 .. Len(sent[c]) : sent[c][k] = k - 1 /\ k - 1 \in Block
  /\ child[c] = "send" =>
       /\ file[c] \in Nat /\ (sent[c] = <<>> => file[c] = 0)
       /\ sent[c] # <<>> => sent[c][1] = 200
  /\ sent[c] # <<>> => sent[c][1] \in {200, 400, 404}
  /\ sent[c] # <<>> /\ sent[c][1] = 200 =>
       /\ file[c] \in Nat /\ Len(sent[c]) - 1 <= file[c]
       /\ \/ child[c] = "send" \/ c \in killed \/ client[c] \in {"failed", "crashed"}
          \/ Len(sent[c]) - 1 = file[c]

Responses == \A c \in Client : Response(c)

\* A client that writes its output without an error has seen the connection closed
\* and has stored all of the response.
Output(c) ==
  /\ c \in junk => tls /\ c \in rst /\ client[c] \in {"output"} \cup Ended
  /\ client[c] = "output" /\ c \notin junk => Closed(c) /\ stored[c] = Len(sent[c])
  /\ client[c] # "done" => output[c] = Old
  /\ client[c] = "done" =>
       \/ output[c] = Junk /\ tls /\ c \in rst
       \/ output[c] = Junk /\ Closed(c) /\ sent[c] = <<>>
       \/ Closed(c) /\ sent[c] # <<>> /\ output[c] = SubSeq(sent[c], 2, Len(sent[c]))

Outputs == \A c \in Client : Output(c)

IInv == TypeOK /\ Descriptors /\ Responses /\ Outputs

-----------------------------------------------------------------------------
(* Queues and responses. *)

\* A client that joins the queue is the last one of it.
LEMMA JoinQueue ==
  ASSUME NEW q \in Seq(Client), NEW c \in Client
  PROVE  /\ Append(q, c) \in Seq(Client) /\ Len(Append(q, c)) = Len(q) + 1
         /\ Range(Append(q, c)) = Range(q) \cup {c}
         /\ IsInjective(q) /\ c \notin Range(q) => IsInjective(Append(q, c))
<1> DEFINE a == Append(q, c)
<1>1. /\ a \in Seq(Client) /\ Len(a) = Len(q) + 1 /\ DOMAIN a = 1 .. Len(q) + 1
      /\ DOMAIN q = 1 .. Len(q) /\ Len(q) \in Nat
  OBVIOUS
<1>2. a[Len(q) + 1] = c /\ \A k \in 1 .. Len(q) : a[k] = q[k]
  OBVIOUS
<1> HIDE DEF a
<1>3. Range(a) = Range(q) \cup {c}
  BY <1>1, <1>2 DEF Range
<1>4. IsInjective(q) /\ c \notin Range(q) => IsInjective(a)
  BY <1>1, <1>2 DEF Range, IsInjective
<1> QED BY <1>1, <1>3, <1>4 DEF a

\* A client that leaves the queue, where it was once, is not in it any more.
LEMMA LeaveQueue ==
  ASSUME NEW q \in Seq(Client), q # <<>>, IsInjective(q)
  PROVE  /\ Tail(q) \in Seq(Client) /\ Len(Tail(q)) = Len(q) - 1
         /\ Head(q) \in Range(q) /\ Head(q) \in Client
         /\ Range(Tail(q)) = Range(q) \ {Head(q)}
         /\ IsInjective(Tail(q))
<1> DEFINE t == Tail(q)
<1>1. /\ t \in Seq(Client) /\ Len(t) = Len(q) - 1 /\ DOMAIN t = 1 .. Len(q) - 1
      /\ DOMAIN q = 1 .. Len(q) /\ Len(q) \in Nat /\ Len(q) > 0
  OBVIOUS
<1>2. Head(q) = q[1] /\ \A k \in 1 .. Len(q) - 1 : t[k] = q[k + 1]
  OBVIOUS
<1> HIDE DEF t
<1>3. \A i, j \in 1 .. Len(q) : q[i] = q[j] => i = j
  BY <1>1 DEF IsInjective
<1>4. Range(t) = Range(q) \ {q[1]}
  <2>1. ASSUME NEW x \in Range(t) PROVE x \in Range(q) \ {q[1]}
    <3>1. PICK k \in 1 .. Len(q) - 1 : x = t[k]
      BY <1>1 DEF Range
    <3> QED BY <3>1, <1>1, <1>2, <1>3 DEF Range
  <2>2. ASSUME NEW x \in Range(q) \ {q[1]} PROVE x \in Range(t)
    <3>1. PICK k \in 1 .. Len(q) : x = q[k]
      BY <1>1 DEF Range
    <3>2. k - 1 \in 1 .. Len(q) - 1 /\ t[k - 1] = x
      BY <3>1, <1>1, <1>2
    <3> QED BY <3>2, <1>1 DEF Range
  <2> QED BY <2>1, <2>2
<1>5. IsInjective(t)
  BY <1>1, <1>2, <1>3 DEF IsInjective
<1>6. q[1] \in Range(q) /\ q[1] \in Client
  BY <1>1 DEF Range
<1> QED BY <1>1, <1>2, <1>4, <1>5, <1>6 DEF t

\* What is sent comes behind what was sent before.
LEMMA RespondFacts ==
  ASSUME NEW T, NEW q \in Seq(T), NEW units \in Seq(T)
  PROVE  /\ q \o units \in Seq(T) /\ Len(q \o units) = Len(q) + Len(units)
         /\ Len(q) \in Nat /\ Len(units) \in Nat
         /\ \A k \in 1 .. Len(q) : (q \o units)[k] = q[k]
         /\ \A k \in Len(q) + 1 .. Len(q) + Len(units) :
              (q \o units)[k] = units[k - Len(q)]
BY ConcatProperties

\* One more unit.
LEMMA Appended ==
  ASSUME NEW T, NEW q \in Seq(T), NEW x \in T
  PROVE  /\ Len(q \o <<x>>) = Len(q) + 1 /\ \A k \in 1 .. Len(q) : (q \o <<x>>)[k] = q[k]
         /\ (q \o <<x>>)[Len(q) + 1] = x
BY RespondFacts

-----------------------------------------------------------------------------
(* Type correctness. *)

\* Nothing is stored, sent or open when the programs start.
LEMMA InitIInv == Init => IInv
<1> SUFFICES ASSUME Init PROVE IInv
  OBVIOUS
<1>1. Range(backlog) = {} /\ IsInjective(backlog)
  BY DEF Init, Range, IsInjective
<1>2. sent \in [Client -> Seq(Unit)] /\ \A c \in Client : Len(sent[c]) = 0
  BY DEF Init
<1>3. backlog \in Seq(Client) /\ Len(backlog) <= BACKLOG
  BY BoundsAssumption DEF Init
<1>4. client \in [Client -> {"start", "handshake", "request", "receive", "output"}
                            \cup Ended]
  BY DEF Init
<1>5. stored \in [Client -> Nat] /\ \A c \in Client : stored[c] <= Len(sent[c])
  BY <1>2 DEF Init
<1>6. output \in [Client -> {Old, Junk} \cup Seq(Block)]
  BY DEF Init
<1>7. /\ child \in [Client -> Running \cup {"none", "zombie", "reaped"}]
      /\ turn \in [Client -> 0 .. 4]
  BY DEF Init
<1>8. /\ request \in [Client -> {"none", "sent", "cut", "read"}]
      /\ fds \in [Client -> SUBSET {"parent", "child"}]
  BY DEF Init
<1>9. TypeOK
  BY <1>2, <1>3, <1>4, <1>5, <1>6, <1>7, <1>8
  DEF Init, TypeOK
<1> QED BY <1>1, <1>2, <1>9, ContentsAssumption
  DEF Init, IInv, Descriptors, Responses, Response, Outputs, Output, Ended

\* Closing a descriptor keeps the types.
LEMMA CloseType ==
  ASSUME TypeOK, NEW c \in Client, NEW p \in {"parent", "child"}, Close(c, p)
  PROVE  /\ fds' \in [Client -> SUBSET {"parent", "child"}] /\ rst' \subseteq Client
         /\ fds'[c] = fds[c] \ {p} /\ \A d \in Client \ {c} : fds'[d] = fds[d]
         /\ rst \subseteq rst'
BY DEF Close, TypeOK

\* and so does the end of a process, which closes all of them.
LEMMA ExitType ==
  ASSUME TypeOK, NEW c \in Client, Exit(c)
  PROVE  /\ child' \in [Client -> Running \cup {"none", "zombie", "reaped"}]
         /\ fds' \in [Client -> SUBSET {"parent", "child"}] /\ rst' \subseteq Client
         /\ sigchld' \in BOOLEAN
<1>1. Close(c, "child") /\ child' = [child EXCEPT ![c] = "zombie"] /\ sigchld' = TRUE
  BY DEF Exit
<1>2. child' \in [Client -> Running \cup {"none", "zombie", "reaped"}]
  BY <1>1 DEF TypeOK
<1> QED BY <1>1, <1>2, CloseType

\* and the answer of a child.
LEMMA RespondType ==
  ASSUME TypeOK, NEW c \in Client, NEW units \in Seq(Unit), Respond(c, units)
  PROVE  /\ sent' \in [Client -> Seq(Unit)]
         /\ \A d \in Client : stored[d] <= Len(sent'[d])
         /\ sent'[c] = sent[c] \o units /\ Len(sent'[c]) = Len(sent[c]) + Len(units)
         /\ \A d \in Client \ {c} : sent'[d] = sent[d]
<1>1. sent[c] \in Seq(Unit) /\ stored[c] \in Nat /\ stored[c] <= Len(sent[c])
  BY DEF TypeOK
<1>2. /\ sent[c] \o units \in Seq(Unit)
      /\ Len(sent[c] \o units) = Len(sent[c]) + Len(units)
      /\ Len(sent[c]) \in Nat /\ Len(units) \in Nat
  BY <1>1, RespondFacts
<1>3. sent' = [sent EXCEPT ![c] = sent[c] \o units]
  BY DEF Respond
<1> HIDE DEF Unit
<1> QED BY <1>1, <1>2, <1>3 DEF TypeOK

\* What a client has stored behind the status line are blocks.
LEMMA WrittenBlocks ==
  ASSUME IInv, NEW c \in Client, NEW n \in Nat, n <= Len(sent[c])
  PROVE  SubSeq(sent[c], 2, n) \in Seq(Block)
<1>1. /\ sent[c] \in Seq(Unit) /\ Len(sent[c]) \in Nat
      /\ \A k \in 2 .. Len(sent[c]) : sent[c][k] = k - 1 /\ k - 1 \in Block
  BY DEF IInv, TypeOK, Responses, Response
<1>2. ASSUME NEW k \in 2 .. n PROVE sent[c][k] \in Block
  BY <1>1, <1>2
<1> QED BY <1>2, SubSeqProperties

\* Steps of the client and the parent that leave the response alone.
LEMMA TypeStepClient ==
  ASSUME IInv, NEW c \in Client,
         \/ Connect(c) \/ ConnectFails(c) \/ ConnectTLS(c) \/ ConnectTLSFails(c)
         \/ SendRequest(c) \/ Receive(c) \/ ReceiveEnd(c) \/ ReceiveFails(c)
         \/ WriteOutput(c) \/ Interrupt(c)
  PROVE  TypeOK'
<1> USE DEF IInv, At, clientVars, parentVars, childVars, connVars, Ended
<1>1. CASE Connect(c)
  <2>1. backlog' \in Seq(Client) /\ Len(backlog') <= BACKLOG
    BY <1>1, JoinQueue, BoundsAssumption DEF Connect, TypeOK
  <2> QED BY <1>1, <2>1 DEF Connect, TypeOK
<1>2. CASE ConnectFails(c)
  BY <1>2 DEF ConnectFails, TypeOK
<1>3. CASE ConnectTLS(c)
  <2>1. \/ turn' = turn
        \/ turn[c] \in {0, 2} /\ turn' = [turn EXCEPT ![c] = turn[c] + 1]
    BY <1>3 DEF ConnectTLS
  <2>2. turn' \in [Client -> 0 .. 4]
    BY <2>1 DEF TypeOK
  <2>3. client' \in [Client -> {"start", "handshake", "request", "receive", "output"}
                               \cup Ended]
    BY ZenonT(60), <1>3 DEF ConnectTLS, TypeOK
  <2> QED BY <1>3, <2>2, <2>3 DEF ConnectTLS, TypeOK
<1>4. CASE ConnectTLSFails(c)
  BY <1>4 DEF ConnectTLSFails, TypeOK
<1>5. CASE SendRequest(c)
  BY <1>5 DEF SendRequest, TypeOK
<1>6. CASE Receive(c)
  <2>1. sent[c] \in Seq(Unit) /\ Len(sent[c]) \in Nat
    BY DEF TypeOK
  <2>2. /\ stored' \in [Client -> Nat]
        /\ \A d \in Client : stored'[d] <= Len(sent[d])
    BY <1>6, <2>1 DEF Receive, TypeOK
  <2> QED BY <1>6, <2>2 DEF Receive, TypeOK
<1>7. CASE ReceiveEnd(c)
  BY <1>7 DEF ReceiveEnd, TypeOK
<1>8. CASE ReceiveFails(c)
  BY <1>8 DEF ReceiveFails, TypeOK
<1>9. CASE WriteOutput(c)
  <2>1. SubSeq(sent[c], 2, stored[c]) \in Seq(Block)
    BY WrittenBlocks DEF TypeOK
  <2>2. \/ output' = output
        \/ output' = [output EXCEPT ![c] = Junk]
        \/ output' = [output EXCEPT ![c] = SubSeq(sent[c], 2, stored[c])]
    BY <1>9 DEF WriteOutput
  <2>3. output' \in [Client -> {Old, Junk} \cup Seq(Block)]
    BY <2>1, <2>2 DEF TypeOK
  <2>4. client' \in [Client -> {"start", "handshake", "request", "receive", "output"}
                               \cup Ended]
    BY ZenonT(60), <1>9 DEF WriteOutput, TypeOK
  <2> QED BY <1>9, <2>3, <2>4 DEF WriteOutput, TypeOK
<1>10. CASE Interrupt(c)
  BY <1>10 DEF Interrupt, TypeOK
<1> QED BY <1>1, <1>2, <1>3, <1>4, <1>5, <1>6, <1>7, <1>8, <1>9, <1>10

\* Steps of the parent.
LEMMA TypeStepParent ==
  ASSUME IInv, Accept \/ Fork \/ CloseAccepted \/ SigchldHandler
  PROVE  TypeOK'
<1> USE DEF IInv, clientVars, parentVars, childVars, connVars
<1>1. CASE Accept
  <2>1. /\ backlog' \in Seq(Client) /\ Len(backlog') <= BACKLOG
        /\ Head(backlog) \in Client
    BY <1>1, LeaveQueue, BoundsAssumption DEF Accept, TypeOK, Descriptors
  <2>2. fds' \in [Client -> SUBSET {"parent", "child"}]
    BY <1>1, <2>1 DEF Accept, TypeOK
  <2> QED BY <1>1, <2>1, <2>2 DEF Accept, TypeOK
<1>2. CASE Fork
  <2>1. \/ child' = child
        \/ child' = [child EXCEPT ![current] = "handshake"]
        \/ child' = [child EXCEPT ![current] = "recv"]
    BY <1>2 DEF Fork
  <2>2. fds' = fds \/ fds' = [fds EXCEPT ![current] = @ \cup {"child"}]
    BY <1>2 DEF Fork
  <2>3. child' \in [Client -> Running \cup {"none", "zombie", "reaped"}]
    BY <2>1 DEF TypeOK, Running
  <2>4. fds' \in [Client -> SUBSET {"parent", "child"}]
    <3>1. current \in Client /\ fds \in [Client -> SUBSET {"parent", "child"}]
      BY <1>2 DEF Fork, Descriptors, TypeOK
    <3>2. fds[current] \cup {"child"} \in SUBSET {"parent", "child"}
      BY <3>1
    <3> QED BY <3>1, <3>2, <2>2
  <2> QED BY <1>2, <2>3, <2>4 DEF Fork, TypeOK
<1>3. CASE CloseAccepted
  <2>1. current \in Client /\ Close(current, "parent")
    BY <1>3 DEF CloseAccepted, Descriptors
  <2>2. fds' \in [Client -> SUBSET {"parent", "child"}] /\ rst' \subseteq Client
    BY <2>1, CloseType
  <2> QED BY <1>3, <2>2 DEF CloseAccepted, TypeOK
<1>4. CASE SigchldHandler
  BY <1>4 DEF SigchldHandler, TypeOK
<1> QED BY <1>1, <1>2, <1>3, <1>4

\* What a child sends next.
LEMMA NextBlock ==
  ASSUME IInv, NEW c \in Client, SendBlock(c)
  PROVE  /\ sent[c] # <<>> /\ BlocksSent(c) = Len(sent[c]) - 1
         /\ BlocksSent(c) + 1 = Len(sent[c]) /\ Len(sent[c]) \in Block
         /\ Len(sent[c]) <= file[c] /\ file[c] \in Nat
<1>1. /\ sent[c] \in Seq(Unit) /\ Len(sent[c]) \in Nat
      /\ file[c] \in Sizes \cup {Missing}
  BY DEF IInv, TypeOK
<1>2. /\ child[c] = "send" /\ BlocksSent(c) < file[c]
      /\ file[c] \in Nat /\ (sent[c] = <<>> => file[c] = 0)
  BY DEF SendBlock, IInv, Responses, Response
<1>3. sent[c] # <<>> /\ BlocksSent(c) = Len(sent[c]) - 1
  BY <1>1, <1>2 DEF BlocksSent
<1>4. Len(sent[c]) # 0
  BY <1>1, <1>3
<1>5. file[c] \in 0 .. 199
  BY <1>1, <1>2, BoundsAssumption, ContentsAssumption
<1> DEFINE n == Len(sent[c])
           m == file[c]
<1>6. n \in Nat /\ n # 0 /\ n - 1 < m /\ m \in 0 .. 199
  BY <1>1, <1>2, <1>3, <1>4, <1>5
<1> HIDE DEF n, m
<1>7. n - 1 + 1 = n /\ n \in 1 .. 199 /\ n <= m /\ m \in Nat
  BY <1>6
<1> QED BY <1>3, <1>7 DEF Block, n, m

\* Steps of a child.
LEMMA TypeStepChild ==
  ASSUME IInv, NEW c \in Client,
         \/ AcceptTLS(c) \/ RecvRequest(c) \/ BadRequest(c) \/ OpenFile(c)
         \/ SendBlock(c) \/ SendFails(c) \/ Finish(c) \/ ShutdownTLS(c) \/ Kill(c)
  PROVE  TypeOK'
<1> USE DEF IInv, ChildOnly, clientVars
<1> DEFINE ChildTypes ==
             /\ child' \in [Client -> Running \cup {"none", "zombie", "reaped"}]
             /\ fds' \in [Client -> SUBSET {"parent", "child"}] /\ rst' \subseteq Client
             /\ sigchld' \in BOOLEAN
           Moves(state) == /\ child' = [child EXCEPT ![c] = state]
                           /\ UNCHANGED <<sigchld, fds, rst>>
<1>1. Exit(c) => ChildTypes
  BY ExitType
<1>2. ASSUME NEW state \in Running, Moves(state) PROVE ChildTypes
  BY <1>2 DEF TypeOK
<1>3. CASE AcceptTLS(c)
  <2>1. \/ turn' = turn
        \/ turn[c] \in {1, 3} /\ turn' = [turn EXCEPT ![c] = turn[c] + 1]
    BY <1>3 DEF AcceptTLS
  <2>2. turn' \in [Client -> 0 .. 4]
    <3>1. turn \in [Client -> 0 .. 4]
      BY DEF TypeOK
    <3>2. turn[c] \in {1, 3} => turn[c] + 1 \in 0 .. 4
      OBVIOUS
    <3> QED BY <2>1, <3>1, <3>2
  <2>3. Exit(c) \/ Moves("recv") \/ Moves(child[c])
    BY <1>3 DEF AcceptTLS
  <2>4. child[c] \in Running
    BY <1>3 DEF AcceptTLS, Running
  <2>5. ChildTypes
    BY <2>3, <2>4, <1>1, <1>2 DEF Running
  <2> QED BY <1>3, <2>2, <2>5 DEF AcceptTLS, TypeOK
<1>4. CASE RecvRequest(c)
  <2>1. Exit(c) \/ Moves("open") \/ Moves("refuse")
    BY <1>4 DEF RecvRequest
  <2>2. ChildTypes
    BY <2>1, <1>1, <1>2 DEF Running
  <2>3. request' \in [Client -> {"none", "sent", "cut", "read"}]
    BY <1>4 DEF RecvRequest, TypeOK
  <2> QED BY <1>4, <2>2, <2>3 DEF RecvRequest, TypeOK
<1>5. CASE BadRequest(c)
  <2>1. Respond(c, <<400>>) /\ <<400>> \in Seq(Unit)
    BY <1>5 DEF BadRequest, Unit
  <2>2. sent' \in [Client -> Seq(Unit)] /\ \A d \in Client : stored[d] <= Len(sent'[d])
    BY ZenonT(60), <2>1, RespondType
  <2> QED BY <1>5, <1>1, <2>2 DEF BadRequest, TypeOK
<1>6. CASE OpenFile(c)
  <2>1. PICK units \in {<<404>>, <<>>, <<200, 1>>} : Respond(c, units)
    BY <1>6 DEF OpenFile
  <2>2. units \in Seq(Unit)
    <3>1. 404 \in Unit /\ 200 \in Unit /\ 1 \in Unit
      BY DEF Unit, Block
    <3>2. <<404>> \in Seq(Unit) /\ <<>> \in Seq(Unit)
      BY <3>1
    <3>3. ASSUME NEW x \in Unit, NEW y \in Unit PROVE <<x, y>> \in Seq(Unit)
      OBVIOUS
    <3>4. <<200, 1>> \in Seq(Unit)
      BY <3>1, <3>3
    <3>5. units = <<404>> \/ units = <<>> \/ units = <<200, 1>>
      BY <2>1
    <3> QED BY ZenonT(60), <3>2, <3>4, <3>5
  <2>3. sent' \in [Client -> Seq(Unit)] /\ \A d \in Client : stored[d] <= Len(sent'[d])
    BY <2>1, <2>2, RespondType
  <2>4. Exit(c) \/ Moves("send")
    BY <1>6 DEF OpenFile
  <2>5. ChildTypes
    BY <2>4, <1>1, <1>2 DEF Running
  <2> QED BY <1>6, <2>3, <2>5 DEF OpenFile, TypeOK
<1>7. CASE SendBlock(c)
  <2>1. Respond(c, <<BlocksSent(c) + 1>>) /\ <<BlocksSent(c) + 1>> \in Seq(Unit)
    BY <1>7, NextBlock DEF SendBlock, Unit
  <2>2. sent' \in [Client -> Seq(Unit)] /\ \A d \in Client : stored[d] <= Len(sent'[d])
    BY <2>1, RespondType
  <2> QED BY <1>7, <2>2 DEF SendBlock, TypeOK
<1>8. CASE SendFails(c)
  BY <1>8, <1>1 DEF SendFails, TypeOK
<1>9. CASE Finish(c)
  <2>1. \/ Exit(c)
        \/ /\ child' = [child EXCEPT ![c] = "shutdown"] /\ UNCHANGED sigchld
           /\ Close(c, "child")
    BY <1>9 DEF Finish
  <2>2. ASSUME child' = [child EXCEPT ![c] = "shutdown"], UNCHANGED sigchld,
               Close(c, "child")
        PROVE  ChildTypes
    BY <2>2, CloseType DEF TypeOK, Running
  <2>3. ChildTypes
    BY <2>1, <2>2, <1>1
  <2> QED BY <1>9, <2>3 DEF Finish, TypeOK
<1>10. CASE ShutdownTLS(c)
  BY <1>10, <1>1 DEF ShutdownTLS, TypeOK
<1>11. CASE Kill(c)
  BY <1>11, <1>1 DEF Kill, TypeOK
<1> QED BY <1>3, <1>4, <1>5, <1>6, <1>7, <1>8, <1>9, <1>10, <1>11

-----------------------------------------------------------------------------
(* Descriptors. *)

Serving == {"handshake", "recv", "refuse", "open", "send"}

\* A child that ends closes no descriptor but its own.
LEMMA DescriptorsExit ==
  ASSUME IInv, NEW c \in Client, child[c] \in Running, Exit(c),
         UNCHANGED <<client, backlog, parent, current, notified>>
  PROVE  Descriptors'
BY DEF IInv, TypeOK, Descriptors, Exit, Close, Running

\* A child that goes on keeps it.
LEMMA DescriptorsMove ==
  ASSUME IInv, NEW c \in Client, child[c] \in Serving, NEW state \in Serving,
         child' = [child EXCEPT ![c] = state],
         UNCHANGED <<client, backlog, fds, parent, current, notified>>
  PROVE  Descriptors'
BY DEF IInv, TypeOK, Descriptors, Serving

\* A child closes its socket when it is done with it, and then ends.
LEMMA DescriptorsChild ==
  ASSUME IInv, NEW c \in Client,
         \/ AcceptTLS(c) \/ RecvRequest(c) \/ BadRequest(c) \/ OpenFile(c)
         \/ SendBlock(c) \/ SendFails(c) \/ Finish(c) \/ ShutdownTLS(c) \/ Kill(c)
  PROVE  Descriptors'
<1> USE DEF ChildOnly, clientVars
<1> DEFINE Frame == UNCHANGED <<client, backlog, parent, current, notified>>
<1>1. child[c] \in Running /\ Exit(c) /\ Frame => Descriptors'
  BY DescriptorsExit
<1>2. ASSUME child[c] \in Serving, NEW state \in Serving,
             child' = [child EXCEPT ![c] = state], UNCHANGED fds, Frame
      PROVE  Descriptors'
  BY <1>2, DescriptorsMove
<1> USE DEF Running, Serving
<1>3. CASE AcceptTLS(c)
  <2>1. child[c] = "handshake" /\ Frame
    BY <1>3 DEF AcceptTLS
  <2>2. \/ Exit(c)
        \/ child' = [child EXCEPT ![c] = "recv"] /\ UNCHANGED fds
        \/ child' = [child EXCEPT ![c] = child[c]] /\ UNCHANGED fds
    BY <1>3 DEF AcceptTLS
  <2> QED BY <2>1, <2>2, <1>1, <1>2
<1>4. CASE RecvRequest(c)
  <2>1. child[c] = "recv" /\ Frame
    BY <1>4 DEF RecvRequest
  <2>2. \/ Exit(c)
        \/ child' = [child EXCEPT ![c] = "open"] /\ UNCHANGED fds
        \/ child' = [child EXCEPT ![c] = "refuse"] /\ UNCHANGED fds
    BY <1>4 DEF RecvRequest
  <2> QED BY <2>1, <2>2, <1>1, <1>2
<1>5. CASE BadRequest(c)
  BY <1>5, <1>1 DEF BadRequest
<1>6. CASE OpenFile(c)
  <2>1. child[c] = "open" /\ Frame
    BY <1>6 DEF OpenFile
  <2>2. Exit(c) \/ (child' = [child EXCEPT ![c] = "send"] /\ UNCHANGED fds)
    BY <1>6 DEF OpenFile
  <2> QED BY <2>1, <2>2, <1>1, <1>2
<1>7. CASE SendBlock(c)
  BY <1>7 DEF SendBlock, IInv, Descriptors
<1>8. CASE SendFails(c)
  BY <1>8, <1>1 DEF SendFails
<1>9. CASE Finish(c)
  <2>1. child[c] = "send" /\ Frame
    BY <1>9 DEF Finish
  <2>2. Exit(c) \/ (child' = [child EXCEPT ![c] = "shutdown"] /\ Close(c, "child"))
    BY <1>9 DEF Finish
  <2>3. ASSUME child' = [child EXCEPT ![c] = "shutdown"], Close(c, "child")
        PROVE  Descriptors'
    <3>1. /\ fds'[c] = fds[c] \ {"child"} /\ \A d \in Client \ {c} : fds'[d] = fds[d]
      BY <2>3, CloseType DEF IInv
    <3>2. child'[c] = "shutdown" /\ \A d \in Client \ {c} : child'[d] = child[d]
      BY <2>3 DEF IInv, TypeOK
    <3> QED BY <2>1, <3>1, <3>2 DEF IInv, Descriptors
  <2> QED BY <2>1, <2>2, <2>3, <1>1
<1>10. CASE ShutdownTLS(c)
  <2>1. notified' = notified
    BY <1>10 DEF ShutdownTLS, IInv, Descriptors
  <2> QED BY <1>10, <2>1, <1>1 DEF ShutdownTLS
<1>11. CASE Kill(c)
  BY <1>11, <1>1 DEF Kill
<1> QED BY <1>3, <1>4, <1>5, <1>6, <1>7, <1>8, <1>9, <1>10, <1>11

\* What a client opens or closes is its own.
LEMMA DescriptorsClient ==
  ASSUME IInv, NEW c \in Client,
         \/ Connect(c) \/ ConnectFails(c) \/ ConnectTLS(c) \/ ConnectTLSFails(c)
         \/ SendRequest(c) \/ Receive(c) \/ ReceiveEnd(c) \/ ReceiveFails(c)
         \/ WriteOutput(c) \/ Interrupt(c)
  PROVE  Descriptors'
<1> USE DEF IInv, TypeOK, Descriptors, At, clientVars, parentVars, childVars, connVars,
            Ended
<1>1. CASE Connect(c)
  <2>1. backlog' = Append(backlog, c) /\ backlog \in Seq(Client) /\ c \notin Range(backlog)
    BY <1>1 DEF Connect
  <2>2. Range(backlog') = Range(backlog) \cup {c} /\ IsInjective(backlog')
    BY <2>1, JoinQueue DEF Descriptors
  <2>3. /\ client[c] = "start" /\ client'[c] # "start"
        /\ \A d \in Client \ {c} : client'[d] = client[d]
        /\ UNCHANGED <<child, fds, parent, current, notified>>
    BY <1>1 DEF Connect
  <2> QED BY <2>2, <2>3
<1>2. CASE ConnectFails(c)
  BY <1>2 DEF ConnectFails
<1>3. CASE ConnectTLS(c)
  BY <1>3 DEF ConnectTLS
<1>4. CASE ConnectTLSFails(c)
  BY <1>4 DEF ConnectTLSFails
<1>5. CASE SendRequest(c)
  BY <1>5 DEF SendRequest
<1>6. CASE Receive(c)
  BY <1>6 DEF Receive
<1>7. CASE ReceiveEnd(c)
  BY <1>7 DEF ReceiveEnd
<1>8. CASE ReceiveFails(c)
  BY <1>8 DEF ReceiveFails
<1>9. CASE WriteOutput(c)
  BY <1>9 DEF WriteOutput
<1>10. CASE Interrupt(c)
  BY <1>10 DEF Interrupt
<1> QED BY <1>1, <1>2, <1>3, <1>4, <1>5, <1>6, <1>7, <1>8, <1>9, <1>10

\* The parent hands a connection to the child it forks, and keeps none.
LEMMA DescriptorsParent ==
  ASSUME IInv, Accept \/ Fork \/ CloseAccepted \/ SigchldHandler
  PROVE  Descriptors'
<1> USE DEF IInv, TypeOK, Descriptors, clientVars, parentVars, childVars, connVars
<1>1. CASE Accept
  <2>1. /\ backlog' = Tail(backlog) /\ current' = Head(backlog)
        /\ backlog \in Seq(Client) /\ backlog # <<>> /\ IsInjective(backlog)
    BY <1>1 DEF Accept
  <2>2. /\ Range(backlog') = Range(backlog) \ {current'} /\ IsInjective(backlog')
        /\ current' \in Range(backlog) /\ current' \in Client
    BY <2>1, LeaveQueue
  <2>3. /\ fds' = [fds EXCEPT ![current'] = {"parent"}] /\ parent' = "fork"
        /\ UNCHANGED <<client, child, notified>>
    BY <1>1, <2>1 DEF Accept
  <2> QED BY <2>2, <2>3
<1>2. CASE Fork
  BY <1>2 DEF Fork
<1>3. CASE CloseAccepted
  BY <1>3 DEF CloseAccepted, Close
<1>4. CASE SigchldHandler
  BY <1>4 DEF SigchldHandler
<1> QED BY <1>1, <1>2, <1>3, <1>4

-----------------------------------------------------------------------------
(* Responses. *)

\* A response stays what it is when the client goes on, for a client that has ended
\* without success does not come back.
LEMMA ResponsesKept ==
  ASSUME IInv, UNCHANGED <<file, child, sent>>, killed \subseteq killed',
         \A d \in Client : client[d] \in {"failed", "crashed"} =>
                             client'[d] \in {"failed", "crashed"}
  PROVE  Responses'
BY DEF IInv, Responses, Response

\* A client answers nothing.
LEMMA ResponsesClient ==
  ASSUME IInv, NEW c \in Client,
         \/ Connect(c) \/ ConnectFails(c) \/ ConnectTLS(c) \/ ConnectTLSFails(c)
         \/ SendRequest(c) \/ Receive(c) \/ ReceiveEnd(c) \/ ReceiveFails(c)
         \/ WriteOutput(c) \/ Interrupt(c)
  PROVE  Responses'
<1> USE DEF At, clientVars, parentVars, childVars, connVars
<1>1. UNCHANGED <<file, child, sent>> /\ killed \subseteq killed'
  BY DEF Connect, ConnectFails, ConnectTLS, ConnectTLSFails, SendRequest, Receive,
         ReceiveEnd, ReceiveFails, WriteOutput, Interrupt
<1>2. \/ UNCHANGED client
      \/ /\ client[c] \notin {"failed", "crashed"}
         /\ \E state : client' = [client EXCEPT ![c] = state]
  BY DEF Connect, ConnectFails, ConnectTLS, ConnectTLSFails, SendRequest, Receive,
         ReceiveEnd, ReceiveFails, WriteOutput, Interrupt
<1>3. \A d \in Client : client[d] \in {"failed", "crashed"} =>
                          client'[d] \in {"failed", "crashed"}
  BY <1>2 DEF IInv, TypeOK
<1> QED BY <1>1, <1>3, ResponsesKept

\* A child is forked for a client that was not answered before.
LEMMA ResponsesParent ==
  ASSUME IInv, Accept \/ Fork \/ CloseAccepted \/ SigchldHandler
  PROVE  Responses'
<1> USE DEF IInv, TypeOK, Descriptors, Responses, Response, clientVars, childVars
<1>1. CASE Accept \/ CloseAccepted
  BY <1>1 DEF Accept, CloseAccepted
<1>2. CASE Fork
  BY <1>2 DEF Fork
<1>3. CASE SigchldHandler
  BY <1>3 DEF SigchldHandler
<1> QED BY <1>1, <1>2, <1>3

\* No response changes when a child that does not send goes on or ends.
LEMMA ResponsesQuiet ==
  ASSUME IInv, NEW c \in Client, NEW state, child' = [child EXCEPT ![c] = state],
         UNCHANGED <<file, client, sent>>, killed \subseteq killed',
         state \in {"none", "handshake", "recv", "refuse", "open"} => sent[c] = <<>>,
         state # "send",
         \/ child[c] # "send" \/ c \in killed' \/ client[c] \in {"failed", "crashed"}
         \/ BlocksSent(c) = file[c]
  PROVE  Responses'
BY DEF IInv, TypeOK, Responses, Response, BlocksSent

\* Nor do the responses of the others when one child sends.
LEMMA ResponsesOthers ==
  ASSUME IInv, NEW c \in Client, UNCHANGED <<file, client, killed>>,
         \A d \in Client \ {c} : sent'[d] = sent[d] /\ child'[d] = child[d],
         Response(c)'
  PROVE  Responses'
BY DEF IInv, Responses, Response

\* A child sends the status, the file as it has read it, and no more.
LEMMA ResponsesChild ==
  ASSUME IInv, NEW c \in Client,
         \/ AcceptTLS(c) \/ RecvRequest(c) \/ BadRequest(c) \/ OpenFile(c)
         \/ SendBlock(c) \/ SendFails(c) \/ Finish(c) \/ ShutdownTLS(c) \/ Kill(c)
  PROVE  Responses'
<1> USE DEF ChildOnly, clientVars
<1> DEFINE Ends == child' = [child EXCEPT ![c] = "zombie"]
<1>1. Exit(c) => Ends
  BY DEF Exit
<1>2. /\ child[c] \in {"none", "handshake", "recv", "refuse", "open"} => sent[c] = <<>>
      /\ sent[c] \in Seq(Unit)
  BY DEF IInv, TypeOK, Responses, Response
<1>3. CASE AcceptTLS(c)
  <2>1. \/ Ends \/ child' = [child EXCEPT ![c] = "recv"]
        \/ child' = [child EXCEPT ![c] = "handshake"]
    BY <1>3, <1>1 DEF AcceptTLS
  <2>2. child[c] = "handshake" /\ UNCHANGED <<file, client, sent, killed>>
    BY <1>3 DEF AcceptTLS
  <2> QED BY <2>1, <2>2, <1>2, ResponsesQuiet
<1>4. CASE RecvRequest(c)
  <2>1. \/ Ends \/ child' = [child EXCEPT ![c] = "open"]
        \/ child' = [child EXCEPT ![c] = "refuse"]
    BY <1>4, <1>1 DEF RecvRequest
  <2>2. child[c] = "recv" /\ UNCHANGED <<file, client, sent, killed>>
    BY <1>4 DEF RecvRequest
  <2> QED BY <2>1, <2>2, <1>2, ResponsesQuiet
<1>5. CASE BadRequest(c)
  <2>1. /\ child[c] = "refuse" /\ Ends /\ Respond(c, <<400>>)
        /\ UNCHANGED <<file, client, killed>>
    BY <1>5, <1>1 DEF BadRequest
  <2>2. sent'[c] = <<400>>
    BY <2>1, <1>2 DEF Respond, IInv, TypeOK
  <2>3. \A d \in Client \ {c} : sent'[d] = sent[d] /\ child'[d] = child[d]
    BY <2>1 DEF Respond, IInv, TypeOK
  <2>4. child'[c] = "zombie"
    BY <2>1 DEF IInv, TypeOK
  <2>5. Response(c)'
    BY <2>1, <2>2, <2>4 DEF Response
  <2> QED BY <2>1, <2>3, <2>5, ResponsesOthers
<1>6. CASE OpenFile(c)
  <2>1. child[c] = "open" /\ sent[c] = <<>> /\ UNCHANGED <<file, client, killed>>
    BY <1>6, <1>2 DEF OpenFile
  <2>2. CASE file[c] = Missing
    <3>1. Ends /\ Respond(c, <<404>>)
      BY <1>6, <1>1, <2>2 DEF OpenFile
    <3>2. sent'[c] = <<404>> /\ child'[c] = "zombie"
      BY <2>1, <3>1 DEF Respond, IInv, TypeOK
    <3>3. \A d \in Client \ {c} : sent'[d] = sent[d] /\ child'[d] = child[d]
      BY <3>1 DEF Respond, IInv, TypeOK
    <3>4. Response(c)'
      BY <2>1, <3>2 DEF Response
    <3> QED BY <2>1, <3>3, <3>4, ResponsesOthers
  <2>3. CASE file[c] # Missing
    <3>1. /\ child' = [child EXCEPT ![c] = "send"]
          /\ Respond(c, IF file[c] = 0 THEN <<>> ELSE <<200, 1>>)
      BY <1>6, <2>3 DEF OpenFile
    <3>2. /\ sent'[c] = IF file[c] = 0 THEN <<>> ELSE <<200, 1>>
          /\ child'[c] = "send"
      BY <2>1, <3>1 DEF Respond, IInv, TypeOK
    <3>3. \A d \in Client \ {c} : sent'[d] = sent[d] /\ child'[d] = child[d]
      BY <3>1 DEF Respond, IInv, TypeOK
    <3>4. file[c] \in 0 .. 199
      BY <2>3, BoundsAssumption DEF IInv, TypeOK
    <3>5. Response(c)'
      <4>1. CASE file[c] = 0
        BY <2>1, <3>2, <4>1 DEF Response
      <4>2. CASE file[c] # 0
        <5>1. file[c] \in Nat /\ 2 - 1 <= file[c] /\ 1 \in Block
          BY <3>4, <4>2 DEF Block
        <5>2. /\ Len(sent'[c]) = 2 /\ sent'[c][1] = 200 /\ sent'[c][2] = 1
              /\ sent'[c] # <<>> /\ child'[c] = "send"
          BY <3>2, <4>2
        <5>3. \A k \in 2 .. Len(sent'[c]) : sent'[c][k] = k - 1 /\ k - 1 \in Block
          BY <5>1, <5>2
        <5> QED BY <2>1, <5>1, <5>2, <5>3 DEF Response
      <4> QED BY <4>1, <4>2
    <3> QED BY <2>1, <3>3, <3>5, ResponsesOthers
  <2> QED BY <2>2, <2>3
<1>7. CASE SendBlock(c)
  <2> DEFINE n == Len(sent[c])
  <2>1. /\ n \in Block /\ n <= file[c] /\ file[c] \in Nat /\ child[c] = "send"
        /\ Respond(c, <<n>>) /\ UNCHANGED <<file, client, killed, child>>
        /\ sent[c] # <<>>
    BY <1>7, NextBlock DEF SendBlock
  <2>2. /\ sent'[c] = sent[c] \o <<n>>
        /\ \A d \in Client \ {c} : sent'[d] = sent[d] /\ child'[d] = child[d]
    BY <2>1 DEF Respond, IInv, TypeOK
  <2>3. n \in Unit /\ <<n>> \in Seq(Unit) /\ n \in 1 .. 199
    <3> HIDE DEF n
    <3>1. n \in Unit /\ n \in 1 .. 199
      BY <2>1 DEF Unit, Block
    <3> QED BY <3>1
  <2>4. /\ Len(sent'[c]) = n + 1 /\ \A k \in 1 .. n : sent'[c][k] = sent[c][k]
        /\ sent'[c][n + 1] = n /\ sent'[c] # <<>>
    <3>1. sent[c] \in Seq(Unit)
      BY DEF IInv, TypeOK
    <3>2. n = Len(sent[c]) /\ n \in Nat
      BY <3>1
    <3> HIDE DEF n
    <3>3. /\ Len(sent[c] \o <<n>>) = n + 1
          /\ \A k \in 1 .. n : (sent[c] \o <<n>>)[k] = sent[c][k]
          /\ (sent[c] \o <<n>>)[n + 1] = n
      <4>1. n \in Unit
        BY <2>3
      <4> QED BY <3>1, <3>2, <4>1, Appended
    <3>4. sent'[c] # <<>>
      <4>1. Len(sent'[c]) # 0
        BY <2>2, <3>2, <3>3
      <4> QED BY <4>1
    <3> QED BY <2>2, <3>3, <3>4
  <2>5. /\ \A k \in 2 .. n : sent[c][k] = k - 1 /\ k - 1 \in Block
        /\ sent[c][1] = 200
    BY <2>1 DEF IInv, Responses, Response
  <2> HIDE DEF n
  <2>6. ASSUME NEW k \in 2 .. n + 1 PROVE sent'[c][k] = k - 1 /\ k - 1 \in Block
    <3>1. CASE k \in 2 .. n
      BY <3>1, <2>3, <2>4, <2>5
    <3>2. CASE k = n + 1
      <4>1. k - 1 = n
        BY <2>3, <3>2
      <4> QED BY <2>1, <2>4, <3>2, <4>1
    <3> QED BY <3>1, <3>2, <2>3
  <2>7. sent'[c][1] = 200 /\ n + 1 - 1 <= file[c]
    <3>1. 1 \in 1 .. n /\ n + 1 - 1 = n
      BY <2>3
    <3>2. sent'[c][1] = sent[c][1]
      BY <2>4, <3>1
    <3> QED BY <2>1, <2>5, <3>1, <3>2
  <2>8. Response(c)'
    BY <2>1, <2>4, <2>6, <2>7 DEF Response
  <2> QED BY <2>1, <2>2, <2>8, ResponsesOthers
<1>8. CASE SendFails(c)
  <2>1. /\ child[c] = "send" /\ Ends /\ Gone(c) /\ ~tls
        /\ UNCHANGED <<file, client, sent, killed>>
    BY <1>8, <1>1 DEF SendFails
  <2>2. client[c] # "done"
    BY <2>1 DEF IInv, Descriptors, Outputs, Output, Closed
  <2> QED BY <2>1, <2>2, ResponsesQuiet DEF Gone, Ended
<1>9. CASE Finish(c)
  <2>1. Ends \/ child' = [child EXCEPT ![c] = "shutdown"]
    BY <1>9, <1>1 DEF Finish
  <2>2. BlocksSent(c) = file[c] /\ UNCHANGED <<file, client, sent, killed>>
    BY <1>9 DEF Finish
  <2> QED BY <2>1, <2>2, ResponsesQuiet
<1>10. CASE ShutdownTLS(c)
  <2>1. child[c] = "shutdown" /\ Ends /\ UNCHANGED <<file, client, sent, killed>>
    BY <1>10, <1>1 DEF ShutdownTLS
  <2> QED BY <2>1, ResponsesQuiet
<1>11. CASE Kill(c)
  <2>1. Ends /\ killed' = killed \cup {c} /\ UNCHANGED <<file, client, sent>>
    BY <1>11, <1>1 DEF Kill
  <2> QED BY <2>1, ResponsesQuiet
<1> QED BY <1>3, <1>4, <1>5, <1>6, <1>7, <1>8, <1>9, <1>10, <1>11

-----------------------------------------------------------------------------
(* Outputs. *)

\* A connection that the server is done with stays so, and nothing is sent on it.
LEMMA ClosedStays ==
  ASSUME IInv, Next, NEW c \in Client, Closed(c)
  PROVE  Closed(c)' /\ sent'[c] = sent[c]
<1> USE DEF IInv, TypeOK, Descriptors, Closed, clientVars, parentVars, childVars, connVars
<1>1. /\ client[c] # "start" /\ fds[c] = {} /\ c \notin Range(backlog)
      /\ child[c] \notin Serving /\ (parent # "accept" => current # c)
  BY DEF Serving
<1>2. ASSUME NEW d \in Client,
             \/ Connect(d) \/ ConnectFails(d) \/ ClientStep(d) \/ Interrupt(d)
      PROVE  Closed(c)' /\ sent'[c] = sent[c]
  <2>1. sent' = sent /\ fds' = fds
    BY <1>2 DEF Connect, ConnectFails, Interrupt, ClientStep, ConnectTLS,
            ConnectTLSFails, SendRequest, Receive, ReceiveEnd, ReceiveFails, WriteOutput
  <2>2. client'[c] # "start"
    BY <1>1, <1>2 DEF At, Connect, ConnectFails, Interrupt, ClientStep, ConnectTLS,
            ConnectTLSFails, SendRequest, Receive, ReceiveEnd, ReceiveFails, WriteOutput
  <2>3. UNCHANGED backlog \/ (backlog' = Append(backlog, d) /\ d # c)
    BY <1>1, <1>2 DEF At, Connect, ConnectFails, Interrupt, ClientStep, ConnectTLS,
            ConnectTLSFails, SendRequest, Receive, ReceiveEnd, ReceiveFails, WriteOutput
  <2>4. c \notin Range(backlog')
    <3>1. CASE UNCHANGED backlog
      BY <1>1, <3>1
    <3>2. CASE backlog' = Append(backlog, d) /\ d # c
      <4>1. backlog \in Seq(Client)
        OBVIOUS
      <4>2. Range(backlog') = Range(backlog) \cup {d}
        BY <3>2, <4>1, JoinQueue
      <4> QED BY <1>1, <3>2, <4>2
    <3> QED BY <2>3, <3>1, <3>2
  <2> QED BY <1>1, <2>1, <2>2, <2>4
<1>3. ASSUME NEW d \in Client, ChildStep(d) \/ Kill(d)
      PROVE  Closed(c)' /\ sent'[c] = sent[c]
  <2>1. UNCHANGED <<client, backlog>>
    BY <1>3 DEF Kill, ChildStep, AcceptTLS, RecvRequest, BadRequest, OpenFile, SendBlock,
            SendFails, Finish, ShutdownTLS, ChildOnly
  <2>2. UNCHANGED fds \/ fds' = [fds EXCEPT ![d] = @ \ {"child"}]
    BY <1>3 DEF Kill, ChildStep, AcceptTLS, RecvRequest, BadRequest, OpenFile, SendBlock,
            SendFails, Finish, ShutdownTLS, Exit, Close
  <2>3. \/ UNCHANGED sent
        \/ child[d] \in Serving /\ \E units : sent' = [sent EXCEPT ![d] = @ \o units]
    <3>1. CASE BadRequest(d) \/ OpenFile(d) \/ SendBlock(d)
      <4>1. child[d] \in Serving /\ \E units : Respond(d, units)
        BY <3>1 DEF BadRequest, OpenFile, SendBlock, Serving
      <4> QED BY <4>1 DEF Respond
    <3>2. CASE \/ Kill(d) \/ AcceptTLS(d) \/ RecvRequest(d) \/ SendFails(d) \/ Finish(d)
               \/ ShutdownTLS(d)
      BY <3>2 DEF Kill, AcceptTLS, RecvRequest, SendFails, Finish, ShutdownTLS
    <3> QED BY <1>3, <3>1, <3>2 DEF ChildStep
  <2>4. fds'[c] = {}
    <3>1. CASE d = c /\ fds' = [fds EXCEPT ![d] = @ \ {"child"}]
      <4>1. fds'[c] = fds[c] \ {"child"}
        BY <3>1
      <4> QED BY <1>1, <4>1
    <3>2. CASE d # c \/ UNCHANGED fds
      BY <1>1, <2>2, <3>2
    <3> QED BY <2>2, <3>1, <3>2
  <2>5. sent'[c] = sent[c]
    BY <1>1, <2>3
  <2> QED BY <1>1, <2>1, <2>4, <2>5
<1>4. ASSUME Accept \/ Fork \/ CloseAccepted \/ SigchldHandler
      PROVE  Closed(c)' /\ sent'[c] = sent[c]
  <2>1. CASE Accept
    <3>1. /\ Head(backlog) # c /\ Range(backlog') = Range(backlog) \ {Head(backlog)}
      BY <1>1, <2>1, LeaveQueue DEF Accept
    <3> QED BY <1>1, <2>1, <3>1 DEF Accept
  <2>2. CASE Fork
    BY <1>1, <2>2 DEF Fork
  <2>3. CASE CloseAccepted
    BY <1>1, <2>3 DEF CloseAccepted, Close
  <2>4. CASE SigchldHandler
    BY <1>1, <2>4 DEF SigchldHandler
  <2> QED BY <1>4, <2>1, <2>2, <2>3, <2>4
<1> QED BY <1>2, <1>3, <1>4 DEF Next

\* Nothing changes for the outputs when a client does not move.
LEMMA OutputsKept ==
  ASSUME IInv, Next, UNCHANGED <<tls, client, stored, junk, output>>, rst \subseteq rst'
  PROVE  Outputs'
BY ClosedStays DEF IInv, Outputs, Output

\* No step of the servers touches what a client has stored.
LEMMA OutputsServer ==
  ASSUME IInv, Next,
         \/ \E c \in Client : ChildStep(c) \/ Kill(c)
         \/ Accept \/ Fork \/ CloseAccepted \/ SigchldHandler
  PROVE  Outputs'
<1>1. UNCHANGED <<tls, client, stored, junk, output>>
  BY DEF Kill, ChildStep, AcceptTLS, RecvRequest, BadRequest, OpenFile, SendBlock,
         SendFails, Finish, ShutdownTLS, Accept, Fork, CloseAccepted, SigchldHandler,
         ChildOnly, clientVars
<1>2. rst \subseteq rst'
  BY ZenonT(60) DEF Kill, ChildStep, AcceptTLS, RecvRequest, BadRequest, OpenFile, SendBlock,
         SendFails, Finish, ShutdownTLS, Accept, Fork, CloseAccepted, SigchldHandler,
         Exit, Close, connVars
<1> QED BY <1>1, <1>2, OutputsKept

\* What the outputs of the others depend on does not change when one client moves.
LEMMA OutputsOthers ==
  ASSUME IInv, Next, NEW c \in Client, UNCHANGED tls, rst \subseteq rst',
         \A d \in Client \ {c} : /\ client'[d] = client[d] /\ stored'[d] = stored[d]
                                 /\ output'[d] = output[d] /\ (d \in junk' <=> d \in junk),
         Output(c)'
  PROVE  Outputs'
BY SMTT(60), ClosedStays DEF IInv, Outputs, Output

\* A client stores what it has received, in that order.
LEMMA OutputsClient ==
  ASSUME IInv, Next, NEW c \in Client,
         \/ Connect(c) \/ ConnectFails(c) \/ ConnectTLS(c) \/ ConnectTLSFails(c)
         \/ SendRequest(c) \/ Receive(c) \/ ReceiveEnd(c) \/ ReceiveFails(c)
         \/ WriteOutput(c) \/ Interrupt(c)
  PROVE  Outputs'
<1> USE DEF At, clientVars, parentVars, childVars, connVars
<1>1. UNCHANGED <<tls, sent>> /\ rst \subseteq rst' /\ junk \subseteq junk'
  BY DEF Connect, ConnectFails, ConnectTLS, ConnectTLSFails, SendRequest, Receive,
         ReceiveEnd, ReceiveFails, WriteOutput, Interrupt
<1>2. ASSUME NEW d \in Client \ {c}
      PROVE  /\ client'[d] = client[d] /\ stored'[d] = stored[d]
             /\ output'[d] = output[d] /\ (d \in junk' <=> d \in junk)
  BY DEF IInv, TypeOK, Connect, ConnectFails, ConnectTLS, ConnectTLSFails, SendRequest,
         Receive, ReceiveEnd, ReceiveFails, WriteOutput, Interrupt
<1>3. /\ client[c] \in {"start", "handshake", "request", "receive", "output"} \cup Ended
      /\ client' \in [Client -> {"start", "handshake", "request", "receive", "output"}
                                \cup Ended]
      /\ junk \subseteq Client /\ output[c] \in {Old, Junk} \cup Seq(Block)
  BY TypeStepClient DEF IInv, TypeOK
<1>4. Output(c)
  BY DEF IInv, Outputs
<1>5. Closed(c) => Closed(c)'
  BY ClosedStays
<1>6. Output(c)'
  <2> USE DEF Output, Ended
  <2>1. CASE \/ Connect(c) \/ ConnectFails(c) \/ ConnectTLS(c) \/ ConnectTLSFails(c)
             \/ SendRequest(c) \/ Interrupt(c)
    <3>1. /\ UNCHANGED <<output, junk, stored>>
          /\ client[c] \in {"start", "handshake", "request", "receive", "output"}
          /\ \/ client'[c] \in {"failed", "crashed"}
             \/ /\ client[c] # "output"
                /\ client'[c] \in {"start", "handshake", "request", "receive"}
      BY <2>1 DEF IInv, TypeOK, Connect, ConnectFails, ConnectTLS, ConnectTLSFails, SendRequest,
                  Interrupt
    <3> QED BY <1>1, <1>4, <3>1
  <2>2. CASE Receive(c)
    <3>1. client[c] = "receive" /\ UNCHANGED <<output, junk, client>>
      BY <2>2 DEF Receive
    <3> QED BY <1>1, <1>4, <3>1
  <2>3. CASE ReceiveEnd(c)
    <3>1. /\ client[c] = "receive" /\ client'[c] = "output" /\ Closed(c) /\ ~Waiting(c)
          /\ UNCHANGED <<output, junk, stored>>
      BY <2>3 DEF ReceiveEnd, IInv, TypeOK
    <3>2. stored[c] = Len(sent[c])
      <4>1. sent[c] \in Seq(Unit) /\ stored[c] \in Nat /\ stored[c] <= Len(sent[c])
        BY DEF IInv, TypeOK
      <4>2. Len(sent[c]) \in Nat
        BY <4>1
      <4> QED BY <3>1, <4>1, <4>2 DEF Waiting
    <3> QED BY <1>1, <1>4, <1>5, <3>1, <3>2
  <2>4. CASE ReceiveFails(c)
    <3>1. /\ c \in rst /\ UNCHANGED <<output, stored>>
          /\ client[c] \in {"receive"}
          /\ \/ client'[c] \in {"failed", "crashed"} /\ UNCHANGED junk
             \/ client'[c] = "output" /\ tls /\ junk' = junk \cup {c}
      BY <2>4 DEF ReceiveFails, IInv, TypeOK, Descriptors
    <3> QED BY <1>1, <1>4, <3>1
  <2>5. CASE WriteOutput(c)
    <3>1. client[c] = "output" /\ UNCHANGED <<junk, stored>>
      BY <2>5 DEF WriteOutput
    <3>2. CASE client'[c] = "crashed"
      <4>1. UNCHANGED output
        BY <2>5, <3>2, <1>3 DEF WriteOutput, IInv, TypeOK
      <4> QED BY <1>1, <1>4, <3>1, <3>2, <4>1
    <3>3. CASE c \in junk /\ client'[c] = "done"
      <4>1. output'[c] = Junk
        BY <2>5, <3>3 DEF WriteOutput, IInv, TypeOK
      <4> QED BY <1>1, <1>4, <3>1, <3>3, <4>1
    <3>4. CASE c \notin junk /\ client'[c] = "done"
      <4>1. /\ Closed(c) /\ stored[c] = Len(sent[c])
            /\ sent[c] \in Seq(Unit) /\ stored[c] \in Nat
        BY <1>4, <3>1, <3>4 DEF IInv, TypeOK
      <4>2. CASE stored[c] > 0
        <5>1. output'[c] = SubSeq(sent[c], 2, stored[c])
          BY <2>5, <3>4, <4>2 DEF WriteOutput, IInv, TypeOK
        <5>2. sent[c] # <<>>
          BY <4>1, <4>2
        <5> QED BY <1>1, <1>4, <1>5, <3>1, <3>4, <4>1, <5>1, <5>2
      <4>3. CASE stored[c] = 0
        <5>1. output'[c] = Junk
          BY <2>5, <3>4, <4>3 DEF WriteOutput, IInv, TypeOK
        <5>2. sent[c] = <<>>
          BY <4>1, <4>3, EmptySeq
        <5> QED BY <1>1, <1>4, <1>5, <3>1, <3>4, <4>1, <5>1, <5>2
      <4> QED BY <4>1, <4>2, <4>3
    <3>5. client'[c] \in {"done", "crashed"}
      BY <2>5 DEF WriteOutput, IInv, TypeOK
    <3> QED BY <3>2, <3>3, <3>4, <3>5
  <2> QED BY <2>1, <2>2, <2>3, <2>4, <2>5
<1> QED BY <1>1, <1>2, <1>6, OutputsOthers

-----------------------------------------------------------------------------
(* What every run of the program keeps. *)

\* What a client writes behind a status line is not what lay behind its buffer.
LEMMA JunkIsNoFile ==
  ASSUME IInv, NEW c \in Client
  PROVE  SubSeq(sent[c], 2, Len(sent[c])) # Junk
<1>1. SubSeq(sent[c], 2, Len(sent[c])) \in Seq(Block)
  BY WrittenBlocks DEF IInv, TypeOK
<1>2. Block \subseteq Nat
  BY DEF Block
<1>3. SubSeq(sent[c], 2, Len(sent[c])) \in Seq(Nat)
  BY <1>1, <1>2, SeqMonotonic
<1> QED BY <1>3, ContentsAssumption

\* Every step of clients, children and servers keeps the invariant.
LEMMA StepIInv == IInv /\ [Next]_vars => IInv'
<1> SUFFICES ASSUME IInv, [Next]_vars PROVE IInv'
  OBVIOUS
<1>1. CASE UNCHANGED vars
  BY <1>1 DEF vars, clientVars, parentVars, childVars, connVars, IInv, TypeOK, Descriptors,
              Responses, Response, Outputs, Output, Closed
<1>2. ASSUME Next, NEW c \in Client,
             \/ Connect(c) \/ ConnectFails(c) \/ ClientStep(c) \/ Interrupt(c)
      PROVE  IInv'
  BY <1>2, TypeStepClient, DescriptorsClient, ResponsesClient, OutputsClient
     DEF IInv, ClientStep
<1>3. ASSUME Next, NEW c \in Client, ChildStep(c) \/ Kill(c)
      PROVE  IInv'
  BY <1>3, TypeStepChild, DescriptorsChild, ResponsesChild, OutputsServer
     DEF IInv, ChildStep
<1>4. ASSUME Next, Accept \/ Fork \/ CloseAccepted \/ SigchldHandler
      PROVE  IInv'
  BY <1>4, TypeStepParent, DescriptorsParent, ResponsesParent, OutputsServer DEF IInv
<1> QED BY <1>1, <1>2, <1>3, <1>4 DEF Next

\* The invariant holds in every reachable state, for any number of clients, any files
\* and any number of killed processes.
THEOREM Inductive == Spec => []IInv
<1>1. IInv /\ [Next]_vars => IInv'
  BY StepIInv
<1> QED BY InitIInv, <1>1, PTL DEF Spec

\* A client that ends normally after a response of status 200 has the whole file, in
\* order, unless a process was killed (http_client.c:155, https_server.c:114).
THEOREM Whole == Spec => []WholeUnlessKilled
<1>1. IInv => WholeUnlessKilled
  <2> SUFFICES ASSUME IInv, NEW c \in Client, client[c] = "done", output[c] # Junk,
                      sent[c] # <<>>, sent[c][1] = 200, c \notin killed
               PROVE  output[c] = [k \in 1 .. file[c] |-> k]
    BY DEF WholeUnlessKilled
  <2> DEFINE n == Len(sent[c])
             out == SubSeq(sent[c], 2, n)
  <2>1. sent[c] \in Seq(Unit) /\ n \in Nat
    BY DEF IInv, TypeOK
  <2>2. output[c] = out /\ Closed(c)
    BY DEF IInv, Outputs, Output
  <2>3. child[c] # "send"
    BY <2>2 DEF IInv, Descriptors, Closed
  <2>4. /\ file[c] \in Nat /\ n - 1 = file[c]
        /\ \A k \in 2 .. n : sent[c][k] = k - 1
    BY <2>3 DEF IInv, Responses, Response
  <2>5. n \in Nat \ {0}
    BY <2>1, <2>4
  <2>6. out = [k \in 1 .. n - 1 |-> sent[c][k + 1]]
    BY <2>1, <2>5
  <2>7. \A k \in 1 .. n - 1 : sent[c][k + 1] = k
    BY <2>4, <2>5
  <2> QED BY ZenonT(60), <2>2, <2>4, <2>6, <2>7
<1> QED BY <1>1, Inductive, PTL

\* Output never holds anything that was not in the file, but when there was no response
\* at all or a TLS connection was reset: no client takes a close notification for data,
\* because the server closes the socket before it would send one.
THEOREM NoInvention == Spec => []NothingInvented
<1>1. IInv => NothingInvented
  BY ContentsAssumption, JunkIsNoFile DEF IInv, TypeOK, Outputs, Output, NothingInvented
<1> QED BY <1>1, Inductive, PTL

=============================================================================
