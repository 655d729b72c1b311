---------------------------- MODULE FileTransfer ----------------------------
(***************************************************************************)
(* CS438/MP1: http_client.c fetches a file from http_server.c, or through  *)
(* connect_tls.c from https_server.c. The parent process of a server       *)
(* accepts connections and forks a child for each; the child reads one     *)
(* request, sends the file block by block and ends, which ends the         *)
(* response, for there is no length in it. The client stores the response  *)
(* in the file tmp until the stream ends and then cuts off the header.     *)
(* Each client runs in a directory of its own: tmp and output are its own. *)
(*                                                                         *)
(* A response is a sequence of units: the status line and the blocks of    *)
(* the file. A socket holds Window of them at most, and recv returns any   *)
(* part of what has arrived. Processes may be killed, calls may fail, and  *)
(* a connection is reset when its end is closed before all was read.       *)
(***************************************************************************)
EXTENDS Naturals, Sequences, SequencesExt, FiniteSets

CONSTANTS Client,
          Sizes,      \* bound: the lengths of the files, in blocks of DATALEN
          BACKLOG,    \* the connections that can wait to be accepted
          Window,     \* the units a connection holds
          Missing,    \* there is no such file
          Old,        \* output as it was before
          Junk,       \* whatever lay behind a buffer
          MaxKills    \* bound: the clients and children that are killed

ASSUME BoundsAssumption ==
  /\ Sizes \subseteq 0 .. 199 /\ MaxKills \in Nat
  /\ BACKLOG \in Nat \ {0} /\ Window \in Nat \ {0, 1}

ASSUME ContentsAssumption ==
  Missing \notin Nat /\ Old # Junk /\ Junk \notin Seq(Nat)

VARIABLES
  tls,      \* https_server and connect_tls.c are used
  file,     \* what each client asks for: the blocks of the file, or Missing
  client,   \* where each client is
  stored,   \* how many units of the response are in tmp
  junk,     \* clients whose tmp has more in it than the response
  output,   \* the file output of each client
  backlog, parent, current,  \* the accept loop and the connection it is with
  sigchld,  \* SIGCHLD is pending
  child,    \* where the child for each client is
  turn,     \* of the TLS handshake: the messages exchanged
  request,  \* whether the request was sent, and read whole or in part
  sent,     \* the response
  fds,      \* the processes that have the server's end of a connection open
  rst,      \* connections that were reset
  notified, \* clients that were sent a close notification
  killed    \* history: clients that were killed, or whose child was

clientVars == <<client, stored, junk, output>>
parentVars == <<backlog, parent, current, sigchld>>
childVars == <<child, sent, killed>>
connVars == <<turn, request, fds, rst, notified>>
vars == <<tls, file, clientVars, parentVars, childVars, connVars>>

NoClient == "none"
Block == 1 .. 199
Unit == {200, 400, 404} \cup Block
Ended == {"done", "failed", "crashed"}
Running == {"handshake", "recv", "refuse", "open", "send", "shutdown"}

Init ==
  /\ tls \in BOOLEAN
  /\ file \in [Client -> {Missing} \cup Sizes]
  /\ client = [c \in Client |-> "start"] /\ stored = [c \in Client |-> 0]
  /\ junk = {} /\ output = [c \in Client |-> Old]
  /\ backlog = <<>> /\ parent = "accept" /\ current = NoClient /\ sigchld = FALSE
  /\ child = [c \in Client |-> "none"]
  /\ sent = [c \in Client |-> <<>>]
  /\ turn = [c \in Client |-> 0] /\ request = [c \in Client |-> "none"]
  /\ fds = [c \in Client |-> {}]
  /\ rst = {} /\ notified = {} /\ killed = {}

TypeOK ==
  /\ tls \in BOOLEAN /\ file \in [Client -> {Missing} \cup Sizes]
  /\ client \in [Client -> {"start", "handshake", "request", "receive", "output"}
                           \cup Ended]
  /\ sent \in [Client -> Seq(Unit)]
  /\ stored \in [Client -> Nat] /\ \A c \in Client : stored[c] <= Len(sent[c])
  /\ output \in [Client -> {Old, Junk} \cup Seq(Block)]
  /\ backlog \in Seq(Client) /\ Len(backlog) <= BACKLOG
  /\ parent \in {"accept", "fork", "close"} /\ current \in Client \cup {NoClient}
  /\ child \in [Client -> Running \cup {"none", "zombie", "reaped"}]
  /\ turn \in [Client -> 0 .. 4]
  /\ request \in [Client -> {"none", "sent", "cut", "read"}]
  /\ fds \in [Client -> SUBSET {"parent", "child"}]
  /\ junk \subseteq Client /\ rst \subseteq Client
  /\ notified \subseteq Client /\ killed \subseteq Client
  /\ sigchld \in BOOLEAN

-----------------------------------------------------------------------------
(* The connection *)

Gone(c) == client[c] \in Ended
Waiting(c) == stored[c] < Len(sent[c])

\* The server has no more to do with the connection.
Closed(c) == client[c] # "start" /\ fds[c] = {} /\ c \notin Range(backlog)

\* close() by one process: with the last one the connection ends, and it is reset
\* when the request, or part of it, was not read.
Close(c, process) ==
  /\ fds' = [fds EXCEPT ![c] = @ \ {process}]
  /\ rst' = IF fds[c] = {process} /\ request[c] \in {"sent", "cut"}
            THEN rst \cup {c} ELSE rst

-----------------------------------------------------------------------------
(* http_client.c and its side of connect_tls.c *)

At(c, from, to) == client[c] = from /\ client' = [client EXCEPT ![c] = to]

Connect(c) ==
  /\ At(c, "start", IF tls THEN "handshake" ELSE "request")
  /\ Len(backlog) < BACKLOG
  /\ backlog' = Append(backlog, c)
  /\ UNCHANGED <<tls, file, stored, junk, output, parent, current, sigchld,
                 childVars, connVars>>

\* Without a session, sendTLS follows a null pointer.
ConnectFails(c) ==
  /\ At(c, "start", IF tls THEN "crashed" ELSE "failed")
  /\ UNCHANGED <<tls, file, stored, junk, output, parentVars, childVars, connVars>>

\* ssl_handshake: each end waits for the other one; the client has turns 0 and 2.
ConnectTLS(c) ==
  /\ turn[c] \in {0, 2, 4}
  /\ \/ /\ turn[c] = 4
        /\ At(c, "handshake", "request")
        /\ UNCHANGED turn
     \/ /\ turn[c] # 4 /\ client[c] = "handshake"
        /\ turn' = [turn EXCEPT ![c] = @ + 1]
        /\ UNCHANGED client
  /\ UNCHANGED <<tls, file, stored, junk, output, parentVars, childVars, request,
                 fds, rst, notified>>

\* A failed handshake, or a certificate that is not good: connectTLS returns 0.
ConnectTLSFails(c) ==
  /\ At(c, "handshake", "crashed")
  /\ turn[c] = 2 \/ Closed(c)
  /\ UNCHANGED <<tls, file, stored, junk, output, parentVars, childVars, connVars>>

\* What comes after the server's end was closed resets the connection.
SendRequest(c) ==
  /\ At(c, "request", "receive")
  /\ request' = [request EXCEPT ![c] = "sent"]
  /\ rst' = IF Closed(c) THEN rst \cup {c} ELSE rst
  /\ UNCHANGED <<tls, file, stored, junk, output, parentVars, childVars, turn, fds,
                 notified>>

Receive(c) ==
  /\ client[c] = "receive" /\ Waiting(c)
  /\ \E k \in 1 .. Len(sent[c]) - stored[c] : stored' = [stored EXCEPT ![c] = @ + k]
  /\ UNCHANGED <<tls, file, client, junk, output, parentVars, childVars, connVars>>

\* Mutant: a pause is taken for the end.
ReceiveEndEarly(c) ==
  /\ At(c, "receive", "output")
  /\ ~Waiting(c) /\ c \notin notified /\ (Closed(c) \/ stored[c] > 0)
  /\ UNCHANGED <<tls, file, stored, junk, output, parentVars, childVars, connVars>>

\* recv and recvTLS return 0.
ReceiveEnd(c) ==
  /\ At(c, "receive", "output")
  /\ Closed(c) /\ ~Waiting(c) /\ c \notin notified
  /\ UNCHANGED <<tls, file, stored, junk, output, parentVars, childVars, connVars>>

\* recv returns -1, or recvTLS another negative number, which is taken for the
\* length of what was received: the client crashes or stores what it finds.
ReceiveFails(c) ==
  /\ c \in rst \/ (c \in notified /\ ~Waiting(c))
  /\ \/ At(c, "receive", IF tls THEN "crashed" ELSE "failed") /\ UNCHANGED junk
     \/ tls /\ At(c, "receive", "output") /\ junk' = junk \cup {c}
  /\ UNCHANGED <<tls, file, stored, output, parentVars, childVars, connVars>>

\* The header is looked for in what fread left in buf: without any response that
\* is the request or nothing, and the length comes out negative.
WriteOutput(c) ==
  /\ \/ /\ stored[c] > 0 \/ c \in junk
        /\ At(c, "output", "done")
        /\ output' = [output EXCEPT ![c] =
                        IF c \in junk THEN Junk ELSE SubSeq(sent[c], 2, stored[c])]
     \/ /\ stored[c] = 0
        /\ \/ At(c, "output", "crashed") /\ UNCHANGED output
           \/ At(c, "output", "done") /\ output' = [output EXCEPT ![c] = Junk]
  /\ UNCHANGED <<tls, file, stored, junk, parentVars, childVars, connVars>>

\* The user interrupts the client.
Interrupt(c) ==
  /\ client[c] \in {"handshake", "request", "receive", "output"}
  /\ Cardinality(killed) < MaxKills
  /\ killed' = killed \cup {c}
  /\ client' = [client EXCEPT ![c] = "failed"]
  /\ UNCHANGED <<tls, file, stored, junk, output, parentVars, child, sent, connVars>>

ClientStep(c) == ConnectTLS(c) \/ ConnectTLSFails(c) \/ SendRequest(c) \/ Receive(c)
                 \/ ReceiveEnd(c) \/ ReceiveFails(c) \/ WriteOutput(c)

-----------------------------------------------------------------------------
(* The parent process of http_server.c and https_server.c *)

Accept ==
  /\ parent = "accept" /\ backlog # <<>>
  /\ current' = Head(backlog) /\ backlog' = Tail(backlog)
  /\ fds' = [fds EXCEPT ![Head(backlog)] = {"parent"}]
  /\ parent' = "fork"
  /\ UNCHANGED <<tls, file, clientVars, sigchld, childVars, turn, request, rst, notified>>

\* fork() may fail: -1 is not 0 either, and the parent goes on.
Fork ==
  /\ parent = "fork" /\ parent' = "close"
  /\ \/ /\ child' = [child EXCEPT ![current] = IF tls THEN "handshake" ELSE "recv"]
        /\ fds' = [fds EXCEPT ![current] = @ \cup {"child"}]
     \/ UNCHANGED <<child, fds>>
  /\ UNCHANGED <<tls, file, clientVars, backlog, current, sigchld, sent, killed,
                 turn, request, rst, notified>>

\* Mutant: the parent keeps its descriptor.
CloseAcceptedForgotten ==
  /\ parent = "close" /\ parent' = "accept"
  /\ current' = NoClient
  /\ UNCHANGED <<tls, file, clientVars, backlog, sigchld, childVars, connVars>>

CloseAccepted ==
  /\ parent = "close" /\ parent' = "accept"
  /\ current' = NoClient
  /\ UNCHANGED request /\ Close(current, "parent")
  /\ UNCHANGED <<tls, file, clientVars, backlog, sigchld, childVars, turn, notified>>

\* Mutant: one call of waitpid for each signal.
SigchldHandlerOnce ==
  /\ ~tls /\ sigchld /\ sigchld' = FALSE
  /\ \E c \in Client : child[c] = "zombie" /\ child' = [child EXCEPT ![c] = "reaped"]
  /\ UNCHANGED <<tls, file, clientVars, backlog, parent, current, sent, killed, connVars>>

\* A signal stands for all the children that have ended meanwhile. https_server
\* has no handler.
SigchldHandler ==
  /\ ~tls /\ sigchld /\ sigchld' = FALSE
  /\ child' = [c \in Client |-> IF child[c] = "zombie" THEN "reaped" ELSE child[c]]
  /\ UNCHANGED <<tls, file, clientVars, backlog, parent, current, sent, killed, connVars>>

-----------------------------------------------------------------------------
(* A child *)

\* exit(), a crash or a signal
Exit(c) ==
  /\ child' = [child EXCEPT ![c] = "zombie"]
  /\ sigchld' = TRUE
  /\ Close(c, "child")

Respond(c, units) == sent' = [sent EXCEPT ![c] = @ \o units]
Room(c) == Len(sent[c]) - stored[c] < Window \/ Gone(c)

ChildOnly == <<tls, file, clientVars, backlog, parent, current, notified>>

\* The turns 1 and 3 of ssl_handshake. Without a session, recvTLS follows a null
\* pointer.
AcceptTLS(c) ==
  /\ child[c] = "handshake"
  /\ \/ /\ turn[c] \in {1, 3} /\ turn' = [turn EXCEPT ![c] = @ + 1]
        /\ child' = [child EXCEPT ![c] = IF turn[c] = 3 THEN "recv" ELSE @]
        /\ UNCHANGED <<sigchld, fds, rst>>
     \/ /\ turn[c] \in {1, 3} \/ Gone(c)
        /\ UNCHANGED turn /\ Exit(c)
  /\ UNCHANGED <<ChildOnly, sent, killed, request>>

\* One recv: without TLS it may return part of the request, which is refused, or,
\* when it ends before the version, makes the child follow a null pointer.
RecvRequest(c) ==
  /\ child[c] = "recv"
  /\ \/ /\ request[c] = "sent"
        /\ request' = [request EXCEPT ![c] = "read"]
        /\ child' = [child EXCEPT ![c] = "open"]
        /\ UNCHANGED <<sigchld, fds, rst>>
     \/ /\ request[c] = "sent" /\ ~tls
        /\ request' = [request EXCEPT ![c] = "cut"]
        /\ \/ Exit(c)
           \/ child' = [child EXCEPT ![c] = "refuse"] /\ UNCHANGED <<sigchld, fds, rst>>
     \/ /\ request[c] = "none" /\ Gone(c)
        /\ child' = [child EXCEPT ![c] = "refuse"]
        /\ UNCHANGED <<request, sigchld, fds, rst>>
  /\ UNCHANGED <<ChildOnly, sent, killed, turn>>

BadRequest(c) ==
  /\ child[c] = "refuse"
  /\ Respond(c, <<400>>)
  /\ UNCHANGED request /\ Exit(c)
  /\ UNCHANGED <<ChildOnly, killed, turn>>

\* The status line goes out with the first block, if there is one.
OpenFile(c) ==
  /\ child[c] = "open"
  /\ IF file[c] = Missing
     THEN /\ Respond(c, <<404>>)
          /\ UNCHANGED request /\ Exit(c)
     ELSE /\ Respond(c, IF file[c] = 0 THEN <<>> ELSE <<200, 1>>)
          /\ child' = [child EXCEPT ![c] = "send"]
          /\ UNCHANGED <<request, sigchld, fds, rst>>
  /\ UNCHANGED <<ChildOnly, killed, turn>>

BlocksSent(c) == IF sent[c] = <<>> THEN 0 ELSE Len(sent[c]) - 1

SendBlock(c) ==
  /\ child[c] = "send" /\ BlocksSent(c) < file[c] /\ Room(c)
  /\ Respond(c, <<BlocksSent(c) + 1>>)
  /\ UNCHANGED <<ChildOnly, child, killed, sigchld, turn, request, fds, rst>>

\* The client has gone: send fails, and its error ends the child; those of
\* sendTLS are not noticed.
SendFails(c) ==
  /\ child[c] = "send" /\ BlocksSent(c) < file[c] /\ Gone(c) /\ ~tls
  /\ UNCHANGED request /\ Exit(c)
  /\ UNCHANGED <<ChildOnly, sent, killed, turn>>

\* Mutant: the socket is left to shutdownTLS.
FinishOpen(c) ==
  /\ child[c] = "send" /\ BlocksSent(c) = file[c]
  /\ UNCHANGED request
  /\ IF tls
     THEN /\ child' = [child EXCEPT ![c] = "shutdown"]
          /\ UNCHANGED <<sigchld, fds, rst>>
     ELSE Exit(c)
  /\ UNCHANGED <<ChildOnly, sent, killed, turn>>

\* close(new_fd)
Finish(c) ==
  /\ child[c] = "send" /\ BlocksSent(c) = file[c]
  /\ UNCHANGED request
  /\ IF tls
     THEN /\ child' = [child EXCEPT ![c] = "shutdown"]
          /\ Close(c, "child")
          /\ UNCHANGED sigchld
     ELSE Exit(c)
  /\ UNCHANGED <<ChildOnly, sent, killed, turn>>

\* ssl_close_notify writes to the socket, if it is open still.
ShutdownTLS(c) ==
  /\ child[c] = "shutdown"
  /\ notified' = IF "child" \in fds[c] THEN notified \cup {c} ELSE notified
  /\ UNCHANGED request /\ Exit(c)
  /\ UNCHANGED <<tls, file, clientVars, backlog, parent, current, sent, killed, turn>>

Kill(c) ==
  /\ child[c] \in Running /\ Cardinality(killed) < MaxKills
  /\ killed' = killed \cup {c}
  /\ UNCHANGED request /\ Exit(c)
  /\ UNCHANGED <<ChildOnly, sent, turn>>

ChildStep(c) == AcceptTLS(c) \/ RecvRequest(c) \/ BadRequest(c) \/ OpenFile(c)
                \/ SendBlock(c) \/ SendFails(c) \/ Finish(c) \/ ShutdownTLS(c)

-----------------------------------------------------------------------------
Next ==
  \/ \E c \in Client : \/ Connect(c) \/ ConnectFails(c) \/ ClientStep(c)
                       \/ ChildStep(c) \/ Interrupt(c) \/ Kill(c)
  \/ Accept \/ Fork \/ CloseAccepted \/ SigchldHandler

Spec == Init /\ [][Next]_vars

\* The processes run on; nobody has to start a client or to kill a process.
Fairness ==
  /\ \A c \in Client : WF_vars(ClientStep(c)) /\ WF_vars(ChildStep(c))
  /\ WF_vars(Accept \/ Fork \/ CloseAccepted) /\ WF_vars(SigchldHandler)

FairSpec == Spec /\ Fairness

-----------------------------------------------------------------------------
(* Properties. *)

\* unit_test.sh:61 compares the file with what the client has written: a client
\* that ends normally after a response of status 200 has all of the file, in
\* order, however the stream was cut into pieces, unless the child was killed.
\* (Without a length in the response the client cannot tell.)
WholeUnlessKilled ==
  \A c \in Client :
    client[c] = "done" /\ output[c] # Junk /\ sent[c] # <<>> /\ sent[c][1] = 200 =>
      c \in killed \/ output[c] = [k \in 1 .. file[c] |-> k]

\* Output never holds anything that was not in the file, unless there was no
\* response at all (the file is empty, or no child answered: http_client.c:204), or
\* a TLS connection was reset (http_client.c:164). That the two ends agree on how
\* the stream ends takes the order of https_server.c:114.
NothingInvented ==
  \A c \in Client : output[c] = Junk => sent[c] = <<>> \/ (tls /\ c \in rst)

\* Once connected, both the client and its child come to an end, whichever of them
\* fails: neither waits for the other, or for the parent, for ever.
BothEnd ==
  \A c \in Client : client[c] # "start" ~> Gone(c) /\ child[c] \notin Running

\* http_server.c:84 "reap all dead processes": although signals are merged.
AllReaped == \A c \in Client : ~tls /\ child[c] = "zombie" ~> child[c] = "reaped"
=============================================================================
