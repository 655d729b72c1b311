-------------------------- MODULE NeighborMonitor --------------------------
(***************************************************************************)
(* CS438/MP2: how a router decides whether one neighbour is there, in time *)
(* (monitor_neighbors.c). The listening thread takes note of when it last  *)
(* heard from the neighbour and puts the link into the adjacency array;    *)
(* the thread checkNeighbor takes it out when that is too long ago. They   *)
(* share the entry of the link and the time of the last heartbeat without  *)
(* a lock: each access is a step. Module Flooding, where time is left out, *)
(* has the link taken out only when the wire is down.                      *)
(*                                                                         *)
(* Time is counted in ticks of about 300 ms and kept modulo Wrap, which    *)
(* stands for the 2^32 microseconds (71 minutes) of an unsigned int: no    *)
(* difference larger than that can be told from a smaller one. A round of  *)
(* work of a thread takes Lag ticks at most, scheduling included.          *)
(***************************************************************************)
EXTENDS Naturals

CONSTANTS Beat,      \* between two heartbeats of the neighbour (300 ms)
          Pause,     \* between two rounds of checkNeighbor (500 ms)
          HEARTBEAT_TIMEOUT,  \* 1 s
          Second,    \* a timeval counts seconds and the rest
          Wrap,      \* 2^32 microseconds
          Lag,       \* bound: of the time a round of work takes
          Capacity   \* the heartbeats the queue of the socket holds

ASSUME TimeAssumption ==
  /\ {Beat, Pause, HEARTBEAT_TIMEOUT, Second, Capacity} \subseteq Nat \ {0}
  /\ Lag \in Nat /\ Wrap \in Nat /\ Wrap % Second = 0
  /\ Beat + 2 * Lag <= HEARTBEAT_TIMEOUT
  /\ HEARTBEAT_TIMEOUT + Pause + 3 * Lag < Wrap

VARIABLES
  clock,      \* gettimeofday
  up,         \* the wire carries packets, and the neighbour runs
  sinceBeat,  \* ticks since the neighbour sent a heartbeat
  inbox,      \* heartbeats in the queue of the socket
  linked,     \* isConnected(globalMyID, neighbour)
  last,       \* globalLastHeartbeat[neighbour], [sec, usec]
  hearing, stamp, hearingFor,   \* the listening thread, the time it has got from
                                \* the clock, and how long its work is pending
  checking, current, before, checkingFor,  \* checkNeighbor, in the same way, and
                                           \* what it has read of last
  sinceCheck, \* ticks since its last round
  silent,     \* history: ticks since the last heartbeat was received
  overtaken,  \* history: last was written since checkNeighbor asked for the time
  revived     \* history: the link was put back by another message than a heartbeat

listener == <<hearing, stamp, hearingFor>>
checker == <<checking, current, before, checkingFor, sinceCheck>>
history == <<silent, overtaken, revived>>
vars == <<clock, up, sinceBeat, inbox, linked, last, listener, checker, history>>

\* When a link whose neighbour has gone silent is out again, at the latest.
Deadline == HEARTBEAT_TIMEOUT + Pause + 3 * Lag

Time == 0 .. Wrap - 1
Seconds(t) == t \div Second
Micros(t) == t % Second
Timevals == [sec : 0 .. (Wrap \div Second) - 1, usec : 0 .. Second - 1]
Timeval(t) == [sec |-> Seconds(t), usec |-> Micros(t)]
Microseconds(v) == v.sec * Second + v.usec

TypeOK ==
  /\ clock \in Time /\ stamp \in Time /\ current \in Time
  /\ up \in BOOLEAN /\ linked \in BOOLEAN /\ overtaken \in BOOLEAN /\ revived \in BOOLEAN
  /\ last \in Timevals /\ before \in Timevals
  /\ sinceBeat \in 0 .. Beat /\ sinceCheck \in 0 .. Pause /\ inbox \in 0 .. Capacity
  /\ hearing \in {"recv", "set", "time", "sec", "usec", "cost"}
  /\ checking \in {"sleep", "test", "time", "sec", "usec", "drop"}
  /\ hearingFor \in 0 .. Lag /\ checkingFor \in 0 .. Lag
  /\ silent \in 0 .. Deadline + 1

\* main: every node is taken to have been heard just now, and no link is there.
Init ==
  /\ clock = 0 /\ up \in BOOLEAN /\ sinceBeat = 0 /\ inbox = 0
  /\ linked = FALSE /\ last = Timeval(0)
  /\ hearing = "recv" /\ stamp = 0 /\ hearingFor = 0
  /\ checking = "sleep" /\ current = 0 /\ before = Timeval(0)
  /\ checkingFor = 0 /\ sinceCheck = Pause
  /\ silent = 0 /\ overtaken = FALSE /\ revived = FALSE

-----------------------------------------------------------------------------
(* Time, the neighbour and the wire *)

ListenerBusy == hearing # "recv" \/ inbox > 0
CheckerBusy == checking # "sleep" \/ sinceCheck = Pause

\* What is due is done first.
Tick ==
  /\ sinceBeat < Beat
  /\ ListenerBusy => hearingFor < Lag
  /\ CheckerBusy => checkingFor < Lag
  /\ clock' = (clock + 1) % Wrap
  /\ sinceBeat' = sinceBeat + 1
  /\ hearingFor' = IF ListenerBusy THEN hearingFor + 1 ELSE 0
  /\ checkingFor' = IF CheckerBusy THEN checkingFor + 1 ELSE 0
  /\ sinceCheck' = IF checking = "sleep" /\ sinceCheck < Pause THEN sinceCheck + 1
                   ELSE sinceCheck
  /\ silent' = IF silent <= Deadline THEN silent + 1 ELSE silent
  /\ UNCHANGED <<up, inbox, linked, last, hearing, stamp, checking, current, before,
                 overtaken, revived>>

\* hackyBroadcast of the neighbour
Heartbeat ==
  /\ sinceBeat = Beat /\ sinceBeat' = 0
  /\ inbox' = IF up /\ inbox < Capacity THEN inbox + 1 ELSE inbox
  /\ UNCHANGED <<clock, up, linked, last, listener, checker, history>>

Flap ==
  /\ up' = ~up
  /\ UNCHANGED <<clock, sinceBeat, inbox, linked, last, listener, checker, history>>

-----------------------------------------------------------------------------
(* listenForNeighbors *)

Recv ==
  /\ hearing = "recv" /\ inbox > 0
  /\ inbox' = inbox - 1 /\ silent' = 0
  /\ hearing' = IF linked THEN "time" ELSE "set"
  /\ UNCHANGED <<clock, up, sinceBeat, linked, last, stamp, hearingFor, checker,
                 overtaken, revived>>

\* Mutant: a link is put into the array once only.
SetLinkOnce ==
  /\ hearing = "set" /\ hearing' = "time"
  /\ linked' = (linked \/ last = Timeval(0))
  /\ UNCHANGED <<clock, up, sinceBeat, inbox, last, stamp, hearingFor, checker, history>>

SetLink ==
  /\ hearing = "set" /\ hearing' = "time"
  /\ linked' = TRUE
  /\ UNCHANGED <<clock, up, sinceBeat, inbox, last, stamp, hearingFor, checker, history>>

\* gettimeofday reads the clock and then writes the two fields.
ReadClock ==
  /\ hearing = "time" /\ hearing' = "sec"
  /\ stamp' = clock
  /\ UNCHANGED <<clock, up, sinceBeat, inbox, linked, last, hearingFor, checker, history>>

Overtakes == overtaken' = (overtaken \/ checking \in {"sec", "usec", "drop"})

RecordSeconds ==
  /\ hearing = "sec" /\ hearing' = "usec"
  /\ last' = [last EXCEPT !.sec = Seconds(stamp)]
  /\ Overtakes
  /\ UNCHANGED <<clock, up, sinceBeat, inbox, linked, stamp, hearingFor, checker,
                 silent, revived>>

\* Mutant: the second field is not written.
RecordNoMicros ==
  /\ hearing = "usec" /\ hearing' = "recv" /\ hearingFor' = 0
  /\ stamp' = 0 /\ Overtakes
  /\ revived' = FALSE
  /\ UNCHANGED <<clock, up, sinceBeat, inbox, linked, last, checker, silent>>

RecordMicros ==
  /\ hearing = "usec" /\ hearing' = "recv" /\ hearingFor' = 0
  /\ last' = [last EXCEPT !.usec = Micros(stamp)]
  /\ stamp' = 0 /\ Overtakes
  /\ revived' = FALSE
  /\ UNCHANGED <<clock, up, sinceBeat, inbox, linked, checker, silent>>

Write(value) ==
  /\ linked' = value
  /\ revived' = (value /\ (revived \/ ~linked))

\* A link-state packet of the neighbour that came by another router has the link
\* or has it not.
HearOfLink ==
  /\ hearing = "recv"
  /\ \E value \in BOOLEAN : Write(value)
  /\ UNCHANGED <<clock, up, sinceBeat, inbox, last, listener, checker, silent, overtaken>>

\* A cost message of the manager: isConnected, then setCost.
CostTest ==
  /\ hearing = "recv" /\ linked
  /\ hearing' = "cost"
  /\ UNCHANGED <<clock, up, sinceBeat, inbox, linked, last, stamp, hearingFor, checker,
                 history>>

CostSet ==
  /\ hearing = "cost" /\ hearing' = "recv" /\ hearingFor' = 0
  /\ Write(TRUE)
  /\ UNCHANGED <<clock, up, sinceBeat, inbox, last, stamp, checker, silent, overtaken>>

Listen == Recv \/ SetLink \/ ReadClock \/ RecordSeconds \/ RecordMicros \/ CostSet

-----------------------------------------------------------------------------
(* checkNeighbor *)

\* The round is over: nothing it has read is used again.
Sleep ==
  /\ checking' = "sleep" /\ sinceCheck' = 0 /\ checkingFor' = 0
  /\ current' = 0 /\ before' = Timeval(0) /\ overtaken' = FALSE

CheckLink ==
  /\ checking = "sleep" /\ sinceCheck = Pause
  /\ IF linked
     THEN /\ checking' = "time"
          /\ UNCHANGED <<current, before, checkingFor, sinceCheck, overtaken>>
     ELSE Sleep
  /\ UNCHANGED <<clock, up, sinceBeat, inbox, linked, last, listener, silent, revived>>

AskTime ==
  /\ checking = "time" /\ checking' = "sec"
  /\ current' = clock
  /\ UNCHANGED <<clock, up, sinceBeat, inbox, linked, last, listener, before,
                 checkingFor, sinceCheck, history>>

\* The struct is passed by value: its fields are read one after the other.
ReadSeconds ==
  /\ checking = "sec" /\ checking' = "usec"
  /\ before' = [before EXCEPT !.sec = last.sec]
  /\ UNCHANGED <<clock, up, sinceBeat, inbox, linked, last, listener, current,
                 checkingFor, sinceCheck, history>>

\* Mutant: the seconds are left out.
getTimeDiffMicros(after, v) == (Micros(after) + Second - v.usec) % Second

\* The difference as an unsigned int.
getTimeDiff(after, v) == (after + Wrap - Microseconds(v)) % Wrap

Compare ==
  /\ checking = "usec"
  /\ LET v == [before EXCEPT !.usec = last.usec]
     IN  IF getTimeDiff(current, v) > HEARTBEAT_TIMEOUT
         THEN /\ checking' = "drop" /\ before' = v
              /\ UNCHANGED <<current, checkingFor, sinceCheck, overtaken>>
         ELSE Sleep
  /\ UNCHANGED <<clock, up, sinceBeat, inbox, linked, last, listener, silent, revived>>

Drop ==
  /\ checking = "drop" /\ Sleep
  /\ Write(FALSE)
  /\ UNCHANGED <<clock, up, sinceBeat, inbox, last, listener, silent>>

Check == CheckLink \/ AskTime \/ ReadSeconds \/ Compare \/ Drop

-----------------------------------------------------------------------------
Next == Tick \/ Heartbeat \/ Flap \/ Listen \/ HearOfLink \/ CostTest \/ Check

Spec == Init /\ [][Next]_vars

\* Time passes, and the threads and the neighbour run.
FairSpec == /\ Spec
            /\ WF_vars(Tick) /\ WF_vars(Heartbeat) /\ WF_vars(Listen) /\ WF_vars(Check)

-----------------------------------------------------------------------------
(* Properties *)

\* checkNeighbor takes out a neighbour it has heard within the timeout only when
\* the listening thread was at work with a heartbeat meanwhile: between setCost and
\* gettimeofday (monitor_neighbors.c:214), or between the two reads of the time
\* (monitor_neighbors.c:136), where the difference is negative and unsigned.
DropExplained ==
  [][checking = "drop" /\ linked /\ ~linked' =>
       silent > HEARTBEAT_TIMEOUT \/ overtaken \/ hearing \in {"time", "sec", "usec"}]_vars

\* The link of a neighbour that is not heard any more is out within a timeout and a
\* round of checkNeighbor, or another message has put it back.
NoticedInTime == linked => silent <= Deadline \/ revived

\* A link that was taken out by mistake comes back, unless the wire fails.
DropHeals == up /\ ~linked ~> linked \/ ~up
=============================================================================
