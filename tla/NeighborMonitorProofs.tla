----------------------- MODULE NeighborMonitorProofs -----------------------
(***************************************************************************)
(* That a silent neighbour is noticed in time, and that a link is taken    *)
(* out for a reason, for any periods, any lag and wherever the clock wraps *)
(* around.                                                                 *)
(***************************************************************************)
EXTENDS NeighborMonitor, Integers, TLAPS

\* The ticks from a time to another one, as far as the clock tells.
Gap(t, now) == (now + Wrap - t) % Wrap

Age == Gap(Microseconds(last), clock)

\* No work is pending on a message other than a cost message.
Heard == hearing \in {"recv", "cost"}

-----------------------------------------------------------------------------
(* The inductive invariant. *)

\* The listening thread is done with a heartbeat within Lag, and the time that it
\* leaves behind is one of the moments it took.
Listening ==
  /\ ~Heard => silent <= hearingFor
  /\ hearing = "set" => ~linked
  /\ hearing \in {"sec", "usec"} => Gap(stamp, clock) <= silent
  /\ hearing = "usec" => last.sec = Seconds(stamp)
  /\ Heard /\ silent <= Deadline => Age <= silent /\ silent <= Age + Lag

\* A round of checkNeighbor uses a time at most Lag old, and the time of a heartbeat
\* before that, unless it was overtaken by another heartbeat.
Checking ==
  /\ checkingFor # 0 => CheckerBusy
  /\ checking # "sleep" => sinceCheck = Pause
  /\ checking \in {"sec", "usec", "drop"} => Gap(current, clock) <= checkingFor
  /\ overtaken => checking \in {"sec", "usec", "drop"} /\ silent <= Lag + checkingFor
  /\ checking \in {"sec", "usec"} /\ ~overtaken /\ Heard /\ silent <= Deadline =>
       Gap(current, clock) <= Age
  /\ checking = "usec" /\ ~overtaken => before.sec = last.sec
  /\ checking = "drop" => silent > HEARTBEAT_TIMEOUT \/ overtaken \/ ~Heard

\* A link that no other message put back has been looked at in the last round, or
\* was heard since.
Noticing ==
  linked /\ ~revived =>
    silent <= HEARTBEAT_TIMEOUT + 2 * Lag + sinceCheck + checkingFor

IInv == TypeOK /\ Listening /\ Checking /\ Noticing

-----------------------------------------------------------------------------
(* Arithmetic of the clock. *)

\* The constants are numbers (main.h and the defines of monitor_neighbors.c).
LEMMA Numbers ==
  /\ Beat \in Nat \ {0} /\ Pause \in Nat \ {0} /\ HEARTBEAT_TIMEOUT \in Nat \ {0}
  /\ Second \in Nat \ {0} /\ Capacity \in Nat \ {0}
  /\ Lag \in Nat /\ Wrap \in Nat \ {0}
  /\ Deadline = HEARTBEAT_TIMEOUT + Pause + 3 * Lag /\ Deadline < Wrap /\ Deadline \in Nat
BY TimeAssumption DEF Deadline

\* What lies within one turn of the clock, or in the next.
LEMMA Turn ==
  ASSUME NEW w \in Nat \ {0}, NEW x \in 0 .. w - 1
  PROVE  x % w = x /\ (x + w) % w = x
OBVIOUS

\* The seconds of a time, and the rest.
LEMMA DivideTime ==
  ASSUME NEW t \in Time
  PROVE  \E q \in 0 .. (Wrap \div Second) - 1, r \in 0 .. Second - 1 :
           q = Seconds(t) /\ r = Micros(t) /\ t = q * Second + r
<1>1. /\ Wrap \in Nat \ {0} /\ Second \in Nat \ {0} /\ Wrap % Second = 0 /\ t \in 0 .. Wrap - 1
  BY Numbers, TimeAssumption DEF Time
<1>2. PICK q \in Nat, r \in 0 .. Second - 1 :
             q = t \div Second /\ r = t % Second /\ t = q * Second + r
  BY <1>1
<1>3. PICK m \in Nat : m = Wrap \div Second /\ Wrap = Second * m
  BY <1>1
<1>4. q <= m - 1
  BY <1>1, <1>2, <1>3
<1> QED BY <1>2, <1>3, <1>4 DEF Seconds, Micros

\* Splitting a time into seconds and the rest loses nothing.
LEMMA SplitTime ==
  ASSUME NEW t \in Time
  PROVE  /\ Seconds(t) \in 0 .. (Wrap \div Second) - 1 /\ Micros(t) \in 0 .. Second - 1
         /\ Seconds(t) * Second + Micros(t) = t
BY DivideTime

\* and putting it together again stays within a turn.
LEMMA JoinTime ==
  ASSUME NEW v \in Timevals
  PROVE  Microseconds(v) \in Time
<1>1. Wrap \in Nat \ {0} /\ Second \in Nat \ {0} /\ Wrap % Second = 0
  BY Numbers, TimeAssumption
<1> DEFINE m == Wrap \div Second
           s == v.sec
           u == v.usec
<1>2. m \in Int /\ Wrap = Second * m
  BY <1>1
<1>3. s \in Int /\ 0 <= s /\ s <= m - 1 /\ u \in 0 .. Second - 1
  BY DEF Timevals
<1> HIDE DEF m, s, u
<1>4. s * Second <= (m - 1) * Second /\ 0 <= s * Second
  BY <1>1, <1>2, <1>3
<1>5. s * Second + u \in 0 .. Wrap - 1
  BY <1>1, <1>2, <1>3, <1>4
<1> QED BY <1>5 DEF Microseconds, Time, s, u

\* The difference of two times, across the end of a turn or not.
LEMMA GapValue ==
  ASSUME NEW t \in Time, NEW now \in Time
  PROVE  /\ Gap(t, now) \in Time /\ Gap(t, t) = 0
         /\ Gap(t, now) = IF t <= now THEN now - t ELSE now + Wrap - t
<1>1. Wrap \in Nat \ {0} /\ t \in 0 .. Wrap - 1 /\ now \in 0 .. Wrap - 1
  BY Numbers DEF Time
<1>2. (t + Wrap - t) % Wrap = 0
  <2>1. t + Wrap - t = 0 + Wrap /\ 0 \in 0 .. Wrap - 1
    BY <1>1
  <2> QED BY <1>1, <2>1, Turn
<1>3. CASE t <= now
  <2>1. now + Wrap - t = (now - t) + Wrap /\ now - t \in 0 .. Wrap - 1
    BY <1>1, <1>3
  <2>2. (now + Wrap - t) % Wrap = now - t
    BY <1>1, <2>1, Turn
  <2> QED BY <1>2, <1>3, <2>1, <2>2 DEF Gap, Time
<1>4. CASE ~(t <= now)
  <2>1. now + Wrap - t \in 0 .. Wrap - 1
    BY <1>1, <1>4
  <2>2. (now + Wrap - t) % Wrap = now + Wrap - t
    BY <1>1, <2>1, Turn
  <2> QED BY <1>2, <1>4, <2>1, <2>2 DEF Gap, Time
<1> QED BY <1>3, <1>4

\* A tick makes it larger by one, unless a whole turn has gone by.
LEMMA GapTick ==
  ASSUME NEW t \in Time, NEW now \in Time
  PROVE  /\ (now + 1) % Wrap \in Time
         /\ Gap(t, now) + 1 < Wrap => Gap(t, (now + 1) % Wrap) = Gap(t, now) + 1
<1> DEFINE next == (now + 1) % Wrap
<1>1. Wrap \in Nat \ {0} /\ t \in 0 .. Wrap - 1 /\ now \in 0 .. Wrap - 1
  BY Numbers DEF Time
<1>2. next = IF now = Wrap - 1 THEN 0 ELSE now + 1
  <2>1. CASE now = Wrap - 1
    <3>1. now + 1 = 0 + Wrap /\ 0 \in 0 .. Wrap - 1
      BY <1>1, <2>1
    <3> QED BY <1>1, <2>1, <3>1, Turn
  <2>2. CASE now # Wrap - 1
    <3>1. now + 1 \in 0 .. Wrap - 1
      BY <1>1, <2>2
    <3> QED BY <1>1, <2>2, <3>1, Turn
  <2> QED BY <2>1, <2>2
<1> HIDE DEF next
<1>3. next \in Time
  BY <1>1, <1>2 DEF Time
<1>4. Gap(t, now) + 1 < Wrap => Gap(t, next) = Gap(t, now) + 1
  BY <1>1, <1>2, <1>3, GapValue
<1> QED BY <1>3, <1>4 DEF next

\* Two differences to the same time tell the difference between them.
LEMMA GapBetween ==
  ASSUME NEW t \in Time, NEW u \in Time, NEW now \in Time, Gap(u, now) <= Gap(t, now)
  PROVE  Gap(t, u) = Gap(t, now) - Gap(u, now)
<1>1. Wrap \in Nat \ {0} /\ t \in 0 .. Wrap - 1 /\ u \in 0 .. Wrap - 1 /\ now \in 0 .. Wrap - 1
  BY Numbers DEF Time
<1> QED BY <1>1, GapValue

-----------------------------------------------------------------------------
(* Type correctness. *)

\* Writing one field after the other.
LEMMA TimevalTypes ==
  ASSUME NEW t \in Time, NEW v \in Timevals, NEW w \in Timevals
  PROVE  /\ Timeval(t) \in Timevals
         /\ [v EXCEPT !.sec = Seconds(t)] \in Timevals
         /\ [v EXCEPT !.usec = Micros(t)] \in Timevals
         /\ [v EXCEPT !.sec = w.sec] \in Timevals
         /\ [v EXCEPT !.usec = w.usec] \in Timevals
BY SplitTime DEF Timeval, Timevals

\* Zero is a time, and so are its two fields (main, which sets all heartbeats to now).
LEMMA ZeroTime == 0 \in Time /\ Timeval(0) \in Timevals /\ 0 \in 0 .. Lag
<1>1. 0 \in Time /\ 0 \in 0 .. Lag
  BY Numbers DEF Time
<1> QED BY <1>1, TimevalTypes, SplitTime DEF Timeval, Timevals

\* The initial state is of the right types.
LEMMA InitTypes == Init => TypeOK
<1> SUFFICES ASSUME Init PROVE TypeOK
  OBVIOUS
<1>1. /\ sinceBeat \in 0 .. Beat /\ sinceCheck \in 0 .. Pause /\ inbox \in 0 .. Capacity
      /\ silent \in 0 .. Deadline + 1
  BY Numbers DEF Init
<1>2. linked \in BOOLEAN /\ overtaken \in BOOLEAN /\ revived \in BOOLEAN
  BY DEF Init
<1> QED BY <1>1, <1>2, ZeroTime DEF Init, TypeOK

\* and every step of the clock, the wire and the two threads keeps them.
LEMMA TypeStep == TypeOK /\ [Next]_vars => TypeOK'
<1> SUFFICES ASSUME TypeOK, [Next]_vars PROVE TypeOK'
  OBVIOUS
<1> USE Numbers DEF TypeOK, vars, listener, checker, history
<1>0. 0 \in Time /\ Timeval(0) \in Timevals /\ 0 \in 0 .. Lag /\ 0 \in 0 .. Pause
  BY ZeroTime
<1>1. CASE UNCHANGED vars
  BY <1>1
<1>2. CASE Tick
  <2>1. clock' \in Time
    BY <1>2, GapTick DEF Tick
  <2>2. hearingFor' \in 0 .. Lag /\ checkingFor' \in 0 .. Lag
    BY <1>2 DEF Tick, ListenerBusy, CheckerBusy
  <2>3. sinceBeat' \in 0 .. Beat /\ sinceCheck' \in 0 .. Pause /\ silent' \in 0 .. Deadline + 1
    BY <1>2 DEF Tick
  <2> QED BY <1>2, <2>1, <2>2, <2>3 DEF Tick
<1>3. CASE Heartbeat
  BY <1>3 DEF Heartbeat
<1>4. CASE Flap
  BY <1>4 DEF Flap
<1>5. CASE Recv
  BY <1>5 DEF Recv
<1>6. CASE SetLink \/ ReadClock
  BY <1>6 DEF SetLink, ReadClock
<1>7. CASE RecordSeconds
  <2>1. last' \in Timevals /\ overtaken' \in BOOLEAN
    BY <1>7, TimevalTypes DEF RecordSeconds, Overtakes
  <2> QED BY <1>7, <2>1 DEF RecordSeconds
<1>8. CASE RecordMicros
  <2>1. last' \in Timevals /\ overtaken' \in BOOLEAN /\ revived' \in BOOLEAN
    BY <1>8, TimevalTypes DEF RecordMicros, Overtakes
  <2> QED BY <1>8, <1>0, <2>1 DEF RecordMicros
<1>9. CASE HearOfLink \/ CostTest \/ CostSet
  <2>1. linked' \in BOOLEAN /\ revived' \in BOOLEAN
    BY <1>9 DEF HearOfLink, CostTest, CostSet, Write
  <2>2. hearingFor' \in 0 .. Lag
    BY <1>9, <1>0 DEF HearOfLink, CostTest, CostSet
  <2>3. hearing' \in {"recv", "set", "time", "sec", "usec", "cost"}
    BY <1>9 DEF HearOfLink, CostTest, CostSet
  <2> QED BY <1>9, <2>1, <2>2, <2>3 DEF HearOfLink, CostTest, CostSet
<1>10. CASE CheckLink
  BY <1>10, <1>0 DEF CheckLink, Sleep
<1>11. CASE AskTime
  BY <1>11 DEF AskTime
<1>12. CASE ReadSeconds
  <2>1. before' \in Timevals
    BY <1>12, TimevalTypes DEF ReadSeconds
  <2> QED BY <1>12, <2>1 DEF ReadSeconds
<1>13. CASE Compare
  <2>1. [before EXCEPT !.usec = last.usec] \in Timevals
    BY TimevalTypes
  <2> QED BY <1>13, <1>0, <2>1 DEF Compare, Sleep
<1>14. CASE Drop
  <2>1. linked' \in BOOLEAN /\ revived' \in BOOLEAN
    BY <1>14 DEF Drop, Write
  <2> QED BY <1>14, <1>0, <2>1 DEF Drop, Sleep
<1> QED BY <1>1, <1>2, <1>3, <1>4, <1>5, <1>6, <1>7, <1>8, <1>9, <1>10, <1>11, <1>12,
           <1>13, <1>14 DEF Next, Listen, Check

-----------------------------------------------------------------------------
(* The listening thread. *)

\* The time of the last heartbeat is a time, and so are its age and that of the
\* times the threads have read.
LEMMA Ages ==
  ASSUME TypeOK
  PROVE  /\ Microseconds(last) \in Time /\ Age \in Time
         /\ Gap(stamp, clock) \in Time /\ Gap(current, clock) \in Time
BY JoinTime, GapValue DEF TypeOK, Age

\* While time passes, the ages and the silence grow together.
LEMMA ListeningTick ==
  ASSUME TypeOK, Listening, Tick
  PROVE  Listening'
<1> USE Numbers DEF TypeOK
<1>1. Microseconds(last) \in Time
  BY Ages
<1>2. /\ clock' = (clock + 1) % Wrap /\ UNCHANGED <<last, stamp, hearing, linked>>
      /\ silent' = IF silent <= Deadline THEN silent + 1 ELSE silent
  BY DEF Tick
<1>3. ~Heard => hearingFor' = hearingFor + 1
  BY DEF Tick, ListenerBusy, Heard
<1>4. Age + 1 < Wrap => Age' = Age + 1
  BY <1>1, <1>2, GapTick DEF Age
<1>5. Gap(stamp, clock) + 1 < Wrap => Gap(stamp', clock') = Gap(stamp, clock) + 1
  BY <1>2, GapTick
<1>6. Age \in Time /\ Gap(stamp, clock) \in Time
  BY Ages
<1>7. ~Heard' => silent' <= hearingFor'
  BY <1>2, <1>3 DEF Listening, Heard
<1>8. hearing' \in {"sec", "usec"} => Gap(stamp', clock') <= silent'
  BY <1>2, <1>5, <1>6 DEF Listening, Heard, Time
<1>9. Heard' /\ silent' <= Deadline => Age' <= silent' /\ silent' <= Age' + Lag
  BY <1>2, <1>4, <1>6 DEF Listening, Heard, Time
<1> QED BY <1>2, <1>7, <1>8, <1>9 DEF Listening

\* No step of either thread breaks what is known of the listening thread.
LEMMA ListeningStep == TypeOK /\ Listening /\ [Next]_vars => Listening'
<1> SUFFICES ASSUME TypeOK, Listening, [Next]_vars PROVE Listening'
  OBVIOUS
<1> USE Numbers DEF vars, listener, checker, history
<1>1. CASE UNCHANGED vars \/ Heartbeat \/ Flap
  BY <1>1 DEF Heartbeat, Flap, Listening, Heard, Age
<1>2. CASE Tick
  BY <1>2, ListeningTick
<1>3. CASE Recv
  BY <1>3 DEF Recv, Listening, Heard, TypeOK
<1>4. CASE SetLink
  BY <1>4 DEF SetLink, Listening, Heard
<1>5. CASE ReadClock
  <2>1. Gap(stamp', clock') = 0
    BY <1>5, GapValue DEF ReadClock, TypeOK
  <2> QED BY <1>5, <2>1 DEF ReadClock, Listening, Heard, TypeOK
<1>6. CASE RecordSeconds
  <2>1. last'.sec = Seconds(stamp')
    BY <1>6 DEF RecordSeconds, TypeOK, Timevals
  <2> QED BY <1>6, <2>1 DEF RecordSeconds, Listening, Heard
<1>7. CASE RecordMicros
  <2>1. last'.sec = Seconds(stamp) /\ last'.usec = Micros(stamp)
    BY <1>7 DEF RecordMicros, Listening, TypeOK, Timevals
  <2>2. Microseconds(last') = stamp
    BY <2>1, SplitTime DEF Microseconds, TypeOK
  <2>3. Age' = Gap(stamp, clock) /\ silent' = silent /\ hearing' = "recv"
    BY <1>7, <2>2 DEF RecordMicros, Age
  <2>4. Gap(stamp, clock) <= silent /\ silent <= Lag
    BY <1>7 DEF RecordMicros, Listening, Heard, TypeOK
  <2>5. Gap(stamp, clock) \in Nat
    BY Ages DEF Time
  <2> QED BY <2>3, <2>4, <2>5 DEF Listening, Heard, TypeOK
<1>8. CASE HearOfLink \/ CostTest \/ CostSet
  BY <1>8 DEF HearOfLink, CostTest, CostSet, Listening, Heard, Age
<1>9. CASE Check
  <2>1. UNCHANGED <<clock, last, hearing, stamp, hearingFor, silent>>
    BY <1>9 DEF Check, CheckLink, AskTime, ReadSeconds, Compare, Drop
  <2>2. linked' => linked
    BY <1>9 DEF Check, CheckLink, AskTime, ReadSeconds, Compare, Drop, Write
  <2> QED BY <2>1, <2>2 DEF Listening, Heard, Age
<1> QED BY <1>1, <1>2, <1>3, <1>4, <1>5, <1>6, <1>7, <1>8, <1>9 DEF Next, Listen

-----------------------------------------------------------------------------
(* checkNeighbor. *)

\* While time passes, what checkNeighbor has read grows old as fast as the heartbeat.
LEMMA CheckingTick ==
  ASSUME TypeOK, Listening, Checking, Tick
  PROVE  Checking'
<1> USE Numbers DEF TypeOK
<1>1. Microseconds(last) \in Time /\ Age \in Time /\ Gap(current, clock) \in Time
  BY Ages
<1>2. /\ clock' = (clock + 1) % Wrap
      /\ UNCHANGED <<last, current, before, checking, hearing, overtaken>>
      /\ silent' = IF silent <= Deadline THEN silent + 1 ELSE silent
  BY DEF Tick
<1>3. /\ checkingFor' = IF CheckerBusy THEN checkingFor + 1 ELSE 0
      /\ checking # "sleep" => sinceCheck' = sinceCheck
      /\ CheckerBusy => checkingFor < Lag
      /\ CheckerBusy => CheckerBusy'
  BY DEF Tick, CheckerBusy
<1>4. Age + 1 < Wrap => Age' = Age + 1
  BY <1>1, <1>2, GapTick DEF Age
<1>5. Gap(current, clock) + 1 < Wrap => Gap(current', clock') = Gap(current, clock) + 1
  BY <1>2, GapTick
<1>6. CheckerBusy <=> (checking # "sleep" \/ sinceCheck = Pause)
  BY DEF CheckerBusy
<1>7. (checkingFor' # 0 => CheckerBusy') /\ (checking' # "sleep" => sinceCheck' = Pause)
  BY <1>2, <1>3 DEF Checking
<1>8. checking' \in {"sec", "usec", "drop"} => Gap(current', clock') <= checkingFor'
  BY <1>1, <1>2, <1>3, <1>5, <1>6 DEF Checking, Time
<1>9. overtaken' => checking' \in {"sec", "usec", "drop"} /\ silent' <= Lag + checkingFor'
  BY <1>2, <1>3, <1>6 DEF Checking
<1>10. ASSUME checking' \in {"sec", "usec"}, ~overtaken', Heard', silent' <= Deadline
       PROVE  Gap(current', clock') <= Age'
  <2>1. Gap(current, clock) <= Age /\ silent + 1 <= Deadline /\ Age <= silent
    BY <1>2, <1>10 DEF Checking, Listening, Heard
  <2> QED BY <2>1, <1>1, <1>4, <1>5 DEF Time
<1>11. checking' = "drop" => silent' > HEARTBEAT_TIMEOUT \/ overtaken' \/ ~Heard'
  BY <1>2 DEF Checking, Heard
<1>12. checking' = "usec" /\ ~overtaken' => before'.sec = last'.sec
  BY <1>2 DEF Checking
<1> QED BY <1>7, <1>8, <1>9, <1>10, <1>11, <1>12 DEF Checking

\* What checkNeighbor compares is how long ago the last heartbeat was when it asked
\* for the time, unless it was overtaken.
LEMMA Difference ==
  ASSUME TypeOK, Listening, Checking, checking = "usec", ~overtaken, Heard,
         silent <= Deadline
  PROVE  LET difference == getTimeDiff(current, [before EXCEPT !.usec = last.usec])
         IN  /\ difference \in Nat /\ difference <= silent
             /\ silent <= difference + 2 * Lag
<1> DEFINE v == [before EXCEPT !.usec = last.usec]
           difference == getTimeDiff(current, v)
<1>1. Microseconds(last) \in Time /\ Age \in Time /\ Gap(current, clock) \in Time
  BY Ages
<1>2. v.sec = last.sec /\ v.usec = last.usec
  BY DEF Checking, TypeOK, Timevals
<1>3. Microseconds(v) = Microseconds(last)
  BY <1>2 DEF Microseconds
<1> HIDE DEF v
<1>4. difference = Gap(Microseconds(last), current)
  BY <1>3 DEF getTimeDiff, Gap
<1>5. Gap(current, clock) <= Age /\ Gap(current, clock) <= Lag
  BY Numbers, <1>1 DEF Checking, TypeOK, Time
<1>6. difference = Age - Gap(current, clock)
  BY <1>1, <1>4, <1>5, GapBetween DEF Age, TypeOK
<1>7. Age <= silent /\ silent <= Age + Lag
  BY DEF Listening
<1> HIDE DEF difference
<1>8. difference \in Nat /\ difference <= silent /\ silent <= difference + 2 * Lag
  BY <1>1, <1>5, <1>6, <1>7, Numbers DEF TypeOK, Time
<1> QED BY <1>8 DEF difference, v

\* No step of either thread breaks what is known of checkNeighbor.
LEMMA CheckingStep == TypeOK /\ Listening /\ Checking /\ [Next]_vars => Checking'
<1> SUFFICES ASSUME TypeOK, Listening, Checking, [Next]_vars PROVE Checking'
  OBVIOUS
<1> USE Numbers DEF vars, listener, checker, history, CheckerBusy
<1>1. CASE UNCHANGED vars \/ Heartbeat \/ Flap
  BY <1>1 DEF Heartbeat, Flap, Checking, Heard, Age
<1>2. CASE Tick
  BY <1>2, CheckingTick
<1>3. CASE Recv
  BY <1>3 DEF Recv, Checking, Heard, TypeOK
<1>4. CASE SetLink \/ ReadClock
  BY <1>4 DEF SetLink, ReadClock, Checking, Heard
<1>5. CASE RecordSeconds
  <2>1. overtaken' => checking \in {"sec", "usec", "drop"} /\ silent <= Lag + checkingFor
    BY <1>5 DEF RecordSeconds, Overtakes, Checking, Listening, Heard, TypeOK
  <2>2. checking = "usec" => overtaken'
    BY <1>5 DEF RecordSeconds, Overtakes
  <2> QED BY <1>5, <2>1, <2>2 DEF RecordSeconds, Checking, Heard
<1>6. CASE RecordMicros
  <2>1. overtaken' => checking \in {"sec", "usec", "drop"} /\ silent <= Lag + checkingFor
    BY <1>6 DEF RecordMicros, Overtakes, Checking, Listening, Heard, TypeOK
  <2>2. checking \in {"sec", "usec", "drop"} => overtaken'
    BY <1>6 DEF RecordMicros, Overtakes
  <2> QED BY <1>6, <2>1, <2>2 DEF RecordMicros, Checking, Heard
<1>7. CASE HearOfLink \/ CostTest \/ CostSet
  <2>1. /\ UNCHANGED <<clock, last, checker, silent, overtaken>>
        /\ Heard /\ Heard'
    BY <1>7 DEF HearOfLink, CostTest, CostSet, Heard
  <2>2. Age' = Age /\ Gap(current', clock') = Gap(current, clock)
    BY <2>1 DEF Age
  <2> QED BY <2>1, <2>2 DEF Checking
<1>8. CASE Sleep /\ UNCHANGED <<clock, last, hearing, silent>>
  BY <1>8 DEF Sleep, Checking
<1>9. CASE CheckLink
  BY <1>8, <1>9 DEF CheckLink, Checking, Heard
<1>10. CASE AskTime
  <2>1. Gap(current', clock') = 0 /\ Age' = Age /\ Age \in Time
    BY <1>10, GapValue, Ages DEF AskTime, TypeOK, Age
  <2> QED BY <1>10, <2>1 DEF AskTime, Checking, Heard, TypeOK, Time
<1>11. CASE ReadSeconds
  <2>1. before'.sec = last.sec
    BY <1>11 DEF ReadSeconds, TypeOK, Timevals
  <2> QED BY <1>11, <2>1 DEF ReadSeconds, Checking, Heard, Age
<1>12. CASE Compare
  <2> DEFINE difference == getTimeDiff(current, [before EXCEPT !.usec = last.usec])
  <2>1. CASE difference > HEARTBEAT_TIMEOUT
    <3>1. /\ checking = "usec" /\ checking' = "drop"
          /\ UNCHANGED <<clock, last, hearing, silent, current, checkingFor, sinceCheck,
                         overtaken>>
      BY <1>12, <2>1 DEF Compare
    <3>2. overtaken \/ ~Heard \/ silent > HEARTBEAT_TIMEOUT
      <4>1. SUFFICES ASSUME ~overtaken, Heard, silent <= HEARTBEAT_TIMEOUT PROVE FALSE
        BY DEF TypeOK
      <4>2. silent <= Deadline
        BY <4>1 DEF TypeOK
      <4>3. difference \in Nat /\ difference <= silent
        BY <3>1, <4>1, <4>2, Difference
      <4> HIDE DEF difference
      <4> QED BY <2>1, <4>1, <4>3 DEF TypeOK
    <3> QED BY <3>1, <3>2 DEF Checking, Heard
  <2>2. CASE ~(difference > HEARTBEAT_TIMEOUT)
    BY <1>8, <1>12, <2>2 DEF Compare
  <2> QED BY <2>1, <2>2
<1>13. CASE Drop
  BY <1>8, <1>13 DEF Drop
<1> QED BY <1>1, <1>2, <1>3, <1>4, <1>5, <1>6, <1>7, <1>9, <1>10, <1>11, <1>12, <1>13
        DEF Next, Listen, Check

\* A link that is there was looked at in time, after every step.
LEMMA NoticingStep == IInv /\ [Next]_vars => Noticing'
<1> SUFFICES ASSUME IInv, [Next]_vars PROVE Noticing'
  OBVIOUS
<1> USE Numbers DEF vars, listener, checker, history, IInv, TypeOK
<1>1. CASE UNCHANGED vars \/ Heartbeat \/ Flap \/ CostTest
  BY <1>1 DEF Heartbeat, Flap, CostTest, Noticing
<1>2. CASE Tick
  BY <1>2 DEF Tick, Noticing, Checking, CheckerBusy
<1>3. CASE Recv
  BY <1>3 DEF Recv, Noticing
<1>4. CASE SetLink
  BY <1>4 DEF SetLink, Listening, Heard, Noticing
<1>5. CASE ReadClock \/ RecordSeconds \/ AskTime \/ ReadSeconds
  BY <1>5 DEF ReadClock, RecordSeconds, AskTime, ReadSeconds, Noticing
<1>6. CASE RecordMicros
  BY <1>6 DEF RecordMicros, Listening, Heard, Noticing
<1>7. CASE HearOfLink \/ CostSet
  <2>1. linked' /\ ~revived' => linked /\ ~revived
    BY <1>7 DEF HearOfLink, CostSet, Write
  <2> QED BY <1>7, <2>1 DEF HearOfLink, CostSet, Noticing
<1>8. CASE CheckLink
  BY <1>8 DEF CheckLink, Sleep, Noticing
<1>9. CASE Compare
  <2> DEFINE difference == getTimeDiff(current, [before EXCEPT !.usec = last.usec])
  <2>1. checking = "usec" /\ UNCHANGED <<linked, revived, silent>>
    BY <1>9 DEF Compare
  <2>2. CASE difference > HEARTBEAT_TIMEOUT
    BY <1>9, <2>2 DEF Compare, Noticing
  <2>3. CASE ~(difference > HEARTBEAT_TIMEOUT)
    <3>1. sinceCheck' = 0 /\ checkingFor' = 0
      BY <1>9, <2>3 DEF Compare, Sleep
    <3>2. SUFFICES ASSUME linked, ~revived
                   PROVE  silent <= HEARTBEAT_TIMEOUT + 2 * Lag
      BY <2>1, <3>1 DEF Noticing
    <3>3. CASE overtaken \/ ~Heard
      BY <3>3 DEF Checking, Listening
    <3>4. CASE ~overtaken /\ Heard
      <4>1. silent <= Deadline
        BY <3>2 DEF Noticing, Deadline
      <4>2. difference \in Nat /\ silent <= difference + 2 * Lag
        BY <2>1, <3>4, <4>1, Difference
      <4> HIDE DEF difference
      <4> QED BY <2>3, <4>2
    <3> QED BY <3>3, <3>4
  <2> QED BY <2>2, <2>3
<1>10. CASE Drop
  BY <1>10 DEF Drop, Write, Noticing
<1> QED BY <1>1, <1>2, <1>3, <1>4, <1>5, <1>6, <1>7, <1>8, <1>9, <1>10
        DEF Next, Listen, Check

-----------------------------------------------------------------------------
(* What every run keeps. *)

\* The invariant holds in every reachable state, whatever the periods, the lag and
\* the turn of the clock.
THEOREM Inductive == Spec => []IInv
<1>1. Init => IInv
  <2> SUFFICES ASSUME Init PROVE IInv
    OBVIOUS
  <2>1. TypeOK
    BY InitTypes
  <2>2. Microseconds(last) = 0 /\ 0 \in Time
    BY ZeroTime, SplitTime DEF Init, Timeval, Microseconds
  <2>3. Age = 0
    BY <2>2, GapValue DEF Init, Age
  <2> QED BY <2>1, <2>3, Numbers DEF Init, IInv, Listening, Checking, Noticing, Heard, CheckerBusy
<1>2. IInv /\ [Next]_vars => IInv'
  BY TypeStep, ListeningStep, CheckingStep, NoticingStep DEF IInv
<1> QED BY <1>1, <1>2, PTL DEF Spec

\* The link of a silent neighbour is out within the timeout, a pause and three lags,
\* or another message has put it back (monitor_neighbors.c:119).
THEOREM Noticed == Spec => []NoticedInTime
<1>1. IInv => NoticedInTime
  BY Numbers DEF IInv, TypeOK, Checking, Noticing, NoticedInTime
<1> QED BY <1>1, Inductive, PTL

\* checkNeighbor takes out a link for a reason: the neighbour was silent for longer
\* than the timeout, or one of the two races of the threads has happened.
THEOREM Explained == Spec => DropExplained
<1>1. IInv /\ [Next]_vars =>
        [checking = "drop" /\ linked /\ ~linked' =>
           silent > HEARTBEAT_TIMEOUT \/ overtaken \/ hearing \in {"time", "sec", "usec"}]_vars
  <2> SUFFICES ASSUME IInv, checking = "drop", linked
               PROVE  silent > HEARTBEAT_TIMEOUT \/ overtaken
                      \/ hearing \in {"time", "sec", "usec"}
    OBVIOUS
  <2> QED BY DEF IInv, TypeOK, Listening, Checking, Heard
<1> QED BY <1>1, Inductive, PTL DEF Spec, DropExplained

=============================================================================
