------------------------- MODULE CpuTimeListProofs -------------------------
(***************************************************************************)
(* What keeps the list of the CPU-time module whole: the cycle of timer    *)
(* and work, the lock, and the cursors, for any number of applications.    *)
(***************************************************************************)
EXTENDS CpuTimeList, KernelListProofs

-----------------------------------------------------------------------------
(* The inductive invariant. *)

Busy == pending \/ work # "idle"

\* The workqueue and the work exist.
Present == {"lockinit", "loaded", "deltimer", "free", "flush", "destroy"}

\* The list is in use, and nobody frees it.
InUse == Loading \cup {"loaded", "deltimer"}

Parts ==
  /\ mod \in {"proc", "timer", "queue", "failed", "aborted"} => item = "none"
  /\ mod = "work" => item = "null" \/ item = "none"
  /\ mod \in {"work"} \cup Present => queue = "live"
  /\ mod \in Present => item = "live"
  /\ mod \in {"kfree", "gone"} => queue = "destroyed"

\* One thing at a time keeps the cycle going.
Cycle ==
  /\ armed => ~Busy
  /\ pending => work = "idle"
  /\ mod \in {"queue", "work", "lockinit", "loaded", "deltimer"} => armed \/ Busy
  /\ mod \in {"proc", "timer", "failed"} => ~armed
  /\ Busy => mod \in Present

Handlers ==
  \A p \in Proc : /\ app[p] \in {"link", "adding"} => FileExists
                  /\ Linked(p) => app[p] \in {"listed", "ended", "nomem"}

\* The lock is held by the scan or by the registration that is in the list.
Locks ==
  /\ lock = "work" <=> work = "scan"
  /\ \A p \in Proc : lock = p <=> app[p] = "adding"

\* The cursors of the scan are neighbours, until mp1_exit comes in between.
Scanning ==
  work = "scan" =>
    /\ mod \in InUse => IF pos = NULL THEN n = NULL ELSE Linked(pos) /\ n = After(list, pos)
    /\ mod \in {"free", "flush"} => pos = NULL \/ "overlap" \in races
    /\ mod = "free" => "overlap" \in races
    /\ mod = "destroy" => pos = NULL

Adding == \A p \in Proc : app[p] = "adding" => first[p] = First

\* The cursors of mp1_exit are the first two nodes, or one that the scan has freed.
Freeing ==
  /\ mod = "free" =>
       \/ xpos = First /\ xn = (IF First = NULL THEN NULL ELSE After(list, First))
       \/ xpos # NULL /\ (Bad(xpos) \/ Bad(xn)) /\ "overlap" \in races
  /\ mod \in {"flush", "destroy", "kfree", "gone"} => list = <<>>

\* What the lock is good for, unless it was initialised while it was held.
Locked == "reset" \notin races =>
            Locks /\ Scanning /\ Adding /\ Freeing /\ RegisteredStays

IInv == TypeOK /\ Parts /\ Cycle /\ Handlers /\ Locked /\ CrashesExplained

-----------------------------------------------------------------------------
(* What the steps do to the list. *)

\* A registration puts its node before what is left of the list, none of the
\* nodes of which it was; with nothing lost if it links to the first node.
LEMMA Registering ==
  ASSUME TypeOK, Handlers, NEW p \in Proc, app[p] = "adding", ~Bad(first[p]),
         list' = <<p>> \o From(list, first[p])
  PROVE  /\ list' \in Seq(Proc) /\ IsInjective(list')
         /\ Range(list') \subseteq Range(list) \cup {p}
         /\ first[p] = First => Range(list') = Range(list) \cup {p}
<1> DEFINE rest == From(list, first[p])
<1>1. list \in Seq(Proc) /\ IsInjective(list) /\ first[p] \in Range(list) \cup {NULL}
  BY DEF TypeOK, Bad, Linked, Node
<1>2. p \notin Range(list)
  BY DEF Handlers, Linked
<1>3. /\ rest \in Seq(Proc) /\ IsInjective(rest) /\ Range(rest) \subseteq Range(list)
      /\ first[p] = First => rest = list
  BY <1>1, FromOn, ProcAssumption DEF First
<1>4. list' = <<p>> \o rest
  OBVIOUS
<1> HIDE DEF rest
<1>5. p \notin Range(rest)
  BY <1>2, <1>3
<1>6. /\ <<p>> \o rest \in Seq(Proc) /\ IsInjective(<<p>> \o rest)
      /\ Range(<<p>> \o rest) = Range(rest) \cup {p}
  BY <1>3, <1>5, AddOn
<1>. QED
  BY <1>3, <1>4, <1>6

\* The first node, and where a link leads, are nodes or NULL.
LEMMA Links ==
  ASSUME TypeOK
  PROVE  /\ First \in Node /\ ~Bad(First) /\ (First = NULL <=> list = <<>>)
         /\ \A q \in Node : q # NULL /\ ~Bad(q) =>
              /\ After(list, q) \in Node /\ ~Bad(After(list, q))
              /\ After(list, q) # q
              /\ After(list, q) # NULL => After(list, After(list, q)) # q
<1>1. list \in Seq(Proc) /\ IsInjective(list) /\ NULL \notin Proc
  BY ProcAssumption DEF TypeOK
<1>2. Range(list) \subseteq Proc
  BY <1>1 DEF Range
<1>3. First \in Node /\ ~Bad(First) /\ (First = NULL <=> list = <<>>)
  BY <1>1, <1>2, FirstOn DEF First, Node, Bad, Linked
<1>4. ASSUME NEW q \in Node, q # NULL, ~Bad(q)
      PROVE  /\ After(list, q) \in Node /\ ~Bad(After(list, q))
             /\ After(list, q) # q
             /\ After(list, q) # NULL => After(list, After(list, q)) # q
  <2>1. q \in Range(list)
    BY <1>4 DEF Bad, Linked
  <2>. QED
    BY <1>1, <1>2, <2>1, AfterOn DEF Node, Bad, Linked
<1>. QED
  BY <1>3, <1>4

\* A node is taken off.
LEMMA Dropping ==
  ASSUME TypeOK, NEW q \in Node, q # NULL, ~Bad(q), list' = Del(list, q)
  PROVE  /\ list' \in Seq(Proc) /\ IsInjective(list')
         /\ Range(list') = Range(list) \ {q}
<1>1. list \in Seq(Proc) /\ IsInjective(list) /\ q \in Range(list)
  BY DEF TypeOK, Bad, Linked
<1>. QED
  BY <1>1, DelOn

-----------------------------------------------------------------------------
(* The steps, conjunct by conjunct. *)

\* The steps of the specification that do something.
Step == /\ ~oops
        /\ \/ \E p \in Proc : \/ Register(p) \/ NoMemory(p)
                          \/ HandlerStep(p) \/ Expire(p)
           \/ TimerFires \/ WorkStep
           \/ LoadStep \/ RemoveFile \/ LeaveStep

\* Types.
LEMMA TypeStep ==
  ASSUME TypeOK, Handlers, Step
  PROVE  TypeOK'
<1> USE DEF TypeOK, Crash, driver, cursors, parts
<1>1. ASSUME NEW p \in Proc, Register(p) PROVE TypeOK'
  BY ZenonT(60), <1>1 DEF Register
<1>2. ASSUME NEW p \in Proc, LockToAdd(p) PROVE TypeOK'
  BY ZenonT(60), <1>2, Links DEF LockToAdd
<1>3. ASSUME NEW p \in Proc, Add(p) PROVE TypeOK'
  <2>1. CASE oops'
    BY <1>3, <2>1 DEF Add, Step
  <2>2. CASE ~oops'
    <3>1. /\ app[p] = "adding" /\ ~Bad(first[p]) /\ list' = <<p>> \o From(list, first[p])
          /\ lock' = "none" /\ first' = [first EXCEPT ![p] = NULL]
          /\ app' = [app EXCEPT ![p] = "listed"]
          /\ UNCHANGED <<driver, cursors, parts, oops, races>>
      BY <1>3, <2>2 DEF Add
    <3>2. list' \in Seq(Proc) /\ IsInjective(list')
      BY <3>1, Registering
    <3>3. NULL \in Node
      BY DEF Node
    <3>. QED
      BY <3>1, <3>2, <3>3
  <2>. QED
    BY <2>1, <2>2
<1>4. ASSUME NEW p \in Proc, NoMemory(p) \/ Expire(p) PROVE TypeOK'
  BY ZenonT(60), <1>4 DEF NoMemory, Expire
<1>5. CASE TimerFires
  BY <1>5 DEF TimerFires
<1>6. CASE WorkStarts
  BY <1>6 DEF WorkStarts
<1>7. CASE LockToScan
  BY <1>7, Links DEF LockToScan
<1>8. CASE Visit
  <2>1. CASE oops'
    BY <1>8, <2>1 DEF Visit, Step
  <2>2. CASE ~oops'
    <3>1. /\ pos # NULL /\ ~Bad(pos) /\ ~Bad(n) /\ pos' = n
          /\ list' = IF app[pos] = "ended" THEN Del(list, pos) ELSE list
          /\ n' = IF n = NULL THEN NULL ELSE After(list, n)
          /\ UNCHANGED <<app, first, lock, driver, xpos, xn, parts, oops, races>>
      BY <1>8, <2>2 DEF Visit
    <3>2. list' \in Seq(Proc) /\ IsInjective(list')
      BY <3>1, Dropping
    <3>3. n' \in Node
      BY <3>1, Links
    <3>. QED
      BY <3>1, <3>2, <3>3
  <2>. QED
    BY <2>1, <2>2
<1>9. CASE UnlockAfterScan \/ Rearm
  BY <1>9 DEF UnlockAfterScan, Rearm
<1>10. CASE LoadStep
  <2>1. CASE MakeFile
    BY <2>1 DEF MakeFile, Loading, Absent
  <2>2. CASE StartTimer
    BY ZenonT(60), <2>2 DEF StartTimer, Loading
  <2>5. CASE MakeWork
    <3>1. item' \in {"null", "live"} /\ mod' \in Loading /\ oops' \in BOOLEAN
      BY <2>5 DEF MakeWork, Loading
    <3>. QED
      BY <2>5, <3>1 DEF MakeWork
  <2>3. CASE MakeQueue
    BY <2>3 DEF MakeQueue, Loading, Absent
  <2>4. CASE InitLock
    BY <2>4 DEF InitLock
  <2>. QED
    BY <1>10, <2>1, <2>2, <2>3, <2>4, <2>5 DEF LoadStep
<1>11. CASE RemoveFile
  BY <1>11 DEF RemoveFile, Leaving
<1>12. CASE DeleteTimer
  BY ZenonT(60), <1>12, Links DEF DeleteTimer, Leaving
<1>13. CASE FreeNode
  <2>1. CASE oops'
    BY <1>13, <2>1 DEF FreeNode, Step
  <2>2. CASE ~oops'
    <3>1. /\ xpos # NULL /\ ~Bad(xpos) /\ ~Bad(xn) /\ xpos' = xn
          /\ list' = Del(list, xpos)
          /\ xn' = IF xn = NULL THEN NULL ELSE After(list, xn)
          /\ UNCHANGED <<app, first, lock, driver, pos, n, parts, oops, races>>
      BY <1>13, <2>2 DEF FreeNode
    <3>2. list' \in Seq(Proc) /\ IsInjective(list')
      BY <3>1, Dropping
    <3>3. xn' \in Node
      BY <3>1, Links
    <3>. QED
      BY <3>1, <3>2, <3>3
  <2>. QED
    BY <2>1, <2>2
<1>14. CASE ListFreed \/ FlushQueue \/ DestroyQueue \/ FreeWork
  BY ZenonT(60), <1>14 DEF ListFreed, FlushQueue, DestroyQueue, FreeWork, Leaving, Absent
<1>. QED
  BY <1>1, <1>2, <1>3, <1>4, <1>5, <1>6, <1>7, <1>8, <1>9, <1>10, <1>11, <1>12, <1>13, <1>14
     DEF Step, HandlerStep, WorkStep, LeaveStep

\* The workqueue and the work: only mp1_init and mp1_exit touch them.
LEMMA PartsStep ==
  ASSUME TypeOK, Parts, Step
  PROVE  Parts'
<1> USE DEF Parts, Present, Crash, driver, cursors, parts
<1>1. ASSUME NEW p \in Proc, Register(p) \/ NoMemory(p) \/ LockToAdd(p) \/ Add(p) \/ Expire(p)
      PROVE Parts'
  BY <1>1 DEF Register, NoMemory, LockToAdd, Add, Expire
<1>2. CASE TimerFires
  BY <1>2 DEF TimerFires
<1>3. CASE WorkStep
  BY <1>3 DEF WorkStep, WorkStarts, LockToScan, Visit, UnlockAfterScan, Rearm
<1>4. CASE LoadStep
  BY <1>4 DEF LoadStep, MakeFile, StartTimer, MakeQueue, MakeWork, InitLock
<1>5. CASE RemoveFile
  BY <1>5 DEF RemoveFile
<1>6. CASE LeaveStep
  BY <1>6 DEF LeaveStep, DeleteTimer, FreeNode, ListFreed, FlushQueue, DestroyQueue, FreeWork
<1>. QED
  BY <1>1, <1>2, <1>3, <1>4, <1>5, <1>6 DEF Step, HandlerStep

\* The cycle of timer and work.
LEMMA CycleStep ==
  ASSUME TypeOK, Parts, Cycle, Step
  PROVE  Cycle'
<1> USE DEF Cycle, Busy, Present, Crash, driver, cursors, parts
<1>1. ASSUME NEW p \in Proc, Register(p) \/ NoMemory(p) \/ LockToAdd(p) \/ Add(p) \/ Expire(p)
      PROVE Cycle'
  BY <1>1 DEF Register, NoMemory, LockToAdd, Add, Expire
<1>2. CASE TimerFires
  BY <1>2 DEF TimerFires, Parts, TypeOK, Loading, Leaving, Absent
<1>3. CASE WorkStep
  <2>1. CASE WorkStarts
    BY <2>1 DEF WorkStarts
  <2>2. CASE LockToScan
    BY <2>2 DEF LockToScan
  <2>3. CASE Visit
    BY <2>3 DEF Visit
  <2>4. CASE UnlockAfterScan
    BY <2>4 DEF UnlockAfterScan
  <2>5. CASE Rearm
    BY <2>5 DEF Rearm
  <2>. QED
    BY <1>3, <2>1, <2>2, <2>3, <2>4, <2>5 DEF WorkStep
<1>4. CASE LoadStep
  BY <1>4 DEF LoadStep, MakeFile, StartTimer, MakeQueue, MakeWork, InitLock
<1>5. CASE RemoveFile
  BY <1>5 DEF RemoveFile
<1>6. CASE LeaveStep
  BY <1>6 DEF LeaveStep, DeleteTimer, FreeNode, ListFreed, FlushQueue, DestroyQueue, FreeWork,
              Idle
<1>. QED
  BY <1>1, <1>2, <1>3, <1>4, <1>5, <1>6 DEF Step, HandlerStep

\* The handlers: they run while the file exists, and list what was not listed.
LEMMA HandlersStep ==
  ASSUME TypeOK, Handlers, Step
  PROVE  Handlers'
<1> USE DEF Handlers, FileExists, Crash, driver, cursors, parts
<1>1. ASSUME NEW p \in Proc, Register(p) \/ LockToAdd(p) \/ Expire(p) PROVE Handlers'
  BY <1>1 DEF Register, LockToAdd, Expire, Linked, TypeOK
<1>2. ASSUME NEW p \in Proc, Add(p) PROVE Handlers'
  <2>1. CASE oops'
    BY <1>2, <2>1 DEF Add, Linked, Step
  <2>2. CASE ~oops'
    <3>1. /\ app[p] = "adding" /\ ~Bad(first[p]) /\ list' = <<p>> \o From(list, first[p])
          /\ app' = [app EXCEPT ![p] = "listed"] /\ UNCHANGED mod
      BY <1>2, <2>2 DEF Add
    <3>2. Range(list') \subseteq Range(list) \cup {p}
      BY <3>1, Registering
    <3>. QED
      BY <3>1, <3>2 DEF Linked, TypeOK
  <2>. QED
    BY <2>1, <2>2
<1>3. CASE TimerFires
  BY <1>3 DEF TimerFires, Linked
<1>4. CASE WorkStarts \/ LockToScan \/ UnlockAfterScan \/ Rearm
  BY <1>4 DEF WorkStarts, LockToScan, UnlockAfterScan, Rearm, Linked
<1>5. CASE Visit
  <2>1. UNCHANGED <<app, mod>>
    BY <1>5 DEF Visit
  <2>2. Range(list') \subseteq Range(list)
    <3>1. CASE list' = list
      BY <3>1
    <3>2. CASE list' # list
      <4>1. pos # NULL /\ ~Bad(pos) /\ list' = Del(list, pos)
        BY <1>5, <3>2 DEF Visit
      <4>2. pos \in Node
        BY DEF TypeOK
      <4>. QED
        BY <4>1, <4>2, Dropping
    <3>. QED
      BY <3>1, <3>2
  <2>. QED
    BY <2>1, <2>2 DEF Linked
<1>6. CASE LoadStep
  BY <1>6 DEF LoadStep, MakeFile, StartTimer, MakeQueue, MakeWork, InitLock, Linked, Loading
<1>7. CASE RemoveFile
  BY <1>7 DEF RemoveFile, Linked
<1>8. CASE FreeNode
  <2>1. UNCHANGED <<app, mod>>
    BY <1>8 DEF FreeNode
  <2>2. Range(list') \subseteq Range(list)
    <3>1. CASE list' = list
      BY <3>1
    <3>2. CASE list' # list
      <4>1. xpos # NULL /\ ~Bad(xpos) /\ list' = Del(list, xpos)
        BY <1>8, <3>2 DEF FreeNode
      <4>2. xpos \in Node
        BY DEF TypeOK
      <4>. QED
        BY <4>1, <4>2, Dropping
    <3>. QED
      BY <3>1, <3>2
  <2>. QED
    BY <2>1, <2>2 DEF Linked
<1>9. CASE DeleteTimer \/ ListFreed \/ FlushQueue \/ DestroyQueue \/ FreeWork
  BY <1>9 DEF DeleteTimer, ListFreed, FlushQueue, DestroyQueue, FreeWork, Linked, Loading
<1>10. ASSUME NEW p \in Proc, NoMemory(p) PROVE Handlers'
  BY <1>10 DEF NoMemory, Linked, TypeOK
<1>. QED
  BY <1>1, <1>2, <1>3, <1>4, <1>5, <1>6, <1>7, <1>8, <1>9, <1>10
     DEF Step, HandlerStep, WorkStep, LeaveStep

\* The lock, which InitLock takes from whoever holds it.
LEMMA LocksStep ==
  ASSUME TypeOK, Handlers, Locks, Step, "reset" \notin races'
  PROVE  Locks'
<1> USE DEF Locks, Crash, driver, cursors, parts
<1>1. ASSUME NEW p \in Proc, Register(p) PROVE Locks'
  BY <1>1 DEF Register, TypeOK
<1>2. ASSUME NEW p \in Proc, LockToAdd(p) PROVE Locks'
  BY <1>2, ProcAssumption DEF LockToAdd, TypeOK
<1>3. ASSUME NEW p \in Proc, Add(p) PROVE Locks'
  BY <1>3, ProcAssumption DEF Add, TypeOK
<1>4. ASSUME NEW p \in Proc, NoMemory(p) \/ Expire(p) PROVE Locks'
  BY <1>4 DEF NoMemory, Expire, TypeOK
<1>5. CASE TimerFires
  BY <1>5 DEF TimerFires
<1>6. CASE WorkStarts \/ Visit \/ Rearm
  BY <1>6 DEF WorkStarts, Visit, Rearm
<1>7. CASE LockToScan
  BY <1>7, ProcAssumption DEF LockToScan
<1>8. CASE UnlockAfterScan
  BY <1>8, ProcAssumption DEF UnlockAfterScan
<1>9. CASE MakeFile \/ StartTimer \/ MakeQueue \/ MakeWork
  BY <1>9 DEF MakeFile, StartTimer, MakeQueue, MakeWork
<1>10. CASE InitLock
  BY <1>10 DEF InitLock
<1>11. CASE RemoveFile
  BY <1>11 DEF RemoveFile
<1>12. CASE LeaveStep
  BY <1>12 DEF LeaveStep, DeleteTimer, FreeNode, ListFreed, FlushQueue, DestroyQueue, FreeWork
<1>. QED
  BY <1>1, <1>2, <1>3, <1>4, <1>5, <1>6, <1>7, <1>8, <1>9, <1>10, <1>11, <1>12
     DEF Step, HandlerStep, WorkStep, LoadStep

\* A race once run is not taken back.
LEMMA RacesGrow ==
  ASSUME Step
  PROVE  races \subseteq races'
<1> USE DEF Crash
<1>1. ASSUME NEW p \in Proc, Register(p) \/ NoMemory(p) \/ LockToAdd(p) \/ Add(p) \/ Expire(p)
      PROVE  races' = races
  BY <1>1 DEF Register, NoMemory, LockToAdd, Add, Expire
<1>2. CASE TimerFires \/ WorkStarts \/ Visit \/ UnlockAfterScan \/ Rearm \/ RemoveFile
  BY <1>2 DEF TimerFires, WorkStarts, Visit, UnlockAfterScan, Rearm, RemoveFile
<1>3. CASE LockToScan \/ InitLock \/ DeleteTimer
  BY <1>3 DEF LockToScan, InitLock, DeleteTimer
<1>4. CASE MakeFile \/ StartTimer \/ MakeQueue \/ MakeWork
  BY <1>4 DEF MakeFile, StartTimer, MakeQueue, MakeWork
<1>5. CASE FreeNode \/ ListFreed \/ FlushQueue \/ DestroyQueue \/ FreeWork
  BY <1>5 DEF FreeNode, ListFreed, FlushQueue, DestroyQueue, FreeWork
<1>. QED
  BY <1>1, <1>2, <1>3, <1>4, <1>5 DEF Step, HandlerStep, WorkStep, LoadStep, LeaveStep

\* The cursors of the scan.
LEMMA ScanningStep ==
  ASSUME TypeOK, Cycle, Locks, Scanning, Freeing, Step, "reset" \notin races'
  PROVE  Scanning'
<1> USE DEF Scanning, Linked, InUse, Crash, driver, cursors, parts
<1>1. ASSUME NEW p \in Proc, Register(p) \/ NoMemory(p) \/ LockToAdd(p) \/ Expire(p)
      PROVE Scanning'
  BY <1>1 DEF Register, NoMemory, LockToAdd, Expire
<1>2. ASSUME NEW p \in Proc, Add(p) PROVE Scanning'
  BY <1>2, ProcAssumption DEF Add, Locks
<1>3. CASE TimerFires
  BY <1>3 DEF TimerFires
<1>4. CASE WorkStarts \/ UnlockAfterScan \/ Rearm
  BY <1>4 DEF WorkStarts, UnlockAfterScan, Rearm
<1>5. CASE LockToScan
  <2>1. /\ pos' = First /\ n' = (IF First = NULL THEN NULL ELSE After(list, First))
        /\ mod = "free" => "overlap" \in races'
        /\ UNCHANGED <<list, mod>>
    BY <1>5 DEF LockToScan
  <2>2. First = NULL \/ Linked(First)
    BY Links DEF Bad
  <2>3. mod \in {"flush", "destroy"} => First = NULL
    BY Links DEF Freeing
  <2>. QED
    BY <2>1, <2>2, <2>3
<1>6. CASE Visit
  <2>1. CASE oops'
    BY <1>6, <2>1 DEF Visit, Step
  <2>2. CASE ~oops'
    <3>1. /\ work = "scan" /\ pos # NULL /\ ~Bad(pos) /\ ~Bad(n) /\ pos' = n
          /\ list' = IF app[pos] = "ended" THEN Del(list, pos) ELSE list
          /\ n' = IF n = NULL THEN NULL ELSE After(list, n)
          /\ UNCHANGED <<mod, work, races>>
      BY <1>6, <2>2 DEF Visit
    <3>2. CASE mod \notin InUse
      BY <3>1, <3>2 DEF Loading
    <3>3. CASE mod \in InUse /\ n = NULL
      BY <3>1, <3>3 DEF Loading
    <3>4. CASE mod \in InUse /\ n # NULL
      <4>1. /\ n = After(list, pos) /\ Linked(n) /\ Linked(pos)
            /\ n # pos /\ After(list, n) # pos
        BY <3>1, <3>4, Links DEF TypeOK, Bad
      <4>2. n \in Range(list') /\ After(list', n) = After(list, n)
        <5>1. CASE list' = list
          BY <4>1, <5>1
        <5>2. CASE list' = Del(list, pos)
          <6>1. list \in Seq(Proc) /\ IsInjective(list) /\ NULL \notin Proc
            BY ProcAssumption DEF TypeOK
          <6>2. n \in Range(list) /\ pos \in Range(list)
            BY <4>1
          <6>3. After(Del(list, pos), n) = After(list, n)
            BY <4>1, <6>1, <6>2, DelAfter
          <6>4. Range(Del(list, pos)) = Range(list) \ {pos}
            BY <6>1, <6>2, DelOn
          <6>. QED
            BY <4>1, <5>2, <6>2, <6>3, <6>4
        <5>. QED
          BY <3>1, <5>1, <5>2
      <4>3. n' = After(list', n) /\ pos' = n /\ mod' \in InUse
        BY <3>1, <3>4, <4>2
      <4>. QED
        BY <3>4, <4>2, <4>3 DEF Loading
    <3>. QED
      BY <3>2, <3>3, <3>4
  <2>. QED
    BY <2>1, <2>2
<1>7. CASE MakeFile \/ StartTimer \/ MakeQueue \/ MakeWork
  BY <1>7 DEF MakeFile, StartTimer, MakeQueue, MakeWork, Cycle, Busy, Present
<1>8. CASE InitLock
  BY <1>8 DEF InitLock, Locks, Loading
<1>9. CASE RemoveFile
  BY <1>9 DEF RemoveFile
<1>10. CASE DeleteTimer
  BY <1>10 DEF DeleteTimer, Loading
<1>11. CASE FreeNode
  BY <1>11 DEF FreeNode, Loading
<1>12. CASE ListFreed
  BY <1>12 DEF ListFreed, Loading
<1>13. CASE FlushQueue \/ DestroyQueue
  BY <1>13 DEF FlushQueue, DestroyQueue, Idle
<1>14. CASE FreeWork
  BY <1>14 DEF FreeWork, Cycle, Busy, Present
<1>. QED
  BY <1>1, <1>2, <1>3, <1>4, <1>5, <1>6, <1>7, <1>8, <1>9, <1>10, <1>11, <1>12, <1>13, <1>14
     DEF Step, HandlerStep, WorkStep, LoadStep, LeaveStep

\* What a registration has read as the first node still is, for it has the lock.
LEMMA AddingStep ==
  ASSUME TypeOK, Handlers, Locks, Adding, Step
  PROVE  Adding'
<1> USE DEF Adding, First, Crash, driver, cursors, parts
<1>1. ASSUME NEW p \in Proc, Register(p) \/ NoMemory(p) \/ LockToAdd(p) \/ Expire(p)
      PROVE Adding'
  BY <1>1 DEF Register, NoMemory, LockToAdd, Expire, TypeOK
<1>2. ASSUME NEW p \in Proc, Add(p) PROVE Adding'
  BY <1>2 DEF Add, TypeOK, Locks
<1>3. CASE TimerFires \/ WorkStarts \/ LockToScan \/ UnlockAfterScan \/ Rearm
  BY <1>3 DEF TimerFires, WorkStarts, LockToScan, UnlockAfterScan, Rearm
<1>4. CASE Visit
  BY <1>4, ProcAssumption DEF Visit, Locks
<1>5. CASE LoadStep
  BY <1>5 DEF LoadStep, MakeFile, StartTimer, MakeQueue, MakeWork, InitLock
<1>6. CASE RemoveFile
  BY <1>6 DEF RemoveFile
<1>7. CASE FreeNode
  BY <1>7 DEF FreeNode, Handlers, FileExists, Loading
<1>8. CASE DeleteTimer \/ ListFreed \/ FlushQueue \/ DestroyQueue \/ FreeWork
  BY <1>8 DEF DeleteTimer, ListFreed, FlushQueue, DestroyQueue, FreeWork
<1>. QED
  BY <1>1, <1>2, <1>3, <1>4, <1>5, <1>6, <1>7, <1>8 DEF Step, HandlerStep, WorkStep, LeaveStep

\* The cursors of mp1_exit: only the scan can take away a node they point to.
LEMMA FreeingStep ==
  ASSUME TypeOK, Cycle, Handlers, Locks, Scanning, Freeing, Step
  PROVE  Freeing'
<1> USE DEF Freeing, Crash, driver, cursors, parts
<1>1. ASSUME NEW p \in Proc, Register(p) \/ NoMemory(p) \/ LockToAdd(p) \/ Expire(p)
      PROVE Freeing'
  BY <1>1 DEF Register, NoMemory, LockToAdd, Expire, First, Bad, Linked
<1>2. ASSUME NEW p \in Proc, Add(p) PROVE Freeing'
  BY <1>2 DEF Add, Handlers, FileExists, Loading
<1>3. CASE TimerFires \/ WorkStarts \/ UnlockAfterScan \/ Rearm
  BY <1>3 DEF TimerFires, WorkStarts, UnlockAfterScan, Rearm, First, Bad, Linked
<1>4. CASE LockToScan
  BY <1>4 DEF LockToScan, First, Bad, Linked
<1>5. CASE Visit
  <2>1. CASE list' = list
    BY <1>5, <2>1 DEF Visit, First, Bad, Linked
  <2>2. CASE list' # list
    <3>1. /\ work = "scan" /\ pos # NULL /\ ~Bad(pos) /\ list' = Del(list, pos)
          /\ UNCHANGED <<mod, xpos, xn, races>>
      BY <1>5, <2>2 DEF Visit
    <3>2. /\ list \in Seq(Proc) /\ IsInjective(list) /\ NULL \notin Proc
          /\ pos \in Range(list) /\ pos \in Node
      BY <3>1, ProcAssumption DEF TypeOK, Bad, Linked
    <3>3. list # <<>>
      BY <3>2 DEF Range
    <3>4. Range(list') = Range(list) \ {pos}
      BY <3>1, <3>2, DelOn
    <3>5. ASSUME mod = "free"
          PROVE  \/ xpos = First' /\ xn = IF First' = NULL THEN NULL ELSE After(list', First')
                 \/ xpos # NULL /\ (Bad(xpos)' \/ Bad(xn)') /\ "overlap" \in races
      <4>1. "overlap" \in races
        BY <3>1, <3>5 DEF Scanning
      <4>2. CASE xpos # NULL /\ (Bad(xpos) \/ Bad(xn))
        BY <3>1, <3>4, <4>1, <4>2 DEF Bad, Linked
      <4>3. CASE xpos = First /\ xn = (IF First = NULL THEN NULL ELSE After(list, First))
        <5>1. First # NULL /\ First \in Range(list)
          BY <3>2, <3>3, FirstOn DEF First
        <5>2. CASE pos = xpos \/ pos = xn
          BY <3>1, <3>4, <4>1, <4>3, <5>1, <5>2 DEF Bad, Linked
        <5>3. CASE pos # xpos /\ pos # xn
          <6>1. pos # FirstNode(list) /\ After(list, First) # pos
            BY <4>3, <5>1, <5>3 DEF First
          <6>2. FirstNode(Del(list, pos)) = FirstNode(list)
            BY <3>2, <6>1, DelLater
          <6>3. First' = First
            BY <3>1, <6>2 DEF First
          <6>4. After(Del(list, pos), First) = After(list, First)
            BY <3>2, <4>3, <5>1, <5>3, <6>1, DelAfter
          <6>5. After(list', First) = After(list, First)
            BY <3>1, <6>4
          <6>. QED
            BY <4>3, <5>1, <6>3, <6>5
        <5>. QED
          BY <5>2, <5>3
      <4>. QED
        BY <3>5, <4>2, <4>3
    <3>. QED
      BY <3>1, <3>3, <3>5
  <2>. QED
    BY <2>1, <2>2
<1>6. CASE LoadStep
  BY <1>6 DEF LoadStep, MakeFile, StartTimer, MakeQueue, MakeWork, InitLock
<1>7. CASE RemoveFile
  BY <1>7 DEF RemoveFile
<1>8. CASE DeleteTimer
  BY <1>8 DEF DeleteTimer, First
<1>9. CASE FreeNode
  <2>1. CASE oops'
    BY <1>9, <2>1 DEF FreeNode, Step, First, Bad, Linked
  <2>2. CASE ~oops'
    <3>1. /\ mod = "free" /\ xpos # NULL /\ ~Bad(xpos) /\ ~Bad(xn) /\ xpos' = xn
          /\ list' = Del(list, xpos)
          /\ xn' = IF xn = NULL THEN NULL ELSE After(list, xn)
          /\ mod' = mod
      BY <1>9, <2>2 DEF FreeNode
    <3>2. xpos = First /\ First # NULL /\ xn = After(list, First)
      BY <3>1
    <3>3. /\ list \in Seq(Proc) /\ IsInjective(list) /\ NULL \notin Proc
          /\ First \in Range(list) /\ list # <<>> /\ First \in Node
      BY <3>1, <3>2, Links, ProcAssumption DEF TypeOK, Bad, Linked
    <3>4. FirstNode(Del(list, First)) = After(list, First)
      BY <3>3, DelFirst DEF First
    <3>5. First' = xn
      BY <3>1, <3>2, <3>4 DEF First
    <3>6. CASE xn = NULL
      BY <3>1, <3>5, <3>6
    <3>7. CASE xn # NULL
      <4>1. xn \in Range(list) /\ xn # First /\ After(list, xn) # First
        BY <3>1, <3>2, <3>3, <3>7, Links DEF Bad, Linked
      <4>2. After(Del(list, First), xn) = After(list, xn)
        BY <3>3, <4>1, DelAfter
      <4>3. After(list', xn) = After(list, xn)
        BY <3>1, <3>2, <4>2
      <4>. QED
        BY <3>1, <3>5, <3>7, <4>3
    <3>. QED
      BY <3>6, <3>7
  <2>. QED
    BY <2>1, <2>2
<1>10. CASE ListFreed
  <2>1. First = NULL
    BY <1>10 DEF ListFreed
  <2>. QED
    BY <1>10, <2>1, Links DEF ListFreed
<1>11. CASE FlushQueue \/ DestroyQueue \/ FreeWork
  BY <1>11 DEF FlushQueue, DestroyQueue, FreeWork
<1>. QED
  BY <1>1, <1>2, <1>3, <1>4, <1>5, <1>6, <1>7, <1>8, <1>9, <1>10, <1>11
     DEF Step, HandlerStep, WorkStep, LeaveStep

\* Who is on the list stays on it.
LEMMA RegisteredStep ==
  ASSUME TypeOK, Handlers, Adding, RegisteredStays, "reset" \notin races, Step
  PROVE  RegisteredStays'
<1> USE DEF RegisteredStays, Linked, Crash, driver, cursors, parts
<1>1. ASSUME NEW p \in Proc, Register(p) \/ NoMemory(p) \/ LockToAdd(p) \/ Expire(p)
      PROVE RegisteredStays'
  BY <1>1 DEF Register, NoMemory, LockToAdd, Expire, TypeOK
<1>2. ASSUME NEW p \in Proc, Add(p) PROVE RegisteredStays'
  <2>1. CASE oops'
    BY <1>2, <2>1 DEF Add, Step
  <2>2. CASE ~oops'
    <3>1. /\ app[p] = "adding" /\ ~Bad(first[p]) /\ list' = <<p>> \o From(list, first[p])
          /\ app' = [app EXCEPT ![p] = "listed"] /\ UNCHANGED <<mod, races>>
      BY <1>2, <2>2 DEF Add
    <3>2. Range(list') = Range(list) \cup {p}
      BY <3>1, Registering DEF Adding
    <3>. QED
      BY <3>1, <3>2 DEF TypeOK
  <2>. QED
    BY <2>1, <2>2
<1>3. CASE TimerFires \/ WorkStarts \/ LockToScan \/ UnlockAfterScan \/ Rearm
  BY <1>3 DEF TimerFires, WorkStarts, LockToScan, UnlockAfterScan, Rearm
<1>4. CASE Visit
  <2>1. CASE list' = list
    BY <1>4, <2>1 DEF Visit
  <2>2. CASE list' # list
    <3>1. /\ pos # NULL /\ ~Bad(pos) /\ list' = Del(list, pos) /\ app[pos] = "ended"
          /\ UNCHANGED <<app, mod, races>>
      BY <1>4, <2>2 DEF Visit
    <3>2. Range(list') = Range(list) \ {pos}
      BY <3>1, Dropping DEF TypeOK
    <3>. QED
      BY <3>1, <3>2
  <2>. QED
    BY <2>1, <2>2
<1>5. CASE LoadStep
  BY <1>5 DEF LoadStep, MakeFile, StartTimer, MakeQueue, MakeWork, InitLock, Loading
<1>6. CASE RemoveFile
  BY <1>6 DEF RemoveFile
<1>7. CASE LeaveStep
  BY <1>7 DEF LeaveStep, DeleteTimer, FreeNode, ListFreed, FlushQueue, DestroyQueue, FreeWork,
              Loading
<1>. QED
  BY <1>1, <1>2, <1>3, <1>4, <1>5, <1>6, <1>7 DEF Step, HandlerStep, WorkStep

\* All that the lock is good for.
LEMMA LockedStep ==
  ASSUME TypeOK, Cycle, Handlers, Locked, Step
  PROVE  Locked'
<1>1. SUFFICES ASSUME "reset" \notin races'
               PROVE  (Locks /\ Scanning /\ Adding /\ Freeing /\ RegisteredStays)'
  BY DEF Locked
<1>2. "reset" \notin races
  BY <1>1, RacesGrow
<1>3. Locks /\ Scanning /\ Adding /\ Freeing /\ RegisteredStays
  BY <1>2 DEF Locked
<1>4. Locks'
  BY <1>1, <1>3, LocksStep
<1>5. Scanning'
  BY <1>1, <1>3, ScanningStep
<1>6. Adding'
  BY <1>3, AddingStep
<1>7. Freeing'
  BY <1>3, FreeingStep
<1>8. RegisteredStays'
  BY <1>2, <1>3, RegisteredStep
<1>. QED
  BY <1>4, <1>5, <1>6, <1>7, <1>8

\* Every step that follows a bad pointer is one of the five.
LEMMA CrashStep ==
  ASSUME IInv, Step
  PROVE  CrashesExplained'
<1> USE DEF CrashesExplained, Crash, driver, cursors, parts
<1>1. SUFFICES ASSUME oops'
               PROVE  \/ item' = "null" \/ \E p \in Proc : app'[p] = "nomem"
                      \/ mod' \in Loading \cup {"kfree", "gone"} /\ armed'
                      \/ mod' = "aborted"
                      \/ mod' \in {"free", "flush"} /\ "overlap" \in races'
                      \/ "reset" \in races'
  OBVIOUS
<1>2. ~oops /\ TypeOK
  BY DEF Step, IInv
<1>3. ASSUME NEW p \in Proc, Register(p) \/ LockToAdd(p) \/ Expire(p)
      PROVE  mod' = "aborted"
  BY <1>1, <1>2, <1>3 DEF Register, LockToAdd, Expire
<1>11. ASSUME NEW p \in Proc, NoMemory(p)
       PROVE  app'[p] = "nomem"
  BY <1>2, <1>11 DEF NoMemory, TypeOK
<1>4. ASSUME NEW p \in Proc, Add(p)
      PROVE  mod' = "aborted" \/ "reset" \in races'
  <2>1. /\ app[p] = "adding" /\ mod' = mod /\ races' = races
        /\ mod = "aborted" \/ Bad(first[p])
    BY <1>1, <1>2, <1>4 DEF Add
  <2>2. Bad(first[p]) => "reset" \in races
    BY <1>2, <2>1, Links DEF IInv, Locked, Adding
  <2>. QED
    BY <2>1, <2>2
<1>5. ASSUME TimerFires
      PROVE  (mod' \in Loading \cup {"kfree", "gone"} /\ armed') \/ mod' = "aborted"
  <2>1. /\ armed /\ armed' = armed /\ mod' = mod
        /\ mod \in Absent \/ queue # "live" \/ item # "live"
    BY <1>1, <1>2, <1>5 DEF TimerFires
  <2>2. mod \notin Present /\ mod # "failed"
    BY <2>1 DEF IInv, Parts, Cycle, Present, Absent
  <2>3. mod \in Loading \cup {"loaded"} \cup Leaving \cup Absent
    BY <1>2 DEF TypeOK
  <2>. QED
    BY <2>1, <2>2, <2>3 DEF Present, Loading, Leaving, Absent
<1>6. ASSUME Visit
      PROVE  (mod' \in {"free", "flush"} /\ "overlap" \in races') \/ "reset" \in races'
  <2>1. /\ work = "scan" /\ pos # NULL /\ mod' = mod /\ races' = races
        /\ Bad(pos) \/ Bad(n)
    BY <1>1, <1>2, <1>6 DEF Visit
  <2>2. SUFFICES ASSUME "reset" \notin races
                 PROVE  mod \in {"free", "flush"} /\ "overlap" \in races
    BY <2>1
  <2>3. mod \in Present
    BY <2>1 DEF IInv, Cycle, Busy
  <2>4. Scanning
    BY <2>2 DEF IInv, Locked
  <2>5. mod \notin InUse
    <3>1. SUFFICES ASSUME mod \in InUse
                   PROVE  FALSE
      OBVIOUS
    <3>2. Linked(pos) /\ n = After(list, pos) /\ pos \in Node
      BY <1>2, <2>1, <2>4, <3>1 DEF Scanning, TypeOK
    <3>3. ~Bad(pos) /\ ~Bad(n)
      BY <1>2, <2>1, <3>2, Links DEF Bad
    <3>. QED
      BY <2>1, <3>3
  <2>. QED
    BY <2>1, <2>3, <2>4, <2>5 DEF Present, InUse, Loading, Scanning
<1>7. ASSUME FreeNode
      PROVE  (mod' = "free" /\ "overlap" \in races') \/ "reset" \in races'
  <2>1. /\ mod = "free" /\ xpos # NULL /\ mod' = mod /\ races' = races
        /\ Bad(xpos) \/ Bad(xn)
    BY <1>1, <1>2, <1>7 DEF FreeNode
  <2>2. SUFFICES ASSUME "reset" \notin races
                 PROVE  "overlap" \in races
    BY <2>1
  <2>3. Freeing
    BY <2>2 DEF IInv, Locked
  <2>4. ~(xpos = First /\ xn = (IF First = NULL THEN NULL ELSE After(list, First)))
    BY <1>2, <2>1, Links
  <2>. QED
    BY <2>1, <2>3, <2>4 DEF Freeing
<1>8. ~(WorkStarts \/ LockToScan \/ UnlockAfterScan \/ Rearm)
  BY <1>1, <1>2 DEF WorkStarts, LockToScan, UnlockAfterScan, Rearm
<1>9. ~(MakeFile \/ StartTimer \/ MakeQueue \/ InitLock \/ RemoveFile)
  BY <1>1, <1>2 DEF MakeFile, StartTimer, MakeQueue, InitLock, RemoveFile
<1>12. MakeWork => item' = "null"
  BY <1>1, <1>2 DEF MakeWork
<1>10. ~(DeleteTimer \/ ListFreed \/ FlushQueue \/ DestroyQueue \/ FreeWork)
  BY <1>1, <1>2 DEF DeleteTimer, ListFreed, FlushQueue, DestroyQueue, FreeWork
<1>. QED
  BY <1>3, <1>4, <1>5, <1>6, <1>7, <1>8, <1>9, <1>10, <1>11, <1>12
     DEF Step, HandlerStep, WorkStep, LoadStep, LeaveStep

-----------------------------------------------------------------------------
(* The theorems. *)

\* The invariant holds at first, and every step keeps it.
LEMMA Initially == Init => IInv
<1> SUFFICES ASSUME Init PROVE IInv
  OBVIOUS
<1>1. list = <<>> /\ Range(list) = {}
  BY DEF Init, Range
<1>2. list \in Seq(Proc) /\ IsInjective(list)
  BY <1>1 DEF IsInjective
<1>3. TypeOK
  BY <1>2 DEF Init, TypeOK, Node, Loading
<1>4. Parts /\ Cycle /\ CrashesExplained
  BY DEF Init, Parts, Cycle, Busy, Present, CrashesExplained
<1>5. Handlers
  BY <1>1 DEF Init, Handlers, Linked
<1>6. Locked
  BY ProcAssumption DEF Init, Locked, Locks, Scanning, Adding, Freeing, RegisteredStays
<1>. QED
  BY <1>3, <1>4, <1>5, <1>6 DEF IInv

\* Every step keeps the inductive invariant.
LEMMA Preserved == IInv /\ [Next]_vars => IInv'
<1> SUFFICES ASSUME IInv, [Next]_vars PROVE IInv'
  OBVIOUS
<1>1. CASE Step
  <2>1. TypeOK /\ Parts /\ Cycle /\ Handlers /\ Locked
    BY DEF IInv
  <2>2. TypeOK'
    BY <1>1, <2>1, TypeStep
  <2>3. Parts' /\ Cycle'
    BY <1>1, <2>1, PartsStep, CycleStep
  <2>4. Handlers'
    BY <1>1, <2>1, HandlersStep
  <2>5. Locked'
    BY <1>1, <2>1, LockedStep
  <2>6. CrashesExplained'
    BY <1>1, CrashStep
  <2>. QED
    BY <2>2, <2>3, <2>4, <2>5, <2>6 DEF IInv
<1>2. CASE UNCHANGED vars
  BY <1>2 DEF vars, driver, cursors, parts, IInv, TypeOK, Parts, Cycle, Busy, Handlers, FileExists,
              Linked, Locked, Locks, Scanning, Adding, Freeing, RegisteredStays, First, Bad,
              CrashesExplained
<1>. QED
  BY <1>1, <1>2 DEF Next, Step

\* Types, the parts of the module, the cycle of timer and work, the lock and
\* what it protects, and the explanation of every crash hold in every state.
THEOREM Inductive == Spec => []IInv
<1>. QED
  BY Initially, Preserved, PTL DEF Spec

\* However many applications register, while the module is loaded exactly one
\* thing keeps the five-second cycle going.
THEOREM OneThingGoesOn == Spec => []CycleAlive
<1>1. IInv => CycleAlive
  BY DEF IInv, TypeOK, Cycle, Busy, CycleAlive
<1>. QED
  BY <1>1, Inductive, PTL

\* No scan and no other registration drops a process that still runs.
THEOREM StaysOn == Spec => []RegisteredStays
<1>1. IInv => RegisteredStays
  BY DEF IInv, Locked, RegisteredStays
<1>. QED
  BY <1>1, Inductive, PTL

\* The cursors of the scan, and the node a registration links to, are on the
\* list as long as the module is loaded.
THEOREM CursorsStayOn == Spec => []CursorsListed
<1>1. IInv => CursorsListed
  <2> SUFFICES ASSUME IInv, mod \in InUse, "reset" \notin races
               PROVE  /\ work = "scan" => ~Bad(pos) /\ ~Bad(n)
                      /\ \A p \in Proc : app[p] = "adding" => first[p] = First
    BY DEF CursorsListed, InUse
  <2>1. TypeOK /\ Scanning /\ Adding
    BY DEF IInv, Locked
  <2>2. work = "scan" => ~Bad(pos) /\ ~Bad(n)
    BY <2>1, Links DEF Scanning, Bad, TypeOK
  <2>. QED
    BY <2>1, <2>2 DEF Adding
<1>. QED
  BY <1>1, Inductive, PTL

\* The kernel follows a bad pointer in the five cases of CrashesExplained only,
\* the allocations that nobody tests among them.
THEOREM CrashCauses == Spec => []CrashesExplained
<1>1. IInv => CrashesExplained
  BY DEF IInv
<1>. QED
  BY <1>1, Inductive, PTL

=============================================================================
