---------------------------- MODULE CpuTimeList ----------------------------
(***************************************************************************)
(* CS423/MP1: the kernel module mp1.c, which keeps a list of registered    *)
(* processes and, every five seconds, lets a timer queue a work item that  *)
(* reads their CPU times and drops the processes that have ended.          *)
(*                                                                         *)
(* The actors are the applications, which write their pid to               *)
(* /proc/mp1/status, the timer, the worker thread, and the thread that     *)
(* loads and unloads the module. The list is walked one node at a time,    *)
(* with both cursors of list_for_each_entry_safe, because unloading walks  *)
(* it without the lock; list_add is the read of the first node and the     *)
(* writes that follow it. The pids and CPU times themselves are left out,  *)
(* and so is mp1_read, which changes nothing, but for its allocation.      *)
(***************************************************************************)
EXTENDS KernelList

CONSTANT Proc  \* the applications, each with its node of the list

\* The lock is held by an application, by the worker thread or by nobody.
ASSUME ProcAssumption == NULL \notin Proc /\ "work" \notin Proc /\ "none" \notin Proc

VARIABLES
  list,     \* mp1_proc_list, first node first
  app,      \* where each application is
  first,    \* what list_add of each application read as the first node
  lock,     \* who holds mp1_lock
  armed,    \* mp1_timer is pending
  pending,  \* mp1_work is queued and has not started
  work,     \* where mp1_work_function is
  pos, n,   \* its cursors
  queue,    \* mp1_workqueue
  item,     \* the memory mp1_work points to
  mod,      \* the next step of mp1_init or mp1_exit
  xpos, xn, \* the cursors of mp1_exit
  oops,     \* the kernel has followed a bad pointer, or used memory that is not
            \* initialised: what becomes of it then is left open
  races     \* history: "reset", mp1_lock was held when mp1_init initialised it;
            \* "overlap", the scan was in the list while mp1_exit freed it

driver == <<armed, pending, work>>
cursors == <<pos, n, xpos, xn>>
parts == <<queue, item, mod>>
vars == <<list, app, first, lock, driver, cursors, parts, oops, races>>

Node == Proc \cup {NULL}
Loading == {"proc", "timer", "queue", "work", "lockinit"}
Leaving == {"deltimer", "free", "flush", "destroy", "kfree"}
\* The code is gone: unloaded, or loading failed and it was thrown away,
\* in the second case ("aborted") with the timer and the file left behind.
Absent == {"gone", "failed", "aborted"}
FileExists == mod \in (Loading \ {"proc"}) \cup {"loaded", "aborted"}

TypeOK ==
  /\ list \in Seq(Proc) /\ IsInjective(list)
  /\ app \in [Proc -> {"start", "link", "adding", "listed", "unlisted", "ended",
                    "nomem"}]
  /\ first \in [Proc -> Node]
  /\ lock \in Proc \cup {"none", "work"}
  /\ armed \in BOOLEAN /\ pending \in BOOLEAN
  /\ oops \in BOOLEAN /\ races \subseteq {"reset", "overlap"}
  /\ work \in {"idle", "lock", "scan", "rearm"}
  /\ pos \in Node /\ n \in Node /\ xpos \in Node /\ xn \in Node
  /\ queue \in {"none", "live", "destroyed"}
  /\ item \in {"none", "null", "live", "freed"}
  /\ mod \in Loading \cup {"loaded"} \cup Leaving \cup Absent

Init ==
  /\ list = <<>>
  /\ app = [p \in Proc |-> "start"]
  /\ first = [p \in Proc |-> NULL]
  /\ lock = "none"
  /\ armed = FALSE /\ pending = FALSE /\ work = "idle"
  /\ pos = NULL /\ n = NULL /\ xpos = NULL /\ xn = NULL
  /\ queue = "none" /\ item = "none" /\ mod = "proc"
  /\ oops = FALSE /\ races = {}

Linked(p) == p \in Range(list)
First == FirstNode(list)

\* A node that has left the list is freed, its links poisoned: whoever reads
\* or unlinks it follows a bad pointer.
Bad(p) == p # NULL /\ ~Linked(p)

Crash == /\ oops' = TRUE
         /\ UNCHANGED <<list, app, first, lock, driver, cursors, parts, races>>

-----------------------------------------------------------------------------
(* The applications. *)

\* userapp.c: echo <pid> > /proc/mp1/status, up to the lock. Without the file
\* the application goes on unregistered.
Register(p) ==
  /\ app[p] = "start"
  /\ IF mod = "aborted" THEN Crash
     ELSE /\ app' = [app EXCEPT ![p] = IF FileExists THEN "link" ELSE "unlisted"]
          /\ UNCHANGED <<list, first, lock, driver, cursors, parts, oops, races>>

\* A kmalloc of mp1_write, or of mp1_read, gives no memory: neither looks.
NoMemory(p) ==
  /\ app[p] \in {"start", "listed", "unlisted"} /\ FileExists /\ mod # "aborted"
  /\ app' = [app EXCEPT ![p] = "nomem"]
  /\ oops' = TRUE
  /\ UNCHANGED <<list, first, lock, driver, cursors, parts, races>>

\* Mutant: the registration does not take the lock.
LockToAddUnlocked(p) ==
  /\ app[p] = "link"
  /\ first' = [first EXCEPT ![p] = First]
  /\ app' = [app EXCEPT ![p] = "adding"]
  /\ UNCHANGED <<list, lock, driver, cursors, parts, oops, races>>

LockToAdd(p) ==
  /\ app[p] = "link"
  /\ IF mod = "aborted" THEN Crash
     ELSE /\ lock = "none"
          /\ lock' = p
          /\ first' = [first EXCEPT ![p] = First]
          /\ app' = [app EXCEPT ![p] = "adding"]
          /\ UNCHANGED <<list, driver, cursors, parts, oops, races>>

\* The new node goes before the node that was first, whatever was put before
\* that one meanwhile.
Add(p) ==
  /\ app[p] = "adding"
  /\ IF mod = "aborted" \/ Bad(first[p]) THEN Crash
     ELSE /\ list' = <<p>> \o From(list, first[p])
          /\ lock' = "none"
          /\ first' = [first EXCEPT ![p] = NULL]
          /\ app' = [app EXCEPT ![p] = "listed"]
          /\ UNCHANGED <<driver, cursors, parts, oops, races>>

Expire(p) ==
  /\ app[p] \in {"listed", "unlisted"}
  /\ app' = [app EXCEPT ![p] = "ended"]
  /\ UNCHANGED <<list, first, lock, driver, cursors, parts, oops, races>>

-----------------------------------------------------------------------------
(* The timer and the worker thread. *)

\* Mutant: the callback sets the timer again as well as queueing the work.
TimerFiresPeriodic ==
  /\ armed
  /\ mod \in Loading \cup Absent => FALSE
  /\ pending' = TRUE
  /\ UNCHANGED <<list, app, first, lock, armed, work, cursors, parts, oops, races>>

TimerFires ==
  /\ armed
  /\ IF mod \in Absent \/ queue # "live" \/ item # "live" THEN Crash
     ELSE /\ armed' = FALSE
          /\ pending' = TRUE
          /\ UNCHANGED <<list, app, first, lock, work, cursors, parts, oops, races>>

WorkStarts ==
  /\ pending /\ work = "idle"
  /\ pending' = FALSE
  /\ work' = "lock"
  /\ UNCHANGED <<list, app, first, lock, armed, cursors, parts, oops, races>>

LockToScan ==
  /\ work = "lock" /\ lock = "none"
  /\ lock' = "work"
  /\ work' = "scan"
  /\ pos' = First
  /\ n' = IF First = NULL THEN NULL ELSE After(list, First)
  /\ races' = IF mod = "free" THEN races \cup {"overlap"} ELSE races
  /\ UNCHANGED <<list, app, first, armed, pending, xpos, xn, parts, oops>>

\* Mutant: list_for_each_entry instead of list_for_each_entry_safe.
VisitUnsafe ==
  /\ work = "scan" /\ pos # NULL
  /\ IF Bad(pos) \/ app[pos] = "ended" THEN Crash
     ELSE /\ pos' = After(list, pos)
          /\ UNCHANGED <<list, app, first, lock, driver, n, xpos, xn, parts, oops,
                         races>>

\* get_cpu_use on the node at pos, its removal when the process has ended, and
\* the advance of both cursors.
Visit ==
  /\ work = "scan" /\ pos # NULL
  /\ IF Bad(pos) \/ Bad(n) THEN Crash
     ELSE /\ list' = IF app[pos] = "ended" THEN Del(list, pos) ELSE list
          /\ pos' = n
          /\ n' = IF n = NULL THEN NULL ELSE After(list, n)
          /\ UNCHANGED <<app, first, lock, driver, xpos, xn, parts, oops, races>>

UnlockAfterScan ==
  /\ work = "scan" /\ pos = NULL
  /\ lock' = "none"
  /\ work' = "rearm"
  /\ UNCHANGED <<list, app, first, armed, pending, cursors, parts, oops, races>>

\* Mutant: the work does not set the timer.
RearmForgotten ==
  /\ work = "rearm"
  /\ work' = "idle"
  /\ UNCHANGED <<list, app, first, lock, armed, pending, cursors, parts, oops, races>>

Rearm ==
  /\ work = "rearm"
  /\ armed' = TRUE
  /\ work' = "idle"
  /\ UNCHANGED <<list, app, first, lock, pending, cursors, parts, oops, races>>

-----------------------------------------------------------------------------
(* mp1_init. *)

MakeFile ==
  /\ mod = "proc"
  /\ mod' \in {"timer", "failed"}
  /\ UNCHANGED <<list, app, first, lock, driver, cursors, queue, item, oops, races>>

StartTimer ==
  /\ mod = "timer"
  /\ armed' = TRUE
  /\ mod' = "queue"
  /\ UNCHANGED <<list, app, first, lock, pending, work, cursors, queue, item, oops,
                 races>>

MakeQueue ==
  /\ mod = "queue"
  /\ \/ queue' = "live" /\ mod' = "work"
     \/ queue' = "none" /\ mod' = "aborted"
  /\ UNCHANGED <<list, app, first, lock, driver, cursors, item, oops, races>>

\* INIT_WORK writes to what kmalloc returned, the null pointer included.
MakeWork ==
  /\ mod = "work"
  /\ \/ item' = "live" /\ mod' = "lockinit" /\ UNCHANGED oops
     \/ item' = "null" /\ oops' = TRUE /\ UNCHANGED mod
  /\ UNCHANGED <<list, app, first, lock, driver, cursors, queue, races>>

InitLock ==
  /\ mod = "lockinit"
  /\ lock' = "none"
  /\ races' = IF lock = "none" THEN races ELSE races \cup {"reset"}
  /\ mod' = "loaded"
  /\ UNCHANGED <<list, app, first, driver, cursors, queue, item, oops>>

-----------------------------------------------------------------------------
(* mp1_exit. *)

\* remove_proc_entry waits for the handlers that are inside the file.
RemoveFile ==
  /\ mod = "loaded"
  /\ \A p \in Proc : app[p] \notin {"link", "adding"}
  /\ mod' = "deltimer"
  /\ UNCHANGED <<list, app, first, lock, driver, cursors, queue, item, oops, races>>

\* del_timer_sync, and the first node of the walk.
DeleteTimer ==
  /\ mod = "deltimer"
  /\ armed' = FALSE
  /\ mod' = "free"
  /\ xpos' = First
  /\ xn' = IF First = NULL THEN NULL ELSE After(list, First)
  /\ races' = IF work = "scan" THEN races \cup {"overlap"} ELSE races
  /\ UNCHANGED <<list, app, first, lock, pending, work, pos, n, queue, item, oops>>

FreeNode ==
  /\ mod = "free" /\ xpos # NULL
  /\ IF Bad(xpos) \/ Bad(xn) THEN Crash
     ELSE /\ list' = Del(list, xpos)
          /\ xpos' = xn
          /\ xn' = IF xn = NULL THEN NULL ELSE After(list, xn)
          /\ UNCHANGED <<app, first, lock, driver, pos, n, parts, oops, races>>

ListFreed ==
  /\ mod = "free" /\ xpos = NULL
  /\ mod' = "flush"
  /\ UNCHANGED <<list, app, first, lock, driver, cursors, queue, item, oops, races>>

Idle == ~pending /\ work = "idle"

FlushQueue ==
  /\ mod = "flush" /\ Idle
  /\ mod' = "destroy"
  /\ UNCHANGED <<list, app, first, lock, driver, cursors, queue, item, oops, races>>

DestroyQueue ==
  /\ mod = "destroy" /\ Idle
  /\ queue' = "destroyed"
  /\ mod' = "kfree"
  /\ UNCHANGED <<list, app, first, lock, driver, cursors, item, oops, races>>

FreeWork ==
  /\ mod = "kfree"
  /\ item' = "freed"
  /\ mod' = "gone"
  /\ UNCHANGED <<list, app, first, lock, driver, cursors, queue, oops, races>>

-----------------------------------------------------------------------------
WorkStep == WorkStarts \/ LockToScan \/ Visit \/ UnlockAfterScan \/ Rearm
LoadStep == MakeFile \/ StartTimer \/ MakeQueue \/ MakeWork \/ InitLock
LeaveStep == DeleteTimer \/ FreeNode \/ ListFreed \/ FlushQueue \/ DestroyQueue \/ FreeWork
HandlerStep(p) == LockToAdd(p) \/ Add(p)

\* Nothing is left to run: the kernel has stopped, or the module is away and
\* every application has ended.
Over == oops \/ (mod \in Absent /\ ~armed /\ \A p \in Proc : app[p] = "ended")

Next ==
  \/ /\ ~oops
     /\ \/ \E p \in Proc : \/ Register(p) \/ NoMemory(p)
                          \/ HandlerStep(p) \/ Expire(p)
        \/ TimerFires \/ WorkStep
        \/ LoadStep \/ RemoveFile \/ LeaveStep
  \/ Over /\ UNCHANGED vars

\* The timer interrupt, the worker thread, the thread inside mp1_init or
\* mp1_exit and a process inside a handler go on; applications need not end,
\* and nobody need call rmmod. Few enough processes contend for the spin lock
\* that the worker gets it.
Fairness ==
  /\ WF_vars(~oops /\ TimerFires)
  /\ WF_vars(~oops /\ WorkStep)
  /\ WF_vars(~oops /\ LoadStep)
  /\ WF_vars(~oops /\ LeaveStep)
  /\ \A p \in Proc : WF_vars(~oops /\ HandlerStep(p))

Spec == Init /\ [][Next]_vars
FairSpec == Spec /\ Fairness

-----------------------------------------------------------------------------
(* Properties. *)

\* While the module is loaded exactly one thing keeps the five-second cycle
\* going: the timer is pending, or the work is queued, or it runs (mp1.c:100,
\* mp1.c:119). With none the list would never be updated again; with two the
\* work would run twice in one interval. Unloading never adds a second.
CycleAlive ==
  LET count == (IF armed THEN 1 ELSE 0) + (IF pending THEN 1 ELSE 0)
               + (IF work # "idle" THEN 1 ELSE 0)
  IN  /\ mod \in {"loaded", "deltimer"} /\ ~oops => count = 1
      /\ count <= 1

\* A process that has registered and still runs stays on the list until mp1_exit
\* starts to free it: neither a scan nor another registration drops it, unless
\* the lock was initialised under somebody who held it.
RegisteredStays ==
  "reset" \notin races =>
    \A p \in Proc : app[p] = "listed" /\ mod \in Loading \cup {"loaded", "deltimer"}
                      => Linked(p)

\* No cursor of the scan and no node a registration is about to link to leaves
\* the list while the module is loaded.
CursorsListed ==
  mod \in Loading \cup {"loaded", "deltimer"} /\ "reset" \notin races =>
    /\ work = "scan" => ~Bad(pos) /\ ~Bad(n)
    /\ \A p \in Proc : app[p] = "adding" => first[p] = First

\* The kernel follows a bad pointer in five cases only: an allocation has failed
\* that nobody tests, in a handler (mp1.c:45, 70, 74) or in mp1_init (mp1.c:153);
\* the timer goes off before the workqueue and the work exist (mp1.c:144), or after
\* they or the code are gone; loading has failed with the file in place (mp1.c:149);
\* the scan is in progress while mp1_exit frees the list without the lock
\* (mp1.c:182); or the lock was initialised while it was held (mp1.c:157).
\* A loaded module that nobody unloads is safe as long as there is memory.
CrashesExplained ==
  oops => \/ item = "null" \/ \E p \in Proc : app[p] = "nomem"
          \/ mod \in Loading \cup {"kfree", "gone"} /\ armed
          \/ mod = "aborted"
          \/ mod \in {"free", "flush"} /\ "overlap" \in races
          \/ "reset" \in races

\* A process that has ended is dropped from the list (mp1.c:111-114), unless
\* the kernel stops first.
Reaped == \A p \in Proc : (app[p] = "ended" /\ Linked(p)) ~> (~Linked(p) \/ oops)
=============================================================================
