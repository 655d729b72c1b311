------------------------------ MODULE Profiler ------------------------------
(***************************************************************************)
(* CS423/MP3: the kernel module mp3.c, which samples the page faults and   *)
(* the CPU time of the registered processes every 50 ms into a buffer that *)
(* a monitor maps, and the processes that register and unregister (work.c).*)
(*                                                                         *)
(* A delayed work item does the sampling: it is queued by the first        *)
(* registration, queues itself again at the end of every run, and is       *)
(* cancelled by the last unregistration and by mp3_exit. The actors are    *)
(* the processes, the timer of the delayed work, the worker thread, and    *)
(* the thread that loads and unloads the module. The handlers take         *)
(* mp3_lock in one step and do what it guards, and unlock, in another; the *)
(* scan goes node by node, for mp3_exit does not lock it out. The numbers  *)
(* sampled, mp3_cdev_mmap, and mp3_read but for its allocation, are left   *)
(* out.                                                                    *)
(***************************************************************************)
EXTENDS KernelList

CONSTANT Proc  \* the processes, each with its mp3_task_struct

ASSUME ProcAssumption == NULL \notin Proc

VARIABLES
  list,       \* mp3_task_struct_list, first node first
  app,        \* where each process is
  timer,      \* the timer of mp3_delayed_work is pending
  queued,     \* mp3_delayed_work is on the workqueue
  dwq,        \* the workqueue it was last queued for, a null pointer at first
  work,       \* where mp3_work_function is
  tmp,        \* the node the scan stands on
  mod,        \* the next step of mp3_init or mp3_exit
  xpos, xn,   \* the cursors of mp3_exit
  owned,      \* what mp3_init has acquired and nobody has released
  wq,         \* mp3_workqueue, which goes on pointing to where a workqueue was
  buffer,     \* what profiler_buffer points to
  oops,       \* the kernel has followed a bad pointer, or mp3_lock was initialised
              \* while it was held: what becomes of it then is left open
  races       \* history: "late cancel", a first registration came between
              \* the list_empty and the cancel of an unregistration; "overlap",
              \* the scan was in the list while mp3_exit freed it

delayed == <<timer, queued, dwq, work, tmp>>
unload == <<mod, xpos, xn, owned, wq, buffer>>
vars == <<list, app, delayed, unload, oops, races>>

Resources == {"dir", "file", "workqueue", "region", "cdev"}

\* mp3_init: what follows each call, and the label it jumps to when it fails.
Following == [dir |-> "file", file |-> "lockinit", workqueue |-> "region",
              region |-> "cdev", cdev |-> "vmalloc"]
OnFailure == [dir |-> "failed", file |-> "out_proc_dir", workqueue |-> "out_proc_entry",
              region |-> "out_workqueue", cdev |-> "out_chrdev_region",
              vmalloc |-> "out_cdev"]

\* Its labels: what each of them releases, and the next.
Releases == [out_cdev |-> "cdev", out_chrdev_region |-> "region",
             out_workqueue |-> "workqueue", out_proc_entry |-> "file",
             out_proc_dir |-> "dir"]
FallsTo == [out_cdev |-> "out_chrdev_region", out_chrdev_region |-> "out_workqueue",
            out_workqueue |-> "out_proc_entry", out_proc_entry |-> "out_proc_dir",
            out_proc_dir |-> "failed"]

Loading == Resources \cup {"lockinit", "vmalloc"}
Failing == {"out_cdev", "out_chrdev_region", "out_workqueue", "out_proc_entry",
            "out_proc_dir"}
Leaving == {"free", "cancel", "flush", "destroy", "device", "vfree"}
InSection == {"adding", "removing"}
InHandler == {"register", "unregister", "test", "cancel", "flush", "kfree"} \cup InSection
Node == Proc \cup {NULL}

TypeOK ==
  /\ list \in Seq(Proc) /\ IsInjective(list)
  /\ app \in [Proc -> InHandler \cup {"start", "run", "end", "nomem"}]
  /\ timer \in BOOLEAN /\ queued \in BOOLEAN /\ oops \in BOOLEAN
  /\ work \in {"idle", "lock", "scan", "write", "requeue"}
  /\ tmp \in Node /\ xpos \in Node /\ xn \in Node
  /\ mod \in Loading \cup Failing \cup {"loaded"} \cup Leaving \cup {"gone", "failed"}
  /\ owned \subseteq Resources \cup {"first buffer", "buffer"}
  /\ wq \in {"null", "queue"} /\ dwq \in {"null", "queue"}
  /\ buffer \in {"none", "live", "freed"}
  /\ races \subseteq {"late cancel", "overlap"}

Init ==
  /\ list = <<>>
  /\ app = [p \in Proc |-> "start"]
  /\ timer = FALSE /\ queued = FALSE /\ work = "idle" /\ tmp = NULL
  /\ mod = "dir" /\ xpos = NULL /\ xn = NULL
  /\ owned = {} /\ wq = "null" /\ dwq = "null" /\ buffer = "none"
  /\ oops = FALSE /\ races = {}

Linked(p) == p \in Range(list)
First == FirstNode(list)
Bad(p) == p # NULL /\ ~Linked(p)

\* There is a workqueue: a pointer to it is good from here on until it goes.
Queue == "workqueue" \in owned
CodePresent == mod \notin {"gone", "failed"}
Pending == timer \/ queued

\* queue_delayed_work does nothing when the item is pending already, and else
\* takes mp3_workqueue as it is.
QueueDelayed == IF Pending THEN UNCHANGED <<timer, dwq>> ELSE timer' = TRUE /\ dwq' = wq

Crash == oops' = TRUE /\ UNCHANGED <<list, app, delayed, unload, races>>

\* Nobody holds mp3_lock.
LockFree == work # "scan" /\ \A p \in Proc : app[p] \notin InSection

-----------------------------------------------------------------------------
(* mp3_register_processs and mp3_unregister_process *)

\* work.c: echo R or U > /proc/mp3/status. Without the file the process goes on.
Write(p, from, handler, after) ==
  /\ app[p] = from
  /\ app' = [app EXCEPT ![p] = IF "file" \in owned THEN handler ELSE after]
  /\ UNCHANGED <<list, delayed, unload, oops, races>>

\* A kmalloc of mp3_write, mp3_register_processs or mp3_read gives no memory:
\* nobody looks.
NoMemory(p) ==
  /\ app[p] \in {"start", "register", "run"} /\ "file" \in owned
  /\ app' = [app EXCEPT ![p] = "nomem"]
  /\ oops' = TRUE
  /\ UNCHANGED <<list, delayed, unload, races>>

\* Mutant: the lock is not taken.
LockOmitted(p) ==
  /\ app[p] \in {"register", "unregister"}
  /\ app' = [app EXCEPT ![p] = IF @ = "register" THEN "adding" ELSE "removing"]
  /\ UNCHANGED <<list, delayed, unload, oops, races>>

\* spin_lock_irqsave
Lock(p) ==
  /\ app[p] \in {"register", "unregister"} /\ LockFree
  /\ app' = [app EXCEPT ![p] = IF @ = "register" THEN "adding" ELSE "removing"]
  /\ UNCHANGED <<list, delayed, unload, oops, races>>

\* To spin_unlock_irqrestore. Without a workqueue the kernel follows the pointer at
\* once, when it looks into it or when delay is not set yet, or when the timer fires.
Register(p) ==
  /\ app[p] = "adding"
  /\ \/ list = <<>> /\ ~Pending /\ ~Queue /\ Crash
     \/ /\ IF list = <<>> THEN QueueDelayed ELSE UNCHANGED <<timer, dwq>>
        /\ list' = <<p>> \o list
        /\ app' = [app EXCEPT ![p] = "run"]
        /\ races' = IF list = <<>> /\ \E q \in Proc : app[q] = "cancel"
                    THEN races \cup {"late cancel"} ELSE races
        /\ UNCHANGED <<queued, work, tmp, unload, oops>>

\* The result of __get_task_by_pid is not compared with NULL.
Unregister(p) ==
  /\ app[p] = "removing"
  /\ IF ~Linked(p) THEN Crash
     ELSE /\ list' = Del(list, p)
          /\ app' = [app EXCEPT ![p] = "test"]
          /\ UNCHANGED <<delayed, unload, oops, races>>

\* Mutant: the work is cancelled whoever else is registered.
TestEmptyOmitted(p) ==
  /\ app[p] = "test"
  /\ app' = [app EXCEPT ![p] = "cancel"]
  /\ UNCHANGED <<list, delayed, unload, oops, races>>

\* list_empty, without the lock.
TestEmpty(p) ==
  /\ app[p] = "test"
  /\ app' = [app EXCEPT ![p] = IF list = <<>> THEN "cancel" ELSE "kfree"]
  /\ UNCHANGED <<list, delayed, unload, oops, races>>

\* A pending timer is deleted; an item on the queue is removed by newer kernels
\* only, and one that runs goes on.
CancelDelayed == timer' = FALSE /\ queued' \in {FALSE, queued}

Cancel(p) ==
  /\ app[p] = "cancel"
  /\ CancelDelayed
  /\ app' = [app EXCEPT ![p] = "flush"]
  /\ UNCHANGED <<list, dwq, work, tmp, unload, oops, races>>

Idle == ~queued /\ work = "idle"

\* flush_workqueue waits for the item that is queued or runs, not for a timer.
Flush(p) ==
  /\ app[p] = "flush"
  /\ IF ~Queue THEN Crash
     ELSE /\ Idle
          /\ app' = [app EXCEPT ![p] = "kfree"]
          /\ UNCHANGED <<list, delayed, unload, oops, races>>

Free(p) ==
  /\ app[p] = "kfree"
  /\ app' = [app EXCEPT ![p] = "end"]
  /\ UNCHANGED <<list, delayed, unload, oops, races>>

HandlerStep(p) == Lock(p) \/ Register(p) \/ Unregister(p) \/ TestEmpty(p) \/ Cancel(p)
                  \/ Flush(p) \/ Free(p)

-----------------------------------------------------------------------------
(* The delayed work *)

\* delayed_work_timer_fn reads the item, which is data of the module, and puts
\* it on the workqueue it was queued for.
TimerFires ==
  /\ timer
  /\ IF ~CodePresent \/ dwq = "null" \/ ~Queue THEN Crash
     ELSE /\ timer' = FALSE
          /\ queued' = TRUE
          /\ UNCHANGED <<list, app, dwq, work, tmp, unload, oops, races>>

WorkStarts ==
  /\ queued /\ work = "idle"
  /\ queued' = FALSE
  /\ work' = "lock"
  /\ UNCHANGED <<list, app, timer, dwq, tmp, unload, oops, races>>

LockToScan ==
  /\ work = "lock" /\ LockFree
  /\ work' = "scan"
  /\ tmp' = First
  /\ races' = IF mod = "free" THEN races \cup {"overlap"} ELSE races
  /\ UNCHANGED <<list, app, timer, queued, dwq, unload, oops>>

\* get_cpu_use for the node, whether its process exists or not.
Visit ==
  /\ work = "scan" /\ tmp # NULL
  /\ IF Bad(tmp) THEN Crash
     ELSE /\ tmp' = After(list, tmp)
          /\ UNCHANGED <<list, app, timer, queued, dwq, work, unload, oops, races>>

Unlock ==
  /\ work = "scan" /\ tmp = NULL
  /\ work' = "write"
  /\ UNCHANGED <<list, app, timer, queued, dwq, tmp, unload, oops, races>>

\* Four words at profiler_ptr.
WriteSample ==
  /\ work = "write"
  /\ IF buffer # "live" THEN Crash
     ELSE /\ work' = "requeue"
          /\ UNCHANGED <<list, app, timer, queued, dwq, tmp, unload, oops, races>>

\* Mutant: the work does not queue itself again.
RequeueForgotten ==
  /\ work = "requeue"
  /\ work' = "idle"
  /\ UNCHANGED <<list, app, timer, queued, dwq, tmp, unload, oops, races>>

Requeue ==
  /\ work = "requeue"
  /\ QueueDelayed
  /\ work' = "idle"
  /\ UNCHANGED <<list, app, queued, tmp, unload, oops, races>>

WorkStep == WorkStarts \/ LockToScan \/ Visit \/ Unlock \/ WriteSample \/ Requeue

-----------------------------------------------------------------------------
(* mp3_init *)

Acquire(r) ==
  /\ mod = r
  /\ owned' = owned \cup {r}
  /\ mod' = Following[r]
  /\ wq' = IF r = "workqueue" THEN "queue" ELSE wq
  /\ UNCHANGED <<list, app, delayed, xpos, xn, buffer, oops, races>>

\* delay and mp3_lock are set when the file is there already.
InitLock ==
  /\ mod = "lockinit"
  /\ IF \E p \in Proc : app[p] \in InSection THEN Crash
     ELSE /\ mod' = "workqueue"
          /\ UNCHANGED <<list, app, delayed, xpos, xn, owned, wq, buffer, oops, races>>

\* Mutant: a failing vmalloc jumps to out_workqueue.
LoadFailsPastDevice ==
  /\ mod \in DOMAIN OnFailure
  /\ mod' = IF mod = "vmalloc" THEN "out_workqueue" ELSE OnFailure[mod]
  /\ UNCHANGED <<list, app, delayed, xpos, xn, owned, wq, buffer, oops, races>>

LoadFails ==
  /\ mod \in DOMAIN OnFailure
  /\ mod' = OnFailure[mod]
  /\ UNCHANGED <<list, app, delayed, xpos, xn, owned, wq, buffer, oops, races>>

\* A label of mp3_init. The workqueue is drained first, and the file waits for the
\* handlers that are inside; they may use the workqueue when it is away.
Undo(label) ==
  /\ mod = label
  /\ label = "out_workqueue" => Idle
  /\ label = "out_proc_entry" => \A p \in Proc : app[p] \notin InHandler
  /\ owned' = owned \ {Releases[label]}
  /\ mod' = FallsTo[label]
  /\ UNCHANGED <<list, app, delayed, xpos, xn, wq, buffer, oops, races>>

\* The buffer is allocated twice, and the second result is not tested.
AllocateBuffer ==
  /\ mod = "vmalloc"
  /\ \/ buffer' = "live" /\ owned' = owned \cup {"first buffer", "buffer"}
     \/ buffer' = "none" /\ owned' = owned \cup {"first buffer"}
  /\ mod' = "loaded"
  /\ UNCHANGED <<list, app, delayed, xpos, xn, wq, oops, races>>

-----------------------------------------------------------------------------
(* mp3_exit *)

\* remove_proc_entry waits for the handlers inside the file.
RemoveFile ==
  /\ mod = "loaded"
  /\ \A p \in Proc : app[p] \notin InHandler
  /\ owned' = owned \ {"file", "dir"}
  /\ mod' = "free"
  /\ xpos' = First
  /\ xn' = IF First = NULL THEN NULL ELSE After(list, First)
  /\ races' = IF work = "scan" THEN races \cup {"overlap"} ELSE races
  /\ UNCHANGED <<list, app, delayed, wq, buffer, oops>>

FreeNode ==
  /\ mod = "free" /\ xpos # NULL
  /\ list' = Del(list, xpos)
  /\ xpos' = xn
  /\ xn' = IF xn = NULL THEN NULL ELSE After(list, xn)
  /\ UNCHANGED <<app, delayed, mod, owned, wq, buffer, oops, races>>

ExitStep(from, to, released) ==
  /\ mod = from
  /\ mod' = to
  /\ owned' = owned \ released
  /\ UNCHANGED <<list, app, xpos, xn, wq, oops>>

ListFreed == xpos = NULL /\ ExitStep("free", "cancel", {})
             /\ UNCHANGED <<delayed, buffer, races>>
CancelAll == CancelDelayed /\ ExitStep("cancel", "flush", {})
             /\ UNCHANGED <<dwq, work, tmp, buffer, races>>
FlushAll == Idle /\ ExitStep("flush", "destroy", {})
            /\ UNCHANGED <<delayed, buffer, races>>
DestroyQueue == Idle /\ ExitStep("destroy", "device", {"workqueue"})
                /\ UNCHANGED <<delayed, buffer, races>>
DeleteDevice == ExitStep("device", "vfree", {"cdev", "region"})
                /\ UNCHANGED <<delayed, buffer, races>>
FreeBuffer == ExitStep("vfree", "gone", {"buffer"})
              /\ buffer' = (IF buffer = "live" THEN "freed" ELSE buffer)
              /\ UNCHANGED <<delayed, races>>

LoadStep == InitLock \/ AllocateBuffer \/ \E r \in Resources : Acquire(r)
FailStep == LoadFails \/ \E label \in Failing : Undo(label)
ExitSteps == FreeNode \/ ListFreed \/ CancelAll \/ FlushAll \/ DestroyQueue
             \/ DeleteDevice \/ FreeBuffer

-----------------------------------------------------------------------------
Over == oops \/ (~CodePresent /\ ~timer /\ \A p \in Proc : app[p] = "end")

Next ==
  \/ /\ ~oops
     /\ \/ \E p \in Proc : \/ Write(p, "start", "register", "run")
                           \/ Write(p, "run", "unregister", "end")
                           \/ NoMemory(p) \/ HandlerStep(p)
        \/ TimerFires \/ WorkStep
        \/ LoadStep \/ FailStep \/ RemoveFile \/ ExitSteps
  \/ Over /\ UNCHANGED vars

Spec == Init /\ [][Next]_vars

\* Timers, threads and handlers go on. A flush waits for the item it finds, so
\* it ends although the item may be queued again meanwhile.
Fairness ==
  /\ WF_vars(~oops /\ TimerFires)
  /\ WF_vars(~oops /\ WorkStep)
  /\ SF_vars(~oops /\ ExitSteps)
  /\ \A p \in Proc : SF_vars(~oops /\ HandlerStep(p))

FairSpec == Spec /\ Fairness

-----------------------------------------------------------------------------
(* Properties. *)

\* mp3.c:133 "queue the work if this process is the first process": while a
\* process is registered the sampling goes on, through any number of
\* registrations, unregistrations and runs of the work, unless a first
\* registration came between the list_empty and the cancel of an unregistration.
SamplingGoesOn ==
  mod = "loaded" /\ list # <<>> /\ "late cancel" \notin races
    => Pending \/ work # "idle"

\* The kernel follows a bad pointer, or loses its lock, in these cases only: an
\* allocation nobody tests has failed in a handler (mp3.c:94, 123, 192); mp3_lock
\* is initialised while a handler holds it (mp3.c:247); a handler queues for, or
\* flushes, a workqueue that is not there yet or was destroyed when loading failed
\* (mp3.c:135, 183); the work was queued before there was a workqueue, however
\* long it takes the timer to fire, or the workqueue was destroyed meanwhile, by
\* mp3_init (mp3.c:278) or after the work had queued itself behind the cancel of
\* mp3_exit (mp3.c:87); a pid is unregistered that was not registered (mp3.c:178);
\* the second vmalloc failed, or has not been reached (mp3.c:269); or mp3_exit
\* freed the list under the scan (mp3.c:302).
CrashesExplained ==
  oops => \/ \E p \in Proc : app[p] = "nomem"
          \/ mod = "lockinit" /\ \E p \in Proc : app[p] \in InSection
          \/ ~Queue /\ \E p \in Proc : app[p] \in {"adding", "flush"}
          \/ timer /\ dwq = "null"
          \/ timer /\ mod \in {"out_proc_entry", "out_proc_dir", "failed",
                              "device", "vfree", "gone"}
          \/ \E p \in Proc : app[p] = "removing" /\ ~Linked(p)
          \/ buffer = "none" /\ work = "write"
          \/ "overlap" \in races

\* The labels of mp3_init (mp3.c:273-284), entered at six places, release what was
\* acquired: none is reached without what it releases, and nothing is left behind
\* them, nor after unloading but the first of the two buffers (mp3.c:265).
ResourcesReleased ==
  /\ mod \in Failing => Releases[mod] \in owned
  /\ mod = "failed" => owned = {}
  /\ mod = "gone" => owned = {"first buffer"}

\* Once a process has begun to register, and as long as it stays registered, the
\* scan will look at it again, unless the sampling has been lost to the races
\* above or the module goes away.
Profiled ==
  \A p \in Proc :
    (Linked(p) /\ mod = "loaded") ~>
      (~Linked(p) \/ tmp = p \/ mod # "loaded" \/ oops \/ "late cancel" \in races)
=============================================================================
