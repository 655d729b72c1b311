--------------------------- MODULE RateMonotonic ---------------------------
(***************************************************************************)
(* CS423/MP2: the rate-monotonic scheduler kept in a Linux kernel module   *)
(* (mp2.c) and the periodic applications that register with it through     *)
(* /proc/mp2/status (userapp.c, userapp.h).                                *)
(*                                                                         *)
(* The actors are the applications, which run the register, yield and      *)
(* unregister handlers, the dispatching thread, the wake-up timers, and    *)
(* rmmod. Each is split where another actor can observe its half-done      *)
(* work: two writes to shared memory that no common lock covers are two    *)
(* steps. A critical section of mp2_list_mutex, or one of                  *)
(* mp2_current_running_task_mutex that makes a single shared access, is    *)
(* one step; the long critical section of the dispatching thread is four,  *)
(* since the handlers and the timers write task states without the mutex.  *)
(* A timer looks its task up under mp2_lock, which no other code takes: its *)
(* walk along the list is one step per node, and tasks are linked, unlinked *)
(* and freed between them.                                                 *)
(***************************************************************************)
EXTENDS Integers, FiniteSets, FiniteSetsExt

CONSTANTS Task,         \* the applications, each with its mp2_task_struct
          NULL,         \* the null pointer
          Unloads,      \* whether anybody calls rmmod
          Remote,       \* the tasks whose timers fire on a processor of their own
          Period,       \* milliseconds between two releases of a task
          Computation   \* milliseconds of work in each period

util_bound == 6930
multiplier == 10000

ASSUME NullAssumption == NULL \notin Task
ASSUME UnloadsAssumption == Unloads \in BOOLEAN
ASSUME RemoteAssumption == Remote \subseteq Task
ASSUME PeriodAssumption == Period \in [Task -> Nat \ {0}]
\* The product in admission_control is an unsigned 32-bit one; it is exact here.
ASSUME ComputationAssumption ==
          /\ Computation \in [Task -> Nat]
          /\ \A p \in Task : Computation[p] * multiplier <= 2147483647

VARIABLES
  linked,   \* mp2_task_struct_list, as a set: its order only breaks ties
  alloc,    \* the structures taken from mp2_task_struct_cache and not freed
  state,    \* the state field of each structure
  started,  \* tasks whose deadline field is not zero
  armed,    \* tasks whose wakeup_timer is pending
  cb,       \* where the timer_callback of each task is
  wtmp,     \* the node on which the one that holds mp2_lock stands
  ahead,    \* the nodes it found on the list and has not come to yet
  current,  \* current_running_task
  dpc,      \* where the dispatching thread is
  dtmp,     \* its local variable tmp
  dlinux,   \* what Linux does with it: "run" or "sleep"
  stop,     \* kthread_should_stop()
  linux,    \* what Linux does with each application
  prio,     \* the Linux scheduling class of each application
  pc,       \* where each application is
  rm,       \* how far rmmod has got
  pos,      \* the task that mp2_exit has unlinked and not yet freed
  oops,     \* the kernel has followed a bad pointer, or touched freed memory:
            \* what becomes of it then is left open
  verdict   \* history: the answer of admission_control, and whether the list
            \* has grown since

taskVars == <<linked, alloc, state, started>>
walkVars == <<cb, wtmp, ahead>>
timerVars == <<armed, walkVars>>
dispVars == <<dpc, dtmp>>
moduleVars == <<stop, rm, pos>>
vars == <<taskVars, timerVars, current, dispVars, dlinux, moduleVars, linux,
          prio, pc, oops, verdict>>

TaskStates == {"SLEEPING", "READY", "RUNNING", "JUNK"}

\* The places inside a write handler, where remove_proc_entry waits for it.
InHandler == {"admission", "link", "arm", "sleepstate", "clear", "kick",
              "block", "unhook", "free", "nomem"}
AppPlaces == InHandler \cup {"start", "check", "yield", "asleep", "job",
                             "dereg", "exit"}
DispatcherPlaces == {"park", "schedule", "woken", "lock", "preempt", "promote",
                     "wake", "exited"}
CallbackPlaces == {"idle", "lock", "walk", "wake", "dead"}

TypeOK ==
  /\ linked \subseteq Task /\ alloc \subseteq Task /\ started \subseteq Task
  /\ armed \subseteq Task /\ cb \in [Task -> CallbackPlaces]
  /\ wtmp \in Task \cup {NULL} /\ ahead \subseteq Task /\ pos \in Task \cup {NULL}
  /\ state \in [Task -> TaskStates]
  /\ current \in Task \cup {NULL} /\ dtmp \in Task \cup {NULL}
  /\ dpc \in DispatcherPlaces /\ dlinux \in {"run", "sleep"}
  /\ dpc \in {"preempt", "promote", "wake"} <=> dtmp # NULL
  /\ dpc = "preempt" => current # NULL
  /\ linux \in [Task -> {"run", "sleep"}]
  /\ prio \in [Task -> {"normal", "fifo"}]
  /\ pc \in [Task -> AppPlaces]
  /\ rm \in {"loaded", "noproc", "stopping", "unloaded"}
  /\ stop \in BOOLEAN /\ oops \in BOOLEAN
  /\ verdict \in [Task -> {"none", "admitted", "stale", "refused"}]

\* insmod has returned: the list is empty and the dispatching thread runs.
Init ==
  /\ linked = {} /\ alloc = {} /\ started = {}
  /\ armed = {} /\ cb = [p \in Task |-> "idle"] /\ wtmp = NULL /\ ahead = {}
  /\ state = [p \in Task |-> "JUNK"]
  /\ current = NULL
  /\ dpc = "park" /\ dtmp = NULL /\ dlinux = "run"
  /\ stop = FALSE /\ rm = "loaded" /\ pos = NULL
  /\ linux = [p \in Task |-> "run"]
  /\ prio = [p \in Task |-> "normal"]
  /\ pc = [p \in Task |-> "start"]
  /\ oops = FALSE
  /\ verdict = [p \in Task |-> "none"]

-----------------------------------------------------------------------------
(* Helpers *)

Goto(p, place) == pc' = [pc EXCEPT ![p] = place]

\* Mutants: nobody takes the mutex; the dispatching thread keeps it asleep.
MutexNeverTaken == FALSE
MutexKeptAsleep == dpc \notin {"woken", "lock", "exited"}

\* The dispatching thread is inside its critical section. The other sections
\* of mp2_current_running_task_mutex are single steps.
MutexHeld == dpc \in {"preempt", "promote", "wake"}

\* wake_up_process(mp2_dispatch_thread): no effect on a thread that runs; the
\* thread's own descriptor is gone once it has returned.
WakeDispatcher ==
  IF dpc = "exited" THEN oops' = TRUE /\ UNCHANGED dlinux
                    ELSE dlinux' = "run" /\ UNCHANGED oops

Ratio(p) == (Computation[p] * multiplier) \div Period[p]
Utilisation(S) == MapThenSumSet(Ratio, S)

Ready == {p \in linked : state[p] = "READY"}

\* Mutant: the result of the scan is not compared with NULL.
HighestOrNull ==
  IF Ready = {} THEN {NULL}
                ELSE {p \in Ready : \A q \in Ready : Period[p] <= Period[q]}

\* What the scan of the list may return: the first of the READY tasks with the
\* shortest period.
HighestPriorityReady == {p \in Ready : \A q \in Ready : Period[p] <= Period[q]}

-----------------------------------------------------------------------------
(* mp2_register_processs *)

\* kmem_cache_alloc hands out memory as the last user left it, and only the
\* deadline and the list head are given a value: the state is arbitrary.
Register(p) ==
  /\ pc[p] = "start" /\ rm = "loaded"
  /\ alloc' = alloc \cup {p}
  /\ \E s \in TaskStates : state' = [state EXCEPT ![p] = s]
  /\ started' = started \ {p}
  /\ Goto(p, "admission")
  /\ UNCHANGED <<linked, timerVars, current, dispVars, dlinux, moduleVars,
                 linux, prio, oops, verdict>>

\* Mutant: the ratio of the new task is left out.
admission_without_self(p) == Utilisation(linked) <= util_bound

admission_control(p) == Utilisation(linked) + Ratio(p) <= util_bound

\* The list mutex is released between the test and the list_add. A refused
\* task returns without freeing its structure.
Admission(p) ==
  /\ pc[p] = "admission"
  /\ \/ admission_control(p)
        /\ verdict' = [verdict EXCEPT ![p] = "admitted"]
        /\ Goto(p, "link")
     \/ ~admission_control(p)
        /\ verdict' = [verdict EXCEPT ![p] = "refused"]
        /\ Goto(p, "check")
  /\ UNCHANGED <<taskVars, timerVars, current, dispVars, dlinux, moduleVars,
                 linux, prio, oops>>

\* list_add. The verdicts other tasks are holding no longer count this one.
Link(p) ==
  /\ pc[p] = "link"
  /\ linked' = linked \cup {p}
  /\ verdict' = [q \in Task |-> IF pc[q] = "link" /\ q # p THEN "stale"
                                                           ELSE verdict[q]]
  /\ Goto(p, "check")
  /\ UNCHANGED <<alloc, state, started, timerVars, current, dispVars, dlinux,
                 moduleVars, linux, prio, oops>>

\* Mutant: the application does not look whether it was admitted.
CheckSkipped(p) ==
  /\ pc[p] = "check" /\ rm = "loaded"
  /\ Goto(p, "yield")
  /\ UNCHANGED <<taskVars, timerVars, current, dispVars, dlinux, moduleVars,
                 linux, prio, oops, verdict>>

\* The application reads the status file and gives up unless it finds itself.
Check(p) ==
  /\ pc[p] = "check" /\ rm = "loaded"
  /\ Goto(p, IF p \in linked THEN "yield" ELSE "exit")
  /\ UNCHANGED <<taskVars, timerVars, current, dispVars, dlinux, moduleVars,
                 linux, prio, oops, verdict>>

-----------------------------------------------------------------------------
(* mp2_yield_process *)

\* The look-up and the deadline. Only a task that has yielded before can find
\* its next deadline already past, and then it returns to its job at once.
Yield(p) ==
  /\ pc[p] = "yield" /\ rm = "loaded"
  /\ IF p \in linked
     THEN /\ started' = started \cup {p}
          /\ \/ Goto(p, "arm")
             \/ p \in started /\ Goto(p, "job")
          /\ UNCHANGED oops
     ELSE oops' = TRUE /\ UNCHANGED <<pc, started>>
  /\ UNCHANGED <<linked, alloc, state, timerVars, current, dispVars, dlinux,
                 moduleVars, linux, prio, verdict>>

ModTimer(p) ==
  /\ pc[p] = "arm"
  /\ armed' = armed \cup {p}
  /\ Goto(p, "sleepstate")
  /\ UNCHANGED <<taskVars, walkVars, current, dispVars, dlinux, moduleVars,
                 linux, prio, oops, verdict>>

SetSleeping(p) ==
  /\ pc[p] = "sleepstate"
  /\ state' = [state EXCEPT ![p] = "SLEEPING"]
  /\ Goto(p, "clear")
  /\ UNCHANGED <<linked, alloc, started, timerVars, current, dispVars, dlinux,
                 moduleVars, linux, prio, oops, verdict>>

\* current_running_task is cleared whichever task it points to.
ClearCurrent(p) ==
  /\ pc[p] = "clear" /\ ~MutexHeld
  /\ current' = NULL
  /\ Goto(p, "kick")
  /\ UNCHANGED <<taskVars, timerVars, dispVars, dlinux, moduleVars, linux,
                 prio, oops, verdict>>

KickDispatcher(p) ==
  /\ pc[p] = "kick"
  /\ WakeDispatcher
  /\ Goto(p, "block")
  /\ UNCHANGED <<taskVars, timerVars, current, dispVars, moduleVars, linux,
                 prio, verdict>>

\* set_task_state(..., TASK_UNINTERRUPTIBLE); schedule()
Block(p) ==
  /\ pc[p] = "block"
  /\ linux' = [linux EXCEPT ![p] = "sleep"]
  /\ Goto(p, "asleep")
  /\ UNCHANGED <<taskVars, timerVars, current, dispVars, dlinux, moduleVars,
                 prio, oops, verdict>>

Awake(p) ==
  /\ pc[p] = "asleep" /\ linux[p] = "run"
  /\ Goto(p, "job")
  /\ UNCHANGED <<taskVars, timerVars, current, dispVars, dlinux, moduleVars,
                 linux, prio, oops, verdict>>

\* do_job, then the next yield or, after the last cycle, the unregistration.
DoJob(p) ==
  /\ pc[p] = "job"
  /\ \E next \in {"yield", "dereg"} : Goto(p, next)
  /\ UNCHANGED <<taskVars, timerVars, current, dispVars, dlinux, moduleVars,
                 linux, prio, oops, verdict>>

-----------------------------------------------------------------------------
(* mp2_unregister_process *)

\* list_del; the timer of the task is not touched.
Dereg(p) ==
  /\ pc[p] = "dereg" /\ rm = "loaded"
  /\ IF p \in linked
     THEN linked' = linked \ {p} /\ Goto(p, "unhook") /\ UNCHANGED oops
     ELSE oops' = TRUE /\ UNCHANGED <<linked, pc>>
  /\ UNCHANGED <<alloc, state, started, timerVars, current, dispVars, dlinux,
                 moduleVars, linux, prio, verdict>>

\* Mutant: current_running_task keeps pointing to the task that leaves.
UnhookForgotten(p) ==
  /\ pc[p] = "unhook" /\ ~MutexHeld
  /\ Goto(p, "free")
  /\ UNCHANGED <<taskVars, timerVars, current, dispVars, dlinux, moduleVars,
                 linux, prio, oops, verdict>>

Unhook(p) ==
  /\ pc[p] = "unhook" /\ ~MutexHeld
  /\ IF current = p THEN current' = NULL /\ WakeDispatcher
                    ELSE UNCHANGED <<current, dlinux, oops>>
  /\ Goto(p, "free")
  /\ UNCHANGED <<taskVars, timerVars, dispVars, moduleVars, linux, prio, verdict>>

Free(p) ==
  /\ pc[p] = "free"
  /\ alloc' = alloc \ {p}
  /\ Goto(p, "exit")
  /\ UNCHANGED <<linked, state, started, timerVars, current, dispVars, dlinux,
                 moduleVars, linux, prio, oops, verdict>>

\* Once the status file is gone a write from the shell fails and changes
\* nothing, and reading the status file is fatal to the application.
NoFile(p) ==
  /\ rm # "loaded" /\ pc[p] \in {"start", "check", "yield", "dereg"}
  /\ Goto(p, CASE pc[p] = "start" -> "check"
               [] pc[p] = "yield" -> "job"
               [] OTHER           -> "exit")
  /\ UNCHANGED <<taskVars, timerVars, current, dispVars, dlinux, moduleVars,
                 linux, prio, oops, verdict>>

-----------------------------------------------------------------------------
(* Allocations that fail *)

\* Every call allocates at its entry, for the text it is given or asked for and,
\* when it registers, for the task; none looks whether it got the memory.
NoMemory(p) ==
  /\ pc[p] \in {"start", "check", "yield", "dereg"} /\ rm = "loaded"
  /\ oops' = TRUE
  /\ Goto(p, "nomem")
  /\ UNCHANGED <<taskVars, timerVars, current, dispVars, dlinux, moduleVars,
                 linux, prio, verdict>>

-----------------------------------------------------------------------------
(* timer_callback *)

Walk(p, node, rest) ==
  /\ cb' = [cb EXCEPT ![p] = "walk"]
  /\ wtmp' = node /\ ahead' = rest
  /\ UNCHANGED oops

\* The walk is over, mp2_lock is free.
WalkEnds(p, place) ==
  /\ cb' = [cb EXCEPT ![p] = place]
  /\ wtmp' = NULL /\ ahead' = {}

Die(p) == WalkEnds(p, "dead") /\ oops' = TRUE

\* The kernel takes the timer off its queue. Nobody has taken it off when the
\* task, and the timer in it, was freed.
TimerExpires(p) ==
  /\ p \in armed /\ cb[p] = "idle"
  /\ armed' = armed \ {p}
  /\ IF p \in alloc THEN cb' = [cb EXCEPT ![p] = "lock"] /\ UNCHANGED oops
                    ELSE cb' = [cb EXCEPT ![p] = "dead"] /\ oops' = TRUE
  /\ UNCHANGED <<taskVars, wtmp, ahead, current, dispVars, dlinux, moduleVars,
                 linux, prio, pc, verdict>>

\* mp2_lock is taken and the walk begins at the head of the list. A task linked
\* later is put in front of it, so that the walk does not come to it.
TimerLookup(p) ==
  /\ cb[p] = "lock" /\ \A q \in Task : cb[q] # "walk"
  /\ \/ \E first \in linked : Walk(p, first, linked \ {first})
     \/ linked = {} /\ Die(p)
  /\ UNCHANGED <<taskVars, armed, current, dispVars, dlinux, moduleVars, linux,
                 prio, pc, verdict>>

\* From a node with another pid to the next. A node that has been unlinked leads
\* nowhere; at the end of the list the result is the null pointer.
TimerWalk(p) ==
  /\ cb[p] = "walk" /\ wtmp # p
  /\ \/ /\ wtmp \in linked
        /\ \E next \in ahead \cap linked : Walk(p, next, ahead \ {next})
     \/ wtmp \notin linked /\ Die(p)
     \/ ahead \cap linked = {} /\ Die(p)
  /\ UNCHANGED <<taskVars, armed, current, dispVars, dlinux, moduleVars, linux,
                 prio, pc, verdict>>

\* The write to the task found, which may have left the list meanwhile, and been
\* freed; mp2_lock is dropped.
TimerReady(p) ==
  /\ cb[p] = "walk" /\ wtmp = p
  /\ \/ /\ p \in alloc
        /\ state' = [state EXCEPT ![p] = "READY"]
        /\ WalkEnds(p, "wake")
        /\ UNCHANGED oops
     \/ p \notin alloc /\ Die(p) /\ UNCHANGED state
  /\ UNCHANGED <<linked, alloc, started, armed, current, dispVars, dlinux,
                 moduleVars, linux, prio, pc, verdict>>

TimerWake(p) ==
  /\ cb[p] = "wake"
  /\ cb' = [cb EXCEPT ![p] = "idle"]
  /\ WakeDispatcher
  /\ UNCHANGED <<taskVars, armed, wtmp, ahead, current, dispVars, moduleVars,
                 linux, prio, pc, verdict>>

\* What a callback does without waiting for mp2_lock.
Callback(p) == TimerWalk(p) \/ TimerReady(p) \/ TimerWake(p)

-----------------------------------------------------------------------------
(* mp2_dispatch_thread_fn *)

\* set_current_state(TASK_INTERRUPTIBLE)
Park ==
  /\ dpc = "park"
  /\ dlinux' = "sleep" /\ dpc' = "schedule"
  /\ UNCHANGED <<taskVars, timerVars, current, dtmp, moduleVars, linux, prio,
                 pc, oops, verdict>>

\* schedule() returns
Schedule ==
  /\ dpc = "schedule" /\ dlinux = "run"
  /\ dpc' = "woken"
  /\ UNCHANGED <<taskVars, timerVars, current, dtmp, dlinux, moduleVars, linux,
                 prio, pc, oops, verdict>>

ShouldStop ==
  /\ dpc = "woken"
  /\ dpc' = IF stop THEN "exited" ELSE "lock"
  /\ UNCHANGED <<taskVars, timerVars, current, dtmp, dlinux, moduleVars, linux,
                 prio, pc, oops, verdict>>

\* No READY task: the running one, if any, loses its real-time class.
NothingReady ==
  /\ dpc = "lock" /\ Ready = {}
  /\ prio' = IF current = NULL THEN prio ELSE [prio EXCEPT ![current] = "normal"]
  /\ dpc' = "park"
  /\ UNCHANGED <<taskVars, timerVars, current, dtmp, dlinux, moduleVars, linux,
                 pc, oops, verdict>>

\* A task is chosen. The one it replaces is sent back to READY only when its
\* period is longer; otherwise it is replaced all the same.
Choose ==
  /\ dpc = "lock"
  /\ \E tmp \in HighestPriorityReady :
       /\ dtmp' = tmp
       /\ dpc' = IF current # NULL /\ Period[tmp] < Period[current]
                 THEN "preempt" ELSE "promote"
  /\ UNCHANGED <<taskVars, timerVars, current, dlinux, moduleVars, linux, prio,
                 pc, oops, verdict>>

\* Mutant: the preempted task stays in the real-time class.
PreemptStateOnly ==
  /\ dpc = "preempt"
  /\ state' = [state EXCEPT ![current] = "READY"]
  /\ dpc' = "promote"
  /\ UNCHANGED <<linked, alloc, started, timerVars, current, dtmp, dlinux,
                 moduleVars, linux, prio, pc, oops, verdict>>

Preempt ==
  /\ dpc = "preempt"
  /\ state' = [state EXCEPT ![current] = "READY"]
  /\ prio' = [prio EXCEPT ![current] = "normal"]
  /\ dpc' = "promote"
  /\ UNCHANGED <<linked, alloc, started, timerVars, current, dtmp, dlinux,
                 moduleVars, linux, pc, oops, verdict>>

Promote ==
  /\ dpc = "promote"
  /\ state' = [state EXCEPT ![dtmp] = "RUNNING"]
  /\ dpc' = "wake"
  /\ UNCHANGED <<linked, alloc, started, timerVars, current, dtmp, dlinux,
                 moduleVars, linux, prio, pc, oops, verdict>>

\* wake_up_process, the real-time class, current_running_task, and the unlock.
\* tmp is not read again before its next assignment.
WakeChosen ==
  /\ dpc = "wake"
  /\ linux' = [linux EXCEPT ![dtmp] = "run"]
  /\ prio' = [prio EXCEPT ![dtmp] = "fifo"]
  /\ current' = dtmp
  /\ dtmp' = NULL /\ dpc' = "park"
  /\ UNCHANGED <<taskVars, timerVars, dlinux, moduleVars, pc, oops, verdict>>

Dispatcher == \/ Park \/ Schedule \/ ShouldStop \/ NothingReady \/ Choose
              \/ Preempt \/ Promote \/ WakeChosen

-----------------------------------------------------------------------------
(* mp2_exit *)

\* remove_proc_entry returns when no call is inside a handler.
RemoveProc ==
  /\ Unloads
  /\ rm = "loaded" /\ \A p \in Task : pc[p] \notin InHandler
  /\ rm' = "noproc"
  /\ UNCHANGED <<taskVars, timerVars, current, dispVars, dlinux, stop, pos, linux,
                 prio, pc, oops, verdict>>

\* Mutant: the thread is stopped while calls may be inside the handlers.
KthreadStopFirst ==
  /\ Unloads /\ rm = "loaded"
  /\ rm' = "stopping" /\ stop' = TRUE /\ dlinux' = "run"
  /\ UNCHANGED <<taskVars, timerVars, current, dispVars, pos, linux, prio, pc,
                 oops, verdict>>

\* kthread_stop raises the flag, wakes the thread and waits for its return.
KthreadStop ==
  /\ rm = "noproc"
  /\ rm' = "stopping" /\ stop' = TRUE /\ dlinux' = "run"
  /\ UNCHANGED <<taskVars, timerVars, current, dispVars, pos, linux, prio, pc,
                 oops, verdict>>

\* The thread is gone: what is left on the list is unlinked and freed one task
\* after the other, timers or not.
ExitUnlink ==
  /\ rm = "stopping" /\ dpc = "exited" /\ pos = NULL
  /\ \E p \in linked : linked' = linked \ {p} /\ pos' = p
  /\ UNCHANGED <<alloc, state, started, timerVars, current, dispVars, dlinux,
                 stop, rm, linux, prio, pc, oops, verdict>>

\* Mutant: the task is unlinked and not freed.
ExitFreeForgotten ==
  /\ pos # NULL
  /\ pos' = NULL
  /\ UNCHANGED <<taskVars, timerVars, current, dispVars, dlinux, stop, rm, linux,
                 prio, pc, oops, verdict>>

ExitFree ==
  /\ pos # NULL
  /\ alloc' = alloc \ {pos} /\ pos' = NULL
  /\ UNCHANGED <<linked, state, started, timerVars, current, dispVars, dlinux,
                 stop, rm, linux, prio, pc, oops, verdict>>

ExitReturns ==
  /\ rm = "stopping" /\ dpc = "exited" /\ pos = NULL /\ linked = {}
  /\ rm' = "unloaded"
  /\ UNCHANGED <<taskVars, timerVars, current, dispVars, dlinux, stop, pos, linux,
                 prio, pc, oops, verdict>>

Exit == ExitUnlink \/ ExitFree \/ ExitReturns

-----------------------------------------------------------------------------

\* What an application does inside the module without waiting for a lock.
Handler(p) == \/ Admission(p) \/ Link(p) \/ ModTimer(p) \/ SetSleeping(p)
              \/ KickDispatcher(p) \/ Block(p) \/ Free(p)

\* A callback runs in an interrupt: where it shares the processor with the rest of the
\* module nothing else runs meanwhile, but a callback on another processor.
Interrupted == \E p \in Task \ Remote : cb[p] \in {"lock", "walk", "wake"}

Next == /\ ~oops
        /\ \/ \E p \in Task : Callback(p) \/ TimerLookup(p)
           \/ /\ ~Interrupted
              /\ \/ \E p \in Task :
                       \/ Register(p) \/ Check(p) \/ Yield(p) \/ Awake(p) \/ DoJob(p)
                       \/ Dereg(p) \/ NoFile(p) \/ NoMemory(p) \/ Handler(p)
                       \/ ClearCurrent(p) \/ Unhook(p) \/ TimerExpires(p)
                 \/ Dispatcher
                 \/ RemoveProc \/ KthreadStop \/ Exit

Spec == Init /\ [][Next]_vars

\* Every thread that can run gets the processor, every armed timer expires,
\* and a lock is granted in turn to those who wait for it. Nothing makes an
\* application return from its job, or anyone unload the module.
Fairness ==
  /\ WF_vars(~oops /\ Dispatcher)
  /\ WF_vars(~oops /\ (KthreadStop \/ Exit))
  /\ \A p \in Task : /\ WF_vars(~oops /\ (Handler(p) \/ Awake(p)))
                     /\ SF_vars(~oops /\ (ClearCurrent(p) \/ Unhook(p)))
                     /\ WF_vars(~oops /\ (TimerExpires(p) \/ TimerLookup(p) \/ Callback(p)))

FairSpec == Spec /\ Fairness

-----------------------------------------------------------------------------
(* What the code guarantees *)

\* The dispatching thread follows current_running_task and tmp without
\* mp2_list_mutex, and the unregistration of another application may free what
\* they point to at any time. The order list_del, clear the pointer under the
\* mutex, free, is what keeps both pointers good while the thread lives.
NoDanglingPointer ==
  /\ dpc # "exited" /\ current # NULL => current \in alloc
  /\ dtmp # NULL => dtmp \in alloc

\* The yield and unregister handlers use what the look-up by pid returned
\* without testing it. Under the protocol userapp.c follows, and until the
\* module is unloaded, the look-up succeeds and the task stays on the list for
\* as long as a yield uses it.
LookupSucceeds ==
  \A p \in Task :
    rm = "loaded" /\ pc[p] \in {"yield", "arm", "sleepstate", "clear", "kick",
                               "block", "asleep", "job", "dereg"}
      => p \in linked

\* Admission and list_add are two critical sections, so the total utilisation
\* can pass the bound; the tasks whose verdict was still current when they were
\* linked do not pass it by themselves, whoever else came or left.
AdmittedWithinBound ==
  Utilisation({p \in linked : verdict[p] = "admitted"}) <= util_bound

\* mp2_exit frees what is on the list and nothing else: once the module is
\* gone the only structures left behind are those of refused registrations.
OnlyRefusedLeak ==
  rm = "unloaded" => \A p \in alloc : verdict[p] = "refused"

\* When current_running_task passes from a task to one of shorter period, the
\* one that loses the processor has lost its real-time class before, whatever
\* the yields, unregistrations and timers did since the choice was made.
PreemptedIsDemoted ==
  [][current # NULL /\ current' \notin {NULL, current}
       /\ Period[current'] < Period[current]
         => prio[current] = "normal"]_vars

\* What brings the kernel down, once the module is loaded: an allocation that
\* failed (mp2.c:168, 191, 290); a timer left armed in the memory of a task that
\* was freed; one whose look-up finds its task gone, from the list or from the
\* memory (mp2.c:64), or stands on a node that somebody takes off the list; one
\* that wakes a thread that has returned (mp2.c:68). No look-up and no wake-up of
\* a handler does, nor a pointer of the dispatching thread, nor the unloading.
OopsExplained ==
  [][oops' /\ ~oops => \E p \in Task :
        \/ pc'[p] = "nomem"
        \/ p \in armed \ armed' /\ p \notin alloc
        \/ cb[p] \in {"lock", "walk"} /\ cb'[p] = "dead"
             /\ (p \notin linked \/ wtmp \notin linked \cup {NULL})
        \/ cb[p] = "wake" /\ cb'[p] = "idle" /\ dpc = "exited"]_vars

\* The list, current_running_task, the tmp of the dispatching thread and the tmp
\* of every yield implement the reclamation discipline: the memory of a task is
\* returned, by an unregistration or by mp2_exit, when none of these pointers leads
\* to it. The exception is the tmp of a timer's look-up, which mp2_lock guards
\* against other timers only (mp2.c:63-65): the code does not wait for it, and what
\* is left is that it takes nodes from the list alone.
Holders == {"current_running_task", "tmp", "timer"} \cup Task

HeapPhase ==
  [p \in Task |->
     IF p \notin alloc THEN IF verdict[p] = "none" THEN "unborn" ELSE "freed"
     ELSE IF p \in linked THEN "published"
     ELSE IF verdict[p] \in {"none", "refused"} \/ pc[p] = "link" THEN "private"
     ELSE "unlinked"]

HeapHeld ==
  [h \in Holders |->
     IF h = "current_running_task" THEN IF dpc = "exited" THEN NULL ELSE current
     ELSE IF h = "tmp" THEN dtmp
     ELSE IF h = "timer" THEN wtmp
     ELSE IF pc[h] \in {"arm", "sleepstate", "clear", "kick", "block"} THEN h
     ELSE NULL]

Heap == INSTANCE SafeReclamation WITH
  Object <- Task, Holder <- Holders, Unguarded <- {"timer"},
  phase <- HeapPhase, held <- HeapHeld

ReclaimsSafely == Heap!Reclamation

\* No handler waits for ever: the mutex is never kept by a sleeping thread.
HandlersReturn ==
  \A p \in Task : pc[p] \in InHandler ~> (pc[p] \notin InHandler \/ oops)

\* The strengthening that makes NoDanglingPointer and LookupSucceeds inductive:
\* where an application may be with its structure on the list, off it, or in
\* private; what the two pointers may lead to; and what unloading waits for.
ListedPlaces == AppPlaces \ {"start", "admission", "link", "unhook", "free"}

ListDiscipline ==
  /\ linked \subseteq alloc
  /\ \A p \in linked : pc[p] \in ListedPlaces
  /\ \A p \in Task : pc[p] \in {"admission", "link", "unhook", "free"} => p \in alloc

PointerDiscipline ==
  /\ dpc # "exited" /\ current # NULL
       => current \in linked \/ pc[current] = "unhook"
  /\ dtmp # NULL => dtmp \in linked \/ pc[dtmp] = "unhook"

UnloadDiscipline ==
  /\ rm # "loaded" => \A p \in Task : pc[p] \notin InHandler
  /\ stop => rm \in {"stopping", "unloaded"}
  /\ dpc = "exited" => stop
  /\ rm = "unloaded" => dpc = "exited" /\ linked = {} /\ pos = NULL
  /\ pos # NULL => rm = "stopping" /\ dpc = "exited" /\ pos \in alloc \ linked

PreemptDiscipline ==
  dpc \in {"promote", "wake"} /\ current # NULL /\ Period[dtmp] < Period[current]
    => prio[current] = "normal"

VerdictDiscipline ==
  /\ \A p \in Task : pc[p] = "start" => p \notin alloc
  /\ \A p \in Task : pc[p] \in {"start", "admission"} => verdict[p] = "none"
  /\ \A p \in Task : p \in alloc /\ verdict[p] = "none" => pc[p] = "admission"
  /\ \A p \in Task : p \in linked \/ pc[p] \in {"link", "unhook", "free"}
                     => verdict[p] \in {"admitted", "stale"}
  /\ \A p \in alloc \ linked :
        \/ verdict[p] = "refused" \/ p = pos
        \/ pc[p] \in {"admission", "link", "unhook", "free"}

\* A timer is armed by a yield, so that no task is linked after its timer's look-up
\* has begun: the look-up of a task that stays listed comes to it.
TimerDiscipline ==
  /\ \A p \in Task : p \in armed \/ cb[p] # "idle"
                     => pc[p] \notin {"start", "admission", "link"}
  /\ \A p, q \in Task : cb[p] = "walk" /\ cb[q] = "walk" => p = q
  /\ (\E p \in Task : cb[p] = "walk") <=> wtmp # NULL
  /\ \A p \in linked : cb[p] = "walk" => p \in ahead \cup {wtmp}

IInv == /\ VerdictDiscipline /\ TimerDiscipline
        /\ TypeOK /\ ListDiscipline /\ PointerDiscipline
        /\ UnloadDiscipline /\ PreemptDiscipline /\ LookupSucceeds

-----------------------------------------------------------------------------
(* What a comment says and the code does not do *)

\* mp2.c:67: the callback wakes the dispatching thread up, which gives the
\* processor to the task that is READY.
ReadyIsDispatched ==
  \A p \in Task : cb[p] = "wake" ~> (p \in linked => state[p] # "READY") \/ oops
=============================================================================
