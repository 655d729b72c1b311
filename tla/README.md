# Verification of UIUC-spring-2015

TLA+ specifications, TLC configurations and TLAPS proofs for the code of the
course projects kept in this repository: three Linux kernel modules and a load
balancer (CS423), a TCP client, an HTTP/HTTPS client and servers, and a
link-state router (CS438).

## 1. Inventory

| Part | Code | State | Operations | What makes it hard |
|---|---|---|---|---|
| CPU-time list | `CS423/MP1/mp1.c`, `userapp.c` | list of registered processes, periodic timer, work queue | write a pid, read the list, timer, work item, load, unload | the timer starts the work and the work restarts the timer; unloading stops them one after the other |
| Rate-monotonic scheduler | `CS423/MP2/mp2.c`, `userapp.c`, `userapp.h` | list of tasks, their states and timers, `current_running_task`, a dispatching thread | register, yield, unregister, read, timer expiry, dispatch, unload | four kinds of threads share states that are written under different locks or under none; memory is freed while another thread may be using it |
| Page-fault profiler | `CS423/MP3/mp3.c`, `monitor.c`, `work.c` | list of processes, delayed work, a ring of 65536 words mapped by the monitor, which goes round the first 48000 of them | register, unregister, sampling work, mmap, read and clear | the delayed work requeues itself and is cancelled without waiting for it; nothing orders the two sides of the ring |
| Dynamic load balancer | `CS423/MP4/my_mp4.py`, `ping.py`, `GUIServer.py` | job list, phase, the partner's last known state, throttle | two nodes, each with a worker, an adaptor and an HTTP server thread: bootstrap, transfer, aggregate | jobs travel between nodes as messages; the phase is decided on stale information |
| Message client | `CS438/MP0/mp0client.c` | one connection | a scripted dialogue with a server | sequential |
| HTTP client and servers | `CS438/MP1/*.c` | the backlog, a child process and a connection per client, the files `tmp` and `output` | connect, fork, request, response, TLS handshake and close notification, reaping | a stream comes in pieces and its end is the only end of a response; every process may fail while the others wait for it |
| Link-state router | `CS438/MP2/*.c` | LSP matrix, link costs, heartbeat times, forwarding table | heartbeats, flooding, Dijkstra, send and forward, cost changes | several threads and several nodes without a lock or an acknowledgement, clocks and timeouts |

The interactions: the applications of CS423 talk to their module through a file
in `/proc` (a write is a call that runs in the application's context) or a mapped
buffer; the nodes of MP4 exchange HTTP posts; the routers exchange UDP datagrams,
filtered by `iptables` rules when a test cuts a link.

What makes each correct:

* CPU-time list: after the module is gone nothing of it runs; the list is the
  set of live registered processes; the timer runs while the list is not empty.
* Scheduler: no thread follows a pointer to freed memory; the admitted load
  stays within the bound; the shortest period runs; a released task is
  eventually dispatched; unloading terminates.
* Profiler: sampling runs exactly while somebody is registered; the monitor prints
  each sample once, whole and in order.
* Load balancer: every job is computed exactly once on one of the nodes; both
  nodes reach aggregation; the result is complete.
* Web: the client ends with the whole file or with an error; both sides end; no
  child stays behind.
* Router: forwarding tables agree with shortest paths and are loop-free once
  the network is quiet; a failed link is noticed in time, a restored one comes back.

## 2. Modules

| Module | What it is | Code |
|---|---|---|
| `RateMonotonic` | the scheduler and its applications | `CS423/MP2/mp2.c`, `userapp.c`, `userapp.h` |
| `SafeReclamation` | abstract: the life of heap objects on a shared list | what `RateMonotonic` is shown to implement |
| `RateMonotonicProofs` | theorems about `RateMonotonic` | |
| `LoadBalancer`, `LoadBalancerProofs` | the two nodes, their threads and requests, and theorems | `CS423/MP4/my_mp4.py` |
| `JobPool` | abstract: every job is computed at most once | what `LoadBalancer` is shown to implement |
| `KernelList`, `KernelListProofs` | external: the linked lists of the kernel as both modules below use them, and lemmas about them | `linux/list.h` |
| `CpuTimeList`, `CpuTimeListProofs` | timer, work item, list, loading and unloading, and theorems | `CS423/MP1/mp1.c`, `userapp.c` |
| `Profiler`, `ProfilerProofs` | the delayed work that queues itself, and theorems about it and about `SampleBuffer` | `CS423/MP3/mp3.c` |
| `SampleBuffer` | the ring of samples between the module and the monitor | `CS423/MP3/mp3.c`, `monitor.c` |
| `Adjacency` | the triangular array of link costs | `CS438/MP2/linkstate.c` |
| `ShortestPaths` | `dijkstra()` against the thread that removes links | `CS438/MP2/linkstate.c` |
| `Flooding`, `LinkStateProofs` | heartbeats and link-state packets of several routers, and theorems about these, `Adjacency` and `ShortestPaths` | `CS438/MP2/monitor_neighbors.c`, `linkstate.c` |
| `NeighborMonitor`, `NeighborMonitorProofs` | one link of one router, in time and access by access, and theorems | `CS438/MP2/monitor_neighbors.c` |
| `FileTransfer`, `FileTransferProofs` | clients, the server's parent and its children, with and without TLS, and theorems | `CS438/MP1/http_client.c`, `http_server.c`, `https_server.c`, `connect_tls.c` |

Each `MCx` module extends `x` with the values its configurations use. Names are
those of the code wherever it has one. A definition whose comment begins with
"Mutant" is a plausible slip in the definition below it; nothing uses it, and the
properties are checked to fail when it takes the place of the real one.

### RateMonotonic

`linked`, `alloc`, `state`, `armed` and `current` are the list, the slab cache,
the fields of the task structures, the pending timers and
`current_running_task`. `pc`, `cb`, `dpc` and `rm` say where the applications, the
callbacks of their timers, the dispatching thread and `mp2_exit` are. The write handlers are `Register` -
`Admission` - `Link`; `Yield` - `ModTimer` - `SetSleeping` - `ClearCurrent` -
`KickDispatcher` - `Block` - `Awake`; `Dereg` - `Unhook` - `Free`; in each of them,
and in a read of the status file, an allocation may fail that nobody tests
(`NoMemory`). A timer is `TimerExpires` - `TimerLookup` - `TimerWalk` ... -
`TimerReady` - `TimerWake`, the thread `Park` - `Schedule` - `ShouldStop` -
`Choose` (or `NothingReady`) - `Preempt` - `Promote` - `WakeChosen`, unloading
`RemoveProc` - `KthreadStop` - (`ExitUnlink` - `ExitFree`) for each task -
`ExitReturns`. Two writes that no common lock covers are two steps; a critical
section of `mp2_list_mutex` is one step, and so is one of the other mutex, but for
the long one of the dispatching thread.

The look-up of a timer holds `mp2_lock`, which no other code takes: `list_add`,
`list_del` and `kmem_cache_free` go on under it. So its walk is one step for each
node: `wtmp` is the node it stands on, `ahead` are the nodes it has still to come to,
and it dies at a node that was unlinked, at the end of the list, or when it writes to
a task that was freed. `Remote` are the tasks whose timers fire on another processor than
the rest of the module runs on. A callback of the others is an interrupt: nothing runs
while it does but a remote one.

Abstractions: an application and the `echo` it runs through `system()` are one
actor; the scan of the list under `mp2_list_mutex` is one step, and the list is a set
(its order breaks ties between equal periods; a timer's walk takes the nodes in any
order, but those that are linked after it began are in front of it);
signals are not delivered;
time is left out, so that a timer may expire at any moment after it is set and
any yield but the first may find its deadline passed; the 32-bit product of the
admission test is excluded from overflowing by `ComputationAssumption`. Memory
from the allocator holds arbitrary states.

### LoadBalancer

The four threads of each node are places in `pc` and a pending request in `call`.
A post blocks until the partner's server has handled it (`Serve...`); handling
and answer are one step. The decision of an adaptor reads the partner's last
report, so it is a step apart from the pop. `list.pop` of an empty list is an
exception: it ends the main thread, or the adaptor with the lock held.
Abstractions: both processes have been started; link delays are a free choice of
when a step happens; `do_GET`, the displayed counter `jobTransfered` and the
computation itself are left out. `computed` counts the calls of `doJob`. `Where`
collects the places of a job, which are of six kinds (a list, a thread, a request with
the job or with its result, the results, their copy), and `JobsConserved` says that
there is one.

### CpuTimeList and Profiler

Both have a thread that loads and unloads the module next to processes, timer
and worker thread, because that is where their code goes wrong. `mod` holds the
next step of `mpN_init` or `mpN_exit`; every failure of an allocation or of a
registration is an alternative of its loading step, also of the `kmalloc` of
`mp1.c:153` that nobody tests, and the untested allocations of the handlers are the
action `NoMemory`. The labels of `mp3_init` (`mp3.c:273-284`) are steps of their own
(`LoadFails`, `Undo`): `OnFailure` and `FallsTo` say where a failing call jumps
to and which label comes after which, `Releases` what each of them gives back, and
registrations go on meanwhile until the file is removed. `wq` is the value of
`mp3_workqueue` and `dwq` the one the delayed work was queued with, which may be null
long after the workqueue was made. The handlers of `Profiler` take the lock in one
step and do what it guards in another, because `mp3_init` initialises the lock
(`InitLock`) when the file already exists. The scan and the unlocked
walk of the list by `mpN_exit` advance one node at a time with the cursors of
`list_for_each_entry_safe` (`KernelList`). The history variable `races` records that one of the
overlaps has happened that the code does not exclude (`"overlap"`: the list was
freed under a scan; in `CpuTimeList` `"reset"`: the lock was initialised while held; in
`Profiler` `"late cancel"`: a cancel that came after a first registration), so that
`CrashesExplained` can say that *nothing else* leads to a bad pointer.
`mp1_read` and `mp3_read`, but for their allocations, and the sampled values are left
out.

### SampleBuffer

`profiler_buffer` holds for each word the sample it is of. `Begin` and `Store` are
`mp3_work_function`, one step for each word; `Scan`, `Test`, `PrintWord` and
`ClearWord` are the two loops of `monitor.c`, one step for each access, and
`Start` is another run of the program, which begins at word 0 again while the
module goes on where it is. `rows` is what the runs have printed. Two things the
code does not exclude are kept apart by the history variable `crossed`: that the
two sides are at one sample at the same time, and that a run takes longer than
the 50 ms between two samples. Abstractions: memory nobody has written is alike
within a sample, and either clear or junk; the pages are mapped.

### ShortestPaths

`Call`, `Test`, `Read`, `Select` and `Return` are the reset, the condition of
line 265, the read of the cost and the update of the tentative array, the
choice of the next node, and the end of `dijkstra()`. `Cut` is `checkNeighbor` in
its own thread. `seen` records the links as the scan met them and `torn` that a
link went away between the condition and the read (then the node is reached at
cost 0): the properties speak of computations that were not torn, over the
links that were seen. `Distance`, a recursive function that relaxes all links in
rounds, is the reference the result is compared with.

### Flooding

A state of the whole network: each router's array, costs file and sequence
numbers, and the queue of its UDP socket. All routers run on one host, and
`disconnect.sh` drops packets as they are sent, so a packet is in the queue of
the receiver at once or dropped, because the wire is down, the queue is full or
the receiver does not run. `Kill` and `Launch` are `kill.sh` and `launch.sh`: what
a router knew is lost, its costs are those of the file again, and it counts from 1.
Three history variables say what the numbers mean then: `issued`, the highest
number a router has given, `lastLSP`, what was in that packet, and `reused`, the
routers that gave it twice. `Receive` is one turn of `listenForNeighbors` on a
link-state packet, with the hearing of the sender before it; `HearHeartbeat` the
same turn on a heartbeat, `ChangeCost` on a cost message. `Announce` is a turn of
`announceToNeighbors`, which counts the sequence number up every 300 ms, and
`Broadcast` one of `broadcastLSPPeriodically`, which sends the number it finds every
second: `announced` says that there was a turn of the one between two of the other,
and there may be several, so that numbers are skipped. `TimeOut` is `checkNeighbor`.
Abstractions: time (a neighbour is timed out only when it or its wire is down) and the
threads of one router (their steps are atomic), both of which are the subject of
`NeighborMonitor`; the bytes of a packet.

### NeighborMonitor

One link of one router, with the neighbour's heartbeats at the other end. Each
access of the two threads to what they share, the entry of the array and the two
fields of `globalLastHeartbeat`, is a step: `Recv` - `SetLink` - `ReadClock` -
`RecordSeconds` - `RecordMicros` in `listenForNeighbors`, `CheckLink` - `AskTime` -
`ReadSeconds` - `Compare` - `Drop` in `checkNeighbor`, so that a time can be read
half before and half after it was written. `HearOfLink`, `CostTest` and `CostSet`
are the other messages that write the entry. `Tick` is 300 ms; what is due (a
heartbeat, a round of `checkNeighbor`, work that has been pending for `Lag` ticks)
is done before time goes on. The clock counts modulo `Wrap`, which stands for the
2^32 microseconds of the unsigned difference that `getTimeDiff` returns. `silent`,
`overtaken` and `revived` are history variables.

### FileTransfer

`client`, `parent` and `child` say where the processes are; `backlog`, `fds`,
`sent`, `stored`, `rst` and `notified` are the connection, with its reset and the
close notification of TLS. A response is a sequence of units: the status line
and the blocks of the file. The client is `Connect` - (`ConnectTLS`) -
`SendRequest` - `Receive` - `ReceiveEnd` - `WriteOutput`; the parent `Accept` -
`Fork` - `CloseAccepted`; a child (`AcceptTLS`) - `RecvRequest` - `OpenFile` -
`SendBlock` - `Finish` - (`ShutdownTLS`), or `BadRequest`. `ConnectFails`,
`ConnectTLSFails`, `ReceiveFails`, `SendFails` and alternatives of `Fork`,
`AcceptTLS` and `RecvRequest` are the error returns; `Kill` and `Interrupt` end a
process from outside. `recv` may return any part of what has arrived, the request
may be read in part, and a socket holds `Window` units. Abstractions: the command
line, URL and header come down to what is asked for; each client runs in a
directory of its own; PolarSSL is external, and a stream that ends without a close
notification makes `recvTLS` return 0, as its `ssl_read` does.

## 3. Runs

| Run | What it asks | Instance |
|---|---|---|
| `scheduler_safety` | do the pointers stay good, do look-ups succeed, does the admitted load stay in the bound, is only a refused registration leaked, is the task that loses the processor demoted first, is every crash one of an untested allocation or of a timer; is `IInv` an invariant; is `SafeReclamation` implemented | 2 tasks whose utilisations together exceed the bound, one shorter in period; the timer of the shorter one on a processor of its own; unloading at any time; 1 170 000 states |
| `scheduler_liveness` | does every call into the module return | 2 tasks whose timers interrupt the one processor, no unloading; 306 000 states |
| `lost_wakeup` | *violated*: is a task that a timer made READY dispatched | 1 task |
| `balancer_safety` | is no job lost or doubled, are the results collected, is no job computed twice (`JobPool`) | 3 jobs, shares 9 and 3; 894 000 states |
| `balancer_liveness` | do both programs end, unless an exception or a lost lock stops a main thread | 2 jobs |
| `cpu_list` | does exactly one of timer, queued work and running work keep the cycle alive; does a registered process stay; do cursors stay on the list; are crashes explained; is an ended process dropped | 3 processes; 54 000 states |
| `profiler` | does sampling go on while somebody is registered; are crashes explained; do the labels of a failed load, and unloading, release everything; is each registered process looked at again | 2 processes; 23 900 states |
| `sample_buffer` | is each sample printed once, as one row, in order, while the two sides do not meet; is no word printed twice even if they do | samples of 2 words, a ring of 8 of which the monitor reads 6, 5 samples; 7 500 000 states |
| `shortest_paths` | are costs, next hops and tie breaks right for every network; does the computation end | all networks of 4 nodes with costs 1, 2 and no link; 138 000 states |
| `flooding` | does a router that has the last packets of two others agree with them, whoever is killed; do numbers come from their originator; does flooding end | triangle, numbers up to 2 and 1, two failures, repairs or cost changes of one wire, or one router killed and launched again; queues of 1; 801 000 states |
| `neighbor_monitor` | is a silent neighbour out within the timeout and a round; is a live one taken out only when the threads meet in the ways named; does it come back | heartbeats every tick, rounds every 2, timeout and seconds of 3, clock of 12, lag of 1, queue of 2; 1 120 000 states |
| `transfer` | does a client that ends normally have the whole file; is nothing else in it; do both ends end; are the children reaped | 2 clients, files missing, empty and of 2 blocks, backlog of 1, window of 2, one kill, both with and without TLS; 229 000 states |

Why the bounds are enough: two tasks are what a race over the two pointers, the
mutex or the admission sum needs, one to hold and one to leave, and their periods
differ so that both a preemption and its refusal happen. One timer has a processor of
its own and the other does not; the safety properties hold as well where both have
one (`Remote` is `Task`, 3 730 000 states). Three jobs are the
smallest number at which an adaptor sends a job back while its node's own list
runs empty, and at which a lock is lost in front of a request. Three processes
give the list a first, a middle and a last node. Four nodes give two disjoint ways
between two nodes, ties between them, and a tie between nodes that are themselves
reached by ties. A triangle is the smallest network in which a packet comes by two
ways and could go round; with a queue of one packet an old packet still comes
after a new one, by the other way. The router that may be killed counts to two: it
may skip the first number, and after a restart it gives a number again or passes
those it gave. A kill uses up the bound of events (`KillWeight` is `MaxEvents`) to
keep the run short: in it a kill is not combined with a wire that fails or changes
its cost. The actions allow that, the theorems of section 4 are about every
`KillWeight`, and the safety properties hold as well in the instance where it is
1, which has 7 000 000 states. A ring of 8 words of which 6 are read keeps the one
thing about 65536 and 48000 that matters, that the module leaves the part the
monitor reads; 5 samples take it round once, and samples of 2 words have a first
and a last. In `neighbor_monitor` the clock is as small as its assumption lets it
be (a multiple of a second above the deadline), so that it wraps all the time, and
the deadline of `NoticedInTime` is reached: one tick less is violated. Two clients
are one in the backlog and one being served; a file of two blocks against a window
of two units makes the child wait for the client. Every action of every module
fires in a run.

Deadlock is not checked where the system really stops: a kernel after a bad
pointer or an unloaded module, programs that end, clients that have all been
served, and a network whose bounds are used up.

### Fairness

* `RateMonotonic!Fairness`: a thread that can run gets the processor (weak fairness),
  an armed timer expires and its callback goes on (weak fairness), and a mutex is
  granted to everybody who goes on waiting for it (strong fairness of
  `ClearCurrent` and `Unhook`: the Linux mutex queues its waiters). The callbacks
  of `HandlersReturn` interrupt the one processor (`Remote` is empty), to keep the
  run short. No application has to finish its job, and nobody has to unload the
  module.
* `LoadBalancer`: the main and reporting threads proceed, an adaptor that has
  decided to transfer goes on, and a request is served in the end although the
  server takes one at a time (strong fairness: connections wait in its backlog).
* `CpuTimeList`, `Profiler`: pending timers expire, queued work starts and
  proceeds, and a handler, a loading or an unloading that has begun goes on; where
  these take the lock in `Profiler` they get it in turn (strong fairness). Nobody
  has to register, load or unload.
* `ShortestPaths`: the listening thread proceeds.
* `Flooding`: some listening thread goes on reading while packets are queued (weak
  fairness, written out as `Reading`). Nobody has to announce, or to launch a
  router again.
* `NeighborMonitor`: time passes, and the threads and the neighbour run; wires need
  not fail or be repaired.
* `FileTransfer`: a process that can go on does so, and a pending signal is
  delivered. Nobody has to start a client or to kill a process, and no call has to
  fail or to succeed where it may do either.
* `SampleBuffer`: none; only safety is asked.

### What the code does not do

One run is a disagreement with what the code says of itself:
`ReadyIsDispatched` (`mp2.c:132`). The dispatching thread declares itself asleep
after its scan; the wake-up of a timer (`mp2.c:67`: "wake up dispatching thread")
in between is lost, and the READY task waits.

Observed in the models, or while they were written; the properties named say that
there is nothing else of the kind:

* Scheduler: the callback of a timer walks the list under a lock that nobody takes
  who changes the list, and follows the result without a test (`mp2.c:63-65`). With
  several processors it may stand on a node that is unlinked, and freed, by the
  unregistration of any task or by `mp2_exit`. With one it still finds its own
  task gone: the dispatching thread's write of READY races with a yield,
  the task is woken early, ends and unregisters while its timer is still armed.
  The handlers use what `kmalloc` and `kmem_cache_alloc` return without a test
  (`mp2.c:168`, `mp2.c:191`, `mp2.c:290`). All are in `OopsExplained`; that the
  walk of a timer is not among the pointers the reclamation waits for is the
  exception stated in `ReclaimsSafely`. Two admissions can pass together (`mp2.c:214`), and the tasks
  on the list exceed the bound. A READY task of longer period can take the place
  of the running one (`mp2.c:147`). The wake-up of `kthread_stop` can be lost like
  that of a timer (`mp2.c:132`), and an application can miss its own (`mp2.c:257`).
* CPU-time list: unloading while a work item runs leaves the timer pending in a
  module that is gone (`mp1.c:179`), and it frees the list without the lock
  (`mp1.c:182`); the lock and the workqueue are made after the file and the timer
  that need them (`mp1.c:157`); neither the handlers nor `mp1_init` test what
  `kmalloc` returns (`mp1.c:45`, `mp1.c:70`, `mp1.c:74`, `mp1.c:153`)
  (`CrashesExplained`).
* Profiler: the last unregistration cancels the work of a first registration that
  came after its test (`mp3.c:181`); the work can queue itself behind the cancel
  (`mp3.c:87`); a process that registers before `mp3_workqueue` is set queues the work
  for a null pointer (`mp3.c:135`), which the timer follows even when the module is
  loaded by then; the lock is initialised after the file exists (`mp3.c:247`), and a
  failed load destroys the workqueue before it removes the file (`mp3.c:278`); the
  handlers do not test what `kmalloc` returns (`mp3.c:94`, `mp3.c:123`, `mp3.c:192`); the
  buffer is allocated twice (`mp3.c:265`, `mp3.c:269`) (`CrashesExplained`,
  `ResourcesReleased`).
* Ring of samples: the monitor can meet the module in the middle of a sample and
  print -1 for words of it; it goes back to its start after 48000 words, which
  `monitor.c:13` counts as samples, so that what the module writes behind them
  is not printed; a run that finds those words clear goes on to the one behind them
  (`EachSampleOnce`, `NoWordTwice`).
* Load balancer: a node leaves its loop when its list is empty although a job is
  still with an adaptor or on its way back (`my_mp4.py:295`): its result is missing.
* Router: the packet a neighbour sent before a cost changed overwrites the cost
  of the router's own link (`monitor_neighbors.c:316`); when both ends are hit,
  each packet confirms the old cost at the other end for good. A router that was
  launched again is not believed until its numbers have passed those of its
  earlier life, and takes its own old packets for news
  (`monitor_neighbors.c:175`); with the number it gave twice two routers can
  hold different packets for the same one (`Converged` fails without `reused`).
  A live neighbour is dropped when its heartbeat is recorded between the two
  reads of the time, because the difference is unsigned
  (`monitor_neighbors.c:136`), or when its link is put in before the time is
  (`monitor_neighbors.c:214`) (`DropExplained`); it comes back with the next
  heartbeat (`DropHeals`).
* Web: an empty file sends nothing at all, not even the status line
  (`http_server.c:173`), and the client takes the distance to a header that is not
  there for a length; a killed child looks like the end of the file. `https_server`
  closes the socket before the close notification is sent (`https_server.c:114`),
  which spares the client the negative return value it would take for a length
  (`http_client.c:164`); a reset of the connection does not (`NothingInvented`).
  Two clients in one directory share the file `tmp` (`http_client.c:152`).

## 4. Proofs

Every safety property the passing runs check is proved, and so are both refinements;
what is left to TLC is liveness. Hardly one is inductive as it stands: each component
has an `IInv`, a conjunction of named parts (`DijkstraInv` for `ShortestPaths`,
`RingInv` and `OrderInv` for `SampleBuffer`). Lemmas for the parts show that every
action keeps them, `Inductive` says `Spec => []IInv`, and the properties follow; about
`Flooding` the proofs go part by part. Each `IInv` was checked with TLC before it was
proved, on instances of the size of those of section 3. The only assumptions
are the `ASSUME`s of the modules, which TLC evaluates for each instance.

### RateMonotonic

For any set of tasks, any periods and computations and any use of unloading.

* `TypeCorrect`: `Spec => []TypeOK`. `TypeOK` also says that the dispatching
  thread holds a chosen task exactly in its critical section, which makes it
  inductive by itself.
* `Inductive`: `NoDanglingPointer` is not inductive: that
  `current_running_task` points to allocated memory after a `Free` depends on the
  task having left the list, and the pointer having been cleared, before. The
  conjuncts add, in turn: `ListDiscipline` (where an application may be while its
  structure is listed), `PointerDiscipline` (the two pointers lead to listed
  tasks, or to one whose unregistration still has to take the mutex),
  `UnloadDiscipline` (what `mp2_exit` has waited for, and which task it holds),
  `VerdictDiscipline` (how allocation, admission and place go together),
  `TimerDiscipline` (one timer walks at a time; as long as its task stays listed,
  the walk has not passed it), `PreemptDiscipline` (the task that is being replaced has
  been demoted). `scheduler_safety` checks `IInv` too.
* `PointersGood`, `LookupsSucceed`, `OnlyRefusedAreLeaked`: the three invariants
  that follow from `IInv`.
* `WithinBound`: `AdmittedWithinBound`, from `IInv` and `Budget`, which adds what
  an admitted task knows while it waits for `list_add`: that it still fits beside
  all that are listed. The load is a sum over a set, so the proof first needs what
  such a sum does: that it is what its recursive definition says (`SumExists`,
  `SumUnique`, `SumOf`), that any element may be taken out first (`SumAdd`) and
  that a smaller set has no greater sum (`SumMore`). The library's induction
  theorems cannot be used; these lemmas take a smallest counterexample instead
  (`Minimal`, from the well-foundedness of the subsets of a finite set).
* `Demotion`: the action property `PreemptedIsDemoted`.
* `CrashesExplained`: the action property `OopsExplained`: a step that brings the kernel
  down is an allocation that failed, or that of a timer: one that was freed while it was
  armed, one whose task has gone, one that stands on a node that has gone, or one that
  fires when the dispatching thread has returned. That no look-up of a handler is among
  them comes from `LookupSucceeds`, no pointer of the dispatching thread from
  `PointerDiscipline`, and that the walk of a timer whose task and nodes stay listed
  comes to its end from `TimerDiscipline`.
* `Refinement`: `Spec => ReclaimsSafely`, that is, `RateMonotonic` implements
  `SafeReclamation` under the mapping `HeapPhase`, `HeapHeld`. The node a timer stands on
  is a holder like the other pointers, but an `Unguarded` one: it may take only
  published objects, and the memory is returned without regard to it, as in the code.
  For the others, `current_running_task`, the `tmp` of the dispatching thread and that
  of each yield, the theorem says that no memory is returned that they lead to. The
  lemmas sort the actions by what they do to a task's memory: nothing (`HeapStutter`), a
  change of phase (`HeapLife`), its return (`HeapReclaim`), a move of a pointer
  (`HeapMove`).

### LoadBalancer

For any number of jobs and any throttling.

* `Inductive`: `Control` says where the threads are: a thread holds a job exactly
  between its pop and its post (`Carrying`), which request is pending at which place
  (`Waiting`), which places go with which phase (`Phased`), and that after the
  signal of the remote node nothing of its results is left (`Finishing`, `Quiet`).
  `Jobs` is `JobsConserved` together with `Counted`, that a job has been computed
  once if it is among the results or on its way back, and not at all elsewhere.
  Most actions that touch a job are an instance of one lemma, `Moved`: a step that
  takes one job from one place to one other keeps `Jobs`; `Ended` is the copy of all
  results at once.
* `Conserved`: `JobsConserved`. `Collected`: `ResultsCollected`; at the end `Quiet` and
  `Waiting` leave no other place for a job that was computed but the copy.
* `Refinement`: `Spec => ComputedOnce`: `doJob` is a `Compute` of `JobPool`, because
  `Counted` says that the job in hand was not computed, `Terminate` of the local node
  is its `Collect`, and every other step stutters.

### CpuTimeList and Profiler

For any set of processes. Both rest on `KernelListProofs`: what `list_add` and
`list_del` do to the places of the nodes, and that deleting the node of an
iteration leaves the next one where `list_for_each_entry_safe` looks for it
(`DelAfter`, `DelLater`).

* `CpuTimeListProofs`: `OneThingGoesOn` (`CycleAlive`), `StaysOn` (`RegisteredStays`),
  `CursorsStayOn` (`CursorsListed`) and `CrashCauses` (`CrashesExplained`). The
  invariant follows the cycle of timer and work through loading and unloading, says
  who holds the lock, and what it protects: the cursors of the scan and the node a
  registration links to. The crashes are not assumed away: the invariant is
  stated so that it survives each overlap, with `races` naming it, and each
  allocation that fails.
* `ProfilerProofs`: `KeepsSampling` (`SamplingGoesOn`), `CrashCauses`
  (`CrashesExplained`) and `AllReleased` (`ResourcesReleased`). The invariant adds
  what is owned at each step of loading, at each label of a failed load and at each step
  of unloading (`Owns`), that a pointer to a workqueue is null only as long as none was
  made (`Pointers`), that the lock keeps the handlers out of the scan (`Exclusion`), and
  where the cancelled work may be. `AllReleased` follows from `Owns`: the five labels are
  steps, and each is shown to find what it releases and to leave what the next expects.

### SampleBuffer

For rings and samples of any size that the `ASSUME`s allow, in `ProfilerProofs`. A word
is known by its sample and its place in it, quotient and remainder by `Width`:
`WordPlace`, `PlaceIs`, `NextWord` and `Places` say what the two are of the next word and
how they order the words, and the proofs of the steps divide no more.

* `RingTypeCorrect`: no access leaves the buffer; and `NoWordTwiceHolds`
  (`NoWordTwice`): both without any condition on how the two sides meet. `RingInv` says
  that each word of a sample in the ring or in the output was written (`WasWritten`), is
  in the ring once (`InRing`), was printed once, and is in both only while it is between
  its printing and its clearing (`Output`).
* `EachSampleOnceHolds` (`EachSampleOnce`), from `RingInv` and `OrderInv`. While the two
  sides keep apart, sample k is at the k-th place of the ring and in the k-th row
  (`Pace`), what lies between the end of the rows and the module's pointer is there but
  for the words just cleared (`Contents`), words nobody has written are alike within a
  sample (`Alike`), and a run is in step with the samples (`InStep`), or found nothing
  due, ran past `BUFD_MAX` and goes on in the middle of a clear one (`Past`). Each
  disjunct of `SeenByMonitor` is used: a store behind the search, one in the sample that
  is printed, and one after the search has run past the end would each break it.

### Adjacency, Flooding and ShortestPaths

All in `LinkStateProofs`. About `Adjacency`, for any number of nodes (`NAssumption`):
`IndexInArray`, that no look-up of a pair leaves the array, and `OneLinkWritten`, that
writing one link changes that link from both ends and no other. Both rest on `RowsApart`: the
row of a node, which begins at half the product of its number and the one
before, ends before the next row begins.

About `Flooding`, for any network, costs, queue length and bounds:

* `TypeCorrect`: `Spec => []TypeOK`, with a lemma for what each operator returns
  (`HeardType`, `UpdatedType`, `LinksType`, `BroadcastType`). `LinksType` needs
  `IndexInArray`: the links a router announces have a cost that was given.
* `Numbers`: `NumbersFromOrigin`. The invariant speaks of what was
  accepted and of what is still queued, and is inductive with `TypeOK`:
  `BroadcastEntries` says that sending adds nothing to a queue but the packet that
  is sent, `IssueNumbers` that the numbers that were given only grow, and a router
  that accepts a packet is not its originator, unless it was killed.
* `Convergence`: `Converged`. What makes it inductive is what is in the packets
  (`Carrying`): a packet with the highest number of an originator that
  never gave a number twice holds what that originator sent last, in every queue,
  and a router that has taken it has written it (`Entries`); `UpdatedValue` keeps it there
  until the packet of the other end, which agrees, writes the same entry.

About `ShortestPaths`, for any network and costs, with links that go away at any time:

* `ShortestCostsHold` (`ShortestCosts`), `SmallestPredecessorHolds`
  (`SmallestPredecessor`) and `NextHopIsNearerHolds` (`NextHopIsNearer`). `DijkstraInv`
  has one part that always holds (`Control`: where the scan is, that no node is found
  twice, and which links stay as the scan met them), and one for computations that were
  not torn (`Ways`): each tentative element comes from a link that was scanned
  (`Frontier`), no link that was scanned offers less than its node has (`Offers`), nodes
  are settled in the order of their costs (`Rising`), no link between settled nodes makes
  a shorter way (`Relaxed`), and each settled node has the smallest last node among its
  shortest ways (`Tree`) and a next hop that is a neighbour (`Hops`).
* `DistanceExact` says that such costs are what the reference returns, without an
  induction theorem: no round goes below costs that no link can improve (`Bounds`; a
  first round that did is taken), and as long as a node is missing whose cost is
  explained by a way (`Explains`), a round finds one more, so that as many rounds as
  there are other nodes find them all, by counting.

### NeighborMonitor

For any periods, timeouts, queue and clock that meet the assumptions. `Noticed`
(`NoticedInTime`) and `Explained` (`DropExplained`). `IInv` bounds how long anything may
be pending before time waits for it, so that a round of `checkNeighbor` ends within
known ticks of its beginning, and relates the two recorded fields of the last
heartbeat to the clock at which they were read, modulo its turn.

### FileTransfer

For any clients, files, backlog, window and number of kills. `Whole`
(`WholeUnlessKilled`) and `NoInvention` (`NothingInvented`). `IInv` says where a
connection is and whose descriptors keep it open (`Descriptors`), that what was sent
is a beginning of the response, and all of it when the child has ended in the normal
way (`Responses`), and what a client has seen before it writes its output: the end of
the connection and all that was sent (`Outputs`). A part of `Descriptors` is that no
close notification is ever sent, because `https_server` has closed the socket by then.
`tls` is fixed and arbitrary.

### Only model-checked

* Liveness, which is out of the prover's reach: `HandlersReturn`, `Ends`, `Reaped`,
  `Profiled`, `CallReturns`, `FloodingEnds`, `DropHeals`, `BothEnd`, `AllReaped`.

## 5. Not modelled

* `CS423/MP2/calculate_mapping.c`, `CS423/MP3/work.c`, `CS423/MP4/ping.py`,
  `GUIServer.py`, `CS438/MP0`: straight-line programs, measuring or display.
* `CS438/MP2/manager_send.c` and the scripts: what they send, cut, kill and launch
  is an input of `Flooding`. The functions `DFS`, `sendWholeTopology` and
  `flushSequenceNumber` are called by nobody.
* Forwarding over more than one router. `NextHopIsNearer` says that each hop comes
  nearer to the destination, so that a message arrives once the arrays agree
  (`Converged`); while they do not it may go round.
* The 32-bit product of `mp2.c:105`, which TLC's integers cannot hold.
* Hazards seen and not covered, apart from those listed with the project: the
  readers of `/proc` files (`mp1.c:44`, `mp3.c:93`), the wrapping comparison of
  `jiffies` (`mp2.c:239`), the unlocked counter of transfers (`my_mp4.py:87`),
  sums of costs that pass the width of an int (`linkstate.c:259`), a packet that
  is built while the array changes (`linkstate.c:97`), short sends
  (`http_server.c:181`) and children of `https_server` that are not reaped
  (`https_server.c:37`).

## 6. Plan

The order so far was that of the interest of the interleavings: the scheduler and
its proofs, the load balancer, the two work-queue modules, the router; then the
timing of a link, the ring of samples and the file transfer. All
their safety properties are proved now. What is left is a wider model: forwarding over
several routers with different views, and a packet that is built while the array
changes.
