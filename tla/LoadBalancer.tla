---------------------------- MODULE LoadBalancer ----------------------------
(***************************************************************************)
(* CS423/MP4: two nodes share a list of jobs (my_mp4.py). The local node   *)
(* has all jobs at first and sends half of them to the remote one; then    *)
(* both work, and an adaptor thread on each node sends jobs to the partner *)
(* while it believes to have more of them. At the end the remote node      *)
(* sends its results back.                                                 *)
(*                                                                         *)
(* On each node run the main thread, the adaptor thread, the thread that   *)
(* reports the node's state and the HTTP server thread, which serves one   *)
(* request at a time. A post blocks its thread until the partner's server  *)
(* has handled the request, and raises an exception once the partner's     *)
(* process has ended.                                                      *)
(***************************************************************************)
EXTENDS Integers, Sequences, FiniteSets, SequencesExt

CONSTANTS JobCount,     \* minJobNum
          Throttling    \* the share of the processor each node gives to the jobs

Node == {"local", "remote"}
Job == 1 .. JobCount
Thread == {"main", "adaptor", "state"}

ASSUME JobCountAssumption == JobCount \in Nat
ASSUME ThrottlingAssumption == Throttling \in [Node -> Nat \ {0}]

Partner(n) == IF n = "local" THEN "remote" ELSE "local"

VARIABLES
  phase,        \* the global variable of that name
  jobList, resultList,
  resultA,      \* the jobs whose results setResultA has copied
  pc,           \* where each thread of each node is
  tmpJob,       \* the job a thread has popped and not yet passed on
  call,         \* the request a thread has posted and that is not yet answered
  partner,      \* what the StateManager of a node knows of the other one
  bootstrap,    \* transfers left in _bootStrapTransferHalfJobs
  lockLost,     \* jobListLock is held by a thread that no longer runs
  computed,     \* history: how often doJob has been called for each job
  served,       \* FALSE: the server thread waits for jobListLock for ever
  isRemoteTerminate

nodeVars == <<partner, bootstrap, served, isRemoteTerminate>>
doneVars == <<computed, resultA>>
vars == <<phase, jobList, resultList, pc, tmpJob, call, lockLost, nodeVars, doneVars>>

NoJob == 0
NoCall == [kind |-> "none"]
Phases == {"BOOTSTRAP", "EXECUTION", "AGGREGATION", "TERMINATION"}
Calls == {NoCall} \cup [kind : {"job", "result"}, job : Job]
                  \cup [kind : {"signal"}, phase : Phases]
                  \cup [kind : {"state"}, jobNum : Nat]

Place == {"bootstrap", "bootpost", "bootsignal", "loop", "take", "work", "check", "signal",
          "exit", "crashed", "off", "look", "pop", "transfer", "send", "dead"}

TypeOK ==
  /\ phase \in [Node -> Phases]
  /\ jobList \in [Node -> Seq(Job)] /\ resultList \in [Node -> Seq(Job)]
  /\ pc \in [Node -> [Thread -> Place]]
  /\ tmpJob \in [Node -> [Thread -> Job \cup {NoJob}]]
  /\ call \in [Node -> [Thread -> Calls]]
  /\ partner \in [Node -> [jobNum : Nat, throttling : Nat]]
  /\ bootstrap \in Nat
  /\ computed \in [Job -> Nat] /\ resultA \subseteq Job
  /\ lockLost \in [Node -> BOOLEAN] /\ served \in [Node -> BOOLEAN]
  /\ isRemoteTerminate \in BOOLEAN

\* Both processes have started their threads; _initJobToJobList has run.
Init ==
  /\ phase = [n \in Node |-> "BOOTSTRAP"]
  /\ jobList = [local |-> [i \in Job |-> i], remote |-> <<>>]
  /\ resultList = [n \in Node |-> <<>>]
  /\ pc = [n \in Node |->
             [main |-> IF n = "local" THEN "bootstrap" ELSE "loop",
              adaptor |-> "off", state |-> "send"]]
  /\ tmpJob = [n \in Node |-> [t \in Thread |-> NoJob]]
  /\ call = [n \in Node |-> [t \in Thread |-> NoCall]]
  /\ partner = [n \in Node |-> [jobNum |-> 0, throttling |-> 0]]
  /\ bootstrap = JobCount \div 2
  /\ computed = [j \in Job |-> 0] /\ resultA = {}
  /\ lockLost = [n \in Node |-> FALSE]
  /\ served = [n \in Node |-> TRUE]
  /\ isRemoteTerminate = FALSE

-----------------------------------------------------------------------------
(* Helpers *)

\* The main thread is not a daemon: the process ends with it.
Alive(n) == pc[n]["main"] \notin {"exit", "crashed"}
Answered(n, t) == call[n][t] = NoCall
\* A thread that has posted a request is blocked until the answer.
Runs(n, t, place) == Alive(n) /\ pc[n][t] = place /\ Answered(n, t)
Goto(n, t, place) == pc' = [pc EXCEPT ![n][t] = place]

Post(n, t, request) == call' = [call EXCEPT ![n][t] = request]

\* Mutant: the job stays on the list.
PopCopies(n, t, after) ==
  /\ ~lockLost[n]
  /\ jobList[n] # <<>>
  /\ tmpJob' = [tmpJob EXCEPT ![n][t] = Last(jobList[n])]
  /\ UNCHANGED jobList
  /\ Goto(n, t, after)

\* jobListLock.acquire(); tmpJob = jobList.pop(); jobListLock.release()
\* An empty list raises IndexError between the acquire and the release.
Pop(n, t, after) ==
  /\ ~lockLost[n]
  /\ jobList[n] # <<>>
  /\ tmpJob' = [tmpJob EXCEPT ![n][t] = Last(jobList[n])]
  /\ jobList' = [jobList EXCEPT ![n] = Front(@)]
  /\ Goto(n, t, after)

PopFails(n, t, place) ==
  /\ ~lockLost[n]
  /\ jobList[n] = <<>>
  /\ lockLost' = [lockLost EXCEPT ![n] = TRUE]
  /\ Goto(n, t, place)

\* delay is at most DELAYTHRESHOLD; above it the answer is no.
shouldTransfer(n) ==
  \/ Len(jobList[n]) > partner[n].jobNum + 1
  \/ /\ Len(jobList[n]) = partner[n].jobNum + 1
     /\ Throttling[n] < partner[n].throttling

-----------------------------------------------------------------------------
(* _bootStrapTransferHalfJobs, on the local node *)

BootstrapPop ==
  /\ Runs("local", "main", "bootstrap") /\ bootstrap > 0
  /\ Pop("local", "main", "bootpost")
  /\ bootstrap' = bootstrap - 1
  /\ UNCHANGED <<phase, resultList, call, lockLost, partner, served,
                 isRemoteTerminate, doneVars>>

BootstrapSignal ==
  /\ Runs("local", "main", "bootstrap") /\ bootstrap = 0
  /\ Post("local", "main", [kind |-> "signal", phase |-> "EXECUTION"])
  /\ Goto("local", "main", "bootsignal")
  /\ UNCHANGED <<phase, jobList, resultList, tmpJob, lockLost, nodeVars, doneVars>>

BootstrapDone ==
  /\ Runs("local", "main", "bootsignal")
  /\ phase' = [phase EXCEPT !["local"] = "EXECUTION"]
  /\ Goto("local", "main", "loop")
  /\ UNCHANGED <<jobList, resultList, tmpJob, call, lockLost, nodeVars, doneVars>>

-----------------------------------------------------------------------------
(* transferJobs: post the job that was popped *)

Transfer(n, t, from, next) ==
  /\ Runs(n, t, from)
  /\ Post(n, t, [kind |-> "job", job |-> tmpJob[n][t]])
  /\ tmpJob' = [tmpJob EXCEPT ![n][t] = NoJob]
  /\ Goto(n, t, next)
  /\ UNCHANGED <<phase, jobList, resultList, lockLost, nodeVars, doneVars>>

-----------------------------------------------------------------------------
(* The loop of the main thread *)

\* The first round of EXECUTION starts the adaptor.
Execute(n) ==
  /\ Runs(n, "main", "loop") /\ phase[n] = "EXECUTION"
  /\ pc' = [pc EXCEPT ![n]["main"] = "take",
                      ![n]["adaptor"] = IF @ = "off" THEN "look" ELSE @]
  /\ UNCHANGED <<phase, jobList, resultList, tmpJob, call, lockLost, nodeVars,
                 doneVars>>

Take(n) ==
  /\ Runs(n, "main", "take")
  /\ \/ Pop(n, "main", "work") /\ UNCHANGED lockLost
     \/ PopFails(n, "main", "crashed") /\ UNCHANGED <<jobList, tmpJob>>
  /\ UNCHANGED <<phase, resultList, call, nodeVars, doneVars>>

doJob(n) ==
  /\ Runs(n, "main", "work")
  /\ resultList' = [resultList EXCEPT ![n] = Append(@, tmpJob[n]["main"])]
  /\ computed' = [computed EXCEPT ![tmpJob[n]["main"]] = @ + 1]
  /\ tmpJob' = [tmpJob EXCEPT ![n]["main"] = NoJob]
  /\ Goto(n, "main", "check")
  /\ UNCHANGED <<phase, jobList, call, lockLost, nodeVars, resultA>>

\* if not jobList: phase = AGGREGATION
CheckEmpty(n) ==
  /\ Runs(n, "main", "check")
  /\ phase' = IF jobList[n] = <<>> THEN [phase EXCEPT ![n] = "AGGREGATION"] ELSE phase
  /\ Goto(n, "main", "loop")
  /\ UNCHANGED <<jobList, resultList, tmpJob, call, lockLost, nodeVars, doneVars>>

\* The local node waits for the remote one.
AwaitRemote ==
  /\ Runs("local", "main", "loop") /\ phase["local"] = "AGGREGATION"
  /\ isRemoteTerminate
  /\ phase' = [phase EXCEPT !["local"] = "TERMINATION"]
  /\ UNCHANGED <<jobList, resultList, pc, tmpJob, call, lockLost, nodeVars, doneVars>>

\* The remote node sends its results, last one first, and then the signal.
SendResult ==
  /\ Runs("remote", "main", "loop") /\ phase["remote"] = "AGGREGATION"
  /\ resultList["remote"] # <<>>
  /\ Post("remote", "main", [kind |-> "result", job |-> Last(resultList["remote"])])
  /\ resultList' = [resultList EXCEPT !["remote"] = Front(@)]
  /\ UNCHANGED <<phase, jobList, pc, tmpJob, lockLost, nodeVars, doneVars>>

\* Mutant: the signal does not wait for the last result.
SendTerminationEarly ==
  /\ Runs("remote", "main", "loop") /\ phase["remote"] = "AGGREGATION"
  /\ Post("remote", "main", [kind |-> "signal", phase |-> "TERMINATION"])
  /\ Goto("remote", "main", "signal")
  /\ UNCHANGED <<phase, jobList, resultList, tmpJob, lockLost, nodeVars, doneVars>>

SendTermination ==
  /\ Runs("remote", "main", "loop") /\ phase["remote"] = "AGGREGATION"
  /\ resultList["remote"] = <<>>
  /\ Post("remote", "main", [kind |-> "signal", phase |-> "TERMINATION"])
  /\ Goto("remote", "main", "signal")
  /\ UNCHANGED <<phase, jobList, resultList, tmpJob, lockLost, nodeVars, doneVars>>

Reported ==
  /\ Runs("remote", "main", "signal")
  /\ phase' = [phase EXCEPT !["remote"] = "TERMINATION"]
  /\ Goto("remote", "main", "loop")
  /\ UNCHANGED <<jobList, resultList, tmpJob, call, lockLost, nodeVars, doneVars>>

\* The local node copies the results it has by then; both processes end.
Terminate(n) ==
  /\ Runs(n, "main", "loop") /\ phase[n] = "TERMINATION"
  /\ IF n = "local"
     THEN /\ resultA' = resultA \cup ToSet(resultList[n])
          /\ resultList' = [resultList EXCEPT ![n] = <<>>]
     ELSE UNCHANGED <<resultA, resultList>>
  /\ Goto(n, "main", "exit")
  /\ UNCHANGED <<phase, jobList, tmpJob, call, lockLost, nodeVars, computed>>

-----------------------------------------------------------------------------
(* The adaptor and the thread that reports the state *)

AdaptorDecides(n) ==
  /\ Runs(n, "adaptor", "look") /\ shouldTransfer(n)
  /\ Goto(n, "adaptor", "pop")
  /\ UNCHANGED <<phase, jobList, resultList, tmpJob, call, lockLost, nodeVars,
                 doneVars>>

AdaptorPop(n) ==
  /\ Runs(n, "adaptor", "pop")
  /\ \/ Pop(n, "adaptor", "transfer") /\ UNCHANGED lockLost
     \/ PopFails(n, "adaptor", "dead") /\ UNCHANGED <<jobList, tmpJob>>
  /\ UNCHANGED <<phase, resultList, call, nodeVars, doneVars>>

sendState(n) ==
  /\ Runs(n, "state", "send") /\ phase[n] \in {"EXECUTION", "AGGREGATION"}
  /\ Post(n, "state", [kind |-> "state", jobNum |-> Len(jobList[n])])
  /\ UNCHANGED <<phase, jobList, resultList, pc, tmpJob, lockLost, nodeVars, doneVars>>

\* The partner's process has ended: the post raises an exception, and what was
\* being sent is gone with the thread.
PostFails(n, t) ==
  /\ Alive(n) /\ ~Alive(Partner(n))
  /\ ~Answered(n, t) /\ pc[n][t] # "dead"
  /\ Goto(n, t, IF t = "main" THEN "crashed" ELSE "dead")
  /\ UNCHANGED <<phase, jobList, resultList, tmpJob, call, lockLost, nodeVars,
                 doneVars>>

-----------------------------------------------------------------------------
(* do_POST, on node n for a thread t of the partner *)

Serve(n, t, kind) ==
  /\ Alive(n) /\ served[n]
  /\ call[Partner(n)][t].kind = kind
  /\ Post(Partner(n), t, NoCall)

ServeJob(n, t) ==
  /\ Serve(n, t, "job") /\ ~lockLost[n]
  /\ jobList' = [jobList EXCEPT ![n] = Append(@, call[Partner(n)][t].job)]
  /\ UNCHANGED <<phase, resultList, pc, tmpJob, lockLost, nodeVars, doneVars>>

\* The lock was left held: the only server thread waits for it.
ServerBlocks(n, t) ==
  /\ Alive(n) /\ served[n] /\ lockLost[n]
  /\ call[Partner(n)][t].kind = "job"
  /\ served' = [served EXCEPT ![n] = FALSE]
  /\ UNCHANGED <<phase, jobList, resultList, pc, tmpJob, call, lockLost, partner,
                 bootstrap, isRemoteTerminate, doneVars>>

\* Mutant: without "global", the assignment makes a local variable.
ServeSignalLocally(n, t) ==
  /\ Serve(n, t, "signal")
  /\ IF call[Partner(n)][t].phase = "TERMINATION"
     THEN UNCHANGED phase
     ELSE phase' = [phase EXCEPT ![n] = call[Partner(n)][t].phase]
  /\ UNCHANGED <<jobList, resultList, pc, tmpJob, lockLost, nodeVars, doneVars>>

ServeSignal(n, t) ==
  /\ Serve(n, t, "signal")
  /\ IF call[Partner(n)][t].phase = "TERMINATION"
     THEN isRemoteTerminate' = TRUE /\ UNCHANGED phase
     ELSE phase' = [phase EXCEPT ![n] = call[Partner(n)][t].phase]
          /\ UNCHANGED isRemoteTerminate
  /\ UNCHANGED <<jobList, resultList, pc, tmpJob, lockLost, partner, bootstrap,
                 served, doneVars>>

ServeResult(n, t) ==
  /\ Serve(n, t, "result")
  /\ resultList' = [resultList EXCEPT ![n] = Append(@, call[Partner(n)][t].job)]
  /\ UNCHANGED <<phase, jobList, pc, tmpJob, lockLost, nodeVars, doneVars>>

\* setPartnerVariables
ServeState(n, t) ==
  /\ Serve(n, t, "state")
  /\ partner' = [partner EXCEPT ![n] =
                   [jobNum |-> call[Partner(n)][t].jobNum,
                    throttling |-> Throttling[Partner(n)]]]
  /\ UNCHANGED <<phase, jobList, resultList, pc, tmpJob, lockLost, bootstrap,
                 served, isRemoteTerminate, doneVars>>

-----------------------------------------------------------------------------

MainStep(n) ==
  \/ Execute(n) \/ Take(n) \/ doJob(n) \/ CheckEmpty(n) \/ Terminate(n)
  \/ PostFails(n, "main")
  \/ n = "local" /\ \/ BootstrapPop \/ BootstrapSignal \/ BootstrapDone
                     \/ Transfer(n, "main", "bootpost", "bootstrap")
                     \/ AwaitRemote
  \/ n = "remote" /\ (SendResult \/ SendTermination \/ Reported)

AdaptorProceeds(n) ==
  \/ AdaptorPop(n)
  \/ Transfer(n, "adaptor", "transfer", "look")
  \/ PostFails(n, "adaptor")

StateStep(n) == sendState(n) \/ PostFails(n, "state")

ServerStep(n, t) == \/ ServeJob(n, t) \/ ServerBlocks(n, t) \/ ServeSignal(n, t)
                    \/ ServeResult(n, t) \/ ServeState(n, t)

Next == \E n \in Node : \/ MainStep(n) \/ AdaptorDecides(n) \/ AdaptorProceeds(n)
                        \/ StateStep(n)
                        \/ \E t \in Thread : ServerStep(n, t)

Spec == Init /\ [][Next]_vars

\* Threads run, and a server that runs answers every request. An adaptor may
\* find the delay too long at every look; only a transfer it has begun goes on.
Fairness ==
  \A n \in Node :
    /\ WF_vars(MainStep(n))
    /\ WF_vars(AdaptorProceeds(n))
    /\ WF_vars(StateStep(n))
    /\ \A t \in Thread : SF_vars(ServerStep(n, t))

FairSpec == Spec /\ Fairness

-----------------------------------------------------------------------------

\* Where a job is: at positions of the lists, with threads that have popped it, in
\* requests with the job or with its result, at positions of the results, or copied
\* out of them.
Asked(j, n, kind) == {t \in Thread : call[n][t].kind = kind /\ call[n][t].job = j}

WhereOn(j, n) ==
  {<<"list", n, i>> : i \in {k \in DOMAIN jobList[n] : jobList[n][k] = j}}
  \cup {<<"thread", n, t>> : t \in {u \in Thread : tmpJob[n][u] = j}}
  \cup {<<"job", n, t>> : t \in Asked(j, n, "job")}
  \cup {<<"result", n, i>> : i \in {k \in DOMAIN resultList[n] : resultList[n][k] = j}}
  \cup {<<"return", n, t>> : t \in Asked(j, n, "result")}
  \cup {<<"copy", n, "main">> : k \in IF n = "local" THEN {j} \cap resultA ELSE {}}

Where(j) == WhereOn(j, "local") \cup WhereOn(j, "remote")

\* A job is in one place. Jobs pass between threads and nodes without a transaction,
\* and a request that fails keeps the job it carried.
JobsConserved == \A j \in Job : LET places == Where(j) IN \E w \in places : places = {w}

\* When the local node puts the results together, nothing that was computed is
\* left behind: the signal of the remote node comes after its last result, and
\* neither node computes anything after it has begun to aggregate.
ResultsCollected ==
  pc["local"]["main"] = "exit" => resultA = {j \in Job : computed[j] > 0}

\* A job is computed at most once over both nodes, and the results are collected
\* once, from jobs that were computed.
Work == INSTANCE JobPool WITH collected <- resultA

ComputedOnce == Work!Pool

\* The program ends, unless an empty list was popped or a process has ended
\* under a request. A job on its way does not keep the two nodes waiting.
Ends == <>(\/ \A n \in Node : pc[n]["main"] = "exit"
           \/ \E n \in Node : lockLost[n] \/ pc[n]["main"] = "crashed")
=============================================================================
