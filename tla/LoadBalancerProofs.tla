------------------------- MODULE LoadBalancerProofs -------------------------
(***************************************************************************)
(* The jobs of the load balancer, for any number of them and any           *)
(* throttling: that none is lost or doubled between the lists, threads and *)
(* requests of the two nodes, and that the results are complete.           *)
(***************************************************************************)
EXTENDS LoadBalancer, TLAPS

-----------------------------------------------------------------------------
(* The inductive invariant. *)

\* What has been computed is among the results, or on its way back.
Finished == {"result", "return", "copy"}
Counted == \A j \in Job : \A w \in Where(j) :
             computed[j] = IF w[1] \in Finished THEN 1 ELSE 0

\* A thread has a job while it is between taking it and passing it on.
Carrying ==
  \A n \in Node : /\ tmpJob[n]["main"] # NoJob <=> pc[n]["main"] \in {"bootpost", "work"}
                  /\ tmpJob[n]["adaptor"] # NoJob <=> pc[n]["adaptor"] = "transfer"
                  /\ tmpJob[n]["state"] = NoJob

\* Where each thread waits for an answer, and for which.
Waiting ==
  /\ \A n \in Node : /\ pc[n]["adaptor"] \in {"off", "look", "pop", "transfer", "dead"}
                     /\ pc[n]["state"] \in {"send", "dead"}
                     /\ call[n]["adaptor"].kind \in {"none", "job"}
                     /\ call[n]["adaptor"].kind = "none" \/ pc[n]["adaptor"] \in {"look", "dead"}
                     /\ call[n]["state"].kind \in {"none", "state"}
  /\ call["local"]["main"].kind = "job" => pc["local"]["main"] \in {"bootstrap", "crashed"}
  /\ call["local"]["main"].kind = "signal" => /\ pc["local"]["main"] \in {"bootsignal", "crashed"}
                                              /\ call["local"]["main"].phase = "EXECUTION"
  /\ call["local"]["main"].kind \in {"none", "job", "signal"}
  /\ call["remote"]["main"].kind = "result" => /\ pc["remote"]["main"] \in {"loop", "crashed"}
                                               /\ phase["remote"] = "AGGREGATION"
  /\ call["remote"]["main"].kind = "signal" => /\ pc["remote"]["main"] \in {"signal", "crashed"}
                                               /\ call["remote"]["main"].phase = "TERMINATION"
  /\ call["remote"]["main"].kind \in {"none", "result", "signal"}

\* Where the main threads are in each phase.
Phased ==
  /\ phase["local"] = "BOOTSTRAP" =>
       pc["local"]["main"] \in {"bootstrap", "bootpost", "bootsignal", "crashed"}
  /\ phase["remote"] = "BOOTSTRAP" => pc["remote"]["main"] = "loop"
  /\ \A n \in Node : phase[n] = "EXECUTION" =>
       pc[n]["main"] \in {"loop", "take", "work", "check", "crashed"}
  /\ phase["local"] = "AGGREGATION" => pc["local"]["main"] = "loop"
  /\ phase["remote"] = "AGGREGATION" => pc["remote"]["main"] \in {"loop", "signal", "crashed"}
  /\ \A n \in Node : phase[n] = "TERMINATION" => pc[n]["main"] \in {"loop", "exit"}
  /\ \/ pc["local"]["main"] \in {"bootstrap", "bootpost"}
     \/ call["local"]["main"].kind = "signal"
     => phase["remote"] = "BOOTSTRAP"

\* The remote node has sent its last result.
Quiet ==
  /\ resultList["remote"] = <<>>
  /\ call["remote"]["main"].kind # "result"
  /\ \/ phase["remote"] = "AGGREGATION" /\ pc["remote"]["main"] \in {"signal", "crashed"}
     \/ phase["remote"] = "TERMINATION"

Finishing ==
  /\ \/ isRemoteTerminate \/ pc["remote"]["main"] = "signal"
     \/ call["remote"]["main"].kind = "signal" \/ phase["remote"] = "TERMINATION"
     => Quiet
  /\ phase["local"] = "TERMINATION" => isRemoteTerminate
  /\ pc["local"]["main"] = "exit" =>
       phase["local"] = "TERMINATION" /\ resultList["local"] = <<>>
  /\ resultA # {} => pc["local"]["main"] = "exit"

Control == Carrying /\ Waiting /\ Phased /\ Finishing
Jobs == JobsConserved /\ Counted

IInv == TypeOK /\ Control /\ Jobs

-----------------------------------------------------------------------------
(* The variables a step changes, place by place. *)

\* A thread goes on.
LEMMA GotoPc ==
  ASSUME TypeOK, NEW n \in Node, NEW t \in Thread, NEW place \in Place, Goto(n, t, place)
  PROVE  /\ pc' \in [Node -> [Thread -> Place]]
         /\ \A m \in Node, s \in Thread :
              pc'[m][s] = IF m = n /\ s = t THEN place ELSE pc[m][s]
BY DEF TypeOK, Goto

\* The places the threads go to, one by one.
LEMMA PlaceIs ==
  /\ "bootstrap" \in Place /\ "bootpost" \in Place /\ "bootsignal" \in Place
  /\ "loop" \in Place /\ "take" \in Place /\ "work" \in Place /\ "check" \in Place
  /\ "signal" \in Place /\ "exit" \in Place /\ "crashed" \in Place
  /\ "look" \in Place /\ "pop" \in Place /\ "transfer" \in Place /\ "dead" \in Place
BY DEF Place

\* A thread posts a request, or is answered.
LEMMA PostCall ==
  ASSUME TypeOK, NEW n \in Node, NEW t \in Thread, NEW request \in Calls, Post(n, t, request)
  PROVE  /\ call' \in [Node -> [Thread -> Calls]]
         /\ \A m \in Node, s \in Thread :
              call'[m][s] = IF m = n /\ s = t THEN request ELSE call[m][s]
BY DEF TypeOK, Post

\* The requests there are.
LEMMA CallKinds ==
  ASSUME NEW c \in Calls
  PROVE  /\ c.kind \in {"none", "job", "result", "signal", "state"}
         /\ c = NoCall <=> c.kind = "none"
         /\ c.kind \in {"job", "result"} => c.job \in Job
         /\ c.kind = "signal" => c.phase \in Phases
         /\ c.kind = "state" => c.jobNum \in Nat
BY DEF Calls, NoCall

\* The requests the threads post are requests.
LEMMA CallsAre ==
  /\ NoCall \in Calls /\ NoCall.kind = "none"
  /\ \A j \in Job, kind \in {"job", "result"} :
       [kind |-> kind, job |-> j] \in Calls
  /\ \A p \in Phases : [kind |-> "signal", phase |-> p] \in Calls
  /\ \A k \in Nat : [kind |-> "state", jobNum |-> k] \in Calls
BY DEF Calls, NoCall

\* The last job of a list, and the others.
LEMMA LastFront ==
  ASSUME NEW s \in Seq(Job), s # <<>>
  PROVE  /\ Len(s) \in Nat \ {0} /\ Last(s) = s[Len(s)] /\ Last(s) \in Job
         /\ Front(s) \in Seq(Job) /\ DOMAIN Front(s) = 1 .. Len(s) - 1
         /\ \A i \in 1 .. Len(s) - 1 : Front(s)[i] = s[i]
BY DEF Last, Front

\* A job taken from the end of a list.
LEMMA Popping ==
  ASSUME TypeOK, NEW n \in Node, NEW t \in Thread, NEW after \in Place, Pop(n, t, after)
  PROVE  /\ jobList' \in [Node -> Seq(Job)]
         /\ jobList[n] # <<>> /\ jobList'[n] = Front(jobList[n])
         /\ \A m \in Node \ {n} : jobList'[m] = jobList[m]
         /\ tmpJob' \in [Node -> [Thread -> Job \cup {NoJob}]]
         /\ \A m \in Node, s \in Thread :
              tmpJob'[m][s] = IF m = n /\ s = t THEN Last(jobList[n]) ELSE tmpJob[m][s]
<1>1. jobList[n] \in Seq(Job) /\ jobList[n] # <<>>
  BY DEF Pop, TypeOK
<1>2. Last(jobList[n]) \in Job /\ Front(jobList[n]) \in Seq(Job)
  BY <1>1, LastFront
<1>. QED
  BY <1>1, <1>2 DEF Pop, TypeOK

\* Zero is no job.
LEMMA NoJobIsNone == NoJob \notin Job
BY JobCountAssumption DEF Job, NoJob

\* The steps there are.
LEMMA Steps ==
  ASSUME Next
  PROVE  \/ BootstrapPop \/ BootstrapSignal \/ BootstrapDone
         \/ Transfer("local", "main", "bootpost", "bootstrap")
         \/ AwaitRemote \/ SendResult \/ SendTermination \/ Reported
         \/ \E n \in Node : \/ Execute(n) \/ Take(n) \/ doJob(n) \/ CheckEmpty(n) \/ Terminate(n)
                            \/ AdaptorDecides(n) \/ AdaptorPop(n)
                            \/ Transfer(n, "adaptor", "transfer", "look")
                            \/ sendState(n)
         \/ \E n \in Node, t \in Thread : \/ PostFails(n, t)
                                         \/ ServeJob(n, t) \/ ServerBlocks(n, t)
                                         \/ ServeSignal(n, t) \/ ServeResult(n, t)
                                         \/ ServeState(n, t)
<1>1. "main" \in Thread /\ "adaptor" \in Thread /\ "state" \in Thread
  BY DEF Thread
<1>. QED
  BY <1>1 DEF Next, MainStep, AdaptorProceeds, StateStep, ServerStep

-----------------------------------------------------------------------------
(* Types *)

\* A thread whose request is there to be served.
LEMMA Served ==
  ASSUME TypeOK, NEW n \in Node, NEW t \in Thread, NEW kind \in {"job", "result", "signal", "state"},
         Serve(n, t, kind)
  PROVE  /\ Partner(n) \in Node /\ Partner(n) # n /\ Alive(n)
         /\ call[Partner(n)][t] \in Calls /\ call[Partner(n)][t].kind = kind
         /\ Post(Partner(n), t, NoCall)
<1>1. Partner(n) \in Node /\ Partner(n) # n
  BY DEF Partner, Node
<1>2. call[Partner(n)][t] \in Calls
  BY <1>1 DEF TypeOK
<1>. QED
  BY <1>1, <1>2 DEF Serve

\* Every step keeps the types.
LEMMA TypeStep ==
  ASSUME TypeOK, Carrying, Next
  PROVE  TypeOK'
<1> USE DEF nodeVars, doneVars
<1>1. "local" \in Node /\ "remote" \in Node /\ "main" \in Thread /\ "adaptor" \in Thread
      /\ "state" \in Thread
  BY DEF Node, Thread
<1>2. CASE BootstrapPop
  <2>1. Pop("local", "main", "bootpost") /\ Goto("local", "main", "bootpost")
    BY <1>2 DEF BootstrapPop, Pop
  <2>2. pc' \in [Node -> [Thread -> Place]]
    BY <1>1, <2>1, GotoPc, PlaceIs
  <2>3. /\ jobList' \in [Node -> Seq(Job)]
        /\ tmpJob' \in [Node -> [Thread -> Job \cup {NoJob}]]
    BY <1>1, <2>1, Popping DEF Place
  <2>. QED
    BY <1>2, <2>2, <2>3 DEF BootstrapPop, TypeOK
<1>3. CASE BootstrapSignal
  <2>1. /\ Post("local", "main", [kind |-> "signal", phase |-> "EXECUTION"])
        /\ Goto("local", "main", "bootsignal")
    BY <1>3 DEF BootstrapSignal
  <2>2. pc' \in [Node -> [Thread -> Place]]
    BY <1>1, <2>1, GotoPc, PlaceIs
  <2>3. [kind |-> "signal", phase |-> "EXECUTION"] \in Calls
    BY CallsAre DEF Phases
  <2>4. call' \in [Node -> [Thread -> Calls]]
    BY <1>1, <2>1, <2>3, PostCall
  <2>. QED
    BY <1>3, <2>2, <2>4 DEF BootstrapSignal, TypeOK
<1>4. CASE BootstrapDone
  <2>1. Goto("local", "main", "loop")
    BY <1>4 DEF BootstrapDone
  <2>2. pc' \in [Node -> [Thread -> Place]]
    BY <1>1, <2>1, GotoPc, PlaceIs
  <2>. QED
    BY <1>4, <2>2 DEF BootstrapDone, TypeOK, Phases
<1>5. ASSUME NEW n \in Node, NEW t \in Thread, NEW from, NEW next \in Place,
             Transfer(n, t, from, next), tmpJob[n][t] # NoJob
      PROVE  TypeOK'
  <2>1. Post(n, t, [kind |-> "job", job |-> tmpJob[n][t]]) /\ Goto(n, t, next)
    BY <1>5 DEF Transfer
  <2>2. pc' \in [Node -> [Thread -> Place]]
    BY <2>1, GotoPc
  <2>3. [kind |-> "job", job |-> tmpJob[n][t]] \in Calls
    <3>1. tmpJob[n][t] \in Job
      BY <1>5 DEF TypeOK
    <3>. QED
      BY <3>1, CallsAre
  <2>4. call' \in [Node -> [Thread -> Calls]]
    BY <2>1, <2>3, PostCall
  <2>5. tmpJob' \in [Node -> [Thread -> Job \cup {NoJob}]]
    BY <1>5 DEF Transfer, TypeOK
  <2>. QED
    BY <1>5, <2>2, <2>4, <2>5 DEF Transfer, TypeOK
<1>6. ASSUME NEW n \in Node, Execute(n) PROVE TypeOK'
  <2>1. pc' \in [Node -> [Thread -> Place]]
    BY ZenonT(60), <1>1, <1>6 DEF Execute, TypeOK, Place
  <2>. QED
    BY <1>6, <2>1 DEF Execute, TypeOK
<1>7. ASSUME NEW n \in Node, Take(n) PROVE TypeOK'
  <2>1. CASE Pop(n, "main", "work") /\ UNCHANGED lockLost
    <3>1. Goto(n, "main", "work")
      BY <2>1 DEF Pop
    <3>2. pc' \in [Node -> [Thread -> Place]]
      BY <1>1, <3>1, GotoPc, PlaceIs
    <3>3. /\ jobList' \in [Node -> Seq(Job)]
          /\ tmpJob' \in [Node -> [Thread -> Job \cup {NoJob}]]
      BY <1>1, <2>1, Popping DEF Place
    <3>. QED
      BY <1>7, <2>1, <3>2, <3>3 DEF Take, TypeOK
  <2>2. CASE PopFails(n, "main", "crashed") /\ UNCHANGED <<jobList, tmpJob>>
    <3>1. pc' \in [Node -> [Thread -> Place]]
      BY <1>1, <2>2, GotoPc, PlaceIs DEF PopFails
    <3>. QED
      BY <1>7, <2>2, <3>1 DEF Take, PopFails, TypeOK
  <2>. QED
    BY <1>7, <2>1, <2>2 DEF Take
<1>8. ASSUME NEW n \in Node, doJob(n) PROVE TypeOK'
  <2>1. pc[n]["main"] = "work" /\ Goto(n, "main", "check")
    BY <1>8 DEF doJob, Runs
  <2>2. pc' \in [Node -> [Thread -> Place]]
    BY <1>1, <2>1, GotoPc, PlaceIs
  <2>3. tmpJob[n]["main"] \in Job
    BY <1>1, <2>1 DEF Carrying, TypeOK
  <2>4. resultList' \in [Node -> Seq(Job)]
    BY <1>8, <2>3 DEF doJob, TypeOK
  <2>5. tmpJob' \in [Node -> [Thread -> Job \cup {NoJob}]]
    BY <1>1, <1>8 DEF doJob, TypeOK
  <2>6. computed' \in [Job -> Nat]
    BY <1>8, <2>3 DEF doJob, TypeOK
  <2>. QED
    BY <1>8, <2>2, <2>4, <2>5, <2>6 DEF doJob, TypeOK
<1>9. ASSUME NEW n \in Node, CheckEmpty(n) PROVE TypeOK'
  <2>1. pc' \in [Node -> [Thread -> Place]]
    BY <1>1, <1>9, GotoPc, PlaceIs DEF CheckEmpty
  <2>. QED
    BY <1>9, <2>1 DEF CheckEmpty, TypeOK, Phases
<1>10. CASE AwaitRemote
  BY <1>10 DEF AwaitRemote, TypeOK, Phases
<1>11. CASE SendResult
  <2>1. resultList["remote"] \in Seq(Job) /\ resultList["remote"] # <<>>
    BY <1>1, <1>11 DEF SendResult, TypeOK
  <2>2. Last(resultList["remote"]) \in Job /\ Front(resultList["remote"]) \in Seq(Job)
    BY <2>1, LastFront
  <2>3. [kind |-> "result", job |-> Last(resultList["remote"])] \in Calls
    BY <2>2, CallsAre
  <2>4. call' \in [Node -> [Thread -> Calls]]
    BY <1>1, <1>11, <2>3, PostCall DEF SendResult
  <2>5. resultList' \in [Node -> Seq(Job)]
    BY <1>11, <2>2 DEF SendResult, TypeOK
  <2>. QED
    BY <1>11, <2>4, <2>5 DEF SendResult, TypeOK
<1>12. CASE SendTermination
  <2>1. pc' \in [Node -> [Thread -> Place]]
    BY <1>1, <1>12, GotoPc, PlaceIs DEF SendTermination
  <2>2. [kind |-> "signal", phase |-> "TERMINATION"] \in Calls
    BY CallsAre DEF Phases
  <2>3. call' \in [Node -> [Thread -> Calls]]
    BY <1>1, <1>12, <2>2, PostCall DEF SendTermination
  <2>. QED
    BY <1>12, <2>1, <2>3 DEF SendTermination, TypeOK
<1>13. CASE Reported
  <2>1. pc' \in [Node -> [Thread -> Place]]
    BY <1>1, <1>13, GotoPc, PlaceIs DEF Reported
  <2>. QED
    BY <1>13, <2>1 DEF Reported, TypeOK, Phases
<1>14. ASSUME NEW n \in Node, Terminate(n) PROVE TypeOK'
  <2>1. pc' \in [Node -> [Thread -> Place]]
    BY <1>1, <1>14, GotoPc, PlaceIs DEF Terminate
  <2>2. ToSet(resultList[n]) \subseteq Job
    BY DEF TypeOK, ToSet
  <2>3. <<>> \in Seq(Job)
    OBVIOUS
  <2>4. resultA' \subseteq Job /\ resultList' \in [Node -> Seq(Job)]
    BY <1>14, <2>2, <2>3 DEF Terminate, TypeOK
  <2>. QED
    BY <1>14, <2>1, <2>4 DEF Terminate, TypeOK
<1>15. ASSUME NEW n \in Node, AdaptorDecides(n) PROVE TypeOK'
  <2>1. pc' \in [Node -> [Thread -> Place]]
    BY <1>1, <1>15, GotoPc, PlaceIs DEF AdaptorDecides
  <2>. QED
    BY <1>15, <2>1 DEF AdaptorDecides, TypeOK
<1>16. ASSUME NEW n \in Node, AdaptorPop(n) PROVE TypeOK'
  <2>1. CASE Pop(n, "adaptor", "transfer") /\ UNCHANGED lockLost
    <3>1. Goto(n, "adaptor", "transfer")
      BY <2>1 DEF Pop
    <3>2. pc' \in [Node -> [Thread -> Place]]
      BY <1>1, <3>1, GotoPc, PlaceIs
    <3>3. /\ jobList' \in [Node -> Seq(Job)]
          /\ tmpJob' \in [Node -> [Thread -> Job \cup {NoJob}]]
      BY <1>1, <2>1, Popping DEF Place
    <3>. QED
      BY <1>16, <2>1, <3>2, <3>3 DEF AdaptorPop, TypeOK
  <2>2. CASE PopFails(n, "adaptor", "dead") /\ UNCHANGED <<jobList, tmpJob>>
    <3>1. pc' \in [Node -> [Thread -> Place]]
      BY <1>1, <2>2, GotoPc, PlaceIs DEF PopFails
    <3>. QED
      BY <1>16, <2>2, <3>1 DEF AdaptorPop, PopFails, TypeOK
  <2>. QED
    BY <1>16, <2>1, <2>2 DEF AdaptorPop
<1>17. ASSUME NEW n \in Node, sendState(n) PROVE TypeOK'
  <2>1. Len(jobList[n]) \in Nat
    BY DEF TypeOK
  <2>2. [kind |-> "state", jobNum |-> Len(jobList[n])] \in Calls
    BY <2>1, CallsAre
  <2>3. call' \in [Node -> [Thread -> Calls]]
    BY <1>1, <1>17, <2>2, PostCall DEF sendState
  <2>. QED
    BY <1>17, <2>3 DEF sendState, TypeOK
<1>18. ASSUME NEW n \in Node, NEW t \in Thread, PostFails(n, t) PROVE TypeOK'
  <2>1. pc' \in [Node -> [Thread -> Place]]
    <3>1. CASE t = "main"
      BY <1>18, <3>1, GotoPc, PlaceIs DEF PostFails
    <3>2. CASE t # "main"
      BY <1>18, <3>2, GotoPc, PlaceIs DEF PostFails
    <3>. QED
      BY <3>1, <3>2
  <2>. QED
    BY <1>18, <2>1 DEF PostFails, TypeOK
<1>19. ASSUME NEW n \in Node, NEW t \in Thread, ServeJob(n, t) PROVE TypeOK'
  <2>1. Serve(n, t, "job")
    BY <1>19 DEF ServeJob
  <2>2. call' \in [Node -> [Thread -> Calls]]
    BY <2>1, Served, PostCall, CallsAre
  <2>3. call[Partner(n)][t].job \in Job
    BY <2>1, Served, CallKinds
  <2>4. jobList' \in [Node -> Seq(Job)]
    BY <1>19, <2>3 DEF ServeJob, TypeOK
  <2>. QED
    BY <1>19, <2>2, <2>4 DEF ServeJob, TypeOK
<1>20. ASSUME NEW n \in Node, NEW t \in Thread, ServerBlocks(n, t) PROVE TypeOK'
  BY <1>20 DEF ServerBlocks, TypeOK
<1>21. ASSUME NEW n \in Node, NEW t \in Thread, ServeSignal(n, t) PROVE TypeOK'
  <2>1. Serve(n, t, "signal")
    BY <1>21 DEF ServeSignal
  <2>2. call' \in [Node -> [Thread -> Calls]]
    BY <2>1, Served, PostCall, CallsAre
  <2>3. call[Partner(n)][t].phase \in Phases
    BY <2>1, Served, CallKinds
  <2>. QED
    BY <1>21, <2>2, <2>3 DEF ServeSignal, TypeOK
<1>22. ASSUME NEW n \in Node, NEW t \in Thread, ServeResult(n, t) PROVE TypeOK'
  <2>1. Serve(n, t, "result")
    BY <1>22 DEF ServeResult
  <2>2. call' \in [Node -> [Thread -> Calls]]
    BY <2>1, Served, PostCall, CallsAre
  <2>3. call[Partner(n)][t].job \in Job
    BY <2>1, Served, CallKinds
  <2>4. resultList' \in [Node -> Seq(Job)]
    BY <1>22, <2>3 DEF ServeResult, TypeOK
  <2>. QED
    BY <1>22, <2>2, <2>4 DEF ServeResult, TypeOK
<1>23. ASSUME NEW n \in Node, NEW t \in Thread, ServeState(n, t) PROVE TypeOK'
  <2>1. Serve(n, t, "state")
    BY <1>23 DEF ServeState
  <2>2. call' \in [Node -> [Thread -> Calls]]
    BY <2>1, Served, PostCall, CallsAre
  <2>3. call[Partner(n)][t].jobNum \in Nat /\ Throttling[Partner(n)] \in Nat
    BY <2>1, Served, CallKinds, ThrottlingAssumption
  <2>4. partner' \in [Node -> [jobNum : Nat, throttling : Nat]]
    BY <1>23, <2>3 DEF ServeState, TypeOK
  <2>. QED
    BY <1>23, <2>2, <2>4 DEF ServeState, TypeOK
<1>24. Transfer("local", "main", "bootpost", "bootstrap") => TypeOK'
  BY <1>1, <1>5 DEF Transfer, Runs, Carrying, Place
<1>25. \A n \in Node : Transfer(n, "adaptor", "transfer", "look") => TypeOK'
  BY <1>1, <1>5 DEF Transfer, Runs, Carrying, Place
<1>. QED
  BY <1>2, <1>3, <1>4, <1>6, <1>7, <1>8, <1>9, <1>10, <1>11, <1>12, <1>13, <1>14, <1>15,
     <1>16, <1>17, <1>18, <1>19, <1>20, <1>21, <1>22, <1>23, <1>24, <1>25, Steps

-----------------------------------------------------------------------------
(* The threads *)

\* Every step keeps the threads in the places the invariant names.
LEMMA ControlStep ==
  ASSUME TypeOK, Control, Next
  PROVE  Control'
<1> USE DEF Control, doneVars, nodeVars
<1>1. /\ Node = {"local", "remote"} /\ Thread = {"main", "adaptor", "state"}
      /\ \A n \in Node, t \in Thread : call[n][t] \in Calls
  BY DEF Node, Thread, TypeOK
<1>2. CASE BootstrapPop
  <2>1. pc["local"]["main"] = "bootstrap" /\ call["local"]["main"].kind = "none"
    BY <1>2, CallsAre DEF BootstrapPop, Runs, Answered
  <2>2. Pop("local", "main", "bootpost") /\ Goto("local", "main", "bootpost")
    BY <1>2 DEF BootstrapPop, Pop
  <2>3. \A m \in Node, s \in Thread :
         pc'[m][s] = IF m = "local" /\ s = "main" THEN "bootpost" ELSE pc[m][s]
    BY <1>1, <2>2, GotoPc, PlaceIs
  <2>4. jobList["local"] # <<>> /\ \A m \in Node, s \in Thread :
         tmpJob'[m][s] = IF m = "local" /\ s = "main" THEN Last(jobList["local"]) ELSE tmpJob[m][s]
    BY <1>1, <2>2, Popping DEF Place
  <2>5. Last(jobList["local"]) # NoJob
    BY <1>1, <2>4, LastFront, NoJobIsNone DEF TypeOK
  <2>6. UNCHANGED <<phase, resultList, resultA, call, isRemoteTerminate>>
    BY <1>2 DEF BootstrapPop
  <2>7. Carrying'
    BY <1>1, <2>1, <2>2, <2>3, <2>4, <2>5, <2>6 DEF Carrying, Waiting
  <2>8. Waiting'
    BY <1>1, <2>1, <2>2, <2>3, <2>4, <2>5, <2>6 DEF Waiting, Phased
  <2>9. Phased'
    BY <1>1, <2>1, <2>2, <2>3, <2>4, <2>5, <2>6 DEF Phased, Waiting
  <2>10. Finishing'
    BY <1>1, <2>1, <2>2, <2>3, <2>4, <2>5, <2>6 DEF Finishing, Quiet, Phased, Waiting
  <2>. QED
    BY <2>7, <2>8, <2>9, <2>10 DEF Control
<1>3. CASE BootstrapSignal
  <2>1. pc["local"]["main"] = "bootstrap" /\ call["local"]["main"].kind = "none"
    BY <1>3, CallsAre DEF BootstrapSignal, Runs, Answered
  <2>2. \A m \in Node, s \in Thread :
         pc'[m][s] = IF m = "local" /\ s = "main" THEN "bootsignal" ELSE pc[m][s]
    BY <1>1, <1>3, GotoPc, PlaceIs DEF BootstrapSignal
  <2>3. [kind |-> "signal", phase |-> "EXECUTION"] \in Calls
    BY CallsAre DEF Phases
  <2>4. \A m \in Node, s \in Thread :
         call'[m][s] = IF m = "local" /\ s = "main" THEN [kind |-> "signal", phase |-> "EXECUTION"] ELSE call[m][s]
    BY <1>1, <1>3, <2>3, PostCall DEF BootstrapSignal
  <2>5. UNCHANGED <<phase, resultList, resultA, tmpJob, isRemoteTerminate>>
    BY <1>3 DEF BootstrapSignal
  <2>6. Carrying'
    BY <1>1, <2>1, <2>2, <2>3, <2>4, <2>5 DEF Carrying, Waiting
  <2>7. Waiting'
    BY <1>1, <2>1, <2>2, <2>3, <2>4, <2>5 DEF Waiting, Phased
  <2>8. Phased'
    BY <1>1, <2>1, <2>2, <2>3, <2>4, <2>5 DEF Phased, Waiting
  <2>9. Finishing'
    BY <1>1, <2>1, <2>2, <2>3, <2>4, <2>5 DEF Finishing, Quiet, Phased, Waiting
  <2>. QED
    BY <2>6, <2>7, <2>8, <2>9 DEF Control
<1>4. CASE BootstrapDone
  <2>1. pc["local"]["main"] = "bootsignal" /\ call["local"]["main"].kind = "none"
    BY <1>4, CallsAre DEF BootstrapDone, Runs, Answered
  <2>2. \A m \in Node, s \in Thread :
         pc'[m][s] = IF m = "local" /\ s = "main" THEN "loop" ELSE pc[m][s]
    BY <1>1, <1>4, GotoPc, PlaceIs DEF BootstrapDone
  <2>3. \A m \in Node : phase'[m] = IF m = "local" THEN "EXECUTION" ELSE phase[m]
    BY <1>4 DEF BootstrapDone, TypeOK
  <2>4. UNCHANGED <<resultList, resultA, tmpJob, call, isRemoteTerminate>>
    BY <1>4 DEF BootstrapDone
  <2>5. Carrying'
    BY <1>1, <2>1, <2>2, <2>3, <2>4 DEF Carrying, Waiting
  <2>6. Waiting'
    BY <1>1, <2>1, <2>2, <2>3, <2>4 DEF Waiting, Phased
  <2>7. Phased'
    BY <1>1, <2>1, <2>2, <2>3, <2>4 DEF Phased, Waiting
  <2>8. Finishing'
    BY <1>1, <2>1, <2>2, <2>3, <2>4 DEF Finishing, Quiet, Phased, Waiting
  <2>. QED
    BY <2>5, <2>6, <2>7, <2>8 DEF Control
<1>5. CASE Transfer("local", "main", "bootpost", "bootstrap")
  <2>1. pc["local"]["main"] = "bootpost" /\ call["local"]["main"].kind = "none"
    BY <1>5, CallsAre DEF Transfer, Runs, Answered
  <2>2. Goto("local", "main", "bootstrap")
    BY <1>5 DEF Transfer
  <2>3. \A m \in Node, s \in Thread :
         pc'[m][s] = IF m = "local" /\ s = "main" THEN "bootstrap" ELSE pc[m][s]
    BY <1>1, <2>2, GotoPc, PlaceIs
  <2>4. call' = [call EXCEPT !["local"]["main"] = [kind |-> "job", job |-> tmpJob["local"]["main"]]]
    BY <1>5 DEF Transfer, Post
  <2>5. \A m \in Node, s \in Thread :
         call'[m][s] = IF m = "local" /\ s = "main" THEN [kind |-> "job", job |-> tmpJob["local"]["main"]] ELSE call[m][s]
    BY <1>1, <2>4 DEF TypeOK
  <2>6. \A m \in Node, s \in Thread :
         tmpJob'[m][s] = IF m = "local" /\ s = "main" THEN NoJob ELSE tmpJob[m][s]
    BY <1>1, <1>5 DEF Transfer, TypeOK
  <2>7. UNCHANGED <<phase, resultList, resultA, isRemoteTerminate>>
    BY <1>5 DEF Transfer
  <2>8. Carrying'
    BY <1>1, <2>1, <2>2, <2>3, <2>4, <2>5, <2>6, <2>7 DEF Carrying, Waiting
  <2>9. Waiting'
    BY <1>1, <2>1, <2>2, <2>3, <2>4, <2>5, <2>6, <2>7 DEF Waiting, Phased
  <2>10. Phased'
    BY <1>1, <2>1, <2>2, <2>3, <2>4, <2>5, <2>6, <2>7 DEF Phased, Waiting
  <2>11. Finishing'
    BY <1>1, <2>1, <2>2, <2>3, <2>4, <2>5, <2>6, <2>7 DEF Finishing, Quiet, Phased, Waiting
  <2>. QED
    BY <2>8, <2>9, <2>10, <2>11 DEF Control
<1>6. CASE AwaitRemote
  <2>1. pc["local"]["main"] = "loop" /\ phase["local"] = "AGGREGATION" /\ isRemoteTerminate
    BY <1>6 DEF AwaitRemote, Runs
  <2>2. \A m \in Node : phase'[m] = IF m = "local" THEN "TERMINATION" ELSE phase[m]
    BY <1>6 DEF AwaitRemote, TypeOK
  <2>3. UNCHANGED <<pc, resultList, resultA, tmpJob, call, isRemoteTerminate>>
    BY <1>6 DEF AwaitRemote
  <2>4. Carrying'
    BY <1>1, <2>1, <2>2, <2>3 DEF Carrying, Waiting
  <2>5. Waiting'
    BY <1>1, <2>1, <2>2, <2>3 DEF Waiting, Phased
  <2>6. Phased'
    BY <1>1, <2>1, <2>2, <2>3 DEF Phased, Waiting
  <2>7. Finishing'
    BY <1>1, <2>1, <2>2, <2>3 DEF Finishing, Quiet, Phased, Waiting
  <2>. QED
    BY <2>4, <2>5, <2>6, <2>7 DEF Control
<1>7. CASE SendResult
  <2>1. pc["remote"]["main"] = "loop" /\ call["remote"]["main"].kind = "none" /\ phase["remote"] = "AGGREGATION"
    BY <1>7, CallsAre DEF SendResult, Runs, Answered
  <2>2. resultList["remote"] # <<>> /\ resultList'["local"] = resultList["local"]
    BY <1>7, <1>1 DEF SendResult, TypeOK
  <2>3. call' = [call EXCEPT !["remote"]["main"] =
                          [kind |-> "result", job |-> Last(resultList["remote"])]]
    BY <1>7 DEF SendResult, Post
  <2>4. \A m \in Node, s \in Thread :
         call'[m][s] = IF m = "remote" /\ s = "main" THEN [kind |-> "result", job |-> Last(resultList["remote"])] ELSE call[m][s]
    BY <1>1, <2>3 DEF TypeOK
  <2>5. UNCHANGED <<pc, phase, resultA, tmpJob, isRemoteTerminate>>
    BY <1>7 DEF SendResult
  <2>6. Carrying'
    BY <1>1, <2>1, <2>2, <2>3, <2>4, <2>5 DEF Carrying, Waiting
  <2>7. Waiting'
    BY <1>1, <2>1, <2>2, <2>3, <2>4, <2>5 DEF Waiting, Phased
  <2>8. Phased'
    BY <1>1, <2>1, <2>2, <2>3, <2>4, <2>5 DEF Phased, Waiting
  <2>9. Finishing'
    BY <1>1, <2>1, <2>2, <2>3, <2>4, <2>5 DEF Finishing, Quiet, Phased, Waiting
  <2>. QED
    BY <2>6, <2>7, <2>8, <2>9 DEF Control
<1>8. CASE SendTermination
  <2>1. pc["remote"]["main"] = "loop" /\ call["remote"]["main"].kind = "none" /\ phase["remote"] = "AGGREGATION"
    BY <1>8, CallsAre DEF SendTermination, Runs, Answered
  <2>2. resultList["remote"] = <<>>
    BY <1>8 DEF SendTermination
  <2>3. \A m \in Node, s \in Thread :
         pc'[m][s] = IF m = "remote" /\ s = "main" THEN "signal" ELSE pc[m][s]
    BY <1>1, <1>8, GotoPc, PlaceIs DEF SendTermination
  <2>4. [kind |-> "signal", phase |-> "TERMINATION"] \in Calls
    BY CallsAre DEF Phases
  <2>5. \A m \in Node, s \in Thread :
         call'[m][s] = IF m = "remote" /\ s = "main" THEN [kind |-> "signal", phase |-> "TERMINATION"] ELSE call[m][s]
    BY <1>1, <1>8, <2>4, PostCall DEF SendTermination
  <2>6. UNCHANGED <<phase, resultList, resultA, tmpJob, isRemoteTerminate>>
    BY <1>8 DEF SendTermination
  <2>7. Carrying'
    BY <1>1, <2>1, <2>2, <2>3, <2>4, <2>5, <2>6 DEF Carrying, Waiting
  <2>8. Waiting'
    BY <1>1, <2>1, <2>2, <2>3, <2>4, <2>5, <2>6 DEF Waiting, Phased
  <2>9. Phased'
    BY <1>1, <2>1, <2>2, <2>3, <2>4, <2>5, <2>6 DEF Phased, Waiting
  <2>10. Finishing'
    BY <1>1, <2>1, <2>2, <2>3, <2>4, <2>5, <2>6 DEF Finishing, Quiet, Phased, Waiting
  <2>. QED
    BY <2>7, <2>8, <2>9, <2>10 DEF Control
<1>9. CASE Reported
  <2>1. pc["remote"]["main"] = "signal" /\ call["remote"]["main"].kind = "none"
    BY <1>9, CallsAre DEF Reported, Runs, Answered
  <2>2. \A m \in Node, s \in Thread :
         pc'[m][s] = IF m = "remote" /\ s = "main" THEN "loop" ELSE pc[m][s]
    BY <1>1, <1>9, GotoPc, PlaceIs DEF Reported
  <2>3. \A m \in Node : phase'[m] = IF m = "remote" THEN "TERMINATION" ELSE phase[m]
    BY <1>9 DEF Reported, TypeOK
  <2>4. UNCHANGED <<resultList, resultA, tmpJob, call, isRemoteTerminate>>
    BY <1>9 DEF Reported
  <2>5. Carrying'
    BY <1>1, <2>1, <2>2, <2>3, <2>4 DEF Carrying, Waiting
  <2>6. Waiting'
    BY <1>1, <2>1, <2>2, <2>3, <2>4 DEF Waiting, Phased
  <2>7. Phased'
    BY <1>1, <2>1, <2>2, <2>3, <2>4 DEF Phased, Waiting
  <2>8. Finishing'
    BY <1>1, <2>1, <2>2, <2>3, <2>4 DEF Finishing, Quiet, Phased, Waiting
  <2>. QED
    BY <2>5, <2>6, <2>7, <2>8 DEF Control
<1>10. ASSUME NEW n \in Node, Execute(n) PROVE Control'
  <2>1. pc[n]["main"] = "loop" /\ phase[n] = "EXECUTION"
    BY <1>10 DEF Execute, Runs
  <2>2. pc' = [pc EXCEPT ![n]["main"] = "take",
                         ![n]["adaptor"] = IF @ = "off" THEN "look" ELSE @]
    BY <1>10 DEF Execute
  <2>3. /\ pc'[n]["main"] = "take"
        /\ pc'[n]["adaptor"] = IF pc[n]["adaptor"] = "off" THEN "look" ELSE pc[n]["adaptor"]
        /\ pc'[n]["state"] = pc[n]["state"]
    BY <1>1, <2>2 DEF TypeOK
  <2>4. \A m \in Node : m # n => pc'[m] = pc[m]
    BY <1>1, <2>2 DEF TypeOK
  <2>5. ASSUME NEW m \in Node
        PROVE  /\ pc'[m]["main"] = IF m = n THEN "take" ELSE pc[m]["main"]
               /\ \/ pc'[m]["adaptor"] = pc[m]["adaptor"]
                  \/ pc[m]["adaptor"] = "off" /\ pc'[m]["adaptor"] = "look"
               /\ pc'[m]["state"] = pc[m]["state"]
    <3>1. CASE m = n
      BY <2>3, <3>1
    <3>2. CASE m # n
      BY <2>4, <3>2
    <3>. QED
      BY <3>1, <3>2
  <2>6. UNCHANGED <<phase, resultList, resultA, tmpJob, call, isRemoteTerminate>>
    BY <1>10 DEF Execute
  <2>7. Carrying'
    BY <1>1, <2>1, <2>5, <2>6 DEF Carrying, Waiting
  <2>8. Waiting'
    BY <1>1, <2>1, <2>5, <2>6 DEF Waiting, Phased
  <2>9. Phased'
    BY <1>1, <2>1, <2>5, <2>6 DEF Phased, Waiting
  <2>10. Finishing'
    BY <1>1, <2>1, <2>5, <2>6 DEF Finishing, Quiet, Phased, Waiting
  <2>. QED
    BY <2>7, <2>8, <2>9, <2>10 DEF Control
<1>11. ASSUME NEW n \in Node, Take(n) PROVE Control'
  <2>1. pc[n]["main"] = "take" /\ call[n]["main"].kind = "none"
    BY <1>11, CallsAre DEF Take, Runs, Answered
  <2>2. \/ Pop(n, "main", "work") /\ Goto(n, "main", "work")
        \/ Goto(n, "main", "crashed") /\ UNCHANGED tmpJob
    BY <1>11 DEF Take, Pop, PopFails
  <2>3. ASSUME Pop(n, "main", "work")
       PROVE  /\ Last(jobList[n]) # NoJob
              /\ \A m \in Node, s \in Thread :
                   tmpJob'[m][s] = IF m = n /\ s = "main" THEN Last(jobList[n]) ELSE tmpJob[m][s]
    <3>1. /\ jobList[n] # <<>>
          /\ \A m \in Node, s \in Thread :
               tmpJob'[m][s] = IF m = n /\ s = "main" THEN Last(jobList[n]) ELSE tmpJob[m][s]
      BY <1>1, <2>3, Popping DEF Place
    <3>2. Last(jobList[n]) # NoJob
      BY <3>1, LastFront, NoJobIsNone DEF TypeOK
    <3>. QED
      BY <3>1, <3>2
  <2>4. \A m \in Node, s \in Thread :
         m # n \/ s # "main" => pc'[m][s] = pc[m][s] /\ tmpJob'[m][s] = tmpJob[m][s]
    BY <1>1, <2>2, <2>3, GotoPc, PlaceIs
  <2>5. \/ pc'[n]["main"] = "work" /\ tmpJob'[n]["main"] # NoJob
        \/ pc'[n]["main"] = "crashed" /\ tmpJob'[n]["main"] = tmpJob[n]["main"]
    BY <1>1, <2>2, <2>3, GotoPc, PlaceIs
  <2>6. UNCHANGED <<phase, resultList, resultA, call, isRemoteTerminate>>
    BY <1>11 DEF Take
  <2>7. Carrying'
    BY <1>1, <2>1, <2>2, <2>3, <2>4, <2>5, <2>6 DEF Carrying, Waiting
  <2>8. Waiting'
    BY <1>1, <2>1, <2>2, <2>3, <2>4, <2>5, <2>6 DEF Waiting, Phased
  <2>9. Phased'
    BY <1>1, <2>1, <2>2, <2>3, <2>4, <2>5, <2>6 DEF Phased, Waiting
  <2>10. Finishing'
    BY <1>1, <2>1, <2>2, <2>3, <2>4, <2>5, <2>6 DEF Finishing, Quiet, Phased, Waiting
  <2>. QED
    BY <2>7, <2>8, <2>9, <2>10 DEF Control
<1>12. ASSUME NEW n \in Node, doJob(n) PROVE Control'
  <2>1. pc[n]["main"] = "work" /\ call[n]["main"].kind = "none"
    BY <1>12, CallsAre DEF doJob, Runs, Answered
  <2>2. Goto(n, "main", "check")
    BY <1>12 DEF doJob
  <2>3. \A m \in Node, s \in Thread :
         pc'[m][s] = IF m = n /\ s = "main" THEN "check" ELSE pc[m][s]
    BY <1>1, <2>2, GotoPc, PlaceIs
  <2>4. \A m \in Node, s \in Thread :
         tmpJob'[m][s] = IF m = n /\ s = "main" THEN NoJob ELSE tmpJob[m][s]
    BY <1>1, <1>12 DEF doJob, TypeOK
  <2>5. \A m \in Node \ {n} : resultList'[m] = resultList[m]
    BY <1>12 DEF doJob, TypeOK
  <2>6. UNCHANGED <<phase, resultA, call, isRemoteTerminate>>
    BY <1>12 DEF doJob
  <2>7. Carrying'
    BY <1>1, <2>1, <2>2, <2>3, <2>4, <2>5, <2>6 DEF Carrying, Waiting
  <2>8. Waiting'
    BY <1>1, <2>1, <2>2, <2>3, <2>4, <2>5, <2>6 DEF Waiting, Phased
  <2>9. Phased'
    BY <1>1, <2>1, <2>2, <2>3, <2>4, <2>5, <2>6 DEF Phased, Waiting
  <2>10. Finishing'
    BY <1>1, <2>1, <2>2, <2>3, <2>4, <2>5, <2>6 DEF Finishing, Quiet, Phased, Waiting
  <2>. QED
    BY <2>7, <2>8, <2>9, <2>10 DEF Control
<1>13. ASSUME NEW n \in Node, CheckEmpty(n) PROVE Control'
  <2>1. pc[n]["main"] = "check" /\ call[n]["main"].kind = "none"
    BY <1>13, CallsAre DEF CheckEmpty, Runs, Answered
  <2>2. \A m \in Node, s \in Thread :
         pc'[m][s] = IF m = n /\ s = "main" THEN "loop" ELSE pc[m][s]
    BY <1>1, <1>13, GotoPc, PlaceIs DEF CheckEmpty
  <2>3. /\ phase'[n] \in {phase[n], "AGGREGATION"}
        /\ \A m \in Node \ {n} : phase'[m] = phase[m]
    BY <1>13 DEF CheckEmpty, TypeOK
  <2>4. UNCHANGED <<resultList, resultA, tmpJob, call, isRemoteTerminate>>
    BY <1>13 DEF CheckEmpty
  <2>5. Carrying'
    BY <1>1, <2>1, <2>2, <2>3, <2>4 DEF Carrying, Waiting
  <2>6. Waiting'
    BY <1>1, <2>1, <2>2, <2>3, <2>4 DEF Waiting, Phased
  <2>7. Phased'
    BY <1>1, <2>1, <2>2, <2>3, <2>4 DEF Phased, Waiting
  <2>8. Finishing'
    BY <1>1, <2>1, <2>2, <2>3, <2>4 DEF Finishing, Quiet, Phased, Waiting
  <2>. QED
    BY <2>5, <2>6, <2>7, <2>8 DEF Control
<1>14. ASSUME NEW n \in Node, Terminate(n) PROVE Control'
  <2>1. pc[n]["main"] = "loop" /\ call[n]["main"].kind = "none" /\ phase[n] = "TERMINATION"
    BY <1>14, CallsAre DEF Terminate, Runs, Answered
  <2>2. \A m \in Node, s \in Thread :
         pc'[m][s] = IF m = n /\ s = "main" THEN "exit" ELSE pc[m][s]
    BY <1>1, <1>14, GotoPc, PlaceIs DEF Terminate
  <2>3. /\ resultList'["remote"] = resultList["remote"]
        /\ n = "local" => resultList'["local"] = <<>>
        /\ n # "local" => UNCHANGED <<resultList, resultA>>
    BY <1>1, <1>14 DEF Terminate, TypeOK
  <2>4. UNCHANGED <<phase, tmpJob, call, isRemoteTerminate>>
    BY <1>14 DEF Terminate
  <2>5. Carrying'
    BY <1>1, <2>1, <2>2, <2>3, <2>4 DEF Carrying, Waiting
  <2>6. Waiting'
    BY <1>1, <2>1, <2>2, <2>3, <2>4 DEF Waiting, Phased
  <2>7. Phased'
    BY <1>1, <2>1, <2>2, <2>3, <2>4 DEF Phased, Waiting
  <2>8. Finishing'
    BY <1>1, <2>1, <2>2, <2>3, <2>4 DEF Finishing, Quiet, Phased, Waiting
  <2>. QED
    BY <2>5, <2>6, <2>7, <2>8 DEF Control
<1>15. ASSUME NEW n \in Node, AdaptorDecides(n) PROVE Control'
  <2>1. pc[n]["adaptor"] = "look" /\ call[n]["adaptor"].kind = "none"
    BY <1>15, CallsAre DEF AdaptorDecides, Runs, Answered
  <2>2. \A m \in Node, s \in Thread :
         pc'[m][s] = IF m = n /\ s = "adaptor" THEN "pop" ELSE pc[m][s]
    BY <1>1, <1>15, GotoPc, PlaceIs DEF AdaptorDecides
  <2>3. UNCHANGED <<phase, resultList, resultA, tmpJob, call, isRemoteTerminate>>
    BY <1>15 DEF AdaptorDecides
  <2>4. Carrying'
    BY <1>1, <2>1, <2>2, <2>3 DEF Carrying, Waiting
  <2>5. Waiting'
    BY <1>1, <2>1, <2>2, <2>3 DEF Waiting, Phased
  <2>6. Phased'
    BY <1>1, <2>1, <2>2, <2>3 DEF Phased, Waiting
  <2>7. Finishing'
    BY <1>1, <2>1, <2>2, <2>3 DEF Finishing, Quiet, Phased, Waiting
  <2>. QED
    BY <2>4, <2>5, <2>6, <2>7 DEF Control
<1>16. ASSUME NEW n \in Node, AdaptorPop(n) PROVE Control'
  <2>1. pc[n]["adaptor"] = "pop" /\ call[n]["adaptor"].kind = "none"
    BY <1>16, CallsAre DEF AdaptorPop, Runs, Answered
  <2>2. \/ Pop(n, "adaptor", "transfer") /\ Goto(n, "adaptor", "transfer")
        \/ Goto(n, "adaptor", "dead") /\ UNCHANGED tmpJob
    BY <1>16 DEF AdaptorPop, Pop, PopFails
  <2>3. ASSUME Pop(n, "adaptor", "transfer")
       PROVE  /\ Last(jobList[n]) # NoJob
              /\ \A m \in Node, s \in Thread :
                   tmpJob'[m][s] = IF m = n /\ s = "adaptor" THEN Last(jobList[n]) ELSE tmpJob[m][s]
    <3>1. /\ jobList[n] # <<>>
          /\ \A m \in Node, s \in Thread :
               tmpJob'[m][s] = IF m = n /\ s = "adaptor" THEN Last(jobList[n]) ELSE tmpJob[m][s]
      BY <1>1, <2>3, Popping DEF Place
    <3>2. Last(jobList[n]) # NoJob
      BY <3>1, LastFront, NoJobIsNone DEF TypeOK
    <3>. QED
      BY <3>1, <3>2
  <2>4. \A m \in Node, s \in Thread :
         m # n \/ s # "adaptor" => pc'[m][s] = pc[m][s] /\ tmpJob'[m][s] = tmpJob[m][s]
    BY <1>1, <2>2, <2>3, GotoPc, PlaceIs
  <2>5. \/ pc'[n]["adaptor"] = "transfer" /\ tmpJob'[n]["adaptor"] # NoJob
        \/ pc'[n]["adaptor"] = "dead" /\ tmpJob'[n]["adaptor"] = tmpJob[n]["adaptor"]
    BY <1>1, <2>2, <2>3, GotoPc, PlaceIs
  <2>6. UNCHANGED <<phase, resultList, resultA, call, isRemoteTerminate>>
    BY <1>16 DEF AdaptorPop
  <2>7. Carrying'
    BY <1>1, <2>1, <2>2, <2>3, <2>4, <2>5, <2>6 DEF Carrying, Waiting
  <2>8. Waiting'
    BY <1>1, <2>1, <2>2, <2>3, <2>4, <2>5, <2>6 DEF Waiting, Phased
  <2>9. Phased'
    BY <1>1, <2>1, <2>2, <2>3, <2>4, <2>5, <2>6 DEF Phased, Waiting
  <2>10. Finishing'
    BY <1>1, <2>1, <2>2, <2>3, <2>4, <2>5, <2>6 DEF Finishing, Quiet, Phased, Waiting
  <2>. QED
    BY <2>7, <2>8, <2>9, <2>10 DEF Control
<1>17. ASSUME NEW n \in Node, Transfer(n, "adaptor", "transfer", "look") PROVE Control'
  <2>1. pc[n]["adaptor"] = "transfer" /\ call[n]["adaptor"].kind = "none"
    BY <1>17, CallsAre DEF Transfer, Runs, Answered
  <2>2. Goto(n, "adaptor", "look")
    BY <1>17 DEF Transfer
  <2>3. \A m \in Node, s \in Thread :
         pc'[m][s] = IF m = n /\ s = "adaptor" THEN "look" ELSE pc[m][s]
    BY <1>1, <2>2, GotoPc, PlaceIs
  <2>4. call' = [call EXCEPT ![n]["adaptor"] = [kind |-> "job", job |-> tmpJob[n]["adaptor"]]]
    BY <1>17 DEF Transfer, Post
  <2>5. \A m \in Node, s \in Thread :
         call'[m][s] = IF m = n /\ s = "adaptor" THEN [kind |-> "job", job |-> tmpJob[n]["adaptor"]] ELSE call[m][s]
    BY <1>1, <2>4 DEF TypeOK
  <2>6. \A m \in Node, s \in Thread :
         tmpJob'[m][s] = IF m = n /\ s = "adaptor" THEN NoJob ELSE tmpJob[m][s]
    BY <1>1, <1>17 DEF Transfer, TypeOK
  <2>7. UNCHANGED <<phase, resultList, resultA, isRemoteTerminate>>
    BY <1>17 DEF Transfer
  <2>8. Carrying'
    BY <1>1, <2>1, <2>2, <2>3, <2>4, <2>5, <2>6, <2>7 DEF Carrying, Waiting
  <2>9. Waiting'
    BY <1>1, <2>1, <2>2, <2>3, <2>4, <2>5, <2>6, <2>7 DEF Waiting, Phased
  <2>10. Phased'
    BY <1>1, <2>1, <2>2, <2>3, <2>4, <2>5, <2>6, <2>7 DEF Phased, Waiting
  <2>11. Finishing'
    BY <1>1, <2>1, <2>2, <2>3, <2>4, <2>5, <2>6, <2>7 DEF Finishing, Quiet, Phased, Waiting
  <2>. QED
    BY <2>8, <2>9, <2>10, <2>11 DEF Control
<1>18. ASSUME NEW n \in Node, sendState(n) PROVE Control'
  <2>1. call' = [call EXCEPT ![n]["state"] = [kind |-> "state", jobNum |-> Len(jobList[n])]]
    BY <1>18 DEF sendState, Post
  <2>2. \A m \in Node, s \in Thread :
         call'[m][s] = IF m = n /\ s = "state" THEN [kind |-> "state", jobNum |-> Len(jobList[n])] ELSE call[m][s]
    BY <1>1, <2>1 DEF TypeOK
  <2>3. UNCHANGED <<pc, phase, resultList, resultA, tmpJob, isRemoteTerminate>>
    BY <1>18 DEF sendState
  <2>4. Carrying'
    BY <1>1, <2>1, <2>2, <2>3 DEF Carrying, Waiting
  <2>5. Waiting'
    BY <1>1, <2>1, <2>2, <2>3 DEF Waiting, Phased
  <2>6. Phased'
    BY <1>1, <2>1, <2>2, <2>3 DEF Phased, Waiting
  <2>7. Finishing'
    BY <1>1, <2>1, <2>2, <2>3 DEF Finishing, Quiet, Phased, Waiting
  <2>. QED
    BY <2>4, <2>5, <2>6, <2>7 DEF Control
<1>19. ASSUME NEW n \in Node, NEW t \in Thread, PostFails(n, t) PROVE Control'
  <2>1. pc[n]["main"] \notin {"exit", "crashed"} /\ call[n][t].kind # "none"
    BY <1>1, <1>19, CallKinds DEF PostFails, Alive, Answered
  <2>2. Goto(n, t, IF t = "main" THEN "crashed" ELSE "dead")
    BY <1>19 DEF PostFails
  <2>3. \A m \in Node, s \in Thread :
         pc'[m][s] = IF m = n /\ s = t THEN (IF t = "main" THEN "crashed" ELSE "dead") ELSE pc[m][s]
    BY <1>1, <2>2 DEF Goto, TypeOK
  <2>4. UNCHANGED <<phase, resultList, resultA, tmpJob, call, isRemoteTerminate>>
    BY <1>19 DEF PostFails
  <2>5. Carrying'
    BY <1>1, <2>1, <2>2, <2>3, <2>4 DEF Carrying, Waiting
  <2>6. Waiting'
    BY <1>1, <2>1, <2>2, <2>3, <2>4 DEF Waiting, Phased
  <2>7. Phased'
    BY <1>1, <2>1, <2>2, <2>3, <2>4 DEF Phased, Waiting
  <2>8. Finishing'
    BY <1>1, <2>1, <2>2, <2>3, <2>4 DEF Finishing, Quiet, Phased, Waiting
  <2>. QED
    BY <2>5, <2>6, <2>7, <2>8 DEF Control
<1>20. ASSUME NEW n \in Node, NEW t \in Thread, ServeJob(n, t) PROVE Control'
  <2>1. Serve(n, t, "job")
    BY <1>20 DEF ServeJob
  <2>2. PICK q \in Node : /\ q = Partner(n) /\ q # n /\ Post(q, t, NoCall)
                           /\ call[q][t].kind = "job"
    BY <2>1, Served
  <2>3. \A m \in Node, s \in Thread :
         call'[m][s] = IF m = q /\ s = t THEN NoCall ELSE call[m][s]
    BY <1>1, <2>2, PostCall, CallsAre
  <2>4. NoCall.kind = "none"
    BY CallsAre
  <2>5. UNCHANGED <<pc, phase, resultList, resultA, tmpJob, isRemoteTerminate>>
    BY <1>20 DEF ServeJob
  <2>6. Carrying'
    BY <1>1, <2>1, <2>2, <2>3, <2>4, <2>5 DEF Carrying, Waiting
  <2>7. Waiting'
    BY <1>1, <2>1, <2>2, <2>3, <2>4, <2>5 DEF Waiting, Phased
  <2>8. Phased'
    BY <1>1, <2>1, <2>2, <2>3, <2>4, <2>5 DEF Phased, Waiting
  <2>9. Finishing'
    BY <1>1, <2>1, <2>2, <2>3, <2>4, <2>5 DEF Finishing, Quiet, Phased, Waiting
  <2>. QED
    BY <2>6, <2>7, <2>8, <2>9 DEF Control
<1>21. ASSUME NEW n \in Node, NEW t \in Thread, ServerBlocks(n, t) PROVE Control'
  <2>1. UNCHANGED <<pc, phase, resultList, resultA, tmpJob, call, isRemoteTerminate>>
    BY <1>21 DEF ServerBlocks
  <2>2. Carrying'
    BY <1>1, <2>1 DEF Carrying, Waiting
  <2>3. Waiting'
    BY <1>1, <2>1 DEF Waiting, Phased
  <2>4. Phased'
    BY <1>1, <2>1 DEF Phased, Waiting
  <2>5. Finishing'
    BY <1>1, <2>1 DEF Finishing, Quiet, Phased, Waiting
  <2>. QED
    BY <2>2, <2>3, <2>4, <2>5 DEF Control
<1>22. ASSUME NEW n \in Node, NEW t \in Thread, ServeSignal(n, t) PROVE Control'
  <2>1. Serve(n, t, "signal")
    BY <1>22 DEF ServeSignal
  <2>2. PICK q \in Node : /\ q = Partner(n) /\ q # n /\ Post(q, t, NoCall)
                           /\ call[q][t].kind = "signal"
    BY <2>1, Served
  <2>3. \A m \in Node, s \in Thread :
         call'[m][s] = IF m = q /\ s = t THEN NoCall ELSE call[m][s]
    BY <1>1, <2>2, PostCall, CallsAre
  <2>4. NoCall.kind = "none"
    BY CallsAre
  <2>5. t = "main"
    BY <1>1, <2>2 DEF Waiting
  <2>6. n = "local" => phase' = phase /\ isRemoteTerminate'
    BY <1>1, <1>22, <2>2, <2>5 DEF ServeSignal, Waiting
  <2>7. n = "remote" => /\ phase' = [phase EXCEPT !["remote"] = "EXECUTION"]
                         /\ isRemoteTerminate' = isRemoteTerminate
    BY <1>1, <1>22, <2>2, <2>5 DEF ServeSignal, Waiting
  <2>8. n = "remote" => \A m \in Node : phase'[m] = IF m = "remote" THEN "EXECUTION" ELSE phase[m]
    BY <2>7 DEF TypeOK
  <2>9. UNCHANGED <<pc, resultList, resultA, tmpJob>>
    BY <1>22 DEF ServeSignal
  <2>10. Carrying'
    BY <1>1, <2>1, <2>2, <2>3, <2>4, <2>5, <2>6, <2>7, <2>8, <2>9 DEF Carrying, Waiting
  <2>11. Waiting'
    BY <1>1, <2>1, <2>2, <2>3, <2>4, <2>5, <2>6, <2>7, <2>8, <2>9 DEF Waiting, Phased
  <2>12. Phased'
    BY <1>1, <2>1, <2>2, <2>3, <2>4, <2>5, <2>6, <2>7, <2>8, <2>9 DEF Phased, Waiting
  <2>13. Finishing'
    BY <1>1, <2>1, <2>2, <2>3, <2>4, <2>5, <2>6, <2>7, <2>8, <2>9 DEF Finishing, Quiet, Phased, Waiting
  <2>. QED
    BY <2>10, <2>11, <2>12, <2>13 DEF Control
<1>23. ASSUME NEW n \in Node, NEW t \in Thread, ServeResult(n, t) PROVE Control'
  <2>1. Serve(n, t, "result")
    BY <1>23 DEF ServeResult
  <2>2. PICK q \in Node : /\ q = Partner(n) /\ q # n /\ Post(q, t, NoCall)
                           /\ call[q][t].kind = "result"
    BY <2>1, Served
  <2>3. \A m \in Node, s \in Thread :
         call'[m][s] = IF m = q /\ s = t THEN NoCall ELSE call[m][s]
    BY <1>1, <2>2, PostCall, CallsAre
  <2>4. NoCall.kind = "none"
    BY CallsAre
  <2>5. \A m \in Node \ {n} : resultList'[m] = resultList[m]
    BY <1>23 DEF ServeResult, TypeOK
  <2>6. pc[n]["main"] \notin {"exit", "crashed"}
    BY <2>1 DEF Serve, Alive
  <2>7. UNCHANGED <<pc, phase, resultA, tmpJob, isRemoteTerminate>>
    BY <1>23 DEF ServeResult
  <2>8. Carrying'
    BY <1>1, <2>1, <2>2, <2>3, <2>4, <2>5, <2>6, <2>7 DEF Carrying, Waiting
  <2>9. Waiting'
    BY <1>1, <2>1, <2>2, <2>3, <2>4, <2>5, <2>6, <2>7 DEF Waiting, Phased
  <2>10. Phased'
    BY <1>1, <2>1, <2>2, <2>3, <2>4, <2>5, <2>6, <2>7 DEF Phased, Waiting
  <2>11. Finishing'
    BY <1>1, <2>1, <2>2, <2>3, <2>4, <2>5, <2>6, <2>7 DEF Finishing, Quiet, Phased, Waiting
  <2>. QED
    BY <2>8, <2>9, <2>10, <2>11 DEF Control
<1>24. ASSUME NEW n \in Node, NEW t \in Thread, ServeState(n, t) PROVE Control'
  <2>1. Serve(n, t, "state")
    BY <1>24 DEF ServeState
  <2>2. PICK q \in Node : /\ q = Partner(n) /\ q # n /\ Post(q, t, NoCall)
                           /\ call[q][t].kind = "state"
    BY <2>1, Served
  <2>3. \A m \in Node, s \in Thread :
         call'[m][s] = IF m = q /\ s = t THEN NoCall ELSE call[m][s]
    BY <1>1, <2>2, PostCall, CallsAre
  <2>4. NoCall.kind = "none"
    BY CallsAre
  <2>5. UNCHANGED <<pc, phase, resultList, resultA, tmpJob, isRemoteTerminate>>
    BY <1>24 DEF ServeState
  <2>6. Carrying'
    BY <1>1, <2>1, <2>2, <2>3, <2>4, <2>5 DEF Carrying, Waiting
  <2>7. Waiting'
    BY <1>1, <2>1, <2>2, <2>3, <2>4, <2>5 DEF Waiting, Phased
  <2>8. Phased'
    BY <1>1, <2>1, <2>2, <2>3, <2>4, <2>5 DEF Phased, Waiting
  <2>9. Finishing'
    BY <1>1, <2>1, <2>2, <2>3, <2>4, <2>5 DEF Finishing, Quiet, Phased, Waiting
  <2>. QED
    BY <2>6, <2>7, <2>8, <2>9 DEF Control
<1>. QED
  BY <1>2, <1>3, <1>4, <1>5, <1>6, <1>7, <1>8, <1>9, <1>10, <1>11, <1>12, <1>13, <1>14, <1>15, <1>16, <1>17, <1>18, <1>19, <1>20, <1>21, <1>22, <1>23, <1>24, Steps

-----------------------------------------------------------------------------
(* The jobs *)

\* Where, asked of one place: whether a job is at position or thread i of node n.
At(j, kind, n, i) ==
  /\ n \in Node
  /\ \/ kind = "list" /\ i \in DOMAIN jobList[n] /\ jobList[n][i] = j
     \/ kind = "thread" /\ i \in Thread /\ tmpJob[n][i] = j
     \/ kind = "job" /\ i \in Thread /\ call[n][i].kind = "job" /\ call[n][i].job = j
     \/ kind = "result" /\ i \in DOMAIN resultList[n] /\ resultList[n][i] = j
     \/ kind = "return" /\ i \in Thread /\ call[n][i].kind = "result" /\ call[n][i].job = j
     \/ kind = "copy" /\ n = "local" /\ i = "main" /\ j \in resultA

\* The places of a job, as At gives them.
LEMMA Places ==
  ASSUME NEW j
  PROVE  \A w : w \in Where(j) <=> \E kind, n, i : w = <<kind, n, i>> /\ At(j, kind, n, i)
<1>1. ASSUME NEW n \in Node, NEW w
      PROVE  w \in WhereOn(j, n) <=> \E kind, i : w = <<kind, n, i>> /\ At(j, kind, n, i)
  BY <1>1 DEF WhereOn, Asked, At
<1>2. \A kind, n, i : At(j, kind, n, i) => n \in Node
  BY DEF At
<1>3. \A w : w \in Where(j) <=> \E n \in Node : w \in WhereOn(j, n)
  BY DEF Where, Node
<1>. QED
  BY <1>1, <1>2, <1>3

\* The same for the next state.
LEMMA PlacesNext ==
  ASSUME NEW j
  PROVE  \A w : w \in Where(j)' <=> \E kind, n, i : w = <<kind, n, i>> /\ At(j, kind, n, i)'
<1>1. ASSUME NEW n \in Node, NEW w
      PROVE  w \in WhereOn(j, n)' <=> \E kind, i : w = <<kind, n, i>> /\ At(j, kind, n, i)'
  BY <1>1 DEF WhereOn, Asked, At
<1>2. \A kind, n, i : At(j, kind, n, i)' => n \in Node
  BY DEF At
<1>3. \A w : w \in Where(j)' <=> \E n \in Node : w \in WhereOn(j, n)'
  BY DEF Where, Node
<1>. QED
  BY <1>1, <1>2, <1>3

\* A job in one place, said with At.
LEMMA OnePlace ==
  ASSUME JobsConserved, NEW j \in Job
  PROVE  /\ \E kind, n, i : At(j, kind, n, i)
         /\ \A kind1, n1, i1, kind2, n2, i2 :
              At(j, kind1, n1, i1) /\ At(j, kind2, n2, i2)
                => kind1 = kind2 /\ n1 = n2 /\ i1 = i2
<1>1. PICK w \in Where(j) : Where(j) = {w}
  BY DEF JobsConserved
<1>2. \E kind, n, i : w = <<kind, n, i>> /\ At(j, kind, n, i)
  BY <1>1, Places
<1>3. ASSUME NEW kind1, NEW n1, NEW i1, NEW kind2, NEW n2, NEW i2,
             At(j, kind1, n1, i1), At(j, kind2, n2, i2)
      PROVE  kind1 = kind2 /\ n1 = n2 /\ i1 = i2
  <2>1. <<kind1, n1, i1>> \in Where(j) /\ <<kind2, n2, i2>> \in Where(j)
    BY <1>3, Places
  <2>2. <<kind1, n1, i1>> = <<kind2, n2, i2>>
    BY <1>1, <2>1
  <2>. QED
    BY <2>2
<1>. QED
  BY <1>2, <1>3

\* What was computed, said with At.
LEMMA CountedAt ==
  ASSUME Counted, NEW j \in Job, NEW kind, NEW n, NEW i, At(j, kind, n, i)
  PROVE  computed[j] = IF kind \in Finished THEN 1 ELSE 0
<1>1. <<kind, n, i>> \in Where(j)
  BY Places
<1>. QED
  BY <1>1 DEF Counted

\* A job that is at one place after a step is in one place.
LEMMA Settled ==
  ASSUME NEW j \in Job, NEW kind, NEW n, NEW i,
         \A kind1, n1, i1 : At(j, kind1, n1, i1)' <=> kind1 = kind /\ n1 = n /\ i1 = i
  PROVE  Where(j)' = {<<kind, n, i>>}
BY PlacesNext

\* A job whose places a step leaves alone.
LEMMA Unmoved ==
  ASSUME NEW j \in Job,
         \A kind, n, i : At(j, kind, n, i)' <=> At(j, kind, n, i)
  PROVE  Where(j)' = Where(j)
BY Places, PlacesNext

\* A step that moves the job x from one place to another.
Moves(x, kind1, n1, i1, kind2, n2, i2) ==
  /\ At(x, kind1, n1, i1)
  /\ \A j \in Job : At(j, kind1, n1, i1) => j = x
  /\ \A j \in Job : \A kind, n, i :
       At(j, kind, n, i)' <=> \/ At(j, kind, n, i) /\ ~(kind = kind1 /\ n = n1 /\ i = i1)
                              \/ j = x /\ kind = kind2 /\ n = n2 /\ i = i2
  /\ computed'[x] = IF kind2 \in Finished THEN 1 ELSE 0
  /\ \A j \in Job \ {x} : computed'[j] = computed[j]

\* Such a step keeps every job in one place.
LEMMA Moved ==
  ASSUME Jobs, NEW x \in Job, NEW kind1, NEW n1, NEW i1, NEW kind2, NEW n2, NEW i2,
         Moves(x, kind1, n1, i1, kind2, n2, i2)
  PROVE  Jobs'
<1>1. JobsConserved /\ Counted
  BY DEF Jobs
<1>2. Where(x)' = {<<kind2, n2, i2>>}
  <2>1. ASSUME NEW kind, NEW n, NEW i
        PROVE  At(x, kind, n, i)' <=> kind = kind2 /\ n = n2 /\ i = i2
    BY <1>1, OnePlace DEF Moves
  <2>. QED
    BY <2>1, Settled
<1>3. ASSUME NEW j \in Job, j # x
      PROVE  Where(j)' = Where(j)
  <2>1. ASSUME NEW kind, NEW n, NEW i
        PROVE  At(j, kind, n, i)' <=> At(j, kind, n, i)
    BY <1>3 DEF Moves
  <2>. QED
    BY <2>1, Unmoved
<1>4. JobsConserved'
  <2>1. ASSUME NEW j \in Job PROVE \E w \in Where(j)' : Where(j)' = {w}
    <3>1. CASE j = x
      BY <1>2, <3>1
    <3>2. CASE j # x
      BY <1>1, <1>3, <3>2 DEF JobsConserved
    <3>. QED
      BY <3>1, <3>2
  <2>. QED
    BY <2>1 DEF JobsConserved
<1>5. Counted'
  <2>1. ASSUME NEW j \in Job, NEW w \in Where(j)'
        PROVE  computed'[j] = IF w[1] \in Finished THEN 1 ELSE 0
    <3>1. CASE j = x
      BY <1>2, <3>1 DEF Moves
    <3>2. CASE j # x
      BY <1>1, <1>3, <3>2 DEF Counted, Moves
    <3>. QED
      BY <3>1, <3>2
  <2>. QED
    BY <2>1 DEF Counted
<1>. QED
  BY <1>4, <1>5 DEF Jobs

\* A step that moves no job.
LEMMA NoneMoved ==
  ASSUME Jobs, computed' = computed,
         \A j \in Job : \A kind, n, i : At(j, kind, n, i)' <=> At(j, kind, n, i)
  PROVE  Jobs'
<1>1. ASSUME NEW j \in Job PROVE Where(j)' = Where(j)
  BY Unmoved
<1>2. JobsConserved'
  BY <1>1 DEF Jobs, JobsConserved
<1>3. Counted'
  BY <1>1 DEF Jobs, Counted
<1>. QED
  BY <1>2, <1>3 DEF Jobs

\* A step that changes only requests without a job.
LEMMA Still ==
  ASSUME Jobs, UNCHANGED <<jobList, resultList, tmpJob, computed, resultA>>,
         \A n \in Node, t \in Thread :
           \/ call'[n][t] = call[n][t]
           \/ {call[n][t].kind, call'[n][t].kind} \cap {"job", "result"} = {}
  PROVE  Jobs'
<1>1. ASSUME NEW j \in Job, NEW kind, NEW n, NEW i
      PROVE  At(j, kind, n, i)' <=> At(j, kind, n, i)
  BY DEF At
<1>. QED
  BY <1>1, NoneMoved

\* A thread takes a job from a list.
LEMMA Popped ==
  ASSUME TypeOK, Jobs, NEW n \in Node, NEW t \in Thread, NEW after \in Place,
         Pop(n, t, after), tmpJob[n][t] = NoJob,
         UNCHANGED <<resultList, call, doneVars>>
  PROVE  Jobs'
<1>1. /\ jobList[n] # <<>> /\ jobList'[n] = Front(jobList[n])
      /\ \A m \in Node \ {n} : jobList'[m] = jobList[m]
      /\ \A m \in Node, s \in Thread :
           tmpJob'[m][s] = IF m = n /\ s = t THEN Last(jobList[n]) ELSE tmpJob[m][s]
  BY Popping
<1>2. jobList[n] \in Seq(Job)
  BY DEF TypeOK
<1>3. PICK x \in Job, len \in Nat \ {0} :
         /\ Last(jobList[n]) = x /\ jobList[n][len] = x
         /\ DOMAIN jobList'[n] = 1 .. len - 1
         /\ \A i \in 1 .. len - 1 : jobList'[n][i] = jobList[n][i]
         /\ DOMAIN jobList[n] = 1 .. len
  <2> DEFINE y == Last(jobList[n])
             last == Len(jobList[n])
  <2>1. /\ y \in Job /\ last \in Nat \ {0} /\ jobList[n][last] = y
        /\ DOMAIN jobList'[n] = 1 .. last - 1
        /\ \A i \in 1 .. last - 1 : jobList'[n][i] = jobList[n][i]
        /\ DOMAIN jobList[n] = 1 .. last
    BY <1>1, <1>2, LastFront
  <2>2. Last(jobList[n]) = y
    OBVIOUS
  <2> HIDE DEF y, last
  <2>. QED
    BY <2>1, <2>2
<1>4. At(x, "list", n, len) /\ \A j \in Job : At(j, "list", n, len) => j = x
  BY <1>3 DEF At
<1>5. x # NoJob
  BY <1>3, NoJobIsNone
<1>6. resultList' = resultList /\ call' = call /\ computed' = computed /\ resultA' = resultA
  BY DEF doneVars
<1>7. ASSUME NEW j \in Job, NEW kind, NEW m, NEW i
      PROVE  At(j, kind, m, i)' <=> \/ /\ At(j, kind, m, i)
                                       /\ ~(kind = "list" /\ m = n /\ i = len)
                                    \/ j = x /\ kind = "thread" /\ m = n /\ i = t
  <2>1. CASE kind = "list"
    <3>1. CASE m = n
      BY <1>3, <2>1, <3>1 DEF At
    <3>2. CASE m # n
      BY <1>1, <2>1, <3>2 DEF At
    <3>. QED
      BY <3>1, <3>2
  <2>2. CASE kind = "thread"
    <3>1. j # NoJob
      BY NoJobIsNone
    <3>. QED
      BY <1>1, <1>3, <2>2, <3>1 DEF At
  <2>3. CASE kind \notin {"list", "thread"}
    BY <1>6, <2>3 DEF At
  <2>. QED
    BY <2>1, <2>2, <2>3
<1>8. computed'[x] = 0
  <2>1. computed[x] = IF "list" \in Finished THEN 1 ELSE 0
    BY <1>3, <1>4, CountedAt DEF Jobs
  <2>. QED
    BY <1>6, <2>1 DEF Finished
<1>9. computed'[x] = IF "thread" \in Finished THEN 1 ELSE 0
  BY <1>8 DEF Finished
<1>10. \A j \in Job \ {x} : computed'[j] = computed[j]
  BY <1>6
<1>11. Moves(x, "list", n, len, "thread", n, t)
  BY <1>4, <1>7, <1>9, <1>10 DEF Moves
<1>. QED
  BY <1>11, Moved

\* A thread posts the job it has taken.
LEMMA Sent ==
  ASSUME TypeOK, Jobs, NEW n \in Node, NEW t \in Thread, NEW from, NEW next \in Place,
         Transfer(n, t, from, next), tmpJob[n][t] # NoJob
  PROVE  Jobs'
<1>1. PICK x \in Job : x = tmpJob[n][t]
  BY DEF TypeOK
<1>2. \A m \in Node, s \in Thread :
        call'[m][s] = IF m = n /\ s = t THEN [kind |-> "job", job |-> x] ELSE call[m][s]
  <2>1. [kind |-> "job", job |-> x] \in Calls
    BY <1>1, CallsAre
  <2>2. Post(n, t, [kind |-> "job", job |-> x])
    BY <1>1 DEF Transfer
  <2>. QED
    BY <2>1, <2>2, PostCall
<1>3. \A m \in Node, s \in Thread :
        tmpJob'[m][s] = IF m = n /\ s = t THEN NoJob ELSE tmpJob[m][s]
  BY DEF Transfer, TypeOK
<1>4. call[n][t].kind = "none"
  BY CallsAre DEF Transfer, Runs, Answered
<1>5. UNCHANGED <<jobList, resultList, computed, resultA>>
  BY DEF Transfer, doneVars
<1>6. At(x, "thread", n, t) /\ \A j \in Job : At(j, "thread", n, t) => j = x
  BY <1>1 DEF At
<1>7. ASSUME NEW j \in Job, NEW kind, NEW m, NEW i
      PROVE  At(j, kind, m, i)' <=> \/ /\ At(j, kind, m, i)
                                       /\ ~(kind = "thread" /\ m = n /\ i = t)
                                    \/ j = x /\ kind = "job" /\ m = n /\ i = t
  <2>1. CASE kind = "thread"
    <3>1. j # NoJob
      BY NoJobIsNone
    <3>. QED
      BY <1>1, <1>3, <2>1, <3>1 DEF At
  <2>2. CASE kind = "job" \/ kind = "return"
    BY <1>2, <1>4, <2>2 DEF At
  <2>3. CASE kind \notin {"thread", "job", "return"}
    BY <1>5, <2>3 DEF At
  <2>. QED
    BY <2>1, <2>2, <2>3
<1>8. computed[x] = IF "thread" \in Finished THEN 1 ELSE 0
  BY <1>1, <1>6, CountedAt DEF Jobs
<1>9. computed'[x] = IF "job" \in Finished THEN 1 ELSE 0
  BY <1>5, <1>8 DEF Finished
<1>10. \A j \in Job \ {x} : computed'[j] = computed[j]
  BY <1>5
<1>11. Moves(x, "thread", n, t, "job", n, t)
  BY <1>6, <1>7, <1>9, <1>10 DEF Moves
<1>. QED
  BY <1>11, Moved

\* A job put at the end of a list.
LEMMA Appended ==
  ASSUME NEW s \in Seq(Job), NEW x \in Job
  PROVE  \E len \in Nat : /\ DOMAIN s = 1 .. len /\ DOMAIN Append(s, x) = 1 .. len + 1
                          /\ Append(s, x)[len + 1] = x
                          /\ \A i \in 1 .. len : Append(s, x)[i] = s[i]
<1>1. Len(s) \in Nat /\ DOMAIN s = 1 .. Len(s)
  OBVIOUS
<1>2. /\ DOMAIN Append(s, x) = 1 .. Len(s) + 1 /\ Append(s, x)[Len(s) + 1] = x
      /\ \A i \in 1 .. Len(s) : Append(s, x)[i] = s[i]
  OBVIOUS
<1>. QED
  BY <1>1, <1>2

\* A main thread computes the job it has taken.
LEMMA Done ==
  ASSUME TypeOK, Carrying, Jobs, NEW n \in Node, doJob(n)
  PROVE  Jobs'
<1>1. "main" \in Thread /\ tmpJob[n]["main"] # NoJob
  BY DEF Thread, doJob, Runs, Carrying
<1>2. PICK x \in Job : x = tmpJob[n]["main"]
  BY <1>1 DEF TypeOK
<1>3. /\ resultList[n] \in Seq(Job) /\ resultList'[n] = Append(resultList[n], x)
      /\ \A m \in Node \ {n} : resultList'[m] = resultList[m]
  BY <1>2 DEF doJob, TypeOK
<1>4. PICK len \in Nat :
         /\ DOMAIN resultList[n] = 1 .. len /\ DOMAIN resultList'[n] = 1 .. len + 1
         /\ resultList'[n][len + 1] = x
         /\ \A i \in 1 .. len : resultList'[n][i] = resultList[n][i]
  <2> DEFINE s == resultList[n]
  <2>1. s \in Seq(Job) /\ resultList'[n] = Append(s, x)
    BY <1>3
  <2> HIDE DEF s
  <2>2. \E len \in Nat : /\ DOMAIN s = 1 .. len /\ DOMAIN resultList'[n] = 1 .. len + 1
                         /\ resultList'[n][len + 1] = x
                         /\ \A i \in 1 .. len : resultList'[n][i] = s[i]
    BY <2>1, Appended
  <2>. QED
    BY <2>2 DEF s
<1>5. \A m \in Node, s \in Thread :
        tmpJob'[m][s] = IF m = n /\ s = "main" THEN NoJob ELSE tmpJob[m][s]
  BY DEF doJob, TypeOK
<1>6. UNCHANGED <<jobList, call, resultA>>
  BY DEF doJob
<1>7. ASSUME NEW j \in Job, NEW kind, NEW m, NEW i
      PROVE  At(j, kind, m, i)' <=> \/ /\ At(j, kind, m, i)
                                       /\ ~(kind = "thread" /\ m = n /\ i = "main")
                                    \/ j = x /\ kind = "result" /\ m = n /\ i = len + 1
  <2>1. CASE kind = "thread"
    <3>1. j # NoJob
      BY NoJobIsNone
    <3>. QED
      BY <1>5, <2>1, <3>1 DEF At
  <2>2. CASE kind = "result"
    <3>1. CASE m = n
      BY <1>4, <2>2, <3>1 DEF At
    <3>2. CASE m # n
      BY <1>3, <2>2, <3>2 DEF At
    <3>. QED
      BY <3>1, <3>2
  <2>3. CASE kind \notin {"thread", "result"}
    BY <1>6, <2>3 DEF At
  <2>. QED
    BY <2>1, <2>2, <2>3
<1>8. At(x, "thread", n, "main") /\ \A j \in Job : At(j, "thread", n, "main") => j = x
  BY <1>1, <1>2 DEF At
<1>9. computed[x] = IF "thread" \in Finished THEN 1 ELSE 0
  BY <1>8, CountedAt DEF Jobs
<1>10. computed' = [computed EXCEPT ![x] = @ + 1]
  BY <1>2 DEF doJob
<1>11. /\ computed'[x] = IF "result" \in Finished THEN 1 ELSE 0
       /\ \A j \in Job \ {x} : computed'[j] = computed[j]
  BY <1>9, <1>10 DEF TypeOK, Finished
<1>12. Moves(x, "thread", n, "main", "result", n, len + 1)
  BY <1>7, <1>8, <1>11 DEF Moves
<1>. QED
  BY <1>12, Moved

\* The remote node posts its last result.
LEMMA ResultSent ==
  ASSUME TypeOK, Jobs, SendResult
  PROVE  Jobs'
<1>1. "remote" \in Node /\ "main" \in Thread
  BY DEF Node, Thread
<1>2. resultList["remote"] \in Seq(Job) /\ resultList["remote"] # <<>>
  BY <1>1 DEF SendResult, TypeOK
<1>3. /\ resultList'["remote"] = Front(resultList["remote"])
      /\ \A m \in Node \ {"remote"} : resultList'[m] = resultList[m]
  BY <1>1 DEF SendResult, TypeOK
<1>4. PICK x \in Job, len \in Nat \ {0} :
         /\ Last(resultList["remote"]) = x /\ resultList["remote"][len] = x
         /\ DOMAIN resultList'["remote"] = 1 .. len - 1
         /\ \A i \in 1 .. len - 1 : resultList'["remote"][i] = resultList["remote"][i]
         /\ DOMAIN resultList["remote"] = 1 .. len
  <2> DEFINE y == Last(resultList["remote"])
             last == Len(resultList["remote"])
  <2>1. /\ y \in Job /\ last \in Nat \ {0} /\ resultList["remote"][last] = y
        /\ DOMAIN resultList'["remote"] = 1 .. last - 1
        /\ \A i \in 1 .. last - 1 : resultList'["remote"][i] = resultList["remote"][i]
        /\ DOMAIN resultList["remote"] = 1 .. last
    BY <1>2, <1>3, LastFront
  <2>2. Last(resultList["remote"]) = y
    OBVIOUS
  <2> HIDE DEF y, last
  <2>. QED
    BY <2>1, <2>2
<1>5. \A m \in Node, s \in Thread :
        call'[m][s] = IF m = "remote" /\ s = "main" THEN [kind |-> "result", job |-> x]
                                                    ELSE call[m][s]
  <2>1. [kind |-> "result", job |-> x] \in Calls
    BY CallsAre
  <2>2. Post("remote", "main", [kind |-> "result", job |-> x])
    BY <1>4 DEF SendResult
  <2>. QED
    BY <1>1, <2>1, <2>2, PostCall
<1>6. call["remote"]["main"].kind = "none"
  BY CallsAre DEF SendResult, Runs, Answered
<1>7. UNCHANGED <<jobList, tmpJob, computed, resultA>>
  BY DEF SendResult, doneVars
<1>8. ASSUME NEW j \in Job, NEW kind, NEW m, NEW i
      PROVE  At(j, kind, m, i)' <=>
               \/ At(j, kind, m, i) /\ ~(kind = "result" /\ m = "remote" /\ i = len)
               \/ j = x /\ kind = "return" /\ m = "remote" /\ i = "main"
  <2>1. CASE kind = "result"
    <3>1. CASE m = "remote"
      BY <1>4, <2>1, <3>1 DEF At
    <3>2. CASE m # "remote"
      BY <1>3, <2>1, <3>2 DEF At
    <3>. QED
      BY <3>1, <3>2
  <2>2. CASE kind = "job" \/ kind = "return"
    BY <1>1, <1>5, <1>6, <2>2 DEF At
  <2>3. CASE kind \notin {"result", "job", "return"}
    BY <1>7, <2>3 DEF At
  <2>. QED
    BY <2>1, <2>2, <2>3
<1>9. At(x, "result", "remote", len) /\ \A j \in Job : At(j, "result", "remote", len) => j = x
  BY <1>1, <1>4 DEF At
<1>10. computed[x] = IF "result" \in Finished THEN 1 ELSE 0
  BY <1>9, CountedAt DEF Jobs
<1>11. /\ computed'[x] = IF "return" \in Finished THEN 1 ELSE 0
       /\ \A j \in Job \ {x} : computed'[j] = computed[j]
  BY <1>7, <1>10 DEF Finished
<1>12. Moves(x, "result", "remote", len, "return", "remote", "main")
  BY <1>8, <1>9, <1>11 DEF Moves
<1>. QED
  BY <1>12, Moved

\* The server takes the job out of a request and puts it on its list.
LEMMA JobServed ==
  ASSUME TypeOK, Jobs, NEW n \in Node, NEW t \in Thread, ServeJob(n, t)
  PROVE  Jobs'
<1>1. Serve(n, t, "job")
  BY DEF ServeJob
<1>2. PICK q \in Node : /\ q = Partner(n) /\ call[q][t] \in Calls
                        /\ call[q][t].kind = "job" /\ Post(q, t, NoCall)
  BY <1>1, Served
<1>3. PICK x \in Job : x = call[q][t].job
  BY <1>2, CallKinds
<1>4. /\ jobList[n] \in Seq(Job) /\ jobList'[n] = Append(jobList[n], x)
      /\ \A m \in Node \ {n} : jobList'[m] = jobList[m]
  BY <1>2, <1>3 DEF ServeJob, TypeOK
<1>5. PICK len \in Nat :
         /\ DOMAIN jobList[n] = 1 .. len /\ DOMAIN jobList'[n] = 1 .. len + 1
         /\ jobList'[n][len + 1] = x
         /\ \A i \in 1 .. len : jobList'[n][i] = jobList[n][i]
  <2> DEFINE s == jobList[n]
  <2>1. s \in Seq(Job) /\ jobList'[n] = Append(s, x)
    BY <1>4
  <2> HIDE DEF s
  <2>2. \E len \in Nat : /\ DOMAIN s = 1 .. len /\ DOMAIN jobList'[n] = 1 .. len + 1
                         /\ jobList'[n][len + 1] = x
                         /\ \A i \in 1 .. len : jobList'[n][i] = s[i]
    BY <2>1, Appended
  <2>. QED
    BY <2>2 DEF s
<1>6. NoCall.kind = "none" /\ \A m \in Node, s \in Thread :
        call'[m][s] = IF m = q /\ s = t THEN NoCall ELSE call[m][s]
  BY <1>2, PostCall, CallsAre
<1>7. UNCHANGED <<resultList, tmpJob, computed, resultA>>
  BY DEF ServeJob, doneVars
<1>8. ASSUME NEW j \in Job, NEW kind, NEW m, NEW i
      PROVE  At(j, kind, m, i)' <=> \/ /\ At(j, kind, m, i)
                                       /\ ~(kind = "job" /\ m = q /\ i = t)
                                    \/ j = x /\ kind = "list" /\ m = n /\ i = len + 1
  <2>1. CASE kind = "list"
    <3>1. CASE m = n
      BY <1>5, <2>1, <3>1 DEF At
    <3>2. CASE m # n
      BY <1>4, <2>1, <3>2 DEF At
    <3>. QED
      BY <3>1, <3>2
  <2>2. CASE kind = "job" \/ kind = "return"
    BY <1>2, <1>6, <2>2 DEF At
  <2>3. CASE kind \notin {"list", "job", "return"}
    BY <1>7, <2>3 DEF At
  <2>. QED
    BY <2>1, <2>2, <2>3
<1>9. At(x, "job", q, t) /\ \A j \in Job : At(j, "job", q, t) => j = x
  BY <1>2, <1>3 DEF At
<1>10. computed[x] = IF "job" \in Finished THEN 1 ELSE 0
  BY <1>9, CountedAt DEF Jobs
<1>11. /\ computed'[x] = IF "list" \in Finished THEN 1 ELSE 0
       /\ \A j \in Job \ {x} : computed'[j] = computed[j]
  BY <1>7, <1>10 DEF Finished
<1>12. Moves(x, "job", q, t, "list", n, len + 1)
  BY <1>8, <1>9, <1>11 DEF Moves
<1>. QED
  BY <1>12, Moved

\* The server takes the result out of a request and puts it to its own.
LEMMA ResultServed ==
  ASSUME TypeOK, Jobs, NEW n \in Node, NEW t \in Thread, ServeResult(n, t)
  PROVE  Jobs'
<1>1. Serve(n, t, "result")
  BY DEF ServeResult
<1>2. PICK q \in Node : /\ q = Partner(n) /\ call[q][t] \in Calls
                        /\ call[q][t].kind = "result" /\ Post(q, t, NoCall)
  BY <1>1, Served
<1>3. PICK x \in Job : x = call[q][t].job
  BY <1>2, CallKinds
<1>4. /\ resultList[n] \in Seq(Job) /\ resultList'[n] = Append(resultList[n], x)
      /\ \A m \in Node \ {n} : resultList'[m] = resultList[m]
  BY <1>2, <1>3 DEF ServeResult, TypeOK
<1>5. PICK len \in Nat :
         /\ DOMAIN resultList[n] = 1 .. len /\ DOMAIN resultList'[n] = 1 .. len + 1
         /\ resultList'[n][len + 1] = x
         /\ \A i \in 1 .. len : resultList'[n][i] = resultList[n][i]
  <2> DEFINE s == resultList[n]
  <2>1. s \in Seq(Job) /\ resultList'[n] = Append(s, x)
    BY <1>4
  <2> HIDE DEF s
  <2>2. \E len \in Nat : /\ DOMAIN s = 1 .. len /\ DOMAIN resultList'[n] = 1 .. len + 1
                         /\ resultList'[n][len + 1] = x
                         /\ \A i \in 1 .. len : resultList'[n][i] = s[i]
    BY <2>1, Appended
  <2>. QED
    BY <2>2 DEF s
<1>6. NoCall.kind = "none" /\ \A m \in Node, s \in Thread :
        call'[m][s] = IF m = q /\ s = t THEN NoCall ELSE call[m][s]
  BY <1>2, PostCall, CallsAre
<1>7. UNCHANGED <<jobList, tmpJob, computed, resultA>>
  BY DEF ServeResult, doneVars
<1>8. ASSUME NEW j \in Job, NEW kind, NEW m, NEW i
      PROVE  At(j, kind, m, i)' <=> \/ /\ At(j, kind, m, i)
                                       /\ ~(kind = "return" /\ m = q /\ i = t)
                                    \/ j = x /\ kind = "result" /\ m = n /\ i = len + 1
  <2>1. CASE kind = "result"
    <3>1. CASE m = n
      BY <1>5, <2>1, <3>1 DEF At
    <3>2. CASE m # n
      BY <1>4, <2>1, <3>2 DEF At
    <3>. QED
      BY <3>1, <3>2
  <2>2. CASE kind = "job" \/ kind = "return"
    BY <1>2, <1>6, <2>2 DEF At
  <2>3. CASE kind \notin {"result", "job", "return"}
    BY <1>7, <2>3 DEF At
  <2>. QED
    BY <2>1, <2>2, <2>3
<1>9. At(x, "return", q, t) /\ \A j \in Job : At(j, "return", q, t) => j = x
  BY <1>2, <1>3 DEF At
<1>10. computed[x] = IF "return" \in Finished THEN 1 ELSE 0
  BY <1>9, CountedAt DEF Jobs
<1>11. /\ computed'[x] = IF "result" \in Finished THEN 1 ELSE 0
       /\ \A j \in Job \ {x} : computed'[j] = computed[j]
  BY <1>7, <1>10 DEF Finished
<1>12. Moves(x, "return", q, t, "result", n, len + 1)
  BY <1>8, <1>9, <1>11 DEF Moves
<1>. QED
  BY <1>12, Moved

\* The local node copies its results; the remote one ends without a change.
LEMMA Ended ==
  ASSUME TypeOK, Control, Jobs, NEW n \in Node, Terminate(n)
  PROVE  Jobs'
<1>1. "local" \in Node /\ "remote" \in Node /\ "main" \in Thread
  BY DEF Node, Thread
<1>2. UNCHANGED <<jobList, tmpJob, call, computed>>
  BY DEF Terminate
<1>3. CASE n # "local"
  BY <1>2, <1>3, Still DEF Terminate
<1>4. CASE n = "local"
  <2>1. resultA = {}
    BY <1>4 DEF Terminate, Runs, Control, Finishing
  <2>2. /\ resultList'["local"] = <<>> /\ resultList'["remote"] = resultList["remote"]
        /\ resultA' = {resultList["local"][i] : i \in DOMAIN resultList["local"]}
    BY <1>1, <1>4, <2>1 DEF Terminate, TypeOK, ToSet
  <2>3. DOMAIN <<>> = {}
    OBVIOUS
  <2>4. ASSUME NEW j \in Job, NEW kind, NEW m, NEW i
        PROVE  At(j, kind, m, i)' <=>
                 \/ At(j, kind, m, i) /\ ~(kind = "result" /\ m = "local")
                 \/ /\ kind = "copy" /\ m = "local" /\ i = "main"
                    /\ \E k \in DOMAIN resultList["local"] : At(j, "result", "local", k)
    <3>1. CASE kind = "result"
      BY <2>2, <2>3, <3>1 DEF At, Node
    <3>2. CASE kind = "copy"
      BY <1>1, <2>1, <2>2, <3>2 DEF At
    <3>3. CASE kind \notin {"result", "copy"}
      BY <1>2, <3>3 DEF At
    <3>. QED
      BY <3>1, <3>2, <3>3
  <2>5. ASSUME NEW j \in Job
        PROVE  /\ \E w \in Where(j)' : Where(j)' = {w}
               /\ \A w \in Where(j)' : computed'[j] = IF w[1] \in Finished THEN 1 ELSE 0
    <3>1. PICK kind, m, i : At(j, kind, m, i)
      BY OnePlace DEF Jobs
    <3>2. \A kind1, m1, i1 : At(j, kind1, m1, i1) <=> kind1 = kind /\ m1 = m /\ i1 = i
      BY <3>1, OnePlace DEF Jobs
    <3>3. computed'[j] = IF kind \in Finished THEN 1 ELSE 0
      BY <1>2, <3>1, CountedAt DEF Jobs
    <3>4. CASE kind = "result" /\ m = "local"
      <4>1. i \in DOMAIN resultList["local"]
        BY <3>1, <3>4 DEF At
      <4>2. \A kind1, m1, i1 :
              At(j, kind1, m1, i1)' <=> kind1 = "copy" /\ m1 = "local" /\ i1 = "main"
        BY <2>4, <3>2, <3>4, <4>1
      <4>3. Where(j)' = {<<"copy", "local", "main">>}
        BY <4>2, Settled
      <4>. QED
        BY <3>3, <3>4, <4>3 DEF Finished
    <3>5. CASE ~(kind = "result" /\ m = "local")
      <4>1. \A kind1, m1, i1 : At(j, kind1, m1, i1)' <=> kind1 = kind /\ m1 = m /\ i1 = i
        BY <2>4, <3>2, <3>5
      <4>2. Where(j)' = {<<kind, m, i>>}
        BY SMTT(60), <4>1, Settled
      <4>. QED
        BY <3>3, <4>2
    <3>. QED
      BY <3>4, <3>5
  <2>. QED
    BY <2>5 DEF Jobs, JobsConserved, Counted
<1>. QED
  BY <1>3, <1>4

\* Every step keeps each job in one place.
LEMMA JobsStep ==
  ASSUME TypeOK, Control, Jobs, Next
  PROVE  Jobs'
<1>1. "local" \in Node /\ "remote" \in Node /\ "main" \in Thread /\ "adaptor" \in Thread
      /\ "state" \in Thread
  BY DEF Node, Thread
<1>2. Carrying /\ Waiting
  BY DEF Control
<1>3. BootstrapPop => Jobs'
  <2>1. tmpJob["local"]["main"] = NoJob \/ ~BootstrapPop
    BY <1>1, <1>2 DEF BootstrapPop, Runs, Carrying
  <2>. QED
    BY <1>1, <2>1, Popped DEF BootstrapPop, Place
<1>4. BootstrapSignal => Jobs'
  <2>1. SUFFICES ASSUME BootstrapSignal PROVE Jobs'
    OBVIOUS
  <2>2. [kind |-> "signal", phase |-> "EXECUTION"] \in Calls
    BY CallsAre DEF Phases
  <2>3. \A m \in Node, s \in Thread :
          call'[m][s] = IF m = "local" /\ s = "main"
                        THEN [kind |-> "signal", phase |-> "EXECUTION"] ELSE call[m][s]
    BY <1>1, <2>1, <2>2, PostCall DEF BootstrapSignal
  <2>4. call["local"]["main"].kind = "none"
    BY <2>1, CallsAre DEF BootstrapSignal, Runs, Answered
  <2>5. UNCHANGED <<jobList, resultList, tmpJob, computed, resultA>>
    BY <2>1 DEF BootstrapSignal, doneVars
  <2>. QED
    BY <2>3, <2>4, <2>5, Still
<1>5. SendTermination => Jobs'
  <2>1. SUFFICES ASSUME SendTermination PROVE Jobs'
    OBVIOUS
  <2>2. [kind |-> "signal", phase |-> "TERMINATION"] \in Calls
    BY CallsAre DEF Phases
  <2>3. \A m \in Node, s \in Thread :
          call'[m][s] = IF m = "remote" /\ s = "main"
                        THEN [kind |-> "signal", phase |-> "TERMINATION"] ELSE call[m][s]
    BY <1>1, <2>1, <2>2, PostCall DEF SendTermination
  <2>4. call["remote"]["main"].kind = "none"
    BY <2>1, CallsAre DEF SendTermination, Runs, Answered
  <2>5. UNCHANGED <<jobList, resultList, tmpJob, computed, resultA>>
    BY <2>1 DEF SendTermination, doneVars
  <2>. QED
    BY <2>3, <2>4, <2>5, Still
<1>6. ASSUME NEW n \in Node, sendState(n) PROVE Jobs'
  <2>1. [kind |-> "state", jobNum |-> Len(jobList[n])] \in Calls
    BY CallsAre DEF TypeOK
  <2>2. PICK r : r = [kind |-> "state", jobNum |-> Len(jobList[n])]
    OBVIOUS
  <2>3. Post(n, "state", r) /\ r \in Calls /\ r.kind = "state"
    BY <1>6, <2>1, <2>2 DEF sendState
  <2>4. \A m \in Node, s \in Thread :
          call'[m][s] = IF m = n /\ s = "state" THEN r ELSE call[m][s]
    BY <1>1, <2>3, PostCall
  <2>5. call[n]["state"].kind = "none"
    BY <1>6, CallsAre DEF sendState, Runs, Answered
  <2>6. UNCHANGED <<jobList, resultList, tmpJob, computed, resultA>>
    BY <1>6 DEF sendState, doneVars
  <2>. QED
    BY <2>3, <2>4, <2>5, <2>6, Still
<1>7. ASSUME NEW n \in Node, NEW t \in Thread, NEW kind \in {"signal", "state"},
             Serve(n, t, kind), UNCHANGED <<jobList, resultList, tmpJob, computed, resultA>>
      PROVE  Jobs'
  <2>1. PICK q \in Node : call[q][t].kind = kind /\ Post(q, t, NoCall)
    BY <1>7, Served
  <2>2. NoCall.kind = "none" /\ \A m \in Node, s \in Thread :
          call'[m][s] = IF m = q /\ s = t THEN NoCall ELSE call[m][s]
    BY <2>1, PostCall, CallsAre
  <2>. QED
    BY <1>7, <2>1, <2>2, Still
<1>8. ASSUME UNCHANGED <<jobList, resultList, tmpJob, call, doneVars>> PROVE Jobs'
  BY <1>8, Still DEF doneVars
<1>9. BootstrapDone \/ AwaitRemote \/ Reported => Jobs'
  BY <1>8 DEF BootstrapDone, AwaitRemote, Reported
<1>10. \A n \in Node : Execute(n) \/ CheckEmpty(n) \/ AdaptorDecides(n) => Jobs'
  BY <1>8 DEF Execute, CheckEmpty, AdaptorDecides
<1>11. \A n \in Node, t \in Thread : PostFails(n, t) \/ ServerBlocks(n, t) => Jobs'
  BY <1>8 DEF PostFails, ServerBlocks
<1>12. ASSUME NEW n \in Node, Take(n) PROVE Jobs'
  <2>1. tmpJob[n]["main"] = NoJob
    BY <1>2, <1>12 DEF Take, Runs, Carrying
  <2>2. CASE Pop(n, "main", "work")
    BY <1>1, <1>12, <2>1, <2>2, Popped DEF Take, Place
  <2>3. CASE UNCHANGED <<jobList, tmpJob>>
    BY <1>8, <1>12, <2>3 DEF Take
  <2>. QED
    BY <1>12, <2>2, <2>3 DEF Take
<1>13. ASSUME NEW n \in Node, AdaptorPop(n) PROVE Jobs'
  <2>1. tmpJob[n]["adaptor"] = NoJob
    BY <1>2, <1>13 DEF AdaptorPop, Runs, Carrying
  <2>2. CASE Pop(n, "adaptor", "transfer")
    BY <1>1, <1>13, <2>1, <2>2, Popped DEF AdaptorPop, Place
  <2>3. CASE UNCHANGED <<jobList, tmpJob>>
    BY <1>8, <1>13, <2>3 DEF AdaptorPop
  <2>. QED
    BY <1>13, <2>2, <2>3 DEF AdaptorPop
<1>14. Transfer("local", "main", "bootpost", "bootstrap") => Jobs'
  <2>1. Transfer("local", "main", "bootpost", "bootstrap") => tmpJob["local"]["main"] # NoJob
    BY <1>1, <1>2 DEF Transfer, Runs, Carrying
  <2>. QED
    BY <1>1, <2>1, Sent DEF Place
<1>15. \A n \in Node : Transfer(n, "adaptor", "transfer", "look") => Jobs'
  <2>1. \A n \in Node : Transfer(n, "adaptor", "transfer", "look") => tmpJob[n]["adaptor"] # NoJob
    BY <1>1, <1>2 DEF Transfer, Runs, Carrying
  <2>. QED
    BY <1>1, <2>1, Sent DEF Place
<1>16. \A n \in Node, t \in Thread : ServeSignal(n, t) \/ ServeState(n, t) => Jobs'
  BY <1>7 DEF ServeSignal, ServeState, doneVars
<1>17. SendResult => Jobs'
  BY ResultSent
<1>18. \A n \in Node : doJob(n) \/ Terminate(n) => Jobs'
  BY <1>2, Done, Ended
<1>19. \A n \in Node, t \in Thread : ServeJob(n, t) \/ ServeResult(n, t) => Jobs'
  BY JobServed, ResultServed
<1>. QED
  BY <1>3, <1>4, <1>5, <1>6, <1>9, <1>10, <1>11, <1>12, <1>13, <1>14, <1>15, <1>16, <1>17,
     <1>18, <1>19, Steps

-----------------------------------------------------------------------------
(* The invariant holds in every reachable state. *)

\* All jobs are on the list of the local node at first.
LEMMA InitInv == Init => IInv
<1> SUFFICES ASSUME Init PROVE IInv
  OBVIOUS
<1>1. /\ Node = {"local", "remote"} /\ Thread = {"main", "adaptor", "state"}
      /\ Job = 1 .. JobCount /\ JobCount \in Nat
  BY JobCountAssumption DEF Node, Thread, Job
<1>2. /\ jobList["local"] \in Seq(Job) /\ jobList["remote"] \in Seq(Job)
      /\ DOMAIN jobList["local"] = Job /\ DOMAIN jobList["remote"] = {}
      /\ \A i \in Job : jobList["local"][i] = i
  <2>1. jobList["local"] = [i \in 1 .. JobCount |-> i] /\ jobList["remote"] = <<>>
    BY <1>1 DEF Init
  <2>2. [i \in 1 .. JobCount |-> i] \in Seq(1 .. JobCount)
    BY <1>1
  <2>. QED
    BY <1>1, <2>1, <2>2
<1>3. \A n \in Node, t \in Thread :
        /\ tmpJob[n][t] = NoJob /\ call[n][t] = NoCall /\ resultList[n] = <<>>
        /\ phase[n] = "BOOTSTRAP"
  BY DEF Init
<1>4. /\ pc["local"]["main"] = "bootstrap" /\ pc["remote"]["main"] = "loop"
      /\ \A n \in Node : pc[n]["adaptor"] = "off" /\ pc[n]["state"] = "send"
  BY <1>1 DEF Init
<1>5. resultA = {} /\ computed = [j \in Job |-> 0] /\ ~isRemoteTerminate
  BY DEF Init
<1>6. TypeOK
  <2>1. jobList \in [Node -> Seq(Job)]
    <3>1. jobList = [local |-> jobList["local"], remote |-> jobList["remote"]]
      BY DEF Init
    <3>. QED
      BY <1>1, <1>2, <3>1
  <2>2. resultList \in [Node -> Seq(Job)]
    BY DEF Init
  <2>3. pc \in [Node -> [Thread -> Place]]
    BY DEF Init, Thread, Place
  <2>4. tmpJob \in [Node -> [Thread -> Job \cup {NoJob}]]
    BY DEF Init
  <2>5. call \in [Node -> [Thread -> Calls]]
    BY CallsAre DEF Init
  <2>6. bootstrap \in Nat
    BY <1>1 DEF Init
  <2>. QED
    BY <2>1, <2>2, <2>3, <2>4, <2>5, <2>6 DEF Init, TypeOK, Phases
<1>7. Carrying
  BY <1>1, <1>3, <1>4 DEF Carrying
<1>8. Waiting
  BY <1>1, <1>3, <1>4, CallsAre DEF Waiting
<1>9. Phased
  BY <1>1, <1>3, <1>4 DEF Phased
<1>10. Finishing
  BY <1>1, <1>3, <1>4, <1>5, CallsAre DEF Finishing
<1>11. ASSUME NEW j \in Job, NEW kind, NEW n, NEW i
       PROVE  At(j, kind, n, i) <=> kind = "list" /\ n = "local" /\ i = j
  <2>1. CASE kind = "list"
    BY <1>1, <1>2, <2>1 DEF At
  <2>2. CASE kind = "thread"
    BY <1>3, <2>2, NoJobIsNone DEF At
  <2>3. CASE kind = "job" \/ kind = "return"
    BY <1>3, <2>3, CallsAre DEF At
  <2>4. CASE kind = "result"
    <3>1. DOMAIN <<>> = {}
      OBVIOUS
    <3>. QED
      BY <1>1, <1>3, <2>4, <3>1 DEF At
  <2>5. CASE kind = "copy"
    BY <1>5, <2>5 DEF At
  <2>. QED
    BY <2>1, <2>2, <2>3, <2>4, <2>5 DEF At
<1>12. ASSUME NEW j \in Job
       PROVE  Where(j) = {<<"list", "local", j>>}
  BY <1>11, Places
<1>13. JobsConserved
  <2>1. ASSUME NEW j \in Job PROVE \E w \in Where(j) : Where(j) = {w}
    BY <1>12
  <2>. QED
    BY <2>1 DEF JobsConserved
<1>14. Counted
  <2>1. ASSUME NEW j \in Job, NEW w \in Where(j)
        PROVE  computed[j] = IF w[1] \in Finished THEN 1 ELSE 0
    <3>1. w = <<"list", "local", j>>
      BY <1>12
    <3>2. w[1] \notin Finished
      BY <3>1 DEF Finished
    <3>. QED
      BY <1>5, <3>2
  <2>. QED
    BY <2>1 DEF Counted
<1>. QED
  BY <1>6, <1>7, <1>8, <1>9, <1>10, <1>13, <1>14 DEF IInv, Control, Jobs

\* A step that changes nothing keeps the invariant.
LEMMA Stutter ==
  ASSUME IInv, UNCHANGED vars
  PROVE  IInv'
<1>1. /\ UNCHANGED <<phase, jobList, resultList, pc, tmpJob, call, lockLost>>
      /\ UNCHANGED <<partner, bootstrap, served, isRemoteTerminate, computed, resultA>>
  BY DEF vars, nodeVars, doneVars
<1>2. TypeOK'
  BY <1>1 DEF IInv, TypeOK
<1>3. Control'
  BY <1>1 DEF IInv, Control, Carrying, Waiting, Phased, Finishing, Quiet
<1>4. Jobs'
  BY <1>1, Still DEF IInv
<1>. QED
  BY <1>2, <1>3, <1>4 DEF IInv

\* The types, where the threads are, and the places of the jobs, in every reachable
\* state, for any number of jobs and any throttling.
THEOREM Inductive == Spec => []IInv
<1>1. IInv /\ [Next]_vars => IInv'
  <2>1. ASSUME IInv, Next PROVE IInv'
    BY <2>1, TypeStep, ControlStep, JobsStep DEF IInv, Control
  <2>. QED
    BY <2>1, Stutter
<1>. QED
  BY <1>1, InitInv, PTL DEF Spec

\* No job is lost or doubled by transferJobs, by the adaptors or by a request that
\* is never answered.
THEOREM Conserved == Spec => []JobsConserved
<1>1. IInv => JobsConserved
  BY DEF IInv, Jobs
<1>. QED
  BY <1>1, Inductive, PTL

\* The results that the local node puts together are those of all jobs computed.
THEOREM Collected == Spec => []ResultsCollected
<1>1. IInv => ResultsCollected
  <2> SUFFICES ASSUME IInv, pc["local"]["main"] = "exit"
               PROVE  resultA = {j \in Job : computed[j] > 0}
    BY DEF ResultsCollected
  <2>1. Control /\ JobsConserved /\ Counted
    BY DEF IInv, Jobs
  <2>2. Quiet /\ resultList["local"] = <<>>
    BY <2>1 DEF Control, Finishing
  <2>3. \A n \in Node : DOMAIN resultList[n] = {}
    <3>1. DOMAIN <<>> = {}
      OBVIOUS
    <3>. QED
      BY <2>2, <3>1 DEF Quiet, Node
  <2>4. \A n \in Node, t \in Thread : call[n][t].kind # "result"
    BY <2>1, <2>2 DEF Control, Waiting, Quiet, Node, Thread
  <2>5. ASSUME NEW j \in Job
        PROVE  j \in resultA <=> computed[j] > 0
    <3>1. PICK kind, n, i : At(j, kind, n, i)
      BY <2>1, OnePlace
    <3>2. computed[j] = IF kind \in Finished THEN 1 ELSE 0
      BY <2>1, <3>1, CountedAt
    <3>3. kind \in Finished <=> kind = "copy"
      BY <2>3, <2>4, <3>1 DEF At, Finished
    <3>4. kind = "copy" => j \in resultA
      BY <3>1 DEF At
    <3>5. j \in resultA => kind = "copy"
      <4>1. j \in resultA => At(j, "copy", "local", "main")
        BY DEF At, Node
      <4>. QED
        BY <2>1, <3>1, <4>1, OnePlace
    <3>. QED
      BY <3>2, <3>3, <3>4, <3>5
  <2>6. resultA \subseteq Job
    BY DEF IInv, TypeOK
  <2>. QED
    BY <2>5, <2>6
<1>. QED
  BY <1>1, Inductive, PTL

\* The two nodes implement the pool of jobs: doJob computes each job once, and the
\* local node collects, once, results of jobs that were computed.
THEOREM Refinement == Spec => ComputedOnce
<1> USE DEF Work!pvars
<1>1. Init => Work!PInit
  BY DEF Init, Work!PInit
<1>2. ASSUME IInv, Next
      PROVE  Work!PNext \/ UNCHANGED <<computed, resultA>>
  <2>1. TypeOK /\ Control /\ JobsConserved /\ Counted
    BY <1>2 DEF IInv, Jobs
  <2>2. ASSUME NEW n \in Node, doJob(n)
        PROVE  Work!PNext
    <3>1. "main" \in Thread /\ tmpJob[n]["main"] # NoJob
      BY <2>1, <2>2 DEF Thread, doJob, Runs, Control, Carrying
    <3>2. PICK x \in Job : x = tmpJob[n]["main"]
      BY <2>1, <3>1 DEF TypeOK
    <3>3. At(x, "thread", n, "main")
      BY <3>1, <3>2 DEF At
    <3>4. computed[x] = IF "thread" \in Finished THEN 1 ELSE 0
      BY <2>1, <3>3, CountedAt
    <3>5. computed[x] = 0
      BY <3>4 DEF Finished
    <3>6. computed' = [computed EXCEPT ![x] = 1] /\ UNCHANGED resultA
      BY <2>2, <3>2, <3>5 DEF doJob
    <3>7. Work!Compute(x)
      BY <3>5, <3>6 DEF Work!Compute
    <3>. QED
      BY <3>7 DEF Work!PNext
  <2>3. ASSUME NEW n \in Node, Terminate(n)
        PROVE  Work!PNext \/ UNCHANGED <<computed, resultA>>
    <3>1. CASE n # "local"
      BY <2>3, <3>1 DEF Terminate
    <3>2. CASE n = "local"
      <4>1. resultA = {}
        BY <2>1, <2>3, <3>2 DEF Terminate, Runs, Control, Finishing
      <4>2. /\ resultA' = {resultList["local"][i] : i \in DOMAIN resultList["local"]}
            /\ UNCHANGED computed
        BY <2>3, <3>2, <4>1 DEF Terminate, ToSet
      <4>3. ASSUME NEW i \in DOMAIN resultList["local"]
            PROVE  /\ resultList["local"][i] \in Job
                   /\ computed[resultList["local"][i]] = 1
        <5>1. resultList["local"] \in Seq(Job) /\ "local" \in Node
          BY <2>1 DEF TypeOK, Node
        <5>2. PICK x \in Job : x = resultList["local"][i]
          BY <5>1
        <5>3. At(x, "result", "local", i)
          BY <5>1, <5>2 DEF At
        <5>4. computed[x] = IF "result" \in Finished THEN 1 ELSE 0
          BY <2>1, <5>3, CountedAt
        <5>. QED
          BY <5>2, <5>4 DEF Finished
      <4>4. resultA' \subseteq {j \in Job : computed[j] = 1}
        BY <4>2, <4>3
      <4>. QED
        BY <4>1, <4>2, <4>4 DEF Work!PNext, Work!Collect
    <3>. QED
      BY <3>1, <3>2
  <2>4. \/ \E n \in Node : doJob(n) \/ Terminate(n)
        \/ UNCHANGED <<computed, resultA>>
    BY ZenonT(60), <1>2, Steps
       DEF doneVars, BootstrapPop, BootstrapSignal, BootstrapDone, Transfer, AwaitRemote,
           SendResult, SendTermination, Reported, Execute, Take, CheckEmpty, AdaptorDecides,
           AdaptorPop, sendState, PostFails, ServeJob, ServerBlocks, ServeSignal,
           ServeResult, ServeState
  <2>. QED
    BY <2>2, <2>3, <2>4
<1>3. IInv /\ [Next]_vars => [Work!PNext]_(Work!pvars)
  BY <1>2 DEF vars, doneVars
<1>. QED
  BY <1>1, <1>3, Inductive, PTL DEF Spec, ComputedOnce, Work!Pool

=============================================================================
