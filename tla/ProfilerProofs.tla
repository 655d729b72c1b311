-------------------------- MODULE ProfilerProofs --------------------------
(***************************************************************************)
(* The page-fault profiler for any number of processes: that the sampling  *)
(* goes on, what crashes the kernel, and what is released. And the ring of *)
(* samples (SampleBuffer) of any size: that no word of a sample is printed *)
(* twice, and when every sample is printed once and in order.              *)
(***************************************************************************)
EXTENDS Profiler, SampleBuffer, KernelListProofs

-----------------------------------------------------------------------------
(* The inductive invariant. *)

\* What is owned at each step of mp3_init and mp3_exit. The buffer may be
\* missing, for the second vmalloc may have failed.
Owns ==
  /\ mod \in {"dir", "failed"} => owned = {}
  /\ mod \in {"file", "out_proc_dir"} => owned = {"dir"}
  /\ mod \in {"lockinit", "workqueue", "out_proc_entry"} => owned = {"dir", "file"}
  /\ mod \in {"region", "out_workqueue"} => owned = {"dir", "file", "workqueue"}
  /\ mod \in {"cdev", "out_chrdev_region"} => owned = {"dir", "file", "workqueue", "region"}
  /\ mod \in {"vmalloc", "out_cdev"} =>
       owned = {"dir", "file", "workqueue", "region", "cdev"}
  /\ mod = "loaded" =>
       owned \ {"buffer"} = {"dir", "file", "workqueue", "region", "cdev", "first buffer"}
  /\ mod \in {"free", "cancel", "flush", "destroy"} =>
       owned \ {"buffer"} = {"workqueue", "region", "cdev", "first buffer"}
  /\ mod = "device" => owned \ {"buffer"} = {"region", "cdev", "first buffer"}
  /\ mod = "vfree" => owned \ {"buffer"} = {"first buffer"}
  /\ mod = "gone" => owned = {"first buffer"}
  /\ buffer = "freed" => mod = "gone"

\* Handlers run while the file exists, and list what was not listed.
Handlers ==
  \A p \in Proc : /\ app[p] \in InHandler => "file" \in owned
                  /\ Linked(p) => app[p] \in {"run", "unregister", "removing", "end", "nomem"}

\* Nothing is on the workqueue, and nothing runs, when there is none.
Queueing == Queue \/ Idle

\* There is no pointer to a workqueue before there was one.
Pointers == mod \in {"dir", "file", "lockinit", "workqueue"} => wq = "null" /\ dwq = "null"

\* The lock keeps the handlers out of the scan.
Exclusion == work = "scan" => \A p \in Proc : app[p] \notin InSection

\* The cursors of mp3_exit are the first two nodes, and it frees them all.
Freeing ==
  /\ mod = "free" => xpos = First /\ xn = (IF First = NULL THEN NULL ELSE After(list, First))
  /\ mod \in Leaving \cup {"gone"} => mod = "free" \/ list = <<>>

\* The scan stands on a node of the list, unless mp3_exit frees it meanwhile.
Scanning == "overlap" \notin races /\ work = "scan" => ~Bad(tmp) /\ mod # "free"

\* While a process is on the list the work is pending or runs; who cancels it
\* has seen an empty list, to which nobody has been added.
Going ==
  "late cancel" \notin races =>
    /\ mod \in Loading \cup {"loaded"} /\ list # <<>> => Pending \/ work # "idle"
    /\ \A p \in Proc : app[p] = "cancel" => list = <<>>

IInv == /\ TypeOK /\ Owns /\ Handlers /\ Queueing /\ Pointers /\ Exclusion
        /\ Freeing /\ Scanning /\ Going /\ CrashesExplained

-----------------------------------------------------------------------------
(* Names for the steps. *)

Step == /\ ~oops
        /\ \/ \E p \in Proc : \/ Write(p, "start", "register", "run")
                              \/ Write(p, "run", "unregister", "end")
                              \/ NoMemory(p) \/ HandlerStep(p)
           \/ TimerFires \/ WorkStep
           \/ LoadStep \/ FailStep \/ RemoveFile \/ ExitSteps

\* The list of a state, as the lemmas about lists want it.
LEMMA ListOf ==
  ASSUME TypeOK
  PROVE  /\ list \in Seq(Proc) /\ IsInjective(list) /\ NULL \notin Proc
         /\ Range(list) \subseteq Proc
         /\ First \in Node /\ ~Bad(First) /\ (First = NULL <=> list = <<>>)
         /\ \A q \in Range(list) : /\ After(list, q) \in Node /\ ~Bad(After(list, q))
                                   /\ After(list, q) # NULL => After(list, After(list, q)) # q
<1>1. list \in Seq(Proc) /\ IsInjective(list) /\ NULL \notin Proc
  BY ProcAssumption DEF TypeOK
<1>2. Range(list) \subseteq Proc
  BY <1>1 DEF Range
<1>3. First \in Node /\ ~Bad(First) /\ (First = NULL <=> list = <<>>)
  BY <1>1, <1>2, FirstOn DEF First, Node, Bad, Linked
<1>4. ASSUME NEW q \in Range(list)
      PROVE  /\ After(list, q) \in Node /\ ~Bad(After(list, q))
             /\ After(list, q) # NULL => After(list, After(list, q)) # q
  BY <1>1, <1>2, AfterOn DEF Node, Bad, Linked
<1>. QED
  BY <1>1, <1>2, <1>3, <1>4

\* The step of mp3_init that acquires a resource.
LEMMA Acquires ==
  ASSUME NEW r \in Resources, Acquire(r)
  PROVE  /\ \/ mod = "dir" /\ mod' = "file" /\ owned' = owned \cup {"dir"} /\ wq' = wq
            \/ mod = "file" /\ mod' = "lockinit" /\ owned' = owned \cup {"file"} /\ wq' = wq
            \/ /\ mod = "workqueue" /\ mod' = "region" /\ owned' = owned \cup {"workqueue"}
               /\ wq' = "queue"
            \/ mod = "region" /\ mod' = "cdev" /\ owned' = owned \cup {"region"} /\ wq' = wq
            \/ mod = "cdev" /\ mod' = "vmalloc" /\ owned' = owned \cup {"cdev"} /\ wq' = wq
         /\ UNCHANGED <<list, app, delayed, xpos, xn, buffer, oops, races>>
<1>1. mod = r /\ owned' = owned \cup {r} /\ mod' = Following[r]
      /\ wq' = (IF r = "workqueue" THEN "queue" ELSE wq)
      /\ UNCHANGED <<list, app, delayed, xpos, xn, buffer, oops, races>>
  BY DEF Acquire
<1>2. /\ Following["dir"] = "file" /\ Following["file"] = "lockinit"
      /\ Following["workqueue"] = "region" /\ Following["region"] = "cdev"
      /\ Following["cdev"] = "vmalloc"
  BY DEF Following
<1>3. r \in {"dir", "file", "workqueue", "region", "cdev"}
  BY DEF Resources
<1>. QED
  BY <1>1, <1>2, <1>3

\* The label that a failing call of mp3_init jumps to.
LEMMA Jumps ==
  ASSUME LoadFails
  PROVE  /\ \/ mod = "dir" /\ mod' = "failed"
            \/ mod = "file" /\ mod' = "out_proc_dir"
            \/ mod = "workqueue" /\ mod' = "out_proc_entry"
            \/ mod = "region" /\ mod' = "out_workqueue"
            \/ mod = "cdev" /\ mod' = "out_chrdev_region"
            \/ mod = "vmalloc" /\ mod' = "out_cdev"
         /\ UNCHANGED <<list, app, delayed, xpos, xn, owned, wq, buffer, oops, races>>
BY DEF LoadFails, OnFailure

\* What a label does.
LEMMA Undoes ==
  ASSUME NEW label \in Failing, Undo(label)
  PROVE  /\ \/ /\ mod = "out_cdev" /\ mod' = "out_chrdev_region"
               /\ owned' = owned \ {"cdev"}
            \/ /\ mod = "out_chrdev_region" /\ mod' = "out_workqueue"
               /\ owned' = owned \ {"region"}
            \/ /\ mod = "out_workqueue" /\ mod' = "out_proc_entry" /\ Idle
               /\ owned' = owned \ {"workqueue"}
            \/ /\ mod = "out_proc_entry" /\ mod' = "out_proc_dir"
               /\ \A p \in Proc : app[p] \notin InHandler
               /\ owned' = owned \ {"file"}
            \/ mod = "out_proc_dir" /\ mod' = "failed" /\ owned' = owned \ {"dir"}
         /\ UNCHANGED <<list, app, delayed, xpos, xn, wq, buffer, oops, races>>
<1>1. /\ mod = label /\ owned' = owned \ {Releases[label]} /\ mod' = FallsTo[label]
      /\ label = "out_workqueue" => Idle
      /\ label = "out_proc_entry" => \A p \in Proc : app[p] \notin InHandler
      /\ UNCHANGED <<list, app, delayed, xpos, xn, wq, buffer, oops, races>>
  BY DEF Undo
<1>2. /\ Releases["out_cdev"] = "cdev" /\ Releases["out_chrdev_region"] = "region"
      /\ Releases["out_workqueue"] = "workqueue" /\ Releases["out_proc_entry"] = "file"
      /\ Releases["out_proc_dir"] = "dir"
  BY DEF Releases
<1>3. /\ FallsTo["out_cdev"] = "out_chrdev_region"
      /\ FallsTo["out_chrdev_region"] = "out_workqueue"
      /\ FallsTo["out_workqueue"] = "out_proc_entry"
      /\ FallsTo["out_proc_entry"] = "out_proc_dir"
      /\ FallsTo["out_proc_dir"] = "failed"
  BY DEF FallsTo
<1>4. label \in {"out_cdev", "out_chrdev_region", "out_workqueue", "out_proc_entry",
                "out_proc_dir"}
  BY DEF Failing
<1>. HIDE DEF Idle
<1>. QED
  BY <1>1, <1>2, <1>3, <1>4

\* The places of mp3_init, one by one.
LEMMA LoadingIs ==
  Loading = {"dir", "file", "lockinit", "workqueue", "region", "cdev", "vmalloc"}
BY DEF Loading, Resources

-----------------------------------------------------------------------------
(* The steps, conjunct by conjunct. *)

\* A process puts its node before the others.
LEMMA Registering ==
  ASSUME TypeOK, Handlers, NEW p \in Proc, Register(p), ~oops, ~oops'
  PROVE  /\ app[p] = "adding" /\ app' = [app EXCEPT ![p] = "run"]
         /\ list' \in Seq(Proc) /\ IsInjective(list')
         /\ Range(list') = Range(list) \cup {p} /\ list' # <<>>
         /\ IF list = <<>> THEN QueueDelayed ELSE UNCHANGED <<timer, dwq>>
         /\ races' = IF list = <<>> /\ \E q \in Proc : app[q] = "cancel"
                     THEN races \cup {"late cancel"} ELSE races
         /\ UNCHANGED <<queued, work, tmp, unload, oops>>
<1>1. /\ app[p] = "adding" /\ list' = <<p>> \o list /\ app' = [app EXCEPT ![p] = "run"]
      /\ IF list = <<>> THEN QueueDelayed ELSE UNCHANGED <<timer, dwq>>
      /\ races' = IF list = <<>> /\ \E q \in Proc : app[q] = "cancel"
                  THEN races \cup {"late cancel"} ELSE races
      /\ UNCHANGED <<queued, work, tmp, unload, oops>>
  BY DEF Register, Crash
<1>2. list \in Seq(Proc) /\ IsInjective(list) /\ p \notin Range(list)
  BY <1>1 DEF TypeOK, Handlers, Linked
<1>3. /\ <<p>> \o list \in Seq(Proc) /\ IsInjective(<<p>> \o list)
      /\ Range(<<p>> \o list) = Range(list) \cup {p} /\ <<p>> \o list # <<>>
  BY <1>2, AddOn
<1>. QED
  BY <1>1, <1>3

\* A step that crashes leaves all else as it was.
LEMMA Crashing ==
  ASSUME Crash
  PROVE  UNCHANGED <<list, app, timer, queued, dwq, work, tmp, mod, xpos, xn, owned, wq,
                     buffer, races>>
BY DEF Crash, delayed, unload

\* The node of a process is taken off.
LEMMA Dropping ==
  ASSUME TypeOK, NEW p \in Range(list), list' = Del(list, p)
  PROVE  /\ list' \in Seq(Proc) /\ IsInjective(list')
         /\ Range(list') = Range(list) \ {p}
BY DelOn DEF TypeOK

\* Unregister, unless it crashes.
LEMMA Unregistering ==
  ASSUME TypeOK, NEW p \in Proc, Unregister(p), ~oops, ~oops'
  PROVE  /\ app[p] = "removing" /\ app' = [app EXCEPT ![p] = "test"]
         /\ list' \in Seq(Proc) /\ IsInjective(list') /\ Range(list') = Range(list) \ {p}
         /\ list # <<>>
         /\ UNCHANGED <<delayed, unload, oops, races>>
<1>1. /\ Linked(p) /\ list' = Del(list, p)
      /\ app[p] = "removing" /\ app' = [app EXCEPT ![p] = "test"]
      /\ UNCHANGED <<delayed, unload, oops, races>>
  BY DEF Unregister, Crash
<1>2. p \in Range(list) /\ list # <<>>
  BY <1>1 DEF Linked, Range
<1>. QED
  BY <1>1, <1>2, Dropping

\* The cursors of mp3_exit advance.
LEMMA FreeingNode ==
  ASSUME TypeOK, Freeing, FreeNode
  PROVE  /\ mod = "free" /\ First \in Range(list) /\ list' = Del(list, First)
         /\ list' \in Seq(Proc) /\ IsInjective(list') /\ Range(list') = Range(list) \ {First}
         /\ xpos' = First' /\ xpos' \in Node /\ xn' \in Node
         /\ xn' = (IF First' = NULL THEN NULL ELSE After(list', First'))
         /\ UNCHANGED <<app, delayed, mod, owned, wq, buffer, oops, races>>
<1>1. /\ mod = "free" /\ xpos # NULL /\ list' = Del(list, xpos) /\ xpos' = xn
      /\ xn' = IF xn = NULL THEN NULL ELSE After(list, xn)
      /\ UNCHANGED <<app, delayed, mod, owned, wq, buffer, oops, races>>
  BY DEF FreeNode
<1>2. xpos = First /\ First # NULL /\ xn = After(list, First)
  BY <1>1 DEF Freeing
<1>3. /\ list \in Seq(Proc) /\ IsInjective(list) /\ NULL \notin Proc
      /\ First \in Range(list) /\ list # <<>>
  BY <1>2, ListOf DEF Bad, Linked
<1>4. FirstNode(Del(list, First)) = After(list, First)
  BY <1>3, DelFirst DEF First
<1>5. First' = xn
  BY <1>1, <1>2, <1>4 DEF First
<1>6. list' \in Seq(Proc) /\ IsInjective(list') /\ Range(list') = Range(list) \ {First}
  BY <1>1, <1>2, <1>3, Dropping
<1>7. xn \in Node /\ xn' \in Node /\ xn' = (IF xn = NULL THEN NULL ELSE After(list', xn))
  <2>1. CASE xn = NULL
    BY <1>1, <2>1 DEF Node
  <2>2. CASE xn # NULL
    <3>1. /\ xn \in Range(list) /\ xn \in Node /\ After(list, xn) \in Node
          /\ xn # First /\ After(list, xn) # First
      BY <1>2, <1>3, <2>2, ListOf, AfterOn DEF Bad, Linked
    <3>2. After(Del(list, First), xn) = After(list, xn)
      BY <1>3, <3>1, DelAfter
    <3>. QED
      BY <1>1, <1>2, <2>2, <3>1, <3>2
  <2>. QED
    BY <2>1, <2>2
<1>. QED
  BY <1>1, <1>2, <1>3, <1>5, <1>6, <1>7

\* Types.
LEMMA TypeStep ==
  ASSUME TypeOK, Handlers, Freeing, Step
  PROVE  TypeOK'
<1> USE DEF TypeOK, Crash, delayed, unload
<1>1. ASSUME NEW p \in Proc,
             Write(p, "start", "register", "run") \/ Write(p, "run", "unregister", "end")
             \/ NoMemory(p)
      PROVE  TypeOK'
  BY ZenonT(60), <1>1 DEF Write, NoMemory, InHandler
<1>18. ASSUME NEW p \in Proc, Lock(p) PROVE TypeOK'
  <2>1. \E place \in InSection : app' = [app EXCEPT ![p] = place]
    BY <1>18 DEF Lock, InSection
  <2>2. app' \in [Proc -> InHandler \cup {"start", "run", "end", "nomem"}]
    BY <2>1 DEF InHandler
  <2>. QED
    BY ZenonT(60), <1>18, <2>2 DEF Lock
<1>2. ASSUME NEW p \in Proc, Register(p) PROVE TypeOK'
  <2>1. CASE oops'
    BY <1>2, <2>1 DEF Register, Step
  <2>2. CASE ~oops'
    <3>1. /\ list' \in Seq(Proc) /\ IsInjective(list')
          /\ app' = [app EXCEPT ![p] = "run"]
          /\ IF list = <<>> THEN QueueDelayed ELSE UNCHANGED <<timer, dwq>>
          /\ races' \subseteq races \cup {"late cancel"}
          /\ UNCHANGED <<queued, work, tmp, unload, oops>>
      BY <1>2, <2>2, Registering DEF Step
    <3>2. timer' \in BOOLEAN /\ dwq' \in {"null", "queue"}
      BY <3>1 DEF QueueDelayed
    <3>. QED
      BY <3>1, <3>2
  <2>. QED
    BY <2>1, <2>2
<1>3. ASSUME NEW p \in Proc, Unregister(p) PROVE TypeOK'
  <2>1. CASE oops'
    BY <1>3, <2>1 DEF Unregister, Step
  <2>2. CASE ~oops'
    <3>1. /\ app' = [app EXCEPT ![p] = "test"] /\ list' \in Seq(Proc) /\ IsInjective(list')
          /\ UNCHANGED <<delayed, unload, oops, races>>
      BY <1>3, <2>2, Unregistering DEF Step
    <3>2. app' \in [Proc -> InHandler \cup {"start", "run", "end", "nomem"}]
      BY <3>1 DEF InHandler
    <3>. QED
      BY ZenonT(60), <3>1, <3>2
  <2>. QED
    BY <2>1, <2>2
<1>4. ASSUME NEW p \in Proc, TestEmpty(p) \/ Free(p) PROVE TypeOK'
  BY ZenonT(60), <1>4 DEF TestEmpty, Free, InHandler
<1>19. ASSUME NEW p \in Proc, Flush(p) PROVE TypeOK'
  <2>1. oops' \in BOOLEAN
    BY <1>19 DEF Flush
  <2>2. app' \in [Proc -> InHandler \cup {"start", "run", "end", "nomem"}]
    BY <1>19 DEF Flush, InHandler
  <2>. QED
    BY <1>19, <2>1, <2>2 DEF Flush
<1>5. ASSUME NEW p \in Proc, Cancel(p) PROVE TypeOK'
  BY ZenonT(60), <1>5 DEF Cancel, CancelDelayed, InHandler
<1>6. CASE TimerFires
  BY <1>6 DEF TimerFires
<1>7. CASE WorkStarts \/ Unlock
  BY <1>7 DEF WorkStarts, Unlock
<1>8. CASE LockToScan
  BY ZenonT(60), <1>8, ListOf DEF LockToScan
<1>9. CASE Visit
  <2>1. CASE oops'
    BY <1>9, <2>1 DEF Visit, Step
  <2>2. CASE ~oops'
    <3>1. tmp \in Range(list) /\ tmp' = After(list, tmp)
      BY <1>9, <2>2 DEF Visit, Bad, Linked
    <3>2. tmp' \in Node
      BY <3>1, ListOf
    <3>. QED
      BY <1>9, <2>2, <3>2 DEF Visit
  <2>. QED
    BY <2>1, <2>2
<1>10. CASE WriteSample \/ Requeue
  BY <1>10 DEF WriteSample, Requeue, QueueDelayed
<1>11. ASSUME NEW r \in Resources, Acquire(r) PROVE TypeOK'
  BY ZenonT(60), <1>11, Acquires, LoadingIs DEF Resources
<1>12. CASE LoadFails
  BY ZenonT(60), <1>12, Jumps DEF Failing
<1>20. ASSUME NEW label \in Failing, Undo(label) PROVE TypeOK'
  BY ZenonT(60), <1>20, Undoes DEF Failing
<1>21. CASE InitLock
  <2>1. oops' \in BOOLEAN /\ mod' \in Loading \cup {mod}
    BY <1>21, LoadingIs DEF InitLock
  <2>2. UNCHANGED <<list, app, delayed, xpos, xn, owned, wq, buffer, races>>
    BY <1>21 DEF InitLock
  <2>. QED
    BY ZenonT(60), <2>1, <2>2
<1>13. CASE AllocateBuffer
  <2>1. /\ buffer' \in {"none", "live"} /\ owned' \subseteq owned \cup {"first buffer", "buffer"}
        /\ mod' = "loaded" /\ UNCHANGED <<list, app, delayed, xpos, xn, wq, oops, races>>
    BY <1>13 DEF AllocateBuffer
  <2>. QED
    BY <2>1
<1>14. CASE RemoveFile
  BY ZenonT(60), <1>14, ListOf DEF RemoveFile, Leaving, Bad, Linked
<1>15. CASE FreeNode
  BY ZenonT(60), <1>15, FreeingNode
<1>16. CASE ListFreed \/ FlushAll \/ DestroyQueue \/ DeleteDevice
  <2>1. /\ mod' \in Leaving /\ owned' \subseteq owned
        /\ UNCHANGED <<list, app, xpos, xn, wq, oops, delayed, buffer, races>>
    BY <1>16
       DEF ListFreed, FlushAll, DestroyQueue, DeleteDevice, ExitStep, Leaving
  <2>. QED
    BY ZenonT(60), <2>1
<1>22. CASE FreeBuffer
  BY ZenonT(60), <1>22 DEF FreeBuffer, ExitStep
<1>17. CASE CancelAll
  BY <1>17 DEF CancelAll, CancelDelayed, ExitStep, Leaving
<1>. QED
  BY <1>1, <1>2, <1>3, <1>4, <1>5, <1>6, <1>7, <1>8, <1>9, <1>10, <1>11, <1>12, <1>13, <1>14,
     <1>15, <1>16, <1>17, <1>18, <1>19, <1>20, <1>21, <1>22
     DEF Step, HandlerStep, WorkStep, LoadStep, FailStep, ExitSteps

\* What mp3_init has acquired and mp3_exit has not released.
LEMMA OwnsStep ==
  ASSUME TypeOK, Owns, Step
  PROVE  Owns'
<1> USE DEF Owns, Crash, delayed, unload
<1>1. ASSUME NEW p \in Proc,
             Write(p, "start", "register", "run") \/ Write(p, "run", "unregister", "end")
             \/ NoMemory(p) \/ HandlerStep(p)
      PROVE  Owns'
  <2>1. UNCHANGED <<mod, owned, buffer>>
    BY <1>1
     DEF Write, NoMemory, HandlerStep, Lock, Register, Unregister, TestEmpty, Cancel,
         Flush, Free
  <2>. QED
    BY ZenonT(60), <2>1
<1>2. CASE TimerFires \/ WorkStep
  <2>1. UNCHANGED <<mod, owned, buffer>>
    BY <1>2
     DEF TimerFires, WorkStep, WorkStarts, LockToScan, Visit, Unlock, WriteSample, Requeue
  <2>. QED
    BY ZenonT(60), <2>1
<1>3. ASSUME NEW r \in Resources, Acquire(r) PROVE Owns'
  BY <1>3, Acquires
<1>4. CASE LoadFails
  BY <1>4, Jumps
<1>11. ASSUME NEW label \in Failing, Undo(label) PROVE Owns'
  BY <1>11, Undoes
<1>12. CASE InitLock
  BY <1>12 DEF InitLock
<1>5. CASE AllocateBuffer
  BY <1>5 DEF AllocateBuffer
<1>6. CASE RemoveFile
  BY <1>6 DEF RemoveFile
<1>7. CASE FreeNode \/ ListFreed \/ CancelAll \/ FlushAll
  BY <1>7 DEF FreeNode, ListFreed, CancelAll, FlushAll, ExitStep
<1>8. CASE DestroyQueue
  BY <1>8 DEF DestroyQueue, ExitStep
<1>9. CASE DeleteDevice
  BY <1>9 DEF DeleteDevice, ExitStep
<1>10. CASE FreeBuffer
  BY <1>10 DEF FreeBuffer, ExitStep
<1>. QED
  BY <1>1, <1>2, <1>3, <1>4, <1>5, <1>6, <1>7, <1>8, <1>9, <1>10, <1>11, <1>12
     DEF Step, LoadStep, FailStep, ExitSteps

\* The handlers and the file.
LEMMA HandlersStep ==
  ASSUME TypeOK, Handlers, Freeing, Step
  PROVE  Handlers'
<1> USE DEF Handlers, Crash, delayed, unload
<1>1. ASSUME NEW p \in Proc,
             Write(p, "start", "register", "run") \/ Write(p, "run", "unregister", "end")
      PROVE  Handlers'
  BY ZenonT(60), <1>1 DEF Write, TypeOK, InHandler, InSection, Linked
<1>10. ASSUME NEW p \in Proc, NoMemory(p) PROVE Handlers'
  BY <1>10 DEF NoMemory, TypeOK, InHandler, InSection, Linked
<1>11. ASSUME NEW p \in Proc, Lock(p) PROVE Handlers'
  BY <1>11 DEF Lock, TypeOK, InHandler, InSection, Linked
<1>2. ASSUME NEW p \in Proc, Register(p) PROVE Handlers'
  <2>1. CASE oops'
    BY <1>2, <2>1 DEF Register, Step, Linked
  <2>2. CASE ~oops'
    <3>1. /\ Range(list') = Range(list) \cup {p} /\ app' = [app EXCEPT ![p] = "run"]
          /\ owned' = owned
      BY <1>2, <2>2, Registering DEF Step
    <3>. QED
      BY <3>1 DEF TypeOK, InHandler, InSection, Linked
  <2>. QED
    BY <2>1, <2>2
<1>3. ASSUME NEW p \in Proc, Unregister(p) PROVE Handlers'
  <2>1. CASE oops'
    BY <1>3, <2>1 DEF Unregister, Step, Linked
  <2>2. CASE ~oops'
    <3>1. /\ app[p] = "removing" /\ app' = [app EXCEPT ![p] = "test"]
          /\ Range(list') = Range(list) \ {p} /\ owned' = owned
      BY <1>3, <2>2, Unregistering DEF Step
    <3>. QED
      BY <3>1 DEF TypeOK, InHandler, InSection, Linked
  <2>. QED
    BY <2>1, <2>2
<1>4. ASSUME NEW p \in Proc, TestEmpty(p) \/ Cancel(p) \/ Flush(p) \/ Free(p) PROVE Handlers'
  BY <1>4 DEF TestEmpty, Cancel, Flush, Free, TypeOK, InHandler, InSection, Linked
<1>5. CASE TimerFires \/ WorkStep
  BY <1>5 DEF TimerFires, WorkStep, WorkStarts, LockToScan, Visit, Unlock, WriteSample, Requeue,
              Linked
<1>6. ASSUME NEW r \in Resources, Acquire(r) PROVE Handlers'
  BY <1>6, Acquires DEF Linked
<1>7. CASE InitLock \/ AllocateBuffer \/ RemoveFile
  BY <1>7 DEF InitLock, AllocateBuffer, RemoveFile, Linked
<1>12. CASE LoadFails
  BY <1>12, Jumps DEF Linked
<1>13. ASSUME NEW label \in Failing, Undo(label) PROVE Handlers'
  BY <1>13, Undoes DEF Linked
<1>8. CASE FreeNode
  BY <1>8, FreeingNode DEF Linked
<1>9. CASE ListFreed \/ CancelAll \/ FlushAll \/ DestroyQueue \/ DeleteDevice \/ FreeBuffer
  BY <1>9 DEF ListFreed, CancelAll, FlushAll, DestroyQueue, DeleteDevice, FreeBuffer, ExitStep,
              Linked
<1>. QED
  BY <1>1, <1>2, <1>3, <1>4, <1>5, <1>6, <1>7, <1>8, <1>9, <1>10, <1>11,
     <1>12, <1>13 DEF Step, HandlerStep, LoadStep, FailStep, ExitSteps

\* The workqueue goes when it is empty, and comes back no more.
LEMMA QueueingStep ==
  ASSUME TypeOK, Owns, Queueing, Step
  PROVE  Queueing'
<1> USE DEF Queueing, Queue, Idle, Crash, delayed, unload
<1>1. ASSUME NEW p \in Proc,
             Write(p, "start", "register", "run") \/ Write(p, "run", "unregister", "end")
             \/ NoMemory(p) \/ Lock(p) \/ Register(p) \/ Unregister(p) \/ TestEmpty(p) \/ Flush(p) \/ Free(p)
      PROVE  Queueing'
  <2>1. UNCHANGED <<queued, work, owned>>
    BY <1>1 DEF Write, NoMemory, Lock, Register, Unregister, TestEmpty, Flush, Free
  <2>. QED
    BY <2>1
<1>2. ASSUME NEW p \in Proc, Cancel(p) PROVE Queueing'
  BY <1>2 DEF Cancel, CancelDelayed
<1>3. CASE TimerFires \/ WorkStep
  BY <1>3 DEF TimerFires, WorkStep, WorkStarts, LockToScan, Visit, Unlock, WriteSample, Requeue
<1>4. ASSUME NEW r \in Resources, Acquire(r) PROVE Queueing'
  BY <1>4, Acquires
<1>5. CASE InitLock \/ AllocateBuffer \/ RemoveFile
  BY <1>5 DEF InitLock, AllocateBuffer, RemoveFile
<1>8. CASE LoadFails
  BY <1>8, Jumps
<1>9. ASSUME NEW label \in Failing, Undo(label) PROVE Queueing'
  BY <1>9, Undoes
<1>6. CASE FreeNode \/ ListFreed \/ FlushAll \/ DestroyQueue \/ DeleteDevice \/ FreeBuffer
  BY <1>6 DEF FreeNode, ListFreed, FlushAll, DestroyQueue, DeleteDevice, FreeBuffer, ExitStep
<1>7. CASE CancelAll
  BY <1>7 DEF CancelAll, CancelDelayed, ExitStep
<1>. QED
  BY <1>1, <1>2, <1>3, <1>4, <1>5, <1>6, <1>7, <1>8, <1>9
     DEF Step, HandlerStep, LoadStep, FailStep, ExitSteps

\* mp3_workqueue is set once, and what was queued before was queued for nothing.
LEMMA PointersStep ==
  ASSUME TypeOK, Queueing, Owns, Pointers, Step
  PROVE  Pointers'
<1> USE DEF Pointers, Crash, delayed, unload
<1>1. ASSUME NEW p \in Proc,
             Write(p, "start", "register", "run") \/ Write(p, "run", "unregister", "end")
             \/ NoMemory(p) \/ Lock(p) \/ Unregister(p) \/ TestEmpty(p) \/ Cancel(p)
             \/ Flush(p) \/ Free(p)
      PROVE  Pointers'
  BY <1>1 DEF Write, NoMemory, Lock, Unregister, TestEmpty, Cancel, Flush, Free
<1>2. ASSUME NEW p \in Proc, Register(p) PROVE Pointers'
  <2>1. (dwq' = dwq \/ dwq' = wq) /\ UNCHANGED <<mod, wq>>
    BY <1>2 DEF Register, QueueDelayed
  <2>. QED
    BY <2>1
<1>3. CASE TimerFires
  BY <1>3 DEF TimerFires
<1>4. CASE WorkStarts \/ LockToScan \/ Visit \/ Unlock \/ WriteSample
  BY <1>4 DEF WorkStarts, LockToScan, Visit, Unlock, WriteSample
<1>5. CASE Requeue
  <2>1. (dwq' = dwq \/ dwq' = wq) /\ UNCHANGED <<mod, wq>>
    BY <1>5 DEF Requeue, QueueDelayed
  <2>. QED
    BY <2>1
<1>6. ASSUME NEW r \in Resources, Acquire(r) PROVE Pointers'
  BY <1>6, Acquires
<1>7. CASE InitLock \/ AllocateBuffer \/ RemoveFile
  BY <1>7 DEF InitLock, AllocateBuffer, RemoveFile
<1>8. CASE LoadFails
  BY <1>8, Jumps
<1>9. ASSUME NEW label \in Failing, Undo(label) PROVE Pointers'
  BY <1>9, Undoes
<1>10. CASE ExitSteps
  BY <1>10 DEF ExitSteps, FreeNode, ListFreed, CancelAll, CancelDelayed, FlushAll,
               DestroyQueue, DeleteDevice, FreeBuffer, ExitStep
<1>. QED
  BY <1>1, <1>2, <1>3, <1>4, <1>5, <1>6, <1>7, <1>8, <1>9, <1>10
     DEF Step, HandlerStep, WorkStep, LoadStep, FailStep

\* The lock.
LEMMA ExclusionStep ==
  ASSUME TypeOK, Exclusion, Step
  PROVE  Exclusion'
<1> USE DEF Exclusion, Crash, delayed, unload
<1>1. ASSUME NEW p \in Proc,
             Write(p, "start", "register", "run") \/ Write(p, "run", "unregister", "end")
             \/ NoMemory(p)
      PROVE  Exclusion'
  BY <1>1 DEF Write, NoMemory, InSection, TypeOK
<1>2. ASSUME NEW p \in Proc, Lock(p) PROVE Exclusion'
  BY <1>2 DEF Lock, LockFree
<1>3. ASSUME NEW p \in Proc, Register(p) \/ Unregister(p) PROVE Exclusion'
  <2>1. app' = app \/ app' = [app EXCEPT ![p] = "run"] \/ app' = [app EXCEPT ![p] = "test"]
    BY <1>3 DEF Register, Unregister
  <2>2. work' = work
    BY <1>3 DEF Register, Unregister
  <2>. QED
    BY <2>1, <2>2 DEF InSection, TypeOK
<1>4. ASSUME NEW p \in Proc, TestEmpty(p) \/ Cancel(p) \/ Flush(p) \/ Free(p)
      PROVE  Exclusion'
  BY <1>4 DEF TestEmpty, Cancel, Flush, Free, InSection, TypeOK
<1>5. CASE TimerFires
  BY <1>5 DEF TimerFires
<1>6. CASE WorkStarts \/ Visit \/ Unlock \/ WriteSample \/ Requeue
  BY <1>6 DEF WorkStarts, Visit, Unlock, WriteSample, Requeue
<1>7. CASE LockToScan
  BY <1>7 DEF LockToScan, LockFree
<1>8. ASSUME NEW r \in Resources, Acquire(r) PROVE Exclusion'
  BY <1>8, Acquires
<1>9. CASE InitLock \/ AllocateBuffer \/ RemoveFile
  BY <1>9 DEF InitLock, AllocateBuffer, RemoveFile
<1>10. CASE LoadFails
  BY <1>10, Jumps
<1>11. ASSUME NEW label \in Failing, Undo(label) PROVE Exclusion'
  BY <1>11, Undoes
<1>12. CASE ExitSteps
  BY <1>12 DEF ExitSteps, FreeNode, ListFreed, CancelAll, FlushAll, DestroyQueue,
               DeleteDevice, FreeBuffer, ExitStep
<1>. QED
  BY <1>1, <1>2, <1>3, <1>4, <1>5, <1>6, <1>7, <1>8, <1>9, <1>10, <1>11, <1>12
     DEF Step, HandlerStep, WorkStep, LoadStep, FailStep

\* mp3_exit goes on without the file.
LEMMA FileGone ==
  ASSUME Owns, mod \in Leaving \cup {"gone"}
  PROVE  "file" \notin owned
<1>1. CASE mod \in {"free", "cancel", "flush", "destroy"}
  <2>1. owned \ {"buffer"} = {"workqueue", "region", "cdev", "first buffer"}
    BY <1>1 DEF Owns
  <2>2. "file" \notin owned \ {"buffer"}
    BY <2>1
  <2>. QED
    BY <2>2
<1>2. CASE mod = "device"
  <2>1. owned \ {"buffer"} = {"region", "cdev", "first buffer"}
    BY <1>2 DEF Owns
  <2>2. "file" \notin owned \ {"buffer"}
    BY <2>1
  <2>. QED
    BY <2>2
<1>3. CASE mod \in {"vfree", "gone"}
  <2>1. owned \ {"buffer"} = {"first buffer"}
    BY <1>3 DEF Owns
  <2>2. "file" \notin owned \ {"buffer"}
    BY <2>1
  <2>. QED
    BY <2>2
<1>. QED
  BY <1>1, <1>2, <1>3 DEF Leaving

\* Once mp3_exit has removed the file, only mp3_exit changes the list.
LEMMA FreeingStep ==
  ASSUME TypeOK, Owns, Handlers, Freeing, Step
  PROVE  Freeing'
<1> USE DEF Freeing, Crash, delayed, unload
<1>1. ASSUME NEW p \in Proc, Register(p) \/ Unregister(p) PROVE Freeing'
  <2>1. "file" \in owned /\ mod' = mod
    BY <1>1 DEF Register, Unregister, Handlers, InHandler, InSection
  <2>. QED
    BY <2>1, FileGone DEF Leaving
<1>2. ASSUME NEW p \in Proc,
             Write(p, "start", "register", "run") \/ Write(p, "run", "unregister", "end")
             \/ NoMemory(p) \/ Lock(p) \/ TestEmpty(p) \/ Cancel(p) \/ Flush(p) \/ Free(p)
      PROVE  Freeing'
  BY <1>2 DEF Write, NoMemory, Lock, TestEmpty, Cancel, Flush, Free, First
<1>3. CASE TimerFires \/ WorkStep
  BY <1>3 DEF TimerFires, WorkStep, WorkStarts, LockToScan, Visit, Unlock, WriteSample, Requeue,
              First
<1>4. ASSUME NEW r \in Resources, Acquire(r) PROVE Freeing'
  BY <1>4, Acquires DEF Leaving
<1>5. CASE InitLock \/ AllocateBuffer
  BY <1>5 DEF InitLock, AllocateBuffer, Leaving
<1>10. CASE LoadFails
  BY <1>10, Jumps DEF Leaving
<1>11. ASSUME NEW label \in Failing, Undo(label) PROVE Freeing'
  BY <1>11, Undoes DEF Leaving
<1>6. CASE RemoveFile
  BY <1>6 DEF RemoveFile, First
<1>7. CASE FreeNode
  BY <1>7, FreeingNode
<1>8. CASE ListFreed
  BY <1>8, ListOf DEF ListFreed, ExitStep
<1>9. CASE CancelAll \/ FlushAll \/ DestroyQueue \/ DeleteDevice \/ FreeBuffer
  BY <1>9 DEF CancelAll, FlushAll, DestroyQueue, DeleteDevice, FreeBuffer, ExitStep, Leaving
<1>. QED
  BY <1>1, <1>2, <1>3, <1>4, <1>5, <1>6, <1>7, <1>8, <1>9, <1>10, <1>11
     DEF Step, HandlerStep, LoadStep, FailStep, ExitSteps

\* The scan: handlers wait for it to unlock, mp3_exit does not.
LEMMA ScanningStep ==
  ASSUME TypeOK, Exclusion, Scanning, Step
  PROVE  Scanning'
<1> USE DEF Scanning, Crash, delayed, unload
<1>1. ASSUME NEW p \in Proc, Register(p) \/ Unregister(p) PROVE Scanning'
  BY <1>1 DEF Register, Unregister, Exclusion, InSection, Bad, Linked
<1>2. ASSUME NEW p \in Proc,
             Write(p, "start", "register", "run") \/ Write(p, "run", "unregister", "end")
             \/ NoMemory(p) \/ Lock(p) \/ TestEmpty(p) \/ Cancel(p) \/ Flush(p) \/ Free(p)
      PROVE  Scanning'
  BY <1>2 DEF Write, NoMemory, Lock, TestEmpty, Cancel, Flush, Free, Bad, Linked
<1>3. CASE TimerFires
  BY <1>3 DEF TimerFires, Bad, Linked
<1>4. CASE LockToScan
  BY <1>4, ListOf DEF LockToScan, Bad, Linked
<1>5. CASE Visit
  <2>1. CASE oops'
    BY <1>5, <2>1 DEF Visit, Step, Bad, Linked
  <2>2. CASE ~oops'
    <3>1. /\ tmp \in Range(list) /\ tmp' = After(list, tmp)
          /\ UNCHANGED <<list, work, mod, races>>
      BY <1>5, <2>2 DEF Visit, Bad, Linked
    <3>2. ~Bad(After(list, tmp))
      BY <3>1, ListOf
    <3>. QED
      BY <3>1, <3>2 DEF Bad, Linked
  <2>. QED
    BY <2>1, <2>2
<1>6. CASE WorkStarts \/ Unlock \/ WriteSample \/ Requeue
  BY <1>6 DEF WorkStarts, Unlock, WriteSample, Requeue, Bad, Linked
<1>7. ASSUME NEW r \in Resources, Acquire(r) PROVE Scanning'
  BY <1>7, Acquires DEF Bad, Linked
<1>8. CASE InitLock \/ AllocateBuffer \/ RemoveFile
  BY <1>8 DEF InitLock, AllocateBuffer, RemoveFile, Bad, Linked
<1>11. CASE LoadFails
  BY <1>11, Jumps DEF Bad, Linked
<1>12. ASSUME NEW label \in Failing, Undo(label) PROVE Scanning'
  BY <1>12, Undoes DEF Bad, Linked
<1>9. CASE FreeNode
  BY <1>9 DEF FreeNode
<1>10. CASE ListFreed \/ CancelAll \/ FlushAll \/ DestroyQueue \/ DeleteDevice \/ FreeBuffer
  BY <1>10 DEF ListFreed, CancelAll, FlushAll, DestroyQueue, DeleteDevice, FreeBuffer, ExitStep,
               Bad, Linked
<1>. QED
  BY <1>1, <1>2, <1>3, <1>4, <1>5, <1>6, <1>7, <1>8, <1>9, <1>10, <1>11, <1>12
     DEF Step, HandlerStep, WorkStep, LoadStep, FailStep, ExitSteps

\* While a process is on the list the work goes on.
LEMMA GoingStep ==
  ASSUME TypeOK, Owns, Handlers, Freeing, Going, Step
  PROVE  Going'
<1> USE DEF Going, Pending, Crash, delayed, unload
<1>1. ASSUME NEW p \in Proc,
             Write(p, "start", "register", "run") \/ Write(p, "run", "unregister", "end")
             \/ NoMemory(p) \/ Lock(p)
      PROVE  Going'
  BY <1>1 DEF Write, NoMemory, Lock, TypeOK
<1>2. ASSUME NEW p \in Proc, Register(p) PROVE Going'
  <2>1. CASE oops'
    BY <1>2, <2>1 DEF Register, Step
  <2>2. CASE ~oops'
    <3>1. SUFFICES ASSUME "late cancel" \notin races'
                   PROVE  /\ \/ timer' \/ queued' \/ work' # "idle"
                             \/ mod' \notin Loading \cup {"loaded"}
                          /\ \A q \in Proc : app'[q] # "cancel"
      BY DEF Going
    <3>2. /\ UNCHANGED <<queued, work, mod>> /\ app' = [app EXCEPT ![p] = "run"]
          /\ IF list = <<>> THEN QueueDelayed ELSE UNCHANGED timer
          /\ races' = IF list = <<>> /\ \E q \in Proc : app[q] = "cancel"
                      THEN races \cup {"late cancel"} ELSE races
      BY <1>2, <2>2, Registering DEF Step
    <3>3. "late cancel" \notin races /\ (list = <<>> => \A q \in Proc : app[q] # "cancel")
      BY <3>1, <3>2
    <3>4. \A q \in Proc : app[q] # "cancel"
      BY <3>3
    <3>5. timer' \/ queued' \/ work' # "idle" \/ mod' \notin Loading \cup {"loaded"}
      <4>1. CASE list = <<>>
        BY <3>2, <4>1 DEF QueueDelayed
      <4>2. CASE list # <<>>
        <5>1. timer' = timer
          BY <3>2, <4>2
        <5>2. mod \in Loading \cup {"loaded"} => timer \/ queued \/ work # "idle"
          BY <3>3, <4>2
        <5>. QED
          BY <3>2, <5>1, <5>2
      <4>. QED
        BY <4>1, <4>2
    <3>. QED
      BY <3>2, <3>4, <3>5 DEF TypeOK
  <2>. QED
    BY <2>1, <2>2
<1>3. ASSUME NEW p \in Proc, Unregister(p) PROVE Going'
  <2>1. CASE oops'
    BY <1>3, <2>1 DEF Unregister, Step
  <2>2. CASE ~oops'
    BY <1>3, <2>2, Unregistering DEF Step, TypeOK
  <2>. QED
    BY <2>1, <2>2
<1>4. ASSUME NEW p \in Proc, TestEmpty(p) \/ Flush(p) \/ Free(p) PROVE Going'
  BY <1>4 DEF TestEmpty, Flush, Free, TypeOK
<1>5. ASSUME NEW p \in Proc, Cancel(p) PROVE Going'
  BY <1>5 DEF Cancel, TypeOK
<1>6. CASE TimerFires
  BY <1>6 DEF TimerFires
<1>7. CASE WorkStep
  <2>1. UNCHANGED <<list, app, mod>> /\ races \subseteq races'
    BY <1>7 DEF WorkStep, WorkStarts, LockToScan, Visit, Unlock, WriteSample, Requeue
  <2>2. timer' \/ queued' \/ work' # "idle"
    <3>1. CASE WorkStarts \/ LockToScan \/ Unlock
      BY <3>1 DEF WorkStarts, LockToScan, Unlock
    <3>2. CASE Visit \/ WriteSample
      BY <3>2 DEF Visit, WriteSample
    <3>3. CASE Requeue
      <4>1. CASE Pending
        <5>1. timer' = timer /\ queued' = queued
          BY <3>3, <4>1 DEF Requeue, QueueDelayed
        <5>. QED
          BY <4>1, <5>1
      <4>2. CASE ~Pending
        BY <3>3, <4>2 DEF Requeue, QueueDelayed
      <4>. QED
        BY <4>1, <4>2
    <3>. QED
      BY <1>7, <3>1, <3>2, <3>3 DEF WorkStep
  <2>. QED
    BY <2>1, <2>2
<1>8. ASSUME NEW r \in Resources, Acquire(r) PROVE Going'
  BY <1>8, Acquires, LoadingIs
<1>9. CASE LoadFails
  BY <1>9, Jumps, LoadingIs
<1>14. ASSUME NEW label \in Failing, Undo(label) PROVE Going'
  BY <1>14, Undoes, LoadingIs
<1>15. CASE InitLock
  BY <1>15, LoadingIs DEF InitLock
<1>10. CASE AllocateBuffer
  BY <1>10, LoadingIs DEF AllocateBuffer
<1>11. CASE RemoveFile
  BY <1>11, LoadingIs DEF RemoveFile, InHandler
<1>12. CASE FreeNode
  <2>1. mod = "free" /\ UNCHANGED <<mod, app, races>>
    BY <1>12 DEF FreeNode
  <2>2. "file" \notin owned
    BY <2>1, FileGone DEF Leaving
  <2>3. \A p \in Proc : app[p] # "cancel"
    BY <2>2 DEF Handlers, InHandler
  <2>. QED
    BY <2>1, <2>3, LoadingIs
<1>13. CASE ListFreed \/ CancelAll \/ FlushAll \/ DestroyQueue \/ DeleteDevice \/ FreeBuffer
  BY <1>13, LoadingIs
     DEF ListFreed, CancelAll, FlushAll, DestroyQueue, DeleteDevice, FreeBuffer,
                          ExitStep
<1>. QED
  BY <1>1, <1>2, <1>3, <1>4, <1>5, <1>6, <1>7, <1>8, <1>9, <1>10, <1>11, <1>12, <1>13, <1>14, <1>15
     DEF Step, HandlerStep, LoadStep, FailStep, ExitSteps

\* Every step that follows a bad pointer is one of those named.
LEMMA CrashStep ==
  ASSUME IInv, Step
  PROVE  CrashesExplained'
<1> USE DEF Crash, delayed, unload
<1>1. SUFFICES ASSUME oops'
               PROVE  \/ \E p \in Proc : app'[p] = "nomem"
                      \/ mod' = "lockinit" /\ \E p \in Proc : app'[p] \in InSection
                      \/ /\ "workqueue" \notin owned'
                         /\ \E p \in Proc : app'[p] \in {"adding", "flush"}
                      \/ timer' /\ dwq' = "null"
                      \/ timer' /\ mod' \in {"out_proc_entry", "out_proc_dir", "failed",
                                             "device", "vfree", "gone"}
                      \/ \E p \in Proc : app'[p] = "removing" /\ p \notin Range(list')
                      \/ buffer' = "none" /\ work' = "write"
                      \/ "overlap" \in races'
  BY DEF CrashesExplained, Linked, Queue
<1>2. ~oops /\ TypeOK
  BY DEF Step, IInv
<1>3. ASSUME NEW p \in Proc, Unregister(p)
      PROVE  app'[p] = "removing" /\ p \notin Range(list')
  BY <1>1, <1>2, <1>3 DEF Unregister, Linked
<1>11. ASSUME NEW p \in Proc, Register(p) \/ Flush(p)
       PROVE  "workqueue" \notin owned' /\ app'[p] \in {"adding", "flush"}
  <2>1. CASE Register(p)
    BY <1>1, <1>2, <2>1 DEF Register, Queue
  <2>2. CASE Flush(p)
    BY <1>1, <1>2, <2>2 DEF Flush, Queue
  <2>. QED
    BY <1>11, <2>1, <2>2
<1>12. ASSUME NEW p \in Proc, NoMemory(p) PROVE app'[p] = "nomem"
  BY <1>2, <1>12 DEF NoMemory, TypeOK
<1>4. ASSUME NEW p \in Proc,
             Write(p, "start", "register", "run") \/ Write(p, "run", "unregister", "end")
             \/ Lock(p) \/ TestEmpty(p) \/ Cancel(p) \/ Free(p)
      PROVE  FALSE
  BY <1>1, <1>2, <1>4 DEF Write, Lock, TestEmpty, Cancel, Free
<1>5. ASSUME TimerFires
      PROVE  timer' /\ \/ dwq' = "null"
                       \/ mod' \in {"out_proc_entry", "out_proc_dir", "failed",
                                    "device", "vfree", "gone"}
  <2>1. /\ timer /\ timer' = timer /\ mod' = mod /\ dwq' = dwq
        /\ mod \in {"gone", "failed"} \/ dwq = "null" \/ "workqueue" \notin owned
    BY <1>1, <1>2, <1>5 DEF TimerFires, CodePresent, Queue
  <2>2. mod \notin {"loaded", "free", "cancel", "flush", "destroy"}
        \/ "workqueue" \in owned \ {"buffer"}
    BY DEF IInv, Owns
  <2>3. mod \notin {"region", "cdev", "vmalloc", "out_cdev", "out_chrdev_region",
                   "out_workqueue"}
        \/ "workqueue" \in owned
    BY DEF IInv, Owns
  <2>4. mod \in {"dir", "file", "lockinit", "workqueue"} => dwq = "null"
    BY DEF IInv, Pointers
  <2>5. mod \in Loading \cup Failing \cup {"loaded"} \cup Leaving \cup {"gone", "failed"}
    BY <1>2 DEF TypeOK
  <2>. QED
    BY <2>1, <2>2, <2>3, <2>4, <2>5, LoadingIs DEF Leaving, Failing
<1>6. ASSUME Visit
      PROVE  "overlap" \in races'
  BY <1>1, <1>2, <1>6 DEF Visit, IInv, Scanning
<1>7. ASSUME WriteSample
      PROVE  buffer' = "none" /\ work' = "write"
  <2>1. /\ work = "write" /\ buffer # "live" /\ UNCHANGED <<work, buffer>>
    BY <1>1, <1>2, <1>7 DEF WriteSample
  <2>2. buffer # "freed"
    <3>1. SUFFICES ASSUME buffer = "freed"
                   PROVE  FALSE
      OBVIOUS
    <3>2. owned = {"first buffer"}
      BY <3>1 DEF IInv, Owns
    <3>. QED
      BY <2>1, <3>2 DEF IInv, Queueing, Queue, Idle
  <2>. QED
    BY <1>2, <2>1, <2>2 DEF TypeOK
<1>8. ~(WorkStarts \/ LockToScan \/ Unlock \/ Requeue)
  BY <1>1, <1>2 DEF WorkStarts, LockToScan, Unlock, Requeue
<1>9. ~(LoadFails \/ AllocateBuffer \/ RemoveFile)
      /\ (\A r \in Resources : ~Acquire(r)) /\ (\A label \in Failing : ~Undo(label))
  BY <1>1, <1>2 DEF LoadFails, AllocateBuffer, RemoveFile, Acquire, Undo
<1>13. InitLock => mod' = "lockinit" /\ \E p \in Proc : app'[p] \in InSection
  BY <1>1, <1>2 DEF InitLock
<1>10. ~ExitSteps
  BY <1>1, <1>2 DEF ExitSteps, FreeNode, ListFreed, CancelAll, FlushAll, DestroyQueue,
                    DeleteDevice, FreeBuffer, ExitStep
<1>. QED
  BY <1>3, <1>4, <1>5, <1>6, <1>7, <1>8, <1>9, <1>10, <1>11, <1>12, <1>13
     DEF Step, HandlerStep, WorkStep, LoadStep, FailStep

-----------------------------------------------------------------------------
(* The theorems. *)

\* The invariant holds at first.
LEMMA Initially == Init => IInv
<1> SUFFICES ASSUME Init PROVE IInv
  OBVIOUS
<1>1. list = <<>> /\ Range(list) = {}
  BY DEF Init, Range
<1>2. list \in Seq(Proc) /\ IsInjective(list)
  BY <1>1 DEF IsInjective
<1>3. TypeOK
  BY <1>2, LoadingIs DEF Init, TypeOK, Node
<1>4. Owns /\ Queueing /\ Pointers /\ Exclusion /\ CrashesExplained
  BY DEF Init, Owns, Queueing, Idle, Pointers, Exclusion, CrashesExplained
<1>5. Handlers
  BY <1>1 DEF Init, Handlers, Linked, InHandler, InSection
<1>6. Freeing
  BY <1>1 DEF Init, Freeing
<1>7. Scanning /\ Going
  BY <1>1 DEF Init, Scanning, Going
<1>. QED
  BY <1>3, <1>4, <1>5, <1>6, <1>7 DEF IInv

\* Every step keeps it.
LEMMA Preserved == IInv /\ [Next]_vars => IInv'
<1> SUFFICES ASSUME IInv, [Next]_vars PROVE IInv'
  OBVIOUS
<1>1. CASE Step
  <2>1. /\ TypeOK /\ Owns /\ Handlers /\ Queueing /\ Pointers /\ Exclusion
        /\ Freeing /\ Scanning /\ Going
    BY DEF IInv
  <2>2. TypeOK' /\ Handlers'
    BY <1>1, <2>1, TypeStep, HandlersStep
  <2>3. Owns' /\ Queueing' /\ Pointers' /\ Exclusion'
    BY <1>1, <2>1, OwnsStep, QueueingStep, PointersStep, ExclusionStep
  <2>4. Freeing' /\ Scanning'
    BY <1>1, <2>1, FreeingStep, ScanningStep
  <2>5. Going'
    BY <1>1, <2>1, GoingStep
  <2>6. CrashesExplained'
    BY <1>1, CrashStep
  <2>. QED
    BY <2>2, <2>3, <2>4, <2>5, <2>6 DEF IInv
<1>2. CASE UNCHANGED vars
  <2> USE <1>2 DEF vars, delayed, unload, IInv
  <2>1. TypeOK'
    BY ZenonT(60) DEF TypeOK
  <2>2. Owns'
    <3>1. UNCHANGED <<mod, owned, buffer>> /\ Owns
      OBVIOUS
    <3>. HIDE DEF vars, delayed, unload, IInv
    <3>. QED
      BY ZenonT(60), <3>1 DEF Owns
  <2>3. Handlers' /\ Queueing' /\ Pointers' /\ Exclusion'
    BY DEF Handlers, Linked, Queueing, Queue, Idle, Pointers, Exclusion
  <2>4. Freeing' /\ Scanning'
    BY DEF Freeing, First, Scanning, Bad, Linked
  <2>5. Going' /\ CrashesExplained'
    BY DEF Going, Pending, CrashesExplained, Linked, Queue
  <2>. QED
    BY <2>1, <2>2, <2>3, <2>4, <2>5
<1>. QED
  BY <1>1, <1>2 DEF Next, Step

\* Types, what is owned, the workqueue, the list and its cursors, and the
\* explanation of every crash hold in every state.
THEOREM Inductive == Spec => []IInv
<1>. QED
  BY Initially, Preserved, PTL DEF Spec

\* With any number of processes that come and go, the sampling goes on while one
\* is registered, but for the one race.
THEOREM KeepsSampling == Spec => []SamplingGoesOn
<1>1. IInv => SamplingGoesOn
  BY DEF IInv, Going, SamplingGoesOn
<1>. QED
  BY <1>1, Inductive, PTL

\* The kernel follows a bad pointer, or loses its lock, in the cases of
\* CrashesExplained only, the allocations nobody tests among them.
THEOREM CrashCauses == Spec => []CrashesExplained
<1>1. IInv => CrashesExplained
  BY DEF IInv
<1>. QED
  BY <1>1, Inductive, PTL

\* From whichever call of mp3_init fails, the labels release what was acquired and
\* nothing else; a module that is gone has left nothing but the first buffer.
THEOREM AllReleased == Spec => []ResourcesReleased
<1>1. IInv => ResourcesReleased
  <2>1. ASSUME IInv, mod \in Failing PROVE Releases[mod] \in owned
    <3>1. Owns /\ mod \in {"out_cdev", "out_chrdev_region", "out_workqueue",
                           "out_proc_entry", "out_proc_dir"}
      BY <2>1 DEF IInv, Failing
    <3>2. /\ Releases["out_cdev"] = "cdev" /\ Releases["out_chrdev_region"] = "region"
          /\ Releases["out_workqueue"] = "workqueue"
          /\ Releases["out_proc_entry"] = "file" /\ Releases["out_proc_dir"] = "dir"
      BY DEF Releases
    <3>. QED
      BY <3>1, <3>2 DEF Owns
  <2>. QED
    BY <2>1 DEF IInv, Owns, ResourcesReleased
<1>. QED
  BY <1>1, Inductive, PTL

-----------------------------------------------------------------------------
(* The words of the ring and the samples they are of (mp3.c, monitor.c).     *)

\* Quotient and remainder,
LEMMA DivMod ==
  ASSUME NEW a \in Nat, NEW b \in Nat \ {0},
         NEW q \in Int, q = a \div b, NEW r \in Int, r = a % b
  PROVE  q \in Nat /\ r \in 0 .. b - 1 /\ a = b * q + r
<1>1. q \in Nat /\ r \in 0 .. b - 1
  OBVIOUS
<1>2. a = b * q + r
  OBVIOUS
<1> QED BY <1>1, <1>2

\* and that there are no others.
LEMMA DivModIs ==
  ASSUME NEW a \in Nat, NEW b \in Nat \ {0}, NEW q \in Nat, NEW r \in 0 .. b - 1, a = b * q + r,
         NEW u \in Int, u = a \div b, NEW v \in Int, v = a % b
  PROVE  u = q /\ v = r
<1>1. u \in Nat /\ v \in 0 .. b - 1 /\ a = b * u + v
  BY DivMod
<1>2. ASSUME u < q PROVE FALSE
  <2>1. b * (u + 1) <= b * q
    BY <1>1, <1>2
  <2>2. b * (u + 1) = b * u + b
    BY <1>1
  <2>3. b * u \in Nat /\ b * q \in Nat
    BY <1>1
  <2> QED BY <1>1, <2>1, <2>2, <2>3
<1>3. ASSUME q < u PROVE FALSE
  <2>1. b * (q + 1) <= b * u
    BY <1>1, <1>3
  <2>2. b * (q + 1) = b * q + b
    OBVIOUS
  <2>3. b * u \in Nat /\ b * q \in Nat
    BY <1>1
  <2> QED BY <1>1, <2>1, <2>2, <2>3
<1>4. u = q
  BY <1>1, <1>2, <1>3
<1>5. v = r
  <2>1. b * q \in Nat
    OBVIOUS
  <2> QED BY <1>1, <1>4, <2>1
<1> QED BY <1>4, <1>5

\* A word is told by its sample and its place in it.
LEMMA WordPlace ==
  ASSUME NEW w \in Nat
  PROVE  /\ Width \in Nat \ {0}
         /\ SlotOf(w) \in Nat /\ Offset(w) \in 0 .. Width - 1
         /\ w = Width * SlotOf(w) + Offset(w)
<1>1. Width \in Nat \ {0}
  BY WidthAssumption
<1>2. SlotOf(w) \in Int /\ Offset(w) \in Int
  BY <1>1 DEF SlotOf, Offset
<1>3. SlotOf(w) = w \div Width /\ Offset(w) = w % Width
  BY DEF SlotOf, Offset
<1>4. SlotOf(w) \in Nat /\ Offset(w) \in 0 .. Width - 1 /\ w = Width * SlotOf(w) + Offset(w)
  BY <1>1, <1>2, <1>3, DivMod
<1> QED BY <1>1, <1>4

\* There is no other word of this sample at this place.
LEMMA PlaceIs ==
  ASSUME NEW w \in Nat, NEW q \in Nat, NEW r \in 0 .. Width - 1, w = Width * q + r
  PROVE  SlotOf(w) = q /\ Offset(w) = r
<1>1. Width \in Nat \ {0}
  BY WidthAssumption
<1>2. SlotOf(w) \in Int /\ Offset(w) \in Int
  BY WordPlace
<1>3. SlotOf(w) = w \div Width /\ Offset(w) = w % Width
  BY DEF SlotOf, Offset
<1> QED BY <1>1, <1>2, <1>3, DivModIs

\* Two words at the same place are one.
LEMMA SameWord ==
  ASSUME NEW v \in Nat, NEW w \in Nat, SlotOf(v) = SlotOf(w), Offset(v) = Offset(w)
  PROVE  v = w
BY WordPlace

\* The word after one.
LEMMA NextWord ==
  ASSUME NEW w \in Nat
  PROVE  /\ Offset(w) = Width - 1 => SlotOf(w + 1) = SlotOf(w) + 1 /\ Offset(w + 1) = 0
         /\ Offset(w) # Width - 1 => /\ SlotOf(w + 1) = SlotOf(w)
                                     /\ Offset(w + 1) = Offset(w) + 1
<1> DEFINE q == SlotOf(w)
           r == Offset(w)
<1>1. Width \in Nat \ {0} /\ q \in Nat /\ r \in 0 .. Width - 1 /\ w = Width * q + r
  BY WordPlace
<1> HIDE DEF q, r
<1>2. CASE r = Width - 1
  <2>1. w + 1 = Width * q + Width
    <3>1. Width * q \in Nat
      BY <1>1
    <3> QED BY <1>1, <1>2, <3>1
  <2>2. Width * (q + 1) = Width * q + Width
    BY <1>1
  <2>3. w + 1 = Width * (q + 1) + 0
    BY <1>1, <2>1, <2>2
  <2>4. w + 1 \in Nat /\ q + 1 \in Nat /\ 0 \in 0 .. Width - 1
    BY <1>1
  <2>5. SlotOf(w + 1) = q + 1 /\ Offset(w + 1) = 0
    BY <1>1, <2>3, <2>4, PlaceIs
  <2> QED BY <1>2, <2>5 DEF q, r
<1>3. CASE r # Width - 1
  <2>1. r + 1 \in 0 .. Width - 1 /\ w + 1 \in Nat
    BY <1>1, <1>3
  <2>2. w + 1 = Width * q + (r + 1)
    <3>1. Width * q \in Nat
      BY <1>1
    <3> QED BY <1>1, <3>1
  <2>3. SlotOf(w + 1) = q /\ Offset(w + 1) = r + 1
    BY <1>1, <2>1, <2>2, PlaceIs
  <2> QED BY <1>3, <2>3 DEF q, r
<1> QED BY <1>2, <1>3

\* Words before the first of a sample are of samples before it.
LEMMA WordsBefore ==
  ASSUME NEW w \in Nat, NEW b \in Nat, Offset(b) = 0
  PROVE  w < b <=> SlotOf(w) < SlotOf(b)
<1> DEFINE q == SlotOf(w)
           r == Offset(w)
           m == SlotOf(b)
<1>1. /\ Width \in Nat \ {0} /\ q \in Nat /\ r \in 0 .. Width - 1 /\ w = Width * q + r
      /\ m \in Nat /\ b = Width * m
  <2>1. m \in Nat /\ Width \in Nat \ {0} /\ b = Width * m + Offset(b)
    BY WordPlace
  <2>2. Width \in Nat \ {0} /\ q \in Nat /\ r \in 0 .. Width - 1 /\ w = Width * q + r
    BY WordPlace
  <2> HIDE DEF q, r, m
  <2>3. Width * m \in Nat
    BY <2>1
  <2> QED BY <2>1, <2>2, <2>3
<1> HIDE DEF q, r, m
<1>2. ASSUME q < m PROVE w < b
  <2>1. Width * (q + 1) <= Width * m
    BY <1>1, <1>2
  <2>2. Width * (q + 1) = Width * q + Width /\ Width * q \in Nat
    BY <1>1
  <2> QED BY <1>1, <2>1, <2>2
<1>3. ASSUME m <= q PROVE b <= w
  <2>1. Width * m <= Width * q
    BY <1>1, <1>3
  <2>2. Width * q \in Nat /\ Width * m \in Nat
    BY <1>1
  <2> QED BY <1>1, <2>1, <2>2
<1> QED BY <1>1, <1>2, <1>3 DEF q, m

\* The bounds of the ring and of what the monitor reads, in words.
LEMMA RingFacts ==
  /\ Width \in Nat \ {0} /\ PROFILER_BUFFER_LEN \in Nat /\ BUFD_MAX \in Nat \ {0}
  /\ MaxSamples \in Nat /\ BUFD_MAX < PROFILER_BUFFER_LEN
  /\ Offset(0) = 0 /\ SlotOf(0) = 0
  /\ Offset(PROFILER_BUFFER_LEN) = 0 /\ Offset(BUFD_MAX) = 0
<1>1. Width \in Nat \ {0}
  BY WidthAssumption
<1>2. Offset(PROFILER_BUFFER_LEN) = 0 /\ Offset(BUFD_MAX) = 0
  BY RingAssumption DEF Offset
<1>3. SlotOf(0) = 0 /\ Offset(0) = 0
  <2>1. 0 = Width * 0 + 0 /\ 0 \in 0 .. Width - 1 /\ 0 \in Nat
    BY <1>1
  <2> QED BY <2>1, PlaceIs
<1> QED BY <1>1, <1>2, <1>3, RingAssumption

\* The word the module writes after one.
LEMMA NextInRing ==
  ASSUME NEW w \in Word
  PROVE  /\ (w + 1) % PROFILER_BUFFER_LEN
              = IF w + 1 = PROFILER_BUFFER_LEN THEN 0 ELSE w + 1
         /\ w + 1 = PROFILER_BUFFER_LEN => Offset(w) = Width - 1
<1>1. w \in Nat /\ w < PROFILER_BUFFER_LEN /\ PROFILER_BUFFER_LEN \in Nat \ {0}
  BY RingFacts DEF Word
<1>2. CASE w + 1 = PROFILER_BUFFER_LEN
  <2>1. Offset(w + 1) = 0
    BY <1>2, RingFacts
  <2>2. Offset(w) = Width - 1
    BY <1>1, <2>1, NextWord, WordPlace
  <2>3. (w + 1) % PROFILER_BUFFER_LEN = 0
    <3>1. \A b \in Nat \ {0} : b % b = 0
      OBVIOUS
    <3> QED BY <1>1, <1>2, <3>1
  <2> QED BY <1>2, <2>2, <2>3
<1>3. CASE w + 1 # PROFILER_BUFFER_LEN
  <2>1. \A a \in Nat, b \in Nat \ {0} : a < b => a % b = a
    OBVIOUS
  <2>2. w + 1 \in Nat /\ w + 1 < PROFILER_BUFFER_LEN
    BY <1>1, <1>3
  <2> QED BY <1>1, <1>3, <2>1, <2>2
<1> QED BY <1>2, <1>3

-----------------------------------------------------------------------------
(* SampleBuffer: no word is printed twice.                                   *)

\* The row that is printed grows while it is, and is empty otherwise.
Row ==
  /\ monitor \in {"idle", "scan", "test"} => printed = <<>>
  /\ monitor = "print" => Len(printed) < Width
  /\ monitor = "clear" => printed # <<>>

\* The module is at the word that is to be written next, of a sample that was begun.
AtWord ==
  /\ Offset(profiler_ptr) = IF written = Width THEN 0 ELSE written
  /\ written # Width => samples # 0

\* A word that was written: of an earlier sample, or written already.
WasWritten(x) ==
  x[2] \in 0 .. Width - 1 /\ x[1] <= samples /\ (x[1] = samples => x[2] < written)

\* What a word of the ring is.
WordAt(w) == <<profiler_buffer[w], Offset(w)>>

\* The words of samples in the ring were written, each once.
InRing ==
  /\ \A w \in Word : profiler_buffer[w] \in Sample => WasWritten(WordAt(w))
  /\ \A v, w \in Word : profiler_buffer[v] \in Sample /\ WordAt(v) = WordAt(w) => v = w

\* x is the j-th word of the r-th row.
Shown(r, j, x) ==
  \/ r \in DOMAIN rows /\ j \in DOMAIN rows[r] /\ x = rows[r][j]
  \/ r = Len(rows) + 1 /\ j \in DOMAIN printed /\ x = printed[j]

\* The words of samples that were printed were written, each was printed once, and it
\* is in the ring no more, but for the one that is being cleared.
Output ==
  /\ \A r, j, x : Shown(r, j, x) /\ x[1] \in Sample => WasWritten(x)
  /\ \A r, s, j, k, x : Shown(r, j, x) /\ Shown(s, k, x) /\ x[1] \in Sample => r = s /\ j = k
  /\ \A w \in Word : \A r, j : Shown(r, j, WordAt(w)) /\ profiler_buffer[w] \in Sample =>
       monitor = "clear" /\ w = index

RingInv == RingTypeOK /\ Row /\ AtWord /\ InRing /\ Output

\* The types that the steps work on.
LEMMA RingTypes ==
  ASSUME RingTypeOK
  PROVE  /\ samples \in Nat /\ written \in Nat /\ written <= Width
         /\ profiler_ptr \in Word /\ index \in Word /\ index \in Nat
         /\ Len(printed) \in Nat /\ Len(rows) \in Nat
         /\ \A w \in Word : w \in Nat /\ Offset(w) \in 0 .. Width - 1
         /\ Clear \notin Sample
<1>1. \A w \in Word : w \in Nat /\ Offset(w) \in 0 .. Width - 1
  BY WordPlace DEF Word
<1> QED BY <1>1, RingFacts DEF RingTypeOK, Word, Clear, Sample

\* The words of the rows that were printed, one after the other.
LEMMA OutputOnce == RingTypeOK /\ Output => NoWordTwice
<1> SUFFICES ASSUME RingTypeOK, Output,
                    NEW r \in DOMAIN Append(rows, printed), NEW s \in DOMAIN Append(rows, printed),
                    NEW j \in DOMAIN Append(rows, printed)[r],
                    NEW k \in DOMAIN Append(rows, printed)[s],
                    Append(rows, printed)[r][j] = Append(rows, printed)[s][k],
                    Append(rows, printed)[r][j][1] \in Sample
             PROVE  r = s /\ j = k
  BY DEF NoWordTwice
<1> DEFINE all == Append(rows, printed)
<1>1. ASSUME NEW t \in DOMAIN all, NEW l \in DOMAIN all[t] PROVE Shown(t, l, all[t][l])
  <2>1. Len(rows) \in Nat /\ DOMAIN rows = 1 .. Len(rows)
    BY DEF RingTypeOK
  <2>2. t \in 1 .. Len(rows) + 1
    BY <2>1 DEF RingTypeOK
  <2>3. CASE t \in 1 .. Len(rows)
    <3>1. all[t] = rows[t]
      BY <2>3 DEF RingTypeOK
    <3> QED BY <2>1, <2>3, <3>1 DEF Shown
  <2>4. CASE t = Len(rows) + 1
    <3>1. all[t] = printed
      BY <2>4 DEF RingTypeOK
    <3> QED BY <2>4, <3>1 DEF Shown
  <2> QED BY <2>1, <2>2, <2>3, <2>4
<1>2. Shown(r, j, all[r][j]) /\ Shown(s, k, all[s][k])
  BY <1>1
<1> QED BY <1>2 DEF Output

\* The initial states.
LEMMA RingInitInv == RingInit => RingInv
<1> SUFFICES ASSUME RingInit PROVE RingInv
  OBVIOUS
<1>1. PICK old \in [0 .. SlotOf(PROFILER_BUFFER_LEN) - 1 -> {Clear, Junk}] :
        profiler_buffer = [w \in Word |-> old[SlotOf(w)]]
  BY DEF RingInit
<1>2. /\ samples = 0 /\ written = Width /\ profiler_ptr = 0
      /\ monitor = "idle" /\ index = 0 /\ printed = <<>> /\ rows = <<>> /\ due = 0
      /\ crossed = FALSE
  BY DEF RingInit
<1>3. \A w \in Word : profiler_buffer[w] \in {Clear, Junk}
  <2> SUFFICES ASSUME NEW w \in Word PROVE SlotOf(w) \in 0 .. SlotOf(PROFILER_BUFFER_LEN) - 1
    BY <1>1
  <2>1. w \in Nat /\ w < PROFILER_BUFFER_LEN
    BY RingFacts DEF Word
  <2>2. SlotOf(w) < SlotOf(PROFILER_BUFFER_LEN)
    BY <2>1, RingFacts, WordsBefore
  <2>3. SlotOf(w) \in Nat /\ SlotOf(PROFILER_BUFFER_LEN) \in Nat
    BY <2>1, RingFacts, WordPlace
  <2> QED BY <2>2, <2>3
<1>4. RingTypeOK
  <2>1. profiler_buffer \in [Word -> Content]
    BY <1>1, <1>3 DEF Content
  <2>2. 0 \in Word /\ Width \in 0 .. Width /\ 0 \in 0 .. BUFD_MAX /\ 0 \in 0 .. MaxSamples
    BY RingFacts DEF Word
  <2>3. <<>> \in Seq(Content \X (0 .. Width - 1)) /\ Len(<<>>) <= Width
        /\ <<>> \in Seq(Seq(Content \X (0 .. Width - 1)))
    BY RingFacts
  <2> QED BY <1>2, <2>1, <2>2, <2>3 DEF RingTypeOK
<1>5. Row /\ AtWord
  BY <1>2, RingFacts DEF Row, AtWord
<1>6. InRing
  <2>1. \A w \in Word : profiler_buffer[w] \notin Sample
    BY <1>3 DEF Sample, Clear, Junk
  <2> QED BY <2>1 DEF InRing
<1>7. Output
  <2>1. \A r, j, x : ~Shown(r, j, x)
    BY <1>2 DEF Shown
  <2> QED BY <2>1 DEF Output
<1> QED BY <1>4, <1>5, <1>6, <1>7 DEF RingInv

\* A sample begins when the last one is complete.
LEMMA BeginInv == RingInv /\ Begin => RingInv'
<1> SUFFICES ASSUME RingInv, Begin PROVE RingInv'
  OBVIOUS
<1>1. /\ written = Width /\ samples < MaxSamples /\ samples' = samples + 1 /\ written' = 0
      /\ UNCHANGED <<profiler_buffer, profiler_ptr, monitor, index, printed, rows, due>>
      /\ crossed' = (crossed \/ (monitor # "idle" /\ samples > due))
  BY DEF Begin, reader
<1>2. samples \in Nat /\ Width \in Nat \ {0} /\ MaxSamples \in Nat
  BY RingTypes, RingFacts DEF RingInv
<1>3. RingTypeOK'
  BY <1>1, <1>2 DEF RingInv, RingTypeOK
<1>4. Row' /\ AtWord'
  BY <1>1, <1>2 DEF RingInv, Row, AtWord
<1>5. \A x : x[1] \in Sample /\ WasWritten(x) => WasWritten(x)'
  BY <1>1, <1>2 DEF WasWritten, Sample
<1>6. /\ \A w \in Word : WordAt(w)' = WordAt(w) /\ WordAt(w)[1] = profiler_buffer[w]
      /\ \A r, j, x : Shown(r, j, x)' <=> Shown(r, j, x)
  BY <1>1 DEF WordAt, Shown
<1>7. InRing'
  BY <1>1, <1>5, <1>6 DEF RingInv, InRing
<1>8. Output'
  BY <1>1, <1>5, <1>6 DEF RingInv, Output
<1> QED BY <1>3, <1>4, <1>7, <1>8 DEF RingInv

\* A word is written that was not.
LEMMA StoreInv == RingInv /\ Store => RingInv'
<1> SUFFICES ASSUME RingInv, Store PROVE RingInv'
  OBVIOUS
<1>1. /\ written < Width /\ written' = written + 1
      /\ profiler_buffer' = [profiler_buffer EXCEPT ![profiler_ptr] = samples]
      /\ profiler_ptr' = (profiler_ptr + 1) % PROFILER_BUFFER_LEN
      /\ crossed' = (crossed \/ SeenByMonitor(profiler_ptr))
      /\ UNCHANGED <<samples, monitor, index, printed, rows, due>>
  BY DEF Store, reader
<1>2. /\ samples \in Nat /\ written \in Nat /\ profiler_ptr \in Word /\ profiler_ptr \in Nat
      /\ Width \in Nat \ {0} /\ PROFILER_BUFFER_LEN \in Nat
  BY RingTypes, RingFacts DEF RingInv
<1>3. profiler_ptr' = IF profiler_ptr + 1 = PROFILER_BUFFER_LEN THEN 0 ELSE profiler_ptr + 1
  BY <1>1, <1>2, NextInRing
<1>4. Offset(profiler_ptr) = written /\ samples # 0
  BY <1>1, <1>2 DEF RingInv, AtWord
<1>5. RingTypeOK'
  <2>1. samples \in Content
    BY <1>2 DEF RingInv, RingTypeOK, Content, Sample, Junk
  <2>2. profiler_buffer' \in [Word -> Content]
    BY <1>1, <2>1 DEF RingInv, RingTypeOK
  <2>3. profiler_ptr' \in Word
    BY <1>2, <1>3 DEF Word
  <2>4. written' \in 0 .. Width
    BY <1>1, <1>2
  <2>5. crossed' \in BOOLEAN
    BY <1>1 DEF RingInv, RingTypeOK, SeenByMonitor
  <2> QED BY <1>1, <2>2, <2>3, <2>4, <2>5 DEF RingInv, RingTypeOK
<1>6. Row'
  BY <1>1 DEF RingInv, Row
<1>7. AtWord'
  <2>1. CASE written = Width - 1
    <3>1. Offset(profiler_ptr + 1) = 0 /\ Offset(0) = 0
      BY <1>2, <1>4, <2>1, NextWord, RingFacts
    <3>2. Offset(profiler_ptr') = 0
      BY <1>3, <3>1
    <3> QED BY <1>1, <1>2, <1>4, <2>1, <3>2 DEF AtWord, Offset
  <2>2. CASE written # Width - 1
    <3>1. Offset(profiler_ptr + 1) = written + 1
      BY <1>2, <1>4, <2>2, NextWord
    <3>2. profiler_ptr' = profiler_ptr + 1
      BY <1>2, <1>3, <1>4, <2>2, NextInRing
    <3> QED BY <1>1, <1>2, <1>4, <2>2, <3>1, <3>2 DEF AtWord, Offset
  <2> QED BY <2>1, <2>2
<1>8. \A x : x[1] \in Sample /\ WasWritten(x) => WasWritten(x)'
  BY <1>1, <1>2 DEF WasWritten
<1> DEFINE new == <<samples, written>>
<1>9. /\ \A w \in Word \ {profiler_ptr} : /\ WordAt(w)' = WordAt(w)
                                          /\ profiler_buffer'[w] = profiler_buffer[w]
      /\ WordAt(profiler_ptr)[2] = written
      /\ profiler_buffer'[profiler_ptr] = samples
      /\ \A w \in Word : w = profiler_ptr => WordAt(w)' = new
      /\ \A w \in Word : WordAt(w)[1] = profiler_buffer[w]
  BY <1>1, <1>2, <1>4 DEF WordAt, RingInv, RingTypeOK
<1>10. \A r, j, x : Shown(r, j, x)' <=> Shown(r, j, x)
  BY <1>1 DEF Shown
<1>11. ~WasWritten(new)
  BY <1>2 DEF WasWritten
<1>12. \A x : x = new => WasWritten(x)'
  <2>1. written \in 0 .. Width - 1
    BY <1>1, <1>2
  <2> QED BY <1>1, <1>2, <2>1 DEF WasWritten
<1> HIDE DEF new
<1>13. InRing'
  <2>1. ASSUME NEW w \in Word, profiler_buffer'[w] \in Sample PROVE WasWritten(WordAt(w))'
    <3>1. CASE w = profiler_ptr
      BY <1>9, <1>12, <3>1
    <3>2. ASSUME NEW x, x = WordAt(w), w # profiler_ptr PROVE WasWritten(x)'
      <4>1. x[1] \in Sample /\ WasWritten(x)
        BY <1>9, <2>1, <3>2 DEF RingInv, InRing
      <4> QED BY <1>8, <4>1
    <3> QED BY <1>9, <3>1, <3>2
  <2>2. ASSUME NEW v \in Word, NEW w \in Word, profiler_buffer'[v] \in Sample,
               WordAt(v)' = WordAt(w)'
        PROVE  v = w
    <3>1. \A u \in Word \ {profiler_ptr} : profiler_buffer[u] \in Sample => WordAt(u) # new
      BY <1>11 DEF RingInv, InRing
    <3>2. WordAt(v)'[1] = profiler_buffer'[v] /\ WordAt(w)'[1] = profiler_buffer'[w]
      BY DEF WordAt
    <3>3. profiler_buffer'[w] \in Sample
      BY <2>2, <3>2
    <3>4. CASE v # profiler_ptr /\ w # profiler_ptr
      BY <1>9, <2>2, <3>4 DEF RingInv, InRing
    <3>5. CASE v = profiler_ptr /\ w # profiler_ptr
      BY <1>9, <2>2, <3>1, <3>3, <3>5
    <3>6. CASE v # profiler_ptr /\ w = profiler_ptr
      BY <1>9, <2>2, <3>1, <3>6
    <3> QED BY <3>4, <3>5, <3>6
  <2> QED BY <2>1, <2>2 DEF InRing
<1>14. Output'
  <2>1. \A r, j, x : Shown(r, j, x)' /\ x[1] \in Sample => WasWritten(x)'
    BY <1>8, <1>10 DEF RingInv, Output
  <2>2. \A r, s, j, k, x : Shown(r, j, x)' /\ Shown(s, k, x)' /\ x[1] \in Sample => r = s /\ j = k
    BY <1>10 DEF RingInv, Output
  <2>3. ASSUME NEW w \in Word, NEW r, NEW j, Shown(r, j, WordAt(w)'), profiler_buffer'[w] \in Sample
        PROVE  monitor = "clear" /\ w = index
    <3>1. CASE w = profiler_ptr
      <4>1. Shown(r, j, new) /\ new[1] \in Sample
        BY <1>9, <2>3, <3>1 DEF new
      <4> QED BY <1>11, <4>1 DEF RingInv, Output
    <3>2. CASE w # profiler_ptr
      BY <1>9, <2>3, <3>2 DEF RingInv, Output
    <3> QED BY <3>1, <3>2
  <2>4. \A w \in Word : \A r, j : Shown(r, j, WordAt(w))' /\ profiler_buffer'[w] \in Sample =>
          monitor' = "clear" /\ w = index'
    BY <1>1, <2>3 DEF Shown
  <2> QED BY <2>1, <2>2, <2>4 DEF Output
<1> QED BY <1>5, <1>6, <1>7, <1>13, <1>14 DEF RingInv

\* A step of the monitor that prints nothing and clears nothing.
LEMMA QuietInv ==
  ASSUME RingInv, UNCHANGED <<profiler_buffer, samples, written, profiler_ptr, printed, rows>>,
         RingTypeOK', printed = <<>> \/ monitor' = "print", monitor # "clear", monitor' # "clear",
         monitor' = "print" => Len(printed) < Width
  PROVE  RingInv'
<1>1. /\ \A x : WasWritten(x)' <=> WasWritten(x)
      /\ \A w : WordAt(w)' = WordAt(w)
      /\ \A r, j, x : Shown(r, j, x)' <=> Shown(r, j, x)
  BY DEF WasWritten, WordAt, Shown
<1>2. Row' /\ AtWord'
  BY DEF RingInv, Row, AtWord, RingTypeOK
<1>3. InRing' /\ Output'
  BY <1>1 DEF RingInv, InRing, Output
<1> QED BY <1>2, <1>3 DEF RingInv

\* The monitor starts, searches, and finds words or stops.
LEMMA SearchInv == RingInv /\ (Start \/ Scan \/ Test) => RingInv'
<1> SUFFICES ASSUME RingInv, Start \/ Scan \/ Test PROVE RingInv'
  OBVIOUS
<1>1. /\ UNCHANGED <<profiler_buffer, samples, written, profiler_ptr, printed, rows>>
      /\ monitor \in {"idle", "scan", "test"}
      /\ monitor' \in {"idle", "scan", "test", "print"}
  BY DEF Start, Scan, Test, writer
<1>2. printed = <<>> /\ Len(printed) < Width
  BY <1>1, RingFacts DEF RingInv, Row
<1>3. index' \in 0 .. BUFD_MAX /\ due' \in 0 .. MaxSamples /\ crossed' \in BOOLEAN
  <2>1. CASE Start
    <3>1. index' = 0 /\ due' = Complete /\ crossed' = crossed
      BY <2>1 DEF Start
    <3>2. Complete \in 0 .. MaxSamples
      <4>1. samples \in 0 .. MaxSamples /\ (written # Width => samples # 0) /\ MaxSamples \in Nat
        BY RingFacts DEF RingInv, RingTypeOK, AtWord
      <4> QED BY <4>1 DEF Complete
    <3> QED BY <3>1, <3>2, RingFacts DEF RingInv, RingTypeOK
  <2>2. CASE Scan \/ Test
    <3>1. /\ due' = due /\ crossed' = (crossed \/ BeingWritten(index))
          /\ index' = index \/ (index < BUFD_MAX /\ index' = index + 1)
      BY <2>2 DEF Scan, Test, Looks
    <3>2. crossed' \in BOOLEAN
      BY <3>1 DEF RingInv, RingTypeOK
    <3> QED BY <3>1, <3>2, RingFacts DEF RingInv, RingTypeOK
  <2> QED BY <2>1, <2>2
<1>4. RingTypeOK'
  BY <1>1, <1>3 DEF RingInv, RingTypeOK
<1> QED BY <1>1, <1>2, <1>4, QuietInv

\* A word is printed that was not.
LEMMA PrintInv == RingInv /\ PrintWord => RingInv'
<1> SUFFICES ASSUME RingInv, PrintWord PROVE RingInv'
  OBVIOUS
<1> DEFINE new == WordAt(index)
<1>1. /\ monitor = "print" /\ monitor' = "clear" /\ printed' = Append(printed, new)
      /\ UNCHANGED <<profiler_buffer, samples, written, profiler_ptr, index, rows, due>>
      /\ crossed' = (crossed \/ BeingWritten(index))
  BY DEF PrintWord, Looks, writer, WordAt
<1>2. /\ index \in Word /\ Offset(index) \in 0 .. Width - 1 /\ Len(printed) \in Nat
      /\ Len(rows) \in Nat /\ Len(printed) < Width /\ Width \in Nat \ {0}
  BY <1>1, RingTypes, RingFacts DEF RingInv, Row
<1>3. new \in Content \X (0 .. Width - 1) /\ new[1] = profiler_buffer[index]
  BY <1>2 DEF RingInv, RingTypeOK, WordAt
<1> HIDE DEF new
<1>4. /\ printed' \in Seq(Content \X (0 .. Width - 1)) /\ Len(printed') = Len(printed) + 1
      /\ \A j \in 1 .. Len(printed) : printed'[j] = printed[j]
      /\ printed'[Len(printed) + 1] = new
  BY <1>1, <1>3 DEF RingInv, RingTypeOK
<1>5. RingTypeOK'
  <2>1. crossed' \in BOOLEAN
    BY <1>1 DEF RingInv, RingTypeOK
  <2>2. Len(printed') <= Width
    BY <1>2, <1>4
  <2> QED BY <1>1, <1>4, <2>1, <2>2 DEF RingInv, RingTypeOK
<1>6. Row' /\ AtWord'
  <2>1. printed' # <<>>
    BY <1>2, <1>4
  <2> QED BY <1>1, <2>1 DEF RingInv, Row, AtWord, Offset
<1>7. /\ \A x : WasWritten(x)' <=> WasWritten(x)
      /\ \A w : WordAt(w)' = WordAt(w)
  BY <1>1 DEF WasWritten, WordAt
<1>8. InRing'
  BY <1>1, <1>7 DEF RingInv, InRing
<1>9. \A r, j, x : Shown(r, j, x)' =>
        Shown(r, j, x) \/ (r = Len(rows) + 1 /\ j = Len(printed) + 1 /\ x = new)
  <2> SUFFICES ASSUME NEW r, NEW j, NEW x, Shown(r, j, x)'
               PROVE  Shown(r, j, x) \/ (r = Len(rows) + 1 /\ j = Len(printed) + 1 /\ x = new)
    OBVIOUS
  <2>1. CASE r \in DOMAIN rows /\ j \in DOMAIN rows[r] /\ x = rows[r][j]
    BY <2>1 DEF Shown
  <2>2. CASE r = Len(rows) + 1 /\ j \in DOMAIN printed' /\ x = printed'[j]
    <3>1. /\ DOMAIN printed' = 1 .. Len(printed) + 1 /\ DOMAIN printed = 1 .. Len(printed)
      BY <1>4 DEF RingInv, RingTypeOK
    <3>2. j \in 1 .. Len(printed) \/ j = Len(printed) + 1
      BY <1>2, <2>2, <3>1
    <3> QED BY <1>4, <2>2, <3>1, <3>2 DEF Shown
  <2> QED BY <1>1, <2>1, <2>2 DEF Shown
<1>10. new[1] \in Sample => WasWritten(new) /\ \A r, j : ~Shown(r, j, new)
  BY <1>1, <1>2, <1>3 DEF RingInv, InRing, Output, new
<1>11. Output'
  <2>1. \A r, j, x : Shown(r, j, x)' /\ x[1] \in Sample => WasWritten(x)'
    BY <1>7, <1>9, <1>10 DEF RingInv, Output
  <2>2. \A r, s, j, k, x : Shown(r, j, x)' /\ Shown(s, k, x)' /\ x[1] \in Sample => r = s /\ j = k
    <3> SUFFICES ASSUME NEW r, NEW s, NEW j, NEW k, NEW x,
                        Shown(r, j, x)', Shown(s, k, x)', x[1] \in Sample
                 PROVE  r = s /\ j = k
      OBVIOUS
    <3>1. CASE x = new
      BY <1>9, <1>10, <3>1
    <3>2. CASE x # new
      BY <1>9, <3>2 DEF RingInv, Output
    <3> QED BY <3>1, <3>2
  <2>3. ASSUME NEW w \in Word, NEW r, NEW j, Shown(r, j, WordAt(w))', profiler_buffer[w] \in Sample
        PROVE  w = index
    <3>1. \/ Shown(r, j, WordAt(w))
          \/ WordAt(w) = new
      <4>1. ASSUME NEW x, x = WordAt(w), Shown(r, j, x)' PROVE Shown(r, j, x) \/ x = new
        BY <1>9, <4>1
      <4>2. \A x : x = WordAt(w) => Shown(r, j, x)'
        BY <1>7, <2>3 DEF Shown
      <4> QED BY <4>1, <4>2
    <3>2. ~Shown(r, j, WordAt(w))
      BY <1>1, <2>3 DEF RingInv, Output
    <3> QED BY <1>2, <2>3, <3>1, <3>2 DEF RingInv, InRing, new
  <2>4. \A w \in Word : \A r, j : Shown(r, j, WordAt(w))' /\ profiler_buffer'[w] \in Sample =>
          monitor' = "clear" /\ w = index'
    BY <1>1, <2>3
  <2> QED BY <2>1, <2>2, <2>4 DEF Output
<1> QED BY <1>5, <1>6, <1>8, <1>11 DEF RingInv

\* The word that was printed is cleared, and the row ends if it is complete.
LEMMA ClearInv == RingInv /\ ClearWord => RingInv'
<1> SUFFICES ASSUME RingInv, ClearWord PROVE RingInv'
  OBVIOUS
<1>1. /\ monitor = "clear"
      /\ index' = IF index + 1 >= BUFD_MAX THEN 0 ELSE index + 1
      /\ profiler_buffer' = [profiler_buffer EXCEPT ![index] = Clear]
      /\ UNCHANGED <<samples, written, profiler_ptr, due>>
      /\ crossed' = (crossed \/ BeingWritten(index))
  BY DEF ClearWord, Advance, Looks, writer
<1>2. \/ /\ Len(printed) = Width /\ printed' = <<>> /\ monitor' = "test"
         /\ rows' \in {rows, Append(rows, printed)}
      \/ Len(printed) # Width /\ monitor' = "print" /\ UNCHANGED <<rows, printed>>
  BY DEF ClearWord, Advance
<1>3. /\ index \in Word /\ index \in Nat /\ Len(printed) \in Nat /\ Len(rows) \in Nat
      /\ Len(printed) <= Width /\ Width \in Nat \ {0} /\ BUFD_MAX \in Nat \ {0}
      /\ Clear \notin Sample
  BY RingTypes, RingFacts DEF RingInv, RingTypeOK
<1>4. /\ \A w \in Word : profiler_buffer'[w] = IF w = index THEN Clear ELSE profiler_buffer[w]
      /\ profiler_buffer' \in [Word -> Content]
  BY <1>1, <1>3 DEF RingInv, RingTypeOK, Content
<1>5. RingTypeOK'
  <2>1. crossed' \in BOOLEAN
    BY <1>1 DEF RingInv, RingTypeOK
  <2>2. index' \in 0 .. BUFD_MAX
    BY <1>1, <1>3
  <2>3. /\ printed' \in Seq(Content \X (0 .. Width - 1)) /\ Len(printed') <= Width
        /\ rows' \in Seq(Seq(Content \X (0 .. Width - 1)))
        /\ monitor' \in {"test", "print"}
    <3>1. /\ printed \in Seq(Content \X (0 .. Width - 1))
          /\ rows \in Seq(Seq(Content \X (0 .. Width - 1)))
      BY DEF RingInv, RingTypeOK
    <3>2. Append(rows, printed) \in Seq(Seq(Content \X (0 .. Width - 1)))
      BY <3>1
    <3>3. <<>> \in Seq(Content \X (0 .. Width - 1)) /\ Len(<<>>) = 0
      OBVIOUS
    <3>4. printed' \in {<<>>, printed} /\ rows' \in {rows, Append(rows, printed)}
          /\ monitor' \in {"test", "print"}
      BY <1>2
    <3>5. printed' \in Seq(Content \X (0 .. Width - 1)) /\ Len(printed') <= Width
      <4>1. CASE printed' = <<>>
        <5>1. Len(printed') = 0
          BY <4>1
        <5> QED BY <1>3, <3>3, <4>1, <5>1
      <4>2. CASE printed' = printed
        BY <1>3, <3>1, <4>2
      <4> QED BY <3>4, <4>1, <4>2
    <3>6. \A s \in {rows, Append(rows, printed)} : s \in Seq(Seq(Content \X (0 .. Width - 1)))
      BY <3>1, <3>2
    <3> HIDE <1>2
    <3> QED BY <3>4, <3>5, <3>6
  <2> QED BY <1>1, <1>4, <2>1, <2>2, <2>3 DEF RingInv, RingTypeOK
<1>6. Row' /\ AtWord'
  <2>1. Row'
    BY <1>2, <1>3 DEF Row
  <2> QED BY <1>1, <2>1 DEF RingInv, AtWord, Offset
<1>7. /\ \A x : WasWritten(x)' <=> WasWritten(x)
      /\ \A w \in Word : w # index => WordAt(w)' = WordAt(w)
      /\ \A w \in Word : /\ WordAt(w)[1] = profiler_buffer[w]
                         /\ WordAt(w)'[1] = profiler_buffer'[w]
  BY <1>1, <1>4 DEF WasWritten, WordAt
<1>8. InRing'
  <2>1. \A w \in Word : profiler_buffer'[w] \in Sample =>
          w # index /\ profiler_buffer'[w] = profiler_buffer[w]
    BY <1>3, <1>4
  <2>2. \A w \in Word : profiler_buffer'[w] \in Sample => WasWritten(WordAt(w))'
    BY <1>7, <2>1 DEF RingInv, InRing
  <2>3. \A v, w \in Word : profiler_buffer'[v] \in Sample /\ WordAt(v)' = WordAt(w)' => v = w
    <3> SUFFICES ASSUME NEW v \in Word, NEW w \in Word,
                        profiler_buffer'[v] \in Sample, WordAt(v)' = WordAt(w)'
                 PROVE  v = w
      OBVIOUS
    <3>1. profiler_buffer'[w] \in Sample
      BY <1>7
    <3> QED BY <1>7, <2>1, <3>1 DEF RingInv, InRing
  <2> QED BY <2>2, <2>3 DEF InRing
<1>9. \A r, j, x : Shown(r, j, x)' => Shown(r, j, x)
  <2> SUFFICES ASSUME NEW r, NEW j, NEW x, Shown(r, j, x)' PROVE Shown(r, j, x)
    OBVIOUS
  <2>1. CASE UNCHANGED <<rows, printed>>
    BY <2>1 DEF Shown
  <2>2. CASE printed' = <<>> /\ rows' = rows
    BY <2>2 DEF Shown
  <2>3. CASE printed' = <<>> /\ rows' = Append(rows, printed)
    <3>1. r \in DOMAIN rows' /\ j \in DOMAIN rows'[r] /\ x = rows'[r][j]
      BY <2>3 DEF Shown
    <3>2. /\ DOMAIN rows' = 1 .. Len(rows) + 1 /\ DOMAIN rows = 1 .. Len(rows)
          /\ \A t \in 1 .. Len(rows) : rows'[t] = rows[t]
          /\ rows'[Len(rows) + 1] = printed
      BY <2>3 DEF RingInv, RingTypeOK
    <3>3. r \in 1 .. Len(rows) \/ r = Len(rows) + 1
      BY <1>3, <3>1, <3>2
    <3> QED BY <3>1, <3>2, <3>3 DEF Shown
  <2> QED BY <1>2, <2>1, <2>2, <2>3
<1>10. Output'
  <2>1. \A r, j, x : Shown(r, j, x)' /\ x[1] \in Sample => WasWritten(x)'
    BY <1>7, <1>9 DEF RingInv, Output
  <2>2. \A r, s, j, k, x : Shown(r, j, x)' /\ Shown(s, k, x)' /\ x[1] \in Sample => r = s /\ j = k
    BY <1>9 DEF RingInv, Output
  <2>3. ASSUME NEW w \in Word, NEW r, NEW j, Shown(r, j, WordAt(w))', profiler_buffer'[w] \in Sample
        PROVE  FALSE
    <3>1. w # index /\ profiler_buffer[w] \in Sample
      BY <1>3, <1>4, <2>3
    <3>2. ASSUME NEW x, x = WordAt(w) PROVE Shown(r, j, x)
      <4>1. x = WordAt(w)'
        BY <1>7, <3>1, <3>2
      <4>2. Shown(r, j, x)'
        BY <2>3, <4>1 DEF Shown
      <4> QED BY <1>9, <4>2
    <3> QED BY <3>1, <3>2 DEF RingInv, Output
  <2> QED BY <2>1, <2>2, <2>3 DEF Output
<1> QED BY <1>5, <1>6, <1>8, <1>10 DEF RingInv

\* The invariant of the ring holds in every behaviour.
THEOREM RingInductive == RingSpec => []RingInv
<1>1. RingInit => RingInv
  BY RingInitInv
<1>2. RingInv /\ [RingNext]_ringVars => RingInv'
  <2> SUFFICES ASSUME RingInv, [RingNext]_ringVars PROVE RingInv'
    OBVIOUS
  <2>1. CASE RingNext
    BY <2>1, BeginInv, StoreInv, SearchInv, PrintInv, ClearInv DEF RingNext, Monitor
  <2>2. CASE UNCHANGED ringVars
    <3>1. UNCHANGED <<profiler_buffer, samples, written, profiler_ptr, monitor, index, printed,
                      rows, due, crossed>>
      BY <2>2 DEF ringVars, writer, reader
    <3>2. /\ \A x : WasWritten(x)' <=> WasWritten(x)
          /\ \A w : WordAt(w)' = WordAt(w)
          /\ \A r, j, x : Shown(r, j, x)' <=> Shown(r, j, x)
      BY <3>1 DEF WasWritten, WordAt, Shown
    <3>3. RingTypeOK' /\ Row' /\ AtWord'
      BY <3>1 DEF RingInv, RingTypeOK, Row, AtWord, Offset
    <3>4. InRing' /\ Output'
      BY <3>1, <3>2 DEF RingInv, InRing, Output
    <3> QED BY <3>3, <3>4 DEF RingInv
  <2> QED BY <2>1, <2>2
<1> QED BY <1>1, <1>2, PTL DEF RingSpec

\* Every step of the module and of the monitor leaves the ring, the pointers and the row
\* that is printed what they are declared to be: no access leaves the buffer, not when
\* the monitor runs past BUFD_MAX.
THEOREM RingTypeCorrect == RingSpec => []RingTypeOK
<1>1. RingInv => RingTypeOK
  BY DEF RingInv
<1> QED BY <1>1, RingInductive, PTL

\* However the module and the monitor meet, for rings and samples of any size, no word of
\* a sample is printed twice (monitor.c:63 to 86).
THEOREM NoWordTwiceHolds == RingSpec => []NoWordTwice
<1>1. RingInv => NoWordTwice
  BY OutputOnce DEF RingInv
<1> QED BY <1>1, RingInductive, PTL

-----------------------------------------------------------------------------
(* SampleBuffer: every sample is printed once, in its order.                 *)

\* While the property says anything: the module has not come back to its start.
Orderly == ~crossed /\ samples <= SlotOf(BUFD_MAX)

Reading == monitor \in {"test", "print", "clear"}
At == SlotOf(index)
Off == Offset(index)
Writing == SlotOf(profiler_ptr)

\* Sample k is written into the k-th place of the ring, and printed in the k-th row. A
\* run of the monitor meets no second new sample, and returns when it has printed all
\* that were complete.
Pace ==
  /\ Writing = Complete
  /\ Len(rows) <= Complete /\ due <= Complete
  /\ monitor # "idle" => samples <= due + 1
  /\ monitor = "idle" => due <= Len(rows)
  /\ \A k \in DOMAIN rows : rows[k] = WholeRow(k)

\* The words of the row that is printed which are cleared already.
Behind(w) == Reading /\ SlotOf(w) = At /\ w < index

\* What was printed is cleared, what was not yet written has never been of a sample, and
\* what is between is there but for the words the monitor has just cleared.
Contents ==
  \A w \in Word :
    /\ SlotOf(w) < Len(rows) \/ Behind(w) => profiler_buffer[w] = Clear
    /\ profiler_ptr <= w => profiler_buffer[w] \in {Clear, Junk}
    /\ Len(rows) <= SlotOf(w) /\ w < profiler_ptr /\ ~Behind(w) =>
         profiler_buffer[w] = SlotOf(w) + 1

\* The words of a sample nobody has written are alike, but for a row that is printed.
Alike ==
  \A v, w \in Word :
    /\ SlotOf(v) = SlotOf(w) /\ w < BUFD_MAX /\ profiler_ptr <= v /\ profiler_ptr <= w
    /\ SlotOf(w) = At => monitor \notin {"print", "clear"}
    => profiler_buffer[v] = profiler_buffer[w]

\* The search has passed clear words only.
Search == monitor = "scan" => \A w \in Word : w < index => profiler_buffer[w] = Clear

\* The sample the monitor is at is complete, and not printed yet.
AtSample == Len(rows) <= At /\ At < Complete

\* The row begins at the first word of a sample: at the first that is to be printed, as
\* long as there is one that was complete when the run began.
InStep ==
  /\ index < BUFD_MAX
  /\ Len(printed) = IF monitor = "clear" THEN Off + 1 ELSE Off
  /\ Len(rows) < due => At = Len(rows)
  /\ \A k \in DOMAIN printed :
       IF AtSample THEN printed[k] = <<At + 1, k - 1>> ELSE printed[k][1] \notin Sample

\* All words were clear, and the monitor runs past what it reads,
PastEnd ==
  /\ index = BUFD_MAX
  /\ Len(printed) = IF monitor = "clear" THEN 1 ELSE 0
  /\ \A w \in Word : w < BUFD_MAX => profiler_buffer[w] = Clear

\* and on from the first word, as if it were the second of a row.
PastStart ==
  /\ At = 0 /\ Width # 1
  /\ monitor = "test" => Off = Width - 1
  /\ monitor = "print" => Len(printed) = Off + 1
  /\ monitor = "clear" => Len(printed) = Off + 2
  /\ \A w \in Word : SlotOf(w) = 0 => profiler_buffer[w] = Clear

\* There was nothing to print for this run then.
Past ==
  /\ due <= Len(rows) /\ (profiler_ptr = 0 \/ Len(rows) > 0)
  /\ \A k \in DOMAIN printed : printed[k][1] \notin Sample
  /\ PastEnd \/ PastStart

InOrder == Pace /\ Contents /\ Alike /\ Search /\ (Reading => InStep \/ Past)

OrderInv == Orderly => InOrder

\* The order of the words is that of their samples, and of their places in one.
LEMMA Places ==
  \A v, w \in Nat :
    v < w <=> \/ SlotOf(v) < SlotOf(w)
              \/ SlotOf(v) = SlotOf(w) /\ Offset(v) < Offset(w)
<1>1. ASSUME NEW v \in Nat, NEW w \in Nat, SlotOf(v) < SlotOf(w) PROVE v < w
  <2> DEFINE q == SlotOf(v)
             r == Offset(v)
             m == SlotOf(w)
             n == Offset(w)
  <2>1. /\ Width \in Nat \ {0} /\ q \in Nat /\ r \in 0 .. Width - 1 /\ v = Width * q + r
        /\ m \in Nat /\ n \in 0 .. Width - 1 /\ w = Width * m + n /\ q < m
    BY <1>1, WordPlace
  <2> HIDE DEF q, r, m, n
  <2>2. Width * (q + 1) <= Width * m
    BY <2>1
  <2>3. Width * (q + 1) = Width * q + Width /\ Width * q \in Nat /\ Width * m \in Nat
    BY <2>1
  <2> QED BY <2>1, <2>2, <2>3
<1>2. ASSUME NEW v \in Nat, NEW w \in Nat, SlotOf(v) = SlotOf(w)
      PROVE  v < w <=> Offset(v) < Offset(w)
  <2> DEFINE q == SlotOf(v)
             r == Offset(v)
             n == Offset(w)
  <2>1. /\ Width \in Nat \ {0} /\ q \in Nat /\ r \in 0 .. Width - 1 /\ v = Width * q + r
        /\ n \in 0 .. Width - 1 /\ w = Width * q + n
    BY <1>2, WordPlace
  <2> HIDE DEF q, r, n
  <2>2. Width * q \in Nat
    BY <2>1
  <2>3. v < w <=> r < n
    BY <2>1, <2>2
  <2> QED BY <2>3 DEF r, n
<1>3. \A v, w \in Nat : /\ SlotOf(v) \in Nat /\ SlotOf(w) \in Nat
                        /\ Offset(v) \in Nat /\ Offset(w) \in Nat
  BY WordPlace
<1> SUFFICES ASSUME NEW v \in Nat, NEW w \in Nat
             PROVE  v < w <=> \/ SlotOf(v) < SlotOf(w)
                              \/ SlotOf(v) = SlotOf(w) /\ Offset(v) < Offset(w)
  OBVIOUS
<1>4. CASE SlotOf(v) < SlotOf(w)
  BY <1>1, <1>3, <1>4
<1>5. CASE SlotOf(v) = SlotOf(w)
  BY <1>2, <1>3, <1>5
<1>6. CASE SlotOf(w) < SlotOf(v)
  BY <1>1, <1>3, <1>6
<1> QED BY <1>3, <1>4, <1>5, <1>6

\* Every sample that fits the ring has a first word in it.
LEMMA FirstWord ==
  ASSUME NEW q \in Nat, q <= SlotOf(BUFD_MAX)
  PROVE  \E f \in Word : SlotOf(f) = q /\ Offset(f) = 0
<1>1. /\ Width \in Nat \ {0} /\ BUFD_MAX \in Nat /\ Offset(BUFD_MAX) = 0
      /\ PROFILER_BUFFER_LEN \in Nat /\ BUFD_MAX < PROFILER_BUFFER_LEN
  BY RingFacts
<1>2. SlotOf(BUFD_MAX) \in Nat /\ BUFD_MAX = Width * SlotOf(BUFD_MAX) + Offset(BUFD_MAX)
  BY <1>1, WordPlace
<1> DEFINE f == Width * q
<1>3. f \in Nat /\ f <= Width * SlotOf(BUFD_MAX) /\ f = Width * q + 0
  BY <1>1, <1>2
<1> HIDE DEF f
<1>4. Width * SlotOf(BUFD_MAX) \in Nat
  BY <1>1, <1>2
<1>5. f \in Word
  BY <1>1, <1>2, <1>3, <1>4 DEF Word
<1>6. 0 \in 0 .. Width - 1
  BY <1>1
<1> QED BY <1>3, <1>5, <1>6, PlaceIs

\* The words the steps are about, while the samples are in their order.
LEMMA OrderFacts ==
  ASSUME RingInv, Orderly, Pace
  PROVE  /\ Complete \in Nat /\ Complete <= samples /\ samples <= Complete + 1
         /\ written # Width => samples = Complete + 1
         /\ samples \in Nat /\ samples <= SlotOf(BUFD_MAX) /\ samples <= MaxSamples
         /\ Len(rows) \in Nat /\ Len(printed) \in Nat /\ due \in Nat /\ MaxSamples \in Nat
         /\ written \in Nat /\ written <= Width /\ Width \in Nat \ {0}
         /\ index \in Nat /\ index \in Word /\ index <= BUFD_MAX
         /\ At \in Nat /\ Off \in 0 .. Width - 1 /\ At = SlotOf(index) /\ Off = Offset(index)
         /\ profiler_ptr \in Nat /\ profiler_ptr \in Word /\ SlotOf(profiler_ptr) = Complete
         /\ Offset(profiler_ptr) = IF written = Width THEN 0 ELSE written
         /\ BUFD_MAX \in Nat \ {0} /\ BUFD_MAX \in Word
         /\ SlotOf(BUFD_MAX) \in Nat \ {0} /\ Offset(BUFD_MAX) = 0
         /\ SlotOf(0) = 0 /\ Offset(0) = 0 /\ 0 \in Word
<1>1. RingTypeOK /\ AtWord
  BY DEF RingInv
<1>2. /\ samples \in Nat /\ samples <= MaxSamples /\ due \in Nat /\ MaxSamples \in Nat
      /\ written \in Nat /\ written <= Width /\ Width \in Nat \ {0}
      /\ BUFD_MAX \in Nat \ {0} /\ BUFD_MAX < PROFILER_BUFFER_LEN /\ PROFILER_BUFFER_LEN \in Nat
      /\ index \in Nat /\ index <= BUFD_MAX
      /\ profiler_ptr \in Word /\ Len(rows) \in Nat /\ Len(printed) \in Nat
  BY <1>1, RingFacts DEF RingTypeOK
<1>3. index \in Word /\ BUFD_MAX \in Word /\ profiler_ptr \in Nat /\ 0 \in Word
  BY <1>2 DEF Word
<1>4. /\ Complete \in Nat /\ Complete <= samples /\ samples <= Complete + 1
      /\ written # Width => samples = Complete + 1
  BY <1>1, <1>2 DEF Complete, AtWord
<1>5. samples <= SlotOf(BUFD_MAX) /\ SlotOf(profiler_ptr) = Complete
  BY DEF Orderly, Pace, Writing
<1>6. /\ SlotOf(0) = 0 /\ Offset(0) = 0 /\ Offset(BUFD_MAX) = 0
      /\ SlotOf(BUFD_MAX) \in Nat
  BY <1>2, RingFacts, WordPlace
<1>7. SlotOf(BUFD_MAX) # 0
  <2>1. 0 < BUFD_MAX /\ 0 \in Nat
    BY <1>2
  <2>2. SlotOf(0) < SlotOf(BUFD_MAX)
    BY <1>2, <1>6, <2>1, Places
  <2> QED BY <1>6, <2>2
<1>8. At \in Nat /\ Off \in 0 .. Width - 1 /\ At = SlotOf(index) /\ Off = Offset(index)
  BY <1>2, WordPlace DEF At, Off
<1>9. Offset(profiler_ptr) = IF written = Width THEN 0 ELSE written
  BY <1>1 DEF AtWord
<1> QED BY <1>2, <1>3, <1>4, <1>5, <1>6, <1>7, <1>8, <1>9

\* Where a word lies from the next the module writes, from the next of the monitor, and
\* from the end of what the monitor reads.
LEMMA WordFacts ==
  ASSUME RingInv, Orderly, Pace, NEW w \in Word
  PROVE  /\ w \in Nat /\ SlotOf(w) \in Nat /\ Offset(w) \in 0 .. Width - 1
         /\ SlotOf(w) < Complete => w < profiler_ptr
         /\ Complete < SlotOf(w) => profiler_ptr < w
         /\ SlotOf(w) = Complete => (w < profiler_ptr <=> written # Width /\ Offset(w) < written)
         /\ SlotOf(w) < At => w < index
         /\ At < SlotOf(w) => index < w
         /\ SlotOf(w) = At => (w < index <=> Offset(w) < Off)
         /\ w < BUFD_MAX <=> SlotOf(w) < SlotOf(BUFD_MAX)
<1>1. w \in Nat
  BY RingFacts DEF Word
<1>2. SlotOf(w) \in Nat /\ Offset(w) \in 0 .. Width - 1
  BY <1>1, WordPlace
<1>3. /\ Complete \in Nat /\ written \in Nat /\ written <= Width /\ Width \in Nat \ {0}
      /\ index \in Nat /\ At \in Nat /\ Off \in 0 .. Width - 1
      /\ At = SlotOf(index) /\ Off = Offset(index)
      /\ profiler_ptr \in Nat /\ SlotOf(profiler_ptr) = Complete
      /\ Offset(profiler_ptr) = IF written = Width THEN 0 ELSE written
      /\ BUFD_MAX \in Nat /\ SlotOf(BUFD_MAX) \in Nat /\ Offset(BUFD_MAX) = 0
  BY OrderFacts
<1>4. /\ w < profiler_ptr <=> \/ SlotOf(w) < Complete
                              \/ SlotOf(w) = Complete /\ Offset(w) < Offset(profiler_ptr)
      /\ profiler_ptr < w <=> \/ Complete < SlotOf(w)
                              \/ SlotOf(w) = Complete /\ Offset(profiler_ptr) < Offset(w)
      /\ w < index <=> SlotOf(w) < At \/ (SlotOf(w) = At /\ Offset(w) < Off)
      /\ index < w <=> At < SlotOf(w) \/ (SlotOf(w) = At /\ Off < Offset(w))
  BY <1>1, <1>3, Places
<1>5. w < BUFD_MAX <=> SlotOf(w) < SlotOf(BUFD_MAX)
  BY <1>1, <1>3, WordsBefore
<1>6. ~(Offset(w) < 0)
  BY <1>2, <1>3
<1>7. SlotOf(w) = Complete => (w < profiler_ptr <=> written # Width /\ Offset(w) < written)
  <2>1. CASE written = Width
    BY <1>2, <1>3, <1>4, <1>6, <2>1
  <2>2. CASE written # Width
    BY <1>2, <1>3, <1>4, <2>2
  <2> QED BY <2>1, <2>2
<1> QED BY <1>1, <1>2, <1>3, <1>4, <1>5, <1>7

\* The invariant is about these variables, and about how many samples are complete.
LEMMA SameOrder ==
  ASSUME InOrder, Pace', Complete' = Complete,
         UNCHANGED <<profiler_buffer, profiler_ptr, monitor, index, printed, rows, due>>
  PROVE  InOrder'
<1>1. At' = At /\ Off' = Off /\ (Reading' <=> Reading) /\ (AtSample' <=> AtSample)
  BY DEF At, Off, Reading, AtSample, SlotOf, Offset
<1>2. \A w : Behind(w)' <=> Behind(w)
  BY <1>1 DEF Behind
<1>3. Contents' /\ Alike' /\ Search'
  BY <1>1, <1>2 DEF InOrder, Contents, Alike, Search
<1>4. (InStep => InStep') /\ (PastEnd => PastEnd') /\ (PastStart => PastStart')
  BY <1>1 DEF InStep, PastEnd, PastStart
<1>5. Past => Past'
  BY <1>4 DEF Past
<1> QED BY <1>1, <1>3, <1>4, <1>5 DEF InOrder

\* Nothing is out of order to begin with.
LEMMA OrderInitInv == RingInit => OrderInv
<1> SUFFICES ASSUME RingInit PROVE InOrder
  BY DEF OrderInv
<1>1. RingInv
  BY RingInitInv
<1>2. PICK old \in [0 .. SlotOf(PROFILER_BUFFER_LEN) - 1 -> {Clear, Junk}] :
        profiler_buffer = [w \in Word |-> old[SlotOf(w)]]
  BY DEF RingInit
<1>3. /\ samples = 0 /\ written = Width /\ profiler_ptr = 0
      /\ monitor = "idle" /\ index = 0 /\ printed = <<>> /\ rows = <<>> /\ due = 0
      /\ crossed = FALSE
  BY DEF RingInit
<1>4. Complete = 0 /\ Writing = 0 /\ ~Reading
  BY <1>3, RingFacts DEF Complete, Writing, Reading
<1>5. Pace
  BY <1>3, <1>4 DEF Pace
<1>6. \A w \in Word : w \in Nat /\ SlotOf(w) \in 0 .. SlotOf(PROFILER_BUFFER_LEN) - 1
  <2> TAKE w \in Word
  <2>1. w \in Nat /\ w < PROFILER_BUFFER_LEN
    BY RingFacts DEF Word
  <2>2. SlotOf(w) < SlotOf(PROFILER_BUFFER_LEN)
    BY <2>1, RingFacts, WordsBefore
  <2>3. SlotOf(w) \in Nat /\ SlotOf(PROFILER_BUFFER_LEN) \in Nat
    BY <2>1, RingFacts, WordPlace
  <2> QED BY <2>1, <2>2, <2>3
<1>7. Contents
  <2>1. \A w \in Word : ~(SlotOf(w) < Len(rows)) /\ ~Behind(w) /\ ~(w < profiler_ptr)
    BY <1>3, <1>4, <1>6 DEF Behind
  <2>2. \A w \in Word : profiler_buffer[w] \in {Clear, Junk}
    BY <1>2, <1>6
  <2> QED BY <2>1, <2>2 DEF Contents
<1>8. Alike
  <2>1. \A v, w \in Word : SlotOf(v) = SlotOf(w) => profiler_buffer[v] = profiler_buffer[w]
    BY <1>2
  <2> QED BY <2>1 DEF Alike
<1> QED BY <1>3, <1>4, <1>5, <1>7, <1>8 DEF InOrder, Search

\* A sample begins. It is the first that is new for the monitor's run, if there is one.
LEMMA BeginOrder == RingInv /\ OrderInv /\ Begin => OrderInv'
<1> SUFFICES ASSUME RingInv, OrderInv, Begin, Orderly' PROVE InOrder'
  BY DEF OrderInv
<1>1. /\ written = Width /\ samples' = samples + 1 /\ written' = 0
      /\ UNCHANGED <<profiler_buffer, profiler_ptr, monitor, index, printed, rows, due>>
      /\ crossed' = (crossed \/ (monitor # "idle" /\ samples > due))
  BY DEF Begin, reader
<1>2. samples \in Nat /\ due \in Nat /\ Width \in Nat \ {0} /\ SlotOf(BUFD_MAX) \in Nat
  BY RingTypes, RingFacts, WordPlace DEF RingInv, RingTypeOK
<1>3. ~crossed /\ (monitor # "idle" => samples <= due) /\ samples + 1 <= SlotOf(BUFD_MAX)
  <2>1. ~crossed' /\ samples' <= SlotOf(BUFD_MAX)
    BY DEF Orderly
  <2>2. ~crossed /\ ~(monitor # "idle" /\ samples > due)
    BY <1>1, <2>1
  <2> QED BY <1>1, <1>2, <2>1, <2>2
<1>4. Orderly /\ InOrder
  BY <1>2, <1>3 DEF OrderInv, Orderly
<1>5. Complete' = Complete
  BY <1>1, <1>2 DEF Complete
<1>6. Writing' = Writing
  BY <1>1 DEF Writing, SlotOf
<1>7. Pace'
  BY <1>1, <1>2, <1>3, <1>4, <1>5, <1>6 DEF InOrder, Pace
<1> QED BY <1>1, <1>4, <1>5, <1>7, SameOrder

\* A word is stored, ahead of the monitor or behind it.
LEMMA StoreOrder == RingInv /\ OrderInv /\ Store => OrderInv'
<1> SUFFICES ASSUME RingInv, OrderInv, Store, Orderly' PROVE InOrder'
  BY DEF OrderInv
<1>1. /\ written < Width /\ written' = written + 1
      /\ profiler_buffer' = [profiler_buffer EXCEPT ![profiler_ptr] = samples]
      /\ profiler_ptr' = (profiler_ptr + 1) % PROFILER_BUFFER_LEN
      /\ crossed' = (crossed \/ SeenByMonitor(profiler_ptr))
      /\ UNCHANGED <<samples, monitor, index, printed, rows, due>>
  BY DEF Store, reader
<1>2. Orderly /\ InOrder /\ ~SeenByMonitor(profiler_ptr)
  BY <1>1 DEF OrderInv, Orderly
<1>3. Pace
  BY <1>2 DEF InOrder
<1>4. /\ Complete \in Nat /\ samples = Complete + 1 /\ samples <= SlotOf(BUFD_MAX)
      /\ written \in Nat /\ Width \in Nat \ {0} /\ index \in Nat /\ At \in Nat
      /\ Off \in 0 .. Width - 1 /\ Len(rows) \in Nat /\ due \in Nat
      /\ profiler_ptr \in Nat /\ profiler_ptr \in Word /\ SlotOf(profiler_ptr) = Complete
      /\ Offset(profiler_ptr) = written /\ SlotOf(BUFD_MAX) \in Nat /\ BUFD_MAX \in Nat
  <2>1. written # Width
    <3>1. written \in Nat /\ Width \in Nat
      BY <1>2, <1>3, OrderFacts
    <3> QED BY <1>1, <3>1
  <2> QED BY <1>2, <1>3, <2>1, OrderFacts
<1>5. profiler_ptr' = profiler_ptr + 1
  <2>1. profiler_ptr < BUFD_MAX
    BY <1>2, <1>3, <1>4, WordFacts
  <2>2. profiler_ptr + 1 # PROFILER_BUFFER_LEN
    BY <1>4, <2>1, RingFacts
  <2> QED BY <1>1, <1>4, <2>2, NextInRing
<1>6. /\ Complete' \in {Complete, Complete + 1} /\ Writing' = Complete'
      /\ (Complete' = Complete \/ SlotOf(profiler_ptr) = Complete)
  <2>1. Complete' = IF written + 1 = Width THEN Complete + 1 ELSE Complete
    BY <1>1, <1>4 DEF Complete
  <2>2. SlotOf(profiler_ptr + 1) = IF written + 1 = Width THEN Complete + 1 ELSE Complete
    BY <1>4, NextWord
  <2>3. Writing' = SlotOf(profiler_ptr + 1)
    BY <1>5 DEF Writing, SlotOf
  <2> QED BY <1>4, <2>1, <2>2, <2>3
<1>7. At' = At /\ Off' = Off /\ (Reading' <=> Reading)
  BY <1>1 DEF At, Off, Reading, SlotOf, Offset
<1>8. \A w \in Word : profiler_buffer'[w] = IF w = profiler_ptr THEN Complete + 1
                                           ELSE profiler_buffer[w]
  BY <1>1, <1>4 DEF RingInv, RingTypeOK
<1>9. \A w : Behind(w)' <=> Behind(w)
  BY <1>1, <1>7 DEF Behind
<1>10. /\ monitor = "scan" => ~(profiler_ptr < index)
       /\ Reading /\ At = Complete => printed = <<>> /\ Off = 0
       /\ monitor # "idle" => index # BUFD_MAX
  <2>1. At = SlotOf(index) /\ Off = Offset(index)
    BY DEF At, Off
  <2>2. SlotOf(profiler_ptr) = SlotOf(index) <=> At = Complete
    BY <1>4, <2>1
  <2> QED BY <1>2, <2>1, <2>2 DEF SeenByMonitor, Reading
<1>11. ~Behind(profiler_ptr)
  <2>1. Reading /\ At = Complete => ~(profiler_ptr < index)
    BY <1>2, <1>3, <1>4, <1>10, WordFacts
  <2> QED BY <1>4, <2>1 DEF Behind
<1>12. Pace'
  BY <1>1, <1>3, <1>4, <1>6 DEF Pace
<1>13. Contents'
  <2>1. ASSUME NEW w \in Word
        PROVE  /\ SlotOf(w) < Len(rows) \/ Behind(w) => profiler_buffer'[w] = Clear
               /\ profiler_ptr' <= w => profiler_buffer'[w] \in {Clear, Junk}
               /\ Len(rows) <= SlotOf(w) /\ w < profiler_ptr' /\ ~Behind(w) =>
                    profiler_buffer'[w] = SlotOf(w) + 1
    <3>1. CASE w = profiler_ptr
      <4>1. ~(SlotOf(w) < Len(rows))
        BY <1>3, <1>4, <3>1 DEF Pace
      <4>2. ~(profiler_ptr' <= w)
        BY <1>4, <1>5, <3>1
      <4> QED BY <1>4, <1>8, <1>11, <3>1, <4>1, <4>2
    <3>2. CASE w # profiler_ptr
      <4>1. w \in Nat
        BY <1>2, <1>3, WordFacts
      <4>2. (profiler_ptr' <= w <=> profiler_ptr <= w) /\ (w < profiler_ptr' <=> w < profiler_ptr)
        BY <1>4, <1>5, <3>2, <4>1
      <4> QED BY <1>2, <1>8, <3>2, <4>2 DEF InOrder, Contents
    <3> QED BY <3>1, <3>2
  <2> QED BY <1>1, <1>9, <2>1 DEF Contents
<1>14. Alike'
  <2>1. \A w \in Word : profiler_ptr' <= w => /\ profiler_ptr <= w
                                              /\ profiler_buffer'[w] = profiler_buffer[w]
    <3> TAKE w \in Word
    <3>1. w \in Nat
      BY <1>2, <1>3, WordFacts
    <3>2. profiler_ptr' <= w => profiler_ptr <= w /\ w # profiler_ptr
      BY <1>4, <1>5, <3>1
    <3> QED BY <1>8, <3>2
  <2> QED BY <1>1, <1>2, <1>7, <2>1 DEF InOrder, Alike
<1>15. Search'
  BY <1>1, <1>2, <1>8, <1>10 DEF InOrder, Search
<1>16. ASSUME InStep, Reading PROVE InStep'
  <2>1. ASSUME AtSample # AtSample' PROVE printed = <<>>
    <3>1. AtSample' <=> Len(rows) <= At /\ At < Complete'
      BY <1>1, <1>7 DEF AtSample
    <3>2. Complete' = Complete + 1 /\ At = Complete
      BY <1>4, <1>6, <2>1, <3>1 DEF AtSample
    <3> QED BY <1>10, <1>16, <3>2
  <2>2. \A k \in DOMAIN printed :
          IF AtSample' THEN printed[k] = <<At + 1, k - 1>> ELSE printed[k][1] \notin Sample
    <3>1. CASE printed = <<>>
      BY <3>1
    <3>2. CASE AtSample <=> AtSample'
      BY <1>16, <3>2 DEF InStep
    <3> QED BY <2>1, <3>1, <3>2 DEF AtSample
  <2> QED BY <1>1, <1>7, <1>16, <2>2 DEF InStep
<1>17. ASSUME Past, Reading PROVE Past'
  <2>1. monitor # "idle" /\ monitor \in {"test", "print", "clear"}
    BY <1>17 DEF Reading
  <2>2. PastStart
    BY <1>10, <1>17, <2>1 DEF Past, PastEnd
  <2>3. Complete # 0
    <3> SUFFICES ASSUME Complete = 0 PROVE FALSE
      OBVIOUS
    <3>1. printed = <<>> /\ Off = 0 /\ Width # 1
      BY <1>4, <1>10, <1>17, <2>2 DEF PastStart
    <3>2. Len(printed) = 0
      BY <3>1
    <3>3. Off # Width - 1 /\ Len(printed) # Off + 1 /\ Len(printed) # Off + 2
      BY <1>4, <3>1, <3>2
    <3> QED BY <2>1, <2>2, <3>3 DEF PastStart
  <2>4. Len(rows) > 0
    <3>1. 0 < profiler_ptr
      <4>1. SlotOf(0) = 0
        BY RingFacts
      <4> QED BY <1>4, <2>3, <4>1
    <3> QED BY <1>4, <1>17, <3>1 DEF Past
  <2>5. PastStart'
    <3>1. \A w \in Word : SlotOf(w) = 0 => profiler_buffer'[w] = Clear
      BY <1>4, <1>8, <2>2, <2>3 DEF PastStart
    <3> QED BY <1>1, <1>7, <2>2, <3>1 DEF PastStart
  <2> QED BY <1>1, <1>17, <2>4, <2>5 DEF Past
<1> QED BY <1>2, <1>7, <1>12, <1>13, <1>14, <1>15, <1>16, <1>17 DEF InOrder

\* A run begins: it is to print what is complete now.
LEMMA StartOrder == RingInv /\ OrderInv /\ Start => OrderInv'
<1> SUFFICES ASSUME RingInv, OrderInv, Start, Orderly' PROVE InOrder'
  BY DEF OrderInv
<1>1. /\ monitor = "idle" /\ monitor' = "scan" /\ index' = 0 /\ due' = Complete
      /\ UNCHANGED <<profiler_buffer, samples, written, profiler_ptr, printed, rows, crossed>>
  BY DEF Start, writer
<1>2. Orderly /\ InOrder
  BY <1>1 DEF OrderInv, Orderly
<1>3. /\ Complete \in Nat /\ samples <= Complete + 1
  BY <1>2, OrderFacts DEF InOrder
<1>4. Complete' = Complete /\ Writing' = Writing /\ ~Reading /\ ~Reading'
  BY <1>1 DEF Complete, Writing, Reading, SlotOf
<1>5. Pace'
  BY <1>1, <1>2, <1>3, <1>4 DEF InOrder, Pace
<1>6. Contents'
  BY <1>1, <1>2, <1>4 DEF InOrder, Contents, Behind
<1>7. Alike'
  BY <1>1, <1>2 DEF InOrder, Alike
<1>8. Search'
  BY <1>1 DEF Search, Word
<1> QED BY <1>4, <1>5, <1>6, <1>7, <1>8 DEF InOrder

\* No word of a sample that is to be printed is clear, but for those the monitor has just
\* cleared.
LEMMA Unprinted ==
  ASSUME RingInv, Orderly, InOrder, NEW w \in Word,
         Len(rows) <= SlotOf(w), SlotOf(w) < Complete, ~Behind(w)
  PROVE  profiler_buffer[w] = SlotOf(w) + 1 /\ profiler_buffer[w] # Clear
<1>1. w < profiler_ptr /\ SlotOf(w) \in Nat
  BY WordFacts DEF InOrder
<1>2. profiler_buffer[w] = SlotOf(w) + 1
  BY <1>1 DEF InOrder, Contents
<1> QED BY <1>1, <1>2 DEF Clear

\* The search passes a clear word.
LEMMA PassOrder ==
  ASSUME RingInv, OrderInv, Scan, index < BUFD_MAX, profiler_buffer[index] = Clear
  PROVE  OrderInv'
<1> SUFFICES ASSUME Orderly' PROVE InOrder'
  BY DEF OrderInv
<1>1. /\ monitor = "scan" /\ monitor' = "scan" /\ index' = index + 1
      /\ UNCHANGED <<profiler_buffer, samples, written, profiler_ptr, printed, rows, due>>
      /\ crossed' = (crossed \/ BeingWritten(index))
  BY DEF Scan, writer, Looks
<1>2. Orderly /\ InOrder
  BY <1>1 DEF OrderInv, Orderly
<1>3. Complete' = Complete /\ Writing' = Writing /\ ~Reading /\ ~Reading'
  BY <1>1 DEF Complete, Writing, Reading, SlotOf
<1>4. Pace'
  BY <1>1, <1>2, <1>3 DEF InOrder, Pace
<1>5. Contents'
  BY <1>1, <1>2, <1>3 DEF InOrder, Contents, Behind
<1>6. Alike'
  BY <1>1, <1>2 DEF InOrder, Alike
<1>7. Search'
  <2>1. index \in Nat /\ \A w \in Word : w \in Nat
    BY <1>2, OrderFacts, WordFacts DEF InOrder
  <2>2. \A w \in Word : w < index + 1 => w < index \/ w = index
    BY <2>1
  <2> QED BY <1>1, <1>2, <2>2 DEF InOrder, Search
<1> QED BY <1>3, <1>4, <1>5, <1>6, <1>7 DEF InOrder

\* The search ends, at the first word that is not clear, which begins a row, or behind all.
LEMMA FoundOrder ==
  ASSUME RingInv, OrderInv, Scan, ~(index < BUFD_MAX /\ profiler_buffer[index] = Clear)
  PROVE  OrderInv'
<1> SUFFICES ASSUME Orderly' PROVE InOrder'
  BY DEF OrderInv
<1>1. /\ monitor = "scan" /\ monitor' = "test"
      /\ UNCHANGED <<profiler_buffer, samples, written, profiler_ptr, index, printed, rows, due>>
      /\ crossed' = (crossed \/ BeingWritten(index))
  BY DEF Scan, writer, Looks
<1>2. Orderly /\ InOrder
  BY <1>1 DEF OrderInv, Orderly
<1>3. Pace
  BY <1>2 DEF InOrder
<1>4. /\ Complete \in Nat /\ Complete <= samples /\ samples \in Nat /\ samples <= SlotOf(BUFD_MAX)
      /\ Len(rows) \in Nat /\ due \in Nat /\ index \in Nat /\ index \in Word /\ index <= BUFD_MAX
      /\ At \in Nat /\ Off \in 0 .. Width - 1 /\ At = SlotOf(index) /\ Off = Offset(index)
      /\ BUFD_MAX \in Nat /\ SlotOf(BUFD_MAX) \in Nat \ {0} /\ Offset(BUFD_MAX) = 0
      /\ SlotOf(0) = 0 /\ 0 \in Word /\ profiler_ptr \in Nat /\ Width \in Nat \ {0}
      /\ SlotOf(profiler_ptr) = Complete
  BY <1>2, <1>3, OrderFacts
<1>5. /\ Complete' = Complete /\ Writing' = Writing /\ ~Reading /\ Reading'
      /\ At' = At /\ Off' = Off
  BY <1>1 DEF Complete, Writing, Reading, SlotOf, At, Off, Offset
<1>6. printed = <<>> /\ Len(printed) = 0
  BY <1>1 DEF RingInv, Row
<1>7. \A w \in Word : w < index => profiler_buffer[w] = Clear
  BY <1>1, <1>2 DEF InOrder, Search
<1>8. \A w : ~Behind(w)
  BY <1>5 DEF Behind
<1>9. \A w \in Word : Len(rows) <= SlotOf(w) /\ SlotOf(w) < Complete => ~(w < index)
  BY <1>2, <1>7, <1>8, Unprinted
<1>10. Off = 0
  <2>1. CASE index = BUFD_MAX
    BY <1>4, <2>1
  <2>2. CASE index # BUFD_MAX
    <3> SUFFICES ASSUME Off # 0 PROVE FALSE
      OBVIOUS
    <3>1. index < BUFD_MAX /\ profiler_buffer[index] # Clear /\ At < SlotOf(BUFD_MAX)
      <4>1. index < BUFD_MAX
        BY <1>4, <2>2
      <4> QED BY <1>2, <1>3, <1>4, <4>1, WordFacts
    <3>2. PICK f \in Word : SlotOf(f) = At /\ Offset(f) = 0
      BY <1>4, <3>1, FirstWord
    <3>3. f < index /\ f \in Nat
      BY <1>2, <1>3, <1>4, <3>2, WordFacts
    <3>4. profiler_buffer[f] = Clear
      BY <1>7, <3>3
    <3>5. f < profiler_ptr
      <4> SUFFICES ASSUME ~(f < profiler_ptr) PROVE FALSE
        OBVIOUS
      <4>1. profiler_ptr <= f /\ profiler_ptr <= index
        BY <1>4, <3>3
      <4>2. profiler_buffer[f] = profiler_buffer[index]
        BY <1>1, <1>2, <1>4, <3>1, <3>2, <4>1 DEF InOrder, Alike
      <4> QED BY <3>1, <3>4, <4>2
    <3>6. At < Len(rows)
      <4> SUFFICES ASSUME Len(rows) <= At PROVE FALSE
        BY <1>4
      <4>1. profiler_buffer[f] = At + 1
        BY <1>2, <1>8, <3>2, <3>5 DEF InOrder, Contents
      <4>2. At + 1 # Clear
        BY <1>4 DEF Clear
      <4> QED BY <3>4, <4>1, <4>2
    <3> QED BY <1>2, <1>4, <3>1, <3>6 DEF InOrder, Contents
  <2> QED BY <2>1, <2>2
<1>11. \A w \in Word : ~Behind(w)'
  <2>1. \A w \in Word : SlotOf(w) = At => ~(w < index)
    <3> TAKE w \in Word
    <3>1. Offset(w) \in 0 .. Width - 1 /\ (SlotOf(w) = At => (w < index <=> Offset(w) < Off))
      BY <1>2, <1>3, WordFacts
    <3> QED BY <1>4, <1>10, <3>1
  <2> QED BY <1>1, <1>5, <2>1 DEF Behind
<1>12. Pace'
  BY <1>1, <1>3, <1>5 DEF Pace
<1>13. Contents'
  <2>1. ASSUME NEW w \in Word
        PROVE  /\ SlotOf(w) < Len(rows) => profiler_buffer[w] = Clear
               /\ profiler_ptr <= w => profiler_buffer[w] \in {Clear, Junk}
               /\ Len(rows) <= SlotOf(w) /\ w < profiler_ptr => profiler_buffer[w] = SlotOf(w) + 1
    BY <1>2, <1>8 DEF InOrder, Contents
  <2> QED BY <1>1, <1>11, <2>1 DEF Contents
<1>14. Alike'
  <2>1. \A v, w \in Word :
          /\ SlotOf(v) = SlotOf(w) /\ w < BUFD_MAX /\ profiler_ptr <= v /\ profiler_ptr <= w
          => profiler_buffer[v] = profiler_buffer[w]
    <3>1. monitor \notin {"print", "clear"} /\ Alike
      BY <1>1, <1>2 DEF InOrder
    <3> QED BY <3>1 DEF Alike
  <2> QED BY <1>1, <2>1 DEF Alike
<1>15. Search'
  BY <1>1 DEF Search
<1>16. ASSUME index = BUFD_MAX PROVE Past'
  <2>1. due <= Len(rows)
    <3> SUFFICES ASSUME Len(rows) < due PROVE FALSE
      BY <1>4
    <3>1. Len(rows) < Complete /\ Len(rows) < SlotOf(BUFD_MAX)
      BY <1>3, <1>4 DEF Pace
    <3>2. PICK f \in Word : SlotOf(f) = Len(rows)
      <4>1. Len(rows) \in Nat /\ Len(rows) <= SlotOf(BUFD_MAX)
        BY <1>4, <3>1
      <4> QED BY <4>1, FirstWord
    <3>3. f < BUFD_MAX
      BY <1>2, <1>3, <3>1, <3>2, WordFacts
    <3> QED BY <1>4, <1>9, <1>16, <3>1, <3>2, <3>3
  <2>2. profiler_ptr = 0 \/ Len(rows) > 0
    <3> SUFFICES ASSUME profiler_ptr # 0, Len(rows) = 0 PROVE FALSE
      BY <1>4
    <3>1. profiler_buffer[0] = SlotOf(0) + 1
      <4>1. 0 < profiler_ptr /\ Len(rows) <= SlotOf(0)
        BY <1>4
      <4> QED BY <1>2, <1>4, <1>8, <4>1 DEF InOrder, Contents
    <3>2. profiler_buffer[0] = Clear
      <4>1. 0 < index
        BY <1>4, <1>16
      <4> QED BY <1>4, <1>7, <4>1
    <3> QED BY <1>4, <3>1, <3>2 DEF Clear
  <2>3. PastEnd'
    BY <1>1, <1>6, <1>7, <1>16 DEF PastEnd
  <2>4. \A k \in DOMAIN printed : FALSE
    BY <1>6
  <2> QED BY <1>1, <2>1, <2>2, <2>3, <2>4 DEF Past
<1>17. ASSUME index # BUFD_MAX PROVE InStep'
  <2>1. index < BUFD_MAX /\ profiler_buffer[index] # Clear
    BY <1>4, <1>17
  <2>2. ASSUME Len(rows) < due PROVE At = Len(rows)
    <3>1. Len(rows) < Complete /\ Len(rows) <= SlotOf(BUFD_MAX)
      BY <1>3, <1>4, <2>2 DEF Pace
    <3>2. ~(At < Len(rows))
      BY <1>2, <1>4, <2>1 DEF InOrder, Contents
    <3>3. PICK f \in Word : SlotOf(f) = Len(rows)
      <4>1. Len(rows) \in Nat
        BY <1>4
      <4> QED BY <3>1, <4>1, FirstWord
    <3>4. ~(f < index)
      BY <1>4, <1>9, <3>1, <3>3
    <3>5. ~(Len(rows) < At)
      BY <1>2, <1>3, <3>3, <3>4, WordFacts
    <3> QED BY <1>4, <3>2, <3>5
  <2>3. \A k \in DOMAIN printed : FALSE
    BY <1>6
  <2> QED BY <1>1, <1>5, <1>6, <1>10, <2>1, <2>2, <2>3 DEF InStep
<1> QED BY <1>12, <1>13, <1>14, <1>15, <1>16, <1>17 DEF InOrder

\* The run goes on with a row.
LEMMA GoOnOrder ==
  ASSUME RingInv, OrderInv, Test, profiler_buffer[index] # Clear
  PROVE  OrderInv'
<1> SUFFICES ASSUME Orderly' PROVE InOrder'
  BY DEF OrderInv
<1>1. /\ monitor = "test" /\ monitor' = "print"
      /\ UNCHANGED <<profiler_buffer, samples, written, profiler_ptr, index, printed, rows, due>>
      /\ crossed' = (crossed \/ BeingWritten(index))
  BY DEF Test, writer, Looks
<1>2. Orderly /\ InOrder
  BY <1>1 DEF OrderInv, Orderly
<1>3. /\ Complete' = Complete /\ Writing' = Writing /\ Reading /\ Reading'
      /\ At' = At /\ Off' = Off /\ (AtSample' <=> AtSample)
  BY <1>1 DEF Complete, Writing, Reading, SlotOf, At, Off, Offset, AtSample
<1>4. \A w : Behind(w)' <=> Behind(w)
  BY <1>1, <1>3 DEF Behind
<1>5. Pace' /\ Search'
  BY <1>1, <1>2, <1>3 DEF InOrder, Pace, Search
<1>6. Contents'
  BY <1>1, <1>2, <1>4 DEF InOrder, Contents
<1>7. Alike'
  BY <1>1, <1>2, <1>3 DEF InOrder, Alike
<1>8. InStep => InStep'
  BY <1>1, <1>3 DEF InStep
<1>9. Past => Past'
  <2>1. ~PastStart
    <3>1. index \in Word /\ At = SlotOf(index)
      BY <1>2, OrderFacts DEF InOrder
    <3> QED BY <3>1 DEF PastStart
  <2>2. PastEnd => PastEnd'
    BY <1>1 DEF PastEnd
  <2> QED BY <1>1, <2>1, <2>2 DEF Past
<1> QED BY <1>2, <1>3, <1>5, <1>6, <1>7, <1>8, <1>9 DEF InOrder

\* The run ends, and has printed what it was to print.
LEMMA EndOrder ==
  ASSUME RingInv, OrderInv, Test, profiler_buffer[index] = Clear
  PROVE  OrderInv'
<1> SUFFICES ASSUME Orderly' PROVE InOrder'
  BY DEF OrderInv
<1>1. /\ monitor = "test" /\ monitor' = "idle"
      /\ UNCHANGED <<profiler_buffer, samples, written, profiler_ptr, index, printed, rows, due>>
      /\ crossed' = (crossed \/ BeingWritten(index))
  BY DEF Test, writer, Looks
<1>2. Orderly /\ InOrder
  BY <1>1 DEF OrderInv, Orderly
<1>3. Pace
  BY <1>2 DEF InOrder
<1>4. /\ Complete \in Nat /\ Len(rows) \in Nat /\ due \in Nat /\ index \in Nat /\ index \in Word
      /\ At \in Nat /\ Off \in 0 .. Width - 1 /\ At = SlotOf(index) /\ Off = Offset(index)
      /\ BUFD_MAX \in Nat /\ Offset(BUFD_MAX) = 0 /\ profiler_ptr \in Nat /\ Width \in Nat \ {0}
  BY <1>2, <1>3, OrderFacts
<1>5. /\ Complete' = Complete /\ Writing' = Writing /\ Reading /\ ~Reading'
  BY <1>1 DEF Complete, Writing, Reading, SlotOf
<1>6. printed = <<>> /\ Len(printed) = 0
  BY <1>1 DEF RingInv, Row
<1>7. InStep \/ Past
  BY <1>2, <1>5 DEF InOrder
<1>8. \A w : ~Behind(w)'
  BY <1>5 DEF Behind
<1>9. InStep => Off = 0
  BY <1>1, <1>6 DEF InStep
<1>10. due <= Len(rows)
  <2>1. CASE InStep
    <3> SUFFICES ASSUME Len(rows) < due PROVE FALSE
      BY <1>4
    <3>1. At = Len(rows) /\ At < Complete
      BY <1>3, <1>4, <2>1 DEF InStep, Pace
    <3>2. ~Behind(index)
      BY <1>4 DEF Behind
    <3>3. index \in Word /\ Len(rows) <= SlotOf(index) /\ SlotOf(index) < Complete
      BY <1>4, <3>1
    <3>4. profiler_buffer[index] # Clear
      BY <1>2, <3>2, <3>3, Unprinted
    <3> QED BY <3>4
  <2>2. CASE Past
    BY <2>2 DEF Past
  <2> QED BY <1>7, <2>1, <2>2
<1>11. ASSUME NEW w \in Word, Behind(w)
       PROVE  Len(rows) <= SlotOf(w) => profiler_ptr <= w
  <2>1. /\ w \in Nat /\ Offset(w) \in 0 .. Width - 1
        /\ SlotOf(w) = At /\ (w < index <=> Offset(w) < Off) /\ w < index
    BY <1>2, <1>3, <1>11, WordFacts DEF Behind
  <2>2. Off # 0
    BY <1>4, <2>1
  <2>3. PastStart /\ (profiler_ptr = 0 \/ Len(rows) > 0)
    BY <1>4, <1>7, <1>9, <2>2 DEF Past, PastEnd
  <2>4. At = 0
    BY <2>3 DEF PastStart
  <2> QED BY <1>4, <2>1, <2>3, <2>4
<1>12. Pace'
  BY <1>1, <1>3, <1>5, <1>10 DEF Pace
<1>13. Contents'
  <2>1. ASSUME NEW w \in Word
        PROVE  /\ SlotOf(w) < Len(rows) => profiler_buffer[w] = Clear
               /\ profiler_ptr <= w => profiler_buffer[w] \in {Clear, Junk}
               /\ Len(rows) <= SlotOf(w) /\ w < profiler_ptr => profiler_buffer[w] = SlotOf(w) + 1
    <3>1. w \in Nat
      BY <1>2, <1>3, WordFacts
    <3>2. Len(rows) <= SlotOf(w) /\ w < profiler_ptr => ~Behind(w)
      BY <1>4, <1>11, <3>1
    <3> QED BY <1>2, <3>2 DEF InOrder, Contents
  <2> QED BY <1>1, <1>8, <2>1 DEF Contents
<1>14. Alike'
  BY <1>1, <1>2 DEF InOrder, Alike
<1>15. Search'
  BY <1>1 DEF Search
<1> QED BY <1>5, <1>12, <1>13, <1>14, <1>15 DEF InOrder

\* While the module is not in the middle of the sample the monitor is at, and there is
\* nothing to print of it, nothing of it was written that is not cleared.
LEMMA NothingThere ==
  ASSUME RingInv, Orderly, InOrder, ~BeingWritten(index), ~AtSample,
         NEW w \in Word, SlotOf(w) = At, w < profiler_ptr
  PROVE  At < Len(rows)
<1>1. /\ Complete \in Nat /\ Len(rows) \in Nat /\ At \in Nat /\ At = SlotOf(index)
      /\ written \in Nat /\ written <= Width /\ Width \in Nat \ {0}
      /\ SlotOf(profiler_ptr) = Complete /\ profiler_ptr \in Nat
  BY OrderFacts DEF InOrder
<1>2. /\ w \in Nat /\ Offset(w) \in 0 .. Width - 1 /\ (Complete < SlotOf(w) => profiler_ptr < w)
      /\ SlotOf(w) = Complete => written # Width /\ Offset(w) < written
  BY WordFacts DEF InOrder
<1>3. SlotOf(w) # Complete
  <2> SUFFICES ASSUME SlotOf(w) = Complete PROVE FALSE
    OBVIOUS
  <2>1. 0 < written /\ written < Width
    BY <1>1, <1>2
  <2> QED BY <1>1, <2>1 DEF BeingWritten
<1>4. At < Complete
  BY <1>1, <1>2, <1>3
<1> QED BY <1>1, <1>4 DEF AtSample

\* A word is printed: of the sample that is at this place, or of none.
LEMMA PrintOrder == RingInv /\ OrderInv /\ PrintWord => OrderInv'
<1> SUFFICES ASSUME RingInv, OrderInv, PrintWord, Orderly' PROVE InOrder'
  BY DEF OrderInv
<1>1. /\ monitor = "print" /\ monitor' = "clear"
      /\ printed' = Append(printed, <<profiler_buffer[index], Off>>)
      /\ UNCHANGED <<profiler_buffer, samples, written, profiler_ptr, index, rows, due>>
      /\ crossed' = (crossed \/ BeingWritten(index))
  BY DEF PrintWord, Looks, writer, Off
<1>2. Orderly /\ InOrder /\ ~BeingWritten(index)
  BY <1>1 DEF OrderInv, Orderly
<1>3. Pace
  BY <1>2 DEF InOrder
<1>4. /\ Complete \in Nat /\ Len(rows) \in Nat /\ Len(printed) \in Nat
      /\ index \in Nat /\ index \in Word /\ At \in Nat /\ At = SlotOf(index)
      /\ Off \in 0 .. Width - 1 /\ Width \in Nat \ {0} /\ profiler_ptr \in Nat
      /\ Complete <= samples /\ samples \in Nat
      /\ samples <= SlotOf(BUFD_MAX) /\ SlotOf(BUFD_MAX) \in Nat
  BY <1>2, <1>3, OrderFacts
<1>5. /\ Complete' = Complete /\ Writing' = Writing /\ Reading /\ Reading'
      /\ At' = At /\ Off' = Off /\ (AtSample' <=> AtSample)
  BY <1>1 DEF Complete, Writing, Reading, SlotOf, At, Off, Offset, AtSample
<1>6. \A w : Behind(w)' <=> Behind(w)
  BY <1>1, <1>5 DEF Behind
<1>7. Pace' /\ Search'
  BY <1>1, <1>2, <1>5 DEF InOrder, Pace, Search
<1>8. Contents'
  BY <1>1, <1>2, <1>6 DEF InOrder, Contents
<1>9. Alike'
  BY <1>1, <1>2, <1>5 DEF InOrder, Alike
<1> DEFINE new == <<profiler_buffer[index], Off>>
<1>10. /\ DOMAIN printed = 1 .. Len(printed) /\ DOMAIN printed' = 1 .. Len(printed) + 1
       /\ Len(printed') = Len(printed) + 1
       /\ \A k \in 1 .. Len(printed) : printed'[k] = printed[k]
       /\ printed'[Len(printed) + 1] = new
  BY <1>1 DEF RingInv, RingTypeOK
<1>11. \A k \in DOMAIN printed' : /\ k \in DOMAIN printed \/ k = Len(printed) + 1
                                  /\ k \in DOMAIN printed => printed'[k] = printed[k]
                                  /\ k = Len(printed) + 1 => printed'[k] = new
  BY <1>4, <1>10
<1>12. ~AtSample => profiler_buffer[index] \notin Sample
  <2> SUFFICES ASSUME ~AtSample PROVE profiler_buffer[index] \in {Clear, Junk}
    BY DEF Sample, Clear, Junk
  <2>1. CASE index < profiler_ptr
    <3>1. At < Len(rows)
      BY <1>2, <1>4, <2>1, NothingThere
    <3> QED BY <1>2, <1>4, <3>1 DEF InOrder, Contents
  <2>2. CASE profiler_ptr <= index
    BY <1>2, <1>4, <2>2 DEF InOrder, Contents
  <2> QED BY <1>4, <2>1, <2>2
<1>13. AtSample => profiler_buffer[index] = At + 1
  <2> SUFFICES ASSUME AtSample PROVE profiler_buffer[index] = At + 1
    OBVIOUS
  <2>1. Len(rows) <= SlotOf(index) /\ SlotOf(index) < Complete /\ ~Behind(index)
    BY <1>4 DEF AtSample, Behind
  <2>2. profiler_buffer[index] = SlotOf(index) + 1
    BY <1>2, <1>4, <2>1, Unprinted
  <2> QED BY <1>4, <2>2
<1> HIDE DEF new
<1>14. ASSUME InStep PROVE InStep'
  <2>1. Len(printed) = Off /\ index < BUFD_MAX /\ (Len(rows) < due => At = Len(rows))
    BY <1>1, <1>14 DEF InStep
  <2>2. ASSUME NEW k \in DOMAIN printed'
        PROVE  IF AtSample THEN printed'[k] = <<At + 1, k - 1>> ELSE printed'[k][1] \notin Sample
    <3>1. CASE k \in DOMAIN printed
      BY <1>11, <1>14, <3>1 DEF InStep
    <3>2. CASE k = Len(printed) + 1
      <4>1. k - 1 = Off
        BY <1>4, <2>1, <3>2
      <4>2. printed'[k] = new
        BY <1>11, <3>2
      <4> QED BY <1>12, <1>13, <4>1, <4>2 DEF new
    <3> QED BY <1>11, <3>1, <3>2
  <2> QED BY <1>1, <1>4, <1>5, <1>10, <2>1, <2>2 DEF InStep
<1>15. ASSUME Past PROVE Past'
  <2>1. profiler_buffer[index] \notin Sample
    <3>1. CASE PastEnd
      <4>1. ~AtSample
        BY <1>4, <3>1 DEF AtSample, PastEnd
      <4> QED BY <1>12, <4>1
    <3>2. CASE PastStart
      <4>1. SlotOf(index) = 0 /\ \A w \in Word : SlotOf(w) = 0 => profiler_buffer[w] = Clear
        BY <1>4, <3>2 DEF PastStart
      <4>2. profiler_buffer[index] = Clear
        BY <1>4, <4>1
      <4> QED BY <4>2 DEF Clear, Sample
    <3> QED BY <1>15, <3>1, <3>2 DEF Past
  <2>2. \A k \in DOMAIN printed' : printed'[k][1] \notin Sample
    BY <1>11, <1>15, <2>1 DEF Past, new
  <2>3. PastEnd => PastEnd'
    BY <1>1, <1>4, <1>10 DEF PastEnd
  <2>4. PastStart => PastStart'
    BY <1>1, <1>4, <1>5, <1>10 DEF PastStart
  <2> QED BY <1>1, <1>15, <2>2, <2>3, <2>4 DEF Past
<1> QED BY <1>2, <1>5, <1>7, <1>8, <1>9, <1>14, <1>15 DEF InOrder

\* What every clearing of a word does.
LEMMA ClearFacts ==
  ASSUME RingInv, OrderInv, ClearWord, Orderly'
  PROVE  /\ Orderly /\ InOrder /\ Pace /\ ~BeingWritten(index)
         /\ monitor = "clear" /\ Reading /\ Reading' /\ monitor' \in {"test", "print"}
         /\ index' = IF index + 1 >= BUFD_MAX THEN 0 ELSE index + 1
         /\ \A w \in Word : profiler_buffer'[w] = IF w = index THEN Clear ELSE profiler_buffer[w]
         /\ Len(printed) = Width =>
              /\ printed' = <<>> /\ monitor' = "test"
              /\ rows' = IF HasSample(printed) THEN Append(rows, printed) ELSE rows
         /\ Len(printed) # Width => monitor' = "print" /\ rows' = rows /\ printed' = printed
         /\ samples' = samples /\ written' = written /\ due' = due
         /\ profiler_ptr' = profiler_ptr /\ Complete' = Complete /\ Writing' = Writing
         /\ At' = SlotOf(index') /\ Off' = Offset(index')
         /\ Search'
<1>1. /\ monitor = "clear" /\ monitor' \in {"test", "print"}
      /\ index' = IF index + 1 >= BUFD_MAX THEN 0 ELSE index + 1
      /\ profiler_buffer' = [profiler_buffer EXCEPT ![index] = Clear]
      /\ Len(printed) = Width =>
           /\ printed' = <<>> /\ monitor' = "test"
           /\ rows' = IF HasSample(printed) THEN Append(rows, printed) ELSE rows
      /\ Len(printed) # Width => monitor' = "print" /\ rows' = rows /\ printed' = printed
      /\ samples' = samples /\ written' = written /\ due' = due /\ profiler_ptr' = profiler_ptr
      /\ crossed' = (crossed \/ BeingWritten(index))
  BY DEF ClearWord, Advance, Looks, writer
<1>2. Orderly /\ InOrder /\ Pace /\ ~BeingWritten(index)
  BY <1>1 DEF OrderInv, Orderly, InOrder
<1>3. \A w \in Word : profiler_buffer'[w] = IF w = index THEN Clear ELSE profiler_buffer[w]
  BY <1>1 DEF RingInv, RingTypeOK
<1>4. Complete' = Complete /\ Writing' = Writing /\ Reading /\ Reading' /\ Search'
  BY <1>1 DEF Complete, Writing, Reading, SlotOf, Search
<1>5. At' = SlotOf(index') /\ Off' = Offset(index')
  BY DEF At, Off, SlotOf, Offset
<1> QED BY <1>1, <1>2, <1>3, <1>4, <1>5

\* A word that is not the last of its sample is cleared, and no row ends with it that is
\* of a sample.
LEMMA ClearWithin ==
  ASSUME RingInv, OrderInv, ClearWord, Orderly',
         Off # Width - 1, At < SlotOf(BUFD_MAX), rows' = rows
  PROVE  /\ index' = index + 1 /\ index' < BUFD_MAX /\ At' = At /\ Off' = Off + 1
         /\ Pace' /\ Contents'
<1>1. /\ Orderly /\ InOrder /\ Pace /\ Reading /\ Reading'
      /\ index' = IF index + 1 >= BUFD_MAX THEN 0 ELSE index + 1
      /\ \A w \in Word : profiler_buffer'[w] = IF w = index THEN Clear ELSE profiler_buffer[w]
      /\ samples' = samples /\ due' = due /\ profiler_ptr' = profiler_ptr
      /\ Complete' = Complete /\ Writing' = Writing
      /\ At' = SlotOf(index') /\ Off' = Offset(index')
      /\ monitor # "idle" /\ monitor' # "idle"
  BY ClearFacts
<1>2. /\ index \in Nat /\ At = SlotOf(index) /\ Off = Offset(index) /\ BUFD_MAX \in Nat
      /\ Offset(BUFD_MAX) = 0 /\ Off \in 0 .. Width - 1
  BY <1>1, OrderFacts
<1>3. SlotOf(index + 1) = At /\ Offset(index + 1) = Off + 1
  BY <1>2, NextWord
<1>4. index + 1 < BUFD_MAX
  <2>1. index + 1 \in Nat
    BY <1>2
  <2> QED BY <1>2, <1>3, <2>1, WordsBefore
<1>5. index' = index + 1 /\ index' < BUFD_MAX /\ At' = At /\ Off' = Off + 1
  <2>1. index' = index + 1
    BY <1>1, <1>2, <1>4
  <2> QED BY <1>1, <1>3, <1>4, <2>1
<1>6. Pace'
  BY <1>1 DEF Pace
<1>7. \A w \in Word : /\ w = index => Behind(w)'
                      /\ w # index => (Behind(w)' <=> Behind(w))
  <2> TAKE w \in Word
  <2>1. w \in Nat
    BY <1>1, WordFacts
  <2>2. Behind(w)' <=> SlotOf(w) = At /\ w < index + 1
    BY <1>1, <1>5 DEF Behind
  <2>3. Behind(w) <=> SlotOf(w) = At /\ w < index
    BY <1>1 DEF Behind
  <2>4. /\ w = index => w < index + 1
        /\ w # index => (w < index + 1 <=> w < index)
    BY <1>2, <2>1
  <2> QED BY <1>2, <2>2, <2>3, <2>4
<1>8. Contents'
  <2>1. ASSUME NEW w \in Word
        PROVE  /\ SlotOf(w) < Len(rows) \/ Behind(w)' => profiler_buffer'[w] = Clear
               /\ profiler_ptr <= w => profiler_buffer'[w] \in {Clear, Junk}
               /\ Len(rows) <= SlotOf(w) /\ w < profiler_ptr /\ ~Behind(w)' =>
                    profiler_buffer'[w] = SlotOf(w) + 1
    BY <1>1, <1>7 DEF InOrder, Contents
  <2> QED BY <1>1, <2>1 DEF Contents
<1> QED BY <1>5, <1>6, <1>8

\* A word in a row that goes on.
LEMMA ClearInRow ==
  ASSUME RingInv, OrderInv, ClearWord, Orderly', InStep, Len(printed) # Width
  PROVE  InOrder'
<1>1. /\ Orderly /\ InOrder /\ Pace /\ monitor = "clear" /\ Reading' /\ monitor' = "print"
      /\ \A w \in Word : profiler_buffer'[w] = IF w = index THEN Clear ELSE profiler_buffer[w]
      /\ rows' = rows /\ printed' = printed /\ due' = due
      /\ profiler_ptr' = profiler_ptr /\ Complete' = Complete /\ Search'
  BY ClearFacts
<1>2. /\ Off \in 0 .. Width - 1 /\ Width \in Nat /\ index \in Word /\ At = SlotOf(index)
      /\ At \in Nat /\ SlotOf(BUFD_MAX) \in Nat
  BY <1>1, OrderFacts
<1>3. Len(printed) = Off + 1 /\ index < BUFD_MAX
  BY <1>1 DEF InStep
<1>4. Off # Width - 1 /\ At < SlotOf(BUFD_MAX)
  <2>1. At < SlotOf(BUFD_MAX)
    BY <1>1, <1>2, <1>3, WordFacts
  <2> QED BY <1>2, <1>3, <2>1
<1>5. /\ index' < BUFD_MAX /\ At' = At /\ Off' = Off + 1 /\ Pace' /\ Contents'
  BY <1>1, <1>4, ClearWithin
<1>6. Alike'
  <2>1. \A v, w \in Word :
          /\ SlotOf(v) = SlotOf(w) /\ w < BUFD_MAX /\ profiler_ptr <= v /\ profiler_ptr <= w
          /\ SlotOf(w) # At
          => profiler_buffer'[v] = profiler_buffer'[w]
    BY <1>1, <1>2 DEF InOrder, Alike
  <2> QED BY <1>1, <1>5, <2>1 DEF Alike
<1>7. InStep'
  <2>1. AtSample' <=> AtSample
    BY <1>1, <1>5 DEF AtSample
  <2> QED BY <1>1, <1>3, <1>5, <2>1 DEF InStep
<1> QED BY <1>1, <1>5, <1>6, <1>7 DEF InOrder

\* A word of the first sample, when the monitor has run past its end.
LEMMA ClearPastStart ==
  ASSUME RingInv, OrderInv, ClearWord, Orderly', Past, PastStart
  PROVE  InOrder'
<1>1. /\ Orderly /\ InOrder /\ Pace /\ monitor = "clear" /\ Reading'
      /\ \A w \in Word : profiler_buffer'[w] = IF w = index THEN Clear ELSE profiler_buffer[w]
      /\ Len(printed) = Width =>
           /\ printed' = <<>> /\ monitor' = "test"
           /\ rows' = IF HasSample(printed) THEN Append(rows, printed) ELSE rows
      /\ Len(printed) # Width => monitor' = "print" /\ rows' = rows /\ printed' = printed
      /\ due' = due /\ profiler_ptr' = profiler_ptr /\ Search'
  BY ClearFacts
<1>2. /\ Off \in 0 .. Width - 1 /\ Width \in Nat /\ index \in Word /\ At = SlotOf(index)
      /\ SlotOf(BUFD_MAX) \in Nat \ {0} /\ Len(printed) \in Nat
  BY <1>1, OrderFacts
<1>3. Len(printed) = Off + 2 /\ At = 0 /\ Width # 1 /\ Len(printed) <= Width
  BY <1>1 DEF PastStart, RingInv, RingTypeOK
<1>4. rows' = rows /\ (Len(printed) = Width => printed' = <<>>)
  BY <1>1 DEF HasSample, Past
<1>5. Off # Width - 1 /\ At < SlotOf(BUFD_MAX)
  BY <1>2, <1>3
<1>6. /\ At' = At /\ Off' = Off + 1 /\ Pace' /\ Contents'
  BY <1>4, <1>5, ClearWithin
<1>7. \A w \in Word : SlotOf(w) = 0 => profiler_buffer'[w] = Clear
  BY <1>1 DEF PastStart
<1>8. Alike'
  <2>1. \A v, w \in Word :
          /\ SlotOf(v) = SlotOf(w) /\ w < BUFD_MAX /\ profiler_ptr <= v /\ profiler_ptr <= w
          /\ SlotOf(w) # At
          => profiler_buffer'[v] = profiler_buffer'[w]
    BY <1>1, <1>2 DEF InOrder, Alike
  <2>2. \A v, w \in Word : SlotOf(v) = SlotOf(w) /\ SlotOf(w) = At =>
          profiler_buffer'[v] = profiler_buffer'[w]
    BY <1>3, <1>7
  <2> QED BY <1>1, <2>1, <2>2 DEF Alike
<1>9. PastStart'
  <2>1. monitor' = "test" => Off' = Width - 1
    BY <1>1, <1>2, <1>3, <1>6
  <2>2. monitor' = "print" => Len(printed') = Off' + 1
    BY <1>1, <1>2, <1>3, <1>6
  <2>3. monitor' # "clear"
    BY <1>1
  <2> QED BY <1>3, <1>6, <1>7, <2>1, <2>2, <2>3 DEF PastStart
<1>10. Past'
  <2>1. \A k \in DOMAIN printed' : printed'[k][1] \notin Sample
    <3>1. CASE printed' = <<>>
      BY <3>1
    <3>2. CASE printed' = printed
      BY <3>2 DEF Past
    <3> QED BY <1>1, <3>1, <3>2
  <2> QED BY <1>1, <1>4, <1>9, <2>1 DEF Past
<1> QED BY <1>1, <1>6, <1>8, <1>10 DEF InOrder

\* The word behind those the monitor reads: it goes on with the first.
LEMMA ClearPastEnd ==
  ASSUME RingInv, OrderInv, ClearWord, Orderly', Past, PastEnd
  PROVE  InOrder'
<1>1. /\ Orderly /\ InOrder /\ Pace /\ monitor = "clear" /\ Reading'
      /\ index' = IF index + 1 >= BUFD_MAX THEN 0 ELSE index + 1
      /\ \A w \in Word : profiler_buffer'[w] = IF w = index THEN Clear ELSE profiler_buffer[w]
      /\ Len(printed) = Width =>
           /\ printed' = <<>> /\ monitor' = "test"
           /\ rows' = IF HasSample(printed) THEN Append(rows, printed) ELSE rows
      /\ Len(printed) # Width => monitor' = "print" /\ rows' = rows /\ printed' = printed
      /\ samples' = samples /\ due' = due /\ profiler_ptr' = profiler_ptr
      /\ Complete' = Complete /\ Writing' = Writing
      /\ At' = SlotOf(index') /\ Off' = Offset(index') /\ Search' /\ monitor' # "idle"
  BY ClearFacts
<1>2. /\ index \in Word /\ At = SlotOf(index) /\ Width \in Nat
      /\ BUFD_MAX \in Nat \ {0} /\ BUFD_MAX \in Word /\ SlotOf(BUFD_MAX) \in Nat \ {0}
      /\ Complete \in Nat /\ samples \in Nat /\ Complete <= samples /\ samples <= SlotOf(BUFD_MAX)
      /\ written # Width => samples = Complete + 1
      /\ SlotOf(0) = 0 /\ Offset(0) = 0 /\ profiler_ptr \in Nat
  BY <1>1, OrderFacts
<1>3. index = BUFD_MAX /\ Len(printed) = 1 /\ At = SlotOf(BUFD_MAX)
  BY <1>1, <1>2 DEF PastEnd
<1>4. index' = 0 /\ At' = 0 /\ Off' = 0
  <2>1. index' = 0
    BY <1>1, <1>2, <1>3
  <2> QED BY <1>1, <1>2, <2>1
<1>5. rows' = rows
  BY <1>1 DEF HasSample, Past
<1>6. Pace'
  BY <1>1, <1>5 DEF Pace
<1>7. \A w \in Word : ~Behind(w) /\ ~Behind(w)'
  <2> TAKE w \in Word
  <2>1. w \in Nat /\ (w < BUFD_MAX <=> SlotOf(w) < SlotOf(BUFD_MAX)) /\ SlotOf(w) \in Nat
    BY <1>1, WordFacts
  <2>2. ~(w < 0) /\ ~(SlotOf(w) = SlotOf(BUFD_MAX) /\ w < BUFD_MAX)
    BY <1>2, <2>1
  <2> QED BY <1>3, <1>4, <2>2 DEF Behind
<1>8. ~(index < profiler_ptr)
  <2>1. /\ Complete < SlotOf(BUFD_MAX) => profiler_ptr < BUFD_MAX
        /\ SlotOf(BUFD_MAX) = Complete => (BUFD_MAX < profiler_ptr => written # Width)
    BY <1>1, <1>2, WordFacts
  <2> QED BY <1>2, <1>3, <2>1
<1>9. Contents'
  <2>1. ASSUME NEW w \in Word
        PROVE  /\ SlotOf(w) < Len(rows) => profiler_buffer'[w] = Clear
               /\ profiler_ptr <= w => profiler_buffer'[w] \in {Clear, Junk}
               /\ Len(rows) <= SlotOf(w) /\ w < profiler_ptr =>
                    profiler_buffer'[w] = SlotOf(w) + 1
    <3>1. CASE w = index
      BY <1>1, <1>8, <3>1
    <3>2. CASE w # index
      BY <1>1, <1>7, <3>2 DEF InOrder, Contents
    <3> QED BY <3>1, <3>2
  <2> QED BY <1>1, <1>5, <1>7, <2>1 DEF Contents
<1>10. Alike'
  <2>1. \A w \in Word : w < BUFD_MAX => SlotOf(w) # At
    <3> TAKE w \in Word
    <3>1. SlotOf(w) \in Nat /\ (w < BUFD_MAX => SlotOf(w) < SlotOf(BUFD_MAX))
      BY <1>1, WordFacts
    <3> QED BY <1>2, <1>3, <3>1
  <2>2. \A v, w \in Word :
          /\ SlotOf(v) = SlotOf(w) /\ w < BUFD_MAX /\ profiler_ptr <= v /\ profiler_ptr <= w
          => profiler_buffer'[v] = profiler_buffer'[w]
    BY <1>1, <1>2, <2>1 DEF InOrder, Alike
  <2> QED BY <1>1, <2>2 DEF Alike
<1>11. CASE Width = 1
  <2>1. printed' = <<>> /\ monitor' = "test"
    BY <1>1, <1>3, <1>11
  <2>2. Len(printed') = 0 /\ \A k \in DOMAIN printed' : FALSE
    BY <2>1
  <2>3. ~(Len(rows) < due)
    <3>1. Len(rows) \in Nat /\ due \in Nat
      BY <1>1, OrderFacts
    <3> QED BY <3>1 DEF Past
  <2>4. index' < BUFD_MAX
    BY <1>2, <1>4
  <2>5. InStep'
    BY <1>1, <1>4, <1>5, <2>1, <2>2, <2>3, <2>4 DEF InStep
  <2> QED BY <1>1, <1>6, <1>9, <1>10, <2>5 DEF InOrder
<1>12. CASE Width # 1
  <2>1. printed' = printed /\ monitor' = "print"
    BY <1>1, <1>3, <1>12
  <2>2. \A w \in Word : SlotOf(w) = 0 => profiler_buffer'[w] = Clear
    <3> TAKE w \in Word
    <3>1. SlotOf(w) = 0 => w < BUFD_MAX
      <4>1. w < BUFD_MAX <=> SlotOf(w) < SlotOf(BUFD_MAX)
        BY <1>1, WordFacts
      <4> QED BY <1>2, <4>1
    <3> QED BY <1>1, <3>1 DEF PastEnd
  <2>3. PastStart'
    BY <1>3, <1>4, <1>12, <2>1, <2>2 DEF PastStart
  <2>4. Past'
    BY <1>1, <1>5, <2>1, <2>3 DEF Past
  <2> QED BY <1>1, <1>6, <1>9, <1>10, <2>4 DEF InOrder
<1> QED BY <1>11, <1>12

\* The last word of a row: all words of the sample are clear then, and the monitor is at
\* the first of the next, or of the first.
LEMMA ClearLast ==
  ASSUME RingInv, OrderInv, ClearWord, Orderly', InStep, Len(printed) = Width
  PROVE  /\ Off = Width - 1 /\ At < SlotOf(BUFD_MAX)
         /\ index' < BUFD_MAX /\ Off' = 0 /\ At' \in {0, At + 1}
         /\ At + 1 < SlotOf(BUFD_MAX) => At' = At + 1
         /\ \A w \in Word : ~Behind(w)'
         /\ \A w \in Word : IF SlotOf(w) = At
                            THEN profiler_buffer'[w] = Clear
                            ELSE profiler_buffer'[w] = profiler_buffer[w] /\ ~Behind(w)
         /\ Alike'
<1>1. /\ Orderly /\ InOrder /\ Pace /\ monitor = "clear" /\ Reading'
      /\ index' = IF index + 1 >= BUFD_MAX THEN 0 ELSE index + 1
      /\ \A w \in Word : profiler_buffer'[w] = IF w = index THEN Clear ELSE profiler_buffer[w]
      /\ due' = due /\ profiler_ptr' = profiler_ptr
      /\ At' = SlotOf(index') /\ Off' = Offset(index')
  BY ClearFacts
<1>2. /\ index \in Nat /\ index \in Word /\ At \in Nat /\ At = SlotOf(index)
      /\ Off \in 0 .. Width - 1 /\ Off = Offset(index) /\ Width \in Nat \ {0}
      /\ BUFD_MAX \in Nat \ {0} /\ SlotOf(BUFD_MAX) \in Nat \ {0} /\ Offset(BUFD_MAX) = 0
      /\ SlotOf(0) = 0 /\ Offset(0) = 0
  BY <1>1, OrderFacts
<1>3. Off = Width - 1 /\ index < BUFD_MAX
  <2>1. Width = Off + 1 /\ index < BUFD_MAX
    BY <1>1 DEF InStep
  <2> QED BY <1>2, <2>1
<1>4. At < SlotOf(BUFD_MAX)
  BY <1>1, <1>2, <1>3, WordFacts
<1>5. SlotOf(index + 1) = At + 1 /\ Offset(index + 1) = 0
  BY <1>2, <1>3, NextWord
<1>6. At + 1 < SlotOf(BUFD_MAX) => index + 1 < BUFD_MAX
  <2>1. index + 1 \in Nat
    BY <1>2
  <2> QED BY <1>2, <1>5, <2>1, WordsBefore
<1>7. /\ index' < BUFD_MAX /\ Off' = 0 /\ At' \in {0, At + 1}
      /\ At + 1 < SlotOf(BUFD_MAX) => At' = At + 1
  <2>1. CASE index + 1 >= BUFD_MAX
    <3>1. index' = 0 /\ ~(index + 1 < BUFD_MAX)
      BY <1>1, <1>2, <2>1
    <3>2. At' = 0 /\ Off' = 0
      BY <1>1, <1>2, <3>1
    <3> QED BY <1>2, <1>6, <3>1, <3>2
  <2>2. CASE ~(index + 1 >= BUFD_MAX)
    <3>1. index' = index + 1 /\ index + 1 < BUFD_MAX
      BY <1>1, <1>2, <2>2
    <3>2. At' = At + 1 /\ Off' = 0
      BY <1>1, <1>5, <3>1
    <3> QED BY <3>1, <3>2
  <2> QED BY <2>1, <2>2
<1>8. \A w \in Word : ~Behind(w)'
  <2> SUFFICES ASSUME NEW w \in Word, SlotOf(w) = At', w < index' PROVE FALSE
    BY DEF Behind
  <2>1. w \in Nat /\ Offset(w) \in 0 .. Width - 1 /\ index' \in Nat
    BY <1>1, <1>2, WordFacts
  <2>2. Offset(w) < Offset(index')
    BY <1>1, <2>1, Places
  <2> QED BY <1>1, <1>7, <2>1, <2>2
<1>9. \A w \in Word : IF SlotOf(w) = At
                      THEN profiler_buffer'[w] = Clear
                      ELSE profiler_buffer'[w] = profiler_buffer[w] /\ ~Behind(w)
  <2> TAKE w \in Word
  <2>1. CASE SlotOf(w) # At
    BY <1>1, <1>2, <2>1 DEF Behind
  <2>2. CASE SlotOf(w) = At
    <3>1. w \in Nat /\ Offset(w) \in 0 .. Width - 1 /\ (w < index <=> Offset(w) < Off)
      BY <1>1, <2>2, WordFacts
    <3>2. CASE w < index
      <4>1. Reading
        BY ClearFacts
      <4>2. Behind(w)
        BY <2>2, <3>2, <4>1 DEF Behind
      <4>3. profiler_buffer[w] = Clear
        BY <1>1, <4>2 DEF InOrder, Contents
      <4> QED BY <1>1, <2>2, <4>3
    <3>3. CASE ~(w < index)
      <4>1. Offset(w) = Offset(index) /\ SlotOf(w) = SlotOf(index)
        BY <1>2, <1>3, <2>2, <3>1, <3>3
      <4>2. w = index
        BY <1>2, <3>1, <4>1, SameWord
      <4> QED BY <1>1, <2>2, <4>2
    <3> QED BY <3>2, <3>3
  <2> QED BY <2>1, <2>2
<1>10. Alike'
  <2>1. \A v, w \in Word :
          /\ SlotOf(v) = SlotOf(w) /\ w < BUFD_MAX /\ profiler_ptr <= v /\ profiler_ptr <= w
          => profiler_buffer'[v] = profiler_buffer'[w]
    <3> SUFFICES ASSUME NEW v \in Word, NEW w \in Word, SlotOf(v) = SlotOf(w), w < BUFD_MAX,
                        profiler_ptr <= v, profiler_ptr <= w
                 PROVE  profiler_buffer'[v] = profiler_buffer'[w]
      OBVIOUS
    <3>1. CASE SlotOf(w) = At
      BY <1>9, <3>1
    <3>2. CASE SlotOf(w) # At
      <4>1. profiler_buffer[v] = profiler_buffer[w]
        BY <1>1, <3>2 DEF InOrder, Alike
      <4> QED BY <1>9, <3>2, <4>1
    <3> QED BY <3>1, <3>2
  <2> QED BY <1>1, <2>1 DEF Alike
<1> QED BY <1>3, <1>4, <1>7, <1>8, <1>9, <1>10

\* The row was of a sample: the next in order.
LEMMA ClearSampleRow ==
  ASSUME RingInv, OrderInv, ClearWord, Orderly', InStep, Len(printed) = Width, AtSample
  PROVE  InOrder'
<1>1. /\ Orderly /\ InOrder /\ Pace /\ monitor = "clear" /\ Reading'
      /\ printed' = <<>> /\ monitor' = "test"
      /\ rows' = IF HasSample(printed) THEN Append(rows, printed) ELSE rows
      /\ samples' = samples /\ due' = due /\ profiler_ptr' = profiler_ptr
      /\ Complete' = Complete /\ Writing' = Writing /\ Search' /\ monitor # "idle"
  BY ClearFacts
<1>2. /\ At \in Nat /\ Complete \in Nat /\ samples \in Nat /\ due \in Nat /\ Len(rows) \in Nat
      /\ Complete <= samples /\ samples <= SlotOf(BUFD_MAX) /\ SlotOf(BUFD_MAX) \in Nat
      /\ samples <= MaxSamples /\ MaxSamples \in Nat
      /\ SlotOf(profiler_ptr) = Complete /\ profiler_ptr \in Nat /\ Width \in Nat \ {0}
  BY <1>1, OrderFacts
<1>3. At = Len(rows) /\ At < Complete
  <2>1. Len(rows) <= At /\ At < Complete /\ samples <= due + 1 /\ due <= Complete
    BY <1>1 DEF AtSample, Pace
  <2>2. CASE Len(rows) < due
    BY <2>1, <2>2 DEF InStep
  <2>3. CASE due <= Len(rows)
    BY <1>2, <2>1, <2>3
  <2> QED BY <1>2, <2>1, <2>2, <2>3
<1>4. printed = WholeRow(Len(rows) + 1)
  <2>1. \A k \in 1 .. Width : printed[k] = <<Len(rows) + 1, k - 1>>
    <3>1. DOMAIN printed = 1 .. Width
      BY DEF RingInv, RingTypeOK
    <3>2. \A k \in DOMAIN printed : printed[k] = <<At + 1, k - 1>>
      BY DEF InStep
    <3> QED BY <1>3, <3>1, <3>2
  <2>2. printed = [k \in 1 .. Width |-> printed[k]]
    BY DEF RingInv, RingTypeOK
  <2> QED BY <2>1, <2>2 DEF WholeRow
<1>5. rows' = Append(rows, printed)
  <2>1. 1 \in DOMAIN printed /\ printed[1][1] \in Sample
    <3>1. 1 \in 1 .. Width /\ DOMAIN printed = 1 .. Width
      BY <1>2, <1>4 DEF WholeRow
    <3>2. printed[1] = <<Len(rows) + 1, 0>>
      BY <1>4, <3>1 DEF WholeRow
    <3> QED BY <1>2, <1>3, <3>1, <3>2 DEF Sample
  <2>2. HasSample(printed)
    BY <2>1 DEF HasSample
  <2> QED BY <1>1, <2>2
<1>6. /\ Len(rows') = Len(rows) + 1
      /\ \A k \in DOMAIN rows' : rows'[k] = WholeRow(k)
  <2>1. /\ Len(rows') = Len(rows) + 1
        /\ DOMAIN rows' = 1 .. Len(rows) + 1 /\ DOMAIN rows = 1 .. Len(rows)
        /\ \A k \in 1 .. Len(rows) : rows'[k] = rows[k]
        /\ rows'[Len(rows) + 1] = printed
    BY <1>5 DEF RingInv, RingTypeOK
  <2>2. ASSUME NEW k \in DOMAIN rows' PROVE rows'[k] = WholeRow(k)
    <3>1. CASE k \in 1 .. Len(rows)
      BY <1>1, <2>1, <3>1 DEF Pace
    <3>2. CASE k = Len(rows) + 1
      BY <1>4, <2>1, <3>2
    <3> QED BY <1>2, <2>1, <2>2, <3>1, <3>2
  <2> QED BY <2>1, <2>2
<1>7. /\ index' < BUFD_MAX /\ Off' = 0 /\ At' \in {0, At + 1}
      /\ At + 1 < SlotOf(BUFD_MAX) => At' = At + 1
      /\ \A w \in Word : ~Behind(w)'
      /\ \A w \in Word : IF SlotOf(w) = At
                         THEN profiler_buffer'[w] = Clear
                         ELSE profiler_buffer'[w] = profiler_buffer[w] /\ ~Behind(w)
      /\ Alike'
  BY ClearLast
<1>8. Pace'
  <2>1. Len(rows') <= Complete'
    BY <1>1, <1>2, <1>3, <1>6
  <2> QED BY <1>1, <1>6, <2>1 DEF Pace
<1>9. Contents'
  <2>1. ASSUME NEW w \in Word
        PROVE  /\ SlotOf(w) < Len(rows) + 1 => profiler_buffer'[w] = Clear
               /\ profiler_ptr <= w => profiler_buffer'[w] \in {Clear, Junk}
               /\ Len(rows) + 1 <= SlotOf(w) /\ w < profiler_ptr =>
                    profiler_buffer'[w] = SlotOf(w) + 1
    <3>1. SlotOf(w) \in Nat
      BY <1>1, WordFacts
    <3>2. CASE SlotOf(w) = At
      BY <1>2, <1>3, <1>7, <3>2
    <3>3. CASE SlotOf(w) # At
      <4>1. /\ SlotOf(w) < Len(rows) + 1 <=> SlotOf(w) < Len(rows)
            /\ Len(rows) + 1 <= SlotOf(w) <=> Len(rows) <= SlotOf(w)
        BY <1>2, <1>3, <3>1, <3>3
      <4>2. profiler_buffer'[w] = profiler_buffer[w] /\ ~Behind(w)
        BY <1>7, <3>3
      <4> QED BY <1>1, <4>1, <4>2 DEF InOrder, Contents
    <3> QED BY <3>2, <3>3
  <2> QED BY <1>1, <1>6, <1>7, <2>1 DEF Contents
<1>10. InStep'
  <2>1. Len(printed') = 0 /\ \A k \in DOMAIN printed' : FALSE
    BY <1>1
  <2>2. Len(rows') < due' => At' = Len(rows')
    <3>1. due <= Complete
      BY <1>1 DEF Pace
    <3> QED BY <1>1, <1>2, <1>3, <1>6, <1>7, <3>1
  <2> QED BY <1>1, <1>7, <2>1, <2>2 DEF InStep
<1> QED BY <1>1, <1>7, <1>8, <1>9, <1>10 DEF InOrder

\* The row was of words nobody has written: nothing is due.
LEMMA ClearOtherRow ==
  ASSUME RingInv, OrderInv, ClearWord, Orderly', InStep, Len(printed) = Width, ~AtSample
  PROVE  InOrder'
<1>1. /\ Orderly /\ InOrder /\ Pace /\ monitor = "clear" /\ Reading' /\ ~BeingWritten(index)
      /\ printed' = <<>> /\ monitor' = "test"
      /\ rows' = IF HasSample(printed) THEN Append(rows, printed) ELSE rows
      /\ samples' = samples /\ due' = due /\ profiler_ptr' = profiler_ptr
      /\ Complete' = Complete /\ Writing' = Writing /\ Search' /\ monitor # "idle"
  BY ClearFacts
<1>2. At \in Nat /\ Complete \in Nat /\ due \in Nat /\ Len(rows) \in Nat
  BY <1>1, OrderFacts
<1>3. rows' = rows
  BY <1>1 DEF HasSample, InStep
<1>4. due <= Len(rows)
  <2> SUFFICES ASSUME Len(rows) < due PROVE FALSE
    BY <1>2
  <2>1. At = Len(rows) /\ due <= Complete
    BY <1>1 DEF InStep, Pace
  <2> QED BY <1>2, <2>1 DEF AtSample
<1>5. /\ index' < BUFD_MAX /\ Off' = 0
      /\ \A w \in Word : ~Behind(w)'
      /\ \A w \in Word : IF SlotOf(w) = At
                         THEN profiler_buffer'[w] = Clear
                         ELSE profiler_buffer'[w] = profiler_buffer[w] /\ ~Behind(w)
      /\ Alike'
  BY ClearLast
<1>6. Pace'
  BY <1>1, <1>3 DEF Pace
<1>7. Contents'
  <2>1. ASSUME NEW w \in Word
        PROVE  /\ SlotOf(w) < Len(rows) => profiler_buffer'[w] = Clear
               /\ profiler_ptr <= w => profiler_buffer'[w] \in {Clear, Junk}
               /\ Len(rows) <= SlotOf(w) /\ w < profiler_ptr =>
                    profiler_buffer'[w] = SlotOf(w) + 1
    <3>1. CASE SlotOf(w) = At
      <4>1. ~(Len(rows) <= SlotOf(w) /\ w < profiler_ptr)
        <5> SUFFICES ASSUME Len(rows) <= At, w < profiler_ptr PROVE FALSE
          BY <3>1
        <5>1. At < Len(rows)
          BY <1>1, <3>1, NothingThere
        <5> QED BY <1>2, <5>1
      <4> QED BY <1>5, <3>1, <4>1
    <3>2. CASE SlotOf(w) # At
      <4>1. profiler_buffer'[w] = profiler_buffer[w] /\ ~Behind(w)
        BY <1>5, <3>2
      <4> QED BY <1>1, <4>1 DEF InOrder, Contents
    <3> QED BY <3>1, <3>2
  <2> QED BY <1>1, <1>3, <1>5, <2>1 DEF Contents
<1>8. InStep'
  <2>1. Len(printed') = 0 /\ \A k \in DOMAIN printed' : FALSE
    BY <1>1
  <2>2. ~(Len(rows') < due')
    BY <1>1, <1>2, <1>3, <1>4
  <2> QED BY <1>1, <1>5, <2>1, <2>2 DEF InStep
<1> QED BY <1>1, <1>5, <1>6, <1>7, <1>8 DEF InOrder

\* Every step keeps the order, as long as the two sides keep theirs.
THEOREM OrderInductive == RingSpec => []OrderInv
<1>1. RingInit => OrderInv
  BY OrderInitInv
<1>2. RingInv /\ OrderInv /\ [RingNext]_ringVars => OrderInv'
  <2> SUFFICES ASSUME RingInv, OrderInv, [RingNext]_ringVars PROVE OrderInv'
    OBVIOUS
  <2>1. CASE Begin \/ Store \/ Start \/ PrintWord
    BY <2>1, BeginOrder, StoreOrder, StartOrder, PrintOrder
  <2>2. CASE Scan
    BY <2>2, PassOrder, FoundOrder
  <2>3. CASE Test
    BY <2>3, GoOnOrder, EndOrder
  <2>4. CASE ClearWord
    <3> SUFFICES ASSUME Orderly' PROVE InOrder'
      BY DEF OrderInv
    <3>1. InStep \/ (Past /\ PastStart) \/ (Past /\ PastEnd)
      <4>1. InOrder /\ Reading
        BY <2>4, ClearFacts
      <4> QED BY <4>1 DEF InOrder, Past
    <3> QED BY <2>4, <3>1, ClearInRow, ClearSampleRow, ClearOtherRow, ClearPastStart, ClearPastEnd
  <2>5. CASE UNCHANGED ringVars
    <3>1. UNCHANGED <<profiler_buffer, samples, written, profiler_ptr, monitor, index, printed,
                      rows, due, crossed>>
      BY <2>5 DEF ringVars, writer, reader
    <3>2. Complete' = Complete /\ Writing' = Writing /\ (Orderly' <=> Orderly)
      BY <3>1 DEF Complete, Writing, SlotOf, Orderly
    <3>3. InOrder => Pace'
      BY <3>1, <3>2 DEF InOrder, Pace
    <3>4. InOrder => InOrder'
      BY <3>1, <3>2, <3>3, SameOrder
    <3> QED BY <3>2, <3>4 DEF OrderInv
  <2> QED BY <2>1, <2>2, <2>3, <2>4, <2>5 DEF RingNext, Monitor
<1> QED BY <1>1, <1>2, RingInductive, PTL DEF RingSpec

\* For rings and samples of any size: as long as the samples fit what the monitor reads,
\* the module and the monitor are never at one sample, and no run takes longer than the
\* time between two samples, the runs print each sample once, in one row, in its order,
\* and each run all that were complete when it began (monitor.c:60 to 77).
THEOREM EachSampleOnceHolds == RingSpec => []EachSampleOnce
<1>1. RingInv /\ OrderInv => EachSampleOnce
  <2> SUFFICES ASSUME RingInv, OrderInv, ~crossed, samples <= BUFD_MAX \div Width
               PROVE  /\ \A k \in DOMAIN rows : rows[k] = WholeRow(k)
                      /\ monitor = "idle" => Len(rows) >= due
    BY DEF EachSampleOnce
  <2>1. Pace
    BY DEF OrderInv, Orderly, InOrder, SlotOf
  <2>2. Len(rows) \in Nat /\ due \in Nat
    BY RingTypes DEF RingInv, RingTypeOK
  <2> QED BY <2>1, <2>2 DEF Pace
<1> QED BY <1>1, RingInductive, OrderInductive, PTL

=============================================================================
