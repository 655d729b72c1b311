------------------------ MODULE RateMonotonicProofs ------------------------
(***************************************************************************)
(* Proofs about the scheduler of CS423/MP2, for every set of tasks and     *)
(* every choice of periods and computation times.                          *)
(***************************************************************************)
EXTENDS RateMonotonic, FiniteSetTheorems, WellFoundedInduction, TLAPS

USE NullAssumption

-----------------------------------------------------------------------------
(* Types *)

\* Every step of the model keeps the types.
LEMMA TypeStep == TypeOK /\ [Next]_vars => TypeOK'
<1> SUFFICES ASSUME TypeOK, [Next]_vars PROVE TypeOK'
  OBVIOUS
<1> USE DEF TypeOK, AppPlaces, InHandler, DispatcherPlaces, CallbackPlaces, TaskStates,
            taskVars, timerVars, walkVars, dispVars, moduleVars
<1>1. CASE UNCHANGED vars
  BY <1>1 DEF vars
<1>2. ASSUME NEW p \in Task, Register(p) PROVE TypeOK'
  BY <1>2 DEF Register, Goto
<1>3. ASSUME NEW p \in Task, Admission(p) PROVE TypeOK'
  BY <1>3 DEF Admission, Goto
<1>4. ASSUME NEW p \in Task, Link(p) PROVE TypeOK'
  BY <1>4 DEF Link, Goto
<1>5. ASSUME NEW p \in Task, Check(p) PROVE TypeOK'
  BY <1>5 DEF Check, Goto
<1>6. ASSUME NEW p \in Task, Yield(p) PROVE TypeOK'
  <2>1. CASE p \in linked
    <3>1. started' \subseteq Task /\ oops' \in BOOLEAN
      BY <1>6, <2>1 DEF Yield
    <3>2. pc' \in [Task -> AppPlaces]
      BY <1>6, <2>1 DEF Yield, Goto
    <3>3. QED
      BY <1>6, <3>1, <3>2 DEF Yield
  <2>2. CASE p \notin linked
    BY <1>6, <2>2 DEF Yield
  <2>3. QED
    BY <2>1, <2>2
<1>7. ASSUME NEW p \in Task, ModTimer(p) PROVE TypeOK'
  BY <1>7 DEF ModTimer, Goto
<1>8. ASSUME NEW p \in Task, SetSleeping(p) PROVE TypeOK'
  BY <1>8 DEF SetSleeping, Goto
<1>9. ASSUME NEW p \in Task, ClearCurrent(p) PROVE TypeOK'
  BY <1>9 DEF ClearCurrent, Goto, MutexHeld
<1>10. ASSUME NEW p \in Task, KickDispatcher(p) PROVE TypeOK'
  <2>1. pc' \in [Task -> AppPlaces]
    BY <1>10 DEF KickDispatcher, Goto
  <2>2. oops' \in BOOLEAN /\ dlinux' \in {"run", "sleep"}
    BY <1>10 DEF KickDispatcher, Goto, WakeDispatcher
  <2>. QED
    BY <1>10, <2>1, <2>2 DEF KickDispatcher
<1>11. ASSUME NEW p \in Task, Block(p) PROVE TypeOK'
  BY <1>11 DEF Block, Goto
<1>12. ASSUME NEW p \in Task, Awake(p) PROVE TypeOK'
  BY <1>12 DEF Awake, Goto
<1>13. ASSUME NEW p \in Task, DoJob(p) PROVE TypeOK'
  BY <1>13 DEF DoJob, Goto
<1>14. ASSUME NEW p \in Task, Dereg(p) PROVE TypeOK'
  BY ZenonT(60), <1>14 DEF Dereg, Goto
<1>15. ASSUME NEW p \in Task, Unhook(p) PROVE TypeOK'
  <2>1. pc' \in [Task -> AppPlaces]
    BY <1>15 DEF Unhook, Goto
  <2>2. oops' \in BOOLEAN /\ dlinux' \in {"run", "sleep"}
    BY <1>15 DEF Unhook, WakeDispatcher
  <2>3. current' \in Task \cup {NULL}
    BY <1>15 DEF Unhook
  <2>4. /\ UNCHANGED <<taskVars, timerVars, dispVars, moduleVars, linux, prio, verdict>>
        /\ dpc # "preempt"
    BY <1>15 DEF Unhook, MutexHeld
  <2>. QED
    BY <2>1, <2>2, <2>3, <2>4
<1>16. ASSUME NEW p \in Task, Free(p) PROVE TypeOK'
  BY <1>16 DEF Free, Goto
<1>17. ASSUME NEW p \in Task, NoFile(p) PROVE TypeOK'
  BY <1>17 DEF NoFile, Goto
<1>18. ASSUME NEW p \in Task, NoMemory(p) PROVE TypeOK'
  BY <1>18 DEF NoMemory, Goto
<1>19. ASSUME NEW p \in Task, TimerExpires(p) PROVE TypeOK'
  <2>1. /\ cb' \in [Task -> CallbackPlaces] /\ armed' \subseteq Task
        /\ wtmp' \in Task \cup {NULL} /\ ahead' \subseteq Task
        /\ state' \in [Task -> TaskStates]
    BY <1>19 DEF TimerExpires
  <2>2. oops' \in BOOLEAN
    BY <1>19 DEF TimerExpires
  <2>. QED
    BY <1>19, <2>1, <2>2 DEF TimerExpires
<1>20. ASSUME NEW p \in Task, TimerLookup(p) PROVE TypeOK'
  <2>1. /\ cb' \in [Task -> CallbackPlaces] /\ armed' \subseteq Task
        /\ wtmp' \in Task \cup {NULL} /\ ahead' \subseteq Task
        /\ state' \in [Task -> TaskStates]
    BY <1>20 DEF TimerLookup, Walk, WalkEnds, Die
  <2>2. oops' \in BOOLEAN
    BY <1>20 DEF TimerLookup, Walk, WalkEnds, Die
  <2>. QED
    BY <1>20, <2>1, <2>2 DEF TimerLookup
<1>21. ASSUME NEW p \in Task, TimerWalk(p) PROVE TypeOK'
  <2>1. /\ cb' \in [Task -> CallbackPlaces] /\ armed' \subseteq Task
        /\ wtmp' \in Task \cup {NULL} /\ ahead' \subseteq Task
        /\ state' \in [Task -> TaskStates]
    BY <1>21 DEF TimerWalk, Walk, WalkEnds, Die
  <2>2. oops' \in BOOLEAN
    BY <1>21 DEF TimerWalk, Walk, WalkEnds, Die
  <2>. QED
    BY <1>21, <2>1, <2>2 DEF TimerWalk
<1>22. ASSUME NEW p \in Task, TimerReady(p) PROVE TypeOK'
  <2>1. /\ cb' \in [Task -> CallbackPlaces] /\ armed' \subseteq Task
        /\ wtmp' \in Task \cup {NULL} /\ ahead' \subseteq Task
        /\ state' \in [Task -> TaskStates]
    BY <1>22 DEF TimerReady, Walk, WalkEnds, Die
  <2>2. oops' \in BOOLEAN
    BY <1>22 DEF TimerReady, Walk, WalkEnds, Die
  <2>. QED
    BY <1>22, <2>1, <2>2 DEF TimerReady
<1>23. ASSUME NEW p \in Task, TimerWake(p) PROVE TypeOK'
  <2>1. cb' \in [Task -> CallbackPlaces]
    BY <1>23 DEF TimerWake
  <2>2. oops' \in BOOLEAN /\ dlinux' \in {"run", "sleep"}
    BY <1>23 DEF TimerWake, WakeDispatcher
  <2>. QED
    BY <1>23, <2>1, <2>2 DEF TimerWake
<1>24. CASE Park
  BY <1>24 DEF Park
<1>25. CASE Schedule
  BY <1>25 DEF Schedule
<1>26. CASE ShouldStop
  BY <1>26 DEF ShouldStop
<1>27. CASE NothingReady
  BY <1>27 DEF NothingReady
<1>28. CASE Choose
  BY <1>28 DEF Choose, HighestPriorityReady, Ready
<1>29. CASE Preempt
  BY <1>29 DEF Preempt
<1>30. CASE Promote
  BY <1>30 DEF Promote
<1>31. CASE WakeChosen
  BY <1>31 DEF WakeChosen
<1>32. CASE RemoveProc
  BY <1>32 DEF RemoveProc
<1>33. CASE KthreadStop
  BY <1>33 DEF KthreadStop
<1>34. CASE ExitUnlink
  BY <1>34 DEF ExitUnlink
<1>35. CASE ExitFree
  BY <1>35 DEF ExitFree
<1>36. CASE ExitReturns
  BY <1>36 DEF ExitReturns
<1>37. QED
  BY <1>1, <1>2, <1>3, <1>4, <1>5, <1>6, <1>7, <1>8, <1>9, <1>10, <1>11,
     <1>12, <1>13, <1>14, <1>15, <1>16, <1>17, <1>18, <1>19, <1>20, <1>21, <1>22, <1>23,
     <1>24, <1>25, <1>26, <1>27, <1>28, <1>29, <1>30, <1>31, <1>32, <1>33, <1>34, <1>35, <1>36
  DEF Next, Handler, Callback, Dispatcher, Exit

\* The initial state is type correct.
LEMMA InitTypes == Init => TypeOK
<1> SUFFICES ASSUME Init PROVE TypeOK
  OBVIOUS
<1>1. state \in [Task -> TaskStates] /\ linux \in [Task -> {"run", "sleep"}]
      /\ prio \in [Task -> {"normal", "fifo"}] /\ pc \in [Task -> AppPlaces]
      /\ verdict \in [Task -> {"none", "admitted", "stale", "refused"}]
      /\ cb \in [Task -> CallbackPlaces]
  BY DEF Init, TaskStates, AppPlaces, CallbackPlaces
<1>2. dpc \in DispatcherPlaces /\ (dpc \in {"preempt", "promote", "wake"} <=> dtmp # NULL)
  BY DEF Init, DispatcherPlaces
<1>3. stop \in BOOLEAN /\ oops \in BOOLEAN
  BY DEF Init
<1>4. QED
  BY <1>1, <1>2, <1>3 DEF Init, TypeOK

\* Every reachable state is type correct, whatever the tasks and their periods.
THEOREM TypeCorrect == Spec => []TypeOK
<1>1. Init => TypeOK
  BY InitTypes
<1>2. QED
  BY <1>1, TypeStep, PTL DEF Spec

-----------------------------------------------------------------------------
(* The inductive invariant *)

\* The initial state satisfies the strengthening.
LEMMA InitIInv == Init => IInv
BY InitTypes DEF Init, IInv, ListDiscipline, PointerDiscipline, UnloadDiscipline,
                 PreemptDiscipline, VerdictDiscipline, TimerDiscipline, LookupSucceeds, InHandler

\* The list is part of what is allocated, and every application is where the
\* presence of its structure on the list says it is.
LEMMA ListStep == IInv /\ [Next]_vars => ListDiscipline'
<1> SUFFICES ASSUME IInv, [Next]_vars PROVE ListDiscipline'
  OBVIOUS
<1> USE DEF IInv, TypeOK, ListDiscipline, AppPlaces, InHandler, DispatcherPlaces, CallbackPlaces,
            taskVars, timerVars, walkVars, dispVars, moduleVars, ListedPlaces, LookupSucceeds
<1>1. CASE UNCHANGED vars
  BY <1>1 DEF vars
<1>2. ASSUME NEW p \in Task, Register(p) PROVE ListDiscipline'
  BY <1>2 DEF Register, Goto
<1>3. ASSUME NEW p \in Task, Admission(p) PROVE ListDiscipline'
  BY <1>3 DEF Admission, Goto
<1>4. ASSUME NEW p \in Task, Link(p) PROVE ListDiscipline'
  BY <1>4 DEF Link, Goto
<1>5. ASSUME NEW p \in Task, Check(p) PROVE ListDiscipline'
  BY <1>5 DEF Check, Goto
<1>6. ASSUME NEW p \in Task, Yield(p) PROVE ListDiscipline'
  BY <1>6 DEF Yield, Goto
<1>7. ASSUME NEW p \in Task, ModTimer(p) PROVE ListDiscipline'
  BY <1>7 DEF ModTimer, Goto
<1>8. ASSUME NEW p \in Task, SetSleeping(p) PROVE ListDiscipline'
  BY <1>8 DEF SetSleeping, Goto
<1>9. ASSUME NEW p \in Task, ClearCurrent(p) PROVE ListDiscipline'
  BY <1>9 DEF ClearCurrent, Goto, MutexHeld
<1>10. ASSUME NEW p \in Task, KickDispatcher(p) PROVE ListDiscipline'
  BY <1>10 DEF KickDispatcher, Goto, WakeDispatcher
<1>11. ASSUME NEW p \in Task, Block(p) PROVE ListDiscipline'
  BY <1>11 DEF Block, Goto
<1>12. ASSUME NEW p \in Task, Awake(p) PROVE ListDiscipline'
  BY <1>12 DEF Awake, Goto
<1>13. ASSUME NEW p \in Task, DoJob(p) PROVE ListDiscipline'
  BY <1>13 DEF DoJob, Goto
<1>14. ASSUME NEW p \in Task, Dereg(p) PROVE ListDiscipline'
  BY <1>14 DEF Dereg, Goto
<1>15. ASSUME NEW p \in Task, Unhook(p) PROVE ListDiscipline'
  BY <1>15 DEF Unhook, Goto, WakeDispatcher, MutexHeld
<1>16. ASSUME NEW p \in Task, Free(p) PROVE ListDiscipline'
  BY <1>16 DEF Free, Goto
<1>17. ASSUME NEW p \in Task, NoFile(p) PROVE ListDiscipline'
  BY <1>17 DEF NoFile, Goto
<1>18. ASSUME NEW p \in Task, NoMemory(p) PROVE ListDiscipline'
  BY <1>18 DEF NoMemory, Goto
<1>19. ASSUME NEW p \in Task, TimerExpires(p) PROVE ListDiscipline'
  BY <1>19 DEF TimerExpires
<1>20. ASSUME NEW p \in Task, TimerLookup(p) PROVE ListDiscipline'
  BY <1>20 DEF TimerLookup, Walk, WalkEnds, Die
<1>21. ASSUME NEW p \in Task, TimerWalk(p) PROVE ListDiscipline'
  BY <1>21 DEF TimerWalk, Walk, WalkEnds, Die
<1>22. ASSUME NEW p \in Task, TimerReady(p) PROVE ListDiscipline'
  BY <1>22 DEF TimerReady, Walk, WalkEnds, Die
<1>23. ASSUME NEW p \in Task, TimerWake(p) PROVE ListDiscipline'
  BY <1>23 DEF TimerWake, WakeDispatcher
<1>24. CASE Park
  BY <1>24 DEF Park
<1>25. CASE Schedule
  BY <1>25 DEF Schedule
<1>26. CASE ShouldStop
  BY <1>26 DEF ShouldStop
<1>27. CASE NothingReady
  BY <1>27 DEF NothingReady
<1>28. CASE Choose
  BY <1>28 DEF Choose, HighestPriorityReady, Ready
<1>29. CASE Preempt
  BY <1>29 DEF Preempt
<1>30. CASE Promote
  BY <1>30 DEF Promote
<1>31. CASE WakeChosen
  BY <1>31 DEF WakeChosen
<1>32. CASE RemoveProc
  BY <1>32 DEF RemoveProc
<1>33. CASE KthreadStop
  BY <1>33 DEF KthreadStop
<1>34. CASE ExitUnlink
  BY <1>34 DEF ExitUnlink
<1>35. CASE ExitFree
  <2>1. pos \notin linked /\ rm = "stopping"
    BY <1>35 DEF ExitFree, UnloadDiscipline
  <2>2. \A p \in Task : pc[p] \notin InHandler
    BY <2>1 DEF UnloadDiscipline
  <2>. QED
    BY <1>35, <2>1, <2>2 DEF ExitFree
<1>36. CASE ExitReturns
  BY <1>36 DEF ExitReturns
<1>37. QED
  BY <1>1, <1>2, <1>3, <1>4, <1>5, <1>6, <1>7, <1>8, <1>9, <1>10, <1>11,
     <1>12, <1>13, <1>14, <1>15, <1>16, <1>17, <1>18, <1>19, <1>20, <1>21, <1>22, <1>23,
     <1>24, <1>25, <1>26, <1>27, <1>28, <1>29, <1>30, <1>31, <1>32, <1>33, <1>34, <1>35, <1>36
  DEF Next, Handler, Callback, Dispatcher, Exit

\* The two pointers lead to the list, or to a task whose unregistration still
\* has the mutex to take.
LEMMA PointerStep == IInv /\ [Next]_vars => PointerDiscipline'
<1> SUFFICES ASSUME IInv, [Next]_vars PROVE PointerDiscipline'
  OBVIOUS
<1> USE DEF IInv, TypeOK, PointerDiscipline, AppPlaces, InHandler, DispatcherPlaces, CallbackPlaces,
            taskVars, timerVars, walkVars, dispVars, moduleVars, ListedPlaces, ListDiscipline
<1>1. CASE UNCHANGED vars
  BY <1>1 DEF vars
<1>2. ASSUME NEW p \in Task, Register(p) PROVE PointerDiscipline'
  BY <1>2 DEF Register, Goto
<1>3. ASSUME NEW p \in Task, Admission(p) PROVE PointerDiscipline'
  BY <1>3 DEF Admission, Goto
<1>4. ASSUME NEW p \in Task, Link(p) PROVE PointerDiscipline'
  BY <1>4 DEF Link, Goto
<1>5. ASSUME NEW p \in Task, Check(p) PROVE PointerDiscipline'
  BY <1>5 DEF Check, Goto
<1>6. ASSUME NEW p \in Task, Yield(p) PROVE PointerDiscipline'
  BY <1>6 DEF Yield, Goto
<1>7. ASSUME NEW p \in Task, ModTimer(p) PROVE PointerDiscipline'
  BY <1>7 DEF ModTimer, Goto
<1>8. ASSUME NEW p \in Task, SetSleeping(p) PROVE PointerDiscipline'
  BY <1>8 DEF SetSleeping, Goto
<1>9. ASSUME NEW p \in Task, ClearCurrent(p) PROVE PointerDiscipline'
  BY <1>9 DEF ClearCurrent, Goto, MutexHeld
<1>10. ASSUME NEW p \in Task, KickDispatcher(p) PROVE PointerDiscipline'
  BY <1>10 DEF KickDispatcher, Goto, WakeDispatcher
<1>11. ASSUME NEW p \in Task, Block(p) PROVE PointerDiscipline'
  BY <1>11 DEF Block, Goto
<1>12. ASSUME NEW p \in Task, Awake(p) PROVE PointerDiscipline'
  BY <1>12 DEF Awake, Goto
<1>13. ASSUME NEW p \in Task, DoJob(p) PROVE PointerDiscipline'
  BY <1>13 DEF DoJob, Goto
<1>14. ASSUME NEW p \in Task, Dereg(p) PROVE PointerDiscipline'
  BY <1>14 DEF Dereg, Goto
<1>15. ASSUME NEW p \in Task, Unhook(p) PROVE PointerDiscipline'
  BY <1>15 DEF Unhook, Goto, WakeDispatcher, MutexHeld
<1>16. ASSUME NEW p \in Task, Free(p) PROVE PointerDiscipline'
  BY <1>16 DEF Free, Goto
<1>17. ASSUME NEW p \in Task, NoFile(p) PROVE PointerDiscipline'
  BY <1>17 DEF NoFile, Goto
<1>18. ASSUME NEW p \in Task, NoMemory(p) PROVE PointerDiscipline'
  BY <1>18 DEF NoMemory, Goto
<1>19. ASSUME NEW p \in Task, TimerExpires(p) PROVE PointerDiscipline'
  BY <1>19 DEF TimerExpires
<1>20. ASSUME NEW p \in Task, TimerLookup(p) PROVE PointerDiscipline'
  BY <1>20 DEF TimerLookup, Walk, WalkEnds, Die
<1>21. ASSUME NEW p \in Task, TimerWalk(p) PROVE PointerDiscipline'
  BY <1>21 DEF TimerWalk, Walk, WalkEnds, Die
<1>22. ASSUME NEW p \in Task, TimerReady(p) PROVE PointerDiscipline'
  BY <1>22 DEF TimerReady, Walk, WalkEnds, Die
<1>23. ASSUME NEW p \in Task, TimerWake(p) PROVE PointerDiscipline'
  BY <1>23 DEF TimerWake, WakeDispatcher
<1>24. CASE Park
  BY <1>24 DEF Park
<1>25. CASE Schedule
  BY <1>25 DEF Schedule
<1>26. CASE ShouldStop
  BY <1>26 DEF ShouldStop
<1>27. CASE NothingReady
  BY <1>27 DEF NothingReady
<1>28. CASE Choose
  BY <1>28 DEF Choose, HighestPriorityReady, Ready
<1>29. CASE Preempt
  BY <1>29 DEF Preempt
<1>30. CASE Promote
  BY <1>30 DEF Promote
<1>31. CASE WakeChosen
  BY <1>31 DEF WakeChosen
<1>32. CASE RemoveProc
  BY <1>32 DEF RemoveProc
<1>33. CASE KthreadStop
  BY <1>33 DEF KthreadStop
<1>34. CASE ExitUnlink
  BY <1>34 DEF ExitUnlink
<1>35. CASE ExitFree
  BY <1>35 DEF ExitFree
<1>36. CASE ExitReturns
  BY <1>36 DEF ExitReturns
<1>37. QED
  BY <1>1, <1>2, <1>3, <1>4, <1>5, <1>6, <1>7, <1>8, <1>9, <1>10, <1>11,
     <1>12, <1>13, <1>14, <1>15, <1>16, <1>17, <1>18, <1>19, <1>20, <1>21, <1>22, <1>23,
     <1>24, <1>25, <1>26, <1>27, <1>28, <1>29, <1>30, <1>31, <1>32, <1>33, <1>34, <1>35, <1>36
  DEF Next, Handler, Callback, Dispatcher, Exit

\* Unloading goes forward only past handlers that have returned.
LEMMA UnloadStep == IInv /\ [Next]_vars => UnloadDiscipline'
<1> SUFFICES ASSUME IInv, [Next]_vars PROVE UnloadDiscipline'
  OBVIOUS
<1> USE DEF IInv, TypeOK, UnloadDiscipline, AppPlaces, InHandler, DispatcherPlaces, CallbackPlaces,
            taskVars, timerVars, walkVars, dispVars, moduleVars, ListDiscipline
<1>1. CASE UNCHANGED vars
  BY <1>1 DEF vars
<1>2. ASSUME NEW p \in Task, Register(p) PROVE UnloadDiscipline'
  BY <1>2 DEF Register, Goto
<1>3. ASSUME NEW p \in Task, Admission(p) PROVE UnloadDiscipline'
  BY <1>3 DEF Admission, Goto
<1>4. ASSUME NEW p \in Task, Link(p) PROVE UnloadDiscipline'
  BY <1>4 DEF Link, Goto
<1>5. ASSUME NEW p \in Task, Check(p) PROVE UnloadDiscipline'
  BY <1>5 DEF Check, Goto
<1>6. ASSUME NEW p \in Task, Yield(p) PROVE UnloadDiscipline'
  BY <1>6 DEF Yield, Goto
<1>7. ASSUME NEW p \in Task, ModTimer(p) PROVE UnloadDiscipline'
  BY <1>7 DEF ModTimer, Goto
<1>8. ASSUME NEW p \in Task, SetSleeping(p) PROVE UnloadDiscipline'
  BY <1>8 DEF SetSleeping, Goto
<1>9. ASSUME NEW p \in Task, ClearCurrent(p) PROVE UnloadDiscipline'
  BY <1>9 DEF ClearCurrent, Goto, MutexHeld
<1>10. ASSUME NEW p \in Task, KickDispatcher(p) PROVE UnloadDiscipline'
  BY <1>10 DEF KickDispatcher, Goto, WakeDispatcher
<1>11. ASSUME NEW p \in Task, Block(p) PROVE UnloadDiscipline'
  BY <1>11 DEF Block, Goto
<1>12. ASSUME NEW p \in Task, Awake(p) PROVE UnloadDiscipline'
  BY <1>12 DEF Awake, Goto
<1>13. ASSUME NEW p \in Task, DoJob(p) PROVE UnloadDiscipline'
  BY <1>13 DEF DoJob, Goto
<1>14. ASSUME NEW p \in Task, Dereg(p) PROVE UnloadDiscipline'
  BY <1>14 DEF Dereg, Goto
<1>15. ASSUME NEW p \in Task, Unhook(p) PROVE UnloadDiscipline'
  BY <1>15 DEF Unhook, Goto, WakeDispatcher, MutexHeld
<1>16. ASSUME NEW p \in Task, Free(p) PROVE UnloadDiscipline'
  BY <1>16 DEF Free, Goto
<1>17. ASSUME NEW p \in Task, NoFile(p) PROVE UnloadDiscipline'
  BY <1>17 DEF NoFile, Goto
<1>18. ASSUME NEW p \in Task, NoMemory(p) PROVE UnloadDiscipline'
  BY <1>18 DEF NoMemory, Goto
<1>19. ASSUME NEW p \in Task, TimerExpires(p) PROVE UnloadDiscipline'
  BY <1>19 DEF TimerExpires
<1>20. ASSUME NEW p \in Task, TimerLookup(p) PROVE UnloadDiscipline'
  BY <1>20 DEF TimerLookup, Walk, WalkEnds, Die
<1>21. ASSUME NEW p \in Task, TimerWalk(p) PROVE UnloadDiscipline'
  BY <1>21 DEF TimerWalk, Walk, WalkEnds, Die
<1>22. ASSUME NEW p \in Task, TimerReady(p) PROVE UnloadDiscipline'
  BY <1>22 DEF TimerReady, Walk, WalkEnds, Die
<1>23. ASSUME NEW p \in Task, TimerWake(p) PROVE UnloadDiscipline'
  BY <1>23 DEF TimerWake, WakeDispatcher
<1>24. CASE Park
  BY <1>24 DEF Park
<1>25. CASE Schedule
  BY <1>25 DEF Schedule
<1>26. CASE ShouldStop
  BY <1>26 DEF ShouldStop
<1>27. CASE NothingReady
  BY <1>27 DEF NothingReady
<1>28. CASE Choose
  BY <1>28 DEF Choose, HighestPriorityReady, Ready
<1>29. CASE Preempt
  BY <1>29 DEF Preempt
<1>30. CASE Promote
  BY <1>30 DEF Promote
<1>31. CASE WakeChosen
  BY <1>31 DEF WakeChosen
<1>32. CASE RemoveProc
  BY <1>32 DEF RemoveProc
<1>33. CASE KthreadStop
  BY <1>33 DEF KthreadStop
<1>34. CASE ExitUnlink
  BY <1>34 DEF ExitUnlink
<1>35. CASE ExitFree
  BY <1>35 DEF ExitFree
<1>36. CASE ExitReturns
  BY <1>36 DEF ExitReturns
<1>37. QED
  BY <1>1, <1>2, <1>3, <1>4, <1>5, <1>6, <1>7, <1>8, <1>9, <1>10, <1>11,
     <1>12, <1>13, <1>14, <1>15, <1>16, <1>17, <1>18, <1>19, <1>20, <1>21, <1>22, <1>23,
     <1>24, <1>25, <1>26, <1>27, <1>28, <1>29, <1>30, <1>31, <1>32, <1>33, <1>34, <1>35, <1>36
  DEF Next, Handler, Callback, Dispatcher, Exit

\* What admission_control answered tells how a structure off the list got there.
LEMMA VerdictStep == IInv /\ [Next]_vars => VerdictDiscipline'
<1> SUFFICES ASSUME IInv, [Next]_vars PROVE VerdictDiscipline'
  OBVIOUS
<1> USE DEF IInv, TypeOK, VerdictDiscipline, AppPlaces, InHandler, DispatcherPlaces, CallbackPlaces,
            taskVars, timerVars, walkVars, dispVars, moduleVars, ListedPlaces, ListDiscipline, UnloadDiscipline
<1>1. CASE UNCHANGED vars
  BY <1>1 DEF vars
<1>2. ASSUME NEW p \in Task, Register(p) PROVE VerdictDiscipline'
  BY <1>2 DEF Register, Goto
<1>3. ASSUME NEW p \in Task, Admission(p) PROVE VerdictDiscipline'
  BY <1>3 DEF Admission, Goto
<1>4. ASSUME NEW p \in Task, Link(p) PROVE VerdictDiscipline'
  BY <1>4 DEF Link, Goto
<1>5. ASSUME NEW p \in Task, Check(p) PROVE VerdictDiscipline'
  BY <1>5 DEF Check, Goto
<1>6. ASSUME NEW p \in Task, Yield(p) PROVE VerdictDiscipline'
  BY <1>6 DEF Yield, Goto
<1>7. ASSUME NEW p \in Task, ModTimer(p) PROVE VerdictDiscipline'
  BY <1>7 DEF ModTimer, Goto
<1>8. ASSUME NEW p \in Task, SetSleeping(p) PROVE VerdictDiscipline'
  BY <1>8 DEF SetSleeping, Goto
<1>9. ASSUME NEW p \in Task, ClearCurrent(p) PROVE VerdictDiscipline'
  BY <1>9 DEF ClearCurrent, Goto, MutexHeld
<1>10. ASSUME NEW p \in Task, KickDispatcher(p) PROVE VerdictDiscipline'
  BY <1>10 DEF KickDispatcher, Goto, WakeDispatcher
<1>11. ASSUME NEW p \in Task, Block(p) PROVE VerdictDiscipline'
  BY <1>11 DEF Block, Goto
<1>12. ASSUME NEW p \in Task, Awake(p) PROVE VerdictDiscipline'
  BY <1>12 DEF Awake, Goto
<1>13. ASSUME NEW p \in Task, DoJob(p) PROVE VerdictDiscipline'
  BY <1>13 DEF DoJob, Goto
<1>14. ASSUME NEW p \in Task, Dereg(p) PROVE VerdictDiscipline'
  BY <1>14 DEF Dereg, Goto
<1>15. ASSUME NEW p \in Task, Unhook(p) PROVE VerdictDiscipline'
  BY <1>15 DEF Unhook, Goto, WakeDispatcher, MutexHeld
<1>16. ASSUME NEW p \in Task, Free(p) PROVE VerdictDiscipline'
  BY <1>16 DEF Free, Goto
<1>17. ASSUME NEW p \in Task, NoFile(p) PROVE VerdictDiscipline'
  BY <1>17 DEF NoFile, Goto
<1>18. ASSUME NEW p \in Task, NoMemory(p) PROVE VerdictDiscipline'
  BY <1>18 DEF NoMemory, Goto
<1>19. ASSUME NEW p \in Task, TimerExpires(p) PROVE VerdictDiscipline'
  BY <1>19 DEF TimerExpires
<1>20. ASSUME NEW p \in Task, TimerLookup(p) PROVE VerdictDiscipline'
  BY <1>20 DEF TimerLookup, Walk, WalkEnds, Die
<1>21. ASSUME NEW p \in Task, TimerWalk(p) PROVE VerdictDiscipline'
  BY <1>21 DEF TimerWalk, Walk, WalkEnds, Die
<1>22. ASSUME NEW p \in Task, TimerReady(p) PROVE VerdictDiscipline'
  BY <1>22 DEF TimerReady, Walk, WalkEnds, Die
<1>23. ASSUME NEW p \in Task, TimerWake(p) PROVE VerdictDiscipline'
  BY <1>23 DEF TimerWake, WakeDispatcher
<1>24. CASE Park
  BY <1>24 DEF Park
<1>25. CASE Schedule
  BY <1>25 DEF Schedule
<1>26. CASE ShouldStop
  BY <1>26 DEF ShouldStop
<1>27. CASE NothingReady
  BY <1>27 DEF NothingReady
<1>28. CASE Choose
  BY <1>28 DEF Choose, HighestPriorityReady, Ready
<1>29. CASE Preempt
  BY <1>29 DEF Preempt
<1>30. CASE Promote
  BY <1>30 DEF Promote
<1>31. CASE WakeChosen
  BY <1>31 DEF WakeChosen
<1>32. CASE RemoveProc
  BY <1>32 DEF RemoveProc
<1>33. CASE KthreadStop
  BY <1>33 DEF KthreadStop
<1>34. CASE ExitUnlink
  BY <1>34 DEF ExitUnlink
<1>35. CASE ExitFree
  BY <1>35 DEF ExitFree
<1>36. CASE ExitReturns
  BY <1>36 DEF ExitReturns
<1>37. QED
  BY <1>1, <1>2, <1>3, <1>4, <1>5, <1>6, <1>7, <1>8, <1>9, <1>10, <1>11,
     <1>12, <1>13, <1>14, <1>15, <1>16, <1>17, <1>18, <1>19, <1>20, <1>21, <1>22, <1>23,
     <1>24, <1>25, <1>26, <1>27, <1>28, <1>29, <1>30, <1>31, <1>32, <1>33, <1>34, <1>35, <1>36
  DEF Next, Handler, Callback, Dispatcher, Exit

\* A preempted task is demoted by the time its successor is woken.
LEMMA PreemptStep == IInv /\ [Next]_vars => PreemptDiscipline'
<1> SUFFICES ASSUME IInv, [Next]_vars PROVE PreemptDiscipline'
  OBVIOUS
<1> USE DEF IInv, TypeOK, PreemptDiscipline, AppPlaces, InHandler, DispatcherPlaces, CallbackPlaces,
            taskVars, timerVars, walkVars, dispVars, moduleVars
<1>1. CASE UNCHANGED vars
  BY <1>1 DEF vars
<1>2. ASSUME NEW p \in Task, Register(p) PROVE PreemptDiscipline'
  BY <1>2 DEF Register, Goto
<1>3. ASSUME NEW p \in Task, Admission(p) PROVE PreemptDiscipline'
  BY <1>3 DEF Admission, Goto
<1>4. ASSUME NEW p \in Task, Link(p) PROVE PreemptDiscipline'
  BY <1>4 DEF Link, Goto
<1>5. ASSUME NEW p \in Task, Check(p) PROVE PreemptDiscipline'
  BY <1>5 DEF Check, Goto
<1>6. ASSUME NEW p \in Task, Yield(p) PROVE PreemptDiscipline'
  BY <1>6 DEF Yield, Goto
<1>7. ASSUME NEW p \in Task, ModTimer(p) PROVE PreemptDiscipline'
  BY <1>7 DEF ModTimer, Goto
<1>8. ASSUME NEW p \in Task, SetSleeping(p) PROVE PreemptDiscipline'
  BY <1>8 DEF SetSleeping, Goto
<1>9. ASSUME NEW p \in Task, ClearCurrent(p) PROVE PreemptDiscipline'
  BY <1>9 DEF ClearCurrent, Goto, MutexHeld
<1>10. ASSUME NEW p \in Task, KickDispatcher(p) PROVE PreemptDiscipline'
  BY <1>10 DEF KickDispatcher, Goto, WakeDispatcher
<1>11. ASSUME NEW p \in Task, Block(p) PROVE PreemptDiscipline'
  BY <1>11 DEF Block, Goto
<1>12. ASSUME NEW p \in Task, Awake(p) PROVE PreemptDiscipline'
  BY <1>12 DEF Awake, Goto
<1>13. ASSUME NEW p \in Task, DoJob(p) PROVE PreemptDiscipline'
  BY <1>13 DEF DoJob, Goto
<1>14. ASSUME NEW p \in Task, Dereg(p) PROVE PreemptDiscipline'
  BY <1>14 DEF Dereg, Goto
<1>15. ASSUME NEW p \in Task, Unhook(p) PROVE PreemptDiscipline'
  BY <1>15 DEF Unhook, Goto, WakeDispatcher, MutexHeld
<1>16. ASSUME NEW p \in Task, Free(p) PROVE PreemptDiscipline'
  BY <1>16 DEF Free, Goto
<1>17. ASSUME NEW p \in Task, NoFile(p) PROVE PreemptDiscipline'
  BY <1>17 DEF NoFile, Goto
<1>18. ASSUME NEW p \in Task, NoMemory(p) PROVE PreemptDiscipline'
  BY <1>18 DEF NoMemory, Goto
<1>19. ASSUME NEW p \in Task, TimerExpires(p) PROVE PreemptDiscipline'
  BY <1>19 DEF TimerExpires
<1>20. ASSUME NEW p \in Task, TimerLookup(p) PROVE PreemptDiscipline'
  BY <1>20 DEF TimerLookup, Walk, WalkEnds, Die
<1>21. ASSUME NEW p \in Task, TimerWalk(p) PROVE PreemptDiscipline'
  BY <1>21 DEF TimerWalk, Walk, WalkEnds, Die
<1>22. ASSUME NEW p \in Task, TimerReady(p) PROVE PreemptDiscipline'
  BY <1>22 DEF TimerReady, Walk, WalkEnds, Die
<1>23. ASSUME NEW p \in Task, TimerWake(p) PROVE PreemptDiscipline'
  BY <1>23 DEF TimerWake, WakeDispatcher
<1>24. CASE Park
  BY <1>24 DEF Park
<1>25. CASE Schedule
  BY <1>25 DEF Schedule
<1>26. CASE ShouldStop
  BY <1>26 DEF ShouldStop
<1>27. CASE NothingReady
  BY <1>27 DEF NothingReady
<1>28. CASE Choose
  BY <1>28 DEF Choose, HighestPriorityReady, Ready
<1>29. CASE Preempt
  BY <1>29 DEF Preempt
<1>30. CASE Promote
  BY <1>30 DEF Promote
<1>31. CASE WakeChosen
  BY <1>31 DEF WakeChosen
<1>32. CASE RemoveProc
  BY <1>32 DEF RemoveProc
<1>33. CASE KthreadStop
  BY <1>33 DEF KthreadStop
<1>34. CASE ExitUnlink
  BY <1>34 DEF ExitUnlink
<1>35. CASE ExitFree
  BY <1>35 DEF ExitFree
<1>36. CASE ExitReturns
  BY <1>36 DEF ExitReturns
<1>37. QED
  BY <1>1, <1>2, <1>3, <1>4, <1>5, <1>6, <1>7, <1>8, <1>9, <1>10, <1>11,
     <1>12, <1>13, <1>14, <1>15, <1>16, <1>17, <1>18, <1>19, <1>20, <1>21, <1>22, <1>23,
     <1>24, <1>25, <1>26, <1>27, <1>28, <1>29, <1>30, <1>31, <1>32, <1>33, <1>34, <1>35, <1>36
  DEF Next, Handler, Callback, Dispatcher, Exit

\* While the module is loaded a task stays on the list from its registration to its
\* unregistration, so the look-ups of its own handlers succeed.
LEMMA LookupStep == IInv /\ [Next]_vars => LookupSucceeds'
<1> SUFFICES ASSUME IInv, [Next]_vars PROVE LookupSucceeds'
  OBVIOUS
<1> USE DEF IInv, TypeOK, LookupSucceeds, AppPlaces, InHandler, DispatcherPlaces, CallbackPlaces,
            taskVars, timerVars, walkVars, dispVars, moduleVars
<1>1. CASE UNCHANGED vars
  BY <1>1 DEF vars
<1>2. ASSUME NEW p \in Task, Register(p) PROVE LookupSucceeds'
  BY <1>2 DEF Register, Goto
<1>3. ASSUME NEW p \in Task, Admission(p) PROVE LookupSucceeds'
  BY <1>3 DEF Admission, Goto
<1>4. ASSUME NEW p \in Task, Link(p) PROVE LookupSucceeds'
  BY <1>4 DEF Link, Goto
<1>5. ASSUME NEW p \in Task, Check(p) PROVE LookupSucceeds'
  BY <1>5 DEF Check, Goto
<1>6. ASSUME NEW p \in Task, Yield(p) PROVE LookupSucceeds'
  BY <1>6 DEF Yield, Goto
<1>7. ASSUME NEW p \in Task, ModTimer(p) PROVE LookupSucceeds'
  BY <1>7 DEF ModTimer, Goto
<1>8. ASSUME NEW p \in Task, SetSleeping(p) PROVE LookupSucceeds'
  BY <1>8 DEF SetSleeping, Goto
<1>9. ASSUME NEW p \in Task, ClearCurrent(p) PROVE LookupSucceeds'
  BY <1>9 DEF ClearCurrent, Goto, MutexHeld
<1>10. ASSUME NEW p \in Task, KickDispatcher(p) PROVE LookupSucceeds'
  BY <1>10 DEF KickDispatcher, Goto, WakeDispatcher
<1>11. ASSUME NEW p \in Task, Block(p) PROVE LookupSucceeds'
  BY <1>11 DEF Block, Goto
<1>12. ASSUME NEW p \in Task, Awake(p) PROVE LookupSucceeds'
  BY <1>12 DEF Awake, Goto
<1>13. ASSUME NEW p \in Task, DoJob(p) PROVE LookupSucceeds'
  BY <1>13 DEF DoJob, Goto
<1>14. ASSUME NEW p \in Task, Dereg(p) PROVE LookupSucceeds'
  BY <1>14 DEF Dereg, Goto
<1>15. ASSUME NEW p \in Task, Unhook(p) PROVE LookupSucceeds'
  BY <1>15 DEF Unhook, Goto, WakeDispatcher, MutexHeld
<1>16. ASSUME NEW p \in Task, Free(p) PROVE LookupSucceeds'
  BY <1>16 DEF Free, Goto
<1>17. ASSUME NEW p \in Task, NoFile(p) PROVE LookupSucceeds'
  BY <1>17 DEF NoFile, Goto
<1>18. ASSUME NEW p \in Task, NoMemory(p) PROVE LookupSucceeds'
  BY <1>18 DEF NoMemory, Goto
<1>19. ASSUME NEW p \in Task, TimerExpires(p) PROVE LookupSucceeds'
  BY <1>19 DEF TimerExpires
<1>20. ASSUME NEW p \in Task, TimerLookup(p) PROVE LookupSucceeds'
  BY <1>20 DEF TimerLookup, Walk, WalkEnds, Die
<1>21. ASSUME NEW p \in Task, TimerWalk(p) PROVE LookupSucceeds'
  BY <1>21 DEF TimerWalk, Walk, WalkEnds, Die
<1>22. ASSUME NEW p \in Task, TimerReady(p) PROVE LookupSucceeds'
  BY <1>22 DEF TimerReady, Walk, WalkEnds, Die
<1>23. ASSUME NEW p \in Task, TimerWake(p) PROVE LookupSucceeds'
  BY <1>23 DEF TimerWake, WakeDispatcher
<1>24. CASE Park
  BY <1>24 DEF Park
<1>25. CASE Schedule
  BY <1>25 DEF Schedule
<1>26. CASE ShouldStop
  BY <1>26 DEF ShouldStop
<1>27. CASE NothingReady
  BY <1>27 DEF NothingReady
<1>28. CASE Choose
  BY <1>28 DEF Choose, HighestPriorityReady, Ready
<1>29. CASE Preempt
  BY <1>29 DEF Preempt
<1>30. CASE Promote
  BY <1>30 DEF Promote
<1>31. CASE WakeChosen
  BY <1>31 DEF WakeChosen
<1>32. CASE RemoveProc
  BY <1>32 DEF RemoveProc
<1>33. CASE KthreadStop
  BY <1>33 DEF KthreadStop
<1>34. CASE ExitUnlink
  BY <1>34 DEF ExitUnlink
<1>35. CASE ExitFree
  BY <1>35 DEF ExitFree
<1>36. CASE ExitReturns
  BY <1>36 DEF ExitReturns
<1>37. QED
  BY <1>1, <1>2, <1>3, <1>4, <1>5, <1>6, <1>7, <1>8, <1>9, <1>10, <1>11,
     <1>12, <1>13, <1>14, <1>15, <1>16, <1>17, <1>18, <1>19, <1>20, <1>21, <1>22, <1>23,
     <1>24, <1>25, <1>26, <1>27, <1>28, <1>29, <1>30, <1>31, <1>32, <1>33, <1>34, <1>35, <1>36
  DEF Next, Handler, Callback, Dispatcher, Exit

\* A timer runs only once its task has been linked, the timers look their tasks up
\* one at a time, and a look-up comes to a task that stays on the list.
LEMMA TimerStep == IInv /\ [Next]_vars => TimerDiscipline'
<1> SUFFICES ASSUME IInv, [Next]_vars PROVE TimerDiscipline'
  OBVIOUS
<1> USE DEF IInv, TypeOK, TimerDiscipline, AppPlaces, InHandler, DispatcherPlaces, CallbackPlaces,
            taskVars, timerVars, walkVars, dispVars, moduleVars
<1>1. CASE UNCHANGED vars
  BY <1>1 DEF vars
<1>2. ASSUME NEW p \in Task, Register(p) PROVE TimerDiscipline'
  BY <1>2 DEF Register, Goto
<1>3. ASSUME NEW p \in Task, Admission(p) PROVE TimerDiscipline'
  BY <1>3 DEF Admission, Goto
<1>4. ASSUME NEW p \in Task, Link(p) PROVE TimerDiscipline'
  BY <1>4 DEF Link, Goto
<1>5. ASSUME NEW p \in Task, Check(p) PROVE TimerDiscipline'
  BY <1>5 DEF Check, Goto
<1>6. ASSUME NEW p \in Task, Yield(p) PROVE TimerDiscipline'
  BY <1>6 DEF Yield, Goto
<1>7. ASSUME NEW p \in Task, ModTimer(p) PROVE TimerDiscipline'
  BY <1>7 DEF ModTimer, Goto
<1>8. ASSUME NEW p \in Task, SetSleeping(p) PROVE TimerDiscipline'
  BY <1>8 DEF SetSleeping, Goto
<1>9. ASSUME NEW p \in Task, ClearCurrent(p) PROVE TimerDiscipline'
  BY <1>9 DEF ClearCurrent, Goto, MutexHeld
<1>10. ASSUME NEW p \in Task, KickDispatcher(p) PROVE TimerDiscipline'
  BY <1>10 DEF KickDispatcher, Goto, WakeDispatcher
<1>11. ASSUME NEW p \in Task, Block(p) PROVE TimerDiscipline'
  BY <1>11 DEF Block, Goto
<1>12. ASSUME NEW p \in Task, Awake(p) PROVE TimerDiscipline'
  BY <1>12 DEF Awake, Goto
<1>13. ASSUME NEW p \in Task, DoJob(p) PROVE TimerDiscipline'
  BY <1>13 DEF DoJob, Goto
<1>14. ASSUME NEW p \in Task, Dereg(p) PROVE TimerDiscipline'
  BY <1>14 DEF Dereg, Goto
<1>15. ASSUME NEW p \in Task, Unhook(p) PROVE TimerDiscipline'
  BY <1>15 DEF Unhook, Goto, WakeDispatcher, MutexHeld
<1>16. ASSUME NEW p \in Task, Free(p) PROVE TimerDiscipline'
  BY <1>16 DEF Free, Goto
<1>17. ASSUME NEW p \in Task, NoFile(p) PROVE TimerDiscipline'
  BY <1>17 DEF NoFile, Goto
<1>18. ASSUME NEW p \in Task, NoMemory(p) PROVE TimerDiscipline'
  BY <1>18 DEF NoMemory, Goto
<1>19. ASSUME NEW p \in Task, TimerExpires(p) PROVE TimerDiscipline'
  BY <1>19 DEF TimerExpires
<1>20. ASSUME NEW p \in Task, TimerLookup(p) PROVE TimerDiscipline'
  BY <1>20 DEF TimerLookup, Walk, WalkEnds, Die
<1>21. ASSUME NEW p \in Task, TimerWalk(p) PROVE TimerDiscipline'
  BY <1>21 DEF TimerWalk, Walk, WalkEnds, Die
<1>22. ASSUME NEW p \in Task, TimerReady(p) PROVE TimerDiscipline'
  BY <1>22 DEF TimerReady, Walk, WalkEnds, Die
<1>23. ASSUME NEW p \in Task, TimerWake(p) PROVE TimerDiscipline'
  BY <1>23 DEF TimerWake, WakeDispatcher
<1>24. CASE Park
  BY <1>24 DEF Park
<1>25. CASE Schedule
  BY <1>25 DEF Schedule
<1>26. CASE ShouldStop
  BY <1>26 DEF ShouldStop
<1>27. CASE NothingReady
  BY <1>27 DEF NothingReady
<1>28. CASE Choose
  BY <1>28 DEF Choose, HighestPriorityReady, Ready
<1>29. CASE Preempt
  BY <1>29 DEF Preempt
<1>30. CASE Promote
  BY <1>30 DEF Promote
<1>31. CASE WakeChosen
  BY <1>31 DEF WakeChosen
<1>32. CASE RemoveProc
  BY <1>32 DEF RemoveProc
<1>33. CASE KthreadStop
  BY <1>33 DEF KthreadStop
<1>34. CASE ExitUnlink
  BY <1>34 DEF ExitUnlink
<1>35. CASE ExitFree
  BY <1>35 DEF ExitFree
<1>36. CASE ExitReturns
  BY <1>36 DEF ExitReturns
<1>37. QED
  BY <1>1, <1>2, <1>3, <1>4, <1>5, <1>6, <1>7, <1>8, <1>9, <1>10, <1>11,
     <1>12, <1>13, <1>14, <1>15, <1>16, <1>17, <1>18, <1>19, <1>20, <1>21, <1>22, <1>23,
     <1>24, <1>25, <1>26, <1>27, <1>28, <1>29, <1>30, <1>31, <1>32, <1>33, <1>34, <1>35, <1>36
  DEF Next, Handler, Callback, Dispatcher, Exit

\* The strengthening holds in every reachable state.
THEOREM Inductive == Spec => []IInv
<1>1. IInv /\ [Next]_vars => IInv'
  BY TypeStep, ListStep, PointerStep, UnloadStep, PreemptStep, VerdictStep,
     LookupStep, TimerStep DEF IInv
<1>2. QED
  BY InitIInv, <1>1, PTL DEF Spec

-----------------------------------------------------------------------------
(* What the invariant gives *)

\* The dispatching thread never follows a pointer to freed memory, however its
\* critical section interleaves with the handlers that unlink and free tasks.
THEOREM PointersGood == Spec => []NoDanglingPointer
<1>1. IInv => NoDanglingPointer
  BY DEF IInv, TypeOK, ListDiscipline, PointerDiscipline, NoDanglingPointer
<1>2. QED
  BY <1>1, Inductive, PTL

\* The handlers that use the result of the look-up unchecked find their task.
THEOREM LookupsSucceed == Spec => []LookupSucceeds
<1>1. IInv => LookupSucceeds
  BY DEF IInv
<1>2. QED
  BY <1>1, Inductive, PTL

\* Unloading leaves only the structures of refused registrations behind.
THEOREM OnlyRefusedAreLeaked == Spec => []OnlyRefusedLeak
<1>1. IInv => OnlyRefusedLeak
  BY DEF IInv, TypeOK, VerdictDiscipline, UnloadDiscipline, OnlyRefusedLeak, InHandler
<1>2. QED
  BY <1>1, Inductive, PTL

\* A task replaced by one of shorter period has left the real-time class first.
THEOREM Demotion == Spec => PreemptedIsDemoted
<1> DEFINE A == current # NULL /\ current' \notin {NULL, current}
                  /\ Period[current'] < Period[current] => prio[current] = "normal"
<1>1. IInv /\ [Next]_vars => [A]_vars
  <2> SUFFICES ASSUME IInv, Next, current # NULL, current' \notin {NULL, current},
                      Period[current'] < Period[current]
               PROVE  prio[current] = "normal"
    BY DEF vars
  <2> USE DEF taskVars, timerVars, dispVars, moduleVars
  <2>1. CASE WakeChosen
    BY <2>1 DEF WakeChosen, IInv, PreemptDiscipline
  <2>2. CASE \E p \in Task : ClearCurrent(p) \/ Unhook(p)
    BY <2>2 DEF ClearCurrent, Unhook
  <2>3. CASE current' = current
    BY <2>3
  <2>4. QED
    BY <2>1, <2>2, <2>3
    DEF Next, Handler, Dispatcher, Register, Admission, Link, Check, Yield,
        ModTimer, SetSleeping, KickDispatcher, Block, Awake, DoJob, Dereg, Free,
        NoFile, NoMemory, TimerExpires, TimerLookup, TimerWalk, TimerReady, TimerWake,
        Callback, Park, Schedule, ShouldStop, NothingReady, Choose, Preempt, Promote,
        RemoveProc, KthreadStop, Exit, ExitUnlink, ExitFree, ExitReturns
<1>2. QED
  BY <1>1, Inductive, PTL DEF Spec, PreemptedIsDemoted

\* Once the module is loaded, only a failed allocation brings a handler down, and
\* otherwise a timer does: in the memory of a freed task, in a look-up whose task, or
\* the node it has come to, leaves the list, or in waking a thread that has returned.
THEOREM CrashesExplained == Spec => OopsExplained
<1> DEFINE Explained == \E p \in Task :
             \/ pc'[p] = "nomem"
             \/ p \in armed \ armed' /\ p \notin alloc
             \/ cb[p] \in {"lock", "walk"} /\ cb'[p] = "dead"
                  /\ (p \notin linked \/ wtmp \notin linked \cup {NULL})
             \/ cb[p] = "wake" /\ cb'[p] = "idle" /\ dpc = "exited"
           A == oops' /\ ~oops => Explained
<1>1. IInv /\ [Next]_vars => [A]_vars
  <2> SUFFICES ASSUME IInv, Next, oops', ~oops
               PROVE  Explained
    BY DEF vars
  <2> USE DEF taskVars, timerVars, walkVars, dispVars, moduleVars
  <2>1. ASSUME NEW p \in Task, NoMemory(p)
        PROVE  Explained
    BY <2>1 DEF NoMemory, Goto, IInv, TypeOK
  <2>2. ASSUME NEW p \in Task, TimerExpires(p)
        PROVE  Explained
    BY <2>2 DEF TimerExpires
  <2>3. ASSUME NEW p \in Task, TimerLookup(p)
        PROVE  Explained
    <3>1. linked = {} /\ Die(p)
      BY <2>3 DEF TimerLookup, Walk
    <3>2. cb[p] = "lock" /\ cb'[p] = "dead"
      BY <2>3, <3>1 DEF TimerLookup, Die, WalkEnds, IInv, TypeOK
    <3>. QED
      BY <3>1, <3>2
  <2>4. ASSUME NEW p \in Task, TimerWalk(p)
        PROVE  Explained
    <3>1. Die(p) /\ (wtmp \notin linked \/ ahead \cap linked = {})
      BY <2>4 DEF TimerWalk, Walk
    <3>2. cb[p] = "walk" /\ cb'[p] = "dead" /\ wtmp # p /\ wtmp # NULL
      BY <2>4, <3>1 DEF TimerWalk, Die, WalkEnds, IInv, TypeOK, TimerDiscipline
    <3>3. p \notin linked \/ wtmp \notin linked \cup {NULL}
      BY <3>1, <3>2 DEF IInv, TimerDiscipline
    <3>. QED
      BY <3>2, <3>3
  <2>5. ASSUME NEW p \in Task, TimerReady(p)
        PROVE  Explained
    <3>1. p \notin alloc /\ Die(p)
      BY <2>5 DEF TimerReady
    <3>2. cb[p] = "walk" /\ cb'[p] = "dead"
      BY <2>5, <3>1 DEF TimerReady, Die, WalkEnds, IInv, TypeOK
    <3>3. p \notin linked
      BY <3>1 DEF IInv, ListDiscipline
    <3>. QED
      BY <3>2, <3>3
  <2>6. ASSUME NEW p \in Task, TimerWake(p)
        PROVE  Explained
    <3>1. dpc = "exited"
      BY <2>6 DEF TimerWake, WakeDispatcher
    <3>2. cb[p] = "wake" /\ cb'[p] = "idle"
      BY <2>6 DEF TimerWake, IInv, TypeOK
    <3>. QED
      BY <3>1, <3>2
  <2>7. ASSUME NEW p \in Task, Yield(p) \/ Dereg(p)
        PROVE  FALSE
    BY <2>7 DEF Yield, Dereg, IInv, LookupSucceeds
  <2>8. ASSUME NEW p \in Task, KickDispatcher(p) \/ Unhook(p)
        PROVE  FALSE
    BY <2>8 DEF KickDispatcher, Unhook, WakeDispatcher, IInv, UnloadDiscipline,
                InHandler
  <2>9. CASE oops' = oops
    BY <2>9
  <2>10. QED
    BY <2>1, <2>2, <2>3, <2>4, <2>5, <2>6, <2>7, <2>8, <2>9
    DEF Next, Handler, Callback, Dispatcher, Register, Admission, Link, Check,
        ModTimer, SetSleeping, Block, Awake, DoJob, Free, ClearCurrent,
        NoFile, Park, Schedule, ShouldStop, NothingReady, Choose, Preempt,
        Promote, WakeChosen, RemoveProc, KthreadStop, Exit, ExitUnlink, ExitFree,
        ExitReturns
<1>2. QED
  BY <1>1, Inductive, PTL DEF Spec, OopsExplained

-----------------------------------------------------------------------------
(* The bound of the admission: sums over finite sets, and the budget *)

\* A set of finite sets that is not empty has a member of which no other member is a
\* part: what the sums below need of induction over finite sets.
LEMMA Minimal ==
  ASSUME NEW T, T # {}, \A s \in T : IsFiniteSet(s)
  PROVE  \E s \in T : \A r \in T : ~(r \subseteq s /\ r # s)
<1> DEFINE S == UNION T
<1>1. IsWellFoundedOn(StrictSubsetOrdering(S), FiniteSubsetsOf(S))
  BY FS_StrictSubsetOrderingWellFounded
<1>2. T \subseteq FiniteSubsetsOf(S)
  BY DEF FiniteSubsetsOf
<1>3. PICK s \in T : \A r \in T : ~(<<r, s>> \in StrictSubsetOrdering(S))
  BY <1>1, <1>2, WFMin
<1>4. ASSUME NEW r \in T, r \subseteq s, r # s PROVE FALSE
  <2>1. r \in SUBSET S /\ s \in SUBSET S
    OBVIOUS
  <2>2. <<r, s>> \in StrictSubsetOrdering(S)
    BY <1>4, <2>1 DEF StrictSubsetOrdering
  <2>. QED
    BY <1>3, <2>2
<1>. QED
  BY <1>4

\* The functions that the sum of MapThenSumSet, over the parts of S, is defined by.
IsSum(g, S) ==
  g = [s \in SUBSET S |-> IF s = {} THEN 0
                          ELSE LET p == CHOOSE p \in s : TRUE IN Ratio(p) + g[s \ {p}]]

\* Utilisation is the value of such a function.
LEMMA SumIs ==
  ASSUME NEW S
  PROVE  Utilisation(S) = (CHOOSE g : IsSum(g, S))[S]
BY DEF Utilisation, MapThenSumSet, MapThenFoldSet, IsSum

\* The element that the sum over s takes out first.
Chosen(s) == CHOOSE p \in s : TRUE

\* What a sum over S is at a part of S.
LEMMA SumAt ==
  ASSUME NEW g, NEW S, IsSum(g, S), NEW s \in SUBSET S
  PROVE  /\ g[s] = IF s = {} THEN 0 ELSE Ratio(Chosen(s)) + g[s \ {Chosen(s)}]
         /\ s # {} => Chosen(s) \in s
BY DEF IsSum, Chosen

\* A sum over S and one over a part of S agree on that part.
LEMMA SumUnique ==
  ASSUME NEW S, IsFiniteSet(S), NEW g, NEW h, NEW R \in SUBSET S, IsSum(g, S), IsSum(h, R)
  PROVE  h = [s \in SUBSET R |-> g[s]]
<1> DEFINE T == {s \in SUBSET R : g[s] # h[s]}
<1>1. \A s \in T : IsFiniteSet(s)
  BY FS_Subset
<1>2. T = {}
  <2> SUFFICES ASSUME T # {} PROVE FALSE
    OBVIOUS
  <2>1. PICK s \in T : \A r \in T : ~(r \subseteq s /\ r # s)
    <3> HIDE DEF T
    <3>. QED
      BY <1>1, Minimal
  <2>2. s \in SUBSET S /\ s \in SUBSET R /\ g[s] # h[s]
    BY <2>1
  <2>3. s # {}
    BY <2>2, SumAt
  <2>4. Chosen(s) \in s
    BY <2>2, <2>3, SumAt
  <2>5. g[s \ {Chosen(s)}] = h[s \ {Chosen(s)}]
    BY <2>1, <2>4
  <2>6. g[s] = h[s]
    BY <2>2, <2>3, <2>5, SumAt
  <2>. QED
    BY <2>2, <2>6
<1>3. h = [s \in SUBSET R |-> h[s]]
  BY DEF IsSum
<1>. QED
  BY <1>2, <1>3

\* There is a sum over every finite set.
LEMMA SumExists ==
  ASSUME NEW S, IsFiniteSet(S)
  PROVE  \E g : IsSum(g, S)
<1> DEFINE T == {s \in SUBSET S : ~\E g : IsSum(g, s)}
<1>1. \A s \in T : IsFiniteSet(s)
  BY FS_Subset
<1>2. T = {}
  <2> SUFFICES ASSUME T # {} PROVE FALSE
    OBVIOUS
  <2>1. PICK s \in T : \A r \in T : ~(r \subseteq s /\ r # s)
    <3> HIDE DEF T
    <3>. QED
      BY <1>1, Minimal
  <2> DEFINE G(r) == CHOOSE g : IsSum(g, r)
             c == Chosen(s)
             g == [r \in SUBSET s |-> IF r # s THEN G(r)[r]
                                      ELSE IF s = {} THEN 0 ELSE Ratio(c) + G(s \ {c})[s \ {c}]]
  <2>2. ASSUME NEW r \in SUBSET s, r # s PROVE IsSum(G(r), r)
    <3>1. r \notin T /\ r \in SUBSET S
      BY <2>1, <2>2
    <3>2. \E f : IsSum(f, r)
      BY <3>1
    <3>. QED
      BY <3>2
  <2>3. ASSUME NEW r \in SUBSET s
        PROVE  g[r] = IF r = {} THEN 0 ELSE Ratio(Chosen(r)) + g[r \ {Chosen(r)}]
    <3>1. r # {} => Chosen(r) \in r
      BY DEF Chosen
    <3>2. CASE r = s
      BY <3>1, <3>2
    <3>3. CASE r # s /\ r = {}
      <4>1. G(r)[r] = 0
        BY <2>2, <3>3, SumAt
      <4>. QED
        BY <3>3, <4>1
    <3>4. CASE r # s /\ r # {}
      <4> DEFINE q == r \ {Chosen(r)}
      <4>1. IsSum(G(r), r) /\ IsSum(G(q), q) /\ q \in SUBSET r /\ q # r /\ q # s /\ q \in SUBSET s
        BY <2>2, <3>1, <3>4
      <4>2. G(r)[r] = Ratio(Chosen(r)) + G(r)[q]
        BY <3>4, <4>1, SumAt
      <4>3. IsFiniteSet(r)
        BY <2>1, FS_Subset
      <4>4. G(q) = [u \in SUBSET q |-> G(r)[u]]
        <5> HIDE DEF G, q
        <5>. QED
          BY <4>1, <4>3, SumUnique
      <4>5. G(q)[q] = G(r)[q]
        BY <4>4
      <4>. QED
        BY <3>4, <4>1, <4>2, <4>5
    <3>. QED
      BY <3>2, <3>3, <3>4
  <2>4. IsSum(g, s)
    <3>1. g = [r \in SUBSET s |-> g[r]]
      OBVIOUS
    <3> HIDE DEF g
    <3>. QED
      BY <2>3, <3>1 DEF IsSum, Chosen
  <2>. QED
    BY <2>1, <2>4
<1>. QED
  BY <1>2

\* The sum over a finite set takes out the chosen element.
LEMMA SumOf ==
  ASSUME NEW S, IsFiniteSet(S)
  PROVE  Utilisation(S) = IF S = {} THEN 0 ELSE Ratio(Chosen(S)) + Utilisation(S \ {Chosen(S)})
<1> DEFINE g == CHOOSE f : IsSum(f, S)
           R == S \ {Chosen(S)}
           h == CHOOSE f : IsSum(f, R)
<1>1. IsSum(g, S)
  BY SumExists
<1>2. IsFiniteSet(R) /\ R \in SUBSET S
  BY FS_Subset
<1>3. IsSum(h, R)
  BY <1>2, SumExists
<1>4. Utilisation(S) = g[S] /\ Utilisation(R) = h[R]
  BY SumIs
<1>5. h[R] = g[R]
  <2> HIDE DEF g, h, R
  <2>1. h = [s \in SUBSET R |-> g[s]]
    BY <1>1, <1>2, <1>3, SumUnique
  <2>. QED
    BY <2>1
<1>6. g[S] = IF S = {} THEN 0 ELSE Ratio(Chosen(S)) + g[R]
  <2> HIDE DEF g
  <2>. QED
    BY <1>1, SumAt
<1>. QED
  BY <1>4, <1>5, <1>6

\* The share of a task is a natural number.
LEMMA RatioType == \A p \in Task : Ratio(p) \in Nat
BY PeriodAssumption, ComputationAssumption DEF Ratio, multiplier

\* The utilisation of finitely many tasks is a natural number.
LEMMA SumType ==
  ASSUME NEW S \in SUBSET Task, IsFiniteSet(S)
  PROVE  Utilisation(S) \in Nat
<1> DEFINE T == {s \in SUBSET S : Utilisation(s) \notin Nat}
<1>1. \A s \in T : IsFiniteSet(s)
  BY FS_Subset
<1>2. T = {}
  <2> SUFFICES ASSUME T # {} PROVE FALSE
    OBVIOUS
  <2>1. PICK s \in T : \A r \in T : ~(r \subseteq s /\ r # s)
    <3> HIDE DEF T
    <3>. QED
      BY <1>1, Minimal
  <2>2. s # {} /\ Chosen(s) \in s
    <3>1. Utilisation({}) = 0
      BY SumOf, FS_EmptySet
    <3>2. Utilisation(s) \notin Nat
      BY <2>1
    <3>3. Utilisation(s) # Utilisation({})
      BY <3>1, <3>2
    <3>. QED
      BY <3>3 DEF Chosen
  <2>3. Utilisation(s \ {Chosen(s)}) \in Nat
    BY <2>1, <2>2
  <2>4. Utilisation(s) = Ratio(Chosen(s)) + Utilisation(s \ {Chosen(s)})
    BY <1>1, <2>1, <2>2, SumOf
  <2>. QED
    BY <2>1, <2>2, <2>3, <2>4, RatioType
<1>. QED
  BY <1>2

\* Any task of a set, not only the one chosen, can be taken out of the sum.
LEMMA SumAdd ==
  ASSUME NEW S \in SUBSET Task, IsFiniteSet(S), NEW p \in S
  PROVE  Utilisation(S) = Ratio(p) + Utilisation(S \ {p})
<1> DEFINE T == {s \in SUBSET S : \E q \in s : Utilisation(s) # Ratio(q) + Utilisation(s \ {q})}
<1>1. \A s \in T : IsFiniteSet(s)
  BY FS_Subset
<1>2. T = {}
  <2> SUFFICES ASSUME T # {} PROVE FALSE
    OBVIOUS
  <2>1. PICK s \in T : \A r \in T : ~(r \subseteq s /\ r # s)
    <3> HIDE DEF T
    <3>. QED
      BY <1>1, Minimal
  <2>2. PICK q \in s : Utilisation(s) # Ratio(q) + Utilisation(s \ {q})
    BY <2>1
  <2> DEFINE c == Chosen(s)
             r == s \ {c, q}
  <2>3. c \in s
    BY <2>2 DEF Chosen
  <2>4. Utilisation(s) = Ratio(c) + Utilisation(s \ {c})
    BY <1>1, <2>1, <2>2, SumOf
  <2>5. c # q
    BY <2>2, <2>4
  <2>6. s \ {c} \in SUBSET S /\ s \ {c} # s /\ q \in s \ {c} /\ (s \ {c}) \ {q} = r
    BY <2>1, <2>2, <2>3, <2>5
  <2>7. s \ {q} \in SUBSET S /\ s \ {q} # s /\ c \in s \ {q} /\ (s \ {q}) \ {c} = r
    BY <2>1, <2>2, <2>3, <2>5
  <2>8. Utilisation(s \ {c}) = Ratio(q) + Utilisation(r)
    BY <2>1, <2>6
  <2>9. Utilisation(s \ {q}) = Ratio(c) + Utilisation(r)
    BY <2>1, <2>7
  <2>10. Ratio(c) \in Nat /\ Ratio(q) \in Nat /\ Utilisation(r) \in Nat
    <3>1. r \in SUBSET Task /\ IsFiniteSet(r) /\ c \in Task /\ q \in Task
      BY <2>1, <2>2, <2>3, FS_Subset
    <3> HIDE DEF r, c
    <3>. QED
      BY <3>1, SumType, RatioType
  <2>. QED
    BY <2>2, <2>4, <2>8, <2>9, <2>10
<1>. QED
  BY <1>2

\* Fewer tasks have no greater utilisation.
LEMMA SumMore ==
  ASSUME NEW S \in SUBSET Task, IsFiniteSet(S), NEW R \in SUBSET S
  PROVE  Utilisation(R) <= Utilisation(S)
<1> DEFINE T == {s \in SUBSET S : R \subseteq s /\ ~(Utilisation(R) <= Utilisation(s))}
<1>1. \A s \in T : IsFiniteSet(s)
  BY FS_Subset
<1>2. T = {}
  <2> SUFFICES ASSUME T # {} PROVE FALSE
    OBVIOUS
  <2>1. PICK s \in T : \A r \in T : ~(r \subseteq s /\ r # s)
    <3> HIDE DEF T
    <3>. QED
      BY <1>1, Minimal
  <2>2. IsFiniteSet(R) /\ Utilisation(R) \in Nat
    BY FS_Subset, SumType
  <2>3. R # s
    BY <2>1, <2>2
  <2>4. PICK p \in s : p \notin R
    BY <2>1, <2>3
  <2>5. s \ {p} \in SUBSET S /\ R \subseteq s \ {p} /\ s \ {p} # s
    BY <2>1, <2>4
  <2>6. Utilisation(R) <= Utilisation(s \ {p})
    BY <2>1, <2>5
  <2>7. Utilisation(s) = Ratio(p) + Utilisation(s \ {p})
    BY <1>1, <2>1, SumAdd
  <2>8. Ratio(p) \in Nat /\ Utilisation(s \ {p}) \in Nat
    <3>1. IsFiniteSet(s \ {p}) /\ p \in Task
      BY <2>1, <2>5, FS_Subset
    <3>. QED
      BY <3>1, <2>5, SumType, RatioType
  <2>. QED
    BY <2>1, <2>2, <2>6, <2>7, <2>8
<1>. QED
  BY <1>2

\* The tasks on the list are finitely many, the admitted ones among them stay within
\* the bound, and one that was admitted and waits to be linked fits beside all of them.
Budget ==
  /\ IsFiniteSet(linked)
  /\ AdmittedWithinBound
  /\ \A p \in Task : pc[p] = "link" /\ verdict[p] = "admitted"
       => Utilisation(linked) + Ratio(p) <= util_bound

\* What a step does to the list and to the verdicts.
LEMMA ListMoves ==
  ASSUME TypeOK, Next
  PROVE  \/ \E p \in Task : Admission(p) \/ Link(p)
         \/ /\ linked' \subseteq linked /\ verdict' = verdict
            /\ \A q \in Task : pc'[q] = "link" => pc[q] = "link"
<1> DEFINE Same == /\ linked' \subseteq linked /\ verdict' = verdict
                   /\ \A q \in Task : pc'[q] = "link" => pc[q] = "link"
<1> USE DEF TypeOK, taskVars, timerVars, walkVars, dispVars, moduleVars
<1>1. ASSUME NEW p \in Task,
             \/ Register(p) \/ Check(p) \/ Yield(p) \/ ModTimer(p) \/ SetSleeping(p)
             \/ ClearCurrent(p) \/ KickDispatcher(p) \/ Block(p)
      PROVE  Same
  BY <1>1 DEF Register, Check, Yield, ModTimer, SetSleeping, ClearCurrent, KickDispatcher,
              Block, Goto
<1>2. ASSUME NEW p \in Task,
             \/ Awake(p) \/ DoJob(p) \/ Dereg(p) \/ Unhook(p) \/ Free(p) \/ NoFile(p)
             \/ NoMemory(p) \/ TimerExpires(p) \/ TimerLookup(p) \/ Callback(p)
      PROVE  Same
  <2>1. CASE \/ Awake(p) \/ DoJob(p) \/ Dereg(p) \/ Unhook(p) \/ Free(p) \/ NoFile(p)
             \/ NoMemory(p)
    BY <2>1 DEF Awake, DoJob, Dereg, Unhook, Free, NoFile, NoMemory, Goto
  <2>2. CASE TimerExpires(p) \/ TimerLookup(p) \/ Callback(p)
    BY <2>2 DEF Callback, TimerExpires, TimerLookup, TimerWalk, TimerReady, TimerWake
  <2>. QED
    BY <1>2, <2>1, <2>2
<1>3. ASSUME \/ Park \/ Schedule \/ ShouldStop \/ NothingReady \/ Choose \/ Preempt \/ Promote
             \/ WakeChosen \/ RemoveProc \/ KthreadStop \/ Exit
      PROVE  Same
  BY <1>3 DEF Park, Schedule, ShouldStop, NothingReady, Choose, Preempt, Promote, WakeChosen,
              RemoveProc, KthreadStop, Exit, ExitUnlink, ExitFree, ExitReturns
<1>. QED
  BY <1>1, <1>2, <1>3 DEF Next, Handler, Dispatcher

\* Every step keeps the budget: a task that admission_control lets in fits beside all
\* tasks on the list, and as long as nobody else is linked its answer stays good.
LEMMA BudgetStep ==
  ASSUME IInv, Budget, Next
  PROVE  Budget'
<1> DEFINE A == {p \in linked : verdict[p] = "admitted"}
<1>1. TypeOK /\ ListDiscipline
  BY DEF IInv
<1>2. linked \in SUBSET Task /\ IsFiniteSet(linked) /\ Utilisation(linked) \in Nat
  BY <1>1, SumType DEF Budget, TypeOK
<1>3. util_bound \in Nat
  BY DEF util_bound
<1>4. ASSUME linked' \subseteq linked, verdict' = verdict,
             \A q \in Task : pc'[q] = "link" => pc[q] = "link"
      PROVE  Budget'
  <2>1. PICK L \in SUBSET linked : L = linked'
    BY <1>4
  <2>2. IsFiniteSet(L) /\ Utilisation(L) <= Utilisation(linked) /\ Utilisation(L) \in Nat
    BY <1>2, <2>1, FS_Subset, SumMore, SumType
  <2>3. AdmittedWithinBound'
    <3>1. PICK B \in SUBSET A : B = {p \in L : verdict'[p] = "admitted"}
      BY <1>4, <2>1
    <3>2. A \in SUBSET Task /\ IsFiniteSet(A)
      BY <1>2, FS_Subset
    <3>3. Utilisation(B) <= Utilisation(A) /\ Utilisation(B) \in Nat /\ Utilisation(A) \in Nat
      <4>1. IsFiniteSet(B) /\ B \in SUBSET Task
        BY <3>1, <3>2, FS_Subset
      <4> HIDE DEF A
      <4>. QED
        BY <3>1, <3>2, <4>1, SumMore, SumType
    <3>4. Utilisation(A) <= util_bound
      BY DEF Budget, AdmittedWithinBound
    <3>5. Utilisation(B) <= util_bound
      <4> HIDE DEF A
      <4>. QED
        BY <1>3, <3>3, <3>4
    <3>6. B = {p \in linked : verdict[p] = "admitted"}'
      BY <2>1, <3>1
    <3>. QED
      BY <3>5, <3>6 DEF AdmittedWithinBound, util_bound
  <2>4. ASSUME NEW p \in Task, pc'[p] = "link", verdict'[p] = "admitted"
        PROVE  Utilisation(L) + Ratio(p) <= util_bound
    <3>1. Utilisation(linked) + Ratio(p) <= util_bound
      BY <1>4, <2>4 DEF Budget
    <3>. QED
      BY <1>2, <1>3, <2>2, <3>1, RatioType
  <2>. QED
    BY <2>1, <2>2, <2>3, <2>4 DEF Budget
<1>5. ASSUME NEW p \in Task, Admission(p) PROVE Budget'
  <2>1. linked' = linked /\ pc[p] = "admission"
    BY <1>5 DEF Admission, taskVars
  <2>2. p \notin linked
    BY <1>1, <2>1 DEF ListDiscipline, ListedPlaces
  <2>3. ASSUME NEW q \in Task, q # p
        PROVE  verdict'[q] = verdict[q] /\ pc'[q] = pc[q]
    BY <1>1, <1>5, <2>3 DEF Admission, Goto, TypeOK
  <2>4. A = {q \in linked : verdict[q] = "admitted"}'
    BY <1>2, <2>1, <2>2, <2>3
  <2>5. AdmittedWithinBound'
    BY <2>4 DEF Budget, AdmittedWithinBound
  <2>6. ASSUME pc'[p] = "link" PROVE Utilisation(linked) + Ratio(p) <= util_bound
    BY <1>1, <1>5, <2>6 DEF Admission, Goto, TypeOK, admission_control
  <2>7. ASSUME NEW q \in Task, pc'[q] = "link", verdict'[q] = "admitted"
        PROVE  Utilisation(linked) + Ratio(q) <= util_bound
    <3>1. CASE q = p
      BY <2>6, <2>7, <3>1
    <3>2. CASE q # p
      BY <2>3, <2>7, <3>2 DEF Budget
    <3>. QED
      BY <3>1, <3>2
  <2>. QED
    BY <1>2, <2>1, <2>5, <2>7 DEF Budget
<1>6. ASSUME NEW p \in Task, Link(p) PROVE Budget'
  <2>1. /\ pc[p] = "link" /\ linked' = linked \cup {p} /\ verdict'[p] = verdict[p]
        /\ \A q \in Task \ {p} : /\ pc'[q] = pc[q]
                                 /\ verdict'[q] = IF pc[q] = "link" THEN "stale" ELSE verdict[q]
        /\ pc'[p] = "check"
    BY <1>1, <1>6 DEF Link, Goto, TypeOK
  <2>2. p \notin linked /\ \A q \in linked : pc[q] # "link"
    BY <1>1, <2>1 DEF ListDiscipline, ListedPlaces
  <2>3. IsFiniteSet(linked \cup {p})
    BY <1>2, FS_AddElement
  <2>4. A \in SUBSET linked /\ Utilisation(A) <= util_bound
    BY DEF Budget, AdmittedWithinBound
  <2>5. AdmittedWithinBound'
    <3>1. CASE verdict[p] = "admitted"
      <4>1. Utilisation(linked \cup {p}) = Ratio(p) + Utilisation(linked)
        <5>1. linked \cup {p} \in SUBSET Task /\ (linked \cup {p}) \ {p} = linked
          BY <1>2, <2>2
        <5>. QED
          BY <2>3, <5>1, SumAdd
      <4>2. Utilisation(linked) + Ratio(p) <= util_bound
        BY <2>1, <3>1 DEF Budget
      <4>3. PICK B \in SUBSET (linked \cup {p}) : B = {q \in linked : verdict[q] = "admitted"}'
        BY <2>1
      <4>4. Utilisation(B) <= Utilisation(linked \cup {p})
        <5>1. linked \cup {p} \in SUBSET Task
          BY <1>2
        <5>. QED
          BY <2>3, <5>1, SumMore
      <4>5. Utilisation(B) \in Nat
        <5>1. B \in SUBSET Task /\ IsFiniteSet(B)
          BY <1>2, <2>3, FS_Subset
        <5>. QED
          BY <5>1, SumType
      <4>6. Utilisation(B) <= util_bound
        BY <1>2, <1>3, <4>1, <4>2, <4>4, <4>5, RatioType
      <4>. QED
        BY <4>3, <4>6 DEF AdmittedWithinBound, util_bound
    <3>2. CASE verdict[p] # "admitted"
      <4>1. A = {q \in linked : verdict[q] = "admitted"}'
        BY <1>2, <2>1, <2>2, <3>2
      <4>. QED
        BY <2>4, <4>1 DEF AdmittedWithinBound, util_bound
    <3>. QED
      BY <3>1, <3>2
  <2>6. \A q \in Task : ~(pc'[q] = "link" /\ verdict'[q] = "admitted")
    BY <2>1
  <2>. QED
    BY <2>1, <2>3, <2>5, <2>6 DEF Budget
<1>. QED
  BY <1>1, <1>4, <1>5, <1>6, ListMoves

\* Nothing is on the list at first, and no answer has been given.
LEMMA InitBudget == Init => Budget
<1>1. 0 <= util_bound
  BY DEF util_bound
<1>2. Utilisation({}) = 0
  BY FS_EmptySet, SumOf
<1> SUFFICES ASSUME Init PROVE Budget
  OBVIOUS
<1>3. {p \in linked : verdict[p] = "admitted"} = {}
  BY DEF Init
<1>4. Utilisation({p \in linked : verdict[p] = "admitted"}) = 0
  BY <1>2, <1>3
<1>5. AdmittedWithinBound
  BY <1>1, <1>4 DEF AdmittedWithinBound
<1>. QED
  BY <1>5, FS_EmptySet DEF Init, Budget

\* The tasks on the list that admission_control answered for, with no other task
\* linked between the answer and the link, stay within the bound, whatever the tasks,
\* their periods and their computation times.
THEOREM WithinBound == Spec => []AdmittedWithinBound
<1>1. IInv /\ Budget /\ [Next]_vars => Budget'
  <2>1. ASSUME Budget, UNCHANGED vars PROVE Budget'
    <3>1. linked' = linked /\ verdict' = verdict /\ pc' = pc
      BY <2>1 DEF vars, taskVars, moduleVars
    <3>. QED
      BY <2>1, <3>1 DEF Budget, AdmittedWithinBound
  <2>. QED
    BY <2>1, BudgetStep
<1>2. Budget => AdmittedWithinBound
  BY DEF Budget
<1>. QED
  BY InitBudget, <1>1, <1>2, Inductive, PTL DEF Spec

-----------------------------------------------------------------------------
(* The scheduler implements the reclamation discipline of SafeReclamation:  *)
(* memory is returned only when no pointer leads to it.                     *)

HeapVars == <<HeapPhase, HeapHeld>>

\* The initial state maps to the initial state.
LEMMA HeapInit == Init => Heap!RInit
BY DEF Init, Heap!RInit, HeapPhase, HeapHeld, Holders

\* These steps change neither the life of a structure nor a pointer to one.
LEMMA HeapStutter ==
  ASSUME IInv,
         \/ \E p \in Task : \/ Admission(p) \/ Check(p) \/ ModTimer(p)
                            \/ SetSleeping(p) \/ KickDispatcher(p) \/ DoJob(p)
                            \/ NoFile(p) \/ NoMemory(p) \/ Awake(p) \/ TimerWake(p)
         \/ ExitReturns \/ Park \/ Schedule \/ NothingReady \/ Preempt \/ Promote
         \/ RemoveProc \/ KthreadStop \/ UNCHANGED vars
  PROVE  UNCHANGED HeapVars
<1> USE DEF IInv, TypeOK, ListDiscipline, VerdictDiscipline,
            taskVars, timerVars, walkVars, dispVars, moduleVars
<1>1. HeapPhase' = HeapPhase
  <2>1. ASSUME NEW p \in Task, Admission(p) PROVE HeapPhase' = HeapPhase
    BY <2>1 DEF HeapPhase, Admission, Goto
  <2>2. ASSUME NEW p \in Task,
               \/ Check(p) \/ ModTimer(p) \/ SetSleeping(p) \/ KickDispatcher(p)
               \/ DoJob(p) \/ NoFile(p) \/ NoMemory(p) \/ Awake(p)
        PROVE HeapPhase' = HeapPhase
    BY <2>2 DEF HeapPhase, Check, ModTimer, SetSleeping, KickDispatcher, DoJob,
                NoFile, NoMemory, Awake, Goto
  <2>3. ASSUME NEW p \in Task, TimerWake(p)
        PROVE HeapPhase' = HeapPhase
    BY <2>3 DEF HeapPhase, TimerWake
  <2>4. CASE \/ Park \/ Schedule \/ NothingReady \/ Preempt \/ Promote
             \/ RemoveProc \/ KthreadStop \/ ExitReturns \/ UNCHANGED vars
    BY <2>4 DEF HeapPhase, Park, Schedule, NothingReady, Preempt, Promote,
                RemoveProc, KthreadStop, ExitReturns, vars
  <2>5. QED
    BY <2>1, <2>2, <2>3, <2>4
<1>2. HeapHeld' = HeapHeld
  <2>1. ASSUME NEW p \in Task,
               \/ Admission(p) \/ Check(p) \/ ModTimer(p) \/ SetSleeping(p)
               \/ KickDispatcher(p) \/ DoJob(p) \/ NoFile(p) \/ NoMemory(p) \/ Awake(p)
        PROVE HeapHeld' = HeapHeld
    BY <2>1 DEF HeapHeld, Holders, Admission, Check, ModTimer, SetSleeping,
                KickDispatcher, DoJob, NoFile, NoMemory, Awake, Goto
  <2>2. ASSUME NEW p \in Task, TimerWake(p)
        PROVE HeapHeld' = HeapHeld
    BY <2>2 DEF HeapHeld, TimerWake
  <2>3. CASE \/ Park \/ Schedule \/ NothingReady \/ Preempt \/ Promote
             \/ RemoveProc \/ KthreadStop \/ ExitReturns \/ UNCHANGED vars
    BY <2>3 DEF HeapHeld, Park, Schedule, NothingReady, Preempt, Promote,
                RemoveProc, KthreadStop, ExitReturns, vars
  <2>4. QED
    BY <2>1, <2>2, <2>3
<1>3. QED
  BY <1>1, <1>2 DEF HeapVars

\* Registration creates a structure, list_add publishes it, list_del unlinks it.
LEMMA HeapLife ==
  ASSUME IInv, NEW p \in Task
  PROVE  /\ Register(p) => Heap!Create(p)
         /\ Link(p) => Heap!Publish(p)
         /\ Dereg(p) => Heap!Unlink(p) \/ UNCHANGED HeapVars
<1> USE DEF IInv, TypeOK, ListDiscipline, ListedPlaces, VerdictDiscipline,
            taskVars, timerVars, walkVars, dispVars, moduleVars, HeapPhase
<1>1. ASSUME \/ Register(p) \/ Link(p) \/ Dereg(p) PROVE HeapHeld' = HeapHeld
  BY <1>1 DEF HeapHeld, Holders, Register, Link, Dereg, Goto
<1>2. ASSUME Register(p) PROVE Heap!Create(p)
  <2>1. HeapPhase[p] = "unborn"
    BY <1>2 DEF Register
  <2>2. HeapPhase' = [HeapPhase EXCEPT ![p] = "private"]
    BY <1>2 DEF Register, Goto
  <2>3. QED
    BY <1>1, <1>2, <2>1, <2>2 DEF Heap!Create
<1>3. ASSUME Link(p) PROVE Heap!Publish(p)
  <2>1. p \in alloc /\ p \notin linked /\ HeapPhase[p] = "private"
    BY <1>3 DEF Link
  <2>2. ASSUME NEW q \in Task \ {p} PROVE HeapPhase'[q] = HeapPhase[q]
    BY <1>3 DEF Link, Goto
  <2>3. HeapPhase'[p] = "published"
    BY <1>3, <2>1 DEF Link
  <2>4. HeapPhase' = [HeapPhase EXCEPT ![p] = "published"]
    <3>1. /\ HeapPhase = [q \in Task |-> HeapPhase[q]]
          /\ HeapPhase' = [q \in Task |-> HeapPhase'[q]]
      OBVIOUS
    <3> HIDE DEF HeapPhase
    <3>2. QED
      BY <2>2, <2>3, <3>1
  <2>5. QED
    BY <1>1, <1>3, <2>1, <2>4 DEF Heap!Publish
<1>4. ASSUME Dereg(p), p \in linked PROVE Heap!Unlink(p)
  <2>1. HeapPhase[p] = "published"
    BY <1>4
  <2>2. HeapPhase'[p] = "unlinked"
    BY <1>4 DEF Dereg, Goto
  <2>3. ASSUME NEW q \in Task \ {p} PROVE HeapPhase'[q] = HeapPhase[q]
    BY <1>4 DEF Dereg, Goto
  <2>4. HeapPhase' = [HeapPhase EXCEPT ![p] = "unlinked"]
    <3>1. /\ HeapPhase = [q \in Task |-> HeapPhase[q]]
          /\ HeapPhase' = [q \in Task |-> HeapPhase'[q]]
      OBVIOUS
    <3> HIDE DEF HeapPhase
    <3>2. QED
      BY <2>2, <2>3, <3>1
  <2>5. QED
    BY <1>1, <1>4, <2>1, <2>4 DEF Heap!Unlink
<1>5. ASSUME Dereg(p), p \notin linked PROVE UNCHANGED HeapVars
  BY <1>1, <1>5 DEF Dereg, HeapVars
<1>6. QED
  BY <1>2, <1>3, <1>4, <1>5

\* mp2_exit unlinks a task before it frees it.
LEMMA HeapExit ==
  ASSUME IInv, ExitUnlink, NEW p \in linked, linked' = linked \ {p}
  PROVE  Heap!Unlink(p)
<1> USE DEF IInv, TypeOK, ListDiscipline, VerdictDiscipline, taskVars, timerVars, walkVars,
            dispVars, moduleVars
<1>1. p \in Task /\ p \in alloc /\ verdict[p] \in {"admitted", "stale"}
  OBVIOUS
<1>2. pc[p] # "link"
  BY DEF ListedPlaces
<1>3. HeapHeld' = HeapHeld
  BY DEF HeapHeld, Holders, ExitUnlink
<1>4. HeapPhase[p] = "published" /\ HeapPhase'[p] = "unlinked"
  BY <1>1, <1>2 DEF HeapPhase, ExitUnlink
<1>5. ASSUME NEW q \in Task \ {p} PROVE HeapPhase'[q] = HeapPhase[q]
  BY <1>5 DEF HeapPhase, ExitUnlink
<1>6. HeapPhase' = [HeapPhase EXCEPT ![p] = "unlinked"]
  <2>1. /\ HeapPhase = [q \in Task |-> HeapPhase[q]]
        /\ HeapPhase' = [q \in Task |-> HeapPhase'[q]]
    BY DEF HeapPhase
  <2>. QED
    BY <1>4, <1>5, <2>1
<1>. QED
  BY <1>1, <1>3, <1>4, <1>6 DEF Heap!Unlink

\* Memory is returned where neither static pointer nor any handler leads to it.
LEMMA HeapReclaim ==
  ASSUME IInv
  PROVE  /\ \A p \in Task : Free(p) => Heap!Reclaim(p)
         /\ ExitFree => Heap!Reclaim(pos)
<1> USE DEF IInv, TypeOK, ListDiscipline, ListedPlaces, VerdictDiscipline,
            taskVars, timerVars, walkVars, dispVars, moduleVars
<1>1. ASSUME NEW p \in Task, Free(p) PROVE Heap!Reclaim(p)
  <2>1. HeapHeld' = HeapHeld
    BY <1>1 DEF HeapHeld, Holders, Free, Goto
  <2>2. HeapPhase[p] = "unlinked"
    BY <1>1 DEF HeapPhase, Free
  <2>3. HeapPhase' = [o \in Task |-> IF o = p THEN "freed" ELSE HeapPhase[o]]
    BY <1>1 DEF HeapPhase, Free, Goto
  <2>4. HeapPhase' = [HeapPhase EXCEPT ![p] = "freed"]
    <3>1. HeapPhase = [q \in Task |-> HeapPhase[q]]
      BY DEF HeapPhase
    <3>2. QED
      BY <2>3, <3>1
  <2>5. \A h \in Holders \ {"timer"} : HeapHeld[h] # p
    <3>1. pc[p] = "free" /\ p \notin linked
      BY <1>1 DEF Free
    <3>2. dtmp # p /\ (dpc = "exited" \/ current # p)
      BY <3>1 DEF PointerDiscipline
    <3>3. QED
      BY <3>1, <3>2 DEF HeapHeld, Holders
  <2>6. QED
    BY <2>1, <2>2, <2>4, <2>5 DEF Heap!Reclaim
<1>2. ASSUME ExitFree PROVE Heap!Reclaim(pos)
  <2>1. HeapHeld' = HeapHeld
    BY <1>2 DEF HeapHeld, Holders, ExitFree
  <2>2. pos \in alloc /\ pos \notin linked /\ rm = "stopping" /\ dpc = "exited" /\ pos \in Task
    BY <1>2 DEF ExitFree, UnloadDiscipline
  <2>3. \A p \in Task : pc[p] \notin InHandler
    BY <2>2 DEF UnloadDiscipline
  <2>4. HeapPhase[pos] \in {"private", "unlinked"} /\ verdict[pos] # "none"
    BY <2>2, <2>3 DEF HeapPhase, InHandler
  <2>5. HeapPhase' = [o \in Task |-> IF o = pos THEN "freed" ELSE HeapPhase[o]]
    BY <1>2, <2>2, <2>4 DEF HeapPhase, ExitFree
  <2>6. HeapPhase' = [HeapPhase EXCEPT ![pos] = "freed"]
    <3>1. HeapPhase = [q \in Task |-> HeapPhase[q]]
      BY DEF HeapPhase
    <3>2. QED
      BY <2>5, <3>1
  <2>7. \A h \in Holders \ {"timer"} : HeapHeld[h] # pos
    <3>1. dtmp = NULL /\ pos # NULL
      BY <2>2
    <3>2. \A p \in Task : pc[p] \notin {"arm", "sleepstate", "clear", "kick", "block"}
      BY <2>3 DEF InHandler
    <3>3. QED
      BY <2>2, <3>1, <3>2 DEF HeapHeld, Holders
  <2>8. QED
    BY <2>1, <2>4, <2>6, <2>7 DEF Heap!Reclaim
<1>3. QED
  BY <1>1, <1>2

\* A pointer moves to null, to a listed task, or to where another one points.
LEMMA HeapMove ==
  ASSUME IInv,
         \/ \E p \in Task : Yield(p) \/ ClearCurrent(p) \/ Block(p) \/ Unhook(p)
         \/ \E p \in Task : \/ TimerExpires(p) \/ TimerLookup(p) \/ TimerWalk(p)
                            \/ TimerReady(p)
         \/ ShouldStop \/ Choose \/ WakeChosen
  PROVE  Heap!Move
<1> USE DEF IInv, TypeOK, ListDiscipline, ListedPlaces, VerdictDiscipline,
            taskVars, timerVars, walkVars, dispVars, moduleVars
<1>1. HeapPhase' = HeapPhase
  <2>1. ASSUME NEW p \in Task, Yield(p) \/ ClearCurrent(p) \/ Block(p) \/ Unhook(p)
        PROVE HeapPhase' = HeapPhase
    BY <2>1 DEF HeapPhase, Yield, ClearCurrent, Block, Unhook, Goto
  <2>2. CASE ShouldStop \/ Choose \/ WakeChosen
    BY <2>2 DEF HeapPhase, ShouldStop, Choose, WakeChosen
  <2>3. ASSUME NEW p \in Task,
               TimerExpires(p) \/ TimerLookup(p) \/ TimerWalk(p) \/ TimerReady(p)
        PROVE HeapPhase' = HeapPhase
    BY <2>3 DEF HeapPhase, TimerExpires, TimerLookup, TimerWalk, TimerReady
  <2>4. QED
    BY <2>1, <2>2, <2>3
<1>2. \A h \in Holders : HeapHeld[h] \in Task \cup {NULL}
  BY DEF HeapHeld, Holders
<1>3. \A o \in linked : HeapPhase[o] = "published"
  BY DEF HeapPhase
<1> DEFINE Good(h, o) == \/ o \in {NULL, HeapHeld[h]} \/ o \in linked
                         \/ \E g \in Holders \ {"timer"} : HeapHeld[g] = o
<1>4. \A h \in Holders : Good(h, HeapHeld'[h]) /\ HeapHeld'[h] \in Task \cup {NULL}
  <2>1. ASSUME NEW p \in Task, Yield(p), NEW h \in Holders
        PROVE  \/ HeapHeld'[h] = HeapHeld[h]
               \/ HeapHeld'[h] = p /\ p \in linked
               \/ HeapHeld'[h] = NULL
    BY <2>1 DEF HeapHeld, Holders, Yield, Goto
  <2>2. ASSUME NEW p \in Task, ClearCurrent(p) \/ Block(p) \/ Unhook(p),
               NEW h \in Holders
        PROVE  HeapHeld'[h] \in {NULL, HeapHeld[h]}
    BY <2>2 DEF HeapHeld, Holders, ClearCurrent, Block, Unhook, Goto
  <2>3. ASSUME ShouldStop, NEW h \in Holders
        PROVE  HeapHeld'[h] \in {NULL, HeapHeld[h]}
    BY <2>3 DEF HeapHeld, Holders, ShouldStop
  <2>4. ASSUME Choose, NEW h \in Holders
        PROVE  HeapHeld'[h] \in linked \/ HeapHeld'[h] = HeapHeld[h]
    BY <2>4 DEF HeapHeld, Holders, Choose, HighestPriorityReady, Ready
  <2>5. ASSUME WakeChosen, NEW h \in Holders
        PROVE  HeapHeld'[h] \in {NULL, HeapHeld[h], HeapHeld["tmp"]}
    BY <2>5 DEF HeapHeld, Holders, WakeChosen
  <2>6. "tmp" \in Holders \ {"timer"}
    BY DEF Holders
  <2>7. ASSUME NEW p \in Task,
               TimerExpires(p) \/ TimerLookup(p) \/ TimerWalk(p) \/ TimerReady(p),
               NEW h \in Holders
        PROVE  HeapHeld'[h] \in linked \/ HeapHeld'[h] \in {NULL, HeapHeld[h]}
    <3>1. wtmp' \in linked \cup {NULL, wtmp}
      BY <2>7 DEF TimerExpires, TimerLookup, TimerWalk, TimerReady, Walk, WalkEnds, Die
    <3>2. dpc' = dpc /\ current' = current /\ dtmp' = dtmp /\ pc' = pc
      BY <2>7 DEF TimerExpires, TimerLookup, TimerWalk, TimerReady
    <3>. QED
      BY <3>1, <3>2 DEF HeapHeld, Holders
  <2>8. QED
    BY <1>2, <2>1, <2>2, <2>3, <2>4, <2>5, <2>6, <2>7
<1>5. HeapHeld' = [h \in Holders |-> HeapHeld'[h]]
  BY DEF HeapHeld
<1>6. HeapHeld' \in [Holders -> Task \cup {NULL}]
  BY <1>4, <1>5
<1>7. QED
  BY <1>1, <1>3, <1>4, <1>6 DEF Heap!Move

\* The life of every mp2_task_struct and the pointers to it follow the
\* reclamation discipline, for any number of tasks.
THEOREM Refinement == Spec => ReclaimsSafely
<1>1. IInv /\ [Next]_vars => [Heap!RNext]_HeapVars
  <2> SUFFICES ASSUME IInv, [Next]_vars PROVE Heap!RNext \/ UNCHANGED HeapVars
    BY DEF HeapVars
  <2>1. ASSUME NEW p \in Task, Register(p) \/ Link(p) \/ Dereg(p)
        PROVE  Heap!RNext \/ UNCHANGED HeapVars
    BY <2>1, HeapLife DEF Heap!RNext
  <2>2. ASSUME NEW p \in Task, Free(p) PROVE Heap!RNext
    BY <2>2, HeapReclaim DEF Heap!RNext
  <2>3. ASSUME ExitFree PROVE Heap!RNext
    <3>1. pos \in Task
      BY <2>3 DEF ExitFree, IInv, TypeOK
    <3>. QED
      BY <2>3, <3>1, HeapReclaim DEF Heap!RNext
  <2>4. CASE \/ \E p \in Task : \/ Yield(p) \/ ClearCurrent(p) \/ Block(p)
                                \/ Unhook(p) \/ TimerExpires(p) \/ TimerLookup(p)
                                \/ TimerWalk(p) \/ TimerReady(p)
             \/ ShouldStop \/ Choose \/ WakeChosen
    BY <2>4, HeapMove DEF Heap!RNext
  <2>5. CASE \/ \E p \in Task : \/ Admission(p) \/ Check(p) \/ ModTimer(p)
                                \/ SetSleeping(p) \/ KickDispatcher(p) \/ DoJob(p)
                                \/ NoFile(p) \/ NoMemory(p) \/ Awake(p) \/ TimerWake(p)
             \/ ExitReturns \/ Park \/ Schedule \/ NothingReady \/ Preempt \/ Promote
             \/ RemoveProc \/ KthreadStop \/ UNCHANGED vars
    BY <2>5, HeapStutter
  <2>6. CASE ExitUnlink
    <3>1. PICK p \in linked : linked' = linked \ {p} /\ pos' = p
      BY <2>6 DEF ExitUnlink
    <3>. QED
      BY <2>6, <3>1, HeapExit DEF Heap!RNext, IInv, TypeOK
  <2>7. QED
    BY <2>1, <2>2, <2>3, <2>4, <2>5, <2>6 DEF Next, Handler, Callback, Dispatcher, Exit
<1>2. QED
  BY HeapInit, <1>1, Inductive, PTL
  DEF Spec, ReclaimsSafely, Heap!Reclamation, Heap!rvars, HeapVars

=============================================================================
