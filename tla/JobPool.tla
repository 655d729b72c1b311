------------------------------ MODULE JobPool ------------------------------
(***************************************************************************)
(* What a distributed computation over a fixed set of jobs promises: each  *)
(* job is computed at most once, and a result that is collected is the     *)
(* result of a job that was computed.                                      *)
(***************************************************************************)
CONSTANT Job

VARIABLES computed,   \* how often each job has been computed
          collected   \* the jobs whose results have been put together

pvars == <<computed, collected>>

PInit == computed = [j \in Job |-> 0] /\ collected = {}

Compute(j) == /\ computed[j] = 0
              /\ computed' = [computed EXCEPT ![j] = 1]
              /\ UNCHANGED collected

\* The results at hand are put together at once.
Collect == /\ collected = {}
           /\ collected' \subseteq {j \in Job : computed[j] = 1}
           /\ UNCHANGED computed

PNext == Collect \/ \E j \in Job : Compute(j)

Pool == PInit /\ [][PNext]_pvars
=============================================================================
