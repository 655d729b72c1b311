-------------------------- MODULE SafeReclamation --------------------------
(***************************************************************************)
(* What a kernel module that keeps heap objects on a shared list promises  *)
(* about their memory: an object is reachable from the list or from one of *)
(* a fixed set of static or local pointers (the holders) only after its    *)
(* publication, no holder acquires an object that has left the list, and   *)
(* the memory of an object goes back to the allocator only when no holder  *)
(* points to it any more. Some holders are unguarded: what they point to   *)
(* may be reclaimed under them, and nothing is copied from them.           *)
(*                                                                         *)
(* The list discipline of mp2.c (unlink, clear the pointer to the running  *)
(* task, free) is shown to implement this specification.                   *)
(***************************************************************************)
CONSTANTS Object,   \* the objects the allocator can hand out
          Holder,   \* the pointers, other than the list, kept to an object
          Unguarded, \* the holders that nobody waits for
          NULL      \* a holder that points to nothing

VARIABLES phase,    \* where each object is in its life
          held      \* what each holder points to

rvars == <<phase, held>>

RInit == /\ phase = [o \in Object |-> "unborn"]
         /\ held = [h \in Holder |-> NULL]

Create(o) == /\ phase[o] = "unborn"
             /\ phase' = [phase EXCEPT ![o] = "private"]
             /\ UNCHANGED held

Publish(o) == /\ phase[o] = "private"
              /\ phase' = [phase EXCEPT ![o] = "published"]
              /\ UNCHANGED held

Unlink(o) == /\ phase[o] = "published"
             /\ phase' = [phase EXCEPT ![o] = "unlinked"]
             /\ UNCHANGED held

\* The pointers move. A pointer that is not cleared is taken from the list or
\* copied from another pointer that is good: nothing else leads to an object.
Move == /\ held' \in [Holder -> Object \cup {NULL}]
        /\ \A h \in Holder :
              \/ held'[h] \in {NULL, held[h]}
              \/ phase[held'[h]] = "published"
              \/ \E g \in Holder \ Unguarded : held[g] = held'[h]
        /\ UNCHANGED phase

Reclaim(o) == /\ phase[o] \in {"private", "published", "unlinked"}
              /\ \A h \in Holder \ Unguarded : held[h] # o
              /\ phase' = [phase EXCEPT ![o] = "freed"]
              /\ UNCHANGED held

RNext == \/ Move
         \/ \E o \in Object : Create(o) \/ Publish(o) \/ Unlink(o) \/ Reclaim(o)

Reclamation == RInit /\ [][RNext]_rvars
=============================================================================
