----------------------------- MODULE KernelList -----------------------------
(***************************************************************************)
(* The doubly linked lists of the kernel (linux/list.h), as mp1.c and      *)
(* mp3.c use them: list_add, list_del and the links that                   *)
(* list_for_each_entry and list_for_each_entry_safe follow. A list is the  *)
(* sequence of its nodes, first node first. No node is on it twice.        *)
(***************************************************************************)
EXTENDS Naturals, Sequences, SequencesExt

CONSTANT NULL  \* the end of a list, and no node

\* Where a node stands, for which it has to be on the list.
Place(s, p) == CHOOSE i \in DOMAIN s : s[i] = p

FirstNode(s) == IF s = <<>> THEN NULL ELSE s[1]

\* The node its next link leads to, or the head of the list.
After(s, p) == IF p = Last(s) THEN NULL ELSE s[Place(s, p) + 1]

\* The node and those behind it; nothing is behind the end.
From(s, p) == IF p = NULL THEN <<>> ELSE SubSeq(s, Place(s, p), Len(s))

\* list_del
Del(s, p) == RemoveAt(s, Place(s, p))
=============================================================================
