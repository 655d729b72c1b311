--------------------------- MODULE MCCpuTimeList ---------------------------
(* CpuTimeList with three applications, which differ in name only.         *)
EXTENDS CpuTimeList, TLC

Symmetric == Permutations(Proc)
=============================================================================
