-------------------------- MODULE MCTaskExecution --------------------------
(* TaskExecution on small instances; the sets are model values of the cfg. *)
EXTENDS TaskExecution, TLC

Symmetry == Permutations(Tasks) \cup Permutations(VMs) \cup Permutations(Attempts)
SymVA == Permutations(VMs) \cup Permutations(Attempts)
=============================================================================
