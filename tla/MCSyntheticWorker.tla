-------------------------- MODULE MCSyntheticWorker --------------------------
(* SyntheticWorker with the symmetry of its callers and of its threads, for *)
(* the runs that check no liveness.                                         *)
EXTENDS SyntheticWorker, TLC

Symmetry == Permutations(Tasks) \cup Permutations(Threads)
==============================================================================
