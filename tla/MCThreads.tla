------------------------------ MODULE MCThreads ------------------------------
(* Instances of Threads for TLC. *)
EXTENDS Threads, TLC

(* Ids are only compared for equality. *)
Symmetry ==
    Permutations(Parents) \cup Permutations(Replies) \cup Permutations(Deletes)
=============================================================================
