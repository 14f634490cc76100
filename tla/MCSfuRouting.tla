---------------------------- MODULE MCSfuRouting ----------------------------
(* Instances of SfuRouting for TLC. *)
EXTENDS SfuRouting, TLC

(* Ids are only compared for equality. *)
Symmetry == Permutations(Handlers) \cup Permutations(Users)
=============================================================================
