---------------------------- MODULE MCThreadPanel ----------------------------
(* Instances of ThreadPanel for TLC. *)
EXTENDS ThreadPanel, TLC

(* Ids are only compared for equality. *)
Symmetry == Permutations(Replies)
=============================================================================
