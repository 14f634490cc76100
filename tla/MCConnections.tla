--------------------------- MODULE MCConnections ---------------------------
(* Instances of Connections for TLC. *)
EXTENDS Connections, TLC

(* Ids are only compared for equality. *)
Symmetry ==
    Permutations(Conns) \cup Permutations(Msgs) \cup Permutations(Users)
=============================================================================
