---------------------------- MODULE MCChannelFeed ----------------------------
(* Instances of ChannelFeed for TLC. *)
EXTENDS ChannelFeed, TLC

(* Requests and loads are only compared for equality. *)
Symmetry == Permutations(Requests) \cup Permutations(Loads)
=============================================================================
