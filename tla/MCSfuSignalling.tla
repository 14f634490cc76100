-------------------------- MODULE MCSfuSignalling --------------------------
(* Instances of SfuSignalling for TLC. *)
EXTENDS SfuSignalling, TLC
=============================================================================
