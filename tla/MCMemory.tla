------------------------------ MODULE MCMemory ------------------------------
(* Small instances of Memory for TLC, with the operators of Args. *)
EXTENDS Args
=============================================================================
