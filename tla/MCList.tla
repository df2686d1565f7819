------------------------------- MODULE MCList -------------------------------
(* A small instance of List for TLC. *)
EXTENDS List
=============================================================================
