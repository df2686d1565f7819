------------------------------ MODULE MCSerial ------------------------------
(* Small instances of Serial for TLC. *)
EXTENDS Serial
=============================================================================
