------------------------------- MODULE MCTrap -------------------------------
(* A small instance of Trap for TLC. *)
EXTENDS Trap, TLC

ThreadSymmetry == Permutations(User)
=============================================================================
