------------------------------ MODULE MCFiles ------------------------------
(* A small instance of Files for TLC. *)
EXTENDS Files

(* A program, an empty file, and a text whose last block is not full. *)
SmallDisk ==
  <<[name |-> "shell", size |-> 2, is_elf |-> TRUE],
    [name |-> "empty", size |-> 0, is_elf |-> FALSE],
    [name |-> "text", size |-> 3, is_elf |-> FALSE]>>

(* A system without a framebuffer: the serial console alone. *)
SerialOnly == <<"/dev/serial">>
=============================================================================
