----------------------------- MODULE MCKeyboard -----------------------------
(* A small instance of I8042 and Keyboard for TLC. *)
EXTENDS I8042

(* Both Shift keys and one Control key, with a command letter, a digit with *)
(* a display and one without, and a sign.                                   *)
Chords == {LSHIFT, RSHIFT, LCTRL, 33, 30, 69, 78}

(* A key that was pressed and one that was released before the start. *)
Leftovers == {<<33>>, <<RELEASE_CODE, LSHIFT>>}
=============================================================================
