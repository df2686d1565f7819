----------------------------- MODULE MCDisplay -----------------------------
(* A small instance of Display for TLC. *)
EXTENDS Display

(* The first display scrolls (a panic by two lines at once); the second gets *)
(* only backspaces, so what it shows must be blank.                          *)
OneFull == <<5, 0>>

(* A line, a message that fills the screen, one that scrolls, and one whose *)
(* newlines leave the frame.                                                *)
Messages == {<<"a", "LF">>, <<"a", "a", "a">>, <<"LF", "LF", "LF", "a">>, <<"LF", "LF", "LF">>}
=============================================================================
