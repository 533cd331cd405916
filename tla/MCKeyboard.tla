----------------------------- MODULE MCKeyboard -----------------------------
(* Keyboard for TLC: the two Ctrl keys and the letter C. *)
EXTENDS Keyboard
=============================================================================
