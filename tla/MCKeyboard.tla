----------------------------- MODULE MCKeyboard -----------------------------
(* Keyboard on small constants; its values are in MCKeyboard.cfg. *)
EXTENDS Keyboard
=============================================================================
