----------------------------- MODULE MCKeyboard -----------------------------
(* An instance of Apple1Keyboard for TLC. *)
EXTENDS Apple1Keyboard

(* Bursts: more keys than the ring takes, one lower case, and a line feed;
   RESET between keys; ^C; a lone ESC before more keys than it swallows; a
   paste of which paste_buffer_put keeps two bytes; ^C and ^L inside a paste;
   the end of a paste and a key; NUL and ^L.                                 *)
MCInputs == {<<65, 98, 10>>, <<66, 18, 65>>, <<3>>, <<ESC, 65, 65, 65, 65, 65, 66>>,
             PasteOpen \o <<99, 13, 66>>, PasteOpen \o <<CtrlL, 3>>,
             PasteClose \o <<65>>, <<0, CtrlL>>}
=============================================================================
