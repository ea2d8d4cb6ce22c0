------------------------------ MODULE MCDisplay ------------------------------
(* A small screen that scrolls after a few characters. *)
EXTENDS Apple1Display

MCCodes == {97, 13 + 128, 10}     \* a letter, a return with bit 7, a line feed
=============================================================================
