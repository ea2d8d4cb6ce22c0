------------------------------- MODULE MCAci -------------------------------
(* A cassette interface for TLC: a clock that wraps at 16 and silences of more
   than 4 cycles, two and a half cycles to a sample.                         *)
EXTENDS Apple1Aci

(* A pulse shorter than an instruction, after a quiet lead-in; a noisy one that
   starts low.                                                               *)
MCTapes == {TapeOf(<<0, 1, 1, -1, 1>>), TapeOf(<<-1, 0, 1, 0, -1>>)}
=============================================================================
