------------------------------- MODULE MCCpu -------------------------------
(* Where the processor starts: every opcode alone over boundary operands and
   registers, and programs that interrupts and returns play out in.         *)
EXTENDS Disasm6502, TLC

Registers(a, x, y, s, pc, c, d) ==
  [a |-> a, x |-> x, y |-> y, s |-> s, pc |-> pc, halted |-> FALSE,
   n |-> FALSE, v |-> c, d |-> d, i |-> TRUE, z |-> ~c, c |-> c]

(* Cells the operands below point at. *)
Data == (0 :> 255) @@ (1 :> 1) @@ (2 :> 153) @@ (127 :> 128) @@ (128 :> 16) @@ (255 :> 240)
          @@ (511 :> 9) @@ (512 :> 136)

OneInstruction(op, axy, s, pc, operand, f) ==
  [reg |-> Registers(axy[1], axy[2], axy[3], s, pc, f, f),
   mem |-> (pc :> op) @@ (Plus(pc, 1) :> operand[1]) @@ (Plus(pc, 2) :> operand[2]) @@ Data,
   fuel |-> 1]

Alone ==
  {OneInstruction(op, axy, s, pc, operand, f) :
     op \in 0 .. 255, axy \in {<<0, 0, 255>>, <<153, 1, 128>>, <<128, 255, 0>>},
     s \in {0, 254}, pc \in {508, 765, 65535},
     operand \in {<<0, 0>>, <<255, 1>>, <<127, 255>>, <<128, 2>>}, f \in BOOLEAN}

(* At $0240 the main program, at $0280 the handler, $02C0 a subroutine; the
   stack starts near the bottom of page 1, so that it wraps.                 *)
Code(main, handler, sub) ==
  [a \in 576 .. 575 + Len(main) |-> main[a - 575]] @@ [a \in 640 .. 639 + Len(handler) |-> handler[a - 639]]
    @@ [a \in 704 .. 703 + Len(sub) |-> sub[a - 703]]
    @@ (NmiVector :> 128) @@ (NmiVector + 1 :> 2) @@ (ResetVector :> 64) @@ (ResetVector + 1 :> 2)
    @@ (IrqVector :> 128) @@ (IrqVector + 1 :> 2)

Program(main, handler, sub, s, steps) ==
  [reg |-> [Registers(0, 0, 0, s, 576, TRUE, FALSE) EXCEPT !.i = FALSE],
   mem |-> Code(main, handler, sub), fuel |-> steps]

JSR == <<32, 192, 2>>      \* JSR $02C0
RTS == 96
RTI == 64
CLI == 88
PHP == 8
PLP == 40
INX == 232
BRK == 0
JAM == 2

Programs ==
  {Program(JSR \o <<INX, INX>> \o JSR, <<CLI, RTI>>, <<INX, RTS>>, s, 8) : s \in {1, 255}}
    \union {Program(<<BRK, INX, PHP, PLP, INX>>, <<PHP, PLP, RTI>>, <<>>, s, 8) : s \in {2, 253}}
    \union {Program(<<PHP, INX, RTI>>, <<RTI>>, <<>>, 0, 5), Program(<<INX, JAM>>, <<RTI>>, <<>>, 1, 5)}

AllStarts == Alone \union Programs
=============================================================================
