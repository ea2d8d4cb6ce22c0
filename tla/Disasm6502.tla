----------------------------- MODULE Disasm6502 -----------------------------
(***************************************************************************)
(* disasm.c beside the processor: the addressing mode it lists for each    *)
(* opcode, and the number of bytes it moves on.                            *)
(***************************************************************************)
EXTENDS Cpu6502

(* op_mode: 0 implied, 1 accumulator, 2 immediate, 3-5 zero page, 6-8 absolute,
   9 indirect, 10-11 indexed indirect, 12 relative.                         *)
op_mode == <<
  0, 10, 0, 10, 3, 3, 3, 3, 0, 2, 1, 2, 6, 6, 6, 6,
  12, 11, 0, 11, 4, 4, 4, 4, 0, 8, 0, 8, 7, 7, 7, 7,
  6, 10, 0, 10, 3, 3, 3, 3, 0, 2, 1, 2, 6, 6, 6, 6,
  12, 11, 0, 11, 4, 4, 4, 4, 0, 8, 0, 8, 7, 7, 7, 7,
  0, 10, 0, 10, 3, 3, 3, 3, 0, 2, 1, 2, 6, 6, 6, 6,
  12, 11, 0, 11, 4, 4, 4, 4, 0, 8, 0, 8, 7, 7, 7, 7,
  0, 10, 0, 10, 3, 3, 3, 3, 0, 2, 1, 2, 9, 6, 6, 6,
  12, 11, 0, 11, 4, 4, 4, 4, 0, 8, 0, 8, 7, 7, 7, 7,
  2, 10, 2, 10, 3, 3, 3, 3, 0, 2, 0, 2, 6, 6, 6, 6,
  12, 11, 0, 11, 4, 4, 5, 5, 0, 8, 0, 8, 7, 7, 8, 8,
  2, 10, 2, 10, 3, 3, 3, 3, 0, 2, 0, 0, 6, 6, 6, 6,
  12, 11, 0, 11, 4, 4, 5, 5, 0, 8, 0, 8, 7, 7, 8, 8,
  2, 10, 2, 10, 3, 3, 3, 3, 0, 2, 0, 2, 6, 6, 6, 6,
  12, 11, 0, 11, 4, 4, 4, 4, 0, 8, 0, 8, 7, 7, 7, 7,
  2, 10, 2, 10, 3, 3, 3, 3, 0, 2, 0, 2, 6, 6, 6, 6,
  12, 11, 0, 11, 4, 4, 4, 4, 0, 8, 0, 8, 7, 7, 7, 7 >>

Listed(op) ==
  LET md == op_mode[op + 1]
  IN  CASE md \in {0, 1}               -> 1
        [] md \in {2, 3, 4, 5, 10, 11, 12} -> 2
        [] md \in {6, 7, 8, 9}         -> 3

Transfers == {"JMP", "JSR", "RTS", "RTI", "BRK", "JAM"}

(* The listing moves on by the bytes the processor consumes, so that the line
   after an instruction is the instruction that runs after it.  (Branches not
   taken count; other transfers of control do not.)                          *)
ListingInStep ==
  [][fuel' < fuel /\ last'.kind = "executed" /\ Operation(last'.op) \notin Transfers
       /\ (Mode(last'.op) = "rel" => last'.cycles = 2)
     => reg'.pc = Plus(reg.pc, Listed(last'.op))]_vars
=============================================================================
