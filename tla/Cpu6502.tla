------------------------------ MODULE Cpu6502 ------------------------------
(***************************************************************************)
(* The processor of cpu.c: one step is one call of cpu_step, which serves  *)
(* an interrupt or executes one instruction.  The bus is plain RAM here:   *)
(* mem holds the cells that were given a value, all others read as zero.   *)
(* `last' records what the last step put on the bus and how long it took.  *)
(***************************************************************************)
EXTENDS Cpu6502Alu, Sequences

CONSTANT Starts   \* [reg, mem, fuel]: where a behaviour begins and how many steps it runs

TOP == 65535
Address == 0 .. TOP

(* cpu_state: the registers, with the flags of p as Booleans. *)
RegisterFile ==
  [a : Byte, x : Byte, y : Byte, s : Byte, pc : Address, halted : BOOLEAN,
   n : BOOLEAN, v : BOOLEAN, d : BOOLEAN, i : BOOLEAN, z : BOOLEAN, c : BOOLEAN]

IsMemory(m) == DOMAIN m \subseteq Address /\ m \in [DOMAIN m -> Byte]

ASSUME StartsAssumption ==
  \A st \in Starts : st.reg \in RegisterFile /\ IsMemory(st.mem) /\ st.fuel \in Nat

VARIABLES reg,      \* the registers
          mem,
          nmi, irq, \* nmi_pending, irq_pending
          acc,      \* dram_cycle_acc, a static of cpu_step
          last,     \* the last step: kind, addresses read, <<address, value>> written, cycles
          base, stolen,  \* cycles so far: of the instructions, and stolen by refresh
          line,     \* history: the last value given to cpu_irq
          frames,   \* history: the return frames that are intact on the stack
          fuel      \* bound: steps left

vars == <<reg, mem, nmi, irq, acc, last, base, stolen, line, frames, fuel>>

-----------------------------------------------------------------------------
(* The dispatch table: the operation and the addressing mode of an opcode.  *)
OpNames == <<
  "BRK", "ORA", "JAM", "SLO", "NOP", "ORA", "ASL", "SLO", "PHP", "ORA", "ASL", "ANC", "NOP", "ORA", "ASL", "SLO",
  "BPL", "ORA", "JAM", "SLO", "NOP", "ORA", "ASL", "SLO", "CLC", "ORA", "NOP", "SLO", "NOP", "ORA", "ASL", "SLO",
  "JSR", "AND", "JAM", "RLA", "BIT", "AND", "ROL", "RLA", "PLP", "AND", "ROL", "ANC", "BIT", "AND", "ROL", "RLA",
  "BMI", "AND", "JAM", "RLA", "NOP", "AND", "ROL", "RLA", "SEC", "AND", "NOP", "RLA", "NOP", "AND", "ROL", "RLA",
  "RTI", "EOR", "JAM", "SRE", "NOP", "EOR", "LSR", "SRE", "PHA", "EOR", "LSR", "ALR", "JMP", "EOR", "LSR", "SRE",
  "BVC", "EOR", "JAM", "SRE", "NOP", "EOR", "LSR", "SRE", "CLI", "EOR", "NOP", "SRE", "NOP", "EOR", "LSR", "SRE",
  "RTS", "ADC", "JAM", "RRA", "NOP", "ADC", "ROR", "RRA", "PLA", "ADC", "ROR", "ARR", "JMP", "ADC", "ROR", "RRA",
  "BVS", "ADC", "JAM", "RRA", "NOP", "ADC", "ROR", "RRA", "SEI", "ADC", "NOP", "RRA", "NOP", "ADC", "ROR", "RRA",
  "SKB", "STA", "SKB", "SAX", "STY", "STA", "STX", "SAX", "DEY", "SKB", "TXA", "XAA", "STY", "STA", "STX", "SAX",
  "BCC", "STA", "JAM", "AHX", "STY", "STA", "STX", "SAX", "TYA", "STA", "TXS", "TAS", "SHY", "STA", "SHX", "AHX",
  "LDY", "LDA", "LDX", "LAX", "LDY", "LDA", "LDX", "LAX", "TAY", "LDA", "TAX", "LXA", "LDY", "LDA", "LDX", "LAX",
  "BCS", "LDA", "JAM", "LAX", "LDY", "LDA", "LDX", "LAX", "CLV", "LDA", "TSX", "LAS", "LDY", "LDA", "LDX", "LAX",
  "CPY", "CMP", "SKB", "DCP", "CPY", "CMP", "DEC", "DCP", "INY", "CMP", "DEX", "SBX", "CPY", "CMP", "DEC", "DCP",
  "BNE", "CMP", "JAM", "DCP", "NOP", "CMP", "DEC", "DCP", "CLD", "CMP", "NOP", "DCP", "NOP", "CMP", "DEC", "DCP",
  "CPX", "SBC", "SKB", "ISC", "CPX", "SBC", "INC", "ISC", "INX", "SBC", "NOP", "USBC", "CPX", "SBC", "INC", "ISC",
  "BEQ", "SBC", "JAM", "ISC", "NOP", "SBC", "INC", "ISC", "SED", "SBC", "NOP", "ISC", "NOP", "SBC", "INC", "ISC" >>

OpModes == <<
  "imp", "izx", "imp", "izx", "zp", "zp", "zp", "zp", "imp", "imm", "acc", "imm", "abs", "abs", "abs", "abs",
  "rel", "izy", "imp", "izy", "zpx", "zpx", "zpx", "zpx", "imp", "absy", "imp", "absy", "absx", "absx", "absx", "absx",
  "imp", "izx", "imp", "izx", "zp", "zp", "zp", "zp", "imp", "imm", "acc", "imm", "abs", "abs", "abs", "abs",
  "rel", "izy", "imp", "izy", "zpx", "zpx", "zpx", "zpx", "imp", "absy", "imp", "absy", "absx", "absx", "absx", "absx",
  "imp", "izx", "imp", "izx", "zp", "zp", "zp", "zp", "imp", "imm", "acc", "imm", "abs", "abs", "abs", "abs",
  "rel", "izy", "imp", "izy", "zpx", "zpx", "zpx", "zpx", "imp", "absy", "imp", "absy", "absx", "absx", "absx", "absx",
  "imp", "izx", "imp", "izx", "zp", "zp", "zp", "zp", "imp", "imm", "acc", "imm", "ind", "abs", "abs", "abs",
  "rel", "izy", "imp", "izy", "zpx", "zpx", "zpx", "zpx", "imp", "absy", "imp", "absy", "absx", "absx", "absx", "absx",
  "imm", "izx", "imm", "izx", "zp", "zp", "zp", "zp", "imp", "imm", "imp", "imm", "abs", "abs", "abs", "abs",
  "rel", "izy", "imp", "izy", "zpx", "zpx", "zpy", "zpy", "imp", "absy", "imp", "absy", "absx", "absx", "absy", "absy",
  "imm", "izx", "imm", "izx", "zp", "zp", "zp", "zp", "imp", "imm", "imp", "imm", "abs", "abs", "abs", "abs",
  "rel", "izy", "imp", "izy", "zpx", "zpx", "zpy", "zpy", "imp", "absy", "imp", "absy", "absx", "absx", "absy", "absy",
  "imm", "izx", "imm", "izx", "zp", "zp", "zp", "zp", "imp", "imm", "imp", "imm", "abs", "abs", "abs", "abs",
  "rel", "izy", "imp", "izy", "zpx", "zpx", "zpx", "zpx", "imp", "absy", "imp", "absy", "absx", "absx", "absx", "absx",
  "imm", "izx", "imm", "izx", "zp", "zp", "zp", "zp", "imp", "imm", "imp", "imm", "abs", "abs", "abs", "abs",
  "rel", "izy", "imp", "izy", "zpx", "zpx", "zpx", "zpx", "imp", "absy", "imp", "absy", "absx", "absx", "absx", "absx" >>

Operation(op) == OpNames[op + 1]
Mode(op)      == OpModes[op + 1]
-----------------------------------------------------------------------------
(* Addresses and memory *)

Word(lo, hi)  == lo + 256 * hi
Low(w)        == w % 256
High(w)       == w \div 256
Plus(w, n)    == (w + n) % 65536

UnwrappedNext(w) == w + 1     \* mutant: the program counter is an int
Following(w)     == Plus(w, 1)

Peek(m, a)    == IF a \in DOMAIN m THEN m[a] ELSE 0
Poke(m, a, v) == [b \in DOMAIN m \union {a} |-> IF b = a THEN v ELSE m[b]]

(* The stack: page 1, s wraps within it. *)
Slot(s) == 256 + (s % 256)

Pushed(s, values) == [i \in 1 .. Len(values) |-> <<Slot(s - i + 1), values[i]>>]
Stacked(m, s, values) ==
  [a \in DOMAIN m \union {Slot(s - i + 1) : i \in 1 .. Len(values)} |->
     IF \E i \in 1 .. Len(values) : Slot(s - i + 1) = a
       THEN values[CHOOSE i \in 1 .. Len(values) : Slot(s - i + 1) = a]
       ELSE m[a]]

(* p as a byte; B exists only in what is pushed, U is always set. *)
Status(r, break) ==
  Carry(r.c) + 2 * Carry(r.z) + 4 * Carry(r.i) + 8 * Carry(r.d)
    + (IF break THEN 16 ELSE 0) + 32 + 64 * Carry(r.v) + 128 * Carry(r.n)

SetStatus(r, p) ==
  [r EXCEPT !.c = Bit(p, 0) = 1, !.z = Bit(p, 1) = 1, !.i = Bit(p, 2) = 1,
            !.d = Bit(p, 3) = 1, !.v = Bit(p, 6) = 1, !.n = Bit(p, 7) = 1]

UpdateNZ(r, v) == [r EXCEPT !.n = Negative(v), !.z = v = 0]

-----------------------------------------------------------------------------
(* Addressing modes: where the operand is, the program counter after it, the
   addresses read on the way (dummy reads included) and whether a page was
   crossed.  r.pc is past the opcode.                                       *)

Place(at, pc, reads, px) == [at |-> at, pc |-> pc, reads |-> reads, px |-> px]

AddrImm(r, m) == Place(r.pc, Following(r.pc), <<>>, FALSE)
AddrZp(r, m)  == Place(Peek(m, r.pc), Following(r.pc), <<r.pc>>, FALSE)
AddrZpi(i, r, m) ==
  LET zp == Peek(m, r.pc) IN Place((zp + i) % 256, Following(r.pc), <<r.pc, zp>>, FALSE)

PeekWord(m, a) == Word(Peek(m, a), Peek(m, Following(a)))
PeekZpWord(m, zp) == Word(Peek(m, zp), Peek(m, (zp + 1) % 256))

AddrAbs(r, m) ==
  Place(PeekWord(m, r.pc), Plus(r.pc, 2), <<r.pc, Following(r.pc)>>, FALSE)

Uncorrected(from, to) == Word(Low(to), High(from))
SilentCarry(from, to, always, reads, pc) ==    \* mutant: no dummy read where a page is crossed
  Place(to, pc, IF always THEN Append(reads, Uncorrected(from, to)) ELSE reads, High(from) # High(to))

(* Adding an index: a carry into the high byte costs a read of the address
   before it; stores and read-modify-writes always pay it. *)
Indexed(from, to, always, reads, pc) ==
  Place(to, pc,
        IF always \/ High(from) # High(to) THEN Append(reads, Uncorrected(from, to)) ELSE reads,
        High(from) # High(to))

AddrAbsi(i, always, r, m) ==
  LET from == PeekWord(m, r.pc)
  IN  Indexed(from, Plus(from, i), always, <<r.pc, Following(r.pc)>>, Plus(r.pc, 2))

AddrIzx(r, m) ==
  LET raw == Peek(m, r.pc)
      zp  == (raw + r.x) % 256
  IN  Place(PeekZpWord(m, zp), Following(r.pc), <<r.pc, raw, zp, (zp + 1) % 256>>, FALSE)

AddrIzy(always, r, m) ==
  LET zp   == Peek(m, r.pc)
      from == PeekZpWord(m, zp)
  IN  Indexed(from, Plus(from, r.y), always, <<r.pc, zp, (zp + 1) % 256>>, Following(r.pc))

(* JMP (ptr): the high byte comes from the same page. *)
AddrInd(r, m) ==
  LET ptr  == PeekWord(m, r.pc)
      next == Word((Low(ptr) + 1) % 256, High(ptr))
  IN  Place(Word(Peek(m, ptr), Peek(m, IF Low(ptr) = 255 THEN next ELSE Following(ptr))), Plus(r.pc, 2),
            <<r.pc, Following(r.pc), ptr, IF Low(ptr) = 255 THEN next ELSE Following(ptr)>>, FALSE)

Effective(md, always, r, m) ==
  CASE md = "imm"  -> AddrImm(r, m)
    [] md = "zp"   -> AddrZp(r, m)
    [] md = "zpx"  -> AddrZpi(r.x, r, m)
    [] md = "zpy"  -> AddrZpi(r.y, r, m)
    [] md = "abs"  -> AddrAbs(r, m)
    [] md = "absx" -> AddrAbsi(r.x, always, r, m)
    [] md = "absy" -> AddrAbsi(r.y, always, r, m)
    [] md = "izx"  -> AddrIzx(r, m)
    [] md = "izy"  -> AddrIzy(always, r, m)

-----------------------------------------------------------------------------
(* What operations do to the registers *)

Sum(r, f) == [r EXCEPT !.a = f.a, !.c = f.c, !.z = f.z, !.n = f.n, !.v = f.v]
Adc(r, v) == Sum(r, IF r.d THEN AdcBcd(r.a, v, Carry(r.c)) ELSE AdcBin(r.a, v, Carry(r.c)))
Sbc(r, v) == Sum(r, IF r.d THEN SbcBcd(r.a, v, Carry(r.c)) ELSE SbcBin(r.a, v, Carry(r.c)))

Cmp(r, u, v) ==
  LET f == Compare(u, v) IN [r EXCEPT !.c = f.c, !.z = f.z, !.n = f.n]

SetA(r, v) == UpdateNZ([r EXCEPT !.a = v], v)
SetX(r, v) == UpdateNZ([r EXCEPT !.x = v], v)
SetY(r, v) == UpdateNZ([r EXCEPT !.y = v], v)

Ora(r, v) == SetA(r, OrByte(r.a, v))
And(r, v) == SetA(r, AndByte(r.a, v))
Eor(r, v) == SetA(r, XorByte(r.a, v))
Lax(r, v) == [SetA(r, v) EXCEPT !.x = v]

BitTest(r, v) == [r EXCEPT !.z = AndByte(r.a, v) = 0, !.n = Negative(v), !.v = Bit(v, 6) = 1]

Magic == 238   \* 0xEE, the constant of XAA and LXA

Xaa(r, v) == SetA(r, AndByte(AndByte(OrByte(r.a, Magic), r.x), v))
Lxa(r, v) == Lax(r, AndByte(OrByte(r.a, Magic), v))
Anc(r, v) == [And(r, v) EXCEPT !.c = And(r, v).n]
Alr(r, v) ==
  LET f == ShiftRight(AndByte(r.a, v), 0) IN [SetA(r, f.r) EXCEPT !.c = f.c]

Arr(r, v) ==
  LET value  == AndByte(r.a, v)
      result == ShiftRight(value, Carry(r.c)).r
      fixed  == IF (value % 16) + (value % 2) > 5
                  THEN 16 * (result \div 16) + ((result + 6) % 16) ELSE result
      carry  == 16 * (value \div 16) + 16 * Bit(value, 4) > 80
      n      == [UpdateNZ(r, result) EXCEPT !.v = Bit(result, 6) # Bit(result, 5)]
  IN  IF r.d THEN [n EXCEPT !.a = IF carry THEN (fixed + 96) % 256 ELSE fixed, !.c = carry]
             ELSE [n EXCEPT !.a = result, !.c = Bit(result, 6) = 1]

Sbx(r, v) ==
  LET ax == AndByte(r.a, r.x) IN [SetX(r, (ax - v) % 256) EXCEPT !.c = ax >= v]

Las(r, v) == LET u == AndByte(v, r.s) IN [SetA(r, u) EXCEPT !.x = u, !.s = u]

(* Instructions that read an operand v *)
Reads == {"LDA", "LDX", "LDY", "LAX", "ORA", "AND", "EOR", "ADC", "SBC", "USBC", "CMP", "CPX", "CPY",
          "BIT", "NOP", "SKB", "ANC", "ALR", "ARR", "SBX", "XAA", "LXA", "LAS"}

Apply(name, r, v) ==
  CASE name = "LDA" -> SetA(r, v)
    [] name = "LDX" -> SetX(r, v)
    [] name = "LDY" -> SetY(r, v)
    [] name = "LAX" -> Lax(r, v)
    [] name = "ORA" -> Ora(r, v)
    [] name = "AND" -> And(r, v)
    [] name = "EOR" -> Eor(r, v)
    [] name = "ADC" -> Adc(r, v)
    [] name \in {"SBC", "USBC"} -> Sbc(r, v)
    [] name = "CMP" -> Cmp(r, r.a, v)
    [] name = "CPX" -> Cmp(r, r.x, v)
    [] name = "CPY" -> Cmp(r, r.y, v)
    [] name = "BIT" -> BitTest(r, v)
    [] name \in {"NOP", "SKB"} -> r
    [] name = "ANC" -> Anc(r, v)
    [] name = "ALR" -> Alr(r, v)
    [] name = "ARR" -> Arr(r, v)
    [] name = "SBX" -> Sbx(r, v)
    [] name = "XAA" -> Xaa(r, v)
    [] name = "LXA" -> Lxa(r, v)
    [] name = "LAS" -> Las(r, v)

(* Instructions that store a register *)
Stores == {"STA", "STX", "STY", "SAX"}

Sax(r) == AndByte(r.a, r.x)

Stored(name, r) ==
  CASE name = "STA" -> r.a
    [] name = "STX" -> r.x
    [] name = "STY" -> r.y
    [] name = "SAX" -> Sax(r)

(* Instructions that modify memory, or the accumulator *)
Shifts   == {"ASL", "LSR", "ROL", "ROR"}
Counts   == {"INC", "DEC"}
Modifies == Shifts \union Counts \union {"SLO", "RLA", "SRE", "RRA", "DCP", "ISC"}

(* What rotates in is the carry. *)
Shifted(name, v, c) ==
  CASE name \in {"ASL", "SLO"} -> ShiftLeft(v, 0)
    [] name \in {"ROL", "RLA"} -> ShiftLeft(v, Carry(c))
    [] name \in {"LSR", "SRE"} -> ShiftRight(v, 0)
    [] name \in {"ROR", "RRA"} -> ShiftRight(v, Carry(c))

Counted(name, v) == (IF name \in {"INC", "ISC"} THEN v + 1 ELSE v - 1) % 256

NewValue(name, r, v) ==
  IF name \in Counts \union {"DCP", "ISC"} THEN Counted(name, v) ELSE Shifted(name, v, r.c).r

(* The undocumented ones go on with the new value t; s has the carry that the
   shift left.                                                               *)
Slo(s, t) == Ora(s, t)
Rla(s, t) == And(s, t)
Sre(s, t) == Eor(s, t)
Rra(s, t) == Adc(s, t)
Dcp(r, t) == Cmp(r, r.a, t)
Isc(r, t) == Sbc(r, t)

(* The registers after v became t *)
Modified(name, r, v, t) ==
  LET s == [r EXCEPT !.c = Shifted(name, v, r.c).c]
  IN  CASE name \in Shifts -> UpdateNZ(s, t)
        [] name \in Counts -> UpdateNZ(r, t)
        [] name = "SLO" -> Slo(s, t)
        [] name = "RLA" -> Rla(s, t)
        [] name = "SRE" -> Sre(s, t)
        [] name = "RRA" -> Rra(s, t)
        [] name = "DCP" -> Dcp(r, t)
        [] name = "ISC" -> Isc(r, t)

(* Instructions on registers alone *)
FlagChanges == {"CLC", "SEC", "CLI", "SEI", "CLV", "CLD", "SED"}

FlagChanged(name, r) ==
  CASE name = "CLC" -> [r EXCEPT !.c = FALSE]
    [] name = "SEC" -> [r EXCEPT !.c = TRUE]
    [] name = "CLI" -> [r EXCEPT !.i = FALSE]
    [] name = "SEI" -> [r EXCEPT !.i = TRUE]
    [] name = "CLV" -> [r EXCEPT !.v = FALSE]
    [] name = "CLD" -> [r EXCEPT !.d = FALSE]
    [] name = "SED" -> [r EXCEPT !.d = TRUE]

Transferrals == {"TAX", "TAY", "TXA", "TYA", "TSX", "TXS"}

Transferred(name, r) ==
  CASE name = "TAX" -> SetX(r, r.a)
    [] name = "TAY" -> SetY(r, r.a)
    [] name = "TXA" -> SetA(r, r.x)
    [] name = "TYA" -> SetA(r, r.y)
    [] name = "TSX" -> SetX(r, r.s)
    [] name = "TXS" -> [r EXCEPT !.s = r.x]

Incremented(name, r) == IF name = "INX" THEN SetX(r, (r.x + 1) % 256) ELSE SetY(r, (r.y + 1) % 256)
Decremented(name, r) == IF name = "DEX" THEN SetX(r, (r.x - 1) % 256) ELSE SetY(r, (r.y - 1) % 256)

Implied == FlagChanges \union Transferrals \union {"INX", "INY", "DEX", "DEY", "NOP"}

OnRegisters(name, r) ==
  CASE name \in FlagChanges    -> FlagChanged(name, r)
    [] name \in Transferrals   -> Transferred(name, r)
    [] name \in {"INX", "INY"} -> Incremented(name, r)
    [] name \in {"DEX", "DEY"} -> Decremented(name, r)
    [] name = "NOP"            -> r

-----------------------------------------------------------------------------
(* One step: what cpu_step and the handler it calls leave behind.            *)

Stepping  == fuel > 0 /\ ~reg.halted
Masked    == ~irq \/ reg.i
Executing == Stepping /\ ~nmi /\ Masked

Opcode  == Peek(mem, reg.pc)
Name    == Operation(Opcode)
Fetched == [reg EXCEPT !.pc = Following(reg.pc)]    \* the registers a handler starts from

Overwritten(f, written) == \E i \in 0 .. f.size - 1 : Slot(f.s - i) \in written

(* The return address and status at the top of the stack of r. *)
Frame(r, size, pc) == [s |-> r.s, size |-> size, pc |-> pc, p |-> Status(r, FALSE)]

RefreshForgets(cycles) ==      \* mutant: the remainder is thrown away
  /\ base' = base + cycles
  /\ acc' = IF acc + 4 * cycles >= 61 THEN 0 ELSE acc + 4 * cycles
  /\ stolen' = stolen + (IF acc + 4 * cycles >= 61 THEN 1 ELSE 0)

(* Refresh steals one cycle for every 15.25 the instructions took. *)
Refresh(cycles) ==
  /\ base' = base + cycles
  /\ acc' = (acc + 4 * cycles) % 61
  /\ stolen' = stolen + (acc + 4 * cycles) \div 61

Bus(kind, op, reads, writes, cycles) ==
  last' = [kind |-> kind, op |-> op, reads |-> reads, writes |-> writes, cycles |-> cycles]

(* The end of a step that ran to r, wrote `writes' and made `m' of memory. *)
Step(kind, r, m, reads, writes, cycles, made) ==
  /\ reg' = r
  /\ mem' = m
  /\ Bus(kind, Opcode, <<reg.pc>> \o reads, writes, cycles)
  /\ frames' = {f \in frames : ~Overwritten(f, {writes[i][1] : i \in 1 .. Len(writes)})} \union made
  /\ fuel' = fuel - 1
  /\ UNCHANGED line

Finish(r, m, reads, writes, cycles, made) ==
  /\ Step("executed", r, m, reads, writes, cycles, made)
  /\ Refresh(cycles)
  /\ UNCHANGED <<nmi, irq>>

ReadCycles == [imm |-> 2, zp |-> 3, zpx |-> 4, zpy |-> 4, abs |-> 4, absx |-> 4, absy |-> 4, izx |-> 6, izy |-> 5]

ExecuteRead ==
  /\ Executing
  /\ Name \in Reads /\ Mode(Opcode) # "imp"
  /\ LET e == Effective(Mode(Opcode), FALSE, Fetched, mem)
     IN  Finish(Apply(Name, [reg EXCEPT !.pc = e.pc], Peek(mem, e.at)), mem,
                Append(e.reads, e.at), <<>>, ReadCycles[Mode(Opcode)] + Carry(e.px), {})

StoreCycles == [zp |-> 3, zpx |-> 4, zpy |-> 4, abs |-> 4, absx |-> 5, absy |-> 5, izx |-> 6, izy |-> 6]

ExecuteStore ==
  /\ Executing
  /\ Name \in Stores
  /\ LET e == Effective(Mode(Opcode), TRUE, Fetched, mem)
     IN  Finish([reg EXCEPT !.pc = e.pc], Poke(mem, e.at, Stored(Name, reg)), e.reads,
                << <<e.at, Stored(Name, reg)>> >>, StoreCycles[Mode(Opcode)], {})

(* SHX, SHY, AHX, TAS store a register and the high byte plus one; across a
   page that value is also the high byte of the address.                    *)
Unstable == {"SHX", "SHY", "AHX", "TAS"}

Unmasked ==
  CASE Name = "SHX" -> reg.x
    [] Name = "SHY" -> reg.y
    [] Name \in {"AHX", "TAS"} -> AndByte(reg.a, reg.x)

ExecuteUnstable ==
  /\ Executing
  /\ Name \in Unstable
  /\ LET e    == Effective(Mode(Opcode), TRUE, Fetched, mem)
         page == (High(e.at) + 1 - Carry(e.px)) % 256
         v    == AndByte(Unmasked, page)
         at   == IF e.px THEN Word(Low(e.at), v) ELSE e.at
     IN  Finish([reg EXCEPT !.pc = e.pc, !.s = IF Name = "TAS" THEN Unmasked ELSE @], Poke(mem, at, v),
                e.reads, << <<at, v>> >>, StoreCycles[Mode(Opcode)], {})

ModifyCycles == [zp |-> 5, zpx |-> 6, abs |-> 6, absx |-> 7, absy |-> 7, izx |-> 8, izy |-> 8]

(* Read, write the old value back, write the new one. *)
ExecuteModify ==
  /\ Executing
  /\ Name \in Modifies /\ Mode(Opcode) # "acc"
  /\ LET e == Effective(Mode(Opcode), TRUE, Fetched, mem)
         v == Peek(mem, e.at)
         t == NewValue(Name, reg, v)
     IN  Finish(Modified(Name, [reg EXCEPT !.pc = e.pc], v, t), Poke(mem, e.at, t),
                Append(e.reads, e.at), << <<e.at, v>>, <<e.at, t>> >>, ModifyCycles[Mode(Opcode)], {})

ExecuteShiftA ==
  /\ Executing
  /\ Mode(Opcode) = "acc"
  /\ LET t == NewValue(Name, reg, reg.a)
     IN  Finish([Modified(Name, Fetched, reg.a, t) EXCEPT !.a = t], mem, <<Fetched.pc>>, <<>>, 2, {})

ExecuteImplied ==
  /\ Executing
  /\ Name \in Implied /\ Mode(Opcode) = "imp"
  /\ Finish(OnRegisters(Name, Fetched), mem, <<Fetched.pc>>, <<>>, 2, {})

ExecutePush ==
  /\ Executing
  /\ Name \in {"PHA", "PHP"}
  /\ LET v == << IF Name = "PHA" THEN reg.a ELSE Status(reg, TRUE) >>
     IN  Finish([Fetched EXCEPT !.s = (@ - 1) % 256], Stacked(mem, reg.s, v), <<Fetched.pc>>,
                Pushed(reg.s, v), 3, {})

ExecutePull ==
  /\ Executing
  /\ Name \in {"PLA", "PLP"}
  /\ LET v == Peek(mem, Slot(reg.s + 1))
         r == [Fetched EXCEPT !.s = (@ + 1) % 256]
     IN  Finish(IF Name = "PLA" THEN SetA(r, v) ELSE SetStatus(r, v), mem,
                <<Fetched.pc, Slot(reg.s), Slot(reg.s + 1)>>, <<>>, 4, {})

ExecuteJump ==
  /\ Executing
  /\ Name = "JMP"
  /\ LET e == IF Mode(Opcode) = "ind" THEN AddrInd(Fetched, mem) ELSE AddrAbs(Fetched, mem)
     IN  Finish([reg EXCEPT !.pc = e.at], mem, e.reads, <<>>, IF Mode(Opcode) = "ind" THEN 5 ELSE 3, {})

(* The high byte of the target is read after the return address is pushed. *)
ExecuteCall ==
  /\ Executing
  /\ Name = "JSR"
  /\ LET ret == Plus(reg.pc, 2)
         v   == <<High(ret), Low(ret)>>
         m   == Stacked(mem, reg.s, v)
     IN  Finish([reg EXCEPT !.pc = Word(Peek(mem, Fetched.pc), Peek(m, ret)), !.s = (@ - 2) % 256], m,
                <<Fetched.pc, Slot(reg.s), ret>>, Pushed(reg.s, v), 6, {Frame(reg, 2, Following(ret))})

Pulled(s) == Word(Peek(mem, Slot(s + 1)), Peek(mem, Slot(s + 2)))

ExecuteReturn ==
  /\ Executing
  /\ Name = "RTS"
  /\ Finish([reg EXCEPT !.pc = Following(Pulled(reg.s)), !.s = (@ + 2) % 256], mem,
            <<Fetched.pc, Slot(reg.s), Slot(reg.s + 1), Slot(reg.s + 2), Pulled(reg.s)>>, <<>>, 6, {})

ExecuteReturnFromInterrupt ==
  /\ Executing
  /\ Name = "RTI"
  /\ Finish([SetStatus(reg, Peek(mem, Slot(reg.s + 1)))
               EXCEPT !.pc = Pulled(reg.s + 1), !.s = (@ + 3) % 256], mem,
            <<Fetched.pc>> \o [i \in 1 .. 4 |-> Slot(reg.s + i - 1)], <<>>, 6, {})

Taken ==
  CASE Name = "BPL" -> ~reg.n [] Name = "BMI" -> reg.n
    [] Name = "BVC" -> ~reg.v [] Name = "BVS" -> reg.v
    [] Name = "BCC" -> ~reg.c [] Name = "BCS" -> reg.c
    [] Name = "BNE" -> ~reg.z [] Name = "BEQ" -> reg.z

ExecuteBranch ==
  /\ Executing
  /\ Mode(Opcode) = "rel"
  /\ LET off    == Peek(mem, Fetched.pc)
         next   == Plus(reg.pc, 2)
         target == Plus(next, IF Negative(off) THEN off - 256 ELSE off)
         fixup  == IF High(next) # High(target) THEN <<Uncorrected(next, target)>> ELSE <<>>
     IN  IF Taken THEN Finish([reg EXCEPT !.pc = target], mem, <<Fetched.pc, next>> \o fixup, <<>>,
                              3 + Len(fixup), {})
                  ELSE Finish([reg EXCEPT !.pc = next], mem, <<Fetched.pc>>, <<>>, 2, {})

PushesLowFirst(r, pc, break) == <<Low(pc), High(pc), Status(r, break)>>   \* mutant
Interrupted(r, pc, break)    == <<High(pc), Low(pc), Status(r, break)>>

NmiVector == 65530
IrqVector == 65534

(* What BRK and the interrupts have in common, on the way to pc. *)
Entered(vector) ==
  [reg EXCEPT !.i = TRUE, !.s = (@ - 3) % 256,
              !.pc = PeekWord(mem, vector)]

(* The vector is read after the pushes; they land in page 1 and cannot change it. *)
ExecuteBreak ==
  /\ Executing
  /\ Name = "BRK"
  /\ LET v == Interrupted(reg, Plus(reg.pc, 2), TRUE)
     IN  Finish(Entered(IrqVector), Stacked(mem, reg.s, v), <<Fetched.pc, IrqVector, IrqVector + 1>>,
                Pushed(reg.s, v), 7, {Frame(reg, 3, Plus(reg.pc, 2))})

(* JAM stops the processor on the opcode. *)
ExecuteJam ==
  /\ Executing
  /\ Name = "JAM"
  /\ Step("jammed", [reg EXCEPT !.halted = TRUE], mem, <<reg.pc>>, <<>>, 1, {})
  /\ Refresh(1)
  /\ UNCHANGED <<nmi, irq>>

(* The interrupts: the instruction at pc is fetched and dropped; refresh does
   not see these cycles.                                                     *)
Serve(vector) ==
  LET v == Interrupted(reg, reg.pc, FALSE)
  IN  /\ Step("interrupted", Entered(vector), Stacked(mem, reg.s, v), <<vector, vector + 1>>,
              Pushed(reg.s, v), 7, {Frame(reg, 3, reg.pc)})
      /\ UNCHANGED <<acc, base, stolen>>

ServeNmi ==
  /\ Stepping /\ nmi
  /\ nmi' = FALSE
  /\ Serve(NmiVector)
  /\ UNCHANGED irq

ServeIrq ==
  /\ Stepping /\ ~nmi /\ ~Masked
  /\ irq' = FALSE
  /\ Serve(IrqVector)
  /\ UNCHANGED nmi

(* A halted processor: a step does nothing and takes a cycle. *)
Frozen ==
  /\ reg.halted /\ fuel > 0
  /\ Bus("frozen", Opcode, <<>>, <<>>, 1)
  /\ fuel' = fuel - 1
  /\ UNCHANGED <<reg, mem, nmi, irq, acc, base, stolen, line, frames>>

-----------------------------------------------------------------------------
(* What happens between steps; nothing does when there is one step left, for
   its effect would not be seen.                                             *)
MoreToRun == fuel > 1

ResetVector == 65532

cpu_reset ==
  /\ MoreToRun
  /\ reg' = [a |-> 0, x |-> 0, y |-> 0, s |-> 253, pc |-> PeekWord(mem, ResetVector), halted |-> FALSE,
             n |-> FALSE, v |-> FALSE, d |-> FALSE, i |-> TRUE, z |-> FALSE, c |-> FALSE]
  /\ nmi' = FALSE /\ irq' = FALSE
  /\ fuel' = fuel - 1
  /\ Bus("reset", Opcode, <<ResetVector, ResetVector + 1>>, <<>>, 0)
  /\ UNCHANGED <<mem, acc, base, stolen, line, frames>>

cpu_nmi ==
  /\ MoreToRun /\ ~nmi
  /\ nmi' = TRUE
  /\ UNCHANGED <<reg, mem, irq, acc, last, base, stolen, line, frames, fuel>>

cpu_irq(assert) ==
  /\ MoreToRun /\ assert # line
  /\ irq' = assert /\ line' = assert
  /\ UNCHANGED <<reg, mem, nmi, acc, last, base, stolen, frames, fuel>>

Init ==
  /\ \E st \in Starts : reg = st.reg /\ mem = st.mem /\ fuel = st.fuel
  /\ nmi = FALSE /\ irq = FALSE /\ line = FALSE
  /\ acc = 0 /\ base = 0 /\ stolen = 0
  /\ frames = {}
  /\ last = [kind |-> "none", op |-> 0, reads |-> <<>>, writes |-> <<>>, cycles |-> 0]

Next ==
  \/ ExecuteRead \/ ExecuteStore \/ ExecuteUnstable \/ ExecuteModify \/ ExecuteShiftA \/ ExecuteImplied
  \/ ExecutePush \/ ExecutePull
  \/ ExecuteJump \/ ExecuteBranch \/ ExecuteCall \/ ExecuteReturn
  \/ ExecuteBreak \/ ExecuteReturnFromInterrupt
  \/ ExecuteJam \/ Frozen
  \/ ServeNmi \/ ServeIrq
  \/ cpu_reset \/ cpu_nmi
  \/ \E assert \in BOOLEAN : cpu_irq(assert)

Spec == Init /\ [][Next]_vars

-----------------------------------------------------------------------------
(* The registers keep their width, and memory holds bytes. *)
TypeOK ==
  /\ reg \in RegisterFile
  /\ IsMemory(mem)
  /\ {nmi, irq, line} \subseteq BOOLEAN
  /\ acc \in 0 .. 60

(* The handlers count their cycles by hand.  An instruction that completes takes
   as many as it made accesses to the bus, for every operand and page crossing.
   Of the 256 opcodes the 12 JAMs are the exception: two reads (op_jam fetches
   its opcode again) in the one cycle it reports.  An interrupt takes 7 cycles
   for its six accesses, a frozen step one for none.                         *)
CyclesFollowTheBus ==
  LET accesses == Len(last.reads) + Len(last.writes)
  IN  /\ last.kind = "executed" => last.cycles = accesses
      /\ last.kind = "jammed" => last.cycles = accesses - 1
      /\ last.kind \in {"interrupted", "frozen"} => last.cycles = accesses + 1

(* dram_cycle_acc: over any run, refresh takes 4 cycles in 61 and loses none. *)
DramExact == 61 * stolen + acc = 4 * base

Executed(name) == fuel' < fuel /\ last'.kind = "executed" /\ Operation(last'.op) = name

(* An interrupt, BRK or call, and the return that finds its frame intact,
   however they nest and wherever the stack wraps: execution resumes where it
   was left, with the same stack pointer and, after RTI, the same flags.     *)
Resumed(f) == reg'.pc = f.pc /\ reg'.s = f.s

ReturnsRestore ==
  [][\A f \in frames :
       /\ Executed("RTS") /\ f.size = 2 /\ reg.s = (f.s - 2) % 256 => Resumed(f)
       /\ Executed("RTI") /\ f.size = 3 /\ reg.s = (f.s - 3) % 256
            => Resumed(f) /\ Status(reg', FALSE) = f.p]_vars

(* cpu.h calls irq_pending the level of the line: with the line asserted and
   interrupts enabled, no instruction runs.  (The code clears it on service.) *)
IrqIsLevel ==
  [][fuel' < fuel /\ last'.kind \in {"executed", "jammed"} => ~(line /\ ~reg.i)]_vars
=============================================================================
