----------------------------- MODULE Cpu6502Alu -----------------------------
(***************************************************************************)
(* The arithmetic of cpu.c on bytes.  Each operator returns a record with  *)
(* the result and the flags the code sets; carry c is 0 or 1 on the way in *)
(* and a Boolean on the way out.                                           *)
(***************************************************************************)
EXTENDS Integers

Byte == 0 .. 255

Negative(v) == v >= 128
Carry(c)    == IF c THEN 1 ELSE 0

(* Bits, for the logical operations. *)
Bit(v, i) == (v \div 2^i) % 2

Bytewise(bit(_, _), u, v) ==
  LET b(i) == 2^i * bit(Bit(u, i), Bit(v, i))
  IN  b(0) + b(1) + b(2) + b(3) + b(4) + b(5) + b(6) + b(7)

AndByte(u, v) == Bytewise(LAMBDA i, j : i * j, u, v)
OrByte(u, v)  == Bytewise(LAMBDA i, j : i + j - i * j, u, v)
XorByte(u, v) == Bytewise(LAMBDA i, j : (i + j) % 2, u, v)

(* Operands of the same sign and a result of the other. *)
Overflow(a, m, r) == Negative(a) = Negative(m) /\ Negative(r) # Negative(a)

AdcBin(a, m, c) ==
  LET sum == a + m + c
      r   == sum % 256
  IN  [a |-> r, c |-> sum > 255, z |-> r = 0, n |-> Negative(r), v |-> Overflow(a, m, r)]

(* Subtraction is addition of the complement (m ^ 0xFF). *)
SbcBin(a, m, c) == AdcBin(a, 255 - m, c)

(* Decimal addition: digits are corrected one by one; Z comes from the binary
   sum, N and V from the sum before the high digit is corrected. *)
AdcBcd(a, m, c) ==
  LET digits == (a % 16) + (m % 16) + c
      low    == IF digits > 9 THEN digits - 10 ELSE digits
      high   == a \div 16 + m \div 16 + (IF digits > 9 THEN 1 ELSE 0)
      r      == ((high * 16) % 256) + (low % 16)
  IN  [a |-> IF high > 9 THEN (r - 160) % 256 ELSE r,
       c |-> high > 9, z |-> (a + m + c) % 256 = 0, n |-> Negative(r), v |-> Overflow(a, m, r)]

SbcBcd(a, m, c) ==
  LET digits == (a % 16) - (m % 16) - (1 - c)
      low    == IF digits < 0 THEN digits + 10 ELSE digits
      high   == a \div 16 - m \div 16 - (IF digits < 0 THEN 1 ELSE 0)
      r      == ((high * 16) % 256) + (low % 16)
  IN  [a |-> IF high < 0 THEN (r + 160) % 256 ELSE r,
       c |-> high >= 0, z |-> (a + (255 - m) + c) % 256 = 0, n |-> Negative(r),
       v |-> Overflow(a, 255 - m, r)]

(* CMP, CPX, CPY *)
Compare(u, v) ==
  LET d == (u - v) % 256 IN [c |-> u >= v, z |-> d = 0, n |-> Negative(d)]

(* Shifts: the result and the bit that falls out. *)
ShiftLeft(v, in)  == [r |-> ((v * 2) % 256) + in, c |-> v >= 128]
ShiftRight(v, in) == [r |-> v \div 2 + 128 * in, c |-> v % 2 = 1]
=============================================================================
