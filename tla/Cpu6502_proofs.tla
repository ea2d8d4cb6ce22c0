--------------------------- MODULE Cpu6502_proofs ---------------------------
(***************************************************************************)
(* The arithmetic of cpu.c, for every operand: the binary and decimal sums *)
(* and differences of the 6502's manual.                                   *)
(*                                                                         *)
(* The processor, for every program, memory and register contents and for  *)
(* runs of any length.  The inductive invariant IInv has two parts: in     *)
(* CycleInv the types, refresh and the count of accesses, and in           *)
(* FramesIntact that the frames not yet written over are on the stack as   *)
(* they were pushed.  Every handler ends in Finish, so that a step is      *)
(* shown to keep IInv by what it hands to Finish (FinishKeeps).            *)
(***************************************************************************)
EXTENDS Cpu6502, SequenceTheorems, TLAPS

-----------------------------------------------------------------------------
(* The arithmetic *)

(* The number a packed decimal byte stands for. *)
Bcd == {b \in Byte : (b % 16) <= 9 /\ b \div 16 <= 9}
Decimal(b) == 10 * (b \div 16) + (b % 16)

(* The number a two's complement byte stands for. *)
Signed(b) == IF Negative(b) THEN b - 256 ELSE b

(* Arithmetic the proofs rest on. *)
LEMMA SumModulo ==
  \A s \in 0 .. 511 : s % 256 = IF s > 255 THEN s - 256 ELSE s
  BY SMT

LEMMA DifferenceModulo ==
  \A s \in -256 .. 255 : s % 256 = IF s < 0 THEN s + 256 ELSE s
  BY SMT

LEMMA Digits ==
  ASSUME NEW b \in Byte
  PROVE  b \div 16 \in 0 .. 15 /\ (b % 16) \in 0 .. 15 /\ 16 * (b \div 16) + (b % 16) = b
PROOF
  <1>1. b \in Nat
    BY DEF Byte
  <1>2. 16 * (b \div 16) + (b % 16) = b
    BY <1>1
  <1>3. b \div 16 \in 0 .. 15 /\ (b % 16) \in 0 .. 15
    BY DEF Byte
  <1> QED BY <1>2, <1>3

(* A byte put together from two digits has those digits. *)
LEMMA FromDigits ==
  ASSUME NEW h \in 0 .. 9, NEW l \in 0 .. 9
  PROVE  /\ 16 * h + l \in Byte
         /\ (16 * h + l) \div 16 = h /\ (16 * h + l) % 16 = l
  BY SMT DEF Byte

(* adc_bin: with the carry out, the sum is exact. *)
THEOREM BinarySumIsExact ==
  ASSUME NEW a \in Byte, NEW m \in Byte, NEW c \in {0, 1}
  PROVE  /\ AdcBin(a, m, c).a \in Byte
         /\ AdcBin(a, m, c).a + 256 * Carry(AdcBin(a, m, c).c) = a + m + c
PROOF
  <1>1. (a + m + c) % 256 = IF a + m + c > 255 THEN a + m + c - 256 ELSE a + m + c
    BY SumModulo DEF Byte
  <1>2. AdcBin(a, m, c).a = (a + m + c) % 256 /\ AdcBin(a, m, c).c = (a + m + c > 255)
    BY DEF AdcBin
  <1>3. (a + m + c) % 256 \in Byte
    BY <1>1 DEF Byte
  <1>4. ((a + m + c) % 256) + 256 * Carry(a + m + c > 255) = a + m + c
    BY <1>1 DEF Byte, Carry
  <1> QED BY <1>2, <1>3, <1>4

(* adc_bin: V says whether the signed sum fits a byte. *)
THEOREM OverflowIsSigned ==
  ASSUME NEW a \in Byte, NEW m \in Byte, NEW c \in {0, 1}
  PROVE  AdcBin(a, m, c).v <=> Signed(a) + Signed(m) + c \notin -128 .. 127
PROOF
  <1> DEFINE r == (a + m + c) % 256
  <1>2. r = IF a + m + c > 255 THEN a + m + c - 256 ELSE a + m + c
    BY SumModulo DEF Byte
  <1>3. AdcBin(a, m, c).v <=> (Negative(a) = Negative(m) /\ Negative(r) # Negative(a))
    BY DEF AdcBin, Overflow
  <1> HIDE DEF r
  <1>4. CASE a >= 128
    BY <1>2, <1>3, <1>4, SMT DEF Byte, Negative, Signed
  <1>5. CASE ~(a >= 128)
    BY <1>2, <1>3, <1>5, SMT DEF Byte, Negative, Signed
  <1> QED BY <1>4, <1>5

(* sbc_bin: the difference modulo 256, and a carry where nothing is borrowed. *)
THEOREM BinaryDifferenceIsExact ==
  ASSUME NEW a \in Byte, NEW m \in Byte, NEW c \in {0, 1}
  PROVE  /\ SbcBin(a, m, c).a \in Byte
         /\ SbcBin(a, m, c).a - 256 * (1 - Carry(SbcBin(a, m, c).c)) = a - m - (1 - c)
PROOF
  <1>1. 255 - m \in Byte
    BY DEF Byte
  <1>2. /\ SbcBin(a, m, c).a \in Byte
        /\ SbcBin(a, m, c).a + 256 * Carry(SbcBin(a, m, c).c) = a + (255 - m) + c
    BY <1>1, BinarySumIsExact DEF SbcBin
  <1>3. Carry(SbcBin(a, m, c).c) \in {0, 1}
    BY DEF Carry
  <1> QED BY <1>2, <1>3 DEF Byte

(* sbc_bin: V says whether the signed difference fits a byte. *)
THEOREM BorrowOverflowIsSigned ==
  ASSUME NEW a \in Byte, NEW m \in Byte, NEW c \in {0, 1}
  PROVE  SbcBin(a, m, c).v <=> Signed(a) - Signed(m) - (1 - c) \notin -128 .. 127
PROOF
  <1>1. 255 - m \in Byte
    BY DEF Byte
  <1>2. SbcBin(a, m, c).v <=> Signed(a) + Signed(255 - m) + c \notin -128 .. 127
    BY <1>1, OverflowIsSigned DEF SbcBin
  <1>3. Signed(255 - m) = -1 - Signed(m)
    BY DEF Byte, Signed, Negative
  <1>4. Signed(a) \in Int /\ Signed(m) \in Int
    BY DEF Byte, Signed
  <1>5. Signed(a) + Signed(255 - m) + c = Signed(a) - Signed(m) - (1 - c)
    BY <1>3, <1>4
  <1> QED BY <1>2, <1>5

(* The high digit is corrected by subtracting ten of it. *)
LEMMA SumAdjusts ==
  ASSUME NEW h \in 0 .. 19, NEW l \in 0 .. 9, NEW r \in Int,
         r = ((h * 16) % 256) + l
  PROVE  (IF h > 9 THEN (r - 160) % 256 ELSE r) = 16 * (IF h > 9 THEN h - 10 ELSE h) + l
PROOF
  <1>2. (h * 16) % 256 = IF h * 16 > 255 THEN h * 16 - 256 ELSE h * 16
    BY SumModulo
  <1>3. CASE h <= 9
    BY <1>2, <1>3
  <1>4. CASE h \in 10 .. 15
    <2>1. r - 160 = 16 * (h - 10) + l /\ r - 160 \in 0 .. 511
      BY <1>2, <1>4
    <2>2. (r - 160) % 256 = IF r - 160 > 255 THEN r - 160 - 256 ELSE r - 160
      BY <2>1, SumModulo
    <2> QED BY <1>4, <2>1, <2>2
  <1>5. CASE h \in 16 .. 19
    <2>1. r - 160 = 16 * (h - 10) + l - 256 /\ r - 160 \in -256 .. 255
      BY <1>2, <1>5
    <2>2. (r - 160) % 256 = IF r - 160 < 0 THEN r - 160 + 256 ELSE r - 160
      BY <2>1, DifferenceModulo
    <2> QED BY <1>5, <2>1, <2>2
  <1> QED BY <1>3, <1>4, <1>5

(* The high digit is corrected by adding ten to it. *)
LEMMA DifferenceAdjusts ==
  ASSUME NEW h \in -10 .. 9, NEW l \in 0 .. 9, NEW r \in Int,
         r = ((h * 16) % 256) + l
  PROVE  (IF h < 0 THEN (r + 160) % 256 ELSE r) = 16 * (IF h < 0 THEN h + 10 ELSE h) + l
PROOF
  <1>2. (h * 16) % 256 = IF h * 16 < 0 THEN h * 16 + 256 ELSE h * 16
    BY DifferenceModulo
  <1>3. CASE h >= 0
    BY <1>2, <1>3
  <1>4. CASE h < 0
    <2>1. r + 160 = 16 * (h + 10) + l + 256 /\ r + 160 \in 256 .. 511
      BY <1>2, <1>4
    <2>2. (r + 160) % 256 = IF r + 160 > 255 THEN r + 160 - 256 ELSE r + 160
      BY <2>1, SumModulo
    <2> QED BY <1>4, <2>1, <2>2
  <1> QED BY <1>3, <1>4

(* adc_bcd on decimal operands: a decimal result, and the exact sum. *)
THEOREM DecimalSumIsExact ==
  ASSUME NEW a \in Bcd, NEW m \in Bcd, NEW c \in {0, 1}
  PROVE  /\ AdcBcd(a, m, c).a \in Bcd
         /\ Decimal(AdcBcd(a, m, c).a) + 100 * Carry(AdcBcd(a, m, c).c) = Decimal(a) + Decimal(m) + c
PROOF
  <1> DEFINE digits == (a % 16) + (m % 16) + c
             low    == IF digits > 9 THEN digits - 10 ELSE digits
             high   == a \div 16 + m \div 16 + (IF digits > 9 THEN 1 ELSE 0)
             top    == IF high > 9 THEN high - 10 ELSE high
             r      == ((high * 16) % 256) + (low % 16)
  <1>2. AdcBcd(a, m, c).a = (IF high > 9 THEN (r - 160) % 256 ELSE r) /\ AdcBcd(a, m, c).c = (high > 9)
    BY DEF AdcBcd
  <1> DEFINE al == (a % 16)
             ml == (m % 16)
             ah == a \div 16
             mh == m \div 16
  <1>3. /\ digits = al + ml + c
        /\ low = IF digits > 9 THEN digits - 10 ELSE digits
        /\ high = ah + mh + (IF digits > 9 THEN 1 ELSE 0)
        /\ Decimal(a) = 10 * ah + al /\ Decimal(m) = 10 * mh + ml
    BY Zenon DEF Decimal
  <1>1. al \in 0 .. 9 /\ ml \in 0 .. 9 /\ ah \in 0 .. 9 /\ mh \in 0 .. 9
    BY Digits DEF Bcd
  <1> HIDE DEF digits, low, high, al, ml, ah, mh
  <1>4. low \in 0 .. 9
    BY <1>1, <1>3
  <1>5. high \in 0 .. 19
    BY <1>1, <1>3
  <1>6. 10 * high + low = Decimal(a) + Decimal(m) + c
    BY <1>1, <1>3
  <1>7. (IF high > 9 THEN (r - 160) % 256 ELSE r) = 16 * top + low
    <2>1. (low % 16) = low
      BY <1>4
    <2>2. (high * 16) % 256 \in Int
      BY <1>5
    <2>3. r = ((high * 16) % 256) + low
      BY <2>1
    <2>4. r \in Int
      <3> DEFINE shifted == (high * 16) % 256
      <3>1. shifted \in Int /\ r = shifted + low
        BY <2>2, <2>3
      <3> HIDE DEF shifted, r
      <3> QED BY <1>4, <3>1
    <2> HIDE DEF r
    <2> QED BY <1>4, <1>5, <2>3, <2>4, SumAdjusts
  <1>8. top \in 0 .. 9
    BY <1>5
  <1> DEFINE s == 16 * top + low
  <1>9. s \in Byte /\ s \div 16 = top /\ (s % 16) = low
    BY <1>4, <1>8, FromDigits
  <1>10. s \in Bcd /\ Decimal(s) = 10 * top + low
    <2> HIDE DEF s, top
    <2> QED BY <1>4, <1>8, <1>9 DEF Bcd, Decimal
  <1>11. 10 * top + low + 100 * Carry(high > 9) = 10 * high + low
    BY <1>4, <1>5 DEF Carry
  <1>12. AdcBcd(a, m, c).a = s
    BY <1>2, <1>7
  <1> HIDE DEF s, top
  <1>13. Decimal(AdcBcd(a, m, c).a) + 100 * Carry(AdcBcd(a, m, c).c)
          = 10 * top + low + 100 * Carry(high > 9)
    BY <1>2, <1>10, <1>12, Zenon
  <1> QED BY <1>6, <1>10, <1>11, <1>12, <1>13

(* sbc_bcd on decimal operands: a decimal result, and the exact difference. *)
THEOREM DecimalDifferenceIsExact ==
  ASSUME NEW a \in Bcd, NEW m \in Bcd, NEW c \in {0, 1}
  PROVE  /\ SbcBcd(a, m, c).a \in Bcd
         /\ Decimal(SbcBcd(a, m, c).a) - 100 * (1 - Carry(SbcBcd(a, m, c).c)) = Decimal(a) - Decimal(m) - (1 - c)
PROOF
  <1> DEFINE digits == (a % 16) - (m % 16) - (1 - c)
             low    == IF digits < 0 THEN digits + 10 ELSE digits
             high   == a \div 16 - m \div 16 - (IF digits < 0 THEN 1 ELSE 0)
             top    == IF high < 0 THEN high + 10 ELSE high
             r      == ((high * 16) % 256) + (low % 16)
  <1>2. SbcBcd(a, m, c).a = (IF high < 0 THEN (r + 160) % 256 ELSE r) /\ SbcBcd(a, m, c).c = (high >= 0)
    BY DEF SbcBcd
  <1> DEFINE al == (a % 16)
             ml == (m % 16)
             ah == a \div 16
             mh == m \div 16
  <1>3. /\ digits = al - ml - (1 - c)
        /\ low = IF digits < 0 THEN digits + 10 ELSE digits
        /\ high = ah - mh - (IF digits < 0 THEN 1 ELSE 0)
        /\ Decimal(a) = 10 * ah + al /\ Decimal(m) = 10 * mh + ml
    BY Zenon DEF Decimal
  <1>1. al \in 0 .. 9 /\ ml \in 0 .. 9 /\ ah \in 0 .. 9 /\ mh \in 0 .. 9
    BY Digits DEF Bcd
  <1> HIDE DEF digits, low, high, al, ml, ah, mh
  <1>4. low \in 0 .. 9
    BY <1>1, <1>3
  <1>5. high \in -10 .. 9
    BY <1>1, <1>3
  <1>6. 10 * high + low = Decimal(a) - Decimal(m) - (1 - c)
    BY <1>1, <1>3
  <1>7. (IF high < 0 THEN (r + 160) % 256 ELSE r) = 16 * top + low
    <2>1. (low % 16) = low
      BY <1>4
    <2>2. (high * 16) % 256 \in Int
      BY <1>5
    <2>3. r = ((high * 16) % 256) + low
      BY <2>1
    <2>4. r \in Int
      <3> DEFINE shifted == (high * 16) % 256
      <3>1. shifted \in Int /\ r = shifted + low
        BY <2>2, <2>3
      <3> HIDE DEF shifted, r
      <3> QED BY <1>4, <3>1
    <2> HIDE DEF r
    <2> QED BY <1>4, <1>5, <2>3, <2>4, DifferenceAdjusts
  <1>8. top \in 0 .. 9
    BY <1>5
  <1> DEFINE s == 16 * top + low
  <1>9. s \in Byte /\ s \div 16 = top /\ (s % 16) = low
    BY <1>4, <1>8, FromDigits
  <1>10. s \in Bcd /\ Decimal(s) = 10 * top + low
    <2> HIDE DEF s, top
    <2> QED BY <1>4, <1>8, <1>9 DEF Bcd, Decimal
  <1>11. (10 * top + low) - 100 * (1 - Carry(high >= 0)) = 10 * high + low
    BY <1>4, <1>5 DEF Carry
  <1>12. SbcBcd(a, m, c).a = s
    BY <1>2, <1>7
  <1> HIDE DEF s, top
  <1>13. Decimal(SbcBcd(a, m, c).a) - 100 * (1 - Carry(SbcBcd(a, m, c).c))
          = (10 * top + low) - 100 * (1 - Carry(high >= 0))
    <2>1. Decimal(SbcBcd(a, m, c).a) = 10 * top + low
      BY <1>10, <1>12, Zenon
    <2>2. Carry(SbcBcd(a, m, c).c) = Carry(high >= 0)
      BY <1>2, Zenon
    <2> DEFINE left == Decimal(SbcBcd(a, m, c).a)
               kept == Carry(SbcBcd(a, m, c).c)
               fresh == Carry(high >= 0)
               sum   == 10 * top + low
    <2>3. left = sum /\ kept = fresh
      BY <2>1, <2>2, Zenon
    <2> HIDE DEF left, kept, fresh, sum
    <2>4. left - 100 * (1 - kept) = sum - 100 * (1 - fresh)
      BY <2>3
    <2> QED BY <2>4, Zenon DEF left, kept, fresh, sum
  <1> QED BY <1>6, <1>10, <1>11, <1>12, <1>13, Zenon

(* CMP, CPX and CPY compare as unsigned numbers. *)
THEOREM CompareIsUnsigned ==
  ASSUME NEW u \in Byte, NEW v \in Byte
  PROVE  (Compare(u, v).c <=> u >= v) /\ (Compare(u, v).z <=> u = v)
PROOF
  <1>1. u - v \in -256 .. 255
    BY DEF Byte
  <1>2. (Compare(u, v).c <=> u >= v) /\ (Compare(u, v).z <=> (u - v) % 256 = 0)
    BY DEF Compare
  <1>3. (u - v) % 256 = IF u - v < 0 THEN u - v + 256 ELSE u - v
    BY <1>1, DifferenceModulo
  <1>4. (u - v) % 256 = 0 <=> u = v
    BY <1>3 DEF Byte
  <1> QED BY <1>2, <1>4

(* Two digits, whatever they were before they were cut to size, fill a byte. *)
LEMMA DigitsFitByte ==
  ASSUME NEW h \in Int, NEW l \in Int
  PROVE  ((h * 16) % 256) + (l % 16) \in Byte
PROOF
  <1>1. (h * 16) % 256 = 16 * (h % 16)
    BY SMT
  <1>2. (h % 16) \in 0 .. 15 /\ (l % 16) \in 0 .. 15
    BY SMT
  <1> QED BY <1>1, <1>2 DEF Byte

(* The decimal operations stay within a byte for operands that are not decimal. *)
THEOREM DecimalResultsAreBytes ==
  ASSUME NEW a \in Byte, NEW m \in Byte, NEW c \in {0, 1}
  PROVE  AdcBcd(a, m, c).a \in Byte /\ SbcBcd(a, m, c).a \in Byte
PROOF
  <1>1. AdcBcd(a, m, c).a \in Byte
    <2> DEFINE digits == (a % 16) + (m % 16) + c
               low    == IF digits > 9 THEN digits - 10 ELSE digits
               high   == a \div 16 + m \div 16 + (IF digits > 9 THEN 1 ELSE 0)
               r      == ((high * 16) % 256) + (low % 16)
    <2>1. AdcBcd(a, m, c).a = IF high > 9 THEN (r - 160) % 256 ELSE r
      BY DEF AdcBcd
    <2>2. high \in Int /\ low \in Int
      BY DEF Byte
    <2> HIDE DEF high, low
    <2>3. r \in Byte
      BY <2>2, DigitsFitByte
    <2> HIDE DEF r
    <2> QED BY <2>1, <2>3 DEF Byte
  <1>2. SbcBcd(a, m, c).a \in Byte
    <2> DEFINE digits == (a % 16) - (m % 16) - (1 - c)
               low    == IF digits < 0 THEN digits + 10 ELSE digits
               high   == a \div 16 - m \div 16 - (IF digits < 0 THEN 1 ELSE 0)
               r      == ((high * 16) % 256) + (low % 16)
    <2>1. SbcBcd(a, m, c).a = IF high < 0 THEN (r + 160) % 256 ELSE r
      BY DEF SbcBcd
    <2>2. high \in Int /\ low \in Int
      BY DEF Byte
    <2> HIDE DEF high, low
    <2>3. r \in Byte
      BY <2>2, DigitsFitByte
    <2> HIDE DEF r
    <2> QED BY <2>1, <2>3 DEF Byte
  <1> QED BY <1>1, <1>2

-----------------------------------------------------------------------------
(* Addresses and memory *)

LEMMA Top == TOP \in Nat /\ TOP = 65535
BY DEF TOP

LEMMA TopIsNat == TOP \in Nat
BY DEF TOP

LEMMA InAddress == \A n : n \in Address <=> n \in Int /\ 0 <= n /\ n <= TOP
BY TopIsNat DEF Address

LEMMA InByte == \A n : n \in Byte <=> n \in Int /\ 0 <= n /\ n <= 255
BY SMT DEF Byte

LEMMA ByteModulo == ASSUME NEW n \in Int PROVE (n % 256) \in Byte
BY InByte

LEMMA SlotIsAddress == ASSUME NEW n \in Int PROVE Slot(n) \in Address
BY InAddress, Top DEF Slot

LEMMA WordIsAddress == ASSUME NEW lo \in Byte, NEW hi \in Byte PROVE Word(lo, hi) \in Address
BY InByte, InAddress, Top DEF Word

LEMMA PlusIsAddress == ASSUME NEW w \in Int, NEW n \in Int PROVE Plus(w, n) \in Address
<1>1. w + n \in Int
  OBVIOUS
<1> QED BY <1>1, InAddress, Top DEF Plus

LEMMA FollowingIsAddress == ASSUME NEW w \in Int PROVE Following(w) \in Address
BY PlusIsAddress DEF Following

LEMMA HalvesAreBytes ==
  ASSUME NEW w \in Address
  PROVE  Low(w) \in Byte /\ High(w) \in Byte /\ Word(Low(w), High(w)) = w
BY InByte, InAddress, Top DEF Low, High, Word

LEMMA UncorrectedIsAddress ==
  ASSUME NEW v \in Address, NEW w \in Address PROVE Uncorrected(v, w) \in Address
BY HalvesAreBytes, WordIsAddress DEF Uncorrected

(* Every address reads as a byte. *)
LEMMA PeekIsByte ==
  ASSUME NEW m, IsMemory(m), NEW a
  PROVE  Peek(m, a) \in Byte
<1>1. 0 \in Byte
  BY DEF Byte
<1> QED BY <1>1 DEF Peek, IsMemory

LEMMA PeekWordIsAddress ==
  ASSUME NEW m, IsMemory(m), NEW a
  PROVE  PeekWord(m, a) \in Address /\ PeekZpWord(m, a) \in Address
BY PeekIsByte, WordIsAddress DEF PeekWord, PeekZpWord

(* A byte that is stored is found, and nothing else moves. *)
LEMMA PokeChangesOne ==
  ASSUME NEW m, IsMemory(m), NEW a \in Address, NEW v \in Byte
  PROVE  /\ IsMemory(Poke(m, a, v))
         /\ Peek(Poke(m, a, v), a) = v
         /\ \A b : b # a => Peek(Poke(m, a, v), b) = Peek(m, b)
BY DEF Poke, Peek, IsMemory

(* So are bytes that are pushed. *)
Pushes(s, n) == {Slot(s - i + 1) : i \in 1 .. n}

LEMMA StackedChangesPushes ==
  ASSUME NEW m, IsMemory(m), NEW s \in Byte, NEW values \in Seq(Byte)
  PROVE  /\ IsMemory(Stacked(m, s, values))
         /\ \A b : b \notin Pushes(s, Len(values)) => Peek(Stacked(m, s, values), b) = Peek(m, b)
<1> DEFINE n == Len(values)
<1>1. n \in Nat /\ \A i \in 1 .. n : values[i] \in Byte
  BY ElementOfSeq, LenProperties
<1>2. \A i \in 1 .. n : Slot(s - i + 1) \in Address
  BY <1>1, SlotIsAddress DEF Byte
<1>3. DOMAIN Stacked(m, s, values) \subseteq Address
  BY <1>2 DEF Stacked, IsMemory
<1>4. ASSUME NEW a \in DOMAIN Stacked(m, s, values)
      PROVE  Stacked(m, s, values)[a] \in Byte
  <2>1. CASE \E i \in 1 .. n : Slot(s - i + 1) = a
    BY <1>1, <2>1 DEF Stacked
  <2>2. CASE ~\E i \in 1 .. n : Slot(s - i + 1) = a
    BY <1>4, <2>2 DEF Stacked, IsMemory
  <2> QED BY <2>1, <2>2
<1>5. IsMemory(Stacked(m, s, values))
  BY <1>3, <1>4 DEF IsMemory, Stacked
<1>6. ASSUME NEW b, b \notin Pushes(s, n)
      PROVE  Peek(Stacked(m, s, values), b) = Peek(m, b)
  BY <1>6 DEF Peek, Stacked, Pushes
<1> QED BY <1>5, <1>6

(* What is pushed is where it is looked for: the slots of a push are distinct. *)
LEMMA SlotsAreDistinct ==
  \A s \in Byte : \A i, j \in 0 .. 2 : Slot(s - i) = Slot(s - j) => i = j
BY SMT DEF Slot, Byte

LEMMA StackedIsFound ==
  ASSUME NEW m, IsMemory(m), NEW s \in Byte, NEW values \in Seq(Byte), Len(values) <= 3,
         NEW k \in 1 .. Len(values)
  PROVE  Peek(Stacked(m, s, values), Slot(s - k + 1)) = values[k]
<1> DEFINE n == Len(values)
           a == Slot(s - k + 1)
<1>1. n \in Nat
  BY LenProperties
<1>2. ASSUME NEW i \in 1 .. n, Slot(s - i + 1) = a
      PROVE  i = k
  <2>1. i - 1 \in 0 .. 2 /\ k - 1 \in 0 .. 2 /\ s - i + 1 = s - (i - 1) /\ s - k + 1 = s - (k - 1)
    BY <1>1 DEF Byte
  <2>2. i - 1 = k - 1
    BY <1>2, <2>1, SlotsAreDistinct
  <2> QED BY <2>2
<1>3. (CHOOSE i \in 1 .. n : Slot(s - i + 1) = a) = k
  BY <1>2
<1>4. a \in DOMAIN Stacked(m, s, values) /\ Stacked(m, s, values)[a] = values[k]
  BY <1>3 DEF Stacked
<1> QED BY <1>4 DEF Peek

-----------------------------------------------------------------------------
(* Operations on bytes return bytes, and flags are Booleans. *)

LEMMA CarryIsBit == \A f \in BOOLEAN : Carry(f) \in {0, 1}
BY DEF Carry

LEMMA BitIsBit ==
  ASSUME NEW u \in Byte
  PROVE  \A i \in 0 .. 7 : Bit(u, i) \in {0, 1}
BY SMTT(30) DEF Bit, Byte

LEMMA LogicOnBits ==
  ASSUME NEW i \in {0, 1}, NEW j \in {0, 1}
  PROVE  i * j \in {0, 1} /\ i + j - i * j \in {0, 1} /\ (i + j) % 2 \in {0, 1}
OBVIOUS

LEMMA LogicIsByte ==
  ASSUME NEW u \in Byte, NEW v \in Byte
  PROVE  AndByte(u, v) \in Byte /\ OrByte(u, v) \in Byte /\ XorByte(u, v) \in Byte
<1> DEFINE Bits(t(_)) ==
             /\ t(0) \in {0, 1} /\ t(1) \in {0, 1} /\ t(2) \in {0, 1} /\ t(3) \in {0, 1}
             /\ t(4) \in {0, 1} /\ t(5) \in {0, 1} /\ t(6) \in {0, 1} /\ t(7) \in {0, 1}
           Sum8(t(_)) ==
             2^0 * t(0) + 2^1 * t(1) + 2^2 * t(2) + 2^3 * t(3)
               + 2^4 * t(4) + 2^5 * t(5) + 2^6 * t(6) + 2^7 * t(7)
<1>a. \A i \in 0 .. 7 : Bit(u, i) \in {0, 1} /\ Bit(v, i) \in {0, 1}
  BY BitIsBit
<1>b. /\ 0 \in 0 .. 7 /\ 1 \in 0 .. 7 /\ 2 \in 0 .. 7 /\ 3 \in 0 .. 7
      /\ 4 \in 0 .. 7 /\ 5 \in 0 .. 7 /\ 6 \in 0 .. 7 /\ 7 \in 0 .. 7
  OBVIOUS
<1>1. AndByte(u, v) \in Byte
  <2> DEFINE t(i) == Bit(u, i) * Bit(v, i)
  <2>1. Bits(t)
    BY <1>a, <1>b, LogicOnBits, Zenon
  <2>2. AndByte(u, v) = Sum8(t)
    BY Zenon DEF AndByte, Bytewise
  <2> HIDE DEF t
  <2> QED BY <2>1, <2>2, SMTT(30) DEF Byte
<1>2. OrByte(u, v) \in Byte
  <2> DEFINE t(i) == Bit(u, i) + Bit(v, i) - Bit(u, i) * Bit(v, i)
  <2>1. Bits(t)
    BY <1>a, <1>b, LogicOnBits, Zenon
  <2>2. OrByte(u, v) = Sum8(t)
    BY Zenon DEF OrByte, Bytewise
  <2> HIDE DEF t
  <2> QED BY <2>1, <2>2, SMTT(30) DEF Byte
<1>3. XorByte(u, v) \in Byte
  <2> DEFINE t(i) == (Bit(u, i) + Bit(v, i)) % 2
  <2>1. Bits(t)
    BY <1>a, <1>b, LogicOnBits, Zenon
  <2>2. XorByte(u, v) = Sum8(t)
    BY Zenon DEF XorByte, Bytewise
  <2> HIDE DEF t
  <2> QED BY <2>1, <2>2, SMTT(30) DEF Byte
<1> QED BY <1>1, <1>2, <1>3

LEMMA ShiftIsByte ==
  ASSUME NEW v \in Byte, NEW in \in {0, 1}
  PROVE  /\ ShiftLeft(v, in).r \in Byte /\ ShiftRight(v, in).r \in Byte
         /\ ShiftLeft(v, in).c \in BOOLEAN /\ ShiftRight(v, in).c \in BOOLEAN
<1>1. ((v * 2) % 256) + in \in Byte
  BY InByte
<1>2. v \div 2 + 128 * in \in Byte
  BY InByte
<1> QED BY <1>1, <1>2 DEF ShiftLeft, ShiftRight

-----------------------------------------------------------------------------
(* What an operation leaves in the registers is registers. *)

LEMMA FlagKeeps ==
  ASSUME NEW r \in RegisterFile, NEW f \in BOOLEAN
  PROVE  /\ [r EXCEPT !.n = f] \in RegisterFile /\ [r EXCEPT !.z = f] \in RegisterFile
         /\ [r EXCEPT !.c = f] \in RegisterFile /\ [r EXCEPT !.v = f] \in RegisterFile
         /\ [r EXCEPT !.i = f] \in RegisterFile /\ [r EXCEPT !.d = f] \in RegisterFile
         /\ [r EXCEPT !.halted = f] \in RegisterFile
BY DEF RegisterFile

LEMMA FlagsKeep ==
  ASSUME NEW r \in RegisterFile, NEW v \in Byte
  PROVE  UpdateNZ(r, v) \in RegisterFile
<1>1. Negative(v) \in BOOLEAN /\ (v = 0) \in BOOLEAN
  BY DEF Negative
<1>2. [[r EXCEPT !.n = Negative(v)] EXCEPT !.z = v = 0] \in RegisterFile
  BY <1>1, FlagKeeps, Zenon
<1> QED BY <1>2, Zenon DEF UpdateNZ

LEMMA SetKeeps ==
  ASSUME NEW r \in RegisterFile, NEW v \in Byte
  PROVE  SetA(r, v) \in RegisterFile /\ SetX(r, v) \in RegisterFile /\ SetY(r, v) \in RegisterFile
<1>1. /\ [r EXCEPT !.a = v] \in RegisterFile /\ [r EXCEPT !.x = v] \in RegisterFile
      /\ [r EXCEPT !.y = v] \in RegisterFile
  BY DEF RegisterFile
<1> QED BY <1>1, FlagsKeep DEF SetA, SetX, SetY

LEMMA SumKeeps ==
  ASSUME NEW r \in RegisterFile, NEW f, f.a \in Byte,
         f.c \in BOOLEAN, f.z \in BOOLEAN, f.n \in BOOLEAN, f.v \in BOOLEAN
  PROVE  Sum(r, f) \in RegisterFile
BY DEF Sum, RegisterFile

LEMMA AdcKeeps ==
  ASSUME NEW r \in RegisterFile, NEW v \in Byte
  PROVE  Adc(r, v) \in RegisterFile /\ Sbc(r, v) \in RegisterFile
<1> DEFINE c == Carry(r.c)
<1>1. r.a \in Byte /\ c \in {0, 1}
  BY CarryIsBit DEF RegisterFile
<1> HIDE DEF c
<1>2. /\ AdcBin(r.a, v, c).a \in Byte /\ SbcBin(r.a, v, c).a \in Byte
      /\ AdcBcd(r.a, v, c).a \in Byte /\ SbcBcd(r.a, v, c).a \in Byte
  BY <1>1, BinarySumIsExact, BinaryDifferenceIsExact, DecimalResultsAreBytes
<1>3. \A w : /\ AdcBin(r.a, w, c).c \in BOOLEAN /\ AdcBin(r.a, w, c).z \in BOOLEAN
             /\ AdcBin(r.a, w, c).n \in BOOLEAN /\ AdcBin(r.a, w, c).v \in BOOLEAN
  BY DEF AdcBin, Negative, Overflow
<1>4. /\ AdcBcd(r.a, v, c).c \in BOOLEAN /\ AdcBcd(r.a, v, c).z \in BOOLEAN
      /\ AdcBcd(r.a, v, c).n \in BOOLEAN /\ AdcBcd(r.a, v, c).v \in BOOLEAN
  BY DEF AdcBcd, Negative, Overflow
<1>5. /\ SbcBcd(r.a, v, c).c \in BOOLEAN /\ SbcBcd(r.a, v, c).z \in BOOLEAN
      /\ SbcBcd(r.a, v, c).n \in BOOLEAN /\ SbcBcd(r.a, v, c).v \in BOOLEAN
  BY DEF SbcBcd, Negative, Overflow
<1>6. Sum(r, AdcBin(r.a, v, c)) \in RegisterFile /\ Sum(r, SbcBin(r.a, v, c)) \in RegisterFile
  BY <1>2, <1>3, SumKeeps DEF SbcBin
<1>7. Sum(r, AdcBcd(r.a, v, c)) \in RegisterFile /\ Sum(r, SbcBcd(r.a, v, c)) \in RegisterFile
  BY <1>2, <1>4, <1>5, SumKeeps
<1> QED BY <1>6, <1>7 DEF Adc, Sbc, c

LEMMA CompareKeeps ==
  ASSUME NEW r \in RegisterFile, NEW u, NEW v
  PROVE  Cmp(r, u, v) \in RegisterFile
<1>1. Compare(u, v).c \in BOOLEAN /\ Compare(u, v).z \in BOOLEAN /\ Compare(u, v).n \in BOOLEAN
  BY DEF Compare, Negative
<1> QED BY <1>1 DEF Cmp, RegisterFile

LEMMA LogicKeeps ==
  ASSUME NEW r \in RegisterFile, NEW v \in Byte
  PROVE  /\ Ora(r, v) \in RegisterFile /\ And(r, v) \in RegisterFile /\ Eor(r, v) \in RegisterFile
         /\ Lax(r, v) \in RegisterFile /\ BitTest(r, v) \in RegisterFile
<1>1. r.a \in Byte
  BY DEF RegisterFile
<1>2. Ora(r, v) \in RegisterFile /\ And(r, v) \in RegisterFile /\ Eor(r, v) \in RegisterFile
  BY <1>1, LogicIsByte, SetKeeps DEF Ora, And, Eor
<1>3. Lax(r, v) \in RegisterFile
  BY SetKeeps DEF Lax, RegisterFile
<1>4. (AndByte(r.a, v) = 0) \in BOOLEAN /\ Negative(v) \in BOOLEAN /\ (Bit(v, 6) = 1) \in BOOLEAN
  BY DEF Negative
<1>5. [[[r EXCEPT !.z = AndByte(r.a, v) = 0] EXCEPT !.n = Negative(v)] EXCEPT !.v = Bit(v, 6) = 1]
        \in RegisterFile
  BY <1>4, FlagKeeps, Zenon
<1>6. BitTest(r, v) \in RegisterFile
  BY <1>5, Zenon DEF BitTest
<1> QED BY <1>2, <1>3, <1>6

(* The undocumented operations on an immediate byte. *)
LEMMA ImmediateKeeps ==
  ASSUME NEW r \in RegisterFile, NEW v \in Byte
  PROVE  /\ Anc(r, v) \in RegisterFile /\ Alr(r, v) \in RegisterFile /\ Arr(r, v) \in RegisterFile
         /\ Sbx(r, v) \in RegisterFile /\ Xaa(r, v) \in RegisterFile /\ Lxa(r, v) \in RegisterFile
         /\ Las(r, v) \in RegisterFile
<1>1. r.a \in Byte /\ r.x \in Byte /\ r.s \in Byte /\ r.c \in BOOLEAN /\ Magic \in Byte
  BY DEF RegisterFile, Magic, Byte
<1>2. Anc(r, v) \in RegisterFile
  BY LogicKeeps DEF Anc, RegisterFile
<1>3. Alr(r, v) \in RegisterFile
  <2>1. AndByte(r.a, v) \in Byte /\ 0 \in {0, 1}
    BY <1>1, LogicIsByte
  <2>2. ShiftRight(AndByte(r.a, v), 0).r \in Byte /\ ShiftRight(AndByte(r.a, v), 0).c \in BOOLEAN
    BY <2>1, ShiftIsByte
  <2>3. SetA(r, ShiftRight(AndByte(r.a, v), 0).r) \in RegisterFile
    BY <2>2, SetKeeps
  <2> QED BY <2>2, <2>3, FlagKeeps DEF Alr
<1>4. Arr(r, v) \in RegisterFile
  <2> DEFINE value  == AndByte(r.a, v)
             result == ShiftRight(value, Carry(r.c)).r
             fixed  == IF (value % 16) + (value % 2) > 5
                         THEN 16 * (result \div 16) + ((result + 6) % 16) ELSE result
             carry  == 16 * (value \div 16) + 16 * Bit(value, 4) > 80
             n      == [UpdateNZ(r, result) EXCEPT !.v = Bit(result, 6) # Bit(result, 5)]
  <2>1. value \in Byte
    BY <1>1, LogicIsByte
  <2>2. result \in Byte
    BY <1>1, <2>1, CarryIsBit, ShiftIsByte
  <2>3. fixed \in Byte
    <3>1. 16 * (result \div 16) + ((result + 6) % 16) \in Byte
      <4> HIDE DEF result
      <4> QED BY <2>2, InByte
    <3> QED BY <2>2, <3>1
  <2>4. ((fixed + 96) % 256) \in Byte
    <3> HIDE DEF fixed
    <3> QED BY <2>3, InByte
  <2>5. n \in RegisterFile
    <3> HIDE DEF result
    <3>1. (Bit(result, 6) # Bit(result, 5)) \in BOOLEAN
      OBVIOUS
    <3> QED BY <2>2, <3>1, FlagsKeep, FlagKeeps, Zenon
  <2>6. carry \in BOOLEAN /\ (Bit(result, 6) = 1) \in BOOLEAN
    OBVIOUS
  <2> DEFINE high == IF carry THEN (fixed + 96) % 256 ELSE fixed
             bit6 == Bit(result, 6) = 1
  <2>7. high \in Byte
    BY <2>3, <2>4
  <2>8. Arr(r, v) = IF r.d THEN [n EXCEPT !.a = high, !.c = carry] ELSE [n EXCEPT !.a = result, !.c = bit6]
    BY Zenon DEF Arr
  <2> HIDE DEF n, high, carry, result, bit6
  <2>9. [[n EXCEPT !.a = high] EXCEPT !.c = carry] \in RegisterFile
    BY <2>5, <2>6, <2>7 DEF RegisterFile
  <2>10. [[n EXCEPT !.a = result] EXCEPT !.c = bit6] \in RegisterFile
    BY <2>2, <2>5, <2>6 DEF RegisterFile, bit6
  <2> QED BY <2>8, <2>9, <2>10, Zenon
<1>5. Sbx(r, v) \in RegisterFile
  <2> DEFINE ax == AndByte(r.a, r.x)
             c  == ax >= v
  <2>1. ax \in Byte
    BY <1>1, LogicIsByte
  <2>2. Sbx(r, v) = [SetX(r, (ax - v) % 256) EXCEPT !.c = c]
    BY DEF Sbx
  <2>3. c \in BOOLEAN
    OBVIOUS
  <2> HIDE DEF ax, c
  <2>4. ((ax - v) % 256) \in Byte
    BY <2>1, InByte
  <2>5. SetX(r, (ax - v) % 256) \in RegisterFile
    BY <2>4, SetKeeps
  <2>6. [SetX(r, (ax - v) % 256) EXCEPT !.c = c] \in RegisterFile
    <3> DEFINE q == SetX(r, (ax - v) % 256)
    <3>1. q \in RegisterFile
      BY <2>5
    <3> HIDE DEF q
    <3>2. [q EXCEPT !.c = c] \in RegisterFile
      BY <2>3, <3>1 DEF RegisterFile
    <3> QED BY <3>2 DEF q
  <2> QED BY <2>2, <2>6, Zenon
<1>6. Xaa(r, v) \in RegisterFile /\ Lxa(r, v) \in RegisterFile
  BY <1>1, LogicIsByte, SetKeeps, LogicKeeps DEF Xaa, Lxa
<1>7. Las(r, v) \in RegisterFile
  <2> DEFINE u == AndByte(v, r.s)
  <2>1. u \in Byte
    BY <1>1, LogicIsByte
  <2>2. Las(r, v) = [SetA(r, u) EXCEPT !.x = u, !.s = u]
    BY DEF Las
  <2> HIDE DEF u
  <2>3. SetA(r, u) \in RegisterFile
    BY <2>1, SetKeeps
  <2> QED BY <2>1, <2>2, <2>3 DEF RegisterFile
<1> QED BY <1>2, <1>3, <1>4, <1>5, <1>6, <1>7

(* LDA, ADC and all others that read an operand. *)
LEMMA ApplyKeeps ==
  ASSUME NEW r \in RegisterFile, NEW v \in Byte, NEW name \in Reads
  PROVE  Apply(name, r, v) \in RegisterFile
BY SetKeeps, AdcKeeps, CompareKeeps, LogicKeeps, ImmediateKeeps DEF Apply, Reads

LEMMA StoredIsByte ==
  ASSUME NEW r \in RegisterFile, NEW name \in Stores
  PROVE  Stored(name, r) \in Byte
<1>1. r.a \in Byte /\ r.x \in Byte /\ r.y \in Byte
  BY DEF RegisterFile
<1> QED BY <1>1, LogicIsByte DEF Stored, Stores, Sax

(* Shifts, counts and the operations that go on with what they return. *)
LEMMA ShiftedIsByte ==
  ASSUME NEW v \in Byte, NEW c \in BOOLEAN, NEW name \in Modifies \ {"INC", "DEC", "DCP", "ISC"}
  PROVE  Shifted(name, v, c).r \in Byte /\ Shifted(name, v, c).c \in BOOLEAN
<1>1. Carry(c) \in {0, 1} /\ 0 \in {0, 1}
  BY CarryIsBit
<1>2. /\ ShiftLeft(v, 0).r \in Byte /\ ShiftRight(v, 0).r \in Byte
      /\ ShiftLeft(v, 0).c \in BOOLEAN /\ ShiftRight(v, 0).c \in BOOLEAN
      /\ ShiftLeft(v, Carry(c)).r \in Byte /\ ShiftRight(v, Carry(c)).r \in Byte
      /\ ShiftLeft(v, Carry(c)).c \in BOOLEAN /\ ShiftRight(v, Carry(c)).c \in BOOLEAN
  BY <1>1, ShiftIsByte
<1> QED BY <1>2 DEF Shifted, Modifies, Shifts, Counts

LEMMA NewValueIsByte ==
  ASSUME NEW r \in RegisterFile, NEW v \in Byte, NEW name \in Modifies
  PROVE  NewValue(name, r, v) \in Byte
<1>1. CASE name \in {"INC", "DEC", "DCP", "ISC"}
  <2>1. Counted(name, v) \in Byte
    BY InByte DEF Counted
  <2> QED BY <1>1, <2>1 DEF NewValue, Counts
<1>2. CASE name \notin {"INC", "DEC", "DCP", "ISC"}
  <2>1. r.c \in BOOLEAN
    BY DEF RegisterFile
  <2>2. Shifted(name, v, r.c).r \in Byte
    BY <1>2, <2>1, ShiftedIsByte
  <2> QED BY <1>2, <2>2 DEF NewValue, Counts
<1> QED BY <1>1, <1>2

LEMMA ModifiedKeeps ==
  ASSUME NEW r \in RegisterFile, NEW v \in Byte, NEW t \in Byte, NEW name \in Modifies
  PROVE  Modified(name, r, v, t) \in RegisterFile
<1>1. CASE name \in {"INC", "DEC", "DCP", "ISC"}
  <2>1. /\ UpdateNZ(r, t) \in RegisterFile
        /\ Dcp(r, t) \in RegisterFile /\ Isc(r, t) \in RegisterFile
    BY FlagsKeep, CompareKeeps, AdcKeeps DEF Dcp, Isc
  <2> QED BY <1>1, <2>1 DEF Modified, Counts, Shifts
<1>2. CASE name \notin {"INC", "DEC", "DCP", "ISC"}
  <2> DEFINE s == [r EXCEPT !.c = Shifted(name, v, r.c).c]
  <2>1. r.c \in BOOLEAN
    BY DEF RegisterFile
  <2>2. Shifted(name, v, r.c).c \in BOOLEAN
    BY <1>2, <2>1, ShiftedIsByte
  <2>3. s \in RegisterFile
    BY <2>2, FlagKeeps
  <2>4. Modified(name, r, v, t) \in {UpdateNZ(s, t), Slo(s, t), Rla(s, t), Sre(s, t), Rra(s, t)}
    <3> HIDE DEF s
    <3>1. Modified(name, r, v, t) =
            CASE name \in Shifts -> UpdateNZ(s, t) [] name \in Counts -> UpdateNZ(r, t)
              [] name = "SLO" -> Slo(s, t) [] name = "RLA" -> Rla(s, t) [] name = "SRE" -> Sre(s, t)
              [] name = "RRA" -> Rra(s, t) [] name = "DCP" -> Dcp(r, t) [] name = "ISC" -> Isc(r, t)
      BY DEF Modified, s
    <3> QED BY <1>2, <3>1 DEF Modifies, Shifts, Counts
  <2> HIDE DEF s
  <2>5. /\ UpdateNZ(s, t) \in RegisterFile /\ Slo(s, t) \in RegisterFile /\ Rla(s, t) \in RegisterFile
        /\ Sre(s, t) \in RegisterFile /\ Rra(s, t) \in RegisterFile
    BY <2>3, FlagsKeep, LogicKeeps, AdcKeeps DEF Slo, Rla, Sre, Rra
  <2> QED BY <2>4, <2>5
<1> QED BY <1>1, <1>2

LEMMA OnRegistersKeeps ==
  ASSUME NEW r \in RegisterFile, NEW name \in Implied
  PROVE  OnRegisters(name, r) \in RegisterFile
<1>1. r.a \in Byte /\ r.x \in Byte /\ r.y \in Byte /\ r.s \in Byte
  BY DEF RegisterFile
<1>2. /\ ((r.x + 1) % 256) \in Byte /\ ((r.x - 1) % 256) \in Byte
      /\ ((r.y + 1) % 256) \in Byte /\ ((r.y - 1) % 256) \in Byte
  BY <1>1, InByte
<1>3. CASE name \in FlagChanges
  <2>1. FlagChanged(name, r) \in RegisterFile
    BY <1>3, FlagKeeps DEF FlagChanged, FlagChanges
  <2> QED BY <1>3, <2>1 DEF OnRegisters, FlagChanges, Transferrals
<1>4. CASE name \in Transferrals
  <2>1. [r EXCEPT !.s = r.x] \in RegisterFile
    BY <1>1 DEF RegisterFile
  <2>2. Transferred(name, r) \in RegisterFile
    BY <1>1, <1>4, <2>1, SetKeeps DEF Transferred, Transferrals
  <2> QED BY <1>4, <2>2 DEF OnRegisters, FlagChanges, Transferrals
<1>5. CASE name \in {"INX", "INY", "DEX", "DEY", "NOP"}
  <2>1. Incremented(name, r) \in RegisterFile /\ Decremented(name, r) \in RegisterFile
    BY <1>2, SetKeeps, ZenonT(40) DEF Incremented, Decremented
  <2> QED BY <1>5, <2>1 DEF OnRegisters, FlagChanges, Transferrals
<1> QED BY <1>3, <1>4, <1>5 DEF Implied

(* The status byte: what was pushed is what is pulled, whatever B was. *)
LEMMA BitsOfSum ==
  ASSUME NEW c \in {0, 1}, NEW z \in {0, 1}, NEW i \in {0, 1}, NEW d \in {0, 1},
         NEW b \in {0, 1}, NEW v \in {0, 1}, NEW n \in {0, 1}, NEW p,
         p = c + 2 * z + 4 * i + 8 * d + 16 * b + 32 + 64 * v + 128 * n
  PROVE  /\ p \in Byte
         /\ Bit(p, 0) = c /\ Bit(p, 1) = z /\ Bit(p, 2) = i /\ Bit(p, 3) = d
         /\ Bit(p, 6) = v /\ Bit(p, 7) = n
<1>1. p \in Byte
  BY InByte
<1>2. Bit(p, 0) = c /\ Bit(p, 1) = z
  BY SMT DEF Bit
<1>3. Bit(p, 2) = i /\ Bit(p, 3) = d
  BY SMT DEF Bit
<1>4. Bit(p, 6) = v /\ Bit(p, 7) = n
  BY SMT DEF Bit
<1> QED BY <1>1, <1>2, <1>3, <1>4

LEMMA SetStatusKeeps ==
  ASSUME NEW r \in RegisterFile, NEW p \in Byte
  PROVE  SetStatus(r, p) \in RegisterFile
<1> DEFINE r1 == [[r EXCEPT !.c = Bit(p, 0) = 1] EXCEPT !.z = Bit(p, 1) = 1]
           r2 == [[r1 EXCEPT !.i = Bit(p, 2) = 1] EXCEPT !.d = Bit(p, 3) = 1]
           r3 == [[r2 EXCEPT !.v = Bit(p, 6) = 1] EXCEPT !.n = Bit(p, 7) = 1]
<1>1. \A k : (Bit(p, k) = 1) \in BOOLEAN
  OBVIOUS
<1>2. SetStatus(r, p) = r3
  BY Zenon DEF SetStatus
<1>3. r1 \in RegisterFile
  BY <1>1, FlagKeeps, Zenon
<1> HIDE DEF r1
<1>4. r2 \in RegisterFile
  BY <1>1, <1>3, FlagKeeps, Zenon
<1> HIDE DEF r2
<1>5. r3 \in RegisterFile
  BY <1>1, <1>4, FlagKeeps, Zenon
<1> QED BY <1>2, <1>5

LEMMA StatusIsByte ==
  ASSUME NEW r \in RegisterFile, NEW b \in BOOLEAN
  PROVE  Status(r, b) \in Byte
<1>1. /\ Carry(r.c) \in {0, 1} /\ Carry(r.z) \in {0, 1} /\ Carry(r.i) \in {0, 1} /\ Carry(r.d) \in {0, 1}
      /\ Carry(r.v) \in {0, 1} /\ Carry(r.n) \in {0, 1}
  BY CarryIsBit DEF RegisterFile
<1> QED BY <1>1, InByte DEF Status

LEMMA StatusIsRestored ==
  ASSUME NEW r \in RegisterFile, NEW b \in BOOLEAN, NEW q \in RegisterFile
  PROVE  Status(SetStatus(q, Status(r, b)), FALSE) = Status(r, FALSE)
<1> DEFINE p == Status(r, b)
           w == SetStatus(q, p)
           bb == IF b THEN 1 ELSE 0
<1>1. /\ Carry(r.c) \in {0, 1} /\ Carry(r.z) \in {0, 1} /\ Carry(r.i) \in {0, 1} /\ Carry(r.d) \in {0, 1}
      /\ Carry(r.v) \in {0, 1} /\ Carry(r.n) \in {0, 1} /\ bb \in {0, 1}
  BY CarryIsBit DEF RegisterFile
<1>2. p = Carry(r.c) + 2 * Carry(r.z) + 4 * Carry(r.i) + 8 * Carry(r.d) + 16 * bb + 32
            + 64 * Carry(r.v) + 128 * Carry(r.n)
  BY <1>1 DEF Status
<1> HIDE DEF p, bb
<1>3. /\ Bit(p, 0) = Carry(r.c) /\ Bit(p, 1) = Carry(r.z) /\ Bit(p, 2) = Carry(r.i)
      /\ Bit(p, 3) = Carry(r.d) /\ Bit(p, 6) = Carry(r.v) /\ Bit(p, 7) = Carry(r.n)
  BY <1>1, <1>2, BitsOfSum
<1>4. \A f \in BOOLEAN : (Carry(f) = 1) = f
  BY DEF Carry
<1>5. /\ w.c = r.c /\ w.z = r.z /\ w.i = r.i /\ w.d = r.d /\ w.v = r.v /\ w.n = r.n
  <2>1. /\ w.c = (Bit(p, 0) = 1) /\ w.z = (Bit(p, 1) = 1) /\ w.i = (Bit(p, 2) = 1)
        /\ w.d = (Bit(p, 3) = 1) /\ w.v = (Bit(p, 6) = 1) /\ w.n = (Bit(p, 7) = 1)
    BY DEF SetStatus, RegisterFile
  <2>2. /\ r.c \in BOOLEAN /\ r.z \in BOOLEAN /\ r.i \in BOOLEAN /\ r.d \in BOOLEAN /\ r.v \in BOOLEAN
        /\ r.n \in BOOLEAN
    BY DEF RegisterFile
  <2> QED BY <1>3, <1>4, <2>1, <2>2
<1>6. Status(w, FALSE) = Status(r, FALSE)
  <2> HIDE DEF w
  <2> QED BY <1>5 DEF Status
<1> QED BY <1>6 DEF p

-----------------------------------------------------------------------------
(* Addressing: the operand is at an address, and so are the addresses read on
   the way, of which each mode has a fixed number but for a crossed page.    *)

Indexing == {"absx", "absy", "izy"}
Places   == {"imm", "zp", "zpx", "zpy", "abs", "izx"} \union Indexing

OnTheWay == [imm |-> 0, zp |-> 1, zpx |-> 2, zpy |-> 2, abs |-> 2, absx |-> 2, absy |-> 2, izx |-> 4, izy |-> 3]

IsPlace(e, n) ==
  /\ e.at \in Address /\ e.pc \in Address /\ e.px \in BOOLEAN
  /\ e.reads \in Seq(Address) /\ Len(e.reads) = n

LEMMA ByteIsAddress == \A b \in Byte : b \in Address
BY InByte, InAddress, Top

LEMMA AddressIsInt == \A a \in Address : a \in Int
BY InAddress

LEMMA IndexedIsPlace ==
  ASSUME NEW from \in Address, NEW to \in Address, NEW always \in BOOLEAN, NEW pc \in Address,
         NEW reads \in Seq(Address)
  PROVE  LET e == Indexed(from, to, always, reads, pc)
         IN  IsPlace(e, Len(reads) + (IF always \/ e.px THEN 1 ELSE 0))
<1> DEFINE e == Indexed(from, to, always, reads, pc)
           crossed == High(from) # High(to)
<1>1. e.at = to /\ e.pc = pc /\ e.px = crossed /\ crossed \in BOOLEAN
  BY DEF Indexed, Place
<1>2. e.reads = IF always \/ crossed THEN Append(reads, Uncorrected(from, to)) ELSE reads
  BY DEF Indexed, Place
<1>3. Uncorrected(from, to) \in Address
  BY UncorrectedIsAddress
<1>4. Append(reads, Uncorrected(from, to)) \in Seq(Address) /\ Len(Append(reads, Uncorrected(from, to))) = Len(reads) + 1
  BY <1>3, AppendProperties
<1>5. Len(reads) \in Nat
  BY LenProperties
<1> HIDE DEF e, crossed
<1>6. IsPlace(e, Len(reads) + (IF always \/ e.px THEN 1 ELSE 0))
  <2>1. CASE always \/ crossed
    BY <1>1, <1>2, <1>4, <2>1 DEF IsPlace
  <2>2. CASE ~(always \/ crossed)
    BY <1>1, <1>2, <1>5, <2>2 DEF IsPlace
  <2> QED BY <2>1, <2>2
<1> QED BY <1>6 DEF e

LEMMA AbsoluteIsPlace ==
  ASSUME NEW r \in RegisterFile, NEW m, IsMemory(m)
  PROVE  IsPlace(AddrAbs(r, m), 2) /\ AddrInd(r, m).at \in Address
         /\ AddrInd(r, m).reads \in Seq(Address) /\ Len(AddrInd(r, m).reads) = 4
<1>1. r.pc \in Address /\ r.pc \in Int
  BY AddressIsInt DEF RegisterFile
<1>2. Following(r.pc) \in Address /\ Plus(r.pc, 2) \in Address
  BY <1>1, FollowingIsAddress, PlusIsAddress
<1>3. PeekWord(m, r.pc) \in Address
  BY PeekWordIsAddress
<1>4. <<r.pc, Following(r.pc)>> \in Seq(Address) /\ Len(<<r.pc, Following(r.pc)>>) = 2
  BY <1>1, <1>2
<1>5. IsPlace(AddrAbs(r, m), 2)
  BY <1>2, <1>3, <1>4 DEF AddrAbs, Place, IsPlace
<1> DEFINE ptr  == PeekWord(m, r.pc)
           next == Word((Low(ptr) + 1) % 256, High(ptr))
           high == IF Low(ptr) = 255 THEN next ELSE Following(ptr)
<1>6. Low(ptr) \in Byte /\ High(ptr) \in Byte
  BY <1>3, HalvesAreBytes
<1>7. ((Low(ptr) + 1) % 256) \in Byte
  <2> HIDE DEF ptr
  <2> QED BY <1>6, InByte
<1>8. high \in Address
  <2> HIDE DEF ptr
  <2>1. next \in Address
    BY <1>6, <1>7, WordIsAddress
  <2>2. Following(ptr) \in Address
    BY <1>3, FollowingIsAddress, AddressIsInt DEF ptr
  <2> HIDE DEF next
  <2> QED BY <2>1, <2>2
<1>9. AddrInd(r, m) = Place(Word(Peek(m, ptr), Peek(m, high)), Plus(r.pc, 2), <<r.pc, Following(r.pc), ptr, high>>, FALSE)
  BY DEF AddrInd
<1> HIDE DEF ptr, high
<1>10. Word(Peek(m, ptr), Peek(m, high)) \in Address
  BY PeekIsByte, WordIsAddress
<1>11. <<r.pc, Following(r.pc), ptr, high>> \in Seq(Address) /\ Len(<<r.pc, Following(r.pc), ptr, high>>) = 4
  BY <1>1, <1>2, <1>3, <1>8 DEF ptr
<1> QED BY <1>5, <1>9, <1>10, <1>11 DEF Place

LEMMA ZeroPageIsPlace ==
  ASSUME NEW r \in RegisterFile, NEW m, IsMemory(m), NEW i \in Byte
  PROVE  /\ IsPlace(AddrImm(r, m), 0) /\ IsPlace(AddrZp(r, m), 1) /\ IsPlace(AddrZpi(i, r, m), 2)
         /\ IsPlace(AddrIzx(r, m), 4)
<1>1. r.pc \in Address /\ r.pc \in Int /\ r.x \in Byte
  BY AddressIsInt DEF RegisterFile
<1>2. Following(r.pc) \in Address
  BY <1>1, FollowingIsAddress
<1> DEFINE raw == Peek(m, r.pc)
           zp  == (raw + r.x) % 256
<1>3. raw \in Byte /\ raw \in Address
  BY PeekIsByte, ByteIsAddress
<1>4. \A a, b \in Byte : ((a + b) % 256) \in Address
  BY InByte, InAddress, Top
<1>5. \A a \in Int : (a % 256) \in Address /\ ((a + 1) % 256) \in Address
  BY InAddress, Top
<1>6. AddrZpi(i, r, m) = Place((raw + i) % 256, Following(r.pc), <<r.pc, raw>>, FALSE)
  BY DEF AddrZpi
<1>7. AddrIzx(r, m) = Place(PeekZpWord(m, zp), Following(r.pc), <<r.pc, raw, zp, (zp + 1) % 256>>, FALSE)
  BY DEF AddrIzx
<1>8. PeekZpWord(m, zp) \in Address
  BY PeekWordIsAddress
<1> HIDE DEF raw
<1>9. zp \in Address /\ ((zp + 1) % 256) \in Address
  <2>1. raw + r.x \in Int /\ zp \in Int
    BY <1>1, <1>3, InByte
  <2>2. zp \in Address
    BY <2>1, <1>5
  <2> HIDE DEF zp
  <2> QED BY <2>1, <2>2, <1>5
<1> HIDE DEF zp
<1>10. IsPlace(AddrImm(r, m), 0) /\ IsPlace(AddrZp(r, m), 1)
  BY <1>1, <1>2, <1>3 DEF AddrImm, AddrZp, Place, IsPlace, raw
<1>11. IsPlace(AddrZpi(i, r, m), 2)
  <2>1. <<r.pc, raw>> \in Seq(Address) /\ Len(<<r.pc, raw>>) = 2
    BY <1>1, <1>3
  <2>2. ((raw + i) % 256) \in Address
    BY <1>3, <1>4
  <2> QED BY <1>2, <1>6, <2>1, <2>2 DEF Place, IsPlace
<1>12. IsPlace(AddrIzx(r, m), 4)
  <2> DEFINE next == (zp + 1) % 256
  <2>0. next \in Address
    BY <1>9
  <2>1. AddrIzx(r, m) = Place(PeekZpWord(m, zp), Following(r.pc), <<r.pc, raw, zp, next>>, FALSE)
    BY <1>7
  <2> HIDE DEF next
  <2>2. <<r.pc, raw, zp, next>> \in Seq(Address) /\ Len(<<r.pc, raw, zp, next>>) = 4
    BY <1>1, <1>3, <1>9, <2>0
  <2> QED BY <1>2, <1>8, <2>1, <2>2 DEF Place, IsPlace
<1> QED BY <1>10, <1>11, <1>12

LEMMA IndexingIsPlace ==
  ASSUME NEW r \in RegisterFile, NEW m, IsMemory(m), NEW always \in BOOLEAN, NEW i \in Byte
  PROVE  /\ LET e == AddrAbsi(i, always, r, m) IN IsPlace(e, 2 + (IF always \/ e.px THEN 1 ELSE 0))
         /\ LET e == AddrIzy(always, r, m) IN IsPlace(e, 3 + (IF always \/ e.px THEN 1 ELSE 0))
<1>1. r.pc \in Address /\ r.pc \in Int /\ r.y \in Int /\ i \in Int
  BY AddressIsInt, InByte DEF RegisterFile
<1>2. Following(r.pc) \in Address /\ Plus(r.pc, 2) \in Address
  BY <1>1, FollowingIsAddress, PlusIsAddress
<1> DEFINE from == PeekWord(m, r.pc)
           e    == AddrAbsi(i, always, r, m)
           two  == <<r.pc, Following(r.pc)>>
<1>3. from \in Address /\ from \in Int
  BY PeekWordIsAddress, AddressIsInt
<1>4. two \in Seq(Address) /\ Len(two) = 2
  BY <1>1, <1>2
<1>5. e = Indexed(from, Plus(from, i), always, two, Plus(r.pc, 2))
  BY DEF AddrAbsi
<1>6. IsPlace(e, 2 + (IF always \/ e.px THEN 1 ELSE 0))
  <2> HIDE DEF from, two, e
  <2>1. Plus(from, i) \in Address
    BY <1>1, <1>3, PlusIsAddress
  <2> DEFINE k == Indexed(from, Plus(from, i), always, two, Plus(r.pc, 2))
  <2>2. IsPlace(k, Len(two) + (IF always \/ k.px THEN 1 ELSE 0))
    BY <1>2, <1>3, <1>4, <2>1, IndexedIsPlace, Zenon
  <2> QED BY <1>4, <1>5, <2>2
<1> DEFINE zp   == Peek(m, r.pc)
           base2 == PeekZpWord(m, zp)
           g    == AddrIzy(always, r, m)
           next == (zp + 1) % 256
           three == <<r.pc, zp, next>>
<1>7. base2 \in Address /\ base2 \in Int /\ zp \in Byte /\ zp \in Address
  BY PeekWordIsAddress, AddressIsInt, PeekIsByte, ByteIsAddress
<1>8. next \in Address
  <2> HIDE DEF zp
  <2> QED BY <1>7, InByte, InAddress, Top
<1>9. three \in Seq(Address) /\ Len(three) = 3
  <2> HIDE DEF zp, next
  <2> QED BY <1>1, <1>7, <1>8
<1>10. g = Indexed(base2, Plus(base2, r.y), always, three, Following(r.pc))
  BY DEF AddrIzy
<1>11. IsPlace(g, 3 + (IF always \/ g.px THEN 1 ELSE 0))
  <2> HIDE DEF base2, three, g
  <2>1. Plus(base2, r.y) \in Address
    BY <1>1, <1>7, PlusIsAddress
  <2> DEFINE k == Indexed(base2, Plus(base2, r.y), always, three, Following(r.pc))
  <2>2. IsPlace(k, Len(three) + (IF always \/ k.px THEN 1 ELSE 0))
    BY <1>2, <1>7, <1>9, <2>1, IndexedIsPlace, Zenon
  <2> QED BY <1>9, <1>10, <2>2
<1> QED BY <1>6, <1>11

Reading(md, always, px) == OnTheWay[md] + (IF md \in Indexing /\ (always \/ px) THEN 1 ELSE 0)

LEMMA EffectiveIsPlace ==
  ASSUME NEW r \in RegisterFile, NEW m, IsMemory(m), NEW md \in Places, NEW always \in BOOLEAN
  PROVE  LET e == Effective(md, always, r, m)
         IN  IsPlace(e, Reading(md, always, e.px)) /\ (md \notin Indexing => e.px = FALSE)
<1> DEFINE e == Effective(md, always, r, m)
<1>1. r.x \in Byte /\ r.y \in Byte
  BY DEF RegisterFile
<1>2. CASE md \notin Indexing
  <2>1. Reading(md, always, e.px) = OnTheWay[md]
    <3>1. OnTheWay[md] \in Nat
      BY DEF OnTheWay, Places, Indexing
    <3> QED BY <1>2, <3>1 DEF Reading
  <2>2. IsPlace(e, OnTheWay[md])
    BY <1>1, <1>2, AbsoluteIsPlace, ZeroPageIsPlace DEF Effective, OnTheWay, Places, Indexing
  <2>3. /\ AddrImm(r, m).px = FALSE /\ AddrZp(r, m).px = FALSE /\ AddrAbs(r, m).px = FALSE
        /\ AddrIzx(r, m).px = FALSE /\ \A i : AddrZpi(i, r, m).px = FALSE
    BY DEF AddrImm, AddrZp, AddrAbs, AddrIzx, AddrZpi, Place
  <2>4. e.px = FALSE
    BY <1>2, <2>3 DEF Effective, Places, Indexing
  <2> QED BY <2>1, <2>2, <2>4
<1>3. CASE md = "absx"
  <2>1. e = AddrAbsi(r.x, always, r, m)
    BY <1>3 DEF Effective
  <2>2. IsPlace(e, 2 + (IF always \/ e.px THEN 1 ELSE 0))
    BY <1>1, <2>1, IndexingIsPlace, Zenon
  <2> HIDE DEF e
  <2>3. Reading(md, always, e.px) = 2 + (IF always \/ e.px THEN 1 ELSE 0)
    BY <1>3 DEF Reading, OnTheWay, Indexing
  <2> QED BY <1>3, <2>2, <2>3 DEF Indexing, e
<1>4. CASE md = "absy"
  <2>1. e = AddrAbsi(r.y, always, r, m)
    BY <1>4 DEF Effective
  <2>2. IsPlace(e, 2 + (IF always \/ e.px THEN 1 ELSE 0))
    BY <1>1, <2>1, IndexingIsPlace, Zenon
  <2> HIDE DEF e
  <2>3. Reading(md, always, e.px) = 2 + (IF always \/ e.px THEN 1 ELSE 0)
    BY <1>4 DEF Reading, OnTheWay, Indexing
  <2> QED BY <1>4, <2>2, <2>3 DEF Indexing, e
<1>5. CASE md = "izy"
  <2>1. e = AddrIzy(always, r, m)
    BY <1>5 DEF Effective
  <2>2. IsPlace(e, 3 + (IF always \/ e.px THEN 1 ELSE 0))
    BY <1>1, <2>1, IndexingIsPlace, Zenon
  <2> HIDE DEF e
  <2>3. Reading(md, always, e.px) = 3 + (IF always \/ e.px THEN 1 ELSE 0)
    BY <1>5 DEF Reading, OnTheWay, Indexing
  <2> QED BY <1>5, <2>2, <2>3 DEF Indexing, e
<1> QED BY <1>2, <1>3, <1>4, <1>5 DEF Indexing

-----------------------------------------------------------------------------
(* The table of opcodes: which modes an operation comes in. *)

LEMMA ReadingModes ==
  \A op \in Byte : Operation(op) \in Reads /\ Mode(op) # "imp" => Mode(op) \in Places
BY DEF Operation, Mode, OpNames, OpModes, Reads, Byte, Places, Indexing

LEMMA StoringModes ==
  \A op \in Byte :
    /\ Operation(op) \in Stores => Mode(op) \in Places \ {"imm"}
    /\ Operation(op) \in Unstable => Mode(op) \in {"absx", "absy", "izy"}
BY DEF Operation, Mode, OpNames, OpModes, Stores, Unstable, Byte, Places, Indexing

LEMMA ModifyingModes ==
  \A op \in Byte : Operation(op) \in Modifies /\ Mode(op) # "acc" => Mode(op) \in Places \ {"imm", "zpy"}
BY DEF Operation, Mode, OpNames, OpModes, Modifies, Shifts, Counts, Byte, Places, Indexing

Branches == {"BPL", "BMI", "BVC", "BVS", "BCC", "BCS", "BNE", "BEQ"}

LEMMA OtherModes ==
  \A op \in Byte : /\ Mode(op) = "acc" => Operation(op) \in Shifts
                   /\ Mode(op) = "rel" => Operation(op) \in Branches
BY DEF Operation, Mode, OpNames, OpModes, Shifts, Branches, Byte

LEMMA CyclesOfModes ==
  ASSUME NEW px \in BOOLEAN
  PROVE  /\ \A md \in Places : (md \notin Indexing => px = FALSE) =>
              ReadCycles[md] + Carry(px) = Reading(md, FALSE, px) + 2 /\ ReadCycles[md] \in Nat
         /\ \A md \in Places \ {"imm"} : StoreCycles[md] = Reading(md, TRUE, px) + 2 /\ StoreCycles[md] \in Nat
         /\ \A md \in Places \ {"imm", "zpy"} :
              ModifyCycles[md] = Reading(md, TRUE, px) + 4 /\ ModifyCycles[md] \in Nat
<1>1. ASSUME NEW md \in Places, md \notin Indexing => px = FALSE
      PROVE  ReadCycles[md] + Carry(px) = Reading(md, FALSE, px) + 2 /\ ReadCycles[md] \in Nat
  BY <1>1 DEF Places, Indexing, ReadCycles, OnTheWay, Reading, Carry
<1>2. ASSUME NEW md \in Places \ {"imm"}
      PROVE  StoreCycles[md] = Reading(md, TRUE, px) + 2 /\ StoreCycles[md] \in Nat
  BY DEF Places, Indexing, StoreCycles, OnTheWay, Reading
<1>3. ASSUME NEW md \in Places \ {"imm", "zpy"}
      PROVE  ModifyCycles[md] = Reading(md, TRUE, px) + 4 /\ ModifyCycles[md] \in Nat
  BY DEF Places, Indexing, ModifyCycles, OnTheWay, Reading
<1> QED BY <1>1, <1>2, <1>3

-----------------------------------------------------------------------------
(* A step, whatever it executes: the registers stay registers, refresh loses
   nothing, and the frames that the step did not write over stay intact.     *)

CycleInv ==
  /\ TypeOK /\ DramExact /\ CyclesFollowTheBus
  /\ base \in Nat /\ stolen \in Nat /\ fuel \in Nat

(* The frame f is on the stack in m. *)
Holds(f, m) ==
  /\ f.s \in Byte /\ f.size \in {2, 3} /\ f.pc \in Address
  /\ f.size = 2 => Following(Word(Peek(m, Slot(f.s - 1)), Peek(m, Slot(f.s)))) = f.pc
  /\ f.size = 3 =>
       /\ Word(Peek(m, Slot(f.s - 1)), Peek(m, Slot(f.s))) = f.pc
       /\ \E r \in RegisterFile, b \in BOOLEAN :
            Peek(m, Slot(f.s - 2)) = Status(r, b) /\ f.p = Status(r, FALSE)

FramesIntact == \A f \in frames : Holds(f, mem)

IInv == CycleInv /\ FramesIntact

Written(writes) == {writes[i][1] : i \in 1 .. Len(writes)}

LEMMA HoldsElsewhere ==
  ASSUME NEW f, NEW m, NEW w, NEW written, Holds(f, m), ~Overwritten(f, written),
         \A a : a \notin written => Peek(w, a) = Peek(m, a)
  PROVE  Holds(f, w)
<1>1. f.s \in Int /\ f.size \in {2, 3} /\ f.s - 0 = f.s
  BY InByte DEF Holds
<1>2. Slot(f.s) \notin written /\ Slot(f.s - 1) \notin written
  BY <1>1 DEF Overwritten
<1>3. f.size = 3 => Slot(f.s - 2) \notin written
  BY <1>1 DEF Overwritten
<1>4. /\ Peek(w, Slot(f.s)) = Peek(m, Slot(f.s)) /\ Peek(w, Slot(f.s - 1)) = Peek(m, Slot(f.s - 1))
      /\ f.size = 3 => Peek(w, Slot(f.s - 2)) = Peek(m, Slot(f.s - 2))
  BY <1>2, <1>3
<1> QED BY <1>4 DEF Holds

LEMMA RefreshKeeps ==
  ASSUME CycleInv, NEW cycles \in Nat, Refresh(cycles)
  PROVE  acc' \in 0 .. 60 /\ DramExact' /\ base' \in Nat /\ stolen' \in Nat
<1> DEFINE sum == acc + 4 * cycles
<1>1. sum \in Nat /\ base \in Nat /\ stolen \in Nat /\ acc \in Nat /\ 61 * stolen + acc = 4 * base
  BY DEF CycleInv, TypeOK, DramExact
<1>2. acc' = (sum % 61) /\ stolen' = stolen + sum \div 61 /\ base' = base + cycles
  BY DEF Refresh
<1> HIDE DEF sum
<1>3. (sum % 61) \in 0 .. 60 /\ sum \div 61 \in Nat /\ 61 * (sum \div 61) + (sum % 61) = sum
  BY <1>1
<1>4. 61 * stolen' + acc' = 4 * base'
  BY <1>1, <1>2, <1>3 DEF sum
<1> QED BY <1>1, <1>2, <1>3, <1>4 DEF DramExact

LEMMA FramesKeep ==
  ASSUME FramesIntact, NEW kind, NEW r, NEW m, NEW reads, NEW writes, NEW cycles,
         \A a : a \notin Written(writes) => Peek(m, a) = Peek(mem, a),
         NEW made, \A f \in made : Holds(f, m),
         Step(kind, r, m, reads, writes, cycles, made)
  PROVE  FramesIntact'
<1>1. frames' = {f \in frames : ~Overwritten(f, Written(writes))} \union made /\ mem' = m
  BY DEF Step, Written
<1>2. ASSUME NEW f \in frames, ~Overwritten(f, Written(writes))
      PROVE  Holds(f, m)
  BY <1>2, HoldsElsewhere DEF FramesIntact
<1> QED BY <1>1, <1>2 DEF FramesIntact

(* What a step leaves in `last': the fetch of the opcode and the reads it names. *)
LEMMA AccessesOfStep ==
  ASSUME NEW kind, NEW r, NEW m, NEW reads \in Seq(Address), NEW writes, NEW cycles, NEW made,
         Step(kind, r, m, reads, writes, cycles, made), reg.pc \in Address
  PROVE  /\ last'.kind = kind /\ last'.cycles = cycles
         /\ Len(last'.reads) = 1 + Len(reads) /\ Len(last'.writes) = Len(writes)
<1>1. last' = [kind |-> kind, op |-> Opcode, reads |-> <<reg.pc>> \o reads, writes |-> writes,
               cycles |-> cycles]
  BY DEF Step, Bus
<1>2. <<reg.pc>> \in Seq(Address) /\ Len(<<reg.pc>>) = 1
  OBVIOUS
<1>3. Len(<<reg.pc>> \o reads) = 1 + Len(reads)
  BY <1>2, ConcatProperties
<1> QED BY <1>1, <1>3

LEMMA FinishKeeps ==
  ASSUME IInv, fuel > 0,
         NEW r \in RegisterFile, NEW m, IsMemory(m), NEW reads \in Seq(Address),
         NEW writes, Len(writes) \in Nat,
         \A a : a \notin Written(writes) => Peek(m, a) = Peek(mem, a),
         NEW cycles, cycles = 1 + Len(reads) + Len(writes),
         NEW made, \A f \in made : Holds(f, m),
         Finish(r, m, reads, writes, cycles, made)
  PROVE  IInv'
<1> USE DEF IInv
<1>1. Step("executed", r, m, reads, writes, cycles, made) /\ Refresh(cycles) /\ UNCHANGED <<nmi, irq>>
  BY DEF Finish
<1>2. reg' = r /\ mem' = m /\ fuel' = fuel - 1 /\ line' = line
  BY <1>1 DEF Step
<1>3. cycles \in Nat /\ Len(reads) \in Nat
  BY LenProperties
<1>4. acc' \in 0 .. 60 /\ DramExact' /\ base' \in Nat /\ stolen' \in Nat
  BY <1>1, <1>3, RefreshKeeps
<1>5. TypeOK'
  BY <1>1, <1>2, <1>4 DEF CycleInv, TypeOK
<1>6. CyclesFollowTheBus'
  <2>1. reg.pc \in Address
    BY DEF CycleInv, TypeOK, RegisterFile
  <2>2. /\ last'.kind = "executed" /\ last'.cycles = cycles
        /\ Len(last'.reads) = 1 + Len(reads) /\ Len(last'.writes) = Len(writes)
    BY <1>1, <2>1, AccessesOfStep
  <2> QED BY <1>3, <2>2 DEF CyclesFollowTheBus
<1>7. CycleInv'
  BY <1>2, <1>4, <1>5, <1>6 DEF CycleInv
<1>8. FramesIntact'
  BY <1>1, FramesKeep
<1> QED BY <1>7, <1>8

LEMMA Running ==
  ASSUME IInv, Executing
  PROVE  /\ reg \in RegisterFile /\ IsMemory(mem) /\ fuel > 0
         /\ Opcode \in Byte /\ Fetched \in RegisterFile /\ Fetched.pc \in Address
         /\ \A pc \in Address : [reg EXCEPT !.pc = pc] \in RegisterFile
<1>1. reg \in RegisterFile /\ IsMemory(mem)
  BY DEF IInv, CycleInv, TypeOK
<1>2. Following(reg.pc) \in Address
  BY <1>1, FollowingIsAddress, AddressIsInt DEF RegisterFile
<1>3. \A pc \in Address : [reg EXCEPT !.pc = pc] \in RegisterFile
  BY <1>1 DEF RegisterFile
<1>4. Fetched \in RegisterFile /\ Fetched.pc \in Address
  BY <1>2, <1>3 DEF Fetched, RegisterFile
<1>5. Opcode \in Byte
  BY <1>1, PeekIsByte DEF Opcode
<1>6. fuel > 0
  BY DEF Executing, Stepping
<1> QED BY <1>1, <1>3, <1>4, <1>5, <1>6

(* Steps that write nothing, and that write one or two cells. *)
LEMMA NothingWritten ==
  ASSUME IInv, fuel > 0, NEW r \in RegisterFile, NEW reads \in Seq(Address),
         NEW cycles, cycles = 1 + Len(reads), Finish(r, mem, reads, <<>>, cycles, {})
  PROVE  IInv'
<1> DEFINE none == <<>>
           made == {}
<1>1. Len(none) \in Nat /\ Len(none) = 0 /\ Len(reads) \in Nat
  BY LenProperties
<1>2. IsMemory(mem)
  BY DEF IInv, CycleInv, TypeOK
<1>3. Finish(r, mem, reads, none, cycles, made)
  OBVIOUS
<1>4. \A f \in made : Holds(f, mem)
  OBVIOUS
<1> HIDE DEF none, made
<1>5. cycles = 1 + Len(reads) + Len(none)
  BY <1>1
<1> QED BY <1>1, <1>2, <1>3, <1>4, <1>5, FinishKeeps

LEMMA OneWritten ==
  ASSUME NEW m, IsMemory(m), NEW a \in Address, NEW v \in Byte
  PROVE  /\ Len(<< <<a, v>> >>) = 1 /\ IsMemory(Poke(m, a, v))
         /\ \A b : b \notin Written(<< <<a, v>> >>) => Peek(Poke(m, a, v), b) = Peek(m, b)
<1>1. Written(<< <<a, v>> >>) = {a}
  BY DEF Written
<1> QED BY <1>1, PokeChangesOne

LEMMA TwoWritten ==
  ASSUME NEW m, IsMemory(m), NEW a \in Address, NEW u, NEW v \in Byte
  PROVE  /\ Len(<< <<a, u>>, <<a, v>> >>) = 2 /\ IsMemory(Poke(m, a, v))
         /\ \A b : b \notin Written(<< <<a, u>>, <<a, v>> >>) => Peek(Poke(m, a, v), b) = Peek(m, b)
<1>1. Written(<< <<a, u>>, <<a, v>> >>) = {a}
  BY DEF Written
<1> QED BY <1>1, PokeChangesOne

(* Where the operand is, and how long it takes to get there. *)
LEMMA PlaceToRead ==
  ASSUME IInv, Executing, Mode(Opcode) \in Places
  PROVE  LET e == Effective(Mode(Opcode), FALSE, Fetched, mem)
         IN  /\ e.at \in Address /\ e.pc \in Address
             /\ e.reads \in Seq(Address) /\ Len(e.reads) \in Nat
             /\ ReadCycles[Mode(Opcode)] + Carry(e.px) = Len(e.reads) + 2
<1> DEFINE e == Effective(Mode(Opcode), FALSE, Fetched, mem)
           n == Reading(Mode(Opcode), FALSE, e.px)
<1>1. Fetched \in RegisterFile /\ IsMemory(mem) /\ FALSE \in BOOLEAN
  BY Running
<1>2. IsPlace(e, n) /\ (Mode(Opcode) \notin Indexing => e.px = FALSE)
  BY <1>1, EffectiveIsPlace, Zenon
<1> HIDE DEF e
<1>3. ReadCycles[Mode(Opcode)] + Carry(e.px) = n + 2
  BY <1>2, CyclesOfModes, Zenon DEF IsPlace
<1> HIDE DEF n
<1> QED BY <1>2, <1>3, LenProperties DEF IsPlace, e

LEMMA PlaceToWrite ==
  ASSUME IInv, Executing, Mode(Opcode) \in Places \ {"imm"}
  PROVE  LET e == Effective(Mode(Opcode), TRUE, Fetched, mem)
         IN  /\ e.at \in Address /\ e.pc \in Address /\ e.px \in BOOLEAN
             /\ e.reads \in Seq(Address) /\ Len(e.reads) \in Nat
             /\ StoreCycles[Mode(Opcode)] = Len(e.reads) + 2
             /\ Mode(Opcode) # "zpy" => ModifyCycles[Mode(Opcode)] = Len(e.reads) + 4
<1> DEFINE e == Effective(Mode(Opcode), TRUE, Fetched, mem)
           n == Reading(Mode(Opcode), TRUE, e.px)
<1>1. Fetched \in RegisterFile /\ IsMemory(mem) /\ TRUE \in BOOLEAN /\ Mode(Opcode) \in Places
  BY Running
<1>2. IsPlace(e, n)
  BY <1>1, EffectiveIsPlace, Zenon
<1> HIDE DEF e
<1>3. StoreCycles[Mode(Opcode)] = n + 2
  BY <1>2, CyclesOfModes, Zenon DEF IsPlace
<1>4. Mode(Opcode) # "zpy" => Mode(Opcode) \in Places \ {"imm", "zpy"}
  OBVIOUS
<1>5. Mode(Opcode) # "zpy" => ModifyCycles[Mode(Opcode)] = n + 4
  BY <1>2, <1>4, CyclesOfModes, Zenon DEF IsPlace
<1> HIDE DEF n
<1> QED BY <1>2, <1>3, <1>5, LenProperties DEF IsPlace, e

LEMMA ReadStep == IInv /\ ExecuteRead => IInv'
<1> SUFFICES ASSUME IInv, ExecuteRead PROVE IInv'
  OBVIOUS
<1> DEFINE e      == Effective(Mode(Opcode), FALSE, Fetched, mem)
           r      == Apply(Name, [reg EXCEPT !.pc = e.pc], Peek(mem, e.at))
           reads  == Append(e.reads, e.at)
           cycles == ReadCycles[Mode(Opcode)] + Carry(e.px)
<1>1. Executing /\ Name \in Reads /\ Mode(Opcode) # "imp" /\ Finish(r, mem, reads, <<>>, cycles, {})
  BY DEF ExecuteRead
<1>2. /\ reg \in RegisterFile /\ IsMemory(mem) /\ fuel > 0 /\ Opcode \in Byte
      /\ \A pc \in Address : [reg EXCEPT !.pc = pc] \in RegisterFile
  BY <1>1, Running
<1>3. /\ e.at \in Address /\ e.pc \in Address /\ e.reads \in Seq(Address) /\ Len(e.reads) \in Nat
      /\ cycles = Len(e.reads) + 2
  BY <1>1, <1>2, ReadingModes, PlaceToRead DEF Name
<1> HIDE DEF e
<1>4. r \in RegisterFile
  BY <1>1, <1>2, <1>3, PeekIsByte, ApplyKeeps
<1>5. reads \in Seq(Address) /\ Len(reads) = Len(e.reads) + 1
  BY <1>3, AppendProperties
<1> HIDE DEF r, reads, cycles
<1>6. cycles = 1 + Len(reads)
  BY <1>3, <1>5
<1> QED BY <1>1, <1>2, <1>4, <1>5, <1>6, NothingWritten

LEMMA StoreStep == IInv /\ ExecuteStore => IInv'
<1> SUFFICES ASSUME IInv, ExecuteStore PROVE IInv'
  OBVIOUS
<1> DEFINE e      == Effective(Mode(Opcode), TRUE, Fetched, mem)
           r      == [reg EXCEPT !.pc = e.pc]
           v      == Stored(Name, reg)
           writes == << <<e.at, v>> >>
           m      == Poke(mem, e.at, v)
           cycles == StoreCycles[Mode(Opcode)]
           made   == {}
<1>1. Executing /\ Name \in Stores /\ Finish(r, m, e.reads, writes, cycles, made)
  BY DEF ExecuteStore
<1>2. /\ reg \in RegisterFile /\ IsMemory(mem) /\ fuel > 0 /\ Opcode \in Byte
      /\ \A pc \in Address : [reg EXCEPT !.pc = pc] \in RegisterFile
  BY <1>1, Running
<1>3. /\ e.at \in Address /\ e.pc \in Address /\ e.reads \in Seq(Address) /\ Len(e.reads) \in Nat
      /\ cycles = Len(e.reads) + 2
  BY <1>1, <1>2, StoringModes, PlaceToWrite DEF Name
<1>4. v \in Byte
  BY <1>1, <1>2, StoredIsByte
<1> HIDE DEF e, v
<1>5. r \in RegisterFile
  BY <1>2, <1>3
<1>6. Len(writes) = 1 /\ IsMemory(m) /\ \A a : a \notin Written(writes) => Peek(m, a) = Peek(mem, a)
  BY <1>2, <1>3, <1>4, OneWritten
<1>7. \A f \in made : Holds(f, m)
  OBVIOUS
<1> DEFINE reads == e.reads
<1>8. reads \in Seq(Address) /\ Finish(r, m, reads, writes, cycles, made) /\ cycles = Len(reads) + 2 /\ Len(reads) \in Nat
  BY <1>1, <1>3
<1> HIDE DEF r, writes, m, cycles, made, reads
<1>9. cycles = 1 + Len(reads) + Len(writes) /\ Len(writes) \in Nat
  BY <1>6, <1>8
<1> QED BY <1>1, <1>2, <1>5, <1>6, <1>7, <1>8, <1>9, FinishKeeps

LEMMA UnstableStep == IInv /\ ExecuteUnstable => IInv'
<1> SUFFICES ASSUME IInv, ExecuteUnstable PROVE IInv'
  OBVIOUS
<1> DEFINE e      == Effective(Mode(Opcode), TRUE, Fetched, mem)
           page   == (High(e.at) + 1 - Carry(e.px)) % 256
           v      == AndByte(Unmasked, page)
           at     == IF e.px THEN Word(Low(e.at), v) ELSE e.at
           sp     == IF Name = "TAS" THEN Unmasked ELSE reg.s
           r      == [reg EXCEPT !.pc = e.pc, !.s = sp]
           writes == << <<at, v>> >>
           m      == Poke(mem, at, v)
           cycles == StoreCycles[Mode(Opcode)]
           made   == {}
           reads  == e.reads
<1>1. Executing /\ Name \in Unstable /\ Finish(r, m, reads, writes, cycles, made)
  BY DEF ExecuteUnstable
<1>2. /\ reg \in RegisterFile /\ IsMemory(mem) /\ fuel > 0 /\ Opcode \in Byte
  BY <1>1, Running
<1>3. /\ e.at \in Address /\ e.pc \in Address /\ e.px \in BOOLEAN
      /\ reads \in Seq(Address) /\ Len(reads) \in Nat /\ cycles = Len(reads) + 2
  <2>1. Mode(Opcode) \in {"absx", "absy", "izy"}
    BY <1>1, <1>2, StoringModes DEF Name
  <2>2. Mode(Opcode) \in Places \ {"imm"}
    BY <2>1 DEF Places, Indexing
  <2> QED BY <1>1, <2>2, PlaceToWrite
<1> HIDE DEF e
<1>4. Unmasked \in Byte
  <2>1. reg.a \in Byte /\ reg.x \in Byte /\ reg.y \in Byte
    BY <1>2 DEF RegisterFile
  <2> QED BY <1>1, <2>1, LogicIsByte DEF Unmasked, Unstable
<1>5. page \in Byte
  <2>1. High(e.at) \in Int /\ Carry(e.px) \in Int
    BY <1>3, HalvesAreBytes, CarryIsBit, InByte
  <2>2. High(e.at) + 1 - Carry(e.px) \in Int
    BY <2>1
  <2> QED BY <2>2, ByteModulo
<1> HIDE DEF page
<1>6. v \in Byte
  BY <1>4, <1>5, LogicIsByte
<1> HIDE DEF v
<1>7. at \in Address
  BY <1>3, <1>6, HalvesAreBytes, WordIsAddress
<1>8. r \in RegisterFile
  <2>1. sp \in Byte
    BY <1>2, <1>4 DEF RegisterFile
  <2> HIDE DEF sp
  <2> QED BY <1>2, <1>3, <2>1 DEF RegisterFile
<1> HIDE DEF at
<1>9. Len(writes) = 1 /\ IsMemory(m) /\ \A a : a \notin Written(writes) => Peek(m, a) = Peek(mem, a)
  BY <1>2, <1>6, <1>7, OneWritten
<1>10. \A f \in made : Holds(f, m)
  OBVIOUS
<1> HIDE DEF r, writes, m, cycles, made, reads
<1>11. cycles = 1 + Len(reads) + Len(writes) /\ Len(writes) \in Nat
  BY <1>3, <1>9
<1> QED BY <1>1, <1>2, <1>3, <1>8, <1>9, <1>10, <1>11, FinishKeeps

LEMMA ModifyStep == IInv /\ ExecuteModify => IInv'
<1> SUFFICES ASSUME IInv, ExecuteModify PROVE IInv'
  OBVIOUS
<1> DEFINE e      == Effective(Mode(Opcode), TRUE, Fetched, mem)
           v      == Peek(mem, e.at)
           t      == NewValue(Name, reg, v)
           start  == [reg EXCEPT !.pc = e.pc]
           r      == Modified(Name, start, v, t)
           reads  == Append(e.reads, e.at)
           writes == << <<e.at, v>>, <<e.at, t>> >>
           m      == Poke(mem, e.at, t)
           cycles == ModifyCycles[Mode(Opcode)]
           made   == {}
<1>1. /\ Executing /\ Name \in Modifies /\ Mode(Opcode) # "acc"
      /\ Finish(r, m, reads, writes, cycles, made)
  BY DEF ExecuteModify
<1>2. /\ reg \in RegisterFile /\ IsMemory(mem) /\ fuel > 0 /\ Opcode \in Byte
      /\ \A pc \in Address : [reg EXCEPT !.pc = pc] \in RegisterFile
  BY <1>1, Running
<1>3. /\ e.at \in Address /\ e.pc \in Address /\ e.reads \in Seq(Address) /\ Len(e.reads) \in Nat
      /\ cycles = Len(e.reads) + 4
  BY <1>1, <1>2, ModifyingModes, PlaceToWrite DEF Name
<1> HIDE DEF e
<1>4. v \in Byte /\ start \in RegisterFile
  BY <1>2, <1>3, PeekIsByte
<1> HIDE DEF v, start
<1>5. t \in Byte
  BY <1>1, <1>2, <1>4, NewValueIsByte
<1> HIDE DEF t
<1>6. r \in RegisterFile
  BY <1>1, <1>4, <1>5, ModifiedKeeps
<1>7. reads \in Seq(Address) /\ Len(reads) = Len(e.reads) + 1
  BY <1>3, AppendProperties
<1>8. Len(writes) = 2 /\ IsMemory(m) /\ \A a : a \notin Written(writes) => Peek(m, a) = Peek(mem, a)
  BY <1>2, <1>3, <1>5, TwoWritten
<1>9. \A f \in made : Holds(f, m)
  OBVIOUS
<1> HIDE DEF r, writes, m, cycles, made, reads
<1>10. cycles = 1 + Len(reads) + Len(writes) /\ Len(writes) \in Nat
  BY <1>3, <1>7, <1>8
<1> QED BY <1>1, <1>2, <1>6, <1>7, <1>8, <1>9, <1>10, FinishKeeps

(* Instructions of two cycles on registers alone *)
LEMMA RegisterStep == IInv /\ (ExecuteShiftA \/ ExecuteImplied) => IInv'
<1> DEFINE reads == <<Fetched.pc>>
<1>1. ASSUME IInv, Executing
      PROVE  /\ reg \in RegisterFile /\ fuel > 0 /\ Opcode \in Byte /\ Fetched \in RegisterFile
             /\ reads \in Seq(Address) /\ Len(reads) = 1
  BY <1>1, Running
<1> HIDE DEF reads
<1>2. ASSUME IInv, ExecuteShiftA PROVE IInv'
  <2> DEFINE t == NewValue(Name, reg, reg.a)
             q == Modified(Name, Fetched, reg.a, t)
             r == [q EXCEPT !.a = t]
  <2>1. Executing /\ Mode(Opcode) = "acc" /\ Finish(r, mem, reads, <<>>, 2, {})
    BY <1>2 DEF ExecuteShiftA, reads
  <2>2. Name \in Modifies /\ reg.a \in Byte
    BY <1>1, <1>2, <2>1, OtherModes DEF Name, Modifies, RegisterFile
  <2>3. t \in Byte
    BY <1>1, <1>2, <2>1, <2>2, NewValueIsByte
  <2> HIDE DEF t
  <2>4. q \in RegisterFile
    BY <1>1, <1>2, <2>1, <2>2, <2>3, ModifiedKeeps
  <2> HIDE DEF q
  <2>5. r \in RegisterFile
    BY <2>3, <2>4 DEF RegisterFile
  <2> HIDE DEF r
  <2>6. 2 = 1 + Len(reads)
    <3>1. Len(reads) = 1
      BY <1>1, <1>2, <2>1, Zenon
    <3> QED BY <3>1
  <2> QED BY <1>1, <1>2, <2>1, <2>5, <2>6, NothingWritten
<1>3. ASSUME IInv, ExecuteImplied PROVE IInv'
  <2> DEFINE r == OnRegisters(Name, Fetched)
  <2>1. Executing /\ Name \in Implied /\ Finish(r, mem, reads, <<>>, 2, {})
    BY <1>3 DEF ExecuteImplied, reads
  <2>2. r \in RegisterFile
    BY <1>1, <1>3, <2>1, OnRegistersKeeps
  <2> HIDE DEF r
  <2>3. 2 = 1 + Len(reads)
    <3>1. Len(reads) = 1
      BY <1>1, <1>3, <2>1, Zenon
    <3> QED BY <3>1
  <2> QED BY <1>1, <1>3, <2>1, <2>2, <2>3, NothingWritten
<1> QED BY <1>2, <1>3

(* Steps that push *)
LEMMA PushedIsWritten ==
  ASSUME NEW s \in Byte, NEW values \in Seq(Byte)
  PROVE  /\ Len(Pushed(s, values)) = Len(values) /\ Len(values) \in Nat
         /\ Written(Pushed(s, values)) = Pushes(s, Len(values))
<1>1. Len(values) \in Nat
  BY LenProperties
<1>2. /\ Len(Pushed(s, values)) = Len(values)
      /\ \A i \in 1 .. Len(values) : Pushed(s, values)[i][1] = Slot(s - i + 1)
  BY <1>1 DEF Pushed
<1> QED BY <1>1, <1>2 DEF Written, Pushes

LEMMA PushKeeps ==
  ASSUME IInv, fuel > 0, NEW r \in RegisterFile, NEW reads \in Seq(Address), NEW values \in Seq(Byte),
         NEW cycles, cycles = 1 + Len(reads) + Len(values),
         NEW made, \A f \in made : Holds(f, Stacked(mem, reg.s, values)),
         Finish(r, Stacked(mem, reg.s, values), reads, Pushed(reg.s, values), cycles, made)
  PROVE  IInv'
<1>1. reg.s \in Byte /\ IsMemory(mem)
  BY DEF IInv, CycleInv, TypeOK, RegisterFile
<1> DEFINE m == Stacked(mem, reg.s, values)
           writes == Pushed(reg.s, values)
<1>2. /\ Len(writes) = Len(values) /\ Len(values) \in Nat
      /\ Written(writes) = Pushes(reg.s, Len(values))
  BY <1>1, PushedIsWritten
<1>3. IsMemory(m) /\ \A a : a \notin Written(writes) => Peek(m, a) = Peek(mem, a)
  BY <1>1, <1>2, StackedChangesPushes
<1> HIDE DEF m, writes
<1>4. cycles = 1 + Len(reads) + Len(writes) /\ Len(writes) \in Nat
  BY <1>2
<1> QED BY <1>3, <1>4, FinishKeeps DEF m, writes

(* The frame of an interrupt, of BRK and of JSR is where a return looks. *)
LEMMA InterruptFrameHolds ==
  ASSUME IInv, NEW pc \in Address, NEW b \in BOOLEAN
  PROVE  /\ Interrupted(reg, pc, b) \in Seq(Byte) /\ Len(Interrupted(reg, pc, b)) = 3
         /\ Holds(Frame(reg, 3, pc), Stacked(mem, reg.s, Interrupted(reg, pc, b)))
<1> DEFINE v == Interrupted(reg, pc, b)
           m == Stacked(mem, reg.s, v)
           f == Frame(reg, 3, pc)
           p == Status(reg, b)
<1>1. reg \in RegisterFile /\ IsMemory(mem) /\ reg.s \in Byte /\ reg.s \in Int
  BY InByte DEF IInv, CycleInv, TypeOK, RegisterFile
<1>2. Low(pc) \in Byte /\ High(pc) \in Byte /\ Word(Low(pc), High(pc)) = pc
  BY HalvesAreBytes
<1>3. p \in Byte
  BY <1>1, StatusIsByte
<1>4. v = <<High(pc), Low(pc), p>>
  BY DEF Interrupted
<1> HIDE DEF p
<1>5. v \in Seq(Byte) /\ Len(v) = 3 /\ v[1] = High(pc) /\ v[2] = Low(pc) /\ v[3] = p
  BY <1>2, <1>3, <1>4
<1> HIDE DEF v
<1>6. \A k \in 1 .. 3 : Peek(m, Slot(reg.s - k + 1)) = v[k]
  <2> SUFFICES ASSUME NEW k \in 1 .. 3 PROVE Peek(m, Slot(reg.s - k + 1)) = v[k]
    OBVIOUS
  <2>1. Len(v) <= 3 /\ k \in 1 .. Len(v)
    BY <1>5
  <2> QED BY <1>1, <1>5, <2>1, StackedIsFound
<1>7. reg.s - 1 + 1 = reg.s /\ reg.s - 2 + 1 = reg.s - 1 /\ reg.s - 3 + 1 = reg.s - 2
  BY <1>1
<1>8. Peek(m, Slot(reg.s)) = High(pc) /\ Peek(m, Slot(reg.s - 1)) = Low(pc) /\ Peek(m, Slot(reg.s - 2)) = p
  <2>1. 1 \in 1 .. 3 /\ 2 \in 1 .. 3 /\ 3 \in 1 .. 3
    OBVIOUS
  <2> QED BY <1>5, <1>6, <1>7, <2>1
<1> HIDE DEF m
<1>9. f.s = reg.s /\ f.size = 3 /\ f.pc = pc /\ f.p = Status(reg, FALSE)
  BY DEF Frame
<1> HIDE DEF f
<1>10. \E r \in RegisterFile, c \in BOOLEAN : Peek(m, Slot(f.s - 2)) = Status(r, c) /\ f.p = Status(r, FALSE)
  <2>1. Peek(m, Slot(f.s - 2)) = Status(reg, b) /\ f.p = Status(reg, FALSE)
    BY <1>8, <1>9 DEF p
  <2> QED BY <1>1, <2>1, Zenon
<1>11. Word(Peek(m, Slot(f.s - 1)), Peek(m, Slot(f.s))) = f.pc
  BY <1>2, <1>8, <1>9
<1>12. f.size # 2 /\ f.size \in {2, 3}
  BY <1>9
<1>13. Holds(f, m)
  BY <1>1, <1>9, <1>10, <1>11, <1>12, Zenon DEF Holds
<1> QED BY <1>5, <1>13 DEF m, v, f

LEMMA CallFrameHolds ==
  ASSUME IInv, NEW ret \in Address
  PROVE  /\ <<High(ret), Low(ret)>> \in Seq(Byte) /\ Len(<<High(ret), Low(ret)>>) = 2
         /\ Holds(Frame(reg, 2, Following(ret)), Stacked(mem, reg.s, <<High(ret), Low(ret)>>))
<1> DEFINE v == <<High(ret), Low(ret)>>
           m == Stacked(mem, reg.s, v)
           f == Frame(reg, 2, Following(ret))
<1>1. reg \in RegisterFile /\ IsMemory(mem) /\ reg.s \in Byte /\ reg.s \in Int
  BY InByte DEF IInv, CycleInv, TypeOK, RegisterFile
<1>2. Low(ret) \in Byte /\ High(ret) \in Byte /\ Word(Low(ret), High(ret)) = ret
  BY HalvesAreBytes
<1>3. v \in Seq(Byte) /\ Len(v) = 2 /\ v[1] = High(ret) /\ v[2] = Low(ret)
  BY <1>2
<1>4. Following(ret) \in Address
  BY FollowingIsAddress, AddressIsInt
<1> HIDE DEF v
<1>5. \A k \in 1 .. 2 : Peek(m, Slot(reg.s - k + 1)) = v[k]
  <2> SUFFICES ASSUME NEW k \in 1 .. 2 PROVE Peek(m, Slot(reg.s - k + 1)) = v[k]
    OBVIOUS
  <2>1. Len(v) <= 3 /\ k \in 1 .. Len(v)
    BY <1>3
  <2> QED BY <1>1, <1>3, <2>1, StackedIsFound
<1>6. reg.s - 1 + 1 = reg.s /\ reg.s - 2 + 1 = reg.s - 1 /\ 1 \in 1 .. 2 /\ 2 \in 1 .. 2
  BY <1>1
<1>7. Peek(m, Slot(reg.s)) = High(ret) /\ Peek(m, Slot(reg.s - 1)) = Low(ret)
  BY <1>3, <1>5, <1>6
<1> HIDE DEF m
<1>8. f.s = reg.s /\ f.size = 2 /\ f.pc = Following(ret)
  BY DEF Frame
<1> HIDE DEF f
<1>9. Holds(f, m)
  BY <1>1, <1>2, <1>4, <1>7, <1>8 DEF Holds
<1> QED BY <1>3, <1>9 DEF m, v, f

LEMMA PushStep == IInv /\ ExecutePush => IInv'
<1> SUFFICES ASSUME IInv, ExecutePush PROVE IInv'
  OBVIOUS
<1> DEFINE u      == IF Name = "PHA" THEN reg.a ELSE Status(reg, TRUE)
           values == <<u>>
           sp     == (Fetched.s - 1) % 256
           r      == [Fetched EXCEPT !.s = sp]
           reads  == <<Fetched.pc>>
           made   == {}
<1>1. Executing /\ Finish(r, Stacked(mem, reg.s, values), reads, Pushed(reg.s, values), 3, made)
  BY DEF ExecutePush
<1>2. reg \in RegisterFile /\ fuel > 0 /\ Fetched \in RegisterFile /\ Fetched.pc \in Address
  BY <1>1, Running
<1>3. u \in Byte
  <2>1. reg.a \in Byte /\ TRUE \in BOOLEAN
    BY <1>2 DEF RegisterFile
  <2>2. Status(reg, TRUE) \in Byte
    BY <1>2, <2>1, StatusIsByte, Zenon
  <2> QED BY <2>1, <2>2
<1> HIDE DEF u
<1>4. values \in Seq(Byte) /\ Len(values) = 1 /\ reads \in Seq(Address) /\ Len(reads) = 1
  BY <1>2, <1>3
<1>5. r \in RegisterFile
  <2>1. sp \in Byte
    <3>1. Fetched.s - 1 \in Int
      BY <1>2, InByte DEF RegisterFile
    <3> QED BY <3>1, ByteModulo
  <2> HIDE DEF sp
  <2> QED BY <1>2, <2>1 DEF RegisterFile
<1>6. \A f \in made : Holds(f, Stacked(mem, reg.s, values))
  OBVIOUS
<1> HIDE DEF values, r, reads, made
<1>7. 3 = 1 + Len(reads) + Len(values)
  BY <1>4
<1> QED BY <1>1, <1>2, <1>4, <1>5, <1>6, <1>7, PushKeeps

LEMMA PointerIsByte ==
  ASSUME NEW r \in RegisterFile, NEW n \in Int
  PROVE  ((r.s + n) % 256) \in Byte
<1>1. r.s + n \in Int
  BY InByte DEF RegisterFile
<1> QED BY <1>1, ByteModulo

LEMMA PullStep == IInv /\ ExecutePull => IInv'
<1> SUFFICES ASSUME IInv, ExecutePull PROVE IInv'
  OBVIOUS
<1> DEFINE v     == Peek(mem, Slot(reg.s + 1))
           sp    == (Fetched.s + 1) % 256
           q     == [Fetched EXCEPT !.s = sp]
           r     == IF Name = "PLA" THEN SetA(q, v) ELSE SetStatus(q, v)
           reads == <<Fetched.pc, Slot(reg.s), Slot(reg.s + 1)>>
<1>1. Executing /\ Finish(r, mem, reads, <<>>, 4, {})
  BY DEF ExecutePull
<1>2. reg \in RegisterFile /\ IsMemory(mem) /\ fuel > 0 /\ Fetched \in RegisterFile /\ Fetched.pc \in Address
  BY <1>1, Running
<1>3. v \in Byte
  BY <1>2, PeekIsByte
<1>4. q \in RegisterFile
  <2>1. sp \in Byte
    BY <1>2, PointerIsByte
  <2> HIDE DEF sp
  <2> QED BY <1>2, <2>1 DEF RegisterFile
<1> HIDE DEF v, q
<1>5. r \in RegisterFile
  BY <1>3, <1>4, SetKeeps, SetStatusKeeps
<1>6. reg.s \in Int /\ reg.s + 1 \in Int
  BY <1>2, InByte DEF RegisterFile
<1>7. Slot(reg.s) \in Address /\ Slot(reg.s + 1) \in Address
  BY <1>6, SlotIsAddress
<1>8. reads \in Seq(Address) /\ Len(reads) = 3
  BY <1>2, <1>7
<1> HIDE DEF r, reads
<1>9. 4 = 1 + Len(reads)
  BY <1>8
<1> QED BY <1>1, <1>2, <1>5, <1>8, <1>9, NothingWritten

LEMMA JumpStep == IInv /\ ExecuteJump => IInv'
<1> SUFFICES ASSUME IInv, ExecuteJump PROVE IInv'
  OBVIOUS
<1> DEFINE e      == IF Mode(Opcode) = "ind" THEN AddrInd(Fetched, mem) ELSE AddrAbs(Fetched, mem)
           r      == [reg EXCEPT !.pc = e.at]
           reads  == e.reads
           cycles == IF Mode(Opcode) = "ind" THEN 5 ELSE 3
<1>1. Executing /\ Finish(r, mem, reads, <<>>, cycles, {})
  BY DEF ExecuteJump
<1>2. /\ reg \in RegisterFile /\ IsMemory(mem) /\ fuel > 0 /\ Fetched \in RegisterFile
      /\ \A pc \in Address : [reg EXCEPT !.pc = pc] \in RegisterFile
  BY <1>1, Running
<1>3. e.at \in Address /\ reads \in Seq(Address) /\ cycles = 1 + Len(reads)
  <2> DEFINE i == AddrInd(Fetched, mem)
             d == AddrAbs(Fetched, mem)
  <2>1. /\ i.at \in Address /\ i.reads \in Seq(Address) /\ Len(i.reads) = 4
        /\ d.at \in Address /\ d.reads \in Seq(Address) /\ Len(d.reads) = 2
    BY <1>2, AbsoluteIsPlace DEF IsPlace
  <2>2. e = IF Mode(Opcode) = "ind" THEN i ELSE d
    OBVIOUS
  <2> HIDE DEF i, d, e
  <2>3. CASE Mode(Opcode) = "ind"
    <3>1. e = i /\ cycles = 5
      BY <2>2, <2>3
    <3>2. e.at \in Address /\ e.reads \in Seq(Address) /\ Len(e.reads) = 4
      BY <2>1, <3>1, Zenon
    <3> HIDE DEF cycles
    <3> QED BY <3>1, <3>2
  <2>4. CASE Mode(Opcode) # "ind"
    <3>1. e = d /\ cycles = 3
      BY <2>2, <2>4
    <3>2. e.at \in Address /\ e.reads \in Seq(Address) /\ Len(e.reads) = 2
      BY <2>1, <3>1, Zenon
    <3> HIDE DEF cycles
    <3> QED BY <3>1, <3>2
  <2> QED BY <2>3, <2>4
<1>4. r \in RegisterFile
  BY <1>2, <1>3
<1> HIDE DEF r, reads, cycles
<1> QED BY <1>1, <1>2, <1>3, <1>4, NothingWritten

LEMMA ReturnStep == IInv /\ ExecuteReturn => IInv'
<1> SUFFICES ASSUME IInv, ExecuteReturn PROVE IInv'
  OBVIOUS
<1> DEFINE to    == Pulled(reg.s)
           sp    == (reg.s + 2) % 256
           r     == [reg EXCEPT !.pc = Following(to), !.s = sp]
           reads == <<Fetched.pc, Slot(reg.s), Slot(reg.s + 1), Slot(reg.s + 2), to>>
<1>1. Executing /\ Finish(r, mem, reads, <<>>, 6, {})
  BY DEF ExecuteReturn
<1>2. reg \in RegisterFile /\ IsMemory(mem) /\ fuel > 0 /\ Fetched.pc \in Address
  BY <1>1, Running
<1>3. to \in Address
  BY <1>2, PeekIsByte, WordIsAddress DEF Pulled
<1> HIDE DEF to
<1>4. r \in RegisterFile
  <2>1. sp \in Byte
    BY <1>2, PointerIsByte
  <2>2. Following(to) \in Address
    BY <1>3, FollowingIsAddress, AddressIsInt
  <2> HIDE DEF sp
  <2> QED BY <1>2, <2>1, <2>2 DEF RegisterFile
<1>5. reg.s \in Int /\ reg.s + 1 \in Int /\ reg.s + 2 \in Int
  BY <1>2, InByte DEF RegisterFile
<1>6. Slot(reg.s) \in Address /\ Slot(reg.s + 1) \in Address /\ Slot(reg.s + 2) \in Address
  BY <1>5, SlotIsAddress
<1>7. reads \in Seq(Address) /\ Len(reads) = 5
  BY <1>2, <1>3, <1>6
<1> HIDE DEF r, reads
<1>8. 6 = 1 + Len(reads)
  BY <1>7
<1> QED BY <1>1, <1>2, <1>4, <1>7, <1>8, NothingWritten

LEMMA ReturnFromInterruptStep == IInv /\ ExecuteReturnFromInterrupt => IInv'
<1> SUFFICES ASSUME IInv, ExecuteReturnFromInterrupt PROVE IInv'
  OBVIOUS
<1> DEFINE q     == SetStatus(reg, Peek(mem, Slot(reg.s + 1)))
           to    == Pulled(reg.s + 1)
           sp    == (q.s + 3) % 256
           r     == [q EXCEPT !.pc = to, !.s = sp]
           one   == <<Fetched.pc>>
           four  == [i \in 1 .. 4 |-> Slot(reg.s + i - 1)]
           reads == one \o four
<1>1. Executing /\ Finish(r, mem, reads, <<>>, 6, {})
  BY DEF ExecuteReturnFromInterrupt
<1>2. reg \in RegisterFile /\ IsMemory(mem) /\ fuel > 0 /\ Fetched.pc \in Address
  BY <1>1, Running
<1>3. q \in RegisterFile
  BY <1>2, PeekIsByte, SetStatusKeeps
<1>4. to \in Address
  BY <1>2, PeekIsByte, WordIsAddress DEF Pulled
<1> HIDE DEF q, to
<1>5. r \in RegisterFile
  <2>1. sp \in Byte
    BY <1>3, PointerIsByte
  <2> HIDE DEF sp
  <2> QED BY <1>3, <1>4, <2>1 DEF RegisterFile
<1>6. four \in Seq(Address) /\ Len(four) = 4
  <2>1. reg.s \in Int
    BY <1>2, InByte DEF RegisterFile
  <2>2. \A i \in 1 .. 4 : Slot(reg.s + i - 1) \in Address
    BY <2>1, SlotIsAddress
  <2> QED BY <2>2, IsASeq
<1>7. one \in Seq(Address) /\ Len(one) = 1
  BY <1>2
<1> HIDE DEF r, one, four
<1>8. reads \in Seq(Address) /\ Len(reads) = 5
  <2>1. reads \in Seq(Address) /\ Len(reads) = Len(one) + Len(four)
    BY <1>6, <1>7, ConcatProperties
  <2> QED BY <1>6, <1>7, <2>1
<1> HIDE DEF reads
<1>9. 6 = 1 + Len(reads)
  BY <1>8
<1> QED BY <1>1, <1>2, <1>5, <1>8, <1>9, NothingWritten

LEMMA CallStep == IInv /\ ExecuteCall => IInv'
<1> SUFFICES ASSUME IInv, ExecuteCall PROVE IInv'
  OBVIOUS
<1> DEFINE ret   == Plus(reg.pc, 2)
           v     == <<High(ret), Low(ret)>>
           m     == Stacked(mem, reg.s, v)
           to    == Word(Peek(mem, Fetched.pc), Peek(m, ret))
           sp    == (reg.s - 2) % 256
           r     == [reg EXCEPT !.pc = to, !.s = sp]
           reads == <<Fetched.pc, Slot(reg.s), ret>>
           made  == {Frame(reg, 2, Following(ret))}
<1>1. Executing /\ Finish(r, m, reads, Pushed(reg.s, v), 6, made)
  BY DEF ExecuteCall
<1>2. reg \in RegisterFile /\ IsMemory(mem) /\ fuel > 0 /\ Fetched.pc \in Address
  BY <1>1, Running
<1>3. reg.s \in Byte /\ reg.s \in Int /\ reg.pc \in Int /\ sp \in Byte
  <2>1. reg.s \in Byte /\ reg.s \in Int /\ reg.pc \in Int /\ reg.s - 2 \in Int
    BY <1>2, InByte, AddressIsInt DEF RegisterFile
  <2> QED BY <2>1, ByteModulo
<1>4. ret \in Address
  BY <1>3, PlusIsAddress
<1> HIDE DEF ret
<1>5. v \in Seq(Byte) /\ Len(v) = 2 /\ \A f \in made : Holds(f, m)
  BY <1>4, CallFrameHolds
<1>6. IsMemory(m)
  BY <1>2, <1>3, <1>5, StackedChangesPushes
<1>7. r \in RegisterFile
  <2>1. to \in Address
    BY <1>2, <1>6, PeekIsByte, WordIsAddress
  <2> HIDE DEF to, sp
  <2> QED BY <1>2, <1>3, <2>1 DEF RegisterFile
<1>8. reads \in Seq(Address) /\ Len(reads) = 3
  BY <1>2, <1>3, <1>4, SlotIsAddress
<1> HIDE DEF v, r, reads, made
<1>9. 6 = 1 + Len(reads) + Len(v)
  BY <1>5, <1>8
<1> QED BY <1>1, <1>2, <1>5, <1>7, <1>8, <1>9, PushKeeps

LEMMA BranchStep == IInv /\ ExecuteBranch => IInv'
<1> SUFFICES ASSUME IInv, ExecuteBranch PROVE IInv'
  OBVIOUS
<1> DEFINE off    == Peek(mem, Fetched.pc)
           next   == Plus(reg.pc, 2)
           target == Plus(next, IF Negative(off) THEN off - 256 ELSE off)
           fixup  == IF High(next) # High(target) THEN <<Uncorrected(next, target)>> ELSE <<>>
           two    == <<Fetched.pc, next>>
           one    == <<Fetched.pc>>
           far    == [reg EXCEPT !.pc = target]
           on     == [reg EXCEPT !.pc = next]
<1>1. /\ Executing
      /\ \/ Finish(far, mem, two \o fixup, <<>>, 3 + Len(fixup), {})
         \/ Finish(on, mem, one, <<>>, 2, {})
  BY Zenon DEF ExecuteBranch
<1>2. /\ reg \in RegisterFile /\ IsMemory(mem) /\ fuel > 0 /\ Fetched.pc \in Address
      /\ \A pc \in Address : [reg EXCEPT !.pc = pc] \in RegisterFile
  BY <1>1, Running
<1>3. next \in Address /\ next \in Int
  <2>1. reg.pc \in Int
    BY <1>2, AddressIsInt DEF RegisterFile
  <2> QED BY <2>1, PlusIsAddress, AddressIsInt, SMTT(30)
<1>4. off \in Int
  BY <1>2, PeekIsByte, InByte
<1> HIDE DEF off, next
<1>5. target \in Address
  <2>1. (IF Negative(off) THEN off - 256 ELSE off) \in Int
    BY <1>4
  <2> QED BY <1>3, <2>1, PlusIsAddress
<1> HIDE DEF target
<1>6. far \in RegisterFile /\ on \in RegisterFile
  BY <1>2, <1>3, <1>5
<1>7. fixup \in Seq(Address) /\ Len(fixup) \in Nat
  <2>1. Uncorrected(next, target) \in Address
    BY <1>3, <1>5, UncorrectedIsAddress
  <2>2. fixup \in Seq(Address)
    BY <2>1
  <2> QED BY <2>2, LenProperties
<1>8. two \in Seq(Address) /\ Len(two) = 2 /\ one \in Seq(Address) /\ Len(one) = 1
  BY <1>2, <1>3
<1> HIDE DEF fixup, two, one, far, on
<1>9. ASSUME Finish(far, mem, two \o fixup, <<>>, 3 + Len(fixup), {})
      PROVE  IInv'
  <2> DEFINE reads  == two \o fixup
             cycles == 3 + Len(fixup)
  <2>1. reads \in Seq(Address) /\ Len(reads) = 2 + Len(fixup)
    <3>1. reads \in Seq(Address) /\ Len(reads) = Len(two) + Len(fixup)
      BY <1>7, <1>8, ConcatProperties
    <3> QED BY <1>8, <3>1
  <2>2. Finish(far, mem, reads, <<>>, cycles, {})
    BY <1>9
  <2> HIDE DEF reads
  <2>3. cycles = 1 + Len(reads)
    BY <1>7, <2>1
  <2> HIDE DEF cycles
  <2> QED BY <1>2, <1>6, <2>1, <2>2, <2>3, NothingWritten
<1>10. ASSUME Finish(on, mem, one, <<>>, 2, {})
       PROVE  IInv'
  <2>1. 2 = 1 + Len(one)
    BY <1>8
  <2> QED BY <1>2, <1>6, <1>8, <1>10, <2>1, NothingWritten
<1> QED BY <1>1, <1>9, <1>10

(* On the way to a vector *)
LEMMA EnteredIsRegisters ==
  ASSUME IInv, NEW vector
  PROVE  Entered(vector) \in RegisterFile
<1>1. reg \in RegisterFile /\ IsMemory(mem)
  BY DEF IInv, CycleInv, TypeOK
<1> DEFINE sp == (reg.s - 3) % 256
           pc == PeekWord(mem, vector)
<1>2. sp \in Byte
  <2>1. reg.s - 3 \in Int
    BY <1>1, InByte DEF RegisterFile
  <2> QED BY <2>1, ByteModulo
<1>3. pc \in Address
  BY <1>1, PeekWordIsAddress
<1>4. Entered(vector) = [reg EXCEPT !.i = TRUE, !.s = sp, !.pc = pc]
  BY DEF Entered
<1> HIDE DEF sp, pc
<1> QED BY <1>1, <1>2, <1>3, <1>4 DEF RegisterFile

LEMMA BreakStep == IInv /\ ExecuteBreak => IInv'
<1> SUFFICES ASSUME IInv, ExecuteBreak PROVE IInv'
  OBVIOUS
<1> DEFINE ret   == Plus(reg.pc, 2)
           v     == Interrupted(reg, ret, TRUE)
           m     == Stacked(mem, reg.s, v)
           r     == Entered(IrqVector)
           reads == <<Fetched.pc, IrqVector, IrqVector + 1>>
           made  == {Frame(reg, 3, ret)}
<1>1. Executing /\ Finish(r, m, reads, Pushed(reg.s, v), 7, made)
  BY DEF ExecuteBreak
<1>2. reg \in RegisterFile /\ fuel > 0 /\ Fetched.pc \in Address
  BY <1>1, Running
<1>3. ret \in Address
  <2>1. reg.pc \in Int
    BY <1>2, AddressIsInt DEF RegisterFile
  <2> QED BY <2>1, PlusIsAddress
<1> HIDE DEF ret
<1>4. v \in Seq(Byte) /\ Len(v) = 3 /\ Holds(Frame(reg, 3, ret), m)
  <2>1. TRUE \in BOOLEAN
    OBVIOUS
  <2> QED BY <1>3, <2>1, InterruptFrameHolds, Zenon
<1>5. \A f \in made : Holds(f, m)
  BY <1>4
<1>6. r \in RegisterFile
  BY EnteredIsRegisters
<1>7. reads \in Seq(Address) /\ Len(reads) = 3
  <2>1. IrqVector \in Address /\ IrqVector + 1 \in Address
    BY InAddress, Top DEF IrqVector
  <2> QED BY <1>2, <2>1
<1> HIDE DEF v, r, reads, made
<1>8. 7 = 1 + Len(reads) + Len(v)
  BY <1>4, <1>7
<1> QED BY <1>1, <1>2, <1>4, <1>5, <1>6, <1>7, <1>8, PushKeeps

-----------------------------------------------------------------------------
(* The other steps *)

(* Steps that refresh does not see. *)
LEMMA UnrefreshedKeeps ==
  ASSUME CycleInv, UNCHANGED <<acc, base, stolen>>,
         reg' \in RegisterFile, IsMemory(mem'), nmi' \in BOOLEAN, irq' \in BOOLEAN, line' \in BOOLEAN,
         fuel' \in Nat, CyclesFollowTheBus'
  PROVE  CycleInv'
<1>1. acc' = acc /\ base' = base /\ stolen' = stolen
  OBVIOUS
<1>2. TypeOK'
  BY <1>1 DEF CycleInv, TypeOK
<1> QED BY <1>1, <1>2 DEF CycleInv, DramExact

LEMMA JamStep == IInv /\ ExecuteJam => IInv'
<1> SUFFICES ASSUME IInv, ExecuteJam PROVE IInv'
  OBVIOUS
<1> DEFINE r     == [reg EXCEPT !.halted = TRUE]
           reads == <<reg.pc>>
           none  == <<>>
           made  == {}
<1>1. Executing /\ Step("jammed", r, mem, reads, none, 1, made) /\ Refresh(1) /\ UNCHANGED <<nmi, irq>>
  BY DEF ExecuteJam
<1>2. CycleInv /\ FramesIntact /\ reg \in RegisterFile /\ IsMemory(mem) /\ fuel > 0
  BY <1>1, Running DEF IInv
<1>3. r \in RegisterFile
  BY <1>2 DEF RegisterFile
<1>4. \A f \in made : Holds(f, mem)
  OBVIOUS
<1> HIDE DEF r, reads, none, made
<1>5. FramesIntact'
  BY <1>1, <1>2, <1>4, FramesKeep
<1>6. acc' \in 0 .. 60 /\ DramExact' /\ base' \in Nat /\ stolen' \in Nat
  BY <1>1, <1>2, RefreshKeeps
<1>7. reg' = r /\ mem' = mem /\ fuel' = fuel - 1 /\ line' = line /\ last'.kind = "jammed" /\ nmi' = nmi /\ irq' = irq
  BY <1>1 DEF Step, Bus
<1>8. TypeOK'
  BY <1>2, <1>3, <1>6, <1>7 DEF CycleInv, TypeOK
<1>9. CyclesFollowTheBus'
  <2>1. reg.pc \in Address /\ reads \in Seq(Address) /\ Len(reads) = 1 /\ Len(none) = 0
    BY <1>2 DEF RegisterFile, reads, none
  <2>2. /\ last'.kind = "jammed" /\ last'.cycles = 1
        /\ Len(last'.reads) = 1 + Len(reads) /\ Len(last'.writes) = Len(none)
    BY <1>1, <2>1, AccessesOfStep
  <2> QED BY <2>1, <2>2 DEF CyclesFollowTheBus
<1>10. CycleInv'
  BY <1>2, <1>6, <1>7, <1>8, <1>9 DEF CycleInv
<1> QED BY <1>5, <1>10 DEF IInv

LEMMA ServeStep ==
  ASSUME IInv, Stepping, NEW vector, vector \in Address /\ vector + 1 \in Address, Serve(vector), nmi' \in BOOLEAN, irq' \in BOOLEAN
  PROVE  IInv'
<1> DEFINE v      == Interrupted(reg, reg.pc, FALSE)
           m      == Stacked(mem, reg.s, v)
           r      == Entered(vector)
           reads  == <<vector, vector + 1>>
           writes == Pushed(reg.s, v)
           made   == {Frame(reg, 3, reg.pc)}
<1>1. Step("interrupted", r, m, reads, writes, 7, made) /\ UNCHANGED <<acc, base, stolen>>
  BY DEF Serve
<1>2. CycleInv /\ FramesIntact /\ reg \in RegisterFile /\ IsMemory(mem) /\ fuel > 0 /\ line \in BOOLEAN
  BY DEF IInv, CycleInv, TypeOK, Stepping
<1>3. reg.pc \in Address /\ reg.s \in Byte /\ FALSE \in BOOLEAN
  BY <1>2 DEF RegisterFile
<1>4. v \in Seq(Byte) /\ Len(v) = 3 /\ Holds(Frame(reg, 3, reg.pc), m)
  BY <1>3, InterruptFrameHolds, Zenon
<1>5. \A f \in made : Holds(f, m)
  BY <1>4
<1>6. r \in RegisterFile
  BY EnteredIsRegisters
<1> HIDE DEF v
<1>7. Written(writes) = Pushes(reg.s, Len(v))
  BY <1>3, <1>4, PushedIsWritten
<1>8. IsMemory(m) /\ \A a : a \notin Written(writes) => Peek(m, a) = Peek(mem, a)
  BY <1>2, <1>3, <1>4, <1>7, StackedChangesPushes
<1> HIDE DEF m, r, reads, writes, made
<1>9. FramesIntact'
  BY <1>1, <1>2, <1>5, <1>8, FramesKeep
<1>10. reg' = r /\ mem' = m /\ fuel' = fuel - 1 /\ line' = line /\ last'.kind = "interrupted"
  BY <1>1 DEF Step, Bus
<1>11. CyclesFollowTheBus'
  <2>1. reads \in Seq(Address) /\ Len(reads) = 2
    BY DEF reads
  <2>2. Len(writes) = 3
    BY <1>3, <1>4, PushedIsWritten DEF writes
  <2>3. /\ last'.kind = "interrupted" /\ last'.cycles = 7
        /\ Len(last'.reads) = 1 + Len(reads) /\ Len(last'.writes) = Len(writes)
    BY <1>1, <1>3, <2>1, AccessesOfStep
  <2> QED BY <2>1, <2>2, <2>3 DEF CyclesFollowTheBus
<1>12. fuel' \in Nat
  BY <1>2, <1>10 DEF CycleInv
<1>13. CycleInv'
  BY <1>1, <1>2, <1>6, <1>8, <1>10, <1>11, <1>12, UnrefreshedKeeps
<1> QED BY <1>9, <1>13 DEF IInv

LEMMA InterruptStep == IInv /\ (ServeNmi \/ ServeIrq) => IInv'
<1>1. ASSUME IInv, ServeNmi PROVE IInv'
  <2>1. Stepping /\ Serve(NmiVector) /\ nmi' \in BOOLEAN /\ irq' \in BOOLEAN
    BY <1>1 DEF ServeNmi, IInv, CycleInv, TypeOK
  <2>2. NmiVector \in Address /\ NmiVector + 1 \in Address
    BY DEF NmiVector, Address, TOP
  <2> QED BY <1>1, <2>1, <2>2, ServeStep
<1>2. ASSUME IInv, ServeIrq PROVE IInv'
  <2>1. Stepping /\ Serve(IrqVector) /\ nmi' \in BOOLEAN /\ irq' \in BOOLEAN
    BY <1>2 DEF ServeIrq, IInv, CycleInv, TypeOK
  <2>2. IrqVector \in Address /\ IrqVector + 1 \in Address
    BY DEF IrqVector, Address, TOP
  <2> QED BY <1>2, <2>1, <2>2, ServeStep
<1> QED BY <1>1, <1>2

(* A frozen processor, RESET and the interrupt lines. *)
LEMMA OtherStep ==
  IInv /\ (Frozen \/ cpu_reset \/ cpu_nmi \/ (\E assert \in BOOLEAN : cpu_irq(assert))) => IInv'
<1> SUFFICES ASSUME IInv, Frozen \/ cpu_reset \/ cpu_nmi \/ (\E assert \in BOOLEAN : cpu_irq(assert))
             PROVE  IInv'
  OBVIOUS
<1>1. /\ CycleInv /\ FramesIntact /\ reg \in RegisterFile /\ IsMemory(mem) /\ fuel \in Nat
      /\ nmi \in BOOLEAN /\ irq \in BOOLEAN /\ line \in BOOLEAN /\ CyclesFollowTheBus
  BY DEF IInv, CycleInv, TypeOK
<1>2. mem' = mem /\ frames' = frames /\ UNCHANGED <<acc, base, stolen>>
  BY DEF Frozen, cpu_reset, cpu_nmi, cpu_irq
<1>3. FramesIntact'
  BY <1>1, <1>2 DEF FramesIntact
<1>4. CASE Frozen
  <2>1. /\ reg' = reg /\ nmi' = nmi /\ irq' = irq /\ line' = line /\ fuel' \in Nat
        /\ last' = [kind |-> "frozen", op |-> Opcode, reads |-> <<>>, writes |-> <<>>, cycles |-> 1]
    BY <1>1, <1>4 DEF Frozen, Bus
  <2>2. CyclesFollowTheBus'
    BY <2>1 DEF CyclesFollowTheBus
  <2>3. CycleInv'
    BY <1>1, <1>2, <2>1, <2>2, UnrefreshedKeeps
  <2> QED BY <1>3, <2>3 DEF IInv
<1>5. CASE cpu_reset
  <2>1. /\ nmi' = FALSE /\ irq' = FALSE /\ line' = line /\ fuel' \in Nat /\ last'.kind = "reset"
    BY <1>1, <1>5 DEF cpu_reset, MoreToRun, Bus
  <2>2. reg' \in RegisterFile
    <3>1. PeekWord(mem, ResetVector) \in Address /\ 0 \in Byte /\ 253 \in Byte
      BY <1>1, PeekWordIsAddress DEF Byte
    <3> QED BY <1>5, <3>1 DEF cpu_reset, RegisterFile
  <2>3. CyclesFollowTheBus'
    BY <2>1 DEF CyclesFollowTheBus
  <2>4. CycleInv'
    BY <1>1, <1>2, <2>1, <2>2, <2>3, UnrefreshedKeeps
  <2> QED BY <1>3, <2>4 DEF IInv
<1>6. CASE cpu_nmi \/ \E assert \in BOOLEAN : cpu_irq(assert)
  <2>1. /\ reg' = reg /\ fuel' = fuel /\ last' = last /\ nmi' \in BOOLEAN /\ irq' \in BOOLEAN
        /\ line' \in BOOLEAN
    BY <1>1, <1>6 DEF cpu_nmi, cpu_irq
  <2>2. CyclesFollowTheBus'
    BY <1>1, <2>1 DEF CyclesFollowTheBus
  <2>3. CycleInv'
    BY <1>1, <1>2, <2>1, <2>2, UnrefreshedKeeps
  <2> QED BY <1>3, <2>3 DEF IInv
<1> QED BY <1>4, <1>5, <1>6

-----------------------------------------------------------------------------
(* The theorems *)

LEMMA Starting == Init => IInv
<1> SUFFICES ASSUME Init PROVE IInv
  OBVIOUS
<1>1. PICK st \in Starts : reg = st.reg /\ mem = st.mem /\ fuel = st.fuel
  BY DEF Init
<1>2. reg \in RegisterFile /\ IsMemory(mem) /\ fuel \in Nat
  BY <1>1, StartsAssumption
<1>3. /\ nmi = FALSE /\ irq = FALSE /\ line = FALSE /\ acc = 0 /\ base = 0 /\ stolen = 0 /\ frames = {}
      /\ last.kind = "none"
  BY DEF Init
<1>4. TypeOK /\ DramExact /\ CyclesFollowTheBus
  <2>1. TypeOK
    <3>1. nmi \in BOOLEAN /\ irq \in BOOLEAN /\ line \in BOOLEAN
      BY <1>3, Zenon
    <3>2. acc \in 0 .. 60
      BY <1>3
    <3> QED BY <1>2, <3>1, <3>2 DEF TypeOK
  <2>2. DramExact
    BY <1>3 DEF DramExact
  <2>3. CyclesFollowTheBus
    BY <1>3 DEF CyclesFollowTheBus
  <2> QED BY <2>1, <2>2, <2>3
<1> QED BY <1>2, <1>3, <1>4 DEF IInv, CycleInv, FramesIntact

LEMMA StandingStill == IInv /\ UNCHANGED vars => IInv'
BY DEF IInv, CycleInv, FramesIntact, TypeOK, DramExact, CyclesFollowTheBus, vars

LEMMA Stepwise == IInv /\ [Next]_vars => IInv'
BY ReadStep, StoreStep, UnstableStep, ModifyStep, RegisterStep, PushStep, PullStep, JumpStep, BranchStep,
   CallStep, ReturnStep, BreakStep, ReturnFromInterruptStep, JamStep, InterruptStep, OtherStep,
   StandingStill, Zenon DEF Next

LEMMA Invariantly == Spec => []IInv
BY Starting, Stepwise, PTL DEF Spec

(* Registers keep their width and memory holds bytes, whatever is executed and
   whatever it is executed from (cpu.c).                                     *)
THEOREM TypeCorrect == Spec => []TypeOK
<1>1. IInv => TypeOK
  BY DEF IInv, CycleInv
<1> QED BY <1>1, Invariantly, PTL

(* An instruction that completes takes as many cycles as it makes accesses to
   the bus, for all operands, registers and memories (the handlers of cpu.c); a
   JAM one less, an interrupt and a frozen step one more.                     *)
THEOREM CyclesAreAccesses == Spec => []CyclesFollowTheBus
<1>1. IInv => CyclesFollowTheBus
  BY DEF IInv, CycleInv
<1> QED BY <1>1, Invariantly, PTL

(* However long the processor runs, refresh has taken 4 cycles in 61, and what
   is missing is in dram_cycle_acc (cpu_step).                               *)
THEOREM RefreshIsExact == Spec => []DramExact
<1>1. IInv => DramExact
  BY DEF IInv, CycleInv
<1> QED BY <1>1, Invariantly, PTL

-----------------------------------------------------------------------------
(* Returns *)

(* A step executes the operation its handler is for, or none. *)
LEMMA OnlyReturnExecutes ==
  ASSUME IInv, [Next]_vars
  PROVE  /\ Executed("RTS") => ExecuteReturn
         /\ Executed("RTI") => ExecuteReturnFromInterrupt
<1> DEFINE op == Operation(last'.op)
<1>1. fuel \in Nat
  BY DEF IInv, CycleInv
<1>2. \A kind, r, m, reads, writes, cycles, made :
        Step(kind, r, m, reads, writes, cycles, made) => last'.kind = kind /\ op = Name
  BY DEF Step, Bus, Name
<1>3. \A r, m, reads, writes, cycles, made : Finish(r, m, reads, writes, cycles, made) => op = Name
  BY <1>2 DEF Finish
<1> HIDE DEF op
<1>4. ExecuteRead \/ ExecuteStore \/ ExecuteUnstable \/ ExecuteModify \/ ExecuteImplied => op \notin {"RTS", "RTI"}
  <2>1. ExecuteRead => op \in Reads
    BY <1>3 DEF ExecuteRead
  <2>2. ExecuteStore => op \in Stores
    BY <1>3 DEF ExecuteStore
  <2>3. ExecuteUnstable => op \in Unstable
    <3> DEFINE e    == Effective(Mode(Opcode), TRUE, Fetched, mem)
               page == (High(e.at) + 1 - Carry(e.px)) % 256
               v    == AndByte(Unmasked, page)
               at   == IF e.px THEN Word(Low(e.at), v) ELSE e.at
               r    == [reg EXCEPT !.pc = e.pc, !.s = IF Name = "TAS" THEN Unmasked ELSE @]
               m    == Poke(mem, at, v)
               writes == << <<at, v>> >>
               reads  == e.reads
               cycles == StoreCycles[Mode(Opcode)]
               made   == {}
    <3> SUFFICES ASSUME ExecuteUnstable PROVE op \in Unstable
      OBVIOUS
    <3>1. Name \in Unstable /\ Finish(r, m, reads, writes, cycles, made)
      BY DEF ExecuteUnstable
    <3> HIDE DEF r, m, reads, writes, cycles, made
    <3> QED BY <1>3, <3>1
  <2>4. ExecuteModify => op \in Modifies
    BY <1>3 DEF ExecuteModify
  <2>5. ExecuteImplied => op \in Implied
    BY <1>3 DEF ExecuteImplied
  <2> QED BY <2>1, <2>2, <2>3, <2>4, <2>5
          DEF Reads, Stores, Unstable, Modifies, Shifts, Counts, Implied, FlagChanges, Transferrals
<1>5. ExecuteShiftA \/ ExecuteBranch => op \notin {"RTS", "RTI"}
  <2>1. Executing => Opcode \in Byte
    BY Running
  <2>2. ExecuteShiftA => op \in Shifts
    BY <1>3, <2>1, OtherModes DEF ExecuteShiftA, Name
  <2>3. ExecuteBranch => op \in Branches
    BY <1>3, <2>1, OtherModes DEF ExecuteBranch, Name
  <2> QED BY <2>2, <2>3 DEF Shifts, Branches
<1>6. ExecutePush \/ ExecutePull \/ ExecuteJump \/ ExecuteCall \/ ExecuteBreak
        => op \in {"PHA", "PHP", "PLA", "PLP", "JMP", "JSR", "BRK"}
  <2>1. ExecutePush => op \in {"PHA", "PHP"}
    BY <1>3, ZenonT(40) DEF ExecutePush
  <2>2. ExecutePull => op \in {"PLA", "PLP"}
    BY <1>3, ZenonT(40) DEF ExecutePull
  <2>3. ExecuteJump => op = "JMP"
    BY <1>3, ZenonT(40) DEF ExecuteJump
  <2>4. ExecuteCall => op = "JSR"
    BY <1>3, ZenonT(40) DEF ExecuteCall
  <2>5. ExecuteBreak => op = "BRK"
    BY <1>3, ZenonT(40) DEF ExecuteBreak
  <2> QED BY <2>1, <2>2, <2>3, <2>4, <2>5
<1>7. (ExecuteReturn => op = "RTS") /\ (ExecuteReturnFromInterrupt => op = "RTI")
  BY <1>3 DEF ExecuteReturn, ExecuteReturnFromInterrupt
<1>8. ExecuteJam \/ ServeNmi \/ ServeIrq \/ Frozen \/ cpu_reset => last'.kind # "executed"
  <2>1. ExecuteJam => last'.kind = "jammed"
    BY <1>2 DEF ExecuteJam
  <2>2. \A vector : Serve(vector) => last'.kind = "interrupted"
    BY <1>2 DEF Serve
  <2>3. ServeNmi \/ ServeIrq => last'.kind = "interrupted"
    BY <2>2 DEF ServeNmi, ServeIrq
  <2>4. Frozen => last'.kind = "frozen"
    BY DEF Frozen, Bus
  <2>5. cpu_reset => last'.kind = "reset"
    BY DEF cpu_reset, Bus
  <2> QED BY <2>1, <2>3, <2>4, <2>5
<1>9. cpu_nmi \/ (\E assert \in BOOLEAN : cpu_irq(assert)) \/ UNCHANGED vars => fuel' = fuel
  BY DEF cpu_nmi, cpu_irq, vars
<1>10. \A name : Executed(name) => op = name /\ last'.kind = "executed" /\ fuel' # fuel
  BY <1>1 DEF Executed, op
<1> QED BY <1>4, <1>5, <1>6, <1>7, <1>8, <1>9, <1>10 DEF Next

(* The stack pointer wraps in a byte, and comes back. *)
LEMMA PointerComesBack ==
  ASSUME NEW t \in Byte, NEW s
  PROVE  /\ s = (t - 2) % 256 => (s + 2) % 256 = t /\ Slot(s + 1) = Slot(t - 1) /\ Slot(s + 2) = Slot(t)
         /\ s = (t - 3) % 256 =>
              /\ (s + 3) % 256 = t
              /\ Slot(s + 1) = Slot(t - 2) /\ Slot(s + 1 + 1) = Slot(t - 1) /\ Slot(s + 1 + 2) = Slot(t)
<1>1. ASSUME s = (t - 2) % 256
      PROVE  (s + 2) % 256 = t /\ Slot(s + 1) = Slot(t - 1) /\ Slot(s + 2) = Slot(t)
  BY <1>1, SMT DEF Slot, Byte
<1>2. ASSUME s = (t - 3) % 256
      PROVE  /\ (s + 3) % 256 = t
             /\ Slot(s + 1) = Slot(t - 2) /\ Slot(s + 1 + 1) = Slot(t - 1) /\ Slot(s + 1 + 2) = Slot(t)
  BY <1>2, SMT DEF Slot, Byte
<1> QED BY <1>1, <1>2

LEMMA StepReturns ==
  ASSUME IInv, [Next]_vars, NEW f \in frames
  PROVE  /\ Executed("RTS") /\ f.size = 2 /\ reg.s = (f.s - 2) % 256 => Resumed(f)
         /\ Executed("RTI") /\ f.size = 3 /\ reg.s = (f.s - 3) % 256
              => Resumed(f) /\ Status(reg', FALSE) = f.p
<1>1. Holds(f, mem) /\ reg \in RegisterFile /\ IsMemory(mem)
  BY DEF IInv, FramesIntact, CycleInv, TypeOK
<1>2. f.s \in Byte /\ reg.s \in Byte
  BY <1>1 DEF Holds, RegisterFile
<1>3. ASSUME Executed("RTS"), f.size = 2, reg.s = (f.s - 2) % 256
      PROVE  Resumed(f)
  <2>1. /\ (reg.s + 2) % 256 = f.s
        /\ Slot(reg.s + 1) = Slot(f.s - 1) /\ Slot(reg.s + 2) = Slot(f.s)
    BY <1>2, <1>3, PointerComesBack
  <2> DEFINE sp == (reg.s + 2) % 256
             pc == Following(Pulled(reg.s))
  <2>2. reg' = [reg EXCEPT !.pc = pc, !.s = sp]
    BY <1>3, OnlyReturnExecutes DEF ExecuteReturn, Finish, Step
  <2>3. pc = f.pc
    BY <1>1, <1>3, <2>1 DEF Pulled, Holds
  <2> HIDE DEF sp, pc
  <2>4. reg'.pc = pc /\ reg'.s = sp
    BY <1>1, <2>2 DEF RegisterFile
  <2> QED BY <2>1, <2>3, <2>4 DEF Resumed, sp
<1>4. ASSUME Executed("RTI"), f.size = 3, reg.s = (f.s - 3) % 256
      PROVE  Resumed(f) /\ Status(reg', FALSE) = f.p
  <2>1. /\ (reg.s + 3) % 256 = f.s
        /\ Slot(reg.s + 1) = Slot(f.s - 2) /\ Slot(reg.s + 1 + 1) = Slot(f.s - 1)
        /\ Slot(reg.s + 1 + 2) = Slot(f.s)
    BY <1>2, <1>4, PointerComesBack
  <2> DEFINE p  == Peek(mem, Slot(reg.s + 1))
             q  == SetStatus(reg, p)
             sp == (q.s + 3) % 256
             pc == Pulled(reg.s + 1)
  <2>2. reg' = [q EXCEPT !.pc = pc, !.s = sp]
    BY <1>4, OnlyReturnExecutes DEF ExecuteReturnFromInterrupt, Finish, Step
  <2>3. pc = f.pc
    BY <1>1, <1>4, <2>1 DEF Pulled, Holds
  <2>4. q \in RegisterFile /\ q.s = reg.s
    <3>1. p \in Byte
      BY <1>1, PeekIsByte
    <3>2. q \in RegisterFile
      BY <1>1, <3>1, SetStatusKeeps
    <3> DEFINE b(k) == Bit(p, k) = 1
    <3>3. q = [reg EXCEPT !.c = b(0), !.z = b(1), !.i = b(2), !.d = b(3), !.v = b(6), !.n = b(7)]
      BY Zenon DEF SetStatus
    <3> HIDE DEF b, q
    <3>4. q.s = reg.s
      BY <1>1, <3>3 DEF RegisterFile
    <3> QED BY <3>2, <3>4
  <2>5. Status(q, FALSE) = f.p
    <3>1. PICK r \in RegisterFile, b \in BOOLEAN : Peek(mem, Slot(f.s - 2)) = Status(r, b) /\ f.p = Status(r, FALSE)
      BY <1>1, <1>4 DEF Holds
    <3>2. p = Status(r, b)
      BY <2>1, <3>1
    <3> HIDE DEF p
    <3>3. Status(SetStatus(reg, Status(r, b)), FALSE) = Status(r, FALSE)
      BY <1>1, StatusIsRestored, Zenon
    <3> QED BY <3>1, <3>2, <3>3
  <2>6. sp = f.s
    BY <2>1, <2>4
  <2> HIDE DEF q, sp, pc
  <2>7. /\ reg'.pc = pc /\ reg'.s = sp /\ reg'.c = q.c /\ reg'.z = q.z /\ reg'.i = q.i /\ reg'.d = q.d
        /\ reg'.v = q.v /\ reg'.n = q.n
    BY <2>2, <2>4 DEF RegisterFile
  <2>8. Status(reg', FALSE) = Status(q, FALSE)
    BY <2>7 DEF Status
  <2> QED BY <2>3, <2>5, <2>6, <2>7, <2>8 DEF Resumed
<1> QED BY <1>3, <1>4

(* A return that finds the frame of its call, BRK or interrupt resumes there, with
   the stack pointer and, after RTI, the flags of that moment, however calls and
   interrupts nest and wherever the stack wraps (cpu_step, opcode_rts, opcode_rti). *)
THEOREM ReturnsAreExact == Spec => ReturnsRestore
<1>1. IInv /\ [Next]_vars =>
        [\A f \in frames :
           /\ Executed("RTS") /\ f.size = 2 /\ reg.s = (f.s - 2) % 256 => Resumed(f)
           /\ Executed("RTI") /\ f.size = 3 /\ reg.s = (f.s - 3) % 256
                => Resumed(f) /\ Status(reg', FALSE) = f.p]_vars
  BY StepReturns
<1> QED BY <1>1, Invariantly, PTL DEF Spec, ReturnsRestore
=============================================================================
