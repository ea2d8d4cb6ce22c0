-------------------------- MODULE Apple1Bus_proofs --------------------------
(* For every machine, program and key: the types, the bounds of the RAM, the
   key in the PIA, the display's line to a guest that polls it, and that the
   RAM a guest sees is a memory.                                              *)
EXTENDS Apple1Bus, TLAPS

(* The guest runs with the cards it was given. *)
BusInv == TypeOK /\ (phase = "run" => cards = opt.cards)

-----------------------------------------------------------------------------
(* The ends of the intervals, without their elements. *)

LEMMA Top == TOP \in Nat /\ TOP = 65535
BY DEF TOP

LEMMA TopIsNat == TOP \in Nat
BY DEF TOP

LEMMA AddressBounds == \A a : a \in Address <=> a \in Nat /\ a <= TOP
BY TopIsNat DEF Address

LEMMA SizeBounds == \A n : n \in RamSizes <=> n \in Nat /\ 4096 <= n /\ n <= TOP + 1
BY TopIsNat DEF RamSizes

-----------------------------------------------------------------------------
(* The split of the RAM, for every size and address. *)

(* An address that counts as RAM has an index inside the array. *)
THEOREM IndexInBounds ==
  ASSUME NEW size \in RamSizes, NEW a \in Nat, RamAddress(size, a)
  PROVE  a \in Address /\ Translate(size, a) \in 0 .. size - 1
BY Top, AddressBounds, SizeBounds DEF RamAddress, Translate, SPLIT

(* Two addresses that count as RAM never share a cell. *)
THEOREM CellsAreDistinct ==
  ASSUME NEW size \in RamSizes, NEW a \in Nat, NEW b \in Nat,
         RamAddress(size, a), RamAddress(size, b), Translate(size, a) = Translate(size, b)
  PROVE  a = b
BY SizeBounds DEF RamAddress, Translate, SPLIT

-----------------------------------------------------------------------------
LEMMA OptIsMachine == TypeOK => IsMachine(opt)
BY BusAssumption DEF TypeOK

LEMMA ResolvedIsAddress == ASSUME NEW a \in Address PROVE Resolved(a) \in Address
<1>1. Resolved(a) = a \/ Resolved(a) = PIA_BASE + (a % 4)
  BY DEF Resolved
<1>2. PIA_BASE + (a % 4) \in Address
  BY Top, AddressBounds DEF PIA_BASE
<1> QED
  BY <1>1, <1>2

LEMMA Devices ==
  ASSUME NEW S \in SUBSET Cards, NEW a \in Address
  PROVE  /\ DeviceWith(S, a) \in {"ram", "rom", "pia", "ACI", "Krusader", "open"}
         /\ DeviceWith(S, a) = "pia" => a \in PIA_BASE .. PIA_BASE + 3
         /\ DeviceWith(S, a) = "ram" => opt.flat \/ RamAddress(opt.ramSize, a)
<1> DEFINE chosen == CHOOSE c \in S : Selects(c, a)
<1>1. CASE opt.flat
  BY <1>1 DEF DeviceWith
<1>2. CASE ~opt.flat /\ a >= ROM_BASE
  BY <1>2 DEF DeviceWith
<1>3. CASE ~opt.flat /\ a \in PIA_BASE .. PIA_BASE + 3
  BY <1>3 DEF DeviceWith, PIA_BASE, ROM_BASE
<1>4. CASE ~opt.flat /\ ~(a >= ROM_BASE) /\ a \notin PIA_BASE .. PIA_BASE + 3
  <2>1. DeviceWith(S, a) = IF \E c \in S : Selects(c, a) THEN chosen
                           ELSE IF RamAddress(opt.ramSize, a) THEN "ram" ELSE "open"
    BY <1>4 DEF DeviceWith
  <2>2. (\E c \in S : Selects(c, a)) => chosen \in {"ACI", "Krusader"}
    BY DEF Cards
  <2> QED
    BY <2>1, <2>2
<1> QED
  BY <1>1, <1>2, <1>3, <1>4

LEMMA CellIsAddress == ASSUME NEW a \in Address PROVE Cell(a) \in Address
BY AddressBounds, Top DEF Cell, Translate, SPLIT

LEMMA RamIsInArray ==
  ASSUME FlatIsWhole, TypeOK, NEW S \in SUBSET Cards, NEW a \in Address, DeviceWith(S, a) = "ram"
  PROVE  Cell(a) \in 0 .. opt.ramSize - 1
<1>1. opt.ramSize \in RamSizes /\ (opt.flat => opt.ramSize = 65536) /\ a \in Nat
  <2>1. opt \in Machines
    BY DEF TypeOK
  <2>2. opt.flat => opt.ramSize = 65536
    BY <2>1, Top DEF FlatIsWhole
  <2> QED
    BY <2>2, OptIsMachine, AddressBounds, SMTT(30) DEF IsMachine
<1>2. opt.flat \/ RamAddress(opt.ramSize, a)
  BY Devices
<1>3. CASE opt.flat
  <2>1. opt.ramSize = TOP + 1
    BY <1>1, <1>3, Top
  <2>2. Cell(a) = a
    BY <1>1, <1>3 DEF Cell, Translate
  <2>3. a \in Nat /\ a <= TOP
    BY AddressBounds
  <2> QED
    BY <2>1, <2>2, <2>3, TopIsNat
<1>4. CASE RamAddress(opt.ramSize, a)
  BY <1>1, <1>4, IndexInBounds DEF Cell
<1> QED
  BY <1>2, <1>3, <1>4

(* With the RAM that a flat bus takes, no read finds what lies outside it. *)
LEMMA NothingOutside ==
  ASSUME FlatIsWhole, TypeOK, NEW a \in Address
  PROVE  ~Outside(a)
<1> SUFFICES ASSUME Outside(a)
             PROVE  FALSE
  OBVIOUS
<1>1. Cell(a) >= opt.ramSize /\ DeviceWith(cards, a) = "ram"
  BY DEF Outside, Device
<1>2. cards \in SUBSET Cards /\ opt.ramSize \in RamSizes
  BY OptIsMachine DEF TypeOK, IsMachine
<1>3. Cell(a) \in 0 .. opt.ramSize - 1
  BY <1>1, <1>2, RamIsInArray
<1> QED
  BY <1>1, <1>2, <1>3, SizeBounds

LEMMA PokeKeepsBytes ==
  ASSUME NEW m, DOMAIN m \subseteq Address, \A i \in DOMAIN m : m[i] \in Byte,
         NEW j \in Address, NEW v \in Byte
  PROVE  /\ DOMAIN Poke(m, j, v) = DOMAIN m \union {j}
         /\ \A i \in DOMAIN Poke(m, j, v) : Poke(m, j, v)[i] \in Byte
BY DEF Poke

LEMMA SetVectorKeepsBytes ==
  ASSUME NEW m, DOMAIN m \subseteq Address, \A i \in DOMAIN m : m[i] \in Byte,
         NEW run \in Address \union {NoRun}
  PROVE  /\ DOMAIN SetVector(m, run)
              = DOMAIN m \union (IF run = NoRun THEN {} ELSE {RESET_VECTOR, RESET_VECTOR + 1})
         /\ \A i \in DOMAIN SetVector(m, run) : SetVector(m, run)[i] \in Byte
<1>1. CASE run = NoRun
  BY <1>1 DEF SetVector
<1>2. CASE run # NoRun
  <2> DEFINE once == Poke(m, RESET_VECTOR, run % 256)
  <2>1. run % 256 \in Byte /\ run \div 256 \in Byte
    BY <1>2, AddressBounds, Top DEF Byte
  <2>2. RESET_VECTOR \in Address /\ RESET_VECTOR + 1 \in Address
    BY AddressBounds, Top DEF RESET_VECTOR
  <2>3. /\ DOMAIN once = DOMAIN m \union {RESET_VECTOR}
        /\ \A i \in DOMAIN once : once[i] \in Byte
    BY <2>1, <2>2, PokeKeepsBytes, ZenonT(40)
  <2>4. DOMAIN once \subseteq Address
    BY <2>2, <2>3
  <2>5. SetVector(m, run) = Poke(once, RESET_VECTOR + 1, run \div 256)
    BY <1>2 DEF SetVector
  <2> HIDE DEF once
  <2> DEFINE twice == Poke(once, RESET_VECTOR + 1, run \div 256)
  <2>6. /\ DOMAIN twice = DOMAIN once \union {RESET_VECTOR + 1}
        /\ \A i \in DOMAIN twice : twice[i] \in Byte
    BY <2>1, <2>2, <2>3, <2>4, PokeKeepsBytes, ZenonT(40)
  <2> HIDE DEF twice
  <2>7. DOMAIN twice = DOMAIN m \union {RESET_VECTOR, RESET_VECTOR + 1}
    BY <2>3, <2>6, Zenon
  <2>8. SetVector(m, run) = twice
    BY <2>5 DEF twice
  <2> QED
    BY <1>2, <2>6, <2>7, <2>8, Zenon
<1> QED
  BY <1>1, <1>2

LEMMA StoredKeepsBytes ==
  ASSUME TypeOK, NEW image, IsImage(image)
  PROVE  /\ DOMAIN Stored(ram, image) \subseteq DOMAIN ram \union (0 .. opt.ramSize - 1)
         /\ DOMAIN Stored(ram, image) \subseteq Address
         /\ \A i \in DOMAIN Stored(ram, image) : Stored(ram, image)[i] \in Byte
<1> DEFINE hits  == {a \in DOMAIN image : RamAddress(opt.ramSize, a)}
           cells == {Cell(a) : a \in hits}
           res   == Stored(ram, image)
<1>1. res = [i \in DOMAIN ram \union cells |->
               IF i \in cells THEN image[CHOOSE a \in hits : Cell(a) = i] ELSE ram[i]]
  BY SMTT(30) DEF Stored
<1>2. opt.ramSize \in RamSizes
  BY OptIsMachine DEF IsMachine
<1>3. \A a \in hits : Cell(a) \in 0 .. opt.ramSize - 1
  BY <1>2, IndexInBounds DEF IsImage, Cell
<1>4. cells \subseteq 0 .. opt.ramSize - 1
  BY <1>3
<1>5. 0 .. opt.ramSize - 1 \subseteq Address
  BY <1>2, SizeBounds, AddressBounds, Top
<1>6. \A i \in cells : image[CHOOSE a \in hits : Cell(a) = i] \in Byte
  BY DEF IsImage
<1> HIDE DEF hits, cells
<1>7. DOMAIN res = DOMAIN ram \union cells
  BY <1>1
<1>8. \A i \in DOMAIN res : res[i] \in Byte
  BY <1>1, <1>6 DEF TypeOK
<1> QED
  BY <1>4, <1>5, <1>7, <1>8 DEF TypeOK

LEMMA VectorAfterImage ==
  ASSUME TypeOK, NEW image, IsImage(image), NEW run \in Address \union {NoRun}
  PROVE  LET m == SetVector(Stored(ram, image), run)
         IN  /\ DOMAIN m \subseteq DOMAIN ram \union (0 .. opt.ramSize - 1)
                   \union (IF run = NoRun THEN {} ELSE {RESET_VECTOR, RESET_VECTOR + 1})
             /\ DOMAIN m \subseteq Address
             /\ \A i \in DOMAIN m : m[i] \in Byte
<1> DEFINE stored == Stored(ram, image)
           m      == SetVector(stored, run)
<1>1. /\ DOMAIN stored \subseteq DOMAIN ram \union (0 .. opt.ramSize - 1)
      /\ DOMAIN stored \subseteq Address
      /\ \A i \in DOMAIN stored : stored[i] \in Byte
  BY StoredKeepsBytes
<1> HIDE DEF stored
<1>2. /\ DOMAIN m = DOMAIN stored
              \union (IF run = NoRun THEN {} ELSE {RESET_VECTOR, RESET_VECTOR + 1})
      /\ \A i \in DOMAIN m : m[i] \in Byte
  BY <1>1, SetVectorKeepsBytes
<1>3. RESET_VECTOR \in Address /\ RESET_VECTOR + 1 \in Address
  BY AddressBounds, Top DEF RESET_VECTOR
<1> HIDE DEF m
<1>4. DOMAIN m \subseteq Address
  BY <1>1, <1>2, <1>3
<1> QED
  BY <1>1, <1>2, <1>4 DEF m, stored

-----------------------------------------------------------------------------
(* What an access may leave in the registers. *)

LEMMA ControlStaysByte ==
  ASSUME NEW c \in Byte, NEW v \in Byte
  PROVE  ControlWritten(c, v) \in Byte /\ (c >= 128 => ControlWritten(c, v) >= 128)
BY DEF ControlWritten, Byte

LEMMA PiaValueIsByte ==
  ASSUME TypeOK, NEW a \in PIA_BASE .. PIA_BASE + 3
  PROVE  PiaValue(a) \in Byte
<1>1. kbdData \in Byte /\ kbdControl \in Byte /\ dspData \in Byte /\ dspControl \in Byte
  BY DEF TypeOK
<1>2. \A b \in Byte : b % 128 \in Byte /\ (b % 128) + 0 \in Byte /\ (b % 128) + 128 \in Byte
  BY DEF Byte
<1>3. CASE a = PIA_BASE
  BY <1>1, <1>3 DEF PiaValue, Byte, PIA_BASE
<1>4. CASE a = PIA_BASE + 1
  BY <1>1, <1>4 DEF PiaValue, PIA_BASE
<1>5. CASE a = PIA_BASE + 2
  <2>1. PiaValue(a) = (dspData % 128) + (IF DspReady THEN 0 ELSE 128)
    BY <1>5 DEF PiaValue, PIA_BASE
  <2> QED
    BY <2>1, <1>1, <1>2
<1>6. CASE a = PIA_BASE + 3
  <2>1. PiaValue(a) = (dspControl % 128) + (IF DspReady THEN 128 ELSE 0)
    BY <1>6 DEF PiaValue, PIA_BASE
  <2> QED
    BY <2>1, <1>1, <1>2
<1> QED
  BY <1>3, <1>4, <1>5, <1>6 DEF PIA_BASE

LEMMA CardsAreCards == TypeOK => cards \in SUBSET Cards /\ opt.cards \in SUBSET Cards
BY OptIsMachine DEF TypeOK, IsMachine

LEMMA ProgramsUseAddresses == TypeOK => opt.uses \subseteq Address
BY OptIsMachine DEF IsMachine

LEMMA ValuesAreBytes ==
  ASSUME TypeOK, NEW r \in Address
  PROVE  ValueAt(r) \in Byte
<1> DEFINE d == Device(r)
<1>1. /\ d \in {"ram", "rom", "pia", "ACI", "Krusader", "open"}
      /\ d = "pia" => r \in PIA_BASE .. PIA_BASE + 3
  BY Devices, CardsAreCards DEF Device
<1>2. Rom(r) \in Byte
  BY BusAssumption
<1>3. /\ d = "ram" => ValueAt(r) = Peek(Cell(r))
      /\ d = "rom" => ValueAt(r) = Rom(r)
      /\ d = "pia" => ValueAt(r) = PiaValue(r)
      /\ d = "open" => ValueAt(r) = lastValue
      /\ d \in {"ACI", "Krusader"} => ValueAt(r) = CardValue(d, r)
  <2> HIDE DEF d
  <2>1. ValueAt(r) = CASE d = "ram"   -> Peek(Cell(r))
                       [] d = "rom"   -> Rom(r)
                       [] d = "pia"   -> PiaValue(r)
                       [] d \in Cards -> CardValue(d, r)
                       [] d = "open"  -> lastValue
    BY DEF ValueAt, d
  <2> QED
    BY <2>1 DEF Cards
<1> HIDE DEF d
<1>4. \A i : Peek(i) \in Byte
  BY DEF Peek, TypeOK, Byte
<1>5. d \in {"ACI", "Krusader"} => CardValue(d, r) \in Byte
  BY <1>2 DEF CardValue, Byte
<1>6. lastValue \in Byte
  BY DEF TypeOK
<1> QED
  BY <1>1, <1>2, <1>3, <1>4, <1>5, <1>6, PiaValueIsByte

LEMMA ReadKeepsType ==
  ASSUME TypeOK, NEW a \in Address, Read(a)
  PROVE  TypeOK'
<1> DEFINE r == Resolved(a)
<1>1. r \in Address
  BY ResolvedIsAddress
<1> HIDE DEF r
<1>4. ReadAt(r)
  BY DEF Read, r
<1>6. lastValue' \in Byte
  <2>1. lastValue' \in Byte \/ lastValue' = ValueAt(r)
    BY <1>4 DEF ReadAt
  <2> QED
    BY <2>1, ValuesAreBytes, <1>1
<1>7. kbdControl' \in Byte
  <2>1. kbdControl' \in {kbdControl, kbdControl % 128}
    BY <1>4 DEF ReadAt, HandOver
  <2> QED
    BY <2>1 DEF TypeOK, Byte
<1>8. level' \in BOOLEAN /\ polled' \in BOOLEAN
  <2>1. level' \in {level, ~level}
    BY <1>4 DEF ReadAt
  <2>2. polled' = DspReady \/ polled' = polled
    BY <1>4 DEF ReadAt
  <2>3. DspReady \in BOOLEAN
    BY DEF DspReady
  <2> QED
    BY <2>1, <2>2, <2>3 DEF TypeOK
<1>9. last'.value \in Byte
  <2>1. last' = last \/ last' = [op |-> "read", at |-> a, value |-> lastValue']
    BY DEF Read
  <2> QED
    BY <2>1, <1>6 DEF TypeOK
<1> QED
  BY <1>6, <1>7, <1>8, <1>9 DEF Read, TypeOK, loadVars

LEMMA WriteKeepsType ==
  ASSUME TypeOK, NEW a \in Address, NEW v \in Byte, Write(a, v)
  PROVE  TypeOK'
<1> DEFINE r == Resolved(a)
<1>1. r \in Address
  BY ResolvedIsAddress
<1> HIDE DEF r
<1>2. WriteAt(r, v)
  BY DEF Write, r
<1>3. DOMAIN ram' \subseteq Address /\ \A i \in DOMAIN ram' : ram'[i] \in Byte
  <2>1. CASE Device(r) = "ram"
    <3>1. ram' = Poke(ram, Cell(r), v)
      BY <1>2, <2>1 DEF WriteAt
    <3>2. Cell(r) \in Address
      BY <1>1, CellIsAddress
    <3>3. DOMAIN ram \subseteq Address /\ \A i \in DOMAIN ram : ram[i] \in Byte
      BY DEF TypeOK
    <3> DEFINE poked == Poke(ram, Cell(r), v)
    <3>4. /\ DOMAIN poked = DOMAIN ram \union {Cell(r)}
          /\ \A i \in DOMAIN poked : poked[i] \in Byte
      BY <3>2, <3>3, PokeKeepsBytes
    <3> HIDE DEF poked
    <3>5. ram' = poked
      BY <3>1 DEF poked
    <3> QED
      BY <3>2, <3>3, <3>4, <3>5
  <2>2. CASE Device(r) # "ram"
    BY <1>2, <2>2 DEF WriteAt, TypeOK
  <2> QED
    BY <2>1, <2>2
<1>4. \/ WritePia(r, v)
      \/ UNCHANGED <<piaVars, timeVars>>
  BY <1>2 DEF WriteAt
<1>5. kbdData' \in Byte /\ kbdControl' \in Byte /\ dspControl' \in Byte
  <2>1. CASE WritePia(r, v)
    BY <2>1, ControlStaysByte DEF WritePia, TypeOK
  <2>2. CASE UNCHANGED <<piaVars, timeVars>>
    BY <2>2 DEF piaVars, TypeOK
  <2> QED
    BY <1>4, <2>1, <2>2
<1>6. /\ dspData' \in Byte
      /\ elapsed' \in 0 .. Clock - 1 /\ since' \in 0 .. Clock /\ polled' \in BOOLEAN
  <2>1. \/ UNCHANGED <<dspData, timeVars>>
        \/ dspData' = v /\ StartWindow
    BY <1>4 DEF WritePia, WriteDisplay, piaVars
  <2>2. 0 \in 0 .. Clock - 1 /\ 0 \in 0 .. Clock
    BY BusAssumption
  <2> QED
    BY <2>1, <2>2 DEF StartWindow, timeVars, TypeOK
<1>7. level' \in BOOLEAN
  <2>1. level' \in {level, ~level}
    BY <1>2 DEF WriteAt
  <2> QED
    BY <2>1 DEF TypeOK
<1>8. last'.value \in Byte
  <2>1. last' = last \/ last' = [op |-> "write", at |-> a, value |-> v]
    BY DEF Write
  <2> QED
    BY <2>1 DEF TypeOK
<1> QED
  BY <1>3, <1>5, <1>6, <1>7, <1>8 DEF Write, TypeOK, loadVars

LEMMA BinaryKeepsType == TypeOK /\ LoadBinary => TypeOK'
<1> SUFFICES ASSUME TypeOK, LoadBinary
             PROVE  TypeOK'
  OBVIOUS
<1> DEFINE b == opt.binaries[loaded + 1]
<1>1. /\ opt.binaries \in Seq(Files(opt)) /\ loaded \in Nat /\ loaded < Len(opt.binaries)
  <2>1. IsMachine(opt)
    BY OptIsMachine
  <2>2. opt.binaries \in Seq(Files(opt))
    BY <2>1, SMTT(30) DEF IsMachine
  <2>3. loaded \in Nat
    BY DEF TypeOK
  <2>4. loaded < Len(opt.binaries)
    BY DEF LoadBinary
  <2> QED BY <2>2, <2>3, <2>4
<1>2. b \in Files(opt) /\ loaded + 1 \in 0 .. Len(opt.binaries)
  BY <1>1
<1>3. IsImage(b.image) /\ b.run \in Address \union {NoRun}
  BY <1>2, OptIsMachine DEF IsMachine
<1>4. \/ ram' = SetVector(Stored(ram, b.image), b.run) /\ loaded' = loaded + 1 /\ UNCHANGED phase
      \/ phase' = "failed" /\ UNCHANGED <<ram, loaded>>
  BY DEF LoadBinary
<1> HIDE DEF b
<1>5. DOMAIN ram' \subseteq Address /\ \A i \in DOMAIN ram' : ram'[i] \in Byte
  <2>1. CASE ram' = ram
    BY <2>1 DEF TypeOK
  <2>2. CASE ram' = SetVector(Stored(ram, b.image), b.run)
    BY <2>2, <1>3, VectorAfterImage
  <2> QED
    BY <1>4, <2>1, <2>2
<1>6. loaded' \in 0 .. Len(opt.binaries) /\ phase' \in {"options", "binaries", "cards", "run", "failed"}
  BY <1>2, <1>4 DEF TypeOK
<1> QED
  BY <1>5, <1>6 DEF LoadBinary, TypeOK, piaVars, timeVars

LEMMA TextKeepsType == TypeOK /\ LoadText => TypeOK'
<1> SUFFICES ASSUME TypeOK, LoadText
             PROVE  TypeOK'
  OBVIOUS
<1>1. IsImage(opt.text) /\ opt.run \in Address \union {NoRun}
  BY OptIsMachine DEF IsMachine
<1>2. ram' = ram \/ ram' = SetVector(Stored(ram, opt.text), opt.run)
  BY DEF LoadText
<1>3. DOMAIN ram' \subseteq Address /\ \A i \in DOMAIN ram' : ram'[i] \in Byte
  BY <1>1, <1>2, VectorAfterImage DEF TypeOK
<1> QED
  BY <1>3 DEF LoadText, TypeOK, piaVars, timeVars

LEMMA HostKeepsType == TypeOK /\ (LatchKey \/ Reset \/ TimePasses) => TypeOK'
<1>1. TypeOK /\ LatchKey => TypeOK'
  <2> SUFFICES ASSUME TypeOK, LatchKey
               PROVE  TypeOK'
    OBVIOUS
  <2>1. kbdData' \in Byte
    BY BusAssumption DEF LatchKey, Byte
  <2>2. kbdControl' \in Byte
    <3>1. kbdControl' = kbdControl + 128 /\ ~(kbdControl >= 128)
      BY DEF LatchKey, Strobe
    <3>2. kbdControl \in Byte
      BY DEF TypeOK
    <3> QED
      BY <3>1, <3>2 DEF Byte
  <2> QED
    BY <2>1, <2>2 DEF LatchKey, TypeOK, loadVars, timeVars
<1>2. TypeOK /\ Reset => TypeOK'
  <2>1. 0 \in Byte /\ 128 \in Byte
    BY DEF Byte
  <2> QED
    BY <2>1 DEF Reset, TypeOK, loadVars, timeVars
<1>3. TypeOK /\ TimePasses => TypeOK'
  <2> SUFFICES ASSUME TypeOK, TimePasses
               PROVE  TypeOK'
    OBVIOUS
  <2>1. elapsed' \in 0 .. Clock - 1 /\ since' \in 0 .. Clock
    BY BusAssumption DEF TimePasses, TypeOK
  <2> QED
    BY <2>1 DEF TimePasses, TypeOK, loadVars, piaVars
<1> QED
  BY <1>1, <1>2, <1>3

-----------------------------------------------------------------------------
LEMMA Started == Init => BusInv
<1> SUFFICES ASSUME Init
             PROVE  BusInv
  OBVIOUS
<1>1. IsMachine(opt)
  BY BusAssumption DEF Init
<1>2. loaded \in 0 .. Len(opt.binaries)
  BY <1>1 DEF Init, IsMachine
<1>3. DOMAIN ram = {}
  BY DEF Init
<1>4. /\ kbdData \in Byte /\ kbdControl \in Byte /\ dspData \in Byte /\ dspControl \in Byte
      /\ lastValue \in Byte /\ last.value \in Byte
  BY DEF Init, Byte, NoAccess
<1>5. elapsed \in 0 .. Clock - 1 /\ since \in 0 .. Clock
  BY BusAssumption DEF Init
<1> QED
  BY <1>2, <1>3, <1>4, <1>5 DEF Init, BusInv, TypeOK

LEMMA Stepped == BusInv /\ [Next]_vars => BusInv'
<1> SUFFICES ASSUME BusInv, [Next]_vars
             PROVE  BusInv'
  OBVIOUS
<1> USE DEF BusInv
<1>1. CASE LoadBinary
  BY <1>1, BinaryKeepsType DEF LoadBinary
<1>2. CASE LoadText
  BY <1>2, TextKeepsType DEF LoadText
<1>3. CASE AddCards \/ ReadOptions
  BY <1>3 DEF AddCards, ReadOptions, TypeOK, piaVars, timeVars
<1>4. CASE GuestReads
  <2>1. PICK a \in opt.uses : Read(a)
    BY <1>4 DEF GuestReads
  <2>2. TypeOK'
    BY <2>1, ReadKeepsType, ProgramsUseAddresses
  <2> QED
    BY <2>1, <2>2 DEF Read, loadVars
<1>5. CASE GuestWrites
  <2>1. PICK a \in opt.uses, v \in Values : Write(a, v)
    BY <1>5 DEF GuestWrites
  <2>2. TypeOK'
    BY <2>1, WriteKeepsType, ProgramsUseAddresses, BusAssumption
  <2> QED
    BY <2>1, <2>2 DEF Write, loadVars
<1>6. CASE LatchKey \/ Reset \/ TimePasses
  BY <1>6, HostKeepsType DEF LatchKey, Reset, TimePasses, loadVars
<1>7. CASE UNCHANGED vars
  BY <1>7 DEF TypeOK, vars, loadVars, piaVars, timeVars
<1> QED
  BY <1>1, <1>2, <1>3, <1>4, <1>5, <1>6, <1>7 DEF Next

(* What every later proof starts from. *)
THEOREM InductiveInvariant == Spec => []BusInv
BY Started, Stepped, PTL DEF Spec

(* Registers and cells hold bytes, for every machine and program. *)
THEOREM TypeCorrect == Spec => []TypeOK
<1>1. BusInv => TypeOK
  BY DEF BusInv
<1> QED
  BY <1>1, InductiveInvariant, PTL

-----------------------------------------------------------------------------
(* The key in the PIA *)

(* What reads, writes and the rest leave of the strobe and of the key. *)
KeyKept ==
  /\ Strobe /\ kbdControl' < 128 => lastValue' = kbdData \/ Reset
  /\ Strobe /\ kbdData' # kbdData => Reset
  /\ ~Strobe /\ kbdControl' >= 128 => LatchKey

LEMMA ReadKeepsKey ==
  ASSUME TypeOK, NEW a \in Address, Read(a)
  PROVE  KeyKept
<1> DEFINE r == Resolved(a)
<1>1. ReadAt(r) /\ kbdData' = kbdData
  BY DEF Read
<1>2. r \in Address
  BY ResolvedIsAddress
<1> HIDE DEF r
<1>3. kbdControl \in Byte
  BY DEF TypeOK
<1>4. CASE kbdControl' = kbdControl
  BY <1>1, <1>3, <1>4 DEF KeyKept, Strobe, Byte
<1>5. CASE kbdControl' # kbdControl
  <2>1. Device(r) = "pia" /\ r = PIA_BASE /\ HandOver
    BY <1>1, <1>5 DEF ReadAt
  <2>2. DataMode(kbdControl) /\ kbdControl' = kbdControl % 128
    BY <1>5, <2>1 DEF HandOver
  <2>3. ValueAt(r) = PiaValue(r) /\ ~Outside(r)
    BY <2>1 DEF ValueAt, Outside, Cards
  <2>4. PiaValue(r) = kbdData
    BY <2>1, <2>2 DEF PiaValue, PIA_BASE
  <2>5. lastValue' = kbdData
    BY <1>1, <2>3, <2>4 DEF ReadAt
  <2>6. ~(kbdControl' >= 128)
    BY <1>3, <2>2 DEF Byte
  <2> QED
    BY <1>1, <2>5, <2>6 DEF KeyKept
<1> QED
  BY <1>4, <1>5

LEMMA WriteKeepsKey ==
  ASSUME TypeOK, NEW a, NEW v \in Byte, Write(a, v)
  PROVE  KeyKept
<1>1. kbdControl \in Byte
  BY DEF TypeOK
<1>2. WriteAt(Resolved(a), v)
  BY DEF Write
<1>3. kbdData' = kbdData /\ (kbdControl' = kbdControl \/ kbdControl' = ControlWritten(kbdControl, v))
  BY <1>2 DEF WriteAt, WritePia, piaVars
<1>4. /\ ControlWritten(kbdControl, v) \in Byte
      /\ ControlWritten(kbdControl, v) >= 128 <=> kbdControl >= 128
  BY <1>1 DEF ControlWritten, Byte
<1>5. kbdControl' \in Byte /\ (kbdControl' >= 128 <=> kbdControl >= 128)
  BY <1>1, <1>3, <1>4
<1>6. ~(Strobe /\ kbdControl' < 128) /\ ~(~Strobe /\ kbdControl' >= 128)
  BY <1>5 DEF Strobe, Byte
<1> QED
  BY <1>3, <1>6 DEF KeyKept

LEMMA StepKeepsKey == BusInv /\ [Next]_vars => KeyKept
<1> SUFFICES ASSUME BusInv, [Next]_vars
             PROVE  KeyKept
  OBVIOUS
<1>1. TypeOK
  BY DEF BusInv
<1>2. CASE GuestReads
  <2>1. PICK a \in opt.uses : Read(a)
    BY <1>2 DEF GuestReads
  <2> QED
    BY <1>1, <2>1, ReadKeepsKey, ProgramsUseAddresses
<1>3. CASE GuestWrites
  <2>1. PICK a \in opt.uses, v \in Values : Write(a, v)
    BY <1>3 DEF GuestWrites
  <2> QED
    BY <1>1, <2>1, WriteKeepsKey, BusAssumption
<1>4. CASE LatchKey
  <2>1. ~Strobe
    BY <1>4 DEF LatchKey
  <2> QED
    BY <1>4, <2>1 DEF KeyKept
<1>5. CASE Reset
  <2>1. ~(kbdControl' >= 128)
    BY <1>5 DEF Reset
  <2> QED
    BY <1>5, <2>1 DEF KeyKept
<1>6. CASE ReadOptions \/ LoadBinary \/ LoadText \/ AddCards \/ TimePasses \/ UNCHANGED vars
  <2>1. kbdData' = kbdData /\ kbdControl' = kbdControl
    BY <1>6 DEF ReadOptions, LoadBinary, LoadText, AddCards, TimePasses, vars, piaVars
  <2>2. kbdControl \in Byte
    BY <1>1 DEF TypeOK
  <2> QED
    BY <2>1, <2>2 DEF KeyKept, Strobe, Byte
<1> QED
  BY <1>2, <1>3, <1>4, <1>5, <1>6 DEF Next

(* A key that waits is handed over as it arrived or forgotten by RESET, and the
   guest is told of none that did not arrive, whatever the program writes to
   the PIA.                                                                  *)
THEOREM KeyIsKept == Spec => KeySurvives
<1>1. BusInv /\ [Next]_vars =>
        [/\ Strobe /\ kbdControl' < 128 => lastValue' = kbdData \/ Reset
         /\ Strobe /\ kbdData' # kbdData => Reset
         /\ ~Strobe /\ kbdControl' >= 128 => LatchKey]_vars
  BY StepKeepsKey DEF KeyKept
<1> QED
  BY <1>1, InductiveInvariant, PTL DEF Spec, KeySurvives

-----------------------------------------------------------------------------
(* The display's line *)

(* What the unsigned counter says never exceeds the time that passed, and a
   program that saw the display ready saw it late enough.                    *)
Paced == elapsed <= since /\ (polled => since >= opt.window)

LEMMA StartIsPaced == Init => Paced
BY BusAssumption DEF Init, Paced

LEMMA StepIsPaced == BusInv /\ Paced /\ [Next]_vars => Paced'
<1> SUFFICES ASSUME BusInv, Paced, [Next]_vars
             PROVE  Paced'
  OBVIOUS
<1>1. /\ elapsed \in Nat /\ since \in Nat /\ since <= Clock /\ elapsed < Clock /\ Clock \in Nat
      /\ opt.window \in Nat /\ opt.window < Clock
  <2>1. opt \in Machines /\ elapsed \in 0 .. Clock - 1 /\ since \in 0 .. Clock
    BY DEF BusInv, TypeOK
  <2>2. IsMachine(opt)
    BY OptIsMachine DEF BusInv
  <2>3. opt.window \in 0 .. Clock - 1
    BY <2>2, SMTT(30) DEF IsMachine
  <2> QED BY <2>1, <2>3, BusAssumption
<1>2. CASE GuestReads
  <2>1. PICK a \in opt.uses : Read(a)
    BY <1>2 DEF GuestReads
  <2>2. elapsed' = elapsed /\ since' = since /\ opt' = opt
    BY <2>1 DEF Read, loadVars
  <2> DEFINE r == Resolved(a)
  <2>3. ReadAt(r)
    BY <2>1 DEF Read
  <2> HIDE DEF r
  <2> DEFINE c == Device(r) = "pia" /\ r \in {PIA_BASE + 2, PIA_BASE + 3}
  <2>4. polled' = IF c THEN DspReady ELSE polled
    BY <2>3 DEF ReadAt
  <2> HIDE DEF c
  <2>5. (c => polled' = DspReady) /\ (~c => polled' = polled)
    BY <2>4, Zenon
  <2>6. polled' => polled \/ DspReady
    BY <2>5, Zenon
  <2>7. DspReady => since >= opt.window
    BY <1>1 DEF DspReady, Paced
  <2> QED
    BY <2>2, <2>6, <2>7 DEF Paced
<1>3. CASE GuestWrites
  <2>1. PICK a \in opt.uses, v \in Values : Write(a, v)
    BY <1>3 DEF GuestWrites
  <2>2. StartWindow \/ UNCHANGED timeVars
    BY <2>1 DEF Write, WriteAt, WritePia, WriteDisplay, timeVars, piaVars
  <2>3. opt' = opt
    BY <2>1 DEF Write, loadVars
  <2>4. CASE StartWindow
    BY <1>1, <2>3, <2>4 DEF StartWindow, Paced
  <2>5. CASE UNCHANGED timeVars
    BY <2>3, <2>5 DEF timeVars, Paced
  <2> QED
    BY <2>2, <2>4, <2>5
<1>4. CASE TimePasses
  <2>1. /\ elapsed' = (elapsed + 1) % Clock /\ polled' = polled /\ opt' = opt
        /\ since' = IF since < Clock THEN since + 1 ELSE since
    BY <1>4 DEF TimePasses, loadVars
  <2>2. (elapsed + 1) % Clock = IF elapsed + 1 < Clock THEN elapsed + 1 ELSE 0
    BY <1>1
  <2> QED
    BY <1>1, <2>1, <2>2 DEF Paced
<1>5. CASE ReadOptions \/ LoadBinary \/ LoadText \/ AddCards \/ LatchKey \/ Reset \/ UNCHANGED vars
  <2>1. UNCHANGED timeVars /\ opt' = opt
    BY <1>5 DEF ReadOptions, LoadBinary, LoadText, AddCards, LatchKey, Reset, vars, loadVars
  <2> QED
    BY <2>1 DEF Paced, timeVars
<1> QED
  BY <1>2, <1>3, <1>4, <1>5 DEF Next

(* A program that waits for the display keeps to the line's speed, for every
   speed and wherever the microsecond counter wraps (term_dsp_ready).        *)
THEOREM PollingIsPaced == Spec => PolledOutputIsPaced
<1>1. BusInv /\ Paced /\ [Next]_vars
        => [polled /\ ~polled' /\ (\E a \in opt.uses, v \in Values : Write(a, v)) => since >= opt.window]_vars
  BY DEF Paced
<1> QED
  BY <1>1, InductiveInvariant, StartIsPaced, StepIsPaced, PTL DEF Spec, PolledOutputIsPaced

-----------------------------------------------------------------------------
(* The array behind the RAM *)

LEMMA SameMachine ==
  ASSUME UNCHANGED opt, NEW a
  PROVE  (SeenAsRam(a)' <=> SeenAsRam(a)) /\ Cell(a)' = Cell(a)
BY DEF SeenAsRam, Resolved, DeviceWith, Selects, RamAddress, Cell, Translate

LEMMA RamIsSeen ==
  ASSUME BusInv, phase = "run", NEW a \in Address
  PROVE  Device(Resolved(a)) = "ram" => Resolved(a) = a /\ SeenAsRam(a)
<1> SUFFICES ASSUME Device(Resolved(a)) = "ram"
             PROVE  Resolved(a) = a /\ SeenAsRam(a)
  OBVIOUS
<1>1. Device(Resolved(a)) = DeviceWith(opt.cards, Resolved(a))
  BY DEF BusInv, Device
<1>2. CASE Resolved(a) = a
  BY <1>1, <1>2 DEF SeenAsRam
<1>3. CASE Resolved(a) # a
  <2>1. ~opt.flat /\ Resolved(a) = PIA_BASE + (a % 4)
    BY <1>3 DEF Resolved
  <2>2. Resolved(a) \in PIA_BASE .. PIA_BASE + 3 /\ ~(Resolved(a) >= ROM_BASE)
    BY <2>1, AddressBounds DEF PIA_BASE, ROM_BASE
  <2>3. DeviceWith(opt.cards, Resolved(a)) = "pia"
    BY <2>1, <2>2 DEF DeviceWith
  <2> QED
    BY <1>1, <2>3
<1> QED
  BY <1>2, <1>3

LEMMA LoadStaysInBounds ==
  ASSUME TypeOK, InBounds, NEW image, IsImage(image),
         NEW run \in Address \union {NoRun}, run # NoRun => opt.ramSize > RESET_VECTOR + 1
  PROVE  DOMAIN SetVector(Stored(ram, image), run) \subseteq 0 .. opt.ramSize - 1
<1> DEFINE new == DOMAIN SetVector(Stored(ram, image), run)
<1>1. new \subseteq DOMAIN ram \union (0 .. opt.ramSize - 1)
                    \union (IF run = NoRun THEN {} ELSE {RESET_VECTOR, RESET_VECTOR + 1})
  BY VectorAfterImage
<1> HIDE DEF new
<1>2. opt.ramSize \in Nat
  BY OptIsMachine, SizeBounds DEF IsMachine
<1>3. run # NoRun => {RESET_VECTOR, RESET_VECTOR + 1} \subseteq 0 .. opt.ramSize - 1
  BY <1>2 DEF RESET_VECTOR
<1>4. new \subseteq 0 .. opt.ramSize - 1
  BY <1>1, <1>3 DEF InBounds
<1> QED
  BY <1>4 DEF new

LEMMA StoresStayInBounds ==
  ASSUME VectorInRam, FlatIsWhole, BusInv, InBounds, [Next]_vars
  PROVE  DOMAIN ram' \subseteq 0 .. opt'.ramSize - 1
<1>1. TypeOK /\ opt \in Machines
  BY DEF BusInv, TypeOK
<1>2. CASE LoadBinary
  <2> DEFINE b == opt.binaries[loaded + 1]
  <2>1. /\ opt.binaries \in Seq(Files(opt)) /\ loaded \in Nat /\ loaded < Len(opt.binaries)
    <3>1. IsMachine(opt)
      BY <1>1, OptIsMachine
    <3>2. opt.binaries \in Seq(Files(opt))
      BY <3>1, SMTT(30) DEF IsMachine
    <3>3. loaded \in Nat
      BY <1>1 DEF TypeOK
    <3>4. loaded < Len(opt.binaries)
      BY <1>2 DEF LoadBinary
    <3> QED BY <3>2, <3>3, <3>4
  <2>2. b \in Files(opt)
    BY <2>1
  <2>3. IsImage(b.image) /\ b.run \in Address \union {NoRun}
    BY <1>1, <2>2, OptIsMachine DEF IsMachine
  <2>4. b.run # NoRun => opt.ramSize > RESET_VECTOR + 1
    BY <1>1, <2>2 DEF VectorInRam
  <2>5. ram' = ram \/ ram' = SetVector(Stored(ram, b.image), b.run)
    BY <1>2 DEF LoadBinary
  <2>6. opt' = opt
    BY <1>2 DEF LoadBinary
  <2> HIDE DEF b
  <2>7. DOMAIN SetVector(Stored(ram, b.image), b.run) \subseteq 0 .. opt.ramSize - 1
    BY <1>1, <2>3, <2>4, LoadStaysInBounds
  <2> QED
    BY <2>5, <2>6, <2>7 DEF InBounds
<1>3. CASE LoadText
  <2>1. IsImage(opt.text) /\ opt.run \in Address \union {NoRun}
    BY <1>1, OptIsMachine DEF IsMachine
  <2>2. opt.run # NoRun => opt.ramSize > RESET_VECTOR + 1
    BY <1>1 DEF VectorInRam
  <2>3. (ram' = ram \/ ram' = SetVector(Stored(ram, opt.text), opt.run)) /\ opt' = opt
    BY <1>3 DEF LoadText
  <2>4. DOMAIN SetVector(Stored(ram, opt.text), opt.run) \subseteq 0 .. opt.ramSize - 1
    BY <1>1, <2>1, <2>2, LoadStaysInBounds
  <2> QED
    BY <2>3, <2>4 DEF InBounds
<1>4. CASE GuestWrites
  <2>1. PICK a \in opt.uses, v \in Values : Write(a, v)
    BY <1>4 DEF GuestWrites
  <2> DEFINE r == Resolved(a)
  <2>2. r \in Address
    BY <1>1, ProgramsUseAddresses, ResolvedIsAddress
  <2> HIDE DEF r
  <2>3. ram' = (IF Device(r) = "ram" THEN Poke(ram, Cell(r), v) ELSE ram) /\ opt' = opt
    BY <2>1 DEF Write, WriteAt, loadVars, r
  <2>4. CASE Device(r) = "ram"
    <3>1. Cell(r) \in 0 .. opt.ramSize - 1
      BY <1>1, <2>2, <2>4, RamIsInArray, CardsAreCards DEF Device
    <3>2. DOMAIN ram' = DOMAIN ram \union {Cell(r)}
      BY <2>3, <2>4 DEF Poke
    <3> QED
      BY <2>3, <3>1, <3>2 DEF InBounds
  <2>5. CASE Device(r) # "ram"
    BY <2>3, <2>5 DEF InBounds
  <2> QED
    BY <2>4, <2>5
<1>5. CASE ReadOptions \/ AddCards \/ GuestReads \/ LatchKey \/ Reset \/ TimePasses \/ UNCHANGED vars
  <2>1. ram' = ram /\ opt' = opt
    BY <1>5 DEF ReadOptions, AddCards, GuestReads, Read, LatchKey, Reset, TimePasses, vars, loadVars
  <2> QED
    BY <2>1 DEF InBounds
<1> QED
  BY <1>2, <1>3, <1>4, <1>5 DEF Next

(* An access that the RAM answers is to a cell of the array. *)
LEMMA AccessStaysInBounds ==
  ASSUME FlatIsWhole, BusInv, phase = "run", NEW a \in Address, Device(Resolved(a)) = "ram"
  PROVE  Cell(a) < opt.ramSize
<1>1. Resolved(a) = a
  BY RamIsSeen
<1>2. TypeOK
  BY DEF BusInv
<1>3. cards \in SUBSET Cards /\ opt.ramSize \in RamSizes
  BY <1>2, CardsAreCards, OptIsMachine DEF IsMachine
<1>4. Cell(a) \in 0 .. opt.ramSize - 1
  BY <1>1, <1>2, <1>3, RamIsInArray DEF Device
<1> QED
  BY <1>3, <1>4, SizeBounds

LastInBounds == last.op # "none" => Cell(last.at) < opt.ramSize

LEMMA AccessesStayInBounds ==
  ASSUME FlatIsWhole, BusInv, InBounds, [Next]_vars
  PROVE  LastInBounds'
<1>1. TypeOK
  BY DEF BusInv
<1>2. opt' = opt
  BY DEF Next, ReadOptions, LoadBinary, LoadText, AddCards, GuestReads, Read, GuestWrites, Write,
         LatchKey, Reset, TimePasses, vars, loadVars
<1>3. LastInBounds
  BY DEF InBounds, LastInBounds
<1>4. CASE last' = last
  BY <1>2, <1>3, <1>4 DEF LastInBounds, Cell
<1>5. CASE last' # last
  <2>1. CASE GuestReads
    <3>1. PICK a \in opt.uses : Read(a)
      BY <2>1 DEF GuestReads
    <3>2. Device(Resolved(a)) = "ram" /\ last'.at = a /\ phase = "run"
      BY <1>5, <3>1 DEF Read
    <3>3. Cell(a) < opt.ramSize
      BY <1>1, <3>2, AccessStaysInBounds, ProgramsUseAddresses
    <3> QED
      BY <1>2, <3>2, <3>3 DEF LastInBounds, Cell
  <2>2. CASE GuestWrites
    <3>1. PICK a \in opt.uses, v \in Values : Write(a, v)
      BY <2>2 DEF GuestWrites
    <3>2. Device(Resolved(a)) = "ram" /\ last'.at = a /\ phase = "run"
      BY <1>5, <3>1 DEF Write
    <3>3. Cell(a) < opt.ramSize
      BY <1>1, <3>2, AccessStaysInBounds, ProgramsUseAddresses
    <3> QED
      BY <1>2, <3>2, <3>3 DEF LastInBounds, Cell
  <2>3. CASE ~GuestReads /\ ~GuestWrites
    BY <1>5, <2>3 DEF Next, ReadOptions, LoadBinary, LoadText, AddCards, LatchKey, Reset, TimePasses, vars
  <2> QED
    BY <2>1, <2>2, <2>3
<1> QED
  BY <1>4, <1>5

(* Whatever the program does, nothing is stored and nothing is read outside the
   array, if a file names a run address only where the reset vector is RAM and
   a flat bus has the RAM it takes.                                          *)
THEOREM StaysInBounds == VectorInRam /\ FlatIsWhole => (Spec => []InBounds)
<1> SUFFICES ASSUME VectorInRam, FlatIsWhole
             PROVE  Spec => []InBounds
  OBVIOUS
<1>1. Init => InBounds
  BY DEF Init, InBounds, NoAccess
<1>2. BusInv /\ InBounds /\ [Next]_vars => InBounds'
  BY StoresStayInBounds, AccessesStayInBounds DEF InBounds, LastInBounds
<1> QED
  BY <1>1, <1>2, InductiveInvariant, PTL DEF Spec

-----------------------------------------------------------------------------
(* The RAM a guest sees is a memory *)

Mem == [a \in Uses |-> IF SeenAsRam(a) THEN Peek(Cell(a)) ELSE 0]

LEMMA MemIsBytes == TypeOK => Mem \in [Uses -> Byte]
<1> SUFFICES ASSUME TypeOK
             PROVE  Mem \in [Uses -> Byte]
  OBVIOUS
<1>1. \A i : Peek(i) \in Byte
  BY DEF Peek, TypeOK, Byte
<1>2. 0 \in Byte
  BY DEF Byte
<1> QED
  BY <1>1, <1>2 DEF Mem

LEMMA SameRam == ASSUME UNCHANGED <<opt, ram>> PROVE Mem' = Mem
BY SameMachine DEF Mem, Peek

LEMMA SeenCellsAreDistinct ==
  ASSUME FlatIsWhole, TypeOK, NEW a \in Address, NEW b \in Address, SeenAsRam(a), SeenAsRam(b), a # b
  PROVE  Cell(a) # Cell(b)
<1>1. opt.ramSize \in RamSizes /\ (opt.flat => opt.ramSize = 65536) /\ a \in Nat /\ b \in Nat
  BY OptIsMachine, AddressBounds, Top DEF IsMachine, FlatIsWhole, TypeOK
<1>2. DeviceWith(opt.cards, a) = "ram" /\ DeviceWith(opt.cards, b) = "ram"
  BY DEF SeenAsRam
<1>3. opt.flat \/ (RamAddress(opt.ramSize, a) /\ RamAddress(opt.ramSize, b))
  BY <1>2, Devices, CardsAreCards
<1>4. CASE opt.flat
  BY <1>1, <1>4 DEF Cell, Translate
<1>5. CASE RamAddress(opt.ramSize, a) /\ RamAddress(opt.ramSize, b)
  BY <1>1, <1>5, CellsAreDistinct DEF Cell
<1> QED
  BY <1>3, <1>4, <1>5

LEMMA PokeChangesOneCell ==
  ASSUME FlatIsWhole, BusInv, UNCHANGED opt, NEW a \in Uses, SeenAsRam(a), a \in Address, Uses \subseteq Address,
         NEW v \in Byte, ram' = Poke(ram, Cell(a), v)
  PROVE  Mem' = [Mem EXCEPT ![a] = v]
<1>1. \A b \in Uses : Mem'[b] = IF SeenAsRam(b) THEN Peek(Cell(b))' ELSE 0
  BY SameMachine DEF Mem
<1>2. \A i : Peek(i)' = IF i = Cell(a) THEN v ELSE Peek(i)
  BY DEF Peek, Poke
<1>3. ASSUME NEW b \in Uses
      PROVE  Mem'[b] = IF b = a THEN v ELSE Mem[b]
  <2>1. CASE b = a
    <3>1. Mem'[b] = Peek(Cell(b))'
      BY <1>1, <2>1
    <3>2. Cell(b)' = Cell(a)
      BY <2>1, SameMachine
    <3> QED
      BY <2>1, <3>1, <3>2 DEF Peek, Poke
  <2>2. CASE b # a /\ SeenAsRam(b)
    <3>1. Cell(b) # Cell(a) /\ Cell(b)' = Cell(b)
      BY <2>2, SeenCellsAreDistinct, SameMachine DEF BusInv
    <3>2. Peek(Cell(b))' = Peek(Cell(b))
      BY <3>1 DEF Peek, Poke
    <3> QED
      BY <1>1, <2>2, <3>2 DEF Mem
  <2>3. CASE b # a /\ ~SeenAsRam(b)
    BY <1>1, <2>3 DEF Mem
  <2> QED
    BY <2>1, <2>2, <2>3
<1>4. Mem \in [Uses -> Byte] /\ Mem' = [b \in Uses |-> Mem'[b]]
  BY MemIsBytes DEF Mem, BusInv
<1> QED
  BY <1>3, <1>4

LEMMA MemoryStarts == Init => Memory!Init
<1> SUFFICES ASSUME Init
             PROVE  Memory!Init
  OBVIOUS
<1>1. Mem \in [Uses -> Byte]
  BY Started, MemIsBytes DEF BusInv
<1> QED
  BY <1>1 DEF Memory!Init, Init, Mem

LEMMA MemorySteps ==
  FlatIsWhole => (BusInv /\ BusInv' /\ [Next]_vars => [Memory!Next]_(Memory!vars))
<1> SUFFICES ASSUME FlatIsWhole, BusInv, BusInv', [Next]_vars
             PROVE  [Memory!Next]_(Memory!vars)
  OBVIOUS
<1> DEFINE Still == UNCHANGED <<Mem, last, phase>>
<1>1. Still => UNCHANGED Memory!vars
  BY DEF Memory!vars, Mem
<1>2. Mem' \in [Uses -> Byte]
  <2>1. TypeOK'
    BY DEF BusInv
  <2>2. 0 \in Byte /\ \A i : Peek(i)' \in Byte
    BY <2>1 DEF Peek, TypeOK, Byte
  <2>3. \A a \in Uses : Peek(Cell(a))' \in Byte
    BY <2>1 DEF Peek, TypeOK, Byte
  <2> QED
    BY <2>2, <2>3 DEF Mem
<1>3. opt.uses \subseteq Address /\ opt.uses \subseteq Uses /\ Uses \subseteq Address
  BY ProgramsUseAddresses, BusAssumption DEF BusInv, TypeOK, Uses, IsMachine
<1>4. CASE ReadOptions \/ LoadBinary \/ LoadText \/ AddCards
  <2>1. phase # "run" /\ last' = last
    BY <1>4 DEF ReadOptions, LoadBinary, LoadText, AddCards
  <2> QED
    BY <1>2, <2>1 DEF Memory!Next, Memory!Load, Mem
<1>5. CASE GuestReads
  <2>1. PICK a \in opt.uses : Read(a)
    BY <1>5 DEF GuestReads
  <2>2. /\ phase = "run" /\ UNCHANGED <<opt, ram, phase>>
        /\ lastValue' \in (IF Outside(Resolved(a)) THEN Byte ELSE {ValueAt(Resolved(a))})
        /\ last' = IF Device(Resolved(a)) = "ram"
                     THEN [op |-> "read", at |-> a, value |-> lastValue'] ELSE last
    BY <2>1 DEF Read, ReadAt, loadVars
  <2>3. Mem' = Mem
    BY <2>2, SameRam
  <2>4. CASE Device(Resolved(a)) = "ram"
    <3>1. Resolved(a) = a /\ SeenAsRam(a)
      BY <2>2, <2>4, <1>3, RamIsSeen
    <3>2. lastValue' = Mem[a]
      <4>1. ~Outside(a)
        BY <1>3, NothingOutside DEF BusInv
      <4> QED
        BY <4>1, <2>2, <2>4, <3>1, <1>3 DEF ValueAt, Mem, Cards
    <3>3. Memory!Read(a)
      BY <2>2, <2>3, <2>4, <3>2 DEF Memory!Read, Mem
    <3> QED
      BY <3>3, <1>3 DEF Memory!Next
  <2>5. CASE Device(Resolved(a)) # "ram"
    BY <1>1, <2>2, <2>3, <2>5
  <2> QED
    BY <2>4, <2>5
<1>6. CASE GuestWrites
  <2>1. PICK a \in opt.uses, v \in Values : Write(a, v)
    BY <1>6 DEF GuestWrites
  <2>2. /\ phase = "run" /\ UNCHANGED <<opt, phase>>
        /\ ram' = IF Device(Resolved(a)) = "ram" THEN Poke(ram, Cell(Resolved(a)), v) ELSE ram
        /\ last' = IF Device(Resolved(a)) = "ram"
                     THEN [op |-> "write", at |-> a, value |-> v] ELSE last
    BY <2>1 DEF Write, WriteAt, loadVars
  <2>3. CASE Device(Resolved(a)) = "ram"
    <3>1. Resolved(a) = a /\ SeenAsRam(a) /\ v \in Byte
      BY <2>2, <2>3, <1>3, RamIsSeen, BusAssumption
    <3>2. Mem' = [Mem EXCEPT ![a] = v]
      BY <2>2, <2>3, <3>1, <1>3, PokeChangesOneCell
    <3>3. Memory!Write(a)
      BY <2>2, <2>3, <3>1, <3>2 DEF Memory!Write, Mem
    <3> QED
      BY <3>3, <1>3 DEF Memory!Next
  <2>4. CASE Device(Resolved(a)) # "ram"
    BY <1>1, <2>2, <2>4, SameRam
  <2> QED
    BY <2>3, <2>4
<1>7. CASE LatchKey \/ Reset \/ TimePasses \/ UNCHANGED vars
  <2>1. UNCHANGED <<opt, ram, last, phase>>
    BY <1>7 DEF LatchKey, Reset, TimePasses, vars, loadVars
  <2> QED
    BY <1>1, <2>1, SameRam
<1> QED
  BY <1>4, <1>5, <1>6, <1>7 DEF Next

(* The bus implements the memory of GuestMemory, for every machine if a flat
   bus has the RAM it takes.                                                 *)
THEOREM RamIsMemory == FlatIsWhole => (Spec => IsMemory)
<1> SUFFICES ASSUME FlatIsWhole
             PROVE  Spec => IsMemory
  OBVIOUS
<1>1. BusInv /\ BusInv' /\ [Next]_vars => [Memory!Next]_(Memory!vars)
  BY MemorySteps
<1> QED
  BY <1>1, InductiveInvariant, MemoryStarts, PTL DEF Spec, IsMemory, Memory!Spec
=============================================================================
