----------------------------- MODULE Apple1Bus -----------------------------
(***************************************************************************)
(* The memory bus (bus.c): RAM and its split, the monitor ROM, the PIA with *)
(* its mirrors, expansion cards, the floating bus, and the loading of       *)
(* programs before the machine starts (main.c:648-841).  The keyboard path  *)
(* behind $D010 is Apple1Keyboard, the screen behind $D012 Apple1Display;   *)
(* what machine a command asks for says Apple1Startup.                      *)
(***************************************************************************)
EXTENDS Integers, Sequences

CONSTANTS
  Machines,     (* What the emulator may be started as, see Machine.          *)
  Values,       (* Bytes the guest writes.                                    *)
  Keys,         (* Keys that arrive, with bit 7 set.                          *)
  Rom(_),       (* What the ROMs hold at an address.                          *)
  Clock         (* Bound: where the microsecond counter wraps (2^32).         *)

Byte    == 0 .. 255
TOP     == 65535
Address == 0 .. TOP
PIA_BASE     == 53264   \* $D010
ROM_BASE     == 65280   \* $FF00
RESET_VECTOR == 65532   \* $FFFC
SPLIT        == 57344   \* $E000, the upper bank of 8 KB
NoRun        == -1
RamSizes     == 4096 .. TOP + 1
Cards        == {"ACI", "Krusader"}
CardBase     == [ACI |-> 49152, Krusader |-> 57344]    \* $C000, $E000
CardSize     == [ACI |-> 512, Krusader |-> 4096]       \* of the masks $FE00, $F000
KRU_ROM      == 4096    \* the room for Krusader's image

(* An image says which byte goes to which address; a binary's may run past
   $FFFF, a text's addresses wrap.                                           *)
IsImage(f) == f \in [DOMAIN f -> Byte] /\ DOMAIN f \subseteq Nat

Files(m) == {m.binaries[i] : i \in DOMAIN m.binaries}

(* uses: the addresses its program touches (bound); binaries and text: the
   files it is given; run: where a file says to start; window: the time a
   character takes (-B), 0 without; stops: where the start comes to an end
   because what was asked for is senseless or cannot be read.  A flat bus may
   be asked for whatever RAM the build has.                                  *)
IsMachine(m) ==
  /\ m.ramSize \in RamSizes /\ m.kruSize \in 1 .. KRU_ROM /\ m.cards \subseteq Cards
  /\ m.flat \in BOOLEAN
  /\ m.binaries \in Seq(Files(m))
  /\ \A b \in Files(m) : IsImage(b.image) /\ b.run \in Address \union {NoRun}
  /\ IsImage(m.text) /\ DOMAIN m.text \subseteq Address
  /\ m.run \in Address \union {NoRun}
  /\ m.window \in 0 .. Clock - 1
  /\ m.uses \subseteq Address
  /\ m.stops \subseteq {"options", "rom", "text", "cards"}

NoAccess == [op |-> "none", at |-> 0, value |-> 0]

ASSUME BusAssumption ==
  /\ \A m \in Machines : IsMachine(m)
  /\ Values \subseteq Byte /\ Keys \subseteq 128 .. 255
  /\ \A a \in Address : Rom(a) \in Byte
  /\ Clock \in Nat \ {0}

VARIABLES
  opt,          (* The machine that was started.                              *)
  phase,        (* "options", "binaries", "cards", "run" or "failed"          *)
  loaded,       (* How many of its binaries are in RAM.                       *)
  ram,          (* The bytes of RAM that were ever written.                   *)
  cards,        (* The cards on the bus.                                      *)
  kbdData, kbdControl, dspData, dspControl,   (* struct pia_6821               *)
  level,        (* The ACI's output flip-flop.                                *)
  lastValue,    (* last_bus_value: what a floating bus still holds.           *)
  elapsed,      (* now - last_write_us, as the unsigned counter has it.       *)
  since,        (* History: the time that really passed, up to Clock.         *)
  polled,       (* History: the guest saw the display ready and has not printed. *)
  last          (* History: the last access the RAM answered.                  *)

loadVars == <<opt, phase, loaded, cards>>
piaVars  == <<kbdData, kbdControl, dspData, dspControl>>
timeVars == <<elapsed, since, polled>>
vars == <<loadVars, ram, piaVars, level, lastValue, timeVars, last>>

-----------------------------------------------------------------------------
(* Address decoding *)

RamAddress(size, a) ==
  \/ size = 8192 /\ (a < 4096 \/ (SPLIT <= a /\ a < SPLIT + 4096))
  \/ size # 8192 /\ a < size

(* Mutant: the upper bank lies on the lower one. *)
TranslateOver(size, a) == IF size = 8192 /\ SPLIT <= a THEN a - SPLIT ELSE a
(* Mutant: the upper bank is indexed by its address. *)
TranslateNot(size, a) == a

Translate(size, a) ==
  IF size = 8192 /\ SPLIT <= a /\ a < SPLIT + 4096 THEN a - 53248 ELSE a

Cell(a) == Translate(opt.ramSize, a)

(* Only A0 and A1 reach the PIA. *)
Resolved(a) ==
  IF ~opt.flat /\ a \div 4096 = 13 THEN PIA_BASE + (a % 4) ELSE a

Selects(c, a) == a - (a % CardSize[c]) = CardBase[c]

(* The cards' windows do not overlap: the order they are asked in is no matter. *)
DeviceWith(installed, a) ==
  CASE opt.flat                                  -> "ram"
    [] ~opt.flat /\ a >= ROM_BASE                -> "rom"
    [] ~opt.flat /\ a \in PIA_BASE .. PIA_BASE + 3 -> "pia"
    [] OTHER -> IF \E c \in installed : Selects(c, a)
                  THEN CHOOSE c \in installed : Selects(c, a)
                ELSE IF RamAddress(opt.ramSize, a) THEN "ram" ELSE "open"

Device(a) == DeviceWith(cards, a)

-----------------------------------------------------------------------------
Peek(i) == IF i \in DOMAIN ram THEN ram[i] ELSE 0
Poke(m, i, v) == [j \in DOMAIN m \union {i} |-> IF j = i THEN v ELSE m[j]]

DataMode(control)  == (control \div 4) % 2 = 1
Strobe             == kbdControl >= 128
(* Mutant: a write to the control register writes the strobe too. *)
ControlOverwritten(control, v) == v
(* Mutant: bit 7 of the value is not masked out. *)
ControlUnmasked(control, v) == 128 * (control \div 128) + v

(* Bit 7 is read-only. *)
ControlWritten(control, v) == 128 * (control \div 128) + (v % 128)

(* Mutant: any time at all is enough. *)
ReadyAtOnce == TRUE

(* term_dsp_ready *)
DspReady == opt.window = 0 \/ elapsed >= opt.window

(* bus_init; RAM is cleared. *)
Init ==
  /\ opt \in Machines
  /\ phase = "options" /\ loaded = 0 /\ cards = {}
  /\ ram = [i \in {} |-> 0]
  /\ kbdData = 0 /\ kbdControl = 39 /\ dspData = 0 /\ dspControl = 167
  /\ level = FALSE
  /\ lastValue = 0
  /\ elapsed \in 0 .. Clock - 1 /\ (opt.window = 0 => elapsed = 0)
  /\ since = Clock /\ polled = FALSE
  /\ last = NoAccess

-----------------------------------------------------------------------------
(* Before the machine runs *)

(* The bytes of an image that fall on RAM. *)
Stored(m, image) ==
  LET hits  == {a \in DOMAIN image : RamAddress(opt.ramSize, a)}
      cells == {Cell(a) : a \in hits}
  IN  [i \in DOMAIN m \union cells |->
         IF i \in cells THEN image[CHOOSE a \in hits : Cell(a) = i] ELSE m[i]]

(* The reset vector is set in the array, wherever the RAM ends. *)
SetVector(m, run) ==
  IF run = NoRun THEN m
  ELSE Poke(Poke(m, RESET_VECTOR, run % 256), RESET_VECTOR + 1, run \div 256)

(* The options are read, and the monitor's ROM (bus_load_rom). *)
ReadOptions ==
  /\ phase = "options"
  /\ phase' = IF opt.stops \intersect {"options", "rom"} = {} THEN "binaries" ELSE "failed"
  /\ UNCHANGED <<opt, loaded, ram, cards, piaVars, level, lastValue, timeVars, last>>

(* bus_load_bin: all of it fits, or nothing is loaded and the program ends.
   After a flat binary the vector points to $0400 (main.c:729).              *)
LoadBinary ==
  /\ phase = "binaries" /\ loaded < Len(opt.binaries)
  /\ LET b == opt.binaries[loaded + 1]
     IN  IF DOMAIN b.image # {} /\ \A a \in DOMAIN b.image : RamAddress(opt.ramSize, a)
           THEN ram' = SetVector(Stored(ram, b.image), b.run) /\ loaded' = loaded + 1 /\ UNCHANGED phase
           ELSE phase' = "failed" /\ UNCHANGED <<ram, loaded>>
  /\ UNCHANGED <<opt, cards, piaVars, level, lastValue, timeVars, last>>

(* bus_load_wozmon_txt stores what falls on RAM and drops the rest; a run
   address becomes the reset vector (main.c:774).  A text without a byte and
   without an address is refused.                                            *)
LoadText ==
  /\ phase = "binaries" /\ loaded = Len(opt.binaries)
  /\ phase' = (IF "text" \in opt.stops THEN "failed" ELSE "cards")
  /\ ram' = (IF "text" \in opt.stops THEN ram ELSE SetVector(Stored(ram, opt.text), opt.run))
  /\ UNCHANGED <<opt, loaded, cards, piaVars, level, lastValue, timeVars, last>>

(* aci_create, krusader_create and bus_add_card.  Only a tape that cannot be
   put in ends the start; a card that cannot be made is left out.            *)
AddCards ==
  /\ phase = "cards"
  /\ phase' = (IF "cards" \in opt.stops THEN "failed" ELSE "run")
  /\ cards' = (IF "cards" \in opt.stops THEN cards ELSE opt.cards)
  /\ UNCHANGED <<opt, loaded, ram, piaVars, level, lastValue, timeVars, last>>

-----------------------------------------------------------------------------
(* bus_read *)

PiaValue(a) ==
  CASE a = PIA_BASE     -> IF DataMode(kbdControl) THEN kbdData ELSE 0
    [] a = PIA_BASE + 1 -> kbdControl
    [] a = PIA_BASE + 2 -> (dspData % 128) + (IF DspReady THEN 0 ELSE 128)
    [] a = PIA_BASE + 3 -> (dspControl % 128) + (IF DspReady THEN 128 ELSE 0)

(* No tape plays: the comparator at $C081 stays low. *)
CardValue(c, a) ==
  CASE c = "ACI"      -> IF a >= 49408 THEN Rom(a) ELSE 0
    [] c = "Krusader" -> IF a - SPLIT < opt.kruSize THEN Rom(a) ELSE 0

(* Mutant: the strobe is dropped in direction mode too. *)
StrobeDropped == kbdControl' = kbdControl % 128
HandOver == kbdControl' = IF DataMode(kbdControl) THEN kbdControl % 128 ELSE kbdControl

(* What lies behind the array is whatever the build put there. *)
Outside(a) == Device(a) = "ram" /\ Cell(a) >= opt.ramSize

(* An address that nothing answers reads what the last access left. *)
ValueAt(a) ==
  LET d == Device(a)
  IN  CASE d = "ram"   -> Peek(Cell(a))
        [] d = "rom"   -> Rom(a)
        [] d = "pia"   -> PiaValue(a)
        [] d \in Cards -> CardValue(d, a)
        [] d = "open"  -> lastValue

ReadAt(a) ==
  LET d == Device(a)
  IN  /\ lastValue' \in (IF Outside(a) THEN Byte ELSE {ValueAt(a)})
      /\ IF d = "pia" /\ a = PIA_BASE THEN HandOver ELSE UNCHANGED kbdControl
      /\ level' = (IF d = "ACI" /\ a < 49408 THEN ~level ELSE level)
      /\ polled' = (IF d = "pia" /\ a \in {PIA_BASE + 2, PIA_BASE + 3} THEN DspReady ELSE polled)

Read(a) ==
  /\ phase = "run"
  /\ ReadAt(Resolved(a))
  /\ last' = IF Device(Resolved(a)) = "ram" THEN [op |-> "read", at |-> a, value |-> lastValue']
             ELSE last
  /\ UNCHANGED <<loadVars, ram, kbdData, dspData, dspControl, elapsed, since>>

-----------------------------------------------------------------------------
(* bus_write_ext.  A phantom write differs only in what the debugger sees. *)

(* io_write_display: term_write notes the time whatever the character is. *)
StartWindow ==
  /\ elapsed' = 0
  /\ since' = (IF opt.window = 0 THEN since ELSE 0)
  /\ polled' = FALSE

WriteDisplay(v) ==
  IF DataMode(dspControl) THEN dspData' = v /\ StartWindow
                          ELSE UNCHANGED <<dspData, timeVars>>

WritePia(a, v) ==
  /\ kbdControl' = IF a = PIA_BASE + 1 THEN ControlWritten(kbdControl, v) ELSE kbdControl
  /\ dspControl' = IF a = PIA_BASE + 3 THEN ControlWritten(dspControl, v) ELSE dspControl
  /\ IF a = PIA_BASE + 2 THEN WriteDisplay(v) ELSE UNCHANGED <<dspData, timeVars>>
  /\ UNCHANGED kbdData

WriteAt(a, v) ==
  LET d == Device(a)
  IN  /\ ram' = IF d = "ram" THEN Poke(ram, Cell(a), v) ELSE ram
      /\ IF d = "pia" THEN WritePia(a, v) ELSE UNCHANGED <<piaVars, timeVars>>
      /\ level' = (IF d = "ACI" /\ a < 49408 /\ a # 49281 THEN ~level ELSE level)

Write(a, v) ==
  /\ phase = "run"
  /\ lastValue' = v
  /\ WriteAt(Resolved(a), v)
  /\ last' = IF Device(Resolved(a)) = "ram" THEN [op |-> "write", at |-> a, value |-> v]
             ELSE last
  /\ UNCHANGED loadVars

-----------------------------------------------------------------------------
(* bus_update_keyboard, as far as the PIA sees it. *)
LatchKey ==
  /\ phase = "run" /\ ~Strobe
  /\ kbdData' \in Keys
  /\ kbdControl' = kbdControl + 128
  /\ UNCHANGED <<loadVars, ram, dspData, dspControl, level, lastValue, timeVars, last>>

(* bus_reset: ^R.  The PIA wakes up with both ports in direction mode. *)
Reset ==
  /\ phase = "run"
  /\ kbdData' = 0 /\ kbdControl' = 0 /\ dspData' = 0 /\ dspControl' = 128
  /\ UNCHANGED <<loadVars, ram, level, lastValue, timeVars, last>>

TimePasses ==
  /\ phase = "run" /\ opt.window > 0
  /\ elapsed' = (elapsed + 1) % Clock
  /\ since' = IF since < Clock THEN since + 1 ELSE since
  /\ UNCHANGED <<loadVars, ram, piaVars, level, lastValue, polled, last>>

GuestReads  == \E a \in opt.uses : Read(a)
GuestWrites == \E a \in opt.uses, v \in Values : Write(a, v)

Next ==
  \/ ReadOptions \/ LoadBinary \/ LoadText \/ AddCards
  \/ GuestReads \/ GuestWrites
  \/ LatchKey \/ Reset \/ TimePasses

Spec == Init /\ [][Next]_vars

-----------------------------------------------------------------------------
(* Properties *)

(* Registers and cells hold bytes; the PIA's read-only bits stay single bits. *)
TypeOK ==
  /\ opt \in Machines
  /\ phase \in {"options", "binaries", "cards", "run", "failed"}
  /\ loaded \in 0 .. Len(opt.binaries)
  /\ DOMAIN ram \subseteq Address /\ \A i \in DOMAIN ram : ram[i] \in Byte
  /\ cards \in {{}, opt.cards}
  /\ kbdData \in Byte /\ kbdControl \in Byte /\ dspData \in Byte /\ dspControl \in Byte
  /\ level \in BOOLEAN
  /\ lastValue \in Byte /\ last.value \in Byte
  /\ elapsed \in 0 .. Clock - 1 /\ since \in 0 .. Clock /\ polled \in BOOLEAN

(* No byte is loaded or written outside the array of the RAM, and none is read
   there: not by a program, not by the start, whatever its size and split.   *)
InBounds ==
  /\ DOMAIN ram \subseteq 0 .. opt.ramSize - 1
  /\ last.op # "none" => Cell(last.at) < opt.ramSize

(* What the manual says a flat bus takes, and nothing sees to: 64 KB of RAM. *)
FlatIsWhole == \A m \in Machines : m.flat => m.ramSize = TOP + 1

(* What it takes: a file may name a run address only where the vector is RAM. *)
VectorInRam ==
  \A m \in Machines :
    (m.run # NoRun \/ \E b \in Files(m) : b.run # NoRun)
      => m.ramSize > RESET_VECTOR + 1

(* What RAM the program will see: with the cards that will be on the bus. *)
SeenAsRam(a) == Resolved(a) = a /\ DeviceWith(opt.cards, a) = "ram"

Uses == UNION {m.uses : m \in Machines}

(* The addresses that are RAM are cells of their own: the split bank, mirrors,
   cards and loaded programs never make two of them one.                     *)
Memory == INSTANCE GuestMemory WITH
  Addr <- Uses, None <- NoAccess, started <- phase = "run",
  mem <- [a \in Uses |-> IF SeenAsRam(a) THEN Peek(Cell(a)) ELSE 0]

IsMemory == Memory!Spec

(* A key that waits is neither lost nor replaced until a read hands it over,
   however the program moves the control register about; only RESET takes it
   away.  And none is announced that did not arrive.                         *)
KeySurvives ==
  [][/\ Strobe /\ kbdControl' < 128 => lastValue' = kbdData \/ Reset
     /\ Strobe /\ kbdData' # kbdData => Reset
     /\ ~Strobe /\ kbdControl' >= 128 => LatchKey]_vars

(* A program that waits for the display as the monitor does prints no faster
   than the line, even when the microsecond counter wraps between.           *)
PolledOutputIsPaced ==
  [][polled /\ ~polled' /\ (\E a \in opt.uses, v \in Values : Write(a, v)) => since >= opt.window]_vars
=============================================================================
