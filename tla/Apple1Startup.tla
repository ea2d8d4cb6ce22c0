--------------------------- MODULE Apple1Startup ---------------------------
(***************************************************************************)
(* The machine a command asks for: from the words of a command line and the *)
(* files there are to what Apple1Bus starts (main.c:396-841).               *)
(***************************************************************************)
EXTENDS Apple1Bus, CliConfig, WozmonText, SequencesExt

(* Of a file count: its size, the bytes of a program, the characters of a text
   and the listing it was printed from, the lines of a configuration, whether
   it is a recording that can be played.                                      *)
ConfigLines(disk) == [p \in DOMAIN disk |-> disk[p].lines]

BinaryAt(disk, path, at, run) ==
  LET bytes == IF path \in DOMAIN disk THEN disk[path].bytes ELSE <<>>
  IN  [image |-> [a \in at .. at + Len(bytes) - 1 |-> bytes[a - at + 1]], run |-> run]

(* The flat binary first; it runs from $0400. *)
BinariesOf(o, disk) ==
  (IF o.flat_bin = NoPath THEN <<>> ELSE <<BinaryAt(disk, o.flat_bin, 0, 1024)>>)
  \o (IF o.load = NoPath THEN <<>> ELSE <<BinaryAt(disk, o.load, o.loadAt, NoRun)>>)

TextOf(o, disk) ==
  IF o.wozmon_txt \in DOMAIN disk THEN Reading(disk[o.wozmon_txt].text) ELSE Nothing

SizeOf(disk, path) == IF path \in DOMAIN disk THEN disk[path].size ELSE 0

(* aci_create and krusader_create: a card with a ROM of another size is not made. *)
AciMade(o, disk)      == SizeOf(disk, o.aci_rom) = 256
KrusaderMade(o, disk) == SizeOf(disk, o.krusader) \in 1 .. KRU_ROM

(* Asking for tapes without asking for the card is passed over. *)
TapeFails(o, disk) ==
  /\ o.aci_rom # NoPath
  /\ IF AciMade(o, disk)
       THEN o.tape_in # NoPath /\ ~(o.tape_in \in DOMAIN disk /\ disk[o.tape_in].playable)
       ELSE o.tape_in # NoPath \/ o.tape_out # NoPath

(* A monitor ROM that is missing is replaced by the embedded one. *)
RomFails(o, disk) == o.rom \in DOMAIN disk /\ disk[o.rom].size # 256

IsFile(f) ==
  /\ f.size \in Nat /\ f.bytes \in Seq(Byte) /\ f.text \in Seq(0 .. JUNK)
  /\ f.lines \in Seq([key : STRING, value : DOMAIN Says])

IsCommand(c) ==
  /\ c.words \in Seq(DOMAIN Says)
  /\ \A p \in DOMAIN c.disk : IsFile(c.disk[p])
  /\ c.ramSize \in RamSizes /\ c.uses \subseteq Address

(* What ten bits take at one baud, in microseconds. *)
TEN_BITS == 10000000

(* A command has its words, the disk it is given on, the RAM of the build, and
   the addresses its program uses.  Kept for the properties: what was asked
   for, by which words or file, and the listing that is loaded.              *)
MachineOf(command) ==
  LET disk  == command.disk
      asked == Asked(command.words, ConfigLines(disk))
      o     == asked.options
      text  == TextOf(o, disk)
  IN  [ramSize  |-> command.ramSize,
       flat     |-> o.flat_bus,
       window   |-> IF o.baud = 0 THEN 0 ELSE TEN_BITS \div o.baud,
       binaries |-> BinariesOf(o, disk),
       text     |-> text.image,
       run      |-> text.run,
       cards    |-> {c \in Cards : \/ c = "ACI" /\ AciMade(o, disk)
                                   \/ c = "Krusader" /\ KrusaderMade(o, disk)},
       kruSize  |-> IF KrusaderMade(o, disk) THEN SizeOf(disk, o.krusader) ELSE KRU_ROM,
       stops    |-> {s \in {"options", "rom", "text", "cards"} :
                       \/ s = "options" /\ ~asked.ok
                       \/ s = "rom" /\ RomFails(o, disk)
                       \/ s = "text" /\ o.wozmon_txt # NoPath /\ ~text.found
                       \/ s = "cards" /\ TapeFails(o, disk)},
       asked    |-> asked,
       file     |-> IF command.words # <<>> /\ Says[command.words[1]].config /\ command.words[1] \in DOMAIN disk
                      THEN disk[command.words[1]].lines ELSE <<>>,
       listing  |-> IF o.wozmon_txt \in DOMAIN disk THEN disk[o.wozmon_txt].listing ELSE NoListing,
       uses     |-> command.uses]

-----------------------------------------------------------------------------
(* Properties *)

(* A listing is in RAM as it was written, however it was laid out: each byte at
   its address where there is RAM, the address to run in the reset vector, and
   nothing else.                                                             *)
ListingIsLoaded ==
  phase = "cards" /\ opt.binaries = <<>> =>
    LET image  == Meaning(opt.listing)
        vector == IF opt.listing.run = NoRun THEN {} ELSE {RESET_VECTOR, RESET_VECTOR + 1}
        hits   == {a \in DOMAIN image : RamAddress(opt.ramSize, a)}
    IN  /\ DOMAIN ram = {Cell(a) : a \in hits} \union vector
        /\ \A a \in hits : Cell(a) \in vector \/ ram[Cell(a)] = image[a]
        /\ vector # {} => ram[RESET_VECTOR] + 256 * ram[RESET_VECTOR + 1] = opt.listing.run

(* What a text was read as is what its listing means. *)
TextIsListing(m) == m.text = Meaning(m.listing) /\ m.run = m.listing.run

(* The operand that says what a line does.  A line may have blanks around its @,
   the manual's -l <file>@<hex> has none.                                     *)
OperandOf(l) == IF l.key = "load" THEN Says[l.value].joined ELSE l.value

(* The switches that the manual gives for a setting (usage.md, the example
   configuration); the flat binary stands at the end of the line.             *)
SwitchesFor(l) ==
  CASE l.key = "rom"        -> <<"-r", l.value>>
    [] l.key = "load"       -> <<"-l", OperandOf(l)>>
    [] l.key = "wozmon_txt" -> <<"-w", l.value>>
    [] l.key = "aci_rom"    -> <<"-a", l.value>>
    [] l.key = "tape_in"    -> <<"-e", l.value>>
    [] l.key = "tape_out"   -> <<"-E", l.value>>
    [] l.key = "krusader"   -> <<"-k", l.value>>
    [] l.key = "baud"       -> <<"-B", l.value>>
    [] l.key = "log_file"   -> <<"-L", l.value>>
    [] l.key = "log_level"  -> <<"-V", l.value>>
    [] l.key = "speed_cap"  -> IF Says[l.value].truth THEN <<"-c">> ELSE <<"-u">>
    [] l.key = "flat_bus"        /\ Says[l.value].truth  -> <<"-F">>
    [] l.key = "throttle_pia"    /\ ~Says[l.value].truth -> <<"-p">>
    [] l.key = "dram_refresh"    /\ Says[l.value].truth  -> <<"-d">>
    [] l.key = "keyboard_bounce" /\ Says[l.value].truth  -> <<"-b">>
    [] l.key = "randomize_ram"   /\ ~Says[l.value].truth -> <<"-s">>
    [] l.key = "trace"           /\ Says[l.value].truth  -> <<"-t">>
    [] OTHER -> <<>>

FlatBinary(file) ==
  LET flat == {i \in DOMAIN file : file[i].key = "flat_bin"}
  IN  IF flat = {} THEN <<>> ELSE <<file[CHOOSE i \in flat : TRUE].value>>

Switches(file) == FlattenSeq([i \in DOMAIN file |-> SwitchesFor(file[i])]) \o FlatBinary(file)

(* What the command line can say as well: no setting is made twice; no flat
   binary is put on a bus that is said not to be flat, or looks like a switch;
   and no operand is -h or named like a configuration file, which main looks
   for in every word before it reads the switches.                            *)
Plainly(file) ==
  /\ \A i, j \in DOMAIN file : file[i].key = file[j].key => i = j
  /\ FlatBinary(file) = <<>> \/ \A i \in DOMAIN file :
        file[i].key = "flat_bus" => Says[file[i].value].truth
  /\ \A i \in DOMAIN file :
        LET word == Says[OperandOf(file[i])]
        IN  /\ OperandOf(file[i]) # "-h" /\ (word.config => word.dash)
            /\ file[i].key = "flat_bin" => ~word.dash

(* What a configuration file asks for is what the manual's switches for it ask
   for, whatever the file sets, in whatever order its lines stand and with
   whatever blanks around the @ of a program to load.                        *)
FileMeansSwitches ==
  opt.asked.ok /\ opt.file # <<>> /\ Plainly(opt.file)
    => opt.asked = Asked(Switches(opt.file), <<>>)
=============================================================================
