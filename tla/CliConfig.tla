----------------------------- MODULE CliConfig -----------------------------
(***************************************************************************)
(* What the emulator is asked for, in the switches of the command line or   *)
(* in the lines of a configuration file (main.c:396-635, cli_config.c).     *)
(***************************************************************************)
EXTENDS Integers, Sequences, FiniteSets

CONSTANT
  Says          (* How a word reads: the number it spells, the truth it spells
                   if isTruth; if hasAt, what stands before its @ and the path
                   that is without the blanks around it, whether anything but
                   blanks stands behind, the address that spells, and the word
                   that it is when joined without blanks around the @; whether
                   it begins with a dash, whether it ends as the name of a
                   configuration file does.                                   *)

(* The null pointer, which is not the empty path. *)
NoPath == "NULL"

(* cli_config_init_defaults; main starts from the same values. *)
Defaults ==
  [rom |-> NoPath, load |-> NoPath, loadAt |-> 0, wozmon_txt |-> NoPath, flat_bin |-> NoPath,
   aci_rom |-> NoPath, tape_in |-> NoPath, tape_out |-> NoPath, krusader |-> NoPath,
   log_file |-> NoPath, log_level |-> 1, baud |-> 0,
   speed_cap |-> TRUE, throttle_pia |-> TRUE, dram_refresh |-> FALSE, keyboard_bounce |-> FALSE,
   randomize_ram |-> TRUE, flat_bus |-> FALSE, trace |-> FALSE]

-----------------------------------------------------------------------------
(* A file: its lines, each a key and a value; blank lines and comments are
   left out.  A line without an equals sign, or with nothing on one side of it,
   has a key that no setting has.                                             *)

PathKeys  == {"rom", "wozmon_txt", "flat_bin", "aci_rom", "tape_in", "tape_out", "krusader", "log_file"}
TruthKeys == {"speed_cap", "flat_bus", "throttle_pia", "dram_refresh", "keyboard_bounce",
              "randomize_ram", "trace"}

Accepts(key, word) ==
  CASE key \in PathKeys  -> TRUE
    [] key \in TruthKeys -> Says[word].isTruth
    [] key = "load"      -> Says[word].hasAt /\ Says[word].path # "" /\ Says[word].hasAddress
    [] key = "baud"      -> Says[word].number > 0
    [] key = "log_level" -> Says[word].number \in 0 .. 2
    [] OTHER             -> FALSE

(* Mutant: a flat binary leaves the bus as it is. *)
ApplyKeyOnly(o, key, word) ==
  CASE key \in PathKeys  -> [o EXCEPT ![key] = word]
    [] key \in TruthKeys -> [o EXCEPT ![key] = Says[word].truth]
    [] key = "load"      -> [o EXCEPT !.load = Says[word].path, !.loadAt = Says[word].at]
    [] OTHER             -> [o EXCEPT ![key] = Says[word].number]

(* Mutant: the blank before the @ stays with the path. *)
ApplyKeyUntrimmed(o, key, word) ==
  CASE key = "flat_bin"  -> [o EXCEPT !.flat_bin = word, !.flat_bus = TRUE]
    [] key \in PathKeys \ {"flat_bin"} -> [o EXCEPT ![key] = word]
    [] key \in TruthKeys -> [o EXCEPT ![key] = Says[word].truth]
    [] key = "load"      -> [o EXCEPT !.load = Says[word].before, !.loadAt = Says[word].at]
    [] OTHER             -> [o EXCEPT ![key] = Says[word].number]

(* apply_key and parse_load_value.  opt_uncapped is kept as its opposite. *)
ApplyKey(o, key, word) ==
  CASE key = "flat_bin"  -> [o EXCEPT !.flat_bin = word, !.flat_bus = TRUE]
    [] key \in PathKeys \ {"flat_bin"} -> [o EXCEPT ![key] = word]
    [] key \in TruthKeys -> [o EXCEPT ![key] = Says[word].truth]
    [] key = "load"      -> [o EXCEPT !.load = Says[word].path, !.loadAt = Says[word].at]
    [] key \in {"baud", "log_level"} -> [o EXCEPT ![key] = Says[word].number]

(* load_config_file: a line that is not accepted refuses the file. *)
FileAccepted(lines) == \A i \in DOMAIN lines : Accepts(lines[i].key, lines[i].value)

FileOptions(lines) ==
  LET upTo[i \in 0 .. Len(lines)] ==
        IF i = 0 THEN Defaults ELSE ApplyKey(upTo[i - 1], lines[i].key, lines[i].value)
  IN  upTo[Len(lines)]

-----------------------------------------------------------------------------
(* The command line: each switch a word, and its operand the next one. *)

Flags    == {"-c", "-u", "-F", "-p", "-d", "-b", "-s", "-t", "-H", "-g"}
Operands == {"-r", "-l", "-w", "-a", "-e", "-E", "-k", "-L", "-B", "-V"}

Addresses == 0 .. 65535

Paths    == STRING \ {NoPath}
Readings == [number : Int, isTruth : BOOLEAN, truth : BOOLEAN, hasAt : BOOLEAN, before : Paths, path : Paths,
             hasAddress : BOOLEAN, at : Addresses, joined : DOMAIN Says, dash : BOOLEAN, config : BOOLEAN]

(* The switches begin with a dash, and end as no configuration file does.
   Without blanks, what stands before the @ is the path.                      *)
ASSUME WordsAssumption ==
  /\ \A w \in Flags \union Operands \union {"-h"} :
        w \in DOMAIN Says /\ Says[w].dash /\ ~Says[w].config
  /\ NoPath \notin DOMAIN Says
  /\ \A w \in DOMAIN Says : Says[w] \in Readings
  /\ \A w \in DOMAIN Says : Says[w].hasAt =>
        LET joined == Says[Says[w].joined]
        IN  joined.hasAt /\ joined.before = Says[w].path /\ joined.at = Says[w].at

Flagged(o, switch) ==
  CASE switch = "-c" -> [o EXCEPT !.speed_cap = TRUE]
    [] switch = "-u" -> [o EXCEPT !.speed_cap = FALSE]
    [] switch = "-F" -> [o EXCEPT !.flat_bus = TRUE]
    [] switch = "-p" -> [o EXCEPT !.throttle_pia = FALSE]
    [] switch = "-d" -> [o EXCEPT !.dram_refresh = TRUE]
    [] switch = "-b" -> [o EXCEPT !.keyboard_bounce = TRUE]
    [] switch = "-s" -> [o EXCEPT !.randomize_ram = FALSE]
    [] switch = "-t" -> [o EXCEPT !.trace = TRUE]
    [] switch \in {"-H", "-g"} -> o

(* A value that makes no sense is passed over without a word.  The path to load
   is all that stands before the @, even nothing.                            *)
WithOperand(o, switch, word) ==
  CASE switch = "-r" -> [o EXCEPT !.rom = word]
    [] switch = "-l" -> IF Says[word].hasAt THEN [o EXCEPT !.load = Says[word].before, !.loadAt = Says[word].at]
                                            ELSE o
    [] switch = "-w" -> [o EXCEPT !.wozmon_txt = word]
    [] switch = "-a" -> [o EXCEPT !.aci_rom = word]
    [] switch = "-e" -> [o EXCEPT !.tape_in = word]
    [] switch = "-E" -> [o EXCEPT !.tape_out = word]
    [] switch = "-k" -> [o EXCEPT !.krusader = word]
    [] switch = "-L" -> [o EXCEPT !.log_file = word]
    [] switch = "-B" -> IF Says[word].number > 0 THEN [o EXCEPT !.baud = Says[word].number] ELSE o
    [] switch = "-V" -> IF Says[word].number \in 0 .. 2 THEN [o EXCEPT !.log_level = Says[word].number] ELSE o

NoSwitch  == ""
LineStart == [options |-> Defaults, takes |-> NoSwitch, given |-> {}, over |-> FALSE, bad |-> FALSE]

(* port_getopt, a word at a time.  It stops at the first word that is neither
   switch nor operand, the flat binary; what follows is not looked at.        *)
ReadWord(s, w) ==
  CASE s.over \/ s.bad -> s
    [] ~s.over /\ ~s.bad /\ s.takes # NoSwitch ->
         [s EXCEPT !.options = WithOperand(s.options, s.takes, w), !.takes = NoSwitch]
    [] OTHER ->
         CASE w \in Operands -> [s EXCEPT !.takes = w]
           [] w \in Flags    -> [s EXCEPT !.options = Flagged(s.options, w), !.given = @ \union {w}]
           [] w \notin Flags \union Operands /\ Says[w].dash  -> [s EXCEPT !.bad = TRUE]
           [] w \notin Flags \union Operands /\ ~Says[w].dash ->
                [s EXCEPT !.options.flat_bin = w, !.options.flat_bus = TRUE, !.over = TRUE]

-----------------------------------------------------------------------------
(* What main makes of the words, given the configuration files there are. *)

Refused    == [ok |-> FALSE, options |-> Defaults]
Granted(o) == [ok |-> TRUE, options |-> o]

FromSwitches(words) ==
  LET upTo[i \in 0 .. Len(words)] == IF i = 0 THEN LineStart ELSE ReadWord(upTo[i - 1], words[i])
      s == upTo[Len(words)]
  IN  IF s.bad \/ s.takes # NoSwitch \/ {"-c", "-u"} \subseteq s.given THEN Refused ELSE Granted(s.options)

(* Only -H and -g stand beside a file; other words are passed over. *)
FromFile(words, path, files) ==
  IF \/ \E i \in DOMAIN words : Says[words[i]].dash /\ words[i] \notin {"-H", "-g"}
     \/ path \notin DOMAIN files
     \/ ~FileAccepted(files[path])
    THEN Refused ELSE Granted(FileOptions(files[path]))

(* The words are searched for a file before any is read as a switch, so an
   operand that is named like one is taken for it.                            *)
Asked(words, files) ==
  LET named == {i \in DOMAIN words : ~Says[words[i]].dash /\ Says[words[i]].config}
  IN  CASE (\E i \in DOMAIN words : words[i] = "-h") \/ Cardinality(named) > 1 -> Refused
        [] OTHER -> IF named = {} THEN FromSwitches(words)
                    ELSE FromFile(words, words[CHOOSE i \in named : TRUE], files)
=============================================================================
