------------------------ MODULE Apple1Startup_proofs ------------------------
(***************************************************************************)
(* What a command asks for, for command lines, files and disks of any      *)
(* size, in three parts.                                                   *)
(*                                                                         *)
(* A file and its switches: an option is set by one word or line at most,  *)
(* so that the options are known one by one, whatever the order            *)
(* (FilesMeanSwitches).                                                    *)
(*                                                                         *)
(* A command and its machine: the options, the text as it was read and the *)
(* binaries are what Apple1Bus assumes of a machine (CommandsMakeMachines).*)
(*                                                                         *)
(* A listing and RAM: the cells are unwritten until the text is loaded,    *)
(* and hold it from then on until the guest runs (ListingsAreLoaded).      *)
(***************************************************************************)
EXTENDS Apple1Startup, Apple1Bus_proofs, Recursion, FiniteSetTheorems

-----------------------------------------------------------------------------
(* Options *)

OptionNames == DOMAIN Defaults

(* What an option can be set to. *)
Settings ==
  {NoPath, 0, 1, TRUE, FALSE}
  \union UNION {{w, Says[w].before, Says[w].path, Says[w].at, Says[w].number, Says[w].truth} : w \in DOMAIN Says}

Options == [OptionNames -> Settings]

LEMMA SettingsOfWord ==
  ASSUME NEW w \in DOMAIN Says
  PROVE  /\ w \in Settings /\ Says[w].path \in Settings /\ Says[w].at \in Settings
         /\ Says[w].before \in Settings /\ Says[w].number \in Settings /\ Says[w].truth \in Settings
<1> DEFINE R(x) == {x, Says[x].before, Says[x].path, Says[x].at, Says[x].number, Says[x].truth}
<1>1. \A v \in R(w) : v \in UNION {R(x) : x \in DOMAIN Says}
  <2> HIDE DEF R
  <2> QED OBVIOUS
<1>2. Settings = {NoPath, 0, 1, TRUE, FALSE} \union UNION {R(x) : x \in DOMAIN Says}
  BY DEF Settings
<1>3. \A v \in R(w) : v \in Settings
  BY <1>1, <1>2
<1> QED
  BY <1>3

LEMMA PlainSettings ==
  NoPath \in Settings /\ 0 \in Settings /\ 1 \in Settings /\ TRUE \in Settings /\ FALSE \in Settings
BY DEF Settings

LEMMA OptionNamesAre ==
  OptionNames = {"rom", "load", "loadAt", "wozmon_txt", "flat_bin", "aci_rom", "tape_in", "tape_out",
                 "krusader", "log_file", "log_level", "baud", "speed_cap", "throttle_pia",
                 "dram_refresh", "keyboard_bounce", "randomize_ram", "flat_bus", "trace"}
BY DEF OptionNames, Defaults

LEMMA DefaultsAreOptions == Defaults \in Options
<1>1. \A k \in PathKeys \union {"load"} : Defaults[k] = NoPath
  BY DEF Defaults, PathKeys
<1>2. Defaults.loadAt = 0 /\ Defaults.baud = 0 /\ Defaults.log_level = 1
  BY DEF Defaults
<1>3. \A k \in TruthKeys : Defaults[k] = TRUE \/ Defaults[k] = FALSE
  BY DEF Defaults, TruthKeys
<1>4. OptionNames = PathKeys \union TruthKeys \union {"load", "loadAt", "baud", "log_level"}
  BY OptionNamesAre DEF PathKeys, TruthKeys
<1>5. \A k \in OptionNames : Defaults[k] \in Settings
  BY <1>1, <1>2, <1>3, <1>4, PlainSettings
<1>6. Defaults = [k \in OptionNames |-> Defaults[k]]
  BY DEF Defaults, OptionNames
<1> QED
  BY <1>5, <1>6 DEF Options

(* Setting one option after another. *)
LEMMA OptionSet ==
  ASSUME NEW o \in Options, NEW k \in OptionNames, NEW v \in Settings
  PROVE  [o EXCEPT ![k] = v] \in Options
BY DEF Options

LEMMA TwoOptionsSet ==
  ASSUME NEW o \in Options, NEW v \in Settings, NEW w \in Settings
  PROVE  /\ [o EXCEPT !.flat_bin = v, !.flat_bus = w] \in Options
         /\ [o EXCEPT !.load = v, !.loadAt = w] \in Options
BY OptionNamesAre DEF Options

LEMMA KeyIsOption ==
  PathKeys \union TruthKeys \union {"load", "loadAt", "baud", "log_level", "flat_bin", "flat_bus"} \subseteq OptionNames
BY OptionNamesAre DEF PathKeys, TruthKeys

LEMMA KeyApplied ==
  ASSUME NEW o \in Options, NEW key, NEW word \in DOMAIN Says, Accepts(key, word)
  PROVE  ApplyKey(o, key, word) \in Options
<1>1. /\ word \in Settings /\ Says[word].path \in Settings /\ Says[word].at \in Settings
      /\ Says[word].number \in Settings /\ Says[word].truth \in Settings /\ TRUE \in Settings
  BY SettingsOfWord, PlainSettings
<1>2. CASE key = "flat_bin"
  <2>1. ApplyKey(o, key, word) = [o EXCEPT !.flat_bin = word, !.flat_bus = TRUE]
    BY <1>2 DEF ApplyKey, PathKeys, TruthKeys
  <2>2. [o EXCEPT !.flat_bin = word, !.flat_bus = TRUE] \in Options
    BY <1>1, TwoOptionsSet
  <2> QED BY <2>1, <2>2
<1>3. CASE key \in PathKeys \ {"flat_bin"}
  <2>1. ApplyKey(o, key, word) = [o EXCEPT ![key] = word]
    BY <1>3 DEF ApplyKey, PathKeys, TruthKeys
  <2>2. key \in OptionNames
    BY <1>3, KeyIsOption
  <2> QED BY <1>1, <2>1, <2>2, OptionSet
<1>4. CASE key \in TruthKeys
  <2>1. ApplyKey(o, key, word) = [o EXCEPT ![key] = Says[word].truth]
    BY <1>4 DEF ApplyKey, PathKeys, TruthKeys
  <2>2. key \in OptionNames
    BY <1>4, KeyIsOption
  <2> QED BY <1>1, <2>1, <2>2, OptionSet, ZenonT(40)
<1>5. CASE key = "load"
  <2>1. ApplyKey(o, key, word) = [o EXCEPT !.load = Says[word].path, !.loadAt = Says[word].at]
    BY <1>5 DEF ApplyKey, PathKeys, TruthKeys
  <2>2. [o EXCEPT !.load = Says[word].path, !.loadAt = Says[word].at] \in Options
    BY <1>1, TwoOptionsSet
  <2> QED BY <2>1, <2>2
<1>6. CASE key \in {"baud", "log_level"}
  <2>1. ApplyKey(o, key, word) = [o EXCEPT ![key] = Says[word].number]
    BY <1>6 DEF ApplyKey, PathKeys, TruthKeys
  <2>2. key \in OptionNames
    BY <1>6, KeyIsOption
  <2> QED BY <1>1, <2>1, <2>2, OptionSet, ZenonT(40)
<1>7. key \in PathKeys \union TruthKeys \union {"load", "baud", "log_level"}
  BY DEF Accepts
<1> QED
  BY <1>2, <1>3, <1>4, <1>5, <1>6, <1>7

LEMMA FlagSet ==
  ASSUME NEW o \in Options, NEW w \in Flags
  PROVE  Flagged(o, w) \in Options
<1>1. \A k \in TruthKeys, b \in BOOLEAN : [o EXCEPT ![k] = b] \in Options
  <2> SUFFICES ASSUME NEW k \in TruthKeys, NEW b \in BOOLEAN PROVE [o EXCEPT ![k] = b] \in Options
    OBVIOUS
  <2>1. k \in OptionNames /\ b \in Settings
    BY KeyIsOption, PlainSettings
  <2> QED BY <2>1, OptionSet
<1>2. CASE w \in {"-c", "-u"}
  BY <1>1, <1>2 DEF Flagged, TruthKeys
<1>3. CASE w \in {"-F", "-p"}
  BY <1>1, <1>3 DEF Flagged, TruthKeys
<1>4. CASE w \in {"-d", "-b"}
  BY <1>1, <1>4 DEF Flagged, TruthKeys
<1>5. CASE w \in {"-s", "-t"}
  BY <1>1, <1>5 DEF Flagged, TruthKeys
<1>6. CASE w \in {"-H", "-g"}
  BY <1>6 DEF Flagged
<1> QED
  BY <1>2, <1>3, <1>4, <1>5, <1>6 DEF Flags

LEMMA OperandSet ==
  ASSUME NEW o \in Options, NEW w \in Operands, NEW word \in DOMAIN Says
  PROVE  WithOperand(o, w, word) \in Options
<1>1. /\ word \in Settings /\ Says[word].before \in Settings /\ Says[word].at \in Settings
      /\ Says[word].number \in Settings
  BY SettingsOfWord
<1>2. \A k \in PathKeys : [o EXCEPT ![k] = word] \in Options
  <2> SUFFICES ASSUME NEW k \in PathKeys PROVE [o EXCEPT ![k] = word] \in Options
    OBVIOUS
  <2>1. k \in OptionNames
    BY KeyIsOption
  <2> QED BY <1>1, <2>1, OptionSet
<1>3. CASE w \in {"-r", "-w", "-a"}
  BY <1>2, <1>3 DEF WithOperand, PathKeys
<1>4. CASE w \in {"-e", "-E"}
  BY <1>2, <1>4 DEF WithOperand, PathKeys
<1>5. CASE w \in {"-k", "-L"}
  BY <1>2, <1>5 DEF WithOperand, PathKeys
<1>6. CASE w = "-l"
  <2>1. [o EXCEPT !.load = Says[word].before, !.loadAt = Says[word].at] \in Options
    BY <1>1, TwoOptionsSet
  <2> QED BY <1>6, <2>1 DEF WithOperand
<1>7. CASE w \in {"-B", "-V"}
  <2>1. [o EXCEPT !["baud"] = Says[word].number] \in Options /\ [o EXCEPT !["log_level"] = Says[word].number] \in Options
    BY <1>1, OptionSet, KeyIsOption
  <2> QED BY <1>7, <2>1 DEF WithOperand
<1> QED
  BY <1>3, <1>4, <1>5, <1>6, <1>7 DEF Operands

-----------------------------------------------------------------------------
(* Reading a command line *)

(* Where port_getopt is when it has read so many words. *)
Reads == [options : Options, takes : {NoSwitch} \union Operands, given : SUBSET Flags,
          over : BOOLEAN, bad : BOOLEAN]

LEMMA LineStarts == LineStart \in Reads
BY DefaultsAreOptions DEF LineStart, Reads

LEMMA WordRead ==
  ASSUME NEW s \in Reads, NEW w \in DOMAIN Says
  PROVE  ReadWord(s, w) \in Reads
<1>1. CASE s.over \/ s.bad
  BY <1>1 DEF ReadWord, Reads
<1>2. CASE ~(s.over \/ s.bad) /\ s.takes # NoSwitch
  <2>1. WithOperand(s.options, s.takes, w) \in Options
    BY <1>2, OperandSet DEF Reads
  <2>2. ReadWord(s, w) = [s EXCEPT !.options = WithOperand(s.options, s.takes, w), !.takes = NoSwitch]
    BY <1>2 DEF ReadWord
  <2> QED BY <2>1, <2>2 DEF Reads
<1>3. CASE ~(s.over \/ s.bad) /\ s.takes = NoSwitch
  <2>1. CASE w \in Operands
    <3>1. ReadWord(s, w) = [s EXCEPT !.takes = w]
      BY <1>3, <2>1 DEF ReadWord, Operands, Flags
    <3> QED BY <2>1, <3>1 DEF Reads
  <2>2. CASE w \in Flags
    <3>1. ReadWord(s, w) = [s EXCEPT !.options = Flagged(s.options, w), !.given = @ \union {w}]
      BY <1>3, <2>2 DEF ReadWord, Operands, Flags
    <3>2. Flagged(s.options, w) \in Options
      BY <2>2, FlagSet DEF Reads
    <3> QED BY <2>2, <3>1, <3>2 DEF Reads
  <2>3. CASE w \notin Flags \union Operands /\ Says[w].dash
    <3>1. ReadWord(s, w) = [s EXCEPT !.bad = TRUE]
      BY <1>3, <2>3 DEF ReadWord
    <3> QED BY <3>1 DEF Reads
  <2>4. CASE w \notin Flags \union Operands /\ ~Says[w].dash
    <3>1. ReadWord(s, w) = [s EXCEPT !.options.flat_bin = w, !.options.flat_bus = TRUE, !.over = TRUE]
      BY <1>3, <2>4 DEF ReadWord
    <3>2. [s.options EXCEPT !.flat_bin = w, !.flat_bus = TRUE] \in Options
      BY TwoOptionsSet, SettingsOfWord, PlainSettings DEF Reads
    <3>3. [s EXCEPT !.options.flat_bin = w, !.options.flat_bus = TRUE, !.over = TRUE]
            = [s EXCEPT !.options = [s.options EXCEPT !.flat_bin = w, !.flat_bus = TRUE], !.over = TRUE]
      BY DEF Reads
    <3> QED BY <3>1, <3>2, <3>3 DEF Reads
  <2> QED BY <2>1, <2>2, <2>3, <2>4
<1> QED
  BY <1>1, <1>2, <1>3

(* Where it is after each word. *)
WordsRead(f, words) ==
  f[0] = LineStart /\ \A i \in 1 .. Len(words) : f[i] = ReadWord(f[i - 1], words[i])

LineOver(s) ==
  IF s.bad \/ s.takes # NoSwitch \/ {"-c", "-u"} \subseteq s.given THEN Refused ELSE Granted(s.options)

LEMMA SwitchesAreRead ==
  ASSUME NEW words \in Seq(DOMAIN Says)
  PROVE  \E f \in [0 .. Len(words) -> Reads] :
            WordsRead(f, words) /\ FromSwitches(words) = LineOver(f[Len(words)])
<1> DEFINE n == Len(words)
           step == [p \in Reads \X (1 .. n) |-> ReadWord(p[1], words[p[2]])]
           upTo[i \in 0 .. n] == IF i = 0 THEN LineStart ELSE ReadWord(upTo[i - 1], words[i])
<1>1. n \in Nat /\ \A i \in 1 .. n : words[i] \in DOMAIN Says
  BY LenProperties, ElementOfSeq
<1>2. step \in [Reads \X (1 .. n) -> Reads]
  <2>1. ASSUME NEW p \in Reads \X (1 .. n) PROVE ReadWord(p[1], words[p[2]]) \in Reads
    <3>1. p[1] \in Reads /\ words[p[2]] \in DOMAIN Says
      BY <1>1
    <3> QED BY <3>1, WordRead
  <2> QED BY <2>1
<1>3. ASSUME NEW s \in Reads, NEW i \in 1 .. n PROVE step[<<s, i>>] = ReadWord(s, words[i])
  <2>1. <<s, i>> \in Reads \X (1 .. n) /\ <<s, i>>[1] = s /\ <<s, i>>[2] = i
    OBVIOUS
  <2> QED BY <2>1
<1> HIDE DEF step
<1>4. PICK f \in [0 .. n -> Reads] : Recurs(f, n, LineStart, step)
  BY <1>1, <1>2, LineStarts, RecursionExists
<1>5. f[0] = LineStart /\ \A i \in 1 .. n : f[i] = ReadWord(f[i - 1], words[i])
  <2>1. \A i \in 1 .. n : i - 1 \in 0 .. n
    BY <1>1
  <2> QED BY <1>3, <1>4, <2>1 DEF Recurs
<1>6. upTo = [i \in 0 .. n |-> IF i = 0 THEN LineStart ELSE ReadWord(upTo[i - 1], words[i])]
  <2>1. \A i \in 0 .. n : i = 0 \/ i \in 1 .. n
    BY <1>1
  <2>2. f = [i \in 0 .. n |-> IF i = 0 THEN LineStart ELSE ReadWord(f[i - 1], words[i])]
    BY <1>5, <2>1
  <2> QED BY <2>2
<1>7. FromSwitches(words) = LineOver(upTo[n])
  BY DEF FromSwitches, LineOver, n
<1> HIDE DEF upTo
<1> DEFINE Same == {k \in 0 .. n : upTo[k] = f[k]}
<1>8. 0 \in Same
  BY <1>1, <1>5, <1>6
<1>9. ASSUME NEW k \in 0 .. n - 1, k \in Same PROVE k + 1 \in Same
  <2>1. k + 1 \in 1 .. n /\ k + 1 \in 0 .. n /\ k + 1 # 0 /\ (k + 1) - 1 = k
    BY <1>1
  <2>2. upTo[k + 1] = ReadWord(upTo[k], words[k + 1])
    BY <1>6, <2>1
  <2>3. f[k + 1] = ReadWord(f[k], words[k + 1])
    BY <1>5, <2>1
  <2> QED BY <1>9, <2>1, <2>2, <2>3
<1>10. n \in Same
  <2> HIDE DEF Same
  <2>1. \A k \in 0 .. n : k \in Same
    BY <1>1, <1>8, <1>9, BoundedInduction
  <2> QED BY <1>1, <2>1
<1>11. WordsRead(f, words) /\ FromSwitches(words) = LineOver(f[n])
  BY <1>5, <1>7, <1>10 DEF WordsRead
<1> QED
  BY <1>11

(* What has been set after each line of a file. *)
LinesApplied(f, lines) ==
  /\ f[0] = Defaults
  /\ \A i \in 1 .. Len(lines) : f[i] = ApplyKey(f[i - 1], lines[i].key, lines[i].value)

IsLines(lines) == lines \in Seq([key : STRING, value : DOMAIN Says])

LEMMA LinesAreApplied ==
  ASSUME NEW lines, IsLines(lines), FileAccepted(lines)
  PROVE  \E f \in [0 .. Len(lines) -> Options] :
            LinesApplied(f, lines) /\ FileOptions(lines) = f[Len(lines)]
<1> DEFINE n == Len(lines)
           step == [p \in Options \X (1 .. n) |-> ApplyKey(p[1], lines[p[2]].key, lines[p[2]].value)]
           upTo[i \in 0 .. n] ==
             IF i = 0 THEN Defaults ELSE ApplyKey(upTo[i - 1], lines[i].key, lines[i].value)
<1>1. n \in Nat /\ \A i \in 1 .. n : lines[i].value \in DOMAIN Says /\ Accepts(lines[i].key, lines[i].value)
  <2>1. n \in Nat /\ DOMAIN lines = 1 .. n
    BY LenProperties DEF IsLines
  <2>2. ASSUME NEW i \in 1 .. n PROVE lines[i].value \in DOMAIN Says
    <3>1. lines[i] \in [key : STRING, value : DOMAIN Says]
      BY ElementOfSeq DEF IsLines
    <3> QED BY <3>1
  <2> QED BY <2>1, <2>2 DEF FileAccepted
<1>2. step \in [Options \X (1 .. n) -> Options]
  <2>1. ASSUME NEW p \in Options \X (1 .. n) PROVE ApplyKey(p[1], lines[p[2]].key, lines[p[2]].value) \in Options
    <3>1. p[1] \in Options /\ p[2] \in 1 .. n
      OBVIOUS
    <3> QED BY <1>1, <3>1, KeyApplied
  <2> QED BY <2>1
<1>3. ASSUME NEW o \in Options, NEW i \in 1 .. n
      PROVE  step[<<o, i>>] = ApplyKey(o, lines[i].key, lines[i].value)
  <2>1. <<o, i>> \in Options \X (1 .. n) /\ <<o, i>>[1] = o /\ <<o, i>>[2] = i
    OBVIOUS
  <2> QED BY <2>1
<1> HIDE DEF step
<1>4. PICK f \in [0 .. n -> Options] : Recurs(f, n, Defaults, step)
  BY <1>1, <1>2, DefaultsAreOptions, RecursionExists
<1>5. f[0] = Defaults /\ \A i \in 1 .. n : f[i] = ApplyKey(f[i - 1], lines[i].key, lines[i].value)
  <2>1. \A i \in 1 .. n : i - 1 \in 0 .. n
    BY <1>1
  <2> QED BY <1>3, <1>4, <2>1 DEF Recurs
<1>6. upTo = [i \in 0 .. n |-> IF i = 0 THEN Defaults
                               ELSE ApplyKey(upTo[i - 1], lines[i].key, lines[i].value)]
  <2>1. \A i \in 0 .. n : i = 0 \/ i \in 1 .. n
    BY <1>1
  <2>2. f = [i \in 0 .. n |-> IF i = 0 THEN Defaults
                              ELSE ApplyKey(f[i - 1], lines[i].key, lines[i].value)]
    BY <1>5, <2>1
  <2> QED BY <2>2
<1>7. FileOptions(lines) = upTo[n]
  BY DEF FileOptions, n
<1> HIDE DEF upTo
<1> DEFINE Same == {k \in 0 .. n : upTo[k] = f[k]}
<1>8. 0 \in Same
  BY <1>1, <1>5, <1>6
<1>9. ASSUME NEW k \in 0 .. n - 1, k \in Same PROVE k + 1 \in Same
  <2>1. k + 1 \in 1 .. n /\ k + 1 \in 0 .. n /\ k + 1 # 0 /\ (k + 1) - 1 = k
    BY <1>1
  <2>2. upTo[k + 1] = ApplyKey(upTo[k], lines[k + 1].key, lines[k + 1].value)
    BY <1>6, <2>1
  <2>3. f[k + 1] = ApplyKey(f[k], lines[k + 1].key, lines[k + 1].value)
    BY <1>5, <2>1
  <2> QED BY <1>9, <2>1, <2>2, <2>3
<1>10. n \in Same
  <2> HIDE DEF Same
  <2>1. \A k \in 0 .. n : k \in Same
    BY <1>1, <1>8, <1>9, BoundedInduction
  <2> QED BY <1>1, <2>1
<1>11. LinesApplied(f, lines) /\ FileOptions(lines) = f[n]
  BY <1>5, <1>7, <1>10 DEF LinesApplied
<1> QED
  BY <1>11

-----------------------------------------------------------------------------
(* A file and its switches *)

(* Between two switches. *)
Between(o, given) == [options |-> o, takes |-> NoSwitch, given |-> given, over |-> FALSE, bad |-> FALSE]

LEMMA FlagBetween ==
  ASSUME NEW o, NEW given, NEW w \in Flags
  PROVE  ReadWord(Between(o, given), w) = Between(Flagged(o, w), given \union {w})
BY DEF ReadWord, Between, Flags, Operands, NoSwitch

LEMMA OperandBetween ==
  ASSUME NEW o, NEW given, NEW w \in Operands, NEW word
  PROVE  ReadWord(ReadWord(Between(o, given), w), word) = Between(WithOperand(o, w, word), given)
<1> DEFINE s == [options |-> o, takes |-> w, given |-> given, over |-> FALSE, bad |-> FALSE]
<1>1. ReadWord(Between(o, given), w) = s
  BY DEF ReadWord, Between, Flags, Operands, NoSwitch
<1>2. s.takes # NoSwitch
  BY DEF Operands, NoSwitch
<1>3. ReadWord(s, word) = [s EXCEPT !.options = WithOperand(s.options, s.takes, word), !.takes = NoSwitch]
  BY <1>2 DEF ReadWord
<1> QED
  BY <1>1, <1>3 DEF Between

(* Setting an option to what it is. *)
LEMMA OptionKept ==
  ASSUME NEW o \in Options, NEW k, NEW v, o[k] = v
  PROVE  [o EXCEPT ![k] = v] = o
BY DEF Options

LEMMA WordReads ==
  ASSUME NEW w \in DOMAIN Says
  PROVE  /\ Says[w].truth \in BOOLEAN /\ Says[w].dash \in BOOLEAN /\ Says[w].config \in BOOLEAN
         /\ Says[w].number \in Int /\ Says[w].at \in Addresses
<1>1. Says[w] \in Readings
  BY WordsAssumption
<1> QED
  BY <1>1 DEF Readings

LEMMA TruthApplied ==
  ASSUME NEW o, NEW key \in TruthKeys, NEW word
  PROVE  ApplyKey(o, key, word) = [o EXCEPT ![key] = Says[word].truth]
BY DEF ApplyKey, PathKeys, TruthKeys

(* A line sets what its switches set, where the option they would leave alone
   is as it was at the start. *)
SaysLine(o, l) ==
  \/ SwitchesFor(l) = <<>> /\ ApplyKey(o, l.key, l.value) = o
  \/ \E w \in Flags : /\ SwitchesFor(l) = <<w>> /\ ApplyKey(o, l.key, l.value) = Flagged(o, w)
                      /\ w \in {"-c", "-u"} => l.key = "speed_cap"
  \/ \E w \in Operands : /\ SwitchesFor(l) = <<w, OperandOf(l)>>
                         /\ ApplyKey(o, l.key, l.value) = WithOperand(o, w, OperandOf(l))

(* The operand of a load reads as the line's value does. *)
LEMMA OperandReads ==
  ASSUME NEW l, l.value \in DOMAIN Says, Accepts(l.key, l.value)
  PROVE  /\ OperandOf(l) \in DOMAIN Says
         /\ l.key # "load" => OperandOf(l) = l.value
         /\ l.key = "load" => LET word == Says[OperandOf(l)]
                              IN  /\ word.hasAt /\ word.before = Says[l.value].path
                                  /\ word.at = Says[l.value].at
<1>1. l.key # "load" => OperandOf(l) = l.value
  BY DEF OperandOf
<1>2. CASE l.key = "load"
  <2>1. OperandOf(l) = Says[l.value].joined
    BY <1>2 DEF OperandOf
  <2>2. Says[l.value].hasAt
    BY <1>2 DEF Accepts, PathKeys, TruthKeys
  <2>3. Says[l.value] \in Readings
    BY WordsAssumption
  <2>4. Says[l.value].joined \in DOMAIN Says
    BY <2>3 DEF Readings
  <2>5. LET word == Says[Says[l.value].joined]
        IN  word.hasAt /\ word.before = Says[l.value].path /\ word.at = Says[l.value].at
    BY <2>2, WordsAssumption
  <2> QED
    BY <1>2, <2>1, <2>4, <2>5
<1> QED
  BY <1>1, <1>2

LEMMA SwitchesSayLine ==
  ASSUME NEW o \in Options, NEW l, l.value \in DOMAIN Says, Accepts(l.key, l.value), l.key # "flat_bin",
         l.key \in TruthKeys => o[l.key] = Defaults[l.key]
  PROVE  SaysLine(o, l)
<1>1. \A k \in PathKeys \ {"flat_bin"} : \A word : ApplyKey(o, k, word) = [o EXCEPT ![k] = word]
  BY DEF ApplyKey, PathKeys, TruthKeys
<1>2. ASSUME NEW w \in Operands, SwitchesFor(l) = <<w, l.value>>,
             l.key \in PathKeys \ {"flat_bin"}, WithOperand(o, w, l.value) = [o EXCEPT ![l.key] = l.value]
      PROVE  SaysLine(o, l)
  <2>1. ApplyKey(o, l.key, l.value) = WithOperand(o, w, l.value)
    BY <1>1, <1>2
  <2>2. OperandOf(l) = l.value
    BY <1>2 DEF OperandOf, PathKeys
  <2> QED
    BY <1>2, <2>1, <2>2 DEF SaysLine
<1>3. ASSUME NEW k \in PathKeys \ {"flat_bin"}, l.key = k
      PROVE  SaysLine(o, l)
  <2>1. CASE k = "rom"
    <3>1. SwitchesFor(l) = <<"-r", l.value>>
      BY <1>3, <2>1 DEF SwitchesFor
    <3>2. WithOperand(o, "-r", l.value) = [o EXCEPT ![l.key] = l.value]
      BY <1>3, <2>1 DEF WithOperand
    <3> QED BY <1>2, <1>3, <3>1, <3>2 DEF Operands
  <2>2. CASE k = "wozmon_txt"
    <3>1. SwitchesFor(l) = <<"-w", l.value>>
      BY <1>3, <2>2 DEF SwitchesFor
    <3>2. WithOperand(o, "-w", l.value) = [o EXCEPT ![l.key] = l.value]
      BY <1>3, <2>2 DEF WithOperand
    <3> QED BY <1>2, <1>3, <3>1, <3>2 DEF Operands
  <2>3. CASE k = "aci_rom"
    <3>1. SwitchesFor(l) = <<"-a", l.value>>
      BY <1>3, <2>3 DEF SwitchesFor
    <3>2. WithOperand(o, "-a", l.value) = [o EXCEPT ![l.key] = l.value]
      BY <1>3, <2>3 DEF WithOperand
    <3> QED BY <1>2, <1>3, <3>1, <3>2 DEF Operands
  <2>4. CASE k = "tape_in"
    <3>1. SwitchesFor(l) = <<"-e", l.value>>
      BY <1>3, <2>4 DEF SwitchesFor
    <3>2. WithOperand(o, "-e", l.value) = [o EXCEPT ![l.key] = l.value]
      BY <1>3, <2>4 DEF WithOperand
    <3> QED BY <1>2, <1>3, <3>1, <3>2 DEF Operands
  <2>5. CASE k = "tape_out"
    <3>1. SwitchesFor(l) = <<"-E", l.value>>
      BY <1>3, <2>5 DEF SwitchesFor
    <3>2. WithOperand(o, "-E", l.value) = [o EXCEPT ![l.key] = l.value]
      BY <1>3, <2>5 DEF WithOperand
    <3> QED BY <1>2, <1>3, <3>1, <3>2 DEF Operands
  <2>6. CASE k = "krusader"
    <3>1. SwitchesFor(l) = <<"-k", l.value>>
      BY <1>3, <2>6 DEF SwitchesFor
    <3>2. WithOperand(o, "-k", l.value) = [o EXCEPT ![l.key] = l.value]
      BY <1>3, <2>6 DEF WithOperand
    <3> QED BY <1>2, <1>3, <3>1, <3>2 DEF Operands
  <2>7. CASE k = "log_file"
    <3>1. SwitchesFor(l) = <<"-L", l.value>>
      BY <1>3, <2>7 DEF SwitchesFor
    <3>2. WithOperand(o, "-L", l.value) = [o EXCEPT ![l.key] = l.value]
      BY <1>3, <2>7 DEF WithOperand
    <3> QED BY <1>2, <1>3, <3>1, <3>2 DEF Operands
  <2> QED
    BY <2>1, <2>2, <2>3, <2>4, <2>5, <2>6, <2>7 DEF PathKeys
<1>4. CASE l.key = "load"
  <2> DEFINE word == OperandOf(l)
  <2>1. Says[word].hasAt /\ Says[word].before = Says[l.value].path /\ Says[word].at = Says[l.value].at
    BY <1>4, OperandReads
  <2>2. SwitchesFor(l) = <<"-l", word>>
    BY <1>4 DEF SwitchesFor
  <2>3. ApplyKey(o, l.key, l.value) = [o EXCEPT !.load = Says[l.value].path, !.loadAt = Says[l.value].at]
    BY <1>4 DEF ApplyKey, PathKeys, TruthKeys
  <2> HIDE DEF word
  <2>4. WithOperand(o, "-l", word) = [o EXCEPT !.load = Says[word].before, !.loadAt = Says[word].at]
    BY <2>1 DEF WithOperand
  <2>5. ApplyKey(o, l.key, l.value) = WithOperand(o, "-l", word)
    BY <2>1, <2>3, <2>4
  <2> QED
    BY <2>2, <2>5 DEF SaysLine, Operands, word
<1>5. CASE l.key = "baud"
  BY <1>5 DEF SaysLine, OperandOf, SwitchesFor, ApplyKey, WithOperand, Operands, PathKeys, TruthKeys, Accepts
<1>6. CASE l.key = "log_level"
  BY <1>6 DEF SaysLine, OperandOf, SwitchesFor, ApplyKey, WithOperand, Operands, PathKeys, TruthKeys, Accepts
<1>7. CASE l.key \in TruthKeys
  <2> DEFINE t == Says[l.value].truth
  <2>1. t \in BOOLEAN
    BY WordReads
  <2>2. ApplyKey(o, l.key, l.value) = [o EXCEPT ![l.key] = t]
    <3> DEFINE key == l.key
               word == l.value
    <3>1. key \in TruthKeys
      BY <1>7
    <3> HIDE DEF key, word
    <3>2. ApplyKey(o, key, word) = [o EXCEPT ![key] = Says[word].truth]
      BY <3>1, TruthApplied, ZenonT(40)
    <3> QED BY <3>2 DEF key, word
  <2>3. o[l.key] = t => ApplyKey(o, l.key, l.value) = o
    BY <2>2, OptionKept
  <2> HIDE DEF t
  <2>4. CASE l.key = "speed_cap"
    <3>1. CASE t
      <4>1. SwitchesFor(l) = <<"-c">>
        BY <2>4, <3>1 DEF SwitchesFor, t
      <4>2. Flagged(o, "-c") = [o EXCEPT ![l.key] = t]
        BY <2>1, <2>4, <3>1 DEF Flagged
      <4> QED BY <2>2, <2>4, <4>1, <4>2 DEF SaysLine, Flags
    <3>2. CASE ~t
      <4>1. SwitchesFor(l) = <<"-u">>
        BY <2>4, <3>2 DEF SwitchesFor, t
      <4>2. Flagged(o, "-u") = [o EXCEPT ![l.key] = t]
        BY <2>1, <2>4, <3>2 DEF Flagged
      <4> QED BY <2>2, <2>4, <4>1, <4>2 DEF SaysLine, Flags
    <3> QED BY <3>1, <3>2
  <2>5. CASE l.key = "flat_bus"
    <3>1. CASE t
      <4>1. SwitchesFor(l) = <<"-F">>
        BY <2>5, <3>1 DEF SwitchesFor, t
      <4>2. Flagged(o, "-F") = [o EXCEPT ![l.key] = t]
        BY <2>1, <2>5, <3>1 DEF Flagged
      <4> QED BY <2>2, <4>1, <4>2 DEF SaysLine, Flags
    <3>2. CASE ~t
      <4>1. SwitchesFor(l) = <<>>
        BY <2>5, <3>2 DEF SwitchesFor, t
      <4>2. Defaults[l.key] = FALSE
        BY <2>5 DEF Defaults
      <4>3. o[l.key] = t
        BY <1>7, <2>1, <3>2, <4>2
      <4> QED BY <2>3, <4>1, <4>3 DEF SaysLine
    <3> QED BY <3>1, <3>2
  <2>6. CASE l.key = "throttle_pia"
    <3>1. CASE ~t
      <4>1. SwitchesFor(l) = <<"-p">>
        BY <2>6, <3>1 DEF SwitchesFor, t
      <4>2. Flagged(o, "-p") = [o EXCEPT ![l.key] = t]
        BY <2>1, <2>6, <3>1 DEF Flagged
      <4> QED BY <2>2, <4>1, <4>2 DEF SaysLine, Flags
    <3>2. CASE t
      <4>1. SwitchesFor(l) = <<>>
        BY <2>6, <3>2 DEF SwitchesFor, t
      <4>2. Defaults[l.key] = TRUE
        BY <2>6 DEF Defaults
      <4>3. o[l.key] = t
        BY <1>7, <2>1, <3>2, <4>2
      <4> QED BY <2>3, <4>1, <4>3 DEF SaysLine
    <3> QED BY <3>1, <3>2
  <2>7. CASE l.key = "dram_refresh"
    <3>1. CASE t
      <4>1. SwitchesFor(l) = <<"-d">>
        BY <2>7, <3>1 DEF SwitchesFor, t
      <4>2. Flagged(o, "-d") = [o EXCEPT ![l.key] = t]
        BY <2>1, <2>7, <3>1 DEF Flagged
      <4> QED BY <2>2, <4>1, <4>2 DEF SaysLine, Flags
    <3>2. CASE ~t
      <4>1. SwitchesFor(l) = <<>>
        BY <2>7, <3>2 DEF SwitchesFor, t
      <4>2. Defaults[l.key] = FALSE
        BY <2>7 DEF Defaults
      <4>3. o[l.key] = t
        BY <1>7, <2>1, <3>2, <4>2
      <4> QED BY <2>3, <4>1, <4>3 DEF SaysLine
    <3> QED BY <3>1, <3>2
  <2>8. CASE l.key = "keyboard_bounce"
    <3>1. CASE t
      <4>1. SwitchesFor(l) = <<"-b">>
        BY <2>8, <3>1 DEF SwitchesFor, t
      <4>2. Flagged(o, "-b") = [o EXCEPT ![l.key] = t]
        BY <2>1, <2>8, <3>1 DEF Flagged
      <4> QED BY <2>2, <4>1, <4>2 DEF SaysLine, Flags
    <3>2. CASE ~t
      <4>1. SwitchesFor(l) = <<>>
        BY <2>8, <3>2 DEF SwitchesFor, t
      <4>2. Defaults[l.key] = FALSE
        BY <2>8 DEF Defaults
      <4>3. o[l.key] = t
        BY <1>7, <2>1, <3>2, <4>2
      <4> QED BY <2>3, <4>1, <4>3 DEF SaysLine
    <3> QED BY <3>1, <3>2
  <2>9. CASE l.key = "randomize_ram"
    <3>1. CASE ~t
      <4>1. SwitchesFor(l) = <<"-s">>
        BY <2>9, <3>1 DEF SwitchesFor, t
      <4>2. Flagged(o, "-s") = [o EXCEPT ![l.key] = t]
        BY <2>1, <2>9, <3>1 DEF Flagged
      <4> QED BY <2>2, <4>1, <4>2 DEF SaysLine, Flags
    <3>2. CASE t
      <4>1. SwitchesFor(l) = <<>>
        BY <2>9, <3>2 DEF SwitchesFor, t
      <4>2. Defaults[l.key] = TRUE
        BY <2>9 DEF Defaults
      <4>3. o[l.key] = t
        BY <1>7, <2>1, <3>2, <4>2
      <4> QED BY <2>3, <4>1, <4>3 DEF SaysLine
    <3> QED BY <3>1, <3>2
  <2>10. CASE l.key = "trace"
    <3>1. CASE t
      <4>1. SwitchesFor(l) = <<"-t">>
        BY <2>10, <3>1 DEF SwitchesFor, t
      <4>2. Flagged(o, "-t") = [o EXCEPT ![l.key] = t]
        BY <2>1, <2>10, <3>1 DEF Flagged
      <4> QED BY <2>2, <4>1, <4>2 DEF SaysLine, Flags
    <3>2. CASE ~t
      <4>1. SwitchesFor(l) = <<>>
        BY <2>10, <3>2 DEF SwitchesFor, t
      <4>2. Defaults[l.key] = FALSE
        BY <2>10 DEF Defaults
      <4>3. o[l.key] = t
        BY <1>7, <2>1, <3>2, <4>2
      <4> QED BY <2>3, <4>1, <4>3 DEF SaysLine
    <3> QED BY <3>1, <3>2
  <2> QED
    BY <1>7, <2>4, <2>5, <2>6, <2>7, <2>8, <2>9, <2>10 DEF TruthKeys
<1> QED
  BY <1>3, <1>4, <1>5, <1>6, <1>7 DEF Accepts, PathKeys

(* A setting leaves the others alone, the binary aside. *)
LEMMA OthersKept ==
  ASSUME NEW o \in Options, NEW key, NEW word \in DOMAIN Says, Accepts(key, word), key # "flat_bin",
         NEW other \in TruthKeys, other # key
  PROVE  ApplyKey(o, key, word)[other] = o[other]
<1>1. other \in DOMAIN o
  BY KeyIsOption DEF Options
<1>2. CASE key \in PathKeys \ {"flat_bin"}
  <2>1. ApplyKey(o, key, word) = [o EXCEPT ![key] = word]
    BY <1>2 DEF ApplyKey, PathKeys, TruthKeys
  <2> QED BY <1>1, <2>1
<1>3. CASE key \in TruthKeys
  <2>1. ApplyKey(o, key, word) = [o EXCEPT ![key] = Says[word].truth]
    BY <1>3, TruthApplied
  <2> QED BY <1>1, <2>1
<1>4. CASE key = "load"
  <2>1. ApplyKey(o, key, word) = [o EXCEPT !.load = Says[word].path, !.loadAt = Says[word].at]
    BY <1>4 DEF ApplyKey, PathKeys, TruthKeys
  <2>2. other # "load" /\ other # "loadAt"
    BY DEF TruthKeys
  <2> QED BY <1>1, <2>1, <2>2
<1>5. CASE key \in {"baud", "log_level"}
  <2>1. ApplyKey(o, key, word) = [o EXCEPT ![key] = Says[word].number]
    BY <1>5 DEF ApplyKey, PathKeys, TruthKeys
  <2> QED BY <1>1, <2>1
<1> QED
  BY <1>2, <1>3, <1>4, <1>5 DEF Accepts

(* A binary may be put in before a setting or behind it. *)
BinaryPut(o, path) == [o EXCEPT !.flat_bin = path, !.flat_bus = TRUE]

Changed(o, k, v) == [o EXCEPT ![k] = v]

LEMMA SetBehindBinary ==
  ASSUME NEW o \in Options, NEW k, NEW v, NEW path, k \notin {"flat_bin", "flat_bus"}
  PROVE  Changed(BinaryPut(o, path), k, v) = BinaryPut(Changed(o, k, v), path)
BY DEF BinaryPut, Changed, Options

LEMMA FlatBehindBinary ==
  ASSUME NEW o \in Options, NEW path
  PROVE  Changed(BinaryPut(o, path), "flat_bus", TRUE) = BinaryPut(Changed(o, "flat_bus", TRUE), path)
BY DEF BinaryPut, Changed, Options

LEMMA BinaryPutLast ==
  ASSUME NEW o \in Options, NEW key, NEW word \in DOMAIN Says, Accepts(key, word), key # "flat_bin",
         key = "flat_bus" => Says[word].truth, NEW path
  PROVE  ApplyKey(BinaryPut(o, path), key, word) = BinaryPut(ApplyKey(o, key, word), path)
<1> DEFINE number == Says[word].number
           truth  == Says[word].truth
           from   == Says[word].path
           at     == Says[word].at
<1>1. CASE key \in PathKeys \ {"flat_bin"}
  <2>1. \A p : ApplyKey(p, key, word) = Changed(p, key, word)
    BY <1>1 DEF ApplyKey, PathKeys, TruthKeys, Changed
  <2>2. key # "flat_bin" /\ key # "flat_bus"
    BY <1>1 DEF PathKeys
  <2> QED BY <2>1, <2>2, SetBehindBinary
<1>2. CASE key \in TruthKeys
  <2>1. \A p : ApplyKey(p, key, word) = Changed(p, key, truth)
    BY <1>2, TruthApplied DEF Changed
  <2>2. key = "flat_bus" => truth = TRUE
    BY WordReads
  <2> HIDE DEF truth
  <2>3. CASE key = "flat_bus"
    BY <2>1, <2>2, <2>3, FlatBehindBinary
  <2>4. CASE key # "flat_bus"
    BY <2>1, <2>4, SetBehindBinary
  <2> QED BY <2>3, <2>4
<1>3. CASE key = "load"
  <2>1. \A p : ApplyKey(p, key, word) = Changed(Changed(p, "load", from), "loadAt", at)
    BY <1>3 DEF ApplyKey, PathKeys, TruthKeys, Changed
  <2>2. Changed(o, "load", from) \in Options
    BY SettingsOfWord, OptionSet, KeyIsOption DEF Changed
  <2> HIDE DEF from, at
  <2>3. Changed(BinaryPut(o, path), "load", from) = BinaryPut(Changed(o, "load", from), path)
    BY SetBehindBinary
  <2>4. Changed(BinaryPut(Changed(o, "load", from), path), "loadAt", at)
          = BinaryPut(Changed(Changed(o, "load", from), "loadAt", at), path)
    BY <2>2, SetBehindBinary
  <2> QED BY <2>1, <2>3, <2>4
<1>4. CASE key \in {"baud", "log_level"}
  <2>1. \A p : ApplyKey(p, key, word) = Changed(p, key, number)
    BY <1>4 DEF ApplyKey, PathKeys, TruthKeys, Changed
  <2>2. key # "flat_bin" /\ key # "flat_bus"
    BY <1>4
  <2> HIDE DEF number
  <2> QED BY <2>1, <2>2, SetBehindBinary
<1> QED
  BY <1>1, <1>2, <1>3, <1>4 DEF Accepts

(* What the switches of the first k lines have set and what these lines have
   set differ only by the binary, which is not yet put in. *)
Unset(lines, k, key) == \A j \in 1 .. k : lines[j].key # key

Agrees(lines, k, o, given, set) ==
  /\ \A key \in TruthKeys : Unset(lines, k, key) => o[key] = Defaults[key]
  /\ Unset(lines, k, "speed_cap") => "-c" \notin given /\ "-u" \notin given
  /\ ~({"-c", "-u"} \subseteq given)
  /\ set = IF Unset(lines, k, "flat_bin") THEN o ELSE BinaryPut(o, FlatBinary(lines)[1])

LEMMA BinaryOfLines ==
  ASSUME NEW lines, IsLines(lines), Plainly(lines), NEW k \in 1 .. Len(lines), lines[k].key = "flat_bin"
  PROVE  FlatBinary(lines) = <<lines[k].value>>
<1> DEFINE flat == {i \in DOMAIN lines : lines[i].key = "flat_bin"}
<1>1. DOMAIN lines = 1 .. Len(lines)
  BY LenProperties DEF IsLines
<1>2. flat = {k}
  BY <1>1 DEF Plainly
<1>3. (CHOOSE i \in flat : TRUE) = k
  BY <1>2
<1>4. FlatBinary(lines) = IF flat = {} THEN <<>> ELSE <<lines[CHOOSE i \in flat : TRUE].value>>
  BY DEF FlatBinary
<1> HIDE DEF flat
<1> QED
  BY <1>2, <1>3, <1>4

LEMMA NoBinary ==
  ASSUME NEW lines, IsLines(lines), Unset(lines, Len(lines), "flat_bin")
  PROVE  FlatBinary(lines) = <<>>
<1>1. DOMAIN lines = 1 .. Len(lines)
  BY LenProperties DEF IsLines
<1> QED
  BY <1>1 DEF FlatBinary, Unset

LEMMA LineOf ==
  ASSUME NEW lines, IsLines(lines), FileAccepted(lines), Plainly(lines), NEW k \in 1 .. Len(lines)
  PROVE  /\ lines[k].value \in DOMAIN Says /\ Accepts(lines[k].key, lines[k].value)
         /\ \A j \in 1 .. Len(lines) : lines[j].key = lines[k].key => j = k
         /\ LET word == OperandOf(lines[k])
            IN  word \in DOMAIN Says /\ word # "-h" /\ (Says[word].config => Says[word].dash)
         /\ lines[k].key = "flat_bin" =>
              OperandOf(lines[k]) = lines[k].value /\ ~Says[lines[k].value].dash
         /\ lines[k].key = "flat_bus" /\ FlatBinary(lines) # <<>> => Says[lines[k].value].truth
<1>1. DOMAIN lines = 1 .. Len(lines)
  BY LenProperties DEF IsLines
<1>2. lines[k] \in [key : STRING, value : DOMAIN Says]
  BY ElementOfSeq DEF IsLines
<1>3. lines[k].value \in DOMAIN Says /\ Accepts(lines[k].key, lines[k].value)
  BY <1>1, <1>2 DEF FileAccepted
<1>4. OperandOf(lines[k]) \in DOMAIN Says /\ (lines[k].key # "load" => OperandOf(lines[k]) = lines[k].value)
  BY <1>3, OperandReads
<1> QED
  BY <1>1, <1>3, <1>4 DEF Plainly

(* Reading the switches of a line, from one state between switches to the next. *)
SwitchesRead(run, o, given, next, nextGiven) ==
  \/ run = <<>> /\ next = o /\ nextGiven = given
  \/ \E w \in Flags : run = <<w>> /\ ReadWord(Between(o, given), w) = Between(next, nextGiven)
  \/ \E w \in Operands, word \in DOMAIN Says :
       run = <<w, word>> /\ ReadWord(ReadWord(Between(o, given), w), word) = Between(next, nextGiven)

Followed(lines, k, o, given, set, next, nextGiven) ==
  /\ Agrees(lines, k, next, nextGiven, ApplyKey(set, lines[k].key, lines[k].value))
  /\ SwitchesRead(SwitchesFor(lines[k]), o, given, next, nextGiven)

LEMMA LineFollows ==
  ASSUME NEW lines, IsLines(lines), FileAccepted(lines), Plainly(lines), NEW k \in 1 .. Len(lines),
         NEW o \in Options, NEW given \in SUBSET Flags, NEW set, Agrees(lines, k - 1, o, given, set)
  PROVE  \E next \in Options, nextGiven \in SUBSET Flags :
            Followed(lines, k, o, given, set, next, nextGiven)
<1> DEFINE key  == lines[k].key
           word == lines[k].value
           operand == OperandOf(lines[k])
           path == FlatBinary(lines)[1]
<1>1. /\ word \in DOMAIN Says /\ Accepts(key, word) /\ operand \in DOMAIN Says
      /\ \A j \in 1 .. Len(lines) : lines[j].key = key => j = k
  BY LineOf
<1>2. ASSUME NEW other PROVE Unset(lines, k, other) <=> Unset(lines, k - 1, other) /\ other # key
  BY DEF Unset
<1>3. Unset(lines, k - 1, key)
  BY <1>1 DEF Unset
<1>4. CASE key = "flat_bin"
  <2>1. FlatBinary(lines) = <<word>>
    BY <1>4, BinaryOfLines
  <2>2. set = o
    BY <1>3, <1>4 DEF Agrees
  <2>3. ApplyKey(set, key, word) = BinaryPut(o, path)
    BY <1>4, <2>1, <2>2 DEF ApplyKey, PathKeys, TruthKeys, BinaryPut
  <2>4. ~Unset(lines, k, "flat_bin")
    BY <1>2, <1>4
  <2>5. Agrees(lines, k, o, given, ApplyKey(set, key, word))
    BY <1>2, <2>3, <2>4 DEF Agrees
  <2>6. SwitchesFor(lines[k]) = <<>>
    BY <1>4 DEF SwitchesFor
  <2> QED
    BY <2>5, <2>6 DEF SwitchesRead, Followed
<1>5. CASE key # "flat_bin"
  <2> DEFINE next == ApplyKey(o, key, word)
  <2>1. next \in Options
    BY <1>1, KeyApplied
  <2>2. key \in TruthKeys => o[key] = Defaults[key]
    BY <1>3 DEF Agrees
  <2>3. SaysLine(o, lines[k])
    BY <1>1, <1>5, <2>2, SwitchesSayLine
  <2>4. ASSUME NEW other \in TruthKeys, Unset(lines, k, other) PROVE next[other] = Defaults[other]
    <3>1. Unset(lines, k - 1, other) /\ other # key
      BY <1>2, <2>4
    <3> QED BY <1>1, <1>5, <3>1, OthersKept DEF Agrees
  <2>5. ApplyKey(set, key, word)
          = IF Unset(lines, k, "flat_bin") THEN next ELSE BinaryPut(next, path)
    <3>1. CASE Unset(lines, k - 1, "flat_bin")
      BY <1>2, <1>5, <3>1 DEF Agrees
    <3>2. CASE ~Unset(lines, k - 1, "flat_bin")
      <4>1. PICK j \in 1 .. k - 1 : lines[j].key = "flat_bin"
        BY <3>2 DEF Unset
      <4>2. FlatBinary(lines) # <<>>
        <5>1. j \in 1 .. Len(lines)
          BY <4>1
        <5>2. FlatBinary(lines) = <<lines[j].value>>
          BY <4>1, <5>1, BinaryOfLines
        <5> QED BY <5>2
      <4>3. key = "flat_bus" => Says[word].truth
        BY <4>2, LineOf
      <4>4. ApplyKey(BinaryPut(o, path), key, word) = BinaryPut(next, path)
        BY <1>1, <1>5, <4>3, BinaryPutLast
      <4> QED BY <1>2, <3>2, <4>4 DEF Agrees
    <3> QED BY <3>1, <3>2
  <2>6. ASSUME NEW nextGiven \in SUBSET Flags,
               Unset(lines, k, "speed_cap") => "-c" \notin nextGiven /\ "-u" \notin nextGiven,
               ~({"-c", "-u"} \subseteq nextGiven),
               SwitchesRead(SwitchesFor(lines[k]), o, given, next, nextGiven)
        PROVE  \E n \in Options, g \in SUBSET Flags : Followed(lines, k, o, given, set, n, g)
    <3>1. Agrees(lines, k, next, nextGiven, ApplyKey(set, key, word))
      BY <2>4, <2>5, <2>6 DEF Agrees
    <3>2. Followed(lines, k, o, given, set, next, nextGiven)
      BY <2>6, <3>1 DEF Followed
    <3> QED BY <2>1, <3>2
  <2> HIDE DEF next
  <2>7. CASE SwitchesFor(lines[k]) = <<>> /\ next = o
    <3>1. SwitchesRead(SwitchesFor(lines[k]), o, given, next, given)
      BY <2>7 DEF SwitchesRead
    <3>2. Unset(lines, k, "speed_cap") => "-c" \notin given /\ "-u" \notin given
      BY <1>2 DEF Agrees
    <3> QED BY <2>6, <3>1, <3>2 DEF Agrees
  <2>8. ASSUME NEW w \in Flags, SwitchesFor(lines[k]) = <<w>>, next = Flagged(o, w),
               w \in {"-c", "-u"} => key = "speed_cap"
        PROVE  \E n \in Options, g \in SUBSET Flags : Followed(lines, k, o, given, set, n, g)
    <3>1. ReadWord(Between(o, given), w) = Between(next, given \union {w})
      BY <2>8, FlagBetween
    <3>2. SwitchesRead(SwitchesFor(lines[k]), o, given, next, given \union {w})
      BY <2>8, <3>1 DEF SwitchesRead
    <3>3. /\ Unset(lines, k, "speed_cap") => "-c" \notin given \union {w} /\ "-u" \notin given \union {w}
          /\ ~({"-c", "-u"} \subseteq given \union {w})
      <4>1. CASE w \in {"-c", "-u"}
        <5>1. "-c" \notin given /\ "-u" \notin given
          BY <1>3, <2>8, <4>1 DEF Agrees
        <5>2. ~Unset(lines, k, "speed_cap")
          BY <1>2, <2>8, <4>1
        <5> QED BY <4>1, <5>1, <5>2
      <4>2. CASE w \notin {"-c", "-u"}
        <5>1. Unset(lines, k, "speed_cap") => Unset(lines, k - 1, "speed_cap")
          BY <1>2
        <5>2. "-c" \in given \union {w} => "-c" \in given
          BY <4>2
        <5>3. "-u" \in given \union {w} => "-u" \in given
          BY <4>2
        <5> QED BY <5>1, <5>2, <5>3 DEF Agrees
      <4> QED BY <4>1, <4>2
    <3>4. given \union {w} \in SUBSET Flags
      OBVIOUS
    <3> QED BY <2>6, <3>2, <3>3, <3>4
  <2>9. ASSUME NEW w \in Operands, SwitchesFor(lines[k]) = <<w, operand>>, next = WithOperand(o, w, operand)
        PROVE  \E n \in Options, g \in SUBSET Flags : Followed(lines, k, o, given, set, n, g)
    <3>1. ReadWord(ReadWord(Between(o, given), w), operand) = Between(next, given)
      BY <2>9, OperandBetween
    <3>2. SwitchesRead(SwitchesFor(lines[k]), o, given, next, given)
      BY <1>1, <2>9, <3>1 DEF SwitchesRead
    <3>3. Unset(lines, k, "speed_cap") => "-c" \notin given /\ "-u" \notin given
      BY <1>2 DEF Agrees
    <3> QED BY <2>6, <3>2, <3>3 DEF Agrees
  <2> QED
    BY <2>3, <2>6, <2>7, <2>8, <2>9 DEF SaysLine, next
<1> QED
  BY <1>4, <1>5

(* Words that mean nothing of their own wherever they stand. *)
PlainWords == {w \in DOMAIN Says : w # "-h" /\ (Says[w].config => Says[w].dash)}

LEMMA SwitchesArePlain == Flags \union Operands \subseteq PlainWords
<1>1. \A w \in Flags \union Operands : w \in DOMAIN Says /\ ~Says[w].config
  BY WordsAssumption
<1>2. "-h" \notin Flags \union Operands
  BY DEF Flags, Operands
<1> QED
  BY <1>1, <1>2 DEF PlainWords

SwitchRuns(lines) == [i \in DOMAIN lines |-> SwitchesFor(lines[i])]

LEMMA RunsArePlain ==
  ASSUME NEW lines, IsLines(lines), FileAccepted(lines), Plainly(lines)
  PROVE  SwitchRuns(lines) \in Seq(Seq(PlainWords)) /\ Len(SwitchRuns(lines)) = Len(lines)
<1>1. Len(lines) \in Nat /\ DOMAIN lines = 1 .. Len(lines)
  BY LenProperties DEF IsLines
<1>2. ASSUME NEW i \in 1 .. Len(lines) PROVE SwitchesFor(lines[i]) \in Seq(PlainWords)
  <2> DEFINE l == lines[i]
  <2>1. l.value \in DOMAIN Says /\ Accepts(l.key, l.value) /\ OperandOf(l) \in PlainWords
    BY <1>2, LineOf DEF PlainWords
  <2>2. CASE l.key = "flat_bin"
    BY <2>2 DEF SwitchesFor
  <2>3. CASE l.key # "flat_bin"
    <3>1. SaysLine(Defaults, l)
      BY <2>1, <2>3, SwitchesSayLine, DefaultsAreOptions
    <3> HIDE DEF l
    <3>2. \/ SwitchesFor(l) = <<>>
          \/ \E w \in Flags : SwitchesFor(l) = <<w>>
          \/ \E w \in Operands : SwitchesFor(l) = <<w, OperandOf(l)>>
      BY <3>1 DEF SaysLine
    <3>3. OperandOf(l) \in PlainWords
      BY <2>1 DEF l
    <3>4. ASSUME NEW w \in PlainWords
          PROVE  <<w>> \in Seq(PlainWords) /\ <<w, OperandOf(l)>> \in Seq(PlainWords)
      BY <3>3
    <3>5. <<>> \in Seq(PlainWords) /\ \A w \in Flags \union Operands : w \in PlainWords
      BY SwitchesArePlain, EmptySeq
    <3>6. SwitchesFor(l) \in Seq(PlainWords)
      BY <3>2, <3>4, <3>5
    <3> QED BY <3>6 DEF l
  <2> QED BY <2>2, <2>3
<1> QED
  BY <1>1, <1>2 DEF SwitchRuns

(* Nothing in them is looked for before they are read. *)
LEMMA PlainWordsAreSwitches ==
  ASSUME NEW words \in Seq(PlainWords)
  PROVE  Asked(words, <<>>) = FromSwitches(words)
<1> DEFINE named == {i \in DOMAIN words : ~Says[words[i]].dash /\ Says[words[i]].config}
<1>1. \A i \in DOMAIN words : words[i] \in PlainWords
  BY ElementOfSeq
<1>2. named = {}
  BY <1>1 DEF PlainWords
<1>3. ~ \E i \in DOMAIN words : words[i] = "-h"
  BY <1>1 DEF PlainWords
<1>4. Cardinality({}) = 0
  BY FS_EmptySet
<1>5. Cardinality(named) = 0
  BY <1>2, <1>4, Zenon
<1>6. Asked(words, <<>>)
        = CASE (\E i \in DOMAIN words : words[i] = "-h") \/ Cardinality(named) > 1 -> Refused
            [] OTHER -> IF named = {} THEN FromSwitches(words)
                        ELSE FromFile(words, words[CHOOSE i \in named : TRUE], <<>>)
  BY Zenon DEF Asked
<1> HIDE DEF named
<1> QED
  BY <1>2, <1>3, <1>5, <1>6

(* The lines' switches are read to where they agree with the lines. *)
LEMMA SwitchesAgree ==
  ASSUME NEW lines, IsLines(lines), FileAccepted(lines), Plainly(lines), lines # <<>>,
         NEW words \in Seq(PlainWords), NEW e, RunsEnd(e, SwitchRuns(lines)), e \in [0 .. Len(lines) -> Nat],
         \A j \in 1 .. Len(lines) : \A i \in 1 .. Len(SwitchesFor(lines[j])) :
            e[j - 1] + i \in 1 .. Len(words) /\ words[e[j - 1] + i] = SwitchesFor(lines[j])[i],
         NEW f, WordsRead(f, words), NEW set, LinesApplied(set, lines)
  PROVE  \E o \in Options, given \in SUBSET Flags :
            /\ f[e[Len(lines)]] = Between(o, given)
            /\ Agrees(lines, Len(lines), o, given, set[Len(lines)])
<1> DEFINE n == Len(lines)
           Good(k) == \E o \in Options, given \in SUBSET Flags :
                        f[e[k]] = Between(o, given) /\ Agrees(lines, k, o, given, set[k])
           S == {k \in 0 .. n : Good(k)}
<1>1. n \in Nat /\ DOMAIN lines = 1 .. n /\ Len(SwitchRuns(lines)) = n
      /\ \A i \in 1 .. n : SwitchRuns(lines)[i] = SwitchesFor(lines[i])
  BY LenProperties, RunsArePlain DEF IsLines, SwitchRuns
<1>2. e[0] = 0 /\ \A k \in 1 .. n : e[k] = e[k - 1] + Len(SwitchesFor(lines[k]))
  BY <1>1 DEF RunsEnd
<1>3. 0 \in S
  <2>1. f[e[0]] = Between(Defaults, {})
    BY <1>2 DEF WordsRead, LineStart, Between
  <2>2. Agrees(lines, 0, Defaults, {}, set[0])
    BY DEF Agrees, LinesApplied, Unset
  <2>3. Good(0)
    BY <2>1, <2>2, DefaultsAreOptions
  <2> HIDE DEF Good
  <2> QED BY <1>1, <2>3
<1>4. ASSUME NEW k \in 0 .. n - 1, k \in S PROVE k + 1 \in S
  <2>1. PICK o \in Options, given \in SUBSET Flags :
           f[e[k]] = Between(o, given) /\ Agrees(lines, k, o, given, set[k])
    BY <1>4
  <2>2. k + 1 \in 1 .. n /\ (k + 1) - 1 = k /\ k + 1 \in 0 .. n
    BY <1>1
  <2>3. PICK next \in Options, nextGiven \in SUBSET Flags :
           Followed(lines, k + 1, o, given, set[k], next, nextGiven)
    BY <2>1, <2>2, LineFollows
  <2> DEFINE run == SwitchesFor(lines[k + 1])
  <2>4. set[k + 1] = ApplyKey(set[k], lines[k + 1].key, lines[k + 1].value)
    BY <2>2 DEF LinesApplied
  <2>5. Agrees(lines, k + 1, next, nextGiven, set[k + 1])
    BY <2>3, <2>4 DEF Followed
  <2>6. SwitchesRead(run, o, given, next, nextGiven)
    BY <2>3 DEF Followed
  <2>7. e[k + 1] = e[k] + Len(run) /\ e[k] \in Nat /\ e[k + 1] \in Nat
    <3>1. k \in 0 .. n
      BY <1>1
    <3>2. e[k] \in Nat /\ e[k + 1] \in Nat
      BY <2>2, <3>1
    <3>3. e[k + 1] = e[(k + 1) - 1] + Len(run)
      BY <1>2, <2>2
    <3> QED BY <2>2, <3>2, <3>3
  <2>8. \A i \in 1 .. Len(run) : e[k] + i \in 1 .. Len(words) /\ words[e[k] + i] = run[i]
    <3>1. \A i \in 1 .. Len(run) :
             e[(k + 1) - 1] + i \in 1 .. Len(words) /\ words[e[(k + 1) - 1] + i] = run[i]
      BY <2>2
    <3> QED BY <2>2, <3>1
  <2>9. f[e[k + 1]] = Between(next, nextGiven)
    <3>1. CASE run = <<>> /\ next = o /\ nextGiven = given
      <4>1. Len(run) = 0 /\ e[k + 1] = e[k]
        BY <2>7, <3>1
      <4> QED BY <2>1, <3>1, <4>1
    <3>2. ASSUME NEW w \in Flags, run = <<w>>, ReadWord(Between(o, given), w) = Between(next, nextGiven)
          PROVE  f[e[k + 1]] = Between(next, nextGiven)
      <4>1. Len(run) = 1 /\ run[1] = w /\ e[k + 1] = e[k] + 1
        BY <2>7, <3>2
      <4>2. e[k] + 1 \in 1 .. Len(words) /\ words[e[k] + 1] = w
        <5>1. 1 \in 1 .. Len(run)
          BY <4>1
        <5> QED BY <2>8, <4>1, <5>1
      <4>3. f[e[k] + 1] = ReadWord(f[(e[k] + 1) - 1], words[e[k] + 1]) /\ (e[k] + 1) - 1 = e[k]
        <5>1. (e[k] + 1) - 1 = e[k]
          BY <2>7
        <5>2. \A i \in 1 .. Len(words) : f[i] = ReadWord(f[i - 1], words[i])
          BY DEF WordsRead
        <5> QED BY <4>2, <5>1, <5>2
      <4> QED BY <2>1, <3>2, <4>1, <4>2, <4>3
    <3>3. ASSUME NEW w \in Operands, NEW word \in DOMAIN Says, run = <<w, word>>,
                 ReadWord(ReadWord(Between(o, given), w), word) = Between(next, nextGiven)
          PROVE  f[e[k + 1]] = Between(next, nextGiven)
      <4>1. Len(run) = 2 /\ run[1] = w /\ run[2] = word /\ e[k + 1] = e[k] + 2
        BY <2>7, <3>3
      <4>2. e[k] + 1 \in 1 .. Len(words) /\ words[e[k] + 1] = w
        <5>1. 1 \in 1 .. Len(run)
          BY <4>1
        <5> QED BY <2>8, <4>1, <5>1
      <4>3. e[k] + 2 \in 1 .. Len(words) /\ words[e[k] + 2] = word
        <5>1. 2 \in 1 .. Len(run)
          BY <4>1
        <5> QED BY <2>8, <4>1, <5>1
      <4>4. f[e[k] + 1] = ReadWord(f[(e[k] + 1) - 1], words[e[k] + 1]) /\ (e[k] + 1) - 1 = e[k]
        <5>1. (e[k] + 1) - 1 = e[k]
          BY <2>7
        <5>2. \A i \in 1 .. Len(words) : f[i] = ReadWord(f[i - 1], words[i])
          BY DEF WordsRead
        <5> QED BY <4>2, <5>1, <5>2
      <4>5. f[e[k] + 2] = ReadWord(f[(e[k] + 2) - 1], words[e[k] + 2]) /\ (e[k] + 2) - 1 = e[k] + 1
        <5>1. (e[k] + 2) - 1 = e[k] + 1
          BY <2>7
        <5>2. \A i \in 1 .. Len(words) : f[i] = ReadWord(f[i - 1], words[i])
          BY DEF WordsRead
        <5> QED BY <4>3, <5>1, <5>2
      <4> QED BY <2>1, <3>3, <4>1, <4>2, <4>3, <4>4, <4>5
    <3> HIDE DEF run
    <3> QED BY <2>6, <3>1, <3>2, <3>3 DEF SwitchesRead
  <2>10. Good(k + 1)
    BY <2>5, <2>9
  <2> HIDE DEF Good
  <2> QED BY <2>2, <2>10
<1>5. n \in S
  <2> HIDE DEF S
  <2>1. \A k \in 0 .. n : k \in S
    BY <1>1, <1>3, <1>4, BoundedInduction
  <2> QED BY <1>1, <2>1
<1> QED
  BY <1>5

LEMMA BinaryRead ==
  ASSUME NEW o \in Options, NEW given, NEW path, path \notin Flags \union Operands, ~Says[path].dash
  PROVE  LineOver(ReadWord(Between(o, given), path))
           = IF {"-c", "-u"} \subseteq given THEN Refused ELSE Granted(BinaryPut(o, path))
<1> DEFINE s == Between(o, given)
<1>1. ~s.over /\ ~s.bad /\ s.takes = NoSwitch /\ s.given = given
      /\ s = [options |-> o, takes |-> NoSwitch, given |-> given, over |-> FALSE, bad |-> FALSE]
  BY DEF Between
<1>2. ReadWord(s, path) = [s EXCEPT !.options.flat_bin = path, !.options.flat_bus = TRUE, !.over = TRUE]
  <2> HIDE DEF s
  <2> QED BY <1>1 DEF ReadWord
<1>3. s \in [options : {o}, takes : {NoSwitch}, given : {given}, over : {FALSE}, bad : {FALSE}]
  BY DEF Between
<1> HIDE DEF s
<1> DEFINE r == ReadWord(s, path)
<1>4. [s EXCEPT !.options.flat_bin = path, !.options.flat_bus = TRUE, !.over = TRUE]
        = [s EXCEPT !.options = [s.options EXCEPT !.flat_bin = path, !.flat_bus = TRUE], !.over = TRUE]
  BY <1>3
<1>5. [s.options EXCEPT !.flat_bin = path, !.flat_bus = TRUE] = BinaryPut(o, path)
  BY <1>1 DEF BinaryPut
<1>6. r = [s EXCEPT !.options = BinaryPut(o, path), !.over = TRUE]
  BY <1>2, <1>4, <1>5, Zenon
<1> HIDE DEF r
<1>7. ~r.bad /\ r.takes = NoSwitch /\ r.given = given /\ r.options = BinaryPut(o, path)
  BY <1>1, <1>3, <1>6
<1>8. LineOver(r) = IF {"-c", "-u"} \subseteq given THEN Refused ELSE Granted(BinaryPut(o, path))
  BY <1>7 DEF LineOver
<1> QED
  BY <1>8 DEF r, s

LEMMA SwitchesMeanLines ==
  ASSUME NEW lines, IsLines(lines), FileAccepted(lines), Plainly(lines), lines # <<>>
  PROVE  Asked(Switches(lines), <<>>) = Granted(FileOptions(lines))
<1> DEFINE n == Len(lines)
           runs == SwitchRuns(lines)
           head == FlattenSeq(runs)
           words == Switches(lines)
<1>1. n \in Nat \ {0} /\ DOMAIN lines = 1 .. n
  BY LenProperties, EmptySeq DEF IsLines
<1>2. runs \in Seq(Seq(PlainWords)) /\ Len(runs) = n /\ \A i \in 1 .. n : runs[i] = SwitchesFor(lines[i])
  BY <1>1, RunsArePlain DEF SwitchRuns
<1>3. runs # <<>>
  BY <1>1, <1>2
<1>4. words = head \o FlatBinary(lines)
  BY DEF Switches, SwitchRuns
<1> HIDE DEF runs, head, words
<1>5. PICK e : /\ e \in [0 .. n -> Nat] /\ RunsEnd(e, runs)
               /\ head \in Seq(PlainWords) /\ Joined(e, runs, n, head)
  BY <1>2, <1>3, FlattenJoins DEF head
<1>6. FlatBinary(lines) \in Seq(PlainWords)
  <2>1. CASE Unset(lines, n, "flat_bin")
    BY <2>1, NoBinary, EmptySeq
  <2>2. CASE ~Unset(lines, n, "flat_bin")
    <3>1. PICK k \in 1 .. n : lines[k].key = "flat_bin"
      BY <2>2 DEF Unset
    <3>2. FlatBinary(lines) = <<lines[k].value>> /\ lines[k].value \in PlainWords
      BY <3>1, BinaryOfLines, LineOf DEF PlainWords
    <3> QED BY <3>2
  <2> QED BY <2>1, <2>2
<1>7. /\ words \in Seq(PlainWords) /\ Len(words) = Len(head) + Len(FlatBinary(lines))
      /\ \A i \in 1 .. Len(words) :
           words[i] = IF i <= Len(head) THEN head[i] ELSE FlatBinary(lines)[i - Len(head)]
      /\ Len(head) \in Nat /\ Len(FlatBinary(lines)) \in Nat
  BY <1>4, <1>5, <1>6, ConcatProperties, LenProperties
<1>8. e[n] = Len(head)
  BY <1>5 DEF Joined
<1>9. PlainWords \subseteq DOMAIN Says
  BY DEF PlainWords
<1>10. words \in Seq(DOMAIN Says)
  BY <1>7, <1>9
<1>11. PICK f \in [0 .. Len(words) -> Reads] :
          WordsRead(f, words) /\ FromSwitches(words) = LineOver(f[Len(words)])
  BY <1>10, SwitchesAreRead
<1>12. PICK set \in [0 .. n -> Options] : LinesApplied(set, lines) /\ FileOptions(lines) = set[n]
  BY LinesAreApplied
<1>13. ASSUME NEW j \in 1 .. n, NEW i \in 1 .. Len(SwitchesFor(lines[j]))
       PROVE  e[j - 1] + i \in 1 .. Len(words) /\ words[e[j - 1] + i] = SwitchesFor(lines[j])[i]
  <2>1. e[j - 1] + i \in 1 .. Len(head) /\ head[e[j - 1] + i] = SwitchesFor(lines[j])[i]
    BY <1>2, <1>5 DEF Joined
  <2>2. \A p \in 1 .. Len(head) : p \in 1 .. Len(words) /\ words[p] = head[p]
    BY <1>7
  <2> QED BY <2>1, <2>2
<1>14. PICK o \in Options, given \in SUBSET Flags :
          f[e[n]] = Between(o, given) /\ Agrees(lines, n, o, given, set[n])
  <2>1. words \in Seq(PlainWords) /\ e \in [0 .. Len(lines) -> Nat] /\ RunsEnd(e, SwitchRuns(lines))
    BY <1>5, <1>7 DEF runs
  <2>2. WordsRead(f, words) /\ LinesApplied(set, lines)
    BY <1>11, <1>12
  <2> HIDE DEF n
  <2>3. \E o \in Options, given \in SUBSET Flags :
           /\ f[e[Len(lines)]] = Between(o, given)
           /\ Agrees(lines, Len(lines), o, given, set[Len(lines)])
    BY <1>13, <2>1, <2>2, SwitchesAgree, ZenonT(40) DEF n
  <2> QED BY <2>3 DEF n
<1>15. FromSwitches(words) = Granted(set[n])
  <2>1. CASE Unset(lines, n, "flat_bin")
    <3>1. Len(FlatBinary(lines)) = 0
      BY <2>1, NoBinary, EmptySeq
    <3>2. f[Len(words)] = Between(o, given) /\ set[n] = o /\ ~({"-c", "-u"} \subseteq given)
      BY <1>7, <1>8, <1>14, <2>1, <3>1 DEF Agrees
    <3>3. LineOver(Between(o, given)) = Granted(o)
      BY <3>2 DEF LineOver, Between
    <3> QED BY <1>11, <3>2, <3>3
  <2>2. CASE ~Unset(lines, n, "flat_bin")
    <3>1. PICK k \in 1 .. n : lines[k].key = "flat_bin"
      BY <2>2 DEF Unset
    <3> DEFINE path == lines[k].value
    <3>2. FlatBinary(lines) = <<path>> /\ ~Says[path].dash
      BY <3>1, BinaryOfLines, LineOf
    <3>3. path \notin Flags \union Operands
      BY <3>2, WordsAssumption
    <3> HIDE DEF path
    <3>4. Len(words) = e[n] + 1 /\ e[n] \in Nat /\ words[Len(words)] = path
      BY <1>7, <1>8, <3>2
    <3>5. f[Len(words)] = ReadWord(f[e[n]], path)
      <4>1. Len(words) \in 1 .. Len(words) /\ Len(words) - 1 = e[n]
        BY <3>4, SMTT(30)
      <4> QED BY <1>11, <3>4, <4>1 DEF WordsRead
    <3>6. set[n] = BinaryPut(o, path) /\ ~({"-c", "-u"} \subseteq given)
      BY <1>14, <2>2, <3>2 DEF Agrees
    <3>7. LineOver(ReadWord(Between(o, given), path)) = Granted(BinaryPut(o, path))
      BY <3>2, <3>3, <3>6, BinaryRead
    <3> QED BY <1>11, <1>14, <3>5, <3>6, <3>7
  <2> QED BY <2>1, <2>2
<1>16. Asked(words, <<>>) = FromSwitches(words)
  BY <1>7, PlainWordsAreSwitches
<1> QED
  BY <1>12, <1>15, <1>16 DEF words

-----------------------------------------------------------------------------
(* A command and its file *)

(* A switch that is none makes no sense of what follows. *)
LEMMA BadStays ==
  ASSUME NEW words \in Seq(DOMAIN Says), words # <<>>,
         words[1] \notin Flags \union Operands, Says[words[1]].dash
  PROVE  FromSwitches(words) = Refused
<1> DEFINE n == Len(words)
<1>1. n \in Nat \ {0}
  BY LenProperties, EmptySeq
<1>2. PICK f \in [0 .. n -> Reads] : WordsRead(f, words) /\ FromSwitches(words) = LineOver(f[n])
  BY SwitchesAreRead
<1> DEFINE S == {k \in 0 .. n : k = 0 \/ f[k].bad}
<1>3. 0 \in S
  BY <1>1
<1>4. ASSUME NEW k \in 0 .. n - 1, k \in S PROVE k + 1 \in S
  <2>1. k + 1 \in 1 .. n /\ (k + 1) - 1 = k /\ k \in 0 .. n
    BY <1>1
  <2>2. f[k + 1] = ReadWord(f[k], words[k + 1])
    BY <1>2, <2>1 DEF WordsRead
  <2>3. CASE k = 0
    <3>1. f[k] = LineStart
      BY <1>2, <2>3 DEF WordsRead
    <3>2. ~LineStart.over /\ ~LineStart.bad /\ LineStart.takes = NoSwitch
      BY DEF LineStart
    <3>3. ReadWord(LineStart, words[1]) = [LineStart EXCEPT !.bad = TRUE]
      BY <3>2 DEF ReadWord
    <3>4. [LineStart EXCEPT !.bad = TRUE].bad
      BY LineStarts DEF Reads
    <3> QED BY <2>1, <2>2, <2>3, <3>1, <3>3, <3>4
  <2>4. CASE k # 0
    <3>1. f[k].bad
      BY <1>4, <2>4
    <3>2. ReadWord(f[k], words[k + 1]) = f[k]
      BY <3>1 DEF ReadWord
    <3> QED BY <2>1, <2>2, <3>1, <3>2
  <2> QED BY <2>3, <2>4
<1>5. n \in S
  <2> HIDE DEF S
  <2>1. \A k \in 0 .. n : k \in S
    BY <1>1, <1>3, <1>4, BoundedInduction
  <2> QED BY <1>1, <2>1
<1> QED
  BY <1>1, <1>2, <1>5 DEF LineOver

(* What is granted to words that begin with a file's name is what the file sets. *)
LEMMA FileIsRead ==
  ASSUME NEW words \in Seq(DOMAIN Says), NEW files, words # <<>>, Says[words[1]].config,
         Asked(words, files).ok
  PROVE  /\ words[1] \in DOMAIN files /\ FileAccepted(files[words[1]])
         /\ Asked(words, files) = Granted(FileOptions(files[words[1]]))
<1> DEFINE named == {i \in DOMAIN words : ~Says[words[i]].dash /\ Says[words[i]].config}
           asked == Asked(words, files)
           chosen == CHOOSE i \in named : TRUE
<1>1. Len(words) \in Nat \ {0} /\ DOMAIN words = 1 .. Len(words) /\ 1 \in DOMAIN words
  BY LenProperties, EmptySeq
<1>2. words[1] \in DOMAIN Says /\ words[1] \notin Flags \union Operands
  <2>1. words[1] \in DOMAIN Says
    BY <1>1, ElementOfSeq
  <2> QED BY <2>1, WordsAssumption
<1>3. asked = CASE (\E i \in DOMAIN words : words[i] = "-h") \/ Cardinality(named) > 1 -> Refused
                [] OTHER -> IF named = {} THEN FromSwitches(words)
                            ELSE FromFile(words, words[chosen], files)
  BY Zenon DEF Asked
<1>4. Refused.ok = FALSE
  BY DEF Refused
<1>5. /\ ~(Cardinality(named) > 1)
      /\ asked = IF named = {} THEN FromSwitches(words) ELSE FromFile(words, words[chosen], files)
  <2> HIDE DEF named, asked, chosen
  <2>1. asked.ok
    BY DEF asked
  <2> QED BY <1>3, <1>4, <2>1
<1>6. ~Says[words[1]].dash
  <2> SUFFICES ASSUME Says[words[1]].dash PROVE FALSE
    OBVIOUS
  <2>1. FromSwitches(words) = Refused
    BY <1>2, BadStays
  <2>2. words[1] \notin {"-H", "-g"}
    BY <1>2 DEF Flags
  <2>3. FromFile(words, words[chosen], files) = Refused
    BY <1>1, <2>2 DEF FromFile
  <2> HIDE DEF named, chosen
  <2> QED BY <1>4, <1>5, <2>1, <2>3 DEF asked
<1>7. 1 \in named
  BY <1>1, <1>6
<1>8. chosen \in named
  BY <1>7
<1>9. chosen = 1
  <2> SUFFICES ASSUME chosen # 1 PROVE FALSE
    OBVIOUS
  <2> HIDE DEF chosen
  <2>1. IsFiniteSet(1 .. Len(words)) /\ named \in SUBSET (1 .. Len(words))
    BY <1>1, FS_Interval
  <2> HIDE DEF named
  <2>2. IsFiniteSet(named) /\ Cardinality(named) \in Nat
    BY <2>1, FS_Subset, FS_CardinalityType
  <2>3. {1, chosen} \in SUBSET named
    BY <1>7, <1>8
  <2>4. Cardinality({1, chosen}) = 2
    <3>1. IsFiniteSet({1}) /\ Cardinality({1}) = 1
      BY FS_Singleton
    <3>2. Cardinality({1} \union {chosen}) = Cardinality({1}) + 1
      BY <3>1, FS_AddElement
    <3>3. {1} \union {chosen} = {1, chosen}
      OBVIOUS
    <3> QED BY <3>1, <3>2, <3>3
  <2>5. Cardinality({1, chosen}) <= Cardinality(named)
    BY <2>2, <2>3, FS_Subset
  <2> QED BY <1>5, <2>2, <2>4, <2>5
<1>10. asked = FromFile(words, words[1], files)
  <2> HIDE DEF named, chosen
  <2> QED BY <1>5, <1>7, <1>9
<1> QED
  BY <1>4, <1>10 DEF asked, FromFile

(* The machines are those that commands ask for. *)
MachinesAreCommands == \A m \in Machines : \E c : IsCommand(c) /\ m = MachineOf(c)

LEMMA CommandFile ==
  ASSUME NEW c, IsCommand(c), MachineOf(c).asked.ok, MachineOf(c).file # <<>>, Plainly(MachineOf(c).file)
  PROVE  MachineOf(c).asked = Asked(Switches(MachineOf(c).file), <<>>)
<1> DEFINE m == MachineOf(c)
           word == c.words[1]
           lines == c.disk[word].lines
           files == ConfigLines(c.disk)
<1>1. m.asked = Asked(c.words, files)
  BY DEF MachineOf
<1>2. m.file = IF c.words # <<>> /\ Says[word].config /\ word \in DOMAIN c.disk THEN lines ELSE <<>>
  BY DEF MachineOf
<1>3. c.words # <<>> /\ Says[word].config /\ word \in DOMAIN c.disk /\ m.file = lines
  BY <1>2
<1>4. c.words \in Seq(DOMAIN Says) /\ IsFile(c.disk[word])
  BY <1>3 DEF IsCommand
<1>5. files[word] = lines
  BY <1>3 DEF ConfigLines
<1> HIDE DEF m, word, lines, files
<1>6. FileAccepted(lines) /\ m.asked = Granted(FileOptions(lines))
  BY <1>1, <1>3, <1>4, <1>5, FileIsRead DEF m, word
<1>7. IsLines(lines)
  BY <1>4 DEF IsFile, IsLines, lines
<1>8. Asked(Switches(lines), <<>>) = Granted(FileOptions(lines))
  BY <1>3, <1>6, <1>7, SwitchesMeanLines DEF m
<1> QED
  BY <1>3, <1>6, <1>8 DEF m

(* A configuration file of any length asks for what the manual's switches for it
   ask for, in whatever order its lines stand: load_config_file and the reading of
   the switches in main come to the same options (FileMeansSwitches). *)
THEOREM FilesMeanSwitches == MachinesAreCommands => (Spec => []FileMeansSwitches)
<1> SUFFICES ASSUME MachinesAreCommands PROVE Spec => []FileMeansSwitches
  OBVIOUS
<1>1. TypeOK => FileMeansSwitches
  <2> SUFFICES ASSUME TypeOK, opt.asked.ok, opt.file # <<>>, Plainly(opt.file)
               PROVE  opt.asked = Asked(Switches(opt.file), <<>>)
    BY DEF FileMeansSwitches
  <2>1. opt \in Machines
    BY DEF TypeOK
  <2>2. PICK c : IsCommand(c) /\ opt = MachineOf(c)
    BY <2>1 DEF MachinesAreCommands
  <2> QED BY <2>2, CommandFile
<1> QED
  BY <1>1, TypeCorrect, PTL

-----------------------------------------------------------------------------
(* What is asked for can be reckoned with *)

(* Options whose numbers can be reckoned with. *)
Sensible(o) == o \in Options /\ o.baud \in Nat /\ o.loadAt \in Addresses /\ o.flat_bus \in BOOLEAN

LEMMA DefaultsAreSensible == Sensible(Defaults)
<1>1. Defaults.baud \in Nat /\ Defaults.loadAt = 0 /\ Defaults.flat_bus \in BOOLEAN
  BY DEF Defaults
<1>2. 0 \in Addresses
  BY DEF Addresses
<1> QED
  BY <1>1, <1>2, DefaultsAreOptions DEF Sensible

LEMMA StaysSensible ==
  ASSUME NEW o, Sensible(o), NEW k \in OptionNames, NEW v \in Settings,
         k = "baud" => v \in Nat, k = "loadAt" => v \in Addresses, k = "flat_bus" => v \in BOOLEAN
  PROVE  Sensible([o EXCEPT ![k] = v])
<1> DEFINE p == [o EXCEPT ![k] = v]
<1>1. o \in [OptionNames -> Settings] /\ p \in Options
  BY OptionSet DEF Sensible, Options
<1>2. \A j \in OptionNames : p[j] = IF j = k THEN v ELSE o[j]
  BY <1>1
<1>3. {"baud", "loadAt", "flat_bus"} \subseteq OptionNames
  BY KeyIsOption
<1> HIDE DEF p
<1>4. p \in Options /\ p.baud \in Nat /\ p.loadAt \in Addresses /\ p.flat_bus \in BOOLEAN
  BY <1>1, <1>2, <1>3 DEF Sensible
<1> QED
  BY <1>4 DEF p, Sensible

LEMMA LoadStaysSensible ==
  ASSUME NEW o, Sensible(o), NEW w \in DOMAIN Says, NEW path \in Settings
  PROVE  Sensible([o EXCEPT !.load = path, !.loadAt = Says[w].at])
<1> DEFINE p == [o EXCEPT !["load"] = path]
<1>1. Says[w].at \in Settings /\ Says[w].at \in Addresses
  BY SettingsOfWord, WordReads
<1>2. "load" \in OptionNames /\ "loadAt" \in OptionNames
  BY KeyIsOption
<1>3. Sensible(p)
  BY <1>1, <1>2, StaysSensible
<1>4. [o EXCEPT !.load = path, !.loadAt = Says[w].at] = [p EXCEPT !["loadAt"] = Says[w].at]
  OBVIOUS
<1> HIDE DEF p
<1> QED
  BY <1>1, <1>2, <1>3, <1>4, StaysSensible

LEMMA BinaryStaysSensible ==
  ASSUME NEW o, Sensible(o), NEW w \in DOMAIN Says
  PROVE  Sensible([o EXCEPT !.flat_bin = w, !.flat_bus = TRUE])
<1> DEFINE p == [o EXCEPT !["flat_bin"] = w]
<1>1. w \in Settings /\ TRUE \in Settings
  BY SettingsOfWord, PlainSettings
<1>2. "flat_bin" \in OptionNames /\ "flat_bus" \in OptionNames
  BY KeyIsOption
<1>3. Sensible(p)
  BY <1>1, <1>2, StaysSensible
<1>4. [o EXCEPT !.flat_bin = w, !.flat_bus = TRUE] = [p EXCEPT !["flat_bus"] = TRUE]
  OBVIOUS
<1> HIDE DEF p
<1> QED
  BY <1>1, <1>2, <1>3, <1>4, StaysSensible

LEMMA KeySensible ==
  ASSUME NEW o, Sensible(o), NEW key, NEW word \in DOMAIN Says, Accepts(key, word)
  PROVE  Sensible(ApplyKey(o, key, word))
<1>1. /\ word \in Settings /\ Says[word].number \in Settings /\ Says[word].truth \in Settings
      /\ Says[word].truth \in BOOLEAN /\ Says[word].number \in Int
  BY SettingsOfWord, WordReads
<1>2. CASE key = "flat_bin"
  <2>1. ApplyKey(o, key, word) = [o EXCEPT !.flat_bin = word, !.flat_bus = TRUE]
    BY <1>2 DEF ApplyKey, PathKeys, TruthKeys
  <2> QED BY <2>1, BinaryStaysSensible, ZenonT(40)
<1>3. CASE key \in PathKeys \ {"flat_bin"}
  <2>1. ApplyKey(o, key, word) = [o EXCEPT ![key] = word]
    BY <1>3 DEF ApplyKey, PathKeys, TruthKeys
  <2>2. key \in OptionNames /\ key # "baud" /\ key # "loadAt" /\ key # "flat_bus"
    BY <1>3, KeyIsOption DEF PathKeys
  <2>3. Sensible([o EXCEPT ![key] = word])
    BY <1>1, <2>2, StaysSensible
  <2> QED BY <2>1, <2>3
<1>4. CASE key \in TruthKeys
  <2>1. ApplyKey(o, key, word) = [o EXCEPT ![key] = Says[word].truth]
    BY <1>4 DEF ApplyKey, PathKeys, TruthKeys
  <2>2. key \in OptionNames /\ key # "baud" /\ key # "loadAt"
    BY <1>4, KeyIsOption DEF TruthKeys
  <2>3. Sensible([o EXCEPT ![key] = Says[word].truth])
    BY <1>1, <2>2, StaysSensible
  <2> QED BY <2>1, <2>3
<1>5. CASE key = "load"
  <2>1. ApplyKey(o, key, word) = [o EXCEPT !.load = Says[word].path, !.loadAt = Says[word].at]
    BY <1>5 DEF ApplyKey, PathKeys, TruthKeys
  <2>2. Says[word].path \in Settings
    BY SettingsOfWord
  <2>3. Sensible([o EXCEPT !.load = Says[word].path, !.loadAt = Says[word].at])
    BY <2>2, LoadStaysSensible
  <2> QED BY <2>1, <2>3, Zenon
<1>6. CASE key \in {"baud", "log_level"}
  <2>1. ApplyKey(o, key, word) = [o EXCEPT ![key] = Says[word].number]
    BY <1>6 DEF ApplyKey, PathKeys, TruthKeys
  <2>2. key \in OptionNames /\ key # "loadAt" /\ key # "flat_bus"
    BY <1>6, KeyIsOption
  <2>3. Says[word].number \in Nat
    <3>1. CASE key = "baud"
      BY <1>1, <3>1 DEF Accepts, PathKeys, TruthKeys
    <3>2. CASE key = "log_level"
      BY <3>2 DEF Accepts, PathKeys, TruthKeys
    <3> QED BY <1>6, <3>1, <3>2
  <2>4. Sensible([o EXCEPT ![key] = Says[word].number])
    BY <1>1, <2>2, <2>3, StaysSensible
  <2> QED BY <2>1, <2>4
<1>7. key \in PathKeys \union TruthKeys \union {"load", "baud", "log_level"}
  BY DEF Accepts
<1> QED
  BY <1>2, <1>3, <1>4, <1>5, <1>6, <1>7

LEMMA FlagSensible ==
  ASSUME NEW o, Sensible(o), NEW w \in Flags
  PROVE  Sensible(Flagged(o, w))
<1>1. \A k \in TruthKeys, b \in BOOLEAN : Sensible([o EXCEPT ![k] = b])
  <2> SUFFICES ASSUME NEW k \in TruthKeys, NEW b \in BOOLEAN PROVE Sensible([o EXCEPT ![k] = b])
    OBVIOUS
  <2>1. k \in OptionNames /\ b \in Settings /\ k \notin {"baud", "loadAt"}
    BY KeyIsOption, PlainSettings DEF TruthKeys
  <2> QED BY <2>1, StaysSensible
<1>2. CASE w \in {"-c", "-u"}
  BY <1>1, <1>2 DEF Flagged, TruthKeys
<1>3. CASE w \in {"-F", "-p"}
  BY <1>1, <1>3 DEF Flagged, TruthKeys
<1>4. CASE w \in {"-d", "-b"}
  BY <1>1, <1>4 DEF Flagged, TruthKeys
<1>5. CASE w \in {"-s", "-t"}
  BY <1>1, <1>5 DEF Flagged, TruthKeys
<1>6. CASE w \in {"-H", "-g"}
  BY <1>6 DEF Flagged
<1> QED
  BY <1>2, <1>3, <1>4, <1>5, <1>6 DEF Flags

LEMMA OperandSensible ==
  ASSUME NEW o, Sensible(o), NEW w \in Operands, NEW word \in DOMAIN Says
  PROVE  Sensible(WithOperand(o, w, word))
<1>1. word \in Settings /\ Says[word].number \in Settings /\ Says[word].number \in Int
  BY SettingsOfWord, WordReads
<1>2. \A k \in PathKeys : Sensible([o EXCEPT ![k] = word])
  <2> SUFFICES ASSUME NEW k \in PathKeys PROVE Sensible([o EXCEPT ![k] = word])
    OBVIOUS
  <2>1. k \in OptionNames /\ k \notin {"baud", "loadAt", "flat_bus"}
    BY KeyIsOption DEF PathKeys
  <2> QED BY <1>1, <2>1, StaysSensible
<1>3. CASE w \in {"-r", "-w", "-a"}
  BY <1>2, <1>3 DEF WithOperand, PathKeys
<1>4. CASE w \in {"-e", "-E"}
  BY <1>2, <1>4 DEF WithOperand, PathKeys
<1>5. CASE w \in {"-k", "-L"}
  BY <1>2, <1>5 DEF WithOperand, PathKeys
<1>6. CASE w = "-l"
  <2>1. Says[word].before \in Settings
    BY SettingsOfWord
  <2>2. Sensible([o EXCEPT !.load = Says[word].before, !.loadAt = Says[word].at])
    BY <2>1, LoadStaysSensible
  <2> QED BY <1>6, <2>2 DEF WithOperand
<1>7. CASE w = "-B"
  <2>1. "baud" \in OptionNames
    BY KeyIsOption
  <2>2. Says[word].number > 0 => Sensible([o EXCEPT !["baud"] = Says[word].number])
    <3>1. Says[word].number > 0 => Says[word].number \in Nat
      BY <1>1
    <3> QED BY <1>1, <2>1, <3>1, StaysSensible
  <2> QED BY <1>7, <2>2 DEF WithOperand
<1>8. CASE w = "-V"
  <2>1. "log_level" \in OptionNames
    BY KeyIsOption
  <2>2. Sensible([o EXCEPT !["log_level"] = Says[word].number])
    BY <1>1, <2>1, StaysSensible
  <2> QED BY <1>8, <2>2 DEF WithOperand
<1> QED
  BY <1>3, <1>4, <1>5, <1>6, <1>7, <1>8 DEF Operands

LEMMA WordSensible ==
  ASSUME NEW s \in Reads, Sensible(s.options), NEW w \in DOMAIN Says
  PROVE  Sensible(ReadWord(s, w).options)
<1>1. CASE s.over \/ s.bad
  BY <1>1 DEF ReadWord
<1>2. CASE ~(s.over \/ s.bad) /\ s.takes # NoSwitch
  <2>1. ReadWord(s, w) = [s EXCEPT !.options = WithOperand(s.options, s.takes, w), !.takes = NoSwitch]
    BY <1>2 DEF ReadWord
  <2>2. ReadWord(s, w).options = WithOperand(s.options, s.takes, w)
    BY <2>1 DEF Reads
  <2> QED BY <1>2, <2>2, OperandSensible DEF Reads
<1>3. CASE ~(s.over \/ s.bad) /\ s.takes = NoSwitch
  <2>1. CASE w \in Operands
    <3>1. ReadWord(s, w) = [s EXCEPT !.takes = w]
      BY <1>3, <2>1 DEF ReadWord, Operands, Flags
    <3> QED BY <3>1 DEF Reads
  <2>2. CASE w \in Flags
    <3>1. ReadWord(s, w) = [s EXCEPT !.options = Flagged(s.options, w), !.given = @ \union {w}]
      BY <1>3, <2>2 DEF ReadWord, Operands, Flags
    <3>2. ReadWord(s, w).options = Flagged(s.options, w)
      BY <3>1 DEF Reads
    <3> QED BY <2>2, <3>2, FlagSensible
  <2>3. CASE w \notin Flags \union Operands /\ Says[w].dash
    <3>1. ReadWord(s, w) = [s EXCEPT !.bad = TRUE]
      BY <1>3, <2>3 DEF ReadWord
    <3> QED BY <3>1 DEF Reads
  <2>4. CASE w \notin Flags \union Operands /\ ~Says[w].dash
    <3>1. ReadWord(s, w) = [s EXCEPT !.options.flat_bin = w, !.options.flat_bus = TRUE, !.over = TRUE]
      BY <1>3, <2>4 DEF ReadWord
    <3>2. ReadWord(s, w).options = [s.options EXCEPT !.flat_bin = w, !.flat_bus = TRUE]
      BY <3>1 DEF Reads
    <3>3. Sensible([s.options EXCEPT !.flat_bin = w, !.flat_bus = TRUE])
      BY BinaryStaysSensible
    <3> QED BY <3>2, <3>3
  <2> QED BY <2>1, <2>2, <2>3, <2>4
<1> QED
  BY <1>1, <1>2, <1>3

LEMMA SwitchesAreSensible ==
  ASSUME NEW words \in Seq(DOMAIN Says)
  PROVE  Sensible(FromSwitches(words).options)
<1> DEFINE n == Len(words)
<1>1. n \in Nat /\ \A i \in 1 .. n : words[i] \in DOMAIN Says
  BY LenProperties, ElementOfSeq
<1>2. PICK f \in [0 .. n -> Reads] : WordsRead(f, words) /\ FromSwitches(words) = LineOver(f[n])
  BY SwitchesAreRead
<1> DEFINE S == {k \in 0 .. n : Sensible(f[k].options)}
<1>3. 0 \in S
  <2>1. f[0].options = Defaults
    BY <1>2 DEF WordsRead, LineStart
  <2> QED BY <1>1, <2>1, DefaultsAreSensible
<1>4. ASSUME NEW k \in 0 .. n - 1, k \in S PROVE k + 1 \in S
  <2>1. k + 1 \in 1 .. n /\ (k + 1) - 1 = k /\ k \in 0 .. n /\ k + 1 \in 0 .. n
    BY <1>1
  <2>2. f[k + 1] = ReadWord(f[k], words[k + 1])
    BY <1>2, <2>1 DEF WordsRead
  <2>3. f[k] \in Reads /\ Sensible(f[k].options) /\ words[k + 1] \in DOMAIN Says
    BY <1>1, <1>2, <1>4, <2>1
  <2>4. Sensible(f[k + 1].options)
    BY <2>2, <2>3, WordSensible
  <2> QED BY <2>1, <2>4
<1>5. Sensible(f[n].options)
  <2> HIDE DEF S
  <2>1. \A k \in 0 .. n : k \in S
    BY <1>1, <1>3, <1>4, BoundedInduction
  <2>2. n \in S
    BY <1>1, <2>1
  <2> QED BY <2>2 DEF S
<1> QED
  BY <1>2, <1>5, DefaultsAreSensible DEF LineOver, Refused, Granted

LEMMA FileIsSensible ==
  ASSUME NEW lines, IsLines(lines), FileAccepted(lines)
  PROVE  Sensible(FileOptions(lines))
<1> DEFINE n == Len(lines)
<1>1. n \in Nat /\ \A i \in 1 .. n : lines[i].value \in DOMAIN Says /\ Accepts(lines[i].key, lines[i].value)
  <2>1. n \in Nat /\ DOMAIN lines = 1 .. n
    BY LenProperties DEF IsLines
  <2>2. ASSUME NEW i \in 1 .. n PROVE lines[i].value \in DOMAIN Says
    <3>1. lines[i] \in [key : STRING, value : DOMAIN Says]
      BY ElementOfSeq DEF IsLines
    <3> QED BY <3>1
  <2> QED BY <2>1, <2>2 DEF FileAccepted
<1>2. PICK f \in [0 .. n -> Options] : LinesApplied(f, lines) /\ FileOptions(lines) = f[n]
  BY LinesAreApplied
<1> DEFINE S == {k \in 0 .. n : Sensible(f[k])}
<1>3. 0 \in S
  BY <1>1, <1>2, DefaultsAreSensible DEF LinesApplied
<1>4. ASSUME NEW k \in 0 .. n - 1, k \in S PROVE k + 1 \in S
  <2>1. k + 1 \in 1 .. n /\ (k + 1) - 1 = k /\ k + 1 \in 0 .. n
    BY <1>1
  <2>2. f[k + 1] = ApplyKey(f[k], lines[k + 1].key, lines[k + 1].value)
    BY <1>2, <2>1 DEF LinesApplied
  <2>3. Sensible(f[k])
    BY <1>4
  <2>4. Sensible(f[k + 1])
    BY <1>1, <2>1, <2>2, <2>3, KeySensible
  <2> QED BY <2>1, <2>4
<1>5. n \in S
  <2> HIDE DEF S
  <2>1. \A k \in 0 .. n : k \in S
    BY <1>1, <1>3, <1>4, BoundedInduction
  <2> QED BY <1>1, <2>1
<1> QED
  BY <1>2, <1>5

(* Whatever is asked for, with whatever files there are. *)
LEMMA AskedIsSensible ==
  ASSUME NEW words \in Seq(DOMAIN Says), NEW files, \A p \in DOMAIN files : IsLines(files[p])
  PROVE  Sensible(Asked(words, files).options)
<1> DEFINE named == {i \in DOMAIN words : ~Says[words[i]].dash /\ Says[words[i]].config}
           path == words[CHOOSE i \in named : TRUE]
<1>1. Asked(words, files)
        = CASE (\E i \in DOMAIN words : words[i] = "-h") \/ Cardinality(named) > 1 -> Refused
            [] OTHER -> IF named = {} THEN FromSwitches(words) ELSE FromFile(words, path, files)
  BY Zenon DEF Asked
<1> HIDE DEF named, path
<1>2. \/ Asked(words, files) = Refused
      \/ Asked(words, files) = FromSwitches(words)
      \/ Asked(words, files) = FromFile(words, path, files)
  BY <1>1
<1>3. Sensible(Refused.options)
  BY DefaultsAreSensible DEF Refused
<1>4. Sensible(FromFile(words, path, files).options)
  <2>1. CASE path \in DOMAIN files /\ FileAccepted(files[path])
    <3>1. Sensible(FileOptions(files[path]))
      BY <2>1, FileIsSensible
    <3> QED BY <1>3, <3>1 DEF FromFile, Granted
  <2>2. CASE ~(path \in DOMAIN files /\ FileAccepted(files[path]))
    BY <1>3, <2>2 DEF FromFile
  <2> QED BY <2>1, <2>2
<1> QED
  BY <1>2, <1>3, <1>4, SwitchesAreSensible

-----------------------------------------------------------------------------
(* What a text says *)

(* Of a set of numbers, the one with so many before it. *)
LEMMA RankExists ==
  ASSUME NEW m \in Nat, NEW S \in SUBSET (1 .. m), NEW n \in 1 .. Cardinality(S)
  PROVE  \E i \in S : Cardinality({j \in S : j < i}) = n - 1
<1> DEFINE B(k) == {j \in S : j <= k}
           T == {k \in 0 .. m : n <= Cardinality(B(k))}
<1>0. \A j \in S : j \in Int /\ 1 <= j /\ j <= m
  OBVIOUS
<1>1. ASSUME NEW k \in 0 .. m PROVE IsFiniteSet(B(k)) /\ Cardinality(B(k)) \in Nat
  <2>1. IsFiniteSet(1 .. m)
    BY FS_Interval
  <2>2. \A A \in SUBSET (1 .. m) : IsFiniteSet(A)
    BY <2>1, FS_Subset
  <2>3. \A j \in B(k) : j \in 1 .. m
    BY <1>0
  <2>4. B(k) \in SUBSET (1 .. m)
    BY <2>3
  <2>5. IsFiniteSet(B(k))
    BY <2>2, <2>4
  <2> HIDE DEF B
  <2> QED BY <2>5, FS_CardinalityType
<1>2. B(m) = S /\ B(0) = {}
  <2>1. \A j : j \in B(m) <=> j \in S
    BY <1>0
  <2>2. \A j \in S : ~(j <= 0)
    BY <1>0
  <2>3. \A j : ~(j \in B(0))
    BY <2>2
  <2> HIDE DEF B
  <2> QED BY <2>1, <2>3
<1>3. m \in T
  <2>1. Cardinality(B(m)) = Cardinality(S) /\ Cardinality(B(m)) \in Nat
    BY <1>1, <1>2
  <2>2. n <= Cardinality(B(m)) /\ m \in 0 .. m
    BY <2>1
  <2> HIDE DEF B
  <2> QED BY <2>2
<1>4. T \in SUBSET Nat /\ T # {}
  BY <1>3
<1> HIDE DEF T
<1>5. PICK k \in T : \A j \in T : k <= j
  BY <1>4, LeastElement, Zenon
<1>6. k \in 0 .. m /\ n <= Cardinality(B(k))
  BY <1>5 DEF T
<1>7. k # 0
  <2>1. Cardinality({}) = 0
    BY FS_EmptySet
  <2> QED BY <1>2, <1>6, <2>1
<1>8. k - 1 \in 0 .. m /\ k - 1 \notin T
  BY <1>5, <1>6, <1>7
<1>9. Cardinality(B(k - 1)) < n /\ Cardinality(B(k - 1)) \in Nat /\ IsFiniteSet(B(k - 1))
  <2>1. Cardinality(B(k - 1)) \in Nat /\ IsFiniteSet(B(k - 1))
    BY <1>1, <1>8
  <2> HIDE DEF B
  <2>2. ~(n <= Cardinality(B(k - 1)))
    BY <1>8 DEF T
  <2> QED BY <2>1, <2>2
<1>10. k \in S
  <2> SUFFICES ASSUME k \notin S PROVE FALSE
    OBVIOUS
  <2>1. \A j \in S : j <= k <=> j <= k - 1
    <3> SUFFICES ASSUME NEW j \in S PROVE j <= k <=> j <= k - 1
      OBVIOUS
    <3>1. j \in Int /\ j # k /\ k \in Int
      BY <1>0, <1>6
    <3> QED BY <3>1
  <2>2. \A j : j \in B(k) <=> j \in B(k - 1)
    BY <2>1
  <2>3. B(k) = B(k - 1)
    <3> HIDE DEF B
    <3> QED BY <2>2
  <2>4. Cardinality(B(k)) = Cardinality(B(k - 1))
    BY <2>3
  <2> HIDE DEF B
  <2> QED BY <1>6, <1>9, <2>4
<1>11. B(k) = B(k - 1) \union {k} /\ k \notin B(k - 1)
  <2>0. \A j \in S : j <= k <=> j <= k - 1 \/ j = k
    <3> SUFFICES ASSUME NEW j \in S PROVE j <= k <=> j <= k - 1 \/ j = k
      OBVIOUS
    <3>1. j \in Int /\ k \in Int
      BY <1>0, <1>6
    <3> QED BY <3>1
  <2>1. \A j : j \in B(k) <=> j \in B(k - 1) \/ j = k
    BY <2>0, <1>10
  <2>2. k \notin B(k - 1)
    BY <1>6
  <2> HIDE DEF B
  <2> QED BY <2>1, <2>2
<1>12. {j \in S : j < k} = B(k - 1)
  <2>1. \A j \in S : j < k <=> j <= k - 1
    BY <1>0, <1>6
  <2> QED BY <2>1
<1> HIDE DEF B
<1>13. Cardinality(B(k)) = Cardinality(B(k - 1)) + 1
  BY <1>9, <1>11, FS_AddElement
<1>14. Cardinality(B(k - 1)) = n - 1
  <2>1. n \in Int
    BY <1>6
  <2> QED BY <1>6, <1>9, <1>13, <2>1
<1> QED
  BY <1>10, <1>12, <1>14

(* The numbers of a text stand in it and consist of digits. *)
LEMMA NumbersAreDigits ==
  ASSUME NEW t \in Seq(0 .. JUNK)
  PROVE  \E c \in Nat :
           /\ NumbersIn(t) \in [1 .. c -> (1 .. Len(t)) \X (1 .. Len(t))]
           /\ \A n \in 1 .. c :
                LET p == NumbersIn(t)[n] IN p[1] <= p[2] /\ \A k \in p[1] .. p[2] : t[k] \in Digits
<1> DEFINE starts == {i \in DOMAIN t : t[i] \in Digits /\ (i = 1 \/ t[i - 1] \notin Digits)}
           Start(n) == CHOOSE i \in starts : Cardinality({j \in starts : j < i}) = n - 1
           Run(i) == {j \in i .. Len(t) : \A k \in i .. j : t[k] \in Digits}
           c == Cardinality(starts)
<1>1. Len(t) \in Nat /\ DOMAIN t = 1 .. Len(t)
  BY LenProperties
<1>2. starts \in SUBSET (1 .. Len(t)) /\ \A i \in starts : t[i] \in Digits
  BY <1>1
<1>3. c \in Nat
  <2> HIDE DEF starts
  <2>1. IsFiniteSet(1 .. Len(t))
    BY <1>1, FS_Interval
  <2>2. IsFiniteSet(starts)
    BY <1>2, <2>1, FS_Subset
  <2> QED BY <2>2, FS_CardinalityType
<1>4. ASSUME NEW n \in 1 .. c PROVE Start(n) \in starts
  <2> HIDE DEF starts
  <2>1. \E i \in starts : Cardinality({j \in starts : j < i}) = n - 1
    BY <1>1, <1>2, RankExists
  <2> QED BY <2>1
<1>5. NumbersIn(t) = [n \in 1 .. c |-> <<Start(n), Max(Run(Start(n)))>>]
  BY DEF NumbersIn
<1>6. ASSUME NEW i \in starts PROVE Max(Run(i)) \in Run(i)
  <2>1. i \in Nat /\ i <= Len(t)
    BY <1>1, <1>2
  <2>2. i \in Run(i)
    BY <1>2, <2>1
  <2>3. Run(i) \in SUBSET (0 .. Len(t))
    BY <2>1
  <2> HIDE DEF Run
  <2>4. \E x \in Run(i) : \A y \in Run(i) : y <= x
    BY <1>1, <2>2, <2>3, GreatestElement
  <2>5. \E x \in Run(i) : \A y \in Run(i) : x >= y
    BY <1>1, <2>3, <2>4
  <2> QED BY <2>5 DEF Max
<1> HIDE DEF starts, Start, c
<1>7. ASSUME NEW n \in 1 .. c
      PROVE  /\ Start(n) \in 1 .. Len(t) /\ Max(Run(Start(n))) \in 1 .. Len(t)
             /\ Start(n) <= Max(Run(Start(n)))
             /\ \A k \in Start(n) .. Max(Run(Start(n))) : t[k] \in Digits
  <2> DEFINE i == Start(n)
             e == Max(Run(i))
  <2>1. i \in starts /\ i \in 1 .. Len(t)
    BY <1>2, <1>4
  <2>2. e \in Run(i)
    BY <1>6, <2>1
  <2> HIDE DEF i, e
  <2>3. e \in i .. Len(t) /\ \A k \in i .. e : t[k] \in Digits
    BY <2>2
  <2>4. e \in 1 .. Len(t) /\ i <= e
    BY <1>1, <2>1, <2>3
  <2> QED BY <2>1, <2>3, <2>4 DEF i, e
<1> HIDE DEF Run
<1> DEFINE stop(n) == Max(Run(Start(n)))
<1>8. NumbersIn(t) = [n \in 1 .. c |-> <<Start(n), stop(n)>>]
  BY <1>5
<1>9. \A n \in 1 .. c : /\ Start(n) \in 1 .. Len(t) /\ stop(n) \in 1 .. Len(t)
                       /\ Start(n) <= stop(n) /\ \A k \in Start(n) .. stop(n) : t[k] \in Digits
  BY <1>7
<1> HIDE DEF stop, Start
<1>10. NumbersIn(t) \in [1 .. c -> (1 .. Len(t)) \X (1 .. Len(t))]
  BY <1>8, <1>9
<1>11. ASSUME NEW n \in 1 .. c
       PROVE  LET p == NumbersIn(t)[n] IN p[1] <= p[2] /\ \A k \in p[1] .. p[2] : t[k] \in Digits
  <2>1. NumbersIn(t)[n] = <<Start(n), stop(n)>>
    BY <1>8
  <2> QED BY <1>9, <2>1
<1> QED
  BY <1>3, <1>10, <1>11

Images   == UNION {[S -> Byte] : S \in SUBSET Address}
Readouts == [at : Address, image : Images, found : BOOLEAN, run : Address \union {NoRun}]

LEMMA InImages ==
  ASSUME NEW f
  PROVE  f \in Images <=> IsImage(f) /\ DOMAIN f \subseteq Address
<1>1. Address \subseteq Nat
  BY DEF Address, TOP
<1>2. ASSUME f \in Images PROVE IsImage(f) /\ DOMAIN f \subseteq Address
  <2>1. PICK S \in SUBSET Address : f \in [S -> Byte]
    BY <1>2 DEF Images
  <2> QED BY <1>1, <2>1 DEF IsImage
<1>3. ASSUME IsImage(f), DOMAIN f \subseteq Address PROVE f \in Images
  BY <1>3 DEF IsImage, Images
<1> QED
  BY <1>2, <1>3

LEMMA WrapsToAddress == \A x \in Int : x % Wrap \in Address
<1>1. ASSUME NEW n \in Nat, n # 0, NEW x \in Int PROVE x % n \in 0 .. n - 1
  BY <1>1, SMT
<1>2. Wrap \in Nat /\ Wrap # 0 /\ Wrap - 1 = TOP
  BY SMT DEF Wrap, TOP
<1>3. ASSUME NEW x \in Int PROVE x % Wrap \in 0 .. Wrap - 1
  BY <1>1, <1>2
<1> QED
  BY <1>2, <1>3 DEF Address

LEMMA DigitBehind ==
  ASSUME NEW b \in Nat, NEW x \in Nat, x <= b, NEW d \in 0 .. 15
  PROVE  16 * x + d \in Nat /\ 16 * x + d <= 16 * b + 15
OBVIOUS

(* What a number of up to four digits comes to. *)
LEMMA NumberIsAddress ==
  ASSUME NEW n \in 0 .. 4, NEW d \in Seq(Digits), Len(d) = n
  PROVE  Number(d) \in Address
<1> DEFINE step == [p \in Nat \X (1 .. n) |-> 16 * p[1] + d[p[2]]]
           upTo[i \in 0 .. n] == IF i = 0 THEN 0 ELSE 16 * upTo[i - 1] + d[i]
<1>1. \A i \in 1 .. n : d[i] \in 0 .. 15
  <2>1. \A i \in 1 .. n : d[i] \in Digits
    BY ElementOfSeq
  <2> QED BY <2>1 DEF Digits
<1>2. step \in [Nat \X (1 .. n) -> Nat]
  <2>1. ASSUME NEW p \in Nat \X (1 .. n) PROVE 16 * p[1] + d[p[2]] \in Nat
    <3>1. p[1] \in Nat /\ d[p[2]] \in 0 .. 15
      BY <1>1
    <3> QED BY <3>1, SMTT(30)
  <2> QED BY <2>1
<1>3. ASSUME NEW s \in Nat, NEW i \in 1 .. n PROVE step[<<s, i>>] = 16 * s + d[i]
  <2>1. <<s, i>> \in Nat \X (1 .. n) /\ <<s, i>>[1] = s /\ <<s, i>>[2] = i
    OBVIOUS
  <2> QED BY <2>1
<1> HIDE DEF step
<1>4. PICK f \in [0 .. n -> Nat] : Recurs(f, n, 0, step)
  <2>1. n \in Nat /\ 0 \in Nat
    OBVIOUS
  <2> QED BY <1>2, <2>1, RecursionExists
<1>5. f[0] = 0 /\ \A i \in 1 .. n : f[i] = 16 * f[i - 1] + d[i]
  <2>1. \A i \in 1 .. n : i - 1 \in 0 .. n
    OBVIOUS
  <2> QED BY <1>3, <1>4, <2>1 DEF Recurs
<1>6. upTo = [i \in 0 .. n |-> IF i = 0 THEN 0 ELSE 16 * upTo[i - 1] + d[i]]
  <2>1. \A i \in 0 .. n : i = 0 \/ i \in 1 .. n
    OBVIOUS
  <2>2. f = [i \in 0 .. n |-> IF i = 0 THEN 0 ELSE 16 * f[i - 1] + d[i]]
    BY <1>5, <2>1
  <2> QED BY <2>2
<1>7. Number(d) = upTo[n]
  BY DEF Number
<1> HIDE DEF upTo
<1>8. upTo[0] = 0 /\ \A i \in 1 .. n : upTo[i] = 16 * upTo[i - 1] + d[i]
  <2>1. 0 \in 0 .. n /\ \A i \in 1 .. n : i \in 0 .. n /\ i # 0
    OBVIOUS
  <2> QED BY <1>6, <2>1
<1> DEFINE Most(i, b) == upTo[i] \in Nat /\ upTo[i] <= b
<1>9. Most(0, 0)
  BY <1>8
<1>10. ASSUME NEW i \in 0 .. 3, NEW b \in Nat, i + 1 <= n, Most(i, b)
       PROVE  Most(i + 1, 16 * b + 15)
  <2>1. i + 1 \in 1 .. n /\ (i + 1) - 1 = i
    BY <1>10
  <2>2. upTo[i + 1] = 16 * upTo[i] + d[i + 1] /\ d[i + 1] \in 0 .. 15
    BY <1>1, <1>8, <2>1
  <2> QED BY <1>10, <2>2, DigitBehind
<1> HIDE DEF Most
<1>11. 1 <= n => Most(1, 15)
  <2>1. 0 \in 0 .. 3 /\ 0 + 1 = 1 /\ 16 * 0 + 15 = 15 /\ 0 \in Nat
    OBVIOUS
  <2> QED BY <1>9, <1>10, <2>1
<1>12. 2 <= n => Most(2, 255)
  <2>1. 1 \in 0 .. 3 /\ 1 + 1 = 2 /\ 16 * 15 + 15 = 255 /\ 15 \in Nat /\ (2 <= n => 1 <= n)
    OBVIOUS
  <2> QED BY <1>10, <1>11, <2>1
<1>13. 3 <= n => Most(3, 4095)
  <2>1. 2 \in 0 .. 3 /\ 2 + 1 = 3 /\ 16 * 255 + 15 = 4095 /\ 255 \in Nat /\ (3 <= n => 2 <= n)
    OBVIOUS
  <2> QED BY <1>10, <1>12, <2>1
<1>14. 4 <= n => Most(4, 65535)
  <2>1. 3 \in 0 .. 3 /\ 3 + 1 = 4 /\ 16 * 4095 + 15 = 65535 /\ 4095 \in Nat /\ (4 <= n => 3 <= n)
    OBVIOUS
  <2> QED BY <1>10, <1>13, <2>1
<1>15. upTo[n] \in Nat /\ upTo[n] <= 65535
  <2>1. n = 0 \/ n = 1 \/ n = 2 \/ n = 3 \/ n = 4
    OBVIOUS
  <2> QED BY <1>9, <1>11, <1>12, <1>13, <1>14, <2>1, SMTT(30) DEF Most
<1> QED
  BY <1>7, <1>15, AddressBounds, Top

LEMMA BytesOfDigits ==
  ASSUME NEW d \in Seq(Digits)
  PROVE  BytesOf(d) \in Seq(Byte)
<1>1. Len(d) \in Nat /\ \A i \in 1 .. Len(d) : d[i] \in 0 .. 15
  BY LenProperties, ElementOfSeq DEF Digits
<1>2. ASSUME NEW k \in 1 .. Len(d) \div 2 PROVE 16 * d[2 * k - 1] + d[2 * k] \in Byte
  <2>1. 2 * k - 1 \in 1 .. Len(d) /\ 2 * k \in 1 .. Len(d)
    BY <1>1
  <2>2. d[2 * k - 1] \in 0 .. 15 /\ d[2 * k] \in 0 .. 15
    BY <1>1, <2>1
  <2>3. \A x \in 0 .. 15, y \in 0 .. 15 : 16 * x + y \in Byte
    BY DEF Byte
  <2> QED BY <2>2, <2>3
<1>3. Len(d) \div 2 \in Nat
  BY <1>1
<1> QED
  BY <1>2, <1>3 DEF BytesOf

LEMMA PutKeeps ==
  ASSUME NEW r \in Readouts, NEW bytes \in Seq(Byte)
  PROVE  Put(r, bytes) \in Readouts
<1> DEFINE Place(k) == (r.at + k - 1) % Wrap
           places == {Place(k) : k \in DOMAIN bytes}
           which(a) == CHOOSE k \in DOMAIN bytes : Place(k) = a
           image == [a \in places \union DOMAIN r.image |-> IF a \in places THEN bytes[which(a)] ELSE r.image[a]]
<1>1. Len(bytes) \in Nat /\ DOMAIN bytes = 1 .. Len(bytes) /\ \A k \in 1 .. Len(bytes) : bytes[k] \in Byte
  BY LenProperties, ElementOfSeq
<1>2. r.at \in Int
  <2>1. r.at \in Address
    BY DEF Readouts
  <2> QED BY <2>1, AddressBounds
<1>3. \A k \in Int : Place(k) \in Address
  <2>1. \A k \in Int : r.at + k - 1 \in Int
    BY <1>2
  <2> QED BY <2>1, WrapsToAddress
<1>4. places \in SUBSET Address
  <2> HIDE DEF Place
  <2> QED BY <1>1, <1>3
<1>5. \A a \in places : bytes[which(a)] \in Byte
  <2> SUFFICES ASSUME NEW a \in places PROVE bytes[which(a)] \in Byte
    OBVIOUS
  <2> HIDE DEF Place
  <2>1. which(a) \in DOMAIN bytes
    OBVIOUS
  <2> QED BY <1>1, <2>1
<1>6. PICK D \in SUBSET Address : r.image \in [D -> Byte]
  BY DEF Readouts, Images
<1>7. image \in [places \union D -> Byte]
  <2> HIDE DEF places, which
  <2> QED BY <1>5, <1>6
<1>8. image \in Images
  <2>1. places \union D \in SUBSET Address
    BY <1>4, <1>6
  <2> HIDE DEF image, places
  <2> QED BY <1>7, <2>1 DEF Images
<1>12. Place(Len(bytes) + 1) \in Address
  <2>1. Len(bytes) + 1 \in Int
    BY <1>1
  <2> HIDE DEF Place
  <2> QED BY <1>3, <2>1
<1>13. Put(r, bytes) = [r EXCEPT !.at = Place(Len(bytes) + 1), !.image = image, !.found = r.found \/ bytes # <<>>]
  BY Zenon DEF Put, image, places, which
<1> HIDE DEF image, Place
<1>14. (r.found \/ bytes # <<>>) \in BOOLEAN
  BY DEF Readouts
<1> QED
  BY <1>8, <1>12, <1>13, <1>14 DEF Readouts

LEMMA AddressIsShort ==
  ASSUME NEW n \in Nat, NEW d \in Seq(Digits), Len(d) = n
  PROVE  /\ Before(d) \in Seq(Byte)
         /\ AddressIn(d) \in Address
<1> DEFINE k == AddressAt(d)
           s == SubSeq(d, k + 1, n)
<1>1. k = IF n > 4 THEN n - 4 ELSE 0
  BY DEF AddressAt
<1>2. k \in Nat /\ k <= n /\ n - k <= 4
  BY <1>1
<1> HIDE DEF k
<1>3. \A i \in 1 .. n : d[i] \in Digits
  BY ElementOfSeq
<1>4. SubSeq(d, 1, k) \in Seq(Digits)
  <2>1. \A i \in 1 .. k : d[i] \in Digits
    BY <1>2, <1>3
  <2>2. 1 \in Int /\ k \in Int
    BY <1>2
  <2> QED BY <2>1, <2>2, SubSeqProperties
<1>5. s \in Seq(Digits) /\ Len(s) = n - k
  <2>1. \A i \in k + 1 .. n : d[i] \in Digits
    BY <1>2, <1>3
  <2>2. k + 1 \in Int /\ n \in Int
    BY <1>2
  <2>3. s \in Seq(Digits) /\ Len(s) = IF k + 1 <= n THEN n - (k + 1) + 1 ELSE 0
    BY <2>1, <2>2, SubSeqProperties
  <2>4. (IF k + 1 <= n THEN n - (k + 1) + 1 ELSE 0) = n - k
    BY <1>2
  <2> QED BY <2>3, <2>4
<1>6. n - k \in 0 .. 4
  BY <1>2
<1> HIDE DEF s
<1>7. Number(s) \in Address
  BY <1>5, <1>6, NumberIsAddress
<1> QED
  BY <1>4, <1>7, BytesOfDigits DEF Before, AddressIn, k, s

LEMMA NumberRead ==
  ASSUME NEW t \in Seq(0 .. JUNK), NEW r \in Readouts, NEW p \in (1 .. Len(t)) \X (1 .. Len(t)),
         p[1] <= p[2], \A k \in p[1] .. p[2] : t[k] \in Digits
  PROVE  ReadNumber(t, r, p) \in Readouts
<1> DEFINE d == SubSeq(t, p[1], p[2])
           n == p[2] - p[1] + 1
           marked == p[1] > 1 /\ t[p[1] - 1] = MARKER
           runs   == Follows(t, p[2], RUN)
           moves  == FollowsBlanks(t, p[2], COLON) /\ Len(d) >= 3
           put    == Put(r, Before(d))
<1>1. d \in Seq(Digits) /\ Len(d) = n /\ n \in Nat
  <2>1. p[1] \in Int /\ p[2] \in Int
    OBVIOUS
  <2>2. d \in Seq(Digits) /\ Len(d) = IF p[1] <= p[2] THEN p[2] - p[1] + 1 ELSE 0
    BY <2>1, SubSeqProperties
  <2> QED BY <2>1, <2>2
<1>2. ReadNumber(t, r, p)
        = CASE marked \/ (runs /\ Len(d) < 4)    -> r
            [] ~marked /\ runs /\ Len(d) >= 4    -> [put EXCEPT !.run = AddressIn(d)]
            [] ~marked /\ ~runs /\ moves         -> [put EXCEPT !.at = AddressIn(d), !.found = TRUE]
            [] ~marked /\ ~runs /\ ~moves        -> Put(r, BytesOf(d))
  BY Zenon DEF ReadNumber
<1> HIDE DEF d, n, marked, runs, moves, put
<1>3. put \in Readouts /\ AddressIn(d) \in Address
  BY <1>1, AddressIsShort, PutKeeps DEF put
<1>4. Put(r, BytesOf(d)) \in Readouts
  BY <1>1, BytesOfDigits, PutKeeps
<1>5. /\ [put EXCEPT !.run = AddressIn(d)] \in Readouts
      /\ [put EXCEPT !.at = AddressIn(d), !.found = TRUE] \in Readouts
  BY <1>3 DEF Readouts
<1>6. Len(d) < 4 \/ Len(d) >= 4
  BY <1>1
<1> QED
  BY <1>2, <1>4, <1>5, <1>6

LEMMA CleanedIsText ==
  ASSUME NEW text \in Seq(0 .. JUNK)
  PROVE  Cleaned(text) \in Seq(0 .. JUNK)
<1>1. Len(text) \in Nat /\ DOMAIN text = 1 .. Len(text) /\ \A i \in 1 .. Len(text) : text[i] \in 0 .. JUNK
  BY LenProperties, ElementOfSeq
<1>2. SPACE \in 0 .. JUNK
  BY DEF SPACE, JUNK
<1>3. Cleaned(text) \in [1 .. Len(text) -> 0 .. JUNK]
  BY <1>1, <1>2 DEF Cleaned
<1> QED
  BY <1>1, <1>3, SeqDef

LEMMA NothingIsReadout == Nothing \in Readouts
<1>1. [a \in {} |-> 0] \in [{} -> Byte] /\ {} \in SUBSET Address
  OBVIOUS
<1>2. [a \in {} |-> 0] \in Images
  BY <1>1 DEF Images
<1>3. 0 \in Address
  BY AddressBounds, Top
<1> QED
  BY <1>2, <1>3 DEF Nothing, Readouts, NoRun, NoRunAddress

(* Whatever a text says: bytes at addresses, and an address to run or none. *)
LEMMA ReadingIsReadout ==
  ASSUME NEW text \in Seq(0 .. JUNK)
  PROVE  Reading(text) \in Readouts
<1> DEFINE t == Cleaned(text)
           numbers == NumbersIn(t)
           read(r, n) == ReadNumber(t, r, numbers[n])
<1>1. t \in Seq(0 .. JUNK)
  BY CleanedIsText
<1> HIDE DEF t
<1>2. PICK c \in Nat :
        /\ numbers \in [1 .. c -> (1 .. Len(t)) \X (1 .. Len(t))]
        /\ \A n \in 1 .. c : numbers[n][1] <= numbers[n][2]
                             /\ \A k \in numbers[n][1] .. numbers[n][2] : t[k] \in Digits
  BY <1>1, NumbersAreDigits
<1>3. Len(numbers) = c
  BY <1>2
<1> HIDE DEF numbers
<1>4. ASSUME NEW r \in Readouts, NEW n \in 1 .. c PROVE read(r, n) \in Readouts
  <2>1. numbers[n] \in (1 .. Len(t)) \X (1 .. Len(t))
    BY <1>2
  <2> QED BY <1>1, <1>2, <2>1, NumberRead
<1>5. Nothing \in Readouts
  BY NothingIsReadout
<1> DEFINE step == [p \in Readouts \X (1 .. c) |-> read(p[1], p[2])]
           upTo[n \in 0 .. c] == IF n = 0 THEN Nothing ELSE read(upTo[n - 1], n)
<1>6. Reading(text) = upTo[c]
  BY <1>3 DEF Reading, t, numbers
<1> HIDE DEF read
<1>7. step \in [Readouts \X (1 .. c) -> Readouts]
  BY <1>4
<1>8. ASSUME NEW r \in Readouts, NEW i \in 1 .. c PROVE step[<<r, i>>] = read(r, i)
  <2>1. <<r, i>> \in Readouts \X (1 .. c) /\ <<r, i>>[1] = r /\ <<r, i>>[2] = i
    OBVIOUS
  <2> QED BY <2>1
<1> HIDE DEF step
<1>9. PICK f \in [0 .. c -> Readouts] : Recurs(f, c, Nothing, step)
  BY <1>5, <1>7, RecursionExists
<1>10. f[0] = Nothing /\ \A i \in 1 .. c : f[i] = read(f[i - 1], i)
  <2>1. \A i \in 1 .. c : i - 1 \in 0 .. c
    OBVIOUS
  <2> QED BY <1>8, <1>9, <2>1 DEF Recurs
<1>11. upTo = [n \in 0 .. c |-> IF n = 0 THEN Nothing ELSE read(upTo[n - 1], n)]
  <2>1. \A i \in 0 .. c : i = 0 \/ i \in 1 .. c
    OBVIOUS
  <2>2. f = [n \in 0 .. c |-> IF n = 0 THEN Nothing ELSE read(f[n - 1], n)]
    BY <1>10, <2>1
  <2> QED BY <2>2
<1> HIDE DEF upTo
<1> DEFINE S == {n \in 0 .. c : upTo[n] \in Readouts}
<1>12. 0 \in S
  BY <1>5, <1>11
<1>13. ASSUME NEW k \in 0 .. c - 1, k \in S PROVE k + 1 \in S
  <2>1. k + 1 \in 1 .. c /\ k + 1 \in 0 .. c /\ k + 1 # 0 /\ (k + 1) - 1 = k
    OBVIOUS
  <2>2. upTo[k + 1] = read(upTo[k], k + 1)
    BY <1>11, <2>1
  <2> QED BY <1>4, <1>13, <2>1, <2>2
<1>14. c \in S
  <2> HIDE DEF S
  <2>1. \A k \in 0 .. c : k \in S
    BY <1>12, <1>13, BoundedInduction
  <2> QED BY <2>1
<1> QED
  BY <1>6, <1>14

-----------------------------------------------------------------------------
(* The machine of a command *)

(* A sequence is one of its elements. *)
OfItsOwn(s) == s \in Seq({s[i] : i \in DOMAIN s})

LEMMA SeqOfItsElements ==
  ASSUME NEW X, NEW s \in Seq(X)
  PROVE  OfItsOwn(s)
<1>1. Len(s) \in Nat /\ DOMAIN s = 1 .. Len(s) /\ s = [i \in 1 .. Len(s) |-> s[i]]
  BY LenProperties, SeqDef
<1> DEFINE Y == {s[i] : i \in DOMAIN s}
<1>2. \A i \in 1 .. Len(s) : s[i] \in Y
  BY <1>1
<1> HIDE DEF Y
<1>3. s \in [1 .. Len(s) -> Y]
  BY <1>1, <1>2
<1>4. s \in Seq(Y)
  BY <1>1, <1>3, SeqDef
<1> QED
  BY <1>4 DEF Y, OfItsOwn

IsBinary(b) == IsImage(b.image) /\ b.run \in Address \union {NoRun}

LEMMA BinariesAreBinaries ==
  ASSUME NEW disk, \A p \in DOMAIN disk : IsFile(disk[p]), NEW path, NEW at \in Nat,
         NEW run \in Address \union {NoRun}
  PROVE  IsBinary(BinaryAt(disk, path, at, run))
<1> DEFINE bytes == IF path \in DOMAIN disk THEN disk[path].bytes ELSE <<>>
           image == [a \in at .. at + Len(bytes) - 1 |-> bytes[a - at + 1]]
<1>1. bytes \in Seq(Byte)
  BY EmptySeq DEF IsFile
<1>2. BinaryAt(disk, path, at, run) = [image |-> image, run |-> run]
  BY DEF BinaryAt
<1> HIDE DEF bytes
<1>3. PICK n \in Nat : Len(bytes) = n
  BY <1>1, LenProperties
<1>4. \A i \in 1 .. n : bytes[i] \in Byte
  BY <1>1, <1>3, ElementOfSeq
<1>5. \A a \in at .. at + n - 1 : a - at + 1 \in 1 .. n
  BY <1>3
<1>6. image \in [at .. at + n - 1 -> Byte]
  BY <1>3, <1>4, <1>5
<1>7. at .. at + n - 1 \subseteq Nat
  OBVIOUS
<1> HIDE DEF image
<1>8. IsImage(image)
  BY <1>6, <1>7 DEF IsImage
<1> QED
  BY <1>2, <1>8 DEF IsBinary

LEMMA BinariesOfCommand ==
  ASSUME NEW disk, \A p \in DOMAIN disk : IsFile(disk[p]), NEW o, Sensible(o)
  PROVE  /\ OfItsOwn(BinariesOf(o, disk))
         /\ \A i \in DOMAIN BinariesOf(o, disk) : IsBinary(BinariesOf(o, disk)[i])
<1> DEFINE s == BinariesOf(o, disk)
           flat == BinaryAt(disk, o.flat_bin, 0, 1024)
           load == BinaryAt(disk, o.load, o.loadAt, NoRun)
           Both == {flat, load}
           first == IF o.flat_bin = NoPath THEN <<>> ELSE <<flat>>
           second == IF o.load = NoPath THEN <<>> ELSE <<load>>
<1>1. IsBinary(flat)
  <2>1. 1024 \in Address
    BY AddressBounds, Top
  <2> QED BY <2>1, BinariesAreBinaries
<1>2. IsBinary(load)
  <2>1. o.loadAt \in Addresses
    BY DEF Sensible
  <2>2. Addresses = Address
    BY DEF Addresses, Address, TOP
  <2>3. o.loadAt \in Nat
    BY <2>1, <2>2, AddressBounds
  <2> QED BY <2>3, BinariesAreBinaries
<1>3. s = first \o second
  BY DEF BinariesOf
<1> HIDE DEF flat, load, s
<1>4. first \in Seq(Both) /\ second \in Seq(Both)
  <2>1. <<flat>> \in Seq({flat, load}) /\ <<load>> \in Seq({flat, load})
    OBVIOUS
  <2>2. <<>> \in Seq(Both)
    BY EmptySeq
  <2> QED BY <2>1, <2>2
<1> HIDE DEF first, second
<1>5. s \in Seq(Both)
  BY <1>3, <1>4, ConcatProperties
<1>6. \A i \in DOMAIN s : s[i] \in Both
  BY <1>5, ElementOfSeq, LenProperties
<1> HIDE DEF Both
<1>7. OfItsOwn(s)
  BY <1>5, SeqOfItsElements
<1>8. \A i \in DOMAIN s : IsBinary(s[i])
  BY <1>1, <1>2, <1>6 DEF Both
<1> QED
  BY <1>7, <1>8 DEF s

LEMMA TextOfCommand ==
  ASSUME NEW disk, \A p \in DOMAIN disk : IsFile(disk[p]), NEW o
  PROVE  TextOf(o, disk) \in Readouts
<1>1. CASE o.wozmon_txt \in DOMAIN disk
  <2>1. disk[o.wozmon_txt].text \in Seq(0 .. JUNK)
    BY <1>1 DEF IsFile
  <2> QED BY <1>1, <2>1, ReadingIsReadout DEF TextOf
<1>2. CASE o.wozmon_txt \notin DOMAIN disk
  BY <1>2, NothingIsReadout DEF TextOf
<1> QED
  BY <1>1, <1>2

(* The machine a command asks for is one that Apple1Bus starts, if a
   character's time fits the counter of microseconds. *)
THEOREM CommandsMakeMachines ==
  ASSUME NEW c, IsCommand(c), Clock > TEN_BITS
  PROVE  IsMachine(MachineOf(c))
<1> DEFINE disk == c.disk
           asked == Asked(c.words, ConfigLines(disk))
           o     == asked.options
           text  == TextOf(o, disk)
           m     == MachineOf(c)
<1>1. \A p \in DOMAIN disk : IsFile(disk[p])
  BY DEF IsCommand
<1>2. Sensible(o)
  <2>1. ASSUME NEW p \in DOMAIN ConfigLines(disk) PROVE IsLines(ConfigLines(disk)[p])
    <3>1. p \in DOMAIN disk /\ ConfigLines(disk)[p] = disk[p].lines
      BY DEF ConfigLines
    <3>2. IsFile(disk[p])
      BY <1>1, <3>1
    <3> QED BY <3>1, <3>2 DEF IsFile, IsLines
  <2>2. c.words \in Seq(DOMAIN Says)
    BY DEF IsCommand
  <2> HIDE DEF disk
  <2> QED BY <2>1, <2>2, AskedIsSensible
<1>3. text \in Readouts
  BY <1>1, TextOfCommand
<1>4. /\ m.ramSize = c.ramSize /\ m.flat = o.flat_bus /\ m.uses = c.uses
      /\ m.window = IF o.baud = 0 THEN 0 ELSE TEN_BITS \div o.baud
      /\ m.binaries = BinariesOf(o, disk)
      /\ m.text = text.image /\ m.run = text.run
      /\ m.kruSize = IF KrusaderMade(o, disk) THEN SizeOf(disk, o.krusader) ELSE KRU_ROM
  BY DEF MachineOf
<1>5. m.cards \subseteq Cards /\ m.stops \subseteq {"options", "rom", "text", "cards"}
  BY DEF MachineOf
<1> HIDE DEF m, o, asked, text, disk
<1>6. m.ramSize \in RamSizes /\ m.flat \in BOOLEAN /\ m.uses \subseteq Address
  BY <1>2, <1>4 DEF IsCommand, Sensible, m
<1>7. m.kruSize \in 1 .. KRU_ROM
  <2>1. KrusaderMade(o, disk) => SizeOf(disk, o.krusader) \in 1 .. KRU_ROM
    BY DEF KrusaderMade
  <2>2. KRU_ROM \in Nat /\ 1 <= KRU_ROM
    BY SMT DEF KRU_ROM
  <2> QED BY <1>4, <2>1, <2>2
<1>8. m.binaries \in Seq(Files(m)) /\ \A b \in Files(m) : IsImage(b.image) /\ b.run \in Address \union {NoRun}
  <2>1. OfItsOwn(m.binaries)
    BY <1>1, <1>2, <1>4, BinariesOfCommand
  <2>2. \A i \in DOMAIN m.binaries : IsBinary(m.binaries[i])
    BY <1>1, <1>2, <1>4, BinariesOfCommand
  <2>3. \A b \in Files(m) : IsBinary(b)
    BY <2>2 DEF Files
  <2> QED BY <2>1, <2>3 DEF Files, IsBinary, OfItsOwn
<1>9. IsImage(m.text) /\ DOMAIN m.text \subseteq Address /\ m.run \in Address \union {NoRun}
  <2>1. text.image \in Images /\ text.run \in Address \union {NoRun}
    BY <1>3 DEF Readouts
  <2> QED BY <1>4, <2>1, InImages
<1>10. m.window \in 0 .. Clock - 1
  <2>1. o.baud \in Nat /\ Clock \in Nat
    BY <1>2, BusAssumption DEF Sensible
  <2>2. TEN_BITS \in Nat
    BY SMT DEF TEN_BITS
  <2>3. ASSUME NEW x \in Nat, NEW baud \in Nat, baud # 0 PROVE x \div baud \in Nat /\ x \div baud <= x
    BY <2>3, SMT
  <2>4. CASE o.baud = 0
    BY <1>4, <2>1, <2>2, <2>4, SMT
  <2>5. CASE o.baud # 0
    <3>1. m.window \in Nat /\ m.window <= TEN_BITS
      BY <1>4, <2>1, <2>2, <2>3, <2>5
    <3> QED BY <2>1, <2>2, <3>1, SMT
  <2> QED BY <2>4, <2>5
<1>11. IsMachine(m)
  BY <1>5, <1>6, <1>7, <1>8, <1>9, <1>10 DEF IsMachine
<1> QED
  BY <1>11 DEF m

-----------------------------------------------------------------------------
(* A listing in RAM *)

(* Until the text is loaded there is nothing in RAM but binaries. *)
Unwritten == phase \in {"options", "binaries"} /\ loaded = 0 => DOMAIN ram = {}

ListingInv == Unwritten /\ ListingIsLoaded

(* Each byte of an image falls on the cell of its address. *)
LEMMA StoredIsImage ==
  ASSUME TypeOK, DOMAIN ram = {}, NEW image, IsImage(image),
         NEW hits, hits = {a \in DOMAIN image : RamAddress(opt.ramSize, a)}
  PROVE  /\ DOMAIN Stored(ram, image) = {Cell(a) : a \in hits}
         /\ \A a \in hits : Stored(ram, image)[Cell(a)] = image[a]
<1> DEFINE cells == {Cell(a) : a \in hits}
           whose(i) == CHOOSE a \in hits : Cell(a) = i
           res == Stored(ram, image)
<1>1. res = [i \in DOMAIN ram \union cells |-> IF i \in cells THEN image[whose(i)] ELSE ram[i]]
  BY SMTT(30) DEF Stored
<1>2. opt.ramSize \in RamSizes
  BY OptIsMachine DEF IsMachine
<1>3. ASSUME NEW a \in hits, NEW b \in hits, Cell(a) = Cell(b) PROVE a = b
  <2>1. a \in Nat /\ b \in Nat /\ RamAddress(opt.ramSize, a) /\ RamAddress(opt.ramSize, b)
    BY DEF IsImage
  <2> QED BY <1>2, <1>3, <2>1, CellsAreDistinct DEF Cell
<1>4. ASSUME NEW a \in hits PROVE whose(Cell(a)) = a
  BY <1>3
<1>5. \A a \in hits : Cell(a) \in cells
  OBVIOUS
<1> HIDE DEF cells, whose, res
<1>6. DOMAIN res = cells
  BY <1>1
<1>7. ASSUME NEW a \in hits PROVE res[Cell(a)] = image[a]
  <2>1. Cell(a) \in cells
    BY <1>5
  <2>2. res[Cell(a)] = image[whose(Cell(a))]
    BY <1>1, <2>1
  <2> QED BY <1>4, <2>2
<1> QED
  BY <1>6, <1>7 DEF res, cells

(* The address to run is in the vector, and the rest is as it was. *)
RunsAt(v, m, run) ==
  /\ DOMAIN v = DOMAIN m \union {RESET_VECTOR, RESET_VECTOR + 1}
  /\ v[RESET_VECTOR] + 256 * v[RESET_VECTOR + 1] = run
  /\ \A i \in DOMAIN m : i \in {RESET_VECTOR, RESET_VECTOR + 1} \/ v[i] = m[i]

LEMMA VectorIsSet ==
  ASSUME NEW m, NEW run \in Address
  PROVE  RunsAt(SetVector(m, run), m, run)
<1> DEFINE low  == RESET_VECTOR
           high == RESET_VECTOR + 1
           once == Poke(m, low, run % 256)
           v    == SetVector(m, run)
<1>1. low # high
  BY DEF RESET_VECTOR
<1>2. run # NoRun /\ run \in Int
  BY AddressBounds DEF NoRun
<1>3. v = Poke(once, high, run \div 256)
  BY <1>2 DEF SetVector
<1> HIDE DEF low, high, v
<1>4. /\ DOMAIN once = DOMAIN m \union {low} /\ once[low] = run % 256
      /\ \A i \in DOMAIN m : i # low => once[i] = m[i]
  BY DEF Poke
<1> HIDE DEF once
<1>5. /\ DOMAIN v = DOMAIN once \union {high} /\ v[high] = run \div 256
      /\ \A i \in DOMAIN once : i # high => v[i] = once[i]
  BY <1>3 DEF Poke
<1>6. DOMAIN v = DOMAIN m \union {low, high}
  BY <1>4, <1>5
<1>7. v[low] = run % 256
  BY <1>1, <1>4, <1>5
<1>8. \A i \in DOMAIN m : i \in {low, high} \/ v[i] = m[i]
  BY <1>4, <1>5
<1>9. (run % 256) + 256 * (run \div 256) = run
  BY <1>2
<1> QED
  BY <1>5, <1>6, <1>7, <1>8, <1>9 DEF low, high, v, RunsAt

(* Where a listing may be loaded: nothing stops its text, and the text says it. *)
TextsAreListings ==
  \A m \in Machines : m.binaries = <<>> /\ "text" \notin m.stops => TextIsListing(m)

LEMMA TextLoadsListing ==
  ASSUME TextsAreListings, TypeOK, Unwritten, LoadText
  PROVE  ListingIsLoaded'
<1> SUFFICES ASSUME phase' = "cards", opt.binaries = <<>>
             PROVE  LET image  == Meaning(opt.listing)
                        vector == IF opt.listing.run = NoRun THEN {} ELSE {RESET_VECTOR, RESET_VECTOR + 1}
                        hits   == {a \in DOMAIN image : RamAddress(opt.ramSize, a)}
                    IN  /\ DOMAIN ram' = {Cell(a) : a \in hits} \union vector
                        /\ \A a \in hits : Cell(a) \in vector \/ ram'[Cell(a)] = image[a]
                        /\ vector # {} => ram'[RESET_VECTOR] + 256 * ram'[RESET_VECTOR + 1] = opt.listing.run
  <2>1. opt' = opt
    BY DEF LoadText
  <2> QED BY <2>1, ZenonT(40) DEF ListingIsLoaded, Cell
<1> DEFINE hits == {a \in DOMAIN opt.text : RamAddress(opt.ramSize, a)}
           stored == Stored(ram, opt.text)
<1>1. "text" \notin opt.stops /\ phase = "binaries" /\ loaded = Len(opt.binaries)
  BY DEF LoadText
<1>2. opt.text = Meaning(opt.listing) /\ opt.run = opt.listing.run
  BY <1>1 DEF TextsAreListings, TextIsListing, TypeOK
<1>3. DOMAIN ram = {}
  BY <1>1, EmptySeq DEF Unwritten
<1>4. IsImage(opt.text) /\ opt.run \in Address \union {NoRun}
  BY OptIsMachine DEF IsMachine
<1>5. DOMAIN stored = {Cell(a) : a \in hits} /\ \A a \in hits : stored[Cell(a)] = opt.text[a]
  BY <1>3, <1>4, StoredIsImage
<1>6. ram' = SetVector(stored, opt.run)
  BY <1>1 DEF LoadText
<1> HIDE DEF hits, stored
<1>7. CASE opt.run = NoRun
  <2>1. ram' = stored
    BY <1>6, <1>7 DEF SetVector
  <2> QED BY <1>2, <1>5, <1>7, <2>1 DEF hits
<1>8. CASE opt.run # NoRun
  <2>1. RunsAt(ram', stored, opt.run)
    <3>1. opt.run \in Address
      BY <1>4, <1>8
    <3> QED BY <1>6, <3>1, VectorIsSet
  <2>2. \A a \in hits : Cell(a) \in {RESET_VECTOR, RESET_VECTOR + 1} \/ ram'[Cell(a)] = opt.text[a]
    BY <1>5, <2>1 DEF RunsAt
  <2> QED BY <1>2, <1>5, <1>8, <2>1, <2>2 DEF hits, RunsAt
<1> QED
  BY <1>7, <1>8

LEMMA ListingStays ==
  ASSUME TextsAreListings, TypeOK, ListingInv, [Next]_vars
  PROVE  ListingInv'
<1>1. CASE ReadOptions
  BY <1>1 DEF ListingInv, Unwritten, ListingIsLoaded, ReadOptions
<1>2. CASE LoadBinary
  <2>1. opt' = opt /\ phase \in {"binaries"} /\ phase' \in {"binaries", "failed"} /\ loaded \in Nat
    BY <1>2 DEF LoadBinary, TypeOK
  <2>2. phase' = "failed" \/ loaded' = loaded + 1
    BY <1>2 DEF LoadBinary
  <2>3. Unwritten'
    BY <2>1, <2>2 DEF Unwritten
  <2>4. ListingIsLoaded'
    BY <2>1 DEF ListingIsLoaded
  <2> QED BY <2>3, <2>4 DEF ListingInv
<1>3. CASE LoadText
  <2>1. Unwritten'
    BY <1>3 DEF Unwritten, LoadText
  <2>2. ListingIsLoaded'
    BY <1>3, TextLoadsListing DEF ListingInv
  <2> QED BY <2>1, <2>2 DEF ListingInv
<1>4. CASE AddCards
  <2>1. phase' \in {"failed", "run"}
    BY <1>4 DEF AddCards
  <2> QED BY <2>1 DEF ListingInv, Unwritten, ListingIsLoaded
<1>5. CASE GuestReads \/ GuestWrites \/ LatchKey \/ Reset \/ TimePasses
  <2>1. phase = "run" /\ phase' = phase
    BY <1>5 DEF GuestReads, GuestWrites, Read, Write, LatchKey, Reset, TimePasses, loadVars
  <2> QED BY <2>1 DEF ListingInv, Unwritten, ListingIsLoaded
<1>6. CASE UNCHANGED vars
  <2>1. opt' = opt /\ phase' = phase /\ loaded' = loaded /\ ram' = ram
    BY <1>6 DEF vars, loadVars
  <2> QED BY <2>1 DEF ListingInv, Unwritten, ListingIsLoaded, Cell
<1> QED
  BY <1>1, <1>2, <1>3, <1>4, <1>5, <1>6 DEF Next

(* A listing of any size is in RAM, byte by byte where there is RAM, with the
   address to run in the reset vector and nothing besides (ListingIsLoaded), if
   each text that the start takes reads as its listing means: what
   bus_load_wozmon_txt_buf and main store of what was read. *)
THEOREM ListingsAreLoaded == TextsAreListings => (Spec => []ListingIsLoaded)
<1> SUFFICES ASSUME TextsAreListings PROVE Spec => []ListingIsLoaded
  OBVIOUS
<1>1. Init => ListingInv
  BY DEF Init, ListingInv, Unwritten, ListingIsLoaded
<1>2. TypeOK /\ ListingInv /\ [Next]_vars => ListingInv'
  BY ListingStays
<1>3. ListingInv => ListingIsLoaded
  BY DEF ListingInv
<1> QED
  BY <1>1, <1>2, <1>3, TypeCorrect, PTL DEF Spec
=============================================================================
