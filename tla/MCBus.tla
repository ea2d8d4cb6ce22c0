------------------------------- MODULE MCBus -------------------------------
(* Small guests for Apple1Bus, one for each way the addresses are divided, and
   commands for each way the emulator comes to start or not to.              *)
EXTENDS Apple1Startup

K == 1024

(* Words and how they read. *)
Word == [number |-> 0, isTruth |-> FALSE, truth |-> FALSE, hasAt |-> FALSE, before |-> "", path |-> "",
         hasAddress |-> FALSE, at |-> 0, joined |-> "prog", dash |-> FALSE, config |-> FALSE]
Dash == [Word EXCEPT !.dash = TRUE]

(* Of a word with an @: what stands before it, and without blanks; the address;
   the word without blanks.                                                  *)
Load(before, path, at, joined) ==
  [Word EXCEPT !.hasAt = TRUE, !.before = before, !.path = path, !.hasAddress = TRUE, !.at = at,
               !.joined = joined]

Names == {"prog", "big", "list", "ill", "aci", "kru", "kru1", "tape", "torn", "rom", "short", "gone"}

Words ==
  [w \in Names |-> Word]
  @@ [w \in Flags \union Operands \union {"-h", "-z"} |-> Dash]
  @@ "prog@E000" :> Load("prog", "prog", 57344, "prog@E000")
  @@ "prog @ E000" :> Load("prog ", "prog", 57344, "prog@E000")
  @@ "big@FFFF" :> Load("big", "big", 65535, "big@FFFF") @@ "gone@0" :> Load("gone", "gone", 0, "gone@0")
  @@ "@E000" :> Load("", "", 57344, "@E000")
  @@ "prog@" :> [Load("prog", "prog", 0, "prog@") EXCEPT !.hasAddress = FALSE]
  @@ "notes.conf" :> [Word EXCEPT !.config = TRUE]
  @@ "yes" :> [Word EXCEPT !.isTruth = TRUE, !.truth = TRUE]
  @@ "no" :> [Word EXCEPT !.isTruth = TRUE]
  @@ "0" :> [Word EXCEPT !.isTruth = TRUE]
  @@ "2" :> [Word EXCEPT !.number = 2]
  @@ "3333333" :> [Word EXCEPT !.number = 3333333]
  @@ [w \in {"a.conf", "b.conf", "bad.conf"} |-> [Word EXCEPT !.config = TRUE]]

(* A value of its own, which is worked out once; AllMachines below is another. *)
MCSays == Words

Line(k, v) == [key |-> k, value |-> v]

(* A line for every key, and some that no file may have. *)
Lines ==
  {Line(k, "rom") : k \in PathKeys} \union {Line(k, v) : k \in TruthKeys, v \in {"yes", "no"}}
  \union {Line("load", "prog@E000"), Line("load", "prog @ E000"), Line("load", "@E000"), Line("load", "prog@"),
          Line("load", "prog"), Line("baud", "3333333"), Line("log_level", "2"),
          Line("baud", "0"), Line("trace", "2"), Line("headless", "yes")}

-----------------------------------------------------------------------------
(* Files *)
File == [size |-> 0, bytes |-> <<>>, text |-> <<>>, listing |-> NoListing, lines |-> <<>>,
         playable |-> FALSE]
Program(bytes) == [File EXCEPT !.size = Len(bytes), !.bytes = bytes]
RomOf(size) == [File EXCEPT !.size = size]
Listed(listing, layout) == [File EXCEPT !.text = Printed(listing, layout), !.listing = listing]
Config(lines) == [File EXCEPT !.lines = lines]

Spaced == [before |-> <<>>, colon |-> <<>>, gap |-> <<SPACE>>, behind |-> <<NEWLINE>>]
At(at, bytes) == [at |-> at, bytes |-> bytes]
Goes(bytes) == At(NoRunAddress, bytes)
List(lines, run) == [lines |-> lines, run |-> run]

Disk == "aci" :> RomOf(256) @@ "kru" :> RomOf(4096) @@ "kru1" :> RomOf(1) @@ "rom" :> RomOf(256)
        @@ "short" :> RomOf(255) @@ "tape" :> [File EXCEPT !.playable = TRUE] @@ "torn" :> File
        @@ "ill" :> [File EXCEPT !.text = <<JUNK, 0, 1, 0, 0, RUN>>]
        @@ "prog" :> Program(<<1, 2>>) @@ "big" :> Program(<<1, 2>>)

Given(words, disk, size, uses) ==
  [words |-> words, disk |-> disk @@ Disk, ramSize |-> size * K, uses |-> uses]

None == [p \in {} |-> File]

(* Ways to divide the addresses. *)
Guests == {
  (* 8 KB split in two banks: their ends, the gaps, and a text that runs over an end. *)
  Given(<<"-l", "prog@E000", "-w", "list">>, "list" :> Listed(List(<<At(4095, <<3, 4>>)>>, NoRun), Spaced),
        8, {0, 4095, 4096, 57344, 61439, 61440}),
  (* The cards: the cassette's flip-flop, input and ROM, Krusader over the upper bank. *)
  Given(<<"-a", "aci", "-k", "kru1", "-l", "prog@E000">>, None, 8, {0, 49280, 49281, 49408, 57344, 57345}),
  (* The keyboard's registers and one of their mirrors. *)
  Given(<<>>, None, 4, {4095, 4096, 53264, 53265, 53281}),
  (* The display's registers, on a slow line. *)
  Given(<<"-B", "3333333">>, None, 4, {4096, 53266, 53267, 57342}),
  (* Every address is RAM; the flat binary sets the reset vector. *)
  Given(<<"-w", "list", "prog">>, "list" :> Listed(List(<<At(65535, <<5, 6>>)>>, NoRun), Spaced),
        64, {0, 53264, 65532, 65533}),
  (* 64 KB below the PIA and the ROM, between which RAM shows again. *)
  Given(<<"-w", "list">>, "list" :> Listed(List(<<At(640, <<7>>)>>, 640), Spaced),
        64, {53263, 57344, 65279, 65532}) }

(* A file that does not fit behind one that does, files that are not there or
   not what they should be, options that contradict each other.              *)
ByFile(lines) == Given(<<"a.conf">>, "a.conf" :> Config(lines), 64, {})
ByWords(words) == Given(words, None, 4, {})

Starts ==
  {ByFile(<<Line("flat_bin", "prog"), Line("flat_bus", "no"), Line("load", "big@FFFF")>>)}
  \union {ByFile(lines) : lines \in SeqOf(Lines, 2)}
  \union {ByWords(words) : words \in {
    <<"-c", "-u">>, <<"-z">>, <<"-l">>, <<"-h", "a.conf">>, <<"a.conf", "b.conf">>, <<"-g", "b.conf", "-t">>,
    <<"b.conf", "-H">>, <<"-r", "rom">>, <<"-r", "short">>, <<"-r", "gone">>, <<"-w", "ill">>, <<"-w", "gone">>,
    <<"-l", "gone@0">>, <<"-l", "prog", "-V", "no">>, <<"-l", "prog @ E000">>, <<"-l", "@E000">>,
    <<"-l", "prog@">>,
    <<"-a", "aci", "-e", "tape">>, <<"-a", "aci", "-e", "torn">>, <<"-a", "gone", "-E", "tape">>,
    <<"-a", "short">>, <<"-e", "torn">>, <<"-k", "gone">>, <<"-k", "kru", "-L", "gone", "-H">> }}

(* Listings, and how they are laid out. *)
Listings == {
  List(<<At(0, <<18, 169>>), At(3, <<77>>)>>, NoRun),
  List(<<At(4094, <<1, 2, 3>>), Goes(<<4, 5>>)>>, NoRun),
  List(<<At(65533, <<1, 2>>), Goes(<<3, 4>>), At(65535, <<171>>)>>, NoRun),
  List(<<Goes(<<96, 0>>), At(65532, <<9, 9>>)>>, 768) }

Layouts ==
  [before : {<<>>, <<JUNK>>, <<MARKER, 1, 2, 3, 4, SPACE>>}, colon : {<<>>, <<SPACE>>}, gap : {<<>>, <<SPACE>>},
   behind : {<<>>, <<NEWLINE>>, <<SPACE, COMMENT, 1, 0, 1, 0, COLON, MARKER, NEWLINE>>}]

Texts ==
  {Given(<<"-w", "list">>, "list" :> Listed(l, y), 64, {}) : l \in Listings, y \in Layouts}
  \union {Given(<<"-w", "list">>, "list" :> Listed(l, y), 8, {}) :
            l \in {x \in Listings : x.run = NoRun}, y \in Layouts}

Commands == Guests \union Starts \union Texts

ASSUME CommandsAssumption == \A c \in Commands : IsCommand(c)

AllMachines == {MachineOf(c) : c \in Commands}
MCMachines  == AllMachines

(* The build as it comes, given a text that ends with a run address. *)
MCVectorMachines == {
  MachineOf(Given(<<"-w", "list">>, "list" :> Listed(List(<<At(640, <<1>>)>>, 640), Spaced), 8, {0, 57344})) }

MCRom(a) == a % 256
=============================================================================
