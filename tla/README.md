# Verification of the Apple-1 emulator

TLA+ models of the emulator in `src/`, TLC configurations that check them on
small instances, and TLAPS proofs of what holds for every value of their
constants.  Paths below are relative to `src/`.

- [1 The system](#1-the-system) – inventory
- [2 The plan](#2-the-plan) – modules, order, what is left
- [3 The modules and the code](#3-the-modules-and-the-code)
- [4 The runs](#4-the-runs)
- [5 The proofs](#5-the-proofs)
- [6 Where the program and its documents disagree](#6-where-the-program-and-its-documents-disagree)
- [7 What is not modelled](#7-what-is-not-modelled)

## 1 The system

The emulator is one process with one thread, and a signal handler that sets a
flag.  Its main loop (`main.c:878-1074`) polls the host's keyboard, looks at
breakpoints, runs one instruction of the guest, advances the cards and the
keyboard's timing by the cycles it took, sleeps to keep the guest's speed, and
repaints the terminal now and then.  Components call each other directly; what
makes it hard is state that one call leaves for a later one: flags, caches,
counters, remembered bytes and registers with side effects.

| Component | Source | State | Operations |
| --- | --- | --- | --- |
| Keyboard path | `term_ansi.c:24-57, 289-390`, `io.c`, `bus.c:839-912`, `main.c:884-904` | bytes of the host not yet read, escape decoder, paste buffer, ring, PIA data register with strobe, bounce window | poll, store and latch, tick, guest's read |
| Main loop, debugger control, terminal modes | `main.c`, `dbg.c`, `port_posix.c:130-240` | place in the loop, `g_quit_flag`, `step_mode`, `repause`, `empty_step`, break- and watchpoints, terminal settings, trap counter | loop statements, prompt commands, signal, exit |
| CPU | `cpu.c` | registers, `irq_pending`, `nmi_pending`, `halted`, DRAM accumulator | `cpu_step`, `cpu_reset`, raising interrupts |
| Disassembler | `disasm.c` | none | length and mode of an opcode |
| Bus, PIA and cards | `bus.c:20-84, 628-937` | RAM, two pairs of PIA registers, list of cards, last value on the bus | read, write, reset, add a card |
| Cassette interface | `aci.c`, `main.c:263-299, 783-824` | output flip-flop, recorded and played durations, place on the tape, cycles of the last toggle and the last read | read, write, tick, load and save WAV |
| Krusader card | `krusader.c` | ROM image | create, read |
| Loaders | `bus.c:92-625`, `main.c:705-781` | – | binary, ROM, WOZMON text |
| Configuration | `cli_config.c`, `main.c:396-635`, `port_string.c:773-816` | options | defaults, file, command line |
| Screen and renderer | `term_ansi.c:59-287` | screen memory, cursor, shadow of what the host shows, time of the last character | init, write, update, clear |
| Portability layer | `port.c`, `port_string.c`, `port_path.c`, `port_posix.c`, `port_tcc_va.c` | – | strings, paths, clock, raw mode |
| Tests, tools, media | `tests/`, `tools/`, `roms/`, `software/`, `cassettes/` | – | – |

How they meet:

- `main` → `io_check_keyboard` → `term_poll` → ring → `bus_update_keyboard` →
  PIA; the guest reads the PIA through `cpu_step` → `bus_read` → `pia_read`.
  The poll is skipped while the bounce window is open; a key in the PIA that the
  guest leaves unread does not stop it, so that ^R and ^C get through.
- `cpu_step` → `bus_write` → `pia_write` → `io_write_display` → `term_write`
  changes the screen memory; `main` → `io_update` → `term_update` copies it to
  the host's terminal, row by row, where it differs from the shadow.  The trace
  (`main.c:976`), warnings without a log file (`main.c:159`), among them that of
  a JAM, and the prompt write to the same standard output
  (`port_posix.c:205-207`), of which the shadow is not told.
- `bus_read` and `bus_write_ext` call the debugger back for watchpoints; the
  debugger's own dumps read the same bus.
- `main` → `process_sigint*`, in three places with different meanings, reads the
  flag the signal handler, the ^C key and the end of input at the prompt set.
- `main` gives the cycles of each instruction to `aci_tick` after it, so all
  accesses an instruction makes to the cassette share a time; every access, read
  or write, to `$C000-$C0FF` toggles the output, a read of `$C081` as well.
- `main` reads the words of the command line twice: once for a configuration
  file and the switches that stand beside one, then, if there is none, as
  switches.  What comes out decides what is loaded, in a fixed order: ROM, flat
  binary, binary, text, cards, tape.
- The terminal's settings are saved and restored by two parties (raw mode for
  the guest, line mode for the prompt), each on top of what it found.

What is hard to test, with the properties that watch it, is the list `hazards`
in `PROJECT.json`.  What makes each component correct:

- *Keyboard*: what the guest reads is what was typed, in order, once, unless the
  ring was full at the time; no key replaces one that waits in the PIA; polling
  never stops for good.
- *Main loop*: no instruction runs at a breakpoint; `s` runs one; a watchpoint
  stops the loop before the next instruction; a signal is answered; the terminal
  is always in the mode of the one who uses it.
- *CPU*: results, flags and the number of bus accesses of each instruction;
  refresh loses no fraction of a cycle; what interrupts push, returns restore.
- *Bus*: RAM is a memory whatever its size, split and neighbours; no access,
  read or write, leaves the array; the PIA keeps the keyboard's and the display's handshakes although
  programs rewrite its registers.
- *Cassette*: the input is the tape's wave at the place the tape has reached;
  only silence rewinds it; the recording is the time between toggles; what is
  saved loads again, and a file that was torn does not load at all.
- *Start*: a listing is in RAM as it was written, however it was laid out; a
  configuration file means what the same switches mean; what cannot be read ends
  the program before the guest runs.
- *Screen*: its rows are the tail of what was printed; there is one cursor; the
  terminal shows the screen although unchanged rows are skipped, as far as the
  program knows what stands there.

## 2 The plan

In order of weight; all modules are written to be proved about (no `RECURSIVE`
operator outside what only TLC reads, parameters as constants with named
assumptions, one action per operation).

| Step | Modules | Abstract specification | State |
| --- | --- | --- | --- |
| 1 Keyboard path | `Apple1Keyboard` | `KeyQueue`, a bounded FIFO queue | done, invariants and refinement proved |
| 2 Loop, debugger, terminal modes | `Apple1Main` | – | done, safety proved |
| 3 Processor | `Cpu6502Alu`, `Cpu6502`, `Disasm6502` | integer and decimal arithmetic | done, arithmetic and all safety properties proved |
| 4 Screen | `Apple1Display` | the text printed, cut into lines | done, all safety proved |
| 5 Bus, PIA, loading | `Apple1Bus` | `GuestMemory`, an array of bytes | done, refinement proved |
| 6 Cassette and its files | `AciWave`, `Apple1Aci` | a wave as a function of time; the times of the toggles | done, all proved, the files too |
| 7 Start | `WozmonText`, `CliConfig`, `Apple1Startup` | the meaning of a listing; the manual's switches for a file | done, proved but for the parser of listings |
| 8 Induction | `Recursion` | – | done: induction on sets of numbers, on which the proofs about texts, samples, words and bytes rest |
| 9 The parser of listings | `Apple1Startup_proofs` | the text that `Printed` lays out reads as `Meaning` | open: proved is what is loaded of what was read |
| 10 Composition | the main loop over keyboard, bus and cassette: one order of their ticks | – | open |

Each module models the interplay that its own hazards need: `Apple1Keyboard` has the
loop's polling and the debugger's sessions, `Apple1Bus` the keyboard's latch and
the display's clock, `Apple1Aci` the tick behind each instruction, and
`Apple1Startup` puts configuration, texts and cards in front of the bus.  What
step 10 would add is the order of the ticks within one iteration, on which no
property of the list depends.

## 3 The modules and the code

`PROJECT.json` maps every definition to its lines.  Operators named *Mutant* in
a comment are not used by the models: they are what a plausible mistake would
put in a definition's place, kept beside it to show that the properties notice.
Variables marked *History* record what happened and influence nothing.

**`Apple1Keyboard`** – host bytes in bursts (`HostTypes`); `Poll` is one
iteration's `io_check_keyboard`: a staged paste byte, nothing, or one byte from
the host that is an escape code's, NUL, ^C, pasted, ^L, RESET or a key;
`StoreAndLatch` is the ring's store together with what `bus_update_keyboard`
does next.  `GuestStep` is an instruction that may read `$D010` or rewrite the
control register, and closes the bounce window by its cycles.  `DebuggerSession`
is the prompt's time, in which nothing is polled, while its dumps may take the
key that waits and its `w` may rewrite the control register; it exists only
where `-g` was given (`DebugModes`).  The escape decoder keeps its bytes (`escSeq`) from poll to
poll, as the program does, and gives up on the sixth.  The ring keeps its two
indexes, one slot always free.

**`KeyQueue`** – what that path promises: a queue of bounded length to which the
host appends, from which the guest takes the oldest, and whose arrivals are
dropped only when no more than one place is left; RESET forgets what waits.  `Apple1Keyboard!Queue` maps the ring and the PIA
register to it.

**`Apple1Main`** – `loc` is the place in the loop; each action is the group of
statements between two places.  Instructions are abstracted to the next `pc` and
one access, which the debugger's callback sees (`Step`).  `Signal` may happen
between any two places.  `Resume`, `PromptStep`, `PromptContinue`,
`PromptQuit`, `PromptExit` and `PromptEdit` are the prompt's commands that
change state; the others print.  The terminal is a record of the settings in
force and the settings each party saved.

**`Cpu6502Alu`, `Cpu6502`** – one action per kind of step: instructions that
read, store, modify, work on registers alone, branch, jump, call, return, push,
pull, the unstable stores, BRK, JAM, the two interrupts and the step of a halted
processor.  The dispatch table is a function from opcodes to operation and
addressing mode; `last` records the accesses and the cycles of the last step.
Memory is a function on the cells that hold something other than zero at first.

**`Disasm6502`** – `op_mode` as its own table and the lengths that follow from it.

**`Apple1Display`** – `vram`, the cursor, the shadow and its flags, and `host`,
the text on the terminal.  `TermWrite` is `term_write`; `TermUpdate(blink)` is
`term_update` with the phase the clock is in; other actions are ^L, the
brackets of a paste (no painting in between), the prompt's use of the
terminal, and `OtherText`: a line of the trace, a warning or the prompt's output
replaces a row or scrolls the terminal, in the loop as at the prompt, and the
shadow stays as it is.  Which rows that happened to is the history `marred`;
`UpdateShowsScreen` excepts them for as long as their picture is the one they
were last painted with (`Spoiled`), since the program then cannot know, and
promises every other row.  Escape sequences are abstracted to the row they paint.

**`Apple1Bus`** – `ReadOptions`, `LoadBinary`, `LoadText` and `AddCards` are the
start of the program, each of which may end it; then the guest reads and writes
(`Read`, `Write`), keys are latched, ^R resets, and the clock moves.  Decoding is
the chain of `bus_read`: flat, ROM, PIA with its mirrors, cards, RAM with the
split's translation, nothing.  A RAM cell behind the end of the array reads as
any byte (`Outside`), and `-F` is taken with RAM of every size, as the program
takes it.  The cards appear as far as the bus sees them: the
cassette's ROM and output flip-flop, Krusader's ROM and its end.  A machine
(`IsMachine`) is what options and files amount to.

**`GuestMemory`** – an array: a read returns what the last write to that address
stored.

**`AciWave`** – tapes as sound: `SavedSamples` is `save_wav_tape`, a run of
samples for each duration, `PcmToDurations` the loader's walk over them
(`Scan`), which ends a duration where the sign changes.  A sample is its sign, or nothing where it is too quiet.  Rounding to samples and back
is modelled by what it does (`SampleCount`, `CycleCount`).

**`Apple1Aci`** – `ReadInput` and `TouchOutput` are the accesses of an
instruction, `Tick` and the rounds of the loop in `aci_tick` (`ToggleInput`,
`TickEnds`) what follows it, `SaveTape` and `LeaveUnsaved` the end of the
program.  The counters wrap at `2 * Half` and the signed one keeps what fits
(`Signed`).  The recording's buffer may fail to grow at any time it is asked to,
and the file may be torn after any write.

**`WozmonText`** – the loader of listings, a number at a time (`ReadNumber`):
skipped, a run address, a new address, or data, with data and address
written together taken apart.  A text is a sequence of kinds of characters.  The
second half of the module is the reference: what a listing means (`Meaning`),
and the ways to print one (`Printed`).

**`CliConfig`** – `ApplyKey` is a line of a configuration file, `ReadWord` a word
of the command line in the hands of `port_getopt` and `main`, `Asked` the choice
between them and everything that is refused.  How a word reads (a number, a
truth, a path with an address, a dash, `.conf`) is the constant `Says`;
`WordsAssumption` says that it has the switches, that an address is one, and how
its readings hang together.  A value of `load` has two: `parse_load_value`
trims what stands around the `@` (`path`) and the file refuses it if either side
is empty, while `-l` takes all that stands before the `@` (`before`), blanks
included and even nothing, and whatever number follows.  A switch that says what
the file says therefore has the value `joined`, without the blanks.

**`Apple1Startup`** – `MachineOf` is what `main` makes of a command and the disk
it is given on: the machine that `Apple1Bus` then starts, with the places at
which the start ends early (`stops`).  `IsCommand` is what a command and its
files are made of, whatever they say.  `Plainly` is what a configuration must
not do to be sayable in switches.  `TextIsListing` says that a text was read as
its listing means.

`MCKeyboard`, `MCMain`, `MCCpu`, `MCDisplay`, `MCBus` and `MCAci` give the constants
their values for TLC; the modules `*_proofs` hold the theorems.

## 4 The runs

| Run | Checks | Bounds | Distinct states |
| --- | --- | --- | --- |
| `keyboard` | `KeysTagged`, `StagingDrains`, `EscapeGivesUp`, `LatchedKeyHeld`, `RefinesQueue`, `KeyIsLatched`, `HostBytesConsumed` | two bursts of eight kinds (keys, RESET, ^C, ^L, NUL, a lone ESC, the brackets of a paste); a ring of three slots (two keys), a paste buffer of three; a window of two cycles and instructions of one or two | 20,161 |
| `main` | `StepRunsOne`, `TrapsHold`, `NoTrapTwice`, `TerminalMatches`, `SignalAnswered`, `StepComesBack` | two addresses, two breakpoints, one watchpoint, one signal, every combination of options that differs | 269,072 |
| `cpu` | `CyclesFollowTheBus`, `DramExact`, `ReturnsRestore` | 256 opcodes alone, with boundary registers and operands; six programs of up to eight steps with interrupts anywhere | 115,235 |
| `display` | `ScreenIsOutput`, `OneCursor`, `UpdateShowsScreen`, `ScreenIsShown` | two rows of two, six characters: a letter, a return, a line feed; other text on any row at any time | 350,068 |
| `bus` | `ListingIsLoaded`, `FileMeansSwitches`, `InBounds`, `IsMemory`, `KeySurvives`, `PolledOutputIsPaced` | 1,460 starts: every configuration file of up to two lines over every key, with values of `load` that have blanks around the `@`, no name or no address; four listings in 36 layouts on 64 KB and 8 KB; 24 command lines that refuse, fail or do not; of these six guests go on to run, each with up to six addresses, two values, two keys, a clock that wraps at eight | 25,762 |
| `tape` | `PlaysTheWave`, `HeardInOrder`, `HeardFromTheStart`, `RecordingIsOutput`, `SavedTapeLoads`, `TornTapeIsRefused` | two tapes or none; a counter that wraps at 16, a gap of 4, 18 cycles in instructions of 2 and 7; four toggles, up to three in an instruction; 2.5 cycles to a sample | 1,939,035 |

Each also checks its module's `TypeOK`.  The six runs `main_resume`,
`main_sigint`, `main_exit`, `irq`, `disasm` and `bus_vector` each check one
sentence of the documents or comments and find it violated: section 6.

Why the bounds are enough.

- *Ring*: empty, one and full are reached, and both indexes go round, with a
  ring of two keys; nothing depends on the ring's length but the comparison of
  the indexes.  A paste brings more bytes than the staging buffer has slots.  The
  window is passed by an instruction that divides it and by one that does not.
- *Loop*: two addresses are one with a breakpoint and one without; two
  breakpoints let a removal shift one; the watchpoint list is full at one.  A
  second signal while the first is unanswered sets a flag that is already set.
- *Processor*: operands and registers are at the edges where a carry, a page or
  a wrap decides: 0, 1, 127, 128, 255, decimal 99, a program counter whose
  instruction ends a page or wraps around the address space, a stack pointer that
  wraps.  `fuel` bounds the steps; programs have enough of it for two nested
  interrupts and their returns.
- *Screen*: four cells are the smallest screen with a corner, a middle of a row
  and a row to scroll; six characters fill it and scroll it.  Other text is a
  character that no screen has, so that a row it spoiled is never right by chance.
- *Bus*: the addresses are the two ends of each region and one beyond.  Regions
  do not interact but at their ends.  The proofs remove these bounds.
- *Start*: a file of two lines has every pair of keys in both orders, which is
  what a setting can depend on.  A value of `load` comes in every shape on which
  the file's parser and the switch's differ.  The listings have a byte at each edge: of a bank,
  of the address space, of the reset vector, of an odd number of digits; the layouts
  have each separator present and absent, so that numbers, addresses and
  comments meet in every way.  The proofs remove the bounds on files, command
  lines and listings, but not those on layouts.  Guests other than the six have no addresses to use and
  stop when they have started.
- *Tape*: one pulse is shorter than an instruction, so that one tick passes two
  edges; the counter wraps once, before, in and after a silence; 18 cycles hold two
  rewinds.  The buffer starts at one duration and is full after one, two and
  four.  The proofs remove these bounds.
- *Clock*: `PolledOutputIsPaced` needs the counter to wrap while a character is
  shown; it is eight where the program's is 2^32.

The runs that say `CHECK_DEADLOCK FALSE` are of systems that end: the program
exits, the host has nothing more to send, or the fuel is used up.

**Fairness.**  `Apple1Keyboard`: the loop comes round for ever, so an iteration
polls unless the window is open (weak fairness of `Poll`), a guest's instruction
runs in each (weak fairness of `GuestStep`), and a byte that can be read is read
(strong fairness of `PollByte`: an iteration that finds the window open skips
the poll, so that it is not continuously enabled); leaving the loop after ^C is
the next test of the flag (`Quit`), and with `-g` ^C opens the prompt at the
next test, which the user is assumed to leave again (weak fairness of
`quitFlag /\ DebuggerSession`).  Nothing is assumed of the host, or of the
guest that may never read a key: `KeyIsLatched` speaks of a register that is
free.  `Apple1Main`: the loop runs on (weak fairness of `Loop`), and a prompt
that is interrupted notices (`PromptQuit` with the flag set); nobody has to type
a command.  `Apple1Display`: the loop updates the screen again and again,
in one blinking phase or the other; the guest need not print, and a
paste need not end – `ScreenIsShown` excepts it.

## 5 The proofs

`tlapm` checks every obligation of the eight proof modules.  Their assumptions
are the modules' named `ASSUME`s, which TLC evaluates in the runs, and the
hypotheses that a theorem states: `VectorInRam`, `FlatIsWhole`,
`MachinesAreCommands`, `TextsAreListings`, a rate of ten samples a second.

- **`Recursion`** – induction and recursion for what the other modules fold.
  The library's induction takes the property as an operator, which the provers
  cannot instantiate; here the property is a *set* of numbers (`Induction`,
  `BoundedInduction`), so that a proof defines the set of lengths for which its
  claim holds, hides the definition, and cites the lemma.  It follows from the
  least element of a set of numbers, and that from `WFMin`.  A recursion's step
  is a function in the same way (`RecursionExists`), and a list of lists, laid end
  to end, is found again at the sums of their lengths (`FlattenJoins`).

- **`Apple1Keyboard_proofs`** – `TypeCorrect`, `AllKeysTagged` and
  `LatchedKeyIsHeld` from `IInv == TypeOK /\ KeysTagged`; `StagingIsDrained` (no
  more than one byte is ever staged; that nothing is lost or passed on the way is
  `KeyboardIsQueue`) and `EscapesEnd`, each inductive with it.  The register's tag follows from the
  ring's, and the ring's from the store, which alone sets the bit; the occupied
  slots after a store are the ones before and the new one.
  `KeyboardIsQueue`: the path implements `KeyQueue` for rings of every size.  The ring is read as a sequence that wraps at the array's
  end; storing appends to it (`ContentsAppended`), latching takes its first
  (`ContentsTaken`).  A poll then appends a key, loses one when the ring is
  full, or moves the oldest to the PIA, which the queue does not see.  That the
  move takes the oldest needs `KeysTagged`: a key without the strobe's bit would
  leave the register looking free.
- **`Apple1Main_proofs`** – `SingleStepIsSingle`, `TrapsAreDistinct`,
  `TerminalIsMatched`, `TrapsAreHeld`.  None is inductive alone.  A single step
  needs to know that after `s` the loop cannot come round to a second
  instruction with the flags cleared (`StepPending`); a trap needs to know that
  a hit that was seen left `stepMode` set or went to the prompt
  (`TrapPending`); both need the flags to be clear without `-g`
  (`DebuggerOnly`).  The terminal's mode needs what each party saved
  (`TerminalKept`).  The lists need that removing an element shifts the rest
  without duplicating any (`RemoveAtShifts`).
- **`Apple1Display_proofs`** – `CursorIsUnique`, `ScreenShowsOutput` and
  `RepaintIsComplete`, from
  `DisplayInv == TypeOK /\ OneCursor /\ ScreenIsOutput /\ ShadowIsHost`.  The last
  conjunct says that while the shadow is valid the host shows it, in the phase it
  was painted in, but for the rows in `marred`; skipping another row whose shadow
  is equal is then painting it, and a marred row that is skipped has the picture
  that its shadow has, which makes it a `Spoiled` one.  That
  the screen is the tail of the text needs what one more character does to the
  text's lines: it extends the last, or ends it, and the cursor stands where the
  last line ends.  A line that is full has already gone over to the next row, and
  a screen that is full has scrolled by as many lines as the text has too many.
- **`Apple1Bus_proofs`** – `IndexInBounds` and `CellsAreDistinct` for every size
  of RAM; `TypeCorrect` from `BusInv`, which adds that the cards on the bus of a
  running machine are the ones it was started with; `KeyIsKept`, from one lemma
  for reads and one for writes;
  `StaysInBounds`, for reads and writes of all machines on two conditions that the
  program does not enforce: files name a run address only where the reset
  vector is RAM (`VectorInRam`), and a flat bus has 64 KB (`FlatIsWhole`).
  Without the first the run `bus_vector` shows the access outside; without the
  second every access above the RAM is one.
  `PollingIsPaced`, from `Paced`: the time the line to the
  guest measures never exceeds the time since the last character, so that a
  guest that saw the display free has waited; `RamIsMemory`, the refinement of `GuestMemory` under `FlatIsWhole` (a cell
  outside the array is nobody's memory): initial
  states map to initial states, a write to RAM changes one cell of the mapped
  memory because cells are distinct, and every other step stutters.
- **`Apple1Aci_proofs`** – from `IInv == TypeOK /\ PlayerInv /\ RecorderInv /\
  RecordingInv`: `InputIsTheWave`, `RecordingIsExact`, `TapeGoesForward`,
  `ListeningStartsTheTape`.  `PlayerInv` ties the counter to the next edge:
  `cyclesUntilToggle` is that edge less the place the tape has reached, also
  between two rounds of the tick's loop, where it is negative.  That the signed
  counter does not overflow follows from the lengths of pulses and
  instructions (`SignedFits`), and that a difference of wrapped counters is the
  time that passed from the uniqueness of remainders.  `PulsesSurviveSaving` bounds
  what rounding to samples and back does to a pulse, for every rate and length.
  `TornTapesAreRefused` and `SavedTapesLoad` add `FileInv`: a file holds a
  beginning of what is to be saved, claims all of it, and is torn if it is not all.
  That it loads as it was recorded follows the loader's walk over the samples
  from one pulse to the next: at the end of each the walk has found the pulses
  before it, and stands at the sum of their lengths.  Both ask for a rate of
  ten samples a second or more, because the silence behind the last pulse, a
  tenth of a second, must have a sample for that pulse to end; the program
  writes 44,100.  `LoadedTapeIsTape`: what the loader makes of any samples is a
  tape of the kind that the module assumes of `Tapes`.
- **`Apple1Startup_proofs`** – `FilesMeanSwitches`, for configurations of every
  length and order.  `Plainly` has a key once at most, so each option is what the
  one line that sets it says, or the default; and of the switches each option
  has one that sets it, at the place that `FlattenJoins` finds.  A value of `load`
  is read by the file's parser on one side and by the switch's on the other;
  `OperandReads` is that they agree once the blanks are gone.  The hypothesis
  `MachinesAreCommands`, that the machines are those of commands, holds of the
  run `bus` by how `AllMachines` is defined, and its commands are commands by
  `CommandsAssumption`.  `CommandsMakeMachines`: what `MachineOf` makes of any
  command is a machine, which is what `Apple1Bus` and its proofs assume, so that
  they are about all command lines and files.  It asks only that the clock counts
  further than a character takes at one baud.
  `ListingsAreLoaded`, from `ListingInv`: where no binary was loaded no cell is
  written before the text's, and once they are RAM is the listing until the
  guest runs.  Its hypothesis `TextsAreListings` is that the texts read as their
  listings mean, so that it is about loading; reading is checked by TLC.
- **`Cpu6502_proofs`**, the arithmetic – addition and subtraction against integer arithmetic,
  the overflow flag against signed arithmetic, decimal mode against decimal
  arithmetic for valid digits and bytes for all, comparison against the order of
  the bytes.  These are statements on operators, for all operands; carry, zero
  and the high digit each have a step of their own.
  The processor – `TypeCorrect`, `CyclesAreAccesses`, `RefreshIsExact`
  and `ReturnsAreExact`, for every program, memory and length of run, from
  `IInv == CycleInv /\ FramesIntact`.  Every handler ends in `Finish`, so a step
  keeps the invariant if what it hands to `Finish` is in range and has as many
  accesses as cycles – the twelve JAMs one more, an interrupt and a halted step one
  less, which `CyclesFollowTheBus` says of each; that is a count for each addressing mode, compared with
  the table of opcodes (`ReadingModes`, `StoringModes`, `ModifyingModes`,
  `OtherModes`).  What a return
  restores needs `FramesIntact`: a frame that no store and no push has written
  over lies on the stack as it was pushed.  The results of decimal mode are
  bytes by `DecimalResultsAreBytes`.  `StartsAssumption` says that the
  memory and registers a run starts with are bytes and words.

Only model-checked: the liveness properties (`KeyIsLatched`,
`HostBytesConsumed`, `SignalAnswered`, `StepComesBack`, `ScreenIsShown`), which
the prover does not reach, and that the texts of listings, however they are laid
out, read as the listings mean (`TextIsListing`, the half of `ListingIsLoaded`
that `ListingsAreLoaded` takes as its hypothesis; step 9 of the plan).

## 6 Where the program and its documents disagree

Shown by a run (the quotations are in `PROJECT.json`):

1. `main_resume` – `s` or `c` at a breakpoint opens the prompt again at once:
   the loop's head tests the same breakpoint before an instruction has run
   (`main.c:911`).
2. `main_sigint` – with `-g`, a SIGINT first seen at the head of the loop ends
   the program instead of opening the prompt (`main.c:879`).
3. `main_exit` – the prompt's `q` exits without saving the tape (`dbg.c:503`).
4. `irq` – the interrupt line is called level-sensitive and is cleared when it
   is served (`cpu.c:2940`).
5. `disasm` – `$AB` is one byte in a listing and two to the processor
   (`disasm.c:60`).
6. `bus_vector` – a WOZMON text's run address is stored at index `$FFFC` of an
   array of 8192 bytes (`main.c:775`).

Noticed while modelling, contained in the models where they concern them, and
not stated as properties: `q` at the prompt leaves the terminal in the
prompt's settings; Enter steps only after an earlier `s`; `s` at a breakpoint
leaves `repause` set, which a later `d` and `c` meet; newlines of a paste are
dropped (`term_ansi.c:41-46`); the comment on the lockout (`bus.c:884-888`)
describes dropping keys, the code defers them; a lone ESC swallows up to five
keys after it (`term_ansi.c:305-325`; `EscapeGivesUp` says no more); dumping `$D010` in the debugger takes the key;
the machine waits for ^R where `documentation/hardware.md:106` has a power-on reset
(`main.c:847-852`); a
read-modify-write of `$D012` prints twice (`bus.c:679-698`); a flat binary's
vector is stored as in 6 if the build has less than 64 KB, and `-F` in such a
build indexes the array with every address, since nothing enforces the 64 KB that
`documentation/usage.md:36` asks for (`bus.c:720`, `bus.c:791`); serving an interrupt makes six accesses in seven cycles and skips refresh;
`dram_cycle_acc` survives a reset; the trace, and warnings where there is no log
file, go to standard output over the screen without invalidating its shadow, so
that what they spoil stays until it changes or ^C, the prompt or a blinking
cursor has it painted; after 71 minutes of silence the
display is busy once more.

Of the cassette: the saved wave is the output turned over, because the level kept
for its start is the one before the first toggle (`aci.c:37`); an instruction that
toggles the output an even number of times leaves an edge in the recording that
the output does not have; where the buffer cannot grow durations are dropped
and the wave goes on with the wrong sign; the number of samples is summed in 32
bits and compared with the limit only after the sum (`aci.c:672`), which a
recording of more than a day would pass, beyond the numbers of the model; the tape runs from the moment it is
loaded, so that a program that reads it soon after the start misses the leader
(`aci.c:84` waits for half a second).

Of the start: `-w notes.conf` is refused instead of loading the text, because a
configuration file is looked for among the operands of switches too
(`main.c:437`), where `documentation/usage.md:17` has it as a positional argument,
and `-L -g` takes the name of the log for the flag (`main.c:433`); `-l "prog @ E000"` asks for a file whose name ends in a
blank and `-l @E000` for one without a name, where the same values of `load` in a
file are trimmed and refused; a number of fewer than four digits before `R` is
passed over, a single digit of data dropped, and data at the end of a line
joins an address that follows it without a blank; a text that only says where to run is refused; `-e`
and `-E` without `-a` are passed over; values of `-B`, `-V` and `-l` that make no
sense are passed over where a file with them is refused, `baud = 0` among them,
which `apple1.conf.example` offers; its baud is said to be characters a
second and is divided by ten (`term_ansi.c:209`); its `wozmon_txt` is said to be
the ROM's contents and loads RAM; `flat_bus = no` behind `flat_bin` puts the
flat binary on a split bus.

## 7 What is not modelled

- *Files*: opening and reading; a file is its contents, or is not there.  Of a
  WAV file the chunks, the sizes of samples, the channels and the
  threshold are abstracted to samples with a sign; a header is its three parts.
- *Words*: the characters of numbers, truths and keys (`parse_bool`,
  `port_strtol`), switches written together (`-cp`) and operands written against
  their switch are abstracted to what they read as.
- *Disassembler*: mnemonics and layout; lengths and modes are `Disasm6502`.
- *RAM at power-on* is cleared in the model; the option that fills it with
  noise changes only what the first read of a cell returns.
- *Time*: throttling sleeps and the wall clock of the repaint decide only when
  things happen, and the models let them happen at any time.  The uncapped bus's
  wait of a microsecond is left out.
- *Debugger output*, the trace of the last 24 program counters, log texts and
  layout of listings: text.
- *Portability layer, tests, tools and media*: string and path routines replace
  the C library's and keep nothing; Windows' and DOS' terminals differ from the
  POSIX one modelled here.
