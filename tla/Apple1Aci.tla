----------------------------- MODULE Apple1Aci -----------------------------
(***************************************************************************)
(* The cassette interface (aci.c).  The tape that plays is a list of        *)
(* durations; it runs by itself from the moment it is loaded, and goes back *)
(* to its start when a program begins to listen after half a second of     *)
(* silence.  Every access to $C000-$C0FF toggles the output, and the cycles *)
(* between toggles are recorded, to be saved when the program ends.         *)
(*                                                                         *)
(* An instruction accesses the card any number of times and then the card's *)
(* clock moves by the instruction's cycles (main.c:987-1001), so accesses   *)
(* of one instruction share a time.                                         *)
(***************************************************************************)
EXTENDS AciWave

CONSTANTS
  Tapes,          (* What tape files decode to, see IsTape.                  *)
  Cycles,         (* Cycles an instruction may take.                         *)
  RewindGap,      (* 511500: half a second, in cycles.                       *)
  Half,           (* 2^31: the counters are 32 bits wide.                    *)
  FirstCapacity,  (* 4096: the recording's first allocation.                 *)
  MaxTime,        (* Bound: how long the machine runs, in cycles.            *)
  MaxToggles,     (* Bound: how many accesses there are in all.              *)
  MaxBurst        (* Bound: how many of them in an instruction.              *)

Wrap == 2 * Half

(* A tape (TapeOf) is its level at first and the times of its edges: a duration
   is the time from one edge to the next.  A pulse of 35 minutes (2^31 cycles)
   does not fit the signed counter; tapes have no such pulse.                *)
IsTape(t) ==
  /\ t.level \in BOOLEAN
  /\ t.edges \in Seq(Nat \ {0}) /\ t.edges # <<>>
  /\ \A i, j \in 1 .. Len(t.edges) : i < j => t.edges[i] < t.edges[j]
  /\ \A i \in 1 .. Len(t.edges) :
       t.edges[i] - (IF i = 1 THEN 0 ELSE t.edges[i - 1]) < Half

NoTape == [level |-> FALSE, edges |-> <<>>]
NoFile == [parts |-> 0, claims |-> 0, samples |-> <<>>]

ASSUME AciAssumption ==
  /\ Half \in Nat \ {0}
  /\ \A t \in Tapes : IsTape(t)
  /\ Cycles \subseteq 1 .. Half
  /\ RewindGap \in Nat
  /\ FirstCapacity \in Nat \ {0}
  /\ MaxTime \in Nat /\ MaxToggles \in Nat /\ MaxBurst \in Nat

VARIABLES
  at,                (* "cpu": between accesses; "tick": in aci_tick; "off"  *)
  now,               (* Cycles since the start; current_cycle is its low half. *)
  tape,              (* durations and initial_level                          *)
  inputLevel, playbackIndex, cyclesUntilToggle, tapeActive, lastReadCycle,
  outputLevel, outputInitialLevel, recordingStarted, lastOutputToggle,
  recorded,          (* recorded_durations[0 .. recorded_count - 1]          *)
  capacity,          (* recorded_capacity                                    *)
  file,              (* What save_wav_tape left on the disk.                 *)
  heard,             (* Bit 7 of the last answer at $C081.                   *)
  origin,            (* History: when the tape was last at its start.        *)
  heardAt,           (* History: when $C081 was last read, at first 0.       *)
  marks,             (* History: the times at which the output was toggled.  *)
  burst, toggles,    (* History: toggles of this instruction, and of all.    *)
  even,              (* History: an instruction toggled an even number of times. *)
  refused,           (* History: the recording could not grow.               *)
  torn               (* History: saving failed before the last sample.       *)

playerVars == <<tape, inputLevel, playbackIndex, cyclesUntilToggle, tapeActive,
                lastReadCycle, heard, origin, heardAt>>
recorderVars == <<outputLevel, outputInitialLevel, recordingStarted, lastOutputToggle,
                  recorded, capacity, marks, burst, toggles, even, refused>>
fileVars == <<file, torn>>
vars == <<at, now, playerVars, recorderVars, fileVars>>

CurrentCycle == now % Wrap
(* Mutant: a counter that wrapped is taken for one that stood still. *)
SinceUnlessWrapped(cycle) == IF CurrentCycle < cycle THEN 0 ELSE CurrentCycle - cycle
Since(cycle) == (CurrentCycle - cycle) % Wrap       \* the unsigned difference
Signed(x) == ((x + Half) % Wrap) - Half             \* what an int32_t keeps of it

TapeLoaded == tape # NoTape
Edge(k) == IF k = 0 THEN 0 ELSE tape.edges[k]
Duration(k) == Edge(k) - Edge(k - 1)
Pulses == Len(tape.edges)

(* aci_create, then load_wav_tape (or no tape at all). *)
Init ==
  /\ at = "cpu" /\ now = 0
  /\ tape \in Tapes \cup {NoTape}
  /\ inputLevel = tape.level
  /\ playbackIndex = 0
  /\ cyclesUntilToggle = (IF TapeLoaded THEN Signed(Duration(1)) ELSE 0)
  /\ tapeActive = TapeLoaded
  /\ lastReadCycle = 0 /\ heard = FALSE /\ origin = 0 /\ heardAt = 0
  /\ outputLevel = FALSE /\ outputInitialLevel = FALSE /\ recordingStarted = FALSE
  /\ lastOutputToggle = 0 /\ recorded = <<>> /\ capacity = 0
  /\ marks = <<>> /\ burst = 0 /\ toggles = 0 /\ even = FALSE /\ refused = FALSE
  /\ file = NoFile /\ torn = FALSE

-----------------------------------------------------------------------------
(* aci_record_toggle *)

(* What the buffer may hold after port_realloc was asked, or not. *)
Grown ==
  IF Len(recorded) < capacity THEN {capacity}
  ELSE {capacity, IF capacity = 0 THEN FirstCapacity ELSE 2 * capacity}

Store(duration) ==
  /\ capacity' \in Grown
  /\ IF Len(recorded) < capacity'
       THEN recorded' = Append(recorded, duration) /\ UNCHANGED refused
       ELSE refused' = TRUE /\ UNCHANGED recorded

(* A toggle within the same instruction has no duration and is not recorded. *)
RecordToggle ==
  LET duration == Since(lastOutputToggle)
  IN  /\ toggles < MaxToggles /\ burst < MaxBurst
      /\ IF recordingStarted
           THEN /\ UNCHANGED outputInitialLevel
                /\ IF duration > 0 THEN Store(duration) ELSE UNCHANGED <<recorded, capacity, refused>>
           ELSE /\ outputInitialLevel' = outputLevel
                /\ UNCHANGED <<recorded, capacity, refused>>
      /\ recordingStarted' = TRUE
      /\ lastOutputToggle' = CurrentCycle
      /\ outputLevel' = ~outputLevel
      /\ marks' = IF burst = 0 THEN Append(marks, now) ELSE marks
      /\ burst' = burst + 1 /\ toggles' = toggles + 1
      /\ UNCHANGED even

-----------------------------------------------------------------------------
(* aci_read, aci_write *)

(* Mutant: any silence at all goes back to the start. *)
RewindAtOnce == TapeLoaded /\ playbackIndex > 0 /\ Since(lastReadCycle) > 0

Rewinds == TapeLoaded /\ playbackIndex > 0 /\ Since(lastReadCycle) > RewindGap

(* Mutant: the level of the tape's start is forgotten. *)
RewindPosition ==
  /\ playbackIndex' = 0
  /\ cyclesUntilToggle' = Signed(Duration(1))
  /\ tapeActive' = TRUE
  /\ origin' = now
  /\ UNCHANGED inputLevel

Rewind ==
  /\ playbackIndex' = 0
  /\ cyclesUntilToggle' = Signed(Duration(1))
  /\ inputLevel' = tape.level
  /\ tapeActive' = TRUE
  /\ origin' = now

(* A read of $C081 listens, and toggles the output like any other. *)
ReadInput ==
  /\ at = "cpu"
  /\ IF Rewinds THEN Rewind
     ELSE UNCHANGED <<playbackIndex, cyclesUntilToggle, inputLevel, tapeActive, origin>>
  /\ lastReadCycle' = CurrentCycle
  /\ heardAt' = now
  /\ heard' = inputLevel'
  /\ RecordToggle
  /\ UNCHANGED <<at, now, tape, fileVars>>

(* Any other access to $C000-$C0FF, but a write of $C081. *)
TouchOutput ==
  /\ at = "cpu"
  /\ RecordToggle
  /\ UNCHANGED <<at, now, playerVars, fileVars>>

-----------------------------------------------------------------------------
(* aci_tick, its loop one round at a time *)

Tick ==
  /\ at = "cpu"
  /\ \E c \in Cycles :
       /\ now + c <= MaxTime
       /\ now' = now + c
       /\ cyclesUntilToggle' = IF tapeActive THEN cyclesUntilToggle - c ELSE cyclesUntilToggle
  /\ at' = "tick"
  /\ even' = (even \/ (burst > 0 /\ burst % 2 = 0))
  /\ burst' = 0
  /\ UNCHANGED <<tape, inputLevel, playbackIndex, tapeActive, lastReadCycle, heard, origin,
                 heardAt, outputLevel, outputInitialLevel, recordingStarted,
                 lastOutputToggle, recorded, capacity, marks, toggles, refused, fileVars>>

(* Mutant: the loop does not see that the tape has ended. *)
DuePastTheEnd == cyclesUntilToggle <= 0
Due == tapeActive /\ cyclesUntilToggle <= 0

(* Mutant: the time past the edge is not taken off the next pulse. *)
FreshPulse(duration) == Signed(duration)
NextPulse(duration) == Signed(cyclesUntilToggle + duration)

ToggleInput ==
  /\ at = "tick" /\ Due
  /\ inputLevel' = ~inputLevel
  /\ playbackIndex' = playbackIndex + 1
  /\ IF playbackIndex + 1 >= Pulses
       THEN tapeActive' = FALSE /\ UNCHANGED cyclesUntilToggle
       ELSE /\ cyclesUntilToggle' = NextPulse(Duration(playbackIndex + 2))
            /\ UNCHANGED tapeActive
  /\ UNCHANGED <<at, now, tape, lastReadCycle, heard, origin, heardAt, recorderVars, fileVars>>

TickEnds ==
  /\ at = "tick" /\ ~Due
  /\ at' = "cpu"
  /\ UNCHANGED <<now, playerVars, recorderVars, fileVars>>

-----------------------------------------------------------------------------
(* save_wav_tape at the end of the program (main.c:263-299).  A file is what was
   written of it: the header in three parts (RIFF, the format, the length of the
   data), of which the last says how many samples follow, and samples.       *)

(* Mutant: the header counts the samples that were written. *)
CountsWritten(total, written) == written
Claims(total, written) == total

Leave ==
  /\ at = "cpu"
  /\ at' = "off"
  /\ UNCHANGED <<now, playerVars, recorderVars>>

(* No -E, nothing recorded, or the file cannot be opened. *)
LeaveUnsaved == Leave /\ UNCHANGED fileVars

(* Any write may fail, and what was written before it stays. *)
SaveTape ==
  LET samples == SavedSamples(recorded, outputInitialLevel)
  IN  /\ recorded # <<>>
      /\ Leave
      /\ \E written \in 0 .. Len(samples), parts \in 0 .. 3 :
           /\ parts < 3 => written = 0
           /\ file' = [parts |-> parts, claims |-> Claims(Len(samples), written),
                       samples |-> SubSeq(samples, 1, written)]
           /\ torn' = (written < Len(samples))

(* load_wav_tape: a file is refused unless all that its header claims is there. *)
LoadTape(f) ==
  IF f.parts = 3 /\ Len(f.samples) = f.claims THEN PcmToDurations(f.samples) ELSE <<>>

Next ==
  \/ ReadInput
  \/ TouchOutput
  \/ Tick
  \/ ToggleInput
  \/ TickEnds
  \/ LeaveUnsaved
  \/ SaveTape

Spec == Init /\ [][Next]_vars
-----------------------------------------------------------------------------
(* Properties *)

TypeOK ==
  /\ at \in {"cpu", "tick", "off"}
  /\ now \in 0 .. MaxTime /\ origin \in 0 .. now /\ heardAt \in 0 .. now
  /\ tape \in Tapes \cup {NoTape}
  /\ playbackIndex \in 0 .. Pulses
  /\ cyclesUntilToggle \in Int
  /\ lastReadCycle \in 0 .. Wrap - 1 /\ lastOutputToggle \in 0 .. Wrap - 1
  /\ inputLevel \in BOOLEAN /\ tapeActive \in BOOLEAN /\ heard \in BOOLEAN
  /\ outputLevel \in BOOLEAN /\ outputInitialLevel \in BOOLEAN /\ recordingStarted \in BOOLEAN
  /\ recorded \in Seq(1 .. Wrap - 1) /\ capacity \in Nat /\ Len(recorded) <= capacity
  /\ marks \in Seq(0 .. now)
  /\ burst \in 0 .. MaxBurst /\ toggles \in 0 .. MaxToggles
  /\ even \in BOOLEAN /\ refused \in BOOLEAN /\ torn \in BOOLEAN

Position == now - origin

(* Between instructions the input is the tape's wave at the place the tape has
   reached, even when an instruction passes several edges, and after the last. *)
PlaysTheWave ==
  at = "cpu" /\ TapeLoaded =>
    \E k \in 0 .. Pulses :
      /\ \A i \in 1 .. k : Edge(i) <= Position
      /\ \A i \in k + 1 .. Pulses : Edge(i) > Position
      /\ inputLevel = (tape.level # (k % 2 = 1))

(* A program that listens never sees the tape jump back: only a silence of half
   a second rewinds it, also when the cycle counter wraps.                   *)
HeardInOrder == [][origin' # origin => now - heardAt > RewindGap]_vars

(* A program that begins to listen after half a second (and less than 70
   minutes) hears the tape from within its first pulse.                      *)
HeardFromTheStart ==
  [][ReadInput /\ TapeLoaded /\ now - heardAt > RewindGap /\ now - heardAt < Wrap
       => now' - origin' < tape.edges[1] /\ heard' = tape.level]_vars

Gaps(times) == [i \in 1 .. Len(times) - 1 |-> times[i + 1] - times[i]]

(* The recording is the time between toggles, to the cycle, wherever the cycle
   counter wraps and the buffer grows, unless memory ran out or the output was
   at rest for 70 minutes.  Its durations and the output stay in step: their
   number tells the level the output has reached, given the level kept for the
   start (the one before the first toggle), unless an instruction toggled an even
   number of times: that one leaves the output as it was and an edge in the
   recording (aci_record_toggle).                                            *)
NoLongRest == \A i \in 1 .. Len(marks) - 1 : marks[i + 1] - marks[i] < Wrap

RecordingIsOutput ==
  ~refused /\ NoLongRest =>
    /\ recorded = Gaps(marks)
    /\ recordingStarted /\ ~even /\ burst % 2 = 1 =>
         (outputLevel = outputInitialLevel) = (Len(recorded) % 2 = 1)

(* A saved tape loads as the recording: the same pulses, each off by no more
   than one sample and a half cycle.                                         *)
SavedTapeLoads ==
  file # NoFile /\ ~torn =>
    LET loaded == LoadTape(file)
    IN  /\ Len(loaded) = Len(recorded)
        /\ InitialLevel(file.samples) = outputInitialLevel
        /\ \A i \in 1 .. Len(recorded) :
             LET error == loaded[i] - recorded[i]
             IN  2 * SampleRate * (IF error < 0 THEN -error ELSE error) <= 2 * AciClock + SampleRate

(* A file whose writing failed is never taken for a shorter tape. *)
TornTapeIsRefused == file # NoFile /\ torn => LoadTape(file) = <<>>
=============================================================================
