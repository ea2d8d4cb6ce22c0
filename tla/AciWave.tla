------------------------------ MODULE AciWave ------------------------------
(***************************************************************************)
(* Tapes as sound (aci.c:232-339, 633-814): a recording is a list of the    *)
(* cycles between the changes of the output; it is saved as samples of a    *)
(* square wave, and a sound file is loaded as the list of the cycles        *)
(* between its changes of sign.  A sample is 1 or -1, and 0 when it is too  *)
(* quiet to count (below 0.02 of full scale).                               *)
(***************************************************************************)
EXTENDS Integers, Sequences, SequencesExt

CONSTANTS
  AciClock,     (* ACI_CLOCK: cycles in a second.                            *)
  SampleRate    (* wav_sample_rate: samples in a second (44100).             *)

ASSUME WaveAssumption == AciClock \in Nat \ {0} /\ SampleRate \in Nat \ {0}

(* (uint32_t)(num / den + 0.5) *)
Nearest(num, den) == (2 * num + den) \div (2 * den)

(* A pulse never vanishes, however short. *)
AtLeastOne(n) == IF n = 0 THEN 1 ELSE n

SampleCount(cycles) == AtLeastOne(Nearest(cycles * SampleRate, AciClock))
CycleCount(samples) == AtLeastOne(Nearest(samples * AciClock, SampleRate))

-----------------------------------------------------------------------------
(* save_wav_tape: one run of samples for each duration, and a tenth of a second
   of the level that follows the last.                                       *)

(* Mutant: nothing is written after the last duration. *)
NoTail(durations, level) ==
  FlattenSeq([i \in 1 .. Len(durations) |->
    [s \in 1 .. SampleCount(durations[i]) |-> IF level = (i % 2 = 1) THEN 1 ELSE -1]])

Tail10 == SampleRate \div 10

SavedSamples(durations, level) ==
  FlattenSeq([i \in 1 .. Len(durations) + 1 |->
    [s \in 1 .. IF i <= Len(durations) THEN SampleCount(durations[i]) ELSE Tail10 |->
       IF level = (i % 2 = 1) THEN 1 ELSE -1]])

-----------------------------------------------------------------------------
(* pcm_to_durations, a sample at a time: the level at first and now (0 until a
   sample counts), the last transition, and the durations so far.            *)
Silence == [first |-> 0, level |-> 0, transition |-> 0, durations |-> <<>>]

ScanSample(scan, i, sample) ==
  IF sample \in {0, scan.level} THEN scan
  ELSE IF scan.level = 0
    THEN [scan EXCEPT !.first = sample, !.level = sample, !.transition = i]
    ELSE [scan EXCEPT !.level = sample, !.transition = i,
                      !.durations = Append(@, CycleCount(i - scan.transition))]

Scan(samples) ==
  LET upTo[i \in 0 .. Len(samples)] ==
        IF i = 0 THEN Silence ELSE ScanSample(upTo[i - 1], i, samples[i])
  IN  upTo[Len(samples)]

InitialLevel(samples) == Scan(samples).first = 1

(* No durations: the file is refused, it has no signal or no change of sign. *)
PcmToDurations(samples) == Scan(samples).durations

(* load_wav_tape: what is played, by the times of its edges. *)
EdgesOf(durations) ==
  LET edge[i \in 0 .. Len(durations)] == IF i = 0 THEN 0 ELSE edge[i - 1] + durations[i]
  IN  [i \in 1 .. Len(durations) |-> edge[i]]

TapeOf(samples) ==
  [level |-> InitialLevel(samples), edges |-> EdgesOf(PcmToDurations(samples))]
=============================================================================
