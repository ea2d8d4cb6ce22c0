--------------------------- MODULE Apple1Keyboard ---------------------------
(***************************************************************************)
(* The path of a keystroke from the host terminal to the guest program:    *)
(*                                                                         *)
(*   tty --term_poll--> (escape decoder, paste staging)                    *)
(*       --io_check_keyboard--> ring buffer                                *)
(*       --bus_update_keyboard--> PIA data register + CA1 strobe           *)
(*       --pia_read($D010)--> guest                                        *)
(*                                                                         *)
(* The emulator is one thread.  Each iteration of the main loop may poll   *)
(* the keyboard (main.c:884-904), then runs one guest instruction and      *)
(* advances the bounce window by its cycles (main.c:987-993).  The host    *)
(* types whenever it likes.  Characters are their byte values.             *)
(***************************************************************************)
EXTENDS Integers, Sequences

CONSTANTS
  HostInputs,      (* Byte strings the host may send: keys, escape codes... *)
  MaxInputs,       (* Bound: how many of them it sends.                     *)
  KbdSize,         (* APPLE1_KBD_BUFFER_SIZE: slots of the ring.            *)
  PasteSize,       (* APPLE1_PASTE_BUFFER_SIZE.                             *)
  EmulateBounce,   (* opts.emulate_kbd_bounce                               *)
  BounceCycles,    (* Values the lockout may start at (5000..14999).        *)
  StepCycles,      (* Cycles an instruction may take.                       *)
  DebugModes       (* Whether it is started with -g, without, or either.     *)

Byte == 0 .. 255
Key  == 128 .. 255      (* what the guest sees: bit 7 is always set *)

ASSUME KbdAssumption ==
  /\ HostInputs \subseteq Seq(Byte)
  /\ MaxInputs \in Nat
  /\ KbdSize \in Nat \ {0, 1}
  /\ PasteSize \in Nat \ {0, 1}
  /\ EmulateBounce \in BOOLEAN
  /\ BounceCycles \subseteq Nat \ {0}
  /\ BounceCycles # {}
  /\ StepCycles \subseteq Nat \ {0}
  /\ DebugModes \subseteq BOOLEAN

VARIABLES
  tty,          (* Bytes the host has sent and read() has not returned. *)
  inputs,       (* How many of HostInputs have been sent (bounded).     *)
  escSeq,       (* escape_seq_buf[0 .. escape_seq_pos - 1]              *)
  pasteActive,  (* bracketed_paste_active                               *)
  pasteBuf,     (* The occupied part of paste_buffer, oldest first.     *)
  buffer,       (* kbd_buffer                                           *)
  readIdx,      (* kbd_read_idx                                         *)
  writeIdx,     (* kbd_write_idx                                        *)
  kbdData,      (* pia.kbd_data                                         *)
  strobe,       (* bit 7 of pia.kbd_control                             *)
  dataMode,     (* bit 2 of pia.kbd_control: data, not direction        *)
  bounce,       (* kbd_bounce_cycles                                    *)
  halted,       (* cpu.halted                                           *)
  quitFlag,     (* g_quit_flag                                          *)
  running,      (* FALSE once the main loop has ended.                  *)
  debugEnabled, (* g_debug_enabled (-g)                                 *)
  seen,         (* History: keys term_poll has returned, in order.      *)
  got           (* History: keys read from $D010 with the strobe set.   *)

hostVars == <<tty, inputs>>
termVars == <<escSeq, pasteActive, pasteBuf>>
ringVars == <<buffer, readIdx, writeIdx>>
piaVars  == <<kbdData, strobe, dataMode, bounce>>
runVars  == <<halted, quitFlag, running, debugEnabled>>
vars == <<hostVars, termVars, ringVars, piaVars, runVars, seen, got>>

Slots == 0 .. KbdSize - 1

Init ==
  /\ tty = <<>> /\ inputs = 0
  /\ escSeq = <<>> /\ pasteActive = FALSE /\ pasteBuf = <<>>
  /\ buffer = [i \in Slots |-> 0] /\ readIdx = 0 /\ writeIdx = 0
  /\ kbdData = 0 /\ strobe = FALSE /\ dataMode = TRUE /\ bounce = 0
  /\ debugEnabled \in DebugModes /\ halted = ~debugEnabled
  /\ quitFlag = FALSE /\ running = TRUE
  /\ seen = <<>> /\ got = <<>>

-----------------------------------------------------------------------------
(* Conversions *)

ESC == 27
CtrlC == 3
CtrlL == 12
ResetChars == {18, 20}
PasteOpen  == <<ESC, 91, 50, 48, 48, 126>>
PasteClose == <<ESC, 91, 50, 48, 49, 126>>

Upper(c) == IF c \in 97 .. 122 THEN c - 32 ELSE c
NewlineToReturn(c) == IF c = 10 THEN 13 ELSE c
(* Mutant: term_poll returns the byte without bit 7. *)
BareByte(c) == c

SetHighBit(c) == 128 + (c % 128)

(* Keys that paste_buffer_put keeps: it maps LF to CR, and then drops CR with
   every other control character. *)
Pasted(c) == Upper(NewlineToReturn(c))
Pasteable(c) == Pasted(c) \in 32 .. 126

-----------------------------------------------------------------------------
(* The ring of io.c *)

NextSlot(i) == IF i + 1 = KbdSize THEN 0 ELSE i + 1
(* Mutant: the write index is not compared with the read index. *)
NeverFull == FALSE

RingFull == NextSlot(writeIdx) = readIdx

Occupied(i) ==
  IF readIdx <= writeIdx
    THEN readIdx <= i /\ i < writeIdx
    ELSE i < writeIdx \/ readIdx <= i

RingLen == IF readIdx <= writeIdx THEN writeIdx - readIdx
                                  ELSE writeIdx + KbdSize - readIdx

RingContents ==
  [n \in 1 .. RingLen |->
     LET i == readIdx + n - 1 IN buffer[IF i < KbdSize THEN i ELSE i - KbdSize]]

(* Mutant: the latch does not look at the strobe. *)
StoreAndOverwrite(key) ==
  LET stored == key # 0 /\ ~RingFull
      filled == IF stored THEN [buffer EXCEPT ![writeIdx] = key] ELSE buffer
      end    == IF stored THEN NextSlot(writeIdx) ELSE writeIdx
      taken  == readIdx # end
  IN  /\ buffer' = filled
      /\ writeIdx' = end
      /\ readIdx' = IF taken THEN NextSlot(readIdx) ELSE readIdx
      /\ kbdData' = IF taken THEN filled[readIdx] ELSE kbdData
      /\ strobe' = (strobe \/ taken)
      /\ bounce' \in IF taken /\ EmulateBounce THEN BounceCycles ELSE {bounce}
      /\ seen' = IF key # 0 THEN Append(seen, key) ELSE seen
      /\ UNCHANGED <<dataMode, got>>

(* Mutant: only a key that has just arrived is latched. *)
StoreThenLatch(key) ==
  LET stored == key # 0 /\ ~RingFull
      filled == IF stored THEN [buffer EXCEPT ![writeIdx] = key] ELSE buffer
      end    == IF stored THEN NextSlot(writeIdx) ELSE writeIdx
      taken  == ~strobe /\ stored
  IN  /\ buffer' = filled
      /\ writeIdx' = end
      /\ readIdx' = IF taken THEN NextSlot(readIdx) ELSE readIdx
      /\ kbdData' = IF taken THEN filled[readIdx] ELSE kbdData
      /\ strobe' = (strobe \/ taken)
      /\ bounce' \in IF taken /\ EmulateBounce THEN BounceCycles ELSE {bounce}
      /\ seen' = IF key # 0 THEN Append(seen, key) ELSE seen
      /\ UNCHANGED <<dataMode, got>>

(* io_check_keyboard stores the key term_poll returned (0 is "none"), then
   bus_update_keyboard moves the oldest key to the PIA if the guest has read
   the previous one. *)
StoreAndLatch(key) ==
  LET stored == key # 0 /\ ~RingFull
      filled == IF stored THEN [buffer EXCEPT ![writeIdx] = key] ELSE buffer
      end    == IF stored THEN NextSlot(writeIdx) ELSE writeIdx
      oldest == filled[readIdx]
      taken  == ~strobe /\ readIdx # end
      latch  == taken /\ oldest # 0
  IN  /\ buffer' = filled
      /\ writeIdx' = end
      /\ readIdx' = IF taken THEN NextSlot(readIdx) ELSE readIdx
      /\ kbdData' = IF latch THEN oldest ELSE kbdData
      /\ strobe' = (strobe \/ latch)
      /\ bounce' \in IF latch /\ EmulateBounce THEN BounceCycles ELSE {bounce}
      /\ seen' = IF key # 0 THEN Append(seen, key) ELSE seen
      /\ UNCHANGED <<dataMode, got>>

-----------------------------------------------------------------------------
(* term_poll, one disjunct per way it returns *)

Running == running /\ ~quitFlag

(* bus_update_keyboard returns before it polls while the encoder settles. *)
Settling == EmulateBounce /\ bounce > 0

(* Mutant: the host is not polled while the guest holds a key. *)
PollWhenRead == Running /\ ~Settling /\ ~strobe

CanPoll == Running /\ ~Settling

PollStaged ==
  /\ CanPoll
  /\ pasteBuf # <<>>
  /\ StoreAndLatch(SetHighBit(Head(pasteBuf)))
  /\ pasteBuf' = Tail(pasteBuf)
  /\ UNCHANGED <<hostVars, escSeq, pasteActive, runVars>>

(* read() finds nothing: nothing was typed, or it has not arrived yet. *)
PollNothing ==
  /\ CanPoll
  /\ pasteBuf = <<>>
  /\ StoreAndLatch(0)
  /\ UNCHANGED <<hostVars, termVars, runVars>>

(* Mutant: the terminal is read before the staged paste is drained. *)
ReadFirst == CanPoll /\ tty # <<>>

ReadByte ==
  /\ CanPoll
  /\ pasteBuf = <<>>
  /\ tty # <<>>

ByteConsumed == tty' = Tail(tty) /\ UNCHANGED inputs

(* Mutant: a sequence ends only when it is one of the two that are known. *)
EscapeKnown(s) == s \in {PasteOpen, PasteClose}

EscapeComplete(s) == Len(s) >= 6

(* Inside an escape sequence every byte is swallowed; the sixth ends it. *)
PollEscape ==
  LET c == Head(tty)
      s == IF c = ESC THEN <<c>> ELSE Append(escSeq, c)
      complete == EscapeComplete(s)
  IN  /\ ReadByte
      /\ c = ESC \/ (escSeq # <<>> /\ c # 0)
      /\ ByteConsumed
      /\ escSeq' = IF complete THEN <<>> ELSE s
      /\ pasteActive' = (s = PasteOpen \/ (pasteActive /\ s # PasteClose))
      /\ pasteBuf' = IF s = PasteOpen THEN <<>> ELSE pasteBuf
      /\ StoreAndLatch(0)
      /\ UNCHANGED runVars

(* Not part of an escape sequence.  A NUL byte counts as "nothing read". *)
Plain(c) == c # ESC /\ c # 0 /\ escSeq = <<>>

PollNul ==
  /\ ReadByte
  /\ Head(tty) = 0
  /\ ByteConsumed
  /\ StoreAndLatch(0)
  /\ UNCHANGED <<termVars, runVars>>

(* ^C raises the quit flag and shuts the terminal down, which flushes the
   host's pending input (TCSAFLUSH). *)
PollQuit ==
  /\ ReadByte
  /\ Plain(Head(tty))
  /\ Head(tty) = CtrlC
  /\ tty' = <<>>
  /\ quitFlag' = TRUE
  /\ StoreAndLatch(0)
  /\ UNCHANGED <<inputs, termVars, halted, running, debugEnabled>>

PollPasted ==
  LET c == Head(tty)
  IN  /\ ReadByte
      /\ Plain(c)
      /\ c # CtrlC
      /\ pasteActive
      /\ ByteConsumed
      /\ pasteBuf' = IF Pasteable(c) /\ Len(pasteBuf) < PasteSize - 1
                       THEN Append(pasteBuf, Pasted(c)) ELSE pasteBuf
      /\ StoreAndLatch(0)
      /\ UNCHANGED <<escSeq, pasteActive, runVars>>

(* ^L clears the screen, which this module leaves out; no key is produced. *)
PollClear ==
  /\ ReadByte
  /\ Plain(Head(tty))
  /\ ~pasteActive
  /\ Head(tty) = CtrlL
  /\ ByteConsumed
  /\ StoreAndLatch(0)
  /\ UNCHANGED <<termVars, runVars>>

(* ^R and ^T: the main loop sees io_reset_pending right after the poll and
   resets the PIA, the ring and the CPU, whatever the poll had latched. *)
PollReset ==
  /\ ReadByte
  /\ Plain(Head(tty))
  /\ ~pasteActive
  /\ Head(tty) \in ResetChars
  /\ ByteConsumed
  /\ kbdData' = 0 /\ strobe' = FALSE /\ dataMode' = FALSE /\ bounce' = 0
  /\ readIdx' = 0 /\ writeIdx' = 0
  /\ halted' = FALSE
  /\ UNCHANGED <<termVars, buffer, quitFlag, running, debugEnabled, seen, got>>

PollKey ==
  LET c == Head(tty)
  IN  /\ ReadByte
      /\ Plain(c)
      /\ ~pasteActive
      /\ c \notin ResetChars \cup {CtrlC, CtrlL}
      /\ ByteConsumed
      /\ StoreAndLatch(SetHighBit(Upper(NewlineToReturn(c))))
      /\ UNCHANGED <<termVars, runVars>>

PollByte ==
  \/ PollEscape
  \/ PollNul
  \/ PollQuit
  \/ PollPasted
  \/ PollClear
  \/ PollReset
  \/ PollKey

Poll == PollStaged \/ PollNothing \/ PollByte

-----------------------------------------------------------------------------
(* The guest.  An instruction makes at most one access that matters here: a
   read-modify-write of $D010 only repeats the read's effect, and one of $D011
   ends in the last value written. *)

(* Mutant: the unsigned counter runs below zero. *)
TickPastZero(c) == bounce' = IF EmulateBounce /\ bounce > 0 THEN bounce - c ELSE bounce

Tick(c) == bounce' = IF EmulateBounce /\ bounce > c THEN bounce - c
                     ELSE IF EmulateBounce THEN 0 ELSE bounce

(* pia_read of $D010: in data mode it hands over the key and drops the strobe. *)
HandOver ==
  /\ strobe' = FALSE
  /\ got' = IF strobe THEN Append(got, kbdData) ELSE got

ReadKbdData == IF dataMode THEN HandOver ELSE UNCHANGED <<strobe, got>>

GuestReadsKey ==
  /\ Running
  /\ ~halted
  /\ ReadKbdData
  /\ \E c \in StepCycles : Tick(c)
  /\ UNCHANGED <<hostVars, termVars, ringVars, kbdData, dataMode, runVars, seen>>

(* pia_write of $D011: bit 7 is read-only, bit 2 selects the data register. *)
GuestWritesControl ==
  /\ Running
  /\ ~halted
  /\ dataMode' \in BOOLEAN
  /\ \E c \in StepCycles : Tick(c)
  /\ UNCHANGED <<hostVars, termVars, ringVars, kbdData, strobe, runVars, seen, got>>

(* Any other instruction, and the one cycle a halted CPU reports; a JAM opcode
   is the instruction that halts it. *)
GuestStep ==
  /\ Running
  /\ \E c \in StepCycles : Tick(c)
  /\ halted' \in {halted, TRUE}
  /\ UNCHANGED <<hostVars, termVars, ringVars, kbdData, strobe, dataMode,
                 quitFlag, running, debugEnabled, seen, got>>

-----------------------------------------------------------------------------
(* The host and the main loop around the poll *)

HostTypes ==
  /\ running
  /\ inputs < MaxInputs
  /\ \E s \in HostInputs : tty' = tty \o s
  /\ inputs' = inputs + 1
  /\ UNCHANGED <<termVars, ringVars, piaVars, runVars, seen, got>>

(* With -g, ^C or a breakpoint enters the debugger.  Leaving and re-entering
   the raw mode flushes the pending input, and term_init forgets the escape
   and paste state; the ring stays.  A memory dump that covers $D010 takes the
   key as the guest would, and w rewrites $D011, before the dump or after it. *)
DebuggerSession ==
  /\ debugEnabled
  /\ running
  /\ quitFlag' = FALSE
  /\ tty' = <<>>
  /\ escSeq' = <<>> /\ pasteActive' = FALSE /\ pasteBuf' = <<>>
  /\ HandOver \/ UNCHANGED <<strobe, got>>
  /\ dataMode' \in BOOLEAN
  /\ UNCHANGED <<inputs, ringVars, kbdData, bounce, halted, running, debugEnabled, seen>>

(* Without -g the flag ends the main loop. *)
Quit ==
  /\ ~debugEnabled
  /\ running
  /\ quitFlag
  /\ quitFlag' = FALSE
  /\ running' = FALSE
  /\ UNCHANGED <<hostVars, termVars, ringVars, piaVars, halted, debugEnabled, seen, got>>

Next ==
  \/ HostTypes
  \/ Poll
  \/ GuestReadsKey
  \/ GuestWritesControl
  \/ GuestStep
  \/ DebuggerSession
  \/ Quit

Spec == Init /\ [][Next]_vars

(* The main loop polls and steps forever, and a byte that stays available is
   eventually returned by read(); a poll that the bounce window skipped comes
   again after it, hence the strong fairness of PollByte.  The flag ^C raises is
   looked at in every iteration: it ends the loop, or with -g opens the prompt,
   which the user is assumed to leave again. *)
Fairness ==
  /\ WF_vars(Poll)
  /\ SF_vars(PollByte)
  /\ WF_vars(GuestStep)
  /\ WF_vars(Quit)
  /\ WF_vars(quitFlag /\ DebuggerSession)

FairSpec == Spec /\ Fairness
-----------------------------------------------------------------------------
(* Properties *)

TypeOK ==
  /\ tty \in Seq(Byte) /\ inputs \in 0 .. MaxInputs
  /\ escSeq \in Seq(Byte) /\ pasteActive \in BOOLEAN /\ pasteBuf \in Seq(Byte)
  /\ buffer \in [Slots -> Byte] /\ readIdx \in Slots /\ writeIdx \in Slots
  /\ kbdData \in Byte /\ strobe \in BOOLEAN /\ dataMode \in BOOLEAN /\ bounce \in Nat
  /\ halted \in BOOLEAN /\ quitFlag \in BOOLEAN /\ running \in BOOLEAN
  /\ debugEnabled \in BOOLEAN
  /\ seen \in Seq(Byte) /\ got \in Seq(Byte)

(* Whatever was typed, pasted or interrupted, a waiting key and a latched key
   have bit 7 set: the Woz Monitor takes a key with bit 7 clear for none, so
   such a key would block the queue behind it (term_poll, io_read_keyboard). *)
KeysTagged ==
  /\ \A i \in Slots : Occupied(i) => buffer[i] \in Key
  /\ strobe => kbdData \in Key

(* The paste staging buffer never holds more than one byte, whatever its size:
   term_poll drains it before it reads the next byte, so a paste of any length
   cannot overflow it (paste_buffer_put's silent drop is unreachable). *)
StagingDrains == Len(pasteBuf) <= 1

(* A lone ESC cannot deafen the keyboard: whatever follows it, the decoder gives
   up after six bytes, so at most five keys are lost and escape_seq_buf is not
   overrun; and the bytes it holds began with the last ESC (term_poll).      *)
EscapeGivesUp ==
  /\ Len(escSeq) < 6
  /\ \A i \in 1 .. Len(escSeq) : escSeq[i] = ESC <=> i = 1

(* A key the guest has been told about and has not read stays in $D010: no
   later key, paste or debugger session replaces it (bus_update_keyboard). *)
LatchedKeyHeld == [][strobe /\ strobe' => kbdData' = kbdData]_vars

(* The guest sees the keys of the host in order, each once; the only loss is
   of the newest key when the ring is full, and RESET forgets the rest. *)
Waiting == (IF strobe THEN <<kbdData>> ELSE <<>>) \o RingContents

Queue == INSTANCE KeyQueue WITH
  Keys <- Key, Capacity <- KbdSize, queue <- Waiting, seen <- seen, got <- got

RefinesQueue == Queue!Spec

(* The main loop keeps feeding the PIA: a key in the ring is latched once the
   guest has read the previous one and the bounce window is over. *)
KeyIsLatched == RingLen > 0 ~> (strobe \/ RingLen = 0 \/ ~running)

(* What the host typed is always processed, even if the guest never reads a
   key: that is why io_check_keyboard polls whatever the strobe is, so that ^R
   and ^C get through to a guest that is stuck. *)
HostBytesConsumed == tty # <<>> ~> (tty = <<>> \/ ~running)
=============================================================================
