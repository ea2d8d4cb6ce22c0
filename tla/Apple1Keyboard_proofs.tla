----------------------- MODULE Apple1Keyboard_proofs -----------------------
(***************************************************************************)
(* Proofs about Apple1Keyboard for rings, paste buffers and inputs of any  *)
(* size.  The inductive invariant is TypeOK /\ KeysTagged: that a latched  *)
(* key carries bit 7 rests on every occupied slot of the ring doing so,    *)
(* and that on the indices staying inside the ring.                        *)
(*                                                                         *)
(* The path implements the queue of KeyQueue.  The ring's keys are the     *)
(* slots from the read index on, and wrap at the end of the array:         *)
(* ContentsAppended and ContentsTaken say what storing and taking a key do *)
(* to them.  A poll then either leaves the queue as it was, the latch      *)
(* having moved its first key from the ring to the PIA, or appends a key,  *)
(* or loses one when the ring is full.                                     *)
(***************************************************************************)
EXTENDS Apple1Keyboard, SequenceTheorems, TLAPS

IInv == TypeOK /\ KeysTagged

(* term_poll's "ch | 0x80" makes every byte a key code. *)
LEMMA HighBitIsKey == ASSUME NEW c \in Byte PROVE SetHighBit(c) \in Key
  BY SMT DEF Byte, Key, SetHighBit

(* Upper-casing and newline mapping stay within the bytes. *)
LEMMA ConversionsAreBytes ==
  ASSUME NEW c \in Byte
  PROVE  Upper(NewlineToReturn(c)) \in Byte
  BY SMT DEF Byte, Upper, NewlineToReturn

(* The next slot is in the ring (io.c's "% APPLE1_KBD_BUFFER_SIZE"). *)
LEMMA NextSlotInRing == ASSUME NEW i \in Slots PROVE NextSlot(i) \in Slots
  BY KbdAssumption, SMT DEF Slots, NextSlot

(* A poll, whatever key it produces, keeps the ring and the PIA well formed
   and every waiting key tagged. *)
LEMMA StoreAndLatchKeepsInv ==
  ASSUME IInv, NEW key \in Key \cup {0}, StoreAndLatch(key)
  PROVE  /\ buffer' \in [Slots -> Byte] /\ readIdx' \in Slots /\ writeIdx' \in Slots
         /\ kbdData' \in Byte /\ strobe' \in BOOLEAN /\ dataMode' \in BOOLEAN
         /\ bounce' \in Nat /\ seen' \in Seq(Byte) /\ got' \in Seq(Byte)
         /\ KeysTagged'
PROOF
  <1> DEFINE stored == key # 0 /\ ~RingFull
             filled == IF stored THEN [buffer EXCEPT ![writeIdx] = key] ELSE buffer
             end    == IF stored THEN NextSlot(writeIdx) ELSE writeIdx
             taken  == ~strobe /\ readIdx # end
             latch  == taken /\ filled[readIdx] # 0
  <1>1. /\ buffer' = filled
        /\ writeIdx' = end
        /\ readIdx' = IF taken THEN NextSlot(readIdx) ELSE readIdx
        /\ kbdData' = IF latch THEN filled[readIdx] ELSE kbdData
        /\ strobe' = (strobe \/ latch)
        /\ bounce' \in IF latch /\ EmulateBounce THEN BounceCycles ELSE {bounce}
        /\ seen' = IF key # 0 THEN Append(seen, key) ELSE seen
        /\ dataMode' = dataMode /\ got' = got
    BY DEF StoreAndLatch
  <1>2. /\ buffer \in [Slots -> Byte] /\ readIdx \in Slots /\ writeIdx \in Slots
        /\ kbdData \in Byte /\ strobe \in BOOLEAN /\ dataMode \in BOOLEAN
        /\ bounce \in Nat /\ seen \in Seq(Byte) /\ got \in Seq(Byte)
    BY DEF IInv, TypeOK
  <1>3. Key \cup {0} \subseteq Byte
    BY SMT DEF Key, Byte
  <1>4. filled \in [Slots -> Byte] /\ end \in Slots
    BY <1>2, <1>3, NextSlotInRing
  <1>5. filled[readIdx] \in Byte
    BY <1>2, <1>4
  <1>6. NextSlot(readIdx) \in Slots
    BY <1>2, NextSlotInRing
  <1>7. /\ buffer' \in [Slots -> Byte] /\ readIdx' \in Slots /\ writeIdx' \in Slots
        /\ kbdData' \in Byte /\ strobe' \in BOOLEAN /\ dataMode' \in BOOLEAN
        /\ seen' \in Seq(Byte) /\ got' \in Seq(Byte)
    <2> HIDE DEF filled, end, taken, latch
    <2>1. key \in Byte
      BY <1>3
    <2>2. seen' \in Seq(Byte)
      BY <1>1, <1>2, <2>1
    <2> QED BY <1>1, <1>2, <1>4, <1>5, <1>6, <2>2
  <1>8. bounce' \in Nat
    BY <1>1, <1>2, KbdAssumption
  (* Between the read index and the advanced write index every slot is tagged. *)
  <1>9. ASSUME NEW i \in Slots,
               IF readIdx <= end THEN readIdx <= i /\ i < end
                                 ELSE i < end \/ readIdx <= i
        PROVE  filled[i] \in Key
    <2>1. CASE ~stored
      BY <1>2, <1>9, <2>1 DEF IInv, KeysTagged, Occupied
    <2>2. CASE stored /\ i = writeIdx
      BY <1>2, <2>2, SMT DEF Key
    <2>3. CASE stored /\ i # writeIdx
      <3>1. Occupied(i)
        BY <1>2, <1>9, <2>3, KbdAssumption, SMT DEF Occupied, NextSlot, RingFull, Slots
      <3>2. filled[i] = buffer[i]
        BY <1>2, <2>3
      <3> QED BY <3>1, <3>2 DEF IInv, KeysTagged
    <2> QED BY <2>1, <2>2, <2>3
  <1>10. taken => filled[readIdx] \in Key
    <2> HIDE DEF filled, end
    <2> QED BY <1>2, <1>4, <1>9, SMT DEF Slots
  <1>11. strobe' => kbdData' \in Key
    <2> HIDE DEF filled, taken
    <2> QED BY <1>1, <1>2, <1>10 DEF IInv, KeysTagged
  <1>12. ASSUME NEW i \in Slots, Occupied(i)' PROVE buffer'[i] \in Key
    <2> HIDE DEF filled, end, taken
    <2>1. IF readIdx <= end THEN readIdx <= i /\ i < end
                            ELSE i < end \/ readIdx <= i
      <3>1. CASE ~taken
        BY <1>1, <1>12, <3>1 DEF Occupied
      <3>2. CASE taken
        <4>1. readIdx # end
          BY <3>2 DEF taken
        <4> QED
          BY <1>1, <1>2, <1>4, <1>12, <3>2, <4>1, KbdAssumption, SMT
            DEF Occupied, NextSlot, Slots
      <3> QED BY <3>1, <3>2
    <2> QED BY <1>1, <1>9, <2>1
  <1> QED BY <1>7, <1>8, <1>11, <1>12 DEF KeysTagged

(* The PIA strobe and the latched key, when a step of the guest or of the
   debugger leaves the ring alone. *)
LEMMA RingUntouchedKeepsTags ==
  ASSUME IInv, UNCHANGED <<ringVars, kbdData>>, strobe' => strobe
  PROVE  KeysTagged'
  BY DEF IInv, KeysTagged, Occupied, ringVars

LEMMA HandOverKeepsTypes ==
  ASSUME IInv, HandOver \/ UNCHANGED <<strobe, got>>
  PROVE  strobe' \in BOOLEAN /\ (strobe' => strobe) /\ got' \in Seq(Byte)
  <1>1. strobe \in BOOLEAN /\ kbdData \in Byte /\ got \in Seq(Byte)
    BY DEF IInv, TypeOK
  <1>2. strobe' \in BOOLEAN /\ (strobe' => strobe)
    <2>1. CASE HandOver
      <3>1. ~strobe' /\ strobe' = FALSE
        BY <2>1 DEF HandOver
      <3> QED BY <3>1, Zenon
    <2>2. CASE UNCHANGED <<strobe, got>>
      <3>1. strobe' = strobe
        BY <2>2
      <3> QED BY <1>1, <3>1, Zenon
    <2> QED BY <2>1, <2>2
  <1>3. got' \in Seq(Byte)
    BY <1>1 DEF HandOver
  <1> QED BY <1>2, <1>3

LEMMA TickKeepsType ==
  ASSUME IInv, \E c \in StepCycles : Tick(c)
  PROVE  bounce' \in Nat
  BY KbdAssumption DEF IInv, TypeOK, Tick

(* The byte a poll reads, and what is left. *)
LEMMA HeadIsByte ==
  ASSUME IInv, tty # <<>>
  PROVE  Head(tty) \in Byte /\ Tail(tty) \in Seq(Byte)
  BY DEF IInv, TypeOK

(* The inductive step, one case per action. *)
LEMMA IInvStep ==
  ASSUME IInv, [Next]_vars
  PROVE  IInv'
PROOF
  <1> USE DEF hostVars, termVars, runVars
  <1>0. TypeOK /\ KeysTagged
    BY DEF IInv
  <1>1. CASE HostTypes
    <2>1. PICK s \in HostInputs : tty' = tty \o s
      BY <1>1 DEF HostTypes
    <2>2. s \in Seq(Byte) /\ tty \in Seq(Byte)
      BY <1>0, KbdAssumption DEF TypeOK
    <2>3. tty' \in Seq(Byte)
      BY <2>1, <2>2
    <2>4. inputs' \in 0 .. MaxInputs
      BY <1>0, <1>1, KbdAssumption, SMT DEF HostTypes, TypeOK
    <2>5. KeysTagged'
      BY <1>1, RingUntouchedKeepsTags DEF HostTypes, piaVars
    <2> QED
      BY <1>0, <1>1, <2>3, <2>4, <2>5 DEF IInv, TypeOK, HostTypes, ringVars, piaVars
  <1>2. CASE PollStaged
    <2>1. Head(pasteBuf) \in Byte /\ Tail(pasteBuf) \in Seq(Byte)
      BY <1>0, <1>2 DEF PollStaged, TypeOK
    <2>2. SetHighBit(Head(pasteBuf)) \in Key \cup {0}
      BY <2>1, HighBitIsKey
    <2>3. StoreAndLatch(SetHighBit(Head(pasteBuf)))
      BY <1>2 DEF PollStaged
    <2> QED
      BY <1>0, <1>2, <2>1, <2>2, <2>3, StoreAndLatchKeepsInv DEF IInv, TypeOK, PollStaged
  <1>3. CASE PollNothing
    BY <1>0, <1>3, StoreAndLatchKeepsInv DEF IInv, TypeOK, PollNothing
  <1>4. CASE PollEscape
    <2>1. Head(tty) \in Byte /\ Tail(tty) \in Seq(Byte)
      BY <1>4, HeadIsByte DEF PollEscape, ReadByte
    <2>2. <<Head(tty)>> \in Seq(Byte) /\ Append(escSeq, Head(tty)) \in Seq(Byte)
      BY <1>0, <2>1 DEF TypeOK
    <2>3. escSeq' \in Seq(Byte)
      BY <1>4, <2>2 DEF PollEscape
    <2>4. pasteActive' \in BOOLEAN
      BY <1>0, <1>4 DEF PollEscape, TypeOK
    <2>5. pasteBuf' \in Seq(Byte)
      BY <1>0, <1>4 DEF PollEscape, TypeOK
    <2>6. StoreAndLatch(0)
      BY <1>4 DEF PollEscape
    <2>7. tty' \in Seq(Byte) /\ inputs' = inputs /\ UNCHANGED runVars
      BY <1>4, <2>1 DEF PollEscape, ByteConsumed
    <2> QED
      BY <1>0, <2>3, <2>4, <2>5, <2>6, <2>7, StoreAndLatchKeepsInv DEF IInv, TypeOK
  <1>5. CASE PollNul
    BY <1>0, <1>5, HeadIsByte, StoreAndLatchKeepsInv
      DEF IInv, TypeOK, PollNul, ReadByte, ByteConsumed
  <1>6. CASE PollQuit
    BY <1>0, <1>6, StoreAndLatchKeepsInv DEF IInv, TypeOK, PollQuit
  <1>7. CASE PollPasted
    <2>1. Head(tty) \in Byte /\ Tail(tty) \in Seq(Byte)
      BY <1>7, HeadIsByte DEF PollPasted, ReadByte
    <2>2. Pasted(Head(tty)) \in Byte
      BY <2>1, ConversionsAreBytes DEF Pasted
    <2>3. pasteBuf' \in Seq(Byte)
      BY <1>0, <1>7, <2>2 DEF PollPasted, TypeOK
    <2>4. StoreAndLatch(0) /\ tty' \in Seq(Byte) /\ UNCHANGED <<inputs, escSeq, pasteActive, runVars>>
      BY <1>7, <2>1 DEF PollPasted, ByteConsumed
    <2> QED
      BY <1>0, <2>3, <2>4, StoreAndLatchKeepsInv DEF IInv, TypeOK
  <1>8. CASE PollClear
    BY <1>0, <1>8, HeadIsByte, StoreAndLatchKeepsInv
      DEF IInv, TypeOK, PollClear, ReadByte, ByteConsumed
  <1>9. CASE PollReset
    <2>0. 0 \in Slots /\ 0 \in Byte
      BY KbdAssumption DEF Slots, Byte
    <2>1. TypeOK'
      BY <1>0, <1>9, <2>0, HeadIsByte DEF TypeOK, PollReset, ReadByte, ByteConsumed
    <2>2. KeysTagged'
      BY <1>9 DEF KeysTagged, PollReset, Occupied, Slots
    <2> QED BY <2>1, <2>2 DEF IInv
  <1>10. CASE PollKey
    <2>1. Head(tty) \in Byte /\ Tail(tty) \in Seq(Byte)
      BY <1>10, HeadIsByte DEF PollKey, ReadByte
    <2>2. SetHighBit(Upper(NewlineToReturn(Head(tty)))) \in Key \cup {0}
      BY <2>1, ConversionsAreBytes, HighBitIsKey
    <2>3. /\ StoreAndLatch(SetHighBit(Upper(NewlineToReturn(Head(tty)))))
          /\ tty' \in Seq(Byte) /\ UNCHANGED <<inputs, termVars, runVars>>
      BY <1>10, <2>1 DEF PollKey, ByteConsumed
    <2> QED
      BY <1>0, <2>2, <2>3, StoreAndLatchKeepsInv DEF IInv, TypeOK
  <1>11. CASE GuestReadsKey
    BY <1>0, <1>11, HandOverKeepsTypes, TickKeepsType, RingUntouchedKeepsTags
      DEF IInv, TypeOK, GuestReadsKey, ReadKbdData, ringVars
  <1>12. CASE GuestWritesControl
    BY <1>0, <1>12, TickKeepsType, RingUntouchedKeepsTags
      DEF IInv, TypeOK, GuestWritesControl, ringVars
  <1>13. CASE GuestStep
    BY <1>0, <1>13, TickKeepsType, RingUntouchedKeepsTags
      DEF IInv, TypeOK, GuestStep, ringVars
  <1>14. CASE DebuggerSession
    <2>1. strobe' \in BOOLEAN /\ (strobe' => strobe) /\ got' \in Seq(Byte)
      BY <1>0, <1>14, HandOverKeepsTypes DEF DebuggerSession, TypeOK
    <2>2. KeysTagged'
      BY <1>14, <2>1, RingUntouchedKeepsTags DEF DebuggerSession
    <2>3. /\ tty' = <<>> /\ escSeq' = <<>> /\ pasteActive' = FALSE /\ pasteBuf' = <<>>
          /\ quitFlag' = FALSE
          /\ dataMode' \in BOOLEAN
          /\ UNCHANGED <<inputs, buffer, readIdx, writeIdx, kbdData, bounce,
                         halted, running, debugEnabled, seen>>
      BY <1>14 DEF DebuggerSession, ringVars
    <2>4. tty' \in Seq(Byte) /\ escSeq' \in Seq(Byte) /\ pasteBuf' \in Seq(Byte)
      BY <2>3
    <2>5. TypeOK'
      BY <1>0, <2>1, <2>3, <2>4, Zenon DEF TypeOK
    <2> QED BY <2>2, <2>5 DEF IInv
  <1>15. CASE Quit
    BY <1>0, <1>15, RingUntouchedKeepsTags DEF IInv, TypeOK, Quit, ringVars, piaVars
  <1>16. CASE UNCHANGED vars
    BY <1>0, <1>16, RingUntouchedKeepsTags DEF IInv, TypeOK, vars, ringVars, piaVars
  <1> QED
    BY <1>1, <1>2, <1>3, <1>4, <1>5, <1>6, <1>7, <1>8, <1>9, <1>10, <1>11, <1>12,
       <1>13, <1>14, <1>15, <1>16 DEF Next, Poll, PollByte

LEMMA IInvInit == Init => IInv
  <1> SUFFICES ASSUME Init PROVE IInv
    OBVIOUS
  <1>1. 0 \in Slots /\ 0 \in Byte /\ <<>> \in Seq(Byte) /\ inputs \in 0 .. MaxInputs
    BY KbdAssumption DEF Init, Slots, Byte
  <1>2. buffer \in [Slots -> Byte]
    BY <1>1 DEF Init
  <1>3. TypeOK
    BY <1>1, <1>2, KbdAssumption DEF Init, TypeOK
  <1>4. KeysTagged
    BY DEF Init, KeysTagged, Occupied, Slots
  <1> QED BY <1>3, <1>4 DEF IInv

THEOREM InductiveInvariant == Spec => []IInv
  BY IInvInit, IInvStep, PTL DEF Spec

(* The keyboard path is type correct for rings and inputs of any size. *)
THEOREM TypeCorrect == Spec => []TypeOK
  <1>1. IInv => TypeOK
    BY DEF IInv
  <1> QED BY <1>1, InductiveInvariant, PTL

(* No key without bit 7 ever waits in the ring or in $D010. *)
THEOREM AllKeysTagged == Spec => []KeysTagged
  <1>1. IInv => KeysTagged
    BY DEF IInv
  <1> QED BY <1>1, InductiveInvariant, PTL

(* A latched key that the guest has not read is not replaced. *)
THEOREM LatchedKeyIsHeld == Spec => LatchedKeyHeld
  <1>1. ASSUME IInv, [Next]_vars
        PROVE  [strobe /\ strobe' => kbdData' = kbdData]_vars
    <2>1. ASSUME NEW key, StoreAndLatch(key), strobe
          PROVE  kbdData' = kbdData
      BY <2>1 DEF StoreAndLatch
    <2> QED
      BY <1>1, <2>1
        DEF Next, Poll, PollByte, HostTypes, PollStaged, PollNothing, PollEscape, PollNul,
            PollQuit, PollPasted, PollClear, PollReset, PollKey, GuestReadsKey,
            GuestWritesControl, GuestStep, DebuggerSession, Quit, piaVars, vars
  <1> QED BY <1>1, InductiveInvariant, PTL DEF Spec, LatchedKeyHeld

(* Every pasted byte is taken out of the staging buffer before the next byte is
   read, so the buffer holds one at most and its limit is never met. *)
THEOREM StagingIsDrained == Spec => []StagingDrains
  <1>1. Init => StagingDrains
    BY DEF Init, StagingDrains
  <1>2. ASSUME IInv, StagingDrains, [Next]_vars
        PROVE  StagingDrains'
    <2>0. pasteBuf \in Seq(Byte) /\ tty \in Seq(Byte)
      BY <1>2 DEF IInv, TypeOK
    <2>1. CASE UNCHANGED pasteBuf
      BY <1>2, <2>1 DEF StagingDrains
    <2>2. CASE PollStaged
      BY <1>2, <2>0, <2>2 DEF StagingDrains, PollStaged
    <2>3. CASE PollEscape
      BY <2>0, <2>3 DEF StagingDrains, PollEscape, ReadByte
    <2>4. CASE PollPasted
      <3>1. Head(tty) \in Byte
        BY <2>0, <2>4 DEF PollPasted, ReadByte
      <3>2. Pasted(Head(tty)) \in Byte
        BY <3>1, ConversionsAreBytes DEF Pasted
      <3>3. pasteBuf = <<>>
        BY <2>4 DEF PollPasted, ReadByte
      <3>4. pasteBuf' \in {<<>>, Append(<<>>, Pasted(Head(tty)))}
        BY <2>4, <3>3 DEF PollPasted
      <3>5. PICK k \in Byte : k = Pasted(Head(tty))
        BY <3>2
      <3>6. <<>> \in Seq(Byte) /\ Len(<<>>) = 0 /\ Len(Append(<<>>, k)) = 1
        BY <3>5
      <3>7. CASE pasteBuf' = <<>>
        BY <3>7 DEF StagingDrains
      <3>8. CASE pasteBuf' = Append(<<>>, k)
        <4>1. Len(pasteBuf') = 1
          BY <3>6, <3>8
        <4> QED BY <4>1 DEF StagingDrains
      <3> QED BY <3>4, <3>5, <3>7, <3>8
    <2>5. CASE DebuggerSession
      BY <2>5 DEF StagingDrains, DebuggerSession
    <2> QED
      BY <1>2, <2>1, <2>2, <2>3, <2>4, <2>5
        DEF Next, Poll, PollByte, HostTypes, PollNothing, PollNul, PollQuit, PollClear,
            PollReset, PollKey, GuestReadsKey, GuestWritesControl, GuestStep, Quit,
            termVars, vars
  <1> QED BY <1>1, <1>2, InductiveInvariant, PTL DEF Spec

(* The escape decoder always lets go after six bytes, and what it holds began
   with the last ESC it saw. *)
THEOREM EscapesEnd == Spec => []EscapeGivesUp
  <1>1. Init => EscapeGivesUp
    BY DEF Init, EscapeGivesUp
  <1>2. ASSUME IInv, EscapeGivesUp, [Next]_vars
        PROVE  EscapeGivesUp'
    <2>0. escSeq \in Seq(Byte) /\ tty \in Seq(Byte)
      BY <1>2 DEF IInv, TypeOK
    <2>1. CASE UNCHANGED escSeq
      BY <1>2, <2>1 DEF EscapeGivesUp
    <2>2. CASE PollEscape
      <3>1. PICK c \in Byte : c = Head(tty)
        BY <2>0, <2>2 DEF PollEscape, ReadByte
      <3>2. CASE c = ESC
        <4>1. escSeq' \in {<<>>, <<ESC>>}
          BY <2>2, <3>1, <3>2 DEF PollEscape
        <4> QED BY <4>1 DEF EscapeGivesUp
      <3>3. CASE c # ESC
        <4>1. escSeq # <<>>
          BY <2>2, <3>1, <3>3 DEF PollEscape
        <4>2. escSeq' = IF Len(Append(escSeq, c)) >= 6 THEN <<>> ELSE Append(escSeq, c)
          BY <2>2, <3>1, <3>3 DEF PollEscape, EscapeComplete
        <4>3. CASE escSeq' = <<>>
          BY <4>3 DEF EscapeGivesUp
        <4>4. CASE escSeq' = Append(escSeq, c) /\ Len(escSeq') < 6
          <5>1. /\ Len(escSeq') = Len(escSeq) + 1 /\ Len(escSeq) \in Nat
                /\ \A i \in 1 .. Len(escSeq) : escSeq'[i] = escSeq[i]
                /\ escSeq'[Len(escSeq) + 1] = c /\ Len(escSeq) > 0
            BY <2>0, <3>1, <4>1, <4>4
          <5>2. ASSUME NEW i \in 1 .. Len(escSeq')
                PROVE  escSeq'[i] = ESC <=> i = 1
            <6>1. CASE i \in 1 .. Len(escSeq)
              BY <1>2, <5>1, <6>1 DEF EscapeGivesUp
            <6>2. CASE i = Len(escSeq) + 1
              BY <3>3, <5>1, <6>2
            <6> QED BY <5>1, <5>2, <6>1, <6>2
          <5> QED BY <4>4, <5>2 DEF EscapeGivesUp
        <4> QED BY <4>2, <4>3, <4>4
      <3> QED BY <3>2, <3>3
    <2>3. CASE DebuggerSession
      BY <2>3 DEF EscapeGivesUp, DebuggerSession
    <2> QED
      BY <1>2, <2>1, <2>2, <2>3
        DEF Next, Poll, PollByte, HostTypes, PollStaged, PollNothing, PollNul, PollQuit,
            PollPasted, PollClear, PollReset, PollKey, GuestReadsKey, GuestWritesControl,
            GuestStep, Quit, termVars, vars
  <1> QED BY <1>1, <1>2, InductiveInvariant, PTL DEF Spec

-----------------------------------------------------------------------------
(* The ring as a sequence *)

Size(r, w) == IF r <= w THEN w - r ELSE w + KbdSize - r

SlotAfter(r, n) == IF r + n - 1 < KbdSize THEN r + n - 1 ELSE r + n - 1 - KbdSize

Contents(b, r, w) == [n \in 1 .. Size(r, w) |-> b[SlotAfter(r, n)]]

LEMMA RingIsContents ==
  ASSUME readIdx \in Slots, writeIdx \in Slots
  PROVE  RingContents = Contents(buffer, readIdx, writeIdx)
<1>1. RingLen = Size(readIdx, writeIdx)
  BY DEF RingLen, Size
<1>2. ASSUME NEW n \in 1 .. RingLen
      PROVE  RingContents[n] = buffer[SlotAfter(readIdx, n)]
  <2> DEFINE i == readIdx + n - 1
  <2>1. RingContents[n] = buffer[IF i < KbdSize THEN i ELSE i - KbdSize]
    BY DEF RingContents
  <2> QED
    BY <2>1, KbdAssumption, SMT DEF SlotAfter, Slots
<1>3. RingContents = [n \in 1 .. RingLen |-> RingContents[n]]
  BY DEF RingContents
<1> QED
  BY <1>1, <1>2, <1>3 DEF Contents

LEMMA SizeIsNat ==
  ASSUME NEW r \in Slots, NEW w \in Slots
  PROVE  Size(r, w) \in 0 .. KbdSize - 1
BY KbdAssumption DEF Slots, Size

LEMMA SlotInRing ==
  ASSUME NEW r \in Slots, NEW n \in 1 .. KbdSize
  PROVE  SlotAfter(r, n) \in Slots
BY KbdAssumption DEF Slots, SlotAfter

LEMMA ContentsAreBytes ==
  ASSUME NEW b \in [Slots -> Byte], NEW r \in Slots, NEW w \in Slots
  PROVE  /\ Contents(b, r, w) \in Seq(Byte)
         /\ Len(Contents(b, r, w)) = Size(r, w)
         /\ \A n \in 1 .. Size(r, w) : Contents(b, r, w)[n] = b[SlotAfter(r, n)]
<1>1. Size(r, w) \in Nat /\ Size(r, w) <= KbdSize
  BY SizeIsNat, KbdAssumption
<1>2. \A n \in 1 .. Size(r, w) : b[SlotAfter(r, n)] \in Byte
  BY <1>1, SlotInRing, KbdAssumption
<1>3. Contents(b, r, w) \in [1 .. Size(r, w) -> Byte]
  BY <1>2 DEF Contents
<1>4. Contents(b, r, w) \in Seq(Byte) /\ Len(Contents(b, r, w)) = Size(r, w)
  BY <1>1, <1>3
<1> QED
  BY <1>4 DEF Contents

(* Storing a key in a ring that is not full appends it. *)
LEMMA ContentsAppended ==
  ASSUME NEW b \in [Slots -> Byte], NEW r \in Slots, NEW w \in Slots, NEW k \in Byte,
         NextSlot(w) # r
  PROVE  /\ Contents([b EXCEPT ![w] = k], r, NextSlot(w)) = Append(Contents(b, r, w), k)
         /\ Size(r, w) < KbdSize - 1
<1> DEFINE c == [b EXCEPT ![w] = k]
           s == Contents(b, r, w)
           t == Contents(c, r, NextSlot(w))
<1>1. /\ NextSlot(w) \in Slots /\ c \in [Slots -> Byte]
      /\ Size(r, w) \in 0 .. KbdSize - 1
      /\ c[w] = k /\ \A i \in Slots \ {w} : c[i] = b[i]
  BY NextSlotInRing, SizeIsNat
<1>2. Size(r, NextSlot(w)) = Size(r, w) + 1 /\ Size(r, w) < KbdSize - 1
  BY KbdAssumption DEF Slots, Size, NextSlot
<1>3. SlotAfter(r, Size(r, w) + 1) = w
  BY KbdAssumption DEF Slots, Size, SlotAfter
<1>4. \A n \in 1 .. Size(r, w) : SlotAfter(r, n) \in Slots \ {w}
  BY KbdAssumption DEF Slots, Size, SlotAfter
<1> HIDE DEF c
<1>5. /\ s \in Seq(Byte) /\ Len(s) = Size(r, w)
      /\ \A n \in 1 .. Size(r, w) : s[n] = b[SlotAfter(r, n)]
  BY ContentsAreBytes
<1>6. /\ t \in Seq(Byte) /\ Len(t) = Size(r, w) + 1
      /\ \A n \in 1 .. Size(r, w) + 1 : t[n] = c[SlotAfter(r, n)]
  <2>1. /\ t \in Seq(Byte) /\ Len(t) = Size(r, NextSlot(w))
        /\ \A n \in 1 .. Size(r, NextSlot(w)) : t[n] = c[SlotAfter(r, n)]
    BY <1>1, ContentsAreBytes, Zenon
  <2> HIDE DEF t
  <2> QED
    BY <1>2, <2>1
<1>7. /\ Append(s, k) \in Seq(Byte) /\ Len(Append(s, k)) = Len(s) + 1
      /\ \A n \in 1 .. Len(s) : Append(s, k)[n] = s[n]
      /\ Append(s, k)[Len(s) + 1] = k
  BY <1>5, AppendProperties
<1>8. ASSUME NEW n \in 1 .. Len(t) PROVE t[n] = Append(s, k)[n]
  <2>1. CASE n = Size(r, w) + 1
    BY <1>1, <1>3, <1>5, <1>6, <1>7, <2>1
  <2>2. CASE n \in 1 .. Size(r, w)
    BY <1>1, <1>4, <1>5, <1>6, <1>7, <2>2
  <2>3. n \in 1 .. Size(r, w) + 1 /\ Size(r, w) \in Nat
    BY <1>1, <1>6, <1>8
  <2>4. n = Size(r, w) + 1 \/ n \in 1 .. Size(r, w)
    BY <2>3
  <2> QED
    BY <2>1, <2>2, <2>4
<1> HIDE DEF s, t
<1>9. t = Append(s, k)
  BY <1>5, <1>6, <1>7, <1>8, SeqEqual
<1> QED
  BY <1>2, <1>9 DEF s, t, c

(* Taking the oldest key leaves the rest. *)
LEMMA ContentsTaken ==
  ASSUME NEW b \in [Slots -> Byte], NEW r \in Slots, NEW w \in Slots, r # w
  PROVE  Contents(b, r, w) = <<b[r]>> \o Contents(b, NextSlot(r), w)
<1> DEFINE s == Contents(b, NextSlot(r), w)
           t == Contents(b, r, w)
<1>1. NextSlot(r) \in Slots /\ b[r] \in Byte
  BY NextSlotInRing
<1>2. Size(NextSlot(r), w) = Size(r, w) - 1 /\ Size(r, w) \in 1 .. KbdSize - 1
  BY KbdAssumption DEF Slots, Size, NextSlot
<1>3. SlotAfter(r, 1) = r
  BY KbdAssumption DEF Slots, SlotAfter
<1>4. \A n \in 2 .. Size(r, w) : SlotAfter(r, n) = SlotAfter(NextSlot(r), n - 1)
  BY <1>2, KbdAssumption DEF Slots, SlotAfter, NextSlot
<1>5. /\ s \in Seq(Byte) /\ Len(s) = Size(r, w) - 1
      /\ \A n \in 1 .. Size(r, w) - 1 : s[n] = b[SlotAfter(NextSlot(r), n)]
  <2>1. /\ s \in Seq(Byte) /\ Len(s) = Size(NextSlot(r), w)
        /\ \A n \in 1 .. Size(NextSlot(r), w) : s[n] = b[SlotAfter(NextSlot(r), n)]
    BY <1>1, ContentsAreBytes, Zenon
  <2> HIDE DEF s
  <2> QED
    BY <1>2, <2>1
<1>6. /\ t \in Seq(Byte) /\ Len(t) = Size(r, w)
      /\ \A n \in 1 .. Size(r, w) : t[n] = b[SlotAfter(r, n)]
  BY ContentsAreBytes
<1> HIDE DEF s, t
<1>7. <<b[r]>> \in Seq(Byte) /\ Len(<<b[r]>>) = 1 /\ <<b[r]>>[1] = b[r]
  BY <1>1
<1>8. /\ <<b[r]>> \o s \in Seq(Byte) /\ Len(<<b[r]>> \o s) = 1 + Len(s)
      /\ \A n \in 1 .. 1 + Len(s) :
           (<<b[r]>> \o s)[n] = IF n <= 1 THEN <<b[r]>>[n] ELSE s[n - 1]
  BY <1>5, <1>7, ConcatProperties
<1>9. ASSUME NEW n \in 1 .. Len(t) PROVE t[n] = (<<b[r]>> \o s)[n]
  <2>1. CASE n = 1
    BY <1>2, <1>3, <1>5, <1>6, <1>7, <1>8, <2>1
  <2>2. CASE n \in 2 .. Size(r, w)
    <3>1. t[n] = b[SlotAfter(NextSlot(r), n - 1)]
      BY <1>2, <1>4, <1>6, <2>2
    <3>2. n - 1 \in 1 .. Size(r, w) - 1
      BY <1>2, <2>2
    <3>3. s[n - 1] = b[SlotAfter(NextSlot(r), n - 1)]
      BY <1>5, <3>2
    <3>4. (<<b[r]>> \o s)[n] = s[n - 1]
      BY <1>2, <1>5, <1>8, <2>2
    <3> QED
      BY <3>1, <3>3, <3>4
  <2>3. n \in 1 .. Size(r, w) /\ Size(r, w) \in Nat
    BY <1>2, <1>6, <1>9
  <2>4. n = 1 \/ n \in 2 .. Size(r, w)
    BY <2>3
  <2> QED
    BY <2>1, <2>2, <2>4
<1>10. t = <<b[r]>> \o s
  BY <1>2, <1>5, <1>6, <1>8, <1>9, SeqEqual
<1> QED
  BY <1>10 DEF s, t

-----------------------------------------------------------------------------
(* What waits for the guest, as a function of the registers and the ring *)

WaitingOf(s, d, b, r, w) == IF s THEN <<d>> \o Contents(b, r, w) ELSE Contents(b, r, w)

Registers == WaitingOf(strobe, kbdData, buffer, readIdx, writeIdx)

LEMMA WaitingIsRegisters == IInv => Waiting = Registers
<1> SUFFICES ASSUME IInv PROVE Waiting = Registers
  OBVIOUS
<1>1. /\ buffer \in [Slots -> Byte] /\ readIdx \in Slots /\ writeIdx \in Slots
      /\ kbdData \in Byte /\ strobe \in BOOLEAN
  BY DEF IInv, TypeOK
<1>2. RingContents \in Seq(Byte) /\ RingContents = Contents(buffer, readIdx, writeIdx)
  BY <1>1, RingIsContents, ContentsAreBytes
<1>3. CASE strobe
  BY <1>2, <1>3 DEF Waiting, Registers, WaitingOf
<1>4. CASE ~strobe
  <2>1. Waiting = <<>> \o RingContents
    BY <1>4 DEF Waiting
  <2>2. Waiting = RingContents
    BY <1>2, <2>1, ConcatEmptySeq
  <2> QED
    BY <1>2, <1>4, <2>2 DEF Registers, WaitingOf
<1> QED
  BY <1>1, <1>3, <1>4

LEMMA WaitingIsRegistersNext == IInv' => (Waiting = Registers)'
BY WaitingIsRegisters, PTL

LEMMA WaitingTypes ==
  ASSUME NEW s \in BOOLEAN, NEW d \in Byte, NEW b \in [Slots -> Byte],
         NEW r \in Slots, NEW w \in Slots
  PROVE  /\ WaitingOf(s, d, b, r, w) \in Seq(Byte)
         /\ Len(WaitingOf(s, d, b, r, w)) = Size(r, w) + (IF s THEN 1 ELSE 0)
<1>1. /\ Contents(b, r, w) \in Seq(Byte) /\ Len(Contents(b, r, w)) = Size(r, w)
      /\ Size(r, w) \in Nat
  BY ContentsAreBytes, SizeIsNat, KbdAssumption
<1>2. <<d>> \in Seq(Byte) /\ Len(<<d>>) = 1
  OBVIOUS
<1>3. /\ <<d>> \o Contents(b, r, w) \in Seq(Byte)
      /\ Len(<<d>> \o Contents(b, r, w)) = 1 + Size(r, w)
  BY <1>1, <1>2, ConcatProperties
<1>4. CASE s
  BY <1>1, <1>3, <1>4 DEF WaitingOf
<1>5. CASE ~s
  BY <1>1, <1>5 DEF WaitingOf
<1> QED
  BY <1>4, <1>5

(* An empty ring and no key in the PIA: nothing waits. *)
LEMMA NothingWaits ==
  ASSUME NEW d \in Byte, NEW b \in [Slots -> Byte], NEW r \in Slots
  PROVE  WaitingOf(FALSE, d, b, r, r) = <<>>
<1>1. Contents(b, r, r) \in Seq(Byte) /\ Len(Contents(b, r, r)) = 0
  BY ContentsAreBytes DEF Size, Slots
<1>2. Contents(b, r, r) = <<>>
  BY <1>1, EmptySeq
<1> QED
  BY <1>2 DEF WaitingOf

(* The store of a key at the end of the ring is its arrival at the end of what waits. *)
LEMMA WaitingAppended ==
  ASSUME NEW s \in BOOLEAN, NEW d \in Byte, NEW b \in [Slots -> Byte],
         NEW r \in Slots, NEW w \in Slots, NEW k \in Byte, NextSlot(w) # r
  PROVE  /\ WaitingOf(s, d, [b EXCEPT ![w] = k], r, NextSlot(w)) = Append(WaitingOf(s, d, b, r, w), k)
         /\ Len(WaitingOf(s, d, b, r, w)) < KbdSize
<1> DEFINE c == Contents(b, r, w)
<1>1. c \in Seq(Byte)
  BY ContentsAreBytes
<1>2. /\ Contents([b EXCEPT ![w] = k], r, NextSlot(w)) = Append(c, k)
      /\ Size(r, w) < KbdSize - 1
  BY ContentsAppended
<1>3. Len(WaitingOf(s, d, b, r, w)) < KbdSize
  <2>1. Size(r, w) \in Nat
    BY SizeIsNat, KbdAssumption
  <2>2. Len(WaitingOf(s, d, b, r, w)) = Size(r, w) + (IF s THEN 1 ELSE 0)
    BY WaitingTypes
  <2> QED
    BY <1>2, <2>1, <2>2, KbdAssumption
<1> HIDE DEF c
<1>4. <<d>> \o Append(c, k) = Append(<<d>> \o c, k)
  <2>1. <<d>> \in Seq(Byte) /\ <<k>> \in Seq(Byte)
    OBVIOUS
  <2>2. <<d>> \o c \in Seq(Byte)
    BY <1>1, <2>1, ConcatProperties
  <2>3. Append(c, k) = c \o <<k>> /\ Append(<<d>> \o c, k) = (<<d>> \o c) \o <<k>>
    BY <1>1, <2>2, AppendIsConcat
  <2> QED
    BY <1>1, <2>1, <2>3, ConcatAssociative
<1> QED
  BY <1>2, <1>3, <1>4 DEF WaitingOf, c

(* Moving the oldest key from the ring to the PIA changes nothing of what waits. *)
LEMMA WaitingMoved ==
  ASSUME NEW d \in Byte, NEW b \in [Slots -> Byte], NEW r \in Slots, NEW w \in Slots, r # w
  PROVE  WaitingOf(TRUE, b[r], b, NextSlot(r), w) = WaitingOf(FALSE, d, b, r, w)
BY ContentsTaken DEF WaitingOf

-----------------------------------------------------------------------------
(* A poll *)

(* io_check_keyboard with bus_update_keyboard: a key arrives, is lost, or there is none. *)
LEMMA PollSteps ==
  ASSUME IInv, IInv', NEW key \in Key \cup {0}, StoreAndLatch(key)
  PROVE  [Queue!Next]_(Queue!vars)
<1> DEFINE stored == key # 0 /\ ~RingFull
           filled == IF stored THEN [buffer EXCEPT ![writeIdx] = key] ELSE buffer
           end    == IF stored THEN NextSlot(writeIdx) ELSE writeIdx
           taken  == ~strobe /\ readIdx # end
           latch  == taken /\ filled[readIdx] # 0
           middle == WaitingOf(strobe, kbdData, filled, readIdx, end)
<1>1. /\ buffer' = filled
      /\ writeIdx' = end
      /\ readIdx' = IF taken THEN NextSlot(readIdx) ELSE readIdx
      /\ kbdData' = IF latch THEN filled[readIdx] ELSE kbdData
      /\ strobe' = (strobe \/ latch)
      /\ seen' = IF key # 0 THEN Append(seen, key) ELSE seen
      /\ got' = got
  BY DEF StoreAndLatch
<1>2. /\ buffer \in [Slots -> Byte] /\ readIdx \in Slots /\ writeIdx \in Slots
      /\ kbdData \in Byte /\ strobe \in BOOLEAN
  BY DEF IInv, TypeOK
<1>3. key \in Byte
  BY SMT DEF Key, Byte
<1>4. filled \in [Slots -> Byte] /\ end \in Slots
  BY <1>2, <1>3, NextSlotInRing
(* The oldest key carries bit 7, so it is latched when it is taken. *)
<1>5. taken => filled[readIdx] # 0
  <2>1. CASE stored /\ readIdx = writeIdx
    BY <1>2, <2>1
  <2>2. CASE taken /\ readIdx # writeIdx
    <3>1. Occupied(readIdx)
      BY <1>2, <2>2, SMT DEF Occupied, Slots
    <3>2. buffer[readIdx] \in Key
      BY <1>2, <3>1 DEF IInv, KeysTagged
    <3>3. filled[readIdx] = buffer[readIdx]
      BY <1>2, <2>2
    <3> QED
      BY <3>2, <3>3 DEF Key
  <2> QED
    BY <2>1, <2>2
<1>6. Waiting = Registers /\ Waiting' = Registers'
  BY WaitingIsRegisters, WaitingIsRegistersNext
<1>7. Waiting' = middle
  <2> HIDE DEF filled, end, stored
  <2>1. CASE taken
    <3>1. strobe' = TRUE /\ strobe = FALSE /\ readIdx # end
      BY <1>1, <1>2, <1>5, <2>1
    <3>2. Registers' = WaitingOf(TRUE, filled[readIdx], filled, NextSlot(readIdx), end)
      BY <1>1, <1>5, <2>1, <3>1 DEF Registers
    <3>3. middle = WaitingOf(FALSE, kbdData, filled, readIdx, end)
      BY <3>1
    <3> QED
      BY <1>2, <1>4, <1>6, <3>1, <3>2, <3>3, WaitingMoved
  <2>2. CASE ~taken
    <3>1. /\ strobe' = strobe /\ kbdData' = kbdData /\ readIdx' = readIdx
          /\ buffer' = filled /\ writeIdx' = end
      BY <1>1, <1>2, <2>2
    <3> QED
      BY <1>6, <3>1 DEF Registers
  <2> QED
    BY <2>1, <2>2
<1>8. CASE stored
  <2>1. NextSlot(writeIdx) # readIdx
    BY <1>8 DEF RingFull
  <2>2. middle = WaitingOf(strobe, kbdData, [buffer EXCEPT ![writeIdx] = key], readIdx,
                           NextSlot(writeIdx))
    BY <1>8, Zenon
  <2>3. middle = Append(Waiting, key) /\ Len(Waiting) < KbdSize
    <3>1. Waiting = WaitingOf(strobe, kbdData, buffer, readIdx, writeIdx)
      BY <1>6, Zenon DEF Registers
    <3> QED
      BY <1>2, <1>3, <2>1, <2>2, <3>1, WaitingAppended, ZenonT(60)
  <2>4. Queue!Arrive(key)
    BY <1>1, <1>7, <1>8, <2>3 DEF Queue!Arrive
  <2> QED
    BY <1>8, <2>4 DEF Queue!Next
<1>9. CASE ~stored
  <2>1. middle = Waiting
    BY <1>6, <1>9 DEF Registers
  <2>2. CASE key = 0
    BY <1>1, <1>7, <2>1, <2>2 DEF Queue!vars
  <2>3. CASE key # 0
    <3>1. NextSlot(writeIdx) = readIdx
      BY <1>9, <2>3 DEF RingFull
    <3>2. Size(readIdx, writeIdx) = KbdSize - 1
      BY <1>2, <3>1, KbdAssumption DEF Size, NextSlot, Slots
    <3>3. Len(Waiting) = Size(readIdx, writeIdx) + (IF strobe THEN 1 ELSE 0)
      BY <1>2, <1>6, WaitingTypes DEF Registers
    <3>4. Len(Waiting) >= KbdSize - 1
      BY <1>2, <3>2, <3>3, KbdAssumption
    <3>5. Queue!Lose(key)
      BY <1>1, <1>7, <2>1, <2>3, <3>4 DEF Queue!Lose
    <3> QED
      BY <2>3, <3>5 DEF Queue!Next
  <2> QED
    BY <2>2, <2>3
<1> QED
  BY <1>8, <1>9

-----------------------------------------------------------------------------
(* The guest *)

(* A read of $D010, by the program or by the debugger's dump, takes the oldest key. *)
LEMMA ReadSteps ==
  ASSUME IInv, IInv', HandOver \/ UNCHANGED <<strobe, got>>, UNCHANGED <<ringVars, kbdData, seen>>
  PROVE  [Queue!Next]_(Queue!vars)
<1> DEFINE c == Contents(buffer, readIdx, writeIdx)
<1>1. /\ buffer \in [Slots -> Byte] /\ readIdx \in Slots /\ writeIdx \in Slots
      /\ kbdData \in Byte /\ strobe \in BOOLEAN /\ dataMode \in BOOLEAN
  BY DEF IInv, TypeOK
<1>2. Waiting = Registers /\ Waiting' = Registers'
  BY WaitingIsRegisters, WaitingIsRegistersNext
<1>3. /\ buffer' = buffer /\ readIdx' = readIdx /\ writeIdx' = writeIdx
      /\ kbdData' = kbdData /\ seen' = seen
  BY DEF ringVars
<1>4. CASE strobe /\ HandOver
  <2>1. strobe' = FALSE /\ got' = Append(got, kbdData)
    BY <1>4 DEF HandOver
  <2>2. Waiting = <<kbdData>> \o c
    BY <1>2, <1>4 DEF Registers, WaitingOf
  <2>3. Waiting' = c
    BY <1>2, <1>3, <2>1 DEF Registers, WaitingOf
  <2>4. c \in Seq(Byte)
    BY <1>1, ContentsAreBytes
  <2> HIDE DEF c
  <2>5. Waiting # <<>> /\ Head(Waiting) = kbdData /\ Tail(Waiting) = c
    BY <1>1, <2>2, <2>4
  <2>6. Queue!Take
    BY <1>3, <2>1, <2>3, <2>5 DEF Queue!Take
  <2> QED
    BY <2>6 DEF Queue!Next
<1>5. CASE ~strobe \/ UNCHANGED <<strobe, got>>
  <2>1. strobe' = strobe /\ got' = got
    BY <1>1, <1>5 DEF HandOver
  <2> QED
    BY <1>2, <1>3, <2>1 DEF Registers, Queue!vars
<1> QED
  BY <1>4, <1>5

(* A step that leaves the ring, the register and the strobe alone is none of the queue's. *)
LEMMA OtherSteps ==
  ASSUME IInv, IInv', UNCHANGED <<ringVars, kbdData, strobe, seen, got>>
  PROVE  [Queue!Next]_(Queue!vars)
BY WaitingIsRegisters, WaitingIsRegistersNext DEF Registers, ringVars, Queue!vars

LEMMA ResetSteps ==
  ASSUME IInv, IInv', PollReset
  PROVE  [Queue!Next]_(Queue!vars)
<1>1. buffer' \in [Slots -> Byte] /\ kbdData' \in Byte /\ 0 \in Slots
  BY KbdAssumption DEF IInv, TypeOK, Slots
<1>2. strobe' = FALSE /\ readIdx' = 0 /\ writeIdx' = 0 /\ UNCHANGED <<seen, got>>
  BY DEF PollReset
<1>3. Waiting' = <<>>
  <2>1. Registers' = WaitingOf(FALSE, kbdData', buffer', 0, 0)
    BY <1>2 DEF Registers
  <2> QED
    BY <1>1, <2>1, WaitingIsRegistersNext, NothingWaits
<1> QED
  BY <1>2, <1>3 DEF Queue!Next, Queue!Forget

-----------------------------------------------------------------------------
LEMMA QueueStarts == Init => Queue!Init
<1> SUFFICES ASSUME Init PROVE Queue!Init
  OBVIOUS
<1>1. IInv
  BY IInvInit
<1>2. /\ buffer \in [Slots -> Byte] /\ kbdData \in Byte /\ 0 \in Slots
      /\ strobe = FALSE /\ readIdx = 0 /\ writeIdx = 0
  BY <1>1, KbdAssumption DEF IInv, TypeOK, Init, Slots
<1>3. Registers = WaitingOf(FALSE, kbdData, buffer, 0, 0)
  BY <1>2 DEF Registers
<1>4. Waiting = <<>>
  BY <1>1, <1>2, <1>3, WaitingIsRegisters, NothingWaits
<1> QED
  BY <1>4 DEF Init, Queue!Init

LEMMA QueueSteps == IInv /\ IInv' /\ [Next]_vars => [Queue!Next]_(Queue!vars)
<1> SUFFICES ASSUME IInv, IInv', [Next]_vars
             PROVE  [Queue!Next]_(Queue!vars)
  OBVIOUS
<1>0. tty \in Seq(Byte) /\ pasteBuf \in Seq(Byte)
  BY DEF IInv, TypeOK
<1>1. CASE HostTypes
  BY <1>1, OtherSteps DEF HostTypes, piaVars
<1>2. CASE PollStaged
  <2>1. SetHighBit(Head(pasteBuf)) \in Key \cup {0}
    BY <1>0, <1>2, HighBitIsKey DEF PollStaged
  <2> QED
    BY <1>2, <2>1, PollSteps DEF PollStaged
<1>3. CASE \/ PollNothing \/ PollEscape \/ PollNul \/ PollQuit \/ PollPasted \/ PollClear
  <2>1. StoreAndLatch(0)
    BY <1>3 DEF PollNothing, PollEscape, PollNul, PollQuit, PollPasted, PollClear
  <2> QED
    BY <2>1, PollSteps
<1>4. CASE PollReset
  BY <1>4, ResetSteps
<1>5. CASE PollKey
  <2>1. Head(tty) \in Byte
    BY <1>0, <1>5 DEF PollKey, ReadByte
  <2>2. SetHighBit(Upper(NewlineToReturn(Head(tty)))) \in Key \cup {0}
    BY <2>1, ConversionsAreBytes, HighBitIsKey
  <2> QED
    BY <1>5, <2>2, PollSteps DEF PollKey
<1>6. CASE GuestReadsKey
  BY <1>6, ReadSteps DEF GuestReadsKey, ReadKbdData
<1>7. CASE GuestWritesControl \/ GuestStep \/ Quit
  BY <1>7, OtherSteps DEF GuestWritesControl, GuestStep, Quit, piaVars
<1>8. CASE DebuggerSession
  <2>1. UNCHANGED <<ringVars, kbdData, seen>>
    BY <1>8 DEF DebuggerSession
  <2> QED
    BY <1>8, <2>1, ReadSteps DEF DebuggerSession
<1>9. CASE UNCHANGED vars
  BY <1>9, OtherSteps DEF vars, piaVars
<1> QED
  BY <1>1, <1>2, <1>3, <1>4, <1>5, <1>6, <1>7, <1>8, <1>9 DEF Next, Poll, PollByte

(* The path from the terminal to the guest is a first-in first-out queue of
   KbdSize keys: none is doubled, overtaken or lost, but the newest when the
   ring is full and all that wait at a RESET (io.c, term_poll, bus_update_keyboard). *)
THEOREM KeyboardIsQueue == Spec => RefinesQueue
BY InductiveInvariant, QueueStarts, QueueSteps, PTL DEF Spec, RefinesQueue, Queue!Spec
=============================================================================
