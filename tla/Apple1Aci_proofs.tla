------------------------- MODULE Apple1Aci_proofs -------------------------
(***************************************************************************)
(* The cassette interface for every tape, clock width, gap and program: the *)
(* tape's wave is on the input, the recording is the time between toggles,  *)
(* and a pulse survives being saved and loaded.                            *)
(***************************************************************************)
EXTENDS Apple1Aci, Recursion, SequenceTheorems

-----------------------------------------------------------------------------
(* Counters that wrap *)

LEMMA WrapIsPositive == Half \in Nat \ {0} /\ Wrap \in Nat \ {0} /\ Wrap = 2 * Half
BY AciAssumption DEF Wrap

(* The first factor of a product that lies strictly between -w and w is 0. *)
LEMMA SmallProduct ==
  ASSUME NEW w \in Nat \ {0}, NEW k \in Int, -w < k * w, k * w < w
  PROVE  k = 0
<1>1. CASE k >= 1
  <2>1. (k - 1) * w >= 0
    BY <1>1
  <2>2. (k - 1) * w = k * w - w
    OBVIOUS
  <2> QED
    BY <2>1, <2>2
<1>2. CASE k <= -1
  <2>1. (-k - 1) * w >= 0
    BY <1>2
  <2>2. (-k - 1) * w = -(k * w) - w
    OBVIOUS
  <2> QED
    BY <2>1, <2>2
<1> QED
  BY <1>1, <1>2

(* What defines the remainder. *)
LEMMA Remainder ==
  ASSUME NEW w \in Nat \ {0}, NEW a \in Int
  PROVE  /\ a % w \in 0 .. w - 1
         /\ \E q \in Int : a = q * w + (a % w)
<1>1. a % w \in 0 .. w - 1
  OBVIOUS
<1>2. a \div w \in Int /\ a = (a \div w) * w + (a % w)
  OBVIOUS
<1> QED
  BY <1>1, <1>2

LEMMA RemainderIsUnique ==
  ASSUME NEW w \in Nat \ {0}, NEW a \in Int, NEW q \in Int, NEW r \in 0 .. w - 1,
         a = q * w + r
  PROVE  a % w = r
<1>1. PICK p \in Int : a = p * w + (a % w)
  BY Remainder
<1>2. a % w \in 0 .. w - 1
  BY Remainder
<1> DEFINE s == a % w
<1>3. s \in 0 .. w - 1 /\ p * w + s = q * w + r
  BY <1>1, <1>2
<1> HIDE DEF s
<1>4. (p - q) * w = r - s
  BY <1>3
<1>5. -w < r - s /\ r - s < w
  BY <1>3
<1>6. p - q = 0
  BY <1>4, <1>5, SmallProduct
<1>7. s = r
  BY <1>3, <1>4, <1>6
<1> QED
  BY <1>7 DEF s

LEMMA SmallRemainder ==
  ASSUME NEW w \in Nat \ {0}, NEW a \in 0 .. w - 1
  PROVE  a % w = a
<1>1. a = 0 * w + a
  OBVIOUS
<1> QED
  BY <1>1, RemainderIsUnique

(* A difference of wrapped times is the wrapped difference of the times. *)
LEMMA RemainderOfDifference ==
  ASSUME NEW w \in Nat \ {0}, NEW a \in Int, NEW b \in Int
  PROVE  ((a % w) - (b % w)) % w = (a - b) % w
<1>1. PICK p \in Int : a = p * w + (a % w)
  BY Remainder
<1>2. PICK q \in Int : b = q * w + (b % w)
  BY Remainder
<1> DEFINE d == (a % w) - (b % w)
<1>3. d \in Int /\ a % w \in Int /\ b % w \in Int
  BY Remainder
<1>4. PICK k \in Int : d = k * w + (d % w)
  BY <1>3, Remainder
<1>5. d % w \in 0 .. w - 1
  BY <1>3, Remainder
<1>6. a - b = (p - q) * w + d
  BY <1>1, <1>2, <1>3
<1> HIDE DEF d
<1> DEFINE r == d % w
<1>7. d \in Int /\ r \in 0 .. w - 1 /\ d = k * w + r
  BY <1>3, <1>4, <1>5
<1> HIDE DEF r
<1>8. (p - q) * w + k * w = (p - q + k) * w
  OBVIOUS
<1>9. a - b = (p - q + k) * w + r
  BY <1>6, <1>7, <1>8
<1>10. (a - b) % w = r
  BY <1>7, <1>9, RemainderIsUnique
<1>11. (a - b) % w = d % w
  BY <1>10 DEF r
<1> QED
  BY <1>11 DEF d

(* The time since a past moment, seen by the 32-bit counter: never more than
   what passed, and exactly that within one turn.                            *)
LEMMA SincePast ==
  ASSUME now \in Nat, NEW t \in 0 .. now, NEW c, c = t % Wrap
  PROVE  /\ Since(c) \in 0 .. Wrap - 1
         /\ Since(c) = (now - t) % Wrap
         /\ Since(c) <= now - t
         /\ now - t < Wrap => Since(c) = now - t
<1> DEFINE d == now - t
<1>1. d \in Nat /\ Wrap \in Nat \ {0}
  BY WrapIsPositive
<1>2. Since(c) = d % Wrap
  <2>1. t \in Int /\ now \in Int
    OBVIOUS
  <2>2. ((now % Wrap) - (t % Wrap)) % Wrap = (now - t) % Wrap
    BY <1>1, <2>1, RemainderOfDifference
  <2> QED
    BY <2>2 DEF Since, CurrentCycle
<1>3. d % Wrap \in 0 .. Wrap - 1
  BY <1>1, Remainder
<1>4. d < Wrap => d % Wrap = d
  BY <1>1, SmallRemainder
<1>5. d % Wrap <= d
  BY <1>1, <1>3, <1>4
<1> QED
  BY <1>2, <1>3, <1>4, <1>5

(* What an int32_t keeps of a value it can hold. *)
LEMMA SignedFits ==
  ASSUME NEW x \in Int, -Half <= x, x < Half
  PROVE  Signed(x) = x
<1>1. x + Half \in 0 .. Wrap - 1
  BY WrapIsPositive
<1>2. (x + Half) % Wrap = x + Half
  BY <1>1, WrapIsPositive, SmallRemainder
<1> QED
  BY <1>2, WrapIsPositive DEF Signed

-----------------------------------------------------------------------------
(* The tape *)

LEMMA TapeFacts ==
  ASSUME tape \in Tapes \cup {NoTape}, TapeLoaded
  PROVE  /\ tape.level \in BOOLEAN
         /\ Pulses \in Nat \ {0}
         /\ \A k \in 0 .. Pulses : Edge(k) \in Nat
         /\ \A k \in 1 .. Pulses : Duration(k) \in 1 .. Half - 1 /\ Edge(k) = tape.edges[k]
         /\ \A i, j \in 0 .. Pulses : i < j => Edge(i) < Edge(j)
<1>1. IsTape(tape)
  BY AciAssumption DEF TapeLoaded
<1>2. tape.edges \in Seq(Nat \ {0}) /\ tape.edges # <<>> /\ tape.level \in BOOLEAN
  BY <1>1 DEF IsTape
<1>3. Pulses \in Nat /\ Pulses # 0
  BY <1>2 DEF Pulses
<1>4. \A k \in 1 .. Pulses : tape.edges[k] \in Nat \ {0}
  BY <1>2 DEF Pulses
<1>5. \A k \in 0 .. Pulses : Edge(k) \in Nat /\ (k # 0 => Edge(k) = tape.edges[k] /\ Edge(k) > 0)
  BY <1>3, <1>4 DEF Edge
<1>6. \A i, j \in 1 .. Pulses : i < j => tape.edges[i] < tape.edges[j]
  BY <1>1 DEF IsTape, Pulses
<1>7. ASSUME NEW i \in 0 .. Pulses, NEW j \in 0 .. Pulses, i < j
      PROVE  Edge(i) < Edge(j)
  <2>1. CASE i = 0
    BY <1>3, <1>5, <1>7, <2>1 DEF Edge
  <2>2. CASE i # 0
    BY <1>3, <1>5, <1>6, <1>7, <2>2
  <2> QED
    BY <2>1, <2>2
<1>8. ASSUME NEW k \in 1 .. Pulses
      PROVE  Duration(k) \in 1 .. Half - 1
  <2>1. k \in 0 .. Pulses /\ k - 1 \in 0 .. Pulses /\ k - 1 < k /\ k # 0
    BY <1>3
  <2>2. tape.edges[k] - (IF k = 1 THEN 0 ELSE tape.edges[k - 1]) < Half
    BY <1>1 DEF IsTape, Pulses
  <2>3. Edge(k) - Edge(k - 1) < Half
    BY <2>1, <2>2 DEF Edge
  <2>4. Edge(k - 1) < Edge(k) /\ Edge(k) \in Nat /\ Edge(k - 1) \in Nat
    BY <1>5, <1>7, <2>1
  <2> QED
    BY <2>3, <2>4, WrapIsPositive DEF Duration
<1> QED
  BY <1>2, <1>3, <1>5, <1>7, <1>8

-----------------------------------------------------------------------------
(* The invariant *)

(* Where the player stands, also in the middle of a tick: between two edges of
   the tape, the next of which is what the counter counts down to.  At the end
   of a tick that edge lies ahead.                                           *)
PlayerInv ==
  /\ tapeActive <=> TapeLoaded /\ playbackIndex < Pulses
  /\ TapeLoaded => Edge(playbackIndex) <= now - origin
  /\ TapeLoaded => inputLevel = (tape.level # (playbackIndex % 2 = 1))
  /\ tapeActive =>
       /\ cyclesUntilToggle = Edge(playbackIndex + 1) - (now - origin)
       /\ -Half < cyclesUntilToggle /\ cyclesUntilToggle < Half
       /\ at = "cpu" => cyclesUntilToggle > 0
  /\ lastReadCycle = heardAt % Wrap

LastMark == marks[Len(marks)]

(* The recorder remembers the last toggle as the wrapped counter has it, and an
   instruction that toggled makes one mark.                                  *)
RecorderInv ==
  /\ recordingStarted <=> marks # <<>>
  /\ marks # <<>> => lastOutputToggle = LastMark % Wrap
  /\ burst > 0 => marks # <<>> /\ LastMark = now
  /\ burst = 0 /\ marks # <<>> => LastMark < now

LEMMA InitPlayer == Init => PlayerInv
<1> SUFFICES ASSUME Init PROVE PlayerInv
  OBVIOUS
<1>1. tape \in Tapes \cup {NoTape} /\ playbackIndex = 0 /\ now = 0 /\ origin = 0 /\ heardAt = 0
      /\ lastReadCycle = 0 /\ tapeActive = TapeLoaded /\ inputLevel = tape.level
      /\ cyclesUntilToggle = (IF TapeLoaded THEN Signed(Duration(1)) ELSE 0)
  BY DEF Init
<1>2. lastReadCycle = heardAt % Wrap
  BY <1>1, WrapIsPositive, SmallRemainder
<1>3. CASE TapeLoaded
  <2>1. /\ tape.level \in BOOLEAN
        /\ Pulses \in Nat \ {0}
        /\ Duration(1) \in 1 .. Half - 1
        /\ Duration(1) = Edge(1)
    <3>1. /\ Pulses \in Nat \ {0} /\ tape.level \in BOOLEAN
          /\ \A k \in 1 .. Pulses : Duration(k) \in 1 .. Half - 1
          /\ \A k \in 0 .. Pulses : Edge(k) \in Nat
      BY <1>1, <1>3, TapeFacts
    <3>2. 1 \in 1 .. Pulses /\ 1 \in 0 .. Pulses
      BY <3>1
    <3>3. Duration(1) = Edge(1) - 0
      BY DEF Duration, Edge
    <3> QED
      BY <3>1, <3>2, <3>3
  <2>2. cyclesUntilToggle = Edge(1)
    BY <1>1, <1>3, <2>1, WrapIsPositive, SignedFits
  <2>3. Edge(0) = 0
    BY DEF Edge
  <2>4. inputLevel = (tape.level # (playbackIndex % 2 = 1))
    BY <1>1, <2>1
  <2> QED
    BY <1>1, <1>2, <1>3, <2>1, <2>2, <2>3, <2>4, WrapIsPositive DEF PlayerInv
<1>4. CASE ~TapeLoaded
  BY <1>1, <1>2, <1>4 DEF PlayerInv
<1> QED
  BY <1>3, <1>4

LEMMA PlayerKept ==
  ASSUME TypeOK, PlayerInv, UNCHANGED <<now, playerVars>>, at' = "cpu" => at = "cpu" \/ ~Due
  PROVE  PlayerInv'
<1>1. /\ now' = now /\ tape' = tape /\ inputLevel' = inputLevel /\ playbackIndex' = playbackIndex
      /\ cyclesUntilToggle' = cyclesUntilToggle /\ tapeActive' = tapeActive
      /\ lastReadCycle' = lastReadCycle /\ origin' = origin /\ heardAt' = heardAt
  BY DEF playerVars
<1>2. tapeActive /\ at' = "cpu" => cyclesUntilToggle > 0
  BY DEF PlayerInv, Due, TypeOK
<1>3. TapeLoaded' = TapeLoaded /\ Pulses' = Pulses
  BY <1>1 DEF TapeLoaded, Pulses
<1>4. Edge(playbackIndex)' = Edge(playbackIndex) /\ Edge(playbackIndex + 1)' = Edge(playbackIndex + 1)
  BY <1>1 DEF Edge
<1> QED
  BY <1>1, <1>2, <1>3, <1>4 DEF PlayerInv

LEMMA PlayerReads ==
  ASSUME TypeOK, PlayerInv, ReadInput
  PROVE  PlayerInv'
<1>1. /\ at = "cpu" /\ at' = at /\ now' = now /\ tape' = tape
      /\ lastReadCycle' = CurrentCycle /\ heardAt' = now
  BY DEF ReadInput
<1>2. lastReadCycle' = heardAt' % Wrap
  BY <1>1 DEF CurrentCycle
<1>3. TapeLoaded' = TapeLoaded /\ Pulses' = Pulses
  BY <1>1 DEF TapeLoaded, Pulses
<1>4. CASE Rewinds
  <2>1. /\ TapeLoaded /\ playbackIndex' = 0 /\ cyclesUntilToggle' = Signed(Duration(1))
        /\ inputLevel' = tape.level /\ tapeActive' = TRUE /\ origin' = now
    BY <1>4 DEF ReadInput, Rewind, Rewinds
  <2>2. /\ tape.level \in BOOLEAN /\ Pulses \in Nat \ {0}
        /\ Edge(1) \in 1 .. Half - 1 /\ Duration(1) = Edge(1) /\ Edge(0) = 0
    <3>1. /\ tape.level \in BOOLEAN /\ Pulses \in Nat \ {0}
          /\ \A k \in 1 .. Pulses : Duration(k) \in 1 .. Half - 1
          /\ \A k \in 0 .. Pulses : Edge(k) \in Nat
      BY <2>1, TapeFacts DEF TypeOK
    <3>2. 1 \in 1 .. Pulses /\ 1 \in 0 .. Pulses
      BY <3>1
    <3>3. Duration(1) = Edge(1) - 0 /\ Edge(0) = 0
      BY DEF Duration, Edge
    <3> QED
      BY <3>1, <3>2, <3>3
  <2>3. cyclesUntilToggle' = Edge(1)
    BY <2>1, <2>2, WrapIsPositive, SignedFits
  <2>4. Edge(playbackIndex)' = 0 /\ Edge(playbackIndex + 1)' = Edge(1)
    BY <1>1, <2>1 DEF Edge
  <2>5. inputLevel' = (tape.level # (playbackIndex' % 2 = 1))
    BY <2>1, <2>2
  <2>6. now \in Int
    BY DEF TypeOK
  <2> QED
    BY <1>1, <1>2, <1>3, <2>1, <2>2, <2>3, <2>4, <2>5, <2>6, WrapIsPositive DEF PlayerInv
<1>5. CASE ~Rewinds
  <2>1. UNCHANGED <<playbackIndex, cyclesUntilToggle, inputLevel, tapeActive, origin>>
    BY <1>5 DEF ReadInput
  <2>2. Edge(playbackIndex)' = Edge(playbackIndex) /\ Edge(playbackIndex + 1)' = Edge(playbackIndex + 1)
    BY <1>1, <2>1 DEF Edge
  <2> QED
    BY <1>1, <1>2, <1>3, <2>1, <2>2 DEF PlayerInv
<1> QED
  BY <1>4, <1>5

LEMMA PlayerTicks ==
  ASSUME TypeOK, PlayerInv, Tick
  PROVE  PlayerInv'
<1>1. PICK c \in Cycles :
        /\ now' = now + c
        /\ cyclesUntilToggle' = IF tapeActive THEN cyclesUntilToggle - c ELSE cyclesUntilToggle
  BY DEF Tick
<1>2. /\ tape' = tape /\ inputLevel' = inputLevel /\ playbackIndex' = playbackIndex
      /\ tapeActive' = tapeActive /\ lastReadCycle' = lastReadCycle /\ heardAt' = heardAt
      /\ origin' = origin /\ at = "cpu" /\ at' = "tick"
  BY DEF Tick
<1>3. c \in 1 .. Half /\ now \in Int /\ origin \in Int /\ cyclesUntilToggle \in Int
  BY AciAssumption DEF TypeOK
<1>4. TapeLoaded' = TapeLoaded /\ Pulses' = Pulses
  BY <1>2 DEF TapeLoaded, Pulses
<1>5. Edge(playbackIndex)' = Edge(playbackIndex) /\ Edge(playbackIndex + 1)' = Edge(playbackIndex + 1)
  BY <1>2 DEF Edge
<1>6. TapeLoaded => Edge(playbackIndex) \in Int
  BY TapeFacts DEF TypeOK
<1>7. tapeActive => Edge(playbackIndex + 1) \in Int
  <2>1. SUFFICES ASSUME tapeActive PROVE Edge(playbackIndex + 1) \in Int
    OBVIOUS
  <2>2. TapeLoaded /\ playbackIndex < Pulses /\ playbackIndex \in 0 .. Pulses
    BY <2>1 DEF PlayerInv, TypeOK
  <2>3. Pulses \in Nat /\ \A k \in 0 .. Pulses : Edge(k) \in Nat
    BY <2>2, TapeFacts DEF TypeOK
  <2> QED
    BY <2>2, <2>3
<1>8. TapeLoaded => Edge(playbackIndex)' <= now' - origin'
  BY <1>1, <1>2, <1>3, <1>5, <1>6 DEF PlayerInv
<1>9. tapeActive =>
        /\ cyclesUntilToggle' = Edge(playbackIndex + 1) - (now' - origin)
        /\ -Half < cyclesUntilToggle' /\ cyclesUntilToggle' < Half
  BY <1>1, <1>2, <1>3, <1>7, WrapIsPositive DEF PlayerInv
<1> QED
  BY <1>2, <1>4, <1>5, <1>8, <1>9 DEF PlayerInv

(* One round of aci_tick's loop goes from an edge to the next. *)
LEMMA PlayerToggles ==
  ASSUME TypeOK, PlayerInv, ToggleInput
  PROVE  PlayerInv'
<1>1. /\ tape' = tape /\ now' = now /\ origin' = origin /\ at' = at /\ at = "tick"
      /\ lastReadCycle' = lastReadCycle /\ heardAt' = heardAt
      /\ inputLevel' = ~inputLevel /\ playbackIndex' = playbackIndex + 1
      /\ tapeActive /\ cyclesUntilToggle <= 0
  BY DEF ToggleInput, Due
<1>2. TapeLoaded /\ playbackIndex < Pulses /\ playbackIndex \in 0 .. Pulses
  BY <1>1 DEF PlayerInv, TypeOK
<1>3. /\ tape.level \in BOOLEAN /\ Pulses \in Nat \ {0}
      /\ \A k \in 0 .. Pulses : Edge(k) \in Nat
      /\ \A k \in 1 .. Pulses : Duration(k) \in 1 .. Half - 1
  BY <1>2, TapeFacts DEF TypeOK
<1>4. TapeLoaded' = TapeLoaded /\ Pulses' = Pulses
  BY <1>1 DEF TapeLoaded, Pulses
<1> DEFINE p == playbackIndex
<1>5. p \in Nat /\ p + 1 \in 0 .. Pulses /\ now \in Int /\ origin \in Int
  BY <1>2, <1>3 DEF TypeOK
<1>6. Edge(playbackIndex)' = Edge(p + 1) /\ Edge(playbackIndex + 1)' = Edge(p + 2)
  <2>1. (playbackIndex + 1)' = p + 2
    BY <1>1, <1>5
  <2> QED
    BY <1>1, <2>1 DEF Edge
<1>7. cyclesUntilToggle = Edge(p + 1) - (now - origin) /\ -Half < cyclesUntilToggle
  BY <1>1 DEF PlayerInv
<1>8. TapeLoaded' => Edge(playbackIndex)' <= now' - origin'
  BY <1>1, <1>3, <1>5, <1>6, <1>7
<1>9. inputLevel' = (tape'.level # (playbackIndex' % 2 = 1))
  <2>1. ((p + 1) % 2 = 1) <=> ~(p % 2 = 1)
    BY <1>5
  <2>2. inputLevel = (tape.level # (p % 2 = 1))
    BY <1>2 DEF PlayerInv
  <2>3. inputLevel' = ~inputLevel /\ tape'.level = tape.level
        /\ (playbackIndex' % 2 = 1) = ((p + 1) % 2 = 1)
    BY <1>1
  <2> QED
    BY <1>3, <2>1, <2>2, <2>3
<1>10. CASE p + 1 >= Pulses
  <2>1. tapeActive' = FALSE
    BY <1>10 DEF ToggleInput
  <2>2. ~(playbackIndex' < Pulses')
    BY <1>1, <1>3, <1>4, <1>5, <1>10
  <2> QED
    BY <1>1, <1>8, <1>9, <2>1, <2>2 DEF PlayerInv
<1>11. CASE ~(p + 1 >= Pulses)
  <2>1. cyclesUntilToggle' = NextPulse(Duration(p + 2)) /\ tapeActive'
    BY <1>1, <1>11 DEF ToggleInput
  <2>2. p + 2 \in 1 .. Pulses /\ p + 2 \in 0 .. Pulses
    BY <1>3, <1>5, <1>11
  <2>3. Duration(p + 2) = Edge(p + 2) - Edge(p + 1)
    <3>1. (p + 2) - 1 = p + 1
      BY <1>5
    <3> QED
      BY <3>1 DEF Duration
  <2>4. Duration(p + 2) \in 1 .. Half - 1 /\ Edge(p + 2) \in Nat /\ Edge(p + 1) \in Nat
    BY <1>3, <1>5, <2>2
  <2> DEFINE x == cyclesUntilToggle + Duration(p + 2)
  <2>5. x \in Int /\ -Half < x /\ x < Half
    BY <1>1, <1>5, <1>7, <2>4, WrapIsPositive
  <2>6. cyclesUntilToggle' = x
    BY <2>1, <2>5, WrapIsPositive, SignedFits DEF NextPulse
  <2>7. x = Edge(p + 2) - (now - origin)
    BY <1>5, <1>7, <2>3, <2>4
  <2>8. playbackIndex' < Pulses'
    BY <1>1, <1>3, <1>4, <1>5, <1>11
  <2> QED
    BY <1>1, <1>2, <1>4, <1>6, <1>8, <1>9, <2>1, <2>5, <2>6, <2>7, <2>8 DEF PlayerInv
<1> QED
  BY <1>10, <1>11

LEMMA PlayerSteps ==
  ASSUME TypeOK, PlayerInv, [Next]_vars
  PROVE  PlayerInv'
<1>1. CASE ReadInput
  BY <1>1, PlayerReads
<1>2. CASE TouchOutput
  BY <1>2, PlayerKept DEF TouchOutput
<1>3. CASE Tick
  BY <1>3, PlayerTicks
<1>4. CASE ToggleInput
  BY <1>4, PlayerToggles
<1>5. CASE TickEnds
  BY <1>5, PlayerKept DEF TickEnds
<1>6. CASE LeaveUnsaved
  BY <1>6, PlayerKept DEF LeaveUnsaved, Leave
<1>7. CASE SaveTape
  BY <1>7, PlayerKept DEF SaveTape, Leave
<1>8. CASE UNCHANGED vars
  BY <1>8, PlayerKept DEF vars
<1> QED
  BY <1>1, <1>2, <1>3, <1>4, <1>5, <1>6, <1>7, <1>8 DEF Next

-----------------------------------------------------------------------------
(* The types *)

LEMMA InitTypes == Init => TypeOK
<1> SUFFICES ASSUME Init PROVE TypeOK
  OBVIOUS
<1>1. /\ at = "cpu" /\ now = 0 /\ tape \in Tapes \cup {NoTape} /\ inputLevel = tape.level
      /\ playbackIndex = 0 /\ tapeActive = TapeLoaded /\ lastReadCycle = 0 /\ heard = FALSE
      /\ origin = 0 /\ heardAt = 0 /\ outputLevel = FALSE /\ outputInitialLevel = FALSE
      /\ recordingStarted = FALSE /\ lastOutputToggle = 0 /\ recorded = <<>> /\ capacity = 0
      /\ marks = <<>> /\ burst = 0 /\ toggles = 0 /\ even = FALSE /\ refused = FALSE
      /\ torn = FALSE
      /\ cyclesUntilToggle = (IF TapeLoaded THEN Signed(Duration(1)) ELSE 0)
  BY DEF Init
<1>2. /\ tape.level \in BOOLEAN /\ Pulses \in Nat /\ cyclesUntilToggle \in Int
  <2>1. CASE TapeLoaded
    <3>1. /\ tape.level \in BOOLEAN /\ Pulses \in Nat \ {0} /\ 1 \in 1 .. Pulses
          /\ Duration(1) \in 1 .. Half - 1
      BY <1>1, <2>1, TapeFacts
    <3>2. Signed(Duration(1)) = Duration(1)
      BY <3>1, WrapIsPositive, SignedFits
    <3> QED
      BY <1>1, <2>1, <3>1, <3>2
  <2>2. CASE ~TapeLoaded
    <3>1. tape = [level |-> FALSE, edges |-> <<>>]
      BY <2>2 DEF TapeLoaded, NoTape
    <3>2. tape.level \in BOOLEAN
      BY <3>1
    <3>3. cyclesUntilToggle = 0
      BY <1>1, <2>2
    <3>4. Len(tape.edges) = 0
      BY <3>1
    <3>5. Pulses \in Nat
      BY <3>4 DEF Pulses
    <3> QED
      BY <3>2, <3>3, <3>5
  <2> QED
    BY <2>1, <2>2
<1>3. tapeActive \in BOOLEAN
  BY <1>1 DEF TapeLoaded
<1>4. recorded \in Seq(1 .. Wrap - 1) /\ Len(recorded) <= capacity /\ marks \in Seq(0 .. now)
  BY <1>1
<1>5. /\ now \in 0 .. MaxTime /\ origin \in 0 .. now /\ heardAt \in 0 .. now
      /\ playbackIndex \in 0 .. Pulses
      /\ lastReadCycle \in 0 .. Wrap - 1 /\ lastOutputToggle \in 0 .. Wrap - 1
      /\ capacity \in Nat
      /\ burst \in 0 .. MaxBurst /\ toggles \in 0 .. MaxToggles
  BY <1>1, <1>2, WrapIsPositive, AciAssumption
<1>6. inputLevel \in BOOLEAN
  BY <1>1, <1>2
<1>7. at \in {"cpu", "tick", "off"} /\ tape \in Tapes \cup {NoTape}
      /\ heard \in BOOLEAN /\ outputLevel \in BOOLEAN /\ outputInitialLevel \in BOOLEAN
      /\ recordingStarted \in BOOLEAN /\ even \in BOOLEAN /\ refused \in BOOLEAN /\ torn \in BOOLEAN
  BY <1>1
<1> QED
  BY <1>2, <1>3, <1>4, <1>5, <1>6, <1>7 DEF TypeOK

(* An access changes the recorder's variables, and keeps their types. *)
LEMMA RecordToggleTypes ==
  ASSUME TypeOK, RecordToggle
  PROVE  /\ lastOutputToggle' \in 0 .. Wrap - 1
         /\ outputLevel' \in BOOLEAN /\ outputInitialLevel' \in BOOLEAN /\ recordingStarted' \in BOOLEAN
         /\ recorded' \in Seq(1 .. Wrap - 1) /\ capacity' \in Nat /\ Len(recorded') <= capacity'
         /\ marks' \in Seq(0 .. now)
         /\ burst' \in 0 .. MaxBurst /\ toggles' \in 0 .. MaxToggles
         /\ even' \in BOOLEAN /\ refused' \in BOOLEAN
<1> DEFINE d == Since(lastOutputToggle)
<1>1. CurrentCycle \in 0 .. Wrap - 1 /\ d \in 0 .. Wrap - 1
  <2>1. now \in Int /\ lastOutputToggle \in Int /\ Wrap \in Nat \ {0}
    BY WrapIsPositive DEF TypeOK
  <2>2. now % Wrap \in 0 .. Wrap - 1
    BY <2>1, Remainder
  <2>3. ((now % Wrap) - lastOutputToggle) % Wrap \in 0 .. Wrap - 1
    BY <2>1, <2>2, Remainder
  <2> QED
    BY <2>2, <2>3 DEF CurrentCycle, Since
<1>2. /\ lastOutputToggle' = CurrentCycle /\ outputLevel' = ~outputLevel /\ recordingStarted' = TRUE
      /\ outputInitialLevel' \in {outputInitialLevel, outputLevel}
      /\ even' = even
  BY DEF RecordToggle
<1>3. marks' \in Seq(0 .. now)
  <2>1. marks \in Seq(0 .. now) /\ now \in 0 .. now
    BY DEF TypeOK
  <2>2. marks' = Append(marks, now) \/ marks' = marks
    BY DEF RecordToggle
  <2> QED
    BY <2>1, <2>2
<1>4. burst' \in 0 .. MaxBurst /\ toggles' \in 0 .. MaxToggles
  BY AciAssumption DEF RecordToggle, TypeOK
<1>5. /\ recorded' \in Seq(1 .. Wrap - 1) /\ capacity' \in Nat /\ Len(recorded') <= capacity'
      /\ refused' \in BOOLEAN
  <2>1. /\ recorded \in Seq(1 .. Wrap - 1) /\ capacity \in Nat /\ Len(recorded) <= capacity
        /\ refused \in BOOLEAN /\ Len(recorded) \in Nat
    BY DEF TypeOK
  <2>2. CASE UNCHANGED <<recorded, capacity, refused>>
    BY <2>1, <2>2
  <2>3. CASE d > 0 /\ Store(d)
    <3>1. capacity' \in Nat
      BY <2>1, <2>3, AciAssumption DEF Store, Grown
    <3>2. CASE Len(recorded) < capacity'
      <4>1. recorded' = Append(recorded, d) /\ refused' = refused
        BY <2>3, <3>2 DEF Store
      <4>2. d \in 1 .. Wrap - 1
        BY <1>1, <2>3
      <4>3. recorded' \in Seq(1 .. Wrap - 1) /\ Len(recorded') = Len(recorded) + 1
        BY <2>1, <4>1, <4>2
      <4> QED
        BY <2>1, <3>1, <3>2, <4>1, <4>3
    <3>3. CASE ~(Len(recorded) < capacity')
      <4>1. recorded' = recorded /\ refused' = TRUE
        BY <2>3, <3>3 DEF Store
      <4>2. capacity <= capacity'
        BY <2>1, <2>3, AciAssumption DEF Store, Grown
      <4> QED
        BY <2>1, <3>1, <4>1, <4>2
    <3> QED
      BY <3>2, <3>3
  <2> QED
    BY <2>2, <2>3 DEF RecordToggle
<1> QED
  BY <1>1, <1>2, <1>3, <1>4, <1>5 DEF TypeOK

LEMMA SequencesOfMore ==
  ASSUME NEW S, NEW T, S \subseteq T, NEW s \in Seq(S)
  PROVE  s \in Seq(T)
<1>1. Len(s) \in Nat /\ s \in [1 .. Len(s) -> S]
  OBVIOUS
<1>2. s \in [1 .. Len(s) -> T]
  BY <1>1
<1> QED
  BY <1>1, <1>2

LEMMA TypesStep ==
  ASSUME TypeOK, PlayerInv, [Next]_vars
  PROVE  TypeOK'
<1>1. /\ now \in 0 .. MaxTime /\ origin \in 0 .. now /\ heardAt \in 0 .. now
      /\ CurrentCycle \in 0 .. Wrap - 1 /\ MaxTime \in Nat
  <2>1. now \in Int
    BY DEF TypeOK
  <2> QED
    BY <2>1, WrapIsPositive, Remainder, AciAssumption DEF TypeOK, CurrentCycle
<1>2. UNCHANGED tape => Pulses' = Pulses
  BY DEF Pulses
<1>3. Pulses \in Nat /\ (TapeLoaded => tape.level \in BOOLEAN)
  <2>1. CASE TapeLoaded
    BY <2>1, TapeFacts DEF TypeOK
  <2>2. CASE ~TapeLoaded
    <3>1. tape = [level |-> FALSE, edges |-> <<>>]
      BY <2>2 DEF TapeLoaded, NoTape
    <3>2. Len(tape.edges) = 0
      BY <3>1
    <3> QED
      BY <2>2, <3>2 DEF Pulses
  <2> QED
    BY <2>1, <2>2
<1>4. CASE ReadInput
  <2>1. /\ lastOutputToggle' \in 0 .. Wrap - 1
        /\ outputLevel' \in BOOLEAN /\ outputInitialLevel' \in BOOLEAN /\ recordingStarted' \in BOOLEAN
        /\ recorded' \in Seq(1 .. Wrap - 1) /\ capacity' \in Nat /\ Len(recorded') <= capacity'
        /\ marks' \in Seq(0 .. now)
        /\ burst' \in 0 .. MaxBurst /\ toggles' \in 0 .. MaxToggles
        /\ even' \in BOOLEAN /\ refused' \in BOOLEAN
    BY <1>4, RecordToggleTypes DEF ReadInput
  <2>2. /\ at' = at /\ now' = now /\ tape' = tape /\ torn' = torn
        /\ lastReadCycle' = CurrentCycle /\ heardAt' = now /\ heard' = inputLevel'
    BY <1>4 DEF ReadInput, fileVars
  <2>3. /\ inputLevel' \in BOOLEAN /\ tapeActive' \in BOOLEAN /\ origin' \in 0 .. now
        /\ playbackIndex' \in 0 .. Pulses
    <3>1. CASE Rewinds
      <4>1. TapeLoaded /\ inputLevel' = tape.level /\ tapeActive' = TRUE /\ origin' = now
            /\ playbackIndex' = 0
        BY <1>4, <3>1 DEF ReadInput, Rewinds, Rewind
      <4> QED
        BY <1>1, <1>3, <4>1
    <3>2. CASE ~Rewinds
      BY <1>4, <3>2 DEF ReadInput, TypeOK
    <3> QED
      BY <3>1, <3>2
  <2>4. cyclesUntilToggle' \in Int
    <3>1. CASE Rewinds
      <4>1. TapeLoaded /\ cyclesUntilToggle' = Signed(Duration(1))
        BY <1>4, <3>1 DEF ReadInput, Rewinds, Rewind
      <4>2. 1 \in 1 .. Pulses /\ Duration(1) \in 1 .. Half - 1
        BY <4>1, TapeFacts DEF TypeOK
      <4> QED
        BY <4>1, <4>2, WrapIsPositive, SignedFits
    <3>2. CASE ~Rewinds
      BY <1>4, <3>2 DEF ReadInput, TypeOK
    <3> QED
      BY <3>1, <3>2
  <2> QED
    BY <1>1, <1>2, <2>1, <2>2, <2>3, <2>4 DEF TypeOK
<1>5. CASE TouchOutput
  <2>1. /\ lastOutputToggle' \in 0 .. Wrap - 1
        /\ outputLevel' \in BOOLEAN /\ outputInitialLevel' \in BOOLEAN /\ recordingStarted' \in BOOLEAN
        /\ recorded' \in Seq(1 .. Wrap - 1) /\ capacity' \in Nat /\ Len(recorded') <= capacity'
        /\ marks' \in Seq(0 .. now)
        /\ burst' \in 0 .. MaxBurst /\ toggles' \in 0 .. MaxToggles
        /\ even' \in BOOLEAN /\ refused' \in BOOLEAN
    BY <1>5, RecordToggleTypes DEF TouchOutput
  <2>2. UNCHANGED <<at, now, tape, torn, inputLevel, playbackIndex, cyclesUntilToggle, tapeActive,
                    lastReadCycle, heard, origin, heardAt>>
    BY <1>5 DEF TouchOutput, playerVars, fileVars
  <2> QED
    BY <1>2, <2>1, <2>2 DEF TypeOK
<1>6. CASE Tick
  <2>1. PICK c \in Cycles :
          /\ now + c <= MaxTime /\ now' = now + c
          /\ cyclesUntilToggle' = IF tapeActive THEN cyclesUntilToggle - c ELSE cyclesUntilToggle
    BY <1>6 DEF Tick
  <2>2. c \in 1 .. Half
    BY AciAssumption
  <2>3. /\ at' = "tick" /\ burst' = 0
        /\ even' = (even \/ (burst > 0 /\ burst % 2 = 0))
        /\ UNCHANGED <<tape, inputLevel, playbackIndex, tapeActive, lastReadCycle, heard, origin,
                       heardAt, outputLevel, outputInitialLevel, recordingStarted,
                       lastOutputToggle, recorded, capacity, marks, toggles, refused, torn>>
    BY <1>6 DEF Tick, fileVars
  <2>4. now' \in 0 .. MaxTime /\ origin' \in 0 .. now' /\ heardAt' \in 0 .. now'
        /\ cyclesUntilToggle' \in Int
    BY <1>1, <2>1, <2>2, <2>3, WrapIsPositive DEF TypeOK
  <2>5. 0 .. now \subseteq 0 .. now'
    BY <1>1, <2>1, <2>2, WrapIsPositive
  <2>6. marks \in Seq(0 .. now)
    BY DEF TypeOK
  <2>7. marks' \in Seq(0 .. now')
    BY <2>3, <2>5, <2>6, SequencesOfMore
  <2>8. burst' \in 0 .. MaxBurst
    BY <2>3, AciAssumption
  <2>9. even' \in BOOLEAN
    BY <2>3
  <2> QED
    BY <1>2, <2>3, <2>4, <2>7, <2>8, <2>9 DEF TypeOK
<1>7. CASE ToggleInput
  <2>1. /\ inputLevel' = ~inputLevel /\ playbackIndex' = playbackIndex + 1
        /\ UNCHANGED <<at, now, tape, lastReadCycle, heard, origin, heardAt,
             outputLevel, outputInitialLevel, recordingStarted, lastOutputToggle,
             recorded, capacity, marks, burst, toggles, even, refused, torn>>
        /\ TapeLoaded /\ playbackIndex < Pulses
    BY <1>7 DEF ToggleInput, Due, PlayerInv, recorderVars, fileVars
  <2>2. playbackIndex' \in 0 .. Pulses
    BY <1>3, <2>1 DEF TypeOK
  <2>3. tapeActive' \in BOOLEAN /\ cyclesUntilToggle' \in Int
    <3>1. CASE playbackIndex + 1 >= Pulses
      BY <1>7, <3>1 DEF ToggleInput, TypeOK
    <3>2. CASE ~(playbackIndex + 1 >= Pulses)
      <4>1. tapeActive' = tapeActive /\ cyclesUntilToggle' = NextPulse(Duration(playbackIndex + 2))
        BY <1>7, <3>2 DEF ToggleInput
      <4>2. playbackIndex + 2 \in 1 .. Pulses
        BY <1>3, <3>2 DEF TypeOK
      <4>3. Duration(playbackIndex + 2) \in Int
        BY <2>1, <4>2, TapeFacts DEF TypeOK
      <4>4. cyclesUntilToggle + Duration(playbackIndex + 2) + Half \in Int
        BY <4>3, WrapIsPositive DEF TypeOK
      <4>5. (cyclesUntilToggle + Duration(playbackIndex + 2) + Half) % Wrap \in 0 .. Wrap - 1
        BY <4>4, WrapIsPositive, Remainder
      <4>6. NextPulse(Duration(playbackIndex + 2)) \in Int
        BY <4>5, WrapIsPositive DEF NextPulse, Signed
      <4> QED
        BY <4>1, <4>6 DEF TypeOK
    <3> QED
      BY <3>1, <3>2
  <2>4. inputLevel' \in BOOLEAN
    BY <2>1
  <2> QED
    BY <1>2, <2>1, <2>2, <2>3, <2>4 DEF TypeOK
<1>8. CASE TickEnds
  BY <1>2, <1>8 DEF TickEnds, TypeOK, playerVars, recorderVars, fileVars
<1>9. CASE LeaveUnsaved
  BY <1>2, <1>9 DEF LeaveUnsaved, Leave, TypeOK, playerVars, recorderVars, fileVars
<1>10. CASE SaveTape
  <2>1. torn' \in BOOLEAN
    BY <1>10 DEF SaveTape
  <2> QED
    BY <1>2, <1>10, <2>1 DEF SaveTape, Leave, TypeOK, playerVars, recorderVars
<1>11. CASE UNCHANGED vars
  BY <1>2, <1>11 DEF TypeOK, vars, playerVars, recorderVars, fileVars
<1> QED
  BY <1>4, <1>5, <1>6, <1>7, <1>8, <1>9, <1>10, <1>11 DEF Next

-----------------------------------------------------------------------------
(* The recording *)

(* The level that was recorded last against the output's: each instruction that
   has ended counts for one toggle, as long as all their numbers were odd.   *)
RecordingInv ==
  /\ ~refused /\ NoLongRest => recorded = Gaps(marks)
  /\ recordingStarted /\ ~even =>
       (outputLevel = outputInitialLevel)
         = ((Len(marks) + (IF burst = 0 THEN 1 ELSE burst)) % 2 = 1)

LEMMA GapsOfOne == ASSUME NEW t PROVE Gaps(<<>>) = <<>> /\ Gaps(<<t>>) = <<>>
BY DEF Gaps

LEMMA GapsOfMore ==
  ASSUME NEW s \in Seq(Int), s # <<>>, NEW t \in Int
  PROVE  Gaps(Append(s, t)) = Append(Gaps(s), t - s[Len(s)])
<1> DEFINE n == Len(s)
           g == Gaps(s)
           u == Append(s, t)
<1>1. n \in Nat /\ n # 0 /\ \A i \in 1 .. n : s[i] \in Int
  OBVIOUS
<1>2. u \in Seq(Int) /\ Len(u) = n + 1 /\ u[n + 1] = t /\ \A i \in 1 .. n : u[i] = s[i]
  OBVIOUS
<1>3. g = [i \in 1 .. n - 1 |-> s[i + 1] - s[i]]
  BY DEF Gaps
<1>4. \A i \in 1 .. n - 1 : s[i + 1] - s[i] \in Int
  BY <1>1
<1>5. n - 1 \in Nat
  BY <1>1
<1>6. g \in Seq(Int) /\ Len(g) = n - 1
  BY <1>3, <1>4, <1>5
<1>7. Gaps(u) = [i \in 1 .. n |-> u[i + 1] - u[i]]
  BY <1>1, <1>2 DEF Gaps
<1> DEFINE h == Append(g, t - s[n])
<1>8. t - s[n] \in Int
  BY <1>1
<1>9. h \in Seq(Int) /\ Len(h) = n /\ h[n] = t - s[n] /\ \A i \in 1 .. n - 1 : h[i] = g[i]
  BY <1>1, <1>6, <1>8
<1>10. \A i \in 1 .. n : h[i] = u[i + 1] - u[i]
  <2> TAKE i \in 1 .. n
  <2>1. CASE i = n
    BY <1>1, <1>2, <1>9, <2>1
  <2>2. CASE i # n
    <3>1. i \in 1 .. n - 1 /\ i + 1 \in 1 .. n
      BY <1>1, <2>2
    <3>2. h[i] = g[i] /\ u[i] = s[i] /\ u[i + 1] = s[i + 1]
      BY <1>2, <1>9, <3>1
    <3> QED
      BY <1>3, <3>1, <3>2
  <2> QED
    BY <2>1, <2>2
<1>11. h = [i \in 1 .. n |-> h[i]]
  BY <1>1, <1>9
<1> HIDE DEF h, u
<1>12. Gaps(u) = h
  BY <1>7, <1>10, <1>11
<1> QED
  BY <1>12 DEF h, u

LEMMA LengthOfGaps ==
  ASSUME NEW s \in Seq(Int), s # <<>>
  PROVE  Len(Gaps(s)) = Len(s) - 1
<1>1. Len(s) - 1 \in Nat /\ \A i \in 1 .. Len(s) - 1 : s[i + 1] - s[i] \in Int
  OBVIOUS
<1> QED
  BY <1>1 DEF Gaps

(* One more toggle, at a later time or within the instruction. *)
LEMMA MarkAdded ==
  ASSUME TypeOK, RecorderInv, RecordToggle
  PROVE  /\ marks' \in Seq(Int) /\ marks' # <<>> /\ marks'[Len(marks')] = now
         /\ marks' = Append(marks, now) \/ (burst > 0 /\ marks' = marks)
<1>1. marks \in Seq(0 .. now) /\ now \in Int /\ 0 .. now \subseteq Int
  BY DEF TypeOK
<1>2. marks \in Seq(Int)
  BY <1>1, SequencesOfMore
<1>3. CASE burst = 0
  <2>1. marks' = Append(marks, now)
    BY <1>3 DEF RecordToggle
  <2> QED
    BY <1>1, <1>2, <2>1
<1>4. CASE burst # 0
  <2>1. marks' = marks /\ burst > 0
    BY <1>4 DEF RecordToggle, TypeOK
  <2> QED
    BY <1>2, <2>1 DEF RecorderInv, LastMark
<1> QED
  BY <1>3, <1>4

LEMMA RecorderToggles ==
  ASSUME TypeOK, RecorderInv, RecordToggle, now' = now
  PROVE  RecorderInv'
<1>1. /\ recordingStarted' = TRUE /\ lastOutputToggle' = CurrentCycle /\ burst' = burst + 1
  BY DEF RecordToggle
<1>2. burst \in Nat
  BY AciAssumption DEF TypeOK
<1>3. marks' # <<>> /\ LastMark' = now
  BY MarkAdded DEF LastMark
<1> QED
  BY <1>1, <1>2, <1>3 DEF RecorderInv, CurrentCycle

(* The time since the last toggle, as the recorder computes it. *)
LEMMA DurationRecorded ==
  ASSUME TypeOK, RecorderInv, marks # <<>>
  PROVE  /\ Since(lastOutputToggle) \in Nat /\ LastMark \in 0 .. now
         /\ burst > 0 => Since(lastOutputToggle) = 0
         /\ burst = 0 /\ now - LastMark < Wrap =>
              Since(lastOutputToggle) = now - LastMark /\ Since(lastOutputToggle) > 0
<1>1. now \in Nat /\ marks \in Seq(0 .. now) /\ Wrap \in Nat \ {0}
  BY AciAssumption, WrapIsPositive DEF TypeOK
<1>2. LastMark \in 0 .. now
  BY <1>1 DEF LastMark
<1>3. lastOutputToggle = LastMark % Wrap
  BY DEF RecorderInv
<1>4. /\ Since(lastOutputToggle) \in 0 .. Wrap - 1
      /\ Since(lastOutputToggle) <= now - LastMark
      /\ now - LastMark < Wrap => Since(lastOutputToggle) = now - LastMark
  BY <1>1, <1>2, <1>3, SincePast
<1>5. burst > 0 => LastMark = now
  BY DEF RecorderInv
<1>6. burst = 0 => LastMark < now
  BY DEF RecorderInv
<1> QED
  BY <1>1, <1>2, <1>4, <1>5, <1>6

LEMMA RecordingToggles ==
  ASSUME TypeOK, RecorderInv, RecordingInv, RecordToggle
  PROVE  RecordingInv'
<1>1. /\ recordingStarted' = TRUE /\ outputLevel' = ~outputLevel /\ burst' = burst + 1
      /\ even' = even
      /\ marks' = IF burst = 0 THEN Append(marks, now) ELSE marks
  BY DEF RecordToggle
<1>2. burst \in Nat /\ marks \in Seq(0 .. now) /\ now \in Nat
  BY AciAssumption DEF TypeOK
<1>3. marks \in Seq(Int) /\ now \in Int /\ Len(marks) \in Nat
  BY <1>2, SequencesOfMore
<1>4. outputLevel \in BOOLEAN /\ outputInitialLevel \in BOOLEAN
  BY DEF TypeOK
<1>5. ASSUME ~refused', NoLongRest'
      PROVE  recorded' = Gaps(marks)'
  <2>1. ~refused
    BY <1>5 DEF RecordToggle, Store, TypeOK
  <2>2. NoLongRest
    <3>1. Len(marks') \in Nat /\ Len(marks) <= Len(marks')
          /\ \A i \in 1 .. Len(marks) : marks'[i] = marks[i]
      BY <1>1, <1>3
    <3>2. ASSUME NEW i \in 1 .. Len(marks) - 1
          PROVE  marks[i + 1] - marks[i] < Wrap
      <4>1. i \in 1 .. Len(marks') - 1 /\ i \in 1 .. Len(marks) /\ i + 1 \in 1 .. Len(marks)
        BY <1>3, <3>1
      <4>2. Wrap' = Wrap
        BY DEF Wrap
      <4>3. marks'[i + 1] - marks'[i] < Wrap
        BY <1>5, <4>1, <4>2 DEF NoLongRest
      <4> QED
        BY <3>1, <4>1, <4>3
    <3> QED
      BY <3>2 DEF NoLongRest
  <2>3. recorded = Gaps(marks)
    BY <2>1, <2>2 DEF RecordingInv
  <2>4. CASE marks = <<>>
    <3>1. ~recordingStarted /\ burst = 0
      BY <1>2, <2>4 DEF RecorderInv
    <3>2. recorded' = recorded /\ marks' = <<now>>
      BY <1>1, <2>4, <3>1 DEF RecordToggle
    <3>3. recorded' = Gaps(<<now>>)
      BY <2>3, <2>4, <3>2, GapsOfOne
    <3> QED
      BY <3>2, <3>3 DEF Gaps
  <2>5. CASE marks # <<>> /\ burst > 0
    <3>1. recordingStarted /\ Since(lastOutputToggle) = 0
      BY <2>5, DurationRecorded DEF RecorderInv
    <3>2. recorded' = recorded /\ marks' = marks
      BY <1>1, <1>2, <2>5, <3>1 DEF RecordToggle
    <3> QED
      BY <2>3, <3>2 DEF Gaps
  <2>6. CASE marks # <<>> /\ burst = 0
    <3>1. marks' = Append(marks, now) /\ recordingStarted
      BY <1>1, <2>6 DEF RecorderInv
    <3>2. now - LastMark < Wrap
      <4>1. Len(marks) \in 1 .. Len(marks') - 1
            /\ marks'[Len(marks) + 1] = now /\ marks'[Len(marks)] = LastMark
        BY <1>3, <2>6, <3>1 DEF LastMark
      <4> QED
        BY <1>5, <4>1 DEF NoLongRest, Wrap
    <3>3. Since(lastOutputToggle) = now - LastMark /\ Since(lastOutputToggle) > 0
      BY <2>6, <3>2, DurationRecorded
    <3>4. Store(now - LastMark)
      BY <3>1, <3>3 DEF RecordToggle
    <3>5. recorded' = Append(recorded, now - LastMark)
      BY <1>5, <3>4 DEF Store
    <3>6. Gaps(Append(marks, now)) = Append(Gaps(marks), now - LastMark)
      BY <1>3, <2>6, GapsOfMore DEF LastMark
    <3>7. recorded' = Gaps(Append(marks, now))
      BY <2>3, <3>5, <3>6
    <3> QED
      BY <3>1, <3>7 DEF Gaps
  <2> QED
    BY <1>2, <2>4, <2>5, <2>6
<1>6. ASSUME ~even'
      PROVE  (outputLevel' = outputInitialLevel')
               = ((Len(marks') + (IF burst' = 0 THEN 1 ELSE burst')) % 2 = 1)
  <2>1. burst' = burst + 1 /\ burst' # 0
    BY <1>1, <1>2
  <2> DEFINE n == Len(marks) + (IF burst = 0 THEN 1 ELSE burst)
             m == Len(marks') + (IF burst' = 0 THEN 1 ELSE burst')
  <2>2. CASE marks = <<>>
    <3>1. ~recordingStarted /\ burst = 0
      BY <1>2, <2>2 DEF RecorderInv
    <3>2. outputInitialLevel' = outputLevel /\ marks' = <<now>>
      BY <1>1, <2>2, <3>1 DEF RecordToggle
    <3>3. Len(marks') = 1 /\ burst' = 1
      BY <2>1, <3>1, <3>2
    <3>4. m = 2 /\ ~(m % 2 = 1)
      BY <3>3
    <3>5. ~(outputLevel' = outputInitialLevel')
      BY <1>1, <1>4, <3>2
    <3> QED
      BY <3>4, <3>5
  <2>3. CASE marks # <<>>
    <3>1. recordingStarted /\ outputInitialLevel' = outputInitialLevel /\ ~even
      BY <1>1, <1>6, <2>3 DEF RecorderInv, RecordToggle
    <3>2. (outputLevel = outputInitialLevel) = (n % 2 = 1)
      BY <3>1 DEF RecordingInv
    <3>3. Len(marks') = IF burst = 0 THEN Len(marks) + 1 ELSE Len(marks)
      BY <1>1, <1>3
    <3>4. n \in Nat /\ m = n + 1
      <4>1. m = Len(marks') + (burst + 1)
        BY <2>1
      <4>2. CASE burst = 0
        <5>1. n = Len(marks) + 1 /\ m = Len(marks) + 2
          BY <1>3, <3>3, <4>1, <4>2
        <5> QED
          BY <1>3, <5>1
      <4>3. CASE burst # 0
        <5>1. n = Len(marks) + burst /\ m = Len(marks) + (burst + 1)
          BY <3>3, <4>1, <4>3
        <5> QED
          BY <1>2, <1>3, <5>1
      <4> QED
        BY <4>2, <4>3
    <3> HIDE DEF n, m
    <3>5. (m % 2 = 1) <=> ~(n % 2 = 1)
      BY <3>4
    <3>6. (outputLevel' = outputInitialLevel') <=> ~(outputLevel = outputInitialLevel)
      BY <1>1, <1>4, <3>1
    <3>7. (outputLevel' = outputInitialLevel') <=> (m % 2 = 1)
      BY <3>2, <3>5, <3>6
    <3> QED
      BY <3>7 DEF m
  <2> QED
    BY <2>2, <2>3
<1> QED
  BY <1>5, <1>6 DEF RecordingInv

LEMMA OddIsOne ==
  ASSUME NEW a \in Nat, NEW b \in Nat, b % 2 = 1
  PROVE  ((a + b) % 2 = 1) <=> ((a + 1) % 2 = 1)
OBVIOUS

LEMMA RecorderTicks ==
  ASSUME TypeOK, RecorderInv, RecordingInv, Tick
  PROVE  RecorderInv' /\ RecordingInv'
<1>1. PICK c \in Cycles : now' = now + c
  BY DEF Tick
<1>2. c \in 1 .. Half /\ now \in Nat /\ burst \in Nat
  BY AciAssumption DEF TypeOK
<1>3. UNCHANGED <<outputLevel, outputInitialLevel, recordingStarted, lastOutputToggle, recorded,
                  marks, refused>>
  BY DEF Tick
<1>4. burst' = 0
  BY DEF Tick
<1>5. marks # <<>> => LastMark \in Int /\ LastMark < now'
  <2>1. SUFFICES ASSUME marks # <<>> PROVE LastMark \in Int /\ LastMark < now'
    OBVIOUS
  <2>2. LastMark \in 0 .. now
    BY <2>1, DurationRecorded
  <2> QED
    BY <1>1, <1>2, <2>2, WrapIsPositive
<1>6. LastMark' = LastMark
  BY <1>3 DEF LastMark
<1>7. RecorderInv'
  BY <1>3, <1>4, <1>5, <1>6 DEF RecorderInv, Wrap
<1>8. ASSUME recordingStarted', ~even'
      PROVE  (outputLevel' = outputInitialLevel')
               = ((Len(marks') + (IF burst' = 0 THEN 1 ELSE burst')) % 2 = 1)
  <2>1. ~even /\ (burst > 0 => burst % 2 # 0)
    BY <1>8 DEF Tick
  <2> DEFINE n == Len(marks) + (IF burst = 0 THEN 1 ELSE burst)
             m == Len(marks) + 1
  <2>2. (outputLevel = outputInitialLevel) = (n % 2 = 1)
    BY <1>3, <1>8, <2>1 DEF RecordingInv
  <2>3. Len(marks) \in Nat
    BY DEF TypeOK
  <2>4. (n % 2 = 1) <=> (m % 2 = 1)
    <3>1. CASE burst = 0
      BY <3>1
    <3>2. CASE burst # 0
      <4>1. n = Len(marks) + burst /\ burst % 2 = 1
        BY <1>2, <2>1, <3>2
      <4>2. ((Len(marks) + burst) % 2 = 1) <=> ((Len(marks) + 1) % 2 = 1)
        BY <1>2, <2>3, <4>1, OddIsOne
      <4> QED
        BY <4>1, <4>2
    <3> QED
      BY <3>1, <3>2
  <2>5. Len(marks') + (IF burst' = 0 THEN 1 ELSE burst') = m
    BY <1>3, <1>4
  <2> HIDE DEF n, m
  <2>6. (outputLevel = outputInitialLevel) = (m % 2 = 1)
    BY <2>2, <2>4
  <2> QED
    BY <1>3, <2>5, <2>6
<1>9. (~refused' /\ NoLongRest') => recorded' = Gaps(marks)'
  BY <1>3 DEF RecordingInv, NoLongRest, Gaps, Wrap
<1> QED
  BY <1>7, <1>8, <1>9 DEF RecordingInv

LEMMA RecorderKept ==
  ASSUME RecorderInv, RecordingInv, UNCHANGED <<now, recorderVars>>
  PROVE  RecorderInv' /\ RecordingInv'
BY DEF RecorderInv, RecordingInv, recorderVars, LastMark, NoLongRest, Gaps, Wrap

LEMMA RecorderSteps ==
  ASSUME TypeOK, RecorderInv, RecordingInv, [Next]_vars
  PROVE  RecorderInv' /\ RecordingInv'
<1>1. CASE ReadInput
  BY <1>1, RecorderToggles, RecordingToggles DEF ReadInput
<1>2. CASE TouchOutput
  BY <1>2, RecorderToggles, RecordingToggles DEF TouchOutput
<1>3. CASE Tick
  BY <1>3, RecorderTicks
<1>4. CASE ToggleInput
  BY <1>4, RecorderKept DEF ToggleInput
<1>5. CASE TickEnds
  BY <1>5, RecorderKept DEF TickEnds
<1>6. CASE LeaveUnsaved
  BY <1>6, RecorderKept DEF LeaveUnsaved, Leave
<1>7. CASE SaveTape
  BY <1>7, RecorderKept DEF SaveTape, Leave
<1>8. CASE UNCHANGED vars
  BY <1>8, RecorderKept DEF vars
<1> QED
  BY <1>1, <1>2, <1>3, <1>4, <1>5, <1>6, <1>7, <1>8 DEF Next

IInv == TypeOK /\ PlayerInv /\ RecorderInv /\ RecordingInv

LEMMA InitInv == Init => IInv
<1> SUFFICES ASSUME Init PROVE IInv
  OBVIOUS
<1>1. TypeOK /\ PlayerInv
  BY InitTypes, InitPlayer
<1>2. /\ ~recordingStarted /\ marks = <<>> /\ burst = 0 /\ recorded = <<>>
  BY DEF Init
<1>3. RecorderInv
  BY <1>2 DEF RecorderInv
<1>4. RecordingInv
  BY <1>2, GapsOfOne DEF RecordingInv
<1> QED
  BY <1>1, <1>3, <1>4 DEF IInv

LEMMA NextInv == IInv /\ [Next]_vars => IInv'
BY TypesStep, PlayerSteps, RecorderSteps DEF IInv

LEMMA InvHolds == Spec => []IInv
BY InitInv, NextInv, PTL DEF Spec

-----------------------------------------------------------------------------
(* The theorems *)

(* For every tape, clock and program the counters, the buffer and the lists of
   aci.c keep their types, and the recording never leaves its allocation.    *)
THEOREM TypeCorrect == Spec => []TypeOK
<1>1. IInv => TypeOK
  BY DEF IInv
<1> QED
  BY <1>1, InvHolds, PTL

(* After aci_tick the input is the wave of the tape, for every tape and every
   sequence of instructions, rewound or not.                                 *)
THEOREM InputIsTheWave == Spec => []PlaysTheWave
<1>1. IInv => PlaysTheWave
  <2> SUFFICES ASSUME IInv, at = "cpu", TapeLoaded
               PROVE  \E k \in 0 .. Pulses :
                        /\ \A i \in 1 .. k : Edge(i) <= Position
                        /\ \A i \in k + 1 .. Pulses : Edge(i) > Position
                        /\ inputLevel = (tape.level # (k % 2 = 1))
    BY DEF PlaysTheWave
  <2> DEFINE k == playbackIndex
  <2>1. TypeOK /\ PlayerInv
    BY DEF IInv
  <2>2. /\ Pulses \in Nat \ {0}
        /\ \A i \in 0 .. Pulses : Edge(i) \in Nat
        /\ \A i, j \in 0 .. Pulses : i < j => Edge(i) < Edge(j)
    BY <2>1, TapeFacts DEF TypeOK
  <2>3. k \in 0 .. Pulses /\ Position \in Int
    BY <2>1 DEF TypeOK, Position
  <2>4. Edge(k) <= Position /\ inputLevel = (tape.level # (k % 2 = 1))
    BY <2>1 DEF PlayerInv, Position
  <2>5. \A i \in 1 .. k : Edge(i) <= Position
    <3> TAKE i \in 1 .. k
    <3>1. i \in 0 .. Pulses /\ (i = k \/ i < k)
      BY <2>2, <2>3
    <3>2. Edge(i) <= Edge(k) /\ Edge(i) \in Nat /\ Edge(k) \in Nat
      BY <2>2, <2>3, <3>1
    <3> QED
      BY <2>3, <2>4, <3>2
  <2>6. ASSUME NEW i \in k + 1 .. Pulses
        PROVE  Edge(i) > Position
    <3>1. k < Pulses /\ k + 1 \in 0 .. Pulses /\ i \in 0 .. Pulses /\ (i = k + 1 \/ k + 1 < i)
      BY <2>2, <2>3
    <3>2. tapeActive
      BY <2>1, <3>1 DEF PlayerInv
    <3>3. Edge(k + 1) - Position > 0
      BY <2>1, <3>2 DEF PlayerInv, Position
    <3>4. Edge(k + 1) <= Edge(i) /\ Edge(i) \in Nat /\ Edge(k + 1) \in Nat
      BY <2>2, <3>1
    <3> QED
      BY <2>3, <3>3, <3>4
  <2> QED
    BY <2>3, <2>4, <2>5, <2>6
<1> QED
  BY <1>1, InvHolds, PTL

(* The buffer holds the times between toggles, for every program, width of the
   clock and first allocation.                                               *)
THEOREM RecordingIsExact == Spec => []RecordingIsOutput
<1>1. IInv => RecordingIsOutput
  <2> SUFFICES ASSUME IInv, ~refused, NoLongRest
               PROVE  /\ recorded = Gaps(marks)
                      /\ recordingStarted /\ ~even /\ burst % 2 = 1 =>
                           (outputLevel = outputInitialLevel) = (Len(recorded) % 2 = 1)
    BY DEF RecordingIsOutput
  <2>1. recorded = Gaps(marks)
    BY DEF IInv, RecordingInv
  <2>2. ASSUME recordingStarted, ~even, burst % 2 = 1
        PROVE  (outputLevel = outputInitialLevel) = (Len(recorded) % 2 = 1)
    <3>1. marks # <<>> /\ burst \in Nat /\ marks \in Seq(0 .. now)
      BY <2>2, AciAssumption DEF IInv, TypeOK, RecorderInv
    <3>2. burst # 0
      BY <2>2
    <3>3. marks \in Seq(Int)
      <4>1. 0 .. now \subseteq Int
        OBVIOUS
      <4> QED
        BY <3>1, <4>1, SequencesOfMore
    <3> DEFINE n == Len(marks)
    <3>4. n \in Nat /\ Len(recorded) = n - 1
      BY <2>1, <3>1, <3>3, LengthOfGaps
    <3>5. (outputLevel = outputInitialLevel)
            = ((n + (IF burst = 0 THEN 1 ELSE burst)) % 2 = 1)
      BY <2>2 DEF IInv, RecordingInv
    <3>6. (outputLevel = outputInitialLevel) = ((n + burst) % 2 = 1)
      BY <3>2, <3>5
    <3> HIDE DEF n
    <3>7. ((n + burst) % 2 = 1) <=> ((n - 1) % 2 = 1)
      BY <2>2, <3>1, <3>4
    <3> QED
      BY <3>4, <3>6, <3>7
  <2> QED
    BY <2>1, <2>2
<1> QED
  BY <1>1, InvHolds, PTL

(* While a program listens without a silence of half a second, the tape never
   goes back, for every width of the counter.                                *)
THEOREM TapeGoesForward == Spec => HeardInOrder
<1>1. IInv /\ [Next]_vars => [origin' # origin => now - heardAt > RewindGap]_vars
  <2> SUFFICES ASSUME IInv, Next, origin' # origin
               PROVE  now - heardAt > RewindGap
    BY DEF vars, playerVars
  <2>1. ReadInput
    BY DEF Next, TouchOutput, Tick, ToggleInput, TickEnds, LeaveUnsaved, SaveTape, Leave, playerVars
  <2>2. Since(lastReadCycle) > RewindGap
    BY <2>1 DEF ReadInput, Rewinds
  <2>3. now \in Nat /\ heardAt \in 0 .. now /\ lastReadCycle = heardAt % Wrap
    BY AciAssumption DEF IInv, TypeOK, PlayerInv
  <2>4. Since(lastReadCycle) \in 0 .. Wrap - 1 /\ Since(lastReadCycle) <= now - heardAt
    BY <2>3, SincePast
  <2> QED
    BY <2>2, <2>3, <2>4, WrapIsPositive, AciAssumption
<1> QED
  BY <1>1, InvHolds, PTL DEF Spec, HeardInOrder

(* A program that begins to listen after half a second hears the level the tape
   begins with, from within its first pulse.                                 *)
THEOREM ListeningStartsTheTape == Spec => HeardFromTheStart
<1>1. IInv /\ [Next]_vars =>
        [ReadInput /\ TapeLoaded /\ now - heardAt > RewindGap /\ now - heardAt < Wrap
           => now' - origin' < tape.edges[1] /\ heard' = tape.level]_vars
  <2> SUFFICES ASSUME IInv, ReadInput, TapeLoaded, now - heardAt > RewindGap, now - heardAt < Wrap
               PROVE  now' - origin' < tape.edges[1] /\ heard' = tape.level
    BY DEF vars
  <2>1. now \in Nat /\ origin \in Nat /\ heardAt \in 0 .. now /\ lastReadCycle = heardAt % Wrap
    BY AciAssumption DEF IInv, TypeOK, PlayerInv
  <2>2. Since(lastReadCycle) > RewindGap
    BY <2>1, SincePast
  <2>3. now' = now /\ heard' = inputLevel'
    BY DEF ReadInput
  <2>4. /\ tape.level \in BOOLEAN /\ Pulses \in Nat \ {0}
        /\ \A k \in 0 .. Pulses : Edge(k) \in Nat
        /\ \A k \in 1 .. Pulses : Duration(k) \in 1 .. Half - 1 /\ Edge(k) = tape.edges[k]
    BY TapeFacts DEF IInv, TypeOK
  <2>5. 1 \in 1 .. Pulses /\ 1 \in 0 .. Pulses
    BY <2>4
  <2>6. tape.edges[1] = Edge(1) /\ Edge(1) \in Nat /\ Edge(1) > 0
    <3>1. Duration(1) = Edge(1) - 0
      BY DEF Duration, Edge
    <3> QED
      BY <2>4, <2>5, <3>1
  <2>7. CASE playbackIndex > 0
    <3>1. Rewinds
      BY <2>2, <2>7 DEF Rewinds
    <3>2. origin' = now /\ inputLevel' = tape.level
      BY <3>1 DEF ReadInput, Rewind
    <3> QED
      BY <2>1, <2>3, <2>6, <3>2
  <2>8. CASE ~(playbackIndex > 0)
    <3>1. playbackIndex = 0
      BY <2>4, <2>8 DEF IInv, TypeOK
    <3>2. origin' = origin /\ inputLevel' = inputLevel
      BY <2>8 DEF ReadInput, Rewinds
    <3>3. at = "cpu" /\ tapeActive
      BY <2>4, <3>1 DEF ReadInput, IInv, PlayerInv
    <3>4. cyclesUntilToggle = Edge(1) - (now - origin) /\ cyclesUntilToggle > 0
      <4>1. playbackIndex + 1 = 1
        BY <3>1
      <4> QED
        BY <3>3, <4>1 DEF IInv, PlayerInv
    <3>5. ~(playbackIndex % 2 = 1)
      BY <3>1
    <3>6. inputLevel = tape.level
      <4>1. inputLevel = (tape.level # (playbackIndex % 2 = 1))
        BY DEF IInv, PlayerInv
      <4> QED
        BY <2>4, <3>5, <4>1
    <3> QED
      BY <2>1, <2>3, <2>6, <3>2, <3>4, <3>6
  <2> QED
    BY <2>7, <2>8
<1> QED
  BY <1>1, InvHolds, PTL DEF Spec, HeardFromTheStart

-----------------------------------------------------------------------------
(* Saving and loading *)

(* "x / y + 0.5" cut off is the nearest integer. *)
LEMMA NearestIsNear ==
  ASSUME NEW num \in Nat, NEW den \in Nat \ {0}
  PROVE  /\ Nearest(num, den) \in Nat
         /\ 2 * (Nearest(num, den) * den) <= 2 * num + den
         /\ 2 * num < 2 * (Nearest(num, den) * den) + den
<1> DEFINE q == (2 * num + den) \div (2 * den)
           r == (2 * num + den) % (2 * den)
<1>1. 2 * den \in Nat \ {0} /\ 2 * num + den \in Nat
  OBVIOUS
<1>2. q \in Int /\ r \in 0 .. 2 * den - 1 /\ 2 * num + den = q * (2 * den) + r
  BY <1>1
<1> HIDE DEF q, r
<1>3. q * (2 * den) = 2 * (q * den)
  BY <1>2
<1>4. q >= 0
  <2>1. SUFFICES ASSUME q <= -1 PROVE FALSE
    BY <1>2
  <2>2. (-q - 1) * den >= 0
    BY <1>2, <2>1
  <2>3. (-q - 1) * den = -(q * den) - den
    BY <1>2
  <2>4. q * den \in Int
    BY <1>2
  <2> QED
    BY <1>2, <1>3, <2>2, <2>3, <2>4
<1>5. q * den \in Int
  BY <1>2
<1>6. q \in Nat /\ 2 * (q * den) <= 2 * num + den /\ 2 * num < 2 * (q * den) + den
  BY <1>2, <1>3, <1>4, <1>5
<1> QED
  BY <1>6 DEF Nearest, q

(* A pulse that was saved and loaded is off by no more than a sample and half a
   cycle, whatever its length and the rates: the bound SavedTapeLoads checks. *)
THEOREM PulsesSurviveSaving ==
  ASSUME NEW d \in Nat \ {0}
  PROVE  LET loaded == CycleCount(SampleCount(d))
         IN  /\ loaded \in Nat \ {0}
             /\ 2 * SampleRate * (loaded - d) <= 2 * AciClock + SampleRate
             /\ 2 * SampleRate * (d - loaded) <= 2 * AciClock + SampleRate
<1> DEFINE C == AciClock
           R == SampleRate
<1>1. C \in Nat \ {0} /\ R \in Nat \ {0}
  BY WaveAssumption
<1> DEFINE x == Nearest(d * R, C)
           n == AtLeastOne(x)
           y == Nearest(n * C, R)
           m == AtLeastOne(y)
<1> HIDE DEF C, R
<1>2. d * R \in Nat
  BY <1>1
<1>3. x \in Nat /\ 2 * (x * C) <= 2 * (d * R) + C /\ 2 * (d * R) < 2 * (x * C) + C
  BY <1>1, <1>2, NearestIsNear
<1>4. n \in Nat \ {0} /\ (n = x \/ (x = 0 /\ n = 1))
  BY <1>3 DEF AtLeastOne
<1> HIDE DEF x
<1>5. n * C \in Nat /\ x * C \in Nat /\ (x = 0 => x * C = 0) /\ (n = 1 => n * C = C)
  BY <1>1, <1>3, <1>4
<1>6. 2 * (n * C) <= 2 * (d * R) + 2 * C /\ 2 * (d * R) < 2 * (n * C) + C
  BY <1>1, <1>2, <1>3, <1>4, <1>5
<1> HIDE DEF n
<1>7. y \in Nat /\ 2 * (y * R) <= 2 * (n * C) + R /\ 2 * (n * C) < 2 * (y * R) + R
  BY <1>1, <1>5, NearestIsNear
<1>8. m \in Nat \ {0} /\ (m = y \/ (y = 0 /\ m = 1))
  BY <1>7 DEF AtLeastOne
<1> HIDE DEF y
<1>9. m * R \in Nat /\ y * R \in Nat /\ (y = 0 => y * R = 0) /\ (m = 1 => m * R = R)
  BY <1>1, <1>7, <1>8
<1>10. R <= d * R
  <2>1. (d - 1) * R >= 0 /\ (d - 1) * R = d * R - R
    BY <1>1
  <2> QED
    BY <1>1, <1>2, <2>1
<1>11. /\ 2 * (m * R) - 2 * (d * R) <= 2 * C + R
       /\ 2 * (d * R) - 2 * (m * R) <= 2 * C + R
  BY <1>1, <1>2, <1>5, <1>6, <1>7, <1>8, <1>9, <1>10
<1> HIDE DEF m
<1>12. 2 * R * (m - d) = 2 * (m * R) - 2 * (d * R) /\ 2 * R * (d - m) = 2 * (d * R) - 2 * (m * R)
  BY <1>1, <1>8
<1>13. /\ m \in Nat \ {0} /\ 2 * R * (m - d) <= 2 * C + R /\ 2 * R * (d - m) <= 2 * C + R
  BY <1>8, <1>11, <1>12
<1>14. CycleCount(SampleCount(d)) = m
  BY DEF CycleCount, SampleCount, C, R, m, y, n, x
<1> QED
  BY <1>13, <1>14 DEF C, R

-----------------------------------------------------------------------------
(* The scan of a list of samples *)

Scans == [first : {-1, 0, 1}, level : {-1, 0, 1}, transition : Int, durations : Seq(Int)]

(* What the scan knows after each sample. *)
ScanUpTo(f, samples) ==
  /\ f[0] = Silence
  /\ \A i \in 0 .. Len(samples) : f[i] \in Scans
  /\ \A i \in 1 .. Len(samples) : f[i] = ScanSample(f[i - 1], i, samples[i])
  /\ Scan(samples) = f[Len(samples)]

LEMMA CyclesAreIntegers == \A k \in Int : CycleCount(k) \in Int
<1> SUFFICES ASSUME NEW k \in Int PROVE CycleCount(k) \in Int
  OBVIOUS
<1>1. 2 * (k * AciClock) + SampleRate \in Int /\ 2 * SampleRate \in Nat \ {0}
  BY WaveAssumption
<1>2. Nearest(k * AciClock, SampleRate) \in Int
  BY <1>1 DEF Nearest
<1> QED
  BY <1>2 DEF CycleCount, AtLeastOne

LEMMA SilenceIsScan == Silence \in Scans
<1>1. <<>> \in Seq(Int)
  BY EmptySeq
<1> QED
  BY <1>1 DEF Silence, Scans

LEMMA ScanSampleIsScan ==
  ASSUME NEW scan \in Scans, NEW i \in Int, NEW sample \in {-1, 0, 1}
  PROVE  ScanSample(scan, i, sample) \in Scans
<1>1. CycleCount(i - scan.transition) \in Int
  BY CyclesAreIntegers DEF Scans
<1>2. Append(scan.durations, CycleCount(i - scan.transition)) \in Seq(Int)
  BY <1>1, AppendProperties DEF Scans
<1> QED
  BY <1>2 DEF ScanSample, Scans

LEMMA ScanRecur ==
  ASSUME NEW samples \in Seq({-1, 0, 1})
  PROVE  \E f : ScanUpTo(f, samples)
<1> DEFINE n == Len(samples)
           d == [p \in Scans \X (1 .. n) |-> ScanSample(p[1], p[2], samples[p[2]])]
           upTo[i \in 0 .. n] == IF i = 0 THEN Silence ELSE ScanSample(upTo[i - 1], i, samples[i])
<1>1. n \in Nat /\ \A i \in 1 .. n : i \in Int /\ samples[i] \in {-1, 0, 1}
  OBVIOUS
<1>2. d \in [Scans \X (1 .. n) -> Scans]
  BY <1>1, ScanSampleIsScan
<1>3. ASSUME NEW scan \in Scans, NEW i \in 1 .. n
      PROVE  d[<<scan, i>>] = ScanSample(scan, i, samples[i])
  <2>1. <<scan, i>> \in Scans \X (1 .. n) /\ <<scan, i>>[1] = scan /\ <<scan, i>>[2] = i
    OBVIOUS
  <2> QED BY <2>1
<1> HIDE DEF n, d
<1>4. PICK f \in [0 .. n -> Scans] : Recurs(f, n, Silence, d)
  BY <1>1, <1>2, SilenceIsScan, RecursionExists
<1>5. \A i \in 1 .. n : i - 1 \in 0 .. n /\ i # 0
  BY <1>1
<1>6. f[0] = Silence /\ \A i \in 1 .. n : f[i] = ScanSample(f[i - 1], i, samples[i])
  BY <1>3, <1>4, <1>5 DEF Recurs
<1>7. f = [i \in 0 .. n |-> IF i = 0 THEN Silence ELSE ScanSample(f[i - 1], i, samples[i])]
  <2>1. \A i \in 0 .. n : i = 0 \/ i \in 1 .. n
    BY <1>1
  <2>2. \A i \in 0 .. n : f[i] = IF i = 0 THEN Silence ELSE ScanSample(f[i - 1], i, samples[i])
    BY <1>5, <1>6, <2>1
  <2> QED BY <1>4, <2>2
<1>8. upTo = [i \in 0 .. n |-> IF i = 0 THEN Silence ELSE ScanSample(upTo[i - 1], i, samples[i])]
  BY <1>7
<1>9. Scan(samples) = upTo[n]
  BY DEF Scan, n
<1> HIDE DEF upTo
<1>10. upTo[0] = Silence /\ \A i \in 1 .. n : upTo[i] = ScanSample(upTo[i - 1], i, samples[i])
  BY <1>1, <1>8
<1> DEFINE Same == {i \in 0 .. n : upTo[i] = f[i]}
<1>11. 0 \in Same
  BY <1>1, <1>6, <1>10
<1>12. ASSUME NEW i \in 0 .. n - 1, i \in Same PROVE i + 1 \in Same
  <2>1. i + 1 \in 1 .. n /\ (i + 1) - 1 = i
    BY <1>1
  <2> QED
    BY <1>6, <1>10, <1>12, <2>1
<1> HIDE DEF Same
<1>13. \A i \in 0 .. n : i \in Same
  BY <1>1, <1>11, <1>12, BoundedInduction
<1>14. upTo[n] = f[n]
  BY <1>1, <1>13 DEF Same
<1> QED
  BY <1>4, <1>6, <1>9, <1>14 DEF n, ScanUpTo

(* The sign of the k-th run of a recording that starts at this level. *)
Signs == {-1, 1}
Sign(level, k) == IF level = (k % 2 = 1) THEN 1 ELSE -1

LEMMA SignsAlternate ==
  ASSUME NEW level \in BOOLEAN, NEW k \in Nat
  PROVE  Sign(level, k) \in Signs /\ Sign(level, k + 1) # Sign(level, k)
<1>1. (k + 1) % 2 = 1 <=> ~(k % 2 = 1)
  OBVIOUS
<1>2. Sign(level, k) \in Signs
  BY DEF Sign, Signs
<1>3. CASE k % 2 = 1
  BY <1>1, <1>2, <1>3 DEF Sign
<1>4. CASE ~(k % 2 = 1)
  BY <1>1, <1>2, <1>4 DEF Sign
<1> QED
  BY <1>2, <1>3, <1>4

(* What the scan knows in the k-th run, when the j-th ends at e[j]. *)
InRun(level, e, k) ==
  [first |-> Sign(level, 1), level |-> Sign(level, k), transition |-> e[k - 1] + 1,
   durations |-> [j \in 1 .. k - 1 |-> CycleCount(e[j] - e[j - 1])]]

(* The first sample that counts; another of the same sign, and one that is not. *)
LEMMA ScanStarts ==
  ASSUME NEW i, NEW c \in Signs
  PROVE  ScanSample(Silence, i, c) = [first |-> c, level |-> c, transition |-> i, durations |-> <<>>]
<1>1. c \notin {0, 0} /\ Silence.level = 0
  BY DEF Silence, Signs
<1>2. ScanSample(Silence, i, c)
        = [Silence EXCEPT !.first = c, !.level = c, !.transition = i]
  BY <1>1 DEF ScanSample
<1> QED
  BY <1>2 DEF Silence

At(first, level, transition, durations) ==
  [first |-> first, level |-> level, transition |-> transition, durations |-> durations]

LEMMA ScanGoesOn ==
  ASSUME NEW first, NEW level \in Signs, NEW transition, NEW durations, NEW i, NEW c \in Signs
  PROVE  /\ c = level => ScanSample(At(first, level, transition, durations), i, c)
                           = At(first, level, transition, durations)
         /\ c # level => ScanSample(At(first, level, transition, durations), i, c)
                           = At(first, c, i, Append(durations, CycleCount(i - transition)))
<1> DEFINE scan == At(first, level, transition, durations)
<1>1. scan.level = level /\ scan.transition = transition /\ scan.durations = durations
  BY DEF At
<1>2. CASE c = level
  BY <1>1, <1>2 DEF ScanSample
<1>3. CASE c # level
  <2>1. c \notin {0, scan.level} /\ scan.level # 0
    BY <1>1, <1>3 DEF Signs
  <2>2. ScanSample(scan, i, c)
          = [scan EXCEPT !.level = c, !.transition = i,
                         !.durations = Append(scan.durations, CycleCount(i - scan.transition))]
    BY <2>1 DEF ScanSample
  <2> QED
    BY <1>1, <1>3, <2>2 DEF At
<1> QED
  BY <1>2, <1>3

LEMMA FirstRun ==
  ASSUME NEW level \in BOOLEAN, NEW e, e[0] = 0
  PROVE  ScanSample(Silence, 1, Sign(level, 1)) = InRun(level, e, 1)
<1>1. Sign(level, 1) \in Signs
  BY SignsAlternate
<1>2. <<>> = [j \in 1 .. 1 - 1 |-> CycleCount(e[j] - e[j - 1])]
  OBVIOUS
<1>3. ScanSample(Silence, 1, Sign(level, 1))
        = [first |-> Sign(level, 1), level |-> Sign(level, 1), transition |-> 1, durations |-> <<>>]
  BY <1>1, ScanStarts
<1>4. e[1 - 1] + 1 = 1
  OBVIOUS
<1> QED
  BY <1>2, <1>3, <1>4 DEF InRun

LEMMA NextRun ==
  ASSUME NEW level \in BOOLEAN, NEW k \in Nat \ {0}, NEW e, \A j \in 0 .. k : e[j] \in Nat
  PROVE  /\ ScanSample(InRun(level, e, k), e[k] + 1, Sign(level, k + 1)) = InRun(level, e, k + 1)
         /\ \A i \in Int : ScanSample(InRun(level, e, k), i, Sign(level, k)) = InRun(level, e, k)
<1> DEFINE cycles == [j \in 1 .. k - 1 |-> CycleCount(e[j] - e[j - 1])]
           more   == [j \in 1 .. k |-> CycleCount(e[j] - e[j - 1])]
<1>1. Sign(level, k) \in Signs /\ Sign(level, k + 1) \in Signs /\ Sign(level, k + 1) # Sign(level, k)
  BY SignsAlternate
<1>2. \A j \in 1 .. k : CycleCount(e[j] - e[j - 1]) \in Int
  BY CyclesAreIntegers
<1>3. (e[k] + 1) - (e[k - 1] + 1) = e[k] - e[k - 1] /\ (k + 1) - 1 = k
  OBVIOUS
<1>4. more = Append(cycles, CycleCount(e[k] - e[k - 1]))
  <2>1. cycles \in Seq(Int) /\ Len(cycles) = k - 1
    BY <1>2
  <2>2. more \in Seq(Int) /\ Len(more) = k
    BY <1>2
  <2>3. /\ Append(cycles, CycleCount(e[k] - e[k - 1])) \in Seq(Int)
        /\ Len(Append(cycles, CycleCount(e[k] - e[k - 1]))) = k
        /\ \A j \in 1 .. k - 1 : Append(cycles, CycleCount(e[k] - e[k - 1]))[j] = cycles[j]
        /\ Append(cycles, CycleCount(e[k] - e[k - 1]))[k] = CycleCount(e[k] - e[k - 1])
    <3>1. CycleCount(e[k] - e[k - 1]) \in Int /\ (k - 1) + 1 = k
      BY <1>2
    <3> HIDE DEF cycles
    <3> QED
      BY <2>1, <3>1, AppendProperties
  <2>4. ASSUME NEW j \in 1 .. k
        PROVE  more[j] = Append(cycles, CycleCount(e[k] - e[k - 1]))[j]
    <3>1. CASE j = k
      BY <2>3, <3>1
    <3>2. CASE j # k
      <4>1. j \in 1 .. k - 1 /\ cycles[j] = more[j]
        BY <3>2
      <4> QED
        BY <2>3, <4>1
    <3> QED
      BY <3>1, <3>2
  <2> HIDE DEF cycles, more
  <2> QED
    BY <2>2, <2>3, <2>4, SeqEqual
<1> HIDE DEF cycles, more
<1>5. InRun(level, e, k) = At(Sign(level, 1), Sign(level, k), e[k - 1] + 1, cycles)
  BY DEF InRun, At, cycles
<1>6. InRun(level, e, k + 1) = At(Sign(level, 1), Sign(level, k + 1), e[k] + 1, more)
  BY <1>3 DEF InRun, At, more
<1>7. ScanSample(InRun(level, e, k), e[k] + 1, Sign(level, k + 1)) = InRun(level, e, k + 1)
  <2>1. ScanSample(At(Sign(level, 1), Sign(level, k), e[k - 1] + 1, cycles), e[k] + 1, Sign(level, k + 1))
          = At(Sign(level, 1), Sign(level, k + 1), e[k] + 1,
               Append(cycles, CycleCount((e[k] + 1) - (e[k - 1] + 1))))
    BY <1>1, ScanGoesOn
  <2> QED
    BY <1>3, <1>4, <1>5, <1>6, <2>1
<1>8. ASSUME NEW i PROVE ScanSample(InRun(level, e, k), i, Sign(level, k)) = InRun(level, e, k)
  <2>1. ScanSample(At(Sign(level, 1), Sign(level, k), e[k - 1] + 1, cycles), i, Sign(level, k))
          = At(Sign(level, 1), Sign(level, k), e[k - 1] + 1, cycles)
    BY <1>1, ScanGoesOn
  <2> QED
    BY <1>5, <2>1
<1> QED
  BY <1>7, <1>8

(* Runs of alternating sign are heard as their lengths, but for the last. *)
LEMMA RunsAreHeard ==
  ASSUME NEW samples \in Seq({-1, 0, 1}), NEW level \in BOOLEAN, NEW m \in Nat,
         NEW e \in [0 .. m + 1 -> Nat], e[0] = 0, e[m + 1] = Len(samples),
         \A k \in 1 .. m + 1 : e[k - 1] < e[k],
         \A k \in 1 .. m + 1 : \A i \in e[k - 1] + 1 .. e[k] : samples[i] = Sign(level, k)
  PROVE  Scan(samples) = InRun(level, e, m + 1)
<1> DEFINE n == Len(samples)
<1>1. PICK f : ScanUpTo(f, samples)
  BY ScanRecur
<1>2. /\ n \in Nat /\ f[0] = Silence /\ Scan(samples) = f[n]
      /\ \A i \in 1 .. n : f[i] = ScanSample(f[i - 1], i, samples[i])
  BY <1>1 DEF ScanUpTo
<1> HIDE DEF n
<1> DEFINE Ends  == {k \in 0 .. m + 1 : \A j \in 0 .. k : e[j] <= e[k]}
           Heard == {k \in 0 .. m + 1 : k = 0 \/ \A i \in e[k - 1] + 1 .. e[k] : f[i] = InRun(level, e, k)}
<1>3. 0 \in Ends /\ 0 \in Heard
  OBVIOUS
<1>4. ASSUME NEW k \in 0 .. (m + 1) - 1, k \in Ends PROVE k + 1 \in Ends
  <2>1. k + 1 \in 1 .. m + 1 /\ k + 1 \in 0 .. m + 1 /\ (k + 1) - 1 = k
    OBVIOUS
  <2>2. e[k] < e[k + 1] /\ e[k] \in Nat /\ e[k + 1] \in Nat
    BY <2>1
  <2>3. ASSUME NEW j \in 0 .. k + 1 PROVE e[j] <= e[k + 1]
    <3>1. CASE j = k + 1
      BY <2>2, <3>1
    <3>2. CASE j # k + 1
      <4>1. j \in 0 .. k /\ e[j] \in Nat
        BY <3>2
      <4>2. e[j] <= e[k]
        BY <1>4, <4>1
      <4> QED
        BY <2>2, <4>1, <4>2
    <3> QED
      BY <3>1, <3>2
  <2> QED
    BY <2>1, <2>3
<1> HIDE DEF Ends
<1>5. \A k \in 0 .. m + 1 : k \in Ends
  <2>1. m + 1 \in Nat
    OBVIOUS
  <2> QED BY <1>3, <1>4, <2>1, BoundedInduction, Zenon
<1>6. \A k \in 0 .. m + 1 : e[k] \in 0 .. n
  BY <1>2, <1>5 DEF Ends, n
<1>7. ASSUME NEW k \in 0 .. (m + 1) - 1, k \in Heard PROVE k + 1 \in Heard
  <2>1. k + 1 \in 1 .. m + 1 /\ (k + 1) - 1 = k /\ k \in 0 .. m + 1
    OBVIOUS
  <2>2. e[k] \in Nat /\ e[k + 1] \in Nat /\ e[k] < e[k + 1] /\ e[k + 1] <= n
    BY <1>2, <1>6, <2>1
  <2>3. \A i \in e[k] + 1 .. e[k + 1] : samples[i] = Sign(level, k + 1) /\ i \in 1 .. n
    BY <1>2, <2>1, <2>2, SMTT(30)
  <2>4. f[e[k] + 1] = InRun(level, e, k + 1)
    <3>1. f[e[k] + 1] = ScanSample(f[e[k]], e[k] + 1, Sign(level, k + 1))
      <4>1. e[k] + 1 \in e[k] + 1 .. e[k + 1] /\ (e[k] + 1) - 1 = e[k]
        BY <2>2
      <4> QED BY <1>2, <2>3, <4>1
    <3>2. CASE k = 0
      <4>1. f[1] = ScanSample(Silence, 1, Sign(level, 1))
        BY <1>2, <3>1, <3>2
      <4> QED BY <3>2, <4>1, FirstRun
    <3>3. CASE k # 0
      <4>1. e[k] \in e[k - 1] + 1 .. e[k]
        <5>1. k \in 1 .. m + 1
          BY <3>3
        <5>2. e[k - 1] < e[k] /\ e[k - 1] \in Nat
          BY <5>1
        <5> QED BY <2>2, <5>2, SMTT(30)
      <4>2. f[e[k]] = InRun(level, e, k)
        BY <1>7, <3>3, <4>1
      <4>3. k \in Nat \ {0} /\ \A j \in 0 .. k : e[j] \in Nat
        BY <3>3
      <4>4. ScanSample(InRun(level, e, k), e[k] + 1, Sign(level, k + 1)) = InRun(level, e, k + 1)
        BY <4>3, NextRun
      <4> QED BY <3>1, <4>2, <4>4
    <3> QED BY <3>2, <3>3
  <2> DEFINE l == e[k + 1] - (e[k] + 1)
             In == {o \in 0 .. l : f[e[k] + 1 + o] = InRun(level, e, k + 1)}
  <2>5. l \in Nat /\ 0 \in In
    BY <2>2, <2>4
  <2>6. ASSUME NEW o \in 0 .. l - 1, o \in In PROVE o + 1 \in In
    <3>1. e[k] + 1 + (o + 1) \in e[k] + 1 .. e[k + 1] /\ (e[k] + 1 + (o + 1)) - 1 = e[k] + 1 + o
      BY <2>2, <2>5, SMTT(30)
    <3>2. f[e[k] + 1 + (o + 1)]
            = ScanSample(f[e[k] + 1 + o], e[k] + 1 + (o + 1), Sign(level, k + 1))
      BY <1>2, <2>3, <3>1
    <3>3. f[e[k] + 1 + o] = InRun(level, e, k + 1)
      BY <2>6
    <3>4. k + 1 \in Nat \ {0} /\ \A j \in 0 .. k + 1 : e[j] \in Nat
      OBVIOUS
    <3>5. f[e[k] + 1 + (o + 1)] = InRun(level, e, k + 1)
      <4>1. e[k] + 1 + (o + 1) \in Int
        BY <2>2, <2>5, SMTT(30)
      <4>2. ScanSample(InRun(level, e, k + 1), e[k] + 1 + (o + 1), Sign(level, k + 1))
              = InRun(level, e, k + 1)
        BY <3>4, <4>1, NextRun, Zenon
      <4> QED BY <3>2, <3>3, <4>2
    <3>6. o + 1 \in 0 .. l
      BY <2>5
    <3> QED BY <3>5, <3>6
  <2> HIDE DEF In
  <2>7. \A o \in 0 .. l : o \in In
    BY <2>5, <2>6, BoundedInduction
  <2>8. ASSUME NEW i \in e[k] + 1 .. e[k + 1] PROVE f[i] = InRun(level, e, k + 1)
    <3>1. i - (e[k] + 1) \in 0 .. l /\ e[k] + 1 + (i - (e[k] + 1)) = i
      BY <2>2
    <3> HIDE DEF l
    <3>2. i - (e[k] + 1) \in In
      BY <2>7, <3>1
    <3> QED BY <3>1, <3>2 DEF In
  <2> QED
    BY <2>1, <2>8
<1> HIDE DEF Heard
<1>8. m + 1 \in Heard
  <2>1. m + 1 \in Nat /\ m + 1 \in 0 .. m + 1
    OBVIOUS
  <2> QED BY <1>3, <1>7, <2>1, BoundedInduction, Zenon
<1>9. e[m + 1] \in e[(m + 1) - 1] + 1 .. e[m + 1]
  <2>1. m + 1 \in 1 .. m + 1 /\ (m + 1) - 1 \in 0 .. m + 1
    OBVIOUS
  <2> QED BY <2>1
<1> QED
  BY <1>2, <1>8, <1>9 DEF Heard, n

-----------------------------------------------------------------------------
(* A tape that was saved is heard as it was recorded *)

LEMMA SampleCountIsPositive == \A d \in Nat : SampleCount(d) \in Nat \ {0}
<1> SUFFICES ASSUME NEW d \in Nat PROVE SampleCount(d) \in Nat \ {0}
  OBVIOUS
<1>1. d * SampleRate \in Nat /\ AciClock \in Nat \ {0}
  BY WaveAssumption
<1>2. Nearest(d * SampleRate, AciClock) \in Nat
  BY <1>1, NearestIsNear
<1> QED
  BY <1>2 DEF SampleCount, AtLeastOne

LEMMA TailSounds == SampleRate >= 10 => Tail10 \in Nat \ {0}
<1>1. SampleRate \in Nat
  BY WaveAssumption
<1> QED
  BY <1>1 DEF Tail10

LEMMA SavedIsHeard ==
  ASSUME SampleRate >= 10, NEW durations \in Seq(Nat), NEW level \in BOOLEAN
  PROVE  /\ SavedSamples(durations, level) \in Seq({-1, 0, 1})
         /\ Len(SavedSamples(durations, level)) > 0
         /\ Scan(SavedSamples(durations, level)).first = Sign(level, 1)
         /\ Scan(SavedSamples(durations, level)).durations
              = [k \in 1 .. Len(durations) |-> CycleCount(SampleCount(durations[k]))]
<1> DEFINE m == Len(durations)
           samples == SavedSamples(durations, level)
           length(i) == IF i <= m THEN SampleCount(durations[i]) ELSE Tail10
           runs == [i \in 1 .. m + 1 |-> [s \in 1 .. length(i) |-> IF level = (i % 2 = 1) THEN 1 ELSE -1]]
<1>1. m \in Nat /\ \A i \in 1 .. m : durations[i] \in Nat
  OBVIOUS
<1>2. ASSUME NEW i \in 1 .. m + 1 PROVE length(i) \in Nat \ {0}
  <2>1. CASE i <= m
    <3>1. i \in 1 .. m
      BY <1>1, <2>1
    <3>2. durations[i] \in Nat
      BY <1>1, <3>1
    <3>3. SampleCount(durations[i]) \in Nat \ {0}
      BY <3>2, SampleCountIsPositive
    <3> QED BY <2>1, <3>3
  <2>2. CASE ~(i <= m)
    <3>1. Tail10 \in Nat \ {0}
      BY TailSounds
    <3> QED BY <2>2, <3>1
  <2> QED BY <2>1, <2>2
<1> HIDE DEF m, length
<1>3. runs = [i \in 1 .. m + 1 |-> [s \in 1 .. length(i) |-> Sign(level, i)]]
  BY DEF Sign
<1>4. samples = FlattenSeq(runs)
  BY DEF SavedSamples, m, length
<1> HIDE DEF samples, runs
<1>5. ASSUME NEW i \in 1 .. m + 1
      PROVE  /\ runs[i] \in Seq({-1, 0, 1}) /\ Len(runs[i]) = length(i)
             /\ \A s \in 1 .. length(i) : runs[i][s] = Sign(level, i)
  <2>1. Sign(level, i) \in {-1, 0, 1}
    BY DEF Sign
  <2>2. runs[i] = [s \in 1 .. length(i) |-> Sign(level, i)] /\ length(i) \in Nat
    BY <1>2, <1>3
  <2> QED
    BY <2>1, <2>2
<1>6. runs \in Seq(Seq({-1, 0, 1})) /\ Len(runs) = m + 1 /\ runs # <<>>
  <2>1. runs = [i \in 1 .. m + 1 |-> runs[i]]
    BY <1>3
  <2>2. m + 1 \in Nat
    BY <1>1
  <2>3. runs \in [1 .. m + 1 -> Seq({-1, 0, 1})]
    BY <1>5, <2>1
  <2>4. runs \in Seq(Seq({-1, 0, 1})) /\ Len(runs) = m + 1
    BY <2>2, <2>3
  <2> QED
    BY <1>1, <2>4
<1>7. PICK e : /\ e \in [0 .. m + 1 -> Nat] /\ RunsEnd(e, runs)
               /\ samples \in Seq({-1, 0, 1})
               /\ Joined(e, runs, m + 1, samples)
  BY <1>4, <1>6, FlattenJoins
<1>8. /\ e[0] = 0 /\ e[m + 1] = Len(samples)
      /\ \A k \in 1 .. m + 1 : e[k - 1] \in Nat /\ e[k] = e[k - 1] + length(k)
  BY <1>5, <1>6, <1>7 DEF RunsEnd, Joined
<1>9. ASSUME NEW k \in 1 .. m + 1, NEW i \in e[k - 1] + 1 .. e[k]
      PROVE  samples[i] = Sign(level, k)
  <2>1. i - e[k - 1] \in 1 .. length(k) /\ e[k - 1] + (i - e[k - 1]) = i
    BY <1>2, <1>8, SMTT(30)
  <2>2. samples[e[k - 1] + (i - e[k - 1])] = runs[k][i - e[k - 1]]
    BY <1>5, <1>7, <2>1 DEF Joined
  <2> QED
    BY <1>5, <2>1, <2>2
<1>10. \A k \in 1 .. m + 1 : e[k - 1] < e[k]
  BY <1>2, <1>8
<1>11. Scan(samples) = InRun(level, e, m + 1)
  BY <1>1, <1>7, <1>8, <1>9, <1>10, RunsAreHeard
<1>12. \A k \in 1 .. m : e[k] - e[k - 1] = SampleCount(durations[k])
  <2>1. \A k \in 1 .. m : k \in 1 .. m + 1 /\ length(k) = SampleCount(durations[k])
    BY <1>1 DEF length
  <2> QED
    BY <1>2, <1>8, <2>1
<1>13. [k \in 1 .. (m + 1) - 1 |-> CycleCount(e[k] - e[k - 1])]
         = [k \in 1 .. m |-> CycleCount(SampleCount(durations[k]))]
  BY <1>1, <1>12
<1>14. Len(samples) > 0
  <2>1. m + 1 \in 1 .. m + 1
    BY <1>1
  <2> QED
    BY <1>8, <1>10, <2>1
<1> QED
  BY <1>7, <1>11, <1>13, <1>14 DEF InRun, samples, m

(* What save_wav_tape left on the disk: all of a header and the samples, or a
   part of them; after it the recording stays as it is. *)
FileInv ==
  file # NoFile =>
    /\ at = "off" /\ recorded # <<>>
    /\ \E written \in 0 .. Len(SavedSamples(recorded, outputInitialLevel)), parts \in 0 .. 3 :
         LET samples == SavedSamples(recorded, outputInitialLevel)
         IN  /\ parts < 3 => written = 0
             /\ file = [parts |-> parts, claims |-> Len(samples), samples |-> SubSeq(samples, 1, written)]
             /\ torn <=> written < Len(samples)

LEMMA FileSteps == FileInv /\ [Next]_vars => FileInv'
<1> SUFFICES ASSUME FileInv, [Next]_vars PROVE FileInv'
  OBVIOUS
<1>1. CASE at # "off" /\ file = NoFile /\ UNCHANGED fileVars
  BY <1>1 DEF fileVars, FileInv
<1>2. CASE UNCHANGED <<at, recorded, outputInitialLevel, file, torn>>
  BY <1>2 DEF FileInv
<1>3. CASE SaveTape
  BY <1>3, Zenon DEF SaveTape, Leave, recorderVars, FileInv, Claims
<1>4. at # "off" => file = NoFile
  BY DEF FileInv
<1>5. CASE ReadInput
  BY <1>1, <1>4, <1>5 DEF ReadInput
<1>6. CASE TouchOutput
  BY <1>1, <1>4, <1>6 DEF TouchOutput
<1>7. CASE Tick
  BY <1>1, <1>4, <1>7 DEF Tick
<1>8. CASE ToggleInput
  BY <1>1, <1>4, <1>8 DEF ToggleInput
<1>9. CASE TickEnds
  BY <1>1, <1>4, <1>9 DEF TickEnds
<1>10. CASE LeaveUnsaved
  BY <1>1, <1>4, <1>10 DEF LeaveUnsaved, Leave
<1>11. CASE UNCHANGED vars
  BY <1>2, <1>11 DEF vars, recorderVars, fileVars
<1> QED
  BY <1>3, <1>5, <1>6, <1>7, <1>8, <1>9, <1>10, <1>11 DEF Next

LEMMA FileInvHolds == Spec => []FileInv
<1>1. Init => FileInv
  BY DEF Init, FileInv
<1> QED
  BY <1>1, FileSteps, PTL DEF Spec

(* What the file of a recording loads as. *)
LEMMA FileLoads ==
  ASSUME SampleRate >= 10, TypeOK, FileInv, file # NoFile
  PROVE  /\ torn => LoadTape(file) = <<>>
         /\ ~torn => /\ LoadTape(file) = [k \in 1 .. Len(recorded) |-> CycleCount(SampleCount(recorded[k]))]
                     /\ InitialLevel(file.samples) = outputInitialLevel
<1> DEFINE samples == SavedSamples(recorded, outputInitialLevel)
<1>1. PICK written \in 0 .. Len(samples), parts \in 0 .. 3 :
        /\ parts < 3 => written = 0
        /\ file = [parts |-> parts, claims |-> Len(samples), samples |-> SubSeq(samples, 1, written)]
        /\ torn <=> written < Len(samples)
  BY DEF FileInv
<1>2. recorded \in Seq(Nat) /\ outputInitialLevel \in BOOLEAN
  <2>1. recorded \in Seq(1 .. Wrap - 1) /\ outputInitialLevel \in BOOLEAN
    BY DEF TypeOK
  <2>2. 1 .. Wrap - 1 \subseteq Nat
    BY WrapIsPositive
  <2> QED
    BY <2>1, <2>2, SequencesOfMore
<1>3. /\ samples \in Seq({-1, 0, 1}) /\ Len(samples) > 0
      /\ Scan(samples).first = Sign(outputInitialLevel, 1)
      /\ Scan(samples).durations = [k \in 1 .. Len(recorded) |-> CycleCount(SampleCount(recorded[k]))]
  BY <1>2, SavedIsHeard, Zenon
<1> HIDE DEF samples
<1>4. /\ Len(samples) \in Nat /\ written \in Nat /\ written <= Len(samples)
      /\ Len(SubSeq(samples, 1, written)) = written
  <2>1. Len(samples) \in Nat /\ written \in Nat /\ written <= Len(samples)
    BY <1>3
  <2>2. \A i \in 1 .. written : samples[i] \in {-1, 0, 1}
    BY <1>3, <2>1
  <2> QED
    BY <2>1, <2>2, <1>3
<1>5. file.parts = parts /\ file.claims = Len(samples) /\ file.samples = SubSeq(samples, 1, written)
  BY <1>1
<1>6. ASSUME torn PROVE LoadTape(file) = <<>>
  <2>1. ~(Len(file.samples) = file.claims)
    BY <1>1, <1>4, <1>5, <1>6
  <2> QED
    BY <2>1 DEF LoadTape
<1>7. ASSUME ~torn
      PROVE  /\ LoadTape(file) = [k \in 1 .. Len(recorded) |-> CycleCount(SampleCount(recorded[k]))]
             /\ InitialLevel(file.samples) = outputInitialLevel
  <2>1. written = Len(samples) /\ parts = 3
    BY <1>1, <1>3, <1>4, <1>7
  <2>2. file.samples = samples
    BY <1>3, <1>5, <2>1
  <2>3. LoadTape(file) = Scan(samples).durations
    BY <1>5, <2>1, <2>2 DEF LoadTape, PcmToDurations
  <2>4. InitialLevel(file.samples) <=> Sign(outputInitialLevel, 1) = 1
    BY <1>3, <2>2 DEF InitialLevel
  <2>5. Sign(outputInitialLevel, 1) = 1 <=> outputInitialLevel
    BY <1>2 DEF Sign
  <2> QED
    BY <1>2, <1>3, <2>3, <2>4, <2>5 DEF InitialLevel
<1> QED
  BY <1>6, <1>7

(* However the writing of a file fails, it is not loaded as a shorter tape. *)
THEOREM TornTapesAreRefused == SampleRate >= 10 => (Spec => []TornTapeIsRefused)
<1> SUFFICES ASSUME SampleRate >= 10 PROVE Spec => []TornTapeIsRefused
  OBVIOUS
<1>1. TypeOK /\ FileInv => TornTapeIsRefused
  BY FileLoads DEF TornTapeIsRefused
<1> QED
  BY <1>1, TypeCorrect, FileInvHolds, PTL

(* Whatever was recorded, saving it and loading the file gives the pulses that
   were recorded, in their order and from the same level, each off by no more
   than a sample and half a cycle; a tenth of a second must have a sample, or
   the last pulse would not be followed by anything. *)
THEOREM SavedTapesLoad == SampleRate >= 10 => (Spec => []SavedTapeLoads)
<1> SUFFICES ASSUME SampleRate >= 10 PROVE Spec => []SavedTapeLoads
  OBVIOUS
<1>1. ASSUME TypeOK, FileInv PROVE SavedTapeLoads
  <2> SUFFICES ASSUME file # NoFile, ~torn
               PROVE  LET loaded == LoadTape(file)
                      IN  /\ Len(loaded) = Len(recorded)
                          /\ InitialLevel(file.samples) = outputInitialLevel
                          /\ \A i \in 1 .. Len(recorded) :
                               LET error == loaded[i] - recorded[i]
                               IN  2 * SampleRate * (IF error < 0 THEN -error ELSE error) <= 2 * AciClock + SampleRate
    BY DEF SavedTapeLoads
  <2> DEFINE loaded == LoadTape(file)
  <2>1. /\ loaded = [k \in 1 .. Len(recorded) |-> CycleCount(SampleCount(recorded[k]))]
        /\ InitialLevel(file.samples) = outputInitialLevel
    BY <1>1, FileLoads
  <2>2. Len(recorded) \in Nat /\ \A i \in 1 .. Len(recorded) : recorded[i] \in Nat \ {0}
    <3>1. recorded \in Seq(1 .. Wrap - 1)
      BY <1>1 DEF TypeOK
    <3>2. \A d \in 1 .. Wrap - 1 : d \in Nat \ {0}
      BY WrapIsPositive
    <3>3. Len(recorded) \in Nat /\ \A i \in 1 .. Len(recorded) : recorded[i] \in 1 .. Wrap - 1
      BY <3>1, ElementOfSeq, LenProperties
    <3> QED
      BY <3>2, <3>3
  <2> HIDE DEF loaded
  <2>3. Len(loaded) = Len(recorded)
    BY <2>1, <2>2
  <2>4. ASSUME NEW i \in 1 .. Len(recorded)
        PROVE  LET error == loaded[i] - recorded[i]
               IN  2 * SampleRate * (IF error < 0 THEN -error ELSE error) <= 2 * AciClock + SampleRate
    <3> DEFINE y == CycleCount(SampleCount(recorded[i]))
               d == recorded[i]
    <3>1. d \in Nat \ {0} /\ loaded[i] = y
      BY <2>1, <2>2
    <3>2. /\ y \in Nat \ {0}
          /\ 2 * SampleRate * (y - d) <= 2 * AciClock + SampleRate
          /\ 2 * SampleRate * (d - y) <= 2 * AciClock + SampleRate
      BY <3>1, PulsesSurviveSaving
    <3> HIDE DEF y, d
    <3>3. CASE y - d < 0
      <4>1. -(y - d) = d - y
        BY <3>1, <3>2
      <4> QED
        BY <3>1, <3>2, <3>3, <4>1 DEF d
    <3>4. CASE ~(y - d < 0)
      BY <3>1, <3>2, <3>4 DEF d
    <3> QED
      BY <3>3, <3>4
  <2> QED
    BY <2>1, <2>3, <2>4 DEF loaded
<1> QED
  BY <1>1, TypeCorrect, FileInvHolds, PTL

-----------------------------------------------------------------------------
(* What a sound file loads as *)

LEMMA CycleCountIsPositive == \A k \in Nat : CycleCount(k) \in Nat \ {0}
<1> SUFFICES ASSUME NEW k \in Nat PROVE CycleCount(k) \in Nat \ {0}
  OBVIOUS
<1>1. k * AciClock \in Nat /\ SampleRate \in Nat \ {0}
  BY WaveAssumption
<1>2. Nearest(k * AciClock, SampleRate) \in Nat
  BY <1>1, NearestIsNear
<1> QED
  BY <1>2 DEF CycleCount, AtLeastOne

Pulse == Nat \ {0}

LEMMA PcmIsPulses ==
  ASSUME NEW samples \in Seq({-1, 0, 1})
  PROVE  PcmToDurations(samples) \in Seq(Pulse)
<1> DEFINE n == Len(samples)
<1>1. PICK f : ScanUpTo(f, samples)
  BY ScanRecur
<1>2. /\ n \in Nat /\ f[0] = Silence /\ Scan(samples) = f[n]
      /\ \A i \in 1 .. n : f[i] = ScanSample(f[i - 1], i, samples[i])
      /\ \A i \in 0 .. n : f[i] \in Scans
  BY <1>1 DEF ScanUpTo
<1> HIDE DEF n
<1> DEFINE Good == {i \in 0 .. n : f[i].transition \in 0 .. i /\ f[i].durations \in Seq(Pulse)}
<1>3. 0 \in Good
  <2>1. <<>> \in Seq(Pulse)
    BY EmptySeq
  <2>2. f[0].transition = 0 /\ f[0].durations = <<>>
    BY <1>2 DEF Silence
  <2>3. f[0].transition \in 0 .. 0 /\ 0 \in 0 .. n
    BY <1>2, <2>2
  <2> QED
    BY <2>1, <2>2, <2>3
<1>4. ASSUME NEW i \in 0 .. n - 1, i \in Good PROVE i + 1 \in Good
  <2> DEFINE scan == f[i]
             sample == samples[i + 1]
  <2>1. i \in 0 .. n /\ i + 1 \in 0 .. n /\ i + 1 \in 1 .. n /\ (i + 1) - 1 = i
    BY <1>2
  <2>2. f[i + 1] = ScanSample(scan, i + 1, sample) /\ scan \in Scans
    BY <1>2, <2>1
  <2>3. scan.transition \in 0 .. i /\ scan.durations \in Seq(Pulse)
    BY <1>4
  <2> HIDE DEF scan, sample
  <2>4. CycleCount((i + 1) - scan.transition) \in Pulse
    <3>1. (i + 1) - scan.transition \in Nat
      BY <2>1, <2>3
    <3> QED
      BY <3>1, CycleCountIsPositive DEF Pulse
  <2>5. Append(scan.durations, CycleCount((i + 1) - scan.transition)) \in Seq(Pulse)
    BY <2>3, <2>4, AppendProperties
  <2>6. \/ f[i + 1] = scan
        \/ f[i + 1].transition = i + 1 /\ f[i + 1].durations = scan.durations
        \/ /\ f[i + 1].transition = i + 1
           /\ f[i + 1].durations = Append(scan.durations, CycleCount((i + 1) - scan.transition))
    BY <2>2 DEF ScanSample, Scans
  <2>7. f[i + 1].transition \in 0 .. i + 1
    <3>1. scan.transition \in 0 .. i + 1 /\ i + 1 \in 0 .. i + 1
      BY <2>1, <2>3
    <3> QED
      BY <2>6, <3>1
  <2>8. f[i + 1].durations \in Seq(Pulse)
    BY <2>3, <2>5, <2>6
  <2> QED
    BY <2>1, <2>7, <2>8
<1> HIDE DEF Good
<1>5. \A i \in 0 .. n : i \in Good
  BY <1>2, <1>3, <1>4, BoundedInduction
<1> QED
  BY <1>2, <1>5 DEF Good, PcmToDurations

(* Each edge is a duration after the one before. *)
LEMMA EdgesAdd ==
  ASSUME NEW durations \in Seq(Pulse)
  PROVE  \E edge : /\ edge \in [0 .. Len(durations) -> Nat] /\ edge[0] = 0
                   /\ \A i \in 1 .. Len(durations) : edge[i] = edge[i - 1] + durations[i]
                   /\ EdgesOf(durations) = [i \in 1 .. Len(durations) |-> edge[i]]
<1> DEFINE n == Len(durations)
           d == [p \in Nat \X (1 .. n) |-> p[1] + durations[p[2]]]
           edge[i \in 0 .. n] == IF i = 0 THEN 0 ELSE edge[i - 1] + durations[i]
<1>1. n \in Nat /\ \A i \in 1 .. n : durations[i] \in Nat
  BY ElementOfSeq, LenProperties DEF Pulse
<1>2. d \in [Nat \X (1 .. n) -> Nat]
  BY <1>1
<1>3. ASSUME NEW t \in Nat, NEW i \in 1 .. n PROVE d[<<t, i>>] = t + durations[i]
  <2>1. <<t, i>> \in Nat \X (1 .. n) /\ <<t, i>>[1] = t /\ <<t, i>>[2] = i
    OBVIOUS
  <2> QED BY <2>1
<1> HIDE DEF n, d
<1>4. PICK f \in [0 .. n -> Nat] : Recurs(f, n, 0, d)
  BY <1>1, <1>2, RecursionExists
<1>5. \A i \in 1 .. n : i - 1 \in 0 .. n /\ i # 0
  BY <1>1
<1>6. f[0] = 0 /\ \A i \in 1 .. n : f[i] = f[i - 1] + durations[i]
  BY <1>3, <1>4, <1>5 DEF Recurs
<1>7. f = [i \in 0 .. n |-> IF i = 0 THEN 0 ELSE f[i - 1] + durations[i]]
  <2>1. \A i \in 0 .. n : i = 0 \/ i \in 1 .. n
    BY <1>1
  <2>2. \A i \in 0 .. n : f[i] = IF i = 0 THEN 0 ELSE f[i - 1] + durations[i]
    BY <1>5, <1>6, <2>1
  <2> QED BY <1>4, <2>2
<1>8. edge = [i \in 0 .. n |-> IF i = 0 THEN 0 ELSE edge[i - 1] + durations[i]]
  BY <1>7
<1>9. EdgesOf(durations) = [i \in 1 .. n |-> edge[i]]
  BY DEF EdgesOf, n
<1> HIDE DEF edge
<1>10. edge[0] = 0 /\ \A i \in 1 .. n : edge[i] = edge[i - 1] + durations[i]
  BY <1>1, <1>8
<1> DEFINE Same == {i \in 0 .. n : edge[i] = f[i]}
<1>11. 0 \in Same
  BY <1>1, <1>6, <1>10
<1>12. ASSUME NEW i \in 0 .. n - 1, i \in Same PROVE i + 1 \in Same
  <2>1. i + 1 \in 1 .. n /\ (i + 1) - 1 = i
    BY <1>1
  <2> QED
    BY <1>6, <1>10, <1>12, <2>1
<1> HIDE DEF Same
<1>13. \A i \in 0 .. n : i \in Same
  BY <1>1, <1>11, <1>12, BoundedInduction
<1>14. [i \in 1 .. n |-> edge[i]] = [i \in 1 .. n |-> f[i]]
  <2>1. \A i \in 1 .. n : edge[i] = f[i]
    BY <1>1, <1>13 DEF Same
  <2> QED BY <2>1
<1> QED
  BY <1>4, <1>6, <1>9, <1>14 DEF n

(* Every sound file with a change of sign, and no pulse of 35 minutes, is a
   tape that the card can play: what is assumed of Tapes is true of files. *)
THEOREM LoadedTapeIsTape ==
  ASSUME NEW samples \in Seq({-1, 0, 1}), PcmToDurations(samples) # <<>>,
         \A i \in 1 .. Len(PcmToDurations(samples)) : PcmToDurations(samples)[i] < Half
  PROVE  IsTape(TapeOf(samples))
<1> DEFINE durations == PcmToDurations(samples)
           n == Len(durations)
           edges == EdgesOf(durations)
<1>1. durations \in Seq(Pulse)
  BY PcmIsPulses
<1> HIDE DEF durations
<1>2. n \in Nat \ {0} /\ \A i \in 1 .. n : durations[i] \in Nat \ {0}
  <2>1. n \in Nat /\ \A i \in 1 .. n : durations[i] \in Pulse
    BY <1>1, ElementOfSeq, LenProperties
  <2>2. n # 0
    BY <1>1, EmptySeq DEF durations
  <2> QED BY <2>1, <2>2 DEF Pulse
<1>3. PICK edge : /\ edge \in [0 .. n -> Nat] /\ edge[0] = 0
                  /\ \A i \in 1 .. n : edge[i] = edge[i - 1] + durations[i]
                  /\ edges = [i \in 1 .. n |-> edge[i]]
  BY <1>1, EdgesAdd
<1> HIDE DEF n, edges
<1>4. ASSUME NEW i \in 1 .. n PROVE edge[i - 1] \in Nat /\ edge[i - 1] < edge[i]
  <2>1. i - 1 \in 0 .. n
    BY <1>2
  <2>2. edge[i - 1] \in Nat /\ edge[i] = edge[i - 1] + durations[i] /\ durations[i] \in Nat \ {0}
    BY <1>2, <1>3, <2>1
  <2> QED
    BY <2>2
<1> DEFINE Later == {j \in 0 .. n : \A i \in 0 .. j : i < j => edge[i] < edge[j]}
<1>5. 0 \in Later
  BY <1>2
<1>6. ASSUME NEW j \in 0 .. n - 1, j \in Later PROVE j + 1 \in Later
  <2>1. j + 1 \in 1 .. n /\ j + 1 \in 0 .. n /\ (j + 1) - 1 = j
    BY <1>2
  <2>2. edge[j] < edge[j + 1] /\ edge[j] \in Nat /\ edge[j + 1] \in Nat
    BY <1>3, <1>4, <2>1
  <2>3. ASSUME NEW i \in 0 .. j + 1, i < j + 1 PROVE edge[i] < edge[j + 1]
    <3>1. i \in 0 .. j /\ edge[i] \in Nat
      BY <1>2, <1>3, <2>3
    <3>2. i = j \/ edge[i] < edge[j]
      BY <1>6, <3>1
    <3> QED
      BY <2>2, <3>1, <3>2
  <2> QED
    BY <2>1, <2>3
<1> HIDE DEF Later
<1>7. \A j \in 0 .. n : j \in Later
  BY <1>2, <1>5, <1>6, BoundedInduction
<1>8. ASSUME NEW i \in 1 .. n, NEW j \in 1 .. n, i < j PROVE edges[i] < edges[j]
  <2>1. i \in 0 .. j /\ j \in Later
    BY <1>2, <1>7, <1>8
  <2> QED
    BY <1>3, <1>8, <2>1 DEF Later
<1>9. edges \in Seq(Nat \ {0}) /\ Len(edges) = n /\ edges # <<>>
  <2>1. \A i \in 1 .. n : edge[i] \in Nat \ {0}
    BY <1>3, <1>4
  <2>2. edges \in Seq(Nat \ {0}) /\ Len(edges) = n
    BY <1>2, <1>3, <2>1
  <2> QED
    BY <1>2, <2>2
<1>10. ASSUME NEW i \in 1 .. n
       PROVE  edges[i] - (IF i = 1 THEN 0 ELSE edges[i - 1]) < Half
  <2>1. durations[i] < Half
    BY DEF durations, n
  <2>2. i # 1 => i - 1 \in 1 .. n
    BY <1>2
  <2>3. edges[i] - (IF i = 1 THEN 0 ELSE edges[i - 1]) = durations[i]
    BY <1>2, <1>3, <1>4, <2>2
  <2> QED
    BY <2>1, <2>3
<1>11. InitialLevel(samples) \in BOOLEAN
  BY DEF InitialLevel
<1>12. TapeOf(samples) = [level |-> InitialLevel(samples), edges |-> edges]
  BY DEF TapeOf, edges, durations
<1> QED
  BY <1>8, <1>9, <1>10, <1>11, <1>12 DEF IsTape
=============================================================================
