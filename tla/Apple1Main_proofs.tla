------------------------- MODULE Apple1Main_proofs -------------------------
(***************************************************************************)
(* Proofs about Apple1Main for any guest addresses, any command lines and  *)
(* any sizes of the debugger's lists.                                      *)
(*                                                                         *)
(* None of the safety properties is inductive: each depends on what the    *)
(* loop has promised by the time it is where it is.  IInv states that, in  *)
(* one part for each property.                                             *)
(***************************************************************************)
EXTENDS Apple1Main, SequenceTheorems, WellFoundedInduction, TLAPS

(* Only -g reaches the prompt, so only -g sets traps or asks for a step. *)
DebuggerOnly ==
  ~opt.debug => /\ breakpoints = <<>> /\ watchpoints = <<>>
                /\ ~repause /\ ~watchHit /\ loc # "prompt" /\ lastCmd = "none"

(* After 's' the request to come back stands until the instruction has run
   and the prompt is open. *)
StepPending ==
  lastCmd = "s" =>
    \/ executed = 0 /\ repause /\ loc \notin {"repause", "trap"}
    \/ executed = 1 /\ repause /\ loc = "repause"
    \/ executed = 1 /\ loc \in {"prompt", "exit", "exited"}

(* A hit watchpoint keeps step_mode until the head of the loop sees it, and
   past the head nothing is left to stop for. *)
TrapPending ==
  /\ watchHit => stepMode /\ loc \notin {"signal", "step", "prompt"}
  /\ loc \in {"signal", "step"} => ~(opt.debug /\ HasBreakpoint(pc))

(* The terminal: raw in the loop, the debugger's at the prompt, and as it was
   found from ^C or the end of the loop on. *)
RawTerm   == term.mode = "raw" /\ term.raw /\ term.posixRaw /\ ~term.posixDbg /\ term.orig = "cooked"
DbgTerm   == term.mode = "dbg" /\ ~term.raw /\ ~term.posixRaw /\ term.posixDbg /\ term.saved = "cooked"
FoundTerm == term.mode = "cooked" /\ ~term.raw /\ ~term.posixRaw /\ ~term.posixDbg

TerminalKept ==
  /\ opt.headless => term.mode = "cooked" /\ loc \notin {"keyboard", "kbdsig"}
  /\ ~opt.headless =>
       /\ loc \in {"top", "keyboard", "signal", "step", "repause", "trap"} => RawTerm
       /\ loc = "kbdsig" => RawTerm \/ (FoundTerm /\ quitFlag)
       /\ loc = "check" => RawTerm \/ (FoundTerm /\ opt.debug /\ stepMode)
       /\ loc = "prompt" => DbgTerm
       /\ loc = "exit" /\ leftFrom = "loop" => RawTerm \/ FoundTerm
       /\ loc = "exited" /\ leftFrom = "loop" => term.mode = "cooked"

(* The third step at an address ends the run that counts them. *)
LoopCounted == loc # "exited" => loopCount <= 2

IInv ==
  TypeOK /\ DebuggerOnly /\ StepPending /\ TrapPending /\ NoTrapTwice /\ TerminalKept /\ LoopCounted

-----------------------------------------------------------------------------
(* The debugger's lists *)

BreakOK ==
  /\ breakpoints \in Seq(Addr) /\ Len(breakpoints) <= MaxBreak
  /\ \A i, j \in DOMAIN breakpoints : breakpoints[i] = breakpoints[j] => i = j

Watch == [addr : Addr, type : WatchType]

WatchOK ==
  /\ watchpoints \in Seq(Watch) /\ Len(watchpoints) <= MaxWatch
  /\ \A i, j \in DOMAIN watchpoints : watchpoints[i].addr = watchpoints[j].addr => i = j

(* A nonempty set of naturals has a least element. *)
LEMMA LeastExists ==
  ASSUME NEW I, I \subseteq Nat, I # {}
  PROVE  \E m \in I : \A y \in I : m =< y
PROOF
  <1> DEFINE R == {ss \in Nat \X Nat : ss[1] < ss[2]}
  <1>1. IsWellFoundedOn(R, Nat)
    BY NatLessThanWellFounded DEF OpToRel
  <1>2. PICK m \in I : \A y \in I : ~(<<y, m>> \in R)
    BY ONLY <1>1, WFMin, I \subseteq Nat, I # {}
  <1>3. ASSUME NEW y \in I PROVE m =< y
    <2>1. y \in Nat /\ m \in Nat
      OBVIOUS
    <2>2. ~(y < m)
      BY <1>2, <2>1
    <2> QED BY <2>1, <2>2
  <1> QED BY <1>3

(* The scan of the breakpoints finds the address, or 0 where it is not. *)
LEMMA BreakIndexFinds ==
  ASSUME NEW a, breakpoints \in Seq(Addr)
  PROVE  /\ BreakIndex(a) \in 0 .. Len(breakpoints)
         /\ BreakIndex(a) = 0 => \A i \in DOMAIN breakpoints : breakpoints[i] # a
PROOF
  <1> DEFINE I == {i \in 1 .. Len(breakpoints) : breakpoints[i] = a}
  <1>1. BreakIndex(a) = IF I # {} THEN CHOOSE x \in I : \A y \in I : x =< y ELSE 0
    BY DEF BreakIndex, SelectInSeq, Min
  <1>2. I \subseteq Nat /\ Len(breakpoints) \in Nat
    OBVIOUS
  <1>3. I # {} => (CHOOSE x \in I : \A y \in I : x =< y) \in I
    BY <1>2, LeastExists
  <1>4. CASE I = {}
    BY <1>1, <1>2, <1>4, SMT
  <1>5. CASE I # {}
    <2>1. BreakIndex(a) \in I
      BY <1>1, <1>3, <1>5
    <2> QED BY <2>1, <1>2, SMT
  <1> QED BY <1>4, <1>5

(* The scan of the watchpoints finds the address, or 0 where it is not. *)
LEMMA WatchIndexFinds ==
  ASSUME NEW a, watchpoints \in Seq(Watch)
  PROVE  /\ WatchIndex(a) \in 0 .. Len(watchpoints)
         /\ WatchIndex(a) = 0 => \A i \in DOMAIN watchpoints : watchpoints[i].addr # a
         /\ WatchIndex(a) # 0 => watchpoints[WatchIndex(a)].addr = a
PROOF
  <1> DEFINE I == {i \in 1 .. Len(watchpoints) : watchpoints[i].addr = a}
  <1>1. WatchIndex(a) = IF I # {} THEN CHOOSE x \in I : \A y \in I : x =< y ELSE 0
    BY DEF WatchIndex, SelectInSeq, Min
  <1>2. I \subseteq Nat /\ Len(watchpoints) \in Nat
    OBVIOUS
  <1>3. I # {} => (CHOOSE x \in I : \A y \in I : x =< y) \in I
    BY <1>2, LeastExists
  <1>4. CASE I = {}
    BY <1>1, <1>2, <1>4, SMT
  <1>5. CASE I # {}
    <2>1. WatchIndex(a) \in I
      BY <1>1, <1>3, <1>5
    <2> QED BY <2>1, <1>2, SMT
  <1> QED BY <1>4, <1>5

(* Deleting an element shifts those behind it down by one. *)
LEMMA RemoveAtShifts ==
  ASSUME NEW S, NEW s \in Seq(S), NEW i \in 1 .. Len(s)
  PROVE  /\ RemoveAt(s, i) \in Seq(S)
         /\ Len(RemoveAt(s, i)) = Len(s) - 1
         /\ \A j \in 1 .. Len(s) - 1 : RemoveAt(s, i)[j] = s[IF j < i THEN j ELSE j + 1]
PROOF
  <1> DEFINE l == SubSeq(s, 1, i - 1)
             r == SubSeq(s, i + 1, Len(s))
  <1>1. l \in Seq(S) /\ Len(l) = i - 1 /\ \A j \in 1 .. i - 1 : l[j] = s[j]
    BY SubSeqProperties
  <1>2. r \in Seq(S) /\ Len(r) = Len(s) - i /\ \A j \in 1 .. Len(s) - i : r[j] = s[i + j]
    BY SubSeqProperties
  <1>3. RemoveAt(s, i) = l \o r
    BY DEF RemoveAt
  <1>4. i \in Nat /\ Len(s) \in Nat /\ 1 <= i /\ i <= Len(s)
    OBVIOUS
  <1> HIDE DEF l, r
  <1>5. l \o r \in Seq(S) /\ Len(l \o r) = Len(l) + Len(r)
    BY <1>1, <1>2, ConcatProperties
  <1>6. ASSUME NEW j \in 1 .. Len(s) - 1
        PROVE  (l \o r)[j] = s[IF j < i THEN j ELSE j + 1]
    <2>1. (l \o r)[j] = IF j <= Len(l) THEN l[j] ELSE r[j - Len(l)]
      BY <1>1, <1>2, <1>4, ConcatProperties
    <2>2. CASE j < i
      BY <2>1, <2>2, <1>1, <1>4
    <2>3. CASE ~(j < i)
      <3>1. j - (i - 1) \in 1 .. Len(s) - i /\ ~(j <= i - 1)
        BY <2>3, <1>4
      <3>2. i + (j - (i - 1)) = j + 1
        BY <1>4
      <3> QED BY <2>1, <3>1, <3>2, <2>3, <1>1, <1>2
    <2> QED BY <2>2, <2>3
  <1>7. Len(l) + Len(r) = Len(s) - 1
    BY <1>1, <1>2, <1>4
  <1> QED BY <1>3, <1>5, <1>6, <1>7

(* dbg_add_breakpoint and dbg_remove_breakpoint keep the list within its size
   and free of duplicates. *)
LEMMA EditBreakpointsKeepsThem ==
  ASSUME BreakOK, NEW a \in Addr, AddBreakpoint(a) \/ RemoveBreakpoint(a)
  PROVE  BreakOK'
PROOF
  <1> USE DEF BreakOK
  <1>1. CASE AddBreakpoint(a)
    <2>1. CASE HasBreakpoint(a) \/ Len(breakpoints) >= MaxBreak
      BY <1>1, <2>1 DEF AddBreakpoint
    <2>2. CASE ~(HasBreakpoint(a) \/ Len(breakpoints) >= MaxBreak)
      BY <1>1, <2>2, MainAssumption DEF AddBreakpoint, HasBreakpoint, MainAssumption
    <2> QED BY <2>1, <2>2
  <1>2. CASE RemoveBreakpoint(a)
    <2>1. CASE BreakIndex(a) = 0
      BY <1>2, <2>1 DEF RemoveBreakpoint
    <2>2. CASE BreakIndex(a) # 0
      <3>1. BreakIndex(a) \in 1 .. Len(breakpoints)
        BY <2>2, BreakIndexFinds
      <3>2. breakpoints' = RemoveAt(breakpoints, BreakIndex(a))
        BY <1>2, <2>2 DEF RemoveBreakpoint
      <3> DEFINE k == BreakIndex(a)
                 n == Len(breakpoints)
      <3> HIDE DEF k
      <3>3. k \in 1 .. n /\ n \in Nat /\ n <= MaxBreak
        BY <3>1 DEF k
      <3>4. /\ breakpoints' \in Seq(Addr) /\ Len(breakpoints') = n - 1
            /\ \A j \in 1 .. n - 1 : breakpoints'[j] = breakpoints[IF j < k THEN j ELSE j + 1]
        BY <3>1, <3>2, RemoveAtShifts DEF k
      <3>5. Len(breakpoints') <= MaxBreak /\ DOMAIN breakpoints' = 1 .. n - 1
        BY <3>3, <3>4, MainAssumption DEF MainAssumption
      <3>6. ASSUME NEW i \in 1 .. n - 1, NEW j \in 1 .. n - 1, breakpoints'[i] = breakpoints'[j]
            PROVE  i = j
        <4> DEFINE from(x) == IF x < k THEN x ELSE x + 1
        <4>1. from(i) \in 1 .. n /\ from(j) \in 1 .. n
          BY <3>3
        <4>2. breakpoints[from(i)] = breakpoints[from(j)]
          BY <3>4, <3>6
        <4>3. from(i) = from(j)
          BY <4>1, <4>2 DEF BreakOK
        <4> QED BY <4>3, <3>3
      <3> QED BY <3>4, <3>5, <3>6
    <2> QED BY <2>1, <2>2
  <1> QED BY <1>1, <1>2

(* dbg_add_watchpoint and dbg_remove_watchpoint keep theirs. *)
LEMMA AddWatchpointKeepsThem ==
  ASSUME WatchOK, NEW a \in Addr, NEW ty \in WatchType, AddWatchpoint(a, ty)
  PROVE  WatchOK'
PROOF
  <1>0. /\ watchpoints \in Seq(Watch) /\ Len(watchpoints) <= MaxWatch
        /\ \A i, j \in DOMAIN watchpoints : watchpoints[i].addr = watchpoints[j].addr => i = j
    BY DEF WatchOK
  <1>1. CASE WatchIndex(a) = 0 /\ Len(watchpoints) >= MaxWatch
    BY <1>0, <1>1 DEF AddWatchpoint, WatchOK
  <1>2. CASE WatchIndex(a) = 0 /\ ~(Len(watchpoints) >= MaxWatch)
    <2> DEFINE new == [addr |-> a, type |-> ty]
    <2>1. \A i \in DOMAIN watchpoints : watchpoints[i].addr # a
      BY <1>0, <1>2, WatchIndexFinds
    <2>2. watchpoints' = Append(watchpoints, new)
      BY <1>2 DEF AddWatchpoint
    <2>3. new \in Watch /\ new.addr = a
      BY DEF Watch
    <2> HIDE DEF new
    <2>4. /\ watchpoints' \in Seq(Watch) /\ Len(watchpoints') = Len(watchpoints) + 1
          /\ \A i \in 1 .. Len(watchpoints) : watchpoints'[i] = watchpoints[i]
          /\ watchpoints'[Len(watchpoints) + 1] = new
      BY <1>0, <2>2, <2>3, AppendProperties
    <2>5. Len(watchpoints') <= MaxWatch
      BY <1>0, <1>2, <2>4, MainAssumption DEF MainAssumption
    <2> QED BY <1>0, <2>1, <2>3, <2>4, <2>5 DEF WatchOK
  <1>3. CASE WatchIndex(a) # 0
    <2> DEFINE k == WatchIndex(a)
               w == [watchpoints[k] EXCEPT !.type = ty]
    <2>1. k \in 1 .. Len(watchpoints)
      BY <1>0, <1>3, WatchIndexFinds
    <2>2. watchpoints' = [watchpoints EXCEPT ![k] = w]
      BY <1>3 DEF AddWatchpoint
    <2> HIDE DEF k
    <2>3. watchpoints[k] \in Watch
      BY <1>0, <2>1
    <2>4. w \in Watch /\ w.addr = watchpoints[k].addr
      BY <2>3 DEF Watch
    <2> HIDE DEF w
    <2>5. watchpoints' \in Seq(Watch) /\ Len(watchpoints') = Len(watchpoints)
      BY <1>0, <2>1, <2>2, <2>4, ExceptSeq
    <2>6. \A i \in DOMAIN watchpoints : watchpoints'[i].addr = watchpoints[i].addr
      BY <1>0, <2>1, <2>2, <2>4
    <2>7. DOMAIN watchpoints' = DOMAIN watchpoints
      BY <2>2
    <2> QED BY <1>0, <2>5, <2>6, <2>7 DEF WatchOK
  <1> QED BY <1>1, <1>2, <1>3

LEMMA RemoveWatchpointKeepsThem ==
  ASSUME WatchOK, NEW a \in Addr, RemoveWatchpoint(a)
  PROVE  WatchOK'
PROOF
  <1>0. /\ watchpoints \in Seq(Watch) /\ Len(watchpoints) <= MaxWatch
        /\ \A i, j \in DOMAIN watchpoints : watchpoints[i].addr = watchpoints[j].addr => i = j
    BY DEF WatchOK
  <1>1. CASE WatchIndex(a) = 0
    BY <1>0, <1>1 DEF RemoveWatchpoint, WatchOK
  <1>2. CASE WatchIndex(a) # 0
    <2> DEFINE k == WatchIndex(a)
               n == Len(watchpoints)
    <2>1. k \in 1 .. n /\ n \in Nat
      BY <1>0, <1>2, WatchIndexFinds
    <2>2. watchpoints' = RemoveAt(watchpoints, k)
      BY <1>2 DEF RemoveWatchpoint
    <2> HIDE DEF k
    <2>3. /\ watchpoints' \in Seq(Watch) /\ Len(watchpoints') = n - 1
          /\ \A j \in 1 .. n - 1 : watchpoints'[j] = watchpoints[IF j < k THEN j ELSE j + 1]
      BY <1>0, <2>1, <2>2, RemoveAtShifts
    <2>4. Len(watchpoints') <= MaxWatch /\ DOMAIN watchpoints' = 1 .. n - 1
      BY <1>0, <2>1, <2>3, MainAssumption DEF MainAssumption
    <2>5. ASSUME NEW i \in 1 .. n - 1, NEW j \in 1 .. n - 1,
                 watchpoints'[i].addr = watchpoints'[j].addr
          PROVE  i = j
      <3> DEFINE from(x) == IF x < k THEN x ELSE x + 1
      <3>1. from(i) \in 1 .. n /\ from(j) \in 1 .. n
        BY <2>1
      <3>2. watchpoints[from(i)].addr = watchpoints[from(j)].addr
        BY <2>3, <2>5
      <3>3. from(i) = from(j)
        BY <3>1, <3>2, <1>0
      <3> QED BY <3>3, <2>1
    <2> QED BY <2>3, <2>4, <2>5 DEF WatchOK
  <1> QED BY <1>1, <1>2

-----------------------------------------------------------------------------
(* The inductive step *)

TermType == [mode : Modes, raw : BOOLEAN, posixRaw : BOOLEAN, posixDbg : BOOLEAN,
             orig : Modes, saved : Modes]

(* TypeOK without the lists and the terminal. *)
FlagsOK ==
  /\ quitFlag \in BOOLEAN /\ stepMode \in BOOLEAN /\ repause \in BOOLEAN /\ emptyOk \in BOOLEAN
  /\ halted \in BOOLEAN /\ tapeSaved \in BOOLEAN /\ watchHit \in BOOLEAN

ValuesOK ==
  /\ opt \in Opts /\ loc \in Locations
  /\ signals \in 0 .. MaxSignals
  /\ pc \in Addr
  /\ prevPc \in Addr \cup {NoPc} /\ loopCount \in 0 .. 3
  /\ lastCmd \in {"none", "s", "c"} /\ executed \in 0 .. 2
  /\ leftFrom \in {"none", "loop", "prompt", "q", "pass", "fail"}

ScalarsOK == FlagsOK /\ ValuesOK /\ term \in TermType

LEMMA TypeParts == TypeOK /\ NoTrapTwice <=> ScalarsOK /\ BreakOK /\ WatchOK
  BY DEF TypeOK, NoTrapTwice, ScalarsOK, FlagsOK, ValuesOK, BreakOK, WatchOK, Watch, TermType

(* What io_init, io_cleanup and the debugger's terminal calls do to a terminal
   that is in the state they are called in. *)
LEMMA TermTypes ==
  ASSUME NEW t \in TermType
  PROVE  EnterRaw(t) \in TermType /\ Shutdown(t) \in TermType
         /\ EnterDbg(t) \in TermType /\ LeaveDbg(t) \in TermType
  BY DEF TermType, Modes, EnterRaw, Shutdown, EnterDbg, LeaveDbg

LEMMA ShutdownFinds ==
  ASSUME term \in TermType, RawTerm \/ FoundTerm
  PROVE  LET u == Shutdown(term)
         IN  u.mode = "cooked" /\ ~u.raw /\ ~u.posixRaw /\ ~u.posixDbg
  BY DEF TermType, Modes, RawTerm, FoundTerm, Shutdown

LEMMA DbgFromFound ==
  ASSUME term \in TermType, RawTerm \/ FoundTerm
  PROVE  LET u == EnterDbg(Shutdown(term))
         IN  u.mode = "dbg" /\ ~u.raw /\ ~u.posixRaw /\ u.posixDbg /\ u.saved = "cooked"
  BY DEF TermType, Modes, RawTerm, FoundTerm, Shutdown, EnterDbg

LEMMA RawFromDbg ==
  ASSUME term \in TermType, DbgTerm
  PROVE  LET u == EnterRaw(LeaveDbg(term))
         IN  u.mode = "raw" /\ u.raw /\ u.posixRaw /\ ~u.posixDbg /\ u.orig = "cooked"
  BY DEF TermType, Modes, DbgTerm, EnterRaw, LeaveDbg

LEMMA IInvInit == ASSUME Init PROVE IInv
PROOF
  <1>1. opt \in Options
    BY MainAssumption DEF Init, MainAssumption
  <1>2. FlagsOK
    <2>1. opt.debug \in BOOLEAN /\ opt.headless \in BOOLEAN
      BY <1>1 DEF Options
    <2> QED BY <2>1 DEF Init, FlagsOK
  <1>3. ValuesOK
    BY MainAssumption DEF Init, ValuesOK, MainAssumption, Locations
  <1>6. term \in TermType
    BY DEF Init, TermStart, EnterRaw, TermType, Modes
  <1>7. BreakOK /\ WatchOK
    <2>1. breakpoints = <<>> /\ watchpoints = <<>> /\ 0 <= MaxBreak /\ 0 <= MaxWatch
      BY MainAssumption DEF Init, MainAssumption
    <2> QED BY <2>1, EmptySeq DEF BreakOK, WatchOK
  <1>4. DebuggerOnly /\ StepPending /\ TrapPending
    BY DEF Init, DebuggerOnly, StepPending, TrapPending
  <1>5. TerminalKept /\ LoopCounted
    BY DEF Init, TerminalKept, LoopCounted, TermStart, EnterRaw, RawTerm
  <1> QED BY <1>2, <1>3, <1>4, <1>5, <1>6, <1>7, TypeParts DEF IInv, ScalarsOK

(* Only PromptEdit touches the lists. *)
LEMMA ListsStep ==
  ASSUME IInv, [Next]_vars
  PROVE  BreakOK' /\ WatchOK'
PROOF
  <1>1. BreakOK /\ WatchOK
    BY TypeParts DEF IInv
  <1>2. CASE PromptEdit
    <2>1. (\E a \in Addr : AddBreakpoint(a) \/ RemoveBreakpoint(a)) => BreakOK'
      BY <1>1, EditBreakpointsKeepsThem
    <2>2. (\E a \in Addr : RemoveWatchpoint(a) \/ \E ty \in WatchType : AddWatchpoint(a, ty)) => WatchOK'
      BY <1>1, AddWatchpointKeepsThem, RemoveWatchpointKeepsThem
    <2>3. breakpoints' = breakpoints \/ breakpoints' = <<>> => BreakOK'
      <3>1. Len(<<>>) <= MaxBreak /\ DOMAIN <<>> = {} /\ <<>> \in Seq(Addr)
        BY MainAssumption, EmptySeq DEF MainAssumption
      <3>2. breakpoints' = <<>> => BreakOK'
        BY <3>1 DEF BreakOK
      <3>3. breakpoints' = breakpoints => BreakOK'
        BY <1>1 DEF BreakOK
      <3> QED BY <3>2, <3>3
    <2>4. watchpoints' = watchpoints \/ watchpoints' = <<>> => WatchOK'
      <3>1. Len(<<>>) <= MaxWatch /\ DOMAIN <<>> = {} /\ <<>> \in Seq(Watch)
        BY MainAssumption, EmptySeq DEF MainAssumption
      <3>2. watchpoints' = <<>> => WatchOK'
        BY <3>1 DEF WatchOK
      <3>3. watchpoints' = watchpoints => WatchOK'
        BY <1>1 DEF WatchOK
      <3> QED BY <3>2, <3>3
    <2> QED BY <1>2, <2>1, <2>2, <2>3, <2>4, Zenon DEF PromptEdit
  <1>3. UNCHANGED <<breakpoints, watchpoints>> => BreakOK' /\ WatchOK'
    BY <1>1 DEF BreakOK, WatchOK
  <1>4. ASSUME ~PromptEdit PROVE UNCHANGED <<breakpoints, watchpoints>>
    BY <1>4 DEF Next, Loop, User, vars, dbgVars, Signal, Top, PollKeyboard, PollCtrlC, PollReset,
         KeyboardSignal, Check, SignalBeforeStep, Step, Repause, DetectTrap, CleanUp, PromptQuit,
         PromptExit, PromptStep, PromptContinue
  <1> QED BY <1>2, <1>3, <1>4

(* The rest of the invariant, one action at a time. *)
LEMMA LoopStep ==
  ASSUME IInv, [Next]_vars
  PROVE  /\ ScalarsOK'
         /\ DebuggerOnly' /\ StepPending' /\ TrapPending' /\ TerminalKept' /\ LoopCounted'
PROOF
  <1> DEFINE Goal == /\ ScalarsOK'
                     /\ DebuggerOnly' /\ StepPending' /\ TrapPending' /\ TerminalKept' /\ LoopCounted'
  <1>0. /\ FlagsOK /\ ValuesOK /\ term \in TermType /\ MaxSignals \in Nat
        /\ DebuggerOnly /\ StepPending /\ TrapPending /\ TerminalKept /\ LoopCounted
        /\ opt.debug \in BOOLEAN /\ opt.headless \in BOOLEAN /\ opt.tape \in BOOLEAN
    BY TypeParts, MainAssumption DEF IInv, ScalarsOK, ValuesOK, MainAssumption, Options
  <1> USE DEF dbgVars, cpuVars, trapVars, history, HasBreakpoint
  <1>1. CASE Signal
    <2>1. ScalarsOK'
      <3>1. FlagsOK'
        BY <1>0, <1>1 DEF FlagsOK, Signal
      <3>2. ValuesOK'
        BY <1>0, <1>1 DEF ValuesOK, Locations, Signal
      <3>3. term' \in TermType
        BY <1>0, <1>1, TermTypes DEF Signal
      <3> QED BY <3>1, <3>2, <3>3 DEF ScalarsOK
    <2>2. DebuggerOnly'
      BY <1>0, <1>1 DEF DebuggerOnly, Signal
    <2>3. StepPending'
      BY <1>0, <1>1 DEF ValuesOK, StepPending, DebuggerOnly, Signal
    <2>4. TrapPending'
      BY <1>0, <1>1 DEF TrapPending, DebuggerOnly, Signal
    <2>5. TerminalKept'
      BY <1>0, <1>1 DEF TerminalKept, RawTerm, DbgTerm, FoundTerm, Signal
    <2>6. LoopCounted'
      BY <1>0, <1>1 DEF ValuesOK, LoopCounted, Signal
    <2> QED BY <2>1, <2>2, <2>3, <2>4, <2>5, <2>6
  <1>2. CASE Top
    <2>1. ScalarsOK'
      <3>1. FlagsOK'
        BY <1>0, <1>2 DEF FlagsOK, Top
      <3>2. ValuesOK'
        BY <1>0, <1>2 DEF ValuesOK, Locations, Top
      <3>3. term' \in TermType
        BY <1>0, <1>2, TermTypes DEF Top
      <3> QED BY <3>1, <3>2, <3>3 DEF ScalarsOK
    <2>2. DebuggerOnly'
      BY <1>0, <1>2 DEF DebuggerOnly, Top
    <2>3. StepPending'
      BY <1>0, <1>2 DEF ValuesOK, StepPending, DebuggerOnly, Top
    <2>4. TrapPending'
      BY <1>0, <1>2 DEF TrapPending, DebuggerOnly, Top
    <2>5. TerminalKept'
      BY <1>0, <1>2 DEF TerminalKept, RawTerm, DbgTerm, FoundTerm, Top
    <2>6. LoopCounted'
      BY <1>0, <1>2 DEF ValuesOK, LoopCounted, Top
    <2> QED BY <2>1, <2>2, <2>3, <2>4, <2>5, <2>6
  <1>3. CASE PollKeyboard
    <2>1. ScalarsOK'
      <3>1. FlagsOK'
        BY <1>0, <1>3 DEF FlagsOK, PollKeyboard
      <3>2. ValuesOK'
        BY <1>0, <1>3 DEF ValuesOK, Locations, PollKeyboard
      <3>3. term' \in TermType
        BY <1>0, <1>3, TermTypes DEF PollKeyboard
      <3> QED BY <3>1, <3>2, <3>3 DEF ScalarsOK
    <2>2. DebuggerOnly'
      BY <1>0, <1>3 DEF DebuggerOnly, PollKeyboard
    <2>3. StepPending'
      BY <1>0, <1>3 DEF ValuesOK, StepPending, DebuggerOnly, PollKeyboard
    <2>4. TrapPending'
      BY <1>0, <1>3 DEF TrapPending, DebuggerOnly, PollKeyboard
    <2>5. TerminalKept'
      BY <1>0, <1>3 DEF TerminalKept, RawTerm, DbgTerm, FoundTerm, PollKeyboard
    <2>6. LoopCounted'
      BY <1>0, <1>3 DEF ValuesOK, LoopCounted, PollKeyboard
    <2> QED BY <2>1, <2>2, <2>3, <2>4, <2>5, <2>6
  <1>4. CASE PollCtrlC
    <2>1. ScalarsOK'
      <3>1. FlagsOK'
        BY <1>0, <1>4 DEF FlagsOK, PollCtrlC
      <3>2. ValuesOK'
        BY <1>0, <1>4 DEF ValuesOK, Locations, PollCtrlC
      <3>3. term' \in TermType
        BY <1>0, <1>4, TermTypes DEF PollCtrlC
      <3> QED BY <3>1, <3>2, <3>3 DEF ScalarsOK
    <2>2. DebuggerOnly'
      BY <1>0, <1>4 DEF DebuggerOnly, PollCtrlC
    <2>3. StepPending'
      BY <1>0, <1>4 DEF ValuesOK, StepPending, DebuggerOnly, PollCtrlC
    <2>4. TrapPending'
      BY <1>0, <1>4 DEF TrapPending, DebuggerOnly, PollCtrlC
    <2>5. TerminalKept'
      BY <1>0, <1>4, ShutdownFinds DEF TerminalKept, RawTerm, DbgTerm, FoundTerm, PollCtrlC
    <2>6. LoopCounted'
      BY <1>0, <1>4 DEF ValuesOK, LoopCounted, PollCtrlC
    <2> QED BY <2>1, <2>2, <2>3, <2>4, <2>5, <2>6
  <1>5. CASE PollReset
    <2>1. ScalarsOK'
      <3>1. FlagsOK'
        BY <1>0, <1>5 DEF FlagsOK, PollReset
      <3>2. ValuesOK'
        BY <1>0, <1>5 DEF ValuesOK, Locations, PollReset
      <3>3. term' \in TermType
        BY <1>0, <1>5, TermTypes DEF PollReset
      <3> QED BY <3>1, <3>2, <3>3 DEF ScalarsOK
    <2>2. DebuggerOnly'
      BY <1>0, <1>5 DEF DebuggerOnly, PollReset
    <2>3. StepPending'
      BY <1>0, <1>5 DEF ValuesOK, StepPending, DebuggerOnly, PollReset
    <2>4. TrapPending'
      BY <1>0, <1>5 DEF TrapPending, DebuggerOnly, PollReset
    <2>5. TerminalKept'
      BY <1>0, <1>5 DEF TerminalKept, RawTerm, DbgTerm, FoundTerm, PollReset
    <2>6. LoopCounted'
      BY <1>0, <1>5 DEF ValuesOK, LoopCounted, PollReset
    <2> QED BY <2>1, <2>2, <2>3, <2>4, <2>5, <2>6
  <1>6. CASE KeyboardSignal
    <2>1. ScalarsOK'
      <3>1. FlagsOK'
        BY <1>0, <1>6 DEF FlagsOK, KeyboardSignal, TakeSignal
      <3>2. ValuesOK'
        BY <1>0, <1>6 DEF ValuesOK, Locations, KeyboardSignal, TakeSignal
      <3>3. term' \in TermType
        BY <1>0, <1>6, TermTypes DEF KeyboardSignal, TakeSignal
      <3> QED BY <3>1, <3>2, <3>3 DEF ScalarsOK
    <2>2. DebuggerOnly'
      BY <1>0, <1>6 DEF DebuggerOnly, KeyboardSignal, TakeSignal
    <2>3. StepPending'
      BY <1>0, <1>6 DEF ValuesOK, StepPending, DebuggerOnly, KeyboardSignal, TakeSignal
    <2>4. TrapPending'
      BY <1>0, <1>6 DEF TrapPending, DebuggerOnly, KeyboardSignal, TakeSignal
    <2>5. TerminalKept'
      BY <1>0, <1>6 DEF TerminalKept, RawTerm, DbgTerm, FoundTerm, KeyboardSignal, TakeSignal
    <2>6. LoopCounted'
      BY <1>0, <1>6 DEF ValuesOK, LoopCounted, KeyboardSignal, TakeSignal
    <2> QED BY <2>1, <2>2, <2>3, <2>4, <2>5, <2>6
  <1>7. CASE Check
    <2>1. ScalarsOK'
      <3>1. FlagsOK'
        BY <1>0, <1>7 DEF FlagsOK, Check, OpenPrompt, MustStop
      <3>2. ValuesOK'
        BY <1>0, <1>7 DEF ValuesOK, Locations, Check, OpenPrompt, MustStop
      <3>3. term' \in TermType
        BY <1>0, <1>7, TermTypes DEF Check, OpenPrompt, MustStop
      <3> QED BY <3>1, <3>2, <3>3 DEF ScalarsOK
    <2>2. DebuggerOnly'
      BY <1>0, <1>7 DEF DebuggerOnly, Check, OpenPrompt, MustStop
    <2>3. StepPending'
      BY <1>0, <1>7 DEF ValuesOK, StepPending, DebuggerOnly, Check, OpenPrompt, MustStop
    <2>4. TrapPending'
      BY <1>0, <1>7 DEF TrapPending, DebuggerOnly, Check, OpenPrompt, MustStop
    <2>5. TerminalKept'
      BY <1>0, <1>7, DbgFromFound DEF TerminalKept, RawTerm, DbgTerm, FoundTerm, Check, OpenPrompt, MustStop
    <2>6. LoopCounted'
      BY <1>0, <1>7 DEF ValuesOK, LoopCounted, Check, OpenPrompt
    <2> QED BY <2>1, <2>2, <2>3, <2>4, <2>5, <2>6
  <1>8. CASE SignalBeforeStep
    <2>1. ScalarsOK'
      <3>1. FlagsOK'
        BY <1>0, <1>8 DEF FlagsOK, SignalBeforeStep, TakeSignal
      <3>2. ValuesOK'
        BY <1>0, <1>8 DEF ValuesOK, Locations, SignalBeforeStep, TakeSignal
      <3>3. term' \in TermType
        BY <1>0, <1>8, TermTypes DEF SignalBeforeStep, TakeSignal
      <3> QED BY <3>1, <3>2, <3>3 DEF ScalarsOK
    <2>2. DebuggerOnly'
      BY <1>0, <1>8 DEF DebuggerOnly, SignalBeforeStep, TakeSignal
    <2>3. StepPending'
      BY <1>0, <1>8 DEF ValuesOK, StepPending, DebuggerOnly, SignalBeforeStep, TakeSignal
    <2>4. TrapPending'
      BY <1>0, <1>8 DEF TrapPending, DebuggerOnly, SignalBeforeStep, TakeSignal
    <2>5. TerminalKept'
      BY <1>0, <1>8 DEF TerminalKept, RawTerm, DbgTerm, FoundTerm, SignalBeforeStep, TakeSignal
    <2>6. LoopCounted'
      BY <1>0, <1>8 DEF ValuesOK, LoopCounted, SignalBeforeStep, TakeSignal
    <2> QED BY <2>1, <2>2, <2>3, <2>4, <2>5, <2>6
  <1>9. CASE Step
    <2>1. ScalarsOK'
      <3>1. FlagsOK'
        BY <1>0, <1>9 DEF FlagsOK, Step, TrapWatch, Watched
      <3>2. ValuesOK'
        <4>1. pc' \in Addr
          BY <1>0, <1>9 DEF ValuesOK, Step
        <4>2. executed' \in 0 .. 2
          <5>1. executed \in 0 .. 2 /\ executed' = IF executed < 2 THEN executed + 1 ELSE executed
            BY <1>0, <1>9 DEF ValuesOK, Step
          <5> QED BY <5>1
        <4> QED BY <1>0, <1>9, <4>1, <4>2 DEF ValuesOK, Locations, Step
      <3>3. term' \in TermType
        BY <1>0, <1>9, TermTypes DEF Step, TrapWatch, Watched
      <3> QED BY <3>1, <3>2, <3>3 DEF ScalarsOK
    <2>2. DebuggerOnly'
      <3>1. ~opt.debug => \A a, k : ~Watched(a, k)
        BY <1>0 DEF DebuggerOnly, Watched
      <3> HIDE DEF HasBreakpoint
      <3>2. ~opt.debug => ~watchHit'
        BY <1>0, <1>9, <3>1, Zenon DEF DebuggerOnly, Step
      <3> QED BY <1>0, <1>9, <3>2 DEF DebuggerOnly, Step
    <2>3. StepPending'
      BY <1>0, <1>9 DEF ValuesOK, StepPending, DebuggerOnly, Step, TrapWatch, Watched
    <2>4. TrapPending'
      BY <1>0, <1>9 DEF TrapPending, DebuggerOnly, Step, TrapWatch, Watched
    <2>5. TerminalKept'
      BY <1>0, <1>9 DEF TerminalKept, RawTerm, DbgTerm, FoundTerm, Step, TrapWatch, Watched
    <2>6. LoopCounted'
      BY <1>0, <1>9 DEF ValuesOK, LoopCounted, Step
    <2> QED BY <2>1, <2>2, <2>3, <2>4, <2>5, <2>6
  <1>10. CASE Repause
    <2>1. ScalarsOK'
      <3>1. FlagsOK'
        BY <1>0, <1>10 DEF FlagsOK, Repause, OpenPrompt, Repausing
      <3>2. ValuesOK'
        BY <1>0, <1>10 DEF ValuesOK, Locations, Repause, OpenPrompt, Repausing
      <3>3. term' \in TermType
        BY <1>0, <1>10, TermTypes DEF Repause, OpenPrompt, Repausing
      <3> QED BY <3>1, <3>2, <3>3 DEF ScalarsOK
    <2>2. DebuggerOnly'
      BY <1>0, <1>10 DEF DebuggerOnly, Repause, OpenPrompt, Repausing
    <2>3. StepPending'
      BY <1>0, <1>10 DEF ValuesOK, StepPending, DebuggerOnly, Repause, OpenPrompt, Repausing
    <2>4. TrapPending'
      BY <1>0, <1>10 DEF TrapPending, DebuggerOnly, Repause, OpenPrompt, Repausing
    <2>5. TerminalKept'
      BY <1>0, <1>10, DbgFromFound DEF TerminalKept, RawTerm, DbgTerm, FoundTerm, Repause, OpenPrompt, Repausing
    <2>6. LoopCounted'
      BY <1>0, <1>10 DEF ValuesOK, LoopCounted, Repause, OpenPrompt
    <2> QED BY <2>1, <2>2, <2>3, <2>4, <2>5, <2>6
  <1>11. CASE DetectTrap
    <2>1. ScalarsOK'
      <3>1. FlagsOK'
        BY <1>0, <1>11 DEF FlagsOK, DetectTrap, Trapped
      <3>2. ValuesOK'
        <4>1. loopCount' \in 0 .. 3 /\ prevPc' \in Addr \cup {NoPc}
          BY <1>0, <1>11 DEF ValuesOK, LoopCounted, DetectTrap, Trapped
        <4> QED BY <1>0, <1>11, <4>1 DEF ValuesOK, Locations, DetectTrap
      <3>3. term' \in TermType
        BY <1>0, <1>11, TermTypes DEF DetectTrap, Trapped
      <3> QED BY <3>1, <3>2, <3>3 DEF ScalarsOK
    <2>2. DebuggerOnly'
      BY <1>0, <1>11 DEF DebuggerOnly, DetectTrap, Trapped
    <2>3. StepPending'
      BY <1>0, <1>11 DEF ValuesOK, StepPending, DebuggerOnly, DetectTrap, Trapped
    <2>4. TrapPending'
      BY <1>0, <1>11 DEF TrapPending, DebuggerOnly, DetectTrap, Trapped
    <2>5. TerminalKept'
      BY <1>0, <1>11 DEF TerminalKept, RawTerm, DbgTerm, FoundTerm, DetectTrap, Trapped
    <2>6. LoopCounted'
      BY <1>0, <1>11 DEF ValuesOK, LoopCounted, DetectTrap, Trapped
    <2> QED BY <2>1, <2>2, <2>3, <2>4, <2>5, <2>6
  <1>12. CASE CleanUp
    <2>1. ScalarsOK'
      <3>1. FlagsOK'
        BY <1>0, <1>12 DEF FlagsOK, CleanUp
      <3>2. ValuesOK'
        BY <1>0, <1>12 DEF ValuesOK, Locations, CleanUp
      <3>3. term' \in TermType
        BY <1>0, <1>12, TermTypes DEF CleanUp
      <3> QED BY <3>1, <3>2, <3>3 DEF ScalarsOK
    <2>2. DebuggerOnly'
      BY <1>0, <1>12 DEF DebuggerOnly, CleanUp
    <2>3. StepPending'
      BY <1>0, <1>12 DEF ValuesOK, StepPending, DebuggerOnly, CleanUp
    <2>4. TrapPending'
      BY <1>0, <1>12 DEF TrapPending, DebuggerOnly, CleanUp
    <2>5. TerminalKept'
      BY <1>0, <1>12, ShutdownFinds DEF TerminalKept, RawTerm, DbgTerm, FoundTerm, CleanUp
    <2>6. LoopCounted'
      BY <1>0, <1>12 DEF ValuesOK, LoopCounted, CleanUp
    <2> QED BY <2>1, <2>2, <2>3, <2>4, <2>5, <2>6
  <1>13. CASE PromptQuit
    <2>1. ScalarsOK'
      <3>1. FlagsOK'
        BY <1>0, <1>13 DEF FlagsOK, PromptQuit
      <3>2. ValuesOK'
        BY <1>0, <1>13 DEF ValuesOK, Locations, PromptQuit
      <3>3. term' \in TermType
        BY <1>0, <1>13, TermTypes DEF PromptQuit
      <3> QED BY <3>1, <3>2, <3>3 DEF ScalarsOK
    <2>2. DebuggerOnly'
      BY <1>0, <1>13 DEF DebuggerOnly, PromptQuit
    <2>3. StepPending'
      BY <1>0, <1>13 DEF ValuesOK, StepPending, DebuggerOnly, PromptQuit
    <2>4. TrapPending'
      BY <1>0, <1>13 DEF TrapPending, DebuggerOnly, PromptQuit
    <2>5. TerminalKept'
      BY <1>0, <1>13 DEF TerminalKept, RawTerm, DbgTerm, FoundTerm, PromptQuit
    <2>6. LoopCounted'
      BY <1>0, <1>13 DEF ValuesOK, LoopCounted, PromptQuit
    <2> QED BY <2>1, <2>2, <2>3, <2>4, <2>5, <2>6
  <1>14. CASE PromptExit
    <2>1. ScalarsOK'
      <3>1. FlagsOK'
        BY <1>0, <1>14 DEF FlagsOK, PromptExit, AtPrompt
      <3>2. ValuesOK'
        BY <1>0, <1>14 DEF ValuesOK, Locations, PromptExit, AtPrompt
      <3>3. term' \in TermType
        BY <1>0, <1>14, TermTypes DEF PromptExit, AtPrompt
      <3> QED BY <3>1, <3>2, <3>3 DEF ScalarsOK
    <2>2. DebuggerOnly'
      BY <1>0, <1>14 DEF DebuggerOnly, PromptExit, AtPrompt
    <2>3. StepPending'
      BY <1>0, <1>14 DEF ValuesOK, StepPending, DebuggerOnly, PromptExit, AtPrompt
    <2>4. TrapPending'
      BY <1>0, <1>14 DEF TrapPending, DebuggerOnly, PromptExit, AtPrompt
    <2>5. TerminalKept'
      BY <1>0, <1>14 DEF TerminalKept, RawTerm, DbgTerm, FoundTerm, PromptExit, AtPrompt
    <2>6. LoopCounted'
      BY <1>0, <1>14 DEF ValuesOK, LoopCounted, PromptExit
    <2> QED BY <2>1, <2>2, <2>3, <2>4, <2>5, <2>6
  <1>15. CASE PromptStep
    <2>1. ScalarsOK'
      <3>1. FlagsOK'
        BY <1>0, <1>15 DEF FlagsOK, PromptStep, AtPrompt, Resume
      <3>2. ValuesOK'
        BY <1>0, <1>15 DEF ValuesOK, Locations, PromptStep, AtPrompt, Resume
      <3>3. term' \in TermType
        BY <1>0, <1>15, TermTypes DEF PromptStep, AtPrompt, Resume
      <3> QED BY <3>1, <3>2, <3>3 DEF ScalarsOK
    <2>2. DebuggerOnly'
      BY <1>0, <1>15 DEF DebuggerOnly, PromptStep, AtPrompt, Resume
    <2>3. StepPending'
      BY <1>0, <1>15 DEF ValuesOK, StepPending, DebuggerOnly, PromptStep, AtPrompt, Resume
    <2>4. TrapPending'
      BY <1>0, <1>15 DEF TrapPending, DebuggerOnly, PromptStep, AtPrompt, Resume
    <2>5. TerminalKept'
      BY <1>0, <1>15, RawFromDbg DEF TerminalKept, RawTerm, DbgTerm, FoundTerm, PromptStep, AtPrompt, Resume
    <2>6. LoopCounted'
      BY <1>0, <1>15 DEF ValuesOK, LoopCounted, PromptStep, AtPrompt, Resume
    <2> QED BY <2>1, <2>2, <2>3, <2>4, <2>5, <2>6
  <1>16. CASE PromptContinue
    <2>1. ScalarsOK'
      <3>1. FlagsOK'
        BY <1>0, <1>16 DEF FlagsOK, PromptContinue, AtPrompt, Resume
      <3>2. ValuesOK'
        BY <1>0, <1>16 DEF ValuesOK, Locations, PromptContinue, AtPrompt, Resume
      <3>3. term' \in TermType
        BY <1>0, <1>16, TermTypes DEF PromptContinue, AtPrompt, Resume
      <3> QED BY <3>1, <3>2, <3>3 DEF ScalarsOK
    <2>2. DebuggerOnly'
      BY <1>0, <1>16 DEF DebuggerOnly, PromptContinue, AtPrompt, Resume
    <2>3. StepPending'
      BY <1>0, <1>16 DEF ValuesOK, StepPending, DebuggerOnly, PromptContinue, AtPrompt, Resume
    <2>4. TrapPending'
      BY <1>0, <1>16 DEF TrapPending, DebuggerOnly, PromptContinue, AtPrompt, Resume
    <2>5. TerminalKept'
      BY <1>0, <1>16, RawFromDbg DEF TerminalKept, RawTerm, DbgTerm, FoundTerm, PromptContinue, AtPrompt, Resume
    <2>6. LoopCounted'
      BY <1>0, <1>16 DEF ValuesOK, LoopCounted, PromptContinue, AtPrompt, Resume
    <2> QED BY <2>1, <2>2, <2>3, <2>4, <2>5, <2>6
  <1>17. CASE PromptEdit
    <2>1. ScalarsOK'
      <3>1. FlagsOK'
        BY <1>0, <1>17 DEF FlagsOK, PromptEdit, AtPrompt
      <3>2. ValuesOK'
        BY <1>0, <1>17 DEF ValuesOK, Locations, PromptEdit, AtPrompt
      <3>3. term' \in TermType
        BY <1>0, <1>17, TermTypes DEF PromptEdit, AtPrompt
      <3> QED BY <3>1, <3>2, <3>3 DEF ScalarsOK
    <2>2. DebuggerOnly'
      BY <1>0, <1>17 DEF DebuggerOnly, PromptEdit, AtPrompt
    <2>3. StepPending'
      BY <1>0, <1>17 DEF ValuesOK, StepPending, DebuggerOnly, PromptEdit, AtPrompt
    <2>4. TrapPending'
      BY <1>0, <1>17 DEF TrapPending, DebuggerOnly, PromptEdit, AtPrompt
    <2>5. TerminalKept'
      BY <1>0, <1>17 DEF TerminalKept, RawTerm, DbgTerm, FoundTerm, PromptEdit, AtPrompt
    <2>6. LoopCounted'
      BY <1>0, <1>17 DEF ValuesOK, LoopCounted, PromptEdit
    <2> QED BY <2>1, <2>2, <2>3, <2>4, <2>5, <2>6
  <1>18. CASE UNCHANGED vars
    BY <1>0, <1>18 DEF vars, ScalarsOK, FlagsOK, ValuesOK, DebuggerOnly, StepPending, TrapPending, TerminalKept, LoopCounted, RawTerm, DbgTerm, FoundTerm
  <1> QED BY <1>1, <1>2, <1>3, <1>4, <1>5, <1>6, <1>7, <1>8, <1>9,
           <1>10, <1>11, <1>12, <1>13, <1>14, <1>15, <1>16, <1>17, <1>18 DEF Next, Loop, User

LEMMA IInvStep == ASSUME IInv, [Next]_vars PROVE IInv'
PROOF
  <1>1. (ScalarsOK /\ BreakOK /\ WatchOK)' => (TypeOK /\ NoTrapTwice)'
    BY TypeParts, PTL
  <1> QED BY <1>1, ListsStep, LoopStep DEF IInv

-----------------------------------------------------------------------------
(* What the main loop guarantees, for every run. *)

THEOREM InductiveInvariant == Spec => []IInv
PROOF
  <1>1. Init => IInv
    BY IInvInit
  <1>2. IInv /\ [Next]_vars => IInv'
    BY IInvStep
  <1> QED BY <1>1, <1>2, PTL DEF Spec

(* Every variable keeps its type; the debugger's lists never outgrow their arrays. *)
THEOREM TypeCorrect == Spec => []TypeOK
PROOF
  <1>1. IInv => TypeOK
    BY DEF IInv
  <1> QED BY <1>1, InductiveInvariant, PTL

(* dbg.c's 's' runs at most one instruction before the prompt is back. *)
THEOREM SingleStepIsSingle == Spec => []StepRunsOne
PROOF
  <1>1. IInv => StepRunsOne
    BY DEF IInv, StepPending, StepRunsOne
  <1> QED BY <1>1, InductiveInvariant, PTL

(* dbg.c's lists hold no address twice, however they are edited. *)
THEOREM TrapsAreDistinct == Spec => []NoTrapTwice
PROOF
  <1>1. IInv => NoTrapTwice
    BY DEF IInv
  <1> QED BY <1>1, InductiveInvariant, PTL

(* The host terminal is in the mode its user needs, and restored in the end. *)
THEOREM TerminalIsMatched == Spec => []TerminalMatches
PROOF
  <1>1. IInv => TerminalMatches
    BY DEF IInv, TerminalKept, TerminalMatches, RawTerm, DbgTerm
  <1> QED BY <1>1, InductiveInvariant, PTL

(* No instruction runs at a breakpoint or past a hit watchpoint unseen. *)
THEOREM TrapsAreHeld == Spec => TrapsHold
PROOF
  <1>1. IInv /\ [Next]_vars => [Step => ~watchHit /\ ~(opt.debug /\ HasBreakpoint(pc))]_vars
    BY DEF IInv, TrapPending, Step
  <1> QED BY <1>1, InductiveInvariant, PTL DEF Spec, TrapsHold

=============================================================================
