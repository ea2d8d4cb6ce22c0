----------------------------- MODULE Apple1Main -----------------------------
(***************************************************************************)
(* The main loop, the interactive debugger, the host terminal's modes and  *)
(* SIGINT.  The loop is sequential; the signal handler only sets           *)
(* g_quit_flag, at any time, so the loop is cut into the stretches between *)
(* two tests of that flag (loc), and a signal may arrive between any two.  *)
(* The guest is whatever its program is: an instruction moves the program  *)
(* counter anywhere and accesses any address.                              *)
(***************************************************************************)
EXTENDS Integers, Sequences, SequencesExt

CONSTANTS
  Addr,        (* Guest addresses, enough to tell apart those that matter. *)
  Opts,        (* Command lines: records [headless, debug, flat, tape].    *)
  MaxBreak,    (* APPLE1_MAX_BREAKPOINTS                                   *)
  MaxWatch,    (* APPLE1_MAX_WATCHPOINTS                                   *)
  MaxSignals,  (* Bound: how many SIGINTs and ^C keys arrive.              *)
  PassPc,      (* The address of Dormann's success loop ($3469).           *)
  NoPc         (* The initial prev_pc, where no trap loop is.              *)

Options == [headless : BOOLEAN, debug : BOOLEAN, flat : BOOLEAN, tape : BOOLEAN]
Access  == {"r", "w"}
WatchType == {{"r"}, {"w"}, {"r", "w"}}   (* WP_READ, WP_WRITE, WP_ACCESS *)

ASSUME MainAssumption ==
  /\ Opts \subseteq Options
  /\ MaxBreak \in Nat \ {0} /\ MaxWatch \in Nat \ {0} /\ MaxSignals \in Nat
  /\ NoPc \notin Addr

VARIABLES
  opt,          (* The command line.                                        *)
  loc,          (* Where the main loop is.                                  *)
  quitFlag,     (* g_quit_flag                                              *)
  signals,      (* How many interrupts have arrived (bounded).              *)
  stepMode,     (* dbg.step_mode                                            *)
  repause,      (* dbg.repause                                              *)
  emptyOk,      (* empty_step_ok of the running dbg_interactive_loop        *)
  breakpoints,  (* dbg.breakpoints[0 .. num_breakpoints - 1]                *)
  watchpoints,  (* dbg.watchpoints[0 .. num_watchpoints - 1]                *)
  pc,           (* cpu.pc                                                   *)
  halted,       (* cpu.halted                                               *)
  prevPc, loopCount,  (* The trap detector of flat headless runs.           *)
  term,         (* The host terminal and what was saved of its settings.    *)
  tapeSaved,    (* The recorded tape has been handed to aci_save_tape.      *)
  lastCmd,      (* History: how the last prompt was left: "s", "c", "none". *)
  executed,     (* History: instructions since then, counted up to 2.       *)
  watchHit,     (* History: the last instruction hit a watchpoint.          *)
  leftFrom      (* History: where the program ended from.                   *)

dbgVars  == <<stepMode, repause, breakpoints, watchpoints>>
cpuVars  == <<pc, halted>>
trapVars == <<prevPc, loopCount>>
history  == <<lastCmd, executed, watchHit>>
vars == <<opt, loc, quitFlag, signals, dbgVars, emptyOk, cpuVars, trapVars, term,
          tapeSaved, history, leftFrom>>

-----------------------------------------------------------------------------
(* The host terminal.  raw is term_ansi.c's raw_mode_active; posixRaw and
   posixDbg are port_posix.c's flags, orig and saved the settings each keeps.
   Standard input is a terminal. *)

Modes == {"cooked", "raw", "dbg"}

TermStart == [mode |-> "cooked", raw |-> FALSE, posixRaw |-> FALSE, posixDbg |-> FALSE,
              orig |-> "cooked", saved |-> "cooked"]

(* io_init *)
EnterRaw(t) == [t EXCEPT !.orig = t.mode, !.mode = "raw", !.posixRaw = TRUE, !.raw = TRUE]

(* io_cleanup: only a terminal that term_init made raw is restored. *)
Shutdown(t) ==
  IF ~t.raw THEN t
  ELSE IF t.posixRaw THEN [t EXCEPT !.raw = FALSE, !.mode = t.orig, !.posixRaw = FALSE]
  ELSE [t EXCEPT !.raw = FALSE]

EnterDbg(t) == [t EXCEPT !.saved = t.mode, !.mode = "dbg", !.posixDbg = TRUE]
(* Mutant: the prompt's terminal settings stay when it is left. *)
StayDbg(t) == t

LeaveDbg(t) == IF t.posixDbg THEN [t EXCEPT !.mode = t.saved, !.posixDbg = FALSE] ELSE t

-----------------------------------------------------------------------------
(* The debugger's lists: arrays with a length, deleted by shifting down. *)

HasBreakpoint(a) == \E i \in DOMAIN breakpoints : breakpoints[i] = a

(* Mutant: a breakpoint is added whether or not it is there. *)
AddBlindly(a) ==
  breakpoints' = IF Len(breakpoints) >= MaxBreak THEN breakpoints ELSE Append(breakpoints, a)

AddBreakpoint(a) ==
  breakpoints' = IF HasBreakpoint(a) \/ Len(breakpoints) >= MaxBreak
                   THEN breakpoints ELSE Append(breakpoints, a)

BreakIndex(a) == SelectInSeq(breakpoints, LAMBDA b : b = a)

RemoveBreakpoint(a) ==
  breakpoints' = IF BreakIndex(a) = 0 THEN breakpoints
                 ELSE RemoveAt(breakpoints, BreakIndex(a))

WatchIndex(a) == SelectInSeq(watchpoints, LAMBDA w : w.addr = a)

(* Mutant: a new watchpoint is stored past the end of the list. *)
AddPastEnd(a, ty) ==
  LET i == WatchIndex(a)
  IN  watchpoints' = IF i # 0 THEN [watchpoints EXCEPT ![i].type = ty]
                     ELSE Append(watchpoints, [addr |-> a, type |-> ty])

AddWatchpoint(a, ty) ==
  LET i == WatchIndex(a)
  IN  watchpoints' = IF i # 0 THEN [watchpoints EXCEPT ![i].type = ty]
                     ELSE IF Len(watchpoints) >= MaxWatch THEN watchpoints
                     ELSE Append(watchpoints, [addr |-> a, type |-> ty])

RemoveWatchpoint(a) ==
  watchpoints' = IF WatchIndex(a) = 0 THEN watchpoints
                 ELSE RemoveAt(watchpoints, WatchIndex(a))

(* dbg_check_access, for an access of kind k to address a *)
Watched(a, k) == \E i \in DOMAIN watchpoints : watchpoints[i].addr = a /\ k \in watchpoints[i].type

-----------------------------------------------------------------------------
(* Start: with -g or -H the CPU is reset, otherwise it stays halted until
   RESET is pressed; with -g the loop starts at the prompt. *)

Init ==
  /\ opt \in Opts
  /\ loc = "top"
  /\ quitFlag = FALSE /\ signals = 0
  /\ stepMode = opt.debug /\ repause = FALSE /\ emptyOk = FALSE
  /\ breakpoints = <<>> /\ watchpoints = <<>>
  /\ pc \in Addr /\ halted = ~(opt.debug \/ opt.headless)
  /\ prevPc = NoPc /\ loopCount = 0
  /\ term = IF opt.headless THEN TermStart ELSE EnterRaw(TermStart)
  /\ tapeSaved = FALSE
  /\ lastCmd = "none" /\ executed = 0 /\ watchHit = FALSE /\ leftFrom = "none"

(* SIGINT: the handler sets the flag, wherever the loop is. *)
Signal ==
  /\ loc # "exited"
  /\ signals < MaxSignals
  /\ quitFlag' = TRUE
  /\ signals' = signals + 1
  /\ UNCHANGED <<opt, loc, dbgVars, emptyOk, cpuVars, trapVars, term, tapeSaved, history, leftFrom>>

(* main.c:879, the test at the head of the loop: it ends the program, -g or not. *)
Top ==
  /\ loc = "top"
  /\ quitFlag' = FALSE
  /\ IF quitFlag THEN loc' = "exit" /\ leftFrom' = "loop"
     ELSE loc' = (IF opt.headless THEN "check" ELSE "keyboard") /\ UNCHANGED leftFrom
  /\ UNCHANGED <<opt, signals, dbgVars, emptyOk, cpuVars, trapVars, term, tapeSaved, history>>

(* process_sigint_dbg: with -g the flag becomes a request for the prompt. *)
TakeSignal(next) ==
  /\ quitFlag' = FALSE
  /\ IF quitFlag /\ ~opt.debug
       THEN loc' = "exit" /\ leftFrom' = "loop" /\ UNCHANGED stepMode
       ELSE loc' = next /\ stepMode' = (stepMode \/ quitFlag) /\ UNCHANGED leftFrom

(* main.c:884-896: nothing, or another key. *)
PollKeyboard ==
  /\ loc = "keyboard"
  /\ loc' = "kbdsig"
  /\ UNCHANGED <<opt, quitFlag, signals, dbgVars, emptyOk, cpuVars, trapVars, term, tapeSaved,
                 history, leftFrom>>

(* ^C: term_poll raises the flag and restores the terminal. *)
PollCtrlC ==
  /\ loc = "keyboard"
  /\ signals < MaxSignals
  /\ loc' = "kbdsig"
  /\ quitFlag' = TRUE
  /\ signals' = signals + 1
  /\ term' = Shutdown(term)
  /\ UNCHANGED <<opt, dbgVars, emptyOk, cpuVars, trapVars, tapeSaved, history, leftFrom>>

(* ^R: the CPU restarts at its reset vector. *)
PollReset ==
  /\ loc = "keyboard"
  /\ loc' = "kbdsig"
  /\ pc' \in Addr
  /\ halted' = FALSE
  /\ UNCHANGED <<opt, quitFlag, signals, dbgVars, emptyOk, trapVars, term, tapeSaved, history, leftFrom>>

KeyboardSignal ==
  /\ loc = "kbdsig"
  /\ TakeSignal("check")
  /\ UNCHANGED <<opt, signals, repause, breakpoints, watchpoints, emptyOk, cpuVars, trapVars,
                 term, tapeSaved, history>>

(* Mutant: the loop head looks at step_mode only. *)
StopOnlyInStepMode == opt.debug /\ stepMode

(* main.c:910-912 *)
MustStop == opt.debug /\ (stepMode \/ HasBreakpoint(pc))

(* dbg_interactive_loop starts: it takes the terminal. *)
OpenPrompt ==
  /\ loc' = "prompt"
  /\ term' = IF opt.headless THEN term ELSE EnterDbg(Shutdown(term))
  /\ watchHit' = FALSE

Check ==
  /\ loc = "check"
  /\ IF MustStop
       THEN OpenPrompt /\ emptyOk' = stepMode /\ stepMode' = FALSE
       ELSE loc' = "signal" /\ UNCHANGED <<term, emptyOk, stepMode, watchHit>>
  /\ UNCHANGED <<opt, quitFlag, signals, repause, breakpoints, watchpoints, cpuVars, trapVars,
                 tapeSaved, lastCmd, executed, leftFrom>>

SignalBeforeStep ==
  /\ loc = "signal"
  /\ TakeSignal("step")
  /\ UNCHANGED <<opt, signals, repause, breakpoints, watchpoints, emptyOk, cpuVars, trapVars,
                 term, tapeSaved, history>>

(* Mutant: the access callback ignores what it finds. *)
IgnoreWatch(hit) == stepMode' = stepMode

(* dbg_check_access asks for the prompt. *)
TrapWatch(hit) == stepMode' = (stepMode \/ hit)

(* main.c:981-1002.  A halted CPU does nothing; a JAM opcode halts it. *)
Step ==
  /\ loc = "step"
  /\ loc' = "repause"
  /\ IF halted THEN UNCHANGED <<cpuVars, stepMode, watchHit>>
     ELSE /\ pc' \in Addr
          /\ halted' \in BOOLEAN
          /\ \E a \in Addr, k \in Access :
               TrapWatch(Watched(a, k)) /\ watchHit' = Watched(a, k)
  /\ executed' = IF executed < 2 THEN executed + 1 ELSE executed
  /\ UNCHANGED <<opt, quitFlag, signals, repause, breakpoints, watchpoints, emptyOk, trapVars,
                 term, tapeSaved, lastCmd, leftFrom>>

(* Mutant: the single-step request is not looked at after the instruction. *)
NeverRepause == FALSE

Repausing == opt.debug /\ repause

(* main.c:1004-1013 *)
Repause ==
  /\ loc = "repause"
  /\ IF Repausing
       THEN OpenPrompt /\ repause' = FALSE /\ emptyOk' = FALSE
       ELSE loc' = "trap" /\ UNCHANGED <<term, repause, emptyOk, watchHit>>
  /\ UNCHANGED <<opt, quitFlag, signals, stepMode, breakpoints, watchpoints, cpuVars, trapVars,
                 tapeSaved, lastCmd, executed, leftFrom>>

(* main.c:1016-1046; the throttle and the repaint after it change nothing here.
   Three steps at one address end a flat headless run. *)
Trapped == loopCount + 1 >= 3

DetectTrap ==
  /\ loc = "trap"
  /\ IF ~(opt.flat /\ opt.headless)
       THEN loc' = "top" /\ UNCHANGED <<trapVars, tapeSaved, leftFrom>>
       ELSE IF pc = prevPc /\ Trapped
       THEN /\ loc' = "exited" /\ leftFrom' = (IF pc = PassPc THEN "pass" ELSE "fail")
            /\ tapeSaved' = opt.tape
            /\ loopCount' = loopCount + 1 /\ UNCHANGED prevPc
       ELSE /\ loc' = "top"
            /\ loopCount' = (IF pc = prevPc THEN loopCount + 1 ELSE 0)
            /\ prevPc' = pc /\ UNCHANGED <<tapeSaved, leftFrom>>
  /\ UNCHANGED <<opt, quitFlag, signals, dbgVars, emptyOk, cpuVars, term, history>>

-----------------------------------------------------------------------------
(* The prompt *)

AtPrompt == loc = "prompt" /\ ~quitFlag

(* Mutant: the prompt waits for a line and never looks at the flag. *)
QuitAtEndOfInput ==
  /\ loc = "prompt" /\ ~quitFlag
  /\ loc' = "exit"
  /\ leftFrom' = "prompt"
  /\ UNCHANGED <<opt, quitFlag, signals, dbgVars, emptyOk, cpuVars, trapVars, term, tapeSaved, history>>

(* A raised flag or the end of the input ends the program from the prompt. *)
PromptQuit ==
  /\ loc = "prompt"
  /\ quitFlag' = FALSE
  /\ loc' = "exit"
  /\ leftFrom' = "prompt"
  /\ UNCHANGED <<opt, signals, dbgVars, emptyOk, cpuVars, trapVars, term, tapeSaved, history>>

(* 'q': port_exit ends the process where it stands. *)
PromptExit ==
  /\ AtPrompt
  /\ loc' = "exited"
  /\ leftFrom' = "q"
  /\ UNCHANGED <<opt, quitFlag, signals, dbgVars, emptyOk, cpuVars, trapVars, term, tapeSaved,
                 history>>

(* The debugger gives the terminal back and the loop goes on at its head. *)
Resume(cmd) ==
  /\ loc' = "top"
  /\ stepMode' = FALSE
  /\ term' = IF opt.headless THEN term ELSE EnterRaw(LeaveDbg(term))
  /\ lastCmd' = cmd /\ executed' = 0

(* 's', or Enter where it stands for 's'. *)
PromptStep ==
  /\ AtPrompt
  /\ Resume("s")
  /\ repause' = TRUE
  /\ emptyOk' \in {emptyOk, FALSE}
  /\ UNCHANGED <<opt, quitFlag, signals, breakpoints, watchpoints, cpuVars, trapVars, tapeSaved,
                 watchHit, leftFrom>>

PromptContinue ==
  /\ AtPrompt
  /\ Resume("c")
  /\ UNCHANGED <<opt, quitFlag, signals, repause, breakpoints, watchpoints, emptyOk, cpuVars,
                 trapVars, tapeSaved, watchHit, leftFrom>>

(* b, d, wp and wd; the commands that only print stay at the prompt too. *)
PromptEdit ==
  /\ AtPrompt
  /\ \/ /\ \E a \in Addr : AddBreakpoint(a) \/ RemoveBreakpoint(a)
        /\ UNCHANGED watchpoints
     \/ breakpoints' = <<>> /\ UNCHANGED watchpoints
     \/ /\ \E a \in Addr : RemoveWatchpoint(a) \/ \E ty \in WatchType : AddWatchpoint(a, ty)
        /\ UNCHANGED breakpoints
     \/ watchpoints' = <<>> /\ UNCHANGED breakpoints
  /\ UNCHANGED <<opt, loc, quitFlag, signals, stepMode, repause, emptyOk, cpuVars, trapVars,
                 term, tapeSaved, history, leftFrom>>

(* main.c:1076-1107 *)
CleanUp ==
  /\ loc = "exit"
  /\ loc' = "exited"
  /\ tapeSaved' = opt.tape
  /\ term' = IF opt.headless THEN term ELSE Shutdown(term)
  /\ UNCHANGED <<opt, quitFlag, signals, dbgVars, emptyOk, cpuVars, trapVars, history, leftFrom>>

-----------------------------------------------------------------------------
Loop ==
  \/ Top
  \/ PollKeyboard \/ PollCtrlC \/ PollReset
  \/ KeyboardSignal
  \/ Check
  \/ SignalBeforeStep
  \/ Step
  \/ Repause
  \/ DetectTrap
  \/ CleanUp

User == PromptExit \/ PromptStep \/ PromptContinue \/ PromptEdit

Next == Signal \/ Loop \/ PromptQuit \/ User

Spec == Init /\ [][Next]_vars

(* The loop never blocks outside the prompt, and the prompt polls the flag
   every 5 ms; the user owes nothing. *)
Fairness ==
  /\ WF_vars(Loop)
  /\ WF_vars(quitFlag /\ PromptQuit)

FairSpec == Spec /\ Fairness

-----------------------------------------------------------------------------
(* Properties *)

Locations == {"top", "keyboard", "kbdsig", "check", "signal", "step", "repause", "trap",
              "prompt", "exit", "exited"}

TypeOK ==
  /\ opt \in Opts /\ loc \in Locations
  /\ quitFlag \in BOOLEAN /\ signals \in 0 .. MaxSignals
  /\ stepMode \in BOOLEAN /\ repause \in BOOLEAN /\ emptyOk \in BOOLEAN
  /\ breakpoints \in Seq(Addr) /\ Len(breakpoints) <= MaxBreak
  /\ watchpoints \in Seq([addr : Addr, type : WatchType]) /\ Len(watchpoints) <= MaxWatch
  /\ pc \in Addr /\ halted \in BOOLEAN
  /\ prevPc \in Addr \cup {NoPc} /\ loopCount \in 0 .. 3
  /\ term \in [mode : Modes, raw : BOOLEAN, posixRaw : BOOLEAN, posixDbg : BOOLEAN,
               orig : Modes, saved : Modes]
  /\ tapeSaved \in BOOLEAN
  /\ lastCmd \in {"none", "s", "c"} /\ executed \in 0 .. 2 /\ watchHit \in BOOLEAN
  /\ leftFrom \in {"none", "loop", "prompt", "q", "pass", "fail"}

(* 's' runs at most one instruction before the prompt is back, whatever
   signals, watchpoints and resets come in between (dbg.repause). *)
StepRunsOne == lastCmd = "s" => executed <= 1

(* No instruction runs at a breakpoint, and none after the one that hit a
   watchpoint, before the user has seen the prompt. *)
TrapsHold == [][Step => ~watchHit /\ ~(opt.debug /\ HasBreakpoint(pc))]_vars

(* No address is listed twice, so 'd' and 'wd' really disarm the address. *)
NoTrapTwice ==
  /\ \A i, j \in DOMAIN breakpoints : breakpoints[i] = breakpoints[j] => i = j
  /\ \A i, j \in DOMAIN watchpoints : watchpoints[i].addr = watchpoints[j].addr => i = j

(* The guest runs on a raw terminal and the prompt on the debugger's, and a
   program that ends from the loop leaves the terminal as it found it. *)
TerminalMatches ==
  /\ opt.headless => term.mode = "cooked"
  /\ loc = "step" /\ ~opt.headless => term.mode = "raw"
  /\ loc = "prompt" /\ ~opt.headless => term.mode = "dbg"
  /\ loc = "exited" /\ leftFrom = "loop" => term.mode = "cooked"

(* A SIGINT is always answered: by the end of the program or by the prompt. *)
SignalAnswered == quitFlag ~> (~quitFlag \/ loc = "exited")

(* A single step always ends at the prompt, or with the program. *)
StepComesBack == lastCmd = "s" ~> (loc \in {"prompt", "exited"})

(* debugger.md: 's' steps one instruction and 'c' continues execution.  So a
   prompt that no signal, watchpoint or single step asked for shows that an
   instruction has run since the last one was left. *)
ResumeRuns ==
  [][loc = "check" /\ loc' = "prompt" /\ lastCmd # "none" /\ ~stepMode => executed > 0]_vars

(* debugger.md, usage.md: with -g, Ctrl+C breaks into the debugger. *)
SigintBreaks == [][Top /\ opt.debug => ~quitFlag]_vars

(* usage.md: -E saves the recorded tape on exit. *)
TapeSavedOnExit == loc = "exited" /\ opt.tape => tapeSaved
=============================================================================
