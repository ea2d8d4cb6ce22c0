--------------------------- MODULE Apple1Display ---------------------------
(***************************************************************************)
(* The 40x24 screen on an ANSI terminal (term_ansi.c).  The guest's         *)
(* characters change vram; the main loop repaints, about thirty times a     *)
(* second, the rows that differ from shadow_vram, its copy of what the host *)
(* terminal shows.  The copy is not told of the text that the trace, the    *)
(* warnings and the prompt write to the same terminal.                      *)
(* Cells are codes: 0 blinks as the cursor.                                 *)
(***************************************************************************)
EXTENDS Integers, Sequences

CONSTANTS
  Rows, Cols,     (* 24 and 40                                              *)
  Codes,          (* What the guest prints.                                 *)
  MaxOut,         (* Bound: characters printed since the screen was empty.  *)
  DebugEnabled    (* g_debug_enabled (-g)                                   *)

Byte == 0 .. 255
ROW  == 0 .. Rows - 1
COL  == 0 .. Cols - 1

ASSUME DisplayAssumption ==
  /\ Rows \in Nat \ {0, 1} /\ Cols \in Nat \ {0, 1}
  /\ Codes \subseteq Byte
  /\ MaxOut \in Nat
  /\ DebugEnabled \in BOOLEAN

VARIABLES
  vram,                 (* the screen the guest has written                  *)
  cursorX, cursorY,
  shadow, shadowBlink, shadowValid,   (* shadow_vram and its two flags       *)
  pasteActive,          (* bracketed_paste_active                            *)
  host,                 (* the characters the host terminal shows            *)
  loc,                  (* "loop", "prompt" (the debugger's) or "ended"      *)
  out,                  (* History: what was printed since the last clear.   *)
  cleared,              (* History: ^L was pressed since term_init.          *)
  marred                (* History: the rows of the terminal that other text
                           has changed since they were last painted.        *)

screenVars == <<vram, cursorX, cursorY>>
shadowVars == <<shadow, shadowBlink, shadowValid>>
history    == <<out, cleared>>
vars == <<screenVars, shadowVars, pasteActive, host, loc, history, marred>>

Cursor == 0
Blank  == 32
At     == 64
Under  == 95
Other  == 256     (* a character of a text that is not the screen's *)
CR     == 13

Cell   == {Cursor} \union 32 .. 126
Screen == [ROW -> [COL -> Cell]]
Upper(c) == IF c \in 97 .. 122 THEN c - 32 ELSE c
Printing == 32 .. 126

-----------------------------------------------------------------------------
BlankRow == [x \in COL |-> Blank]
BlankScreen == [y \in ROW |-> BlankRow]

(* The pattern of a machine that was just switched on. *)
Checkerboard == [y \in ROW |-> [x \in COL |-> IF (x + y) % 2 = 1 THEN Under ELSE Cursor]]

(* Mutant: the terminal is cleared and the shadow believed. *)
ClearOnly == host' = BlankScreen /\ marred' = {} /\ UNCHANGED shadowValid

(* term_clear_host_screen: the shadow is not believed any more. *)
ClearHost == host' = BlankScreen /\ marred' = {} /\ shadowValid' = FALSE

TermInit ==
  /\ vram' = Checkerboard /\ cursorX' = 0 /\ cursorY' = 0
  /\ pasteActive' = FALSE
  /\ ClearHost
  /\ out' = <<>> /\ cleared' = FALSE
  /\ UNCHANGED <<shadow, shadowBlink>>

TermShutdown == ClearHost /\ UNCHANGED <<shadow, shadowBlink>>

Init ==
  /\ vram = Checkerboard /\ cursorX = 0 /\ cursorY = 0
  /\ shadow = [y \in ROW |-> [x \in COL |-> Cursor]] /\ shadowBlink = FALSE /\ shadowValid = FALSE
  /\ pasteActive = FALSE
  /\ host = BlankScreen
  /\ loc = "loop"
  /\ out = <<>> /\ cleared = FALSE
  /\ marred = {}

-----------------------------------------------------------------------------
(* term_write *)

(* Mutant: the last row keeps what it showed. *)
ScrollKeepsLast(v) == [y \in ROW |-> IF y < Rows - 1 THEN v[y + 1] ELSE v[y]]
ScrollUp(v) == [y \in ROW |-> IF y < Rows - 1 THEN v[y + 1] ELSE BlankRow]

MoveTo(v, y, x) ==
  /\ vram' = [v EXCEPT ![y][x] = Cursor]
  /\ cursorX' = x /\ cursorY' = y

(* Mutant: the last row is not looked for. *)
RunOff(v) == MoveTo(v, cursorY + 1, 0)

NextRow(v) ==
  IF cursorY + 1 >= Rows THEN MoveTo(ScrollUp(v), Rows - 1, 0)
                         ELSE MoveTo(v, cursorY + 1, 0)

Put(c) == [vram EXCEPT ![cursorY][cursorX] = c]

(* Mutant: the cursor stays behind where the line ends. *)
LeaveCursor == NextRow(vram)
CarriageReturn == NextRow(Put(Blank))

PrintGlyph(c) ==
  IF cursorX + 1 >= Cols THEN NextRow(Put(Upper(c)))
                         ELSE MoveTo(Put(Upper(c)), cursorY, cursorX + 1)

TermWrite(code) ==
  LET val == code % 128
  IN  /\ \/ val = CR /\ CarriageReturn
         \/ val \in Printing /\ PrintGlyph(val)
         \/ val # CR /\ val \notin Printing /\ UNCHANGED screenVars
      /\ out' = IF val = CR \/ val \in Printing THEN Append(out, val) ELSE out

(* A data write to $D012 while the PIA is in data mode (bus.c:691-697), by the
   guest or by the prompt's w. *)
GuestPrints ==
  /\ loc \in {"loop", "prompt"}
  /\ Len(out) < MaxOut
  /\ \E code \in Codes : TermWrite(code)
  /\ UNCHANGED <<shadowVars, pasteActive, host, loc, cleared, marred>>

-----------------------------------------------------------------------------
(* term_update *)

Shows(cell, blink) == IF cell = Cursor THEN (IF blink THEN At ELSE Blank) ELSE cell
RenderRow(row, blink) == [x \in COL |-> Shows(row[x], blink)]

(* Mutant: the phase of the blinking is not looked at. *)
DiffersOnly(y, blink) == ~shadowValid \/ vram[y] # shadow[y]

NeedsRepaint(y, blink) ==
  \/ ~shadowValid
  \/ vram[y] # shadow[y]
  \/ blink # shadowBlink /\ \E x \in COL : vram[y][x] = Cursor

Repaint(blink) ==
  /\ host' = [y \in ROW |-> IF NeedsRepaint(y, blink) THEN RenderRow(vram[y], blink) ELSE host[y]]
  /\ shadow' = [y \in ROW |-> IF NeedsRepaint(y, blink) THEN vram[y] ELSE shadow[y]]
  /\ marred' = {y \in marred : ~NeedsRepaint(y, blink)}
  /\ shadowBlink' = blink
  /\ shadowValid' = TRUE
  /\ UNCHANGED <<screenVars, pasteActive, loc, history>>

(* Mutant: the screen is painted once. *)
UpdateOnce(blink) == loc = "loop" /\ ~pasteActive /\ ~shadowValid /\ Repaint(blink)

(* Nothing is painted in the middle of a bracketed paste. *)
TermUpdate(blink) ==
  /\ loc = "loop"
  /\ ~pasteActive
  /\ Repaint(blink)

-----------------------------------------------------------------------------
(* The keys of term_poll that the screen sees *)

PressClear ==
  /\ loc = "loop"
  /\ ~pasteActive
  /\ vram' = [BlankScreen EXCEPT ![0][0] = Cursor]
  /\ cursorX' = 0 /\ cursorY' = 0
  /\ out' = <<>> /\ cleared' = TRUE
  /\ UNCHANGED <<shadowVars, pasteActive, host, loc, marred>>

PasteBrackets ==
  /\ loc = "loop"
  /\ pasteActive' \in BOOLEAN
  /\ UNCHANGED <<screenVars, shadowVars, host, loc, history, marred>>

(* ^C ends the program; with -g it opens the debugger's prompt before the
   next instruction and the next repaint. *)
PressQuit ==
  /\ loc = "loop"
  /\ loc' = IF DebugEnabled THEN "prompt" ELSE "ended"
  /\ TermShutdown
  /\ UNCHANGED <<screenVars, pasteActive, history>>

(* A breakpoint, a watchpoint or a single step: io_cleanup, then the prompt. *)
OpenPrompt ==
  /\ loc = "loop" /\ DebugEnabled
  /\ loc' = "prompt"
  /\ TermShutdown
  /\ UNCHANGED <<screenVars, pasteActive, history>>

(* Text that is not the screen's, on the same terminal: the -t trace and the
   warning of a JAM in the loop, everything the prompt writes.  It may scroll. *)
OtherRow == [x \in COL |-> Other]

OtherText ==
  /\ loc \in {"loop", "prompt"}
  /\ \/ \E y \in ROW : host' = [host EXCEPT ![y] = OtherRow] /\ marred' = marred \union {y}
     \/ host' = [ScrollUp(host) EXCEPT ![Rows - 1] = OtherRow] /\ marred' = ROW
  /\ UNCHANGED <<screenVars, shadowVars, pasteActive, loc, history>>

(* s and c end in io_init, q and the end of the input end the program. *)
LeavePrompt ==
  /\ loc = "prompt"
  /\ loc' = "loop"
  /\ TermInit

QuitPrompt ==
  /\ loc = "prompt"
  /\ loc' = "ended"
  /\ UNCHANGED <<screenVars, shadowVars, pasteActive, host, history, marred>>

-----------------------------------------------------------------------------
Next ==
  \/ GuestPrints
  \/ \E blink \in BOOLEAN : TermUpdate(blink)
  \/ PressClear
  \/ PasteBrackets
  \/ PressQuit
  \/ OpenPrompt
  \/ OtherText
  \/ LeavePrompt
  \/ QuitPrompt

Spec == Init /\ [][Next]_vars

(* main.c:1067-1073: the loop repaints whenever 33 ms have passed. *)
Fairness == WF_vars(\E blink \in BOOLEAN : TermUpdate(blink))

FairSpec == Spec /\ Fairness

-----------------------------------------------------------------------------
(* Properties *)

(* The cursor stays on the screen and every cell is a cursor or printable. *)
TypeOK ==
  /\ vram \in Screen /\ shadow \in Screen
  /\ cursorX \in COL /\ cursorY \in ROW
  /\ host \in [ROW -> [COL -> Cell \union {Other}]]
  /\ shadowBlink \in BOOLEAN /\ shadowValid \in BOOLEAN /\ pasteActive \in BOOLEAN
  /\ loc \in {"loop", "prompt", "ended"}
  /\ out \in Seq(Byte) /\ Len(out) <= MaxOut
  /\ cleared \in BOOLEAN
  /\ marred \subseteq ROW

(* The lines a text makes on paper of Cols columns: a character ends the last
   line, or stands in it and may fill it.                                    *)
Typed(lines, c) ==
  LET n    == Len(lines)
      line == Append(lines[n], Upper(c))
  IN  IF c = CR THEN Append(lines, <<>>)
      ELSE IF Len(line) = Cols THEN Append([lines EXCEPT ![n] = line], <<>>)
      ELSE [lines EXCEPT ![n] = line]

Lines(text) ==
  LET upTo[i \in 0 .. Len(text)] == IF i = 0 THEN << <<>> >> ELSE Typed(upTo[i - 1], text[i])
  IN  upTo[Len(text)]

(* However it scrolled, the screen shows the last lines of what was printed
   and the cursor stands behind them; once the power-on pattern has been
   cleared there is nothing else on it. *)
ScreenIsOutput ==
  LET lines == Lines(out)
      n     == Len(lines)
  IN  /\ cursorX = Len(lines[n])
      /\ cursorY = (IF n < Rows THEN n ELSE Rows) - 1
      /\ \A y \in ROW, x \in COL :
           LET line == IF y <= cursorY THEN lines[n - cursorY + y] ELSE <<>>
           IN  IF x < Len(line) THEN vram[y][x] = line[x + 1]
               ELSE cleared /\ <<y, x>> # <<cursorY, cursorX>> => vram[y][x] = Blank

(* There is a blinking cursor where the next character goes and, once the
   power-on pattern has been cleared, nowhere else. *)
OneCursor ==
  /\ vram[cursorY][cursorX] = Cursor
  /\ cleared => \A y \in ROW, x \in COL : vram[y][x] = Cursor => y = cursorY /\ x = cursorX

(* What a repaint leaves of other text: rows which it spoiled after they were
   last painted and whose picture is the same as then. *)
Spoiled(y, blink) ==
  /\ y \in marred /\ shadowValid
  /\ RenderRow(vram[y], blink) = RenderRow(shadow[y], shadowBlink)

(* Whatever the terminal showed before, and whoever wrote there: after
   term_update every row shows the screen, but for the spoiled ones, of which
   shadow_vram does not know. *)
UpdateShowsScreen ==
  [][\A blink \in BOOLEAN : TermUpdate(blink) =>
       \A y \in ROW : host'[y] = RenderRow(vram[y], blink) \/ Spoiled(y, blink)]_vars

(* The rows of the terminal that show the screen in neither phase and should. *)
Stale ==
  {y \in ROW : \A blink \in BOOLEAN : host[y] # RenderRow(vram[y], blink) /\ ~Spoiled(y, blink)}

(* What the guest has printed comes to stand on the terminal, unless a paste is
   open or the debugger takes the terminal; when the paste ends, it is painted. *)
ScreenIsShown ==
  Stale # {} ~> (Stale = {} \/ pasteActive \/ loc # "loop")
=============================================================================
