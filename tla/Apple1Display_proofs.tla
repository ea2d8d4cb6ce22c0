------------------------ MODULE Apple1Display_proofs ------------------------
(* For every screen size, set of printed codes and history bound: the cursor
   stays on the screen, there is one of it once the screen was cleared, the
   screen is the last lines of what was printed, and a repaint brings the
   terminal up to date although it skips rows, but for those that other text
   spoiled and nothing has changed since.                                    *)
EXTENDS Apple1Display, Recursion, SequenceTheorems

(* What a repaint relies on: a shadow that is believed is what the terminal
   shows, painted in the remembered phase, where no other text was written.  *)
ShadowIsHost ==
  shadowValid => \A y \in ROW \ marred : host[y] = RenderRow(shadow[y], shadowBlink)

DisplayInv == TypeOK /\ OneCursor /\ ScreenIsOutput /\ ShadowIsHost

NoCursor(v) == \A y \in ROW, x \in COL : v[y][x] # Cursor

-----------------------------------------------------------------------------
LEMMA Corners == 0 \in ROW /\ 0 \in COL /\ Rows - 1 \in ROW
BY DisplayAssumption DEF ROW, COL

LEMMA Blanks == BlankRow \in [COL -> Cell] /\ BlankScreen \in Screen /\ Checkerboard \in Screen
BY DisplayAssumption DEF BlankRow, BlankScreen, Checkerboard, Screen, Cell, Blank, Under, Cursor

LEMMA ClearedHostIsText == BlankScreen \in [ROW -> [COL -> Cell \union {Other}]]
BY DEF BlankScreen, BlankRow, Cell, Blank

LEMMA NothingPrinted == <<>> \in Seq(Byte) /\ Len(<<>>) <= MaxOut
BY DisplayAssumption

LEMMA UpperIsPrintable ==
  ASSUME NEW c \in Printing
  PROVE  Upper(c) \in Printing
BY DEF Upper, Printing

LEMMA PutIsScreen ==
  ASSUME TypeOK, NEW c \in Printing
  PROVE  /\ Put(c) \in Screen
         /\ OneCursor /\ cleared => NoCursor(Put(c))
<1>1. Put(c) \in Screen
  BY DEF Put, TypeOK, Screen, Cell, Printing
<1>2. ASSUME OneCursor, cleared, NEW y \in ROW, NEW x \in COL
      PROVE  Put(c)[y][x] # Cursor
  <2>1. CASE y = cursorY /\ x = cursorX
    BY <2>1, DisplayAssumption DEF Put, TypeOK, Screen, Printing, Cursor
  <2>2. CASE ~(y = cursorY /\ x = cursorX)
    <3>1. vram[y][x] # Cursor
      BY <1>2, <2>2 DEF OneCursor
    <3>2. Put(c)[y][x] = vram[y][x]
      BY <2>2 DEF Put, TypeOK, Screen
    <3> QED
      BY <3>1, <3>2
  <2> QED
    BY <2>1, <2>2
<1> QED
  BY <1>1, <1>2 DEF NoCursor

LEMMA ScrollIsScreen ==
  ASSUME NEW v \in Screen
  PROVE  /\ ScrollUp(v) \in Screen
         /\ NoCursor(v) => NoCursor(ScrollUp(v))
<1>1. \A y \in ROW : y < Rows - 1 => y + 1 \in ROW
  BY DisplayAssumption DEF ROW
<1>2. ScrollUp(v) \in Screen
  BY <1>1, Blanks DEF ScrollUp, Screen
<1>3. ASSUME NoCursor(v), NEW y \in ROW, NEW x \in COL
      PROVE  ScrollUp(v)[y][x] # Cursor
  BY <1>1, <1>3 DEF ScrollUp, NoCursor, BlankRow, Blank, Cursor
<1> QED
  BY <1>2, <1>3 DEF NoCursor

(* Where a character leaves the screen and the cursor. *)
Placed == vram' \in Screen /\ cursorX' \in COL /\ cursorY' \in ROW
OnlyCursor ==
  \A y \in ROW, x \in COL : vram'[y][x] = Cursor => y = cursorY' /\ x = cursorX'

LEMMA MoveToPlaces ==
  ASSUME NEW v \in Screen, NEW y \in ROW, NEW x \in COL, MoveTo(v, y, x)
  PROVE  /\ Placed
         /\ vram'[cursorY'][cursorX'] = Cursor
         /\ NoCursor(v) => OnlyCursor
<1>1. vram' = [v EXCEPT ![y][x] = Cursor] /\ cursorX' = x /\ cursorY' = y
  BY DEF MoveTo
<1>2. Placed
  BY <1>1 DEF Placed, Screen, Cell
<1>3. vram'[y][x] = Cursor
  BY <1>1 DEF Screen
<1>4. ASSUME NoCursor(v), NEW i \in ROW, NEW j \in COL, ~(i = y /\ j = x)
      PROVE  vram'[i][j] # Cursor
  <2>1. vram'[i][j] = v[i][j]
    BY <1>1, <1>4 DEF Screen
  <2> QED
    BY <2>1, <1>4 DEF NoCursor
<1> QED
  BY <1>1, <1>2, <1>3, <1>4 DEF OnlyCursor

LEMMA NextRowPlaces ==
  ASSUME NEW v \in Screen, cursorY \in ROW, NextRow(v)
  PROVE  /\ Placed
         /\ vram'[cursorY'][cursorX'] = Cursor
         /\ NoCursor(v) => OnlyCursor
<1>1. CASE cursorY + 1 >= Rows
  <2>1. MoveTo(ScrollUp(v), Rows - 1, 0)
    BY <1>1 DEF NextRow
  <2> QED
    BY <2>1, ScrollIsScreen, MoveToPlaces, Corners
<1>2. CASE ~(cursorY + 1 >= Rows)
  <2>1. MoveTo(v, cursorY + 1, 0)
    BY <1>2 DEF NextRow
  <2>2. cursorY + 1 \in ROW
    BY <1>2, DisplayAssumption DEF ROW
  <2> QED
    BY <2>1, <2>2, MoveToPlaces, Corners
<1> QED
  BY <1>1, <1>2

-----------------------------------------------------------------------------
(* The lines of a text *)

Papers == {ls \in Seq(Seq(Byte)) : ls # <<>>}

LEMMA UpperIsByte == \A c \in Byte : Upper(c) \in Byte
BY DEF Upper, Byte

(* What a character does to each line. *)
LEMMA TypedLines ==
  ASSUME NEW ls \in Papers, NEW c \in Byte
  PROVE  LET n    == Len(ls)
             line == Append(ls[n], Upper(c))
             new  == Typed(ls, c)
         IN  /\ new \in Papers /\ n \in Nat \ {0}
             /\ \A i \in 1 .. n - 1 : new[i] = ls[i]
             /\ c = CR => Len(new) = n + 1 /\ new[n] = ls[n] /\ new[n + 1] = <<>>
             /\ c # CR /\ Len(line) = Cols => Len(new) = n + 1 /\ new[n] = line /\ new[n + 1] = <<>>
             /\ c # CR /\ Len(line) # Cols => Len(new) = n /\ new[n] = line
<1> DEFINE n    == Len(ls)
           line == Append(ls[n], Upper(c))
           new  == Typed(ls, c)
           full == [ls EXCEPT ![n] = line]
<1>1. ls \in Seq(Seq(Byte)) /\ n \in Nat \ {0} /\ ls[n] \in Seq(Byte) /\ <<>> \in Seq(Byte)
  BY EmptySeq DEF Papers
<1>2. line \in Seq(Byte)
  BY <1>1, UpperIsByte
<1> HIDE DEF line
<1>3. /\ full \in Seq(Seq(Byte)) /\ Len(full) = n /\ full[n] = line
      /\ \A i \in 1 .. n - 1 : full[i] = ls[i]
  BY <1>1, <1>2, ExceptSeq
<1> HIDE DEF full
<1>4. /\ Append(full, <<>>) \in Seq(Seq(Byte)) /\ Len(Append(full, <<>>)) = n + 1
      /\ \A i \in 1 .. n : Append(full, <<>>)[i] = full[i]
      /\ Append(full, <<>>)[n + 1] = <<>>
  BY <1>1, <1>3, AppendProperties
<1>5. /\ Append(ls, <<>>) \in Seq(Seq(Byte)) /\ Len(Append(ls, <<>>)) = n + 1
      /\ \A i \in 1 .. n : Append(ls, <<>>)[i] = ls[i]
      /\ Append(ls, <<>>)[n + 1] = <<>>
  BY <1>1, AppendProperties
<1>6. new = IF c = CR THEN Append(ls, <<>>)
            ELSE IF Len(line) = Cols THEN Append(full, <<>>) ELSE full
  BY DEF Typed, full, line
<1> HIDE DEF new, n
<1>7. /\ new \in Seq(Seq(Byte)) /\ Len(new) \in {n, n + 1}
      /\ \A i \in 1 .. n - 1 : new[i] = ls[i]
      /\ c = CR => Len(new) = n + 1 /\ new[n] = ls[n] /\ new[n + 1] = <<>>
      /\ c # CR /\ Len(line) = Cols => Len(new) = n + 1 /\ new[n] = line /\ new[n + 1] = <<>>
      /\ c # CR /\ Len(line) # Cols => Len(new) = n /\ new[n] = line
  <2>1. CASE c = CR
    BY <1>1, <1>5, <1>6, <2>1
  <2>2. CASE c # CR /\ Len(line) = Cols
    BY <1>1, <1>3, <1>4, <1>6, <2>2
  <2>3. CASE c # CR /\ Len(line) # Cols
    BY <1>1, <1>3, <1>6, <2>3
  <2> QED BY <2>1, <2>2, <2>3
<1>8. new \in Papers
  BY <1>1, <1>7, EmptySeq DEF Papers
<1> QED
  BY <1>1, <1>7, <1>8 DEF new, n, line

StepOn(text) == [p \in Papers \X (1 .. Len(text)) |-> Typed(p[1], text[p[2]])]

NoText == << <<>> >>

LEMMA NoTextIsPaper == NoText \in Papers /\ Len(NoText) = 1 /\ NoText[1] = <<>>
BY DEF NoText, Papers

(* The lines of the first i characters of a text are f[i]. *)
LinesUpTo(f, text) ==
  /\ f[0] = NoText
  /\ \A i \in 0 .. Len(text) : f[i] \in Papers
  /\ \A i \in 1 .. Len(text) : f[i] = Typed(f[i - 1], text[i])
  /\ Lines(text) = f[Len(text)]

LEMMA LinesRecur ==
  ASSUME NEW text \in Seq(Byte)
  PROVE  \E f : LinesUpTo(f, text)
<1> DEFINE n == Len(text)
           d == StepOn(text)
           upTo[i \in 0 .. n] == IF i = 0 THEN NoText ELSE Typed(upTo[i - 1], text[i])
<1>1. n \in Nat /\ \A i \in 1 .. n : text[i] \in Byte
  OBVIOUS
<1>2. d \in [Papers \X (1 .. n) -> Papers]
  BY <1>1, TypedLines DEF StepOn
<1>3. ASSUME NEW ls \in Papers, NEW i \in 1 .. n
      PROVE  d[<<ls, i>>] = Typed(ls, text[i])
  <2>1. <<ls, i>> \in Papers \X (1 .. n) /\ <<ls, i>>[1] = ls /\ <<ls, i>>[2] = i
    OBVIOUS
  <2> QED BY <2>1 DEF StepOn
<1> HIDE DEF n, d
<1>4. PICK f \in [0 .. n -> Papers] : Recurs(f, n, NoText, d)
  BY <1>1, <1>2, NoTextIsPaper, RecursionExists
<1>5. \A i \in 1 .. n : i - 1 \in 0 .. n /\ i # 0
  BY <1>1
<1>6. \A i \in 1 .. n : f[i] = Typed(f[i - 1], text[i])
  BY <1>3, <1>4, <1>5 DEF Recurs
<1>7. f = [i \in 0 .. n |-> IF i = 0 THEN NoText ELSE Typed(f[i - 1], text[i])]
  <2>1. \A i \in 0 .. n : f[i] = IF i = 0 THEN NoText ELSE Typed(f[i - 1], text[i])
    <3>1. \A i \in 0 .. n : i = 0 \/ i \in 1 .. n
      BY <1>1
    <3>2. f[0] = NoText
      BY <1>4 DEF Recurs
    <3> QED BY <1>5, <1>6, <3>1, <3>2
  <2> QED BY <1>4, <2>1
<1>8. upTo = [i \in 0 .. n |-> IF i = 0 THEN NoText ELSE Typed(upTo[i - 1], text[i])]
  BY <1>7
<1>9. Lines(text) = upTo[n]
  BY DEF Lines, NoText, n
<1> HIDE DEF upTo
<1>10. upTo[0] = NoText /\ \A i \in 1 .. n : upTo[i] = Typed(upTo[i - 1], text[i])
  BY <1>1, <1>8
<1> DEFINE Same == {i \in 0 .. n : upTo[i] = f[i]}
<1>11. 0 \in Same
  BY <1>1, <1>4, <1>10 DEF Recurs
<1>12. ASSUME NEW i \in 0 .. n - 1, i \in Same PROVE i + 1 \in Same
  <2>1. i + 1 \in 1 .. n /\ (i + 1) - 1 = i
    BY <1>1
  <2> QED
    BY <1>6, <1>10, <1>12, <2>1
<1> HIDE DEF Same
<1>13. \A i \in 0 .. n : i \in Same
  BY <1>1, <1>11, <1>12, BoundedInduction
<1>14. upTo[n] = f[n]
  BY <1>1, <1>13 DEF Same
<1>15. f[0] = NoText
  BY <1>4 DEF Recurs
<1> QED
  BY <1>4, <1>6, <1>9, <1>14, <1>15 DEF n, LinesUpTo

LEMMA LinesIsPaper ==
  ASSUME NEW text \in Seq(Byte)
  PROVE  Lines(text) \in Papers
<1>1. PICK f : LinesUpTo(f, text)
  BY LinesRecur
<1> QED
  BY <1>1 DEF LinesUpTo

LEMMA LinesOfNothing == Lines(<<>>) = NoText
<1>1. <<>> \in Seq(Byte) /\ Len(<<>>) = 0
  OBVIOUS
<1>2. PICK f : LinesUpTo(f, <<>>)
  BY <1>1, LinesRecur
<1> QED
  BY <1>1, <1>2 DEF LinesUpTo

(* A character more is typed behind the lines of the text before it. *)
LEMMA LinesGrow ==
  ASSUME NEW text \in Seq(Byte), NEW c \in Byte
  PROVE  Lines(Append(text, c)) = Typed(Lines(text), c)
<1> DEFINE n == Len(text)
           more == Append(text, c)
<1>1. /\ n \in Nat /\ more \in Seq(Byte) /\ Len(more) = n + 1
      /\ more[n + 1] = c /\ \A i \in 1 .. n : more[i] = text[i]
  OBVIOUS
<1> HIDE DEF more
<1>2. PICK f : LinesUpTo(f, text)
  BY LinesRecur
<1>3. PICK g : LinesUpTo(g, more)
  BY <1>1, LinesRecur
<1>4. /\ f[0] = NoText /\ \A i \in 1 .. n : f[i] = Typed(f[i - 1], text[i])
      /\ Lines(text) = f[n]
  BY <1>2 DEF LinesUpTo
<1>5. /\ g[0] = NoText /\ \A i \in 1 .. n + 1 : g[i] = Typed(g[i - 1], more[i])
       /\ Lines(more) = g[n + 1]
  BY <1>1, <1>3 DEF LinesUpTo
<1> HIDE DEF n
<1> DEFINE Same == {i \in 0 .. n : f[i] = g[i]}
<1>6. 0 \in Same
  BY <1>1, <1>4, <1>5
<1>7. ASSUME NEW i \in 0 .. n - 1, i \in Same PROVE i + 1 \in Same
  <2>1. i + 1 \in 1 .. n /\ (i + 1) - 1 = i /\ i + 1 \in 1 .. n + 1
    BY <1>1
  <2> QED
    BY <1>1, <1>4, <1>5, <1>7, <2>1
<1> HIDE DEF Same
<1>8. \A i \in 0 .. n : i \in Same
  BY <1>1, <1>6, <1>7, BoundedInduction
<1>9. f[n] = g[n]
  BY <1>1, <1>8 DEF Same
<1>10. n + 1 \in 1 .. n + 1 /\ (n + 1) - 1 = n
  BY <1>1
<1> QED
  BY <1>1, <1>4, <1>5, <1>9, <1>10 DEF more

(* What a cell shows of the lines that end in row y0, blank behind them once
   the screen is clear. *)
LineIn(ls, y0, y) == IF y <= y0 THEN ls[Len(ls) - y0 + y] ELSE <<>>

CellShows(v, ls, y0, y, x, clear) ==
  IF x < Len(LineIn(ls, y0, y)) THEN v[y][x] = LineIn(ls, y0, y)[x + 1]
                                ELSE clear => v[y][x] = Blank

LastRow(n) == (IF n < Rows THEN n ELSE Rows) - 1

Pictured(v, x0, y0, ls, clear) ==
  /\ x0 = Len(ls[Len(ls)])
  /\ y0 = LastRow(Len(ls))
  /\ \A y \in ROW, x \in COL : CellShows(v, ls, y0, y, x, clear /\ <<y, x>> # <<y0, x0>>)

LEMMA ScreenIsPicture ==
  /\ ScreenIsOutput <=> Pictured(vram, cursorX, cursorY, Lines(out), cleared)
  /\ ScreenIsOutput' <=> Pictured(vram', cursorX', cursorY', Lines(out'), cleared')
BY Zenon DEF ScreenIsOutput, Pictured, CellShows, LineIn, LastRow

LEMMA LineInPaper ==
  ASSUME NEW ls \in Papers, NEW y \in ROW
  PROVE  /\ LastRow(Len(ls)) \in ROW
         /\ y <= LastRow(Len(ls)) => Len(ls) - LastRow(Len(ls)) + y \in 1 .. Len(ls)
         /\ LineIn(ls, LastRow(Len(ls)), y) \in Seq(Byte)
<1>1. ls \in Seq(Seq(Byte)) /\ Len(ls) \in Nat \ {0} /\ <<>> \in Seq(Byte)
  BY EmptySeq DEF Papers
<1>2. LastRow(Len(ls)) \in ROW /\ (y <= LastRow(Len(ls)) => Len(ls) - LastRow(Len(ls)) + y \in 1 .. Len(ls))
  BY <1>1, DisplayAssumption DEF LastRow, ROW
<1>3. CASE y <= LastRow(Len(ls))
  BY <1>1, <1>2, <1>3 DEF LineIn
<1>4. CASE ~(y <= LastRow(Len(ls)))
  BY <1>1, <1>2, <1>4 DEF LineIn
<1> QED
  BY <1>2, <1>3, <1>4

(* The row below: the next one, or the last after the screen has moved up. *)
LEMMA NextRowShows ==
  ASSUME NEW v \in Screen, NEW ls \in Papers, cursorY = LastRow(Len(ls)), NextRow(v),
         \A y \in ROW, x \in COL : CellShows(v, ls, cursorY, y, x, cleared),
         NEW new \in Papers, Len(new) = Len(ls) + 1, new[Len(ls) + 1] = <<>>,
         \A i \in 1 .. Len(ls) : new[i] = ls[i]
  PROVE  Pictured(vram', cursorX', cursorY', new, cleared)
<1> DEFINE n == Len(ls)
<1>4. Len(new[Len(new)]) = 0
  OBVIOUS
<1>1. n \in Nat \ {0} /\ cursorY \in ROW /\ Len(<<>>) = 0
  BY Corners, LineInPaper DEF Papers
<1>2. CASE cursorY + 1 >= Rows
  <2>1. /\ vram' = [ScrollUp(v) EXCEPT ![Rows - 1][0] = Cursor]
        /\ cursorX' = 0 /\ cursorY' = Rows - 1
    BY <1>2 DEF NextRow, MoveTo
  <2>2. cursorY = Rows - 1 /\ cursorY' = LastRow(n + 1)
    BY <1>1, <1>2, <2>1, DisplayAssumption DEF LastRow, ROW
  <2>3. ASSUME NEW y \in ROW, NEW x \in COL, y < Rows - 1
        PROVE  CellShows(vram', new, cursorY', y, x, cleared /\ <<y, x>> # <<cursorY', cursorX'>>)
    <3>1. y + 1 \in ROW /\ y <= Rows - 1 /\ y + 1 <= Rows - 1
      BY <2>3, DisplayAssumption DEF ROW
    <3>2. vram'[y][x] = v[y + 1][x]
      BY <2>1, <2>3, ScrollIsScreen, Corners DEF Screen, ScrollUp, ROW
    <3>3. LineIn(new, cursorY', y) = LineIn(ls, cursorY, y + 1)
      <4>1. n - (Rows - 1) + (y + 1) \in 1 .. n
        BY <3>1, <2>2, LineInPaper
      <4>2. (n + 1) - (Rows - 1) + y = n - (Rows - 1) + (y + 1)
        BY <1>1, DisplayAssumption, SMTT(30) DEF ROW
      <4> QED
        BY <2>1, <2>2, <3>1, <4>1, <4>2 DEF LineIn
    <3>4. CellShows(v, ls, cursorY, y + 1, x, cleared)
      BY <3>1
    <3> QED
      BY <3>2, <3>3, <3>4 DEF CellShows
  <2>4. ASSUME NEW y \in ROW, NEW x \in COL, ~(y < Rows - 1)
        PROVE  CellShows(vram', new, cursorY', y, x, cleared /\ <<y, x>> # <<cursorY', cursorX'>>)
    <3>1. y = Rows - 1
      BY <2>4, DisplayAssumption DEF ROW
    <3>2. LineIn(new, cursorY', y) = <<>>
      BY <1>1, <2>1, <3>1, DisplayAssumption DEF LineIn
    <3>3. x # 0 => vram'[y][x] = Blank
      BY <2>1, <3>1, ScrollIsScreen, Corners, DisplayAssumption DEF Screen, ScrollUp, BlankRow
    <3> QED
      BY <1>1, <2>1, <3>1, <3>2, <3>3 DEF CellShows, COL
  <2> QED
    BY <1>4, <2>1, <2>2, <2>3, <2>4 DEF Pictured
<1>3. CASE ~(cursorY + 1 >= Rows)
  <2>1. /\ vram' = [v EXCEPT ![cursorY + 1][0] = Cursor]
        /\ cursorX' = 0 /\ cursorY' = cursorY + 1
    BY <1>3 DEF NextRow, MoveTo
  <2>2. cursorY = n - 1 /\ cursorY' = LastRow(n + 1) /\ cursorY + 1 \in ROW
    BY <1>1, <1>3, <2>1, DisplayAssumption DEF LastRow, ROW
  <2>3. ASSUME NEW y \in ROW, NEW x \in COL
        PROVE  CellShows(vram', new, cursorY', y, x, cleared /\ <<y, x>> # <<cursorY', cursorX'>>)
    <3>1. CASE y <= cursorY
      <4>1. vram'[y][x] = v[y][x]
        BY <2>1, <2>2, <3>1, <1>1 DEF Screen, ROW
      <4>2. y + 1 \in 1 .. n /\ n - cursorY + y = y + 1 /\ (n + 1) - cursorY' + y = y + 1 /\ y <= cursorY'
        BY <1>1, <2>1, <2>2, <3>1 DEF ROW
      <4>3. LineIn(new, cursorY', y) = LineIn(ls, cursorY, y)
        BY <3>1, <4>2 DEF LineIn
      <4> QED
        BY <4>1, <4>3 DEF CellShows
    <3>2. CASE ~(y <= cursorY)
      <4>1. LineIn(ls, cursorY, y) = <<>>
        BY <3>2 DEF LineIn
      <4>2. LineIn(new, cursorY', y) = <<>>
        <5>1. y <= cursorY' => (n + 1) - cursorY' + y = n + 1
          BY <1>1, <2>1, <2>2, <3>2 DEF ROW
        <5> QED
          BY <5>1 DEF LineIn
      <4>3. cleared => v[y][x] = Blank
        BY <1>1, <4>1 DEF CellShows, COL
      <4>4. <<y, x>> # <<cursorY', cursorX'>> => vram'[y][x] = v[y][x]
        BY <2>1, <2>2 DEF Screen
      <4> QED
        BY <1>1, <4>2, <4>3, <4>4 DEF CellShows, COL
    <3> QED
      BY <3>1, <3>2
  <2> QED
    BY <1>4, <2>1, <2>2, <2>3 DEF Pictured
<1> QED
  BY <1>2, <1>3

(* What a character prints is what it adds to the lines. *)
LEMMA GlyphShows ==
  ASSUME TypeOK, ScreenIsOutput, NEW c \in Printing, PrintGlyph(c), out' = Append(out, c),
         cleared' = cleared
  PROVE  ScreenIsOutput'
<1> DEFINE ls   == Lines(out)
           new  == Lines(out')
           n    == Len(ls)
           line == Append(ls[n], Upper(c))
           v    == Put(Upper(c))
<1>1. c \in Byte /\ c # CR /\ Upper(c) \in Printing /\ Upper(c) \in Byte
  <2>1. \A b \in Printing : b \in Byte /\ b # CR
    BY DEF Printing, Byte, CR
  <2>2. Upper(c) \in Printing
    BY UpperIsPrintable
  <2> QED
    BY <2>1, <2>2
<1>2. out \in Seq(Byte) /\ ls \in Papers /\ new = Typed(ls, c)
  BY <1>1, LinesIsPaper, LinesGrow DEF TypeOK
<1>3. /\ cursorX = Len(ls[n]) /\ cursorY = LastRow(n)
      /\ \A y \in ROW, x \in COL :
           CellShows(vram, ls, cursorY, y, x, cleared /\ <<y, x>> # <<cursorY, cursorX>>)
  BY ScreenIsPicture DEF Pictured, ls
<1>4. v \in Screen /\ cursorX \in COL /\ cursorY \in ROW /\ vram \in Screen
  BY <1>1, PutIsScreen DEF TypeOK
<1>5. /\ n \in Nat \ {0} /\ new \in Papers
      /\ \A i \in 1 .. n - 1 : new[i] = ls[i]
      /\ Len(line) = Cols => Len(new) = n + 1 /\ new[n] = line /\ new[n + 1] = <<>>
      /\ Len(line) # Cols => Len(new) = n /\ new[n] = line
  <2> HIDE DEF ls, new
  <2> QED
    BY <1>1, <1>2, TypedLines
<1>6. /\ ls \in Seq(Seq(Byte)) /\ ls[n] \in Seq(Byte)
      /\ Len(line) = cursorX + 1 /\ line[cursorX + 1] = Upper(c)
      /\ \A i \in 1 .. cursorX : line[i] = ls[n][i]
  BY <1>1, <1>2, <1>3, <1>5, SMTT(30) DEF Papers
<1> HIDE DEF ls, new, line
(* The lines with the character in the last of them are those of v. *)
<1>7. ASSUME NEW full \in Papers, Len(full) = n, full[n] = line,
             \A i \in 1 .. n - 1 : full[i] = ls[i],
             NEW y \in ROW, NEW x \in COL
      PROVE  CellShows(v, full, cursorY, y, x, cleared)
  <2>1. CASE y # cursorY
    <3>1. v[y][x] = vram[y][x]
      BY <1>4, <2>1 DEF Put, Screen
    <3>2. LineIn(full, cursorY, y) = LineIn(ls, cursorY, y)
      <4>1. y <= cursorY => n - cursorY + y \in 1 .. n - 1
        <5>1. y <= cursorY => n - cursorY + y \in 1 .. n
          BY <1>2, <1>3, LineInPaper DEF ls
        <5> QED
          BY <1>4, <1>5, <2>1, <5>1 DEF ROW
      <4> QED
        BY <1>7, <4>1 DEF LineIn
    <3>3. CellShows(vram, ls, cursorY, y, x, cleared)
      BY <1>3, <2>1 DEF CellShows
    <3> QED
      BY <3>1, <3>2, <3>3 DEF CellShows
  <2>2. CASE y = cursorY
    <3>1. LineIn(full, cursorY, y) = line /\ LineIn(ls, cursorY, y) = ls[n]
      BY <1>4, <1>5, <1>7, <2>2 DEF LineIn, ROW
    <3>2. CASE x = cursorX
      BY <1>4, <1>6, <2>2, <3>1, <3>2 DEF CellShows, Put, Screen, COL
    <3>3. CASE x # cursorX
      <4>1. v[y][x] = vram[y][x]
        BY <1>4, <2>2, <3>3 DEF Put, Screen
      <4>2. CellShows(vram, ls, cursorY, y, x, cleared)
        BY <1>3, <3>3 DEF CellShows
      <4>3. x < Len(line) <=> x < Len(ls[n])
        BY <1>3, <1>4, <1>6, <3>3 DEF COL
      <4>4. x < Len(line) => line[x + 1] = ls[n][x + 1]
        BY <1>3, <1>4, <1>6, <3>3 DEF COL
      <4> QED
        BY <3>1, <4>1, <4>2, <4>3, <4>4 DEF CellShows
    <3> QED
      BY <3>2, <3>3
  <2> QED
    BY <2>1, <2>2
<1> HIDE DEF v
<1>8. CASE cursorX + 1 >= Cols
  <2> DEFINE full == [ls EXCEPT ![n] = line]
  <2>1. Len(line) = Cols
    BY <1>4, <1>6, <1>8, DisplayAssumption DEF COL
  <2>2. line \in Seq(Byte)
    BY <1>1, <1>6 DEF line
  <2>3. full \in Papers /\ Len(full) = n /\ full[n] = line /\ \A i \in 1 .. n - 1 : full[i] = ls[i]
    BY <1>5, <1>6, <2>2, ExceptSeq, SMTT(30) DEF Papers
  <2> HIDE DEF full
  <2>4. NextRow(v)
    BY <1>8 DEF PrintGlyph, v
  <2>5. \A i \in 1 .. n : new[i] = full[i]
    BY <1>5, <2>1, <2>3
  <2>6. \A y \in ROW, x \in COL : CellShows(v, full, cursorY, y, x, cleared)
    BY <1>7, <2>3
  <2>7. Pictured(vram', cursorX', cursorY', new, cleared)
    BY <1>3, <1>4, <1>5, <2>1, <2>3, <2>4, <2>5, <2>6, NextRowShows
  <2> QED
    BY <2>7, ScreenIsPicture DEF new
<1>9. CASE ~(cursorX + 1 >= Cols)
  <2>1. /\ vram' = [v EXCEPT ![cursorY][cursorX + 1] = Cursor]
        /\ cursorX' = cursorX + 1 /\ cursorY' = cursorY
    BY <1>9 DEF PrintGlyph, MoveTo, v
  <2>2. Len(new) = n /\ new[n] = line /\ cursorX + 1 \in COL
    BY <1>4, <1>5, <1>6, <1>9, DisplayAssumption DEF COL
  <2>3. \A y \in ROW, x \in COL : CellShows(v, new, cursorY, y, x, cleared)
    BY <1>5, <1>7, <2>2
  <2>4. ASSUME NEW y \in ROW, NEW x \in COL
        PROVE  CellShows(vram', new, cursorY', y, x, cleared /\ <<y, x>> # <<cursorY', cursorX'>>)
    <3>1. <<y, x>> # <<cursorY', cursorX'>> => vram'[y][x] = v[y][x]
      BY <1>4, <2>1, <2>2 DEF Screen
    <3>2. LineIn(new, cursorY', cursorY') = line
      BY <1>4, <1>5, <2>1, <2>2 DEF LineIn, ROW
    <3>3. <<y, x>> = <<cursorY', cursorX'>> => ~(x < Len(LineIn(new, cursorY', y)))
      BY <1>4, <1>6, <2>1, <3>2 DEF COL
    <3> QED
      BY <2>1, <2>3, <3>1, <3>3 DEF CellShows
  <2> QED
    <3>1. Pictured(vram', cursorX', cursorY', new, cleared)
      BY <1>3, <1>6, <2>1, <2>2, <2>4 DEF Pictured
    <3> QED
      BY <3>1, ScreenIsPicture DEF new
<1> QED
  BY <1>8, <1>9

LEMMA ReturnShows ==
  ASSUME TypeOK, ScreenIsOutput, CarriageReturn, out' = Append(out, CR), cleared' = cleared
  PROVE  ScreenIsOutput'
<1> DEFINE ls  == Lines(out)
           new == Lines(out')
           n   == Len(ls)
           v   == Put(Blank)
<1>1. CR \in Byte /\ Blank \in Printing
  BY DEF CR, Byte, Blank, Printing
<1>2. ls \in Papers /\ new = Typed(ls, CR)
  BY <1>1, LinesIsPaper, LinesGrow DEF TypeOK
<1>3. /\ cursorX = Len(ls[n]) /\ cursorY = LastRow(n)
      /\ \A y \in ROW, x \in COL :
           CellShows(vram, ls, cursorY, y, x, cleared /\ <<y, x>> # <<cursorY, cursorX>>)
  BY ScreenIsPicture DEF Pictured, ls
<1>4. v \in Screen /\ cursorX \in COL /\ cursorY \in ROW /\ vram \in Screen
  BY <1>1, PutIsScreen DEF TypeOK
<1> HIDE DEF ls, new
<1>5. /\ n \in Nat \ {0} /\ new \in Papers /\ Len(new) = n + 1
      /\ \A i \in 1 .. n : new[i] = ls[i]
      /\ new[n + 1] = <<>>
  <2>1. /\ n \in Nat \ {0} /\ new \in Papers /\ Len(new) = n + 1
        /\ \A i \in 1 .. n - 1 : new[i] = ls[i]
        /\ new[n] = ls[n] /\ new[n + 1] = <<>>
    BY <1>1, <1>2, TypedLines
  <2>2. \A i \in 1 .. n : i = n \/ i \in 1 .. n - 1
    BY <2>1
  <2> QED
    BY <2>1, <2>2
<1>6. ASSUME NEW y \in ROW, NEW x \in COL
      PROVE  CellShows(v, ls, cursorY, y, x, cleared)
  <2>1. CASE <<y, x>> # <<cursorY, cursorX>>
    <3>1. v[y][x] = vram[y][x]
      BY <1>4, <2>1 DEF Put, Screen
    <3>2. CellShows(vram, ls, cursorY, y, x, cleared)
      BY <1>3, <2>1 DEF CellShows
    <3> QED
      BY <3>1, <3>2 DEF CellShows
  <2>2. CASE <<y, x>> = <<cursorY, cursorX>>
    <3>1. LineIn(ls, cursorY, y) = ls[n] /\ ~(x < Len(ls[n]))
      BY <1>3, <1>4, <1>5, <2>2 DEF LineIn, ROW, COL
    <3>2. v[y][x] = Blank
      BY <1>4, <2>2 DEF Put, Screen
    <3> QED
      BY <3>1, <3>2 DEF CellShows
  <2> QED
    BY <2>1, <2>2
<1>7. NextRow(v)
  BY DEF CarriageReturn
<1> HIDE DEF v
<1>8. Pictured(vram', cursorX', cursorY', new, cleared)
  BY <1>2, <1>3, <1>4, <1>5, <1>6, <1>7, NextRowShows
<1> QED
  BY <1>8, ScreenIsPicture DEF new

LEMMA NothingShows ==
  ASSUME out' = <<>>, cursorX' = 0, cursorY' = 0,
         cleared' => \A y \in ROW, x \in COL : <<y, x>> # <<0, 0>> => vram'[y][x] = Blank
  PROVE  ScreenIsOutput'
<1>1. Lines(out') = NoText
  BY LinesOfNothing
<1>2. LastRow(Len(NoText)) = 0 /\ Len(NoText[Len(NoText)]) = 0
  BY NoTextIsPaper, DisplayAssumption DEF LastRow
<1>3. ASSUME NEW y \in ROW, NEW x \in COL
      PROVE  CellShows(vram', NoText, 0, y, x, cleared' /\ <<y, x>> # <<0, 0>>)
  <2>1. LineIn(NoText, 0, y) = <<>>
    BY NoTextIsPaper DEF LineIn, ROW
  <2>2. ~(x < Len(<<>>))
    BY DEF COL
  <2> QED
    BY <2>1, <2>2 DEF CellShows
<1>4. Pictured(vram', cursorX', cursorY', NoText, cleared')
  BY <1>2, <1>3 DEF Pictured
<1> QED
  BY <1>1, <1>4, ScreenIsPicture

LEMMA ScreenStays ==
  ASSUME ScreenIsOutput, UNCHANGED <<vram, cursorX, cursorY, out, cleared>>
  PROVE  ScreenIsOutput'
BY ScreenIsPicture

LEMMA InitShows == Init => ScreenIsOutput
<1> SUFFICES ASSUME Init PROVE ScreenIsOutput
  OBVIOUS
<1>1. Lines(out) = NoText
  BY LinesOfNothing DEF Init
<1>2. LastRow(Len(NoText)) = 0 /\ Len(NoText[Len(NoText)]) = 0
  BY NoTextIsPaper, DisplayAssumption DEF LastRow
<1>3. ASSUME NEW y \in ROW, NEW x \in COL
      PROVE  CellShows(vram, NoText, 0, y, x, FALSE)
  <2>1. LineIn(NoText, 0, y) = <<>>
    BY NoTextIsPaper DEF LineIn, ROW
  <2>2. ~(x < Len(<<>>))
    BY DEF COL
  <2> QED
    BY <2>1, <2>2 DEF CellShows
<1>4. Pictured(vram, cursorX, cursorY, NoText, cleared)
  BY <1>2, <1>3 DEF Pictured, Init
<1> QED
  BY <1>1, <1>4, ScreenIsPicture

-----------------------------------------------------------------------------
LEMMA InitInv == Init => DisplayInv
<1> SUFFICES ASSUME Init PROVE DisplayInv
  OBVIOUS
<1>1. TypeOK
  BY Corners, Blanks, ClearedHostIsText, NothingPrinted DEF Init, TypeOK, Screen, Cell
<1>2. vram[cursorY][cursorX] = Cursor
  BY Corners, DisplayAssumption DEF Init, Checkerboard
<1> QED
  BY <1>1, <1>2, InitShows DEF Init, DisplayInv, OneCursor, ShadowIsHost

(* term_write, for whatever the guest prints *)
LEMMA PrintInv ==
  ASSUME DisplayInv, GuestPrints
  PROVE  DisplayInv'
<1> USE DEF DisplayInv
<1>1. PICK code \in Codes : TermWrite(code)
  BY DEF GuestPrints
<1> DEFINE val == code % 128
<1>2. val \in Byte
  BY DisplayAssumption DEF Byte
<1>3. /\ Placed
      /\ vram'[cursorY'][cursorX'] = Cursor
      /\ cleared => OnlyCursor
  <2>1. CASE CarriageReturn
    BY <2>1, PutIsScreen, NextRowPlaces DEF CarriageReturn, Blank, Printing, TypeOK
  <2>2. CASE val \in Printing /\ PrintGlyph(val)
    <3> DEFINE v == Put(Upper(val))
    <3>1. v \in Screen /\ (cleared => NoCursor(v))
      BY <2>2, UpperIsPrintable, PutIsScreen
    <3>2. CASE cursorX + 1 >= Cols
      <4>1. NextRow(v)
        BY <2>2, <3>2 DEF PrintGlyph
      <4> QED
        BY <4>1, <3>1, NextRowPlaces DEF TypeOK
    <3>3. CASE ~(cursorX + 1 >= Cols)
      <4>1. MoveTo(v, cursorY, cursorX + 1)
        BY <2>2, <3>3 DEF PrintGlyph
      <4>2. cursorX + 1 \in COL /\ cursorY \in ROW
        BY <3>3, DisplayAssumption DEF TypeOK, COL
      <4> QED
        BY <4>1, <4>2, <3>1, MoveToPlaces
    <3> QED
      BY <3>2, <3>3
  <2>3. CASE UNCHANGED screenVars
    BY <2>3 DEF screenVars, TypeOK, OneCursor, Placed, OnlyCursor
  <2> QED
    BY <1>1, <2>1, <2>2, <2>3 DEF TermWrite
<1>4. out' \in Seq(Byte) /\ Len(out') <= MaxOut
  <2>1. out' = out \/ out' = Append(out, val)
    BY <1>1 DEF TermWrite
  <2>2. Len(out) < MaxOut /\ out \in Seq(Byte) /\ MaxOut \in Nat
    BY DisplayAssumption DEF GuestPrints, TypeOK
  <2> HIDE DEF val
  <2>3. CASE out' = out
    BY <2>2, <2>3
  <2>4. CASE out' = Append(out, val)
    BY <1>2, <2>2, <2>4
  <2> QED
    BY <2>1, <2>3, <2>4
<1>5. UNCHANGED <<shadow, shadowBlink, shadowValid, pasteActive, host, loc, cleared, marred>>
  BY DEF GuestPrints, shadowVars
<1>6. TypeOK'
  BY <1>3, <1>4, <1>5 DEF TypeOK, Placed
<1>7. OneCursor'
  BY <1>3, <1>5 DEF OneCursor, OnlyCursor
<1>8. ShadowIsHost'
  BY <1>5 DEF ShadowIsHost, RenderRow
<1>9. ScreenIsOutput'
  <2>1. CASE val = CR /\ CarriageReturn
    <3>1. out' = Append(out, CR)
      BY <1>1, <2>1 DEF TermWrite
    <3> QED
      BY <1>5, <2>1, <3>1, ReturnShows
  <2>2. CASE val \in Printing /\ PrintGlyph(val)
    <3>1. out' = Append(out, val)
      BY <1>1, <2>2 DEF TermWrite
    <3> HIDE DEF val
    <3> QED
      BY <1>5, <2>2, <3>1, GlyphShows
  <2>3. CASE val # CR /\ val \notin Printing /\ UNCHANGED screenVars
    <3>1. out' = out
      BY <1>1, <2>3 DEF TermWrite
    <3> QED
      BY <1>5, <2>3, <3>1, ScreenStays DEF screenVars
  <2> QED
    BY <1>1, <2>1, <2>2, <2>3 DEF TermWrite
<1> QED
  BY <1>6, <1>7, <1>8, <1>9

(* What other text leaves of the terminal is still text. *)
LEMMA OtherTextIsText ==
  ASSUME DisplayInv, OtherText
  PROVE  host' \in [ROW -> [COL -> Cell \union {Other}]] /\ marred' \subseteq ROW
<1>1. OtherRow \in [COL -> Cell \union {Other}]
  BY DEF OtherRow
<1>2. host \in [ROW -> [COL -> Cell \union {Other}]] /\ marred \subseteq ROW
  BY DEF DisplayInv, TypeOK
<1>3. CASE \E y \in ROW : host' = [host EXCEPT ![y] = OtherRow] /\ marred' = marred \union {y}
  BY <1>1, <1>2, <1>3
<1>4. CASE host' = [ScrollUp(host) EXCEPT ![Rows - 1] = OtherRow] /\ marred' = ROW
  <2>1. BlankRow \in [COL -> Cell \union {Other}]
    BY Blanks
  <2>2. \A y \in ROW : y < Rows - 1 => y + 1 \in ROW
    BY DisplayAssumption DEF ROW
  <2>3. ScrollUp(host) \in [ROW -> [COL -> Cell \union {Other}]]
    BY <1>2, <2>1, <2>2 DEF ScrollUp
  <2> QED BY <1>1, <1>4, <2>3
<1> QED BY <1>3, <1>4 DEF OtherText

(* A row that a repaint leaves out would be painted as it was. *)
LEMMA SkippedRow ==
  ASSUME NEW blink \in BOOLEAN, NEW y \in ROW, ~NeedsRepaint(y, blink)
  PROVE  /\ shadowValid /\ vram[y] = shadow[y]
         /\ RenderRow(vram[y], blink) = RenderRow(shadow[y], shadowBlink)
<1>1. shadowValid /\ vram[y] = shadow[y]
  BY DEF NeedsRepaint
<1>2. CASE blink = shadowBlink
  BY <1>1, <1>2
<1>3. CASE blink # shadowBlink
  <2>1. \A x \in COL : vram[y][x] # Cursor
    BY <1>3 DEF NeedsRepaint
  <2>2. \A x \in COL : Shows(vram[y][x], blink) = Shows(vram[y][x], shadowBlink)
    BY <2>1 DEF Shows
  <2>3. RenderRow(vram[y], blink) = RenderRow(vram[y], shadowBlink)
    BY <2>2 DEF RenderRow
  <2> QED BY <1>1, <2>3
<1> QED BY <1>1, <1>2, <1>3

(* The step of a repaint: each row is either painted, or shows what painting it
   would show, or is spoiled. *)
LEMMA RepaintShows ==
  ASSUME DisplayInv, NEW blink \in BOOLEAN, Repaint(blink)
  PROVE  /\ \A y \in ROW : host'[y] = RenderRow(vram[y], blink) \/ (y \in marred' /\ Spoiled(y, blink))
         /\ \A y \in ROW : shadow'[y] = vram[y]
         /\ marred' \subseteq marred
<1>1. host' = [y \in ROW |-> IF NeedsRepaint(y, blink) THEN RenderRow(vram[y], blink) ELSE host[y]]
  BY DEF Repaint
<1>2. shadow' = [y \in ROW |-> IF NeedsRepaint(y, blink) THEN vram[y] ELSE shadow[y]]
  BY DEF Repaint
<1>3. marred' = {y \in marred : ~NeedsRepaint(y, blink)}
  BY DEF Repaint
<1>4. ASSUME NEW y \in ROW, ~NeedsRepaint(y, blink)
      PROVE  /\ shadow[y] = vram[y]
             /\ host[y] = RenderRow(vram[y], blink) \/ (y \in marred /\ Spoiled(y, blink))
  <2>1. shadowValid /\ vram[y] = shadow[y] /\ RenderRow(vram[y], blink) = RenderRow(shadow[y], shadowBlink)
    BY <1>4, SkippedRow
  <2>2. CASE y \in marred
    BY <2>1, <2>2 DEF Spoiled
  <2>3. CASE y \notin marred
    BY <2>1, <2>3 DEF DisplayInv, ShadowIsHost
  <2> QED BY <2>1, <2>2, <2>3
<1> HIDE DEF NeedsRepaint
<1> QED
  BY <1>1, <1>2, <1>3, <1>4

LEMMA RenderIsText ==
  ASSUME TypeOK, NEW blink \in BOOLEAN, NEW y \in ROW
  PROVE  RenderRow(vram[y], blink) \in [COL -> Cell \union {Other}]
BY DEF TypeOK, Screen, RenderRow, Shows, Cell, At, Blank, Cursor

LEMMA RepaintInv ==
  ASSUME DisplayInv, NEW blink \in BOOLEAN, TermUpdate(blink)
  PROVE  DisplayInv'
<1>1. Repaint(blink) /\ loc = "loop"
  BY DEF TermUpdate
<1>2. /\ shadowBlink' = blink /\ shadowValid' = TRUE
      /\ UNCHANGED <<vram, cursorX, cursorY, pasteActive, loc, out, cleared>>
  BY <1>1 DEF Repaint, screenVars, history
<1>3. /\ \A y \in ROW : host'[y] = RenderRow(vram[y], blink) \/ y \in marred'
      /\ \A y \in ROW : shadow'[y] = vram[y]
      /\ marred' \subseteq marred
  BY <1>1, RepaintShows
<1>4. host' \in [ROW -> [COL -> Cell \union {Other}]]
  BY <1>1, RenderIsText DEF DisplayInv, TypeOK, Repaint
<1>5. shadow' \in Screen
  BY <1>1 DEF Repaint, DisplayInv, TypeOK, Screen
<1>6. TypeOK'
  BY <1>2, <1>3, <1>4, <1>5 DEF DisplayInv, TypeOK
<1>7. OneCursor'
  BY <1>2 DEF DisplayInv, OneCursor
<1>8. ShadowIsHost'
  BY <1>2, <1>3 DEF ShadowIsHost, RenderRow
<1>9. ScreenIsOutput'
  BY <1>2, ScreenStays DEF DisplayInv
<1> QED
  BY <1>6, <1>7, <1>8, <1>9 DEF DisplayInv

(* The actions that leave the screen alone, or start it afresh *)
LEMMA ClearKeyInv ==
  ASSUME DisplayInv, PressClear
  PROVE  DisplayInv'
<1>1. /\ vram' = [BlankScreen EXCEPT ![0][0] = Cursor] /\ cursorX' = 0 /\ cursorY' = 0
      /\ out' = <<>> /\ cleared' = TRUE
      /\ UNCHANGED <<shadow, shadowBlink, shadowValid, pasteActive, host, loc, marred>>
  BY DEF PressClear, shadowVars
<1>2. NoCursor(BlankScreen)
  BY DEF NoCursor, BlankScreen, BlankRow, Blank, Cursor
<1>3. MoveTo(BlankScreen, 0, 0)
  BY <1>1 DEF MoveTo
<1>4. Placed /\ vram'[cursorY'][cursorX'] = Cursor /\ OnlyCursor
  BY <1>2, <1>3, MoveToPlaces, Blanks, Corners
<1>5. TypeOK'
  BY <1>1, <1>4, DisplayAssumption DEF DisplayInv, TypeOK, Placed
<1>6. OneCursor'
  BY <1>4 DEF OneCursor, OnlyCursor
<1>7. ShadowIsHost'
  BY <1>1 DEF DisplayInv, ShadowIsHost, RenderRow
<1>8. ScreenIsOutput'
  <2>1. \A y \in ROW, x \in COL : <<y, x>> # <<0, 0>> => vram'[y][x] = Blank
    BY <1>1, Corners DEF BlankScreen, BlankRow
  <2> QED
    BY <1>1, <2>1, NothingShows
<1> QED
  BY <1>5, <1>6, <1>7, <1>8 DEF DisplayInv

LEMMA ShutdownInv ==
  ASSUME DisplayInv, TermShutdown, UNCHANGED <<screenVars, pasteActive, history>>,
         loc' \in {"loop", "prompt", "ended"}
  PROVE  DisplayInv'
<1>1. ScreenIsOutput'
  BY ScreenStays DEF DisplayInv, screenVars, history
<1> QED
  BY <1>1, ClearedHostIsText DEF DisplayInv, TypeOK, OneCursor, ShadowIsHost, TermShutdown, ClearHost,
     screenVars, history

LEMMA StartInv ==
  ASSUME DisplayInv, TermInit, loc' = "loop"
  PROVE  DisplayInv'
<1>1. /\ vram' = Checkerboard /\ cursorX' = 0 /\ cursorY' = 0 /\ pasteActive' = FALSE
      /\ host' = BlankScreen /\ marred' = {} /\ shadowValid' = FALSE /\ out' = <<>> /\ cleared' = FALSE
      /\ UNCHANGED <<shadow, shadowBlink>>
  BY DEF TermInit, ClearHost
<1>2. TypeOK'
  BY <1>1, Corners, Blanks, ClearedHostIsText, NothingPrinted DEF DisplayInv, TypeOK
<1>3. vram'[cursorY'][cursorX'] = Cursor
  BY <1>1, Corners DEF Checkerboard
<1>4. ScreenIsOutput'
  BY <1>1, NothingShows
<1> QED
  BY <1>1, <1>2, <1>3, <1>4 DEF DisplayInv, OneCursor, ShadowIsHost

LEMMA NextInv == DisplayInv /\ [Next]_vars => DisplayInv'
<1> SUFFICES ASSUME DisplayInv, [Next]_vars PROVE DisplayInv'
  OBVIOUS
<1>1. CASE GuestPrints
  BY <1>1, PrintInv
<1>2. ASSUME NEW blink \in BOOLEAN, TermUpdate(blink) PROVE DisplayInv'
  BY <1>2, RepaintInv
<1>3. CASE PressClear
  BY <1>3, ClearKeyInv
<1>4. CASE PasteBrackets
  <2>1. UNCHANGED <<vram, cursorX, cursorY, shadow, shadowBlink, shadowValid, host, loc, out, cleared, marred>>
        /\ pasteActive' \in BOOLEAN
    BY <1>4 DEF PasteBrackets, screenVars, shadowVars, history
  <2>2. ScreenIsOutput'
    BY <2>1, ScreenStays DEF DisplayInv
  <2> QED
    BY <2>1, <2>2 DEF DisplayInv, TypeOK, OneCursor, ShadowIsHost, RenderRow
<1>5. CASE PressQuit
  BY <1>5, ShutdownInv DEF PressQuit
<1>6. CASE OpenPrompt
  BY <1>6, ShutdownInv DEF OpenPrompt
<1>7. CASE OtherText
  <2>1. UNCHANGED <<vram, cursorX, cursorY, shadow, shadowBlink, shadowValid, pasteActive, loc, out, cleared>>
    BY <1>7 DEF OtherText, screenVars, shadowVars, history
  <2>2. host' \in [ROW -> [COL -> Cell \union {Other}]] /\ marred' \subseteq ROW
    BY <1>7, OtherTextIsText
  <2>3. ASSUME NEW y \in ROW \ marred' PROVE host'[y] = host[y] /\ y \notin marred
    BY <1>7, <2>3 DEF OtherText, DisplayInv, TypeOK
  <2>4. ScreenIsOutput'
    BY <2>1, ScreenStays DEF DisplayInv
  <2>5. ShadowIsHost'
    BY <2>1, <2>3 DEF DisplayInv, ShadowIsHost, RenderRow
  <2> QED
    BY <2>1, <2>2, <2>4, <2>5 DEF DisplayInv, TypeOK, OneCursor
<1>8. CASE LeavePrompt
  BY <1>8, StartInv DEF LeavePrompt
<1>9. CASE QuitPrompt
  <2>1. UNCHANGED <<vram, cursorX, cursorY, shadow, shadowBlink, shadowValid, pasteActive, host, out, cleared, marred>>
        /\ loc' = "ended"
    BY <1>9 DEF QuitPrompt, screenVars, shadowVars, history
  <2>2. ScreenIsOutput'
    BY <2>1, ScreenStays DEF DisplayInv
  <2> QED
    BY <2>1, <2>2 DEF DisplayInv, TypeOK, OneCursor, ShadowIsHost, RenderRow
<1>10. CASE UNCHANGED vars
  <2>1. UNCHANGED <<vram, cursorX, cursorY, shadow, shadowBlink, shadowValid, pasteActive, host, loc, out, cleared, marred>>
    BY <1>10 DEF vars, screenVars, shadowVars, history
  <2>2. ScreenIsOutput'
    BY <2>1, ScreenStays DEF DisplayInv
  <2> QED
    BY <2>1, <2>2 DEF DisplayInv, TypeOK, OneCursor, ShadowIsHost, RenderRow
<1> QED
  BY <1>1, <1>2, <1>3, <1>4, <1>5, <1>6, <1>7, <1>8, <1>9, <1>10 DEF Next

-----------------------------------------------------------------------------
(* The invariant of every behaviour of the display. *)
THEOREM InductiveInvariant == Spec => []DisplayInv
<1>1. Init => DisplayInv
  BY InitInv
<1>2. DisplayInv /\ [Next]_vars => DisplayInv'
  BY NextInv
<1> QED
  BY <1>1, <1>2, PTL DEF Spec

(* term_write never moves the cursor off the screen, wherever a line wraps or
   the screen scrolls, and stores nothing but printable cells and cursors.   *)
THEOREM TypeCorrect == Spec => []TypeOK
<1>1. DisplayInv => TypeOK
  BY DEF DisplayInv
<1> QED
  BY <1>1, InductiveInvariant, PTL

(* The cursor cell marks where the next character goes; after ^L it is the
   only one on the screen, however the text wraps and scrolls.               *)
THEOREM CursorIsUnique == Spec => []OneCursor
<1>1. DisplayInv => OneCursor
  BY DEF DisplayInv
<1> QED
  BY <1>1, InductiveInvariant, PTL

(* However the text wraps and scrolls, the screen is the last lines of what
   was printed since it was cleared and nothing else: term_write agrees with
   the paper of Lines for every text and every screen.                       *)
THEOREM ScreenShowsOutput == Spec => []ScreenIsOutput
<1>1. DisplayInv => ScreenIsOutput
  BY DEF DisplayInv
<1> QED
  BY <1>1, InductiveInvariant, PTL

(* Skipping the rows that equal the shadow loses nothing of the screen: after
   term_update every row stands on the terminal, but for those that the trace,
   a warning or the prompt wrote over and that nothing has changed since.     *)
THEOREM RepaintIsComplete == Spec => UpdateShowsScreen
<1>1. DisplayInv /\ [Next]_vars
        => [\A blink \in BOOLEAN : TermUpdate(blink) =>
              \A y \in ROW : host'[y] = RenderRow(vram[y], blink) \/ Spoiled(y, blink)]_vars
  BY RepaintShows DEF TermUpdate
<1> QED
  BY <1>1, InductiveInvariant, PTL DEF Spec, UpdateShowsScreen
=============================================================================
