---------------------------- MODULE ConsoleProofs ---------------------------
(***************************************************************************)
(* Proofs about the console for every number of rows and columns, every    *)
(* glyph size, every frame buffer and every sequence of strings printed.   *)
(***************************************************************************)
EXTENDS Console, TLAPS

USE SizeAssumption, CharacterAssumption, StringAssumption, FrameSizeAssumption

(***************************************************************************)
(* The inductive invariant.  Before init the text is empty; between two    *)
(* characters the cursor is at the end of its line and the rows below are  *)
(* empty; during a scroll the cursor is on the last row and the rows the   *)
(* loop has not reached are blank on the screen.                           *)
(***************************************************************************)
BootInv ==
  pc = "boot" => input = << >> /\ buffer = NoText /\ cursor_row = 0

LinesFit == \A r \in Rows : Len(buffer[r]) <= COLUMNS - 1

CursorInv ==
  pc = "print" =>
    /\ Len(buffer[cursor_row]) = cursor_column
    /\ \A r \in Rows : r > cursor_row => buffer[r] = << >>

ScrollInv ==
  pc = "scroll" =>
    /\ cursor_row = ROWS - 1
    /\ cursor_column = 0
    /\ input # << >>
    /\ Head(input) = LineFeed

FitInv == pc \in {"print", "scroll"} => ScreenInside

ShowInv ==
  pc = "scroll" =>
    \A r \in Rows, c \in Columns :
       screen[r][c] = IF r < row THEN Glyph(buffer[r], c) ELSE {}

IInv ==
  /\ TypeOK
  /\ BootInv
  /\ LinesFit
  /\ CursorInv
  /\ ScrollInv
  /\ FitInv
  /\ ShowInv
  /\ ScreenShowsBuffer
  /\ UnwrapsHold

-----------------------------------------------------------------------------
\* A cell of n pixels that is not past the last one ends inside the m cells.
LEMMA CellEnd ==
  ASSUME NEW n \in Nat, NEW m \in Nat, NEW c \in Nat, c < m
  PROVE  n * c + n <= m * n /\ n * c \in Nat /\ m * n \in Nat
<1>1. n * c \in Nat /\ m * n \in Nat
  OBVIOUS
<1>2. PICK d \in Nat : m = c + 1 + d
  <2>1. m - c - 1 \in Nat /\ m = c + 1 + (m - c - 1)
    OBVIOUS
  <2> QED
    BY <2>1
<1>3. m * n = n * c + n + d * n /\ d * n \in Nat
  BY <1>2
<1> QED
  BY <1>1, <1>3

\* If the console fits in the frame buffer, each of its cells does
\* (frame_buffer.rs:121-155).
LEMMA CellFits ==
  ASSUME TypeOK, ScreenInside, NEW r \in Rows, NEW c \in Columns
  PROVE  CellInside(r, c)
<1>1. /\ CHARACTER_WIDTH * c + CHARACTER_WIDTH <= COLUMNS * CHARACTER_WIDTH
      /\ CHARACTER_WIDTH * c \in Nat /\ COLUMNS * CHARACTER_WIDTH \in Nat
  BY CellEnd DEF Columns
<1>2. /\ CHARACTER_HEIGHT * r + CHARACTER_HEIGHT <= ROWS * CHARACTER_HEIGHT
      /\ CHARACTER_HEIGHT * r \in Nat /\ ROWS * CHARACTER_HEIGHT \in Nat
  BY CellEnd DEF Rows
<1>3. frame.width \in Nat /\ frame.height \in Nat
  BY DEF TypeOK
<1>4. /\ ~ (0 + COLUMNS * CHARACTER_WIDTH - 1 >= frame.width)
      /\ ~ (0 + ROWS * CHARACTER_HEIGHT - 1 >= frame.height)
  BY DEF ScreenInside, RectInside, is_inside_buffer
<1> DEFINE x == CHARACTER_WIDTH * c
           y == CHARACTER_HEIGHT * r
           w == COLUMNS * CHARACTER_WIDTH
           h == ROWS * CHARACTER_HEIGHT
<1>5. x \in Nat /\ y \in Nat /\ w \in Nat /\ h \in Nat
      /\ x + CHARACTER_WIDTH <= w /\ y + CHARACTER_HEIGHT <= h
      /\ ~ (0 + w - 1 >= frame.width) /\ ~ (0 + h - 1 >= frame.height)
  BY <1>1, <1>2, <1>4
<1> HIDE DEF x, y, w, h
<1>6. ~ (x + CHARACTER_WIDTH - 1 >= frame.width)
      /\ ~ (y + CHARACTER_HEIGHT - 1 >= frame.height)
  BY <1>3, <1>5
<1> QED
  BY <1>6 DEF CellInside, RectInside, is_inside_buffer, x, y

\* A line with one more character.
LEMMA AppendFacts ==
  ASSUME NEW S, NEW line \in Seq(S), NEW e \in S
  PROVE  /\ Len(Append(line, e)) = Len(line) + 1
         /\ Append(line, e)[Len(line) + 1] = e
         /\ \A k \in 1 .. Len(line) : Append(line, e)[k] = line[k]
OBVIOUS

\* What the cells of a row show: the line's characters, and nothing past them.
LEMMA GlyphFacts ==
  ASSUME NEW line, NEW c \in Nat
  PROVE  /\ c < Len(line) => Glyph(line, c) = {line[c + 1]}
         /\ ~ (c < Len(line)) => Glyph(line, c) = {}
BY DEF Glyph

\* The initial state satisfies the invariant.
LEMMA InvInit == Init => IInv
<1> SUFFICES ASSUME Init PROVE IInv
  OBVIOUS
<1>1. TypeOK
  BY DEF Init, TypeOK, NoText, Blank, Rows, Columns
<1>2. LinesFit
  BY DEF Init, LinesFit, NoText, Rows
<1> QED
  BY <1>1, <1>2 DEF Init, IInv, BootInv, CursorInv, ScrollInv, FitInv, ShowInv,
                    ScreenShowsBuffer, UnwrapsHold

\* Facts about the strings print works on: what is left after a character is
\* again a string, and its first character is printable unless it is a line feed.
LEMMA InputFacts ==
  ASSUME TypeOK, input # << >>
  PROVE  /\ Tail(input) \in Seq(Printable \union {LineFeed})
         /\ Head(input) \in Printable \union {LineFeed}
BY DEF TypeOK

\* Drawing a character keeps the screen in step with the text and leaves room
\* in the line for the next one (console.rs:148-157).
LEMMA PrintCharStep == IInv /\ PrintChar => IInv'
<1> SUFFICES ASSUME IInv, PrintChar PROVE IInv'
  OBVIOUS
<1>1. /\ TypeOK /\ LinesFit /\ ScreenInside /\ pc = "print" /\ input # << >>
      /\ panic \in {"none", "init", "as_ascii"}
      /\ Len(buffer[cursor_row]) = cursor_column
      /\ \A r \in Rows : r > cursor_row => buffer[r] = << >>
      /\ \A r \in Rows, c \in Columns : screen[r][c] = Glyph(buffer[r], c)
  BY DEF IInv, PrintChar, Printing, FitInv, CursorInv, ScreenShowsBuffer, UnwrapsHold
<1>2. CellInside(cursor_row, cursor_column)
  BY <1>1, CellFits DEF TypeOK
<1>3. cursor_column \in Columns /\ cursor_row \in Rows /\ cursor_column < COLUMNS - 1
  BY <1>1 DEF TypeOK, PrintChar, LineHasRoom
<1>4. /\ screen' = write_char(screen, cursor_row, cursor_column, Head(input))
      /\ buffer' = [buffer EXCEPT ![cursor_row] = Append(@, Head(input))]
      /\ cursor_column' = cursor_column + 1
      /\ input' = Tail(input)
      /\ UNCHANGED <<pc, panic, frame, cursor_row, row>>
  BY <1>1, <1>2, <1>3 DEF PrintChar, Columns
<1>5. Head(input) \in Printable /\ Tail(input) \in Seq(Printable \union {LineFeed})
  BY <1>1, InputFacts DEF PrintChar, Printing
<1>6. /\ buffer' \in [Rows -> Seq(Printable)]
      /\ \A r \in Rows : r # cursor_row => buffer'[r] = buffer[r]
      /\ buffer'[cursor_row] = Append(buffer[cursor_row], Head(input))
      /\ buffer[cursor_row] \in Seq(Printable)
  BY <1>1, <1>3, <1>4, <1>5 DEF TypeOK
<1>7. /\ screen' \in [Rows -> [Columns -> SUBSET Printable]]
      /\ \A r \in Rows, c \in Columns :
           screen'[r][c] = IF r = cursor_row /\ c = cursor_column
                             THEN screen[r][c] \union {Head(input)} ELSE screen[r][c]
  <2>1. DOMAIN screen = Rows /\ \A r \in Rows : screen[r] \in [Columns -> SUBSET Printable]
    BY <1>1 DEF TypeOK
  <2>2. screen'[cursor_row] = [screen[cursor_row] EXCEPT
                                 ![cursor_column] = @ \union {Head(input)}]
    BY <2>1, <1>3, <1>4 DEF write_char
  <2>3. \A r \in Rows : r # cursor_row => screen'[r] = screen[r]
    BY <2>1, <1>4 DEF write_char
  <2>4. /\ screen'[cursor_row] \in [Columns -> SUBSET Printable]
        /\ \A c \in Columns :
             screen'[cursor_row][c] = IF c = cursor_column
                                        THEN screen[cursor_row][c] \union {Head(input)}
                                        ELSE screen[cursor_row][c]
    <3> DEFINE cells == screen[cursor_row]
               shown == cells[cursor_column] \union {Head(input)}
    <3>1. cells \in [Columns -> SUBSET Printable]
      BY <2>1, <1>3
    <3>2. shown \in SUBSET Printable
      BY <3>1, <1>3, <1>5
    <3>3. screen'[cursor_row] = [cells EXCEPT ![cursor_column] = shown]
      BY <2>2
    <3> HIDE DEF cells, shown
    <3>4. /\ screen'[cursor_row] \in [Columns -> SUBSET Printable]
          /\ \A c \in Columns :
               screen'[cursor_row][c] = IF c = cursor_column THEN shown ELSE cells[c]
      BY <3>1, <3>2, <3>3, <1>3
    <3> QED
      BY <3>4 DEF cells, shown
  <2>5. screen' \in [Rows -> [Columns -> SUBSET Printable]]
    BY <2>1, <2>3, <2>4, <1>4 DEF write_char
  <2> QED
    BY <2>3, <2>4, <2>5
<1>8. TypeOK'
  <2>1. cursor_column' \in Columns /\ input' \in Seq(Printable \union {LineFeed})
    BY <1>3, <1>4, <1>5 DEF Columns
  <2>2. /\ buffer' \in [Rows -> Seq(Printable)]
        /\ screen' \in [Rows -> [Columns -> SUBSET Printable]]
    BY <1>6, <1>7
  <2>3. UNCHANGED <<pc, panic, frame, cursor_row, row>>
    BY <1>4
  <2> QED
    BY <1>1, <2>1, <2>2, <2>3 DEF TypeOK
<1>9. Len(buffer'[cursor_row]) = cursor_column + 1
  BY <1>1, <1>5, <1>6, AppendFacts
<1>10. LinesFit' /\ CursorInv'
  <2>1. cursor_column + 1 <= COLUMNS - 1
    BY <1>3, SizeAssumption DEF Columns
  <2>2. \A r \in Rows : Len(buffer'[r]) <= COLUMNS - 1
    <3> SUFFICES ASSUME NEW r \in Rows PROVE Len(buffer'[r]) <= COLUMNS - 1
      OBVIOUS
    <3>1. CASE r = cursor_row
      BY <3>1, <2>1, <1>9
    <3>2. CASE r # cursor_row
      <4>1. buffer'[r] = buffer[r]
        BY <3>2, <1>6
      <4>2. Len(buffer[r]) <= COLUMNS - 1
        BY <1>1 DEF LinesFit
      <4> QED
        BY <4>1, <4>2
    <3> QED
      BY <3>1, <3>2
  <2>3. \A r \in Rows : r > cursor_row => buffer'[r] = << >>
    <3> SUFFICES ASSUME NEW r \in Rows, r > cursor_row PROVE buffer'[r] = << >>
      OBVIOUS
    <3>1. r # cursor_row
      BY <1>3 DEF Rows
    <3>2. buffer'[r] = buffer[r]
      BY <3>1, <1>6
    <3> QED
      BY <3>2, <1>1
  <2>4. cursor_row' = cursor_row /\ cursor_column' = cursor_column + 1
    BY <1>4
  <2> QED
    BY <2>2, <2>3, <2>4, <1>9 DEF LinesFit, CursorInv
<1>11. ScreenShowsBuffer'
  <2> SUFFICES ASSUME NEW r \in Rows, NEW c \in Columns
               PROVE  screen'[r][c] = Glyph(buffer'[r], c)
    BY DEF ScreenShowsBuffer
  <2>1. CASE r # cursor_row
    <3>1. buffer'[r] = buffer[r]
      BY <2>1, <1>6
    <3>2. screen'[r][c] = screen[r][c]
      BY <2>1, <1>7
    <3>3. screen[r][c] = Glyph(buffer[r], c)
      BY <1>1
    <3> QED
      BY <3>1, <3>2, <3>3
  <2>0. c \in Nat /\ cursor_column \in Nat
    BY <1>3 DEF Columns
  <2>2. CASE r = cursor_row /\ c # cursor_column
    <3>1. screen'[r][c] = Glyph(buffer[r], c)
      BY <2>2, <1>1, <1>7
    <3>2. CASE c < cursor_column
      <4>1. c + 1 \in 1 .. Len(buffer[r])
        BY <3>2, <2>0, <2>2, <1>1
      <4>2. buffer'[r][c + 1] = buffer[r][c + 1]
        BY <4>1, <2>2, <1>5, <1>6, AppendFacts
      <4>3. c < Len(buffer[r]) /\ c < Len(buffer'[r])
        BY <3>2, <2>0, <2>2, <1>1, <1>9
      <4>4. Glyph(buffer[r], c) = {buffer[r][c + 1]}
        BY <4>3, <2>0, GlyphFacts
      <4>5. Glyph(buffer'[r], c) = {buffer'[r][c + 1]}
        BY <4>3, <2>0, GlyphFacts
      <4> QED
        BY <4>2, <4>4, <4>5, <3>1
    <3>3. CASE ~ (c < cursor_column)
      <4>1. ~ (c < Len(buffer[r])) /\ ~ (c < Len(buffer'[r]))
        BY <3>3, <2>0, <2>2, <1>1, <1>9
      <4>2. Glyph(buffer[r], c) = {}
        BY <4>1, <2>0, GlyphFacts
      <4>3. Glyph(buffer'[r], c) = {}
        BY <4>1, <2>0, GlyphFacts
      <4> QED
        BY <4>2, <4>3, <3>1
    <3> QED
      BY <3>2, <3>3
  <2>3. CASE r = cursor_row /\ c = cursor_column
    <3>1. screen[r][c] = {}
      BY <2>0, <2>3, <1>1, GlyphFacts
    <3>2. buffer'[r][c + 1] = Head(input)
      BY <2>3, <1>1, <1>5, <1>6, AppendFacts
    <3>3. screen'[r][c] = {Head(input)}
      BY <2>3, <3>1, <1>7
    <3> QED
      BY <2>0, <2>3, <3>2, <3>3, <1>9, GlyphFacts
  <2> QED
    BY <2>1, <2>2, <2>3
<1>12. ScreenInside'
  BY <1>1, <1>4 DEF ScreenInside, RectInside, is_inside_buffer
<1> QED
  BY <1>1, <1>4, <1>8, <1>10, <1>11, <1>12
     DEF IInv, BootInv, ScrollInv, FitInv, ShowInv, UnwrapsHold

\* A line feed above the last row moves to an empty row (console.rs:112-114).
LEMMA NextLineStep == IInv /\ NextLine => IInv'
<1> SUFFICES ASSUME IInv, NextLine PROVE IInv'
  OBVIOUS
<1>1. /\ TypeOK /\ ScreenInside /\ pc = "print" /\ input # << >>
      /\ \A r \in Rows : r > cursor_row => buffer[r] = << >>
      /\ cursor_row < ROWS - 1
  BY DEF IInv, NextLine, Printing, FitInv, CursorInv
<1>2. /\ cursor_row' = cursor_row + 1 /\ cursor_column' = 0 /\ input' = Tail(input)
      /\ UNCHANGED <<frame, pc, panic, buffer, row, screen>>
  BY DEF NextLine
<1>3. cursor_row \in Rows /\ cursor_row + 1 \in Rows /\ 0 \in Columns
  BY <1>1 DEF TypeOK, Rows, Columns
<1>4. TypeOK'
  BY <1>1, <1>2, <1>3, InputFacts DEF TypeOK
<1>5. CursorInv'
  BY <1>1, <1>2, <1>3 DEF CursorInv, Rows
<1>6. LinesFit' /\ ScreenShowsBuffer' /\ ScreenInside' /\ UnwrapsHold'
  BY <1>1, <1>2 DEF IInv, LinesFit, ScreenShowsBuffer, ScreenInside, RectInside,
                    is_inside_buffer, UnwrapsHold
<1> QED
  BY <1>1, <1>2, <1>4, <1>5, <1>6 DEF IInv, BootInv, ScrollInv, FitInv, ShowInv

\* A scroll begins with a blank screen (console.rs:116-123).
LEMMA ScrollBeginStep == IInv /\ ScrollBegin => IInv'
<1> SUFFICES ASSUME IInv, ScrollBegin PROVE IInv'
  OBVIOUS
<1>1. /\ TypeOK /\ ScreenInside /\ pc = "print" /\ input # << >> /\ Head(input) = LineFeed
      /\ cursor_row >= ROWS - 1
  BY DEF IInv, ScrollBegin, Printing, FitInv
<1>2. /\ cursor_column' = 0 /\ pc' = "scroll" /\ row' = 0 /\ screen' = Blank
      /\ UNCHANGED <<panic, frame, input, buffer, cursor_row>>
  BY <1>1 DEF ScrollBegin
<1>3. 0 \in Columns /\ 0 \in Rows /\ cursor_row = ROWS - 1
  BY <1>1 DEF TypeOK, Rows, Columns
<1>4. TypeOK'
  BY <1>1, <1>2, <1>3 DEF TypeOK, Blank
<1>5. ShowInv'
  BY <1>2 DEF ShowInv, Blank, Rows
<1>6. LinesFit' /\ ScreenInside' /\ UnwrapsHold'
  BY <1>1, <1>2 DEF IInv, LinesFit, ScreenInside, RectInside, is_inside_buffer,
                    UnwrapsHold
<1> QED
  BY <1>1, <1>2, <1>3, <1>4, <1>5, <1>6
     DEF IInv, BootInv, CursorInv, ScrollInv, FitInv, ScreenShowsBuffer

\* An iteration of the scroll draws one row (console.rs:125-138).
LEMMA ScrollRowStep == IInv /\ ScrollRow => IInv'
<1> SUFFICES ASSUME IInv, ScrollRow PROVE IInv'
  OBVIOUS
<1> DEFINE line == buffer[row + 1]
<1>1. /\ TypeOK /\ LinesFit /\ ScreenInside /\ pc = "scroll" /\ row < ROWS - 1
      /\ \A r \in Rows, c \in Columns :
            screen[r][c] = IF r < row THEN Glyph(buffer[r], c) ELSE {}
  BY DEF IInv, ScrollRow, FitInv, ShowInv
<1>2. row \in Rows /\ row + 1 \in Rows /\ row \in Nat
  BY <1>1 DEF TypeOK, Rows
<1>3. line \in Seq(Printable) /\ Len(line) <= COLUMNS - 1 /\ Len(line) \in Nat
  BY <1>1, <1>2 DEF TypeOK, LinesFit
<1>4. \A c \in 0 .. Len(line) - 1 : CellInside(row, c)
  BY <1>1, <1>2, <1>3, CellFits DEF Columns
<1>5. /\ buffer' = [buffer EXCEPT ![row] = line]
      /\ screen' = [screen EXCEPT ![row] =
                     [c \in Columns |-> IF c < Len(line) THEN @[c] \union {line[c + 1]}
                                                         ELSE @[c]]]
      /\ row' = row + 1
      /\ UNCHANGED <<pc, panic, frame, input, cursor_row, cursor_column>>
  BY <1>4 DEF ScrollRow
<1> HIDE DEF line
<1>6. /\ buffer' \in [Rows -> Seq(Printable)]
      /\ \A r \in Rows : buffer'[r] = IF r = row THEN line ELSE buffer[r]
  BY <1>1, <1>2, <1>3, <1>5 DEF TypeOK
<1>7. /\ screen' \in [Rows -> [Columns -> SUBSET Printable]]
      /\ \A r \in Rows, c \in Columns :
           screen'[r][c] = IF r = row THEN Glyph(line, c) ELSE screen[r][c]
  <2>1. \A c \in Columns : c < Len(line) => line[c + 1] \in Printable
    BY <1>3 DEF Columns
  <2>2. \A c \in Columns : screen[row][c] = {}
    BY <1>1, <1>2
  <2>3. DOMAIN screen = Rows /\ \A r \in Rows : screen[r] \in [Columns -> SUBSET Printable]
    BY <1>1 DEF TypeOK
  <2>4. screen'[row] = [c \in Columns |-> Glyph(line, c)]
    BY <1>2, <1>5, <2>2, <2>3 DEF Glyph
  <2>5. \A r \in Rows : r # row => screen'[r] = screen[r]
    BY <1>5, <2>3
  <2>6. screen'[row] \in [Columns -> SUBSET Printable]
    BY <2>1, <2>4 DEF Glyph
  <2>7. screen' \in [Rows -> [Columns -> SUBSET Printable]]
    BY <1>5, <2>3, <2>5, <2>6
  <2> QED
    BY <2>4, <2>5, <2>7
<1>8. TypeOK'
  BY <1>1, <1>2, <1>5, <1>6, <1>7 DEF TypeOK
<1>9. LinesFit'
  BY <1>1, <1>3, <1>6 DEF LinesFit
<1>10. ShowInv'
  <2> SUFFICES ASSUME NEW r \in Rows, NEW c \in Columns
               PROVE  screen'[r][c] = IF r < row' THEN Glyph(buffer'[r], c) ELSE {}
    BY DEF ShowInv
  <2>0. row' = row + 1
    BY <1>5
  <2>1. r \in Nat
    BY DEF Rows
  <2>2. CASE r = row
    <3>1. r < row'
      BY <2>0, <2>1, <2>2
    <3>2. buffer'[r] = line /\ screen'[r][c] = Glyph(line, c)
      BY <2>2, <1>6, <1>7
    <3> QED
      BY <3>1, <3>2
  <2>3. CASE r < row
    <3>1. r # row /\ r < row'
      BY <2>0, <2>1, <2>3, <1>2
    <3>2. buffer'[r] = buffer[r]
      BY <3>1, <1>6
    <3>3. screen'[r][c] = screen[r][c]
      BY <3>1, <1>7
    <3>4. screen[r][c] = Glyph(buffer[r], c)
      BY <2>3, <1>1
    <3> QED
      BY <3>1, <3>2, <3>3, <3>4
  <2>4. CASE r > row
    BY <2>0, <2>1, <2>4, <1>1, <1>2, <1>7
  <2> QED
    BY <2>1, <2>2, <2>3, <2>4, <1>2
<1>11. ScreenInside' /\ UnwrapsHold' /\ ScrollInv'
  BY <1>1, <1>5 DEF IInv, ScreenInside, RectInside, is_inside_buffer, UnwrapsHold, ScrollInv
<1> QED
  BY <1>1, <1>5, <1>8, <1>9, <1>10, <1>11
     DEF IInv, BootInv, CursorInv, FitInv, ScreenShowsBuffer

\* The scroll ends with an empty last line under the cursor (console.rs:140).
LEMMA ScrollEndStep == IInv /\ ScrollEnd => IInv'
<1> SUFFICES ASSUME IInv, ScrollEnd PROVE IInv'
  OBVIOUS
<1>1. /\ TypeOK /\ LinesFit /\ ScreenInside /\ pc = "scroll" /\ row = ROWS - 1
      /\ cursor_row = ROWS - 1 /\ cursor_column = 0 /\ input # << >>
      /\ \A r \in Rows, c \in Columns :
            screen[r][c] = IF r < row THEN Glyph(buffer[r], c) ELSE {}
  BY DEF IInv, ScrollEnd, FitInv, ShowInv, ScrollInv
<1>2. /\ buffer' = [buffer EXCEPT ![ROWS - 1] = << >>]
      /\ pc' = "print" /\ input' = Tail(input)
      /\ UNCHANGED <<frame, panic, cursor_row, cursor_column, row, screen>>
  BY DEF ScrollEnd
<1>3. ROWS - 1 \in Rows
  BY DEF Rows
<1>4. /\ buffer' \in [Rows -> Seq(Printable)]
      /\ \A r \in Rows : buffer'[r] = IF r = ROWS - 1 THEN << >> ELSE buffer[r]
  BY <1>1, <1>2, <1>3 DEF TypeOK
<1>5. TypeOK'
  BY <1>1, <1>2, <1>4, InputFacts DEF TypeOK
<1>6. LinesFit' /\ CursorInv'
  BY <1>1, <1>2, <1>3, <1>4 DEF LinesFit, CursorInv, Rows
<1>7. ScreenShowsBuffer'
  <2> SUFFICES ASSUME NEW r \in Rows, NEW c \in Columns
               PROVE  screen[r][c] = Glyph(buffer'[r], c)
    BY <1>2 DEF ScreenShowsBuffer
  <2>1. CASE r = ROWS - 1
    <3>1. screen[r][c] = {} /\ buffer'[r] = << >>
      BY <2>1, <1>1, <1>4
    <3> QED
      BY <3>1, GlyphFacts DEF Columns
  <2>2. CASE r < row
    BY <2>2, <1>1, <1>4
  <2> QED
    BY <2>1, <2>2, <1>1 DEF Rows
<1>8. ScreenInside' /\ UnwrapsHold'
  BY <1>1, <1>2 DEF IInv, ScreenInside, RectInside, is_inside_buffer, UnwrapsHold
<1> QED
  BY <1>1, <1>2, <1>5, <1>6, <1>7, <1>8 DEF IInv, BootInv, ScrollInv, FitInv, ShowInv

\* Every step preserves the invariant.
LEMMA InvStep == IInv /\ [Next]_vars => IInv'
<1> SUFFICES ASSUME IInv, [Next]_vars PROVE IInv'
  OBVIOUS
<1>0. /\ TypeOK /\ BootInv /\ LinesFit /\ CursorInv /\ ScrollInv /\ FitInv /\ ShowInv
      /\ ScreenShowsBuffer /\ UnwrapsHold
  BY DEF IInv
<1>1. CASE ConsoleInit
  <2>1. TypeOK'
    BY <1>0, <1>1 DEF ConsoleInit, TypeOK, NoText, Blank, Rows, Columns
  <2>2. LinesFit' /\ CursorInv'
    BY <1>1 DEF ConsoleInit, LinesFit, CursorInv, NoText, Rows
  <2>3. ScreenShowsBuffer'
    BY <1>1 DEF ConsoleInit, ScreenShowsBuffer, NoText, Blank, Glyph, Rows, Columns
  <2>4. FitInv' /\ UnwrapsHold'
    BY <1>0, <1>1 DEF ConsoleInit, FitInv, ScreenInside, RectInside, is_inside_buffer,
                      UnwrapsHold
  <2> QED
    BY <1>1, <2>1, <2>2, <2>3, <2>4 DEF ConsoleInit, IInv, BootInv, ScrollInv, ShowInv
<1>2. CASE ConsoleInitFails
  BY <1>0, <1>2 DEF ConsoleInitFails, Panic, IInv, TypeOK, BootInv, LinesFit, CursorInv,
                    ScrollInv, FitInv, ShowInv, ScreenShowsBuffer, UnwrapsHold
<1>3. ASSUME NEW s \in Strings, WriteStr(s) PROVE IInv'
  <2>1. CASE IsAscii(s)
    <3>1. s \in Seq(Characters) /\ \A k \in DOMAIN s : s[k] # NonAscii
      BY <2>1 DEF IsAscii
    <3>2. s \in Seq(Printable \union {LineFeed})
      BY <3>1 DEF Characters
    <3>3. input' = s /\ pc = "print"
          /\ UNCHANGED <<pc, panic, frame, buffer, cursor_row, cursor_column, row, screen>>
      BY <1>3, <2>1 DEF WriteStr
    <3> QED
      BY <1>0, <3>2, <3>3 DEF IInv, TypeOK, BootInv, LinesFit, CursorInv, ScrollInv, FitInv,
           ScreenInside, RectInside, is_inside_buffer, ShowInv, ScreenShowsBuffer, UnwrapsHold
  <2>2. CASE ~ IsAscii(s)
    BY <1>0, <1>3, <2>2 DEF WriteStr, Panic, IInv, TypeOK, BootInv, LinesFit, CursorInv,
           ScrollInv, FitInv, ShowInv, ScreenShowsBuffer, UnwrapsHold
  <2> QED
    BY <2>1, <2>2
<1>4. CASE PrintChar
  BY <1>4, PrintCharStep
<1>5. CASE DropChar
  <2>1. pc = "print" /\ input' = Tail(input) /\ Tail(input) \in Seq(Printable \union {LineFeed})
        /\ UNCHANGED <<frame, pc, panic, buffer, cursor_row, cursor_column, row, screen>>
    BY <1>0, <1>5, InputFacts DEF DropChar, Printing
  <2> QED
    BY <1>0, <2>1 DEF IInv, TypeOK, BootInv, LinesFit, CursorInv, ScrollInv, FitInv,
         ScreenInside, RectInside, is_inside_buffer, ShowInv, ScreenShowsBuffer, UnwrapsHold
<1>6. CASE NextLine
  BY <1>6, NextLineStep
<1>7. CASE ScrollBegin
  BY <1>7, ScrollBeginStep
<1>8. CASE ScrollRow
  BY <1>8, ScrollRowStep
<1>9. CASE ScrollEnd
  BY <1>9, ScrollEndStep
<1>10. CASE UNCHANGED vars
  BY <1>0, <1>10 DEF vars, IInv, TypeOK, BootInv, LinesFit, CursorInv, ScrollInv, FitInv,
       ScreenInside, RectInside, is_inside_buffer, ShowInv, ScreenShowsBuffer, UnwrapsHold
<1> QED
  BY <1>1, <1>2, <1>3, <1>4, <1>5, <1>6, <1>7, <1>8, <1>9, <1>10 DEF Next, PrintStep, Halted

\* No unwrap or expect of print and new_line fails on a console that fits its
\* frame buffer, whatever is printed (console.rs:111-160).
THEOREM NoUnwrapFails == Spec => []UnwrapsHold
<1>1. IInv => UnwrapsHold
  BY DEF IInv
<1> QED
  BY <1>1, InvInit, InvStep, PTL DEF Spec

\* Between two characters the screen shows the text and nothing else
\* (console.rs:111-160).
THEOREM ScreenFaithful == Spec => []ScreenShowsBuffer
<1>1. IInv => ScreenShowsBuffer
  BY DEF IInv
<1> QED
  BY <1>1, InvInit, InvStep, PTL DEF Spec

-----------------------------------------------------------------------------
(***************************************************************************)
(* The console implements Terminal: every step maps to a step of Terminal  *)
(* or leaves the window and the unhandled characters unchanged.            *)
(***************************************************************************)

\* The window is a sequence with one line per row up to the cursor.
LEMMA WindowFacts ==
  ASSUME IInv
  PROVE  /\ cursor_row + 1 \in Nat
         /\ Window \in Seq(Seq(Printable))
         /\ Len(Window) = cursor_row + 1
         /\ \A k \in 1 .. cursor_row + 1 : Window[k] = WindowLine(k)
<1>1. cursor_row \in 0 .. ROWS - 1 /\ cursor_row + 1 \in Nat
      /\ buffer \in [0 .. ROWS - 1 -> Seq(Printable)] /\ row \in 0 .. ROWS - 1
  BY DEF IInv, TypeOK, Rows
<1>2. ASSUME NEW k \in 1 .. cursor_row + 1 PROVE WindowLine(k) \in Seq(Printable)
  BY <1>1, <1>2 DEF WindowLine
<1>3. Window \in [1 .. cursor_row + 1 -> Seq(Printable)]
  BY <1>2 DEF Window
<1>4. Window \in Seq(Seq(Printable)) /\ Len(Window) = cursor_row + 1
  BY <1>1, <1>3
<1> QED
  BY <1>1, <1>4 DEF Window

\* A character printed or dropped is Terminal's Put (console.rs:148-158).
LEMMA CharImplements ==
  ASSUME IInv, IInv', PrintChar \/ DropChar
  PROVE  Promise!Handle
<1>1. /\ pc = "print" /\ input # << >> /\ Head(input) # LineFeed
      /\ Unhandled = input
      /\ Len(buffer[cursor_row]) = cursor_column
      /\ cursor_row \in Rows /\ cursor_row \in Nat /\ cursor_column \in Nat
  BY DEF IInv, PrintChar, DropChar, Printing, Unhandled, CursorInv, TypeOK, Rows, Columns
<1>2. Window[Len(Window)] = buffer[cursor_row]
  <2>1. Len(Window) = cursor_row + 1 /\ cursor_row + 1 \in 1 .. cursor_row + 1
    BY <1>1, WindowFacts
  <2>2. Window[cursor_row + 1] = WindowLine(cursor_row + 1)
    BY <2>1, WindowFacts
  <2>3. cursor_row + 1 - 1 = cursor_row
    BY <1>1
  <2> QED
    BY <1>1, <2>1, <2>2, <2>3 DEF WindowLine
<1>3. CASE PrintChar
  <2>1. /\ buffer' = [buffer EXCEPT ![cursor_row] = Append(@, Head(input))]
        /\ input' = Tail(input) /\ pc' = "print" /\ cursor_row' = cursor_row
        /\ cursor_column < COLUMNS - 1
    <3>1. CellInside(cursor_row, cursor_column) /\ cursor_column < COLUMNS - 1
      BY <1>1, <1>3, CellFits DEF IInv, FitInv, TypeOK, PrintChar, LineHasRoom
    <3> QED
      BY <1>1, <1>3, <3>1 DEF PrintChar
  <2>2. Unhandled' = Tail(Unhandled)
    BY <1>1, <2>1 DEF Unhandled
  <2>3. Window' = [Window EXCEPT ![Len(Window)] = Append(@, Head(input))]
    <3>1. Window = [k \in 1 .. cursor_row + 1 |-> buffer[k - 1]]
      BY <1>1 DEF Window, WindowLine
    <3>2. Window' = [k \in 1 .. cursor_row + 1 |-> buffer'[k - 1]]
      BY <2>1 DEF Window, WindowLine
    <3>3. \A k \in 1 .. cursor_row + 1 :
            /\ k - 1 \in Rows
            /\ buffer'[k - 1] = IF k = cursor_row + 1 THEN Append(buffer[k - 1], Head(input))
                                                      ELSE buffer[k - 1]
      <4>1. buffer \in [Rows -> Seq(Printable)]
        BY DEF IInv, TypeOK
      <4>2. \A k \in 1 .. cursor_row + 1 : k - 1 \in Rows
        BY <1>1 DEF Rows
      <4>3. \A k \in 1 .. cursor_row + 1 : k = cursor_row + 1 <=> k - 1 = cursor_row
        BY <1>1
      <4> QED
        BY <4>1, <4>2, <4>3, <2>1
    <3>4. Len(Window) = cursor_row + 1
      BY WindowFacts
    <3> QED
      BY <3>1, <3>2, <3>3, <3>4, <1>1
  <2> QED
    BY <1>1, <1>2, <2>1, <2>2, <2>3 DEF Promise!Handle, Promise!Put, Promise!LastLine
<1>4. CASE DropChar
  <2>1. input' = Tail(input) /\ UNCHANGED <<pc, buffer, cursor_row, row>>
        /\ ~ (cursor_column < COLUMNS - 1)
    BY <1>4 DEF DropChar, LineHasRoom
  <2>2. Unhandled' = Tail(Unhandled) /\ Window' = Window
    BY <1>1, <2>1 DEF Unhandled, Window, WindowLine
  <2> QED
    BY <1>1, <1>2, <2>1, <2>2 DEF Promise!Handle, Promise!Put, Promise!LastLine
<1> QED
  BY <1>3, <1>4

\* A line feed is Terminal's Newline (console.rs:111-123).
LEMMA LineFeedImplements ==
  ASSUME IInv, IInv', NextLine \/ ScrollBegin
  PROVE  Promise!Handle
<1>1. /\ pc = "print" /\ input # << >> /\ Head(input) = LineFeed
      /\ Unhandled = input
      /\ cursor_row \in Rows /\ cursor_row \in Nat
      /\ \A r \in Rows : r > cursor_row => buffer[r] = << >>
      /\ Window = [k \in 1 .. cursor_row + 1 |-> buffer[k - 1]]
  BY DEF IInv, NextLine, ScrollBegin, Printing, Unhandled, CursorInv, TypeOK, Rows, Window,
         WindowLine
<1>2. Window \in Seq(Seq(Printable)) /\ Len(Window) = cursor_row + 1
  BY WindowFacts
<1>3. CASE NextLine
  <2>1. /\ cursor_row' = cursor_row + 1 /\ input' = Tail(input) /\ pc' = "print"
        /\ buffer' = buffer /\ cursor_row < ROWS - 1
    BY <1>1, <1>3 DEF NextLine
  <2>2. Unhandled' = Tail(Unhandled)
    BY <1>1, <2>1 DEF Unhandled
  <2>3. Window' = [k \in 1 .. cursor_row + 2 |-> buffer[k - 1]]
    BY <2>1, <1>1 DEF Window, WindowLine
  <2>4. buffer[cursor_row + 1] = << >>
    BY <1>1, <2>1 DEF Rows
  <2>5. Append(Window, << >>) = [k \in 1 .. cursor_row + 2 |-> buffer[k - 1]]
    BY <1>1, <1>2, <2>4
  <2>6. Window' = Append(Window, << >>) /\ Len(Window) < ROWS
    BY <1>1, <1>2, <2>1, <2>3, <2>5
  <2> QED
    BY <1>1, <2>2, <2>6 DEF Promise!Handle, Promise!Newline
<1>4. CASE ScrollBegin
  <2>1. ScreenInside
    BY <1>1 DEF IInv, FitInv
  <2>2. /\ pc' = "scroll" /\ row' = 0 /\ UNCHANGED <<input, buffer, cursor_row>>
        /\ cursor_row = ROWS - 1
    BY <1>1, <1>4, <2>1 DEF ScrollBegin, Rows
  <2>3. Unhandled' = Tail(Unhandled)
    BY <1>1, <2>2 DEF Unhandled
  <2>4. Window' = [k \in 1 .. ROWS |-> IF k < ROWS THEN buffer[k] ELSE << >>]
    BY <2>2 DEF Window, WindowLine
  <2>5. Window # << >> /\ Len(Window) = ROWS
    BY <1>2, <2>2
  <2>6. /\ Tail(Window) \in Seq(Seq(Printable))
        /\ Len(Tail(Window)) = ROWS - 1
        /\ \A k \in 1 .. ROWS - 1 : Tail(Window)[k] = Window[k + 1]
    BY <1>2, <2>5
  <2>7. \A k \in 1 .. ROWS - 1 : Tail(Window)[k] = buffer[k]
    BY <1>1, <2>2, <2>6
  <2>8. Append(Tail(Window), << >>) = [k \in 1 .. ROWS |-> IF k < ROWS THEN buffer[k] ELSE << >>]
    <3> DEFINE T == Tail(Window)
    <3>1. T \in Seq(Seq(Printable)) /\ Len(T) = ROWS - 1
          /\ \A k \in 1 .. ROWS - 1 : T[k] = buffer[k]
      BY <2>6, <2>7
    <3> HIDE DEF T
    <3>2. << >> \in Seq(Printable)
      OBVIOUS
    <3>3. /\ Append(T, << >>) \in Seq(Seq(Printable))
          /\ Len(Append(T, << >>)) = ROWS
          /\ Append(T, << >>)[ROWS] = << >>
          /\ \A k \in 1 .. ROWS - 1 : Append(T, << >>)[k] = buffer[k]
      BY <3>1, <3>2, AppendFacts
    <3> DEFINE A == Append(T, << >>)
    <3>4. /\ A \in [1 .. ROWS -> Seq(Printable)]
          /\ \A k \in 1 .. ROWS : A[k] = IF k < ROWS THEN buffer[k] ELSE << >>
      <4> HIDE DEF A
      <4>1. A \in Seq(Seq(Printable)) /\ Len(A) = ROWS /\ A[ROWS] = << >>
            /\ \A k \in 1 .. ROWS - 1 : A[k] = buffer[k]
        BY <3>3 DEF A
      <4> QED
        BY <4>1
    <3>5. A = [k \in 1 .. ROWS |-> IF k < ROWS THEN buffer[k] ELSE << >>]
      <4> HIDE DEF A
      <4> QED
        BY <3>4
    <3> QED
      BY <3>5 DEF T
  <2> QED
    BY <1>1, <2>3, <2>4, <2>5, <2>8, SMTT(20) DEF Promise!Handle, Promise!Newline
<1> QED
  BY <1>3, <1>4

\* The rest of a scroll changes nothing Terminal can see (console.rs:125-140).
LEMMA ScrollImplements ==
  ASSUME IInv, IInv', ScrollRow \/ ScrollEnd
  PROVE  UNCHANGED <<Unhandled, Window>>
<1>1. /\ pc = "scroll" /\ cursor_row = ROWS - 1 /\ row \in Rows
      /\ buffer \in [Rows -> Seq(Printable)] /\ cursor_row' = cursor_row
  BY DEF IInv, ScrollRow, ScrollEnd, ScrollInv, TypeOK
<1>2. Window = [k \in 1 .. ROWS |-> IF k - 1 < row THEN buffer[k - 1]
                                    ELSE IF k < ROWS THEN buffer[k] ELSE << >>]
  BY <1>1 DEF Window, WindowLine
<1>3. CASE ScrollRow
  <2>1. pc' \in {"scroll", "panicked"} /\ input' = input /\ row < ROWS - 1
        /\ buffer' = [buffer EXCEPT ![row] = buffer[row + 1]]
    BY <1>1, <1>3 DEF ScrollRow, Panic
  <2>2. pc' = "scroll" /\ row' = row + 1
    <3>1. Len(buffer[row + 1]) <= COLUMNS - 1 /\ Len(buffer[row + 1]) \in Nat /\ ScreenInside
      BY <1>1, <2>1 DEF IInv, LinesFit, FitInv, TypeOK, Rows
    <3>2. \A c \in 0 .. Len(buffer[row + 1]) - 1 : CellInside(row, c)
      BY <1>1, <3>1, CellFits DEF IInv, Columns
    <3> QED
      BY <1>1, <1>3, <3>2 DEF ScrollRow
  <2>3. Window' = [k \in 1 .. ROWS |-> IF k - 1 < row + 1 THEN buffer'[k - 1]
                                       ELSE IF k < ROWS THEN buffer'[k] ELSE << >>]
    BY <1>1, <2>2 DEF Window, WindowLine
  <2>4. \A k \in 1 .. ROWS :
          (IF k - 1 < row + 1 THEN buffer'[k - 1] ELSE IF k < ROWS THEN buffer'[k] ELSE << >>)
          = (IF k - 1 < row THEN buffer[k - 1] ELSE IF k < ROWS THEN buffer[k] ELSE << >>)
    BY <1>1, <2>1 DEF Rows
  <2>5. Window' = Window
    BY <1>2, <2>3, <2>4
  <2> QED
    BY <1>1, <2>1, <2>2, <2>5 DEF Unhandled
<1>4. CASE ScrollEnd
  <2>1. pc' = "print" /\ input' = Tail(input) /\ row = ROWS - 1
        /\ buffer' = [buffer EXCEPT ![ROWS - 1] = << >>]
    BY <1>4 DEF ScrollEnd
  <2>2. Window' = [k \in 1 .. ROWS |-> buffer'[k - 1]]
    BY <1>1, <2>1 DEF Window, WindowLine
  <2>3. \A k \in 1 .. ROWS :
          buffer'[k - 1]
          = (IF k - 1 < row THEN buffer[k - 1] ELSE IF k < ROWS THEN buffer[k] ELSE << >>)
    BY <1>1, <2>1 DEF Rows
  <2>4. Window' = Window
    BY <1>2, <2>2, <2>3
  <2> QED
    BY <1>1, <2>1, <2>4 DEF Unhandled
<1> QED
  BY <1>3, <1>4

\* Every behaviour of the console is a behaviour of Terminal (console.rs:75-166).
THEOREM ConsoleImplementsTerminal == Spec => ImplementsTerminal
<1>1. Init => Promise!Init
  <2> SUFFICES ASSUME Init PROVE Promise!Init
    OBVIOUS
  <2>1. Window = [k \in 1 .. 1 |-> << >>]
    BY DEF Init, Window, WindowLine, NoText, Rows
  <2>2. Unhandled = << >>
    BY DEF Init, Unhandled
  <2>3. [k \in 1 .. 1 |-> << >>] = << << >> >>
    OBVIOUS
  <2> QED
    BY <2>1, <2>2, <2>3 DEF Promise!Init
<1>2. IInv /\ IInv' /\ [Next]_vars => [Promise!Next]_<<Unhandled, Window>>
  <2> SUFFICES ASSUME IInv, IInv', [Next]_vars
               PROVE  Promise!Next \/ UNCHANGED <<Unhandled, Window>>
    OBVIOUS
  <2>1. CASE ConsoleInit \/ ConsoleInitFails
    <3>1. pc # "scroll" /\ pc' # "scroll" /\ input' = input /\ buffer' = buffer
          /\ cursor_row' = cursor_row
      BY <2>1 DEF IInv, BootInv, ConsoleInit, ConsoleInitFails, Panic
    <3> QED
      BY <3>1 DEF Unhandled, Window, WindowLine
  <2>2. ASSUME NEW s \in Strings, WriteStr(s)
        PROVE  Promise!Next \/ UNCHANGED <<Unhandled, Window>>
    <3>1. pc = "print" /\ pc' # "scroll" /\ input = << >> /\ UNCHANGED <<buffer, cursor_row>>
          /\ ((IsAscii(s) /\ input' = s) \/ input' = input)
      BY <2>2 DEF WriteStr, Panic
    <3>2. Window' = Window /\ Unhandled = << >> /\ Unhandled' = input'
      BY <3>1 DEF Window, WindowLine, Unhandled
    <3> QED
      BY <3>1, <3>2 DEF Promise!Next, Promise!Write
  <2>3. CASE PrintChar \/ DropChar
    BY <2>3, CharImplements DEF Promise!Next
  <2>4. CASE NextLine \/ ScrollBegin
    BY <2>4, LineFeedImplements DEF Promise!Next
  <2>5. CASE ScrollRow \/ ScrollEnd
    BY <2>5, ScrollImplements
  <2>6. CASE UNCHANGED vars
    BY <2>6 DEF vars, Unhandled, Window, WindowLine
  <2> QED
    BY <2>1, <2>2, <2>3, <2>4, <2>5, <2>6 DEF Next, PrintStep, Halted
<1> QED
  BY <1>1, <1>2, InvInit, InvStep, PTL DEF Spec, ImplementsTerminal, Promise!Spec
=============================================================================
