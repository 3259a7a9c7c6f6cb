------------------------------ MODULE Console -------------------------------
(***************************************************************************)
(* The text console, kernel/src/graphic/console.rs, on the frame buffer of *)
(* kernel/src/graphic/frame_buffer.rs.  One caller at a time holds the     *)
(* console (the lock is in module Interrupts); a call of print is a        *)
(* loop over the characters of its argument, and a line feed on the last   *)
(* row is a loop over the rows.                                            *)
(*                                                                         *)
(* A cell of the screen is the set of the glyphs drawn in it since it was  *)
(* last filled with the background: write_char paints a glyph's pixels     *)
(* over what is there and clears nothing.  Colours are left out.           *)
(***************************************************************************)
EXTENDS Integers, Sequences

CONSTANTS
  ROWS, COLUMNS,
  CHARACTER_WIDTH, CHARACTER_HEIGHT,
  Printable,             \* the characters with a glyph
  LineFeed, NonAscii,    \* the line feed; any character outside ASCII
  Strings,               \* what write_str is called with
  FrameSizes             \* the frame buffers the firmware may provide

Characters == Printable \union {LineFeed, NonAscii}

ASSUME SizeAssumption ==
  /\ ROWS \in Nat \ {0}
  /\ COLUMNS \in Nat \ {0}
  /\ CHARACTER_WIDTH \in Nat \ {0}
  /\ CHARACTER_HEIGHT \in Nat \ {0}
ASSUME CharacterAssumption ==
  LineFeed \notin Printable /\ NonAscii \notin Printable /\ LineFeed # NonAscii
ASSUME StringAssumption == Strings \subseteq Seq(Characters)
ASSUME FrameSizeAssumption == FrameSizes \subseteq [width : Nat, height : Nat]

VARIABLES
  frame,           \* the frame buffer's width and height, fixed at boot
  pc,              \* "boot", "print", "scroll" or "panicked"
  panic,           \* the unwrap or expect that failed, "none" if none did
  input,           \* print: the characters of its argument still to handle
  buffer,          \* the text, one line per row
  cursor_row, cursor_column,
  row,             \* new_line: the loop variable
  screen           \* the glyphs in each cell

vars == <<frame, pc, panic, input, buffer, cursor_row, cursor_column, row, screen>>

Rows    == 0 .. ROWS - 1
Columns == 0 .. COLUMNS - 1
Blank   == [r \in Rows |-> [c \in Columns |-> {}]]
NoText  == [r \in Rows |-> << >>]

Panic(site) == pc' = "panicked" /\ panic' = site

(***************************************************************************)
(* The frame buffer.  write_pixel refuses a pixel outside width x height.  *)
(***************************************************************************)
is_inside_buffer(x, y) == ~ (x >= frame.width \/ y >= frame.height)

\* Every pixel of a rectangle is inside when its far corner is.
RectInside(x, y, width, height) ==
  is_inside_buffer(x + width - 1, y + height - 1)

ScreenInside == RectInside(0, 0, COLUMNS * CHARACTER_WIDTH, ROWS * CHARACTER_HEIGHT)

CellInside(r, c) ==
  RectInside(CHARACTER_WIDTH * c, CHARACTER_HEIGHT * r,
             CHARACTER_WIDTH, CHARACTER_HEIGHT)

write_char(scr, r, c, char) == [scr EXCEPT ![r][c] = @ \union {char}]

(***************************************************************************)
(* main's console().init(...).unwrap().                                    *)
(***************************************************************************)
Init ==
  /\ frame \in FrameSizes
  /\ pc = "boot"
  /\ panic = "none"
  /\ input = << >>
  /\ buffer = NoText
  /\ cursor_row = 0
  /\ cursor_column = 0
  /\ row = 0
  /\ screen = Blank

ConsoleInit ==
  /\ pc = "boot"
  /\ ScreenInside
  /\ pc' = "print"
  /\ screen' = Blank
  /\ buffer' = NoText
  /\ cursor_row' = 0
  /\ cursor_column' = 0
  /\ UNCHANGED <<frame, panic, input, row>>

ConsoleInitFails ==
  /\ pc = "boot"
  /\ ~ ScreenInside
  /\ Panic("init")
  /\ UNCHANGED <<frame, input, buffer, cursor_row, cursor_column, row, screen>>

(***************************************************************************)
(* write_str(s) calls print(s); println(s) is print of s and a line feed.  *)
(* as_ascii looks at the whole argument before anything is printed.        *)
(***************************************************************************)
IsAscii(s) == \A k \in DOMAIN s : s[k] # NonAscii

WriteStr(s) ==
  /\ pc = "print"
  /\ input = << >>
  /\ s # << >>
  /\ IF IsAscii(s) THEN input' = s /\ UNCHANGED <<pc, panic>>
                   ELSE Panic("as_ascii") /\ UNCHANGED input
  /\ UNCHANGED <<frame, buffer, cursor_row, cursor_column, row, screen>>

\* print is about to handle a character that is, or is not, a line feed.
Printing(isLineFeed) ==
  pc = "print" /\ input # << >> /\ (Head(input) = LineFeed) = isLineFeed

LineHasRoom == cursor_column < COLUMNS - 1

\* Draw the character, then push it to its line, then move the cursor.
PrintChar ==
  /\ Printing(FALSE)
  /\ LineHasRoom
  /\ IF ~ CellInside(cursor_row, cursor_column)
       THEN Panic("write_char") /\ UNCHANGED <<input, buffer, cursor_column, screen>>
     ELSE /\ screen' = write_char(screen, cursor_row, cursor_column, Head(input))
          /\ IF Len(buffer[cursor_row]) = COLUMNS
               THEN Panic("push") /\ UNCHANGED <<input, buffer, cursor_column>>
             ELSE /\ buffer' = [buffer EXCEPT ![cursor_row] = Append(@, Head(input))]
                  /\ cursor_column' = cursor_column + 1
                  /\ input' = Tail(input)
                  /\ UNCHANGED <<pc, panic>>
  /\ UNCHANGED <<frame, cursor_row, row>>

\* The line is full: the character is dropped.
DropChar ==
  /\ Printing(FALSE)
  /\ ~ LineHasRoom
  /\ input' = Tail(input)
  /\ UNCHANGED <<frame, pc, panic, buffer, cursor_row, cursor_column, row, screen>>

(***************************************************************************)
(* new_line.                                                               *)
(***************************************************************************)
\* Mutant: cursor_column is not reset.
NextLineKeepsColumn ==
  /\ Printing(TRUE)
  /\ cursor_row < ROWS - 1
  /\ cursor_row' = cursor_row + 1
  /\ input' = Tail(input)
  /\ UNCHANGED <<frame, pc, panic, buffer, cursor_column, row, screen>>

NextLine ==
  /\ Printing(TRUE)
  /\ cursor_row < ROWS - 1
  /\ cursor_column' = 0
  /\ cursor_row' = cursor_row + 1
  /\ input' = Tail(input)
  /\ UNCHANGED <<frame, pc, panic, buffer, row, screen>>

\* Mutant: the screen is not cleared before the lines are drawn again.
ScrollBeginDirty ==
  /\ Printing(TRUE)
  /\ cursor_row >= ROWS - 1
  /\ cursor_column' = 0
  /\ pc' = "scroll" /\ row' = 0 /\ UNCHANGED <<panic, screen>>
  /\ UNCHANGED <<frame, input, buffer, cursor_row>>

\* On the last row: fill_rect the whole console.
ScrollBegin ==
  /\ Printing(TRUE)
  /\ cursor_row >= ROWS - 1
  /\ cursor_column' = 0
  /\ IF ScreenInside
       THEN pc' = "scroll" /\ row' = 0 /\ screen' = Blank /\ UNCHANGED panic
       ELSE Panic("fill_rect") /\ UNCHANGED <<row, screen>>
  /\ UNCHANGED <<frame, input, buffer, cursor_row>>

\* One iteration: row takes the line below it and is drawn again.
ScrollRow ==
  /\ pc = "scroll"
  /\ row < ROWS - 1
  /\ LET line == buffer[row + 1]
     IN  /\ buffer' = [buffer EXCEPT ![row] = line]
         /\ IF \A c \in 0 .. Len(line) - 1 : CellInside(row, c)
              THEN /\ screen' = [screen EXCEPT ![row] =
                        [c \in Columns |-> IF c < Len(line) THEN @[c] \union {line[c + 1]}
                                                            ELSE @[c]]]
                   /\ row' = row + 1
                   /\ UNCHANGED <<pc, panic>>
              ELSE Panic("write_char") /\ UNCHANGED <<row, screen>>
  /\ UNCHANGED <<frame, input, cursor_row, cursor_column>>

\* Mutant: the last line keeps its text.
ScrollEndKeepsLine ==
  /\ pc = "scroll"
  /\ row = ROWS - 1
  /\ pc' = "print"
  /\ input' = Tail(input)
  /\ UNCHANGED <<frame, panic, buffer, cursor_row, cursor_column, row, screen>>

\* The loop is over: the last line becomes empty.
ScrollEnd ==
  /\ pc = "scroll"
  /\ row = ROWS - 1
  /\ buffer' = [buffer EXCEPT ![ROWS - 1] = << >>]
  /\ pc' = "print"
  /\ input' = Tail(input)
  /\ UNCHANGED <<frame, panic, cursor_row, cursor_column, row, screen>>

Halted == pc = "panicked" /\ UNCHANGED vars

PrintStep == PrintChar \/ DropChar \/ NextLine \/ ScrollBegin \/ ScrollRow \/ ScrollEnd

Next ==
  \/ ConsoleInit
  \/ ConsoleInitFails
  \/ \E s \in Strings : WriteStr(s)
  \/ PrintStep
  \/ Halted

Spec == Init /\ [][Next]_vars

-----------------------------------------------------------------------------
(***************************************************************************)
(* Properties                                                              *)
(***************************************************************************)

\* Every variable has its type (console.rs:34-73).
TypeOK ==
  /\ frame \in [width : Nat, height : Nat]
  /\ pc \in {"boot", "print", "scroll", "panicked"}
  /\ panic \in {"none", "init", "as_ascii", "write_char", "push", "fill_rect"}
  /\ input \in Seq(Printable \union {LineFeed})
  /\ buffer \in [Rows -> Seq(Printable)]
  /\ cursor_row \in Rows
  /\ cursor_column \in Columns
  /\ row \in Rows
  /\ screen \in [Rows -> [Columns -> SUBSET Printable]]

\* Once init has found that the console fits in the frame buffer, none of the
\* unwraps and expects of print and new_line fails: write_char stays inside the
\* frame buffer and no line overflows (console.rs:123, 136, 155, 156).
UnwrapsHold == panic \in {"none", "init", "as_ascii"}

\* What a cell shows if its row holds this line.
Glyph(line, c) == IF c < Len(line) THEN {line[c + 1]} ELSE {}

\* Between two characters the screen shows exactly the text in the buffer: no
\* cell has two glyphs on top of each other or one left over from a line that
\* scrolled away (console.rs:111-160).
ScreenShowsBuffer ==
  pc = "print" =>
    \A r \in Rows, c \in Columns : screen[r][c] = Glyph(buffer[r], c)

(***************************************************************************)
(* The console implements Terminal.  A line feed on the last row takes     *)
(* effect when the scroll begins: while it runs, the rows it has not       *)
(* reached yet still hold their old lines, one row too high in number.     *)
(***************************************************************************)
WindowLine(k) ==
  IF pc # "scroll" THEN buffer[k - 1]
  ELSE IF k - 1 < row THEN buffer[k - 1]
  ELSE IF k < ROWS THEN buffer[k]
  ELSE << >>

Window == [k \in 1 .. cursor_row + 1 |-> WindowLine(k)]

\* The line feed a scroll works on counts as handled.
Unhandled == IF pc = "scroll" THEN Tail(input) ELSE input

Promise ==
  INSTANCE Terminal WITH LineWidth <- COLUMNS - 1,
                         Strings   <- {s \in Strings : IsAscii(s)},
                         input     <- Unhandled,
                         window    <- Window

\* The text in the buffer is the window Terminal describes, whatever is printed
\* and however often the console scrolls (console.rs:111-160).
ImplementsTerminal == Promise!Spec
=============================================================================
