---------------------------- MODULE FrameBuffer -----------------------------
(***************************************************************************)
(* The frame buffer at the level of pixels and bytes                       *)
(* (kernel/src/graphic/frame_buffer.rs, common/src/graphic.rs and the      *)
(* cursor of kernel/src/graphic/mouse.rs): operations paint one pixel      *)
(* after the other, each checked, converted and stored, and stop at the    *)
(* first one that lies outside.                                            *)
(*                                                                         *)
(* The display shows the pixel in column x and row y from word             *)
(* y * stride + x of the buffer.  A word is its four bytes in memory order *)
(* and a u32 its four bytes from the highest.  Words past the buffer       *)
(* belong to something else.                                               *)
(***************************************************************************)
EXTENDS Integers, Sequences

CONSTANTS
  GraphicInfos,      \* what the bootloader may hand over
  Words,             \* words of memory from the start of the buffer on
  Colors,            \* colors drawn: <<red, green, blue>>
  CHARACTER_WIDTH, CHARACTER_HEIGHT,
  U8_FONT,           \* a sequence of glyphs, a glyph its rows, a row its one bits
  Cursor,            \* the cursor's rows, a row its colors, NoColor for a blank
  Calls,             \* the operations called: records with a kind
  MaxCalls           \* how many of them, one after the other

Byte == 0 .. 255

GraphicInfo == [width : Nat, height : Nat, stride : Nat, pixel_format : {"Rgb", "Bgr"}]

NoColor == << >>

\* The calls and their arguments; an empty frame is drawn by nobody.
Operation ==
  [kind : {"fill_rect"}, x : Nat, y : Nat, width : Nat, height : Nat, color : Colors]
  \union [kind : {"draw_rect"}, x : Nat, y : Nat, width : Nat \ {0}, height : Nat \ {0},
          color : Colors]
  \union [kind : {"write_string"}, x : Nat, y : Nat, data : Seq(DOMAIN U8_FONT), color : Colors]
  \union [kind : {"draw_cursor"}]

ArgumentsOK ==
  /\ GraphicInfos \subseteq GraphicInfo
  /\ \A g \in GraphicInfos : g.width <= g.stride /\ g.stride * g.height <= Words
  /\ Colors \subseteq Byte \X Byte \X Byte /\ Colors # {}
  /\ CHARACTER_WIDTH \in Nat \ {0} /\ CHARACTER_HEIGHT \in Nat /\ Words \in Nat
  /\ U8_FONT \in Seq([1 .. CHARACTER_HEIGHT -> SUBSET (0 .. CHARACTER_WIDTH - 1)])
  /\ Cursor \in Seq(Seq(Colors \union {NoColor}))
  /\ Calls \subseteq Operation

VARIABLES
  frame,     \* FrameBuf, as init copies it from the GraphicInfo
  pc,        \* "draw" or "idle"
  call,      \* the operation and its arguments
  at,        \* the counters of its loops, the outermost first
  result,    \* "ok" or "outside": what the last operation returned
  memory,    \* the words of memory
  before,    \* the picture when the operation began
  calls      \* operations called so far

vars == <<frame, pc, call, at, result, memory, before, calls>>

(***************************************************************************)
(* Colors.  A Pixel or RgbColor is the u32 of the bytes r, g, b, 0.        *)
(***************************************************************************)
\* u32::from_be_bytes([r, g, b, 0])
rgb(color) == <<color[1], color[2], color[3], 0>>

\* Pixel::bgr
bgr(u) == <<u[3], u[2], u[1], 0>>

\* u32::from_be on a little-endian machine, and the store of its result.
le(u)     == <<u[4], u[3], u[2], u[1]>>
Stored(u) == <<u[4], u[3], u[2], u[1]>>

Converted(color) ==
  IF frame.pixel_format = "Rgb" THEN Stored(le(rgb(color))) ELSE Stored(le(bgr(rgb(color))))

\* The display's reading of a word (external).
ColorOf(word) ==
  IF frame.pixel_format = "Rgb" THEN <<word[1], word[2], word[3]>>
                                ELSE <<word[3], word[2], word[1]>>

(***************************************************************************)
(* One pixel.                                                              *)
(***************************************************************************)
\* Mutant: the first column past the width is inside.
is_inside_buffer_wide(x, y) == ~ (x > frame.width \/ y >= frame.height)

is_inside_buffer(x, y) == ~ (x >= frame.width \/ y >= frame.height)

\* In words: bytes_per_pixel is 4.
offset(x, y) == y * frame.width + x

\* The picture, as the display shows it (external).
Screen == {<<x, y>> : x \in 0 .. frame.width - 1, y \in 0 .. frame.height - 1}

Picture == [p \in Screen |-> ColorOf(memory[p[2] * frame.stride + p[1]])]

(***************************************************************************)
(* The operations.  Each is up to three nested loops; t has the counters,  *)
(* from 0.  draw_rect is two loops one after the other, here the turns of  *)
(* an outermost one.                                                       *)
(***************************************************************************)
Outer(c) ==
  CASE c.kind = "fill_rect"    -> c.width
    [] c.kind = "draw_rect"    -> 2
    [] c.kind = "write_string" -> Len(c.data)
    [] c.kind = "draw_cursor"  -> Len(Cursor)

Middle(c, n) ==
  CASE c.kind = "fill_rect"    -> c.height
    [] c.kind = "draw_rect"    -> IF n = 0 THEN c.width ELSE c.height
    [] c.kind = "write_string" -> CHARACTER_HEIGHT
    [] c.kind = "draw_cursor"  -> Len(Cursor[n + 1])

Inner(c) ==
  CASE c.kind = "draw_rect"    -> 2
    [] c.kind = "write_string" -> CHARACTER_WIDTH
    [] c.kind \in {"fill_rect", "draw_cursor"} -> 1

\* The counters of the next turn.
After(c, t) ==
  IF t[3] + 1 < Inner(c) THEN <<t[1], t[2], t[3] + 1>>
  ELSE IF t[2] + 1 < Middle(c, t[1]) THEN <<t[1], t[2] + 1, 0>>
  ELSE <<t[1] + 1, 0, 0>>

Pixel(x, y, color) == [x |-> x, y |-> y, color |-> color]

\* Column by column.
fill_rect(c, t) == Pixel(c.x + t[1], c.y + t[2], c.color)

fill(color) ==
  [kind |-> "fill_rect", x |-> 0, y |-> 0, width |-> frame.width, height |-> frame.height,
   color |-> color]

\* The first and the last row, then the first and the last column.
draw_rect(c, t) ==
  IF t[1] = 0
    THEN Pixel(c.x + t[2], IF t[3] = 0 THEN c.y ELSE c.y + c.height - 1, c.color)
    ELSE Pixel(IF t[3] = 0 THEN c.x ELSE c.x + c.width - 1, c.y + t[2], c.color)

\* Mutant: the bit's number runs from the left.
BitFromLeft(ascii, dy, dx) == dx \in U8_FONT[ascii][dy + 1]

\* The highest bit of a row is its leftmost pixel.
Bit(ascii, dy, dx) == CHARACTER_WIDTH - 1 - dx \in U8_FONT[ascii][dy + 1]

\* U8_FONT has 256 glyphs and an AsciiChar is below 128, so the glyph GARBLED_FONT
\* for a character without one is never taken.
write_char(x, y, color, t) == Pixel(x + t[3], y + t[2], color)

\* Characters are two widths apart.
write_string(c, t) == write_char(c.x + t[1] * CHARACTER_WIDTH * 2, c.y, c.color, t)

draw_cursor(t) == Pixel(t[2], t[1], Cursor[t[1] + 1][t[2] + 1])

PixelAt(c, t) ==
  CASE c.kind = "fill_rect"    -> fill_rect(c, t)
    [] c.kind = "draw_rect"    -> draw_rect(c, t)
    [] c.kind = "write_string" -> write_string(c, t)
    [] c.kind = "draw_cursor"  -> draw_cursor(t)

\* A turn writes its pixel: all do but those at a zero bit or a blank.
Writes(c, t) ==
  /\ t[2] < Middle(c, t[1])
  /\ c.kind = "write_string" => Bit(c.data[t[1] + 1], t[2], t[3])
  /\ c.kind = "draw_cursor" => Cursor[t[1] + 1][t[2] + 1] # NoColor

(***************************************************************************)
(* The steps.  init copies the GraphicInfo and fills the screen.           *)
(***************************************************************************)
Background == CHOOSE c \in Colors : TRUE
Old        == <<0, 0, 0, 255>>

Init ==
  /\ frame \in GraphicInfos
  /\ pc = "draw"
  /\ call = fill(Background)
  /\ at = <<0, 0, 0>>
  /\ result = "ok"
  /\ memory = [w \in 0 .. Words - 1 |-> Old]
  /\ before = Picture
  /\ calls = 0

Call(c) ==
  /\ pc = "idle"
  /\ calls < MaxCalls
  /\ calls' = calls + 1
  /\ pc' = "draw"
  /\ call' = c
  /\ at' = <<0, 0, 0>>
  /\ before' = Picture
  /\ UNCHANGED <<frame, result, memory>>

InLoop == pc = "draw" /\ at[1] < Outer(call)

write_pixel ==
  /\ InLoop
  /\ Writes(call, at)
  /\ LET p == PixelAt(call, at)
     IN  /\ is_inside_buffer(p.x, p.y)
         /\ memory' = [memory EXCEPT ![offset(p.x, p.y)] = Converted(p.color)]
  /\ at' = After(call, at)
  /\ UNCHANGED <<frame, pc, call, result, before, calls>>

\* Nothing to write in this turn.
Skip ==
  /\ InLoop
  /\ ~ Writes(call, at)
  /\ at' = After(call, at)
  /\ UNCHANGED <<frame, pc, call, result, memory, before, calls>>

ReturnWith(value) ==
  /\ pc' = "idle"
  /\ result' = value
  /\ UNCHANGED <<frame, call, at, memory, before, calls>>

\* OutsideBufferError ends an operation, except the cursor's, which drops it.
OutsideBufferError ==
  /\ InLoop
  /\ Writes(call, at)
  /\ ~ is_inside_buffer(PixelAt(call, at).x, PixelAt(call, at).y)
  /\ \/ /\ call.kind = "draw_cursor"
        /\ at' = After(call, at)
        /\ UNCHANGED <<frame, pc, call, result, memory, before, calls>>
     \/ call.kind # "draw_cursor" /\ ReturnWith("outside")

Return == pc = "draw" /\ at[1] >= Outer(call) /\ ReturnWith("ok")

Over == pc = "idle" /\ calls = MaxCalls /\ UNCHANGED vars

Next ==
  (\E c \in Calls : Call(c)) \/ write_pixel \/ Skip \/ OutsideBufferError \/ Return \/ Over

Spec == Init /\ [][Next]_vars

-----------------------------------------------------------------------------
(***************************************************************************)
(* Properties                                                              *)
(***************************************************************************)

\* Whatever is drawn and wherever, the words past the buffer keep what they had
\* (frame_buffer.rs:167-191).
NothingPastBuffer ==
  \A w \in 0 .. Words - 1 : w >= frame.stride * frame.height => memory[w] = Old

\* What an operation should paint: a set of places with a color.
Rect(c) == (c.x .. c.x + c.width - 1) \X (c.y .. c.y + c.height - 1)

Border(c) ==
  {p \in Rect(c) : p[1] \in {c.x, c.x + c.width - 1} \/ p[2] \in {c.y, c.y + c.height - 1}}

GlyphAt(x, y, ascii) ==
  {p \in (x .. x + CHARACTER_WIDTH - 1) \X (y .. y + CHARACTER_HEIGHT - 1) :
     x + CHARACTER_WIDTH - 1 - p[1] \in U8_FONT[ascii][p[2] - y + 1]}

CursorShape ==
  UNION {{<<m - 1, l - 1>> : m \in {k \in DOMAIN Cursor[l] : Cursor[l][k] # NoColor}} :
           l \in DOMAIN Cursor}

Shape(c) ==
  CASE c.kind = "fill_rect"    -> Rect(c)
    [] c.kind = "draw_rect"    -> Border(c)
    [] c.kind = "write_string" ->
         UNION {GlyphAt(c.x + (m - 1) * 2 * CHARACTER_WIDTH, c.y, c.data[m]) : m \in DOMAIN c.data}
    [] c.kind = "draw_cursor"  -> CursorShape

ColorAt(c, p) ==
  IF c.kind = "draw_cursor" THEN Cursor[p[2] + 1][p[1] + 1] ELSE c.color

\* On a screen without padding an operation that succeeds has painted exactly its
\* shape, in the color asked for whatever the pixel format; it fails exactly if
\* a part of the shape lies outside, and then what it has painted is a part of
\* the shape.  The cursor is clipped (frame_buffer.rs:54-150, graphic.rs:107-122,
\* mouse.rs:33-69).
DrawnExactly ==
  pc = "idle" /\ frame.stride = frame.width =>
    /\ result = "outside" <=> call.kind # "draw_cursor" /\ ~ (Shape(call) \subseteq Screen)
    /\ \A p \in Screen :
         \/ p \in Shape(call) /\ Picture[p] = ColorAt(call, p)
         \/ Picture[p] = before[p] /\ (result = "ok" => p \notin Shape(call))
=============================================================================
