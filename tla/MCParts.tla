------------------------------ MODULE MCParts -------------------------------
(***************************************************************************)
(* Gdt: bases and limits with the bits at the borders of the fields they   *)
(* are split into, limits of more than 20 bits among them, and every       *)
(* privilege level.                                                        *)
(*                                                                         *)
(* FrameBuffer: a screen of three columns and two rows, with and without a *)
(* padding column, in both pixel formats; rectangles of every place and    *)
(* size that overlap it, a font of two glyphs and a cursor that fits or    *)
(* not.                                                                    *)
(***************************************************************************)
EXTENDS Parts

CONSTANT MaxRect

Bases  == {{}, {15}, {16}, {23, 24}, {0, 31}, 0 .. 31}
Limits == {{}, {15}, {16, 19}, 0 .. 19, {20}, {21, 23}, {22, 24}, 0 .. 31}

BorderArguments == [dpl : SUBSET (0 .. 1), base : Bases, limit : Limits]

Red       == <<200, 1, 2>>
Blue      == <<3, 4, 100>>
TwoColors == {Red, Blue}

Screens ==
  {[width |-> 3, height |-> 2, stride |-> s, pixel_format |-> f] : s \in 3 .. 4, f \in {"Rgb", "Bgr"}}

\* Columns of bits: 1 is the left one of two.
TwoGlyphs == << << {1}, {0, 1} >>, << {0}, {} >> >>

Blank       == << >>
SmallCursor == << <<Blank, Red, Blue, Red>>, <<Blue, Blank>> >>

Rectangles(kind, sizes) ==
  [kind : {kind}, x : 0 .. 2, y : 0 .. 2, width : sizes, height : sizes, color : {Red}]

Strings ==
  [kind : {"write_string"}, x : 0 .. 2, y : 0 .. 1, data : {<<1>>, <<2>>, <<2, 1>>},
   color : {Red, Blue}]

SmallCalls ==
  Rectangles("fill_rect", 0 .. MaxRect) \union Rectangles("draw_rect", 1 .. MaxRect)
  \union Strings \union {[kind |-> "draw_cursor"]}
=============================================================================
