----------------------------- MODULE MCConsole ------------------------------
(***************************************************************************)
(* Every string of at most MaxString characters, on a frame buffer that    *)
(* just holds the console and on one that is a pixel too narrow or too low *)
(***************************************************************************)
EXTENDS Console

CONSTANT MaxString

SmallStrings == UNION {[1 .. n -> Characters] : n \in 1 .. MaxString}

SmallFrames ==
  LET w == COLUMNS * CHARACTER_WIDTH
      h == ROWS * CHARACTER_HEIGHT
  IN  {[width |-> w, height |-> h], [width |-> w - 1, height |-> h],
       [width |-> w, height |-> h - 1]}
=============================================================================
