------------------------------ MODULE Terminal ------------------------------
(***************************************************************************)
(* What the console of kernel/src/graphic/console.rs promises to whoever   *)
(* prints: a window on the lines printed last.  Each character of a string *)
(* goes to the end of the last line, and is dropped only when that line is *)
(* full; a line feed opens a new last line, and the oldest line leaves a   *)
(* full window.                                                            *)
(***************************************************************************)
EXTENDS Naturals, Sequences

CONSTANTS
  Printable, LineFeed,   \* the characters
  Strings,               \* what may be printed
  ROWS,                  \* lines in the window
  LineWidth              \* characters a line keeps

VARIABLES input, window

Init == input = << >> /\ window = << << >> >>

Write(s) == input = << >> /\ input' = s /\ UNCHANGED window

LastLine == window[Len(window)]

Put(c) ==
  window' = IF Len(LastLine) < LineWidth
              THEN [window EXCEPT ![Len(window)] = Append(@, c)]
              ELSE window

Newline ==
  window' = IF Len(window) < ROWS THEN Append(window, << >>)
                                  ELSE Append(Tail(window), << >>)

Handle ==
  /\ input # << >>
  /\ input' = Tail(input)
  /\ IF Head(input) = LineFeed THEN Newline ELSE Put(Head(input))

Next == Handle \/ \E s \in Strings : Write(s)

Spec == Init /\ [][Next]_<<input, window>>
=============================================================================
