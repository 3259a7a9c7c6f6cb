------------------------------- MODULE Parts --------------------------------
(***************************************************************************)
(* The parts of the kernel that run alone and share no state with another: *)
(* the page tables, the descriptor table, the frame buffer's drawing and   *)
(* the list of common/src/arrayvec.rs.  A behaviour is one of one of them; *)
(* the others stay in an initial state.                                    *)
(***************************************************************************)
EXTENDS Paging, Sequences

CONSTANTS
  Arguments,                                                        \* Gdt
  GraphicInfos, Words, Colors, CHARACTER_WIDTH,                  \* FrameBuffer
  CHARACTER_HEIGHT, U8_FONT, Cursor, Calls, MaxCalls,
  CAP, T, None                                                      \* ArrayVec

VARIABLES
  part,                                                                  \* the one that runs
  arg, gdt_pc, n, gdt, gdtr, segs,                                       \* Gdt
  frame, frame_pc, call, at, result, memory, before, calls,            \* FrameBuffer
  vec, iter, pushed, start, yielded, last                                \* ArrayVec

gdtvars   == <<arg, gdt_pc, n, gdt, gdtr, segs>>
framevars == <<frame, frame_pc, call, at, result, memory, before, calls>>
listvars  == <<vec, iter, pushed, start, yielded, last>>
allvars   == <<part, vars, gdtvars, framevars, listvars>>

-----------------------------------------------------------------------------
G == INSTANCE Gdt WITH pc <- gdt_pc
F == INSTANCE FrameBuffer WITH pc <- frame_pc
A == INSTANCE ArrayVec

ASSUME GdtAssumption == G!ArgumentsOK
ASSUME FrameBufferAssumption == F!ArgumentsOK
ASSUME ArrayVecAssumption == A!ArgumentsOK

PartsInit ==
  /\ part \in {"paging", "gdt", "frame_buffer", "array_vec"}
  /\ Init
  /\ G!Init /\ (part # "gdt" => arg = G!InitArgument)
  /\ F!Init /\ (part # "frame_buffer" => frame = CHOOSE screen \in GraphicInfos : TRUE)
  /\ A!Init

PartsNext ==
  \/ part = "paging" /\ Next /\ UNCHANGED <<part, gdtvars, framevars, listvars>>
  \/ part = "gdt" /\ G!Next /\ UNCHANGED <<part, vars, framevars, listvars>>
  \/ part = "frame_buffer" /\ F!Next /\ UNCHANGED <<part, vars, gdtvars, listvars>>
  \/ part = "array_vec" /\ A!Next /\ UNCHANGED <<part, vars, gdtvars, framevars>>

PartsSpec == PartsInit /\ [][PartsNext]_allvars

-----------------------------------------------------------------------------
(***************************************************************************)
(* Properties, beside those of Paging                                      *)
(***************************************************************************)

\* Descriptors read back as they were given and the segment registers are
\* reloaded from them without a fault (see Gdt; gdt.rs:13-80).
SegmentsReloaded == G!SegmentsReloaded

\* No drawing reaches past the frame buffer (see FrameBuffer;
\* frame_buffer.rs:167-191).
NothingPastBuffer == F!NothingPastBuffer

\* A drawing paints exactly its shape in its color (see FrameBuffer;
\* frame_buffer.rs:54-150).
DrawnExactly == F!DrawnExactly

\* The list holds what was pushed, and a loop over it yields what was pushed before
\* it began, in order (see ArrayVec; arrayvec.rs:22-43).
YieldsInOrder == A!YieldsInOrder

\* The list is read past its array only when it is full and read to its end (see
\* ArrayVec; arrayvec.rs:36-37).
PanicsOnlyPastFull == A!PanicsOnlyPastFull
=============================================================================
