--------------------------- MODULE PhysMemManager ---------------------------
(***************************************************************************)
(* The physical frame manager, kernel/src/phys_mem_manager.rs: a bitmap    *)
(* with one bit per 4 KiB frame that `init` fills from the UEFI memory map *)
(* and `alloc` and `free` consult and change.                              *)
(*                                                                         *)
(* Addresses are counted in frames: UEFI_PAGE_SIZE and BYTES_PER_FRAME are *)
(* both 4096 and UEFI descriptors are page aligned, so every division in   *)
(* the source is exact.  The array of usize lines is the set of the frames *)
(* whose bit is 1; FRAME_COUNT is a multiple of the line width, so a line  *)
(* index is in bounds exactly when the frame number is below FRAME_COUNT.  *)
(* An access past the array panics.                                        *)
(***************************************************************************)
EXTENDS Integers, Sequences

CONSTANTS
  FRAME_COUNT,   \* number of frames the bitmap has a bit for
  MemoryMaps,    \* the memory maps the firmware may hand over
  MaxRequest     \* largest number_of_frame a caller asks for

MemoryType == {"BOOT_SERVICES_CODE", "BOOT_SERVICES_DATA", "CONVENTIONAL",
               "LOADER_DATA", "RESERVED"}

Descriptor == [phys_start : Nat, page_count : Nat, ty : MemoryType]

ASSUME FrameCountAssumption == FRAME_COUNT \in Nat \ {0, 1}
ASSUME MemoryMapsAssumption == MemoryMaps \subseteq Seq(Descriptor)
ASSUME MaxRequestAssumption == MaxRequest \in Nat

VARIABLES
  memory_map,          \* the map given to init, never changed
  pc,                  \* "init", "ready", "alloc" or "panicked"
  idx,                 \* init: index of the descriptor of this iteration
  last_available_end,  \* init: end of the available area seen last
  alloc_map,           \* the frames whose bit is 1
  begin, end,          \* the managed range is begin .. end - 1
  call,                \* alloc: its argument and its loop variable
  ret                  \* what the last finished call of alloc returned

vars == <<memory_map, pc, idx, last_available_end, alloc_map, begin, end,
          call, ret>>

\* Mutant: the last frame's line is missing from the array.
FramesShort == 0 .. FRAME_COUNT - 2

Frames == 0 .. FRAME_COUNT - 1

Run(first, count) == first .. first + count - 1

\* Mutant: what the loader allocated is free once it has left.
is_available_loader(ty) ==
  ty \in {"BOOT_SERVICES_CODE", "BOOT_SERVICES_DATA", "CONVENTIONAL", "LOADER_DATA"}

is_available(ty) ==
  ty \in {"BOOT_SERVICES_CODE", "BOOT_SERVICES_DATA", "CONVENTIONAL"}

FramesOf(desc) == Run(desc.phys_start, desc.page_count)

(***************************************************************************)
(* The initial state is the static BitmapMemoryManager::new() with init    *)
(* about to run its first iteration.                                       *)
(***************************************************************************)
NoCall   == [number_of_frame |-> 0, start_frame_id |-> 0]
NoReturn == [number_of_frame |-> 0, found |-> FALSE, first |-> 0]

Init ==
  /\ memory_map \in MemoryMaps
  /\ pc = "init"
  /\ idx = 1
  /\ last_available_end = 0
  /\ alloc_map = {}
  /\ begin = 0
  /\ end = FRAME_COUNT
  /\ call = NoCall
  /\ ret = NoReturn

(***************************************************************************)
(* One iteration of init's loop.  The missing area below the descriptor is *)
(* marked first; an unavailable descriptor marks its own frames too.       *)
(***************************************************************************)
\* Mutant: the first missing frame is skipped.
MissingAreaLate(desc) == last_available_end + 1 .. desc.phys_start - 1

MissingArea(desc) == last_available_end .. desc.phys_start - 1

UsedArea(desc) == IF is_available(desc.ty) THEN {} ELSE FramesOf(desc)

\* Mutant: set_bit without the array's bounds check.
mark_allocated_unchecked(S) == alloc_map' = alloc_map \union S

mark_allocated(S) == alloc_map' = alloc_map \union (S \intersect Frames)

InitEntry ==
  /\ pc = "init"
  /\ idx <= Len(memory_map)
  /\ LET desc == memory_map[idx]
         area == MissingArea(desc) \union UsedArea(desc)
     IN  /\ area \subseteq Frames
         /\ mark_allocated(area)
         /\ last_available_end' =
              IF is_available(desc.ty) THEN desc.phys_start + desc.page_count
                                       ELSE last_available_end
  /\ idx' = idx + 1
  /\ UNCHANGED <<memory_map, pc, begin, end, call, ret>>

\* set_bit indexes past alloc_map: the frames below FRAME_COUNT are marked,
\* and a missing area that panics leaves the descriptor's own area unmarked.
InitEntryPanics ==
  /\ pc = "init"
  /\ idx <= Len(memory_map)
  /\ LET desc == memory_map[idx]
         gap  == MissingArea(desc)
         area == IF gap \subseteq Frames THEN gap \union UsedArea(desc) ELSE gap
     IN  /\ ~ (area \subseteq Frames)
         /\ mark_allocated(area)
  /\ pc' = "panicked"
  /\ UNCHANGED <<memory_map, idx, last_available_end, begin, end, call, ret>>

\* Mutant: the managed range ends one frame early.
InitReturnsShort ==
  /\ pc = "init"
  /\ idx > Len(memory_map)
  /\ begin' = 1
  /\ end' = last_available_end - 1
  /\ pc' = "ready"
  /\ UNCHANGED <<memory_map, idx, last_available_end, alloc_map, call, ret>>

\* The loop is over: set_memory_range(FrameID(1), FrameID(last_available_end)).
InitReturns ==
  /\ pc = "init"
  /\ idx > Len(memory_map)
  /\ begin' = 1
  /\ end' = last_available_end
  /\ pc' = "ready"
  /\ UNCHANGED <<memory_map, idx, last_available_end, alloc_map, call, ret>>

(***************************************************************************)
(* alloc.  Its `i` is an immutable 0 (the for loop's own variable is `_`), *)
(* so one iteration of the outer loop tests the single frame               *)
(* start_frame_id, number_of_frame times over.                             *)
(***************************************************************************)
i == 0

AllocCall(number_of_frame) ==
  /\ pc = "ready"
  /\ call' = [number_of_frame |-> number_of_frame, start_frame_id |-> begin]
  /\ pc' = "alloc"
  /\ UNCHANGED <<memory_map, idx, last_available_end, alloc_map, begin, end,
                 ret>>

ReturnFrom(found) ==
  /\ pc' = "ready"
  /\ ret' = [number_of_frame |-> call.number_of_frame, found |-> found,
             first |-> IF found THEN call.start_frame_id ELSE 0]
  /\ call' = NoCall

\* start_frame_id + i >= end: None.
AllocNone ==
  /\ pc = "alloc"
  /\ call.number_of_frame > 0
  /\ call.start_frame_id + i >= end
  /\ ReturnFrom(FALSE)
  /\ UNCHANGED <<memory_map, idx, last_available_end, alloc_map, begin, end>>

\* get_bit indexes past alloc_map.
AllocPanics ==
  /\ pc = "alloc"
  /\ call.number_of_frame > 0
  /\ call.start_frame_id + i < end
  /\ call.start_frame_id + i \notin Frames
  /\ pc' = "panicked"
  /\ UNCHANGED <<memory_map, idx, last_available_end, alloc_map, begin, end,
                 call, ret>>

\* i == number_of_frame: mark the frames and return the first one.
AllocSome ==
  /\ pc = "alloc"
  /\ call.number_of_frame = i
  /\ mark_allocated(Run(call.start_frame_id, call.number_of_frame))
  /\ ReturnFrom(TRUE)
  /\ UNCHANGED <<memory_map, idx, last_available_end, begin, end>>

\* Mutant: start_frame_id += i.
AllocAdvanceStuck ==
  /\ pc = "alloc"
  /\ call.number_of_frame > i
  /\ call.start_frame_id + i < end
  /\ call.start_frame_id + i \in Frames
  /\ call' = [call EXCEPT !.start_frame_id = @ + i]
  /\ UNCHANGED <<memory_map, pc, idx, last_available_end, alloc_map, begin, end,
                 ret>>

\* Otherwise, whether the frame's bit was 1 or 0, start_frame_id += i + 1.
AllocAdvance ==
  /\ pc = "alloc"
  /\ call.number_of_frame > i
  /\ call.start_frame_id + i < end
  /\ call.start_frame_id + i \in Frames
  /\ call' = [call EXCEPT !.start_frame_id = @ + i + 1]
  /\ UNCHANGED <<memory_map, pc, idx, last_available_end, alloc_map, begin, end,
                 ret>>

(***************************************************************************)
(* free.  Nothing in the kernel calls it yet; the caller modelled here     *)
(* gives back frames that an allocation may hand out: available frames of  *)
(* the managed range.                                                      *)
(***************************************************************************)
Covered(f, available) ==
  \E k \in DOMAIN memory_map :
     /\ is_available(memory_map[k].ty) = available
     /\ f \in FramesOf(memory_map[k])

Usable == {f \in Frames : Covered(f, TRUE) /\ ~ Covered(f, FALSE)}

Free(first, number_of_frame) ==
  /\ pc = "ready"
  /\ Run(first, number_of_frame) \subseteq (begin .. end - 1) \intersect Usable
  /\ alloc_map' = alloc_map \ Run(first, number_of_frame)
  /\ UNCHANGED <<memory_map, pc, idx, last_available_end, begin, end, call, ret>>

\* After a panic the panic handler halts.
Halted == pc = "panicked" /\ UNCHANGED vars

AllocStep == AllocNone \/ AllocPanics \/ AllocSome \/ AllocAdvance

Next ==
  \/ InitEntry
  \/ InitEntryPanics
  \/ InitReturns
  \/ \E n \in 0 .. MaxRequest : AllocCall(n)
  \/ AllocStep
  \/ \E first \in Frames, n \in 0 .. MaxRequest : Free(first, n)
  \/ Halted

Spec == Init /\ [][Next]_vars

\* A loop that runs on the only CPU using the manager keeps running.
FairSpec ==
  /\ Spec
  /\ WF_vars(InitEntry \/ InitEntryPanics \/ InitReturns)
  /\ WF_vars(AllocStep)

-----------------------------------------------------------------------------
(***************************************************************************)
(* Properties                                                              *)
(***************************************************************************)

\* Every variable has its type (phys_mem_manager.rs:43-47).
TypeOK ==
  /\ memory_map \in Seq(Descriptor)
  /\ pc \in {"init", "ready", "alloc", "panicked"}
  /\ idx \in Nat \ {0}
  /\ last_available_end \in Nat
  /\ alloc_map \subseteq Frames
  /\ begin \in Nat
  /\ end \in Nat
  /\ call \in [number_of_frame : Nat, start_frame_id : Nat]
  /\ ret \in [number_of_frame : Nat, found : BOOLEAN, first : Nat]

\* Once init has returned, no frame of the managed range has a clear bit
\* unless some available descriptor covers it and no unavailable one does:
\* whatever the order of the descriptors, and even if they overlap, the
\* missing and the used areas are all marked (phys_mem_manager.rs:58-85).
NoReservedFrameFree ==
  pc \in {"ready", "alloc"} =>
    \A f \in (begin .. end - 1) \intersect Frames :
       f \notin alloc_map => f \in Usable

\* init and alloc index past the bitmap only if some descriptor reaches past
\* the memory the bitmap covers (phys_mem_manager.rs:98-114).
PanicOnlyPastBitmap ==
  pc = "panicked" =>
    \E k \in DOMAIN memory_map :
       memory_map[k].phys_start + memory_map[k].page_count > FRAME_COUNT

\* The descriptors are in address order and do not overlap.
Sorted(map) ==
  \A j, k \in DOMAIN map :
    j < k => map[j].phys_start + map[j].page_count <= map[k].phys_start

\* For a sorted map, the step in which init returns leaves every usable frame
\* clear and inside the managed range, frame 0 excepted: init loses no memory
\* (phys_mem_manager.rs:58-85).
InitLosesNoFrame ==
  [][pc = "init" /\ pc' = "ready" /\ Sorted(memory_map) =>
       \A f \in Usable : f \notin alloc_map' /\ f < end']_vars

\* init and every call of alloc end: the search in alloc always advances
\* (phys_mem_manager.rs:116-136).
AllCallsEnd ==
  /\ pc = "init" ~> pc # "init"
  /\ pc = "alloc" ~> pc # "alloc"

\* phys_mem_manager.rs:128, in alloc: "If there are `number_of_frame`-consecutive
\* free frames, following condition is true."  So a call that returns None met
\* no such run in the managed range.
AllocFindsRun ==
  [][pc = "alloc" /\ pc' = "ready" /\ ~ ret'.found =>
       ~ \E first \in begin .. end - 1 :
           LET run == Run(first, ret'.number_of_frame)
           IN  run \subseteq (begin .. end - 1) /\ run \intersect alloc_map = {}]_vars
=============================================================================
