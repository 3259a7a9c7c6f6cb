---------------------------- MODULE KernelLoader ----------------------------
(***************************************************************************)
(* load_elf of the bootloader (bootloader/src/kernel.rs): find the extent  *)
(* of the PT_LOAD segments, have the firmware allocate pages, copy every   *)
(* segment to its virtual address and hand over.                           *)
(*                                                                         *)
(* Memory is identity mapped, so an address is physical and virtual.  The  *)
(* file's byte at an offset is that offset; memory holds such a byte, Zero *)
(* or what was there before, Old.  The buffer with the file is not part of *)
(* this memory: no segment is linked to where the firmware put it.         *)
(***************************************************************************)
EXTENDS Integers, Sequences, FiniteSets

CONSTANTS
  UEFI_PAGE_SIZE,
  PageCount,       \* pages of memory
  FileSize,        \* bytes of the kernel file
  Elves,           \* the program headers the file may have
  Zero, Old        \* what memory may hold besides a byte of the file

Addresses == 0 .. PageCount * UEFI_PAGE_SIZE - 1
Pages     == 0 .. PageCount - 1

ProgramHeader ==
  [p_type : {"PT_LOAD", "PT_DYNAMIC"}, p_paddr : Nat, p_vaddr : Nat, p_memsz : Nat,
   p_offset : Nat, p_filesz : Nat]

ASSUME SizeAssumption ==
  UEFI_PAGE_SIZE \in Nat \ {0} /\ PageCount \in Nat \ {0} /\ FileSize \in Nat
ASSUME ElfAssumption ==
  /\ Elves \subseteq Seq(ProgramHeader)
  /\ \A e \in Elves : \A k \in DOMAIN e :
       e[k].p_vaddr + e[k].p_memsz <= PageCount * UEFI_PAGE_SIZE

VARIABLES
  program_headers,        \* of the file, never changed
  available,              \* pages the firmware can still allocate
  pc,                     \* "extent", "allocate", "copy", "run" or "panicked"
  k,                      \* the loops: index of the header
  dest_start, dest_end,   \* the extent
  allocated,              \* pages allocated for the kernel
  memory

vars == <<program_headers, available, pc, k, dest_start, dest_end, allocated, memory>>

Init ==
  /\ program_headers \in Elves
  /\ available \in SUBSET Pages
  /\ pc = "extent"
  /\ k = 1
  /\ dest_start = 0
  /\ dest_end = 0
  /\ allocated = {}
  /\ memory = [a \in Addresses |-> Old]

Lesser(a, b)  == IF a < b THEN a ELSE b
Greater(a, b) == IF a > b THEN a ELSE b

IsLoad(header) == header.p_type = "PT_LOAD"

\* Mutant: the extent ends with the last segment.
ExtentEndLast(header) == header.p_vaddr + header.p_memsz

ExtentEnd(header) == Greater(dest_end, header.p_vaddr + header.p_memsz)

\* Mutant: a header that is not loaded is not stepped over.
ExtentStuck ==
  /\ pc = "extent"
  /\ k <= Len(program_headers)
  /\ LET header == program_headers[k]
     IN  IF IsLoad(header)
           THEN /\ dest_start' = Lesser(dest_start, header.p_paddr)
                /\ dest_end' = ExtentEnd(header)
                /\ k' = k + 1
           ELSE UNCHANGED <<dest_start, dest_end, k>>
  /\ UNCHANGED <<program_headers, available, pc, allocated, memory>>

\* One iteration of the first loop.  dest_start starts as 0, so it stays 0.
Extent ==
  /\ pc = "extent"
  /\ k <= Len(program_headers)
  /\ LET header == program_headers[k]
     IN  IF IsLoad(header)
           THEN /\ dest_start' = Lesser(dest_start, header.p_paddr)
                /\ dest_end' = ExtentEnd(header)
           ELSE UNCHANGED <<dest_start, dest_end>>
  /\ k' = k + 1
  /\ UNCHANGED <<program_headers, available, pc, allocated, memory>>

ExtentDone ==
  /\ pc = "extent"
  /\ k > Len(program_headers)
  /\ pc' = "allocate"
  /\ UNCHANGED <<program_headers, available, k, dest_start, dest_end, allocated, memory>>

page_size == (dest_end - dest_start + UEFI_PAGE_SIZE - 1) \div UEFI_PAGE_SIZE

\* The runs of available pages allocate_pages may choose from.
Runs == {run \in {first .. first + page_size - 1 : first \in Pages} : run \subseteq available}

\* AnyPages: the firmware chooses, and load_elf does not look at its choice.
AllocatePages ==
  /\ pc = "allocate"
  /\ \E run \in Runs : allocated' = run /\ available' = available \ run
  /\ pc' = "copy"
  /\ k' = 1
  /\ UNCHANGED <<program_headers, dest_start, dest_end, memory>>

AllocateFails ==
  /\ pc = "allocate"
  /\ Runs = {}
  /\ pc' = "panicked"
  /\ UNCHANGED <<program_headers, available, k, dest_start, dest_end, allocated, memory>>

\* The bytes of the segment lie in the file and in the segment's memory.
Copyable(header) ==
  header.p_filesz <= header.p_memsz /\ header.p_offset + header.p_filesz <= FileSize

\* What a segment has at an offset: bytes of the file, then zeros.
SegmentByte(header, j) == IF j < header.p_filesz THEN header.p_offset + j ELSE Zero

BytesOf(header) == header.p_vaddr .. header.p_vaddr + header.p_memsz - 1

\* Mutant: the rest of the segment is not filled with zeros.
CopiedNoFill(header) ==
  [a \in Addresses |-> IF a \in BytesOf(header) /\ a - header.p_vaddr < header.p_filesz
                         THEN SegmentByte(header, a - header.p_vaddr) ELSE memory[a]]

Copied(header) ==
  [a \in Addresses |-> IF a \in BytesOf(header)
                         THEN SegmentByte(header, a - header.p_vaddr) ELSE memory[a]]

\* copy_load_segment: one iteration.
CopySegment ==
  /\ pc = "copy"
  /\ k <= Len(program_headers)
  /\ LET header == program_headers[k]
     IN  /\ IsLoad(header) => Copyable(header)
         /\ memory' = IF IsLoad(header) THEN Copied(header) ELSE memory
  /\ k' = k + 1
  /\ UNCHANGED <<program_headers, available, pc, dest_start, dest_end, allocated>>

\* A slice index is out of range.  Both slices are taken before a byte is copied.
CopyPanics ==
  /\ pc = "copy"
  /\ k <= Len(program_headers)
  /\ IsLoad(program_headers[k])
  /\ ~ Copyable(program_headers[k])
  /\ pc' = "panicked"
  /\ UNCHANGED <<program_headers, available, k, dest_start, dest_end, allocated, memory>>

\* exit_boot_services, and the kernel runs at its entry point.
Run ==
  /\ pc = "copy"
  /\ k > Len(program_headers)
  /\ pc' = "run"
  /\ UNCHANGED <<program_headers, available, k, dest_start, dest_end, allocated, memory>>

Over == pc \in {"run", "panicked"} /\ UNCHANGED vars

LoadStep ==
  \/ Extent \/ ExtentDone \/ AllocatePages \/ AllocateFails \/ CopySegment \/ CopyPanics
  \/ Run

Next == LoadStep \/ Over

Spec == Init /\ [][Next]_vars

-----------------------------------------------------------------------------
(***************************************************************************)
(* Properties                                                              *)
(***************************************************************************)

LoadSegments == {j \in DOMAIN program_headers : IsLoad(program_headers[j])}

\* When the kernel runs and its segments do not overlap, every one of them is
\* complete in memory, its zeros included, and nothing else was written
\* (kernel.rs:94-145).
SegmentsLoaded ==
  pc = "run" /\ (\A j, l \in LoadSegments : j # l =>
       BytesOf(program_headers[j]) \intersect BytesOf(program_headers[l]) = {}) =>
    /\ \A j \in LoadSegments :
         LET header == program_headers[j]
         IN  \A a \in BytesOf(header) :
               memory[a] = SegmentByte(header, a - header.p_vaddr)
    /\ \A a \in Addresses :
         memory[a] # Old => \E j \in LoadSegments : a \in BytesOf(program_headers[j])

\* The pages allocated are as many as the pages the segments lie in, whatever
\* their order (kernel.rs:61-83).
EnoughPages ==
  pc \in {"copy", "run"} =>
    Cardinality({a \div UEFI_PAGE_SIZE :
       a \in UNION {BytesOf(program_headers[j]) : j \in LoadSegments}}) <= Cardinality(allocated)
=============================================================================
