------------------------- MODULE KernelLoaderProofs -------------------------
(***************************************************************************)
(* load_elf, for every kernel file, every size of memory and of a page:    *)
(* the segments are complete when the kernel runs, and the pages allocated *)
(* are as many as the pages they lie in.                                   *)
(***************************************************************************)
EXTENDS KernelLoader, FiniteSetTheorems, TLAPS

USE SizeAssumption

\* What a byte of memory may be.
Contents == Nat \union {Zero, Old}

\* Where a segment ends.
EndOf(header) == header.p_vaddr + header.p_memsz

Disjoint ==
  \A j, l \in LoadSegments : j # l =>
    BytesOf(program_headers[j]) \intersect BytesOf(program_headers[l]) = {}

(***************************************************************************)
(* The inductive invariant.  Both loops have dealt with the headers before *)
(* k: their ends are within the extent, their bytes are in memory.  Bytes  *)
(* that are copied stay if the segments are disjoint.                      *)
(***************************************************************************)
TypeInv ==
  /\ program_headers \in Elves
  /\ pc \in {"extent", "allocate", "copy", "run", "panicked"}
  /\ k \in 1 .. Len(program_headers) + 1
  /\ dest_start = 0
  /\ dest_end \in Nat
  /\ memory \in [Addresses -> Contents]
  /\ pc \in {"allocate", "run"} => k = Len(program_headers) + 1

ExtentInv ==
  \A j \in LoadSegments :
    pc \in {"allocate", "copy", "run"} \/ j < k => EndOf(program_headers[j]) <= dest_end

RunInv ==
  pc \in {"copy", "run"} =>
    \E first \in Pages : allocated = first .. first + page_size - 1

\* The segment is complete in memory.
Complete(j) ==
  \A a \in BytesOf(program_headers[j]) :
    memory[a] = SegmentByte(program_headers[j], a - program_headers[j].p_vaddr)

CopiedInv ==
  pc \in {"copy", "run"} /\ Disjoint =>
    \A j \in LoadSegments : j < k => Complete(j)

WrittenInv ==
  \A a \in Addresses :
    memory[a] # Old => \E j \in LoadSegments : a \in BytesOf(program_headers[j])

IInv == TypeInv /\ ExtentInv /\ RunInv /\ CopiedInv /\ WrittenInv

-----------------------------------------------------------------------------
\* A segment lies in memory.
LEMMA HeaderTypes ==
  ASSUME program_headers \in Elves
  PROVE  /\ Len(program_headers) \in Nat
         /\ \A j \in DOMAIN program_headers :
              /\ j \in 1 .. Len(program_headers)
              /\ program_headers[j] \in ProgramHeader
              /\ BytesOf(program_headers[j]) \subseteq Addresses
<1>1. program_headers \in Seq(ProgramHeader)
  BY ElfAssumption
<1>2. ASSUME NEW j \in DOMAIN program_headers
      PROVE  /\ j \in 1 .. Len(program_headers)
             /\ program_headers[j] \in ProgramHeader
             /\ EndOf(program_headers[j]) <= PageCount * UEFI_PAGE_SIZE
  BY <1>1, <1>2, ElfAssumption DEF EndOf
<1>3. PageCount * UEFI_PAGE_SIZE \in Nat
  OBVIOUS
<1>4. ASSUME NEW header \in ProgramHeader, EndOf(header) <= PageCount * UEFI_PAGE_SIZE
      PROVE  BytesOf(header) \subseteq Addresses
  BY <1>3, <1>4 DEF ProgramHeader, EndOf, BytesOf, Addresses
<1> QED  BY <1>1, <1>2, <1>4

\* Rounding up to pages: an address before the end lies in one of the pages counted.
LEMMA PageOfByte ==
  ASSUME NEW a \in Nat, NEW e \in Nat, a < e
  PROVE  a \div UEFI_PAGE_SIZE \in 0 .. (e + UEFI_PAGE_SIZE - 1) \div UEFI_PAGE_SIZE - 1
<1> DEFINE P == UEFI_PAGE_SIZE
           p == a \div P
           q == (e + P - 1) \div P
<1>1. p \in Nat /\ p * P <= a /\ q \in Nat /\ e + P - 1 < (q + 1) * P
  OBVIOUS
<1>2. a < q * P
  BY <1>1
<1>3. p < q
  BY <1>1, <1>2
<1> QED  BY <1>1, <1>3

\* A run of so many pages has so many pages.
LEMMA RunSize ==
  ASSUME NEW first \in Int, NEW size \in Nat
  PROVE  /\ IsFiniteSet(first .. first + size - 1)
         /\ Cardinality(first .. first + size - 1) = size
<1> DEFINE last == first + size - 1
<1>1. last \in Int /\ (first > last <=> size = 0) /\ last - first + 1 = size
  OBVIOUS
<1> HIDE DEF last
<1>2. /\ IsFiniteSet(first .. last)
      /\ Cardinality(first .. last) = IF first > last THEN 0 ELSE last - first + 1
  BY <1>1, FS_Interval, Zenon
<1>3. Cardinality(first .. last) = size
  BY <1>1, <1>2
<1> QED  BY <1>2, <1>3 DEF last

LEMMA InvInit == Init => IInv
<1> SUFFICES ASSUME Init PROVE IInv
  OBVIOUS
<1>1. TypeInv
  BY HeaderTypes DEF Init, TypeInv, Contents
<1>2. ExtentInv
  BY <1>1, HeaderTypes DEF Init, ExtentInv, LoadSegments, TypeInv
<1>3. RunInv /\ CopiedInv
  BY DEF Init, RunInv, CopiedInv
<1>4. WrittenInv
  BY DEF Init, WrittenInv
<1> QED  BY <1>1, <1>2, <1>3, <1>4 DEF IInv

\* The file does not change, so neither does what is read from its headers.
LEMMA HeadersKept ==
  ASSUME program_headers' = program_headers
  PROVE  LoadSegments' = LoadSegments /\ Disjoint' = Disjoint
BY DEF LoadSegments, Disjoint

LEMMA ExtentKeeps == IInv /\ Extent => IInv'
<1> SUFFICES ASSUME IInv, Extent PROVE IInv'
  OBVIOUS
<1> USE DEF IInv
<1> DEFINE header == program_headers[k]
<1>0. /\ program_headers' = program_headers /\ pc = "extent" /\ pc' = pc
      /\ memory' = memory /\ k' = k + 1 /\ LoadSegments' = LoadSegments
  BY HeadersKept DEF Extent
<1>1. /\ Len(program_headers) \in Nat /\ k \in 1 .. Len(program_headers)
      /\ k \in DOMAIN program_headers /\ header \in ProgramHeader
  <2>1. program_headers \in Seq(ProgramHeader)
    BY ElfAssumption DEF TypeInv
  <2> QED  BY <2>1 DEF TypeInv, Extent
<1>2. EndOf(header) \in Nat /\ header.p_paddr \in Nat
  BY <1>1 DEF ProgramHeader, EndOf
<1>3. /\ dest_start' = 0 /\ dest_end' \in Nat /\ dest_end' >= dest_end
      /\ k \in LoadSegments => EndOf(header) <= dest_end'
  BY <1>1, <1>2 DEF Extent, Lesser, ExtentEnd, Greater, EndOf, LoadSegments, TypeInv
<1>4. TypeInv'
  BY <1>0, <1>1, <1>3 DEF TypeInv
<1>5. ExtentInv'
  <2> SUFFICES ASSUME NEW j \in LoadSegments, j < k + 1
               PROVE  EndOf(program_headers[j]) <= dest_end'
    BY <1>0 DEF ExtentInv, EndOf
  <2>1. j \in 1 .. Len(program_headers) /\ EndOf(program_headers[j]) \in Nat
    BY HeaderTypes DEF TypeInv, LoadSegments, EndOf, ProgramHeader
  <2>2. CASE j = k
    BY <2>2, <1>3
  <2>3. CASE j < k
    BY <2>1, <2>3, <1>3 DEF ExtentInv, TypeInv
  <2> QED  BY <2>1, <2>2, <2>3, <1>1
<1>6. RunInv' /\ CopiedInv'
  BY <1>0 DEF RunInv, CopiedInv
<1>7. WrittenInv'
  BY <1>0 DEF WrittenInv
<1> QED  BY <1>4, <1>5, <1>6, <1>7

LEMMA ExtentDoneKeeps == IInv /\ ExtentDone => IInv'
<1> SUFFICES ASSUME IInv, ExtentDone PROVE IInv'
  OBVIOUS
<1> USE DEF IInv
<1>0. program_headers' = program_headers /\ pc' = "allocate" /\ LoadSegments' = LoadSegments
  BY HeadersKept DEF ExtentDone
<1>1. /\ Len(program_headers) \in Nat /\ k = Len(program_headers) + 1
      /\ \A j \in LoadSegments : j \in 1 .. Len(program_headers)
  BY HeaderTypes DEF ExtentDone, TypeInv, LoadSegments
<1>2. TypeInv'
  BY <1>0, <1>1 DEF ExtentDone, TypeInv
<1>3. ExtentInv'
  BY <1>0, <1>1 DEF ExtentDone, ExtentInv, EndOf
<1>4. RunInv' /\ CopiedInv'
  BY <1>0 DEF RunInv, CopiedInv
<1>5. WrittenInv'
  BY <1>0 DEF ExtentDone, WrittenInv
<1> QED  BY <1>2, <1>3, <1>4, <1>5

LEMMA AllocatePagesKeeps == IInv /\ AllocatePages => IInv'
<1> SUFFICES ASSUME IInv, AllocatePages PROVE IInv'
  OBVIOUS
<1> USE DEF IInv
<1>0. program_headers' = program_headers /\ pc' = "copy" /\ k' = 1
      /\ LoadSegments' = LoadSegments /\ memory' = memory /\ pc = "allocate"
  BY HeadersKept DEF AllocatePages
<1>1. /\ Len(program_headers) \in Nat
      /\ \A j \in LoadSegments : j \in 1 .. Len(program_headers)
  BY HeaderTypes DEF TypeInv, LoadSegments
<1>2. TypeInv'
  BY <1>0, <1>1 DEF AllocatePages, TypeInv
<1>3. ExtentInv'
  BY <1>0 DEF AllocatePages, ExtentInv, EndOf
<1>4. RunInv'
  BY <1>0 DEF AllocatePages, RunInv, Runs, page_size
<1>5. CopiedInv'
  BY <1>0, <1>1 DEF CopiedInv
<1>6. WrittenInv'
  BY <1>0 DEF WrittenInv
<1> QED  BY <1>2, <1>3, <1>4, <1>5, <1>6

LEMMA PanicKeeps == IInv /\ (AllocateFails \/ CopyPanics) => IInv'
<1> SUFFICES ASSUME IInv, AllocateFails \/ CopyPanics PROVE IInv'
  OBVIOUS
<1> USE DEF IInv
<1>0. /\ program_headers' = program_headers /\ pc' = "panicked" /\ LoadSegments' = LoadSegments
      /\ UNCHANGED <<k, dest_start, dest_end, memory>>
  BY HeadersKept DEF AllocateFails, CopyPanics
<1>1. TypeInv'
  BY <1>0 DEF TypeInv
<1>2. ExtentInv'
  BY <1>0 DEF ExtentInv, EndOf
<1>3. RunInv' /\ CopiedInv'
  BY <1>0 DEF RunInv, CopiedInv
<1>4. WrittenInv'
  BY <1>0 DEF WrittenInv
<1> QED  BY <1>1, <1>2, <1>3, <1>4

\* Copying a segment that no other one overlaps leaves the others complete.
LEMMA CopySegmentKeeps == IInv /\ CopySegment => IInv'
<1> SUFFICES ASSUME IInv, CopySegment PROVE IInv'
  OBVIOUS
<1> USE DEF IInv
<1> DEFINE header == program_headers[k]
<1>0. /\ program_headers' = program_headers /\ pc = "copy" /\ pc' = pc /\ k' = k + 1
      /\ UNCHANGED <<dest_start, dest_end, allocated>>
      /\ LoadSegments' = LoadSegments /\ Disjoint' = Disjoint
  BY HeadersKept DEF CopySegment
<1>1. /\ Len(program_headers) \in Nat /\ k \in 1 .. Len(program_headers)
      /\ k \in DOMAIN program_headers /\ header \in ProgramHeader
  <2>1. program_headers \in Seq(ProgramHeader)
    BY ElfAssumption DEF TypeInv
  <2> QED  BY <2>1 DEF TypeInv, CopySegment
<1>2. \A j \in LoadSegments : /\ j \in 1 .. Len(program_headers)
                              /\ BytesOf(program_headers[j]) \subseteq Addresses
  BY HeaderTypes DEF TypeInv, LoadSegments
<1>3. \A a \in BytesOf(header) : SegmentByte(header, a - header.p_vaddr) \in Contents
  BY <1>1 DEF ProgramHeader, BytesOf, SegmentByte, Contents
<1>4. memory' \in [Addresses -> Contents]
  BY <1>3 DEF CopySegment, Copied, TypeInv
<1>5. ASSUME NEW a \in Addresses
      PROVE  memory'[a] = IF k \in LoadSegments /\ a \in BytesOf(header)
                            THEN SegmentByte(header, a - header.p_vaddr) ELSE memory[a]
  BY <1>1 DEF CopySegment, Copied, LoadSegments
<1>6. TypeInv'
  BY <1>0, <1>1, <1>4 DEF TypeInv
<1>7. ExtentInv'
  BY <1>0 DEF ExtentInv, EndOf
<1>8. RunInv'
  BY <1>0 DEF RunInv, page_size
<1>9. CopiedInv'
  <2> SUFFICES ASSUME Disjoint, NEW j \in LoadSegments, j < k + 1,
                      NEW a \in BytesOf(program_headers[j])
               PROVE  memory'[a]
                        = SegmentByte(program_headers[j], a - program_headers[j].p_vaddr)
    BY <1>0 DEF CopiedInv, Complete, BytesOf, SegmentByte
  <2>1. a \in Addresses
    BY <1>2
  <2>2. CASE j = k
    BY <2>1, <2>2, <1>5
  <2>3. CASE j < k
    <3>0. j # k
      BY <2>3, <1>1, <1>2
    <3>1. ~ (k \in LoadSegments /\ a \in BytesOf(header))
      BY <3>0, Zenon DEF Disjoint
    <3>2. memory'[a] = memory[a]
      BY <3>1, <2>1, <1>5
    <3>3. Complete(j)
      BY <2>3, <1>0 DEF CopiedInv
    <3> QED  BY <3>2, <3>3 DEF Complete
  <2> QED  BY <2>2, <2>3, <1>1, <1>2
<1>10. WrittenInv'
  BY <1>0, <1>5 DEF WrittenInv, BytesOf
<1> QED  BY <1>6, <1>7, <1>8, <1>9, <1>10

LEMMA RunKeeps == IInv /\ Run => IInv'
<1> SUFFICES ASSUME IInv, Run PROVE IInv'
  OBVIOUS
<1> USE DEF IInv
<1>0. /\ program_headers' = program_headers /\ pc = "copy" /\ pc' = "run"
      /\ UNCHANGED <<k, dest_start, dest_end, allocated, memory>>
      /\ LoadSegments' = LoadSegments /\ Disjoint' = Disjoint
  BY HeadersKept DEF Run
<1>1. TypeInv'
  BY <1>0, HeaderTypes DEF Run, TypeInv
<1>2. ExtentInv'
  BY <1>0 DEF ExtentInv, EndOf
<1>3. RunInv'
  BY <1>0 DEF RunInv, page_size
<1>4. CopiedInv'
  BY <1>0 DEF CopiedInv, Complete, BytesOf, SegmentByte
<1>5. WrittenInv'
  BY <1>0 DEF WrittenInv, BytesOf
<1> QED  BY <1>1, <1>2, <1>3, <1>4, <1>5

LEMMA InvStep == IInv /\ [Next]_vars => IInv'
<1> SUFFICES ASSUME IInv, [Next]_vars PROVE IInv'
  OBVIOUS
<1>1. CASE UNCHANGED vars
  BY <1>1
     DEF vars, IInv, TypeInv, ExtentInv, RunInv, CopiedInv, WrittenInv, LoadSegments, Disjoint,
         Complete, page_size, EndOf, BytesOf, SegmentByte
<1> QED
  BY <1>1, ExtentKeeps, ExtentDoneKeeps, AllocatePagesKeeps, PanicKeeps, CopySegmentKeeps,
     RunKeeps
     DEF Next, LoadStep, Over

-----------------------------------------------------------------------------
\* When the kernel runs and its segments do not overlap, every one of them is
\* complete in memory, its zeros included, and nothing else was written
\* (kernel.rs:94-145), for every file that the loader accepts.
THEOREM AllSegmentsLoaded == Spec => []SegmentsLoaded
<1>1. IInv => SegmentsLoaded
  <2> SUFFICES ASSUME IInv, pc = "run", Disjoint
               PROVE  /\ \A j \in LoadSegments : Complete(j)
                      /\ WrittenInv
    BY DEF SegmentsLoaded, Disjoint, Complete, WrittenInv
  <2>1. \A j \in LoadSegments : j < k
    BY HeaderTypes DEF IInv, TypeInv, LoadSegments
  <2> QED  BY <2>1 DEF IInv, CopiedInv
<1> QED  BY <1>1, InvInit, InvStep, PTL DEF Spec

\* The pages allocated are as many as the pages the segments lie in, whatever
\* their order (kernel.rs:61-83), for every size of a page.
THEOREM PagesSuffice == Spec => []EnoughPages
<1>1. IInv => EnoughPages
  <2> DEFINE S == {a \div UEFI_PAGE_SIZE :
                     a \in UNION {BytesOf(program_headers[j]) : j \in LoadSegments}}
  <2> SUFFICES ASSUME IInv, pc \in {"copy", "run"}
               PROVE  Cardinality(S) <= Cardinality(allocated)
    BY DEF EnoughPages
  <2>1. dest_end \in Nat
        /\ page_size = (dest_end + UEFI_PAGE_SIZE - 1) \div UEFI_PAGE_SIZE
    BY DEF IInv, TypeInv, page_size
  <2>2. page_size \in Nat
    BY <2>1
  <2>3. PICK first \in Pages : allocated = first .. first + page_size - 1
    BY DEF IInv, RunInv
  <2>4. /\ IsFiniteSet(0 .. page_size - 1)
        /\ Cardinality(0 .. page_size - 1) = Cardinality(allocated)
    <3>1. first \in Int /\ 0 .. page_size - 1 = 0 .. 0 + page_size - 1
      BY <2>2 DEF Pages
    <3>2. /\ IsFiniteSet(0 .. 0 + page_size - 1)
          /\ Cardinality(0 .. 0 + page_size - 1) = page_size
      <4>1. 0 \in Int
        OBVIOUS
      <4> QED  BY <4>1, <2>2, RunSize, Zenon
    <3>3. Cardinality(allocated) = page_size
      BY <2>2, <2>3, <3>1, RunSize, Zenon
    <3> QED  BY <3>1, <3>2, <3>3, Zenon
  <2>5. S \subseteq 0 .. page_size - 1
    <3> SUFFICES ASSUME NEW j \in LoadSegments, NEW a \in BytesOf(program_headers[j])
                 PROVE  a \div UEFI_PAGE_SIZE \in 0 .. page_size - 1
      OBVIOUS
    <3>1. program_headers[j] \in ProgramHeader
      BY HeaderTypes DEF IInv, TypeInv, LoadSegments
    <3>2. EndOf(program_headers[j]) <= dest_end
      BY DEF IInv, ExtentInv
    <3>3. a \in Nat /\ a < dest_end
      BY <2>1, <3>1, <3>2 DEF ProgramHeader, BytesOf, EndOf
    <3> QED  BY <2>1, <3>3, PageOfByte
  <2> HIDE DEF S
  <2>6. Cardinality(S) <= Cardinality(0 .. page_size - 1)
    BY <2>4, <2>5, FS_Subset
  <2> QED  BY <2>4, <2>6
<1> QED  BY <1>1, InvInit, InvStep, PTL DEF Spec
=============================================================================
