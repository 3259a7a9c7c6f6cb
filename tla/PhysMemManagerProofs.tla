------------------------ MODULE PhysMemManagerProofs ------------------------
(***************************************************************************)
(* Proofs about the frame manager for every bitmap size and every memory   *)
(* map: sorted or not, overlapping or not.                                 *)
(***************************************************************************)
EXTENDS PhysMemManager, TLAPS

USE FrameCountAssumption, MemoryMapsAssumption, MaxRequestAssumption

EndOf(k) == memory_map[k].phys_start + memory_map[k].page_count

Available(k) == is_available(memory_map[k].ty)

(***************************************************************************)
(* The loop invariant of init: the iterations done so far have marked      *)
(* every used area they met, and below the last available end only frames  *)
(* of an available descriptor are still clear.                             *)
(***************************************************************************)
UsedMarked ==
  \A k \in 1 .. idx - 1 : ~ Available(k) => FramesOf(memory_map[k]) \subseteq alloc_map

GapsMarked ==
  \A f \in Frames :
     f < last_available_end /\ f \notin alloc_map =>
       \E k \in 1 .. idx - 1 : Available(k) /\ f \in FramesOf(memory_map[k])

LoopInv ==
  /\ idx \in 1 .. Len(memory_map) + 1
  /\ pc = "init" => UsedMarked /\ GapsMarked

\* The end of the managed range is the end of a descriptor (or 0).
RangeInv ==
  /\ last_available_end = 0 \/ \E k \in DOMAIN memory_map : last_available_end = EndOf(k)
  /\ pc \in {"ready", "alloc"} => end = last_available_end

IInv == TypeOK /\ LoopInv /\ RangeInv /\ NoReservedFrameFree /\ PanicOnlyPastBitmap

-----------------------------------------------------------------------------
\* The frames of a descriptor are the natural numbers from its first frame up to
\* its end.
LEMMA FramesOfRange ==
  ASSUME NEW desc \in Descriptor, NEW f
  PROVE  f \in FramesOf(desc) <=>
           f \in Int /\ desc.phys_start <= f /\ f < desc.phys_start + desc.page_count
BY DEF FramesOf, Run, Descriptor

\* An index of the memory map gives a descriptor.
LEMMA EntryIsDescriptor ==
  ASSUME memory_map \in Seq(Descriptor), NEW k \in DOMAIN memory_map
  PROVE  /\ memory_map[k] \in Descriptor
         /\ memory_map[k].phys_start \in Nat
         /\ memory_map[k].page_count \in Nat
         /\ k \in 1 .. Len(memory_map)
<1>1. memory_map[k] \in Descriptor /\ k \in 1 .. Len(memory_map)
  OBVIOUS
<1> QED
  BY <1>1 DEF Descriptor

\* Types are preserved by every step of the frame manager
\* (phys_mem_manager.rs:58-142).
LEMMA TypeStep == TypeOK /\ [Next]_vars => TypeOK'
<1> SUFFICES ASSUME TypeOK, [Next]_vars PROVE TypeOK'
  OBVIOUS
<1> USE DEF TypeOK
<1>1. CASE InitEntry
  <2>1. memory_map[idx] \in Descriptor
    BY <1>1 DEF InitEntry
  <2>2. memory_map[idx].phys_start + memory_map[idx].page_count \in Nat
    <3> DEFINE desc == memory_map[idx]
    <3>1. desc \in Descriptor
      BY <2>1
    <3> HIDE DEF desc
    <3>2. desc.phys_start \in Nat /\ desc.page_count \in Nat
      BY <3>1 DEF Descriptor
    <3>3. desc.phys_start + desc.page_count \in Nat
      BY <3>2
    <3> QED
      BY <3>3 DEF desc
  <2>3. last_available_end' \in Nat
    <3> DEFINE endOf == memory_map[idx].phys_start + memory_map[idx].page_count
    <3>1. last_available_end' = endOf \/ last_available_end' = last_available_end
      BY <1>1, Zenon DEF InitEntry
    <3> HIDE DEF endOf
    <3>2. endOf \in Nat
      BY <2>2 DEF endOf
    <3> QED
      BY <3>1, <3>2
  <2>4. alloc_map' \subseteq Frames
    BY <1>1 DEF InitEntry, mark_allocated
  <2>5. idx' \in Nat \ {0} /\ UNCHANGED <<memory_map, pc, begin, end, call, ret>>
    BY <1>1 DEF InitEntry
  <2> QED
    BY <2>3, <2>4, <2>5
<1>2. CASE InitEntryPanics
  BY <1>2 DEF InitEntryPanics, mark_allocated
<1>3. CASE InitReturns
  BY <1>3 DEF InitReturns
<1>4. ASSUME NEW n \in 0 .. MaxRequest, AllocCall(n) PROVE TypeOK'
  BY <1>4 DEF AllocCall
<1>5. CASE AllocNone
  BY <1>5 DEF AllocNone, ReturnFrom, NoCall
<1>6. CASE AllocPanics
  BY <1>6 DEF AllocPanics
<1>7. CASE AllocSome
  BY <1>7 DEF AllocSome, ReturnFrom, NoCall, mark_allocated
<1>8. CASE AllocAdvance
  BY <1>8 DEF AllocAdvance, i
<1>9. ASSUME NEW first \in Frames, NEW n \in 0 .. MaxRequest, Free(first, n)
      PROVE  TypeOK'
  BY <1>9 DEF Free
<1>10. CASE UNCHANGED vars
  BY <1>10 DEF vars
<1> QED
  BY <1>1, <1>2, <1>3, <1>4, <1>5, <1>6, <1>7, <1>8, <1>9, <1>10
     DEF Next, AllocStep, Halted

\* The initial state has the right types.
LEMMA TypeInit == Init => TypeOK
BY DEF Init, TypeOK, NoCall, NoReturn

\* The frame manager is type correct for every FRAME_COUNT and every set of
\* memory maps (phys_mem_manager.rs:43-142).
THEOREM TypeCorrect == Spec => []TypeOK
BY TypeInit, TypeStep, PTL DEF Spec

-----------------------------------------------------------------------------
\* The initial state satisfies the inductive invariant.
LEMMA InvInit == Init => IInv
<1> SUFFICES ASSUME Init PROVE IInv
  OBVIOUS
<1>1. TypeOK
  BY TypeInit
<1>2. LoopInv
  BY <1>1 DEF Init, TypeOK, LoopInv, UsedMarked, GapsMarked, Frames
<1>3. RangeInv /\ NoReservedFrameFree /\ PanicOnlyPastBitmap
  BY DEF Init, RangeInv, NoReservedFrameFree, PanicOnlyPastBitmap
<1> QED
  BY <1>1, <1>2, <1>3 DEF IInv

\* An iteration of init that marks its areas keeps the loop invariant
\* (phys_mem_manager.rs:60-79).
LEMMA LoopStep == IInv /\ InitEntry => IInv'
<1> SUFFICES ASSUME IInv, InitEntry PROVE IInv'
  OBVIOUS
<1> DEFINE desc == memory_map[idx]
<1>1. TypeOK /\ LoopInv /\ RangeInv /\ UsedMarked /\ GapsMarked
  BY DEF IInv, LoopInv, InitEntry
<1>2. TypeOK'
  BY TypeStep DEF IInv, Next
<1>3. /\ idx \in 1 .. Len(memory_map)
      /\ idx \in DOMAIN memory_map
      /\ idx' = idx + 1
      /\ memory_map' = memory_map
      /\ pc = "init" /\ pc' = "init"
  BY <1>1 DEF InitEntry, LoopInv, TypeOK
<1>4. /\ desc \in Descriptor
      /\ desc.phys_start \in Nat
      /\ desc.page_count \in Nat
  BY <1>1, <1>3, EntryIsDescriptor DEF TypeOK
<1>5. /\ MissingArea(desc) \subseteq alloc_map'
      /\ UsedArea(desc) \subseteq alloc_map'
      /\ alloc_map \subseteq alloc_map'
  BY DEF InitEntry, mark_allocated
<1>6. last_available_end' = IF Available(idx) THEN EndOf(idx) ELSE last_available_end
  BY DEF InitEntry, Available, EndOf
<1>7. UsedMarked'
  <2> SUFFICES ASSUME NEW k \in 1 .. idx, ~ Available(k)
               PROVE  FramesOf(memory_map[k]) \subseteq alloc_map'
    BY <1>1, <1>3 DEF UsedMarked, Available, TypeOK
  <2>1. CASE k = idx
    BY <2>1, <1>5 DEF UsedArea, Available
  <2>2. CASE k \in 1 .. idx - 1
    BY <2>2, <1>1, <1>5 DEF UsedMarked
  <2> QED
    BY <2>1, <2>2, <1>1 DEF TypeOK
<1>8. GapsMarked'
  <2> SUFFICES ASSUME NEW f \in Frames, f < last_available_end', f \notin alloc_map'
               PROVE  \E k \in 1 .. idx : Available(k) /\ f \in FramesOf(memory_map[k])
    BY <1>1, <1>3 DEF GapsMarked, Available, TypeOK
  <2>0. f \in Int /\ idx \in 1 .. idx /\ last_available_end \in Nat /\ idx \in Nat
    BY <1>1 DEF Frames, TypeOK
  <2>1. CASE f < last_available_end
    <3>1. PICK k \in 1 .. idx - 1 : Available(k) /\ f \in FramesOf(memory_map[k])
      BY <2>1, <1>1, <1>5 DEF GapsMarked
    <3> QED
      BY <3>1, <2>0
  <2>2. CASE ~ (f < last_available_end)
    <3>1. Available(idx) /\ f < EndOf(idx)
      BY <2>2, <1>6
    <3>2. ~ (f < desc.phys_start)
      BY <2>0, <2>2, <1>4, <1>5 DEF MissingArea
    <3>3. f \in FramesOf(desc)
      BY <2>0, <3>1, <3>2, <1>4, FramesOfRange DEF EndOf
    <3> QED
      BY <2>0, <3>1, <3>3
  <2> QED
    BY <2>1, <2>2
<1>9. LoopInv'
  BY <1>1, <1>3, <1>7, <1>8 DEF LoopInv, TypeOK
<1>10. RangeInv'
  BY <1>1, <1>3, <1>6 DEF RangeInv, EndOf
<1>11. NoReservedFrameFree' /\ PanicOnlyPastBitmap'
  BY <1>3 DEF NoReservedFrameFree, PanicOnlyPastBitmap
<1> QED
  BY <1>2, <1>9, <1>10, <1>11 DEF IInv

\* An iteration of init that panics met a descriptor past the bitmap
\* (phys_mem_manager.rs:87-107).
LEMMA InitPanicStep == IInv /\ InitEntryPanics => IInv'
<1> SUFFICES ASSUME IInv, InitEntryPanics PROVE IInv'
  OBVIOUS
<1> DEFINE desc == memory_map[idx]
<1>1. TypeOK /\ LoopInv /\ RangeInv
  BY DEF IInv
<1>2. TypeOK'
  BY TypeStep DEF IInv, Next
<1>3. /\ idx \in DOMAIN memory_map
      /\ memory_map' = memory_map /\ idx' = idx
      /\ last_available_end' = last_available_end
      /\ pc' = "panicked"
  BY <1>1 DEF InitEntryPanics, LoopInv, TypeOK
<1>4. /\ desc \in Descriptor
      /\ desc.phys_start \in Nat
      /\ desc.page_count \in Nat
  BY <1>1, <1>3, EntryIsDescriptor DEF TypeOK
<1>5. PICK f \in MissingArea(desc) \union UsedArea(desc) : f \notin Frames
  BY DEF InitEntryPanics
<1>6. f \in Nat /\ f < desc.phys_start + desc.page_count
  <2>1. CASE f \in MissingArea(desc)
    <3>1. f \in last_available_end .. desc.phys_start - 1
      BY <2>1 DEF MissingArea
    <3>2. last_available_end \in Nat
      BY <1>1 DEF TypeOK
    <3> HIDE DEF desc
    <3> QED
      BY <3>1, <3>2, <1>4
  <2>2. CASE f \in UsedArea(desc)
    <3>1. f \in FramesOf(desc)
      BY <2>2 DEF UsedArea
    <3> QED
      BY <3>1, <1>4, FramesOfRange
  <2> QED
    BY <2>1, <2>2
<1>7. desc.phys_start + desc.page_count > FRAME_COUNT
  BY <1>4, <1>5, <1>6 DEF Frames
<1>8. PanicOnlyPastBitmap'
  BY <1>3, <1>7 DEF PanicOnlyPastBitmap
<1>9. LoopInv' /\ RangeInv' /\ NoReservedFrameFree'
  BY <1>1, <1>3 DEF LoopInv, RangeInv, EndOf, NoReservedFrameFree
<1> QED
  BY <1>2, <1>8, <1>9 DEF IInv

\* When init returns, the loop invariant gives the safety property
\* (phys_mem_manager.rs:81-84).
LEMMA InitReturnStep == IInv /\ InitReturns => IInv'
<1> SUFFICES ASSUME IInv, InitReturns PROVE IInv'
  OBVIOUS
<1>1. TypeOK /\ LoopInv /\ RangeInv /\ UsedMarked /\ GapsMarked
  BY DEF IInv, LoopInv, InitReturns
<1>2. TypeOK'
  BY TypeStep DEF IInv, Next
<1>3. /\ idx = Len(memory_map) + 1
      /\ UNCHANGED <<memory_map, idx, last_available_end, alloc_map>>
      /\ pc' = "ready" /\ begin' = 1 /\ end' = last_available_end
  BY <1>1 DEF InitReturns, LoopInv, TypeOK
<1>4. DOMAIN memory_map = 1 .. idx - 1
  BY <1>1, <1>3 DEF TypeOK
<1>5. NoReservedFrameFree'
  <2>0. Usable' = Usable
    BY <1>3 DEF Usable, Covered
  <2> SUFFICES ASSUME NEW f \in Frames, f < last_available_end, f \notin alloc_map
               PROVE  f \in Usable
    BY <2>0, <1>1, <1>3 DEF NoReservedFrameFree, TypeOK, Frames
  <2>1. Covered(f, TRUE)
    BY <1>1, <1>4 DEF GapsMarked, Covered, Available, is_available
  <2>2. ~ Covered(f, FALSE)
    BY <1>1, <1>4 DEF UsedMarked, Covered, Available, is_available
  <2> QED
    BY <2>1, <2>2 DEF Usable
<1>6. LoopInv' /\ RangeInv' /\ PanicOnlyPastBitmap'
  BY <1>1, <1>3 DEF LoopInv, RangeInv, EndOf, PanicOnlyPastBitmap
<1> QED
  BY <1>2, <1>5, <1>6 DEF IInv

\* A step of alloc or free changes neither the memory map nor the managed
\* range; it marks frames, or clears usable ones, so the invariant survives
\* unless the step panics (phys_mem_manager.rs:116-142).
LEMMA CallStep ==
  ASSUME IInv, TypeOK', pc \in {"ready", "alloc"}, pc' \in {"ready", "alloc"},
         UNCHANGED <<memory_map, idx, last_available_end, begin, end>>,
         \A f \in alloc_map : f \in alloc_map' \/ f \in Usable
  PROVE  IInv'
<1>1. Usable' = Usable
  BY DEF Usable, Covered
<1>2. NoReservedFrameFree'
  <2> SUFFICES ASSUME NEW f \in (begin .. end - 1) \intersect Frames, f \notin alloc_map'
               PROVE  f \in Usable
    BY <1>1 DEF NoReservedFrameFree, Frames
  <2> QED
    BY DEF IInv, NoReservedFrameFree
<1>3. LoopInv' /\ RangeInv' /\ PanicOnlyPastBitmap'
  BY DEF IInv, LoopInv, RangeInv, EndOf, PanicOnlyPastBitmap
<1> QED
  BY <1>2, <1>3 DEF IInv

\* alloc reads past the bitmap only if the managed range, and so a descriptor,
\* ends past it (phys_mem_manager.rs:109-127).
LEMMA AllocPanicStep == IInv /\ AllocPanics => IInv'
<1> SUFFICES ASSUME IInv, AllocPanics PROVE IInv'
  OBVIOUS
<1>1. TypeOK /\ LoopInv /\ RangeInv /\ TypeOK'
  BY TypeStep DEF IInv, Next, AllocStep
<1>2. /\ UNCHANGED <<memory_map, idx, last_available_end>>
      /\ pc' = "panicked"
      /\ end = last_available_end
  BY <1>1 DEF AllocPanics, RangeInv
<1>3. call.start_frame_id \in Nat /\ last_available_end \in Nat
  BY <1>1 DEF TypeOK
<1>4. last_available_end > FRAME_COUNT
  BY <1>2, <1>3 DEF AllocPanics, Frames, i
<1>5. PICK k \in DOMAIN memory_map : last_available_end = EndOf(k)
  BY <1>1, <1>4 DEF RangeInv
<1>6. PanicOnlyPastBitmap'
  BY <1>2, <1>4, <1>5 DEF PanicOnlyPastBitmap, EndOf
<1>7. LoopInv' /\ RangeInv' /\ NoReservedFrameFree'
  BY <1>1, <1>2 DEF LoopInv, RangeInv, EndOf, NoReservedFrameFree
<1> QED
  BY <1>1, <1>6, <1>7 DEF IInv

\* Every step preserves the inductive invariant.
LEMMA InvStep == IInv /\ [Next]_vars => IInv'
<1> SUFFICES ASSUME IInv, [Next]_vars PROVE IInv'
  OBVIOUS
<1>0. TypeOK /\ TypeOK'
  BY TypeStep DEF IInv
<1>1. CASE InitEntry
  BY <1>1, LoopStep
<1>2. CASE InitEntryPanics
  BY <1>2, InitPanicStep
<1>3. CASE InitReturns
  BY <1>3, InitReturnStep
<1>4. ASSUME NEW n \in 0 .. MaxRequest, AllocCall(n) PROVE IInv'
  BY <1>0, <1>4, CallStep DEF AllocCall
<1>5. CASE AllocNone
  BY <1>0, <1>5, CallStep DEF AllocNone, ReturnFrom
<1>6. CASE AllocPanics
  BY <1>6, AllocPanicStep
<1>7. CASE AllocSome
  BY <1>0, <1>7, CallStep DEF AllocSome, ReturnFrom, mark_allocated
<1>8. CASE AllocAdvance
  BY <1>0, <1>8, CallStep DEF AllocAdvance
<1>9. ASSUME NEW first \in Frames, NEW n \in 0 .. MaxRequest, Free(first, n)
      PROVE  IInv'
  BY <1>0, <1>9, CallStep DEF Free
<1>10. CASE UNCHANGED vars
  <2>1. Usable' = Usable
    BY <1>10 DEF vars, Usable, Covered
  <2>2. NoReservedFrameFree'
    BY <2>1, <1>10 DEF vars, IInv, NoReservedFrameFree, Frames
  <2>3. LoopInv'
    BY <1>10 DEF vars, IInv, LoopInv, UsedMarked, GapsMarked, Available
  <2>4. RangeInv' /\ PanicOnlyPastBitmap'
    BY <1>10 DEF vars, IInv, RangeInv, EndOf, PanicOnlyPastBitmap
  <2> QED
    BY <1>0, <2>2, <2>3, <2>4 DEF IInv
<1> QED
  BY <1>1, <1>2, <1>3, <1>4, <1>5, <1>6, <1>7, <1>8, <1>9, <1>10
     DEF Next, AllocStep, Halted

\* Whatever the memory map, no frame outside an available descriptor, or inside
\* an unavailable one, is ever free in the managed range
\* (phys_mem_manager.rs:58-85).
THEOREM ReservedFramesSafe == Spec => []NoReservedFrameFree
<1>1. IInv => NoReservedFrameFree
  BY DEF IInv
<1> QED
  BY <1>1, InvInit, InvStep, PTL DEF Spec

\* The bitmap is indexed out of bounds only on a machine whose memory map
\* reaches past it (phys_mem_manager.rs:98-114).
THEOREM PanicsOnlyPastBitmap == Spec => []PanicOnlyPastBitmap
<1>1. IInv => PanicOnlyPastBitmap
  BY DEF IInv
<1> QED
  BY <1>1, InvInit, InvStep, PTL DEF Spec

-----------------------------------------------------------------------------
(***************************************************************************)
(* For a sorted map the loop has marked no usable frame so far, and        *)
(* last_available_end is past every available descriptor it met.           *)
(***************************************************************************)
EndsMet ==
  \A k \in 1 .. idx - 1 : Available(k) => EndOf(k) <= last_available_end

SortedInv ==
  pc = "init" /\ Sorted(memory_map) =>
    EndsMet /\ (\A f \in Usable : f \notin alloc_map)

\* An iteration of init over a sorted map marks no usable frame
\* (phys_mem_manager.rs:60-79).
LEMMA SortedStep == IInv /\ SortedInv /\ InitEntry => SortedInv'
<1> SUFFICES ASSUME IInv, SortedInv, InitEntry, Sorted(memory_map)
             PROVE  EndsMet' /\ (\A f \in Usable' : f \notin alloc_map')
  BY DEF SortedInv, InitEntry, Sorted
<1> DEFINE desc == memory_map[idx]
<1>1. TypeOK /\ LoopInv /\ EndsMet /\ (\A f \in Usable : f \notin alloc_map)
  BY DEF IInv, SortedInv, InitEntry
<1>2. /\ idx \in 1 .. Len(memory_map)
      /\ idx \in DOMAIN memory_map
      /\ idx' = idx + 1
      /\ memory_map' = memory_map
      /\ alloc_map' = alloc_map \union ((MissingArea(desc) \union UsedArea(desc)) \intersect Frames)
  BY <1>1 DEF InitEntry, LoopInv, TypeOK, mark_allocated
<1>3. \A k \in DOMAIN memory_map :
        /\ memory_map[k] \in Descriptor
        /\ memory_map[k].phys_start \in Nat
        /\ memory_map[k].page_count \in Nat
        /\ k \in 1 .. Len(memory_map)
  BY <1>1, EntryIsDescriptor DEF TypeOK
<1>4. last_available_end' = IF Available(idx) THEN EndOf(idx) ELSE last_available_end
  BY DEF InitEntry, Available, EndOf
<1>5. ASSUME NEW k \in 1 .. idx - 1
      PROVE  k \in DOMAIN memory_map /\ EndOf(k) <= desc.phys_start
  <2>1. k \in DOMAIN memory_map /\ k < idx
    BY <1>1, <1>2 DEF TypeOK
  <2> QED
    BY <2>1, <1>2 DEF Sorted, EndOf
<1>6. EndsMet'
  <2> SUFFICES ASSUME NEW k \in 1 .. idx, Available(k)
               PROVE  EndOf(k) <= last_available_end'
    BY <1>1, <1>2 DEF EndsMet, Available, EndOf, TypeOK
  <2>1. CASE k = idx
    BY <2>1, <1>2, <1>3, <1>4 DEF EndOf
  <2>2. CASE k \in 1 .. idx - 1
    <3>1. /\ EndOf(k) <= last_available_end
          /\ EndOf(k) <= desc.phys_start
          /\ EndOf(k) \in Nat
      BY <2>2, <1>1, <1>3, <1>5 DEF EndsMet, EndOf
    <3>2. desc.phys_start <= EndOf(idx) /\ EndOf(idx) \in Nat /\ desc.phys_start \in Nat
      BY <1>2, <1>3 DEF EndOf
    <3> QED
      BY <3>1, <3>2, <1>1, <1>4, SMTT(20) DEF TypeOK
  <2> QED
    BY <2>1, <2>2, <1>1 DEF TypeOK
<1>7. ASSUME NEW f \in Usable PROVE f \notin alloc_map'
  <2>0. f \in Frames /\ ~ Covered(f, FALSE)
    BY <1>7, Zenon DEF Usable
  <2>1. f \in Int
    BY <2>0 DEF Frames
  <2>2. PICK k \in DOMAIN memory_map : Available(k) /\ f \in FramesOf(memory_map[k])
    BY <1>7 DEF Usable, Covered, Available
  <2>3. memory_map[k].phys_start <= f /\ f < EndOf(k)
    BY <2>2, <1>3, FramesOfRange DEF EndOf
  <2>4. f \notin MissingArea(desc)
    <3>1. CASE k < idx
      <4>1. f < last_available_end
        <5>1. k \in 1 .. idx - 1
          BY <3>1, <2>2, <1>2, <1>3
        <5>2. EndOf(k) <= last_available_end
          BY <5>1, <2>2, <1>1 DEF EndsMet
        <5>3. EndOf(k) \in Nat /\ last_available_end \in Nat
          BY <2>2, <1>1, <1>3 DEF EndOf, TypeOK
        <5> QED
          BY <5>2, <5>3, <2>1, <2>3
      <4> QED
        BY <4>1, <2>1, <1>1, <1>2, <1>3 DEF MissingArea, TypeOK
    <3>2. CASE ~ (k < idx)
      <4>1. desc.phys_start <= memory_map[k].phys_start
        <5>1. CASE k = idx
          BY <5>1, <1>2, <1>3
        <5>2. CASE idx < k
          <6>1. EndOf(idx) <= memory_map[k].phys_start
            BY <5>2, <1>2, <2>2 DEF Sorted, EndOf
          <6> QED
            BY <6>1, <1>2, <1>3 DEF EndOf
        <5> QED
          BY <3>2, <5>1, <5>2, <1>2, <1>3, <2>2
      <4> QED
        BY <4>1, <2>1, <2>2, <2>3, <1>1, <1>2, <1>3 DEF MissingArea, TypeOK
    <3> QED
      BY <3>1, <3>2
  <2>5. f \notin UsedArea(desc)
    BY <2>0, <1>2 DEF UsedArea, Covered, is_available
  <2> QED
    BY <1>1, <1>2, <1>7, <2>4, <2>5
<1>8. Usable' = Usable
  BY <1>2 DEF Usable, Covered
<1> QED
  BY <1>6, <1>7, <1>8

\* The sorted-map invariant holds from init's first iteration to its return.
LEMMA SortedAlways == IInv /\ SortedInv /\ [Next]_vars => SortedInv'
<1> SUFFICES ASSUME IInv, SortedInv, [Next]_vars PROVE SortedInv'
  OBVIOUS
<1>1. CASE InitEntry
  BY <1>1, SortedStep
<1>2. CASE UNCHANGED vars
  <2>1. Usable' = Usable
    BY <1>2 DEF vars, Usable, Covered
  <2> QED
    BY <1>2, <2>1 DEF vars, SortedInv, EndsMet, Available, EndOf, Sorted
<1>3. CASE ~ InitEntry /\ ~ UNCHANGED vars
  <2>1. pc' # "init"
    BY <1>3 DEF Next, InitEntryPanics, InitReturns, AllocCall, AllocStep, AllocNone,
                AllocPanics, AllocSome, AllocAdvance, ReturnFrom, Free, Halted
  <2> QED
    BY <2>1 DEF SortedInv
<1> QED
  BY <1>1, <1>2, <1>3

\* With a sorted memory map init loses no usable frame, except frame 0, for
\* every bitmap size and number of descriptors (phys_mem_manager.rs:58-85).
THEOREM InitKeepsUsable == Spec => InitLosesNoFrame
<1>1. Init => SortedInv
  BY DEF Init, SortedInv, EndsMet
<1>2. ASSUME IInv, SortedInv, [Next]_vars
      PROVE  [pc = "init" /\ pc' = "ready" /\ Sorted(memory_map) =>
                \A f \in Usable : f \notin alloc_map' /\ f < end']_vars
  <2> SUFFICES ASSUME pc = "init", pc' = "ready", Sorted(memory_map), NEW f \in Usable
               PROVE  f \notin alloc_map' /\ f < end'
    OBVIOUS
  <2>1. InitReturns
    BY <1>2 DEF Next, InitEntry, InitEntryPanics, AllocCall, AllocStep, AllocNone,
                AllocPanics, AllocSome, AllocAdvance, Free, Halted, vars
  <2>2. f \notin alloc_map' /\ EndsMet /\ end' = last_available_end
    BY <1>2, <2>1 DEF SortedInv, InitReturns
  <2>3. PICK k \in DOMAIN memory_map : Available(k) /\ f \in FramesOf(memory_map[k])
    BY DEF Usable, Covered, Available
  <2>4. TypeOK /\ idx > Len(memory_map)
    BY <1>2, <2>1 DEF IInv, InitReturns
  <2>5. f < EndOf(k) /\ f \in Int /\ EndOf(k) \in Nat /\ k \in 1 .. Len(memory_map)
    BY <2>3, <2>4, EntryIsDescriptor, FramesOfRange DEF EndOf, TypeOK
  <2>6. EndOf(k) <= last_available_end
    BY <2>2, <2>3, <2>4, <2>5 DEF EndsMet, TypeOK
  <2> QED
    BY <2>2, <2>4, <2>5, <2>6 DEF TypeOK
<1> QED
  BY <1>1, <1>2, InvInit, InvStep, SortedAlways, PTL DEF Spec, InitLosesNoFrame
=============================================================================
