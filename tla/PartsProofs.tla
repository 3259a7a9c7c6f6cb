---------------------------- MODULE PartsProofs -----------------------------
(***************************************************************************)
(* The page tables of the kernel are an identity map of exactly the first  *)
(* NUMBER_OF_PAGE_DIR GiB, for every size of the tables; the list keeps    *)
(* what was pushed and a loop over it yields that, for every capacity; the *)
(* descriptors are as asked for when the processor reads them; a drawing   *)
(* paints exactly its shape and nothing past the buffer, on every screen.  *)
(***************************************************************************)
EXTENDS Parts, TLAPS

USE EntriesAssumption, DirectoryAssumption

Link(m) == [to |-> m, flags |-> {PRESENT, WRITE}]
Page(d, m) == [to |-> FrameOf(d, m), flags |-> PageFlags]

(***************************************************************************)
(* The inductive invariant: what the loops have written so far is final,   *)
(* the rest of the two upper levels is still zero, and cr3 is written when *)
(* the loops are through.                                                  *)
(***************************************************************************)
LoopInv ==
  /\ pc = "pml4" => i = 0
  /\ pc = "entry" => i < NUMBER_OF_PAGE_DIR
  /\ pc \in {"load", "done"} => i = NUMBER_OF_PAGE_DIR
  /\ cr3 = "kernel" => pc = "done"

Level4Inv ==
  \A m \in Indices :
    page_map_level4_table[m] = IF m = 0 /\ pc # "pml4" THEN Link(0) ELSE Empty

Level3Inv ==
  \A m \in Indices :
    page_dir_ptr_table[m] = IF m < i \/ (m = i /\ pc = "entry") THEN Link(m) ELSE Empty

Level2Inv ==
  \A d \in Directories, m \in Indices :
    d < i \/ (d = i /\ pc = "entry" /\ m < j) => page_dir[d][m] = Page(d, m)

IInv == TypeOK /\ LoopInv /\ Level4Inv /\ Level3Inv /\ Level2Inv

-----------------------------------------------------------------------------
\* What the loops write are entries.
LEMMA EntryTypes ==
  /\ Empty \in Entry
  /\ \A m \in Indices : Link(m) \in Entry
  /\ \A d \in Directories, m \in Indices : Page(d, m) \in Entry
<1>1. Empty \in Entry
  BY DEF Empty, Entry
<1>2. \A m \in Indices : Link(m) \in Entry
  BY DEF Link, Entry, Indices, PRESENT, WRITE, HUGE
<1>3. ASSUME NEW d \in Directories, NEW m \in Indices PROVE Page(d, m) \in Entry
  <2>1. FrameOf(d, m) \in Int
    BY DEF FrameOf, Directories, Indices
  <2>2. PageFlags \in SUBSET {PRESENT, WRITE, HUGE}
    BY DEF PageFlags
  <2> QED  BY <2>1, <2>2 DEF Page, Entry
<1> QED  BY <1>1, <1>2, <1>3

\* A directory's number is an index of the table that points to it.
LEMMA DirectoryIsIndex == Directories \subseteq Indices
BY DEF Directories, Indices

LEMMA InvInit == Init => IInv
<1> SUFFICES ASSUME Init PROVE IInv
  OBVIOUS
<1>1. TypeOK
  BY EntryTypes DEF Init, TypeOK, Directories, Indices
<1>2. LoopInv
  BY DEF Init, LoopInv
<1>3. Level4Inv /\ Level3Inv
  BY DEF Init, Level4Inv, Level3Inv, Indices
<1>4. Level2Inv
  BY DEF Init, Level2Inv, Directories
<1> QED  BY <1>1, <1>2, <1>3, <1>4 DEF IInv

LEMMA SetLevel4Keeps == IInv /\ SetLevel4 => IInv'
<1> SUFFICES ASSUME IInv, SetLevel4 PROVE IInv'
  OBVIOUS
<1> USE DEF IInv
<1>0. 0 \in Indices /\ Link(0) \in Entry
  BY EntryTypes DEF Indices
<1>1. page_map_level4_table' = [page_map_level4_table EXCEPT ![0] = Link(0)]
  BY DEF SetLevel4, Link
<1>2. TypeOK'
  <2>1. page_map_level4_table' \in [Indices -> Entry]
    BY <1>0, <1>1 DEF TypeOK
  <2> QED  BY <2>1 DEF SetLevel4, TypeOK
<1>3. LoopInv'
  BY DEF SetLevel4, LoopInv
<1>4. Level4Inv'
  BY <1>0, <1>1 DEF SetLevel4, Level4Inv, TypeOK
<1>5. Level3Inv'
  BY DEF SetLevel4, Level3Inv
<1>6. Level2Inv'
  BY DEF SetLevel4, Level2Inv
<1> QED  BY <1>2, <1>3, <1>4, <1>5, <1>6

LEMMA SetDirectoryKeeps == IInv /\ SetDirectory => IInv'
<1> SUFFICES ASSUME IInv, SetDirectory PROVE IInv'
  OBVIOUS
<1> USE DEF IInv
<1>0. i \in Indices /\ Link(i) \in Entry
  BY EntryTypes DEF SetDirectory, TypeOK, Indices
<1>1. page_dir_ptr_table' = [page_dir_ptr_table EXCEPT ![i] = Link(i)]
  BY DEF SetDirectory, Link
<1>2. TypeOK'
  <2>1. page_dir_ptr_table' \in [Indices -> Entry]
    BY <1>0, <1>1 DEF TypeOK
  <2> QED  BY <2>1 DEF SetDirectory, TypeOK
<1>3. LoopInv'
  BY DEF SetDirectory, LoopInv
<1>4. Level4Inv'
  BY DEF SetDirectory, Level4Inv
<1>5. Level3Inv'
  BY <1>0, <1>1 DEF SetDirectory, Level3Inv, TypeOK, Indices
<1>6. Level2Inv'
  BY DEF SetDirectory, Level2Inv, Directories, Indices, TypeOK
<1> QED  BY <1>2, <1>3, <1>4, <1>5, <1>6

LEMMA SetEntryKeeps == IInv /\ SetEntry => IInv'
<1> SUFFICES ASSUME IInv, SetEntry PROVE IInv'
  OBVIOUS
<1> USE DEF IInv
<1>0. i \in Directories /\ j \in Indices
  BY DEF SetEntry, TypeOK, LoopInv, Directories, Indices
<1>1. page_dir' = [page_dir EXCEPT ![i] = [page_dir[i] EXCEPT ![j] = Page(i, j)]]
  BY DEF SetEntry, Page
<1>2. page_dir[i] \in [Indices -> Entry] /\ Page(i, j) \in Entry
  BY <1>0, EntryTypes DEF TypeOK
<1>3. TypeOK'
  <2>1. page_dir' \in [Directories -> [Indices -> Entry]]
    BY <1>0, <1>1, <1>2 DEF TypeOK
  <2> QED  BY <2>1, <1>0 DEF SetEntry, TypeOK, Indices
<1>4. LoopInv'
  BY DEF SetEntry, LoopInv
<1>5. Level4Inv' /\ Level3Inv'
  BY DEF SetEntry, Level4Inv, Level3Inv
<1>6. Level2Inv'
  <2> SUFFICES ASSUME NEW d \in Directories, NEW m \in Indices,
                      d < i \/ (d = i /\ m < j + 1)
               PROVE  page_dir'[d][m] = Page(d, m)
    BY DEF SetEntry, Level2Inv, Page
  <2>1. CASE d = i /\ m = j
    BY <2>1, <1>0, <1>1, <1>2 DEF TypeOK
  <2>2. CASE ~ (d = i /\ m = j)
    <3>1. d < i \/ (d = i /\ pc = "entry" /\ m < j)
      BY <2>2, <1>0 DEF SetEntry, Indices
    <3>2. page_dir'[d][m] = page_dir[d][m]
      BY <2>2, <1>0, <1>1, <1>2 DEF TypeOK
    <3> QED  BY <3>1, <3>2 DEF Level2Inv
  <2> QED  BY <2>1, <2>2
<1> QED  BY <1>3, <1>4, <1>5, <1>6

LEMMA DirectoryFullKeeps == IInv /\ DirectoryFull => IInv'
<1> SUFFICES ASSUME IInv, DirectoryFull PROVE IInv'
  OBVIOUS
<1> USE DEF IInv, tables
<1>1. TypeOK'
  BY DEF DirectoryFull, TypeOK, LoopInv
<1>2. LoopInv'
  BY DEF DirectoryFull, LoopInv
<1>3. Level4Inv'
  BY DEF DirectoryFull, Level4Inv
<1>4. Level3Inv'
  BY DEF DirectoryFull, Level3Inv, TypeOK, Indices
<1>5. Level2Inv'
  BY DEF DirectoryFull, Level2Inv, TypeOK, Directories, Indices
<1> QED  BY <1>1, <1>2, <1>3, <1>4, <1>5

\* The steps that leave the tables and the loop variables alone.
LEMMA OtherStepsKeep == IInv /\ (LoopDone \/ LoadCr3 \/ UNCHANGED vars) => IInv'
<1> SUFFICES ASSUME IInv, LoopDone \/ LoadCr3 \/ UNCHANGED vars PROVE IInv'
  OBVIOUS
<1> USE DEF IInv, tables
<1>1. TypeOK'
  BY DEF LoopDone, LoadCr3, vars, TypeOK
<1>2. LoopInv'
  BY DEF LoopDone, LoadCr3, vars, LoopInv
<1>3. Level4Inv' /\ Level3Inv'
  BY DEF LoopDone, LoadCr3, vars, Level4Inv, Level3Inv
<1>4. Level2Inv'
  BY DEF LoopDone, LoadCr3, vars, Level2Inv
<1> QED  BY <1>1, <1>2, <1>3, <1>4

LEMMA InvNext == IInv /\ [Next]_vars => IInv'
BY SetLevel4Keeps, SetDirectoryKeeps, SetEntryKeeps, DirectoryFullKeeps, OtherStepsKeep
   DEF Next, Over

LEMMA InvAlways == PartsSpec => []IInv
<1>1. PartsInit => IInv
  BY InvInit DEF PartsInit
<1>2. IInv /\ [PartsNext]_allvars => IInv'
  BY InvNext DEF PartsNext, allvars
<1> QED  BY <1>1, <1>2, PTL DEF PartsSpec

\* Every variable has its type, for tables of every size (paging.rs:14-90).
THEOREM TypeCorrect == PartsSpec => []TypeOK
<1>1. IInv => TypeOK
  BY DEF IInv
<1> QED  BY <1>1, InvAlways, PTL

-----------------------------------------------------------------------------
\* With the kernel's tables loaded, the walk of a page the loops have written
\* passes three entries with all their flags set.
LEMMA WalkFinds ==
  ASSUME IInv, cr3 = "kernel", NEW l3 \in Directories, NEW l2 \in Indices
  PROVE  Translate(0, l3, l2) = FrameOf(l3, l2)
<1>1. pc = "done" /\ i = NUMBER_OF_PAGE_DIR
  BY DEF IInv, LoopInv
<1>2. page_map_level4_table[0] = Link(0)
  BY <1>1 DEF IInv, Level4Inv, Indices
<1>3. page_dir_ptr_table[l3] = Link(l3)
  BY <1>1, DirectoryIsIndex DEF IInv, Level3Inv, Directories
<1>4. page_dir[l3][l2] = Page(l3, l2)
  BY <1>1 DEF IInv, Level2Inv, Directories
<1> QED  BY <1>2, <1>3, <1>4 DEF Translate, Link, Page, PageFlags

\* Before, at and after the change of cr3 every page of the first
\* NUMBER_OF_PAGE_DIR GiB is mapped to itself, for tables of every size: paging
\* is switched under the running kernel (paging.rs:93-126).
THEOREM IdentityAlways == PartsSpec => []IdentityMapped
<1>1. ASSUME IInv PROVE IdentityMapped
  <2> SUFFICES ASSUME NEW l3 \in Directories, NEW l2 \in Indices
               PROVE  Translate(0, l3, l2) = PageNumber(0, l3, l2)
    BY DEF IdentityMapped
  <2>1. CASE cr3 = "firmware"
    BY <2>1 DEF Translate
  <2>2. CASE cr3 = "kernel"
    <3>1. Translate(0, l3, l2) = FrameOf(l3, l2)
      BY <1>1, <2>2, WalkFinds
    <3>2. 0 * ENTRIES + l3 = l3
      BY DEF Directories
    <3> QED  BY <3>1, <3>2 DEF FrameOf, PageNumber
  <2> QED  BY <1>1, <2>1, <2>2 DEF IInv, TypeOK
<1> QED  BY <1>1, InvAlways, PTL

\* With the kernel's tables loaded no other page is mapped, for tables of every
\* size: there are no aliases and stray addresses fault (paging.rs:93-126).
THEOREM NothingElse == PartsSpec => []NothingElseMapped
<1>1. ASSUME IInv PROVE NothingElseMapped
  <2> SUFFICES ASSUME cr3 = "kernel", NEW l4 \in Indices, NEW l3 \in Indices,
                      NEW l2 \in Indices, ~ (l4 = 0 /\ l3 \in Directories)
               PROVE  Translate(l4, l3, l2) = NoPage
    BY DEF NothingElseMapped
  <2>1. pc = "done" /\ i = NUMBER_OF_PAGE_DIR
    BY <1>1 DEF IInv, LoopInv
  <2>2. PRESENT \notin Empty.flags
    BY DEF Empty
  <2>3. CASE l4 # 0
    <3>1. page_map_level4_table[l4] = Empty
      BY <1>1, <2>3 DEF IInv, Level4Inv
    <3> QED  BY <2>2, <3>1 DEF Translate
  <2>4. CASE l4 = 0
    <3>1. page_dir_ptr_table[l3] = Empty
      BY <1>1, <2>1, <2>4 DEF IInv, Level3Inv, Directories, Indices
    <3> QED  BY <2>2, <3>1 DEF Translate
  <2> QED  BY <2>3, <2>4
<1> QED  BY <1>1, InvAlways, PTL

-----------------------------------------------------------------------------
(***************************************************************************)
(* The list.  Its array holds what was pushed; the loop's copy holds what  *)
(* had been pushed when it was made, which is a prefix of it.              *)
(***************************************************************************)
Holds(v, count) ==
  \A s \in A!Slots : v.array[s] = IF s <= count THEN pushed[s] ELSE None

ListTypeInv ==
  /\ vec \in A!Vec
  /\ iter \in A!Vec
  /\ pushed \in Seq(T)
  /\ start \in Nat
  /\ yielded \in Seq(T)

VecInv == Len(pushed) <= CAP /\ Holds(vec, Len(pushed)) /\ vec.index <= Len(pushed)

IterInv == \E count \in 0 .. Len(pushed) : Holds(iter, count) /\ iter.index <= count

YieldInv ==
  /\ start + Len(yielded) = iter.index
  /\ \A m \in 1 .. Len(yielded) : yielded[m] = pushed[start + m]

ListInv == ListTypeInv /\ VecInv /\ IterInv /\ YieldInv /\ PanicsOnlyPastFull

\* The capacity is a number and no element is the value of a hole.
LEMMA ListConstants == CAP \in Nat /\ None \notin T
BY ArrayVecAssumption DEF A!ArgumentsOK

\* An element past what a list holds is a hole.
LEMMA HoldsIsFull ==
  ASSUME ListTypeInv, NEW v, NEW count \in 0 .. Len(pushed), Len(pushed) <= CAP, Holds(v, count),
         NEW s \in A!Slots
  PROVE  v.array[s] = None <=> s > count
<1>1. s \in Nat /\ CAP \in Nat /\ Len(pushed) \in Nat
  BY ListConstants DEF ListTypeInv, A!Slots
<1>2. CASE s <= count
  <2>1. v.array[s] = pushed[s] /\ s \in 1 .. Len(pushed)
    BY <1>1, <1>2 DEF Holds, A!Slots
  <2>2. pushed[s] \in T
    BY <2>1 DEF ListTypeInv
  <2> QED  BY <1>1, <1>2, <2>1, <2>2, ListConstants
<1>3. CASE ~ (s <= count)
  BY <1>1, <1>3 DEF Holds
<1> QED  BY <1>2, <1>3

\* next: the list panics only past a full array and yields the element at its
\* index, else it ends there.
LEMMA OutcomeOfNext ==
  ASSUME ListTypeInv, NEW v \in A!Vec, NEW count \in 0 .. Len(pushed), Len(pushed) <= CAP,
         Holds(v, count), v.index <= count
  PROVE  /\ A!Outcome(v) = "panicked" => v.index = CAP /\ Len(pushed) = CAP
         /\ A!Outcome(v) = "ok" =>
              /\ v.index < count /\ A!At(v) = pushed[v.index + 1]
              /\ A!Advanced(v).array = v.array /\ A!Advanced(v).index = v.index + 1
         /\ A!Outcome(v) # "ok" => A!Advanced(v) = v
         /\ A!Advanced(v) \in A!Vec
<1>1. v.index \in 0 .. CAP /\ CAP \in Nat /\ Len(pushed) \in Nat
  BY ListConstants DEF A!Vec, ListTypeInv
<1>2. A!Outcome(v) = "panicked" => v.index = CAP /\ Len(pushed) = CAP
  BY <1>1 DEF A!Outcome
<1>3. ASSUME A!Outcome(v) = "ok"
      PROVE  /\ v.index < count /\ A!At(v) = pushed[v.index + 1]
             /\ A!Advanced(v).array = v.array /\ A!Advanced(v).index = v.index + 1
             /\ A!Advanced(v) \in A!Vec
  <2>1. v.index < CAP /\ A!At(v) # None
    BY <1>1, <1>3 DEF A!Outcome
  <2>2. v.index + 1 \in A!Slots /\ v.index + 1 \in 0 .. CAP
    BY <1>1, <2>1 DEF A!Slots
  <2>3. ~ (v.index + 1 > count)
    BY <2>1, <2>2, HoldsIsFull DEF A!At
  <2>4. v.index < count /\ A!At(v) = pushed[v.index + 1]
    BY <1>1, <2>2, <2>3 DEF Holds, A!At
  <2>5. A!Advanced(v) = [v EXCEPT !.index = @ + 1]
    BY <1>3 DEF A!Advanced
  <2> QED  BY <2>2, <2>4, <2>5 DEF A!Vec
<1>4. A!Outcome(v) # "ok" => A!Advanced(v) = v
  BY DEF A!Advanced
<1> QED  BY <1>2, <1>3, <1>4

LEMMA ListInit == A!Init => ListInv
<1> SUFFICES ASSUME A!Init PROVE ListInv
  OBVIOUS
<1>0. CAP \in Nat /\ A!New \in A!Vec /\ A!New.index = 0
      /\ \A s \in A!Slots : A!New.array[s] = None /\ ~ (s <= 0)
  BY ListConstants DEF A!New, A!Vec, A!Slots
<1>1. ListTypeInv
  BY <1>0 DEF A!Init, ListTypeInv
<1>2. Len(pushed) = 0 /\ Len(yielded) = 0 /\ Holds(vec, 0) /\ Holds(iter, 0)
  BY <1>0 DEF A!Init, Holds
<1>3. VecInv /\ IterInv /\ YieldInv
  BY <1>0, <1>2 DEF A!Init, VecInv, IterInv, YieldInv
<1>4. PanicsOnlyPastFull
  BY DEF A!Init, PanicsOnlyPastFull, A!PanicsOnlyPastFull
<1> QED  BY <1>1, <1>3, <1>4 DEF ListInv

\* push fills the first hole, which is the one after what was pushed.
LEMMA PushKeeps ==
  ASSUME ListInv, NEW x \in T, A!Push(x)
  PROVE  ListInv'
<1> USE DEF ListInv
<1> DEFINE len == Len(pushed)
<1>0. len \in Nat /\ CAP \in Nat /\ len <= CAP /\ vec \in A!Vec /\ Holds(vec, len)
      /\ last # "panicked" /\ iter' = iter /\ start' = start /\ yielded' = yielded
  BY ListConstants DEF ListTypeInv, VecInv, A!Push
<1>1. \A s \in A!Slots : vec.array[s] = None <=> s > len
  BY <1>0, HoldsIsFull
<1>2. CASE A!Holes(vec) = {}
  <2>1. vec' = vec /\ pushed' = pushed /\ last' = "capacity"
    BY <1>2 DEF A!Push
  <2>2. ListTypeInv' /\ VecInv' /\ IterInv' /\ YieldInv'
    BY <1>0, <2>1 DEF ListTypeInv, VecInv, IterInv, YieldInv, Holds
  <2> QED  BY <2>1, <2>2 DEF PanicsOnlyPastFull, A!PanicsOnlyPastFull
<1>3. CASE A!Holes(vec) # {}
  <2>1. len + 1 \in A!Slots /\ A!FirstHole(vec) = len + 1
    <3>1. A!Holes(vec) = {s \in A!Slots : s > len}
      BY <1>1 DEF A!Holes
    <3>2. len + 1 \in A!Holes(vec)
      BY <1>0, <1>3, <3>1 DEF A!Slots
    <3>3. \A s \in A!Holes(vec) : s \in Nat /\ len + 1 <= s
      BY <1>0, <3>1 DEF A!Slots
    <3>4. A!FirstHole(vec) \in A!Holes(vec) /\ \A s \in A!Holes(vec) : A!FirstHole(vec) <= s
      BY <3>2, <3>3 DEF A!FirstHole
    <3> QED  BY <1>0, <3>1, <3>2, <3>3, <3>4
  <2>2. /\ vec' = [vec EXCEPT !.array = [vec.array EXCEPT ![len + 1] = x]]
        /\ pushed' = Append(pushed, x) /\ last' = "ok"
    BY <1>3, <2>1 DEF A!Push
  <2>3. /\ vec'.array = [vec.array EXCEPT ![len + 1] = x] /\ vec'.index = vec.index
        /\ vec' \in A!Vec /\ vec.array \in [A!Slots -> T \union {None}]
    BY <1>0, <2>1, <2>2 DEF A!Vec
  <2>4. /\ pushed' \in Seq(T) /\ Len(pushed') = len + 1 /\ pushed'[len + 1] = x
        /\ \A s \in 1 .. len : pushed'[s] = pushed[s]
    BY <2>2 DEF ListTypeInv
  <2>5. ListTypeInv'
    BY <1>0, <2>3, <2>4 DEF ListTypeInv
  <2>6. \A v, count : count \in 0 .. len /\ Holds(v, count) => Holds(v, count)'
    BY <1>0, <2>4 DEF Holds, A!Slots
  <2>7. ASSUME NEW s \in A!Slots
        PROVE  vec'.array[s] = IF s <= len + 1 THEN pushed'[s] ELSE None
    <3>1. s \in Nat /\ s >= 1
      BY DEF A!Slots
    <3>2. CASE s = len + 1
      BY <1>0, <2>3, <2>4, <3>2
    <3>3. CASE s # len + 1
      BY <1>0, <2>3, <2>4, <3>1, <3>3 DEF Holds
    <3> QED  BY <3>2, <3>3
  <2>8. VecInv'
    <3>1. len + 1 <= CAP /\ vec.index <= len + 1
      BY <1>0, <2>1 DEF A!Slots, VecInv, A!Vec
    <3> QED  BY <2>3, <2>4, <2>7, <3>1 DEF VecInv, Holds
  <2>9. IterInv'
    <3>1. PICK count \in 0 .. len : Holds(iter, count) /\ iter.index <= count
      BY DEF IterInv
    <3>2. PICK v : v = iter
      OBVIOUS
    <3>3. Holds(v, count)'
      BY <2>6, <3>1, <3>2
    <3>4. Holds(iter, count)' /\ count \in 0 .. len + 1
      BY <1>0, <3>2, <3>3 DEF Holds
    <3> QED  BY <1>0, <2>4, <3>1, <3>4 DEF IterInv
  <2>10. YieldInv'
    <3>1. \A m \in 1 .. Len(yielded) : start + m \in 1 .. len
      BY <1>0 DEF YieldInv, IterInv, ListTypeInv, A!Vec
    <3> QED  BY <1>0, <2>4, <3>1 DEF YieldInv
  <2> QED  BY <2>2, <2>5, <2>8, <2>9, <2>10 DEF PanicsOnlyPastFull, A!PanicsOnlyPastFull
<1> QED  BY <1>2, <1>3

LEMMA NextOfVecKeeps == ListInv /\ A!NextOfVec => ListInv'
<1> SUFFICES ASSUME ListInv, A!NextOfVec PROVE ListInv'
  OBVIOUS
<1> USE DEF ListInv
<1>0. /\ vec' = A!Advanced(vec) /\ last' = A!Outcome(vec)
      /\ iter' = iter /\ pushed' = pushed /\ start' = start /\ yielded' = yielded
  BY DEF A!NextOfVec
<1>1. /\ Len(pushed) \in 0 .. Len(pushed) /\ Len(pushed) <= CAP /\ Holds(vec, Len(pushed))
      /\ vec.index <= Len(pushed) /\ vec \in A!Vec
  BY DEF VecInv, ListTypeInv
<1>2. /\ A!Outcome(vec) = "panicked" => vec.index = CAP /\ Len(pushed) = CAP
      /\ A!Outcome(vec) = "ok" =>
           vec.index < Len(pushed) /\ vec'.array = vec.array /\ vec'.index = vec.index + 1
      /\ A!Outcome(vec) # "ok" => vec' = vec
      /\ vec' \in A!Vec
  BY <1>0, <1>1, OutcomeOfNext
<1>3. ListTypeInv' /\ IterInv' /\ YieldInv'
  BY <1>0, <1>2 DEF ListTypeInv, IterInv, YieldInv, Holds
<1>4. vec'.array = vec.array /\ vec'.index <= Len(pushed)
  BY <1>1, <1>2 DEF A!Vec
<1>5. VecInv'
  BY <1>0, <1>1, <1>4 DEF VecInv, Holds
<1>6. PanicsOnlyPastFull'
  BY <1>0, <1>2 DEF PanicsOnlyPastFull, A!PanicsOnlyPastFull
<1> QED  BY <1>3, <1>5, <1>6

LEMMA CopyKeeps == ListInv /\ A!Copy => ListInv'
<1> SUFFICES ASSUME ListInv, A!Copy PROVE ListInv'
  OBVIOUS
<1> USE DEF ListInv
<1>0. /\ iter' = vec /\ start' = vec.index /\ yielded' = << >> /\ last' = "ok"
      /\ vec' = vec /\ pushed' = pushed
  BY DEF A!Copy
<1>1. Len(pushed) \in 0 .. Len(pushed) /\ vec.index \in Nat /\ vec \in A!Vec
  BY ListConstants DEF ListTypeInv, A!Vec
<1>2. ListTypeInv' /\ VecInv' /\ YieldInv'
  BY <1>0, <1>1 DEF ListTypeInv, VecInv, YieldInv, Holds
<1>3. IterInv'
  BY <1>0, <1>1 DEF VecInv, IterInv, Holds
<1> QED  BY <1>0, <1>2, <1>3 DEF PanicsOnlyPastFull, A!PanicsOnlyPastFull

LEMMA NextOfIterKeeps == ListInv /\ A!NextOfIter => ListInv'
<1> SUFFICES ASSUME ListInv, A!NextOfIter PROVE ListInv'
  OBVIOUS
<1> USE DEF ListInv
<1>0. /\ iter' = A!Advanced(iter) /\ last' = A!Outcome(iter)
      /\ yielded' = IF A!Outcome(iter) = "ok" THEN Append(yielded, A!At(iter)) ELSE yielded
      /\ vec' = vec /\ pushed' = pushed /\ start' = start
  BY DEF A!NextOfIter
<1>1. PICK count \in 0 .. Len(pushed) : Holds(iter, count) /\ iter.index <= count
  BY DEF IterInv
<1>2. /\ A!Outcome(iter) = "panicked" => iter.index = CAP /\ Len(pushed) = CAP
      /\ A!Outcome(iter) = "ok" =>
           /\ iter.index < count /\ A!At(iter) = pushed[iter.index + 1]
           /\ iter'.array = iter.array /\ iter'.index = iter.index + 1
      /\ A!Outcome(iter) # "ok" => iter' = iter
      /\ iter' \in A!Vec
  BY <1>0, <1>1, OutcomeOfNext DEF VecInv, ListTypeInv
<1>3. iter.index \in Nat /\ Len(pushed) \in Nat /\ start \in Nat /\ Len(yielded) \in Nat
  BY ListConstants DEF ListTypeInv, A!Vec
<1>4. VecInv'
  BY <1>0 DEF VecInv, Holds
<1>5. IterInv'
  <2>1. iter'.array = iter.array /\ iter'.index <= count
    BY <1>1, <1>2, <1>3
  <2> QED  BY <1>0, <1>1, <2>1 DEF IterInv, Holds
<1>6. ListTypeInv' /\ YieldInv'
  <2>1. CASE A!Outcome(iter) = "ok"
    <3>1. start + Len(yielded) = iter.index
      BY DEF YieldInv
    <3>2. iter.index + 1 \in 1 .. Len(pushed) /\ A!At(iter) = pushed[iter.index + 1]
      BY <1>1, <1>2, <1>3, <2>1
    <3>3. A!At(iter) \in T
      BY <3>2 DEF ListTypeInv
    <3>4. /\ yielded' \in Seq(T) /\ Len(yielded') = Len(yielded) + 1
          /\ yielded'[Len(yielded) + 1] = A!At(iter)
          /\ \A m \in 1 .. Len(yielded) : yielded'[m] = yielded[m]
      BY <1>0, <2>1, <3>3 DEF ListTypeInv
    <3>5. ListTypeInv'
      BY <1>0, <1>2, <3>4 DEF ListTypeInv
    <3>6. start + (Len(yielded) + 1) = iter.index + 1
      BY <1>3, <3>1
    <3>7. ASSUME NEW m \in 1 .. Len(yielded') PROVE yielded'[m] = pushed[start + m]
      <4>1. m \in 1 .. Len(yielded) \/ m = Len(yielded) + 1
        BY <1>3, <3>4
      <4> QED  BY <3>2, <3>4, <3>6, <4>1 DEF YieldInv
    <3> QED  BY <1>0, <1>2, <2>1, <3>4, <3>5, <3>6, <3>7 DEF YieldInv
  <2>2. CASE A!Outcome(iter) # "ok"
    BY <1>0, <1>2, <2>2 DEF ListTypeInv, YieldInv
  <2> QED  BY <2>1, <2>2
<1>7. PanicsOnlyPastFull'
  BY <1>0, <1>2 DEF PanicsOnlyPastFull, A!PanicsOnlyPastFull
<1> QED  BY <1>4, <1>5, <1>6, <1>7

LEMMA ListNext == ListInv /\ [A!Next]_listvars => ListInv'
<1>1. ListInv /\ UNCHANGED listvars => ListInv'
  BY DEF listvars, ListInv, ListTypeInv, VecInv, IterInv, YieldInv, Holds, PanicsOnlyPastFull,
         A!PanicsOnlyPastFull
<1>2. UNCHANGED A!vars => UNCHANGED listvars
  BY DEF A!vars, listvars
<1> QED  BY <1>1, <1>2, PushKeeps, NextOfVecKeeps, CopyKeeps, NextOfIterKeeps DEF A!Next, A!Halted

LEMMA ListAlways == PartsSpec => []ListInv
<1>1. PartsInit => ListInv
  BY ListInit DEF PartsInit
<1>2. ListInv /\ [PartsNext]_allvars => ListInv'
  BY ListNext DEF PartsNext, allvars
<1> QED  BY <1>1, <1>2, PTL DEF PartsSpec

\* For every capacity the list holds what was pushed in order and without a hole,
\* and a loop over a copy yields the elements pushed before it began, each once
\* and in order, also when the list is pushed to or read during the loop
\* (arrayvec.rs:22-43).
THEOREM LoopYieldsPushed == PartsSpec => []YieldsInOrder
<1>1. ASSUME ListInv PROVE YieldsInOrder
  <2>1. A!HoldsPushed
    BY <1>1 DEF ListInv, VecInv, Holds, A!HoldsPushed
  <2>2. iter.index <= Len(pushed)
    BY <1>1, ListConstants DEF ListInv, IterInv, ListTypeInv, A!Vec
  <2> QED  BY <1>1, <2>1, <2>2 DEF ListInv, YieldInv, YieldsInOrder, A!YieldsInOrder
<1> QED  BY <1>1, ListAlways, PTL

\* For every capacity the array is indexed past its end only by a next on a list
\* that is full and has been read to its end (arrayvec.rs:36-37).
THEOREM PanicNeedsFullList == PartsSpec => []PanicsOnlyPastFull
<1>1. ListInv => PanicsOnlyPastFull
  BY DEF ListInv
<1> QED  BY <1>1, ListAlways, PTL
-----------------------------------------------------------------------------
(***************************************************************************)
(* The descriptor table.  Each store of a field is readable in its         *)
(* descriptor from then on, but for those that a later one replaces: the   *)
(* two that clear a descriptor, and two flags that set_data_segment sets   *)
(* again.  This rests on where the fields lie: Lows and Ends are the       *)
(* fields' borders in the order of the setters, and Reaches is how far the *)
(* values written to them reach.                                           *)
(***************************************************************************)
Lows    == <<0, 16, 32, 56, 0, 48, 40, 44, 45, 47, 52, 53, 54, 55, 53, 54>>
Ends    == <<64, 32, 40, 64, 16, 52, 44, 45, 47, 48, 53, 54, 55, 56, 54, 55>>
Reaches == <<64, 32, 40, 64, 16, 56, 44, 45, 47, 48, 53, 54, 55, 56, 54, 55>>

\* The descriptor of store m, and its place among the stores of that descriptor.
EntryOf(m) == IF m = 1 THEN 0 ELSE IF m <= 15 THEN 1 ELSE 2
FieldOf(m) == IF m = 1 THEN 1 ELSE IF m <= 15 THEN m - 1 ELSE m - 15

\* What is written to the fields of a descriptor of this type.
FieldValues(ty) ==
  << {}, G!Slice(arg.base, 0, 16), G!Slice(arg.base, 16, 8), G!Slice(arg.base, 24, 8),
     G!Slice(arg.limit, 0, 16), G!Slice(arg.limit, 16, 8), ty, {0}, arg.dpl, {0}, {}, {0}, {}, {0},
     {0}, {0} >>

StoreCount == 31
Replaced == {2, 16, 27, 28}

Reads(bits, store) == \A b \in 0 .. store.width - 1 : b + store.low \in bits <=> b \in store.value

StoresInv(count) ==
  \A m \in 1 .. count : m \notin Replaced => Reads(gdt[EntryOf(m)], G!Stores[m])

GdtTypeInv ==
  /\ arg \in G!Argument
  /\ gdt_pc \in {"store", "segments", "done", "fault"}
  /\ gdtr = "kernel" => gdt_pc # "store"
  /\ n \in 0 .. StoreCount
  /\ DOMAIN gdt = 0 .. 2 /\ gdt[0] = {}

TableInv ==
  /\ gdt_pc = "store" => StoresInv(n)
  /\ gdt_pc # "store" => StoresInv(StoreCount)

SegmentInv ==
  /\ DOMAIN segs = G!Registers
  /\ gdt_pc \in {"segments", "done"} =>
       /\ n <= 6
       /\ \A m \in 1 .. n : segs[G!Selectors[m][1]] = G!Selectors[m][2]
       /\ n >= 5 => arg.dpl = {}
  /\ gdt_pc = "done" => n = 6
  /\ gdt_pc = "fault" => arg.dpl # {}

GdtInv == GdtTypeInv /\ TableInv /\ SegmentInv

\* No field is reached by a store after its own, unless it is replaced.
LEMMA FieldsApart ==
  \A p, q \in 1 .. 16 :
    p < q /\ p # 1 /\ (p \in {12, 13} => q <= 14) =>
      Ends[p] <= Lows[q] \/ Reaches[q] <= Lows[p]
BY DEF Lows, Ends, Reaches

LEMMA FieldTypes ==
  \A p \in 1 .. 16 : /\ Lows[p] \in Nat /\ Ends[p] \in Nat /\ Reaches[p] \in Nat
                     /\ Ends[p] <= Reaches[p]
BY DEF Lows, Ends, Reaches

\* The stores, by the tables above.
LEMMA StoreTable ==
  ASSUME arg \in G!Argument
  PROVE  /\ Len(G!Stores) = StoreCount
         /\ \A m \in 1 .. StoreCount :
              /\ G!Stores[m].entry = EntryOf(m)
              /\ G!Stores[m].low = Lows[FieldOf(m)]
              /\ G!Stores[m].low + G!Stores[m].width = Ends[FieldOf(m)]
              /\ G!Stores[m].width \in Nat /\ G!Stores[m].low \in Nat
              /\ \A b \in G!Stores[m].value : b \in Nat /\ b + G!Stores[m].low < Reaches[FieldOf(m)]
         /\ \A m \in 1 .. 15 : G!Stores[m].value = FieldValues(G!ExecuteRead)[FieldOf(m)]
         /\ \A m \in 16 .. StoreCount : G!Stores[m].value = FieldValues(G!ReadWrite)[FieldOf(m)]
<1>1. Len(G!Stores) = StoreCount
  BY DEF G!Stores, G!set_code_segment, G!set_data_segment, StoreCount
<1>2. \A m \in 1 .. StoreCount : G!Stores[m].entry = EntryOf(m)
  BY DEF G!Stores, G!set_code_segment, G!set_data_segment, G!Set, G!Clear, StoreCount, EntryOf
<1>3. \A m \in 1 .. StoreCount : G!Stores[m].low = Lows[FieldOf(m)] /\ G!Stores[m].low \in Nat
  BY DEF G!Stores, G!set_code_segment, G!set_data_segment, G!Set, G!Clear, StoreCount, FieldOf, Lows
<1>4. \A m \in 1 .. StoreCount : /\ G!Stores[m].low + G!Stores[m].width = Ends[FieldOf(m)]
                                 /\ G!Stores[m].width \in Nat
  BY DEF G!Stores, G!set_code_segment, G!set_data_segment, G!Set, G!Clear, StoreCount, FieldOf, Ends
<1>5. /\ \A m \in 1 .. 15 : G!Stores[m].value = FieldValues(G!ExecuteRead)[FieldOf(m)]
      /\ \A m \in 16 .. StoreCount : G!Stores[m].value = FieldValues(G!ReadWrite)[FieldOf(m)]
  BY DEF G!Stores, G!set_code_segment, G!set_data_segment, G!Set, G!Clear, G!Bit, StoreCount,
         FieldOf, FieldValues
<1>6. \A m \in 1 .. StoreCount :
        \A b \in G!Stores[m].value : b \in Nat /\ b + G!Stores[m].low < Reaches[FieldOf(m)]
  <2>1. /\ \A bits, low : \A b \in G!Slice(bits, low, 16) : b \in 0 .. 15
        /\ \A bits, low : \A b \in G!Slice(bits, low, 8) : b \in 0 .. 7
        /\ \A b \in arg.dpl : b \in 0 .. 1
        /\ \A b \in G!ReadWrite \union G!ExecuteRead : b \in 0 .. 3
    BY DEF G!Slice, G!Bit, G!Argument, G!ReadWrite, G!ExecuteRead
  <2>2. ASSUME NEW ty \in {G!ExecuteRead, G!ReadWrite}, NEW f \in 1 .. 16,
               NEW b \in FieldValues(ty)[f]
        PROVE  b \in Nat /\ b + Lows[f] < Reaches[f]
    <3>1. CASE f = 1
      BY <2>1, <3>1 DEF FieldValues, Lows, Reaches
    <3>2. CASE f = 2
      BY <2>1, <3>2 DEF FieldValues, Lows, Reaches
    <3>3. CASE f = 3
      BY <2>1, <3>3 DEF FieldValues, Lows, Reaches
    <3>4. CASE f = 4
      BY <2>1, <3>4 DEF FieldValues, Lows, Reaches
    <3>5. CASE f = 5
      BY <2>1, <3>5 DEF FieldValues, Lows, Reaches
    <3>6. CASE f = 6
      BY <2>1, <3>6 DEF FieldValues, Lows, Reaches
    <3>7. CASE f = 7
      BY <2>1, <3>7 DEF FieldValues, Lows, Reaches
    <3>8. CASE f = 8
      BY <2>1, <3>8 DEF FieldValues, Lows, Reaches
    <3>9. CASE f = 9
      BY <2>1, <3>9 DEF FieldValues, Lows, Reaches
    <3>10. CASE f = 10
      BY <2>1, <3>10 DEF FieldValues, Lows, Reaches
    <3>11. CASE f = 11
      BY <2>1, <3>11 DEF FieldValues, Lows, Reaches
    <3>12. CASE f = 12
      BY <2>1, <3>12 DEF FieldValues, Lows, Reaches
    <3>13. CASE f = 13
      BY <2>1, <3>13 DEF FieldValues, Lows, Reaches
    <3>14. CASE f = 14
      BY <2>1, <3>14 DEF FieldValues, Lows, Reaches
    <3>15. CASE f = 15
      BY <2>1, <3>15 DEF FieldValues, Lows, Reaches
    <3>16. CASE f = 16
      BY <2>1, <3>16 DEF FieldValues, Lows, Reaches
    <3> QED  BY <3>1, <3>2, <3>3, <3>4, <3>5, <3>6, <3>7, <3>8, <3>9, <3>10, <3>11, <3>12, <3>13, <3>14, <3>15, <3>16
  <2>3. \A m \in 1 .. StoreCount : FieldOf(m) \in 1 .. 16
    BY DEF FieldOf, StoreCount
  <2> SUFFICES ASSUME NEW m \in 1 .. StoreCount, NEW b \in G!Stores[m].value
               PROVE  b \in Nat /\ b + G!Stores[m].low < Reaches[FieldOf(m)]
    OBVIOUS
  <2>4. PICK ty \in {G!ExecuteRead, G!ReadWrite} : b \in FieldValues(ty)[FieldOf(m)]
    <3>1. m \in 1 .. 15 \/ m \in 16 .. StoreCount
      BY DEF StoreCount
    <3> QED  BY <1>5, <3>1
  <2> QED  BY <1>3, <2>2, <2>3, <2>4
<1> QED  BY <1>1, <1>2, <1>3, <1>4, <1>5, <1>6, Zenon

\* A bit of a descriptor after a store to it.
LEMMA PutBit ==
  ASSUME NEW bits, NEW store, NEW b \in Int, store.low \in Nat, store.width \in Nat,
         \A v \in store.value : v \in Nat
  PROVE  b \in G!Put(bits, store) <=>
           \/ b - store.low \in store.value
           \/ b \in bits /\ b \notin store.low .. store.low + store.width - 1
<1>1. b \in {v + store.low : v \in store.value} <=> b - store.low \in store.value
  <2>1. ASSUME NEW v \in store.value, b = v + store.low PROVE b - store.low \in store.value
    <3>1. b - store.low = v
      BY <2>1
    <3> QED  BY <3>1
  <2>2. ASSUME b - store.low \in store.value PROVE \E v \in store.value : b = v + store.low
    <3>1. b = (b - store.low) + store.low
      OBVIOUS
    <3> QED  BY <2>2, <3>1
  <2> QED  BY <2>1, <2>2
<1> QED  BY <1>1 DEF G!Put

LEMMA GdtInit == G!Init => GdtInv
<1> SUFFICES ASSUME G!Init PROVE GdtInv
  OBVIOUS
<1>1. GdtTypeInv
  BY GdtAssumption DEF G!Init, G!ArgumentsOK, GdtTypeInv, StoreCount
<1>2. TableInv
  BY DEF G!Init, TableInv, StoresInv
<1>3. SegmentInv
  BY DEF G!Init, SegmentInv
<1> QED  BY <1>1, <1>2, <1>3 DEF GdtInv

\* What is readable stays so: a later store to the same descriptor reaches
\* none of its bits.
LEMMA StoreKeeps == GdtInv /\ G!Store => GdtInv'
<1> SUFFICES ASSUME GdtInv, G!Store PROVE GdtInv'
  OBVIOUS
<1> DEFINE q == n + 1
           store == G!Stores[q]
<1>1. /\ arg \in G!Argument /\ gdt_pc = "store" /\ n \in 0 .. StoreCount - 1
      /\ q \in 1 .. StoreCount /\ n' = q /\ UNCHANGED <<arg, gdt_pc, gdtr, segs>>
      /\ DOMAIN gdt = 0 .. 2 /\ gdt[0] = {} /\ StoresInv(n)
      /\ gdt' = [gdt EXCEPT ![store.entry] = G!Put(@, store)]
  <2>1. /\ arg \in G!Argument /\ n \in 0 .. StoreCount /\ DOMAIN gdt = 0 .. 2 /\ gdt[0] = {}
    BY DEF GdtInv, GdtTypeInv
  <2>2. /\ gdt_pc = "store" /\ n < Len(G!Stores) /\ n' = q /\ UNCHANGED <<arg, gdt_pc, gdtr, segs>>
        /\ gdt' = [gdt EXCEPT ![store.entry] = G!Put(@, store)]
    BY DEF G!Store
  <2>3. n < StoreCount
    BY <2>1, <2>2, StoreTable
  <2>4. n \in 0 .. StoreCount - 1 /\ q \in 1 .. StoreCount
    BY <2>1, <2>3 DEF StoreCount
  <2>5. StoresInv(n)
    BY <2>2 DEF GdtInv, TableInv
  <2> QED  BY <2>1, <2>2, <2>4, <2>5
<1>2. \A m \in 1 .. StoreCount :
        /\ G!Stores[m].entry = EntryOf(m) /\ EntryOf(m) \in 0 .. 2
        /\ G!Stores[m].low = Lows[FieldOf(m)]
        /\ G!Stores[m].low + G!Stores[m].width = Ends[FieldOf(m)]
        /\ G!Stores[m].width \in Nat /\ G!Stores[m].low \in Nat
        /\ \A b \in G!Stores[m].value : b \in Nat /\ b + G!Stores[m].low < Reaches[FieldOf(m)]
  <2>1. \A m : EntryOf(m) \in 0 .. 2
    BY DEF EntryOf
  <2> QED  BY <1>1, <2>1, StoreTable, Zenon
<1>3. DOMAIN gdt' = 0 .. 2 /\ \A d \in 0 .. 2 :
        gdt'[d] = IF d = EntryOf(q) THEN G!Put(gdt[d], store) ELSE gdt[d]
  BY <1>1, <1>2
<1>4. G!Stores' = G!Stores
  BY <1>1 DEF G!Stores, G!set_code_segment, G!set_data_segment
<1>5. gdt'[0] = {}
  <2>1. CASE q = 1
    <3>1. store.value = {}
      BY <2>1 DEF G!Stores, G!Clear
    <3>2. G!Put({}, store) = {}
      BY <3>1 DEF G!Put
    <3> QED  BY <1>1, <1>3, <3>2
  <2>2. CASE q # 1
    BY <1>1, <1>3, <2>2 DEF EntryOf
  <2> QED  BY <2>1, <2>2
<1>6. Reads(gdt'[EntryOf(q)], store)
  <2> SUFFICES ASSUME NEW b \in 0 .. store.width - 1
               PROVE  b + store.low \in gdt'[EntryOf(q)] <=> b \in store.value
    BY DEF Reads
  <2> PICK c : c = b + store.low
    OBVIOUS
  <2>1. /\ store.low \in Nat /\ store.width \in Nat /\ \A v \in store.value : v \in Nat
        /\ gdt'[EntryOf(q)] = G!Put(gdt[EntryOf(q)], store)
    BY <1>1, <1>2, <1>3
  <2>2. c \in Int /\ c - store.low = b /\ c \in store.low .. store.low + store.width - 1
    BY <2>1
  <2> QED  BY <2>1, <2>2, PutBit
<1>7. ASSUME NEW m \in 1 .. n, m \notin Replaced
      PROVE  Reads(gdt'[EntryOf(m)], G!Stores[m])
  <2>0. m \in 1 .. StoreCount /\ m < q /\ Reads(gdt[EntryOf(m)], G!Stores[m])
    <3>1. m \in 1 .. StoreCount /\ m < q
      BY <1>1 DEF StoreCount
    <3> QED  BY <1>1, <1>7, <3>1 DEF StoresInv
  <2>1. CASE EntryOf(m) # EntryOf(q)
    BY <1>2, <1>3, <2>0, <2>1
  <2>2. CASE EntryOf(m) = EntryOf(q)
    <3> PICK p, r : p = FieldOf(m) /\ r = FieldOf(q)
      OBVIOUS
    <3>1. /\ p \in 1 .. 16 /\ r \in 1 .. 16 /\ p < r /\ p # 1
          /\ p \in {12, 13} => r <= 14
      BY <1>1, <1>7, <2>0, <2>2 DEF EntryOf, FieldOf, Replaced, StoreCount
    <3>2. Ends[p] <= Lows[r] \/ Reaches[r] <= Lows[p]
      BY <3>1, FieldsApart
    <3> SUFFICES ASSUME NEW b \in 0 .. G!Stores[m].width - 1
                 PROVE  b + G!Stores[m].low \in gdt'[EntryOf(m)] <=> b \in G!Stores[m].value
      BY DEF Reads
    <3> PICK c : c = b + G!Stores[m].low
      OBVIOUS
    <3>3. c \in Int /\ Lows[p] <= c /\ c < Ends[p]
      BY <1>2, <2>0, <3>1
    <3>4. /\ store.low = Lows[r] /\ store.low + store.width = Ends[r]
          /\ store.low \in Nat /\ store.width \in Nat
          /\ \A v \in store.value : v \in Nat /\ v + store.low < Reaches[r]
          /\ gdt'[EntryOf(m)] = G!Put(gdt[EntryOf(m)], store)
      BY <1>1, <1>2, <1>3, <2>0, <2>2
    <3>5. /\ Lows[p] \in Nat /\ Ends[p] \in Nat /\ Lows[r] \in Nat /\ Ends[r] \in Nat
          /\ Reaches[r] \in Nat /\ Ends[r] <= Reaches[r]
      BY <3>1, FieldTypes
    <3>6. c \notin store.low .. store.low + store.width - 1
      BY <3>2, <3>3, <3>4, <3>5
    <3>7. c - store.low \notin store.value
      <4> SUFFICES ASSUME c - store.low \in store.value PROVE FALSE
        OBVIOUS
      <4>1. c - store.low >= 0 /\ (c - store.low) + store.low < Reaches[r]
        BY <3>4
      <4> QED  BY <3>2, <3>3, <3>4, <3>5, <4>1
    <3>8. c \in gdt'[EntryOf(m)] <=> c \in gdt[EntryOf(m)]
      BY <3>3, <3>4, <3>6, <3>7, PutBit
    <3> QED  BY <2>0, <3>8 DEF Reads
  <2> QED  BY <2>1, <2>2
<1>8. TableInv'
  <2> SUFFICES ASSUME NEW m \in 1 .. q, m \notin Replaced
               PROVE  Reads(gdt'[EntryOf(m)], G!Stores[m])
    BY <1>1, <1>4 DEF TableInv, StoresInv, Reads
  <2>1. m = q \/ m \in 1 .. n
    BY <1>1
  <2> QED  BY <1>6, <1>7, <2>1
<1>9. GdtTypeInv'
  BY <1>1, <1>3, <1>5 DEF GdtInv, GdtTypeInv
<1>10. SegmentInv'
  BY <1>1 DEF GdtInv, SegmentInv
<1> QED  BY <1>8, <1>9, <1>10 DEF GdtInv

LEMMA LoadGdtKeeps == GdtInv /\ G!load_gdt => GdtInv'
<1> SUFFICES ASSUME GdtInv, G!load_gdt PROVE GdtInv'
  OBVIOUS
<1>1. arg \in G!Argument /\ gdt_pc = "store" /\ gdt_pc' = "segments" /\ n' = 0
      /\ UNCHANGED <<arg, gdt, segs>> /\ n = Len(G!Stores) /\ StoresInv(n)
  BY DEF GdtInv, GdtTypeInv, TableInv, G!load_gdt
<1>2. G!Stores' = G!Stores
  BY <1>1 DEF G!Stores, G!set_code_segment, G!set_data_segment
<1>3. StoresInv(StoreCount)
  BY <1>1, StoreTable
<1>4. TableInv'
  BY <1>1, <1>2, <1>3 DEF TableInv, StoresInv
<1>5. GdtTypeInv'
  BY <1>1 DEF GdtInv, GdtTypeInv, StoreCount
<1>6. SegmentInv'
  BY <1>1 DEF GdtInv, SegmentInv
<1> QED  BY <1>4, <1>5, <1>6 DEF GdtInv

\* Field f of this descriptor reads as it was written.
Held(d, ty, f) ==
  \A b \in 0 .. Ends[f] - Lows[f] - 1 : b + Lows[f] \in d <=> b \in FieldValues(ty)[f]

\* With all stores made, every field is held but those set again.
LEMMA FieldsHeld ==
  ASSUME StoresInv(StoreCount), arg \in G!Argument
  PROVE  /\ \A f \in 2 .. 14 : Held(gdt[1], G!ExecuteRead, f)
         /\ \A f \in (2 .. 16) \ {12, 13} : Held(gdt[2], G!ReadWrite, f)
<1>1. ASSUME NEW m \in 1 .. StoreCount, m \notin Replaced, NEW ty,
             G!Stores[m].value = FieldValues(ty)[FieldOf(m)]
      PROVE  Held(gdt[EntryOf(m)], ty, FieldOf(m))
  <2>1. Reads(gdt[EntryOf(m)], G!Stores[m])
    BY <1>1 DEF StoresInv
  <2>2. /\ G!Stores[m].low = Lows[FieldOf(m)] /\ G!Stores[m].low \in Nat
        /\ G!Stores[m].width \in Nat /\ G!Stores[m].low + G!Stores[m].width = Ends[FieldOf(m)]
    BY StoreTable
  <2>3. G!Stores[m].width = Ends[FieldOf(m)] - Lows[FieldOf(m)]
    BY <2>2
  <2> QED  BY <1>1, <2>1, <2>2, <2>3 DEF Reads, Held
<1>2. ASSUME NEW f \in 2 .. 14 PROVE Held(gdt[1], G!ExecuteRead, f)
  <2>1. /\ f + 1 \in 1 .. StoreCount /\ f + 1 \in 1 .. 15 /\ f + 1 \notin Replaced
        /\ EntryOf(f + 1) = 1 /\ FieldOf(f + 1) = f
    BY DEF StoreCount, Replaced, EntryOf, FieldOf
  <2>2. G!Stores[f + 1].value = FieldValues(G!ExecuteRead)[f]
    BY <2>1, StoreTable
  <2> QED  BY <1>1, <2>1, <2>2
<1>3. ASSUME NEW f \in (2 .. 16) \ {12, 13} PROVE Held(gdt[2], G!ReadWrite, f)
  <2>1. /\ f + 15 \in 1 .. StoreCount /\ f + 15 \in 16 .. StoreCount /\ f + 15 \notin Replaced
        /\ EntryOf(f + 15) = 2 /\ FieldOf(f + 15) = f
    BY DEF StoreCount, Replaced, EntryOf, FieldOf
  <2>2. G!Stores[f + 15].value = FieldValues(G!ReadWrite)[f]
    BY <2>1, StoreTable
  <2> QED  BY <1>1, <2>1, <2>2
<1> QED  BY <1>2, <1>3

\* A descriptor that holds its fields encodes what was asked for.
LEMMA HeldEncodes ==
  ASSUME arg \in G!Argument, NEW d, NEW ty \in {G!ExecuteRead, G!ReadWrite},
         \A f \in (2 .. 14) \ {12, 13} : Held(d, ty, f)
  PROVE  /\ G!Base(d) = arg.base /\ G!Limit(d) = arg.limit \intersect (0 .. 19)
         /\ G!Type(d) = ty /\ G!DPL(d) = arg.dpl
         /\ 44 \in d /\ 47 \in d /\ 52 \notin d /\ 55 \in d
<1>0. arg.base \subseteq 0 .. 31 /\ arg.limit \subseteq 0 .. 31 /\ arg.dpl \subseteq 0 .. 1
      /\ ty \subseteq 0 .. 3
  BY DEF G!Argument, G!ExecuteRead, G!ReadWrite
<1>1. /\ \A b \in 0 .. 15 : b + 16 \in d <=> b \in G!Slice(arg.base, 0, 16)
      /\ \A b \in 0 .. 7 : b + 32 \in d <=> b \in G!Slice(arg.base, 16, 8)
      /\ \A b \in 0 .. 7 : b + 56 \in d <=> b \in G!Slice(arg.base, 24, 8)
  <2>1. Held(d, ty, 2) /\ Held(d, ty, 3) /\ Held(d, ty, 4)
    OBVIOUS
  <2> QED  BY <2>1 DEF Held, Lows, Ends, FieldValues
<1>2. /\ \A b \in 0 .. 15 : b + 0 \in d <=> b \in G!Slice(arg.limit, 0, 16)
      /\ \A b \in 0 .. 3 : b + 48 \in d <=> b \in G!Slice(arg.limit, 16, 8)
  <2>1. Held(d, ty, 5) /\ Held(d, ty, 6)
    OBVIOUS
  <2> QED  BY <2>1 DEF Held, Lows, Ends, FieldValues
<1>3. /\ \A b \in 0 .. 3 : b + 40 \in d <=> b \in ty
      /\ \A b \in 0 .. 1 : b + 45 \in d <=> b \in arg.dpl
  <2>1. Held(d, ty, 7) /\ Held(d, ty, 9)
    OBVIOUS
  <2> QED  BY <2>1 DEF Held, Lows, Ends, FieldValues
<1>4. 44 \in d /\ 47 \in d /\ 52 \notin d /\ 55 \in d
  <2>1. Held(d, ty, 8) /\ Held(d, ty, 10) /\ Held(d, ty, 11) /\ Held(d, ty, 14)
    OBVIOUS
  <2>2. 0 + 44 \in d /\ 0 + 47 \in d /\ 0 + 52 \notin d /\ 0 + 55 \in d
    BY <2>1 DEF Held, Lows, Ends, FieldValues
  <2> QED  BY <2>2
<1>5. G!Base(d) = arg.base
  <2>1. ASSUME NEW b \in 0 .. 23 PROVE b + 16 \in d <=> b \in arg.base
    <3>1. CASE b < 16
      BY <1>1, <3>1 DEF G!Slice
    <3>2. CASE b >= 16
      <4> PICK c : c = b - 16
        OBVIOUS
      <4>1. c \in 0 .. 7 /\ c + 32 = b + 16 /\ c + 16 = b
        BY <3>2
      <4> QED  BY <1>1, <4>1 DEF G!Slice
    <3> QED  BY <3>1, <3>2
  <2>2. ASSUME NEW b \in 0 .. 7 PROVE b + 56 \in d <=> b + 24 \in arg.base
    BY <1>1 DEF G!Slice
  <2>3. ASSUME NEW b \in G!Base(d) PROVE b \in arg.base
    BY <2>1, <2>2 DEF G!Base, G!Slice
  <2>4. ASSUME NEW b \in arg.base PROVE b \in G!Base(d)
    <3>1. CASE b < 24
      BY <1>0, <2>1, <3>1 DEF G!Base, G!Slice
    <3>2. CASE b >= 24
      <4> PICK c : c = b - 24
        OBVIOUS
      <4>1. c \in 0 .. 7 /\ c + 24 = b
        BY <1>0, <3>2
      <4>2. c \in G!Slice(d, 56, 8)
        BY <2>2, <4>1 DEF G!Slice
      <4> QED  BY <4>1, <4>2 DEF G!Base
    <3> QED  BY <1>0, <3>1, <3>2
  <2> QED  BY <2>3, <2>4
<1>6. G!Limit(d) = arg.limit \intersect (0 .. 19)
  <2>1. ASSUME NEW b \in 0 .. 15 PROVE b + 0 \in d <=> b \in arg.limit
    BY <1>2 DEF G!Slice
  <2>2. ASSUME NEW b \in 0 .. 3 PROVE b + 48 \in d <=> b + 16 \in arg.limit
    BY <1>2 DEF G!Slice
  <2>3. ASSUME NEW b \in G!Limit(d) PROVE b \in arg.limit /\ b \in 0 .. 19
    BY <2>1, <2>2 DEF G!Limit, G!Slice
  <2>4. ASSUME NEW b \in arg.limit, b \in 0 .. 19 PROVE b \in G!Limit(d)
    <3>1. CASE b < 16
      BY <2>1, <2>4, <3>1 DEF G!Limit, G!Slice
    <3>2. CASE b >= 16
      <4> PICK c : c = b - 16
        OBVIOUS
      <4>1. c \in 0 .. 3 /\ c + 16 = b
        BY <2>4, <3>2
      <4>2. c \in G!Slice(d, 48, 4)
        BY <2>2, <4>1 DEF G!Slice
      <4> QED  BY <4>1, <4>2 DEF G!Limit
    <3> QED  BY <2>4, <3>1, <3>2
  <2> QED  BY <2>3, <2>4
<1>7. G!Type(d) = ty
  <2>1. \A b \in 0 .. 3 : b \in G!Type(d) <=> b \in ty
    BY <1>3 DEF G!Type, G!Slice
  <2>2. G!Type(d) \subseteq 0 .. 3
    BY DEF G!Type, G!Slice
  <2> QED  BY <1>0, <2>1, <2>2
<1>8. G!DPL(d) = arg.dpl
  <2>1. \A b \in 0 .. 1 : b \in G!DPL(d) <=> b \in arg.dpl
    BY <1>3 DEF G!DPL, G!Slice
  <2>2. G!DPL(d) \subseteq 0 .. 1
    BY DEF G!DPL, G!Slice
  <2> QED  BY <1>0, <2>1, <2>2
<1> QED  BY <1>4, <1>5, <1>6, <1>7, <1>8

\* Both descriptors encode what was asked for, and the code segment's is a 64 bit
\* one: set_data_segment sets the size flag for its own only.
LEMMA BothEncode ==
  ASSUME StoresInv(StoreCount), arg \in G!Argument
  PROVE  /\ G!Encodes(gdt[1], G!ExecuteRead, "clear")
         /\ G!Encodes(gdt[2], G!ReadWrite, "set")
<1>1. /\ \A f \in (2 .. 14) \ {12, 13} : Held(gdt[1], G!ExecuteRead, f)
      /\ \A f \in (2 .. 14) \ {12, 13} : Held(gdt[2], G!ReadWrite, f)
      /\ Held(gdt[1], G!ExecuteRead, 12) /\ Held(gdt[1], G!ExecuteRead, 13)
      /\ Held(gdt[2], G!ReadWrite, 15) /\ Held(gdt[2], G!ReadWrite, 16)
  BY FieldsHeld
<1>2. 53 \in gdt[1] /\ 54 \notin gdt[1] /\ 53 \in gdt[2] /\ 54 \in gdt[2]
  <2>1. 0 + 53 \in gdt[1] /\ 0 + 54 \notin gdt[1]
    BY <1>1 DEF Held, Lows, Ends, FieldValues
  <2>2. 0 + 53 \in gdt[2] /\ 0 + 54 \in gdt[2]
    BY <1>1 DEF Held, Lows, Ends, FieldValues
  <2> QED  BY <2>1, <2>2
<1>3. G!Encodes(gdt[1], G!ExecuteRead, "clear")
  BY <1>1, <1>2, HeldEncodes
     DEF G!Encodes, G!SYSTEM, G!PRESENT, G!LONG, G!GRANULARITY, G!AVAILABLE, G!SIZE
<1>4. G!Encodes(gdt[2], G!ReadWrite, "set")
  BY <1>1, <1>2, HeldEncodes
     DEF G!Encodes, G!SYSTEM, G!PRESENT, G!LONG, G!GRANULARITY, G!AVAILABLE, G!SIZE
<1> QED  BY <1>3, <1>4

\* The processor accepts the code and the stack selector exactly in ring 0.
LEMMA LoadSegmentKeeps == GdtInv /\ G!LoadSegment => GdtInv'
<1> SUFFICES ASSUME GdtInv, G!LoadSegment PROVE GdtInv'
  OBVIOUS
<1> DEFINE m == n + 1
<1>1. /\ arg \in G!Argument /\ gdt_pc = "segments" /\ n' = m /\ UNCHANGED <<arg, gdt, gdtr>>
      /\ StoresInv(StoreCount) /\ n \in Nat /\ n < 6 /\ m \in 1 .. 6
      /\ DOMAIN segs = G!Registers
      /\ \A q \in 1 .. n : segs[G!Selectors[q][1]] = G!Selectors[q][2]
      /\ n >= 5 => arg.dpl = {}
  <2>1. Len(G!Selectors) = 6
    BY DEF G!Selectors
  <2> QED  BY <2>1 DEF GdtInv, GdtTypeInv, TableInv, SegmentInv, G!LoadSegment
<1>2. IF G!Loadable(G!Selectors[m][1], G!Selectors[m][2])
        THEN segs' = [segs EXCEPT ![G!Selectors[m][1]] = G!Selectors[m][2]] /\ gdt_pc' = gdt_pc
        ELSE gdt_pc' = "fault" /\ segs' = segs
  BY DEF G!LoadSegment
<1>3. /\ \A q \in 1 .. 6 : G!Selectors[q][1] \in G!Registers
      /\ \A q, r \in 1 .. 6 : q # r => G!Selectors[q][1] # G!Selectors[r][1]
      /\ \A q \in 1 .. 4 : G!Selectors[q][1] \notin {"CS", "SS"} /\ G!Selectors[q][2] = 0
      /\ G!Selectors[5] = <<"CS", 1>> /\ G!Selectors[6] = <<"SS", 2>>
  BY DEF G!Selectors, G!Registers
<1>4. G!Loadable(G!Selectors[m][1], G!Selectors[m][2]) <=> m <= 4 \/ arg.dpl = {}
  <2>0. /\ G!Encodes(gdt[1], G!ExecuteRead, "clear")
        /\ G!Encodes(gdt[2], G!ReadWrite, "set")
    BY <1>1, BothEncode
  <2>1. CASE m \in 1 .. 4
    BY <1>3, <2>1 DEF G!Loadable
  <2>2. CASE m = 5
    BY <1>3, <2>0, <2>2 DEF G!Loadable, G!Encodes, G!ExecuteRead
  <2>3. CASE m = 6
    BY <1>3, <2>0, <2>3 DEF G!Loadable, G!Encodes, G!ReadWrite
  <2> QED  BY <1>1, <2>1, <2>2, <2>3
<1>5. G!Stores' = G!Stores
  BY <1>1 DEF G!Stores, G!set_code_segment, G!set_data_segment
<1>6. gdt_pc' \in {"segments", "fault"}
  BY <1>1, <1>2
<1>7. TableInv'
  BY <1>1, <1>5, <1>6 DEF TableInv, StoresInv
<1>8. GdtTypeInv'
  BY <1>1, <1>6 DEF GdtInv, GdtTypeInv, StoreCount
<1>9. SegmentInv'
  <2>1. CASE gdt_pc' = "fault"
    BY <1>1, <1>2, <1>4, <2>1 DEF SegmentInv
  <2>2. CASE gdt_pc' = "segments"
    <3>1. m <= 4 \/ arg.dpl = {}
      BY <1>2, <1>4, <2>2
    <3>2. segs' = [segs EXCEPT ![G!Selectors[m][1]] = G!Selectors[m][2]]
      BY <1>2, <2>2
    <3>3. ASSUME NEW q \in 1 .. m PROVE segs'[G!Selectors[q][1]] = G!Selectors[q][2]
      <4>1. q \in 1 .. 6 /\ (q = m \/ (q \in 1 .. n /\ q # m))
        BY <1>1
      <4> QED  BY <1>1, <1>3, <3>2, <4>1
    <3> QED  BY <1>1, <2>2, <3>1, <3>2, <3>3 DEF SegmentInv
  <2> QED  BY <1>6, <2>1, <2>2
<1> QED  BY <1>7, <1>8, <1>9 DEF GdtInv

LEMMA GdtStays == GdtInv /\ (G!Return \/ UNCHANGED gdtvars) => GdtInv'
<1> SUFFICES ASSUME GdtInv, G!Return \/ UNCHANGED gdtvars PROVE GdtInv'
  OBVIOUS
<1>1. /\ UNCHANGED <<arg, n, gdt, gdtr, segs>>
      /\ \/ gdt_pc' = gdt_pc
         \/ gdt_pc = "segments" /\ gdt_pc' = "done" /\ n = 6
  <2>1. Len(G!Selectors) = 6
    BY DEF G!Selectors
  <2> QED  BY <2>1 DEF G!Return, gdtvars
<1>2. G!Stores' = G!Stores
  BY <1>1 DEF G!Stores, G!set_code_segment, G!set_data_segment
<1>3. GdtTypeInv'
  BY <1>1 DEF GdtInv, GdtTypeInv
<1>4. TableInv'
  BY <1>1, <1>2 DEF GdtInv, TableInv, StoresInv
<1>5. SegmentInv'
  BY <1>1 DEF GdtInv, SegmentInv
<1> QED  BY <1>3, <1>4, <1>5 DEF GdtInv

LEMMA GdtNext == GdtInv /\ [G!Next]_gdtvars => GdtInv'
<1>1. UNCHANGED G!vars => UNCHANGED gdtvars
  BY DEF G!vars, gdtvars
<1> QED  BY <1>1, StoreKeeps, LoadGdtKeeps, LoadSegmentKeeps, GdtStays DEF G!Next, G!Over

LEMMA GdtAlways == PartsSpec => []GdtInv
<1>1. PartsInit => GdtInv
  BY GdtInit DEF PartsInit
<1>2. GdtInv /\ [PartsNext]_allvars => GdtInv'
  BY GdtNext DEF PartsNext, allvars
<1> QED  BY <1>1, <1>2, PTL DEF PartsSpec

\* Whatever base, limit and privilege level the descriptors are made for, their
\* fields read back as given once the table is loaded: what does not fit in the
\* limit's field is overwritten by the flags after it.  The registers are reloaded
\* exactly in ring 0, and none keeps a selector of the firmware (gdt.rs:13-80).
THEOREM DescriptorsRight == PartsSpec => []SegmentsReloaded
<1>1. ASSUME GdtInv PROVE SegmentsReloaded
  <2>1. G!DescriptorsEncoded
    BY <1>1, BothEncode DEF GdtInv, GdtTypeInv, TableInv, G!DescriptorsEncoded
  <2>2. gdt_pc = "fault" => arg.dpl # {}
    BY <1>1 DEF GdtInv, SegmentInv
  <2>3. ASSUME gdt_pc = "done" PROVE arg.dpl = {} /\ \A r \in G!Registers : segs[r] # -1
    <3>1. n = 6 /\ arg.dpl = {} /\ \A m \in 1 .. 6 : segs[G!Selectors[m][1]] = G!Selectors[m][2]
      BY <1>1, <2>3 DEF GdtInv, SegmentInv
    <3>2. \A r \in G!Registers : \E m \in 1 .. 6 : G!Selectors[m][1] = r
      BY DEF G!Registers, G!Selectors
    <3>3. \A m \in 1 .. 6 : G!Selectors[m][2] # -1
      BY DEF G!Selectors
    <3> QED  BY <3>1, <3>2, <3>3
  <2> QED  BY <2>1, <2>2, <2>3 DEF SegmentsReloaded, G!SegmentsReloaded
<1> QED  BY <1>1, GdtAlways, PTL

-----------------------------------------------------------------------------
(***************************************************************************)
(* The frame buffer.  The turns of an operation's loops are passed in      *)
(* lexicographic order; the places of the turns passed that write have the *)
(* operation's color, the others are as before.                            *)
(***************************************************************************)
Counters == Nat \X Nat \X Nat

Turns(c) ==
  {t \in Counters : t[1] < F!Outer(c) /\ t[2] < F!Middle(c, t[1]) /\ t[3] < F!Inner(c)}

Passed(t, u) ==
  \/ t[1] < u[1]
  \/ t[1] = u[1] /\ t[2] < u[2]
  \/ t[1] = u[1] /\ t[2] = u[2] /\ t[3] < u[3]

Place(c, t) == <<F!PixelAt(c, t).x, F!PixelAt(c, t).y>>

Painted(c, u, p) == \E t \in Turns(c) : Passed(t, u) /\ F!Writes(c, t) /\ Place(c, t) = p

Word == F!Byte \X F!Byte \X F!Byte \X F!Byte

FrameTypeInv ==
  /\ frame \in GraphicInfos
  /\ call \in F!Operation
  /\ at \in Counters
  /\ memory \in [0 .. Words - 1 -> Word]

CounterInv ==
  frame_pc = "draw" => at[3] < F!Inner(call) /\ (at[2] = 0 \/ at[2] < F!Middle(call, at[1]))

PaintInv ==
  frame_pc = "draw" /\ frame.stride = frame.width =>
    /\ \A p \in F!Screen :
         F!Picture[p] = IF Painted(call, at, p) THEN F!ColorAt(call, p) ELSE before[p]
    /\ call.kind # "draw_cursor" =>
         \A t \in Turns(call) : Passed(t, at) /\ F!Writes(call, t) => Place(call, t) \in F!Screen

DrawInv == FrameTypeInv /\ CounterInv /\ NothingPastBuffer /\ PaintInv /\ DrawnExactly

-----------------------------------------------------------------------------
\* What is assumed of the font, the cursor and the screens.
LEMMA FrameConstants ==
  /\ \A g \in GraphicInfos :
       /\ g.width \in Nat /\ g.height \in Nat /\ g.stride \in Nat
       /\ g.pixel_format \in {"Rgb", "Bgr"}
       /\ g.width <= g.stride /\ g.stride * g.height <= Words
  /\ Words \in Nat
  /\ Colors \subseteq F!Byte \X F!Byte \X F!Byte /\ F!Background \in Colors
  /\ CHARACTER_WIDTH \in Nat \ {0} /\ CHARACTER_HEIGHT \in Nat
  /\ \A m \in DOMAIN U8_FONT, l \in 1 .. CHARACTER_HEIGHT :
       U8_FONT[m][l] \subseteq 0 .. CHARACTER_WIDTH - 1
  /\ Len(Cursor) \in Nat /\ DOMAIN Cursor = 1 .. Len(Cursor)
  /\ \A m \in 1 .. Len(Cursor) :
       /\ Len(Cursor[m]) \in Nat /\ DOMAIN Cursor[m] = 1 .. Len(Cursor[m])
       /\ \A k \in 1 .. Len(Cursor[m]) : Cursor[m][k] \in Colors \union {F!NoColor}
<1> USE FrameBufferAssumption DEF F!ArgumentsOK
<1>1. \A g \in GraphicInfos :
        /\ g.width \in Nat /\ g.height \in Nat /\ g.stride \in Nat
        /\ g.pixel_format \in {"Rgb", "Bgr"}
        /\ g.width <= g.stride /\ g.stride * g.height <= Words
  BY DEF F!GraphicInfo
<1>2. F!Background \in Colors
  BY DEF F!Background
<1>3. \A m \in DOMAIN U8_FONT, l \in 1 .. CHARACTER_HEIGHT :
        U8_FONT[m][l] \subseteq 0 .. CHARACTER_WIDTH - 1
  <2>1. \A m \in DOMAIN U8_FONT :
          U8_FONT[m] \in [1 .. CHARACTER_HEIGHT -> SUBSET (0 .. CHARACTER_WIDTH - 1)]
    OBVIOUS
  <2> QED  BY <2>1
<1>4. Len(Cursor) \in Nat /\ DOMAIN Cursor = 1 .. Len(Cursor)
  OBVIOUS
<1>5. ASSUME NEW m \in 1 .. Len(Cursor)
      PROVE  /\ Len(Cursor[m]) \in Nat /\ DOMAIN Cursor[m] = 1 .. Len(Cursor[m])
             /\ \A k \in 1 .. Len(Cursor[m]) : Cursor[m][k] \in Colors \union {F!NoColor}
  <2>1. Cursor[m] \in Seq(Colors \union {F!NoColor})
    BY <1>4
  <2> QED  BY <2>1
<1> QED  BY <1>1, <1>2, <1>3, <1>4, <1>5

\* A call is one of four, with arguments of its own.
LEMMA FourKinds ==
  ASSUME NEW c \in F!Operation
  PROVE  \/ /\ c.kind = "fill_rect"
            /\ c.x \in Nat /\ c.y \in Nat /\ c.width \in Nat /\ c.height \in Nat
            /\ c.color \in Colors
         \/ /\ c.kind = "draw_rect"
            /\ c.x \in Nat /\ c.y \in Nat /\ c.width \in Nat \ {0} /\ c.height \in Nat \ {0}
            /\ c.color \in Colors
         \/ /\ c.kind = "write_string"
            /\ c.x \in Nat /\ c.y \in Nat /\ c.color \in Colors
            /\ Len(c.data) \in Nat /\ DOMAIN c.data = 1 .. Len(c.data)
            /\ \A m \in 1 .. Len(c.data) : c.data[m] \in DOMAIN U8_FONT
         \/ c.kind = "draw_cursor"
<1>1. CASE c \in [kind : {"write_string"}, x : Nat, y : Nat, data : Seq(DOMAIN U8_FONT),
                  color : Colors]
  <2>1. c.data \in Seq(DOMAIN U8_FONT)
    BY <1>1
  <2>2. Len(c.data) \in Nat /\ DOMAIN c.data = 1 .. Len(c.data)
    BY <2>1
  <2>3. \A m \in 1 .. Len(c.data) : c.data[m] \in DOMAIN U8_FONT
    BY <2>1
  <2> QED  BY <1>1, <2>2, <2>3
<1>2. CASE c \notin [kind : {"write_string"}, x : Nat, y : Nat, data : Seq(DOMAIN U8_FONT),
                     color : Colors]
  BY <1>2 DEF F!Operation
<1> QED  BY <1>1, <1>2

\* The loops' bounds are numbers, and the innermost turns at least once.
LEMMA LoopBounds ==
  ASSUME NEW c \in F!Operation
  PROVE  /\ F!Outer(c) \in Nat /\ F!Inner(c) \in Nat \ {0}
         /\ \A m \in Nat : m < F!Outer(c) => F!Middle(c, m) \in Nat
<1>1. CASE c.kind = "fill_rect"
  BY <1>1, FourKinds DEF F!Outer, F!Middle, F!Inner
<1>2. CASE c.kind = "draw_rect"
  BY <1>2, FourKinds DEF F!Outer, F!Middle, F!Inner
<1>3. CASE c.kind = "write_string"
  BY <1>3, FourKinds, FrameConstants DEF F!Outer, F!Middle, F!Inner
<1>4. CASE c.kind = "draw_cursor"
  <2>1. F!Outer(c) = Len(Cursor) /\ F!Inner(c) = 1
        /\ \A m \in Nat : F!Middle(c, m) = Len(Cursor[m + 1])
    BY <1>4 DEF F!Outer, F!Middle, F!Inner
  <2>2. Len(Cursor) \in Nat /\ \A m \in 1 .. Len(Cursor) : Len(Cursor[m]) \in Nat
    BY FrameConstants
  <2>3. \A m \in Nat : m < Len(Cursor) => m + 1 \in 1 .. Len(Cursor)
    BY <2>2
  <2> QED  BY <2>1, <2>2, <2>3
<1> QED  BY <1>1, <1>2, <1>3, <1>4, FourKinds

\* The turn after one is in the loops or ends them.
LEMMA AfterCounts ==
  ASSUME NEW c \in F!Operation, NEW u \in Counters,
         u[1] < F!Outer(c), u[3] < F!Inner(c), u[2] = 0 \/ u[2] < F!Middle(c, u[1])
  PROVE  /\ F!After(c, u) \in Counters
         /\ F!After(c, u)[3] < F!Inner(c)
         /\ F!After(c, u)[2] = 0 \/ F!After(c, u)[2] < F!Middle(c, F!After(c, u)[1])
<1>1. u[1] \in Nat /\ u[2] \in Nat /\ u[3] \in Nat
  BY DEF Counters
<1>2. F!Inner(c) \in Nat \ {0} /\ F!Middle(c, u[1]) \in Nat
  BY <1>1, LoopBounds
<1>3. CASE u[3] + 1 < F!Inner(c)
  <2>1. F!After(c, u) = <<u[1], u[2], u[3] + 1>>
    BY <1>3 DEF F!After
  <2> QED  BY <1>1, <1>3, <2>1 DEF Counters
<1>4. CASE ~ (u[3] + 1 < F!Inner(c)) /\ u[2] + 1 < F!Middle(c, u[1])
  <2>1. F!After(c, u) = <<u[1], u[2] + 1, 0>>
    BY <1>4 DEF F!After
  <2> QED  BY <1>1, <1>2, <1>4, <2>1 DEF Counters
<1>5. CASE ~ (u[3] + 1 < F!Inner(c)) /\ ~ (u[2] + 1 < F!Middle(c, u[1]))
  <2>1. F!After(c, u) = <<u[1] + 1, 0, 0>>
    BY <1>5 DEF F!After
  <2> QED  BY <1>1, <1>2, <2>1 DEF Counters
<1> QED  BY <1>3, <1>4, <1>5

\* A step of the loops passes the turn it is at, and no other.
LEMMA AfterPasses ==
  ASSUME NEW c \in F!Operation, NEW u \in Counters,
         u[1] < F!Outer(c), u[3] < F!Inner(c), u[2] = 0 \/ u[2] < F!Middle(c, u[1]),
         NEW t \in Turns(c)
  PROVE  Passed(t, F!After(c, u)) <=> Passed(t, u) \/ t = u
<1>1. /\ u[1] \in Nat /\ u[2] \in Nat /\ u[3] \in Nat
      /\ t[1] \in Nat /\ t[2] \in Nat /\ t[3] \in Nat
      /\ t = u <=> t[1] = u[1] /\ t[2] = u[2] /\ t[3] = u[3]
  BY DEF Counters, Turns
<1>2. F!Inner(c) \in Nat \ {0} /\ F!Middle(c, u[1]) \in Nat
  BY <1>1, LoopBounds
<1>3. t[3] < F!Inner(c) /\ (t[1] = u[1] => t[2] < F!Middle(c, u[1]))
  BY DEF Turns
<1>4. CASE u[3] + 1 < F!Inner(c)
  <2>1. F!After(c, u) = <<u[1], u[2], u[3] + 1>>
    BY <1>4 DEF F!After
  <2> QED  BY <1>1, <1>2, <1>3, <1>4, <2>1 DEF Passed
<1>5. CASE ~ (u[3] + 1 < F!Inner(c)) /\ u[2] + 1 < F!Middle(c, u[1])
  <2>1. F!After(c, u) = <<u[1], u[2] + 1, 0>>
    BY <1>5 DEF F!After
  <2> QED  BY <1>1, <1>2, <1>3, <1>5, <2>1 DEF Passed
<1>6. CASE ~ (u[3] + 1 < F!Inner(c)) /\ ~ (u[2] + 1 < F!Middle(c, u[1]))
  <2>1. F!After(c, u) = <<u[1] + 1, 0, 0>>
    BY <1>6 DEF F!After
  <2> QED  BY <1>1, <1>2, <1>3, <1>6, <2>1 DEF Passed
<1> QED  BY <1>4, <1>5, <1>6

\* So a step adds at most one place to the painted ones.
LEMMA AfterPaints ==
  ASSUME NEW c \in F!Operation, NEW u \in Counters,
         u[1] < F!Outer(c), u[3] < F!Inner(c), u[2] = 0 \/ u[2] < F!Middle(c, u[1]),
         NEW p
  PROVE  Painted(c, F!After(c, u), p)
           <=> Painted(c, u, p) \/ (F!Writes(c, u) /\ Place(c, u) = p)
<1>1. F!Writes(c, u) => u \in Turns(c)
  BY DEF F!Writes, Turns
<1>2. \A t \in Turns(c) : Passed(t, F!After(c, u)) <=> Passed(t, u) \/ t = u
  BY AfterPasses
<1> QED  BY <1>1, <1>2 DEF Painted

\* Nothing is painted before the first turn.
LEMMA NothingAtFirst ==
  ASSUME NEW c, NEW t \in Turns(c) PROVE ~ Passed(t, <<0, 0, 0>>)
BY DEF Passed, Turns, Counters

\* All is painted when the outermost loop has ended.
LEMMA AllAtLast ==
  ASSUME NEW c \in F!Operation, NEW t \in Turns(c), NEW u \in Counters, u[1] >= F!Outer(c)
  PROVE  Passed(t, u)
<1>1. t[1] \in Nat /\ u[1] \in Nat /\ t[1] < F!Outer(c)
  BY DEF Turns, Counters
<1>2. F!Outer(c) \in Nat
  BY LoopBounds
<1> QED  BY <1>1, <1>2 DEF Passed

-----------------------------------------------------------------------------
\* The display reads the color that was converted, in either format.
LEMMA ColorKept ==
  ASSUME frame \in GraphicInfos, NEW color \in Colors
  PROVE  F!Converted(color) \in Word /\ F!ColorOf(F!Converted(color)) = color
<1>1. /\ color[1] \in F!Byte /\ color[2] \in F!Byte /\ color[3] \in F!Byte
      /\ color = <<color[1], color[2], color[3]>> /\ 0 \in F!Byte
  <2>1. color \in F!Byte \X F!Byte \X F!Byte
    BY FrameConstants
  <2> QED  BY <2>1 DEF F!Byte
<1>2. CASE frame.pixel_format = "Rgb"
  <2>1. F!Converted(color) = <<color[1], color[2], color[3], 0>>
    BY <1>2 DEF F!Converted, F!Stored, F!le, F!rgb
  <2> QED  BY <1>1, <1>2, <2>1 DEF Word, F!ColorOf
<1>3. CASE frame.pixel_format # "Rgb"
  <2>1. F!Converted(color) = <<color[3], color[2], color[1], 0>>
    BY <1>3 DEF F!Converted, F!Stored, F!le, F!rgb, F!bgr
  <2> QED  BY <1>1, <1>3, <2>1 DEF Word, F!ColorOf
<1> QED  BY <1>2, <1>3

-----------------------------------------------------------------------------
\* The turns of each kind of call, when they write and where.
LEMMA FillTurns ==
  ASSUME NEW c \in F!Operation, c.kind = "fill_rect", NEW t \in Counters
  PROVE  /\ t \in Turns(c) <=> t[1] < c.width /\ t[2] < c.height /\ t[3] = 0
         /\ t \in Turns(c) => F!Writes(c, t)
         /\ F!PixelAt(c, t) = F!Pixel(c.x + t[1], c.y + t[2], c.color)
<1>1. t[1] \in Nat /\ t[2] \in Nat /\ t[3] \in Nat
  BY DEF Counters
<1>2. /\ F!Outer(c) = c.width /\ F!Inner(c) = 1
      /\ \A m : F!Middle(c, m) = c.height
  BY DEF F!Outer, F!Middle, F!Inner
<1>3. t \in Turns(c) <=> t[1] < c.width /\ t[2] < c.height /\ t[3] = 0
  BY <1>1, <1>2 DEF Turns
<1>4. t \in Turns(c) => F!Writes(c, t)
  BY <1>2, <1>3 DEF F!Writes
<1>5. F!PixelAt(c, t) = F!Pixel(c.x + t[1], c.y + t[2], c.color)
  BY DEF F!PixelAt, F!fill_rect
<1> QED  BY <1>3, <1>4, <1>5

LEMMA FrameTurns ==
  ASSUME NEW c \in F!Operation, c.kind = "draw_rect", NEW t \in Counters
  PROVE  /\ t \in Turns(c) <=>
              /\ t[1] < 2 /\ t[3] < 2
              /\ t[1] = 0 => t[2] < c.width
              /\ t[1] # 0 => t[2] < c.height
         /\ t \in Turns(c) => F!Writes(c, t)
         /\ F!PixelAt(c, t) =
              IF t[1] = 0
                THEN F!Pixel(c.x + t[2], IF t[3] = 0 THEN c.y ELSE c.y + c.height - 1, c.color)
                ELSE F!Pixel(IF t[3] = 0 THEN c.x ELSE c.x + c.width - 1, c.y + t[2], c.color)
<1>1. t[1] \in Nat /\ t[2] \in Nat /\ t[3] \in Nat
  BY DEF Counters
<1>2. /\ F!Outer(c) = 2 /\ F!Inner(c) = 2
      /\ \A m : F!Middle(c, m) = IF m = 0 THEN c.width ELSE c.height
  BY DEF F!Outer, F!Middle, F!Inner
<1>3. t \in Turns(c) <=>
        /\ t[1] < 2 /\ t[3] < 2
        /\ t[1] = 0 => t[2] < c.width
        /\ t[1] # 0 => t[2] < c.height
  BY <1>1, <1>2 DEF Turns
<1>4. t \in Turns(c) => F!Writes(c, t)
  BY <1>2 DEF F!Writes, Turns
<1>5. F!PixelAt(c, t) = F!draw_rect(c, t)
  BY DEF F!PixelAt
<1> QED  BY <1>3, <1>4, <1>5 DEF F!draw_rect

LEMMA StringTurns ==
  ASSUME NEW c \in F!Operation, c.kind = "write_string", NEW t \in Counters
  PROVE  /\ t \in Turns(c) <=>
              t[1] < Len(c.data) /\ t[2] < CHARACTER_HEIGHT /\ t[3] < CHARACTER_WIDTH
         /\ t \in Turns(c) =>
              (F!Writes(c, t)
                 <=> CHARACTER_WIDTH - 1 - t[3] \in U8_FONT[c.data[t[1] + 1]][t[2] + 1])
         /\ F!PixelAt(c, t) =
              F!Pixel(c.x + t[1] * CHARACTER_WIDTH * 2 + t[3], c.y + t[2], c.color)
<1>1. t[1] \in Nat /\ t[2] \in Nat /\ t[3] \in Nat
  BY DEF Counters
<1>2. /\ F!Outer(c) = Len(c.data) /\ F!Inner(c) = CHARACTER_WIDTH
      /\ \A m : F!Middle(c, m) = CHARACTER_HEIGHT
  BY DEF F!Outer, F!Middle, F!Inner
<1>3. t \in Turns(c) <=>
        t[1] < Len(c.data) /\ t[2] < CHARACTER_HEIGHT /\ t[3] < CHARACTER_WIDTH
  BY <1>1, <1>2 DEF Turns
<1>4. t \in Turns(c) =>
        (F!Writes(c, t)
           <=> CHARACTER_WIDTH - 1 - t[3] \in U8_FONT[c.data[t[1] + 1]][t[2] + 1])
  BY <1>2 DEF F!Writes, Turns, F!Bit
<1>5. F!PixelAt(c, t) = F!write_string(c, t)
  BY DEF F!PixelAt
<1> QED  BY <1>3, <1>4, <1>5 DEF F!write_string, F!write_char

LEMMA CursorTurns ==
  ASSUME NEW c \in F!Operation, c.kind = "draw_cursor", NEW t \in Counters
  PROVE  /\ t \in Turns(c) <=>
              t[1] < Len(Cursor) /\ t[2] < Len(Cursor[t[1] + 1]) /\ t[3] = 0
         /\ t \in Turns(c) => (F!Writes(c, t) <=> Cursor[t[1] + 1][t[2] + 1] # F!NoColor)
         /\ F!PixelAt(c, t) = F!Pixel(t[2], t[1], Cursor[t[1] + 1][t[2] + 1])
<1>1. t[1] \in Nat /\ t[2] \in Nat /\ t[3] \in Nat
  BY DEF Counters
<1>2. /\ F!Outer(c) = Len(Cursor) /\ F!Inner(c) = 1
      /\ \A m : F!Middle(c, m) = Len(Cursor[m + 1])
  BY DEF F!Outer, F!Middle, F!Inner
<1>3. t \in Turns(c) <=> t[1] < Len(Cursor) /\ t[2] < Len(Cursor[t[1] + 1]) /\ t[3] = 0
  BY <1>1, <1>2 DEF Turns
<1>4. t \in Turns(c) => (F!Writes(c, t) <=> Cursor[t[1] + 1][t[2] + 1] # F!NoColor)
  BY <1>2 DEF F!Writes, Turns
<1>5. F!PixelAt(c, t) = F!Pixel(t[2], t[1], Cursor[t[1] + 1][t[2] + 1])
  BY DEF F!PixelAt, F!draw_cursor
<1> QED  BY <1>3, <1>4, <1>5

\* A pixel is written at a place of the plane, in the operation's color.
LEMMA PixelsColored ==
  ASSUME NEW c \in F!Operation, NEW t \in Turns(c), F!Writes(c, t)
  PROVE  LET p == F!PixelAt(c, t)
         IN  p.x \in Nat /\ p.y \in Nat /\ p.color \in Colors /\ p.color = F!ColorAt(c, Place(c, t))
<1>1. t \in Counters /\ t[1] \in Nat /\ t[2] \in Nat /\ t[3] \in Nat
  BY DEF Turns, Counters
<1>2. CASE c.kind = "fill_rect"
  <2>1. F!PixelAt(c, t) = F!Pixel(c.x + t[1], c.y + t[2], c.color)
    BY <1>1, <1>2, FillTurns
  <2>2. c.x \in Nat /\ c.y \in Nat /\ c.color \in Colors
    BY <1>2, FourKinds
  <2> QED  BY <1>1, <1>2, <2>1, <2>2 DEF F!Pixel, F!ColorAt
<1>3. CASE c.kind = "draw_rect"
  <2>1. F!PixelAt(c, t) =
          IF t[1] = 0
            THEN F!Pixel(c.x + t[2], IF t[3] = 0 THEN c.y ELSE c.y + c.height - 1, c.color)
            ELSE F!Pixel(IF t[3] = 0 THEN c.x ELSE c.x + c.width - 1, c.y + t[2], c.color)
    BY <1>1, <1>3, FrameTurns
  <2>2. /\ c.x \in Nat /\ c.y \in Nat /\ c.width \in Nat \ {0} /\ c.height \in Nat \ {0}
        /\ c.color \in Colors
    BY <1>3, FourKinds
  <2> QED  BY <1>1, <1>3, <2>1, <2>2 DEF F!Pixel, F!ColorAt
<1>4. CASE c.kind = "write_string"
  <2>1. F!PixelAt(c, t) = F!Pixel(c.x + t[1] * CHARACTER_WIDTH * 2 + t[3], c.y + t[2], c.color)
    BY <1>1, <1>4, StringTurns
  <2>2. c.x \in Nat /\ c.y \in Nat /\ c.color \in Colors
    BY <1>4, FourKinds
  <2>3. t[1] * CHARACTER_WIDTH * 2 \in Nat
    <3>1. CHARACTER_WIDTH \in Nat
      BY FrameConstants
    <3>2. \A a, b \in Nat : a * b * 2 \in Nat
      OBVIOUS
    <3> QED  BY <1>1, <3>1, <3>2
  <2> QED  BY <1>1, <1>4, <2>1, <2>2, <2>3 DEF F!Pixel, F!ColorAt
<1>5. CASE c.kind = "draw_cursor"
  <2>1. F!PixelAt(c, t) = F!Pixel(t[2], t[1], Cursor[t[1] + 1][t[2] + 1])
    BY <1>1, <1>5, CursorTurns
  <2>2. /\ t[1] < Len(Cursor) /\ t[2] < Len(Cursor[t[1] + 1])
        /\ Cursor[t[1] + 1][t[2] + 1] # F!NoColor
    BY <1>1, <1>5, CursorTurns
  <2>3. t[1] + 1 \in 1 .. Len(Cursor) /\ Len(Cursor[t[1] + 1]) \in Nat
    <3>1. Len(Cursor) \in Nat
      BY FrameConstants
    <3>2. t[1] + 1 \in 1 .. Len(Cursor)
      BY <1>1, <2>2, <3>1
    <3> QED  BY <3>2, FrameConstants
  <2>4. t[2] + 1 \in 1 .. Len(Cursor[t[1] + 1])
    BY <1>1, <2>2, <2>3
  <2>5. Cursor[t[1] + 1][t[2] + 1] \in Colors
    BY <2>2, <2>3, <2>4, FrameConstants
  <2> QED  BY <1>1, <1>5, <2>1, <2>5 DEF F!Pixel, F!ColorAt, Place
<1> QED  BY <1>2, <1>3, <1>4, <1>5, FourKinds

\* The places an operation's turns write are its shape.
LEMMA RectPainted ==
  ASSUME NEW c \in F!Operation, c.kind = "fill_rect", NEW p
  PROVE  p \in F!Shape(c) <=> \E t \in Turns(c) : F!Writes(c, t) /\ Place(c, t) = p
<1>1. c.x \in Nat /\ c.y \in Nat /\ c.width \in Nat /\ c.height \in Nat
  BY FourKinds
<1>2. F!Shape(c) = (c.x .. c.x + c.width - 1) \X (c.y .. c.y + c.height - 1)
  BY DEF F!Shape, F!Rect
<1>3. ASSUME NEW t \in Turns(c) PROVE Place(c, t) \in F!Shape(c) /\ F!Writes(c, t)
  <2>1. t \in Counters /\ t[1] \in Nat /\ t[2] \in Nat
    BY DEF Turns, Counters
  <2>2. /\ t[1] < c.width /\ t[2] < c.height /\ F!Writes(c, t)
        /\ F!PixelAt(c, t) = F!Pixel(c.x + t[1], c.y + t[2], c.color)
    BY <2>1, FillTurns
  <2> QED  BY <1>1, <1>2, <2>1, <2>2 DEF Place, F!Pixel
<1>4. ASSUME p \in F!Shape(c) PROVE \E t \in Turns(c) : Place(c, t) = p
  <2>1. /\ p = <<p[1], p[2]>> /\ p[1] \in Int /\ p[2] \in Int
        /\ c.x <= p[1] /\ p[1] < c.x + c.width /\ c.y <= p[2] /\ p[2] < c.y + c.height
    BY <1>1, <1>2, <1>4
  <2> DEFINE t == <<p[1] - c.x, p[2] - c.y, 0>>
  <2>2. t \in Counters /\ t[1] < c.width /\ t[2] < c.height /\ t[3] = 0
    BY <1>1, <2>1 DEF Counters
  <2>3. t \in Turns(c) /\ F!PixelAt(c, t) = F!Pixel(c.x + t[1], c.y + t[2], c.color)
    BY <2>2, FillTurns
  <2>4. Place(c, t) = p
    BY <1>1, <2>1, <2>3 DEF Place, F!Pixel
  <2> QED  BY <2>3, <2>4
<1> QED  BY <1>3, <1>4

LEMMA BorderPainted ==
  ASSUME NEW c \in F!Operation, c.kind = "draw_rect", NEW p
  PROVE  p \in F!Shape(c) <=> \E t \in Turns(c) : F!Writes(c, t) /\ Place(c, t) = p
<1>1. c.x \in Nat /\ c.y \in Nat /\ c.width \in Nat \ {0} /\ c.height \in Nat \ {0}
  BY FourKinds
<1>2. F!Shape(c) = F!Border(c)
  BY DEF F!Shape
<1>3. ASSUME NEW t \in Turns(c) PROVE Place(c, t) \in F!Shape(c) /\ F!Writes(c, t)
  <2>1. t \in Counters /\ t[1] \in Nat /\ t[2] \in Nat /\ t[3] \in Nat
    BY DEF Turns, Counters
  <2>2. /\ t[1] = 0 => t[2] < c.width
        /\ t[1] # 0 => t[2] < c.height
        /\ F!Writes(c, t)
        /\ F!PixelAt(c, t) =
             IF t[1] = 0
               THEN F!Pixel(c.x + t[2], IF t[3] = 0 THEN c.y ELSE c.y + c.height - 1, c.color)
               ELSE F!Pixel(IF t[3] = 0 THEN c.x ELSE c.x + c.width - 1, c.y + t[2], c.color)
    BY <2>1, FrameTurns
  <2>3. Place(c, t) =
          IF t[1] = 0
            THEN <<c.x + t[2], IF t[3] = 0 THEN c.y ELSE c.y + c.height - 1>>
            ELSE <<IF t[3] = 0 THEN c.x ELSE c.x + c.width - 1, c.y + t[2]>>
    BY <2>2 DEF Place, F!Pixel
  <2>4. Place(c, t) \in F!Border(c)
    BY <1>1, <2>1, <2>2, <2>3 DEF F!Border, F!Rect
  <2> QED  BY <1>2, <2>2, <2>4
<1>4. ASSUME p \in F!Shape(c) PROVE \E t \in Turns(c) : Place(c, t) = p
  <2>1. /\ p = <<p[1], p[2]>> /\ p[1] \in Int /\ p[2] \in Int
        /\ c.x <= p[1] /\ p[1] < c.x + c.width /\ c.y <= p[2] /\ p[2] < c.y + c.height
        /\ p[1] \in {c.x, c.x + c.width - 1} \/ p[2] \in {c.y, c.y + c.height - 1}
    BY <1>1, <1>2, <1>4 DEF F!Border, F!Rect
  <2>2. CASE p[2] \in {c.y, c.y + c.height - 1}
    <3> DEFINE t == <<0, p[1] - c.x, IF p[2] = c.y THEN 0 ELSE 1>>
    <3>1. t \in Counters /\ t[1] = 0 /\ t[2] = p[1] - c.x /\ t[2] < c.width /\ t[3] < 2
          /\ (t[3] = 0 <=> p[2] = c.y)
      BY <1>1, <2>1 DEF Counters
    <3> HIDE DEF t
    <3>2. t \in Turns(c) /\ F!PixelAt(c, t) =
            F!Pixel(c.x + t[2], IF t[3] = 0 THEN c.y ELSE c.y + c.height - 1, c.color)
      BY <3>1, FrameTurns
    <3>3. Place(c, t) = p
      BY <1>1, <2>1, <2>2, <3>1, <3>2 DEF Place, F!Pixel
    <3> QED  BY <3>2, <3>3
  <2>3. CASE p[1] \in {c.x, c.x + c.width - 1}
    <3> DEFINE t == <<1, p[2] - c.y, IF p[1] = c.x THEN 0 ELSE 1>>
    <3>1. t \in Counters /\ t[1] = 1 /\ t[2] = p[2] - c.y /\ t[2] < c.height /\ t[3] < 2
          /\ (t[3] = 0 <=> p[1] = c.x)
      BY <1>1, <2>1 DEF Counters
    <3> HIDE DEF t
    <3>2. t \in Turns(c) /\ F!PixelAt(c, t) =
            F!Pixel(IF t[3] = 0 THEN c.x ELSE c.x + c.width - 1, c.y + t[2], c.color)
      BY <3>1, FrameTurns
    <3>3. Place(c, t) = p
      BY <1>1, <2>1, <2>3, <3>1, <3>2 DEF Place, F!Pixel
    <3> QED  BY <3>2, <3>3
  <2> QED  BY <2>1, <2>2, <2>3
<1> QED  BY <1>3, <1>4

\* Where a glyph's column or row is, and which one a place is in.
LEMMA Within ==
  ASSUME NEW a \in Int, NEW w \in Nat
  PROVE  /\ \A k \in Nat : k < w =>
              a + k \in a .. a + w - 1 /\ a + w - 1 - (a + k) = w - 1 - k /\ a + k - a + 1 = k + 1
         /\ \A b \in a .. a + w - 1 :
              b - a \in Nat /\ b - a < w /\ a + (b - a) = b /\ w - 1 - (b - a) = a + w - 1 - b
OBVIOUS

LEMMA GlyphsPainted ==
  ASSUME NEW c \in F!Operation, c.kind = "write_string", NEW p
  PROVE  p \in F!Shape(c) <=> \E t \in Turns(c) : F!Writes(c, t) /\ Place(c, t) = p
<1> DEFINE W == CHARACTER_WIDTH
           Left(m) == c.x + (m - 1) * 2 * W
<1>1. /\ c.x \in Nat /\ c.y \in Nat /\ Len(c.data) \in Nat /\ DOMAIN c.data = 1 .. Len(c.data)
      /\ W \in Nat \ {0} /\ CHARACTER_HEIGHT \in Nat
  BY FourKinds, FrameConstants
<1>2. F!Shape(c) = UNION {F!GlyphAt(Left(m), c.y, c.data[m]) : m \in 1 .. Len(c.data)}
  BY <1>1 DEF F!Shape
<1>3. \A m \in Nat : Left(m + 1) = c.x + m * W * 2 /\ Left(m + 1) \in Int
  <2>1. ASSUME NEW m \in Int, NEW w \in Int, NEW x \in Int
        PROVE  x + (m + 1 - 1) * 2 * w = x + m * w * 2 /\ x + m * w * 2 \in Int
    <3>1. m + 1 - 1 = m /\ m * 2 * w = m * w * 2
      OBVIOUS
    <3> QED  BY <3>1
  <2>2. c.x \in Int /\ W \in Int
    BY <1>1
  <2> SUFFICES ASSUME NEW m \in Nat PROVE Left(m + 1) = c.x + m * W * 2 /\ Left(m + 1) \in Int
    OBVIOUS
  <2> QED  BY <2>1, <2>2
<1> HIDE DEF Left
<1>4. ASSUME NEW t \in Turns(c), F!Writes(c, t) PROVE Place(c, t) \in F!Shape(c)
  <2>1. t \in Counters /\ t[1] \in Nat /\ t[2] \in Nat /\ t[3] \in Nat
    BY DEF Turns, Counters
  <2>2. t[1] < Len(c.data) /\ t[2] < CHARACTER_HEIGHT /\ t[3] < W
    BY <2>1, StringTurns
  <2>3. W - 1 - t[3] \in U8_FONT[c.data[t[1] + 1]][t[2] + 1]
    BY <1>4, <2>1, StringTurns
  <2>4. PICK l \in Int : l = Left(t[1] + 1) /\ l = c.x + t[1] * W * 2
    BY <1>3, <2>1
  <2>5. Place(c, t) = <<l + t[3], c.y + t[2]>>
    <3>1. F!PixelAt(c, t) = F!Pixel(c.x + t[1] * W * 2 + t[3], c.y + t[2], c.color)
      BY <2>1, StringTurns
    <3>2. F!PixelAt(c, t) = F!Pixel(l + t[3], c.y + t[2], c.color)
      BY <2>4, <3>1
    <3> QED  BY <3>2 DEF Place, F!Pixel
  <2>6. l + t[3] \in l .. l + W - 1 /\ l + W - 1 - (l + t[3]) = W - 1 - t[3]
    <3>1. W \in Nat /\ t[3] \in Nat /\ t[3] < W
      BY <1>1, <2>1, <2>2
    <3> HIDE DEF W
    <3> QED  BY <3>1, Within
  <2>7. /\ c.y + t[2] \in c.y .. c.y + CHARACTER_HEIGHT - 1
        /\ c.y + t[2] - c.y + 1 = t[2] + 1
    <3>1. /\ c.y \in Int /\ CHARACTER_HEIGHT \in Nat
          /\ t[2] \in Nat /\ t[2] < CHARACTER_HEIGHT
      BY <1>1, <2>1, <2>2
    <3> QED  BY <3>1, Within
  <2>8. Place(c, t) \in F!GlyphAt(l, c.y, c.data[t[1] + 1])
    <3>1. Place(c, t)[1] = l + t[3] /\ Place(c, t)[2] = c.y + t[2]
      BY <2>5
    <3>2. /\ l + W - 1 - Place(c, t)[1] = W - 1 - t[3]
          /\ Place(c, t)[2] - c.y + 1 = t[2] + 1
      <4>1. l + W - 1 - Place(c, t)[1] = W - 1 - t[3]
        BY <2>6, <3>1
      <4>2. Place(c, t)[2] - c.y + 1 = t[2] + 1
        <5>1. c.y \in Int
          BY <1>1
        <5> QED  BY <2>1, <3>1, <5>1
      <4> QED  BY <4>1, <4>2
    <3>3. l + W - 1 - Place(c, t)[1] \in U8_FONT[c.data[t[1] + 1]][Place(c, t)[2] - c.y + 1]
      BY <2>3, <3>2, Zenon
    <3>4. Place(c, t) \in (l .. l + W - 1) \X (c.y .. c.y + CHARACTER_HEIGHT - 1)
      BY <2>5, <2>6, <2>7
    <3> QED  BY <3>3, <3>4 DEF F!GlyphAt
  <2>9. t[1] + 1 \in 1 .. Len(c.data)
    BY <1>1, <2>1, <2>2
  <2> QED  BY <1>2, <2>4, <2>8, <2>9
<1>5. ASSUME p \in F!Shape(c)
      PROVE  \E t \in Turns(c) : F!Writes(c, t) /\ Place(c, t) = p
  <2>1. PICK m \in 1 .. Len(c.data) : p \in F!GlyphAt(Left(m), c.y, c.data[m])
    BY <1>2, <1>5
  <2>2. m \in Int /\ m - 1 \in Nat /\ (m - 1) + 1 = m /\ m - 1 < Len(c.data)
    BY <1>1
  <2>3. PICK l \in Int : l = Left(m) /\ l = c.x + (m - 1) * W * 2
    BY <1>3, <2>2
  <2>4. /\ p \in (l .. l + W - 1) \X (c.y .. c.y + CHARACTER_HEIGHT - 1)
        /\ l + W - 1 - p[1] \in U8_FONT[c.data[m]][p[2] - c.y + 1]
    BY <2>1, <2>3 DEF F!GlyphAt
  <2>5. p = <<p[1], p[2]>>
    BY <2>4
  <2> DEFINE t == <<m - 1, p[2] - c.y, p[1] - l>>
  <2>6. t[1] = m - 1 /\ t[2] = p[2] - c.y /\ t[3] = p[1] - l
    OBVIOUS
  <2>7. /\ t[1] \in Nat /\ t[2] \in Nat /\ t[3] \in Nat
        /\ t[1] < Len(c.data) /\ t[2] < CHARACTER_HEIGHT /\ t[3] < W
        /\ W - 1 - t[3] = l + W - 1 - p[1] /\ t[1] + 1 = m
        /\ l + t[3] = p[1] /\ c.y + t[2] = p[2]
    <3>1. p[1] \in l .. l + W - 1 /\ p[2] \in c.y .. c.y + CHARACTER_HEIGHT - 1
      BY <2>4
    <3>2. p[1] - l \in Nat /\ p[1] - l < W /\ l + (p[1] - l) = p[1]
          /\ W - 1 - (p[1] - l) = l + W - 1 - p[1]
      <4>1. W \in Nat
        BY <1>1
      <4> HIDE DEF W
      <4> QED  BY <3>1, <4>1, Within
    <3>3. p[2] - c.y \in Nat /\ p[2] - c.y < CHARACTER_HEIGHT /\ c.y + (p[2] - c.y) = p[2]
      <4>1. c.y \in Int /\ CHARACTER_HEIGHT \in Nat
        BY <1>1
      <4> QED  BY <3>1, <4>1, Within
    <3> QED  BY <2>2, <2>6, <3>2, <3>3
  <2>8. t \in Counters
    BY <2>6, <2>7 DEF Counters
  <2> HIDE DEF t
  <2>9. t \in Turns(c)
    BY <2>7, <2>8, StringTurns
  <2>10. F!Writes(c, t)
    <3>1. W - 1 - t[3] \in U8_FONT[c.data[t[1] + 1]][t[2] + 1]
      BY <2>4, <2>6, <2>7
    <3> QED  BY <2>8, <2>9, <3>1, StringTurns
  <2>11. Place(c, t) = p
    <3>1. F!PixelAt(c, t) = F!Pixel(c.x + t[1] * W * 2 + t[3], c.y + t[2], c.color)
      BY <2>8, StringTurns
    <3>2. F!PixelAt(c, t) = F!Pixel(l + t[3], c.y + t[2], c.color)
      BY <2>3, <2>6, <3>1
    <3> QED  BY <2>5, <2>7, <3>2 DEF Place, F!Pixel
  <2> QED  BY <2>9, <2>10, <2>11
<1> QED  BY <1>4, <1>5

LEMMA CursorPainted ==
  ASSUME NEW c \in F!Operation, c.kind = "draw_cursor", NEW p
  PROVE  p \in F!Shape(c) <=> \E t \in Turns(c) : F!Writes(c, t) /\ Place(c, t) = p
<1>1. /\ Len(Cursor) \in Nat /\ DOMAIN Cursor = 1 .. Len(Cursor)
      /\ \A l \in 1 .. Len(Cursor) :
           Len(Cursor[l]) \in Nat /\ DOMAIN Cursor[l] = 1 .. Len(Cursor[l])
  BY FrameConstants
<1>2. F!Shape(c) = F!CursorShape
  BY DEF F!Shape
<1>3. ASSUME NEW t \in Turns(c), F!Writes(c, t) PROVE Place(c, t) \in F!Shape(c)
  <2>1. t \in Counters /\ t[1] \in Nat /\ t[2] \in Nat
    BY DEF Turns, Counters
  <2>2. /\ t[1] < Len(Cursor) /\ t[2] < Len(Cursor[t[1] + 1])
        /\ Cursor[t[1] + 1][t[2] + 1] # F!NoColor
        /\ F!PixelAt(c, t) = F!Pixel(t[2], t[1], Cursor[t[1] + 1][t[2] + 1])
    BY <1>3, <2>1, CursorTurns
  <2>3. PICK l, m \in Nat : l = t[1] + 1 /\ m = t[2] + 1 /\ t[1] = l - 1 /\ t[2] = m - 1
    BY <2>1
  <2>4. l \in DOMAIN Cursor /\ m \in DOMAIN Cursor[l]
    <3>1. t[1] < Len(Cursor) /\ t[2] < Len(Cursor[l])
      BY <2>2, <2>3
    <3>2. l \in 1 .. Len(Cursor)
      BY <1>1, <2>1, <2>3, <3>1
    <3>3. m \in 1 .. Len(Cursor[l])
      <4>1. Len(Cursor[l]) \in Nat
        BY <1>1, <3>2
      <4> QED  BY <2>1, <2>3, <3>1, <4>1
    <3> QED  BY <1>1, <3>2, <3>3
  <2>5. Place(c, t) = <<m - 1, l - 1>>
    BY <2>2, <2>3 DEF Place, F!Pixel
  <2> QED  BY <1>2, <2>2, <2>3, <2>4, <2>5 DEF F!CursorShape
<1>4. ASSUME p \in F!Shape(c)
      PROVE  \E t \in Turns(c) : F!Writes(c, t) /\ Place(c, t) = p
  <2>0. PICK l \in DOMAIN Cursor :
          \E m \in DOMAIN Cursor[l] : Cursor[l][m] # F!NoColor /\ p = <<m - 1, l - 1>>
    BY <1>2, <1>4 DEF F!CursorShape
  <2>1. PICK m \in DOMAIN Cursor[l] : Cursor[l][m] # F!NoColor /\ p = <<m - 1, l - 1>>
    BY <2>0
  <2> DEFINE t == <<l - 1, m - 1, 0>>
  <2>2. l \in 1 .. Len(Cursor) /\ m \in 1 .. Len(Cursor[l]) /\ Len(Cursor[l]) \in Nat
    BY <1>1, <2>1
  <2>3. /\ t \in Counters /\ t[1] + 1 = l /\ t[2] + 1 = m /\ t[3] = 0
        /\ t[1] < Len(Cursor) /\ t[2] < Len(Cursor[l]) /\ p = <<t[2], t[1]>>
    BY <1>1, <2>1, <2>2 DEF Counters
  <2> HIDE DEF t
  <2>4. t \in Turns(c) /\ F!PixelAt(c, t) = F!Pixel(t[2], t[1], Cursor[l][m])
    BY <2>3, CursorTurns
  <2>5. F!Writes(c, t)
    BY <2>1, <2>3, <2>4, CursorTurns
  <2>6. Place(c, t) = p
    BY <2>3, <2>4 DEF Place, F!Pixel
  <2> QED  BY <2>4, <2>5, <2>6
<1> QED  BY <1>3, <1>4

LEMMA ShapePainted ==
  ASSUME NEW c \in F!Operation, NEW p
  PROVE  p \in F!Shape(c) <=> \E t \in Turns(c) : F!Writes(c, t) /\ Place(c, t) = p
BY FourKinds, RectPainted, BorderPainted, GlyphsPainted, CursorPainted

-----------------------------------------------------------------------------
LEMMA ProductsOrdered ==
  ASSUME NEW a \in Nat, NEW b \in Nat, NEW w \in Nat, a <= b
  PROVE  a * w <= b * w
<1>1. (b - a) * w >= 0 /\ (b - a) * w = b * w - a * w
  OBVIOUS
<1>2. a * w \in Int /\ b * w \in Int
  OBVIOUS
<1> QED  BY <1>1, <1>2

LEMMA NextProduct ==
  ASSUME NEW a \in Nat, NEW w \in Nat
  PROVE  (a + 1) * w = a * w + w /\ a * w \in Nat
OBVIOUS

\* A pixel inside the screen has its word in the buffer.
LEMMA WordInside ==
  ASSUME frame \in GraphicInfos, NEW x \in Nat, NEW y \in Nat, F!is_inside_buffer(x, y)
  PROVE  /\ x < frame.width /\ y < frame.height
         /\ F!offset(x, y) \in 0 .. Words - 1
         /\ F!offset(x, y) < frame.stride * frame.height
<1>1. /\ frame.width \in Nat /\ frame.height \in Nat /\ frame.stride \in Nat /\ Words \in Nat
      /\ frame.width <= frame.stride /\ frame.stride * frame.height <= Words
  BY FrameConstants
<1>2. x < frame.width /\ y < frame.height
  BY <1>1 DEF F!is_inside_buffer
<1>3. (y + 1) * frame.width = y * frame.width + frame.width /\ y * frame.width \in Nat
  BY <1>1, NextProduct
<1>4. (y + 1) * frame.width <= frame.height * frame.width
  BY <1>1, <1>2, ProductsOrdered
<1>5. frame.width * frame.height <= frame.stride * frame.height
  BY <1>1, ProductsOrdered
<1>6. frame.height * frame.width = frame.width * frame.height
      /\ frame.width * frame.height \in Nat /\ frame.stride * frame.height \in Nat
  BY <1>1
<1>7. PICK a, b, m \in Nat :
        a = y * frame.width /\ b = frame.width * frame.height /\ m = frame.stride * frame.height
  BY <1>3, <1>6
<1>8. a + frame.width <= b /\ b <= m /\ m <= Words
  BY <1>1, <1>3, <1>4, <1>5, <1>6, <1>7
<1>9. F!offset(x, y) = a + x
  BY <1>7 DEF F!offset
<1>10. a + x \in 0 .. Words - 1 /\ a + x < m
  BY <1>1, <1>2, <1>8
<1> QED  BY <1>2, <1>7, <1>9, <1>10

\* No two pixels share a word.
LEMMA WordsApart ==
  ASSUME NEW w \in Nat, NEW x \in 0 .. w - 1, NEW a \in 0 .. w - 1, NEW y \in Nat, NEW b \in Nat,
         y * w + x = b * w + a
  PROVE  x = a /\ y = b
<1>1. /\ (y + 1) * w = y * w + w /\ y * w \in Nat
      /\ (b + 1) * w = b * w + w /\ b * w \in Nat
  BY NextProduct
<1>2. CASE y < b
  <2>1. (y + 1) * w <= b * w
    BY <1>2, ProductsOrdered
  <2> QED  BY <1>1, <2>1
<1>3. CASE b < y
  <2>1. (b + 1) * w <= y * w
    BY <1>3, ProductsOrdered
  <2> QED  BY <1>1, <2>1
<1>4. CASE y = b
  BY <1>1, <1>4
<1> QED  BY <1>2, <1>3, <1>4

LEMMA OffsetsApart ==
  ASSUME frame \in GraphicInfos, NEW x \in Nat, NEW y \in Nat, NEW a \in Nat, NEW b \in Nat,
         x < frame.width, a < frame.width, F!offset(x, y) = F!offset(a, b)
  PROVE  x = a /\ y = b
<1>1. PICK w \in Nat : w = frame.width
  BY FrameConstants
<1>2. x \in 0 .. w - 1 /\ a \in 0 .. w - 1
  BY <1>1
<1>3. y * w + x = b * w + a
  BY <1>1 DEF F!offset
<1> QED  BY <1>2, <1>3, WordsApart

LEMMA ScreenPlaces ==
  ASSUME frame \in GraphicInfos, NEW x \in Nat, NEW y \in Nat
  PROVE  <<x, y>> \in F!Screen <=> F!is_inside_buffer(x, y)
<1>1. frame.width \in Nat /\ frame.height \in Nat
  BY FrameConstants
<1> QED  BY <1>1 DEF F!Screen, F!is_inside_buffer

LEMMA PlacesOfScreen ==
  ASSUME frame \in GraphicInfos, NEW p \in F!Screen
  PROVE  /\ p = <<p[1], p[2]>> /\ p[1] \in Nat /\ p[2] \in Nat
         /\ p[1] < frame.width /\ p[2] < frame.height
<1>1. frame.width \in Nat /\ frame.height \in Nat
  BY FrameConstants
<1> QED  BY <1>1 DEF F!Screen

\* On a screen without padding a store changes the pixel it is for and no other.
LEMMA PictureStored ==
  ASSUME frame \in GraphicInfos, frame.stride = frame.width,
         memory \in [0 .. Words - 1 -> Word],
         NEW x \in Nat, NEW y \in Nat, F!is_inside_buffer(x, y), NEW color \in Colors,
         NEW p \in F!Screen, NEW stored, stored[F!offset(x, y)] = F!Converted(color),
         \A w \in 0 .. Words - 1 : w # F!offset(x, y) => stored[w] = memory[w]
  PROVE  F!ColorOf(stored[p[2] * frame.stride + p[1]]) =
           IF p = <<x, y>> THEN color ELSE F!Picture[p]
<1>1. /\ frame.width \in Nat /\ x < frame.width /\ F!offset(x, y) \in 0 .. Words - 1
  BY WordInside, FrameConstants
<1>2. /\ p = <<p[1], p[2]>> /\ p[1] \in Nat /\ p[2] \in Nat
      /\ p[1] < frame.width /\ p[2] < frame.height
  BY PlacesOfScreen
<1>3. F!is_inside_buffer(p[1], p[2])
  BY <1>2, ScreenPlaces
<1>4. F!offset(p[1], p[2]) \in 0 .. Words - 1
  BY <1>2, <1>3, WordInside
<1> DEFINE W(q) == F!offset(q[1], q[2])
<1>5. W(p) = p[2] * frame.stride + p[1] /\ F!Picture[p] = F!ColorOf(memory[W(p)])
  <2>1. W(p) = p[2] * frame.stride + p[1]
    BY DEF F!offset
  <2> QED  BY <2>1 DEF F!Picture
<1>6. CASE p = <<x, y>>
  <2>1. W(p) = F!offset(x, y)
    BY <1>6
  <2>2. stored[W(p)] = F!Converted(color)
    BY <1>1, <2>1
  <2> QED  BY <1>5, <1>6, <2>2, ColorKept
<1>7. CASE p # <<x, y>>
  <2>1. W(p) # F!offset(x, y)
    <3>1. p[1] # x \/ p[2] # y
      BY <1>2, <1>7
    <3> QED  BY <1>1, <1>2, <3>1, OffsetsApart
  <2>2. stored[W(p)] = memory[W(p)]
    BY <1>4, <2>1
  <2> QED  BY <1>5, <1>7, <2>2
<1> QED  BY <1>6, <1>7

-----------------------------------------------------------------------------
LEMMA DrawInit == F!Init => DrawInv
<1> SUFFICES ASSUME F!Init PROVE DrawInv
  OBVIOUS
<1>1. /\ frame \in GraphicInfos /\ frame_pc = "draw" /\ call = F!fill(F!Background)
      /\ at = <<0, 0, 0>> /\ memory = [w \in 0 .. Words - 1 |-> F!Old] /\ before = F!Picture
  BY DEF F!Init
<1>2. call \in F!Operation
  <2>1. frame.width \in Nat /\ frame.height \in Nat /\ F!Background \in Colors
    BY <1>1, FrameConstants
  <2> QED  BY <1>1, <2>1 DEF F!fill, F!Operation
<1>3. FrameTypeInv
  <2>1. at \in Counters
    BY <1>1 DEF Counters
  <2>2. F!Old \in Word
    BY DEF F!Old, Word, F!Byte
  <2>3. memory \in [0 .. Words - 1 -> Word]
    BY <1>1, <2>2
  <2> QED  BY <1>1, <1>2, <2>1, <2>3 DEF FrameTypeInv
<1>4. CounterInv
  <2>1. F!Inner(call) \in Nat \ {0}
    BY <1>2, LoopBounds
  <2> QED  BY <1>1, <2>1 DEF CounterInv
<1>5. NothingPastBuffer
  BY <1>1 DEF NothingPastBuffer, F!NothingPastBuffer
<1>6. PaintInv
  <2>1. \A t \in Turns(call) : ~ Passed(t, at)
    BY <1>1, NothingAtFirst
  <2> QED  BY <1>1, <2>1 DEF PaintInv, Painted
<1>7. DrawnExactly
  BY <1>1 DEF DrawnExactly, F!DrawnExactly
<1> QED  BY <1>3, <1>4, <1>5, <1>6, <1>7 DEF DrawInv

LEMMA CallKeeps == ASSUME NEW c \in Calls, DrawInv, F!Call(c) PROVE DrawInv'
<1>1. /\ frame_pc' = "draw" /\ call' = c /\ at' = <<0, 0, 0>> /\ before' = F!Picture
      /\ frame' = frame /\ memory' = memory
  BY DEF F!Call
<1>2. c \in F!Operation
  BY FrameBufferAssumption DEF F!ArgumentsOK
<1>3. FrameTypeInv'
  BY <1>1, <1>2 DEF DrawInv, FrameTypeInv, Counters
<1>4. CounterInv'
  <2>1. F!Inner(c) \in Nat \ {0}
    BY <1>2, LoopBounds
  <2> QED  BY <1>1, <2>1 DEF CounterInv
<1>5. NothingPastBuffer'
  BY <1>1 DEF DrawInv, NothingPastBuffer, F!NothingPastBuffer
<1>6. PaintInv'
  <2>1. \A t \in Turns(c) : ~ Passed(t, <<0, 0, 0>>)
    BY NothingAtFirst
  <2>2. F!Picture' = F!Picture
    BY <1>1 DEF F!Picture, F!Screen, F!ColorOf
  <2> QED  BY <1>1, <2>1, <2>2 DEF PaintInv, Painted
<1>7. DrawnExactly'
  BY <1>1 DEF DrawnExactly, F!DrawnExactly
<1> QED  BY <1>3, <1>4, <1>5, <1>6, <1>7 DEF DrawInv

\* The loops go on and the invariant on their counters with them.
LEMMA LoopKeeps ==
  ASSUME DrawInv, F!InLoop, at' = F!After(call, at), UNCHANGED <<frame, frame_pc, call>>,
         memory' \in [0 .. Words - 1 -> Word]
  PROVE  /\ FrameTypeInv' /\ CounterInv' /\ DrawnExactly'
         /\ \A p : Painted(call', at', p) <=>
                   Painted(call, at, p) \/ (F!Writes(call, at) /\ Place(call, at) = p)
         /\ \A t \in Turns(call) : Passed(t, at') <=> Passed(t, at) \/ t = at
<1>1. /\ call \in F!Operation /\ at \in Counters /\ frame_pc = "draw" /\ at[1] < F!Outer(call)
      /\ at[3] < F!Inner(call) /\ (at[2] = 0 \/ at[2] < F!Middle(call, at[1]))
  BY DEF DrawInv, FrameTypeInv, CounterInv, F!InLoop
<1>2. /\ at' \in Counters /\ at'[3] < F!Inner(call)
      /\ at'[2] = 0 \/ at'[2] < F!Middle(call, at'[1])
  BY <1>1, AfterCounts
<1>3. FrameTypeInv'
  BY <1>2 DEF DrawInv, FrameTypeInv
<1>4. CounterInv'
  BY <1>2 DEF CounterInv
<1>5. DrawnExactly'
  BY <1>1 DEF DrawnExactly, F!DrawnExactly
<1>6. \A p : Painted(call', at', p) <=>
            Painted(call, at, p) \/ (F!Writes(call, at) /\ Place(call, at) = p)
  BY <1>1, AfterPaints
<1>7. \A t \in Turns(call) : Passed(t, at') <=> Passed(t, at) \/ t = at
  BY <1>1, AfterPasses
<1> QED  BY <1>3, <1>4, <1>5, <1>6, <1>7

\* The pixel of the turn the loops are at.
LEMMA PixelAtTurn ==
  ASSUME DrawInv, F!InLoop, F!Writes(call, at)
  PROVE  LET p == F!PixelAt(call, at)
         IN  /\ p.x \in Nat /\ p.y \in Nat /\ p.color \in Colors
             /\ p.color = F!ColorAt(call, Place(call, at)) /\ Place(call, at) = <<p.x, p.y>>
             /\ Place(call, at) \in F!Screen <=> F!is_inside_buffer(p.x, p.y)
             /\ at \in Turns(call)
<1>1. at \in Turns(call) /\ call \in F!Operation /\ frame \in GraphicInfos
  BY DEF DrawInv, FrameTypeInv, CounterInv, F!InLoop, F!Writes, Turns
<1> DEFINE p == F!PixelAt(call, at)
<1>2. /\ p.x \in Nat /\ p.y \in Nat /\ p.color \in Colors
      /\ p.color = F!ColorAt(call, Place(call, at))
  BY <1>1, PixelsColored
<1>3. Place(call, at) = <<p.x, p.y>>
  BY DEF Place
<1>4. Place(call, at) \in F!Screen <=> F!is_inside_buffer(p.x, p.y)
  BY <1>1, <1>2, <1>3, ScreenPlaces
<1> QED  BY <1>1, <1>2, <1>3, <1>4

LEMMA WritePixelKeeps == DrawInv /\ F!write_pixel => DrawInv'
<1> SUFFICES ASSUME DrawInv, F!write_pixel PROVE DrawInv'
  OBVIOUS
<1> DEFINE q == F!PixelAt(call, at)
<1>1. /\ F!InLoop /\ F!Writes(call, at) /\ F!is_inside_buffer(q.x, q.y)
      /\ memory' = [memory EXCEPT ![F!offset(q.x, q.y)] = F!Converted(q.color)]
      /\ at' = F!After(call, at) /\ UNCHANGED <<frame, frame_pc, call, result, before>>
  BY DEF F!write_pixel
<1>2. /\ q.x \in Nat /\ q.y \in Nat /\ q.color \in Colors
      /\ q.color = F!ColorAt(call, Place(call, at)) /\ Place(call, at) = <<q.x, q.y>>
      /\ Place(call, at) \in F!Screen
  BY <1>1, PixelAtTurn
<1>3. frame \in GraphicInfos /\ memory \in [0 .. Words - 1 -> Word]
  BY DEF DrawInv, FrameTypeInv
<1> HIDE DEF q
<1>4. /\ F!offset(q.x, q.y) \in 0 .. Words - 1
      /\ F!offset(q.x, q.y) < frame.stride * frame.height
  BY <1>1, <1>2, <1>3, WordInside
<1>5. memory' \in [0 .. Words - 1 -> Word]
  <2>1. F!Converted(q.color) \in Word
    BY <1>2, <1>3, ColorKept
  <2> QED  BY <1>1, <1>3, <2>1
<1>6. /\ FrameTypeInv' /\ CounterInv' /\ DrawnExactly'
      /\ \A p : Painted(call', at', p) <=>
                Painted(call, at, p) \/ (F!Writes(call, at) /\ Place(call, at) = p)
      /\ \A t \in Turns(call) : Passed(t, at') <=> Passed(t, at) \/ t = at
  BY <1>1, <1>5, LoopKeeps
<1>7. NothingPastBuffer'
  <2> SUFFICES ASSUME NEW w \in 0 .. Words - 1, w >= frame.stride * frame.height
               PROVE  memory'[w] = F!Old
    BY <1>1 DEF NothingPastBuffer, F!NothingPastBuffer
  <2>1. memory[w] = F!Old
    BY DEF DrawInv, NothingPastBuffer, F!NothingPastBuffer
  <2>2. w # F!offset(q.x, q.y)
    <3>1. frame.stride * frame.height \in Nat
      <4>1. frame.stride \in Nat /\ frame.height \in Nat
        BY <1>3, FrameConstants
      <4> QED  BY <4>1
    <3> QED  BY <1>4, <3>1
  <2> QED  BY <1>1, <1>3, <2>1, <2>2
<1>8. PaintInv'
  <2> SUFFICES ASSUME frame_pc = "draw", frame.stride = frame.width PROVE PaintInv'
    BY <1>1 DEF PaintInv
  <2>1. F!Screen' = F!Screen
    BY <1>1 DEF F!Screen
  <2>2. ASSUME NEW p \in F!Screen
        PROVE  F!Picture'[p] = IF Painted(call', at', p) THEN F!ColorAt(call, p) ELSE before[p]
    <3>1. F!Picture'[p] = IF p = <<q.x, q.y>> THEN q.color ELSE F!Picture[p]
      <4>1. F!Picture'[p] = F!ColorOf(memory'[p[2] * frame.stride + p[1]])
        BY <1>1, <2>1 DEF F!Picture, F!ColorOf
      <4>2. /\ memory'[F!offset(q.x, q.y)] = F!Converted(q.color)
            /\ \A w \in 0 .. Words - 1 : w # F!offset(q.x, q.y) => memory'[w] = memory[w]
        BY <1>1, <1>3, <1>4
      <4>3. F!ColorOf(memory'[p[2] * frame.stride + p[1]]) =
              IF p = <<q.x, q.y>> THEN q.color ELSE F!Picture[p]
        <5>1. F!is_inside_buffer(q.x, q.y)
          BY <1>1
        <5> QED  BY <1>2, <1>3, <4>2, <5>1, PictureStored
      <4> QED  BY <4>1, <4>3
    <3>2. F!Picture[p] = IF Painted(call, at, p) THEN F!ColorAt(call, p) ELSE before[p]
      BY DEF DrawInv, PaintInv
    <3> QED  BY <1>1, <1>2, <1>6, <3>1, <3>2
  <2>3. ASSUME call.kind # "draw_cursor", NEW t \in Turns(call), Passed(t, at'), F!Writes(call, t)
        PROVE  Place(call, t) \in F!Screen
    <3>1. Passed(t, at) \/ t = at
      BY <1>6, <2>3
    <3> QED  BY <1>2, <2>3, <3>1 DEF DrawInv, PaintInv
  <2> QED  BY <1>1, <2>1, <2>2, <2>3 DEF PaintInv
<1> QED  BY <1>6, <1>7, <1>8 DEF DrawInv

\* A turn that stores nothing: it does not write, or the cursor is clipped there.
LEMMA EmptyTurnKeeps ==
  ASSUME DrawInv, F!InLoop, at' = F!After(call, at),
         UNCHANGED <<frame, frame_pc, call, memory, before>>,
         F!Writes(call, at) => call.kind = "draw_cursor" /\ Place(call, at) \notin F!Screen
  PROVE  DrawInv'
<1>1. memory' \in [0 .. Words - 1 -> Word]
  BY DEF DrawInv, FrameTypeInv
<1>2. /\ FrameTypeInv' /\ CounterInv' /\ DrawnExactly'
      /\ \A p : Painted(call', at', p) <=>
                Painted(call, at, p) \/ (F!Writes(call, at) /\ Place(call, at) = p)
      /\ \A t \in Turns(call) : Passed(t, at') <=> Passed(t, at) \/ t = at
  BY <1>1, LoopKeeps
<1>3. NothingPastBuffer'
  BY DEF DrawInv, NothingPastBuffer, F!NothingPastBuffer
<1>4. PaintInv'
  <2> SUFFICES ASSUME frame_pc = "draw", frame.stride = frame.width PROVE PaintInv'
    BY DEF PaintInv
  <2>1. F!Screen' = F!Screen
    BY DEF F!Screen
  <2>2. F!Picture' = F!Picture
    BY <2>1 DEF F!Picture, F!ColorOf
  <2>3. ASSUME NEW p \in F!Screen PROVE Painted(call', at', p) <=> Painted(call, at, p)
    BY <1>2
  <2>4. ASSUME NEW p \in F!Screen
        PROVE  F!Picture'[p] = IF Painted(call', at', p) THEN F!ColorAt(call, p) ELSE before[p]
    BY <2>2, <2>3 DEF DrawInv, PaintInv
  <2>5. ASSUME call.kind # "draw_cursor", NEW t \in Turns(call), Passed(t, at'), F!Writes(call, t)
        PROVE  Place(call, t) \in F!Screen
    <3>1. Passed(t, at)
      BY <1>2, <2>5
    <3> QED  BY <2>5, <3>1 DEF DrawInv, PaintInv
  <2> QED  BY <2>1, <2>4, <2>5 DEF PaintInv
<1> QED  BY <1>2, <1>3, <1>4 DEF DrawInv

\* What a return leaves alone.
LEMMA ReturnKeeps ==
  ASSUME DrawInv, NEW value, F!ReturnWith(value), DrawnExactly'
  PROVE  DrawInv'
<1>1. UNCHANGED <<frame, call, at, memory, before>> /\ frame_pc' = "idle"
  BY DEF F!ReturnWith
<1>2. FrameTypeInv' /\ CounterInv' /\ PaintInv'
  BY <1>1 DEF DrawInv, FrameTypeInv, CounterInv, PaintInv
<1>3. NothingPastBuffer'
  BY <1>1 DEF DrawInv, NothingPastBuffer, F!NothingPastBuffer
<1> QED  BY <1>2, <1>3 DEF DrawInv

LEMMA OutsideKeeps == DrawInv /\ F!OutsideBufferError => DrawInv'
<1> SUFFICES ASSUME DrawInv, F!OutsideBufferError PROVE DrawInv'
  OBVIOUS
<1>1. /\ F!InLoop /\ F!Writes(call, at)
      /\ ~ F!is_inside_buffer(F!PixelAt(call, at).x, F!PixelAt(call, at).y)
  BY DEF F!OutsideBufferError
<1>2. at \in Turns(call) /\ Place(call, at) \notin F!Screen
  BY <1>1, PixelAtTurn
<1>3. CASE call.kind = "draw_cursor"
  <2>1. at' = F!After(call, at) /\ UNCHANGED <<frame, frame_pc, call, memory, before>>
    BY <1>3 DEF F!OutsideBufferError
  <2> QED  BY <1>1, <1>2, <1>3, <2>1, EmptyTurnKeeps
<1>4. CASE call.kind # "draw_cursor"
  <2>1. F!ReturnWith("outside")
    BY <1>4 DEF F!OutsideBufferError
  <2>2. /\ result' = "outside" /\ frame_pc' = "idle" /\ frame_pc = "draw"
        /\ UNCHANGED <<frame, call, at, memory, before>>
    BY <1>1, <2>1 DEF F!ReturnWith, F!InLoop
  <2>3. call \in F!Operation
    BY DEF DrawInv, FrameTypeInv
  <2>4. DrawnExactly'
    <3> SUFFICES ASSUME frame.stride = frame.width PROVE F!DrawnExactly'
      BY <2>2 DEF DrawnExactly, F!DrawnExactly
    <3>1. ~ (F!Shape(call) \subseteq F!Screen)
      BY <1>1, <1>2, <2>3, ShapePainted
    <3>2. F!Screen' = F!Screen
      BY <2>2 DEF F!Screen
    <3>3. F!Picture' = F!Picture
      BY <2>2, <3>2 DEF F!Picture, F!ColorOf
    <3>4. ASSUME NEW p \in F!Screen
          PROVE  \/ p \in F!Shape(call) /\ F!Picture[p] = F!ColorAt(call, p)
                 \/ F!Picture[p] = before[p]
      <4>1. F!Picture[p] = IF Painted(call, at, p) THEN F!ColorAt(call, p) ELSE before[p]
        BY <2>2 DEF DrawInv, PaintInv
      <4>2. Painted(call, at, p) => p \in F!Shape(call)
        BY <2>3, ShapePainted DEF Painted
      <4> QED  BY <4>1, <4>2
    <3> QED  BY <1>4, <2>2, <3>1, <3>2, <3>3, <3>4 DEF F!DrawnExactly
  <2> QED  BY <2>1, <2>4, ReturnKeeps
<1> QED  BY <1>3, <1>4

LEMMA DoneKeeps == DrawInv /\ F!Return => DrawInv'
<1> SUFFICES ASSUME DrawInv, F!Return PROVE DrawInv'
  OBVIOUS
<1>1. /\ frame_pc = "draw" /\ at[1] >= F!Outer(call) /\ F!ReturnWith("ok")
      /\ frame_pc' = "idle" /\ result' = "ok" /\ UNCHANGED <<frame, call, at, memory, before>>
  BY DEF F!Return, F!ReturnWith
<1>2. call \in F!Operation /\ at \in Counters
  BY DEF DrawInv, FrameTypeInv
<1>3. \A t \in Turns(call) : Passed(t, at)
  BY <1>1, <1>2, AllAtLast
<1>4. \A p : p \in F!Shape(call) <=> Painted(call, at, p)
  BY <1>2, <1>3, ShapePainted DEF Painted
<1>5. DrawnExactly'
  <2> SUFFICES ASSUME frame.stride = frame.width PROVE F!DrawnExactly'
    BY <1>1 DEF DrawnExactly, F!DrawnExactly
  <2>1. F!Screen' = F!Screen
    BY <1>1 DEF F!Screen
  <2>2. F!Picture' = F!Picture
    BY <1>1, <2>1 DEF F!Picture, F!ColorOf
  <2>3. ASSUME call.kind # "draw_cursor" PROVE F!Shape(call) \subseteq F!Screen
    <3>1. \A t \in Turns(call) : F!Writes(call, t) => Place(call, t) \in F!Screen
      BY <1>1, <1>3, <2>3 DEF DrawInv, PaintInv
    <3> QED  BY <1>2, <3>1, ShapePainted
  <2>4. ASSUME NEW p \in F!Screen
        PROVE  \/ p \in F!Shape(call) /\ F!Picture[p] = F!ColorAt(call, p)
               \/ F!Picture[p] = before[p] /\ p \notin F!Shape(call)
    <3>1. F!Picture[p] = IF Painted(call, at, p) THEN F!ColorAt(call, p) ELSE before[p]
      BY <1>1 DEF DrawInv, PaintInv
    <3> QED  BY <1>4, <3>1
  <2> QED  BY <1>1, <2>1, <2>2, <2>3, <2>4 DEF F!DrawnExactly
<1> QED  BY <1>1, <1>5, ReturnKeeps

LEMMA DrawStays == DrawInv /\ UNCHANGED framevars => DrawInv'
<1> SUFFICES ASSUME DrawInv, UNCHANGED framevars PROVE DrawInv'
  OBVIOUS
<1>1. UNCHANGED <<frame, frame_pc, call, at, result, memory, before>>
  BY DEF framevars
<1>2. F!Screen' = F!Screen
  BY <1>1 DEF F!Screen
<1>3. F!Picture' = F!Picture
  BY <1>1, <1>2 DEF F!Picture, F!ColorOf
<1>4. FrameTypeInv' /\ CounterInv' /\ PaintInv'
  BY <1>1, <1>2, <1>3 DEF DrawInv, FrameTypeInv, CounterInv, PaintInv
<1>5. NothingPastBuffer' /\ DrawnExactly'
  BY <1>1, <1>2, <1>3
     DEF DrawInv, NothingPastBuffer, DrawnExactly, F!NothingPastBuffer, F!DrawnExactly
<1> QED  BY <1>4, <1>5 DEF DrawInv

LEMMA DrawNext == DrawInv /\ [F!Next]_framevars => DrawInv'
<1> SUFFICES ASSUME DrawInv, [F!Next]_framevars PROVE DrawInv'
  OBVIOUS
<1>1. CASE F!Skip
  BY <1>1, EmptyTurnKeeps DEF F!Skip
<1>2. CASE F!Over \/ UNCHANGED framevars
  BY <1>2, DrawStays DEF F!Over, F!vars, framevars
<1> QED
  BY <1>1, <1>2, CallKeeps, WritePixelKeeps, OutsideKeeps, DoneKeeps DEF F!Next

LEMMA DrawAlways == PartsSpec => []DrawInv
<1>1. PartsInit => DrawInv
  BY DrawInit DEF PartsInit
<1>2. DrawInv /\ [PartsNext]_allvars => DrawInv'
  BY DrawNext DEF PartsNext, allvars
<1> QED  BY <1>1, <1>2, PTL DEF PartsSpec

\* Whatever the screen's size, padding and pixel format, the font, the cursor and
\* the calls: no store reaches a word past the buffer (frame_buffer.rs:167-191).
THEOREM DrawingStaysInside == PartsSpec => []NothingPastBuffer
<1>1. DrawInv => NothingPastBuffer
  BY DEF DrawInv
<1> QED  BY <1>1, DrawAlways, PTL

\* On every screen without padding, an operation that returns Ok has painted exactly
\* its shape, in its color; one that returns the error has a shape that leaves the
\* screen, and has painted a part of it; the cursor is clipped
\* (frame_buffer.rs:54-150, graphic.rs:107-122, mouse.rs:33-69).
THEOREM DrawingExact == PartsSpec => []DrawnExactly
<1>1. DrawInv => DrawnExactly
  BY DEF DrawInv
<1> QED  BY <1>1, DrawAlways, PTL
=============================================================================
