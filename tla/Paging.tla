------------------------------- MODULE Paging -------------------------------
(***************************************************************************)
(* paging::init (kernel/src/paging.rs): fill the kernel's page tables with *)
(* an identity map of 2 MiB pages and load them into cr3, while the code   *)
(* that does so runs in the addresses it maps.                             *)
(*                                                                         *)
(* A page or a frame is a number of 2 MiB units.  Tables are aligned, so   *)
(* the flags an entry ORs to an address do not meet its bits: an entry is  *)
(* what it points to and the set of its flag bits.                         *)
(***************************************************************************)
EXTENDS Integers

CONSTANTS
  ENTRIES,             \* entries of a table: 512
  NUMBER_OF_PAGE_DIR   \* page directories: 64

ASSUME EntriesAssumption == ENTRIES \in Nat \ {0}
ASSUME DirectoryAssumption == NUMBER_OF_PAGE_DIR \in 1 .. ENTRIES

Indices     == 0 .. ENTRIES - 1
Directories == 0 .. NUMBER_OF_PAGE_DIR - 1

PRESENT == 0
WRITE   == 1
HUGE    == 7

VARIABLES
  pc,                      \* "pml4", "directory", "entry", "load" or "done"
  i, j,                    \* the loops over directories and entries
  page_map_level4_table,
  page_dir_ptr_table,
  page_dir,
  cr3                      \* whose tables the processor walks

tables == <<page_map_level4_table, page_dir_ptr_table, page_dir>>
vars   == <<pc, i, j, tables, cr3>>

\* The zero of a table that was not written.
Empty == [to |-> -1, flags |-> {}]

\* The statics, and the firmware's tables in cr3.
Init ==
  /\ pc = "pml4"
  /\ i = 0
  /\ j = 0
  /\ page_map_level4_table = [n \in Indices |-> Empty]
  /\ page_dir_ptr_table = [n \in Indices |-> Empty]
  /\ page_dir = [d \in Directories |-> [n \in Indices |-> Empty]]
  /\ cr3 = "firmware"

\* Mutant: every entry of the table is filled.
SetLevel4All ==
  /\ pc = "pml4"
  /\ page_map_level4_table' =
       [n \in Indices |-> [to |-> 0, flags |-> {PRESENT, WRITE}]]
  /\ pc' = "directory"
  /\ UNCHANGED <<i, j, page_dir_ptr_table, page_dir, cr3>>

\* The one table of the second level is table 0.
SetLevel4 ==
  /\ pc = "pml4"
  /\ page_map_level4_table' =
       [page_map_level4_table EXCEPT ![0] = [to |-> 0, flags |-> {PRESENT, WRITE}]]
  /\ pc' = "directory"
  /\ UNCHANGED <<i, j, page_dir_ptr_table, page_dir, cr3>>

\* An iteration of the outer loop, up to the inner one.
SetDirectory ==
  /\ pc = "directory"
  /\ i < NUMBER_OF_PAGE_DIR
  /\ page_dir_ptr_table' =
       [page_dir_ptr_table EXCEPT ![i] = [to |-> i, flags |-> {PRESENT, WRITE}]]
  /\ j' = 0
  /\ pc' = "entry"
  /\ UNCHANGED <<i, page_map_level4_table, page_dir, cr3>>

\* Mutant: the directory's number is not multiplied by 1 GiB.
FrameOfSum(d, n) == d + n

\* (i * PAGE_SIZE_1G + j * PAGE_SIZE_2M) in units of 2 MiB.
FrameOf(d, n) == d * ENTRIES + n

PageFlags == {PRESENT, WRITE, HUGE}

\* Mutant: the inner loop runs once more.
SetEntryPast ==
  /\ pc = "entry"
  /\ j <= ENTRIES
  /\ page_dir' = [page_dir EXCEPT ![i] =
                    [page_dir[i] EXCEPT ![j] = [to |-> FrameOf(i, j), flags |-> PageFlags]]]
  /\ j' = j + 1
  /\ UNCHANGED <<pc, i, page_map_level4_table, page_dir_ptr_table, cr3>>

SetEntry ==
  /\ pc = "entry"
  /\ j < ENTRIES
  /\ page_dir' = [page_dir EXCEPT ![i] =
                    [page_dir[i] EXCEPT ![j] = [to |-> FrameOf(i, j), flags |-> PageFlags]]]
  /\ j' = j + 1
  /\ UNCHANGED <<pc, i, page_map_level4_table, page_dir_ptr_table, cr3>>

DirectoryFull ==
  /\ pc = "entry"
  /\ j = ENTRIES
  /\ i' = i + 1
  /\ pc' = "directory"
  /\ UNCHANGED <<j, tables, cr3>>

LoopDone ==
  /\ pc = "directory"
  /\ i = NUMBER_OF_PAGE_DIR
  /\ pc' = "load"
  /\ UNCHANGED <<i, j, tables, cr3>>

\* mov cr3: from the next instruction on, the processor walks the new tables.
LoadCr3 ==
  /\ pc = "load"
  /\ cr3' = "kernel"
  /\ pc' = "done"
  /\ UNCHANGED <<i, j, tables>>

Over == pc = "done" /\ UNCHANGED vars

Next ==
  \/ SetLevel4 \/ SetDirectory \/ SetEntry \/ DirectoryFull \/ LoopDone \/ LoadCr3
  \/ Over

Spec == Init /\ [][Next]_vars

(***************************************************************************)
(* The processor.  An address has an index into each level; its page is    *)
(* numbered by them in this order.  The firmware's tables map what there   *)
(* is to itself.                                                           *)
(***************************************************************************)
PageNumber(l4, l3, l2) == (l4 * ENTRIES + l3) * ENTRIES + l2

NoPage == -1

Translate(l4, l3, l2) ==
  IF cr3 = "firmware" THEN PageNumber(l4, l3, l2)
  ELSE LET four  == page_map_level4_table[l4]
           three == page_dir_ptr_table[l3]
           two   == page_dir[three.to][l2]
       IN  IF /\ {PRESENT, WRITE} \subseteq four.flags /\ four.to = 0
              /\ {PRESENT, WRITE} \subseteq three.flags
              /\ {PRESENT, WRITE, HUGE} \subseteq two.flags
             THEN two.to ELSE NoPage

-----------------------------------------------------------------------------
(***************************************************************************)
(* Properties                                                              *)
(***************************************************************************)

Entry == [to : Int, flags : SUBSET {PRESENT, WRITE, HUGE}]

\* Every variable has its type (paging.rs:14-90).
TypeOK ==
  /\ pc \in {"pml4", "directory", "entry", "load", "done"}
  /\ i \in 0 .. NUMBER_OF_PAGE_DIR
  /\ j \in 0 .. ENTRIES
  /\ page_map_level4_table \in [Indices -> Entry]
  /\ page_dir_ptr_table \in [Indices -> Entry]
  /\ page_dir \in [Directories -> [Indices -> Entry]]
  /\ cr3 \in {"firmware", "kernel"}

\* At every instant, before, at and after the change of cr3, the pages of the
\* first NUMBER_OF_PAGE_DIR GiB are mapped to themselves, so the code, stack and
\* data of the kernel stay where they are (paging.rs:93-126).
IdentityMapped ==
  \A l3 \in Directories, l2 \in Indices : Translate(0, l3, l2) = PageNumber(0, l3, l2)

\* Once the kernel's tables are loaded, nothing past them is mapped: a stray
\* address faults, and no frame has a second address (paging.rs:93-126).
NothingElseMapped ==
  cr3 = "kernel" =>
    \A l4, l3, l2 \in Indices :
      ~ (l4 = 0 /\ l3 \in Directories) => Translate(l4, l3, l2) = NoPage
=============================================================================
