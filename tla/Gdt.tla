-------------------------------- MODULE Gdt ---------------------------------
(***************************************************************************)
(* gdt::init (kernel/src/gdt.rs): build three segment descriptors bit      *)
(* field by bit field, load the table and reload the segment registers.    *)
(*                                                                         *)
(* An integer is the set of its one bits.  A setter clears its field and   *)
(* ORs a shifted value that may be wider than the field: set_limit_high    *)
(* clears four bits and is given eight, set_descriptor_privilege_level     *)
(* clears two.  What the order of the setters makes of that is checked for *)
(* all arguments of set_code_segment, of which init uses one.              *)
(***************************************************************************)
EXTENDS Integers, Sequences

CONSTANT Arguments   \* the arguments of set_code_segment and set_data_segment

Argument == [dpl : SUBSET (0 .. 1), base : SUBSET (0 .. 31), limit : SUBSET (0 .. 31)]

\* What init passes: ring 0, base 0, limit 0xfffff.
InitArgument == [dpl |-> {}, base |-> {}, limit |-> 0 .. 19]

ArgumentsOK == Arguments \subseteq Argument /\ InitArgument \in Arguments

VARIABLES
  arg,    \* the arguments of this run
  pc,     \* "store", "segments", "done" or "fault"
  n,      \* stores or segment registers done in this part
  gdt,    \* the three descriptors
  gdtr,   \* the table the processor looks descriptors up in
  segs    \* the segment registers: an index into gdt, or -1, the firmware's

vars == <<arg, pc, n, gdt, gdtr, segs>>

Registers == {"DS", "ES", "FS", "GS", "CS", "SS"}

\* The static GDT is all zeros.
Init ==
  /\ arg \in Arguments
  /\ pc = "store"
  /\ n = 0
  /\ gdt = [d \in 0 .. 2 |-> {}]
  /\ gdtr = "firmware"
  /\ segs = [r \in Registers |-> -1]

(***************************************************************************)
(* The setters, as the stores that set_code_segment and set_data_segment   *)
(* make of them.                                                           *)
(***************************************************************************)
Bit(value) == IF value THEN {0} ELSE {}

\* (value >> low) & (2^width - 1)
Slice(value, low, width) == {b \in 0 .. width - 1 : b + low \in value}

Clear(d) == [entry |-> d, low |-> 0, width |-> 64, value |-> {}]
Set(d, low, width, value) == [entry |-> d, low |-> low, width |-> width, value |-> value]

ReadWrite   == {1}      \* 2
ExecuteRead == {1, 3}   \* 10

\* Mutant: the flags are set before the limit.
set_code_segment_flags_first(d, ty, a) ==
  << Clear(d),
     Set(d, 16, 16, Slice(a.base, 0, 16)), Set(d, 32, 8, Slice(a.base, 16, 8)),
     Set(d, 56, 8, Slice(a.base, 24, 8)),
     Set(d, 40, 4, ty), Set(d, 44, 1, Bit(TRUE)), Set(d, 45, 2, a.dpl),
     Set(d, 47, 1, Bit(TRUE)), Set(d, 52, 1, Bit(FALSE)), Set(d, 53, 1, Bit(TRUE)),
     Set(d, 54, 1, Bit(FALSE)), Set(d, 55, 1, Bit(TRUE)),
     Set(d, 0, 16, Slice(a.limit, 0, 16)), Set(d, 48, 4, Slice(a.limit, 16, 8)) >>

set_code_segment(d, ty, a) ==
  << Clear(d),
     Set(d, 16, 16, Slice(a.base, 0, 16)), Set(d, 32, 8, Slice(a.base, 16, 8)),
     Set(d, 56, 8, Slice(a.base, 24, 8)),
     Set(d, 0, 16, Slice(a.limit, 0, 16)), Set(d, 48, 4, Slice(a.limit, 16, 8)),
     Set(d, 40, 4, ty), Set(d, 44, 1, Bit(TRUE)), Set(d, 45, 2, a.dpl),
     Set(d, 47, 1, Bit(TRUE)), Set(d, 52, 1, Bit(FALSE)), Set(d, 53, 1, Bit(TRUE)),
     Set(d, 54, 1, Bit(FALSE)), Set(d, 55, 1, Bit(TRUE)) >>

set_data_segment(d, ty, a) ==
  set_code_segment(d, ty, a) \o << Set(d, 53, 1, Bit(TRUE)), Set(d, 54, 1, Bit(TRUE)) >>

Stores ==
  << Clear(0) >> \o set_code_segment(1, ExecuteRead, arg) \o set_data_segment(2, ReadWrite, arg)

\* self.0 = (self.0 & !mask) | (value << low)
Put(bits, store) ==
  (bits \ (store.low .. store.low + store.width - 1)) \union {b + store.low : b \in store.value}

Store ==
  /\ pc = "store"
  /\ n < Len(Stores)
  /\ LET store == Stores[n + 1]
     IN  gdt' = [gdt EXCEPT ![store.entry] = Put(@, store)]
  /\ n' = n + 1
  /\ UNCHANGED <<arg, pc, gdtr, segs>>

load_gdt ==
  /\ pc = "store"
  /\ n = Len(Stores)
  /\ gdtr' = "kernel"
  /\ pc' = "segments"
  /\ n' = 0
  /\ UNCHANGED <<arg, gdt, segs>>

(***************************************************************************)
(* The segment registers.  The processor checks the descriptor that a      *)
(* selector with the privilege level 0 names, and faults.                  *)
(***************************************************************************)
\* Mutant: code and stack selectors are swapped.
SelectorsSwapped == << <<"DS", 0>>, <<"ES", 0>>, <<"FS", 0>>, <<"GS", 0>>, <<"CS", 2>>, <<"SS", 1>> >>

Selectors == << <<"DS", 0>>, <<"ES", 0>>, <<"FS", 0>>, <<"GS", 0>>, <<"CS", 1>>, <<"SS", 2>> >>

\* Fields of a descriptor, as the processor reads them.
Type(d)  == Slice(d, 40, 4)
DPL(d)   == Slice(d, 45, 2)
Base(d)  == Slice(d, 16, 24) \union {b + 24 : b \in Slice(d, 56, 8)}
Limit(d) == Slice(d, 0, 16) \union {b + 16 : b \in Slice(d, 48, 4)}
SYSTEM == 44
PRESENT == 47
AVAILABLE == 52
LONG == 53
SIZE == 54
GRANULARITY == 55

\* The null selector is good for the data segments.
Loadable(register, selector) ==
  LET d == gdt[selector]
  IN  CASE register = "CS" ->
             {SYSTEM, PRESENT, LONG} \subseteq d /\ SIZE \notin d /\ 3 \in Type(d) /\ DPL(d) = {}
        [] register = "SS" ->
             {SYSTEM, PRESENT} \subseteq d /\ 3 \notin Type(d) /\ 1 \in Type(d) /\ DPL(d) = {}
        [] OTHER -> selector = 0

LoadSegment ==
  /\ pc = "segments"
  /\ n < Len(Selectors)
  /\ LET register == Selectors[n + 1][1]
         selector == Selectors[n + 1][2]
     IN  IF Loadable(register, selector)
           THEN segs' = [segs EXCEPT ![register] = selector] /\ UNCHANGED pc
           ELSE pc' = "fault" /\ UNCHANGED segs
  /\ n' = n + 1
  /\ UNCHANGED <<arg, gdt, gdtr>>

Return ==
  /\ pc = "segments"
  /\ n = Len(Selectors)
  /\ pc' = "done"
  /\ UNCHANGED <<arg, n, gdt, gdtr, segs>>

Over == pc \in {"done", "fault"} /\ UNCHANGED vars

Next == Store \/ load_gdt \/ LoadSegment \/ Return \/ Over

Spec == Init /\ [][Next]_vars

-----------------------------------------------------------------------------
(***************************************************************************)
(* Properties                                                              *)
(***************************************************************************)

Encodes(d, ty, size) ==
  /\ Base(d) = arg.base
  /\ Limit(d) = arg.limit \intersect (0 .. 19)
  /\ Type(d) = ty
  /\ DPL(d) = arg.dpl
  /\ {SYSTEM, PRESENT, LONG, GRANULARITY} \subseteq d
  /\ AVAILABLE \notin d
  /\ SIZE \in d <=> size = "set"

DescriptorsEncoded ==
  gdtr = "kernel" =>
    gdt[0] = {} /\ Encodes(gdt[1], ExecuteRead, "clear") /\ Encodes(gdt[2], ReadWrite, "set")

\* When the table is loaded, every field of its descriptors reads back as it was
\* given, whatever the base and the limit: the four bits of a limit that do not
\* fit in its field are overwritten by the flags that follow.  The registers are
\* reloaded without a fault exactly for ring 0, which is what init asks for, and
\* then none keeps a selector of the firmware's table (gdt.rs:13-80).
SegmentsReloaded ==
  /\ DescriptorsEncoded
  /\ pc = "fault" => arg.dpl # {}
  /\ pc = "done" => arg.dpl = {} /\ \A r \in Registers : segs[r] # -1
=============================================================================
