------------------------------ MODULE ApicInit ------------------------------
(***************************************************************************)
(* The interrupt controllers from acpi::init to main's sti:                *)
(* interrupts::init (kernel/src/interrupts.rs) on the register writes of   *)
(* kernel/src/arch.rs, while the devices raise their lines.                *)
(*                                                                         *)
(* An entry of the I/O APIC's redirection table is two registers, written  *)
(* one after the other: the low one has the mask and the vector, the high  *)
(* one the destination.  The hardware uses the two as it finds them when a *)
(* line is raised.  What becomes of the last edge that passed a mask is    *)
(* kept in `edge`.                                                         *)
(***************************************************************************)
EXTENDS Acpi

CONSTANTS
  EXTERNAL_IRQ_OFFSET,
  Keyboard, Mouse,       \* IRQ::Keyboard and IRQ::Mouse
  MaxEntry,              \* the largest index of the redirection table
  OldEntries,            \* the redirection entries the firmware may leave
  IoApicIds              \* the ids the I/O APIC may have

Lines == 0 .. MaxEntry

Low == [masked : {"yes", "no"}, vector : Nat]

ASSUME LineAssumption ==
  /\ MaxEntry \in Nat
  /\ Keyboard \in Lines \ {0}
  /\ Mouse \in Lines \ {0, Keyboard}
ASSUME VectorAssumption == EXTERNAL_IRQ_OFFSET \in Nat /\ OldEntries \subseteq [low : Low, high : Nat]
ASSUME IoApicIdAssumption == IoApicIds \subseteq Nat

VARIABLES
  pic,         \* the 8259: "open" or "masked"
  lapic,       \* the local APIC's registers
  n,           \* writes to the local APIC done
  low, high,   \* the redirection table
  entry,       \* the loop over the redirection table
  io_apic_id,  \* the id register of the I/O APIC
  edge         \* the last edge: its line, vector and destination, whether it came
               \* since boot or since the table was masked, whether it was taken

apic == <<pic, lapic, n, low, high, entry, io_apic_id>>
vars == <<firmware, pc, acpi, apic, edge>>

\* The vectors with a handler: the timer's, the keyboard's and the mouse's.
IDT == {EXTERNAL_IRQ_OFFSET, EXTERNAL_IRQ_OFFSET + Keyboard, EXTERNAL_IRQ_OFFSET + Mouse}

NoEdge == [line |-> -1, vector |-> 0, dest |-> 0, since |-> "boot", taken |-> "yes"]

Registers == {"apic_base", "spurious", "lint0", "lint1", "perf", "error",
              "error_status", "eoi", "icr_high", "icr_low", "task_priority"}

\* The firmware leaves the local APIC off, or on as a virtual wire for the 8259.
BootRegisters ==
  {[r \in Registers |->
      CASE r = "spurious" -> on
        [] r = "task_priority" -> IF on = "enabled" THEN "zero" ELSE "high"
        [] r = "lint0" -> "extint"
        [] OTHER -> "boot"] : on \in {"disabled", "enabled"}}

Init ==
  /\ AcpiInit
  /\ pic = "open"
  /\ lapic \in BootRegisters
  /\ n = 0
  /\ \E table \in [Lines -> OldEntries] :
       /\ low = [l \in Lines |-> table[l].low]
       /\ high = [l \in Lines |-> table[l].high]
  /\ entry = 0
  /\ io_apic_id \in IoApicIds
  /\ edge = NoEdge

(***************************************************************************)
(* disable_pic_8259, then the local APIC: a list of writes, with a wait    *)
(* for the delivery of the last but one.                                   *)
(***************************************************************************)
DisablePic ==
  /\ pc = "pic"
  /\ pic' = "masked"
  /\ GoTo("local")
  /\ UNCHANGED <<firmware, acpi, lapic, n, low, high, entry, io_apic_id, edge>>

LocalApicWrites ==
  << <<"apic_base", "enabled">>, <<"spurious", "enabled">>, <<"lint0", "masked">>,
     <<"lint1", "masked">>, <<"perf", "masked">>, <<"error", "vector">>,
     <<"error_status", "zero">>, <<"error_status", "zero">>, <<"eoi", "zero">>,
     <<"icr_high", "zero">>, <<"icr_low", "pending">>, <<"task_priority", "zero">> >>

\* The loop on the delivery status has no bound.
LocalApicWrite ==
  /\ pc = "local"
  /\ n < Len(LocalApicWrites)
  /\ lapic["icr_low"] # "pending"
  /\ lapic' = [lapic EXCEPT ![LocalApicWrites[n + 1][1]] = LocalApicWrites[n + 1][2]]
  /\ n' = n + 1
  /\ UNCHANGED <<firmware, pc, acpi, pic, low, high, entry, io_apic_id, edge>>

LocalApicReady ==
  /\ pc = "local"
  /\ n = Len(LocalApicWrites)
  /\ GoTo("check_id")
  /\ UNCHANGED <<firmware, acpi, apic, edge>>

(***************************************************************************)
(* The I/O APIC.                                                           *)
(***************************************************************************)
\* get_id has four bits; the MADT's id has eight.
CheckId ==
  /\ pc = "check_id"
  /\ GoTo(IF io_apic_id % 16 = apic_info.io_apic_id THEN "mask_low" ELSE "panicked")
  /\ UNCHANGED <<firmware, acpi, apic, edge>>

WriteLow(l, masked, from, to) ==
  /\ pc = from
  /\ low' = [low EXCEPT ![l] = [masked |-> masked, vector |-> EXTERNAL_IRQ_OFFSET + l]]
  /\ GoTo(to)
  /\ UNCHANGED <<firmware, acpi, pic, lapic, n, high, entry, io_apic_id, edge>>

WriteHigh(l, dest, from, to) ==
  /\ pc = from
  /\ high' = [high EXCEPT ![l] = dest]
  /\ GoTo(to)
  /\ UNCHANGED <<firmware, acpi, pic, lapic, n, low, io_apic_id, edge>>

\* Mutant: the loop leaves the mask bit clear.
MaskLowOpen == entry < MaxEntry /\ WriteLow(entry, "no", "mask_low", "mask_high")

\* What get_max_amount_of_redirection_entries reads is the largest index.
MaskLow == entry < MaxEntry /\ WriteLow(entry, "yes", "mask_low", "mask_high")

\* Mutant: the loop does not advance.
MaskHighStuck == WriteHigh(entry, 0, "mask_high", "mask_low") /\ UNCHANGED entry

MaskHigh == WriteHigh(entry, 0, "mask_high", "mask_low") /\ entry' = entry + 1

MaskDone ==
  /\ pc = "mask_low"
  /\ entry >= MaxEntry
  /\ GoTo("keyboard_low")
  /\ UNCHANGED <<firmware, acpi, apic, edge>>

KeyboardLow  == WriteLow(Keyboard, "no", "keyboard_low", "keyboard_high")
KeyboardHigh == /\ WriteHigh(Keyboard, apic_info.processor_id, "keyboard_high", "mouse_low")
                /\ UNCHANGED entry
MouseLow     == WriteLow(Mouse, "no", "mouse_low", "mouse_high")
MouseHigh    == /\ WriteHigh(Mouse, apic_info.processor_id, "mouse_high", "enabled")
                /\ UNCHANGED entry

(***************************************************************************)
(* The hardware.                                                           *)
(***************************************************************************)
DeliveryDone ==
  /\ lapic["icr_low"] = "pending"
  /\ lapic' = [lapic EXCEPT !["icr_low"] = "sent"]
  /\ UNCHANGED <<firmware, pc, acpi, pic, n, low, high, entry, io_apic_id, edge>>

Redirecting == {"keyboard_low", "keyboard_high", "mouse_low", "mouse_high", "enabled"}

\* A local APIC takes an interrupt if it is on and its priority admits it.
Accepts == lapic["spurious"] = "enabled" /\ lapic["task_priority"] = "zero"

Edge(l) ==
  /\ low[l].masked = "no"
  /\ edge' = [line   |-> l,
              vector |-> low[l].vector,
              dest   |-> high[l],
              since  |-> IF pc \in Redirecting THEN "masked" ELSE "boot",
              taken  |-> IF Accepts THEN "yes" ELSE "no"]
  /\ UNCHANGED <<firmware, pc, acpi, apic>>

\* The 8259 interrupts through the local APIC's LINT0, with a vector of its own.
PicEdge ==
  /\ pic = "open"
  /\ lapic["lint0"] = "extint"
  /\ edge' = [NoEdge EXCEPT !.vector = 8,
                            !.since = IF pc \in Redirecting THEN "masked" ELSE "boot"]
  /\ UNCHANGED <<firmware, pc, acpi, apic>>

Over == pc \in {"enabled", "panicked"} /\ UNCHANGED vars

ApicStep ==
  \/ DisablePic \/ LocalApicWrite \/ LocalApicReady \/ CheckId
  \/ MaskLow \/ MaskHigh \/ MaskDone
  \/ KeyboardLow \/ KeyboardHigh \/ MouseLow \/ MouseHigh

Next ==
  \/ AcpiStep /\ UNCHANGED <<apic, edge>>
  \/ ApicStep
  \/ DeliveryDone
  \/ \E l \in Lines : Edge(l)
  \/ PicEdge
  \/ Over

Spec == Init /\ [][Next]_vars

\* The CPU executes its program, and the bus delivers the message it waits for.
FairSpec ==
  /\ Spec
  /\ WF_vars((AcpiStep /\ UNCHANGED <<apic, edge>>) \/ ApicStep)
  /\ WF_vars(DeliveryDone)

-----------------------------------------------------------------------------
(***************************************************************************)
(* Properties                                                              *)
(***************************************************************************)

\* The tables hold what the kernel needs: the MADT that counts is the last one.
Complete ==
  /\ RsdpIsValid
  /\ XsdtIsValid
  /\ \E k \in 1 .. Len(firmware.tables) : Validates(k, "FADT")
  /\ \E k \in 1 .. Len(firmware.tables) :
       /\ Validates(k, "MADT")
       /\ \A j \in k + 1 .. Len(firmware.tables) : ~ Validates(j, "MADT")
       /\ EntriesOf("LocalApic", k) # << >>
       /\ EntriesOf("IoApic", k) # << >>
       /\ EntriesOf("IoApic", k)[1].id = io_apic_id % 16

\* The kernel panics exactly when the tables lack what it needs, wherever in the
\* XSDT and in the MADT it stands (acpi.rs:104-138, 163-207, interrupts.rs:138).
PanicsIfIncomplete ==
  /\ pc = "panicked" => ~ Complete
  /\ pc = "enabled" => Complete

\* Once the loop has masked the table, every edge that passes it, also between
\* the two writes of an entry, has a vector with a handler, is taken by a local
\* APIC that is ready, and goes to the CPU of the MADT or to CPU 0; except the
\* edges of the last line, which the loop leaves out (interrupts.rs:83-164).
RedirectedEdgesHandled ==
  edge.since = "masked" /\ edge.line # MaxEntry =>
    /\ edge.line \in {Keyboard, Mouse}
    /\ edge.vector \in IDT
    /\ edge.taken = "yes"
    /\ edge.dest \in {0, apic_info.processor_id}

\* Every boot ends with interrupts enabled or in a panic, if the message the
\* kernel waits for without a bound is delivered (interrupts.rs:121-122).
BootEnds == <>(pc \in {"enabled", "panicked"})

\* interrupts.rs:142, before the loop: "Mark all interrupts edge-triggered, active
\* high, disabled, and not routed to any CPUs."
AllMasked == pc = "keyboard_low" => \A l \in Lines : low[l].masked = "yes"
=============================================================================
