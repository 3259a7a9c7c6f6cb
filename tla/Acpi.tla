-------------------------------- MODULE Acpi --------------------------------
(***************************************************************************)
(* acpi::init (kernel/src/acpi.rs) as main calls it: from the RSDP address *)
(* of the boot information to the ApicInfo that interrupts::init reads.    *)
(*                                                                         *)
(* The tables are the firmware's.  A table is its signature, whether its   *)
(* checksum and header are valid, and for a MADT its entries in order.     *)
(***************************************************************************)
EXTENDS Integers, Sequences

CONSTANTS
  Firmwares,      \* what the firmware may have left in memory
  ProcessorIds    \* the ids that occur in MADT entries

Entry == [kind : {"LocalApic", "IoApic", "Other"}, id : ProcessorIds]
Table == [signature : {"FADT", "MADT", "Other"}, valid : BOOLEAN, entries : Seq(Entry)]
Firmware == [rsdp : {"none", "invalid", "valid"}, xsdt : {"invalid", "valid"},
             tables : Seq(Table)]

ASSUME ProcessorIdAssumption == ProcessorIds \subseteq Nat
ASSUME FirmwareAssumption == Firmwares \subseteq Firmware

VARIABLES
  firmware,            \* never changed
  pc,                  \* the step about to be executed
  i,                   \* acpi::init: index of the table to look at
  fadt_ptr, madt_ptr,  \* index of a table, 0 for the null pointer
  apic_info            \* what from_madt found

acpi == <<i, fadt_ptr, madt_ptr, apic_info>>

NoInfo == [io_apic_id |-> -1, processor_id |-> -1]

AcpiInit ==
  /\ firmware \in Firmwares
  /\ pc = "rsdp"
  /\ i = 1
  /\ fadt_ptr = 0
  /\ madt_ptr = 0
  /\ apic_info = NoInfo

GoTo(label) == pc' = label

RsdpIsValid == firmware.rsdp = "valid"
XsdtIsValid == firmware.xsdt = "valid"

\* main panics without an RSDP, init with one that is_valid refuses.
CheckRsdp ==
  /\ pc = "rsdp"
  /\ GoTo(IF RsdpIsValid THEN "xsdt" ELSE "panicked")
  /\ UNCHANGED <<firmware, acpi>>

CheckXsdt ==
  /\ pc = "xsdt"
  /\ GoTo(IF XsdtIsValid THEN "tables" ELSE "panicked")
  /\ UNCHANGED <<firmware, acpi>>

\* Mutant: count leaves out the last table.
count_short == Len(firmware.tables) - 1

count == Len(firmware.tables)

Validates(k, signature) ==
  firmware.tables[k].valid /\ firmware.tables[k].signature = signature

\* One iteration: a later table replaces an earlier one.
FindTable ==
  /\ pc = "tables"
  /\ i <= count
  /\ fadt_ptr' = IF Validates(i, "FADT") THEN i ELSE fadt_ptr
  /\ madt_ptr' = IF Validates(i, "MADT") THEN i ELSE madt_ptr
  /\ i' = i + 1
  /\ UNCHANGED <<firmware, pc, apic_info>>

TablesDone ==
  /\ pc = "tables"
  /\ i > count
  /\ GoTo(IF fadt_ptr = 0 \/ madt_ptr = 0 THEN "panicked" ELSE "madt")
  /\ UNCHANGED <<firmware, acpi>>

\* find_map: the entries of a kind, of which from_madt takes the first one.
OfKind(kind, entries) == SelectSeq(entries, LAMBDA e : e.kind = kind)
EntriesOf(kind, k) == OfKind(kind, firmware.tables[k].entries)

FromMadt ==
  /\ pc = "madt"
  /\ LET io    == EntriesOf("IoApic", madt_ptr)
         local == EntriesOf("LocalApic", madt_ptr)
     IN  IF io = << >> \/ local = << >>
           THEN GoTo("panicked") /\ UNCHANGED apic_info
           ELSE /\ apic_info' = [io_apic_id   |-> io[1].id,
                                 processor_id |-> local[1].id]
                /\ GoTo("pic")
  /\ UNCHANGED <<firmware, i, fadt_ptr, madt_ptr>>

AcpiStep == CheckRsdp \/ CheckXsdt \/ FindTable \/ TablesDone \/ FromMadt
=============================================================================
