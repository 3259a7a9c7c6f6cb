--------------------------- MODULE ApicInitProofs ---------------------------
(***************************************************************************)
(* The set-up of the interrupt controllers, for every firmware, every size *)
(* of the redirection table and every pair of lines: the kernel panics     *)
(* exactly when the tables lack what it needs, and once the table is       *)
(* masked every edge that passes it is handled.                            *)
(*                                                                         *)
(* The two results have inductive invariants of their own.  AcpiInv is     *)
(* about what acpi::init has found; ApicInv about the registers written    *)
(* since, and about the edge.                                              *)
(***************************************************************************)
EXTENDS ApicInit, TLAPS

USE LineAssumption, VectorAssumption, IoApicIdAssumption, FirmwareAssumption

\* The program counter, by what the kernel knows when it is there.
Masking    == {"mask_low", "mask_high"}
IdChecked  == Masking \union Redirecting
MadtRead   == IdChecked \union {"pic", "local", "check_id"}
TablesRead == MadtRead \union {"madt"}

-----------------------------------------------------------------------------
(***************************************************************************)
(* acpi::init.                                                             *)
(***************************************************************************)
\* The tables before index m lack a valid one of this signature after table k.
NoneAfter(k, m, signature) == \A j \in k + 1 .. m - 1 : ~ Validates(j, signature)

\* ptr is the last valid table of this signature before index m, or null.
LastBefore(ptr, m, signature) ==
  /\ ptr # 0 => ptr \in 1 .. m - 1 /\ Validates(ptr, signature)
  /\ NoneAfter(ptr, m, signature)

PointersInv ==
  /\ firmware \in Firmware
  /\ i \in 1 .. count + 1
  /\ fadt_ptr \in Nat /\ madt_ptr \in Nat
  /\ LastBefore(fadt_ptr, i, "FADT")
  /\ LastBefore(madt_ptr, i, "MADT")

Found ==
  /\ EntriesOf("IoApic", madt_ptr) # << >>
  /\ EntriesOf("LocalApic", madt_ptr) # << >>
  /\ apic_info.io_apic_id = EntriesOf("IoApic", madt_ptr)[1].id

ProgressInv ==
  /\ pc \in {"rsdp", "xsdt", "tables", "panicked"} \union TablesRead
  /\ pc \in {"xsdt", "tables"} \union TablesRead => RsdpIsValid
  /\ pc \in {"tables"} \union TablesRead => XsdtIsValid
  /\ pc \in TablesRead => i = count + 1 /\ fadt_ptr # 0 /\ madt_ptr # 0
  /\ pc \in MadtRead => Found
  /\ pc \in IdChecked => apic_info.io_apic_id = io_apic_id % 16
  /\ pc = "panicked" => ~ Complete

AcpiInv == PointersInv /\ ProgressInv

LEMMA CountIsNat == firmware \in Firmware => count \in Nat
BY DEF Firmware, count

\* The firmware's tables are not written, so neither is what is read from them.
LEMMA FirmwareKept ==
  ASSUME firmware' = firmware
  PROVE  /\ count' = count /\ RsdpIsValid' = RsdpIsValid /\ XsdtIsValid' = XsdtIsValid
         /\ \A k, s : Validates(k, s)' = Validates(k, s)
         /\ \A k, s : EntriesOf(s, k)' = EntriesOf(s, k)
<1>1. count' = count /\ RsdpIsValid' = RsdpIsValid /\ XsdtIsValid' = XsdtIsValid
  BY DEF count, RsdpIsValid, XsdtIsValid
<1>2. \A k, s : Validates(k, s)' = Validates(k, s)
  BY DEF Validates
<1>3. \A k, s : EntriesOf(s, k)' = EntriesOf(s, k)
  BY DEF EntriesOf
<1> QED  BY <1>1, <1>2, <1>3

LEMMA CompleteKept ==
  firmware' = firmware /\ io_apic_id' = io_apic_id => Complete' = Complete
BY DEF Complete, RsdpIsValid, XsdtIsValid, Validates, EntriesOf

\* When the tables are read the MADT that counts is the one found.
LEMMA MadtIsLast ==
  ASSUME PointersInv, i = count + 1, madt_ptr # 0, Complete
  PROVE  /\ EntriesOf("LocalApic", madt_ptr) # << >>
         /\ EntriesOf("IoApic", madt_ptr) # << >>
         /\ EntriesOf("IoApic", madt_ptr)[1].id = io_apic_id % 16
<1>1. count \in Nat /\ count = Len(firmware.tables)
  BY CountIsNat DEF PointersInv, count
<1>2. PICK k \in 1 .. count :
        /\ Validates(k, "MADT")
        /\ \A j \in k + 1 .. count : ~ Validates(j, "MADT")
        /\ EntriesOf("LocalApic", k) # << >>
        /\ EntriesOf("IoApic", k) # << >>
        /\ EntriesOf("IoApic", k)[1].id = io_apic_id % 16
  BY <1>1 DEF Complete
<1>3. /\ madt_ptr \in 1 .. count
      /\ Validates(madt_ptr, "MADT")
      /\ \A j \in madt_ptr + 1 .. count : ~ Validates(j, "MADT")
  BY <1>1 DEF PointersInv, LastBefore, NoneAfter
<1>4. k = madt_ptr
  BY <1>1, <1>2, <1>3
<1> QED  BY <1>2, <1>4

LEMMA AcpiInvInit == Init => AcpiInv
<1> SUFFICES ASSUME Init PROVE AcpiInv
  OBVIOUS
<1>1. firmware \in Firmware /\ count \in Nat
  BY CountIsNat DEF Init, AcpiInit
<1>2. PointersInv
  BY <1>1 DEF Init, AcpiInit, PointersInv, LastBefore, NoneAfter
<1>3. ProgressInv
  BY DEF Init, AcpiInit, ProgressInv, TablesRead, MadtRead, IdChecked, Masking, Redirecting
<1> QED  BY <1>2, <1>3 DEF AcpiInv

LEMMA CheckRsdpKeeps == AcpiInv /\ CheckRsdp /\ UNCHANGED apic => AcpiInv'
<1> SUFFICES ASSUME AcpiInv, CheckRsdp, UNCHANGED apic PROVE AcpiInv'
  OBVIOUS
<1> USE DEF AcpiInv
<1>0. firmware' = firmware /\ io_apic_id' = io_apic_id /\ UNCHANGED acpi
  BY DEF CheckRsdp, apic
<1>1. PointersInv'
  BY <1>0, FirmwareKept DEF PointersInv, LastBefore, NoneAfter, acpi
<1>2. ProgressInv'
  BY <1>0, FirmwareKept, CompleteKept
     DEF ProgressInv, CheckRsdp, GoTo, Complete, TablesRead, MadtRead, IdChecked, Masking,
         Redirecting
<1> QED  BY <1>1, <1>2

LEMMA CheckXsdtKeeps == AcpiInv /\ CheckXsdt /\ UNCHANGED apic => AcpiInv'
<1> SUFFICES ASSUME AcpiInv, CheckXsdt, UNCHANGED apic PROVE AcpiInv'
  OBVIOUS
<1> USE DEF AcpiInv
<1>0. firmware' = firmware /\ io_apic_id' = io_apic_id /\ UNCHANGED acpi
  BY DEF CheckXsdt, apic
<1>1. PointersInv'
  BY <1>0, FirmwareKept DEF PointersInv, LastBefore, NoneAfter, acpi
<1>2. ProgressInv'
  BY <1>0, FirmwareKept, CompleteKept
     DEF ProgressInv, CheckXsdt, GoTo, Complete, TablesRead, MadtRead, IdChecked, Masking,
         Redirecting
<1> QED  BY <1>1, <1>2

LEMMA FindTableKeeps == AcpiInv /\ FindTable /\ UNCHANGED apic => AcpiInv'
<1> SUFFICES ASSUME AcpiInv, FindTable, UNCHANGED apic PROVE AcpiInv'
  OBVIOUS
<1> USE DEF AcpiInv
<1>0. firmware' = firmware /\ io_apic_id' = io_apic_id /\ pc' = pc /\ pc = "tables"
  BY DEF FindTable, apic
<1>1. count \in Nat /\ i \in 1 .. count
  BY CountIsNat DEF PointersInv, FindTable
<1>2. PointersInv'
  <2>1. ASSUME NEW ptr \in Nat, NEW s, LastBefore(ptr, i, s)
        PROVE  LastBefore(IF Validates(i, s) THEN i ELSE ptr, i + 1, s)
    <3>1. CASE Validates(i, s)
      BY <3>1, <1>1 DEF LastBefore, NoneAfter
    <3>2. CASE ~ Validates(i, s)
      BY <3>2, <2>1, <1>1 DEF LastBefore, NoneAfter
    <3> QED  BY <3>1, <3>2
  <2>2. /\ fadt_ptr' \in Nat /\ LastBefore(fadt_ptr, i, "FADT")'
        /\ madt_ptr' \in Nat /\ LastBefore(madt_ptr, i, "MADT")'
    <3> DEFINE f == IF Validates(i, "FADT") THEN i ELSE fadt_ptr
               m == IF Validates(i, "MADT") THEN i ELSE madt_ptr
    <3>1. LastBefore(f, i + 1, "FADT") /\ LastBefore(m, i + 1, "MADT")
      BY <2>1 DEF PointersInv
    <3>2. fadt_ptr' = f /\ madt_ptr' = m /\ i' = i + 1
      BY DEF FindTable
    <3>3. f \in Nat /\ m \in Nat
      BY <1>1 DEF PointersInv
    <3> HIDE DEF f, m
    <3> QED  BY <3>1, <3>2, <3>3, <1>0, FirmwareKept DEF LastBefore, NoneAfter
  <2>4. i' \in 1 .. count' + 1 /\ (firmware \in Firmware)'
    BY <1>0, <1>1, FirmwareKept DEF FindTable, PointersInv
  <2> QED  BY <2>2, <2>4 DEF PointersInv
<1>3. ProgressInv'
  BY <1>0, FirmwareKept, CompleteKept
     DEF ProgressInv, TablesRead, MadtRead, IdChecked, Masking, Redirecting
<1> QED  BY <1>2, <1>3

LEMMA TablesDoneKeeps == AcpiInv /\ TablesDone /\ UNCHANGED apic => AcpiInv'
<1> SUFFICES ASSUME AcpiInv, TablesDone, UNCHANGED apic PROVE AcpiInv'
  OBVIOUS
<1> USE DEF AcpiInv
<1>0. firmware' = firmware /\ io_apic_id' = io_apic_id /\ UNCHANGED acpi
  BY DEF TablesDone, apic
<1>1. count \in Nat /\ count = Len(firmware.tables) /\ i = count + 1
  BY CountIsNat DEF PointersInv, TablesDone, count
<1>2. PointersInv'
  BY <1>0, FirmwareKept DEF PointersInv, LastBefore, NoneAfter, acpi
<1>3. fadt_ptr = 0 \/ madt_ptr = 0 => ~ Complete
  BY <1>1 DEF PointersInv, LastBefore, NoneAfter, Complete
<1>4. ProgressInv'
  BY <1>0, <1>1, <1>3, FirmwareKept, CompleteKept
     DEF ProgressInv, TablesDone, GoTo, TablesRead, MadtRead, IdChecked, Masking,
         Redirecting, acpi
<1> QED  BY <1>2, <1>4

LEMMA FromMadtKeeps == AcpiInv /\ FromMadt /\ UNCHANGED apic => AcpiInv'
<1> SUFFICES ASSUME AcpiInv, FromMadt, UNCHANGED apic PROVE AcpiInv'
  OBVIOUS
<1> USE DEF AcpiInv
<1> DEFINE io == EntriesOf("IoApic", madt_ptr)
           local == EntriesOf("LocalApic", madt_ptr)
<1>0. /\ firmware' = firmware /\ io_apic_id' = io_apic_id
      /\ i' = i /\ fadt_ptr' = fadt_ptr /\ madt_ptr' = madt_ptr
  BY DEF FromMadt, apic
<1>1. i = count + 1 /\ fadt_ptr # 0 /\ madt_ptr # 0 /\ RsdpIsValid /\ XsdtIsValid
  BY DEF ProgressInv, FromMadt, TablesRead
<1>2. PointersInv'
  BY <1>0, FirmwareKept DEF PointersInv, LastBefore, NoneAfter
<1>3. CASE io = << >> \/ local = << >>
  <2>1. pc' = "panicked" /\ ~ Complete
    BY <1>1, <1>3, MadtIsLast DEF FromMadt, GoTo
  <2>2. ProgressInv'
    BY <2>1, <1>0, CompleteKept
       DEF ProgressInv, TablesRead, MadtRead, IdChecked, Masking, Redirecting
  <2> QED  BY <2>2, <1>2
<1>4. CASE ~ (io = << >> \/ local = << >>)
  <2>1. pc' = "pic" /\ apic_info'.io_apic_id = io[1].id
    BY <1>4 DEF FromMadt, GoTo
  <2>2. Found'
    BY <2>1, <1>4, <1>0, FirmwareKept DEF Found
  <2>3. ProgressInv'
    BY <2>1, <2>2, <1>0, <1>1, FirmwareKept
       DEF ProgressInv, TablesRead, MadtRead, IdChecked, Masking, Redirecting
  <2> QED  BY <2>3, <1>2
<1> QED  BY <1>3, <1>4

LEMMA CheckIdKeeps == AcpiInv /\ CheckId => AcpiInv'
<1> SUFFICES ASSUME AcpiInv, CheckId PROVE AcpiInv'
  OBVIOUS
<1> USE DEF AcpiInv
<1>0. firmware' = firmware /\ io_apic_id' = io_apic_id /\ UNCHANGED acpi
  BY DEF CheckId, apic
<1>1. i = count + 1 /\ fadt_ptr # 0 /\ madt_ptr # 0 /\ RsdpIsValid /\ XsdtIsValid /\ Found
  BY DEF ProgressInv, CheckId, TablesRead, MadtRead
<1>2. PointersInv'
  BY <1>0, FirmwareKept DEF PointersInv, LastBefore, NoneAfter, acpi
<1>3. io_apic_id % 16 # apic_info.io_apic_id => ~ Complete
  BY <1>1, MadtIsLast DEF Found
<1>4. Found'
  BY <1>0, <1>1, FirmwareKept DEF Found, acpi
<1>5. ProgressInv'
  BY <1>0, <1>1, <1>3, <1>4, FirmwareKept, CompleteKept
     DEF ProgressInv, CheckId, GoTo, TablesRead, MadtRead, IdChecked, Masking, Redirecting,
         acpi
<1> QED  BY <1>2, <1>5

\* The other steps move the program counter only to where no more is known.
Quiet ==
  /\ UNCHANGED <<firmware, acpi, io_apic_id>>
  /\ \/ pc' = pc
     \/ pc = "pic" /\ pc' = "local"
     \/ pc = "local" /\ pc' = "check_id"
     \/ pc \in IdChecked /\ pc' \in IdChecked

LEMMA QuietKeeps == AcpiInv /\ Quiet => AcpiInv'
<1> SUFFICES ASSUME AcpiInv, Quiet PROVE AcpiInv'
  OBVIOUS
<1> USE DEF AcpiInv
<1>0. firmware' = firmware /\ io_apic_id' = io_apic_id /\ UNCHANGED acpi
  BY DEF Quiet
<1>1. PointersInv'
  BY <1>0, FirmwareKept DEF PointersInv, LastBefore, NoneAfter, acpi
<1>2. Found' = Found
  BY <1>0, FirmwareKept DEF Found, acpi
<1>3. ProgressInv'
  BY <1>0, <1>2, FirmwareKept, CompleteKept
     DEF ProgressInv, Quiet, TablesRead, MadtRead, IdChecked, Masking, Redirecting, acpi
<1> QED  BY <1>1, <1>3

LEMMA OtherStepsAreQuiet ==
  \/ DisablePic \/ LocalApicWrite \/ LocalApicReady
  \/ MaskLow \/ MaskHigh \/ MaskDone
  \/ KeyboardLow \/ KeyboardHigh \/ MouseLow \/ MouseHigh
  \/ DeliveryDone \/ (\E l \in Lines : Edge(l)) \/ PicEdge \/ UNCHANGED vars
  => Quiet
<1> USE DEF Quiet, GoTo, acpi, apic
<1>1. DisablePic \/ LocalApicWrite \/ LocalApicReady => Quiet
  BY DEF DisablePic, LocalApicWrite, LocalApicReady
<1>2. ASSUME NEW l, NEW m, NEW from \in IdChecked, NEW to \in IdChecked, WriteLow(l, m, from, to)
      PROVE  Quiet
  BY <1>2 DEF WriteLow
<1>3. ASSUME NEW l, NEW d, NEW from \in IdChecked, NEW to \in IdChecked, WriteHigh(l, d, from, to)
      PROVE  Quiet
  BY <1>3 DEF WriteHigh
<1>4. {"mask_low", "mask_high", "keyboard_low", "keyboard_high", "mouse_low", "mouse_high",
       "enabled"} \subseteq IdChecked
  BY DEF IdChecked, Masking, Redirecting
<1>5. MaskLow \/ MaskHigh => Quiet
  BY <1>2, <1>3, <1>4 DEF MaskLow, MaskHigh
<1>6. MaskDone => Quiet
  BY <1>4 DEF MaskDone
<1>7. KeyboardLow \/ MouseLow => Quiet
  BY <1>2, <1>4 DEF KeyboardLow, MouseLow
<1>8. KeyboardHigh \/ MouseHigh => Quiet
  BY <1>3, <1>4 DEF KeyboardHigh, MouseHigh
<1>9. DeliveryDone \/ (\E l \in Lines : Edge(l)) \/ PicEdge \/ UNCHANGED vars => Quiet
  BY DEF DeliveryDone, Edge, PicEdge, vars
<1> QED  BY <1>1, <1>5, <1>6, <1>7, <1>8, <1>9

LEMMA AcpiInvStep == AcpiInv /\ [Next]_vars => AcpiInv'
<1> SUFFICES ASSUME AcpiInv, [Next]_vars PROVE AcpiInv'
  OBVIOUS
<1>1. CASE AcpiStep /\ UNCHANGED <<apic, edge>>
  BY <1>1, CheckRsdpKeeps, CheckXsdtKeeps, FindTableKeeps, TablesDoneKeeps, FromMadtKeeps
     DEF AcpiStep
<1>2. CASE CheckId
  BY <1>2, CheckIdKeeps
<1>3. CASE Quiet
  BY <1>3, QuietKeeps
<1> QED  BY <1>1, <1>2, <1>3, OtherStepsAreQuiet DEF Next, ApicStep, Over

\* The kernel panics exactly when the firmware's tables lack what it needs
\* (acpi.rs:104-138, 163-207, interrupts.rs:138), for every number of tables, in
\* every order, with any entries.
THEOREM PanicsExplained == Spec => []PanicsIfIncomplete
<1>1. AcpiInv => PanicsIfIncomplete
  <2> SUFFICES ASSUME AcpiInv, pc = "enabled" PROVE Complete
    BY DEF AcpiInv, ProgressInv, PanicsIfIncomplete
  <2>1. /\ count \in Nat /\ count = Len(firmware.tables) /\ i = count + 1
        /\ fadt_ptr # 0 /\ madt_ptr # 0
        /\ RsdpIsValid /\ XsdtIsValid /\ Found /\ apic_info.io_apic_id = io_apic_id % 16
    BY CountIsNat
       DEF AcpiInv, PointersInv, ProgressInv, count, TablesRead, MadtRead, IdChecked, Redirecting
  <2>2. /\ fadt_ptr \in 1 .. count /\ Validates(fadt_ptr, "FADT")
        /\ madt_ptr \in 1 .. count /\ Validates(madt_ptr, "MADT")
        /\ \A j \in madt_ptr + 1 .. count : ~ Validates(j, "MADT")
    BY <2>1 DEF AcpiInv, PointersInv, LastBefore, NoneAfter
  <2> QED  BY <2>1, <2>2 DEF Complete, Found
<1> QED  BY <1>1, AcpiInvInit, AcpiInvStep, PTL DEF Spec

-----------------------------------------------------------------------------
(***************************************************************************)
(* The registers and the edge.  A line the loop has passed stays masked    *)
(* until its entry is written for good; the local APIC is ready before the *)
(* first entry is; and an edge that counts as one since the masking leaves *)
(* no way back to where apic_info changes.                                 *)
(***************************************************************************)
\* What a register of the local APIC may hold.
Values == {"boot", "disabled", "enabled", "extint", "high", "masked", "pending", "sent",
           "vector", "zero"}

RegistersInv ==
  /\ lapic \in [Registers -> Values]
  /\ n \in 0 .. 12
  /\ n >= 2 => lapic["spurious"] = "enabled"
  /\ n >= 12 => lapic["task_priority"] = "zero"
  /\ pc \in IdChecked \union {"check_id"} => n = 12
  /\ pc \in IdChecked \union {"local", "check_id"} => pic = "masked"

TableInv ==
  /\ low \in [Lines -> Low]
  /\ high = [l \in Lines |-> high[l]]
  /\ entry \in 0 .. MaxEntry
  /\ pc = "mask_high" => entry < MaxEntry

\* The loop has cleared the destinations it has passed.
DestInv ==
  /\ pc \notin Redirecting => \A l \in 0 .. entry - 1 : high[l] = 0
  /\ pc \in Redirecting => \A l \in 0 .. MaxEntry - 1 : high[l] \in {0, apic_info.processor_id}

MaskedInv ==
  /\ pc \notin Redirecting => \A l \in 0 .. entry - 1 : low[l].masked = "yes"
  /\ pc = "mask_high" => low[entry].masked = "yes"
  /\ pc \in Redirecting =>
       \A l \in 0 .. MaxEntry - 1 :
         low[l].masked = "no" =>
           l \in {Keyboard, Mouse} /\ low[l].vector = EXTERNAL_IRQ_OFFSET + l

EdgeInv == edge.since = "masked" => pc \in Redirecting

ApicInv ==
  RegistersInv /\ TableInv /\ DestInv /\ MaskedInv /\ EdgeInv /\ RedirectedEdgesHandled

\* The writes to the local APIC: what the second and the last one write, and that
\* no later one undoes them.
LEMMA LocalWrites ==
  /\ Len(LocalApicWrites) = 12
  /\ \A m \in 1 .. 12 :
       /\ LocalApicWrites[m][1] \in Registers /\ LocalApicWrites[m][2] \in Values
       /\ LocalApicWrites[m][1] = "spurious" <=> m = 2
       /\ LocalApicWrites[m][1] = "task_priority" <=> m = 12
  /\ LocalApicWrites[2][2] = "enabled" /\ LocalApicWrites[12][2] = "zero"
<1>1. Len(LocalApicWrites) = 12
  BY DEF LocalApicWrites
<1>2. LocalApicWrites[2][2] = "enabled" /\ LocalApicWrites[12][2] = "zero"
  BY DEF LocalApicWrites
<1>3. ASSUME NEW m \in 1 .. 12
      PROVE  /\ LocalApicWrites[m][1] \in Registers /\ LocalApicWrites[m][2] \in Values
             /\ LocalApicWrites[m][1] = "spurious" <=> m = 2
             /\ LocalApicWrites[m][1] = "task_priority" <=> m = 12
  <2> USE DEF LocalApicWrites, Registers, Values
  <2>1. CASE m = 1
    BY <2>1
  <2>2. CASE m = 2
    BY <2>2
  <2>3. CASE m = 3
    BY <2>3
  <2>4. CASE m = 4
    BY <2>4
  <2>5. CASE m = 5
    BY <2>5
  <2>6. CASE m = 6
    BY <2>6
  <2>7. CASE m = 7
    BY <2>7
  <2>8. CASE m = 8
    BY <2>8
  <2>9. CASE m = 9
    BY <2>9
  <2>10. CASE m = 10
    BY <2>10
  <2>11. CASE m = 11
    BY <2>11
  <2>12. CASE m = 12
    BY <2>12
  <2> QED
    BY <2>1, <2>2, <2>3, <2>4, <2>5, <2>6, <2>7, <2>8, <2>9, <2>10, <2>11, <2>12, SMTT(20)
<1> QED  BY <1>1, <1>2, <1>3

LEMMA ApicInvInit == Init => ApicInv
<1> SUFFICES ASSUME Init PROVE ApicInv
  OBVIOUS
<1> USE DEF IdChecked, Masking, Redirecting
<1>0. pc = "rsdp"
  BY DEF Init, AcpiInit
<1>1. RegistersInv
  <2>1. lapic \in [Registers -> Values]
    BY DEF Init, BootRegisters, Values
  <2> QED  BY <2>1, <1>0 DEF Init, RegistersInv
<1>2. TableInv
  <2>1. PICK table \in [Lines -> OldEntries] : /\ low = [l \in Lines |-> table[l].low]
                                               /\ high = [l \in Lines |-> table[l].high]
    BY DEF Init
  <2>2. low \in [Lines -> Low] /\ high = [l \in Lines |-> high[l]]
    BY <2>1, VectorAssumption
  <2> QED  BY <1>0, <2>2, LineAssumption DEF Init, TableInv
<1>3. DestInv /\ MaskedInv
  BY <1>0 DEF Init, DestInv, MaskedInv
<1>4. EdgeInv /\ RedirectedEdgesHandled
  BY DEF Init, EdgeInv, RedirectedEdgesHandled, NoEdge
<1> QED  BY <1>1, <1>2, <1>3, <1>4 DEF ApicInv

\* The steps up to the loop write neither the table nor the edge, and do not come
\* from where the table is masked.
LEMMA AcpiStepKeeps == ApicInv /\ AcpiStep /\ UNCHANGED <<apic, edge>> => ApicInv'
<1> SUFFICES ASSUME ApicInv, AcpiStep, UNCHANGED <<apic, edge>> PROVE ApicInv'
  OBVIOUS
<1> USE DEF ApicInv, IdChecked, Masking, Redirecting, apic
<1>1. /\ pc \in {"rsdp", "xsdt", "tables", "madt"}
      /\ pc' \in {"rsdp", "xsdt", "tables", "madt", "pic", "panicked"}
  BY DEF AcpiStep, CheckRsdp, CheckXsdt, FindTable, TablesDone, FromMadt, GoTo
<1>2. RegistersInv'
  BY <1>1 DEF RegistersInv
<1>3. TableInv'
  BY <1>1 DEF TableInv
<1>4. DestInv' /\ MaskedInv'
  BY <1>1 DEF DestInv, MaskedInv
<1>5. EdgeInv' /\ RedirectedEdgesHandled'
  BY <1>1 DEF EdgeInv, RedirectedEdgesHandled
<1> QED  BY <1>2, <1>3, <1>4, <1>5

LEMMA LocalApicKeeps ==
  ApicInv /\ (DisablePic \/ LocalApicWrite \/ LocalApicReady \/ CheckId) => ApicInv'
<1> SUFFICES ASSUME ApicInv, DisablePic \/ LocalApicWrite \/ LocalApicReady \/ CheckId
             PROVE  ApicInv'
  OBVIOUS
<1> USE DEF ApicInv, IdChecked, Masking, Redirecting, apic, acpi
<1>1. /\ pc \in {"pic", "local", "check_id"}
      /\ pc' \in {"local", "check_id", "mask_low", "panicked"}
      /\ UNCHANGED <<low, high, entry, edge, apic_info>>
  BY DEF DisablePic, LocalApicWrite, LocalApicReady, CheckId, GoTo
<1>2. RegistersInv'
  <2>1. CASE DisablePic
    BY <2>1 DEF DisablePic, GoTo, RegistersInv
  <2>2. CASE LocalApicWrite
    <3> DEFINE register == LocalApicWrites[n + 1][1]
               value == LocalApicWrites[n + 1][2]
    <3>1. n \in 0 .. 11 /\ n' = n + 1 /\ pc' = pc /\ pic' = pic /\ pc = "local"
      BY <2>2, LocalWrites DEF LocalApicWrite, RegistersInv
    <3>2. /\ register \in Registers /\ value \in Values
          /\ lapic' = [lapic EXCEPT ![register] = value]
      BY <2>2, <3>1, LocalWrites DEF LocalApicWrite
    <3>3. lapic' \in [Registers -> Values]
      BY <3>2 DEF RegistersInv
    <3>4. n + 1 >= 2 => lapic'["spurious"] = "enabled"
      <4>1. "spurious" \in Registers
        BY DEF Registers
      <4>2. CASE n = 1
        BY <4>1, <4>2, <3>2, LocalWrites DEF RegistersInv
      <4>3. CASE n # 1
        BY <4>1, <4>3, <3>1, <3>2, LocalWrites DEF RegistersInv
      <4> QED  BY <4>2, <4>3
    <3>5. n + 1 >= 12 => lapic'["task_priority"] = "zero"
      <4>1. "task_priority" \in Registers
        BY DEF Registers
      <4> QED  BY <4>1, <3>1, <3>2, LocalWrites DEF RegistersInv
    <3> QED  BY <3>1, <3>3, <3>4, <3>5 DEF RegistersInv
  <2>3. CASE LocalApicReady
    BY <2>3, LocalWrites DEF LocalApicReady, GoTo, RegistersInv
  <2>4. CASE CheckId
    BY <2>4 DEF CheckId, GoTo, RegistersInv
  <2> QED  BY <2>1, <2>2, <2>3, <2>4
<1>3. TableInv'
  BY <1>1 DEF TableInv
<1>4. DestInv' /\ MaskedInv'
  BY <1>1 DEF DestInv, MaskedInv
<1>5. EdgeInv' /\ RedirectedEdgesHandled'
  BY <1>1 DEF EdgeInv, RedirectedEdgesHandled
<1> QED  BY <1>2, <1>3, <1>4, <1>5

LEMMA MaskLoopKeeps == ApicInv /\ (MaskLow \/ MaskHigh \/ MaskDone) => ApicInv'
<1> SUFFICES ASSUME ApicInv, MaskLow \/ MaskHigh \/ MaskDone PROVE ApicInv'
  OBVIOUS
<1> USE DEF ApicInv, IdChecked, Masking, Redirecting, apic, acpi
<1>1. /\ pc \in {"mask_low", "mask_high"}
      /\ pc' \in {"mask_low", "mask_high", "keyboard_low"}
      /\ UNCHANGED <<pic, lapic, n, edge, apic_info>>
  BY DEF MaskLow, MaskHigh, MaskDone, WriteLow, WriteHigh, GoTo
<1>2. RegistersInv'
  BY <1>1 DEF RegistersInv
<1>3. EdgeInv' /\ RedirectedEdgesHandled'
  BY <1>1 DEF EdgeInv, RedirectedEdgesHandled
<1>4. CASE MaskLow
  <2> DEFINE v == [masked |-> "yes", vector |-> EXTERNAL_IRQ_OFFSET + entry]
  <2>1. /\ entry \in Lines /\ entry < MaxEntry /\ v \in Low
        /\ pc' = "mask_high" /\ low' = [low EXCEPT ![entry] = v]
        /\ UNCHANGED <<high, entry>> /\ pc = "mask_low"
    BY <1>4 DEF MaskLow, WriteLow, GoTo, TableInv, Lines, Low
  <2>2. TableInv'
    <3>1. low' \in [Lines -> Low]
      BY <2>1 DEF TableInv
    <3> QED  BY <3>1, <2>1 DEF TableInv
  <2>3. DestInv'
    BY <2>1 DEF DestInv
  <2>4. MaskedInv'
    BY <2>1 DEF MaskedInv, TableInv, Lines
  <2> QED  BY <2>2, <2>3, <2>4, <1>2, <1>3
<1>5. CASE MaskHigh
  <2>1. /\ entry \in 0 .. MaxEntry - 1
        /\ pc = "mask_high" /\ pc' = "mask_low" /\ low' = low
        /\ high' = [high EXCEPT ![entry] = 0] /\ entry' = entry + 1
    BY <1>5 DEF MaskHigh, WriteHigh, GoTo, TableInv
  <2>2. TableInv'
    <3>1. high' = [l \in Lines |-> high'[l]]
      BY <2>1 DEF TableInv
    <3> QED  BY <3>1, <2>1 DEF TableInv
  <2>3. DestInv'
    <3>1. \A l \in 0 .. entry : l \in Lines /\ high'[l] = IF l = entry THEN 0 ELSE high[l]
      BY <2>1 DEF TableInv, Lines
    <3> QED  BY <3>1, <2>1 DEF DestInv
  <2>4. MaskedInv'
    BY <2>1 DEF MaskedInv
  <2> QED  BY <2>2, <2>3, <2>4, <1>2, <1>3
<1>6. CASE MaskDone
  <2>1. /\ entry = MaxEntry /\ pc = "mask_low" /\ pc' = "keyboard_low"
        /\ UNCHANGED <<low, high, entry>>
    BY <1>6 DEF MaskDone, GoTo, TableInv
  <2>2. TableInv'
    BY <2>1, <1>1 DEF TableInv
  <2>3. DestInv' /\ MaskedInv'
    BY <2>1 DEF DestInv, MaskedInv
  <2> QED  BY <2>2, <2>3, <1>2, <1>3
<1> QED  BY <1>4, <1>5, <1>6

LEMMA RedirectKeeps ==
  ApicInv /\ (KeyboardLow \/ KeyboardHigh \/ MouseLow \/ MouseHigh) => ApicInv'
<1> SUFFICES ASSUME ApicInv, KeyboardLow \/ KeyboardHigh \/ MouseLow \/ MouseHigh
             PROVE  ApicInv'
  OBVIOUS
<1> USE DEF ApicInv, IdChecked, Masking, Redirecting, apic, acpi
<1>1. /\ pc \in Redirecting /\ pc' \in Redirecting
      /\ UNCHANGED <<pic, lapic, n, edge, entry, apic_info>>
  BY DEF KeyboardLow, KeyboardHigh, MouseLow, MouseHigh, WriteLow, WriteHigh, GoTo
<1>2. RegistersInv'
  BY <1>1 DEF RegistersInv
<1>3. EdgeInv' /\ RedirectedEdgesHandled'
  BY <1>1 DEF EdgeInv, RedirectedEdgesHandled
<1>4. CASE KeyboardLow \/ MouseLow
  <2>1. PICK l \in {Keyboard, Mouse} :
          /\ low' = [low EXCEPT ![l] = [masked |-> "no", vector |-> EXTERNAL_IRQ_OFFSET + l]]
          /\ high' = high
    BY <1>4 DEF KeyboardLow, MouseLow, WriteLow
  <2>2. l \in Lines /\ [masked |-> "no", vector |-> EXTERNAL_IRQ_OFFSET + l] \in Low
    BY DEF Lines, Low
  <2>3. TableInv'
    BY <2>1, <2>2, <1>1 DEF TableInv
  <2>4. MaskedInv'
    <3>1. low \in [Lines -> Low] /\ pc \in Redirecting
      BY <1>1 DEF TableInv
    <3>2. ASSUME NEW m \in 0 .. MaxEntry - 1, low'[m].masked = "no"
          PROVE  m \in {Keyboard, Mouse} /\ low'[m].vector = EXTERNAL_IRQ_OFFSET + m
      <4>1. m \in Lines
        BY DEF Lines
      <4>2. CASE m = l
        BY <4>1, <4>2, <3>1, <2>1
      <4>3. CASE m # l
        <5>1. low'[m] = low[m]
          BY <4>1, <4>3, <3>1, <2>1
        <5> QED  BY <5>1, <3>1, <3>2 DEF MaskedInv
      <4> QED  BY <4>2, <4>3
    <3> QED  BY <3>2, <1>1 DEF MaskedInv
  <2>5. DestInv'
    BY <2>1, <1>1 DEF DestInv
  <2> QED  BY <2>3, <2>4, <2>5, <1>2, <1>3
<1>5. CASE KeyboardHigh \/ MouseHigh
  <2>1. PICK l \in {Keyboard, Mouse} :
          high' = [high EXCEPT ![l] = apic_info.processor_id] /\ low' = low
    BY <1>5 DEF KeyboardHigh, MouseHigh, WriteHigh
  <2>2. TableInv'
    BY <2>1, <1>1 DEF TableInv
  <2>3. DestInv'
    <3>1. \A m \in 0 .. MaxEntry - 1 :
            m \in Lines /\ high'[m] = IF m = l THEN apic_info.processor_id ELSE high[m]
      BY <2>1 DEF TableInv, Lines
    <3> QED  BY <3>1, <1>1 DEF DestInv
  <2>4. MaskedInv'
    BY <2>1, <1>1 DEF MaskedInv
  <2> QED  BY <2>2, <2>3, <2>4, <1>2, <1>3
<1> QED  BY <1>4, <1>5

LEMMA DeliveryKeeps == ApicInv /\ DeliveryDone => ApicInv'
<1> SUFFICES ASSUME ApicInv, DeliveryDone PROVE ApicInv'
  OBVIOUS
<1> USE DEF ApicInv, acpi
<1>1. RegistersInv'
  <2>1. {"spurious", "task_priority", "icr_low"} \subseteq Registers
    BY DEF Registers
  <2>2. lapic' = [lapic EXCEPT !["icr_low"] = "sent"] /\ UNCHANGED <<pc, n, pic>>
    BY DEF DeliveryDone
  <2>3. /\ lapic' \in [Registers -> Values]
        /\ lapic'["spurious"] = lapic["spurious"]
        /\ lapic'["task_priority"] = lapic["task_priority"]
    BY <2>1, <2>2 DEF RegistersInv, Values
  <2> QED  BY <2>2, <2>3 DEF RegistersInv
<1>2. TableInv' /\ DestInv' /\ MaskedInv'
  BY DEF DeliveryDone, TableInv, DestInv, MaskedInv
<1>3. EdgeInv' /\ RedirectedEdgesHandled'
  BY DEF DeliveryDone, EdgeInv, RedirectedEdgesHandled
<1> QED  BY <1>1, <1>2, <1>3

\* A line is raised at any time, also between the two writes of its entry.
LEMMA EdgeKeeps == ASSUME NEW l \in Lines PROVE ApicInv /\ Edge(l) => ApicInv'
<1> SUFFICES ASSUME ApicInv, Edge(l) PROVE ApicInv'
  OBVIOUS
<1> USE DEF ApicInv, acpi, apic
<1>1. RegistersInv' /\ TableInv' /\ DestInv' /\ MaskedInv'
  BY DEF Edge, RegistersInv, TableInv, DestInv, MaskedInv
<1>2. EdgeInv'
  BY DEF Edge, EdgeInv
<1>3. RedirectedEdgesHandled'
  <2> SUFFICES ASSUME edge'.since = "masked", edge'.line # MaxEntry
               PROVE  /\ edge'.line \in {Keyboard, Mouse}
                      /\ edge'.vector \in IDT
                      /\ edge'.taken = "yes"
                      /\ edge'.dest \in {0, apic_info.processor_id}
    BY DEF Edge, RedirectedEdgesHandled
  <2>1. /\ pc \in Redirecting /\ low[l].masked = "no" /\ l # MaxEntry
        /\ edge'.line = l /\ edge'.vector = low[l].vector /\ edge'.dest = high[l]
        /\ edge'.taken = IF Accepts THEN "yes" ELSE "no"
    BY DEF Edge
  <2>2. l \in {Keyboard, Mouse} /\ low[l].vector \in IDT
    BY <2>1 DEF MaskedInv, Lines, IDT
  <2>3. Accepts
    BY <2>1 DEF Accepts, RegistersInv, IdChecked
  <2>4. high[l] \in {0, apic_info.processor_id}
    BY <2>1 DEF DestInv, Lines
  <2> QED  BY <2>1, <2>2, <2>3, <2>4
<1> QED  BY <1>1, <1>2, <1>3

LEMMA PicEdgeKeeps == ApicInv /\ PicEdge => ApicInv'
<1> SUFFICES ASSUME ApicInv, PicEdge PROVE ApicInv'
  OBVIOUS
<1> USE DEF ApicInv, acpi, apic
<1>1. RegistersInv' /\ TableInv' /\ DestInv' /\ MaskedInv'
  BY DEF PicEdge, RegistersInv, TableInv, DestInv, MaskedInv
<1>2. pc \notin Redirecting
  BY DEF PicEdge, RegistersInv, IdChecked
<1>3. edge'.since = "boot"
  BY <1>2 DEF PicEdge, NoEdge
<1>4. EdgeInv' /\ RedirectedEdgesHandled'
  BY <1>3 DEF EdgeInv, RedirectedEdgesHandled
<1> QED  BY <1>1, <1>4

LEMMA ApicInvStep == ApicInv /\ [Next]_vars => ApicInv'
<1> SUFFICES ASSUME ApicInv, [Next]_vars PROVE ApicInv'
  OBVIOUS
<1>1. CASE UNCHANGED vars
  BY <1>1
     DEF ApicInv, RegistersInv, TableInv, DestInv, MaskedInv, EdgeInv, RedirectedEdgesHandled,
         vars, apic, acpi
<1> QED
  BY <1>1, AcpiStepKeeps, LocalApicKeeps, MaskLoopKeeps, RedirectKeeps, DeliveryKeeps,
     EdgeKeeps, PicEdgeKeeps
     DEF Next, ApicStep, Over

\* Once the loop has masked the table, every edge that passes it, also between the
\* two writes of an entry, has a handler and is taken (interrupts.rs:83-164), for
\* every size of the table, wherever the keyboard's and the mouse's lines are and
\* whatever the firmware left in the registers.
THEOREM EdgesHandled == Spec => []RedirectedEdgesHandled
<1>1. ApicInv => RedirectedEdgesHandled
  BY DEF ApicInv
<1> QED  BY <1>1, ApicInvInit, ApicInvStep, PTL DEF Spec
=============================================================================
