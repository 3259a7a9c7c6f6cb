----------------------------- MODULE BootProofs -----------------------------
(***************************************************************************)
(* The boot, for every memory, kernel file, firmware and machine: a kernel *)
(* loaded to the pages allocated for it is kept, BootInfo is read in time, *)
(* and every end of the boot has its reason.                               *)
(***************************************************************************)
EXTENDS Boot, FiniteSetTheorems, TLAPS

USE SizeAssumption

\* The descriptors of a memory map: one for each page the firmware lists.
PageDescriptor ==
  [phys_start : Listed, page_count : {1}, ty : PageType \union {"LOADER_DATA"}]

\* The segment is complete in memory.
Complete(j) ==
  \A p \in L!BytesOf(program_headers[j]) :
    memory[p] = L!SegmentByte(program_headers[j], p - program_headers[j].p_vaddr)

(***************************************************************************)
(* The inductive invariant.                                                *)
(***************************************************************************)
\* The loader and the map have pages the firmware held to be free, and not the
\* same ones.
FirmwareInv ==
  /\ machine \in SUBSET Parts
  /\ page_type \in [Pages -> PageType]
  /\ boot_page \in Pages /\ page_type[boot_page] = "BOOT_SERVICES_DATA"
  /\ available \subseteq Pages /\ allocated \subseteq Pages
  /\ \A p \in available \union allocated : page_type[p] = "CONVENTIONAL"
  /\ available \intersect allocated = {}

\* What is not in a segment was not written, the map's page excepted; a segment
\* that was copied stays complete, unless another one or the map is copied to it.
LoaderInv ==
  /\ program_headers \in Elves
  /\ loader_pc \in {"extent", "allocate", "copy", "run", "panicked"}
  /\ k \in Nat \ {0}
  /\ DOMAIN memory = Pages
  /\ loader_pc = "run" => k > Len(program_headers)

WrittenInv == \A p \in Pages : memory[p] # Old => p \in KernelPages \/ p = map_page

CopyStands ==
  /\ loader_pc \in {"copy", "run"}
  /\ SegmentsApart
  /\ map_page = -1 \/ KernelPages \subseteq allocated

CopiedInv ==
  CopyStands => \A j \in L!LoadSegments : j < k => Complete(j)

\* The map is written when the loader is through, and lists every page the
\* loader allocated as its own, and every reserved page as reserved.
MapInv ==
  /\ memory_map \in Seq(PageDescriptor)
  /\ map_page # -1 =>
       /\ loader_pc = "run"
       /\ map_page \in available
       /\ memory[map_page] = MapBytes
       /\ \A p \in allocated : \E n \in DOMAIN memory_map :
            memory_map[n].phys_start = p /\ memory_map[n].ty = "LOADER_DATA"
       /\ \A p \in Pages : page_type[p] = "RESERVED" =>
            \E n \in DOMAIN memory_map :
              memory_map[n].phys_start = p /\ memory_map[n].ty = "RESERVED"

\* The loop of mem_manager().init has marked the loader's pages it has met, and
\* has met no reserved one past the bitmap.
ManagerInv ==
  /\ manager_pc \in {"init", "ready", "panicked"}
  /\ manager_pc # "init" => map_page # -1
  /\ idx \in Nat \ {0}
  /\ last_available_end \in Nat
  /\ \A n \in 1 .. idx - 1 :
       n \in DOMAIN memory_map /\ memory_map[n].ty = "LOADER_DATA" =>
         memory_map[n].phys_start \in alloc_map
  /\ \A n \in 1 .. idx - 1 :
       n \in DOMAIN memory_map /\ memory_map[n].ty = "RESERVED" =>
         memory_map[n].phys_start < FRAME_COUNT
  /\ manager_pc = "ready" => idx > Len(memory_map)
  /\ manager_pc = "panicked" => \E p \in Listed : p >= FRAME_COUNT

\* A stage that was reached needs what the stages before it did.
StageInv ==
  /\ stage \in {"open_gop", "load_elf", "exit_boot_services"} => map_page = -1 /\ idx = 1
  /\ stage = "exit_boot_services" => loader_pc = "run"
  /\ stage = "_start" \/ InMain => map_page # -1
  /\ stage \notin Ended \union {"message", "panic"} => manager_pc = "init"
  /\ stage = "message" => manager_pc = "ready"
  /\ stage = "panic" => manager_pc = "panicked"

Bootloader == {"open_gop", "load_elf", "exit_boot_services", "_start"}
LateMain   == {"acpi", "ps2", "interrupts", "memory", "message", "idle"}

PartsInv ==
  /\ stage \in Bootloader \union {MainOrder[n] : n \in DOMAIN MainOrder} \union Ended
                \union {"panic"}
  /\ stage \notin {"open_gop", "halted", "crashed"} => {"gop", "format", "file"} \subseteq machine
  /\ stage \in {"gdt", "paging", "pci", "rsdp"} \union LateMain => "screen" \in machine
  /\ stage \in {"rsdp"} \union LateMain => "pci" \in machine
  /\ stage \in LateMain => {"rsdp", "frame_buffer_mapped"} \subseteq machine
  /\ stage \in LateMain \ {"acpi"} => {"acpi", "acpi_mapped"} \subseteq machine
  /\ stage \in LateMain \ {"acpi", "ps2"} => "ps2" \in machine
  /\ stage \in LateMain \ {"acpi", "ps2", "interrupts"} => "io_apic" \in machine
  /\ stage \in LateMain => boot_page < MAPPED_COUNT
  /\ stage \in {"message", "idle"} => map_page < MAPPED_COUNT

IInv ==
  /\ FirmwareInv /\ LoaderInv /\ WrittenInv /\ CopiedInv /\ MapInv /\ ManagerInv
  /\ StageInv /\ PartsInv /\ OutcomeExplained

-----------------------------------------------------------------------------
\* The pages that are listed have the places from 1 to their number, each its own.
LEMMA Places ==
  /\ IsFiniteSet(Listed) /\ Cardinality(Listed) \in Nat
  /\ \A p \in Listed : Place(p) \in 1 .. Cardinality(Listed) /\ PageAt(Place(p)) = p
  /\ \A n \in 1 .. Cardinality(Listed) : PageAt(n) \in Listed
<1> DEFINE N == Cardinality(Listed)
           Below(p) == {q \in Listed : q < p}
<1>1. IsFiniteSet(Listed) /\ N \in Nat
  <2>1. IsFiniteSet(Pages)
    BY FS_Interval DEF Pages
  <2> QED  BY <2>1, FS_Subset, FS_CardinalityType DEF Listed
<1>2. Listed \subseteq Int
  BY DEF Listed, Pages
<1>3. \A p \in Listed : IsFiniteSet(Below(p)) /\ Cardinality(Below(p)) \in Nat
  BY <1>1, FS_Subset, FS_CardinalityType
<1>4. ASSUME NEW p \in Listed PROVE Cardinality(Below(p)) < N
  <2>1. Below(p) \in SUBSET Listed /\ p \notin Below(p)
    BY <1>2
  <2>2. Cardinality(Below(p)) <= N /\ Cardinality(Below(p)) # N
    BY <1>1, <2>1, FS_Subset
  <2> QED  BY <1>1, <1>3, <2>2
<1>5. ASSUME NEW p \in Listed, NEW q \in Listed, p < q
      PROVE  Cardinality(Below(p)) < Cardinality(Below(q))
  <2>1. Below(p) \in SUBSET Below(q) /\ p \in Below(q) /\ p \notin Below(p)
    <3>1. ASSUME NEW x \in Below(p) PROVE x \in Below(q)
      <4>1. x \in Int /\ p \in Int /\ q \in Int /\ x < p
        BY <1>2
      <4> QED  BY <1>5, <4>1
    <3>2. p \in Below(q)
      BY <1>5
    <3>3. p \notin Below(p)
      BY <1>2
    <3>4. Below(p) \in SUBSET Below(q)
      BY <3>1
    <3> QED  BY <3>2, <3>3, <3>4
  <2>2. /\ Cardinality(Below(p)) <= Cardinality(Below(q))
        /\ Cardinality(Below(p)) # Cardinality(Below(q))
    BY <1>3, <2>1, FS_Subset
  <2> QED  BY <1>3, <2>2
<1>6. \A p \in Listed : Place(p) \in 1 .. N
  <2>1. \A p \in Listed : Place(p) = 1 + Cardinality(Below(p))
    BY DEF Place
  <2> HIDE DEF Below
  <2> QED  BY <1>1, <1>3, <1>4, <2>1
<1>7. \A p, q \in Listed : Place(p) = Place(q) => p = q
  BY <1>2, <1>3, <1>5 DEF Place
<1>8. \A p \in Listed : PageAt(Place(p)) = p
  BY <1>7 DEF PageAt
<1>9. ASSUME NEW n \in 1 .. N PROVE \E p \in Listed : Place(p) = n
  <2> DEFINE place == [p \in Listed |-> Place(p)]
  <2>1. place \in Injection(Listed, 1 .. N)
    BY <1>6, <1>7 DEF Injection, IsInjective
  <2>2. IsFiniteSet(1 .. N) /\ Cardinality(1 .. N) = N
    BY <1>1, FS_Interval
  <2>3. place \in Surjection(Listed, 1 .. N)
    BY <2>1, <2>2, FS_Injection
  <2> QED  BY <2>3 DEF Surjection
<1>10. \A n \in 1 .. N : PageAt(n) \in Listed
  BY <1>9 DEF PageAt
<1> QED  BY <1>1, <1>6, <1>8, <1>10

\* A segment lies in memory.
LEMMA HeaderTypes ==
  ASSUME program_headers \in Elves
  PROVE  /\ Len(program_headers) \in Nat
         /\ \A j \in DOMAIN program_headers :
              /\ j \in 1 .. Len(program_headers)
              /\ program_headers[j] \in L!ProgramHeader
              /\ L!BytesOf(program_headers[j]) \subseteq Pages
<1>1. program_headers \in Seq(L!ProgramHeader)
  BY ElvesAssumption
<1>2. ASSUME NEW j \in DOMAIN program_headers
      PROVE  /\ j \in 1 .. Len(program_headers)
             /\ program_headers[j] \in L!ProgramHeader
             /\ program_headers[j].p_vaddr + program_headers[j].p_memsz <= PageCount
  BY <1>1, <1>2, ElvesAssumption
<1>3. ASSUME NEW header \in L!ProgramHeader, header.p_vaddr + header.p_memsz <= PageCount
      PROVE  L!BytesOf(header) \subseteq Pages
  BY <1>3 DEF L!ProgramHeader, L!BytesOf, Pages
<1> QED  BY <1>1, <1>2, <1>3

\* The stages of main.
LEMMA MainStages ==
  /\ DOMAIN MainOrder = 1 .. 11
  /\ {MainOrder[n] : n \in DOMAIN MainOrder} =
       {"frame_buffer", "console", "gdt", "paging", "pci", "rsdp", "acpi", "ps2",
        "interrupts", "memory", "message"}
BY DEF MainOrder

\* The order of main's steps.
LEMMA Positions ==
  /\ Position("frame_buffer") = 1 /\ Position("console") = 2 /\ Position("gdt") = 3
  /\ Position("paging") = 4 /\ Position("pci") = 5 /\ Position("rsdp") = 6
  /\ Position("acpi") = 7 /\ Position("ps2") = 8 /\ Position("interrupts") = 9
  /\ Position("memory") = 10 /\ Position("message") = 11
BY DEF Position, MainOrder

LEMMA InvInit == Init => IInv
<1> SUFFICES ASSUME Init PROVE IInv
  OBVIOUS
<1> USE DEF Init, L!Init, M!Init
<1>1. FirmwareInv
  BY LayoutsAssumption, MachinesAssumption DEF FirmwareInv, Pages
<1>2. LoaderInv /\ WrittenInv
  BY DEF LoaderInv, WrittenInv, L!Addresses, Pages
<1>3. CopiedInv /\ ManagerInv
  BY DEF CopiedInv, CopyStands, ManagerInv
<1>4. MapInv
  BY DEF MapInv
<1>5. StageInv /\ PartsInv
  BY MainStages DEF InMain, StageInv, PartsInv, Ended, Bootloader, LateMain
<1>6. OutcomeExplained
  BY DEF OutcomeExplained
<1> QED  BY <1>1, <1>2, <1>3, <1>4, <1>5, <1>6 DEF IInv

\* What depends only on variables that a step leaves alone.
LEMMA MemoryKept ==
  ASSUME FirmwareInv, LoaderInv, WrittenInv, CopiedInv, MapInv, ManagerInv,
         UNCHANGED <<map_page, firmware, loader, manager>>
  PROVE  (FirmwareInv /\ LoaderInv /\ WrittenInv /\ CopiedInv /\ MapInv /\ ManagerInv)'
<1> USE DEF firmware, loader, manager
<1>1. FirmwareInv' /\ LoaderInv'
  BY DEF FirmwareInv, LoaderInv
<1>2. UNCHANGED <<KernelPages, SegmentsApart, L!LoadSegments>>
  BY DEF KernelPages, Segments, SegmentsApart, L!LoadSegments
<1>3. WrittenInv' /\ CopiedInv'
  BY <1>2 DEF WrittenInv, CopiedInv, CopyStands, Complete
<1>4. Listed' = Listed /\ PageDescriptor' = PageDescriptor
  BY DEF Listed, PageDescriptor
<1>5. MapInv' /\ ManagerInv'
  BY <1>4 DEF MapInv, ManagerInv
<1> QED  BY <1>1, <1>3, <1>5

\* The reasons of an end do not go away.
LEMMA ReasonsKept ==
  ASSUME UNCHANGED <<map_page, firmware, loader, manager>>
  PROVE  /\ Overwritten' = Overwritten
         /\ UNCHANGED <<machine, loader_pc, available, map_page, page_type, boot_page,
                        manager_pc>>
<1> USE DEF firmware, loader, manager
<1>1. KernelIntact' = KernelIntact
  BY DEF KernelIntact, Segments, L!LoadSegments
<1> QED  BY <1>1 DEF Overwritten

\* The sets of stages, and main's order, written out.
LEMMA StageTables ==
  /\ Ended = {"idle", "halted", "crashed"}
  /\ Bootloader = {"open_gop", "load_elf", "exit_boot_services", "_start"}
  /\ LateMain = {"acpi", "ps2", "interrupts", "memory", "message", "idle"}
  /\ MainOrder[1] = "frame_buffer" /\ MainOrder[2] = "console" /\ MainOrder[3] = "gdt"
  /\ MainOrder[4] = "paging" /\ MainOrder[5] = "pci" /\ MainOrder[6] = "rsdp"
  /\ MainOrder[7] = "acpi" /\ MainOrder[8] = "ps2" /\ MainOrder[9] = "interrupts"
  /\ MainOrder[10] = "memory" /\ MainOrder[11] = "message" /\ Len(MainOrder) = 11
BY DEF Ended, Bootloader, LateMain, MainOrder

\* An end of the boot asks for nothing of the machine.
LEMMA EndedStage == stage' \in {"halted", "crashed"} => StageInv' /\ PartsInv'
BY MainStages, StageTables DEF InMain, StageInv, PartsInv

\* The steps before main, and the faults: they only choose the next stage.
LEMMA BootloaderStartKeeps == IInv /\ BootloaderStart => IInv'
<1> SUFFICES ASSUME IInv, BootloaderStart PROVE IInv'
  OBVIOUS
<1> USE DEF BootloaderStart
<1>1. (FirmwareInv /\ LoaderInv /\ WrittenInv /\ CopiedInv /\ MapInv /\ ManagerInv)'
  BY MemoryKept DEF IInv
<1>2. UNCHANGED <<map_page, idx, loader_pc, manager_pc, machine, page_type, boot_page, event>>
  BY DEF firmware, loader, manager
<1>3. StageInv'
  BY <1>2, MainStages, StageTables DEF InMain, IInv, StageInv
<1>4. PartsInv'
  BY <1>2, MainStages, StageTables DEF InMain, IInv, PartsInv
<1>5. OutcomeExplained'
  BY <1>2 DEF OutcomeExplained, Parts
<1> QED  BY <1>1, <1>3, <1>4, <1>5 DEF IInv

LEMMA NoPageForMapKeeps == IInv /\ NoPageForMap => IInv'
<1> SUFFICES ASSUME IInv, NoPageForMap PROVE IInv'
  OBVIOUS
<1> USE DEF NoPageForMap
<1>1. (FirmwareInv /\ LoaderInv /\ WrittenInv /\ CopiedInv /\ MapInv /\ ManagerInv)'
  BY MemoryKept DEF IInv
<1>2. UNCHANGED <<map_page, idx, loader_pc, manager_pc, machine, available, event>>
  BY DEF firmware, loader, manager
<1>3. StageInv' /\ PartsInv'
  BY EndedStage
<1>5. OutcomeExplained'
  BY <1>2 DEF OutcomeExplained
<1> QED  BY <1>1, <1>3, <1>5 DEF IInv

LEMMA StartKeeps == IInv /\ _start => IInv'
<1> SUFFICES ASSUME IInv, _start PROVE IInv'
  OBVIOUS
<1> USE DEF _start
<1>1. (FirmwareInv /\ LoaderInv /\ WrittenInv /\ CopiedInv /\ MapInv /\ ManagerInv)'
  BY MemoryKept DEF IInv
<1>2. UNCHANGED <<map_page, idx, loader_pc, manager_pc, machine, page_type, boot_page, event>>
  BY DEF firmware, loader, manager
<1>3. StageInv'
  BY <1>2, MainStages, StageTables DEF InMain, IInv, StageInv
<1>4. PartsInv'
  BY <1>2, MainStages, StageTables DEF InMain, IInv, PartsInv
<1>5. OutcomeExplained'
  BY <1>2 DEF OutcomeExplained
<1> QED  BY <1>1, <1>3, <1>4, <1>5 DEF IInv

LEMMA MapNotMappedKeeps == IInv /\ MapNotMapped => IInv'
<1> SUFFICES ASSUME IInv, MapNotMapped PROVE IInv'
  OBVIOUS
<1> USE DEF MapNotMapped
<1>1. (FirmwareInv /\ LoaderInv /\ WrittenInv /\ CopiedInv /\ MapInv /\ ManagerInv)'
  BY MemoryKept DEF IInv
<1>2. StageInv' /\ PartsInv'
  BY EndedStage
<1>3. OutcomeExplained'
  BY DEF OutcomeExplained
<1> QED  BY <1>1, <1>2, <1>3 DEF IInv

LEMMA CrashKeeps == IInv /\ Crash => IInv'
<1> SUFFICES ASSUME IInv, Crash PROVE IInv'
  OBVIOUS
<1> USE DEF Crash
<1>1. (FirmwareInv /\ LoaderInv /\ WrittenInv /\ CopiedInv /\ MapInv /\ ManagerInv)'
  BY MemoryKept DEF IInv
<1>2. StageInv' /\ PartsInv'
  BY EndedStage
<1>3. OutcomeExplained'
  BY ReasonsKept DEF OutcomeExplained
<1> QED  BY <1>1, <1>2, <1>3 DEF IInv

\* The step after each step of main.
LEMMA NextStages ==
  /\ stage = "frame_buffer" => NextStage = "console"
  /\ stage = "console" => NextStage = "gdt"
  /\ stage = "gdt" => NextStage = "paging"
  /\ stage = "paging" => NextStage = "pci"
  /\ stage = "pci" => NextStage = "rsdp"
  /\ stage = "rsdp" => NextStage = "acpi"
  /\ stage = "acpi" => NextStage = "ps2"
  /\ stage = "ps2" => NextStage = "interrupts"
  /\ stage = "interrupts" => NextStage = "memory"
  /\ stage = "memory" => NextStage = "message"
  /\ stage = "message" => NextStage = "idle"
BY Positions, StageTables DEF NextStage

\* A manager that is ready has met every reserved page below the bitmap's end.
LEMMA ReadyBelow ==
  ASSUME MapInv, ManagerInv, manager_pc = "ready"
  PROVE  \A p \in Pages : page_type[p] = "RESERVED" => p < FRAME_COUNT
<1> SUFFICES ASSUME NEW p \in Pages, page_type[p] = "RESERVED" PROVE p < FRAME_COUNT
  OBVIOUS
<1>1. PICK m \in DOMAIN memory_map :
        memory_map[m].phys_start = p /\ memory_map[m].ty = "RESERVED"
  BY DEF MapInv, ManagerInv
<1>2. m \in 1 .. idx - 1
  BY DEF MapInv, ManagerInv
<1> QED  BY <1>1, <1>2 DEF ManagerInv

\* A step of main returns only if the parts it needs are there, and at the end of
\* main nothing is missing.
LEMMA MainStepKeeps == IInv /\ MainStep => IInv'
<1> SUFFICES ASSUME IInv, MainStep PROVE IInv'
  OBVIOUS
<1>1. (FirmwareInv /\ LoaderInv /\ WrittenInv /\ CopiedInv /\ MapInv /\ ManagerInv)'
  BY MemoryKept DEF IInv, MainStep
<1>2. UNCHANGED <<map_page, idx, loader_pc, manager_pc, machine, page_type, boot_page, event>>
  BY DEF MainStep, firmware, loader, manager
<1>3. stage \in {"frame_buffer", "console", "gdt", "paging", "pci", "rsdp", "acpi", "ps2",
                 "interrupts", "message"}
  BY MainStages DEF MainStep, InMain
<1>4. /\ map_page # -1
      /\ stage # "message" => manager_pc = "init"
      /\ stage = "message" => manager_pc = "ready"
  BY <1>3, StageTables DEF IInv, StageInv, MainStep
<1>5. PartsInv
  BY DEF IInv
<1>6. CASE stage = "console" /\ "screen" \notin machine
  <2>1. stage' = "crashed"
    BY <1>6 DEF MainStep, Panics, Prints
  <2>2. OutcomeExplained'
    BY <1>2, <1>6, <2>1 DEF OutcomeExplained
  <2> QED  BY <1>1, <2>1, <2>2, EndedStage DEF IInv
<1>7. CASE ~ (stage = "console" /\ "screen" \notin machine) /\ (Panics \/ Prints) /\ ~ CanPrint
  <2>1. stage' = "crashed"
    BY <1>7 DEF MainStep, Panics, Prints, PanicEnd
  <2>2. "frame_buffer_mapped" \notin machine'
    BY <1>2, <1>7 DEF CanPrint
  <2>3. OutcomeExplained'
    BY <2>1, <2>2 DEF OutcomeExplained
  <2> QED  BY <1>1, <2>1, <2>3, EndedStage DEF IInv
<1>8. CASE /\ ~ (stage = "console" /\ "screen" \notin machine)
           /\ ~ ((Panics \/ Prints) /\ ~ CanPrint)
           /\ Panics
  <2>1. stage' = "halted"
    BY <1>8 DEF MainStep, Panics, Prints, PanicEnd
  <2>2. machine' # Parts
    BY <1>2, <1>8 DEF Panics, Parts
  <2>3. OutcomeExplained'
    BY <2>1, <2>2 DEF OutcomeExplained
  <2> QED  BY <1>1, <2>1, <2>3, EndedStage DEF IInv
<1>9. CASE /\ ~ (stage = "console" /\ "screen" \notin machine)
           /\ ~ ((Panics \/ Prints) /\ ~ CanPrint)
           /\ ~ Panics
  <2>1. stage' = NextStage
    BY <1>9 DEF MainStep
  <2>2. /\ stage' \in {"console", "gdt", "paging", "pci", "rsdp", "acpi", "ps2",
                       "interrupts", "memory", "idle"}
        /\ stage' = "idle" <=> stage = "message"
    BY <1>3, <2>1, NextStages
  <2>3. StageInv'
    BY <1>2, <1>4, <2>2, StageTables DEF StageInv
  <2>4. stage = "rsdp" => "frame_buffer_mapped" \in machine
    BY <1>9, Positions DEF Prints, CanPrint, After
  <2>5. /\ stage = "rsdp" => boot_page < MAPPED_COUNT
        /\ stage = "acpi" => "acpi_mapped" \in machine
    <3>1. boot_page \in Int
      BY DEF IInv, FirmwareInv, Pages
    <3> QED  BY <1>9, <3>1 DEF MainStep, ReadsUnmapped
  <2>6. PartsInv'
    BY <1>2, <1>3, <1>5, <1>9, <2>1, <2>4, <2>5, NextStages, MainStages, StageTables
    DEF PartsInv, Panics
  <2>7. ASSUME stage' = "idle" PROVE OutcomeExplained'
    <3>1. machine' = Parts
      <4>1. machine' \in SUBSET Parts
        BY <1>1 DEF FirmwareInv
      <4> QED  BY <2>6, <2>7, <4>1, StageTables DEF PartsInv, Parts
    <3>2. boot_page' < MAPPED_COUNT /\ map_page' < MAPPED_COUNT
      BY <2>6, <2>7, StageTables DEF PartsInv
    <3>3. \A p \in Pages : page_type'[p] = "RESERVED" => p < FRAME_COUNT
      BY <1>2, <1>4, <2>2, <2>7, ReadyBelow DEF IInv
    <3> QED  BY <2>7, <3>1, <3>2, <3>3 DEF OutcomeExplained
  <2>8. OutcomeExplained'
    BY <2>2, <2>7 DEF OutcomeExplained
  <2> QED  BY <1>1, <2>3, <2>6, <2>8 DEF IInv
<1> QED  BY <1>6, <1>7, <1>8, <1>9

\* A fault before the kernel has its IDT.
LEMMA PageFaultKeeps == IInv /\ PageFault => IInv'
<1> SUFFICES ASSUME IInv, PageFault PROVE IInv'
  OBVIOUS
<1> USE DEF PageFault
<1>1. (FirmwareInv /\ LoaderInv /\ WrittenInv /\ CopiedInv /\ MapInv /\ ManagerInv)'
  BY MemoryKept DEF IInv
<1>2. StageInv' /\ PartsInv'
  BY EndedStage
<1>3. boot_page' >= MAPPED_COUNT \/ "acpi_mapped" \notin machine'
  BY DEF ReadsUnmapped, firmware
<1>4. OutcomeExplained'
  BY <1>3 DEF OutcomeExplained
<1> QED  BY <1>1, <1>2, <1>4 DEF IInv

\* The panic of mem_manager().init keeps its reason while it is printed.
LEMMA PanicPrintedKeeps == IInv /\ PanicPrinted => IInv'
<1> SUFFICES ASSUME IInv, PanicPrinted PROVE IInv'
  OBVIOUS
<1> USE DEF PanicPrinted
<1>1. (FirmwareInv /\ LoaderInv /\ WrittenInv /\ CopiedInv /\ MapInv /\ ManagerInv)'
  BY MemoryKept DEF IInv
<1>2. StageInv' /\ PartsInv'
  BY EndedStage
<1>3. \E p \in Listed : p >= FRAME_COUNT
  BY DEF IInv, StageInv, ManagerInv
<1>4. \E p \in Pages : p >= FRAME_COUNT /\ page_type'[p] # "NONE"
  BY <1>3 DEF Listed, firmware
<1>5. OutcomeExplained'
  BY <1>4 DEF OutcomeExplained
<1> QED  BY <1>1, <1>2, <1>5 DEF IInv

(***************************************************************************)
(* What comes from outside is a reason of its own.                         *)
(***************************************************************************)
LEMMA OutsideKeeps == IInv /\ Outside => IInv'
<1> SUFFICES ASSUME IInv, Outside PROVE IInv'
  OBVIOUS
<1>1. UNCHANGED <<map_page, firmware, loader, manager>>
  BY DEF Outside, Ps2Disturbed, HandlerInPrint, StrayInterrupt
<1>2. (FirmwareInv /\ LoaderInv /\ WrittenInv /\ CopiedInv /\ MapInv /\ ManagerInv)'
  BY <1>1, MemoryKept DEF IInv
<1>3. CASE Ps2Disturbed
  <2>1. "frame_buffer_mapped" \in machine
    BY <1>3, StageTables DEF Ps2Disturbed, IInv, PartsInv
  <2>2. stage' = "halted" /\ event' = "ps2"
    BY <1>3, <2>1 DEF Ps2Disturbed, PanicEnd, CanPrint
  <2>3. OutcomeExplained'
    BY <2>2 DEF OutcomeExplained
  <2> QED  BY <1>2, <2>2, <2>3, EndedStage DEF IInv
<1>4. CASE HandlerInPrint
  <2>1. stage' = "crashed" /\ event' = "handler"
    BY <1>4 DEF HandlerInPrint
  <2>2. OutcomeExplained'
    BY <2>1 DEF OutcomeExplained
  <2> QED  BY <1>2, <2>1, <2>2, EndedStage DEF IInv
<1>5. CASE StrayInterrupt
  <2>1. stage' \in {"halted", "crashed"} /\ event' = "stray"
    BY <1>5 DEF StrayInterrupt
  <2>2. OutcomeExplained'
    BY <2>1 DEF OutcomeExplained
  <2> QED  BY <1>2, <2>1, <2>2, EndedStage DEF IInv
<1> QED  BY <1>3, <1>4, <1>5 DEF Outside

(***************************************************************************)
(* The loader.                                                             *)
(***************************************************************************)
\* Before the map is written, no step of the loader but CopySegment changes
\* memory, and none changes the headers.
LEMMA HeadersKept ==
  ASSUME UNCHANGED program_headers
  PROVE  /\ L!LoadSegments' = L!LoadSegments
         /\ KernelPages' = KernelPages
         /\ SegmentsApart' = SegmentsApart
BY DEF L!LoadSegments, KernelPages, Segments, SegmentsApart

\* An iteration of copy_load_segment completes one segment and, if they are
\* apart, leaves the others as they are.
LEMMA LoadWrites ==
  ASSUME IInv, L!CopySegment, UNCHANGED map_page
  PROVE  (LoaderInv /\ WrittenInv /\ CopiedInv)'
<1> DEFINE header == program_headers[k]
<1>1. LoaderInv /\ WrittenInv /\ CopiedInv
  BY DEF IInv
<1>2. /\ loader_pc = "copy" /\ UNCHANGED <<program_headers, loader_pc, allocated, map_page>>
      /\ k' = k + 1 /\ k \in Nat /\ k <= Len(program_headers)
      /\ memory' = IF L!IsLoad(header) THEN L!Copied(header) ELSE memory
  BY <1>1 DEF LoaderInv, L!CopySegment
<1>3. L!Addresses = Pages
  BY DEF L!Addresses, Pages
<1>4. \A p \in Pages : memory'[p] = IF L!IsLoad(header) /\ p \in L!BytesOf(header)
                                      THEN L!SegmentByte(header, p - header.p_vaddr)
                                      ELSE memory[p]
  BY <1>2, <1>3 DEF L!Copied
<1>5. DOMAIN memory' = Pages
  BY <1>1, <1>2, <1>3 DEF L!Copied, LoaderInv
<1>6. LoaderInv'
  BY <1>1, <1>2, <1>5 DEF LoaderInv
<1>7. program_headers \in Elves
  BY <1>1 DEF LoaderInv
<1>8. k \in DOMAIN program_headers
  <2>1. program_headers \in Seq(L!ProgramHeader)
    BY <1>7, ElvesAssumption
  <2>2. k # 0
    BY DEF IInv, LoaderInv
  <2> QED  BY <1>2, <2>1, <2>2
<1>9. WrittenInv'
  <2>1. L!IsLoad(header) => L!BytesOf(header) \subseteq KernelPages
    BY <1>8 DEF KernelPages, Segments, L!LoadSegments
  <2> QED  BY <1>1, <1>2, <1>4, <2>1, HeadersKept DEF WrittenInv
<1>10. CopiedInv'
  <2>1. CopyStands' => CopyStands /\ SegmentsApart
    BY <1>2, HeadersKept DEF CopyStands
  <2> SUFFICES ASSUME CopyStands, SegmentsApart, NEW j \in L!LoadSegments, j < k + 1
               PROVE  Complete(j)'
    BY <1>2, <2>1, HeadersKept DEF CopiedInv
  <2>2. j \in DOMAIN program_headers /\ j \in Int /\ L!IsLoad(program_headers[j])
    BY <1>7, HeaderTypes DEF L!LoadSegments
  <2>3. L!BytesOf(program_headers[j]) \subseteq Pages
    BY <1>7, <2>2, HeaderTypes
  <2>4. CASE j = k
    BY <1>2, <1>4, <2>2, <2>3, <2>4 DEF Complete
  <2>5. CASE j # k
    <3>1. Complete(j)
      BY <1>1, <1>2, <2>2, <2>5 DEF CopiedInv
    <3>2. L!IsLoad(header) => L!BytesOf(program_headers[j]) \intersect L!BytesOf(header) = {}
      BY <1>8, <2>5 DEF SegmentsApart, L!LoadSegments
    <3> QED  BY <1>2, <1>4, <2>3, <3>1, <3>2 DEF Complete
  <2> QED  BY <2>4, <2>5
<1> QED  BY <1>6, <1>9, <1>10

\* What load_elf allocates was free, and is not free any more.
LEMMA LoadKeeps ==
  ASSUME IInv, L!LoadStep, map_page = -1, UNCHANGED <<map_page, firmware, manager>>
  PROVE  (FirmwareInv /\ LoaderInv /\ WrittenInv /\ CopiedInv /\ MapInv /\ ManagerInv)'
<1>1. LoaderInv /\ WrittenInv /\ CopiedInv
  BY DEF IInv
<1>2. UNCHANGED program_headers
  BY DEF L!LoadStep, L!Extent, L!ExtentDone, L!AllocatePages, L!AllocateFails, L!CopySegment,
         L!CopyPanics, L!Run
<1>3. (LoaderInv /\ WrittenInv /\ CopiedInv)'
  <2>1. CASE L!CopySegment
    BY <2>1, LoadWrites
  <2>2. CASE L!Extent
    <3>1. loader_pc = "extent" /\ k' = k + 1 /\ UNCHANGED <<loader_pc, allocated, memory>>
      BY <2>2 DEF L!Extent
    <3> QED  BY <1>1, <1>2, <3>1, HeadersKept DEF LoaderInv, WrittenInv, CopiedInv, CopyStands
  <2>3. CASE L!ExtentDone \/ L!AllocateFails \/ L!CopyPanics
    <3>1. loader_pc' \in {"allocate", "panicked"} /\ UNCHANGED <<k, allocated, memory>>
      BY <2>3 DEF L!ExtentDone, L!AllocateFails, L!CopyPanics
    <3> QED  BY <1>1, <1>2, <3>1, HeadersKept DEF LoaderInv, WrittenInv, CopiedInv, CopyStands
  <2>4. CASE L!AllocatePages
    <3>1. loader_pc' = "copy" /\ k' = 1 /\ UNCHANGED memory
      BY <2>4 DEF L!AllocatePages
    <3>2. LoaderInv' /\ WrittenInv'
      BY <1>1, <1>2, <3>1, HeadersKept DEF LoaderInv, WrittenInv
    <3>3. \A j \in L!LoadSegments : ~ (j < 1)
      BY <1>1, HeaderTypes DEF LoaderInv, L!LoadSegments
    <3>4. CopiedInv'
      BY <1>2, <3>1, <3>3, HeadersKept DEF CopiedInv
    <3> QED  BY <3>2, <3>4
  <2>5. CASE L!Run
    <3>1. /\ loader_pc = "copy" /\ loader_pc' = "run" /\ k > Len(program_headers)
          /\ UNCHANGED <<k, allocated, memory>>
      BY <2>5 DEF L!Run
    <3>2. LoaderInv' /\ WrittenInv'
      BY <1>1, <1>2, <3>1, HeadersKept DEF LoaderInv, WrittenInv
    <3>3. CopyStands' => CopyStands
      BY <1>2, <3>1, HeadersKept DEF CopyStands
    <3>4. CopiedInv'
      BY <1>1, <1>2, <3>1, <3>3, HeadersKept DEF CopiedInv, Complete
    <3> QED  BY <3>2, <3>4
  <2> QED  BY <2>1, <2>2, <2>3, <2>4, <2>5 DEF L!LoadStep
<1>4. FirmwareInv'
  <2>1. UNCHANGED <<machine, page_type, boot_page>>
    BY DEF firmware
  <2>2. \/ UNCHANGED <<allocated, available>>
        \/ allocated' \subseteq available /\ available' = available \ allocated'
    BY DEF L!LoadStep, L!Extent, L!ExtentDone, L!AllocatePages, L!AllocateFails, L!CopySegment,
           L!CopyPanics, L!Run, L!Runs
  <2> QED  BY <2>1, <2>2 DEF IInv, FirmwareInv
<1>5. MapInv'
  <2>1. UNCHANGED <<memory_map, page_type>>
    BY DEF firmware, manager
  <2>2. UNCHANGED PageDescriptor
    BY <2>1 DEF PageDescriptor, Listed
  <2> QED  BY <2>1, <2>2 DEF IInv, MapInv
<1>6. ManagerInv'
  BY DEF IInv, ManagerInv, firmware, manager, Listed
<1> QED  BY <1>3, <1>4, <1>5, <1>6

LEMMA LoadElfKeeps == IInv /\ load_elf => IInv'
<1> SUFFICES ASSUME IInv, load_elf PROVE IInv'
  OBVIOUS
<1>1. stage = "load_elf" /\ map_page = -1 /\ idx = 1 /\ manager_pc = "init"
  BY StageTables DEF load_elf, IInv, StageInv
<1>2. (FirmwareInv /\ LoaderInv /\ WrittenInv /\ CopiedInv /\ MapInv /\ ManagerInv)'
  BY <1>1, LoadKeeps DEF load_elf
<1>3. UNCHANGED <<map_page, idx, manager_pc, machine>>
  BY DEF load_elf, firmware, manager
<1>4. \/ stage' = "exit_boot_services" /\ loader_pc' = "run"
      \/ stage' = "halted" /\ loader_pc' = "panicked"
      \/ stage' = "load_elf"
  BY <1>1 DEF load_elf
<1>5. StageInv'
  BY <1>1, <1>3, <1>4, MainStages, StageTables DEF InMain, StageInv
<1>6. PartsInv'
  BY <1>1, <1>3, <1>4, MainStages, StageTables DEF IInv, PartsInv
<1>7. OutcomeExplained'
  BY <1>4 DEF OutcomeExplained
<1> QED  BY <1>2, <1>5, <1>6, <1>7 DEF IInv

(***************************************************************************)
(* The memory map.                                                         *)
(***************************************************************************)
\* The page of the map was free, so it is none of the loader's; each page of the
\* loader has its place in the map.
LEMMA ExitBootServicesKeeps == IInv /\ exit_boot_services => IInv'
<1> SUFFICES ASSUME IInv, exit_boot_services PROVE IInv'
  OBVIOUS
<1> DEFINE N == Cardinality(Listed)
<1>1. /\ stage = "exit_boot_services" /\ stage' = "_start"
      /\ map_page = -1 /\ idx = 1 /\ manager_pc = "init" /\ loader_pc = "run"
  BY StageTables DEF exit_boot_services, IInv, StageInv
<1>2. /\ map_page' \in available
      /\ memory' = [memory EXCEPT ![map_page'] = MapBytes]
      /\ memory_map' = [m \in 1 .. N |->
           [phys_start |-> PageAt(m), page_count |-> 1, ty |-> TypeOf(PageAt(m))]]
      /\ UNCHANGED <<machine, page_type, boot_page, program_headers, available, loader_pc, k,
                     allocated, manager_pc, idx, last_available_end, alloc_map>>
  BY DEF exit_boot_services, firmware
<1>3. FirmwareInv /\ LoaderInv /\ WrittenInv /\ CopiedInv /\ MapInv /\ ManagerInv
  BY DEF IInv
<1>4. /\ map_page' \in Pages /\ page_type[map_page'] = "CONVENTIONAL"
      /\ map_page' \notin allocated /\ map_page' # -1
  BY <1>2, <1>3 DEF FirmwareInv, Pages
<1>5. FirmwareInv'
  BY <1>2, <1>3 DEF FirmwareInv
<1>6. LoaderInv'
  BY <1>2, <1>3 DEF LoaderInv
<1>7. \A p \in Pages : memory'[p] = IF p = map_page' THEN MapBytes ELSE memory[p]
  BY <1>2, <1>3 DEF LoaderInv
<1>8. WrittenInv'
  BY <1>1, <1>2, <1>3, <1>7, HeadersKept DEF WrittenInv, Pages
<1>9. CopiedInv'
  <2> SUFFICES ASSUME CopyStands', NEW j \in L!LoadSegments PROVE j < k => Complete(j)'
    BY <1>2, HeadersKept DEF CopiedInv
  <2>1. CopyStands /\ KernelPages \subseteq allocated
    BY <1>1, <1>2, <1>4, HeadersKept DEF CopyStands
  <2>2. j \in DOMAIN program_headers /\ L!BytesOf(program_headers[j]) \subseteq Pages
    BY <1>3, HeaderTypes DEF L!LoadSegments, LoaderInv
  <2>3. map_page' \notin L!BytesOf(program_headers[j])
    BY <1>4, <2>1 DEF KernelPages, Segments
  <2>4. j < k => Complete(j)
    BY <1>3, <2>1 DEF CopiedInv
  <2> QED  BY <1>2, <1>7, <2>2, <2>3, <2>4 DEF Complete
<1>10. Listed' = Listed /\ PageDescriptor' = PageDescriptor
  BY <1>2 DEF Listed, PageDescriptor
<1>11. \A p \in Listed : TypeOf(p) \in PageType \union {"LOADER_DATA"}
  <2>1. \A p \in Listed : page_type[p] \in PageType
    BY <1>3 DEF FirmwareInv, Listed
  <2> QED  BY <2>1 DEF TypeOf, PageType
<1>12. MapInv'
  <2>1. N \in Nat /\ \A m \in 1 .. N : PageAt(m) \in Listed
    BY Places
  <2>2. memory_map' \in [1 .. N -> PageDescriptor]
    BY <1>2, <1>11, <2>1 DEF PageDescriptor
  <2>3. memory_map' \in Seq(PageDescriptor)
    BY <2>1, <2>2
  <2>4. ASSUME NEW p \in allocated
        PROVE  \E m \in DOMAIN memory_map' :
                 memory_map'[m].phys_start = p /\ memory_map'[m].ty = "LOADER_DATA"
    <3>1. p \in Listed
      BY <1>3 DEF FirmwareInv, Listed
    <3>2. Place(p) \in 1 .. N /\ PageAt(Place(p)) = p
      BY <3>1, Places
    <3>3. TypeOf(p) = "LOADER_DATA"
      BY DEF TypeOf
    <3> QED  BY <1>2, <3>2, <3>3
  <2>5. ASSUME NEW p \in Pages, page_type[p] = "RESERVED"
        PROVE  \E m \in DOMAIN memory_map' :
                 memory_map'[m].phys_start = p /\ memory_map'[m].ty = "RESERVED"
    <3>1. p \in Listed
      BY <2>5 DEF Listed
    <3>2. Place(p) \in 1 .. N /\ PageAt(Place(p)) = p
      BY <3>1, Places
    <3>3. p \notin allocated /\ p # map_page'
      BY <1>3, <1>4, <2>5 DEF FirmwareInv
    <3>4. TypeOf(p) = "RESERVED"
      BY <2>5, <3>3 DEF TypeOf
    <3> QED  BY <1>2, <3>2, <3>4
  <2>6. memory'[map_page'] = MapBytes
    BY <1>4, <1>7
  <2> QED  BY <1>1, <1>2, <1>10, <2>3, <2>4, <2>5, <2>6 DEF MapInv
<1>13. ManagerInv'
  BY <1>1, <1>2, <1>3 DEF ManagerInv
<1>14. StageInv'
  BY <1>1, <1>2, <1>4, MainStages, StageTables DEF InMain, StageInv
<1>15. PartsInv'
  BY <1>1, <1>2, StageTables DEF IInv, PartsInv
<1>16. OutcomeExplained'
  BY <1>1 DEF OutcomeExplained
<1> QED  BY <1>5, <1>6, <1>8, <1>9, <1>12, <1>13, <1>14, <1>15, <1>16 DEF IInv

\* An entry of the map is a page that is listed.
LEMMA EntryTypes ==
  ASSUME MapInv, idx \in Nat \ {0}, idx <= Len(memory_map)
  PROVE  /\ idx \in DOMAIN memory_map
         /\ memory_map[idx].phys_start \in Listed
         /\ memory_map[idx].phys_start \in Nat
         /\ M!FramesOf(memory_map[idx]) = {memory_map[idx].phys_start}
         /\ memory_map[idx].page_count = 1
<1>1. idx \in DOMAIN memory_map /\ memory_map[idx] \in PageDescriptor
  BY DEF MapInv
<1>2. memory_map[idx].phys_start \in Listed /\ memory_map[idx].page_count = 1
  BY <1>1 DEF PageDescriptor
<1>3. memory_map[idx].phys_start \in Nat
  BY <1>2 DEF Listed, Pages
<1> QED  BY <1>1, <1>2, <1>3 DEF M!FramesOf, M!Run

\* A descriptor of the loader is marked when the loop meets it; the loop leaves
\* the bitmap only for a page that lies past it.
LEMMA MemoryInitKeeps == IInv /\ MemoryInit => IInv'
<1> SUFFICES ASSUME IInv, MemoryInit PROVE IInv'
  OBVIOUS
<1>1. FirmwareInv /\ LoaderInv /\ WrittenInv /\ CopiedInv /\ MapInv /\ ManagerInv /\ PartsInv
  BY DEF IInv
<1>2. stage = "memory" /\ map_page # -1 /\ manager_pc = "init"
  BY MainStages, StageTables DEF MemoryInit, InMain, IInv, StageInv
<1>3. UNCHANGED <<map_page, firmware, loader, memory_map>>
  BY DEF MemoryInit, M!InitEntry, M!InitEntryPanics, M!InitReturns
<1>4. FirmwareInv' /\ LoaderInv'
  BY <1>1, <1>3 DEF FirmwareInv, LoaderInv, firmware, loader
<1>5. WrittenInv' /\ CopiedInv'
  BY <1>1, <1>3, HeadersKept DEF WrittenInv, CopiedInv, CopyStands, Complete, firmware, loader
<1>6. Listed' = Listed /\ PageDescriptor' = PageDescriptor
  BY <1>3 DEF Listed, PageDescriptor, firmware
<1>7. MapInv'
  BY <1>1, <1>3, <1>6 DEF MapInv, firmware, loader
<1>8. ManagerInv' /\ (manager_pc' = "panicked" => \E p \in Listed : p >= FRAME_COUNT)
  <2>1. CASE M!InitEntry
    <3>1. /\ idx <= Len(memory_map) /\ idx' = idx + 1 /\ UNCHANGED manager_pc
          /\ M!UsedArea(memory_map[idx]) \subseteq M!Frames
          /\ alloc_map' = alloc_map \union
               ((M!MissingArea(memory_map[idx]) \union M!UsedArea(memory_map[idx]))
                  \intersect M!Frames)
          /\ \/ last_available_end' = memory_map[idx].phys_start + memory_map[idx].page_count
             \/ last_available_end' = last_available_end
      BY <2>1 DEF M!InitEntry, M!mark_allocated
    <3>2. last_available_end' \in Nat
      BY <1>1, <3>1, EntryTypes DEF ManagerInv
    <3>3. memory_map[idx].ty = "LOADER_DATA" => memory_map[idx].phys_start \in alloc_map'
      BY <1>1, <3>1, EntryTypes DEF ManagerInv, M!UsedArea, M!is_available
    <3>4. memory_map[idx].ty = "RESERVED" => memory_map[idx].phys_start < FRAME_COUNT
      BY <1>1, <3>1, EntryTypes DEF ManagerInv, M!UsedArea, M!is_available, M!Frames
    <3> QED  BY <1>1, <1>2, <1>3, <1>6, <3>1, <3>2, <3>3, <3>4 DEF ManagerInv
  <2>2. CASE M!InitEntryPanics
    <3> DEFINE desc == memory_map[idx]
    <3>1. /\ idx <= Len(memory_map) /\ manager_pc' = "panicked"
          /\ UNCHANGED <<idx, last_available_end>>
          /\ alloc_map \subseteq alloc_map'
          /\ ~ (M!MissingArea(desc) \union M!UsedArea(desc) \subseteq M!Frames)
      BY <2>2 DEF M!InitEntryPanics, M!mark_allocated
    <3>2. /\ desc.phys_start \in Nat /\ desc.phys_start \in Listed
          /\ M!FramesOf(desc) = {desc.phys_start} /\ last_available_end \in Nat
      BY <1>1, <3>1, EntryTypes DEF ManagerInv
    <3>3. desc.phys_start >= FRAME_COUNT
      <4>1. PICK f \in M!MissingArea(desc) \union M!UsedArea(desc) : f \notin M!Frames
        BY <3>1
      <4>2. f \in Nat /\ f <= desc.phys_start
        BY <3>2, <4>1 DEF M!MissingArea, M!UsedArea
      <4>3. f >= FRAME_COUNT
        BY <4>1, <4>2 DEF M!Frames
      <4> QED  BY <3>2, <4>2, <4>3
    <3> QED  BY <1>1, <1>2, <1>3, <1>6, <3>1, <3>2, <3>3 DEF ManagerInv
  <2>3. CASE M!InitReturns
    <3>1. /\ manager_pc' = "ready" /\ idx > Len(memory_map)
          /\ UNCHANGED <<idx, last_available_end, alloc_map>>
      BY <2>3 DEF M!InitReturns
    <3> QED  BY <1>1, <1>2, <1>3, <1>6, <3>1 DEF ManagerInv
  <2> QED  BY <2>1, <2>2, <2>3 DEF MemoryInit
<1>9. \/ stage' = "panic" /\ manager_pc' = "panicked"
      \/ stage' = "message" /\ manager_pc' = "ready"
      \/ stage' = "memory" /\ manager_pc' = "init"
  BY <1>2, <1>8, NextStages DEF MemoryInit, ManagerInv
<1>10. StageInv'
  BY <1>2, <1>3, <1>9, StageTables DEF StageInv
<1>11. UNCHANGED <<machine, boot_page, map_page>> /\ map_page < MAPPED_COUNT
  BY <1>3 DEF firmware, MemoryInit
<1>12. PartsInv'
  BY <1>1, <1>2, <1>9, <1>11, MainStages, StageTables DEF PartsInv
<1>13. OutcomeExplained'
  BY <1>9 DEF OutcomeExplained
<1> QED  BY <1>4, <1>5, <1>7, <1>8, <1>10, <1>12, <1>13 DEF IInv

-----------------------------------------------------------------------------
\* Every step of the boot keeps the invariant.
LEMMA InvStep == IInv /\ [Next]_vars => IInv'
<1> SUFFICES ASSUME IInv, [Next]_vars PROVE IInv'
  OBVIOUS
<1>1. CASE UNCHANGED vars
  <2>1. UNCHANGED <<map_page, firmware, loader, manager, stage, rdi, event>>
    BY <1>1 DEF vars
  <2>2. (FirmwareInv /\ LoaderInv /\ WrittenInv /\ CopiedInv /\ MapInv /\ ManagerInv)'
    BY <2>1, MemoryKept DEF IInv
  <2>3. UNCHANGED <<machine, loader_pc, available, page_type, boot_page, manager_pc, idx>>
    BY <2>1 DEF firmware, loader, manager
  <2>4. StageInv' /\ PartsInv'
    BY <2>1, <2>3 DEF IInv, StageInv, PartsInv, InMain
  <2>5. OutcomeExplained'
    BY <2>1, ReasonsKept DEF IInv, OutcomeExplained
  <2> QED  BY <2>2, <2>4, <2>5 DEF IInv
<1> QED
  BY <1>1, BootloaderStartKeeps, LoadElfKeeps, ExitBootServicesKeeps, NoPageForMapKeeps,
     StartKeeps, MainStepKeeps, PageFaultKeeps, MemoryInitKeeps, MapNotMappedKeeps,
     PanicPrintedKeeps, CrashKeeps, OutsideKeeps
  DEF Next, Step, Over

\* The kernel is kept, for every memory, every kernel whose segments lie in it and
\* every firmware: the loader's pages are listed as its own, and the manager marks
\* what is listed so (bootloader/src/kernel.rs:76-85, main.rs:80-83,
\* kernel/src/memory_map.rs:6-10, phys_mem_manager.rs:58-85).
THEOREM KernelAlwaysKept == Spec => []KernelKept
<1>1. IInv => KernelKept
  <2> SUFFICES ASSUME IInv, LoadedWhereAllocated
               PROVE  /\ SegmentsApart => KernelIntact
                      /\ manager_pc = "ready" => KernelPages \subseteq alloc_map
    BY DEF KernelKept
  <2>1. /\ program_headers \in Elves /\ k \in Nat /\ k > Len(program_headers)
        /\ KernelPages \subseteq allocated /\ loader_pc = "run"
    BY DEF IInv, LoaderInv, LoadedWhereAllocated
  <2>2. ASSUME SegmentsApart PROVE KernelIntact
    <3>1. CopyStands
      BY <2>1, <2>2 DEF CopyStands
    <3>2. \A j \in L!LoadSegments : j < k
      BY <2>1, HeaderTypes DEF L!LoadSegments
    <3>3. \A j \in L!LoadSegments : Complete(j)
      BY <3>1, <3>2 DEF IInv, CopiedInv
    <3> QED  BY <3>3 DEF KernelIntact, Segments, Complete
  <2>3. ASSUME manager_pc = "ready" PROVE KernelPages \subseteq alloc_map
    <3>1. ManagerInv /\ MapInv
      BY DEF IInv
    <3>2. idx > Len(memory_map) /\ idx \in Nat
      BY <2>3, <3>1 DEF ManagerInv
    <3>3. map_page # -1
      BY <2>3, <3>1 DEF ManagerInv
    <3>4. ASSUME NEW p \in allocated PROVE p \in alloc_map
      <4>1. PICK m \in DOMAIN memory_map :
              memory_map[m].phys_start = p /\ memory_map[m].ty = "LOADER_DATA"
        BY <3>1, <3>3 DEF MapInv
      <4>2. m \in 1 .. idx - 1
        BY <3>1, <3>2 DEF MapInv
      <4> QED  BY <3>1, <4>1, <4>2 DEF ManagerInv
    <3> QED  BY <2>1, <3>4
  <2> QED  BY <2>2, <2>3
<1> QED  BY <1>1, InvInit, InvStep, PTL DEF Spec

\* BootInfo and the memory map are read in time and as the bootloader left them,
\* for every kernel loaded to the pages allocated for it
\* (kernel/src/main.rs:76-106).
THEOREM BootInfoInTime == Spec => []BootInfoReadInTime
<1>1. IInv => BootInfoReadInTime
  <2> SUFFICES ASSUME IInv, KernelPages \subseteq allocated, InMain,
                      stage = "memory" \/ ~ After("rsdp")
               PROVE  manager_pc = "init" /\ memory[boot_page] = Old /\ memory[map_page] = MapBytes
    BY DEF BootInfoReadInTime, LoadedWhereAllocated
  <2>1. manager_pc = "init" /\ map_page # -1
    <3>1. stage # "message"
      BY Positions DEF After
    <3> QED  BY <3>1, MainStages, StageTables DEF IInv, StageInv, InMain
  <2>2. memory[map_page] = MapBytes /\ map_page \in available
    BY <2>1 DEF IInv, MapInv
  <2>3. boot_page \in Pages /\ boot_page \notin allocated /\ boot_page \notin available
    BY DEF IInv, FirmwareInv
  <2>4. memory[boot_page] = Old
    BY <2>2, <2>3 DEF IInv, WrittenInv
  <2> QED  BY <2>1, <2>2, <2>4
<1> QED  BY <1>1, InvInit, InvStep, PTL DEF Spec

\* Every end of the boot has its reason, on every machine and whatever interrupts
\* come from main.rs:104 on: the idle loop is reached only with all parts, and with
\* BootInfo, the map and the reserved pages below their limits; a halt or a crash
\* is due to a part, a page, the loader, or an event from outside
\* (kernel/src/main.rs:51-121).
THEOREM OutcomesExplained == Spec => []OutcomeExplained
<1>1. IInv => OutcomeExplained
  BY DEF IInv
<1> QED  BY <1>1, InvInit, InvStep, PTL DEF Spec
=============================================================================
