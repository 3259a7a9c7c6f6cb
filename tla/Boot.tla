-------------------------------- MODULE Boot --------------------------------
(***************************************************************************)
(* The whole boot: main_inner of the bootloader, the jump to the kernel    *)
(* with BootInfo, and main of the kernel up to its idle loop, composed of  *)
(* the loader (KernelLoader) and the frame manager (PhysMemManager), which *)
(* share the machine's memory.  Paging, PCI, ACPI, PS/2, interrupts and    *)
(* the console are modules of their own; here a step of main is what they  *)
(* may do to the boot: return, panic on a machine that lacks a part, or    *)
(* panic because a device did not answer in time.  From main.rs:104 on     *)
(* interrupts may arrive.                                                  *)
(*                                                                         *)
(* A page of memory is one address of the loader and one frame of the      *)
(* manager (UEFI_PAGE_SIZE = 1).                                           *)
(***************************************************************************)
EXTENDS Integers, Sequences, FiniteSets

CONSTANTS
  PageCount, FRAME_COUNT,   \* memory, and the part of it the bitmap covers
  MAPPED_COUNT,             \* the part of it that paging::init maps
  FileSize, Elves, Zero, Old,
  MapBytes,                 \* a page that holds the memory map
  Layouts,                  \* what the firmware may use the pages for
  Machines                  \* sets of Parts that work

\* What a machine may lack.  "mapped": below the memory that paging::init maps.
Parts == {"gop", "format", "file", "screen", "frame_buffer_mapped", "pci", "rsdp",
          "acpi", "acpi_mapped", "ps2", "io_apic"}

PageType == {"CONVENTIONAL", "BOOT_SERVICES_DATA", "RESERVED", "NONE"}

ASSUME SizeAssumption ==
  /\ PageCount \in Nat \ {0} /\ FRAME_COUNT \in Nat \ {0, 1}
  /\ MAPPED_COUNT \in Nat /\ FileSize \in Nat
ASSUME LayoutsAssumption == Layouts \subseteq [0 .. PageCount - 1 -> PageType]
ASSUME MachinesAssumption == Machines \subseteq SUBSET Parts

VARIABLES
  stage,        \* what runs next
  machine,      \* the parts of this machine that work
  page_type,    \* the firmware's own use of the pages; "NONE" if not in the map
  map_page,     \* where exit_boot_services put the memory map, or -1
  boot_page,    \* the page of the bootloader's stack with BootInfo
  rdi,          \* which operand the build keeps in rdi, "none" before it matters
  event,        \* what came from outside and ended the boot, or "none"
  \* the loader
  program_headers, available, loader_pc, k, dest_start, dest_end, allocated, memory,
  \* the frame manager
  memory_map, manager_pc, idx, last_available_end, alloc_map, begin, end, call, ret

firmware == <<machine, page_type, boot_page>>
loader   == <<program_headers, available, loader_pc, k, dest_start, dest_end,
              allocated, memory>>
manager  == <<memory_map, manager_pc, idx, last_available_end, alloc_map, begin, end,
              call, ret>>
vars     == <<stage, map_page, rdi, event, firmware, loader, manager>>

L == INSTANCE KernelLoader WITH UEFI_PAGE_SIZE <- 1, pc <- loader_pc
M == INSTANCE PhysMemManager WITH MemoryMaps <- { << >> }, MaxRequest <- 0, pc <- manager_pc

Pages == 0 .. PageCount - 1

\* The segments of a kernel lie in memory, where paging::init maps it: the build
\* links the kernel at 256 MiB, and 64 GiB are mapped.
ASSUME ElvesAssumption ==
  /\ Elves \subseteq Seq(L!ProgramHeader)
  /\ \A e \in Elves : \A j \in DOMAIN e :
       /\ e[j].p_vaddr + e[j].p_memsz <= PageCount
       /\ e[j].p_vaddr + e[j].p_memsz <= MAPPED_COUNT

Ended == {"idle", "halted", "crashed"}

\* The pages the firmware gives as CONVENTIONAL can be allocated.
Init ==
  /\ stage = "open_gop"
  /\ machine \in Machines
  /\ page_type \in Layouts
  /\ map_page = -1
  /\ boot_page \in {p \in Pages : page_type[p] = "BOOT_SERVICES_DATA"}
  /\ rdi = "none"
  /\ event = "none"
  /\ available = {p \in Pages : page_type[p] = "CONVENTIONAL"}
  /\ L!Init
  /\ M!Init

(***************************************************************************)
(* The bootloader.  Its panic handler prints and stops.                    *)
(***************************************************************************)
\* open_gop, GraphicInfo::from_gop, and load_kernel up to load_elf.
BootloaderStart ==
  /\ stage = "open_gop"
  /\ stage' = IF {"gop", "format", "file"} \subseteq machine THEN "load_elf" ELSE "halted"
  /\ UNCHANGED <<map_page, rdi, event, firmware, loader, manager>>

load_elf ==
  /\ stage = "load_elf"
  /\ L!LoadStep
  /\ stage' = CASE loader_pc' = "run"      -> "exit_boot_services"
                [] loader_pc' = "panicked" -> "halted"
                [] OTHER                   -> stage
  /\ UNCHANGED <<map_page, rdi, event, firmware, manager>>

TypeOf(p) ==
  IF p \in allocated THEN "LOADER_DATA"
  ELSE IF p = map_page' THEN "BOOT_SERVICES_DATA" ELSE page_type[p]

\* The pages that are in the map, and their places in it: it is in address order.
Listed == {p \in Pages : page_type[p] # "NONE"}
Place(p) == 1 + Cardinality({q \in Listed : q < p})
PageAt(n) == CHOOSE p \in Listed : Place(p) = n

\* find_rsdp, then the memory map is written to a page of its own, which the
\* firmware takes from those it holds to be free, then the kernel is called.
exit_boot_services ==
  /\ stage = "exit_boot_services"
  /\ map_page' \in available
  /\ memory' = [memory EXCEPT ![map_page'] = MapBytes]
  /\ memory_map' =
       [n \in 1 .. Cardinality(Listed) |->
          [phys_start |-> PageAt(n), page_count |-> 1, ty |-> TypeOf(PageAt(n))]]
  /\ stage' = "_start"
  /\ UNCHANGED <<rdi, event, firmware, program_headers, available, loader_pc, k,
                 dest_start, dest_end, allocated, manager_pc, idx, last_available_end,
                 alloc_map, begin, end, call, ret>>

NoPageForMap ==
  /\ stage = "exit_boot_services"
  /\ available = {}
  /\ stage' = "halted"
  /\ UNCHANGED <<map_page, rdi, event, firmware, loader, manager>>

(***************************************************************************)
(* switch_to_kernel_stack: the assembly writes rdi before it reads its     *)
(* second and third operand, and the compiler may keep any of them there.  *)
(***************************************************************************)
_start ==
  /\ stage = "_start"
  /\ rdi' \in {"boot_info", "stack", "new_entry", "other"}
  /\ stage' = IF rdi' \in {"stack", "new_entry"} THEN "crashed" ELSE "frame_buffer"
  /\ UNCHANGED <<map_page, event, firmware, loader, manager>>

(***************************************************************************)
(* main                                                                    *)
(***************************************************************************)
\* Mutant: memory is set up as soon as paging is.
MainOrderMemoryFirst ==
  << "frame_buffer", "console", "gdt", "paging", "memory", "pci", "rsdp", "acpi", "ps2",
     "interrupts", "message" >>

MainOrder ==
  << "frame_buffer", "console", "gdt", "paging", "pci", "rsdp", "acpi", "ps2",
     "interrupts", "memory", "message" >>

Position(s) == CHOOSE n \in DOMAIN MainOrder : MainOrder[n] = s
InMain == stage \in {MainOrder[n] : n \in DOMAIN MainOrder}
After(s) == Position(stage) > Position(s)

NextStage == IF Position(stage) = Len(MainOrder) THEN "idle" ELSE MainOrder[Position(stage) + 1]

\* From paging::init on the frame buffer is reached through the kernel's map.
CanPrint == After("paging") => "frame_buffer_mapped" \in machine

\* Mutant: main prints a missing RSDP and goes on.
PanicsNoRsdp ==
  \/ stage = "pci" /\ "pci" \notin machine
  \/ stage = "acpi" /\ "acpi" \notin machine
  \/ stage = "ps2" /\ "ps2" \notin machine
  \/ stage = "interrupts" /\ "io_apic" \notin machine

\* More functions than the array of devices has room for; no RSDP; incomplete
\* ACPI tables; no keyboard or mouse that passes its tests; another I/O APIC than
\* the tables say.
Panics ==
  \/ stage = "pci" /\ "pci" \notin machine
  \/ stage = "rsdp" /\ "rsdp" \notin machine
  \/ stage = "acpi" /\ "acpi" \notin machine
  \/ stage = "ps2" /\ "ps2" \notin machine
  \/ stage = "interrupts" /\ "io_apic" \notin machine

\* These steps print also when all is well.
Prints == stage \in {"rsdp", "acpi", "ps2", "interrupts", "message"}

\* BootInfo, and the ACPI tables, are read where the bootloader and the firmware
\* left them.
ReadsUnmapped ==
  \/ stage = "rsdp" /\ boot_page >= MAPPED_COUNT
  \/ stage = "acpi" /\ "acpi_mapped" \notin machine

\* Nothing of the kernel handles a page fault before interrupts::init.
PageFault ==
  /\ ReadsUnmapped
  /\ stage' = "crashed"
  /\ UNCHANGED <<map_page, rdi, event, firmware, loader, manager>>

\* A panic prints and halts; one that cannot print panics again, without end.
PanicEnd == IF CanPrint THEN "halted" ELSE "crashed"

\* The failure of Console::init panics while the console's lock is held.  Of the
\* ACPI tables one that panics may come before one that is not mapped.
MainStep ==
  /\ InMain
  /\ stage # "memory"
  /\ ReadsUnmapped => stage = "acpi" /\ Panics
  /\ stage' = CASE stage = "console" /\ "screen" \notin machine -> "crashed"
                [] Panics                                       -> PanicEnd
                [] Prints /\ ~ Panics /\ ~ CanPrint             -> "crashed"
                [] OTHER                                        -> NextStage
  /\ UNCHANGED <<map_page, rdi, event, firmware, loader, manager>>

\* mem_manager().init reads the map descriptor by descriptor.
MemoryInit ==
  /\ stage = "memory"
  /\ map_page < MAPPED_COUNT
  /\ M!InitEntry \/ M!InitEntryPanics \/ M!InitReturns
  /\ stage' = CASE manager_pc' = "panicked" -> "panic"
                [] manager_pc' = "ready"    -> NextStage
                [] OTHER                    -> stage
  /\ UNCHANGED <<map_page, rdi, event, firmware, loader>>

\* Its panic is printed with interrupts on.
PanicPrinted ==
  /\ stage = "panic"
  /\ stage' = "halted"
  /\ UNCHANGED <<map_page, rdi, event, firmware, loader, manager>>

\* A read of a page that is not mapped: the IDT has a gate for the double fault
\* that follows, whose handler panics.
MapNotMapped ==
  /\ stage = "memory"
  /\ map_page >= MAPPED_COUNT
  /\ stage' = "halted"
  /\ UNCHANGED <<map_page, rdi, event, firmware, loader, manager>>

(***************************************************************************)
(* What may come from outside, on a complete machine too.  A handler that  *)
(* finds the console's lock free prints and returns: nothing changes here. *)
(***************************************************************************)
\* ps2::init panics also after a timeout, a lost command, or a key that is pressed
\* between its commands.
Ps2Disturbed ==
  /\ stage = "ps2"
  /\ stage' = PanicEnd
  /\ event' = "ps2"
  /\ UNCHANGED <<map_page, rdi, firmware, loader, manager>>

\* The keyboard or the mouse interrupts a print.  The handler cannot have the
\* lock: its unwrap panics, and so does the print of that panic.
HandlerInPrint ==
  /\ stage \in {"message", "panic"}
  /\ stage' = "crashed"
  /\ event' = "handler"
  /\ UNCHANGED <<map_page, rdi, firmware, loader, manager>>

\* A vector the IDT has no gate for (the local APIC's error and spurious vectors,
\* the last redirection entry's): a double fault, whose handler panics.
StrayInterrupt ==
  /\ stage \in {"memory", "message", "panic", "idle"}
  /\ \/ stage' = "halted"
     \/ stage \in {"message", "panic"} /\ stage' = "crashed"
  /\ event' = "stray"
  /\ UNCHANGED <<map_page, rdi, firmware, loader, manager>>

(***************************************************************************)
(* The kernel's memory, and what becomes of a machine whose memory was     *)
(* overwritten: anything, at any time.                                     *)
(***************************************************************************)
Segments == {program_headers[j] : j \in L!LoadSegments}

KernelPages == UNION {L!BytesOf(header) : header \in Segments}

KernelIntact ==
  \A header \in Segments : \A p \in L!BytesOf(header) :
    memory[p] = L!SegmentByte(header, p - header.p_vaddr)

Overwritten ==
  \/ \E p \in Pages \ allocated : page_type[p] # "CONVENTIONAL" /\ memory[p] # Old
  \/ loader_pc = "run" /\ ~ KernelIntact

Crash ==
  /\ stage \notin Ended
  /\ Overwritten
  /\ stage' = "crashed"
  /\ UNCHANGED <<map_page, rdi, event, firmware, loader, manager>>

Over == stage \in Ended /\ UNCHANGED vars

Step ==
  \/ BootloaderStart \/ load_elf \/ exit_boot_services \/ NoPageForMap \/ _start
  \/ MainStep \/ PageFault \/ MemoryInit \/ MapNotMapped \/ PanicPrinted \/ Crash

Outside == Ps2Disturbed \/ HandlerInPrint \/ StrayInterrupt

Next == Step \/ Outside \/ Over

\* One CPU runs the boot and nothing else; nothing has to come from outside.
Spec == Init /\ [][Next]_vars /\ WF_vars(Step)

-----------------------------------------------------------------------------
(***************************************************************************)
(* Properties                                                              *)
(***************************************************************************)

\* The pages the firmware gave the loader are those the kernel is linked to.
LoadedWhereAllocated == loader_pc = "run" /\ KernelPages \subseteq allocated

SegmentsApart ==
  \A j, l \in L!LoadSegments : j # l =>
    L!BytesOf(program_headers[j]) \intersect L!BytesOf(program_headers[l]) = {}

\* If the kernel was loaded to the pages allocated for it, it stays whole until
\* the idle loop, unless its segments overlap, and the frame manager never has
\* one of its frames free: the type the loader allocates with, the map and the
\* manager's idea of what is available agree (bootloader/src/kernel.rs:76-85, main.rs:80-83,
\* kernel/src/memory_map.rs:6-10, phys_mem_manager.rs:58-85).
KernelKept ==
  LoadedWhereAllocated =>
    /\ SegmentsApart => KernelIntact
    /\ manager_pc = "ready" => KernelPages \intersect (begin .. end - 1) \subseteq alloc_map

\* BootInfo and the memory map lie in pages the manager holds to be free.  main
\* reads them only before the manager is ready to hand out a frame, and finds
\* them as the bootloader left them (kernel/src/main.rs:76-106).
BootInfoReadInTime ==
  LoadedWhereAllocated /\ InMain /\ (stage = "memory" \/ ~ After("rsdp")) =>
    /\ manager_pc = "init"
    /\ memory[boot_page] = Old
    /\ memory[map_page] = MapBytes

\* The boot always comes to an end: the idle loop, a message, or a crash
\* (bootloader/src/main.rs:39-90, kernel/src/main.rs:76-112).
BootEnds == <>(stage \in Ended)

\* Every end of the boot has one of these reasons (kernel/src/main.rs:51-121).
\* A halt with a message: a part is missing, the kernel could not be loaded or its
\* map stored, memory lies past the page tables or the bitmap, ps2::init was
\* disturbed, or a vector without a gate came.  A crash without a message: memory
\* was overwritten, the build keeps another operand in rdi, the screen is too small,
\* or the screen, the ACPI tables or BootInfo are not mapped, or an interrupt came
\* while the console's lock was held.  The idle loop is reached only by a machine
\* that lacks nothing and has what the kernel reads and marks below those limits.
OutcomeExplained ==
  /\ stage = "halted" =>
       \/ machine # Parts
       \/ loader_pc # "run" \/ available = {}
       \/ map_page >= MAPPED_COUNT
       \/ \E p \in Pages : p >= FRAME_COUNT /\ page_type[p] # "NONE"
       \/ event \in {"ps2", "stray"}
  /\ stage = "crashed" =>
       \/ Overwritten
       \/ rdi \in {"stack", "new_entry"}
       \/ ~ ({"screen", "frame_buffer_mapped", "acpi_mapped"} \subseteq machine)
       \/ boot_page >= MAPPED_COUNT
       \/ event \in {"handler", "stray"}
  /\ stage = "idle" =>
       /\ machine = Parts
       /\ boot_page < MAPPED_COUNT /\ map_page < MAPPED_COUNT
       /\ \A p \in Pages : page_type[p] = "RESERVED" => p < FRAME_COUNT
=============================================================================
