# Maizono OS: TLA+ models

Maizono OS is a small x86_64 operating system in Rust: a UEFI bootloader
(`src/bootloader`), a kernel (`src/kernel`) and the types they share
(`src/common`). The bootloader loads the kernel's ELF file, leaves the boot
services and jumps to the kernel. `main` then initialises one part after the
other: frame buffer, console, GDT, paging, PCI, ACPI, PS/2, interrupts, physical
frames. It enables interrupts before the last of these, prints a line and idles;
from there on only the keyboard and the mouse handler run.

The modules here model the parts of that program that keep state and decide
something. TLC checks them on small instances; TLAPS proves, for every value of
their constants, every invariant and the refinement that the passing runs check.

## Inventory

| Part | State | Operations | What is hard | What makes it correct |
|---|---|---|---|---|
| Physical frame manager (`phys_mem_manager.rs`) | bitmap, managed range | `init` from the UEFI map, `alloc`, `free` | descriptors in any order, gaps, areas past the bitmap, a search loop | no reserved frame is ever clear; no usable frame is lost; bounds; termination |
| Console (`graphic/console.rs`) | lines, cursor, cells of the screen | `init`, `print`, `new_line` | last column, last row, scroll row by row, painting without clearing | the screen shows the buffer; the buffer is the end of what was printed; no `unwrap` fails |
| Interrupt handlers (`interrupts.rs`, `main.rs`, `kprintln!`) | lock, handler in progress, APIC requests, PS/2 output buffer | `kprintln!`, keyboard and mouse handler, panic handler, `main` | interrupts between any two steps, one lock, one buffer for two devices, edge triggering | every interrupt acknowledged, every byte taken, no lock panic outside a print |
| ACPI (`acpi.rs`) | FADT and MADT found, `ApicInfo` | `init`, `from_madt` | order, validity and multiplicity of tables | panics exactly if something is missing |
| APIC set-up (`interrupts.rs`, `arch.rs`) | local APIC registers, redirection table | `disable_pic_8259`, `init_apic` | edges between the two halves of an entry, firmware's old entries, an unbounded wait | no edge lost or astray once the table is masked |
| PCI (`pci/mod.rs`) | array of functions, `CONFIG_ADDRESS` | `scan_all_bus`, `scan_bus`, `scan_device`, `scan_function`; the `read_*` functions, `read_base_addr`, `is_xhc`, `is_intel` | recursion through bridges, capacity, odd topologies; fields packed in double words, base addresses in one or two registers | complete, without duplicates, bounded recursion; every field is that of the function asked for |
| PS/2 set-up (`ps2/*.rs`) | configuration byte, ports that work | `init` in ten steps | answers late or never, commands overwritten, keys pressed, broken parts | ends; returns only with tested devices; configuration agrees with the tests |
| Kernel loader (`bootloader/src/kernel.rs`) | extent, pages, memory | `load_elf`, `copy_segment` | order of segments, zero fill, sizes that do not fit | segments complete, pages sufficient and where the kernel is |
| Boot (`bootloader/src/main.rs`, `common/src/boot.rs`, `kernel/src/main.rs`) | pages and who uses them, `BootInfo`, stage of the boot | `main_inner`, `exit_boot_services`, `switch_to_kernel_stack`, `main` | loader and frame manager share memory through a map made by the firmware; any part may fail; interrupts come before `main` is through | kernel and boot information keep their memory; every end has one of the reasons named |
| Frame buffer (`frame_buffer.rs`, `common/src/graphic.rs`, `graphic/mouse.rs`) | pixels | `init`, `fill_rect`, `draw_rect`, `write_char`, `write_string`, `draw_cursor` | borders of the screen, padded lines, byte order of two formats, stopping half way | exactly the shape is painted in its color, nothing past the buffer |
| GDT (`gdt.rs`) | three descriptors, segment registers | `init`, the setters | fields that overlap, order of the setters | fields as the processor reads them; registers load |
| Paging (`paging.rs`) | three levels of tables, `cr3` | `init` | sizes of the levels, `cr3` changed under the running code | identity map of the first 64 GiB at every instant, nothing else |
| `common::ArrayVec` (`arrayvec.rs`) | array of options, index | `push`, `next` | a list that is its own iterator and is copied | holds and yields what was pushed |
| Fonts, error types, `timer.rs` | - | - | - | - |

Parts interact through calls in `main` (in the order above), through the boot
information (memory map, RSDP address, frame buffer), through the console's lock,
which `main` and both handlers try, through the PS/2 controller's single output
buffer, and through the MADT, from which `init_apic` takes ids.

`PROJECT.json` lists all parts, the hazards at their lines and which property
covers each one.

## Modules

**PhysMemManager**. `alloc_map` is the set of frames whose bit is 1; frames are
numbers, since every division in the source is by the page size. `InitEntry` is
one iteration of `init`'s loop, missing area first; `InitEntryPanics` is the same
iteration when it indexes past the bitmap. `AllocCall` and the four actions of
`AllocStep` are a call of `alloc` and one iteration of its outer loop. The
source's `i` is the constant 0, and so it is here. `MCPhysMemManager` has the
memory maps; `PhysMemManagerProofs` the proofs.

**Console** and **Terminal**. `Console` follows `print` and `new_line` character by
character and row by row. A cell of the screen is the set of glyphs painted in
it since it was filled last, because `write_char` clears nothing. Each `unwrap`
and `expect` is a guard whose failure is a panic named for it. `Terminal` is the
promise: a window on the last lines, in which characters are only dropped from a
full line. The refinement mapping reads the window from the buffer; while a
scroll runs, the rows it has not reached are read one row lower.

**Interrupts**. One CPU and two contexts, `main` and the handler that interrupted
it. `kprintln!` is four steps: lock and print the text, lock and print the line
feed. `PanicIn` restarts the panic handler one frame deeper. The machine around
it, the output buffer, the mask bits and the local APIC's request and in-service
bits, is external and modelled from how the handlers use it.

**Acpi** and **ApicInit**. `Acpi` goes from the RSDP to `ApicInfo`; `ApicInit`
extends it with the 8259, the local APIC's register writes in their order and
the redirection table, whose entries are written in two halves. An edge may come
in any state; what became of the last one is the variable `edge`.

**Pci** composes the two modules of `pci/mod.rs`. A machine is what its functions hold
in configuration space; `HeadersOf` is what the `read_*` functions return of it to the
scan. A behaviour scans a machine or reads functions one access after the other,
since the two share nothing but the machine. `PciProofs` has the proofs.

**PciScan**. The calls that have not returned are a stack of frames, one per
`scan_all_bus`, `scan_bus` or `scan_device`; one action is one iteration.
`Reachable` is the reference definition of what should be found: the functions seen
on the buses of the smallest set that has the root buses and, with a bus, the buses
behind its bridges.

**Ps2Init**. The program is four tables (`CommandAt`, `AfterCommand`, `DataAt`,
`AfterData`) and the reads with what they do to the driver's variables
(`Step5`...`Step10`). A byte is the set of its one bits. A wait that gives up may
do so in any state in which it has not succeeded, since nothing relates the
1000 polls to the hardware's speed. Controller and devices are external. A byte of
`LeftOver` may wait from before the kernel. The driver turns the controller's
translation off; codes translated to set 1 before that are not modelled.

**Input** composes `Ps2Init` and `Interrupts`, the two phases of the input path. The
second starts where `ps2::init` has returned and assumes nothing of what that left: a
byte that still waits is, to it, one that comes while the lines are masked. So a
behaviour is one of either phase; their product would only multiply the ends of the one
with the steps of the other. `InputProofs` has the proofs.

**KernelLoader**. `Extent` and `CopySegment` are the two loops; memory maps
addresses to the file's byte, zero or what was there. The firmware chooses any
run of available pages, as `AnyPages` lets it. The file's bytes are constants: that
no segment is linked to where the firmware put the buffer with the file is assumed.
In `Boot` that buffer is a page like the firmware's other ones, and a copy over one is
memory `Overwritten`, after which anything may happen.

**Boot** composes `KernelLoader` and `PhysMemManager`: a page is one address of the
loader and one frame of the manager. `machine` is the set of parts that work;
`page_type` is the firmware's use of memory. `exit_boot_services` takes a page for
the memory map from what the firmware holds to be free, writes the map there and
makes the `memory_map` the manager gets. `_start` is the assembly that switches
stacks: it writes `rdi` before it reads its other operands, and which of them a
build keeps there is a choice of the compiler. `MainOrder` is the order of calls in
`main`; a step returns, halts with a message, or crashes if the panic handler
cannot print. `PageFault` is a read of `BootInfo` or of an ACPI table past the mapped
memory, before the kernel has an IDT. `Crash` is what a machine whose memory was
overwritten may do at any time. Three actions come from outside and are remembered in
`event`: `Ps2Disturbed`, the panic of `ps2::init` after a timeout, a lost command or a
key (in detail in `Ps2Init`); `HandlerInPrint`, from `main.rs:104` on, a handler that
finds the console's lock held, by the print at `main.rs:108` or by that of a panic (in
detail in `Interrupts`); and `StrayInterrupt`, a vector without a gate (the local
APIC's error vector 51, the spurious vector 0xff, one of the redirection entry that
the loop leaves as it was), which becomes a double fault. A handler that finds the lock
free prints and returns, and changes nothing of the boot. Before `main.rs:104` no
interrupt is taken; the kernel relies on the firmware for that, and so does the model.

**PciConfig**. The two-step access through `CONFIG_ADDRESS` and `CONFIG_DATA`. A
number is the set of its one bits, so shifts and masks are set operations. What a
function holds is kept as fields; `DoubleWord` packs them as the hardware does and
`Field` cuts them out as the code does. `Holds` is what is assumed of a function: its
fields have their width, 0xffff is no vendor, bit 2 is clear in a 32-bit memory base
address, and a 64-bit one is followed by its upper half.

**FrameBuffer**. An operation is up to three nested loops whose counters are `at`;
`Outer`, `Middle` and `Inner` are their bounds and `PixelAt` the pixel of a turn.
`write_pixel` is a turn that writes: checked, converted and stored at `y * width + x`;
`Skip` is one that writes nothing (a zero bit of a glyph, a blank of the cursor).
`Picture` reads memory as the display does, with the stride. The console's own module
stays with cells of text.

**Gdt**. `init` as the sequence of its stores, each a mask and an OR
(`Put`); then the segment registers one by one, with the processor's checks.

**Paging**. The two loops entry by entry, in units of 2 MiB pages. `Translate` is the
processor's walk through whatever `cr3` names.

**ArrayVec**. The list and one copy that a `for` loop consumes; both are iterators.

**Parts** composes `Paging`, `Gdt`, `FrameBuffer` and `ArrayVec`, which share no
state: the initial state says which of them runs, and the others stay as they are.
Their product would add nothing but interleavings of independent steps. `MCParts`
has the values of one instance; `PartsProofs` the proofs about all of them.

Operators marked `Mutant` are not part of a model: each is a plausible mistake in
the operator that follows it, kept to see that a property notices it.

## Runs

| Run | Bounds | What it shows |
|---|---|---|
| `phys_mem` | bitmap of 4 frames, memory of 5, up to 3 descriptors, requests up to 2 frames | `init` on all disjoint maps in every order, with areas past the bitmap; all calls end |
| `alloc_comment` | 2 descriptors | **violated**: `alloc` returns `None` although free frames exist |
| `console` | 3 rows, 3 columns, strings up to 2 characters of 2 letters, line feed and a non-ASCII one; frame buffer exact or one pixel short | no `unwrap` fails, screen and buffer agree, `Terminal` is implemented |
| `input` | set-up: 64 machines, two keys, one byte left over, flush bound 2; after it: 5 bytes, flush bound 2, 3 stack frames | tested devices only, panics only after a disturbance, configuration as tested, `init` ends; acknowledgement, no byte forgotten, where the lock fails, bytes are eventually taken |
| `console_lock` | 2 bytes | **violated**: an interrupt inside `kprintln!` makes the handler's `unwrap` fail |
| `apic_init` | 4 lines, up to 3 tables, firmware entries masked or open and of any destination, I/O APIC ids 3 and 18 | panic exactly on incomplete tables; edges handled once the table is masked; boot ends |
| `redirection_table` | 2 tables | **violated**: the last entry is not masked |
| `pci` | scanned: 3 buses of 2 devices of 2 functions, up to 4 functions, at most 3 of them bridges, room for 3; read: 6 locations at the corners of the numbering, indices up to 7, calls in any order | all topologies, cyclic ones too: completeness, uniqueness in trees, bounded nesting, on the topology the configuration reads make of the machine; every field and memory base address is right, `Err` exactly past the registers |
| `kernel_loader` | 3 pages of 2 bytes, 2 headers, file of 3 bytes | segments complete, enough pages |
| `boot` | 7 pages, 6 in the bitmap, 5 mapped; every use of the pages by the firmware; machines that lack at most one of 11 parts; a disturbed `ps2::init`, interrupts from `main.rs:104` on; 3 kernel files | a kernel loaded where pages were allocated keeps its memory, boot information is read in time, the boot ends, and its end has one of the named reasons, events from outside among them: a complete machine too may halt or crash, by a stray vector, a disturbed `ps2::init` or an interrupt in a print |
| `parts` | page tables of 14 entries with 9 directories; bases, limits and levels at the borders of a descriptor's fields; a screen of 3 x 2 pixels with and without a padding column, both formats, rectangles up to 3 x 3 (filled ones also empty), glyphs of 2 x 2, a cursor with blanks, two operations in a row; a list of capacity 3 with 2 elements | identity map before, at and after the change of `cr3` and nothing else mapped; descriptors encode the arguments and registers load; nothing painted past the buffer, exactly the shape in its color; contents of the list, order of iteration, panic only past a full one |

Why the bounds are enough. Three descriptors give a gap, an overlap of ends and
a disorder; one frame past the bitmap is past it. Three rows give a first, a
middle and a last row for a scroll, and three columns a line that is full one
before its end. Two bytes suffice for a handler that empties the buffer of
another's byte, five for several of these in a row. A flush bound of 2 is reached and
passed: by a byte left over and two keys, and by three bytes of the devices. The
array of PCI functions overflows at the fourth of four functions; three buses and
three bridges give a nested bridge, a cycle and a bus that two bridges lead to. Two segments can overlap, touch a
page border, and come in falling order. In `boot` a run of three pages for the
kernel, a page for the map, one for `BootInfo` and a reserved one fit, and there
is a page past the page tables and one past the bitmap. The page tables
have more entries than directories, as the real ones do. The fields of a
descriptor and of a PCI address are of their real width.

Names of bounds: `MaxRequest`, `Top`, `MaxEntries`, `MaxString`, `MaxBytes`,
`MaxPanics` (the kernel stack), `loop_timeout` (the code's own), `MaxTables`,
`MaxFunctions`, `MaxBridges`, `MaxKeys`, `MaxHeaders`, `MaxSize`, `MaxIndex`, `MaxRect`, `MaxCalls`.

### Fairness

`PhysMemManager`: the loops of `init` and `alloc` are executed; nothing else is
assumed. `Interrupts`: the CPU executes the running context and takes a request
that stays pending while it may; devices promise nothing. `ApicInit`: the CPU runs,
and the message whose delivery status the kernel polls without a bound is
delivered. `Ps2Init`: only the driver is fair; the hardware may stay silent for
ever. `Boot`: one CPU executes the bootloader, then `main`, and nothing else; what
comes from outside (`Outside`) has no fairness.

## Disagreements with what the source says

1. `phys_mem_manager.rs:128`: "If there are `number_of_frame`-consecutive free
   frames, following condition is true." The counter never moves, so `alloc`
   fails for every request of one frame or more.
2. `console.rs:179`, `console().unwrap()`: the lock is not free when a handler
   interrupts `main` inside `kprintln!`; the panic handler then fails the same way
   without end.
3. `interrupts.rs:142`: "Mark all interrupts edge-triggered, active high, disabled,
   and not routed to any CPUs." The loop stops before the last entry.

Three more were met while modelling and have no run of their own:

- `pci/mod.rs:174`: "Initialize devices. Scan all devices and store them." The
  33rd function panics; `PanicsOnlyWhenFull` says that in a tree nothing else does.
- `bootloader/src/kernel.rs:82`, "Failed to allocate pages for the kernel.": the
  pages allocated are not the ones the kernel is copied to. `Boot` shows what
  follows: the firmware may write the memory map over the kernel, and the frame
  manager has the kernel's frames as free. `KernelKept` holds where the firmware
  happens to choose the pages the kernel is linked to.
- `pci/mod.rs:91`: "If 2 bit is enabled, stored address is 64bit." So it is in a
  memory base address, which is what `BaseAddrRead` is about; in an I/O one the bit
  belongs to the address.

## Proofs

All proofs are in modules of their own and use only the named assumptions of the
modules they extend: sizes are positive, maps and strings are sequences of the right
things, what the hardware holds has its width. TLC evaluates each of them in a run.

**PhysMemManagerProofs**, for every bitmap size and every memory map.
`NoReservedFrameFree` speaks only of the time after `init`, so it is not
inductive. `LoopInv` says what the loop has done so far: used areas of the
descriptors met are marked (`UsedMarked`), and below the last available end only
frames of an available descriptor are clear (`GapsMarked`). `RangeInv` ties the
managed range to the end of a descriptor, which is what bounds the reads of
`alloc`. Theorems: `TypeCorrect`, `ReservedFramesSafe`, `PanicsOnlyPastBitmap`.
`InitKeepsUsable` needs the converse for sorted maps (`SortedInv`): nothing that
is marked is usable, because the last available end never passes the next
descriptor.

**ConsoleProofs**, for every size of console, glyph and frame buffer. Between two
characters the cursor stands at the end of its line and the rows below are empty
(`CursorInv`); during a scroll the rows not reached are blank on the screen
(`ShowInv`). The bounds checks follow from the one `init` made, by the lemmas
`CellEnd` and `CellFits` about products. Theorems: `NoUnwrapFails`,
`ScreenFaithful`, and `ConsoleImplementsTerminal`, where a line feed on the last
row takes effect at the first step of the scroll and the other steps leave the
window as it is.

**InputProofs**, for every number of keys, bytes, polls and stack frames. `ps2::init`
reads answers from a buffer in which anything may lie: late answers, scan codes, a
configuration byte. `SelfTestsPassed` needs that none of these is taken for a device's
0xAA. `SInv` has the argument: every byte from before the resets has bit 2, or lacks bit
3 or 7, unlike 0xAA (`Plain`). This holds of the scan codes of set 2 and of the test
results, and stays true of a configuration byte, even one made from a stale answer,
because `init` leaves bits 2, 3 and 7 alone (`ByteInv`); what lay in the buffer before the kernel is flushed before the
first answer (`EarlyInv`); then the keyboard's 0xAA comes at most once and is consumed
before the mouse is reset (`KeyboardInv`, `MouseInv`). The other two properties are
about undisturbed runs: there both buffers, both configuration bytes and the devices
follow from where the driver is (`UInv`). Assumed are the two facts about bytes
(`Ps2Assumption`). Theorems: `SelfTestsPassedHolds`, `PanicsOnlyIfDisturbedHolds`,
`ConfiguredAsTestedHolds`.

For the handlers, the lock is held exactly by a context inside a print (`LockInv`), a
handler past its first `try_lock` did not interrupt one (`HandlerLockInv`), `main`
panics at most once (`MainInv`), and a byte that came during a flush has its request
(`FlushInv`). Theorems: `EveryInterruptAcknowledged`, `BytesNotForgotten`,
`LockPanicOnlyInsidePrint`. In each phase the other part does not move
(`EachOfItsOwn`), so all six are theorems of `InputSpec`.

**ApicInitProofs**, for every set of tables and every number of lines. `AcpiInv`
follows the walk: the pointers name the last table of each kind among those looked
at (`PointersInv`), and what a stage has passed is there (`ProgressInv`). That
`init_apic` is reached only with complete tables (`PanicsExplained`) is its end;
`EdgesHandled` needs a second invariant, `ApicInv`: the local APIC's registers as the
writes so far left them (`RegistersInv`), the entries the mask loop has passed are
masked (`TableInv`, `MaskedInv`), and only the two redirected lines are opened after
it; the old destinations are gone where the loop has passed (`DestInv`). So an edge
that comes after the loop finds its entry masked or complete.

**KernelLoaderProofs**, for every page size, memory and set of ELF files. The extent
covers the headers met (`ExtentInv`), the pages asked for are those of the extent
rounded out (`RunInv`, with the lemmas `PageOfByte` and `RunSize` about the two
divisions), each segment copied is complete as long as no later one overlaps it
(`CopiedInv`), and what was written is in a segment (`WrittenInv`). Theorems:
`AllSegmentsLoaded`, `PagesSuffice`.

**PciProofs**, for every topology, cyclic ones too. `ShapeInv` says which loop
may have called which, so that a stack has at most two frames for each function
stored (`DepthInv`). Whatever is on the stack or stored was reached (`SoundInv`).
Completeness is `CoverInv`: what is behind a stored bridge, and what remains of a
root's loop, is stored or still ahead of a frame on the stack. When the stack is
empty, the buses of stored functions and roots are then a closed set, and the
smallest one is inside it. In a tree no function ahead of a frame is stored and no
bus is called twice (`OnceInv`), so the array has no duplicates, and a full array
means more functions than it has room for, by counting (`PanicInv`). The proofs
assume `FunctionCount <= BusCount` (8 and 256), without which a root bus that is a
function number would be no bus. Theorems: `TypeCorrect`, `DepthBounded`,
`CompleteScan`, `OncePerFunction`, `FailsOnlyWhenFull`.

The accesses, for every machine whose functions hold what `Holds` says. A number below
256 is given by its bits and every set of eight bits is one (`BitsDiffer`, `BitsOnto`,
digit by digit). So an address selects the function and the double word it was made
from and no other (`AddressParts`, `SelectedIsAsked`, `DataOfAsked`), and the masks and
shifts cut out the fields that were packed (`VendorAndDevice`, `HeaderTypeCut`,
`ClassCodeCut`, `SecondaryCut`). `AccessInv` follows the calls: the address was made
for the call going on (`AddressInv`), the second half of a base address is read only
after a first one that has bit 2 (`OffsetInv`), and what was returned last is what the
machine holds (`ReturnInv`). Theorems: `FieldsReadHolds`, which includes that the scan
goes by the machine's own topology, and `BaseAddrReadHolds`. All theorems are about
`PciSpec`: the accesses leave the scan alone (`InvAlways`).

**PartsProofs**, for every size of the tables and of the list. Page tables: what
the loops have written is final (`Level2Inv`), the rest of the two upper levels is
zero (`Level4Inv`, `Level3Inv`), and `cr3` is written when both loops are through
(`LoopInv`); the lemma `WalkFinds` puts the three levels together. Theorems:
`TypeCorrect`, `IdentityAlways`, `NothingElse`. List: the array holds what was pushed
and then nothing (`VecInv`), the copy holds a prefix of that (`IterInv`), and what the
loop yielded is what was pushed from where it began (`YieldInv`). Theorems:
`LoopYieldsPushed`, `PanicNeedsFullList`. Descriptor table, for every base, limit and
privilege level asked for: each store can be read in its descriptor from then on
(`StoresInv`), because no other store to that descriptor reaches its bits (lemma
`FieldsApart`), but for the four that later ones replace: the two that clear a
descriptor, and two flags `set_data_segment` writes and `set_code_segment` writes
again. So the descriptors hold what was asked for when `lgdt` runs (`BothEncode`), and
the segment registers are loaded exactly when the level is 0 (`SegmentInv`). Theorem:
`DescriptorsRight`. Frame buffer, for every screen, font, cursor and sequence of calls:
the turns of the loops are passed in the order of their counters (`AfterPasses`), so at
any turn the places of the turns passed that write have their color and all others are
as before the operation (`PaintInv`); and the places of all turns that write are the
shape (`ShapePainted`, one lemma for each operation). That a word stored lies in the
buffer, and that two pixels have two words, are facts about products (`WordInside`,
`WordsApart`); that the display reads the color drawn is the conversion of both formats
(`ColorKept`). Assumed are a buffer of at least `stride * height` words, rows of glyphs
no wider than a character, and the calls of `Operation`. Theorems:
`DrawingStaysInside`, `DrawingExact`.

**BootProofs**, for every memory, kernel file, firmware and machine. `KernelKept` goes
across the two components. The loader's pages were free before and are not free
after (`FirmwareInv`), so the page of the memory map is none of them; a segment
copied stays complete if the segments do not overlap and no map is written over it
(`CopiedInv`), and outside the segments only the map's page is written
(`WrittenInv`). The map lists every page of the loader as its own (`MapInv`, with the
lemma `Places`: the pages listed have the places 1, 2, ... in it, each its own), and
the manager's loop has marked those it has met (`ManagerInv`). `BootInfoInTime` adds
that the manager is not ready before `main` prints its last message (`StageInv`), and
`OutcomesExplained` that a stage is reached only on a machine that has the parts, and
the pages below the limits, of the stages before it (`PartsInv`), and that a manager
that is ready has met every reserved page below the end of its bitmap (`ReadyBelow`,
from `MapInv` and `ManagerInv`). An event from outside is a reason of its own
(`OutsideKeeps`). Assumed of a kernel file is that its segments lie in memory that is
mapped, as the build's image base of 256 MiB makes them. Theorems: `KernelAlwaysKept`,
`BootInfoInTime`, `OutcomesExplained`.

The type invariants of `Console`, `Interrupts`, `ApicInit`, `KernelLoader` and
`ArrayVec` are part of the inductive invariants proved and are not checked by a run
again.

Only model-checked are the liveness properties, since fairness and ENABLED are out of
the prover's reach, and the three properties that the code violates.

## Not modelled

The shapes of fonts and cursor, which are data; error types, which carry no state;
the UEFI protocols the bootloader calls, which work or fail as a whole; and
`timer.rs`, which is not compiled. Handlers for breakpoint and timer have no source
in the kernel as it is; the double fault handler appears in `Boot` only. Errors the
local APIC reports itself (vector 51) and spurious interrupts (vector 0xff), which
have no gate in the IDT, appear in `Boot` only, where they may come at any time:
nothing in the source says when they do. That a fault of the processor finds the
kernel's own stack usable is assumed. `draw_rect` of an empty rectangle is left out, since no code calls it.

## Plan

Every part is modelled and model-checked, the boot as their composition too, and every
invariant the runs check is proved. What is left is out of the prover's reach
(liveness) or comes with the code: the local APIC timer and the drivers to come.
