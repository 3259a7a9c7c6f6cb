----------------------------- MODULE Interrupts -----------------------------
(***************************************************************************)
(* The kernel from the end of ps2::init to its idle loop, and the two      *)
(* interrupt handlers that share the CPU, the console's lock and the PS/2  *)
(* controller with it (kernel/src/main.rs, interrupts.rs, console.rs and   *)
(* ps2/controller.rs).                                                     *)
(*                                                                         *)
(* There is one CPU.  Context "main" is the code main calls, context "irq" *)
(* is the handler that interrupted it; the gates of the IDT are interrupt  *)
(* gates, so no interrupt is taken while a handler runs.  The keyboard and *)
(* the mouse share the controller's one-byte output buffer; a byte put     *)
(* there raises an edge on the source's line, which the I/O APIC turns     *)
(* into a request at the local APIC unless the line's entry is masked.     *)
(***************************************************************************)
EXTENDS Integers

CONSTANTS
  loop_timeout,   \* how often flush_data_port polls
  MaxBytes,       \* bound: bytes the devices send
  MaxPanics       \* bound: nested panics the kernel stack has room for

ArgumentsOK ==
  loop_timeout \in Nat \ {0} /\ MaxBytes \in Nat /\ MaxPanics \in Nat \ {0}

Contexts == {"main", "irq"}

\* The devices, which also name their lines and their vectors.
IRQ == {"Keyboard", "Mouse"}

VARIABLES
  pc,           \* where each context is; "idle" for no handler
  msg,          \* what each context is printing with kprintln
  panics,       \* how often each context has panicked
  interrupts,   \* main runs with interrupts "enabled" or "disabled"
  console,      \* CONSOLE: the context that holds the lock, or "free"
  output,       \* the controller's output buffer: a byte's source, or "empty"
  edge,         \* the edge of the byte put there last: "lost" if its line was
                \* masked, else "raised"
  masked,       \* the lines whose redirection entry is masked
  irr, isr,     \* local APIC: interrupts requested and in service
  count,        \* flush_data_port: its loop counter
  sent          \* bytes the devices have sent

vars == <<pc, msg, panics, interrupts, console, output, edge, masked, irr,
          isr, count, sent>>

\* ps2::init has returned and main calls interrupts::init, whose first effect
\* here is the kprintln! before the I/O APIC is set up.
Init ==
  /\ pc = [c \in Contexts |-> IF c = "main" THEN "lock_text" ELSE "idle"]
  /\ msg = [c \in Contexts |-> IF c = "main" THEN "io_apic_base" ELSE "none"]
  /\ panics = [c \in Contexts |-> 0]
  /\ interrupts = "disabled"
  /\ console = "free"
  /\ output = "empty"
  /\ edge = "raised"
  /\ masked = IRQ
  /\ irr = {}
  /\ isr = {}
  /\ count = 0
  /\ sent = 0

\* The context the CPU executes.
Running == IF pc["irq"] = "idle" THEN "main" ELSE "irq"

At(c, label) == Running = c /\ pc[c] = label

GoTo(c, label) == pc' = [pc EXCEPT ![c] = label]

machine == <<output, edge, masked, irr, isr, sent>>

(***************************************************************************)
(* The devices and the I/O APIC.                                           *)
(***************************************************************************)
Request(d) ==
  /\ irr' = IF d \in masked THEN irr ELSE irr \union {d}
  /\ edge' = IF d \in masked THEN "lost" ELSE "raised"

DeviceByte(d) ==
  /\ output = "empty"
  /\ sent < MaxBytes
  /\ output' = d
  /\ Request(d)
  /\ sent' = sent + 1
  /\ UNCHANGED <<pc, msg, panics, interrupts, console, masked, isr, count>>

\* The CPU takes the request with the highest vector: the mouse's.  Both are
\* in one priority class, so a handler's interrupt holds back the other one.
Interrupt(d) ==
  /\ Running = "main"
  /\ interrupts = "enabled"
  /\ isr = {}
  /\ d \in irr
  /\ d = "Keyboard" => "Mouse" \notin irr
  /\ irr' = irr \ {d}
  /\ isr' = {d}
  /\ count' = 0
  /\ pc' = [pc EXCEPT !["irq"] = IF d = "Keyboard" THEN "read_data" ELSE "flush"]
  /\ msg' = [msg EXCEPT !["irq"] = IF d = "Keyboard" THEN "pressed" ELSE "moved"]
  /\ UNCHANGED <<panics, interrupts, console, output, edge, masked, sent>>

(***************************************************************************)
(* The handlers up to their kprintln!.                                     *)
(***************************************************************************)
TakeByte == output' = "empty" /\ edge' = "raised"

\* keyboard().read_data(): takes the byte in the output buffer, whichever
\* device it came from, or polls an empty buffer until it gives up; the
\* result is not looked at.
ReadData ==
  /\ At("irq", "read_data")
  /\ TakeByte
  /\ GoTo("irq", "lock_text")
  /\ UNCHANGED <<msg, panics, interrupts, console, masked, irr, isr, count, sent>>

\* flush_data_port(): the loop is entered again while there is a byte.
FlushByte ==
  /\ At("irq", "flush")
  /\ output # "empty"
  /\ count < loop_timeout
  /\ TakeByte
  /\ count' = count + 1
  /\ UNCHANGED <<pc, msg, panics, interrupts, console, masked, irr, isr, sent>>

\* Mutant: the mouse handler does not flush.
FlushEndsAtOnce ==
  /\ At("irq", "flush")
  /\ GoTo("irq", "lock_text")
  /\ UNCHANGED <<msg, panics, interrupts, console, machine, count>>

FlushEnds ==
  /\ At("irq", "flush")
  /\ output = "empty" \/ count >= loop_timeout
  /\ GoTo("irq", "lock_text")
  /\ UNCHANGED <<msg, panics, interrupts, console, machine, count>>

(***************************************************************************)
(* kprintln! takes the lock twice: for the text and for the line feed.     *)
(* console() is try_lock, and its unwrap panics when the lock is held.     *)
(* The panic handler is two kprintln!s and a loop of hlt, in the context   *)
(* that panicked; a panic in it starts it again, one frame deeper.         *)
(***************************************************************************)
PanicIn(c) ==
  /\ panics' = [panics EXCEPT ![c] = @ + 1]
  /\ msg' = [msg EXCEPT ![c] = "panic"]
  /\ GoTo(c, IF panics[c] + 1 < MaxPanics THEN "lock_text" ELSE "overflow")

TryLock(c, from, to) ==
  /\ At(c, from)
  /\ IF console = "free"
       THEN console' = c /\ GoTo(c, to) /\ UNCHANGED <<msg, panics>>
       ELSE PanicIn(c) /\ UNCHANGED console
  /\ UNCHANGED <<interrupts, machine, count>>

LockText(c) == TryLock(c, "lock_text", "text")
LockFeed(c) == TryLock(c, "lock_feed", "feed")

\* Mutant: the guard of the text lives until the line feed is printed.
TextPrintedHeld(c) ==
  /\ At(c, "text")
  /\ GoTo(c, "lock_feed")
  /\ UNCHANGED <<msg, panics, interrupts, console, machine, count>>

\* write_fmt is done and the guard is dropped.
TextPrinted(c) ==
  /\ At(c, "text")
  /\ console' = "free"
  /\ GoTo(c, "lock_feed")
  /\ UNCHANGED <<msg, panics, interrupts, machine, count>>

\* What follows a kprintln!, by its message.
Continue(c) ==
  CASE msg[c] = "io_apic_base"   -> "check_id"
    [] msg[c] = "it_didnt_crash" -> "hlt"
    [] msg[c] = "panic"          -> "lock_text"
    [] msg[c] = "info"           -> "halted"
    [] OTHER                     -> "eoi"

\* println("") is done and the guard is dropped.
FeedPrinted(c) ==
  /\ At(c, "feed")
  /\ console' = "free"
  /\ GoTo(c, Continue(c))
  /\ msg' = [msg EXCEPT ![c] = IF @ = "panic" THEN "info" ELSE @]
  /\ UNCHANGED <<panics, interrupts, machine, count>>

\* Mutant: the handler returns without an end of interrupt.
ReturnWithoutEoi ==
  /\ At("irq", "eoi")
  /\ GoTo("irq", "idle")
  /\ UNCHANGED <<msg, panics, interrupts, console, machine, count>>

\* write_end_of_interrupt_register(0), and the handler returns.
EndOfInterrupt ==
  /\ At("irq", "eoi")
  /\ isr' = {}
  /\ GoTo("irq", "idle")
  /\ UNCHANGED <<msg, panics, interrupts, console, output, edge, masked, irr,
                 count, sent>>

(***************************************************************************)
(* main: the rest of init_apic, sti, the memory manager, the last message. *)
(***************************************************************************)
\* The id of the I/O APIC must be the one the MADT gives.
CheckId(equal) ==
  /\ At("main", "check_id")
  /\ IF equal THEN GoTo("main", "mask") /\ UNCHANGED <<msg, panics>>
              ELSE PanicIn("main")
  /\ UNCHANGED <<interrupts, console, machine, count>>

\* The loop over the redirection entries masks the lines.
MaskAll ==
  /\ At("main", "mask")
  /\ masked' = IRQ
  /\ GoTo("main", "redirect_keyboard")
  /\ UNCHANGED <<msg, panics, interrupts, console, output, edge, irr, isr,
                 count, sent>>

Redirect(d, from, to) ==
  /\ At("main", from)
  /\ masked' = masked \ {d}
  /\ GoTo("main", to)
  /\ UNCHANGED <<msg, panics, interrupts, console, output, edge, irr, isr,
                 count, sent>>

RedirectKeyboard == Redirect("Keyboard", "redirect_keyboard", "redirect_mouse")
RedirectMouse    == Redirect("Mouse", "redirect_mouse", "enable")

EnableInterrupts ==
  /\ At("main", "enable")
  /\ interrupts' = "enabled"
  /\ GoTo("main", "mem_init")
  /\ UNCHANGED <<msg, panics, console, machine, count>>

\* PhysMemManager's init, which may panic.
MemInit(panicking) ==
  /\ At("main", "mem_init")
  /\ IF panicking
       THEN PanicIn("main")
       ELSE /\ GoTo("main", "lock_text")
            /\ msg' = [msg EXCEPT !["main"] = "it_didnt_crash"]
            /\ UNCHANGED panics
  /\ UNCHANGED <<interrupts, console, machine, count>>

\* The loops of hlt, and a stack that has overflowed.
Idle ==
  /\ pc[Running] \in {"hlt", "halted", "overflow"}
  /\ UNCHANGED vars

Kprintln(c) == LockText(c) \/ TextPrinted(c) \/ LockFeed(c) \/ FeedPrinted(c)

HandlerStep ==
  ReadData \/ FlushByte \/ FlushEnds \/ Kprintln("irq") \/ EndOfInterrupt

MainStep ==
  \/ Kprintln("main")
  \/ \E equal \in BOOLEAN : CheckId(equal)
  \/ MaskAll \/ RedirectKeyboard \/ RedirectMouse \/ EnableInterrupts
  \/ \E panicking \in BOOLEAN : MemInit(panicking)

Next ==
  \/ \E d \in IRQ : DeviceByte(d)
  \/ \E d \in IRQ : Interrupt(d)
  \/ HandlerStep
  \/ MainStep
  \/ Idle

Spec == Init /\ [][Next]_vars

\* The CPU executes the running context, and takes a request it may take before
\* main's code goes on for ever; the devices promise nothing.
FairSpec ==
  /\ Spec
  /\ WF_vars(HandlerStep)
  /\ WF_vars(MainStep)
  /\ WF_vars(\E d \in IRQ : Interrupt(d))

-----------------------------------------------------------------------------
(***************************************************************************)
(* Properties                                                              *)
(***************************************************************************)

\* Every variable has its type.
TypeOK ==
  /\ pc \in [Contexts -> {"idle", "read_data", "flush", "lock_text", "text",
                          "lock_feed", "feed", "eoi", "check_id", "mask",
                          "redirect_keyboard", "redirect_mouse", "enable",
                          "mem_init", "hlt", "halted", "overflow"}]
  /\ msg \in [Contexts -> {"none", "io_apic_base", "it_didnt_crash", "pressed",
                           "moved", "panic", "info"}]
  /\ panics \in [Contexts -> 0 .. MaxPanics]
  /\ interrupts \in {"enabled", "disabled"}
  /\ console \in {"free", "main", "irq"}
  /\ output \in IRQ \union {"empty"}
  /\ edge \in {"raised", "lost"}
  /\ masked \subseteq IRQ
  /\ irr \subseteq IRQ
  /\ isr \subseteq IRQ
  /\ count \in 0 .. loop_timeout
  /\ sent \in 0 .. MaxBytes

\* An interrupt is in service exactly while its handler, or the panic handler
\* that replaced it, runs: main never goes on with an interrupt that was not
\* acknowledged, which would hold back every later one (interrupts.rs:174-186).
InServiceOnlyInHandler == (isr = {}) <=> (Running = "main")

\* A byte in the output buffer has a request pending or a handler about to take
\* it, unless it came before its line was unmasked: no byte that was signalled
\* is forgotten and blocks the buffer for both devices (interrupts.rs:151-186).
NoByteForgotten ==
  output # "empty" =>
    output \in irr \/ pc["irq"] \in {"read_data", "flush"} \/ edge = "lost"

\* main's own kprintln!s always get the lock, also when interrupted between the
\* text and the line feed; a handler fails to get it only because it interrupted
\* main inside one of them, and then its panic handler fails for ever: it never
\* prints (console.rs:168-182, main.rs:114-121).
PanicOnlyInsidePrint ==
  /\ panics["main"] <= 1
  /\ panics["irq"] > 0 => console = "main" /\ pc["irq"] \in {"lock_text", "overflow"}

\* A handler is stuck in a panic, or main in one with interrupts disabled.
Dead ==
  \/ panics["irq"] > 0
  \/ panics["main"] > 0 /\ interrupts = "disabled"

\* Every byte that raised an interrupt is taken from the controller, so the
\* devices can send the next one, as long as the kernel is alive
\* (interrupts.rs:174-186).
BytesAreTaken == output # "empty" ~> (output = "empty" \/ edge = "lost" \/ Dead)

\* console.rs:179, in kprintln!: "console().unwrap()".  The unwrap asserts that
\* the lock is free wherever the kernel prints, in the handlers too.
ConsoleUnwraps == panics["irq"] = 0
=============================================================================
