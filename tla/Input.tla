------------------------------- MODULE Input --------------------------------
(***************************************************************************)
(* The input path: ps2::init, and the kernel from its return on, with the  *)
(* two interrupt handlers.  The second begins where the first has          *)
(* returned, whatever that left: a byte that still waits then is one that  *)
(* comes while its line is masked.  So a behaviour is one of either phase, *)
(* and the other one stays in an initial state.                            *)
(***************************************************************************)
EXTENDS Ps2Init

CONSTANTS MaxBytes, MaxPanics                                          \* Interrupts

VARIABLES
  phase,                                                               \* "setup" or "run"
  irq_pc, msg, panics, interrupts, console, output, edge,              \* Interrupts
  masked, irr, isr, irq_count, sent

irqvars == <<irq_pc, msg, panics, interrupts, console, output, edge, masked, irr, isr,
             irq_count, sent>>
allvars == <<phase, vars, irqvars>>

I == INSTANCE Interrupts WITH pc <- irq_pc, count <- irq_count

ASSUME InterruptsAssumption == I!ArgumentsOK

InputInit ==
  /\ phase \in {"setup", "run"}
  /\ Init
  /\ phase = "run" => /\ machine = CHOOSE any \in Machine : TRUE
                      /\ config = CHOOSE any \in BootConfigs : TRUE
                      /\ out = << >>
  /\ I!Init

In(which, step) == phase = which /\ step /\ UNCHANGED phase

InputNext ==
  \/ In("setup", Next) /\ UNCHANGED irqvars
  \/ In("run", I!Next) /\ UNCHANGED vars

InputSpec == InputInit /\ [][InputNext]_allvars

\* The fairness of Ps2Init and of Interrupts, each in its phase.
FairInputSpec ==
  /\ InputSpec
  /\ WF_allvars(In("setup", DriverStep) /\ UNCHANGED irqvars)
  /\ WF_allvars(In("run", I!HandlerStep) /\ UNCHANGED vars)
  /\ WF_allvars(In("run", I!MainStep) /\ UNCHANGED vars)
  /\ WF_allvars(In("run", \E d \in I!IRQ : I!Interrupt(d)) /\ UNCHANGED vars)

-----------------------------------------------------------------------------
(***************************************************************************)
(* Properties, beside those of Ps2Init                                     *)
(***************************************************************************)

\* ps2::init ends (see Ps2Init; ps2/controller.rs:61-90).
SetupEnds == phase = "setup" => InitEnds

\* main never goes on with an interrupt that was not acknowledged (see Interrupts;
\* interrupts.rs:174-186).
InServiceOnlyInHandler == I!InServiceOnlyInHandler

\* A byte in the output buffer that was signalled has a request or a handler (see
\* Interrupts; interrupts.rs:151-186).
NoByteForgotten == I!NoByteForgotten

\* Only a handler that interrupted main inside kprintln! fails to get the console's
\* lock (see Interrupts; console.rs:168-182, main.rs:114-121).
PanicOnlyInsidePrint == I!PanicOnlyInsidePrint

\* Every byte that raised an interrupt is taken from the controller, as long as the
\* kernel is alive (see Interrupts; interrupts.rs:174-186).
BytesAreTaken == I!BytesAreTaken
=============================================================================
