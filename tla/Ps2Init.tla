------------------------------ MODULE Ps2Init -------------------------------
(***************************************************************************)
(* ps2::init: the driver's dialogue with the PS/2 controller, the keyboard *)
(* and the mouse (kernel/src/ps2/mod.rs, controller.rs, keyboard.rs and    *)
(* mouse.rs), run by main with interrupts disabled.                        *)
(*                                                                         *)
(* The driver is a program of four kinds of steps: write_command, which    *)
(* does not wait; write_data, which waits for an empty input buffer;       *)
(* read_data, which waits for a byte; and the flush.  Every wait gives up  *)
(* after loop_timeout polls, so a slow controller may answer too late.  A  *)
(* byte is the set of its bits that are 1.                                 *)
(*                                                                         *)
(* The controller and the devices are hardware: they are modelled from the *)
(* commands the driver sends and the answers it waits for.                 *)
(***************************************************************************)
EXTENDS Integers, Sequences

CONSTANTS
  MaxKeys,         \* bound: keys pressed during init
  loop_timeout,    \* bound on the flush
  BootConfigs,     \* the configuration bytes the firmware may leave
  LeftOver,        \* what may wait to be read from before the kernel
  Scancodes        \* what a key press sends

Byte == SUBSET (0 .. 7)

\* Bits 3 and 7 of the configuration byte are zero, and no code of scan code set 2
\* has both of them.
ArgumentsOK ==
  /\ MaxKeys \in Nat /\ loop_timeout \in Nat \ {0}
  /\ LeftOver \subseteq Byte
  /\ BootConfigs \union Scancodes \subseteq {byte \in Byte : ~ ({3, 7} \subseteq byte)}

ASSUME Ps2Assumption == ArgumentsOK

x00 == {}
x55 == {0, 2, 4, 6}             \* controller test passed
xAA == {1, 3, 5, 7}             \* SelfTestPassed
xFA == {1, 3, 4, 5, 6, 7}       \* Acknowledged
xFC == {2, 3, 4, 5, 6, 7}       \* SelfTestFailed1, and a failed controller test

VARIABLES
  pc,               \* the step init is about to execute; "done", "panicked"
  config_byte,      \* init's copy of the configuration byte
  has_second_port, first_port_works, second_port_works,
  count,            \* flush_data_port: its loop counter
  machine,          \* which parts exist and work, never changed
  input,            \* input buffer: "empty" or what was written last
  target,           \* where the next data byte goes
  out,              \* bytes waiting to be read
  config,           \* the controller's configuration byte
  keyboard, mouse,  \* the devices: what they have done
  keys,             \* keys pressed
  disturbed         \* a wait gave up, a command was overwritten or a key came

driver   == <<config_byte, has_second_port, first_port_works, second_port_works, count>>
hardware == <<machine, input, target, out, config, keyboard, mouse, keys>>
vars     == <<pc, driver, hardware, disturbed>>

Machine == [second : BOOLEAN, controller : BOOLEAN, port1 : BOOLEAN, port2 : BOOLEAN,
            keyboard : BOOLEAN, mouse : BOOLEAN]

\* A byte from before the kernel may wait in the output buffer.
Init ==
  /\ pc = "disable1"
  /\ config_byte = {}
  /\ has_second_port = FALSE
  /\ first_port_works = FALSE
  /\ second_port_works = FALSE
  /\ count = 0
  /\ machine \in Machine
  /\ input = "empty"
  /\ target = "keyboard"
  /\ out \in {<< >>} \union {<<byte>> : byte \in LeftOver}
  /\ config \in BootConfigs
  /\ keyboard = "on"
  /\ mouse = "on"
  /\ keys = 0
  /\ disturbed = FALSE

(***************************************************************************)
(* The program: what each step writes, and the step after it.              *)
(***************************************************************************)
CommandAt ==
  [disable1 |-> "DisableFirstPort",   disable2  |-> "DisableSecondPort",
   read1    |-> "ReadConfig",         write1    |-> "WriteConfig",
   test     |-> "TestController",     write2    |-> "WriteConfig",
   probe    |-> "EnableSecondPort",   read2     |-> "ReadConfig",
   disable3 |-> "DisableSecondPort",  write3    |-> "WriteConfig",
   test1    |-> "TestFirstPort",      test2     |-> "TestSecondPort",
   read3    |-> "ReadConfig",         enable1   |-> "EnableFirstPort",
   enable2  |-> "EnableSecondPort",   write4    |-> "WriteConfig",
   mouse1   |-> "WriteSecondPort",    mouse2    |-> "WriteSecondPort"]

AfterCommand ==
  [disable1 |-> "disable2",    disable2 |-> "flush",      read1   |-> "read1_data",
   write1   |-> "write1_data", test     |-> "test_data",  write2  |-> "write2_data",
   probe    |-> "read2",       read2    |-> "read2_data", disable3 |-> "write3",
   write3   |-> "write3_data", test1    |-> "test1_data", test2   |-> "test2_data",
   read3    |-> "read3_data",  enable1  |-> "second",     enable2 |-> "write4",
   write4   |-> "write4_data", mouse1   |-> "reset_mouse", mouse2  |-> "report_mouse"]

DataAt ==
  [write1_data |-> "config", write2_data |-> "config", write3_data |-> "config",
   write4_data |-> "config", reset_keyboard |-> "Reset", reset_mouse |-> "Reset",
   report_mouse |-> "EnableReporting"]

AfterData ==
  [write1_data |-> "test", write2_data |-> "probe", write3_data |-> "test1",
   write4_data |-> "reset_keyboard", reset_keyboard |-> "keyboard_ack",
   reset_mouse |-> "mouse_ack", report_mouse |-> "report_ack"]

Reads == {"read1_data", "test_data", "read2_data", "test1_data", "test2_data", "read3_data",
          "keyboard_ack", "keyboard_test", "mouse_ack", "mouse_test", "mouse_id", "report_ack"}

\* Test second port only if there is one; test the first port in any case.
AfterTest1 == IF has_second_port THEN "test2" ELSE "read3"

GoTo(label) == pc' = label

(***************************************************************************)
(* write_command: no wait; a byte the controller has not taken is lost.    *)
(***************************************************************************)
WriteCommand ==
  /\ pc \in DOMAIN CommandAt
  /\ input' = CommandAt[pc]
  /\ disturbed' = (disturbed \/ input # "empty")
  /\ GoTo(AfterCommand[pc])
  /\ count' = 0
  /\ UNCHANGED <<config_byte, has_second_port, first_port_works, second_port_works, machine,
                 target, out, config, keyboard, mouse, keys>>

\* write_data: the byte goes to the input buffer once it is empty.
WriteData ==
  /\ pc \in DOMAIN DataAt
  /\ input = "empty"
  /\ input' = DataAt[pc]
  /\ GoTo(AfterData[pc])
  /\ UNCHANGED <<driver, machine, target, out, config, keyboard, mouse, keys, disturbed>>

\* Every caller of write_data panics on an error.
WriteTimesOut ==
  /\ pc \in DOMAIN DataAt
  /\ input # "empty"
  /\ GoTo("panicked")
  /\ disturbed' = TRUE
  /\ UNCHANGED <<driver, hardware>>

(***************************************************************************)
(* flush_data_port.                                                        *)
(***************************************************************************)
FlushByte ==
  /\ pc = "flush"
  /\ out # << >>
  /\ count < loop_timeout
  /\ out' = Tail(out)
  /\ count' = count + 1
  /\ UNCHANGED <<pc, config_byte, has_second_port, first_port_works, second_port_works,
                 machine, input, target, config, keyboard, mouse, keys, disturbed>>

\* Mutant: what the firmware left is not flushed.
FlushEndsAtOnce ==
  /\ pc = "flush"
  /\ GoTo("read1")
  /\ UNCHANGED <<driver, hardware, disturbed>>

FlushEnds ==
  /\ pc = "flush"
  /\ out = << >> \/ count >= loop_timeout
  /\ GoTo("read1")
  /\ UNCHANGED <<driver, hardware, disturbed>>

(***************************************************************************)
(* read_data, and what init does with the byte.                            *)
(***************************************************************************)
\* Mutant: the answer is read but not looked at.
AnswerIgnored(byte, wanted, next) == GoTo(next)

\* The byte is an answer init accepts, and init goes on; any other one makes
\* an expect, an unwrap_or_else or Response::from_u8 panic.
Answer(byte, wanted, next) == GoTo(IF byte = wanted THEN next ELSE "panicked")

ports == <<has_second_port, first_port_works, second_port_works>>

\* Step 5: clear bits 0 and 6, and 4 for the clock.
Step5(byte) ==
  /\ config_byte' = byte \ {0, 4, 6}
  /\ GoTo("write1")
  /\ UNCHANGED ports

\* Step 7: a second port is there if its clock could be enabled.  The copy read
\* here is not the one kept from step 5.
Step7(byte) ==
  /\ has_second_port' = (5 \notin byte)
  /\ config_byte' = IF 5 \notin byte THEN byte \ {1, 5} ELSE config_byte
  /\ GoTo(IF 5 \notin byte THEN "disable3" ELSE "test1")
  /\ UNCHANGED <<first_port_works, second_port_works>>

\* Step 8: a test that times out or fails marks the port as not working.
Step8First(works) ==
  /\ first_port_works' = works
  /\ GoTo(AfterTest1)
  /\ UNCHANGED <<config_byte, has_second_port, second_port_works>>

Step8Second(works) ==
  /\ second_port_works' = works
  /\ GoTo("read3")
  /\ UNCHANGED <<config_byte, has_second_port, first_port_works>>

\* Mutant: the interrupt of the second port is always enabled.
Step9AllInterrupts(byte) ==
  /\ config_byte' = byte \union {0, 1}
  /\ GoTo(IF first_port_works THEN "enable1" ELSE "second")
  /\ UNCHANGED ports

\* Step 9: interrupts for the ports that work.  The byte is built here, before
\* the enable commands are written; they do not change it.
Step9(byte) ==
  /\ config_byte' = byte \union (IF first_port_works THEN {0} ELSE {})
                         \union (IF second_port_works THEN {1} ELSE {})
  /\ GoTo(IF first_port_works THEN "enable1" ELSE "second")
  /\ UNCHANGED ports

\* Step 10: reset_and_self_test of the devices, and the mouse's reporting.
Step10(byte) ==
  /\ \/ pc = "keyboard_ack"  /\ Answer(byte, xFA, "keyboard_test")
     \/ pc = "keyboard_test" /\ Answer(byte, xAA, "mouse1")
     \/ pc = "mouse_ack"     /\ Answer(byte, xFA, "mouse_test")
     \/ pc = "mouse_test"    /\ Answer(byte, xAA, "mouse_id")
     \/ pc = "mouse_id"      /\ GoTo(IF second_port_works THEN "mouse2" ELSE "done")
     \/ pc = "report_ack"    /\ Answer(byte, xFA, "done")
  /\ UNCHANGED <<config_byte, ports>>

TestController(byte) ==
  /\ Answer(byte, x55, "write2")
  /\ UNCHANGED <<config_byte, ports>>

OnByte(byte) ==
  \/ pc = "read1_data" /\ Step5(byte)
  \/ pc = "test_data"  /\ TestController(byte)
  \/ pc = "read2_data" /\ Step7(byte)
  \/ pc = "test1_data" /\ Step8First(byte = x00)
  \/ pc = "test2_data" /\ Step8Second(byte = x00)
  \/ pc = "read3_data" /\ Step9(byte)
  \/ Step10(byte)

ReadData ==
  /\ pc \in Reads
  /\ out # << >>
  /\ OnByte(Head(out))
  /\ out' = Tail(out)
  /\ UNCHANGED <<count, machine, input, target, config, keyboard, mouse, keys, disturbed>>

\* Mutant: a read that gave up is tried again.
ReadTimesOutRetried ==
  /\ pc \in Reads
  /\ out = << >>
  /\ disturbed' = TRUE
  /\ UNCHANGED <<pc, driver, hardware>>

\* The wait for a byte gives up.
ReadTimesOut ==
  /\ pc \in Reads
  /\ out = << >>
  /\ disturbed' = TRUE
  /\ \/ pc = "test1_data" /\ Step8First(FALSE)
     \/ pc = "test2_data" /\ Step8Second(FALSE)
     \/ /\ pc \notin {"test1_data", "test2_data"}
        /\ GoTo("panicked")
        /\ UNCHANGED <<config_byte, ports>>
  /\ UNCHANGED <<count, hardware>>

\* Step 9: the second port is enabled if it works.
SecondPort ==
  /\ pc = "second"
  /\ GoTo(IF second_port_works THEN "enable2" ELSE "write4")
  /\ UNCHANGED <<driver, hardware, disturbed>>

(***************************************************************************)
(* The controller takes what is in the input buffer.                       *)
(***************************************************************************)
Reply(bytes) == out' = out \o bytes

\* A self test may reset the configuration byte.
Execute(command) ==
  \/ /\ command = "DisableFirstPort"
     /\ config' = config \union {4} /\ UNCHANGED <<out, target>>
  \/ /\ command = "EnableFirstPort"
     /\ config' = config \ {4} /\ UNCHANGED <<out, target>>
  \/ /\ command = "DisableSecondPort"
     /\ config' = config \union {5} /\ UNCHANGED <<out, target>>
  \/ /\ command = "EnableSecondPort"
     /\ config' = IF machine.second THEN config \ {5} ELSE config
     /\ UNCHANGED <<out, target>>
  \/ command = "ReadConfig" /\ Reply(<<config>>) /\ UNCHANGED <<config, target>>
  \/ command = "WriteConfig" /\ target' = "config" /\ UNCHANGED <<config, out>>
  \/ command = "WriteSecondPort" /\ target' = "mouse" /\ UNCHANGED <<config, out>>
  \/ /\ command = "TestController"
     /\ Reply(<<IF machine.controller THEN x55 ELSE xFC>>)
     /\ config' \in {config, {4, 5, 6}} /\ UNCHANGED target
  \/ /\ command = "TestFirstPort"
     /\ Reply(<<IF machine.port1 THEN x00 ELSE {0}>>) /\ UNCHANGED <<config, target>>
  \/ /\ command = "TestSecondPort"
     /\ Reply(<<IF machine.port2 THEN x00 ELSE {0}>>) /\ UNCHANGED <<config, target>>

ControllerCommand ==
  /\ input \in {CommandAt[p] : p \in DOMAIN CommandAt}
  /\ Execute(input)
  /\ input' = "empty"
  /\ UNCHANGED <<pc, driver, machine, keyboard, mouse, keys, disturbed>>

\* A controller without a second port keeps its clock bit set.
ControllerConfig ==
  /\ input = "config"
  /\ config' = IF machine.second THEN config_byte ELSE config_byte \union {5}
  /\ input' = "empty"
  /\ target' = "keyboard"
  /\ UNCHANGED <<pc, driver, machine, out, keyboard, mouse, keys, disturbed>>

KeyboardReset ==
  /\ input = "Reset"
  /\ target = "keyboard"
  /\ input' = "empty"
  /\ keyboard' = "testing"
  /\ Reply(<<xFA>>)
  /\ UNCHANGED <<pc, driver, machine, target, config, mouse, keys, disturbed>>

KeyboardTested ==
  /\ keyboard = "testing"
  /\ keyboard' = IF machine.keyboard THEN "passed" ELSE "failed"
  /\ Reply(<<IF machine.keyboard THEN xAA ELSE xFC>>)
  /\ UNCHANGED <<pc, driver, machine, input, target, config, mouse, keys, disturbed>>

\* Without a second port nobody answers.
MouseData ==
  /\ input \in {"Reset", "EnableReporting"}
  /\ target = "mouse"
  /\ input' = "empty"
  /\ target' = "keyboard"
  /\ IF machine.second
       THEN /\ mouse' = IF input = "Reset" THEN "testing" ELSE "reporting"
            /\ Reply(<<xFA>>)
       ELSE UNCHANGED <<mouse, out>>
  /\ UNCHANGED <<pc, driver, machine, config, keyboard, keys, disturbed>>

\* The mouse's result is followed by its id.
MouseTested ==
  /\ mouse = "testing"
  /\ mouse' = IF machine.mouse THEN "passed" ELSE "failed"
  /\ Reply(IF machine.mouse THEN <<xAA, x00>> ELSE <<xFC>>)
  /\ UNCHANGED <<pc, driver, machine, input, target, config, keyboard, keys, disturbed>>

\* A key is pressed while the first port's clock is enabled.
KeyPressed ==
  /\ keys < MaxKeys
  /\ 4 \notin config
  /\ keyboard # "testing"
  /\ pc \notin {"done", "panicked"}
  /\ \E code \in Scancodes : Reply(<<code>>)
  /\ keys' = keys + 1
  /\ disturbed' = TRUE
  /\ UNCHANGED <<pc, driver, machine, input, target, config, keyboard, mouse>>

Over == pc \in {"done", "panicked"} /\ UNCHANGED vars

DriverStep ==
  WriteCommand \/ WriteData \/ WriteTimesOut \/ FlushByte \/ FlushEnds \/ ReadData
  \/ ReadTimesOut \/ SecondPort

HardwareStep ==
  ControllerCommand \/ ControllerConfig \/ KeyboardReset \/ KeyboardTested \/ MouseData
  \/ MouseTested

Next == DriverStep \/ HardwareStep \/ KeyPressed \/ Over

Spec == Init /\ [][Next]_vars

\* The driver runs on; the hardware owes it nothing, since every wait gives up.
FairSpec == Spec /\ WF_vars(DriverStep)

-----------------------------------------------------------------------------
(***************************************************************************)
(* Properties                                                              *)
(***************************************************************************)

\* init returns only if both devices were reset and passed their self test,
\* whatever answers came late, commands were lost or keys were pressed: the
\* answers are never taken from each other (ps2/mod.rs:103-106).
SelfTestsPassed ==
  pc = "done" => keyboard = "passed" /\ mouse \in {"passed", "reporting"}

\* On a working controller with two ports and two working devices, init panics
\* only after a wait gave up, a command was lost or a key was pressed
\* (ps2/mod.rs:13-114).
PanicsOnlyIfDisturbed ==
  pc = "panicked" /\ (\A part \in DOMAIN machine : machine[part]) => disturbed

\* If nothing disturbed it, init leaves the interrupts of exactly the working
\* ports enabled, both clocks on, translation off and the mouse reporting if
\* its port works, also if the self test reset the controller
\* (ps2/mod.rs:85-113).
ConfiguredAsTested ==
  pc = "done" /\ ~ disturbed /\ input = "empty" =>
    /\ (0 \in config) = machine.port1
    /\ (1 \in config) = machine.port2
    /\ {4, 5, 6} \intersect config = {}
    /\ (mouse = "reporting") = machine.port2

\* init ends: every wait gives up and the flush is bounded, also with a
\* controller that never answers (ps2/controller.rs:61-90).
InitEnds == <>(pc \in {"done", "panicked"})
=============================================================================
