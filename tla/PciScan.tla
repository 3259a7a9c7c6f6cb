------------------------------ MODULE PciScan -------------------------------
(***************************************************************************)
(* The PCI enumeration, Devices::init of kernel/src/pci/mod.rs: a depth    *)
(* first walk over buses, devices and functions that stores every function *)
(* it meets and follows PCI-PCI bridges to their secondary bus.            *)
(*                                                                         *)
(* The calls scan_bus and scan_device that have not returned are a stack   *)
(* of frames; one action is one iteration of the innermost loop.  A read   *)
(* of configuration space is a look at `pci`, which maps the functions     *)
(* present to what the scan reads of them.  An absent function reads as    *)
(* all ones: vendor 0xffff, and a header type with the multi-function bit. *)
(***************************************************************************)
EXTENDS Integers, Sequences, SequencesExt, FiniteSets

CONSTANTS
  DEVICE_CAPACITY,     \* elements the ArrayVec of devices has room for
  DeviceCount,         \* device numbers of a bus (32)
  FunctionCount,       \* function numbers of a device (8)
  BusCount             \* bus numbers (256)

Function == (0 .. BusCount - 1) \X (0 .. DeviceCount - 1) \X (0 .. FunctionCount - 1)

\* What the scan reads of a function; `secondary` is -1 unless it is a bridge.
Header == [multi : BOOLEAN, secondary : -1 .. BusCount - 1]

ASSUME CountAssumption ==
  /\ {DEVICE_CAPACITY, DeviceCount, FunctionCount, BusCount} \subseteq Nat \ {0}
  /\ FunctionCount <= BusCount

VARIABLES
  pci,      \* the machine, never changed: the Header of every function present
  pc,       \* "start", "scan", "done" or "panicked"
  stack,    \* the loops being executed, the innermost one last
  array     \* the functions stored

vars == <<pci, pc, stack, array>>

present(x) == x \in DOMAIN pci

is_single_function_device(x) == present(x) /\ ~ pci[x].multi

AllFrame(func)             == [op |-> "all", bus |-> 0, device |-> 0, func |-> func]
BusFrame(bus, device)      == [op |-> "bus", bus |-> bus, device |-> device, func |-> 0]
DevFrame(bus, device, func) == [op |-> "dev", bus |-> bus, device |-> device, func |-> func]

Init ==
  /\ DOMAIN pci \subseteq Function
  /\ \A x \in DOMAIN pci : pci[x] \in Header
  /\ pc = "start"
  /\ stack = << >>
  /\ array = << >>

\* Mutant: a multi-function host bridge is taken for a single one.
ScanBus0Only ==
  /\ pc = "start"
  /\ pc' = "scan"
  /\ stack' = << BusFrame(0, 0) >>
  /\ UNCHANGED <<pci, array>>

\* scan_all_bus: bus 0 only, or one bus per function of the host bridge.
ScanAllBus ==
  /\ pc = "start"
  /\ pc' = "scan"
  /\ stack' = IF is_single_function_device(<<0, 0, 0>>) THEN << BusFrame(0, 0) >>
                                                        ELSE << AllFrame(0) >>
  /\ UNCHANGED <<pci, array>>

In(op) == pc = "scan" /\ stack # << >> /\ Last(stack).op = op

\* The innermost loop goes on with this frame, after the calls pushed on it.
Loop(frame, calls) == stack' = Append(Front(stack), frame) \o calls

\* The innermost call returns.
Return == stack' = Front(stack) /\ UNCHANGED array

(***************************************************************************)
(* scan_function: store the function (push panics when the array is full), *)
(* then scan the bus behind a bridge.                                      *)
(***************************************************************************)
\* Mutant: the result of a push that fails is ignored.
add_device_lossy(x) ==
  array' = IF Len(array) < DEVICE_CAPACITY THEN Append(array, x) ELSE array

\* Mutant: push has room for one element more.
add_device_one_more(x) == Len(array) <= DEVICE_CAPACITY /\ array' = Append(array, x)

add_device(x) == Len(array) < DEVICE_CAPACITY /\ array' = Append(array, x)

\* Mutant: the primary bus number is taken for the secondary one.
CallsOfPrimary(x) == IF pci[x].secondary = -1 THEN << >> ELSE << BusFrame(x[1], 0) >>

CallsOf(x) ==
  IF pci[x].secondary = -1 THEN << >> ELSE << BusFrame(pci[x].secondary, 0) >>

scan_function(x, frame) ==
  \/ add_device(x) /\ Loop(frame, CallsOf(x)) /\ UNCHANGED pc
  \/ /\ Len(array) = DEVICE_CAPACITY
     /\ pc' = "panicked"
     /\ UNCHANGED <<stack, array>>

(***************************************************************************)
(* The loops.                                                              *)
(***************************************************************************)
AllIteration ==
  /\ In("all")
  /\ LET f == Last(stack).func
     IN  IF f = FunctionCount THEN Return
         ELSE /\ Loop(AllFrame(f + 1),
                      IF present(<<0, 0, f>>) THEN << BusFrame(f, 0) >> ELSE << >>)
              /\ UNCHANGED array
  /\ UNCHANGED <<pci, pc>>

BusIteration ==
  /\ In("bus")
  /\ LET b == Last(stack).bus
         d == Last(stack).device
     IN  IF d = DeviceCount THEN Return
         ELSE /\ Loop(BusFrame(b, d + 1),
                      IF present(<<b, d, 0>>) THEN << DevFrame(b, d, 0) >> ELSE << >>)
              /\ UNCHANGED array
  /\ UNCHANGED <<pci, pc>>

\* scan_device: function 0 is scanned unconditionally.
DeviceFunction0 ==
  /\ In("dev")
  /\ LET t == Last(stack)
     IN  /\ t.func = 0
         /\ scan_function(<<t.bus, t.device, 0>>, DevFrame(t.bus, t.device, 1))
  /\ UNCHANGED pci

\* scan_device returns after function 0 of a single-function device, or after
\* the last function.
DeviceReturns ==
  /\ In("dev")
  /\ LET t == Last(stack)
     IN  \/ t.func = 1 /\ is_single_function_device(<<t.bus, t.device, 0>>)
         \/ t.func = FunctionCount
  /\ Return
  /\ UNCHANGED <<pci, pc>>

DeviceIteration ==
  /\ In("dev")
  /\ LET t == Last(stack)
         x == <<t.bus, t.device, t.func>>
         next == DevFrame(t.bus, t.device, t.func + 1)
     IN  /\ t.func \in 1 .. FunctionCount - 1
         /\ ~ (t.func = 1 /\ is_single_function_device(<<t.bus, t.device, 0>>))
         /\ IF present(x) THEN scan_function(x, next)
                          ELSE Loop(next, << >>) /\ UNCHANGED <<pc, array>>
  /\ UNCHANGED pci

ScanReturns ==
  /\ pc = "scan"
  /\ stack = << >>
  /\ pc' = "done"
  /\ UNCHANGED <<pci, stack, array>>

Over == pc \in {"done", "panicked"} /\ UNCHANGED vars

ScanStep ==
  \/ ScanAllBus \/ AllIteration \/ BusIteration
  \/ DeviceFunction0 \/ DeviceReturns \/ DeviceIteration \/ ScanReturns

Next == ScanStep \/ Over

Spec == Init /\ [][Next]_vars

-----------------------------------------------------------------------------
(***************************************************************************)
(* Which functions a scan should find.                                     *)
(***************************************************************************)

\* Function 0 of a device, and the others if function 0 says there are any.
Visible(bus) ==
  {x \in DOMAIN pci : /\ x[1] = bus
                      /\ present(<<bus, x[2], 0>>)
                      /\ x[3] = 0 \/ pci[<<bus, x[2], 0>>].multi}

\* The buses the host bridge gives access to.
RootBuses ==
  IF is_single_function_device(<<0, 0, 0>>) THEN {0}
  ELSE {f \in 0 .. FunctionCount - 1 : present(<<0, 0, f>>)}

BusesBehind(bus) == {pci[x].secondary : x \in Visible(bus)} \ {-1}

\* The roots are among them, and with a bus the buses behind its bridges.
IsClosed(buses) ==
  RootBuses \subseteq buses /\ \A bus \in buses : BusesBehind(bus) \subseteq buses

\* The buses reached through any number of bridges: the smallest closed set.
ReachedBuses ==
  {bus \in 0 .. BusCount - 1 :
     \A buses \in SUBSET (0 .. BusCount - 1) : IsClosed(buses) => bus \in buses}

Reachable == UNION {Visible(bus) : bus \in ReachedBuses}

\* Every bus is a root or behind exactly one bridge, as bus numbering makes it.
IsTree ==
  /\ \A x, y \in Reachable :
       x # y /\ pci[x].secondary # -1 => pci[x].secondary # pci[y].secondary
  /\ \A x \in Reachable : pci[x].secondary \notin RootBuses

-----------------------------------------------------------------------------
(***************************************************************************)
(* Properties                                                              *)
(***************************************************************************)

\* Every variable has its type.
TypeOK ==
  /\ pc \in {"start", "scan", "done", "panicked"}
  /\ \A k \in DOMAIN stack :
       stack[k] \in [op : {"all", "bus", "dev"}, bus : 0 .. BusCount - 1,
                     device : 0 .. DeviceCount, func : 0 .. FunctionCount]
  /\ array \in Seq(DOMAIN pci)
  /\ Len(array) <= DEVICE_CAPACITY

\* The scan stores every function that can be reached and nothing else, also
\* through nested bridges and bridges that are functions of one device
\* (pci/mod.rs:185-242).
ScanIsComplete == pc = "done" => ToSet(array) = Reachable

\* When the buses form a tree no function is stored twice (pci/mod.rs:185-242).
StoredOnce == IsTree => IsInjective(array)

\* When the buses form a tree, the scan fails only if there are more functions
\* than the array has room for (pci/mod.rs:181-183).
PanicsOnlyWhenFull ==
  IsTree /\ pc = "panicked" => Cardinality(Reachable) > DEVICE_CAPACITY

\* The calls nest at most as deep as the functions stored allow, so the kernel
\* stack they need is bounded on every topology: a bridge back to a bus that is
\* being scanned recurses only until the array is full (pci/mod.rs:201-242).
NestingBounded == Len(stack) <= 2 * Len(array) + 3
=============================================================================
