-------------------------------- MODULE Pci ---------------------------------
(***************************************************************************)
(* kernel/src/pci/mod.rs as a whole: the enumeration (PciScan) on machines *)
(* that are given by what their functions hold in configuration space, and *)
(* the accesses to it (PciConfig).                                         *)
(*                                                                         *)
(* PciScan looks at the headers of a machine; here they are what the       *)
(* functions read_* return for it.  Nothing else is shared, so a behaviour *)
(* either scans the machine or reads its functions one access after the    *)
(* other.                                                                  *)
(***************************************************************************)
EXTENDS PciScan

CONSTANTS
  ScanConfigs,     \* machines to scan: functions of <<bus, device, func>>
  ReadConfigs,     \* machines to read
  Queried,         \* the <<bus, device, func>> read
  MaxIndex         \* the largest index read_base_addr is called with

VARIABLES
  mode,                                                  \* "scan" or "read"
  config,                                                \* the machine, never changed
  config_address, access, call, offset, lower, ret       \* the access going on

accesses == <<config_address, access, call, offset, lower, ret>>
allvars  == <<vars, mode, config, accesses>>

C == INSTANCE PciConfig WITH pci <- config, pc <- access

\* Functions are numbered by 8, 5 and 3 bits.
ASSUME PciAssumption ==
  /\ Function \subseteq C!Location /\ Queried \subseteq C!Location
  /\ MaxIndex \in Nat
  /\ \A machine \in ScanConfigs \union ReadConfigs : C!IsMachine(machine)

(***************************************************************************)
(* What the scan reads of a machine.                                       *)
(***************************************************************************)
Read(machine, op, x) == C!Field(op, C!DataAt(machine, C!make_address(x, C!OffsetOf[op])))

\* Mutant: the primary bus number is the lowest byte.
SecondaryBusPrimary(bus_numbers) == CHOOSE bus \in 0 .. 255 : C!Bits(bus) = C!Low(bus_numbers, 8)

\* (bus_numbers >> 8) & 0xff
SecondaryBus(bus_numbers) ==
  LET byte == C!Low(C!shr(bus_numbers, 8), 8) IN CHOOSE bus \in 0 .. 255 : C!Bits(bus) = byte

IsBridge(class_code) == class_code.base = C!Bits(6) /\ class_code.sub = C!Bits(4)

HeaderOf(machine, x) ==
  [multi     |-> 7 \in Read(machine, "read_header_type", x),
   secondary |-> IF IsBridge(Read(machine, "read_class_code", x))
                   THEN SecondaryBus(Read(machine, "read_bus_numbers", x)) ELSE -1]

\* Absent functions read as vendor 0xffff.
HeadersOf(machine) ==
  [x \in {y \in Function : Read(machine, "read_vendor_id", y) # 0 .. 15} |-> HeaderOf(machine, x)]

PciInit ==
  /\ \/ mode = "read" /\ config \in ReadConfigs
     \/ mode = "scan" /\ config \in ScanConfigs
  /\ C!Init
  /\ pci = HeadersOf(config)
  /\ Init

PciNext ==
  \/ mode = "scan" /\ Next /\ UNCHANGED <<mode, config, accesses>>
  \/ mode = "read" /\ C!Next /\ UNCHANGED <<vars, mode>>

PciSpec == PciInit /\ [][PciNext]_allvars

-----------------------------------------------------------------------------
(***************************************************************************)
(* Properties, beside those of PciScan                                     *)
(***************************************************************************)

\* Memory base addresses are read whole (see PciConfig; pci/mod.rs:82-106).
BaseAddrRead == C!BaseAddrRead

\* The topology the scan walks is the machine's own.
ScanSeesMachine ==
  pc \in {"done", "panicked"} =>
    /\ DOMAIN pci = DOMAIN config \intersect Function
    /\ \A x \in DOMAIN pci :
         LET f == config[x]
         IN  /\ pci[x].multi <=> 7 \in f.header_type
             /\ IF f.base = C!Bits(6) /\ f.sub = C!Bits(4)
                  THEN C!Low(C!shr(f.bars[3].bits, 8), 8) = C!Bits(pci[x].secondary)
                  ELSE pci[x].secondary = -1

\* Every field read is that of the function asked for, in whatever order they are
\* read (see PciConfig).  What the scan reads is the machine's own topology: the
\* functions present, their multi-function bits and the bus behind every PCI-PCI
\* bridge, cut out of the double words they are packed in (pci/mod.rs:44-50,
\* 185-240, 249-312).
FieldsRead == C!FieldsRead /\ ScanSeesMachine
=============================================================================
