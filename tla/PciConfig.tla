----------------------------- MODULE PciConfig ------------------------------
(***************************************************************************)
(* The accesses to PCI configuration space of kernel/src/pci/mod.rs: an    *)
(* address is written to CONFIG_ADDRESS, then CONFIG_DATA is read, and the *)
(* field wanted is cut out of the double word.                             *)
(*                                                                         *)
(* A u8, u32 or u64 is the set of its bits that are set, so that shifts,   *)
(* masks and casts are sets and TLC's 32-bit integers do not matter.  What *)
(* a function holds is kept as fields; the packing of fields into double   *)
(* words and the decoding of CONFIG_ADDRESS belong to the hardware.        *)
(***************************************************************************)
EXTENDS Integers, Sequences

CONSTANTS
  Queried,     \* the <<bus, device, func>> asked for
  MaxIndex     \* the largest index read_base_addr is called with

VARIABLES
  pci,              \* what the functions present hold, never changed
  config_address,   \* the register CONFIG_ADDRESS
  pc,               \* "idle", "address" (to be written) or "data" (to be read)
  call,             \* the function running and its arguments
  offset,           \* offset_in_pci_config_space
  lower,            \* lower_base_addr
  ret               \* what the last call returned

vars == <<pci, config_address, pc, call, offset, lower, ret>>

(***************************************************************************)
(* Words                                                                   *)
(***************************************************************************)
PowerOf2 == <<1, 2, 4, 8, 16, 32, 64, 128, 256, 512, 1024, 2048, 4096, 8192, 16384, 32768>>

Bits(n) == LET power == PowerOf2 IN {b \in 0 .. 15 : (n \div power[b + 1]) % 2 = 1}
shl(x, bits) == {b + bits : b \in x}
shr(x, bits) == {b - bits : b \in {c \in x : c >= bits}}
Low(x, width) == x \intersect (0 .. width - 1)

\* Mutant: the device number is one bit too far to the left.
make_address_shifted(at, off) ==
  {31} \union shl(Bits(at[1]), 16) \union shl(Bits(at[2]), 12)
       \union shl(Bits(at[3]), 8) \union (Bits(off) \intersect 2 .. 7)

make_address(at, off) ==
  {31} \union shl(Bits(at[1]), 16) \union shl(Bits(at[2]), 11)
       \union shl(Bits(at[3]), 8) \union (Bits(off) \intersect 2 .. 7)

(***************************************************************************)
(* The hardware: which function and double word an address selects, and    *)
(* where a function keeps its fields.                                      *)
(***************************************************************************)
Location == (0 .. 255) \X (0 .. 31) \X (0 .. 7)

Kinds == {"none", "mem32", "mem64", "upper", "io", "buses", "window"}

Selected(at, address) ==
  /\ 31 \in address
  /\ Low(shr(address, 16), 8) = Bits(at[1])
  /\ Low(shr(address, 11), 5) = Bits(at[2])
  /\ Low(shr(address, 8), 3) = Bits(at[3])

\* What a function may hold.  0xffff is nobody's vendor; bit 2 tells a 64-bit memory
\* base address, whose upper half is in the next register, from a 32-bit one.
Holds(f) ==
  /\ f \in [vendor_id : SUBSET (0 .. 15), device_id : SUBSET (0 .. 15),
            header_type : SUBSET (0 .. 7), base : SUBSET (0 .. 7), sub : SUBSET (0 .. 7),
            interface : SUBSET (0 .. 7), bars : [1 .. 6 -> [kind : Kinds, bits : SUBSET (0 .. 31)]]]
  /\ f.vendor_id # 0 .. 15
  /\ \A k \in 1 .. 6 :
       /\ f.bars[k].kind = "mem32" => 2 \notin f.bars[k].bits
       /\ f.bars[k].kind = "mem64" => k < 6 /\ f.bars[k + 1].kind = "upper"

IsMachine(machine) ==
  DOMAIN machine \subseteq Location /\ \A at \in DOMAIN machine : Holds(machine[at])

BarWord(bar) ==
  CASE bar.kind = "mem64" -> {2} \union bar.bits
    [] bar.kind = "io"    -> {0} \union bar.bits
    [] OTHER              -> bar.bits

\* Revision, cache line size, latency and the rest read as ones.
DoubleWord(f, register) ==
  CASE register = Bits(0)  -> f.vendor_id \union shl(f.device_id, 16)
    [] register = Bits(8)  -> (0 .. 7) \union shl(f.interface, 8)
                                \union shl(f.sub, 16) \union shl(f.base, 24)
    [] register = Bits(12) -> (0 .. 15) \union shl(f.header_type, 16) \union (24 .. 31)
    [] OTHER               ->
         IF \E k \in 1 .. 6 : register = Bits(12 + 4 * k)
           THEN BarWord(f.bars[CHOOSE k \in 1 .. 6 : register = Bits(12 + 4 * k)]) ELSE 0 .. 31

\* A read that no function answers returns all ones.
DataAt(machine, address) ==
  LET answering == {at \in DOMAIN machine : Selected(at, address)}
  IN  IF answering = {} THEN 0 .. 31
      ELSE DoubleWord(machine[CHOOSE at \in answering : TRUE], address \intersect 0 .. 7)

ConfigData == DataAt(pci, config_address)

(***************************************************************************)
(* The functions that read a field: the offset of its double word and what *)
(* is returned of it.                                                      *)
(***************************************************************************)
OffsetOf == [read_vendor_id |-> 0, is_intel |-> 0, read_device_id |-> 0,
             read_class_code |-> 8, read_header_type |-> 12, read_bus_numbers |-> 24]

ClassCode(data) ==
  LET raw == shr(data, 8)
  IN  [base |-> Low(shr(raw, 16), 8), sub |-> Low(shr(raw, 8), 8),
       interface |-> Low(raw, 8)]

\* Mutant: the class code is not shifted past the revision.
FieldRevision(op, data) ==
  CASE op = "read_vendor_id"   -> Low(data, 16)
    [] op = "is_intel"         -> Low(data, 16) = Bits(32902)
    [] op = "read_device_id"   -> shr(data, 16)
    [] op = "read_header_type" -> Low(shr(data, 16), 8)
    [] op = "read_class_code"  -> ClassCode(shl(data, 8))
    [] op = "read_bus_numbers" -> data

Field(op, data) ==
  CASE op = "read_vendor_id"   -> Low(data, 16)
    [] op = "is_intel"         -> Low(data, 16) = Bits(32902)           \* 0x8086
    [] op = "read_device_id"   -> shr(data, 16)
    [] op = "read_header_type" -> Low(shr(data, 16), 8)
    [] op = "read_class_code"  -> ClassCode(data)
    [] op = "read_bus_numbers" -> data

Nothing == [op |-> "none", at |-> <<0, 0, 0>>, index |-> 0]

Init ==
  /\ DOMAIN pci \subseteq Location
  /\ config_address = {}
  /\ pc = "idle"
  /\ call = Nothing
  /\ offset = 0
  /\ lower = {}
  /\ ret = [status |-> "none", value |-> {}]

Return(status, value) ==
  /\ pc' = "idle"
  /\ ret' = [status |-> status, value |-> value]

ReadField(op, at) ==
  /\ pc = "idle"
  /\ call' = [op |-> op, at |-> at, index |-> 0]
  /\ offset' = OffsetOf[op]
  /\ pc' = "address"
  /\ UNCHANGED <<pci, config_address, lower, ret>>

OutOfRange(index) == index >= 6

read_base_addr(at, index) ==
  /\ pc = "idle"
  /\ call' = [op |-> "read_base_addr", at |-> at, index |-> index]
  /\ IF OutOfRange(index)
     THEN Return("err", {}) /\ UNCHANGED offset
     ELSE offset' = 16 + 4 * index /\ pc' = "address" /\ UNCHANGED ret
  /\ UNCHANGED <<pci, config_address, lower>>

write_address ==
  /\ pc = "address"
  /\ config_address' = make_address(call.at, offset)
  /\ pc' = "data"
  /\ UNCHANGED <<pci, call, offset, lower, ret>>

FieldRead ==
  /\ pc = "data"
  /\ call.op # "read_base_addr"
  /\ Return("ok", Field(call.op, ConfigData))
  /\ UNCHANGED <<pci, config_address, call, offset, lower>>

\* Mutant: the address is 64 bits wide whenever a type bit is set.
IsWideAny(data) == data \intersect 1 .. 2 # {} \/ 3 \in data

IsWide(data) == 2 \in data

\* The first double word of a base address: all of it, or an error if the
\* second one would lie past the last register, or the second is read too.
LowerRead ==
  /\ pc = "data"
  /\ call.op = "read_base_addr"
  /\ offset = 16 + 4 * call.index
  /\ lower' = ConfigData
  /\ \/ ~ IsWide(lower') /\ Return("ok", lower') /\ UNCHANGED offset
     \/ IsWide(lower') /\ call.index >= 5 /\ Return("err", {}) /\ UNCHANGED offset
     \/ /\ IsWide(lower')
        /\ call.index < 5
        /\ offset' = offset + 4
        /\ pc' = "address"
        /\ UNCHANGED ret
  /\ UNCHANGED <<pci, config_address, call>>

UpperRead ==
  /\ pc = "data"
  /\ call.op = "read_base_addr"
  /\ offset = 16 + 4 * call.index + 4
  /\ Return("ok", shl(ConfigData, 32) \union lower)
  /\ UNCHANGED <<pci, config_address, call, offset, lower>>

\* Device::is_xhc, on the class code the scan has just stored.
is_xhc ==
  /\ pc = "idle"
  /\ call.op = "read_class_code"
  /\ call' = [call EXCEPT !.op = "is_xhc"]
  /\ ret' = [status |-> "ok",
             value  |-> ret.value = [base |-> Bits(12), sub |-> Bits(3), interface |-> Bits(48)]]
  /\ UNCHANGED <<pci, config_address, pc, offset, lower>>

Next ==
  \/ \E op \in DOMAIN OffsetOf, at \in Queried : ReadField(op, at)
  \/ \E at \in Queried, index \in 0 .. MaxIndex : read_base_addr(at, index)
  \/ write_address \/ FieldRead \/ LowerRead \/ UpperRead \/ is_xhc

Spec == Init /\ [][Next]_vars

-----------------------------------------------------------------------------
(***************************************************************************)
(* Properties                                                              *)
(***************************************************************************)

Returned(op) == pc = "idle" /\ call.op = op
Asked == pci[call.at]
HasXhcClass(f) == f.base = Bits(12) /\ f.sub = Bits(3) /\ f.interface = Bits(48)

\* Every field comes from the function asked for, wherever it lies and whatever
\* was read before, and is not mixed with its neighbours in the double word; the
\* tests for an xHC and for Intel hold of exactly those functions; an absent
\* function reads as vendor 0xffff (pci/mod.rs:44-50, 253-312).
FieldsRead ==
  IF call.at \in DOMAIN pci
  THEN /\ Returned("read_vendor_id") => ret.value = Asked.vendor_id
       /\ Returned("read_device_id") => ret.value = Asked.device_id
       /\ Returned("read_header_type") => ret.value = Asked.header_type
       /\ Returned("read_class_code") =>
            ret.value = [base |-> Asked.base, sub |-> Asked.sub,
                         interface |-> Asked.interface]
       /\ Returned("is_intel") => ret.value = (Asked.vendor_id = Bits(32902))
       /\ Returned("is_xhc") => ret.value = HasXhcClass(Asked)
  ELSE Returned("read_vendor_id") => ret.value = 0 .. 15

\* A memory base address is returned whole, its upper half included exactly if
\* it has one, and the last register is not read past; only an index past the
\* registers is an error (pci/mod.rs:82-106).  The flags in the bits below 4
\* are returned with it.
BaseAddrRead ==
  Returned("read_base_addr") /\ call.at \in DOMAIN pci =>
    IF call.index >= 6 THEN ret.status = "err"
    ELSE LET bar == Asked.bars[call.index + 1]
         IN  /\ bar.kind = "mem32" =>
                  ret.status = "ok" /\ ret.value \ (0 .. 3) = bar.bits \ (0 .. 3)
             /\ bar.kind = "mem64" =>
                  /\ ret.status = "ok"
                  /\ ret.value \ (0 .. 3) =
                       (bar.bits \ (0 .. 3)) \union shl(Asked.bars[call.index + 2].bits, 32)
=============================================================================
