------------------------------- MODULE MCPci --------------------------------
(***************************************************************************)
(* To scan: every topology of at most MaxFunctions functions, at most      *)
(* MaxBridges of them bridges, in the host bridge and two more of the      *)
(* Slots, where function 1 implies function 0 and the multi-function bit   *)
(* says whether there is one.  Bridges lead to any bus: also back to bus   *)
(* 0, as an unconfigured bridge does, and to a bus another bridge leads    *)
(* to.                                                                     *)
(*                                                                         *)
(* To read: functions at the corners of the numbering, an Intel xHC with a *)
(* 64-bit base address in the last pair of registers, a bridge, and a      *)
(* function with I/O ports; one of the functions asked for is absent.      *)
(***************************************************************************)
EXTENDS Pci, TLC

CONSTANTS MaxFunctions, MaxBridges

Bar(kind, bits) == [kind |-> kind, bits |-> bits]
None == Bar("none", {})

Holding(vendor, header, base, sub, interface, bars) ==
  [vendor_id |-> C!Bits(vendor), device_id |-> {0, 15}, header_type |-> C!Bits(header),
   base |-> C!Bits(base), sub |-> C!Bits(sub), interface |-> C!Bits(interface), bars |-> bars]

-----------------------------------------------------------------------------
Slots == {<<0, 0>>, <<0, 1>>, <<1, 0>>, <<1, 1>>, <<2, 0>>}

\* A device: the secondary bus (or -1) of each of its functions.
DeviceShapes == UNION {[0 .. n -> -1 .. BusCount - 1] : n \in 0 .. FunctionCount - 1}

FunctionsOf(devs) ==
  {x \in Function : <<x[1], x[2]>> \in DOMAIN devs /\ x[3] \in DOMAIN devs[<<x[1], x[2]>>]}

\* Type 1 is a bridge's header, bit 7 the multi-function bit; a bridge's primary
\* bus, the lowest byte of the bus numbers, is its own.
Scanned(x, multi, secondary) ==
  IF secondary = -1
    THEN Holding(6900, multi, 1, 0, 0, << None, None, None, None, None, None >>)
    ELSE Holding(6900, multi + 1, 6, 4, 0,
                 << None, None,
                    Bar("buses", C!Bits(x[1]) \union C!shl(C!Bits(secondary), 8)
                                   \union C!shl(C!Bits(2), 16)),
                    None, None, None >>)

ConfigOf(devs) ==
  [x \in FunctionsOf(devs) |->
     LET device == devs[<<x[1], x[2]>>]
     IN  Scanned(x, IF Cardinality(DOMAIN device) > 1 THEN 128 ELSE 0, device[x[3]])]

BridgesOf(devs) == {x \in FunctionsOf(devs) : devs[<<x[1], x[2]>>][x[3]] # -1}

DeviceSets == {T \in SUBSET Slots : <<0, 0>> \in T /\ Cardinality(T) <= 3}

SmallConfigs ==
  {ConfigOf(devs) :
     devs \in {ds \in UNION {[T -> DeviceShapes] : T \in DeviceSets} :
                 /\ Cardinality(FunctionsOf(ds)) <= MaxFunctions
                 /\ Cardinality(BridgesOf(ds)) <= MaxBridges}}

-----------------------------------------------------------------------------
Xhc ==
  Holding(32902, 128, 12, 3, 48,
          << Bar("mem32", {3, 12, 31}), Bar("mem32", {5}), Bar("mem64", 14 .. 31), Bar("upper", {0, 2, 31}),
             Bar("mem64", {3, 20}), Bar("upper", {}) >>)

\* On a bridge only the first two registers are base addresses.
Bridge ==
  Holding(4660, 1, 6, 4, 0,
          << Bar("mem32", {4}), None, Bar("buses", {8, 16}), Bar("window", 0 .. 31),
             Bar("window", {}), Bar("window", {2, 5}) >>)

Ports == << Bar("io", {2, 8}), Bar("io", {3, 15}), None, None, None, Bar("io", {2, 9}) >>

CornersQueried == { <<0, 0, 0>>, <<0, 31, 7>>, <<1, 0, 0>>, <<1, 16, 1>>, <<255, 31, 7>>,
                    <<255, 31, 6>> }

Corners ==
  (<<0, 0, 0>> :> Bridge) @@ (<<0, 31, 7>> :> Xhc) @@ (<<255, 31, 7>> :> Xhc)
    @@ (<<1, 0, 0>> :> Holding(32902, 0, 12, 3, 32, << None, None, None, None, None, None >>))
    @@ (<<1, 16, 1>> :> Holding(6900, 0, 1, 6, 1, Ports))

CornerConfigs == {Corners}
=============================================================================
