----------------------------- MODULE PciProofs ------------------------------
(***************************************************************************)
(* The PCI enumeration, for every topology and every capacity of the       *)
(* array: it stores what can be reached and nothing else, on a tree of     *)
(* buses no function twice, and its calls nest no deeper than the array    *)
(* allows.  The accesses to configuration space, for every machine: what   *)
(* is read is what the function asked for holds.                           *)
(***************************************************************************)
EXTENDS Pci, FiniteSetTheorems, TLAPS

USE CountAssumption

Buses == 0 .. BusCount - 1

Frame == [op : {"all", "bus", "dev"}, bus : Buses, device : 0 .. DeviceCount,
          func : 0 .. FunctionCount]

Stored == ToSet(array)

(***************************************************************************)
(* The stack: what a frame knows of the one above it, and how long the     *)
(* stack is for what is on top of it.                                      *)
(***************************************************************************)
StackInv ==
  /\ pc \in {"start", "scan", "done", "panicked"}
  /\ DOMAIN pci \subseteq Function
  /\ \A x \in DOMAIN pci : pci[x] \in Header
  /\ stack \in Seq(Frame)
  /\ array \in Seq(DOMAIN pci)
  /\ Len(array) <= DEVICE_CAPACITY
  /\ pc = "start" => stack = << >> /\ array = << >>
  /\ pc = "done" => stack = << >>

\* A device is scanned by the call that the iteration before made on its bus, and
\* every loop but the innermost has made the call above it.
ShapeInv ==
  \A p \in 1 .. Len(stack) :
    /\ stack[p].op = "all" => p = 1
    /\ p = 1 => stack[p].op # "dev"
    /\ p < Len(stack) /\ stack[p].op = "bus" => /\ stack[p + 1].op = "dev"
                                                /\ stack[p + 1].bus = stack[p].bus
                                                /\ stack[p + 1].device = stack[p].device - 1
    /\ p < Len(stack) /\ stack[p].op # "bus" => stack[p + 1].op = "bus" /\ stack[p].func >= 1

\* What the stack may have beyond two frames for every function stored.
Slack(top) == IF top.op = "bus" THEN 2 ELSE IF top.op = "dev" /\ top.func = 0 THEN 3 ELSE 1

DepthInv == stack # << >> => Len(stack) <= 2 * Len(array) + Slack(stack[Len(stack)])

(***************************************************************************)
(* Nothing is scanned but what can be reached.                             *)
(***************************************************************************)
SoundFrame(frame) ==
  /\ frame.op = "all" => ~ is_single_function_device(<<0, 0, 0>>)
  /\ frame.op # "all" => frame.bus \in ReachedBuses
  /\ frame.op = "dev" => /\ frame.device < DeviceCount
                         /\ present(<<frame.bus, frame.device, 0>>)
                         /\ frame.func > 1 => pci[<<frame.bus, frame.device, 0>>].multi

SoundInv ==
  /\ Stored \subseteq Reachable
  /\ \A p \in 1 .. Len(stack) : SoundFrame(stack[p])

(***************************************************************************)
(* Nothing is forgotten: what a call was made for is stored or still to be *)
(* met by a loop on the stack.                                             *)
(***************************************************************************)
\* The loop of this frame has yet to meet function x.
Ahead(frame, x) ==
  \/ frame.op = "bus" /\ frame.bus = x[1] /\ frame.device <= x[2]
  \/ /\ frame.op = "dev" /\ frame.bus = x[1] /\ frame.device = x[2]
     /\ frame.func <= x[3]

Covered(bus) ==
  \A x \in Visible(bus) : x \in Stored \/ \E p \in 1 .. Len(stack) : Ahead(stack[p], x)

CoverInv ==
  /\ \A x \in Stored : pci[x].secondary # -1 => Covered(pci[x].secondary)
  /\ pc # "start" =>
       \A bus \in RootBuses :
         \/ Covered(bus)
         \/ \E p \in 1 .. Len(stack) : stack[p].op = "all" /\ stack[p].func <= bus

(***************************************************************************)
(* On a tree nothing is met twice.                                         *)
(***************************************************************************)
\* A call for this bus was made: by the host bridge or for a stored bridge.
Called(bus) ==
  \/ /\ bus \in RootBuses
     /\ \A p \in 1 .. Len(stack) : stack[p].op = "all" => bus < stack[p].func
  \/ \E x \in Stored : pci[x].secondary = bus

OnceInv ==
  IsTree =>
    /\ IsInjective(array)
    /\ \A x \in Stored : Called(x[1])
    /\ \A p \in 1 .. Len(stack) : stack[p].op # "all" => Called(stack[p].bus)
    /\ \A p, q \in 1 .. Len(stack) :
         stack[p].op = "bus" /\ stack[q].op = "bus" /\ p # q => stack[p].bus # stack[q].bus
    /\ \A p \in 1 .. Len(stack), x \in Stored : ~ Ahead(stack[p], x)

PanicInv ==
  pc = "panicked" =>
    /\ Len(array) = DEVICE_CAPACITY
    /\ IsTree => \E x \in Reachable : x \notin Stored

IInv == StackInv /\ ShapeInv /\ DepthInv /\ SoundInv /\ CoverInv /\ OnceInv /\ PanicInv

-----------------------------------------------------------------------------
(***************************************************************************)
(* The machine and what can be reached in it.                              *)
(***************************************************************************)
\* The machine does not change, so neither does what can be reached.
LEMMA PciKept ==
  ASSUME pci' = pci
  PROVE  /\ Reachable' = Reachable /\ IsTree' = IsTree /\ RootBuses' = RootBuses
         /\ \A bus : Visible(bus)' = Visible(bus)
         /\ \A frame : SoundFrame(frame)' = SoundFrame(frame)
<1>1. \A x : present(x)' = present(x)
  BY DEF present
<1>2. \A x : is_single_function_device(x)' = is_single_function_device(x)
  BY <1>1 DEF is_single_function_device
<1>3. \A bus : Visible(bus)' = Visible(bus)
  BY <1>1 DEF Visible
<1>4. RootBuses' = RootBuses
  BY <1>1, <1>2 DEF RootBuses
<1>5. \A bus : BusesBehind(bus)' = BusesBehind(bus)
  BY <1>3 DEF BusesBehind
<1>6. \A buses : IsClosed(buses)' = IsClosed(buses)
  BY <1>4, <1>5 DEF IsClosed
<1>7. ReachedBuses' = ReachedBuses
  BY <1>6 DEF ReachedBuses
<1>8. Reachable' = Reachable
  BY <1>3, <1>7 DEF Reachable
<1>9. IsTree' = IsTree
  BY <1>4, <1>8 DEF IsTree
<1>10. \A frame : SoundFrame(frame)' = SoundFrame(frame)
  BY <1>1, <1>2, <1>7 DEF SoundFrame
<1> QED  BY <1>3, <1>4, <1>8, <1>9, <1>10

\* Functions are triples of their numbers.
LEMMA FunctionIsTriple ==
  \A x \in Function : /\ x = <<x[1], x[2], x[3]>>
                      /\ x[1] \in Buses
                      /\ x[2] \in 0 .. DeviceCount - 1
                      /\ x[3] \in 0 .. FunctionCount - 1
BY DEF Function, Buses

\* The reached buses have the roots among them and are closed under bridges.
LEMMA RootsReached == RootBuses \subseteq ReachedBuses
<1>1. RootBuses \subseteq Buses
  BY DEF RootBuses, Buses
<1> QED  BY <1>1 DEF ReachedBuses, IsClosed, Buses

LEMMA BehindReached ==
  ASSUME StackInv, NEW bus \in ReachedBuses, NEW x \in Visible(bus), pci[x].secondary # -1
  PROVE  pci[x].secondary \in ReachedBuses
<1>1. pci[x].secondary \in Buses
  BY DEF StackInv, Visible, Header, Buses
<1>2. pci[x].secondary \in BusesBehind(bus)
  BY DEF BusesBehind
<1> QED  BY <1>1, <1>2 DEF ReachedBuses, IsClosed, Buses

LEMMA VisibleReachable ==
  ASSUME NEW bus \in ReachedBuses PROVE Visible(bus) \subseteq Reachable
BY DEF Reachable

-----------------------------------------------------------------------------
(***************************************************************************)
(* The stack.                                                              *)
(***************************************************************************)
LEMMA FrontOfSeq ==
  ASSUME NEW S, NEW s \in Seq(S), s # << >>
  PROVE  /\ Front(s) \in Seq(S) /\ Len(Front(s)) = Len(s) - 1
         /\ \A p \in 1 .. Len(s) - 1 : Front(s)[p] = s[p]
<1> DEFINE m == Len(s) - 1
<1>1. m \in Nat /\ m < Len(s)
  OBVIOUS
<1>2. Front(s) = SubSeq(s, 1, m)
  BY DEF Front
<1> HIDE DEF m
<1>3. Len(Front(s)) = m
  BY <1>1, <1>2
<1>4. \A p \in 1 .. m : Front(s)[p] = s[p]
  BY <1>1, <1>2
<1>5. Front(s) \in Seq(S)
  BY <1>1, <1>2
<1> QED  BY <1>3, <1>4, <1>5 DEF m

\* A loop goes on and calls nothing.
LEMMA LoopStack ==
  ASSUME stack \in Seq(Frame), stack # << >>, NEW frame \in Frame, Loop(frame, << >>)
  PROVE  /\ stack' \in Seq(Frame) /\ Len(stack') = Len(stack)
         /\ stack'[Len(stack)] = frame
         /\ \A p \in 1 .. Len(stack) - 1 : stack'[p] = stack[p]
<1>1. stack' = Append(Front(stack), frame) \o << >>
  BY DEF Loop
<1>2. Front(stack) \in Seq(Frame) /\ Len(Front(stack)) = Len(stack) - 1
      /\ \A p \in 1 .. Len(stack) - 1 : Front(stack)[p] = stack[p]
  BY FrontOfSeq
<1>3. Append(Front(stack), frame) \in Seq(Frame)
  BY <1>2
<1>4. stack' = Append(Front(stack), frame)
  BY <1>1, <1>3
<1> QED  BY <1>2, <1>4

\* A loop goes on in a call.
LEMMA CallStack ==
  ASSUME stack \in Seq(Frame), stack # << >>, NEW frame \in Frame, NEW callee \in Frame,
         Loop(frame, << callee >>)
  PROVE  /\ stack' \in Seq(Frame) /\ Len(stack') = Len(stack) + 1
         /\ stack'[Len(stack)] = frame /\ stack'[Len(stack) + 1] = callee
         /\ \A p \in 1 .. Len(stack) - 1 : stack'[p] = stack[p]
<1>1. stack' = Append(Front(stack), frame) \o << callee >>
  BY DEF Loop
<1>2. Front(stack) \in Seq(Frame) /\ Len(Front(stack)) = Len(stack) - 1
      /\ \A p \in 1 .. Len(stack) - 1 : Front(stack)[p] = stack[p]
  BY FrontOfSeq
<1>3. /\ Append(Front(stack), frame) \in Seq(Frame)
      /\ Len(Append(Front(stack), frame)) = Len(stack)
      /\ Append(Front(stack), frame)[Len(stack)] = frame
      /\ \A p \in 1 .. Len(stack) - 1 : Append(Front(stack), frame)[p] = stack[p]
  BY <1>2
<1> QED  BY <1>1, <1>3

LEMMA ReturnStack ==
  ASSUME stack \in Seq(Frame), stack # << >>, stack' = Front(stack)
  PROVE  /\ stack' \in Seq(Frame) /\ Len(stack') = Len(stack) - 1
         /\ \A p \in 1 .. Len(stack) - 1 : stack'[p] = stack[p]
BY FrontOfSeq

LEMMA StoreArray ==
  ASSUME NEW S, array \in Seq(S), NEW x \in S, array' = Append(array, x)
  PROVE  /\ array' \in Seq(S) /\ Len(array') = Len(array) + 1
         /\ Stored' = Stored \union {x}
         /\ IsInjective(array) /\ x \notin Stored => IsInjective(array')
<1>1. /\ array' \in Seq(S) /\ Len(array') = Len(array) + 1
      /\ array'[Len(array) + 1] = x /\ \A m \in 1 .. Len(array) : array'[m] = array[m]
  OBVIOUS
<1>2. Stored' = Stored \union {x}
  BY <1>1 DEF Stored, ToSet
<1>3. IsInjective(array) /\ x \notin Stored => IsInjective(array')
  BY <1>1 DEF IsInjective, Stored, ToSet
<1> QED  BY <1>1, <1>2, <1>3

\* What has been called for stays covered if every loop that has yet to meet a
\* function meets it in the step, or later.
LEMMA CoverStep ==
  ASSUME pci' = pci, Stored \subseteq Stored',
         \A p \in 1 .. Len(stack), x \in DOMAIN pci :
           x \in Visible(x[1]) /\ Ahead(stack[p], x) =>
             x \in Stored' \/ \E q \in 1 .. Len(stack') : Ahead(stack'[q], x)
  PROVE  \A bus : Covered(bus) => Covered(bus)'
<1> SUFFICES ASSUME NEW bus, Covered(bus), NEW x \in Visible(bus)
             PROVE  x \in Stored' \/ \E q \in 1 .. Len(stack') : Ahead(stack'[q], x)
  BY PciKept DEF Covered
<1>1. x \in DOMAIN pci /\ x[1] = bus
  BY DEF Visible
<1> QED  BY <1>1 DEF Covered

\* A bus just called for is covered by the call.
LEMMA CoverCall ==
  ASSUME StackInv, pci' = pci, NEW bus, NEW q \in 1 .. Len(stack'), stack'[q] = BusFrame(bus, 0)
  PROVE  Covered(bus)'
<1> SUFFICES ASSUME NEW x \in Visible(bus) PROVE Ahead(stack'[q], x)
  BY PciKept DEF Covered
<1>1. x \in Function /\ x[1] = bus
  BY DEF Visible, StackInv
<1> QED  BY <1>1, FunctionIsTriple DEF Ahead, BusFrame

\* What has been called for stays so while the host bridge's loop advances.
LEMMA CalledStep ==
  ASSUME pci' = pci, Stored \subseteq Stored',
         \A q \in 1 .. Len(stack') : stack'[q].op = "all" =>
           \E p \in 1 .. Len(stack) : /\ stack[p].op = "all"
                                      /\ \A bus \in RootBuses :
                                           bus < stack[p].func => bus < stack'[q].func
  PROVE  \A bus : Called(bus) => Called(bus)'
BY PciKept DEF Called

-----------------------------------------------------------------------------
(***************************************************************************)
(* The steps.                                                              *)
(***************************************************************************)
LEMMA InvInit == Init => IInv
<1> SUFFICES ASSUME Init PROVE IInv
  OBVIOUS
<1>1. StackInv
  BY DEF Init, StackInv
<1>2. Len(stack) = 0 /\ Stored = {} /\ array = << >> /\ stack = << >>
  BY DEF Init, Stored, ToSet
<1>3. ShapeInv /\ DepthInv /\ SoundInv /\ CoverInv
  BY <1>2 DEF Init, ShapeInv, DepthInv, SoundInv, CoverInv
<1>4. OnceInv /\ PanicInv
  BY <1>2 DEF Init, OnceInv, PanicInv, IsInjective
<1> QED  BY <1>1, <1>3, <1>4 DEF IInv

LEMMA ScanAllBusKeeps == IInv /\ ScanAllBus => IInv'
<1> SUFFICES ASSUME IInv, ScanAllBus PROVE IInv'
  OBVIOUS
<1> USE DEF IInv
<1> DEFINE frame == IF is_single_function_device(<<0, 0, 0>>) THEN BusFrame(0, 0) ELSE AllFrame(0)
<1>0. /\ pci' = pci /\ pc' = "scan" /\ array' = array /\ array = << >> /\ stack = << >>
      /\ stack' = << frame >>
  BY DEF ScanAllBus, StackInv
<1>1. frame \in Frame /\ 0 \in Buses
  BY DEF Frame, BusFrame, AllFrame, Buses
<1>2. /\ Len(stack') = 1 /\ stack'[1] = frame /\ Stored = {} /\ Stored' = {}
      /\ stack' \in Seq(Frame) /\ Len(stack) = 0
  BY <1>0, <1>1 DEF Stored, ToSet
<1>3. /\ frame.op = "bus" => is_single_function_device(<<0, 0, 0>>) /\ frame = BusFrame(0, 0)
      /\ frame.op \in {"bus", "all"} /\ frame.func = 0
      /\ frame.op = "all" => ~ is_single_function_device(<<0, 0, 0>>)
      /\ frame.bus = 0
  BY DEF BusFrame, AllFrame
<1> HIDE DEF frame
<1>4. StackInv'
  BY <1>0, <1>2 DEF StackInv
<1>5. ShapeInv' /\ DepthInv'
  BY <1>0, <1>2, <1>3 DEF ShapeInv, DepthInv, Slack
<1>6. is_single_function_device(<<0, 0, 0>>) => RootBuses = {0} /\ 0 \in ReachedBuses
  BY RootsReached DEF RootBuses
<1>7. SoundInv'
  <2>1. SoundFrame(frame)
    BY <1>3, <1>6 DEF SoundFrame
  <2> QED  BY <2>1, <1>0, <1>2, PciKept DEF SoundInv
<1>8. CoverInv'
  <2>1. CASE frame.op = "all"
    <3>1. \A bus \in RootBuses : bus >= 0
      BY <2>1, <1>3 DEF RootBuses
    <3> QED  BY <2>1, <3>1, <1>0, <1>2, <1>3, PciKept DEF CoverInv
  <2>2. CASE frame.op = "bus"
    <3>1. Covered(0)'
      BY <2>2, <1>0, <1>2, <1>3, CoverCall
    <3> QED  BY <2>2, <3>1, <1>0, <1>2, <1>3, <1>6, PciKept DEF CoverInv
  <2> QED  BY <2>1, <2>2, <1>3
<1>9. OnceInv'
  <2>1. frame.op # "all" => Called(0)'
    BY <1>0, <1>2, <1>3, <1>6, PciKept DEF Called
  <2>2. IsInjective(array')
    BY <1>0 DEF IsInjective
  <2>3. \A p \in 1 .. Len(stack') : p = 1 /\ stack'[p] = frame
    BY <1>2
  <2> QED  BY <2>1, <2>2, <2>3, <1>2, <1>3 DEF OnceInv
<1>10. PanicInv'
  BY <1>0 DEF PanicInv
<1> QED  BY <1>4, <1>5, <1>7, <1>8, <1>9, <1>10

\* The innermost call returns when its loop has nothing left to meet.
LEMMA ReturnKeeps ==
  ASSUME IInv, pc = "scan", stack # << >>, UNCHANGED <<pci, pc>>, Return,
         Last(stack).op = "all" => Last(stack).func = FunctionCount,
         Last(stack).op = "dev" => Last(stack).func >= 1,
         \A x \in DOMAIN pci : x \in Visible(x[1]) => ~ Ahead(Last(stack), x)
  PROVE  IInv'
<1> USE DEF IInv
<1> DEFINE n == Len(stack)
           top == stack[n]
<1>0. pci' = pci /\ pc' = pc /\ array' = array /\ Last(stack) = top /\ Stored' = Stored
  BY DEF Return, Last, Stored
<1>1. /\ stack \in Seq(Frame) /\ n \in Nat \ {0} /\ top \in Frame
      /\ stack' \in Seq(Frame) /\ Len(stack') = n - 1
      /\ \A p \in 1 .. n - 1 : stack'[p] = stack[p]
  <2>1. stack' = Front(stack) /\ stack \in Seq(Frame)
    BY DEF Return, StackInv
  <2> QED  BY <2>1, ReturnStack
<1> HIDE DEF n, top
<1>2. \A p \in 1 .. Len(stack') : p \in 1 .. n /\ p < n /\ stack'[p] = stack[p]
  BY <1>1
<1>3. StackInv'
  BY <1>0, <1>1 DEF StackInv
<1>4. ShapeInv'
  <2>1. ASSUME NEW p \in 1 .. Len(stack')
        PROVE  /\ p \in 1 .. Len(stack) /\ p < Len(stack) /\ stack'[p] = stack[p]
               /\ p < Len(stack') => stack'[p + 1] = stack[p + 1]
    <3>1. p \in 1 .. n /\ p < n /\ stack'[p] = stack[p]
      BY <1>2
    <3>2. p < Len(stack') => p + 1 \in 1 .. Len(stack')
      BY <1>1
    <3>3. p < Len(stack') => stack'[p + 1] = stack[p + 1]
      BY <1>2, <3>2, Zenon
    <3> QED  BY <3>1, <3>3, Zenon DEF n
  <2> SUFFICES ASSUME NEW p \in 1 .. Len(stack')
               PROVE  /\ stack'[p].op = "all" => p = 1
                      /\ p = 1 => stack'[p].op # "dev"
                      /\ p < Len(stack') /\ stack'[p].op = "bus" =>
                           /\ stack'[p + 1].op = "dev" /\ stack'[p + 1].bus = stack'[p].bus
                           /\ stack'[p + 1].device = stack'[p].device - 1
                      /\ p < Len(stack') /\ stack'[p].op # "bus" =>
                           stack'[p + 1].op = "bus" /\ stack'[p].func >= 1
    BY Zenon DEF ShapeInv
  <2>2. p \in 1 .. Len(stack) /\ p < Len(stack)
    BY <2>1
  <2>3. /\ stack[p].op = "all" => p = 1
        /\ p = 1 => stack[p].op # "dev"
        /\ stack[p].op = "bus" => /\ stack[p + 1].op = "dev" /\ stack[p + 1].bus = stack[p].bus
                                 /\ stack[p + 1].device = stack[p].device - 1
        /\ stack[p].op # "bus" => stack[p + 1].op = "bus" /\ stack[p].func >= 1
    BY <2>2, Zenon DEF ShapeInv
  <2> QED  BY <2>1, <2>3
<1>5. DepthInv'
  <2> SUFFICES ASSUME stack' # << >>
               PROVE  n - 1 <= 2 * Len(array) + Slack(stack[n - 1])
    BY <1>0, <1>1, <1>2 DEF DepthInv
  <2> DEFINE below == stack[n - 1]
  <2>0. n - 1 >= 1
    BY <1>1
  <2>1. n - 1 \in 1 .. n /\ n - 1 < n /\ below \in Frame /\ n - 1 + 1 = n
    BY <2>0, <1>1 DEF n
  <2>2. /\ below.op = "bus" => top.op = "dev"
        /\ below.op # "bus" => top.op = "bus" /\ below.func >= 1
    BY <2>1 DEF ShapeInv, n, top
  <2>3. n <= 2 * Len(array) + Slack(top)
    BY DEF DepthInv, n, top
  <2>4. Len(array) \in Nat /\ (top.op = "dev" => top.func >= 1)
    BY <1>0 DEF StackInv
  <2>5. top.func \in Nat /\ below.func \in Nat
    <3>1. \A frame \in Frame : frame.func \in Nat
      BY DEF Frame
    <3> QED  BY <1>1, <2>1, <3>1
  <2> QED  BY <1>1, <2>1, <2>2, <2>3, <2>4, <2>5, SMTT(20) DEF Slack
<1>6. SoundInv'
  BY <1>0, <1>2, PciKept DEF SoundInv, n
<1>7. CoverInv'
  <2>1. \A bus : Covered(bus) => Covered(bus)'
    <3> SUFFICES ASSUME NEW p \in 1 .. n, NEW x \in DOMAIN pci, x \in Visible(x[1]),
                        Ahead(stack[p], x)
                 PROVE  \E q \in 1 .. Len(stack') : Ahead(stack'[q], x)
      BY <1>0, CoverStep DEF n
    <3>1. p # n
      BY <1>0 DEF top
    <3>2. p \in 1 .. Len(stack') /\ stack'[p] = stack[p]
      BY <3>1, <1>1
    <3> QED  BY <3>2
  <2>2. ASSUME NEW bus \in RootBuses, NEW p \in 1 .. n, stack[p].op = "all",
               stack[p].func <= bus, ~ Covered(bus)
        PROVE  \E q \in 1 .. Len(stack') : stack'[q].op = "all" /\ stack'[q].func <= bus
    <3>1. bus < FunctionCount
      BY DEF RootBuses
    <3>2. bus \in Nat
      BY DEF RootBuses
    <3>3. p # n
      BY <2>2, <3>1, <3>2, <1>0 DEF top
    <3>4. p \in 1 .. Len(stack') /\ stack'[p] = stack[p]
      BY <3>3, <1>1
    <3> QED  BY <3>4, <2>2
  <2> QED  BY <2>1, <2>2, <1>0, PciKept DEF CoverInv, n
<1>8. OnceInv'
  <2>1. \A bus : Called(bus) => Called(bus)'
    BY <1>0, <1>2, CalledStep DEF n
  <2> SUFFICES ASSUME IsTree PROVE OnceInv'
    BY <1>0, PciKept DEF OnceInv
  <2>2. /\ IsInjective(array)
        /\ \A x \in Stored : Called(x[1])
        /\ \A p \in 1 .. n : stack[p].op # "all" => Called(stack[p].bus)
        /\ \A p, q \in 1 .. n :
             stack[p].op = "bus" /\ stack[q].op = "bus" /\ p # q => stack[p].bus # stack[q].bus
        /\ \A p \in 1 .. n, x \in Stored : ~ Ahead(stack[p], x)
    BY DEF OnceInv, n
  <2>3. (\A p \in 1 .. Len(stack) : stack[p].op # "all" => Called(stack[p].bus))'
    <3> SUFFICES ASSUME NEW p \in 1 .. Len(stack'), stack'[p].op # "all"
                 PROVE  Called(stack[p].bus)'
      OBVIOUS
    <3>1. PICK bus : bus = stack'[p].bus
      OBVIOUS
    <3>2. Called(bus)'
      BY <1>2, <2>1, <2>2, <3>1
    <3> QED  BY <3>1, <3>2 DEF Called
  <2>4. \A p, q \in 1 .. Len(stack') :
          stack'[p].op = "bus" /\ stack'[q].op = "bus" /\ p # q => stack'[p].bus # stack'[q].bus
    BY <1>2, <2>2
  <2>5. \A p \in 1 .. Len(stack'), x \in Stored : ~ Ahead(stack'[p], x)
    BY <1>2, <2>2
  <2>6. (\A x \in Stored : Called(x[1]))'
    BY <1>0, <2>1, <2>2
  <2> QED  BY <1>0, <2>2, <2>3, <2>4, <2>5, <2>6 DEF OnceInv
<1>9. PanicInv'
  BY <1>0 DEF PanicInv
<1> QED  BY <1>3, <1>4, <1>5, <1>6, <1>7, <1>8, <1>9

-----------------------------------------------------------------------------
(***************************************************************************)
(* The innermost loop goes on as `frame`, after the call in `calls`, if    *)
(* any.  All iterations that do not return are of this form.               *)
(***************************************************************************)
GoesOn(frame, calls) ==
  /\ pc = "scan" /\ UNCHANGED <<pci, pc>> /\ stack # << >>
  /\ frame \in Frame
  /\ calls = << >> \/ \E callee \in Frame : calls = << callee >>
  /\ Loop(frame, calls)
  /\ frame.op = Last(stack).op
  /\ frame.op # "all" => frame.bus = Last(stack).bus
  /\ frame.op = "dev" => frame.device = Last(stack).device

LEMMA GoOnStack ==
  ASSUME StackInv, NEW frame, NEW calls, GoesOn(frame, calls)
  PROVE  /\ Len(stack) \in Nat \ {0} /\ stack[Len(stack)] \in Frame
         /\ Last(stack) = stack[Len(stack)]
         /\ stack' \in Seq(Frame)
         /\ \A p \in 1 .. Len(stack) - 1 : stack'[p] = stack[p]
         /\ stack'[Len(stack)] = frame
         /\ calls = << >> => Len(stack') = Len(stack)
         /\ calls # << >> => /\ Len(stack') = Len(stack) + 1
                             /\ calls[1] \in Frame
                             /\ stack'[Len(stack) + 1] = calls[1]
<1>0. stack \in Seq(Frame) /\ stack # << >> /\ frame \in Frame /\ Loop(frame, calls)
  BY DEF StackInv, GoesOn
<1>1. Len(stack) \in Nat \ {0} /\ stack[Len(stack)] \in Frame
  BY <1>0
<1>2. CASE calls = << >>
  BY <1>0, <1>1, <1>2, LoopStack DEF Last
<1>3. CASE \E callee \in Frame : calls = << callee >>
  <2>1. PICK callee \in Frame : calls = << callee >>
    BY <1>3
  <2>2. calls # << >> /\ calls[1] = callee
    BY <2>1
  <2> QED  BY <1>0, <1>1, <2>1, <2>2, CallStack DEF Last
<1> QED  BY <1>2, <1>3 DEF GoesOn

\* A frame of the new stack is one of the old ones but the last, or a new one.
LEMMA GoOnFrames ==
  ASSUME StackInv, NEW frame, NEW calls, GoesOn(frame, calls), NEW q \in 1 .. Len(stack')
  PROVE  \/ q \in 1 .. Len(stack) - 1 /\ stack'[q] = stack[q]
         \/ q = Len(stack) /\ stack'[q] = frame
         \/ q = Len(stack) + 1 /\ calls # << >> /\ stack'[q] = calls[1]
<1>1. CASE calls = << >>
  BY <1>1, GoOnStack
<1>2. CASE calls # << >>
  BY <1>2, GoOnStack
<1> QED  BY <1>1, <1>2

LEMMA GoOnShape ==
  ASSUME StackInv, ShapeInv, NEW frame, NEW calls, GoesOn(frame, calls),
         calls # << >> /\ frame.op = "bus" => /\ calls[1].op = "dev"
                                              /\ calls[1].bus = frame.bus
                                              /\ calls[1].device = frame.device - 1,
         calls # << >> /\ frame.op # "bus" => calls[1].op = "bus" /\ frame.func >= 1
  PROVE  ShapeInv'
<1> DEFINE n == Len(stack)
<1>1. n \in Nat \ {0} /\ n \in 1 .. n /\ Last(stack) = stack[n]
  BY GoOnStack
<1>2. /\ frame.op = stack[n].op
      /\ frame.op # "all" => frame.bus = stack[n].bus
      /\ frame.op = "dev" => frame.device = stack[n].device
  BY <1>1 DEF GoesOn
<1> SUFFICES ASSUME NEW p \in 1 .. Len(stack')
             PROVE  /\ stack'[p].op = "all" => p = 1
                    /\ p = 1 => stack'[p].op # "dev"
                    /\ p < Len(stack') /\ stack'[p].op = "bus" =>
                         /\ stack'[p + 1].op = "dev"
                         /\ stack'[p + 1].bus = stack'[p].bus
                         /\ stack'[p + 1].device = stack'[p].device - 1
                    /\ p < Len(stack') /\ stack'[p].op # "bus" =>
                         stack'[p + 1].op = "bus" /\ stack'[p].func >= 1
  BY DEF ShapeInv
<1>3. CASE p \in 1 .. n - 1 /\ p + 1 # n
  <2>1. p \in 1 .. n /\ p < n /\ p + 1 \in 1 .. n - 1
    BY <1>1, <1>3
  <2>2. stack'[p] = stack[p] /\ stack'[p + 1] = stack[p + 1]
    BY <1>3, <2>1, GoOnStack
  <2> QED  BY <2>1, <2>2 DEF ShapeInv
<1>4. CASE p + 1 = n
  <2>1. p \in 1 .. n /\ p < n /\ p \in 1 .. n - 1
    BY <1>1, <1>4
  <2>2. stack'[p] = stack[p] /\ stack'[p + 1] = frame
    BY <1>4, <2>1, GoOnStack
  <2> QED  BY <1>2, <1>4, <2>1, <2>2 DEF ShapeInv
<1>5. CASE p = n
  <2>1. stack'[p] = frame
    BY <1>5, GoOnStack
  <2>2. p < Len(stack') => calls # << >> /\ stack'[p + 1] = calls[1]
    BY <1>1, <1>5, GoOnStack
  <2> QED  BY <1>1, <1>2, <1>5, <2>1, <2>2 DEF ShapeInv
<1>6. CASE p = n + 1
  <2>1. calls # << >> /\ stack'[p] = calls[1] /\ ~ (p < Len(stack')) /\ p # 1
    BY <1>1, <1>6, GoOnStack
  <2>2. frame \in Frame /\ calls[1] \in Frame
    BY <2>1, GoOnStack DEF GoesOn
  <2> QED  BY <2>1, <2>2 DEF Frame
<1> QED  BY <1>1, <1>3, <1>4, <1>5, <1>6, GoOnFrames

LEMMA GoOnDepth ==
  ASSUME StackInv, NEW frame, NEW calls, GoesOn(frame, calls),
         calls = << >> => Len(stack) <= 2 * Len(array') + Slack(frame),
         calls # << >> => Len(stack) + 1 <= 2 * Len(array') + Slack(calls[1])
  PROVE  DepthInv'
<1>1. CASE calls = << >>
  BY <1>1, GoOnStack DEF DepthInv, Slack
<1>2. CASE calls # << >>
  BY <1>2, GoOnStack DEF DepthInv, Slack
<1> QED  BY <1>1, <1>2

LEMMA GoOnSound ==
  ASSUME StackInv, SoundInv, NEW frame, NEW calls, GoesOn(frame, calls),
         SoundFrame(frame), calls # << >> => SoundFrame(calls[1]), Stored' \subseteq Reachable
  PROVE  SoundInv'
<1>0. pci' = pci
  BY DEF GoesOn
<1>1. ASSUME NEW q \in 1 .. Len(stack') PROVE SoundFrame(stack'[q])
  <2>1. Len(stack) \in Nat
    BY DEF StackInv
  <2>2. CASE q \in 1 .. Len(stack) - 1 /\ stack'[q] = stack[q]
    BY <2>1, <2>2 DEF SoundInv
  <2> QED  BY <2>2, GoOnFrames
<1> QED  BY <1>0, <1>1, PciKept DEF SoundInv

\* What the loop had yet to meet is stored or still to be met; a bridge that is
\* stored has its bus called for.
LEMMA GoOnCover ==
  ASSUME StackInv, CoverInv, NEW frame, NEW calls, GoesOn(frame, calls),
         Stored \subseteq Stored',
         \A x \in DOMAIN pci :
           x \in Visible(x[1]) /\ Ahead(Last(stack), x) =>
             \/ x \in Stored' \/ Ahead(frame, x)
             \/ calls # << >> /\ Ahead(calls[1], x),
         \A x \in Stored' : x \notin Stored /\ pci[x].secondary # -1 =>
           calls # << >> /\ calls[1] = BusFrame(pci[x].secondary, 0),
         Last(stack).op = "all" =>
           \A bus \in RootBuses : Last(stack).func <= bus =>
             frame.func <= bus \/ (calls # << >> /\ calls[1] = BusFrame(bus, 0))
  PROVE  CoverInv'
<1> DEFINE n == Len(stack)
<1>0. pci' = pci /\ pc' = pc /\ pc = "scan"
  BY DEF GoesOn
<1>1. /\ n \in Nat \ {0} /\ Last(stack) = stack[n] /\ n \in 1 .. Len(stack')
      /\ stack'[n] = frame /\ stack[n].op = frame.op
      /\ calls # << >> => n + 1 \in 1 .. Len(stack') /\ stack'[n + 1] = calls[1]
      /\ \A p \in 1 .. n - 1 : p \in 1 .. Len(stack') /\ stack'[p] = stack[p]
  BY GoOnStack DEF GoesOn
<1>2. \A bus : Covered(bus) => Covered(bus)'
  <2> SUFFICES ASSUME NEW p \in 1 .. n, NEW x \in DOMAIN pci,
                      x \in Visible(x[1]), Ahead(stack[p], x)
               PROVE  x \in Stored' \/ \E q \in 1 .. Len(stack') : Ahead(stack'[q], x)
    BY <1>0, CoverStep
  <2>1. CASE p \in 1 .. n - 1
    BY <2>1, <1>1
  <2>2. CASE p = n
    BY <2>2, <1>1
  <2> QED  BY <2>1, <2>2, <1>1
<1>3. \A bus : calls # << >> /\ calls[1] = BusFrame(bus, 0) => Covered(bus)'
  BY <1>0, <1>1, CoverCall
<1>4. ASSUME NEW x \in Stored', pci[x].secondary # -1
      PROVE  Covered(pci[x].secondary)'
  <2>1. CASE x \in Stored
    <3>1. Covered(pci[x].secondary)
      BY <2>1, <1>4 DEF CoverInv
    <3>2. PICK bus : bus = pci[x].secondary
      OBVIOUS
    <3>3. Covered(bus)'
      BY <3>1, <3>2, <1>2
    <3> QED  BY <3>2, <3>3, <1>0
  <2>2. CASE x \notin Stored
    <3>1. PICK bus : bus = pci[x].secondary
      OBVIOUS
    <3>2. Covered(bus)'
      BY <2>2, <3>1, <1>3, <1>4
    <3> QED  BY <3>1, <3>2, <1>0
  <2> QED  BY <2>1, <2>2
<1>5. ASSUME NEW bus \in RootBuses
      PROVE  \/ Covered(bus)'
             \/ \E q \in 1 .. Len(stack') : stack'[q].op = "all" /\ stack'[q].func <= bus
  <2>1. CASE Covered(bus)
    BY <2>1, <1>2
  <2>2. CASE \E p \in 1 .. n : stack[p].op = "all" /\ stack[p].func <= bus
    <3>1. PICK p \in 1 .. n : stack[p].op = "all" /\ stack[p].func <= bus
      BY <2>2
    <3>2. CASE p \in 1 .. n - 1
      BY <3>1, <3>2, <1>1
    <3>3. CASE p = n
      BY <3>1, <3>3, <1>1, <1>3
    <3> QED  BY <3>2, <3>3, <1>1
  <2> QED  BY <2>1, <2>2, <1>0 DEF CoverInv
<1> QED  BY <1>0, <1>4, <1>5, PciKept DEF CoverInv

\* On a tree: a function that is stored now was not stored before and is met by no
\* other loop, and a bus that is called for is new.
LEMMA GoOnOnce ==
  ASSUME StackInv, ShapeInv, OnceInv, NEW frame, NEW calls, GoesOn(frame, calls),
         Stored \subseteq Stored',
         IsTree => IsInjective(array'),
         \A x \in Stored' : x \notin Stored =>
           /\ Last(stack).op = "dev" /\ x[1] = Last(stack).bus /\ x[2] = Last(stack).device
           /\ ~ Ahead(frame, x),
         \A x \in Stored : Ahead(frame, x) => Ahead(Last(stack), x),
         frame.op = "all" => Last(stack).func <= frame.func,
         IsTree /\ calls # << >> /\ calls[1].op = "bus" =>
           /\ Called(calls[1].bus)'
           /\ \A x \in Stored' : x[1] # calls[1].bus
           /\ \A p \in 1 .. Len(stack) : stack[p].op = "bus" => stack[p].bus # calls[1].bus,
         calls # << >> /\ calls[1].op # "bus" =>
           /\ calls[1].op = "dev" /\ frame.op = "bus" /\ calls[1].bus = frame.bus
           /\ Stored' = Stored
           /\ \A x \in Stored : Ahead(calls[1], x) => Ahead(Last(stack), x)
  PROVE  OnceInv'
<1> DEFINE n == Len(stack)
           top == stack[n]
<1>0. pci' = pci /\ IsTree' = IsTree
  BY PciKept DEF GoesOn
<1> SUFFICES ASSUME IsTree PROVE OnceInv'
  BY <1>0 DEF OnceInv
<1>1. /\ n \in Nat \ {0} /\ n \in 1 .. n /\ Last(stack) = top /\ top \in Frame
      /\ \A p \in 1 .. n - 1 : p \in 1 .. n
      /\ frame \in Frame /\ frame.op = top.op
      /\ frame.op # "all" => frame.bus = top.bus
  BY GoOnStack DEF GoesOn
<1>2. \A bus : Called(bus) => Called(bus)'
  <2>1. ASSUME NEW q \in 1 .. Len(stack'), stack'[q].op = "all"
        PROVE  \E p \in 1 .. n : /\ stack[p].op = "all"
                                 /\ \A bus \in RootBuses :
                                      bus < stack[p].func => bus < stack'[q].func
    <3>1. CASE q \in 1 .. n - 1 /\ stack'[q] = stack[q]
      BY <2>1, <3>1, <1>1
    <3>2. CASE q = n /\ stack'[q] = frame
      <4>1. top.op = "all" /\ top.func <= frame.func
        BY <2>1, <3>2, <1>1
      <4>2. top.func \in Int /\ frame.func \in Int /\ RootBuses \subseteq Int
        <5>1. RootBuses \subseteq Int
          BY DEF RootBuses
        <5>2. top \in Frame /\ frame \in Frame
          BY <1>1
        <5>3. \A any \in Frame : any.func \in Int
          BY DEF Frame
        <5> QED  BY <5>1, <5>2, <5>3, Zenon
      <4>3. \A bus \in RootBuses : bus < top.func => bus < frame.func
        BY <4>1, <4>2
      <4> QED  BY <4>1, <4>3, <3>2, <1>1
    <3>3. CASE q = n + 1 /\ calls # << >> /\ stack'[q] = calls[1]
      BY <2>1, <3>3
    <3> QED  BY <3>1, <3>2, <3>3, GoOnFrames
  <2> QED  BY <2>1, <1>0, CalledStep
<1>3. top.op # "all" => Called(top.bus)
  BY <1>1 DEF OnceInv
<1>4. ASSUME NEW x \in Stored' PROVE Called(x[1])'
  <2>1. CASE x \in Stored
    BY <2>1, <1>2 DEF OnceInv
  <2>2. CASE x \notin Stored
    <3>1. Called(x[1])
      BY <2>2, <1>1, <1>3
    <3> QED  BY <3>1, <1>2
  <2> QED  BY <2>1, <2>2
<1>5. ASSUME NEW q \in 1 .. Len(stack'), stack'[q].op # "all", NEW bus, bus = stack'[q].bus
      PROVE  Called(bus)'
  <2>1. CASE q \in 1 .. n - 1 /\ stack'[q] = stack[q]
    <3>1. Called(bus)
      BY <2>1, <1>1, <1>5 DEF OnceInv
    <3> QED  BY <3>1, <1>2
  <2>2. CASE q = n /\ stack'[q] = frame
    <3>1. Called(bus)
      BY <2>2, <1>1, <1>3, <1>5
    <3> QED  BY <3>1, <1>2
  <2>3. CASE q = n + 1 /\ calls # << >> /\ stack'[q] = calls[1]
    <3>1. CASE calls[1].op = "bus"
      BY <2>3, <3>1, <1>5
    <3>2. CASE calls[1].op # "bus"
      <4>1. Called(bus)
        BY <2>3, <3>2, <1>1, <1>3, <1>5
      <4> QED  BY <4>1, <1>2
    <3> QED  BY <3>1, <3>2
  <2> QED  BY <2>1, <2>2, <2>3, GoOnFrames
<1>6. ASSUME NEW p \in 1 .. Len(stack'), NEW q \in 1 .. Len(stack'), p < q,
             stack'[p].op = "bus", stack'[q].op = "bus"
      PROVE  stack'[p].bus # stack'[q].bus
  <2>1. CASE q \in 1 .. n - 1 /\ stack'[q] = stack[q]
    <3>1. p \in 1 .. n - 1 /\ stack'[p] = stack[p]
      BY <2>1, <1>1, <1>6, GoOnFrames
    <3> QED  BY <2>1, <3>1, <1>1, <1>6 DEF OnceInv
  <2>2. CASE q = n /\ stack'[q] = frame
    <3>1. p \in 1 .. n - 1 /\ stack'[p] = stack[p]
      BY <2>2, <1>1, <1>6, GoOnFrames
    <3> QED  BY <2>2, <3>1, <1>1, <1>6 DEF OnceInv
  <2>3. CASE q = n + 1 /\ calls # << >> /\ stack'[q] = calls[1]
    <3>1. \/ p \in 1 .. n /\ stack'[p] = stack[p]
          \/ p = n /\ top.op = "bus" /\ stack'[p].bus = top.bus
      BY <2>3, <1>1, <1>6, GoOnFrames
    <3> QED  BY <2>3, <3>1, <1>1, <1>6
  <2> QED  BY <2>1, <2>2, <2>3, GoOnFrames
<1>7. ASSUME NEW q \in 1 .. n - 1, NEW x \in Stored', x \notin Stored
      PROVE  ~ Ahead(stack[q], x)
  <2>1. top.op = "dev" /\ x[1] = top.bus /\ x[2] = top.device
    BY <1>1, <1>7
  <2>2. n # 1 /\ n - 1 \in 1 .. n /\ n - 1 < n /\ n - 1 + 1 = n
    BY <1>1, <2>1 DEF ShapeInv
  <2>3. /\ stack[n - 1].op = "bus" /\ stack[n - 1].bus = top.bus
        /\ top.device = stack[n - 1].device - 1
    BY <2>1, <2>2 DEF ShapeInv
  <2>4. q \in 1 .. n /\ q < n
    BY <1>1
  <2>5. stack[n - 1].device \in Int
    <3>1. stack[n - 1] \in Frame
      BY <2>2 DEF StackInv
    <3> QED  BY <3>1 DEF Frame
  <2>6. CASE stack[q].op = "bus" /\ stack[q].bus = x[1]
    <3>1. q = n - 1
      BY <2>1, <2>2, <2>3, <2>4, <2>6 DEF OnceInv
    <3> QED  BY <2>1, <2>3, <2>5, <2>6, <3>1 DEF Ahead
  <2>7. CASE stack[q].op = "dev" /\ stack[q].bus = x[1]
    <3>1. q # 1 /\ q - 1 \in 1 .. n /\ q - 1 < n /\ q - 1 + 1 = q
      BY <2>4, <2>7 DEF ShapeInv
    <3>2. stack[q - 1].op = "bus" /\ stack[q - 1].bus = stack[q].bus
      BY <2>7, <3>1 DEF ShapeInv
    <3>3. q - 1 = n - 1
      <4>1. \A p, r \in 1 .. n : stack[p].op = "bus" /\ stack[r].op = "bus" /\ p # r =>
                                 stack[p].bus # stack[r].bus
        BY DEF OnceInv
      <4>2. stack[q - 1].bus = stack[n - 1].bus
        BY <2>1, <2>3, <2>7, <3>2
      <4> QED  BY <2>2, <2>3, <3>1, <3>2, <4>1, <4>2, Zenon
    <3> QED  BY <2>4, <3>3
  <2> QED  BY <2>6, <2>7 DEF Ahead
<1>8. ASSUME NEW q \in 1 .. Len(stack'), NEW x \in Stored'
      PROVE  ~ Ahead(stack'[q], x)
  <2>1. x \in Stored => \A p \in 1 .. n : ~ Ahead(stack[p], x)
    BY DEF OnceInv
  <2>2. CASE q \in 1 .. n - 1 /\ stack'[q] = stack[q]
    BY <2>1, <2>2, <1>1, <1>7
  <2>3. CASE q = n /\ stack'[q] = frame
    BY <2>1, <2>3, <1>1
  <2>4. CASE q = n + 1 /\ calls # << >> /\ stack'[q] = calls[1]
    <3>1. CASE calls[1].op = "bus"
      BY <2>4, <3>1 DEF Ahead
    <3>2. CASE calls[1].op # "bus"
      BY <2>1, <2>4, <3>2, <1>1
    <3> QED  BY <3>1, <3>2
  <2> QED  BY <2>2, <2>3, <2>4, GoOnFrames
<1>9. \A p, q \in 1 .. Len(stack') :
        stack'[p].op = "bus" /\ stack'[q].op = "bus" /\ p # q => stack'[p].bus # stack'[q].bus
  <2>1. Len(stack') \in Nat
    BY GoOnStack
  <2> QED  BY <2>1, <1>6
<1>10. \A q \in 1 .. Len(stack') : stack'[q].op # "all" => Called(stack[q].bus)'
  <2> SUFFICES ASSUME NEW q \in 1 .. Len(stack'), stack'[q].op # "all"
               PROVE  Called(stack[q].bus)'
    OBVIOUS
  <2>1. PICK bus : bus = stack'[q].bus
    OBVIOUS
  <2>2. Called(bus)'
    BY <2>1, <1>5
  <2> QED  BY <2>1, <2>2, Zenon
<1> QED  BY <1>4, <1>8, <1>9, <1>10 DEF OnceInv

-----------------------------------------------------------------------------
(***************************************************************************)
(* The iterations.                                                         *)
(***************************************************************************)
LEMMA AllIterationKeeps == IInv /\ AllIteration => IInv'
<1> SUFFICES ASSUME IInv, AllIteration PROVE IInv'
  OBVIOUS
<1> USE DEF IInv
<1> DEFINE n == Len(stack)
           top == stack[n]
<1>0. /\ pc = "scan" /\ stack # << >> /\ Last(stack) = top /\ top.op = "all"
      /\ UNCHANGED <<pci, pc>> /\ top \in Frame /\ n \in Nat \ {0}
  BY DEF AllIteration, In, Last, StackInv
<1>1. n = 1
  <2>1. n \in 1 .. Len(stack) /\ stack[n].op = "all"
    BY <1>0
  <2> QED  BY <2>1 DEF ShapeInv
<1>f. PICK f : f = top.func
  OBVIOUS
<1>2. CASE f = FunctionCount
  <2>1. Return
    BY <1>0, <1>f, <1>2 DEF AllIteration
  <2> QED  BY <1>0, <1>f, <1>2, <2>1, ReturnKeeps DEF Ahead
<1>3. CASE f # FunctionCount
  <2>1. PICK frame, calls :
          /\ frame = AllFrame(f + 1)
          /\ calls = IF present(<<0, 0, f>>) THEN << BusFrame(f, 0) >> ELSE << >>
    OBVIOUS
  <2>2. Loop(frame, calls) /\ array' = array /\ Stored' = Stored
    BY <1>0, <1>f, <1>3, <2>1 DEF AllIteration, Stored
  <2>3. f \in 0 .. FunctionCount - 1 /\ f \in Buses
    BY <1>0, <1>f, <1>3 DEF Frame, Buses
  <2>4. /\ frame \in Frame /\ frame.op = "all" /\ frame.func = f + 1
        /\ calls = << >> \/ BusFrame(f, 0) \in Frame
    <3>1. /\ 0 \in Buses /\ 0 \in 0 .. DeviceCount /\ 0 \in 0 .. FunctionCount
          /\ f + 1 \in 0 .. FunctionCount
      BY <2>3 DEF Buses
    <3> QED  BY <2>1, <2>3, <3>1 DEF Frame, AllFrame, BusFrame
  <2>5. /\ calls # << >> => /\ calls[1] = BusFrame(f, 0) /\ calls[1].op = "bus"
                            /\ calls[1].bus = f /\ present(<<0, 0, f>>)
        /\ calls = << >> => ~ present(<<0, 0, f>>)
    BY <2>1 DEF BusFrame
  <2>6. GoesOn(frame, calls)
    BY <1>0, <1>f, <2>1, <2>2, <2>4 DEF GoesOn
  <2>7. /\ ~ is_single_function_device(<<0, 0, 0>>)
        /\ RootBuses = {g \in 0 .. FunctionCount - 1 : present(<<0, 0, g>>)}
    BY <1>0, <1>f, <1>1 DEF SoundInv, SoundFrame, RootBuses
  <2>8. StackInv'
    BY <1>0, <1>f, <2>2, <2>6, GoOnStack DEF StackInv
  <2>9. ShapeInv'
    BY <2>3, <2>4, <2>5, <2>6, GoOnShape, SMTT(20)
  <2>10. DepthInv'
    <3>1. Len(array') \in Nat
      BY <2>2 DEF StackInv
    <3> QED  BY <1>1, <2>4, <2>5, <2>6, <3>1, GoOnDepth DEF Slack
  <2>11. SoundInv'
    <3>1. SoundFrame(frame)
      BY <2>4, <2>7 DEF SoundFrame
    <3>2. calls # << >> => SoundFrame(calls[1])
      BY <2>3, <2>5, <2>7, RootsReached DEF SoundFrame
    <3> QED  BY <2>2, <2>6, <3>1, <3>2, GoOnSound DEF SoundInv
  <2>12. CoverInv'
    <3>1. \A x : ~ Ahead(Last(stack), x)
      BY <1>0, <1>f DEF Ahead
    <3>2. ASSUME NEW bus \in RootBuses, f <= bus
          PROVE  f + 1 <= bus \/ (calls # << >> /\ calls[1] = BusFrame(bus, 0))
      BY <2>3, <2>5, <2>7, <3>2, SMTT(20)
    <3> QED  BY <1>0, <1>f, <2>2, <2>4, <2>6, <3>1, <3>2, GoOnCover
  <2>13. OnceInv'
    <3>1. ASSUME IsTree, calls # << >> PROVE Called(f)'
      <4>1. f \in RootBuses
        BY <2>3, <2>5, <2>7, <3>1
      <4>2. ASSUME NEW q \in 1 .. Len(stack'), stack'[q].op = "all" PROVE f < stack'[q].func
        <5>1. stack'[q] = frame \/ (calls # << >> /\ stack'[q] = calls[1])
          BY <1>1, <2>6, GoOnFrames
        <5>2. stack'[q] = frame
          BY <2>5, <4>2, <5>1
        <5> QED  BY <2>3, <2>4, <5>2
      <4> QED  BY <1>0, <1>f, <4>1, <4>2, PciKept DEF Called
    <3>2. ASSUME IsTree, calls # << >>, NEW x \in Stored PROVE x[1] # f
      <4>1. f \in RootBuses /\ x \in Reachable
        BY <2>3, <2>5, <2>7, <3>2 DEF SoundInv
      <4>2. \A z \in Stored : pci[z].secondary # f
        BY <3>2, <4>1 DEF IsTree, SoundInv
      <4>3. ~ (f < top.func)
        BY <1>f, <2>3
      <4> QED  BY <1>0, <1>f, <1>1, <3>2, <4>2, <4>3 DEF OnceInv, Called
    <3>3. \A x : ~ Ahead(frame, x)
      BY <2>4 DEF Ahead
    <3>4. IsTree => IsInjective(array')
      BY <2>2 DEF OnceInv
    <3>5. \A p \in 1 .. Len(stack) : stack[p].op = "all"
      BY <1>0, <1>f, <1>1
    <3>6. Last(stack).func <= frame.func
      BY <1>0, <1>f, <2>3, <2>4
    <3> QED  BY <2>2, <2>5, <2>6, <3>1, <3>2, <3>3, <3>4, <3>5, <3>6, GoOnOnce
  <2>14. PanicInv'
    BY <1>0, <1>f DEF PanicInv
  <2> QED  BY <2>8, <2>9, <2>10, <2>11, <2>12, <2>13, <2>14
<1> QED  BY <1>2, <1>3

LEMMA BusIterationKeeps == IInv /\ BusIteration => IInv'
<1> SUFFICES ASSUME IInv, BusIteration PROVE IInv'
  OBVIOUS
<1> USE DEF IInv
<1> DEFINE n == Len(stack)
           top == stack[n]
<1>0. /\ pc = "scan" /\ stack # << >> /\ Last(stack) = top /\ top.op = "bus"
      /\ UNCHANGED <<pci, pc>> /\ top \in Frame /\ n \in Nat \ {0} /\ n \in 1 .. n
  BY DEF BusIteration, In, Last, StackInv
<1>b. PICK b, d : b = top.bus /\ d = top.device
  OBVIOUS
<1>1. b \in Buses /\ d \in 0 .. DeviceCount /\ b \in ReachedBuses
  BY <1>0, <1>b DEF Frame, SoundInv, SoundFrame
<1>2. \A x \in DOMAIN pci : /\ x = <<x[1], x[2], x[3]>>
                            /\ x[2] \in 0 .. DeviceCount - 1 /\ x[3] \in 0 .. FunctionCount - 1
  BY FunctionIsTriple DEF StackInv
<1>3. CASE d = DeviceCount
  <2>1. Return
    BY <1>0, <1>b, <1>3 DEF BusIteration
  <2>2. \A x \in DOMAIN pci : ~ Ahead(Last(stack), x)
    BY <1>0, <1>b, <1>2, <1>3 DEF Ahead
  <2> QED  BY <1>0, <1>b, <2>1, <2>2, ReturnKeeps
<1>4. CASE d # DeviceCount
  <2>1. PICK frame, calls :
          /\ frame = BusFrame(b, d + 1)
          /\ calls = IF present(<<b, d, 0>>) THEN << DevFrame(b, d, 0) >> ELSE << >>
    OBVIOUS
  <2>2. Loop(frame, calls) /\ array' = array /\ Stored' = Stored
    BY <1>0, <1>b, <1>4, <2>1 DEF BusIteration, Stored
  <2>3. d \in 0 .. DeviceCount - 1 /\ d + 1 \in 0 .. DeviceCount /\ 0 \in 0 .. FunctionCount
    BY <1>1, <1>4, SMTT(20)
  <2>4. /\ frame \in Frame /\ frame.op = "bus" /\ frame.bus = b /\ frame.device = d + 1
        /\ frame.func = 0 /\ DevFrame(b, d, 0) \in Frame
    BY <1>1, <2>1, <2>3 DEF Frame, BusFrame, DevFrame
  <2>5. /\ calls # << >> => /\ calls[1].op = "dev" /\ calls[1].bus = b /\ calls[1].device = d
                            /\ calls[1].func = 0 /\ present(<<b, d, 0>>)
        /\ calls = << >> => ~ present(<<b, d, 0>>)
    BY <2>1 DEF DevFrame
  <2>6. GoesOn(frame, calls)
    BY <1>0, <1>b, <2>1, <2>2, <2>4 DEF GoesOn
  <2>8. StackInv'
    BY <1>0, <1>b, <2>2, <2>6, GoOnStack DEF StackInv
  <2>9. ShapeInv'
    BY <2>3, <2>4, <2>5, <2>6, GoOnShape, SMTT(20)
  <2>10. DepthInv'
    <3>1. Len(array') \in Nat /\ n <= 2 * Len(array') + 2
      BY <1>0, <1>b, <2>2 DEF StackInv, DepthInv, Slack
    <3> QED  BY <1>0, <1>b, <2>4, <2>5, <2>6, <3>1, GoOnDepth, SMTT(20) DEF Slack
  <2>11. SoundInv'
    <3>1. SoundFrame(frame)
      BY <1>1, <2>4 DEF SoundFrame
    <3>2. calls # << >> => SoundFrame(calls[1])
      <4>1. d < DeviceCount /\ ~ (0 > 1)
        BY <2>3
      <4> QED  BY <1>1, <2>5, <4>1, Zenon DEF SoundFrame
    <3> QED  BY <2>2, <2>6, <3>1, <3>2, GoOnSound DEF SoundInv
  <2>12. CoverInv'
    <3>1. ASSUME NEW x \in DOMAIN pci, x \in Visible(x[1]), Ahead(Last(stack), x)
          PROVE  Ahead(frame, x) \/ (calls # << >> /\ Ahead(calls[1], x))
      <4>1. x[1] = b /\ d <= x[2] /\ present(<<b, x[2], 0>>)
        BY <1>0, <1>b, <3>1 DEF Ahead, Visible
      <4>2. CASE x[2] = d
        BY <1>2, <2>5, <4>1, <4>2 DEF Ahead
      <4>3. CASE x[2] # d
        <5>1. d + 1 <= x[2]
          BY <1>2, <2>3, <4>1, <4>3
        <5>2. frame.op = "bus" /\ frame.bus = x[1] /\ frame.device <= x[2]
          BY <2>4, <4>1, <5>1
        <5> QED  BY <5>2, Zenon DEF Ahead
      <4> QED  BY <4>2, <4>3
    <3> QED  BY <1>0, <1>b, <2>2, <2>6, <3>1, GoOnCover
  <2>13. OnceInv'
    <3>1. ASSUME NEW x \in Stored
          PROVE  /\ Ahead(frame, x) => Ahead(Last(stack), x)
                 /\ calls # << >> /\ Ahead(calls[1], x) => Ahead(Last(stack), x)
      <4>1. x[2] \in 0 .. DeviceCount - 1
        BY <1>2 DEF StackInv, Stored, ToSet
      <4> QED  BY <1>0, <1>b, <2>3, <2>4, <2>5, <4>1, SMTT(20) DEF Ahead
    <3>2. IsTree => IsInjective(array')
      BY <2>2 DEF OnceInv
    <3>3. /\ Stored \subseteq Stored' /\ \A x \in Stored' : ~ (x \notin Stored)
          /\ ~ (frame.op = "all") /\ (calls # << >> => ~ (calls[1].op = "bus"))
          /\ \A x \in Stored : Ahead(frame, x) => Ahead(Last(stack), x)
      BY <2>2, <2>4, <2>5, <3>1
    <3>4. calls # << >> /\ calls[1].op # "bus" =>
            /\ calls[1].op = "dev" /\ frame.op = "bus" /\ calls[1].bus = frame.bus
            /\ Stored' = Stored
            /\ \A x \in Stored : Ahead(calls[1], x) => Ahead(Last(stack), x)
      BY <2>2, <2>4, <2>5, <3>1
    <3> QED  BY <2>6, <3>2, <3>3, <3>4, GoOnOnce, Zenon
  <2>14. PanicInv'
    BY <1>0, <1>b DEF PanicInv
  <2> QED  BY <2>8, <2>9, <2>10, <2>11, <2>12, <2>13, <2>14
<1> QED  BY <1>3, <1>4

LEMMA DeviceReturnsKeeps == IInv /\ DeviceReturns => IInv'
<1> SUFFICES ASSUME IInv, DeviceReturns PROVE IInv'
  OBVIOUS
<1> USE DEF IInv
<1>0. pc = "scan" /\ stack # << >> /\ Last(stack).op = "dev" /\ UNCHANGED <<pci, pc>> /\ Return
  BY DEF DeviceReturns, In
<1> PICK t : t = Last(stack)
  OBVIOUS
<1>1. \/ t.func = 1 /\ is_single_function_device(<<t.bus, t.device, 0>>)
      \/ t.func = FunctionCount
  BY DEF DeviceReturns
<1>2. ASSUME NEW x \in DOMAIN pci, x \in Visible(x[1]), Ahead(t, x) PROVE FALSE
  <2>1. x[1] = t.bus /\ x[2] = t.device /\ t.func <= x[3]
    BY <1>0, <1>2 DEF Ahead
  <2>2. x[3] \in 0 .. FunctionCount - 1
    BY FunctionIsTriple DEF StackInv
  <2>3. CASE t.func = FunctionCount
    BY <2>1, <2>2, <2>3
  <2>4. CASE t.func = 1 /\ is_single_function_device(<<t.bus, t.device, 0>>)
    <3>1. x[3] # 0
      BY <2>1, <2>2, <2>4
    <3>2. pci[<<x[1], x[2], 0>>].multi
      BY <1>2, <3>1 DEF Visible
    <3> QED  BY <2>1, <2>4, <3>2 DEF is_single_function_device
  <2> QED  BY <1>1, <2>3, <2>4
<1>3. t.func >= 1
  BY <1>1
<1> QED  BY <1>0, <1>2, <1>3, ReturnKeeps

\* A step that leaves the stack and the array alone.
LEMMA StayKeeps ==
  ASSUME IInv, UNCHANGED <<pci, stack, array>>, pc # "start",
         pc' \in {"scan", "done", "panicked"}, pc' = "done" => stack = << >>
  PROVE  StackInv' /\ ShapeInv' /\ DepthInv' /\ SoundInv' /\ CoverInv' /\ OnceInv'
<1> USE DEF IInv
<1>0. Stored' = Stored
  BY DEF Stored
<1>1. StackInv' /\ ShapeInv' /\ DepthInv'
  BY DEF StackInv, ShapeInv, DepthInv
<1>2. SoundInv'
  BY <1>0, PciKept DEF SoundInv
<1>3. CoverInv'
  <2>1. \A bus : Covered(bus)' = Covered(bus)
    BY <1>0, PciKept DEF Covered
  <2> QED  BY <1>0, <2>1, PciKept DEF CoverInv
<1>4. OnceInv'
  <2>1. \A bus : Called(bus)' = Called(bus)
    BY <1>0, PciKept DEF Called
  <2>2. IsTree' = IsTree /\ stack' = stack /\ array' = array
    BY PciKept
  <2>3. IsTree => \A p \in 1 .. Len(stack) : stack[p].op # "all" => Called(stack[p].bus)'
    <3> SUFFICES ASSUME IsTree, NEW p \in 1 .. Len(stack), stack[p].op # "all",
                        NEW bus, bus = stack[p].bus
                 PROVE  Called(bus)'
      BY <2>2, Zenon
    <3>1. Called(bus)
      BY DEF OnceInv
    <3> QED  BY <2>1, <3>1
  <2>4. IsTree => \A x \in Stored : Called(x[1])'
    BY <2>1 DEF OnceInv
  <2> QED  BY <1>0, <2>2, <2>3, <2>4 DEF OnceInv
<1> QED  BY <1>1, <1>2, <1>3, <1>4

\* scan_device goes on past a function that is absent.
LEMMA SkipKeeps ==
  ASSUME IInv, In("dev"), UNCHANGED <<pci, pc, array>>,
         NEW t, t = Last(stack), t.func \in 1 .. FunctionCount - 1,
         pci[<<t.bus, t.device, 0>>].multi,
         ~ present(<<t.bus, t.device, t.func>>),
         Loop(DevFrame(t.bus, t.device, t.func + 1), << >>)
  PROVE  IInv'
<1> USE DEF IInv
<1> DEFINE n == Len(stack)
<1>0. /\ pc = "scan" /\ stack # << >> /\ t = stack[n] /\ t.op = "dev"
      /\ t \in Frame /\ n \in Nat \ {0} /\ n \in 1 .. n /\ Stored' = Stored
  BY DEF In, Last, StackInv, Stored
<1>1. PICK frame, calls : frame = DevFrame(t.bus, t.device, t.func + 1) /\ calls = << >>
  OBVIOUS
<1>2. /\ t.bus \in Buses /\ t.device \in 0 .. DeviceCount
      /\ t.func + 1 \in 0 .. FunctionCount /\ t.func \in Nat \ {0}
  BY <1>0 DEF Frame
<1>3. /\ frame \in Frame /\ frame.op = "dev" /\ frame.bus = t.bus /\ frame.device = t.device
      /\ frame.func = t.func + 1
  BY <1>1, <1>2 DEF Frame, DevFrame
<1>4. GoesOn(frame, calls)
  BY <1>0, <1>1, <1>3 DEF GoesOn
<1>5. SoundFrame(t)
  BY <1>0 DEF SoundInv
<1>6. \A x \in DOMAIN pci : x = <<x[1], x[2], x[3]>> /\ x[3] \in 0 .. FunctionCount - 1
  BY FunctionIsTriple DEF StackInv
<1>7. StackInv'
  BY <1>0, <1>4, GoOnStack DEF StackInv
<1>8. ShapeInv'
  BY <1>1, <1>4, GoOnShape
<1>9. DepthInv'
  <2>1. Slack(t) = 1 /\ Slack(frame) = 1
    BY <1>0, <1>2, <1>3 DEF Slack
  <2>2. n <= 2 * Len(array') + Slack(frame)
    BY <1>0, <2>1 DEF DepthInv
  <2> QED  BY <1>1, <1>4, <2>2, GoOnDepth
<1>10. SoundInv'
  <2>1. SoundFrame(frame)
    BY <1>0, <1>3, <1>5 DEF SoundFrame
  <2> QED  BY <1>0, <1>1, <1>4, <2>1, GoOnSound DEF SoundInv
<1>11. CoverInv'
  <2>1. ASSUME NEW x \in DOMAIN pci, Ahead(t, x) PROVE Ahead(frame, x)
    <3>1. x[1] = t.bus /\ x[2] = t.device /\ t.func <= x[3]
      BY <1>0, <2>1 DEF Ahead
    <3>2. x[3] # t.func
      BY <1>6, <3>1 DEF present
    <3>3. t.func + 1 <= x[3]
      BY <1>2, <1>6, <3>1, <3>2
    <3> QED  BY <1>3, <3>1, <3>3 DEF Ahead
  <2> QED  BY <1>0, <1>1, <1>4, <2>1, GoOnCover
<1>12. OnceInv'
  <2>1. ASSUME NEW x \in Stored PROVE Ahead(frame, x) => Ahead(t, x)
    <3>1. x[3] \in 0 .. FunctionCount - 1
      BY <1>6 DEF StackInv, Stored, ToSet
    <3>2. t.func + 1 <= x[3] => t.func <= x[3]
      BY <1>2, <3>1
    <3> QED  BY <1>0, <1>3, <3>2 DEF Ahead
  <2>2. IsTree => IsInjective(array')
    BY DEF OnceInv
  <2> QED  BY <1>0, <1>1, <1>3, <1>4, <2>1, <2>2, GoOnOnce
<1>13. PanicInv'
  BY <1>0 DEF PanicInv
<1> QED  BY <1>7, <1>8, <1>9, <1>10, <1>11, <1>12, <1>13

\* scan_function: the function is one that can be reached, on a tree it is new,
\* and so is the bus behind it.
LEMMA StoreKeeps ==
  ASSUME IInv, In("dev"), UNCHANGED pci,
         NEW t, t = Last(stack), t.func \in 0 .. FunctionCount - 1,
         t.func # 0 => pci[<<t.bus, t.device, 0>>].multi,
         NEW x, x = <<t.bus, t.device, t.func>>, present(x),
         scan_function(x, DevFrame(t.bus, t.device, t.func + 1))
  PROVE  IInv'
<1> USE DEF IInv
<1> DEFINE n == Len(stack)
<1>0. /\ pc = "scan" /\ stack # << >> /\ t = stack[n] /\ t.op = "dev"
      /\ t \in Frame /\ n \in Nat \ {0} /\ n \in 1 .. n
  BY DEF In, Last, StackInv
<1>1. SoundFrame(t)
  BY <1>0 DEF SoundInv
<1>2. x[1] = t.bus /\ x[2] = t.device /\ x[3] = t.func /\ x \in DOMAIN pci
  BY DEF present
<1>3. x \in Visible(t.bus) /\ x \in Reachable /\ t.bus \in ReachedBuses
  <2>1. x \in Visible(t.bus)
    BY <1>0, <1>1, <1>2 DEF Visible, SoundFrame
  <2> QED  BY <1>0, <1>1, <2>1, VisibleReachable DEF SoundFrame
<1>4. Ahead(t, x)
  BY <1>0, <1>2 DEF Ahead
<1>5. IsTree => x \notin Stored
  BY <1>0, <1>4 DEF OnceInv
<1>6. CASE Len(array) = DEVICE_CAPACITY /\ pc' = "panicked" /\ UNCHANGED <<stack, array>>
  <2>1. PanicInv'
    BY <1>3, <1>5, <1>6, PciKept DEF PanicInv, Stored
  <2> QED  BY <1>0, <1>6, <2>1, StayKeeps
<1>7. CASE /\ add_device(x) /\ UNCHANGED pc
           /\ Loop(DevFrame(t.bus, t.device, t.func + 1), CallsOf(x))
  <2>1. PICK frame, calls, s :
          /\ frame = DevFrame(t.bus, t.device, t.func + 1) /\ s = pci[x].secondary
          /\ calls = IF s = -1 THEN << >> ELSE << BusFrame(s, 0) >>
    OBVIOUS
  <2>2. /\ array \in Seq(DOMAIN pci) /\ Len(array) \in Nat /\ Len(array) < DEVICE_CAPACITY
        /\ array' = Append(array, x)
    BY <1>7 DEF add_device, StackInv
  <2>3. /\ array' \in Seq(DOMAIN pci) /\ Len(array') = Len(array) + 1
        /\ Stored' = Stored \union {x}
        /\ IsInjective(array) /\ x \notin Stored => IsInjective(array')
    BY <1>2, <2>2, StoreArray
  <2>4. /\ t.bus \in Buses /\ t.device \in 0 .. DeviceCount
        /\ t.func + 1 \in 0 .. FunctionCount /\ t.func \in Nat
    BY <1>0 DEF Frame
  <2>5. /\ frame \in Frame /\ frame.op = "dev" /\ frame.bus = t.bus /\ frame.device = t.device
        /\ frame.func = t.func + 1
    BY <2>1, <2>4 DEF Frame, DevFrame
  <2>6. s # -1 => s \in Buses /\ s \in ReachedBuses
    BY <1>2, <1>3, <2>1, BehindReached DEF ReachedBuses, Buses
  <2>7. /\ calls # << >> => /\ calls[1] = BusFrame(s, 0) /\ calls[1].op = "bus"
                            /\ calls[1].bus = s /\ s # -1
        /\ s # -1 => calls # << >>
    BY <2>1 DEF BusFrame
  <2>8. s # -1 => BusFrame(s, 0) \in Frame
    <3>1. 0 \in 0 .. DeviceCount /\ 0 \in 0 .. FunctionCount
      OBVIOUS
    <3> QED  BY <2>6, <3>1 DEF Frame, BusFrame
  <2>9. GoesOn(frame, calls)
    BY <1>0, <1>7, <2>1, <2>5, <2>8 DEF GoesOn, CallsOf
  <2>10. StackInv'
    BY <1>0, <1>7, <2>2, <2>3, <2>9, GoOnStack, SMTT(20) DEF StackInv
  <2>11. ShapeInv'
    BY <2>4, <2>5, <2>7, <2>9, GoOnShape, SMTT(20)
  <2>12. DepthInv'
    <3>1. n <= 2 * Len(array) + 3
      BY <1>0, <2>2 DEF DepthInv, Slack
    <3>2. Slack(frame) = 1 /\ (calls # << >> => Slack(calls[1]) = 2)
      BY <2>4, <2>5, <2>7, SMTT(20) DEF Slack
    <3> QED  BY <1>0, <2>2, <2>3, <2>9, <3>1, <3>2, GoOnDepth
  <2>13. SoundInv'
    <3>1. t.func + 1 > 1 => t.func # 0
      BY <2>4
    <3>2. SoundFrame(frame)
      BY <1>0, <1>1, <2>5, <3>1 DEF SoundFrame
    <3>3. calls # << >> => SoundFrame(calls[1])
      BY <2>6, <2>7 DEF SoundFrame
    <3>4. Stored' \subseteq Reachable
      BY <1>3, <2>3 DEF SoundInv
    <3> QED  BY <2>9, <3>2, <3>3, <3>4, GoOnSound
  <2>14. CoverInv'
    <3>1. ASSUME NEW y \in DOMAIN pci, Ahead(t, y) PROVE y \in Stored' \/ Ahead(frame, y)
      <4>1. y = <<y[1], y[2], y[3]>> /\ y[3] \in 0 .. FunctionCount - 1
        BY FunctionIsTriple DEF StackInv
      <4>2. y[1] = t.bus /\ y[2] = t.device /\ t.func <= y[3]
        BY <1>0, <3>1 DEF Ahead
      <4>3. CASE y[3] = t.func
        BY <2>3, <4>1, <4>2, <4>3
      <4>4. CASE y[3] # t.func
        <5>1. t.func + 1 <= y[3]
          BY <2>4, <4>1, <4>2, <4>4
        <5> QED  BY <2>5, <4>2, <5>1 DEF Ahead
      <4> QED  BY <4>3, <4>4
    <3>2. \A y \in Stored' : y \notin Stored => y = x
      BY <2>3
    <3>3. Stored \subseteq Stored' /\ Last(stack) = t /\ ~ (t.op = "all")
      BY <1>0, <2>3 DEF Last
    <3>4. \A y \in Stored' : y \notin Stored /\ pci[y].secondary # -1 =>
            calls # << >> /\ calls[1] = BusFrame(pci[y].secondary, 0)
      BY <2>1, <2>7, <3>2
    <3> QED  BY <2>9, <3>1, <3>3, <3>4, GoOnCover, Zenon
  <2>15. OnceInv'
    <3>1. IsTree => IsInjective(array')
      BY <1>5, <2>3 DEF OnceInv
    <3>2. ~ Ahead(frame, x)
      <4>1. ~ (t.func + 1 <= t.func)
        BY <2>4
      <4> QED  BY <1>2, <2>5, <4>1 DEF Ahead
    <3>3. ASSUME NEW y \in Stored PROVE Ahead(frame, y) => Ahead(t, y)
      <4>1. y[3] \in Nat
        BY FunctionIsTriple DEF StackInv, Stored, ToSet
      <4>2. t.func + 1 <= y[3] => t.func <= y[3]
        BY <2>4, <4>1
      <4> QED  BY <1>0, <2>5, <4>2 DEF Ahead
    <3>4. ASSUME IsTree, s # -1 PROVE ~ Called(s)
      <4>1. s \notin RootBuses
        BY <1>3, <2>1, <3>4 DEF IsTree
      <4>2. ASSUME NEW z \in Stored PROVE pci[z].secondary # s
        <5>1. z \in Reachable /\ z # x
          BY <1>5, <3>4 DEF SoundInv
        <5> QED  BY <1>3, <2>1, <3>4, <5>1 DEF IsTree
      <4> QED  BY <4>1, <4>2 DEF Called
    <3>5. ASSUME IsTree, s # -1 PROVE Called(s)'
      BY <2>1, <2>3 DEF Called
    <3>6. ASSUME IsTree, s # -1, NEW y \in Stored' PROVE y[1] # s
      <4>1. Called(y[1])
        BY <1>0, <1>2, <2>3, <3>6 DEF OnceInv
      <4> QED  BY <3>4, <3>6, <4>1
    <3>7. ASSUME IsTree, s # -1, NEW p \in 1 .. Len(stack), stack[p].op = "bus"
          PROVE  stack[p].bus # s
      <4>1. Called(stack[p].bus)
        BY <3>7 DEF OnceInv
      <4> QED  BY <3>4, <3>7, <4>1
    <3>8. \A y \in Stored' : y \notin Stored => y = x
      BY <2>3
    <3>9. Stored \subseteq Stored'
      BY <2>3
    <3>10. Last(stack) = t /\ t.op = "dev" /\ ~ (frame.op = "all")
           /\ (calls # << >> => ~ (calls[1].op # "bus"))
      BY <1>0, <2>5, <2>7 DEF Last
    <3>11. \A y \in Stored' : y \notin Stored =>
             y[1] = t.bus /\ y[2] = t.device /\ ~ Ahead(frame, y)
      BY <1>2, <3>2, <3>8
    <3>12. IsTree /\ calls # << >> /\ calls[1].op = "bus" =>
             /\ Called(calls[1].bus)'
             /\ \A y \in Stored' : y[1] # calls[1].bus
             /\ \A p \in 1 .. Len(stack) : stack[p].op = "bus" => stack[p].bus # calls[1].bus
      <4>1. calls # << >> => calls[1].bus = s /\ s # -1
        BY <2>7
      <4>2. ASSUME IsTree, calls # << >>
            PROVE  /\ Called(s)'
                   /\ \A y \in Stored' : y[1] # s
                   /\ \A p \in 1 .. Len(stack) : stack[p].op = "bus" => stack[p].bus # s
        BY <3>5, <3>6, <3>7, <4>1, <4>2
      <4>3. calls # << >> => Called(calls[1].bus)' = Called(s)'
        BY <4>1 DEF Called
      <4> QED  BY <4>1, <4>2, <4>3
    <3> QED  BY <2>9, <3>1, <3>3, <3>9, <3>10, <3>11, <3>12, GoOnOnce, Zenon
  <2>16. PanicInv'
    BY <1>0, <1>7 DEF PanicInv
  <2> QED  BY <2>10, <2>11, <2>12, <2>13, <2>14, <2>15, <2>16
<1> QED  BY <1>6, <1>7 DEF scan_function

LEMMA DeviceKeeps == IInv /\ (DeviceFunction0 \/ DeviceIteration) => IInv'
<1> SUFFICES ASSUME IInv, DeviceFunction0 \/ DeviceIteration PROVE IInv'
  OBVIOUS
<1> PICK t : t = Last(stack)
  OBVIOUS
<1>0. In("dev") /\ UNCHANGED pci
  BY DEF DeviceFunction0, DeviceIteration
<1>1. t \in Frame /\ t.op = "dev" /\ SoundFrame(t)
  BY <1>0 DEF IInv, StackInv, SoundInv, In, Last
<1>2. CASE DeviceFunction0
  <2>1. /\ t.func = 0 /\ t.func + 1 = 1 /\ 0 \in 0 .. FunctionCount - 1
        /\ scan_function(<<t.bus, t.device, t.func>>, DevFrame(t.bus, t.device, t.func + 1))
    BY <1>2 DEF DeviceFunction0
  <2>2. present(<<t.bus, t.device, t.func>>)
    BY <1>1, <2>1 DEF SoundFrame
  <2> QED  BY <1>0, <2>1, <2>2, StoreKeeps
<1>3. CASE DeviceIteration
  <2> PICK x : x = <<t.bus, t.device, t.func>>
    OBVIOUS
  <2>1. /\ t.func \in 1 .. FunctionCount - 1
        /\ ~ (t.func = 1 /\ is_single_function_device(<<t.bus, t.device, 0>>))
        /\ IF present(x) THEN scan_function(x, DevFrame(t.bus, t.device, t.func + 1))
                         ELSE /\ Loop(DevFrame(t.bus, t.device, t.func + 1), << >>)
                              /\ UNCHANGED <<pc, array>>
    BY <1>3 DEF DeviceIteration
  <2>2. t.func \in 0 .. FunctionCount - 1 /\ (t.func = 1 \/ t.func > 1)
    BY <2>1
  <2>3. pci[<<t.bus, t.device, 0>>].multi
    BY <1>1, <2>1, <2>2 DEF SoundFrame, is_single_function_device
  <2>4. CASE present(x)
    BY <1>0, <2>1, <2>2, <2>3, <2>4, StoreKeeps
  <2>5. CASE ~ present(x)
    BY <1>0, <2>1, <2>3, <2>5, SkipKeeps
  <2> QED  BY <2>4, <2>5
<1> QED  BY <1>2, <1>3

LEMMA ScanReturnsKeeps == IInv /\ ScanReturns => IInv'
<1> SUFFICES ASSUME IInv, ScanReturns PROVE IInv'
  OBVIOUS
<1>1. PanicInv'
  BY DEF ScanReturns, PanicInv
<1> QED  BY <1>1, StayKeeps DEF ScanReturns, IInv

LEMMA StutterKeeps == IInv /\ UNCHANGED vars => IInv'
<1> SUFFICES ASSUME IInv, UNCHANGED vars PROVE IInv'
  OBVIOUS
<1>0. pci' = pci /\ pc' = pc /\ stack' = stack /\ array' = array /\ Stored' = Stored
  BY DEF vars, Stored
<1>1. CASE pc = "start"
  <2>1. Len(stack) = 0 /\ Stored = {} /\ stack = << >> /\ array = << >>
    BY <1>1 DEF IInv, StackInv, Stored, ToSet
  <2>2. StackInv'
    BY <1>0 DEF IInv, StackInv
  <2>3. ShapeInv' /\ DepthInv' /\ SoundInv' /\ CoverInv' /\ PanicInv'
    BY <1>0, <1>1, <2>1 DEF ShapeInv, DepthInv, SoundInv, CoverInv, PanicInv
  <2>4. OnceInv'
    BY <1>0, <2>1 DEF OnceInv, IsInjective
  <2> QED  BY <2>2, <2>3, <2>4 DEF IInv
<1>2. CASE pc # "start"
  <2>1. PanicInv'
    BY <1>0, PciKept DEF IInv, PanicInv
  <2>2. pc' \in {"scan", "done", "panicked"} /\ (pc' = "done" => stack = << >>)
    BY <1>0, <1>2 DEF IInv, StackInv
  <2> QED  BY <1>0, <1>2, <2>1, <2>2, StayKeeps DEF IInv
<1> QED  BY <1>1, <1>2

LEMMA InvStep == IInv /\ [Next]_vars => IInv'
BY ScanAllBusKeeps, AllIterationKeeps, BusIterationKeeps, DeviceKeeps, DeviceReturnsKeeps,
   ScanReturnsKeeps, StutterKeeps DEF Next, ScanStep, Over

\* The accesses leave the scan alone, so the invariant holds of the whole module.
LEMMA InvAlways == PciSpec => []IInv
<1>1. PciInit => IInv
  BY InvInit DEF PciInit
<1>2. IInv /\ [PciNext]_allvars => IInv'
  BY InvStep DEF PciNext, allvars
<1> QED  BY <1>1, <1>2, PTL DEF PciSpec

-----------------------------------------------------------------------------
(***************************************************************************)
(* What the invariant gives.                                               *)
(***************************************************************************)
LEMMA FunctionsFinite == IsFiniteSet(Function)
<1> DEFINE A == 0 .. BusCount - 1
           B == 0 .. DeviceCount - 1
           D == 0 .. FunctionCount - 1
           pair == [x \in Function |-> <<<<x[1], x[2]>>, x[3]>>]
<1>1. 0 \in Int /\ BusCount - 1 \in Int /\ DeviceCount - 1 \in Int /\ FunctionCount - 1 \in Int
  OBVIOUS
<1>2. IsFiniteSet(A) /\ IsFiniteSet(B) /\ IsFiniteSet(D)
  BY <1>1, FS_Interval, Zenon
<1> HIDE DEF A, B, D
<1>3. IsFiniteSet((A \X B) \X D)
  BY <1>2, FS_Product
<1>4. Function = A \X B \X D
  BY DEF Function, A, B, D
<1>5. pair \in Injection(Function, (A \X B) \X D)
  <2>1. pair \in [Function -> (A \X B) \X D]
    BY <1>4
  <2>2. \A x, y \in Function : pair[x] = pair[y] => x = y
    BY <1>4
  <2> QED  BY <2>1, <2>2 DEF Injection, IsInjective
<1> QED  BY <1>3, <1>5, FS_Injection

\* On a tree the array has as many functions as elements.
LEMMA StoredCount ==
  ASSUME StackInv, IsInjective(array)
  PROVE  IsFiniteSet(Stored) /\ Cardinality(Stored) = Len(array)
<1> PICK m : m = Len(array)
  OBVIOUS
<1>1. m \in Nat /\ DOMAIN array = 1 .. m /\ array \in [1 .. m -> Stored]
  BY DEF StackInv, Stored, ToSet
<1>2. array \in Bijection(1 .. m, Stored)
  BY <1>1 DEF Bijection, Injection, Surjection, IsInjective, Stored, ToSet
<1>3. ExistsBijection(1 .. m, Stored)
  BY <1>2 DEF ExistsBijection
<1>4. IsFiniteSet(1 .. m)
  BY <1>1, FS_Interval
<1> QED  BY <1>1, <1>3, <1>4, FS_Bijection, FS_CountingElements

\* Every variable has its type in every state of the scan: loop counters stay
\* within the bus, device and function numbers and the array within its room
\* (pci/mod.rs:171-252).
THEOREM TypeCorrect == PciSpec => []TypeOK
<1>1. IInv => TypeOK
  <2> SUFFICES ASSUME IInv PROVE TypeOK
    OBVIOUS
  <2>1. StackInv
    BY DEF IInv
  <2>2. \A k \in DOMAIN stack : stack[k] \in Frame
    BY <2>1 DEF StackInv
  <2> QED  BY <2>1, <2>2 DEF StackInv, TypeOK, Frame, Buses
<1> QED  BY <1>1, InvAlways, PTL

\* The recursion of scan_bus, scan_device and scan_function is bounded by the
\* array on every topology, cycles of bridges included (pci/mod.rs:201-242).
THEOREM DepthBounded == PciSpec => []NestingBounded
<1>1. IInv => NestingBounded
  <2> SUFFICES ASSUME IInv PROVE NestingBounded
    OBVIOUS
  <2>1. Len(array) \in Nat /\ Len(stack) \in Nat /\ (stack = << >> => Len(stack) = 0)
    BY DEF IInv, StackInv
  <2> QED  BY <2>1 DEF IInv, DepthInv, Slack, NestingBounded
<1> QED  BY <1>1, InvAlways, PTL

\* A scan that returns has stored exactly the functions that can be reached
\* through the host bridge, for every set of functions and every wiring of
\* bridges (pci/mod.rs:185-242).
THEOREM CompleteScan == PciSpec => []ScanIsComplete
<1>1. IInv => ScanIsComplete
  <2> SUFFICES ASSUME IInv, pc = "done" PROVE Stored = Reachable
    BY DEF ScanIsComplete, Stored
  <2> DEFINE S == {bus \in Buses : Visible(bus) \subseteq Stored}
  <2>1. Len(stack) = 0
    BY DEF IInv, StackInv
  <2>2. \A bus : Covered(bus) => Visible(bus) \subseteq Stored
    BY <2>1 DEF Covered
  <2>3. RootBuses \subseteq S
    <3>1. RootBuses \subseteq Buses
      BY DEF RootBuses, Buses
    <3>2. \A bus \in RootBuses : Covered(bus)
      BY <2>1 DEF IInv, CoverInv
    <3> QED  BY <2>2, <3>1, <3>2
  <2>4. ASSUME NEW bus \in S, NEW next \in BusesBehind(bus) PROVE next \in S
    <3>1. PICK x \in Visible(bus) : next = pci[x].secondary /\ next # -1
      BY DEF BusesBehind
    <3>2. x \in Stored /\ next \in Buses
      BY <3>1 DEF IInv, StackInv, Visible, Header, Buses
    <3>3. Covered(next)
      BY <3>1, <3>2 DEF IInv, CoverInv
    <3> QED  BY <2>2, <3>2, <3>3
  <2>5. S \in SUBSET (0 .. BusCount - 1) /\ IsClosed(S)
    BY <2>3, <2>4 DEF IsClosed, Buses
  <2>6. ReachedBuses \subseteq S
    BY <2>5 DEF ReachedBuses
  <2>7. Reachable \subseteq Stored
    BY <2>6 DEF Reachable
  <2> QED  BY <2>7 DEF IInv, SoundInv
<1> QED  BY <1>1, InvAlways, PTL

\* On every tree of buses each function is pushed at most once, whatever the
\* order in which the bridges are met (pci/mod.rs:185-242).
THEOREM OncePerFunction == PciSpec => []StoredOnce
<1>1. IInv => StoredOnce
  BY DEF IInv, OnceInv, StoredOnce
<1> QED  BY <1>1, InvAlways, PTL

\* On every tree of buses push fails only on a machine that has more functions
\* than the array has room for, never for lack of room left by duplicates
\* (pci/mod.rs:181-183).
THEOREM FailsOnlyWhenFull == PciSpec => []PanicsOnlyWhenFull
<1>1. IInv => PanicsOnlyWhenFull
  <2> SUFFICES ASSUME IInv, IsTree, pc = "panicked"
               PROVE  Cardinality(Reachable) > DEVICE_CAPACITY
    BY DEF PanicsOnlyWhenFull
  <2>1. IsInjective(array) /\ Len(array) = DEVICE_CAPACITY
    BY DEF IInv, OnceInv, PanicInv
  <2>2. PICK x \in Reachable : x \notin Stored
    BY DEF IInv, PanicInv
  <2>3. IsFiniteSet(Stored) /\ Cardinality(Stored) = DEVICE_CAPACITY
    BY <2>1, StoredCount DEF IInv
  <2>4. /\ IsFiniteSet(Stored \union {x})
        /\ Cardinality(Stored \union {x}) = DEVICE_CAPACITY + 1
    BY <2>2, <2>3, FS_AddElement
  <2>5. Reachable \subseteq Function
    BY DEF IInv, StackInv, Reachable, Visible
  <2>6. IsFiniteSet(Reachable)
    BY <2>5, FunctionsFinite, FS_Subset
  <2>7. Stored \union {x} \subseteq Reachable
    BY <2>2 DEF IInv, SoundInv
  <2>8. Cardinality(Stored \union {x}) <= Cardinality(Reachable)
    BY <2>6, <2>7, FS_Subset
  <2>9. Cardinality(Reachable) \in Nat
    BY <2>6, FS_CardinalityType
  <2> QED  BY <2>4, <2>8, <2>9
<1> QED  BY <1>1, InvAlways, PTL

-----------------------------------------------------------------------------
(***************************************************************************)
(* Numbers as sets of their one bits.                                      *)
(***************************************************************************)
LEMMA BitOf ==
  ASSUME NEW a \in Nat
  PROVE  /\ C!Bits(a) \subseteq 0 .. 15
         /\ (0 \in C!Bits(a) <=> a % 2 = 1) /\ (1 \in C!Bits(a) <=> (a \div 2) % 2 = 1)
         /\ (2 \in C!Bits(a) <=> (a \div 4) % 2 = 1) /\ (3 \in C!Bits(a) <=> (a \div 8) % 2 = 1)
         /\ (4 \in C!Bits(a) <=> (a \div 16) % 2 = 1) /\ (5 \in C!Bits(a) <=> (a \div 32) % 2 = 1)
         /\ (6 \in C!Bits(a) <=> (a \div 64) % 2 = 1) /\ (7 \in C!Bits(a) <=> (a \div 128) % 2 = 1)
BY DEF C!Bits, C!PowerOf2

\* A small number has only low bits.
LEMMA LowBits ==
  /\ \A a \in 0 .. 255 : C!Bits(a) \subseteq 0 .. 7
  /\ \A a \in 0 .. 31 : C!Bits(a) \subseteq 0 .. 4
  /\ \A a \in 0 .. 7 : C!Bits(a) \subseteq 0 .. 2
<1>1. ASSUME NEW a \in 0 .. 255, NEW b \in 8 .. 15 PROVE b \notin C!Bits(a)
  BY DEF C!Bits, C!PowerOf2
<1>2. ASSUME NEW a \in 0 .. 31, NEW b \in 5 .. 15 PROVE b \notin C!Bits(a)
  BY DEF C!Bits, C!PowerOf2
<1>3. ASSUME NEW a \in 0 .. 7, NEW b \in 3 .. 15 PROVE b \notin C!Bits(a)
  BY DEF C!Bits, C!PowerOf2
<1>4. \A a \in 0 .. 255 : C!Bits(a) \subseteq 0 .. 15
  BY DEF C!Bits
<1>5. \A a \in 0 .. 255 : C!Bits(a) \subseteq 0 .. 7
  BY <1>1, <1>4
<1>6. \A a \in 0 .. 31 : C!Bits(a) \subseteq 0 .. 4
  BY <1>2, <1>4
<1>7. \A a \in 0 .. 7 : C!Bits(a) \subseteq 0 .. 2
  BY <1>3, <1>4
<1> QED  BY <1>5, <1>6, <1>7

LEMMA Digits ==
  ASSUME NEW a \in 0 .. 255
  PROVE  a = (a % 2) + 2 * ((a \div 2) % 2) + 4 * ((a \div 4) % 2) + 8 * ((a \div 8) % 2)
               + 16 * ((a \div 16) % 2) + 32 * ((a \div 32) % 2) + 64 * ((a \div 64) % 2)
               + 128 * ((a \div 128) % 2)
<1>1. a = 2 * (a \div 2) + (a % 2)
  OBVIOUS
<1>2. a \div 2 = 2 * (a \div 4) + ((a \div 2) % 2)
  OBVIOUS
<1>3. a \div 4 = 2 * (a \div 8) + ((a \div 4) % 2)
  OBVIOUS
<1>4. a \div 8 = 2 * (a \div 16) + ((a \div 8) % 2)
  OBVIOUS
<1>5. a \div 16 = 2 * (a \div 32) + ((a \div 16) % 2)
  OBVIOUS
<1>6. a \div 32 = 2 * (a \div 64) + ((a \div 32) % 2)
  OBVIOUS
<1>7. a \div 64 = 2 * (a \div 128) + ((a \div 64) % 2)
  OBVIOUS
<1>8. a \div 128 = (a \div 128) % 2
  OBVIOUS
<1> QED  BY <1>1, <1>2, <1>3, <1>4, <1>5, <1>6, <1>7, <1>8

\* Different numbers have different bits.
LEMMA BitsDiffer ==
  ASSUME NEW a \in 0 .. 255, NEW b \in 0 .. 255, C!Bits(a) = C!Bits(b)
  PROVE  a = b
<1>1. /\ a % 2 = 1 <=> b % 2 = 1
      /\ (a \div 2) % 2 = 1 <=> (b \div 2) % 2 = 1
      /\ (a \div 4) % 2 = 1 <=> (b \div 4) % 2 = 1
      /\ (a \div 8) % 2 = 1 <=> (b \div 8) % 2 = 1
      /\ (a \div 16) % 2 = 1 <=> (b \div 16) % 2 = 1
      /\ (a \div 32) % 2 = 1 <=> (b \div 32) % 2 = 1
      /\ (a \div 64) % 2 = 1 <=> (b \div 64) % 2 = 1
      /\ (a \div 128) % 2 = 1 <=> (b \div 128) % 2 = 1
  BY BitOf
<1>2. \A d \in Int : d % 2 \in {0, 1}
  OBVIOUS
<1>3. \A d, e \in {0, 1} : (d = 1 <=> e = 1) => d = e
  OBVIOUS
<1>4. /\ a % 2 = b % 2
      /\ (a \div 2) % 2 = (b \div 2) % 2 /\ (a \div 4) % 2 = (b \div 4) % 2
      /\ (a \div 8) % 2 = (b \div 8) % 2 /\ (a \div 16) % 2 = (b \div 16) % 2
      /\ (a \div 32) % 2 = (b \div 32) % 2 /\ (a \div 64) % 2 = (b \div 64) % 2
      /\ (a \div 128) % 2 = (b \div 128) % 2
  <2>1. \A d \in 0 .. 255 : d \in Int /\ \A k \in {2, 4, 8, 16, 32, 64, 128} : d \div k \in Int
    OBVIOUS
  <2> QED  BY <1>1, <1>2, <1>3, <2>1, SMTT(20)
<1> QED  BY <1>4, Digits

\* Every set of low bits is a number.
LEMMA BitsOnto ==
  ASSUME NEW S \in SUBSET (0 .. 7)
  PROVE  \E a \in 0 .. 255 : C!Bits(a) = S
<1> DEFINE v(k) == IF k \in S THEN 1 ELSE 0
           a == v(0) + 2 * v(1) + 4 * v(2) + 8 * v(3) + 16 * v(4) + 32 * v(5) + 64 * v(6)
                  + 128 * v(7)
<1>1. \A k : v(k) \in 0 .. 1
  OBVIOUS
<1>2. \A k : v(k) = 1 <=> k \in S
  OBVIOUS
<1> HIDE DEF v
<1>3. a \in 0 .. 255
  BY <1>1
<1>4. /\ a % 2 = v(0) /\ (a \div 2) % 2 = v(1) /\ (a \div 4) % 2 = v(2) /\ (a \div 8) % 2 = v(3)
      /\ (a \div 16) % 2 = v(4) /\ (a \div 32) % 2 = v(5) /\ (a \div 64) % 2 = v(6)
      /\ (a \div 128) % 2 = v(7)
  BY <1>1
<1> HIDE DEF a
<1>5. C!Bits(a) \subseteq 0 .. 7
  BY <1>3, LowBits
<1>6. ASSUME NEW k \in 0 .. 7 PROVE k \in C!Bits(a) <=> k \in S
  <2>1. k \in {0, 1, 2, 3, 4, 5, 6, 7}
    OBVIOUS
  <2>2. a \in Nat
    BY <1>3
  <2> QED  BY <1>2, <1>4, <2>1, <2>2, BitOf
<1>7. C!Bits(a) = S
  BY <1>5, <1>6
<1> QED  BY <1>3, <1>7

-----------------------------------------------------------------------------
(***************************************************************************)
(* The hardware answers for the function asked for.                        *)
(***************************************************************************)
LEMMA LocationIsTriple ==
  ASSUME NEW x \in C!Location
  PROVE  /\ x = <<x[1], x[2], x[3]>>
         /\ x[1] \in 0 .. 255 /\ x[2] \in 0 .. 31 /\ x[3] \in 0 .. 7
         /\ C!Bits(x[1]) \subseteq 0 .. 7 /\ C!Bits(x[2]) \subseteq 0 .. 4
         /\ C!Bits(x[3]) \subseteq 0 .. 2
<1>1. x = <<x[1], x[2], x[3]>> /\ x[1] \in 0 .. 255 /\ x[2] \in 0 .. 31 /\ x[3] \in 0 .. 7
  BY DEF C!Location
<1> QED  BY <1>1, LowBits

\* The bits of a part of a word.
LEMMA PartOf ==
  ASSUME NEW A \in SUBSET Int, NEW s \in Nat, NEW w \in Nat, NEW k
  PROVE  k \in C!Low(C!shr(A, s), w) <=> k \in 0 .. w - 1 /\ k + s \in A
<1>1. ASSUME k \in C!Low(C!shr(A, s), w) PROVE k \in 0 .. w - 1 /\ k + s \in A
  <2>1. PICK b \in A : b >= s /\ k = b - s
    BY <1>1 DEF C!Low, C!shr
  <2>2. k \in 0 .. w - 1
    BY <1>1 DEF C!Low
  <2>3. k + s = b
    BY <2>1
  <2> QED  BY <2>1, <2>2, <2>3
<1>2. ASSUME k \in 0 .. w - 1, k + s \in A PROVE k \in C!Low(C!shr(A, s), w)
  <2>1. k = (k + s) - s /\ k + s >= s
    BY <1>2
  <2> QED  BY <1>2, <2>1 DEF C!Low, C!shr
<1> QED  BY <1>1, <1>2

LEMMA ByteOf ==
  ASSUME NEW A \in SUBSET Int, NEW s \in Nat
  PROVE  \A k : k \in C!Low(C!shr(A, s), 8) <=> k \in 0 .. 7 /\ k + s \in A
<1>1. 8 \in Nat /\ 8 - 1 = 7
  OBVIOUS
<1>2. \A k : k \in C!Low(C!shr(A, s), 8) <=> k \in 0 .. 8 - 1 /\ k + s \in A
  BY <1>1, PartOf, Zenon
<1> QED  BY <1>1, <1>2, Zenon

LEMMA ShiftIsInt ==
  ASSUME NEW A \in SUBSET Int, NEW s \in Int PROVE C!shl(A, s) \subseteq Int
BY DEF C!shl

LEMMA ShiftedBit ==
  ASSUME NEW A \in SUBSET Int, NEW s \in Int, NEW b \in Int
  PROVE  b \in C!shl(A, s) <=> b - s \in A
<1>1. b \in C!shl(A, s) => b - s \in A
  BY DEF C!shl
<1>2. ASSUME b - s \in A PROVE b \in C!shl(A, s)
  <2>1. b = (b - s) + s
    OBVIOUS
  <2> QED  BY <1>2, <2>1 DEF C!shl
<1> QED  BY <1>1, <1>2

\* The parts of an address do not overlap.
LEMMA AddressParts ==
  ASSUME NEW x \in C!Location, NEW off \in Nat
  PROVE  LET address == C!make_address(x, off)
         IN  /\ 31 \in address
             /\ C!Low(C!shr(address, 16), 8) = C!Bits(x[1])
             /\ C!Low(C!shr(address, 11), 5) = C!Bits(x[2])
             /\ C!Low(C!shr(address, 8), 3) = C!Bits(x[3])
             /\ address \intersect 0 .. 7 = C!Bits(off) \intersect 2 .. 7
<1> DEFINE address == C!make_address(x, off)
<1>1. PICK B1 \in SUBSET (0 .. 7), B2 \in SUBSET (0 .. 4), B3 \in SUBSET (0 .. 2),
           B4 \in SUBSET (2 .. 7) :
        /\ B1 = C!Bits(x[1]) /\ B2 = C!Bits(x[2]) /\ B3 = C!Bits(x[3])
        /\ B4 = C!Bits(off) \intersect 2 .. 7
  BY LocationIsTriple
<1>2. address = {31} \union C!shl(B1, 16) \union C!shl(B2, 11) \union C!shl(B3, 8) \union B4
  BY <1>1 DEF C!make_address
<1>3. \A b \in Int : b \in address <=>
        b = 31 \/ b - 16 \in B1 \/ b - 11 \in B2 \/ b - 8 \in B3 \/ b \in B4
  <2>1. /\ \A b \in Int : b \in C!shl(B1, 16) <=> b - 16 \in B1
        /\ \A b \in Int : b \in C!shl(B2, 11) <=> b - 11 \in B2
        /\ \A b \in Int : b \in C!shl(B3, 8) <=> b - 8 \in B3
    BY ShiftedBit
  <2> QED  BY <1>2, <2>1
<1>4. address \in SUBSET Int
  <2>1. C!shl(B1, 16) \subseteq Int /\ C!shl(B2, 11) \subseteq Int /\ C!shl(B3, 8) \subseteq Int
    BY ShiftIsInt
  <2>2. {31} \subseteq Int /\ B4 \subseteq Int
    OBVIOUS
  <2> QED  BY <1>2, <2>1, <2>2
<1> HIDE DEF address
<1>5. C!Low(C!shr(address, 16), 8) = B1
  <2>0. \A k : k \in C!Low(C!shr(address, 16), 8) <=> k \in 0 .. 7 /\ k + 16 \in address
    BY <1>4, ByteOf
  <2>1. \A k \in 0 .. 7 : k + 16 \in address <=> k \in B1
    <3> SUFFICES ASSUME NEW k \in 0 .. 7 PROVE k + 16 \in address <=> k \in B1
      OBVIOUS
    <3>1. /\ k + 16 \in Int /\ k + 16 # 31 /\ (k + 16) - 16 = k
          /\ (k + 16) - 11 \notin 0 .. 4 /\ (k + 16) - 8 \notin 0 .. 2 /\ k + 16 \notin 2 .. 7
      OBVIOUS
    <3> QED  BY <1>3, <3>1
  <2> QED  BY <2>0, <2>1
<1>6. C!Low(C!shr(address, 11), 5) = B2
  <2>0. \A k : k \in C!Low(C!shr(address, 11), 5) <=> k \in 0 .. 4 /\ k + 11 \in address
    BY <1>4, PartOf
  <2>1. \A k \in 0 .. 4 : k + 11 \in address <=> k \in B2
    <3> SUFFICES ASSUME NEW k \in 0 .. 4 PROVE k + 11 \in address <=> k \in B2
      OBVIOUS
    <3>1. /\ k + 11 \in Int /\ k + 11 # 31 /\ (k + 11) - 11 = k
          /\ (k + 11) - 16 \notin 0 .. 7 /\ (k + 11) - 8 \notin 0 .. 2 /\ k + 11 \notin 2 .. 7
      OBVIOUS
    <3> QED  BY <1>3, <3>1
  <2> QED  BY <2>0, <2>1
<1>7. C!Low(C!shr(address, 8), 3) = B3
  <2>0. \A k : k \in C!Low(C!shr(address, 8), 3) <=> k \in 0 .. 2 /\ k + 8 \in address
    BY <1>4, PartOf
  <2>1. \A k \in 0 .. 2 : k + 8 \in address <=> k \in B3
    <3> SUFFICES ASSUME NEW k \in 0 .. 2 PROVE k + 8 \in address <=> k \in B3
      OBVIOUS
    <3>1. /\ k + 8 \in Int /\ k + 8 # 31 /\ (k + 8) - 8 = k
          /\ (k + 8) - 16 \notin 0 .. 7 /\ (k + 8) - 11 \notin 0 .. 4 /\ k + 8 \notin 2 .. 7
      OBVIOUS
    <3> QED  BY <1>3, <3>1
  <2> QED  BY <2>0, <2>1
<1>8. address \intersect 0 .. 7 = B4
  <2>1. \A k \in 0 .. 7 : k \in address <=> k \in B4
    <3> SUFFICES ASSUME NEW k \in 0 .. 7 PROVE k \in address <=> k \in B4
      OBVIOUS
    <3>1. /\ k \in Int /\ k # 31
          /\ k - 16 \notin 0 .. 7 /\ k - 11 \notin 0 .. 4 /\ k - 8 \notin 0 .. 2
      OBVIOUS
    <3> QED  BY <1>3, <3>1
  <2>2. B4 \subseteq 0 .. 7
    OBVIOUS
  <2> QED  BY <2>1, <2>2
<1>9. 31 \in address
  BY <1>3
<1> QED  BY <1>1, <1>5, <1>6, <1>7, <1>8, <1>9 DEF address

LEMMA SelectedIsAsked ==
  ASSUME NEW x \in C!Location, NEW y \in C!Location, NEW off \in Nat
  PROVE  C!Selected(y, C!make_address(x, off)) <=> y = x
<1> DEFINE address == C!make_address(x, off)
<1>1. /\ 31 \in address
      /\ C!Low(C!shr(address, 16), 8) = C!Bits(x[1])
      /\ C!Low(C!shr(address, 11), 5) = C!Bits(x[2])
      /\ C!Low(C!shr(address, 8), 3) = C!Bits(x[3])
  BY AddressParts
<1> HIDE DEF address
<1>2. C!Selected(y, address) <=>
        /\ C!Bits(x[1]) = C!Bits(y[1])
        /\ C!Bits(x[2]) = C!Bits(y[2])
        /\ C!Bits(x[3]) = C!Bits(y[3])
  BY <1>1 DEF C!Selected
<1>3. /\ x = <<x[1], x[2], x[3]>> /\ x[1] \in 0 .. 255 /\ x[2] \in 0 .. 255 /\ x[3] \in 0 .. 255
      /\ y = <<y[1], y[2], y[3]>> /\ y[1] \in 0 .. 255 /\ y[2] \in 0 .. 255 /\ y[3] \in 0 .. 255
  BY LocationIsTriple
<1>4. C!Selected(y, address) => x[1] = y[1] /\ x[2] = y[2] /\ x[3] = y[3]
  <2>1. /\ C!Bits(x[1]) = C!Bits(y[1]) => x[1] = y[1]
        /\ C!Bits(x[2]) = C!Bits(y[2]) => x[2] = y[2]
        /\ C!Bits(x[3]) = C!Bits(y[3]) => x[3] = y[3]
    BY <1>3, BitsDiffer, Zenon
  <2> QED  BY <1>2, <2>1, Zenon
<1>5. C!Selected(y, address) => y = x
  BY <1>3, <1>4
<1>6. y = x => C!Selected(y, address)
  BY <1>2, Zenon
<1> QED  BY <1>5, <1>6 DEF address

Offsets == {0, 8, 12} \union {12 + 4 * k : k \in 1 .. 6}

LEMMA OffsetsAreRegisters ==
  ASSUME NEW off \in Offsets
  PROVE  off \in 0 .. 255 /\ C!Bits(off) \intersect 2 .. 7 = C!Bits(off)
<1>1. off \in 0 .. 255 /\ off % 4 = 0
  BY DEF Offsets
<1>2. off % 2 # 1 /\ (off \div 2) % 2 # 1
  BY <1>1
<1>3. C!Bits(off) \subseteq 0 .. 7 /\ 0 \notin C!Bits(off) /\ 1 \notin C!Bits(off)
  BY <1>1, <1>2, LowBits, BitOf
<1> QED  BY <1>1, <1>3

\* So a read returns the double word asked for of the function asked for.
LEMMA DataOfAsked ==
  ASSUME NEW machine, C!IsMachine(machine), NEW x \in C!Location, NEW off \in Offsets
  PROVE  C!DataAt(machine, C!make_address(x, off)) =
           IF x \in DOMAIN machine THEN C!DoubleWord(machine[x], C!Bits(off)) ELSE 0 .. 31
<1> DEFINE address == C!make_address(x, off)
           answering == {at \in DOMAIN machine : C!Selected(at, address)}
<1>1. off \in Nat /\ C!Bits(off) \intersect 2 .. 7 = C!Bits(off)
  BY OffsetsAreRegisters
<1>2. address \intersect 0 .. 7 = C!Bits(off)
  BY <1>1, AddressParts
<1>3. \A y \in DOMAIN machine : C!Selected(y, address) <=> y = x
  BY <1>1, SelectedIsAsked DEF C!IsMachine
<1> HIDE DEF address
<1>4. answering = IF x \in DOMAIN machine THEN {x} ELSE {}
  BY <1>3
<1>5. C!DataAt(machine, address) =
        IF answering = {} THEN 0 .. 31
        ELSE C!DoubleWord(machine[CHOOSE at \in answering : TRUE], C!Bits(off))
  BY <1>2 DEF C!DataAt
<1> HIDE DEF answering
<1>6. CASE x \in DOMAIN machine
  <2>1. answering = {x}
    BY <1>4, <1>6
  <2>2. (CHOOSE at \in {x} : TRUE) = x
    OBVIOUS
  <2> QED  BY <1>5, <1>6, <2>1, <2>2 DEF address
<1>7. CASE x \notin DOMAIN machine
  BY <1>4, <1>5, <1>7 DEF address
<1> QED  BY <1>6, <1>7

-----------------------------------------------------------------------------
(***************************************************************************)
(* The fields are cut out of the double words they are packed in.          *)
(***************************************************************************)
LEMMA WhatFunctionHolds ==
  ASSUME NEW f, C!Holds(f)
  PROVE  /\ f.vendor_id \in SUBSET (0 .. 15) /\ f.device_id \in SUBSET (0 .. 15)
         /\ f.header_type \in SUBSET (0 .. 7) /\ f.base \in SUBSET (0 .. 7)
         /\ f.sub \in SUBSET (0 .. 7) /\ f.interface \in SUBSET (0 .. 7)
         /\ f.vendor_id # 0 .. 15
         /\ \A k \in 1 .. 6 : /\ f.bars[k].bits \in SUBSET (0 .. 31)
                              /\ f.bars[k].kind \in C!Kinds
                              /\ f.bars[k].kind = "mem32" => 2 \notin f.bars[k].bits
                              /\ f.bars[k].kind = "mem64" =>
                                   k < 6 /\ f.bars[k + 1].kind = "upper"
BY DEF C!Holds

LEMMA DoubleWords ==
  ASSUME NEW f
  PROVE  /\ C!DoubleWord(f, C!Bits(0)) = f.vendor_id \union C!shl(f.device_id, 16)
         /\ C!DoubleWord(f, C!Bits(8)) =
              (0 .. 7) \union C!shl(f.interface, 8) \union C!shl(f.sub, 16)
                       \union C!shl(f.base, 24)
         /\ C!DoubleWord(f, C!Bits(12)) =
              (0 .. 15) \union C!shl(f.header_type, 16) \union (24 .. 31)
         /\ \A k \in 1 .. 6 : C!DoubleWord(f, C!Bits(12 + 4 * k)) = C!BarWord(f.bars[k])
<1>1. C!Bits(0) # C!Bits(8) /\ C!Bits(0) # C!Bits(12) /\ C!Bits(8) # C!Bits(12)
  <2>1. 0 \in 0 .. 255 /\ 8 \in 0 .. 255 /\ 12 \in 0 .. 255 /\ 0 # 8 /\ 0 # 12 /\ 8 # 12
    OBVIOUS
  <2> QED  BY <2>1, BitsDiffer
<1>2. ASSUME NEW k \in 1 .. 6
      PROVE  /\ C!Bits(12 + 4 * k) # C!Bits(0) /\ C!Bits(12 + 4 * k) # C!Bits(8)
             /\ C!Bits(12 + 4 * k) # C!Bits(12)
             /\ \A m \in 1 .. 6 : C!Bits(12 + 4 * k) = C!Bits(12 + 4 * m) <=> m = k
  <2>1. /\ 0 \in 0 .. 255 /\ 8 \in 0 .. 255 /\ 12 \in 0 .. 255
        /\ 12 + 4 * k \in 0 .. 255 /\ 12 + 4 * k # 0 /\ 12 + 4 * k # 8 /\ 12 + 4 * k # 12
    OBVIOUS
  <2>2. \A m \in 1 .. 6 : 12 + 4 * m \in 0 .. 255 /\ (12 + 4 * k = 12 + 4 * m <=> m = k)
    OBVIOUS
  <2>3. /\ C!Bits(12 + 4 * k) # C!Bits(0) /\ C!Bits(12 + 4 * k) # C!Bits(8)
        /\ C!Bits(12 + 4 * k) # C!Bits(12)
    BY <2>1, BitsDiffer
  <2>4. ASSUME NEW m \in 1 .. 6
        PROVE  C!Bits(12 + 4 * k) = C!Bits(12 + 4 * m) <=> m = k
    <3>1. C!Bits(12 + 4 * k) = C!Bits(12 + 4 * m) => 12 + 4 * k = 12 + 4 * m
      BY <2>1, <2>2, BitsDiffer, Zenon
    <3> QED  BY <2>2, <3>1
  <2> QED  BY <2>3, <2>4, Zenon
<1>3. ASSUME NEW k \in 1 .. 6
      PROVE  C!DoubleWord(f, C!Bits(12 + 4 * k)) = C!BarWord(f.bars[k])
  <2>1. (CHOOSE m \in 1 .. 6 : C!Bits(12 + 4 * k) = C!Bits(12 + 4 * m)) = k
    BY <1>2
  <2> QED  BY <1>2, <2>1 DEF C!DoubleWord
<1>4. /\ C!DoubleWord(f, C!Bits(0)) = f.vendor_id \union C!shl(f.device_id, 16)
      /\ C!DoubleWord(f, C!Bits(8)) =
           (0 .. 7) \union C!shl(f.interface, 8) \union C!shl(f.sub, 16)
                    \union C!shl(f.base, 24)
      /\ C!DoubleWord(f, C!Bits(12)) =
           (0 .. 15) \union C!shl(f.header_type, 16) \union (24 .. 31)
  BY <1>1 DEF C!DoubleWord
<1> QED  BY <1>3, <1>4

\* What the functions read_* return of a double word.
LEMMA VendorAndDevice ==
  ASSUME NEW V \in SUBSET (0 .. 15), NEW D \in SUBSET (0 .. 15)
  PROVE  /\ C!Low(V \union C!shl(D, 16), 16) = V
         /\ C!shr(V \union C!shl(D, 16), 16) = D
<1> DEFINE W == V \union C!shl(D, 16)
<1>1. W \subseteq Int /\ \A b \in Int : b \in W <=> b \in V \/ b - 16 \in D
  <2>1. C!shl(D, 16) \subseteq Int /\ \A b \in Int : b \in C!shl(D, 16) <=> b - 16 \in D
    <3>1. D \in SUBSET Int /\ 16 \in Int
      OBVIOUS
    <3> QED  BY <3>1, ShiftIsInt, ShiftedBit
  <2>2. V \subseteq Int
    OBVIOUS
  <2> QED  BY <2>1, <2>2
<1> HIDE DEF W
<1>2. C!Low(W, 16) = V
  <2>1. \A b \in 0 .. 15 : b \in Int /\ b - 16 \notin 0 .. 15
    OBVIOUS
  <2>2. C!Low(W, 16) = W \intersect 0 .. 15
    BY DEF C!Low
  <2>3. \A b \in 0 .. 15 : b \in W <=> b \in V
    BY <1>1, <2>1
  <2> QED  BY <2>2, <2>3
<1>3. C!shr(W, 16) = D
  <2>1. ASSUME NEW d \in D PROVE d \in C!shr(W, 16)
    <3>1. d + 16 \in Int /\ d + 16 >= 16 /\ (d + 16) - 16 = d
      OBVIOUS
    <3>2. d + 16 \in W
      BY <1>1, <3>1
    <3> QED  BY <3>1, <3>2 DEF C!shr
  <2>2. ASSUME NEW d \in C!shr(W, 16) PROVE d \in D
    <3>1. PICK b \in W : b >= 16 /\ d = b - 16
      BY DEF C!shr
    <3>2. b \in Int /\ b \notin 0 .. 15
      BY <1>1, <3>1
    <3> QED  BY <1>1, <3>1, <3>2
  <2> QED  BY <2>1, <2>2
<1> QED  BY <1>2, <1>3 DEF W

LEMMA HeaderTypeCut ==
  ASSUME NEW H \in SUBSET (0 .. 7)
  PROVE  C!Low(C!shr((0 .. 15) \union C!shl(H, 16) \union (24 .. 31), 16), 8) = H
<1> DEFINE W == (0 .. 15) \union C!shl(H, 16) \union (24 .. 31)
<1>1. W \in SUBSET Int /\ \A b \in 16 .. 23 : b \in W <=> b - 16 \in H
  <2>1. C!shl(H, 16) \subseteq Int /\ \A b \in Int : b \in C!shl(H, 16) <=> b - 16 \in H
    BY ShiftIsInt, ShiftedBit
  <2>2. \A b \in 16 .. 23 : b \in Int /\ b \notin 0 .. 15 /\ b \notin 24 .. 31
    OBVIOUS
  <2>3. 0 .. 15 \subseteq Int /\ 24 .. 31 \subseteq Int
    OBVIOUS
  <2> QED  BY <2>1, <2>2, <2>3
<1> HIDE DEF W
<1>2. \A k : k \in C!Low(C!shr(W, 16), 8) <=> k \in 0 .. 7 /\ k + 16 \in W
  BY <1>1, ByteOf
<1>3. \A k \in 0 .. 7 : k + 16 \in 16 .. 23 /\ (k + 16) - 16 = k
  OBVIOUS
<1>4. \A k \in 0 .. 7 : k + 16 \in W <=> k \in H
  BY <1>1, <1>3
<1> QED  BY <1>2, <1>4 DEF W

LEMMA ClassCodeCut ==
  ASSUME NEW B \in SUBSET (0 .. 7), NEW S \in SUBSET (0 .. 7), NEW P \in SUBSET (0 .. 7)
  PROVE  C!ClassCode((0 .. 7) \union C!shl(P, 8) \union C!shl(S, 16) \union C!shl(B, 24))
           = [base |-> B, sub |-> S, interface |-> P]
<1> DEFINE W == (0 .. 7) \union C!shl(P, 8) \union C!shl(S, 16) \union C!shl(B, 24)
           raw == C!shr(W, 8)
<1>1. W \in SUBSET Int /\ \A b \in Int : b \in W <=>
        b \in 0 .. 7 \/ b - 8 \in P \/ b - 16 \in S \/ b - 24 \in B
  <2>1. /\ C!shl(P, 8) \subseteq Int /\ \A b \in Int : b \in C!shl(P, 8) <=> b - 8 \in P
        /\ C!shl(S, 16) \subseteq Int /\ \A b \in Int : b \in C!shl(S, 16) <=> b - 16 \in S
        /\ C!shl(B, 24) \subseteq Int /\ \A b \in Int : b \in C!shl(B, 24) <=> b - 24 \in B
    BY ShiftIsInt, ShiftedBit
  <2>2. 0 .. 7 \subseteq Int
    OBVIOUS
  <2> QED  BY <2>1, <2>2
<1> HIDE DEF W
<1>2. raw \in SUBSET Int /\ \A b \in 0 .. 23 : b \in raw <=> b + 8 \in W
  <2>1. raw \in SUBSET Int
    BY <1>1 DEF C!shr
  <2>2. ASSUME NEW b \in 0 .. 23, b + 8 \in W PROVE b \in raw
    <3>1. b + 8 >= 8 /\ b = (b + 8) - 8
      OBVIOUS
    <3> QED  BY <2>2, <3>1 DEF C!shr
  <2>3. ASSUME NEW b \in 0 .. 23, b \in raw PROVE b + 8 \in W
    <3>1. PICK c \in W : c >= 8 /\ b = c - 8
      BY <2>3 DEF C!shr
    <3>2. b + 8 = c
      BY <1>1, <3>1
    <3> QED  BY <3>1, <3>2
  <2> QED  BY <2>1, <2>2, <2>3
<1> HIDE DEF raw
<1>3. C!Low(raw, 8) = P
  <2>1. \A k \in 0 .. 7 : /\ k \in 0 .. 23 /\ k + 8 \in Int /\ (k + 8) - 8 = k
                          /\ k + 8 \notin 0 .. 7 /\ (k + 8) - 16 \notin 0 .. 7
                          /\ (k + 8) - 24 \notin 0 .. 7
    OBVIOUS
  <2>2. \A k \in 0 .. 7 : k \in raw <=> k \in P
    BY <1>1, <1>2, <2>1
  <2>3. C!Low(raw, 8) = raw \intersect 0 .. 7
    BY DEF C!Low
  <2> QED  BY <2>2, <2>3
<1>4. C!Low(C!shr(raw, 8), 8) = S
  <2>0. \A k : k \in C!Low(C!shr(raw, 8), 8) <=> k \in 0 .. 7 /\ k + 8 \in raw
    BY <1>2, ByteOf
  <2>1. \A k \in 0 .. 7 : /\ k + 8 \in 0 .. 23 /\ (k + 8) + 8 \in Int
                          /\ ((k + 8) + 8) - 16 = k
                          /\ (k + 8) + 8 \notin 0 .. 7 /\ ((k + 8) + 8) - 8 \notin 0 .. 7
                          /\ ((k + 8) + 8) - 24 \notin 0 .. 7
    OBVIOUS
  <2>2. \A k \in 0 .. 7 : k + 8 \in raw <=> k \in S
    BY <1>1, <1>2, <2>1
  <2> QED  BY <2>0, <2>2
<1>5. C!Low(C!shr(raw, 16), 8) = B
  <2>0. \A k : k \in C!Low(C!shr(raw, 16), 8) <=> k \in 0 .. 7 /\ k + 16 \in raw
    BY <1>2, ByteOf
  <2>1. \A k \in 0 .. 7 : /\ k + 16 \in 0 .. 23 /\ (k + 16) + 8 \in Int
                          /\ ((k + 16) + 8) - 24 = k
                          /\ (k + 16) + 8 \notin 0 .. 7 /\ ((k + 16) + 8) - 8 \notin 0 .. 7
                          /\ ((k + 16) + 8) - 16 \notin 0 .. 7
    OBVIOUS
  <2>2. \A k \in 0 .. 7 : k + 16 \in raw <=> k \in B
    BY <1>1, <1>2, <2>1
  <2> QED  BY <2>0, <2>2
<1> QED  BY <1>3, <1>4, <1>5 DEF C!ClassCode, W, raw

\* The flags in bits 0 and 2 do not reach the secondary bus number.
LEMMA SecondaryCut ==
  ASSUME NEW bar, bar.bits \in SUBSET (0 .. 31)
  PROVE  C!Low(C!shr(C!BarWord(bar), 8), 8) = C!Low(C!shr(bar.bits, 8), 8)
<1>1. /\ C!BarWord(bar) \in SUBSET Int
      /\ \A b \in Int \ {0, 2} : b \in C!BarWord(bar) <=> b \in bar.bits
  BY DEF C!BarWord
<1>2. bar.bits \in SUBSET Int
  OBVIOUS
<1>3. /\ \A k : k \in C!Low(C!shr(C!BarWord(bar), 8), 8) <=>
                  k \in 0 .. 7 /\ k + 8 \in C!BarWord(bar)
      /\ \A k : k \in C!Low(C!shr(bar.bits, 8), 8) <=> k \in 0 .. 7 /\ k + 8 \in bar.bits
  BY <1>1, <1>2, ByteOf
<1>4. \A k \in 0 .. 7 : k + 8 \in Int \ {0, 2}
  OBVIOUS
<1> QED  BY <1>1, <1>3, <1>4

LEMMA ReadOfAsked ==
  ASSUME NEW machine, C!IsMachine(machine), NEW x \in DOMAIN machine
  PROVE  /\ Read(machine, "read_vendor_id", x) = machine[x].vendor_id
         /\ Read(machine, "is_intel", x) = (machine[x].vendor_id = C!Bits(32902))
         /\ Read(machine, "read_device_id", x) = machine[x].device_id
         /\ Read(machine, "read_header_type", x) = machine[x].header_type
         /\ Read(machine, "read_class_code", x) =
              [base |-> machine[x].base, sub |-> machine[x].sub,
               interface |-> machine[x].interface]
         /\ Read(machine, "read_bus_numbers", x) = C!BarWord(machine[x].bars[3])
<1> DEFINE f == machine[x]
           word(off) == C!DataAt(machine, C!make_address(x, off))
<1>1. x \in C!Location /\ C!Holds(f)
  BY DEF C!IsMachine
<1>2. /\ 0 \in Offsets /\ 8 \in Offsets /\ 12 \in Offsets /\ 24 \in Offsets
      /\ 24 = 12 + 4 * 3 /\ 3 \in 1 .. 6
  BY DEF Offsets
<1>3. /\ word(0) = C!DoubleWord(f, C!Bits(0)) /\ word(8) = C!DoubleWord(f, C!Bits(8))
      /\ word(12) = C!DoubleWord(f, C!Bits(12)) /\ word(24) = C!DoubleWord(f, C!Bits(24))
  BY <1>1, <1>2, DataOfAsked
<1>4. /\ f.vendor_id \in SUBSET (0 .. 15) /\ f.device_id \in SUBSET (0 .. 15)
      /\ f.header_type \in SUBSET (0 .. 7) /\ f.base \in SUBSET (0 .. 7)
      /\ f.sub \in SUBSET (0 .. 7) /\ f.interface \in SUBSET (0 .. 7)
  BY <1>1, WhatFunctionHolds
<1> HIDE DEF f
<1>5. C!DoubleWord(f, C!Bits(24)) = C!BarWord(f.bars[3])
  BY <1>2, DoubleWords
<1>6. /\ word(0) = f.vendor_id \union C!shl(f.device_id, 16)
      /\ word(8) = (0 .. 7) \union C!shl(f.interface, 8) \union C!shl(f.sub, 16)
                     \union C!shl(f.base, 24)
      /\ word(12) = (0 .. 15) \union C!shl(f.header_type, 16) \union (24 .. 31)
      /\ word(24) = C!BarWord(f.bars[3])
  BY <1>3, <1>5, DoubleWords
<1>7. /\ Read(machine, "read_vendor_id", x) = C!Low(word(0), 16)
      /\ Read(machine, "is_intel", x) = (C!Low(word(0), 16) = C!Bits(32902))
      /\ Read(machine, "read_device_id", x) = C!shr(word(0), 16)
      /\ Read(machine, "read_header_type", x) = C!Low(C!shr(word(12), 16), 8)
      /\ Read(machine, "read_class_code", x) = C!ClassCode(word(8))
      /\ Read(machine, "read_bus_numbers", x) = word(24)
  <2>1. /\ C!OffsetOf["read_vendor_id"] = 0 /\ C!OffsetOf["is_intel"] = 0
        /\ C!OffsetOf["read_device_id"] = 0 /\ C!OffsetOf["read_class_code"] = 8
        /\ C!OffsetOf["read_header_type"] = 12 /\ C!OffsetOf["read_bus_numbers"] = 24
    BY DEF C!OffsetOf
  <2>2. \A op : Read(machine, op, x) = C!Field(op, word(C!OffsetOf[op]))
    BY DEF Read
  <2> HIDE DEF word
  <2>3. /\ \A data : C!Field("read_vendor_id", data) = C!Low(data, 16)
        /\ \A data : C!Field("is_intel", data) = (C!Low(data, 16) = C!Bits(32902))
        /\ \A data : C!Field("read_device_id", data) = C!shr(data, 16)
    BY DEF C!Field
  <2>4. /\ \A data : C!Field("read_header_type", data) = C!Low(C!shr(data, 16), 8)
        /\ \A data : C!Field("read_class_code", data) = C!ClassCode(data)
        /\ \A data : C!Field("read_bus_numbers", data) = data
    BY DEF C!Field
  <2>5. /\ Read(machine, "read_vendor_id", x) = C!Field("read_vendor_id", word(0))
        /\ Read(machine, "is_intel", x) = C!Field("is_intel", word(0))
        /\ Read(machine, "read_device_id", x) = C!Field("read_device_id", word(0))
        /\ Read(machine, "read_header_type", x) = C!Field("read_header_type", word(12))
        /\ Read(machine, "read_class_code", x) = C!Field("read_class_code", word(8))
        /\ Read(machine, "read_bus_numbers", x) = C!Field("read_bus_numbers", word(24))
    BY <2>1, <2>2
  <2> QED  BY <2>3, <2>4, <2>5
<1> HIDE DEF word
<1>8. C!Low(word(0), 16) = f.vendor_id /\ C!shr(word(0), 16) = f.device_id
  <2>1. PICK V \in SUBSET (0 .. 15), D \in SUBSET (0 .. 15) : V = f.vendor_id /\ D = f.device_id
    BY <1>4
  <2>2. C!Low(V \union C!shl(D, 16), 16) = V /\ C!shr(V \union C!shl(D, 16), 16) = D
    BY VendorAndDevice
  <2> QED  BY <1>6, <2>1, <2>2
<1>9. C!Low(C!shr(word(12), 16), 8) = f.header_type
  BY <1>4, <1>6, HeaderTypeCut
<1>10. C!ClassCode(word(8)) = [base |-> f.base, sub |-> f.sub, interface |-> f.interface]
  <2>1. PICK B \in SUBSET (0 .. 7), S \in SUBSET (0 .. 7), P \in SUBSET (0 .. 7) :
          B = f.base /\ S = f.sub /\ P = f.interface
    BY <1>4
  <2>2. C!ClassCode((0 .. 7) \union C!shl(P, 8) \union C!shl(S, 16) \union C!shl(B, 24))
          = [base |-> B, sub |-> S, interface |-> P]
    BY ClassCodeCut
  <2> QED  BY <1>6, <2>1, <2>2
<1> QED  BY <1>6, <1>7, <1>8, <1>9, <1>10 DEF f

LEMMA ReadOfAbsent ==
  ASSUME NEW machine, C!IsMachine(machine), NEW x \in C!Location, x \notin DOMAIN machine
  PROVE  Read(machine, "read_vendor_id", x) = 0 .. 15
<1>1. 0 \in Offsets
  BY DEF Offsets
<1>2. C!DataAt(machine, C!make_address(x, 0)) = 0 .. 31
  BY <1>1, DataOfAsked
<1>3. Read(machine, "read_vendor_id", x) = C!Low(0 .. 31, 16)
  BY <1>2 DEF Read, C!Field, C!OffsetOf
<1> QED  BY <1>3 DEF C!Low

\* The headers the scan goes by are the machine's own.
LEMMA HeadersAreMachine ==
  ASSUME NEW machine, C!IsMachine(machine)
  PROVE  /\ DOMAIN HeadersOf(machine) = DOMAIN machine \intersect Function
         /\ \A x \in DOMAIN HeadersOf(machine) :
              LET f == machine[x]
              IN  /\ HeadersOf(machine)[x].multi <=> 7 \in f.header_type
                  /\ IF f.base = C!Bits(6) /\ f.sub = C!Bits(4)
                       THEN C!Low(C!shr(f.bars[3].bits, 8), 8)
                              = C!Bits(HeadersOf(machine)[x].secondary)
                       ELSE HeadersOf(machine)[x].secondary = -1
<1>1. DOMAIN HeadersOf(machine) = DOMAIN machine \intersect Function
  <2>1. \A x \in DOMAIN machine : Read(machine, "read_vendor_id", x) # 0 .. 15
    BY ReadOfAsked, WhatFunctionHolds DEF C!IsMachine
  <2>2. \A x \in Function \ DOMAIN machine : Read(machine, "read_vendor_id", x) = 0 .. 15
    BY ReadOfAbsent, PciAssumption
  <2>3. DOMAIN HeadersOf(machine) = {y \in Function : Read(machine, "read_vendor_id", y) # 0 .. 15}
    BY DEF HeadersOf
  <2> QED  BY <2>1, <2>2, <2>3
<1>2. ASSUME NEW x \in DOMAIN HeadersOf(machine)
      PROVE  /\ HeadersOf(machine)[x].multi <=> 7 \in machine[x].header_type
             /\ IF machine[x].base = C!Bits(6) /\ machine[x].sub = C!Bits(4)
                  THEN C!Low(C!shr(machine[x].bars[3].bits, 8), 8)
                         = C!Bits(HeadersOf(machine)[x].secondary)
                  ELSE HeadersOf(machine)[x].secondary = -1
  <2>1. x \in DOMAIN machine
    BY <1>1
  <2>2. HeadersOf(machine)[x] = HeaderOf(machine, x)
    BY DEF HeadersOf
  <2>3. /\ Read(machine, "read_header_type", x) = machine[x].header_type
        /\ Read(machine, "read_class_code", x) =
             [base |-> machine[x].base, sub |-> machine[x].sub,
              interface |-> machine[x].interface]
        /\ Read(machine, "read_bus_numbers", x) = C!BarWord(machine[x].bars[3])
    BY <2>1, ReadOfAsked
  <2>4. IsBridge(Read(machine, "read_class_code", x)) <=>
          machine[x].base = C!Bits(6) /\ machine[x].sub = C!Bits(4)
    BY <2>3 DEF IsBridge
  <2>5. /\ HeadersOf(machine)[x].multi = (7 \in machine[x].header_type)
        /\ HeadersOf(machine)[x].secondary =
             IF machine[x].base = C!Bits(6) /\ machine[x].sub = C!Bits(4)
               THEN SecondaryBus(C!BarWord(machine[x].bars[3])) ELSE -1
    BY <2>2, <2>3, <2>4 DEF HeaderOf
  <2>6. C!Bits(SecondaryBus(C!BarWord(machine[x].bars[3])))
          = C!Low(C!shr(machine[x].bars[3].bits, 8), 8)
    <3> DEFINE number == C!Low(C!shr(machine[x].bars[3].bits, 8), 8)
    <3>1. 3 \in 1 .. 6 /\ C!Holds(machine[x])
      BY <2>1 DEF C!IsMachine
    <3>2. machine[x].bars[3].bits \in SUBSET (0 .. 31)
      BY <3>1, WhatFunctionHolds
    <3>3. C!Low(C!shr(C!BarWord(machine[x].bars[3]), 8), 8) = number
      BY <3>2, SecondaryCut
    <3>4. number \in SUBSET (0 .. 7)
      BY DEF C!Low
    <3> HIDE DEF number
    <3>5. \E bus \in 0 .. 255 : C!Bits(bus) = number
      BY <3>4, BitsOnto
    <3>6. SecondaryBus(C!BarWord(machine[x].bars[3])) =
            CHOOSE bus \in 0 .. 255 : C!Bits(bus) = number
      BY <3>3 DEF SecondaryBus
    <3> QED  BY <3>5, <3>6 DEF number
  <2> QED  BY <2>5, <2>6
<1> QED  BY <1>1, <1>2

-----------------------------------------------------------------------------
(***************************************************************************)
(* The accesses, one after the other: what is known while one is going on, *)
(* and what the last one returned.                                         *)
(***************************************************************************)
FieldReads == {"read_vendor_id", "is_intel", "read_device_id", "read_class_code",
               "read_header_type", "read_bus_numbers"}

Calls == [op : FieldReads \union {"none", "is_xhc", "read_base_addr"}, at : C!Location,
          index : Nat]

WordAt(machine, x, off) == C!DataAt(machine, C!make_address(x, off))

XhcClass == [base |-> C!Bits(12), sub |-> C!Bits(3), interface |-> C!Bits(48)]

BaseAddr(machine, x, index) ==
  LET first == WordAt(machine, x, 16 + 4 * index)
  IN  CASE index >= 6 -> [status |-> "err", value |-> {}]
        [] index < 6 /\ ~ C!IsWide(first) -> [status |-> "ok", value |-> first]
        [] index = 5 /\ C!IsWide(first) -> [status |-> "err", value |-> {}]
        [] index < 5 /\ C!IsWide(first) ->
             [status |-> "ok",
              value  |-> C!shl(WordAt(machine, x, 20 + 4 * index), 32) \union first]

MachineInv == C!IsMachine(config) /\ pci = HeadersOf(config)

CallInv == call \in Calls /\ access \in {"idle", "address", "data"}

\* The second double word is only read of a 64-bit base address below the last one.
OffsetInv ==
  access # "idle" =>
    \/ call.op \in FieldReads /\ offset = C!OffsetOf[call.op]
    \/ /\ call.op = "read_base_addr" /\ call.index < 6
       /\ offset = 16 + 4 * call.index
    \/ /\ call.op = "read_base_addr" /\ call.index < 5
       /\ offset = 20 + 4 * call.index
       /\ lower = WordAt(config, call.at, 16 + 4 * call.index) /\ C!IsWide(lower)

AddressInv == access = "data" => config_address = C!make_address(call.at, offset)

ReturnInv ==
  access = "idle" =>
    /\ call.op \in FieldReads => ret.value = Read(config, call.op, call.at)
    /\ call.op = "is_xhc" =>
         ret.value = (Read(config, "read_class_code", call.at) = XhcClass)
    /\ call.op = "read_base_addr" => ret = BaseAddr(config, call.at, call.index)

AccessInv == MachineInv /\ CallInv /\ OffsetInv /\ AddressInv /\ ReturnInv

LEMMA FieldReadsAre == DOMAIN C!OffsetOf = FieldReads
BY DEF C!OffsetOf, FieldReads

LEMMA AccessInit == PciInit => AccessInv
<1> SUFFICES ASSUME PciInit PROVE AccessInv
  OBVIOUS
<1>1. MachineInv
  BY PciAssumption DEF PciInit, MachineInv
<1>2. call = C!Nothing /\ access = "idle"
  BY DEF PciInit, C!Init
<1>3. C!Nothing \in Calls /\ C!Nothing.op = "none"
  <2>1. <<0, 0, 0>> \in C!Location
    BY DEF C!Location
  <2> QED  BY <2>1 DEF C!Nothing, Calls
<1>4. CallInv
  BY <1>2, <1>3 DEF CallInv
<1>5. "none" \notin FieldReads
  BY DEF FieldReads
<1>6. OffsetInv /\ AddressInv /\ ReturnInv
  BY <1>2, <1>3, <1>5 DEF OffsetInv, AddressInv, ReturnInv
<1> QED  BY <1>1, <1>4, <1>6 DEF AccessInv

\* Reading takes place in configuration space as it is.
LEMMA DataIsWord ==
  ASSUME AccessInv, access = "data"
  PROVE  C!ConfigData = WordAt(config, call.at, offset)
BY DEF AccessInv, AddressInv, C!ConfigData, WordAt

LEMMA ReadFieldKeeps ==
  ASSUME AccessInv, NEW op \in FieldReads, NEW at \in Queried, C!ReadField(op, at)
  PROVE  CallInv' /\ OffsetInv' /\ AddressInv' /\ ReturnInv'
<1>1. /\ call' = [op |-> op, at |-> at, index |-> 0] /\ access' = "address"
      /\ offset' = C!OffsetOf[op]
  BY DEF C!ReadField
<1>2. at \in C!Location
  BY PciAssumption
<1>3. CallInv'
  BY <1>1, <1>2 DEF CallInv, Calls
<1>4. OffsetInv'
  BY <1>1 DEF OffsetInv
<1>5. AddressInv' /\ ReturnInv'
  BY <1>1 DEF AddressInv, ReturnInv
<1> QED  BY <1>3, <1>4, <1>5

LEMMA BaseAddrKeeps ==
  ASSUME AccessInv, NEW at \in Queried, NEW index \in 0 .. MaxIndex,
         C!read_base_addr(at, index)
  PROVE  CallInv' /\ OffsetInv' /\ AddressInv' /\ ReturnInv'
<1>1. call' = [op |-> "read_base_addr", at |-> at, index |-> index]
  BY DEF C!read_base_addr
<1>2. call'.op = "read_base_addr" /\ call'.at = at /\ call'.index = index
  BY <1>1
<1>3. at \in C!Location /\ index \in Nat
  BY PciAssumption
<1>4. "read_base_addr" \notin FieldReads
  BY DEF FieldReads
<1>5. CASE index >= 6
  <2>1. access' = "idle" /\ ret' = [status |-> "err", value |-> {}]
    BY <1>5 DEF C!read_base_addr, C!OutOfRange, C!Return
  <2>2. CallInv'
    BY <1>1, <1>3, <2>1 DEF CallInv, Calls
  <2>3. BaseAddr(config', at, index) = [status |-> "err", value |-> {}]
    BY <1>3, <1>5 DEF BaseAddr
  <2>4. ReturnInv'
    BY <1>2, <1>4, <2>1, <2>3 DEF ReturnInv
  <2> QED  BY <2>1, <2>2, <2>4 DEF OffsetInv, AddressInv
<1>6. CASE ~ (index >= 6)
  <2>1. access' = "address" /\ offset' = 16 + 4 * index
    BY <1>6 DEF C!read_base_addr, C!OutOfRange
  <2>2. CallInv'
    BY <1>1, <1>3, <2>1 DEF CallInv, Calls
  <2>3. index < 6
    BY <1>3, <1>6
  <2>4. OffsetInv'
    BY <1>2, <2>1, <2>3 DEF OffsetInv
  <2> QED  BY <2>1, <2>2, <2>4 DEF AddressInv, ReturnInv
<1> QED  BY <1>5, <1>6

LEMMA WriteAddressKeeps ==
  ASSUME AccessInv, C!write_address
  PROVE  CallInv' /\ OffsetInv' /\ AddressInv' /\ ReturnInv'
<1>1. /\ access = "address" /\ access' = "data"
      /\ config_address' = C!make_address(call.at, offset)
      /\ call' = call /\ offset' = offset /\ lower' = lower /\ config' = config
  BY DEF C!write_address
<1>2. CallInv'
  BY <1>1 DEF AccessInv, CallInv
<1>3. OffsetInv'
  BY <1>1 DEF AccessInv, OffsetInv
<1>4. AddressInv' /\ ReturnInv'
  BY <1>1 DEF AddressInv, ReturnInv
<1> QED  BY <1>2, <1>3, <1>4

LEMMA FieldReadKeeps ==
  ASSUME AccessInv, C!FieldRead
  PROVE  CallInv' /\ OffsetInv' /\ AddressInv' /\ ReturnInv'
<1>1. /\ access = "data" /\ call.op # "read_base_addr" /\ access' = "idle"
      /\ ret' = [status |-> "ok", value |-> C!Field(call.op, C!ConfigData)]
      /\ call' = call /\ config' = config
  BY DEF C!FieldRead, C!Return
<1>2. call.op \in FieldReads /\ offset = C!OffsetOf[call.op]
  BY <1>1 DEF AccessInv, OffsetInv
<1>3. ret'.value = Read(config, call.op, call.at)
  BY <1>1, <1>2, DataIsWord DEF WordAt, Read
<1>4. CallInv'
  BY <1>1 DEF AccessInv, CallInv
<1>5. call.op # "is_xhc"
  BY <1>2 DEF FieldReads
<1>6. ReturnInv'
  BY <1>1, <1>3, <1>5 DEF ReturnInv
<1> QED  BY <1>1, <1>4, <1>6 DEF OffsetInv, AddressInv

LEMMA LowerReadKeeps ==
  ASSUME AccessInv, C!LowerRead
  PROVE  CallInv' /\ OffsetInv' /\ AddressInv' /\ ReturnInv'
<1>1. /\ access = "data" /\ call.op = "read_base_addr" /\ offset = 16 + 4 * call.index
      /\ lower' = C!ConfigData /\ call' = call /\ config' = config
  BY DEF C!LowerRead
<1>2. call.index \in Nat /\ call.index < 6
  <2>1. call.index \in Nat /\ "read_base_addr" \notin FieldReads
    BY DEF AccessInv, CallInv, Calls, FieldReads
  <2> QED  BY <1>1, <2>1 DEF AccessInv, OffsetInv
<1> DEFINE first == WordAt(config, call.at, 16 + 4 * call.index)
<1>3. lower' = first
  BY <1>1, DataIsWord
<1>4. "read_base_addr" \notin FieldReads /\ "read_base_addr" # "is_xhc"
  BY DEF FieldReads
<1>5. CallInv' \/ access' \notin {"idle", "address", "data"}
  BY <1>1 DEF AccessInv, CallInv
<1>6. CASE ~ C!IsWide(lower') /\ C!Return("ok", lower')
  <2>1. access' = "idle" /\ ret' = [status |-> "ok", value |-> first]
    BY <1>3, <1>6 DEF C!Return
  <2>2. BaseAddr(config, call.at, call.index) = [status |-> "ok", value |-> first]
    BY <1>2, <1>3, <1>6 DEF BaseAddr
  <2>3. ReturnInv'
    BY <1>1, <1>4, <2>1, <2>2 DEF ReturnInv
  <2> QED  BY <1>5, <2>1, <2>3 DEF OffsetInv, AddressInv
<1>7. CASE C!IsWide(lower') /\ call.index >= 5 /\ C!Return("err", {})
  <2>1. access' = "idle" /\ ret' = [status |-> "err", value |-> {}]
    BY <1>7 DEF C!Return
  <2>2. call.index = 5
    BY <1>2, <1>7
  <2>3. BaseAddr(config, call.at, call.index) = [status |-> "err", value |-> {}]
    BY <1>3, <1>7, <2>2 DEF BaseAddr
  <2>4. ReturnInv'
    BY <1>1, <1>4, <2>1, <2>3 DEF ReturnInv
  <2> QED  BY <1>5, <2>1, <2>4 DEF OffsetInv, AddressInv
<1>8. CASE C!IsWide(lower') /\ call.index < 5 /\ offset' = offset + 4 /\ access' = "address"
  <2>1. offset' = 20 + 4 * call.index
    BY <1>1, <1>2, <1>8
  <2>2. OffsetInv'
    BY <1>1, <1>3, <1>8, <2>1 DEF OffsetInv
  <2> QED  BY <1>5, <1>8, <2>2 DEF AddressInv, ReturnInv
<1> QED  BY <1>6, <1>7, <1>8 DEF C!LowerRead

LEMMA UpperReadKeeps ==
  ASSUME AccessInv, C!UpperRead
  PROVE  CallInv' /\ OffsetInv' /\ AddressInv' /\ ReturnInv'
<1>1. /\ access = "data" /\ call.op = "read_base_addr" /\ offset = 16 + 4 * call.index + 4
      /\ access' = "idle" /\ call' = call /\ config' = config
      /\ ret' = [status |-> "ok", value |-> C!shl(C!ConfigData, 32) \union lower]
  BY DEF C!UpperRead, C!Return
<1>2. call.index \in Nat /\ "read_base_addr" \notin FieldReads /\ "read_base_addr" # "is_xhc"
  BY DEF AccessInv, CallInv, Calls, FieldReads
<1>3. offset = 20 + 4 * call.index /\ offset # 16 + 4 * call.index
  BY <1>1, <1>2
<1>4. /\ call.index < 5 /\ C!IsWide(lower)
      /\ lower = WordAt(config, call.at, 16 + 4 * call.index)
  BY <1>1, <1>2, <1>3 DEF AccessInv, OffsetInv
<1>5. C!ConfigData = WordAt(config, call.at, 20 + 4 * call.index)
  BY <1>1, <1>3, DataIsWord
<1>6. ret' = BaseAddr(config, call.at, call.index)
  BY <1>1, <1>2, <1>4, <1>5 DEF BaseAddr
<1>7. ReturnInv'
  BY <1>1, <1>2, <1>6 DEF ReturnInv
<1>8. CallInv'
  BY <1>1 DEF AccessInv, CallInv
<1> QED  BY <1>1, <1>7, <1>8 DEF OffsetInv, AddressInv

LEMMA IsXhcKeeps ==
  ASSUME AccessInv, C!is_xhc
  PROVE  CallInv' /\ OffsetInv' /\ AddressInv' /\ ReturnInv'
<1>1. /\ access = "idle" /\ access' = "idle" /\ call.op = "read_class_code"
      /\ call' = [call EXCEPT !.op = "is_xhc"] /\ config' = config
      /\ ret' = [status |-> "ok", value |-> ret.value = XhcClass]
  BY DEF C!is_xhc, XhcClass
<1>2. call \in Calls
  BY DEF AccessInv, CallInv
<1>3. call' \in Calls /\ call'.op = "is_xhc" /\ call'.at = call.at
  BY <1>1, <1>2 DEF Calls
<1>4. "read_class_code" \in FieldReads /\ "is_xhc" \notin FieldReads
  BY DEF FieldReads
<1>5. ret.value = Read(config, "read_class_code", call.at)
  BY <1>1, <1>4 DEF AccessInv, ReturnInv
<1>6. ret'.value = (Read(config, "read_class_code", call.at) = XhcClass)
  BY <1>1, <1>5
<1>7. ReturnInv'
  BY <1>1, <1>3, <1>4, <1>6 DEF ReturnInv
<1> QED  BY <1>1, <1>3, <1>7 DEF CallInv, OffsetInv, AddressInv

LEMMA ScanKeepsMachine ==
  ASSUME Next PROVE pci' = pci
<1>1. CASE ScanAllBus \/ AllIteration \/ BusIteration
  BY <1>1, Zenon DEF ScanAllBus, AllIteration, BusIteration
<1>2. CASE DeviceFunction0 \/ DeviceReturns \/ DeviceIteration
  BY <1>2, Zenon DEF DeviceFunction0, DeviceReturns, DeviceIteration
<1>3. CASE ScanReturns \/ Over
  BY <1>3 DEF ScanReturns, Over, vars
<1> QED  BY <1>1, <1>2, <1>3 DEF Next, ScanStep

LEMMA ReadKeepsMachine ==
  ASSUME C!Next PROVE config' = config
BY DEF C!Next, C!ReadField, C!read_base_addr, C!write_address, C!FieldRead, C!LowerRead,
       C!UpperRead, C!is_xhc

LEMMA StillKeeps ==
  ASSUME AccessInv, UNCHANGED <<config, accesses>>
  PROVE  CallInv' /\ OffsetInv' /\ AddressInv' /\ ReturnInv'
<1>1. /\ config' = config /\ config_address' = config_address /\ access' = access
      /\ call' = call /\ offset' = offset /\ lower' = lower /\ ret' = ret
  BY DEF accesses
<1>2. CallInv' /\ AddressInv'
  BY <1>1 DEF AccessInv, CallInv, AddressInv
<1>3. OffsetInv'
  BY <1>1 DEF AccessInv, OffsetInv
<1>4. ReturnInv'
  BY <1>1 DEF AccessInv, ReturnInv
<1> QED  BY <1>2, <1>3, <1>4

LEMMA AccessStep == AccessInv /\ [PciNext]_allvars => AccessInv'
<1> SUFFICES ASSUME AccessInv, [PciNext]_allvars PROVE AccessInv'
  OBVIOUS
<1>1. config' = config /\ pci' = pci
  <2>1. CASE mode = "scan" /\ Next /\ UNCHANGED <<mode, config, accesses>>
    BY <2>1, ScanKeepsMachine
  <2>2. CASE mode = "read" /\ C!Next /\ UNCHANGED <<vars, mode>>
    BY <2>2, ReadKeepsMachine DEF vars
  <2>3. CASE UNCHANGED allvars
    BY <2>3 DEF allvars, vars
  <2> QED  BY <2>1, <2>2, <2>3 DEF PciNext
<1>2. MachineInv'
  BY <1>1 DEF AccessInv, MachineInv
<1>3. CallInv' /\ OffsetInv' /\ AddressInv' /\ ReturnInv'
  <2>1. CASE mode = "scan" /\ Next /\ UNCHANGED <<mode, config, accesses>>
    BY <2>1, StillKeeps
  <2>2. CASE UNCHANGED allvars
    BY <2>2, StillKeeps DEF allvars
  <2>3. CASE C!Next
    <3>1. CASE \E op \in DOMAIN C!OffsetOf, at \in Queried : C!ReadField(op, at)
      BY <3>1, ReadFieldKeeps, FieldReadsAre
    <3>2. CASE \E at \in Queried, index \in 0 .. MaxIndex : C!read_base_addr(at, index)
      BY <3>2, BaseAddrKeeps
    <3>3. CASE C!write_address
      BY <3>3, WriteAddressKeeps
    <3>4. CASE C!FieldRead
      BY <3>4, FieldReadKeeps
    <3>5. CASE C!LowerRead
      BY <3>5, LowerReadKeeps
    <3>6. CASE C!UpperRead
      BY <3>6, UpperReadKeeps
    <3>7. CASE C!is_xhc
      BY <3>7, IsXhcKeeps
    <3> QED  BY <2>3, <3>1, <3>2, <3>3, <3>4, <3>5, <3>6, <3>7 DEF C!Next
  <2> QED  BY <2>1, <2>2, <2>3 DEF PciNext
<1> QED  BY <1>2, <1>3 DEF AccessInv

LEMMA AccessAlways == PciSpec => []AccessInv
BY AccessInit, AccessStep, PTL DEF PciSpec

-----------------------------------------------------------------------------
\* What an access reads is the field, the test or the absence asked for.
LEMMA FieldsFromInv == AccessInv => C!FieldsRead
<1> SUFFICES ASSUME AccessInv PROVE C!FieldsRead
  OBVIOUS
<1>1. C!IsMachine(config) /\ call.at \in C!Location
  BY DEF AccessInv, MachineInv, CallInv, Calls
<1>2. ASSUME access = "idle"
      PROVE  /\ call.op \in FieldReads => ret.value = Read(config, call.op, call.at)
             /\ call.op = "is_xhc" =>
                  ret.value = (Read(config, "read_class_code", call.at) = XhcClass)
  BY <1>2 DEF AccessInv, ReturnInv
<1>3. {"read_vendor_id", "is_intel", "read_device_id", "read_class_code",
       "read_header_type"} \subseteq FieldReads
  BY DEF FieldReads
<1>4. CASE call.at \in DOMAIN config
  <2>1. /\ Read(config, "read_vendor_id", call.at) = C!Asked.vendor_id
        /\ Read(config, "is_intel", call.at) = (C!Asked.vendor_id = C!Bits(32902))
        /\ Read(config, "read_device_id", call.at) = C!Asked.device_id
        /\ Read(config, "read_header_type", call.at) = C!Asked.header_type
        /\ Read(config, "read_class_code", call.at) =
             [base |-> C!Asked.base, sub |-> C!Asked.sub, interface |-> C!Asked.interface]
    BY <1>1, <1>4, ReadOfAsked DEF C!Asked
  <2>2. (Read(config, "read_class_code", call.at) = XhcClass) = C!HasXhcClass(C!Asked)
    BY <2>1 DEF XhcClass, C!HasXhcClass
  <2>3. /\ C!Returned("read_vendor_id") => ret.value = C!Asked.vendor_id
        /\ C!Returned("read_device_id") => ret.value = C!Asked.device_id
        /\ C!Returned("read_header_type") => ret.value = C!Asked.header_type
        /\ C!Returned("read_class_code") =>
             ret.value = [base |-> C!Asked.base, sub |-> C!Asked.sub,
                          interface |-> C!Asked.interface]
        /\ C!Returned("is_intel") => ret.value = (C!Asked.vendor_id = C!Bits(32902))
    BY <1>2, <1>3, <2>1 DEF C!Returned
  <2>4. C!Returned("is_xhc") => ret.value = C!HasXhcClass(C!Asked)
    BY <1>2, <2>2 DEF C!Returned
  <2> QED  BY <1>4, <2>3, <2>4 DEF C!FieldsRead
<1>5. CASE call.at \notin DOMAIN config
  <2>1. Read(config, "read_vendor_id", call.at) = 0 .. 15
    BY <1>1, <1>5, ReadOfAbsent
  <2> QED  BY <1>2, <1>3, <1>5, <2>1 DEF C!FieldsRead, C!Returned
<1> QED  BY <1>4, <1>5

LEMMA TopologyFromInv == AccessInv => ScanSeesMachine
<1> SUFFICES ASSUME AccessInv PROVE ScanSeesMachine
  OBVIOUS
<1>1. C!IsMachine(config) /\ pci = HeadersOf(config)
  BY DEF AccessInv, MachineInv
<1> QED  BY <1>1, HeadersAreMachine DEF ScanSeesMachine

\* Every field read is that of the function asked for, wherever the function lies,
\* whatever it holds and whatever was read before, and the topology the scan walks is
\* the machine's own (pci/mod.rs:44-50, 185-240, 249-312).
THEOREM FieldsReadHolds == PciSpec => []FieldsRead
<1>1. AccessInv => FieldsRead
  BY FieldsFromInv, TopologyFromInv DEF FieldsRead
<1> QED  BY <1>1, AccessAlways, PTL

-----------------------------------------------------------------------------
(***************************************************************************)
(* Base addresses                                                          *)
(***************************************************************************)
LEMMA WordOfBar ==
  ASSUME NEW machine, C!IsMachine(machine), NEW x \in DOMAIN machine, NEW k \in 1 .. 6
  PROVE  WordAt(machine, x, 12 + 4 * k) = C!BarWord(machine[x].bars[k])
<1>1. 12 + 4 * k \in Offsets
  BY DEF Offsets
<1>2. x \in C!Location
  BY DEF C!IsMachine
<1>3. WordAt(machine, x, 12 + 4 * k) = C!DoubleWord(machine[x], C!Bits(12 + 4 * k))
  BY <1>1, <1>2, DataOfAsked DEF WordAt
<1> QED  BY <1>3, DoubleWords

\* The base address in register `index` of f is what was got.
WholeBar(f, index, got) ==
  LET bar == f.bars[index + 1]
  IN  /\ bar.kind = "mem32" =>
           got.status = "ok" /\ got.value \ (0 .. 3) = bar.bits \ (0 .. 3)
      /\ bar.kind = "mem64" =>
           /\ got.status = "ok"
           /\ got.value \ (0 .. 3) =
                (bar.bits \ (0 .. 3)) \union C!shl(f.bars[index + 2].bits, 32)

\* A 64-bit base address is never in the last register, so that its other half is read.
LEMMA BaseAddrWhole ==
  ASSUME NEW machine, C!IsMachine(machine), NEW x \in DOMAIN machine, NEW index \in 0 .. 5
  PROVE  WholeBar(machine[x], index, BaseAddr(machine, x, index))
<1> DEFINE bar == machine[x].bars[index + 1]
           next == machine[x].bars[index + 2]
           first == WordAt(machine, x, 16 + 4 * index)
           got == BaseAddr(machine, x, index)
<1>1. /\ index + 1 \in 1 .. 6 /\ 16 + 4 * index = 12 + 4 * (index + 1) /\ ~ (index >= 6)
      /\ index < 6 /\ index \in Nat
  OBVIOUS
<1>2. first = C!BarWord(bar)
  BY <1>1, WordOfBar
<1>3. C!Holds(machine[x])
  BY DEF C!IsMachine
<1>4. /\ bar.bits \in SUBSET (0 .. 31)
      /\ bar.kind = "mem32" => 2 \notin bar.bits
      /\ bar.kind = "mem64" => index + 1 < 6 /\ machine[x].bars[(index + 1) + 1].kind = "upper"
  BY <1>1, <1>3, WhatFunctionHolds
<1>5. CASE bar.kind = "mem32"
  <2>1. first = bar.bits /\ ~ C!IsWide(first)
    BY <1>2, <1>4, <1>5 DEF C!BarWord, C!IsWide
  <2>2. got = [status |-> "ok", value |-> first]
    BY <1>1, <2>1 DEF BaseAddr
  <2> QED  BY <1>5, <2>1, <2>2 DEF WholeBar
<1>6. CASE bar.kind = "mem64"
  <2>1. first = {2} \union bar.bits /\ C!IsWide(first)
    BY <1>2, <1>6 DEF C!BarWord, C!IsWide
  <2>2. /\ index < 5 /\ index + 2 \in 1 .. 6 /\ 20 + 4 * index = 12 + 4 * (index + 2)
        /\ (index + 1) + 1 = index + 2
    BY <1>4, <1>6
  <2>3. next.kind = "upper" /\ next.bits \in SUBSET (0 .. 31)
    BY <1>3, <1>4, <1>6, <2>2, WhatFunctionHolds
  <2>4. WordAt(machine, x, 20 + 4 * index) = next.bits
    <3>1. WordAt(machine, x, 20 + 4 * index) = C!BarWord(next)
      BY <2>2, WordOfBar
    <3> QED  BY <2>3, <3>1 DEF C!BarWord
  <2>5. got = [status |-> "ok", value |-> C!shl(next.bits, 32) \union first]
    <3>1. index < 5 /\ index # 5 /\ ~ (index >= 6)
      BY <2>2
    <3> HIDE DEF next
    <3> QED  BY <2>1, <2>4, <3>1 DEF BaseAddr
  <2>6. \A b \in C!shl(next.bits, 32) : b \notin 0 .. 3
    BY <2>3 DEF C!shl
  <2> HIDE DEF got, next, first, bar
  <2>7. got.status = "ok" /\ got.value = C!shl(next.bits, 32) \union ({2} \union bar.bits)
    BY <2>1, <2>5
  <2>8. (C!shl(next.bits, 32) \union ({2} \union bar.bits)) \ (0 .. 3)
          = (bar.bits \ (0 .. 3)) \union C!shl(next.bits, 32)
    BY <2>6
  <2> QED  BY <1>6, <2>7, <2>8 DEF WholeBar, got, next, bar
<1> QED  BY <1>5, <1>6, Zenon DEF WholeBar

LEMMA BaseAddrFromInv == AccessInv => BaseAddrRead
<1> SUFFICES ASSUME AccessInv, C!Returned("read_base_addr"), call.at \in DOMAIN config
             PROVE  IF call.index >= 6 THEN ret.status = "err"
                    ELSE WholeBar(C!Asked, call.index, ret)
  BY Zenon DEF BaseAddrRead, C!BaseAddrRead, WholeBar
<1>1. ret = BaseAddr(config, call.at, call.index)
  BY DEF AccessInv, ReturnInv, C!Returned
<1>2. C!IsMachine(config) /\ call.index \in Nat /\ C!Asked = config[call.at]
  BY DEF AccessInv, MachineInv, CallInv, Calls, C!Asked
<1>3. CASE call.index >= 6
  <2>1. ret = [status |-> "err", value |-> {}]
    BY <1>1, <1>2, <1>3 DEF BaseAddr
  <2> QED  BY <1>3, <2>1
<1>4. CASE ~ (call.index >= 6)
  <2>1. call.index \in 0 .. 5
    BY <1>2, <1>4
  <2>2. WholeBar(config[call.at], call.index, BaseAddr(config, call.at, call.index))
    BY <1>2, <2>1, BaseAddrWhole
  <2> QED  BY <1>1, <1>2, <1>4, <2>2
<1> QED  BY <1>3, <1>4

\* A memory base address is returned whole, for every function and every register:
\* with its upper half exactly if it has one, and an error only for an index past the
\* registers (pci/mod.rs:82-106).
THEOREM BaseAddrReadHolds == PciSpec => []BaseAddrRead
BY BaseAddrFromInv, AccessAlways, PTL
=============================================================================
