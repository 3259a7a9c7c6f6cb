---------------------------- MODULE InputProofs -----------------------------
(***************************************************************************)
(* Proofs about the input path, for every number of keys, bytes, polls and *)
(* stack frames: ps2::init, which sets up the controller, the keyboard and *)
(* the mouse, and then main and the two interrupt handlers that take their *)
(* bytes.                                                                  *)
(***************************************************************************)
EXTENDS Input, SequenceTheorems, TLAPS

(***************************************************************************)
(* What the bytes that wait may be.  An answer of a device is never taken  *)
(* for another one: before the devices are reset no byte looks like one of *)
(* their answers, because bits 2, 3 and 7 of a configuration byte are      *)
(* never changed.                                                          *)
(***************************************************************************)
Plain(byte) == 2 \in byte \/ ~ ({3, 7} \subseteq byte)

ResetKeyboard == {"keyboard_ack", "keyboard_test", "mouse1"}
ResetMouse    == {"reset_mouse", "mouse_ack", "mouse_test", "mouse_id", "mouse2", "report_mouse",
                  "report_ack", "done"}
Early(label) == label \notin ResetKeyboard \union ResetMouse \union {"panicked"}

\* A byte from before the kernel may still be the first one.
NotFlushed == pc \in {"disable1", "disable2"} \/ (pc = "flush" /\ count = 0)

Has(byte) == \E m \in DOMAIN out : out[m] = byte

ByteInv ==
  /\ out \in Seq(Byte)
  /\ config \in Byte /\ Plain(config)
  /\ config_byte \in Byte /\ Plain(config_byte)

EarlyInv ==
  Early(pc) =>
    /\ keyboard = "on" /\ mouse = "on"
    /\ input \notin {"Reset", "EnableReporting"}
    /\ \A m \in DOMAIN out : Plain(out[m]) \/ (m = 1 /\ NotFlushed)
    /\ pc \in {"disable1", "disable2"} => count = 0
    /\ pc = "reset_keyboard" => input = "config" \/ (input = "empty" /\ target = "keyboard")

\* The keyboard's result comes at most once, and only if it passed.
KeyboardInv ==
  pc \in ResetKeyboard =>
    /\ mouse = "on"
    /\ \/ /\ pc = "keyboard_ack" /\ input = "Reset" /\ target = "keyboard"
          /\ keyboard = "on" /\ ~ Has(xFA)
       \/ input = "empty" /\ keyboard \in {"testing", "passed", "failed"}
    /\ Has(xAA) => keyboard = "passed"
    /\ \A m, l \in DOMAIN out : out[m] = xAA /\ out[l] = xAA => m = l
    /\ pc = "mouse1" => keyboard = "passed" /\ ~ Has(xAA)

\* From here on a result is the mouse's.
MouseInv ==
  pc \in ResetMouse =>
    /\ keyboard = "passed"
    /\ Has(xAA) => mouse \in {"passed", "reporting"}
    /\ pc \in {"reset_mouse", "report_mouse"} =>
         input = "WriteSecondPort" \/ (input = "empty" /\ target = "mouse")
    /\ pc = "reset_mouse" => mouse = "on"
    /\ pc \in {"mouse_ack", "mouse_test"} =>
         /\ input = "empty" \/ (input = "Reset" /\ target = "mouse" /\ mouse = "on")
         /\ mouse # "reporting"
    /\ pc \in {"mouse_id", "mouse2", "report_mouse"} => mouse = "passed"
    /\ pc \in {"mouse_id", "mouse2"} => input = "empty"
    /\ pc \in {"report_ack", "done"} =>
         /\ mouse \in {"passed", "reporting"}
         /\ input = "empty" \/ (input = "EnableReporting" /\ target = "mouse")

SInv == ByteInv /\ EarlyInv /\ KeyboardInv /\ MouseInv

(***************************************************************************)
(* If nothing disturbs it, driver, controller and devices keep step: what  *)
(* is in the two buffers follows from where the driver is.                 *)
(***************************************************************************)
Replies(command, byte) ==
  \/ input = command /\ out = << >>
  \/ input = "empty" /\ out = <<byte>>

Enabling == {"enable1", "second", "enable2", "write4"}
Tested   == {"read3", "read3_data", "write4_data", "reset_keyboard", "panicked"} \union Enabling
            \union ResetKeyboard \union ResetMouse

TypeInv ==
  /\ machine \in Machine
  /\ has_second_port \in BOOLEAN /\ first_port_works \in BOOLEAN /\ second_port_works \in BOOLEAN
  /\ count \in Nat
  /\ pc \notin Tested => second_port_works = FALSE
  /\ ArgumentsOK

\* Configuration bytes: after step 5; when the second port was probed; with the
\* second port's clock on; as step 9 leaves them.
AtStep5(c) == c \intersect {0, 4, 6} = {} /\ 5 \in c
Probed(c)  == c \intersect {0, 4, 6} = {} /\ (5 \notin c <=> machine.second)
AtStep7(c) == machine.second => c \intersect {0, 1, 4, 5, 6} = {}
AtStep9(c) ==
  machine.second => /\ c \intersect {4, 5, 6} = {}
                    /\ 0 \in c <=> machine.port1
                    /\ 1 \in c <=> machine.port2

PortsTested ==
  /\ has_second_port = machine.second
  /\ first_port_works = machine.port1
  /\ second_port_works = (machine.second /\ machine.port2)

SetUp1 ==
  /\ pc = "disable1" => input = "empty" /\ Len(out) + count <= 1
  /\ pc = "disable2" =>
       /\ input = "DisableFirstPort" \/ (input = "empty" /\ 4 \in config)
       /\ Len(out) + count <= 1
  /\ pc \in {"flush", "read1"} =>
       /\ 4 \in config
       /\ input = "DisableSecondPort" \/ (input = "empty" /\ 5 \in config)
       /\ Len(out) + count <= 1
       /\ pc = "read1" => out = << >>
  /\ pc = "read1_data" => {4, 5} \subseteq config /\ Replies("ReadConfig", config)
  /\ pc \in {"write1", "write2"} => input = "empty" /\ out = << >> /\ AtStep5(config_byte)
  /\ pc \in {"write1_data", "write2_data"} =>
       input \in {"WriteConfig", "empty"} /\ out = << >> /\ AtStep5(config_byte)
  /\ pc \in {"test", "probe"} =>
       /\ out = << >> /\ AtStep5(config_byte)
       /\ input = "config" \/ (input = "empty" /\ AtStep5(config))
  /\ pc = "test_data" =>
       AtStep5(config_byte) /\ Replies("TestController", IF machine.controller THEN x55 ELSE xFC)

SetUp2 ==
  /\ pc = "read2" =>
       /\ out = << >>
       /\ \/ input = "EnableSecondPort" /\ AtStep5(config)
          \/ input = "empty" /\ Probed(config)
  /\ pc = "read2_data" => Probed(config) /\ Replies("ReadConfig", config)
  /\ pc \in {"disable3", "write3", "write3_data"} =>
       /\ out = << >> /\ machine.second /\ has_second_port /\ AtStep7(config_byte)
       /\ \/ input = "empty"
          \/ pc = "write3" /\ input = "DisableSecondPort"
          \/ pc = "write3_data" /\ input = "WriteConfig"
  /\ pc \in {"test1", "test1_data", "test2", "test2_data"} => has_second_port = machine.second
  /\ pc = "test1" =>
       /\ out = << >>
       /\ \/ input = "config" /\ machine.second /\ AtStep7(config_byte)
          \/ input = "empty" /\ AtStep7(config)
  /\ pc \in {"test1_data", "test2", "test2_data"} => AtStep7(config)
  /\ pc = "test1_data" => Replies("TestFirstPort", IF machine.port1 THEN x00 ELSE {0})
  /\ pc \in {"test2", "test2_data"} => machine.second /\ first_port_works = machine.port1
  /\ pc = "test2" => input = "empty" /\ out = << >>
  /\ pc = "test2_data" => Replies("TestSecondPort", IF machine.port2 THEN x00 ELSE {0})

SetUp3 ==
  /\ pc \in {"read3", "read3_data", "write4_data", "reset_keyboard"} \union Enabling => PortsTested
  /\ pc = "read3" => input = "empty" /\ out = << >> /\ AtStep7(config)
  /\ pc = "read3_data" => AtStep7(config) /\ Replies("ReadConfig", config)
  /\ pc \in Enabling =>
       /\ out = << >> /\ AtStep9(config_byte)
       /\ \/ input = "empty"
          \/ pc # "enable1" /\ input = "EnableFirstPort"
          \/ pc = "write4" /\ input = "EnableSecondPort"
  /\ pc = "write4_data" =>
       input \in {"WriteConfig", "empty"} /\ out = << >> /\ AtStep9(config_byte)
  /\ pc = "reset_keyboard" =>
       /\ out = << >> /\ AtStep9(config_byte)
       /\ input = "config" \/ (input = "empty" /\ AtStep9(config))

Result == IF machine.keyboard THEN xAA ELSE xFC

SetUp4 ==
  /\ pc \in ResetKeyboard \union ResetMouse => PortsTested /\ AtStep9(config)
  /\ pc = "keyboard_ack" =>
       \/ input = "Reset" /\ out = << >> /\ keyboard = "on"
       \/ input = "empty" /\ out = <<xFA>> /\ keyboard = "testing"
       \/ input = "empty" /\ out = <<xFA, Result>> /\ keyboard \in {"passed", "failed"}
  /\ pc = "keyboard_test" =>
       /\ input = "empty"
       /\ \/ out = << >> /\ keyboard = "testing"
          \/ out = <<Result>> /\ keyboard \in {"passed", "failed"}
  /\ pc = "mouse1" => input = "empty" /\ out = << >>

MouseResult == IF machine.mouse THEN <<xAA, x00>> ELSE <<xFC>>
MouseAnswer == IF machine.mouse THEN <<xFA, xAA, x00>> ELSE <<xFA, xFC>>

SetUp5 ==
  /\ pc = "reset_mouse" => out = << >>
  /\ pc = "mouse_ack" =>
       \/ input = "Reset" /\ out = << >> /\ mouse = "on"
       \/ input = "empty" /\ out = << >> /\ mouse = "on" /\ ~ machine.second
       \/ input = "empty" /\ out = <<xFA>> /\ mouse = "testing"
       \/ input = "empty" /\ out = MouseAnswer /\ mouse \in {"passed", "failed"}
  /\ mouse # "on" => machine.second
  /\ pc = "mouse_test" =>
       /\ input = "empty"
       /\ \/ out = << >> /\ mouse = "testing"
          \/ out = MouseResult /\ mouse \in {"passed", "failed"}
  /\ pc = "mouse_id" => out = <<x00>>
  /\ pc \in {"mouse2", "report_mouse", "report_ack"} => machine.port2
  /\ pc \in {"mouse2", "report_mouse"} => out = << >>
  /\ pc = "report_ack" =>
       \/ input = "EnableReporting" /\ out = << >>
       \/ input = "empty" /\ out = <<xFA>> /\ mouse = "reporting"
  /\ pc = "done" => input = "empty" /\ mouse = IF machine.port2 THEN "reporting" ELSE "passed"

PanicInv == pc = "panicked" => ~ \A part \in DOMAIN machine : machine[part]

UInv == ~ disturbed => SetUp1 /\ SetUp2 /\ SetUp3 /\ SetUp4 /\ SetUp5 /\ PanicInv

PInv == TypeInv /\ SInv /\ UInv

-----------------------------------------------------------------------------
(***************************************************************************)
(* Bytes and sequences of bytes.                                           *)
(***************************************************************************)
LEMMA Answers ==
  /\ xAA \in Byte /\ xFA \in Byte /\ xFC \in Byte /\ x55 \in Byte /\ x00 \in Byte /\ {0} \in Byte
  /\ Plain(xFC) /\ Plain(x55) /\ Plain(x00) /\ Plain({0}) /\ ~ Plain(xAA) /\ ~ Plain(xFA)
  /\ xAA # xFA
  BY DEF Byte, Plain, xAA, xFA, xFC, x55, x00

\* No step of init and no command changes bits 2, 3 and 7.
LEMMA PlainKept ==
  ASSUME NEW c \in Byte, Plain(c),
         NEW d \in SUBSET {0, 1, 4, 5, 6}
  PROVE  c \ d \in Byte /\ Plain(c \ d) /\ c \union d \in Byte /\ Plain(c \union d)
  BY DEF Byte, Plain

LEMMA PlainReset == {4, 5, 6} \in Byte /\ Plain({4, 5, 6})
  BY DEF Byte, Plain

LEMMA AddOne ==
  ASSUME NEW s \in Seq(Byte), NEW byte \in Byte
  PROVE  /\ s \o <<byte>> \in Seq(Byte)
         /\ DOMAIN (s \o <<byte>>) = 1 .. Len(s) + 1 /\ DOMAIN s = 1 .. Len(s)
         /\ Len(s) \in Nat
         /\ \A m \in DOMAIN s : (s \o <<byte>>)[m] = s[m]
         /\ (s \o <<byte>>)[Len(s) + 1] = byte
  OBVIOUS

LEMMA TakeOne ==
  ASSUME NEW s \in Seq(Byte), s # << >>
  PROVE  /\ Head(s) \in Byte /\ Head(s) = s[1] /\ 1 \in DOMAIN s
         /\ Tail(s) \in Seq(Byte)
         /\ \A m \in DOMAIN Tail(s) : m + 1 \in DOMAIN s /\ m + 1 # 1 /\ Tail(s)[m] = s[m + 1]
  OBVIOUS

(***************************************************************************)
(* The bytes that wait: the invariant SInv, action by action.              *)
(***************************************************************************)
LEMMA SInit == ArgumentsOK /\ Init => SInv
<1> SUFFICES ASSUME ArgumentsOK, Init PROVE SInv
  OBVIOUS
<1>1. ByteInv
  <2>1. out \in Seq(Byte)
    <3>1. LeftOver \subseteq Byte
      BY DEF ArgumentsOK
    <3>2. out = << >> \/ \E byte \in LeftOver : out = <<byte>>
      BY DEF Init
    <3>3. CASE out = << >>
      BY <3>3
    <3>4. ASSUME NEW byte \in Byte, out = <<byte>> PROVE out \in Seq(Byte)
      BY <3>4
    <3> QED
      BY <3>1, <3>2, <3>3, <3>4
  <2>2. config \in Byte /\ ~ ({3, 7} \subseteq config)
    BY DEF Init, ArgumentsOK
  <2>3. config_byte = {}
    BY DEF Init
  <2>4. {} \in Byte /\ Plain({})
    BY DEF Byte, Plain
  <2> QED
    BY <2>1, <2>2, <2>3, <2>4 DEF ByteInv, Plain
<1>2. Early(pc) /\ pc \notin ResetKeyboard /\ pc \notin ResetMouse
  BY DEF Init, Early, ResetKeyboard, ResetMouse
<1>3. EarlyInv
  BY DEF Init, EarlyInv, NotFlushed
<1> QED
  BY <1>1, <1>2, <1>3 DEF SInv, KeyboardInv, MouseInv

LEMMA SCommand == SInv /\ WriteCommand => SInv'
<1> SUFFICES ASSUME SInv, WriteCommand PROVE SInv'
  OBVIOUS
<1>0. out' = out /\ target' = target /\ keyboard' = keyboard /\ mouse' = mouse /\ count' = 0
  BY DEF WriteCommand
<1>1. ByteInv'
  BY DEF WriteCommand, SInv, ByteInv, Plain
<1>2. CASE pc \notin {"mouse1", "mouse2"}
  <2>1. Early(pc) /\ Early(pc') /\ pc' # "reset_keyboard" /\ pc' # "disable1"
    BY <1>2 DEF WriteCommand, GoTo, CommandAt, AfterCommand, Early, ResetKeyboard, ResetMouse
  <2>2. input' \notin {"Reset", "EnableReporting"}
    BY DEF WriteCommand, CommandAt
  <2>3. NotFlushed => NotFlushed'
    BY <1>0, <1>2 DEF WriteCommand, GoTo, CommandAt, AfterCommand, NotFlushed
  <2>4. EarlyInv'
    BY <1>0, <2>1, <2>2, <2>3 DEF SInv, EarlyInv, Plain
  <2> QED
    BY <1>1, <2>1, <2>4 DEF SInv, KeyboardInv, MouseInv, Early
<1>3. CASE pc \in {"mouse1", "mouse2"}
  <2>1. /\ pc = "mouse1" => pc' = "reset_mouse" 
        /\ pc = "mouse2" => pc' = "report_mouse"
        /\ input' = "WriteSecondPort"
    BY <1>3 DEF WriteCommand, GoTo, CommandAt, AfterCommand
  <2>2. MouseInv'
    BY <1>0, <1>3, <2>1 DEF SInv, KeyboardInv, MouseInv, ResetKeyboard, ResetMouse, Has
  <2> QED
    BY <1>1, <1>3, <2>1, <2>2 DEF SInv, EarlyInv, KeyboardInv, Early, ResetKeyboard, ResetMouse
<1> QED
  BY <1>2, <1>3

LEMMA SData == SInv /\ WriteData => SInv'
<1> SUFFICES ASSUME SInv, WriteData PROVE SInv'
  OBVIOUS
<1>0. /\ out' = out /\ target' = target /\ keyboard' = keyboard /\ mouse' = mouse /\ count' = count
      /\ input = "empty"
  BY DEF WriteData, driver
<1>1. ByteInv'
  BY DEF WriteData, SInv, ByteInv, Plain, driver
<1>2. CASE pc \in {"write1_data", "write2_data", "write3_data", "write4_data"}
  <2>1. /\ Early(pc) /\ Early(pc') /\ pc' \notin {"disable1", "disable2"} /\ ~ NotFlushed
        /\ input' = "config"
    BY <1>2 DEF WriteData, GoTo, DataAt, AfterData, Early, ResetKeyboard, ResetMouse, NotFlushed
  <2>2. EarlyInv'
    BY <1>0, <2>1 DEF SInv, EarlyInv, Plain
  <2> QED
    BY <1>1, <2>1, <2>2 DEF SInv, KeyboardInv, MouseInv, Early
<1>3. CASE pc = "reset_keyboard"
  <2>1. Early(pc) /\ ~ NotFlushed /\ pc' = "keyboard_ack" /\ input' = "Reset"
    BY <1>3 DEF WriteData, GoTo, DataAt, AfterData, Early, ResetKeyboard, ResetMouse, NotFlushed
  <2>2. /\ keyboard = "on" /\ mouse = "on" /\ target = "keyboard"
        /\ \A m \in DOMAIN out : Plain(out[m])
    BY <1>0, <1>3, <2>1 DEF SInv, EarlyInv
  <2>3. ~ Has(xAA) /\ ~ Has(xFA)
    BY <2>2, Answers DEF Has
  <2>4. KeyboardInv'
    BY <1>0, <2>1, <2>2, <2>3 DEF KeyboardInv, Has
  <2> QED
    BY <1>1, <2>1, <2>4 DEF SInv, EarlyInv, MouseInv, Early, ResetKeyboard, ResetMouse
<1>4. CASE pc \in {"reset_mouse", "report_mouse"}
  <2>1. /\ pc = "reset_mouse" => pc' = "mouse_ack" /\ input' = "Reset"
        /\ pc = "report_mouse" => pc' = "report_ack" /\ input' = "EnableReporting"
    BY <1>4 DEF WriteData, GoTo, DataAt, AfterData
  <2>2. MouseInv'
    BY <1>0, <1>4, <2>1 DEF SInv, MouseInv, ResetMouse, Has
  <2> QED
    BY <1>1, <1>4, <2>1, <2>2 DEF SInv, EarlyInv, KeyboardInv, Early, ResetKeyboard, ResetMouse
<1> QED
  BY <1>2, <1>3, <1>4 DEF WriteData, DataAt

LEMMA SPanicked ==
  ASSUME SInv, pc' = "panicked", ByteInv'
  PROVE  SInv'
  BY DEF SInv, EarlyInv, KeyboardInv, MouseInv, Early, ResetKeyboard, ResetMouse

LEMMA SFlush == ArgumentsOK /\ SInv /\ (FlushByte \/ FlushEnds) => SInv'
<1> SUFFICES ASSUME ArgumentsOK, SInv, FlushByte \/ FlushEnds PROVE SInv'
  OBVIOUS
<1>0. /\ target' = target /\ keyboard' = keyboard /\ mouse' = mouse /\ input' = input
      /\ config' = config /\ config_byte' = config_byte
      /\ pc = "flush"
  BY DEF FlushByte, FlushEnds, driver, hardware
<1>01. Early(pc)
  BY <1>0 DEF Early, ResetKeyboard, ResetMouse
<1>1. CASE FlushByte
  <2>1. out' = Tail(out) /\ count' = count + 1 /\ pc' = "flush" /\ out # << >>
    BY <1>0, <1>1 DEF FlushByte
  <2>2. out \in Seq(Byte)
    BY DEF SInv, ByteInv
  <2>3. \A m \in DOMAIN out' : Plain(out'[m])
    BY <1>0, <1>01, <2>1, <2>2, TakeOne DEF SInv, EarlyInv
  <2>4. ByteInv'
    BY <1>0, <2>1, <2>2, TakeOne DEF SInv, ByteInv, Plain
  <2> QED
    BY <1>0, <1>01, <2>1, <2>3, <2>4 DEF SInv, EarlyInv, KeyboardInv, MouseInv, Early, Plain
<1>2. CASE FlushEnds
  <2>1. out' = out /\ count' = count /\ pc' = "read1" /\ (out = << >> \/ count >= loop_timeout)
    BY <1>2 DEF FlushEnds, GoTo, driver, hardware
  <2>2. Early(pc')
    BY <2>1 DEF Early, ResetKeyboard, ResetMouse
  <2>3. \A m \in DOMAIN out : Plain(out[m])
    <3>1. CASE out = << >>
      BY <3>1
    <3>2. CASE count >= loop_timeout
      BY <1>0, <1>01, <3>2 DEF SInv, EarlyInv, NotFlushed, ArgumentsOK
    <3> QED
      BY <2>1, <3>1, <3>2
  <2>4. ByteInv'
    BY <1>0, <2>1 DEF SInv, ByteInv, Plain
  <2> QED
    BY <1>0, <1>01, <2>1, <2>2, <2>3, <2>4 DEF SInv, EarlyInv, KeyboardInv, MouseInv, Early, Plain
<1> QED
  BY <1>1, <1>2

LEMMA STimesOut == SInv /\ WriteTimesOut => SInv'
  BY SPanicked DEF WriteTimesOut, GoTo, driver, hardware, SInv, ByteInv, Plain

\* Reading a byte: what waits after it.
LEMMA HasTail ==
  ASSUME out \in Seq(Byte), out # << >>, out' = Tail(out), NEW byte
  PROVE  /\ Has(byte)' => Has(byte)
         /\ Head(out) = byte => Has(byte)
  BY TakeOne DEF Has

LEMMA SReadEarly == SInv /\ ReadData /\ Early(pc) => SInv'
<1> SUFFICES ASSUME SInv, ReadData, Early(pc) PROVE SInv'
  OBVIOUS
<1> DEFINE byte == Head(out)
<1>0. /\ target' = target /\ keyboard' = keyboard /\ mouse' = mouse /\ input' = input
      /\ config' = config /\ count' = count /\ out' = Tail(out) /\ out # << >>
  BY DEF ReadData
<1>1. /\ out \in Seq(Byte) /\ config \in Byte /\ Plain(config)
      /\ config_byte \in Byte /\ Plain(config_byte)
  BY DEF SInv, ByteInv
<1>2. ~ NotFlushed
  BY DEF ReadData, Reads, NotFlushed
<1>3. \A m \in DOMAIN out : Plain(out[m])
  BY <1>2 DEF SInv, EarlyInv
<1>4. byte \in Byte /\ Plain(byte) /\ \A m \in DOMAIN out' : Plain(out'[m])
  BY <1>0, <1>1, <1>3, TakeOne
<1>5. OnByte(byte)
  BY DEF ReadData
<1> HIDE DEF byte
<1>6. config_byte' \in Byte /\ Plain(config_byte)'
  <2>1. \/ config_byte' = config_byte
        \/ \E d \in SUBSET {0, 1, 4, 5, 6} : config_byte' = byte \ d \/ config_byte' = byte \union d
    <3>1. CASE pc = "read1_data" /\ Step5(byte)
      BY <3>1 DEF Step5
    <3>2. CASE pc = "test_data" /\ TestController(byte)
      BY <3>2 DEF TestController
    <3>3. CASE pc = "read2_data" /\ Step7(byte)
      BY <3>3 DEF Step7
    <3>4. CASE pc = "test1_data" /\ Step8First(byte = x00)
      BY <3>4 DEF Step8First
    <3>5. CASE pc = "test2_data" /\ Step8Second(byte = x00)
      BY <3>5 DEF Step8Second
    <3>6. CASE pc = "read3_data" /\ Step9(byte)
      <4> DEFINE d == (IF first_port_works THEN {0} ELSE {})
                        \union (IF second_port_works THEN {1} ELSE {})
      <4>1. config_byte' = byte \union d /\ d \in SUBSET {0, 1, 4, 5, 6}
        BY <3>6 DEF Step9
      <4> QED
        BY <4>1
    <3>7. CASE Step10(byte)
      BY <3>7 DEF Step10
    <3> QED
      BY <1>5, <3>1, <3>2, <3>3, <3>4, <3>5, <3>6, <3>7 DEF OnByte
  <2>2. ASSUME NEW d \in SUBSET {0, 1, 4, 5, 6}
        PROVE  /\ byte \ d \in Byte /\ Plain(byte \ d)
               /\ byte \union d \in Byte /\ Plain(byte \union d)
    BY <1>4, PlainKept
  <2>3. CASE config_byte' = config_byte
    BY <1>1, <2>3 DEF Plain
  <2>4. ASSUME NEW d \in SUBSET {0, 1, 4, 5, 6},
               config_byte' = byte \ d \/ config_byte' = byte \union d
        PROVE  config_byte' \in Byte /\ Plain(config_byte)'
    <3>1. config_byte' \in Byte /\ Plain(config_byte')
      BY <2>2, <2>4
    <3> QED
      BY <3>1 DEF Plain
  <2> QED
    BY <2>1, <2>3, <2>4
<1>7. ByteInv'
  BY <1>0, <1>1, <1>6, TakeOne DEF ByteInv, Plain
<1>8. pc' \in {"write1", "write2", "disable3", "test1", "test2", "read3", "enable1", "second",
               "panicked"}
  BY <1>5 DEF OnByte, Early, ResetKeyboard, ResetMouse, Step5, TestController, Step7, Step8First,
              Step8Second, Step9, Step10, AfterTest1, Answer, GoTo
<1>9. EarlyInv'
  BY <1>0, <1>4, <1>8 DEF SInv, EarlyInv, Plain
<1> QED
  BY <1>7, <1>8, <1>9 DEF SInv, KeyboardInv, MouseInv, ResetKeyboard, ResetMouse

\* The keyboard's result is read only once it was sent; it is not read twice.
LEMMA SReadKeyboard == SInv /\ ReadData /\ pc \in ResetKeyboard => SInv'
<1> SUFFICES ASSUME SInv, ReadData, pc \in ResetKeyboard PROVE SInv'
  OBVIOUS
<1> DEFINE byte == Head(out)
<1>0. /\ target' = target /\ keyboard' = keyboard /\ mouse' = mouse /\ input' = input
      /\ config' = config /\ count' = count /\ out' = Tail(out) /\ out # << >>
      /\ pc \in {"keyboard_ack", "keyboard_test"}
  BY DEF ReadData, Reads, ResetKeyboard
<1>1. Step10(byte)
  BY <1>0 DEF ReadData, OnByte
<1>2. ByteInv'
  BY <1>0, <1>1, TakeOne DEF SInv, ByteInv, Plain, Step10
<1>3. /\ pc = "keyboard_ack" => (byte = xFA /\ pc' = "keyboard_test") \/ pc' = "panicked"
      /\ pc = "keyboard_test" => (byte = xAA /\ pc' = "mouse1") \/ pc' = "panicked"
  BY <1>0, <1>1 DEF Step10, Answer, GoTo
<1>4. out \in Seq(Byte)
  BY DEF SInv, ByteInv
<1>5. /\ Has(xAA)' => Has(xAA)
      /\ byte = xAA => Has(xAA)
      /\ byte = xFA => Has(xFA)
  BY <1>0, <1>4, HasTail
<1>6. \A m, l \in DOMAIN out' : out'[m] = xAA /\ out'[l] = xAA => m = l
  <2> SUFFICES ASSUME NEW m \in DOMAIN out', NEW l \in DOMAIN out', out'[m] = xAA, out'[l] = xAA
               PROVE  m = l
    OBVIOUS
  <2>1. /\ m + 1 \in DOMAIN out /\ l + 1 \in DOMAIN out
        /\ out[m + 1] = xAA /\ out[l + 1] = xAA /\ m \in Nat /\ l \in Nat
    BY <1>0, <1>4, TakeOne
  <2>2. m + 1 = l + 1
    BY <2>1 DEF SInv, KeyboardInv
  <2> QED
    BY <2>1, <2>2
<1>7. byte = xAA => ~ Has(xAA)'
  <2> SUFFICES ASSUME byte = xAA, NEW m \in DOMAIN out', out'[m] = xAA PROVE FALSE
    BY DEF Has
  <2>1. m + 1 \in DOMAIN out /\ m + 1 # 1 /\ out[m + 1] = xAA /\ 1 \in DOMAIN out /\ out[1] = xAA
    BY <1>0, <1>4, TakeOne
  <2> QED
    BY <2>1 DEF SInv, KeyboardInv
<1> HIDE DEF byte
<1>8. CASE pc' = "panicked"
  BY <1>2, <1>8, SPanicked
<1>9. CASE pc' \in {"keyboard_test", "mouse1"}
  <2>1. /\ pc \in ResetKeyboard /\ mouse = "on" /\ input = "empty"
        /\ keyboard \in {"testing", "passed", "failed"}
    BY <1>0, <1>3, <1>5, <1>9 DEF SInv, KeyboardInv
  <2>2. KeyboardInv'
    BY <1>0, <1>3, <1>5, <1>6, <1>7, <1>9, <2>1 DEF SInv, KeyboardInv
  <2> QED
    BY <1>2, <1>9, <2>2 DEF SInv, EarlyInv, MouseInv, Early, ResetKeyboard, ResetMouse
<1> QED
  BY <1>0, <1>3, <1>8, <1>9

LEMMA SReadMouse == SInv /\ ReadData /\ pc \in ResetMouse => SInv'
<1> SUFFICES ASSUME SInv, ReadData, pc \in ResetMouse PROVE SInv'
  OBVIOUS
<1> DEFINE byte == Head(out)
<1>0. /\ target' = target /\ keyboard' = keyboard /\ mouse' = mouse /\ input' = input
      /\ config' = config /\ count' = count /\ out' = Tail(out) /\ out # << >>
      /\ pc \in {"mouse_ack", "mouse_test", "mouse_id", "report_ack"}
  BY DEF ReadData, Reads, ResetMouse
<1>1. Step10(byte)
  BY <1>0 DEF ReadData, OnByte
<1>2. ByteInv'
  BY <1>0, <1>1, TakeOne DEF SInv, ByteInv, Plain, Step10
<1>3. /\ pc = "mouse_ack" => pc' \in {"mouse_test", "panicked"}
      /\ pc = "mouse_test" => (byte = xAA /\ pc' = "mouse_id") \/ pc' = "panicked"
      /\ pc = "mouse_id" => pc' \in {"mouse2", "done"}
      /\ pc = "report_ack" => pc' \in {"done", "panicked"}
  BY <1>0, <1>1 DEF Step10, Answer, GoTo
<1>4. out \in Seq(Byte)
  BY DEF SInv, ByteInv
<1>5. /\ Has(xAA)' => Has(xAA)
      /\ byte = xAA => Has(xAA)
  BY <1>0, <1>4, HasTail
<1> HIDE DEF byte
<1>6. CASE pc' = "panicked"
  BY <1>2, <1>6, SPanicked
<1>7. CASE pc' # "panicked"
  <2>1. MouseInv'
    BY <1>0, <1>3, <1>5, <1>7 DEF SInv, MouseInv, ResetMouse
  <2> QED
    BY <1>0, <1>2, <1>3, <1>7, <2>1 DEF SInv, EarlyInv, KeyboardInv, Early, ResetKeyboard,
                                        ResetMouse
<1> QED
  BY <1>6, <1>7

LEMMA SReadTimesOut == SInv /\ ReadTimesOut => SInv'
<1> SUFFICES ASSUME SInv, ReadTimesOut PROVE SInv'
  OBVIOUS
<1>0. /\ target' = target /\ keyboard' = keyboard /\ mouse' = mouse /\ input' = input
      /\ config' = config /\ count' = count /\ out' = out /\ out = << >>
      /\ config_byte' = config_byte
  BY DEF ReadTimesOut, hardware, Step8First, Step8Second, GoTo
<1>1. ByteInv'
  BY <1>0 DEF SInv, ByteInv, Plain
<1>2. pc' = "panicked" \/ (pc \in {"test1_data", "test2_data"} /\ pc' \in {"test2", "read3"})
  BY DEF ReadTimesOut, Step8First, Step8Second, AfterTest1, GoTo
<1>3. CASE pc' = "panicked"
  BY <1>1, <1>3, SPanicked
<1>4. CASE pc' # "panicked"
  <2>1. EarlyInv'
    BY <1>0, <1>2, <1>4 DEF SInv, EarlyInv, Early, ResetKeyboard, ResetMouse
  <2> QED
    BY <1>1, <1>2, <1>4, <2>1 DEF SInv, KeyboardInv, MouseInv, ResetKeyboard, ResetMouse
<1> QED
  BY <1>3, <1>4

LEMMA SSecondPort == SInv /\ SecondPort => SInv'
<1> SUFFICES ASSUME SInv, SecondPort PROVE SInv'
  OBVIOUS
<1>0. /\ target' = target /\ keyboard' = keyboard /\ mouse' = mouse /\ input' = input
      /\ config' = config /\ count' = count /\ out' = out /\ config_byte' = config_byte
      /\ pc = "second" /\ pc' \in {"enable2", "write4"}
  BY DEF SecondPort, hardware, driver, GoTo
<1>1. ByteInv'
  BY <1>0 DEF SInv, ByteInv, Plain
<1>2. EarlyInv'
  BY <1>0 DEF SInv, EarlyInv, Early, ResetKeyboard, ResetMouse, Plain, NotFlushed
<1> QED
  BY <1>0, <1>1, <1>2 DEF SInv, KeyboardInv, MouseInv, ResetKeyboard, ResetMouse

\* Sending a byte: what waits after it.
LEMMA HasAdded ==
  ASSUME out \in Seq(Byte), NEW byte \in Byte, out' = out \o <<byte>>
  PROVE  /\ out' \in Seq(Byte)
         /\ \A other : Has(other)' <=> Has(other) \/ other = byte
         /\ \A m \in DOMAIN out' : (m \in DOMAIN out /\ out'[m] = out[m]) \/ out'[m] = byte
<1>1. /\ out' \in Seq(Byte) /\ DOMAIN out = 1 .. Len(out) /\ DOMAIN out' = 1 .. Len(out) + 1
      /\ Len(out) \in Nat /\ out'[Len(out) + 1] = byte
      /\ \A m \in DOMAIN out : out'[m] = out[m]
  BY AddOne
<1>2. \A m \in DOMAIN out' : (m \in DOMAIN out /\ out'[m] = out[m]) \/ out'[m] = byte
  BY <1>1
<1>3. DOMAIN out \subseteq DOMAIN out' /\ Len(out) + 1 \in DOMAIN out'
  BY <1>1
<1>4. ASSUME NEW other PROVE Has(other)' <=> Has(other) \/ other = byte
  BY <1>1, <1>2, <1>3 DEF Has
<1> QED
  BY <1>1, <1>2, <1>4

LEMMA OnceAdded ==
  ASSUME out \in Seq(Byte), NEW byte \in Byte, out' = out \o <<byte>>,
         \A m, l \in DOMAIN out : out[m] = xAA /\ out[l] = xAA => m = l,
         byte = xAA => ~ Has(xAA)
  PROVE  \A m, l \in DOMAIN out' : out'[m] = xAA /\ out'[l] = xAA => m = l
  BY AddOne DEF Has

LEMMA EarlyAdded ==
  ASSUME SInv, NEW byte \in Byte, out' = out \o <<byte>>, Plain(byte), pc' = pc, count' = count,
         keyboard' = keyboard, mouse' = mouse, Early(pc),
         pc = "reset_keyboard" => input' = input /\ target' = target,
         input' \notin {"Reset", "EnableReporting"},
         config' \in Byte, Plain(config'), config_byte' = config_byte
  PROVE  SInv'
<1>0. out \in Seq(Byte)
  BY DEF SInv, ByteInv
<1>1. ByteInv'
  BY <1>0, HasAdded DEF SInv, ByteInv, Plain
<1>2. \A m \in DOMAIN out' : Plain(out'[m]) \/ (m = 1 /\ NotFlushed)
  BY <1>0, HasAdded DEF SInv, EarlyInv
<1>3. EarlyInv'
  BY <1>2 DEF SInv, EarlyInv, Early, Plain, NotFlushed
<1> QED
  BY <1>1, <1>3 DEF SInv, KeyboardInv, MouseInv, Early

\* A command the controller executes: at most one byte, which is plain.
LEMMA Executed ==
  ASSUME ByteInv, Execute(input)
  PROVE  /\ config' \in Byte /\ Plain(config')
         /\ \/ out' = out
            \/ \E byte \in Byte : Plain(byte) /\ out' = out \o <<byte>>
         /\ input = "WriteSecondPort" => target' = "mouse" /\ out' = out
<1>1. config \in Byte /\ Plain(config)
  BY DEF ByteInv
<1>2. \/ config' = config
      \/ config' = {4, 5, 6}
      \/ \E d \in SUBSET {0, 1, 4, 5, 6} : config' = config \ d \/ config' = config \union d
  BY DEF Execute
<1>3. config' \in Byte /\ Plain(config')
  <2>1. ASSUME NEW d \in SUBSET {0, 1, 4, 5, 6},
               config' = config \ d \/ config' = config \union d
        PROVE  config' \in Byte /\ Plain(config')
    <3>1. /\ config \ d \in Byte /\ Plain(config \ d)
          /\ config \union d \in Byte /\ Plain(config \union d)
      BY <1>1, PlainKept
    <3> QED
      BY <2>1, <3>1
  <2> QED
    BY <1>1, <1>2, <2>1, PlainReset
<1>4. out' = out \/ \E byte \in Byte : Plain(byte) /\ out' = out \o <<byte>>
  <2>1. out' = out \/ \E byte \in {config, x55, xFC, x00, {0}} : out' = out \o <<byte>>
    BY DEF Execute, Reply
  <2> QED
    BY <1>1, <2>1, Answers
<1> QED
  BY <1>3, <1>4 DEF Execute

LEMMA SCommandTaken == SInv /\ ControllerCommand => SInv'
<1> SUFFICES ASSUME SInv, ControllerCommand PROVE SInv'
  OBVIOUS
<1>0. /\ keyboard' = keyboard /\ mouse' = mouse /\ input' = "empty" /\ pc' = pc
      /\ count' = count /\ config_byte' = config_byte
  BY DEF ControllerCommand, driver
<1>1. input \notin {"Reset", "EnableReporting", "empty", "config"}
  BY DEF ControllerCommand, CommandAt
<1>2. ByteInv /\ Execute(input)
  BY DEF SInv, ControllerCommand
<1>3. PICK bytes \in {out} \union {out \o <<byte>> : byte \in {b \in Byte : Plain(b)}} :
        out' = bytes
  BY <1>2, Executed
<1>4. config' \in Byte /\ Plain(config')
  BY <1>2, Executed
<1>5. input = "WriteSecondPort" => target' = "mouse" /\ out' = out
  BY <1>2, Executed
<1>6. CASE Early(pc)
  <2>1. pc # "reset_keyboard"
    BY <1>1, <1>6 DEF SInv, EarlyInv
  <2>2. CASE out' = out
    <3>1. ByteInv'
      BY <1>0, <1>4, <2>2 DEF SInv, ByteInv, Plain
    <3>2. EarlyInv'
      BY <1>0, <2>1, <2>2 DEF SInv, EarlyInv, Early, Plain, NotFlushed
    <3> QED
      BY <1>0, <1>6, <3>1, <3>2 DEF SInv, KeyboardInv, MouseInv, Early
  <2>3. CASE out' # out
    <3>1. PICK byte \in Byte : Plain(byte) /\ out' = out \o <<byte>>
      BY <1>3, <2>3
    <3> QED
      BY <1>0, <1>4, <1>6, <2>1, <3>1, EarlyAdded
  <2> QED
    BY <2>2, <2>3
<1>7. CASE pc \in ResetKeyboard
  BY <1>1, <1>7 DEF SInv, KeyboardInv
<1>8. CASE pc \in ResetMouse
  <2>1. pc \in {"reset_mouse", "report_mouse"} /\ input = "WriteSecondPort"
    BY <1>1, <1>8 DEF SInv, MouseInv, ResetMouse
  <2>2. ByteInv'
    BY <1>0, <1>4, <1>5, <2>1 DEF SInv, ByteInv, Plain
  <2>3. MouseInv'
    BY <1>0, <1>5, <2>1 DEF SInv, MouseInv, ResetMouse, Has
  <2> QED
    BY <1>0, <1>8, <2>1, <2>2, <2>3 DEF SInv, EarlyInv, KeyboardInv, Early, ResetKeyboard,
                                        ResetMouse
<1>9. CASE pc = "panicked"
  <2>1. out' \in Seq(Byte)
    <3>1. out \in Seq(Byte)
      BY DEF SInv, ByteInv
    <3> QED
      BY <1>3, <3>1, HasAdded
  <2>2. ByteInv'
    BY <1>0, <1>4, <2>1 DEF SInv, ByteInv, Plain
  <2> QED
    BY <1>0, <1>9, <2>2, SPanicked
<1> QED
  BY <1>6, <1>7, <1>8, <1>9 DEF Early

LEMMA SConfigTaken == SInv /\ ControllerConfig => SInv'
<1> SUFFICES ASSUME SInv, ControllerConfig PROVE SInv'
  OBVIOUS
<1>0. /\ keyboard' = keyboard /\ mouse' = mouse /\ input' = "empty" /\ pc' = pc /\ out' = out
      /\ count' = count /\ config_byte' = config_byte /\ input = "config" /\ target' = "keyboard"
      /\ config' = config_byte \/ config' = config_byte \union {5}
  BY DEF ControllerConfig, driver
<1>1. config_byte \in Byte /\ Plain(config_byte)
  BY DEF SInv, ByteInv
<1>2. config_byte \union {5} \in Byte /\ Plain(config_byte \union {5})
  BY <1>1, PlainKept
<1>3. ByteInv'
  BY <1>0, <1>1, <1>2 DEF SInv, ByteInv, Plain
<1>4. Early(pc) \/ pc = "panicked"
  BY <1>0 DEF SInv, KeyboardInv, MouseInv, Early, ResetMouse
<1>5. EarlyInv'
  BY <1>0 DEF SInv, EarlyInv, Early, Plain, NotFlushed
<1> QED
  BY <1>0, <1>3, <1>4, <1>5 DEF SInv, KeyboardInv, MouseInv, Early, ResetKeyboard, ResetMouse

LEMMA SKeyboardReset == SInv /\ KeyboardReset => SInv'
<1> SUFFICES ASSUME SInv, KeyboardReset PROVE SInv'
  OBVIOUS
<1>0. /\ mouse' = mouse /\ input = "Reset" /\ input' = "empty" /\ pc' = pc /\ keyboard' = "testing"
      /\ config' = config /\ config_byte' = config_byte /\ target = "keyboard"
      /\ out' = out \o <<xFA>>
  BY DEF KeyboardReset, driver, Reply
<1>1. out \in Seq(Byte) /\ xFA \in Byte /\ xAA # xFA
  BY Answers DEF SInv, ByteInv
<1>2. ByteInv'
  BY <1>0, <1>1, HasAdded DEF SInv, ByteInv, Plain
<1>3. CASE pc = "panicked"
  BY <1>0, <1>2, <1>3, SPanicked
<1>4. CASE pc # "panicked"
  <2>1. pc = "keyboard_ack" /\ keyboard = "on" /\ mouse = "on" /\ ~ Has(xAA)
    BY <1>0, <1>4 DEF SInv, EarlyInv, KeyboardInv, MouseInv, Early, ResetKeyboard, ResetMouse
  <2>2. ~ Has(xAA)'
    BY <1>0, <1>1, <2>1, HasAdded
  <2>3. KeyboardInv'
    BY <1>0, <2>1, <2>2 DEF KeyboardInv, Has
  <2> QED
    BY <1>0, <1>2, <2>1, <2>3 DEF SInv, EarlyInv, MouseInv, Early, ResetKeyboard, ResetMouse
<1> QED
  BY <1>3, <1>4

LEMMA SKeyboardTested == SInv /\ KeyboardTested => SInv'
<1> SUFFICES ASSUME SInv, KeyboardTested PROVE SInv'
  OBVIOUS
<1> DEFINE byte == IF machine.keyboard THEN xAA ELSE xFC
<1>0. /\ mouse' = mouse /\ input' = input /\ pc' = pc /\ keyboard = "testing" /\ target' = target
      /\ config' = config /\ config_byte' = config_byte
      /\ out' = out \o <<byte>>
      /\ (byte = xAA /\ keyboard' = "passed") \/ (byte = xFC /\ keyboard' = "failed")
  BY DEF KeyboardTested, driver, Reply
<1>1. out \in Seq(Byte) /\ byte \in Byte /\ xAA # xFC
  BY Answers DEF SInv, ByteInv
<1> HIDE DEF byte
<1>2. ByteInv'
  BY <1>0, <1>1, HasAdded DEF SInv, ByteInv, Plain
<1>3. CASE pc = "panicked"
  BY <1>0, <1>2, <1>3, SPanicked
<1>4. CASE pc # "panicked"
  <2>1. /\ pc \in ResetKeyboard /\ pc # "mouse1" /\ input = "empty" /\ mouse = "on" /\ ~ Has(xAA)
        /\ \A m, l \in DOMAIN out : out[m] = xAA /\ out[l] = xAA => m = l
    BY <1>0, <1>4 DEF SInv, EarlyInv, KeyboardInv, MouseInv, Early
  <2>2. Has(xAA)' => keyboard' = "passed"
    BY <1>0, <1>1, <2>1, HasAdded
  <2>3. \A m, l \in DOMAIN out' : out'[m] = xAA /\ out'[l] = xAA => m = l
    BY <1>0, <1>1, <2>1, OnceAdded
  <2>4. KeyboardInv'
    BY <1>0, <2>1, <2>2, <2>3 DEF KeyboardInv
  <2> QED
    BY <1>0, <1>2, <2>1, <2>4 DEF SInv, EarlyInv, MouseInv, Early, ResetKeyboard, ResetMouse
<1> QED
  BY <1>3, <1>4

LEMMA SMouseData == SInv /\ MouseData => SInv'
<1> SUFFICES ASSUME SInv, MouseData PROVE SInv'
  OBVIOUS
<1>0. /\ input \in {"Reset", "EnableReporting"} /\ input' = "empty" /\ pc' = pc /\ target = "mouse"
      /\ config' = config /\ config_byte' = config_byte /\ keyboard' = keyboard
  BY DEF MouseData, driver
<1>1. \/ out' = out /\ mouse' = mouse
      \/ /\ out' = out \o <<xFA>>
         /\ \/ input = "Reset" /\ mouse' = "testing"
            \/ input = "EnableReporting" /\ mouse' = "reporting"
  BY DEF MouseData, Reply
<1>2. out \in Seq(Byte) /\ xFA \in Byte /\ xAA # xFA
  BY Answers DEF SInv, ByteInv
<1>3. out' \in Seq(Byte) /\ (Has(xAA)' <=> Has(xAA))
  <2>1. CASE out' = out
    BY <1>2, <2>1 DEF Has
  <2>2. CASE out' = out \o <<xFA>>
    BY <1>2, <2>2, HasAdded
  <2> QED
    BY <1>1, <2>1, <2>2
<1>4. ByteInv'
  BY <1>0, <1>3 DEF SInv, ByteInv, Plain
<1>5. CASE pc = "panicked"
  BY <1>0, <1>4, <1>5, SPanicked
<1>6. CASE pc # "panicked"
  <2>1. /\ pc \in ResetMouse
        /\ \/ pc \in {"mouse_ack", "mouse_test"} /\ input = "Reset" /\ mouse = "on"
           \/ pc \in {"report_ack", "done"} /\ input = "EnableReporting"
    BY <1>0, <1>6 DEF SInv, EarlyInv, KeyboardInv, MouseInv, Early, ResetMouse
  <2>2. MouseInv'
    BY <1>0, <1>1, <1>3, <2>1 DEF SInv, MouseInv, ResetMouse
  <2> QED
    BY <1>0, <1>4, <2>1, <2>2 DEF SInv, EarlyInv, KeyboardInv, Early, ResetKeyboard, ResetMouse
<1> QED
  BY <1>5, <1>6

LEMMA SMouseTested == SInv /\ MouseTested => SInv'
<1> SUFFICES ASSUME SInv, MouseTested PROVE SInv'
  OBVIOUS
<1>0. /\ input' = input /\ pc' = pc /\ mouse = "testing" /\ target' = target
      /\ config' = config /\ config_byte' = config_byte /\ keyboard' = keyboard
      /\ \/ out' = out \o <<xAA, x00>> /\ mouse' = "passed"
         \/ out' = out \o <<xFC>> /\ mouse' = "failed"
  BY DEF MouseTested, driver, Reply
<1>1. out \in Seq(Byte) /\ xFC \in Byte /\ xAA \in Byte /\ x00 \in Byte /\ xAA # xFC
  BY Answers DEF SInv, ByteInv
<1>2. out' \in Seq(Byte)
  <2>1. <<xAA, x00>> \in Seq(Byte) /\ <<xFC>> \in Seq(Byte)
    BY <1>1
  <2> QED
    BY <1>0, <1>1, <2>1, ConcatProperties
<1>3. out' = out \o <<xFC>> => (Has(xAA)' <=> Has(xAA))
  BY <1>1, HasAdded
<1>4. ByteInv'
  BY <1>0, <1>2 DEF SInv, ByteInv, Plain
<1>5. CASE pc = "panicked"
  BY <1>0, <1>4, <1>5, SPanicked
<1>6. CASE pc # "panicked"
  <2>1. /\ pc \in {"mouse_ack", "mouse_test"} /\ input = "empty"
        /\ ~ Has(xAA) /\ keyboard = "passed"
    BY <1>0, <1>6 DEF SInv, EarlyInv, KeyboardInv, MouseInv, Early, ResetMouse
  <2>2. MouseInv'
    BY <1>0, <1>3, <2>1 DEF MouseInv
  <2> QED
    BY <1>0, <1>4, <2>1, <2>2 DEF SInv, EarlyInv, KeyboardInv, Early, ResetKeyboard, ResetMouse
<1> QED
  BY <1>5, <1>6

LEMMA SKeyPressed == ArgumentsOK /\ SInv /\ KeyPressed => SInv'
<1> SUFFICES ASSUME ArgumentsOK, SInv, KeyPressed PROVE SInv'
  OBVIOUS
<1>0. /\ input' = input /\ pc' = pc /\ mouse' = mouse /\ target' = target /\ count' = count
      /\ config' = config /\ config_byte' = config_byte /\ keyboard' = keyboard /\ pc # "panicked"
  BY DEF KeyPressed, driver
<1>1. PICK code \in Scancodes : out' = out \o <<code>>
  BY DEF KeyPressed, Reply
<1>2. code \in Byte /\ Plain(code) /\ code # xAA /\ code # xFA
  BY DEF ArgumentsOK, Plain, xAA, xFA
<1>3. out \in Seq(Byte) /\ config \in Byte /\ Plain(config)
  BY DEF SInv, ByteInv
<1>4. (Has(xAA)' <=> Has(xAA)) /\ (Has(xFA)' <=> Has(xFA)) /\ out' \in Seq(Byte)
  BY <1>1, <1>2, <1>3, HasAdded
<1>5. ByteInv'
  BY <1>0, <1>4 DEF SInv, ByteInv, Plain
<1>6. CASE Early(pc)
  BY <1>0, <1>1, <1>2, <1>3, <1>6, EarlyAdded DEF SInv, EarlyInv
<1>7. CASE pc \in ResetKeyboard
  <2>1. \A m, l \in DOMAIN out : out[m] = xAA /\ out[l] = xAA => m = l
    BY <1>7 DEF SInv, KeyboardInv
  <2>2. \A m, l \in DOMAIN out' : out'[m] = xAA /\ out'[l] = xAA => m = l
    BY <1>1, <1>2, <1>3, <2>1, OnceAdded
  <2>3. KeyboardInv'
    BY <1>0, <1>4, <1>7, <2>2 DEF SInv, KeyboardInv
  <2> QED
    BY <1>0, <1>5, <1>7, <2>3 DEF SInv, EarlyInv, MouseInv, Early, ResetKeyboard, ResetMouse
<1>8. CASE pc \in ResetMouse
  <2>1. MouseInv'
    BY <1>0, <1>4, <1>8 DEF SInv, MouseInv
  <2> QED
    BY <1>0, <1>5, <1>8, <2>1 DEF SInv, EarlyInv, KeyboardInv, Early, ResetKeyboard, ResetMouse
<1> QED
  BY <1>0, <1>6, <1>7, <1>8 DEF Early

LEMMA SUnchanged == SInv /\ UNCHANGED vars => SInv'
  BY DEF vars, driver, hardware, SInv, ByteInv, EarlyInv, KeyboardInv, MouseInv, Early, NotFlushed,
         Has, Plain

LEMMA SStep == ArgumentsOK /\ SInv /\ [Next]_vars => SInv'
  BY SCommand, SData, STimesOut, SFlush, SReadEarly, SReadKeyboard, SReadMouse, SReadTimesOut,
     SSecondPort, SCommandTaken, SConfigTaken, SKeyboardReset, SKeyboardTested, SMouseData,
     SMouseTested, SKeyPressed, SUnchanged
     DEF Next, DriverStep, HardwareStep, Over, Early, ReadData, Reads, ResetKeyboard, ResetMouse

(***************************************************************************)
(* Undisturbed, the driver and the hardware keep step: action by action.   *)
(***************************************************************************)
Undisturbed == SetUp1 /\ SetUp2 /\ SetUp3 /\ SetUp4 /\ SetUp5 /\ PanicInv

LEMMA ConfigKept ==
  ASSUME machine' = machine
  PROVE  /\ config' = config => /\ AtStep5(config)' <=> AtStep5(config)
                                /\ Probed(config)' <=> Probed(config)
                                /\ AtStep7(config)' <=> AtStep7(config)
                                /\ AtStep9(config)' <=> AtStep9(config)
         /\ config_byte' = config_byte => /\ AtStep5(config_byte)' <=> AtStep5(config_byte)
                                          /\ AtStep7(config_byte)' <=> AtStep7(config_byte)
                                          /\ AtStep9(config_byte)' <=> AtStep9(config_byte)
         /\ UNCHANGED ports => (PortsTested' <=> PortsTested)
         /\ PanicInv /\ pc' # "panicked" => PanicInv'
  BY DEF AtStep5, Probed, AtStep7, AtStep9, PortsTested, ports, PanicInv

LEMMA UCommand ==
  ASSUME TypeInv, SInv, Undisturbed, WriteCommand, ~ disturbed'
  PROVE  Undisturbed'
<1>0. /\ out' = out /\ target' = target /\ keyboard' = keyboard /\ mouse' = mouse /\ count' = 0
      /\ machine' = machine /\ config' = config /\ config_byte' = config_byte /\ UNCHANGED ports
      /\ has_second_port' = has_second_port /\ first_port_works' = first_port_works
  BY DEF WriteCommand, ports
<1>1. input = "empty" /\ pc \in DOMAIN CommandAt /\ input' = CommandAt[pc] /\ pc' = AfterCommand[pc]
  BY DEF WriteCommand, GoTo
<1>2. pc' # "panicked"
  BY <1>1 DEF CommandAt, AfterCommand
<1>3. out \in Seq(Byte) /\ count \in Nat
  BY DEF SInv, ByteInv, TypeInv
<1>4. Len(out) \in Nat
  BY <1>3
<1> USE <1>0, <1>1, <1>2, <1>3, <1>4, ConfigKept DEF Undisturbed
<1>5. SetUp1'
  BY DEF SetUp1, CommandAt, AfterCommand, Replies
<1>6. SetUp2'
  BY DEF SetUp1, SetUp2, CommandAt, AfterCommand, Replies
<1>7. SetUp3'
  BY DEF SetUp2, SetUp3, CommandAt, AfterCommand, Replies, Enabling
<1>8. SetUp4'
  BY DEF SetUp4, CommandAt, AfterCommand, ResetKeyboard, ResetMouse
<1>9. SetUp5'
  BY DEF SetUp4, SetUp5, CommandAt, AfterCommand
<1> QED
  BY <1>5, <1>6, <1>7, <1>8, <1>9

LEMMA UData ==
  ASSUME TypeInv, SInv, Undisturbed, WriteData
  PROVE  Undisturbed'
<1>0. /\ out' = out /\ target' = target /\ keyboard' = keyboard /\ mouse' = mouse
      /\ machine' = machine /\ config' = config /\ config_byte' = config_byte /\ UNCHANGED ports
      /\ has_second_port' = has_second_port
  BY DEF WriteData, driver, ports
<1>1. input = "empty" /\ pc \in DOMAIN DataAt /\ input' = DataAt[pc] /\ pc' = AfterData[pc]
  BY DEF WriteData, GoTo
<1>2. pc' # "panicked"
  BY <1>1 DEF DataAt, AfterData
<1>3. /\ pc = "reset_keyboard" => keyboard = "on"
      /\ pc = "reset_mouse" => mouse = "on"
  BY DEF SInv, EarlyInv, MouseInv, Early, ResetKeyboard, ResetMouse
<1>4. pc = "write3_data" => has_second_port = machine.second
  BY DEF Undisturbed, SetUp2, TypeInv, Machine
<1> USE <1>0, <1>1, <1>2, <1>3, <1>4, ConfigKept DEF Undisturbed
<1>5. SetUp1'
  BY DEF SetUp1, DataAt, AfterData
<1>6. SetUp2'
  BY DEF SetUp2, DataAt, AfterData
<1>7. SetUp3'
  BY DEF SetUp3, DataAt, AfterData, Enabling
<1>8. SetUp4'
  BY DEF SetUp3, SetUp4, DataAt, AfterData, ResetKeyboard, ResetMouse
<1>9. SetUp5'
  BY DEF SetUp5, DataAt, AfterData
<1> QED
  BY <1>5, <1>6, <1>7, <1>8, <1>9

LEMMA UFlush ==
  ASSUME TypeInv, SInv, Undisturbed, FlushByte \/ FlushEnds
  PROVE  Undisturbed'
<1>0. /\ input' = input /\ mouse' = mouse /\ machine' = machine /\ config' = config
      /\ pc = "flush" /\ pc' \in {"flush", "read1"}
  BY DEF FlushByte, FlushEnds, driver, hardware, GoTo
<1>1. out \in Seq(Byte) /\ count \in Nat /\ loop_timeout \in Nat \ {0}
  BY DEF SInv, ByteInv, TypeInv, ArgumentsOK
<1>2. 4 \in config /\ (input = "DisableSecondPort" \/ (input = "empty" /\ 5 \in config))
      /\ Len(out) + count <= 1
  BY <1>0 DEF Undisturbed, SetUp1
<1>3. Len(out') + count' <= 1 /\ (pc' = "read1" => out' = << >>)
  <2>1. CASE FlushByte
    <3>1. out # << >> /\ out' = Tail(out) /\ count' = count + 1 /\ pc' = "flush"
      BY <1>0, <2>1 DEF FlushByte
    <3>2. Len(out') = Len(out) - 1 /\ Len(out) \in Nat
      BY <1>1, <3>1
    <3> QED
      BY <1>1, <1>2, <3>1, <3>2
  <2>2. CASE FlushEnds
    <3>1. out' = out /\ count' = count /\ (out = << >> \/ count >= loop_timeout)
      BY <2>2 DEF FlushEnds, driver, hardware
    <3>2. count >= loop_timeout => Len(out) = 0
      BY <1>1, <1>2
    <3> QED
      BY <1>1, <1>2, <3>1, <3>2
  <2> QED
    BY <2>1, <2>2
<1>4. SetUp1'
  BY <1>0, <1>2, <1>3 DEF SetUp1
<1> QED
  BY <1>0, <1>4 DEF Undisturbed, SetUp2, SetUp3, SetUp4, SetUp5, PanicInv, Enabling, ResetKeyboard,
                    ResetMouse

LEMMA USecondPort ==
  ASSUME TypeInv, SInv, Undisturbed, SecondPort
  PROVE  Undisturbed'
<1>0. /\ out' = out /\ input' = input /\ mouse' = mouse /\ machine' = machine
      /\ config_byte' = config_byte /\ UNCHANGED ports
      /\ pc = "second" /\ pc' \in {"enable2", "write4"}
  BY DEF SecondPort, driver, hardware, GoTo, ports
<1>1. SetUp3'
  BY <1>0, ConfigKept DEF Undisturbed, SetUp3, Enabling
<1> QED
  BY <1>0, <1>1 DEF Undisturbed, SetUp1, SetUp2, SetUp4, SetUp5, PanicInv, ResetKeyboard, ResetMouse

LEMMA OneTaken == ASSUME NEW byte PROVE Head(<<byte>>) = byte /\ Tail(<<byte>>) = << >>
  OBVIOUS

LEMMA Broken ==
  ASSUME TypeInv, machine' = machine,
         ~ machine.second \/ ~ machine.controller \/ ~ machine.keyboard \/ ~ machine.mouse
  PROVE  PanicInv'
<1>1. DOMAIN machine = {"second", "controller", "port1", "port2", "keyboard", "mouse"}
  BY DEF TypeInv, Machine
<1> QED
  BY <1>1 DEF PanicInv

\* Reading: the labels before the devices.
LEMMA UReadEarly ==
  ASSUME TypeInv, SInv, Undisturbed, ReadData, Early(pc)
  PROVE  Undisturbed'
<1>0. /\ input' = input /\ mouse' = mouse /\ machine' = machine /\ config' = config
      /\ pc \in Reads /\ OnByte(Head(out)) /\ out' = Tail(out) /\ out # << >>
  BY DEF ReadData
<1>1. pc \in {"read1_data", "test_data", "read2_data", "test1_data", "test2_data", "read3_data"}
  BY <1>0 DEF Early, Reads, ResetKeyboard, ResetMouse
<1>2. mouse = "on"
  BY DEF SInv, EarlyInv
<1>a. CASE pc = "read1_data"
  <2>1. out = <<config>> /\ input = "empty" /\ {4, 5} \subseteq config
    BY <1>0, <1>a DEF Undisturbed, SetUp1, Replies
  <2>2. out' = << >> /\ pc' = "write1" /\ config_byte' = config \ {0, 4, 6}
    BY <1>0, <1>a, <2>1, OneTaken DEF OnByte, Step5, Step10, GoTo
  <2>3. AtStep5(config_byte')
    BY <2>1, <2>2 DEF AtStep5
  <2>4. SetUp1'
    BY <1>0, <2>1, <2>2, <2>3 DEF SetUp1
  <2> QED
    BY <1>0, <1>2, <2>2, <2>4 DEF Undisturbed, SetUp2, SetUp3, SetUp4, SetUp5, PanicInv, Enabling,
                             ResetKeyboard, ResetMouse
<1>b. CASE pc = "test_data"
  <2>1. /\ out = <<IF machine.controller THEN x55 ELSE xFC>> /\ input = "empty"
        /\ AtStep5(config_byte)
    BY <1>0, <1>b DEF Undisturbed, SetUp1, Replies
  <2>2. /\ out' = << >> /\ config_byte' = config_byte
        /\ pc' = IF machine.controller THEN "write2" ELSE "panicked"
    <3>1. TestController(Head(out))
      BY <1>0, <1>b DEF OnByte, Step10
    <3>2. Head(out) = (IF machine.controller THEN x55 ELSE xFC) /\ out' = << >>
      BY <1>0, <2>1, OneTaken
    <3>3. x55 # xFC
      BY DEF x55, xFC
    <3> QED
      BY <3>1, <3>2, <3>3 DEF TestController, Answer, GoTo
  <2>3. SetUp1'
    BY <1>0, <2>1, <2>2, ConfigKept DEF SetUp1
  <2>4. PanicInv'
    <3>1. CASE machine.controller
      BY <2>2, <3>1 DEF PanicInv
    <3>2. CASE ~ machine.controller
      BY <1>0, <3>2, Broken
    <3> QED
      BY <3>1, <3>2
  <2> QED
    BY <1>0, <1>2, <2>2, <2>3, <2>4 DEF Undisturbed, SetUp2, SetUp3, SetUp4, SetUp5, Enabling,
                             ResetKeyboard, ResetMouse
<1>c. CASE pc = "read2_data"
  <2>1. out = <<config>> /\ input = "empty" /\ Probed(config)
    BY <1>0, <1>c DEF Undisturbed, SetUp2, Replies
  <2>2. /\ out' = << >> /\ has_second_port' = (5 \notin config)
        /\ config_byte' = IF 5 \notin config THEN config \ {1, 5} ELSE config_byte
        /\ pc' = IF 5 \notin config THEN "disable3" ELSE "test1"
    BY <1>0, <1>c, <2>1, OneTaken DEF OnByte, Step7, Step10, GoTo
  <2>3. 5 \notin config <=> machine.second
    BY <2>1 DEF Probed
  <2>4. CASE machine.second
    <3>1. AtStep7(config_byte)'
      BY <1>0, <2>1, <2>2, <2>3, <2>4 DEF Probed, AtStep7
    <3>2. SetUp2'
      BY <1>0, <2>1, <2>2, <2>3, <2>4, <3>1 DEF SetUp2
    <3> QED
      BY <1>0, <1>2, <2>2, <2>3, <2>4, <3>2 DEF Undisturbed, SetUp1, SetUp3, SetUp4, SetUp5,
                                                PanicInv,
                             Enabling, ResetKeyboard, ResetMouse
  <2>5. CASE ~ machine.second
    <3>1. AtStep7(config)' /\ has_second_port' = machine'.second
      BY <1>0, <2>2, <2>3, <2>5 DEF AtStep7, TypeInv, Machine
    <3>2. SetUp2'
      BY <1>0, <2>1, <2>2, <2>3, <2>5, <3>1 DEF SetUp2
    <3> QED
      BY <1>0, <1>2, <2>2, <2>3, <2>5, <3>2 DEF Undisturbed, SetUp1, SetUp3, SetUp4, SetUp5,
                                                PanicInv,
                             Enabling, ResetKeyboard, ResetMouse
  <2> QED
    BY <2>4, <2>5
<1>d. CASE pc = "test1_data"
  <2>1. /\ out = <<IF machine.port1 THEN x00 ELSE {0}>> /\ input = "empty" /\ AtStep7(config)
        /\ has_second_port = machine.second
    BY <1>0, <1>d DEF Undisturbed, SetUp2, Replies
  <2>2. /\ out' = << >> /\ has_second_port' = has_second_port
        /\ second_port_works' = second_port_works
        /\ first_port_works' = (Head(out) = x00)
        /\ pc' = AfterTest1
    BY <1>0, <1>d, <2>1, OneTaken DEF OnByte, Step8First, Step10, GoTo
  <2>3. first_port_works' = machine.port1
    BY <2>1, <2>2, OneTaken DEF x00, TypeInv, Machine
  <2>4. CASE machine.second
    <3>1. pc' = "test2"
      BY <2>1, <2>2, <2>4 DEF AfterTest1
    <3>2. SetUp2'
      BY <1>0, <2>1, <2>2, <2>3, <2>4, <3>1, ConfigKept DEF SetUp2
    <3> QED
      BY <1>0, <1>2, <3>1, <3>2 DEF Undisturbed, SetUp1, SetUp3, SetUp4, SetUp5, PanicInv, Enabling,
                             ResetKeyboard, ResetMouse
  <2>5. CASE ~ machine.second
    <3>1. pc' = "read3" /\ second_port_works = FALSE
      BY <1>d, <2>1, <2>2, <2>5
         DEF AfterTest1, TypeInv, Tested, Enabling, ResetKeyboard, ResetMouse
    <3>2. PortsTested'
      BY <1>0, <2>1, <2>2, <2>3, <2>5, <3>1 DEF PortsTested
    <3>3. SetUp3'
      BY <1>0, <2>1, <2>2, <3>1, <3>2, ConfigKept DEF SetUp3, Enabling
    <3> QED
      BY <1>0, <1>2, <3>1, <3>3 DEF Undisturbed, SetUp1, SetUp2, SetUp4, SetUp5, PanicInv,
                             ResetKeyboard, ResetMouse
  <2> QED
    BY <2>4, <2>5
<1>e. CASE pc = "test2_data"
  <2>1. /\ out = <<IF machine.port2 THEN x00 ELSE {0}>> /\ input = "empty" /\ AtStep7(config)
        /\ has_second_port = machine.second /\ first_port_works = machine.port1 /\ machine.second
    BY <1>0, <1>e DEF Undisturbed, SetUp2, Replies
  <2>2. /\ out' = << >> /\ has_second_port' = has_second_port
        /\ first_port_works' = first_port_works
        /\ second_port_works' = (Head(out) = x00)
        /\ pc' = "read3"
    BY <1>0, <1>e, <2>1, OneTaken DEF OnByte, Step8Second, Step10, GoTo
  <2>3. second_port_works' = (machine.second /\ machine.port2)
    BY <2>1, <2>2, OneTaken DEF x00, TypeInv, Machine
  <2>4. PortsTested'
    BY <1>0, <2>1, <2>2, <2>3 DEF PortsTested
  <2>5. SetUp3'
    BY <1>0, <2>1, <2>2, <2>4, ConfigKept DEF SetUp3, Enabling
  <2> QED
    BY <1>0, <1>2, <2>2, <2>5 DEF Undisturbed, SetUp1, SetUp2, SetUp4, SetUp5, PanicInv,
                             ResetKeyboard, ResetMouse
<1>f. CASE pc = "read3_data"
  <2>1. out = <<config>> /\ input = "empty" /\ AtStep7(config) /\ PortsTested
    BY <1>0, <1>f DEF Undisturbed, SetUp3, Replies
  <2>2. /\ out' = << >> /\ UNCHANGED ports
        /\ config_byte' = config \union (IF first_port_works THEN {0} ELSE {})
                                 \union (IF second_port_works THEN {1} ELSE {})
        /\ pc' \in {"enable1", "second"}
    BY <1>0, <1>f, <2>1, OneTaken DEF OnByte, Step9, Step10, GoTo
  <2>3. AtStep9(config_byte)'
    <3> SUFFICES ASSUME machine.second
                 PROVE  /\ config_byte' \intersect {4, 5, 6} = {}
                        /\ 0 \in config_byte' <=> machine.port1
                        /\ 1 \in config_byte' <=> machine.port2
      BY <1>0 DEF AtStep9
    <3>1. (first_port_works <=> machine.port1) /\ (second_port_works <=> machine.port2)
      BY <2>1 DEF PortsTested
    <3>2. config \intersect {0, 1, 4, 5, 6} = {}
      BY <2>1 DEF AtStep7
    <3>3. /\ 0 \in config_byte' <=> first_port_works
          /\ 1 \in config_byte' <=> second_port_works
          /\ \A n \in {4, 5, 6} : n \notin config_byte'
      BY <2>2, <3>2
    <3> QED
      BY <3>1, <3>3
  <2>4. SetUp3'
    BY <1>0, <2>1, <2>2, <2>3, ConfigKept DEF SetUp3, Enabling
  <2> QED
    BY <1>0, <1>2, <2>2, <2>4 DEF Undisturbed, SetUp1, SetUp2, SetUp4, SetUp5, PanicInv,
                             ResetKeyboard, ResetMouse
<1> QED
  BY <1>1, <1>a, <1>b, <1>c, <1>d, <1>e, <1>f

\* Reading: the devices' answers.
LEMMA TwoTaken ==
  ASSUME NEW byte, NEW other
  PROVE  Head(<<byte, other>>) = byte /\ Tail(<<byte, other>>) = <<other>>
  OBVIOUS

LEMMA ThreeTaken ==
  ASSUME NEW byte, NEW other, NEW last
  PROVE  Head(<<byte, other, last>>) = byte /\ Tail(<<byte, other, last>>) = <<other, last>>
  OBVIOUS

LEMMA UReadKeyboard ==
  ASSUME TypeInv, SInv, Undisturbed, ReadData, pc \in ResetKeyboard
  PROVE  Undisturbed'
<1>0. /\ input' = input /\ mouse' = mouse /\ keyboard' = keyboard /\ machine' = machine
      /\ config' = config /\ out' = Tail(out) /\ out # << >> /\ UNCHANGED ports
      /\ pc \in {"keyboard_ack", "keyboard_test"} /\ Step10(Head(out))
  BY DEF ReadData, Reads, ResetKeyboard, OnByte, Step10
<1>1. mouse = "on" /\ PortsTested /\ AtStep9(config)
  BY DEF SInv, KeyboardInv, Undisturbed, SetUp4
<1>2. PortsTested' /\ AtStep9(config)'
  BY <1>0, <1>1, ConfigKept
<1>3. CASE pc = "keyboard_ack"
  <2>1. /\ out = <<xFA>> \/ out = <<xFA, Result>>
        /\ out = <<xFA>> => keyboard = "testing"
        /\ out = <<xFA, Result>> => keyboard \in {"passed", "failed"}
        /\ input = "empty"
    <3>1. <<xFA>> # <<xFA, Result>>
      OBVIOUS
    <3> QED
      BY <1>0, <1>3, <3>1 DEF Undisturbed, SetUp4
  <2>2. Head(out) = xFA
    BY <2>1, OneTaken, TwoTaken
  <2>3. pc' = "keyboard_test"
    BY <1>0, <1>3, <2>2 DEF Step10, Answer, GoTo
  <2>4. Result' = Result
    BY <1>0 DEF Result
  <2>5. \/ out' = << >> /\ keyboard = "testing"
        \/ out' = <<Result>> /\ keyboard \in {"passed", "failed"}
    BY <1>0, <2>1, OneTaken, TwoTaken
  <2>6. SetUp4'
    BY <1>0, <1>2, <2>1, <2>3, <2>4, <2>5 DEF SetUp4
  <2> QED
    BY <1>0, <1>1, <2>3, <2>6 DEF Undisturbed, SetUp1, SetUp2, SetUp3, SetUp5, PanicInv, Enabling
<1>4. CASE pc = "keyboard_test"
  <2>1. out = <<Result>> /\ input = "empty"
    BY <1>0, <1>4 DEF Undisturbed, SetUp4
  <2>2. Head(out) = Result /\ out' = << >>
    BY <1>0, <2>1, OneTaken
  <2>3. pc' = IF machine.keyboard THEN "mouse1" ELSE "panicked"
    <3>1. pc' = IF Result = xAA THEN "mouse1" ELSE "panicked"
      BY <1>0, <1>4, <2>2 DEF Step10, Answer, GoTo
    <3>2. xAA # xFC
      BY DEF xAA, xFC
    <3> QED
      BY <3>1, <3>2 DEF Result
  <2>4. PanicInv'
    <3>1. CASE machine.keyboard
      BY <2>3, <3>1 DEF PanicInv
    <3>2. CASE ~ machine.keyboard
      BY <1>0, <3>2, Broken
    <3> QED
      BY <3>1, <3>2
  <2>5. SetUp4'
    BY <1>0, <1>2, <2>1, <2>2, <2>3 DEF SetUp4
  <2> QED
    BY <1>0, <1>1, <2>3, <2>4, <2>5 DEF Undisturbed, SetUp1, SetUp2, SetUp3, SetUp5, Enabling
<1> QED
  BY <1>0, <1>3, <1>4

LEMMA UReadMouse ==
  ASSUME TypeInv, SInv, Undisturbed, ReadData, pc \in ResetMouse
  PROVE  Undisturbed'
<1>0. /\ input' = input /\ mouse' = mouse /\ keyboard' = keyboard /\ machine' = machine
      /\ config' = config /\ out' = Tail(out) /\ out # << >> /\ UNCHANGED ports
      /\ pc \in {"mouse_ack", "mouse_test", "mouse_id", "report_ack"} /\ Step10(Head(out))
  BY DEF ReadData, Reads, ResetMouse, OnByte, Step10
<1>1. PortsTested /\ AtStep9(config) /\ (mouse # "on" => machine.second)
  BY DEF Undisturbed, SetUp4, SetUp5
<1>2. PortsTested' /\ AtStep9(config)'
  BY <1>0, <1>1, ConfigKept
<1>3. ASSUME pc' \in ResetMouse \union {"panicked"} PROVE SetUp1' /\ SetUp2' /\ SetUp3' /\ SetUp4'
  BY <1>2, <1>3 DEF SetUp1, SetUp2, SetUp3, SetUp4, Enabling, ResetMouse
<1>4. CASE pc = "mouse_ack"
  <2>1. /\ \/ out = <<xFA>> /\ mouse = "testing"
           \/ out = MouseAnswer /\ mouse \in {"passed", "failed"}
        /\ input = "empty"
    BY <1>0, <1>4 DEF Undisturbed, SetUp5
  <2>2. Head(MouseAnswer) = xFA /\ Tail(MouseAnswer) = MouseResult
    BY ThreeTaken, TwoTaken DEF MouseResult, MouseAnswer
  <2>3. /\ Head(out) = xFA
        /\ \/ out' = << >> /\ mouse = "testing"
           \/ out' = MouseResult /\ mouse \in {"passed", "failed"}
    BY <1>0, <2>1, <2>2, OneTaken
  <2>4. pc' = "mouse_test"
    BY <1>0, <1>4, <2>3 DEF Step10, Answer, GoTo
  <2>5. MouseResult' = MouseResult
    BY <1>0 DEF MouseResult
  <2>6. SetUp5'
    BY <1>0, <1>1, <2>1, <2>3, <2>4, <2>5 DEF SetUp5
  <2> QED
    BY <1>3, <2>4, <2>6 DEF Undisturbed, PanicInv, ResetMouse
<1>5. CASE pc = "mouse_test"
  <2>1. out = MouseResult
    BY <1>0, <1>5 DEF Undisturbed, SetUp5
  <2>2. CASE machine.mouse
    <3>1. Head(out) = xAA /\ out' = <<x00>>
      BY <1>0, <2>1, <2>2, TwoTaken DEF MouseResult
    <3>2. pc' = "mouse_id"
      BY <1>0, <1>5, <3>1 DEF Step10, Answer, GoTo
    <3>3. SetUp5'
      BY <1>0, <1>1, <3>1, <3>2 DEF SetUp5
    <3> QED
      BY <1>3, <3>2, <3>3 DEF Undisturbed, PanicInv, ResetMouse
  <2>3. CASE ~ machine.mouse
    <3>1. Head(out) = xFC /\ xFC # xAA
      BY <2>1, <2>3, OneTaken DEF MouseResult, xAA, xFC
    <3>2. pc' = "panicked"
      BY <1>0, <1>5, <3>1 DEF Step10, Answer, GoTo
    <3>3. SetUp5'
      BY <1>0, <1>1, <3>2 DEF SetUp5
    <3>4. PanicInv'
      BY <1>0, <2>3, Broken
    <3> QED
      BY <1>3, <3>2, <3>3, <3>4 DEF Undisturbed
  <2> QED
    BY <2>2, <2>3
<1>6. CASE pc = "mouse_id"
  <2>1. out = <<x00>> /\ mouse = "passed" /\ input = "empty"
    BY <1>6 DEF Undisturbed, SetUp5, SInv, MouseInv
  <2>2. out' = << >> /\ machine.second
    BY <1>0, <1>1, <2>1, OneTaken
  <2>3. second_port_works <=> machine.port2
    BY <1>1, <2>2 DEF PortsTested
  <2>4. pc' = IF machine.port2 THEN "mouse2" ELSE "done"
    BY <1>0, <1>6, <2>3 DEF Step10, GoTo
  <2>5. SetUp5'
    BY <1>0, <2>1, <2>2, <2>4 DEF SetUp5
  <2> QED
    BY <1>3, <2>4, <2>5 DEF Undisturbed, PanicInv, ResetMouse
<1>7. CASE pc = "report_ack"
  <2>1. out = <<xFA>> /\ mouse = "reporting" /\ machine.port2 /\ input = "empty"
    BY <1>0, <1>7 DEF Undisturbed, SetUp5
  <2>2. Head(out) = xFA
    BY <2>1, OneTaken
  <2>3. pc' = "done"
    BY <1>0, <1>7, <2>2 DEF Step10, Answer, GoTo
  <2>4. SetUp5'
    BY <1>0, <1>1, <2>1, <2>3 DEF SetUp5
  <2> QED
    BY <1>3, <2>3, <2>4 DEF Undisturbed, PanicInv, ResetMouse
<1> QED
  BY <1>0, <1>4, <1>5, <1>6, <1>7

\* The hardware: what it answers, and what the buffers hold then.
LEMMA OneAdded == ASSUME NEW byte PROVE << >> \o <<byte>> = <<byte>>
  OBVIOUS

LEMMA TwoAdded == ASSUME NEW byte, NEW other PROVE << >> \o <<byte, other>> = <<byte, other>>
  OBVIOUS

LEMMA OneToOne == ASSUME NEW byte, NEW other PROVE <<byte>> \o <<other>> = <<byte, other>>
<1> DEFINE S == {byte, other}
           s == <<byte>> \o <<other>>
<1>1. <<byte>> \in Seq(S) /\ <<other>> \in Seq(S) /\ <<byte, other>> \in Seq(S)
  OBVIOUS
<1>2. /\ s \in Seq(S) /\ Len(s) = 2
      /\ \A m \in 1 .. 2 : s[m] = IF m <= 1 THEN <<byte>>[m] ELSE <<other>>[m - 1]
  BY <1>1, ConcatProperties
<1>3. s[1] = byte /\ s[2] = other
  BY <1>2
<1>4. \A m \in 1 .. Len(s) : s[m] = <<byte, other>>[m]
  BY <1>2, <1>3
<1> HIDE DEF s
<1> QED
  BY <1>1, <1>2, <1>4, SeqEqual DEF s

LEMMA TwoToOne ==
  ASSUME NEW byte, NEW other, NEW last PROVE <<byte>> \o <<other, last>> = <<byte, other, last>>
<1> DEFINE S == {byte, other, last}
           s == <<byte>> \o <<other, last>>
<1>1. <<byte>> \in Seq(S) /\ <<other, last>> \in Seq(S) /\ <<byte, other, last>> \in Seq(S)
  OBVIOUS
<1>2. /\ s \in Seq(S) /\ Len(s) = 3
      /\ \A m \in 1 .. 3 : s[m] = IF m <= 1 THEN <<byte>>[m] ELSE <<other, last>>[m - 1]
  BY <1>1, ConcatProperties
<1>3. s[1] = byte /\ s[2] = other /\ s[3] = last
  BY <1>2
<1>4. \A m \in 1 .. Len(s) : s[m] = <<byte, other, last>>[m]
  BY <1>2, <1>3
<1> HIDE DEF s
<1> QED
  BY <1>1, <1>2, <1>4, SeqEqual DEF s

LEMMA UCommandTaken ==
  ASSUME TypeInv, SInv, Undisturbed, ControllerCommand
  PROVE  Undisturbed'
<1> DEFINE KeepConfig == {"ReadConfig", "WriteConfig", "WriteSecondPort", "TestFirstPort",
                          "TestSecondPort"}
<1>0. /\ pc' = pc /\ mouse' = mouse /\ keyboard' = keyboard /\ machine' = machine
      /\ config_byte' = config_byte /\ UNCHANGED ports /\ count' = count /\ input' = "empty"
      /\ has_second_port' = has_second_port /\ first_port_works' = first_port_works
      /\ Execute(input) /\ input \in {CommandAt[p] : p \in DOMAIN CommandAt}
  BY DEF ControllerCommand, driver, ports
<1>1. PortsTested' <=> PortsTested
  BY <1>0, ConfigKept
<1>2. PanicInv'
  BY <1>0 DEF Undisturbed, PanicInv
<1>3. /\ input \notin {"Reset", "EnableReporting", "empty", "config"}
      /\ pc \notin ResetKeyboard
      /\ pc \in ResetMouse => pc \in {"reset_mouse", "report_mouse"} /\ input = "WriteSecondPort"
  BY <1>0 DEF CommandAt, SInv, KeyboardInv, MouseInv, ResetMouse
<1>4. /\ AtStep5(config_byte)' <=> AtStep5(config_byte)
      /\ AtStep7(config_byte)' <=> AtStep7(config_byte)
      /\ AtStep9(config_byte)' <=> AtStep9(config_byte)
  BY <1>0, ConfigKept
<1>5. /\ input \notin {"ReadConfig", "TestController", "TestFirstPort", "TestSecondPort"}
           => out' = out
      /\ out = << >> =>
           /\ input = "ReadConfig" => out' = <<config>> /\ config' = config
           /\ input = "TestController" => out' = <<IF machine.controller THEN x55 ELSE xFC>>
           /\ input = "TestFirstPort" => out' = <<IF machine.port1 THEN x00 ELSE {0}>>
           /\ input = "TestSecondPort" => out' = <<IF machine.port2 THEN x00 ELSE {0}>>
  BY <1>0, OneAdded DEF Execute, Reply
<1>6. /\ 4 \in config /\ input # "EnableFirstPort" /\ input # "TestController" => 4 \in config'
      /\ input = "DisableFirstPort" => 4 \in config'
      /\ input = "DisableSecondPort" => 5 \in config'
  BY <1>0 DEF Execute
<1>7. input = "EnableSecondPort" /\ AtStep5(config) => Probed(config)'
  BY <1>0 DEF Execute, AtStep5, Probed
<1>8. input \in KeepConfig =>
        /\ config' = config
        /\ Probed(config)' <=> Probed(config)
        /\ AtStep7(config)' <=> AtStep7(config)
        /\ AtStep9(config)' <=> AtStep9(config)
  <2>1. input \in KeepConfig => config' = config
    BY <1>0 DEF Execute
  <2> QED
    BY <1>0, <2>1, ConfigKept
<1> USE <1>0, <1>1, <1>3, <1>4, <1>5, <1>6, <1>7, <1>8 DEF Undisturbed
<1>a. SetUp1'
  BY DEF SetUp1, Replies
<1>b. SetUp2'
  BY DEF SetUp2, Replies
<1>c. SetUp3'
  BY DEF SetUp3, Replies, Enabling
<1>d. SetUp4'
  BY DEF SetUp4, ResetKeyboard, ResetMouse
<1>e. SetUp5'
  BY DEF SetUp5, ResetMouse
<1> QED
  BY <1>2, <1>a, <1>b, <1>c, <1>d, <1>e

LEMMA UConfigTaken ==
  ASSUME TypeInv, SInv, Undisturbed, ControllerConfig
  PROVE  Undisturbed'
<1>0. /\ pc' = pc /\ mouse' = mouse /\ keyboard' = keyboard /\ machine' = machine /\ out' = out
      /\ config_byte' = config_byte /\ UNCHANGED ports /\ input = "config" /\ input' = "empty"
      /\ has_second_port' = has_second_port
      /\ config' = IF machine.second THEN config_byte ELSE config_byte \union {5}
  BY DEF ControllerConfig, driver, ports
<1>1. PortsTested' <=> PortsTested
  BY <1>0, ConfigKept
<1>2. PanicInv'
  BY <1>0 DEF Undisturbed, PanicInv
<1>3. pc \notin ResetKeyboard \union ResetMouse
  BY <1>0 DEF SInv, KeyboardInv, MouseInv, ResetMouse
<1>4. /\ AtStep5(config_byte) => AtStep5(config)' /\ AtStep5(config_byte)'
      /\ AtStep7(config_byte) => AtStep7(config)'
      /\ AtStep9(config_byte) => AtStep9(config)' /\ AtStep9(config_byte)'
  BY <1>0 DEF AtStep5, AtStep7, AtStep9
<1> USE <1>0, <1>1, <1>3, <1>4 DEF Undisturbed
<1>a. SetUp1'
  BY DEF SetUp1, Replies
<1>b. SetUp2'
  BY DEF SetUp2, Replies
<1>c. SetUp3'
  BY DEF SetUp3, Replies, Enabling
<1>d. SetUp4'
  BY DEF SetUp4, ResetKeyboard
<1>e. SetUp5'
  BY DEF SetUp5, ResetMouse
<1> QED
  BY <1>2, <1>a, <1>b, <1>c, <1>d, <1>e

\* A device answers only while init waits for it.
LEMMA ULate ==
  ASSUME Undisturbed, machine' = machine, config' = config, UNCHANGED ports, pc' = pc,
         pc \in ResetKeyboard \union ResetMouse \union {"panicked"}
  PROVE  SetUp1' /\ SetUp2' /\ SetUp3' /\ PanicInv'
         /\ (pc # "panicked" => PortsTested' /\ AtStep9(config)')
  BY ConfigKept
     DEF Undisturbed, SetUp1, SetUp2, SetUp3, SetUp4, PanicInv, Enabling, ResetKeyboard, ResetMouse

LEMMA UKeyboardReset ==
  ASSUME TypeInv, SInv, Undisturbed, KeyboardReset
  PROVE  Undisturbed'
<1>0. /\ pc' = pc /\ mouse' = mouse /\ keyboard' = "testing" /\ machine' = machine
      /\ UNCHANGED ports /\ config' = config /\ input = "Reset" /\ input' = "empty"
      /\ target = "keyboard" /\ out' = out \o <<xFA>>
  BY DEF KeyboardReset, driver, ports, Reply
<1>1. pc \in {"keyboard_ack", "panicked"}
  BY <1>0 DEF SInv, EarlyInv, KeyboardInv, MouseInv, Early, ResetKeyboard, ResetMouse
<1>2. /\ SetUp1' /\ SetUp2' /\ SetUp3' /\ PanicInv'
      /\ pc # "panicked" => PortsTested' /\ AtStep9(config)'
  BY <1>0, <1>1, ULate DEF ResetKeyboard
<1>3. SetUp4'
  BY <1>0, <1>1, <1>2, OneAdded DEF Undisturbed, SetUp4, ResetKeyboard, ResetMouse
<1>4. SetUp5'
  BY <1>0, <1>1 DEF Undisturbed, SetUp5
<1> QED
  BY <1>2, <1>3, <1>4 DEF Undisturbed

LEMMA UKeyboardTested ==
  ASSUME TypeInv, SInv, Undisturbed, KeyboardTested
  PROVE  Undisturbed'
<1>0. /\ pc' = pc /\ mouse' = mouse /\ keyboard = "testing" /\ machine' = machine
      /\ keyboard' \in {"passed", "failed"}
      /\ UNCHANGED ports /\ config' = config /\ input' = input /\ out' = out \o <<Result>>
  BY DEF KeyboardTested, driver, ports, Reply, Result
<1>1. pc \in {"keyboard_ack", "keyboard_test", "panicked"}
  BY <1>0 DEF SInv, EarlyInv, KeyboardInv, MouseInv, Early, ResetKeyboard, ResetMouse
<1>2. /\ SetUp1' /\ SetUp2' /\ SetUp3' /\ PanicInv'
      /\ pc # "panicked" => PortsTested' /\ AtStep9(config)'
  BY <1>0, <1>1, ULate DEF ResetKeyboard
<1>3. Result' = Result /\ <<xFA>> \o <<Result>> = <<xFA, Result>>
  BY <1>0, OneToOne DEF Result
<1>4. SetUp4'
  BY <1>0, <1>1, <1>2, <1>3, OneAdded DEF Undisturbed, SetUp4, ResetKeyboard, ResetMouse
<1>5. SetUp5'
  BY <1>0, <1>1 DEF Undisturbed, SetUp5
<1> QED
  BY <1>2, <1>4, <1>5 DEF Undisturbed

LEMMA UMouseData ==
  ASSUME TypeInv, SInv, Undisturbed, MouseData
  PROVE  Undisturbed'
<1>0. /\ pc' = pc /\ keyboard' = keyboard /\ machine' = machine /\ target = "mouse"
      /\ UNCHANGED ports /\ config' = config /\ input \in {"Reset", "EnableReporting"}
      /\ input' = "empty"
      /\ \/ machine.second /\ mouse' = "testing" /\ out' = out \o <<xFA>> /\ input = "Reset"
         \/ /\ machine.second /\ mouse' = "reporting" /\ out' = out \o <<xFA>>
            /\ input = "EnableReporting"
         \/ ~ machine.second /\ mouse' = mouse /\ out' = out
  BY DEF MouseData, driver, ports, Reply
<1>1. /\ pc \in {"mouse_ack", "report_ack", "panicked"}
      /\ pc = "mouse_ack" => input = "Reset"
      /\ pc = "report_ack" => input = "EnableReporting" /\ mouse \in {"passed", "reporting"}
  BY <1>0 DEF Undisturbed, SetUp5, SInv, EarlyInv, KeyboardInv, MouseInv, Early, ResetKeyboard,
              ResetMouse
<1>2. /\ SetUp1' /\ SetUp2' /\ SetUp3' /\ PanicInv'
      /\ pc # "panicked" => PortsTested' /\ AtStep9(config)'
  BY <1>0, <1>1, ULate DEF ResetMouse
<1>3. SetUp4'
  BY <1>0, <1>1, <1>2 DEF Undisturbed, SetUp4, ResetKeyboard, ResetMouse
<1>4. SetUp5'
  BY <1>0, <1>1, OneAdded DEF Undisturbed, SetUp5
<1> QED
  BY <1>2, <1>3, <1>4 DEF Undisturbed

LEMMA UMouseTested ==
  ASSUME TypeInv, SInv, Undisturbed, MouseTested
  PROVE  Undisturbed'
<1>0. /\ pc' = pc /\ keyboard' = keyboard /\ machine' = machine /\ mouse = "testing"
      /\ UNCHANGED ports /\ config' = config /\ input' = input
      /\ mouse' \in {"passed", "failed"} /\ out' = out \o MouseResult
  BY DEF MouseTested, driver, ports, Reply, MouseResult
<1>1. /\ pc \in {"mouse_ack", "mouse_test", "panicked"}
  BY <1>0 DEF SInv, EarlyInv, KeyboardInv, MouseInv, Early, ResetKeyboard, ResetMouse
<1>2. /\ SetUp1' /\ SetUp2' /\ SetUp3' /\ PanicInv'
      /\ pc # "panicked" => PortsTested' /\ AtStep9(config)'
  BY <1>0, <1>1, ULate DEF ResetMouse
<1>3. MouseResult' = MouseResult /\ MouseAnswer' = MouseAnswer
  BY <1>0 DEF MouseResult, MouseAnswer
<1>4. << >> \o MouseResult = MouseResult /\ <<xFA>> \o MouseResult = MouseAnswer
  BY OneAdded, OneToOne, TwoAdded, TwoToOne DEF MouseResult, MouseAnswer
<1>5. SetUp4'
  BY <1>0, <1>1, <1>2 DEF Undisturbed, SetUp4, ResetKeyboard, ResetMouse
<1>6. SetUp5'
  BY <1>0, <1>1, <1>3, <1>4 DEF Undisturbed, SetUp5
<1> QED
  BY <1>2, <1>5, <1>6 DEF Undisturbed

(***************************************************************************)
(* The whole invariant, and the theorems.                                  *)
(***************************************************************************)
LEMMA TypeStep == TypeInv /\ [Next]_vars => TypeInv'
<1> SUFFICES ASSUME TypeInv, [Next]_vars PROVE TypeInv'
  OBVIOUS
<1>0. machine' = machine
  BY DEF Next, DriverStep, HardwareStep, Over, vars, driver, hardware, WriteCommand, WriteData,
         WriteTimesOut, FlushByte, FlushEnds, ReadData, ReadTimesOut, SecondPort, ControllerCommand,
         ControllerConfig, KeyboardReset, KeyboardTested, MouseData, MouseTested, KeyPressed
<1>1. ASSUME UNCHANGED driver, pc' = pc PROVE TypeInv'
  BY <1>0, <1>1 DEF TypeInv, driver
<1>2. CASE WriteCommand
  <2>1. pc \notin {"mouse1", "mouse2"} /\ pc \notin Tested => second_port_works = FALSE
    BY DEF TypeInv
  <2>2. pc' \in Tested \/ pc \notin Tested
    BY <1>2 DEF WriteCommand, GoTo, CommandAt, AfterCommand, Tested, Enabling, ResetKeyboard,
                ResetMouse
  <2> QED
    BY <1>0, <1>2, <2>1, <2>2 DEF WriteCommand, TypeInv
<1>3. CASE WriteData
  <2>1. pc' \in Tested \/ pc \notin Tested
    BY <1>3 DEF WriteData, GoTo, DataAt, AfterData, Tested, Enabling, ResetKeyboard, ResetMouse
  <2> QED
    BY <1>0, <1>3, <2>1 DEF WriteData, driver, TypeInv
<1>4. CASE WriteTimesOut
  BY <1>0, <1>4 DEF WriteTimesOut, GoTo, driver, TypeInv, Tested
<1>5. CASE FlushByte
  BY <1>0, <1>5 DEF FlushByte, TypeInv
<1>6. CASE FlushEnds
  BY <1>0, <1>6 DEF FlushEnds, GoTo, driver, TypeInv, Tested, Enabling, ResetKeyboard, ResetMouse
<1>7. CASE SecondPort
  BY <1>0, <1>7 DEF SecondPort, GoTo, driver, TypeInv, Tested, Enabling
<1>8. CASE ReadData \/ ReadTimesOut
  <2>1. count' = count
    BY <1>8 DEF ReadData, ReadTimesOut
  <2>2. PICK byte : OnByte(byte) \/ ReadTimesOut
    BY <1>8 DEF ReadData
  <2>3. /\ has_second_port' \in BOOLEAN /\ first_port_works' \in BOOLEAN
        /\ second_port_works' \in BOOLEAN
    BY <2>2 DEF TypeInv, ReadTimesOut, OnByte, ports, Step5, TestController, Step7, Step8First,
                Step8Second, Step9, Step10
  <2>4. pc' \in Tested \/ (pc \notin Tested /\ second_port_works' = second_port_works)
    <3>1. CASE OnByte(byte)
      BY <3>1 DEF OnByte, ports, Step5, TestController, Step7, Step8First, Step8Second, Step9,
                  Step10,
                  Answer, AfterTest1, GoTo, Tested, Enabling, ResetKeyboard, ResetMouse
    <3>2. CASE ReadTimesOut
      BY <3>2 DEF ReadTimesOut, ports, Step8First, Step8Second,
                  AfterTest1, GoTo, Tested, Enabling, ResetKeyboard, ResetMouse
    <3> QED
      BY <2>2, <3>1, <3>2
  <2> QED
    BY <1>0, <2>1, <2>3, <2>4 DEF TypeInv
<1> QED
  BY <1>1, <1>2, <1>3, <1>4, <1>5, <1>6, <1>7, <1>8
     DEF Next, DriverStep, HardwareStep, Over, vars, ControllerCommand,
         ControllerConfig, KeyboardReset, KeyboardTested, MouseData, MouseTested, KeyPressed

LEMMA UUnchanged == Undisturbed /\ UNCHANGED vars => Undisturbed'
  BY DEF vars, driver, hardware, Undisturbed, SetUp1, SetUp2, SetUp3, SetUp4, SetUp5, PanicInv,
         Replies, AtStep5, Probed, AtStep7, AtStep9, PortsTested, Result, MouseResult, MouseAnswer

LEMMA UStep == PInv /\ [Next]_vars => UInv'
<1> SUFFICES ASSUME PInv, [Next]_vars, ~ disturbed' PROVE Undisturbed'
  BY DEF UInv, Undisturbed
<1>0. ~ WriteTimesOut /\ ~ ReadTimesOut /\ ~ KeyPressed
  BY DEF WriteTimesOut, ReadTimesOut, KeyPressed
<1>1. ~ disturbed
  <2>1. CASE WriteCommand
    BY <2>1 DEF WriteCommand
  <2>2. CASE ~ WriteCommand
    <3>1. disturbed' = disturbed
      BY <1>0, <2>2
         DEF Next, DriverStep, HardwareStep, Over, vars, WriteData, FlushByte, FlushEnds, ReadData,
             SecondPort, ControllerCommand, ControllerConfig, KeyboardReset, KeyboardTested,
             MouseData, MouseTested
    <3> QED
      BY <3>1
  <2> QED
    BY <2>1, <2>2
<1>2. TypeInv /\ SInv /\ Undisturbed
  BY <1>1 DEF PInv, UInv, Undisturbed
<1>3. ReadData => Early(pc) \/ pc \in ResetKeyboard \/ pc \in ResetMouse
  BY DEF ReadData, Reads, Early, ResetKeyboard, ResetMouse
<1> QED
  BY <1>0, <1>2, <1>3, UCommand, UData, UFlush, UReadEarly, UReadKeyboard, UReadMouse, USecondPort,
     UCommandTaken, UConfigTaken, UKeyboardReset, UKeyboardTested, UMouseData, UMouseTested,
     UUnchanged
     DEF Next, DriverStep, HardwareStep, Over

LEMMA PInvInit == ArgumentsOK /\ Init => PInv
<1> SUFFICES ASSUME ArgumentsOK, Init PROVE PInv
  OBVIOUS
<1>1. TypeInv
  BY DEF Init, TypeInv
<1>2. pc = "disable1" /\ input = "empty" /\ mouse = "on" /\ count = 0
  BY DEF Init
<1>3. Len(out) <= 1 /\ Len(out) \in Nat
  <2>1. CASE out = << >>
    BY <2>1
  <2>2. ASSUME NEW byte, out = <<byte>> PROVE Len(out) <= 1 /\ Len(out) \in Nat
    BY <2>2
  <2> QED
    BY <2>1, <2>2 DEF Init
<1>4. UInv
  BY <1>2, <1>3 DEF UInv, SetUp1, SetUp2, SetUp3, SetUp4, SetUp5, PanicInv, Enabling,
                    ResetKeyboard, ResetMouse
<1> QED
  BY <1>1, <1>4, SInit DEF PInv

LEMMA PInvStep == PInv /\ [Next]_vars => PInv'
  BY TypeStep, SStep, UStep DEF PInv, TypeInv

\* In either phase the other part does not move.
LEMMA EachOfItsOwn ==
  /\ InputInit => Init /\ I!Init
  /\ [InputNext]_allvars => [Next]_vars /\ [I!Next]_(I!vars)
<1>1. InputInit => Init /\ I!Init
  BY DEF InputInit
<1>2. UNCHANGED irqvars => UNCHANGED I!vars
  BY DEF irqvars, I!vars
<1>3. In("setup", Next) /\ UNCHANGED irqvars => [Next]_vars /\ [I!Next]_(I!vars)
  BY <1>2 DEF In
<1>4. In("run", I!Next) /\ UNCHANGED vars => [Next]_vars /\ [I!Next]_(I!vars)
  BY DEF In
<1>5. UNCHANGED allvars => [Next]_vars /\ [I!Next]_(I!vars)
  BY <1>2 DEF allvars
<1> QED
  BY <1>1, <1>3, <1>4, <1>5 DEF InputNext

LEMMA PInvHolds == InputSpec => []PInv
<1>1. InputInit => PInv
  BY PInvInit, Ps2Assumption, EachOfItsOwn
<1>2. PInv /\ [InputNext]_allvars => PInv'
  BY PInvStep, EachOfItsOwn
<1> QED
  BY <1>1, <1>2, PTL DEF InputSpec

\* init returns only after both devices passed their self test, however many keys
\* are pressed and whatever the waits and the commands lost do: no other byte is
\* taken for a device's result (ps2/mod.rs:103-106).
THEOREM SelfTestsPassedHolds == InputSpec => []SelfTestsPassed
<1>1. PInv => SelfTestsPassed
  BY DEF PInv, SInv, MouseInv, SelfTestsPassed, ResetMouse
<1> QED
  BY <1>1, PInvHolds, PTL

\* On a machine whose parts all work, init panics only after a wait gave up, a
\* command was lost or a key was pressed (ps2/mod.rs:13-114).
THEOREM PanicsOnlyIfDisturbedHolds == InputSpec => []PanicsOnlyIfDisturbed
<1>1. PInv => PanicsOnlyIfDisturbed
  BY DEF PInv, UInv, PanicInv, PanicsOnlyIfDisturbed
<1> QED
  BY <1>1, PInvHolds, PTL

\* Undisturbed, init leaves exactly the working ports with their interrupts, both
\* clocks on, translation off and the mouse reporting if its port works
\* (ps2/mod.rs:85-113).
THEOREM ConfiguredAsTestedHolds == InputSpec => []ConfiguredAsTested
<1>1. PInv => ConfiguredAsTested
  <2> SUFFICES ASSUME PInv, pc = "done", ~ disturbed PROVE ConfiguredAsTested
    BY DEF ConfiguredAsTested
  <2>1. /\ mouse = (IF machine.port2 THEN "reporting" ELSE "passed")
        /\ mouse # "on" => machine.second
    BY DEF PInv, UInv, SetUp5
  <2>2. machine.second /\ AtStep9(config)
    BY <2>1 DEF PInv, UInv, SetUp4, ResetMouse
  <2>3. machine.port1 \in BOOLEAN /\ machine.port2 \in BOOLEAN
    BY DEF PInv, TypeInv, Machine
  <2>4. /\ (0 \in config) = machine.port1
        /\ (1 \in config) = machine.port2
        /\ {4, 5, 6} \intersect config = {}
    BY <2>2, <2>3 DEF AtStep9
  <2>5. (mouse = "reporting") = machine.port2
    BY <2>1, <2>3
  <2> QED
    BY <2>4, <2>5 DEF ConfiguredAsTested
<1> QED
  BY <1>1, PInvHolds, PTL
-----------------------------------------------------------------------------
(***************************************************************************)
(* The interrupt handlers.                                                 *)
(*                                                                         *)
(* The inductive invariant: the lock is held by the context inside a       *)
(* kprintln!; a handler that got past its first try_lock did not interrupt *)
(* one; main panics at most once because it has not panicked before the    *)
(* two places where it can; a byte that came during a flush has its        *)
(* request.                                                                *)
(***************************************************************************)
LockInv == \A c \in I!Contexts : console = c <=> irq_pc[c] \in {"text", "feed"}

HandlerLockInv == irq_pc["irq"] \in {"text", "lock_feed", "feed", "eoi"} => console # "main"

StackInv == \A c \in I!Contexts : irq_pc[c] # "overflow" => panics[c] < MaxPanics

MainInv ==
  /\ irq_pc["main"] \in {"check_id", "mask", "redirect_keyboard", "redirect_mouse", "enable",
                     "mem_init"} => panics["main"] = 0
  /\ msg["main"] = "io_apic_base" => panics["main"] = 0

FlushInv ==
  irq_pc["irq"] = "flush" /\ irq_count > 0 /\ output # "empty" => output \in irr \/ edge = "lost"

IInv ==
  /\ I!ArgumentsOK /\ I!TypeOK
  /\ LockInv
  /\ HandlerLockInv
  /\ StackInv
  /\ MainInv
  /\ FlushInv
  /\ I!InServiceOnlyInHandler
  /\ I!NoByteForgotten
  /\ I!PanicOnlyInsidePrint

-----------------------------------------------------------------------------
\* The initial state satisfies the invariant.
LEMMA IrqInit == I!ArgumentsOK /\ I!Init => IInv
<1> SUFFICES ASSUME I!ArgumentsOK, I!Init PROVE IInv
  OBVIOUS
<1>1. I!TypeOK
  BY DEF I!ArgumentsOK, I!Init, I!TypeOK, I!Contexts, I!IRQ
<1> QED
  BY <1>1 DEF I!ArgumentsOK, I!Init, IInv, LockInv, HandlerLockInv, StackInv, MainInv, FlushInv,
              I!Contexts, I!InServiceOnlyInHandler, I!Running, I!NoByteForgotten,
              I!PanicOnlyInsidePrint

\* Every step preserves the invariant.
LEMMA IrqStep == IInv /\ [I!Next]_(I!vars) => IInv'
<1> SUFFICES ASSUME IInv, [I!Next]_(I!vars) PROVE IInv'
  OBVIOUS
<1> USE DEF IInv, I!ArgumentsOK, I!TypeOK, LockInv, HandlerLockInv, StackInv, MainInv, FlushInv,
            I!Contexts, I!IRQ, I!InServiceOnlyInHandler, I!Running, I!NoByteForgotten,
            I!PanicOnlyInsidePrint, I!At, I!GoTo, I!machine
<1>1. ASSUME NEW d \in I!IRQ, I!DeviceByte(d) PROVE IInv'
  BY <1>1 DEF I!DeviceByte, I!Request
<1>2. ASSUME NEW d \in I!IRQ, I!Interrupt(d) PROVE IInv'
  BY <1>2 DEF I!Interrupt
<1>3. CASE I!ReadData
  BY <1>3 DEF I!ReadData, I!TakeByte
<1>4. CASE I!FlushByte
  BY <1>4 DEF I!FlushByte, I!TakeByte
<1>5. CASE I!FlushEnds
  BY <1>5 DEF I!FlushEnds
<1>6. ASSUME NEW c \in I!Contexts, I!LockText(c) PROVE IInv'
  <2>1. CASE c = "main"
    BY <1>6, <2>1 DEF I!LockText, I!TryLock, I!PanicIn
  <2>2. CASE c = "irq"
    BY <1>6, <2>2 DEF I!LockText, I!TryLock, I!PanicIn
  <2> QED
    BY <2>1, <2>2
<1>7. ASSUME NEW c \in I!Contexts, I!TextPrinted(c) PROVE IInv'
  BY <1>7 DEF I!TextPrinted
<1>8. ASSUME NEW c \in I!Contexts, I!LockFeed(c) PROVE IInv'
  BY <1>8 DEF I!LockFeed, I!TryLock, I!PanicIn
<1>9. ASSUME NEW c \in I!Contexts, I!FeedPrinted(c) PROVE IInv'
  BY <1>9 DEF I!FeedPrinted, I!Continue
<1>10. CASE I!EndOfInterrupt
  BY <1>10 DEF I!EndOfInterrupt
<1>11. ASSUME NEW equal \in BOOLEAN, I!CheckId(equal) PROVE IInv'
  BY <1>11 DEF I!CheckId, I!PanicIn
<1>12. CASE I!MaskAll \/ I!RedirectKeyboard \/ I!RedirectMouse
  <2>1. CASE I!MaskAll
    BY <2>1 DEF I!MaskAll
  <2>2. CASE I!RedirectKeyboard
    BY <2>2 DEF I!RedirectKeyboard, I!Redirect
  <2>3. CASE I!RedirectMouse
    BY <2>3 DEF I!RedirectMouse, I!Redirect
  <2> QED
    BY <1>12, <2>1, <2>2, <2>3
<1>13. CASE I!EnableInterrupts
  BY <1>13 DEF I!EnableInterrupts
<1>14. ASSUME NEW panicking \in BOOLEAN, I!MemInit(panicking) PROVE IInv'
  <2>1. CASE panicking
    BY <1>14, <2>1 DEF I!MemInit, I!PanicIn
  <2>2. CASE ~ panicking
    BY <1>14, <2>2 DEF I!MemInit
  <2> QED
    BY <2>1, <2>2
<1>15. CASE UNCHANGED I!vars
  BY <1>15 DEF I!vars
<1> QED
  BY <1>1, <1>2, <1>3, <1>4, <1>5, <1>6, <1>7, <1>8, <1>9, <1>10, <1>11, <1>12, <1>13,
     <1>14, <1>15 DEF I!Next, I!HandlerStep, I!MainStep, I!Kprintln, I!Idle

LEMMA IrqInvHolds == InputSpec => []IInv
<1>1. InputInit => IInv
  BY IrqInit, InterruptsAssumption, EachOfItsOwn
<1>2. IInv /\ [InputNext]_allvars => IInv'
  BY IrqStep, EachOfItsOwn
<1> QED
  BY <1>1, <1>2, PTL DEF InputSpec

\* main never goes on with an unacknowledged interrupt (interrupts.rs:174-186).
THEOREM EveryInterruptAcknowledged == InputSpec => []InServiceOnlyInHandler
<1>1. IInv => InServiceOnlyInHandler
  BY DEF IInv, InServiceOnlyInHandler
<1> QED
  BY <1>1, IrqInvHolds, PTL

\* No byte that raised an interrupt is left in the output buffer without a
\* handler to take it, however the two devices' bytes and the two handlers
\* interleave (interrupts.rs:174-186, ps2/controller.rs:56-90).
THEOREM BytesNotForgotten == InputSpec => []NoByteForgotten
<1>1. IInv => NoByteForgotten
  BY DEF IInv, NoByteForgotten
<1> QED
  BY <1>1, IrqInvHolds, PTL

\* The only way to panic on the console's lock is a handler that interrupted
\* main inside a kprintln! (console.rs:168-182).
THEOREM LockPanicOnlyInsidePrint == InputSpec => []PanicOnlyInsidePrint
<1>1. IInv => PanicOnlyInsidePrint
  BY DEF IInv, PanicOnlyInsidePrint
<1> QED
  BY <1>1, IrqInvHolds, PTL
=============================================================================
