--------------------------- MODULE I2CController ---------------------------
(***************************************************************************)
(* The I2C master of EDC/FIFO-fix/I2C_controller.vhd with the device of    *)
(* module I2CSlave on its wires.  One action is one rising edge of         *)
(* CLK_200k_Hz, in which the whole clocked process runs once; half an SCL  *)
(* period passes between two of them, so the device has reacted to an edge *)
(* before the next one.  State names are the source's, in hexadecimal.     *)
(*                                                                         *)
(* States D1 and F0-F2 of the source have no action: nothing leads to them *)
(* (the test in D0 compares RegisterAddress with itself).                  *)
(***************************************************************************)
EXTENDS I2CSlave

CONSTANTS
  Addrs,       \* register addresses the client presents on AddressIn
  Values,      \* bytes the client presents on DataIn
  MayNack,     \* the device may refuse a byte
  InputsHeld,  \* the client keeps its request stable during a transaction
  MaxResets    \* bound on the resets after power-up

ASSUME ConstantsAssumption ==
  /\ Addrs \subseteq Byte
  /\ Values \subseteq Byte
  /\ MayNack \in BOOLEAN
  /\ InputsHeld \in BOOLEAN
  /\ MaxResets \in Nat

SlaveAddress_Write == ByteOf(208)
SlaveAddress_Read  == ByteOf(209)

VARIABLES
  state, SCL, SDA01, bitcount, Ack, RegisterAddress, Data, DataOut,
  RegisterAddressOut,              \* the registers of the controller
  ResetN, AddressIn, DataIn, Read_WriteN,              \* its inputs
  slave,                           \* the device
  resets                           \* resets so far

request   == <<AddressIn, DataIn, Read_WriteN>>
environs  == <<request, ResetN, resets>>
vars == <<state, SCL, SDA01, bitcount, Ack, RegisterAddress, Data, DataOut,
          RegisterAddressOut, slave, environs>>

(***************************************************************************)
(* SDA is open drain: it is low when anyone pulls it low.                  *)
(***************************************************************************)
Wired(a, b) == IF a = 0 \/ b = 0 THEN 0 ELSE 1
SDA         == Wired(SDA01, slave.drive)

(***************************************************************************)
(* The device's reaction to the controller's edge, the same step.          *)
(***************************************************************************)
SlaveReacts ==
  \E ok \in IF MayNack THEN BOOLEAN ELSE {TRUE} :
    LET sda == Wired(SDA01', slave.drive) IN
    slave' = CASE SCL = 1 /\ SCL' = 1 /\ SDA = 1 /\ sda = 0 -> SeesStart(slave)
               [] SCL = 1 /\ SCL' = 1 /\ SDA = 0 /\ sda = 1 -> SeesStop(slave)
               [] SCL = 0 /\ SCL' = 1 -> SeesRise(slave, sda)
               [] SCL = 1 /\ SCL' = 0 -> SeesFall(slave, SlaveAddress_Write, ok)
               [] OTHER -> slave

\* What every step of the clocked process has in common: it goes from state
\* "from" to state "to" and leaves SCL and SDA01 at these values.
Step(from, to, scl, sda) ==
  /\ ResetN = 1
  /\ state = from
  /\ state' = to
  /\ SCL' = scl
  /\ SDA01' = sda
  /\ SlaveReacts
  /\ UNCHANGED environs

Keep == UNCHANGED <<bitcount, Ack, RegisterAddress, Data, DataOut,
                    RegisterAddressOut>>

\* (Mutant: the bit is put out while SCL is high.)
PutBitLate(from, b, to) == Step(from, to, 1, b[bitcount]) /\ Keep

\* An SCL low step that puts the current bit of byte b on SDA.
PutBit(from, b, to) == Step(from, to, 0, b[bitcount]) /\ Keep

\* (Mutant: a bit too few.)

CountDownShort(from, more, done) ==
  /\ bitcount' = IF bitcount - 1 > 0 THEN bitcount - 1 ELSE 7
  /\ Step(from, IF bitcount - 1 > 0 THEN more ELSE done, 1, SDA01)

\* The SCL high step after it: back to "more" or, after bit 0, on to "done".
CountDown(from, more, done) ==
  /\ bitcount' = IF bitcount - 1 >= 0 THEN bitcount - 1 ELSE 7
  /\ Step(from, IF bitcount - 1 >= 0 THEN more ELSE done, 1, SDA01)

ClockBit(from, more, done) ==
  /\ CountDown(from, more, done)
  /\ UNCHANGED <<Ack, RegisterAddress, Data, DataOut, RegisterAddressOut>>

\* SDA is released with SCL low, for the other end to drive.
Release(from, to) == Step(from, to, 0, 1)

\* (Mutants: a refused byte is waited for again; a refusal is overlooked.)
CheckAckAgain(from, code, to) ==
  /\ Step(from, IF SDA = 1 THEN "12" ELSE to, 1, SDA01)
  /\ Ack' = SDA
  /\ RegisterAddressOut' = IF SDA = 1 THEN ByteOf(code) ELSE RegisterAddressOut

CheckAckIgnored(from, code, to) ==
  /\ Step(from, to, 1, SDA01)
  /\ Ack' = SDA
  /\ UNCHANGED RegisterAddressOut

\* The acknowledgment is read as SCL rises: a 1 is an error, reported by
\* the number of the state on RegisterAddressOut.
CheckAck(from, code, to) ==
  /\ Step(from, IF SDA = 1 THEN "EE" ELSE to, 1, SDA01)
  /\ Ack' = SDA
  /\ RegisterAddressOut' = IF SDA = 1 THEN ByteOf(code) ELSE RegisterAddressOut

(***************************************************************************)
(* One action per state of the controller, in the order of the source.     *)
(***************************************************************************)
Idle ==                                                            \* 00
  /\ Step("00", "01", 1, 1)
  /\ RegisterAddressOut' = RegisterAddress
  /\ DataOut' = ZeroByte
  /\ UNCHANGED <<bitcount, Ack, RegisterAddress, Data>>

Start(from, to) ==                                             \* 01, 72
  /\ Step(from, to, 1, 0)
  /\ bitcount' = 7
  /\ UNCHANGED <<Ack, RegisterAddress, Data, DataOut, RegisterAddressOut>>

SelectForWrite ==                                          \* 02, 03, 12, 13
  \/ PutBit("02", SlaveAddress_Write, "03")
  \/ ClockBit("03", "02", "12")
  \/ Release("12", "13") /\ Keep
  \/ /\ CheckAck("13", 19, "20")
     /\ UNCHANGED <<bitcount, RegisterAddress, Data, DataOut>>

SendRegisterAddress ==                                     \* 20, 21, 30, 31
  \/ PutBit("20", AddressIn, "21")
  \/ ClockBit("21", "20", "30")
  \/ Release("30", "31") /\ Keep
  \/ /\ CheckAck("31", 49, IF Read_WriteN = 0 THEN "40" ELSE "70")
     /\ RegisterAddress' = AddressIn
     /\ UNCHANGED <<bitcount, Data, DataOut>>

SendData ==                                                \* 40, 41, 50, 51
  \/ PutBit("40", DataIn, "41")
  \/ ClockBit("41", "40", "50")
  \/ /\ Release("50", "51")
     /\ RegisterAddressOut' = AddressIn
     /\ DataOut' = DataIn
     /\ UNCHANGED <<bitcount, Ack, RegisterAddress, Data>>
  \/ /\ CheckAck("51", 81, "52")
     /\ UNCHANGED <<bitcount, RegisterAddress, Data, DataOut>>

Stop(low, high, release) ==                    \* 52, 53, 54 and D3, D4, D5
  /\ \/ Step(low, high, 0, 0)
     \/ Step(high, release, 1, 0)
     \/ Step(release, "01", 1, 1)
  /\ Keep

RepeatStart ==                                                 \* 70, 71, 72
  \/ /\ Release("70", IF SDA = 1 THEN "EE" ELSE "71")
     /\ RegisterAddressOut' = IF SDA = 1 THEN ByteOf(112)
                              ELSE RegisterAddressOut
     /\ UNCHANGED <<bitcount, Ack, RegisterAddress, Data, DataOut>>
  \/ Step("71", "72", 1, 1) /\ Keep
  \/ Start("72", "82")

SelectForRead ==                                           \* 82, 83, 92, 93
  \/ PutBit("82", SlaveAddress_Read, "83")
  \/ ClockBit("83", "82", "92")
  \/ Release("92", "93") /\ Keep
  \/ /\ CheckAck("93", 147, "C0")
     /\ bitcount' = IF SDA = 1 THEN bitcount ELSE 7
     /\ UNCHANGED <<RegisterAddress, Data, DataOut>>

\* Data(bitcount) <= SDA
TakeBit(b) == [Data EXCEPT ![bitcount] = b]

ReceiveData ==                                         \* C0, C1, D0, D2
  \/ Release("C0", "C1") /\ Keep
  \/ /\ CountDown("C1", "C0", "D0")
     /\ Data' = TakeBit(SDA)
     /\ UNCHANGED <<Ack, RegisterAddress, DataOut, RegisterAddressOut>>
  \/ /\ Release("D0", "D2")
     /\ RegisterAddressOut' = RegisterAddress
     /\ DataOut' = Data
     /\ UNCHANGED <<bitcount, Ack, RegisterAddress, Data>>
  \/ Step("D2", "D3", 1, SDA01) /\ Keep

Error == Step("EE", "EE", 1, 1) /\ Keep                            \* EE

Clock ==
  \/ Idle
  \/ Start("01", "02")
  \/ SelectForWrite
  \/ SendRegisterAddress
  \/ SendData
  \/ Stop("52", "53", "54")
  \/ RepeatStart
  \/ SelectForRead
  \/ ReceiveData
  \/ Stop("D3", "D4", "D5")
  \/ Error

(***************************************************************************)
(* ResetN is asynchronous and releases both wires at once.  When SCL was   *)
(* low the device may see either wire move first.                          *)
(***************************************************************************)
AssertReset ==
  /\ ResetN = 1
  /\ resets < MaxResets
  /\ resets' = resets + 1
  /\ ResetN' = 0
  /\ state' = "00"
  /\ SCL' = 1
  /\ SDA01' = 1
  /\ Ack' = 0
  /\ DataOut' = ZeroByte
  /\ RegisterAddress' = ByteOf(255)
  /\ LET rising  == SDA = 0 /\ slave.drive = 1
         clocked == IF SCL = 0 THEN SeesRise(slave, SDA) ELSE slave
     IN  \/ slave' = IF rising THEN SeesStop(clocked) ELSE clocked
         \/ SCL = 0 /\ slave' = SeesRise(slave, slave.drive)
  /\ UNCHANGED <<bitcount, Data, RegisterAddressOut, request>>

ReleaseReset ==
  /\ ResetN = 0
  /\ ResetN' = 1
  /\ UNCHANGED <<state, SCL, SDA01, bitcount, Ack, RegisterAddress, Data,
                 DataOut, RegisterAddressOut, slave, request, resets>>

(***************************************************************************)
(* The client changes what it asks for, at any time or, when it holds its  *)
(* request, between transactions only.                                     *)
(***************************************************************************)
ChangeRequest ==
  /\ InputsHeld => state \in {"00", "01"}
  /\ AddressIn' \in Addrs
  /\ DataIn' \in Values
  /\ Read_WriteN' \in {0, 1}
  /\ UNCHANGED <<state, SCL, SDA01, bitcount, Ack, RegisterAddress, Data,
                 DataOut, RegisterAddressOut, slave, ResetN, resets>>

Init ==
  /\ state = "00" /\ SCL = 1 /\ SDA01 = 1 /\ bitcount = 0 /\ Ack = 0
  /\ RegisterAddress = ByteOf(255)
  /\ Data = ZeroByte /\ DataOut = ZeroByte /\ RegisterAddressOut = ZeroByte
  /\ ResetN = 0 /\ resets = 0
  /\ AddressIn \in Addrs /\ DataIn \in Values /\ Read_WriteN \in {0, 1}
  /\ \E regs \in [Addrs -> Values] : slave = PoweredUp(regs)

Next == Clock \/ AssertReset \/ ReleaseReset \/ ChangeRequest

Spec     == Init /\ [][Next]_vars
FairSpec == Spec /\ WF_vars(Clock) /\ WF_vars(ReleaseReset)

(***************************************************************************)
(* Properties.                                                             *)
(***************************************************************************)
States ==
  {"00", "01", "02", "03", "12", "13", "20", "21", "30", "31", "40", "41",
   "50", "51", "52", "53", "54", "70", "71", "72", "82", "83", "92", "93",
   "C0", "C1", "D0", "D2", "D3", "D4", "D5", "EE"}

\* Every register of the controller and of the device has its range.
TypeOK ==
  /\ state \in States
  /\ SCL \in {0, 1} /\ SDA01 \in {0, 1} /\ Ack \in {0, 1}
  /\ bitcount \in Bits
  /\ RegisterAddress \in Byte /\ Data \in Byte /\ DataOut \in Byte
  /\ RegisterAddressOut \in Byte
  /\ ResetN \in {0, 1} /\ resets \in 0 .. MaxResets
  /\ AddressIn \in Addrs /\ DataIn \in Values /\ Read_WriteN \in {0, 1}
  /\ slave \in Slave(Addrs, Byte)

(***************************************************************************)
(* I2C_controller.vhd:47: "SDA is changed only when SCL is low except for  *)
(* sending the start and stop bits": a step that finds SCL high and leaves *)
(* it high moves the controller's side of SDA only to send START (01, 72)  *)
(* or STOP (54, D5), or because of a reset.                                *)
(***************************************************************************)
SdaMovesOnlyForStartStop ==
  [][SCL = 1 /\ SCL' = 1 /\ SDA01' # SDA01
       => IF SDA01' = 0 THEN state \in {"01", "72"}
          ELSE state \in {"54", "D5"} \/ ResetN' = 0]_vars

(***************************************************************************)
(* Where the device must be in the conversation when the controller is     *)
(* about to take the step of a state: the meaning it gives to the bits and *)
(* the clock pulses it has counted.  In the first step of a byte the       *)
(* device is still in the acknowledgment of the byte before it.            *)
(***************************************************************************)
Conversation ==
  LET k == 7 - bitcount IN
  CASE state \in {"00", "01", "D3", "D4", "D5"} -> {<<"unselected", slave.count>>}
    [] state \in {"02", "03", "82", "83"} -> {<<"select", k>>}
    [] state \in {"12", "92"} -> {<<"select", 8>>}
    [] state = "20" -> {IF k = 0 THEN <<"select", 9>> ELSE <<"pointer", k>>}
    [] state = "21" -> {<<"pointer", k>>}
    [] state = "30" -> {<<"pointer", 8>>}
    [] state = "40" -> {IF k = 0 THEN <<"pointer", 9>> ELSE <<"store", k>>}
    [] state = "41" -> {<<"store", k>>}
    [] state = "50" -> {<<"store", 8>>}
    [] state = "52" -> {<<"store", 9>>}
    [] state = "70" -> {<<"pointer", 9>>}
    [] state \in {"53", "71"} -> {<<"store", 0>>}
    [] state \in {"54", "72"} -> {<<"store", 1>>}
    [] state = "C0" -> {IF k = 0 THEN <<"select", 9>> ELSE <<"send", k>>}
    [] state = "C1" -> {<<"send", k>>}
    [] state \in {"D0", "D2"} -> {<<"send", 8>>}
    [] state \in {"13", "93"} ->
         {<<"select", 8>>, <<"unselected", slave.count>>}
    [] state = "31" -> {<<"pointer", 8>>, <<"unselected", slave.count>>}
    [] state = "51" -> {<<"store", 8>>, <<"unselected", slave.count>>}
    [] state = "EE" -> {<<"unselected", slave.count>>}

(***************************************************************************)
(* The two ends never lose step: as long as no reset cuts a transaction    *)
(* short, the device counts exactly the bits the controller sends, gives   *)
(* them the meaning the controller means, and after a refused byte or a    *)
(* STOP is out of the conversation.                                        *)
(***************************************************************************)
InStep == resets = 0 => <<slave.phase, slave.count>> \in Conversation

(***************************************************************************)
(* One end at a time pulls SDA down: where the device drives it (its       *)
(* acknowledgments and its data) the controller has released it.           *)
(***************************************************************************)
OneDriver == resets = 0 => SDA01 = 1 \/ slave.drive = 1

(***************************************************************************)
(* What a completed read hands over (DataOut from state D2 on) is the      *)
(* content of the register the device was pointed at, all eight bits in    *)
(* their places; and a client that holds its request during a transaction  *)
(* gets the register it asked for, reported in RegisterAddressOut.         *)
(***************************************************************************)
ReadIsFaithful ==
  resets = 0 /\ state \in {"D2", "D3", "D4", "D5"}
    => /\ DataOut = RegisterValue(slave, slave.pointer)
       /\ InputsHeld => slave.pointer = AddressIn
                        /\ RegisterAddressOut = AddressIn

(***************************************************************************)
(* Controller and device agree: about the bits exchanged, about who drives *)
(* SDA, and about what was read; and their registers keep their ranges.    *)
(***************************************************************************)
EndsAgree == TypeOK /\ InStep /\ OneDriver /\ ReadIsFaithful

(***************************************************************************)
(* I2C_controller.vhd:52: "when idle, both SDA and SCL = 1".  True as long *)
(* as nothing but the controller decides when it is idle: without a reset  *)
(* in the middle of a transaction.                                         *)
(***************************************************************************)
BusHighWhenIdle == state \in {"00", "01"} => SCL = 1 /\ SDA = 1

(***************************************************************************)
(* The controller never hangs half-way: a transaction it has started ends  *)
(* with STOP (54, D5), the acknowledge error (EE) or a reset.              *)
(***************************************************************************)
TransactionsEnd == state = "02" ~> state \in {"54", "D5", "EE", "00"}

(***************************************************************************)
(* The controller and its device, seen from the client, are a port to the  *)
(* registers (module RegisterPort): a write takes effect where the device  *)
(* stores it, with the SCL edge of state 50, a read where D0 hands it      *)
(* over.  The client has to hold its request; once it has given a reset,   *)
(* nothing is promised.                                                    *)
(***************************************************************************)
PortPhase ==
  IF resets > 0 THEN "abandoned"
  ELSE CASE state \in {"00", "01"} -> "idle"
         [] state \in {"52", "53", "54", "D2", "D3", "D4", "D5"} -> "served"
         [] state = "51" ->
              IF slave.phase = "unselected" THEN "refused" ELSE "served"
         [] state = "EE" -> "refused"
         [] OTHER -> "busy"

Port == INSTANCE RegisterPort
          WITH regs <- slave.regs, out <- DataOut, phase <- PortPhase

ImplementsRegisterPort == Port!Spec
=============================================================================
