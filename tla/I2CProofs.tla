----------------------------- MODULE I2CProofs -----------------------------
(***************************************************************************)
(* Theorems about the I2C master and its two users, for all addresses and  *)
(* values: I2CController and OneShotController, with and without refusals  *)
(* by the device and for any number of resets, and SensorReader (below).   *)
(***************************************************************************)
EXTENDS OneShotController, SensorReader, TLAPS

(***************************************************************************)
(* The device: its reactions keep its record well-formed.                  *)
(***************************************************************************)

\* A number taken bit by bit gives a byte.
LEMMA ByteOfType == \A n \in Nat : ByteOf(n) \in Byte
<1> SUFFICES ASSUME NEW n \in Nat, NEW i \in Bits
             PROVE  (n \div Weight[i + 1]) % 2 \in {0, 1}
  BY DEF ByteOf, Byte
<1>1. Weight[i + 1] \in {1, 2, 4, 8, 16, 32, 64, 128}
  BY DEF Weight, Bits
<1>2. n \div Weight[i + 1] \in Int
  BY <1>1
<1>3. QED
  BY <1>2

LEMMA ZeroByteType == ZeroByte \in Byte
  BY DEF ZeroByte, Byte

\* The pointer's successor is a byte.
LEMMA NextPointerType == \A p \in Byte : NextPointer(p) \in Byte
<1> SUFFICES ASSUME NEW p \in Byte PROVE NextPointer(p) \in Byte
  OBVIOUS
<1>1. \A i \in Bits : p[i] \in {0, 1}
  BY DEF Byte
<1>2. ValueOf(p) \in Nat
  BY <1>1 DEF ValueOf, Bits
<1>3. (ValueOf(p) + 1) % 256 \in Nat
  BY <1>2
<1>4. QED
  BY <1>3, ByteOfType DEF NextPointer

Device == Slave(Addrs, Byte)


\* The constants of the device's record that the provers need one by one.
LEMMA PhaseFacts ==
  /\ \A p \in {"unselected", "select", "pointer", "store", "send"} : p \in Phases
  /\ 0 \in 0 .. 9 /\ 9 \in 0 .. 9
  BY DEF Phases, Receiving

LEMMA StartType == ASSUME NEW s \in Device PROVE SeesStart(s) \in Device
  BY PhaseFacts DEF Device, Slave, SeesStart

LEMMA StopType == ASSUME NEW s \in Device PROVE SeesStop(s) \in Device
  BY PhaseFacts DEF Device, Slave, SeesStop

LEMMA RiseType ==
  ASSUME NEW s \in Device, NEW b \in {0, 1}
  PROVE  SeesRise(s, b) \in Device
<1>1. CASE s.phase = "unselected"
  BY <1>1 DEF SeesRise, Receiving
<1>2. CASE s.phase \in Receiving /\ s.count < 8
  <2>1. [s.byte EXCEPT ![7 - s.count] = b] \in Byte
    BY <1>2 DEF Device, Slave, Byte, Bits
  <2>2. s.count + 1 \in 0 .. 9
    BY <1>2 DEF Device, Slave
  <2>3. QED
    BY <1>2, <2>1, <2>2 DEF SeesRise, Device, Slave, Receiving
<1>3. CASE s.phase = "send" /\ s.count = 8 /\ b = 1
  <2>1. SeesRise(s, b) = [s EXCEPT !.phase = "unselected", !.count = 9]
    BY <1>3 DEF SeesRise, Receiving
  <2>2. QED
    BY <2>1, PhaseFacts DEF Device, Slave
<1>4. CASE /\ s.phase # "unselected"
           /\ ~(s.phase \in Receiving /\ s.count < 8)
           /\ ~(s.phase = "send" /\ s.count = 8 /\ b = 1)
  <2>1. SeesRise(s, b) = [s EXCEPT !.count = IF @ < 9 THEN @ + 1 ELSE @]
    BY <1>4 DEF SeesRise
  <2>2. (IF s.count < 9 THEN s.count + 1 ELSE s.count) \in 0 .. 9
    BY DEF Device, Slave
  <2>3. QED
    BY <2>1, <2>2 DEF Device, Slave
<1>5. QED
  BY <1>1, <1>2, <1>3, <1>4

\* A device that starts to send the register at p.
LEMMA SendingType ==
  ASSUME NEW s \in Device, NEW p \in Byte
  PROVE  Sending(s, p) \in Device
<1>1. RegisterValue(s, p) \in Byte
  BY ZeroByteType DEF RegisterValue, Device, Slave
<1>2. RegisterValue(s, p)[7] \in {0, 1}
  BY <1>1 DEF Byte, Bits
<1>3. QED
  BY <1>1, <1>2, PhaseFacts DEF Sending, Device, Slave

LEMMA FallType ==
  ASSUME NEW s \in Device, NEW own \in Byte, NEW ok \in BOOLEAN
  PROVE  SeesFall(s, own, ok) \in Device
<1>1. CASE s.phase = "unselected"
  BY <1>1 DEF SeesFall, Receiving, Device, Slave
<1>2. CASE s.phase \in Receiving /\ s.count = 8
  <2>1. CASE ~ok \/ (s.phase = "select" /\ ~IsSelectedBy(s.byte, own))
    <3>1. SeesFall(s, own, ok) = [s EXCEPT !.phase = "unselected"]
      BY <1>2, <2>1 DEF SeesFall, Receiving
    <3>2. QED
      BY <3>1, PhaseFacts DEF Device, Slave
  <2>2. CASE ~(~ok \/ (s.phase = "select" /\ ~IsSelectedBy(s.byte, own)))
    <3> DEFINE pointer == IF s.phase = "pointer" THEN s.byte ELSE s.pointer
               regs == IF s.phase = "store" /\ s.pointer \in DOMAIN s.regs
                       THEN [s.regs EXCEPT ![s.pointer] = s.byte] ELSE s.regs
    <3>1. SeesFall(s, own, ok)
            = [s EXCEPT !.drive = 0, !.pointer = pointer, !.regs = regs]
      BY <1>2, <2>2 DEF SeesFall, Receiving
    <3>2. pointer \in Byte /\ regs \in [Addrs -> Byte]
      BY DEF Device, Slave
    <3>3. QED
      BY <3>1, <3>2 DEF Device, Slave
  <2>3. QED
    BY <2>1, <2>2
<1>3. CASE s.phase = "select" /\ s.count = 9
  <2>1. CASE s.byte[0] = 1
    <3>1. SeesFall(s, own, ok) = Sending(s, s.pointer)
      BY <1>3, <2>1 DEF SeesFall, Receiving
    <3>2. QED
      BY <3>1, SendingType DEF Device, Slave
  <2>2. CASE s.byte[0] # 1
    <3>1. SeesFall(s, own, ok)
            = [s EXCEPT !.phase = "pointer", !.count = 0, !.drive = 1]
      BY <1>3, <2>2 DEF SeesFall, Receiving
    <3>2. QED
      BY <3>1, PhaseFacts DEF Device, Slave
  <2>3. QED
    BY <2>1, <2>2
<1>4. CASE s.phase = "pointer" /\ s.count = 9
  <2>1. SeesFall(s, own, ok)
          = [s EXCEPT !.phase = "store", !.count = 0, !.drive = 1]
    BY <1>4 DEF SeesFall, Receiving
  <2>2. QED
    BY <2>1, PhaseFacts DEF Device, Slave
<1>5. CASE s.phase = "store" /\ s.count = 9
  <2>1. SeesFall(s, own, ok)
          = [s EXCEPT !.count = 0, !.drive = 1, !.pointer = NextPointer(@)]
    BY <1>5 DEF SeesFall, Receiving
  <2>2. NextPointer(s.pointer) \in Byte
    BY NextPointerType DEF Device, Slave
  <2>3. QED
    BY <2>1, <2>2, PhaseFacts DEF Device, Slave
<1>6. CASE s.phase = "send" /\ s.count < 8
  <2>1. SeesFall(s, own, ok) = [s EXCEPT !.drive = s.byte[7 - s.count]]
    BY <1>6 DEF SeesFall, Receiving, Device, Slave
  <2>2. s.byte[7 - s.count] \in {0, 1}
    BY <1>6 DEF Device, Slave, Byte, Bits
  <2>3. QED
    BY <2>1, <2>2 DEF Device, Slave
<1>7. CASE s.phase = "send" /\ s.count = 8
  <2>1. SeesFall(s, own, ok) = [s EXCEPT !.drive = 1]
    BY <1>7 DEF SeesFall, Receiving
  <2>2. QED
    BY <2>1 DEF Device, Slave
<1>8. CASE s.phase = "send" /\ s.count = 9
  <2>1. SeesFall(s, own, ok) = Sending(s, NextPointer(s.pointer))
    BY <1>8 DEF SeesFall, Receiving
  <2>2. NextPointer(s.pointer) \in Byte
    BY NextPointerType DEF Device, Slave
  <2>3. QED
    BY <2>1, <2>2, SendingType
<1>9. CASE s.phase \in Receiving /\ s.count < 8
  BY <1>9 DEF SeesFall, Receiving, Device, Slave
<1>10. s.phase \in Phases /\ s.count \in 0 .. 9
  BY DEF Device, Slave
<1>11. QED
  BY <1>1, <1>2, <1>3, <1>4, <1>5, <1>6, <1>7, <1>8, <1>9, <1>10
     DEF Phases, Receiving

(***************************************************************************)
(* The controller.                                                         *)
(***************************************************************************)

LEMMA SlaveAddressType == SlaveAddress_Write \in Byte /\ SlaveAddress_Read \in Byte
  BY ByteOfType DEF SlaveAddress_Write, SlaveAddress_Read

LEMMA WiredType == \A a, b : Wired(a, b) \in {0, 1}
  BY DEF Wired

\* The device's reaction to a step of the controller.
LEMMA ReactionType ==
  ASSUME TypeOK, SlaveReacts
  PROVE  slave' \in Slave(Addrs, Byte)
<1> PICK ok \in BOOLEAN :
      LET sda == Wired(SDA01', slave.drive) IN
      slave' = CASE SCL = 1 /\ SCL' = 1 /\ SDA = 1 /\ sda = 0 -> SeesStart(slave)
                 [] SCL = 1 /\ SCL' = 1 /\ SDA = 0 /\ sda = 1 -> SeesStop(slave)
                 [] SCL = 0 /\ SCL' = 1 -> SeesRise(slave, sda)
                 [] SCL = 1 /\ SCL' = 0 ->
                      SeesFall(slave, SlaveAddress_Write, ok)
                 [] OTHER -> slave
  BY DEF SlaveReacts
<1> DEFINE sda == Wired(SDA01', slave.drive)
<1>1. slave \in Device /\ sda \in {0, 1} /\ SlaveAddress_Write \in Byte
  BY WiredType, SlaveAddressType DEF TypeOK, Device
<1>2. /\ SeesStart(slave) \in Device
      /\ SeesStop(slave) \in Device
      /\ SeesRise(slave, sda) \in Device
      /\ SeesFall(slave, SlaveAddress_Write, ok) \in Device
  BY <1>1, StartType, StopType, RiseType, FallType
<1> HIDE DEF sda
<1>3. slave' \in Device
  BY <1>1, <1>2 DEF sda
<1>4. QED
  BY <1>3 DEF Device

\* What a step of the clocked process leaves well-formed whatever its state:
\* the wires, the device and the inputs.
WiresOK ==
  /\ state \in States
  /\ SCL \in {0, 1} /\ SDA01 \in {0, 1}
  /\ ResetN \in {0, 1} /\ resets \in 0 .. MaxResets
  /\ AddressIn \in Addrs /\ DataIn \in Values /\ Read_WriteN \in {0, 1}
  /\ slave \in Slave(Addrs, Byte)

RegistersOK ==
  /\ Ack \in {0, 1}
  /\ bitcount \in Bits
  /\ RegisterAddress \in Byte /\ Data \in Byte /\ DataOut \in Byte
  /\ RegisterAddressOut \in Byte

LEMMA TypeParts ==
  /\ TypeOK <=> WiresOK /\ RegistersOK
  /\ TypeOK' <=> WiresOK' /\ RegistersOK'
  BY DEF TypeOK, WiresOK, RegistersOK

LEMMA StepType ==
  ASSUME TypeOK, NEW from, NEW to \in States, NEW scl \in {0, 1},
         NEW sda \in {0, 1}, Step(from, to, scl, sda)
  PROVE  WiresOK'
<1>1. slave' \in Slave(Addrs, Byte)
  BY ReactionType DEF Step
<1>2. QED
  BY <1>1 DEF TypeOK, WiresOK, Step, environs, request

LEMMA CountDownType ==
  ASSUME TypeOK, NEW from, NEW more \in States, NEW done \in States,
         CountDown(from, more, done)
  PROVE  WiresOK' /\ bitcount' \in Bits
<1>1. WiresOK'
  BY StepType DEF CountDown, TypeOK
<1>2. bitcount' \in Bits
  BY DEF CountDown, TypeOK, Bits
<1>3. QED
  BY <1>1, <1>2

LEMMA ClockBitType ==
  ASSUME TypeOK, NEW from, NEW more \in States, NEW done \in States,
         ClockBit(from, more, done)
  PROVE  TypeOK'
  BY CountDownType, TypeParts DEF ClockBit, TypeOK, RegistersOK

LEMMA PutBitType ==
  ASSUME TypeOK, NEW from, NEW b \in Byte, NEW to \in States,
         PutBit(from, b, to)
  PROVE  TypeOK'
<1>1. b[bitcount] \in {0, 1}
  BY DEF TypeOK, Byte
<1>2. WiresOK'
  BY <1>1, StepType DEF PutBit
<1>3. QED
  BY <1>2, TypeParts DEF PutBit, Keep, RegistersOK

LEMMA ReleaseType ==
  ASSUME TypeOK, NEW from, NEW to \in States, Release(from, to)
  PROVE  WiresOK'
  BY StepType DEF Release

LEMMA CheckAckType ==
  ASSUME TypeOK, NEW from, NEW code \in Nat, NEW to \in States,
         CheckAck(from, code, to)
  PROVE  WiresOK' /\ Ack' \in {0, 1} /\ RegisterAddressOut' \in Byte
<1>1. (IF SDA = 1 THEN "EE" ELSE to) \in States
  BY DEF States
<1>2. WiresOK'
  BY <1>1, StepType DEF CheckAck, TypeOK
<1>3. Ack' \in {0, 1} /\ RegisterAddressOut' \in Byte
  BY WiredType, ByteOfType DEF CheckAck, SDA, TypeOK
<1>4. QED
  BY <1>2, <1>3

LEMMA StopStepType ==
  ASSUME TypeOK, NEW low, NEW high \in States, NEW release \in States,
         Stop(low, high, release)
  PROVE  TypeOK'
<1>1. "01" \in States
  BY DEF States
<1>2. WiresOK'
  BY <1>1, StepType DEF Stop
<1>3. QED
  BY <1>2, TypeParts DEF Stop, Keep, RegistersOK

LEMMA StartStepType ==
  ASSUME TypeOK, NEW from, NEW to \in States, Start(from, to)
  PROVE  TypeOK'
<1>1. WiresOK'
  BY StepType DEF Start
<1>2. QED
  BY <1>1, TypeParts DEF Start, RegistersOK, Bits

LEMMA InputsType ==
  ASSUME TypeOK PROVE AddressIn \in Byte /\ DataIn \in Byte
  BY ConstantsAssumption DEF TypeOK

\* The states, one by one, for the steps that name them.
LEMMA StatesListed ==
  /\ "00" \in States /\ "01" \in States /\ "02" \in States /\ "03" \in States
  /\ "12" \in States /\ "13" \in States /\ "20" \in States /\ "21" \in States
  /\ "30" \in States /\ "31" \in States /\ "40" \in States /\ "41" \in States
  /\ "50" \in States /\ "51" \in States /\ "52" \in States /\ "53" \in States
  /\ "54" \in States /\ "70" \in States /\ "71" \in States /\ "72" \in States
  /\ "82" \in States /\ "83" \in States /\ "92" \in States /\ "93" \in States
  /\ "C0" \in States /\ "C1" \in States /\ "D0" \in States /\ "D2" \in States
  /\ "D3" \in States /\ "D4" \in States /\ "D5" \in States /\ "EE" \in States
  BY DEF States

\* Every action that is not one of the shared shapes above, case by case.
LEMMA ClockType == ASSUME TypeOK, Clock PROVE TypeOK'
<1> USE StatesListed
<1>1. CASE Idle
  <2>1. WiresOK'
    BY <1>1, StepType DEF Idle
  <2>2. QED
    BY <1>1, <2>1, TypeParts, ZeroByteType DEF Idle, RegistersOK
<1>2. CASE Start("01", "02")
  BY <1>2, StartStepType
<1>3. CASE SelectForWrite
  <2>1. CASE PutBit("02", SlaveAddress_Write, "03")
    BY <2>1, PutBitType, SlaveAddressType
  <2>2. CASE ClockBit("03", "02", "12")
    BY <2>2, ClockBitType
  <2>3. CASE Release("12", "13") /\ Keep
    BY <2>3, ReleaseType, TypeParts DEF Keep, RegistersOK
  <2>4. CASE /\ CheckAck("13", 19, "20")
             /\ UNCHANGED <<bitcount, RegisterAddress, Data, DataOut>>
    BY <2>4, CheckAckType, TypeParts DEF RegistersOK
  <2>5. QED
    BY <1>3, <2>1, <2>2, <2>3, <2>4 DEF SelectForWrite
<1>4. CASE SendRegisterAddress
  <2>1. CASE PutBit("20", AddressIn, "21")
    BY <2>1, PutBitType, InputsType
  <2>2. CASE ClockBit("21", "20", "30")
    BY <2>2, ClockBitType
  <2>3. CASE Release("30", "31") /\ Keep
    BY <2>3, ReleaseType, TypeParts DEF Keep, RegistersOK
  <2>4. CASE /\ CheckAck("31", 49, IF Read_WriteN = 0 THEN "40" ELSE "70")
             /\ RegisterAddress' = AddressIn
             /\ UNCHANGED <<bitcount, Data, DataOut>>
    BY <2>4, CheckAckType, TypeParts, InputsType DEF RegistersOK
  <2>5. QED
    BY <1>4, <2>1, <2>2, <2>3, <2>4 DEF SendRegisterAddress
<1>5. CASE SendData
  <2>1. CASE PutBit("40", DataIn, "41")
    BY <2>1, PutBitType, InputsType
  <2>2. CASE ClockBit("41", "40", "50")
    BY <2>2, ClockBitType
  <2>3. CASE /\ Release("50", "51")
             /\ RegisterAddressOut' = AddressIn
             /\ DataOut' = DataIn
             /\ UNCHANGED <<bitcount, Ack, RegisterAddress, Data>>
    BY <2>3, ReleaseType, TypeParts, InputsType DEF RegistersOK
  <2>4. CASE /\ CheckAck("51", 81, "52")
             /\ UNCHANGED <<bitcount, RegisterAddress, Data, DataOut>>
    BY <2>4, CheckAckType, TypeParts DEF RegistersOK
  <2>5. QED
    BY <1>5, <2>1, <2>2, <2>3, <2>4 DEF SendData
<1>6. CASE Stop("52", "53", "54")
  BY <1>6, StopStepType
<1>7. CASE RepeatStart
  <2>1. CASE /\ Release("70", IF SDA = 1 THEN "EE" ELSE "71")
             /\ RegisterAddressOut' = IF SDA = 1 THEN ByteOf(112)
                                      ELSE RegisterAddressOut
             /\ UNCHANGED <<bitcount, Ack, RegisterAddress, Data, DataOut>>
    BY <2>1, ReleaseType, TypeParts, ByteOfType DEF RegistersOK
  <2>2. CASE Step("71", "72", 1, 1) /\ Keep
    BY <2>2, StepType, TypeParts DEF Keep, RegistersOK
  <2>3. CASE Start("72", "82")
    BY <2>3, StartStepType
  <2>4. QED
    BY <1>7, <2>1, <2>2, <2>3 DEF RepeatStart
<1>8. CASE SelectForRead
  <2>1. CASE PutBit("82", SlaveAddress_Read, "83")
    BY <2>1, PutBitType, SlaveAddressType
  <2>2. CASE ClockBit("83", "82", "92")
    BY <2>2, ClockBitType
  <2>3. CASE Release("92", "93") /\ Keep
    BY <2>3, ReleaseType, TypeParts DEF Keep, RegistersOK
  <2>4. CASE /\ CheckAck("93", 147, "C0")
             /\ bitcount' = IF SDA = 1 THEN bitcount ELSE 7
             /\ UNCHANGED <<RegisterAddress, Data, DataOut>>
    BY <2>4, CheckAckType, TypeParts DEF RegistersOK, Bits
  <2>5. QED
    BY <1>8, <2>1, <2>2, <2>3, <2>4 DEF SelectForRead
<1>9. CASE ReceiveData
  <2>1. CASE Release("C0", "C1") /\ Keep
    BY <2>1, ReleaseType, TypeParts DEF Keep, RegistersOK
  <2>2. CASE /\ CountDown("C1", "C0", "D0")
             /\ Data' = TakeBit(SDA)
             /\ UNCHANGED <<Ack, RegisterAddress, DataOut, RegisterAddressOut>>
    <3>1. TakeBit(SDA) \in Byte
      BY WiredType DEF TakeBit, SDA, TypeOK, Byte
    <3>2. QED
      BY <2>2, <3>1, CountDownType, TypeParts DEF RegistersOK
  <2>3. CASE /\ Release("D0", "D2")
             /\ RegisterAddressOut' = RegisterAddress
             /\ DataOut' = Data
             /\ UNCHANGED <<bitcount, Ack, RegisterAddress, Data>>
    BY <2>3, ReleaseType, TypeParts DEF RegistersOK
  <2>4. CASE Step("D2", "D3", 1, SDA01) /\ Keep
    BY <2>4, StepType, TypeParts DEF Keep, RegistersOK, WiresOK
  <2>5. QED
    BY <1>9, <2>1, <2>2, <2>3, <2>4 DEF ReceiveData
<1>10. CASE Stop("D3", "D4", "D5")
  BY <1>10, StopStepType
<1>11. CASE Error
  BY <1>11, StepType, TypeParts DEF Error, Keep, RegistersOK
<1>12. QED
  BY <1>1, <1>2, <1>3, <1>4, <1>5, <1>6, <1>7, <1>8, <1>9, <1>10, <1>11
     DEF Clock

LEMMA AssertResetType == ASSUME TypeOK, AssertReset PROVE TypeOK'
<1> DEFINE clocked == IF SCL = 0 THEN SeesRise(slave, SDA) ELSE slave
           rising  == SDA = 0 /\ slave.drive = 1
<1>1. slave \in Device /\ slave.drive \in {0, 1} /\ SDA \in {0, 1}
  BY WiredType DEF TypeOK, Device, Slave, SDA
<1>2. SeesRise(slave, SDA) \in Device /\ SeesRise(slave, slave.drive) \in Device
  BY <1>1, RiseType
<1>3. clocked \in Device
  BY <1>1, <1>2
<1>4. SeesStop(clocked) \in Device
  BY <1>3, StopType
<1>5. \/ slave' = IF rising THEN SeesStop(clocked) ELSE clocked
      \/ slave' = SeesRise(slave, slave.drive)
  BY DEF AssertReset
<1> HIDE DEF clocked, rising
<1>6. slave' \in Slave(Addrs, Byte)
  BY <1>2, <1>3, <1>4, <1>5 DEF Device
<1>7. WiresOK'
  <2>1. resets' \in 0 .. MaxResets
    BY ConstantsAssumption DEF AssertReset, TypeOK
  <2>2. QED
    BY <1>6, <2>1, StatesListed DEF AssertReset, TypeOK, WiresOK, request
<1>8. RegistersOK'
  BY ZeroByteType, ByteOfType DEF AssertReset, TypeOK, RegistersOK
<1>9. QED
  BY <1>7, <1>8, TypeParts

LEMMA InitType == ASSUME Init PROVE TypeOK
<1>1. PICK regs \in [Addrs -> Values] : slave = PoweredUp(regs)
  BY DEF Init
<1>2. regs \in [Addrs -> Byte]
  BY ConstantsAssumption
<1>3. slave \in Slave(Addrs, Byte)
  BY <1>1, <1>2, ZeroByteType, PhaseFacts DEF PoweredUp, Slave
<1>4. 0 \in 0 .. MaxResets /\ 0 \in Bits
  BY ConstantsAssumption DEF Bits
<1>5. WiresOK
  BY <1>3, <1>4, StatesListed DEF Init, WiresOK
<1>6. RegistersOK
  BY <1>4, ZeroByteType, ByteOfType DEF Init, RegistersOK
<1>7. QED
  BY <1>5, <1>6, TypeParts

LEMMA NextType == ASSUME TypeOK, [Next]_vars PROVE TypeOK'
<1>1. CASE Clock
  BY <1>1, ClockType
<1>2. CASE AssertReset
  BY <1>2, AssertResetType
<1>3. CASE ReleaseReset
  BY <1>3 DEF ReleaseReset, TypeOK, request
<1>4. CASE ChangeRequest
  BY <1>4 DEF ChangeRequest, TypeOK
<1>5. CASE UNCHANGED vars
  BY <1>5 DEF vars, environs, request, TypeOK
<1>6. QED
  BY <1>1, <1>2, <1>3, <1>4, <1>5 DEF Next

(***************************************************************************)
(* Every register of the controller and of the device keeps its range, in  *)
(* particular bitcount, whose test "bitcount - 1 >= 0" is what keeps the   *)
(* index of DataIn(bitcount) within the byte.                              *)
(***************************************************************************)
THEOREM TypeCorrect == Spec => []TypeOK
<1>1. Init => TypeOK
  BY InitType
<1>2. TypeOK /\ [Next]_vars => TypeOK'
  BY NextType
<1>3. QED
  BY <1>1, <1>2, PTL DEF Spec

(***************************************************************************)
(* The discipline of SDA.  The property is about steps with SCL high; what *)
(* makes it inductive is the level SDA01 has where SCL next goes high with *)
(* a fixed level on SDA01: the states before a START have released it, the *)
(* states before the rise of a STOP have pulled it down.                   *)
(***************************************************************************)
Prepared ==
  /\ state \in {"00", "71", "EE"} => SDA01 = 1
  /\ state \in {"53", "D4"} => SDA01 = 0

SdaInv == TypeOK /\ Prepared

LEMMA InitPrepared == ASSUME Init PROVE Prepared
  BY DEF Init, Prepared

\* A released wire that reads 1 is released by both.
LEMMA SdaHigh == ASSUME TypeOK, SDA = 1 PROVE SDA01 = 1
  BY DEF SDA, Wired, TypeOK

LEMMA NextPrepared == ASSUME SdaInv, [Next]_vars PROVE Prepared'
<1> USE DEF SdaInv, Prepared
<1>1. CASE Clock
  <2>1. CASE Idle
    BY <2>1 DEF Idle, Step
  <2>2. CASE Start("01", "02")
    BY <2>2 DEF Start, Step
  <2>3. CASE SelectForWrite
    BY <2>3, SdaHigh DEF SelectForWrite, PutBit, ClockBit, CountDown, Release,
                         CheckAck, Step
  <2>4. CASE SendRegisterAddress
    BY <2>4, SdaHigh DEF SendRegisterAddress, PutBit, ClockBit, CountDown,
                         Release, CheckAck, Step
  <2>5. CASE SendData
    BY <2>5, SdaHigh DEF SendData, PutBit, ClockBit, CountDown, Release,
                         CheckAck, Step
  <2>6. CASE Stop("52", "53", "54")
    BY <2>6 DEF Stop, Step
  <2>7. CASE RepeatStart
    BY <2>7 DEF RepeatStart, Release, Start, Step
  <2>8. CASE SelectForRead
    BY <2>8, SdaHigh DEF SelectForRead, PutBit, ClockBit, CountDown, Release,
                         CheckAck, Step
  <2>9. CASE ReceiveData
    BY <2>9 DEF ReceiveData, CountDown, Release, Step
  <2>10. CASE Stop("D3", "D4", "D5")
    BY <2>10 DEF Stop, Step
  <2>11. CASE Error
    BY <2>11 DEF Error, Step
  <2>12. QED
    BY <1>1, <2>1, <2>2, <2>3, <2>4, <2>5, <2>6, <2>7, <2>8, <2>9, <2>10, <2>11
       DEF Clock
<1>2. CASE AssertReset
  BY <1>2 DEF AssertReset
<1>3. CASE ReleaseReset
  BY <1>3 DEF ReleaseReset
<1>4. CASE ChangeRequest
  BY <1>4 DEF ChangeRequest
<1>5. CASE UNCHANGED vars
  BY <1>5 DEF vars
<1>6. QED
  BY <1>1, <1>2, <1>3, <1>4, <1>5 DEF Next

\* With SCL high throughout, SDA01 moves for START, STOP and a reset only.
SdaDiscipline ==
  SCL = 1 /\ SCL' = 1 /\ SDA01' # SDA01
    => IF SDA01' = 0 THEN state \in {"01", "72"}
       ELSE state \in {"54", "D5"} \/ ResetN' = 0

LEMMA DisciplinedStep == ASSUME SdaInv, [Next]_vars PROVE SdaDiscipline
<1> USE DEF SdaInv, Prepared, SdaDiscipline
<1>1. CASE Clock
  <2>1. CASE Idle
    BY <2>1 DEF Idle, Step
  <2>2. CASE Start("01", "02")
    BY <2>2 DEF Start, Step
  <2>3. CASE SelectForWrite
    BY <2>3 DEF SelectForWrite, PutBit, ClockBit, CountDown, Release,
                CheckAck, Step
  <2>4. CASE SendRegisterAddress
    BY <2>4 DEF SendRegisterAddress, PutBit, ClockBit, CountDown, Release,
                CheckAck, Step
  <2>5. CASE SendData
    BY <2>5 DEF SendData, PutBit, ClockBit, CountDown, Release, CheckAck, Step
  <2>6. CASE Stop("52", "53", "54")
    BY <2>6 DEF Stop, Step
  <2>7. CASE RepeatStart
    BY <2>7 DEF RepeatStart, Release, Start, Step
  <2>8. CASE SelectForRead
    BY <2>8 DEF SelectForRead, PutBit, ClockBit, CountDown, Release,
                CheckAck, Step
  <2>9. CASE ReceiveData
    BY <2>9 DEF ReceiveData, CountDown, Release, Step
  <2>10. CASE Stop("D3", "D4", "D5")
    BY <2>10 DEF Stop, Step, TypeOK
  <2>11. CASE Error
    BY <2>11 DEF Error, Step
  <2>12. QED
    BY <1>1, <2>1, <2>2, <2>3, <2>4, <2>5, <2>6, <2>7, <2>8, <2>9, <2>10, <2>11
       DEF Clock
<1>2. CASE AssertReset
  BY <1>2 DEF AssertReset, TypeOK
<1>3. CASE ReleaseReset
  BY <1>3 DEF ReleaseReset
<1>4. CASE ChangeRequest
  BY <1>4 DEF ChangeRequest
<1>5. CASE UNCHANGED vars
  BY <1>5 DEF vars
<1>6. QED
  BY <1>1, <1>2, <1>3, <1>4, <1>5 DEF Next

(***************************************************************************)
(* I2C_controller.vhd:47, "SDA is changed only when SCL is low except for  *)
(* sending the start and stop bits", whatever the device answers, whatever *)
(* the client does to its inputs and however many resets there are.        *)
(***************************************************************************)
THEOREM SdaDisciplined == Spec => SdaMovesOnlyForStartStop
<1>1. Init => SdaInv
  BY InitType, InitPrepared DEF SdaInv
<1>2. SdaInv /\ [Next]_vars => SdaInv'
  BY NextType, NextPrepared DEF SdaInv
<1>3. SdaInv /\ [Next]_vars => [SdaDiscipline]_vars
  BY DisciplinedStep
<1>4. QED
  BY <1>1, <1>2, <1>3, PTL DEF Spec, SdaMovesOnlyForStartStop, SdaDiscipline
(***************************************************************************)
(* The two ends stay in step.  For each state of the controller, while     *)
(* there has been no reset: the levels on the wires, what the device makes *)
(* of the next bit, who drives SDA, and which bits have arrived.  The      *)
(* levels decide whether the device sees a bit, START or STOP; the bits    *)
(* decide where it goes after a byte.                                      *)
(***************************************************************************)
k == 7 - bitcount

At(phase, count) == slave.phase = phase /\ slave.count = count

Received(b) == \A i \in Bits : i > bitcount => slave.byte[i] = b[i]

LevelsKnown ==
  /\ SCL = IF state \in {"03", "13", "21", "31", "41", "51", "53", "71",
                         "83", "93", "C1", "D2", "D4"} THEN 0 ELSE 1
  /\ state \in {"00", "01", "13", "31", "51", "52", "70", "71", "72", "93",
                "C0", "C1", "D0", "D2", "D3", "EE"} => SDA01 = 1
  /\ state \in {"20", "40"} /\ k = 0 => SDA01 = 1
  /\ state \in {"53", "54", "D4", "D5"} => SDA01 = 0
  /\ state = "03" => SDA01 = SlaveAddress_Write[bitcount]
  /\ state = "83" => SDA01 = SlaveAddress_Read[bitcount]
  /\ InputsHeld => /\ state = "21" => SDA01 = AddressIn[bitcount]
                   /\ state = "41" => SDA01 = DataIn[bitcount]

BitsCounted ==
  /\ state \in {"12", "13", "30", "31", "50", "51", "92", "93", "D0"} => bitcount = 7
  /\ state \in {"00", "01", "D3", "D4", "D5", "EE"} => slave.phase = "unselected"
  /\ state \in {"02", "03", "82", "83"} => At("select", k)
  /\ state \in {"12", "92"} => At("select", 8)
  /\ state \in {"13", "93"} => slave.phase = "unselected" \/ At("select", 8)
  /\ state = "20" => IF k = 0 THEN At("select", 9) ELSE At("pointer", k)
  /\ state = "21" => At("pointer", k)
  /\ state = "30" => At("pointer", 8)
  /\ state = "31" => slave.phase = "unselected" \/ At("pointer", 8)
  /\ state = "40" => IF k = 0 THEN At("pointer", 9) ELSE At("store", k)
  /\ state = "41" => At("store", k)
  /\ state = "50" => At("store", 8)
  /\ state = "51" => slave.phase = "unselected" \/ At("store", 8)
  /\ state = "52" => At("store", 9)
  /\ state = "70" => At("pointer", 9)
  /\ state \in {"53", "71"} => At("store", 0)
  /\ state \in {"54", "72"} => At("store", 1)
  /\ state = "C0" => IF k = 0 THEN At("select", 9) ELSE At("send", k)
  /\ state = "C1" => At("send", k)
  /\ state \in {"D0", "D2"} => At("send", 8)

DriverKnown ==
  /\ state \in {"00", "01", "02", "03", "12", "21", "30", "41", "50", "53",
                "54", "71", "72", "82", "83", "92", "D2", "D3", "D4", "D5", "EE"}
       => slave.drive = 1
  /\ state \in {"20", "40"} /\ k # 0 => slave.drive = 1
  /\ state = "70" => slave.drive = 0
  /\ state \in {"13", "31", "51", "93"}
       => slave.drive = IF slave.phase = "unselected" THEN 1 ELSE 0
  /\ state = "C1" => slave.drive = slave.byte[bitcount]

BytesAgree ==
  /\ state = "00" => DataOut = ZeroByte
  /\ state \in {"02", "03"} => Received(SlaveAddress_Write)
  /\ state \in {"82", "83"} => Received(SlaveAddress_Read)
  /\ (state = "12" \/ (state = "13" /\ slave.phase = "select")
                   \/ (state = "20" /\ k = 0)) => slave.byte = SlaveAddress_Write
  /\ (state = "92" \/ (state = "93" /\ slave.phase = "select")
                   \/ (state = "C0" /\ k = 0)) => slave.byte = SlaveAddress_Read
  /\ ((state = "C0" /\ k # 0) \/ state \in {"C1", "D0"})
       => slave.byte = RegisterValue(slave, slave.pointer)
  /\ state \in {"C0", "C1"} => \A i \in Bits : i > bitcount => Data[i] = slave.byte[i]
  /\ state = "D0" => Data = slave.byte
  /\ state \in {"D2", "D3", "D4", "D5"} => DataOut = RegisterValue(slave, slave.pointer)

\* What a client that holds its request can rely on besides.
RequestKept ==
  InputsHeld =>
    /\ state \in {"20", "21"} /\ slave.phase = "pointer" => Received(AddressIn)
    /\ state = "30" => slave.byte = AddressIn
    /\ state \in {"31", "51"} /\ slave.phase # "unselected" => slave.pointer = AddressIn
    /\ state \in {"40", "41", "50"} => slave.pointer = AddressIn
    /\ state \in {"40", "41"} /\ slave.phase = "store" => Received(DataIn)
    /\ state = "50" => slave.byte = DataIn
    /\ state \in {"70", "71", "72", "82", "83", "92", "93", "C0", "C1", "D0",
                  "D2", "D3", "D4", "D5"}
         => slave.pointer = AddressIn /\ RegisterAddress = AddressIn
    /\ state \in {"D2", "D3", "D4", "D5"} => RegisterAddressOut = AddressIn
    /\ state \in {"40", "41", "50"} => Read_WriteN = 0
    /\ state \in {"70", "71", "72", "82", "83", "92", "93", "C0", "C1", "D0"}
         => Read_WriteN = 1

InStepInv ==
  LevelsKnown /\ BitsCounted /\ DriverKnown /\ BytesAgree /\ RequestKept

Agreed == resets = 0 => InStepInv

(***************************************************************************)
(* What the device does at an edge of SCL, phase by phase: the fields of   *)
(* its record afterwards.                                                  *)
(***************************************************************************)

LEMMA RiseReceives ==
  ASSUME NEW s \in Device, NEW b, s.phase \in Receiving, s.count < 8
  PROVE  LET t == SeesRise(s, b) IN
         /\ t.phase = s.phase /\ t.count = s.count + 1
         /\ t.byte = [s.byte EXCEPT ![7 - s.count] = b]
         /\ t.pointer = s.pointer /\ t.drive = s.drive /\ t.regs = s.regs
<1>1. SeesRise(s, b) = [s EXCEPT !.byte[7 - s.count] = b, !.count = @ + 1]
  BY DEF SeesRise, Receiving
<1>2. QED
  BY <1>1 DEF Device, Slave

LEMMA RiseAlone ==
  ASSUME NEW s \in Device, NEW b \in {0, 1}, s.phase = "unselected"
  PROVE  SeesRise(s, b) = s
  BY DEF SeesRise, Receiving

LEMMA RiseCounts ==
  ASSUME NEW s \in Device, NEW b \in {0, 1},
         \/ s.phase \in Receiving /\ s.count = 8
         \/ s.phase = "send" /\ s.count < 8
  PROVE  LET t == SeesRise(s, b) IN
         /\ t.phase = s.phase /\ t.count = s.count + 1 /\ t.byte = s.byte
         /\ t.pointer = s.pointer /\ t.drive = s.drive /\ t.regs = s.regs
<1>1. SeesRise(s, b) = [s EXCEPT !.count = IF @ < 9 THEN @ + 1 ELSE @]
  BY DEF SeesRise, Receiving
<1>2. QED
  BY <1>1 DEF Device, Slave

LEMMA RiseRefused ==
  ASSUME NEW s \in Device, s.phase = "send", s.count = 8
  PROVE  LET t == SeesRise(s, 1) IN
         /\ t.phase = "unselected" /\ t.byte = s.byte
         /\ t.pointer = s.pointer /\ t.drive = s.drive /\ t.regs = s.regs
<1>1. SeesRise(s, 1) = [s EXCEPT !.phase = "unselected", !.count = 9]
  BY DEF SeesRise, Receiving
<1>2. QED
  BY <1>1 DEF Device, Slave

LEMMA FallAlone ==
  ASSUME NEW s \in Device, NEW own, NEW ok \in BOOLEAN, s.phase = "unselected"
  PROVE  LET t == SeesFall(s, own, ok) IN
         /\ t.phase = "unselected" /\ t.count = s.count /\ t.byte = s.byte
         /\ t.pointer = s.pointer /\ t.drive = 1 /\ t.regs = s.regs
<1>1. SeesFall(s, own, ok) = [s EXCEPT !.drive = 1]
  BY DEF SeesFall, Receiving
<1>2. QED
  BY <1>1 DEF Device, Slave

LEMMA FallReceives ==
  ASSUME NEW s \in Device, NEW own, NEW ok \in BOOLEAN,
         s.phase \in Receiving, s.count < 8
  PROVE  SeesFall(s, own, ok) = s
  BY DEF SeesFall, Receiving, Device, Slave

\* After the eighth bit: the byte is refused, or acknowledged and acted on.
LEMMA FallAnswers ==
  ASSUME NEW s \in Device, NEW own, NEW ok \in BOOLEAN,
         s.phase \in Receiving, s.count = 8
  PROVE  LET t == SeesFall(s, own, ok) IN
         /\ t.count = 8 /\ t.byte = s.byte
         /\ \/ /\ t.phase = "unselected" /\ t.drive = s.drive
               /\ t.pointer = s.pointer /\ t.regs = s.regs
            \/ /\ t.phase = s.phase /\ t.drive = 0
               /\ t.pointer = IF s.phase = "pointer" THEN s.byte ELSE s.pointer
               /\ t.regs = IF s.phase = "store" /\ s.pointer \in DOMAIN s.regs
                           THEN [s.regs EXCEPT ![s.pointer] = s.byte] ELSE s.regs
<1>1. CASE ~ok \/ (s.phase = "select" /\ ~IsSelectedBy(s.byte, own))
  <2>1. SeesFall(s, own, ok) = [s EXCEPT !.phase = "unselected"]
    BY <1>1 DEF SeesFall, Receiving
  <2>2. QED
    BY <2>1 DEF Device, Slave
<1>2. CASE ~(~ok \/ (s.phase = "select" /\ ~IsSelectedBy(s.byte, own)))
  <2> DEFINE pointer == IF s.phase = "pointer" THEN s.byte ELSE s.pointer
             regs == IF s.phase = "store" /\ s.pointer \in DOMAIN s.regs
                     THEN [s.regs EXCEPT ![s.pointer] = s.byte] ELSE s.regs
  <2>1. SeesFall(s, own, ok)
          = [s EXCEPT !.drive = 0, !.pointer = pointer, !.regs = regs]
    BY <1>2 DEF SeesFall, Receiving
  <2> HIDE DEF pointer, regs
  <2>2. LET t == SeesFall(s, own, ok) IN
        /\ t.count = 8 /\ t.byte = s.byte /\ t.phase = s.phase /\ t.drive = 0
        /\ t.pointer = pointer /\ t.regs = regs
    BY <2>1 DEF Device, Slave
  <2>3. QED
    BY <2>2 DEF pointer, regs
<1>3. QED
  BY <1>1, <1>2

LEMMA FallAfterSelect ==
  ASSUME NEW s \in Device, NEW own, NEW ok \in BOOLEAN,
         s.phase = "select", s.count = 9
  PROVE  LET t == SeesFall(s, own, ok) IN
         /\ t.count = 0 /\ t.pointer = s.pointer /\ t.regs = s.regs
         /\ IF s.byte[0] = 1
            THEN /\ t.phase = "send" /\ t.byte = RegisterValue(s, s.pointer)
                 /\ t.drive = RegisterValue(s, s.pointer)[7]
            ELSE t.phase = "pointer" /\ t.byte = s.byte /\ t.drive = 1
<1>1. CASE s.byte[0] = 1
  <2>1. SeesFall(s, own, ok) = Sending(s, s.pointer)
    BY <1>1 DEF SeesFall, Receiving
  <2>2. QED
    BY <1>1, <2>1 DEF Sending, Device, Slave
<1>2. CASE s.byte[0] # 1
  <2>1. SeesFall(s, own, ok)
          = [s EXCEPT !.phase = "pointer", !.count = 0, !.drive = 1]
    BY <1>2 DEF SeesFall, Receiving
  <2>2. QED
    BY <1>2, <2>1 DEF Device, Slave
<1>3. QED
  BY <1>1, <1>2

LEMMA FallAfterPointer ==
  ASSUME NEW s \in Device, NEW own, NEW ok \in BOOLEAN,
         s.phase = "pointer", s.count = 9
  PROVE  LET t == SeesFall(s, own, ok) IN
         /\ t.phase = "store" /\ t.count = 0 /\ t.drive = 1 /\ t.byte = s.byte
         /\ t.pointer = s.pointer /\ t.regs = s.regs
<1>1. SeesFall(s, own, ok) = [s EXCEPT !.phase = "store", !.count = 0, !.drive = 1]
  BY DEF SeesFall, Receiving
<1>2. QED
  BY <1>1 DEF Device, Slave

LEMMA FallAfterStore ==
  ASSUME NEW s \in Device, NEW own, NEW ok \in BOOLEAN,
         s.phase = "store", s.count = 9
  PROVE  LET t == SeesFall(s, own, ok) IN
         /\ t.phase = "store" /\ t.count = 0 /\ t.drive = 1 /\ t.regs = s.regs
<1>1. SeesFall(s, own, ok)
        = [s EXCEPT !.count = 0, !.drive = 1, !.pointer = NextPointer(@)]
  BY DEF SeesFall, Receiving
<1>2. QED
  BY <1>1 DEF Device, Slave

LEMMA FallSends ==
  ASSUME NEW s \in Device, NEW own, NEW ok \in BOOLEAN,
         s.phase = "send", s.count <= 8
  PROVE  LET t == SeesFall(s, own, ok) IN
         /\ t.phase = "send" /\ t.count = s.count /\ t.byte = s.byte
         /\ t.pointer = s.pointer /\ t.regs = s.regs
         /\ t.drive = IF s.count = 8 THEN 1 ELSE s.byte[7 - s.count]
<1>1. CASE s.count = 8
  <2>1. SeesFall(s, own, ok) = [s EXCEPT !.drive = 1]
    BY <1>1 DEF SeesFall, Receiving
  <2>2. QED
    BY <1>1, <2>1 DEF Device, Slave
<1>2. CASE s.count < 8
  <2>1. SeesFall(s, own, ok) = [s EXCEPT !.drive = s.byte[7 - s.count]]
    BY <1>2 DEF SeesFall, Receiving, Device, Slave
  <2>2. QED
    BY <1>2, <2>1 DEF Device, Slave
<1>3. QED
  BY <1>1, <1>2 DEF Device, Slave

\* Which of its reactions a step of the controller calls for.
LEMMA OnFall ==
  ASSUME SlaveReacts, SCL = 1, SCL' = 0
  PROVE  \E ok \in BOOLEAN : slave' = SeesFall(slave, SlaveAddress_Write, ok)
<1>1. PICK ok \in IF MayNack THEN BOOLEAN ELSE {TRUE} :
        LET sda == Wired(SDA01', slave.drive) IN
        slave' = CASE SCL = 1 /\ SCL' = 1 /\ SDA = 1 /\ sda = 0 -> SeesStart(slave)
                   [] SCL = 1 /\ SCL' = 1 /\ SDA = 0 /\ sda = 1 -> SeesStop(slave)
                   [] SCL = 0 /\ SCL' = 1 -> SeesRise(slave, sda)
                   [] SCL = 1 /\ SCL' = 0 ->
                        SeesFall(slave, SlaveAddress_Write, ok)
                   [] OTHER -> slave
  BY DEF SlaveReacts
<1>2. slave' = SeesFall(slave, SlaveAddress_Write, ok)
  BY <1>1
<1>3. ok \in BOOLEAN
  BY ConstantsAssumption
<1>4. QED
  BY <1>2, <1>3

LEMMA OnRise ==
  ASSUME SlaveReacts, SCL = 0, SCL' = 1
  PROVE  slave' = SeesRise(slave, Wired(SDA01', slave.drive))
  BY DEF SlaveReacts

LEMMA OnHigh ==
  ASSUME SlaveReacts, SCL = 1, SCL' = 1
  PROVE  slave' = LET sda == Wired(SDA01', slave.drive) IN
                  IF SDA = 1 /\ sda = 0 THEN SeesStart(slave)
                  ELSE IF SDA = 0 /\ sda = 1 THEN SeesStop(slave) ELSE slave
<1>1. SDA \in {0, 1}
  BY WiredType DEF SDA
<1>2. QED
  BY <1>1 DEF SlaveReacts

LEMMA AddressBits == SlaveAddress_Write[0] = 0 /\ SlaveAddress_Read[0] = 1
<1>1. 208 % 2 = 0 /\ 209 % 2 = 1 /\ Weight[1] = 1 /\ 0 \in Bits
  BY DEF Weight, Bits
<1>2. 208 \div 1 = 208 /\ 209 \div 1 = 209
  OBVIOUS
<1>3. QED
  BY <1>1, <1>2 DEF SlaveAddress_Write, SlaveAddress_Read, ByteOf

LEMMA WiredHigh == \A a \in {0, 1} : Wired(a, 1) = a /\ Wired(1, a) = a
  BY DEF Wired

(***************************************************************************)
(* The steps, state by state.                                              *)
(***************************************************************************)
Together == TypeOK /\ InStepInv

\* The inputs do not move in a step of the controller, and the device is
\* well-formed.
LEMMA StepFacts ==
  ASSUME Together, NEW from, NEW to, NEW scl, NEW sda, Step(from, to, scl, sda)
  PROVE  /\ state = from /\ state' = to /\ SCL' = scl /\ SDA01' = sda
         /\ AddressIn' = AddressIn /\ DataIn' = DataIn
         /\ Read_WriteN' = Read_WriteN
         /\ SlaveReacts /\ slave \in Device
         /\ slave.drive \in {0, 1} /\ SDA01 \in {0, 1} /\ bitcount \in 0 .. 7
  BY DEF Step, environs, request, Together, TypeOK, Device, Slave, Bits

\* Bytes that agree in every bit are equal.
LEMMA SameByte ==
  ASSUME NEW a \in Byte, NEW b \in Byte, \A i \in Bits : a[i] = b[i]
  PROVE  a = b
  BY DEF Byte

\* A bit is put out while SCL falls on a device in the middle of a byte.
LEMMA PutReceives ==
  ASSUME Together, NEW from, NEW b, NEW to, PutBit(from, b, to),
         SCL = 1, slave.phase \in Receiving, slave.count < 8
  PROVE  slave' = slave
  BY StepFacts, OnFall, FallReceives DEF PutBit

\* A bit is clocked into a device that receives, and only the controller
\* drives: the eighth completes the byte.
LEMMA ClockReceives ==
  ASSUME Together, NEW from, NEW more, NEW done, ClockBit(from, more, done),
         SCL = 0, slave.phase \in Receiving, slave.count = k, slave.drive = 1
  PROVE  /\ slave'.phase = slave.phase /\ slave'.count = slave.count + 1
         /\ slave'.drive = 1 /\ slave'.pointer = slave.pointer
         /\ slave'.regs = slave.regs
         /\ SDA01' = SDA01
         /\ IF k < 7 THEN bitcount' = bitcount - 1 /\ state' = more
                     ELSE bitcount' = 7 /\ state' = done
         /\ \A b \in Byte : Received(b) /\ SDA01 = b[bitcount]
              => IF k < 7 THEN \A i \in Bits : i > bitcount - 1 => slave'.byte[i] = b[i]
                          ELSE slave'.byte = b
<1> USE DEF k
<1>1. Step(from, IF bitcount - 1 >= 0 THEN more ELSE done, 1, SDA01)
  BY DEF ClockBit, CountDown
<1>2. slave' = SeesRise(slave, SDA01)
  BY <1>1, StepFacts, OnRise, WiredHigh
<1>3. slave.byte \in Byte /\ 7 - slave.count = bitcount /\ bitcount \in Bits
      /\ SDA01 \in {0, 1} /\ slave \in Device /\ slave.count < 8
  BY <1>1, StepFacts DEF Device, Slave, Bits
<1>4. /\ slave'.phase = slave.phase /\ slave'.count = slave.count + 1
      /\ slave'.byte = [slave.byte EXCEPT ![7 - slave.count] = SDA01]
      /\ slave'.drive = 1 /\ slave'.pointer = slave.pointer
      /\ slave'.regs = slave.regs
  BY <1>2, <1>3, RiseReceives
<1>5. slave'.byte \in Byte
  BY <1>3, <1>4 DEF Byte
<1>6. ASSUME NEW b \in Byte, Received(b), SDA01 = b[bitcount]
      PROVE  /\ \A i \in Bits : i > bitcount - 1 => slave'.byte[i] = b[i]
             /\ bitcount = 0 => slave'.byte = b
  <2>1. \A i \in Bits : i > bitcount - 1 => slave'.byte[i] = b[i]
    BY <1>3, <1>4, <1>6 DEF Received, Byte, Bits
  <2>2. ASSUME bitcount = 0 PROVE slave'.byte = b
    <3>1. \A i \in Bits : slave'.byte[i] = b[i]
      BY <2>1, <2>2 DEF Bits
    <3>2. QED
      BY <3>1, <1>5, SameByte
  <2>3. QED
    BY <2>1, <2>2
<1>7. IF k < 7 THEN bitcount' = bitcount - 1 /\ state' = more
               ELSE bitcount' = 7 /\ state' = done
  BY <1>1, <1>4, StepFacts DEF ClockBit, CountDown, Bits
<1>8. QED
  BY <1>1, <1>3, <1>4, <1>6, <1>7, StepFacts DEF Bits

\* SDA is released for the acknowledgment: the device refuses the byte and is
\* out, or pulls SDA down.
LEMMA ReleaseAnswers ==
  ASSUME Together, NEW from, NEW to, Release(from, to),
         SCL = 1, slave.phase \in Receiving, slave.count = 8, slave.drive = 1
  PROVE  /\ slave'.byte = slave.byte
         /\ \/ /\ slave'.phase = "unselected" /\ slave'.drive = 1
               /\ slave'.pointer = slave.pointer /\ slave'.regs = slave.regs
            \/ /\ slave'.phase = slave.phase /\ slave'.count = 8
               /\ slave'.drive = 0
               /\ slave'.pointer = IF slave.phase = "pointer" THEN slave.byte
                                   ELSE slave.pointer
               /\ slave'.regs =
                    IF slave.phase = "store" /\ slave.pointer \in DOMAIN slave.regs
                    THEN [slave.regs EXCEPT ![slave.pointer] = slave.byte]
                    ELSE slave.regs
  BY StepFacts, OnFall, FallAnswers DEF Release

\* The acknowledgment is read as SCL rises: a device that pulls SDA down goes
\* on, one that is out leaves SDA high and the controller gives up.
LEMMA CheckReads ==
  ASSUME Together, NEW from, NEW code, NEW to, CheckAck(from, code, to),
         SCL = 0, SDA01 = 1,
         slave.phase # "unselected" => slave.phase \in Receiving /\ slave.count = 8,
         slave.drive = IF slave.phase = "unselected" THEN 1 ELSE 0
  PROVE  /\ SCL' = 1 /\ SDA01' = 1
         /\ IF slave.phase = "unselected"
            THEN state' = "EE" /\ SDA = 1 /\ slave' = slave
            ELSE /\ state' = to /\ SDA = 0
                 /\ slave'.phase = slave.phase /\ slave'.count = 9
                 /\ slave'.byte = slave.byte /\ slave'.pointer = slave.pointer
                 /\ slave'.drive = 0 /\ slave'.regs = slave.regs
<1>1. Step(from, IF SDA = 1 THEN "EE" ELSE to, 1, SDA01)
  BY DEF CheckAck
<1>2. SDA = slave.drive
  BY <1>1, StepFacts, WiredHigh DEF SDA
<1>3. slave' = SeesRise(slave, slave.drive)
  BY <1>1, <1>2, StepFacts, OnRise, WiredHigh
<1>4. slave.phase = "unselected" => slave' = slave
  BY <1>1, <1>3, StepFacts, RiseAlone
<1>5. slave.phase # "unselected" =>
        /\ slave'.phase = slave.phase /\ slave'.count = 9
        /\ slave'.byte = slave.byte /\ slave'.pointer = slave.pointer
        /\ slave'.drive = 0 /\ slave'.regs = slave.regs
  BY <1>1, <1>3, StepFacts, RiseCounts
<1>6. QED
  BY <1>1, <1>2, <1>4, <1>5, StepFacts

LEMMA TogetherIdle == ASSUME Together, Idle PROVE InStepInv'
<1>1. Step("00", "01", 1, 1)
  BY DEF Idle
<1>2. slave' = slave
  BY <1>1, StepFacts, OnHigh, WiredHigh
     DEF Together, InStepInv, DriverKnown, LevelsKnown, SDA
<1>3. QED
  BY <1>1, <1>2, StepFacts
     DEF Keep, Together, InStepInv, LevelsKnown, BitsCounted,
              DriverKnown, BytesAgree, RequestKept, At, k, Received

LEMMA TogetherStart == ASSUME Together, Start("01", "02") PROVE InStepInv'
<1>1. Step("01", "02", 1, 0) /\ bitcount' = 7
  BY DEF Start
<1>2. SDA = 1 /\ SCL = 1 /\ slave.drive = 1
  BY <1>1, StepFacts, WiredHigh
     DEF Together, InStepInv, DriverKnown, LevelsKnown, SDA
<1>3. slave' = SeesStart(slave)
  BY <1>1, <1>2, StepFacts, OnHigh, WiredHigh
<1>4. slave'.phase = "select" /\ slave'.count = 0 /\ slave'.drive = 1
  BY <1>1, <1>3, StepFacts DEF SeesStart, Device, Slave
<1>5. \A i \in Bits : ~(i > 7)
  BY DEF Bits
<1>6. QED
  BY <1>1, <1>4, <1>5, StepFacts
     DEF Keep, Together, InStepInv, LevelsKnown, BitsCounted,
              DriverKnown, BytesAgree, RequestKept, At, k, Received

LEMMA TogetherSelectForWrite == ASSUME Together, SelectForWrite PROVE InStepInv'
<1> USE DEF Keep, Together, InStepInv, LevelsKnown, BitsCounted,
              DriverKnown, BytesAgree, RequestKept, At, k, Received
<1>1. CASE PutBit("02", SlaveAddress_Write, "03")
  <2>1. SCL = 1 /\ slave.phase = "select" /\ slave.count < 8
    BY <1>1, StepFacts DEF PutBit
  <2>2. slave' = slave
    BY ONLY <1>1, <2>1, Together, PutReceives DEF Receiving
  <2>3. QED
    BY <1>1, <2>2, StepFacts DEF PutBit
<1>2. CASE ClockBit("03", "02", "12")
  <2>1. Step("03", IF bitcount - 1 >= 0 THEN "02" ELSE "12", 1, SDA01)
    BY <1>2 DEF ClockBit, CountDown
  <2>2. At("select", k) /\ slave.drive = 1 /\ SCL = 0
        /\ Received(SlaveAddress_Write) /\ SDA01 = SlaveAddress_Write[bitcount]
    BY <2>1, StepFacts
  <2> HIDE DEF Received
  <2>3. /\ slave'.phase = "select" /\ slave'.count = k + 1 /\ slave'.drive = 1
        /\ IF k < 7 THEN /\ bitcount' = bitcount - 1 /\ state' = "02"
                         /\ \A i \in Bits : i > bitcount - 1
                              => slave'.byte[i] = SlaveAddress_Write[i]
                    ELSE /\ bitcount' = 7 /\ state' = "12"
                         /\ slave'.byte = SlaveAddress_Write
    BY <1>2, <2>2, ClockReceives, SlaveAddressType DEF Receiving
  <2> QED
    BY <2>1, <2>3, StepFacts DEF Received
<1>3. CASE Release("12", "13") /\ Keep
  BY <1>3, StepFacts, ReleaseAnswers DEF Release, Receiving
<1>4. CASE /\ CheckAck("13", 19, "20")
           /\ UNCHANGED <<bitcount, RegisterAddress, Data, DataOut>>
  <2>1. state = "13"
    BY <1>4 DEF CheckAck, Step
  <2>2. /\ SCL = 0 /\ SDA01 = 1 /\ bitcount = 7
        /\ slave.phase # "unselected" => slave.phase = "select" /\ slave.count = 8
        /\ slave.drive = IF slave.phase = "unselected" THEN 1 ELSE 0
        /\ slave.phase = "select" => slave.byte = SlaveAddress_Write
    BY <2>1
  <2>3. IF slave.phase = "unselected"
        THEN state' = "EE" /\ SDA01' = 1 /\ SCL' = 1 /\ slave' = slave
        ELSE /\ state' = "20" /\ SDA01' = 1 /\ SCL' = 1
             /\ slave'.phase = "select" /\ slave'.count = 9
             /\ slave'.byte = slave.byte
    BY ONLY <1>4, <2>2, Together, CheckReads DEF Receiving
  <2>4. QED
    BY <1>4, <2>1, <2>2, <2>3
<1>5. QED
  BY <1>1, <1>2, <1>3, <1>4 DEF SelectForWrite

LEMMA TogetherSendRegisterAddress ==
  ASSUME Together, SendRegisterAddress PROVE InStepInv'
<1> USE DEF Keep, Together, InStepInv, LevelsKnown, BitsCounted,
              DriverKnown, BytesAgree, RequestKept, At, k, Received
<1>1. CASE PutBit("20", AddressIn, "21")
  <2>1. /\ state = "20" /\ SCL = 1 /\ SCL' = 0 /\ SlaveReacts /\ slave \in Device
        /\ bitcount \in 0 .. 7
        /\ bitcount = 7 => /\ slave.phase = "select" /\ slave.count = 9
                           /\ slave.byte = SlaveAddress_Write
        /\ bitcount # 7 => /\ slave.phase = "pointer" /\ slave.count = 7 - bitcount
                           /\ slave.drive = 1
    BY <1>1, StepFacts DEF PutBit
  <2>2. CASE bitcount = 7
    <3>1. slave'.phase = "pointer" /\ slave'.count = 0 /\ slave'.drive = 1
      BY ONLY <2>1, <2>2, OnFall, FallAfterSelect, AddressBits
    <3>2. \A i \in Bits : ~(i > 7)
      BY DEF Bits
    <3>3. QED
      BY <1>1, <2>1, <2>2, <3>1, <3>2, StepFacts DEF PutBit
  <2>3. CASE bitcount # 7
    <3>1. slave' = slave
      BY ONLY <1>1, <2>1, <2>3, Together, PutReceives DEF Receiving
    <3>2. QED
      BY <1>1, <2>1, <2>3, <3>1, StepFacts DEF PutBit
  <2>4. QED
    BY <2>2, <2>3
<1>2. CASE ClockBit("21", "20", "30")
  <2>1. Step("21", IF bitcount - 1 >= 0 THEN "20" ELSE "30", 1, SDA01)
    BY <1>2 DEF ClockBit, CountDown
  <2>2. /\ At("pointer", k) /\ slave.drive = 1 /\ SCL = 0 /\ AddressIn \in Byte
        /\ InputsHeld => Received(AddressIn) /\ SDA01 = AddressIn[bitcount]
    BY <2>1, StepFacts, ConstantsAssumption DEF TypeOK
  <2> HIDE DEF Received
  <2>3. /\ slave'.phase = "pointer" /\ slave'.count = k + 1 /\ slave'.drive = 1
        /\ IF k < 7 THEN /\ bitcount' = bitcount - 1 /\ state' = "20"
                         /\ InputsHeld => \A i \in Bits : i > bitcount - 1
                              => slave'.byte[i] = AddressIn[i]
                    ELSE /\ bitcount' = 7 /\ state' = "30"
                         /\ InputsHeld => slave'.byte = AddressIn
    BY <1>2, <2>2, ClockReceives DEF Receiving
  <2> QED
    BY <2>1, <2>3, StepFacts DEF Received
<1>3. CASE Release("30", "31") /\ Keep
  <2>1. state = "30" /\ SCL = 1 /\ slave.phase = "pointer" /\ slave.count = 8
        /\ slave.drive = 1
    BY <1>3, StepFacts DEF Release
  <2>2. \/ slave'.phase = "unselected" /\ slave'.drive = 1
        \/ /\ slave'.phase = "pointer" /\ slave'.count = 8 /\ slave'.drive = 0
           /\ slave'.pointer = slave.byte
    BY ONLY <1>3, <2>1, Together, ReleaseAnswers DEF Receiving
  <2>3. QED
    BY <1>3, <2>1, <2>2, StepFacts DEF Release
<1>4. CASE /\ CheckAck("31", 49, IF Read_WriteN = 0 THEN "40" ELSE "70")
           /\ RegisterAddress' = AddressIn
           /\ UNCHANGED <<bitcount, Data, DataOut>>
  <2>1. state = "31"
    BY <1>4 DEF CheckAck, Step
  <2>2. /\ SCL = 0 /\ SDA01 = 1 /\ bitcount = 7
        /\ slave.phase # "unselected" => slave.phase = "pointer" /\ slave.count = 8
        /\ slave.drive = IF slave.phase = "unselected" THEN 1 ELSE 0
        /\ InputsHeld /\ slave.phase # "unselected" => slave.pointer = AddressIn
    BY <2>1
  <2>3. IF slave.phase = "unselected"
        THEN state' = "EE" /\ SDA01' = 1 /\ SCL' = 1 /\ slave' = slave
        ELSE /\ state' = IF Read_WriteN = 0 THEN "40" ELSE "70"
             /\ SDA01' = 1 /\ SCL' = 1
             /\ slave'.phase = "pointer" /\ slave'.count = 9
             /\ slave'.pointer = slave.pointer /\ slave'.drive = 0
    BY ONLY <1>4, <2>2, Together, CheckReads DEF Receiving
  <2>4. Read_WriteN \in {0, 1} /\ Read_WriteN' = Read_WriteN
        /\ AddressIn' = AddressIn
    BY <1>4 DEF TypeOK, CheckAck, Step, environs, request
  <2>5. QED
    BY <1>4, <2>1, <2>2, <2>3, <2>4
<1>5. QED
  BY <1>1, <1>2, <1>3, <1>4 DEF SendRegisterAddress

LEMMA TogetherSendData == ASSUME Together, SendData PROVE InStepInv'
<1> USE DEF Keep, Together, InStepInv, LevelsKnown, BitsCounted,
              DriverKnown, BytesAgree, RequestKept, At, k, Received
<1>1. CASE PutBit("40", DataIn, "41")
  <2>1. /\ state = "40" /\ SCL = 1 /\ SCL' = 0 /\ SlaveReacts /\ slave \in Device
        /\ bitcount \in 0 .. 7
        /\ bitcount = 7 => slave.phase = "pointer" /\ slave.count = 9
        /\ bitcount # 7 => /\ slave.phase = "store" /\ slave.count = 7 - bitcount
                           /\ slave.drive = 1
    BY <1>1, StepFacts DEF PutBit
  <2>2. CASE bitcount = 7
    <3>1. slave'.phase = "store" /\ slave'.count = 0 /\ slave'.drive = 1
          /\ slave'.pointer = slave.pointer
      BY ONLY <2>1, <2>2, OnFall, FallAfterPointer
    <3>2. \A i \in Bits : ~(i > 7)
      BY DEF Bits
    <3>3. QED
      BY <1>1, <2>1, <2>2, <3>1, <3>2, StepFacts DEF PutBit
  <2>3. CASE bitcount # 7
    <3>1. slave' = slave
      BY ONLY <1>1, <2>1, <2>3, Together, PutReceives DEF Receiving
    <3>2. QED
      BY <1>1, <2>1, <2>3, <3>1, StepFacts DEF PutBit
  <2>4. QED
    BY <2>2, <2>3
<1>2. CASE ClockBit("41", "40", "50")
  <2>1. Step("41", IF bitcount - 1 >= 0 THEN "40" ELSE "50", 1, SDA01)
    BY <1>2 DEF ClockBit, CountDown
  <2>2. /\ At("store", k) /\ slave.drive = 1 /\ SCL = 0 /\ DataIn \in Byte
        /\ InputsHeld => Received(DataIn) /\ SDA01 = DataIn[bitcount]
    BY <2>1, StepFacts, ConstantsAssumption DEF TypeOK
  <2> HIDE DEF Received
  <2>3. /\ slave'.phase = "store" /\ slave'.count = k + 1 /\ slave'.drive = 1
        /\ slave'.pointer = slave.pointer
        /\ IF k < 7 THEN /\ bitcount' = bitcount - 1 /\ state' = "40"
                         /\ InputsHeld => \A i \in Bits : i > bitcount - 1
                              => slave'.byte[i] = DataIn[i]
                    ELSE /\ bitcount' = 7 /\ state' = "50"
                         /\ InputsHeld => slave'.byte = DataIn
    BY <1>2, <2>2, ClockReceives DEF Receiving
  <2> QED
    BY <2>1, <2>3, StepFacts DEF Received
<1>3. CASE /\ Release("50", "51")
           /\ RegisterAddressOut' = AddressIn
           /\ DataOut' = DataIn
           /\ UNCHANGED <<bitcount, Ack, RegisterAddress, Data>>
  <2>1. state = "50" /\ SCL = 1 /\ slave.phase = "store" /\ slave.count = 8
        /\ slave.drive = 1
    BY <1>3, StepFacts DEF Release
  <2>2. \/ slave'.phase = "unselected" /\ slave'.drive = 1
        \/ /\ slave'.phase = "store" /\ slave'.count = 8 /\ slave'.drive = 0
           /\ slave'.pointer = slave.pointer
    BY ONLY <1>3, <2>1, Together, ReleaseAnswers DEF Receiving
  <2>3. QED
    BY <1>3, <2>1, <2>2, StepFacts DEF Release
<1>4. CASE /\ CheckAck("51", 81, "52")
           /\ UNCHANGED <<bitcount, RegisterAddress, Data, DataOut>>
  <2>1. state = "51"
    BY <1>4 DEF CheckAck, Step
  <2>2. /\ SCL = 0 /\ SDA01 = 1 /\ bitcount = 7
        /\ slave.phase # "unselected" => slave.phase = "store" /\ slave.count = 8
        /\ slave.drive = IF slave.phase = "unselected" THEN 1 ELSE 0
    BY <2>1
  <2>3. IF slave.phase = "unselected"
        THEN state' = "EE" /\ SDA01' = 1 /\ SCL' = 1 /\ slave' = slave
        ELSE /\ state' = "52" /\ SDA01' = 1 /\ SCL' = 1
             /\ slave'.phase = "store" /\ slave'.count = 9
    BY ONLY <1>4, <2>2, Together, CheckReads DEF Receiving
  <2>4. QED
    BY <1>4, <2>1, <2>2, <2>3
<1>5. QED
  BY <1>1, <1>2, <1>3, <1>4 DEF SendData

\* STOP takes the device out of the conversation, whatever it had seen.
LEMMA StopIsSeen ==
  ASSUME Together, NEW from, Step(from, "01", 1, 1),
         SCL = 1, SDA01 = 0, slave.drive = 1
  PROVE  slave'.phase = "unselected" /\ slave'.drive = 1
<1>1. SDA = 0 /\ Wired(SDA01', slave.drive) = 1
  BY StepFacts DEF SDA, Wired
<1>2. slave' = SeesStop(slave)
  BY <1>1, StepFacts, OnHigh
<1>3. QED
  BY <1>2, StepFacts DEF SeesStop, Device, Slave

LEMMA TogetherStopWrite == ASSUME Together, Stop("52", "53", "54") PROVE InStepInv'
<1> USE DEF Keep, Together, InStepInv, LevelsKnown, BitsCounted,
              DriverKnown, BytesAgree, RequestKept, At, k, Received
<1>1. CASE Step("52", "53", 0, 0) /\ Keep
  <2>1. state = "52" /\ SCL = 1 /\ slave.phase = "store" /\ slave.count = 9
    BY <1>1, StepFacts
  <2>2. slave'.phase = "store" /\ slave'.count = 0 /\ slave'.drive = 1
    BY ONLY <1>1, <2>1, Together, StepFacts, OnFall, FallAfterStore
  <2>3. QED
    BY <1>1, <2>2, StepFacts
<1>2. CASE Step("53", "54", 1, 0) /\ Keep
  <2>1. state = "53" /\ SCL = 0 /\ slave.phase = "store" /\ slave.count = 0
        /\ slave.drive = 1 /\ slave \in Device
    BY <1>2, StepFacts
  <2>2. slave'.phase = "store" /\ slave'.count = 1 /\ slave'.drive = 1
    <3>1. slave' = SeesRise(slave, 0)
      BY ONLY <1>2, <2>1, Together, StepFacts, OnRise, WiredHigh
    <3>2. slave.phase \in Receiving /\ slave.count < 8
      BY ONLY <2>1 DEF Receiving
    <3>3. /\ slave'.phase = slave.phase /\ slave'.count = slave.count + 1
          /\ slave'.drive = slave.drive /\ slave'.pointer = slave.pointer
      BY ONLY <2>1, <3>1, <3>2, RiseReceives
    <3>4. QED
      BY ONLY <2>1, <3>3
  <2>3. QED
    BY <1>2, <2>2, StepFacts
<1>3. CASE Step("54", "01", 1, 1) /\ Keep
  <2>1. SCL = 1 /\ SDA01 = 0 /\ slave.drive = 1
    BY <1>3, StepFacts
  <2>2. slave'.phase = "unselected" /\ slave'.drive = 1
    BY ONLY <1>3, <2>1, Together, StopIsSeen
  <2>3. QED
    BY <1>3, <2>2, StepFacts
<1>4. QED
  BY <1>1, <1>2, <1>3 DEF Stop

LEMMA TogetherStopRead == ASSUME Together, Stop("D3", "D4", "D5") PROVE InStepInv'
<1> USE DEF Keep, Together, InStepInv, LevelsKnown, BitsCounted,
              DriverKnown, BytesAgree, RequestKept, At, k, Received
<1>1. CASE Step("D3", "D4", 0, 0) /\ Keep
  <2>1. state = "D3" /\ SCL = 1 /\ slave.phase = "unselected"
    BY <1>1, StepFacts
  <2>2. /\ slave'.phase = "unselected" /\ slave'.drive = 1
        /\ slave'.pointer = slave.pointer /\ slave'.regs = slave.regs
    BY ONLY <1>1, <2>1, Together, StepFacts, OnFall, FallAlone
  <2>3. QED
    BY <1>1, <2>2, StepFacts DEF RegisterValue
<1>2. CASE Step("D4", "D5", 1, 0) /\ Keep
  <2>1. state = "D4" /\ SCL = 0 /\ slave.phase = "unselected" /\ slave.drive = 1
    BY <1>2, StepFacts
  <2>2. slave' = slave
    <3>1. slave' = SeesRise(slave, 0)
      BY ONLY <1>2, <2>1, Together, StepFacts, OnRise, WiredHigh
    <3>2. QED
      BY ONLY <1>2, <2>1, <3>1, Together, StepFacts, RiseAlone
  <2>3. QED
    BY <1>2, <2>2, StepFacts
<1>3. CASE Step("D5", "01", 1, 1) /\ Keep
  <2>1. SCL = 1 /\ SDA01 = 0 /\ slave.drive = 1
    BY <1>3, StepFacts
  <2>2. slave'.phase = "unselected" /\ slave'.drive = 1
    BY ONLY <1>3, <2>1, Together, StopIsSeen
  <2>3. QED
    BY <1>3, <2>2, StepFacts
<1>4. QED
  BY <1>1, <1>2, <1>3 DEF Stop

\* The device holds SDA low in state 70 (its acknowledgment), so the
\* controller never takes the error exit of that state; and it has pulsed
\* SCL once more when it sends START again.
LEMMA TogetherRepeatStart == ASSUME Together, RepeatStart PROVE InStepInv'
<1> USE DEF Keep, Together, InStepInv, LevelsKnown, BitsCounted,
              DriverKnown, BytesAgree, RequestKept, At, k, Received
<1>1. CASE /\ Release("70", IF SDA = 1 THEN "EE" ELSE "71")
           /\ RegisterAddressOut' = IF SDA = 1 THEN ByteOf(112)
                                    ELSE RegisterAddressOut
           /\ UNCHANGED <<bitcount, Ack, RegisterAddress, Data, DataOut>>
  <2>1. state = "70" /\ SCL = 1 /\ slave.phase = "pointer" /\ slave.count = 9
        /\ slave.drive = 0
    BY <1>1, StepFacts DEF Release
  <2>2. SDA = 0
    BY ONLY <2>1 DEF SDA, Wired
  <2>3. Step("70", "71", 0, 1)
    BY ONLY <1>1, <2>2, SMT DEF Release
  <2>4. /\ slave'.phase = "store" /\ slave'.count = 0 /\ slave'.drive = 1
        /\ slave'.pointer = slave.pointer
    BY ONLY <2>1, <2>3, Together, StepFacts, OnFall, FallAfterPointer
  <2>5. QED
    BY <1>1, <2>1, <2>3, <2>4, StepFacts
<1>2. CASE Step("71", "72", 1, 1) /\ Keep
  <2>1. state = "71" /\ SCL = 0 /\ slave.phase = "store" /\ slave.count = 0
        /\ slave.drive = 1 /\ slave \in Device
    BY <1>2, StepFacts
  <2>2. /\ slave'.phase = "store" /\ slave'.count = 1 /\ slave'.drive = 1
        /\ slave'.pointer = slave.pointer
    <3>1. slave' = SeesRise(slave, 1)
      BY ONLY <1>2, <2>1, Together, StepFacts, OnRise, WiredHigh
    <3>2. slave.phase \in Receiving /\ slave.count < 8
      BY ONLY <2>1 DEF Receiving
    <3>3. /\ slave'.phase = slave.phase /\ slave'.count = slave.count + 1
          /\ slave'.drive = slave.drive /\ slave'.pointer = slave.pointer
      BY ONLY <2>1, <3>1, <3>2, RiseReceives
    <3>4. QED
      BY ONLY <2>1, <3>3
  <2>3. QED
    BY <1>2, <2>1, <2>2, StepFacts
<1>3. CASE Start("72", "82")
  <2>1. Step("72", "82", 1, 0) /\ bitcount' = 7
    BY <1>3 DEF Start
  <2>2. SDA01 = 1 /\ SCL = 1 /\ slave.drive = 1
    BY <2>1, StepFacts
  <2>3. SDA = 1 /\ Wired(0, slave.drive) = 0
    BY ONLY <2>2 DEF SDA, Wired
  <2>4. slave' = SeesStart(slave)
    BY ONLY <2>1, <2>2, <2>3, Together, StepFacts, OnHigh
  <2>5. /\ slave'.phase = "select" /\ slave'.count = 0 /\ slave'.drive = 1
        /\ slave'.pointer = slave.pointer
    BY ONLY <2>1, <2>4, Together, StepFacts DEF SeesStart, Device, Slave
  <2>6. \A i \in Bits : ~(i > 7)
    BY DEF Bits
  <2>7. QED
    BY <1>3, <2>1, <2>5, <2>6, StepFacts DEF Start
<1>4. QED
  BY <1>1, <1>2, <1>3 DEF RepeatStart

LEMMA TogetherSelectForRead == ASSUME Together, SelectForRead PROVE InStepInv'
<1> USE DEF Keep, Together, InStepInv, LevelsKnown, BitsCounted,
              DriverKnown, BytesAgree, RequestKept, At, k, Received
<1>1. CASE PutBit("82", SlaveAddress_Read, "83")
  <2>1. SCL = 1 /\ slave.phase = "select" /\ slave.count < 8
    BY <1>1, StepFacts DEF PutBit
  <2>2. slave' = slave
    BY ONLY <1>1, <2>1, Together, PutReceives DEF Receiving
  <2>3. QED
    BY <1>1, <2>2, StepFacts DEF PutBit
<1>2. CASE ClockBit("83", "82", "92")
  <2>1. Step("83", IF bitcount - 1 >= 0 THEN "82" ELSE "92", 1, SDA01)
    BY <1>2 DEF ClockBit, CountDown
  <2>2. At("select", k) /\ slave.drive = 1 /\ SCL = 0
        /\ Received(SlaveAddress_Read) /\ SDA01 = SlaveAddress_Read[bitcount]
    BY <2>1, StepFacts
  <2> HIDE DEF Received
  <2>3. /\ slave'.phase = "select" /\ slave'.count = k + 1 /\ slave'.drive = 1
        /\ slave'.pointer = slave.pointer
        /\ IF k < 7 THEN /\ bitcount' = bitcount - 1 /\ state' = "82"
                         /\ \A i \in Bits : i > bitcount - 1
                              => slave'.byte[i] = SlaveAddress_Read[i]
                    ELSE /\ bitcount' = 7 /\ state' = "92"
                         /\ slave'.byte = SlaveAddress_Read
    BY <1>2, <2>2, ClockReceives, SlaveAddressType DEF Receiving
  <2>4. UNCHANGED RegisterAddress
    BY <1>2 DEF ClockBit
  <2> QED
    BY <1>2, <2>1, <2>3, <2>4, StepFacts DEF Received
<1>3. CASE Release("92", "93") /\ Keep
  <2>1. state = "92" /\ SCL = 1 /\ slave.phase = "select" /\ slave.count = 8
        /\ slave.drive = 1
    BY <1>3, StepFacts DEF Release
  <2>2. /\ slave'.byte = slave.byte /\ slave'.pointer = slave.pointer
        /\ \/ slave'.phase = "unselected" /\ slave'.drive = 1
           \/ slave'.phase = "select" /\ slave'.count = 8 /\ slave'.drive = 0
    BY ONLY <1>3, <2>1, Together, ReleaseAnswers DEF Receiving
  <2>3. QED
    BY <1>3, <2>1, <2>2, StepFacts DEF Release
<1>4. CASE /\ CheckAck("93", 147, "C0")
           /\ bitcount' = IF SDA = 1 THEN bitcount ELSE 7
           /\ UNCHANGED <<RegisterAddress, Data, DataOut>>
  <2>1. state = "93"
    BY <1>4 DEF CheckAck, Step
  <2>2. /\ SCL = 0 /\ SDA01 = 1 /\ bitcount = 7
        /\ slave.phase # "unselected" => slave.phase = "select" /\ slave.count = 8
        /\ slave.drive = IF slave.phase = "unselected" THEN 1 ELSE 0
        /\ slave.phase = "select" => slave.byte = SlaveAddress_Read
    BY <2>1
  <2>3. IF slave.phase = "unselected"
        THEN state' = "EE" /\ SDA01' = 1 /\ SCL' = 1 /\ slave' = slave
        ELSE /\ state' = "C0" /\ SDA01' = 1 /\ SCL' = 1
             /\ slave'.phase = "select" /\ slave'.count = 9
             /\ slave'.byte = slave.byte /\ slave'.pointer = slave.pointer
    BY ONLY <1>4, <2>2, Together, CheckReads DEF Receiving
  <2>4. AddressIn' = AddressIn /\ Read_WriteN' = Read_WriteN
    BY ONLY <1>4 DEF CheckAck, Step, environs, request
  <2>5. \A i \in Bits : ~(i > 7)
    BY DEF Bits
  <2>6. QED
    BY <1>4, <2>1, <2>2, <2>3, <2>4, <2>5
<1>5. QED
  BY <1>1, <1>2, <1>3, <1>4 DEF SelectForRead

\* A bit of the device's is read as SCL rises: it is the bit the device drives.
LEMMA TakeSends ==
  ASSUME Together, CountDown("C1", "C0", "D0"),
         SCL = 0, SDA01 = 1, slave.phase = "send", slave.count = k,
         slave.drive = slave.byte[bitcount]
  PROVE  /\ SDA = slave.byte[bitcount]
         /\ slave'.phase = "send" /\ slave'.count = k + 1
         /\ slave'.byte = slave.byte /\ slave'.pointer = slave.pointer
         /\ slave'.regs = slave.regs
         /\ SCL' = 1 /\ SDA01' = 1
         /\ IF bitcount > 0 THEN bitcount' = bitcount - 1 /\ state' = "C0"
                            ELSE bitcount' = 7 /\ state' = "D0"
<1>1. Step("C1", IF bitcount - 1 >= 0 THEN "C0" ELSE "D0", 1, SDA01)
      /\ bitcount' = IF bitcount - 1 >= 0 THEN bitcount - 1 ELSE 7
  BY DEF CountDown
<1>2. SDA = slave.drive
  BY <1>1, StepFacts, WiredHigh DEF SDA
<1>3. slave' = SeesRise(slave, slave.drive)
  BY <1>1, StepFacts, OnRise, WiredHigh
<1>4. slave \in Device /\ slave.drive \in {0, 1} /\ bitcount \in 0 .. 7
  BY <1>1, StepFacts
<1>5. slave.phase = "send" /\ slave.count < 8
  BY <1>4 DEF k
<1>6. /\ slave'.phase = slave.phase /\ slave'.count = slave.count + 1
      /\ slave'.byte = slave.byte /\ slave'.pointer = slave.pointer
      /\ slave'.regs = slave.regs
  BY <1>3, <1>4, <1>5, RiseCounts
<1>7. SCL' = 1 /\ SDA01' = 1 /\ state' = IF bitcount - 1 >= 0 THEN "C0" ELSE "D0"
  BY <1>1, StepFacts
<1>8. QED
  BY ONLY <1>1, <1>2, <1>4, <1>6, <1>7, slave.phase = "send", slave.count = k,
          slave.drive = slave.byte[bitcount]

LEMMA TogetherReceiveData == ASSUME Together, ReceiveData PROVE InStepInv'
<1> USE DEF Keep, Together, InStepInv, LevelsKnown, BitsCounted,
              DriverKnown, BytesAgree, RequestKept, At, k, Received
<1>1. CASE Release("C0", "C1") /\ Keep
  <2>1. /\ state = "C0" /\ SCL = 1 /\ SCL' = 0 /\ SlaveReacts /\ slave \in Device
        /\ bitcount \in 0 .. 7
        /\ bitcount = 7 => /\ slave.phase = "select" /\ slave.count = 9
                           /\ slave.byte = SlaveAddress_Read
        /\ bitcount # 7 => /\ slave.phase = "send" /\ slave.count = 7 - bitcount
                           /\ slave.byte = RegisterValue(slave, slave.pointer)
    BY <1>1, StepFacts DEF Release
  <2>2. /\ slave'.phase = "send" /\ slave'.count = 7 - bitcount
        /\ slave'.byte = RegisterValue(slave, slave.pointer)
        /\ slave'.pointer = slave.pointer /\ slave'.regs = slave.regs
        /\ slave'.drive = slave'.byte[bitcount]
    <3>1. CASE bitcount = 7
      BY ONLY <2>1, <3>1, OnFall, FallAfterSelect, AddressBits
    <3>2. CASE bitcount # 7
      <4>1. slave.phase = "send" /\ slave.count <= 8 /\ slave.count # 8
            /\ 7 - slave.count = bitcount
        BY ONLY <2>1, <3>2
      <4>2. PICK ok \in BOOLEAN : slave' = SeesFall(slave, SlaveAddress_Write, ok)
        BY ONLY <2>1, OnFall
      <4>3. /\ slave'.phase = "send" /\ slave'.count = slave.count
            /\ slave'.byte = slave.byte /\ slave'.pointer = slave.pointer
            /\ slave'.regs = slave.regs
            /\ slave'.drive = slave.byte[7 - slave.count]
        BY ONLY <2>1, <4>1, <4>2, FallSends
      <4>4. QED
        BY ONLY <2>1, <3>2, <4>1, <4>3
    <3>3. QED
      BY <3>1, <3>2
  <2>3. RegisterValue(slave, slave.pointer) = RegisterValue(slave', slave'.pointer)
    BY <2>2 DEF RegisterValue
  <2>4. bitcount = 7 => \A i \in Bits : ~(i > bitcount)
    BY DEF Bits
  <2>5. \A i \in Bits : i > bitcount => Data[i] = slave'.byte[i]
    BY <2>1, <2>2, <2>4
  <2>6. QED
    BY <1>1, <2>1, <2>2, <2>3, <2>5, StepFacts DEF Release
<1>2. CASE /\ CountDown("C1", "C0", "D0")
           /\ Data' = TakeBit(SDA)
           /\ UNCHANGED <<Ack, RegisterAddress, DataOut, RegisterAddressOut>>
  <2>1. /\ state = "C1" /\ slave \in Device /\ bitcount \in 0 .. 7
        /\ AddressIn' = AddressIn /\ Read_WriteN' = Read_WriteN
    BY <1>2, StepFacts DEF CountDown
  <2>2. /\ SCL = 0 /\ SDA01 = 1 /\ slave.phase = "send" /\ slave.count = k
        /\ slave.drive = slave.byte[bitcount]
        /\ slave.byte = RegisterValue(slave, slave.pointer)
        /\ \A i \in Bits : i > bitcount => Data[i] = slave.byte[i]
    BY <2>1
  <2>3. /\ SDA = slave.byte[bitcount]
        /\ slave'.phase = "send" /\ slave'.count = k + 1
        /\ slave'.byte = slave.byte /\ slave'.pointer = slave.pointer
        /\ slave'.regs = slave.regs
        /\ SCL' = 1 /\ SDA01' = 1
        /\ IF bitcount > 0 THEN bitcount' = bitcount - 1 /\ state' = "C0"
                           ELSE bitcount' = 7 /\ state' = "D0"
    BY ONLY <1>2, <2>2, Together, TakeSends
  <2>4. Data \in Byte /\ slave.byte \in Byte
    BY <2>1 DEF TypeOK, Device, Slave
  <2>5. \A i \in Bits : i > bitcount - 1 => Data'[i] = slave.byte[i]
    BY ONLY <1>2, <2>1, <2>2, <2>3, <2>4 DEF TakeBit, Byte, Bits
  <2>6. bitcount = 0 => Data' = slave.byte
    <3>1. Data' \in Byte
      BY <1>2, <2>3, <2>4 DEF TakeBit, Byte
    <3>2. bitcount = 0 => \A i \in Bits : Data'[i] = slave.byte[i]
      BY ONLY <2>5 DEF Bits
    <3>3. QED
      BY ONLY <3>1, <3>2, <2>4, SameByte
  <2>7. RegisterValue(slave, slave.pointer) = RegisterValue(slave', slave'.pointer)
    BY ONLY <2>3 DEF RegisterValue
  <2>8. CASE bitcount > 0
    <3>1. bitcount' = bitcount - 1 /\ state' = "C0" /\ 7 - bitcount' # 0
          /\ slave'.count = 7 - bitcount'
      BY ONLY <2>1, <2>3, <2>8 DEF k
    <3>2. QED
      BY <1>2, <2>1, <2>2, <2>3, <2>5, <2>7, <3>1
  <2>9. CASE bitcount = 0
    <3>1. bitcount' = 7 /\ state' = "D0" /\ slave'.count = 8
      BY ONLY <2>1, <2>3, <2>9 DEF k
    <3>2. QED
      BY <1>2, <2>1, <2>2, <2>3, <2>6, <2>7, <2>9, <3>1
  <2>10. QED
    BY <2>1, <2>8, <2>9
<1>3. CASE /\ Release("D0", "D2")
           /\ RegisterAddressOut' = RegisterAddress
           /\ DataOut' = Data
           /\ UNCHANGED <<bitcount, Ack, RegisterAddress, Data>>
  <2>1. /\ state = "D0" /\ SCL = 1 /\ SCL' = 0 /\ SlaveReacts /\ slave \in Device
        /\ slave.phase = "send" /\ slave.count = 8
        /\ Data = RegisterValue(slave, slave.pointer)
    BY <1>3, StepFacts DEF Release
  <2>2. /\ slave'.phase = "send" /\ slave'.count = 8 /\ slave'.drive = 1
        /\ slave'.pointer = slave.pointer /\ slave'.regs = slave.regs
    BY ONLY <2>1, OnFall, FallSends
  <2>3. RegisterValue(slave, slave.pointer) = RegisterValue(slave', slave'.pointer)
    BY ONLY <2>2 DEF RegisterValue
  <2>4. QED
    BY <1>3, <2>1, <2>2, <2>3, StepFacts DEF Release
<1>4. CASE Step("D2", "D3", 1, SDA01) /\ Keep
  <2>1. /\ state = "D2" /\ SCL = 0 /\ SDA01 = 1 /\ slave \in Device
        /\ slave.phase = "send" /\ slave.count = 8 /\ slave.drive = 1
    BY <1>4, StepFacts
  <2>2. slave' = SeesRise(slave, 1)
    BY ONLY <1>4, <2>1, Together, StepFacts, OnRise, WiredHigh
  <2>3. /\ slave'.phase = "unselected" /\ slave'.drive = 1
        /\ slave'.pointer = slave.pointer /\ slave'.regs = slave.regs
    BY ONLY <2>1, <2>2, RiseRefused
  <2>4. RegisterValue(slave, slave.pointer) = RegisterValue(slave', slave'.pointer)
    BY ONLY <2>3 DEF RegisterValue
  <2>5. QED
    BY <1>4, <2>1, <2>3, <2>4, StepFacts
<1>5. QED
  BY <1>1, <1>2, <1>3, <1>4 DEF ReceiveData

LEMMA TogetherError == ASSUME Together, Error PROVE InStepInv'
<1> USE DEF Keep, Together, InStepInv, LevelsKnown, BitsCounted,
              DriverKnown, BytesAgree, RequestKept, At, k, Received
<1>1. Step("EE", "EE", 1, 1)
  BY DEF Error
<1>2. SCL = 1 /\ SDA01 = 1 /\ slave.drive = 1
  BY <1>1, StepFacts
<1>3. slave' = slave
  <2>1. SDA = 1 /\ Wired(1, slave.drive) = 1
    BY ONLY <1>2 DEF SDA, Wired
  <2>2. QED
    BY ONLY <1>1, <1>2, <2>1, Together, StepFacts, OnHigh
<1>4. QED
  BY <1>1, <1>3, StepFacts DEF Error

LEMMA TogetherClock == ASSUME Together, Clock PROVE InStepInv'
  BY TogetherIdle, TogetherStart, TogetherSelectForWrite,
     TogetherSendRegisterAddress, TogetherSendData, TogetherStopWrite,
     TogetherRepeatStart, TogetherSelectForRead, TogetherReceiveData,
     TogetherStopRead, TogetherError
  DEF Clock

\* A client that holds its request changes it in 00 and 01 only, where nothing
\* depends on it.
LEMMA TogetherChangeRequest == ASSUME Together, ChangeRequest PROVE InStepInv'
<1> USE DEF Keep, Together, InStepInv, LevelsKnown, BitsCounted,
              DriverKnown, BytesAgree, RequestKept, At, k, Received
<1>1. UNCHANGED <<state, SCL, SDA01, bitcount, Ack, RegisterAddress, Data,
                  DataOut, RegisterAddressOut, slave>>
      /\ (InputsHeld => state \in {"00", "01"})
  BY DEF ChangeRequest
<1>2. LevelsKnown' /\ RequestKept'
  <2>1. CASE InputsHeld
    BY <1>1, <2>1
  <2>2. CASE ~InputsHeld
    BY <1>1, <2>2
  <2>3. QED
    BY <2>1, <2>2
<1>3. BitsCounted' /\ DriverKnown' /\ BytesAgree'
  BY <1>1
<1>4. QED
  BY <1>2, <1>3

LEMMA InitAgreed == ASSUME Init PROVE Agreed
  BY DEF Init, Agreed, InStepInv, LevelsKnown, BitsCounted, DriverKnown,
         BytesAgree, RequestKept, PoweredUp

\* A reset in the middle of a transaction ends the agreement, for good.
LEMMA NextAgreed == ASSUME TypeOK, Agreed, [Next]_vars PROVE Agreed'
<1>1. CASE resets # 0 \/ AssertReset
  BY <1>1 DEF TypeOK, Agreed, Next, vars, environs, Clock, Idle, Start,
    SelectForWrite, PutBit, ClockBit, CountDown, Release, CheckAck, Step,
    SendRegisterAddress, SendData, Stop, RepeatStart, SelectForRead,
    ReceiveData, Error, AssertReset, ReleaseReset, ChangeRequest
<1>2. ASSUME resets = 0, ~AssertReset PROVE Agreed'
  <2>1. Together
    BY <1>2 DEF Together, Agreed
  <2>2. CASE Clock
    BY <2>1, <2>2, TogetherClock DEF Agreed
  <2>3. CASE ReleaseReset \/ UNCHANGED vars
    BY <2>1, <2>3 DEF Agreed, Together, ReleaseReset, vars, environs, request,
       InStepInv, LevelsKnown, BitsCounted, DriverKnown, BytesAgree,
       RequestKept, At, k, Received
  <2>4. CASE ChangeRequest
    BY <2>1, <2>4, TogetherChangeRequest DEF Agreed
  <2>5. QED
    BY <1>2, <2>2, <2>3, <2>4 DEF Next
<1>3. QED
  BY <1>1, <1>2

\* The agreement, spelled out as the conversation, the driver and the data.
LEMMA AgreedInStep == ASSUME TypeOK, Agreed PROVE InStep
<1> SUFFICES ASSUME resets = 0
             PROVE  <<slave.phase, slave.count>> \in Conversation
  BY DEF InStep
<1>1. BitsCounted
  BY DEF Agreed, InStepInv
<1>2. QED
  BY <1>1 DEF BitsCounted, At, k, Conversation, TypeOK, States

LEMMA AgreedOneDriver == ASSUME TypeOK, Agreed PROVE OneDriver
<1> SUFFICES ASSUME resets = 0 PROVE SDA01 = 1 \/ slave.drive = 1
  BY DEF OneDriver
<1>1. LevelsKnown /\ DriverKnown
  BY DEF Agreed, InStepInv
<1>2. QED
  BY <1>1 DEF LevelsKnown, DriverKnown, TypeOK, States

LEMMA AgreedRead == ASSUME Agreed PROVE ReadIsFaithful
  BY DEF Agreed, InStepInv, BytesAgree, RequestKept, ReadIsFaithful

(***************************************************************************)
(* The two ends never lose step, whether the client holds its request or   *)
(* not, whether the device refuses bytes or not, and whatever its          *)
(* registers hold: it counts the bits the controller sends and means by    *)
(* them what the controller means, one end at a time pulls SDA down, and   *)
(* what a completed read hands over is the content of the register the     *)
(* device was pointed at - the one asked for, if the request was held.     *)
(***************************************************************************)
THEOREM EndsStayTogether == Spec => []EndsAgree
<1>1. Init => TypeOK /\ Agreed
  BY InitType, InitAgreed
<1>2. TypeOK /\ Agreed /\ [Next]_vars => TypeOK' /\ Agreed'
  BY NextType, NextAgreed
<1>3. TypeOK /\ Agreed => EndsAgree
  BY AgreedInStep, AgreedOneDriver, AgreedRead DEF EndsAgree
<1>4. QED
  BY <1>1, <1>2, <1>3, PTL DEF Spec

(***************************************************************************)
(* Controller and device together, as a port to the registers.             *)
(***************************************************************************)

\* Only the eighth bit of a byte to store, as SCL falls, changes a register.
LEMMA RegistersKept ==
  ASSUME slave \in Device, SDA01' \in {0, 1}, SCL \in {0, 1}, SCL' \in {0, 1},
         SlaveReacts,
         SCL = 1 /\ SCL' = 0 => ~(slave.phase = "store" /\ slave.count = 8)
  PROVE  slave'.regs = slave.regs
<1>1. CASE SCL = 0 /\ SCL' = 1
  <2>1. \A b \in {0, 1} : SeesRise(slave, b).regs = slave.regs
    BY DEF SeesRise, Device, Slave
  <2>2. QED
    BY <1>1, <2>1, OnRise, WiredType
<1>2. CASE SCL = 1 /\ SCL' = 0
  <2>1. PICK ok \in BOOLEAN : slave' = SeesFall(slave, SlaveAddress_Write, ok)
    BY <1>2, OnFall
  <2>2. CASE slave.phase \in Receiving /\ slave.count = 8
    BY <1>2, <2>1, <2>2, FallAnswers DEF Receiving
  <2>3. CASE ~(slave.phase \in Receiving /\ slave.count = 8)
    BY <2>1, <2>3 DEF SeesFall, Sending, Device, Slave
  <2>4. QED
    BY <2>2, <2>3
<1>3. CASE SCL = 1 /\ SCL' = 1
  <2>1. SeesStart(slave).regs = slave.regs /\ SeesStop(slave).regs = slave.regs
    BY DEF SeesStart, SeesStop, Device, Slave
  <2>2. QED
    BY <1>3, <2>1, OnHigh
<1>4. CASE SCL = 0 /\ SCL' = 0
  BY <1>4 DEF SlaveReacts
<1>5. QED
  BY <1>1, <1>2, <1>3, <1>4

\* A step of the controller that changes nothing the client can see.
LEMMA PortStutters ==
  ASSUME UNCHANGED <<AddressIn, DataIn, Read_WriteN>>,
         slave'.regs = slave.regs, DataOut' = DataOut, PortPhase' = PortPhase
  PROVE  UNCHANGED Port!vars
  BY DEF Port!vars, Port!request

\* What every step of the controller has in common.
LEMMA ClockFacts ==
  ASSUME TypeOK, Clock
  PROVE  /\ UNCHANGED <<AddressIn, DataIn, Read_WriteN, ResetN, resets>>
         /\ SlaveReacts /\ SDA01' \in {0, 1} /\ SCL' \in {0, 1}
         /\ SCL \in {0, 1} /\ slave \in Device
<1>1. SlaveReacts /\ UNCHANGED <<AddressIn, DataIn, Read_WriteN, ResetN, resets>>
  BY DEF Clock, Idle, Start, SelectForWrite, PutBit, ClockBit, CountDown,
    Release, CheckAck, Step, SendRegisterAddress, SendData, Stop, RepeatStart,
    SelectForRead, ReceiveData, Error, environs, request
<1>2. TypeOK'
  BY ClockType
<1>3. QED
  BY <1>1, <1>2 DEF TypeOK, Device

\* The registers move in state 50 only.
LEMMA StoredAtEighthBit ==
  ASSUME Together, Clock, state # "50" PROVE slave'.regs = slave.regs
<1>1. SCL = 1 => ~(slave.phase = "store" /\ slave.count = 8)
  BY DEF Together, InStepInv, LevelsKnown, BitsCounted, At, k, TypeOK, States, Bits
<1>2. QED
  BY <1>1, ClockFacts, RegistersKept DEF Together

\* A refusal: the controller goes from a busy state to the error state.
LEMMA PortRefuses ==
  ASSUME PortPhase = "busy", PortPhase' = "refused", slave'.regs = slave.regs,
         UNCHANGED <<AddressIn, DataIn, Read_WriteN>>,
         \/ DataOut' = DataOut
         \/ Read_WriteN = 0 /\ DataOut' = DataIn
  PROVE  Port!Next
  BY DEF Port!Next, Port!Refuse, Port!request

\* The end of the byte to store: the register is written, or the device
\* refuses the byte and nothing is.
LEMMA PortStores ==
  ASSUME InputsHeld, Together, resets = 0, resets' = 0, Release("50", "51"),
         DataOut' = DataIn
  PROVE  Port!Next
<1>1. /\ SCL = 1 /\ slave.phase = "store" /\ slave.count = 8 /\ slave.drive = 1
      /\ slave.pointer = AddressIn /\ slave.byte = DataIn /\ Read_WriteN = 0
      /\ UNCHANGED <<AddressIn, DataIn, Read_WriteN>>
      /\ state = "50" /\ state' = "51"
  BY StepFacts DEF Release, Together, InStepInv, LevelsKnown, BitsCounted,
    DriverKnown, RequestKept, At
<1>2. AddressIn \in DOMAIN slave.regs
  BY DEF Together, TypeOK, Slave
<1>3. PortPhase = "busy"
  BY <1>1 DEF PortPhase
<1>4. \/ slave'.phase = "unselected" /\ slave'.regs = slave.regs
      \/ /\ slave'.phase = "store"
         /\ slave'.regs = [slave.regs EXCEPT ![AddressIn] = DataIn]
  <2>1. \/ slave'.phase = "unselected" /\ slave'.regs = slave.regs
        \/ /\ slave'.phase = slave.phase
           /\ slave'.regs =
                IF slave.phase = "store" /\ slave.pointer \in DOMAIN slave.regs
                THEN [slave.regs EXCEPT ![slave.pointer] = slave.byte]
                ELSE slave.regs
    BY <1>1, ReleaseAnswers DEF Receiving
  <2>2. QED
    BY ONLY <2>1, <1>1, <1>2
<1>5. CASE slave'.phase = "unselected" /\ slave'.regs = slave.regs
  <2>1. PortPhase' = "refused"
    BY <1>1, <1>5 DEF PortPhase
  <2>2. QED
    BY <1>1, <1>3, <1>5, <2>1, PortRefuses
<1>6. CASE /\ slave'.phase = "store"
           /\ slave'.regs = [slave.regs EXCEPT ![AddressIn] = DataIn]
  <2>1. PortPhase' = "served"
    BY <1>1, <1>6 DEF PortPhase
  <2>2. Port!Serve
    BY <1>1, <1>3, <1>6, <2>1 DEF Port!Serve, Port!request
  <2>3. QED
    BY <2>2 DEF Port!Next
<1>7. QED
  BY <1>4, <1>5, <1>6

\* The end of a read: the register asked for is handed over.
LEMMA PortReads ==
  ASSUME InputsHeld, Together, resets = 0, resets' = 0, Release("D0", "D2"),
         DataOut' = Data, slave'.regs = slave.regs
  PROVE  Port!Next
<1>1. /\ slave.pointer = AddressIn /\ Read_WriteN = 1
      /\ UNCHANGED <<AddressIn, DataIn, Read_WriteN>>
      /\ state = "D0" /\ state' = "D2"
      /\ Data = RegisterValue(slave, AddressIn)
  BY StepFacts DEF Release, Together, InStepInv, BytesAgree, RequestKept
<1>2. AddressIn \in DOMAIN slave.regs
  BY DEF Together, TypeOK, Slave
<1>3. PortPhase = "busy" /\ PortPhase' = "served"
  BY <1>1 DEF PortPhase
<1>4. DataOut' = slave.regs[AddressIn]
  BY <1>1, <1>2 DEF RegisterValue
<1>5. Port!Serve
  BY <1>1, <1>3, <1>4 DEF Port!Serve, Port!request
<1>6. QED
  BY <1>5 DEF Port!Next

\* What the client sees of each step.
LEMMA PortClock ==
  ASSUME InputsHeld, Together, resets = 0, Clock PROVE [Port!Next]_(Port!vars)
<1>1. UNCHANGED <<AddressIn, DataIn, Read_WriteN>> /\ resets' = 0
      /\ (state # "50" => slave'.regs = slave.regs)
  BY ClockFacts, StoredAtEighthBit DEF Together
<1>2. CASE Idle
  <2>1. state = "00" /\ state' = "01" /\ DataOut = ZeroByte /\ DataOut' = ZeroByte
    BY <1>2 DEF Idle, Step, Together, InStepInv, BytesAgree
  <2>2. PortPhase = "idle" /\ PortPhase' = "idle"
    BY <1>1, <2>1 DEF PortPhase
  <2>3. QED
    BY <1>1, <2>1, <2>2, PortStutters
<1>3. CASE Start("01", "02")
  <2>1. state = "01" /\ state' = "02" /\ DataOut' = DataOut
    BY <1>3 DEF Start, Step
  <2>2. PortPhase = "idle" /\ PortPhase' = "busy"
    BY <1>1, <2>1 DEF PortPhase
  <2>3. Port!Begin
    BY <1>1, <2>1, <2>2 DEF Port!Begin, Port!request
  <2>4. QED
    BY <2>3 DEF Port!Next
<1>4. CASE SelectForWrite \/ SendRegisterAddress \/ RepeatStart \/ SelectForRead
  <2>1. /\ state \in {"02", "03", "12", "13", "20", "21", "30", "31", "70",
                      "71", "72", "82", "83", "92", "93"}
        /\ state' \in {"02", "03", "12", "13", "20", "21", "30", "31", "40",
                       "70", "71", "72", "82", "83", "92", "93", "C0", "EE"}
        /\ DataOut' = DataOut
    BY <1>4 DEF SelectForWrite, SendRegisterAddress, RepeatStart, SelectForRead,
      PutBit, ClockBit, CountDown, Release, CheckAck, Step, Start, Keep
  <2>2. PortPhase = "busy" /\ PortPhase' \in {"busy", "refused"}
    BY <1>1, <2>1 DEF PortPhase
  <2>3. QED
    BY <1>1, <2>1, <2>2, PortStutters, PortRefuses
<1>5. CASE SendData
  <2>1. CASE Release("50", "51") /\ DataOut' = DataIn
    BY <1>1, <2>1, PortStores
  <2>2. CASE PutBit("40", DataIn, "41") \/ ClockBit("41", "40", "50")
    <3>1. state \in {"40", "41"} /\ state' \in {"40", "41", "50"}
          /\ DataOut' = DataOut
      BY <2>2 DEF PutBit, ClockBit, CountDown, Step, Keep
    <3>2. PortPhase = "busy" /\ PortPhase' = "busy"
      BY <1>1, <3>1 DEF PortPhase
    <3>3. QED
      BY <1>1, <3>1, <3>2, PortStutters
  <2>3. CASE CheckAck("51", 81, "52") /\ DataOut' = DataOut
    <3>1. /\ state = "51" /\ SCL = 0 /\ SDA01 = 1
          /\ slave.phase # "unselected" => slave.phase = "store" /\ slave.count = 8
          /\ slave.drive = IF slave.phase = "unselected" THEN 1 ELSE 0
      BY <2>3 DEF CheckAck, Step, Together, InStepInv, LevelsKnown, BitsCounted,
        DriverKnown, At
    <3>2. state' = IF slave.phase = "unselected" THEN "EE" ELSE "52"
      BY ONLY Together, <2>3, <3>1, CheckReads DEF Receiving
    <3>3. PortPhase' = PortPhase
      BY <1>1, <3>1, <3>2 DEF PortPhase
    <3>4. QED
      BY <1>1, <2>3, <3>1, <3>3, PortStutters
  <2>4. QED
    BY <1>5, <2>1, <2>2, <2>3 DEF SendData
<1>6. CASE Stop("52", "53", "54") \/ Stop("D3", "D4", "D5")
  <2>1. /\ state \in {"52", "53", "54", "D3", "D4", "D5"}
        /\ state' \in {"53", "54", "D4", "D5", "01"} /\ DataOut' = DataOut
    BY <1>6 DEF Stop, Step, Keep
  <2>2. PortPhase = "served" /\ PortPhase' \in {"served", "idle"}
    BY <1>1, <2>1 DEF PortPhase
  <2>3. PortPhase' = "idle" => Port!Finish
    BY <1>1, <2>1, <2>2 DEF Port!Finish, Port!request
  <2>4. QED
    BY <1>1, <2>1, <2>2, <2>3, PortStutters DEF Port!Next
<1>7. CASE ReceiveData
  <2>1. CASE Release("D0", "D2") /\ DataOut' = Data
    <3>1. slave'.regs = slave.regs
      BY <1>1, <2>1 DEF Release, Step
    <3>2. QED
      BY <1>1, <2>1, <3>1, PortReads
  <2>2. CASE /\ Release("C0", "C1") \/ CountDown("C1", "C0", "D0")
             /\ DataOut' = DataOut
    <3>1. state \in {"C0", "C1"} /\ state' \in {"C0", "C1", "D0"}
      BY <2>2 DEF Release, CountDown, Step
    <3>2. PortPhase = "busy" /\ PortPhase' = "busy"
      BY <1>1, <3>1 DEF PortPhase
    <3>3. QED
      BY <1>1, <2>2, <3>1, <3>2, PortStutters
  <2>3. CASE Step("D2", "D3", 1, SDA01) /\ Keep
    <3>1. state = "D2" /\ state' = "D3" /\ DataOut' = DataOut
      BY <2>3 DEF Step, Keep
    <3>2. PortPhase = "served" /\ PortPhase' = "served"
      BY <1>1, <3>1 DEF PortPhase
    <3>3. QED
      BY <1>1, <3>1, <3>2, PortStutters
  <2>4. QED
    BY <1>7, <2>1, <2>2, <2>3 DEF ReceiveData, Keep
<1>8. CASE Error
  <2>1. state = "EE" /\ state' = "EE" /\ DataOut' = DataOut
    BY <1>8 DEF Error, Step, Keep
  <2>2. PortPhase = "refused" /\ PortPhase' = "refused"
    BY <1>1, <2>1 DEF PortPhase
  <2>3. QED
    BY <1>1, <2>1, <2>2, PortStutters
<1>9. QED
  BY <1>2, <1>3, <1>4, <1>5, <1>6, <1>7, <1>8 DEF Clock

LEMMA PortStep ==
  ASSUME InputsHeld, TypeOK, Agreed, [Next]_vars
  PROVE  [Port!Next]_(Port!vars)
<1>1. CASE AssertReset \/ resets # 0
  <2>1. resets' > 0
    BY <1>1 DEF TypeOK, Next, vars, environs, Clock, Idle, Start,
      SelectForWrite, PutBit, ClockBit, CountDown, Release, CheckAck, Step,
      SendRegisterAddress, SendData, Stop, RepeatStart, SelectForRead,
      ReceiveData, Error, AssertReset, ReleaseReset, ChangeRequest
  <2>2. PortPhase' = "abandoned"
    BY <2>1 DEF PortPhase
  <2>3. QED
    BY <2>2 DEF Port!Next, Port!Abandon
<1>2. CASE ~AssertReset /\ resets = 0
  <2>1. Together
    BY <1>2 DEF Together, Agreed
  <2>2. CASE Clock
    BY <1>2, <2>1, <2>2, PortClock
  <2>3. CASE ReleaseReset \/ UNCHANGED vars
    <3>1. UNCHANGED <<AddressIn, DataIn, Read_WriteN, slave, DataOut, state, resets>>
      BY <2>3 DEF ReleaseReset, vars, environs, request
    <3>2. PortPhase' = PortPhase
      BY <3>1 DEF PortPhase
    <3>3. QED
      BY <3>1, <3>2, PortStutters
  <2>4. CASE ChangeRequest
    <3>1. state \in {"00", "01"}
          /\ UNCHANGED <<slave, DataOut, state, resets>>
      BY <2>4 DEF ChangeRequest
    <3>2. PortPhase = "idle" /\ PortPhase' = "idle"
      BY <1>2, <3>1 DEF PortPhase
    <3>3. Port!Ask
      BY <2>4, <3>1, <3>2 DEF Port!Ask, ChangeRequest
    <3>4. QED
      BY <3>3 DEF Port!Next
  <2>5. QED
    BY <1>2, <2>2, <2>3, <2>4 DEF Next
<1>3. QED
  BY <1>1, <1>2

(***************************************************************************)
(* For a client that holds its request, controller and device implement    *)
(* the port to the registers: each round reads the register asked for or   *)
(* writes it, once and as a whole, or is refused.  (That the rounds go on  *)
(* is the liveness part of ImplementsRegisterPort and not proved here.)    *)
(***************************************************************************)
THEOREM PortImplemented ==
  ASSUME InputsHeld
  PROVE  Spec => Port!Init /\ [][Port!Next]_(Port!vars)
<1>1. Init => TypeOK /\ Agreed
  BY InitType, InitAgreed
<1>2. TypeOK /\ Agreed /\ [Next]_vars => TypeOK' /\ Agreed'
  BY NextType, NextAgreed
<1>3. TypeOK /\ Agreed /\ [Next]_vars => [Port!Next]_(Port!vars)
  BY PortStep
<1>4. Init => Port!Init
  <2> SUFFICES ASSUME Init PROVE Port!Init
    OBVIOUS
  <2>1. PortPhase = "idle"
    BY DEF Init, PortPhase
  <2>2. slave.regs \in [Addrs -> Values]
    BY DEF Init, PoweredUp
  <2>3. QED
    BY <2>1, <2>2 DEF Init, Port!Init
<1>5. QED
  BY <1>1, <1>2, <1>3, <1>4, PTL DEF Spec

(***************************************************************************)
(* The controller of module OneShotController.  It takes the steps of      *)
(* I2CController but in two places: the byte it writes, and the states     *)
(* after STOP, which it does not leave.                                    *)
(***************************************************************************)
WriteStates == {"40", "41", "50", "51"}

LEMMA OneShotSteps ==
  ASSUME OneShotClock
  PROVE  \/ Clock /\ state \notin WriteStates
         \/ SendWakeUp
         \/ Final("54") /\ Keep
         \/ Final("D5") /\ Keep
<1>1. CASE SendWakeUp
  BY <1>1
<1>2. CASE StopOnce("52", "53", "54") \/ StopOnce("D3", "D4", "D5")
  BY <1>2 DEF StopOnce, Stop, Clock, Step, WriteStates
<1>3. CASE Idle \/ Start("01", "02") \/ SelectForWrite \/ SendRegisterAddress
  BY <1>3 DEF Clock, Step, WriteStates, Idle, Start, SelectForWrite, PutBit,
       ClockBit, CountDown, Release, CheckAck, SendRegisterAddress
<1>4. CASE RepeatStart \/ SelectForRead \/ ReceiveData \/ Error
  BY <1>4 DEF Clock, Step, WriteStates, RepeatStart, Start, SelectForRead, PutBit,
       ClockBit, CountDown, Release, CheckAck, ReceiveData, Error
<1>5. QED
  BY <1>1, <1>2, <1>3, <1>4 DEF OneShotClock

LEMMA WakeUpType == Wake_Up \in Byte /\ \A i \in Bits : Wake_Up[i] = 0
  BY ZeroByteType DEF Wake_Up, ZeroByte

LEMMA SendWakeUpType == ASSUME TypeOK, SendWakeUp PROVE TypeOK'
<1> USE StatesListed
<1>1. CASE PutBit("40", DataToSend, "41")
  BY <1>1, PutBitType, WakeUpType DEF DataToSend
<1>2. CASE ClockBit("41", "40", "50")
  BY <1>2, ClockBitType
<1>3. CASE /\ Release("50", "51")
           /\ RegisterAddressOut' = AddressIn
           /\ DataOut' = DataToSend
           /\ UNCHANGED <<bitcount, Ack, RegisterAddress, Data>>
  BY <1>3, ReleaseType, TypeParts, InputsType, WakeUpType DEF RegistersOK, DataToSend
<1>4. CASE /\ CheckAck("51", 81, "52")
           /\ UNCHANGED <<bitcount, RegisterAddress, Data, DataOut>>
  BY <1>4, CheckAckType, TypeParts DEF RegistersOK
<1>5. QED
  BY <1>1, <1>2, <1>3, <1>4 DEF SendWakeUp

LEMMA OneShotType == ASSUME TypeOK, [OneShotNext]_vars PROVE TypeOK'
<1>1. CASE SendWakeUp
  BY <1>1, SendWakeUpType
<1>2. CASE (Final("54") \/ Final("D5")) /\ Keep
  BY <1>2, StepType, StatesListed, TypeParts DEF Final, Keep, RegistersOK
<1>3. CASE Clock \/ AssertReset \/ ReleaseReset \/ ChangeRequest \/ UNCHANGED vars
  BY <1>3, NextType DEF Next
<1>4. QED
  BY <1>1, <1>2, <1>3, OneShotSteps DEF OneShotNext, ResetByHand

(***************************************************************************)
(* While the data byte goes out: it is Wake_Up, bit by bit.                *)
(***************************************************************************)
WakeUpSent ==
  /\ state = "41" => SDA01 = 0
  /\ state \in {"40", "41"} /\ slave.phase = "store" => Received(Wake_Up)
  /\ state = "50" => slave.byte = Wake_Up

\* After STOP: both wires are high, and the device is out.
Silent ==
  /\ state \in {"54", "D5"} /\ SDA01 = 1 /\ SCL = 1
  /\ slave.phase = "unselected" /\ slave.drive = 1

OneShotInv == TypeOK /\ (Silent \/ (InStepInv /\ WakeUpSent))

LEMMA SilentStays ==
  ASSUME TypeOK, Silent, OneShotClock
  PROVE  Silent' /\ slave' = slave /\ state' = state /\ SCL' = SCL /\ SDA01' = SDA01
<1>1. Step(state, state, 1, 1)
  BY DEF Silent, OneShotClock, Idle, Start, SelectForWrite, PutBit, ClockBit,
    CountDown, Release, CheckAck, Step, SendRegisterAddress, SendWakeUp, StopOnce,
    Final, RepeatStart, SelectForRead, ReceiveData, Error
<1>2. SDA = 1 /\ Wired(1, slave.drive) = 1
  BY DEF Silent, SDA, Wired
<1>3. SlaveReacts /\ state' = state /\ SCL' = 1 /\ SDA01' = 1
  BY <1>1 DEF Step
<1>4. slave' = slave
  BY <1>2, <1>3, OnHigh DEF Silent
<1>5. QED
  BY <1>3, <1>4 DEF Silent

\* The steps of SendWakeUp, as TogetherSendData has them for DataIn.
LEMMA TogetherSendWakeUp ==
  ASSUME ~InputsHeld, Together, WakeUpSent, SendWakeUp
  PROVE  InStepInv' /\ WakeUpSent'
<1> USE DEF Keep, Together, InStepInv, LevelsKnown, BitsCounted,
              DriverKnown, BytesAgree, RequestKept, At, k, Received, WakeUpSent
<1>1. CASE PutBit("40", DataToSend, "41")
  <2>1. /\ state = "40" /\ SCL = 1 /\ SCL' = 0 /\ SlaveReacts /\ slave \in Device
        /\ bitcount \in 0 .. 7
        /\ bitcount = 7 => slave.phase = "pointer" /\ slave.count = 9
        /\ bitcount # 7 => /\ slave.phase = "store" /\ slave.count = 7 - bitcount
                           /\ slave.drive = 1
        /\ SDA01' = 0
    BY <1>1, StepFacts, WakeUpType DEF PutBit, DataToSend, Bits
  <2>2. CASE bitcount = 7
    <3>1. slave'.phase = "store" /\ slave'.count = 0 /\ slave'.drive = 1
          /\ slave'.pointer = slave.pointer
      BY ONLY <2>1, <2>2, OnFall, FallAfterPointer
    <3>2. \A i \in Bits : ~(i > 7)
      BY DEF Bits
    <3>3. QED
      BY <1>1, <2>1, <2>2, <3>1, <3>2, StepFacts DEF PutBit
  <2>3. CASE bitcount # 7
    <3>1. slave' = slave
      BY ONLY <1>1, <2>1, <2>3, Together, PutReceives DEF Receiving
    <3>2. QED
      BY <1>1, <2>1, <2>3, <3>1, StepFacts DEF PutBit
  <2>4. QED
    BY <2>2, <2>3
<1>2. CASE ClockBit("41", "40", "50")
  <2>1. Step("41", IF bitcount - 1 >= 0 THEN "40" ELSE "50", 1, SDA01)
    BY <1>2 DEF ClockBit, CountDown
  <2>2. At("store", k) /\ slave.drive = 1 /\ SCL = 0 /\ SDA01 = 0 /\ Received(Wake_Up)
    BY <2>1, StepFacts
  <2>3. SDA01 = Wake_Up[bitcount] /\ Wake_Up \in Byte
    BY <2>1, <2>2, StepFacts, WakeUpType DEF Bits
  <2> HIDE DEF Received
  <2>4. /\ slave'.phase = "store" /\ slave'.count = k + 1 /\ slave'.drive = 1
        /\ slave'.pointer = slave.pointer
        /\ IF k < 7 THEN /\ bitcount' = bitcount - 1 /\ state' = "40"
                         /\ \A i \in Bits : i > bitcount - 1
                              => slave'.byte[i] = Wake_Up[i]
                    ELSE /\ bitcount' = 7 /\ state' = "50"
                         /\ slave'.byte = Wake_Up
    BY <1>2, <2>2, <2>3, ClockReceives DEF Receiving
  <2> QED
    BY <2>1, <2>4, StepFacts DEF Received
<1>3. CASE /\ Release("50", "51")
           /\ RegisterAddressOut' = AddressIn
           /\ DataOut' = DataToSend
           /\ UNCHANGED <<bitcount, Ack, RegisterAddress, Data>>
  <2>1. state = "50" /\ SCL = 1 /\ slave.phase = "store" /\ slave.count = 8
        /\ slave.drive = 1
    BY <1>3, StepFacts DEF Release
  <2>2. \/ slave'.phase = "unselected" /\ slave'.drive = 1
        \/ /\ slave'.phase = "store" /\ slave'.count = 8 /\ slave'.drive = 0
           /\ slave'.pointer = slave.pointer
    BY ONLY <1>3, <2>1, Together, ReleaseAnswers DEF Receiving
  <2>3. QED
    BY <1>3, <2>1, <2>2, StepFacts DEF Release
<1>4. CASE /\ CheckAck("51", 81, "52")
           /\ UNCHANGED <<bitcount, RegisterAddress, Data, DataOut>>
  <2>1. state = "51"
    BY <1>4 DEF CheckAck, Step
  <2>2. /\ SCL = 0 /\ SDA01 = 1 /\ bitcount = 7
        /\ slave.phase # "unselected" => slave.phase = "store" /\ slave.count = 8
        /\ slave.drive = IF slave.phase = "unselected" THEN 1 ELSE 0
    BY <2>1
  <2>3. IF slave.phase = "unselected"
        THEN state' = "EE" /\ SDA01' = 1 /\ SCL' = 1 /\ slave' = slave
        ELSE /\ state' = "52" /\ SDA01' = 1 /\ SCL' = 1
             /\ slave'.phase = "store" /\ slave'.count = 9
    BY ONLY <1>4, <2>2, Together, CheckReads DEF Receiving
  <2>4. QED
    BY <1>4, <2>1, <2>2, <2>3
<1>5. QED
  BY <1>1, <1>2, <1>3, <1>4 DEF SendWakeUp

\* No step of I2CController but those of SendData comes to 41 or 50, and one
\* that comes to 40 finds the device at the end of the byte before.
LEMMA OtherClock ==
  ASSUME Together, Clock, state \notin WriteStates
  PROVE  InStepInv' /\ WakeUpSent'
<1>1. InStepInv'
  BY TogetherClock
<1>2. /\ state' \notin {"41", "50"}
      /\ state' = "40" => state = "31" /\ bitcount' = bitcount
  BY DEF WriteStates, Clock, Idle, Start, SelectForWrite, PutBit, ClockBit,
    CountDown, Release, CheckAck, Step, SendRegisterAddress, SendData, Stop,
    RepeatStart, SelectForRead, ReceiveData, Error
<1>3. state = "31" => bitcount = 7
  BY DEF Together, InStepInv, BitsCounted
<1>4. state' = "40" => slave'.phase = "pointer"
  BY <1>1, <1>2, <1>3 DEF InStepInv, BitsCounted, At, k
<1>5. QED
  BY <1>1, <1>2, <1>4 DEF WakeUpSent

\* Having sent STOP the controller stays: the device is out.
LEMMA ComesToSilence ==
  ASSUME Together, NEW release \in {"54", "D5"}, Final(release)
  PROVE  Silent' /\ slave'.regs = slave.regs
<1>1. Step(release, release, 1, 1)
  BY DEF Final
<1>2. SCL = 1 /\ SDA01 = 0 /\ slave.drive = 1
  BY <1>1, StepFacts DEF Together, InStepInv, LevelsKnown, DriverKnown
<1>3. SDA = 0 /\ Wired(SDA01', slave.drive) = 1
  BY <1>1, <1>2, StepFacts DEF SDA, Wired
<1>4. slave' = SeesStop(slave)
  BY <1>1, <1>2, <1>3, StepFacts, OnHigh
<1>5. slave'.phase = "unselected" /\ slave'.drive = 1 /\ slave'.regs = slave.regs
  BY <1>1, <1>4, StepFacts DEF SeesStop, Device, Slave
<1>6. QED
  BY <1>1, <1>5, StepFacts DEF Silent

\* A reset given to a controller that is done is not seen by the device.
LEMMA ResetUnseen ==
  ASSUME OneShotInv, Done, AssertReset
  PROVE  slave' = slave /\ InStepInv' /\ WakeUpSent'
<1>1. SCL = 1 /\ slave.drive = 1 /\ slave.phase = "unselected" /\ SDA01 = 1
  BY DEF OneShotInv, Done, FinalStates, Silent, InStepInv, LevelsKnown,
         BitsCounted, DriverKnown
<1>2. SDA = 1
  BY <1>1 DEF SDA, Wired
<1>3. slave' = slave
  BY <1>1, <1>2 DEF AssertReset
<1>4. state' = "00" /\ SCL' = 1 /\ SDA01' = 1 /\ DataOut' = ZeroByte
      /\ slave'.phase = "unselected" /\ slave'.drive = 1
  BY <1>1, <1>3 DEF AssertReset
<1>5. InStepInv'
  BY <1>4 DEF InStepInv, LevelsKnown, BitsCounted, DriverKnown, BytesAgree, RequestKept
<1>6. QED
  BY <1>3, <1>4, <1>5 DEF WakeUpSent

LEMMA InputsUnseen ==
  ASSUME ~InputsHeld, OneShotInv,
         UNCHANGED <<state, SCL, SDA01, bitcount, Ack, RegisterAddress, Data,
                     DataOut, RegisterAddressOut, slave>>
  PROVE  Silent' \/ (InStepInv' /\ WakeUpSent')
<1>1. CASE Silent
  BY <1>1 DEF Silent
<1>2. CASE InStepInv /\ WakeUpSent
  BY <1>2 DEF InStepInv, LevelsKnown, BitsCounted, DriverKnown, BytesAgree,
              RequestKept, At, k, Received, WakeUpSent
<1>3. QED
  BY <1>1, <1>2 DEF OneShotInv

LEMMA OneShotStep ==
  ASSUME ~InputsHeld, ResetWhenDone, OneShotInv, [OneShotNext]_vars
  PROVE  OneShotInv'
<1>1. TypeOK'
  BY OneShotType DEF OneShotInv
<1>2. CASE OneShotClock /\ Silent
  BY <1>1, <1>2, SilentStays DEF OneShotInv
<1>3. CASE OneShotClock /\ ~Silent
  <2>1. Together /\ WakeUpSent
    BY <1>3 DEF OneShotInv, Together
  <2>2. QED
    BY <1>1, <1>3, <2>1, OneShotSteps, OtherClock, TogetherSendWakeUp, ComesToSilence
       DEF OneShotInv
<1>4. CASE ResetByHand
  BY <1>1, <1>4, ResetUnseen DEF ResetByHand, OneShotInv
<1>5. CASE ReleaseReset \/ ChangeRequest \/ UNCHANGED vars
  BY <1>1, <1>5, InputsUnseen DEF ReleaseReset, ChangeRequest, vars, OneShotInv
<1>6. QED
  BY <1>2, <1>3, <1>4, <1>5 DEF OneShotNext

LEMMA OneShotInStep == ASSUME OneShotInv PROVE InStepAfterResets
<1>1. CASE Silent
  BY <1>1 DEF Silent, InStepAfterResets, Done, FinalStates
<1>2. CASE InStepInv
  <2>1. BitsCounted
    BY <1>2 DEF InStepInv
  <2>2. <<slave.phase, slave.count>> \in Conversation
    BY <2>1 DEF OneShotInv, BitsCounted, At, k, Conversation, TypeOK, States
  <2>3. QED
    BY <2>2 DEF InStepAfterResets
<1>3. QED
  BY <1>1, <1>2 DEF OneShotInv

DoneStays ==
  resets' = resets /\ state \in FinalStates =>
    state' \in FinalStates /\ (Done => SCL' = SCL /\ SDA' = SDA)

LEMMA NoSecondStartStep == ASSUME OneShotInv, [OneShotNext]_vars PROVE DoneStays
<1> SUFFICES ASSUME resets' = resets, state \in FinalStates
             PROVE  state' \in FinalStates /\ (Done => SCL' = SCL /\ SDA' = SDA)
  BY DEF DoneStays
<1>1. CASE OneShotClock
  <2>1. Step(state, state, 1, 1)
    BY <1>1 DEF FinalStates, OneShotClock, Idle, Start, SelectForWrite, PutBit,
      ClockBit, CountDown, Release, CheckAck, Step, SendRegisterAddress,
      SendWakeUp, StopOnce, Final, RepeatStart, SelectForRead, ReceiveData, Error
  <2>2. state' = state /\ SCL' = 1 /\ SDA01' = 1 /\ SlaveReacts
    BY <2>1 DEF Step
  <2>3. ASSUME Done PROVE SCL' = SCL /\ SDA' = SDA
    <3>1. SCL = 1 /\ SDA01 = 1
      BY <2>3 DEF Done
    <3>2. SDA = Wired(SDA01', slave.drive)
      BY <2>2, <3>1 DEF SDA
    <3>3. slave' = slave
      BY <2>2, <3>1, <3>2, OnHigh
    <3>4. QED
      BY <2>2, <3>1, <3>3 DEF SDA
  <2>4. QED
    BY <2>2, <2>3
<1>2. CASE ResetByHand
  BY <1>2 DEF ResetByHand, AssertReset, OneShotInv, TypeOK
<1>3. CASE ReleaseReset \/ ChangeRequest \/ UNCHANGED vars
  BY <1>3 DEF ReleaseReset, ChangeRequest, vars, SDA
<1>4. QED
  BY <1>1, <1>2, <1>3 DEF OneShotNext

OnlyWakeUp ==
  \A r \in DOMAIN slave.regs :
    slave'.regs[r] # slave.regs[r] => slave'.regs[r] = Wake_Up

LEMMA WakeUpStored ==
  ASSUME Together, WakeUpSent, SendWakeUp PROVE OnlyWakeUp
<1>1. CASE Release("50", "51")
  <2>1. /\ state = "50" /\ SCL = 1 /\ slave.phase = "store" /\ slave.count = 8
        /\ slave.drive = 1 /\ slave.byte = Wake_Up
    BY <1>1, StepFacts DEF Release, Together, InStepInv, LevelsKnown, BitsCounted,
       DriverKnown, WakeUpSent, At
  <2>2. \/ slave'.regs = slave.regs
        \/ slave'.regs = [slave.regs EXCEPT ![slave.pointer] = Wake_Up]
    BY ONLY <1>1, <2>1, Together, ReleaseAnswers DEF Receiving
  <2>3. QED
    BY ONLY <2>2 DEF OnlyWakeUp
<1>2. CASE ~Release("50", "51")
  <2>1. state # "50" /\ SlaveReacts
    BY <1>2 DEF SendWakeUp, PutBit, ClockBit, CountDown, Release, CheckAck, Step
  <2>2. SCL = 1 => ~(slave.phase = "store" /\ slave.count = 8)
    BY <2>1 DEF Together, InStepInv, LevelsKnown, BitsCounted, At, k, TypeOK, States, Bits
  <2>3. TypeOK'
    BY SendWakeUpType DEF Together
  <2>4. slave'.regs = slave.regs
    BY <2>1, <2>2, <2>3, RegistersKept DEF Together, TypeOK, Device
  <2>5. QED
    BY <2>4 DEF OnlyWakeUp
<1>3. QED
  BY <1>1, <1>2

LEMMA WritesWakeUpStep ==
  ASSUME ResetWhenDone, OneShotInv, [OneShotNext]_vars PROVE OnlyWakeUp
<1>1. CASE OneShotClock /\ Silent
  BY <1>1, SilentStays DEF OneShotInv, OnlyWakeUp
<1>2. CASE OneShotClock /\ ~Silent
  <2>1. Together /\ WakeUpSent
    BY <1>2 DEF OneShotInv, Together
  <2>2. CASE Clock /\ state \notin WriteStates
    BY <2>1, <2>2, StoredAtEighthBit DEF WriteStates, OnlyWakeUp
  <2>3. CASE SendWakeUp
    BY <2>1, <2>3, WakeUpStored
  <2>4. CASE Final("54") \/ Final("D5")
    BY <2>1, <2>4, ComesToSilence DEF OnlyWakeUp
  <2>5. QED
    BY <1>2, <2>2, <2>3, <2>4, OneShotSteps
<1>3. CASE ResetByHand
  BY <1>3, ResetUnseen DEF ResetByHand, OnlyWakeUp
<1>4. CASE ReleaseReset \/ ChangeRequest \/ UNCHANGED vars
  BY <1>4 DEF ReleaseReset, ChangeRequest, vars, OnlyWakeUp
<1>5. QED
  BY <1>1, <1>2, <1>3, <1>4 DEF OneShotNext

(***************************************************************************)
(* The controller on the board with switches, when the reset button is     *)
(* pressed only after a transaction: controller and device are in step in  *)
(* the transaction after any reset; having sent STOP, or been refused, the *)
(* controller moves neither wire until the next; and a register that       *)
(* changes becomes Wake_Up, whatever the switches were and whenever they   *)
(* were thrown (InputsHeld FALSE lets them move at any time; a behaviour   *)
(* with switches that are held is one of those).                           *)
(***************************************************************************)
THEOREM OneTransactionAfterReset ==
  ASSUME ~InputsHeld, ResetWhenDone
  PROVE  OneShotSpec => OneAtMostEach
<1>1. Init => OneShotInv
  <2>1. Init => InStepInv
    BY InitAgreed DEF Init, Agreed
  <2>2. QED
    BY <2>1, InitType DEF OneShotInv, Init, WakeUpSent
<1>2. OneShotInv /\ [OneShotNext]_vars => OneShotInv'
  BY OneShotStep
<1>3. OneShotInv => InStepAfterResets
  BY OneShotInStep
<1>4. OneShotInv /\ [OneShotNext]_vars => DoneStays /\ OnlyWakeUp
  BY NoSecondStartStep, WritesWakeUpStep
<1>5. OneShotSpec => []InStepAfterResets /\ [][DoneStays]_vars /\ [][OnlyWakeUp]_vars
  BY <1>1, <1>2, <1>3, <1>4, PTL DEF OneShotSpec
<1>6. QED
  BY <1>5 DEF OneAtMostEach, NoSecondStart, WritesWakeUp, DoneStays, OnlyWakeUp
-----------------------------------------------------------------------------
(***************************************************************************)
(* Theorems about SensorReader, for all saved_* registers and all values   *)
(* on the pins: the sensor is woken before it is read and none of its      *)
(* registers is overwritten; a saved byte was asked for one or two ticks   *)
(* ago, and is never the register it is named for.                         *)
(*                                                                         *)
(* The sequencer ticks every 79 or 80 steps of the controller and nothing  *)
(* tells one of the other, so the whole argument is about where in its     *)
(* transaction the controller was at the last tick.  A read takes 79       *)
(* steps: from read to read a tick comes where the last one came, or one   *)
(* step later.  The address a transaction sends is thus that of before the *)
(* tick in the bits already sent then, and that of after it in the others. *)
(***************************************************************************)

(***************************************************************************)
(* The controller's steps: where it goes from each state, and what the     *)
(* device makes of the address byte and of a byte that is written.         *)
(***************************************************************************)

\* The states a step leads to without a condition, the bit counter as it is.
PlainMoves ==
  {<<"00", "01">>, <<"02", "03">>, <<"12", "13">>, <<"20", "21">>, <<"30", "31">>,
   <<"40", "41">>, <<"50", "51">>, <<"52", "53">>, <<"53", "54">>, <<"54", "01">>,
   <<"70", "71">>, <<"71", "72">>, <<"82", "83">>, <<"92", "93">>, <<"C0", "C1">>,
   <<"D0", "D2">>, <<"D2", "D3">>, <<"D3", "D4">>, <<"D4", "D5">>, <<"D5", "01">>,
   <<"EE", "EE">>}

\* From one bit to the next, or to the end of the byte.
BitMoves == {<<"03", "02", "12">>, <<"21", "20", "30">>, <<"41", "40", "50">>,
             <<"83", "82", "92">>, <<"C1", "C0", "D0">>}

\* What a step does to the state and the bit counter.
Goes ==
  \/ <<state, state'>> \in PlainMoves /\ bitcount' = bitcount
  \/ <<state, state'>> \in {<<"01", "02">>, <<"72", "82">>} /\ bitcount' = 7
  \/ bitcount # 0 /\ bitcount' = bitcount - 1
     /\ \E m \in BitMoves : state = m[1] /\ state' = m[2]
  \/ bitcount = 0 /\ bitcount' = 7
     /\ \E m \in BitMoves : state = m[1] /\ state' = m[3]
  \/ state \in {"13", "31", "51", "93"} /\ slave.phase = "unselected" /\ state' = "EE"
  \/ /\ slave.phase # "unselected" /\ bitcount' = 7
     /\ <<state, state'>> \in {<<"13", "20">>, <<"51", "52">>, <<"93", "C0">>,
                               <<"31", IF Read_WriteN = 0 THEN "40" ELSE "70">>}

\* The counter at a bit that is clocked.
LEMMA CountGoes ==
  ASSUME Together, NEW from, NEW more, NEW done, CountDown(from, more, done),
         <<from, more, done>> \in BitMoves
  PROVE  Goes
<1>1. bitcount \in 0 .. 7 /\ state = from
      /\ state' = (IF bitcount - 1 >= 0 THEN more ELSE done)
      /\ bitcount' = (IF bitcount - 1 >= 0 THEN bitcount - 1 ELSE 7)
  BY StepFacts DEF CountDown
<1>2. PICK m \in BitMoves : m = <<from, more, done>>
  OBVIOUS
<1>3. m[1] = from /\ m[2] = more /\ m[3] = done
  BY <1>2
<1>4. CASE bitcount # 0
  <2>1. state' = more /\ bitcount' = bitcount - 1
    BY <1>1, <1>4
  <2> QED BY <1>1, <1>3, <1>4, <2>1 DEF Goes
<1>5. CASE bitcount = 0
  <2>1. state' = done /\ bitcount' = 7
    BY <1>1, <1>5
  <2> QED BY <1>1, <1>3, <1>5, <2>1 DEF Goes
<1> QED BY <1>4, <1>5

\* An acknowledgment that is read.
LEMMA AckGoes ==
  ASSUME Together, NEW from, NEW code, NEW to, CheckAck(from, code, to),
         <<from, to>> \in {<<"13", "20">>, <<"51", "52">>, <<"93", "C0">>,
                           <<"31", IF Read_WriteN = 0 THEN "40" ELSE "70">>},
         bitcount' = IF SDA = 1 THEN bitcount ELSE 7
  PROVE  Goes
<1>1. state = from /\ from \in {"13", "31", "51", "93"}
  BY DEF CheckAck, Step
<1>2. /\ SCL = 0 /\ SDA01 = 1
      /\ slave.phase # "unselected" => slave.phase \in Receiving /\ slave.count = 8
      /\ slave.drive = IF slave.phase = "unselected" THEN 1 ELSE 0
  BY <1>1 DEF Together, InStepInv, LevelsKnown, BitsCounted, DriverKnown, At, Receiving
<1>3. IF slave.phase = "unselected" THEN state' = "EE" /\ SDA = 1
                                    ELSE state' = to /\ SDA = 0
  BY <1>2, CheckReads
<1> QED BY <1>1, <1>3 DEF Goes

\* Every step of the controller is one of these.
LEMMA ClockGoes == ASSUME Together, Clock PROVE Goes
<1>1. CASE Idle \/ Start("01", "02") \/ Error \/ Start("72", "82")
  BY <1>1 DEF Idle, Start, Error, Step, Keep, Goes, PlainMoves
<1>2. CASE \/ PutBit("02", SlaveAddress_Write, "03")
           \/ PutBit("20", AddressIn, "21")
           \/ PutBit("40", DataIn, "41")
           \/ PutBit("82", SlaveAddress_Read, "83")
  BY <1>2 DEF PutBit, Step, Keep, Goes, PlainMoves
<1>3. CASE \/ (Release("12", "13") \/ Release("30", "31")
               \/ Release("92", "93") \/ Release("C0", "C1")) /\ Keep
           \/ (Release("50", "51") \/ Release("D0", "D2")) /\ UNCHANGED bitcount
           \/ (Step("71", "72", 1, 1) \/ Step("D2", "D3", 1, SDA01)) /\ Keep
  BY <1>3 DEF Release, Step, Keep, Goes, PlainMoves
<1>4. CASE Stop("52", "53", "54") \/ Stop("D3", "D4", "D5")
  BY <1>4 DEF Stop, Step, Keep, Goes, PlainMoves
<1>5. CASE /\ Release("70", IF SDA = 1 THEN "EE" ELSE "71")
           /\ UNCHANGED bitcount
  <2>1. state = "70"
    BY <1>5 DEF Release, Step
  <2>2. SDA = 0
    BY <2>1 DEF Together, InStepInv, DriverKnown, SDA, Wired
  <2>3. state' = "71"
    BY <1>5, <2>2 DEF Release, Step
  <2> QED BY <1>5, <2>1, <2>3 DEF Goes, PlainMoves
<1>6. CASE \/ ClockBit("03", "02", "12") \/ ClockBit("21", "20", "30")
           \/ ClockBit("41", "40", "50") \/ ClockBit("83", "82", "92")
           \/ CountDown("C1", "C0", "D0")
  BY <1>6, CountGoes DEF ClockBit, BitMoves
<1>7. CASE \/ CheckAck("13", 19, "20") /\ UNCHANGED bitcount
           \/ CheckAck("51", 81, "52") /\ UNCHANGED bitcount
           \/ CheckAck("31", 49, IF Read_WriteN = 0 THEN "40" ELSE "70")
              /\ UNCHANGED bitcount
           \/ CheckAck("93", 147, "C0")
              /\ bitcount' = (IF SDA = 1 THEN bitcount ELSE 7)
  <2>1. state \in {"13", "31", "51"} => bitcount = 7
    BY DEF Together, InStepInv, BitsCounted
  <2>2. CheckAck("13", 19, "20") \/ CheckAck("51", 81, "52")
        \/ CheckAck("31", 49, IF Read_WriteN = 0 THEN "40" ELSE "70")
        => state \in {"13", "31", "51"}
    BY DEF CheckAck, Step
  <2>3. bitcount' = IF SDA = 1 THEN bitcount ELSE 7
    BY <1>7, <2>1, <2>2
  <2> QED BY <1>7, <2>3, AckGoes
<1> QED
  BY <1>1, <1>2, <1>3, <1>4, <1>5, <1>6, <1>7
     DEF Clock, SelectForWrite, SendRegisterAddress, SendData, RepeatStart,
         SelectForRead, ReceiveData

(***************************************************************************)
(* Where the controller is in its transaction: the steps since state 01,   *)
(* by state and bits left.  A read takes 79 steps and a write 58.          *)
(***************************************************************************)
PlaceOf(s, left) ==
  LET sent == 2 * (7 - left) IN
  CASE s = "00" -> -1
    [] s = "01" -> 0
    [] s = "02" -> 1 + sent
    [] s = "03" -> 2 + sent
    [] s = "12" -> 17
    [] s = "13" -> 18
    [] s = "20" -> 19 + sent
    [] s = "21" -> 20 + sent
    [] s = "30" -> 35
    [] s = "31" -> 36
    [] s = "40" -> 37 + sent
    [] s = "41" -> 38 + sent
    [] s = "50" -> 53
    [] s = "51" -> 54
    [] s = "52" -> 55
    [] s = "53" -> 56
    [] s = "54" -> 57
    [] s = "70" -> 37
    [] s = "71" -> 38
    [] s = "72" -> 39
    [] s = "82" -> 40 + sent
    [] s = "83" -> 41 + sent
    [] s = "92" -> 56
    [] s = "93" -> 57
    [] s = "C0" -> 58 + sent
    [] s = "C1" -> 59 + sent
    [] s = "D0" -> 74
    [] s = "D2" -> 75
    [] s = "D3" -> 76
    [] s = "D4" -> 77
    [] s = "D5" -> 78
    [] s = "EE" -> 0
Place == PlaceOf(state, bitcount)

\* The places, with the bits left in the place of the bits sent.
LEMMA Places ==
  ASSUME NEW left \in 0 .. 7
  PROVE  /\ PlaceOf("00", left) = -1 /\ PlaceOf("01", left) = 0
         /\ PlaceOf("02", left) = 15 - 2 * left /\ PlaceOf("03", left) = 16 - 2 * left
         /\ PlaceOf("12", left) = 17 /\ PlaceOf("13", left) = 18
         /\ PlaceOf("20", left) = 33 - 2 * left /\ PlaceOf("21", left) = 34 - 2 * left
         /\ PlaceOf("30", left) = 35 /\ PlaceOf("31", left) = 36
         /\ PlaceOf("40", left) = 51 - 2 * left /\ PlaceOf("41", left) = 52 - 2 * left
         /\ PlaceOf("50", left) = 53 /\ PlaceOf("51", left) = 54
         /\ PlaceOf("52", left) = 55 /\ PlaceOf("53", left) = 56
         /\ PlaceOf("54", left) = 57
         /\ PlaceOf("70", left) = 37 /\ PlaceOf("71", left) = 38
         /\ PlaceOf("72", left) = 39
         /\ PlaceOf("82", left) = 54 - 2 * left /\ PlaceOf("83", left) = 55 - 2 * left
         /\ PlaceOf("92", left) = 56 /\ PlaceOf("93", left) = 57
         /\ PlaceOf("C0", left) = 72 - 2 * left /\ PlaceOf("C1", left) = 73 - 2 * left
         /\ PlaceOf("D0", left) = 74 /\ PlaceOf("D2", left) = 75
         /\ PlaceOf("D3", left) = 76 /\ PlaceOf("D4", left) = 77
         /\ PlaceOf("D5", left) = 78
  BY DEF PlaceOf

\* A step goes on by one place, or ends the transaction.
LEMMA PlaceGoes ==
  ASSUME Together, Clock
  PROVE  \/ state' = "EE"
         \/ state \notin {"54", "D5", "EE"} /\ state' # "00" /\ Place' = Place + 1
         \/ state = "54" /\ state' = "01" /\ Place = 57 /\ Place' = 0
         \/ state = "D5" /\ state' = "01" /\ Place = 78 /\ Place' = 0
<1>1. Goes /\ bitcount \in 0 .. 7 /\ bitcount' \in 0 .. 7
  BY ClockGoes, ClockType DEF Together, TypeOK, Bits
<1>2. state \in {"12", "13", "30", "31", "50", "51", "92", "93", "D0"} => bitcount = 7
  BY DEF Together, InStepInv, BitsCounted
<1>3. CASE <<state, state'>> \in PlainMoves /\ bitcount' = bitcount
  BY <1>1, <1>3, Places DEF PlainMoves, Place
<1>4. CASE <<state, state'>> \in {<<"01", "02">>, <<"72", "82">>} /\ bitcount' = 7
  BY <1>1, <1>4, Places DEF Place
<1>5. CASE bitcount # 0 /\ bitcount' = bitcount - 1
           /\ \E m \in BitMoves : state = m[1] /\ state' = m[2]
  BY <1>1, <1>5, Places DEF Place, BitMoves
<1>6. CASE bitcount = 0 /\ bitcount' = 7
           /\ \E m \in BitMoves : state = m[1] /\ state' = m[3]
  BY <1>1, <1>6, Places DEF Place, BitMoves
<1>7. CASE /\ slave.phase # "unselected" /\ bitcount' = 7
           /\ <<state, state'>> \in {<<"13", "20">>, <<"51", "52">>, <<"93", "C0">>,
                                     <<"31", IF Read_WriteN = 0 THEN "40" ELSE "70">>}
  BY <1>1, <1>7, Places DEF Place
<1> QED BY <1>1, <1>3, <1>4, <1>5, <1>6, <1>7 DEF Goes

(***************************************************************************)
(* The register pointer moves where the address byte is acknowledged, and  *)
(* after a byte that was stored.                                           *)
(***************************************************************************)
LEMMA PointerKept ==
  ASSUME slave \in Device, SDA01' \in {0, 1}, SCL \in {0, 1}, SCL' \in {0, 1},
         SlaveReacts,
         SCL = 1 /\ SCL' = 0 =>
           ~ \/ slave.phase = "pointer" /\ slave.count = 8
             \/ slave.phase \in {"store", "send"} /\ slave.count = 9
  PROVE  slave'.pointer = slave.pointer
<1>1. CASE SCL = 0 /\ SCL' = 1
  <2>1. \A b \in {0, 1} : SeesRise(slave, b).pointer = slave.pointer
    BY DEF SeesRise, Device, Slave
  <2> QED BY <1>1, <2>1, OnRise, WiredType
<1>2. CASE SCL = 1 /\ SCL' = 0
  <2>1. PICK ok \in BOOLEAN : slave' = SeesFall(slave, SlaveAddress_Write, ok)
    BY <1>2, OnFall
  <2>2. CASE slave.phase \in Receiving /\ slave.count = 8
    BY <1>2, <2>1, <2>2, FallAnswers DEF Receiving
  <2>3. CASE ~(slave.phase \in Receiving /\ slave.count = 8)
    BY <1>2, <2>1, <2>3 DEF SeesFall, Sending, Device, Slave
  <2> QED BY <2>2, <2>3
<1>3. CASE SCL = 1 /\ SCL' = 1
  <2>1. SeesStart(slave).pointer = slave.pointer /\ SeesStop(slave).pointer = slave.pointer
    BY DEF SeesStart, SeesStop, Device, Slave
  <2> QED BY <1>3, <2>1, OnHigh
<1>4. CASE SCL = 0 /\ SCL' = 0
  BY <1>4 DEF SlaveReacts
<1> QED BY <1>1, <1>2, <1>3, <1>4

\* In a step of the controller it is where a byte is answered, in 30 and 52.
LEMMA PointerMoves ==
  ASSUME Together, Clock, state \notin {"30", "52"}
  PROVE  slave'.pointer = slave.pointer
<1>1. SCL = 1 => ~ \/ slave.phase = "pointer" /\ slave.count = 8
                   \/ slave.phase \in {"store", "send"} /\ slave.count = 9
  BY DEF Together, InStepInv, LevelsKnown, BitsCounted, At, k, TypeOK, States, Bits
<1> QED BY <1>1, ClockFacts, PointerKept DEF Together

\* The action of a state.
LEMMA ActionOf ==
  ASSUME Clock
  PROVE  /\ state = "20" => PutBit("20", AddressIn, "21")
         /\ state = "21" => ClockBit("21", "20", "30")
         /\ state = "30" => Release("30", "31") /\ Keep
         /\ state = "31" =>
              CheckAck("31", 49, IF Read_WriteN = 0 THEN "40" ELSE "70")
         /\ state = "40" => PutBit("40", DataIn, "41")
         /\ state = "41" => ClockBit("41", "40", "50")
         /\ state = "50" => Release("50", "51") /\ DataOut' = DataIn
         /\ state = "D0" => Release("D0", "D2") /\ DataOut' = Data
         /\ state = "00" => DataOut' = ZeroByte
         /\ state \notin {"00", "50", "D0"} => DataOut' = DataOut
<1> USE DEF Keep
<1>1. CASE Idle \/ Start("01", "02") \/ Error
  BY <1>1 DEF Idle, Start, Error, Step
<1>2. CASE SelectForWrite
  BY <1>2 DEF SelectForWrite, PutBit, ClockBit, CountDown, Release, CheckAck, Step
<1>3. CASE SendRegisterAddress
  <2>1. CASE PutBit("20", AddressIn, "21")
    BY <2>1 DEF PutBit, Step
  <2>2. CASE ClockBit("21", "20", "30")
    BY <2>2 DEF ClockBit, CountDown, Step
  <2>3. CASE Release("30", "31") /\ Keep
    BY <2>3 DEF Release, Step
  <2>4. CASE CheckAck("31", 49, IF Read_WriteN = 0 THEN "40" ELSE "70")
             /\ DataOut' = DataOut
    BY <2>4 DEF CheckAck, Step
  <2> QED BY <1>3, <2>1, <2>2, <2>3, <2>4 DEF SendRegisterAddress
<1>4. CASE SendData
  <2>1. CASE PutBit("40", DataIn, "41")
    BY <2>1 DEF PutBit, Step
  <2>2. CASE ClockBit("41", "40", "50")
    BY <2>2 DEF ClockBit, CountDown, Step
  <2>3. CASE Release("50", "51") /\ DataOut' = DataIn
    BY <2>3 DEF Release, Step
  <2>4. CASE CheckAck("51", 81, "52") /\ DataOut' = DataOut
    BY <2>4 DEF CheckAck, Step
  <2> QED BY <1>4, <2>1, <2>2, <2>3, <2>4 DEF SendData
<1>5. CASE Stop("52", "53", "54") \/ Stop("D3", "D4", "D5")
  BY <1>5 DEF Stop, Step
<1>6. CASE RepeatStart
  BY <1>6 DEF RepeatStart, Release, Step, Start
<1>7. CASE SelectForRead
  BY <1>7 DEF SelectForRead, PutBit, ClockBit, CountDown, Release, CheckAck, Step
<1>8. CASE ReceiveData
  <2>1. CASE Release("D0", "D2") /\ DataOut' = Data
    BY <2>1 DEF Release, Step
  <2>2. CASE Release("C0", "C1") /\ Keep
    BY <2>2 DEF Release, Step
  <2>3. CASE CountDown("C1", "C0", "D0") /\ DataOut' = DataOut
    BY <2>3 DEF CountDown, Step
  <2>4. CASE Step("D2", "D3", 1, SDA01) /\ Keep
    BY <2>4 DEF Step
  <2> QED BY <1>8, <2>1, <2>2, <2>3, <2>4 DEF ReceiveData
<1> QED BY <1>1, <1>2, <1>3, <1>4, <1>5, <1>6, <1>7, <1>8 DEF Clock

\* The states of a read, once the register is chosen.
ReadStates == {"70", "71", "72", "82", "83", "92", "93", "C0", "C1", "D0",
               "D2", "D3", "D4", "D5"}

\* The device is being pointed at a.
PointedAt(a) ==
  /\ state \in {"20", "21"} /\ slave.phase = "pointer" => Received(a)
  /\ state = "21" => SDA01 = a[bitcount]
  /\ state = "30" => slave.byte = a
  /\ state = "31" /\ slave.phase # "unselected" => slave.pointer = a
  /\ state \in {"40", "41", "50"} \cup ReadStates => slave.pointer = a

\* A bit of a byte that is received, in the two states it takes.
LEMMA BitPut ==
  ASSUME Together, NEW from, NEW b, NEW to, PutBit(from, b, to),
         NEW a, SCL = 1, b[bitcount] = a[bitcount],
         \/ bitcount = 7
         \/ slave.phase \in Receiving /\ slave.count < 8 /\ Received(a)
  PROVE  state' = to /\ bitcount' = bitcount /\ Received(a)' /\ SDA01' = a[bitcount]
<1>1. state' = to /\ bitcount' = bitcount /\ SDA01' = a[bitcount]
  BY DEF PutBit, Step, Keep
<1>2. CASE bitcount = 7
  BY <1>1, <1>2 DEF Received, Bits
<1>3. CASE slave.phase \in Receiving /\ slave.count < 8 /\ Received(a)
  <2>1. slave' = slave
    BY <1>3, PutReceives
  <2> QED BY <1>1, <1>3, <2>1 DEF Received
<1> QED BY <1>1, <1>2, <1>3

\* The bit is clocked in: one bit more, or the whole byte.
LEMMA BitClocked ==
  ASSUME Together, NEW from, NEW more, NEW done, ClockBit(from, more, done),
         NEW a \in Byte, SCL = 0, slave.phase \in Receiving, slave.count = k,
         slave.drive = 1, Received(a), SDA01 = a[bitcount]
  PROVE  IF bitcount # 0 THEN state' = more /\ Received(a)'
                         ELSE state' = done /\ slave'.byte = a
<1>1. bitcount \in 0 .. 7
  BY DEF Together, TypeOK, Bits
<1>2. IF k < 7 THEN /\ bitcount' = bitcount - 1 /\ state' = more
                    /\ \A i \in Bits : i > bitcount - 1 => slave'.byte[i] = a[i]
               ELSE state' = done /\ slave'.byte = a
  BY ClockReceives
<1> QED BY <1>1, <1>2 DEF k, Received

\* An address byte is received as it is put out, bit by bit, and becomes the
\* register pointer.
LEMMA AddressTravels ==
  ASSUME Together, Clock, NEW a \in Byte, PointedAt(a),
         state = "20" => AddressIn[bitcount] = a[bitcount]
  PROVE  PointedAt(a)'
<1> USE DEF k, At
<1>1. Goes /\ bitcount \in 0 .. 7 /\ Together /\ InStepInv'
  BY ClockGoes, TogetherClock DEF Together, TypeOK, Bits
<1>2. CASE state = "20"
  <2>1. PutBit("20", AddressIn, "21")
    BY <1>2, ActionOf
  <2>2. SCL = 1
    BY <1>2 DEF Together, InStepInv, LevelsKnown
  <2>3. bitcount = 7 \/ (slave.phase = "pointer" /\ slave.count = 7 - bitcount)
    BY <1>1, <1>2 DEF Together, InStepInv, BitsCounted
  <2>4. slave.phase = "pointer" => Received(a)
    BY <1>2 DEF PointedAt
  <2>5. \/ bitcount = 7
        \/ slave.phase \in Receiving /\ slave.count < 8 /\ Received(a)
    BY <1>1, <2>3, <2>4 DEF Receiving
  <2>6. state' = "21" /\ bitcount' = bitcount /\ Received(a)' /\ SDA01' = a[bitcount]
    BY <1>2, <2>1, <2>2, <2>5, BitPut
  <2> QED BY <2>6 DEF PointedAt, ReadStates
<1>3. CASE state = "21"
  <2>1. ClockBit("21", "20", "30") /\ SCL = 0 /\ slave.phase = "pointer"
        /\ slave.count = k /\ slave.drive = 1
    BY <1>1, <1>3, ActionOf DEF Together, InStepInv, LevelsKnown, BitsCounted, DriverKnown
  <2>2. IF bitcount # 0 THEN state' = "20" /\ Received(a)'
                        ELSE state' = "30" /\ slave'.byte = a
    BY <1>1, <1>3, <2>1, BitClocked DEF PointedAt, Receiving
  <2> QED BY <2>2 DEF PointedAt, ReadStates
<1>4. CASE state = "30"
  <2>1. Release("30", "31") /\ SCL = 1 /\ slave.phase = "pointer" /\ slave.count = 8
        /\ slave.drive = 1
    BY <1>1, <1>4, ActionOf DEF Together, InStepInv, LevelsKnown, BitsCounted, DriverKnown
  <2>2. slave'.phase = "unselected" \/ slave'.pointer = slave.byte
    BY <1>1, <2>1, ReleaseAnswers DEF Receiving
  <2>3. state' = "31"
    BY <2>1 DEF Release, Step
  <2> QED BY <1>4, <2>2, <2>3 DEF PointedAt, ReadStates
<1>5. CASE state \notin {"20", "21", "30"}
  <2>1. state' \notin {"21", "30", "31"}
    BY <1>1, <1>5 DEF Goes, PlainMoves, BitMoves
  <2>2. state' = "20" => bitcount' = 7
    BY <1>1, <1>5 DEF Goes, PlainMoves, BitMoves
  <2>3. state' = "20" => slave'.phase = "select"
    BY <1>1, <2>2 DEF InStepInv, BitsCounted
  <2>4. state' \in {"40", "41", "50"} \cup ReadStates =>
          \/ state = "31" /\ slave.phase # "unselected"
          \/ state \in {"40", "41", "50"} \cup ReadStates
    BY <1>1, <1>5 DEF Goes, PlainMoves, BitMoves, ReadStates
  <2>5. state' \in {"40", "41", "50"} \cup ReadStates => state # "52"
    BY <2>4 DEF ReadStates
  <2>6. state' \in {"40", "41", "50"} \cup ReadStates => slave'.pointer = a
    BY <1>5, <2>4, <2>5, PointerMoves DEF PointedAt
  <2> QED BY <2>1, <2>3, <2>6 DEF PointedAt
<1> QED BY <1>2, <1>3, <1>4, <1>5

\* What is being written is the byte on the pins.
Writes ==
  /\ state \in {"40", "41"} /\ slave.phase = "store" => Received(DataIn)
  /\ state = "41" => SDA01 = DataIn[bitcount]
  /\ state = "50" => slave.byte = DataIn
  /\ state \in {"51", "52", "53", "54"} => DataOut = DataIn

\* The pins do not move, so a written byte is what they say.
LEMMA DataTravels == ASSUME Together, Clock, Writes PROVE Writes'
<1> USE DEF k, At
<1>1. /\ Goes /\ bitcount \in 0 .. 7 /\ Together /\ InStepInv'
      /\ DataIn \in Byte /\ DataIn' = DataIn
  BY ClockGoes, ClockFacts, TogetherClock, ConstantsAssumption DEF Together, TypeOK, Bits
<1>2. CASE state = "40"
  <2>1. PutBit("40", DataIn, "41")
    BY <1>2, ActionOf
  <2>2. SCL = 1
    BY <1>2 DEF Together, InStepInv, LevelsKnown
  <2>3. bitcount = 7 \/ (slave.phase = "store" /\ slave.count = 7 - bitcount)
    BY <1>1, <1>2 DEF Together, InStepInv, BitsCounted
  <2>4. \/ bitcount = 7
        \/ slave.phase \in Receiving /\ slave.count < 8 /\ Received(DataIn)
    BY <1>1, <1>2, <2>3 DEF Receiving, Writes
  <2>5. state' = "41" /\ bitcount' = bitcount /\ SDA01' = DataIn[bitcount]
    BY <1>2, <2>1, <2>2, <2>4, BitPut
  <2>6. Received(DataIn)'
    <3>1. CASE bitcount = 7
      BY <2>5, <3>1 DEF Received, Bits
    <3>2. CASE bitcount # 7
      <4>1. slave' = slave
        BY <1>1, <2>1, <2>2, <2>3, <2>4, <3>2, PutReceives
      <4> QED BY <1>1, <2>4, <2>5, <3>2, <4>1 DEF Received
    <3> QED BY <3>1, <3>2
  <2> QED BY <1>1, <2>5, <2>6 DEF Writes
<1>3. CASE state = "41"
  <2>1. ClockBit("41", "40", "50") /\ SCL = 0 /\ slave.phase = "store"
        /\ slave.count = k /\ slave.drive = 1
    BY <1>1, <1>3, ActionOf
       DEF Together, InStepInv, LevelsKnown, BitsCounted, DriverKnown
  <2>2. Received(DataIn) /\ SDA01 = DataIn[bitcount]
    BY <1>3, <2>1 DEF Writes
  <2>3. IF k < 7 THEN /\ bitcount' = bitcount - 1 /\ state' = "40"
                      /\ \A i \in Bits : i > bitcount - 1 => slave'.byte[i] = DataIn[i]
                 ELSE state' = "50" /\ slave'.byte = DataIn
    BY <1>1, <2>1, <2>2, ClockReceives DEF Receiving
  <2> QED BY <1>1, <2>3 DEF Writes, Received
<1>4. CASE state = "50"
  <2>1. state' = "51" /\ DataOut' = DataIn
    BY <1>4, ActionOf DEF Release, Step
  <2> QED BY <1>1, <2>1 DEF Writes
<1>5. CASE state \notin {"40", "41", "50"}
  <2>1. state' \notin {"41", "50", "51"}
    BY <1>1, <1>5 DEF Goes, PlainMoves, BitMoves
  <2>2. state' = "40" => bitcount' = 7
    BY <1>1, <1>5 DEF Goes, PlainMoves, BitMoves
  <2>3. state' = "40" => slave'.phase = "pointer"
    BY <1>1, <2>2 DEF InStepInv, BitsCounted
  <2>4. state' \in {"52", "53", "54"} => state \in {"51", "52", "53"}
    BY <1>1, <1>5 DEF Goes, PlainMoves, BitMoves
  <2>5. state \in {"51", "52", "53"} => DataOut' = DataOut
    BY ActionOf
  <2> QED BY <1>1, <2>1, <2>3, <2>4, <2>5 DEF Writes
<1> QED BY <1>2, <1>3, <1>4, <1>5

\* A register changes when a byte for it has been received and is not refused.
LEMMA Stored ==
  ASSUME Together, Clock, Writes
  PROVE  \/ /\ slave'.regs = slave.regs
            /\ state = "50" => \/ slave'.phase = "unselected"
                               \/ slave.pointer \notin Addrs
         \/ /\ state = "50" /\ slave.pointer \in Addrs
            /\ slave'.regs = [slave.regs EXCEPT ![slave.pointer] = DataIn]
<1>1. CASE state # "50"
  BY <1>1, StoredAtEighthBit
<1>2. CASE state = "50"
  <2>1. Release("50", "51") /\ SCL = 1 /\ slave.phase = "store" /\ slave.count = 8
        /\ slave.drive = 1 /\ slave.byte = DataIn
    BY <1>2, ActionOf DEF Together, InStepInv, LevelsKnown, BitsCounted, DriverKnown, At,
                          Writes
  <2>2. \/ slave'.phase = "unselected" /\ slave'.regs = slave.regs
        \/ slave'.regs = IF slave.phase = "store" /\ slave.pointer \in DOMAIN slave.regs
                         THEN [slave.regs EXCEPT ![slave.pointer] = slave.byte]
                         ELSE slave.regs
    BY <2>1, ReleaseAnswers DEF Receiving
  <2>3. DOMAIN slave.regs = Addrs
    BY DEF Together, TypeOK, Slave
  <2> QED BY <1>2, <2>1, <2>2, <2>3
<1> QED BY <1>1, <1>2

-----------------------------------------------------------------------------
(***************************************************************************)
(* The invariant.  Observed says what is known of the request and of       *)
(* DataOut from the place of the last tick; the write and its aim.         *)
(***************************************************************************)

\* The place at which the last tick came, counted in the transaction of now.
TickAt == Place - sinceTick

\* The address the device receives when "old" gave way to "new" at place n: the
\* bit i is put out in the step from place 33 - 2 * i.
Mix(old, new, n) == [i \in Bits |-> IF 33 - 2 * i >= n THEN new[i] ELSE old[i]]

\* "before" was on AddressIn until the last tick.
Asked(before) ==
  IF seq = "IDLE"
  THEN AddressIn = ZeroByte /\ before = ZeroByte /\ Read_WriteN = 0
  ELSE \E p \in SequencerStates :
         /\ Sequence[p].next = seq
         /\ AddressIn = Sequence[p].address /\ Read_WriteN = Sequence[p].trigger
         /\ IF p = "IDLE" THEN before = ZeroByte
            ELSE \E q \in SequencerStates :
                   Sequence[q].next = p /\ before = Sequence[q].address

\* DataOut shows what the last transaction but one read.
Shown(before, earlier) ==
  state \notin {"D2", "D3", "D4", "D5"} /\ DataOut \notin {ZeroByte, DataIn} =>
    IF TickAt <= -46 THEN DataOut = Mix(before, AddressIn, TickAt + 79)
    ELSE DataOut \in {Mix(earlier, before, TickAt), Mix(earlier, before, TickAt - 1)}

\* The device is being pointed at the address of now, of before the last tick,
\* or half of each.
Recent ==
  \E before, earlier \in Byte :
    /\ Asked(before) /\ PointedAt(Mix(before, AddressIn, TickAt))
    /\ MayNack \/ Shown(before, earlier)

\* Where the one write can go: 6B, or what comes of it when the first tick
\* falls into the address byte.
WakeAddresses == {Mix(ZeroByte, MPU_Init, n) : n \in Int}

\* There is no other write: the rest of the registers are as they were.
WriteAims ==
  /\ Read_WriteN = 0 => state \notin ReadStates
  /\ state \in {"40", "41", "50"} => slave.pointer \in WakeAddresses
  /\ \A a \in Addrs :
       slave.regs[a] = a \/ (slave.regs[a] = DataIn /\ a \in WakeAddresses)

\* A device that never refuses stays in the conversation.
NoRefusal ==
  MayNack \/ (state # "EE" /\ (state \in {"13", "31", "51", "93"} => slave.phase # "unselected"))

ClocksOK ==
  /\ seq \in SequencerStates /\ sinceTick \in 0 .. 80 /\ asleep \in BOOLEAN
  /\ seq = "IDLE" => sinceTick >= 40 /\ ~ asleep
  /\ ResetN = 0 => state = "00"
  /\ resets = 0

Observed == Together /\ ClocksOK /\ Recent /\ Writes /\ WriteAims /\ NoRefusal

(***************************************************************************)
(* The sequence, and the bytes that a tick can tear.                       *)
(***************************************************************************)

LEMMA StatesOfSequence ==
  SequencerStates =
    {"IDLE", "START", "READ_ACC_X_MSB", "READ_ACC_Y_MSB", "READ_ACC_Z_MSB",
     "READ_GYRO_X_MSB", "READ_GYRO_Y_MSB", "READ_GYRO_Z_MSB", "READ_ACC_X_LSB",
     "READ_ACC_Y_LSB", "READ_ACC_Z_LSB", "READ_GYRO_X_LSB", "READ_GYRO_Y_LSB"}
  BY DEF SequencerStates, Sequence

\* The sequence state by state.
LEMMA SequenceIs ==
  /\ Sequence["IDLE"] = Wake
  /\ Sequence["START"] = Visit("READ_ACC_X_MSB",  59, "accX")
  /\ Sequence["READ_ACC_X_MSB"] = Visit("READ_ACC_Y_MSB",  61, "accY")
  /\ Sequence["READ_ACC_Y_MSB"] = Visit("READ_ACC_Z_MSB",  63, "accZ")
  /\ Sequence["READ_ACC_Z_MSB"] = Visit("READ_GYRO_X_MSB", 64, "accZa")
  /\ Sequence["READ_GYRO_X_MSB"] = Visit("READ_GYRO_Y_MSB", 62, "accYa")
  /\ Sequence["READ_GYRO_Y_MSB"] = Visit("READ_GYRO_Z_MSB", 60, "accXa")
  /\ Sequence["READ_GYRO_Z_MSB"] = Visit("READ_ACC_X_LSB", 67, "gyX")
  /\ Sequence["READ_ACC_X_LSB"] = Visit("READ_ACC_Y_LSB", 68, "gyXa")
  /\ Sequence["READ_ACC_Y_LSB"] = Visit("READ_ACC_Z_LSB", 69, "gyY")
  /\ Sequence["READ_ACC_Z_LSB"] = Visit("READ_GYRO_X_LSB", 70, "gyYa")
  /\ Sequence["READ_GYRO_X_LSB"] = Visit("READ_GYRO_Y_LSB", 71, "gyZ")
  /\ Sequence["READ_GYRO_Y_LSB"] = Visit("START", 72, "gyZa")
  BY DEF Sequence

\* IDLE is left for good, and its visit is the only one that writes.
LEMMA SequenceTypes ==
  ASSUME NEW s \in SequencerStates
  PROVE  /\ Sequence[s].next \in SequencerStates \ {"IDLE"}
         /\ Sequence[s].address \in Addrs \cap Byte
         /\ Sequence[s].trigger = (IF s = "IDLE" THEN 0 ELSE 1)
<1>1. Sequence[s].address \in Addrs \cap Byte
  BY ReaderAssumption, ConstantsAssumption
<1>2. Sequence[s].next \in SequencerStates \ {"IDLE"}
  BY StatesOfSequence, SequenceIs DEF Visit, Wake
<1>3. Sequence[s].trigger = (IF s = "IDLE" THEN 0 ELSE 1)
  BY StatesOfSequence, SequenceIs DEF Visit, Wake
<1> QED BY <1>1, <1>2, <1>3

LEMMA MixType ==
  ASSUME NEW old \in Byte, NEW new \in Byte, NEW n \in Int
  PROVE  Mix(old, new, n) \in Byte
  BY DEF Mix, Byte

\* A tick before the address byte or behind it tears nothing.
LEMMA MixEnds ==
  ASSUME NEW old \in Byte, NEW new \in Byte, NEW n \in Int
  PROVE  /\ n <= 19 => Mix(old, new, n) = new
         /\ n > 33 => Mix(old, new, n) = old
<1> DEFINE m == Mix(old, new, n)
<1>1. m \in Byte
  BY MixType
<1>2. \A i \in Bits : m[i] = IF 33 - 2 * i >= n THEN new[i] ELSE old[i]
  BY DEF Mix
<1>3. ASSUME n <= 19 PROVE \A i \in Bits : m[i] = new[i]
  BY <1>2, <1>3 DEF Bits
<1>4. ASSUME n > 33 PROVE \A i \in Bits : m[i] = old[i]
  BY <1>2, <1>4 DEF Bits
<1> QED BY <1>1, <1>3, <1>4, SameByte

\* What the sequencer asks for.
LEMMA AskedTypes ==
  ASSUME ClocksOK, NEW before, Asked(before)
  PROVE  /\ AddressIn \in Addrs \cap Byte /\ before \in Addrs \cap Byte
         /\ Read_WriteN = 0 => AddressIn \in {ZeroByte, MPU_Init} /\ before = ZeroByte
         /\ seq = "START" /\ Read_WriteN = 0 => AddressIn = MPU_Init
         /\ Read_WriteN \in {0, 1}
<1>1. ZeroByte \in Addrs \cap Byte
  BY ReaderAssumption, ZeroByteType
<1>2. CASE seq = "IDLE"
  BY <1>1, <1>2 DEF Asked
<1>3. CASE seq # "IDLE"
  <2>1. PICK p \in SequencerStates :
          /\ AddressIn = Sequence[p].address /\ Read_WriteN = Sequence[p].trigger
          /\ IF p = "IDLE" THEN before = ZeroByte
             ELSE \E q \in SequencerStates :
                    Sequence[q].next = p /\ before = Sequence[q].address
    BY <1>3 DEF Asked
  <2>2. p = "IDLE" => AddressIn = MPU_Init
    BY <2>1, SequenceIs DEF Wake, MPU_Init
  <2> QED BY <1>1, <2>1, <2>2, SequenceTypes
<1> QED BY <1>2, <1>3

\* A register reads as its address, as what the pins say, or as zero.
LEMMA ReadValue ==
  ASSUME Together, WriteAims, NEW p
  PROVE  RegisterValue(slave, p) \in {p, DataIn, ZeroByte}
<1>1. DOMAIN slave.regs = Addrs
  BY DEF Together, TypeOK, Slave
<1> QED BY <1>1 DEF RegisterValue, WriteAims

\* Places that the steps below look at.
LEMMA PlaceBounds ==
  ASSUME Together, state # "EE"
  PROVE  /\ Place \in -1 .. 78
         /\ state = "20" => Place = 33 - 2 * bitcount
         /\ state = "21" => Place = 34 - 2 * bitcount
         /\ state \in {"30", "31", "40", "41", "50"} \cup ReadStates => Place > 33
         /\ state \notin {"D2", "D3", "D4", "D5"} => Place <= 74
<1>1. bitcount \in 0 .. 7 /\ state \in States
  BY DEF Together, TypeOK, Bits
<1> QED BY <1>1, Places DEF Place, ReadStates, States

-----------------------------------------------------------------------------
(***************************************************************************)
(* A step of the controller keeps the invariant.                           *)
(***************************************************************************)

LEMMA TakenOnFall ==
  ASSUME ~ MayNack, SlaveReacts, SCL = 1, SCL' = 0
  PROVE  slave' = SeesFall(slave, SlaveAddress_Write, TRUE)
  BY DEF SlaveReacts

\* The device knows its address with either value of the read bit.
LEMMA ReadAddressSelects ==
  IsSelectedBy(SlaveAddress_Read, SlaveAddress_Write)
<1> SUFFICES ASSUME NEW i \in 1 .. 7
             PROVE  SlaveAddress_Read[i] = SlaveAddress_Write[i]
  BY DEF IsSelectedBy
<1>1. i \in Bits /\ Weight[i + 1] \in {2, 4, 8, 16, 32, 64, 128}
  BY DEF Bits, Weight
<1>2. 209 \div Weight[i + 1] = 208 \div Weight[i + 1]
  BY <1>1
<1> QED BY <1>1, <1>2 DEF SlaveAddress_Read, SlaveAddress_Write, ByteOf

\* Every byte is taken: the two addresses are the device's own.
LEMMA NeverRefused == ASSUME Together, Clock, NoRefusal PROVE NoRefusal'
<1>1. SUFFICES ASSUME ~ MayNack PROVE NoRefusal'
  BY DEF NoRefusal
<1>2. /\ Goes /\ state # "EE"
      /\ state \in {"13", "31", "51", "93"} => slave.phase # "unselected"
  BY <1>1, ClockGoes DEF NoRefusal
<1>3. state' # "EE"
  BY <1>2 DEF Goes, PlainMoves, BitMoves
<1>4. ASSUME state' \in {"13", "31", "51", "93"} PROVE slave'.phase # "unselected"
  <2>1. state \in {"12", "30", "50", "92"}
    BY <1>2, <1>4 DEF Goes, PlainMoves, BitMoves
  <2>2. /\ SCL = 1 /\ slave.phase \in Receiving /\ slave.count = 8
        /\ slave.phase = "select" =>
             slave.byte \in {SlaveAddress_Write, SlaveAddress_Read}
    BY <2>1 DEF Together, InStepInv, LevelsKnown, BitsCounted, BytesAgree, At, Receiving
  <2>3. SlaveReacts /\ slave \in Device /\ SCL' = 0
    <3>1. SCL' = 0
      BY <1>4, TogetherClock DEF InStepInv, LevelsKnown
    <3> QED BY <3>1, ClockFacts DEF Together
  <2>4. slave' = SeesFall(slave, SlaveAddress_Write, TRUE)
    BY <1>1, <2>2, <2>3, TakenOnFall
  <2>5. slave.phase = "select" => IsSelectedBy(slave.byte, SlaveAddress_Write)
    BY <2>2, ReadAddressSelects DEF IsSelectedBy
  <2>6. slave'.phase = slave.phase
    <3> DEFINE pointer == IF slave.phase = "pointer" THEN slave.byte ELSE slave.pointer
               regs == IF slave.phase = "store" /\ slave.pointer \in DOMAIN slave.regs
                       THEN [slave.regs EXCEPT ![slave.pointer] = slave.byte]
                       ELSE slave.regs
    <3>1. slave' = [slave EXCEPT !.drive = 0, !.pointer = pointer, !.regs = regs]
      BY <2>2, <2>4, <2>5 DEF SeesFall, Receiving
    <3> HIDE DEF pointer, regs
    <3> QED BY <2>3, <3>1 DEF Device, Slave
  <2> QED BY <2>2, <2>6 DEF Receiving
<1> QED BY <1>3, <1>4 DEF NoRefusal

\* The write goes where the address byte, torn or not, has pointed.
LEMMA AimsClock ==
  ASSUME Observed, Clock PROVE WriteAims'
<1>1. PICK before \in Byte : Asked(before) /\ PointedAt(Mix(before, AddressIn, TickAt))
  BY DEF Observed, Recent
<1>2. /\ Goes /\ Together /\ WriteAims /\ ClocksOK /\ Writes
      /\ Read_WriteN' = Read_WriteN /\ DataIn' = DataIn
  BY ClockGoes, ClockFacts DEF Observed, Together
<1>3. Read_WriteN' = 0 => state' \notin ReadStates
  <2>1. state' \in ReadStates => state \in ReadStates \/ (state = "31" /\ Read_WriteN # 0)
    BY <1>2 DEF Goes, PlainMoves, BitMoves, ReadStates
  <2> QED BY <1>2, <2>1 DEF WriteAims
<1>4. ASSUME state' \in {"40", "41", "50"} PROVE slave'.pointer \in WakeAddresses
  <2>1. \/ state \in {"40", "41"}
        \/ state = "31" /\ slave.phase # "unselected" /\ Read_WriteN = 0
    BY <1>2, <1>4 DEF Goes, PlainMoves, BitMoves
  <2>2. slave'.pointer = slave.pointer
    BY <1>2, <2>1, PointerMoves
  <2>3. CASE state = "31" /\ slave.phase # "unselected" /\ Read_WriteN = 0
    <3>1. slave.pointer = Mix(before, AddressIn, TickAt)
      BY <1>1, <2>3 DEF PointedAt
    <3>2. AddressIn \in {ZeroByte, MPU_Init} /\ before = ZeroByte
      BY <1>1, <1>2, <2>3, AskedTypes
    <3>3. TickAt \in Int
      BY <1>2, <2>3, PlaceBounds DEF TickAt, ClocksOK
    <3>4. CASE AddressIn = MPU_Init
      BY <2>2, <3>1, <3>2, <3>3, <3>4 DEF WakeAddresses
    <3>5. CASE AddressIn = ZeroByte
      <4>1. Mix(ZeroByte, ZeroByte, TickAt) = Mix(ZeroByte, MPU_Init, 34)
        BY <3>3 DEF Mix, ZeroByte, Bits
      <4> QED BY <2>2, <3>1, <3>2, <3>5, <4>1 DEF WakeAddresses
    <3> QED BY <3>2, <3>4, <3>5
  <2>4. CASE state \in {"40", "41"}
    BY <1>2, <2>2, <2>4 DEF WriteAims
  <2> QED BY <2>1, <2>3, <2>4
<1>5. ASSUME NEW a \in Addrs
      PROVE  slave'.regs[a] = a \/ (slave'.regs[a] = DataIn' /\ a \in WakeAddresses)
  <2>1. slave.regs \in [Addrs -> Byte]
    BY <1>2 DEF Together, TypeOK, Slave
  <2>2. slave.regs[a] = a \/ (slave.regs[a] = DataIn /\ a \in WakeAddresses)
    BY <1>2 DEF WriteAims
  <2>3. CASE slave'.regs = slave.regs
    BY <1>2, <2>2, <2>3
  <2>4. CASE /\ state = "50" /\ slave.pointer \in Addrs
             /\ slave'.regs = [slave.regs EXCEPT ![slave.pointer] = DataIn]
    <3>1. slave.pointer \in WakeAddresses
      BY <1>2, <2>4 DEF WriteAims
    <3>2. slave'.regs[a] = IF a = slave.pointer THEN DataIn ELSE slave.regs[a]
      BY <2>1, <2>4
    <3> QED BY <1>2, <2>2, <3>1, <3>2
  <2> QED BY <1>2, <2>3, <2>4, Stored
<1> QED BY <1>3, <1>4, <1>5 DEF WriteAims

\* DataOut changes at the end of a read, to the register pointed at.  With the
\* next transaction the last tick is 79 places further back.
LEMMA ShownClock ==
  ASSUME Observed, Clock, ~ MayNack, NEW before \in Byte, NEW earlier \in Byte,
         Asked(before), PointedAt(Mix(before, AddressIn, TickAt)), Shown(before, earlier),
         sinceTick' = sinceTick + 1
  PROVE  Shown(before, earlier)'
<1>1. /\ Goes /\ Together /\ WriteAims /\ Writes /\ state # "EE" /\ state' # "EE"
      /\ AddressIn' = AddressIn /\ DataIn' = DataIn
      /\ AddressIn \in Byte /\ sinceTick \in 0 .. 80
  BY ClockGoes, ClockFacts, NeverRefused, AskedTypes
     DEF Observed, NoRefusal, Together, ClocksOK
<1>2. CASE state' \in {"D2", "D3", "D4", "D5"}
  BY <1>2 DEF Shown
<1>3. CASE state \in {"00", "50", "54"}
  <2>1. DataOut' \in {ZeroByte, DataIn}
    BY <1>1, <1>3, ActionOf DEF Writes
  <2> QED BY <1>1, <2>1 DEF Shown
<1>4. CASE state = "D5"
  <2>1. DataOut' = RegisterValue(slave, slave.pointer)
    BY <1>4, <1>1, ActionOf DEF Together, InStepInv, BytesAgree
  <2>2. slave.pointer = Mix(before, AddressIn, TickAt)
    BY <1>4 DEF PointedAt, ReadStates
  <2>3. DataOut' \in {Mix(before, AddressIn, TickAt), DataIn, ZeroByte}
    BY <1>1, <2>1, <2>2, ReadValue
  <2>4. TickAt = 78 - sinceTick /\ TickAt' = TickAt - 79 /\ TickAt \in Int
    BY <1>1, <1>4, PlaceGoes DEF TickAt
  <2>5. CASE TickAt' <= -46
    <3>1. TickAt' + 79 = TickAt
      BY <2>4
    <3> QED BY <1>1, <2>3, <2>5, <3>1 DEF Shown
  <2>6. CASE TickAt' > -46
    <3>1. TickAt > 33 /\ TickAt' <= 19 /\ TickAt' \in Int
      BY <1>1, <2>4, <2>6
    <3>2. Mix(before, AddressIn, TickAt) = before
      BY <1>1, <2>4, <3>1, MixEnds
    <3>3. Mix(earlier, before, TickAt') = before
      BY <3>1, MixEnds
    <3>4. ~ (TickAt' <= -46)
      BY <3>1, <2>6
    <3> QED BY <1>1, <2>3, <3>2, <3>3, <3>4 DEF Shown
  <2> QED BY <2>4, <2>5, <2>6
<1>5. CASE state' \notin {"D2", "D3", "D4", "D5"} /\ state \notin {"00", "50", "54", "D5"}
  <2>1. state \notin {"D0", "D2", "D3", "D4"}
    BY <1>1, <1>5 DEF Goes, PlainMoves, BitMoves
  <2>2. DataOut' = DataOut
    BY <1>5, <2>1, ActionOf
  <2>3. Place' = Place + 1
    BY <1>1, <1>5, PlaceGoes
  <2>4. TickAt' = TickAt
    BY <1>1, <2>3, PlaceBounds DEF TickAt
  <2> QED BY <1>1, <1>5, <2>1, <2>2, <2>4 DEF Shown
<1> QED BY <1>2, <1>3, <1>4, <1>5

\* The bit put out in state 20 is one of the address of now.
LEMMA RecentClock ==
  ASSUME Observed, Clock, sinceTick' = sinceTick + 1, UNCHANGED seq
  PROVE  Recent'
<1>1. PICK before \in Byte, earlier \in Byte :
        /\ Asked(before) /\ PointedAt(Mix(before, AddressIn, TickAt))
        /\ MayNack \/ Shown(before, earlier)
  BY DEF Observed, Recent
<1>2. /\ Goes /\ Together /\ AddressIn' = AddressIn /\ Read_WriteN' = Read_WriteN
      /\ AddressIn \in Byte /\ sinceTick \in 0 .. 80
  BY <1>1, ClockGoes, ClockFacts, AskedTypes DEF Observed, Together, ClocksOK
<1>3. Asked(before)'
  BY <1>1, <1>2 DEF Asked
<1>4. MayNack \/ Shown(before, earlier)'
  BY <1>1, ShownClock
<1>5. PointedAt(Mix(before, AddressIn, TickAt))'
  <2>1. CASE state' \in {"EE", "01"}
    BY <2>1 DEF PointedAt, ReadStates
  <2>2. CASE state' \notin {"EE", "01"}
    <3>1. Place' = Place + 1 /\ state # "EE"
      BY <1>2, <2>2, PlaceGoes DEF Observed
    <3>2. TickAt' = TickAt /\ TickAt \in Int /\ TickAt <= Place
      BY <1>2, <3>1, PlaceBounds DEF TickAt
    <3>3. PICK a \in Byte : a = Mix(before, AddressIn, TickAt)
      BY <1>2, <3>2, MixType
    <3>4. state = "20" => AddressIn[bitcount] = a[bitcount]
      <4>1. bitcount \in Bits
        BY <1>2 DEF Together, TypeOK
      <4>2. state = "20" => 33 - 2 * bitcount >= TickAt
        BY <1>2, <3>1, <3>2, PlaceBounds
      <4> QED BY <3>3, <4>1, <4>2 DEF Mix
    <3>5. PointedAt(a)'
      BY <1>1, <1>2, <3>3, <3>4, AddressTravels
    <3>6. Mix(before, AddressIn', TickAt') = a
      BY <1>2, <3>2, <3>3
    <3> QED BY <3>5, <3>6 DEF PointedAt
  <2> QED BY <2>1, <2>2
<1> QED BY <1>3, <1>4, <1>5 DEF Recent

-----------------------------------------------------------------------------
(***************************************************************************)
(* A tick, and the sequencer's other steps, keep the invariant.            *)
(***************************************************************************)

\* What a tick finds: the address of now has been there for a transaction.
LEMMA TickFinds ==
  ASSUME Observed, Tick
  PROVE  /\ sinceTick \in {79, 80} /\ Place \in -1 .. 78 /\ TickAt <= -1 /\ TickAt \in Int
         /\ Place' = Place /\ TickAt' = Place
<1>1. sinceTick \in {79, 80} /\ sinceTick' = 0 /\ UNCHANGED <<state, bitcount>>
  BY DEF Observed, ClocksOK, Tick, TickSteps
<1>2. Place \in -1 .. 78
  <2>1. CASE state = "EE"
    BY <2>1 DEF Place, PlaceOf
  <2>2. CASE state # "EE"
    BY <2>2, PlaceBounds DEF Observed
  <2> QED BY <2>1, <2>2
<1>3. Place' = Place
  BY <1>1 DEF Place
<1> QED BY <1>1, <1>2, <1>3 DEF TickAt

LEMMA AskedTick ==
  ASSUME ClocksOK, Tick, NEW before, Asked(before), NEW old, old = AddressIn
  PROVE  Asked(old)'
<1>1. /\ seq \in SequencerStates /\ seq' = Sequence[seq].next
      /\ AddressIn' = Sequence[seq].address /\ Read_WriteN' = Sequence[seq].trigger
  BY DEF Tick, ClocksOK
<1>2. seq' # "IDLE"
  BY <1>1, SequenceTypes
<1>3. IF seq = "IDLE" THEN old = ZeroByte
      ELSE \E q \in SequencerStates :
             Sequence[q].next = seq /\ old = Sequence[q].address
  BY DEF Asked
<1> QED BY <1>1, <1>2, <1>3 DEF Asked

\* The address of now becomes the one before the tick, here and now; a byte
\* being sent has it in the bits already out.
LEMMA RecentTick == ASSUME Observed, Tick PROVE Recent'
<1>1. PICK before \in Byte, earlier \in Byte :
        /\ Asked(before) /\ PointedAt(Mix(before, AddressIn, TickAt))
        /\ MayNack \/ Shown(before, earlier)
  BY DEF Observed, Recent
<1>2. /\ sinceTick \in {79, 80} /\ Place \in -1 .. 78 /\ TickAt <= -1 /\ TickAt \in Int
      /\ TickAt = Place - sinceTick /\ Place' = Place /\ TickAt' = Place
  BY TickFinds DEF TickAt
<1>3. /\ Together /\ bitcount \in 0 .. 7
      /\ UNCHANGED <<state, bitcount, SDA01, slave, DataOut, DataIn>>
  BY DEF Observed, Together, TypeOK, Bits, Tick
<1>4. PICK old \in Byte : old = AddressIn
  BY <1>1, AskedTypes DEF Observed
<1>5. PICK new \in Byte : new = AddressIn'
  BY SequenceTypes DEF Tick, Observed, ClocksOK
<1>6. Asked(old)'
  BY <1>1, <1>4, AskedTick DEF Observed
<1>7. PointedAt(old)
  BY <1>1, <1>2, <1>4, MixEnds
<1>8. PointedAt(Mix(old, AddressIn, TickAt))'
  <2>1. PICK a \in Byte : a = Mix(old, new, Place)
    BY <1>2, MixType
  <2>2. \A i \in Bits : a[i] = IF 33 - 2 * i >= Place THEN new[i] ELSE old[i]
    BY <2>1 DEF Mix
  <2>3. PointedAt(a)
    <3>1. CASE state = "20"
      <4>1. Place = 33 - 2 * bitcount
        BY <1>3, <3>1, PlaceBounds
      <4>2. \A i \in Bits : i > bitcount => a[i] = old[i]
        BY <1>3, <2>2, <4>1 DEF Bits
      <4> QED BY <1>7, <3>1, <4>2 DEF PointedAt, Received, ReadStates
    <3>2. CASE state = "21"
      <4>1. Place = 34 - 2 * bitcount
        BY <1>3, <3>2, PlaceBounds
      <4>2. \A i \in Bits : i >= bitcount => a[i] = old[i]
        BY <1>3, <2>2, <4>1 DEF Bits
      <4> QED BY <1>3, <1>7, <3>2, <4>2 DEF PointedAt, Received, ReadStates, Bits
    <3>3. CASE state \in {"30", "31", "40", "41", "50"} \cup ReadStates
      <4>1. state # "EE"
        BY <3>3 DEF ReadStates
      <4>2. a = old
        BY <1>2, <1>3, <2>1, <3>3, <4>1, PlaceBounds, MixEnds
      <4> QED BY <1>7, <4>2
    <3>4. CASE state \notin {"20", "21", "30", "31", "40", "41", "50"} \cup ReadStates
      BY <3>4 DEF PointedAt
    <3> QED BY <3>1, <3>2, <3>3, <3>4
  <2>4. PointedAt(a)'
    BY <1>3, <2>3 DEF PointedAt, Received
  <2>5. Mix(old, AddressIn', TickAt') = a
    BY <1>2, <1>5, <2>1
  <2> QED BY <2>4, <2>5 DEF PointedAt, Received
<1>9. MayNack \/ Shown(old, before)'
  <2> SUFFICES ASSUME ~ MayNack PROVE Shown(old, before)'
    OBVIOUS
  <2>1. Shown(before, earlier) /\ ~ (TickAt' <= -46)
    BY <1>1, <1>2
  <2>2. SUFFICES ASSUME state \notin {"D2", "D3", "D4", "D5"},
                        DataOut \notin {ZeroByte, DataIn}
                 PROVE  DataOut \in {Mix(before, old, Place), Mix(before, old, Place - 1)}
    BY <1>2, <1>3, <2>1 DEF Shown
  <2>3. CASE TickAt <= -46
    <3>1. DataOut = Mix(before, old, TickAt + 79)
      BY <1>4, <2>1, <2>2, <2>3 DEF Shown
    <3>2. TickAt + 79 \in {Place, Place - 1}
      BY <1>2
    <3> QED BY <3>1, <3>2
  <2>4. CASE ~ (TickAt <= -46)
    <3>1. DataOut \in {Mix(earlier, before, TickAt), Mix(earlier, before, TickAt - 1)}
      BY <2>1, <2>2, <2>4 DEF Shown
    <3>2. TickAt <= 19 /\ TickAt - 1 <= 19 /\ TickAt - 1 \in Int /\ Place > 33
      BY <1>2, <2>4
    <3>3. DataOut = before
      BY <1>2, <3>1, <3>2, MixEnds
    <3>4. Mix(before, old, Place) = before
      BY <1>2, <3>2, MixEnds
    <3> QED BY <3>3, <3>4
  <2> QED BY <2>3, <2>4
<1> QED BY <1>6, <1>8, <1>9 DEF Recent, Asked, PointedAt, Shown, Received

\* A tick is a change of the request at the controller.
LEMMA TickIsRequest ==
  ASSUME Observed, Tick
  PROVE  ChangeRequest
<1>1. seq \in SequencerStates
  BY DEF Observed, ClocksOK
<1>2. AddressIn' \in Addrs /\ Read_WriteN' \in {0, 1}
  BY <1>1, SequenceTypes DEF Tick
<1>3. DataIn' \in Values
  BY DEF Tick, Observed, Together, TypeOK
<1> QED BY <1>2, <1>3, ReaderAssumption DEF ChangeRequest, Tick

\* The two ends stay in step whatever the sequencer does.
LEMMA TogetherReader ==
  ASSUME Observed, [ReaderNext]_readerVars PROVE Together'
<1>1. TypeOK /\ InStepInv /\ resets = 0
  BY DEF Observed, Together, ClocksOK
<1>2. CASE Clock
  BY <1>1, <1>2, ClockType, TogetherClock DEF Observed, Together
<1>3. CASE Tick
  BY <1>1, <1>3, TickIsRequest, NextType, TogetherChangeRequest DEF Observed, Together, Next
<1>4. CASE ReleaseReset
  <2>1. TypeOK'
    BY <1>1, <1>4, NextType DEF Next
  <2>2. InStepInv'
    BY <1>1, <1>4 DEF ReleaseReset, request, InStepInv, LevelsKnown, BitsCounted,
       DriverKnown, BytesAgree, RequestKept, At, k, Received
  <2> QED BY <2>1, <2>2 DEF Together
<1>5. CASE UNCHANGED vars
  BY <1>1, <1>5 DEF vars, environs, request, Together, TypeOK, InStepInv, LevelsKnown,
       BitsCounted, DriverKnown, BytesAgree, RequestKept, At, k, Received
<1> QED BY <1>2, <1>3, <1>4, <1>5 DEF ReaderNext, ControllerStep, PowerOn, readerVars

LEMMA ClocksReader ==
  ASSUME Observed, [ReaderNext]_readerVars PROVE ClocksOK'
<1> USE DEF ClocksOK
<1>1. ClocksOK /\ ResetN \in {0, 1} /\ Together
  BY DEF Observed, Together, TypeOK
<1>2. CASE Tick
  <2>1. asleep' \in BOOLEAN
    <3>1. asleep \in BOOLEAN /\ asleep' = IF seq = "IDLE" THEN ResetN = 0 ELSE asleep
      BY <1>1, <1>2 DEF Tick
    <3>2. (ResetN = 0) \in BOOLEAN
      OBVIOUS
    <3> QED BY ONLY <3>1, <3>2, Zenon
  <2>2. /\ sinceTick' = 0 /\ seq' = Sequence[seq].next
        /\ UNCHANGED <<ResetN, resets, state>>
    BY <1>2 DEF Tick
  <2> QED BY <1>1, <2>1, <2>2, SequenceTypes
<1>3. CASE ControllerStep /\ Clock
  <2>1. ResetN' = ResetN /\ resets' = resets /\ ResetN = 1
    BY <1>1, <1>3, ClockFacts DEF Clock, Idle, Start, SelectForWrite, SendRegisterAddress, SendData,
          Stop, RepeatStart, SelectForRead, ReceiveData, Error, PutBit, ClockBit, CountDown,
          Release, CheckAck, Step, environs
  <2> QED BY <1>1, <1>3, <2>1 DEF ControllerStep, TickSteps
<1>4. CASE ControllerStep /\ UNCHANGED vars
  BY <1>1, <1>4 DEF ControllerStep, TickSteps, vars, environs
<1>5. CASE PowerOn
  BY <1>1, <1>5 DEF PowerOn, ReleaseReset
<1>6. CASE UNCHANGED readerVars
  BY <1>1, <1>6 DEF readerVars, vars, environs
<1> QED BY <1>2, <1>3, <1>4, <1>5, <1>6 DEF ReaderNext, ControllerStep

\* What does not look at the sequencer is kept when the controller stands.
LEMMA ObservedStands ==
  ASSUME Observed, UNCHANGED <<state, SCL, SDA01, bitcount, Ack, RegisterAddress,
                               Data, DataOut, RegisterAddressOut, slave, DataIn>>
  PROVE  /\ Writes' /\ NoRefusal'
         /\ (Read_WriteN' = 0 => state \notin ReadStates) => WriteAims'
<1>1. Writes /\ WriteAims /\ NoRefusal
  BY DEF Observed
<1>2. Writes'
  BY <1>1 DEF Writes, Received
<1>3. NoRefusal'
  BY <1>1 DEF NoRefusal
<1>4. (Read_WriteN' = 0 => state \notin ReadStates) => WriteAims'
  BY <1>1 DEF WriteAims
<1> QED BY <1>2, <1>3, <1>4
\* Only the first tick asks for a write.
LEMMA NoReadAfterTick ==
  ASSUME Observed, Tick, Read_WriteN' = 0
  PROVE  seq = "IDLE" /\ Read_WriteN = 0
<1>1. PICK before \in Byte : Asked(before)
  BY DEF Observed, Recent
<1>2. seq \in SequencerStates /\ Sequence[seq].trigger = 0
  BY DEF Tick, Observed, ClocksOK
<1>3. seq = "IDLE"
  BY <1>2, SequenceTypes
<1> QED BY <1>1, <1>3 DEF Asked

LEMMA ObservedReader ==
  ASSUME Observed, [ReaderNext]_readerVars PROVE Observed'
<1>1. Together' /\ ClocksOK'
  BY TogetherReader, ClocksReader
<1>2. CASE Tick
  <2>1. Recent'
    BY <1>2, RecentTick
  <2>2. UNCHANGED <<state, SCL, SDA01, bitcount, Ack, RegisterAddress, Data, DataOut,
                    RegisterAddressOut, slave, DataIn>>
    BY <1>2 DEF Tick
  <2>3. Read_WriteN' = 0 => state \notin ReadStates
    BY <1>2, NoReadAfterTick DEF Observed, WriteAims
  <2> QED BY <1>1, <2>1, <2>2, <2>3, ObservedStands DEF Observed
<1>3. CASE ControllerStep /\ Clock
  <2>1. sinceTick' = sinceTick + 1 /\ UNCHANGED seq
    BY <1>3 DEF ControllerStep
  <2>2. Recent'
    BY <1>3, <2>1, RecentClock
  <2>3. WriteAims'
    BY <1>3, AimsClock
  <2>4. Writes' /\ NoRefusal'
    BY <1>3, DataTravels, NeverRefused DEF Observed
  <2> QED BY <1>1, <2>2, <2>3, <2>4 DEF Observed
<1>4. CASE ~ Tick /\ ~ (ControllerStep /\ Clock)
  <2>1. /\ UNCHANGED <<state, SCL, SDA01, bitcount, Ack, RegisterAddress, Data, DataOut,
                       RegisterAddressOut, slave, DataIn>>
        /\ UNCHANGED <<AddressIn, Read_WriteN, seq>>
        /\ sinceTick' = sinceTick \/ (sinceTick' = sinceTick + 1 /\ state = "00")
    BY <1>4 DEF ReaderNext, ControllerStep, PowerOn, ReleaseReset, readerVars, vars,
                environs, request, Observed, ClocksOK
  <2>2. Writes' /\ NoRefusal' /\ WriteAims'
    BY <2>1, ObservedStands DEF Observed, WriteAims
  <2>3. PICK before \in Byte, earlier \in Byte :
          /\ Asked(before) /\ PointedAt(Mix(before, AddressIn, TickAt))
          /\ MayNack \/ Shown(before, earlier)
    BY DEF Observed, Recent
  <2>4. Asked(before)'
    BY <2>1, <2>3 DEF Asked
  <2>5. CASE state = "00"
    <3>1. PointedAt(Mix(before, AddressIn, TickAt))'
      BY <2>1, <2>5 DEF PointedAt, ReadStates
    <3>2. DataOut' = ZeroByte
      BY <2>1, <2>5 DEF Observed, Together, InStepInv, BytesAgree
    <3>3. Shown(before, earlier)'
      BY <3>2 DEF Shown
    <3> QED BY <1>1, <2>2, <2>4, <3>1, <3>3 DEF Observed, Recent
  <2>6. CASE state # "00"
    <3>1. TickAt' = TickAt
      BY <2>1, <2>6 DEF TickAt, Place
    <3>2. PICK a : a = Mix(before, AddressIn, TickAt)
      OBVIOUS
    <3>3. PointedAt(a)'
      BY <2>1, <2>3, <3>2 DEF PointedAt, Received
    <3>4. Mix(before, AddressIn', TickAt') = a
      BY <2>1, <3>1, <3>2
    <3>5. PointedAt(Mix(before, AddressIn, TickAt))'
      BY <3>3, <3>4 DEF PointedAt, Received
    <3>6. MayNack \/ Shown(before, earlier)'
      BY <2>1, <2>3, <3>1 DEF Shown
    <3> QED BY <1>1, <2>2, <2>4, <3>5, <3>6 DEF Observed, Recent
  <2> QED BY <2>5, <2>6
<1> QED BY <1>2, <1>3, <1>4

LEMMA ReaderStarts == ASSUME ReaderInit PROVE Observed
<1>1. ZeroByte \in Addrs \cap Byte /\ ByteOf(255) \in Byte
  BY ReaderAssumption, ZeroByteType, ByteOfType
<1>2. TypeOK
  <2>1. slave \in Slave(Addrs, Byte)
    BY <1>1, ConstantsAssumption DEF ReaderInit, PoweredUp, Slave, Phases
  <2> QED BY <1>1, <2>1, ConstantsAssumption DEF ReaderInit, TypeOK, States, Bits
<1>3. InStepInv
  BY DEF ReaderInit, PoweredUp, InStepInv, LevelsKnown, BitsCounted, DriverKnown,
         BytesAgree, RequestKept, k
<1>4. ClocksOK /\ Writes /\ NoRefusal
  <2>1. asleep \in BOOLEAN /\ ~ asleep
    BY DEF ReaderInit
  <2>2. state = "00" /\ seq = "IDLE" /\ sinceTick = 40 /\ resets = 0
    BY DEF ReaderInit
  <2> QED BY <2>1, <2>2, StatesOfSequence DEF ClocksOK, Writes, NoRefusal
<1>5. WriteAims
  BY DEF ReaderInit, PoweredUp, WriteAims, ReadStates
<1>6. Recent
  BY <1>1 DEF ReaderInit, Recent, Asked, PointedAt, Shown, ReadStates
<1> QED BY <1>2, <1>3, <1>4, <1>5, <1>6 DEF Observed, Together

-----------------------------------------------------------------------------
(***************************************************************************)
(* Awake before it is read: by the second tick the one write is done or in *)
(* its data byte, pointed at 6B.                                           *)
(***************************************************************************)

\* The write is done, or has been refused and the controller stands still.
Woken == slave.regs[MPU_Init] = DataIn \/ state = "EE"

\* Released in time, the controller is early in a transaction at the first tick,
\* and at the second one in the data byte of the write, if it has not done it.
Waking ==
  ~ asleep /\ ~ Woken =>
    /\ seq # "IDLE" => ResetN = 1
    /\ seq = "IDLE" => Place <= sinceTick - 41
    /\ seq = "START" /\ Read_WriteN = 0 =>
         /\ TickAt \in -36 .. -19 \cup -1 .. 39
         /\ TickAt <= 21 => /\ state \notin {"52", "53", "54"}
                            /\ state = "51" => slave.phase = "unselected"
    /\ Read_WriteN = 1 =>
         \/ state \in {"40", "41", "50"} /\ slave.pointer = MPU_Init
         \/ state = "51" /\ slave.phase = "unselected"

\* 6B in bits.
LEMMA MPUBits ==
  /\ MPU_Init \in Addrs \cap Byte
  /\ MPU_Init[7] = 0 /\ MPU_Init[6] = 1 /\ MPU_Init[5] = 1 /\ MPU_Init[4] = 0
  /\ MPU_Init[3] = 1 /\ MPU_Init[2] = 0 /\ MPU_Init[1] = 1 /\ MPU_Init[0] = 1
<1>1. MPU_Init \in Addrs \cap Byte
  <2>1. "IDLE" \in SequencerStates /\ Sequence["IDLE"].address = MPU_Init
    BY StatesOfSequence, SequenceIs DEF Wake, MPU_Init
  <2> QED BY <2>1, SequenceTypes
<1>2. \A i \in Bits : MPU_Init[i] = (107 \div Weight[i + 1]) % 2
  BY DEF MPU_Init, ByteOf
<1> QED BY <1>1, <1>2 DEF Bits, Weight

\* Until well into the address byte the whole of 6B is still in time.
LEMMA WakeInTime ==
  ASSUME NEW n \in Int, n <= 21
  PROVE  Mix(ZeroByte, MPU_Init, n) = MPU_Init
<1>1. PICK new \in Byte : new = MPU_Init /\ new[7] = 0
  BY MPUBits
<1>2. \A i \in Bits : ZeroByte[i] = 0
  BY DEF ZeroByte
<1>3. PICK m \in Byte : m = Mix(ZeroByte, new, n)
  BY ZeroByteType, MixType
<1>4. \A i \in Bits : m[i] = IF 33 - 2 * i >= n THEN new[i] ELSE ZeroByte[i]
  BY <1>3 DEF Mix
<1>5. \A i \in Bits : m[i] = new[i]
  BY <1>1, <1>2, <1>4 DEF Bits
<1> QED BY <1>1, <1>3, <1>5, SameByte

\* The write is done once.
LEMMA StaysDone ==
  ASSUME Observed, Clock, Woken
  PROVE  Woken'
<1>1. /\ slave.regs \in [Addrs -> Byte] /\ DataIn' = DataIn /\ Goes
      /\ Together /\ Writes /\ MPU_Init \in Addrs
  BY ClockFacts, ClockGoes, MPUBits DEF Observed, Together, TypeOK, Slave
<1>2. CASE state = "EE"
  BY <1>1, <1>2 DEF Goes, PlainMoves, BitMoves, Woken
<1>3. CASE slave.regs[MPU_Init] = DataIn
  BY <1>1, <1>3, Stored DEF Woken
<1> QED BY <1>2, <1>3 DEF Woken

\* The device has the byte for 6B: it takes it, or is out of the conversation.
LEMMA WriteEnds ==
  ASSUME Observed, Clock, state = "50", slave.pointer = MPU_Init
  PROVE  Woken' \/ slave'.phase = "unselected"
<1>1. /\ slave.regs \in [Addrs -> Byte] /\ DataIn' = DataIn
      /\ Together /\ Writes /\ MPU_Init \in Addrs
  BY ClockFacts, MPUBits DEF Observed, Together, TypeOK, Slave
<1> QED BY <1>1, Stored DEF Woken

\* A transaction begun before the first tick ends in time for another one.
LEMMA WakingClock ==
  ASSUME Observed, Waking, Clock, ControllerStep PROVE Waking'
<1>1. SUFFICES ASSUME ~ asleep', ~ Woken' PROVE Waking'
  BY DEF Waking
<1>2. /\ ~ asleep /\ ~ Woken /\ sinceTick' = sinceTick + 1 /\ seq' = seq
      /\ sinceTick \in 0 .. 80 /\ Read_WriteN' = Read_WriteN
  BY <1>1, StaysDone, ClockFacts DEF ControllerStep, Observed, ClocksOK, Together
<1>3. /\ Goes /\ Together /\ bitcount \in 0 .. 7 /\ state # "EE" /\ state' # "EE"
      /\ ResetN' = ResetN /\ AddressIn' = AddressIn
  <2>1. ResetN' = ResetN
    BY DEF Clock, Idle, Start, SelectForWrite, SendRegisterAddress, SendData,
          Stop, RepeatStart, SelectForRead, ReceiveData, Error, PutBit, ClockBit, CountDown,
          Release, CheckAck, Step, environs
  <2>2. state # "EE" /\ state' # "EE"
    BY <1>1, <1>2 DEF Woken
  <2>3. Goes /\ Together /\ bitcount \in 0 .. 7 /\ AddressIn' = AddressIn
    BY ClockGoes, ClockFacts DEF Observed, Together, TypeOK, Bits
  <2> QED BY <2>1, <2>2, <2>3
<1>4. seq' # "IDLE" => ResetN' = 1
  BY <1>2, <1>3 DEF Waking
<1>5. Place' = Place + 1 \/ (state \in {"54", "D5"} /\ state' = "01" /\ Place' = 0)
  BY <1>3, PlaceGoes
<1>6. Place \in -1 .. 78
  BY <1>3, PlaceBounds
<1>7. seq' = "IDLE" => Place' <= sinceTick' - 41
  <2>1. seq = "IDLE" => sinceTick >= 40 /\ Place <= sinceTick - 41
    BY <1>2 DEF Waking, Observed, ClocksOK
  <2> QED BY <1>2, <1>5, <1>6, <2>1
<1>8. ASSUME seq' = "START", Read_WriteN' = 0
      PROVE  /\ TickAt' \in -36 .. -19 \cup -1 .. 39
             /\ TickAt' <= 21 => /\ state' \notin {"52", "53", "54"}
                                 /\ state' = "51" => slave'.phase = "unselected"
  <2>1. /\ TickAt \in -36 .. -19 \cup -1 .. 39
        /\ TickAt <= 21 => /\ state \notin {"52", "53", "54"}
                           /\ state = "51" => slave.phase = "unselected"
    BY <1>2, <1>8 DEF Waking
  <2>2. state \notin ReadStates
    BY <1>2, <1>8 DEF Observed, WriteAims
  <2>3. CASE state = "54"
    <3>1. Place = 57 /\ Place' = 0 /\ state' = "01"
      BY <1>3, <2>3, PlaceGoes
    <3> QED BY <1>2, <2>1, <2>3, <3>1 DEF TickAt
  <2>4. CASE state # "54"
    <3>1. Place' = Place + 1
      BY <1>5, <2>2, <2>4 DEF ReadStates
    <3>2. TickAt' = TickAt
      BY <1>2, <1>6, <3>1 DEF TickAt
    <3>3. state' \in {"52", "53", "54"} =>
            \/ state = "51" /\ slave.phase # "unselected"
            \/ state \in {"52", "53"}
      BY <1>3, <2>4 DEF Goes, PlainMoves, BitMoves
    <3>4. state' = "51" => state = "50"
      BY <1>3 DEF Goes, PlainMoves, BitMoves
    <3>5. ASSUME state = "50", TickAt <= 21 PROVE slave'.phase = "unselected"
      <4>1. PICK before \in Byte : Asked(before) /\ PointedAt(Mix(before, AddressIn, TickAt))
        BY DEF Observed, Recent
      <4>2. before = ZeroByte /\ AddressIn = MPU_Init
        BY <1>2, <1>8, <4>1, AskedTypes DEF Observed
      <4>3. slave.pointer = Mix(before, AddressIn, TickAt)
        BY <3>5, <4>1 DEF PointedAt
      <4>4. slave.pointer = MPU_Init
        BY <2>1, <3>5, <4>2, <4>3, WakeInTime
      <4> QED BY <1>1, <3>5, <4>4, WriteEnds
    <3> QED BY <2>1, <3>2, <3>3, <3>4, <3>5
  <2> QED BY <2>3, <2>4
<1>9. ASSUME Read_WriteN' = 1
      PROVE  \/ state' \in {"40", "41", "50"} /\ slave'.pointer = MPU_Init
             \/ state' = "51" /\ slave'.phase = "unselected"
  <2>1. \/ state \in {"40", "41", "50"} /\ slave.pointer = MPU_Init
        \/ state = "51" /\ slave.phase = "unselected"
    BY <1>2, <1>9 DEF Waking
  <2>2. CASE state \in {"40", "41"} /\ slave.pointer = MPU_Init
    <3>1. state' \in {"40", "41", "50"}
      BY <1>3, <2>2 DEF Goes, PlainMoves, BitMoves
    <3> QED BY <1>3, <2>2, <3>1, PointerMoves
  <2>3. CASE state = "50" /\ slave.pointer = MPU_Init
    <3>1. state' = "51"
      BY <1>3, <2>3 DEF Goes, PlainMoves, BitMoves
    <3> QED BY <1>1, <2>3, <3>1, WriteEnds
  <2>4. CASE state = "51" /\ slave.phase = "unselected"
    BY <1>3, <2>4 DEF Goes, PlainMoves, BitMoves
  <2> QED BY <2>1, <2>2, <2>3, <2>4
<1> QED BY <1>4, <1>7, <1>8, <1>9 DEF Waking

\* At the second tick the controller is in the data byte or behind it.
LEMMA WakingTick ==
  ASSUME Observed, Waking, Tick PROVE Waking'
<1>1. SUFFICES ASSUME ~ asleep', ~ Woken' PROVE Waking'
  BY DEF Waking
<1>2. /\ UNCHANGED <<state, bitcount, slave, DataIn, ResetN>>
      /\ seq \in SequencerStates /\ seq' = Sequence[seq].next
      /\ Read_WriteN' = Sequence[seq].trigger
      /\ sinceTick' = 0 /\ ResetN \in {0, 1} /\ Together
  BY DEF Tick, Observed, ClocksOK, Together, TypeOK
<1>3. asleep' = IF seq = "IDLE" THEN ResetN = 0 ELSE asleep
  BY DEF Tick
<1>4. ~ Woken
  BY <1>1, <1>2 DEF Woken
<1>5. IF seq = "IDLE" THEN ResetN = 1 ELSE ~ asleep
  <2>1. CASE seq = "IDLE"
    <3>1. asleep' = (ResetN = 0)
      BY <1>3, <2>1
    <3>2. ResetN # 0
      BY <1>1, <3>1
    <3> QED BY <1>2, <2>1, <3>2
  <2>2. CASE seq # "IDLE"
    BY <1>1, <1>3, <2>2, Zenon
  <2> QED BY <2>1, <2>2
<1>6. /\ sinceTick \in {79, 80} /\ Place \in -1 .. 78 /\ TickAt = Place - sinceTick
      /\ TickAt' = Place
  BY TickFinds DEF TickAt
<1>7. PICK before \in Byte : Asked(before) /\ PointedAt(Mix(before, AddressIn, TickAt))
  BY DEF Observed, Recent
<1>8. seq' # "IDLE" /\ (Read_WriteN' = IF seq = "IDLE" THEN 0 ELSE 1)
  BY <1>2, SequenceTypes
<1>9. CASE seq = "IDLE"
  <2>1. Read_WriteN = 0 /\ Place <= sinceTick - 41
    BY <1>4, <1>7, <1>9 DEF Asked, Waking, Observed, ClocksOK
  <2>2. state \notin {"51", "52", "53", "54"}
    <3>1. state \in {"51", "52", "53", "54"} => Place >= 54
      BY <1>2, PlaceBounds, Places DEF Place, Together, TypeOK, Bits
    <3> QED BY <1>6, <2>1, <3>1
  <2>3. TickAt' \in -1 .. 39
    BY <1>6, <2>1
  <2> QED BY <1>2, <1>5, <1>8, <1>9, <2>2, <2>3 DEF Waking
<1>11. CASE seq # "IDLE" /\ Read_WriteN = 1
  <2>1. \/ state \in {"40", "41", "50"} /\ slave.pointer = MPU_Init
        \/ state = "51" /\ slave.phase = "unselected"
    BY <1>4, <1>5, <1>11 DEF Waking
  <2>2. ResetN = 1
    BY <1>4, <1>5, <1>11 DEF Waking
  <2> QED BY <1>2, <1>8, <1>11, <2>1, <2>2 DEF Waking
<1>12. CASE seq # "IDLE" /\ Read_WriteN # 1
  <2>1. seq = "START" /\ Read_WriteN = 0 /\ before = ZeroByte /\ AddressIn = MPU_Init
    <3>1. PICK p \in SequencerStates :
            /\ Sequence[p].next = seq /\ Read_WriteN = Sequence[p].trigger
            /\ AddressIn = Sequence[p].address
            /\ p = "IDLE" => before = ZeroByte
      BY <1>7, <1>12 DEF Asked
    <3>2. p = "IDLE"
      BY <1>12, <3>1, SequenceTypes
    <3> QED BY <3>1, <3>2, SequenceIs DEF Wake, MPU_Init
  <2>2. /\ TickAt \in -36 .. -19 \cup -1 .. 39
        /\ TickAt <= 21 => /\ state \notin {"52", "53", "54"}
                           /\ state = "51" => slave.phase = "unselected"
        /\ ResetN = 1
    BY <1>4, <1>5, <1>12, <2>1 DEF Waking
  <2>3. state \notin ReadStates /\ state # "EE" /\ state \in States /\ bitcount \in 0 .. 7
    BY <1>2, <1>4, <2>1 DEF Observed, WriteAims, Woken, Together, TypeOK, Bits
  <2>4. Place <= 57 /\ (Place >= 43 => state \in {"40", "41", "50", "51", "52", "53", "54"})
    BY <2>3, Places DEF Place, States, ReadStates
  <2>5. TickAt <= 21 /\ state \in {"40", "41", "50", "51"}
    BY <1>6, <2>2, <2>4
  <2>6. state \in {"40", "41", "50"} => slave.pointer = MPU_Init
    BY <1>7, <2>1, <2>2, <2>5, WakeInTime DEF PointedAt
  <2> QED BY <1>2, <1>8, <1>12, <2>2, <2>5, <2>6 DEF Waking
<1> QED BY <1>9, <1>11, <1>12

LEMMA WakingReader ==
  ASSUME Observed, Waking, [ReaderNext]_readerVars PROVE Waking'
<1>1. CASE Tick
  BY <1>1, WakingTick
<1>2. CASE ControllerStep /\ Clock
  BY <1>2, WakingClock
<1>3. CASE ~ Tick /\ ~ (ControllerStep /\ Clock)
  <2>1. /\ UNCHANGED <<state, bitcount, slave, DataIn, Read_WriteN, seq>>
        /\ ResetN' = ResetN \/ (ResetN = 0 /\ ResetN' = 1)
        /\ \/ sinceTick' = sinceTick
           \/ sinceTick' = sinceTick + 1 /\ state = "00" /\ ResetN = 0
    BY <1>3 DEF ReaderNext, ControllerStep, PowerOn, ReleaseReset, readerVars, vars,
                environs, request, Observed, ClocksOK
  <2>2. asleep' = asleep
    BY <1>3 DEF ReaderNext, ControllerStep, PowerOn, readerVars
  <2>3. SUFFICES ASSUME ~ asleep, ~ Woken PROVE Waking'
    BY <2>1, <2>2 DEF Waking, Woken
  <2>4. sinceTick \in 0 .. 80 /\ Place \in -1 .. 78 /\ Place' = Place
    <3>1. state # "EE"
      BY <2>3 DEF Woken
    <3> QED BY <2>1, <3>1, PlaceBounds DEF Observed, ClocksOK, Place
  <2>5. CASE sinceTick' = sinceTick
    <3>1. TickAt' = TickAt
      BY <2>4, <2>5 DEF TickAt
    <3> QED BY <2>1, <2>2, <2>3, <2>4, <2>5, <3>1 DEF Waking
  <2>6. CASE sinceTick' = sinceTick + 1 /\ state = "00" /\ ResetN = 0
    <3>1. seq = "IDLE" /\ Place <= sinceTick - 41
      BY <2>3, <2>6 DEF Waking
    <3>2. Read_WriteN = 0
      <4>1. PICK before \in Byte : Asked(before)
        BY DEF Observed, Recent
      <4> QED BY <3>1, <4>1 DEF Asked
    <3> QED BY <2>1, <2>4, <2>6, <3>1, <3>2 DEF Waking
  <2> QED BY <2>1, <2>5, <2>6
<1> QED BY <1>1, <1>2, <1>3

\* The device sends in a read only, and the write has come before it.
LEMMA WakingAwake ==
  ASSUME Observed, Waking PROVE AwakeWhenRead
<1> SUFFICES ASSUME ~ asleep, slave.phase = "send" PROVE slave.regs[MPU_Init] = DataIn
  BY DEF AwakeWhenRead
<1>1. state \in {"C0", "C1", "D0", "D2"}
  BY DEF Observed, Together, TypeOK, InStepInv, BitsCounted, At, States
<1>2. Read_WriteN = 1
  BY <1>1 DEF Observed, WriteAims, ReadStates, Together, TypeOK
<1>3. Woken
  BY <1>1, <1>2 DEF Waking
<1> QED BY <1>1, <1>3 DEF Woken

-----------------------------------------------------------------------------
(***************************************************************************)
(* What a tick saves, and the addresses it cannot be.                      *)
(***************************************************************************)

\* t is no mixture of old and new: it differs from old in a bit and from new in
\* that bit or a lower one.
Unlike(t, old, new) ==
  \E i, j \in Bits : i >= j /\ t[i] # old[i] /\ t[j] # new[j]

LEMMA NotTorn ==
  ASSUME NEW t, NEW old, NEW new, Unlike(t, old, new), NEW n \in Int
  PROVE  Mix(old, new, n) # t
<1>1. PICK i \in Bits, j \in Bits : i >= j /\ t[i] # old[i] /\ t[j] # new[j]
  BY DEF Unlike
<1>2. PICK m : m = Mix(old, new, n)
  OBVIOUS
<1>3. \A b \in Bits : m[b] = IF 33 - 2 * b >= n THEN new[b] ELSE old[b]
  BY <1>2 DEF Mix
<1>4. CASE 33 - 2 * i >= n
  <2>1. 33 - 2 * j >= n
    BY <1>1, <1>4 DEF Bits
  <2> QED BY <1>1, <1>2, <1>3, <2>1
<1>5. CASE ~ (33 - 2 * i >= n)
  BY <1>1, <1>2, <1>3, <1>5
<1> QED BY <1>4, <1>5

\* Bits of the addresses.
LEMMA BitOf ==
  ASSUME NEW n \in Nat, NEW i \in Bits
  PROVE  ByteOf(n)[i] = (n \div Weight[i + 1]) % 2
  BY DEF ByteOf

LEMMA AddressesInBits ==
  /\ ByteOf(59)[7] = 0 /\ ByteOf(59)[6] = 0 /\ ByteOf(59)[5] = 1 /\ ByteOf(59)[4] = 1
     /\ ByteOf(59)[3] = 1 /\ ByteOf(59)[2] = 0 /\ ByteOf(59)[1] = 1 /\ ByteOf(59)[0] = 1
  /\ ByteOf(60)[7] = 0 /\ ByteOf(60)[6] = 0 /\ ByteOf(60)[5] = 1 /\ ByteOf(60)[4] = 1
     /\ ByteOf(60)[3] = 1 /\ ByteOf(60)[2] = 1 /\ ByteOf(60)[1] = 0 /\ ByteOf(60)[0] = 0
  /\ ByteOf(61)[7] = 0 /\ ByteOf(61)[6] = 0 /\ ByteOf(61)[5] = 1 /\ ByteOf(61)[4] = 1
     /\ ByteOf(61)[3] = 1 /\ ByteOf(61)[2] = 1 /\ ByteOf(61)[1] = 0 /\ ByteOf(61)[0] = 1
  /\ ByteOf(62)[7] = 0 /\ ByteOf(62)[6] = 0 /\ ByteOf(62)[5] = 1 /\ ByteOf(62)[4] = 1
     /\ ByteOf(62)[3] = 1 /\ ByteOf(62)[2] = 1 /\ ByteOf(62)[1] = 1 /\ ByteOf(62)[0] = 0
  /\ ByteOf(63)[7] = 0 /\ ByteOf(63)[6] = 0 /\ ByteOf(63)[5] = 1 /\ ByteOf(63)[4] = 1
     /\ ByteOf(63)[3] = 1 /\ ByteOf(63)[2] = 1 /\ ByteOf(63)[1] = 1 /\ ByteOf(63)[0] = 1
  /\ ByteOf(64)[7] = 0 /\ ByteOf(64)[6] = 1 /\ ByteOf(64)[5] = 0 /\ ByteOf(64)[4] = 0
     /\ ByteOf(64)[3] = 0 /\ ByteOf(64)[2] = 0 /\ ByteOf(64)[1] = 0 /\ ByteOf(64)[0] = 0
  /\ ByteOf(67)[7] = 0 /\ ByteOf(67)[6] = 1 /\ ByteOf(67)[5] = 0 /\ ByteOf(67)[4] = 0
     /\ ByteOf(67)[3] = 0 /\ ByteOf(67)[2] = 0 /\ ByteOf(67)[1] = 1 /\ ByteOf(67)[0] = 1
  /\ ByteOf(68)[7] = 0 /\ ByteOf(68)[6] = 1 /\ ByteOf(68)[5] = 0 /\ ByteOf(68)[4] = 0
     /\ ByteOf(68)[3] = 0 /\ ByteOf(68)[2] = 1 /\ ByteOf(68)[1] = 0 /\ ByteOf(68)[0] = 0
  /\ ByteOf(69)[7] = 0 /\ ByteOf(69)[6] = 1 /\ ByteOf(69)[5] = 0 /\ ByteOf(69)[4] = 0
     /\ ByteOf(69)[3] = 0 /\ ByteOf(69)[2] = 1 /\ ByteOf(69)[1] = 0 /\ ByteOf(69)[0] = 1
  /\ ByteOf(70)[7] = 0 /\ ByteOf(70)[6] = 1 /\ ByteOf(70)[5] = 0 /\ ByteOf(70)[4] = 0
     /\ ByteOf(70)[3] = 0 /\ ByteOf(70)[2] = 1 /\ ByteOf(70)[1] = 1 /\ ByteOf(70)[0] = 0
  /\ ByteOf(71)[7] = 0 /\ ByteOf(71)[6] = 1 /\ ByteOf(71)[5] = 0 /\ ByteOf(71)[4] = 0
     /\ ByteOf(71)[3] = 0 /\ ByteOf(71)[2] = 1 /\ ByteOf(71)[1] = 1 /\ ByteOf(71)[0] = 1
  /\ ByteOf(72)[7] = 0 /\ ByteOf(72)[6] = 1 /\ ByteOf(72)[5] = 0 /\ ByteOf(72)[4] = 0
     /\ ByteOf(72)[3] = 1 /\ ByteOf(72)[2] = 0 /\ ByteOf(72)[1] = 0 /\ ByteOf(72)[0] = 0
  /\ ByteOf(107)[7] = 0 /\ ByteOf(107)[6] = 1 /\ ByteOf(107)[5] = 1 /\ ByteOf(107)[4] = 0
     /\ ByteOf(107)[3] = 1 /\ ByteOf(107)[2] = 0 /\ ByteOf(107)[1] = 1 /\ ByteOf(107)[0] = 1
  BY BitOf DEF Bits, Weight

\* A mixture at a place is one at a bit.
LEMMA MixIsTorn ==
  ASSUME NEW old, NEW new, NEW n \in Int
  PROVE  Mix(old, new, n) \in Torn(old, new)
<1> DEFINE T(l) == [i \in Bits |-> IF i >= l THEN old[i] ELSE new[i]]
<1>1. SUFFICES \E l \in 0 .. 8 : Mix(old, new, n) = T(l)
  BY DEF Torn
<1>2. CASE n <= 19
  <2>1. Mix(old, new, n) = T(8)
    BY <1>2 DEF Mix, Bits
  <2> QED BY <2>1
<1>3. CASE n > 33
  <2>1. Mix(old, new, n) = T(0)
    BY <1>3 DEF Mix, Bits
  <2> QED BY <2>1
<1>4. CASE n \in 20 .. 33
  <2>1. PICK l \in 1 .. 7 : n = 34 - 2 * l \/ n = 35 - 2 * l
    <3>1. (35 - n) \div 2 \in 1 .. 7
      BY <1>4
    <3> QED BY <1>4, <3>1
  <2>2. Mix(old, new, n) = T(l)
    BY <2>1 DEF Mix, Bits
  <2> QED BY <2>2
<1> QED BY <1>2, <1>3, <1>4

\* What DataOut can be at a tick.
LEMMA DataAtTick ==
  ASSUME Observed, Tick, ~ MayNack
  PROVE  DataOut \in {ZeroByte, DataIn}
         \/ \E before \in Byte, n \in Int :
              Asked(before) /\ DataOut = Mix(before, AddressIn, n)
<1>1. PICK before \in Byte, earlier \in Byte :
        /\ Asked(before) /\ PointedAt(Mix(before, AddressIn, TickAt))
        /\ Shown(before, earlier)
  BY DEF Observed, Recent
<1>2. Together /\ WriteAims /\ AddressIn \in Byte /\ TickAt \in Int /\ TickAt <= -1
  BY <1>1, AskedTypes, TickFinds DEF Observed
<1>3. CASE state \in {"D2", "D3", "D4", "D5"}
  <2>1. DataOut = RegisterValue(slave, slave.pointer)
    BY <1>2, <1>3 DEF Together, InStepInv, BytesAgree
  <2>2. slave.pointer = Mix(before, AddressIn, TickAt)
    BY <1>1, <1>3 DEF PointedAt, ReadStates
  <2> QED BY <1>1, <1>2, <2>1, <2>2, ReadValue
<1>4. CASE state \notin {"D2", "D3", "D4", "D5"} /\ DataOut \notin {ZeroByte, DataIn}
  <2>1. CASE TickAt <= -46
    <3>1. DataOut = Mix(before, AddressIn, TickAt + 79)
      BY <1>1, <1>4, <2>1 DEF Shown
    <3> QED BY <1>1, <1>2, <3>1
  <2>2. CASE ~ (TickAt <= -46)
    <3>1. DataOut \in {Mix(earlier, before, TickAt), Mix(earlier, before, TickAt - 1)}
      BY <1>1, <1>4, <2>2 DEF Shown
    <3>2. TickAt <= 19 /\ TickAt - 1 <= 19 /\ TickAt - 1 \in Int
      BY <1>2
    <3>3. DataOut = before
      BY <1>2, <3>1, <3>2, MixEnds
    <3>4. DataOut = Mix(before, AddressIn, 34)
      BY <1>2, <3>3, MixEnds
    <3> QED BY <1>1, <3>4
  <2> QED BY <2>1, <2>2
<1> QED BY <1>3, <1>4

\* The addresses of the last two ticks, state by state.
LEMMA AskedWas ==
  ASSUME ClocksOK, NEW before, Asked(before), seq # "IDLE"
  PROVE  /\ seq = "START" => \/ AddressIn = ByteOf(107) /\ before = ZeroByte
                             \/ AddressIn = ByteOf(72) /\ before = ByteOf(71)
         /\ seq = "READ_ACC_X_MSB" => AddressIn = ByteOf(59) /\ before \in {ByteOf(107), ByteOf(72)}
         /\ seq = "READ_ACC_Y_MSB" => AddressIn = ByteOf(61) /\ before \in {ByteOf(59)}
         /\ seq = "READ_ACC_Z_MSB" => AddressIn = ByteOf(63) /\ before \in {ByteOf(61)}
         /\ seq = "READ_GYRO_X_MSB" => AddressIn = ByteOf(64) /\ before \in {ByteOf(63)}
         /\ seq = "READ_GYRO_Y_MSB" => AddressIn = ByteOf(62) /\ before \in {ByteOf(64)}
         /\ seq = "READ_GYRO_Z_MSB" => AddressIn = ByteOf(60) /\ before \in {ByteOf(62)}
         /\ seq = "READ_ACC_X_LSB" => AddressIn = ByteOf(67) /\ before \in {ByteOf(60)}
         /\ seq = "READ_ACC_Y_LSB" => AddressIn = ByteOf(68) /\ before \in {ByteOf(67)}
         /\ seq = "READ_ACC_Z_LSB" => AddressIn = ByteOf(69) /\ before \in {ByteOf(68)}
         /\ seq = "READ_GYRO_X_LSB" => AddressIn = ByteOf(70) /\ before \in {ByteOf(69)}
         /\ seq = "READ_GYRO_Y_LSB" => AddressIn = ByteOf(71) /\ before \in {ByteOf(70)}
<1>1. PICK p \in SequencerStates :
        /\ Sequence[p].next = seq /\ AddressIn = Sequence[p].address
        /\ IF p = "IDLE" THEN before = ZeroByte
           ELSE \E q \in SequencerStates :
                  Sequence[q].next = p /\ before = Sequence[q].address
  BY DEF Asked
<1>2. CASE p = "IDLE"
  BY <1>1, <1>2, SequenceIs DEF Wake
<1>3. CASE p # "IDLE"
  <2>1. PICK q \in SequencerStates : Sequence[q].next = p /\ before = Sequence[q].address
    BY <1>1, <1>3
  <2> QED BY <1>1, <1>3, <2>1, StatesOfSequence, SequenceIs DEF Wake, Visit
<1> QED BY <1>2, <1>3

\* The register a tick's saved_* is named for is neither of the two addresses,
\* nor a mixture of them.
LEMMA SavedUnlike ==
  ASSUME ClocksOK, NEW before, Asked(before), NEW r \in SavesAt(seq) \ {"accYa"}
  PROVE  Unlike(ByteOf(NamedFor[r]), before, AddressIn)
<1> DEFINE t == ByteOf(NamedFor[r])
<1>1. seq \in SequencerStates /\ r \in Sequence[seq].saves
  BY DEF ClocksOK, SavesAt
<1>2. seq # "IDLE" /\ seq # "READ_GYRO_X_MSB"
  BY <1>1, SequenceIs DEF Wake, Visit
<1>3. \A i \in Bits : ZeroByte[i] = 0
  BY DEF ZeroByte
<1>4. CASE seq = "START"
  <2>1. t = ByteOf(59)
    BY <1>1, <1>4, SequenceIs DEF Visit, NamedFor
  <2>2. CASE AddressIn = ByteOf(107) /\ before = ZeroByte
    <3>1. t[4] # before[4] /\ t[4] # AddressIn[4]
      BY <1>3, <2>1, <2>2, AddressesInBits DEF Bits
    <3> QED BY <3>1 DEF Unlike, Bits
  <2>3. CASE AddressIn = ByteOf(72) /\ before = ByteOf(71)
    <3>1. t[6] # before[6] /\ t[6] # AddressIn[6]
      BY <2>1, <2>3, AddressesInBits
    <3> QED BY <3>1 DEF Unlike, Bits
  <2> QED BY <1>2, <1>4, <2>2, <2>3, AskedWas
<1>5. CASE seq = "READ_ACC_X_MSB"
  <2>1. t = ByteOf(61)
    BY <1>1, <1>5, SequenceIs DEF Visit, NamedFor
  <2>2. t[6] # before[6] /\ t[2] # AddressIn[2]
    BY <1>2, <1>5, <2>1, AskedWas, AddressesInBits
  <2> QED BY <2>2 DEF Unlike, Bits
<1>6. CASE seq = "READ_ACC_Y_MSB"
  <2>1. t = ByteOf(63)
    BY <1>1, <1>6, SequenceIs DEF Visit, NamedFor
  <2>2. t[2] # before[2] /\ t[1] # AddressIn[1]
    BY <1>2, <1>6, <2>1, AskedWas, AddressesInBits
  <2> QED BY <2>2 DEF Unlike, Bits
<1>7. CASE seq = "READ_ACC_Z_MSB"
  <2>1. t = ByteOf(64)
    BY <1>1, <1>7, SequenceIs DEF Visit, NamedFor
  <2>2. t[6] # before[6] /\ t[6] # AddressIn[6]
    BY <1>2, <1>7, <2>1, AskedWas, AddressesInBits
  <2> QED BY <2>2 DEF Unlike, Bits
<1>8. CASE seq = "READ_GYRO_Y_MSB"
  <2>1. t = ByteOf(60)
    BY <1>1, <1>8, SequenceIs DEF Visit, NamedFor
  <2>2. t[6] # before[6] /\ t[1] # AddressIn[1]
    BY <1>2, <1>8, <2>1, AskedWas, AddressesInBits
  <2> QED BY <2>2 DEF Unlike, Bits
<1>9. CASE seq = "READ_GYRO_Z_MSB"
  <2>1. t = ByteOf(67)
    BY <1>1, <1>9, SequenceIs DEF Visit, NamedFor
  <2>2. t[6] # before[6] /\ t[6] # AddressIn[6]
    BY <1>2, <1>9, <2>1, AskedWas, AddressesInBits
  <2> QED BY <2>2 DEF Unlike, Bits
<1>10. CASE seq = "READ_ACC_X_LSB"
  <2>1. t = ByteOf(68)
    BY <1>1, <1>10, SequenceIs DEF Visit, NamedFor
  <2>2. t[6] # before[6] /\ t[2] # AddressIn[2]
    BY <1>2, <1>10, <2>1, AskedWas, AddressesInBits
  <2> QED BY <2>2 DEF Unlike, Bits
<1>11. CASE seq = "READ_ACC_Y_LSB"
  <2>1. t = ByteOf(69)
    BY <1>1, <1>11, SequenceIs DEF Visit, NamedFor
  <2>2. t[2] # before[2] /\ t[0] # AddressIn[0]
    BY <1>2, <1>11, <2>1, AskedWas, AddressesInBits
  <2> QED BY <2>2 DEF Unlike, Bits
<1>12. CASE seq = "READ_ACC_Z_LSB"
  <2>1. t = ByteOf(70)
    BY <1>1, <1>12, SequenceIs DEF Visit, NamedFor
  <2>2. t[1] # before[1] /\ t[1] # AddressIn[1]
    BY <1>2, <1>12, <2>1, AskedWas, AddressesInBits
  <2> QED BY <2>2 DEF Unlike, Bits
<1>13. CASE seq = "READ_GYRO_X_LSB"
  <2>1. t = ByteOf(71)
    BY <1>1, <1>13, SequenceIs DEF Visit, NamedFor
  <2>2. t[1] # before[1] /\ t[0] # AddressIn[0]
    BY <1>2, <1>13, <2>1, AskedWas, AddressesInBits
  <2> QED BY <2>2 DEF Unlike, Bits
<1>14. CASE seq = "READ_GYRO_Y_LSB"
  <2>1. t = ByteOf(72)
    BY <1>1, <1>14, SequenceIs DEF Visit, NamedFor
  <2>2. t[3] # before[3] /\ t[3] # AddressIn[3]
    BY <1>2, <1>14, <2>1, AskedWas, AddressesInBits
  <2> QED BY <2>2 DEF Unlike, Bits
<1> QED BY <1>1, <1>2, <1>4, <1>5, <1>6, <1>7, <1>8, <1>9, <1>10, <1>11, <1>12, <1>13, <1>14, StatesOfSequence

-----------------------------------------------------------------------------
(***************************************************************************)
(* The theorems.                                                           *)
(***************************************************************************)

\* The invariant of all of them.
SensorInv == Observed /\ Waking

LEMMA SensorStarts == ASSUME ReaderInit PROVE SensorInv
<1>1. Waking
  <2>1. seq = "IDLE" /\ state = "00" /\ sinceTick = 40 /\ Read_WriteN = 0
    BY DEF ReaderInit
  <2>2. Place = -1
    BY <2>1 DEF Place, PlaceOf
  <2> QED BY <2>1, <2>2 DEF Waking
<1> QED BY <1>1, ReaderStarts DEF SensorInv

LEMMA SensorSteps == ASSUME SensorInv, [ReaderNext]_readerVars PROVE SensorInv'
  BY ObservedReader, WakingReader DEF SensorInv

\* The sensor registers are not among those the one write can reach.
LEMMA SensorsSafe == ASSUME Observed PROVE SensorsNotOverwritten
<1> SUFFICES ASSUME NEW a \in Addrs \cap SensorRegisters, a \in WakeAddresses
             PROVE  FALSE
  BY DEF SensorsNotOverwritten, Observed, WriteAims
<1>1. a \in {ByteOf(59), ByteOf(60), ByteOf(61), ByteOf(62), ByteOf(63), ByteOf(64),
             ByteOf(67), ByteOf(68), ByteOf(69), ByteOf(70), ByteOf(71), ByteOf(72)}
  BY DEF SensorRegisters, NamedFor
<1>2. \A i \in Bits : ZeroByte[i] = 0
  BY DEF ZeroByte
<1>3. PICK n \in Int : Mix(ZeroByte, MPU_Init, n) = a
  BY DEF WakeAddresses
<1>4. CASE a \in {ByteOf(59), ByteOf(60), ByteOf(61), ByteOf(62), ByteOf(63)}
  <2>1. a[4] # ZeroByte[4] /\ a[4] # MPU_Init[4]
    BY <1>2, <1>4, AddressesInBits DEF MPU_Init, Bits
  <2>2. Unlike(a, ZeroByte, MPU_Init)
    BY <2>1 DEF Unlike, Bits
  <2> QED BY <1>3, <2>2, NotTorn
<1>5. CASE a \notin {ByteOf(59), ByteOf(60), ByteOf(61), ByteOf(62), ByteOf(63)}
  <2>1. a[6] # ZeroByte[6] /\ a[5] # MPU_Init[5]
    BY <1>1, <1>2, <1>5, AddressesInBits DEF MPU_Init, Bits
  <2>2. Unlike(a, ZeroByte, MPU_Init)
    BY <2>1 DEF Unlike, Bits
  <2> QED BY <1>3, <2>2, NotTorn
<1> QED BY <1>4, <1>5

(***************************************************************************)
(* The sensor is only observed, whether or not it refuses a byte: with the *)
(* controller released before the first tick the device has what DataIn    *)
(* says in register 6B before it sends anything, and no register that the  *)
(* sequencer reads is ever overwritten, though address and Read_WriteN     *)
(* change in the middle of a transaction (FIFO_I2C_BUFFER.v's case).       *)
(***************************************************************************)
THEOREM SensorUndisturbed == ReaderSpec => []SensorIsObserved
<1>1. ReaderInit => SensorInv
  BY SensorStarts
<1>2. SensorInv /\ [ReaderNext]_readerVars => SensorInv'
  BY SensorSteps
<1>3. SensorInv => SensorIsObserved
  BY SensorsSafe, WakingAwake DEF SensorInv, SensorIsObserved
<1> QED BY <1>1, <1>2, <1>3, PTL DEF ReaderSpec

(***************************************************************************)
(* A byte saved at a tick is that of a register asked for at one of the    *)
(* last two ticks, or at an address torn between the two, as long as the   *)
(* device refuses nothing (data_buffer of FIFO_I2C_BUFFER.v).  After a     *)
(* refusal the controller stands in EE and the last byte is saved for good.*)
(***************************************************************************)
THEOREM SavedBytesAreRecent ==
  ASSUME ~ MayNack
  PROVE  ReaderSpec => SavedIsRecent
<1>1. ReaderInit => Observed
  BY ReaderStarts
<1>2. Observed /\ [ReaderNext]_readerVars => Observed'
  BY ObservedReader
<1> DEFINE Saves == (seq' # seq /\ SavesAt(seq) # {}) =>
                      \/ DataOut \in {ZeroByte, DataIn}
                      \/ \E old \in SetBefore(seq) \cup {ZeroByte} :
                           DataOut \in Torn(old, AddressIn)
<1>3. Observed /\ [ReaderNext]_readerVars => [Saves]_readerVars
  <2> SUFFICES ASSUME Observed, [ReaderNext]_readerVars, seq' # seq,
                      DataOut \notin {ZeroByte, DataIn}
               PROVE  \E old \in SetBefore(seq) \cup {ZeroByte} :
                        DataOut \in Torn(old, AddressIn)
    OBVIOUS
  <2>1. Tick
    BY DEF ReaderNext, ControllerStep, PowerOn, readerVars
  <2>2. PICK before \in Byte, n \in Int :
          Asked(before) /\ DataOut = Mix(before, AddressIn, n)
    BY <2>1, DataAtTick
  <2>3. DataOut \in Torn(before, AddressIn)
    BY <2>2, MixIsTorn
  <2>4. before \in SetBefore(seq) \cup {ZeroByte}
    BY <2>2 DEF Asked, SetBefore
  <2> QED BY <2>3, <2>4
<1> QED BY <1>1, <1>2, <1>3, PTL DEF ReaderSpec, SavedIsRecent

(***************************************************************************)
(* No saved_* register but saved_accYa ever holds the register it is named *)
(* for.  Each register stands for its own address; DataIn, which DataOut   *)
(* shows after a write, must not be mistaken for one of them.              *)
(***************************************************************************)
THEOREM SavedUnderAnotherName ==
  ASSUME ~ MayNack, \A r \in Watched : ByteOf(NamedFor[r]) \notin Values
  PROVE  ReaderSpec => []NeverItsOwnRegister
<1> DEFINE SavedInv == DOMAIN saved = Watched /\ Observed /\ NeverItsOwnRegister
<1>1. \A r \in Watched : ByteOf(NamedFor[r]) # ZeroByte
  <2> SUFFICES ASSUME NEW r \in Watched PROVE ByteOf(NamedFor[r]) # ZeroByte
    OBVIOUS
  <2>1. NamedFor[r] \in {59, 60, 61, 62, 63, 64, 67, 68, 69, 70, 71, 72}
    BY ReaderAssumption DEF NamedFor
  <2>2. ByteOf(NamedFor[r])[6] = 1 \/ ByteOf(NamedFor[r])[5] = 1
    BY <2>1, AddressesInBits
  <2> QED BY <2>2 DEF ZeroByte, Bits
<1>2. ReaderInit => SavedInv
  <2> SUFFICES ASSUME ReaderInit PROVE SavedInv
    OBVIOUS
  <2>1. saved = [r \in Watched |-> ZeroByte] /\ Observed
    BY ReaderStarts DEF ReaderInit
  <2> QED BY <1>1, <2>1 DEF NeverItsOwnRegister
<1>3. SavedInv /\ [ReaderNext]_readerVars => SavedInv'
  <2> SUFFICES ASSUME SavedInv, [ReaderNext]_readerVars PROVE SavedInv'
    OBVIOUS
  <2>1. Observed'
    BY ObservedReader
  <2>2. CASE Tick
    <3>1. saved' = [r \in Watched |-> IF r \in SavesAt(seq) THEN DataOut ELSE saved[r]]
      BY <2>2 DEF Tick
    <3>2. ASSUME NEW r \in Watched \ {"accYa"} PROVE saved'[r] # ByteOf(NamedFor[r])
      <4>1. CASE r \in SavesAt(seq)
        <5>1. DataOut # ByteOf(NamedFor[r])
          <6>1. CASE DataOut \in {ZeroByte, DataIn}
            <7>1. DataIn \in Values
              BY DEF Observed, Together, TypeOK
            <7> QED BY <1>1, <6>1, <7>1
          <6>2. CASE DataOut \notin {ZeroByte, DataIn}
            <7>1. PICK before \in Byte, n \in Int :
                    Asked(before) /\ DataOut = Mix(before, AddressIn, n)
              BY <2>2, <6>2, DataAtTick
            <7>2. Unlike(ByteOf(NamedFor[r]), before, AddressIn)
              BY <3>2, <4>1, <7>1, SavedUnlike DEF Observed
            <7> QED BY <7>1, <7>2, NotTorn
          <6> QED BY <6>1, <6>2
        <5> QED BY <3>1, <4>1, <5>1
      <4>2. CASE r \notin SavesAt(seq)
        BY <3>1, <4>2 DEF NeverItsOwnRegister
      <4> QED BY <4>1, <4>2
    <3> QED BY <2>1, <3>1, <3>2 DEF NeverItsOwnRegister
  <2>3. CASE ~ Tick
    <3>1. saved' = saved
      BY <2>3 DEF ReaderNext, ControllerStep, PowerOn, readerVars
    <3> QED BY <2>1, <3>1 DEF NeverItsOwnRegister
  <2> QED BY <2>2, <2>3
<1>4. SavedInv => NeverItsOwnRegister
  OBVIOUS
<1> HIDE DEF SavedInv
<1> QED BY <1>2, <1>3, <1>4, PTL DEF ReaderSpec
=============================================================================
