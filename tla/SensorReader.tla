---------------------------- MODULE SensorReader ----------------------------
(***************************************************************************)
(* EDC/FIFO-fix/FIFO_I2C_BUFFER.v: a sequencer on slow_clk that walks      *)
(* through the accelerometer and gyroscope registers, driving AddressIn    *)
(* and Read_WriteN of the I2C controller, and saves DataOut on every tick. *)
(* Nothing tells it when the controller starts or ends a transaction.      *)
(*                                                                         *)
(* Both clocks come from CLK_50_MHz.  clockdiv.v toggles slow_clk after    *)
(* counting 0 .. 10000, so a tick comes every 20002 cycles; the divider of *)
(* I2C_controller.vhd counts 0 .. 250, so a controller step takes 251.     *)
(* A tick thus comes 79 or 80 steps after the one before (20002 = 79 * 251 *)
(* + 173), the first one 39 or 40 steps after power-up; every order of the *)
(* two that this allows is in the model.                                   *)
(***************************************************************************)
EXTENDS I2CController

CONSTANT Watched      \* the saved_* registers kept in the model

VARIABLES seq,        \* state of the sequencer
          saved,      \* its saved_* registers
          sinceTick,  \* controller steps since the last tick
          asleep      \* history: was the controller in reset at the first tick?

readerVars == <<vars, seq, saved, sinceTick, asleep>>

(***************************************************************************)
(* What the sequencer does in each state: the successor, the address and   *)
(* trigger it sets, and the register that takes data_buffer.               *)
(***************************************************************************)
\* (Mutant: the sensor registers are written.)
VisitWriting(next, address, saves) ==
  [next |-> next, address |-> ByteOf(address), trigger |-> 0, saves |-> {saves}]

Visit(next, address, saves) ==
  [next |-> next, address |-> ByteOf(address), trigger |-> 1, saves |-> {saves}]

Wake ==
  [next |-> "START", address |-> ByteOf(107), trigger |-> 0, saves |-> {}]

Sequence ==
  [IDLE           |-> Wake,
   START          |-> Visit("READ_ACC_X_MSB",  59, "accX"),
   READ_ACC_X_MSB |-> Visit("READ_ACC_Y_MSB",  61, "accY"),
   READ_ACC_Y_MSB |-> Visit("READ_ACC_Z_MSB",  63, "accZ"),
   READ_ACC_Z_MSB |-> Visit("READ_GYRO_X_MSB", 64, "accZa"),
   READ_GYRO_X_MSB |-> Visit("READ_GYRO_Y_MSB", 62, "accYa"),
   READ_GYRO_Y_MSB |-> Visit("READ_GYRO_Z_MSB", 60, "accXa"),
   READ_GYRO_Z_MSB |-> Visit("READ_ACC_X_LSB", 67, "gyX"),
   READ_ACC_X_LSB  |-> Visit("READ_ACC_Y_LSB", 68, "gyXa"),
   READ_ACC_Y_LSB  |-> Visit("READ_ACC_Z_LSB", 69, "gyY"),
   READ_ACC_Z_LSB  |-> Visit("READ_GYRO_X_LSB", 70, "gyYa"),
   READ_GYRO_X_LSB |-> Visit("READ_GYRO_Y_LSB", 71, "gyZ"),
   READ_GYRO_Y_LSB |-> Visit("START", 72, "gyZa")]

SequencerStates == DOMAIN Sequence

\* (Mutant: one tick later.)
SavesLater(s) ==
  UNION {Sequence[p].saves : p \in {p \in SequencerStates : Sequence[p].next = s}}

\* The register saved by the tick in state s.
SavesAt(s) == Sequence[s].saves

\* The register of the device each saved_* register is named for.
NamedFor ==
  [accX |-> 59, accXa |-> 60, accY |-> 61, accYa |-> 62, accZ |-> 63,
   accZa |-> 64, gyX |-> 67, gyXa |-> 68, gyY |-> 69, gyYa |-> 70,
   gyZ |-> 71, gyZa |-> 72]

\* Every address the sequencer puts out is one of the device's, and address
\* and trigger change whatever the controller is doing.
ASSUME ReaderAssumption ==
  /\ {Sequence[s].address : s \in SequencerStates} \cup {ZeroByte} \subseteq Addrs
  /\ Watched \subseteq DOMAIN NamedFor
  /\ ~ InputsHeld

\* Controller steps from tick to tick: this many or one more.
\* (Mutant: a slow_clk of more than twice the rate.)
FastTick == 30
TickSteps == 79

(***************************************************************************)
(* A tick.  "if (ResetN == 1 || Read_WriteN == 0)" at its head has no      *)
(* effect: each branch of the case statement that follows assigns state    *)
(* and trigger again.                                                      *)
(***************************************************************************)
Tick ==
  /\ sinceTick >= TickSteps
  /\ asleep' = IF seq = "IDLE" THEN ResetN = 0 ELSE asleep
  /\ sinceTick' = 0
  /\ LET visit == Sequence[seq] IN
     /\ seq' = visit.next
     /\ AddressIn' = visit.address
     /\ Read_WriteN' = visit.trigger
     /\ saved' = [r \in Watched |->
                    IF r \in SavesAt(seq) THEN DataOut ELSE saved[r]]
  /\ UNCHANGED <<state, SCL, SDA01, bitcount, Ack, RegisterAddress, Data,
                 DataOut, RegisterAddressOut, slave, DataIn, ResetN, resets>>

\* A rising edge of CLK_200k_Hz, which does nothing while ResetN is low.
ControllerStep ==
  /\ sinceTick <= TickSteps
  /\ sinceTick' = sinceTick + 1
  /\ Clock \/ (ResetN = 0 /\ UNCHANGED vars)
  /\ UNCHANGED <<seq, saved, asleep>>

PowerOn ==
  /\ ReleaseReset
  /\ UNCHANGED <<seq, saved, sinceTick, asleep>>

(***************************************************************************)
(* Each register of the device is given its own address as content, so     *)
(* that a saved byte tells where it came from.  DataIn is wired to pins of *)
(* the top level: datainputbuffer of the sequencer is not connected.       *)
(***************************************************************************)
ReaderInit ==
  /\ state = "00" /\ SCL = 1 /\ SDA01 = 1 /\ bitcount = 0 /\ Ack = 0
  /\ RegisterAddress = ByteOf(255)
  /\ Data = ZeroByte /\ DataOut = ZeroByte /\ RegisterAddressOut = ZeroByte
  /\ ResetN = 0 /\ resets = 0
  /\ AddressIn = ZeroByte /\ DataIn \in Values /\ Read_WriteN = 0
  /\ slave = PoweredUp([a \in Addrs |-> a])
  /\ seq = "IDLE" /\ sinceTick = 40 /\ asleep = FALSE
  /\ saved = [r \in Watched |-> ZeroByte]

ReaderNext == Tick \/ ControllerStep \/ PowerOn

ReaderSpec == ReaderInit /\ [][ReaderNext]_readerVars
                         /\ WF_readerVars(Tick) /\ WF_readerVars(ControllerStep)
                         /\ WF_readerVars(PowerOn)
(***************************************************************************)
(* Properties.                                                             *)
(***************************************************************************)
MPU_Init == ByteOf(107)

\* The addresses set by the tick before the last one, in sequencer state s.
SetBefore(s) ==
  {Sequence[q].address : q \in {q \in SequencerStates :
     \E p \in SequencerStates : Sequence[q].next = p /\ Sequence[p].next = s}}

\* The address the device receives when "old" gives way to "new" in the
\* middle of the byte, which is sampled from bit 7 down to bit 0.
Torn(old, new) ==
  {[i \in Bits |-> IF i >= k THEN old[i] ELSE new[i]] : k \in 0 .. 8}

(***************************************************************************)
(* A saved byte is the content of a register requested one or two ticks    *)
(* before it is saved, or of one whose address is half the one and half    *)
(* the other: never of anything older, and never a byte still on its way.  *)
(* (Zero: no read has been completed yet, or there is no such register;    *)
(* DataIn: the controller shows what it writes on DataOut, too.)           *)
(***************************************************************************)
SavedIsRecent ==
  [][(seq' # seq /\ SavesAt(seq) # {}) =>
       \/ DataOut \in {ZeroByte, DataIn}
       \/ \E old \in SetBefore(seq) \cup {ZeroByte} :
            DataOut \in Torn(old, AddressIn)]_readerVars

(***************************************************************************)
(* Because it is one or two ticks late, a saved byte is not the register   *)
(* it is named for: saved_accXa, which DataOut shows, takes the low byte   *)
(* of the Y or the Z axis, and so on round the sequence.  Only saved_accYa *)
(* can hold its own register, when the address is torn between 3F and 40   *)
(* at the last bit.                                                        *)
(***************************************************************************)
NeverItsOwnRegister ==
  \A r \in Watched \ {"accYa"} : saved[r] # ByteOf(NamedFor[r])

(***************************************************************************)
(* The device leaves its sleep mode when DataIn is written to its register *)
(* 6B.  The sequencer asks for that once, in its first tick, whether or    *)
(* not the controller runs: released from reset before that tick, the      *)
(* controller does the write, and does it before it reads anything.        *)
(***************************************************************************)
AwakeWhenRead == ~ asleep /\ slave.phase = "send" => slave.regs[MPU_Init] = DataIn

(***************************************************************************)
(* With Read_WriteN and AddressIn changing under the controller, the one   *)
(* write is never taken for a sensor register, nor a sensor register's     *)
(* address for a write.                                                    *)
(***************************************************************************)
SensorRegisters == {ByteOf(NamedFor[r]) : r \in DOMAIN NamedFor}

SensorsNotOverwritten == \A a \in Addrs \cap SensorRegisters : slave.regs[a] = a

\* Awake when it is read and never written to: the sensor is only observed.
SensorIsObserved == AwakeWhenRead /\ SensorsNotOverwritten
=============================================================================
