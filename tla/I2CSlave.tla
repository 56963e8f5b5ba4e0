------------------------------ MODULE I2CSlave ------------------------------
(***************************************************************************)
(* The device at the other end of the two wires: the MPU-6050 that         *)
(* I2C_controller.vhd addresses as 1101000.  It is not part of the         *)
(* repository; it is modelled as far as the controller relies on it: it    *)
(* recognises START and STOP, acknowledges bytes it accepts, keeps a       *)
(* register pointer, stores written bytes and shifts out read bytes.       *)
(*                                                                         *)
(* The device is a record and its reactions are operators on that record,  *)
(* so that the module that owns the wires can apply them in the same step  *)
(* as the edge they react to.                                              *)
(***************************************************************************)
EXTENDS Integers

Bits == 0 .. 7
Byte == [Bits -> {0, 1}]

\* The byte with a given value, and the value of a byte.
Weight    == <<1, 2, 4, 8, 16, 32, 64, 128>>
ByteOf(n) == [i \in Bits |-> (n \div Weight[i + 1]) % 2]
ValueOf(b) == b[0] + 2 * b[1] + 4 * b[2] + 8 * b[3]
              + 16 * b[4] + 32 * b[5] + 64 * b[6] + 128 * b[7]

ZeroByte == [i \in Bits |-> 0]

(***************************************************************************)
(* What the device is doing with the bits on the wire: nothing, receiving  *)
(* the byte that selects it, receiving the register pointer, receiving     *)
(* data to store, or sending the register it points to.                    *)
(***************************************************************************)
Receiving == {"select", "pointer", "store"}
Phases    == Receiving \cup {"unselected", "send"}

(***************************************************************************)
(* phase   what the bits mean                                              *)
(* count   clock pulses seen in this byte; the ninth is the acknowledgment *)
(* byte    the bits received, or the byte being sent                       *)
(* pointer the register pointer                                            *)
(* drive   0 when the device pulls SDA down, 1 when it leaves it alone     *)
(* regs    its registers; the ones outside DOMAIN regs read as zero        *)
(***************************************************************************)
Slave(Addrs, Values) ==
  [phase : Phases, count : 0 .. 9, byte : Byte, pointer : Byte,
   drive : {0, 1}, regs : [Addrs -> Values]]

RegisterValue(s, p) == IF p \in DOMAIN s.regs THEN s.regs[p] ELSE ZeroByte

PoweredUp(regs) ==
  [phase |-> "unselected", count |-> 0, byte |-> ZeroByte,
   pointer |-> ZeroByte, drive |-> 1, regs |-> regs]

\* SDA falls while SCL is high.
SeesStart(s) == [s EXCEPT !.phase = "select", !.count = 0, !.drive = 1]

\* SDA rises while SCL is high.
SeesStop(s) == [s EXCEPT !.phase = "unselected", !.drive = 1]

(***************************************************************************)
(* SCL rises with value b on SDA: a receiver takes the bit, a sender takes *)
(* the ninth bit as the master's acknowledgment and stops on a 1.          *)
(***************************************************************************)
SeesRise(s, b) ==
  CASE s.phase = "unselected" -> s
    [] s.phase \in Receiving /\ s.count < 8 ->
         [s EXCEPT !.byte[7 - s.count] = b, !.count = @ + 1]
    [] s.phase = "send" /\ s.count = 8 /\ b = 1 ->
         [s EXCEPT !.phase = "unselected", !.count = 9]
    [] OTHER -> [s EXCEPT !.count = IF @ < 9 THEN @ + 1 ELSE @]

IsSelectedBy(b, own) == \A i \in 1 .. 7 : b[i] = own[i]

NextPointer(p) == ByteOf((ValueOf(p) + 1) % 256)

Sending(s, p) ==
  [s EXCEPT !.phase = "send", !.count = 0, !.pointer = p,
            !.byte = RegisterValue(s, p), !.drive = RegisterValue(s, p)[7]]

(***************************************************************************)
(* SCL falls.  After the eighth bit a receiver acknowledges, if "ok" lets  *)
(* it, and acts on the byte; after the ninth it goes on to the next byte;  *)
(* a sender puts out its next bit, or releases SDA for the ninth.          *)
(***************************************************************************)
SeesFall(s, own, ok) ==
  CASE s.phase = "unselected" -> [s EXCEPT !.drive = 1]
    [] s.phase \in Receiving /\ s.count = 8 ->
         IF ~ok \/ (s.phase = "select" /\ ~IsSelectedBy(s.byte, own))
         THEN [s EXCEPT !.phase = "unselected"]
         ELSE [s EXCEPT
                 !.drive   = 0,
                 !.pointer = IF s.phase = "pointer" THEN s.byte ELSE @,
                 !.regs    = IF s.phase = "store" /\ s.pointer \in DOMAIN @
                             THEN [@ EXCEPT ![s.pointer] = s.byte] ELSE @]
    [] s.phase = "select" /\ s.count = 9 ->
         IF s.byte[0] = 1 THEN Sending(s, s.pointer)
         ELSE [s EXCEPT !.phase = "pointer", !.count = 0, !.drive = 1]
    [] s.phase = "pointer" /\ s.count = 9 ->
         [s EXCEPT !.phase = "store", !.count = 0, !.drive = 1]
    [] s.phase = "store" /\ s.count = 9 ->
         [s EXCEPT !.count = 0, !.drive = 1, !.pointer = NextPointer(@)]
    [] s.phase = "send" /\ s.count < 8 ->
         [s EXCEPT !.drive = s.byte[7 - s.count]]
    [] s.phase = "send" /\ s.count = 8 -> [s EXCEPT !.drive = 1]
    [] s.phase = "send" /\ s.count = 9 -> Sending(s, NextPointer(s.pointer))
    [] OTHER -> s
=============================================================================
