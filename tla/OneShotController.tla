------------------------- MODULE OneShotController --------------------------
(***************************************************************************)
(* EDC/I2C_controller.vhd, the controller that de2top.bdf of that directory*)
(* puts on a board with switches for its inputs: module I2CController but  *)
(* for two things.  The states after STOP repeat themselves, so that there *)
(* is one transaction for each reset; and a write sends the constant       *)
(* Wake_Up whatever is on DataIn.                                          *)
(***************************************************************************)
EXTENDS I2CController

CONSTANT ResetWhenDone   \* a reset is given only when nothing more happens

ASSUME ResetAssumption == ResetWhenDone \in BOOLEAN

Wake_Up == ZeroByte

\* (Mutant: the controller goes on after STOP.)
FinalAgain(release) == Step(release, "01", 1, 1)

DataToSend == Wake_Up
Final(release) == Step(release, release, 1, 1)

SendWakeUp ==                                              \* 40, 41, 50, 51
  \/ PutBit("40", DataToSend, "41")
  \/ ClockBit("41", "40", "50")
  \/ /\ Release("50", "51")
     /\ RegisterAddressOut' = AddressIn
     /\ DataOut' = DataToSend
     /\ UNCHANGED <<bitcount, Ack, RegisterAddress, Data>>
  \/ /\ CheckAck("51", 81, "52")
     /\ UNCHANGED <<bitcount, RegisterAddress, Data, DataOut>>

StopOnce(low, high, release) ==                \* 52, 53, 54 and D3, D4, D5
  /\ \/ Step(low, high, 0, 0)
     \/ Step(high, release, 1, 0)
     \/ Final(release)
  /\ Keep

OneShotClock ==
  \/ Idle
  \/ Start("01", "02")
  \/ SelectForWrite
  \/ SendRegisterAddress
  \/ SendWakeUp
  \/ StopOnce("52", "53", "54")
  \/ RepeatStart
  \/ SelectForRead
  \/ ReceiveData
  \/ StopOnce("D3", "D4", "D5")
  \/ Error

FinalStates == {"54", "D5", "EE"}
Done == state \in FinalStates /\ SDA01 = 1 /\ SCL = 1

ResetByHand == (ResetWhenDone => Done) /\ AssertReset

OneShotNext == OneShotClock \/ ResetByHand \/ ReleaseReset \/ ChangeRequest

\* The clock never stops, and a reset button is let go.
OneShotSpec ==
  /\ Init /\ [][OneShotNext]_vars
  /\ WF_vars(OneShotClock) /\ WF_vars(ReleaseReset)

(***************************************************************************)
(* Properties.                                                             *)
(***************************************************************************)

(***************************************************************************)
(* Controller and device never lose step, in the transaction after any     *)
(* reset, when a reset is given only to a controller that is done.  Having *)
(* sent STOP the controller stays, and the device is out of the            *)
(* conversation.                                                           *)
(***************************************************************************)
InStepAfterResets ==
  ResetWhenDone /\ ResetN = 1 =>
    \/ <<slave.phase, slave.count>> \in Conversation
    \/ Done /\ slave.phase = "unselected"

(***************************************************************************)
(* The transaction after the last reset is the last one: the controller    *)
(* comes to the end of it, or to a refusal, and stays there.               *)
(***************************************************************************)
EndsInSilence == <>[](Done \/ resets < MaxResets)

(***************************************************************************)
(* The states after STOP and after a refusal are left by reset only, and   *)
(* neither wire moves in them once SDA is released: however the requests   *)
(* change, the device sees no second START.                                *)
(***************************************************************************)
NoSecondStart ==
  [][resets' = resets /\ state \in FinalStates =>
       state' \in FinalStates /\ (Done => SCL' = SCL /\ SDA' = SDA)]_vars

(***************************************************************************)
(* What a write leaves in a register of the device is Wake_Up, whatever    *)
(* the inputs were and whenever they changed.                              *)
(***************************************************************************)
WritesWakeUp ==
  [][\A r \in DOMAIN slave.regs :
       slave'.regs[r] # slave.regs[r] => slave'.regs[r] = Wake_Up]_vars

(***************************************************************************)
(* One transaction at most for each reset: in step with the device, which  *)
(* writes Wake_Up or nothing.                                              *)
(***************************************************************************)
OneAtMostEach == []InStepAfterResets /\ NoSecondStart /\ WritesWakeUp

(***************************************************************************)
(* All of it: one transaction for each reset, and then silence.            *)
(***************************************************************************)
OneTransactionEach == OneAtMostEach /\ EndsInSilence
===========================================================================
