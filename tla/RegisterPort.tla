---------------------------- MODULE RegisterPort ----------------------------
(***************************************************************************)
(* What the I2C master promises a client that holds its request: it goes   *)
(* round for ever, and each round reads the register asked for into "out"  *)
(* or writes the data given into it, once and as a whole - until the       *)
(* device refuses a byte, after which it does nothing more.  A reset ends  *)
(* all promises.                                                           *)
(***************************************************************************)
CONSTANTS Addrs, Values

VARIABLES AddressIn, DataIn, Read_WriteN,      \* the client's request
          regs,                                \* the device's registers
          out,                                 \* what the client sees
          phase                                \* of the current round

request == <<AddressIn, DataIn, Read_WriteN>>
vars    == <<request, regs, out, phase>>

Init ==
  /\ AddressIn \in Addrs /\ DataIn \in Values /\ Read_WriteN \in {0, 1}
  /\ regs \in [Addrs -> Values]
  /\ phase = "idle"

Ask ==
  /\ phase = "idle"
  /\ AddressIn' \in Addrs /\ DataIn' \in Values /\ Read_WriteN' \in {0, 1}
  /\ UNCHANGED <<regs, out, phase>>

Begin == phase = "idle" /\ phase' = "busy" /\ UNCHANGED <<request, regs, out>>

Serve ==
  /\ phase = "busy"
  /\ phase' = "served"
  /\ \/ /\ Read_WriteN = 1
        /\ out' = regs[AddressIn]
        /\ UNCHANGED regs
     \/ /\ Read_WriteN = 0
        /\ out' = DataIn
        /\ regs' = [regs EXCEPT ![AddressIn] = DataIn]
  /\ UNCHANGED request

\* The device refuses its address or the register's, or the data of a write,
\* which the client then sees although it is not stored.
Refuse ==
  /\ phase = "busy"
  /\ phase' = "refused"
  /\ \/ UNCHANGED out
     \/ Read_WriteN = 0 /\ out' = DataIn
  /\ UNCHANGED <<request, regs>>

Finish == phase = "served" /\ phase' = "idle" /\ UNCHANGED <<request, regs, out>>

Abandon == phase' = "abandoned"

Next == Ask \/ Begin \/ Serve \/ Refuse \/ Finish \/ Abandon

Spec == Init /\ [][Next]_vars
             /\ WF_vars(Begin) /\ WF_vars(Serve \/ Refuse) /\ WF_vars(Finish)
=============================================================================
